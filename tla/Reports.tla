------------------------------ MODULE Reports ------------------------------
(* The figures the platform reports about an exam: the analytics overview,   *)
(* the exam, student and subject reports and the system overview each pick   *)
(* one official attempt per student and exam out of the same result rows,    *)
(* and each shows figures of its own.                                        *)
EXTENDS Integers, Sequences, FiniteSets, FiniteSetsExt

CONSTANTS
  Students, Exams,
  Marked,        \* what an attempt can earn: [score, max], out of its exam's total then
  PassMark,      \* the percentage that passes, in hundredths
  MaxRows,       \* bound: results filed
  MaxTime        \* bound: the clock

VARIABLES
  rows,          \* the result table, in the order it was written
  now
vars == <<rows, now>>

Init ==
  /\ rows = << >>
  /\ now = 0

(* The percentage of a result, rounded to hundredths. *)
Percentage(m) == (20000 * m.score + m.max) \div (2 * m.max)

Attempts(s, e) == {i \in DOMAIN rows : rows[i].student = s /\ rows[i].exam = e}

(* An attempt started at some earlier moment is submitted and marked. *)
FileAttempt ==
  /\ Len(rows) < MaxRows
  /\ \E s \in Students, e \in Exams, m \in Marked, from \in 0 .. now :
       /\ \A i \in Attempts(s, e) : rows[i].at <= from
       /\ rows' = Append(rows, [student |-> s, exam |-> e, marks |-> m,
                                percentage |-> Percentage(m),
                                number |-> Cardinality(Attempts(s, e)) + 1,
                                from |-> from, at |-> now])
  /\ UNCHANGED now

(* A grader changes the marks of a result. *)
Regrade ==
  /\ \E i \in DOMAIN rows, m \in Marked :
       rows' = [rows EXCEPT ![i] = [@ EXCEPT !.marks = m, !.percentage = Percentage(m)]]
  /\ UNCHANGED now

Tick == now < MaxTime /\ now' = now + 1 /\ UNCHANGED rows

Next == FileAttempt \/ Regrade \/ Tick
Spec == Init /\ [][Next]_vars

-----------------------------------------------------------------------------
(* A candidate of selectBestAttempt, as toAttemptCandidate and examAnalytics  *)
(* make one; the analytics overview does not know when an attempt started,    *)
(* and the table of subjects not even its number.                             *)
ReportCandidate == [i \in DOMAIN rows |->
  [percentage |-> rows[i].percentage, minutes |-> rows[i].at - rows[i].from,
   at |-> rows[i].at, number |-> rows[i].number]]
AnalyticsCandidate == [i \in DOMAIN rows |-> [ReportCandidate[i] EXCEPT !.minutes = 0]]
SubjectCandidate   == [i \in DOMAIN rows |-> [AnalyticsCandidate[i] EXCEPT !.number = 0]]

(* The order of selectBestAttempt: highest score, longest time, earliest      *)
(* submission, first attempt.                                                 *)
Before(a, b) ==
  \/ a.percentage > b.percentage
  \/ a.percentage = b.percentage /\ a.minutes > b.minutes
  \/ a.percentage = b.percentage /\ a.minutes = b.minutes /\ a.at < b.at
  \/ /\ a.percentage = b.percentage /\ a.minutes = b.minutes /\ a.at = b.at
     /\ a.number < b.number

(* The attempt that is sorted first; the sort keeps the order of ties. *)
BestAttempt(cand, bucket) ==
  CHOOSE i \in bucket : \A j \in bucket :
    ~Before(cand[j], cand[i]) /\ (Before(cand[i], cand[j]) \/ i <= j)

(* Grouping by student alone, as a report over several exams must not. *)
BucketOfStudent(i, seen) == {j \in seen : rows[j].student = rows[i].student}

(* selectOfficialResults groups the rows it is given by student and exam. *)
Bucket(i, seen) == {j \in seen : rows[j].student = rows[i].student /\ rows[j].exam = rows[i].exam}

Official(cand, seen) == {i \in seen : i = BestAttempt(cand, Bucket(i, seen))}

Percentages(counted) == MapThenSumSet(LAMBDA i : rows[i].percentage, counted)
Scores(counted)      == MapThenSumSet(LAMBDA i : rows[i].marks.score, counted)
Maxima(counted)      == MapThenSumSet(LAMBDA i : rows[i].marks.max, counted)
Passed(counted)      == {i \in counted : rows[i].percentage >= PassMark}

OfExam(e)    == {i \in DOMAIN rows : rows[i].exam = e}
OfStudent(s) == {i \in DOMAIN rows : rows[i].student = s}

(* What each report shows: an average is the total by the number of results,  *)
(* a pass rate the number passed by it; the student's average is the score    *)
(* by the maximum.                                                            *)
ExamAnalytics(e) ==
  LET official == Official(ReportCandidate, OfExam(e))
  IN [results |-> Cardinality(official), percentages |-> Percentages(official),
      score |-> Scores(official), passed |-> Cardinality(Passed(official))]

StudentReport(s) ==
  LET official == Official(ReportCandidate, OfStudent(s))
  IN [results |-> Cardinality(official), score |-> Scores(official),
      max |-> Maxima(official), passed |-> Cardinality(Passed(official))]

(* The summary adds up the exams'. *)
SubjectReport ==
  LET official == UNION {Official(ReportCandidate, OfExam(e)) : e \in Exams}
  IN [results |-> Cardinality(official), passed |-> Cardinality(Passed(official))]

SystemOverview ==
  LET official == Official(ReportCandidate, DOMAIN rows)
  IN [results |-> Cardinality(official), percentages |-> Percentages(official)]

SubjectTable ==
  LET official == Official(SubjectCandidate, DOMAIN rows)
  IN [results |-> Cardinality(official), percentages |-> Percentages(official),
      passed |-> Cardinality(Passed(official))]

(* Its average is over every attempt, official or not. *)
AnalyticsOverview ==
  LET official == Official(AnalyticsCandidate, DOMAIN rows)
  IN [results |-> Cardinality(official), passed |-> Cardinality(Passed(official)),
      attempts |-> Len(rows), ofAttempts |-> Percentages(DOMAIN rows)]

-----------------------------------------------------------------------------
Sat == {<<rows[i].student, rows[i].exam>> : i \in DOMAIN rows}
BestOf(p) == Max({rows[i].percentage : i \in Attempts(p[1], p[2])})
Due(pairs) ==
  [results     |-> Cardinality(pairs),
   percentages |-> MapThenSumSet(BestOf, pairs),
   passed      |-> Cardinality({p \in pairs : BestOf(p) >= PassMark})]

(* The attempts of a student that the reports of the exams count. *)
CountedOf(s) ==
  {i \in UNION {Official(ReportCandidate, OfExam(e)) : e \in Exams} : rows[i].student = s}

(* However often students retake, and whatever is regraded, every report      *)
(* counts each student once per exam, with the best of that student's         *)
(* results: those that show a number of results, passes or a total of         *)
(* percentages of the official attempts show the same, although they do not   *)
(* agree on which attempt was the official one; and the marks in a student's  *)
(* report are those that the exams' reports count                             *)
(* (result-calculation.util.ts: "which made the two disagree").               *)
ViewsAgree ==
  /\ \A e \in Exams :
       LET shown == ExamAnalytics(e) due == Due({p \in Sat : p[2] = e})
       IN  /\ shown.results = due.results /\ shown.passed = due.passed
           /\ shown.percentages = due.percentages
  /\ \A s \in Students :
       LET shown == StudentReport(s) due == Due({p \in Sat : p[1] = s})
       IN  /\ shown.results = due.results /\ shown.passed = due.passed
           /\ shown.score = Scores(CountedOf(s)) /\ shown.max = Maxima(CountedOf(s))
  /\ \A shown \in {SubjectReport, SubjectTable, AnalyticsOverview} :
       shown.results = Due(Sat).results /\ shown.passed = Due(Sat).passed
  /\ \A shown \in {SystemOverview, SubjectTable} :
       shown.results = Due(Sat).results /\ shown.percentages = Due(Sat).percentages
=============================================================================
