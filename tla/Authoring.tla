----------------------------- MODULE Authoring -----------------------------
(* Writing an exam: its paper is drawn from a bank or given question by      *)
(* question, the marks are spread over it, and editors change marks, pass    *)
(* mark and paper while the exam is scheduled, published, started, closed    *)
(* and restarted.  An exam's marks need not be whole: they are counted in    *)
(* fractions of a mark; the points of a question are whole.                  *)
EXTENDS Integers, Sequences, FiniteSets, SequencesExt, FiniteSetsExt

CONSTANTS
  Editors,       \* requests that may be changing the exam at the same time
  Questions,
  Unit,          \* fractions to a mark
  Totals,        \* the total marks an editor may ask for, in fractions
  Passes,        \* the pass marks an editor may ask for, in fractions
  MaxBatch,      \* bound: times the rows of the paper are written
  NULL

VARIABLES
  active,        \* Question.isActive
  exam,          \* the exam row with its ExamQuestion rows, or NULL
  editing        \* what each update request has read, and its dto, or NULL
vars == <<active, exam, editing>>

(* The points of n questions: an even share in whole marks, and one more for *)
(* the first ones while anything is left, be it less than a mark.            *)
DistributePoints(total, n) ==
  LET base == total \div (Unit * n)
      rest == total - base * (Unit * n)
  IN [i \in 1 .. n |-> base + (IF (i - 1) * Unit < rest THEN 1 ELSE 0)]

(* The ExamQuestion rows, written together: batch tells one write of the     *)
(* whole paper from the next, as the row ids do.                             *)
WritePaper(questions, total, batch) ==
  [questions |-> questions, points |-> DistributePoints(total, Len(questions)), batch |-> batch]

(* assertScoringBounds *)
InBounds(total, passing) == total >= Unit /\ passing >= 0 /\ passing <= total

Papers == {p \in UNION {[1 .. n -> Questions] : n \in 0 .. Cardinality(Questions)} : IsInjective(p)}
Usable(p) == \A i \in DOMAIN p : p[i] \in active

Init ==
  /\ active = Questions
  /\ exam = NULL
  /\ editing = [e \in Editors |-> NULL]

(* create with a list of questions, every one of them active, or with a bank *)
(* and a count, which takes that many of its active questions in any order.  *)
Create ==
  /\ exam = NULL
  /\ \E total \in Totals, passing \in Passes, p \in Papers :
       /\ InBounds(total, passing)
       /\ Usable(p)
       /\ exam' = [total |-> total, passing |-> passing, status |-> "SCHEDULED",
                   paper |-> WritePaper(p, total, 1)]
  /\ UNCHANGED <<active, editing>>

(* update reads the exam and checks the bounds against what it read.  A field *)
(* the dto does not have is NULL.                                             *)
OpenUpdate(e) ==
  /\ exam # NULL
  /\ editing[e] = NULL
  /\ \E total \in Totals \cup {NULL}, passing \in Passes \cup {NULL}, p \in Papers \cup {NULL} :
       /\ InBounds(IF total = NULL THEN exam.total ELSE total,
                   IF passing = NULL THEN exam.passing ELSE passing)
       /\ editing' = [editing EXCEPT ![e] =
            [total |-> total, passing |-> passing, questions |-> p, existing |-> exam]]
  /\ UNCHANGED <<active, exam>>

(* Only the fields of the dto are written. *)
Written(dto) ==
  [exam EXCEPT !.total = IF dto.total = NULL THEN @ ELSE dto.total,
               !.passing = IF dto.passing = NULL THEN @ ELSE dto.passing]

(* As EffectiveTotal, were the new total of the dto overlooked. *)
StoredTotal(dto) == dto.existing.total

(* A new list of questions is spread over the marks of the dto, or those read. *)
EffectiveTotal(dto) == IF dto.total = NULL THEN dto.existing.total ELSE dto.total

(* The transaction of update: the rows of the paper are deleted and created  *)
(* when questions are given, and otherwise repriced one by one, by the ids   *)
(* that were read, when the total is.                                        *)
ReplacePaper(e) ==
  LET dto == editing[e]
  IN /\ dto # NULL /\ dto.questions # NULL
     /\ Usable(dto.questions)
     /\ exam.paper.batch < MaxBatch
     /\ exam' = [Written(dto) EXCEPT !.paper =
                   WritePaper(dto.questions, EffectiveTotal(dto), exam.paper.batch + 1)]
     /\ editing' = [editing EXCEPT ![e] = NULL]
     /\ UNCHANGED active

RepricedPaper(dto) ==
  IF dto.total = NULL THEN exam.paper
  ELSE [exam.paper EXCEPT !.points = DistributePoints(dto.total, Len(dto.existing.paper.questions))]

KeepPaper(e) ==
  LET dto == editing[e]
  IN /\ dto # NULL /\ dto.questions = NULL
     /\ dto.total # NULL => dto.existing.paper.batch = exam.paper.batch
     /\ exam' = [Written(dto) EXCEPT !.paper = RepricedPaper(dto)]
     /\ editing' = [editing EXCEPT ![e] = NULL]
     /\ UNCHANGED active

(* The request is refused: a question is inactive, or a row read is gone and *)
(* the transaction rolls back.                                               *)
RefuseUpdate(e) ==
  LET dto == editing[e]
  IN /\ dto # NULL
     /\ \/ dto.questions # NULL /\ ~Usable(dto.questions)
        \/ dto.questions = NULL /\ dto.total # NULL /\ dto.existing.paper.batch # exam.paper.batch
     /\ editing' = [editing EXCEPT ![e] = NULL]
     /\ UNCHANGED <<active, exam>>

(* publish, start and remove write the status whatever it was. *)
SetStatus ==
  /\ exam # NULL
  /\ \E s \in {"PUBLISHED", "LIVE", "CLOSED"} : exam' = [exam EXCEPT !.status = s]
  /\ UNCHANGED <<active, editing>>

(* restart copies a closed exam, rows and points, into a new published one,  *)
(* which the model follows from then on; updates of the old one are its own. *)
Restart ==
  /\ exam # NULL /\ exam.status = "CLOSED"
  /\ \A e \in Editors : editing[e] = NULL
  /\ exam' = [exam EXCEPT !.status = "PUBLISHED"]
  /\ UNCHANGED <<active, editing>>

(* A question is deleted, alone or in bulk: it is only marked, and stays in  *)
(* the papers that have it; an edit can bring it back.                       *)
Deactivate == \E q \in active : active' = active \ {q} /\ UNCHANGED <<exam, editing>>
Reactivate == \E q \in Questions \ active : active' = active \cup {q} /\ UNCHANGED <<exam, editing>>

Next ==
  \/ Create \/ SetStatus \/ Restart \/ Deactivate \/ Reactivate
  \/ \E e \in Editors : OpenUpdate(e) \/ ReplacePaper(e) \/ KeepPaper(e) \/ RefuseUpdate(e)
Spec == Init /\ [][Next]_vars

-----------------------------------------------------------------------------
(* Through any sequence of edits of one editor at a time, with questions     *)
(* deleted in between, the points of the paper add up to the exam's total,   *)
(* to the mark: exactly when the total is whole, and to the next whole mark  *)
(* when it is not (3.5 marks are handed out as 4); and the pass mark stays   *)
(* within reach (exams.service.ts update: total, pass mark and paper change  *)
(* together or separately; distributePoints).                                *)
PaperAddsUp ==
  exam # NULL =>
    /\ exam.passing <= exam.total
    /\ exam.paper.questions # << >> =>
         LET sum == MapThenSumSet(LAMBDA i : exam.paper.points[i], DOMAIN exam.paper.points)
         IN  exam.total <= sum * Unit /\ sum * Unit < exam.total + Unit
=============================================================================
