------------------------------- MODULE Grading -------------------------------
(* The marks of one submitted attempt: its answer rows, its submission and   *)
(* its result, while staff grade by hand, publish and re-grade in bulk.      *)
(* Marks are integers, in hundredths.  READ COMMITTED: every query sees what *)
(* is committed when it runs, and the writes of its own transaction.         *)
EXTENDS Integers, FiniteSets, Functions

CONSTANTS
  Staff,                  \* handlers serving instructors and administrators
  Answers,                \* the answer rows of the attempt
  Manual,                 \* those whose question needs a human grader
  Points,                 \* [Answers -> Nat], exam_questions.points
  Machine,                \* [Answers -> Int], what gradeQuestion gives; 0 if Manual
  TotalMarks,             \* exam.totalMarks
  Scores,                 \* the marks a grader enters
  ShowResultImmediately,  \* exam.showResultImmediately
  UnansweredEssay,        \* a question for a human grader has no answer row
  NULL                    \* no mark given

ASSUME AnswerAssumption ==
  /\ Manual \subseteq Answers
  /\ Points \in [Answers -> Nat]
  /\ Machine \in [Answers -> Int] /\ \A a \in Manual : Machine[a] = 0
  /\ TotalMarks \in Nat
ASSUME StaffAssumption ==
  /\ Scores \subseteq Nat /\ NULL \notin Nat
  /\ ShowResultImmediately \in BOOLEAN /\ UnansweredEssay \in BOOLEAN

VARIABLES
  mark,           \* student_answers.score
  graded,         \* the answers with a graderId
  status,         \* submissions.status
  totalScore,     \* submissions.totalScore
  score,          \* results.score
  autoScore,      \* results.autoScore
  published,      \* results.publishedAt is set
  gradingStatus,  \* results.gradingStatus
  manualAdjusted, \* results.manualAdjusted
  given,          \* history: the last mark a grader committed for each answer
  released,       \* history: a member of staff published the result
  job             \* per handler: its next database round trip and what it remembers

answerRows == <<mark, graded, given>>
flags      == <<published, gradingStatus, manualAdjusted>>
totals     == <<status, totalScore, score, autoScore>>
vars       == <<answerRows, flags, totals, released, job>>

Objective == Answers \ Manual
Idle      == [pc |-> "idle"]

At(g, pc)  == job[g].pc = pc
Set(g, j)  == job' = [job EXCEPT ![g] = j]
Finish(g)  == Set(g, Idle)

(* Marks for some of the answers. *)
Sheets     == [Answers -> Nat \cup {NULL}]
Marked(m)  == {a \in Answers : m[a] # NULL}
Over(m, n) == [a \in Answers |-> IF m[a] # NULL THEN m[a] ELSE n[a]]

(* The answers other graders' transactions have written and not committed. *)
Uncommitted == {"aggregate", "count", "commit"}
Locked(g)   == {a \in Answers : \E k \in Staff \ {g} :
                  job[k].pc \in Uncommitted /\ a \in Marked(job[k].marks)}

-----------------------------------------------------------------------------
\* The arithmetic of a result

ClampScore(raw, max) == IF raw < 0 THEN 0 ELSE IF raw > max THEN max ELSE raw

Metrics(raw) == ClampScore(raw, TotalMarks)

(* What finalizeSubmission files: the manual answers contribute nothing. *)
Baseline == Metrics(SumFunctionOnSet(Machine, Objective))

(* gradeManually: every stored mark, clamped to its question. *)
TotalOf(marks) ==
  Metrics(SumFunctionOnSet([a \in Answers |-> ClampScore(marks[a], Points[a])], Answers))

(* Variant: a mark is only kept if a grader was seen to have given it. *)
PreservedByGrader(seen) == seen

(* gradeOne: the answers whose mark a bulk run leaves alone. *)
Preserved(seen) == seen \cup Manual

(* Variant: the baseline leaves out what a human has overruled. *)
AutoOnly(j) == Metrics(SumFunctionOnSet(Machine, Answers \ Preserved(j.graded)))

AutoMetrics(j) == Metrics(SumFunctionOnSet(Machine, Objective))

ManualTotal(j) ==
  SumFunctionOnSet([a \in Answers |-> ClampScore(j.mark[a], Points[a])], j.graded)

FinalTotal(j) ==
  Metrics(SumFunctionOnSet(Machine, Answers \ Preserved(j.graded)) + ManualTotal(j))

(* Variant: the result is shown at once whatever is outstanding. *)
ReleaseAtOnce(seen, fully) == seen \/ ShowResultImmediately

Release(seen, fully) == seen \/ (ShowResultImmediately /\ fully)

GradingStatusFor(publishedAt, fully) ==
  IF ~fully THEN "PENDING" ELSE IF publishedAt THEN "PUBLISHED" ELSE "GRADED"

StatusFor(fully) == IF fully THEN "GRADED" ELSE "NEEDS_MANUAL_GRADING"

(* As finalizeSubmission leaves the rows. *)
Init ==
  LET fully == Manual = {} /\ ~UnansweredEssay IN
    /\ mark = Machine
    /\ graded = {}
    /\ status = StatusFor(fully)
    /\ totalScore = Baseline /\ score = Baseline /\ autoScore = Baseline
    /\ published = Release(FALSE, fully)
    /\ gradingStatus = GradingStatusFor(published, fully)
    /\ manualAdjusted = FALSE
    /\ given = [a \in Answers |-> NULL]
    /\ released = FALSE
    /\ job = [g \in Staff |-> Idle]

-----------------------------------------------------------------------------
\* ResultsService.gradeManually

Entered(m) == [a \in Answers |-> IF m[a] = NULL THEN NULL ELSE ClampScore(m[a], Points[a])]

(* The result is read, and the payload checked, before the transaction. *)
GradeManually(g) ==
  /\ At(g, "idle")
  /\ \E entered \in [Answers -> Scores \cup {NULL}] :
       /\ Marked(entered) # {}
       /\ Set(g, [pc |-> "mark", published |-> published, marks |-> Entered(entered)])
  /\ UNCHANGED <<answerRows, flags, totals, released>>

(* The rows stay locked until the transaction ends. *)
WriteMarks(g) ==
  /\ At(g, "mark")
  /\ Marked(job[g].marks) \cap Locked(g) = {}
  /\ Set(g, [pc |-> "aggregate", published |-> job[g].published, marks |-> job[g].marks])
  /\ UNCHANGED <<answerRows, flags, totals, released>>

Aggregate(g) ==
  /\ At(g, "aggregate")
  /\ Set(g, [pc |-> "count", published |-> job[g].published, marks |-> job[g].marks,
             score |-> TotalOf(Over(job[g].marks, mark))])
  /\ UNCHANGED <<answerRows, flags, totals, released>>

(* Variant: the marks of the payload are counted, whatever they are for. *)
CountPayload(g) ==
  /\ At(g, "count")
  /\ Set(g, [pc |-> "commit", published |-> job[g].published, marks |-> job[g].marks,
             score |-> job[g].score,
             fully |-> Cardinality(Manual \ graded) <= Cardinality(Marked(job[g].marks))])
  /\ UNCHANGED <<answerRows, flags, totals, released>>

CountPending(g) ==
  /\ At(g, "count")
  /\ Set(g, [pc |-> "commit", published |-> job[g].published, marks |-> job[g].marks,
             score |-> job[g].score, fully |-> Manual \subseteq graded \cup Marked(job[g].marks)])
  /\ UNCHANGED <<answerRows, flags, totals, released>>

CommitGrades(g) ==
  /\ At(g, "commit")
  /\ LET j == job[g] IN
       /\ mark' = Over(j.marks, mark)
       /\ graded' = graded \cup Marked(j.marks)
       /\ given' = Over(j.marks, given)
       /\ status' = StatusFor(j.fully)
       /\ score' = j.score
       /\ published' = Release(j.published, j.fully)
       /\ gradingStatus' = GradingStatusFor(published', j.fully)
       /\ manualAdjusted' = TRUE
  /\ Finish(g)
  /\ UNCHANGED <<totalScore, autoScore, released>>

-----------------------------------------------------------------------------
\* ResultsService.publish

Publish(g) ==
  /\ At(g, "idle") /\ ~published
  /\ Set(g, [pc |-> "publish"])
  /\ UNCHANGED <<answerRows, flags, totals, released>>

(* Variant: the lifecycle column is moved along. *)
PublishAsGraded(g) ==
  /\ At(g, "publish")
  /\ published' = TRUE /\ gradingStatus' = "PUBLISHED" /\ released' = TRUE
  /\ Finish(g)
  /\ UNCHANGED <<answerRows, totals, manualAdjusted>>

WritePublished(g) ==
  /\ At(g, "publish")
  /\ published' = TRUE /\ released' = TRUE
  /\ Finish(g)
  /\ UNCHANGED <<answerRows, totals, gradingStatus, manualAdjusted>>

-----------------------------------------------------------------------------
\* BulkGradingService.gradeOne: one transaction, three reads, its writes

RegradeResult(g) ==
  /\ At(g, "idle")
  /\ Set(g, [pc |-> "bulkAnswers", published |-> published, adjusted |-> manualAdjusted])
  /\ UNCHANGED <<answerRows, flags, totals, released>>

RegradeAnswers(g) ==
  /\ At(g, "bulkAnswers")
  /\ Set(g, [pc |-> "bulkCount", published |-> job[g].published, adjusted |-> job[g].adjusted,
             mark |-> mark, graded |-> graded])
  /\ UNCHANGED <<answerRows, flags, totals, released>>

RegradeCount(g) ==
  /\ At(g, "bulkCount")
  /\ Set(g, [pc |-> "bulkCommit", published |-> job[g].published, adjusted |-> job[g].adjusted,
             mark |-> job[g].mark, graded |-> job[g].graded, fully |-> Manual \subseteq graded])
  /\ UNCHANGED <<answerRows, flags, totals, released>>

(* It cannot commit over a lock: it waits, or one of the two is aborted. *)
RegradeCommit(g) ==
  /\ At(g, "bulkCommit")
  /\ LET j == job[g]  rewritten == Answers \ Preserved(j.graded) IN
       /\ rewritten \cap Locked(g) = {}
       /\ mark' = [a \in Answers |-> IF a \in rewritten THEN Machine[a] ELSE mark[a]]
       /\ score' = FinalTotal(j) /\ totalScore' = FinalTotal(j)
       /\ autoScore' = AutoMetrics(j)
       /\ status' = StatusFor(j.fully)
       /\ published' = Release(j.published, j.fully)
       /\ gradingStatus' = GradingStatusFor(published', j.fully)
       /\ manualAdjusted' = (ManualTotal(j) > 0 \/ j.adjusted)
  /\ Finish(g)
  /\ UNCHANGED <<graded, given, released>>

(* A query fails, a deadlock is broken, five seconds have passed, or the process *)
(* dies: the transaction is rolled back.                                         *)
Fail(g) ==
  /\ ~At(g, "idle")
  /\ Finish(g)
  /\ UNCHANGED <<answerRows, flags, totals, released>>

Step(g) ==
  \/ GradeManually(g) \/ WriteMarks(g) \/ Aggregate(g) \/ CountPending(g) \/ CommitGrades(g)
  \/ Publish(g) \/ WritePublished(g)
  \/ RegradeResult(g) \/ RegradeAnswers(g) \/ RegradeCount(g) \/ RegradeCommit(g)
  \/ Fail(g)

Next == \E g \in Staff : Step(g)

Spec == Init /\ [][Next]_vars

-----------------------------------------------------------------------------
\* Safety

Figures == 0..TotalMarks
Jobs ==
  [pc : {"idle", "publish"}]
    \cup [pc : {"mark", "aggregate"}, published : BOOLEAN, marks : Sheets]
    \cup [pc : {"count"}, published : BOOLEAN, marks : Sheets, score : Figures]
    \cup [pc : {"commit"}, published : BOOLEAN, marks : Sheets, score : Figures, fully : BOOLEAN]
    \cup [pc : {"bulkAnswers"}, published : BOOLEAN, adjusted : BOOLEAN]
    \cup [pc : {"bulkCount"}, published : BOOLEAN, adjusted : BOOLEAN,
          mark : [Answers -> Int], graded : SUBSET Answers]
    \cup [pc : {"bulkCommit"}, published : BOOLEAN, adjusted : BOOLEAN,
          mark : [Answers -> Int], graded : SUBSET Answers, fully : BOOLEAN]

(* A result shows a figure between zero and the exam's total, whatever penalties *)
(* the automatic marks carry and whatever a grader enters (computeResultMetrics).*)
TypeOK ==
  /\ mark \in [Answers -> Int] /\ graded \subseteq Answers
  /\ given \in Sheets
  /\ status \in {"GRADED", "NEEDS_MANUAL_GRADING"}
  /\ gradingStatus \in {"PENDING", "GRADED", "PUBLISHED"}
  /\ {score, totalScore, autoScore} \subseteq Figures
  /\ published \in BOOLEAN /\ manualAdjusted \in BOOLEAN /\ released \in BOOLEAN
  /\ job \in [Staff -> Jobs]

(* A result leaves PENDING only when each answer that needs a human has one,    *)
(* however gradings and bulk runs interleave (gradeManually, gradeOne).         *)
SettledMeansGraded == gradingStatus # "PENDING" => Manual \subseteq graded

(* The submission and the result never disagree on whether manual work is owed: *)
(* both tables answer "what is left to grade" (gradeManually, gradeOne).        *)
TablesAgree == status = StatusFor(gradingStatus # "PENDING")

(* A student is never shown a result with marks outstanding unless a member of  *)
(* staff published it (showResultImmediately in gradeManually and gradeOne).    *)
ShownWhenGraded == published /\ ~released => Manual \subseteq graded

(* A grader's mark on an essay survives every bulk run, also one that read the  *)
(* answers before it was given (isPreserved in gradeOne).                       *)
EssayMarksSurvive == \A a \in Manual : given[a] # NULL => mark[a] = given[a]

(* The automatic figure stays what the objective pass produced when the attempt *)
(* was filed, whatever humans overrule (autoScore in gradeOne, gradeManually).  *)
BaselineKept == autoScore = Baseline

-----------------------------------------------------------------------------
\* What the comments of the code say of two graders

(* When the last essay has its grader and nobody is at work, the result is not  *)
(* left waiting for one ("Manual grading finishing the last outstanding answer  *)
(* transitions the submission out of NEEDS_MANUAL_GRADING", gradeManually).     *)
LastMarkSettles ==
  (\A g \in Staff : At(g, "idle")) /\ graded # {} /\ Manual \subseteq graded
    => gradingStatus # "PENDING"
=============================================================================
