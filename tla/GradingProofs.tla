---------------------------- MODULE GradingProofs ----------------------------
(* What holds of the marks of an attempt for any exam, any number of graders *)
(* and bulk runs, and any interleaving of their queries.                     *)
EXTENDS Grading, TLAPS

JobsAreFunctions == job = [g \in Staff |-> job[g]]

(* Manual work once found done stays done: graders are never unset. *)
CountsAreSound ==
  \A g \in Staff :
    /\ At(g, "commit") /\ job[g].fully => Manual \subseteq graded \cup Marked(job[g].marks)
    /\ At(g, "bulkCommit") /\ job[g].fully => Manual \subseteq graded

(* A publication remembered from an earlier read was either a decision of the  *)
(* staff or earned.                                                            *)
ReadsAreSound ==
  \A g \in Staff :
    job[g].pc \notin {"idle", "publish"} /\ job[g].published => released \/ Manual \subseteq graded

Inv ==
  /\ JobsAreFunctions
  /\ CountsAreSound
  /\ ReadsAreSound
  /\ SettledMeansGraded
  /\ TablesAgree
  /\ ShownWhenGraded
  /\ EssayMarksSurvive
  /\ BaselineKept

(* Nothing but job changes: the rows keep their part of the invariant. *)
Rows == <<answerRows, flags, totals, released>>

LEMMA InitInv == Init => Inv
<1> SUFFICES ASSUME Init PROVE Inv
  OBVIOUS
<1>1. JobsAreFunctions /\ CountsAreSound /\ ReadsAreSound
  BY DEF Init, JobsAreFunctions, CountsAreSound, ReadsAreSound, At, Idle
<1>2. SettledMeansGraded /\ TablesAgree
  BY DEF Init, SettledMeansGraded, TablesAgree, StatusFor, GradingStatusFor
<1>3. ShownWhenGraded
  BY DEF Init, ShownWhenGraded, Release
<1>4. EssayMarksSurvive
  BY AnswerAssumption DEF Init, EssayMarksSurvive
<1>5. BaselineKept
  BY DEF Init, BaselineKept
<1> QED
  BY <1>1, <1>2, <1>3, <1>4, <1>5 DEF Inv

(* A handler that only reads keeps the rows; what it remembers must be sound. *)
LEMMA ReadKeepsInv ==
  ASSUME Inv, UNCHANGED Rows, NEW g \in Staff, NEW j, job' = [job EXCEPT ![g] = j],
         j.pc = "commit" /\ j.fully => Manual \subseteq graded \cup Marked(j.marks),
         j.pc = "bulkCommit" /\ j.fully => Manual \subseteq graded,
         j.pc \notin {"idle", "publish"} /\ j.published => released \/ Manual \subseteq graded
  PROVE  Inv'
<1> USE DEF Inv, Rows, answerRows, flags, totals
<1>1. JobsAreFunctions'
  BY DEF JobsAreFunctions
<1>2. \A k \in Staff : job'[k] = IF k = g THEN j ELSE job[k]
  BY DEF JobsAreFunctions
<1>3. CountsAreSound'
  BY <1>2 DEF CountsAreSound, At, Marked
<1>4. ReadsAreSound'
  BY <1>2 DEF ReadsAreSound
<1>5. SettledMeansGraded' /\ TablesAgree' /\ ShownWhenGraded'
  BY DEF SettledMeansGraded, TablesAgree, ShownWhenGraded, StatusFor
<1>6. EssayMarksSurvive' /\ BaselineKept'
  BY DEF EssayMarksSurvive, BaselineKept, Baseline
<1> QED
  BY <1>1, <1>3, <1>4, <1>5, <1>6

LEMMA CommitKeepsInv ==
  ASSUME Inv, NEW g \in Staff, CommitGrades(g)
  PROVE  Inv'
<1> USE DEF Inv, CommitGrades
<1>1. JobsAreFunctions' /\ \A k \in Staff : job'[k] = IF k = g THEN Idle ELSE job[k]
  BY DEF JobsAreFunctions, Finish, Set
<1>2. graded \subseteq graded' /\ (job[g].fully => Manual \subseteq graded')
  BY DEF CountsAreSound
<1>3. CountsAreSound'
  BY <1>1, <1>2 DEF CountsAreSound, At, Idle, Marked
<1>4. ReadsAreSound'
  BY <1>1, <1>2 DEF ReadsAreSound, Idle
<1>5. SettledMeansGraded'
  BY <1>2 DEF SettledMeansGraded, GradingStatusFor
<1>6. TablesAgree'
  BY DEF TablesAgree, StatusFor, GradingStatusFor
<1>7. ShownWhenGraded'
  BY <1>2 DEF ShownWhenGraded, Release, ReadsAreSound, At
<1>8. EssayMarksSurvive'
  BY AnswerAssumption DEF EssayMarksSurvive, Over
<1>9. BaselineKept'
  BY DEF BaselineKept, Baseline
<1> QED
  BY <1>1, <1>3, <1>4, <1>5, <1>6, <1>7, <1>8, <1>9

LEMMA PublishKeepsInv ==
  ASSUME Inv, NEW g \in Staff, WritePublished(g)
  PROVE  Inv'
<1> USE DEF Inv, WritePublished, answerRows, totals
<1>1. JobsAreFunctions' /\ \A k \in Staff : job'[k] = IF k = g THEN Idle ELSE job[k]
  BY DEF JobsAreFunctions, Finish, Set
<1>2. CountsAreSound'
  BY <1>1 DEF CountsAreSound, At, Idle, Marked
<1>3. ReadsAreSound' /\ ShownWhenGraded'
  BY <1>1 DEF ReadsAreSound, ShownWhenGraded, Idle
<1>4. SettledMeansGraded' /\ TablesAgree'
  BY DEF SettledMeansGraded, TablesAgree, StatusFor
<1>5. EssayMarksSurvive' /\ BaselineKept'
  BY DEF EssayMarksSurvive, BaselineKept, Baseline
<1> QED
  BY <1>1, <1>2, <1>3, <1>4, <1>5

LEMMA RegradeKeepsInv ==
  ASSUME Inv, NEW g \in Staff, RegradeCommit(g)
  PROVE  Inv'
<1> USE DEF Inv, RegradeCommit
<1>1. JobsAreFunctions' /\ \A k \in Staff : job'[k] = IF k = g THEN Idle ELSE job[k]
  BY DEF JobsAreFunctions, Finish, Set
<1>2. job[g].fully => Manual \subseteq graded
  BY DEF CountsAreSound
<1>3. CountsAreSound'
  BY <1>1 DEF CountsAreSound, At, Idle, Marked
<1>4. ReadsAreSound'
  BY <1>1 DEF ReadsAreSound, Idle
<1>5. SettledMeansGraded'
  BY <1>2 DEF SettledMeansGraded, GradingStatusFor
<1>6. TablesAgree'
  BY DEF TablesAgree, StatusFor, GradingStatusFor
<1>7. ShownWhenGraded'
  BY <1>2 DEF ShownWhenGraded, Release, ReadsAreSound, At
<1>8. EssayMarksSurvive'
  BY AnswerAssumption DEF EssayMarksSurvive, Preserved
<1>9. BaselineKept'
  BY DEF BaselineKept, Baseline, AutoMetrics
<1> QED
  BY <1>1, <1>3, <1>4, <1>5, <1>6, <1>7, <1>8, <1>9

LEMMA StepKeepsInv ==
  ASSUME Inv, NEW g \in Staff, Step(g)
  PROVE  Inv'
<1> USE DEF Set, Finish, Idle, Rows
<1>1. CASE GradeManually(g)
  <2>1. PICK entered \in [Answers -> Scores \cup {NULL}] :
          job' = [job EXCEPT ![g] = [pc |-> "mark", published |-> published, marks |-> Entered(entered)]]
    BY <1>1 DEF GradeManually
  <2> QED
    BY <1>1, <2>1, ReadKeepsInv DEF GradeManually, Inv, ShownWhenGraded
<1>2. CASE WriteMarks(g)
  BY <1>2, ReadKeepsInv DEF WriteMarks, At, Inv, ReadsAreSound
<1>3. CASE Aggregate(g)
  BY <1>3, ReadKeepsInv DEF Aggregate, At, Inv, ReadsAreSound
<1>4. CASE CountPending(g)
  BY <1>4, ReadKeepsInv DEF CountPending, At, Inv, ReadsAreSound
<1>5. CASE CommitGrades(g)
  BY <1>5, CommitKeepsInv
<1>6. CASE Publish(g)
  BY <1>6, ReadKeepsInv DEF Publish
<1>7. CASE WritePublished(g)
  BY <1>7, PublishKeepsInv
<1>8. CASE RegradeResult(g)
  BY <1>8, ReadKeepsInv DEF RegradeResult, Inv, ShownWhenGraded
<1>9. CASE RegradeAnswers(g)
  BY <1>9, ReadKeepsInv DEF RegradeAnswers, At, Inv, ReadsAreSound
<1>10. CASE RegradeCount(g)
  BY <1>10, ReadKeepsInv DEF RegradeCount, At, Inv, ReadsAreSound
<1>11. CASE RegradeCommit(g)
  BY <1>11, RegradeKeepsInv
<1>12. CASE Fail(g)
  BY <1>12, ReadKeepsInv DEF Fail
<1> QED
  BY <1>1, <1>2, <1>3, <1>4, <1>5, <1>6, <1>7, <1>8, <1>9, <1>10, <1>11, <1>12 DEF Step

LEMMA StutterKeepsInv ==
  ASSUME Inv, UNCHANGED vars
  PROVE  Inv'
<1> USE DEF Inv, vars, answerRows, flags, totals
<1>1. JobsAreFunctions' /\ CountsAreSound' /\ ReadsAreSound'
  BY DEF JobsAreFunctions, CountsAreSound, ReadsAreSound, At, Marked
<1>2. SettledMeansGraded' /\ TablesAgree' /\ ShownWhenGraded'
  BY DEF SettledMeansGraded, TablesAgree, ShownWhenGraded, StatusFor
<1>3. EssayMarksSurvive' /\ BaselineKept'
  BY DEF EssayMarksSurvive, BaselineKept, Baseline
<1> QED
  BY <1>1, <1>2, <1>3

LEMMA Invariance == Spec => []Inv
<1>1. Inv /\ [Next]_vars => Inv'
  BY StepKeepsInv, StutterKeepsInv DEF Next
<1> QED
  BY InitInv, <1>1, PTL DEF Spec

(* However graders and bulk runs interleave, a result is settled only when every *)
(* answer that needs a human has had one.                                        *)
THEOREM Settled == Spec => []SettledMeansGraded
<1>1. Inv => SettledMeansGraded
  BY DEF Inv
<1> QED
  BY Invariance, <1>1, PTL

(* The submission and the result always agree on whether manual work is owed. *)
THEOREM Agreement == Spec => []TablesAgree
<1>1. Inv => TablesAgree
  BY DEF Inv
<1> QED
  BY Invariance, <1>1, PTL

(* No student is shown a result with marks outstanding but by a staff's decision. *)
THEOREM NothingShownEarly == Spec => []ShownWhenGraded
<1>1. Inv => ShownWhenGraded
  BY DEF Inv
<1> QED
  BY Invariance, <1>1, PTL

(* The mark a human gave an essay is there until a human gives another. *)
THEOREM EssaysAreSafe == Spec => []EssayMarksSurvive
<1>1. Inv => EssayMarksSurvive
  BY DEF Inv
<1> QED
  BY Invariance, <1>1, PTL

(* The machine's figure is never lost to what humans decide after it. *)
THEOREM BaselineIsKept == Spec => []BaselineKept
<1>1. Inv => BaselineKept
  BY DEF Inv
<1> QED
  BY Invariance, <1>1, PTL
=============================================================================
