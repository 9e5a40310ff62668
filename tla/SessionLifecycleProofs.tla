----------------------- MODULE SessionLifecycleProofs -----------------------
(* Theorems about SessionLifecycle, for every set of handlers, questions,   *)
(* contents and requests, every policy, duration, grant and workload.       *)
EXTENDS SessionLifecycle, TLAPS

(* The pieces of a job, by its program counter. *)
LEMMA JobShape ==
  ASSUME NEW j \in Jobs
  PROVE  /\ j.pc = "save" => j.question \in Questions /\ j.content \in Contents
         /\ j.pc = "force" => j.reason \in Reasons
         /\ j.pc = "finalize" =>
              j.reason \in Reasons /\ j.answers \in Sheets /\ j.ends \in BOOLEAN
         /\ j.pc = "connection" =>
              j.state \in {"CONNECTED", "DISCONNECTED"} /\ j.follow \in {"none", "force", "pause"}
         /\ j.pc = "act" => j.action \in {"pause", "resume", "approve_resume", "deny_resume"}
         /\ j.pc \in {"decide", "apply"} => j.request \in Requests /\ j.approve \in BOOLEAN
         /\ j.pc = "grant" => j.minutes \in Grants /\ j.at \in Nat
         /\ j.pc = "extend" =>
              /\ j.minutes \in Grants /\ j.at \in Nat /\ j.expiresAt \in Nat
              /\ j.original \in Nat \cup {NULL} /\ j.total \in Nat
BY DEF Jobs, Idle

LEMMA IdleIsJob == Idle \in Jobs
BY DEF Jobs

LEMMA PlainIsJob ==
  \A pc \in {"closeExam", "batch", "autoPause", "expirePending", "insertRequest"} :
    [pc |-> pc] \in Jobs
BY DEF Jobs

LEMMA FinalizeIsJob ==
  ASSUME NEW r \in Reasons, NEW s \in Sheets, NEW b \in BOOLEAN
  PROVE  [pc |-> "finalize", reason |-> r, answers |-> s, ends |-> b] \in Jobs
BY DEF Jobs

LEMMA DecisionIsJob ==
  ASSUME NEW pc \in {"decide", "apply"}, NEW r \in Requests, NEW b \in BOOLEAN
  PROVE  [pc |-> pc, request |-> r, approve |-> b] \in Jobs
BY DEF Jobs

LEMMA ExtendIsJob ==
  ASSUME NEW m \in Grants, NEW n \in Nat, NEW e \in Nat, NEW o \in Nat \cup {NULL}, NEW t \in Nat
  PROVE  /\ [pc |-> "grant", minutes |-> m, at |-> n] \in Jobs
         /\ [pc |-> "extend", minutes |-> m, at |-> n, expiresAt |-> e,
             original |-> o, total |-> t] \in Jobs
BY DEF Jobs

-----------------------------------------------------------------------------
\* Type correctness

(* Writing a job of a known shape keeps the type of the job table. *)
LEMMA SetIsTyped ==
  ASSUME TypeOK, NEW a \in Actors, NEW j \in Jobs, Set(a, j)
  PROVE  job' \in [Actors -> Jobs]
BY DEF TypeOK, Set

LEMMA FinishIsTyped ==
  ASSUME TypeOK, NEW a \in Actors, Finish(a)
  PROVE  job' \in [Actors -> Jobs]
BY SetIsTyped, IdleIsJob DEF Finish

LEMMA AfterFinalizeIsTyped ==
  ASSUME TypeOK, NEW a \in Actors, AfterFinalize(a)
  PROVE  job' \in [Actors -> Jobs]
BY SetIsTyped, IdleIsJob, PlainIsJob DEF AfterFinalize

LEMMA ActorsOfHandlers == \A h \in Handlers : h \in Actors
BY DEF Actors

LEMMA LifecycleIsActor == Lifecycle \in Actors
BY DEF Actors

LEMMA InitTyped == Init => TypeOK
<1> SUFFICES ASSUME Init PROVE TypeOK
  OBVIOUS
<1>1. expiresAt \in Nat /\ endsAt \in Nat
  BY TimeAssumption DEF Init
<1>2. answers \in Sheets
  BY DEF Init, Sheets
<1>3. job \in [Actors -> Jobs]
  BY IdleIsJob DEF Init
<1> QED
  BY <1>1, <1>2, <1>3 DEF Init, TypeOK, Active

LEMMA StudentTyped ==
  ASSUME TypeOK, NEW h \in Handlers, Student(h)
  PROVE  TypeOK'
<1> h \in Actors
  BY ActorsOfHandlers
<1>j. job[h] \in Jobs
  BY DEF TypeOK
<1>1. CASE SaveAnswer(h)
  <2>1. PICK q \in Questions, c \in Contents :
          Set(h, [pc |-> "save", question |-> q, content |-> c])
    BY <1>1 DEF SaveAnswer
  <2>2. [pc |-> "save", question |-> q, content |-> c] \in Jobs
    BY DEF Jobs
  <2>3. job' \in [Actors -> Jobs]
    BY <2>1, <2>2, SetIsTyped
  <2> QED
    BY <1>1, <2>3 DEF SaveAnswer, TypeOK, row, flags, link, time, exam
<1>2. CASE UpsertAnswer(h)
  <2>1. job' \in [Actors -> Jobs]
    BY <1>2, FinishIsTyped DEF UpsertAnswer
  <2>2. job[h].question \in Questions /\ job[h].content \in Contents
    BY <1>2, <1>j, JobShape DEF UpsertAnswer, At
  <2>3. answers' \in Sheets
    BY <1>2, <2>2 DEF UpsertAnswer, TypeOK, Sheets
  <2> QED
    BY <1>2, <2>1, <2>3 DEF UpsertAnswer, TypeOK, row, flags, link, time, exam
<1>3. CASE Submit(h)
  <2>1. StudentReason \in Reasons
    BY DEF StudentReason, Reasons
  <2>2. FinalizeJob(StudentReason, FALSE) \in Jobs
    BY <2>1, FinalizeIsJob DEF FinalizeJob, TypeOK
  <2>3. job' \in [Actors -> Jobs]
    BY <1>3, <2>2, SetIsTyped DEF Submit
  <2> QED
    BY <1>3, <2>3 DEF Submit, TypeOK, row, flags, link, time, exam
<1>4. CASE RecordViolation(h)
  <2>1. job' \in [Actors -> Jobs]
    BY <1>4, SetIsTyped, PlainIsJob DEF RecordViolation
  <2> QED
    BY <1>4, <2>1 DEF RecordViolation, TypeOK, row, flags, link, time, exam
<1>5. CASE AutoPause(h)
  <2>1. job' \in [Actors -> Jobs]
    BY <1>5, FinishIsTyped DEF AutoPause
  <2> QED
    BY <1>5, <2>1 DEF AutoPause, TypeOK, Active, link, time, exam
<1>6. ASSUME NEW s \in {"CONNECTED", "DISCONNECTED"}, SetConnection(h, s)
      PROVE  TypeOK'
  <2>1. PICK f \in {"none", "force", "pause"} :
          Set(h, [pc |-> "connection", state |-> s, follow |-> f])
    <3> DEFINE loss == s = "DISCONNECTED" /\ connectionState = "CONNECTED"
               f == IF loss /\ EndedByPolicy THEN "force"
                    ELSE IF loss /\ MustPause THEN "pause" ELSE "none"
    <3>1. f \in {"none", "force", "pause"}
      OBVIOUS
    <3>2. Set(h, [pc |-> "connection", state |-> s, follow |-> f])
      BY <1>6 DEF SetConnection
    <3> QED
      BY <3>1, <3>2
  <2>2. [pc |-> "connection", state |-> s, follow |-> f] \in Jobs
    BY DEF Jobs
  <2>3. job' \in [Actors -> Jobs]
    BY <2>1, <2>2, SetIsTyped
  <2> QED
    BY <1>6, <2>3 DEF SetConnection, TypeOK, row, flags, link, time, exam
<1>7. CASE WriteConnection(h)
  <2>1. job[h].state \in {"CONNECTED", "DISCONNECTED"}
    BY <1>7, <1>j, JobShape DEF WriteConnection, At
  <2>2. [pc |-> "force", reason |-> "AUTO_CONNECTION_LOST"] \in Jobs
    BY DEF Jobs, Reasons
  <2>3. job' \in [Actors -> Jobs]
    BY <1>7, <2>2, SetIsTyped, IdleIsJob, PlainIsJob DEF WriteConnection
  <2> QED
    BY <1>7, <2>1, <2>3 DEF WriteConnection, TypeOK, flags, time, exam
<1>8. CASE RequestResume(h)
  <2>1. job' \in [Actors -> Jobs]
    BY <1>8, SetIsTyped, PlainIsJob DEF RequestResume
  <2> QED
    BY <1>8, <2>1 DEF RequestResume, TypeOK, row, flags, link, time, exam
<1>9. CASE ExpirePending(h)
  <2>1. job' \in [Actors -> Jobs]
    BY <1>9, SetIsTyped, PlainIsJob DEF ExpirePending
  <2> QED
    BY <1>9, <2>1 DEF ExpirePending, TypeOK, row, flags, link, time, exam
<1>10. CASE InsertRequest(h)
  <2>1. job' \in [Actors -> Jobs]
    BY <1>10, FinishIsTyped DEF InsertRequest
  <2> QED
    BY <1>10, <2>1 DEF InsertRequest, TypeOK, row, flags, link, time, exam
<1> QED
  BY <1>1, <1>2, <1>3, <1>4, <1>5, <1>6, <1>7, <1>8, <1>9, <1>10 DEF Student

LEMMA StaffTyped ==
  ASSUME TypeOK, NEW h \in Handlers, Staff(h)
  PROVE  TypeOK'
<1> h \in Actors
  BY ActorsOfHandlers
<1>j. job[h] \in Jobs
  BY DEF TypeOK
<1>1. CASE ForceSubmit(h)
  <2>1. PICK reason \in {"AUTO_INSTRUCTOR_END_SESSION", "AUTO_ADMIN_FORCE_SUBMIT"} :
          Set(h, [pc |-> "force", reason |-> reason])
    BY <1>1 DEF ForceSubmit
  <2>2. [pc |-> "force", reason |-> reason] \in Jobs
    BY DEF Jobs, Reasons
  <2>3. job' \in [Actors -> Jobs]
    BY <2>1, <2>2, SetIsTyped
  <2> QED
    BY <1>1, <2>3 DEF ForceSubmit, TypeOK, row, flags, link, time, exam
<1>2. CASE ForceSubmitSession(h)
  <2>1. job[h].reason \in Reasons
    BY <1>2, <1>j, JobShape DEF ForceSubmitSession, At
  <2>2. FinalizeJob(job[h].reason, FALSE) \in Jobs
    BY <2>1, FinalizeIsJob DEF FinalizeJob, TypeOK
  <2>3. job' \in [Actors -> Jobs]
    BY <1>2, <2>2, SetIsTyped DEF ForceSubmitSession
  <2> QED
    BY <1>2, <2>3 DEF ForceSubmitSession, TypeOK, row, flags, link, time, exam
<1>3. CASE ForceEndExam(h)
  <2>1. FinalizeJob("AUTO_EXAM_ENDED", TRUE) \in Jobs
    BY FinalizeIsJob DEF FinalizeJob, TypeOK, Reasons
  <2>2. job' \in [Actors -> Jobs]
    BY <1>3, <2>1, SetIsTyped, PlainIsJob DEF ForceEndExam
  <2> QED
    BY <1>3, <2>2 DEF ForceEndExam, TypeOK, row, flags, link, time, exam
<1>4. CASE CloseForcedExam(h)
  <2>1. job' \in [Actors -> Jobs]
    BY <1>4, FinishIsTyped DEF CloseForcedExam
  <2> QED
    BY <1>4, <2>1 DEF CloseForcedExam, TypeOK, row, flags, link, time
<1>5. ASSUME NEW a \in {"pause", "resume", "approve_resume", "deny_resume"},
             InstructorAction(h, a)
      PROVE  TypeOK'
  <2>1. [pc |-> "act", action |-> a] \in Jobs
    BY DEF Jobs
  <2>2. job' \in [Actors -> Jobs]
    BY <1>5, <2>1, SetIsTyped DEF InstructorAction
  <2> QED
    BY <1>5, <2>2 DEF InstructorAction, TypeOK, row, flags, link, time, exam
<1>6. CASE WriteAction(h)
  <2>1. job' \in [Actors -> Jobs]
    BY <1>6, FinishIsTyped DEF WriteAction
  <2>2. /\ status' \in Active \cup Closed
        /\ approved' \in BOOLEAN
        /\ denied' \in BOOLEAN
    BY <1>6 DEF WriteAction, TypeOK, Active
  <2> QED
    BY <1>6, <2>1, <2>2 DEF WriteAction, TypeOK, link, time, exam
<1>7. CASE Decide(h)
  <2>1. PICK r \in Requests, b \in BOOLEAN :
          Set(h, [pc |-> "decide", request |-> r, approve |-> b])
    BY <1>7 DEF Decide
  <2>2. job' \in [Actors -> Jobs]
    BY <2>1, SetIsTyped, DecisionIsJob
  <2> QED
    BY <1>7, <2>2 DEF Decide, TypeOK, row, flags, link, time, exam
<1>8. CASE WriteDecision(h)
  <2>1. job[h].request \in Requests /\ job[h].approve \in BOOLEAN
    BY <1>8, <1>j, JobShape DEF WriteDecision, At
  <2>2. [job[h] EXCEPT !.pc = "apply"] \in Jobs
    BY <1>8, <1>j DEF WriteDecision, At, Jobs, Idle
  <2>3. job' \in [Actors -> Jobs]
    BY <1>8, <2>2, SetIsTyped DEF WriteDecision
  <2> QED
    BY <1>8, <2>1, <2>3 DEF WriteDecision, TypeOK, row, flags, link, time, exam
<1>9. CASE ApplyDecision(h)
  <2>1. job' \in [Actors -> Jobs]
    BY <1>9, FinishIsTyped DEF ApplyDecision
  <2> QED
    BY <1>9, <2>1 DEF ApplyDecision, TypeOK, Active, link, time, exam
<1>10. CASE Extend(h)
  <2>1. PICK m \in Grants : Set(h, [pc |-> "grant", minutes |-> m, at |-> now])
    BY <1>10 DEF Extend
  <2>2. [pc |-> "grant", minutes |-> m, at |-> now] \in Jobs
    BY DEF Jobs, TypeOK
  <2>3. job' \in [Actors -> Jobs]
    BY <2>1, <2>2, SetIsTyped
  <2> QED
    BY <1>10, <2>3 DEF Extend, TypeOK, row, flags, link, time, exam
<1>11. CASE ReadFresh(h)
  <2>1. job[h].minutes \in Grants /\ job[h].at \in Nat
    BY <1>11, <1>j, JobShape DEF ReadFresh, At
  <2>2. [pc |-> "extend", minutes |-> job[h].minutes, at |-> job[h].at,
         expiresAt |-> expiresAt, original |-> originalExpiresAt,
         total |-> totalExtension] \in Jobs
    BY <2>1, ExtendIsJob DEF TypeOK
  <2>3. job' \in [Actors -> Jobs]
    BY <1>11, <2>2, SetIsTyped, IdleIsJob DEF ReadFresh
  <2> QED
    BY <1>11, <2>3 DEF ReadFresh, TypeOK, row, flags, link, time, exam
<1>12. CASE CommitExtension(h)
  <2>1. job' \in [Actors -> Jobs]
    BY <1>12, FinishIsTyped DEF CommitExtension
  <2>2. /\ job[h].minutes \in Nat /\ job[h].at \in Nat /\ job[h].expiresAt \in Nat
        /\ job[h].original \in Nat \cup {NULL} /\ job[h].total \in Nat
    BY <1>12, <1>j, JobShape, TimeAssumption DEF CommitExtension, At
  <2>3. /\ expiresAt' \in Nat
        /\ originalExpiresAt' \in Nat \cup {NULL}
        /\ totalExtension' \in Nat
        /\ journalled' \in Nat
    BY <1>12, <2>2 DEF CommitExtension, ExtendedDeadline, TypeOK
  <2> QED
    BY <1>12, <2>1, <2>3 DEF CommitExtension, TypeOK, flags, link, exam
<1> QED
  BY <1>1, <1>2, <1>3, <1>4, <1>5, <1>6, <1>7, <1>8, <1>9, <1>10, <1>11, <1>12 DEF Staff

LEMMA ClosedStatusTyped == \A r \in Reasons : ClosedStatus(r) \in Closed
BY DEF ClosedStatus, AutoSubmitted, Closed, Reasons

LEMMA FinalizeTyped ==
  ASSUME TypeOK, NEW a \in Actors, Finalize(a) \/ FinalizeFail(a) \/ Abort(a)
  PROVE  TypeOK'
<1>j. job[a] \in Jobs
  BY DEF TypeOK
<1>1. CASE FinalizeWin(a)
  <2>1. job[a].reason \in Reasons /\ job[a].answers \in Sheets
    BY <1>1, <1>j, JobShape DEF FinalizeWin, At
  <2>2. submission' \in Submissions
    BY <1>1, <2>1 DEF FinalizeWin, Submissions
  <2>3. job' \in [Actors -> Jobs]
    BY <1>1, AfterFinalizeIsTyped DEF FinalizeWin
  <2>4. status' \in Closed
    BY <1>1, <2>1, ClosedStatusTyped DEF FinalizeWin, CloseRow
  <2> QED
    BY <1>1, <2>2, <2>3, <2>4 DEF FinalizeWin, CloseRow, TypeOK, flags, time, exam
<1>2. CASE FinalizeLose(a)
  <2>1. job[a].reason \in Reasons
    BY <1>2, <1>j, JobShape DEF FinalizeLose, At
  <2>2. job' \in [Actors -> Jobs]
    BY <1>2, AfterFinalizeIsTyped DEF FinalizeLose
  <2>3. status' \in Closed
    BY <1>2, <2>1, ClosedStatusTyped DEF FinalizeLose, CloseRow
  <2> QED
    BY <1>2, <2>2, <2>3 DEF FinalizeLose, CloseRow, TypeOK, flags, time, exam
<1>3. CASE FinalizeFail(a)
  <2>1. job' \in [Actors -> Jobs]
    BY <1>3, AfterFinalizeIsTyped DEF FinalizeFail
  <2> QED
    BY <1>3, <2>1 DEF FinalizeFail, TypeOK, row, flags, link, time, exam
<1>4. CASE Abort(a)
  <2>1. job' \in [Actors -> Jobs]
    BY <1>4, FinishIsTyped DEF Abort
  <2> QED
    BY <1>4, <2>1 DEF Abort, TypeOK, row, flags, link, time, exam
<1> QED
  BY <1>1, <1>2, <1>3, <1>4 DEF Finalize

(* Everything else: the sweep's reads, the unguarded writes, the exam, the clock. *)
Environment ==
  \/ SweepExpired \/ SweepBatch \/ Heartbeat \/ DisconnectAction
  \/ \E s \in {"PUBLISHED", "LIVE", "CLOSED"} : SetExamStatus(s)
  \/ CloseEndedExam \/ Tick

LEMMA EnvironmentTyped ==
  ASSUME TypeOK, Environment
  PROVE  TypeOK'
<1>1. CASE SweepExpired
  <2>1. job' \in [Actors -> Jobs]
    BY <1>1, LifecycleIsActor, SetIsTyped, PlainIsJob DEF SweepExpired
  <2> QED
    BY <1>1, <2>1 DEF SweepExpired, TypeOK, row, flags, link, time, exam
<1>2. CASE SweepBatch
  <2>1. FinalizeJob("AUTO_TIME_EXPIRY", FALSE) \in Jobs
    BY FinalizeIsJob DEF FinalizeJob, TypeOK, Reasons
  <2>2. job' \in [Actors -> Jobs]
    BY <1>2, <2>1, LifecycleIsActor, SetIsTyped DEF SweepBatch
  <2> QED
    BY <1>2, <2>2 DEF SweepBatch, TypeOK, row, flags, link, time, exam
<1>3. CASE Heartbeat
  BY <1>3 DEF Heartbeat, TypeOK, flags, time, exam
<1>4. CASE DisconnectAction
  BY <1>4 DEF DisconnectAction, TypeOK, flags, time, exam
<1>5. ASSUME NEW s \in {"PUBLISHED", "LIVE", "CLOSED"}, SetExamStatus(s)
      PROVE  TypeOK'
  BY <1>5, TimeAssumption DEF SetExamStatus, TypeOK, row, flags, link, time
<1>6. CASE CloseEndedExam
  BY <1>6 DEF CloseEndedExam, TypeOK, row, flags, link, time
<1>7. CASE Tick
  BY <1>7 DEF Tick, TypeOK, row, flags, link, time, exam
<1> QED
  BY <1>1, <1>2, <1>3, <1>4, <1>5, <1>6, <1>7 DEF Environment

(* The steps of the specification, grouped as the lemmas treat them. *)
LEMMA NextSplit ==
  ASSUME Next
  PROVE  \/ \E h \in Handlers : Student(h) \/ Staff(h)
         \/ \E a \in Actors : Finalize(a) \/ FinalizeFail(a) \/ Abort(a)
         \/ Environment
BY DEF Next, Environment

(* Every variable keeps its type, in every interleaving of every workload. *)
THEOREM TypeCorrect == Spec => []TypeOK
<1>1. TypeOK /\ [Next]_vars => TypeOK'
  <2> SUFFICES ASSUME TypeOK, [Next]_vars PROVE TypeOK'
    OBVIOUS
  <2>1. CASE Next
    BY <2>1, NextSplit, StudentTyped, StaffTyped, FinalizeTyped, EnvironmentTyped
  <2>2. CASE UNCHANGED vars
    BY <2>2 DEF vars, row, flags, link, time, exam, TypeOK
  <2> QED
    BY <2>1, <2>2
<1> QED
  BY <1>1, InitTyped, PTL DEF Spec

-----------------------------------------------------------------------------
\* The submission is inserted once, and a closed row has one

(* Only the winner of finalizeSubmission's race writes the submission. *)
LEMMA OnlyTheWinnerFiles ==
  ASSUME Next, ~\E a \in Actors : FinalizeWin(a)
  PROVE  submission' = submission
<1>1. ASSUME NEW h \in Handlers, Student(h) PROVE submission' = submission
  BY <1>1 DEF Student, SaveAnswer, UpsertAnswer, Submit, RecordViolation, AutoPause,
              SetConnection, WriteConnection, RequestResume, ExpirePending, InsertRequest
<1>2. ASSUME NEW h \in Handlers, Staff(h) PROVE submission' = submission
  BY <1>2 DEF Staff, ForceSubmit, ForceSubmitSession, ForceEndExam, CloseForcedExam,
              InstructorAction, WriteAction, Decide, WriteDecision, ApplyDecision,
              Extend, ReadFresh, CommitExtension
<1>3. ASSUME NEW a \in Actors, Finalize(a) \/ FinalizeFail(a) \/ Abort(a)
      PROVE  submission' = submission
  BY <1>3 DEF Finalize, FinalizeLose, FinalizeFail, Abort
<1>4. Environment => submission' = submission
  BY DEF Environment, SweepExpired, SweepBatch, Heartbeat, DisconnectAction,
         SetExamStatus, CloseEndedExam, Tick
<1> QED
  BY <1>1, <1>2, <1>3, <1>4, NextSplit

(* What the winner files is a submission, never an absent row. *)
LEMMA WinnerFiles ==
  ASSUME TypeOK, NEW a \in Actors, FinalizeWin(a)
  PROVE  submission = NULL /\ submission' \in Submissions /\ submission' # NULL
<1>1. job[a].reason \in Reasons /\ job[a].answers \in Sheets
  BY JobShape DEF FinalizeWin, At, TypeOK
<1>2. submission' \in Submissions
  BY <1>1 DEF FinalizeWin, Submissions
<1> QED
  BY <1>2, IdentityAssumption DEF FinalizeWin

LEMMA FiledStaysFiled ==
  ASSUME TypeOK, [Next]_vars, submission # NULL
  PROVE  submission' = submission
<1>1. CASE Next
  BY <1>1, OnlyTheWinnerFiles, WinnerFiles
<1>2. CASE UNCHANGED vars
  BY <1>2 DEF vars
<1> QED
  BY <1>1, <1>2

(* However many submits, sweeps, forced endings and lost connections race, the *)
(* submission is inserted once and never rewritten.                            *)
THEOREM FiledOnce == Spec => SubmissionIsFinal
<1>1. TypeOK /\ [Next]_vars => [submission # NULL => submission' = submission]_submission
  BY FiledStaysFiled
<1> QED
  BY <1>1, TypeCorrect, PTL DEF Spec, SubmissionIsFinal

(* Only finalizeSubmission closes a row, and it leaves a submission behind. *)
LEMMA ClosedByFinalize ==
  ASSUME TypeOK, Next, ~\E a \in Actors : Finalize(a)
  PROVE  status' = status \/ status' \in Active
<1>1. ASSUME NEW h \in Handlers, Student(h) PROVE status' = status \/ status' \in Active
  BY <1>1 DEF Student, SaveAnswer, UpsertAnswer, Submit, RecordViolation, AutoPause,
              SetConnection, WriteConnection, RequestResume, ExpirePending, InsertRequest,
              row, Active
<1>2. ASSUME NEW h \in Handlers, Staff(h) PROVE status' = status \/ status' \in Active
  BY <1>2 DEF Staff, ForceSubmit, ForceSubmitSession, ForceEndExam, CloseForcedExam,
              InstructorAction, WriteAction, Decide, WriteDecision, ApplyDecision,
              Extend, ReadFresh, CommitExtension, row, Active
<1>3. ASSUME NEW a \in Actors, FinalizeFail(a) \/ Abort(a) PROVE status' = status
  BY <1>3 DEF FinalizeFail, Abort, row
<1>4. Environment => status' = status
  BY DEF Environment, SweepExpired, SweepBatch, Heartbeat, DisconnectAction,
         SetExamStatus, CloseEndedExam, Tick, row
<1> QED
  BY <1>1, <1>2, <1>3, <1>4, NextSplit

LEMMA ClosedStep ==
  ASSUME TypeOK, ClosedHasSubmission, [Next]_vars
  PROVE  ClosedHasSubmission'
<1>1. CASE \E a \in Actors : FinalizeWin(a)
  BY <1>1, WinnerFiles DEF ClosedHasSubmission
<1>2. CASE \E a \in Actors : FinalizeLose(a)
  BY <1>2 DEF FinalizeLose, ClosedHasSubmission
<1>3. CASE Next /\ ~\E a \in Actors : Finalize(a)
  <2>1. status' = status \/ status' \in Active
    BY <1>3, ClosedByFinalize
  <2>2. submission # NULL => submission' = submission
    BY <1>3, FiledStaysFiled
  <2> QED
    BY <2>1, <2>2 DEF ClosedHasSubmission, Active, Closed
<1>4. CASE UNCHANGED vars
  BY <1>4 DEF vars, row, ClosedHasSubmission
<1> QED
  BY <1>1, <1>2, <1>3, <1>4 DEF Finalize

(* A closed session always has its submission: no interleaving and no failure *)
(* between two round trips leaves a session closed and its attempt lost.      *)
THEOREM NothingIsLost == Spec => []ClosedHasSubmission
<1>1. Init => ClosedHasSubmission
  BY DEF Init, ClosedHasSubmission, Closed
<1>2. TypeOK /\ ClosedHasSubmission /\ [Next]_vars => ClosedHasSubmission'
  BY ClosedStep
<1> QED
  BY <1>1, <1>2, TypeCorrect, PTL DEF Spec

-----------------------------------------------------------------------------
\* The deadline an attempt started with

(* The deadline pair an extension may find, in the row or in a handler's hands: *)
(* either no grant was recorded and the deadline is the first one, or the first *)
(* one is on record and the deadline is no earlier.                             *)
Honest(deadline, original) ==
  /\ deadline >= Duration
  /\ \/ original = NULL /\ deadline = Duration
     \/ original = Duration

DeadlineInv ==
  /\ Honest(expiresAt, originalExpiresAt)
  /\ \A h \in Handlers : At(h, "extend") => Honest(job[h].expiresAt, job[h].original)

(* A step that leaves the deadlines and starts no transaction. *)
LEMMA DeadlineKept ==
  ASSUME DeadlineInv, expiresAt' = expiresAt, originalExpiresAt' = originalExpiresAt,
         \A h \in Handlers : job'[h].pc = "extend" => job'[h] = job[h]
  PROVE  DeadlineInv'
BY DEF DeadlineInv, Honest, At

(* Every other step does just that. *)
LEMMA OnlyGrantsMoveDeadlines ==
  ASSUME TypeOK, Next, ~\E h \in Handlers : ReadFresh(h) \/ CommitExtension(h)
  PROVE  /\ UNCHANGED time
         /\ \A h \in Handlers : job'[h].pc = "extend" => job'[h] = job[h]
<1>j. job \in [Actors -> Jobs]
  BY DEF TypeOK
<1>1. ASSUME NEW h \in Handlers, Student(h)
      PROVE  UNCHANGED time /\ \A g \in Actors : job'[g].pc = "extend" => job'[g] = job[g]
  <2> h \in Actors
    BY ActorsOfHandlers
  <2>1. CASE WriteConnection(h)
    BY <2>1, <1>j DEF WriteConnection, Set, Idle
  <2>2. CASE \E s \in {"CONNECTED", "DISCONNECTED"} : SetConnection(h, s)
    BY <2>2, <1>j DEF SetConnection, row, Set
  <2>3. CASE SaveAnswer(h) \/ UpsertAnswer(h) \/ Submit(h)
    BY <2>3, <1>j DEF SaveAnswer, UpsertAnswer, Submit, row, Set, Finish, Idle, FinalizeJob
  <2>4. CASE \/ RecordViolation(h) \/ AutoPause(h)
             \/ RequestResume(h) \/ ExpirePending(h) \/ InsertRequest(h)
    BY <2>4, <1>j DEF RecordViolation, AutoPause, RequestResume, ExpirePending, InsertRequest,
              row, Set, Finish, Idle
  <2> QED
    BY <1>1, <2>1, <2>2, <2>3, <2>4 DEF Student
<1>2. ASSUME NEW h \in Handlers, Staff(h), ~ReadFresh(h), ~CommitExtension(h)
      PROVE  UNCHANGED time /\ \A g \in Actors : job'[g].pc = "extend" => job'[g] = job[g]
  <2> h \in Actors
    BY ActorsOfHandlers
  <2>1. CASE WriteDecision(h)
    BY <2>1, <1>j DEF WriteDecision, row, Set, At
  <2>2. CASE WriteAction(h) \/ ApplyDecision(h)
    <3>1. UNCHANGED time
      BY <2>2 DEF WriteAction, ApplyDecision
    <3>2. Finish(h)
      BY <2>2 DEF WriteAction, ApplyDecision
    <3> QED
      BY <3>1, <3>2, <1>j DEF Set, Finish, Idle
  <2>3. CASE \/ ForceSubmit(h) \/ ForceSubmitSession(h) \/ ForceEndExam(h)
             \/ CloseForcedExam(h)
    BY <2>3, <1>j DEF ForceSubmit, ForceSubmitSession, ForceEndExam, CloseForcedExam,
              row, Set, Finish, Idle, FinalizeJob
  <2>4. CASE \/ \E a \in {"pause", "resume", "approve_resume", "deny_resume"} :
                  InstructorAction(h, a)
             \/ Decide(h) \/ Extend(h)
    BY <2>4, <1>j DEF InstructorAction, Decide, Extend, row, Set
  <2> QED
    BY <1>2, <2>1, <2>2, <2>3, <2>4 DEF Staff
<1>3. ASSUME NEW a \in Actors, Finalize(a) \/ FinalizeFail(a) \/ Abort(a)
      PROVE  UNCHANGED time /\ \A g \in Actors : job'[g].pc = "extend" => job'[g] = job[g]
  BY <1>3, <1>j DEF Finalize, FinalizeWin, FinalizeLose, FinalizeFail, Abort, CloseRow,
            AfterFinalize, row, Set, Finish, Idle
<1>4. Environment => UNCHANGED time /\ \A g \in Actors : job'[g].pc = "extend" => job'[g] = job[g]
  BY <1>j, LifecycleIsActor
     DEF Environment, SweepExpired, SweepBatch, Heartbeat, DisconnectAction,
         SetExamStatus, CloseEndedExam, Tick, row, Set, FinalizeJob
<1> QED
  BY <1>1, <1>2, <1>3, <1>4, NextSplit, ActorsOfHandlers

LEMMA DeadlineStep ==
  ASSUME TypeOK, DeadlineInv, [Next]_vars
  PROVE  DeadlineInv'
<1>j. job \in [Actors -> Jobs]
  BY DEF TypeOK
<1>1. ASSUME NEW h \in Handlers, ReadFresh(h) PROVE DeadlineInv'
  <2>1. h \in Actors
    BY ActorsOfHandlers
  <2>2. UNCHANGED time
    BY <1>1 DEF ReadFresh, row
  <2>3. ASSUME NEW g \in Handlers, job'[g].pc = "extend"
        PROVE  Honest(job'[g].expiresAt, job'[g].original)
    <3>1. CASE g = h
      <4>1. job'[g] = [pc |-> "extend", minutes |-> job[h].minutes, at |-> job[h].at,
                       expiresAt |-> expiresAt, original |-> originalExpiresAt,
                       total |-> totalExtension]
        BY <1>1, <1>j, <2>1, <2>3, <3>1 DEF ReadFresh, Set, Idle
      <4> QED
        BY <4>1 DEF DeadlineInv
    <3>2. CASE g # h
      <4>1. job'[g] = job[g]
        BY <1>1, <1>j, <2>1, <3>2, ActorsOfHandlers DEF ReadFresh, Set
      <4> QED
        BY <4>1, <2>3 DEF DeadlineInv, At
    <3> QED
      BY <3>1, <3>2
  <2> QED
    BY <2>2, <2>3 DEF DeadlineInv, Honest, At, time
<1>2. ASSUME NEW h \in Handlers, CommitExtension(h) PROVE DeadlineInv'
  <2>1. h \in Actors
    BY ActorsOfHandlers
  <2>2. /\ job[h].minutes \in Nat /\ job[h].at \in Nat /\ job[h].expiresAt \in Nat
        /\ Honest(job[h].expiresAt, job[h].original)
    BY <1>2, <1>j, <2>1, JobShape, TimeAssumption DEF CommitExtension, At, DeadlineInv
  <2>3. expiresAt' >= Duration
    BY <1>2, <2>2, TimeAssumption DEF CommitExtension, ExtendedDeadline, Honest
  <2>4. originalExpiresAt' = Duration
    BY <1>2, <2>2, IdentityAssumption, TimeAssumption DEF CommitExtension, Honest
  <2>5. ASSUME NEW g \in Handlers, job'[g].pc = "extend" PROVE job'[g] = job[g]
    BY <1>2, <1>j, <2>1, <2>5, ActorsOfHandlers DEF CommitExtension, Finish, Set, Idle
  <2> QED
    BY <2>3, <2>4, <2>5 DEF DeadlineInv, Honest, At
<1>3. CASE Next /\ ~\E h \in Handlers : ReadFresh(h) \/ CommitExtension(h)
  BY <1>3, OnlyGrantsMoveDeadlines, DeadlineKept DEF time
<1>4. CASE UNCHANGED vars
  BY <1>4 DEF vars, row, time, DeadlineInv, Honest, At
<1> QED
  BY <1>1, <1>2, <1>3, <1>4

(* Racing, repeated and late grants never lose the first deadline nor shorten it. *)
THEOREM DeadlineIsKept == Spec => []OriginalDeadlineKept
<1>1. Init => DeadlineInv
  BY TimeAssumption DEF Init, DeadlineInv, Honest, At, Idle, Actors
<1>2. TypeOK /\ DeadlineInv /\ [Next]_vars => DeadlineInv'
  BY DeadlineStep
<1>3. DeadlineInv => OriginalDeadlineKept
  BY DEF DeadlineInv, Honest, OriginalDeadlineKept
<1> QED
  BY <1>1, <1>2, <1>3, TypeCorrect, PTL DEF Spec

-----------------------------------------------------------------------------
\* Nobody is filed as expired early

Filing == {"batch", "finalize", "force"}

(* A job that may end in a submission only calls it expired after Duration. *)
Punctual(j, clock) ==
  /\ j.pc = "batch" => clock > Duration
  /\ j.pc = "finalize" /\ j.reason = "AUTO_TIME_EXPIRY" => clock > Duration
  /\ j.pc = "force" => j.reason # "AUTO_TIME_EXPIRY"

PunctualInv ==
  /\ NeverFiledEarly
  /\ \A a \in Actors : Punctual(job[a], now)

(* The steps that put a filing job into an actor's hands. *)
StartsFiling(h) ==
  Submit(h) \/ ForceSubmit(h) \/ ForceSubmitSession(h) \/ ForceEndExam(h) \/ WriteConnection(h)

LEMMA ClockGrows ==
  ASSUME TypeOK, [Next]_vars
  PROVE  now' \in Nat /\ now' >= now
<1>1. ASSUME NEW h \in Handlers, Student(h) PROVE now' = now
  BY <1>1 DEF Student, SaveAnswer, UpsertAnswer, Submit, RecordViolation, AutoPause,
              SetConnection, WriteConnection, RequestResume, ExpirePending, InsertRequest
<1>2. ASSUME NEW h \in Handlers, Staff(h) PROVE now' = now
  BY <1>2 DEF Staff, ForceSubmit, ForceSubmitSession, ForceEndExam, CloseForcedExam,
              InstructorAction, WriteAction, Decide, WriteDecision, ApplyDecision,
              Extend, ReadFresh, CommitExtension
<1>3. ASSUME NEW a \in Actors, Finalize(a) \/ FinalizeFail(a) \/ Abort(a) PROVE now' = now
  BY <1>3 DEF Finalize, FinalizeWin, FinalizeLose, FinalizeFail, Abort
<1>4. Environment => now' = now \/ now' = now + 1
  BY DEF Environment, SweepExpired, SweepBatch, Heartbeat, DisconnectAction,
         SetExamStatus, CloseEndedExam, Tick
<1>5. CASE Next
  BY <1>1, <1>2, <1>3, <1>4, <1>5, NextSplit DEF TypeOK
<1>6. CASE UNCHANGED vars
  BY <1>6 DEF vars, TypeOK
<1> QED
  BY <1>5, <1>6

LEMMA OthersStartNoFiling ==
  ASSUME TypeOK, Next, ~SweepExpired, ~SweepBatch, ~\E h \in Handlers : StartsFiling(h)
  PROVE  \A g \in Actors : job'[g].pc \in Filing => job'[g] = job[g]
<1>j. job \in [Actors -> Jobs]
  BY DEF TypeOK
<1>1. ASSUME NEW h \in Handlers, Student(h), ~StartsFiling(h)
      PROVE  \A g \in Actors : job'[g].pc \in Filing => job'[g] = job[g]
  <2> h \in Actors
    BY ActorsOfHandlers
  <2>1. CASE \E s \in {"CONNECTED", "DISCONNECTED"} : SetConnection(h, s)
    BY <2>1, <1>j DEF SetConnection, Set, Filing
  <2>2. CASE SaveAnswer(h) \/ UpsertAnswer(h)
    BY <2>2, <1>j DEF SaveAnswer, UpsertAnswer, Set, Finish, Idle, Filing
  <2>3. CASE \/ RecordViolation(h) \/ AutoPause(h)
             \/ RequestResume(h) \/ ExpirePending(h) \/ InsertRequest(h)
    BY <2>3, <1>j DEF RecordViolation, AutoPause, RequestResume, ExpirePending, InsertRequest,
              Set, Finish, Idle, Filing
  <2> QED
    BY <1>1, <2>1, <2>2, <2>3 DEF Student, StartsFiling
<1>2. ASSUME NEW h \in Handlers, Staff(h), ~StartsFiling(h)
      PROVE  \A g \in Actors : job'[g].pc \in Filing => job'[g] = job[g]
  <2> h \in Actors
    BY ActorsOfHandlers
  <2>1. CASE WriteDecision(h)
    BY <2>1, <1>j DEF WriteDecision, Set, At, Filing
  <2>2. CASE WriteAction(h) \/ ApplyDecision(h) \/ CommitExtension(h) \/ CloseForcedExam(h)
    <3>1. Finish(h)
      BY <2>2 DEF WriteAction, ApplyDecision, CommitExtension, CloseForcedExam
    <3> QED
      BY <3>1, <1>j DEF Set, Finish, Idle, Filing
  <2>3. CASE \/ \E a \in {"pause", "resume", "approve_resume", "deny_resume"} :
                  InstructorAction(h, a)
             \/ Decide(h) \/ Extend(h)
    BY <2>3, <1>j DEF InstructorAction, Decide, Extend, Set, Filing
  <2>4. CASE ReadFresh(h)
    BY <2>4, <1>j DEF ReadFresh, Set, Idle, Filing
  <2> QED
    BY <1>2, <2>1, <2>2, <2>3, <2>4 DEF Staff, StartsFiling
<1>3. ASSUME NEW a \in Actors, Finalize(a) \/ FinalizeFail(a) \/ Abort(a)
      PROVE  \A g \in Actors : job'[g].pc \in Filing => job'[g] = job[g]
  <2>1. AfterFinalize(a) \/ Finish(a)
    BY <1>3 DEF Finalize, FinalizeWin, FinalizeLose, FinalizeFail, Abort
  <2> QED
    BY <2>1, <1>j DEF AfterFinalize, Finish, Set, Idle, Filing
<1>4. Environment => job' = job
  BY DEF Environment, Heartbeat, DisconnectAction, SetExamStatus, CloseEndedExam, Tick
<1> QED
  BY <1>1, <1>2, <1>3, <1>4, NextSplit

LEMMA JobsStayPunctual ==
  ASSUME TypeOK, DeadlineInv, PunctualInv, [Next]_vars
  PROVE  \A g \in Actors : Punctual(job'[g], now')
<1>j. job \in [Actors -> Jobs] /\ now \in Nat /\ expiresAt \in Nat
  BY DEF TypeOK
<1>n. now' \in Nat /\ now' >= now
  BY ClockGrows
(* It is enough that the step writes one job, and a punctual one. *)
<1>s. ASSUME NEW a \in Actors, NEW j, Set(a, j), Punctual(j, now')
      PROVE  \A g \in Actors : Punctual(job'[g], now')
  BY <1>s, <1>j, <1>n, TimeAssumption DEF Set, Punctual, PunctualInv
<1>1. ASSUME NEW h \in Handlers, Submit(h)
      PROVE  \A g \in Actors : Punctual(job'[g], now')
  <2>1. StudentReason = "AUTO_TIME_EXPIRY" => now > Duration
    BY <1>j, TimeAssumption DEF StudentReason, Expired, DeadlineInv, Honest
  <2>2. Punctual(FinalizeJob(StudentReason, FALSE), now')
    BY <1>1, <2>1 DEF Submit, Punctual, FinalizeJob
  <2> QED
    BY <1>1, <1>s, <2>2, ActorsOfHandlers DEF Submit
<1>2. ASSUME NEW h \in Handlers, ForceSubmit(h)
      PROVE  \A g \in Actors : Punctual(job'[g], now')
  <2>1. PICK r \in {"AUTO_INSTRUCTOR_END_SESSION", "AUTO_ADMIN_FORCE_SUBMIT"} :
          Set(h, [pc |-> "force", reason |-> r])
    BY <1>2 DEF ForceSubmit
  <2>2. Punctual([pc |-> "force", reason |-> r], now')
    BY DEF Punctual
  <2> QED
    BY <1>s, <2>1, <2>2, ActorsOfHandlers
<1>3. ASSUME NEW h \in Handlers, ForceSubmitSession(h)
      PROVE  \A g \in Actors : Punctual(job'[g], now')
  <2>1. job[h].reason # "AUTO_TIME_EXPIRY"
    BY <1>3, ActorsOfHandlers DEF ForceSubmitSession, At, PunctualInv, Punctual
  <2>2. Punctual(FinalizeJob(job[h].reason, FALSE), now')
    BY <2>1 DEF Punctual, FinalizeJob
  <2> QED
    BY <1>3, <1>s, <2>2, ActorsOfHandlers DEF ForceSubmitSession
<1>4. ASSUME NEW h \in Handlers, ForceEndExam(h)
      PROVE  \A g \in Actors : Punctual(job'[g], now')
  <2>1. /\ Punctual(FinalizeJob("AUTO_EXAM_ENDED", TRUE), now')
        /\ Punctual([pc |-> "closeExam"], now')
    BY DEF Punctual, FinalizeJob
  <2>2. \/ Set(h, FinalizeJob("AUTO_EXAM_ENDED", TRUE))
        \/ Set(h, [pc |-> "closeExam"])
    BY <1>4 DEF ForceEndExam
  <2> QED
    BY <1>s, <2>1, <2>2, ActorsOfHandlers
<1>5. ASSUME NEW h \in Handlers, WriteConnection(h)
      PROVE  \A g \in Actors : Punctual(job'[g], now')
  <2>1. /\ Punctual([pc |-> "force", reason |-> "AUTO_CONNECTION_LOST"], now')
        /\ Punctual([pc |-> "autoPause"], now')
        /\ Punctual(Idle, now')
    BY DEF Punctual, Idle
  <2>2. \/ Set(h, [pc |-> "force", reason |-> "AUTO_CONNECTION_LOST"])
        \/ Set(h, [pc |-> "autoPause"])
        \/ Set(h, Idle)
    BY <1>5 DEF WriteConnection
  <2> QED
    BY <1>s, <2>1, <2>2, ActorsOfHandlers
<1>6. CASE SweepExpired
  <2>1. now > Duration
    BY <1>6, <1>j, TimeAssumption DEF SweepExpired, DeadlineInv, Honest
  <2>2. Punctual([pc |-> "batch"], now')
    BY <1>6, <2>1 DEF SweepExpired, Punctual
  <2> QED
    BY <1>6, <1>s, <2>2, LifecycleIsActor DEF SweepExpired
<1>7. CASE SweepBatch
  <2>1. now > Duration
    BY <1>7, LifecycleIsActor DEF SweepBatch, At, PunctualInv, Punctual
  <2>2. Punctual(FinalizeJob("AUTO_TIME_EXPIRY", FALSE), now')
    BY <1>7, <2>1 DEF SweepBatch, Punctual, FinalizeJob
  <2> QED
    BY <1>7, <1>s, <2>2, LifecycleIsActor DEF SweepBatch
<1>8. CASE Next /\ ~SweepExpired /\ ~SweepBatch /\ ~\E h \in Handlers : StartsFiling(h)
  <2>1. \A g \in Actors : job'[g].pc \in Filing => job'[g] = job[g]
    BY <1>8, OthersStartNoFiling
  <2> QED
    BY <2>1, <1>j, <1>n, TimeAssumption DEF Filing, Punctual, PunctualInv
<1>9. CASE UNCHANGED vars
  BY <1>9 DEF vars, PunctualInv
<1> QED
  BY <1>1, <1>2, <1>3, <1>4, <1>5, <1>6, <1>7, <1>8, <1>9 DEF StartsFiling

LEMMA PunctualStep ==
  ASSUME TypeOK, DeadlineInv, PunctualInv, [Next]_vars
  PROVE  PunctualInv'
<1>1. \A g \in Actors : Punctual(job'[g], now')
  BY JobsStayPunctual
<1>2. now \in Nat /\ now' \in Nat /\ now' >= now
  BY ClockGrows DEF TypeOK
<1>3. ASSUME NEW a \in Actors, FinalizeWin(a) PROVE NeverFiledEarly'
  BY <1>3, <1>2, TimeAssumption DEF FinalizeWin, At, PunctualInv, Punctual, NeverFiledEarly
<1>4. ASSUME submission' = submission PROVE NeverFiledEarly'
  BY <1>4, <1>2, TimeAssumption DEF PunctualInv, NeverFiledEarly
<1>5. submission' = submission \/ \E a \in Actors : FinalizeWin(a)
  BY OnlyTheWinnerFiles DEF vars
<1> QED
  BY <1>1, <1>3, <1>4, <1>5 DEF PunctualInv, Punctual

(* No attempt is filed as expired before the deadline it started with, by a *)
(* student's own submit or by the sweep, whatever was granted in between.   *)
THEOREM ExpiryIsPunctual == Spec => []NeverFiledEarly
<1>1. Init => DeadlineInv
  BY TimeAssumption DEF Init, DeadlineInv, Honest, At, Idle, Actors
<1>2. Init => PunctualInv
  BY DEF Init, PunctualInv, Punctual, NeverFiledEarly, Idle
<1>3. TypeOK /\ DeadlineInv /\ [Next]_vars => DeadlineInv'
  BY DeadlineStep
<1>4. TypeOK /\ DeadlineInv /\ PunctualInv /\ [Next]_vars => PunctualInv'
  BY PunctualStep
<1>5. PunctualInv => NeverFiledEarly
  BY DEF PunctualInv
<1> QED
  BY <1>1, <1>2, <1>3, <1>4, <1>5, TypeCorrect, PTL DEF Spec

-----------------------------------------------------------------------------
\* Without a proctor's bare pause, a paused session awaits an approval

PauseInv ==
  /\ PausedAwaitsApproval
  /\ \A h \in Handlers : At(h, "act") => job[h].action # "pause"

(* The steps that write the status or the approval of the row. *)
WritesStatus(h) == AutoPause(h) \/ WriteAction(h) \/ ApplyDecision(h)

LEMMA OthersKeepStatus ==
  ASSUME Next, ~\E h \in Handlers : WritesStatus(h), ~\E a \in Actors : Finalize(a)
  PROVE  status' = status /\ approved' = approved
<1>1. ASSUME NEW h \in Handlers, Student(h), ~WritesStatus(h)
      PROVE  status' = status /\ approved' = approved
  BY <1>1 DEF Student, WritesStatus, SaveAnswer, UpsertAnswer, Submit, RecordViolation,
              SetConnection, WriteConnection, RequestResume, ExpirePending, InsertRequest,
              row, flags
<1>2. ASSUME NEW h \in Handlers, Staff(h), ~WritesStatus(h)
      PROVE  status' = status /\ approved' = approved
  BY <1>2 DEF Staff, WritesStatus, ForceSubmit, ForceSubmitSession, ForceEndExam,
              CloseForcedExam, InstructorAction, Decide, WriteDecision, Extend, ReadFresh,
              CommitExtension, row, flags
<1>3. ASSUME NEW a \in Actors, FinalizeFail(a) \/ Abort(a)
      PROVE  status' = status /\ approved' = approved
  BY <1>3 DEF FinalizeFail, Abort, row, flags
<1>4. Environment => status' = status /\ approved' = approved
  BY DEF Environment, SweepExpired, SweepBatch, Heartbeat, DisconnectAction,
         SetExamStatus, CloseEndedExam, Tick, row, flags
<1> QED
  BY <1>1, <1>2, <1>3, <1>4, NextSplit

(* Only a proctor's action puts an "act" job into a handler's hands. *)
LEMMA OnlyActionsAct ==
  ASSUME TypeOK, Next,
         ~\E h \in Handlers, a \in {"pause", "resume", "approve_resume", "deny_resume"} :
            InstructorAction(h, a)
  PROVE  \A g \in Actors : job'[g].pc = "act" => job'[g] = job[g]
<1>j. job \in [Actors -> Jobs]
  BY DEF TypeOK
<1>1. ASSUME NEW h \in Handlers, Student(h)
      PROVE  \A g \in Actors : job'[g].pc = "act" => job'[g] = job[g]
  <2> h \in Actors
    BY ActorsOfHandlers
  <2>1. CASE \E s \in {"CONNECTED", "DISCONNECTED"} : SetConnection(h, s)
    BY <2>1, <1>j DEF SetConnection, Set
  <2>2. CASE WriteConnection(h)
    BY <2>2, <1>j DEF WriteConnection, Set, Idle
  <2>3. CASE SaveAnswer(h) \/ UpsertAnswer(h) \/ Submit(h)
    BY <2>3, <1>j DEF SaveAnswer, UpsertAnswer, Submit, Set, Finish, Idle, FinalizeJob
  <2>4. CASE \/ RecordViolation(h) \/ AutoPause(h)
             \/ RequestResume(h) \/ ExpirePending(h) \/ InsertRequest(h)
    BY <2>4, <1>j DEF RecordViolation, AutoPause, RequestResume, ExpirePending, InsertRequest,
              Set, Finish, Idle
  <2> QED
    BY <1>1, <2>1, <2>2, <2>3, <2>4 DEF Student
<1>2. ASSUME NEW h \in Handlers, Staff(h),
             ~\E a \in {"pause", "resume", "approve_resume", "deny_resume"} : InstructorAction(h, a)
      PROVE  \A g \in Actors : job'[g].pc = "act" => job'[g] = job[g]
  <2> h \in Actors
    BY ActorsOfHandlers
  <2>1. CASE WriteDecision(h)
    BY <2>1, <1>j DEF WriteDecision, Set, At
  <2>2. CASE WriteAction(h) \/ ApplyDecision(h) \/ CommitExtension(h) \/ CloseForcedExam(h)
    <3>1. Finish(h)
      BY <2>2 DEF WriteAction, ApplyDecision, CommitExtension, CloseForcedExam
    <3> QED
      BY <3>1, <1>j DEF Set, Finish, Idle
  <2>3. CASE ForceSubmit(h) \/ ForceSubmitSession(h) \/ ForceEndExam(h)
    BY <2>3, <1>j DEF ForceSubmit, ForceSubmitSession, ForceEndExam, Set, FinalizeJob
  <2>4. CASE Decide(h) \/ Extend(h) \/ ReadFresh(h)
    BY <2>4, <1>j DEF Decide, Extend, ReadFresh, Set, Idle
  <2> QED
    BY <1>2, <2>1, <2>2, <2>3, <2>4 DEF Staff
<1>3. ASSUME NEW a \in Actors, Finalize(a) \/ FinalizeFail(a) \/ Abort(a)
      PROVE  \A g \in Actors : job'[g].pc = "act" => job'[g] = job[g]
  <2>1. AfterFinalize(a) \/ Finish(a)
    BY <1>3 DEF Finalize, FinalizeWin, FinalizeLose, FinalizeFail, Abort
  <2> QED
    BY <2>1, <1>j DEF AfterFinalize, Finish, Set, Idle
<1>4. Environment => \A g \in Actors : job'[g].pc = "act" => job'[g] = job[g]
  BY <1>j, LifecycleIsActor
     DEF Environment, SweepExpired, SweepBatch, Heartbeat, DisconnectAction,
         SetExamStatus, CloseEndedExam, Tick, Set, FinalizeJob
<1> QED
  BY <1>1, <1>2, <1>3, <1>4, NextSplit

LEMMA PauseStep ==
  ASSUME "pause" \notin Workload, TypeOK, PauseInv, [Next]_vars
  PROVE  PauseInv'
<1>j. job \in [Actors -> Jobs]
  BY DEF TypeOK
<1>1. ASSUME NEW h \in Handlers, At(h, "act")'
      PROVE  job'[h].action # "pause"
  <2>1. CASE \E g \in Handlers, a \in {"pause", "resume", "approve_resume", "deny_resume"} :
               InstructorAction(g, a)
    <3>1. PICK g \in Handlers, a \in {"resume", "approve_resume", "deny_resume"} :
            Set(g, [pc |-> "act", action |-> a])
      BY <2>1 DEF InstructorAction, Starts
    <3> QED
      BY <1>1, <1>j, <3>1, ActorsOfHandlers DEF Set, At, PauseInv
  <2>2. CASE Next /\ ~\E g \in Handlers,
                         a \in {"pause", "resume", "approve_resume", "deny_resume"} :
                        InstructorAction(g, a)
    BY <1>1, <2>2, OnlyActionsAct, ActorsOfHandlers DEF At, PauseInv
  <2>3. CASE UNCHANGED vars
    BY <1>1, <2>3 DEF vars, At, PauseInv
  <2> QED
    BY <2>1, <2>2, <2>3
<1>2. PausedAwaitsApproval'
  <2>1. ASSUME NEW h \in Handlers, AutoPause(h) PROVE PausedAwaitsApproval'
    BY <2>1 DEF AutoPause, PausedAwaitsApproval
  <2>2. ASSUME NEW h \in Handlers, WriteAction(h) PROVE PausedAwaitsApproval'
    <3>1. job[h].action \in {"resume", "approve_resume", "deny_resume"}
      BY <2>2, <1>j, JobShape, ActorsOfHandlers DEF WriteAction, At, PauseInv
    <3> QED
      BY <2>2, <3>1 DEF WriteAction, PauseInv, PausedAwaitsApproval
  <2>3. ASSUME NEW h \in Handlers, ApplyDecision(h) PROVE PausedAwaitsApproval'
    BY <2>3 DEF ApplyDecision, PauseInv, PausedAwaitsApproval
  <2>4. ASSUME NEW a \in Actors, Finalize(a) PROVE PausedAwaitsApproval'
    BY <2>4 DEF Finalize, FinalizeWin, FinalizeLose, CloseRow, ClosedStatus, PausedAwaitsApproval
  <2>5. ASSUME status' = status, approved' = approved PROVE PausedAwaitsApproval'
    BY <2>5 DEF PauseInv, PausedAwaitsApproval
  <2>6. CASE Next
    BY <2>1, <2>2, <2>3, <2>4, <2>5, <2>6, OthersKeepStatus DEF WritesStatus
  <2>7. CASE UNCHANGED vars
    BY <2>5, <2>7 DEF vars, row, flags
  <2> QED
    BY <2>6, <2>7
<1> QED
  BY <1>1, <1>2 DEF PauseInv, At

(* While nobody uses the proctor's bare pause, a paused session never carries *)
(* an approval: the pause withdraws the one before it, whoever decides and in *)
(* whatever order, and only another write of staff lets the student go on     *)
(* (autoPause, setConnection, decide, approve_resume).                        *)
THEOREM InterruptionBlocks ==
  ASSUME "pause" \notin Workload
  PROVE  Spec => []PausedAwaitsApproval
<1>1. Init => PauseInv
  BY DEF Init, PauseInv, PausedAwaitsApproval, At, Idle, Actors
<1>2. TypeOK /\ PauseInv /\ [Next]_vars => PauseInv'
  BY PauseStep
<1>3. PauseInv => PausedAwaitsApproval
  BY DEF PauseInv
<1> QED
  BY <1>1, <1>2, <1>3, TypeCorrect, PTL DEF Spec

-----------------------------------------------------------------------------
\* Ending an exam files what it found running

(* Only forceEndExam and the finalisation it started come to closing the exam. *)
LEMMA OthersCloseNoExam ==
  ASSUME TypeOK, Next, "abort" \notin Workload,
         ~\E h \in Handlers : ForceEndExam(h), ~\E a \in Actors : Finalize(a)
  PROVE  \A g \in Actors : job'[g].pc = "closeExam" => job'[g] = job[g]
<1>j. job \in [Actors -> Jobs]
  BY DEF TypeOK
<1>1. ASSUME NEW h \in Handlers, Student(h)
      PROVE  \A g \in Actors : job'[g].pc = "closeExam" => job'[g] = job[g]
  <2> h \in Actors
    BY ActorsOfHandlers
  <2>1. CASE \E s \in {"CONNECTED", "DISCONNECTED"} : SetConnection(h, s)
    BY <2>1, <1>j DEF SetConnection, Set
  <2>2. CASE WriteConnection(h)
    BY <2>2, <1>j DEF WriteConnection, Set, Idle
  <2>3. CASE SaveAnswer(h) \/ UpsertAnswer(h) \/ Submit(h)
    BY <2>3, <1>j DEF SaveAnswer, UpsertAnswer, Submit, Set, Finish, Idle, FinalizeJob
  <2>4. CASE \/ RecordViolation(h) \/ AutoPause(h)
             \/ RequestResume(h) \/ ExpirePending(h) \/ InsertRequest(h)
    BY <2>4, <1>j DEF RecordViolation, AutoPause, RequestResume, ExpirePending, InsertRequest,
              Set, Finish, Idle
  <2> QED
    BY <1>1, <2>1, <2>2, <2>3, <2>4 DEF Student
<1>2. ASSUME NEW h \in Handlers, Staff(h), ~ForceEndExam(h)
      PROVE  \A g \in Actors : job'[g].pc = "closeExam" => job'[g] = job[g]
  <2> h \in Actors
    BY ActorsOfHandlers
  <2>1. CASE WriteDecision(h)
    BY <2>1, <1>j DEF WriteDecision, Set, At
  <2>2. CASE WriteAction(h) \/ ApplyDecision(h) \/ CommitExtension(h) \/ CloseForcedExam(h)
    <3>1. Finish(h)
      BY <2>2 DEF WriteAction, ApplyDecision, CommitExtension, CloseForcedExam
    <3> QED
      BY <3>1, <1>j DEF Set, Finish, Idle
  <2>3. CASE \/ \E a \in {"pause", "resume", "approve_resume", "deny_resume"} :
                  InstructorAction(h, a)
             \/ ForceSubmit(h) \/ ForceSubmitSession(h)
    BY <2>3, <1>j DEF InstructorAction, ForceSubmit, ForceSubmitSession, Set, FinalizeJob
  <2>4. CASE Decide(h) \/ Extend(h) \/ ReadFresh(h)
    BY <2>4, <1>j DEF Decide, Extend, ReadFresh, Set, Idle
  <2> QED
    BY <1>2, <2>1, <2>2, <2>3, <2>4 DEF Staff
<1>3. Environment => \A g \in Actors : job'[g].pc = "closeExam" => job'[g] = job[g]
  BY <1>j, LifecycleIsActor
     DEF Environment, SweepExpired, SweepBatch, Heartbeat, DisconnectAction,
         SetExamStatus, CloseEndedExam, Tick, Set, FinalizeJob
<1>4. ~\E a \in Actors : FinalizeFail(a) \/ Abort(a)
  BY DEF FinalizeFail, Abort
<1> QED
  BY <1>1, <1>2, <1>3, <1>4, NextSplit

LEMMA EndStep ==
  ASSUME "abort" \notin Workload, TypeOK, ClosedHasSubmission, EndedExamIsFiled, [Next]_vars
  PROVE  EndedExamIsFiled'
<1>j. job \in [Actors -> Jobs]
  BY DEF TypeOK
<1>1. ASSUME NEW h \in Handlers, ForceEndExam(h) PROVE EndedExamIsFiled'
  <2>1. submission' = submission
    BY <1>1 DEF ForceEndExam
  <2>2. ASSUME NEW g \in Handlers, job'[g].pc = "closeExam" PROVE submission # NULL
    <3>1. CASE g = h
      <4>1. status \notin Active
        BY <1>1, <1>j, <2>2, <3>1, ActorsOfHandlers DEF ForceEndExam, Set, FinalizeJob
      <4> QED
        BY <4>1 DEF TypeOK, ClosedHasSubmission
    <3>2. CASE g # h
      <4>1. job'[g] = job[g]
        BY <1>1, <1>j, <3>2, ActorsOfHandlers DEF ForceEndExam, Set
      <4> QED
        BY <4>1, <2>2 DEF EndedExamIsFiled, At
    <3> QED
      BY <3>1, <3>2
  <2> QED
    BY <2>1, <2>2 DEF EndedExamIsFiled, At
<1>2. ASSUME NEW a \in Actors, FinalizeWin(a) PROVE EndedExamIsFiled'
  BY <1>2, WinnerFiles DEF EndedExamIsFiled
<1>3. ASSUME NEW a \in Actors, FinalizeLose(a) PROVE EndedExamIsFiled'
  BY <1>3 DEF FinalizeLose, EndedExamIsFiled
<1>4. CASE /\ Next
           /\ ~\E h \in Handlers : ForceEndExam(h)
           /\ ~\E a \in Actors : Finalize(a)
  <2>1. \A g \in Actors : job'[g].pc = "closeExam" => job'[g] = job[g]
    BY <1>4, OthersCloseNoExam
  <2>2. submission # NULL => submission' = submission
    BY FiledStaysFiled
  <2> QED
    BY <2>1, <2>2, ActorsOfHandlers DEF EndedExamIsFiled, At
<1>5. CASE UNCHANGED vars
  BY <1>5 DEF vars, EndedExamIsFiled, At
<1> QED
  BY <1>1, <1>2, <1>3, <1>4, <1>5 DEF Finalize

(* When no transaction fails, ending an exam closes it only after the attempt *)
(* it found running is filed, however the finalisation raced.                 *)
THEOREM EndingFilesFirst ==
  ASSUME "abort" \notin Workload
  PROVE  Spec => []EndedExamIsFiled
<1>1. Init => ClosedHasSubmission /\ EndedExamIsFiled
  BY DEF Init, ClosedHasSubmission, Closed, EndedExamIsFiled, At, Idle, Actors
<1>2. TypeOK /\ ClosedHasSubmission /\ EndedExamIsFiled /\ [Next]_vars
        => ClosedHasSubmission' /\ EndedExamIsFiled'
  BY ClosedStep, EndStep
<1> QED
  BY <1>1, <1>2, TypeCorrect, PTL DEF Spec

-----------------------------------------------------------------------------
\* The implementation of the abstract attempt

(* The operations that write an active status over whatever they find. *)
Reopeners == {"violation", "connection", "pause", "resume", "approve_resume", "deny_resume", "decide"}

(* Without them, the jobs that would write such a status are never started. *)
NoReopening ==
  \A h \in Handlers : job[h].pc \notin {"autoPause", "connection", "act", "decide", "apply"}

(* An active status and a submission exclude each other. *)
ActiveIsUnfiled == status \in Active => submission = NULL

LEMMA NoReopeningStep ==
  ASSUME Workload \cap Reopeners = {}, TypeOK, NoReopening, [Next]_vars
  PROVE  NoReopening'
<1>j. job \in [Actors -> Jobs]
  BY DEF TypeOK
<1>s. ASSUME NEW a \in Actors, NEW j, Set(a, j),
             j.pc \notin {"autoPause", "connection", "act", "decide", "apply"}
      PROVE  NoReopening'
  BY <1>s, <1>j, ActorsOfHandlers DEF Set, NoReopening
<1>i. ASSUME NEW a \in Actors, Finish(a) \/ AfterFinalize(a) PROVE NoReopening'
  BY <1>i, <1>j, ActorsOfHandlers DEF Finish, AfterFinalize, Set, Idle, NoReopening
<1>1. ASSUME NEW h \in Handlers, Student(h) PROVE NoReopening'
  <2> h \in Actors
    BY ActorsOfHandlers
  <2>1. ~RecordViolation(h) /\ ~\E s \in {"CONNECTED", "DISCONNECTED"} : SetConnection(h, s)
    BY DEF RecordViolation, SetConnection, Starts, Reopeners
  <2>2. ~AutoPause(h) /\ ~WriteConnection(h)
    BY DEF AutoPause, WriteConnection, At, NoReopening
  <2>3. CASE SaveAnswer(h) \/ Submit(h) \/ RequestResume(h) \/ ExpirePending(h)
    BY <2>3, <1>s, <1>j, ActorsOfHandlers
       DEF SaveAnswer, Submit, RequestResume, ExpirePending, FinalizeJob, Set, NoReopening
  <2>4. CASE UpsertAnswer(h) \/ InsertRequest(h)
    BY <2>4, <1>i DEF UpsertAnswer, InsertRequest
  <2> QED
    BY <1>1, <2>1, <2>2, <2>3, <2>4 DEF Student
<1>2. ASSUME NEW h \in Handlers, Staff(h) PROVE NoReopening'
  <2> h \in Actors
    BY ActorsOfHandlers
  <2>1. ~Decide(h) /\ ~\E a \in {"pause", "resume", "approve_resume", "deny_resume"} :
                         InstructorAction(h, a)
    BY DEF Decide, InstructorAction, Starts, Reopeners
  <2>2. ~WriteAction(h) /\ ~WriteDecision(h) /\ ~ApplyDecision(h)
    BY DEF WriteAction, WriteDecision, ApplyDecision, At, NoReopening
  <2>3. CASE ForceSubmit(h) \/ ForceSubmitSession(h) \/ ForceEndExam(h)
    BY <2>3, <1>j, ActorsOfHandlers
       DEF ForceSubmit, ForceSubmitSession, ForceEndExam, FinalizeJob, Set, NoReopening
  <2>4. CASE Extend(h) \/ ReadFresh(h)
    BY <2>4, <1>j, ActorsOfHandlers DEF Extend, ReadFresh, Set, Idle, NoReopening
  <2>5. CASE CloseForcedExam(h) \/ CommitExtension(h)
    BY <2>5, <1>i DEF CloseForcedExam, CommitExtension
  <2> QED
    BY <1>2, <2>1, <2>2, <2>3, <2>4, <2>5 DEF Staff
<1>3. ASSUME NEW a \in Actors, Finalize(a) \/ FinalizeFail(a) \/ Abort(a) PROVE NoReopening'
  BY <1>3, <1>i DEF Finalize, FinalizeWin, FinalizeLose, FinalizeFail, Abort
<1>4. Environment => NoReopening'
  BY <1>j, LifecycleIsActor, ActorsOfHandlers
     DEF Environment, SweepExpired, SweepBatch, Heartbeat, DisconnectAction,
         SetExamStatus, CloseEndedExam, Tick, Set, FinalizeJob, NoReopening
<1>5. CASE UNCHANGED vars
  BY <1>5 DEF vars, NoReopening
<1> QED
  BY <1>1, <1>2, <1>3, <1>4, <1>5, NextSplit

(* What a step does to the three variables the abstract attempt sees. *)
LEMMA PromiseStep ==
  ASSUME Workload \cap Reopeners = {}, TypeOK, ClosedHasSubmission, ActiveIsUnfiled,
         DeadlineInv, PunctualInv, NoReopening, [Next]_vars
  PROVE  ActiveIsUnfiled' /\ [Promise!Next]_<<now, IF status \in Active THEN "running" ELSE "over", submission>>
<1> DEFINE phase == IF status \in Active THEN "running" ELSE "over"
<1> USE DEF Promise!Next, Promise!Tick, Promise!Put
<1>1. ASSUME NEW a \in Actors, FinalizeWin(a)
      PROVE  ActiveIsUnfiled' /\ \E f \in Submissions : Promise!Put(f)
  <2>1. /\ submission = NULL /\ submission' \in Submissions
        /\ submission'.reason = job[a].reason
        /\ now' = now
    BY <1>1, WinnerFiles DEF FinalizeWin
  <2>2. job[a].reason \in Reasons
    BY <1>1, JobShape DEF FinalizeWin, At, TypeOK
  <2>3. status' \in Closed
    BY <1>1, <2>2, ClosedStatusTyped DEF FinalizeWin, CloseRow
  <2>4. status \in Active
    BY <2>1 DEF TypeOK, ClosedHasSubmission
  <2>5. submission'.reason = "AUTO_TIME_EXPIRY" => now > Duration
    BY <1>1, <2>1 DEF FinalizeWin, At, PunctualInv, Punctual
  <2> QED
    BY <2>1, <2>3, <2>4, <2>5 DEF Active, Closed, ActiveIsUnfiled
<1>2. ASSUME NEW a \in Actors, FinalizeLose(a)
      PROVE  ActiveIsUnfiled' /\ UNCHANGED <<now, phase, submission>>
  <2>1. job[a].reason \in Reasons
    BY <1>2, JobShape DEF FinalizeLose, At, TypeOK
  <2>2. status' \in Closed
    BY <1>2, <2>1, ClosedStatusTyped DEF FinalizeLose, CloseRow
  <2> QED
    BY <1>2, <2>2 DEF FinalizeLose, ActiveIsUnfiled, Active, Closed
<1>3. CASE Next /\ ~\E a \in Actors : Finalize(a)
  <2>1. ~\E h \in Handlers : WritesStatus(h)
    BY DEF WritesStatus, AutoPause, WriteAction, ApplyDecision, At, NoReopening
  <2>2. status' = status
    BY <1>3, <2>1, OthersKeepStatus
  <2>3. submission' = submission
    BY <1>3, OnlyTheWinnerFiles DEF Finalize
  <2>4. now' = now \/ now' = now + 1
    BY <1>3 DEF Next, Student, SaveAnswer, UpsertAnswer, Submit, RecordViolation, AutoPause,
              SetConnection, WriteConnection, RequestResume, ExpirePending, InsertRequest,
              Staff, ForceSubmit, ForceSubmitSession, ForceEndExam, CloseForcedExam,
              InstructorAction, WriteAction, Decide, WriteDecision, ApplyDecision,
              Extend, ReadFresh, CommitExtension, FinalizeFail, Abort,
              SweepExpired, SweepBatch, Heartbeat, DisconnectAction,
              SetExamStatus, CloseEndedExam, Tick
  <2> QED
    BY <2>2, <2>3, <2>4 DEF ActiveIsUnfiled
<1>4. CASE UNCHANGED vars
  BY <1>4 DEF vars, row, ActiveIsUnfiled
<1> QED
  BY <1>1, <1>2, <1>3, <1>4 DEF Finalize

(* As long as no operation that reopens sessions is used, every interleaving *)
(* of the others implements the abstract attempt.                            *)
THEOREM ImplementsAttempt ==
  ASSUME Workload \cap Reopeners = {}
  PROVE  Spec => KeepsPromise
<1> DEFINE Inv == /\ TypeOK /\ ClosedHasSubmission /\ ActiveIsUnfiled
                  /\ DeadlineInv /\ PunctualInv /\ NoReopening
<1>1. Init => Inv
  <2>1. Init => DeadlineInv
    BY TimeAssumption DEF Init, DeadlineInv, Honest, At, Idle, Actors
  <2>2. Init => PunctualInv
    BY DEF Init, PunctualInv, Punctual, NeverFiledEarly, Idle
  <2>3. Init => ClosedHasSubmission /\ ActiveIsUnfiled
    BY DEF Init, ClosedHasSubmission, ActiveIsUnfiled, Closed
  <2>4. Init => NoReopening
    BY DEF Init, NoReopening, Idle, Actors
  <2> QED
    BY <2>1, <2>2, <2>3, <2>4, InitTyped
<1>2. Inv /\ TypeOK' /\ [Next]_vars => Inv'
  BY ClosedStep, DeadlineStep, PunctualStep, NoReopeningStep, PromiseStep
<1>3. Init => Promise!Init
  BY DEF Init, Promise!Init, Active
<1>4. Inv /\ [Next]_vars
        => [Promise!Next]_<<now, IF status \in Active THEN "running" ELSE "over", submission>>
  BY PromiseStep
<1> HIDE DEF Inv
<1>5. Inv => TypeOK
  BY DEF Inv
<1> QED
  BY <1>1, <1>2, <1>3, <1>4, <1>5, TypeCorrect, PTL DEF Spec, KeepsPromise, Promise!Spec

=============================================================================
