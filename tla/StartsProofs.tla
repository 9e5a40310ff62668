----------------------------- MODULE StartsProofs -----------------------------
(* What a single tab and an interrupted attempt can count on, for any        *)
(* handlers, requests, policies and allowance.  The arguments are those of   *)
(* StartExamProofs about the exam with one tab, and of                       *)
(* SessionLifecycleProofs about the attempt.                                 *)
EXTENDS Starts, FiniteSets, TLAPS

P == INSTANCE StartExamProofs WITH
  Tabs <- {Tab}, Requests <- TabRequests,
  RetakePolicy <- TabPolicy, AttemptsAllowed <- TabAttempts, Workload <- TabWorkload

S == INSTANCE SessionLifecycleProofs WITH
  Handlers <- ResumeHandlers, Requests <- ResumeRequests, Workload <- ResumeWorkload,
  requests <- resumeRequests, examStatus <- resumeExam, job <- resumeJob

LEMMA OneTabAssumed == P!StartAssumption
BY StartAssumption, OneTabAssumption
   DEF P!StartAssumption, P!RetakePolicies, P!Operations, RetakePolicies, Operations

LEMMA SameCount == \A T : OneTab!Cardinality(T) = P!Cardinality(T)
BY DEF OneTab!Cardinality, P!Cardinality

-----------------------------------------------------------------------------
\* The exam with one tab starts and steps as that of StartExamProofs does

LEMMA InitAgrees == OneTab!Init => P!Init
BY DEF OneTab!Init, P!Init, OneTab!NoRequest, P!NoRequest, OneTab!Idle, P!Idle

LEMMA StartAgrees == \A h : OneTab!Start(h) => P!Start(h)
BY DEF
    OneTab!Start, P!Start, OneTab!StartExam, P!StartExam, OneTab!CheckPolicy, P!CheckPolicy,
    OneTab!CountAttempts, P!CountAttempts, OneTab!InsertAttempt, P!InsertAttempt, OneTab!Collide,
    P!Collide, OneTab!FindWinner, P!FindWinner, OneTab!StartOver, P!StartOver, OneTab!Reply,
    P!Reply, OneTab!FindActive, P!FindActive, OneTab!PolicyAllows, P!PolicyAllows,
    OneTab!LatestClosed, P!LatestClosed, OneTab!RetakeApproved, P!RetakeApproved,
    OneTab!ResumeAllowed, P!ResumeAllowed, OneTab!NewAttempt, P!NewAttempt, OneTab!Free, P!Free,
    OneTab!Set, P!Set, OneTab!Finish, P!Finish, OneTab!Serve, P!Serve, OneTab!At, P!At,
    OneTab!Starts, P!Starts, OneTab!history, P!history, OneTab!Rows, P!Rows, OneTab!Running,
    P!Running, OneTab!ClosedRows, P!ClosedRows, OneTab!Active, P!Active, OneTab!Idle, P!Idle, OneTab!WithStatus, P!WithStatus,
    OneTab!WithPermit, P!WithPermit

LEMMA RequestAgrees == \A h : OneTab!RequestRetake(h) => P!RequestRetake(h)
<1>1. OneTab!RequestsLeft => P!RequestsLeft
  BY SameCount DEF OneTab!RequestsLeft, P!RequestsLeft, OneTab!NoRequest, P!NoRequest
<1> QED BY <1>1 DEF
    OneTab!RequestRetake, P!RequestRetake, OneTab!LatestClosed, P!LatestClosed, OneTab!ClosedRows,
    P!ClosedRows, OneTab!Rows, P!Rows, OneTab!Starts, P!Starts, OneTab!At, P!At, OneTab!Set, P!Set,
    OneTab!history, P!history

LEMMA RetakeAgrees == \A h : OneTab!Retake(h) => P!Retake(h)
BY RequestAgrees DEF
    OneTab!Retake, P!Retake, OneTab!ExpirePending, P!ExpirePending, OneTab!InsertRequest,
    P!InsertRequest, OneTab!Decide, P!Decide, OneTab!WriteDecision, P!WriteDecision,
    OneTab!PermitDecided, P!PermitDecided, OneTab!Set, P!Set, OneTab!Finish, P!Finish, OneTab!At,
    P!At, OneTab!Starts, P!Starts, OneTab!Idle, P!Idle, OneTab!WithPermit, P!WithPermit,
    OneTab!NoRequest, P!NoRequest, OneTab!history, P!history

LEMMA NextAgrees == [OneTab!Next]_vars => [P!Next]_(P!vars)
<1>1. \A h : OneTab!Abort(h) => P!Abort(h)
  BY DEF OneTab!Abort, P!Abort, OneTab!At, P!At, OneTab!Finish, P!Finish, OneTab!Set, P!Set,
    OneTab!Idle, P!Idle, OneTab!history, P!history
<1>2. OneTab!CloseAttempt \/ OneTab!PauseAttempt \/ OneTab!PermitRetake \/ OneTab!RevokeRetake
        => P!CloseAttempt \/ P!PauseAttempt \/ P!PermitRetake \/ P!RevokeRetake
  BY SameCount DEF
    OneTab!CloseAttempt, P!CloseAttempt, OneTab!PauseAttempt, P!PauseAttempt, OneTab!PermitRetake,
    P!PermitRetake, OneTab!RevokeRetake, P!RevokeRetake, OneTab!Running, P!Running,
    OneTab!ClosedRows, P!ClosedRows, OneTab!Rows, P!Rows, OneTab!Active, P!Active,
    OneTab!WithStatus, P!WithStatus, OneTab!WithPermit, P!WithPermit, OneTab!history, P!history
<1>3. \A s : OneTab!SetExamStatus(s) => P!SetExamStatus(s)
  BY DEF OneTab!SetExamStatus, P!SetExamStatus, OneTab!history, P!history
<1>4. UNCHANGED vars => UNCHANGED P!vars
  BY DEF vars, history, P!vars, P!history
<1> QED BY <1>1, <1>2, <1>3, <1>4, StartAgrees, RetakeAgrees DEF OneTab!Next, P!Next

\* A behaviour about the exam with one tab is one of StartExamProofs.
LEMMA OneTabBehaves ==
  StartsSpec => [](part # "oneTab") \/ ([](part = "oneTab") /\ P!Spec)
<1>1. StartsInit => part # "oneTab" \/ (part = "oneTab" /\ P!Init)
  BY InitAgrees DEF StartsInit
<1>2. part # "oneTab" /\ [StartsNext]_startsVars => (part # "oneTab")'
  BY DEF StartsNext, startsVars
<1>3. part = "oneTab" /\ [StartsNext]_startsVars => (part = "oneTab")' /\ [P!Next]_(P!vars)
  BY NextAgrees DEF StartsNext, startsVars
<1> QED BY <1>1, <1>2, <1>3, PTL DEF StartsSpec, P!Spec

-----------------------------------------------------------------------------
(* A student who starts from one tab at a time has two attempts running at  *)
(* once only if all but one were submitted and reopened, whatever staff do   *)
(* meanwhile and whatever other exams are sat (startExamInternal).           *)
THEOREM FromOneTabOneRuns == StartsSpec => []OneTabOneRunning
<1>1. P!Spec => []P!OneRunsUnreopened
  BY OneTabAssumed, P!OneTabOneRunning
<1>2. P!OneRunsUnreopened => OneTab!OneRunsUnreopened
  BY DEF
    OneTab!OneRunsUnreopened, P!OneRunsUnreopened, OneTab!Running, P!Running, OneTab!Rows, P!Rows,
    OneTab!Active, P!Active
<1>3. (part # "oneTab") \/ OneTab!OneRunsUnreopened => OneTabOneRunning
  BY DEF OneTabOneRunning
<1> QED BY <1>1, <1>2, <1>3, OneTabBehaves, PTL

(* A student who starts from one tab at a time never gets an attempt that   *)
(* neither the policy nor an approval of the last attempt before it that was *)
(* not reopened, or of a reopened one after that, allows (startExamInternal, *)
(* permitRetake, decide).                                                    *)
THEOREM FromOneTabRetakesAreAllowed == StartsSpec => []OneTabRetakesAllowed
<1>1. P!Spec => []P!EveryRetakeIsAllowed
  BY OneTabAssumed, P!OneTabRetakesAllowed
<1>2. P!EveryRetakeIsAllowed => OneTab!EveryRetakeIsAllowed
  BY DEF
    OneTab!EveryRetakeIsAllowed, P!EveryRetakeIsAllowed, OneTab!MayFollow, P!MayFollow,
    OneTab!Rows, P!Rows
<1>3. (part # "oneTab") \/ OneTab!EveryRetakeIsAllowed => OneTabRetakesAllowed
  BY DEF OneTabRetakesAllowed
<1> QED BY <1>1, <1>2, <1>3, OneTabBehaves, PTL

-----------------------------------------------------------------------------
\* The interrupted attempt starts and steps as that of SessionLifecycleProofs

LEMMA ResumeAssumed ==
  S!PolicyAssumption /\ S!TimeAssumption /\ S!WorkloadAssumption /\ S!IdentityAssumption
BY ResumeAssumption DEF
    Resumed!PolicyAssumption, S!PolicyAssumption, Resumed!TimeAssumption, S!TimeAssumption,
    Resumed!WorkloadAssumption, S!WorkloadAssumption, Resumed!IdentityAssumption,
    S!IdentityAssumption, Resumed!ResumePolicies, S!ResumePolicies,
    Resumed!ConnectionLossPolicies, S!ConnectionLossPolicies, Resumed!Operations, S!Operations,
    Resumed!Submissions, S!Submissions, Resumed!Sheets, S!Sheets, Resumed!Reasons, S!Reasons

LEMMA SameResumeCount == \A T : Resumed!Cardinality(T) = S!Cardinality(T)
BY DEF Resumed!Cardinality, S!Cardinality

LEMMA AttemptBegins == Resumed!Init => S!Init
BY DEF
    Resumed!Actors, S!Actors, Resumed!Idle, S!Idle, Resumed!Init, S!Init

LEMMA StudentAgrees == \A h : Resumed!Student(h) => S!Student(h)
<1>1. Resumed!RequestsLeft => S!RequestsLeft
  BY SameResumeCount DEF
      Resumed!Actors, S!Actors, Resumed!RequestsLeft, S!RequestsLeft
<1>2. \A h : Resumed!RequestResume(h) => S!RequestResume(h)
  BY <1>1 DEF
      Resumed!flags, S!flags, Resumed!time, S!time, Resumed!exam, S!exam, Resumed!link, S!link,
      Resumed!row, S!row, Resumed!Set, S!Set, Resumed!At, S!At, Resumed!Starts, S!Starts,
      Resumed!ResumeDisabled, S!ResumeDisabled, Resumed!RefusedAsApproved, S!RefusedAsApproved,
      Resumed!RequestResume, S!RequestResume
<1> QED BY <1>2 DEF
    Resumed!Actors, S!Actors, Resumed!flags, S!flags, Resumed!time, S!time, Resumed!exam,
    S!exam, Resumed!link, S!link, Resumed!row, S!row, Resumed!Active, S!Active, Resumed!Closed,
    S!Closed, Resumed!Idle, S!Idle, Resumed!Set, S!Set, Resumed!Finish, S!Finish, Resumed!At,
    S!At, Resumed!Starts, S!Starts, Resumed!ApprovalRequired, S!ApprovalRequired,
    Resumed!Expired, S!Expired, Resumed!EndedByPolicy, S!EndedByPolicy, Resumed!ResumeDisabled,
    S!ResumeDisabled, Resumed!AwaitsApproval, S!AwaitsApproval, Resumed!ResumeAllowed,
    S!ResumeAllowed, Resumed!StudentReason, S!StudentReason, Resumed!MustPause, S!MustPause,
    Resumed!FinalizeJob, S!FinalizeJob, Resumed!SaveAnswer, S!SaveAnswer, Resumed!UpsertAnswer,
    S!UpsertAnswer, Resumed!Submit, S!Submit, Resumed!RecordViolation, S!RecordViolation,
    Resumed!AutoPause, S!AutoPause, Resumed!SetConnection, S!SetConnection,
    Resumed!WriteConnection, S!WriteConnection, Resumed!RefusedAsApproved, S!RefusedAsApproved,
    Resumed!ExpirePending, S!ExpirePending, Resumed!InsertRequest, S!InsertRequest,
    Resumed!Student, S!Student

LEMMA StaffAgrees == \A h : Resumed!Staff(h) => S!Staff(h)
BY ZenonT(30) DEF
    Resumed!flags, S!flags, Resumed!time, S!time, Resumed!exam, S!exam, Resumed!link, S!link,
    Resumed!row, S!row, Resumed!Active, S!Active, Resumed!Closed, S!Closed, Resumed!Idle,
    S!Idle, Resumed!Set, S!Set, Resumed!Finish, S!Finish, Resumed!At, S!At, Resumed!Starts,
    S!Starts, Resumed!Extendable, S!Extendable, Resumed!ExtendedDeadline, S!ExtendedDeadline,
    Resumed!FinalizeJob, S!FinalizeJob, Resumed!ForceSubmit, S!ForceSubmit,
    Resumed!ForceSubmitSession, S!ForceSubmitSession, Resumed!ForceEndExam, S!ForceEndExam,
    Resumed!CloseForcedExam, S!CloseForcedExam, Resumed!InstructorAction, S!InstructorAction,
    Resumed!WriteAction, S!WriteAction, Resumed!Decide, S!Decide, Resumed!WriteDecision,
    S!WriteDecision, Resumed!ApplyDecision, S!ApplyDecision, Resumed!Extend, S!Extend,
    Resumed!ReadFresh, S!ReadFresh, Resumed!CommitExtension, S!CommitExtension, Resumed!Staff,
    S!Staff

LEMMA AttemptAgrees == [Resumed!Next]_attemptVars => [S!Next]_(S!vars)
<1>1. \A a : Resumed!Finalize(a) \/ Resumed!FinalizeFail(a) \/ Resumed!Abort(a)
         => S!Finalize(a) \/ S!FinalizeFail(a) \/ S!Abort(a)
  BY DEF
      Resumed!flags, S!flags, Resumed!time, S!time, Resumed!exam, S!exam, Resumed!link, S!link,
      Resumed!row, S!row, Resumed!Idle, S!Idle, Resumed!Set, S!Set, Resumed!Finish, S!Finish,
      Resumed!At, S!At, Resumed!AutoSubmitted, S!AutoSubmitted, Resumed!ClosedStatus,
      S!ClosedStatus, Resumed!CloseRow, S!CloseRow, Resumed!AfterFinalize, S!AfterFinalize,
      Resumed!FinalizeWin, S!FinalizeWin, Resumed!FinalizeLose, S!FinalizeLose,
      Resumed!FinalizeFail, S!FinalizeFail, Resumed!Abort, S!Abort, Resumed!Finalize, S!Finalize
<1>2. Resumed!SweepExpired \/ Resumed!SweepBatch => S!SweepExpired \/ S!SweepBatch
  BY DEF
      Resumed!flags, S!flags, Resumed!time, S!time, Resumed!exam, S!exam, Resumed!link, S!link,
      Resumed!row, S!row, Resumed!Active, S!Active, Resumed!Set, S!Set, Resumed!At, S!At,
      Resumed!FinalizeJob, S!FinalizeJob, Resumed!SweepExpired, S!SweepExpired,
      Resumed!SweepBatch, S!SweepBatch
<1>3. Resumed!Heartbeat \/ Resumed!DisconnectAction \/ Resumed!CloseEndedExam \/ Resumed!Tick
        => S!Heartbeat \/ S!DisconnectAction \/ S!CloseEndedExam \/ S!Tick
  BY DEF
      Resumed!flags, S!flags, Resumed!time, S!time, Resumed!exam, S!exam, Resumed!link, S!link,
      Resumed!row, S!row, Resumed!Heartbeat, S!Heartbeat, Resumed!DisconnectAction,
      S!DisconnectAction, Resumed!CloseEndedExam, S!CloseEndedExam, Resumed!Tick, S!Tick
<1>4. \A s : Resumed!SetExamStatus(s) => S!SetExamStatus(s)
  BY DEF
      Resumed!flags, S!flags, Resumed!time, S!time, Resumed!link, S!link, Resumed!row, S!row,
      Resumed!SetExamStatus, S!SetExamStatus
<1>5. UNCHANGED attemptVars => UNCHANGED S!vars
  BY DEF attemptVars, S!vars, S!row, S!flags, S!time, S!exam, S!link
<1> QED BY <1>1, <1>2, <1>3, <1>4, <1>5, StudentAgrees, StaffAgrees DEF
    Resumed!Next, S!Next, Resumed!Actors, S!Actors

\* The interrupted attempt of any behaviour is one of SessionLifecycleProofs.
LEMMA AttemptBehaves == StartsSpec => S!Spec
<1>1. StartsInit => S!Init
  BY AttemptBegins DEF StartsInit
<1>2. [StartsNext]_startsVars => [S!Next]_(S!vars)
  <2>1. [StartsNext]_startsVars => [Resumed!Next]_attemptVars
    BY DEF StartsNext, startsVars
  <2> QED BY <2>1, AttemptAgrees
<1> QED BY <1>1, <1>2, PTL DEF StartsSpec, S!Spec

-----------------------------------------------------------------------------
(* While no proctor uses the bare pause, a paused attempt carries no         *)
(* approval: the interruption withdraws the one an earlier interruption was  *)
(* lifted by, however requests, their decisions and new interruptions        *)
(* interleave (autoPause, setConnection, decide, instructorAction).          *)
THEOREM InterruptedWaits == StartsSpec => []InterruptedAwaitsApproval
<1>1. S!Spec => []S!PausedAwaitsApproval
  BY ResumeAssumed, ResumeAssumption, S!InterruptionBlocks
<1>2. S!PausedAwaitsApproval => InterruptedAwaitsApproval
  BY DEF InterruptedAwaitsApproval, Resumed!PausedAwaitsApproval, S!PausedAwaitsApproval
<1> QED BY <1>1, <1>2, AttemptBehaves, PTL
=============================================================================
