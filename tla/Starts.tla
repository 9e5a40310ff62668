-------------------------------- MODULE Starts --------------------------------
(* How a student gets to work on an exam, in three settings: an exam whose  *)
(* tabs, retake policy and allowance are any; one that a single tab sits at *)
(* a time, where more can be said of what a start may find; and the attempt *)
(* of SessionLifecycle that an interruption has paused and that an approval *)
(* lets go on.  A behaviour is about one of them, the others stay as they   *)
(* began.                                                                    *)
EXTENDS StartExam

CONSTANTS
  Tab, TabRequests, TabPolicy, TabAttempts, TabWorkload, \* of the exam with one tab
  ResumeHandlers, Lifecycle, ResumeRequests, NULL,       \* of the interrupted attempt
  Questions, Contents, ResumePolicy, ConnectionLossPolicy, ResumeApprovalRequired,
  Duration, Grants, MaxClock, MaxGranted, ResumeWorkload

\* The single tab is a handler, its exam has a policy, an allowance and staff.
ASSUME OneTabAssumption ==
  /\ Tab \in Handlers
  /\ TabPolicy \in RetakePolicies
  /\ TabAttempts \in Nat \ {0}
  /\ TabWorkload \subseteq Operations

VARIABLES
  part,  \* which of the three this behaviour is about
  status, submitted, approved, denied, connectionState, everDisconnected, expiresAt,
  originalExpiresAt, totalExtension, journalled, answers, submission, resumeRequests,
  resumeExam, endsAt, now, resumeJob

attemptVars ==
  <<status, submitted, approved, denied, connectionState, everDisconnected, expiresAt,
    originalExpiresAt, totalExtension, journalled, answers, submission, resumeRequests,
    resumeExam, endsAt, now, resumeJob>>
startsVars == <<vars, attemptVars, part>>

OneTab == INSTANCE StartExam WITH
  Tabs <- {Tab}, Requests <- TabRequests,
  RetakePolicy <- TabPolicy, AttemptsAllowed <- TabAttempts, Workload <- TabWorkload

Resumed == INSTANCE SessionLifecycle WITH
  Handlers <- ResumeHandlers, Requests <- ResumeRequests, Workload <- ResumeWorkload,
  requests <- resumeRequests, examStatus <- resumeExam, job <- resumeJob

\* The attempt is one SessionLifecycle describes; its proctors do not use the
\* bare pause, which leaves an earlier approval in place.
ASSUME ResumeAssumption ==
  /\ Resumed!PolicyAssumption
  /\ Resumed!TimeAssumption
  /\ Resumed!WorkloadAssumption
  /\ Resumed!IdentityAssumption
  /\ "pause" \notin ResumeWorkload

StartsInit ==
  /\ Resumed!Init
  /\ \/ part \in {"races", "resumes"} /\ Init
     \/ part = "oneTab" /\ OneTab!Init

StartsNext ==
  /\ UNCHANGED part
  /\ \/ part = "races" /\ Next /\ UNCHANGED attemptVars
     \/ part = "oneTab" /\ OneTab!Next /\ UNCHANGED attemptVars
     \/ part = "resumes" /\ Resumed!Next /\ UNCHANGED vars

StartsSpec == StartsInit /\ [][StartsNext]_startsVars

-----------------------------------------------------------------------------
(* From one tab, a student has two attempts running at once only if all but *)
(* one of them were submitted and reopened, whatever staff and the request  *)
(* handlers do meanwhile (startExamInternal).                               *)
OneTabOneRunning == part = "oneTab" => OneTab!OneRunsUnreopened

(* From one tab, every attempt was allowed by the policy or by an approval  *)
(* given for the last attempt before it that was not reopened, or for a     *)
(* reopened one after that (startExamInternal, decide).                     *)
OneTabRetakesAllowed == part = "oneTab" => OneTab!EveryRetakeIsAllowed

(* A paused session carries no approval: the interruption that paused it    *)
(* withdrew the one an earlier interruption was lifted by, and it stays     *)
(* blocked until staff write again, however their decisions, their actions  *)
(* and new interruptions race (autoPause, setConnection, decide).  Which    *)
(* interruption staff meant is not said: a decision made for an earlier one *)
(* and written late lifts the present one too.                              *)
InterruptedAwaitsApproval == Resumed!PausedAwaitsApproval
=============================================================================
