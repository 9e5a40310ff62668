-------------------------- MODULE SessionLifecycle --------------------------
(***************************************************************************)
(* One exam attempt on the server: the exam_sessions row, its answers, its *)
(* submission row and its resume requests, and every request handler that  *)
(* reads and writes them.                                                  *)
(*                                                                         *)
(* A NestJS handler is a sequence of awaited database round trips.  Each   *)
(* write is one step here, and so is what a handler reads before it (reads *)
(* in a row are taken together); job[h] keeps what was read and what will  *)
(* be written next, so the handlers of several requests interleave between *)
(* any read and the write that relies on it, and between any two writes.   *)
(***************************************************************************)
EXTENDS Integers, FiniteSets

CONSTANTS
  Handlers,               \* requests that may be in flight at once
  Lifecycle,              \* the 60 s sweep, at most one at a time
  Questions,              \* questions of the exam
  Contents,               \* what a student can write to a question
  Requests,               \* identities of resume requests
  NULL,                   \* an absent row or a null column
  ResumePolicy,           \* exam.resumePolicy
  ConnectionLossPolicy,   \* exam.connectionLossPolicy
  ResumeApprovalRequired, \* exam.resumeApprovalRequired
  Duration,               \* exam.durationMinutes
  Grants,                 \* the minutes a proctor may grant in one call
  MaxClock,               \* bound: the last minute of the clock
  MaxGranted,             \* bound: no grant starts once this much is journalled
  Workload                \* the operations clients issue

Operations ==
  { "save", "submit", "force_submit", "end_exam", "violation", "connection",
    "disconnect", "pause", "resume", "approve_resume", "deny_resume",
    "request", "decide", "extend", "exam", "abort" }

ResumePolicies == {"STUDENT", "INSTRUCTOR_APPROVAL", "ADMIN_APPROVAL", "DISABLED"}
ConnectionLossPolicies ==
  {"AUTO_RESUME", "MANUAL_RESUME", "APPROVAL_REQUIRED", "END_SESSION", "MARK_REVIEW"}

Reasons ==
  { "MANUAL_SUBMIT", "AUTO_TIME_EXPIRY", "AUTO_EXAM_ENDED", "AUTO_CONNECTION_LOST",
    "AUTO_INSTRUCTOR_END_SESSION", "AUTO_ADMIN_FORCE_SUBMIT" }

Sheets      == [Questions -> Contents \cup {NULL}]
Submissions == [reason : Reasons, answers : Sheets]

ASSUME PolicyAssumption ==
  /\ ResumePolicy \in ResumePolicies
  /\ ConnectionLossPolicy \in ConnectionLossPolicies
  /\ ResumeApprovalRequired \in BOOLEAN
ASSUME TimeAssumption ==
  /\ Duration \in Nat \ {0}
  /\ MaxClock \in Nat
  /\ MaxGranted \in Nat
  /\ Grants \subseteq Nat \ {0}
ASSUME WorkloadAssumption == Workload \subseteq Operations
ASSUME IdentityAssumption ==
  /\ Lifecycle \notin Handlers
  /\ NULL \notin Submissions
  /\ NULL \notin Nat
  /\ NULL \notin Contents

Actors == Handlers \cup {Lifecycle}

VARIABLES
  status,             \* examSession.status
  submitted,          \* examSession.submittedAt is set
  approved,           \* examSession.resumeApprovedAt is set
  denied,             \* examSession.resumeDeniedAt is set
  connectionState,    \* examSession.connectionState
  everDisconnected,   \* examSession.disconnectCount > 0
  expiresAt,          \* examSession.expiresAt
  originalExpiresAt,  \* examSession.originalExpiresAt
  totalExtension,     \* examSession.totalExtensionMinutes
  journalled,         \* sum of time_extensions.minutes over the session's rows
  answers,            \* the student_answers rows
  submission,         \* the submissions row, NULL before there is one
  requests,           \* resumeRequest.status by request
  examStatus,         \* exam.status
  endsAt,             \* exam.endsAt
  now,                \* the server's clock, in minutes
  job                 \* what each actor is doing and holds from its reads

flags    == <<approved, denied>>
time     == <<expiresAt, originalExpiresAt, totalExtension, journalled>>
exam     == <<examStatus, endsAt>>
link     == <<connectionState, everDisconnected>>
row      == <<status, submitted, flags, link, time>>
vars     == <<row, answers, submission, requests, exam, now, job>>

Active == {"IN_PROGRESS", "PAUSED"}
Closed == {"SUBMITTED", "AUTO_SUBMITTED"}

(***************************************************************************)
(* In-flight work.  A job names the round trip that comes next and holds   *)
(* what the handler keeps from the earlier ones.                           *)
(***************************************************************************)
Idle == [pc |-> "idle"]

Jobs ==
  {Idle}
    \cup [pc : {"save"}, question : Questions, content : Contents]
    \cup [pc : {"force"}, reason : Reasons]
    \cup [pc : {"finalize"}, reason : Reasons, answers : Sheets, ends : BOOLEAN]
    \cup [pc : {"closeExam", "batch", "autoPause", "expirePending", "insertRequest"}]
    \cup [pc : {"connection"}, state : {"CONNECTED", "DISCONNECTED"},
          follow : {"none", "force", "pause"}]
    \cup [pc : {"act"}, action : {"pause", "resume", "approve_resume", "deny_resume"}]
    \cup [pc : {"decide", "apply"}, request : Requests, approve : BOOLEAN]
    \cup [pc : {"grant"}, minutes : Grants, at : Nat]
    \cup [pc : {"extend"}, minutes : Grants, at : Nat, expiresAt : Nat,
          original : Nat \cup {NULL}, total : Nat]

TypeOK ==
  /\ status \in Active \cup Closed
  /\ submitted \in BOOLEAN
  /\ approved \in BOOLEAN
  /\ denied \in BOOLEAN
  /\ connectionState \in {"CONNECTED", "DISCONNECTED"}
  /\ everDisconnected \in BOOLEAN
  /\ expiresAt \in Nat
  /\ originalExpiresAt \in Nat \cup {NULL}
  /\ totalExtension \in Nat
  /\ journalled \in Nat
  /\ answers \in Sheets
  /\ submission \in Submissions \cup {NULL}
  /\ requests \in [Requests -> {"none", "PENDING", "APPROVED", "REJECTED", "EXPIRED"}]
  /\ examStatus \in {"PUBLISHED", "LIVE", "CLOSED"}
  /\ endsAt \in Nat
  /\ now \in Nat
  /\ job \in [Actors -> Jobs]

Set(a, j)    == job' = [job EXCEPT ![a] = j]
Finish(a)    == Set(a, Idle)
At(a, pc)    == job[a].pc = pc
Starts(h, o) == o \in Workload /\ At(h, "idle")

-----------------------------------------------------------------------------
\* Rules shared by the handlers

(* approvalRequiredFor: does a paused session of this exam need an approval? *)
ApprovalRequired ==
  \/ ResumeApprovalRequired
  \/ ResumePolicy \in {"INSTRUCTOR_APPROVAL", "ADMIN_APPROVAL"}
  \/ ConnectionLossPolicy \in {"APPROVAL_REQUIRED", "MARK_REVIEW"}

Expired == now > expiresAt

(* assertResumeAllowed, check by check: the answer names the error it throws. *)
EndedByPolicy  == ConnectionLossPolicy = "END_SESSION"
ResumeDisabled == ResumePolicy = "DISABLED"
AwaitsApproval == status = "PAUSED" /\ ApprovalRequired /\ ~approved
ResumeAllowed  ==
  status \notin Closed /\ ~Expired /\ ~ResumeDisabled /\ ~EndedByPolicy /\ ~AwaitsApproval

(* classifySubmission, for a submit nobody imposed. *)
StudentReason == IF Expired THEN "AUTO_TIME_EXPIRY" ELSE "MANUAL_SUBMIT"

AutoSubmitted(reason) == reason # "MANUAL_SUBMIT"
ClosedStatus(reason)  == IF AutoSubmitted(reason) THEN "AUTO_SUBMITTED" ELSE "SUBMITTED"

(* The update that closes the session row when an attempt is finalised. *)
CloseRow(reason) ==
  /\ status' = ClosedStatus(reason)
  /\ submitted' = TRUE
  /\ connectionState' = "CONNECTED"
  /\ UNCHANGED <<flags, everDisconnected, time>>

(* isExtendableSession and computeTimeExtension. *)
Extendable == ~submitted /\ status \in Active
ExtendedDeadline(deadline, at, minutes) ==
  (IF deadline > at THEN deadline ELSE at) + minutes

(* autoPause and the connection-loss branch of setConnection share this guard. *)
MustPause == status = "IN_PROGRESS" /\ examStatus = "LIVE" /\ ApprovalRequired

FinalizeJob(reason, ends) ==
  [pc |-> "finalize", reason |-> reason, answers |-> answers, ends |-> ends]

Init ==
  /\ status = "IN_PROGRESS"
  /\ submitted = FALSE /\ approved = FALSE /\ denied = FALSE
  /\ connectionState = "CONNECTED" /\ everDisconnected = FALSE
  /\ expiresAt = Duration /\ originalExpiresAt = NULL
  /\ totalExtension = 0 /\ journalled = 0
  /\ answers = [q \in Questions |-> NULL]
  /\ submission = NULL
  /\ requests = [r \in Requests |-> "none"]
  /\ examStatus = "LIVE" /\ endsAt = Duration
  /\ now = 0
  /\ job = [a \in Actors |-> Idle]

-----------------------------------------------------------------------------
\* ExamSessionsService.saveAnswer: read and check, then upsert

SaveAnswer(h) ==
  /\ Starts(h, "save")
  /\ status \in Active
  /\ ResumeAllowed
  /\ examStatus # "CLOSED"
  /\ \E q \in Questions, c \in Contents :
       Set(h, [pc |-> "save", question |-> q, content |-> c])
  /\ UNCHANGED <<row, answers, submission, requests, exam, now>>

UpsertAnswer(h) ==
  /\ At(h, "save")
  /\ answers' = [answers EXCEPT ![job[h].question] = job[h].content]
  /\ Finish(h)
  /\ UNCHANGED <<row, submission, requests, exam, now>>

-----------------------------------------------------------------------------
\* SubmissionsService: the callers of finalizeSubmission

Submit(h) ==
  /\ Starts(h, "submit")
  /\ submission = NULL
  /\ status \in Active
  /\ Set(h, FinalizeJob(StudentReason, FALSE))
  /\ UNCHANGED <<row, answers, submission, requests, exam, now>>

(* instructorAction force_submit: its guard is on its own earlier read. *)
ForceSubmit(h) ==
  /\ Starts(h, "force_submit")
  /\ ~submitted /\ status \notin Closed
  /\ \E reason \in {"AUTO_INSTRUCTOR_END_SESSION", "AUTO_ADMIN_FORCE_SUBMIT"} :
       Set(h, [pc |-> "force", reason |-> reason])
  /\ UNCHANGED <<row, answers, submission, requests, exam, now>>

ForceSubmitSession(h) ==
  /\ At(h, "force")
  /\ Set(h, FinalizeJob(job[h].reason, FALSE))
  /\ UNCHANGED <<row, answers, submission, requests, exam, now>>

(* Variant: the exam is closed before its sessions are finalised. *)
ForceEndExamClosingFirst(h) ==
  /\ Starts(h, "end_exam")
  /\ examStatus # "CLOSED"
  /\ Set(h, [pc |-> "closeExam"])
  /\ UNCHANGED <<row, answers, submission, requests, exam, now>>

ForceEndExam(h) ==
  /\ Starts(h, "end_exam")
  /\ examStatus # "CLOSED"
  /\ Set(h, IF status \in Active THEN FinalizeJob("AUTO_EXAM_ENDED", TRUE)
                                 ELSE [pc |-> "closeExam"])
  /\ UNCHANGED <<row, answers, submission, requests, exam, now>>

CloseForcedExam(h) ==
  /\ At(h, "closeExam")
  /\ examStatus' = "CLOSED" /\ endsAt' = now
  /\ Finish(h)
  /\ UNCHANGED <<row, answers, submission, requests, now>>

(* Variant: a session whose deadline is this very minute counts as expired. *)
SweepAtDeadline ==
  /\ At(Lifecycle, "idle")
  /\ status \in Active /\ expiresAt <= now
  /\ Set(Lifecycle, [pc |-> "batch"])
  /\ UNCHANGED <<row, answers, submission, requests, exam, now>>

(* Variant: the sweep forgets the paused sessions. *)
SweepRunningOnly ==
  /\ At(Lifecycle, "idle")
  /\ status = "IN_PROGRESS" /\ expiresAt < now
  /\ Set(Lifecycle, [pc |-> "batch"])
  /\ UNCHANGED <<row, answers, submission, requests, exam, now>>

(* autoSubmitExpired: collect the ids, then re-read the batch unconditionally. *)
SweepExpired ==
  /\ At(Lifecycle, "idle")
  /\ status \in Active /\ expiresAt < now
  /\ Set(Lifecycle, [pc |-> "batch"])
  /\ UNCHANGED <<row, answers, submission, requests, exam, now>>

SweepBatch ==
  /\ At(Lifecycle, "batch")
  /\ Set(Lifecycle, FinalizeJob("AUTO_TIME_EXPIRY", FALSE))
  /\ UNCHANGED <<row, answers, submission, requests, exam, now>>

(* finalizeSubmission's transaction: the unique sessionId decides who inserts. *)
AfterFinalize(a) == Set(a, IF job[a].ends THEN [pc |-> "closeExam"] ELSE Idle)

(* Variant: an upsert instead of an insert, so that the last caller wins. *)
FinalizeByUpsert(a) ==
  /\ At(a, "finalize")
  /\ submission' = [reason |-> job[a].reason, answers |-> job[a].answers]
  /\ CloseRow(job[a].reason)
  /\ AfterFinalize(a)
  /\ UNCHANGED <<answers, requests, exam, now>>

FinalizeWin(a) ==
  /\ At(a, "finalize")
  /\ submission = NULL
  /\ submission' = [reason |-> job[a].reason, answers |-> job[a].answers]
  /\ CloseRow(job[a].reason)
  /\ AfterFinalize(a)
  /\ UNCHANGED <<answers, requests, exam, now>>

(* P2002: someone else inserted.  The loser re-reads that row, which is never *)
(* deleted, and closes the session with its own classification; the re-read   *)
(* depends on nothing that can change, so both round trips are this step.     *)
FinalizeLose(a) ==
  /\ At(a, "finalize")
  /\ submission # NULL
  /\ CloseRow(job[a].reason)
  /\ AfterFinalize(a)
  /\ UNCHANGED <<answers, submission, requests, exam, now>>

(* Variant: the session is closed outside the transaction that failed. *)
FinalizeFailHalfway(a) ==
  /\ "abort" \in Workload
  /\ At(a, "finalize")
  /\ CloseRow(job[a].reason)
  /\ AfterFinalize(a)
  /\ UNCHANGED <<answers, submission, requests, exam, now>>

(* The transaction fails for another reason: the sweep and forceEndExam       *)
(* swallow it and go on, every other caller answers with an error.            *)
FinalizeFail(a) ==
  /\ "abort" \in Workload
  /\ At(a, "finalize")
  /\ AfterFinalize(a)
  /\ UNCHANGED <<row, answers, submission, requests, exam, now>>

-----------------------------------------------------------------------------
\* MonitoringService: interruptions, the connection, the proctor's actions

(* recordViolation with one of AUTO_PAUSE_EVENTS, more than 15 s into the     *)
(* attempt; any other event leaves this state alone.                          *)
RecordViolation(h) ==
  /\ Starts(h, "violation")
  /\ MustPause
  /\ Set(h, [pc |-> "autoPause"])
  /\ UNCHANGED <<row, answers, submission, requests, exam, now>>

(* Variant: the pause keeps the approval of the interruption before it. *)
AutoPauseKeepingApproval(h) ==
  /\ At(h, "autoPause")
  /\ status' = "PAUSED"
  /\ Finish(h)
  /\ UNCHANGED <<submitted, flags, link, time, answers, submission, requests, exam, now>>

AutoPause(h) ==
  /\ At(h, "autoPause")
  /\ status' = "PAUSED" /\ approved' = FALSE /\ denied' = FALSE
  /\ Finish(h)
  /\ UNCHANGED <<submitted, link, time, answers, submission, requests, exam, now>>

(* setConnection: what follows the write is decided on the row read here. *)
SetConnection(h, state) ==
  /\ Starts(h, "connection")
  /\ ~submitted /\ status \notin Closed
  /\ LET loss == state = "DISCONNECTED" /\ connectionState = "CONNECTED"
     IN  Set(h, [pc |-> "connection", state |-> state,
                 follow |-> IF loss /\ EndedByPolicy THEN "force"
                            ELSE IF loss /\ MustPause THEN "pause" ELSE "none"])
  /\ UNCHANGED <<row, answers, submission, requests, exam, now>>

(* Variant: the policy of the exam is not applied after the write. *)
WriteConnectionOnly(h) ==
  /\ At(h, "connection")
  /\ connectionState' = job[h].state
  /\ everDisconnected' = (everDisconnected \/ job[h].state = "DISCONNECTED")
  /\ Finish(h)
  /\ UNCHANGED <<status, submitted, flags, time, answers, submission, requests, exam, now>>

WriteConnection(h) ==
  /\ At(h, "connection")
  /\ connectionState' = job[h].state
  /\ everDisconnected' = (everDisconnected \/ job[h].state = "DISCONNECTED")
  /\ Set(h, CASE job[h].follow = "force" -> [pc |-> "force", reason |-> "AUTO_CONNECTION_LOST"]
              [] job[h].follow = "pause" -> [pc |-> "autoPause"]
              [] OTHER                   -> Idle)
  /\ UNCHANGED <<status, submitted, flags, time, answers, submission, requests, exam, now>>

(* recordHeartbeat and the proctor's disconnect write one column, unguarded. *)
Heartbeat ==
  /\ "connection" \in Workload
  /\ connectionState' = "CONNECTED"
  /\ UNCHANGED <<status, submitted, flags, everDisconnected, time, answers, submission,
                 requests, exam, now, job>>

DisconnectAction ==
  /\ "disconnect" \in Workload
  /\ connectionState' = "DISCONNECTED"
  /\ UNCHANGED <<status, submitted, flags, everDisconnected, time, answers, submission,
                 requests, exam, now, job>>

(* instructorAction: the status check of each case, on the row it read. *)
InstructorAction(h, action) ==
  /\ Starts(h, action)
  /\ IF action = "pause" THEN status # "PAUSED" ELSE status = "PAUSED"
  /\ Set(h, [pc |-> "act", action |-> action])
  /\ UNCHANGED <<row, answers, submission, requests, exam, now>>

WriteAction(h) ==
  /\ At(h, "act")
  /\ LET action == job[h].action IN
       /\ status' = CASE action = "pause"       -> "PAUSED"
                      [] action = "deny_resume" -> status
                      [] OTHER                  -> "IN_PROGRESS"
       /\ approved' = CASE action = "approve_resume" -> TRUE
                        [] action = "deny_resume"    -> FALSE
                        [] OTHER                     -> approved
       /\ denied' = CASE action = "approve_resume" -> FALSE
                      [] action = "deny_resume"    -> TRUE
                      [] OTHER                     -> denied
  /\ Finish(h)
  /\ UNCHANGED <<submitted, link, time, answers, submission, requests, exam, now>>

-----------------------------------------------------------------------------
\* RequestsService: resume requests and their decision

RefusedAsApproved == \E r \in Requests : requests[r] = "APPROVED"

(* Bound: a request only starts while an identity is left for it. *)
RequestsLeft ==
  Cardinality({r \in Requests : requests[r] = "none"})
    > Cardinality({a \in Actors : job[a].pc \in {"expirePending", "insertRequest"}})

RequestResume(h) ==
  /\ Starts(h, "request")
  /\ RequestsLeft
  /\ status = "PAUSED"
  /\ ~ResumeDisabled
  /\ ~RefusedAsApproved
  /\ Set(h, [pc |-> "expirePending"])
  /\ UNCHANGED <<row, answers, submission, requests, exam, now>>

ExpirePending(h) ==
  /\ At(h, "expirePending")
  /\ requests' = [r \in Requests |-> IF requests[r] = "PENDING" THEN "EXPIRED" ELSE requests[r]]
  /\ Set(h, [pc |-> "insertRequest"])
  /\ UNCHANGED <<row, answers, submission, exam, now>>

InsertRequest(h) ==
  /\ At(h, "insertRequest")
  /\ \E r \in Requests :
       requests[r] = "none" /\ requests' = [requests EXCEPT ![r] = "PENDING"]
  /\ Finish(h)
  /\ UNCHANGED <<row, answers, submission, exam, now>>

Decide(h) ==
  /\ Starts(h, "decide")
  /\ \E r \in Requests, approve \in BOOLEAN :
       /\ requests[r] = "PENDING"
       /\ Set(h, [pc |-> "decide", request |-> r, approve |-> approve])
  /\ UNCHANGED <<row, answers, submission, requests, exam, now>>

WriteDecision(h) ==
  /\ At(h, "decide")
  /\ requests' = [requests EXCEPT ![job[h].request] =
                    IF job[h].approve THEN "APPROVED" ELSE "REJECTED"]
  /\ Set(h, [job[h] EXCEPT !.pc = "apply"])
  /\ UNCHANGED <<row, answers, submission, exam, now>>

ApplyDecision(h) ==
  /\ At(h, "apply")
  /\ IF job[h].approve
       THEN status' = "IN_PROGRESS" /\ approved' = TRUE /\ denied' = FALSE
       ELSE denied' = TRUE /\ UNCHANGED <<status, approved>>
  /\ Finish(h)
  /\ UNCHANGED <<submitted, link, time, answers, submission, requests, exam, now>>

-----------------------------------------------------------------------------
\* TimeExtensionService.extend for this session

(* The first read: the clock of the grant is taken here. *)
Extend(h) ==
  /\ Starts(h, "extend")
  /\ Extendable
  /\ journalled < MaxGranted
  /\ \E minutes \in Grants : Set(h, [pc |-> "grant", minutes |-> minutes, at |-> now])
  /\ UNCHANGED <<row, answers, submission, requests, exam, now>>

(* The read-committed transaction: its own read, then its writes. *)
ReadFresh(h) ==
  /\ At(h, "grant")
  /\ Set(h, IF Extendable
              THEN [pc |-> "extend", minutes |-> job[h].minutes, at |-> job[h].at,
                    expiresAt |-> expiresAt, original |-> originalExpiresAt,
                    total |-> totalExtension]
              ELSE Idle)
  /\ UNCHANGED <<row, answers, submission, requests, exam, now>>

(* Variant: every grant records the deadline it found as the original one. *)
CommitLatestOriginal(h) ==
  /\ At(h, "extend")
  /\ LET seen == job[h] IN
       /\ expiresAt' = ExtendedDeadline(seen.expiresAt, seen.at, seen.minutes)
       /\ originalExpiresAt' = seen.expiresAt
       /\ totalExtension' = seen.total + seen.minutes
       /\ journalled' = journalled + seen.minutes
  /\ Finish(h)
  /\ UNCHANGED <<status, submitted, flags, link, answers, submission, requests, exam, now>>

(* Variant: a grant also puts the session it rescues back in progress. *)
CommitReviving(h) ==
  /\ At(h, "extend")
  /\ LET seen == job[h] IN
       /\ expiresAt' = ExtendedDeadline(seen.expiresAt, seen.at, seen.minutes)
       /\ originalExpiresAt' = IF seen.original = NULL THEN seen.expiresAt ELSE seen.original
       /\ totalExtension' = seen.total + seen.minutes
       /\ journalled' = journalled + seen.minutes
  /\ status' = "IN_PROGRESS"
  /\ Finish(h)
  /\ UNCHANGED <<submitted, flags, link, answers, submission, requests, exam, now>>

CommitExtension(h) ==
  /\ At(h, "extend")
  /\ LET seen == job[h] IN
       /\ expiresAt' = ExtendedDeadline(seen.expiresAt, seen.at, seen.minutes)
       /\ originalExpiresAt' = IF seen.original = NULL THEN seen.expiresAt ELSE seen.original
       /\ totalExtension' = seen.total + seen.minutes
       /\ journalled' = journalled + seen.minutes
  /\ Finish(h)
  /\ UNCHANGED <<status, submitted, flags, link, answers, submission, requests, exam, now>>

-----------------------------------------------------------------------------
\* The exam, the clock and failures

(* ExamsService.start, publish and remove set the status whatever it was. *)
SetExamStatus(s) ==
  /\ "exam" \in Workload
  /\ examStatus' = s
  /\ endsAt' = IF s = "LIVE" THEN now + Duration ELSE endsAt
  /\ UNCHANGED <<row, answers, submission, requests, now, job>>

(* runLifecycle closes an exam whose window is over, running sessions or not. *)
CloseEndedExam ==
  /\ examStatus # "CLOSED" /\ endsAt < now
  /\ examStatus' = "CLOSED"
  /\ UNCHANGED <<row, endsAt, answers, submission, requests, now, job>>

Tick ==
  /\ now < MaxClock
  /\ now' = now + 1
  /\ UNCHANGED <<row, answers, submission, requests, exam, job>>

(* A crash of the process or a lost database connection ends a handler between *)
(* two of its round trips.                                                     *)
Abort(a) ==
  /\ "abort" \in Workload
  /\ ~At(a, "idle")
  /\ Finish(a)
  /\ UNCHANGED <<row, answers, submission, requests, exam, now>>

Student(h) ==
  \/ SaveAnswer(h) \/ UpsertAnswer(h) \/ Submit(h) \/ RecordViolation(h) \/ AutoPause(h)
  \/ \E s \in {"CONNECTED", "DISCONNECTED"} : SetConnection(h, s)
  \/ WriteConnection(h)
  \/ RequestResume(h) \/ ExpirePending(h) \/ InsertRequest(h)

Staff(h) ==
  \/ ForceSubmit(h) \/ ForceSubmitSession(h) \/ ForceEndExam(h) \/ CloseForcedExam(h)
  \/ \E a \in {"pause", "resume", "approve_resume", "deny_resume"} : InstructorAction(h, a)
  \/ WriteAction(h) \/ Decide(h) \/ WriteDecision(h) \/ ApplyDecision(h)
  \/ Extend(h) \/ ReadFresh(h) \/ CommitExtension(h)

Finalize(a) == FinalizeWin(a) \/ FinalizeLose(a)

Next ==
  \/ \E h \in Handlers : Student(h) \/ Staff(h)
  \/ SweepExpired \/ SweepBatch
  \/ \E a \in Actors : Finalize(a) \/ FinalizeFail(a) \/ Abort(a)
  \/ Heartbeat \/ DisconnectAction
  \/ \E s \in {"PUBLISHED", "LIVE", "CLOSED"} : SetExamStatus(s)
  \/ CloseEndedExam \/ Tick

Spec == Init /\ [][Next]_vars

(* The sweep's timer fires every 60 s for as long as the process lives, and a   *)
(* sweep that fails is simply repeated: strong fairness lets failures delay but *)
(* not starve it.  Nothing is assumed of students, staff or the clock.          *)
SweepFairness ==
  /\ WF_vars(SweepExpired)
  /\ SF_vars(SweepBatch)
  /\ SF_vars(Finalize(Lifecycle))

FairSpec == Spec /\ SweepFairness

(* Handlers run to their end unless the process dies: an awaited round trip     *)
(* returns.  Only the runs without "abort" assume it.                           *)
HandlerStep(h) ==
  \/ UpsertAnswer(h) \/ ForceSubmitSession(h) \/ CloseForcedExam(h) \/ Finalize(h)
  \/ AutoPause(h) \/ WriteConnection(h) \/ WriteAction(h) \/ ExpirePending(h)
  \/ InsertRequest(h) \/ WriteDecision(h) \/ ApplyDecision(h)
  \/ ReadFresh(h) \/ CommitExtension(h)

LiveSpec == FairSpec /\ \A h \in Handlers : WF_vars(HandlerStep(h))

-----------------------------------------------------------------------------
\* Safety

(* A closed session always has its submission: no path closes the row by a      *)
(* bare status flip, which once "silently lost the attempt entirely"            *)
(* (finalizeSubmission, forceSubmitSession, forceEndExam).                      *)
ClosedHasSubmission == status \in Closed => submission # NULL

(* However many submits, sweeps, force-submits and lost connections race, the   *)
(* submission is inserted once and never rewritten (finalizeSubmission).        *)
SubmissionIsFinal == [][submission # NULL => submission' = submission]_submission

(* Grants may race, repeat and land late, but the deadline an attempt started   *)
(* with stays on record and no grant leaves less time than it                   *)
(* (TimeExtensionService.extend, computeTimeExtension).                         *)
OriginalDeadlineKept ==
  /\ originalExpiresAt \in {NULL, Duration}
  /\ expiresAt >= Duration

(* No attempt is filed as expired before the deadline it started with, whoever  *)
(* files it (classifySubmission, autoSubmitExpired).                            *)
NeverFiledEarly ==
  submission # NULL /\ submission.reason = "AUTO_TIME_EXPIRY" => now > Duration

(* A paused session carries no approval, whatever approvals came before or race *)
(* with the pause: assertResumeAllowed, which reads the flag, blocks the        *)
(* student until staff write again (autoPause, setConnection, decide,           *)
(* approve_resume).                                                             *)
PausedAwaitsApproval == status = "PAUSED" => ~approved

(* Ending an exam closes it only after every attempt it found running is filed, *)
(* as long as no transaction fails (forceEndExam).                              *)
EndedExamIsFiled == \A h \in Handlers : At(h, "closeExam") => submission # NULL

(* Without an operation that writes an active status over whatever it finds,    *)
(* every interleaving of the rest implements the abstract attempt: the row is   *)
(* active exactly while nothing is filed (finalizeSubmission).                  *)
Promise ==
  INSTANCE Attempt WITH Filings <- Submissions, clock <- now, file <- submission,
                        phase <- IF status \in Active THEN "running" ELSE "over"

KeepsPromise == Promise!Spec

-----------------------------------------------------------------------------
\* Liveness

(* A session past its deadline is closed by the sweep, paused or not, reopened  *)
(* or not, unless a proctor grants more time (autoSubmitExpired).               *)
ExpiredIsClosed ==
  (status \in Active /\ Expired) ~> (status \in Closed \/ ~Expired)

(* Under END_SESSION a student whose connection drops has the attempt filed     *)
(* (setConnection, forceSubmitSession).                                         *)
LossIsFiled == (EndedByPolicy /\ everDisconnected) ~> (submission # NULL)

-----------------------------------------------------------------------------
\* What the repository's comments, messages and documents say of this code

(* time-extension.util.ts: a submitted session "is terminal". *)
TerminalStaysTerminal == [][(status \in Closed) => (status' \in Closed)]_status

(* finalizeSubmission freezes the attempt: the answers stored are the answers   *)
(* graded, the session does not "keep accepting answers".                       *)
AnswersFrozen == submission # NULL => submission.answers = answers

(* instructorAction: re-reading "stops two proctors extending at once from      *)
(* clobbering each other"; schema: totalExtensionMinutes is the running total.  *)
TotalMatchesJournal == totalExtension = journalled
=============================================================================
