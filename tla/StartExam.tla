------------------------------ MODULE StartExam ------------------------------
(***************************************************************************)
(* How one student comes to an attempt of one exam: startExamInternal, the *)
(* retake requests and the permits that let another attempt begin.  What   *)
(* happens inside an attempt is SessionLifecycle; here an attempt runs, is *)
(* paused, or is closed.  As there, each write of a handler is one step,   *)
(* and the reads it makes before the next write are separate steps where   *)
(* the code decides between them.                                          *)
(***************************************************************************)
EXTENDS Integers, Sequences, FiniteSets

CONSTANTS
  Handlers,         \* requests that may be in flight at once
  Tabs,             \* the handlers that may serve a start
  Requests,         \* identities of retake requests
  RetakePolicy,     \* exam.retakePolicy
  AttemptsAllowed,  \* exam.attemptsAllowed
  MaxAttempts,      \* bound: no start begins once there are this many attempts
  MaxReopened,      \* bound: no other attempt is reopened once this many were
  Workload          \* the operations besides starting and closing an attempt

Operations == {"pause", "permit", "revoke", "request", "decide", "exam", "abort"}

RetakePolicies == {"DISABLED", "AUTO", "INSTRUCTOR_APPROVAL", "ADMIN_APPROVAL"}

ASSUME StartAssumption ==
  /\ Tabs \subseteq Handlers
  /\ RetakePolicy \in RetakePolicies
  /\ AttemptsAllowed \in Nat \ {0}
  /\ MaxAttempts \in Nat
  /\ MaxReopened \in Nat
  /\ Workload \subseteq Operations

VARIABLES
  attempts,    \* the exam_sessions rows, in the order of their insertion
  requests,    \* the retake_requests rows
  examStatus,  \* exam.status
  approvals,   \* history: the attempts a retake of which was ever approved
  reopened,    \* history: the attempts put back to work after they were closed
  job          \* what each handler is doing and holds from its reads

history == <<approvals, reopened>>
vars    == <<attempts, requests, examStatus, history, job>>

Active == {"IN_PROGRESS", "PAUSED"}

Attempts == [number : Nat \ {0}, status : Active \cup {"CLOSED"}, retakePermitted : BOOLEAN]

RequestStatuses == {"none", "PENDING", "APPROVED", "REJECTED", "EXPIRED"}

NoRequest == [status |-> "none", attempt |-> 0]

Idle == [pc |-> "idle"]

Jobs ==
  {Idle}
    \cup [pc : {"find", "policy"}, retry : BOOLEAN]
    \cup [pc : {"count"}, approvedRetake : BOOLEAN, retry : BOOLEAN]
    \cup [pc : {"insert"}, number : Nat \ {0}, retry : BOOLEAN]
    \cup [pc : {"winner"}, retry : BOOLEAN]
    \cup [pc : {"served", "expirePending", "insertRequest", "permit"}, attempt : Nat]
    \cup [pc : {"decide"}, request : Requests, approve : BOOLEAN]

TypeOK ==
  /\ attempts \in Seq(Attempts)
  /\ requests \in [Requests -> [status : RequestStatuses, attempt : Nat]]
  /\ examStatus \in {"LIVE", "CLOSED"}
  /\ approvals \subseteq Nat
  /\ reopened \subseteq Nat
  /\ job \in [Handlers -> Jobs]

Set(h, j)    == job' = [job EXCEPT ![h] = j]
Finish(h)    == Set(h, Idle)
Serve(h, i)  == Set(h, [pc |-> "served", attempt |-> i])
At(h, pc)    == job[h].pc = pc
Starts(h, o) == o \in Workload /\ At(h, "idle")

Rows == DOMAIN attempts

Running    == {i \in Rows : attempts[i].status \in Active}
ClosedRows == {i \in Rows : attempts[i].status = "CLOSED"}

(* Variant: the closed attempts are ordered the other way round. *)
FirstClosed(i) ==
  i \in ClosedRows /\ \A k \in ClosedRows : attempts[k].number >= attempts[i].number

(* The closed attempt a handler looks up: by attemptNumber, the last one first. *)
LatestClosed(i) ==
  i \in ClosedRows /\ \A k \in ClosedRows : attempts[k].number <= attempts[i].number

(* An explicit permit on the attempt, or an approved request for it. *)
RetakeApproved(i) ==
  \/ attempts[i].retakePermitted
  \/ \E r \in Requests : requests[r].attempt = i /\ requests[r].status = "APPROVED"

(* assertResumeAllowed, in an exam where an interruption needs an approval. *)
ResumeAllowed(i) == attempts[i].status = "IN_PROGRESS"

(* The rows with one column of row i written. *)
WithStatus(i, s) == [attempts EXCEPT ![i].status = s]
WithPermit(i, b) == [attempts EXCEPT ![i].retakePermitted = b]

Init ==
  /\ attempts = <<>>
  /\ requests = [r \in Requests |-> NoRequest]
  /\ examStatus = "LIVE"
  /\ approvals = {} /\ reopened = {}
  /\ job = [h \in Handlers |-> Idle]

-----------------------------------------------------------------------------
\* startExamInternal

(* Variant: a paused attempt is not looked for. *)
FindInProgress(h, retry) ==
  LET found == {i \in Running : attempts[i].status = "IN_PROGRESS"} IN
    \/ \E i \in found : Serve(h, i)
    \/ found = {} /\ Set(h, [pc |-> "policy", retry |-> retry])

(* The first read: a running attempt is handed back, or refused. *)
FindActive(h, retry) ==
  \/ \E i \in Running : IF ResumeAllowed(i) THEN Serve(h, i) ELSE Finish(h)
  \/ Running = {} /\ Set(h, [pc |-> "policy", retry |-> retry])

StartExam(h) ==
  /\ h \in Tabs /\ At(h, "idle")
  /\ Len(attempts) < MaxAttempts
  /\ FindActive(h, TRUE)
  /\ UNCHANGED <<attempts, requests, examStatus, history>>

(* The retake policy on the latest closed attempt; approved tells the later    *)
(* count that staff allowed this start.                                        *)
PolicyAllows(approved) ==
  \/ ClosedRows = {} /\ ~approved
  \/ \E i \in Rows : LatestClosed(i) /\ RetakeApproved(i) /\ approved
  \/ \E i \in Rows :
       /\ LatestClosed(i) /\ ~RetakeApproved(i) /\ ~approved
       /\ RetakePolicy = "AUTO" /\ Len(attempts) < AttemptsAllowed

CheckPolicy(h) ==
  /\ At(h, "policy")
  /\ \/ \E approved \in BOOLEAN :
          /\ examStatus = "LIVE" /\ PolicyAllows(approved)
          /\ Set(h, [pc |-> "count", approvedRetake |-> approved, retry |-> job[h].retry])
     \/ /\ examStatus # "LIVE" \/ \A approved \in BOOLEAN : ~PolicyAllows(approved)
        /\ Finish(h)
  /\ UNCHANGED <<attempts, requests, examStatus, history>>

(* Variant: one attempt more than allowed. *)
CountOneTooMany(h) ==
  /\ At(h, "count")
  /\ Set(h, IF Len(attempts) > AttemptsAllowed /\ ~job[h].approvedRetake
              THEN Idle
              ELSE [pc |-> "insert", number |-> Len(attempts) + 1, retry |-> job[h].retry])
  /\ UNCHANGED <<attempts, requests, examStatus, history>>

CountAttempts(h) ==
  /\ At(h, "count")
  /\ Set(h, IF Len(attempts) >= AttemptsAllowed /\ ~job[h].approvedRetake
              THEN Idle
              ELSE [pc |-> "insert", number |-> Len(attempts) + 1, retry |-> job[h].retry])
  /\ UNCHANGED <<attempts, requests, examStatus, history>>

NewAttempt(n) == [number |-> n, status |-> "IN_PROGRESS", retakePermitted |-> FALSE]

(* Variant: the unique index is missing. *)
AlwaysFree(n) == n \in Nat

(* @@unique([examId, studentId, attemptNumber]) *)
Free(n) == \A i \in Rows : attempts[i].number # n

InsertAttempt(h) ==
  /\ At(h, "insert")
  /\ Free(job[h].number)
  /\ attempts' = Append(attempts, NewAttempt(job[h].number))
  /\ Serve(h, Len(attempts) + 1)
  /\ UNCHANGED <<requests, examStatus, history>>

Collide(h) ==
  /\ At(h, "insert")
  /\ ~Free(job[h].number)
  /\ Set(h, [pc |-> "winner", retry |-> job[h].retry])
  /\ UNCHANGED <<attempts, requests, examStatus, history>>

(* The loser is handed the winner's attempt, unchecked; without one it starts *)
(* over, once.                                                                *)
FindWinner(h) ==
  /\ At(h, "winner")
  /\ \/ \E i \in Running : Serve(h, i)
     \/ Running = {} /\ Set(h, IF job[h].retry THEN [pc |-> "find", retry |-> FALSE] ELSE Idle)
  /\ UNCHANGED <<attempts, requests, examStatus, history>>

StartOver(h) ==
  /\ At(h, "find")
  /\ FindActive(h, job[h].retry)
  /\ UNCHANGED <<attempts, requests, examStatus, history>>

Reply(h) ==
  /\ At(h, "served")
  /\ Finish(h)
  /\ UNCHANGED <<attempts, requests, examStatus, history>>

-----------------------------------------------------------------------------
\* The life of an attempt, as far as a start can see it

CloseAttempt ==
  /\ \E i \in Running : attempts' = WithStatus(i, "CLOSED")
  /\ UNCHANGED <<requests, examStatus, history, job>>

(* A proctor's pause, the late write of an automatic one and an approved resume *)
(* put an active status on the row by its id, submitted in the meantime or not. *)
PauseAttempt ==
  /\ "pause" \in Workload
  /\ \E i \in Rows, s \in Active :
       /\ i \in Running \cup reopened \/ Cardinality(reopened) < MaxReopened
       /\ attempts' = WithStatus(i, s)
       /\ reopened' = reopened \cup ({i} \cap ClosedRows)
  /\ UNCHANGED <<requests, examStatus, approvals, job>>

SetExamStatus(s) ==
  /\ "exam" \in Workload
  /\ examStatus' = s
  /\ UNCHANGED <<attempts, requests, history, job>>

-----------------------------------------------------------------------------
\* Permits and retake requests

(* permitRetake and revokeRetake.  The permit is written by id for an attempt  *)
(* that was closed when it was read, and may have been reopened since.         *)
PermitRetake ==
  /\ "permit" \in Workload
  /\ \E i \in ClosedRows \cup reopened :
       /\ attempts' = WithPermit(i, TRUE)
       /\ approvals' = approvals \cup {i}
  /\ UNCHANGED <<requests, examStatus, reopened, job>>

RevokeRetake ==
  /\ "revoke" \in Workload
  /\ \E i \in Rows : attempts' = WithPermit(i, FALSE)
  /\ UNCHANGED <<requests, examStatus, history, job>>

(* Bound: a request only starts while an identity is left for it. *)
RequestsLeft ==
  Cardinality({r \in Requests : requests[r] = NoRequest})
    > Cardinality({h \in Handlers : job[h].pc \in {"expirePending", "insertRequest"}})

RequestRetake(h) ==
  /\ Starts(h, "request")
  /\ RequestsLeft
  /\ RetakePolicy # "DISABLED"
  /\ \E i \in Rows :
       /\ LatestClosed(i)
       /\ ~\E r \in Requests : requests[r].attempt = i /\ requests[r].status = "APPROVED"
       /\ Set(h, [pc |-> "expirePending", attempt |-> i])
  /\ UNCHANGED <<attempts, requests, examStatus, history>>

ExpirePending(h) ==
  /\ At(h, "expirePending")
  /\ requests' = [r \in Requests |->
                    IF requests[r].attempt = job[h].attempt /\ requests[r].status = "PENDING"
                      THEN [requests[r] EXCEPT !.status = "EXPIRED"] ELSE requests[r]]
  /\ Set(h, [job[h] EXCEPT !.pc = "insertRequest"])
  /\ UNCHANGED <<attempts, examStatus, history>>

InsertRequest(h) ==
  /\ At(h, "insertRequest")
  /\ \E r \in Requests :
       /\ requests[r] = NoRequest
       /\ requests' = [requests EXCEPT ![r] = [status |-> "PENDING", attempt |-> job[h].attempt]]
  /\ Finish(h)
  /\ UNCHANGED <<attempts, examStatus, history>>

Decide(h) ==
  /\ Starts(h, "decide")
  /\ \E r \in Requests, approve \in BOOLEAN :
       /\ requests[r].status = "PENDING"
       /\ Set(h, [pc |-> "decide", request |-> r, approve |-> approve])
  /\ UNCHANGED <<attempts, requests, examStatus, history>>

WriteDecision(h) ==
  /\ At(h, "decide")
  /\ LET r == job[h].request  attempt == requests[r].attempt IN
       IF job[h].approve
         THEN /\ requests' = [requests EXCEPT ![r].status = "APPROVED"]
              /\ approvals' = approvals \cup {attempt}
              /\ Set(h, [pc |-> "permit", attempt |-> attempt])
         ELSE /\ requests' = [requests EXCEPT ![r].status = "REJECTED"]
              /\ Finish(h)
              /\ UNCHANGED approvals
  /\ UNCHANGED <<attempts, examStatus, reopened>>

PermitDecided(h) ==
  /\ At(h, "permit")
  /\ attempts' = WithPermit(job[h].attempt, TRUE)
  /\ Finish(h)
  /\ UNCHANGED <<requests, examStatus, history>>

(* The process dies, or a query fails, between two steps of a handler. *)
Abort(h) ==
  /\ "abort" \in Workload
  /\ ~At(h, "idle")
  /\ Finish(h)
  /\ UNCHANGED <<attempts, requests, examStatus, history>>

Start(h) ==
  \/ StartExam(h) \/ CheckPolicy(h) \/ CountAttempts(h) \/ InsertAttempt(h) \/ Collide(h)
  \/ FindWinner(h) \/ StartOver(h) \/ Reply(h)

Retake(h) ==
  \/ RequestRetake(h) \/ ExpirePending(h) \/ InsertRequest(h)
  \/ Decide(h) \/ WriteDecision(h) \/ PermitDecided(h)

Next ==
  \/ \E h \in Handlers : Start(h) \/ Retake(h) \/ Abort(h)
  \/ CloseAttempt \/ PauseAttempt \/ PermitRetake \/ RevokeRetake
  \/ \E s \in {"LIVE", "CLOSED"} : SetExamStatus(s)

Spec == Init /\ [][Next]_vars

-----------------------------------------------------------------------------
\* Safety

(* Whatever starts race, are retried or fail half-way, the student's attempts   *)
(* are numbered 1, 2, 3, ... in the order they began (startExamInternal).       *)
NumbersAreGapless == \A i \in Rows : attempts[i].number = i

(* Racing starts never take a student past attemptsAllowed; only staff can, by  *)
(* approving a retake (startExamInternal).                                      *)
AllowanceHolds == Len(attempts) <= AttemptsAllowed \/ approvals # {}

(* A student never has two attempts running at once: another start is handed    *)
(* the one that runs (startExamInternal).                                       *)
OneRunning == \A i, k \in Running : i = k

(* Two attempts only ever run at once because a pause or an approval written    *)
(* late put a submitted one back to work: of those running, at most one was     *)
(* never reopened (startExamInternal, autoPause, instructorAction).             *)
OneRunsUnreopened == \A i, k \in Running \ reopened : i = k

(* Attempt i may begin after attempt k, or after none when k is 0: those in      *)
(* between run again when it does, so that a start does not see them closed,     *)
(* and an approval given for k or the policy and the allowance let it begin.     *)
MayFollow(i, k) ==
  /\ k + 1 .. i - 1 \subseteq reopened
  /\ k \in approvals \/ ((k = 0 \/ RetakePolicy = "AUTO") /\ i <= AttemptsAllowed)

(* Every attempt was allowed, by the policy or by an approval given for the      *)
(* last attempt before it that was not reopened or for a reopened one after      *)
(* that, never for an older one (startExamInternal, decide).                     *)
EveryRetakeIsAllowed == \A i \in Rows : \E k \in 0 .. i - 1 : MayFollow(i, k)
=============================================================================
