--------------------------- MODULE StartExamProofs ---------------------------
(* Theorems about StartExam, for every set of handlers and requests, every  *)
(* retake policy, allowance and workload.                                   *)
EXTENDS StartExam, SequenceTheorems, TLAPS

Statuses == Active \cup {"CLOSED"}

-----------------------------------------------------------------------------
\* Writes to the rows

(* Writing the status of a row disturbs nothing else; a row that does not    *)
(* exist is not written.                                                     *)
LEMMA StatusWrite ==
  ASSUME attempts \in Seq(Attempts), NEW i \in Nat, NEW s \in Statuses
  PROVE  /\ WithStatus(i, s) \in Seq(Attempts)
         /\ Len(WithStatus(i, s)) = Len(attempts)
         /\ \A k \in 1 .. Len(attempts) :
              /\ WithStatus(i, s)[k].number = attempts[k].number
              /\ WithStatus(i, s)[k].retakePermitted = attempts[k].retakePermitted
              /\ WithStatus(i, s)[k].status = IF k = i THEN s ELSE attempts[k].status
<1>1. Len(attempts) \in Nat /\ attempts \in [1 .. Len(attempts) -> Attempts]
  BY LenProperties
<1>2. CASE i \in 1 .. Len(attempts)
  <2> DEFINE row == [attempts[i] EXCEPT !.status = s]
  <2>1. attempts[i] \in Attempts
    BY <1>1, <1>2
  <2>2. row \in Attempts /\ row.number = attempts[i].number
          /\ row.retakePermitted = attempts[i].retakePermitted /\ row.status = s
    BY <2>1 DEF Attempts, Statuses
  <2>3. WithStatus(i, s) = [attempts EXCEPT ![i] = row]
    BY DEF WithStatus
  <2> HIDE DEF row
  <2> QED
    BY <1>2, <2>2, <2>3, ExceptSeq
<1>3. CASE i \notin 1 .. Len(attempts)
  <2>1. WithStatus(i, s) = attempts
    BY <1>1, <1>3 DEF WithStatus
  <2>2. \A k \in 1 .. Len(attempts) : k # i
    BY <1>3
  <2> QED
    BY <2>1, <2>2
<1> QED
  BY <1>2, <1>3

(* Writing the permit of a row disturbs nothing else. *)
LEMMA PermitWrite ==
  ASSUME attempts \in Seq(Attempts), NEW i \in Nat, NEW b \in BOOLEAN
  PROVE  /\ WithPermit(i, b) \in Seq(Attempts)
         /\ Len(WithPermit(i, b)) = Len(attempts)
         /\ \A k \in 1 .. Len(attempts) :
              /\ WithPermit(i, b)[k].number = attempts[k].number
              /\ WithPermit(i, b)[k].status = attempts[k].status
              /\ WithPermit(i, b)[k].retakePermitted = IF k = i THEN b ELSE attempts[k].retakePermitted
<1>1. Len(attempts) \in Nat /\ attempts \in [1 .. Len(attempts) -> Attempts]
  BY LenProperties
<1>2. CASE i \in 1 .. Len(attempts)
  <2> DEFINE row == [attempts[i] EXCEPT !.retakePermitted = b]
  <2>1. attempts[i] \in Attempts
    BY <1>1, <1>2
  <2>2. row \in Attempts /\ row.number = attempts[i].number
          /\ row.status = attempts[i].status /\ row.retakePermitted = b
    BY <2>1 DEF Attempts
  <2>3. WithPermit(i, b) = [attempts EXCEPT ![i] = row]
    BY DEF WithPermit
  <2> HIDE DEF row
  <2> QED
    BY <1>2, <2>2, <2>3, ExceptSeq
<1>3. CASE i \notin 1 .. Len(attempts)
  <2>1. WithPermit(i, b) = attempts
    BY <1>1, <1>3 DEF WithPermit
  <2>2. \A k \in 1 .. Len(attempts) : k # i
    BY <1>3
  <2> QED
    BY <2>1, <2>2
<1> QED
  BY <1>2, <1>3

(* Inserting a row leaves the others alone. *)
LEMMA RowInsert ==
  ASSUME NEW rows \in Seq(Attempts), NEW n \in Nat \ {0},
         NEW new, new = Append(rows, NewAttempt(n))
  PROVE  /\ new \in Seq(Attempts)
         /\ Len(new) = Len(rows) + 1
         /\ \A k \in 1 .. Len(rows) : new[k] = rows[k]
         /\ new[Len(rows) + 1] = NewAttempt(n)
<1>1. NewAttempt(n) \in Attempts
  BY DEF NewAttempt, Attempts, Active
<1> QED
  BY <1>1, AppendProperties

(* The rows are numbered by position. *)
LEMMA RowsAreInterval ==
  ASSUME TypeOK
  PROVE  /\ Len(attempts) \in Nat /\ Rows = 1 .. Len(attempts)
         /\ \A i \in Rows : attempts[i] \in Attempts
BY LenProperties DEF TypeOK, Rows

-----------------------------------------------------------------------------
\* Type correctness

LEMMA JobShape ==
  ASSUME NEW j \in Jobs
  PROVE  /\ j.pc \in {"find", "policy", "count", "insert", "winner"} => j.retry \in BOOLEAN
         /\ j.pc = "count" => j.approvedRetake \in BOOLEAN
         /\ j.pc = "insert" => j.number \in Nat \ {0}
         /\ j.pc \in {"served", "expirePending", "insertRequest", "permit"} => j.attempt \in Nat
         /\ j.pc = "expirePending" => [j EXCEPT !.pc = "insertRequest"] \in Jobs
         /\ j.pc = "decide" => j.request \in Requests /\ j.approve \in BOOLEAN
BY DEF Jobs, Idle

LEMMA JobsAreTyped ==
  /\ Idle \in Jobs
  /\ \A b \in BOOLEAN : \A pc \in {"find", "policy", "winner"} : [pc |-> pc, retry |-> b] \in Jobs
  /\ \A b, c \in BOOLEAN : [pc |-> "count", approvedRetake |-> c, retry |-> b] \in Jobs
  /\ \A n \in Nat \ {0}, b \in BOOLEAN : [pc |-> "insert", number |-> n, retry |-> b] \in Jobs
  /\ \A pc \in {"served", "expirePending", "insertRequest", "permit"}, n \in Nat :
       [pc |-> pc, attempt |-> n] \in Jobs
  /\ \A r \in Requests, b \in BOOLEAN : [pc |-> "decide", request |-> r, approve |-> b] \in Jobs
<1>1. Idle \in Jobs
  BY DEF Jobs
<1>2. \A b \in BOOLEAN : \A pc \in {"find", "policy", "winner"} : [pc |-> pc, retry |-> b] \in Jobs
  BY DEF Jobs
<1>3. \A b, c \in BOOLEAN : [pc |-> "count", approvedRetake |-> c, retry |-> b] \in Jobs
  BY DEF Jobs
<1>4. \A n \in Nat \ {0}, b \in BOOLEAN : [pc |-> "insert", number |-> n, retry |-> b] \in Jobs
  BY DEF Jobs
<1>5. \A pc \in {"served", "expirePending", "insertRequest", "permit"}, n \in Nat :
        [pc |-> pc, attempt |-> n] \in Jobs
  BY DEF Jobs
<1>6. \A r \in Requests, b \in BOOLEAN : [pc |-> "decide", request |-> r, approve |-> b] \in Jobs
  BY DEF Jobs
<1> QED
  BY <1>1, <1>2, <1>3, <1>4, <1>5, <1>6

(* Writing a job of a known shape keeps the type of the job table. *)
LEMMA SetIsTyped ==
  ASSUME TypeOK, NEW h \in Handlers, NEW j \in Jobs, Set(h, j)
  PROVE  job' \in [Handlers -> Jobs]
BY DEF TypeOK, Set

LEMMA FindActiveIsTyped ==
  ASSUME TypeOK, NEW h \in Handlers, NEW b \in BOOLEAN, FindActive(h, b)
  PROVE  job' \in [Handlers -> Jobs]
<1>1. \A i \in Rows : i \in Nat
  BY RowsAreInterval
<1>2. \A i \in Running : Serve(h, i) => job' \in [Handlers -> Jobs]
  BY <1>1, JobsAreTyped, SetIsTyped DEF Serve, Running
<1>3. Finish(h) => job' \in [Handlers -> Jobs]
  BY JobsAreTyped, SetIsTyped DEF Finish
<1>4. Set(h, [pc |-> "policy", retry |-> b]) => job' \in [Handlers -> Jobs]
  BY JobsAreTyped, SetIsTyped
<1> QED
  BY <1>2, <1>3, <1>4 DEF FindActive

LEMMA InitTyped == Init => TypeOK
<1> SUFFICES ASSUME Init PROVE TypeOK
  OBVIOUS
<1>1. attempts \in Seq(Attempts)
  BY EmptySeq DEF Init
<1>2. requests \in [Requests -> [status : RequestStatuses, attempt : Nat]]
  BY DEF Init, NoRequest, RequestStatuses
<1>3. job \in [Handlers -> Jobs]
  BY JobsAreTyped DEF Init
<1> QED
  BY <1>1, <1>2, <1>3 DEF Init, TypeOK

(* A start, read by read and write by write, keeps the types. *)
LEMMA StartTyped ==
  ASSUME TypeOK, NEW h \in Handlers, Start(h)
  PROVE  TypeOK'
<1>j. job[h] \in Jobs
  BY DEF TypeOK
<1>r. Len(attempts) \in Nat /\ Rows = 1 .. Len(attempts)
  BY RowsAreInterval
<1>1. CASE StartExam(h)
  <2>1. job' \in [Handlers -> Jobs]
    BY <1>1, FindActiveIsTyped DEF StartExam
  <2> QED
    BY <1>1, <2>1 DEF StartExam, history, TypeOK
<1>2. CASE CheckPolicy(h)
  <2>1. job[h].retry \in BOOLEAN
    BY <1>2, <1>j, JobShape DEF CheckPolicy, At
  <2>2. ASSUME NEW a \in BOOLEAN,
               Set(h, [pc |-> "count", approvedRetake |-> a, retry |-> job[h].retry])
        PROVE  job' \in [Handlers -> Jobs]
    BY <2>1, <2>2, JobsAreTyped, SetIsTyped
  <2>3. Finish(h) => job' \in [Handlers -> Jobs]
    BY JobsAreTyped, SetIsTyped DEF Finish
  <2>4. job' \in [Handlers -> Jobs]
    BY <1>2, <2>2, <2>3 DEF CheckPolicy
  <2> QED
    BY <1>2, <2>4 DEF CheckPolicy, history, TypeOK
<1>3. CASE CountAttempts(h)
  <2>1. job[h].retry \in BOOLEAN
    BY <1>3, <1>j, JobShape DEF CountAttempts, At
  <2>2. [pc |-> "insert", number |-> Len(attempts) + 1, retry |-> job[h].retry] \in Jobs
    BY <2>1, <1>r, JobsAreTyped
  <2>3. job' \in [Handlers -> Jobs]
    BY <1>3, <2>2, JobsAreTyped, SetIsTyped DEF CountAttempts
  <2> QED
    BY <1>3, <2>3 DEF CountAttempts, history, TypeOK
<1>4. CASE InsertAttempt(h)
  <2>1. job[h].number \in Nat \ {0}
    BY <1>4, <1>j, JobShape DEF InsertAttempt, At
  <2>2. attempts' \in Seq(Attempts)
    BY <1>4, <2>1, RowInsert DEF InsertAttempt, history, TypeOK
  <2>3. [pc |-> "served", attempt |-> Len(attempts) + 1] \in Jobs
    BY <1>r, JobsAreTyped
  <2>4. job' \in [Handlers -> Jobs]
    BY <1>4, <2>3, SetIsTyped DEF InsertAttempt, Serve
  <2> QED
    BY <1>4, <2>2, <2>4 DEF InsertAttempt, history, TypeOK
<1>5. CASE Collide(h)
  <2>1. job[h].retry \in BOOLEAN
    BY <1>5, <1>j, JobShape DEF Collide, At
  <2>2. job' \in [Handlers -> Jobs]
    BY <1>5, <2>1, JobsAreTyped, SetIsTyped DEF Collide
  <2> QED
    BY <1>5, <2>2 DEF Collide, history, TypeOK
<1>6. CASE FindWinner(h)
  <2>1. ASSUME NEW i \in Running
        PROVE  [pc |-> "served", attempt |-> i] \in Jobs
    <3>1. i \in Nat
      BY <1>r DEF Running
    <3> QED
      BY <3>1, JobsAreTyped
  <2>2. ASSUME NEW i \in Running, Serve(h, i)
        PROVE  job' \in [Handlers -> Jobs]
    BY <2>1, <2>2, SetIsTyped DEF Serve
  <2>3. ASSUME Set(h, IF job[h].retry THEN [pc |-> "find", retry |-> FALSE] ELSE Idle)
        PROVE  job' \in [Handlers -> Jobs]
    BY <2>3, JobsAreTyped, SetIsTyped
  <2>4. job' \in [Handlers -> Jobs]
    BY <1>6, <2>2, <2>3 DEF FindWinner
  <2> QED
    BY <1>6, <2>4 DEF FindWinner, history, TypeOK
<1>7. CASE StartOver(h)
  <2>1. job[h].retry \in BOOLEAN
    BY <1>7, <1>j, JobShape DEF StartOver, At
  <2>2. job' \in [Handlers -> Jobs]
    BY <1>7, <2>1, FindActiveIsTyped DEF StartOver
  <2> QED
    BY <1>7, <2>2 DEF StartOver, history, TypeOK
<1>8. CASE Reply(h)
  <2>1. job' \in [Handlers -> Jobs]
    BY <1>8, JobsAreTyped, SetIsTyped DEF Reply, Finish
  <2> QED
    BY <1>8, <2>1 DEF Reply, history, TypeOK
<1> QED
  BY <1>1, <1>2, <1>3, <1>4, <1>5, <1>6, <1>7, <1>8 DEF Start

(* Staff and the life of an attempt edit rows: none is added or removed, no    *)
(* number changes, a closed attempt that runs again is recorded as reopened,   *)
(* and a row gains a permit only from an approval.                             *)
Edit ==
  \/ CloseAttempt \/ PauseAttempt \/ PermitRetake \/ RevokeRetake
  \/ \E h \in Handlers : PermitDecided(h)

LEMMA EditKeeps ==
  ASSUME TypeOK, Edit
  PROVE  /\ attempts' \in Seq(Attempts)
         /\ Len(attempts') = Len(attempts)
         /\ \A k \in 1 .. Len(attempts) :
              /\ attempts'[k].number = attempts[k].number
              /\ attempts'[k].status \in Active =>
                   attempts[k].status \in Active \/ k \in reopened'
              /\ attempts'[k].retakePermitted =>
                   \/ attempts[k].retakePermitted
                   \/ k \in approvals'
                   \/ \E h \in Handlers : At(h, "permit") /\ k = job[h].attempt
<1>r. Len(attempts) \in Nat /\ Rows = 1 .. Len(attempts) /\ attempts \in Seq(Attempts)
  BY RowsAreInterval DEF TypeOK
<1>n. \A i \in Rows : i \in Nat
  BY <1>r
<1>1. CASE CloseAttempt
  <2>1. PICK i \in Running : attempts' = WithStatus(i, "CLOSED")
    BY <1>1 DEF CloseAttempt
  <2>2. i \in Nat /\ "CLOSED" \in Statuses /\ attempts[i].status \in Active
    BY <1>n DEF Running, Statuses
  <2>3. /\ attempts' \in Seq(Attempts)
        /\ Len(attempts') = Len(attempts)
        /\ \A k \in 1 .. Len(attempts) :
              /\ attempts'[k].number = attempts[k].number
              /\ attempts'[k].retakePermitted = attempts[k].retakePermitted
              /\ attempts'[k].status = IF k = i THEN "CLOSED" ELSE attempts[k].status
    BY <1>r, <2>1, <2>2, StatusWrite
  <2> QED
    BY <2>2, <2>3 DEF Active
<1>2. CASE PauseAttempt
  <2>1. PICK i \in Rows, s \in Active :
          attempts' = WithStatus(i, s) /\ reopened' = reopened \cup ({i} \cap ClosedRows)
    BY <1>2 DEF PauseAttempt
  <2>2. i \in Nat /\ s \in Statuses
    BY <1>n DEF Statuses
  <2>4. attempts[i].status \in Active \/ i \in reopened'
    BY <2>1, RowsAreInterval DEF ClosedRows, Attempts
  <2>3. /\ attempts' \in Seq(Attempts)
        /\ Len(attempts') = Len(attempts)
        /\ \A k \in 1 .. Len(attempts) :
              /\ attempts'[k].number = attempts[k].number
              /\ attempts'[k].retakePermitted = attempts[k].retakePermitted
              /\ attempts'[k].status = IF k = i THEN s ELSE attempts[k].status
    BY <1>r, <2>1, <2>2, StatusWrite
  <2> QED
    BY <2>1, <2>2, <2>3, <2>4
<1>3. CASE PermitRetake
  <2>1. PICK i \in ClosedRows \cup reopened, b \in BOOLEAN :
          attempts' = WithPermit(i, b) /\ approvals' = approvals \cup {i}
    BY <1>3 DEF PermitRetake
  <2>2. i \in Nat /\ i \in approvals'
    BY <1>n, <2>1 DEF ClosedRows, TypeOK
  <2>3. /\ attempts' \in Seq(Attempts)
        /\ Len(attempts') = Len(attempts)
        /\ \A k \in 1 .. Len(attempts) :
              /\ attempts'[k].number = attempts[k].number
              /\ attempts'[k].status = attempts[k].status
              /\ attempts'[k].retakePermitted = IF k = i THEN b ELSE attempts[k].retakePermitted
    BY <1>r, <2>1, <2>2, PermitWrite
  <2> QED
    BY <2>1, <2>2, <2>3
<1>4. CASE RevokeRetake
  <2>1. PICK i \in Rows, b \in BOOLEAN :
          attempts' = WithPermit(i, b) /\ ~b
    BY <1>4 DEF RevokeRetake
  <2>2. i \in Nat
    BY <1>n
  <2>3. /\ attempts' \in Seq(Attempts)
        /\ Len(attempts') = Len(attempts)
        /\ \A k \in 1 .. Len(attempts) :
              /\ attempts'[k].number = attempts[k].number
              /\ attempts'[k].status = attempts[k].status
              /\ attempts'[k].retakePermitted = IF k = i THEN b ELSE attempts[k].retakePermitted
    BY <1>r, <2>1, <2>2, PermitWrite
  <2> QED
    BY <2>1, <2>2, <2>3
<1>5. ASSUME NEW h \in Handlers, PermitDecided(h)
      PROVE  /\ attempts' \in Seq(Attempts)
             /\ Len(attempts') = Len(attempts)
             /\ \A k \in 1 .. Len(attempts) :
                  /\ attempts'[k].number = attempts[k].number
                  /\ attempts'[k].status = attempts[k].status
                  /\ k # job[h].attempt =>
                       attempts'[k].retakePermitted = attempts[k].retakePermitted
  <2>1. job[h].attempt \in Nat
    BY <1>5, JobShape DEF PermitDecided, At, TypeOK
  <2>2. PICK b \in BOOLEAN : attempts' = WithPermit(job[h].attempt, b)
    BY <1>5 DEF PermitDecided
  <2>3. /\ attempts' \in Seq(Attempts)
        /\ Len(attempts') = Len(attempts)
        /\ \A k \in 1 .. Len(attempts) :
              /\ attempts'[k].number = attempts[k].number
              /\ attempts'[k].status = attempts[k].status
              /\ attempts'[k].retakePermitted = IF k = job[h].attempt THEN b ELSE attempts[k].retakePermitted
    BY <1>r, <2>1, <2>2, PermitWrite
  <2> QED
    BY <2>3
<1>6. \A h \in Handlers : PermitDecided(h) => At(h, "permit")
  BY DEF PermitDecided
<1> QED
  BY <1>1, <1>2, <1>3, <1>4, <1>5, <1>6 DEF Edit

(* The retake requests and their decisions keep the types. *)
LEMMA RetakeTyped ==
  ASSUME TypeOK, NEW h \in Handlers, Retake(h)
  PROVE  TypeOK'
<1>j. job[h] \in Jobs
  BY DEF TypeOK
<1>n. \A i \in Rows : i \in Nat
  BY RowsAreInterval
<1>1. CASE RequestRetake(h)
  <2>1. PICK i \in Rows : Set(h, [pc |-> "expirePending", attempt |-> i])
    BY <1>1 DEF RequestRetake
  <2>2. job' \in [Handlers -> Jobs]
    BY <1>n, <2>1, JobsAreTyped, SetIsTyped
  <2> QED
    BY <1>1, <2>2 DEF RequestRetake, history, TypeOK
<1>2. CASE ExpirePending(h)
  <2>1. [job[h] EXCEPT !.pc = "insertRequest"] \in Jobs
    BY <1>2, <1>j, JobShape DEF ExpirePending, At
  <2>2. job' \in [Handlers -> Jobs]
    BY <1>2, <2>1, SetIsTyped DEF ExpirePending
  <2>3. requests' \in [Requests -> [status : RequestStatuses, attempt : Nat]]
    BY <1>2 DEF ExpirePending, TypeOK, RequestStatuses
  <2> QED
    BY <1>2, <2>2, <2>3 DEF ExpirePending, history, TypeOK
<1>3. CASE InsertRequest(h)
  <2>1. job[h].attempt \in Nat
    BY <1>3, <1>j, JobShape DEF InsertRequest, At
  <2>2. job' \in [Handlers -> Jobs]
    BY <1>3, JobsAreTyped, SetIsTyped DEF InsertRequest, Finish
  <2>3. requests' \in [Requests -> [status : RequestStatuses, attempt : Nat]]
    BY <1>3, <2>1 DEF InsertRequest, TypeOK, RequestStatuses
  <2> QED
    BY <1>3, <2>2, <2>3 DEF InsertRequest, history, TypeOK
<1>4. CASE Decide(h)
  <2>1. PICK r \in Requests, b \in BOOLEAN : Set(h, [pc |-> "decide", request |-> r, approve |-> b])
    BY <1>4 DEF Decide
  <2>2. job' \in [Handlers -> Jobs]
    BY <2>1, JobsAreTyped, SetIsTyped
  <2> QED
    BY <1>4, <2>2 DEF Decide, history, TypeOK
<1>5. CASE WriteDecision(h)
  <2> DEFINE r == job[h].request
  <2>1. r \in Requests
    BY <1>5, <1>j, JobShape DEF WriteDecision, At
  <2>2. requests[r].attempt \in Nat
    BY <2>1 DEF TypeOK
  <2>3. CASE job[h].approve
    <3>1. Set(h, [pc |-> "permit", attempt |-> requests[r].attempt])
      BY <1>5, <2>3 DEF WriteDecision
    <3>2. job' \in [Handlers -> Jobs]
      BY <2>2, <3>1, JobsAreTyped, SetIsTyped
    <3>3. requests' \in [Requests -> [status : RequestStatuses, attempt : Nat]]
      <4>1. requests' = [requests EXCEPT ![r].status = "APPROVED"]
        BY <1>5, <2>3 DEF WriteDecision
      <4> QED
        BY <2>1, <4>1 DEF TypeOK, RequestStatuses
    <3>4. approvals' \subseteq Nat
      BY <1>5, <2>2, <2>3 DEF WriteDecision, history, TypeOK
    <3> QED
      BY <1>5, <3>2, <3>3, <3>4 DEF WriteDecision, history, TypeOK
  <2>4. CASE ~job[h].approve
    <3>1. job' \in [Handlers -> Jobs]
      BY <1>5, <2>4, JobsAreTyped, SetIsTyped DEF WriteDecision, Finish
    <3>2. requests' \in [Requests -> [status : RequestStatuses, attempt : Nat]]
      BY <1>5, <2>1, <2>4 DEF WriteDecision, TypeOK, RequestStatuses
    <3> QED
      BY <1>5, <2>4, <3>1, <3>2 DEF WriteDecision, history, TypeOK
  <2> QED
    BY <2>3, <2>4
<1>6. CASE PermitDecided(h)
  <2>1. attempts' \in Seq(Attempts)
    BY <1>6, EditKeeps DEF Edit
  <2>2. job' \in [Handlers -> Jobs]
    BY <1>6, JobsAreTyped, SetIsTyped DEF PermitDecided, Finish
  <2> QED
    BY <1>6, <2>1, <2>2 DEF PermitDecided, history, TypeOK
<1> QED
  BY <1>1, <1>2, <1>3, <1>4, <1>5, <1>6 DEF Retake

LEMMA StepTyped == TypeOK /\ [Next]_vars => TypeOK'
<1> SUFFICES ASSUME TypeOK, [Next]_vars PROVE TypeOK'
  OBVIOUS
<1>n. \A i \in Rows : i \in Nat
  BY RowsAreInterval
<1>1. ASSUME NEW h \in Handlers, Abort(h)
      PROVE  TypeOK'
  <2>1. job' \in [Handlers -> Jobs]
    BY <1>1, JobsAreTyped, SetIsTyped DEF Abort, Finish
  <2> QED
    BY <1>1, <2>1 DEF Abort, history, TypeOK
<1>2. ASSUME CloseAttempt \/ PauseAttempt \/ PermitRetake \/ RevokeRetake
      PROVE  TypeOK'
  <2>1. attempts' \in Seq(Attempts)
    BY <1>2, EditKeeps DEF Edit
  <2>2. approvals' \subseteq Nat /\ reopened' \subseteq Nat
    BY <1>2, <1>n DEF CloseAttempt, PauseAttempt, PermitRetake, RevokeRetake, history, ClosedRows, TypeOK
  <2> QED
    BY <1>2, <2>1, <2>2 DEF CloseAttempt, PauseAttempt, PermitRetake, RevokeRetake, history, TypeOK
<1>3. ASSUME NEW s \in {"LIVE", "CLOSED"}, SetExamStatus(s)
      PROVE  TypeOK'
  BY <1>3 DEF SetExamStatus, history, TypeOK
<1>4. ASSUME UNCHANGED vars
      PROVE  TypeOK'
  BY <1>4 DEF vars, history, TypeOK
<1> QED
  BY <1>1, <1>2, <1>3, <1>4, StartTyped, RetakeTyped DEF Next

(* Every reachable state has the rows, requests and jobs the code can hold:    *)
(* no attempt number but a positive one, no request or job of another shape    *)
(* (startExamInternal, requestRetake, decide).                                 *)
THEOREM TypeCorrect == Spec => []TypeOK
<1>1. Init => TypeOK
  BY InitTyped
<1>2. TypeOK /\ [Next]_vars => TypeOK'
  BY StepTyped
<1> QED
  BY <1>1, <1>2, PTL DEF Spec

-----------------------------------------------------------------------------
\* Attempt numbers

(* A number that waits to be inserted was a count of the rows: it is one more  *)
(* than there were, and rows are never removed.                                *)
NumbersInv ==
  /\ NumbersAreGapless
  /\ \A h \in Handlers : At(h, "insert") => job[h].number <= Len(attempts) + 1

(* The rows change by an edit, by an insert, or not at all. *)
LEMMA RowsChange ==
  ASSUME TypeOK, [Next]_vars
  PROVE  \/ attempts' = attempts
         \/ Edit
         \/ \E h \in Handlers : InsertAttempt(h)
<1>1. ASSUME NEW h \in Handlers, Start(h)
      PROVE  attempts' = attempts \/ InsertAttempt(h)
  BY <1>1 DEF Start, StartExam, CheckPolicy, CountAttempts, Collide, FindWinner, StartOver, Reply
<1>2. ASSUME NEW h \in Handlers, Retake(h)
      PROVE  attempts' = attempts \/ PermitDecided(h)
  BY <1>2 DEF Retake, RequestRetake, ExpirePending, InsertRequest, Decide, WriteDecision
<1>3. ASSUME NEW h \in Handlers, Abort(h)
      PROVE  attempts' = attempts
  BY <1>3 DEF Abort
<1>4. ASSUME NEW s \in {"LIVE", "CLOSED"}, SetExamStatus(s)
      PROVE  attempts' = attempts
  BY <1>4 DEF SetExamStatus
<1>5. UNCHANGED vars => attempts' = attempts
  BY DEF vars
<1> QED
  BY <1>1, <1>2, <1>3, <1>4, <1>5 DEF Next, Edit

(* An insert that finds its number free takes the next one. *)
LEMMA InsertIsNext ==
  ASSUME TypeOK, NumbersInv, NEW h \in Handlers, InsertAttempt(h)
  PROVE  job[h].number = Len(attempts) + 1
<1>1. job[h].number \in Nat \ {0}
  BY JobShape DEF InsertAttempt, At, TypeOK
<1>2. job[h].number <= Len(attempts) + 1
  BY DEF NumbersInv, InsertAttempt
<1>3. job[h].number \notin 1 .. Len(attempts)
  BY RowsAreInterval DEF InsertAttempt, Free, NumbersInv, NumbersAreGapless
<1> QED
  BY <1>1, <1>2, <1>3, RowsAreInterval

(* How a handler comes by its next job: what it read, and what it found then.  *)
Origin(h) ==
  \/ job'[h] = job[h]
  \/ /\ job'[h].pc = "policy" /\ (h \in Tabs \/ At(h, "find"))
     /\ Running = {} /\ attempts' = attempts
  \/ /\ job'[h].pc = "count" /\ At(h, "policy")
     /\ job'[h].approvedRetake \in BOOLEAN /\ PolicyAllows(job'[h].approvedRetake)
     /\ attempts' = attempts
  \/ /\ job'[h].pc = "insert" /\ At(h, "count")
     /\ job'[h].number = Len(attempts) + 1
     /\ job[h].approvedRetake \/ Len(attempts) < AttemptsAllowed
     /\ attempts' = attempts
  \/ job'[h].pc = "winner" /\ At(h, "insert")
  \/ job'[h].pc = "find" /\ At(h, "winner")
  \/ job'[h].pc = "permit" /\ job'[h].attempt \in approvals'
  \/ job'[h].pc \in {"idle", "served", "expirePending", "insertRequest", "decide"}

LEMMA JobOrigin ==
  ASSUME TypeOK, [Next]_vars, NEW h \in Handlers
  PROVE  Origin(h)
<1> USE DEF At, Set, Finish, Serve, Idle
<1>t. job \in [Handlers -> Jobs]
  BY DEF TypeOK
<1>o. \A g \in Handlers : g # h => (\A j : Set(g, j) => job'[h] = job[h])
  BY <1>t
<1>1. CASE StartExam(h)
  BY <1>t, <1>1 DEF StartExam, FindActive, Origin
<1>2. CASE StartOver(h)
  BY <1>t, <1>2 DEF StartOver, FindActive, Origin
<1>3. CASE CheckPolicy(h)
  BY <1>t, <1>3 DEF CheckPolicy, Origin
<1>4. CASE CountAttempts(h)
  <2>1. CASE Len(attempts) >= AttemptsAllowed /\ ~job[h].approvedRetake
    BY <1>t, <1>4, <2>1 DEF CountAttempts, Origin
  <2>2. CASE ~(Len(attempts) >= AttemptsAllowed /\ ~job[h].approvedRetake)
    <3>1. job'[h] = [pc |-> "insert", number |-> Len(attempts) + 1, retry |-> job[h].retry]
      BY <1>t, <1>4, <2>2 DEF CountAttempts
    <3>2. job[h].approvedRetake \/ Len(attempts) < AttemptsAllowed
      BY <2>2, RowsAreInterval, StartAssumption
    <3> QED
      BY <1>4, <3>1, <3>2 DEF CountAttempts, Origin
  <2> QED
    BY <2>1, <2>2
<1>5. CASE InsertAttempt(h) \/ Collide(h) \/ Reply(h)
  BY <1>t, <1>5 DEF InsertAttempt, Collide, Reply, Origin
<1>6. CASE FindWinner(h)
  BY <1>t, <1>6 DEF FindWinner, Origin
<1>7. CASE RequestRetake(h) \/ Decide(h)
  <2>1. CASE RequestRetake(h)
    BY <1>t, <2>1 DEF RequestRetake, Origin
  <2>2. CASE Decide(h)
    BY <1>t, <2>2 DEF Decide, Origin
  <2> QED
    BY <1>7, <2>1, <2>2
<1>13. CASE InsertRequest(h) \/ Abort(h) \/ PermitDecided(h)
  <2>1. job' = [job EXCEPT ![h] = Idle]
    BY <1>13 DEF InsertRequest, Abort, PermitDecided
  <2> QED
    BY <1>t, <2>1 DEF Origin
<1>8. CASE ExpirePending(h)
  <2>1. [job[h] EXCEPT !.pc = "insertRequest"].pc = "insertRequest"
    BY <1>t, <1>8 DEF ExpirePending, Jobs
  <2> QED
    BY <1>t, <1>8, <2>1 DEF ExpirePending, Origin
<1>9. CASE WriteDecision(h)
  <2>1. CASE job[h].approve
    BY <1>t, <1>9, <2>1 DEF WriteDecision, Origin
  <2>2. CASE ~job[h].approve
    BY <1>t, <1>9, <2>2 DEF WriteDecision, Origin
  <2> QED
    BY <2>1, <2>2
<1>10. ASSUME NEW g \in Handlers, g # h, Start(g) \/ Retake(g) \/ Abort(g)
       PROVE  job'[h] = job[h]
  <2>1. \E j : Set(g, j)
    <3>1. CASE StartExam(g) \/ StartOver(g) \/ FindWinner(g) \/ CheckPolicy(g)
      BY <3>1 DEF StartExam, StartOver, FindWinner, CheckPolicy, FindActive
    <3>2. CASE CountAttempts(g) \/ InsertAttempt(g) \/ Collide(g) \/ Reply(g) \/ Abort(g)
      BY <3>2 DEF CountAttempts, InsertAttempt, Collide, Reply, Abort
    <3>3. CASE RequestRetake(g) \/ ExpirePending(g) \/ InsertRequest(g) \/ Decide(g)
      BY <3>3 DEF RequestRetake, ExpirePending, InsertRequest, Decide
    <3>4. CASE WriteDecision(g) \/ PermitDecided(g)
      BY <3>4 DEF WriteDecision, PermitDecided
    <3> QED
      BY <1>10, <3>1, <3>2, <3>3, <3>4 DEF Start, Retake
  <2> QED
    BY <1>o, <1>10, <2>1
<1>11. ASSUME \/ CloseAttempt \/ PauseAttempt \/ PermitRetake \/ RevokeRetake
              \/ \E s \in {"LIVE", "CLOSED"} : SetExamStatus(s)
              \/ UNCHANGED vars
       PROVE  job'[h] = job[h]
  BY <1>11 DEF CloseAttempt, PauseAttempt, PermitRetake, RevokeRetake, SetExamStatus, vars
<1>12. job'[h] = job[h] => Origin(h)
  BY DEF Origin
<1> QED
  BY <1>1, <1>2, <1>3, <1>4, <1>5, <1>6, <1>7, <1>8, <1>9, <1>10, <1>11, <1>12,
     <1>13 DEF Next, Start, Retake

(* The rows after an insert, and after any step. *)
LEMMA NumbersStep == TypeOK /\ NumbersInv /\ [Next]_vars => NumbersInv'
<1> SUFFICES ASSUME TypeOK, NumbersInv, [Next]_vars PROVE NumbersInv'
  OBVIOUS
<1>r. Len(attempts) \in Nat /\ Rows = 1 .. Len(attempts)
  BY RowsAreInterval
<1>1. NumbersAreGapless' /\ Len(attempts') \in Nat /\ Len(attempts') >= Len(attempts)
  <2>1. CASE attempts' = attempts
    BY <1>r, <2>1 DEF NumbersInv, NumbersAreGapless, Rows
  <2>2. CASE Edit
    <3>1. attempts' \in Seq(Attempts) /\ Len(attempts') = Len(attempts)
          /\ \A k \in 1 .. Len(attempts) : attempts'[k].number = attempts[k].number
      BY <2>2, EditKeeps
    <3>2. Rows' = 1 .. Len(attempts)
      BY <3>1, LenProperties DEF Rows
    <3> QED
      BY <1>r, <3>1, <3>2 DEF NumbersInv, NumbersAreGapless
  <2>3. ASSUME NEW h \in Handlers, InsertAttempt(h)
        PROVE  NumbersAreGapless' /\ Len(attempts') \in Nat /\ Len(attempts') >= Len(attempts)
    <3> DEFINE n == Len(attempts) + 1
    <3>1. attempts' = Append(attempts, NewAttempt(n))
      BY <2>3, InsertIsNext DEF InsertAttempt
    <3>2. /\ attempts' \in Seq(Attempts) /\ Len(attempts') = Len(attempts) + 1
          /\ \A k \in 1 .. Len(attempts) : attempts'[k] = attempts[k]
          /\ attempts'[Len(attempts) + 1] = NewAttempt(n)
      BY <1>r, <3>1, RowInsert DEF TypeOK
    <3>3. Rows' = 1 .. Len(attempts) + 1
      BY <3>2, LenProperties DEF Rows
    <3>4. ASSUME NEW k \in Rows'
          PROVE  attempts'[k].number = k
      <4>1. CASE k = n
        BY <3>2, <4>1 DEF NewAttempt
      <4>2. CASE k # n
        <5>1. k \in 1 .. Len(attempts)
          BY <1>r, <3>3, <4>2
        <5> QED
          BY <1>r, <3>2, <5>1 DEF NumbersInv, NumbersAreGapless
      <4> QED
        BY <4>1, <4>2
    <3> QED
      BY <1>r, <3>2, <3>4 DEF NumbersAreGapless
  <2> QED
    BY <2>1, <2>2, <2>3, RowsChange
<1>2. ASSUME NEW h \in Handlers, At(h, "insert")'
      PROVE  job'[h].number <= Len(attempts') + 1
  <2>1. CASE job'[h] = job[h]
    <3>0. At(h, "insert")
      BY <1>2, <2>1 DEF At
    <3>1. job[h].number <= Len(attempts) + 1
      BY <3>0 DEF NumbersInv
    <3>2. job[h].number \in Nat
      BY <3>0, JobShape DEF TypeOK, At
    <3> QED
      BY <1>r, <1>1, <2>1, <3>1, <3>2
  <2>2. CASE job'[h].number = Len(attempts) + 1
    BY <1>r, <1>1, <2>2
  <2> QED
    BY <1>2, <2>1, <2>2, JobOrigin DEF Origin, At
<1> QED
  BY <1>1, <1>2 DEF NumbersInv

LEMMA InitNumbers == Init => NumbersInv
BY DEF Init, NumbersInv, NumbersAreGapless, Rows, At, Idle

(* However starts race, collide, are retried or fail half-way, the attempts of *)
(* a student are numbered 1, 2, 3, ... in the order they began                 *)
(* (startExamInternal's count, the unique index and the retry).                *)
THEOREM AttemptsAreNumbered == Spec => []NumbersAreGapless
<1>1. Init => TypeOK /\ NumbersInv
  BY InitTyped, InitNumbers
<1>2. TypeOK /\ NumbersInv /\ [Next]_vars => TypeOK' /\ NumbersInv'
  BY StepTyped, NumbersStep
<1>3. NumbersInv => NumbersAreGapless
  BY DEF NumbersInv
<1> QED
  BY <1>1, <1>2, <1>3, PTL DEF Spec
-----------------------------------------------------------------------------
\* The allowance

(* Every permit, every approved request and every permit still to be written    *)
(* comes from an approval.                                                      *)
Evidence ==
  /\ \A i \in Rows : attempts[i].retakePermitted => i \in approvals
  /\ \A r \in Requests : requests[r].status = "APPROVED" => requests[r].attempt \in approvals
  /\ \A h \in Handlers : At(h, "permit") => job[h].attempt \in approvals

(* A start that read an approval, or will insert beyond the allowance, has one. *)
AllowanceInv ==
  /\ Evidence
  /\ AllowanceHolds
  /\ \A h \in Handlers : At(h, "count") => (job[h].approvedRetake => approvals # {})
  /\ \A h \in Handlers : At(h, "insert") => job[h].number <= AttemptsAllowed \/ approvals # {}

LEMMA HistoryGrows ==
  ASSUME [Next]_vars
  PROVE  approvals \subseteq approvals' /\ reopened \subseteq reopened'
<1>1. ASSUME NEW h \in Handlers, Start(h)
      PROVE  UNCHANGED history
  BY <1>1 DEF Start, StartExam, CheckPolicy, CountAttempts, InsertAttempt, Collide, FindWinner,
              StartOver, Reply
<1>2. ASSUME NEW h \in Handlers, Retake(h)
      PROVE  approvals \subseteq approvals' /\ reopened' = reopened
  BY <1>2 DEF Retake, RequestRetake, ExpirePending, InsertRequest, Decide, WriteDecision,
              PermitDecided, history
<1>3. ASSUME NEW h \in Handlers, Abort(h)
      PROVE  UNCHANGED history
  BY <1>3 DEF Abort
<1>4. CloseAttempt \/ RevokeRetake => UNCHANGED history
  BY DEF CloseAttempt, RevokeRetake
<1>5. PermitRetake => approvals \subseteq approvals' /\ reopened' = reopened
  BY DEF PermitRetake
<1>6. PauseAttempt => approvals' = approvals /\ reopened \subseteq reopened'
  BY DEF PauseAttempt
<1>7. (\E s \in {"LIVE", "CLOSED"} : SetExamStatus(s)) \/ UNCHANGED vars => UNCHANGED history
  BY DEF SetExamStatus, vars
<1> QED
  BY <1>1, <1>2, <1>3, <1>4, <1>5, <1>6, <1>7 DEF Next, history

(* The decisions of requests are the only way for one to become approved. *)
LEMMA RequestsChange ==
  ASSUME TypeOK, [Next]_vars, NEW r \in Requests, requests'[r].status = "APPROVED"
  PROVE  \/ /\ requests[r].status = "APPROVED"
            /\ requests'[r].attempt = requests[r].attempt
         \/ requests'[r].attempt \in approvals'
<1>t. requests \in [Requests -> [status : RequestStatuses, attempt : Nat]]
  BY DEF TypeOK
<1>1. ASSUME NEW h \in Handlers, Start(h)
      PROVE  requests' = requests
  BY <1>1 DEF Start, StartExam, CheckPolicy, CountAttempts, InsertAttempt, Collide, FindWinner,
              StartOver, Reply
<1>2. ASSUME NEW h \in Handlers, RequestRetake(h) \/ Decide(h) \/ PermitDecided(h) \/ Abort(h)
      PROVE  requests' = requests
  BY <1>2 DEF RequestRetake, Decide, PermitDecided, Abort
<1>3. ASSUME NEW h \in Handlers, ExpirePending(h)
      PROVE  requests'[r] = requests[r]
  BY <1>t, <1>3 DEF ExpirePending, RequestStatuses
<1>4. ASSUME NEW h \in Handlers, InsertRequest(h)
      PROVE  requests'[r] = requests[r]
  BY <1>t, <1>4 DEF InsertRequest
<1>5. ASSUME NEW h \in Handlers, WriteDecision(h)
      PROVE  requests'[r] = requests[r] \/ requests'[r].attempt \in approvals'
  <2> DEFINE q == job[h].request
  <2>1. CASE job[h].approve
    <3>1. requests' = [requests EXCEPT ![q].status = "APPROVED"]
          /\ approvals' = approvals \cup {requests[q].attempt}
      BY <1>5, <2>1 DEF WriteDecision
    <3>2. CASE r = q
      BY <1>t, <3>1, <3>2
    <3>3. CASE r # q
      BY <1>t, <3>1, <3>3
    <3> QED
      BY <3>2, <3>3
  <2>2. CASE ~job[h].approve
    <3>1. requests' = [requests EXCEPT ![q].status = "REJECTED"]
      BY <1>5, <2>2 DEF WriteDecision
    <3>2. requests'[r] = requests[r] \/ requests'[r].status = "REJECTED"
      BY <1>t, <3>1
    <3> QED
      BY <3>2
  <2> QED
    BY <2>1, <2>2
<1>6. ASSUME \/ CloseAttempt \/ PauseAttempt \/ PermitRetake \/ RevokeRetake
             \/ \E s \in {"LIVE", "CLOSED"} : SetExamStatus(s)
             \/ UNCHANGED vars
      PROVE  requests' = requests
  BY <1>6 DEF CloseAttempt, PauseAttempt, PermitRetake, RevokeRetake, SetExamStatus, vars
<1> QED
  BY <1>1, <1>2, <1>3, <1>4, <1>5, <1>6 DEF Next, Retake

LEMMA EvidenceStep == TypeOK /\ Evidence /\ [Next]_vars => Evidence'
<1> SUFFICES ASSUME TypeOK, Evidence, [Next]_vars PROVE Evidence'
  OBVIOUS
<1>r. Len(attempts) \in Nat /\ Rows = 1 .. Len(attempts)
  BY RowsAreInterval
<1>1. ASSUME NEW i \in Rows', attempts'[i].retakePermitted
      PROVE  i \in approvals'
  <2>1. CASE attempts' = attempts
    BY <1>1, <2>1, HistoryGrows DEF Evidence, Rows
  <2>2. CASE Edit
    <3>1. Rows' = 1 .. Len(attempts)
      BY <2>2, EditKeeps, LenProperties DEF Rows
    <3>2. \/ attempts[i].retakePermitted \/ i \in approvals'
          \/ \E h \in Handlers : At(h, "permit") /\ i = job[h].attempt
      BY <1>1, <2>2, <3>1, EditKeeps
    <3> QED
      BY <1>r, <3>1, <3>2, HistoryGrows DEF Evidence
  <2>3. ASSUME NEW h \in Handlers, InsertAttempt(h)
        PROVE  i \in approvals'
    <3>1. job[h].number \in Nat \ {0}
      BY <2>3, JobShape DEF InsertAttempt, At, TypeOK
    <3>2. /\ attempts' \in Seq(Attempts) /\ Len(attempts') = Len(attempts) + 1
          /\ \A k \in 1 .. Len(attempts) : attempts'[k] = attempts[k]
          /\ attempts'[Len(attempts) + 1] = NewAttempt(job[h].number)
      <4>1. attempts \in Seq(Attempts) /\ attempts' = Append(attempts, NewAttempt(job[h].number))
        BY <2>3 DEF TypeOK, InsertAttempt
      <4> QED
        BY <3>1, <4>1, RowInsert
    <3>3. Rows' = 1 .. Len(attempts) + 1
      BY <3>2, LenProperties DEF Rows
    <3>4. ~NewAttempt(job[h].number).retakePermitted
      BY DEF NewAttempt
    <3>5. i \in 1 .. Len(attempts) /\ attempts[i].retakePermitted
      BY <1>r, <1>1, <3>2, <3>3, <3>4
    <3> QED
      BY <1>r, <3>5, HistoryGrows DEF Evidence
  <2> QED
    BY <2>1, <2>2, <2>3, RowsChange
<1>2. ASSUME NEW r \in Requests, requests'[r].status = "APPROVED"
      PROVE  requests'[r].attempt \in approvals'
  BY <1>2, RequestsChange, HistoryGrows DEF Evidence
<1>3. ASSUME NEW h \in Handlers, At(h, "permit")'
      PROVE  job'[h].attempt \in approvals'
  <2>1. job'[h] = job[h] => job'[h].attempt \in approvals'
    BY <1>3, HistoryGrows DEF Evidence, At
  <2> QED
    BY <1>3, <2>1, JobOrigin DEF Origin, At
<1> QED
  BY <1>1, <1>2, <1>3 DEF Evidence

(* What the policy check calls approved was approved. *)
LEMMA PolicyReadsApproval ==
  ASSUME TypeOK, Evidence, PolicyAllows(TRUE)
  PROVE  \E i \in Rows : LatestClosed(i) /\ i \in approvals
<1>1. PICK i \in Rows : LatestClosed(i) /\ RetakeApproved(i)
  BY DEF PolicyAllows
<1>2. i \in approvals
  BY <1>1 DEF RetakeApproved, Evidence
<1> QED
  BY <1>1, <1>2

LEMMA AllowanceStep ==
  TypeOK /\ NumbersInv /\ AllowanceInv /\ [Next]_vars => AllowanceInv'
<1> SUFFICES ASSUME TypeOK, NumbersInv, AllowanceInv, [Next]_vars PROVE AllowanceInv'
  OBVIOUS
<1>r. Len(attempts) \in Nat /\ AttemptsAllowed \in Nat
  BY RowsAreInterval, StartAssumption
<1>e. Evidence'
  BY EvidenceStep DEF AllowanceInv
<1>1. ASSUME NEW h \in Handlers, At(h, "count")', job'[h].approvedRetake
      PROVE  approvals' # {}
  <2>1. CASE job'[h] = job[h]
    BY <1>1, <2>1, HistoryGrows DEF AllowanceInv, At
  <2>2. CASE job'[h].approvedRetake \in BOOLEAN /\ PolicyAllows(job'[h].approvedRetake)
    <3>1. PolicyAllows(TRUE)
      BY <1>1, <2>2
    <3> QED
      BY <3>1, PolicyReadsApproval, HistoryGrows DEF AllowanceInv
  <2> QED
    BY <1>1, <2>1, <2>2, JobOrigin DEF Origin, At
<1>2. ASSUME NEW h \in Handlers, At(h, "insert")'
      PROVE  job'[h].number <= AttemptsAllowed \/ approvals' # {}
  <2>1. CASE job'[h] = job[h]
    BY <1>2, <2>1, HistoryGrows DEF AllowanceInv, At
  <2>2. CASE /\ At(h, "count") /\ job'[h].number = Len(attempts) + 1
             /\ job[h].approvedRetake \/ Len(attempts) < AttemptsAllowed
    <3>1. CASE job[h].approvedRetake
      BY <2>2, <3>1, HistoryGrows DEF AllowanceInv
    <3>2. CASE Len(attempts) < AttemptsAllowed
      BY <1>r, <2>2, <3>2
    <3> QED
      BY <2>2, <3>1, <3>2
  <2> QED
    BY <1>2, <2>1, <2>2, JobOrigin DEF Origin, At
<1>3. AllowanceHolds'
  <2>1. CASE Len(attempts') = Len(attempts)
    BY <2>1, HistoryGrows DEF AllowanceInv, AllowanceHolds
  <2>2. ASSUME NEW h \in Handlers, InsertAttempt(h)
        PROVE  AllowanceHolds'
    <3>1. job[h].number = Len(attempts) + 1
      BY <2>2, InsertIsNext
    <3>2. attempts' = Append(attempts, NewAttempt(Len(attempts) + 1))
      BY <2>2, <3>1 DEF InsertAttempt
    <3>3. Len(attempts') = Len(attempts) + 1
      BY <1>r, <3>2, RowInsert DEF TypeOK
    <3> QED
      BY <2>2, <3>1, <3>3, HistoryGrows DEF AllowanceInv, AllowanceHolds, InsertAttempt
  <2> QED
    BY <2>1, <2>2, RowsChange, EditKeeps
<1> QED
  BY <1>e, <1>1, <1>2, <1>3 DEF AllowanceInv

LEMMA InitAllowance == Init => AllowanceInv
<1> SUFFICES ASSUME Init PROVE AllowanceInv
  OBVIOUS
<1>1. Len(attempts) = 0 /\ Rows = {}
  BY DEF Init, Rows
<1> QED
  BY <1>1, StartAssumption
     DEF Init, AllowanceInv, Evidence, AllowanceHolds, At, Idle, NoRequest

(* However many starts race, the attempts of a student stay within             *)
(* attemptsAllowed unless staff approved a retake (startExamInternal's count   *)
(* and policy check, permitRetake, decide).                                    *)
THEOREM AllowanceIsKept == Spec => []AllowanceHolds
<1>1. Init => TypeOK /\ NumbersInv /\ AllowanceInv
  BY InitTyped, InitNumbers, InitAllowance
<1>2. TypeOK /\ NumbersInv /\ AllowanceInv /\ [Next]_vars
        => TypeOK' /\ NumbersInv' /\ AllowanceInv'
  BY StepTyped, NumbersStep, AllowanceStep
<1>3. AllowanceInv => AllowanceHolds
  BY DEF AllowanceInv
<1> QED
  BY <1>1, <1>2, <1>3, PTL DEF Spec
-----------------------------------------------------------------------------
\* A student with a single tab

(* What the tab has read since it found no attempt running still holds, since *)
(* no other handler inserts: whatever runs was reopened, and the attempt it    *)
(* will insert is allowed.                                                     *)
Allowed(given, again, i) ==
  \E k \in 0 .. i - 1 :
    /\ k + 1 .. i - 1 \subseteq again
    /\ k \in given \/ ((k = 0 \/ RetakePolicy = "AUTO") /\ i <= AttemptsAllowed)

(* What the policy check found for the attempt numbered i, before the count. *)
Permitted(given, again, i) ==
  \E k \in 0 .. i - 1 : k + 1 .. i - 1 \subseteq again /\ k \in given
Unlimited(again, i) ==
  \E k \in 0 .. i - 1 : k + 1 .. i - 1 \subseteq again /\ (k = 0 \/ RetakePolicy = "AUTO")

StartPcs == {"find", "policy", "count", "insert", "winner"}

OneTabInv ==
  /\ OneRunsUnreopened
  /\ \A i \in Rows : Allowed(approvals, reopened, i)
  /\ \A h \in Handlers : job[h].pc \in StartPcs => h \in Tabs
  /\ \A h \in Handlers : job[h].pc \in {"policy", "count", "insert"} => Running \subseteq reopened
  /\ \A h \in Handlers : At(h, "count") =>
       IF job[h].approvedRetake
         THEN Permitted(approvals, reopened, Len(attempts) + 1)
         ELSE Unlimited(reopened, Len(attempts) + 1)
  /\ \A h \in Handlers : At(h, "insert") =>
       job[h].number = Len(attempts) + 1 /\ Allowed(approvals, reopened, job[h].number)

LEMMA AllowedLasts ==
  ASSUME [Next]_vars
  PROVE  \A i : /\ Allowed(approvals, reopened, i) => Allowed(approvals', reopened', i)
                /\ Permitted(approvals, reopened, i) => Permitted(approvals', reopened', i)
                /\ Unlimited(reopened, i) => Unlimited(reopened', i)
BY HistoryGrows DEF Allowed, Permitted, Unlimited

(* What a start finds while nothing but reopened attempts runs: the attempts    *)
(* after the latest closed one were reopened.                                   *)
LEMMA PolicyAllowsNext ==
  ASSUME TypeOK, NumbersInv, Evidence, Running \subseteq reopened, NEW a \in BOOLEAN, PolicyAllows(a)
  PROVE  IF a THEN Permitted(approvals, reopened, Len(attempts) + 1)
              ELSE Unlimited(reopened, Len(attempts) + 1)
<1>r. Len(attempts) \in Nat /\ Rows = 1 .. Len(attempts)
  BY RowsAreInterval
<1>1. \A k \in Rows : k \in ClosedRows \/ k \in reopened
  BY RowsAreInterval DEF Running, ClosedRows, Attempts
<1>2. CASE a
  <2>1. PICK i \in Rows : LatestClosed(i) /\ i \in approvals
    BY <1>2, PolicyReadsApproval
  <2>2. ASSUME NEW k \in i + 1 .. Len(attempts)
        PROVE  k \in reopened
    <3>1. k \in Rows /\ k > i
      BY <1>r, <2>2
    <3>2. attempts[k].number = k /\ attempts[i].number = i
      BY <2>1, <3>1 DEF NumbersInv, NumbersAreGapless
    <3>3. k \notin ClosedRows
      BY <1>r, <2>1, <3>1, <3>2 DEF LatestClosed
    <3> QED
      BY <1>1, <3>1, <3>3
  <2>3. i \in 0 .. Len(attempts) + 1 - 1 /\ Len(attempts) + 1 - 1 = Len(attempts)
    BY <1>r
  <2> QED
    BY <1>2, <2>1, <2>2, <2>3 DEF Permitted
<1>3. CASE ~a /\ ClosedRows = {}
  <2>1. 0 \in 0 .. Len(attempts) + 1 - 1 /\ 0 + 1 .. Len(attempts) + 1 - 1 = Rows
    BY <1>r
  <2> QED
    BY <1>1, <1>3, <2>1 DEF Unlimited
<1>4. CASE ~a /\ RetakePolicy = "AUTO"
  <2>1. Len(attempts) \in 0 .. Len(attempts) + 1 - 1
        /\ Len(attempts) + 1 .. Len(attempts) + 1 - 1 = {}
    BY <1>r
  <2> QED
    BY <1>4, <2>1 DEF Unlimited
<1> QED
  BY <1>2, <1>3, <1>4 DEF PolicyAllows

(* While no row is inserted, what the tab read stays true. *)
LEMMA QuietOneTabStep ==
  ASSUME TypeOK, NumbersInv, Evidence, OneTabInv, [Next]_vars,
         attempts' = attempts \/ Edit
  PROVE  OneTabInv'
<1>r. Len(attempts) \in Nat /\ Rows = 1 .. Len(attempts) /\ AttemptsAllowed \in Nat
  BY RowsAreInterval, StartAssumption
<1>1. Len(attempts') = Len(attempts) /\ Rows' = Rows /\ Running' \ reopened' \subseteq Running \ reopened
  <2>1. CASE attempts' = attempts
    BY <2>1, HistoryGrows DEF Rows, Running
  <2>2. CASE Edit
    <3>1. attempts' \in Seq(Attempts) /\ Len(attempts') = Len(attempts)
      BY <2>2, EditKeeps
    <3>2. Rows' = Rows
      BY <1>r, <3>1, LenProperties DEF Rows
    <3>3. \A k \in Rows : attempts'[k].status \in Active
                            => attempts[k].status \in Active \/ k \in reopened'
      BY <1>r, <2>2, EditKeeps
    <3> QED
      BY <3>1, <3>2, <3>3, HistoryGrows DEF Running
  <2> QED
    BY <2>1, <2>2
<1>2. OneRunsUnreopened' /\ \A i \in Rows' : Allowed(approvals', reopened', i)
  BY <1>1, AllowedLasts DEF OneTabInv, OneRunsUnreopened
<1>3. ASSUME NEW h \in Handlers
      PROVE  /\ (job[h].pc \in StartPcs)' => h \in Tabs
             /\ (job[h].pc \in {"policy", "count", "insert"})' => (Running \subseteq reopened)'
  BY <1>1, JobOrigin DEF Origin, At, OneTabInv, StartPcs
<1>4. ASSUME NEW h \in Handlers, At(h, "count")'
      PROVE  IF job'[h].approvedRetake
               THEN Permitted(approvals', reopened', Len(attempts') + 1)
               ELSE Unlimited(reopened', Len(attempts') + 1)
  <2>1. CASE job'[h] = job[h]
    <3>1. IF job[h].approvedRetake THEN Permitted(approvals, reopened, Len(attempts) + 1)
                                   ELSE Unlimited(reopened, Len(attempts) + 1)
      BY <1>4, <2>1 DEF OneTabInv, At
    <3> QED
      BY <1>1, <2>1, <3>1, AllowedLasts
  <2>2. CASE /\ At(h, "policy") /\ job'[h].approvedRetake \in BOOLEAN
             /\ PolicyAllows(job'[h].approvedRetake)
    <3>1. Running \subseteq reopened
      BY <2>2 DEF OneTabInv, At
    <3>2. IF job'[h].approvedRetake THEN Permitted(approvals, reopened, Len(attempts) + 1)
                                    ELSE Unlimited(reopened, Len(attempts) + 1)
      BY <2>2, <3>1, PolicyAllowsNext
    <3> QED
      BY <1>1, <3>2, AllowedLasts
  <2> QED
    BY <1>4, <2>1, <2>2, JobOrigin DEF Origin, At
<1>5. ASSUME NEW h \in Handlers, At(h, "insert")'
      PROVE  job'[h].number = Len(attempts') + 1 /\ Allowed(approvals', reopened', job'[h].number)
  <2>1. CASE job'[h] = job[h]
    <3>1. job[h].number = Len(attempts) + 1 /\ Allowed(approvals, reopened, job[h].number)
      BY <1>5, <2>1 DEF OneTabInv, At
    <3> QED
      BY <1>1, <2>1, <3>1, AllowedLasts
  <2>2. CASE /\ At(h, "count") /\ job'[h].number = Len(attempts) + 1
             /\ job[h].approvedRetake \/ Len(attempts) < AttemptsAllowed
    <3>1. IF job[h].approvedRetake THEN Permitted(approvals, reopened, Len(attempts) + 1)
                                   ELSE Unlimited(reopened, Len(attempts) + 1)
      BY <2>2 DEF OneTabInv
    <3>2. Permitted(approvals, reopened, Len(attempts) + 1)
            => Allowed(approvals, reopened, Len(attempts) + 1)
      BY DEF Permitted, Allowed
    <3>3. Unlimited(reopened, Len(attempts) + 1) /\ Len(attempts) + 1 <= AttemptsAllowed
            => Allowed(approvals, reopened, Len(attempts) + 1)
      BY DEF Unlimited, Allowed
    <3>4. ~job[h].approvedRetake => Len(attempts) + 1 <= AttemptsAllowed
      BY <1>r, <2>2
    <3>5. Allowed(approvals, reopened, Len(attempts) + 1)
      BY <3>1, <3>2, <3>3, <3>4
    <3> QED
      BY <1>1, <2>2, <3>5, AllowedLasts
  <2> QED
    BY <1>5, <2>1, <2>2, JobOrigin DEF Origin, At
<1> QED
  BY <1>2, <1>3, <1>4, <1>5 DEF OneTabInv

(* The insert itself: the one handler that starts leaves its reads behind. *)
LEMMA InsertOneTabStep ==
  ASSUME NEW t, Tabs = {t}, TypeOK, NumbersInv, OneTabInv, [Next]_vars,
         NEW g \in Handlers, InsertAttempt(g)
  PROVE  OneTabInv'
<1>r. Len(attempts) \in Nat /\ Rows = 1 .. Len(attempts)
  BY RowsAreInterval
<1>1. At(g, "insert") /\ Running \subseteq reopened /\ g = t
  BY DEF InsertAttempt, OneTabInv, StartPcs, At
<1>2. job[g].number = Len(attempts) + 1 /\ Allowed(approvals, reopened, Len(attempts) + 1)
  BY <1>1 DEF OneTabInv
<1>3. attempts' = Append(attempts, NewAttempt(Len(attempts) + 1)) /\ reopened' = reopened
  BY <1>2 DEF InsertAttempt, history
<1>4. /\ attempts' \in Seq(Attempts) /\ Len(attempts') = Len(attempts) + 1
      /\ \A k \in 1 .. Len(attempts) : attempts'[k] = attempts[k]
  BY <1>r, <1>3, RowInsert DEF TypeOK
<1>5. Rows' = 1 .. Len(attempts) + 1
  BY <1>4, LenProperties DEF Rows
<1>6. Running' \ reopened' \subseteq {Len(attempts) + 1}
  <2>1. \A k \in Rows : attempts[k].status \in Active => k \in reopened
    BY <1>1 DEF Running
  <2>2. \A k \in Rows' : k \in Rows \/ k = Len(attempts) + 1
    BY <1>r, <1>5
  <2> QED
    BY <1>r, <1>3, <1>4, <2>1, <2>2 DEF Running
<1>7. OneRunsUnreopened'
  BY <1>6 DEF OneRunsUnreopened
<1>8. ASSUME NEW i \in Rows'
      PROVE  Allowed(approvals', reopened', i)
  <2>1. i \in Rows \/ i = Len(attempts) + 1
    BY <1>r, <1>5
  <2> QED
    BY <1>2, <2>1, AllowedLasts DEF OneTabInv
<1>9. ASSUME NEW h \in Handlers
      PROVE  (job[h].pc)' \notin StartPcs
  <2>1. job'[g].pc = "served"
    BY DEF InsertAttempt, Serve, Set, TypeOK
  <2>2. attempts' # attempts
    BY <1>r, <1>4
  <2>3. CASE h = g
    BY <2>1, <2>3 DEF StartPcs
  <2>4. CASE h # g
    <3>1. job'[h] = job[h]
      BY <2>4 DEF InsertAttempt, Serve, Set, TypeOK
    <3>2. h \notin Tabs
      BY <1>1, <2>4
    <3> QED
      BY <3>1, <3>2 DEF OneTabInv
  <2> QED
    BY <2>3, <2>4
<1> QED
  BY <1>7, <1>8, <1>9 DEF OneTabInv, StartPcs, At

LEMMA InitOneTab == Init => OneTabInv
<1> SUFFICES ASSUME Init PROVE OneTabInv
  OBVIOUS
<1>1. Rows = {} /\ Running = {}
  BY DEF Init, Rows, Running
<1> QED
  BY <1>1 DEF Init, OneTabInv, OneRunsUnreopened, At, Idle, StartPcs

LEMMA OneTabSafe ==
  ASSUME NEW t, Tabs = {t}
  PROVE  Spec => [](TypeOK /\ OneTabInv)
<1>1. Init => TypeOK /\ NumbersInv /\ Evidence /\ OneTabInv
  BY InitTyped, InitNumbers, InitAllowance, InitOneTab DEF AllowanceInv
<1>2. TypeOK /\ NumbersInv /\ Evidence /\ OneTabInv /\ [Next]_vars
        => TypeOK' /\ NumbersInv' /\ Evidence' /\ OneTabInv'
  <2> SUFFICES ASSUME TypeOK, NumbersInv, Evidence, OneTabInv, [Next]_vars
               PROVE  OneTabInv'
    BY StepTyped, NumbersStep, EvidenceStep
  <2> QED
    BY RowsChange, QuietOneTabStep, InsertOneTabStep
<1> QED
  BY <1>1, <1>2, PTL DEF Spec

(* A student who starts from one tab at a time has two attempts running at once *)
(* only if all but one were submitted and then reopened by a pause or an         *)
(* approval written late, whatever staff do meanwhile (startExamInternal).       *)
THEOREM OneTabOneRunning ==
  ASSUME NEW t, Tabs = {t}
  PROVE  Spec => []OneRunsUnreopened
<1>1. OneTabInv => OneRunsUnreopened
  BY DEF OneTabInv
<1> QED
  BY <1>1, OneTabSafe, PTL

(* A student who starts from one tab at a time never gets an attempt that       *)
(* neither the policy nor an approval of the last attempt before it that was    *)
(* not reopened, or of a reopened one after that, allows (startExamInternal,    *)
(* permitRetake, decide).                                                       *)
THEOREM OneTabRetakesAllowed ==
  ASSUME NEW t, Tabs = {t}
  PROVE  Spec => []EveryRetakeIsAllowed
<1>1. TypeOK /\ OneTabInv => EveryRetakeIsAllowed
  BY DEF OneTabInv, Allowed, EveryRetakeIsAllowed, MayFollow
<1> QED
  BY <1>1, OneTabSafe, PTL
=============================================================================
