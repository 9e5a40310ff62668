----------------------------- MODULE RiskScore ------------------------------
(* The risk score of one session.  An event is inserted with the weight the *)
(* exam's monitoring configuration gives it, read through a cache, or with  *)
(* the points the page claims for it, and the score is recomputed from all  *)
(* events by the handler, and again by a job of the risk-scoring queue.     *)
(* One action per round trip.                                               *)
EXTENDS Integers

CONSTANTS
  Handlers,   \* requests that record an event
  Workers,    \* jobs the queue runs at once
  Savers,     \* requests that save the configuration
  Weight,     \* <<points of an event under each version of the configuration>>
  Claims,     \* points pages claim for their events, below zero too
  Cap,        \* the highest score
  MaxEvents,  \* bound: events recorded
  Faults      \* "fail": a round trip fails; "cache": the cache does not answer

Versions == DOMAIN Weight

VARIABLES
  config,   \* exam_monitoring_configs
  cached,   \* monitoring-config:<exam>, 0 for none
  recorded, \* exam_events of the session
  total,    \* the sum of their points
  peak,     \* history: the highest that sum has been
  score,    \* exam_sessions.riskScore
  jobs,     \* risk-scoring jobs waiting
  step,     \* per handler, worker and saver: its next round trip, what it read
  overlap,  \* history: the last score was computed while another was
  failed    \* history: an event was recorded and the score not computed

session == <<recorded, total, peak, score, overlap, failed>>
vars    == <<config, cached, session, jobs, step>>

Actors    == Handlers \cup Workers \cup Savers
Idle      == [pc |-> "idle"]
At(x, pc) == step[x].pc = pc
Goto(x, s) == step' = [step EXCEPT ![x] = s]
Busy(pc)  == {x \in Actors : At(x, pc)}
Capped(n) == IF n < Cap THEN n ELSE Cap

Init ==
  /\ config \in Versions /\ cached \in {0, config}
  /\ recorded = 0 /\ total = 0 /\ peak = 0 /\ score = 0 /\ jobs = 0
  /\ overlap = FALSE /\ failed = FALSE
  /\ step = [x \in Actors |-> Idle]

-----------------------------------------------------------------------------
\* MonitoringService.getConfig

ReadCache(h) ==
  /\ At(h, "idle") /\ recorded < MaxEvents
  /\ \E hit \in {cached} \cup (IF "cache" \in Faults THEN {0} ELSE {}) :
       Goto(h, IF hit = 0 THEN [pc |-> "load"] ELSE [pc |-> "insert", version |-> hit])
  /\ UNCHANGED <<config, cached, session, jobs>>

LoadConfig(h) ==
  /\ At(h, "load")
  /\ Goto(h, [pc |-> "fill", version |-> config])
  /\ UNCHANGED <<config, cached, session, jobs>>

FillCache(h) ==
  /\ At(h, "fill")
  /\ cached' \in {step[h].version} \cup (IF "cache" \in Faults THEN {cached} ELSE {})
  /\ Goto(h, [pc |-> "insert", version |-> step[h].version])
  /\ UNCHANGED <<config, session, jobs>>

ExpireCache ==
  /\ cached # 0 /\ cached' = 0
  /\ UNCHANGED <<config, session, jobs, step>>

-----------------------------------------------------------------------------
\* recordEvent, recordViolation, setConnection

InsertEvent(h) ==
  /\ At(h, "insert") /\ recorded < MaxEvents
  /\ recorded' = recorded + 1
  /\ \E points \in {Weight[step[h].version]} \cup Claims : total' = total + points
  /\ peak' = IF total' > peak THEN total' ELSE peak
  /\ Goto(h, [pc |-> "sum"])
  /\ UNCHANGED <<config, cached, score, jobs, overlap, failed>>

(* Variant: the score is read and the points added to it. *)
AddToScore(x) ==
  /\ At(x, "sum")
  /\ step' = [y \in Actors |->
                IF y = x THEN [pc |-> "write", sum |-> Capped(score + Weight[config]),
                               alone |-> Busy("write") = {}]
                ELSE IF At(y, "write") THEN [step[y] EXCEPT !.alone = FALSE] ELSE step[y]]
  /\ UNCHANGED <<config, cached, session, jobs>>

(* recomputeSessionRisk, and the worker: the aggregate, then the update. *)
SumEvents(x) ==
  /\ At(x, "sum")
  /\ step' = [y \in Actors |->
                IF y = x THEN [pc |-> "write", sum |-> Capped(total), alone |-> Busy("write") = {}]
                ELSE IF At(y, "write") THEN [step[y] EXCEPT !.alone = FALSE] ELSE step[y]]
  /\ UNCHANGED <<config, cached, session, jobs>>

WriteScore(x) ==
  /\ At(x, "write")
  /\ score' = step[x].sum /\ overlap' = ~step[x].alone
  /\ Goto(x, IF x \in Handlers THEN [pc |-> "queue"] ELSE Idle)
  /\ UNCHANGED <<config, cached, recorded, total, peak, jobs, failed>>

(* addRiskScoring; that it fails is ignored. *)
Enqueue(h) ==
  /\ At(h, "queue")
  /\ jobs' \in {jobs + 1} \cup (IF "fail" \in Faults THEN {jobs} ELSE {})
  /\ Goto(h, Idle)
  /\ UNCHANGED <<config, cached, session>>

TakeJob(w) ==
  /\ At(w, "idle") /\ jobs > 0
  /\ jobs' = jobs - 1 /\ Goto(w, [pc |-> "sum"])
  /\ UNCHANGED <<config, cached, session>>

(* A query fails: the request, or the job, ends there. *)
Fail(x) ==
  /\ "fail" \in Faults /\ ~At(x, "idle")
  /\ failed' = (failed \/ step[x].pc \in {"sum", "write"})
  /\ Goto(x, Idle)
  /\ UNCHANGED <<config, cached, recorded, total, peak, score, jobs, overlap>>

-----------------------------------------------------------------------------
\* saveConfig

UpsertConfig(s) ==
  /\ At(s, "idle")
  /\ config' \in Versions \ {config}
  /\ Goto(s, [pc |-> "delete"])
  /\ UNCHANGED <<cached, session, jobs>>

DeleteCached(s) ==
  /\ At(s, "delete")
  /\ cached' \in {0} \cup (IF "cache" \in Faults THEN {cached} ELSE {})
  /\ Goto(s, Idle)
  /\ UNCHANGED <<config, session, jobs>>

-----------------------------------------------------------------------------
Next ==
  \/ ExpireCache
  \/ \E h \in Handlers : ReadCache(h) \/ LoadConfig(h) \/ FillCache(h) \/ InsertEvent(h) \/ Enqueue(h)
  \/ \E x \in Handlers \cup Workers : SumEvents(x) \/ WriteScore(x) \/ Fail(x)
  \/ \E w \in Workers : TakeJob(w)
  \/ \E s \in Savers : UpsertConfig(s) \/ DeleteCached(s)

Spec == Init /\ [][Next]_vars

-----------------------------------------------------------------------------
(* The score never shows more than its events have ever come to, and once   *)
(* nobody computes it, it counts every event, those that lower it too,      *)
(* unless the last computation ran over another one or one failed           *)
(* (recomputeSessionRisk, the risk-scoring worker).                         *)
ScoreCountsEveryEvent ==
  /\ score <= Capped(peak)
  /\ (Busy("sum") \cup Busy("write") = {} /\ ~overlap /\ ~failed) => score = Capped(total)
=============================================================================
