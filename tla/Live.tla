-------------------------------- MODULE Live --------------------------------
(* What is kept in step while an exam runs and after it: the certificates   *)
(* of its results (Certificates), the sockets of a student and the proctors *)
(* (Realtime), the risk score of a session (RiskScore) and a proctor's list *)
(* of sessions (MonitorView).  A behaviour is about one part; the others    *)
(* stay as they began.                                                      *)
EXTENDS Certificates, Integers

CONSTANTS
  Sockets, Owner, Student, MaxPerUser, MaxTotal, MaxPending,          \* Realtime
  Handlers, Workers, Savers, Weight, Claims, Cap, MaxEvents, Faults,  \* RiskScore
  Exams, Sessions, ExamOf, MaxChanges, MaxTurns, SENT                 \* MonitorView

\* A weight is clamped to 0..100 and points are whole numbers (an insert of
\* others fails); a handler, a worker and a saver are not the same request.
ASSUME RiskAssumption ==
  /\ Cap \in Nat
  /\ Weight \in [DOMAIN Weight -> Nat] /\ 0 \notin DOMAIN Weight
  /\ Claims \subseteq Int
  /\ Handlers \cap Savers = {} /\ Workers \cap Savers = {} /\ Handlers \cap Workers = {}

VARIABLES
  part,
  link, perUser, all, tracked, joining, pending, connection,
  config, cached, recorded, total, peak, score, jobs, step, overlap, failed,
  table, pushes, pageLink, rooms, page, fetch, view, turns

gatewayVars == <<link, perUser, all, tracked, joining, pending, connection>>
riskVars    == <<config, cached, recorded, total, peak, score, jobs, step, overlap, failed>>
monitorVars == <<table, pushes, pageLink, rooms, page, fetch, view, turns>>
liveVars    == <<vars, part, gatewayVars, riskVars, monitorVars>>

Gateway == INSTANCE Realtime
Risk    == INSTANCE RiskScore
Monitor == INSTANCE MonitorView WITH link <- pageLink, MaxVersion <- MaxChanges

Parts == {"certificates", "gateway", "risk", "monitor"}

LiveInit ==
  /\ part \in Parts
  /\ Init /\ Gateway!Init /\ Risk!Init /\ Monitor!Init

LiveNext ==
  /\ UNCHANGED part
  /\ \/ part = "certificates" /\ Next /\ UNCHANGED <<gatewayVars, riskVars, monitorVars>>
     \/ part = "gateway" /\ Gateway!Next /\ UNCHANGED <<vars, riskVars, monitorVars>>
     \/ part = "risk" /\ Risk!Next /\ UNCHANGED <<vars, gatewayVars, monitorVars>>
     \/ part = "monitor" /\ Monitor!Next /\ UNCHANGED <<vars, gatewayVars, riskVars>>

(* The fairness of each part, in the behaviours that are about it. *)
LiveFairness ==
  /\ \A h \in Issuers : WF_vars(part = "certificates" /\ Generate(h))
  /\ \A s \in Sockets : WF_gatewayVars(part = "gateway" /\ Gateway!Heartbeat(s))
  /\ WF_gatewayVars(part = "gateway" /\ Gateway!Write)
  /\ WF_monitorVars(part = "monitor" /\ Monitor!Poll)
  /\ WF_monitorVars(part = "monitor" /\ Monitor!ListSessions)
  /\ WF_monitorVars(part = "monitor" /\ Monitor!Arrive)
  /\ WF_monitorVars(part = "monitor" /\ Monitor!Emit)

LiveSpec == LiveInit /\ [][LiveNext]_liveVars /\ LiveFairness

-----------------------------------------------------------------------------
(* The connection counters never run ahead of the sockets there are         *)
(* (handleConnection, handleDisconnect).                                    *)
NoLockout == Gateway!NoLockout

(* A student who is there is not shown as lost for ever (recordHeartbeat,   *)
(* setConnection).                                                          *)
PresentIsShown == Gateway!PresentIsShown

(* The risk score counts every recorded event and never shows more than     *)
(* the events have come to (recomputeSessionRisk, the risk-scoring worker). *)
ScoreCountsEveryEvent == Risk!ScoreCountsEveryEvent

(* The proctor's list catches up with the database for good, whatever is    *)
(* pushed out of order, lost or overwritten (monitor/page.tsx).             *)
ViewCatchesUp == <>[](part = "monitor" => Monitor!ShownAsStored)
=============================================================================
