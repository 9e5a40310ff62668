---------------------------- MODULE MCDeadlines ----------------------------
(* What must eventually close an attempt: the sweep of expired sessions,    *)
(* under everything that reopens a session or moves its deadline, and the    *)
(* END_SESSION policy, when a connection drops.  The constants of the .cfg   *)
(* describe the first.                                                       *)
EXTENDS MCSessionLifecycle

VARIABLE part  \* which of the two exams this behaviour is about

Loss == INSTANCE SessionLifecycle WITH
  Requests <- {}, ResumePolicy <- "STUDENT", ConnectionLossPolicy <- "END_SESSION",
  MaxClock <- 2, Workload <- Losses

MCInit ==
  \/ part = "sweep" /\ Init
  \/ part = "loss" /\ Loss!Init

MCNext ==
  \/ part = "sweep" /\ Next /\ UNCHANGED part
  \/ part = "loss" /\ Loss!Next /\ UNCHANGED part

(* SweepFairness of both parts, and the handlers' steps of the second. *)
MCFairness ==
  /\ WF_vars(IF part = "sweep" THEN SweepExpired ELSE Loss!SweepExpired)
  /\ SF_vars(IF part = "sweep" THEN SweepBatch ELSE Loss!SweepBatch)
  /\ SF_vars(IF part = "sweep" THEN Finalize(Lifecycle) ELSE Loss!Finalize(Lifecycle))
  /\ \A h \in Handlers : WF_vars(part = "loss" /\ Loss!HandlerStep(h))

MCSpec == MCInit /\ [][MCNext]_<<vars, part>> /\ MCFairness

-----------------------------------------------------------------------------
(* Under END_SESSION a student whose connection drops has the attempt filed *)
(* (setConnection, forceSubmitSession).                                     *)
LossEndsFiled ==
  (part = "loss" /\ Loss!EndedByPolicy /\ everDisconnected) ~> (submission # NULL)
=============================================================================
