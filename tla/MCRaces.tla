------------------------------ MODULE MCRaces ------------------------------
(* The ways an attempt ends race with each other, its answers and its       *)
(* grants, under two exams: one that lets a lost connection be, the          *)
(* constants of the .cfg, and one that ends the attempt for it.              *)
EXTENDS MCSessionLifecycle

VARIABLE part  \* which of the two exams this behaviour is about

Dropped == INSTANCE SessionLifecycle WITH
  ResumePolicy <- "STUDENT", ConnectionLossPolicy <- "END_SESSION", MaxClock <- 2,
  Workload <- Drops

MCInit ==
  \/ part = "endings" /\ Init
  \/ part = "drops" /\ Dropped!Init

MCNext ==
  /\ UNCHANGED part
  /\ \/ part = "endings" /\ Next
     \/ part = "drops" /\ Dropped!Next

MCSpec == MCInit /\ [][MCNext]_<<vars, part>>
=============================================================================
