------------------------------ MODULE Attempt ------------------------------
(* What the server promises about one exam attempt: it runs until it is     *)
(* filed, it is filed once, it is never filed as expired before the         *)
(* deadline it started with, and filing it ends it for good.                *)
EXTENDS Integers

CONSTANTS
  Filings,   \* what can be put on file, records with a reason
  Duration,  \* the deadline the attempt starts with
  NULL       \* nothing on file

VARIABLES
  clock,  \* minutes since the attempt started
  phase,  \* "running" or "over"
  file    \* the filing, NULL before there is one

Init ==
  /\ clock = 0
  /\ phase = "running"
  /\ file = NULL

Tick ==
  /\ clock' = clock + 1
  /\ UNCHANGED <<phase, file>>

Put(f) ==
  /\ phase = "running" /\ file = NULL
  /\ f.reason = "AUTO_TIME_EXPIRY" => clock > Duration
  /\ phase' = "over"
  /\ file' = f
  /\ UNCHANGED clock

Next == Tick \/ \E f \in Filings : Put(f)

Spec == Init /\ [][Next]_<<clock, phase, file>>
=============================================================================
