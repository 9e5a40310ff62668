------------------------------ MODULE MCClient ------------------------------
(* Client on a small instance: what the .cfg gives its constants, and the   *)
(* cases of an attempt, each a set of what may happen in it.                *)
EXTENDS Client

CONSTANTS c1, c2, h1, h2, q1, q2, option

MCCases ==
  {{"crowd"}, {"whole", "pause"}, {"bookmark", "hold"}, {"reload", "pause"}, {"clock", "grant"},
   {"clock", "lose"}, {"close", "clock"}}

(* The part that a behaviour is not about starts in one state. *)
MCInit == ClientInit /\ (part = "exam" \/ habits = {"crowd"})

MCSpec == MCInit /\ [][ClientNext]_clientVars /\ ClientFairness
=============================================================================
