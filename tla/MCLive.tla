------------------------------- MODULE MCLive -------------------------------
(* Live on a small instance: what the .cfg gives its constants, and the     *)
(* functions a .cfg cannot write.                                           *)
EXTENDS Live

CONSTANTS
  i1, i2, r1, standard, w1,            \* issuers, a result, a template, its wording
  first, second, third, watcher,       \* sockets
  proctor,
  v1, v2, k1, u1,                      \* risk: handlers, worker, saver
  e1, e2, x1, x2                       \* exams and their sessions

MCOwner  == [s \in Sockets |-> IF s = watcher THEN proctor ELSE Student]
MCExamOf == [s \in Sessions |-> IF s = x1 THEN e1 ELSE e2]
MCWeight == <<30, 60>>
MCClaims == {-20}

(* A part that this behaviour is not about starts in one state. *)
MCInit ==
  /\ LiveInit
  /\ part = "certificates" \/ filed = {}
  /\ part = "risk" \/ (config = 1 /\ cached = 0)
  /\ part = "monitor" \/ page = e1

MCSpec == MCInit /\ [][LiveNext]_liveVars /\ LiveFairness
=============================================================================
