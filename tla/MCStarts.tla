------------------------------ MODULE MCStarts ------------------------------
(* Two tabs race for an exam with automatic retakes; one tab sits an exam   *)
(* whose retakes need an approval; an attempt is interrupted and its two    *)
(* resume requests are decided while it is interrupted again.               *)
EXTENDS Starts, TLC

CONSTANTS h1, h2, r1, r2, s1, s2, a1, a2, q1, c1

(* Interruptions against approvals; the proctor's bare pause is left out. *)
Interruptions ==
  {"violation", "connection", "disconnect", "resume", "approve_resume", "deny_resume",
   "request", "decide", "submit"}

Symmetry == Permutations({s1, s2}) \cup Permutations({a1, a2})
=============================================================================
