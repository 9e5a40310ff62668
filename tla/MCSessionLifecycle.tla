------------------------ MODULE MCSessionLifecycle ------------------------
(* SessionLifecycle on small instances; the .cfg files choose the policies  *)
(* of the exam and the operations in play.                                  *)
EXTENDS SessionLifecycle, TLC

CONSTANTS h1, h2, r1, r2

(* The ways an attempt ends, racing with its answers and its grants. *)
Endings == {"save", "submit", "force_submit", "end_exam", "extend", "exam"}

(* A connection that drops is one more way to end. *)
Drops == {"submit", "end_exam", "extend", "connection", "disconnect", "exam"}

(* What reopens a session or moves its deadline, and failures.  A proctor's  *)
(* resume writes the row as an approved request does.                       *)
Reopenings ==
  {"submit", "violation", "pause", "request", "decide", "extend", "abort"}

Losses == {"connection", "submit", "exam", "extend"}

Symmetry == Permutations({h1, h2}) \cup Permutations({r1, r2})
=============================================================================
