------------------------------ MODULE MCGrading ------------------------------
(* Grading on a small exam: two essays and two choice questions, one of them *)
(* answered right for one mark and one wrong for a penalty of two.           *)
EXTENDS Grading, TLC

CONSTANTS g1, g2, essay1, essay2, right, wrong

MCPoints  == (essay1 :> 2) @@ (essay2 :> 2) @@ (right :> 1) @@ (wrong :> 2)
MCMachine == (essay1 :> 0) @@ (essay2 :> 0) @@ (right :> 1) @@ (wrong :> -2)

Symmetry == Permutations({g1, g2}) \cup Permutations({essay1, essay2})
=============================================================================
