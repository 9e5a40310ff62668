---------------------------- MODULE MCStartExam ----------------------------
(* StartExam on small instances; the .cfg files choose the policy of the    *)
(* exam, the tabs that start and the operations in play.                    *)
EXTENDS StartExam, TLC

CONSTANTS h1, h2, h3, r1, r2
=============================================================================
