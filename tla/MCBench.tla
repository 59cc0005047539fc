------------------------------ MODULE MCBench ------------------------------
(* Model-checking instance of Bench. *)
EXTENDS Bench

TwoLevels == <<1, 2>>
=============================================================================
