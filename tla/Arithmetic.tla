----------------------------- MODULE Arithmetic -----------------------------
(***************************************************************************)
(* Powers, as a recursive function: the provers know nothing about ^.      *)
(***************************************************************************)
EXTENDS Naturals

\* b to the power of k.
Pow(b, k) ==
  LET p[n \in Nat] == IF n = 0 THEN 1 ELSE b * p[n - 1]
  IN p[k]
=============================================================================
