---------------------------- MODULE PowersOfTwo -----------------------------
EXTENDS Integers

(* The powers of two, as the code has them: 1 shifted to the left k times. *)
two_to[k \in Nat] == IF k = 0 THEN 1 ELSE 2 * two_to[k - 1]
=============================================================================
