------------------------------- MODULE Chains -------------------------------
EXTENDS Integers, Sequences

(* The slots that each slot leads to by way of its link, the slot itself   *)
(* last: n of them at most, when the function is applied to n.  Slot 0     *)
(* stands for none.                                                        *)
chain(link) ==
  LET up[n \in Nat] ==
        [q \in DOMAIN link |->
           IF n = 0 \/ q = 0 THEN <<>> ELSE Append(up[n - 1][link[q]], q)]
  IN up
=============================================================================
