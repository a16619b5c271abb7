----------------------------- MODULE MCCallState -----------------------------
(* Instances of CallState for TLC. *)
EXTENDS CallState, TLC

CONSTANTS a1, a2, k1, k2

\* One account with a balance, one that is empty.
Balances == (a1 :> 1) @@ (a2 :> 0)

Symmetry == Permutations(SlotName)
=============================================================================
