------------------------------ MODULE MCQuoter -------------------------------
(* Instances of Quoter for TLC. *)
EXTENDS Quoter, TLC

CONSTANTS p1, p2, s1, s2

\* Two pools share a slot, like pools of one Balancer vault.
SharedDeps == [p \in Pool |-> IF p = p1 THEN {s1} ELSE {s1, s2}]

Balances == [p \in Pool |-> s1]
=============================================================================
