---------------------------- MODULE MCStateServer ---------------------------
EXTENDS StateServer, TLC

CONSTANTS s1, s2, s3

\* Two slots of one contract and one of another.
TwoContracts == [k \in Key |-> IF k = s3 THEN "b" ELSE "a"]

Symmetry == Permutations(Client) \cup Permutations({s1, s2})
=============================================================================
