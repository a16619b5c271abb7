----------------------------- MODULE MCStateSync -----------------------------
EXTENDS StateSync, TLC

\* One address: contract storage, a balance, a nonce and code.
OneAddr == [k \in Key |-> "a"]

\* Slots are interchangeable, and so are quoting goroutines.
Symmetry == Permutations(SlotKey) \cup Permutations(Thread)
=============================================================================
