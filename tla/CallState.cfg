SPECIFICATION Spec
CONSTANTS
    a1 = a1
    a2 = a2
    k1 = k1
    k2 = k2
    Addr = {a1, a2}
    SlotName = {k1, k2}
    Modulus = 2
    Log = {log}
    Base <- Balances
    Warm = {a1}
    Absent = Absent
    NoTarget = NoTarget
    MaxJournal = 3
    MaxSnapshots = 2
INVARIANTS RestoresSnapshot
PROPERTY ImplementsEvmState
SYMMETRY Symmetry
