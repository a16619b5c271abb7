SPECIFICATION Spec
CONSTANTS
    Client = {c1}
    Thread = {t1, t2}
    SlotKey = {s1, s2}
    AcctKey = {}
    CodeKey = {}
    AddrOf <- OneAddr
    MaxBlock = 3
    MaxCalls = 2
    Endpoints = {Live, 1}
    Live = Live
    MaxContracts = 2
    MaxSlotsPerContract = 2
    PushCap = 2
    Absent = Absent
    Zero = Zero
    Failed = Failed
    NoBlock = NoBlock
INVARIANTS NeverOlderThanBlock StaleIsPending FrozenIsOneBlock
SYMMETRY Symmetry
CHECK_DEADLOCK FALSE
