SPECIFICATION OpenSpec
CONSTANTS
    s1 = s1
    s2 = s2
    s3 = s3
    Client = {c1, c2}
    SlotKey = {s1, s2, s3}
    AcctKey = {}
    CodeKey = {}
    AddrOf <- TwoContracts
    MaxBlock = 1
    MaxCalls = 1
    Endpoints = {Live}
    Live = Live
    MaxContracts = 1
    MaxSlotsPerContract = 1
    Absent = Absent
    Zero = Zero
    Failed = Failed
INVARIANTS
    TypeOK
    CacheCoherent
    CapsHold
    StreamComplete
SYMMETRY Symmetry
CHECK_DEADLOCK FALSE
