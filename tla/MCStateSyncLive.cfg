SPECIFICATION FairSpec
CONSTANTS
    Client = {c1}
    Thread = {t1, t2}
    SlotKey = {s1}
    AcctKey = {}
    CodeKey = {}
    AddrOf <- OneAddr
    MaxBlock = 3
    MaxCalls = 1
    Endpoints = {Live}
    Live = Live
    MaxContracts = 2
    MaxSlotsPerContract = 2
    PushCap = 1
    Absent = Absent
    Zero = Zero
    Failed = Failed
    NoBlock = NoBlock
PROPERTIES
    CatchesUp
    FetchReturns
CHECK_DEADLOCK FALSE
