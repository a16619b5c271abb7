SPECIFICATION LiveSpec
CONSTANTS
    p1 = p1
    p2 = p2
    s1 = s1
    s2 = s2
    Loop = Loop
    Absent = Absent
    Pool = {p1, p2}
    Slot = {s1, s2}
    Deps <- SharedDeps
    BalanceSlot <- Balances
    Known = {p1, p2}
    Timed = {p1, p2}
    Hidden = {p2}
    EvmSlot = {s1}
    Proc = {Loop}
    QueueCap = 1
    MaxBlock = 3
INVARIANTS DepsComplete StaleUntilInvalidated TimesInSync
PROPERTY LoopAndUpdatesReturn
CHECK_DEADLOCK FALSE
