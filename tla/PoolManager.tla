----------------------------- MODULE PoolManager -----------------------------
(***************************************************************************)
(* formulas/pool_quoter.go: PoolManager builds a quoter per pool from the  *)
(* slots its formula reads, remembers which slots those were, and caches   *)
(* the quoter, the balances of the pool and the quotes.  Quotes run in the *)
(* processes of Proc, invalidation in the block loop of Quoter; only the   *)
(* quote and balance caches are protected by a mutex (cacheMu).            *)
(*                                                                         *)
(* Nothing orders a quote and an invalidation of the same pool: the pools  *)
(* for which the two met are kept in raced, and what the properties of     *)
(* Quoter say, they say of the others.                                     *)
(*                                                                         *)
(* A slot's value is the number of the block that wrote it, and a quote is *)
(* identified with what it was computed from.  One amount and direction    *)
(* per pool stands for all of them.                                        *)
(***************************************************************************)
EXTENDS Integers, Sequences

CONSTANTS
    Pool,
    Slot,
    Deps,           \* the slots buildQuoter reads for a pool
    BalanceSlot,    \* the slot behind balanceOf(pool) of the output token
    Known,          \* pools with a formula in the registry
    Timed,          \* LFJ V2 pools, whose quotes depend on the block's time
    Hidden,         \* pools wrapped in a deadDirQuoter
    Proc,           \* goroutines that quote
    Absent

ASSUME PoolManagerAssumption ==
    /\ Deps \in [Pool -> SUBSET Slot]
    /\ BalanceSlot \in [Pool -> Slot]
    /\ Known \subseteq Pool
    /\ Timed \subseteq Pool
    /\ Hidden \subseteq Pool
    /\ Absent \notin Nat
    /\ Absent \notin Pool

VARIABLES
    state,          \* what pm.reader reads: LiveState's StateDB
    pools,          \* pm.pools
    depSlots,       \* pm.depSlots, as pairs <<slot, pool>>
    quoteCaches,    \* pm.quoteCaches
    balanceCache,   \* pm.balanceCache
    blockTimestamp, \* pm.blockTimestamp
    call,           \* the Quote each process is in
    raced           \* history: pools of which another goroutine had a quoter in hand, or
                    \* built one, while the loop invalidated them or set their time

pmVars == <<pools, depSlots, quoteCaches, balanceCache, blockTimestamp, raced>>

\* A PoolQuoter: the zeroQuoter, or a formula over the values it was built from.
Zero == [zero |-> TRUE, vals |-> [s \in Slot |-> Absent], time |-> Absent]

Formula(p) ==
    [zero |-> FALSE,
     vals |-> [s \in Slot |-> IF s \in Deps[p] THEN state[s] ELSE Absent],
     time |-> IF p \in Timed THEN blockTimestamp ELSE Absent]

Quoters ==
    [zero : BOOLEAN, vals : [Slot -> Nat \cup {Absent}], time : Nat \cup {Absent}]

ASSUME AbsentAssumption == Absent \notin Quoters

\* A cached quote: the quoter, and the balance that capped it.
Quotes == [q : Quoters, bal : Nat \cup {Absent}]

Calls ==
    [pc : {"ready", "get", "publish", "cap", "store", "return"},
     pool : Pool \cup {Absent}, q : Quoters, bal : Nat \cup {Absent}]

Ready == [pc |-> "ready", pool |-> Absent, q |-> Zero, bal |-> Absent]

\* NewPoolManager; then, in NewQuoter, Get of every pool under the read
\* lock: some of the constructors may fail.
PMInit ==
    /\ \E built \in SUBSET Known :
          pools = [p \in Pool |-> IF p \in built THEN Formula(p) ELSE Zero]
    /\ depSlots = {d \in Slot \X Pool : /\ pools[d[2]] = Formula(d[2])
                                       /\ d[1] \in Deps[d[2]]}
    /\ quoteCaches = [p \in Pool |-> Absent]
    /\ balanceCache = [p \in Pool |-> Absent]
    /\ call = [t \in Proc |-> Ready]
    /\ raced = {}

\* A formula's quoter of p is in the cache.
Built(p) == pools[p] # Absent /\ ~pools[p].zero

\* A Quote has a formula's quoter of p in hand, and nothing cached of it yet.
InHand(p) ==
    \E t \in Proc : /\ call[t].pool = p /\ ~call[t].q.zero
                    /\ call[t].pc \in {"publish", "cap", "store"}

-----------------------------------------------------------------------------
(***************************************************************************)
(* PoolManager.Quote(p) by process t.                                      *)
(***************************************************************************)
Lookup(t, p) ==
    /\ call[t].pc = "ready"
    /\ call' = [call EXCEPT ![t] =
                  IF quoteCaches[p] = Absent
                  THEN [pc |-> "get", pool |-> p, q |-> Zero, bal |-> Absent]
                  ELSE [pc |-> "return", pool |-> p,
                        q |-> quoteCaches[p].q, bal |-> quoteCaches[p].bal]]
    /\ UNCHANGED pmVars

Got(t, q) == call' = [call EXCEPT ![t].pc = "cap", ![t].q = q]

\* Get: the quoter is there.
Get(t) ==
    LET p == call[t].pool IN
    /\ call[t].pc = "get"
    /\ pools[p] # Absent
    /\ Got(t, pools[p])
    /\ UNCHANGED pmVars

\* Mutant: a slot keeps only the pool that registered last.
RegisterLast(p) ==
    {d \in depSlots : d[1] \notin Deps[p]} \cup (Deps[p] \X {p})

\* registerSlots
Register(p) == depSlots \cup (Deps[p] \X {p})

\* Get: buildQuoter reads the pool's slots (they do not change under RLock) and
\* registers them ...
Build(t) ==
    LET p == call[t].pool IN
    /\ call[t].pc = "get"
    /\ pools[p] = Absent
    /\ p \in Known
    /\ depSlots' = Register(p)
    /\ call' = [call EXCEPT ![t].pc = "publish", ![t].q = Formula(p)]
    /\ UNCHANGED <<pools, quoteCaches, balanceCache, blockTimestamp, raced>>

\* Get: the registry has no formula for the pool, or the constructor returns
\* nil or panics.  The pool gets the zeroQuoter; nothing is registered.
GetZero(t) ==
    /\ call[t].pc = "get"
    /\ pools[call[t].pool] = Absent
    /\ call' = [call EXCEPT ![t].pc = "publish", ![t].q = Zero]
    /\ UNCHANGED pmVars

\* ... and then puts the quoter into pm.pools, over what another goroutine has
\* put there.
Publish(t) ==
    LET p == call[t].pool IN
    /\ call[t].pc = "publish"
    /\ pools' = [pools EXCEPT ![p] = call[t].q]
    /\ Got(t, call[t].q)
    /\ raced' = IF call[t].q.zero /\ Built(p) THEN raced \cup {p} ELSE raced
    /\ UNCHANGED <<depSlots, quoteCaches, balanceCache, blockTimestamp>>

\* The balance cap: an output that is not zero is compared with the cached
\* balance of the pool, which is read first if it is not there.
Cap(t) ==
    LET p == call[t].pool
        bal == IF balanceCache[p] # Absent THEN balanceCache[p] ELSE state[BalanceSlot[p]]
    IN
    /\ call[t].pc = "cap"
    /\ \/ /\ ~call[t].q.zero
          /\ balanceCache' = [balanceCache EXCEPT ![p] = bal]
          /\ call' = [call EXCEPT ![t].pc = "store", ![t].bal = bal]
       \/ /\ call' = [call EXCEPT ![t].pc = "store"]
          /\ UNCHANGED balanceCache
    /\ UNCHANGED <<pools, depSlots, quoteCaches, blockTimestamp, raced>>

Store(t) ==
    /\ call[t].pc = "store"
    /\ quoteCaches' = [quoteCaches EXCEPT ![call[t].pool] = [q |-> call[t].q, bal |-> call[t].bal]]
    /\ call' = [call EXCEPT ![t].pc = "return"]
    /\ UNCHANGED <<pools, depSlots, balanceCache, blockTimestamp, raced>>

Return(t) ==
    /\ call[t].pc = "return"
    /\ call' = [call EXCEPT ![t] = Ready]
    /\ UNCHANGED pmVars

QuoteStep(t) ==
    \/ \E p \in Pool : Lookup(t, p)
    \/ Get(t) \/ Build(t) \/ Publish(t) \/ GetZero(t)
    \/ Cap(t) \/ Store(t) \/ Return(t)

-----------------------------------------------------------------------------
(***************************************************************************)
(* Operations of the block loop.                                           *)
(***************************************************************************)

\* Pools whose LFJ V2 struct SetBlockTimestamp finds: it looks through a
\* fotPoolQuoter, not through a deadDirQuoter.
Retimed == {p \in Timed \ Hidden : pools[p] # Absent /\ ~pools[p].zero}

\* Mutant: the struct gets the new time and the quotes stay.
SetBlockTimestampOnly(ts) ==
    /\ blockTimestamp' = ts
    /\ pools' = [p \in Pool |-> IF p \in Retimed THEN [pools[p] EXCEPT !.time = ts] ELSE pools[p]]
    /\ UNCHANGED <<depSlots, quoteCaches, balanceCache, raced>>

SetBlockTimestamp(ts) ==
    /\ blockTimestamp' = ts
    /\ IF ts = blockTimestamp
       THEN UNCHANGED <<pools, quoteCaches, raced>>
       ELSE /\ pools' = [p \in Pool |-> IF p \in Retimed
                                        THEN [pools[p] EXCEPT !.time = ts] ELSE pools[p]]
            /\ quoteCaches' = [p \in Pool |-> IF p \in Retimed THEN Absent ELSE quoteCaches[p]]
            /\ raced' = raced \cup {p \in Timed \ Hidden : InHand(p)}
    /\ UNCHANGED <<depSlots, balanceCache>>

\* Mutant: the quoter goes and its quotes stay.
InvalidateQuoter(p) ==
    /\ pools' = [pools EXCEPT ![p] = Absent]
    /\ UNCHANGED <<depSlots, quoteCaches, balanceCache, blockTimestamp, raced>>

\* Invalidate drops the quoter and the caches ...
Invalidate(p) ==
    /\ pools' = [pools EXCEPT ![p] = Absent]
    /\ quoteCaches' = [quoteCaches EXCEPT ![p] = Absent]
    /\ balanceCache' = [balanceCache EXCEPT ![p] = Absent]
    /\ raced' = IF InHand(p) THEN raced \cup {p} ELSE raced
    /\ UNCHANGED <<depSlots, blockTimestamp>>

\* ... and then takes the pool out of depSlots.
CleanDeps(p) ==
    /\ depSlots' = {d \in depSlots : d[2] # p}
    /\ raced' = IF InHand(p) \/ Built(p) THEN raced \cup {p} ELSE raced
    /\ UNCHANGED <<pools, quoteCaches, balanceCache, blockTimestamp>>
=============================================================================
