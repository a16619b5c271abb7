------------------------------ MODULE LiveState ------------------------------
(***************************************************************************)
(* statedb/livestate.go, transport_ws.go, statedb.go, immutable.go: the    *)
(* client.  A LiveState replicates the state server's cache in two layers, *)
(* a primary one (the dump, then every block_diff) and a backfill one (the *)
(* answers to on-demand fetches since the last diff), under blockMu:       *)
(* quoting goroutines read with RLock held, one goroutine applies diffs    *)
(* with Lock held.                                                         *)
(***************************************************************************)
EXTENDS Wire

CONSTANTS
    Thread,      \* quoting goroutines of a client
    PushCap,     \* capacity of pushCh
    NoBlock      \* "the consumer goroutine holds no message"

ASSUME LiveAssumption ==
    /\ PushCap \in Nat \ {0}
    /\ NoBlock \notin Nat

VARIABLES
    live,        \* per client: Connect has returned
    nextId,      \* per client: t.nextID of its WSTransport
    primary,     \* per client: the ImmutableState layer
    backfill,    \* per client: the bf* maps
    block,       \* per client: ls.block
    pushCh,      \* per client: block_diffs waiting for the consumer goroutine
    overflow,    \* per client: the block_diff the read loop found pushCh full for
    applying,    \* per client: the block_diff the consumer wants blockMu.Lock for
    call,        \* per client and thread: what the quoting goroutine is doing
    lost         \* history: slots written by a block_diff that pushCh dropped

liveVars == <<live, nextId, primary, backfill, block, pushCh, overflow, applying, call, lost>>

\* A goroutine outside RLock; holding it.  In WSTransport.Call it is "waiting"
\* with an id and a key, back from it "fetched" with the value too.
Out == [pc |-> "out"]
Quoting == [pc |-> "quoting"]
Empty == [k \in Key |-> Absent]

LiveInit ==
    /\ live = [c \in Client |-> FALSE]
    /\ nextId = [c \in Client |-> 0]
    /\ primary = [c \in Client |-> Empty]
    /\ backfill = [c \in Client |-> Empty]
    /\ block = [c \in Client |-> 0]
    /\ pushCh = [c \in Client |-> <<>>]
    /\ overflow = [c \in Client |-> NoBlock]
    /\ applying = [c \in Client |-> NoBlock]
    /\ call = [c \in Client |-> [t \in Thread |-> Out]]
    /\ lost = [c \in Client |-> {}]

-----------------------------------------------------------------------------
\* getStorageWithErr and its siblings: primary first, then backfill.
View(c, k) == IF primary[c][k] # Absent THEN primary[c][k] ELSE backfill[c][k]

\* blockMu is held shared by at least one goroutine.
RLocked(c) == \E t \in Thread : call[c][t] # Out

(***************************************************************************)
(* Connect: dial and subscribe; then, once the dump has arrived, load it   *)
(* into the primary layer, take its block number and start the goroutines. *)
(***************************************************************************)
Dial(c) ==
    /\ conn[c] = "none"
    /\ conn' = [conn EXCEPT ![c] = "subscribing"]
    /\ UNCHANGED <<up, down, dump, liveVars>>

LoadDump(c) ==
    /\ ~live[c]
    /\ dump[c] # NoDump
    /\ live' = [live EXCEPT ![c] = TRUE]
    /\ primary' = [primary EXCEPT ![c] = dump[c].state]
    /\ block' = [block EXCEPT ![c] = dump[c].block]
    /\ dump' = [dump EXCEPT ![c] = NoDump]
    /\ UNCHANGED <<conn, up, down, nextId, backfill, pushCh, overflow, applying, call, lost>>

\* Mutant: the queue grows without limit.
ReadPushUnbounded(c) ==
    /\ live[c]
    /\ overflow[c] = NoBlock
    /\ down[c] # <<>>
    /\ Head(down[c]).type = "block_diff"
    /\ pushCh' = [pushCh EXCEPT ![c] = Append(@, Head(down[c]).block)]
    /\ down' = [down EXCEPT ![c] = Tail(@)]
    /\ UNCHANGED <<conn, up, dump, live, nextId, primary, backfill, block, overflow,
                   applying, call, lost>>

\* Mutant: the read loop blocks on a full queue.
ReadPushBlocking(c) == Len(pushCh[c]) < PushCap /\ ReadPushUnbounded(c)

(***************************************************************************)
(* readLoop, a push: the onMessage callback set by Connect enqueues it if  *)
(* there is room.                                                          *)
(***************************************************************************)
ReadPush(c) ==
    /\ live[c]
    /\ overflow[c] = NoBlock
    /\ down[c] # <<>>
    /\ Head(down[c]).type = "block_diff"
    /\ LET b == Head(down[c]).block IN
       IF Len(pushCh[c]) < PushCap
       THEN pushCh' = [pushCh EXCEPT ![c] = Append(@, b)] /\ UNCHANGED overflow
       ELSE overflow' = [overflow EXCEPT ![c] = b] /\ UNCHANGED pushCh
    /\ down' = [down EXCEPT ![c] = Tail(@)]
    /\ UNCHANGED <<conn, up, dump, live, nextId, primary, backfill, block, applying, call, lost>>

(***************************************************************************)
(* The rest of the callback when pushCh was full: receive the oldest       *)
(* message and throw it away, then send.  The consumer goroutine may have  *)
(* received in the meantime; then what is thrown away is the next one.     *)
(***************************************************************************)
DropOldest(c) ==
    /\ overflow[c] # NoBlock
    /\ IF pushCh[c] = <<>>
       THEN /\ pushCh' = [pushCh EXCEPT ![c] = <<overflow[c]>>]
            /\ UNCHANGED lost
       ELSE /\ pushCh' = [pushCh EXCEPT ![c] = Append(Tail(@), overflow[c])]
            /\ lost' = [lost EXCEPT ![c] = @ \cup Diff(Head(pushCh[c]))]
    /\ overflow' = [overflow EXCEPT ![c] = NoBlock]
    /\ UNCHANGED <<wireVars, live, nextId, primary, backfill, block, applying, call>>

\* The answer to thread t of client c: a failed fetch is not stored, the
\* caller goes on with a zero.
Resume(c, t, v) ==
    IF v = Failed THEN Quoting
    ELSE [pc |-> "fetched", id |-> call[c][t].id, key |-> call[c][t].key, val |-> v]

\* readLoop, a response: to the caller that waits for this id, if any.
ReadResponse(c) ==
    /\ live[c]
    /\ overflow[c] = NoBlock
    /\ down[c] # <<>>
    /\ Head(down[c]).type = "response"
    /\ LET r == Head(down[c]) IN
       call' = [call EXCEPT ![c] = [t \in Thread |->
                  IF call[c][t].pc = "waiting" /\ call[c][t].id = r.id
                  THEN Resume(c, t, r.val)
                  ELSE call[c][t]]]
    /\ down' = [down EXCEPT ![c] = Tail(@)]
    /\ UNCHANGED <<conn, up, dump, live, nextId, primary, backfill, block, pushCh, overflow,
                   applying, lost>>

-----------------------------------------------------------------------------
\* The consumer goroutine receives from pushCh and asks for blockMu.Lock.
TakePush(c) ==
    /\ live[c]
    /\ applying[c] = NoBlock
    /\ pushCh[c] # <<>>
    /\ applying' = [applying EXCEPT ![c] = Head(pushCh[c])]
    /\ pushCh' = [pushCh EXCEPT ![c] = Tail(@)]
    /\ UNCHANGED <<wireVars, live, nextId, primary, backfill, block, overflow, call, lost>>

\* The entries handlePushMessage reads from a block_diff: not the "c:" ones.
Entries(b) == Diff(b) \ CodeKey

\* Mutant: the diff first, the backfill over it.
MergedBackfillLast(c, b) ==
    [k \in Key |-> CASE backfill[c][k] # Absent -> backfill[c][k]
                     [] backfill[c][k] = Absent /\ k \in Entries(b) -> chain[b][k]
                     [] OTHER -> primary[c][k]]

\* ApplyDiffInPlace: backfill over primary, then the diff over both.
Merged(c, b) ==
    [k \in Key |-> CASE k \in Entries(b) -> chain[b][k]
                     [] k \notin Entries(b) /\ backfill[c][k] # Absent -> backfill[c][k]
                     [] OTHER -> primary[c][k]]

\* Mutant: the diff is applied without the write lock.
ApplyBlockDiffUnlocked(c) ==
    /\ applying[c] # NoBlock
    /\ primary' = [primary EXCEPT ![c] = Merged(c, applying[c])]
    /\ backfill' = [backfill EXCEPT ![c] = Empty]
    /\ block' = [block EXCEPT ![c] = applying[c]]
    /\ applying' = [applying EXCEPT ![c] = NoBlock]
    /\ UNCHANGED <<wireVars, live, nextId, pushCh, overflow, call, lost>>

(***************************************************************************)
(* handlePushMessage with the lock granted: ApplyBlockDiff (merge, clear   *)
(* the backfill), block metadata, unlock.                                  *)
(***************************************************************************)
ApplyBlockDiff(c) ==
    /\ applying[c] # NoBlock
    /\ ~RLocked(c)
    /\ primary' = [primary EXCEPT ![c] = Merged(c, applying[c])]
    /\ backfill' = [backfill EXCEPT ![c] = Empty]
    /\ block' = [block EXCEPT ![c] = applying[c]]
    /\ applying' = [applying EXCEPT ![c] = NoBlock]
    /\ UNCHANGED <<wireVars, live, nextId, pushCh, overflow, call, lost>>

-----------------------------------------------------------------------------
\* Mutant: readers overtake a waiting writer.
RLockBarging(c, t) ==
    /\ live[c]
    /\ call[c][t] = Out
    /\ call' = [call EXCEPT ![c][t] = Quoting]
    /\ UNCHANGED <<wireVars, live, nextId, primary, backfill, block, pushCh, overflow,
                   applying, lost>>

(***************************************************************************)
(* A quoting goroutine.  A waiting Lock keeps new RLocks out.              *)
(***************************************************************************)
RLock(c, t) ==
    /\ live[c]
    /\ applying[c] = NoBlock
    /\ call[c][t] = Out
    /\ call' = [call EXCEPT ![c][t] = Quoting]
    /\ UNCHANGED <<wireVars, live, nextId, primary, backfill, block, pushCh, overflow,
                   applying, lost>>

\* A read that misses both layers: FetchStorage and friends, WSTransport.Call.
Fetch(c, t, k) ==
    /\ call[c][t] = Quoting
    /\ View(c, k) = Absent
    /\ conn[c] = "subscribed"
    /\ nextId[c] < MaxCalls
    /\ LET id == nextId[c] + 1 IN
       /\ nextId' = [nextId EXCEPT ![c] = id]
       /\ up' = [up EXCEPT ![c] = Append(@, [id |-> id, key |-> k])]
       /\ call' = [call EXCEPT ![c][t] = [pc |-> "waiting", id |-> id, key |-> k]]
    /\ UNCHANGED <<conn, down, dump, live, primary, backfill, block, pushCh, overflow,
                   applying, lost>>

\* The caller stores the answer in the backfill under backfillMu.
StoreBackfill(c, t) ==
    /\ call[c][t].pc = "fetched"
    /\ backfill' = [backfill EXCEPT ![c][call[c][t].key] = call[c][t].val]
    /\ call' = [call EXCEPT ![c][t] = Quoting]
    /\ UNCHANGED <<wireVars, live, nextId, primary, block, pushCh, overflow, applying, lost>>

\* Call gives up after 30 s: the id is forgotten, nothing is stored.  The
\* select may prefer the timer to an answer that is already there.
Timeout(c, t) ==
    /\ call[c][t].pc \in {"waiting", "fetched"}
    /\ call' = [call EXCEPT ![c][t] = Quoting]
    /\ UNCHANGED <<wireVars, live, nextId, primary, backfill, block, pushCh, overflow,
                   applying, lost>>

RUnlock(c, t) ==
    /\ call[c][t] = Quoting
    /\ call' = [call EXCEPT ![c][t] = Out]
    /\ UNCHANGED <<wireVars, live, nextId, primary, backfill, block, pushCh, overflow,
                   applying, lost>>

(***************************************************************************)
(* The connection is lost: what was in flight is gone, the read loop wakes *)
(* every waiting caller with an error and ends.  Nothing reconnects; the   *)
(* messages already in pushCh are still applied.                           *)
(***************************************************************************)
Close(c) ==
    /\ conn[c] \in {"subscribing", "subscribed"}
    /\ conn' = [conn EXCEPT ![c] = "closed"]
    /\ up' = [up EXCEPT ![c] = <<>>]
    /\ down' = [down EXCEPT ![c] = <<>>]
    /\ dump' = [dump EXCEPT ![c] = NoDump]
    /\ call' = [call EXCEPT ![c] = [t \in Thread |->
                  IF call[c][t].pc = "waiting" THEN Quoting ELSE call[c][t]]]
    /\ UNCHANGED <<live, nextId, primary, backfill, block, pushCh, overflow, applying, lost>>

LiveStep ==
    \E c \in Client :
        \/ Dial(c) \/ LoadDump(c) \/ ReadPush(c) \/ DropOldest(c) \/ ReadResponse(c)
        \/ TakePush(c) \/ ApplyBlockDiff(c) \/ Close(c)
        \/ \E t \in Thread :
              \/ RLock(c, t) \/ StoreBackfill(c, t) \/ Timeout(c, t) \/ RUnlock(c, t)
              \/ \E k \in Key : Fetch(c, t, k)
=============================================================================
