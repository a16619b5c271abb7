----------------------------- MODULE StateServer -----------------------------
(***************************************************************************)
(* cmd/state-server/main.go: one stateServer (a /live or /debug endpoint). *)
(* It follows the node block by block, keeps a cache of the state at its   *)
(* current block, answers the requests of its connections from the cache   *)
(* or from the node, and pushes every block's changes to its subscribers.  *)
(***************************************************************************)
EXTENDS Wire

CONSTANTS
    Endpoints,              \* the URLs served: Live for /live, N for /debug/N
    Live,
    MaxContracts,           \* cap on the contracts with cached storage
    MaxSlotsPerContract     \* cap on the cached slots of one contract

ASSUME ServerAssumption ==
    /\ Live \notin Nat
    /\ Endpoints \subseteq {Live} \cup (Block \ {0})
    /\ MaxContracts \in Nat
    /\ MaxSlotsPerContract \in Nat \ {0}

VARIABLES
    ready,      \* "no" until s.ready is closed, then which goroutine closed it
    latest,     \* latestBlock: the last block number newHeads has announced
    cache,      \* s.cache: storage, balance, nonce and code maps
    sblock,     \* s.cache.blockNumber
    handler     \* per connection: the handleClientRequest call in progress

serverVars == <<ready, latest, cache, sblock, handler>>

Idle == [pc |-> "idle"]
Fetching == [pc : {"fetch"}, id : Id, key : Key, block : Block]
Replying == [pc : {"reply"}, id : Id, val : Value \cup {Failed}]

ServerTypeOK ==
    /\ ready \in {"no", "live", "frozen"}
    /\ latest \in Block
    /\ cache \in [Key -> Value \cup {Absent}]
    /\ sblock \in Block
    /\ handler \in [Client -> {Idle} \cup Fetching \cup Replying]

ServerInit ==
    /\ ready = "no"
    /\ latest = 0
    /\ cache = [k \in Key |-> Absent]
    /\ sblock = 0
    /\ handler = [c \in Client |-> Idle]

-----------------------------------------------------------------------------
(***************************************************************************)
(* stateCache: storage is capped per contract and in contracts; a key that *)
(* is already cached is always overwritten.                                *)
(***************************************************************************)
Cached == {k \in Key : cache[k] # Absent}
SlotsOf(a, keys) == {k \in keys \cap SlotKey : AddrOf[k] = a}
Contracts(keys) == {AddrOf[k] : k \in keys \cap SlotKey}

HasRoom(k, keys) ==
    \/ k \notin SlotKey
    \/ k \in keys
    \/ LET slots == SlotsOf(AddrOf[k], keys) IN
       IF slots = {} THEN Cardinality(Contracts(keys)) < MaxContracts
                     ELSE Cardinality(slots) < MaxSlotsPerContract

\* setStorage, setBalance, setNonce, setCode
Set(k, v) == IF HasRoom(k, Cached) THEN [cache EXCEPT ![k] = v] ELSE cache

\* Mutant: the contracts are counted once, before the loop.
AdmitCountingOnce(k, keys) ==
    LET dst == SlotsOf(AddrOf[k], keys) IN
    IF \/ dst = {} /\ Cardinality(Contracts(Cached)) >= MaxContracts
       \/ dst # {} /\ k \notin dst /\ Cardinality(dst) >= MaxSlotsPerContract
    THEN keys
    ELSE keys \cup {k}

\* applyDiffAndUpdateBlock, one slot of the diff: a contract that is not in
\* the map takes the next place among the contracts, or is skipped; a slot
\* that is not in its contract's map takes the next place there, or is skipped.
Admit(k, keys) ==
    LET dst == SlotsOf(AddrOf[k], keys) IN
    IF \/ dst = {} /\ Cardinality(Contracts(keys)) >= MaxContracts
       \/ dst # {} /\ k \notin dst /\ Cardinality(dst) >= MaxSlotsPerContract
    THEN keys
    ELSE keys \cup {k}

\* The loops over the diff's maps, whose order Go leaves open.  That the code
\* goes contract by contract makes no difference: a contract that was skipped
\* finds no place later either.
Orders(slots) ==
    {o \in [1..Cardinality(slots) -> slots] : \A k \in slots : \E i \in DOMAIN o : o[i] = k}

\* The keys in the cache after the diff's slots have been inserted in `order'.
Filled(order) ==
    LET held[i \in 0..Len(order)] == IF i = 0 THEN Cached ELSE Admit(order[i], held[i - 1])
    IN held[Len(order)]

-----------------------------------------------------------------------------
(***************************************************************************)
(* blockLoop, up to close(s.ready).  Connections wait for it.              *)
(***************************************************************************)
StartBlockLoop ==
    /\ Live \in Endpoints
    /\ ready = "no"
    /\ ready' = "live"
    /\ sblock' = head
    /\ latest' = head
    /\ UNCHANGED <<cache, handler>>

\* Mutant: the block loop runs for a /debug endpoint too.
StartFrozenLooping ==
    /\ ready = "no"
    /\ ready' = "frozen"
    /\ \E n \in Endpoints \ {Live} : n <= head /\ sblock' = n
    /\ latest' = head
    /\ UNCHANGED <<cache, handler>>

(***************************************************************************)
(* initFrozen: the deferred close(s.ready) runs whether or not the header  *)
(* of the requested block could be fetched; if not, blockNumber stays 0.   *)
(* No block loop is started: the endpoint never moves again.               *)
(***************************************************************************)
StartFrozen ==
    /\ ready = "no"
    /\ ready' = "frozen"
    /\ \E n \in Endpoints \ {Live} :
          \/ n <= head /\ sblock' = n
          \/ sblock' = 0
    /\ UNCHANGED <<latest, cache, handler>>

\* subscribeNewHeads: a head announcement arrives; those sent during a
\* reconnect are missed, later ones make up for them.
NewHead(n) ==
    /\ ready = "live"
    /\ n \in latest + 1 .. head
    /\ latest' = n
    /\ UNCHANGED <<ready, cache, sblock, handler>>

\* Mutant: a broadcast skips a client whose connection is busy.
SubscribersNotBusy == {c \in Client : conn[c] = "subscribed" /\ handler[c] = Idle}

Subscribers == {c \in Client : conn[c] = "subscribed"}

(***************************************************************************)
(* blockLoop, one iteration: the trace and the header of the next block    *)
(* have both arrived; under blockMu.Lock the diff is applied, the block    *)
(* number moves and, unless the diff is empty, it is broadcast.  When the  *)
(* trace or the header fails nothing changes and the block is tried again. *)
(***************************************************************************)
ProcessBlock ==
    /\ ready # "no"
    /\ sblock < latest
    /\ LET b == sblock + 1
           new == Diff(b) IN
       /\ \E order \in Orders(new \cap SlotKey) :
             cache' = [k \in Key |-> IF k \in new /\ k \in Filled(order) \cup AcctKey \cup CodeKey
                                    THEN chain[b][k] ELSE cache[k]]
       /\ sblock' = b
       /\ down' = IF new = {} THEN down
                  ELSE [c \in Client |->
                          IF c \in Subscribers
                          THEN Append(down[c], [type |-> "block_diff", block |-> b])
                          ELSE down[c]]
    /\ UNCHANGED <<ready, latest, handler, conn, up, dump>>

-----------------------------------------------------------------------------
(***************************************************************************)
(* dumpGob: every address with a balance, a nonce or code in the cache     *)
(* gets one AccountEntry, in which a missing balance or nonce is zero and  *)
(* missing code is empty (and not installed by SetAccount).                *)
(***************************************************************************)
DumpOf(k) ==
    IF /\ cache[k] = Absent
       /\ k \in AcctKey
       /\ \E j \in Cached \ SlotKey : AddrOf[j] = AddrOf[k]
    THEN Zero
    ELSE cache[k]

\* handleStateWS, subscriber: dump, write and register under one blockMu.RLock.
Subscribe(c) ==
    /\ ready # "no"
    /\ conn[c] = "subscribing"
    /\ conn' = [conn EXCEPT ![c] = "subscribed"]
    /\ dump' = [dump EXCEPT ![c] = [block |-> sblock,
                                    state |-> [k \in Key |-> DumpOf(k)]]]
    /\ UNCHANGED <<serverVars, up, down>>

\* Mutant: a miss is answered like a hit.
LookupWithoutMiss(c) ==
    /\ ready # "no"
    /\ conn[c] \in {"subscribed", "worker"}
    /\ handler[c] = Idle
    /\ up[c] # <<>>
    /\ handler' = [handler EXCEPT ![c] = [pc |-> "reply", id |-> Head(up[c]).id,
                                          val |-> cache[Head(up[c]).key]]]
    /\ up' = [up EXCEPT ![c] = Tail(@)]
    /\ UNCHANGED <<ready, latest, cache, sblock, conn, down, dump>>

(***************************************************************************)
(* handleClientRequest, first critical section: the request is stamped     *)
(* with the server's block, whatever block the client asked for, and       *)
(* looked up in the cache.  One request at a time per connection.          *)
(***************************************************************************)
LookupRequest(c) ==
    /\ ready # "no"
    /\ conn[c] \in {"subscribed", "worker"}
    /\ handler[c] = Idle
    /\ up[c] # <<>>
    /\ LET r == Head(up[c]) IN
       handler' = [handler EXCEPT ![c] =
          IF cache[r.key] # Absent
          THEN [pc |-> "reply", id |-> r.id, val |-> cache[r.key]]
          ELSE [pc |-> "fetch", id |-> r.id, key |-> r.key, block |-> sblock]]
    /\ up' = [up EXCEPT ![c] = Tail(@)]
    /\ UNCHANGED <<ready, latest, cache, sblock, conn, down, dump>>

\* Mutant: the answer is stored without looking at the block again.
FinishFetchUnchecked(c) ==
    /\ handler[c].pc = "fetch"
    /\ LET h == handler[c]
           v == chain[h.block][h.key] IN
       /\ cache' = Set(h.key, v)
       /\ handler' = [handler EXCEPT ![c] = [pc |-> "reply", id |-> h.id, val |-> v]]
    /\ UNCHANGED <<ready, latest, sblock, wireVars>>

(***************************************************************************)
(* handleClientRequest after fetchFromNode, which ran without the lock:    *)
(* the node answered for the stamped block; second critical section.       *)
(***************************************************************************)
FinishFetch(c) ==
    /\ handler[c].pc = "fetch"
    /\ LET h == handler[c]
           v == chain[h.block][h.key] IN
       /\ cache' = IF sblock = h.block THEN Set(h.key, v) ELSE cache
       /\ handler' = [handler EXCEPT ![c] = [pc |-> "reply", id |-> h.id, val |-> v]]
    /\ UNCHANGED <<ready, latest, sblock, wireVars>>

\* fetchFromNode failed: the error is the reply.
FailFetch(c) ==
    /\ handler[c].pc = "fetch"
    /\ handler' = [handler EXCEPT ![c] =
                      [pc |-> "reply", id |-> handler[c].id, val |-> Failed]]
    /\ UNCHANGED <<ready, latest, cache, sblock, wireVars>>

\* wsWrite of the response, outside every lock; a closed socket swallows it.
Reply(c) ==
    /\ handler[c].pc = "reply"
    /\ handler' = [handler EXCEPT ![c] = Idle]
    /\ down' = IF conn[c] \in {"subscribed", "worker"}
               THEN [down EXCEPT ![c] = Append(@, [type |-> "response",
                                                  id |-> handler[c].id,
                                                  val |-> handler[c].val])]
               ELSE down
    /\ UNCHANGED <<ready, latest, cache, sblock, conn, up, dump>>

ServerStep ==
    \/ (StartBlockLoop \/ StartFrozen) /\ UNCHANGED wireVars
    \/ \E n \in Block : NewHead(n) /\ UNCHANGED wireVars
    \/ ProcessBlock
    \/ \E c \in Client : \/ Subscribe(c) \/ LookupRequest(c)
                         \/ FinishFetch(c) \/ FailFetch(c) \/ Reply(c)

-----------------------------------------------------------------------------
(***************************************************************************)
(* The server in an open world: the node mines, connections open as        *)
(* subscribers or as workers (request/response only), send requests with   *)
(* ids of their own, read what they are sent, and go away at any time.     *)
(* StateSync has LiveState clients in their place.                         *)
(***************************************************************************)
MineOpen == \E written \in SUBSET Key : Mine(written) /\ UNCHANGED <<serverVars, wireVars>>

DialAs(c, kind) ==
    /\ conn[c] = "none"
    /\ conn' = [conn EXCEPT ![c] = kind]
    /\ UNCHANGED <<up, down, dump>>

\* MaxCalls bounds what is unanswered or unread.
SendRequest(c, i, k) ==
    /\ conn[c] \in {"subscribing", "subscribed", "worker"}
    /\ Len(up[c]) + Len(down[c]) < MaxCalls
    /\ up' = [up EXCEPT ![c] = Append(@, [id |-> i, key |-> k])]
    /\ UNCHANGED <<conn, down, dump>>

\* The binary dump comes before every text frame.
Receive(c) ==
    /\ down[c] # <<>> \/ dump[c] # NoDump
    /\ IF dump[c] # NoDump
       THEN dump' = [dump EXCEPT ![c] = NoDump] /\ UNCHANGED down
       ELSE down' = [down EXCEPT ![c] = Tail(@)] /\ UNCHANGED dump
    /\ UNCHANGED <<conn, up>>

Disconnect(c) ==
    /\ conn[c] \notin {"none", "closed"}
    /\ conn' = [conn EXCEPT ![c] = "closed"]
    /\ up' = [up EXCEPT ![c] = <<>>]
    /\ down' = [down EXCEPT ![c] = <<>>]
    /\ dump' = [dump EXCEPT ![c] = NoDump]

Connections ==
    \E c \in Client :
        \/ \E kind \in {"subscribing", "worker"} : DialAs(c, kind)
        \/ \E i \in Id, k \in Key : SendRequest(c, i, k)
        \/ Receive(c)
        \/ Disconnect(c)

openVars == <<nodeVars, wireVars, serverVars>>

OpenInit == NodeInit /\ WireInit /\ ServerInit

OpenNext ==
    \/ ServerStep /\ UNCHANGED nodeVars
    \/ MineOpen
    \/ Connections /\ UNCHANGED <<nodeVars, serverVars>>

OpenSpec == OpenInit /\ [][OpenNext]_openVars

-----------------------------------------------------------------------------
TypeOK == NodeTypeOK /\ WireTypeOK /\ ServerTypeOK

(***************************************************************************)
(* The cache never holds a value of another block: what handleClientRequest*)
(* fetched without the lock is stored only if the block has not moved, and *)
(* what the caps keep out is absent, not stale.                            *)
(***************************************************************************)
CacheCoherent == \A k \in Cached : cache[k] = chain[sblock][k]

(***************************************************************************)
(* The caps are counted in two places, slot by slot while a diff is        *)
(* applied and once more when an answer is stored: together they never let *)
(* in more than maxContracts contracts or maxSlotsPerContract slots of one.*)
(***************************************************************************)
WithinCaps(keys) ==
    /\ Cardinality(Contracts(keys)) <= MaxContracts
    /\ \A a \in Contracts(keys) : Cardinality(SlotsOf(a, keys)) <= MaxSlotsPerContract

CapsHold == WithinCaps(Cached)

(***************************************************************************)
(* A subscriber misses nothing between its dump and the server's block:    *)
(* until it reads, the dump together with the diffs behind it on the wire  *)
(* give the current value of every key the dump holds.                     *)
(***************************************************************************)
StreamComplete ==
    \A c \in Client, k \in Key :
        dump[c] # NoDump /\ dump[c].state[k] \notin {Absent, Zero} =>
            \A b \in dump[c].block + 1 .. sblock : k \in Diff(b) =>
                \E i \in DOMAIN down[c] : down[c][i] = [type |-> "block_diff", block |-> b]
=============================================================================
