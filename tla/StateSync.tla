------------------------------ MODULE StateSync ------------------------------
(***************************************************************************)
(* The state server and its LiveState clients together.                    *)
(***************************************************************************)
EXTENDS StateServer, LiveState

vars == <<nodeVars, wireVars, serverVars, liveVars>>

Init == NodeInit /\ WireInit /\ ServerInit /\ LiveInit

MineBlock ==
    /\ \E written \in SUBSET Key : Mine(written)
    /\ UNCHANGED <<wireVars, serverVars, liveVars>>

Next ==
    \/ MineBlock
    \/ ServerStep /\ UNCHANGED <<nodeVars, liveVars>>
    \/ LiveStep /\ UNCHANGED <<nodeVars, serverVars>>

Spec == Init /\ [][Next]_vars

-----------------------------------------------------------------------------
(***************************************************************************)
(* Fairness.  The server's loops and goroutines run; the node and the      *)
(* network answer (a request that fails is retried by blockLoop and ends   *)
(* by itself in handleClientRequest); the client's read loop and consumer  *)
(* goroutine run; a quote with its answer goes on and ends.  sync.RWMutex  *)
(* admits a waiting writer before later readers, which the guard of RLock  *)
(* says, so weak fairness is enough.  Nobody is obliged to mine, connect,  *)
(* quote, fetch, time out or disconnect.                                   *)
(***************************************************************************)
ServerFairness ==
    /\ WF_vars(\E n \in Block : NewHead(n) /\ UNCHANGED <<wireVars, nodeVars, liveVars>>)
    /\ WF_vars(ProcessBlock /\ UNCHANGED <<nodeVars, liveVars>>)
    /\ \A c \in Client :
        /\ WF_vars((LookupRequest(c) \/ FinishFetch(c) \/ FailFetch(c) \/ Reply(c))
                   /\ UNCHANGED <<nodeVars, liveVars>>)

LiveFairness ==
    \A c \in Client :
        /\ WF_vars((LoadDump(c) \/ ReadPush(c) \/ DropOldest(c) \/ ReadResponse(c))
                   /\ UNCHANGED <<nodeVars, serverVars>>)
        /\ WF_vars((TakePush(c) \/ ApplyBlockDiff(c)) /\ UNCHANGED <<nodeVars, serverVars>>)
        /\ \A t \in Thread :
            WF_vars((StoreBackfill(c, t) \/ RUnlock(c, t))
                    /\ UNCHANGED <<nodeVars, serverVars>>)

FairSpec == Spec /\ ServerFairness /\ LiveFairness

-----------------------------------------------------------------------------
\* The block_diffs on their way to client c: on the wire, queued, in hand.
OnWire(c) == {down[c][i].block : i \in {j \in DOMAIN down[c] : down[c][j].type = "block_diff"}}
Queued(c) == {pushCh[c][i] : i \in DOMAIN pushCh[c]}
InHand(c) == {overflow[c], applying[c]} \ {NoBlock}
Pending(c) == OnWire(c) \cup Queued(c) \cup InHand(c)

\* A client whose connection is up and whose Connect has returned.
Following(c) == live[c] /\ conn[c] = "subscribed"

\* The slots of c that no dropped block_diff wrote.
Kept(c) == SlotKey \ lost[c]

(***************************************************************************)
(* A slot the client has cached, and that no block_diff dropped by a full  *)
(* pushCh wrote, is never older than the block the client says it is at    *)
(* and never newer than the server: whatever fetches raced with            *)
(* block_diffs, the value is the slot's value at some block between.  The  *)
(* exemption is the code's own loss: a slot that a dropped diff wrote is   *)
(* read at its old value until a later block writes it again, although the *)
(* client's block number has moved past the diff.                          *)
(***************************************************************************)
NeverOlderThanBlock ==
    \A c \in Client, k \in SlotKey :
        Following(c) /\ k \in Kept(c) /\ View(c, k) # Absent =>
            \E x \in block[c]..sblock : View(c, k) = chain[x][k]

(***************************************************************************)
(* A stale slot is always about to be repaired: if what a quote would read *)
(* differs from the server's state, a block_diff that rewrites the slot is *)
(* still on its way to the client.                                         *)
(***************************************************************************)
StaleIsPending ==
    \A c \in Client, k \in SlotKey :
        Following(c) /\ k \in Kept(c) /\ View(c, k) \notin {Absent, chain[sblock][k]} =>
            \E b \in Pending(c) : k \in Diff(b)

(***************************************************************************)
(* A client that stays connected catches up: as long as the chain stands   *)
(* still, the client keeps returning to a state in which every slot it     *)
(* caches (and pushCh never dropped) holds the chain's value.  A stream of *)
(* quotes cannot starve the block updates.                                 *)
(***************************************************************************)
CaughtUp(c) ==
    \A k \in Kept(c) : View(c, k) \in {Absent, chain[head][k]}

CatchesUp ==
    \A c \in Client, b \in Block : []<>(head # b \/ ~Following(c) \/ CaughtUp(c))

(***************************************************************************)
(* A fetch returns although nobody is obliged to time out: the read loop   *)
(* is never blocked by a block update that waits for the fetching quote's  *)
(* own read lock (the deadlock Connect describes).                         *)
(***************************************************************************)
FetchReturns ==
    \A c \in Client, t \in Thread :
        (call[c][t].pc = "waiting") ~> (call[c][t].pc # "waiting")

(***************************************************************************)
(* livestate.go says "No quote ever sees a half-applied block": what a     *)
(* quoting goroutine can read is the state at one single block.            *)
(***************************************************************************)
NoHalfAppliedBlock ==
    \A c \in Client :
        Following(c) /\ RLocked(c) =>
            \E x \in Block : \A k \in SlotKey : View(c, k) \in {Absent, chain[x][k]}

(***************************************************************************)
(* On a /debug endpoint the promise is kept: the server never moves, so    *)
(* whatever is dumped, fetched or backfilled belongs to its one block.     *)
(***************************************************************************)
FrozenIsOneBlock == ready = "frozen" => NoHalfAppliedBlock

=============================================================================
