------------------------------ MODULE Browser -------------------------------
(***************************************************************************)
(* The WASM SDK: a LiveState fed over a browser WebSocket.  Go for js/wasm *)
(* runs on one thread: a goroutine that a message wakes runs before the    *)
(* browser delivers the next message, and the goroutines of several block  *)
(* diffs queue at blockMu in the order they were started.                  *)
(*                                                                         *)
(* The value of a key is the number of the block that wrote it, plus one.  *)
(***************************************************************************)
EXTENDS Integers, Sequences, FiniteSetsExt

CONSTANTS Keys,       \* storage slots
          Dumped,     \* those in the server's cache when the client subscribes
          BlockWrites,\* the sets of slots a block may write; one that writes none is not broadcast
          Readers,    \* goroutines of quote and ethCall
          MaxBlocks,  \* bound on the chain
          MaxCalls    \* bound on the requests of a client

ASSUME BrowserAssumption ==
  /\ Dumped \subseteq Keys /\ BlockWrites \subseteq (SUBSET Keys) \ {{}}
  /\ MaxBlocks \in Nat /\ MaxCalls \in Nat

VARIABLES writes,    \* the chain: the keys each block writes
          out, in,   \* the two directions of the WebSocket
          stamp,     \* the block the server stamped on the first request in out, or NotYet
          subscribed,\* the server broadcasts to this client
          phase,     \* of ConnectBrowser: "dial", "dump", "live" or "failed"
          firstMsg,  \* the channel of capacity one
          replica,   \* block, the immutable layer and the backfill of the StateDB
          waiting,   \* block diffs at blockMu.Lock
          reader,    \* per reader
          nextID, pending, closed

chainVars == <<writes, out, stamp, subscribed>>
vars == <<writes, out, in, stamp, subscribed, phase, firstMsg, replica, waiting, reader, nextID,
          pending, closed>>

Block == Len(writes)
ValueAt(k, b) == 1 + Max({0} \union {n \in 1..b : k \in writes[n]})
Zero  == 0      \* what a missing result decodes to
Local == -1     \* what a local call writes
NotYet == -1    \* no request is being handled
Empty == <<>>

\* Entries written over a map.
Over(new, map) == [k \in DOMAIN new \union DOMAIN map |-> IF k \in DOMAIN new THEN new[k] ELSE map[k]]

\* A goroutine without the lock.
Idle == [pc |-> "idle", kind |-> "quote", key |-> CHOOSE k \in Keys : TRUE, id |-> 0, ch |-> <<>>]

Init == /\ writes = <<>> /\ out = <<>> /\ in = <<>> /\ stamp = NotYet /\ subscribed = FALSE
        /\ phase = "dial" /\ firstMsg = <<>> /\ waiting = <<>>
        /\ replica = [block |-> 0, im |-> Empty, bf |-> Empty]
        /\ reader = [r \in Readers |-> Idle]
        /\ nextID = 0 /\ pending = {} /\ closed = FALSE

(* The server's block loop: under blockMu it applies the diff of the next  *)
(* block and broadcasts it.                                                *)
Mine(ks) == /\ Block < MaxBlocks
            /\ writes' = Append(writes, ks)
            /\ in' = IF subscribed /\ ~closed
                     THEN Append(in, [t |-> "diff", block |-> Block + 1, keys |-> ks]) ELSE in
            /\ UNCHANGED <<out, stamp, subscribed, phase, firstMsg, replica, waiting, reader, nextID,
                           pending, closed>>

(* The read loop of the server's connection handles the messages one by    *)
(* one.  The first subscribes: dump and registration are under the read    *)
(* half of blockMu.                                                        *)
Subscribe == /\ out # <<>> /\ ~closed /\ Head(out).t = "subscribe"
             /\ out' = Tail(out) /\ subscribed' = TRUE
             /\ in' = Append(in, [t |-> "dump", block |-> Block,
                                  im |-> [k \in Dumped |-> ValueAt(k, Block)]])
             /\ UNCHANGED <<writes, stamp, phase, firstMsg, replica, waiting, reader, nextID, pending,
                            closed>>

(* handleClientRequest takes the block and looks into the cache under the  *)
(* lock ...                                                                *)
Lookup == /\ out # <<>> /\ ~closed /\ Head(out).t = "request" /\ stamp = NotYet
          /\ stamp' = Block
          /\ UNCHANGED <<writes, out, in, subscribed, phase, firstMsg, replica, waiting, reader, nextID,
                         pending, closed>>

(* ... and replies without it, maybe blocks later, with the value of that  *)
(* block or, when the node's answer failed, with an error.                 *)
Reply == /\ stamp # NotYet
         /\ out' = Tail(out) /\ stamp' = NotYet
         /\ \E v \in {Zero, ValueAt(Head(out).key, stamp)} :
              in' = Append(in, [t |-> "answer", id |-> Head(out).id, v |-> v])
         /\ UNCHANGED <<writes, subscribed, phase, firstMsg, replica, waiting, reader, nextID, pending,
                        closed>>

\* DialBrowser is open within its time, and ConnectBrowser subscribes.
Open == /\ phase = "dial" /\ ~closed
        /\ phase' = "dump" /\ out' = Append(out, [t |-> "subscribe"])
        /\ UNCHANGED <<writes, in, stamp, subscribed, firstMsg, replica, waiting, reader, nextID,
                       pending, closed>>

\* Thirty seconds without a connection or without the dump.
ConnectTimeout == /\ phase = "dial" \/ (phase = "dump" /\ firstMsg = <<>>)
                  /\ phase' = "failed"
                  /\ UNCHANGED <<in, firstMsg, replica, waiting, reader, nextID, pending, closed>> /\ UNCHANGED chainVars

AnsweredAny(x) == [r \in Readers |-> IF reader[r].pc = "waiting"
                                     THEN [reader[r] EXCEPT !.ch = <<x.v>>] ELSE reader[r]]

\* The caller an answer is for gets it, and nobody else.
Answered(x) == [r \in Readers |-> IF reader[r].pc = "waiting" /\ reader[r].id = x.id /\ x.id \in pending
                                  THEN [reader[r] EXCEPT !.ch = <<x.v>>] ELSE reader[r]]

\* Mutant: every diff that finds firstMsg or the lock taken is dropped.
PushFirst(x) == IF firstMsg = <<>> THEN [first |-> <<x>>, waiting |-> waiting]
                ELSE [first |-> firstMsg,
                      waiting |-> IF phase = "live" /\ waiting = <<>> THEN <<x>> ELSE waiting]

\* Where a block diff goes: to firstMsg if that is empty, else to onPush.
Push(x) == IF firstMsg = <<>> THEN [first |-> <<x>>, waiting |-> waiting]
           ELSE [first |-> firstMsg, waiting |-> IF phase = "live" THEN Append(waiting, x) ELSE waiting]

(* onmessage: a binary frame goes to firstMsg or is dropped, an answer to  *)
(* its caller, a block diff on.                                            *)
onmessage ==
  /\ in # <<>> /\ ~(phase = "dump" /\ firstMsg # <<>>)
  /\ in' = Tail(in)
  /\ LET x == Head(in) IN
       CASE x.t = "dump" ->
              /\ firstMsg' = IF firstMsg = <<>> THEN <<x>> ELSE firstMsg
              /\ UNCHANGED <<waiting, reader, pending>>
         [] x.t = "answer" ->
              /\ reader' = Answered(x) /\ pending' = pending \ {x.id}
              /\ UNCHANGED <<firstMsg, waiting>>
         [] x.t = "diff" ->
              /\ firstMsg' = Push(x).first /\ waiting' = Push(x).waiting
              /\ UNCHANGED <<reader, pending>>
  /\ UNCHANGED <<phase, replica, nextID, closed>> /\ UNCHANGED chainVars

\* The rest of ConnectBrowser once it has the dump.
ConnectBrowser == /\ phase = "dump" /\ firstMsg # <<>>
                  /\ replica' = [block |-> firstMsg[1].block, im |-> firstMsg[1].im, bf |-> Empty]
                  /\ firstMsg' = <<>> /\ phase' = "live"
                  /\ UNCHANGED <<in, waiting, reader, nextID, pending, closed>>
                  /\ UNCHANGED chainVars

\* onclose: every caller that waits is told.
onclose == /\ ~closed /\ phase # "dial"
           /\ closed' = TRUE /\ in' = <<>> /\ out' = <<>> /\ stamp' = NotYet
           /\ UNCHANGED <<writes, subscribed, phase, firstMsg, replica, waiting, reader, nextID,
                          pending>>

Locked(r) == reader[r].pc \in {"reading", "waiting"}

(* HandleBlockDiff: backfill first, then the diff; the metadata.           *)
HandleBlockDiff ==
  /\ waiting # <<>> /\ \A r \in Readers : ~Locked(r)
  /\ LET d == Head(waiting)
     IN replica' = [block |-> d.block, bf |-> Empty,
                    im |-> Over([k \in d.keys |-> ValueAt(k, d.block)], Over(replica.bf, replica.im))]
  /\ waiting' = Tail(waiting)
  /\ UNCHANGED <<in, phase, firstMsg, reader, nextID, pending, closed>>
  /\ UNCHANGED chainVars

\* quote or ethCall takes the read lock, which a waiting block update holds up.
RLock(r, kind) == /\ phase = "live" /\ reader[r].pc = "idle" /\ waiting = <<>>
                  /\ reader' = [reader EXCEPT ![r].pc = "reading", ![r].kind = kind]
                  /\ UNCHANGED <<in, phase, firstMsg, replica, waiting, nextID, pending, closed>> /\ UNCHANGED chainVars

\* The id of the next request.
NewID == nextID + 1

\* A read that neither layer answers: Call sends a request.
Call(r, k) == /\ reader[r].pc = "reading" /\ k \notin DOMAIN replica.im \union DOMAIN replica.bf
              /\ ~closed /\ nextID < MaxCalls
              /\ nextID' = NewID /\ pending' = pending \union {NewID}
              /\ out' = Append(out, [t |-> "request", id |-> NewID, key |-> k])
              /\ reader' = [reader EXCEPT ![r].pc = "waiting", ![r].key = k, ![r].id = NewID]
              /\ UNCHANGED <<writes, stamp, subscribed, in, phase, firstMsg, replica, waiting, closed>>

(* The answer is stored as backfill; a missing result, the answer to a     *)
(* request that failed, decodes to zero and is stored as well.             *)
Return(r) == /\ reader[r].pc = "waiting" /\ reader[r].ch # <<>>
             /\ reader' = [reader EXCEPT ![r].pc = "reading", ![r].ch = <<>>]
             /\ replica' = [replica EXCEPT !.bf = Over([k \in {reader[r].key} |-> reader[r].ch[1]], @)]
             /\ UNCHANGED <<in, phase, firstMsg, waiting, nextID, pending, closed>>
             /\ UNCHANGED chainVars

GiveUpClosed(r) == /\ closed /\ reader[r].pc = "waiting" /\ reader[r].ch = <<>>
                   /\ reader' = [reader EXCEPT ![r].pc = "reading"]
                   /\ pending' = IF closed THEN pending ELSE pending \ {reader[r].id}
                   /\ UNCHANGED <<in, phase, firstMsg, replica, waiting, nextID, closed>>
                   /\ UNCHANGED chainVars

\* Thirty seconds without an answer, or the socket has closed: an error, nothing is stored.
GiveUp(r) == /\ reader[r].pc = "waiting" /\ reader[r].ch = <<>>
             /\ reader' = [reader EXCEPT ![r].pc = "reading"]
             /\ pending' = IF closed THEN pending ELSE pending \ {reader[r].id}
             /\ UNCHANGED <<in, phase, firstMsg, replica, waiting, nextID, closed>>
             /\ UNCHANGED chainVars

(* An ethCall runs on the replica itself: what it writes is backfill.      *)
SetState(r, k) == /\ reader[r].pc = "reading" /\ reader[r].kind = "ethCall"
                  /\ replica' = [replica EXCEPT !.bf = Over([q \in {k} |-> Local], @)]
                  /\ UNCHANGED <<in, phase, firstMsg, waiting, reader, nextID, pending, closed>>
                  /\ UNCHANGED chainVars

RUnlock(r) == /\ reader[r].pc = "reading"
              /\ reader' = [reader EXCEPT ![r] = Idle]
              /\ UNCHANGED <<in, phase, firstMsg, replica, waiting, nextID, pending, closed>> /\ UNCHANGED chainVars

Next == \/ \E ks \in BlockWrites : Mine(ks)
        \/ Subscribe \/ Lookup \/ Reply \/ Open \/ ConnectTimeout \/ onmessage \/ ConnectBrowser \/ onclose
        \/ HandleBlockDiff
        \/ \E r \in Readers : \/ \E kind \in {"quote", "ethCall"} : RLock(r, kind)
                              \/ \E k \in Keys : Call(r, k) \/ SetState(r, k)
                              \/ Return(r) \/ GiveUp(r) \/ RUnlock(r)

(* Goroutines run and timers fire.  Nothing is assumed of the server or    *)
(* the network.                                                            *)
Spec == /\ Init /\ [][Next]_vars
        /\ WF_vars(onmessage) /\ WF_vars(ConnectBrowser) /\ WF_vars(HandleBlockDiff)
        /\ \A r \in Readers : WF_vars(Return(r) \/ GiveUp(r)) /\ WF_vars(RUnlock(r))
-----------------------------------------------------------------------------
View(k) == IF k \in DOMAIN replica.im THEN replica.im[k] ELSE replica.bf[k]
Current(k) == \E b \in replica.block..Block : View(k) = ValueAt(k, b)
Swallowed == {k \in Keys : phase = "live" /\ firstMsg # <<>> /\ k \in firstMsg[1].keys}

(* The replica is wrong about a key only when the block diff that ended up *)
(* in firstMsg wrote it, when a failed fetch was taken for zero, or when   *)
(* an ethCall wrote it; in particular no late answer, timeout or diff that *)
(* waits for the lock puts an outdated value into it.                      *)
WrongOnlyWhere ==
  \A k \in DOMAIN replica.im \union DOMAIN replica.bf :
    Current(k) \/ k \in Swallowed \/ View(k) \in {Zero, Local}

(* Once the first block diff is in firstMsg, no later one is lost: with    *)
(* nothing under way the replica is at the block of the chain.             *)
OnlyFirstLost ==
  phase = "live" /\ in = <<>> /\ waiting = <<>> /\ ~closed /\ firstMsg # <<>>
    => firstMsg[1].block = Block \/ replica.block = Block

(* Every quote and ethCall ends and every diff at the lock is applied,     *)
(* whatever server and network do.                                         *)
NobodyHangs == /\ \A r \in Readers : reader[r].pc # "idle" ~> reader[r].pc = "idle"
               /\ waiting # <<>> ~> waiting = <<>>

=============================================================================
