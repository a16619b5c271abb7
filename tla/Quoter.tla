------------------------------- MODULE Quoter --------------------------------
(***************************************************************************)
(* quoter/quoter.go: LiveState applies a block under the write lock and    *)
(* hands the changed slots to a channel; the block loop takes them from    *)
(* there, invalidates pools without any lock, and calls onBlock, which may *)
(* quote.  Other goroutines (the HTTP handlers) quote under the read lock  *)
(* at any time.  The arbitrage programs are the case Proc = {Loop}: they   *)
(* quote in the loop itself.                                               *)
(***************************************************************************)
EXTENDS PoolManager

CONSTANTS
    Loop,           \* the block loop's goroutine
    EvmSlot,        \* slots the EVM reads when a route is verified
    QueueCap,       \* capacity of blockCh
    MaxBlock        \* bound: blocks applied

ASSUME QuoterAssumption ==
    /\ Loop \in Proc
    /\ EvmSlot \subseteq Slot
    /\ QueueCap \in Nat \ {0}
    /\ MaxBlock \in Nat

VARIABLES
    block,          \* ls.Block()
    clock,          \* ls.Timestamp()
    applied,        \* the event of a block whose update still holds the write lock
    readers,        \* processes that hold the read lock
    blockCh,        \* block events on their way to the loop
    loop,           \* where the block loop is
    overlay,        \* backfill of stateWithOverrides: slots the EVM has read
    listening,      \* ls.onBlock is set
    lost            \* history: blocks whose event did not get into blockCh

lsVars == <<state, block, clock, applied, readers, blockCh, listening, lost>>
vars == <<state, pools, depSlots, quoteCaches, balanceCache, blockTimestamp, raced, call,
          block, clock, applied, readers, blockCh, loop, overlay, listening, lost>>

Event == [block : Nat, time : Nat, slots : SUBSET Slot]

Loops ==
    [pc : {"wait", "slots", "pools", "clean", "callback"}, event : Event,
     victims : SUBSET Pool, pool : Pool \cup {Absent}]

NoEvent == [block |-> 0, time |-> 0, slots |-> {}]
Waiting == [pc |-> "wait", event |-> NoEvent, victims |-> {}, pool |-> Absent]

Init ==
    /\ state = [s \in Slot |-> 0]
    /\ blockTimestamp = 0
    /\ PMInit
    /\ block = 0
    /\ clock = 0
    /\ applied = {}
    /\ readers = {}
    /\ blockCh = <<>>
    /\ loop = Waiting
    /\ overlay = [s \in Slot |-> Absent]
    /\ listening = FALSE
    /\ lost = {}

-----------------------------------------------------------------------------
(***************************************************************************)
(* LiveState: handlePushMessage under blockMu.Lock, its callback last.     *)
(***************************************************************************)
ApplyBlock(slots, time) ==
    /\ applied = {}
    /\ readers = {}
    /\ block < MaxBlock
    /\ block' = block + 1
    /\ clock' = time
    /\ state' = [s \in Slot |-> IF s \in slots THEN block + 1 ELSE state[s]]
    /\ applied' = {[block |-> block + 1, time |-> time, slots |-> slots]}
    /\ UNCHANGED <<pmVars, call, readers, blockCh, loop, overlay, listening, lost>>

\* Mutant: the callback waits for room in the channel.
NotifyBlocking ==
    \E e \in applied :
       /\ IF listening
          THEN Len(blockCh) < QueueCap /\ blockCh' = Append(blockCh, e) /\ UNCHANGED lost
          ELSE lost' = lost \cup {e.block} /\ UNCHANGED blockCh
       /\ applied' = {}
       /\ UNCHANGED <<state, pmVars, call, block, clock, readers, loop, overlay, listening>>

\* The callback, if there is one yet, never waits: an event that finds the
\* channel full is dropped.
Notify ==
    \E e \in applied :
       /\ IF listening /\ Len(blockCh) < QueueCap
          THEN blockCh' = Append(blockCh, e) /\ UNCHANGED lost
          ELSE lost' = lost \cup {e.block} /\ UNCHANGED blockCh
       /\ applied' = {}
       /\ UNCHANGED <<state, pmVars, call, block, clock, readers, loop, overlay, listening>>

-----------------------------------------------------------------------------
(***************************************************************************)
(* StartBlockLoop: SetOnBlock takes the write lock; then the goroutine     *)
(* runs.  The entries of an event come in any order.                       *)
(***************************************************************************)
StartBlockLoop ==
    /\ ~listening
    /\ applied = {}
    /\ readers = {}
    /\ listening' = TRUE
    /\ UNCHANGED <<state, block, clock, applied, readers, blockCh, lost>>
    /\ UNCHANGED <<pmVars, call, loop, overlay>>

TakeEvent ==
    /\ loop.pc = "wait"
    /\ blockCh # <<>>
    /\ SetBlockTimestamp(Head(blockCh).time)
    /\ blockCh' = Tail(blockCh)
    /\ loop' = [loop EXCEPT !.pc = "slots", !.event = Head(blockCh)]
    /\ UNCHANGED <<state, call, block, clock, applied, readers, overlay, listening, lost>>

InvalidateBySlot(s) ==
    /\ loop.pc = "slots"
    /\ s \in loop.event.slots
    /\ loop' = [loop EXCEPT !.event.slots = @ \ {s}, !.pc = "pools",
                            !.victims = {p \in Pool : <<s, p>> \in depSlots}]
    /\ UNCHANGED <<lsVars, pmVars, call, overlay>>

InvalidatePool(p) ==
    /\ loop.pc = "pools"
    /\ p \in loop.victims
    /\ Invalidate(p)
    /\ loop' = [loop EXCEPT !.victims = @ \ {p}, !.pc = "clean", !.pool = p]
    /\ UNCHANGED <<lsVars, call, overlay>>

InvalidatePoolDeps ==
    /\ loop.pc = "clean"
    /\ CleanDeps(loop.pool)
    /\ loop' = [loop EXCEPT !.pc = "pools", !.pool = Absent]
    /\ UNCHANGED <<lsVars, call, overlay>>

SlotDone ==
    /\ loop.pc = "pools"
    /\ loop.victims = {}
    /\ loop' = [loop EXCEPT !.pc = "slots"]
    /\ UNCHANGED <<lsVars, pmVars, call, overlay>>

\* The callback quotes, under the read lock, or it does not.
OnBlock ==
    /\ loop.pc = "slots"
    /\ loop.event.slots = {}
    /\ \/ loop' = [loop EXCEPT !.pc = "callback"]
       \/ loop' = Waiting
    /\ UNCHANGED <<lsVars, pmVars, call, overlay>>

LoopStep ==
    \/ TakeEvent
    \/ \E s \in Slot : InvalidateBySlot(s)
    \/ \E p \in Pool : InvalidatePool(p)
    \/ InvalidatePoolDeps \/ SlotDone \/ OnBlock

-----------------------------------------------------------------------------
(***************************************************************************)
(* Quoter.Quote: pool quotes and EVM verification under the read lock.     *)
(***************************************************************************)
RLock(t) ==
    /\ t \notin readers
    /\ applied = {}
    /\ t = Loop => loop.pc = "callback"
    /\ readers' = readers \cup {t}
    /\ UNCHANGED <<state, pmVars, call, block, clock, applied, blockCh, loop, overlay, listening, lost>>

QuotePool(t) ==
    /\ t \in readers
    /\ QuoteStep(t)
    /\ UNCHANGED <<lsVars, loop, overlay>>

\* The EVM reads slot s through stateWithOverrides, which keeps what it reads.
Verify(t, s) ==
    /\ t \in readers
    /\ call[t].pc = "ready"
    /\ overlay[s] = Absent
    /\ overlay' = [overlay EXCEPT ![s] = state[s]]
    /\ UNCHANGED <<lsVars, pmVars, call, loop>>

RUnlock(t) ==
    /\ t \in readers
    /\ call[t].pc = "ready"
    /\ readers' = readers \ {t}
    /\ loop' = IF t = Loop THEN Waiting ELSE loop
    /\ UNCHANGED <<state, pmVars, call, block, clock, applied, blockCh, overlay, listening, lost>>

Next ==
    \/ \E slots \in SUBSET Slot \ {{}}, time \in {clock, clock + 1} : ApplyBlock(slots, time)
    \/ Notify
    \/ StartBlockLoop
    \/ LoopStep
    \/ \E t \in Proc : \/ RLock(t) \/ QuotePool(t) \/ RUnlock(t)
                       \/ \E s \in EvmSlot : Verify(t, s)

Spec == Init /\ [][Next]_vars

(***************************************************************************)
(* Goroutines that can go on do; a quote makes finitely many pool quotes   *)
(* before it unlocks; and blockMu lets a waiting reader in in the end.     *)
(***************************************************************************)
Fairness ==
    /\ WF_vars(Notify)
    /\ WF_vars(LoopStep)
    /\ SF_vars(RLock(Loop))
    /\ \A t \in Proc : WF_vars(QuotePool(t)) /\ SF_vars(RUnlock(t))

LiveSpec == Spec /\ Fairness

-----------------------------------------------------------------------------
TypeOK ==
    /\ state \in [Slot -> Nat]
    /\ pools \in [Pool -> Quoters \cup {Absent}]
    /\ depSlots \subseteq Slot \X Pool
    /\ quoteCaches \in [Pool -> Quotes \cup {Absent}]
    /\ balanceCache \in [Pool -> Nat \cup {Absent}]
    /\ blockTimestamp \in Nat
    /\ call \in [Proc -> Calls]
    /\ \A t \in Proc : call[t].pc # "ready" => call[t].pool \in Pool
    /\ block \in Nat
    /\ clock \in Nat
    /\ applied \subseteq Event /\ \A e, f \in applied : e = f
    /\ readers \subseteq Proc
    /\ blockCh \in Seq(Event) /\ Len(blockCh) <= QueueCap
    /\ loop \in Loops
    /\ overlay \in [Slot -> Nat \cup {Absent}]
    /\ listening \in BOOLEAN
    /\ lost \subseteq Nat
    /\ raced \subseteq Pool

(***************************************************************************)
(* A quoter in the pool cache is registered for every slot it was built    *)
(* from, so that InvalidateBySlot will find it, also when several pools    *)
(* share a slot; but not if another goroutine built it between the halves  *)
(* of Invalidate, or had it in hand then.                                  *)
(***************************************************************************)
DepsComplete ==
    \A p \in Pool \ raced : Built(p) => Deps[p] \X {p} \subseteq depSlots

\* The last write of s has not been used to invalidate pool p yet.
InvalidationPending(s, p) ==
    \/ \E e \in applied : s \in e.slots
    \/ \E i \in 1..Len(blockCh) : s \in blockCh[i].slots
    \/ s \in loop.event.slots
    \/ p \in loop.victims

\* Quoter q of pool p was built from old slots only if they are still to be
\* invalidated, or the event that would have done it was dropped.
StaleOnlyWhilePending(q, p) ==
    \A s \in Deps[p] : ~q.zero /\ q.vals[s] # state[s] =>
        InvalidationPending(s, p) \/ state[s] \in lost

(***************************************************************************)
(* No quoter and no cached quote outlives a block that changed its slots:  *)
(* once the loop has processed the events, nothing stale is left but for   *)
(* events that were dropped or came before StartBlockLoop, and for pools   *)
(* another goroutine had in hand while they were invalidated.              *)
(***************************************************************************)
StaleUntilInvalidated ==
    \A p \in Pool \ raced :
        /\ pools[p] # Absent => StaleOnlyWhilePending(pools[p], p)
        /\ quoteCaches[p] # Absent => StaleOnlyWhilePending(quoteCaches[p].q, p)

(***************************************************************************)
(* Quoters of LFJ V2 pools, and the quotes cached for them, are at the     *)
(* time PoolManager is at: SetBlockTimestamp updates the struct in place   *)
(* and flushes the quotes; again but for pools another goroutine had in    *)
(* hand.                                                                   *)
(***************************************************************************)
TimesInSync ==
    \A p \in Timed \ (Hidden \cup raced) :
        /\ Built(p) => pools[p].time = blockTimestamp
        /\ quoteCaches[p] # Absent /\ ~quoteCaches[p].q.zero =>
             quoteCaches[p].q.time = blockTimestamp

(***************************************************************************)
(* Nobody waits for ever: a block update, which holds the write lock, ends *)
(* whatever the channel holds, and the loop's callback, which takes the    *)
(* read lock while updates take the write lock, gets back to the channel.  *)
(***************************************************************************)
LoopAndUpdatesReturn ==
    /\ applied # {} ~> applied = {}
    /\ loop.pc = "callback" ~> loop.pc = "wait"

=============================================================================
