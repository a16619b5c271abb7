---------------------------- MODULE QuoterProofs -----------------------------
(***************************************************************************)
(* Whatever goroutines quote beside the block loop, the caches of          *)
(* PoolManager hold nothing stale but for dropped events and for the pools *)
(* that a goroutine had in hand while the loop invalidated them: for any   *)
(* pools, slots, shared dependencies, blocks and goroutines.               *)
(***************************************************************************)
EXTENDS Quoter, TLAPS

USE DEF pmVars, lsVars

-----------------------------------------------------------------------------
(***************************************************************************)
(* Types.                                                                  *)
(***************************************************************************)
PMTypes ==
    /\ pools \in [Pool -> Quoters \cup {Absent}]
    /\ depSlots \subseteq Slot \X Pool
    /\ quoteCaches \in [Pool -> Quotes \cup {Absent}]
    /\ balanceCache \in [Pool -> Nat \cup {Absent}]
    /\ blockTimestamp \in Nat
    /\ raced \subseteq Pool

CallTypes ==
    /\ call \in [Proc -> Calls]
    /\ \A t \in Proc : call[t].pc # "ready" => call[t].pool \in Pool

LSTypes ==
    /\ state \in [Slot -> Nat]
    /\ block \in Nat
    /\ clock \in Nat
    /\ applied \subseteq Event
    /\ \A e, f \in applied : e = f
    /\ readers \subseteq Proc
    /\ blockCh \in Seq(Event)
    /\ Len(blockCh) <= QueueCap
    /\ lost \subseteq Nat

OtherTypes ==
    /\ listening \in BOOLEAN /\ loop \in Loops /\ overlay \in [Slot -> Nat \cup {Absent}]
    /\ loop.pc = "clean" => loop.pool \in Pool

AllTypes == PMTypes /\ CallTypes /\ LSTypes /\ OtherTypes

LEMMA QuoterTypes ==
    Zero \in Quoters /\ Zero.zero /\ Ready \in Calls /\ Waiting \in Loops /\ Waiting.pc = "wait"
BY DEF Zero, Quoters, Ready, Calls, Waiting, Loops, Event, NoEvent

LEMMA FormulaType ==
    ASSUME state \in [Slot -> Nat], blockTimestamp \in Nat, NEW p \in Pool
    PROVE  Formula(p) \in Quoters /\ ~Formula(p).zero
BY PoolManagerAssumption DEF Formula, Quoters

LEMMA RetimedType ==
    ASSUME NEW q \in Quoters, NEW ts \in Nat
    PROVE  [q EXCEPT !.time = ts] \in Quoters
BY DEF Quoters

LEMMA InitAllTypes == Init => AllTypes
<1> SUFFICES ASSUME Init PROVE AllTypes
  OBVIOUS
<1>1. state \in [Slot -> Nat] /\ blockTimestamp \in Nat
  BY DEF Init
<1>2. pools \in [Pool -> Quoters \cup {Absent}]
  <2>1. \A p \in Pool : Formula(p) \in Quoters
    BY <1>1, FormulaType
  <2> QED
    BY <2>1, QuoterTypes DEF Init, PMInit
<1>3. PMTypes /\ CallTypes
  BY <1>1, <1>2, QuoterTypes DEF Init, PMInit, PMTypes, CallTypes, Ready
<1>4. listening \in BOOLEAN
  BY DEF Init
<1>5. LSTypes /\ overlay \in [Slot -> Nat \cup {Absent}]
  BY QuoterAssumption DEF Init, LSTypes
<1>6. loop \in Loops /\ loop.pc = "wait"
  BY QuoterTypes DEF Init
<1> QED
  BY <1>3, <1>4, <1>5, <1>6 DEF AllTypes, OtherTypes

LEMMA QuoteTypes ==
    ASSUME PMTypes, CallTypes, LSTypes, NEW t \in Proc, QuoteStep(t)
    PROVE  PMTypes' /\ CallTypes'
<1>1. ASSUME NEW p \in Pool, Lookup(t, p) PROVE PMTypes' /\ CallTypes'
  <2>1. quoteCaches[p] # Absent => quoteCaches[p].q \in Quoters /\ quoteCaches[p].bal \in Nat \cup {Absent}
    BY DEF PMTypes, Quotes
  <2>2. ASSUME NEW c \in Calls, c.pool \in Pool, call' = [call EXCEPT ![t] = c]
        PROVE  CallTypes'
    BY <2>2 DEF CallTypes
  <2>3. CASE quoteCaches[p] = Absent
    <3> DEFINE c == [pc |-> "get", pool |-> p, q |-> Zero, bal |-> Absent]
    <3>1. c \in Calls /\ c.pool \in Pool
      BY QuoterTypes DEF Calls
    <3>2. call' = [call EXCEPT ![t] = c]
      BY <1>1, <2>3 DEF Lookup
    <3> QED
      BY <3>1, <3>2, <2>2, <1>1 DEF Lookup, PMTypes
  <2>4. CASE quoteCaches[p] # Absent
    <3> DEFINE c == [pc |-> "return", pool |-> p, q |-> quoteCaches[p].q, bal |-> quoteCaches[p].bal]
    <3>1. c \in Calls /\ c.pool \in Pool
      BY <2>1, <2>4 DEF Calls
    <3>2. call' = [call EXCEPT ![t] = c]
      BY <1>1, <2>4 DEF Lookup
    <3> QED
      BY <3>1, <3>2, <2>2, <1>1 DEF Lookup, PMTypes
  <2> QED
    BY <2>3, <2>4
<1>2. ASSUME NEW q \in Quoters, call[t].pc # "ready", Got(t, q) PROVE CallTypes'
  BY <1>2 DEF Got, CallTypes, Calls
<1>3. CASE Get(t)
  <2>1. call[t].pool \in Pool /\ call[t].pc # "ready"
    BY <1>3 DEF Get, CallTypes
  <2>2. CallTypes'
    BY <1>2, <1>3, <2>1, QuoterTypes DEF Get, PMTypes
  <2>3. PMTypes'
    BY <1>3, <2>1, QuoterTypes DEF Get, PMTypes
  <2> QED
    BY <2>2, <2>3
<1>4. CASE Build(t)
  <2>1. call[t].pool \in Pool
    BY <1>4 DEF Build, CallTypes
  <2>2. Formula(call[t].pool) \in Quoters
    BY <2>1, FormulaType DEF PMTypes, LSTypes
  <2>3. CallTypes'
    <3>1. PICK q \in Quoters : call' = [call EXCEPT ![t].pc = "publish", ![t].q = q]
      BY <1>4, <2>2 DEF Build
    <3> QED
      BY <3>1, <2>1 DEF CallTypes, Calls
  <2>4. Deps[call[t].pool] \X {call[t].pool} \subseteq Slot \X Pool
    BY <2>1, PoolManagerAssumption
  <2>5. PMTypes'
    BY <1>4, <2>4 DEF Build, Register, PMTypes
  <2> QED
    BY <2>3, <2>5
<1>5. CASE Publish(t)
  <2>1. call[t].pool \in Pool /\ call[t].q \in Quoters /\ call[t].pc # "ready"
    BY <1>5 DEF Publish, CallTypes, Calls
  <2> QED
    BY <1>2, <1>5, <2>1 DEF Publish, PMTypes
<1>6. CASE GetZero(t)
  <2>1. call' = [call EXCEPT ![t].pc = "publish", ![t].q = Zero] /\ call[t].pc = "get"
    BY <1>6 DEF GetZero
  <2>2. CallTypes'
    BY <2>1, QuoterTypes DEF CallTypes, Calls
  <2> QED
    BY <1>6, <2>2 DEF GetZero, PMTypes
<1>7. CASE Cap(t)
  <2>1. call[t].pool \in Pool
    BY <1>7 DEF Cap, CallTypes
  <2>2. state[BalanceSlot[call[t].pool]] \in Nat
    BY <2>1, PoolManagerAssumption DEF LSTypes
  <2>3. balanceCache[call[t].pool] # Absent => balanceCache[call[t].pool] \in Nat
    BY <2>1 DEF PMTypes
  <2>4. CallTypes'
    BY <1>7, <2>1, <2>2, <2>3 DEF Cap, CallTypes, Calls
  <2>5. PMTypes'
    BY <1>7, <2>1, <2>2, <2>3 DEF Cap, PMTypes
  <2> QED
    BY <2>4, <2>5
<1>8. CASE Store(t)
  <2>1. call[t].pool \in Pool /\ [q |-> call[t].q, bal |-> call[t].bal] \in Quotes
    BY <1>8 DEF Store, CallTypes, Calls, Quotes
  <2>2. CallTypes'
    BY <1>8, <2>1 DEF Store, CallTypes, Calls
  <2>3. PMTypes'
    BY <1>8, <2>1 DEF Store, PMTypes
  <2> QED
    BY <2>2, <2>3
<1>9. CASE Return(t)
  <2>1. CallTypes'
    BY <1>9, QuoterTypes DEF Return, CallTypes, Ready
  <2> QED
    BY <1>9, <2>1 DEF Return, PMTypes
<1> QED
  BY <1>1, <1>3, <1>4, <1>5, <1>6, <1>7, <1>8, <1>9 DEF QuoteStep

LEMMA LoopTypes ==
    ASSUME AllTypes, LoopStep
    PROVE  AllTypes'
<1> USE DEF AllTypes, OtherTypes
<1>1. CASE TakeEvent
  <2>1. /\ Head(blockCh) \in Event /\ Tail(blockCh) \in Seq(Event)
        /\ Len(Tail(blockCh)) <= QueueCap
    BY <1>1, QuoterAssumption DEF TakeEvent, LSTypes
  <2>2. Head(blockCh).time \in Nat
    BY <2>1 DEF Event
  <2>3. \A p \in Retimed : [pools[p] EXCEPT !.time = Head(blockCh).time] \in Quoters
    <3>1. \A p \in Retimed : pools[p] \in Quoters
      BY PoolManagerAssumption DEF Retimed, PMTypes
    <3> QED
      BY <3>1, <2>2, RetimedType
  <2>4. PMTypes'
    <3>1. raced' \subseteq Pool
      BY <1>1, PoolManagerAssumption DEF TakeEvent, SetBlockTimestamp, PMTypes
    <3> QED
      BY <1>1, <2>2, <2>3, <3>1 DEF TakeEvent, SetBlockTimestamp, PMTypes
  <2>5. loop' \in Loops /\ loop'.pc = "slots"
    BY <1>1, <2>1 DEF TakeEvent, Loops
  <2>6. LSTypes'
    BY <1>1, <2>1 DEF TakeEvent, LSTypes
  <2>7. CallTypes' /\ listening' \in BOOLEAN /\ overlay' \in [Slot -> Nat \cup {Absent}]
    BY <1>1 DEF TakeEvent, CallTypes
  <2> QED
    BY <2>4, <2>5, <2>6, <2>7
<1>2. ASSUME UNCHANGED <<state, block, clock, applied, readers, blockCh, listening, lost, call, overlay>>,
             PMTypes', loop' \in Loops, loop'.pc = "clean" => loop'.pool \in Pool
      PROVE  AllTypes'
  <2>1. LSTypes' /\ CallTypes'
    BY <1>2 DEF LSTypes, CallTypes
  <2> QED
    BY <1>2, <2>1
<1>3. ASSUME NEW s \in Slot, InvalidateBySlot(s) PROVE AllTypes'
  <2>1. loop' \in Loops /\ loop'.pc # "clean"
    BY <1>3 DEF InvalidateBySlot, Loops, Event
  <2>2. PMTypes'
    BY <1>3 DEF InvalidateBySlot, PMTypes
  <2> QED
    BY <1>2, <1>3, <2>1, <2>2 DEF InvalidateBySlot
<1>4. ASSUME NEW p \in Pool, InvalidatePool(p) PROVE AllTypes'
  <2>1. loop' \in Loops /\ loop'.pool = p
    BY <1>4 DEF InvalidatePool, Loops
  <2>2. PMTypes'
    BY <1>4 DEF InvalidatePool, Invalidate, PMTypes
  <2> QED
    BY <1>2, <1>4, <2>1, <2>2 DEF InvalidatePool
<1>5. CASE InvalidatePoolDeps
  <2>1. loop' \in Loops /\ loop'.pc # "clean"
    BY <1>5 DEF InvalidatePoolDeps, Loops
  <2>2. PMTypes'
    BY <1>5 DEF InvalidatePoolDeps, CleanDeps, PMTypes
  <2> QED
    BY <1>2, <1>5, <2>1, <2>2 DEF InvalidatePoolDeps
<1>6. CASE SlotDone
  <2>1. loop' \in Loops /\ loop'.pc # "clean" /\ PMTypes'
    BY <1>6 DEF SlotDone, Loops, PMTypes
  <2> QED
    BY <1>2, <1>6, <2>1 DEF SlotDone
<1>7. CASE OnBlock
  <2>1. loop' \in Loops /\ loop'.pc # "clean" /\ PMTypes'
    BY <1>7, QuoterTypes DEF OnBlock, Loops, PMTypes
  <2> QED
    BY <1>2, <1>7, <2>1 DEF OnBlock
<1> QED
  BY <1>1, <1>3, <1>4, <1>5, <1>6, <1>7 DEF LoopStep

LEMMA NextAllTypes == AllTypes /\ [Next]_vars => AllTypes'
<1> SUFFICES ASSUME AllTypes, [Next]_vars PROVE AllTypes'
  OBVIOUS
<1> USE DEF AllTypes, OtherTypes
<1>1. ASSUME NEW slots \in SUBSET Slot, NEW time \in {clock, clock + 1}, ApplyBlock(slots, time)
      PROVE  AllTypes'
  <2>1. time \in Nat
    BY DEF LSTypes
  <2>2. LSTypes'
    BY <1>1, <2>1 DEF ApplyBlock, LSTypes, Event
  <2>3. PMTypes' /\ CallTypes' /\ OtherTypes'
    BY <1>1 DEF ApplyBlock, PMTypes, CallTypes
  <2> QED
    BY <2>2, <2>3
<1>2. CASE Notify
  <2>1. PICK e \in applied :
           /\ IF listening /\ Len(blockCh) < QueueCap
              THEN blockCh' = Append(blockCh, e) /\ UNCHANGED lost
              ELSE lost' = lost \cup {e.block} /\ UNCHANGED blockCh
           /\ applied' = {}
           /\ UNCHANGED <<state, pmVars, call, block, clock, readers, loop, overlay, listening>>
    BY <1>2 DEF Notify
  <2>2. e \in Event /\ e.block \in Nat
    BY DEF LSTypes, Event
  <2>3. blockCh' \in Seq(Event) /\ Len(blockCh') <= QueueCap /\ lost' \subseteq Nat
    <3>1. CASE blockCh' = Append(blockCh, e) /\ UNCHANGED lost /\ Len(blockCh) < QueueCap
      BY <3>1, <2>2, QuoterAssumption DEF LSTypes
    <3>2. CASE lost' = lost \cup {e.block} /\ UNCHANGED blockCh
      BY <3>2, <2>2 DEF LSTypes
    <3> QED
      BY <3>1, <3>2, <2>1
  <2>4. LSTypes'
    BY <2>1, <2>3 DEF LSTypes
  <2>5. PMTypes' /\ CallTypes' /\ OtherTypes'
    BY <2>1 DEF PMTypes, CallTypes
  <2> QED
    BY <2>4, <2>5
<1>3. CASE StartBlockLoop
  <2>1. listening' \in BOOLEAN
    BY <1>3 DEF StartBlockLoop
  <2>2. LSTypes' /\ PMTypes' /\ CallTypes'
    BY <1>3 DEF StartBlockLoop, LSTypes, PMTypes, CallTypes
  <2>3. loop' = loop /\ overlay' \in [Slot -> Nat \cup {Absent}]
    BY <1>3 DEF StartBlockLoop
  <2> QED
    BY <2>1, <2>2, <2>3
<1>4. CASE LoopStep
  BY <1>4, LoopTypes
<1>5. ASSUME NEW t \in Proc, RLock(t) PROVE AllTypes'
  <2>1. LSTypes' /\ PMTypes' /\ CallTypes'
    BY <1>5 DEF RLock, LSTypes, PMTypes, CallTypes
  <2> QED
    BY <1>5, <2>1 DEF RLock
<1>6. ASSUME NEW t \in Proc, QuotePool(t) PROVE AllTypes'
  <2>1. PMTypes' /\ CallTypes'
    BY <1>6, QuoteTypes DEF QuotePool
  <2>2. LSTypes'
    BY <1>6 DEF QuotePool, LSTypes
  <2> QED
    BY <1>6, <2>1, <2>2 DEF QuotePool
<1>7. ASSUME NEW t \in Proc, NEW s \in EvmSlot, Verify(t, s) PROVE AllTypes'
  <2>1. s \in Slot /\ state[s] \in Nat
    BY QuoterAssumption DEF LSTypes
  <2>2. LSTypes' /\ PMTypes' /\ CallTypes'
    BY <1>7 DEF Verify, LSTypes, PMTypes, CallTypes
  <2>3. overlay' \in [Slot -> Nat \cup {Absent}]
    BY <1>7, <2>1 DEF Verify
  <2> QED
    BY <1>7, <2>2, <2>3 DEF Verify
<1>8. ASSUME NEW t \in Proc, RUnlock(t) PROVE AllTypes'
  <2>1. LSTypes' /\ PMTypes' /\ CallTypes'
    BY <1>8 DEF RUnlock, LSTypes, PMTypes, CallTypes
  <2>2. loop' \in Loops /\ (loop'.pc = "clean" => loop'.pool \in Pool)
    BY <1>8, QuoterTypes DEF RUnlock
  <2> QED
    BY <1>8, <2>1, <2>2 DEF RUnlock
<1>9. CASE UNCHANGED vars
  BY <1>9 DEF vars, PMTypes, CallTypes, LSTypes
<1> QED
  BY <1>1, <1>2, <1>3, <1>4, <1>5, <1>6, <1>7, <1>8, <1>9 DEF Next

(***************************************************************************)
(* Whatever blocks come and whatever quotes run beside them, the channel   *)
(* keeps within its capacity and the caches hold quoters and quotes.       *)
(***************************************************************************)
THEOREM QuoterTypeCorrect == Spec => []TypeOK
<1>1. AllTypes => TypeOK
  BY DEF AllTypes, PMTypes, CallTypes, LSTypes, OtherTypes, TypeOK
<1> QED
  BY <1>1, InitAllTypes, NextAllTypes, PTL DEF Spec

-----------------------------------------------------------------------------
(***************************************************************************)
(* The inductive invariant.                                                *)
(***************************************************************************)

\* Quotes run under the read lock, the loop's own in its callback only.
Locks ==
    /\ \A t \in Proc : call[t].pc # "ready" => t \in readers
    /\ readers # {} => applied = {}
    /\ Loop \in readers => loop.pc = "callback"

\* What is left of an event, by where the loop is.
LoopPhase ==
    /\ loop.pc \in {"wait", "callback"} => loop.event.slots = {}
    /\ loop.pc \notin {"pools", "clean"} => loop.victims = {}

\* The event that waits for the callback is about the last block.
AppliedIsLast == \A e \in applied : \A s \in e.slots : state[s] = e.block

\* What may be in use for pool p.
GoodFor(p) ==
    {q \in Quoters :
        /\ StaleOnlyWhilePending(q, p)
        /\ ~q.zero => /\ Deps[p] \X {p} \subseteq depSlots
                      /\ p \in Timed \ Hidden => q.time = blockTimestamp}

\* The quoters that quotes of p were or are being computed from.
Used(p) ==
    {q \in Quoters :
        \/ quoteCaches[p] # Absent /\ q = quoteCaches[p].q
        \/ \E t \in Proc : call[t].pool = p /\ call[t].pc \in {"cap", "store"} /\ q = call[t].q}

\* All quoters of p there are.
Held(p) ==
    Used(p) \cup {q \in Quoters :
        \/ q = pools[p]
        \/ \E t \in Proc : call[t].pool = p /\ call[t].pc = "publish" /\ q = call[t].q}

HeldGood == \A p \in Pool \ raced : Held(p) \subseteq GoodFor(p)

\* What is used of a pool was published, and its quoter is still there.
UsedBuilt == \A p \in Pool \ raced : (\E q \in Used(p) : ~q.zero) => Built(p)

QuoterInv == Locks /\ LoopPhase /\ AppliedIsLast /\ HeldGood /\ UsedBuilt

\* A zeroQuoter is never stale.
LEMMA ZeroGood == \A p \in Pool, q \in Quoters : q.zero => q \in GoodFor(p)
BY DEF GoodFor, StaleOnlyWhilePending

LEMMA ZeroGoodNext == \A p \in Pool, q \in Quoters : q.zero => q \in GoodFor(p)'
BY DEF GoodFor, StaleOnlyWhilePending

\* A quoter built from the state as it is, and registered, is good.
LEMMA FormulaGood ==
    ASSUME state \in [Slot -> Nat], blockTimestamp \in Nat, NEW p \in Pool,
           Deps[p] \X {p} \subseteq depSlots
    PROVE  Formula(p) \in GoodFor(p)
<1>1. Formula(p) \in Quoters
  BY FormulaType
<1>2. \A s \in Deps[p] : Formula(p).vals[s] = state[s]
  BY PoolManagerAssumption DEF Formula
<1>3. p \in Timed => Formula(p).time = blockTimestamp
  BY DEF Formula
<1> QED
  BY <1>1, <1>2, <1>3 DEF GoodFor, StaleOnlyWhilePending

\* What is good stays so while no slot changes, registrations stay, the time
\* stays, and an invalidation that is pending stays so or is lost.
LEMMA GoodStays ==
    ASSUME state' = state, lost \subseteq lost', NEW p \in Pool,
           Deps[p] \X {p} \subseteq depSlots => Deps[p] \X {p} \subseteq depSlots',
           p \in Timed \ Hidden => blockTimestamp' = blockTimestamp,
           \A s \in Deps[p] : InvalidationPending(s, p) => InvalidationPending(s, p)' \/ state[s] \in lost'
    PROVE  GoodFor(p) \subseteq GoodFor(p)'
<1> SUFFICES ASSUME NEW q \in GoodFor(p) PROVE q \in GoodFor(p)'
  OBVIOUS
<1>1. StaleOnlyWhilePending(q, p)'
  BY DEF GoodFor, StaleOnlyWhilePending
<1> QED
  BY <1>1 DEF GoodFor

LEMMA InitQuoterInv == Init => QuoterInv
<1> SUFFICES ASSUME Init PROVE QuoterInv
  OBVIOUS
<1>1. AllTypes
  BY InitAllTypes
<1>2. \A t \in Proc : call[t].pc = "ready"
  BY DEF Init, PMInit, Ready
<1>3. Locks /\ LoopPhase /\ AppliedIsLast
  BY <1>2 DEF Init, Waiting, NoEvent, Locks, LoopPhase, AppliedIsLast
<1>4. \A p \in Pool : Used(p) = {}
  BY <1>2 DEF Init, PMInit, Used
<1>5. HeldGood
  <2> SUFFICES ASSUME NEW p \in Pool, NEW q \in Held(p) PROVE q \in GoodFor(p)
    BY DEF HeldGood
  <2>1. q \in Quoters /\ q = pools[p]
    BY <1>2, <1>4 DEF Held
  <2>2. pools[p] \in {Zero, Formula(p)}
    BY DEF Init, PMInit
  <2>3. CASE q = Zero
    BY <2>1, <2>3, QuoterTypes, ZeroGood
  <2>4. CASE q = Formula(p)
    <3>1. Deps[p] \X {p} \subseteq depSlots
      BY <2>1, <2>4, PoolManagerAssumption DEF Init, PMInit
    <3> QED
      BY <1>1, <2>4, <3>1, FormulaGood DEF AllTypes, PMTypes, LSTypes
  <2> QED
    BY <2>1, <2>2, <2>3, <2>4
<1>6. UsedBuilt
  BY <1>4 DEF UsedBuilt
<1> QED
  BY <1>3, <1>5, <1>6 DEF QuoterInv
(***************************************************************************)
(* A step of a quote by process t, under the read lock.                    *)
(***************************************************************************)
LEMMA QuoteInv ==
    ASSUME AllTypes, AllTypes', QuoterInv, NEW t \in Proc, t \in readers, QuoteStep(t),
           UNCHANGED <<lsVars, loop, overlay>>
    PROVE  QuoterInv'
<1> DEFINE p == call[t].pool
<1>0. /\ call \in [Proc -> Calls] /\ call' \in [Proc -> Calls]
      /\ pools \in [Pool -> Quoters \cup {Absent}] /\ quoteCaches \in [Pool -> Quotes \cup {Absent}]
      /\ (call[t].pc # "ready" => p \in Pool)
      /\ state \in [Slot -> Nat] /\ blockTimestamp \in Nat
  BY DEF AllTypes, CallTypes, PMTypes, LSTypes
<1>1. ASSUME NEW u \in Proc, u # t PROVE call'[u] = call[u]
  BY <1>0, <1>1 DEF QuoteStep, Lookup, Get, Got, Build, Publish, GetZero, Cap, Store, Return
<1>2. Locks' /\ LoopPhase' /\ AppliedIsLast'
  BY <1>1 DEF QuoterInv, Locks, LoopPhase, AppliedIsLast
<1>3. blockTimestamp' = blockTimestamp /\ depSlots \subseteq depSlots' /\ raced \subseteq raced'
  BY DEF QuoteStep, Lookup, Get, Build, Publish, GetZero, Cap, Store, Return, Register
<1>4. \A r \in Pool : GoodFor(r) \subseteq GoodFor(r)'
  BY <1>3, GoodStays DEF InvalidationPending
<1>5. \A r \in Pool : call[t].pc \in {"cap", "store"} /\ p = r => call[t].q \in Used(r)
  BY <1>0 DEF Used, Calls
<1>6. call[t].pc = "publish" => call[t].q \in Held(p)
  BY <1>0 DEF Held, Calls
<1>7. p \in Pool /\ pools[p] # Absent => pools[p] \in Held(p)
  BY <1>0 DEF Held
\* It is enough to say what is new among the quoters used and held.
<1>8. ASSUME \A r \in Pool \ raced' : \A q \in Held(r)' : q \in Held(r) \/ q \in GoodFor(r)',
             \A r \in Pool \ raced' : (\E q \in Used(r)' : ~q.zero) => Built(r)'
      PROVE  QuoterInv'
  <2>1. HeldGood'
    BY <1>3, <1>4, <1>8 DEF QuoterInv, HeldGood
  <2>2. UsedBuilt'
    BY <1>8 DEF UsedBuilt
  <2> QED
    BY <1>2, <2>1, <2>2 DEF QuoterInv
\* Steps after which nothing new is used and no quoter is published.
<1>9. ASSUME pools' = pools, \A r \in Pool : Used(r)' \subseteq Used(r),
             \A r \in Pool : \A q \in Held(r)' : q \in Held(r) \/ q \in GoodFor(r)'
      PROVE  QuoterInv'
  <2>1. ASSUME NEW r \in Pool \ raced', NEW q \in Used(r)', ~q.zero PROVE Built(r)'
    <3>1. q \in Used(r) /\ r \in Pool \ raced
      BY <1>3, <1>9
    <3>2. Built(r)
      BY <2>1, <3>1 DEF QuoterInv, UsedBuilt
    <3> QED
      BY <1>9, <3>2 DEF Built
  <2> QED
    BY <1>8, <1>9, <2>1
<1>10. ASSUME NEW r \in Pool, Lookup(t, r) PROVE QuoterInv'
  <2>1. call'[t].pc \in {"get", "return"} /\ UNCHANGED pmVars
    BY <1>0, <1>10 DEF Lookup
  <2>2. \A x \in Pool : Used(x)' \subseteq Used(x)
    BY <1>1, <2>1 DEF Used
  <2>3. \A x \in Pool : Held(x)' \subseteq Held(x)
    BY <1>1, <2>1, <2>2 DEF Held
  <2> QED
    BY <1>9, <2>1, <2>2, <2>3
<1>11. CASE Get(t)
  <2>1. /\ p \in Pool /\ pools[p] \in Quoters /\ UNCHANGED pmVars
        /\ call'[t].pc = "cap" /\ call'[t].pool = p /\ call'[t].q = pools[p]
    BY <1>0, <1>11 DEF Get, Got, Calls
  <2>2. \A r \in Pool : \A q \in Used(r)' : q \in Used(r) \/ (r = p /\ q = pools[p])
    BY <1>1, <2>1 DEF Used
  <2>3. \A r \in Pool : Held(r)' \subseteq Held(r)
    BY <1>1, <1>7, <2>1, <2>2 DEF Held
  <2>4. \A r \in Pool : Built(r)' = Built(r)
    BY <2>1 DEF Built
  <2>5. \A r \in Pool \ raced' : (\E q \in Used(r)' : ~q.zero) => Built(r)'
    <3> SUFFICES ASSUME NEW r \in Pool \ raced', NEW q \in Used(r)', ~q.zero PROVE Built(r)
      BY <2>4
    <3>1. CASE q \in Used(r)
      BY <1>3, <3>1 DEF QuoterInv, UsedBuilt
    <3>2. CASE r = p /\ q = pools[p]
      BY <2>1, <3>2, AbsentAssumption DEF Built
    <3> QED
      BY <2>2, <3>1, <3>2
  <2> QED
    BY <1>8, <2>3, <2>5
<1>12. CASE Build(t)
  <2>1. /\ p \in Pool /\ UNCHANGED <<pools, quoteCaches, state>>
        /\ call'[t].pc = "publish" /\ call'[t].pool = p /\ call'[t].q = Formula(p)
        /\ Deps[p] \X {p} \subseteq depSlots'
    BY <1>0, <1>12 DEF Build, Register, Calls
  <2>2. \A r \in Pool : Used(r)' \subseteq Used(r)
    BY <1>1, <2>1 DEF Used
  <2>3. \A r \in Pool : \A q \in Held(r)' : q \in Held(r) \/ (r = p /\ q = Formula(p))
    BY <1>1, <2>1, <2>2 DEF Held
  <2>4. Formula(p) \in GoodFor(p)'
    <3>1. Formula(p) \in Quoters
      BY <1>0, <2>1, FormulaType
    <3>2. \A s \in Deps[p] : Formula(p).vals[s] = state'[s]
      BY <2>1, PoolManagerAssumption DEF Formula
    <3>3. p \in Timed => Formula(p).time = blockTimestamp'
      BY <1>3 DEF Formula
    <3> QED
      BY <2>1, <3>1, <3>2, <3>3 DEF GoodFor, StaleOnlyWhilePending
  <2> QED
    BY <1>9, <2>1, <2>2, <2>3, <2>4
<1>13. CASE GetZero(t)
  <2>1. /\ p \in Pool /\ UNCHANGED pmVars
        /\ call'[t].pc = "publish" /\ call'[t].pool = p /\ call'[t].q = Zero
    BY <1>0, <1>13 DEF GetZero, Calls
  <2>2. \A r \in Pool : Used(r)' \subseteq Used(r)
    BY <1>1, <2>1 DEF Used
  <2>3. \A r \in Pool : \A q \in Held(r)' : q \in Held(r) \/ q = Zero
    BY <1>1, <2>1, <2>2 DEF Held
  <2> QED
    BY <1>9, <2>1, <2>2, <2>3, QuoterTypes, ZeroGoodNext
<1>14. CASE Publish(t)
  <2> DEFINE new == call[t].q
  <2>1. /\ p \in Pool /\ new \in Quoters /\ UNCHANGED quoteCaches
        /\ call[t].pc = "publish" /\ call'[t].pc = "cap" /\ call'[t].pool = p /\ call'[t].q = new
        /\ \A r \in Pool : pools'[r] = IF r = p THEN new ELSE pools[r]
        /\ new.zero /\ Built(p) => p \in raced'
    BY <1>0, <1>14 DEF Publish, Got, Calls
  <2>2. new \in Held(p)
    BY <1>6, <2>1
  <2> HIDE DEF new
  <2>3. \A r \in Pool : \A q \in Used(r)' : q \in Used(r) \/ (r = p /\ q = new)
    BY <1>1, <2>1 DEF Used
  <2>4. \A r \in Pool : Held(r)' \subseteq Held(r)
    <3> SUFFICES ASSUME NEW r \in Pool, NEW q \in Held(r)' PROVE q \in Held(r)
      OBVIOUS
    <3>1. CASE q \in Used(r)'
      BY <2>2, <2>3, <3>1 DEF Held
    <3>2. CASE q \in Quoters /\ q = pools'[r]
      BY <2>1, <2>2, <3>2 DEF Held
    <3>3. CASE q \in Quoters /\ \E u \in Proc : call'[u].pool = r /\ call'[u].pc = "publish" /\ q = call'[u].q
      BY <1>1, <2>1, <3>3 DEF Held
    <3> QED
      BY <3>1, <3>2, <3>3 DEF Held
  <2>5. ASSUME NEW r \in Pool \ raced', NEW q \in Used(r)', ~q.zero PROVE Built(r)'
    <3>1. CASE r = p /\ ~new.zero
      BY <2>1, <3>1, AbsentAssumption DEF Built
    <3>2. CASE r = p /\ new.zero
      <4>1. q \in Used(r)
        BY <2>3, <2>5, <3>2
      <4>2. Built(p)
        BY <1>3, <2>5, <3>2, <4>1 DEF QuoterInv, UsedBuilt
      <4> QED
        BY <2>1, <3>2, <4>2
    <3>3. CASE r # p
      <4>1. q \in Used(r)
        BY <2>3, <3>3
      <4>2. Built(r)
        BY <1>3, <2>5, <4>1 DEF QuoterInv, UsedBuilt
      <4> QED
        BY <2>1, <3>3, <4>2 DEF Built
    <3> QED
      BY <3>1, <3>2, <3>3
  <2> QED
    BY <1>8, <2>4, <2>5
<1>15. CASE Cap(t)
  <2>1. /\ p \in Pool /\ UNCHANGED <<pools, quoteCaches>> /\ call[t].pc = "cap"
        /\ call'[t].pc = "store" /\ call'[t].pool = p /\ call'[t].q = call[t].q
    BY <1>0, <1>15 DEF Cap, Calls
  <2>2. \A r \in Pool : Used(r)' \subseteq Used(r)
    BY <1>1, <2>1 DEF Used
  <2>3. \A r \in Pool : Held(r)' \subseteq Held(r)
    BY <1>1, <2>1, <2>2 DEF Held
  <2> QED
    BY <1>9, <2>1, <2>2, <2>3
<1>16. CASE Store(t)
  <2>1. /\ p \in Pool /\ UNCHANGED pools /\ call[t].pc = "store" /\ call'[t].pc = "return"
        /\ \A r \in Pool : r # p => quoteCaches'[r] = quoteCaches[r]
        /\ quoteCaches'[p].q = call[t].q
    BY <1>0, <1>16 DEF Store, Calls
  <2>2. \A r \in Pool : Used(r)' \subseteq Used(r)
    BY <1>1, <2>1 DEF Used
  <2>3. \A r \in Pool : Held(r)' \subseteq Held(r)
    BY <1>1, <2>1, <2>2 DEF Held
  <2> QED
    BY <1>9, <2>1, <2>2, <2>3
<1>17. CASE Return(t)
  <2>1. call'[t].pc = "ready" /\ UNCHANGED pmVars
    BY <1>0, <1>17 DEF Return, Ready
  <2>2. \A r \in Pool : Used(r)' \subseteq Used(r)
    BY <1>1, <2>1 DEF Used
  <2>3. \A r \in Pool : Held(r)' \subseteq Held(r)
    BY <1>1, <2>1, <2>2 DEF Held
  <2> QED
    BY <1>9, <2>1, <2>2, <2>3
<1> QED
  BY <1>10, <1>11, <1>12, <1>13, <1>14, <1>15, <1>16, <1>17 DEF QuoteStep
(***************************************************************************)
(* A step of the loop outside its callback; quotes may be under way.       *)
(***************************************************************************)
LEMMA LoopInv ==
    ASSUME AllTypes, QuoterInv, LoopStep
    PROVE  QuoterInv'
<1>0. /\ pools \in [Pool -> Quoters \cup {Absent}] /\ quoteCaches \in [Pool -> Quotes \cup {Absent}]
      /\ depSlots \subseteq Slot \X Pool
      /\ call \in [Proc -> Calls]
      /\ loop \in Loops /\ blockCh \in Seq(Event)
      /\ \A p \in Pool : Deps[p] \subseteq Slot
  BY PoolManagerAssumption DEF AllTypes, PMTypes, CallTypes, OtherTypes, LSTypes
<1>1. Loop \notin readers /\ UNCHANGED <<call, readers, applied, state, lost>>
  BY DEF QuoterInv, Locks, LoopStep, TakeEvent, InvalidateBySlot, InvalidatePool,
         InvalidatePoolDeps, SlotDone, OnBlock
<1>2. Locks' /\ AppliedIsLast'
  BY <1>1 DEF QuoterInv, Locks, AppliedIsLast
<1>3. ASSUME LoopPhase', HeldGood', UsedBuilt' PROVE QuoterInv'
  BY <1>2, <1>3 DEF QuoterInv
\* Steps that leave the caches alone.
<1>4. ASSUME UNCHANGED <<pools, quoteCaches, depSlots, blockTimestamp, raced>>, LoopPhase',
             \A p \in Pool : \A s \in Deps[p] :
                <<s, p>> \in depSlots /\ InvalidationPending(s, p) => InvalidationPending(s, p)'
      PROVE  QuoterInv'
  <2>1. \A p \in Pool : Used(p)' = Used(p) /\ Held(p)' = Held(p) /\ Built(p)' = Built(p)
    BY <1>1, <1>4 DEF Used, Held, Built
  <2>2. ASSUME NEW p \in Pool PROVE GoodFor(p) \subseteq GoodFor(p)'
    <3> SUFFICES ASSUME NEW q \in GoodFor(p) PROVE q \in GoodFor(p)'
      OBVIOUS
    <3>1. StaleOnlyWhilePending(q, p)'
      BY <1>1, <1>4 DEF GoodFor, StaleOnlyWhilePending
    <3> QED
      BY <1>4, <3>1 DEF GoodFor
  <2>3. HeldGood' /\ UsedBuilt'
    BY <1>4, <2>1, <2>2 DEF QuoterInv, HeldGood, UsedBuilt
  <2> QED
    BY <1>3, <1>4, <2>3
<1>5. CASE TakeEvent
  <2> DEFINE ts == Head(blockCh).time
  <2>0. /\ loop'.pc = "slots" /\ loop'.victims = {} /\ loop'.event = Head(blockCh)
        /\ loop.event.slots = {} /\ loop.victims = {}
    BY <1>0, <1>5 DEF TakeEvent, Loops, QuoterInv, LoopPhase
  <2>1. LoopPhase'
    BY <2>0 DEF LoopPhase
  <2>2. \A s \in Slot, p \in Pool : InvalidationPending(s, p) => InvalidationPending(s, p)'
    <3> SUFFICES ASSUME NEW s \in Slot, NEW p \in Pool, InvalidationPending(s, p)
                 PROVE  InvalidationPending(s, p)'
      OBVIOUS
    <3>1. CASE \E e \in applied : s \in e.slots
      BY <1>1, <3>1 DEF InvalidationPending
    <3>2. ASSUME NEW i \in 1..Len(blockCh), s \in blockCh[i].slots PROVE InvalidationPending(s, p)'
      <4>1. CASE i = 1
        BY <1>0, <1>5, <2>0, <3>2, <4>1 DEF TakeEvent, InvalidationPending
      <4>2. CASE i # 1
        <5>1. i - 1 \in 1..Len(blockCh') /\ blockCh'[i - 1] = blockCh[i]
          BY <1>0, <1>5, <4>2 DEF TakeEvent
        <5> QED
          BY <3>2, <5>1 DEF InvalidationPending
      <4> QED
        BY <4>1, <4>2
    <3> QED
      BY <2>0, <3>1, <3>2 DEF InvalidationPending
  <2>3. CASE ts = blockTimestamp
    <3>1. UNCHANGED <<pools, quoteCaches, depSlots, blockTimestamp, raced>>
      BY <1>5, <2>3 DEF TakeEvent, SetBlockTimestamp
    <3> QED
      BY <1>0, <1>4, <2>1, <2>2, <3>1
  <2>4. CASE ts # blockTimestamp
    <3>1. /\ blockTimestamp' = ts /\ depSlots' = depSlots
          /\ \A p \in Pool : /\ pools'[p] = IF p \in Retimed THEN [pools[p] EXCEPT !.time = ts] ELSE pools[p]
                             /\ quoteCaches'[p] = IF p \in Retimed THEN Absent ELSE quoteCaches[p]
          /\ raced' = raced \cup {p \in Timed \ Hidden : InHand(p)}
      BY <1>0, <1>5, <2>4 DEF TakeEvent, SetBlockTimestamp
    <3>2. ts \in Nat
      <4>1. blockCh # <<>>
        BY <1>5 DEF TakeEvent
      <4>2. Head(blockCh) \in Event
        BY <1>0, <4>1
      <4> QED
        BY <4>2 DEF Event
    <3> HIDE DEF ts
    <3>3. ASSUME NEW p \in Retimed
          PROVE  /\ pools[p] \in Quoters /\ pools'[p] \in Quoters /\ pools'[p].time = ts
                 /\ ~pools'[p].zero /\ pools'[p].vals = pools[p].vals
      <4>1. p \in Pool /\ pools[p] \in Quoters /\ ~pools[p].zero
        BY <1>0, PoolManagerAssumption DEF Retimed
      <4> QED
        BY <3>1, <3>2, <4>1 DEF Quoters
    <3>4. ASSUME NEW p \in Pool \ raced' PROVE Used(p)' \subseteq Used(p)
      BY <1>1, <3>1, <3>4 DEF Used
    \* Pools whose time is changed: whatever else is held of them is a zeroQuoter.
    <3>5. ASSUME NEW p \in Pool \ raced', p \in Timed \ Hidden, NEW q \in Held(p)'
          PROVE  q \in GoodFor(p)'
      <4>1. p \notin raced /\ ~InHand(p)
        BY <3>1, <3>5
      <4>2. CASE q \in Used(p)' /\ ~q.zero
        <5>1. q \in Used(p)
          BY <3>4, <4>2
        <5>2. p \in Retimed
          BY <3>5, <4>1, <4>2, <5>1 DEF QuoterInv, UsedBuilt, Built, Retimed
        <5>3. quoteCaches'[p] = Absent
          BY <3>1, <5>2
        <5>4. \E t \in Proc : call[t].pool = p /\ call[t].pc \in {"cap", "store"} /\ q = call[t].q
          BY <1>1, <4>2, <5>3 DEF Used
        <5> QED
          BY <4>1, <4>2, <5>4 DEF InHand
      <4>3. CASE q \in Quoters /\ q = pools'[p] /\ p \in Retimed
        <5>1. pools[p] \in GoodFor(p)
          BY <3>3, <3>5, <4>1, <4>3 DEF QuoterInv, HeldGood, Held
        <5>2. StaleOnlyWhilePending(pools[p], p) /\ Deps[p] \X {p} \subseteq depSlots
          BY <5>1, <4>3 DEF GoodFor, Retimed
        <5>3. \A s \in Deps[p] : q.vals[s] # state[s] => InvalidationPending(s, p)' \/ state[s] \in lost
          BY <1>0, <2>2, <3>3, <4>3, <5>2 DEF StaleOnlyWhilePending, Retimed
        <5>4. StaleOnlyWhilePending(q, p)'
          BY <1>1, <5>3 DEF StaleOnlyWhilePending
        <5> QED
          BY <3>1, <3>3, <4>3, <5>2, <5>4 DEF GoodFor
      <4>4. CASE q \in Quoters /\ q = pools'[p] /\ p \notin Retimed
        <5>1. q.zero
          BY <3>1, <3>5, <4>4, AbsentAssumption DEF Retimed
        <5> QED
          BY <4>4, <5>1, ZeroGoodNext
      <4>5. CASE q \in Quoters /\ \E t \in Proc : call'[t].pool = p /\ call'[t].pc = "publish" /\ q = call'[t].q
        <5>1. q.zero
          BY <1>1, <4>1, <4>5 DEF InHand
        <5> QED
          BY <4>5, <5>1, ZeroGoodNext
      <4>6. q \in Quoters
        BY <3>5 DEF Held, Used
      <4> QED
        BY <3>5, <4>2, <4>3, <4>4, <4>5, <4>6, ZeroGoodNext DEF Held
    <3>6. ASSUME NEW p \in Pool \ raced', p \notin Timed \ Hidden, NEW q \in Held(p)'
          PROVE  q \in GoodFor(p)'
      <4>1. p \notin Retimed
        BY <3>6 DEF Retimed
      <4>2. q \in Held(p)
        BY <1>1, <3>1, <3>6, <4>1 DEF Held, Used
      <4>3. q \in GoodFor(p)
        BY <3>1, <3>6, <4>2 DEF QuoterInv, HeldGood
      <4>4. GoodFor(p) \subseteq GoodFor(p)'
        BY <1>0, <1>1, <2>2, <3>1, <3>6, GoodStays
      <4> QED
        BY <4>3, <4>4
    <3>7. ASSUME NEW p \in Pool \ raced', \E q \in Used(p)' : ~q.zero PROVE Built(p)'
      <4>1. Built(p)
        BY <3>1, <3>4, <3>7 DEF QuoterInv, UsedBuilt
      <4>2. CASE p \in Retimed
        BY <3>3, <4>2, AbsentAssumption DEF Built
      <4>3. CASE p \notin Retimed
        BY <3>1, <4>1, <4>3 DEF Built
      <4> QED
        BY <4>2, <4>3
    <3>8. HeldGood'
      BY <3>5, <3>6 DEF HeldGood
    <3>9. UsedBuilt'
      BY <3>7 DEF UsedBuilt
    <3> QED
      BY <1>3, <2>1, <3>8, <3>9
  <2> QED
    BY <2>3, <2>4
<1>6. ASSUME NEW s \in Slot, InvalidateBySlot(s) PROVE QuoterInv'
  <2>1. /\ loop'.pc = "pools" /\ loop'.event.slots = loop.event.slots \ {s}
        /\ loop'.victims = {p \in Pool : <<s, p>> \in depSlots}
        /\ loop.victims = {} /\ UNCHANGED <<blockCh, pmVars>>
    BY <1>0, <1>6 DEF InvalidateBySlot, Loops, Event, QuoterInv, LoopPhase
  <2>2. LoopPhase'
    BY <2>1 DEF LoopPhase
  <2>3. \A p \in Pool : \A x \in Deps[p] :
           <<x, p>> \in depSlots /\ InvalidationPending(x, p) => InvalidationPending(x, p)'
    BY <1>1, <2>1 DEF InvalidationPending
  <2> QED
    BY <1>4, <2>1, <2>2, <2>3
<1>7. ASSUME NEW p \in Pool, InvalidatePool(p) PROVE QuoterInv'
  <2>1. /\ loop'.pc = "clean" /\ loop'.event = loop.event /\ loop'.victims = loop.victims \ {p}
        /\ UNCHANGED <<blockCh, depSlots, blockTimestamp>>
    BY <1>0, <1>7 DEF InvalidatePool, Invalidate, Loops
  <2>2. /\ \A r \in Pool : /\ pools'[r] = IF r = p THEN Absent ELSE pools[r]
                           /\ quoteCaches'[r] = IF r = p THEN Absent ELSE quoteCaches[r]
        /\ raced' = IF InHand(p) THEN raced \cup {p} ELSE raced
    BY <1>0, <1>7 DEF InvalidatePool, Invalidate
  <2>3. LoopPhase'
    BY <2>1 DEF LoopPhase
  <2>4. \A r \in Pool : Used(r)' \subseteq Used(r) /\ Held(r)' \subseteq Held(r)
    <3>1. \A r \in Pool : Used(r)' \subseteq Used(r)
      BY <1>1, <2>2 DEF Used
    <3> QED
      BY <1>1, <2>2, <3>1, AbsentAssumption DEF Held
  \* What is still held of p itself is a zeroQuoter.
  <2>5. ASSUME p \notin raced', NEW q \in Held(p)' PROVE q.zero /\ q \in Quoters
    <3>1. ~InHand(p)
      BY <2>2, <2>5
    <3>2. q \in Quoters /\ \E t \in Proc : /\ call[t].pool = p /\ q = call[t].q
                                          /\ call[t].pc \in {"publish", "cap", "store"}
      BY <1>1, <2>2, <2>5, AbsentAssumption DEF Held, Used
    <3> QED
      BY <3>1, <3>2 DEF InHand
  <2>6. ASSUME NEW r \in Pool \ raced', NEW q \in Held(r)' PROVE q \in GoodFor(r)'
    <3>1. CASE r = p
      BY <2>5, <2>6, <3>1, ZeroGoodNext
    <3>2. CASE r # p
      <4>1. q \in GoodFor(r)
        BY <2>2, <2>4, <2>6 DEF QuoterInv, HeldGood
      <4>2. GoodFor(r) \subseteq GoodFor(r)'
        BY <1>1, <2>1, <3>2, GoodStays DEF InvalidationPending
      <4> QED
        BY <4>1, <4>2
    <3> QED
      BY <3>1, <3>2
  <2>7. ASSUME NEW r \in Pool \ raced', NEW q \in Used(r)', ~q.zero PROVE Built(r)'
    <3>1. r # p
      BY <2>5, <2>7 DEF Held
    <3>2. Built(r)
      BY <2>2, <2>4, <2>7 DEF QuoterInv, UsedBuilt
    <3> QED
      BY <2>2, <3>1, <3>2 DEF Built
  <2>8. HeldGood' /\ UsedBuilt'
    BY <2>6, <2>7 DEF HeldGood, UsedBuilt
  <2> QED
    BY <1>3, <2>3, <2>8
<1>8. CASE InvalidatePoolDeps
  <2> DEFINE p == loop.pool
  <2>1. /\ loop'.pc = "pools" /\ loop'.event = loop.event /\ loop'.victims = loop.victims
        /\ UNCHANGED <<blockCh, pools, quoteCaches, blockTimestamp>>
        /\ depSlots' = {d \in depSlots : d[2] # p}
        /\ raced' = IF InHand(p) \/ Built(p) THEN raced \cup {p} ELSE raced
    BY <1>0, <1>8 DEF InvalidatePoolDeps, CleanDeps, Loops
  <2>2. LoopPhase'
    BY <2>1 DEF LoopPhase
  <2>3. \A r \in Pool : Used(r)' = Used(r) /\ Held(r)' = Held(r) /\ Built(r)' = Built(r)
    BY <1>1, <2>1 DEF Used, Held, Built
  <2>4. ASSUME NEW r \in Pool \ raced', NEW q \in Held(r) PROVE q \in GoodFor(r)'
    <3>1. CASE r # p
      <4>1. Deps[r] \X {r} \subseteq depSlots => Deps[r] \X {r} \subseteq depSlots'
        BY <2>1, <3>1
      <4>2. GoodFor(r) \subseteq GoodFor(r)'
        BY <1>1, <2>1, <4>1, GoodStays DEF InvalidationPending
      <4>3. r \in Pool \ raced
        BY <2>1, <2>4
      <4> QED
        BY <2>4, <4>2, <4>3 DEF QuoterInv, HeldGood
    <3>2. CASE r = p
      <4>1. ~InHand(r) /\ ~Built(r) /\ r \in Pool \ raced
        BY <2>1, <2>4, <3>2
      <4>2. q \in Quoters
        BY <2>4 DEF Held, Used
      <4>3. CASE q \in Used(r)
        BY <4>1, <4>2, <4>3, ZeroGoodNext DEF QuoterInv, UsedBuilt
      <4>4. CASE q = pools[r]
        BY <4>1, <4>2, <4>4, AbsentAssumption, ZeroGoodNext DEF Built
      <4>5. CASE \E t \in Proc : call[t].pool = r /\ call[t].pc = "publish" /\ q = call[t].q
        BY <4>1, <4>2, <4>5, ZeroGoodNext DEF InHand
      <4> QED
        BY <2>4, <4>3, <4>4, <4>5 DEF Held
    <3> QED
      BY <3>1, <3>2
  <2>5. raced \subseteq raced'
    BY <2>1
  <2>6. HeldGood'
    BY <2>3, <2>4 DEF HeldGood
  <2>7. UsedBuilt'
    BY <2>3, <2>5 DEF QuoterInv, UsedBuilt
  <2> QED
    BY <1>3, <2>2, <2>6, <2>7
<1>9. CASE SlotDone
  <2>1. /\ loop'.pc = "slots" /\ loop'.event = loop.event /\ loop'.victims = loop.victims
        /\ loop.victims = {} /\ UNCHANGED <<blockCh, pmVars>>
    BY <1>0, <1>9 DEF SlotDone, Loops
  <2>2. LoopPhase'
    BY <2>1 DEF LoopPhase
  <2>3. \A s, p : InvalidationPending(s, p) => InvalidationPending(s, p)'
    BY <1>1, <2>1 DEF InvalidationPending
  <2> QED
    BY <1>4, <2>1, <2>2, <2>3
<1>10. CASE OnBlock
  <2>1. /\ loop'.pc \in {"callback", "wait"} /\ loop'.event.slots = {} /\ loop'.victims = {}
        /\ loop.event.slots = {} /\ loop.victims = {} /\ UNCHANGED <<blockCh, pmVars>>
    BY <1>0, <1>10 DEF OnBlock, Loops, Waiting, NoEvent, QuoterInv, LoopPhase
  <2>2. LoopPhase'
    BY <2>1 DEF LoopPhase
  <2>3. \A s, p : InvalidationPending(s, p) => InvalidationPending(s, p)'
    BY <1>1, <2>1 DEF InvalidationPending
  <2> QED
    BY <1>4, <2>1, <2>2, <2>3
<1> QED
  BY <1>5, <1>6, <1>7, <1>8, <1>9, <1>10 DEF LoopStep
LEMMA NextQuoterInv == AllTypes /\ AllTypes' /\ QuoterInv /\ [Next]_vars => QuoterInv'
<1> SUFFICES ASSUME AllTypes, AllTypes', QuoterInv, [Next]_vars PROVE QuoterInv'
  OBVIOUS
<1>0. /\ state \in [Slot -> Nat] /\ blockCh \in Seq(Event) /\ call \in [Proc -> Calls]
      /\ \A p \in Pool : Deps[p] \subseteq Slot
  BY PoolManagerAssumption DEF AllTypes, LSTypes, CallTypes
\* Steps that leave the caches and the calls alone.
<1>1. ASSUME UNCHANGED <<pmVars, call>>, Locks', LoopPhase', AppliedIsLast',
             \A p \in Pool \ raced : GoodFor(p) \cap Held(p) \subseteq GoodFor(p)'
      PROVE  QuoterInv'
  <2>1. \A p \in Pool : Used(p)' = Used(p) /\ Held(p)' = Held(p) /\ Built(p)' = Built(p)
    BY <1>1 DEF Used, Held, Built
  <2>2. HeldGood' /\ UsedBuilt'
    BY <1>1, <2>1 DEF QuoterInv, HeldGood, UsedBuilt
  <2> QED
    BY <1>1, <2>2 DEF QuoterInv
<1>2. ASSUME NEW slots \in SUBSET Slot, NEW time, ApplyBlock(slots, time) PROVE QuoterInv'
  <2>1. /\ readers = {} /\ applied = {} /\ readers' = {}
        /\ UNCHANGED <<pmVars, call, loop, blockCh, lost>>
    BY <1>2 DEF ApplyBlock
  <2>2. \A s \in Slot : state'[s] # state[s] => s \in slots
    BY <1>0, <1>2 DEF ApplyBlock
  <2>3. \A s \in slots : \E e \in applied' : s \in e.slots
    BY <1>2 DEF ApplyBlock
  <2>4. Locks' /\ LoopPhase'
    BY <2>1 DEF QuoterInv, Locks, LoopPhase
  <2>5. AppliedIsLast'
    BY <1>0, <1>2 DEF ApplyBlock, AppliedIsLast
  <2>6. ASSUME NEW p \in Pool, NEW q \in GoodFor(p) PROVE q \in GoodFor(p)'
    <3>1. ASSUME NEW s \in Deps[p], ~q.zero, q.vals[s] # state'[s]
          PROVE  InvalidationPending(s, p)' \/ state'[s] \in lost
      <4>1. s \in Slot
        BY <1>0
      <4>2. CASE s \in slots
        BY <2>3, <4>2 DEF InvalidationPending
      <4>3. CASE state'[s] = state[s]
        <5>1. InvalidationPending(s, p) \/ state[s] \in lost
          BY <3>1, <4>3 DEF GoodFor, StaleOnlyWhilePending
        <5> QED
          BY <2>1, <4>3, <5>1 DEF InvalidationPending
      <4> QED
        BY <2>2, <4>1, <4>2, <4>3
    <3>2. StaleOnlyWhilePending(q, p)'
      BY <2>1, <3>1 DEF StaleOnlyWhilePending
    <3> QED
      BY <2>1, <3>2 DEF GoodFor
  <2> QED
    BY <1>1, <2>1, <2>4, <2>5, <2>6
<1>3. CASE Notify
  <2>1. PICK e \in applied :
           /\ IF listening /\ Len(blockCh) < QueueCap
              THEN blockCh' = Append(blockCh, e) /\ UNCHANGED lost
              ELSE lost' = lost \cup {e.block} /\ UNCHANGED blockCh
           /\ applied' = {}
           /\ UNCHANGED <<state, pmVars, call, block, clock, readers, loop, overlay, listening>>
    BY <1>3 DEF Notify
  <2>2. \A f \in applied : f = e
    BY DEF AllTypes, LSTypes
  <2>3. Locks' /\ LoopPhase' /\ AppliedIsLast'
    BY <2>1 DEF QuoterInv, Locks, LoopPhase, AppliedIsLast
  <2>4. ASSUME NEW s, NEW p, InvalidationPending(s, p) PROVE InvalidationPending(s, p)' \/ state[s] \in lost'
    <3>1. CASE blockCh' = Append(blockCh, e)
      <4>1. /\ Len(blockCh') = Len(blockCh) + 1 /\ Len(blockCh) \in Nat /\ blockCh'[Len(blockCh')] = e
            /\ \A i \in 1..Len(blockCh) : blockCh'[i] = blockCh[i]
        BY <1>0, <3>1
      <4> QED
        BY <2>1, <2>2, <2>4, <4>1 DEF InvalidationPending
    <3>2. CASE lost' = lost \cup {e.block} /\ UNCHANGED blockCh
      <4>1. s \in e.slots => state[s] = e.block
        BY DEF QuoterInv, AppliedIsLast
      <4> QED
        BY <2>1, <2>2, <2>4, <3>2, <4>1 DEF InvalidationPending
    <3> QED
      BY <2>1, <3>1, <3>2
  <2>5. \A p \in Pool : GoodFor(p) \subseteq GoodFor(p)'
    BY <2>1, <2>4, GoodStays
  <2> QED
    BY <1>1, <2>1, <2>3, <2>5
<1>4. ASSUME UNCHANGED <<state, applied, blockCh, lost, pmVars, call>>, Locks', LoopPhase',
             loop'.event.slots = loop.event.slots, loop'.victims = loop.victims
      PROVE  QuoterInv'
  <2>1. AppliedIsLast'
    BY <1>4 DEF QuoterInv, AppliedIsLast
  <2>2. \A p \in Pool : GoodFor(p) \subseteq GoodFor(p)'
    BY <1>4, GoodStays DEF InvalidationPending
  <2> QED
    BY <1>1, <1>4, <2>1, <2>2
<1>5. CASE StartBlockLoop
  <2>1. Locks' /\ LoopPhase'
    BY <1>5 DEF StartBlockLoop, QuoterInv, Locks, LoopPhase
  <2> QED
    BY <1>4, <1>5, <2>1 DEF StartBlockLoop
<1>6. CASE LoopStep
  BY <1>6, LoopInv
<1>7. ASSUME NEW t \in Proc, RLock(t) PROVE QuoterInv'
  <2>1. Locks' /\ LoopPhase'
    BY <1>7 DEF RLock, QuoterInv, Locks, LoopPhase
  <2> QED
    BY <1>4, <1>7, <2>1 DEF RLock
<1>8. ASSUME NEW t \in Proc, QuotePool(t) PROVE QuoterInv'
  BY <1>8, QuoteInv DEF QuotePool
<1>9. ASSUME NEW t \in Proc, NEW s \in EvmSlot, Verify(t, s) PROVE QuoterInv'
  <2>1. Locks' /\ LoopPhase'
    BY <1>9 DEF Verify, QuoterInv, Locks, LoopPhase
  <2> QED
    BY <1>4, <1>9, <2>1 DEF Verify
<1>10. ASSUME NEW t \in Proc, RUnlock(t) PROVE QuoterInv'
  <2>1. /\ readers' = readers \ {t} /\ call[t].pc = "ready"
        /\ loop' = IF t = Loop THEN Waiting ELSE loop
        /\ t = Loop => loop.pc = "callback"
        /\ UNCHANGED <<state, applied, blockCh, lost, pmVars, call>>
    BY <1>10 DEF RUnlock, QuoterInv, Locks
  <2>2. Waiting.pc = "wait" /\ Waiting.event.slots = {} /\ Waiting.victims = {}
    BY DEF Waiting, NoEvent
  <2>3. loop'.event.slots = loop.event.slots /\ loop'.victims = loop.victims
    BY <2>1, <2>2 DEF QuoterInv, LoopPhase
  <2>4. Locks' /\ LoopPhase'
    BY <2>1, <2>2 DEF QuoterInv, Locks, LoopPhase
  <2> QED
    BY <1>4, <2>1, <2>3, <2>4
<1>11. CASE UNCHANGED vars
  <2>1. Locks' /\ LoopPhase'
    BY <1>11 DEF vars, QuoterInv, Locks, LoopPhase
  <2> QED
    BY <1>4, <1>11, <2>1 DEF vars
<1> QED
  BY <1>2, <1>3, <1>5, <1>6, <1>7, <1>8, <1>9, <1>10, <1>11 DEF Next

LEMMA QuoterInvHolds == Spec => [](AllTypes /\ QuoterInv)
<1>1. AllTypes /\ QuoterInv /\ [Next]_vars => (AllTypes /\ QuoterInv)'
  BY NextAllTypes, NextQuoterInv
<1> QED
  BY <1>1, InitAllTypes, InitQuoterInv, PTL DEF Spec

\* What is in the caches is held, so it is good.
LEMMA CachesGood ==
    ASSUME AllTypes, QuoterInv, NEW p \in Pool \ raced
    PROVE  /\ pools[p] # Absent => pools[p] \in GoodFor(p)
           /\ quoteCaches[p] # Absent => quoteCaches[p].q \in GoodFor(p)
<1>1. pools[p] # Absent => pools[p] \in Held(p)
  BY DEF AllTypes, PMTypes, Held
<1>2. quoteCaches[p] # Absent => quoteCaches[p].q \in Used(p)
  BY DEF AllTypes, PMTypes, Quotes, Used
<1> QED
  BY <1>1, <1>2 DEF QuoterInv, HeldGood, Held

(***************************************************************************)
(* With any number of goroutines quoting at any time: unless a goroutine   *)
(* had a pool in hand while the loop invalidated it, no quoter of the pool *)
(* and no quote cached for it is older than the pool's slots, but while    *)
(* its invalidation is on its way or if the event was dropped.             *)
(***************************************************************************)
THEOREM QuoterStaysFresh == Spec => []StaleUntilInvalidated
<1>1. AllTypes /\ QuoterInv => StaleUntilInvalidated
  BY CachesGood DEF GoodFor, StaleUntilInvalidated
<1> QED
  BY <1>1, QuoterInvHolds, PTL

(***************************************************************************)
(* With any number of goroutines: a quoter in the cache is registered for  *)
(* every slot it was built from, unless a goroutine built it between the   *)
(* halves of Invalidate, or had it in hand then.                           *)
(***************************************************************************)
THEOREM QuoterDepsComplete == Spec => []DepsComplete
<1>1. AllTypes /\ QuoterInv => DepsComplete
  BY CachesGood DEF GoodFor, DepsComplete, Built
<1> QED
  BY <1>1, QuoterInvHolds, PTL

(***************************************************************************)
(* With any number of goroutines: every cached LFJ V2 quoter that          *)
(* SetBlockTimestamp can see, and every quote cached from it, is at the    *)
(* block's time, unless a goroutine had it in hand when the time changed   *)
(* or the pool was invalidated.                                            *)
(***************************************************************************)
THEOREM QuoterTimesInSync == Spec => []TimesInSync
<1>1. AllTypes /\ QuoterInv => TimesInSync
  BY CachesGood, PoolManagerAssumption DEF GoodFor, TimesInSync, Built
<1> QED
  BY <1>1, QuoterInvHolds, PTL
=============================================================================
