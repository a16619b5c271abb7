------------------------------ MODULE CallState ------------------------------
(***************************************************************************)
(* statedb/callstate.go: the overlay one EVM call writes to.  It keeps     *)
(* what differs from the base state and a journal with one undo entry per  *)
(* mutation; a snapshot is a length of the journal, and reverting to it    *)
(* undoes the entries above it, newest first.  The executors of EVMPool    *)
(* reuse one CallState for call after call.                                *)
(***************************************************************************)
EXTENDS Integers, Sequences

CONSTANTS
    Addr,
    SlotName,
    Modulus,        \* words are 0..Modulus-1, and arithmetic wraps
    Log,
    Base,           \* the balances of the base StateDB
    Warm,           \* sender, destination, coinbase and precompiles of a call
    Absent,         \* "no override"
    NoTarget,       \* "not in RevertToSnapshot"
    MaxJournal,     \* bound: journal entries of a call
    MaxSnapshots    \* bound: snapshots of a call

Slot == Addr \X SlotName
Word == 0..Modulus - 1

ASSUME CallStateAssumption ==
    /\ Modulus \in Nat \ {0}
    /\ Absent \notin Word
    /\ NoTarget \notin Nat
    /\ Base \in [Addr -> Word]
    /\ Warm \subseteq Addr
    /\ MaxJournal \in Nat
    /\ MaxSnapshots \in Nat

VARIABLES
    st,         \* the fields a journal entry can restore
    journal,    \* s.journal
    snapshots,  \* s.snapshots
    target,     \* RevertToSnapshot in progress: the journal length to get back to
    running,    \* an EVM call is using this CallState
    lastErr,    \* s.lastErr is set
    hist        \* history: hist[n + 1] is st as it was when the journal had n entries

vars == <<st, journal, snapshots, target, running, lastErr, hist>>

State ==
    [storage   : [Slot -> Word \cup {Absent}],      \* storageOverrides
     balance   : [Addr -> Word \cup {Absent}],      \* balanceOverrides
     transient : [Slot -> Word \cup {Absent}],
     addrs     : SUBSET Addr,                       \* accessedAddrs
     slots     : SUBSET Slot,                       \* accessedSlots
     refund    : Word,
     logs      : Seq(Log)]

Entry ==
         [kind : {"storage", "transient"}, slot : Slot, prev : Word \cup {Absent}]
    \cup [kind : {"balance"}, addr : Addr, prev : Word \cup {Absent}]
    \cup [kind : {"refund"}, prev : Word]
    \cup [kind : {"addr"}, addr : Addr]
    \cup [kind : {"slot"}, slot : Slot, hadAddr : BOOLEAN]
    \cup [kind : {"log"}, prevLen : Nat]

\* Mutant: the address goes with the slot, whoever added it.
UndoDropsAddr(e, s) ==
    CASE e.kind = "storage"   -> [s EXCEPT !.storage[e.slot] = e.prev]
      [] e.kind = "transient" -> [s EXCEPT !.transient[e.slot] = e.prev]
      [] e.kind = "balance"   -> [s EXCEPT !.balance[e.addr] = e.prev]
      [] e.kind = "refund"    -> [s EXCEPT !.refund = e.prev]
      [] e.kind = "addr"      -> [s EXCEPT !.addrs = @ \ {e.addr}]
      [] e.kind = "slot"      -> [s EXCEPT !.slots = @ \ {e.slot}, !.addrs = @ \ {e.slot[1]}]
      [] e.kind = "log"       -> [s EXCEPT !.logs = SubSeq(@, 1, e.prevLen)]

\* journalEntry.revert
Undo(e, s) ==
    CASE e.kind = "storage"   -> [s EXCEPT !.storage[e.slot] = e.prev]
      [] e.kind = "transient" -> [s EXCEPT !.transient[e.slot] = e.prev]
      [] e.kind = "balance"   -> [s EXCEPT !.balance[e.addr] = e.prev]
      [] e.kind = "refund"    -> [s EXCEPT !.refund = e.prev]
      [] e.kind = "addr"      -> [s EXCEPT !.addrs = @ \ {e.addr}]
      [] e.kind = "slot"      -> [s EXCEPT !.slots = @ \ {e.slot},
                                           !.addrs = IF e.hadAddr THEN @ ELSE @ \ {e.slot[1]}]
      [] e.kind = "log"       -> [s EXCEPT !.logs = SubSeq(@, 1, e.prevLen)]

\* Reset followed by Prepare.
Fresh ==
    [storage   |-> [s \in Slot |-> Absent],
     balance   |-> [a \in Addr |-> Absent],
     transient |-> [s \in Slot |-> Absent],
     addrs     |-> Warm,
     slots     |-> {},
     refund    |-> 0,
     logs      |-> <<>>]

Init ==
    /\ st = Fresh
    /\ journal = <<>>
    /\ snapshots = <<>>
    /\ target = NoTarget
    /\ running = FALSE
    /\ lastErr = FALSE
    /\ hist = <<Fresh>>

-----------------------------------------------------------------------------
(***************************************************************************)
(* EVMPool: an executor is taken, its CallState reset and prepared; at the *)
(* end ExecuteWithErr reads and clears the error, Execute does not.        *)
(***************************************************************************)
Begin ==
    /\ ~running
    /\ running' = TRUE
    /\ st' = Fresh
    /\ hist' = <<Fresh>>
    /\ journal' = <<>>
    /\ snapshots' = <<>>
    /\ lastErr' = FALSE
    /\ UNCHANGED target

End ==
    /\ running
    /\ target = NoTarget
    /\ running' = FALSE
    /\ lastErr' \in {FALSE, lastErr}
    /\ UNCHANGED <<st, journal, snapshots, target, hist>>

\* One mutation: an undo entry is appended and the state changes to s.
Change(e, s) ==
    /\ running
    /\ target = NoTarget
    /\ Len(journal) < MaxJournal
    /\ journal' = Append(journal, e)
    /\ st' = s
    /\ hist' = Append(hist, s)
    /\ UNCHANGED <<snapshots, target, running>>

\* A mutation that leaves no journal entry.
Unjournaled(s) ==
    /\ running
    /\ target = NoTarget
    /\ st' = s
    /\ UNCHANGED <<journal, snapshots, target, running, hist>>

SetState(s, v) ==
    /\ Change([kind |-> "storage", slot |-> s, prev |-> st.storage[s]],
              [st EXCEPT !.storage[s] = v])
    /\ UNCHANGED lastErr

SetTransientState(s, v) ==
    /\ Change([kind |-> "transient", slot |-> s, prev |-> st.transient[s]],
              [st EXCEPT !.transient[s] = v])
    /\ UNCHANGED lastErr

SetBalance(a, v) ==
    Change([kind |-> "balance", addr |-> a, prev |-> st.balance[a]],
           [st EXCEPT !.balance[a] = v])

\* AddBalance (and SubBalance, d negative): the balance is read first, from
\* the override or from the base; a failed read counts as zero.
AddBalance(a, d) ==
    \/ /\ LET bal == IF st.balance[a] # Absent THEN st.balance[a] ELSE Base[a] IN
          SetBalance(a, (bal + d) % Modulus)
       /\ UNCHANGED lastErr
    \/ /\ st.balance[a] = Absent
       /\ SetBalance(a, d % Modulus)
       /\ lastErr' = TRUE
   
SelfDestruct(a) == SetBalance(a, 0) /\ UNCHANGED lastErr

\* AddRefund and SubRefund: uint64 arithmetic wraps.
AddRefund(d) ==
    /\ Change([kind |-> "refund", prev |-> st.refund],
              [st EXCEPT !.refund = (@ + d) % Modulus])
    /\ UNCHANGED lastErr

\* Nothing happens to an address that is in the list already.
AddAddressToAccessList(a) ==
    /\ a \notin st.addrs
    /\ Change([kind |-> "addr", addr |-> a], [st EXCEPT !.addrs = @ \cup {a}])
    /\ UNCHANGED lastErr

\* Mutant: the entry always says that the address was there before the slot.
AddSlotForgetsAddr(s) ==
    LET new == [st EXCEPT !.addrs = @ \cup {s[1]}, !.slots = @ \cup {s}] IN
    /\ IF s \notin st.slots
       THEN Change([kind |-> "slot", slot |-> s, hadAddr |-> TRUE], new)
       ELSE Unjournaled(new)
    /\ UNCHANGED lastErr

\* A slot that is in the list already still adds its address, without a
\* journal entry.
AddSlotToAccessList(s) ==
    LET new == [st EXCEPT !.addrs = @ \cup {s[1]}, !.slots = @ \cup {s}] IN
    /\ IF s \notin st.slots
       THEN Change([kind |-> "slot", slot |-> s, hadAddr |-> s[1] \in st.addrs], new)
       ELSE Unjournaled(new)
    /\ UNCHANGED lastErr

AddLog(l) ==
    /\ Change([kind |-> "log", prevLen |-> Len(st.logs)], [st EXCEPT !.logs = Append(@, l)])
    /\ UNCHANGED lastErr

(***************************************************************************)
(* A read that misses the overrides and whose fetch fails: GetState,       *)
(* GetBalance and GetCode record the error; GetNonce, GetCodeHash and      *)
(* GetCommittedState go through base methods that swallow it.              *)
(***************************************************************************)
FailedRead(recorded) ==
    /\ running
    /\ target = NoTarget
    /\ lastErr' = (lastErr \/ recorded)
    /\ UNCHANGED <<st, journal, snapshots, target, running, hist>>

-----------------------------------------------------------------------------
Snapshot ==
    /\ running
    /\ target = NoTarget
    /\ Len(snapshots) < MaxSnapshots
    /\ snapshots' = Append(snapshots, Len(journal))
    /\ UNCHANGED <<st, journal, target, running, lastErr, hist>>

\* RevertToSnapshot, in the steps of its loop: the snapshots from i on are
\* cut off, then the entries above the target are undone from the top.
RevertToSnapshot(i) ==
    /\ running
    /\ target = NoTarget
    /\ target' = snapshots[i]
    /\ snapshots' = SubSeq(snapshots, 1, i - 1)
    /\ UNCHANGED <<st, journal, running, lastErr, hist>>

UndoLast ==
    /\ target # NoTarget
    /\ Len(journal) > target
    /\ st' = Undo(journal[Len(journal)], st)
    /\ journal' = SubSeq(journal, 1, Len(journal) - 1)
    /\ hist' = SubSeq(hist, 1, Len(journal))
    /\ UNCHANGED <<snapshots, target, running, lastErr>>

Reverted ==
    /\ target = Len(journal)
    /\ target' = NoTarget
    /\ UNCHANGED <<st, journal, snapshots, running, lastErr, hist>>

Next ==
    \/ Begin \/ End
    \/ \E s \in Slot, v \in Word : SetState(s, v) \/ SetTransientState(s, v)
    \/ \E a \in Addr, d \in {-1, 1} : AddBalance(a, d)
    \/ \E a \in Addr : SelfDestruct(a) \/ AddAddressToAccessList(a)
    \/ \E d \in {-1, 1} : AddRefund(d)
    \/ \E s \in Slot : AddSlotToAccessList(s)
    \/ \E l \in Log : AddLog(l)
    \/ \E recorded \in BOOLEAN : FailedRead(recorded)
    \/ Snapshot
    \/ \E i \in DOMAIN snapshots : RevertToSnapshot(i)
    \/ UndoLast \/ Reverted

Spec == Init /\ [][Next]_vars

-----------------------------------------------------------------------------
TypeOK ==
    /\ st \in State
    /\ journal \in Seq(Entry)
    /\ snapshots \in Seq(Nat)
    /\ target \in Nat \cup {NoTarget}
    /\ running \in BOOLEAN
    /\ lastErr \in BOOLEAN
    /\ hist \in Seq(State)
    /\ Len(hist) = Len(journal) + 1

(***************************************************************************)
(* A slot is in the access list only with its address, also after any      *)
(* reverts, so the address needs no journal entry when the slot is there.  *)
(***************************************************************************)
SlotsHaveAddrs == \A s \in st.slots : s[1] \in st.addrs

(***************************************************************************)
(* When RevertToSnapshot returns, storage, balances, transient storage,    *)
(* access list, refund and logs are exactly as they were when the snapshot *)
(* was taken, whatever calls were made and reverted in between.            *)
(***************************************************************************)
RestoresSnapshot == target = Len(journal) => st = hist[target + 1]

(***************************************************************************)
(* Journal and snapshot lengths are as good as a stack of complete copies  *)
(* of the state.  Between reverts the state changes by single writes only; *)
(* while a revert is under way nobody looks, and the copy stands for the   *)
(* state; when it returns, what the undone entries left in the fields must *)
(* be that copy, and the snapshots that were reverted past must be gone.   *)
(***************************************************************************)
Copies == INSTANCE EvmState WITH
    Blank <- Fresh,
    state <- IF target = NoTarget THEN st ELSE hist[target + 1],
    saved <- [i \in 1..Len(snapshots) |-> hist[snapshots[i] + 1]],
    reverting <- target # NoTarget

ImplementsEvmState == Copies!Spec

=============================================================================
