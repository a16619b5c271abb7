------------------------------ MODULE EvmState -------------------------------
(***************************************************************************)
(* What the EVM expects of a vm.StateDB: a write sets one value or adds to *)
(* the access list or the logs, Snapshot remembers the whole state, and    *)
(* RevertToSnapshot ends with exactly that state back and the snapshots    *)
(* taken since forgotten; nothing else touches what is remembered.         *)
(***************************************************************************)
EXTENDS Integers, Sequences

CONSTANTS
    Addr, Slot, Word, Log,
    Blank           \* the state a call begins with

VARIABLES
    state,      \* everything a reverted call must not leave a trace in
    saved,      \* the states remembered by the snapshots taken so far
    reverting   \* RevertToSnapshot has been called and has not returned

vars == <<state, saved, reverting>>

Init == state = Blank /\ saved = <<>> /\ reverting = FALSE

Begin == ~reverting /\ state' = Blank /\ saved' = <<>> /\ UNCHANGED reverting

Write ==
    /\ ~reverting
    /\ \/ \E k \in Slot, v \in Word : state' \in {[state EXCEPT !.storage[k] = v],
                                                  [state EXCEPT !.transient[k] = v]}
       \/ \E a \in Addr, v \in Word : state' = [state EXCEPT !.balance[a] = v]
       \/ \E v \in Word : state' = [state EXCEPT !.refund = v]
       \/ \E a \in Addr : state' = [state EXCEPT !.addrs = @ \cup {a}]
       \/ \E k \in Slot : state' = [state EXCEPT !.addrs = @ \cup {k[1]}, !.slots = @ \cup {k}]
       \/ \E l \in Log : state' = [state EXCEPT !.logs = Append(@, l)]
    /\ UNCHANGED <<saved, reverting>>

Snapshot == ~reverting /\ saved' = Append(saved, state) /\ UNCHANGED <<state, reverting>>

\* The revert is decided: the state will be the remembered one.
RevertToSnapshot(i) ==
    /\ ~reverting
    /\ reverting' = TRUE
    /\ state' = saved[i]
    /\ saved' = SubSeq(saved, 1, i - 1)

\* RevertToSnapshot returns, and the state is the remembered one.
Reverted == reverting /\ reverting' = FALSE /\ UNCHANGED <<state, saved>>

Next ==
    \/ Begin
    \/ Write
    \/ Snapshot
    \/ \E i \in DOMAIN saved : RevertToSnapshot(i)
    \/ Reverted

Spec == Init /\ [][Next]_vars
=============================================================================
