--------------------------- MODULE CallStateProofs ---------------------------
(***************************************************************************)
(* The journal of CallState restores every snapshot exactly, for any       *)
(* number of addresses, slots, mutations and nested snapshots.             *)
(***************************************************************************)
EXTENDS CallState, SequenceTheorems, TLAPS

\* Undoing entry n takes the state with n entries to the state with n - 1.
JournalUndoes ==
    /\ hist[Len(hist)] = st
    /\ \A n \in 1..Len(journal) : Undo(journal[n], hist[n + 1]) = hist[n]

\* In every state the journal can return to, slots come with their addresses.
AccessListOK ==
    \A n \in 1..Len(hist) : \A s \in hist[n].slots : s[1] \in hist[n].addrs

\* Snapshots are journal lengths, in order, and below the revert in progress.
SnapshotsOK ==
    /\ \A i \in 1..Len(snapshots) : snapshots[i] \in 0..Len(journal)
    /\ \A i, j \in 1..Len(snapshots) : i <= j => snapshots[i] <= snapshots[j]
    /\ target # NoTarget =>
         /\ target \in 0..Len(journal)
         /\ running
         /\ \A i \in 1..Len(snapshots) : snapshots[i] <= target

CallInv == TypeOK /\ JournalUndoes /\ AccessListOK /\ SnapshotsOK

-----------------------------------------------------------------------------
LEMMA FreshIsState == Fresh \in State
BY CallStateAssumption DEF Fresh, State, Word

LEMMA InitCallInv == Init => CallInv
<1> SUFFICES ASSUME Init PROVE CallInv
  OBVIOUS
<1>1. TypeOK
  <2>1. running \in BOOLEAN /\ lastErr \in BOOLEAN
    BY DEF Init
  <2>2. /\ st \in State /\ journal \in Seq(Entry) /\ snapshots \in Seq(Nat)
        /\ target \in Nat \cup {NoTarget} /\ hist \in Seq(State)
        /\ Len(hist) = Len(journal) + 1
    BY FreshIsState DEF Init
  <2> QED
    BY <2>1, <2>2 DEF TypeOK
<1>2. JournalUndoes /\ AccessListOK /\ SnapshotsOK
  BY DEF Init, JournalUndoes, AccessListOK, SnapshotsOK, Fresh
<1> QED
  BY <1>1, <1>2 DEF CallInv

-----------------------------------------------------------------------------
(***************************************************************************)
(* A mutation whose entry undoes it, and that leaves slots with their      *)
(* addresses, keeps the invariant and is a Write of the abstract state.    *)
(***************************************************************************)
LEMMA ChangeKeepsInv ==
    ASSUME CallInv, NEW e \in Entry, NEW s \in State, Change(e, s),
           Undo(e, s) = st, \A x \in s.slots : x[1] \in s.addrs,
           lastErr' \in BOOLEAN
    PROVE  CallInv'
<1>1. /\ journal \in Seq(Entry) /\ hist \in Seq(State) /\ Len(hist) = Len(journal) + 1
      /\ Len(journal) \in Nat /\ snapshots \in Seq(Nat)
  BY DEF CallInv, TypeOK
<1>2. /\ journal' = Append(journal, e) /\ hist' = Append(hist, s) /\ st' = s
      /\ UNCHANGED <<snapshots, target, running>> /\ target = NoTarget
  BY DEF Change
<1>3. /\ Len(journal') = Len(journal) + 1 /\ Len(hist') = Len(hist) + 1
      /\ \A n \in 1..Len(journal) : journal'[n] = journal[n]
      /\ \A n \in 1..Len(hist) : hist'[n] = hist[n]
      /\ journal'[Len(journal) + 1] = e /\ hist'[Len(hist) + 1] = s
  BY <1>1, <1>2
<1>4. TypeOK'
  <2>1. journal' \in Seq(Entry) /\ hist' \in Seq(State)
    BY <1>1, <1>2
  <2> QED
    BY <2>1, <1>1, <1>2, <1>3 DEF CallInv, TypeOK
<1>5. JournalUndoes'
  <2>1. hist'[Len(hist')] = st'
    BY <1>1, <1>2, <1>3
  <2>2. ASSUME NEW n \in 1..Len(journal) + 1
        PROVE  Undo(journal'[n], hist'[n + 1]) = hist'[n]
    <3>1. CASE n = Len(journal) + 1
      BY <3>1, <1>1, <1>3 DEF CallInv, JournalUndoes
    <3>2. CASE n \in 1..Len(journal)
      <4>1. journal'[n] = journal[n] /\ hist'[n + 1] = hist[n + 1] /\ hist'[n] = hist[n]
        BY <3>2, <1>1, <1>3
      <4> QED
        BY <4>1, <3>2 DEF CallInv, JournalUndoes
    <3> QED
      BY <3>1, <3>2, <1>1
  <2> QED
    BY <2>1, <2>2, <1>3 DEF JournalUndoes
<1>6. AccessListOK'
  BY <1>1, <1>3 DEF CallInv, AccessListOK
<1>7. SnapshotsOK'
  BY <1>1, <1>2, <1>3 DEF CallInv, SnapshotsOK
<1> QED
  BY <1>4, <1>5, <1>6, <1>7 DEF CallInv

-----------------------------------------------------------------------------
(***************************************************************************)
(* Each mutation's entry undoes it.                                        *)
(***************************************************************************)
LEMMA UndoStorage ==
    ASSUME NEW s \in State, NEW x \in Slot, NEW v \in Word,
           NEW f \in {"storage", "transient"}
    PROVE  LET e == [kind |-> f, slot |-> x, prev |-> s[f][x]]
               t == [s EXCEPT ![f][x] = v]
           IN  /\ e \in Entry
               /\ t \in State
               /\ Undo(e, t) = s
               /\ t.slots = s.slots /\ t.addrs = s.addrs
BY DEF State, Entry, Undo

LEMMA UndoBalance ==
    ASSUME NEW s \in State, NEW a \in Addr, NEW v \in Word
    PROVE  LET e == [kind |-> "balance", addr |-> a, prev |-> s.balance[a]]
               t == [s EXCEPT !.balance[a] = v]
           IN  /\ e \in Entry
               /\ t \in State
               /\ Undo(e, t) = s
               /\ t.slots = s.slots /\ t.addrs = s.addrs
BY DEF State, Entry, Undo

LEMMA UndoRefund ==
    ASSUME NEW s \in State, NEW v \in Word
    PROVE  LET e == [kind |-> "refund", prev |-> s.refund]
               t == [s EXCEPT !.refund = v]
           IN  /\ e \in Entry
               /\ t \in State
               /\ Undo(e, t) = s
               /\ t.slots = s.slots /\ t.addrs = s.addrs
BY DEF State, Entry, Undo

LEMMA UndoAddr ==
    ASSUME NEW s \in State, NEW a \in Addr, a \notin s.addrs
    PROVE  LET e == [kind |-> "addr", addr |-> a]
               t == [s EXCEPT !.addrs = @ \cup {a}]
           IN  /\ e \in Entry
               /\ t \in State
               /\ Undo(e, t) = s
               /\ t.slots = s.slots /\ t.addrs = s.addrs \cup {a}
<1> DEFINE e == [kind |-> "addr", addr |-> a]
           t == [s EXCEPT !.addrs = @ \cup {a}]
<1>1. e \in Entry
  BY DEF Entry
<1>2. t \in State /\ t.slots = s.slots /\ t.addrs = s.addrs \cup {a}
  BY DEF State
<1>3. Undo(e, t) = [t EXCEPT !.addrs = t.addrs \ {a}]
  BY DEF Undo
<1>4. t.addrs \ {a} = s.addrs
  BY <1>2
<1>5. [t EXCEPT !.addrs = s.addrs] = s
  BY DEF State
<1> QED
  BY <1>1, <1>2, <1>3, <1>4, <1>5

LEMMA UndoSlot ==
    ASSUME NEW s \in State, NEW x \in Slot, x \notin s.slots
    PROVE  LET e == [kind |-> "slot", slot |-> x, hadAddr |-> x[1] \in s.addrs]
               t == [s EXCEPT !.addrs = @ \cup {x[1]}, !.slots = @ \cup {x}]
           IN  /\ e \in Entry
               /\ t \in State
               /\ Undo(e, t) = s
               /\ t.slots = s.slots \cup {x} /\ t.addrs = s.addrs \cup {x[1]}
<1> DEFINE had == x[1] \in s.addrs
           e == [kind |-> "slot", slot |-> x, hadAddr |-> had]
           t == [s EXCEPT !.addrs = @ \cup {x[1]}, !.slots = @ \cup {x}]
<1>1. had \in BOOLEAN
  OBVIOUS
<1>2. e \in Entry
  <2> HIDE DEF had
  <2> QED
    BY <1>1 DEF Entry
<1>3. t \in State /\ t.slots = s.slots \cup {x} /\ t.addrs = s.addrs \cup {x[1]}
  BY DEF State, Slot
<1>4. Undo(e, t) = [t EXCEPT !.slots = t.slots \ {x},
                             !.addrs = IF had THEN t.addrs ELSE t.addrs \ {x[1]}]
  <2> HIDE DEF had, t
  <2> QED
    BY DEF Undo
<1>5. t.slots \ {x} = s.slots /\ (IF had THEN t.addrs ELSE t.addrs \ {x[1]}) = s.addrs
  BY <1>3
<1>6. [t EXCEPT !.slots = s.slots, !.addrs = s.addrs] = s
  BY DEF State
<1> QED
  BY <1>2, <1>3, <1>4, <1>5, <1>6

LEMMA UndoLog ==
    ASSUME NEW s \in State, NEW l \in Log
    PROVE  LET e == [kind |-> "log", prevLen |-> Len(s.logs)]
               t == [s EXCEPT !.logs = Append(@, l)]
           IN  /\ e \in Entry
               /\ t \in State
               /\ Undo(e, t) = s
               /\ t.slots = s.slots /\ t.addrs = s.addrs
<1> DEFINE e == [kind |-> "log", prevLen |-> Len(s.logs)]
           t == [s EXCEPT !.logs = Append(@, l)]
<1>1. s.logs \in Seq(Log)
  BY DEF State
<1>2. e \in Entry
  BY <1>1 DEF Entry
<1>3. t \in State /\ t.slots = s.slots /\ t.addrs = s.addrs /\ t.logs = Append(s.logs, l)
  <2> DEFINE ls == Append(s.logs, l)
  <2>1. ls \in Seq(Log)
    BY <1>1
  <2> HIDE DEF ls
  <2>2. [s EXCEPT !.logs = ls] \in State
    BY <2>1 DEF State
  <2>3. /\ [s EXCEPT !.logs = ls].slots = s.slots
        /\ [s EXCEPT !.logs = ls].addrs = s.addrs
        /\ [s EXCEPT !.logs = ls].logs = ls
    BY DEF State
  <2> QED
    BY <2>2, <2>3 DEF ls
<1>4. Undo(e, t) = [t EXCEPT !.logs = SubSeq(t.logs, 1, Len(s.logs))]
  BY DEF Undo
<1>5. SubSeq(Append(s.logs, l), 1, Len(s.logs)) = s.logs
  BY <1>1
<1>6. [t EXCEPT !.logs = s.logs] = s
  BY DEF State
<1> QED
  BY <1>2, <1>3, <1>4, <1>5, <1>6

-----------------------------------------------------------------------------
(***************************************************************************)
(* The mutations, one by one.                                              *)
(***************************************************************************)
LEMMA WordArithmetic == \A n \in Int : n % Modulus \in Word
BY CallStateAssumption DEF Word

LEMMA CurrentState ==
    ASSUME CallInv
    PROVE  st \in State /\ \A x \in st.slots : x[1] \in st.addrs
<1>1. hist \in Seq(State) /\ Len(hist) \in 1..Len(hist) /\ hist[Len(hist)] = st
  BY DEF CallInv, TypeOK, JournalUndoes
<1> QED
  BY <1>1 DEF CallInv, TypeOK, AccessListOK

LEMMA FlagsOK == CallInv => lastErr \in BOOLEAN /\ running \in BOOLEAN
BY DEF CallInv, TypeOK

LEMMA SetStateKeepsInv ==
    ASSUME CallInv, NEW x \in Slot, NEW v \in Word,
           SetState(x, v) \/ SetTransientState(x, v)
    PROVE  CallInv'
<1>1. lastErr' \in BOOLEAN
  BY FlagsOK DEF SetState, SetTransientState
<1>2. CASE SetState(x, v)
  <2> DEFINE e == [kind |-> "storage", slot |-> x, prev |-> st.storage[x]]
             t == [st EXCEPT !.storage[x] = v]
  <2>1. Change(e, t)
    BY <1>2 DEF SetState
  <2>2. e \in Entry /\ t \in State /\ Undo(e, t) = st /\ t.slots = st.slots /\ t.addrs = st.addrs
    BY CurrentState, UndoStorage
  <2> HIDE DEF e, t
  <2> QED
    BY <1>1, <2>1, <2>2, CurrentState, ChangeKeepsInv
<1>3. CASE SetTransientState(x, v)
  <2> DEFINE e == [kind |-> "transient", slot |-> x, prev |-> st.transient[x]]
             t == [st EXCEPT !.transient[x] = v]
  <2>1. Change(e, t)
    BY <1>3 DEF SetTransientState
  <2>2. e \in Entry /\ t \in State /\ Undo(e, t) = st /\ t.slots = st.slots /\ t.addrs = st.addrs
    BY CurrentState, UndoStorage
  <2> HIDE DEF e, t
  <2> QED
    BY <1>1, <2>1, <2>2, CurrentState, ChangeKeepsInv
<1> QED
  BY <1>2, <1>3

LEMMA SetBalanceKeepsInv ==
    ASSUME CallInv, NEW a \in Addr, NEW v \in Word, SetBalance(a, v),
           lastErr' \in BOOLEAN
    PROVE  CallInv'
<1> DEFINE e == [kind |-> "balance", addr |-> a, prev |-> st.balance[a]]
           t == [st EXCEPT !.balance[a] = v]
<1>1. Change(e, t)
  BY DEF SetBalance
<1>2. e \in Entry /\ t \in State /\ Undo(e, t) = st /\ t.slots = st.slots /\ t.addrs = st.addrs
  BY CurrentState, UndoBalance
<1> HIDE DEF e, t
<1> QED
  BY <1>1, <1>2, CurrentState, ChangeKeepsInv

LEMMA AddBalanceKeepsInv ==
    ASSUME CallInv, NEW a \in Addr, NEW d \in Int, AddBalance(a, d)
    PROVE  CallInv'
<1>1. lastErr' \in BOOLEAN
  BY FlagsOK DEF AddBalance
<1>2. \A b \in Word : b + d \in Int
  BY CallStateAssumption DEF Word
<1>3. st.balance[a] # Absent => st.balance[a] \in Word
  BY CurrentState DEF State
<1>4. Base[a] \in Word
  BY CallStateAssumption
<1>5. PICK v \in Word : SetBalance(a, v)
  BY <1>2, <1>3, <1>4, WordArithmetic DEF AddBalance
<1> QED
  BY <1>1, <1>5, SetBalanceKeepsInv

LEMMA AddRefundKeepsInv ==
    ASSUME CallInv, NEW d \in Int, AddRefund(d)
    PROVE  CallInv'
<1> DEFINE v == (st.refund + d) % Modulus
           e == [kind |-> "refund", prev |-> st.refund]
           t == [st EXCEPT !.refund = v]
<1>1. lastErr' \in BOOLEAN
  BY FlagsOK DEF AddRefund
<1>2. v \in Word
  <2>1. st.refund + d \in Int
    BY CurrentState, CallStateAssumption DEF State, Word
  <2> QED
    BY <2>1, WordArithmetic
<1>3. Change(e, t)
  BY DEF AddRefund
<1> HIDE DEF v
<1>4. e \in Entry /\ t \in State /\ Undo(e, t) = st /\ t.slots = st.slots /\ t.addrs = st.addrs
  BY <1>2, CurrentState, UndoRefund
<1> HIDE DEF e, t
<1> QED
  BY <1>1, <1>3, <1>4, CurrentState, ChangeKeepsInv

LEMMA AddAddressKeepsInv ==
    ASSUME CallInv, NEW a \in Addr, AddAddressToAccessList(a)
    PROVE  CallInv'
<1> DEFINE e == [kind |-> "addr", addr |-> a]
           t == [st EXCEPT !.addrs = @ \cup {a}]
<1>1. lastErr' \in BOOLEAN
  BY FlagsOK DEF AddAddressToAccessList
<1>2. Change(e, t) /\ a \notin st.addrs
  BY DEF AddAddressToAccessList
<1>3. /\ e \in Entry /\ t \in State /\ Undo(e, t) = st
      /\ t.slots = st.slots /\ t.addrs = st.addrs \cup {a}
  BY <1>2, CurrentState, UndoAddr
<1> HIDE DEF e, t
<1> QED
  BY <1>1, <1>2, <1>3, CurrentState, ChangeKeepsInv

LEMMA AddLogKeepsInv ==
    ASSUME CallInv, NEW l \in Log, AddLog(l)
    PROVE  CallInv'
<1> DEFINE e == [kind |-> "log", prevLen |-> Len(st.logs)]
           t == [st EXCEPT !.logs = Append(@, l)]
<1>1. lastErr' \in BOOLEAN
  BY FlagsOK DEF AddLog
<1>2. Change(e, t)
  BY DEF AddLog
<1>3. e \in Entry /\ t \in State /\ Undo(e, t) = st /\ t.slots = st.slots /\ t.addrs = st.addrs
  BY CurrentState, UndoLog
<1> HIDE DEF e, t
<1> QED
  BY <1>1, <1>2, <1>3, CurrentState, ChangeKeepsInv

(***************************************************************************)
(* A slot that is listed already changes nothing: its address is listed.   *)
(***************************************************************************)
LEMMA KnownSlot ==
    ASSUME CallInv, NEW x \in Slot, x \in st.slots, AddSlotToAccessList(x)
    PROVE  UNCHANGED vars
<1>1. st \in State /\ x[1] \in st.addrs
  BY CurrentState
<1>2. st.addrs \cup {x[1]} = st.addrs /\ st.slots \cup {x} = st.slots
  BY <1>1
<1>3. [st EXCEPT !.addrs = st.addrs, !.slots = st.slots] = st
  BY <1>1 DEF State
<1> QED
  BY <1>2, <1>3 DEF AddSlotToAccessList, Unjournaled, vars

LEMMA AddSlotKeepsInv ==
    ASSUME CallInv, NEW x \in Slot, AddSlotToAccessList(x)
    PROVE  \/ UNCHANGED vars
           \/ /\ CallInv'
              /\ \E e \in Entry, t \in State : Change(e, t)
<1>1. CASE x \in st.slots
  BY <1>1, KnownSlot
<1>2. CASE x \notin st.slots
  <2> DEFINE e == [kind |-> "slot", slot |-> x, hadAddr |-> x[1] \in st.addrs]
             t == [st EXCEPT !.addrs = @ \cup {x[1]}, !.slots = @ \cup {x}]
  <2>1. lastErr' \in BOOLEAN
    BY FlagsOK DEF AddSlotToAccessList
  <2>2. Change(e, t)
    BY <1>2 DEF AddSlotToAccessList
  <2>3. /\ e \in Entry /\ t \in State /\ Undo(e, t) = st
        /\ t.slots = st.slots \cup {x} /\ t.addrs = st.addrs \cup {x[1]}
    BY <1>2, CurrentState, UndoSlot
  <2> HIDE DEF e, t
  <2> QED
    BY <2>1, <2>2, <2>3, CurrentState, ChangeKeepsInv
<1> QED
  BY <1>1, <1>2

-----------------------------------------------------------------------------
(***************************************************************************)
(* RevertToSnapshot.                                                       *)
(***************************************************************************)
LEMMA Prefix ==
    ASSUME NEW S, NEW q \in Seq(S), NEW k \in 0..Len(q)
    PROVE  /\ SubSeq(q, 1, k) \in Seq(S)
           /\ Len(SubSeq(q, 1, k)) = k
           /\ \A n \in 1..k : SubSeq(q, 1, k)[n] = q[n]
OBVIOUS

LEMMA RevertKeepsInv ==
    ASSUME CallInv, NEW i \in DOMAIN snapshots, RevertToSnapshot(i)
    PROVE  CallInv'
<1>1. snapshots \in Seq(Nat) /\ Len(journal) \in Nat /\ i \in 1..Len(snapshots)
  BY DEF CallInv, TypeOK
<1>2. /\ snapshots' = SubSeq(snapshots, 1, i - 1) /\ target' = snapshots[i] /\ running
      /\ UNCHANGED <<st, journal, running, lastErr, hist>>
  BY DEF RevertToSnapshot
<1>3. /\ snapshots' \in Seq(Nat) /\ Len(snapshots') = i - 1
      /\ \A j \in 1..i - 1 : snapshots'[j] = snapshots[j]
  BY <1>1, <1>2, Prefix
<1>4. TypeOK'
  BY <1>1, <1>2, <1>3 DEF CallInv, TypeOK
<1>5. JournalUndoes' /\ AccessListOK'
  BY <1>2 DEF CallInv, JournalUndoes, AccessListOK
<1>6. SnapshotsOK'
  <2>1. /\ \A j \in 1..Len(snapshots) : snapshots[j] \in 0..Len(journal)
        /\ \A j, k \in 1..Len(snapshots) : j <= k => snapshots[j] <= snapshots[k]
    BY DEF CallInv, SnapshotsOK
  <2>2. \A j \in 1..i - 1 : j \in 1..Len(snapshots) /\ j <= i
    BY <1>1
  <2>3. \A j \in 1..i - 1 : snapshots'[j] \in 0..Len(journal) /\ snapshots'[j] <= snapshots[i]
    BY <1>1, <1>3, <2>1, <2>2
  <2>4. \A j, k \in 1..i - 1 : j <= k => snapshots'[j] <= snapshots'[k]
    BY <1>3, <2>1, <2>2
  <2>5. target' \in 0..Len(journal) /\ running' /\ Len(journal') = Len(journal)
    BY <1>1, <1>2, <2>1
  <2> QED
    BY <1>2, <1>3, <2>3, <2>4, <2>5 DEF SnapshotsOK
<1> QED
  BY <1>4, <1>5, <1>6 DEF CallInv

LEMMA UndoKeepsInv ==
    ASSUME CallInv, UndoLast
    PROVE  CallInv'
<1>1. PICK m \in Nat \ {0} : Len(journal) = m
  BY CallStateAssumption DEF CallInv, TypeOK, SnapshotsOK, UndoLast
<1>2. /\ journal \in Seq(Entry) /\ hist \in Seq(State) /\ Len(hist) = m + 1
      /\ target \in 0..m - 1 /\ snapshots \in Seq(Nat)
  BY <1>1 DEF CallInv, TypeOK, SnapshotsOK, UndoLast
<1>3. /\ journal' = SubSeq(journal, 1, m - 1) /\ hist' = SubSeq(hist, 1, m)
      /\ st' = Undo(journal[m], st)
      /\ UNCHANGED <<snapshots, target, running, lastErr>>
  BY <1>1 DEF UndoLast
<1>4. /\ journal' \in Seq(Entry) /\ Len(journal') = m - 1
      /\ \A n \in 1..m - 1 : journal'[n] = journal[n]
  <2>1. m - 1 \in 0..Len(journal)
    BY <1>1
  <2> QED
    BY <2>1, <1>2, <1>3, Prefix
<1>5. /\ hist' \in Seq(State) /\ Len(hist') = m
      /\ \A n \in 1..m : hist'[n] = hist[n]
  <2>1. m \in 0..Len(hist)
    BY <1>2
  <2> QED
    BY <2>1, <1>2, <1>3, Prefix
<1>6. \A n \in 1..m : Undo(journal[n], hist[n + 1]) = hist[n]
  BY <1>1 DEF CallInv, JournalUndoes
<1>7. st' = hist[m] /\ hist[m] \in State
  <2>1. st = hist[m + 1]
    BY <1>2 DEF CallInv, JournalUndoes
  <2> QED
    BY <2>1, <1>2, <1>3, <1>6
<1>8. TypeOK'
  BY <1>2, <1>3, <1>4, <1>5, <1>7 DEF CallInv, TypeOK
<1>9. JournalUndoes'
  <2>1. ASSUME NEW n \in 1..m - 1
        PROVE  Undo(journal'[n], hist'[n + 1]) = hist'[n]
    <3>1. n \in 1..m /\ n + 1 \in 1..m
      OBVIOUS
    <3>2. journal'[n] = journal[n] /\ hist'[n + 1] = hist[n + 1] /\ hist'[n] = hist[n]
      BY <3>1, <1>4, <1>5
    <3> QED
      BY <3>1, <3>2, <1>6
  <2>2. hist'[Len(hist')] = st'
    BY <1>5, <1>7
  <2> QED
    BY <2>1, <2>2, <1>4 DEF JournalUndoes
<1>10. AccessListOK'
  <2>1. \A n \in 1..m : n \in 1..Len(hist)
    BY <1>2
  <2>2. \A n \in 1..m : \A x \in hist[n].slots : x[1] \in hist[n].addrs
    BY <2>1 DEF CallInv, AccessListOK
  <2> QED
    BY <2>2, <1>5 DEF AccessListOK
<1>11. SnapshotsOK'
  <2>1. \A i \in 1..Len(snapshots) : snapshots[i] \in 0..m /\ snapshots[i] <= target
    BY <1>1, <1>2, CallStateAssumption DEF CallInv, SnapshotsOK, UndoLast
  <2>2. \A i \in 1..Len(snapshots) : snapshots[i] \in 0..m - 1
    BY <1>2, <2>1
  <2>3. running /\ \A i, j \in 1..Len(snapshots) : i <= j => snapshots[i] <= snapshots[j]
    BY DEF CallInv, SnapshotsOK, UndoLast
  <2> QED
    BY <2>1, <2>2, <2>3, <1>2, <1>3, <1>4 DEF SnapshotsOK
<1> QED
  BY <1>8, <1>9, <1>10, <1>11 DEF CallInv

LEMMA OtherStepsKeepInv ==
    ASSUME CallInv, Begin \/ End \/ Snapshot \/ Reverted
                    \/ \E recorded \in BOOLEAN : FailedRead(recorded)
    PROVE  CallInv'
<1> USE CallStateAssumption
<1>1. CASE Begin
  <2>1. target = NoTarget
    BY <1>1 DEF CallInv, SnapshotsOK, Begin
  <2>2. /\ st' = Fresh /\ hist' = <<Fresh>> /\ journal' = <<>> /\ snapshots' = <<>>
        /\ target' = NoTarget
    BY <1>1, <2>1 DEF Begin
  <2>3. running' \in BOOLEAN /\ lastErr' \in BOOLEAN
    BY <1>1 DEF Begin
  <2>4. TypeOK'
    <3>1. /\ st' \in State /\ journal' \in Seq(Entry) /\ snapshots' \in Seq(Nat)
          /\ hist' \in Seq(State) /\ Len(hist') = Len(journal') + 1
      BY <2>2, FreshIsState
    <3> QED
      BY <3>1, <2>2, <2>3 DEF TypeOK
  <2>5. JournalUndoes' /\ AccessListOK' /\ SnapshotsOK'
    BY <2>2 DEF JournalUndoes, AccessListOK, SnapshotsOK, Fresh
  <2> QED
    BY <2>4, <2>5 DEF CallInv
<1>2. CASE Snapshot
  <2>1. /\ snapshots \in Seq(Nat) /\ Len(journal) \in Nat
        /\ snapshots' = Append(snapshots, Len(journal)) /\ target = NoTarget
        /\ UNCHANGED <<st, journal, target, running, lastErr, hist>>
    BY <1>2 DEF CallInv, TypeOK, Snapshot
  <2>2. /\ snapshots' \in Seq(Nat) /\ Len(snapshots') = Len(snapshots) + 1
        /\ \A i \in 1..Len(snapshots) : snapshots'[i] = snapshots[i]
        /\ snapshots'[Len(snapshots) + 1] = Len(journal)
    BY <2>1
  <2>3. TypeOK' /\ JournalUndoes' /\ AccessListOK'
    BY <2>1, <2>2 DEF CallInv, TypeOK, JournalUndoes, AccessListOK
  <2>4. SnapshotsOK'
    BY <2>1, <2>2 DEF CallInv, SnapshotsOK
  <2> QED
    BY <2>3, <2>4 DEF CallInv
<1>3. ASSUME UNCHANGED <<st, journal, snapshots, hist>>,
             target' = NoTarget \/ (target' = target /\ running' = running),
             running' \in BOOLEAN, lastErr' \in BOOLEAN
      PROVE  CallInv'
  <2>1. TypeOK'
    BY <1>3 DEF CallInv, TypeOK
  <2>2. JournalUndoes' /\ AccessListOK' /\ SnapshotsOK'
    BY <1>3 DEF CallInv, JournalUndoes, AccessListOK, SnapshotsOK
  <2> QED
    BY <2>1, <2>2 DEF CallInv
<1>4. CASE End
  <2>1. running' \in BOOLEAN /\ lastErr' \in BOOLEAN
    BY <1>4, FlagsOK DEF End
  <2>2. /\ UNCHANGED <<st, journal, snapshots, hist>>
        /\ target' = NoTarget \/ (target' = target /\ running' = running)
    BY <1>4 DEF End
  <2> QED
    BY <2>1, <2>2, <1>3
<1>5. CASE Reverted
  <2>1. running' \in BOOLEAN /\ lastErr' \in BOOLEAN
    BY <1>5, FlagsOK DEF Reverted
  <2> QED
    BY <2>1, <1>3, <1>5 DEF Reverted
<1>6. ASSUME NEW recorded \in BOOLEAN, FailedRead(recorded)
      PROVE  CallInv'
  <2>1. running' \in BOOLEAN /\ lastErr' \in BOOLEAN
    BY <1>6, FlagsOK DEF FailedRead
  <2>2. /\ UNCHANGED <<st, journal, snapshots, hist>>
        /\ target' = NoTarget \/ (target' = target /\ running' = running)
    BY <1>6 DEF FailedRead
  <2> QED
    BY <2>1, <2>2, <1>3
<1> QED
  BY <1>1, <1>2, <1>4, <1>5, <1>6

-----------------------------------------------------------------------------
\* Every mutation, snapshot, revert and reset keeps the journal's inductive
\* invariant.
THEOREM NextCallInv == CallInv /\ [Next]_vars => CallInv'
<1> SUFFICES ASSUME CallInv, [Next]_vars PROVE CallInv'
  OBVIOUS
<1>1. CASE UNCHANGED vars
  <2>1. UNCHANGED <<st, journal, snapshots, target, running, lastErr, hist>>
    BY <1>1 DEF vars
  <2> QED
    BY <2>1 DEF CallInv, TypeOK, JournalUndoes, AccessListOK, SnapshotsOK
<1>2. ASSUME NEW x \in Slot, AddSlotToAccessList(x) PROVE CallInv'
  BY <1>1, <1>2, AddSlotKeepsInv
<1>3. ASSUME NEW a \in Addr, SelfDestruct(a) PROVE CallInv'
  <2>1. lastErr' \in BOOLEAN /\ SetBalance(a, 0)
    BY <1>3, FlagsOK DEF SelfDestruct
  <2>2. 0 \in Word
    BY CallStateAssumption DEF Word
  <2> QED
    BY <2>1, <2>2, SetBalanceKeepsInv
<1> QED
  BY <1>1, <1>2, <1>3, SetStateKeepsInv, AddBalanceKeepsInv, AddRefundKeepsInv,
     AddAddressKeepsInv, AddLogKeepsInv, RevertKeepsInv, UndoKeepsInv, OtherStepsKeepInv
  DEF Next

(***************************************************************************)
(* The fields of CallState keep their types, word arithmetic included.     *)
(***************************************************************************)
THEOREM CallTypeCorrect == Spec => []TypeOK
<1>1. CallInv => TypeOK
  BY DEF CallInv
<1> QED
  BY <1>1, InitCallInv, NextCallInv, PTL DEF Spec

(***************************************************************************)
(* RevertToSnapshot leaves exactly the state of the snapshot.              *)
(***************************************************************************)
THEOREM RevertIsExact == Spec => []RestoresSnapshot
<1>1. CallInv => RestoresSnapshot
  <2> SUFFICES ASSUME CallInv, target = Len(journal) PROVE st = hist[target + 1]
    BY DEF RestoresSnapshot
  <2> QED
    BY DEF CallInv, TypeOK, JournalUndoes
<1> QED
  BY <1>1, InitCallInv, NextCallInv, PTL DEF Spec

(***************************************************************************)
(* The access list never holds a slot without its address, so SlotInAccess-*)
(* List cannot report a warm slot of a cold address.                       *)
(***************************************************************************)
THEOREM SlotsKeepAddrs == Spec => []SlotsHaveAddrs
<1>1. CallInv => SlotsHaveAddrs
  BY CurrentState DEF SlotsHaveAddrs
<1> QED
  BY <1>1, InitCallInv, NextCallInv, PTL DEF Spec

-----------------------------------------------------------------------------
(***************************************************************************)
(* The journal implements a stack of copies.                               *)
(***************************************************************************)
Saved == [i \in 1..Len(snapshots) |-> hist[snapshots[i] + 1]]
Present == IF target = NoTarget THEN st ELSE hist[target + 1]

\* One write of the abstract state.
IsWrite(s) ==
    \/ \E k \in Slot, v \in Word : s \in {[st EXCEPT !.storage[k] = v],
                                          [st EXCEPT !.transient[k] = v]}
    \/ \E a \in Addr, v \in Word : s = [st EXCEPT !.balance[a] = v]
    \/ \E v \in Word : s = [st EXCEPT !.refund = v]
    \/ \E a \in Addr : s = [st EXCEPT !.addrs = @ \cup {a}]
    \/ \E k \in Slot : s = [st EXCEPT !.addrs = @ \cup {k[1]}, !.slots = @ \cup {k}]
    \/ \E l \in Log : s = [st EXCEPT !.logs = Append(@, l)]

\* A mutation leaves the copies alone, whatever state it goes to.
LEMMA ChangeKeepsSaved ==
    ASSUME CallInv, NEW e, NEW s, Change(e, s)
    PROVE  Saved' = Saved /\ target = NoTarget /\ target' = NoTarget /\ st' = s
<1>1. /\ hist \in Seq(State) /\ Len(hist) = Len(journal) + 1 /\ Len(journal) \in Nat
      /\ \A i \in 1..Len(snapshots) : snapshots[i] \in 0..Len(journal)
  BY DEF CallInv, TypeOK, SnapshotsOK
<1>2. /\ hist' = Append(hist, s) /\ st' = s /\ snapshots' = snapshots
      /\ target = NoTarget /\ target' = NoTarget
  BY DEF Change
<1>3. \A i \in 1..Len(snapshots) : hist'[snapshots[i] + 1] = hist[snapshots[i] + 1]
  BY <1>1, <1>2
<1> QED
  BY <1>2, <1>3 DEF Saved

\* Every mutation is one write.
LEMMA MutationIsWrite ==
    ASSUME CallInv,
           \/ \E s \in Slot, v \in Word : SetState(s, v) \/ SetTransientState(s, v)
           \/ \E a \in Addr, d \in {-1, 1} : AddBalance(a, d)
           \/ \E a \in Addr : SelfDestruct(a) \/ AddAddressToAccessList(a)
           \/ \E d \in {-1, 1} : AddRefund(d)
           \/ \E l \in Log : AddLog(l)
    PROVE  \E e, s : Change(e, s) /\ IsWrite(s)
<1>1. st \in State
  BY CurrentState
<1>2. ASSUME NEW x \in Slot, NEW v \in Word, SetState(x, v)
      PROVE  \E e, s : Change(e, s) /\ IsWrite(s)
  <2>1. IsWrite([st EXCEPT !.storage[x] = v])
    BY DEF IsWrite
  <2> QED
    BY <1>2, <2>1 DEF SetState
<1>3. ASSUME NEW x \in Slot, NEW v \in Word, SetTransientState(x, v)
      PROVE  \E e, s : Change(e, s) /\ IsWrite(s)
  <2>1. IsWrite([st EXCEPT !.transient[x] = v])
    BY DEF IsWrite
  <2> QED
    BY <1>3, <2>1 DEF SetTransientState
<1>4. ASSUME NEW a \in Addr, NEW v \in Word, SetBalance(a, v)
      PROVE  \E e, s : Change(e, s) /\ IsWrite(s)
  <2>1. IsWrite([st EXCEPT !.balance[a] = v])
    BY DEF IsWrite
  <2> QED
    BY <1>4, <2>1 DEF SetBalance
<1>5. ASSUME NEW a \in Addr, NEW d \in {-1, 1}, AddBalance(a, d)
      PROVE  \E e, s : Change(e, s) /\ IsWrite(s)
  <2>1. st.balance[a] # Absent => st.balance[a] \in Word
    BY <1>1 DEF State
  <2>2. Base[a] \in Word /\ \A b \in Word : b + d \in Int
    BY CallStateAssumption DEF Word
  <2>3. PICK v \in Word : SetBalance(a, v)
    BY <1>5, <2>1, <2>2, WordArithmetic DEF AddBalance
  <2> QED
    BY <2>3, <1>4
<1>6. ASSUME NEW a \in Addr, SelfDestruct(a)
      PROVE  \E e, s : Change(e, s) /\ IsWrite(s)
  <2>1. 0 \in Word
    BY CallStateAssumption DEF Word
  <2> QED
    BY <2>1, <1>4, <1>6 DEF SelfDestruct
<1>7. ASSUME NEW a \in Addr, AddAddressToAccessList(a)
      PROVE  \E e, s : Change(e, s) /\ IsWrite(s)
  <2>1. IsWrite([st EXCEPT !.addrs = @ \cup {a}])
    BY DEF IsWrite
  <2> QED
    BY <1>7, <2>1 DEF AddAddressToAccessList
<1>8. ASSUME NEW d \in {-1, 1}, AddRefund(d)
      PROVE  \E e, s : Change(e, s) /\ IsWrite(s)
  <2>1. st.refund + d \in Int
    BY <1>1, CallStateAssumption DEF State, Word
  <2>2. (st.refund + d) % Modulus \in Word
    BY <2>1, WordArithmetic
  <2>3. IsWrite([st EXCEPT !.refund = (@ + d) % Modulus])
    BY <2>2 DEF IsWrite
  <2> QED
    BY <1>8, <2>3 DEF AddRefund
<1>9. ASSUME NEW l \in Log, AddLog(l)
      PROVE  \E e, s : Change(e, s) /\ IsWrite(s)
  <2>1. IsWrite([st EXCEPT !.logs = Append(@, l)])
    BY DEF IsWrite
  <2> QED
    BY <1>9, <2>1 DEF AddLog
<1> QED
  BY <1>2, <1>3, <1>5, <1>6, <1>7, <1>8, <1>9

\* A slot is added with its address, once; the second time nothing changes.
LEMMA AddSlotIsWrite ==
    ASSUME CallInv, NEW x \in Slot, AddSlotToAccessList(x)
    PROVE  UNCHANGED vars \/ \E e, s : Change(e, s) /\ IsWrite(s)
<1>1. IsWrite([st EXCEPT !.addrs = @ \cup {x[1]}, !.slots = @ \cup {x}])
  BY DEF IsWrite
<1>2. CASE x \notin st.slots
  BY <1>1, <1>2 DEF AddSlotToAccessList
<1>3. CASE x \in st.slots
  BY <1>3, AddSlotKeepsInv, KnownSlot DEF AddSlotToAccessList, Unjournaled, vars
<1> QED
  BY <1>2, <1>3

LEMMA RevertIsRevert ==
    ASSUME CallInv, NEW i \in DOMAIN snapshots, RevertToSnapshot(i)
    PROVE  i \in DOMAIN Saved /\ Present' = Saved[i] /\ Saved' = SubSeq(Saved, 1, i - 1)
<1>1. /\ snapshots \in Seq(Nat) /\ i \in 1..Len(snapshots) /\ hist \in Seq(State)
      /\ Len(hist) = Len(journal) + 1 /\ Len(journal) \in Nat
      /\ \A j \in 1..Len(snapshots) : snapshots[j] \in 0..Len(journal)
  BY DEF CallInv, TypeOK, SnapshotsOK
<1>2. snapshots' = SubSeq(snapshots, 1, i - 1) /\ target' = snapshots[i] /\ hist' = hist
  BY DEF RevertToSnapshot
<1>3. i \in DOMAIN Saved /\ Present' = Saved[i]
  BY <1>1, <1>2, CallStateAssumption DEF Saved, Present
<1>4. /\ Len(snapshots') = i - 1
      /\ \A j \in 1..i - 1 : snapshots'[j] = snapshots[j]
  BY <1>1, <1>2, Prefix
<1>5. Saved \in Seq(State) /\ Len(Saved) = Len(snapshots)
  BY <1>1 DEF Saved
<1>6. Saved' = [j \in 1..i - 1 |-> hist[snapshots[j] + 1]]
  BY <1>2, <1>4 DEF Saved
<1>7. SubSeq(Saved, 1, i - 1) = [j \in 1..i - 1 |-> Saved[j]]
  BY <1>1, <1>5
<1>8. \A j \in 1..i - 1 : Saved[j] = hist[snapshots[j] + 1]
  BY <1>1 DEF Saved
<1> QED
  BY <1>3, <1>6, <1>7, <1>8

LEMMA IsAppend ==
    ASSUME NEW S, NEW s \in Seq(S), NEW e \in S, NEW t \in Seq(S), Len(t) = Len(s) + 1,
           \A i \in 1..Len(s) : t[i] = s[i], t[Len(s) + 1] = e
    PROVE  t = Append(s, e)
<1>1. \A i \in 1..Len(t) : t[i] = Append(s, e)[i]
  BY AppendProperties
<1>2. Append(s, e) \in Seq(S) /\ Len(t) = Len(Append(s, e))
  BY AppendProperties
<1> QED
  BY <1>1, <1>2, SeqEqual

LEMMA SnapshotIsSnapshot ==
    ASSUME CallInv, Snapshot
    PROVE  Saved' = Append(Saved, Present) /\ Present' = Present
<1>1. /\ snapshots \in Seq(Nat) /\ hist \in Seq(State)
      /\ Len(hist) = Len(journal) + 1 /\ Len(journal) \in Nat /\ hist[Len(hist)] = st
      /\ \A j \in 1..Len(snapshots) : snapshots[j] \in 0..Len(journal)
  BY DEF CallInv, TypeOK, SnapshotsOK, JournalUndoes
<1>2. /\ snapshots' = Append(snapshots, Len(journal)) /\ target = NoTarget
      /\ UNCHANGED <<target, st, hist>>
  BY DEF Snapshot
<1>3. Saved \in Seq(State) /\ Len(Saved) = Len(snapshots)
  BY <1>1 DEF Saved
<1>4. /\ Len(snapshots') = Len(snapshots) + 1
      /\ \A j \in 1..Len(snapshots) : snapshots'[j] = snapshots[j]
      /\ snapshots'[Len(snapshots) + 1] = Len(journal)
  BY <1>1, <1>2
<1>5. Saved' = [j \in 1..Len(snapshots) + 1 |-> hist[snapshots'[j] + 1]]
  BY <1>2, <1>4 DEF Saved
<1>6. /\ \A j \in 1..Len(snapshots) : Saved[j] = hist[snapshots[j] + 1]
      /\ \A j \in 1..Len(snapshots) + 1 : Saved'[j] = hist[snapshots'[j] + 1]
      /\ st \in State
  BY <1>1, <1>5 DEF Saved, CallInv, TypeOK
<1>7. ASSUME NEW j \in 1..Len(snapshots) + 1
      PROVE  hist[snapshots'[j] + 1] \in State
  BY <1>1, <1>4
<1>8. Saved' \in Seq(State) /\ Len(Saved') = Len(Saved) + 1
  BY <1>1, <1>3, <1>5, <1>7
<1>9. /\ \A j \in 1..Len(Saved) : Saved'[j] = Saved[j]
      /\ Saved'[Len(Saved) + 1] = st
  <2>1. ASSUME NEW j \in 1..Len(Saved) PROVE Saved'[j] = Saved[j]
    <3>1. j \in 1..Len(snapshots) /\ j \in 1..Len(snapshots) + 1
      BY <1>1, <1>3
    <3> QED
      BY <3>1, <1>4, <1>6
  <2>2. Len(snapshots) + 1 \in 1..Len(snapshots) + 1
    BY <1>1
  <2>3. Saved'[Len(snapshots) + 1] = hist[Len(journal) + 1]
    BY <2>2, <1>4, <1>6
  <2> QED
    BY <2>1, <2>3, <1>1, <1>3
<1>10. Saved' = Append(Saved, st)
  BY <1>3, <1>6, <1>8, <1>9, IsAppend
<1> QED
  BY <1>2, <1>10 DEF Present

\* Undoing entries above the target changes neither what the snapshots
\* remember nor the state the revert is going to.
LEMMA UndoIsStutter ==
    ASSUME CallInv, UndoLast
    PROVE  Saved' = Saved /\ Present' = Present
<1>1. /\ hist \in Seq(State) /\ Len(hist) = Len(journal) + 1 /\ Len(journal) \in Nat
      /\ target \in 0..Len(journal) /\ Len(journal) > target
      /\ \A i \in 1..Len(snapshots) : snapshots[i] \in 0..Len(journal) /\ snapshots[i] <= target
      /\ UNCHANGED <<snapshots, target>> /\ target # NoTarget
      /\ hist' = SubSeq(hist, 1, Len(journal))
  BY DEF CallInv, TypeOK, SnapshotsOK, UndoLast
<1>2. \A n \in 1..Len(journal) : hist'[n] = hist[n]
  BY <1>1, Prefix
<1>3. \A i \in 1..Len(snapshots) : hist'[snapshots[i] + 1] = hist[snapshots[i] + 1]
  BY <1>1, <1>2
<1>4. hist'[target + 1] = hist[target + 1]
  BY <1>1, <1>2
<1> QED
  BY <1>1, <1>3, <1>4 DEF Saved, Present

\* The undone entries have left exactly the copy: this is where the journal
\* answers for what it restored.
LEMMA RevertedIsReverted ==
    ASSUME CallInv, Reverted
    PROVE  /\ Saved' = Saved /\ Present' = Present
           /\ target # NoTarget /\ target' = NoTarget
<1>1. hist[Len(hist)] = st /\ Len(hist) = Len(journal) + 1 /\ Len(journal) \in Nat
  BY DEF CallInv, TypeOK, JournalUndoes
<1>2. /\ target = Len(journal) /\ target' = NoTarget /\ UNCHANGED <<st, snapshots, hist>>
  BY DEF Reverted
<1>3. Present' = st
  BY <1>2 DEF Present
<1>4. target # NoTarget
  BY <1>1, <1>2, CallStateAssumption
<1>5. Present = st
  BY <1>1, <1>2, <1>4 DEF Present
<1>6. Saved' = Saved
  BY <1>2 DEF Saved
<1> QED
  BY <1>2, <1>3, <1>4, <1>5, <1>6

LEMMA InitIsInit == Init => Copies!Init
<1> SUFFICES ASSUME Init PROVE Copies!Init
  OBVIOUS
<1>1. Present = Fresh /\ target = NoTarget
  BY DEF Init, Present
<1>2. Saved = <<>>
  BY DEF Init, Saved
<1> QED
  BY <1>1, <1>2 DEF Copies!Init, Present, Saved

LEMMA StepIsStep == CallInv /\ [Next]_vars => [Copies!Next]_(Copies!vars)
<1> SUFFICES ASSUME CallInv, [Next]_vars PROVE [Copies!Next]_(Copies!vars)
  OBVIOUS
<1>1. ASSUME Saved' = Saved, Present' = Present, target' = target
      PROVE  [Copies!Next]_(Copies!vars)
  BY <1>1 DEF Copies!vars, Saved, Present
<1>2. ASSUME NEW e, NEW s, Change(e, s), IsWrite(s) PROVE [Copies!Next]_(Copies!vars)
  <2>1. Saved' = Saved /\ target = NoTarget /\ target' = NoTarget /\ st' = s
    BY <1>2, ChangeKeepsSaved
  <2>2. Present = st /\ Present' = s
    BY <2>1 DEF Present
  <2>3. Copies!Write
    BY <1>2, <2>1, <2>2 DEF IsWrite, Copies!Write, Saved, Present
  <2> QED
    BY <2>3 DEF Copies!Next
<1>4. ASSUME UNCHANGED <<st, snapshots, target, hist>> PROVE [Copies!Next]_(Copies!vars)
  <2>1. Saved' = Saved /\ Present' = Present
    BY <1>4 DEF Saved, Present
  <2> QED
    BY <1>1, <1>4, <2>1
<1>5. CASE UNCHANGED vars
  BY <1>4, <1>5 DEF vars
<1>6. CASE Begin
  <2>1. /\ target = NoTarget /\ target' = NoTarget
        /\ st' = Fresh /\ snapshots' = <<>>
    BY <1>6 DEF CallInv, SnapshotsOK, Begin
  <2>2. Present' = Fresh /\ Saved' = <<>>
    BY <2>1 DEF Present, Saved
  <2>3. Copies!Begin
    BY <2>1, <2>2 DEF Copies!Begin, Saved, Present
  <2> QED
    BY <2>3 DEF Copies!Next
<1>7. CASE End
  BY <1>4, <1>7 DEF End
<1>8. ASSUME NEW recorded \in BOOLEAN, FailedRead(recorded)
      PROVE  [Copies!Next]_(Copies!vars)
  BY <1>4, <1>8 DEF FailedRead
<1>9. ASSUME NEW x \in Slot, AddSlotToAccessList(x)
      PROVE  [Copies!Next]_(Copies!vars)
  <2>1. CASE UNCHANGED vars
    BY <2>1, <1>4 DEF vars
  <2>2. CASE \E e, s : Change(e, s) /\ IsWrite(s)
    BY <2>2, <1>2
  <2> QED
    BY <2>1, <2>2, <1>9, AddSlotIsWrite
<1>10. CASE Snapshot
  <2>1. target = NoTarget /\ target' = NoTarget
    BY <1>10 DEF Snapshot
  <2>2. Copies!Snapshot
    BY <1>10, <2>1, SnapshotIsSnapshot DEF Copies!Snapshot, Saved, Present
  <2> QED
    BY <2>2 DEF Copies!Next
<1>11. ASSUME NEW i \in DOMAIN snapshots, RevertToSnapshot(i)
       PROVE  [Copies!Next]_(Copies!vars)
  <2>1. target = NoTarget /\ target' # NoTarget
    BY <1>11, CallStateAssumption DEF RevertToSnapshot, CallInv, TypeOK
  <2>2. i \in DOMAIN Saved /\ Copies!RevertToSnapshot(i)
    BY <1>11, <2>1, RevertIsRevert DEF Copies!RevertToSnapshot, Saved, Present
  <2> QED
    BY <2>2 DEF Copies!Next, Saved
<1>12. CASE UndoLast
  <2>1. target' = target
    BY <1>12 DEF UndoLast
  <2> QED
    BY <1>1, <1>12, <2>1, UndoIsStutter
<1>13. CASE Reverted
  <2>1. Copies!Reverted
    BY <1>13, RevertedIsReverted DEF Copies!Reverted, Saved, Present
  <2> QED
    BY <2>1 DEF Copies!Next
<1>14. CASE \/ \E s \in Slot, v \in Word : SetState(s, v) \/ SetTransientState(s, v)
            \/ \E a \in Addr, d \in {-1, 1} : AddBalance(a, d)
            \/ \E a \in Addr : SelfDestruct(a) \/ AddAddressToAccessList(a)
            \/ \E d \in {-1, 1} : AddRefund(d)
            \/ \E l \in Log : AddLog(l)
  BY <1>2, <1>14, MutationIsWrite
<1> QED
  BY <1>5, <1>6, <1>7, <1>8, <1>9, <1>10, <1>11, <1>12, <1>13, <1>14 DEF Next

(***************************************************************************)
(* For the EVM, CallState's journal is a stack of complete copies of the   *)
(* state: each mutation is one write of one field, Snapshot pushes, and    *)
(* when RevertToSnapshot returns the entries it has undone have brought    *)
(* back exactly the copy, while the later copies are gone.                 *)
(***************************************************************************)
THEOREM JournalImplementsCopies == Spec => ImplementsEvmState
BY InitCallInv, NextCallInv, InitIsInit, StepIsStep, PTL
   DEF Spec, ImplementsEvmState, Copies!Spec
=============================================================================
