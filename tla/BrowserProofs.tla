---------------------------- MODULE BrowserProofs ----------------------------
(***************************************************************************)
(* WrongOnlyWhere and OnlyFirstLost of Browser, for any number of readers, *)
(* keys, blocks and requests.                                              *)
(***************************************************************************)
EXTENDS Browser, SequenceTheorems, TLAPS

-----------------------------------------------------------------------------
(***************************************************************************)
(* The inductive invariant.                                                *)
(***************************************************************************)

\* What a message may say, given the chain so far.
Diffs == {[t |-> "diff", block |-> b, keys |-> writes[b]] : b \in 1..Block}
Dumps == {[t |-> "dump", block |-> b, im |-> [k \in Dumped |-> ValueAt(k, b)]] : b \in 0..Block}
Answers == [t : {"answer"}, id : 1..nextID,
            v : {Zero} \cup {ValueAt(q[1], q[2]) : q \in Keys \X (0..Block)}]
Requests == [t : {"request"}, id : 1..nextID, key : Keys]
Subscription == [t |-> "subscribe"]

TypeInv ==
    /\ writes \in Seq(SUBSET Keys)
    /\ nextID \in Nat
    /\ in \in Seq(Dumps \cup Answers \cup Diffs)
    /\ out \in Seq({Subscription} \cup Requests)
    /\ firstMsg \in Seq(Dumps \cup Diffs)
    /\ waiting \in Seq(Diffs)
    /\ phase \in {"dial", "dump", "live", "failed"}
    /\ closed \in BOOLEAN /\ subscribed \in BOOLEAN
    /\ DOMAIN replica = {"block", "im", "bf"} /\ replica.block \in 0..Block
    /\ DOMAIN replica.im \subseteq Keys /\ DOMAIN replica.bf \subseteq Keys

\* A goroutine that waits has an id that was given out, and nobody else has an answer.
ReadersInv ==
    /\ DOMAIN reader = Readers
    /\ \A r \in Readers :
          /\ DOMAIN reader[r] = {"pc", "kind", "key", "id", "ch"}
          /\ reader[r].pc \in {"idle", "reading", "waiting"}
          /\ reader[r].pc # "waiting" => reader[r].ch = <<>>
          /\ reader[r].pc = "waiting" => reader[r].id \in 1..nextID /\ reader[r].key \in Keys

\* The blocks of the diffs on the wire, at the lock, and in firstMsg.
Carried == {in[i].block : i \in {j \in DOMAIN in : in[j].t = "diff"}}
Queued == {waiting[i].block : i \in DOMAIN waiting}
First == {firstMsg[i].block : i \in DOMAIN firstMsg}

\* What is where in each phase of ConnectBrowser.
PhaseInv ==
    /\ phase # "live" =>
          /\ replica.im = Empty /\ replica.bf = Empty /\ waiting = <<>>
          /\ \A r \in Readers : reader[r].pc = "idle"
    /\ phase = "dial" => /\ out = <<>> /\ in = <<>> /\ firstMsg = <<>>
                         /\ ~subscribed /\ ~closed
    /\ phase = "dump" =>
          /\ IF subscribed THEN out = <<>>
             ELSE in = <<>> /\ firstMsg = <<>> /\ out \in {<<>>, <<Subscription>>}
          /\ firstMsg # <<>> => /\ firstMsg[1] \in Dumps
                                /\ \A i \in DOMAIN in : in[i].t = "diff"
          /\ firstMsg = <<>> /\ in # <<>> => /\ in[1] \in Dumps
                                             /\ \A i \in DOMAIN in \ {1} : in[i].t = "diff"
          /\ subscribed /\ ~closed => firstMsg # <<>> \/ in # <<>>
    /\ phase = "live" =>
          /\ subscribed
          /\ \A i \in DOMAIN in : in[i].t # "dump"
          /\ \A i \in DOMAIN out : out[i].t = "request"
          /\ firstMsg # <<>> => firstMsg[1] \in Diffs
          /\ Len(firstMsg) <= 1

\* The dump that is being waited for, once it is sent.
TheDump == IF firstMsg # <<>> THEN firstMsg[1] ELSE in[1]

\* Diffs are in the order of their blocks ...
Ordered ==
    /\ \A i, j \in DOMAIN in :
          i < j /\ in[i].t = "diff" /\ in[j].t = "diff" => in[i].block < in[j].block
    /\ \A i, j \in DOMAIN waiting : i < j => waiting[i].block < waiting[j].block
    /\ phase = "live" =>
          /\ \A q \in Queued : replica.block < q
          /\ \A c \in Carried : replica.block < c
          /\ \A c \in Carried, q \in Queued \cup First : q < c
    /\ phase = "dump" => \A c \in Carried : TheDump.block < c

(* ... and none is missing between what the replica has and what the chain *)
(* has, the one in firstMsg apart.                                         *)
Complete ==
    /\ closed => in = <<>>
    /\ phase = "live" =>
          /\ \A w \in Queued : \A b \in replica.block + 1..w : b \in Queued \cup First
          /\ ~closed => \A b \in replica.block + 1..Block : b \in Queued \cup First \cup Carried
    /\ phase = "dump" /\ (firstMsg # <<>> \/ in # <<>>) /\ ~closed =>
          \A b \in TheDump.block + 1..Block : b \in Carried

\* A value of k that the chain has had since the replica's block.
Recent(k, v) == \E b \in replica.block..Block : v = ValueAt(k, b)

\* Both layers of the replica hold what WrongOnlyWhere allows.
Allowed(k, v) == Recent(k, v) \/ k \in Swallowed \/ v \in {Zero, Local}
ValuesInv ==
    /\ \A k \in DOMAIN replica.im : Allowed(k, replica.im[k])
    /\ \A k \in DOMAIN replica.bf : Allowed(k, replica.bf[k])

\* What is under way to a goroutine that waits is about its key, and recent.
AnswersInv ==
    \A r \in Readers : reader[r].pc = "waiting" =>
        /\ \A i \in DOMAIN out : out[i].t = "request" /\ out[i].id = reader[r].id =>
              out[i].key = reader[r].key
        /\ \A i \in DOMAIN in : in[i].t = "answer" /\ in[i].id = reader[r].id =>
              in[i].v = Zero \/ Recent(reader[r].key, in[i].v)
        /\ reader[r].ch # <<>> => reader[r].ch[1] = Zero \/ Recent(reader[r].key, reader[r].ch[1])

BrowserInv ==
    TypeInv /\ ReadersInv /\ PhaseInv /\ Ordered /\ Complete /\ ValuesInv /\ AnswersInv

(* The block the server stamped on the request it handles is not before    *)
(* the block of the replica, while a goroutine waits for the answer.       *)
StampInv ==
    /\ stamp \in {NotYet} \cup (0..Block)
    /\ stamp # NotYet =>
          /\ out # <<>> /\ out[1].t = "request" /\ ~closed
          /\ \A r \in Readers :
                reader[r].pc = "waiting" /\ reader[r].id = out[1].id => replica.block <= stamp

-----------------------------------------------------------------------------
(***************************************************************************)
(* What the operators do.                                                  *)
(***************************************************************************)

\* What is written over a map wins.
LEMMA OverFacts ==
    ASSUME NEW f, NEW g
    PROVE  /\ DOMAIN Over(f, g) = DOMAIN f \cup DOMAIN g
           /\ \A x \in DOMAIN f : Over(f, g)[x] = f[x]
           /\ \A x \in DOMAIN g \ DOMAIN f : Over(f, g)[x] = g[x]
  BY DEF Over

\* A later block does not change what the chain held.
LEMMA ValueAtStable ==
    ASSUME NEW ks, writes \in Seq(SUBSET Keys), writes' = Append(writes, ks),
           NEW k, NEW b \in 0..Block
    PROVE  ValueAt(k, b)' = ValueAt(k, b)
  <1>1. \A n \in 1..b : writes'[n] = writes[n]
    BY DEF Block
  <1>2. {n \in 1..b : k \in writes'[n]} = {n \in 1..b : k \in writes[n]}
    BY <1>1
  <1> QED
    BY <1>2 DEF ValueAt

\* A key keeps its value through blocks that do not write it.
LEMMA ValueAtSame ==
    ASSUME NEW k, NEW a \in Nat, NEW b \in Nat, a <= b, \A n \in a + 1..b : k \notin writes[n]
    PROVE  ValueAt(k, a) = ValueAt(k, b)
  <1>1. {n \in 1..a : k \in writes[n]} = {n \in 1..b : k \in writes[n]}
    OBVIOUS
  <1> QED
    BY <1>1 DEF ValueAt

\* The messages tell themselves apart by their t, and what they say is the chain's.
LEMMA MessageFacts ==
    ASSUME NEW x \in Dumps \cup Answers \cup Diffs
    PROVE  /\ x \in Diffs <=> x.t = "diff"
           /\ x \in Dumps <=> x.t = "dump"
           /\ x \in Answers <=> x.t = "answer"
           /\ x \in Diffs => x.block \in 1..Block /\ x.keys = writes[x.block]
           /\ x \in Dumps => x.block \in 0..Block /\ x.im = [k \in Dumped |-> ValueAt(k, x.block)]
           /\ x \in Answers => x.id \in 1..nextID
  BY DEF Diffs, Dumps, Answers

\* The shape of the variables that TypeInv gives.
LEMMA Shapes ==
    ASSUME TypeInv
    PROVE  /\ Block \in Nat /\ DOMAIN writes = 1..Block /\ \A b \in 1..Block : writes[b] \subseteq Keys
           /\ Len(in) \in Nat /\ DOMAIN in = 1..Len(in)
           /\ \A i \in 1..Len(in) : in[i] \in Dumps \cup Answers \cup Diffs
           /\ Len(out) \in Nat /\ DOMAIN out = 1..Len(out)
           /\ \A i \in 1..Len(out) : out[i] \in {Subscription} \cup Requests
           /\ Len(waiting) \in Nat /\ DOMAIN waiting = 1..Len(waiting)
           /\ \A i \in 1..Len(waiting) : waiting[i] \in Diffs
           /\ Len(firstMsg) \in Nat /\ DOMAIN firstMsg = 1..Len(firstMsg)
           /\ \A i \in 1..Len(firstMsg) : firstMsg[i] \in Dumps \cup Diffs
  <1>1. /\ Block \in Nat /\ DOMAIN writes = 1..Block
        /\ \A b \in 1..Block : writes[b] \in SUBSET Keys
    BY LenProperties, ElementOfSeq DEF TypeInv, Block
  <1>2. /\ Len(in) \in Nat /\ DOMAIN in = 1..Len(in)
        /\ \A i \in 1..Len(in) : in[i] \in Dumps \cup Answers \cup Diffs
    BY LenProperties, ElementOfSeq DEF TypeInv
  <1>3. /\ Len(out) \in Nat /\ DOMAIN out = 1..Len(out)
        /\ \A i \in 1..Len(out) : out[i] \in {Subscription} \cup Requests
    BY LenProperties, ElementOfSeq DEF TypeInv
  <1>4. /\ Len(waiting) \in Nat /\ DOMAIN waiting = 1..Len(waiting)
        /\ \A i \in 1..Len(waiting) : waiting[i] \in Diffs
    BY LenProperties, ElementOfSeq DEF TypeInv
  <1>5. /\ Len(firstMsg) \in Nat /\ DOMAIN firstMsg = 1..Len(firstMsg)
        /\ \A i \in 1..Len(firstMsg) : firstMsg[i] \in Dumps \cup Diffs
    BY LenProperties, ElementOfSeq DEF TypeInv
  <1> QED
    BY <1>1, <1>2, <1>3, <1>4, <1>5

\* The blocks under way are blocks of the chain.
LEMMA BlocksUnderWay ==
    ASSUME TypeInv
    PROVE  Carried \subseteq 1..Block /\ Queued \subseteq 1..Block /\ First \subseteq 0..Block
  <1>1. \A i \in DOMAIN in : in[i].t = "diff" => in[i].block \in 1..Block
    BY Shapes, MessageFacts
  <1>2. \A i \in DOMAIN waiting : waiting[i].block \in 1..Block
    BY Shapes, MessageFacts
  <1>3. \A i \in DOMAIN firstMsg : firstMsg[i].block \in 0..Block
    <2> SUFFICES ASSUME NEW i \in DOMAIN firstMsg PROVE firstMsg[i].block \in 0..Block
      OBVIOUS
    <2>1. firstMsg[i] \in Dumps \cup Diffs /\ Block \in Nat
      BY Shapes
    <2>2. firstMsg[i].block \in 0..Block \/ firstMsg[i].block \in 1..Block
      BY <2>1, MessageFacts
    <2> QED
      BY <2>1, <2>2
  <1> QED
    BY <1>1, <1>2, <1>3 DEF Carried, Queued, First

\* What is said of the chain and of the ids depends on nothing else.
LEMMA SameWords ==
    ASSUME writes' = writes, nextID' = nextID
    PROVE  /\ Diffs' = Diffs /\ Dumps' = Dumps /\ Answers' = Answers /\ Requests' = Requests
           /\ Block' = Block
  BY DEF Diffs, Dumps, Answers, Requests, Block, ValueAt

\* Values of the chain, when the chain is the same.
LEMMA SameValues ==
    ASSUME writes' = writes
    PROVE  Block' = Block /\ \A k, b : ValueAt(k, b)' = ValueAt(k, b)
  BY DEF Block, ValueAt

-----------------------------------------------------------------------------
(***************************************************************************)
(* The invariant holds initially.                                          *)
(***************************************************************************)
LEMMA InitInv == Init => BrowserInv
  <1> SUFFICES ASSUME Init PROVE BrowserInv
    OBVIOUS
  <1>1. TypeInv
    <2>1. /\ writes \in Seq(SUBSET Keys) /\ in \in Seq(Dumps \cup Answers \cup Diffs)
          /\ out \in Seq({Subscription} \cup Requests) /\ firstMsg \in Seq(Dumps \cup Diffs)
          /\ waiting \in Seq(Diffs)
      BY EmptySeq DEF Init
    <2>2. /\ DOMAIN replica = {"block", "im", "bf"} /\ replica.block = 0
          /\ replica.im = <<>> /\ replica.bf = <<>>
      BY DEF Init, Empty
    <2>3. DOMAIN <<>> = {} /\ Len(writes) = 0
      BY DEF Init
    <2>4. DOMAIN replica.im \subseteq Keys /\ DOMAIN replica.bf \subseteq Keys
      BY <2>2, <2>3
    <2>5. replica.block \in 0..Block
      BY <2>2, <2>3 DEF Block
    <2>6. /\ nextID \in Nat /\ phase \in {"dial", "dump", "live", "failed"}
          /\ closed \in BOOLEAN /\ subscribed \in BOOLEAN
      BY DEF Init
    <2> QED
      BY <2>1, <2>2, <2>4, <2>5, <2>6 DEF TypeInv
  <1>2. ReadersInv
    BY DEF Init, ReadersInv, Idle
  <1>3. PhaseInv
    BY DEF Init, PhaseInv, Idle
  <1>4. Ordered /\ Complete
    BY DEF Init, Ordered, Complete
  <1>5. ValuesInv /\ AnswersInv
    BY DEF Init, ValuesInv, AnswersInv, Idle, Empty
  <1> QED
    BY <1>1, <1>2, <1>3, <1>4, <1>5 DEF BrowserInv

-----------------------------------------------------------------------------
(***************************************************************************)
(* It is kept by every step.  First the goroutines, which leave the stream *)
(* of messages from the server alone.                                      *)
(***************************************************************************)

\* The stream and its order, when nothing of it changes.
LEMMA SameStream ==
    ASSUME BrowserInv,
           UNCHANGED <<writes, in, subscribed, phase, firstMsg, waiting, closed>>,
           replica'.block = replica.block
    PROVE  Ordered' /\ Complete'
  <1>1. /\ Carried' = Carried /\ Queued' = Queued /\ First' = First /\ Block' = Block
        /\ TheDump' = TheDump
    BY DEF Carried, Queued, First, Block, TheDump
  <1>2. Ordered'
    BY <1>1 DEF BrowserInv, Ordered
  <1>3. Complete'
    BY <1>1 DEF BrowserInv, Complete
  <1> QED
    BY <1>2, <1>3

\* RLock, GiveUp and RUnlock: one goroutine changes its pc and asks for nothing.
LEMMA ReaderInv ==
    ASSUME BrowserInv, NEW r \in Readers,
           DOMAIN reader' = Readers, \A q \in Readers \ {r} : reader'[q] = reader[q],
           DOMAIN reader'[r] = {"pc", "kind", "key", "id", "ch"},
           reader'[r].pc \in {"idle", "reading"}, reader'[r].ch = <<>>,
           phase = "live",
           UNCHANGED <<writes, out, in, subscribed, phase, firstMsg, replica, waiting, nextID, closed>>
    PROVE  BrowserInv'
  <1>1. TypeInv'
    BY SameWords DEF BrowserInv, TypeInv, Subscription
  <1>2. ReadersInv'
    BY DEF BrowserInv, ReadersInv
  <1>3. PhaseInv'
    BY SameWords DEF BrowserInv, PhaseInv, Subscription
  <1>4. Ordered' /\ Complete'
    BY SameStream
  <1>5. ValuesInv'
    BY SameValues DEF BrowserInv, ValuesInv, Allowed, Recent, Swallowed
  <1>6. AnswersInv'
    BY SameValues DEF BrowserInv, AnswersInv, Recent
  <1> QED
    BY <1>1, <1>2, <1>3, <1>4, <1>5, <1>6 DEF BrowserInv

\* A quote or an ethCall takes the read lock.
LEMMA RLockInv ==
    ASSUME BrowserInv, NEW r \in Readers, NEW kind, RLock(r, kind)
    PROVE  BrowserInv'
  <1>1. /\ phase = "live" /\ reader[r].pc = "idle"
        /\ reader' = [reader EXCEPT ![r].pc = "reading", ![r].kind = kind]
        /\ UNCHANGED <<writes, out, in, subscribed, phase, firstMsg, replica, waiting, nextID, closed>>
    BY DEF RLock, chainVars
  <1>2. /\ DOMAIN reader' = Readers /\ \A q \in Readers \ {r} : reader'[q] = reader[q]
        /\ DOMAIN reader'[r] = {"pc", "kind", "key", "id", "ch"}
        /\ reader'[r].pc = "reading" /\ reader'[r].ch = <<>>
    BY <1>1 DEF BrowserInv, ReadersInv
  <1> QED
    BY <1>1, <1>2, ReaderInv

\* A request times out, or the socket has closed.
LEMMA GiveUpInv ==
    ASSUME BrowserInv, NEW r \in Readers, GiveUp(r)
    PROVE  BrowserInv'
  <1>1. /\ reader[r].pc = "waiting" /\ reader[r].ch = <<>>
        /\ reader' = [reader EXCEPT ![r].pc = "reading"]
        /\ UNCHANGED <<writes, out, in, subscribed, phase, firstMsg, replica, waiting, nextID, closed>>
    BY DEF GiveUp, chainVars
  <1>2. /\ DOMAIN reader' = Readers /\ \A q \in Readers \ {r} : reader'[q] = reader[q]
        /\ DOMAIN reader'[r] = {"pc", "kind", "key", "id", "ch"}
        /\ reader'[r].pc = "reading" /\ reader'[r].ch = <<>>
    BY <1>1 DEF BrowserInv, ReadersInv
  <1>3. phase = "live"
    BY <1>1 DEF BrowserInv, PhaseInv
  <1> QED
    BY <1>1, <1>2, <1>3, ReaderInv

\* A quote or an ethCall ends.
LEMMA RUnlockInv ==
    ASSUME BrowserInv, NEW r \in Readers, RUnlock(r)
    PROVE  BrowserInv'
  <1>1. /\ reader[r].pc = "reading"
        /\ reader' = [reader EXCEPT ![r] = Idle]
        /\ UNCHANGED <<writes, out, in, subscribed, phase, firstMsg, replica, waiting, nextID, closed>>
    BY DEF RUnlock, chainVars
  <1>2. /\ DOMAIN reader' = Readers /\ \A q \in Readers \ {r} : reader'[q] = reader[q]
        /\ DOMAIN reader'[r] = {"pc", "kind", "key", "id", "ch"}
        /\ reader'[r].pc = "idle" /\ reader'[r].ch = <<>>
    BY <1>1 DEF BrowserInv, ReadersInv, Idle
  <1>3. phase = "live"
    BY <1>1 DEF BrowserInv, PhaseInv
  <1> QED
    BY <1>1, <1>2, <1>3, ReaderInv

(***************************************************************************)
(* What Return and SetState put into the backfill is allowed there.        *)
(***************************************************************************)
LEMMA StoreInv ==
    ASSUME BrowserInv, NEW k \in Keys, NEW v, Allowed(k, v), phase = "live",
           DOMAIN replica' = {"block", "im", "bf"},
           replica'.block = replica.block, replica'.im = replica.im,
           replica'.bf = Over([q \in {k} |-> v], replica.bf),
           UNCHANGED <<writes, out, in, subscribed, phase, firstMsg, waiting, nextID, closed>>
    PROVE  TypeInv' /\ PhaseInv' /\ Ordered' /\ Complete' /\ ValuesInv'
  <1>1. /\ DOMAIN replica'.bf = DOMAIN replica.bf \cup {k} /\ replica'.bf[k] = v
        /\ \A q \in DOMAIN replica.bf \ {k} : replica'.bf[q] = replica.bf[q]
    <2> DEFINE f == [q \in {k} |-> v]
    <2>1. DOMAIN f = {k} /\ f[k] = v /\ replica'.bf = Over(f, replica.bf)
      OBVIOUS
    <2> HIDE DEF f
    <2>2. /\ DOMAIN Over(f, replica.bf) = DOMAIN f \cup DOMAIN replica.bf
          /\ \A x \in DOMAIN f : Over(f, replica.bf)[x] = f[x]
          /\ \A x \in DOMAIN replica.bf \ DOMAIN f : Over(f, replica.bf)[x] = replica.bf[x]
      BY OverFacts
    <2> QED
      BY <2>1, <2>2
  <1>2. TypeInv'
    <2>1. DOMAIN replica'.bf \subseteq Keys /\ DOMAIN replica'.im \subseteq Keys
      BY <1>1 DEF BrowserInv, TypeInv
    <2> QED
      BY <2>1, SameWords DEF BrowserInv, TypeInv, Subscription
  <1>3. PhaseInv'
    BY SameWords DEF BrowserInv, PhaseInv, Subscription
  <1>4. Ordered' /\ Complete'
    BY SameStream
  <1>5. ValuesInv'
    <2>1. ASSUME NEW q, NEW w, Allowed(q, w) PROVE Allowed(q, w)'
      BY <2>1, SameValues DEF Allowed, Recent, Swallowed
    <2>2. ASSUME NEW q \in DOMAIN replica'.im PROVE Allowed(q, replica.im[q])'
      BY <2>1 DEF BrowserInv, ValuesInv, Allowed, Recent, Swallowed, ValueAt, Block
    <2>3. ASSUME NEW q \in DOMAIN replica'.bf PROVE Allowed(q, replica.bf[q])'
      <3>1. CASE q = k
        <4>1. Allowed(q, v) /\ replica'.bf[q] = v
          BY <3>1, <1>1
        <4> QED
          BY <4>1 DEF Allowed, Recent, Swallowed, ValueAt, Block
      <3>2. CASE q # k
        <4>1. Allowed(q, replica.bf[q]) /\ replica'.bf[q] = replica.bf[q]
          BY <3>2, <1>1 DEF BrowserInv, ValuesInv
        <4> QED
          BY <4>1 DEF Allowed, Recent, Swallowed, ValueAt, Block
      <3> QED
        BY <3>1, <3>2
    <2> QED
      BY <2>2, <2>3 DEF ValuesInv
  <1> QED
    BY <1>2, <1>3, <1>4, <1>5

\* An ethCall writes to the replica's backfill.
LEMMA SetStateInv ==
    ASSUME BrowserInv, NEW r \in Readers, NEW k \in Keys, SetState(r, k)
    PROVE  BrowserInv'
  <1>1. /\ reader[r].pc = "reading"
        /\ replica' = [replica EXCEPT !.bf = Over([q \in {k} |-> Local], replica.bf)]
        /\ UNCHANGED <<writes, out, in, subscribed, phase, firstMsg, waiting, reader, nextID, closed>>
    BY DEF SetState, chainVars
  <1>2. /\ DOMAIN replica' = {"block", "im", "bf"}
        /\ replica'.block = replica.block /\ replica'.im = replica.im
        /\ replica'.bf = Over([q \in {k} |-> Local], replica.bf)
    BY <1>1 DEF BrowserInv, TypeInv
  <1>3. phase = "live" /\ Allowed(k, Local)
    BY <1>1 DEF BrowserInv, PhaseInv, Allowed
  <1>4. TypeInv' /\ PhaseInv' /\ Ordered' /\ Complete' /\ ValuesInv'
    BY <1>1, <1>2, <1>3, StoreInv
  <1>5. ReadersInv'
    BY <1>1 DEF BrowserInv, ReadersInv
  <1>6. AnswersInv'
    BY <1>1, <1>2, SameValues DEF BrowserInv, AnswersInv, Recent
  <1> QED
    BY <1>4, <1>5, <1>6 DEF BrowserInv

\* An answer is stored as backfill: it is recent, for its goroutine held the lock.
LEMMA ReturnInv ==
    ASSUME BrowserInv, NEW r \in Readers, Return(r)
    PROVE  BrowserInv'
  <1> DEFINE k == reader[r].key
             v == reader[r].ch[1]
  <1>1. /\ reader[r].pc = "waiting" /\ reader[r].ch # <<>>
        /\ reader' = [reader EXCEPT ![r].pc = "reading", ![r].ch = <<>>]
        /\ replica' = [replica EXCEPT !.bf = Over([q \in {k} |-> v], replica.bf)]
        /\ UNCHANGED <<writes, out, in, subscribed, phase, firstMsg, waiting, nextID, closed>>
    BY DEF Return, chainVars
  <1>2. /\ DOMAIN replica' = {"block", "im", "bf"}
        /\ replica'.block = replica.block /\ replica'.im = replica.im
        /\ replica'.bf = Over([q \in {k} |-> v], replica.bf)
    BY <1>1 DEF BrowserInv, TypeInv
  <1>3. phase = "live" /\ Allowed(k, v) /\ k \in Keys
    BY <1>1 DEF BrowserInv, PhaseInv, Allowed, AnswersInv, ReadersInv
  <1>4. /\ DOMAIN reader' = Readers /\ \A q \in Readers \ {r} : reader'[q] = reader[q]
        /\ DOMAIN reader'[r] = {"pc", "kind", "key", "id", "ch"}
        /\ reader'[r].pc = "reading" /\ reader'[r].ch = <<>>
    BY <1>1 DEF BrowserInv, ReadersInv
  <1>5. TypeInv' /\ PhaseInv' /\ Ordered' /\ Complete' /\ ValuesInv'
    <2> HIDE DEF k, v
    <2> QED
      BY <1>1, <1>2, <1>3, StoreInv
  <1>6. ReadersInv'
    BY <1>1, <1>4 DEF BrowserInv, ReadersInv
  <1>7. AnswersInv'
    <2> SUFFICES ASSUME NEW q \in Readers, reader'[q].pc = "waiting"
                 PROVE  (/\ \A i \in DOMAIN out : out[i].t = "request" /\ out[i].id = reader[q].id =>
                               out[i].key = reader[q].key
                         /\ \A i \in DOMAIN in : in[i].t = "answer" /\ in[i].id = reader[q].id =>
                               in[i].v = Zero \/ Recent(reader[q].key, in[i].v)
                         /\ reader[q].ch # <<>> =>
                               reader[q].ch[1] = Zero \/ Recent(reader[q].key, reader[q].ch[1]))'
      BY DEF AnswersInv
    <2>1. q # r /\ reader'[q] = reader[q]
      BY <1>4
    <2> QED
      <3>1. /\ \A i \in DOMAIN out : out[i].t = "request" /\ out[i].id = reader[q].id =>
                  out[i].key = reader[q].key
            /\ \A i \in DOMAIN in : in[i].t = "answer" /\ in[i].id = reader[q].id =>
                  in[i].v = Zero \/ Recent(reader[q].key, in[i].v)
            /\ reader[q].ch # <<>> => reader[q].ch[1] = Zero \/ Recent(reader[q].key, reader[q].ch[1])
        BY <2>1 DEF BrowserInv, AnswersInv
      <3>2. out' = out /\ in' = in /\ replica'.block = replica.block /\ writes' = writes
        BY <1>1, <1>2
      <3> QED
        BY <2>1, <3>1, <3>2, SameValues DEF Recent
  <1> QED
    BY <1>5, <1>6, <1>7 DEF BrowserInv

(***************************************************************************)
(* A new request: its id is on no message and no other goroutine has it.   *)
(***************************************************************************)
LEMMA CallInv ==
    ASSUME BrowserInv, NEW r \in Readers, NEW k \in Keys, Call(r, k)
    PROVE  BrowserInv'
  <1> DEFINE x == [t |-> "request", id |-> nextID + 1, key |-> k]
  <1>1. /\ reader[r].pc = "reading" /\ nextID' = nextID + 1
        /\ out' = Append(out, x)
        /\ reader' = [reader EXCEPT ![r].pc = "waiting", ![r].key = k, ![r].id = nextID + 1]
        /\ UNCHANGED <<writes, subscribed, in, phase, firstMsg, replica, waiting, closed>>
    BY DEF Call, NewID
  <1>2. nextID \in Nat /\ 1..nextID \subseteq 1..nextID'
    BY <1>1 DEF BrowserInv, TypeInv
  <1>3. /\ Diffs' = Diffs /\ Dumps' = Dumps /\ Block' = Block
        /\ Answers \subseteq Answers' /\ Requests \subseteq Requests' /\ x \in Requests'
    <2>1. Diffs' = Diffs /\ Dumps' = Dumps /\ Block' = Block
      BY <1>1 DEF Diffs, Dumps, Block, ValueAt
    <2>2. Answers \subseteq Answers'
      <3> DEFINE vs == {Zero} \cup {ValueAt(q[1], q[2]) : q \in Keys \X (0..Block)}
      <3>1. vs' = vs
        BY <1>1 DEF Block, ValueAt, Zero
      <3>2. Answers = [t : {"answer"}, id : 1..nextID, v : vs]
        BY DEF Answers
      <3>3. Answers' = [t : {"answer"}, id : 1..nextID', v : vs']
        BY DEF Answers
      <3> HIDE DEF vs
      <3> QED
        BY <1>2, <3>1, <3>2, <3>3
    <2>3. Requests \subseteq Requests' /\ x \in Requests'
      BY <1>1, <1>2 DEF Requests
    <2> QED
      BY <2>1, <2>2, <2>3
  <1>4. /\ DOMAIN reader' = Readers /\ \A q \in Readers \ {r} : reader'[q] = reader[q]
        /\ DOMAIN reader'[r] = {"pc", "kind", "key", "id", "ch"}
        /\ reader'[r].pc = "waiting" /\ reader'[r].ch = <<>>
        /\ reader'[r].key = k /\ reader'[r].id = nextID + 1
    BY <1>1 DEF BrowserInv, ReadersInv
  <1>5. phase = "live"
    BY <1>1 DEF BrowserInv, PhaseInv
  <1>6. /\ Len(out) \in Nat /\ DOMAIN out = 1..Len(out) /\ DOMAIN out' = 1..Len(out) + 1
        /\ out'[Len(out) + 1] = x /\ \A i \in 1..Len(out) : out'[i] = out[i]
    BY <1>1, Shapes DEF BrowserInv
  <1>7. TypeInv'
    <2>1. in' \in Seq(Dumps' \cup Answers' \cup Diffs')
      <3>1. Dumps \cup Answers \cup Diffs \subseteq Dumps' \cup Answers' \cup Diffs'
        BY <1>3
      <3> QED
        BY <1>1, <3>1, SeqMonotonic DEF BrowserInv, TypeInv
    <2>2. out' \in Seq({Subscription} \cup Requests')
      <3>1. {Subscription} \cup Requests \subseteq {Subscription} \cup Requests'
        BY <1>3
      <3>2. out \in Seq({Subscription} \cup Requests')
        BY <3>1, SeqMonotonic DEF BrowserInv, TypeInv
      <3> HIDE DEF x
      <3> QED
        BY <1>1, <1>3, <3>2, AppendProperties
    <2>3. firstMsg' \in Seq(Dumps' \cup Diffs') /\ waiting' \in Seq(Diffs')
      BY <1>1, <1>3 DEF BrowserInv, TypeInv
    <2>4. nextID' \in Nat
      BY <1>1, <1>2
    <2> QED
      BY <1>1, <1>3, <2>1, <2>2, <2>3, <2>4 DEF BrowserInv, TypeInv, Subscription
  <1>8. ReadersInv'
    BY <1>1, <1>2, <1>4 DEF BrowserInv, ReadersInv
  <1>9. PhaseInv'
    <2>1. \A i \in DOMAIN out' : out'[i].t = "request"
      BY <1>5, <1>6 DEF BrowserInv, PhaseInv
    <2> QED
      BY <1>1, <1>3, <1>5, <2>1 DEF BrowserInv, PhaseInv
  <1>10. Ordered' /\ Complete'
    BY <1>1, SameStream
  <1>11. ValuesInv'
    BY <1>1, SameValues DEF BrowserInv, ValuesInv, Allowed, Recent, Swallowed
  <1>12. AnswersInv'
    <2> SUFFICES ASSUME NEW q \in Readers, reader'[q].pc = "waiting"
                 PROVE  /\ \A i \in DOMAIN out' : out'[i].t = "request" /\ out'[i].id = reader'[q].id =>
                               out'[i].key = reader'[q].key
                        /\ \A i \in DOMAIN in' : in'[i].t = "answer" /\ in'[i].id = reader'[q].id =>
                              in'[i].v = Zero \/ Recent(reader[q].key, in[i].v)'
                        /\ reader'[q].ch # <<>> =>
                              reader'[q].ch[1] = Zero \/ Recent(reader[q].key, reader[q].ch[1])'
      BY DEF AnswersInv
    <2>1. CASE q = r
      <3>1. \A i \in DOMAIN in : in[i].t = "answer" => in[i].id \in 1..nextID
        BY Shapes, MessageFacts DEF BrowserInv
      <3>2. \A i \in DOMAIN out : out[i].t = "request" => out[i].id \in 1..nextID
        BY Shapes DEF BrowserInv, Requests, Subscription
      <3>3. nextID + 1 \notin 1..nextID
        BY <1>2
      <3>4. \A i \in DOMAIN out' : out'[i].t = "request" /\ out'[i].id = nextID + 1 => out'[i].key = k
        BY <1>6, <3>2, <3>3
      <3> QED
        BY <2>1, <1>1, <1>4, <3>1, <3>3, <3>4
    <2>2. CASE q # r
      <3>1. reader'[q] = reader[q] /\ reader[q].id \in 1..nextID
        BY <2>2, <1>4 DEF BrowserInv, ReadersInv
      <3>2. /\ \A i \in DOMAIN out : out[i].t = "request" /\ out[i].id = reader[q].id =>
                  out[i].key = reader[q].key
            /\ \A i \in DOMAIN in : in[i].t = "answer" /\ in[i].id = reader[q].id =>
                  in[i].v = Zero \/ Recent(reader[q].key, in[i].v)
            /\ reader[q].ch # <<>> => reader[q].ch[1] = Zero \/ Recent(reader[q].key, reader[q].ch[1])
        BY <3>1 DEF BrowserInv, AnswersInv
      <3>3. \A i \in DOMAIN out' : out'[i].t = "request" /\ out'[i].id = reader[q].id =>
                out'[i].key = reader[q].key
        BY <1>2, <1>6, <3>1, <3>2
      <3>4. in' = in /\ replica' = replica /\ writes' = writes
        BY <1>1
      <3> QED
        BY <3>1, <3>2, <3>3, <3>4, SameValues DEF Recent
    <2> QED
      BY <2>1, <2>2
  <1> QED
    BY <1>7, <1>8, <1>9, <1>10, <1>11, <1>12 DEF BrowserInv

-----------------------------------------------------------------------------
(***************************************************************************)
(* The connection: opening it, giving up on it, losing it.                 *)
(***************************************************************************)

\* Nobody waits for an answer before the replica is live.
LEMMA NobodyYet ==
    ASSUME PhaseInv, phase # "live"
    PROVE  AnswersInv
  BY DEF PhaseInv, AnswersInv

\* What nobody has touched is as right as it was.
LEMMA SameReplica ==
    ASSUME BrowserInv, UNCHANGED <<writes, replica, reader>>,
           Swallowed \subseteq Swallowed'
    PROVE  ValuesInv'
  BY SameValues DEF BrowserInv, ValuesInv, Allowed, Recent

\* The socket is open and ConnectBrowser subscribes.
LEMMA OpenInv == BrowserInv /\ Open => BrowserInv'
  <1> SUFFICES ASSUME BrowserInv, Open PROVE BrowserInv'
    OBVIOUS
  <1>1. /\ phase = "dial" /\ phase' = "dump" /\ out' = Append(out, Subscription)
        /\ UNCHANGED <<writes, in, subscribed, firstMsg, replica, waiting, reader, nextID, closed>>
    BY DEF Open, Subscription
  <1>2. out = <<>> /\ in = <<>> /\ firstMsg = <<>> /\ ~subscribed
    BY <1>1 DEF BrowserInv, PhaseInv
  <1>3. out' = <<Subscription>> /\ out' \in Seq({Subscription} \cup Requests)
    BY <1>1, <1>2
  <1>4. TypeInv'
    BY <1>1, <1>3, SameWords DEF BrowserInv, TypeInv, Subscription
  <1>5. ReadersInv'
    BY <1>1 DEF BrowserInv, ReadersInv
  <1>6. PhaseInv'
    BY <1>1, <1>2, <1>3 DEF BrowserInv, PhaseInv, Subscription
  <1>7. Ordered' /\ Complete'
    <2>1. Carried' = {}
      BY <1>1, <1>2 DEF Carried
    <2> QED
      BY <1>1, <1>2, <2>1 DEF BrowserInv, Ordered, Complete
  <1>8. ValuesInv'
    BY <1>1, SameReplica DEF Swallowed
  <1>9. AnswersInv'
    BY <1>1, <1>6, NobodyYet DEF PhaseInv, AnswersInv
  <1> QED
    BY <1>4, <1>5, <1>6, <1>7, <1>8, <1>9 DEF BrowserInv

\* ConnectBrowser gives up.
LEMMA ConnectTimeoutInv == BrowserInv /\ ConnectTimeout => BrowserInv'
  <1> SUFFICES ASSUME BrowserInv, ConnectTimeout PROVE BrowserInv'
    OBVIOUS
  <1>1. /\ phase # "live" /\ phase' = "failed"
        /\ UNCHANGED <<writes, out, in, subscribed, firstMsg, replica, waiting, reader, nextID, closed>>
    BY DEF ConnectTimeout, chainVars
  <1>2. TypeInv'
    BY <1>1, SameWords DEF BrowserInv, TypeInv, Subscription
  <1>3. ReadersInv'
    BY <1>1 DEF BrowserInv, ReadersInv
  <1>4. PhaseInv'
    BY <1>1 DEF BrowserInv, PhaseInv
  <1>5. Ordered' /\ Complete'
    BY <1>1 DEF BrowserInv, Ordered, Complete
  <1>6. ValuesInv'
    BY <1>1, SameReplica DEF Swallowed
  <1>7. AnswersInv'
    BY <1>1, <1>4 DEF PhaseInv, AnswersInv
  <1> QED
    BY <1>2, <1>3, <1>4, <1>5, <1>6, <1>7 DEF BrowserInv

\* The socket closes.
LEMMA oncloseInv == BrowserInv /\ onclose => BrowserInv'
  <1> SUFFICES ASSUME BrowserInv, onclose PROVE BrowserInv'
    OBVIOUS
  <1>1. /\ phase # "dial" /\ closed' = TRUE /\ in' = <<>> /\ out' = <<>>
        /\ UNCHANGED <<writes, subscribed, phase, firstMsg, replica, waiting, reader, nextID>>
    BY DEF onclose
  <1>2. TypeInv'
    <2>1. in' \in Seq(Dumps \cup Answers \cup Diffs) /\ out' \in Seq({Subscription} \cup Requests)
      BY <1>1, EmptySeq
    <2> QED
      BY <1>1, <2>1, SameWords DEF BrowserInv, TypeInv, Subscription
  <1>3. ReadersInv'
    BY <1>1 DEF BrowserInv, ReadersInv
  <1>4. DOMAIN in' = {} /\ DOMAIN out' = {}
    BY <1>1
  <1>5. PhaseInv'
    BY <1>1, <1>4, SameWords DEF BrowserInv, PhaseInv
  <1>6. Ordered' /\ Complete'
    <2>1. Carried' = {} /\ Queued' = Queued /\ First' = First
      BY <1>1, <1>4 DEF Carried, Queued, First
    <2>2. Ordered'
      BY <1>1, <1>4, <2>1 DEF BrowserInv, Ordered
    <2>3. Complete'
      BY <1>1, <2>1 DEF BrowserInv, Complete
    <2> QED
      BY <2>2, <2>3
  <1>7. ValuesInv'
    BY <1>1, SameReplica DEF Swallowed
  <1>8. AnswersInv'
    BY <1>1, <1>4, SameValues DEF BrowserInv, AnswersInv, Recent
  <1> QED
    BY <1>2, <1>3, <1>5, <1>6, <1>7, <1>8 DEF BrowserInv

\* A step that changes nothing but what the server has stamped.
LEMMA SameButStamp ==
    ASSUME BrowserInv,
           UNCHANGED <<writes, out, in, subscribed, phase, firstMsg, replica, waiting, reader, nextID,
                       pending, closed>>
    PROVE  BrowserInv'
  <1>2. TypeInv'
    BY SameWords DEF BrowserInv, TypeInv, Subscription
  <1>3. ReadersInv'
    BY DEF BrowserInv, ReadersInv
  <1>4. PhaseInv'
    BY SameWords DEF BrowserInv, PhaseInv, Subscription
  <1>5. Ordered' /\ Complete'
    BY SameStream
  <1>6. ValuesInv'
    BY SameReplica DEF Swallowed
  <1>7. AnswersInv'
    BY SameValues DEF BrowserInv, AnswersInv, Recent
  <1> QED
    BY <1>2, <1>3, <1>4, <1>5, <1>6, <1>7 DEF BrowserInv

-----------------------------------------------------------------------------
(***************************************************************************)
(* The server: blocks, the dump and the answers.                           *)
(***************************************************************************)

(***************************************************************************)
(* A block leaves what is known of the chain true.                         *)
(***************************************************************************)
LEMMA MoreChain ==
    ASSUME TypeInv, NEW ks \in SUBSET Keys, writes' = Append(writes, ks), nextID' = nextID
    PROVE  /\ Block' = Block + 1 /\ writes' \in Seq(SUBSET Keys)
           /\ [t |-> "diff", block |-> Block + 1, keys |-> ks] \in Diffs'
           /\ Diffs \subseteq Diffs' /\ Dumps \subseteq Dumps' /\ Answers \subseteq Answers'
           /\ Requests' = Requests
           /\ \A k : \A b \in 0..Block : ValueAt(k, b)' = ValueAt(k, b)
  <1>1. /\ Block \in Nat /\ writes \in Seq(SUBSET Keys)
        /\ Block' = Block + 1 /\ writes' \in Seq(SUBSET Keys)
        /\ writes'[Block + 1] = ks /\ \A b \in 1..Block : writes'[b] = writes[b]
    BY Shapes, AppendProperties DEF TypeInv, Block
  <1>2. \A k : \A b \in 0..Block : ValueAt(k, b)' = ValueAt(k, b)
    BY ValueAtStable DEF TypeInv
  <1>3. 0..Block \subseteq 0..Block' /\ 1..Block \subseteq 1..Block' /\ Block + 1 \in 1..Block'
    BY <1>1
  <1>4. [t |-> "diff", block |-> Block + 1, keys |-> ks] \in Diffs'
    BY <1>1, <1>3 DEF Diffs
  <1>5. Diffs \subseteq Diffs'
    <2> SUFFICES ASSUME NEW b \in 1..Block
                 PROVE  [t |-> "diff", block |-> b, keys |-> writes[b]] \in Diffs'
      BY DEF Diffs
    <2> QED
      BY <1>1, <1>3 DEF Diffs
  <1>6. Dumps \subseteq Dumps'
    <2> SUFFICES ASSUME NEW b \in 0..Block
                 PROVE  [t |-> "dump", block |-> b, im |-> [k \in Dumped |-> ValueAt(k, b)]] \in Dumps'
      BY DEF Dumps
    <2>1. [k \in Dumped |-> ValueAt(k, b)'] = [k \in Dumped |-> ValueAt(k, b)]
      BY <1>2
    <2>2. [t |-> "dump", block |-> b, im |-> [k \in Dumped |-> ValueAt(k, b)']] \in Dumps'
      BY <1>3 DEF Dumps
    <2> QED
      BY <2>1, <2>2
  <1>7. Answers \subseteq Answers'
    <2> DEFINE vs == {Zero} \cup {ValueAt(q[1], q[2]) : q \in Keys \X (0..Block)}
    <2>1. vs \subseteq vs'
      <3> SUFFICES ASSUME NEW k \in Keys, NEW b \in 0..Block PROVE ValueAt(k, b) \in vs'
        BY DEF Zero
      <3>1. <<k, b>> \in Keys \X (0..Block') /\ <<k, b>>[1] = k /\ <<k, b>>[2] = b
        BY <1>3
      <3>2. ValueAt(k, b)' \in vs'
        BY <3>1
      <3> QED
        BY <3>2, <1>2
    <2>2. Answers = [t : {"answer"}, id : 1..nextID, v : vs]
      BY DEF Answers
    <2>3. Answers' = [t : {"answer"}, id : 1..nextID', v : vs']
      BY DEF Answers
    <2> HIDE DEF vs
    <2> QED
      BY <2>1, <2>2, <2>3
  <1>8. Requests' = Requests
    BY DEF Requests
  <1> QED
    BY <1>1, <1>2, <1>4, <1>5, <1>6, <1>7, <1>8

(***************************************************************************)
(* Mine: the new diff is the last on the wire, unless nobody listens.      *)
(***************************************************************************)
LEMMA MineInv ==
    ASSUME BrowserInv, NEW ks \in BlockWrites, Mine(ks)
    PROVE  BrowserInv'
  <1> USE DEF BrowserInv
  <1> DEFINE x == [t |-> "diff", block |-> Block + 1, keys |-> ks]
  <1>1. /\ writes' = Append(writes, ks)
        /\ in' = IF subscribed /\ ~closed THEN Append(in, x) ELSE in
        /\ UNCHANGED <<out, subscribed, phase, firstMsg, replica, waiting, reader, nextID, closed>>
    BY DEF Mine
  <1>2. ks \in SUBSET Keys
    BY BrowserAssumption
  <1>3. /\ Block' = Block + 1 /\ writes' \in Seq(SUBSET Keys) /\ x \in Diffs'
        /\ Diffs \subseteq Diffs' /\ Dumps \subseteq Dumps' /\ Answers \subseteq Answers'
        /\ Requests' = Requests
        /\ \A k : \A b \in 0..Block : ValueAt(k, b)' = ValueAt(k, b)
    BY <1>1, <1>2, MoreChain
  <1>4. /\ Block \in Nat /\ Len(in) \in Nat /\ DOMAIN in = 1..Len(in)
        /\ Len(in) + 1 \notin DOMAIN in
    BY Shapes
  <1>5. x.t = "diff" /\ x.block = Block + 1
    OBVIOUS
  <1>6. /\ in' \in Seq(Dumps' \cup Answers' \cup Diffs')
        /\ ~(subscribed /\ ~closed) => in' = in
        /\ subscribed /\ ~closed => /\ DOMAIN in' = DOMAIN in \cup {Len(in) + 1}
                                    /\ in'[Len(in) + 1] = x /\ \A i \in DOMAIN in : in'[i] = in[i]
    <2>1. in \in Seq(Dumps' \cup Answers' \cup Diffs')
      <3>1. Dumps \cup Answers \cup Diffs \subseteq Dumps' \cup Answers' \cup Diffs'
        BY <1>3
      <3> QED
        BY <3>1, SeqMonotonic DEF TypeInv
    <2>2. x \in Dumps' \cup Answers' \cup Diffs'
      BY <1>3
    <2> HIDE DEF x
    <2>3. /\ Append(in, x) \in Seq(Dumps' \cup Answers' \cup Diffs')
          /\ DOMAIN Append(in, x) = DOMAIN in \cup {Len(in) + 1}
          /\ Append(in, x)[Len(in) + 1] = x /\ \A i \in DOMAIN in : Append(in, x)[i] = in[i]
      BY <2>1, <2>2, <1>4, AppendProperties
    <2> QED
      BY <1>1, <2>1, <2>3
  <1> HIDE DEF x
  <1>7. TypeInv'
    <2>1. firstMsg' \in Seq(Dumps' \cup Diffs') /\ waiting' \in Seq(Diffs')
      <3>1. Dumps \cup Diffs \subseteq Dumps' \cup Diffs' /\ Diffs \subseteq Diffs'
        BY <1>3
      <3> QED
        BY <1>1, <3>1, SeqMonotonic DEF TypeInv
    <2>2. out' \in Seq({Subscription} \cup Requests')
      BY <1>1, <1>3 DEF TypeInv
    <2>3. replica'.block \in 0..Block'
      BY <1>1, <1>3, <1>4 DEF TypeInv
    <2> QED
      BY <1>1, <1>3, <1>6, <2>1, <2>2, <2>3 DEF TypeInv, Subscription
  <1>8. ReadersInv'
    BY <1>1 DEF ReadersInv
  <1>9. PhaseInv'
    <2>1. CASE phase = "dial"
      BY <2>1, <1>1, <1>6 DEF PhaseInv
    <2>2. CASE phase = "failed"
      BY <2>2, <1>1 DEF PhaseInv
    <2>3. CASE phase = "live"
      BY <2>3, <1>1, <1>3, <1>5, <1>6 DEF PhaseInv
    <2>4. CASE phase = "dump"
      <3>1. CASE ~(subscribed /\ ~closed)
        BY <3>1, <2>4, <1>1, <1>3, <1>6 DEF PhaseInv, Subscription
      <3>2. CASE subscribed /\ ~closed
        <4>1. out = <<>> /\ (firstMsg = <<>> => in # <<>>)
          BY <3>2, <2>4 DEF PhaseInv
        <4>2. firstMsg # <<>> => /\ firstMsg'[1] \in Dumps'
                                 /\ \A i \in DOMAIN in' : in'[i].t = "diff"
          BY <3>2, <2>4, <1>1, <1>3, <1>5, <1>6 DEF PhaseInv
        <4>3. firstMsg = <<>> => /\ in'[1] \in Dumps'
                                 /\ \A i \in DOMAIN in' \ {1} : in'[i].t = "diff"
          <5> SUFFICES ASSUME firstMsg = <<>>
                       PROVE  in'[1] \in Dumps' /\ \A i \in DOMAIN in' \ {1} : in'[i].t = "diff"
            OBVIOUS
          <5>1. /\ in[1] \in Dumps /\ \A i \in DOMAIN in \ {1} : in[i].t = "diff"
            BY <4>1, <2>4 DEF PhaseInv
          <5>2. 1 \in DOMAIN in
            BY <4>1, <1>4, EmptySeq DEF TypeInv
          <5> QED
            BY <5>1, <5>2, <3>2, <1>3, <1>5, <1>6
        <4>4. in' # <<>>
          <5>1. DOMAIN in' # {}
            BY <3>2, <1>6
          <5> QED
            BY <5>1
        <4> QED
          BY <4>1, <4>2, <4>3, <4>4, <3>2, <2>4, <1>1 DEF PhaseInv
      <3> QED
        BY <3>1, <3>2
    <2> QED
      BY <2>1, <2>2, <2>3, <2>4 DEF TypeInv
  <1>10. /\ Queued' = Queued /\ First' = First
         /\ Carried' = Carried \cup (IF subscribed /\ ~closed THEN {Block + 1} ELSE {})
    <2>1. Queued' = Queued /\ First' = First
      BY <1>1 DEF Queued, First
    <2>2. Carried' = Carried \cup (IF subscribed /\ ~closed THEN {Block + 1} ELSE {})
      <3>1. CASE ~(subscribed /\ ~closed)
        BY <3>1, <1>6 DEF Carried
      <3>2. CASE subscribed /\ ~closed
        <4>1. {j \in DOMAIN in' : in'[j].t = "diff"} =
                {j \in DOMAIN in : in[j].t = "diff"} \cup {Len(in) + 1}
          BY <3>2, <1>4, <1>5, <1>6
        <4> QED
          BY <3>2, <4>1, <1>4, <1>5, <1>6 DEF Carried
      <3> QED
        BY <3>1, <3>2
    <2> QED
      BY <2>1, <2>2
  <1>11. TheDump' = TheDump \/ (firstMsg = <<>> /\ in = <<>>)
    <2>1. CASE firstMsg # <<>>
      BY <2>1, <1>1 DEF TheDump
    <2>2. CASE firstMsg = <<>> /\ in # <<>>
      <3>1. 1 \in DOMAIN in
        BY <2>2, <1>4, EmptySeq DEF TypeInv
      <3>2. in'[1] = in[1]
        BY <3>1, <1>6
      <3> QED
        BY <2>2, <3>2, <1>1 DEF TheDump
    <2> QED
      BY <2>1, <2>2
  <1>12. Carried \subseteq 1..Block /\ Queued \subseteq 1..Block /\ First \subseteq 0..Block
    BY BlocksUnderWay
  <1>13. Ordered'
    <2>1. \A i, j \in DOMAIN in' :
            i < j /\ in'[i].t = "diff" /\ in'[j].t = "diff" => in'[i].block < in'[j].block
      <3> SUFFICES ASSUME NEW i \in DOMAIN in', NEW j \in DOMAIN in', i < j,
                          in'[i].t = "diff", in'[j].t = "diff"
                   PROVE  in'[i].block < in'[j].block
        OBVIOUS
      <3>1. CASE i \in DOMAIN in /\ j \in DOMAIN in
        BY <3>1, <1>6 DEF Ordered
      <3>2. CASE i \in DOMAIN in /\ j = Len(in) + 1 /\ j \notin DOMAIN in
        <4>1. in'[i] = in[i] /\ in'[j] = x
          BY <3>2, <1>6
        <4>2. in[i].block \in Carried
          BY <3>2, <4>1 DEF Carried
        <4>3. in[i].block \in 1..Block
          BY <4>2, <1>12
        <4> QED
          BY <4>1, <4>3, <1>4, <1>5
      <3> QED
        BY <3>1, <3>2, <1>4, <1>6
    <2>2. \A c \in Carried' : c \in Carried \/ c = Block + 1
      BY <1>10
    <2>3. phase = "live" =>
            /\ \A c \in Carried' : replica.block < c
            /\ \A c \in Carried', q \in Queued \cup First : q < c
      <3> SUFFICES ASSUME phase = "live", NEW c \in Carried'
                   PROVE  replica.block < c /\ \A q \in Queued \cup First : q < c
        OBVIOUS
      <3>1. CASE c \in Carried
        BY <3>1 DEF Ordered
      <3>2. CASE c = Block + 1
        <4>1. replica.block \in 0..Block /\ \A q \in Queued \cup First : q \in 0..Block
          BY <1>4, <1>12 DEF TypeInv
        <4> QED
          BY <3>2, <4>1, <1>4
      <3> QED
        BY <2>2, <3>1, <3>2
    <2>4. phase = "dump" => \A c \in Carried' : TheDump'.block < c
      <3> SUFFICES ASSUME phase = "dump", NEW c \in Carried' PROVE TheDump'.block < c
        OBVIOUS
      <3>1. firstMsg # <<>> \/ in # <<>>
        <4>1. CASE firstMsg = <<>> /\ in = <<>>
          <5>1. ~(subscribed /\ ~closed)
            BY <4>1 DEF PhaseInv
          <5>2. Carried' = {}
            BY <4>1, <5>1, <1>6 DEF Carried
          <5> QED
            BY <5>2
        <4> QED
          BY <4>1
      <3>2. TheDump' = TheDump
        BY <3>1, <1>11
      <3>3. TheDump.block \in 0..Block
        <4>1. TheDump \in Dumps
          BY <3>1 DEF PhaseInv, TheDump
        <4> QED
          BY <4>1, MessageFacts
      <3> QED
        BY <2>2, <3>2, <3>3, <1>4 DEF Ordered
    <2> QED
      BY <1>1, <1>10, <2>1, <2>3, <2>4 DEF Ordered
  <1>14. Complete'
    <2>1. closed' => in' = <<>>
      BY <1>1, <1>6 DEF Complete
    <2>2. \A b, c : b \in c..Block' => b \in c..Block \/ b = Block + 1
      BY <1>3, <1>4
    <2>3. phase = "live" /\ ~closed =>
            \A b \in replica.block + 1..Block' : b \in Queued \cup First \cup Carried'
      BY <2>2, <1>10 DEF Complete, PhaseInv
    <2>4. phase = "dump" /\ (firstMsg # <<>> \/ in' # <<>>) /\ ~closed =>
            \A b \in TheDump'.block + 1..Block' : b \in Carried'
      <3> SUFFICES ASSUME phase = "dump", firstMsg # <<>> \/ in' # <<>>, ~closed
                   PROVE  \A b \in TheDump'.block + 1..Block' : b \in Carried'
        OBVIOUS
      <3>1. subscribed /\ (firstMsg # <<>> \/ in # <<>>)
        BY <1>6 DEF PhaseInv
      <3> QED
        BY <3>1, <2>2, <1>10, <1>11 DEF Complete
    <2> QED
      BY <1>1, <1>10, <2>1, <2>3, <2>4 DEF Complete
  <1>15. \A k, v : Recent(k, v) => Recent(k, v)'
    <2> SUFFICES ASSUME NEW k, NEW v, NEW b \in replica.block..Block, v = ValueAt(k, b)
                 PROVE  Recent(k, v)'
      BY DEF Recent
    <2>1. b \in 0..Block /\ b \in replica'.block..Block'
      BY <1>1, <1>3, <1>4 DEF TypeInv
    <2>2. v = ValueAt(k, b)'
      BY <2>1, <1>3
    <2> QED
      BY <2>1, <2>2 DEF Recent
  <1>16. ValuesInv'
    <2>1. Swallowed' = Swallowed
      BY <1>1 DEF Swallowed
    <2>2. \A k, v : Allowed(k, v) => Allowed(k, v)'
      BY <2>1, <1>15 DEF Allowed
    <2> QED
      BY <1>1, <2>2 DEF ValuesInv
  <1>17. AnswersInv'
    <2> SUFFICES ASSUME NEW q \in Readers, reader'[q].pc = "waiting"
                 PROVE  /\ \A i \in DOMAIN out' : out'[i].t = "request" /\ out'[i].id = reader'[q].id =>
                               out'[i].key = reader'[q].key
                        /\ \A i \in DOMAIN in' : in'[i].t = "answer" /\ in'[i].id = reader'[q].id =>
                              in'[i].v = Zero \/ Recent(reader[q].key, in[i].v)'
                        /\ reader'[q].ch # <<>> =>
                              reader'[q].ch[1] = Zero \/ Recent(reader[q].key, reader[q].ch[1])'
      BY DEF AnswersInv
    <2>1. /\ \A i \in DOMAIN out : out[i].t = "request" /\ out[i].id = reader[q].id =>
                out[i].key = reader[q].key
          /\ \A i \in DOMAIN in : in[i].t = "answer" /\ in[i].id = reader[q].id =>
                in[i].v = Zero \/ Recent(reader[q].key, in[i].v)
          /\ reader[q].ch # <<>> => reader[q].ch[1] = Zero \/ Recent(reader[q].key, reader[q].ch[1])
      BY <1>1 DEF AnswersInv
    <2>2. reader' = reader /\ out' = out
      BY <1>1
    <2>3. ASSUME NEW i \in DOMAIN in', in'[i].t = "answer"
          PROVE  i \in DOMAIN in /\ in'[i] = in[i]
      BY <2>3, <1>5, <1>6
    <2>4. ASSUME NEW i \in DOMAIN in', in'[i].t = "answer", in'[i].id = reader'[q].id
          PROVE  in'[i].v = Zero \/ Recent(reader[q].key, in[i].v)'
      <3>1. i \in DOMAIN in /\ in'[i] = in[i]
        BY <2>3, <2>4
      <3>2. in[i].v = Zero \/ Recent(reader[q].key, in[i].v)
        BY <2>1, <2>2, <2>4, <3>1
      <3>3. PICK k, v : k = reader[q].key /\ v = in[i].v
        OBVIOUS
      <3>4. v = Zero \/ Recent(k, v)'
        BY <3>2, <3>3, <1>15
      <3> QED
        BY <2>2, <3>1, <3>3, <3>4 DEF Recent, ValueAt
    <2>5. reader'[q].ch # <<>> =>
             reader'[q].ch[1] = Zero \/ Recent(reader[q].key, reader[q].ch[1])'
      <3>1. PICK k, v : k = reader[q].key /\ v = reader[q].ch[1]
        OBVIOUS
      <3>2. reader[q].ch # <<>> => v = Zero \/ Recent(k, v)'
        BY <2>1, <3>1, <1>15
      <3> QED
        BY <2>2, <3>1, <3>2 DEF Recent, ValueAt
    <2> QED
      BY <2>1, <2>2, <2>4, <2>5
  <1> QED
    BY <1>7, <1>8, <1>9, <1>13, <1>14, <1>16, <1>17

(***************************************************************************)
(* A message that is no diff, at the end of the stream.                    *)
(***************************************************************************)
LEMMA AppendOther ==
    ASSUME BrowserInv, NEW x \in Dumps \cup Answers, in' = Append(in, x),
           UNCHANGED <<writes, nextID>>
    PROVE  /\ in' \in Seq(Dumps' \cup Answers' \cup Diffs')
           /\ DOMAIN in' = DOMAIN in \cup {Len(in) + 1} /\ Len(in) + 1 \notin DOMAIN in
           /\ in'[Len(in) + 1] = x /\ x.t # "diff"
           /\ \A i \in DOMAIN in : in'[i] = in[i]
           /\ Carried' = Carried
           /\ \A i, j \in DOMAIN in' :
                 i < j /\ in'[i].t = "diff" /\ in'[j].t = "diff" => in'[i].block < in'[j].block
  <1>1. /\ in \in Seq(Dumps \cup Answers \cup Diffs) /\ x \in Dumps \cup Answers \cup Diffs
        /\ Len(in) \in Nat /\ DOMAIN in = 1..Len(in)
    BY Shapes DEF BrowserInv, TypeInv
  <1>2. /\ in' \in Seq(Dumps \cup Answers \cup Diffs)
        /\ DOMAIN in' = DOMAIN in \cup {Len(in) + 1} /\ Len(in) + 1 \notin DOMAIN in
        /\ in'[Len(in) + 1] = x /\ \A i \in DOMAIN in : in'[i] = in[i]
    BY <1>1, AppendProperties
  <1>3. x.t # "diff"
    BY DEF Dumps, Answers
  <1>4. {j \in DOMAIN in' : in'[j].t = "diff"} = {j \in DOMAIN in : in[j].t = "diff"}
    BY <1>2, <1>3
  <1>5. Carried' = Carried
    BY <1>2, <1>4 DEF Carried
  <1>6. \A i, j \in DOMAIN in' :
            i < j /\ in'[i].t = "diff" /\ in'[j].t = "diff" => in'[i].block < in'[j].block
    BY <1>2, <1>3 DEF BrowserInv, Ordered
  <1> QED
    BY <1>2, <1>3, <1>5, <1>6, SameWords

(***************************************************************************)
(* Subscribe: the dump is of the server's block.                           *)
(***************************************************************************)
LEMMA SubscribeInv == BrowserInv /\ Subscribe => BrowserInv'
  <1> SUFFICES ASSUME BrowserInv, Subscribe PROVE BrowserInv'
    OBVIOUS
  <1> USE DEF BrowserInv
  <1>1. /\ out # <<>> /\ ~closed /\ Head(out).t = "subscribe" /\ out' = Tail(out)
        /\ UNCHANGED <<writes, phase, firstMsg, replica, waiting, reader, nextID, closed>>
    BY DEF Subscribe
  <1>2. /\ out' \in Seq({Subscription} \cup Requests) /\ out[1] = Head(out)
        /\ Len(out) \in Nat /\ 1 \in DOMAIN out /\ DOMAIN out = 1..Len(out)
        /\ DOMAIN out' = 1..Len(out) - 1 /\ \A i \in DOMAIN out' : i + 1 \in DOMAIN out /\ out'[i] = out[i + 1]
    BY <1>1, Shapes, HeadTailProperties DEF TypeInv
  <1>3. Queued' = Queued /\ First' = First /\ Block' = Block /\ Block \in Nat
    BY <1>1, Shapes DEF Queued, First, Block
  <1>4. ReadersInv'
    BY <1>1 DEF ReadersInv
  <1>5. phase # "dial"
    BY <1>1 DEF PhaseInv
  <1>6. ValuesInv'
    BY <1>1, SameReplica DEF Swallowed
  <1>7. QED
    <2> DEFINE x == [t |-> "dump", block |-> Block, im |-> [k \in Dumped |-> ValueAt(k, Block)]]
    <2>1. in' = Append(in, x) /\ subscribed' = TRUE
      BY DEF Subscribe
    <2>2. x \in Dumps /\ x.block = Block
      BY <1>3 DEF Dumps
    <2> HIDE DEF x
    <2>3. /\ in' \in Seq(Dumps' \cup Answers' \cup Diffs')
          /\ DOMAIN in' = DOMAIN in \cup {Len(in) + 1} /\ in'[Len(in) + 1] = x
          /\ \A i \in DOMAIN in : in'[i] = in[i]
          /\ Carried' = Carried
          /\ \A i, j \in DOMAIN in' :
                i < j /\ in'[i].t = "diff" /\ in'[j].t = "diff" => in'[i].block < in'[j].block
      BY <1>1, <2>1, <2>2, AppendOther
    <2>4. TypeInv'
      BY <1>1, <1>2, <2>1, <2>3, SameWords DEF TypeInv, Subscription
    <2>5. phase # "live"
      <3>1. out[1].t # "request"
        BY <1>1, <1>2
      <3> QED
        BY <3>1, <1>2 DEF PhaseInv
    <2>6. CASE phase = "failed"
      <3>1. PhaseInv'
        BY <2>6, <1>1 DEF PhaseInv
      <3>2. Ordered'
        BY <2>6, <1>1, <2>3 DEF Ordered
      <3>3. Complete'
        BY <2>6, <1>1 DEF Complete
      <3>4. AnswersInv'
        BY <2>6, <1>1, <3>1 DEF PhaseInv, AnswersInv
      <3> QED
        BY <1>4, <1>6, <2>4, <3>1, <3>2, <3>3, <3>4
    <2>7. CASE phase = "dump"
      <3>1. in = <<>> /\ firstMsg = <<>> /\ out = <<Subscription>>
        BY <2>7, <1>1 DEF PhaseInv
      <3>2. in' = <<x>> /\ out' = <<>>
        BY <3>1, <1>1, <2>1
      <3>3. DOMAIN in' = {1} /\ in'[1] = x /\ in' # <<>> /\ Carried = {}
        BY <3>1, <3>2 DEF Carried
      <3>4. PhaseInv'
        BY <2>7, <1>1, <2>1, <2>2, <3>1, <3>2, <3>3, SameWords DEF PhaseInv
      <3>5. Ordered'
        BY <2>7, <1>1, <2>3, <3>3 DEF Ordered
      <3>6. Complete'
        <4>1. TheDump' = x
          BY <1>1, <3>1, <3>3 DEF TheDump
        <4>2. \A b \in TheDump'.block + 1..Block' : FALSE
          BY <1>3, <4>1, <2>2
        <4> QED
          BY <2>7, <1>1, <4>2 DEF Complete
      <3>7. AnswersInv'
        BY <2>7, <1>1, <3>4 DEF PhaseInv, AnswersInv
      <3> QED
        BY <1>4, <1>6, <2>4, <3>4, <3>5, <3>6, <3>7
    <2> QED
      BY <1>5, <2>5, <2>6, <2>7 DEF TypeInv

(***************************************************************************)
(* Lookup: nothing is said yet.                                            *)
(***************************************************************************)
LEMMA LookupInv == BrowserInv /\ Lookup => BrowserInv'
  <1> SUFFICES ASSUME BrowserInv, Lookup PROVE BrowserInv'
    OBVIOUS
  <1>1. UNCHANGED <<writes, out, in, subscribed, phase, firstMsg, replica, waiting, reader, nextID,
                    pending, closed>>
    BY DEF Lookup
  <1> QED
    BY <1>1, SameButStamp

(***************************************************************************)
(* Reply: the answer is about the key of the goroutine that has its id,    *)
(* and of a block the server stamped on it while that goroutine waited.    *)
(***************************************************************************)
LEMMA ReplyInv == BrowserInv /\ StampInv /\ Reply => BrowserInv'
  <1> SUFFICES ASSUME BrowserInv, StampInv, Reply PROVE BrowserInv'
    OBVIOUS
  <1>0. /\ stamp \in 0..Block /\ out # <<>> /\ ~closed /\ out[1].t = "request"
        /\ \A r \in Readers :
              reader[r].pc = "waiting" /\ reader[r].id = out[1].id => replica.block <= stamp
    BY DEF Reply, StampInv
  <1> USE DEF BrowserInv
  <1>1. /\ out # <<>> /\ ~closed /\ out' = Tail(out)
        /\ UNCHANGED <<writes, phase, firstMsg, replica, waiting, reader, nextID, closed>>
    BY <1>0 DEF Reply
  <1>2. /\ out' \in Seq({Subscription} \cup Requests) /\ out[1] = Head(out)
        /\ Len(out) \in Nat /\ 1 \in DOMAIN out /\ DOMAIN out = 1..Len(out)
        /\ DOMAIN out' = 1..Len(out) - 1 /\ \A i \in DOMAIN out' : i + 1 \in DOMAIN out /\ out'[i] = out[i + 1]
    BY <1>1, Shapes, HeadTailProperties DEF TypeInv
  <1>3. Queued' = Queued /\ First' = First /\ Block' = Block /\ Block \in Nat
    BY <1>1, Shapes DEF Queued, First, Block
  <1>4. ReadersInv'
    BY <1>1 DEF ReadersInv
  <1>5. phase # "dial"
    BY <1>1 DEF PhaseInv
  <1>6. ValuesInv'
    BY <1>1, SameReplica DEF Swallowed
  <1>8. QED
    <2>1. PICK v \in {Zero, ValueAt(Head(out).key, stamp)} :
             in' = Append(in, [t |-> "answer", id |-> Head(out).id, v |-> v])
      BY DEF Reply
    <2> DEFINE x == [t |-> "answer", id |-> Head(out).id, v |-> v]
    <2>2. subscribed' = subscribed
      BY DEF Reply
    <2>3. Head(out) \in Requests
      BY <1>0, <1>2, Shapes DEF Subscription
    <2>4. Head(out).id \in 1..nextID /\ Head(out).key \in Keys /\ Head(out).t = "request"
      BY <2>3 DEF Requests
    <2>5. x \in Answers
      <3>1. <<Head(out).key, stamp>> \in Keys \X (0..Block)
        BY <2>4, <1>0
      <3>2. v \in {Zero} \cup {ValueAt(q[1], q[2]) : q \in Keys \X (0..Block)}
        BY <3>1
      <3> QED
        BY <2>4, <3>2 DEF Answers
    <2>6. x.t = "answer" /\ x.id = Head(out).id /\ x.v = v /\ in' = Append(in, x)
      BY <2>1
    <2> HIDE DEF x
    <2>7. /\ in' \in Seq(Dumps' \cup Answers' \cup Diffs')
          /\ DOMAIN in' = DOMAIN in \cup {Len(in) + 1} /\ in'[Len(in) + 1] = x
          /\ \A i \in DOMAIN in : in'[i] = in[i]
          /\ Carried' = Carried
          /\ \A i, j \in DOMAIN in' :
                i < j /\ in'[i].t = "diff" /\ in'[j].t = "diff" => in'[i].block < in'[j].block
      BY <1>1, <2>5, <2>6, AppendOther
    <2>8. TypeInv'
      BY <1>1, <1>2, <2>2, <2>7, SameWords DEF TypeInv, Subscription
    <2>9. phase # "dump"
      BY <1>0, <1>1, <1>2 DEF PhaseInv, Subscription
    <2>10. PhaseInv'
      <3>1. CASE phase = "failed"
        BY <3>1, <1>1 DEF PhaseInv
      <3>2. CASE phase = "live"
        <4>1. \A i \in DOMAIN in' : in'[i].t # "dump"
          BY <3>2, <2>6, <2>7 DEF PhaseInv
        <4>2. \A i \in DOMAIN out' : out'[i].t = "request"
          BY <3>2, <1>2 DEF PhaseInv
        <4> QED
          BY <3>2, <4>1, <4>2, <1>1, <2>2, SameWords DEF PhaseInv
      <3> QED
        BY <1>5, <2>9, <3>1, <3>2 DEF TypeInv
    <2>11. Ordered'
      BY <2>9, <1>1, <1>3, <2>7 DEF Ordered
    <2>12. Complete'
      BY <2>9, <1>1, <1>3, <2>7 DEF Complete
    <2>13. AnswersInv'
      <3> SUFFICES ASSUME NEW q \in Readers, reader'[q].pc = "waiting"
                   PROVE  /\ \A i \in DOMAIN out' : out'[i].t = "request" /\ out'[i].id = reader'[q].id =>
                                 out'[i].key = reader'[q].key
                          /\ \A i \in DOMAIN in' : in'[i].t = "answer" /\ in'[i].id = reader'[q].id =>
                                in'[i].v = Zero \/ Recent(reader[q].key, in[i].v)'
                          /\ reader'[q].ch # <<>> =>
                                reader'[q].ch[1] = Zero \/ Recent(reader[q].key, reader[q].ch[1])'
        BY DEF AnswersInv
      <3>1. /\ \A i \in DOMAIN out : out[i].t = "request" /\ out[i].id = reader[q].id =>
                  out[i].key = reader[q].key
            /\ \A i \in DOMAIN in : in[i].t = "answer" /\ in[i].id = reader[q].id =>
                  in[i].v = Zero \/ Recent(reader[q].key, in[i].v)
            /\ reader[q].ch # <<>> => reader[q].ch[1] = Zero \/ Recent(reader[q].key, reader[q].ch[1])
        BY <1>1 DEF AnswersInv
      <3>2. reader' = reader /\ replica' = replica /\ writes' = writes
        BY <1>1
      <3>3. \A i \in DOMAIN out' : out'[i].t = "request" /\ out'[i].id = reader[q].id =>
                out'[i].key = reader[q].key
        BY <1>2, <3>1
      <3>4. x.id = reader[q].id => x.v = Zero \/ Recent(reader[q].key, x.v)
        <4> SUFFICES ASSUME x.id = reader[q].id PROVE x.v = Zero \/ Recent(reader[q].key, x.v)
          OBVIOUS
        <4>1. Head(out).key = reader[q].key
          BY <1>2, <2>4, <2>6, <3>1
        <4>2. stamp \in replica.block..Block
          <5>1. reader[q].pc = "waiting" /\ reader[q].id = out[1].id
            BY <1>2, <2>6, <3>2
          <5>2. replica.block <= stamp
            BY <1>0, <5>1
          <5>3. replica.block \in 0..Block
            BY DEF TypeInv
          <5> QED
            BY <1>0, <1>3, <5>2, <5>3
        <4> QED
          BY <2>1, <2>6, <4>1, <4>2 DEF Recent
      <3>5. \A i \in DOMAIN in' : in'[i].t = "answer" /\ in'[i].id = reader[q].id =>
                in'[i].v = Zero \/ Recent(reader[q].key, in'[i].v)
        BY <2>7, <3>1, <3>4
      <3> QED
        BY <3>1, <3>2, <3>3, <3>5, SameValues DEF Recent
    <2> QED
      BY <1>4, <1>6, <2>8, <2>10, <2>11, <2>12, <2>13

-----------------------------------------------------------------------------
(***************************************************************************)
(* The client: messages, the dump, the diffs.                              *)
(***************************************************************************)

\* The first message is taken from the stream.
LEMMA TakeFacts ==
    ASSUME BrowserInv, in # <<>>, in' = Tail(in), UNCHANGED <<writes, nextID>>
    PROVE  /\ Head(in) = in[1] /\ 1 \in DOMAIN in /\ in[1] \in Dumps \cup Answers \cup Diffs
           /\ in' \in Seq(Dumps' \cup Answers' \cup Diffs')
           /\ \A i \in DOMAIN in' : i \in Nat /\ i + 1 \in DOMAIN in \ {1} /\ in'[i] = in[i + 1]
           /\ \A i, j \in DOMAIN in' :
                 i < j /\ in'[i].t = "diff" /\ in'[j].t = "diff" => in'[i].block < in'[j].block
           /\ Carried' \subseteq Carried
           /\ in[1].t # "diff" => Carried' = Carried
           /\ in[1].t = "diff" => /\ Carried = Carried' \cup {in[1].block}
                                  /\ \A c \in Carried' : in[1].block < c
  <1>1. /\ in \in Seq(Dumps \cup Answers \cup Diffs)
        /\ Len(in) \in Nat /\ DOMAIN in = 1..Len(in)
        /\ \A i \in 1..Len(in) : in[i] \in Dumps \cup Answers \cup Diffs
    BY Shapes DEF BrowserInv, TypeInv
  <1>2. /\ in' \in Seq(Dumps \cup Answers \cup Diffs) /\ Len(in) >= 1
        /\ Head(in) = in[1] /\ Len(in') = Len(in) - 1 /\ DOMAIN in' = 1..Len(in) - 1
        /\ \A i \in 1..Len(in) - 1 : in'[i] = in[i + 1]
    BY <1>1, HeadTailProperties
  <1>3. \A i \in DOMAIN in' : i \in Nat /\ i + 1 \in DOMAIN in \ {1} /\ in'[i] = in[i + 1]
    BY <1>1, <1>2
  <1>4. \A i \in DOMAIN in \ {1} : i - 1 \in DOMAIN in' /\ in'[i - 1] = in[i]
    BY <1>1, <1>2
  <1>5. \A i, j \in DOMAIN in' :
            i < j /\ in'[i].t = "diff" /\ in'[j].t = "diff" => in'[i].block < in'[j].block
    BY <1>3 DEF BrowserInv, Ordered
  <1>6. Carried' \subseteq Carried
    BY <1>3 DEF Carried
  <1>7. \A c \in Carried : c \in Carried' \/ (in[1].t = "diff" /\ c = in[1].block)
    <2> SUFFICES ASSUME NEW i \in DOMAIN in, in[i].t = "diff"
                 PROVE  in[i].block \in Carried' \/ (in[1].t = "diff" /\ in[i].block = in[1].block)
      BY DEF Carried
    <2>1. CASE i = 1
      BY <2>1
    <2>2. CASE i # 1
      <3>1. i - 1 \in DOMAIN in' /\ in'[i - 1] = in[i]
        BY <2>2, <1>4
      <3> QED
        BY <3>1 DEF Carried
    <2> QED
      BY <2>1, <2>2
  <1>8. 1 \in DOMAIN in
    BY <1>1, <1>2
  <1>9. in[1].t = "diff" => in[1].block \in Carried
    BY <1>8 DEF Carried
  <1>10. in[1].t = "diff" => \A c \in Carried' : in[1].block < c
    <2> SUFFICES ASSUME in[1].t = "diff", NEW i \in DOMAIN in', in'[i].t = "diff"
                 PROVE  in[1].block < in'[i].block
      BY DEF Carried
    <2>1. i + 1 \in DOMAIN in /\ 1 < i + 1 /\ in'[i] = in[i + 1]
      BY <1>1, <1>3
    <2> QED
      BY <2>1, <1>8 DEF BrowserInv, Ordered
  <1> QED
    BY <1>1, <1>2, <1>3, <1>5, <1>6, <1>7, <1>8, <1>9, <1>10, SameWords

\* The goroutines and what is under way to them, when answers only go missing.
LEMMA FewerAnswers ==
    ASSUME BrowserInv, UNCHANGED <<writes, replica, reader, out>>,
           \A i \in DOMAIN in' : i + 1 \in DOMAIN in /\ in'[i] = in[i + 1]
    PROVE  AnswersInv'
  <1> SUFFICES ASSUME NEW q \in Readers, reader'[q].pc = "waiting"
               PROVE  /\ \A i \in DOMAIN out' : out'[i].t = "request" /\ out'[i].id = reader'[q].id =>
                             out'[i].key = reader'[q].key
                      /\ \A i \in DOMAIN in' : in'[i].t = "answer" /\ in'[i].id = reader'[q].id =>
                            in'[i].v = Zero \/ Recent(reader[q].key, in[i].v)'
                      /\ reader'[q].ch # <<>> =>
                            reader'[q].ch[1] = Zero \/ Recent(reader[q].key, reader[q].ch[1])'
    BY DEF AnswersInv
  <1>1. /\ \A i \in DOMAIN out : out[i].t = "request" /\ out[i].id = reader[q].id =>
              out[i].key = reader[q].key
        /\ \A i \in DOMAIN in : in[i].t = "answer" /\ in[i].id = reader[q].id =>
              in[i].v = Zero \/ Recent(reader[q].key, in[i].v)
        /\ reader[q].ch # <<>> => reader[q].ch[1] = Zero \/ Recent(reader[q].key, reader[q].ch[1])
    BY DEF BrowserInv, AnswersInv
  <1>2. \A i \in DOMAIN in' : in'[i].t = "answer" /\ in'[i].id = reader[q].id =>
            in'[i].v = Zero \/ Recent(reader[q].key, in'[i].v)
    BY <1>1
  <1> QED
    BY <1>1, <1>2, SameValues DEF Recent

\* The dump arrives.
LEMMA TakeDump ==
    ASSUME BrowserInv, onmessage, Head(in).t = "dump"
    PROVE  BrowserInv'
  <1> USE DEF BrowserInv
  <1> DEFINE x == in[1]
  <1>1. /\ in # <<>> /\ ~(phase = "dump" /\ firstMsg # <<>>) /\ in' = Tail(in)
        /\ firstMsg' = IF firstMsg = <<>> THEN <<Head(in)>> ELSE firstMsg
        /\ UNCHANGED <<writes, out, subscribed, phase, replica, waiting, reader, nextID, closed>>
    BY DEF onmessage, chainVars
  <1>2. /\ Head(in) = x /\ 1 \in DOMAIN in /\ x \in Dumps \cup Answers \cup Diffs
        /\ in' \in Seq(Dumps' \cup Answers' \cup Diffs')
        /\ \A i \in DOMAIN in' : i \in Nat /\ i + 1 \in DOMAIN in \ {1} /\ in'[i] = in[i + 1]
        /\ \A i, j \in DOMAIN in' :
              i < j /\ in'[i].t = "diff" /\ in'[j].t = "diff" => in'[i].block < in'[j].block
        /\ x.t # "diff" => Carried' = Carried
    BY <1>1, TakeFacts
  <1>3. x \in Dumps /\ Carried' = Carried
    BY <1>2, MessageFacts
  <1>4. TypeInv'
    <2>1. firstMsg' \in Seq(Dumps \cup Diffs)
      <3>1. <<x>> \in Seq(Dumps \cup Diffs)
        BY <1>3
      <3> QED
        BY <1>1, <1>2, <3>1 DEF TypeInv
    <2> QED
      BY <1>1, <1>2, <2>1, SameWords DEF TypeInv, Subscription
  <1>5. ReadersInv'
    BY <1>1 DEF ReadersInv
  <1>6. AnswersInv'
    BY <1>1, <1>2, FewerAnswers
  <1>7. phase \in {"dump", "failed"}
    <2>1. x.t = "dump"
      BY <1>2
    <2> QED
      BY <1>1, <1>2, <2>1 DEF PhaseInv, TypeInv
  <1>8. ValuesInv'
    BY <1>1, <1>7, SameReplica DEF Swallowed
  <1>9. CASE phase = "failed"
    <2>1. PhaseInv'
      BY <1>9, <1>1 DEF PhaseInv
    <2>2. Ordered'
      BY <1>9, <1>1, <1>2 DEF Ordered
    <2>3. Complete'
      BY <1>9, <1>1 DEF Complete
    <2> QED
      BY <1>4, <1>5, <1>6, <1>8, <2>1, <2>2, <2>3
  <1>10. CASE phase = "dump"
    <2>1. firstMsg = <<>> /\ firstMsg' = <<x>> /\ firstMsg' # <<>> /\ firstMsg'[1] = x
      BY <1>10, <1>1, <1>2
    <2>2. subscribed /\ \A i \in DOMAIN in' : in'[i].t = "diff"
      BY <1>10, <1>1, <1>2, <2>1 DEF PhaseInv
    <2>3. PhaseInv'
      BY <1>10, <1>1, <1>3, <2>1, <2>2, SameWords DEF PhaseInv
    <2>4. TheDump' = TheDump
      BY <2>1 DEF TheDump
    <2>5. Ordered'
      BY <1>10, <1>1, <1>2, <1>3, <2>4 DEF Ordered
    <2>6. Complete'
      <3>1. Block' = Block /\ ~closed
        BY <1>1 DEF Block, Complete
      <3> QED
        BY <1>10, <1>1, <1>3, <2>4, <3>1 DEF Complete
    <2> QED
      BY <1>4, <1>5, <1>6, <1>8, <2>3, <2>5, <2>6
  <1> QED
    BY <1>7, <1>9, <1>10

\* An answer arrives: the goroutine that has its id gets it.
LEMMA TakeAnswer ==
    ASSUME BrowserInv, onmessage, Head(in).t = "answer"
    PROVE  BrowserInv'
  <1> USE DEF BrowserInv
  <1> DEFINE x == in[1]
  <1>1. /\ in # <<>> /\ ~(phase = "dump" /\ firstMsg # <<>>) /\ in' = Tail(in)
        /\ reader' = Answered(Head(in))
        /\ UNCHANGED <<writes, out, subscribed, phase, firstMsg, replica, waiting, nextID, closed>>
    BY DEF onmessage, chainVars
  <1>2. /\ Head(in) = x /\ 1 \in DOMAIN in /\ x \in Dumps \cup Answers \cup Diffs
        /\ in' \in Seq(Dumps' \cup Answers' \cup Diffs')
        /\ \A i \in DOMAIN in' : i \in Nat /\ i + 1 \in DOMAIN in \ {1} /\ in'[i] = in[i + 1]
        /\ \A i, j \in DOMAIN in' :
              i < j /\ in'[i].t = "diff" /\ in'[j].t = "diff" => in'[i].block < in'[j].block
        /\ x.t # "diff" => Carried' = Carried
    BY <1>1, TakeFacts
  <1>3. x.t = "answer" /\ Carried' = Carried /\ x \notin Dumps
    BY <1>2, MessageFacts
  <1>4. phase \in {"live", "failed"}
    BY <1>1, <1>3 DEF PhaseInv, TypeInv
  <1>5. DOMAIN reader' = Readers
    BY <1>1 DEF Answered
  <1>6. \A q \in Readers :
           \/ reader'[q] = reader[q]
           \/ /\ reader[q].pc = "waiting" /\ reader[q].id = x.id
              /\ reader'[q] = [reader[q] EXCEPT !.ch = <<x.v>>]
    BY <1>1, <1>2 DEF Answered
  <1>7. \A q \in Readers :
           /\ DOMAIN reader'[q] = {"pc", "kind", "key", "id", "ch"}
           /\ reader'[q].pc = reader[q].pc /\ reader'[q].id = reader[q].id /\ reader'[q].key = reader[q].key
           /\ \/ reader'[q].ch = reader[q].ch
              \/ reader[q].pc = "waiting" /\ reader[q].id = x.id /\ reader'[q].ch = <<x.v>>
    BY <1>6 DEF ReadersInv
  <1>8. TypeInv'
    BY <1>1, <1>2, SameWords DEF TypeInv, Subscription
  <1>9. ReadersInv'
    BY <1>1, <1>5, <1>7 DEF ReadersInv
  <1>10. PhaseInv'
    <2>1. phase # "live" => \A r \in Readers : reader'[r].pc = "idle"
      BY <1>7 DEF PhaseInv
    <2>2. phase = "live" => \A i \in DOMAIN in' : in'[i].t # "dump"
      BY <1>2 DEF PhaseInv
    <2> QED
      BY <1>1, <1>4, <2>1, <2>2, SameWords DEF PhaseInv
  <1>11. Queued' = Queued /\ First' = First /\ Block' = Block
    BY <1>1 DEF Queued, First, Block
  <1>12. Ordered'
    BY <1>1, <1>2, <1>3, <1>4, <1>11 DEF Ordered
  <1>13. Complete'
    BY <1>1, <1>3, <1>4, <1>11 DEF Complete
  <1>14. ValuesInv'
    BY <1>1, SameValues DEF ValuesInv, Allowed, Recent, Swallowed
  <1>15. AnswersInv'
    <2> SUFFICES ASSUME NEW q \in Readers, reader'[q].pc = "waiting"
                 PROVE  /\ \A i \in DOMAIN out' : out'[i].t = "request" /\ out'[i].id = reader'[q].id =>
                               out'[i].key = reader'[q].key
                        /\ \A i \in DOMAIN in' : in'[i].t = "answer" /\ in'[i].id = reader'[q].id =>
                              in'[i].v = Zero \/ Recent(reader[q].key, in[i].v)'
                        /\ reader'[q].ch # <<>> =>
                              reader'[q].ch[1] = Zero \/ Recent(reader[q].key, reader[q].ch[1])'
      BY DEF AnswersInv
    <2>1. /\ \A i \in DOMAIN out : out[i].t = "request" /\ out[i].id = reader[q].id =>
                out[i].key = reader[q].key
          /\ \A i \in DOMAIN in : in[i].t = "answer" /\ in[i].id = reader[q].id =>
                in[i].v = Zero \/ Recent(reader[q].key, in[i].v)
          /\ reader[q].ch # <<>> => reader[q].ch[1] = Zero \/ Recent(reader[q].key, reader[q].ch[1])
      BY <1>7 DEF AnswersInv
    <2>2. \A i \in DOMAIN in' : in'[i].t = "answer" /\ in'[i].id = reader[q].id =>
              in'[i].v = Zero \/ Recent(reader[q].key, in'[i].v)
      BY <1>2, <2>1
    <2>3. reader'[q].ch # <<>> => reader'[q].ch[1] = Zero \/ Recent(reader[q].key, reader'[q].ch[1])
      <3>1. CASE reader'[q].ch = reader[q].ch
        BY <3>1, <2>1
      <3>2. CASE reader[q].id = x.id /\ reader'[q].ch = <<x.v>>
        BY <3>2, <1>2, <1>3, <2>1
      <3> QED
        BY <1>7, <3>1, <3>2
    <2>4. reader'[q].key = reader[q].key /\ reader'[q].id = reader[q].id
      BY <1>7
    <2> QED
      BY <1>1, <2>1, <2>2, <2>3, <2>4, SameValues DEF Recent
  <1> QED
    BY <1>8, <1>9, <1>10, <1>12, <1>13, <1>14, <1>15

\* A block diff arrives: it ends in firstMsg when that is free, else at the lock.
LEMMA TakeDiff ==
    ASSUME BrowserInv, onmessage, Head(in).t = "diff"
    PROVE  BrowserInv'
  <1> USE DEF BrowserInv
  <1> DEFINE x == in[1]
  <1>1. /\ in # <<>> /\ ~(phase = "dump" /\ firstMsg # <<>>) /\ in' = Tail(in)
        /\ firstMsg' = Push(Head(in)).first /\ waiting' = Push(Head(in)).waiting
        /\ UNCHANGED <<writes, out, subscribed, phase, replica, reader, nextID, closed>>
    BY DEF onmessage, chainVars
  <1>2. /\ Head(in) = x /\ 1 \in DOMAIN in /\ x \in Dumps \cup Answers \cup Diffs
        /\ in' \in Seq(Dumps' \cup Answers' \cup Diffs')
        /\ \A i \in DOMAIN in' : i \in Nat /\ i + 1 \in DOMAIN in \ {1} /\ in'[i] = in[i + 1]
        /\ \A i, j \in DOMAIN in' :
              i < j /\ in'[i].t = "diff" /\ in'[j].t = "diff" => in'[i].block < in'[j].block
        /\ x.t = "diff" => Carried = Carried' \cup {x.block} /\ \A c \in Carried' : x.block < c
    BY <1>1, TakeFacts
  <1>3. /\ x \in Diffs /\ x \notin Dumps /\ x.block \in 1..Block
        /\ Carried = Carried' \cup {x.block} /\ \A c \in Carried' : x.block < c
    BY <1>2, MessageFacts
  <1>4. phase \in {"live", "failed"}
    BY <1>1, <1>3 DEF PhaseInv, TypeInv
  <1>5. /\ firstMsg = <<>> => firstMsg' = <<x>> /\ waiting' = waiting
        /\ firstMsg # <<>> =>
              /\ firstMsg' = firstMsg
              /\ waiting' = IF phase = "live" THEN Append(waiting, x) ELSE waiting
    BY <1>1, <1>2 DEF Push
  <1>6. Block \in Nat /\ Block' = Block /\ ~closed
    BY <1>1, Shapes DEF Block, Complete
  <1> HIDE DEF x
  <1>7. TypeInv'
    <2>1. firstMsg' \in Seq(Dumps \cup Diffs)
      <3>1. <<x>> \in Seq(Dumps \cup Diffs)
        BY <1>3
      <3> QED
        BY <1>5, <3>1 DEF TypeInv
    <2>2. waiting' \in Seq(Diffs)
      <3>1. Append(waiting, x) \in Seq(Diffs)
        BY <1>3 DEF TypeInv
      <3> QED
        BY <1>5, <3>1 DEF TypeInv
    <2> QED
      BY <1>1, <1>2, <2>1, <2>2, SameWords DEF TypeInv, Subscription
  <1>8. ReadersInv'
    BY <1>1 DEF ReadersInv
  <1>9. AnswersInv'
    BY <1>1, <1>2, FewerAnswers
  <1>10. ValuesInv'
    <2>1. Swallowed \subseteq Swallowed'
      BY <1>1, <1>5 DEF Swallowed
    <2> QED
      BY <1>1, <2>1, SameReplica
  <1>11. CASE phase = "failed"
    <2>1. waiting' = waiting
      BY <1>11, <1>5
    <2>2. PhaseInv'
      BY <1>11, <1>1, <2>1 DEF PhaseInv
    <2>3. Ordered'
      BY <1>11, <1>1, <1>2, <2>1 DEF Ordered
    <2>4. Complete'
      BY <1>11, <1>1, <1>6 DEF Complete
    <2> QED
      BY <1>7, <1>8, <1>9, <1>10, <2>2, <2>3, <2>4
  <1>12. CASE phase = "live"
    <2>1. /\ replica.block \in Nat /\ Carried \subseteq 1..Block /\ Queued \subseteq 1..Block
          /\ First \subseteq 0..Block
      BY <1>6, BlocksUnderWay DEF TypeInv
    <2>2. /\ \A q \in Queued : replica.block < q
          /\ \A c \in Carried : replica.block < c
          /\ \A c \in Carried, q \in Queued \cup First : q < c
      BY <1>12 DEF Ordered
    <2>3. /\ \A w \in Queued : \A b \in replica.block + 1..w : b \in Queued \cup First
          /\ \A b \in replica.block + 1..Block : b \in Queued \cup First \cup Carried
      BY <1>12, <1>6 DEF Complete
    <2>4. firstMsg' # <<>> => firstMsg'[1] \in Diffs
      BY <1>12, <1>3, <1>5 DEF PhaseInv
    <2>5. Len(firstMsg') <= 1
      <3>1. Len(firstMsg) <= 1
        BY <1>12 DEF PhaseInv
      <3>2. Len(<<x>>) = 1
        OBVIOUS
      <3>3. CASE firstMsg = <<>>
        <4>1. firstMsg' = <<x>>
          BY <1>5, <3>3
        <4> QED
          BY <3>2, <4>1
      <3>4. CASE firstMsg # <<>>
        <4>1. firstMsg' = firstMsg
          BY <1>5, <3>4
        <4> QED
          BY <3>1, <4>1
      <3> QED
        BY <3>3, <3>4
    <2>6. \A i \in DOMAIN in' : in'[i].t # "dump"
      BY <1>12, <1>2 DEF PhaseInv
    <2>7. PhaseInv'
      BY <1>12, <1>1, <2>4, <2>5, <2>6, SameWords DEF PhaseInv
    <2>8. CASE firstMsg = <<>>
      <3>1. Queued' = Queued /\ First' = {x.block} /\ First = {} /\ waiting' = waiting
        BY <2>8, <1>5 DEF Queued, First
      <3>2. Ordered'
        BY <1>12, <1>1, <1>2, <1>3, <2>2, <3>1 DEF Ordered
      <3>3. Complete'
        BY <1>12, <1>1, <1>3, <1>6, <2>3, <3>1 DEF Complete
      <3> QED
        BY <1>7, <1>8, <1>9, <1>10, <2>7, <3>2, <3>3
    <2>9. CASE firstMsg # <<>>
      <3>1. waiting' = Append(waiting, x) /\ First' = First
        BY <2>9, <1>12, <1>5 DEF First
      <3>2. /\ Len(waiting) \in Nat /\ DOMAIN waiting = 1..Len(waiting)
            /\ DOMAIN waiting' = 1..Len(waiting) + 1 /\ waiting'[Len(waiting) + 1] = x
            /\ \A i \in DOMAIN waiting : waiting'[i] = waiting[i]
        BY <1>3, <3>1, Shapes DEF TypeInv
      <3>3. Queued' = Queued \cup {x.block}
        <4>1. Queued' \subseteq Queued \cup {x.block}
          BY <3>2 DEF Queued
        <4>2. \A i \in DOMAIN waiting : waiting[i].block \in Queued'
          BY <3>2 DEF Queued
        <4>3. Len(waiting) + 1 \in DOMAIN waiting'
          BY <3>2
        <4>4. x.block \in Queued'
          BY <3>2, <4>3 DEF Queued
        <4> QED
          BY <4>1, <4>2, <4>4 DEF Queued
      <3>4. \A i, j \in DOMAIN waiting' : i < j => waiting'[i].block < waiting'[j].block
        <4> SUFFICES ASSUME NEW i \in DOMAIN waiting', NEW j \in DOMAIN waiting', i < j
                     PROVE  waiting'[i].block < waiting'[j].block
          OBVIOUS
        <4>1. i \in DOMAIN waiting /\ waiting'[i] = waiting[i]
          BY <3>2
        <4>2. CASE j \in DOMAIN waiting
          BY <4>1, <4>2, <3>2 DEF Ordered
        <4>3. CASE j = Len(waiting) + 1
          BY <4>1, <4>3, <3>2, <1>3, <2>2 DEF Queued
        <4> QED
          BY <3>2, <4>2, <4>3
      <3>5. Ordered'
        BY <1>12, <1>1, <1>2, <1>3, <2>2, <3>1, <3>3, <3>4 DEF Ordered
      <3>6. \A b \in replica.block + 1..x.block : b \in Queued' \cup First'
        <4> SUFFICES ASSUME NEW b \in replica.block + 1..x.block PROVE b \in Queued' \cup First'
          OBVIOUS
        <4>1. b \in replica.block + 1..Block
          BY <1>3, <1>6, <2>1
        <4>2. b \notin Carried'
          BY <1>3, <1>6, <2>1
        <4> QED
          BY <1>3, <2>3, <3>1, <3>3, <4>1, <4>2
      <3>7. Complete'
        BY <1>12, <1>1, <1>3, <1>6, <2>3, <3>1, <3>3, <3>6 DEF Complete
      <3> QED
        BY <1>7, <1>8, <1>9, <1>10, <2>7, <3>5, <3>7
    <2> QED
      BY <2>8, <2>9
  <1> QED
    BY <1>4, <1>11, <1>12

\* onmessage, whatever it takes.
LEMMA onmessageInv == BrowserInv /\ onmessage => BrowserInv'
  <1> SUFFICES ASSUME BrowserInv, onmessage PROVE BrowserInv'
    OBVIOUS
  <1>1. Head(in) \in Dumps \cup Answers \cup Diffs
    BY TakeFacts DEF onmessage, chainVars
  <1>2. Head(in).t \in {"dump", "answer", "diff"}
    BY <1>1, MessageFacts
  <1> QED
    BY <1>2, TakeDump, TakeAnswer, TakeDiff

\* The dump becomes the replica.
LEMMA ConnectBrowserInv == BrowserInv /\ ConnectBrowser => BrowserInv'
  <1> SUFFICES ASSUME BrowserInv, ConnectBrowser PROVE BrowserInv'
    OBVIOUS
  <1> USE DEF BrowserInv
  <1> DEFINE x == firstMsg[1]
  <1>1. /\ phase = "dump" /\ firstMsg # <<>> /\ phase' = "live" /\ firstMsg' = <<>>
        /\ replica' = [block |-> x.block, im |-> x.im, bf |-> Empty]
        /\ UNCHANGED <<writes, out, in, subscribed, waiting, reader, nextID, closed>>
    BY DEF ConnectBrowser, chainVars
  <1>2. /\ x \in Dumps /\ waiting = <<>> /\ subscribed /\ out = <<>>
        /\ \A i \in DOMAIN in : in[i].t = "diff"
        /\ \A r \in Readers : reader[r].pc = "idle"
    BY <1>1 DEF PhaseInv
  <1>3. x.block \in 0..Block /\ x.im = [k \in Dumped |-> ValueAt(k, x.block)]
    BY <1>2, MessageFacts
  <1>4. TheDump = x
    BY <1>1 DEF TheDump
  <1> HIDE DEF x
  <1>5. /\ DOMAIN replica' = {"block", "im", "bf"} /\ replica'.block = x.block
        /\ replica'.im = x.im /\ replica'.bf = Empty
    BY <1>1
  <1>6. DOMAIN x.im = Dumped /\ Dumped \subseteq Keys /\ DOMAIN Empty = {}
    BY <1>3, BrowserAssumption DEF Empty
  <1>7. TypeInv'
    <2>1. Block' = Block
      BY <1>1 DEF Block
    <2>2. firstMsg' \in Seq(Dumps' \cup Diffs')
      BY <1>1
    <2>3. DOMAIN replica'.im \subseteq Keys /\ DOMAIN replica'.bf \subseteq Keys
      BY <1>5, <1>6
    <2> QED
      BY <1>1, <1>3, <1>5, <2>1, <2>2, <2>3, SameWords DEF TypeInv, Subscription
  <1>8. ReadersInv'
    BY <1>1 DEF ReadersInv
  <1>9. PhaseInv'
    <2>1. \A i \in DOMAIN in' : in'[i].t # "dump"
      BY <1>1, <1>2
    <2>2. \A i \in DOMAIN out' : out'[i].t = "request"
      BY <1>1, <1>2
    <2>3. Len(firstMsg') <= 1
      BY <1>1
    <2> QED
      BY <1>1, <1>2, <2>1, <2>2, <2>3 DEF PhaseInv
  <1>10. /\ Carried' = Carried /\ Queued' = {} /\ First' = {} /\ Block' = Block
    BY <1>1, <1>2 DEF Carried, Queued, First, Block
  <1>11. Ordered'
    <2>1. \A c \in Carried : x.block < c
      BY <1>1, <1>4 DEF Ordered
    <2> QED
      BY <1>1, <1>5, <1>10, <2>1 DEF Ordered
  <1>12. Complete'
    <2>1. ~closed => \A b \in x.block + 1..Block : b \in Carried
      BY <1>1, <1>4 DEF Complete
    <2> QED
      BY <1>1, <1>5, <1>10, <2>1 DEF Complete
  <1>13. ValuesInv'
    <2>1. Block \in Nat /\ Block' = Block /\ \A k, b : ValueAt(k, b)' = ValueAt(k, b)
      BY <1>1, SameValues, Shapes
    <2>2. x.block \in x.block..Block
      BY <1>3, <2>1
    <2>3. \A k \in DOMAIN x.im : \E b \in x.block..Block : x.im[k] = ValueAt(k, b)
      BY <1>3, <2>2
    <2>4. \A k \in DOMAIN replica'.im : Recent(k, replica.im[k])'
      BY <1>5, <2>1, <2>3 DEF Recent
    <2> QED
      BY <1>5, <1>6, <2>4 DEF ValuesInv, Allowed
  <1>14. AnswersInv'
    BY <1>1, <1>2 DEF AnswersInv
  <1> QED
    BY <1>7, <1>8, <1>9, <1>11, <1>12, <1>13, <1>14

(* A block diff is applied.  The blocks it skips are in firstMsg; what they *)
(* did not write, and it does not write, has the value it had.              *)
LEMMA HandleBlockDiffInv == BrowserInv /\ HandleBlockDiff => BrowserInv'
  <1> SUFFICES ASSUME BrowserInv, HandleBlockDiff PROVE BrowserInv'
    OBVIOUS
  <1> USE DEF BrowserInv
  <1> DEFINE d == waiting[1]
             f == [k \in d.keys |-> ValueAt(k, d.block)]
             g == Over(replica.bf, replica.im)
  <1>1. /\ waiting # <<>> /\ \A r \in Readers : ~Locked(r)
        /\ waiting' = Tail(waiting)
        /\ UNCHANGED <<writes, out, in, subscribed, phase, firstMsg, reader, nextID, closed>>
    BY DEF HandleBlockDiff, chainVars
  <1>2. /\ waiting \in Seq(Diffs) /\ Len(waiting) \in Nat /\ DOMAIN waiting = 1..Len(waiting)
        /\ \A i \in 1..Len(waiting) : waiting[i] \in Diffs
    BY Shapes DEF TypeInv
  <1>3. /\ waiting' \in Seq(Diffs) /\ Len(waiting) >= 1 /\ Head(waiting) = d
        /\ DOMAIN waiting' = 1..Len(waiting) - 1
        /\ \A i \in 1..Len(waiting) - 1 : waiting'[i] = waiting[i + 1]
    BY <1>1, <1>2, HeadTailProperties
  <1>4. d \in Diffs /\ d.block \in 1..Block /\ d.keys = writes[d.block]
    <2>1. d \in Diffs
      BY <1>2, <1>3
    <2> QED
      BY <2>1, MessageFacts
  <1>5. replica' = [block |-> d.block, bf |-> Empty, im |-> Over(f, g)]
    BY <1>3 DEF HandleBlockDiff
  <1>6. phase = "live"
    BY <1>1 DEF PhaseInv
  <1>7. /\ Block \in Nat /\ Block' = Block /\ replica.block \in 0..Block
        /\ d.keys \subseteq Keys /\ \A k, b : ValueAt(k, b)' = ValueAt(k, b)
    BY <1>1, <1>4, Shapes, SameValues DEF TypeInv
  <1>8. /\ Carried \subseteq 1..Block /\ Queued \subseteq 1..Block /\ First \subseteq 0..Block
        /\ Carried' = Carried /\ First' = First
    BY <1>1, BlocksUnderWay DEF Carried, First
  <1>9. DOMAIN f = d.keys /\ \A k \in d.keys : f[k] = ValueAt(k, d.block)
    OBVIOUS
  <1>10. /\ DOMAIN g = DOMAIN replica.bf \cup DOMAIN replica.im
         /\ \A k \in DOMAIN replica.bf : g[k] = replica.bf[k]
         /\ \A k \in DOMAIN replica.im \ DOMAIN replica.bf : g[k] = replica.im[k]
    BY OverFacts
  <1> HIDE DEF f, g, d
  <1>11. /\ DOMAIN replica' = {"block", "im", "bf"} /\ replica'.block = d.block
         /\ replica'.bf = Empty /\ replica'.im = Over(f, g)
    BY <1>5
  <1>12. /\ DOMAIN Over(f, g) = d.keys \cup DOMAIN g
         /\ \A k \in d.keys : Over(f, g)[k] = ValueAt(k, d.block)
         /\ \A k \in DOMAIN g \ d.keys : Over(f, g)[k] = g[k]
    <2>1. /\ DOMAIN Over(f, g) = DOMAIN f \cup DOMAIN g
          /\ \A k \in DOMAIN f : Over(f, g)[k] = f[k]
          /\ \A k \in DOMAIN g \ DOMAIN f : Over(f, g)[k] = g[k]
      BY OverFacts
    <2> QED
      BY <1>9, <2>1
  <1>13. DOMAIN Empty = {}
    BY DEF Empty
  <1>14. TypeInv'
    <2>1. DOMAIN replica'.im \subseteq Keys /\ DOMAIN replica'.bf \subseteq Keys
      BY <1>7, <1>10, <1>11, <1>12, <1>13 DEF TypeInv
    <2>2. replica'.block \in 0..Block'
      BY <1>4, <1>7, <1>11
    <2> QED
      BY <1>1, <1>3, <1>11, <2>1, <2>2, SameWords DEF TypeInv, Subscription
  <1>15. ReadersInv'
    BY <1>1 DEF ReadersInv
  <1>16. PhaseInv'
    BY <1>1, <1>6, SameWords DEF PhaseInv
  <1>17. AnswersInv'
    BY <1>1 DEF AnswersInv, Locked
  <1>18. \A i \in DOMAIN waiting \ {1} : i - 1 \in DOMAIN waiting' /\ waiting'[i - 1] = waiting[i]
    BY <1>2, <1>3
  <1>19. Queued' \subseteq Queued /\ Queued = Queued' \cup {d.block} /\ \A q \in Queued' : d.block < q
    <2>1. \A i \in DOMAIN waiting' : /\ i + 1 \in DOMAIN waiting /\ 1 \in DOMAIN waiting /\ 1 < i + 1
                                     /\ waiting'[i] = waiting[i + 1]
      BY <1>2, <1>3
    <2>2. \A i \in DOMAIN waiting' : waiting'[i].block \in Queued /\ d.block < waiting'[i].block
      BY <2>1 DEF Queued, Ordered, d
    <2>3. d.block \in Queued
      BY <1>2, <1>3 DEF Queued, d
    <2>4. \A i \in DOMAIN waiting : waiting[i].block \in Queued' \cup {d.block}
      <3> SUFFICES ASSUME NEW i \in DOMAIN waiting PROVE waiting[i].block \in Queued' \cup {d.block}
        OBVIOUS
      <3>1. CASE i = 1
        BY <3>1 DEF d
      <3>2. CASE i # 1
        BY <3>2, <1>18 DEF Queued
      <3> QED
        BY <3>1, <3>2
    <2>5. Queued' \subseteq Queued /\ \A q \in Queued' : d.block < q
      BY <2>2 DEF Queued
    <2>6. Queued \subseteq Queued' \cup {d.block}
      BY <2>4 DEF Queued
    <2> QED
      BY <2>3, <2>5, <2>6
  <1>20. /\ replica.block < d.block
         /\ \A c \in Carried, q \in Queued \cup First : q < c
         /\ \A w \in Queued : \A b \in replica.block + 1..w : b \in Queued \cup First
         /\ ~closed => \A b \in replica.block + 1..Block : b \in Queued \cup First \cup Carried
    BY <1>6, <1>19 DEF Ordered, Complete
  <1>21. \A b \in replica.block + 1..d.block : b = d.block \/ b \in First
    BY <1>4, <1>7, <1>8, <1>19, <1>20
  <1>22. Ordered'
    <2>1. \A i, j \in DOMAIN waiting' : i < j => waiting'[i].block < waiting'[j].block
      <3> SUFFICES ASSUME NEW i \in DOMAIN waiting', NEW j \in DOMAIN waiting', i < j
                   PROVE  waiting'[i].block < waiting'[j].block
        OBVIOUS
      <3>1. /\ i + 1 \in DOMAIN waiting /\ j + 1 \in DOMAIN waiting /\ i + 1 < j + 1
            /\ waiting'[i] = waiting[i + 1] /\ waiting'[j] = waiting[j + 1]
        BY <1>2, <1>3
      <3> QED
        BY <3>1 DEF Ordered
    <2>2. \A c \in Carried : d.block < c
      BY <1>19, <1>20
    <2>3. \A i, j \in DOMAIN in' :
              i < j /\ in'[i].t = "diff" /\ in'[j].t = "diff" => in'[i].block < in'[j].block
      BY <1>1 DEF Ordered
    <2> QED
      BY <1>1, <1>6, <1>8, <1>11, <1>19, <1>20, <2>1, <2>2, <2>3 DEF Ordered
  <1>23. Complete'
    <2>1. \A w \in Queued' : \A b \in d.block + 1..w : b \in Queued' \cup First
      <3> SUFFICES ASSUME NEW w \in Queued', NEW b \in d.block + 1..w PROVE b \in Queued' \cup First
        OBVIOUS
      <3>1. b \in replica.block + 1..w /\ b # d.block
        BY <1>4, <1>7, <1>8, <1>19, <1>20
      <3> QED
        BY <1>19, <1>20, <3>1
    <2>2. ~closed => \A b \in d.block + 1..Block : b \in Queued' \cup First \cup Carried
      <3> SUFFICES ASSUME ~closed, NEW b \in d.block + 1..Block
                   PROVE  b \in Queued' \cup First \cup Carried
        OBVIOUS
      <3>1. b \in replica.block + 1..Block /\ b # d.block
        BY <1>4, <1>7, <1>20
      <3> QED
        BY <1>19, <1>20, <3>1
    <2> QED
      BY <1>1, <1>6, <1>7, <1>8, <1>11, <2>1, <2>2 DEF Complete
  <1>24. \A k \in Keys \ Swallowed : k \notin d.keys => \A v : Recent(k, v) => Recent(k, v)'
    <2> SUFFICES ASSUME NEW k \in Keys, k \notin Swallowed, k \notin d.keys, NEW v,
                        NEW b \in replica.block..Block, v = ValueAt(k, b)
                 PROVE  \E c \in d.block..Block : v = ValueAt(k, c)
      BY <1>7, <1>11 DEF Recent
    <2>1. CASE b >= d.block
      BY <2>1, <1>4, <1>7
    <2>2. CASE b < d.block
      <3>1. \A n \in b + 1..d.block : k \notin writes[n]
        <4> SUFFICES ASSUME NEW n \in b + 1..d.block PROVE k \notin writes[n]
          OBVIOUS
        <4>1. n \in replica.block + 1..d.block
          BY <1>4, <1>7
        <4>2. CASE n = d.block
          BY <4>2, <1>4
        <4>3. CASE n \in First
          <5>1. PICK i \in DOMAIN firstMsg : n = firstMsg[i].block
            BY <4>3 DEF First
          <5>2. i = 1 /\ firstMsg # <<>> /\ firstMsg[1] \in Diffs
            BY <1>6, <5>1, Shapes DEF PhaseInv
          <5>3. firstMsg[1].keys = writes[n]
            BY <5>1, <5>2, MessageFacts
          <5> QED
            BY <1>6, <5>2, <5>3 DEF Swallowed
        <4> QED
          BY <1>21, <4>1, <4>2, <4>3
      <3>2. b \in Nat /\ d.block \in Nat /\ b <= d.block /\ d.block \in d.block..Block
        BY <2>2, <1>4, <1>7
      <3>3. ValueAt(k, b) = ValueAt(k, d.block)
        BY <3>1, <3>2, ValueAtSame
      <3> QED
        BY <3>2, <3>3
    <2> QED
      BY <1>4, <1>7, <2>1, <2>2
  <1>25. ValuesInv'
    <2> SUFFICES ASSUME NEW k \in DOMAIN replica'.im
                 PROVE  Allowed(k, replica.im[k])'
      BY <1>11, <1>13 DEF ValuesInv
    <2>1. Swallowed' = Swallowed
      BY <1>1 DEF Swallowed
    <2>2. CASE k \in d.keys
      <3>1. replica'.im[k] = ValueAt(k, d.block) /\ d.block \in d.block..Block
        BY <2>2, <1>4, <1>7, <1>11, <1>12
      <3>2. Recent(k, replica.im[k])'
        BY <3>1, <1>7, <1>11 DEF Recent
      <3> QED
        BY <3>2 DEF Allowed
    <2>3. CASE k \notin d.keys
      <3>1. k \in DOMAIN g /\ replica'.im[k] = g[k] /\ k \in Keys
        BY <2>3, <1>10, <1>11, <1>12 DEF TypeInv
      <3>2. Allowed(k, g[k])
        BY <3>1, <1>10 DEF ValuesInv
      <3>3. PICK v : v = g[k]
        OBVIOUS
      <3>4. Recent(k, v) \/ k \in Swallowed \/ v \in {Zero, Local}
        BY <3>2, <3>3 DEF Allowed
      <3>5. Recent(k, v)' \/ k \in Swallowed \/ v \in {Zero, Local}
        BY <1>24, <2>3, <3>1, <3>4
      <3>6. Recent(k, v)' => Recent(k, replica.im[k])'
        BY <3>1, <3>3 DEF Recent
      <3> QED
        BY <2>1, <3>1, <3>3, <3>5, <3>6 DEF Allowed
    <2> QED
      BY <2>2, <2>3
  <1> QED
    BY <1>14, <1>15, <1>16, <1>17, <1>22, <1>23, <1>25

-----------------------------------------------------------------------------
(***************************************************************************)
(* Every step keeps the invariant, and the invariant is what was meant.    *)
(***************************************************************************)

(***************************************************************************)
(* What the server has stamped, when the goroutines that wait for an       *)
(* answer are none but those of before and the replica has not moved, or   *)
(* when nobody waits.                                                      *)
(***************************************************************************)
LEMMA SameStamp ==
    ASSUME BrowserInv, StampInv, UNCHANGED <<stamp, out, closed>>, Block' \in Nat, Block <= Block',
           \A r \in Readers : reader'[r].pc = "waiting" =>
              /\ reader[r].pc = "waiting" /\ reader'[r].id = reader[r].id
              /\ replica'.block = replica.block
    PROVE  StampInv'
  <1>1. Block \in Nat
    BY Shapes DEF BrowserInv
  <1> QED
    BY <1>1 DEF StampInv, NotYet

\* A block leaves it below the server's block.
LEMMA MineStamp == ASSUME BrowserInv, StampInv, NEW ks \in BlockWrites, Mine(ks) PROVE StampInv'
  <1>1. /\ writes' = Append(writes, ks) /\ ks \in SUBSET Keys
        /\ UNCHANGED <<stamp, out, replica, reader, nextID, closed>>
    BY BrowserAssumption DEF Mine
  <1>2. Block' = Block + 1
    BY <1>1, MoreChain DEF BrowserInv
  <1>3. Block \in Nat
    BY Shapes DEF BrowserInv
  <1> QED
    BY <1>1, <1>2, <1>3, SameStamp

\* A new request is behind those under way, and its id is on none of them.
LEMMA CallStamp ==
    ASSUME BrowserInv, StampInv, NEW r \in Readers, NEW k \in Keys, Call(r, k)
    PROVE  StampInv'
  <1> DEFINE x == [t |-> "request", id |-> nextID + 1, key |-> k]
  <1>1. /\ out' = Append(out, x)
        /\ reader' = [reader EXCEPT ![r].pc = "waiting", ![r].key = k, ![r].id = nextID + 1]
        /\ UNCHANGED <<writes, stamp, replica, closed>>
    BY DEF Call, NewID
  <1>2. Block' = Block /\ nextID \in Nat
    BY <1>1 DEF BrowserInv, TypeInv, Block
  <1>3. CASE stamp = NotYet
    BY <1>1, <1>2, <1>3 DEF StampInv
  <1>4. CASE stamp # NotYet
    <2>1. /\ out # <<>> /\ out[1].t = "request" /\ stamp \in 0..Block /\ ~closed
      BY <1>4 DEF StampInv
    <2>2. /\ Len(out) \in Nat /\ DOMAIN out = 1..Len(out)
          /\ \A i \in 1..Len(out) : out[i] \in {Subscription} \cup Requests
      BY Shapes DEF BrowserInv
    <2>3. 1 \in 1..Len(out)
      BY <2>1, <2>2, EmptySeq DEF BrowserInv, TypeInv
    <2>4. out'[1] = out[1] /\ out' # <<>>
      BY <1>1, <2>2, <2>3
    <2>5. out[1].id \in 1..nextID
      BY <2>1, <2>2, <2>3 DEF Subscription, Requests
    <2>6. \A q \in Readers : reader'[q].pc = "waiting" /\ reader'[q].id = out'[1].id =>
             reader[q].pc = "waiting" /\ reader[q].id = out[1].id
      <3> SUFFICES ASSUME NEW q \in Readers, reader'[q].pc = "waiting", reader'[q].id = out[1].id
                   PROVE  reader[q].pc = "waiting" /\ reader[q].id = out[1].id
        BY <2>4
      <3>1. q # r => reader'[q] = reader[q]
        BY <1>1 DEF BrowserInv, ReadersInv
      <3>2. q = r => reader'[q].id = nextID + 1
        BY <1>1 DEF BrowserInv, ReadersInv
      <3>3. q # r
        BY <1>2, <2>5, <3>2
      <3> QED
        BY <3>1, <3>3
    <2>7. \A q \in Readers : reader[q].pc = "waiting" /\ reader[q].id = out[1].id =>
             replica.block <= stamp
      BY <1>4 DEF StampInv
    <2> QED
      BY <1>1, <1>2, <2>1, <2>4, <2>6, <2>7 DEF StampInv
  <1> QED
    BY <1>3, <1>4

\* The block that is stamped is the server's, which is not before the replica's.
LEMMA StampSteps == BrowserInv /\ StampInv /\ [Next]_vars => StampInv'
  <1> SUFFICES ASSUME BrowserInv, StampInv, [Next]_vars PROVE StampInv'
    OBVIOUS
  <1>1. Block \in Nat /\ replica.block \in 0..Block
    BY Shapes DEF BrowserInv, TypeInv
  <1>2. writes' = writes => Block' = Block
    BY DEF Block
  <1>3. ASSUME UNCHANGED <<writes, stamp, out, replica, closed>>,
               \A r \in Readers : reader'[r].pc = "waiting" =>
                  reader[r].pc = "waiting" /\ reader'[r].id = reader[r].id
        PROVE  StampInv'
    BY <1>1, <1>2, <1>3, SameStamp
  <1>4. DOMAIN reader = Readers
    BY DEF BrowserInv, ReadersInv
  <1>5. ASSUME NEW ks \in BlockWrites, Mine(ks) PROVE StampInv'
    BY <1>5, MineStamp
  <1>6. CASE Subscribe
    <2>1. stamp = NotYet
      <3>1. out[1].t # "request"
        BY <1>6, Shapes, HeadTailProperties DEF Subscribe, BrowserInv, TypeInv
      <3> QED
        BY <3>1 DEF StampInv
    <2> QED
      BY <1>6, <2>1 DEF Subscribe, StampInv
  <1>7. CASE Lookup
    <2>1. /\ out # <<>> /\ ~closed /\ Head(out).t = "request" /\ stamp' = Block
          /\ UNCHANGED <<writes, out, replica, reader, closed>>
      BY <1>7 DEF Lookup
    <2>2. out[1] = Head(out)
      BY <2>1, HeadTailProperties DEF BrowserInv, TypeInv
    <2> QED
      BY <1>1, <1>2, <2>1, <2>2 DEF StampInv
  <1>8. CASE Reply
    BY <1>8 DEF Reply, StampInv
  <1>9. CASE Open
    <2>1. stamp = NotYet /\ stamp' = stamp
      BY <1>9 DEF Open, BrowserInv, PhaseInv, StampInv
    <2> QED
      BY <2>1 DEF StampInv
  <1>10. CASE ConnectTimeout
    BY <1>3, <1>10 DEF ConnectTimeout, chainVars
  <1>11. CASE onmessage
    <2>1. UNCHANGED <<writes, stamp, out, replica, closed>> /\ (reader' = reader \/ reader' = Answered(Head(in)))
      <3>1. Head(in).t \in {"dump", "answer", "diff"}
        <4>1. Head(in) \in Dumps \cup Answers \cup Diffs
          BY <1>11, HeadTailProperties DEF onmessage, BrowserInv, TypeInv
        <4> QED
          BY <4>1, MessageFacts
      <3> QED
        BY <1>11, <3>1 DEF onmessage, chainVars
    <2>2. CASE reader' = reader
      BY <1>3, <2>1, <2>2
    <2>3. CASE reader' = Answered(Head(in))
      <3>1. \A r \in Readers : reader'[r].pc = reader[r].pc /\ reader'[r].id = reader[r].id
        BY <2>3 DEF Answered, BrowserInv, ReadersInv
      <3> QED
        BY <1>3, <2>1, <3>1
    <2> QED
      BY <2>1, <2>2, <2>3
  <1>12. CASE ConnectBrowser
    <2>1. UNCHANGED <<writes, stamp, out, reader, closed>> /\ \A r \in Readers : reader[r].pc = "idle"
      BY <1>12 DEF ConnectBrowser, chainVars, BrowserInv, PhaseInv
    <2> QED
      BY <1>1, <1>2, <2>1, SameStamp
  <1>13. CASE onclose
    BY <1>13 DEF onclose, StampInv
  <1>14. CASE HandleBlockDiff
    <2>1. UNCHANGED <<writes, stamp, out, reader, closed>> /\ \A r \in Readers : reader[r].pc # "waiting"
      BY <1>14 DEF HandleBlockDiff, chainVars, Locked
    <2> QED
      BY <1>1, <1>2, <2>1, SameStamp
  <1>15. ASSUME NEW r \in Readers, NEW kind \in {"quote", "ethCall"}, RLock(r, kind) PROVE StampInv'
    BY <1>3, <1>4, <1>15 DEF RLock, chainVars, BrowserInv, ReadersInv
  <1>16. ASSUME NEW r \in Readers, NEW k \in Keys, Call(r, k) PROVE StampInv'
    BY <1>16, CallStamp
  <1>17. ASSUME NEW r \in Readers, \/ \E k \in Keys : SetState(r, k)
                                   \/ Return(r)
         PROVE  StampInv'
    <2>1. UNCHANGED <<writes, stamp, out, closed>> /\ replica'.block = replica.block
      BY <1>17 DEF SetState, Return, chainVars, BrowserInv, TypeInv
    <2>2. reader' = reader \/ reader' = [reader EXCEPT ![r].pc = "reading", ![r].ch = <<>>]
      BY <1>17 DEF SetState, Return
    <2>3. \A q \in Readers : reader'[q].pc = "waiting" =>
             reader[q].pc = "waiting" /\ reader'[q].id = reader[q].id
      BY <1>4, <2>2 DEF BrowserInv, ReadersInv
    <2> QED
      BY <1>1, <1>2, <2>1, <2>3, SameStamp
  <1>18. ASSUME NEW r \in Readers, GiveUp(r) PROVE StampInv'
    BY <1>3, <1>4, <1>18 DEF GiveUp, chainVars, BrowserInv, ReadersInv
  <1>19. ASSUME NEW r \in Readers, RUnlock(r) PROVE StampInv'
    BY <1>3, <1>4, <1>19 DEF RUnlock, chainVars, BrowserInv, ReadersInv, Idle
  <1>20. CASE UNCHANGED vars
    BY <1>3, <1>20 DEF vars
  <1> QED
    BY <1>5, <1>6, <1>7, <1>8, <1>9, <1>10, <1>11, <1>12, <1>13, <1>14, <1>15, <1>16, <1>17, <1>18,
       <1>19, <1>20 DEF Next

\* Every step of the server, the socket and the goroutines.
LEMMA StepInv == BrowserInv /\ StampInv /\ [Next]_vars => BrowserInv'
  <1> SUFFICES ASSUME BrowserInv, StampInv, [Next]_vars PROVE BrowserInv'
    OBVIOUS
  <1>1. ASSUME NEW ks \in BlockWrites, Mine(ks) PROVE BrowserInv'
    BY <1>1, MineInv
  <1>2. CASE Subscribe \/ Lookup \/ Reply
    BY <1>2, SubscribeInv, LookupInv, ReplyInv
  <1>3. CASE Open
    BY <1>3, OpenInv
  <1>4. CASE ConnectTimeout
    BY <1>4, ConnectTimeoutInv
  <1>5. CASE onmessage
    BY <1>5, onmessageInv
  <1>6. CASE ConnectBrowser
    BY <1>6, ConnectBrowserInv
  <1>7. CASE onclose
    BY <1>7, oncloseInv
  <1>8. CASE HandleBlockDiff
    BY <1>8, HandleBlockDiffInv
  <1>9. ASSUME NEW r \in Readers, NEW kind \in {"quote", "ethCall"}, RLock(r, kind) PROVE BrowserInv'
    BY <1>9, RLockInv
  <1>10. ASSUME NEW r \in Readers, NEW k \in Keys, Call(r, k) PROVE BrowserInv'
    BY <1>10, CallInv
  <1>11. ASSUME NEW r \in Readers, NEW k \in Keys, SetState(r, k) PROVE BrowserInv'
    BY <1>11, SetStateInv
  <1>12. ASSUME NEW r \in Readers, Return(r) PROVE BrowserInv'
    BY <1>12, ReturnInv
  <1>13. ASSUME NEW r \in Readers, GiveUp(r) PROVE BrowserInv'
    BY <1>13, GiveUpInv
  <1>14. ASSUME NEW r \in Readers, RUnlock(r) PROVE BrowserInv'
    BY <1>14, RUnlockInv
  <1>15. CASE UNCHANGED vars
    BY <1>15, SameButStamp DEF vars
  <1> QED
    BY <1>1, <1>2, <1>3, <1>4, <1>5, <1>6, <1>7, <1>8, <1>9, <1>10, <1>11, <1>12, <1>13, <1>14,
       <1>15 DEF Next

(* The invariant of the client in the browser: diffs reach the lock in the *)
(* order of their blocks and none is missing but the one in firstMsg, both *)
(* layers hold recent values, and what is under way to a goroutine is the  *)
(* answer to what it asked, of a block the replica has not passed.         *)
THEOREM BrowserInvariant == Spec => [](BrowserInv /\ StampInv)
  <1>1. Init => StampInv
    BY DEF Init, StampInv
  <1> QED
    BY <1>1, InitInv, StepInv, StampSteps, PTL DEF Spec

(* Whatever the server, the socket and the timers do, the replica is wrong *)
(* about a key only where the diff in firstMsg wrote it, where a failed    *)
(* fetch was taken for zero, or where an ethCall wrote it.                 *)
THEOREM BrowserWrongOnlyWhere == Spec => []WrongOnlyWhere
  <1>1. BrowserInv => WrongOnlyWhere
    <2> SUFFICES ASSUME BrowserInv, NEW k \in DOMAIN replica.im \cup DOMAIN replica.bf
                 PROVE  Current(k) \/ k \in Swallowed \/ View(k) \in {Zero, Local}
      BY DEF WrongOnlyWhere
    <2>1. Allowed(k, View(k))
      BY DEF BrowserInv, ValuesInv, View
    <2> QED
      BY <2>1 DEF Allowed, Recent, Current
  <1> QED
    BY <1>1, BrowserInvariant, PTL

(* Only the first block diff after ConnectBrowser is lost: when nothing is *)
(* under way the replica or firstMsg is at the block of the chain.         *)
THEOREM BrowserOnlyFirstLost == Spec => []OnlyFirstLost
  <1>1. BrowserInv => OnlyFirstLost
    <2> SUFFICES ASSUME BrowserInv, phase = "live", in = <<>>, waiting = <<>>, ~closed,
                        firstMsg # <<>>, replica.block # Block
                 PROVE  firstMsg[1].block = Block
      BY DEF OnlyFirstLost
    <2>1. Carried = {} /\ Queued = {}
      BY DEF Carried, Queued
    <2>2. Block \in replica.block + 1..Block
      BY Shapes DEF BrowserInv, TypeInv
    <2>3. Block \in First
      BY <2>1, <2>2 DEF BrowserInv, Complete
    <2>4. PICK i \in DOMAIN firstMsg : firstMsg[i].block = Block
      BY <2>3 DEF First
    <2>5. i = 1
      BY <2>4, Shapes DEF BrowserInv, PhaseInv
    <2> QED
      BY <2>4, <2>5
  <1> QED
    BY <1>1, BrowserInvariant, PTL
=============================================================================
