--------------------------- MODULE StateSyncProofs ---------------------------
(***************************************************************************)
(* A LiveState client and the state server: what the client caches is      *)
(* never older than the block it claims and a stale slot is about to be    *)
(* repaired, except for slots that a dropped block_diff wrote; for any     *)
(* number of clients, quoting goroutines, keys and blocks, any capacity of *)
(* pushCh and any interleaving.                                            *)
(***************************************************************************)
EXTENDS StateSync, StateServerProofs, TLAPS

WaitingCall == [pc : {"waiting"}, id : Id, key : Key]
FetchedCall == [pc : {"fetched"}, id : Id, key : Key, val : Value]
Calls == {Out, Quoting} \cup WaitingCall \cup FetchedCall
Layer == [Key -> Value \cup {Absent}]

LiveTypeOK ==
    /\ live \in [Client -> BOOLEAN]
    /\ nextId \in [Client -> 0..MaxCalls]
    /\ primary \in [Client -> Layer]
    /\ backfill \in [Client -> Layer]
    /\ block \in [Client -> Block]
    /\ pushCh \in [Client -> Seq(Block)]
    /\ overflow \in [Client -> Block \cup {NoBlock}]
    /\ applying \in [Client -> Block \cup {NoBlock}]
    /\ call \in [Client -> [Thread -> Calls]]
    /\ lost \in [Client -> SUBSET Key]

\* Before Connect has returned nothing of the client runs.
NotYetLive(c) ==
    /\ pushCh[c] = <<>> /\ overflow[c] = NoBlock /\ applying[c] = NoBlock
    /\ lost[c] = {} /\ backfill[c] = Empty
    /\ \A t \in Thread : call[c][t] = Out

\* A subscriber with its dump, on the wire or loaded: the block and the
\* primary layer it has.
Attached(c) == conn[c] = "subscribed" /\ (live[c] \/ dump[c] # NoDump)
Base(c) == IF live[c] THEN block[c] ELSE dump[c].block
Held(c) == IF live[c] THEN primary[c] ELSE dump[c].state

\* The value of k at a block between the client's and the server's.
Fresh(c, k, v) == \E x \in Base(c)..sblock : v = chain[x][k]

\* The blocks of the diffs among the frames s; they come in order.
Diffs(s) == {s[i].block : i \in {j \in DOMAIN s : s[j].type = "block_diff"}}
Rising(s) ==
    \A i, j \in DOMAIN s : s[i].type = "block_diff" /\ s[j].type = "block_diff" /\ i < j =>
        s[i].block < s[j].block

Members(s) == {s[i] : i \in DOMAIN s}
Increasing(s) == \A i, j \in DOMAIN s : i < j => s[i] < s[j]

Before(S, T) == \A a \in S, b \in T : a < b
Applying(c) == {applying[c]} \ {NoBlock}
Over(c) == {overflow[c]} \ {NoBlock}

\* The diffs on their way are behind the client, not ahead of the server, and
\* come in the order of their blocks: in hand, queued, held up, on the wire.
Ordered(c) ==
    /\ \A b \in Pending(c) : Base(c) < b /\ b <= sblock
    /\ Before(Applying(c), Queued(c) \cup Over(c) \cup OnWire(c))
    /\ Before(Queued(c), Over(c) \cup OnWire(c))
    /\ Before(Over(c), OnWire(c))
    /\ Increasing(pushCh[c])
    /\ Rising(down[c])

\* No diff of a slot is missing, unless pushCh dropped it.
Complete(c) ==
    \A b \in Base(c) + 1 .. sblock, k \in SlotKey :
        k \in Diff(b) => b \in Pending(c) \/ k \in lost[c]

FreshLayers(c) ==
    \A k \in Kept(c) :
        /\ Held(c)[k] # Absent => Fresh(c, k, Held(c)[k])
        /\ backfill[c][k] # Absent => Fresh(c, k, backfill[c][k])

StreamOK(c) == Base(c) <= sblock /\ Ordered(c) /\ Complete(c) /\ FreshLayers(c)

\* Request ids are used once.
IdsOK(c) ==
    /\ \A i \in DOMAIN up[c] : up[c][i].id <= nextId[c]
    /\ handler[c] # Idle => handler[c].id <= nextId[c]
    /\ \A i \in DOMAIN down[c] : down[c][i].type = "response" => down[c][i].id <= nextId[c]

\* Wherever the request of a waiting goroutine is, its answer is or will be
\* fresh: the goroutine's read lock keeps the client at its block.
AnswerOK(c, t) ==
    LET w == call[c][t] IN
    /\ w.pc = "waiting" =>
        /\ w.id <= nextId[c]
        /\ \A i \in DOMAIN up[c] : up[c][i].id = w.id => up[c][i].key = w.key
        /\ handler[c].pc = "fetch" /\ handler[c].id = w.id =>
              handler[c].key = w.key /\ block[c] <= handler[c].block
        /\ handler[c].pc = "reply" /\ handler[c].id = w.id /\ handler[c].val # Failed =>
              Fresh(c, w.key, handler[c].val)
        /\ \A i \in DOMAIN down[c] :
              down[c][i].type = "response" /\ down[c][i].id = w.id /\ down[c][i].val # Failed =>
                 Fresh(c, w.key, down[c][i].val)
    /\ w.pc = "fetched" => Fresh(c, w.key, w.val)

\* A /debug endpoint stays where it is, and so do its clients.
FrozenOK(c) == ready = "frozen" /\ Attached(c) => Base(c) = sblock /\ lost[c] = {}

ClientOK(c) ==
    /\ ~live[c] => NotYetLive(c)
    /\ conn[c] \in {"none", "subscribing"} => ~live[c] /\ dump[c] = NoDump /\ down[c] = <<>>
    /\ dump[c] # NoDump => ~live[c]
    /\ conn[c] = "subscribed" => ready # "no"
    /\ Attached(c) => StreamOK(c)
    /\ IdsOK(c)
    /\ conn[c] = "subscribed" => \A t \in Thread : AnswerOK(c, t)
    /\ FrozenOK(c)

SyncInv ==
    /\ ServerInv
    /\ LiveTypeOK
    /\ ready # "live" => latest = 0
    /\ \A c \in Client : ClientOK(c)

-----------------------------------------------------------------------------
\* Frames are told apart by their type.
LEMMA FrameKinds ==
    ASSUME NEW f \in Frame
    PROVE  /\ f.type = "block_diff" => f.block \in Block
           /\ f.type = "response" => f.id \in Id /\ f.val \in Value \cup {Failed}
           /\ f.type \in {"block_diff", "response"}
BY DEF Frame, BlockDiff, Response

\* Sending and reading frames: the diffs among them.
LEMMA DiffsOfAppend ==
    ASSUME NEW s \in Seq(Frame), NEW f \in Frame
    PROVE  /\ Append(s, f) \in Seq(Frame)
           /\ Diffs(Append(s, f)) = Diffs(s) \cup (IF f.type = "block_diff" THEN {f.block} ELSE {})
           /\ (Rising(s) /\ (f.type = "block_diff" => Before(Diffs(s), {f.block})))
                 => Rising(Append(s, f))
<1> DEFINE u == Append(s, f)
<1>1. /\ u \in Seq(Frame) /\ DOMAIN u = 1..Len(s) + 1 /\ DOMAIN s = 1..Len(s) /\ Len(s) \in Nat
      /\ u[Len(s) + 1] = f /\ \A i \in DOMAIN s : u[i] = s[i]
  OBVIOUS
<1> HIDE DEF u
<1>2. \A b : b \in Diffs(s) <=> \E i \in DOMAIN s : s[i].type = "block_diff" /\ b = s[i].block
  BY DEF Diffs
<1>3. \A b : b \in Diffs(u) <=> \E i \in DOMAIN u : u[i].type = "block_diff" /\ b = u[i].block
  BY DEF Diffs
<1>4. ASSUME NEW b PROVE b \in Diffs(u) <=> b \in Diffs(s) \/ (f.type = "block_diff" /\ b = f.block)
  <2>1. ASSUME NEW i \in DOMAIN u, u[i].type = "block_diff", b = u[i].block
        PROVE  b \in Diffs(s) \/ (f.type = "block_diff" /\ b = f.block)
    <3>1. i \in DOMAIN s \/ i = Len(s) + 1
      BY <1>1
    <3> QED
      BY <3>1, <2>1, <1>1, <1>2
  <2>2. ASSUME NEW i \in DOMAIN s, s[i].type = "block_diff", b = s[i].block PROVE b \in Diffs(u)
    <3>1. i \in DOMAIN u /\ u[i] = s[i]
      BY <1>1
    <3> QED
      BY <3>1, <2>2, <1>3
  <2>3. ASSUME f.type = "block_diff", b = f.block PROVE b \in Diffs(u)
    <3>1. Len(s) + 1 \in DOMAIN u /\ u[Len(s) + 1] = f
      BY <1>1
    <3> QED
      BY <3>1, <2>3, <1>3
  <2> QED
    BY <2>1, <2>2, <2>3, <1>2, <1>3
<1>5. ASSUME Rising(s), f.type = "block_diff" => Before(Diffs(s), {f.block}) PROVE Rising(u)
  <2> SUFFICES ASSUME NEW i \in DOMAIN u, NEW j \in DOMAIN u,
                      u[i].type = "block_diff", u[j].type = "block_diff", i < j
               PROVE  u[i].block < u[j].block
    BY DEF Rising
  <2>1. i \in DOMAIN s /\ u[i] = s[i]
    BY <1>1
  <2>2. CASE j \in DOMAIN s
    BY <2>1, <2>2, <1>1, <1>5 DEF Rising
  <2>3. CASE j \notin DOMAIN s
    <3>1. u[j] = f
      BY <2>3, <1>1
    <3>2. s[i].block \in Diffs(s)
      BY <2>1, <1>2
    <3> QED
      BY <2>1, <3>1, <3>2, <1>5 DEF Before
  <2> QED
    BY <2>2, <2>3
<1> QED
  BY <1>1, <1>4, <1>5 DEF u

\* Reading a frame: the diffs that are left.
LEMMA DiffsOfTail ==
    ASSUME NEW s \in Seq(Frame), s # <<>>
    PROVE  /\ Head(s) \in Frame /\ Tail(s) \in Seq(Frame)
           /\ Diffs(s) = Diffs(Tail(s)) \cup (IF Head(s).type = "block_diff" THEN {Head(s).block} ELSE {})
           /\ Rising(s) => Rising(Tail(s))
           /\ (Rising(s) /\ Head(s).type = "block_diff") => Before({Head(s).block}, Diffs(Tail(s)))
<1> DEFINE u == Tail(s)
           f == Head(s)
<1>1. /\ u \in Seq(Frame) /\ DOMAIN s = 1..Len(s) /\ DOMAIN u = 1..Len(s) - 1 /\ Len(s) \in Nat \ {0}
      /\ f = s[1] /\ f \in Frame /\ \A i \in DOMAIN u : u[i] = s[i + 1]
  OBVIOUS
<1> HIDE DEF u, f
<1>2. \A b : b \in Diffs(s) <=> \E i \in DOMAIN s : s[i].type = "block_diff" /\ b = s[i].block
  BY DEF Diffs
<1>3. \A b : b \in Diffs(u) <=> \E i \in DOMAIN u : u[i].type = "block_diff" /\ b = u[i].block
  BY DEF Diffs
<1>4. ASSUME NEW b PROVE b \in Diffs(s) <=> b \in Diffs(u) \/ (f.type = "block_diff" /\ b = f.block)
  <2>1. ASSUME NEW i \in DOMAIN s, s[i].type = "block_diff", b = s[i].block
        PROVE  b \in Diffs(u) \/ (f.type = "block_diff" /\ b = f.block)
    <3>1. CASE i = 1
      BY <3>1, <2>1, <1>1
    <3>2. CASE i # 1
      <4>1. i - 1 \in DOMAIN u /\ u[i - 1] = s[i]
        <5>1. i - 1 \in DOMAIN u /\ (i - 1) + 1 = i
          BY <3>2, <1>1
        <5> QED
          BY <5>1, <1>1
      <4> QED
        BY <4>1, <2>1, <1>3
    <3> QED
      BY <3>1, <3>2
  <2>2. ASSUME NEW i \in DOMAIN u, u[i].type = "block_diff", b = u[i].block PROVE b \in Diffs(s)
    <3>1. i + 1 \in DOMAIN s /\ u[i] = s[i + 1]
      BY <1>1
    <3> QED
      BY <3>1, <2>2, <1>2
  <2>3. ASSUME f.type = "block_diff", b = f.block PROVE b \in Diffs(s)
    <3>1. 1 \in DOMAIN s /\ s[1] = f
      BY <1>1
    <3> QED
      BY <3>1, <2>3, <1>2
  <2> QED
    BY <2>1, <2>2, <2>3, <1>2, <1>3
<1>5. ASSUME Rising(s) PROVE Rising(u)
  <2> SUFFICES ASSUME NEW i \in DOMAIN u, NEW j \in DOMAIN u,
                      u[i].type = "block_diff", u[j].type = "block_diff", i < j
               PROVE  u[i].block < u[j].block
    BY DEF Rising
  <2>1. i + 1 \in DOMAIN s /\ j + 1 \in DOMAIN s /\ u[i] = s[i + 1] /\ u[j] = s[j + 1] /\ i + 1 < j + 1
    BY <1>1
  <2> QED
    BY <2>1, <1>5 DEF Rising
<1>6. ASSUME Rising(s), f.type = "block_diff" PROVE Before({f.block}, Diffs(u))
  <2> SUFFICES ASSUME NEW b \in Diffs(u) PROVE f.block < b
    BY DEF Before
  <2>1. PICK i \in DOMAIN u : u[i].type = "block_diff" /\ b = u[i].block
    BY <1>3
  <2>2. 1 \in DOMAIN s /\ i + 1 \in DOMAIN s /\ u[i] = s[i + 1] /\ 1 < i + 1 /\ f = s[1]
    BY <1>1
  <2> QED
    BY <2>1, <2>2, <1>6 DEF Rising
<1> QED
  BY <1>1, <1>4, <1>5, <1>6 DEF u, f

\* The same for the queue pushCh.
LEMMA MembersOfAppend ==
    ASSUME NEW s \in Seq(Block), NEW b \in Block
    PROVE  /\ Append(s, b) \in Seq(Block)
           /\ Members(Append(s, b)) = Members(s) \cup {b}
           /\ Increasing(s) /\ Before(Members(s), {b}) => Increasing(Append(s, b))
<1> DEFINE u == Append(s, b)
<1>1. /\ u \in Seq(Block) /\ DOMAIN u = 1..Len(s) + 1 /\ DOMAIN s = 1..Len(s) /\ Len(s) \in Nat
      /\ u[Len(s) + 1] = b /\ \A i \in DOMAIN s : u[i] = s[i]
  OBVIOUS
<1> HIDE DEF u
<1>2. Members(u) = Members(s) \cup {b}
  <2>1. ASSUME NEW x \in Members(u) PROVE x \in Members(s) \cup {b}
    <3>1. PICK i \in DOMAIN u : x = u[i]
      BY DEF Members
    <3>2. i \in DOMAIN s \/ i = Len(s) + 1
      BY <1>1
    <3> QED
      BY <3>1, <3>2, <1>1 DEF Members
  <2>2. ASSUME NEW x \in Members(s) PROVE x \in Members(u)
    <3>1. PICK i \in DOMAIN s : x = s[i]
      BY DEF Members
    <3>2. i \in DOMAIN u /\ u[i] = x
      BY <3>1, <1>1
    <3> QED
      BY <3>2 DEF Members
  <2>3. b \in Members(u)
    <3>1. Len(s) + 1 \in DOMAIN u /\ u[Len(s) + 1] = b
      BY <1>1
    <3> QED
      BY <3>1 DEF Members
  <2> QED
    BY <2>1, <2>2, <2>3
<1>3. ASSUME Increasing(s), Before(Members(s), {b}) PROVE Increasing(u)
  <2> SUFFICES ASSUME NEW i \in DOMAIN u, NEW j \in DOMAIN u, i < j PROVE u[i] < u[j]
    BY DEF Increasing
  <2>1. i \in DOMAIN s /\ u[i] = s[i]
    BY <1>1
  <2>2. CASE j \in DOMAIN s
    BY <2>1, <2>2, <1>1, <1>3 DEF Increasing
  <2>3. CASE j \notin DOMAIN s
    <3>1. u[j] = b
      BY <2>3, <1>1
    <3>2. s[i] \in Members(s)
      BY <2>1 DEF Members
    <3> QED
      BY <2>1, <3>1, <3>2, <1>3 DEF Before
  <2> QED
    BY <2>2, <2>3
<1> QED
  BY <1>1, <1>2, <1>3 DEF u

\* Receiving from pushCh: the blocks that are left.
LEMMA MembersOfTail ==
    ASSUME NEW s \in Seq(Block), s # <<>>
    PROVE  /\ Head(s) \in Block /\ Tail(s) \in Seq(Block)
           /\ Members(s) = Members(Tail(s)) \cup {Head(s)}
           /\ Increasing(s) => Increasing(Tail(s)) /\ Before({Head(s)}, Members(Tail(s)))
<1> DEFINE u == Tail(s)
<1>1. /\ u \in Seq(Block) /\ DOMAIN s = 1..Len(s) /\ DOMAIN u = 1..Len(s) - 1 /\ Len(s) \in Nat \ {0}
      /\ Head(s) = s[1] /\ Head(s) \in Block /\ \A i \in DOMAIN u : u[i] = s[i + 1]
  OBVIOUS
<1> HIDE DEF u
<1>2. Members(s) = Members(u) \cup {s[1]}
  <2>1. ASSUME NEW x \in Members(s) PROVE x \in Members(u) \cup {s[1]}
    <3>1. PICK i \in DOMAIN s : x = s[i]
      BY DEF Members
    <3>2. CASE i # 1
      <4>1. i - 1 \in DOMAIN u /\ (i - 1) + 1 = i
        BY <3>2, <1>1
      <4>2. u[i - 1] = x
        BY <4>1, <3>1, <1>1
      <4> QED
        BY <4>1, <4>2 DEF Members
    <3> QED
      BY <3>1, <3>2
  <2>2. ASSUME NEW x \in Members(u) PROVE x \in Members(s)
    <3>1. PICK i \in DOMAIN u : x = u[i]
      BY DEF Members
    <3>2. i + 1 \in DOMAIN s /\ s[i + 1] = x
      BY <3>1, <1>1
    <3> QED
      BY <3>2 DEF Members
  <2>3. s[1] \in Members(s)
    BY <1>1 DEF Members
  <2> QED
    BY <2>1, <2>2, <2>3
<1>3. ASSUME Increasing(s) PROVE Increasing(u) /\ Before({s[1]}, Members(u))
  <2>1. \A i \in DOMAIN u : i + 1 \in DOMAIN s /\ u[i] = s[i + 1] /\ 1 \in DOMAIN s /\ 1 < i + 1
    BY <1>1
  <2>2. ASSUME NEW i \in DOMAIN u, NEW j \in DOMAIN u, i < j PROVE u[i] < u[j]
    <3>1. i + 1 < j + 1
      BY <2>2, <1>1
    <3> QED
      BY <3>1, <2>1, <1>3 DEF Increasing
  <2>3. ASSUME NEW x \in Members(u) PROVE s[1] < x
    <3>1. PICK i \in DOMAIN u : x = u[i]
      BY DEF Members
    <3> QED
      BY <3>1, <2>1, <1>3 DEF Increasing
  <2> QED
    BY <2>2, <2>3 DEF Increasing, Before
<1> QED
  BY <1>1, <1>2, <1>3 DEF u

\* What is left of a sequence after a receive was there before, and a send adds
\* one element.
Among(u, s) == \A i \in DOMAIN u : \E j \in DOMAIN s : u[i] = s[j]
OneMore(u, s, e) == \A i \in DOMAIN u : (\E j \in DOMAIN s : u[i] = s[j]) \/ u[i] = e

\* After a receive.
LEMMA AmongTail ==
    ASSUME NEW S, NEW s \in Seq(S), s # <<>>
    PROVE  /\ Head(s) \in S /\ Tail(s) \in Seq(S)
           /\ 1 \in DOMAIN s /\ Head(s) = s[1]
           /\ Among(Tail(s), s)
<1>1. /\ Head(s) \in S /\ Tail(s) \in Seq(S) /\ 1 \in DOMAIN s /\ Head(s) = s[1]
      /\ \A i \in DOMAIN Tail(s) : i + 1 \in DOMAIN s /\ Tail(s)[i] = s[i + 1]
  OBVIOUS
<1> QED
  BY <1>1 DEF Among

\* After a send.
LEMMA OneMoreAppend ==
    ASSUME NEW S, NEW s \in Seq(S), NEW e \in S
    PROVE  Append(s, e) \in Seq(S) /\ OneMore(Append(s, e), s, e)
<1>1. /\ Append(s, e) \in Seq(S)
      /\ \A i \in DOMAIN Append(s, e) :
            \/ i \in DOMAIN s /\ Append(s, e)[i] = s[i]
            \/ Append(s, e)[i] = e
  OBVIOUS
<1> QED
  BY <1>1 DEF OneMore

-----------------------------------------------------------------------------
\* The types of one client's state.
LEMMA ClientTypes ==
    ASSUME SyncInv, NEW c \in Client
    PROVE  /\ live[c] \in BOOLEAN /\ nextId[c] \in 0..MaxCalls
           /\ primary[c] \in Layer /\ backfill[c] \in Layer
           /\ block[c] \in Block /\ pushCh[c] \in Seq(Block)
           /\ overflow[c] \in Block \cup {NoBlock} /\ applying[c] \in Block \cup {NoBlock}
           /\ call[c] \in [Thread -> Calls] /\ lost[c] \in SUBSET Key
           /\ conn[c] \in ConnState /\ up[c] \in Seq(Request) /\ down[c] \in Seq(Frame)
           /\ dump[c] \in Dump \cup {NoDump}
           /\ handler[c] \in {Idle} \cup Fetching \cup Replying
BY DEF SyncInv, LiveTypeOK, ServerInv, TypeOK, WireTypeOK, ServerTypeOK

\* Block numbers are naturals, and the server is not ahead of the node.
LEMMA Numbers ==
    ASSUME SyncInv
    PROVE  /\ sblock \in Nat /\ head \in Nat /\ sblock <= head /\ MaxCalls \in Nat /\ MaxBlock \in Nat
           /\ \A n \in Block : n \in Nat /\ n # NoBlock /\ n <= MaxBlock
           /\ \A x \in 0..sblock : x \in Block /\ x \in 0..head
           /\ chain \in [Block -> [Key -> Block]]
           /\ ChainOK
           /\ SlotKey \subseteq Key
<1>1. /\ sblock \in Block /\ head \in Block /\ sblock <= head
      /\ chain \in [Block -> [Key -> Block]] /\ ChainOK
  BY DEF SyncInv, ServerInv, TypeOK, NodeTypeOK, ServerTypeOK, ServerSteady
<1>2. MaxBlock \in Nat /\ MaxCalls \in Nat /\ NoBlock \notin Nat
  BY WireAssumption, LiveAssumption
<1>3. \A n : n \in Block <=> n \in Nat /\ n <= MaxBlock
  BY <1>2 DEF Block
<1>4. SlotKey \subseteq Key
  BY DEF Key
<1>5. sblock \in Nat /\ head \in Nat /\ sblock <= MaxBlock
  BY <1>1, <1>3
<1>6. \A x \in 0..sblock : x \in Block /\ x \in 0..head
  BY <1>1, <1>2, <1>3, <1>5
<1>7. \A n \in Block : n \in Nat /\ n # NoBlock /\ n <= MaxBlock
  BY <1>2, <1>3
<1> QED
  BY <1>1, <1>2, <1>4, <1>5, <1>6, <1>7

\* The diffs on their way to a client, by where they are.
LEMMA PendingParts ==
    ASSUME SyncInv, NEW c \in Client
    PROVE  /\ OnWire(c) = Diffs(down[c]) /\ Queued(c) = Members(pushCh[c])
           /\ Pending(c) = Diffs(down[c]) \cup Members(pushCh[c]) \cup Over(c) \cup Applying(c)
           /\ \A b \in Pending(c) : b \in Block /\ b \in Nat /\ b # NoBlock
<1>1. OnWire(c) = Diffs(down[c]) /\ Queued(c) = Members(pushCh[c])
  BY DEF OnWire, Queued, Diffs, Members
<1>2. Pending(c) = Diffs(down[c]) \cup Members(pushCh[c]) \cup Over(c) \cup Applying(c)
  BY <1>1 DEF Pending, InHand, Over, Applying
<1>3. \A b \in Diffs(down[c]) : b \in Block
  <2>1. \A i \in DOMAIN down[c] : down[c][i] \in Frame
    BY ClientTypes
  <2> QED
    BY <2>1, FrameKinds DEF Diffs
<1>4. \A b \in Members(pushCh[c]) : b \in Block
  BY ClientTypes DEF Members
<1>5. \A b \in Over(c) \cup Applying(c) : b \in Block
  BY ClientTypes DEF Over, Applying
<1> QED
  BY <1>1, <1>2, <1>3, <1>4, <1>5, Numbers

\* Base and Held of a client with its dump.
LEMMA BaseTypes ==
    ASSUME SyncInv, NEW c \in Client, Attached(c)
    PROVE  Base(c) \in Block /\ Base(c) \in Nat /\ Held(c) \in Layer /\ StreamOK(c) /\ Base(c) <= sblock
<1>1. Base(c) \in Block /\ Held(c) \in Layer
  <2>1. CASE live[c]
    BY <2>1, ClientTypes DEF Base, Held
  <2>2. CASE ~live[c]
    <3>1. dump[c] \in Dump
      BY <2>2, ClientTypes DEF Attached
    <3> QED
      BY <2>2, <3>1 DEF Base, Held, Dump, Layer
  <2> QED
    BY <2>1, <2>2
<1>2. StreamOK(c)
  BY DEF SyncInv, ClientOK
<1> QED
  BY <1>1, <1>2, Numbers DEF StreamOK

-----------------------------------------------------------------------------
\* The step leaves client c, and the server's handler for it, alone.
Untouched(c) ==
    UNCHANGED <<conn[c], up[c], down[c], dump[c], handler[c], live[c], nextId[c], primary[c],
                backfill[c], block[c], pushCh[c], overflow[c], applying[c], call[c], lost[c]>>

\* The blocks the server has processed do not change.
HistoryKept == \A x \in 0..sblock : chain'[x] = chain[x]

\* Where the diffs are after a step.
LEMMA PendingPartsNext ==
    ASSUME NEW c \in Client
    PROVE  /\ OnWire(c)' = Diffs(down'[c]) /\ Queued(c)' = Members(pushCh'[c])
           /\ Over(c)' = {overflow'[c]} \ {NoBlock} /\ Applying(c)' = {applying'[c]} \ {NoBlock}
           /\ Pending(c)' = OnWire(c)' \cup Queued(c)' \cup Over(c)' \cup Applying(c)'
BY DEF OnWire, Queued, Diffs, Members, Pending, InHand, Over, Applying

\* What is fresh stays so while the client stays at its block and the server moves on.
LEMMA FreshGrows ==
    ASSUME SyncInv, NEW c \in Client, Attached(c), Base(c)' = Base(c),
           sblock' \in Nat, sblock <= sblock', HistoryKept
    PROVE  \A k, v : Fresh(c, k, v) => \E x \in Base(c)'..sblock' : v = chain'[x][k]
<1> SUFFICES ASSUME NEW k, NEW v, Fresh(c, k, v) PROVE \E x \in Base(c)'..sblock' : v = chain'[x][k]
  OBVIOUS
<1>1. PICK x \in Base(c)..sblock : v = chain[x][k]
  BY DEF Fresh
<1>2. Base(c) \in Nat /\ sblock \in Nat
  BY BaseTypes, Numbers
<1>3. x \in 0..sblock /\ x \in Base(c)'..sblock'
  BY <1>2
<1>4. chain'[x] = chain[x]
  BY <1>3 DEF HistoryKept
<1> QED
  BY <1>1, <1>3, <1>4

(***************************************************************************)
(* As long as the client stays at its block and every diff that leaves the *)
(* queues is accounted for, what it holds stays fresh.                     *)
(***************************************************************************)
LEMMA StreamKept ==
    ASSUME SyncInv, NEW c \in Client, Attached(c), Base(c)' = Base(c), Held(c)' = Held(c),
           backfill'[c] = backfill[c], lost[c] \subseteq lost'[c], sblock' = sblock, HistoryKept,
           Ordered(c)', \A b \in Pending(c) : b \in Pending(c)' \/ Diff(b) \subseteq lost'[c]
    PROVE  StreamOK(c)'
<1>1. Base(c) \in Nat /\ sblock \in Nat /\ Base(c) <= sblock /\ StreamOK(c)
  BY BaseTypes, Numbers
<1>2. Complete(c)'
  <2> SUFFICES ASSUME NEW b \in Base(c) + 1 .. sblock, NEW k \in SlotKey, k \in Diff(b)'
               PROVE  b \in Pending(c)' \/ k \in lost'[c]
    BY DEF Complete
  <2>1. b \in 0..sblock
    BY <1>1
  <2>2. chain'[b] = chain[b]
    BY <2>1 DEF HistoryKept
  <2>3. k \in Diff(b)
    BY <2>2 DEF Diff
  <2>4. b \in Pending(c) \/ k \in lost[c]
    BY <2>3, <1>1 DEF StreamOK, Complete
  <2> QED
    BY <2>3, <2>4
<1>3. FreshLayers(c)'
  <2> SUFFICES ASSUME NEW k \in SlotKey, k \notin lost'[c]
               PROVE  /\ Held(c)'[k] # Absent => \E x \in Base(c)'..sblock' : Held(c)'[k] = chain'[x][k]
                      /\ backfill'[c][k] # Absent => \E x \in Base(c)'..sblock' : backfill'[c][k] = chain'[x][k]
    BY DEF FreshLayers, Fresh, Kept
  <2>1. k \in Kept(c)
    BY DEF Kept
  <2>2. /\ Held(c)[k] # Absent => Fresh(c, k, Held(c)[k])
        /\ backfill[c][k] # Absent => Fresh(c, k, backfill[c][k])
    BY <2>1, <1>1 DEF StreamOK, FreshLayers
  <2> QED
    BY <2>2, <1>1, FreshGrows
<1>4. (Base(c) <= sblock)'
  BY <1>1
<1> QED
  BY <1>2, <1>3, <1>4 DEF StreamOK

\* The diffs stay where they are.
LEMMA OrderKept ==
    ASSUME SyncInv, NEW c \in Client, Attached(c), Base(c)' = Base(c), sblock' = sblock,
           UNCHANGED <<pushCh[c], overflow[c], applying[c]>>,
           Diffs(down'[c]) = Diffs(down[c]), Rising(down'[c])
    PROVE  Ordered(c)' /\ Pending(c)' = Pending(c)
<1>1. /\ OnWire(c)' = OnWire(c) /\ Queued(c)' = Queued(c) /\ Over(c)' = Over(c)
      /\ Applying(c)' = Applying(c) /\ Pending(c)' = Pending(c)
  BY PendingParts, PendingPartsNext DEF Over, Applying
<1>2. Ordered(c)
  BY BaseTypes DEF StreamOK
<1>3. Increasing(pushCh'[c])
  BY <1>2 DEF Ordered
<1> QED
  BY <1>1, <1>2, <1>3 DEF Ordered

\* Request ids stay used once.
LEMMA IdsKept ==
    ASSUME SyncInv, NEW c \in Client, nextId'[c] = nextId[c], handler'[c] = handler[c] \/ handler'[c] = Idle,
           Among(up'[c], up[c]), NEW b, OneMore(down'[c], down[c], [type |-> "block_diff", block |-> b])
    PROVE  IdsOK(c)'
<1>1. IdsOK(c)
  BY DEF SyncInv, ClientOK
<1>2. ASSUME NEW i \in DOMAIN up'[c] PROVE up'[c][i].id <= nextId[c]
  BY <1>1 DEF IdsOK, Among
<1>3. ASSUME NEW i \in DOMAIN down'[c], down'[c][i].type = "response" PROVE down'[c][i].id <= nextId[c]
  BY <1>1, <1>3 DEF IdsOK, OneMore
<1>4. handler'[c] # Idle => handler'[c].id <= nextId[c]
  BY <1>1 DEF IdsOK
<1> QED
  BY <1>2, <1>3, <1>4 DEF IdsOK

(***************************************************************************)
(* An answer on its way stays fresh while the client stays at its block.   *)
(***************************************************************************)
LEMMA AnswerKept ==
    ASSUME SyncInv, NEW c \in Client, NEW t \in Thread, AnswerOK(c, t),
           call'[c][t] = call[c][t], nextId'[c] = nextId[c], block'[c] = block[c],
           handler'[c] = handler[c],
           Among(up'[c], up[c]), NEW b, OneMore(down'[c], down[c], [type |-> "block_diff", block |-> b]),
           \A k, v : Fresh(c, k, v) => \E x \in Base(c)'..sblock' : v = chain'[x][k]
    PROVE  AnswerOK(c, t)'
<1> DEFINE w == call[c][t]
           New(k, v) == \E x \in Base(c)'..sblock' : v = chain'[x][k]
<1>1. ASSUME w.pc = "waiting"
      PROVE  /\ w.id <= nextId[c]
             /\ \A i \in DOMAIN up'[c] : up'[c][i].id = w.id => up'[c][i].key = w.key
             /\ handler[c].pc = "fetch" /\ handler[c].id = w.id =>
                   handler[c].key = w.key /\ block[c] <= handler[c].block
             /\ handler[c].pc = "reply" /\ handler[c].id = w.id /\ handler[c].val # Failed =>
                   New(w.key, handler[c].val)
             /\ \A i \in DOMAIN down'[c] :
                   down'[c][i].type = "response" /\ down'[c][i].id = w.id /\ down'[c][i].val # Failed =>
                      New(w.key, down'[c][i].val)
  <2>1. w.id <= nextId[c]
    BY <1>1 DEF AnswerOK
  <2>2. ASSUME NEW i \in DOMAIN up'[c], up'[c][i].id = w.id PROVE up'[c][i].key = w.key
    <3>1. PICK j \in DOMAIN up[c] : up'[c][i] = up[c][j]
      BY DEF Among
    <3> QED
      BY <3>1, <2>2, <1>1 DEF AnswerOK
  <2>3. handler[c].pc = "fetch" /\ handler[c].id = w.id =>
           handler[c].key = w.key /\ block[c] <= handler[c].block
    BY <1>1 DEF AnswerOK
  <2>4. handler[c].pc = "reply" /\ handler[c].id = w.id /\ handler[c].val # Failed =>
           Fresh(c, w.key, handler[c].val)
    BY <1>1 DEF AnswerOK
  <2>5. ASSUME NEW i \in DOMAIN down'[c], down'[c][i].type = "response", down'[c][i].id = w.id,
               down'[c][i].val # Failed
        PROVE  New(w.key, down'[c][i].val)
    <3>1. PICK j \in DOMAIN down[c] : down'[c][i] = down[c][j]
      BY <2>5 DEF OneMore
    <3>2. Fresh(c, w.key, down[c][j].val)
      BY <3>1, <2>5, <1>1 DEF AnswerOK
    <3> QED
      BY <3>1, <3>2
  <2> QED
    BY <2>1, <2>2, <2>3, <2>4, <2>5
<1>2. ASSUME w.pc = "fetched" PROVE New(w.key, w.val)
  <2>1. Fresh(c, w.key, w.val)
    BY <1>2 DEF AnswerOK
  <2> QED
    BY <2>1
<1> QED
  BY <1>1, <1>2 DEF AnswerOK, Fresh

\* A goroutine that waits for nothing.
LEMMA NoAnswer ==
    ASSUME NEW c \in Client, NEW t \in Thread, call'[c][t] \in {Out, Quoting}
    PROVE  AnswerOK(c, t)'
<1>1. call'[c][t].pc # "waiting" /\ call'[c][t].pc # "fetched"
  BY DEF Out, Quoting
<1> QED
  BY <1>1 DEF AnswerOK

-----------------------------------------------------------------------------
\* What a step does not touch it does not break.
LEMMA UntouchedKeepsClient ==
    ASSUME SyncInv, NEW c \in Client, Untouched(c), sblock' = sblock, ready' = ready, HistoryKept
    PROVE  ClientOK(c)'
<1> USE DEF Untouched
<1>1. ClientOK(c)
  BY DEF SyncInv
<1>2. Base(c)' = Base(c) /\ Held(c)' = Held(c) /\ (Attached(c)' <=> Attached(c))
  BY DEF Base, Held, Attached
<1>3. NotYetLive(c) => NotYetLive(c)'
  BY DEF NotYetLive
<1>4. Among(up'[c], up[c]) /\ OneMore(down'[c], down[c], [type |-> "block_diff", block |-> 0])
  BY DEF Among, OneMore
<1>5. IdsOK(c)'
  BY <1>4, IdsKept
<1>6. sblock' \in Nat /\ sblock <= sblock'
  BY Numbers
<1>7. ASSUME Attached(c) PROVE StreamOK(c)'
  <2>1. Rising(down'[c])
    BY <1>7, BaseTypes DEF StreamOK, Ordered
  <2>2. Ordered(c)' /\ Pending(c)' = Pending(c)
    BY <1>7, <1>2, <2>1, OrderKept
  <2> QED
    BY <1>7, <1>2, <2>2, StreamKept
<1>8. ASSUME conn[c] = "subscribed", NEW t \in Thread PROVE AnswerOK(c, t)'
  <2>1. CASE Attached(c)
    <3>1. \A k, v : Fresh(c, k, v) => \E x \in Base(c)'..sblock' : v = chain'[x][k]
      BY <2>1, <1>2, <1>6, FreshGrows
    <3>2. AnswerOK(c, t)
      BY <1>1, <1>8 DEF ClientOK
    <3> QED
      BY <3>1, <3>2, <1>4, AnswerKept
  <2>2. CASE ~Attached(c)
    <3>1. call[c][t] = Out
      BY <1>1, <1>8, <2>2 DEF ClientOK, Attached, NotYetLive
    <3> QED
      BY <3>1, NoAnswer
  <2> QED
    BY <2>1, <2>2
<1>9. FrozenOK(c)'
  BY <1>1, <1>2 DEF ClientOK, FrozenOK
<1>10. (~live[c] => NotYetLive(c))'
  BY <1>1, <1>3 DEF ClientOK
<1>11. (conn[c] \in {"none", "subscribing"} => ~live[c] /\ dump[c] = NoDump /\ down[c] = <<>>)'
  BY <1>1 DEF ClientOK
<1>12. (dump[c] # NoDump => ~live[c])' /\ (conn[c] = "subscribed" => ready # "no")'
  BY <1>1 DEF ClientOK
<1>13. (conn[c] = "subscribed" => \A t \in Thread : AnswerOK(c, t))'
  BY <1>8
<1> QED
  BY <1>2, <1>5, <1>7, <1>9, <1>10, <1>11, <1>12, <1>13 DEF ClientOK

\* A client that has not subscribed, or has lost its connection, follows nothing.
LEMMA DetachedKeepsClient ==
    ASSUME SyncInv, NEW c \in Client, Untouched(c), conn[c] # "subscribed"
    PROVE  ClientOK(c)'
<1> USE DEF Untouched
<1>1. ClientOK(c)
  BY DEF SyncInv
<1>2. (~live[c] => NotYetLive(c))'
  BY <1>1 DEF ClientOK, NotYetLive
<1>3. Among(up'[c], up[c]) /\ OneMore(down'[c], down[c], [type |-> "block_diff", block |-> 0])
  BY DEF Among, OneMore
<1>4. IdsOK(c)'
  BY <1>3, IdsKept
<1>5. ~Attached(c)'
  BY DEF Attached
<1> QED
  BY <1>1, <1>2, <1>4, <1>5 DEF ClientOK, FrozenOK

-----------------------------------------------------------------------------
(***************************************************************************)
(* Steps of the node and of the server.                                    *)
(***************************************************************************)
LEMMA MineKeepsClients ==
    ASSUME SyncInv, MineBlock, NEW c \in Client
    PROVE  ClientOK(c)'
<1>1. PICK written \in SUBSET Key : Mine(written)
  BY DEF MineBlock
<1>2. \A b \in 0..head : chain'[b] = chain[b]
  BY <1>1, MineKeepsChain DEF SyncInv, ServerInv, TypeOK
<1>3. HistoryKept
  BY <1>2, Numbers DEF HistoryKept
<1>4. Untouched(c) /\ sblock' = sblock /\ ready' = ready
  BY DEF MineBlock, Untouched, wireVars, serverVars, liveVars
<1> QED
  BY <1>3, <1>4, UntouchedKeepsClient

\* Nobody is subscribed before the endpoint is ready.
LEMMA StartKeepsClients ==
    ASSUME SyncInv, StartBlockLoop \/ StartFrozen, UNCHANGED <<wireVars, nodeVars, liveVars>>, NEW c \in Client
    PROVE  ClientOK(c)'
<1>1. ready = "no" /\ handler' = handler
  BY DEF StartBlockLoop, StartFrozen
<1>2. conn[c] # "subscribed"
  BY <1>1 DEF SyncInv, ClientOK
<1>3. Untouched(c)
  BY <1>1 DEF Untouched, wireVars, liveVars
<1> QED
  BY <1>2, <1>3, DetachedKeepsClient

\* An announced head moves nothing yet.
LEMMA NewHeadKeepsClients ==
    ASSUME SyncInv, NEW n \in Block, NewHead(n), UNCHANGED <<wireVars, nodeVars, liveVars>>, NEW c \in Client
    PROVE  ClientOK(c)'
<1>1. Untouched(c) /\ sblock' = sblock /\ ready' = ready /\ HistoryKept
  BY DEF NewHead, Untouched, wireVars, liveVars, nodeVars, HistoryKept
<1> QED
  BY <1>1, UntouchedKeepsClient

(***************************************************************************)
(* A block: every subscriber gets its diff, behind what it was sent before.*)
(***************************************************************************)
LEMMA ProcessBlockKeepsClients ==
    ASSUME SyncInv, ProcessBlock, UNCHANGED <<nodeVars, liveVars>>, NEW c \in Client
    PROVE  ClientOK(c)'
<1> DEFINE b == sblock + 1
           f == [type |-> "block_diff", block |-> b]
<1>1. /\ sblock' = b /\ ready' = ready /\ chain' = chain /\ handler' = handler
      /\ UNCHANGED <<conn, up, dump, live, nextId, primary, backfill, block, pushCh, overflow,
                     applying, call, lost>>
      /\ ready # "no" /\ sblock < latest
  BY DEF ProcessBlock, nodeVars, liveVars
<1>2. ready = "live"
  <2>1. latest = 0 => ~(sblock < latest)
    BY Numbers
  <2> QED
    BY <1>1, <2>1 DEF SyncInv
<1>3. /\ sblock \in Nat /\ b \in Nat /\ b \in Block /\ sblock <= b
      /\ \A x \in 0..b : x \in 0..sblock \/ x = b
  <2>1. latest \in Block
    BY DEF SyncInv, ServerInv, TypeOK, ServerTypeOK
  <2> QED
    BY <2>1, <1>1, Numbers DEF Block
<1>4. HistoryKept
  BY <1>1 DEF HistoryKept
<1>5. CASE conn[c] # "subscribed"
  <2>1. down'[c] = down[c]
    BY <1>5, ClientTypes DEF ProcessBlock, Subscribers, SyncInv, ServerInv, TypeOK, WireTypeOK
  <2>2. Untouched(c)
    BY <2>1, <1>1 DEF Untouched
  <2> QED
    BY <2>2, <1>5, DetachedKeepsClient
<1>6. CASE conn[c] = "subscribed"
  <2>1. down'[c] = IF Diff(b) = {} THEN down[c] ELSE Append(down[c], f)
    BY <1>6 DEF ProcessBlock, Subscribers
  <2>2. f \in Frame /\ f.type = "block_diff" /\ f.block = b
    BY <1>3 DEF Frame, BlockDiff
  <2> HIDE DEF f
  <2>3. OneMore(down'[c], down[c], [type |-> "block_diff", block |-> b]) /\ Among(up'[c], up[c])
    <3>1. OneMore(Append(down[c], f), down[c], f)
      BY <2>2, ClientTypes, OneMoreAppend
    <3>2. f = [type |-> "block_diff", block |-> b]
      BY DEF f
    <3> QED
      BY <2>1, <3>1, <3>2, <1>1 DEF OneMore, Among
  <2>4. IdsOK(c)'
    BY <2>3, <1>1, IdsKept
  <2>5. ClientOK(c)
    BY DEF SyncInv
  <2>6. Base(c)' = Base(c) /\ Held(c)' = Held(c) /\ (Attached(c)' <=> Attached(c))
    BY <1>1 DEF Base, Held, Attached
  <2>7. ASSUME Attached(c) PROVE StreamOK(c)'
    <3>1. Base(c) \in Nat /\ Base(c) <= sblock /\ StreamOK(c)
      BY <2>7, BaseTypes
    <3>2. Rising(down[c]) /\ Increasing(pushCh[c]) /\ \A p \in Pending(c) : Base(c) < p /\ p <= sblock
      BY <3>1 DEF StreamOK, Ordered
    <3>3. \A p \in Diffs(down[c]) : p \in Nat /\ p <= sblock
      BY <3>2, PendingParts
    <3>4. /\ Diffs(down'[c]) = Diffs(down[c]) \cup (IF Diff(b) = {} THEN {} ELSE {b})
          /\ Rising(down'[c])
      <4>1. Before(Diffs(down[c]), {b})
        BY <3>3, <1>3 DEF Before
      <4> QED
        BY <4>1, <3>2, <2>1, <2>2, ClientTypes, DiffsOfAppend
    <3>5. /\ Queued(c)' = Queued(c) /\ Over(c)' = Over(c) /\ Applying(c)' = Applying(c)
          /\ OnWire(c)' = OnWire(c) \cup (IF Diff(b) = {} THEN {} ELSE {b})
          /\ Pending(c)' = Pending(c) \cup (IF Diff(b) = {} THEN {} ELSE {b})
      BY <3>4, <1>1, PendingParts, PendingPartsNext DEF Over, Applying
    <3>6. Ordered(c)'
      <4>1. \A p \in Pending(c)' : Base(c)' < p /\ p <= sblock'
        BY <3>1, <3>2, <3>5, <2>6, <1>1, <1>3, PendingParts
      <4>2. \A p \in Queued(c) \cup Over(c) \cup Applying(c) : p \in Nat /\ p < b
        BY <3>2, <1>3, PendingParts
      <4>3. /\ Before(Applying(c), Queued(c) \cup Over(c) \cup OnWire(c))
            /\ Before(Queued(c), Over(c) \cup OnWire(c))
            /\ Before(Over(c), OnWire(c))
        BY <3>1 DEF StreamOK, Ordered
      <4>4. /\ Before(Applying(c)', Queued(c)' \cup Over(c)' \cup OnWire(c)')
            /\ Before(Queued(c)', Over(c)' \cup OnWire(c)')
            /\ Before(Over(c)', OnWire(c)')
        BY <4>2, <4>3, <3>5 DEF Before
      <4>5. Increasing(pushCh'[c])
        BY <3>2, <1>1
      <4> QED
        BY <4>1, <4>4, <4>5, <3>4 DEF Ordered
    <3>7. Complete(c)'
      <4> SUFFICES ASSUME NEW x \in Base(c) + 1 .. b, NEW k \in SlotKey, k \in Diff(x)'
                   PROVE  x \in Pending(c)' \/ k \in lost[c]
        BY <1>1, <2>6 DEF Complete
      <4>1. k \in Diff(x)
        BY <1>1 DEF Diff
      <4>2. CASE x = b
        BY <4>1, <4>2, <3>5
      <4>3. CASE x # b
        <5>1. x \in Base(c) + 1 .. sblock
          BY <4>3, <1>3, <3>1
        <5> QED
          BY <5>1, <4>1, <3>1, <3>5 DEF StreamOK, Complete
      <4> QED
        BY <4>2, <4>3
    <3>8. FreshLayers(c)'
      <4> SUFFICES ASSUME NEW k \in SlotKey, k \notin lost[c]
                   PROVE  /\ Held(c)[k] # Absent => \E x \in Base(c)'..sblock' : Held(c)[k] = chain'[x][k]
                          /\ backfill[c][k] # Absent => \E x \in Base(c)'..sblock' : backfill[c][k] = chain'[x][k]
        BY <1>1, <2>6 DEF FreshLayers, Fresh, Kept
      <4>1. k \in Kept(c)
        BY DEF Kept
      <4>2. /\ Held(c)[k] # Absent => Fresh(c, k, Held(c)[k])
            /\ backfill[c][k] # Absent => Fresh(c, k, backfill[c][k])
        BY <4>1, <3>1 DEF StreamOK, FreshLayers
      <4>3. \A j, v : Fresh(c, j, v) => \E x \in Base(c)'..sblock' : v = chain'[x][j]
        BY <2>7, <2>6, <1>1, <1>3, <1>4, FreshGrows
      <4> QED
        BY <4>2, <4>3
    <3>9. (Base(c) <= sblock)'
      BY <3>1, <2>6, <1>1, <1>3
    <3> QED
      BY <3>6, <3>7, <3>8, <3>9 DEF StreamOK
  <2>8. ASSUME NEW t \in Thread PROVE AnswerOK(c, t)'
    <3>1. CASE Attached(c)
      <4>1. \A k, v : Fresh(c, k, v) => \E x \in Base(c)'..sblock' : v = chain'[x][k]
        BY <3>1, <2>6, <1>1, <1>3, <1>4, FreshGrows
      <4>2. AnswerOK(c, t)
        BY <2>5, <1>6 DEF ClientOK
      <4> QED
        BY <4>1, <4>2, <2>3, <1>1, AnswerKept
    <3>2. CASE ~Attached(c)
      <4>1. call[c][t] = Out
        BY <2>5, <1>6, <3>2 DEF ClientOK, Attached, NotYetLive
      <4> QED
        BY <4>1, <1>1, NoAnswer
    <3> QED
      BY <3>1, <3>2
  <2>9. (~live[c] => NotYetLive(c))'
    BY <2>5, <1>1 DEF ClientOK, NotYetLive
  <2> QED
    BY <2>4, <2>5, <2>6, <2>7, <2>8, <2>9, <1>1, <1>2, <1>6 DEF ClientOK, FrozenOK
<1> QED
  BY <1>5, <1>6

(***************************************************************************)
(* A step that moves requests, answers and goroutines but no diff and no   *)
(* layer: what is left to show is the fate of the requests.                *)
(***************************************************************************)
Quiet(c) ==
    /\ UNCHANGED <<conn[c], dump[c], live[c], primary[c], backfill[c], block[c], pushCh[c],
                   overflow[c], applying[c], lost[c], sblock, ready, chain>>
    /\ Diffs(down'[c]) = Diffs(down[c])
    /\ Rising(down[c]) => Rising(down'[c])
    /\ conn[c] \in {"none", "subscribing"} => down'[c] = down[c]
    /\ ~live[c] => call'[c] = call[c]

\* A quiet step leaves the block and the layers where they are.
LEMMA QuietKeepsBase ==
    ASSUME SyncInv, NEW c \in Client, Quiet(c)
    PROVE  /\ Base(c)' = Base(c) /\ Held(c)' = Held(c) /\ (Attached(c)' <=> Attached(c)) /\ HistoryKept
           /\ \A k, v : (\E x \in Base(c)'..sblock' : v = chain'[x][k]) <=> Fresh(c, k, v)
<1>1. Base(c)' = Base(c) /\ Held(c)' = Held(c) /\ (Attached(c)' <=> Attached(c)) /\ HistoryKept
  BY DEF Quiet, Base, Held, Attached, HistoryKept
<1>2. \A k, v : (\E x \in Base(c)'..sblock' : v = chain'[x][k]) <=> Fresh(c, k, v)
  BY <1>1 DEF Quiet, Fresh
<1> QED
  BY <1>1, <1>2

\* So it keeps the client right if the requests are.
LEMMA QuietKeepsClient ==
    ASSUME SyncInv, NEW c \in Client, Quiet(c), IdsOK(c)',
           conn[c] = "subscribed" => \A t \in Thread : AnswerOK(c, t)'
    PROVE  ClientOK(c)'
<1>1. ClientOK(c)
  BY DEF SyncInv
<1>2. Base(c)' = Base(c) /\ Held(c)' = Held(c) /\ (Attached(c)' <=> Attached(c)) /\ HistoryKept
  BY QuietKeepsBase
<1>3. (~live[c] => NotYetLive(c))'
  BY <1>1 DEF ClientOK, NotYetLive, Quiet
<1>4. ASSUME Attached(c) PROVE StreamOK(c)'
  <2>1. Rising(down'[c])
    BY <1>4, BaseTypes DEF StreamOK, Ordered, Quiet
  <2>2. Ordered(c)' /\ Pending(c)' = Pending(c)
    BY <1>4, <1>2, <2>1, OrderKept DEF Quiet
  <2> QED
    BY <1>4, <1>2, <2>2, StreamKept DEF Quiet
<1>5. FrozenOK(c)'
  BY <1>1, <1>2 DEF ClientOK, FrozenOK, Quiet
<1>6. (conn[c] \in {"none", "subscribing"} => ~live[c] /\ dump[c] = NoDump /\ down[c] = <<>>)'
  BY <1>1 DEF ClientOK, Quiet
<1>7. (dump[c] # NoDump => ~live[c])' /\ (conn[c] = "subscribed" => ready # "no")'
  BY <1>1 DEF ClientOK, Quiet
<1>8. (conn[c] = "subscribed" => \A t \in Thread : AnswerOK(c, t))'
  BY DEF Quiet
<1> QED
  BY <1>2, <1>3, <1>4, <1>5, <1>6, <1>7, <1>8 DEF ClientOK

\* A waiting goroutine belongs to a client that has its dump loaded.
LEMMA WaitingIsLive ==
    ASSUME SyncInv, NEW c \in Client, NEW t \in Thread, call[c][t] # Out, conn[c] = "subscribed"
    PROVE  live[c] /\ Attached(c) /\ Base(c) = block[c] /\ AnswerOK(c, t)
<1>1. live[c] /\ AnswerOK(c, t)
  BY DEF SyncInv, ClientOK, NotYetLive
<1> QED
  BY <1>1 DEF Attached, Base

\* The shapes of a goroutine's state.
LEMMA CallKinds ==
    ASSUME SyncInv, NEW c \in Client, NEW t \in Thread
    PROVE  /\ call[c][t].pc = "waiting" => call[c][t] \in WaitingCall
           /\ call[c][t].pc = "fetched" => call[c][t] \in FetchedCall
           /\ call[c][t].pc \in {"waiting", "fetched"} => call[c][t] # Out /\ call[c][t] # Quoting
<1>1. call[c][t] \in {Out, Quoting} \cup WaitingCall \cup FetchedCall
  BY ClientTypes DEF Calls
<1>2. Out.pc = "out" /\ Quoting.pc = "quoting"
  BY DEF Out, Quoting
<1>3. (\A w \in WaitingCall : w.pc = "waiting") /\ (\A w \in FetchedCall : w.pc = "fetched")
  BY DEF WaitingCall, FetchedCall
<1> QED
  BY <1>1, <1>2, <1>3

(***************************************************************************)
(* A new subscriber: the dump is the cache, which is the state at the      *)
(* server's block, and every later diff will follow it.                    *)
(***************************************************************************)
LEMMA SubscribeKeepsClient ==
    ASSUME SyncInv, NEW c \in Client, Subscribe(c), UNCHANGED <<nodeVars, liveVars>>
    PROVE  ClientOK(c)'
<1>1. /\ conn[c] = "subscribing" /\ conn'[c] = "subscribed" /\ ready # "no"
      /\ dump'[c] = [block |-> sblock, state |-> [k \in Key |-> DumpOf(k)]]
      /\ UNCHANGED <<chain, sblock, ready, cache, handler, up, down, live, nextId, primary, backfill,
                     block, pushCh, overflow, applying, call, lost>>
  BY DEF Subscribe, SyncInv, ServerInv, TypeOK, WireTypeOK, serverVars, nodeVars, liveVars
<1>2. ClientOK(c) /\ ~live[c] /\ down[c] = <<>> /\ NotYetLive(c)
  BY <1>1 DEF SyncInv, ClientOK
<1>3. NotYetLive(c)'
  BY <1>1, <1>2 DEF NotYetLive
<1>4. Among(up'[c], up[c]) /\ OneMore(down'[c], down[c], [type |-> "block_diff", block |-> 0])
  BY <1>1 DEF Among, OneMore
<1>5. IdsOK(c)'
  BY <1>1, <1>4, IdsKept
<1>6. \A t \in Thread : AnswerOK(c, t)'
  <2>1. \A t \in Thread : call'[c][t] \in {Out, Quoting}
    BY <1>1, <1>2 DEF NotYetLive
  <2> QED
    BY <2>1, NoAnswer
<1>7. Base(c)' = sblock /\ Held(c)' = [k \in Key |-> DumpOf(k)]
  BY <1>1, <1>2 DEF Base, Held
<1>8. StreamOK(c)'
  <2>1. Pending(c)' = {} /\ OnWire(c)' = {} /\ Queued(c)' = {} /\ Over(c)' = {} /\ Applying(c)' = {}
    <3>1. down'[c] = <<>> /\ pushCh'[c] = <<>> /\ overflow'[c] = NoBlock /\ applying'[c] = NoBlock
      BY <1>1, <1>2 DEF NotYetLive
    <3>2. Diffs(<<>>) = {} /\ Members(<<>>) = {}
      BY DEF Diffs, Members
    <3> QED
      BY <3>1, <3>2, PendingPartsNext
  <2>2. Rising(down'[c]) /\ Increasing(pushCh'[c])
    <3>1. down'[c] = <<>> /\ pushCh'[c] = <<>>
      BY <1>1, <1>2 DEF NotYetLive
    <3> QED
      BY <3>1 DEF Rising, Increasing
  <2>3. Ordered(c)'
    BY <2>1, <2>2 DEF Ordered, Before
  <2>4. Complete(c)' /\ (Base(c) <= sblock)'
    BY <1>1, <1>7, Numbers DEF Complete
  <2>5. FreshLayers(c)'
    <3> SUFFICES ASSUME NEW k \in SlotKey
                 PROVE  /\ DumpOf(k) # Absent => \E x \in sblock..sblock : DumpOf(k) = chain[x][k]
                        /\ backfill[c][k] = Absent
      BY <1>1, <1>7, Numbers DEF FreshLayers, Fresh, Kept
    <3>1. k \in Key /\ k \notin AcctKey
      BY WireAssumption DEF Key
    <3>2. DumpOf(k) = cache[k]
      BY <3>1 DEF DumpOf
    <3>3. cache[k] # Absent => cache[k] = chain[sblock][k]
      BY <3>1 DEF SyncInv, ServerInv, CacheCoherent, Cached
    <3>4. backfill[c][k] = Absent
      BY <3>1, <1>2 DEF NotYetLive, Empty
    <3>5. sblock \in sblock..sblock
      BY Numbers
    <3> QED
      BY <3>2, <3>3, <3>4, <3>5
  <2> QED
    BY <2>3, <2>4, <2>5 DEF StreamOK
<1>9. FrozenOK(c)'
  BY <1>1, <1>2, <1>7 DEF FrozenOK, NotYetLive
<1> QED
  BY <1>1, <1>2, <1>3, <1>5, <1>6, <1>8, <1>9 DEF ClientOK

\* A step that moves a request or its answer, seen by a goroutine that stays
\* where it is: what the handler and a new frame f hold for it must be fresh.
LEMMA AnswerMoves ==
    ASSUME SyncInv, NEW c \in Client, NEW t \in Thread, Quiet(c), conn[c] = "subscribed",
           call'[c][t] = call[c][t], nextId'[c] = nextId[c], Among(up'[c], up[c]),
           NEW f, OneMore(down'[c], down[c], f),
           NEW h, handler'[c] = h,
           call[c][t].pc = "waiting" =>
               /\ h.pc = "fetch" /\ h.id = call[c][t].id =>
                     h.key = call[c][t].key /\ block[c] <= h.block
               /\ h.pc = "reply" /\ h.id = call[c][t].id /\ h.val # Failed =>
                     Fresh(c, call[c][t].key, h.val)
               /\ f.type = "response" /\ f.id = call[c][t].id /\ f.val # Failed =>
                     Fresh(c, call[c][t].key, f.val)
    PROVE  AnswerOK(c, t)'
<1> DEFINE w == call[c][t]
           New(k, v) == \E x \in Base(c)'..sblock' : v = chain'[x][k]
<1>1. \A k, v : Fresh(c, k, v) => New(k, v)
  BY QuietKeepsBase
<1>2. block'[c] = block[c]
  BY DEF Quiet
<1>3. ASSUME w.pc = "waiting"
      PROVE  /\ w.id <= nextId[c]
             /\ \A i \in DOMAIN up'[c] : up'[c][i].id = w.id => up'[c][i].key = w.key
             /\ h.pc = "fetch" /\ h.id = w.id => h.key = w.key /\ block[c] <= h.block
             /\ h.pc = "reply" /\ h.id = w.id /\ h.val # Failed => New(w.key, h.val)
             /\ \A i \in DOMAIN down'[c] :
                   down'[c][i].type = "response" /\ down'[c][i].id = w.id /\ down'[c][i].val # Failed =>
                      New(w.key, down'[c][i].val)
  <2>1. AnswerOK(c, t)
    BY <1>3, CallKinds, WaitingIsLive
  <2>2. ASSUME NEW i \in DOMAIN up'[c], up'[c][i].id = w.id PROVE up'[c][i].key = w.key
    <3>1. PICK j \in DOMAIN up[c] : up'[c][i] = up[c][j]
      BY DEF Among
    <3> QED
      BY <3>1, <2>1, <2>2, <1>3 DEF AnswerOK
  <2>3. ASSUME NEW i \in DOMAIN down'[c], down'[c][i].type = "response", down'[c][i].id = w.id,
               down'[c][i].val # Failed
        PROVE  New(w.key, down'[c][i].val)
    <3>1. CASE down'[c][i] = f
      BY <3>1, <2>3, <1>1, <1>3
    <3>2. CASE down'[c][i] # f
      <4>1. PICK j \in DOMAIN down[c] : down'[c][i] = down[c][j]
        BY <3>2 DEF OneMore
      <4>2. Fresh(c, w.key, down[c][j].val)
        BY <4>1, <2>1, <2>3, <1>3 DEF AnswerOK
      <4> QED
        BY <4>1, <4>2, <1>1
    <3> QED
      BY <3>1, <3>2
  <2>4. w.id <= nextId[c]
    BY <2>1, <1>3 DEF AnswerOK
  <2> QED
    BY <2>2, <2>3, <2>4, <1>1, <1>3
<1>4. ASSUME w.pc = "fetched" PROVE New(w.key, w.val)
  <2>1. Fresh(c, w.key, w.val)
    BY <1>4, CallKinds, WaitingIsLive DEF AnswerOK
  <2> QED
    BY <2>1, <1>1
<1> QED
  BY <1>2, <1>3, <1>4 DEF AnswerOK, Fresh

(***************************************************************************)
(* handleClientRequest: what it answers is the value at its stamped block, *)
(* which is not before the block the asking client is at.                  *)
(***************************************************************************)
LEMMA LookupKeepsClient ==
    ASSUME SyncInv, NEW c \in Client, LookupRequest(c), UNCHANGED <<nodeVars, liveVars>>
    PROVE  ClientOK(c)'
<1> DEFINE r == Head(up[c])
           h == IF cache[r.key] # Absent
                THEN [pc |-> "reply", id |-> r.id, val |-> cache[r.key]]
                ELSE [pc |-> "fetch", id |-> r.id, key |-> r.key, block |-> sblock]
<1>1. /\ handler'[c] = h /\ up[c] # <<>> /\ up'[c] = Tail(up[c])
      /\ UNCHANGED <<conn, down, dump, chain, sblock, ready, live, nextId, primary, backfill,
                     block, pushCh, overflow, applying, call, lost>>
  BY DEF LookupRequest, SyncInv, ServerInv, TypeOK, WireTypeOK, ServerTypeOK, nodeVars, liveVars
<1>2. Quiet(c)
  BY <1>1 DEF Quiet
<1>3. 1 \in DOMAIN up[c] /\ r = up[c][1] /\ r \in Request /\ Among(up'[c], up[c])
  BY <1>1, ClientTypes, AmongTail
<1>4. r.key \in Key
  BY <1>3 DEF Request
<1>5. IdsOK(c)
  BY DEF SyncInv, ClientOK
<1>6. h.id = r.id
  OBVIOUS
<1>7. IdsOK(c)'
  BY <1>1, <1>3, <1>5, <1>6 DEF IdsOK, Among
<1>8. ASSUME conn[c] = "subscribed", NEW t \in Thread PROVE AnswerOK(c, t)'
  <2> DEFINE w == call[c][t]
  <2>1. ASSUME w.pc = "waiting"
        PROVE  /\ h.pc = "fetch" /\ h.id = w.id => h.key = w.key /\ block[c] <= h.block
               /\ h.pc = "reply" /\ h.id = w.id => Fresh(c, w.key, h.val)
    <3>1. live[c] /\ Attached(c) /\ Base(c) = block[c] /\ AnswerOK(c, t)
      BY <2>1, <1>8, CallKinds, WaitingIsLive
    <3>2. block[c] \in Nat /\ block[c] <= sblock /\ sblock \in Nat
      BY <3>1, BaseTypes, Numbers
    <3>3. h.id = w.id => r.key = w.key
      BY <2>1, <3>1, <1>3, <1>6 DEF AnswerOK
    <3>4. h.pc = "fetch" /\ h.id = w.id => h.key = w.key /\ block[c] <= h.block
      BY <3>2, <3>3
    <3>5. ASSUME h.pc = "reply", h.id = w.id PROVE Fresh(c, w.key, h.val)
      <4>1. h.val = cache[r.key] /\ cache[r.key] # Absent
        BY <3>5
      <4>2. h.val = chain[sblock][w.key]
        BY <4>1, <3>3, <3>5, <1>4 DEF SyncInv, ServerInv, CacheCoherent, Cached
      <4>3. sblock \in Base(c)..sblock
        BY <3>1, <3>2
      <4> QED
        BY <4>2, <4>3 DEF Fresh
    <3> QED
      BY <3>4, <3>5
  <2>3. OneMore(down'[c], down[c], [type |-> "block_diff", block |-> 0])
    BY <1>1 DEF OneMore
  <2>4. [type |-> "block_diff", block |-> 0].type # "response"
    OBVIOUS
  <2> HIDE DEF h
  <2>5. call'[c][t] = call[c][t] /\ nextId'[c] = nextId[c] /\ handler'[c] = h
    BY <1>1
  <2> QED
    BY <1>2, <1>3, <1>8, <2>1, <2>3, <2>4, <2>5, AnswerMoves
<1> QED
  BY <1>2, <1>7, <1>8, QuietKeepsClient

\* The node has answered for the stamped block, or failed.
LEMMA FinishKeepsClient ==
    ASSUME SyncInv, NEW c \in Client, FinishFetch(c) \/ FailFetch(c), UNCHANGED <<nodeVars, liveVars>>
    PROVE  ClientOK(c)'
<1> DEFINE g == handler[c]
<1>1. /\ g.pc = "fetch" /\ UNCHANGED <<conn, up, down, dump, chain, sblock, ready, live, nextId, primary,
                   backfill, block, pushCh, overflow, applying, call, lost>>
      /\ \E u \in {chain[g.block][g.key], Failed} : handler'[c] = [pc |-> "reply", id |-> g.id, val |-> u]
  BY DEF FinishFetch, FailFetch, SyncInv, ServerInv, TypeOK, ServerTypeOK, nodeVars, liveVars, wireVars
<1>2. PICK u \in {chain[g.block][g.key], Failed} : handler'[c] = [pc |-> "reply", id |-> g.id, val |-> u]
  BY <1>1
<1>3. Quiet(c)
  BY <1>1 DEF Quiet
<1>4. g # Idle /\ IdsOK(c)
  BY <1>1 DEF SyncInv, ClientOK, Idle
<1>5. Among(up'[c], up[c]) /\ OneMore(down'[c], down[c], [type |-> "block_diff", block |-> 0])
  BY <1>1 DEF Among, OneMore
<1> DEFINE h == [pc |-> "reply", id |-> g.id, val |-> u]
<1>6. h.id = g.id /\ h.pc = "reply" /\ h.val = u
  OBVIOUS
<1>7. IdsOK(c)'
  BY <1>1, <1>2, <1>4, <1>6 DEF IdsOK
<1>8. g.block <= sblock /\ g.block \in Nat
  <2>1. g \in Fetching
    BY <1>1, HandlerStates DEF SyncInv, ServerInv, TypeOK
  <2> QED
    BY <2>1, <1>1, Numbers DEF Fetching, SyncInv, ServerInv, ServerSteady
<1>9. ASSUME conn[c] = "subscribed", NEW t \in Thread PROVE AnswerOK(c, t)'
  <2> DEFINE w == call[c][t]
  <2>1. ASSUME w.pc = "waiting", g.id = w.id, u # Failed PROVE Fresh(c, w.key, u)
    <3>1. Attached(c) /\ Base(c) = block[c] /\ AnswerOK(c, t)
      BY <2>1, <1>9, CallKinds, WaitingIsLive
    <3>2. g.key = w.key /\ block[c] <= g.block
      BY <2>1, <3>1, <1>1 DEF AnswerOK
    <3>3. g.block \in Base(c)..sblock
      BY <3>1, <3>2, <1>8, BaseTypes, Numbers
    <3> QED
      BY <3>2, <3>3, <2>1 DEF Fresh
  <2>2. [type |-> "block_diff", block |-> 0].type # "response"
    OBVIOUS
  <2>3. call'[c][t] = call[c][t] /\ nextId'[c] = nextId[c] /\ handler'[c] = h
    BY <1>1, <1>2
  <2> HIDE DEF h
  <2> QED
    BY <1>3, <1>5, <1>6, <1>9, <2>1, <2>2, <2>3, AnswerMoves
<1> QED
  BY <1>3, <1>7, <1>9, QuietKeepsClient

\* The answer goes on the wire behind the diffs already there.
LEMMA ReplyKeepsClient ==
    ASSUME SyncInv, NEW c \in Client, Reply(c), UNCHANGED <<nodeVars, liveVars>>
    PROVE  ClientOK(c)'
<1> DEFINE g == handler[c]
           f == [type |-> "response", id |-> g.id, val |-> g.val]
<1>1. /\ g.pc = "reply" /\ handler'[c] = Idle
      /\ UNCHANGED <<conn, up, dump, chain, sblock, ready, live, nextId, primary,
                     backfill, block, pushCh, overflow, applying, call, lost>>
      /\ down'[c] = IF conn[c] \in {"subscribed", "worker"} THEN Append(down[c], f) ELSE down[c]
  BY DEF Reply, SyncInv, ServerInv, TypeOK, ServerTypeOK, WireTypeOK, nodeVars, liveVars
<1>2. f \in Frame /\ f.type = "response" /\ f.id = g.id /\ f.val = g.val
  <2>1. g \in Replying
    BY <1>1, HandlerStates DEF SyncInv, ServerInv, TypeOK
  <2> QED
    BY <2>1 DEF Replying, Frame, Response
<1> HIDE DEF f
<1>3. OneMore(down'[c], down[c], f) /\ Among(up'[c], up[c])
  <2>1. OneMore(Append(down[c], f), down[c], f)
    BY <1>2, ClientTypes, OneMoreAppend
  <2> QED
    BY <2>1, <1>1 DEF OneMore, Among
<1>4. Quiet(c)
  <2>1. Diffs(down'[c]) = Diffs(down[c]) /\ (Rising(down[c]) => Rising(down'[c]))
    BY <1>1, <1>2, ClientTypes, DiffsOfAppend
  <2> QED
    BY <2>1, <1>1 DEF Quiet
<1>5. IdsOK(c) /\ g # Idle
  BY <1>1 DEF SyncInv, ClientOK, Idle
<1>6. IdsOK(c)'
  BY <1>1, <1>2, <1>3, <1>5 DEF IdsOK, OneMore
<1>7. ASSUME conn[c] = "subscribed", NEW t \in Thread PROVE AnswerOK(c, t)'
  <2> DEFINE w == call[c][t]
  <2>1. ASSUME w.pc = "waiting", f.id = w.id, f.val # Failed PROVE Fresh(c, w.key, f.val)
    <3>1. AnswerOK(c, t)
      BY <2>1, <1>7, CallKinds, WaitingIsLive
    <3> QED
      BY <2>1, <3>1, <1>1, <1>2 DEF AnswerOK
  <2>2. Idle.pc # "fetch" /\ Idle.pc # "reply"
    BY DEF Idle
  <2>3. call'[c][t] = call[c][t] /\ nextId'[c] = nextId[c] /\ handler'[c] = Idle
    BY <1>1
  <2> QED
    BY <1>3, <1>4, <1>7, <2>1, <2>2, <2>3, AnswerMoves
<1> QED
  BY <1>4, <1>6, <1>7, QuietKeepsClient

-----------------------------------------------------------------------------
(***************************************************************************)
(* Steps of the client.                                                    *)
(***************************************************************************)
LEMMA DialKeepsClient ==
    ASSUME SyncInv, NEW c \in Client, Dial(c), UNCHANGED <<nodeVars, serverVars>>
    PROVE  ClientOK(c)'
<1>1. /\ conn[c] = "none" /\ conn'[c] = "subscribing"
      /\ UNCHANGED <<up, down, dump, handler, live, nextId, primary, backfill, block, pushCh, overflow,
                     applying, call, lost>>
  BY DEF Dial, SyncInv, ServerInv, TypeOK, WireTypeOK, serverVars, liveVars
<1>2. ClientOK(c)
  BY DEF SyncInv
<1>3. Among(up'[c], up[c]) /\ OneMore(down'[c], down[c], [type |-> "block_diff", block |-> 0])
  BY <1>1 DEF Among, OneMore
<1>4. IdsOK(c)'
  BY <1>1, <1>3, IdsKept
<1>5. (~live[c] => NotYetLive(c))' /\ ~Attached(c)'
  BY <1>1, <1>2 DEF ClientOK, NotYetLive, Attached
<1> QED
  BY <1>1, <1>2, <1>4, <1>5 DEF ClientOK, FrozenOK

\* Loading the dump: what was on its way is in the layer now.
LEMMA LoadDumpKeepsClient ==
    ASSUME SyncInv, NEW c \in Client, LoadDump(c), UNCHANGED <<nodeVars, serverVars>>
    PROVE  ClientOK(c)'
<1>1. /\ ~live[c] /\ dump[c] # NoDump /\ live'[c] = TRUE /\ primary'[c] = dump[c].state
      /\ block'[c] = dump[c].block /\ dump'[c] = NoDump
      /\ UNCHANGED <<conn, up, down, handler, chain, sblock, ready, nextId, backfill, pushCh, overflow,
                     applying, call, lost>>
  BY DEF LoadDump, SyncInv, LiveTypeOK, ServerInv, TypeOK, WireTypeOK, serverVars, nodeVars
<1>2. ClientOK(c) /\ NotYetLive(c) /\ conn[c] \notin {"none", "subscribing"}
  BY <1>1 DEF SyncInv, ClientOK
<1>3. Base(c)' = Base(c) /\ Held(c)' = Held(c) /\ (Attached(c)' <=> Attached(c)) /\ HistoryKept
  BY <1>1 DEF Base, Held, Attached, HistoryKept
<1>4. Among(up'[c], up[c]) /\ OneMore(down'[c], down[c], [type |-> "block_diff", block |-> 0])
  BY <1>1 DEF Among, OneMore
<1>5. IdsOK(c)'
  BY <1>1, <1>4, IdsKept
<1>6. \A t \in Thread : AnswerOK(c, t)'
  <2>1. \A t \in Thread : call'[c][t] \in {Out, Quoting}
    BY <1>1, <1>2 DEF NotYetLive
  <2> QED
    BY <2>1, NoAnswer
<1>7. ASSUME Attached(c) PROVE StreamOK(c)'
  <2>1. Rising(down'[c])
    BY <1>1, <1>7, BaseTypes DEF StreamOK, Ordered
  <2>2. Ordered(c)' /\ Pending(c)' = Pending(c)
    BY <1>1, <1>7, <1>3, <2>1, OrderKept
  <2> QED
    BY <1>1, <1>7, <1>3, <2>2, StreamKept
<1>8. FrozenOK(c)'
  BY <1>1, <1>2, <1>3 DEF ClientOK, FrozenOK
<1> QED
  BY <1>1, <1>2, <1>3, <1>5, <1>6, <1>7, <1>8 DEF ClientOK

(***************************************************************************)
(* The read loop and the consumer move diffs from the wire to the queue    *)
(* and into the consumer's hand.                                           *)
(***************************************************************************)
Mover(c) ==
    /\ live[c]
    /\ UNCHANGED <<conn[c], up[c], dump[c], handler[c], live[c], nextId[c], primary[c], backfill[c],
                   block[c], call[c], sblock, ready, chain>>
    /\ Among(down'[c], down[c])
    /\ lost[c] \subseteq lost'[c]

\* A move keeps the client right if no diff gets lost or out of order.
LEMMA MoverKeepsClient ==
    ASSUME SyncInv, NEW c \in Client, Mover(c),
           Attached(c) => /\ Ordered(c)'
                          /\ \A b \in Pending(c) : b \in Pending(c)' \/ Diff(b) \subseteq lost'[c],
           Attached(c) /\ ready = "frozen" => lost'[c] = lost[c]
    PROVE  ClientOK(c)'
<1> USE DEF Mover
<1>1. ClientOK(c) /\ conn[c] \notin {"none", "subscribing"}
  BY DEF SyncInv, ClientOK
<1>2. Base(c)' = Base(c) /\ Held(c)' = Held(c) /\ (Attached(c)' <=> Attached(c)) /\ HistoryKept
  BY DEF Base, Held, Attached, HistoryKept
<1>3. Among(up'[c], up[c]) /\ OneMore(down'[c], down[c], [type |-> "block_diff", block |-> 0])
  BY DEF Among, OneMore
<1>4. IdsOK(c)'
  BY <1>3, IdsKept
<1>5. Attached(c) => StreamOK(c)'
  BY <1>2, StreamKept
<1>6. sblock' \in Nat /\ sblock <= sblock'
  BY Numbers
<1>7. ASSUME conn[c] = "subscribed", NEW t \in Thread PROVE AnswerOK(c, t)'
  <2>1. Attached(c) /\ AnswerOK(c, t)
    BY <1>1, <1>7 DEF Attached, ClientOK
  <2>2. \A k, v : Fresh(c, k, v) => \E x \in Base(c)'..sblock' : v = chain'[x][k]
    BY <2>1, <1>2, <1>6, FreshGrows
  <2>3. call'[c][t] = call[c][t]
    OBVIOUS
  <2> QED
    BY <2>1, <2>2, <2>3, <1>3, AnswerKept
<1>8. FrozenOK(c)'
  BY <1>1, <1>2 DEF ClientOK, FrozenOK
<1> QED
  BY <1>1, <1>2, <1>4, <1>5, <1>7, <1>8 DEF ClientOK

\* The read loop moves a diff from the wire to pushCh, or holds it up.
LEMMA ReadPushKeepsClient ==
    ASSUME SyncInv, NEW c \in Client, ReadPush(c), UNCHANGED <<nodeVars, serverVars>>
    PROVE  ClientOK(c)'
<1> DEFINE b == Head(down[c]).block
<1>1. /\ live[c] /\ overflow[c] = NoBlock /\ down[c] # <<>> /\ Head(down[c]).type = "block_diff"
      /\ \/ pushCh'[c] = Append(pushCh[c], b) /\ overflow'[c] = NoBlock
         \/ pushCh'[c] = pushCh[c] /\ overflow'[c] = b
      /\ down'[c] = Tail(down[c])
      /\ UNCHANGED <<conn, up, dump, handler, chain, sblock, ready, live, nextId, primary, backfill,
                     block, applying, call, lost>>
  BY DEF ReadPush, SyncInv, LiveTypeOK, ServerInv, TypeOK, WireTypeOK, serverVars, nodeVars
<1>2. Among(down'[c], down[c])
  BY <1>1, ClientTypes, AmongTail
<1>3. Mover(c)
  BY <1>1, <1>2 DEF Mover
<1>4. b \in Block /\ b # NoBlock /\ b \in Nat
  BY <1>1, ClientTypes, DiffsOfTail, FrameKinds, Numbers
<1>5. ASSUME Attached(c) PROVE Ordered(c)' /\ Pending(c)' = Pending(c)
  <2>1. Ordered(c) /\ Base(c)' = Base(c)
    BY <1>1, <1>5, BaseTypes DEF StreamOK, Base
  <2>2. /\ Diffs(down[c]) = Diffs(down'[c]) \cup {b} /\ Rising(down'[c])
        /\ Before({b}, Diffs(down'[c]))
    BY <2>1, <1>1, ClientTypes, DiffsOfTail DEF Ordered
  <2>3. /\ OnWire(c) = Diffs(down[c]) /\ Queued(c) = Members(pushCh[c])
        /\ Pending(c) = OnWire(c) \cup Queued(c) \cup Over(c) \cup Applying(c)
        /\ Over(c) = {} /\ Applying(c)' = Applying(c) /\ OnWire(c)' = Diffs(down'[c])
        /\ Queued(c)' = Members(pushCh'[c])
        /\ Pending(c)' = OnWire(c)' \cup Queued(c)' \cup Over(c)' \cup Applying(c)'
    BY <1>1, PendingParts, PendingPartsNext DEF Over, Applying
  <2>4. b \in OnWire(c) /\ \A p \in OnWire(c)' : p \in OnWire(c)
    BY <2>2, <2>3
  <2>5. /\ Before(Applying(c), Queued(c) \cup OnWire(c)) /\ Before(Queued(c), OnWire(c))
        /\ Increasing(pushCh[c]) /\ \A p \in Pending(c) : Base(c) < p /\ p <= sblock
    BY <2>1, <2>3 DEF Ordered
  <2>6. CASE pushCh'[c] = Append(pushCh[c], b) /\ overflow'[c] = NoBlock
    <3>1. Before(Members(pushCh[c]), {b})
      BY <2>3, <2>4, <2>5 DEF Before
    <3>2. Members(pushCh'[c]) = Members(pushCh[c]) \cup {b} /\ Increasing(pushCh'[c])
      BY <2>5, <2>6, <3>1, <1>4, ClientTypes, MembersOfAppend
    <3>3. Over(c)' = {} /\ Queued(c)' = Queued(c) \cup {b} /\ OnWire(c) = OnWire(c)' \cup {b}
      BY <2>2, <2>3, <2>6, <3>2 DEF Over
    <3>4. Pending(c)' = Pending(c)
      BY <2>3, <3>3
    <3>5. /\ Before(Applying(c)', Queued(c)' \cup Over(c)' \cup OnWire(c)')
          /\ Before(Queued(c)', Over(c)' \cup OnWire(c)') /\ Before(Over(c)', OnWire(c)')
      BY <2>2, <2>3, <2>5, <3>3 DEF Before
    <3>6. \A p \in Pending(c)' : Base(c)' < p /\ p <= sblock'
      BY <2>1, <2>5, <3>4, <1>1
    <3> QED
      BY <2>2, <3>2, <3>4, <3>5, <3>6 DEF Ordered
  <2>7. CASE pushCh'[c] = pushCh[c] /\ overflow'[c] = b
    <3>1. Over(c)' = {b} /\ Queued(c)' = Queued(c) /\ OnWire(c) = OnWire(c)' \cup {b}
      BY <2>2, <2>3, <2>7, <1>4 DEF Over
    <3>2. Pending(c)' = Pending(c)
      BY <2>3, <3>1
    <3>3. /\ Before(Applying(c)', Queued(c)' \cup Over(c)' \cup OnWire(c)')
          /\ Before(Queued(c)', Over(c)' \cup OnWire(c)') /\ Before(Over(c)', OnWire(c)')
      BY <2>2, <2>3, <2>5, <3>1 DEF Before
    <3>4. \A p \in Pending(c)' : Base(c)' < p /\ p <= sblock'
      BY <2>1, <2>5, <3>2, <1>1
    <3> QED
      BY <2>2, <2>5, <2>7, <3>2, <3>3, <3>4 DEF Ordered
  <2> QED
    BY <2>6, <2>7, <1>1
<1> QED
  BY <1>1, <1>3, <1>5, MoverKeepsClient

\* The queue is full: the oldest diff is thrown away, its slots are lost.
LEMMA DropOldestKeepsClient ==
    ASSUME SyncInv, NEW c \in Client, DropOldest(c), UNCHANGED <<nodeVars, serverVars>>
    PROVE  ClientOK(c)'
<1> DEFINE b == overflow[c]
<1>1. /\ b # NoBlock /\ overflow'[c] = NoBlock
      /\ UNCHANGED <<conn, up, down, dump, handler, chain, sblock, ready, live, nextId, primary, backfill,
                     block, applying, call>>
      /\ \/ pushCh[c] = <<>> /\ pushCh'[c] = <<b>> /\ lost'[c] = lost[c]
         \/ /\ pushCh[c] # <<>> /\ pushCh'[c] = Append(Tail(pushCh[c]), b)
            /\ lost'[c] = lost[c] \cup Diff(Head(pushCh[c]))
  BY DEF DropOldest, SyncInv, LiveTypeOK, ServerInv, TypeOK, WireTypeOK, serverVars, nodeVars, wireVars
<1>2. live[c]
  BY <1>1 DEF SyncInv, ClientOK, NotYetLive
<1>3. Mover(c)
  BY <1>1, <1>2 DEF Mover, Among
<1>4. b \in Block /\ b \in Nat
  BY <1>1, ClientTypes, Numbers
<1>5. ASSUME Attached(c)
      PROVE  /\ Ordered(c)' /\ ready # "frozen"
             /\ \A p \in Pending(c) : p \in Pending(c)' \/ Diff(p) \subseteq lost'[c]
  <2>1. Ordered(c) /\ Base(c)' = Base(c) /\ Base(c) \in Nat
    BY <1>1, <1>5, BaseTypes DEF StreamOK, Base
  <2>2. /\ OnWire(c) = Diffs(down[c]) /\ Queued(c) = Members(pushCh[c])
        /\ Pending(c) = OnWire(c) \cup Queued(c) \cup Over(c) \cup Applying(c)
        /\ Over(c) = {b} /\ Over(c)' = {} /\ Applying(c)' = Applying(c) /\ OnWire(c)' = OnWire(c)
        /\ Queued(c)' = Members(pushCh'[c])
        /\ Pending(c)' = OnWire(c)' \cup Queued(c)' \cup Over(c)' \cup Applying(c)'
    BY <1>1, PendingParts, PendingPartsNext DEF Over, Applying
  <2>3. ready # "frozen"
    <3>1. Base(c) < b /\ b <= sblock /\ sblock \in Nat
      BY <2>1, <2>2, Numbers DEF Ordered
    <3>2. Base(c) # sblock
      BY <3>1, <2>1, <1>4
    <3> QED
      BY <3>2, <1>5 DEF SyncInv, ClientOK, FrozenOK
  <2>4. PICK S \in SUBSET Queued(c) :
           /\ Queued(c)' = S \cup {b} /\ Increasing(pushCh'[c])
           /\ \A p \in Queued(c) : p \in S \/ Diff(p) \subseteq lost'[c]
    <3>1. CASE pushCh[c] = <<>> /\ pushCh'[c] = <<b>>
      <4>1. Members(pushCh'[c]) = {} \cup {b} /\ Increasing(pushCh'[c])
        BY <3>1 DEF Members, Increasing
      <4>2. Queued(c) = {}
        BY <3>1, <2>2 DEF Members
      <4> QED
        BY <4>1, <4>2, <2>2
    <3>2. CASE /\ pushCh[c] # <<>> /\ pushCh'[c] = Append(Tail(pushCh[c]), b)
               /\ lost'[c] = lost[c] \cup Diff(Head(pushCh[c]))
      <4> DEFINE u == Tail(pushCh[c])
      <4>1. u \in Seq(Block) /\ Members(pushCh[c]) = Members(u) \cup {Head(pushCh[c])} /\ Increasing(u)
        BY <3>2, <2>1, ClientTypes, MembersOfTail DEF Ordered
      <4>2. Before(Members(u), {b})
        BY <4>1, <2>1, <2>2 DEF Ordered, Before
      <4> HIDE DEF u
      <4>3. Members(Append(u, b)) = Members(u) \cup {b} /\ Increasing(Append(u, b))
        BY <4>1, <4>2, <1>4, MembersOfAppend
      <4>4. Members(u) \in SUBSET Queued(c) /\ Queued(c)' = Members(u) \cup {b} /\ Increasing(pushCh'[c])
        BY <4>1, <4>3, <3>2, <2>2 DEF u
      <4>5. \A p \in Queued(c) : p \in Members(u) \/ Diff(p) \subseteq lost'[c]
        BY <4>1, <3>2, <2>2
      <4> QED
        BY <4>4, <4>5
    <3> QED
      BY <3>1, <3>2, <1>1
  <2>5. \A p \in Pending(c)' : p \in Pending(c)
    BY <2>2, <2>4
  <2>6. /\ Before(Applying(c)', Queued(c)' \cup Over(c)' \cup OnWire(c)')
        /\ Before(Queued(c)', Over(c)' \cup OnWire(c)') /\ Before(Over(c)', OnWire(c)')
    BY <2>1, <2>2, <2>4 DEF Ordered, Before
  <2>7. (\A p \in Pending(c)' : Base(c)' < p /\ p <= sblock') /\ Rising(down'[c])
    BY <2>1, <2>5, <1>1 DEF Ordered
  <2>8. Ordered(c)'
    BY <2>4, <2>6, <2>7 DEF Ordered
  <2>9. \A p \in Pending(c) : p \in Pending(c)' \/ Diff(p) \subseteq lost'[c]
    BY <2>2, <2>4
  <2> QED
    BY <2>3, <2>8, <2>9
<1> QED
  BY <1>3, <1>5, MoverKeepsClient

\* The consumer takes the oldest diff of pushCh.
LEMMA TakePushKeepsClient ==
    ASSUME SyncInv, NEW c \in Client, TakePush(c), UNCHANGED <<nodeVars, serverVars>>
    PROVE  ClientOK(c)'
<1> DEFINE b == Head(pushCh[c])
<1>1. /\ live[c] /\ applying[c] = NoBlock /\ pushCh[c] # <<>> /\ applying'[c] = b
      /\ pushCh'[c] = Tail(pushCh[c])
      /\ UNCHANGED <<conn, up, down, dump, handler, chain, sblock, ready, live, nextId, primary, backfill,
                     block, overflow, call, lost>>
  BY DEF TakePush, SyncInv, LiveTypeOK, ServerInv, TypeOK, WireTypeOK, serverVars, nodeVars, wireVars
<1>2. Mover(c)
  BY <1>1 DEF Mover, Among
<1>3. b \in Block /\ b # NoBlock
  BY <1>1, ClientTypes, MembersOfTail, Numbers
<1>4. ASSUME Attached(c) PROVE Ordered(c)' /\ Pending(c)' = Pending(c)
  <2>1. Ordered(c) /\ Base(c)' = Base(c)
    BY <1>1, <1>4, BaseTypes DEF StreamOK, Base
  <2>2. /\ Members(pushCh[c]) = Members(pushCh'[c]) \cup {b} /\ Increasing(pushCh'[c])
        /\ Before({b}, Members(pushCh'[c]))
    BY <2>1, <1>1, ClientTypes, MembersOfTail DEF Ordered
  <2>3. /\ Queued(c) = Queued(c)' \cup {b} /\ Before({b}, Queued(c)')
        /\ Pending(c) = OnWire(c) \cup Queued(c) \cup Over(c) \cup Applying(c)
        /\ Over(c)' = Over(c) /\ Applying(c) = {} /\ Applying(c)' = {b} /\ OnWire(c)' = OnWire(c)
        /\ Pending(c)' = OnWire(c)' \cup Queued(c)' \cup Over(c)' \cup Applying(c)'
    BY <1>1, <1>3, <2>2, PendingParts, PendingPartsNext DEF Over, Applying
  <2>4. Pending(c)' = Pending(c)
    BY <2>3
  <2>5. /\ Before(Applying(c)', Queued(c)' \cup Over(c)' \cup OnWire(c)')
        /\ Before(Queued(c)', Over(c)' \cup OnWire(c)') /\ Before(Over(c)', OnWire(c)')
    BY <2>1, <2>3 DEF Ordered, Before
  <2>6. (\A p \in Pending(c)' : Base(c)' < p /\ p <= sblock') /\ Rising(down'[c])
    BY <2>1, <2>4, <1>1 DEF Ordered
  <2> QED
    BY <2>2, <2>4, <2>5, <2>6 DEF Ordered
<1> QED
  BY <1>1, <1>2, <1>4, MoverKeepsClient

(***************************************************************************)
(* A slot that no diff up to b rewrote has its old value at b.             *)
(***************************************************************************)
LEMMA UnwrittenUpTo ==
    ASSUME SyncInv, NEW b \in Nat, b <= sblock, NEW x \in Nat, x < b, NEW k \in Key,
           \A w \in x + 1 .. b : k \notin Diff(w)
    PROVE  chain[x][k] = chain[b][k]
<1> DEFINE w == chain[b][k]
<1>1. b \in 0..head /\ x \in 0..head
  BY Numbers
<1>2. w \in 0..b /\ \A y \in w..b : chain[y][k] = w
  BY <1>1, Numbers DEF ChainOK
<1>3. w <= x
  <2> SUFFICES ASSUME ~(w <= x) PROVE FALSE
    OBVIOUS
  <2>1. w \in x + 1 .. b /\ w \in w..b
    BY <1>2
  <2>2. k \in Diff(w)
    BY <1>2, <2>1 DEF Diff
  <2> QED
    BY <2>1, <2>2
<1>4. x \in w..b
  BY <1>2, <1>3
<1> QED
  BY <1>2, <1>4

(***************************************************************************)
(* ApplyBlockDiff: the client moves to the block of the oldest diff it has *)
(* not applied.  What that diff does not write has not been written since, *)
(* or is newer; and nobody waits for an answer.                            *)
(***************************************************************************)
LEMMA ApplyKeepsClient ==
    ASSUME SyncInv, NEW c \in Client, ApplyBlockDiff(c), UNCHANGED <<nodeVars, serverVars>>
    PROVE  ClientOK(c)'
<1> DEFINE b == applying[c]
<1>1. /\ b # NoBlock /\ ~RLocked(c) /\ primary'[c] = Merged(c, b) /\ backfill'[c] = Empty
      /\ block'[c] = b /\ applying'[c] = NoBlock
      /\ UNCHANGED <<conn, up, down, dump, handler, chain, sblock, ready, live, nextId, pushCh,
                     overflow, call, lost>>
  BY DEF ApplyBlockDiff, SyncInv, LiveTypeOK, ServerInv, TypeOK, WireTypeOK, serverVars, nodeVars, wireVars
<1>2. ClientOK(c) /\ live[c] /\ conn[c] \notin {"none", "subscribing"}
  BY <1>1 DEF SyncInv, ClientOK, NotYetLive
<1>3. b \in Block /\ b \in Nat
  BY <1>1, ClientTypes, Numbers
<1>4. Among(up'[c], up[c]) /\ OneMore(down'[c], down[c], [type |-> "block_diff", block |-> 0])
  BY <1>1 DEF Among, OneMore
<1>5. IdsOK(c)'
  BY <1>1, <1>4, IdsKept
<1>6. \A t \in Thread : AnswerOK(c, t)'
  <2>1. \A t \in Thread : call'[c][t] \in {Out, Quoting}
    BY <1>1 DEF RLocked
  <2> QED
    BY <2>1, NoAnswer
<1>7. ASSUME Attached(c) PROVE StreamOK(c)' /\ ready # "frozen"
  <2>1. /\ StreamOK(c) /\ Base(c) \in Nat /\ Base(c) = block[c] /\ Base(c)' = b
        /\ Held(c) = primary[c] /\ Held(c)' = Merged(c, b)
    BY <1>1, <1>2, <1>7, BaseTypes DEF Base, Held
  <2>2. Ordered(c) /\ Complete(c) /\ FreshLayers(c) /\ sblock \in Nat
    BY <2>1, Numbers DEF StreamOK
  <2>3. /\ Pending(c) = OnWire(c) \cup Queued(c) \cup Over(c) \cup Applying(c)
        /\ Applying(c) = {b} /\ Applying(c)' = {} /\ Over(c)' = Over(c)
        /\ OnWire(c)' = OnWire(c) /\ Queued(c)' = Queued(c)
        /\ Pending(c)' = OnWire(c) \cup Queued(c) \cup Over(c)
    BY <1>1, PendingParts, PendingPartsNext DEF Over, Applying
  <2>4. /\ Base(c) < b /\ b <= sblock
        /\ \A p \in Pending(c)' : p \in Nat /\ b < p /\ p <= sblock
        /\ \A p \in Pending(c) : p = b \/ p \in Pending(c)'
    <3>1. \A p \in Pending(c)' : p \in Pending(c)
      BY <2>3
    <3>2. \A p \in Pending(c)' : b < p
      BY <2>2, <2>3 DEF Ordered, Before
    <3>3. \A p \in Pending(c) : Base(c) < p /\ p <= sblock /\ p \in Nat
      BY <2>2, PendingParts DEF Ordered
    <3>4. b \in Pending(c) /\ \A p \in Pending(c) : p = b \/ p \in Pending(c)'
      BY <2>3
    <3> QED
      BY <3>1, <3>2, <3>3, <3>4
  <2>5. ready # "frozen"
    <3>1. Base(c) # sblock
      BY <2>1, <2>2, <2>4, <1>3
    <3> QED
      BY <3>1, <1>2, <1>7 DEF ClientOK, FrozenOK
  <2>6. Ordered(c)'
    <3>1. /\ Before(Applying(c)', Queued(c)' \cup Over(c)' \cup OnWire(c)')
          /\ Before(Queued(c)', Over(c)' \cup OnWire(c)') /\ Before(Over(c)', OnWire(c)')
      BY <2>2, <2>3 DEF Ordered, Before
    <3>2. Increasing(pushCh'[c]) /\ Rising(down'[c])
      BY <2>2, <1>1 DEF Ordered
    <3>3. \A p \in Pending(c)' : Base(c)' < p /\ p <= sblock'
      BY <2>1, <2>4, <1>1
    <3> QED
      BY <3>1, <3>2, <3>3 DEF Ordered
  <2>7. Complete(c)'
    <3> SUFFICES ASSUME NEW x \in b + 1 .. sblock, NEW k \in SlotKey, k \in Diff(x)'
                 PROVE  x \in Pending(c)' \/ k \in lost[c]
      BY <2>1, <1>1 DEF Complete
    <3>1. k \in Diff(x) /\ x \in Base(c) + 1 .. sblock /\ x # b
      BY <2>1, <2>2, <2>4, <1>1, <1>3 DEF Diff
    <3> QED
      BY <3>1, <2>2, <2>4 DEF Complete
  <2>8. FreshLayers(c)'
    <3> SUFFICES ASSUME NEW k \in SlotKey, k \notin lost[c]
                 PROVE  /\ Merged(c, b)[k] # Absent => \E x \in b..sblock : Merged(c, b)[k] = chain[x][k]
                        /\ Empty[k] = Absent
      BY <2>1, <1>1 DEF FreshLayers, Fresh, Kept
    <3>1. k \in Key /\ k \notin CodeKey /\ k \in Kept(c)
      BY WireAssumption DEF Key, Kept
    <3>2. Empty[k] = Absent /\ b \in b..sblock
      BY <3>1, <2>2, <2>4, <1>3 DEF Empty
    <3>3. CASE k \in Diff(b)
      <4>1. Merged(c, b)[k] = chain[b][k]
        BY <3>1, <3>3 DEF Merged, Entries
      <4> QED
        BY <4>1, <3>2
    <3>4. CASE k \notin Diff(b)
      <4> DEFINE v == Merged(c, b)[k]
      <4>1. v = backfill[c][k] \/ v = primary[c][k]
        BY <3>1, <3>4 DEF Merged, Entries
      <4> HIDE DEF v
      <4>2. ASSUME v # Absent PROVE \E x \in b..sblock : v = chain[x][k]
        <5>1. Fresh(c, k, v)
          BY <4>1, <4>2, <3>1, <2>1, <2>2 DEF FreshLayers
        <5>2. PICK x \in Base(c)..sblock : v = chain[x][k]
          BY <5>1 DEF Fresh
        <5>3. x \in Nat /\ Base(c) <= x /\ x <= sblock
          BY <2>1, <2>2
        <5>4. CASE b <= x
          BY <5>2, <5>3, <5>4, <2>2, <1>3
        <5>5. CASE x < b
          <6>1. ASSUME NEW w \in x + 1 .. b PROVE k \notin Diff(w)
            <7>1. w \in Base(c) + 1 .. sblock /\ w \in Nat /\ w <= b
              BY <5>3, <2>1, <2>2, <2>4, <1>3
            <7>2. w = b \/ w \notin Pending(c)
              BY <7>1, <2>4, <1>3
            <7> QED
              BY <7>1, <7>2, <3>4, <2>2 DEF Complete
          <6>2. chain[x][k] = chain[b][k]
            BY <6>1, <5>3, <5>5, <3>1, <2>4, <1>3, UnwrittenUpTo
          <6> QED
            BY <6>2, <5>2, <3>2
        <5> QED
          BY <5>3, <5>4, <5>5, <1>3
      <4> QED
        BY <4>2, <3>2 DEF v
    <3> QED
      BY <3>3, <3>4
  <2>9. (Base(c) <= sblock)'
    BY <2>1, <2>4, <1>1
  <2> QED
    BY <2>5, <2>6, <2>7, <2>8, <2>9 DEF StreamOK
<1>8. Attached(c)' <=> Attached(c)
  BY <1>1 DEF Attached
<1> QED
  BY <1>1, <1>2, <1>5, <1>6, <1>7, <1>8 DEF ClientOK, FrozenOK

(***************************************************************************)
(* The quoting goroutines.                                                 *)
(***************************************************************************)
LEMMA CallStepKeepsClient ==
    ASSUME SyncInv, NEW c \in Client, NEW t \in Thread,
           RLock(c, t) \/ Timeout(c, t) \/ RUnlock(c, t), UNCHANGED <<nodeVars, serverVars>>
    PROVE  ClientOK(c)'
<1>1. /\ live[c] \/ call[c][t] # Out
      /\ call'[c][t] \in {Out, Quoting} /\ \A d \in Thread : d # t => call'[c][d] = call[c][d]
      /\ UNCHANGED <<conn, up, down, dump, handler, chain, sblock, ready, live, nextId, primary,
                     backfill, block, pushCh, overflow, applying, lost>>
  <2>1. /\ \E q \in {Out, Quoting} : call' = [call EXCEPT ![c][t] = q]
        /\ UNCHANGED <<conn, up, down, dump, handler, chain, sblock, ready, live, nextId, primary,
                       backfill, block, pushCh, overflow, applying, lost>>
    BY DEF RLock, Timeout, RUnlock, serverVars, nodeVars, wireVars
  <2>2. live[c] \/ call[c][t].pc \in {"waiting", "fetched"} \/ call[c][t] = Quoting
    BY DEF RLock, Timeout, RUnlock
  <2>3. Out # Quoting
    BY DEF Out, Quoting
  <2> QED
    BY <2>1, <2>2, <2>3, CallKinds DEF SyncInv, LiveTypeOK
<1>2. live[c]
  BY <1>1 DEF SyncInv, ClientOK, NotYetLive
<1>3. Quiet(c)
  BY <1>1, <1>2 DEF Quiet
<1>4. Among(up'[c], up[c]) /\ OneMore(down'[c], down[c], [type |-> "block_diff", block |-> 0])
  BY <1>1 DEF Among, OneMore
<1>5. IdsOK(c)'
  BY <1>1, <1>4, IdsKept
<1>6. ASSUME conn[c] = "subscribed", NEW d \in Thread PROVE AnswerOK(c, d)'
  <2>1. CASE d = t
    BY <2>1, <1>1, NoAnswer
  <2>2. CASE d # t
    <3>1. AnswerOK(c, d) /\ call'[c][d] = call[c][d]
      BY <2>2, <1>1, <1>6 DEF SyncInv, ClientOK
    <3>2. \A k, v : Fresh(c, k, v) => \E x \in Base(c)'..sblock' : v = chain'[x][k]
      BY <1>3, QuietKeepsBase
    <3> QED
      BY <3>1, <3>2, <1>1, <1>4, AnswerKept
  <2> QED
    BY <2>1, <2>2
<1> QED
  BY <1>3, <1>5, <1>6, QuietKeepsClient

\* An answer reaches the goroutine that waits for it.
LEMMA ReadResponseKeepsClient ==
    ASSUME SyncInv, NEW c \in Client, ReadResponse(c), UNCHANGED <<nodeVars, serverVars>>
    PROVE  ClientOK(c)'
<1> DEFINE r == Head(down[c])
<1>1. /\ live[c] /\ down[c] # <<>> /\ r.type = "response" /\ down'[c] = Tail(down[c])
      /\ \A d \in Thread : call'[c][d] = IF call[c][d].pc = "waiting" /\ call[c][d].id = r.id
                                         THEN Resume(c, d, r.val) ELSE call[c][d]
      /\ UNCHANGED <<conn, up, dump, handler, chain, sblock, ready, live, nextId, primary, backfill,
                     block, pushCh, overflow, applying, lost>>
  BY DEF ReadResponse, SyncInv, LiveTypeOK, ServerInv, TypeOK, WireTypeOK, serverVars, nodeVars
<1>2. /\ 1 \in DOMAIN down[c] /\ r = down[c][1] /\ r \in Frame /\ down'[c] \in Seq(Frame)
      /\ Among(down'[c], down[c])
  BY <1>1, ClientTypes, AmongTail
<1>3. Diffs(down'[c]) = Diffs(down[c]) /\ (Rising(down[c]) => Rising(down'[c]))
  <2>1. down[c] \in Seq(Frame) /\ r.type # "block_diff"
    BY <1>1, ClientTypes
  <2>2. /\ Diffs(down[c]) = Diffs(Tail(down[c])) \cup {}
        /\ Rising(down[c]) => Rising(Tail(down[c]))
    BY <2>1, <1>1, DiffsOfTail
  <2> QED
    BY <2>2, <1>1
<1>4. conn[c] \notin {"none", "subscribing"}
  BY <1>1 DEF SyncInv, ClientOK
<1>5. Quiet(c)
  BY <1>1, <1>3, <1>4 DEF Quiet
<1>6. Among(up'[c], up[c]) /\ OneMore(down'[c], down[c], [type |-> "block_diff", block |-> 0])
  BY <1>1, <1>2 DEF Among, OneMore
<1>7. IdsOK(c)'
  BY <1>1, <1>6, IdsKept
<1>8. ASSUME conn[c] = "subscribed", NEW d \in Thread PROVE AnswerOK(c, d)'
  <2> DEFINE w == call[c][d]
  <2>1. AnswerOK(c, d)
    BY <1>8 DEF SyncInv, ClientOK
  <2>2. CASE w.pc = "waiting" /\ w.id = r.id /\ r.val = Failed
    <3>1. call'[c][d] = Quoting
      BY <2>2, <1>1 DEF Resume
    <3> QED
      BY <3>1, NoAnswer
  <2>3. CASE w.pc = "waiting" /\ w.id = r.id /\ r.val # Failed
    <3>1. call'[c][d] = [pc |-> "fetched", id |-> w.id, key |-> w.key, val |-> r.val]
      BY <2>3, <1>1 DEF Resume
    <3>2. Fresh(c, w.key, r.val)
      BY <2>1, <2>3, <1>1, <1>2 DEF AnswerOK
    <3>3. /\ call'[c][d].pc = "fetched" /\ call'[c][d].key = w.key /\ call'[c][d].val = r.val
      BY <3>1
    <3>4. \E x \in Base(c)'..sblock' : r.val = chain'[x][w.key]
      BY <3>2, <1>5, QuietKeepsBase
    <3> QED
      BY <3>3, <3>4 DEF AnswerOK, Fresh
  <2>4. CASE ~(w.pc = "waiting" /\ w.id = r.id)
    <3>1. call'[c][d] = call[c][d]
      BY <2>4, <1>1
    <3>2. \A k, v : Fresh(c, k, v) => \E x \in Base(c)'..sblock' : v = chain'[x][k]
      BY <1>5, QuietKeepsBase
    <3> QED
      BY <2>1, <3>1, <3>2, <1>1, <1>6, AnswerKept
  <2> QED
    BY <2>2, <2>3, <2>4
<1> QED
  BY <1>5, <1>7, <1>8, QuietKeepsClient

\* A new request has an id that nothing on the wire or at the server has.
LEMMA FetchKeepsClient ==
    ASSUME SyncInv, NEW c \in Client, NEW t \in Thread, NEW q \in Key, Fetch(c, t, q),
           UNCHANGED <<nodeVars, serverVars>>
    PROVE  ClientOK(c)'
<1> DEFINE n == nextId[c] + 1
           e == [id |-> n, key |-> q]
<1>1. /\ call[c][t] = Quoting /\ conn[c] = "subscribed" /\ nextId[c] < MaxCalls
      /\ nextId'[c] = n /\ up'[c] = Append(up[c], e)
      /\ call'[c][t] = [pc |-> "waiting", id |-> n, key |-> q]
      /\ \A d \in Thread : d # t => call'[c][d] = call[c][d]
      /\ UNCHANGED <<conn, down, dump, handler, chain, sblock, ready, live, primary,
                     backfill, block, pushCh, overflow, applying, lost>>
  BY DEF Fetch, SyncInv, LiveTypeOK, ServerInv, TypeOK, WireTypeOK, serverVars, nodeVars
<1>2. Quoting # Out
  BY DEF Quoting, Out
<1>3. live[c] /\ Attached(c) /\ Base(c) = block[c]
  BY <1>1, <1>2, WaitingIsLive
<1>4. Quiet(c)
  BY <1>1, <1>3 DEF Quiet
<1>5. nextId[c] \in Nat /\ n \in Id /\ n = nextId[c] + 1
  <2>1. nextId[c] \in Nat /\ nextId[c] + 1 \in 1..MaxCalls
    BY <1>1, ClientTypes, Numbers
  <2> QED
    BY <2>1 DEF Id
<1>6. e \in Request /\ e.id = n /\ e.key = q
  BY <1>5 DEF Request
<1> HIDE DEF e, n
<1>7. OneMore(up'[c], up[c], e)
  BY <1>1, <1>6, ClientTypes, OneMoreAppend
<1>8. /\ IdsOK(c)
      /\ \A i \in DOMAIN up[c] : up[c][i] \in Request
      /\ \A i \in DOMAIN down[c] : down[c][i] \in Frame
      /\ handler[c] \in {Idle} \cup Fetching \cup Replying
  BY ClientTypes DEF SyncInv, ClientOK
<1>9. /\ \A i \in DOMAIN up[c] : up[c][i].id \in Nat /\ up[c][i].id <= nextId[c] /\ up[c][i].id # n
      /\ handler[c] # Idle => handler[c].id \in Nat /\ handler[c].id <= nextId[c] /\ handler[c].id # n
      /\ \A i \in DOMAIN down[c] : down[c][i].type = "response" =>
            down[c][i].id \in Nat /\ down[c][i].id <= nextId[c] /\ down[c][i].id # n
  <2>1. \A i \in Id : i \in Nat
    BY Numbers DEF Id
  <2>2. \A x \in Request : x.id \in Id
    BY DEF Request
  <2>3. \A x \in Fetching \cup Replying : x.id \in Id
    BY DEF Fetching, Replying
  <2>4. \A i \in Nat : i <= nextId[c] => i # n
    BY <1>5
  <2> QED
    BY <1>8, <2>1, <2>2, <2>3, <2>4, FrameKinds DEF IdsOK
<1>10. IdsOK(c)'
  <2>1. \A i \in Nat : i <= nextId[c] => i <= n
    BY <1>5
  <2>2. n <= n
    BY <1>5
  <2>3. \A i \in DOMAIN up'[c] : up'[c][i].id <= n
    BY <2>1, <2>2, <1>6, <1>7, <1>9 DEF OneMore
  <2> QED
    BY <2>1, <2>3, <1>1, <1>9 DEF IdsOK
<1>11. ASSUME NEW d \in Thread PROVE AnswerOK(c, d)'
  <2> DEFINE New(k, v) == \E x \in Base(c)'..sblock' : v = chain'[x][k]
  <2>1. \A k, v : Fresh(c, k, v) => New(k, v)
    BY <1>4, QuietKeepsBase
  <2>2. handler[c].pc \in {"fetch", "reply"} => handler[c] # Idle
    BY DEF Idle
  <2>3. CASE d = t
    <3>1. call'[c][d].pc = "waiting" /\ call'[c][d].id = n /\ call'[c][d].key = q
      BY <2>3, <1>1
    <3>2. \A i \in DOMAIN up'[c] : up'[c][i].id = n => up'[c][i].key = q
      BY <1>6, <1>7, <1>9 DEF OneMore
    <3>3. n <= n /\ (handler[c].pc \in {"fetch", "reply"} => handler[c].id # n)
      BY <2>2, <1>5, <1>9
    <3>4. \A i \in DOMAIN down'[c] : down'[c][i].type = "response" => down'[c][i].id # n
      BY <1>1, <1>9
    <3> QED
      BY <3>1, <3>2, <3>3, <3>4, <1>1 DEF AnswerOK
  <2>4. CASE d # t
    <3> DEFINE w == call[c][d]
    <3>1. call'[c][d] = w /\ AnswerOK(c, d)
      BY <2>4, <1>1 DEF SyncInv, ClientOK
    <3>2. ASSUME w.pc = "waiting"
          PROVE  /\ w.id <= n
                 /\ \A i \in DOMAIN up'[c] : up'[c][i].id = w.id => up'[c][i].key = w.key
                 /\ handler[c].pc = "fetch" /\ handler[c].id = w.id =>
                       handler[c].key = w.key /\ block[c] <= handler[c].block
                 /\ handler[c].pc = "reply" /\ handler[c].id = w.id /\ handler[c].val # Failed =>
                       New(w.key, handler[c].val)
                 /\ \A i \in DOMAIN down[c] :
                       down[c][i].type = "response" /\ down[c][i].id = w.id /\ down[c][i].val # Failed =>
                          New(w.key, down[c][i].val)
      <4>1. w \in WaitingCall
        BY <3>2, CallKinds
      <4>2. w.id \in Nat /\ w.id <= nextId[c]
        BY <4>1, <3>1, <3>2, Numbers DEF WaitingCall, Id, AnswerOK
      <4>3. w.id <= n /\ w.id # n
        BY <4>2, <1>5
      <4>4. \A i \in DOMAIN up[c] : up[c][i].id = w.id => up[c][i].key = w.key
        BY <3>1, <3>2 DEF AnswerOK
      <4>5. \A i \in DOMAIN up'[c] : up'[c][i].id = w.id => up'[c][i].key = w.key
        BY <4>3, <4>4, <1>6, <1>7 DEF OneMore
      <4>6. /\ handler[c].pc = "fetch" /\ handler[c].id = w.id =>
                  handler[c].key = w.key /\ block[c] <= handler[c].block
            /\ handler[c].pc = "reply" /\ handler[c].id = w.id /\ handler[c].val # Failed =>
                  Fresh(c, w.key, handler[c].val)
            /\ \A i \in DOMAIN down[c] :
                  down[c][i].type = "response" /\ down[c][i].id = w.id /\ down[c][i].val # Failed =>
                     Fresh(c, w.key, down[c][i].val)
        BY <3>1, <3>2 DEF AnswerOK
      <4> QED
        BY <4>3, <4>5, <4>6, <2>1
    <3>3. ASSUME w.pc = "fetched" PROVE New(w.key, w.val)
      BY <3>1, <3>3, <2>1 DEF AnswerOK
    <3> QED
      BY <3>1, <3>2, <3>3, <1>1 DEF AnswerOK, Fresh
  <2> QED
    BY <2>3, <2>4
<1> QED
  BY <1>4, <1>10, <1>11, QuietKeepsClient

\* The answer is still fresh when the goroutine stores it.
LEMMA StoreKeepsClient ==
    ASSUME SyncInv, NEW c \in Client, NEW t \in Thread, StoreBackfill(c, t),
           UNCHANGED <<nodeVars, serverVars>>
    PROVE  ClientOK(c)'
<1> DEFINE w == call[c][t]
<1>1. /\ w.pc = "fetched" /\ backfill'[c] = [backfill[c] EXCEPT ![w.key] = w.val]
      /\ call'[c][t] = Quoting /\ \A d \in Thread : d # t => call'[c][d] = call[c][d]
      /\ UNCHANGED <<conn, up, down, dump, handler, chain, sblock, ready, live, nextId, primary,
                     block, pushCh, overflow, applying, lost>>
  BY DEF StoreBackfill, SyncInv, LiveTypeOK, serverVars, nodeVars, wireVars
<1>2. ClientOK(c) /\ live[c] /\ conn[c] \notin {"none", "subscribing"}
  BY <1>1, CallKinds DEF SyncInv, ClientOK, NotYetLive
<1>3. Base(c)' = Base(c) /\ Held(c)' = Held(c) /\ (Attached(c)' <=> Attached(c)) /\ HistoryKept
  BY <1>1 DEF Base, Held, Attached, HistoryKept
<1>4. Among(up'[c], up[c]) /\ OneMore(down'[c], down[c], [type |-> "block_diff", block |-> 0])
  BY <1>1 DEF Among, OneMore
<1>5. IdsOK(c)'
  BY <1>1, <1>4, IdsKept
<1>6. sblock' \in Nat /\ sblock <= sblock'
  BY <1>1, Numbers
<1>7. ASSUME Attached(c)
      PROVE  \A k, v : Fresh(c, k, v) => \E x \in Base(c)'..sblock' : v = chain'[x][k]
  BY <1>3, <1>6, <1>7, FreshGrows
<1>8. ASSUME conn[c] = "subscribed", NEW d \in Thread PROVE AnswerOK(c, d)'
  <2>1. CASE d = t
    BY <2>1, <1>1, NoAnswer
  <2>2. CASE d # t
    <3>1. AnswerOK(c, d) /\ call'[c][d] = call[c][d]
      BY <2>2, <1>1, <1>2, <1>8 DEF ClientOK
    <3>2. Attached(c)
      BY <1>2, <1>8 DEF Attached
    <3> QED
      BY <3>1, <3>2, <1>1, <1>4, <1>7, AnswerKept
  <2> QED
    BY <2>1, <2>2
<1>9. ASSUME Attached(c) PROVE StreamOK(c)'
  <2>1. StreamOK(c) /\ Fresh(c, w.key, w.val) /\ w.key \in Key
    <3>1. conn[c] = "subscribed" /\ w \in FetchedCall /\ w # Out
      BY <1>1, <1>9, CallKinds DEF Attached
    <3> QED
      BY <3>1, <1>1, <1>9, BaseTypes, WaitingIsLive DEF AnswerOK, FetchedCall
  <2>2. Rising(down'[c])
    BY <2>1, <1>1 DEF StreamOK, Ordered
  <2>3. Ordered(c)' /\ Pending(c)' = Pending(c)
    BY <1>1, <1>9, <1>3, <2>2, OrderKept
  <2>4. Complete(c)' /\ (Base(c) <= sblock)'
    BY <2>1, <2>3, <1>1, <1>3 DEF StreamOK, Complete, Diff
  <2>5. FreshLayers(c)'
    <3> SUFFICES ASSUME NEW k \in SlotKey, k \notin lost[c]
                 PROVE  /\ Held(c)[k] # Absent => \E x \in Base(c)'..sblock' : Held(c)[k] = chain'[x][k]
                        /\ backfill'[c][k] # Absent => \E x \in Base(c)'..sblock' : backfill'[c][k] = chain'[x][k]
      BY <1>1, <1>3 DEF FreshLayers, Fresh, Kept
    <3>1. k \in Kept(c) /\ k \in Key
      BY DEF Kept, Key
    <3>2. /\ Held(c)[k] # Absent => Fresh(c, k, Held(c)[k])
          /\ backfill[c][k] # Absent => Fresh(c, k, backfill[c][k])
      BY <3>1, <2>1 DEF StreamOK, FreshLayers
    <3>3. backfill[c] \in [Key -> Value \cup {Absent}]
      BY ClientTypes DEF Layer
    <3>4. backfill'[c][k] = IF k = w.key THEN w.val ELSE backfill[c][k]
      BY <3>1, <3>3, <1>1
    <3>5. backfill'[c][k] # Absent => Fresh(c, k, backfill'[c][k])
      BY <3>2, <3>4, <2>1
    <3> QED
      BY <3>2, <3>5, <1>7, <1>9
  <2> QED
    BY <2>3, <2>4, <2>5 DEF StreamOK
<1>10. FrozenOK(c)'
  BY <1>1, <1>2, <1>3 DEF ClientOK, FrozenOK
<1> QED
  BY <1>1, <1>2, <1>3, <1>5, <1>8, <1>9, <1>10 DEF ClientOK

\* A closed connection follows nothing.
LEMMA CloseKeepsClient ==
    ASSUME SyncInv, NEW c \in Client, Close(c), UNCHANGED <<nodeVars, serverVars>>
    PROVE  ClientOK(c)'
<1>1. /\ conn'[c] = "closed" /\ up'[c] = <<>> /\ down'[c] = <<>> /\ dump'[c] = NoDump
      /\ \A t \in Thread : call'[c][t] = IF call[c][t].pc = "waiting" THEN Quoting ELSE call[c][t]
      /\ UNCHANGED <<handler, live, nextId, primary, backfill, block, pushCh, overflow, applying, lost>>
  BY DEF Close, SyncInv, LiveTypeOK, ServerInv, TypeOK, WireTypeOK, serverVars
<1>2. ClientOK(c)
  BY DEF SyncInv
<1>3. IdsOK(c)'
  BY <1>1, <1>2 DEF ClientOK, IdsOK
<1>4. (~live[c] => NotYetLive(c))'
  <2>1. Out.pc # "waiting"
    BY DEF Out
  <2> QED
    BY <2>1, <1>1, <1>2 DEF ClientOK, NotYetLive
<1>5. ~Attached(c)'
  BY <1>1 DEF Attached
<1> QED
  BY <1>1, <1>3, <1>4, <1>5 DEF ClientOK, FrozenOK

-----------------------------------------------------------------------------
\* A step of one client leaves the others alone.
ClientStep(c) ==
    \/ Dial(c) \/ LoadDump(c) \/ ReadPush(c) \/ DropOldest(c) \/ ReadResponse(c)
    \/ TakePush(c) \/ ApplyBlockDiff(c) \/ Close(c)
    \/ \E t \in Thread :
          \/ RLock(c, t) \/ StoreBackfill(c, t) \/ Timeout(c, t) \/ RUnlock(c, t)
          \/ \E k \in Key : Fetch(c, t, k)

\* Clients share nothing but the server.
LEMMA OthersUntouched ==
    ASSUME SyncInv, NEW c \in Client, NEW d \in Client, d # c,
           ClientStep(c) /\ UNCHANGED <<nodeVars, serverVars>>
    PROVE  Untouched(d) /\ sblock' = sblock /\ ready' = ready /\ HistoryKept
<1>1. UNCHANGED <<chain, sblock, ready, handler>>
  BY DEF nodeVars, serverVars
<1>2. HistoryKept
  BY <1>1 DEF HistoryKept
<1>3. /\ d \in DOMAIN conn /\ d \in DOMAIN up /\ d \in DOMAIN down /\ d \in DOMAIN dump
      /\ d \in DOMAIN live /\ d \in DOMAIN primary /\ d \in DOMAIN backfill /\ d \in DOMAIN block
      /\ d \in DOMAIN pushCh /\ d \in DOMAIN overflow /\ d \in DOMAIN applying /\ d \in DOMAIN call
      /\ d \in DOMAIN lost
  BY DEF SyncInv, LiveTypeOK, ServerInv, TypeOK, WireTypeOK
<1>4. ASSUME \/ Dial(c) \/ LoadDump(c) \/ ReadPush(c) \/ DropOldest(c) \/ ReadResponse(c)
             \/ TakePush(c) \/ ApplyBlockDiff(c) \/ Close(c)
      PROVE  Untouched(d)
  <2>1. CASE Dial(c)
    BY <1>1, <1>3, <2>1 DEF Dial, Untouched, liveVars
  <2>2. CASE LoadDump(c)
    BY <1>1, <1>3, <2>2 DEF LoadDump, Untouched
  <2>3. CASE ReadPush(c)
    <3>1. pushCh'[d] = pushCh[d] /\ overflow'[d] = overflow[d] /\ down'[d] = down[d]
      BY <1>3, <2>3 DEF ReadPush
    <3> QED
      BY <1>1, <2>3, <3>1 DEF ReadPush, Untouched
  <2>4. CASE DropOldest(c)
    <3>1. pushCh'[d] = pushCh[d] /\ overflow'[d] = overflow[d] /\ lost'[d] = lost[d]
      BY <1>3, <2>4 DEF DropOldest
    <3> QED
      BY <1>1, <2>4, <3>1 DEF DropOldest, Untouched, wireVars
  <2>5. CASE ReadResponse(c)
    <3>1. call'[d] = call[d] /\ down'[d] = down[d]
      BY <1>3, <2>5 DEF ReadResponse
    <3> QED
      BY <1>1, <2>5, <3>1 DEF ReadResponse, Untouched
  <2>6. CASE TakePush(c)
    BY <1>1, <1>3, <2>6 DEF TakePush, Untouched, wireVars
  <2>7. CASE ApplyBlockDiff(c)
    <3>1. /\ primary'[d] = primary[d] /\ backfill'[d] = backfill[d] /\ block'[d] = block[d]
          /\ applying'[d] = applying[d]
      BY <1>3, <2>7 DEF ApplyBlockDiff
    <3> QED
      BY <1>1, <2>7, <3>1 DEF ApplyBlockDiff, Untouched, wireVars
  <2>8. CASE Close(c)
    <3>1. /\ conn'[d] = conn[d] /\ up'[d] = up[d] /\ down'[d] = down[d] /\ dump'[d] = dump[d]
          /\ call'[d] = call[d]
      BY <1>3, <2>8 DEF Close
    <3> QED
      BY <1>1, <2>8, <3>1 DEF Close, Untouched
  <2> QED
    BY <1>4, <2>1, <2>2, <2>3, <2>4, <2>5, <2>6, <2>7, <2>8
<1>5. ASSUME NEW t \in Thread, RLock(c, t) \/ StoreBackfill(c, t) \/ Timeout(c, t) \/ RUnlock(c, t)
      PROVE  Untouched(d)
  BY <1>1, <1>5 DEF RLock, StoreBackfill, Timeout, RUnlock, Untouched, wireVars, SyncInv, LiveTypeOK
<1>6. ASSUME NEW t \in Thread, NEW k \in Key, Fetch(c, t, k) PROVE Untouched(d)
  BY <1>1, <1>6 DEF Fetch, Untouched, SyncInv, LiveTypeOK, ServerInv, TypeOK, WireTypeOK
<1> QED
  BY <1>1, <1>2, <1>4, <1>5, <1>6 DEF ClientStep

\* A connection's requests: the server's work for one client.
Serving(c) == Subscribe(c) \/ LookupRequest(c) \/ FinishFetch(c) \/ FailFetch(c) \/ Reply(c)

\* Serving one client does not touch another.
LEMMA OthersUnserved ==
    ASSUME SyncInv, NEW c \in Client, NEW d \in Client, d # c,
           Serving(c) /\ UNCHANGED <<nodeVars, liveVars>>
    PROVE  Untouched(d) /\ sblock' = sblock /\ ready' = ready /\ HistoryKept
<1>1. /\ UNCHANGED <<chain, live, nextId, primary, backfill, block, pushCh, overflow, applying, call, lost>>
      /\ UNCHANGED <<sblock, ready>>
  BY DEF nodeVars, liveVars, Serving, Subscribe, LookupRequest, FinishFetch, FailFetch, Reply, serverVars
<1>2. HistoryKept
  BY <1>1 DEF HistoryKept
<1>3. UNCHANGED <<conn[d], up[d], down[d], dump[d], handler[d]>>
  BY DEF Serving, Subscribe, LookupRequest, FinishFetch, FailFetch, Reply, serverVars, wireVars,
     SyncInv, ServerInv, TypeOK, WireTypeOK, ServerTypeOK
<1> QED
  BY <1>1, <1>2, <1>3 DEF Untouched

\* Every step keeps every client right.
LEMMA ClientsKept ==
    ASSUME SyncInv, Next, NEW c \in Client
    PROVE  ClientOK(c)'
<1>1. CASE MineBlock
  BY <1>1, MineKeepsClients
<1>2. CASE ServerStep /\ UNCHANGED <<nodeVars, liveVars>>
  <2>1. CASE (StartBlockLoop \/ StartFrozen) /\ UNCHANGED wireVars
    BY <2>1, <1>2, StartKeepsClients
  <2>2. CASE \E n \in Block : NewHead(n) /\ UNCHANGED wireVars
    BY <2>2, <1>2, NewHeadKeepsClients
  <2>3. CASE ProcessBlock
    BY <2>3, <1>2, ProcessBlockKeepsClients
  <2>4. ASSUME NEW d \in Client, Serving(d) PROVE ClientOK(c)'
    <3>1. CASE d = c
      BY <3>1, <2>4, <1>2, SubscribeKeepsClient, LookupKeepsClient, FinishKeepsClient, ReplyKeepsClient
      DEF Serving
    <3>2. CASE d # c
      BY <3>2, <2>4, <1>2, OthersUnserved, UntouchedKeepsClient
    <3> QED
      BY <3>1, <3>2
  <2> QED
    BY <2>1, <2>2, <2>3, <2>4, <1>2 DEF ServerStep, Serving
<1>3. CASE LiveStep /\ UNCHANGED <<nodeVars, serverVars>>
  <2>1. PICK d \in Client : ClientStep(d)
    BY <1>3 DEF LiveStep, ClientStep
  <2>2. CASE d = c
    <3>1. CASE Dial(c) \/ LoadDump(c) \/ ReadPush(c) \/ DropOldest(c) \/ ReadResponse(c)
               \/ TakePush(c) \/ ApplyBlockDiff(c) \/ Close(c)
      BY <3>1, <1>3, DialKeepsClient, LoadDumpKeepsClient, ReadPushKeepsClient, DropOldestKeepsClient,
         ReadResponseKeepsClient, TakePushKeepsClient, ApplyKeepsClient, CloseKeepsClient
    <3>2. ASSUME NEW t \in Thread,
                 \/ RLock(c, t) \/ StoreBackfill(c, t) \/ Timeout(c, t) \/ RUnlock(c, t)
                 \/ \E k \in Key : Fetch(c, t, k)
          PROVE  ClientOK(c)'
      BY <3>2, <1>3, CallStepKeepsClient, StoreKeepsClient, FetchKeepsClient
    <3> QED
      BY <3>1, <3>2, <2>1, <2>2 DEF ClientStep
  <2>3. CASE d # c
    BY <2>1, <2>3, <1>3, OthersUntouched, UntouchedKeepsClient
  <2> QED
    BY <2>2, <2>3
<1> QED
  BY <1>1, <1>2, <1>3 DEF Next

-----------------------------------------------------------------------------
(***************************************************************************)
(* A client's steps keep the types of its state and of the wire.           *)
(***************************************************************************)
LEMMA ClientStepTypes ==
    ASSUME SyncInv, NEW c \in Client, ClientStep(c)
    PROVE  LiveTypeOK' /\ WireTypeOK'
<1> USE DEF LiveTypeOK, WireTypeOK
<1>1. LiveTypeOK /\ WireTypeOK
  BY DEF SyncInv, ServerInv, TypeOK
<1>2. Out \in Calls /\ Quoting \in Calls
  BY DEF Calls
<1>3. CASE Dial(c)
  BY <1>1, <1>3 DEF Dial, liveVars, ConnState
<1>4. CASE LoadDump(c)
  <2>1. dump[c].block \in Block /\ dump[c].state \in Layer
    <3>1. dump[c] \in Dump
      BY <1>1, <1>4 DEF LoadDump
    <3> QED
      BY <3>1 DEF Dump, Layer
  <2> QED
    BY <1>1, <1>4, <2>1 DEF LoadDump
<1>5. CASE ReadPush(c)
  <2> DEFINE b == Head(down[c]).block
  <2>1. b \in Block /\ Tail(down[c]) \in Seq(Frame) /\ Append(pushCh[c], b) \in Seq(Block)
    <3>1. Head(down[c]) \in Frame /\ Tail(down[c]) \in Seq(Frame) /\ Head(down[c]).type = "block_diff"
      BY <1>5, ClientTypes, DiffsOfTail DEF ReadPush
    <3>2. b \in Block
      BY <3>1, FrameKinds
    <3> QED
      BY <3>1, <3>2, ClientTypes, MembersOfAppend
  <2>2. /\ pushCh' \in [Client -> Seq(Block)] /\ overflow' \in [Client -> Block \cup {NoBlock}]
        /\ down' \in [Client -> Seq(Frame)]
    BY <1>1, <1>5, <2>1 DEF ReadPush
  <2> QED
    BY <1>1, <1>5, <2>2 DEF ReadPush
<1>6. CASE DropOldest(c)
  <2>1. overflow[c] \in Block /\ pushCh[c] \in Seq(Block) /\ lost[c] \in SUBSET Key
    BY <1>6, ClientTypes DEF DropOldest
  <2>2. pushCh[c] # <<>> => Append(Tail(pushCh[c]), overflow[c]) \in Seq(Block)
    BY <2>1
  <2>3. <<overflow[c]>> \in Seq(Block)
    BY <2>1
  <2>4. pushCh' \in [Client -> Seq(Block)]
    BY <1>1, <1>6, <2>2, <2>3 DEF DropOldest
  <2>5. \A b : lost[c] \cup Diff(b) \in SUBSET Key
    BY <2>1 DEF Diff
  <2>6. lost' \in [Client -> SUBSET Key]
    <3> DEFINE more == lost[c] \cup Diff(Head(pushCh[c]))
    <3>1. more \in SUBSET Key /\ (lost' = lost \/ lost' = [lost EXCEPT ![c] = more])
      BY <1>6, <2>5 DEF DropOldest
    <3> HIDE DEF more
    <3> QED
      BY <1>1, <3>1
  <2>7. overflow' \in [Client -> Block \cup {NoBlock}]
    BY <1>1, <1>6 DEF DropOldest
  <2> QED
    BY <1>1, <1>6, <2>4, <2>6, <2>7 DEF DropOldest, wireVars
<1>7. CASE ReadResponse(c)
  <2> DEFINE r == Head(down[c])
             row == [t \in Thread |-> IF call[c][t].pc = "waiting" /\ call[c][t].id = r.id
                                      THEN Resume(c, t, r.val) ELSE call[c][t]]
  <2>1. r \in Frame /\ Tail(down[c]) \in Seq(Frame) /\ r.type = "response"
    BY <1>7, ClientTypes, DiffsOfTail DEF ReadResponse
  <2>2. r.val \in Value \cup {Failed}
    BY <2>1, FrameKinds
  <2>3. ASSUME NEW t \in Thread PROVE row[t] \in Calls
    <3>1. CASE call[c][t].pc = "waiting" /\ call[c][t].id = r.id /\ r.val # Failed
      <4>1. call[c][t] \in WaitingCall
        BY <3>1, CallKinds
      <4>2. row[t] \in FetchedCall
        BY <3>1, <4>1, <2>2 DEF Resume, WaitingCall, FetchedCall
      <4> QED
        BY <4>2 DEF Calls
    <3>2. CASE call[c][t].pc = "waiting" /\ call[c][t].id = r.id /\ r.val = Failed
      BY <3>2, <1>2 DEF Resume
    <3>3. CASE ~(call[c][t].pc = "waiting" /\ call[c][t].id = r.id)
      BY <3>3, ClientTypes
    <3> QED
      BY <3>1, <3>2, <3>3
  <2>4. row \in [Thread -> Calls] /\ call' = [call EXCEPT ![c] = row]
    BY <2>3, <1>7 DEF ReadResponse
  <2> HIDE DEF row
  <2>5. call' \in [Client -> [Thread -> Calls]]
    BY <1>1, <2>4
  <2>6. down' \in [Client -> Seq(Frame)]
    BY <1>1, <1>7, <2>1 DEF ReadResponse
  <2> QED
    BY <1>1, <1>7, <2>5, <2>6 DEF ReadResponse
<1>8. CASE TakePush(c)
  <2>1. Head(pushCh[c]) \in Block /\ Tail(pushCh[c]) \in Seq(Block)
    BY <1>8, ClientTypes, MembersOfTail DEF TakePush
  <2>2. applying' \in [Client -> Block \cup {NoBlock}] /\ pushCh' \in [Client -> Seq(Block)]
    BY <1>1, <1>8, <2>1 DEF TakePush
  <2> QED
    BY <1>1, <1>8, <2>2 DEF TakePush, wireVars
<1>9. CASE ApplyBlockDiff(c)
  <2> DEFINE b == applying[c]
  <2>1. b \in Block /\ primary[c] \in Layer /\ backfill[c] \in Layer
    BY <1>9, ClientTypes DEF ApplyBlockDiff
  <2>2. Merged(c, b) \in Layer /\ Empty \in Layer
    <3>1. \A k \in Key : chain[b][k] \in Value
      BY <2>1, Numbers DEF Value
    <3>2. Merged(c, b) = [k \in Key |-> IF k \in Entries(b) THEN chain[b][k]
                                         ELSE IF backfill[c][k] # Absent THEN backfill[c][k]
                                         ELSE primary[c][k]]
      BY DEF Merged
    <3> QED
      BY <2>1, <3>1, <3>2 DEF Layer, Empty
  <2>3. /\ primary' \in [Client -> Layer] /\ backfill' \in [Client -> Layer] /\ block' \in [Client -> Block]
        /\ applying' \in [Client -> Block \cup {NoBlock}]
    BY <1>1, <1>9, <2>1, <2>2 DEF ApplyBlockDiff
  <2> QED
    BY <1>1, <1>9, <2>3 DEF ApplyBlockDiff, wireVars
<1>10. CASE Close(c)
  <2> DEFINE row == [t \in Thread |-> IF call[c][t].pc = "waiting" THEN Quoting ELSE call[c][t]]
  <2>1. row \in [Thread -> Calls] /\ call' = [call EXCEPT ![c] = row]
    BY <1>2, <1>10, ClientTypes DEF Close
  <2> HIDE DEF row
  <2>2. call' \in [Client -> [Thread -> Calls]]
    BY <1>1, <2>1
  <2>3. /\ conn' \in [Client -> ConnState] /\ up' \in [Client -> Seq(Request)]
        /\ down' \in [Client -> Seq(Frame)] /\ dump' \in [Client -> Dump \cup {NoDump}]
    BY <1>1, <1>10 DEF Close, ConnState
  <2> QED
    BY <1>1, <1>10, <2>2, <2>3 DEF Close
<1>11. ASSUME NEW t \in Thread, RLock(c, t) \/ Timeout(c, t) \/ RUnlock(c, t)
       PROVE  LiveTypeOK' /\ WireTypeOK'
  <2>1. PICK q \in {Out, Quoting} : call' = [call EXCEPT ![c][t] = q]
    BY <1>11 DEF RLock, Timeout, RUnlock
  <2>2. q \in Calls
    BY <2>1, <1>2
  <2>3. call' \in [Client -> [Thread -> Calls]]
    BY <1>1, <2>1, <2>2
  <2> QED
    BY <1>1, <1>11, <2>3 DEF RLock, Timeout, RUnlock, wireVars
<1>12. ASSUME NEW t \in Thread, StoreBackfill(c, t) PROVE LiveTypeOK' /\ WireTypeOK'
  <2>1. call[c][t].key \in Key /\ call[c][t].val \in Value
    BY <1>12, CallKinds DEF StoreBackfill, FetchedCall
  <2>2. backfill' \in [Client -> Layer]
    BY <1>1, <1>12, <2>1 DEF StoreBackfill, Layer
  <2>3. call' \in [Client -> [Thread -> Calls]]
    BY <1>1, <1>2, <1>12 DEF StoreBackfill
  <2> QED
    BY <1>1, <1>12, <2>2, <2>3 DEF StoreBackfill, wireVars
<1>13. ASSUME NEW t \in Thread, NEW k \in Key, Fetch(c, t, k) PROVE LiveTypeOK' /\ WireTypeOK'
  <2> DEFINE n == nextId[c] + 1
  <2>1. n \in Id /\ n \in 0..MaxCalls
    BY <1>1, <1>13, Numbers DEF Fetch, Id
  <2>2. [id |-> n, key |-> k] \in Request /\ [pc |-> "waiting", id |-> n, key |-> k] \in Calls
    BY <2>1 DEF Request, Calls, WaitingCall
  <2>3. nextId' \in [Client -> 0..MaxCalls]
    BY <1>1, <1>13, <2>1 DEF Fetch
  <2>4. up' \in [Client -> Seq(Request)]
    BY <1>1, <1>13, <2>2 DEF Fetch
  <2>5. call' \in [Client -> [Thread -> Calls]]
    BY <1>1, <1>13, <2>2 DEF Fetch
  <2> QED
    BY <1>1, <1>13, <2>3, <2>4, <2>5 DEF Fetch
<1> QED
  BY <1>3, <1>4, <1>5, <1>6, <1>7, <1>8, <1>9, <1>10, <1>11, <1>12, <1>13 DEF ClientStep

-----------------------------------------------------------------------------
\* The initial states.
LEMMA InitSyncInv == Init => SyncInv
<1> SUFFICES ASSUME Init PROVE SyncInv
  OBVIOUS
<1>1. ServerInv
  BY InitServerInv DEF Init
<1>2. LiveTypeOK
  <2>1. Out \in Calls /\ Empty \in Layer /\ 0 \in 0..MaxCalls /\ 0 \in Block /\ <<>> \in Seq(Block)
    BY WireAssumption DEF Calls, Empty, Layer, Block
  <2> QED
    BY <2>1 DEF Init, LiveInit, LiveTypeOK
<1>3. ASSUME NEW c \in Client PROVE ClientOK(c)
  <2>1. /\ conn[c] = "none" /\ up[c] = <<>> /\ down[c] = <<>> /\ dump[c] = NoDump /\ handler[c] = Idle
        /\ live[c] = FALSE /\ NotYetLive(c)
    BY DEF Init, WireInit, ServerInit, LiveInit, NotYetLive
  <2>2. IdsOK(c)
    BY <2>1 DEF IdsOK
  <2>3. ~Attached(c)
    BY <2>1 DEF Attached
  <2> QED
    BY <2>1, <2>2, <2>3 DEF ClientOK, FrozenOK
<1>4. latest = 0
  BY DEF Init, ServerInit
<1> QED
  BY <1>1, <1>2, <1>3, <1>4 DEF SyncInv

\* The invariant is inductive.
LEMMA NextSyncInv == SyncInv /\ [Next]_vars => SyncInv'
<1> SUFFICES ASSUME SyncInv, [Next]_vars PROVE SyncInv'
  OBVIOUS
<1>1. CASE Next
  <2>1. (\A c \in Client : ClientOK(c))'
    BY <1>1, ClientsKept
  <2>2. CASE MineBlock
    <3>1. UNCHANGED <<serverVars, wireVars, liveVars>>
      BY <2>2 DEF MineBlock
    <3>2. ServerInv'
      BY <2>2, <3>1, MineKeepsServerInv DEF MineBlock, SyncInv
    <3>3. LiveTypeOK' /\ (ready # "live" => latest = 0)'
      BY <3>1 DEF liveVars, serverVars, SyncInv, LiveTypeOK
    <3> QED
      BY <2>1, <3>2, <3>3 DEF SyncInv
  <2>3. CASE ServerStep /\ UNCHANGED <<nodeVars, liveVars>>
    <3>1. ServerInv'
      BY <2>3, ServerStepKeepsInv DEF SyncInv
    <3>2. LiveTypeOK'
      BY <2>3 DEF liveVars, SyncInv, LiveTypeOK
    <3>3. (ready # "live" => latest = 0)'
      BY <2>3 DEF SyncInv, ServerStep, StartBlockLoop, StartFrozen, NewHead, ProcessBlock, Subscribe,
         LookupRequest, FinishFetch, FailFetch, Reply, serverVars
    <3> QED
      BY <2>1, <3>1, <3>2, <3>3 DEF SyncInv
  <2>4. CASE LiveStep /\ UNCHANGED <<nodeVars, serverVars>>
    <3>1. LiveTypeOK' /\ WireTypeOK'
      BY <2>4, ClientStepTypes DEF LiveStep, ClientStep
    <3>2. ServerInv'
      BY <2>4, <3>1, ClientsKeepServerInv DEF SyncInv
    <3>3. (ready # "live" => latest = 0)'
      BY <2>4 DEF serverVars, SyncInv
    <3> QED
      BY <2>1, <3>1, <3>2, <3>3 DEF SyncInv
  <2> QED
    BY <1>1, <2>2, <2>3, <2>4 DEF Next
<1>2. CASE UNCHANGED vars
  <2>1. UNCHANGED <<nodeVars, serverVars, wireVars, liveVars>>
    BY <1>2 DEF vars
  <2>2. LiveTypeOK' /\ WireTypeOK'
    BY <2>1 DEF SyncInv, LiveTypeOK, ServerInv, TypeOK, WireTypeOK, liveVars, wireVars
  <2>3. ServerInv' /\ (ready # "live" => latest = 0)'
    BY <2>1, <2>2, ClientsKeepServerInv DEF SyncInv, serverVars
  <2>4. ASSUME NEW c \in Client PROVE ClientOK(c)'
    <3>1. Untouched(c) /\ sblock' = sblock /\ ready' = ready /\ HistoryKept
      BY <2>1 DEF Untouched, HistoryKept, nodeVars, serverVars, wireVars, liveVars
    <3> QED
      BY <3>1, UntouchedKeepsClient
  <2> QED
    BY <2>2, <2>3, <2>4 DEF SyncInv
<1> QED
  BY <1>1, <1>2

-----------------------------------------------------------------------------
\* What a quote reads is fresh.
LEMMA ViewFresh ==
    ASSUME SyncInv, NEW c \in Client, NEW k \in Kept(c), Following(c), View(c, k) # Absent
    PROVE  /\ Attached(c) /\ Base(c) = block[c] /\ k \in SlotKey /\ k \in Key /\ k \notin lost[c]
           /\ Fresh(c, k, View(c, k))
<1>1. Attached(c) /\ Base(c) = block[c] /\ Held(c) = primary[c]
  BY DEF Following, Attached, Base, Held
<1>2. FreshLayers(c)
  BY <1>1, BaseTypes DEF StreamOK
<1>3. Fresh(c, k, View(c, k))
  BY <1>1, <1>2 DEF FreshLayers, View
<1> QED
  BY <1>1, <1>3 DEF Kept, Key

\* What a quote reads lies between the two blocks.
LEMMA SyncInvNeverOlder == SyncInv => NeverOlderThanBlock
<1> SUFFICES ASSUME SyncInv, NEW c \in Client, NEW k \in SlotKey,
                    Following(c), k \in Kept(c), View(c, k) # Absent
             PROVE  \E x \in block[c]..sblock : View(c, k) = chain[x][k]
  BY DEF NeverOlderThanBlock
<1> QED
  BY ViewFresh DEF Fresh

\* A stale slot was written by a block whose diff is still on its way.
LEMMA SyncInvStaleIsPending == SyncInv => StaleIsPending
<1> SUFFICES ASSUME SyncInv, NEW c \in Client, NEW k \in SlotKey, Following(c), k \in Kept(c),
                    View(c, k) \notin {Absent, chain[sblock][k]},
                    ~\E b \in Pending(c) : k \in Diff(b)
             PROVE  FALSE
  BY DEF StaleIsPending
<1>1. Attached(c) /\ k \in Key /\ k \notin lost[c] /\ Fresh(c, k, View(c, k))
  BY ViewFresh
<1>2. Base(c) \in Nat /\ sblock \in Nat /\ Complete(c)
  BY <1>1, BaseTypes, Numbers DEF StreamOK
<1>3. PICK x \in Base(c)..sblock : View(c, k) = chain[x][k]
  BY <1>1 DEF Fresh
<1>4. x \in Nat /\ x < sblock
  <2>1. x # sblock
    BY <1>3
  <2> QED
    BY <1>2, <2>1
<1>5. ASSUME NEW w \in x + 1 .. sblock PROVE k \notin Diff(w)
  <2>1. w \in Base(c) + 1 .. sblock
    BY <1>2, <1>3, <1>4
  <2> QED
    BY <2>1, <1>1, <1>2 DEF Complete
<1>6. chain[x][k] = chain[sblock][k]
  BY <1>1, <1>2, <1>4, <1>5, UnwrittenUpTo
<1> QED
  BY <1>3, <1>6

\* At a frozen endpoint the two blocks are the same.
LEMMA SyncInvFrozen == SyncInv => FrozenIsOneBlock
<1> SUFFICES ASSUME SyncInv, ready = "frozen", NEW c \in Client, Following(c)
             PROVE  \E x \in Block : \A k \in SlotKey : View(c, k) \in {Absent, chain[x][k]}
  BY DEF FrozenIsOneBlock, NoHalfAppliedBlock
<1>1. Attached(c)
  BY DEF Following, Attached
<1>2. Base(c) = sblock /\ lost[c] = {}
  BY <1>1 DEF SyncInv, ClientOK, FrozenOK
<1>3. sblock \in Block /\ sblock \in Nat
  BY Numbers DEF SyncInv, ServerInv, TypeOK, ServerTypeOK
<1>4. ASSUME NEW k \in SlotKey, View(c, k) # Absent PROVE View(c, k) = chain[sblock][k]
  <2>1. k \in Kept(c)
    BY <1>2 DEF Kept
  <2>2. PICK x \in Base(c)..sblock : View(c, k) = chain[x][k]
    BY <2>1, <1>4, ViewFresh DEF Fresh
  <2> QED
    BY <2>2, <1>2, <1>3
<1> QED
  BY <1>3, <1>4

-----------------------------------------------------------------------------
\* The inductive invariant holds: the wire, the layers, the queues and the
\* requests in flight of every client fit the server's cache and the chain.
LEMMA SyncInvariant == Spec => []SyncInv
BY InitSyncInv, NextSyncInv, PTL DEF Spec

(***************************************************************************)
(* However fetches, block_diffs and dropped messages interleave, a cached  *)
(* slot that no dropped block_diff wrote has its value at a block between  *)
(* the client's and the server's.                                          *)
(***************************************************************************)
THEOREM SyncNeverOlder == Spec => []NeverOlderThanBlock
BY SyncInvariant, SyncInvNeverOlder, PTL

(***************************************************************************)
(* A slot that is behind the server has a block_diff that rewrites it on   *)
(* the wire, in pushCh, or in the hand of the read loop or the consumer.   *)
(***************************************************************************)
THEOREM SyncStaleIsPending == Spec => []StaleIsPending
BY SyncInvariant, SyncInvStaleIsPending, PTL

(***************************************************************************)
(* Behind a /debug endpoint every quote sees the state at one block.       *)
(***************************************************************************)
THEOREM SyncFrozenIsOneBlock == Spec => []FrozenIsOneBlock
BY SyncInvariant, SyncInvFrozen, PTL

=============================================================================
