-------------------------- MODULE StateServerProofs --------------------------
(***************************************************************************)
(* The state server's cache is coherent, for any number of connections,    *)
(* keys, blocks and requests, and whatever the caps.  The first part is    *)
(* about the server's own steps, and holds whatever connects to it: the    *)
(* proofs about its clients use it too.  The second part has the theorems  *)
(* about the server in an open world.                                      *)
(***************************************************************************)
EXTENDS StateServer, FiniteSetTheorems, WellFoundedInduction, TLAPS

(***************************************************************************)
(* Accepting a block leaves the blocks before it alone and keeps the chain *)
(* a history of last writes.                                               *)
(***************************************************************************)
LEMMA MineKeepsChain ==
    ASSUME NodeTypeOK, ChainOK, NEW written \in SUBSET Key, Mine(written)
    PROVE  /\ NodeTypeOK'
           /\ ChainOK'
           /\ head' = head + 1
           /\ \A b \in 0..head : chain'[b] = chain[b]
<1> USE WireAssumption DEF Block
<1>1. head \in 0..MaxBlock /\ head + 1 \in 0..MaxBlock /\ head' = head + 1
  BY DEF NodeTypeOK, Mine
<1>2. chain' \in [Block -> [Key -> Block]]
  <2> DEFINE row == [k \in Key |-> IF k \in written THEN head + 1 ELSE chain[head][k]]
  <2>1. chain[head] \in [Key -> Block]
    BY <1>1 DEF NodeTypeOK
  <2>2. row \in [Key -> Block]
    BY <2>1, <1>1
  <2>3. chain' = [chain EXCEPT ![head + 1] = row]
    BY DEF Mine
  <2> HIDE DEF row
  <2> QED
    BY <2>2, <2>3, <1>1 DEF NodeTypeOK
<1>3. \A b \in 0..head : chain'[b] = chain[b]
  BY <1>1 DEF NodeTypeOK, Mine
<1>4. \A k \in Key : chain'[head + 1][k] = IF k \in written THEN head + 1 ELSE chain[head][k]
  BY <1>1 DEF NodeTypeOK, Mine
<1>5. ChainOK'
  <2> SUFFICES ASSUME NEW b \in 0..head', NEW k \in Key
               PROVE  /\ chain'[b][k] \in 0..b
                      /\ \A w \in chain'[b][k]..b : chain'[w][k] = chain'[b][k]
    BY DEF ChainOK
  <2>1. CASE b \in 0..head
    <3>1. chain'[b] = chain[b] /\ chain[b][k] \in 0..b
      BY <2>1, <1>3 DEF ChainOK
    <3>2. \A w \in chain[b][k]..b : w \in 0..head /\ chain[w][k] = chain[b][k]
      BY <3>1, <2>1, <1>1 DEF ChainOK
    <3> QED
      BY <3>1, <3>2, <1>3
  <2>2. CASE b = head + 1
    <3>1. CASE k \in written
      BY <3>1, <2>2, <1>1, <1>4
    <3>2. CASE k \notin written
      <4>1. chain'[b][k] = chain[head][k] /\ chain[head][k] \in 0..head
        BY <3>2, <2>2, <1>1, <1>4 DEF ChainOK
      <4>2. \A w \in chain[head][k]..head : chain[w][k] = chain[head][k]
        BY <1>1 DEF ChainOK
      <4> QED
        BY <4>1, <4>2, <2>2, <1>1, <1>3
    <3> QED
      BY <3>1, <3>2
  <2> QED
    BY <2>1, <2>2, <1>1
<1> QED
  BY <1>1, <1>2, <1>3, <1>5 DEF NodeTypeOK

(***************************************************************************)
(* Neither a value nor a block number is mistaken for a missing entry.     *)
(***************************************************************************)
LEMMA ValuesPresent == (\A n \in Block : n \in Nat /\ n # Absent) /\ \A v \in Value : v # Absent
<1>1. \A n \in Block : n \in Nat
  BY WireAssumption DEF Block
<1>2. Absent \notin Nat /\ Absent # Zero
  BY WireAssumption
<1> QED
  BY <1>1, <1>2 DEF Value

(***************************************************************************)
(* A block leaves the keys it does not write as the block before it had    *)
(* them.                                                                   *)
(***************************************************************************)
LEMMA UnwrittenKeepsValue ==
    ASSUME NodeTypeOK, ChainOK, NEW b \in 1..head, NEW k \in Key, k \notin Diff(b)
    PROVE  chain[b][k] = chain[b - 1][k]
<1>1. head \in Nat /\ b \in 0..head /\ b - 1 \in 0..b
  BY WireAssumption DEF NodeTypeOK, Block
<1>2. chain[b][k] \in 0..b /\ chain[b][k] # b
  BY <1>1 DEF ChainOK, Diff
<1>3. b - 1 \in chain[b][k]..b
  BY <1>1, <1>2
<1> QED
  BY <1>1, <1>3 DEF ChainOK

-----------------------------------------------------------------------------
\* The server is never ahead of the node and a fetch never ahead of the
\* server; before it is ready it has cached nothing and started no request.
ServerSteady ==
    /\ latest <= head
    /\ sblock <= head
    /\ \A c \in Client : handler[c].pc = "fetch" => handler[c].block <= sblock
    /\ ready = "no" => Cached = {} /\ \A c \in Client : handler[c] = Idle

ServerInv == TypeOK /\ ChainOK /\ ServerSteady /\ CacheCoherent

-----------------------------------------------------------------------------
\* A server that has just been created satisfies its inductive invariant.
LEMMA InitServerInv == NodeInit /\ WireInit /\ ServerInit => ServerInv
<1> SUFFICES ASSUME NodeInit, WireInit, ServerInit PROVE ServerInv
  OBVIOUS
<1> USE WireAssumption DEF NodeInit, WireInit, ServerInit
<1>1. NodeTypeOK /\ WireTypeOK
  BY DEF NodeTypeOK, WireTypeOK, Block, ConnState
<1>2. ServerTypeOK
  <2>1. ready \in {"no", "live", "frozen"}
    OBVIOUS
  <2>2. latest \in Block /\ sblock \in Block /\ cache \in [Key -> Value \cup {Absent}]
    BY DEF Block
  <2>3. handler \in [Client -> {Idle} \cup Fetching \cup Replying]
    OBVIOUS
  <2> QED
    BY <2>1, <2>2, <2>3 DEF ServerTypeOK
<1>3. ChainOK
  BY DEF ChainOK, Block
<1>4. Cached = {}
  BY DEF Cached
<1> QED
  BY <1>1, <1>2, <1>3, <1>4 DEF ServerInv, TypeOK, ServerSteady, CacheCoherent, Idle

-----------------------------------------------------------------------------
(***************************************************************************)
(* The program counter of a handler tells its state.                       *)
(***************************************************************************)
LEMMA HandlerStates ==
    ASSUME ServerTypeOK, NEW c \in Client
    PROVE  /\ handler[c].pc = "fetch" => handler[c] \in Fetching
           /\ handler[c].pc = "reply" => handler[c] \in Replying
<1>1. handler[c] \in {Idle} \cup Fetching \cup Replying
  BY DEF ServerTypeOK
<1>2. Idle.pc = "idle"
  BY DEF Idle
<1>3. \A h \in Fetching : h.pc = "fetch"
  BY DEF Fetching
<1>4. \A h \in Replying : h.pc = "reply"
  BY DEF Replying
<1> QED
  BY <1>1, <1>2, <1>3, <1>4

\* Induction up to n, about a set of natural numbers.
LEMMA CountUp ==
    ASSUME NEW n \in Nat, NEW G, 0 \in G, \A k \in 1..n : k - 1 \in G => k \in G
    PROVE  n \in G
<1> DEFINE R == {ss \in Nat \X Nat : ss[1] < ss[2]}
           T == {k \in 0..n : k \notin G}
<1>1. IsWellFoundedOn(R, Nat)
  BY NatLessThanWellFounded DEF OpToRel
<1>2. ASSUME T # {} PROVE FALSE
  <2>1. T \in SUBSET Nat
    OBVIOUS
  <2>2. PICK m \in T : \A k \in T : ~ (<<k, m>> \in R)
    BY <1>1, <1>2, <2>1, WFMin, Zenon
  <2>3. m \in 1..n /\ m - 1 \in 0..n /\ m \notin G
    BY <2>2
  <2>4. <<m - 1, m>> \in R
    BY <2>3
  <2>5. m - 1 \notin T
    BY <2>2, <2>4
  <2> QED
    BY <2>3, <2>5
<1> QED
  BY <1>2

\* The cached keys while a diff is applied, after each of its first m slots.
IsFilling(order, m, held) ==
    /\ held \in [0..m -> SUBSET Key]
    /\ held[0] = Cached
    /\ \A i \in 1..m : held[i] = Admit(order[i], held[i - 1])

(***************************************************************************)
(* applyDiffAndUpdateBlock goes through the slots of a diff one by one,    *)
(* whatever their order.                                                   *)
(***************************************************************************)
LEMMA FillingExists ==
    ASSUME NEW n \in Nat, NEW order \in [1..n -> Key]
    PROVE  \E held : IsFilling(order, n, held) /\ Filled(order) = held[n]
<1> DEFINE G == {m \in 0..n : \E held : IsFilling(order, m, held)}
           body(held) == [i \in 0..n |-> IF i = 0 THEN Cached ELSE Admit(order[i], held[i - 1])]
           it == CHOOSE held : held = body(held)
<1>1. 0 \in G
  <2>1. IsFilling(order, 0, [i \in 0..0 |-> Cached])
    BY DEF IsFilling, Cached
  <2> QED
    BY <2>1
<1>2. ASSUME NEW m \in 1..n, m - 1 \in G PROVE m \in G
  <2>1. PICK held : IsFilling(order, m - 1, held)
    BY <1>2
  <2> DEFINE more == [i \in 0..m |-> IF i = m THEN Admit(order[m], held[m - 1]) ELSE held[i]]
  <2>2. /\ held \in [0..m - 1 -> SUBSET Key] /\ held[0] = Cached
        /\ \A i \in 1..m - 1 : held[i] = Admit(order[i], held[i - 1])
    BY <2>1 DEF IsFilling
  <2>3. Admit(order[m], held[m - 1]) \in SUBSET Key
    BY <2>2 DEF Admit
  <2>4. more \in [0..m -> SUBSET Key] /\ more[0] = Cached
    BY <2>2, <2>3
  <2>5. ASSUME NEW i \in 1..m PROVE more[i] = Admit(order[i], more[i - 1])
    <3>1. i \in 0..m /\ i - 1 \in 0..m /\ i - 1 # m
      OBVIOUS
    <3>2. more[i - 1] = held[i - 1]
      BY <3>1
    <3>3. CASE i = m
      <4>1. more[i] = Admit(order[m], held[m - 1])
        BY <3>1, <3>3
      <4> QED
        BY <3>2, <3>3, <4>1
    <3>4. CASE i # m
      <4>1. i \in 1..m - 1 /\ more[i] = held[i]
        BY <3>1, <3>4
      <4> QED
        BY <2>2, <3>2, <4>1
    <3> QED
      BY <3>3, <3>4
  <2> HIDE DEF more
  <2>6. IsFilling(order, m, more)
    BY <2>4, <2>5 DEF IsFilling
  <2> QED
    BY <2>6
<1>3. n \in G
  <2> HIDE DEF G
  <2>1. \A k \in 1..n : k - 1 \in G => k \in G
    BY <1>2
  <2> QED
    BY <1>1, <2>1, CountUp
<1>4. PICK held : IsFilling(order, n, held)
  BY <1>3
<1>5. held = body(held)
  <2>1. \A i \in 0..n : held[i] = IF i = 0 THEN Cached ELSE Admit(order[i], held[i - 1])
    BY <1>4 DEF IsFilling
  <2>2. held = [i \in 0..n |-> held[i]]
    BY <1>4 DEF IsFilling
  <2> QED
    BY <2>1, <2>2, Zenon
<1>6. it = body(it)
  <2> HIDE DEF body
  <2> QED
    BY <1>5, Zenon
<1>7. Filled(order) = it[n]
  <2>1. Len(order) = n
    OBVIOUS
  <2> QED
    BY <2>1, Zenon DEF Filled
<1> HIDE DEF it
<1>8. /\ it = [i \in 0..n |-> it[i]]
      /\ \A i \in 0..n : it[i] = IF i = 0 THEN Cached ELSE Admit(order[i], it[i - 1])
  BY <1>6, Zenon
<1>9. \A i \in 1..n : i \in 0..n /\ i # 0 /\ i - 1 \in 0..n
  OBVIOUS
<1>10. it[0] = Cached /\ \A i \in 1..n : it[i] = Admit(order[i], it[i - 1])
  <2>1. 0 \in 0..n
    OBVIOUS
  <2> QED
    BY <1>8, <1>9, <2>1, Zenon
<1>11. \A i \in 0..n : it[i] \in SUBSET Key
  <2> DEFINE H == {i \in 0..n : it[i] \in SUBSET Key}
  <2> SUFFICES ASSUME NEW k \in 0..n PROVE k \in H
    OBVIOUS
  <2>1. 0 \in H
    BY <1>10 DEF Cached
  <2>2. ASSUME NEW i \in 1..k, i - 1 \in H PROVE i \in H
    <3>1. i \in 1..n /\ it[i - 1] \in SUBSET Key
      BY <2>2
    <3>2. Admit(order[i], it[i - 1]) \in SUBSET Key
      BY <3>1 DEF Admit
    <3> QED
      BY <3>1, <3>2, <1>10
  <2> HIDE DEF H
  <2>3. \A i \in 1..k : i - 1 \in H => i \in H
    BY <2>2
  <2> QED
    BY <2>1, <2>3, CountUp
<1>12. IsFilling(order, n, it)
  BY <1>8, <1>10, <1>11 DEF IsFilling
<1> QED
  BY <1>7, <1>12

(***************************************************************************)
(* An order of a diff's slots is a sequence of keys: a diff is finite.     *)
(***************************************************************************)
LEMMA OrderIsSequence ==
    ASSUME NEW new \in SUBSET Key, NEW order \in Orders(new \cap SlotKey)
    PROVE  \E n \in Nat : order \in [1..n -> Key]
<1> DEFINE slots == new \cap SlotKey
<1>1. IsFiniteSet(slots)
  BY FS_Subset, WireAssumption
<1>2. Cardinality(slots) \in Nat /\ order \in [1..Cardinality(slots) -> slots]
  BY <1>1, FS_CardinalityType DEF Orders
<1> HIDE DEF slots
<1>3. slots \subseteq Key
  BY DEF slots
<1> QED
  BY <1>2, <1>3

(***************************************************************************)
(* Applying a diff takes nothing out of the cache.                         *)
(***************************************************************************)
LEMMA FilledKeepsCached ==
    ASSUME NEW new \in SUBSET Key, NEW order \in Orders(new \cap SlotKey)
    PROVE  Cached \subseteq Filled(order) /\ Filled(order) \subseteq Key
<1>1. PICK n \in Nat : order \in [1..n -> Key]
  BY OrderIsSequence
<1>2. PICK held : IsFilling(order, n, held) /\ Filled(order) = held[n]
  BY <1>1, FillingExists
<1> DEFINE G == {m \in 0..n : Cached \subseteq held[m]}
<1>3. 0 \in G
  BY <1>2 DEF IsFilling
<1>4. ASSUME NEW m \in 1..n, m - 1 \in G PROVE m \in G
  <2>1. held[m] = Admit(order[m], held[m - 1]) /\ Cached \subseteq held[m - 1]
    BY <1>2, <1>4 DEF IsFilling
  <2> QED
    BY <2>1 DEF Admit
<1> HIDE DEF G
<1>5. n \in G
  BY <1>3, <1>4, CountUp
<1> QED
  BY <1>2, <1>5 DEF G, IsFilling

(***************************************************************************)
(* What the cache can hold after a block: the entries of the diff that     *)
(* found room, and what it held before.                                    *)
(***************************************************************************)
LEMMA ProcessBlockKeepsCoherence ==
    ASSUME ServerInv, ProcessBlock, UNCHANGED nodeVars
    PROVE  ServerTypeOK' /\ ServerSteady' /\ CacheCoherent'
<1> USE WireAssumption DEF Block, nodeVars
<1> DEFINE b == sblock + 1
<1>1. /\ head \in 0..MaxBlock /\ latest \in 0..MaxBlock /\ sblock \in 0..MaxBlock
      /\ latest <= head
      /\ chain \in [0..MaxBlock -> [Key -> 0..MaxBlock]]
      /\ cache \in [Key -> Value \cup {Absent}]
      /\ handler \in [Client -> {Idle} \cup Fetching \cup Replying]
  BY DEF ServerInv, TypeOK, NodeTypeOK, ServerTypeOK, ServerSteady
<1>2. ready # "no" /\ sblock' = b /\ b \in 1..head /\ b - 1 = sblock /\ b \in 0..MaxBlock
  BY <1>1 DEF ProcessBlock
<1>3. UNCHANGED <<ready, latest, handler, chain, head>>
  BY DEF ProcessBlock
<1> DEFINE let(keys) == Diff(b) \cap (keys \cup AcctKey \cup CodeKey)
<1>4. PICK keys : /\ Cached \subseteq keys
                  /\ cache' = [k \in Key |-> IF k \in let(keys) THEN chain[b][k] ELSE cache[k]]
  <2>1. PICK order \in Orders(Diff(b) \cap SlotKey) :
           cache' = [k \in Key |-> IF k \in Diff(b) /\ k \in Filled(order) \cup AcctKey \cup CodeKey
                                  THEN chain[b][k] ELSE cache[k]]
    BY DEF ProcessBlock
  <2>2. Cached \subseteq Filled(order)
    BY FilledKeepsCached DEF Diff
  <2> QED
    BY <2>1, <2>2
<1>5. \A k \in Key : cache[k] # Absent => k \in keys
  BY <1>4 DEF Cached
<1>6. \A k \in Key : chain[b][k] \in Value /\ chain[b][k] # Absent
  BY <1>1, <1>2 DEF Value
<1>7. CacheCoherent'
  <2> SUFFICES ASSUME NEW k \in Key, cache'[k] # Absent
               PROVE  cache'[k] = chain[b][k]
    BY <1>2, <1>3 DEF CacheCoherent, Cached
  <2>1. CASE k \in let(keys)
    BY <2>1, <1>4
  <2>2. CASE k \notin let(keys)
    <3>1. cache'[k] = cache[k] /\ cache[k] # Absent
      BY <2>2, <1>4
    <3>2. cache[k] = chain[sblock][k] /\ k \notin Diff(b)
      BY <3>1, <2>2, <1>5 DEF ServerInv, CacheCoherent, Cached
    <3>3. chain[b][k] = chain[b - 1][k]
      BY <3>2, <1>2, UnwrittenKeepsValue DEF ServerInv, TypeOK
    <3> QED
      BY <3>1, <3>2, <3>3, <1>2
  <2> QED
    BY <2>1, <2>2
<1>8. ServerTypeOK'
  <2>1. cache' \in [Key -> Value \cup {Absent}]
    BY <1>4, <1>6, <1>1
  <2> QED
    BY <2>1, <1>1, <1>2, <1>3 DEF ServerInv, TypeOK, ServerTypeOK
<1>9. ServerSteady'
  <2>1. ASSUME NEW c \in Client, handler[c].pc = "fetch"
        PROVE  handler[c].block \in 0..MaxBlock
    <3>1. handler[c] \in {Idle} \cup Fetching \cup Replying
      BY <1>1
    <3>2. handler[c] \in Fetching
      BY <3>1, <2>1 DEF Idle, Replying
    <3> QED
      BY <3>2 DEF Fetching
  <2> QED
    BY <2>1, <1>1, <1>2, <1>3 DEF ServerInv, ServerSteady
<1> QED
  BY <1>7, <1>8, <1>9

(***************************************************************************)
(* handleClientRequest: what it stores was read at the server's block.     *)
(***************************************************************************)
LEMMA FinishFetchKeepsCoherence ==
    ASSUME ServerInv, NEW c \in Client, FinishFetch(c), UNCHANGED nodeVars
    PROVE  ServerTypeOK' /\ ServerSteady' /\ CacheCoherent'
<1> USE WireAssumption DEF Block, nodeVars
<1> DEFINE h == handler[c]
           v == chain[h.block][h.key]
<1>1. /\ sblock \in 0..MaxBlock
      /\ chain \in [0..MaxBlock -> [Key -> 0..MaxBlock]]
      /\ cache \in [Key -> Value \cup {Absent}]
      /\ handler \in [Client -> {Idle} \cup Fetching \cup Replying]
      /\ latest \in 0..MaxBlock
  BY DEF ServerInv, TypeOK, NodeTypeOK, ServerTypeOK
<1>2. h \in Fetching
  BY HandlerStates DEF ServerInv, TypeOK, FinishFetch
<1>3. h.id \in Id /\ h.key \in Key /\ h.block \in 0..MaxBlock
  BY <1>2 DEF Fetching
<1>4. v \in Value /\ v # Absent
  BY <1>1, <1>3 DEF Value
<1>5. UNCHANGED <<ready, latest, sblock, chain, head>>
  BY DEF FinishFetch
<1>6. handler' = [handler EXCEPT ![c] = [pc |-> "reply", id |-> h.id, val |-> v]]
  BY DEF FinishFetch
<1>7. \/ cache' = cache
      \/ cache' = [cache EXCEPT ![h.key] = v] /\ h.block = sblock
  BY DEF FinishFetch, Set
<1>8. CacheCoherent'
  BY <1>1, <1>3, <1>5, <1>7 DEF ServerInv, CacheCoherent, Cached
<1>9. ServerTypeOK'
  <2>1. [pc |-> "reply", id |-> h.id, val |-> v] \in Replying
    BY <1>3, <1>4 DEF Replying
  <2>2. handler' \in [Client -> {Idle} \cup Fetching \cup Replying]
    BY <2>1, <1>1, <1>6
  <2>3. cache' \in [Key -> Value \cup {Absent}]
    BY <1>1, <1>4, <1>7
  <2> QED
    BY <2>2, <2>3, <1>1, <1>5 DEF ServerInv, TypeOK, ServerTypeOK
<1>10. ServerSteady'
  <2>1. ready # "no"
    BY <1>2 DEF ServerInv, ServerSteady, Idle, Fetching
  <2>2. \A d \in Client : handler'[d].pc = "fetch" => handler'[d] = handler[d]
    BY <1>1, <1>6
  <2> QED
    BY <2>1, <2>2, <1>5 DEF ServerInv, ServerSteady
<1> QED
  BY <1>8, <1>9, <1>10

(***************************************************************************)
(* The steps of the server that leave the cache alone.                     *)
(***************************************************************************)
LEMMA OtherServerSteps ==
    ASSUME ServerInv, UNCHANGED nodeVars,
           \/ (StartBlockLoop \/ StartFrozen) /\ UNCHANGED wireVars
           \/ \E n \in Block : NewHead(n) /\ UNCHANGED wireVars
           \/ \E c \in Client : \/ Subscribe(c) \/ LookupRequest(c)
                                \/ FailFetch(c) \/ Reply(c)
    PROVE  ServerTypeOK' /\ ServerSteady' /\ CacheCoherent'
<1> USE WireAssumption, ServerAssumption DEF Block, nodeVars
<1>1. /\ sblock \in 0..MaxBlock /\ latest \in 0..MaxBlock /\ head \in 0..MaxBlock
      /\ chain \in [0..MaxBlock -> [Key -> 0..MaxBlock]]
      /\ cache \in [Key -> Value \cup {Absent}]
      /\ handler \in [Client -> {Idle} \cup Fetching \cup Replying]
      /\ up \in [Client -> Seq(Request)]
      /\ latest <= head /\ sblock <= head
  BY DEF ServerInv, TypeOK, NodeTypeOK, WireTypeOK, ServerTypeOK, ServerSteady
<1>2. ready \in {"no", "live", "frozen"}
  BY DEF ServerInv, TypeOK, ServerTypeOK
<1>3. cache' = cache /\ chain' = chain /\ head' = head
  BY DEF StartBlockLoop, StartFrozen, NewHead, Subscribe, serverVars, LookupRequest,
         FailFetch, Reply
<1>4. CASE StartBlockLoop \/ StartFrozen
  <2>1. /\ ready' \in {"live", "frozen"} /\ handler' = handler
        /\ Cached = {} /\ \A c \in Client : handler[c] = Idle
        /\ sblock' \in 0..MaxBlock /\ sblock' <= head
        /\ latest' \in 0..MaxBlock /\ latest' <= head
    BY <1>4, <1>1 DEF StartBlockLoop, StartFrozen, ServerInv, ServerSteady
  <2>2. ready' \in {"no", "live", "frozen"}
    BY <2>1
  <2> QED
    BY <2>1, <2>2, <1>1, <1>3
    DEF ServerTypeOK, ServerSteady, CacheCoherent, Cached, Idle
<1>5. CASE \E n \in Block : NewHead(n)
  <2>1. /\ UNCHANGED <<ready, sblock, handler>>
        /\ latest' \in 0..MaxBlock /\ latest' <= head
    BY <1>5, <1>1 DEF NewHead
  <2> QED
    BY <2>1, <1>1, <1>2, <1>3 DEF ServerTypeOK, ServerSteady, CacheCoherent, Cached, ServerInv
<1>6. ASSUME NEW c \in Client, Subscribe(c)
      PROVE  ServerTypeOK' /\ ServerSteady' /\ CacheCoherent'
  <2>1. UNCHANGED <<ready, latest, cache, sblock, handler>>
    BY <1>6 DEF Subscribe, serverVars
  <2> QED
    BY <2>1, <1>3 DEF ServerInv, TypeOK, ServerTypeOK, ServerSteady, CacheCoherent, Cached
<1>7. ASSUME NEW c \in Client, NEW h \in {Idle} \cup Fetching \cup Replying,
             h.pc = "fetch" => h.block = sblock,
             handler' = [handler EXCEPT ![c] = h],
             UNCHANGED <<ready, latest, sblock>>, h = Idle \/ ready # "no"
      PROVE  ServerTypeOK' /\ ServerSteady' /\ CacheCoherent'
  <2>1. handler' \in [Client -> {Idle} \cup Fetching \cup Replying]
    BY <1>1, <1>7
  <2>2. \A d \in Client : handler'[d].pc = "fetch" => handler'[d].block <= sblock
    BY <1>1, <1>7 DEF ServerInv, ServerSteady
  <2>3. ready = "no" => \A d \in Client : handler'[d] = Idle
    BY <1>1, <1>7 DEF ServerInv, ServerSteady
  <2> QED
    BY <2>1, <2>2, <2>3, <1>1, <1>3, <1>7
    DEF ServerInv, TypeOK, ServerTypeOK, ServerSteady, CacheCoherent, Cached
<1>8. ASSUME NEW c \in Client, LookupRequest(c)
      PROVE  ServerTypeOK' /\ ServerSteady' /\ CacheCoherent'
  <2> DEFINE r == Head(up[c])
             h == IF cache[r.key] # Absent
                  THEN [pc |-> "reply", id |-> r.id, val |-> cache[r.key]]
                  ELSE [pc |-> "fetch", id |-> r.id, key |-> r.key, block |-> sblock]
  <2>1. r \in Request
    BY <1>1, <1>8 DEF LookupRequest
  <2>2. r.id \in Id /\ r.key \in Key
    BY <2>1 DEF Request
  <2>3. h \in {Idle} \cup Fetching \cup Replying
    BY <2>2, <1>1 DEF Fetching, Replying
  <2>4. h.pc = "fetch" => h.block = sblock
    OBVIOUS
  <2>5. handler' = [handler EXCEPT ![c] = h] /\ ready # "no" /\ UNCHANGED <<ready, latest, sblock>>
    BY <1>8 DEF LookupRequest
  <2> HIDE DEF h
  <2> QED
    BY <2>3, <2>4, <2>5, <1>7
<1>9. ASSUME NEW c \in Client, FailFetch(c)
      PROVE  ServerTypeOK' /\ ServerSteady' /\ CacheCoherent'
  <2> DEFINE h == [pc |-> "reply", id |-> handler[c].id, val |-> Failed]
  <2>1. handler[c] \in Fetching /\ handler[c] # Idle
    BY <1>1, <1>9 DEF FailFetch, Idle, Replying
  <2>2. h \in Replying
    BY <2>1 DEF Fetching, Replying
  <2>3. ready # "no"
    BY <2>1 DEF ServerInv, ServerSteady
  <2>4. handler' = [handler EXCEPT ![c] = h] /\ UNCHANGED <<ready, latest, sblock>>
    BY <1>9 DEF FailFetch
  <2>5. h.pc = "reply"
    OBVIOUS
  <2> HIDE DEF h
  <2> QED
    BY <2>2, <2>3, <2>4, <2>5, <1>7
<1>10. ASSUME NEW c \in Client, Reply(c)
       PROVE  ServerTypeOK' /\ ServerSteady' /\ CacheCoherent'
  <2>1. handler' = [handler EXCEPT ![c] = Idle] /\ UNCHANGED <<ready, latest, sblock>>
    BY <1>10 DEF Reply
  <2>2. Idle.pc # "fetch"
    BY DEF Idle
  <2> QED
    BY <2>1, <2>2, <1>7
<1> QED
  BY <1>4, <1>5, <1>6, <1>8, <1>9, <1>10

(***************************************************************************)
(* The frames the server sends and the requests it takes have their types. *)
(***************************************************************************)
LEMMA ServerStepWireType ==
    ASSUME ServerInv, ServerStep
    PROVE  WireTypeOK'
<1> USE WireAssumption DEF Block
<1>1. /\ sblock \in 0..MaxBlock /\ latest \in 0..MaxBlock
      /\ cache \in [Key -> Value \cup {Absent}]
      /\ handler \in [Client -> {Idle} \cup Fetching \cup Replying]
      /\ conn \in [Client -> ConnState]
      /\ up \in [Client -> Seq(Request)]
      /\ down \in [Client -> Seq(Frame)]
      /\ dump \in [Client -> Dump \cup {NoDump}]
  BY DEF ServerInv, TypeOK, WireTypeOK, ServerTypeOK
<1>2. CASE UNCHANGED wireVars
  BY <1>2, <1>1 DEF wireVars, WireTypeOK
<1>3. CASE ProcessBlock
  <2>1. sblock + 1 \in 0..MaxBlock
    BY <1>3, <1>1 DEF ProcessBlock
  <2>2. [type |-> "block_diff", block |-> sblock + 1] \in Frame
    BY <2>1 DEF Frame, BlockDiff
  <2>3. \A c \in Client : Append(down[c], [type |-> "block_diff", block |-> sblock + 1]) \in Seq(Frame)
    BY <2>2, <1>1
  <2>4. down' \in [Client -> Seq(Frame)]
    BY <2>3, <1>1, <1>3 DEF ProcessBlock
  <2> QED
    BY <2>4, <1>1, <1>3 DEF ProcessBlock, WireTypeOK
<1>4. ASSUME NEW c \in Client, Subscribe(c)
      PROVE  WireTypeOK'
  <2>1. \A k \in Key : DumpOf(k) \in Value \cup {Absent}
    BY <1>1 DEF DumpOf, Value
  <2>2. [block |-> sblock, state |-> [k \in Key |-> DumpOf(k)]] \in Dump
    BY <2>1, <1>1 DEF Dump
  <2>3. dump' \in [Client -> Dump \cup {NoDump}]
    BY <2>2, <1>1, <1>4 DEF Subscribe
  <2>4. conn' \in [Client -> ConnState]
    BY <1>1, <1>4 DEF Subscribe, ConnState
  <2> QED
    BY <2>3, <2>4, <1>1, <1>4 DEF Subscribe, WireTypeOK
<1>5. ASSUME NEW c \in Client, LookupRequest(c)
      PROVE  WireTypeOK'
  <2>1. Tail(up[c]) \in Seq(Request)
    BY <1>1, <1>5 DEF LookupRequest
  <2> QED
    BY <2>1, <1>1, <1>5 DEF LookupRequest, WireTypeOK
<1>6. ASSUME NEW c \in Client, Reply(c)
      PROVE  WireTypeOK'
  <2>1. handler[c] \in Replying
    BY <1>6, HandlerStates DEF ServerInv, TypeOK, Reply
  <2>2. [type |-> "response", id |-> handler[c].id, val |-> handler[c].val] \in Frame
    BY <2>1 DEF Replying, Frame, Response
  <2>3. down' \in [Client -> Seq(Frame)]
    BY <2>2, <1>1, <1>6 DEF Reply
  <2> QED
    BY <2>3, <1>1, <1>6 DEF Reply, WireTypeOK
<1>7. CASE \E c \in Client : FinishFetch(c) \/ FailFetch(c)
  BY <1>7, <1>2 DEF FinishFetch, FailFetch
<1> QED
  BY <1>7, <1>2, <1>3, <1>4, <1>5, <1>6 DEF ServerStep
(***************************************************************************)
(* A step of the server keeps its inductive invariant.                     *)
(***************************************************************************)
LEMMA ServerStepKeepsInv ==
    ASSUME ServerInv, ServerStep, UNCHANGED nodeVars
    PROVE  ServerInv'
<1>1. ServerTypeOK' /\ ServerSteady' /\ CacheCoherent'
  BY ProcessBlockKeepsCoherence, FinishFetchKeepsCoherence, OtherServerSteps DEF ServerStep
<1>2. NodeTypeOK' /\ ChainOK'
  BY DEF ServerInv, TypeOK, NodeTypeOK, ChainOK, nodeVars
<1>3. WireTypeOK'
  BY ServerStepWireType
<1> QED
  BY <1>1, <1>2, <1>3 DEF ServerInv, TypeOK

(***************************************************************************)
(* So does a new block of the node.                                        *)
(***************************************************************************)
LEMMA MineKeepsServerInv ==
    ASSUME ServerInv, NEW written \in SUBSET Key, Mine(written), UNCHANGED <<serverVars, wireVars>>
    PROVE  ServerInv'
<1>1. /\ NodeTypeOK' /\ ChainOK' /\ head' = head + 1
      /\ \A b \in 0..head : chain'[b] = chain[b]
  BY MineKeepsChain DEF ServerInv, TypeOK
<1>2. UNCHANGED <<ready, latest, cache, sblock, handler, conn, up, down, dump>>
  BY DEF serverVars, wireVars
<1>3. sblock \in 0..head /\ head \in Nat /\ latest \in Nat
  BY WireAssumption DEF ServerInv, TypeOK, NodeTypeOK, ServerTypeOK, ServerSteady, Block
<1>4. CacheCoherent' /\ ServerSteady'
  BY <1>1, <1>2, <1>3 DEF ServerInv, CacheCoherent, Cached, ServerSteady
<1> QED
  BY <1>1, <1>2, <1>4 DEF ServerInv, TypeOK, WireTypeOK, ServerTypeOK

(***************************************************************************)
(* And whatever its clients do on the wire.                                *)
(***************************************************************************)
LEMMA ClientsKeepServerInv ==
    ASSUME ServerInv, UNCHANGED <<nodeVars, serverVars>>, WireTypeOK'
    PROVE  ServerInv'
<1>1. UNCHANGED <<chain, head, ready, latest, cache, sblock, handler>>
  BY DEF nodeVars, serverVars
<1>2. ServerTypeOK'
  BY <1>1 DEF ServerInv, TypeOK, ServerTypeOK
<1> QED
  BY <1>1, <1>2 DEF ServerInv, TypeOK, NodeTypeOK, ChainOK, ServerSteady, CacheCoherent, Cached

-----------------------------------------------------------------------------
(***************************************************************************)
(* What connections send and read keeps the types of requests and frames.  *)
(***************************************************************************)
LEMMA ConnectionsWireType ==
    ASSUME WireTypeOK, Connections
    PROVE  WireTypeOK'
<1>1. /\ conn \in [Client -> ConnState]
      /\ up \in [Client -> Seq(Request)]
      /\ down \in [Client -> Seq(Frame)]
      /\ dump \in [Client -> Dump \cup {NoDump}]
  BY DEF WireTypeOK
<1>2. PICK c \in Client :
        \/ \E kind \in {"subscribing", "worker"} : DialAs(c, kind)
        \/ \E i \in Id, k \in Key : SendRequest(c, i, k)
        \/ Receive(c)
        \/ Disconnect(c)
  BY DEF Connections
<1>3. CASE \E kind \in {"subscribing", "worker"} : DialAs(c, kind)
  BY <1>3, <1>1 DEF DialAs, ConnState, WireTypeOK
<1>4. ASSUME NEW i \in Id, NEW k \in Key, SendRequest(c, i, k)
      PROVE  WireTypeOK'
  <2>1. [id |-> i, key |-> k] \in Request
    BY DEF Request
  <2> QED
    BY <2>1, <1>4, <1>1 DEF SendRequest, WireTypeOK
<1>5. CASE Receive(c)
  <2>1. CASE dump[c] # NoDump
    BY <2>1, <1>5, <1>1 DEF Receive, WireTypeOK
  <2>2. CASE dump[c] = NoDump
    <3>1. Tail(down[c]) \in Seq(Frame)
      BY <2>2, <1>5, <1>1 DEF Receive
    <3> QED
      BY <3>1, <2>2, <1>5, <1>1 DEF Receive, WireTypeOK
  <2> QED
    BY <2>1, <2>2
<1>6. CASE Disconnect(c)
  <2>1. conn' \in [Client -> ConnState]
    BY <1>6, <1>1 DEF Disconnect, ConnState
  <2>2. <<>> \in Seq(Request) /\ <<>> \in Seq(Frame)
    OBVIOUS
  <2> QED
    BY <2>1, <2>2, <1>6, <1>1 DEF Disconnect, WireTypeOK
<1> QED
  BY <1>2, <1>3, <1>4, <1>5, <1>6

(***************************************************************************)
(* Every step keeps the server's inductive invariant.                      *)
(***************************************************************************)
LEMMA NextServerInv == ServerInv /\ [OpenNext]_openVars => ServerInv'
<1> SUFFICES ASSUME ServerInv, [OpenNext]_openVars PROVE ServerInv'
  OBVIOUS
<1> USE WireAssumption
<1>1. CASE UNCHANGED openVars
  <2>1. UNCHANGED <<chain, head, conn, up, down, dump, ready, latest, cache, sblock, handler>>
    BY <1>1 DEF openVars, nodeVars, wireVars, serverVars
  <2>2. NodeTypeOK' /\ ChainOK'
    BY <2>1 DEF ServerInv, TypeOK, NodeTypeOK, ChainOK
  <2>3. WireTypeOK' /\ ServerTypeOK'
    BY <2>1 DEF ServerInv, TypeOK, WireTypeOK, ServerTypeOK
  <2>4. ServerSteady' /\ CacheCoherent'
    BY <2>1 DEF ServerInv, ServerSteady, CacheCoherent, Cached
  <2> QED
    BY <2>2, <2>3, <2>4 DEF ServerInv, TypeOK
<1>2. CASE ServerStep /\ UNCHANGED nodeVars
  BY <1>2, ServerStepKeepsInv
<1>3. CASE MineOpen
  BY <1>3, MineKeepsServerInv DEF MineOpen
<1>4. CASE Connections /\ UNCHANGED <<nodeVars, serverVars>>
  BY <1>4, ConnectionsWireType, ClientsKeepServerInv DEF ServerInv, TypeOK
<1> QED
  BY <1>1, <1>2, <1>3, <1>4 DEF OpenNext

(***************************************************************************)
(* The state server's variables keep their types.                          *)
(***************************************************************************)
THEOREM ServerTypeCorrect == OpenSpec => []TypeOK
<1>1. ServerInv => TypeOK
  BY DEF ServerInv
<1> QED
  BY <1>1, InitServerInv, NextServerInv, PTL DEF OpenSpec, OpenInit

(***************************************************************************)
(* stateCache never holds a value of another block than its own: the block *)
(* check that handleClientRequest repeats after fetchFromNode is enough,   *)
(* for every interleaving of block loop and connections.                   *)
(***************************************************************************)
THEOREM ServerCacheCoherent == OpenSpec => []CacheCoherent
<1>1. ServerInv => CacheCoherent
  BY DEF ServerInv
<1> QED
  BY <1>1, InitServerInv, NextServerInv, PTL DEF OpenSpec, OpenInit

-----------------------------------------------------------------------------
(***************************************************************************)
(* The caps count slots and contracts: there are finitely many of both.    *)
(***************************************************************************)
LEMMA FiniteSlots == IsFiniteSet(SlotKey) /\ IsFiniteSet(Contracts(SlotKey))
<1>1. IsFiniteSet(SlotKey) /\ SlotKey \cap SlotKey = SlotKey
  BY WireAssumption
<1> DEFINE f == [k \in SlotKey |-> AddrOf[k]]
<1>2. f \in [SlotKey -> Contracts(SlotKey)]
  BY DEF Contracts
<1>3. \A a \in Contracts(SlotKey) : \E k \in SlotKey : f[k] = a
  BY DEF Contracts
<1> HIDE DEF f
<1>4. f \in Surjection(SlotKey, Contracts(SlotKey))
  BY <1>2, <1>3 DEF Surjection
<1> QED
  BY <1>1, <1>4, FS_Surjection

(***************************************************************************)
(* setStorage: a key that finds room leaves the cache within its caps.     *)
(***************************************************************************)
LEMMA RoomKeepsCaps ==
    ASSUME NEW keys \in SUBSET Key, NEW k \in Key,
           WithinCaps(keys), HasRoom(k, keys)
    PROVE  WithinCaps(keys \cup {k})
<1> DEFINE more == keys \cup {k}
           a == AddrOf[k]
<1>1. CASE k \notin SlotKey \/ k \in keys
  <2>1. more \cap SlotKey = keys \cap SlotKey
    BY <1>1
  <2> QED
    BY <2>1 DEF WithinCaps, Contracts, SlotsOf
<1>2. CASE k \in SlotKey /\ k \notin keys
  <2>1. /\ Contracts(more) = Contracts(keys) \cup {a}
        /\ SlotsOf(a, more) = SlotsOf(a, keys) \cup {k}
        /\ \A x : x # a => SlotsOf(x, more) = SlotsOf(x, keys)
        /\ k \notin SlotsOf(a, keys)
    <3>1. more \cap SlotKey = (keys \cap SlotKey) \cup {k}
      BY <1>2
    <3>2. Contracts(more) = Contracts(keys) \cup {a}
      BY <3>1 DEF Contracts
    <3>3. /\ SlotsOf(a, more) = SlotsOf(a, keys) \cup {k}
          /\ \A x : x # a => SlotsOf(x, more) = SlotsOf(x, keys)
      BY <3>1 DEF SlotsOf
    <3> QED
      BY <1>2, <3>2, <3>3 DEF SlotsOf
  <2>2. Contracts(keys) \in SUBSET Contracts(SlotKey) /\ SlotsOf(a, keys) \in SUBSET SlotKey
    BY DEF Contracts, SlotsOf
  <2>3. IsFiniteSet(Contracts(keys)) /\ IsFiniteSet(SlotsOf(a, keys))
    BY <2>2, FS_Subset, FiniteSlots
  <2>4. /\ Cardinality(Contracts(keys)) \in Nat
        /\ Cardinality(SlotsOf(a, keys)) \in Nat
        /\ Cardinality(SlotsOf(a, more)) = Cardinality(SlotsOf(a, keys)) + 1
        /\ Cardinality(Contracts(more)) <= Cardinality(Contracts(keys)) + 1
    <3>1. Cardinality(Contracts(keys)) \in Nat /\ Cardinality(SlotsOf(a, keys)) \in Nat
      BY <2>3, FS_CardinalityType
    <3>2. Cardinality(SlotsOf(a, keys) \cup {k}) = Cardinality(SlotsOf(a, keys)) + 1
      BY <2>1, <2>3, FS_AddElement
    <3>3. Cardinality(Contracts(keys) \cup {a}) =
            IF a \in Contracts(keys) THEN Cardinality(Contracts(keys))
                                     ELSE Cardinality(Contracts(keys)) + 1
      BY <2>3, FS_AddElement
    <3>4. Contracts(more) = Contracts(keys) \cup {a} /\ SlotsOf(a, more) = SlotsOf(a, keys) \cup {k}
      BY <2>1
    <3>5. Cardinality(Contracts(more)) <= Cardinality(Contracts(keys)) + 1
      <4>1. \/ Cardinality(Contracts(more)) = Cardinality(Contracts(keys))
            \/ Cardinality(Contracts(more)) = Cardinality(Contracts(keys)) + 1
        BY <3>3, <3>4, Zenon
      <4> QED
        BY <3>1, <4>1
    <3> QED
      BY <3>1, <3>2, <3>4, <3>5
  <2>5. CASE SlotsOf(a, keys) = {}
    <3>1. Cardinality(Contracts(keys)) < MaxContracts
      BY <1>2, <2>5 DEF HasRoom
    <3>2. Cardinality(Contracts(more)) <= MaxContracts
      <4>1. Cardinality(Contracts(more)) \in Nat
        BY <2>1, <2>3, FS_CardinalityType, FS_AddElement
      <4> QED
        BY <4>1, <2>4, <3>1, ServerAssumption
    <3>3. Cardinality(SlotsOf(a, more)) <= MaxSlotsPerContract
      BY <2>4, <2>5, FS_EmptySet, ServerAssumption
    <3> QED
      BY <2>1, <3>2, <3>3 DEF WithinCaps
  <2>6. CASE SlotsOf(a, keys) # {}
    <3>1. a \in Contracts(keys)
      BY <2>6 DEF SlotsOf, Contracts
    <3>2. Cardinality(SlotsOf(a, keys)) < MaxSlotsPerContract
      BY <1>2, <2>6 DEF HasRoom
    <3>3. Contracts(more) = Contracts(keys)
      BY <2>1, <3>1
    <3>4. Cardinality(SlotsOf(a, more)) <= MaxSlotsPerContract
      BY <2>4, <3>2, ServerAssumption
    <3> QED
      BY <2>1, <3>3, <3>4 DEF WithinCaps
  <2> QED
    BY <2>5, <2>6
<1> QED
  BY <1>1, <1>2

(***************************************************************************)
(* applyDiffAndUpdateBlock: what it counts before it inserts a slot keeps  *)
(* the cache within its caps, slot by slot and over a whole diff.          *)
(***************************************************************************)
LEMMA AdmitKeepsCaps ==
    ASSUME NEW keys \in SUBSET Key, NEW k \in SlotKey, WithinCaps(keys)
    PROVE  WithinCaps(Admit(k, keys))
<1> DEFINE dst == SlotsOf(AddrOf[k], keys)
<1>1. Cardinality(Contracts(keys)) \in Nat /\ Cardinality(dst) \in Nat
  <2>1. Contracts(keys) \in SUBSET Contracts(SlotKey) /\ dst \in SUBSET SlotKey
    BY DEF Contracts, SlotsOf
  <2> QED
    BY <2>1, FiniteSlots, FS_Subset, FS_CardinalityType
<1>2. k \in dst => k \in keys
  BY DEF SlotsOf
<1>3. CASE Admit(k, keys) # keys
  <2>1. HasRoom(k, keys)
    BY <1>1, <1>2, <1>3, ServerAssumption DEF Admit, HasRoom
  <2>2. Admit(k, keys) = keys \cup {k}
    BY <1>3 DEF Admit
  <2> QED
    BY <2>1, <2>2, RoomKeepsCaps DEF Key
<1> QED
  BY <1>3

LEMMA FilledKeepsCaps ==
    ASSUME NEW new \in SUBSET Key, NEW order \in Orders(new \cap SlotKey), WithinCaps(Cached)
    PROVE  /\ WithinCaps(Filled(order))
           /\ \A k \in Filled(order) : k \in Cached \/ k \in new
<1>1. PICK n \in Nat : order \in [1..n -> Key]
  BY OrderIsSequence
<1>2. PICK held : IsFilling(order, n, held) /\ Filled(order) = held[n]
  BY <1>1, FillingExists
<1>3. \A i \in 1..n : order[i] \in new /\ order[i] \in SlotKey
  <2>1. DOMAIN order = 1..n
    BY <1>1
  <2> QED
    BY <2>1 DEF Orders
<1> DEFINE G == {m \in 0..n : WithinCaps(held[m]) /\ \A k \in held[m] : k \in Cached \/ k \in new}
<1>4. 0 \in G
  BY <1>2 DEF IsFilling
<1>5. ASSUME NEW m \in 1..n, m - 1 \in G PROVE m \in G
  <2>1. /\ held[m] = Admit(order[m], held[m - 1]) /\ held[m - 1] \in SUBSET Key
        /\ WithinCaps(held[m - 1]) /\ \A k \in held[m - 1] : k \in Cached \/ k \in new
    BY <1>2, <1>5 DEF IsFilling
  <2>2. WithinCaps(held[m])
    BY <2>1, <1>3, AdmitKeepsCaps
  <2>3. \A k \in held[m] : k \in Cached \/ k \in new
    BY <2>1, <1>3 DEF Admit
  <2> QED
    BY <2>2, <2>3
<1> HIDE DEF G
<1>6. n \in G
  BY <1>4, <1>5, CountUp
<1> QED
  BY <1>2, <1>6 DEF G

(***************************************************************************)
(* Neither a block nor the answer to a request takes the cache past its    *)
(* caps: for any caps, keys and connections.                               *)
(***************************************************************************)
THEOREM ServerCapsHold == OpenSpec => []CapsHold
<1>1. OpenInit => CapsHold
  <2> SUFFICES ASSUME OpenInit PROVE CapsHold
    OBVIOUS
  <2>1. Cached = {}
    BY DEF OpenInit, ServerInit, Cached
  <2>2. Contracts(Cached) = {}
    BY <2>1 DEF Contracts
  <2> QED
    BY <2>2, FS_EmptySet, ServerAssumption DEF CapsHold, WithinCaps
<1>2. ASSUME ServerInv, CapsHold, [OpenNext]_openVars PROVE CapsHold'
  <2>1. CASE UNCHANGED cache
    <3>1. Cached' = Cached
      BY <2>1 DEF Cached
    <3> QED
      BY <3>1, <1>2 DEF CapsHold, WithinCaps, Contracts, SlotsOf
  <2>2. /\ chain \in [Block -> [Key -> Block]] /\ cache \in [Key -> Value \cup {Absent}]
        /\ \A n \in Block : n # Absent
    <3>1. chain \in [Block -> [Key -> Block]] /\ cache \in [Key -> Value \cup {Absent}]
      BY <1>2 DEF ServerInv, TypeOK, NodeTypeOK, ServerTypeOK
    <3> QED
      BY <3>1, ValuesPresent
  <2>3. CASE ProcessBlock /\ UNCHANGED nodeVars
    <3> DEFINE b == sblock + 1
    <3>1. PICK order \in Orders(Diff(b) \cap SlotKey) :
             cache' = [k \in Key |-> IF k \in Diff(b) /\ k \in Filled(order) \cup AcctKey \cup CodeKey
                                    THEN chain[b][k] ELSE cache[k]]
      BY <2>3 DEF ProcessBlock
    <3>2. b \in Block
      BY <2>3, <1>2, WireAssumption DEF ProcessBlock, ServerInv, TypeOK, ServerTypeOK, Block
    <3>3. /\ WithinCaps(Filled(order)) /\ Cached \subseteq Filled(order)
          /\ \A k \in Filled(order) : k \in Cached \/ k \in Diff(b)
      BY <1>2, FilledKeepsCaps, FilledKeepsCached DEF Diff, CapsHold
    <3>4. \A k \in Diff(b) : k \in Key /\ chain[b][k] # Absent
      BY <2>2, <3>2 DEF Diff
    <3>5. Cached' \cap SlotKey = Filled(order) \cap SlotKey
      <4>1. SlotKey \cap (AcctKey \cup CodeKey) = {} /\ SlotKey \subseteq Key
        BY WireAssumption DEF Key
      <4> QED
        BY <3>1, <3>3, <3>4, <4>1 DEF Cached
    <3>6. Contracts(Cached)' = Contracts(Filled(order))
      BY <3>5 DEF Contracts
    <3>7. \A a : SlotsOf(a, Cached)' = SlotsOf(a, Filled(order))
      BY <3>5 DEF SlotsOf
    <3> QED
      BY <3>3, <3>6, <3>7 DEF CapsHold, WithinCaps
  <2>4. CASE \E c \in Client : FinishFetch(c)
    <3>1. PICK c \in Client : FinishFetch(c)
      BY <2>4
    <3> DEFINE h == handler[c]
    <3>2. h.key \in Key /\ h.block \in Block
      BY <3>1, <1>2, HandlerStates DEF FinishFetch, ServerInv, TypeOK, Fetching
    <3>3. CASE HasRoom(h.key, Cached) /\ cache' # cache
      <4>1. cache' = [cache EXCEPT ![h.key] = chain[h.block][h.key]]
        BY <3>1, <3>3 DEF FinishFetch, Set
      <4>2. chain[h.block][h.key] # Absent
        BY <2>2, <3>2
      <4>3. Cached' = Cached \cup {h.key}
        BY <4>1, <4>2, <3>2, <2>2 DEF Cached
      <4>4. Cached \in SUBSET Key
        BY DEF Cached
      <4>5. WithinCaps(Cached \cup {h.key})
        BY <4>4, <3>2, <3>3, <1>2, RoomKeepsCaps DEF CapsHold
      <4> QED
        BY <4>3, <4>5 DEF CapsHold, WithinCaps, Contracts, SlotsOf
    <3>4. CASE ~HasRoom(h.key, Cached)
      BY <3>1, <3>4, <2>1 DEF FinishFetch, Set
    <3> QED
      BY <3>3, <3>4, <2>1
  <2> QED
    BY <1>2, <2>1, <2>3, <2>4
    DEF OpenNext, ServerStep, StartBlockLoop, StartFrozen, NewHead, Subscribe, LookupRequest,
        FailFetch, Reply, MineOpen, Connections, openVars, serverVars
<1> QED
  BY <1>1, <1>2, InitServerInv, NextServerInv, PTL DEF OpenSpec, OpenInit

-----------------------------------------------------------------------------
(***************************************************************************)
(* What a broadcast promises: a subscriber whose dump is still unread has  *)
(* all the diffs behind it, whatever keys the dump holds.                  *)
(***************************************************************************)
StreamInv ==
    \A c \in Client : dump[c] # NoDump =>
        /\ ready # "no" /\ conn[c] = "subscribed"
        /\ \A b \in dump[c].block + 1 .. sblock : Diff(b) # {} =>
              \E i \in DOMAIN down[c] : down[c][i] = [type |-> "block_diff", block |-> b]

(***************************************************************************)
(* The dump and the registration happen under one read lock and every      *)
(* block is broadcast under the write lock, so no subscriber misses a diff *)
(* between its dump and the server's block.                                *)
(***************************************************************************)
THEOREM ServerStreamComplete == OpenSpec => []StreamComplete
<1> DEFINE frame(b) == [type |-> "block_diff", block |-> b]
<1>1. OpenInit => StreamInv
  BY DEF OpenInit, WireInit, StreamInv
<1>2. ASSUME ServerInv, StreamInv, [OpenNext]_openVars PROVE StreamInv'
  <2>1. /\ sblock \in 0..head /\ head \in Nat /\ head \in Block
        /\ conn \in [Client -> ConnState] /\ down \in [Client -> Seq(Frame)]
        /\ dump \in [Client -> Dump \cup {NoDump}]
        /\ \A d \in Dump : d.block \in Nat
    BY <1>2, WireAssumption
    DEF ServerInv, TypeOK, NodeTypeOK, WireTypeOK, ServerTypeOK, ServerSteady, Block, Dump
  <2> SUFFICES ASSUME NEW c \in Client, dump'[c] # NoDump
               PROVE  /\ ready' # "no" /\ conn'[c] = "subscribed"
                      /\ \A b \in dump'[c].block + 1 .. sblock' : Diff(b)' # {} =>
                            \E i \in DOMAIN down'[c] : down'[c][i] = frame(b)
    BY DEF StreamInv
  <2>2. CASE dump'[c] = dump[c] /\ UNCHANGED <<chain, sblock>> /\ ready' = ready
             /\ conn'[c] = conn[c] /\ (down'[c] = down[c] \/ \E f : down'[c] = Append(down[c], f))
    <3>1. \A b : Diff(b)' = Diff(b)
      BY <2>2 DEF Diff
    <3>2. \A i \in DOMAIN down[c] : i \in DOMAIN down'[c] /\ down'[c][i] = down[c][i]
      <4>1. down[c] \in Seq(Frame)
        BY <2>1
      <4> QED
        BY <4>1, <2>2
    <3> QED
      BY <3>1, <3>2, <2>2, <1>2 DEF StreamInv
  <2>3. ASSUME UNCHANGED <<nodeVars, serverVars>>, Receive(c) \/ Disconnect(c) PROVE FALSE
    BY <2>1, <2>3 DEF Receive, Disconnect
  <2>4. CASE ServerStep /\ UNCHANGED nodeVars
    <3>1. CASE (StartBlockLoop \/ StartFrozen) /\ UNCHANGED wireVars
      BY <3>1, <1>2 DEF StartBlockLoop, StartFrozen, wireVars, StreamInv
    <3>2. CASE \E n \in Block : NewHead(n) /\ UNCHANGED wireVars
      BY <3>2, <2>4, <2>2 DEF NewHead, wireVars, nodeVars
    <3>3. CASE ProcessBlock
      <4>1. /\ dump' = dump /\ ready' = ready /\ conn' = conn /\ sblock' = sblock + 1 /\ chain' = chain
            /\ ready # "no" /\ conn[c] = "subscribed" /\ sblock \in Nat /\ dump[c].block \in Nat
        BY <3>3, <2>4, <2>1, <1>2 DEF ProcessBlock, nodeVars, StreamInv
      <4>2. down'[c] = IF Diff(sblock + 1) = {} THEN down[c] ELSE Append(down[c], frame(sblock + 1))
        BY <3>3, <4>1 DEF ProcessBlock, Subscribers
      <4>3. \A b : Diff(b)' = Diff(b)
        BY <4>1 DEF Diff
      <4>4. ASSUME NEW b \in dump[c].block + 1 .. sblock + 1, Diff(b) # {}
            PROVE  \E i \in DOMAIN down'[c] : down'[c][i] = frame(b)
        <5>1. down[c] \in Seq(Frame)
          BY <2>1
        <5>2. CASE b = sblock + 1
          <6>1. down'[c] = Append(down[c], frame(b))
            BY <5>2, <4>4, <4>2
          <6>2. Len(down[c]) + 1 \in DOMAIN down'[c] /\ down'[c][Len(down[c]) + 1] = frame(b)
            BY <6>1, <5>1
          <6> QED
            BY <6>2
        <5>3. CASE b # sblock + 1
          <6>1. b \in dump[c].block + 1 .. sblock
            BY <5>3, <4>1
          <6>2. PICK i \in DOMAIN down[c] : down[c][i] = frame(b)
            BY <6>1, <4>4, <4>1, <1>2 DEF StreamInv
          <6>3. i \in DOMAIN down'[c] /\ down'[c][i] = down[c][i]
            BY <5>1, <4>2
          <6> QED
            BY <6>2, <6>3
        <5> QED
          BY <5>2, <5>3
      <4> QED
        BY <4>1, <4>3, <4>4
    <3>4. ASSUME NEW d \in Client, Subscribe(d) PROVE
             /\ ready' # "no" /\ conn'[c] = "subscribed"
             /\ \A b \in dump'[c].block + 1 .. sblock' : Diff(b)' # {} =>
                   \E i \in DOMAIN down'[c] : down'[c][i] = frame(b)
      <4>1. CASE d = c
        BY <4>1, <3>4, <2>1 DEF Subscribe, serverVars
      <4>2. CASE d # c
        BY <4>2, <3>4, <2>1, <2>2, <2>4 DEF Subscribe, serverVars, nodeVars
      <4> QED
        BY <4>1, <4>2
    <3>5. ASSUME NEW d \in Client,
                 LookupRequest(d) \/ FinishFetch(d) \/ FailFetch(d) \/ Reply(d)
          PROVE  /\ dump' = dump /\ ready' = ready /\ conn' = conn /\ UNCHANGED <<chain, sblock>>
                 /\ down'[c] = down[c] \/ \E f : down'[c] = Append(down[c], f)
      BY <3>5, <2>4, <2>1
      DEF LookupRequest, FinishFetch, FailFetch, Reply, nodeVars, wireVars
    <3> QED
      BY <2>4, <3>1, <3>2, <3>3, <3>4, <3>5, <2>2 DEF ServerStep
  <2>5. CASE MineOpen
    <3>1. PICK written \in SUBSET Key : Mine(written)
      BY <2>5 DEF MineOpen
    <3>2. \A b \in 0..head : chain'[b] = chain[b]
      BY <3>1, <1>2, MineKeepsChain DEF ServerInv, TypeOK
    <3>3. UNCHANGED <<ready, sblock, conn, down, dump>>
      BY <2>5 DEF MineOpen, serverVars, wireVars
    <3>4. \A b \in dump[c].block + 1 .. sblock : Diff(b)' = Diff(b)
      <4>1. dump[c].block \in Nat
        BY <2>1, <3>3
      <4> QED
        BY <4>1, <3>2, <2>1 DEF Diff
    <3> QED
      BY <3>3, <3>4, <1>2 DEF StreamInv
  <2>6. CASE Connections /\ UNCHANGED <<nodeVars, serverVars>>
    <3>1. UNCHANGED <<chain, sblock, ready>>
      BY <2>6 DEF nodeVars, serverVars
    <3>2. PICK d \in Client :
             \/ \E kind \in {"subscribing", "worker"} : DialAs(d, kind)
             \/ \E i \in Id, k \in Key : SendRequest(d, i, k)
             \/ Receive(d)
             \/ Disconnect(d)
      BY <2>6 DEF Connections
    <3>3. CASE \E kind \in {"subscribing", "worker"} : DialAs(d, kind)
      <4>1. dump' = dump /\ down' = down /\ conn[c] = "subscribed" /\ conn[d] = "none"
        BY <3>3, <1>2 DEF DialAs, StreamInv
      <4>2. conn'[c] = conn[c]
        BY <4>1, <3>3, <2>1 DEF DialAs
      <4> QED
        BY <4>1, <4>2, <3>1, <2>2
    <3>4. CASE \E i \in Id, k \in Key : SendRequest(d, i, k)
      BY <3>4, <3>1, <2>2 DEF SendRequest
    <3>5. CASE Receive(d) \/ Disconnect(d)
      <4>1. d # c
        BY <3>5, <2>3, <2>6
      <4>2. dump'[c] = dump[c] /\ down'[c] = down[c] /\ conn'[c] = conn[c]
        BY <4>1, <3>5, <2>1 DEF Receive, Disconnect
      <4> QED
        BY <4>2, <3>1, <2>2
    <3> QED
      BY <3>2, <3>3, <3>4, <3>5
  <2>7. CASE UNCHANGED openVars
    BY <2>2, <2>7, <1>2 DEF openVars, nodeVars, wireVars, serverVars, StreamInv
  <2> QED
    BY <1>2, <2>4, <2>5, <2>6, <2>7 DEF OpenNext
<1>3. StreamInv => StreamComplete
  BY DEF StreamInv, StreamComplete
<1> QED
  BY <1>1, <1>2, <1>3, InitServerInv, NextServerInv, PTL DEF OpenSpec, OpenInit
=============================================================================
