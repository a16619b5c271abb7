---------------------------- MODULE StateDbProofs ----------------------------
(***************************************************************************)
(* ReplicaIsChain and OverlaysAnswer of StateDb, for any number of layers  *)
(* and blocks.                                                             *)
(***************************************************************************)
EXTENDS StateDb, SequenceTheorems, TLAPS

-----------------------------------------------------------------------------
(***************************************************************************)
(* The inductive invariant.                                                *)
(***************************************************************************)
Val == Nat \cup {Absent}
DB == [im : [Key -> Val], imHash : Val, bf : [Key -> Val], bfHash : Val]

\* What the variables hold.  An overlay is not made after the replica's block.
TypeInv ==
    /\ keys \subseteq Key /\ zeroed \subseteq Key
    /\ chain \in [0..MaxBlock -> [Key -> Nat]]
    /\ block \in 0..MaxBlock
    /\ dbs \in Seq(DB) /\ Len(dbs) \in 1..Depth
    /\ running \in BOOLEAN
    /\ dirtied \subseteq tainted /\ tainted \subseteq Key
    /\ written \in [Layer -> [Key -> Val]]
    /\ since \in [Layer -> 0..MaxBlock]
    /\ \A i \in Layer : since[i] <= block

\* A value of k that the replica may answer with.
Right(k, v) ==
    IF k = "code" THEN \E b \in 0..block : v = chain[b][k]
                  ELSE v = chain[block][k] \/ (StillZeroed(k) /\ v = 0)

(* Both layers of the replica are right, the one Known does not look at    *)
(* too: ApplyBlockDiff makes it visible.                                   *)
ReplicaOK ==
    \A k \in Key \ dirtied :
        /\ dbs[1].im[k] # Absent => Right(k, dbs[1].im[k])
        /\ dbs[1].bf[k] # Absent => Right(k, dbs[1].bf[k])

HashOf(code) == IF code \in {Absent, 0} THEN Absent ELSE Keccak(code)

(* Each layer's hash is that of its own code, and code that no call wrote  *)
(* is in one layer of the replica.  The primary layer of an overlay stays  *)
(* empty.                                                                  *)
HashesOK ==
    /\ \A i \in 1..Len(dbs) : dbs[i].bfHash = HashOf(dbs[i].bf["code"])
    /\ \A i \in 2..Len(dbs) : dbs[i].im = Empty /\ dbs[i].imHash = Absent
    /\ "code" \notin dirtied =>
          /\ dbs[1].imHash = HashOf(dbs[1].im["code"])
          /\ dbs[1].bf["code"] # Absent => dbs[1].im["code"] = Absent

\* Where a value that overlay i answers with comes from.
Explained(i, k, v) ==
    \/ \E j \in 2..i : written[j][k] = v
    \/ \E b \in since[2]..block : chain[b][k] = v
    \/ k = "nonce" /\ v = 0
    \/ k \in zeroed /\ v = 0
    \/ k = "code"

OverlaysOK ==
    /\ \A i \in 2..Len(dbs), k \in Key :
          /\ written[i][k] # Absent => dbs[i].bf[k] = written[i][k]
          /\ dbs[i].bf[k] # Absent /\ k \notin tainted => Explained(i, k, dbs[i].bf[k])
    /\ \A i \in Layer : i > Len(dbs) => written[i] = Empty

StateDbInv == TypeInv /\ ReplicaOK /\ HashesOK /\ OverlaysOK

-----------------------------------------------------------------------------
(***************************************************************************)
(* What the operators do.                                                  *)
(***************************************************************************)

\* A function on 1..n is a sequence.
LEMMA FunctionIsSeq ==
    ASSUME NEW S, NEW n \in Nat, NEW f \in [1..n -> S]
    PROVE  f \in Seq(S) /\ Len(f) = n
  OBVIOUS

\* Absent is no value and no hash; Foreign is a value; Word is not zero.
LEMMA Constants ==
    /\ MaxBlock \in Nat /\ Depth \in Nat /\ Depth >= 1
    /\ Word \in Nat /\ Word >= 1
    /\ Foreign \in Nat /\ Foreign # 0 /\ Foreign # Absent
    /\ Absent \notin Nat /\ 0 # Absent
  BY StateDbAssumption

\* SetState and its like change one key of the backfill, and the hash with the code.
LEMMA SetFacts ==
    ASSUME NEW d \in DB, NEW k \in Key, NEW v \in Nat
    PROVE  /\ Set(d, k, v) \in DB
           /\ Set(d, k, v).im = d.im
           /\ Set(d, k, v).imHash = d.imHash
           /\ Set(d, k, v).bf = [d.bf EXCEPT ![k] = v]
           /\ Set(d, k, v).bfHash = IF k = "code" THEN HashOf(v) ELSE d.bfHash
  <1> DEFINE h == IF k = "code" THEN HashOf(v) ELSE d.bfHash
  <1>1. h \in Val
    BY Constants DEF h, HashOf, Keccak, Val, DB
  <1>2. Set(d, k, v) = [d EXCEPT !.bf = [d.bf EXCEPT ![k] = v], !.bfHash = h]
    BY Constants DEF Set, HashOf, DB, h
  <1>3. [d.bf EXCEPT ![k] = v] \in [Key -> Val]
    BY DEF DB, Val
  <1> HIDE DEF h
  <1>4. [d EXCEPT !.bf = [d.bf EXCEPT ![k] = v], !.bfHash = h] \in DB
    BY <1>1, <1>3 DEF DB
  <1>5. /\ Set(d, k, v).im = d.im /\ Set(d, k, v).imHash = d.imHash
        /\ Set(d, k, v).bf = [d.bf EXCEPT ![k] = v] /\ Set(d, k, v).bfHash = h
    BY <1>2 DEF DB
  <1> QED
    BY <1>2, <1>4, <1>5 DEF h

\* What Known finds is in the primary layer or in the backfill.
LEMMA KnownFacts ==
    ASSUME NEW d \in DB, NEW k \in Key
    PROVE  /\ Known(d, k) \in Val
           /\ Known(d, k) = Absent => d.im[k] = Absent /\ d.bf[k] = Absent
           /\ d.im[k] = Absent => Known(d, k) = d.bf[k]
           /\ Known(d, k) # Absent => Known(d, k) \in Nat /\ Known(d, k) \in {d.im[k], d.bf[k]}
  BY DEF Known, DB, Val

(***************************************************************************)
(* A layer that asks is told what the server says, or what a layer below   *)
(* it knows.                                                               *)
(***************************************************************************)
LEMMA ToldFacts ==
    ASSUME TypeInv, NEW i \in 1..Len(dbs), NEW k \in Key, NEW ok \in BOOLEAN
    PROVE  /\ Told(i, k, ok).val \in Nat
           /\ \/ Told(i, k, ok) = FetchFromServer(k, ok)
              \/ /\ ~Told(i, k, ok).err
                 /\ \A j \in Asking(i, k) :
                       \E m \in 1..j - 1 : /\ Told(i, k, ok).val = Known(dbs[m], k)
                                           /\ Known(dbs[m], k) # Absent
  <1> DEFINE below == {m \in 1..i \ Asking(i, k) : m = i \/ m + 1 \in Asking(i, k)}
             low == CHOOSE m \in below : TRUE
  <1>0. Len(dbs) \in Nat /\ \A m \in 1..i : dbs[m] \in DB
    BY LenProperties, ElementOfSeq DEF TypeInv
  <1>1. CASE below = {}
    <2>1. Told(i, k, ok) = FetchFromServer(k, ok)
      BY <1>1 DEF Told
    <2>2. chain[block][k] \in Nat
      BY DEF TypeInv
    <2> QED
      BY <2>1, <2>2 DEF FetchFromServer
  <1>2. CASE below # {}
    <2>1. low \in below
      BY <1>2
    <2>2. Told(i, k, ok) = [val |-> Known(dbs[low], k), err |-> FALSE]
      BY <1>2 DEF Told
    <2> HIDE DEF low
    <2>3. low \in 1..i /\ low \notin Asking(i, k) /\ (low = i \/ low + 1 \in Asking(i, k))
      BY <2>1
    <2>4. Known(dbs[low], k) # Absent
      <3>1. CASE low = i
        BY <2>3, <3>1 DEF Asking
      <3>2. CASE low + 1 \in Asking(i, k)
        BY <2>3, <3>2 DEF Asking
      <3> QED
        BY <2>3, <3>1, <3>2
    <2>5. \A j \in Asking(i, k) : low \in 1..j - 1
      BY <2>3, <2>4 DEF Asking
    <2>6. Known(dbs[low], k) \in Nat
      BY <1>0, <2>3, <2>4, KnownFacts
    <2> QED
      BY <2>2, <2>4, <2>5, <2>6
  <1> QED
    BY <1>1, <1>2

\* What one layer keeps of a read of k, v being what it was told.
Kept(j, k, v) ==
    /\ Known(dbs[j], k) = Absent
    /\ \/ v = chain[block][k]
       \/ j > 1 /\ k = "nonce" /\ v = 0
       \/ \E m \in 1..j - 1 : v = Known(dbs[m], k) /\ Known(dbs[m], k) # Absent

\* A read leaves a layer as it is, or has it keep what it was told.
LEMMA GetFacts ==
    ASSUME TypeInv, NEW i \in 1..Len(dbs), NEW k \in Key, NEW ok \in BOOLEAN
    PROVE  /\ Get(i, k, ok).val \in Nat
           /\ Get(i, k, ok).dbs \in Seq(DB)
           /\ Len(Get(i, k, ok).dbs) = Len(dbs)
           /\ \A j \in 1..Len(dbs) :
                 \/ Get(i, k, ok).dbs[j] = dbs[j]
                 \/ \E v \in Nat : j <= i /\ Kept(j, k, v) /\ Get(i, k, ok).dbs[j] = Set(dbs[j], k, v)
  <1> DEFINE r == Told(i, k, ok)
             keep == CASE ~r.err -> Asking(i, k)
                       [] r.err /\ k = "nonce" -> Asking(i, k) \ {1}
                       [] OTHER -> {}
             new == [j \in 1..Len(dbs) |-> IF j \in keep THEN Set(dbs[j], k, r.val) ELSE dbs[j]]
  <1>0. Len(dbs) \in Nat /\ DOMAIN dbs = 1..Len(dbs) /\ \A m \in 1..Len(dbs) : dbs[m] \in DB
    BY LenProperties, ElementOfSeq DEF TypeInv
  <1>1. r.val \in Nat
    BY ToldFacts
  <1>2. Get(i, k, ok).val = r.val /\ Get(i, k, ok).dbs = new
    BY <1>0 DEF Get, Keeping
  <1>3. keep \subseteq Asking(i, k) /\ (1 \in keep => ~r.err)
    OBVIOUS
  <1>4. r.err => keep \subseteq {j \in Asking(i, k) : j > 1 /\ k = "nonce"}
    BY DEF Asking
  <1>5. \A j \in Asking(i, k) : j \in 1..i /\ Known(dbs[j], k) = Absent
    BY <1>0 DEF Asking
  <1>6. \A j \in keep : j \in 1..i /\ Kept(j, k, r.val)
    <2> SUFFICES ASSUME NEW j \in keep PROVE j \in 1..i /\ Kept(j, k, r.val)
      OBVIOUS
    <2>1. j \in Asking(i, k)
      BY <1>3
    <2>2. CASE r.err
      <3>1. r = FetchFromServer(k, ok)
        BY <2>2, <2>1, ToldFacts
      <3>2. r.val = 0
        BY <3>1, <2>2 DEF FetchFromServer
      <3> QED
        BY <3>2, <2>2, <1>4, <1>5, <2>1 DEF Kept
    <2>3. CASE ~r.err
      <3>1. CASE r = FetchFromServer(k, ok)
        BY <3>1, <2>3, <1>5, <2>1 DEF FetchFromServer, Kept
      <3>2. CASE \E m \in 1..j - 1 : r.val = Known(dbs[m], k) /\ Known(dbs[m], k) # Absent
        BY <3>2, <1>5, <2>1 DEF Kept
      <3> QED
        BY <3>1, <3>2, <2>1, ToldFacts
    <2> QED
      BY <2>2, <2>3
  <1> HIDE DEF r, keep
  <1>7. new \in [1..Len(dbs) -> DB]
    BY <1>0, <1>1, SetFacts
  <1>8. new \in Seq(DB) /\ Len(new) = Len(dbs)
    <2> HIDE DEF new
    <2> QED BY <1>0, <1>7, FunctionIsSeq
  <1>9. ASSUME NEW j \in 1..Len(dbs)
        PROVE  \/ new[j] = dbs[j]
               \/ j \in keep /\ new[j] = Set(dbs[j], k, r.val)
    OBVIOUS
  <1> HIDE DEF new
  <1> QED
    BY <1>0, <1>1, <1>2, <1>6, <1>8, <1>9

-----------------------------------------------------------------------------
(***************************************************************************)
(* The invariant holds initially and is kept by every step.                *)
(***************************************************************************)

\* What the variables hold when TypeInv does, in the form the steps use.
LEMMA LayerTypes ==
    ASSUME TypeInv
    PROVE  /\ Len(dbs) \in Nat /\ Len(dbs) >= 1 /\ Len(dbs) <= Depth
           /\ DOMAIN dbs = 1..Len(dbs)
           /\ \A j \in 1..Len(dbs) : dbs[j] \in DB
           /\ Layer = 1..Depth /\ 1..Len(dbs) \subseteq Layer
  <1>1. /\ Len(dbs) \in Nat /\ Len(dbs) >= 1 /\ Len(dbs) <= Depth
    BY Constants, LenProperties DEF TypeInv
  <1>2. DOMAIN dbs = 1..Len(dbs) /\ \A j \in 1..Len(dbs) : dbs[j] \in DB
    BY LenProperties, ElementOfSeq DEF TypeInv
  <1> QED
    BY <1>1, <1>2, Constants DEF Layer

\* NewStateDB is a StateDB that knows nothing.
LEMMA NewStateDBFacts ==
    /\ NewStateDB \in DB /\ Empty \in [Key -> Val]
    /\ NewStateDB.im = Empty /\ NewStateDB.bf = Empty
    /\ NewStateDB.imHash = Absent /\ NewStateDB.bfHash = Absent
    /\ \A k \in Key : Empty[k] = Absent
  BY DEF NewStateDB, DB, Empty, Val

\* The dump is right: it holds values of block 0, and the hash of the code it has.
LEMMA InitInv == Init => StateDbInv
  <1> SUFFICES ASSUME Init PROVE StateDbInv
    OBVIOUS
  <1>1. PICK code \in {0} \cup (IF "code" \in keys THEN {Word - 1} ELSE {}) :
          chain = [b \in 0..MaxBlock |->
                     [k \in Key |-> CASE k = "code" -> code [] k = "slot" -> 0 [] OTHER -> Word - 1]]
    BY DEF Init
  <1>2. chain \in [0..MaxBlock -> [Key -> Nat]]
    <2>1. code \in Nat /\ Word - 1 \in Nat
      BY Constants
    <2> QED
      BY <1>1, <2>1 DEF Key
  <1>3. PICK cached \in SUBSET Key : dbs = <<Dumped(cached)>> /\ zeroed = Zeros(cached)
    BY DEF Init
  <1> DEFINE c == IF "code" \in cached THEN chain[0]["code"] ELSE 0
             m == [k \in Key |->
                     CASE k \in Zeros(cached) -> 0
                       [] k = "code" /\ c = 0 -> Absent
                       [] k \in cached /\ (k = "code" => c # 0) -> chain[0][k]
                       [] OTHER -> Absent]
             h == IF c = 0 THEN Absent ELSE Keccak(c)
             d == [NewStateDB EXCEPT !.im = m, !.imHash = h]
  <1>4. chain[0] \in [Key -> Nat] /\ "code" \in Key /\ c \in Nat
    BY <1>2, Constants DEF Key
  <1>zeros. zeroed \subseteq {"balance", "nonce"} /\ zeroed = Zeros(cached) /\ "code" \notin Zeros(cached)
    BY <1>3 DEF Zeros
  <1>7. dbs = <<d>>
    BY <1>3 DEF Dumped
  <1>5. m \in [Key -> Val] /\ h \in Val
    BY <1>4, Constants DEF Val, Keccak
  <1>coded. m["code"] = IF c = 0 THEN Absent ELSE c
    BY <1>4, <1>zeros
  <1>6. h = HashOf(m["code"])
    BY <1>4, <1>coded, Constants DEF HashOf
  <1>8. \A k \in Key : m[k] # Absent => m[k] = chain[0][k] \/ (k \in zeroed /\ m[k] = 0 /\ k # "code")
    BY <1>zeros
  <1> HIDE DEF m, h, c
  <1>9. d \in DB /\ d.im = m /\ d.imHash = h /\ d.bf = Empty /\ d.bfHash = Absent
    BY <1>5, NewStateDBFacts DEF DB, NewStateDB
  <1> HIDE DEF d
  <1>10. dbs \in Seq(DB) /\ Len(dbs) = 1 /\ dbs[1] = d
    BY <1>7, <1>9
  <1>11. block = 0 /\ running = FALSE /\ dirtied = {} /\ tainted = {}
    BY DEF Init
  <1>12. TypeInv
    <2>1. keys \subseteq Key /\ zeroed \subseteq Key
      BY <1>zeros, StateDbAssumption DEF Init, Key
    <2>2. written \in [Layer -> [Key -> Val]] /\ since \in [Layer -> 0..MaxBlock]
      BY NewStateDBFacts, Constants DEF Init
    <2>3. \A i \in Layer : since[i] <= block
      BY DEF Init
    <2>4. block \in 0..MaxBlock /\ Len(dbs) \in 1..Depth
      BY <1>10, <1>11, Constants
    <2>5. dirtied \subseteq tainted /\ tainted \subseteq Key /\ running \in BOOLEAN
      BY <1>11
    <2> QED
      BY <1>2, <1>10, <2>1, <2>2, <2>3, <2>4, <2>5 DEF TypeInv
  <1>13. ReplicaOK
    BY <1>8, <1>9, <1>10, <1>11, NewStateDBFacts DEF ReplicaOK, Right, StillZeroed
  <1>14. HashesOK
    BY <1>4, <1>6, <1>9, <1>10, NewStateDBFacts DEF HashesOK, HashOf
  <1>15. OverlaysOK
    BY <1>10 DEF OverlaysOK, Init
  <1> QED
    BY <1>12, <1>13, <1>14, <1>15 DEF StateDbInv

\* A read: what is kept was right where it came from.
LEMMA ReadInv ==
    ASSUME StateDbInv, NEW i \in Layer, NEW k \in keys, Read(i, k)
    PROVE  StateDbInv'
  <1> USE DEF StateDbInv
  <1>1. PICK ok \in BOOLEAN : dbs' = Get(i, k, ok).dbs
    BY DEF Read
  <1>2. i \in 1..Len(dbs) /\ k \in Key
    BY LayerTypes DEF Read, TypeInv
  <1>3. UNCHANGED <<chain, block, running, dirtied, tainted, keys, zeroed, written, since>>
    BY DEF Read
  <1>4. /\ dbs' \in Seq(DB) /\ Len(dbs') = Len(dbs)
        /\ \A j \in 1..Len(dbs) :
              \/ dbs'[j] = dbs[j]
              \/ \E v \in Nat : Kept(j, k, v) /\ dbs'[j] = Set(dbs[j], k, v)
    BY <1>1, <1>2, GetFacts
  <1>5. \A j \in 1..Len(dbs) : dbs[j] \in DB
    BY LayerTypes
  <1>6. ASSUME NEW j \in 1..Len(dbs)
        PROVE  /\ dbs'[j].im = dbs[j].im /\ dbs'[j].imHash = dbs[j].imHash
               /\ \A q \in Key : \/ dbs'[j].bf[q] = dbs[j].bf[q]
                                 \/ /\ q = k /\ dbs[j].im[q] = Absent /\ dbs[j].bf[q] = Absent
                                    /\ Kept(j, q, dbs'[j].bf[q])
               /\ \/ dbs'[j].bfHash = dbs[j].bfHash /\ dbs'[j].bf["code"] = dbs[j].bf["code"]
                  \/ dbs'[j].bfHash = HashOf(dbs'[j].bf["code"])
    <2>1. CASE dbs'[j] = dbs[j]
      BY <2>1
    <2>2. CASE \E v \in Nat : Kept(j, k, v) /\ dbs'[j] = Set(dbs[j], k, v)
      <3>1. PICK v \in Nat : Kept(j, k, v) /\ dbs'[j] = Set(dbs[j], k, v)
        BY <2>2
      <3>2. /\ dbs'[j].im = dbs[j].im /\ dbs'[j].imHash = dbs[j].imHash
            /\ dbs'[j].bf = [dbs[j].bf EXCEPT ![k] = v]
            /\ dbs'[j].bfHash = IF k = "code" THEN HashOf(v) ELSE dbs[j].bfHash
        BY <3>1, <1>2, <1>5, SetFacts
      <3>3. dbs[j].im[k] = Absent /\ dbs[j].bf[k] = Absent
        BY <3>1, <1>2, <1>5, KnownFacts DEF Kept
      <3>4. dbs[j].bf \in [Key -> Val]
        BY <1>5 DEF DB
      <3> QED
        BY <3>1, <3>2, <3>3, <3>4, <1>2 DEF Key
    <2> QED
      BY <1>4, <2>1, <2>2
  <1>7. TypeInv'
    BY <1>3, <1>4 DEF TypeInv
  <1>8. ReplicaOK'
    <2> SUFFICES ASSUME NEW q \in Key \ dirtied
                 PROVE  /\ dbs'[1].im[q] # Absent => Right(q, dbs'[1].im[q])
                        /\ dbs'[1].bf[q] # Absent => Right(q, dbs'[1].bf[q])
      BY <1>3 DEF ReplicaOK, Right, StillZeroed
    <2>1. 1 \in 1..Len(dbs) /\ block \in 0..block
      BY LayerTypes DEF TypeInv
    <2>2. /\ dbs[1].im[q] # Absent => Right(q, dbs[1].im[q])
          /\ dbs[1].bf[q] # Absent => Right(q, dbs[1].bf[q])
      BY DEF ReplicaOK
    <2>3. ASSUME Kept(1, q, dbs'[1].bf[q]) PROVE Right(q, dbs'[1].bf[q])
      BY <2>1, <2>3 DEF Kept, Right, StillZeroed
    <2> QED
      BY <1>6, <2>1, <2>2, <2>3
  <1>9. HashesOK'
    <2>1. 1 \in 1..Len(dbs) /\ "code" \in Key /\ 2..Len(dbs) \subseteq 1..Len(dbs)
      BY LayerTypes DEF Key
    <2>2. \A j \in 1..Len(dbs) : dbs'[j].bfHash = HashOf(dbs'[j].bf["code"])
      BY <1>6 DEF HashesOK
    <2>3. \A j \in 2..Len(dbs) : dbs'[j].im = Empty /\ dbs'[j].imHash = Absent
      BY <1>6, <2>1 DEF HashesOK
    <2>4. "code" \notin dirtied =>
            /\ dbs'[1].imHash = HashOf(dbs'[1].im["code"])
            /\ dbs'[1].bf["code"] # Absent => dbs'[1].im["code"] = Absent
      BY <1>6, <2>1 DEF HashesOK
    <2> QED
      BY <1>3, <1>4, <2>2, <2>3, <2>4 DEF HashesOK
  <1>10. OverlaysOK'
    <2> SUFFICES ASSUME NEW j \in 2..Len(dbs), NEW q \in Key
                 PROVE  /\ written[j][q] # Absent => dbs'[j].bf[q] = written[j][q]
                        /\ dbs'[j].bf[q] # Absent /\ q \notin tainted => Explained(j, q, dbs'[j].bf[q])
      BY <1>3, <1>4 DEF OverlaysOK, Explained
    <2>1. j \in 1..Len(dbs) /\ j \in Nat /\ 2 \in Layer /\ Len(dbs) \in Nat
      BY LayerTypes
    <2>2. /\ written[j][q] # Absent => dbs[j].bf[q] = written[j][q]
          /\ dbs[j].bf[q] # Absent /\ q \notin tainted => Explained(j, q, dbs[j].bf[q])
      BY DEF OverlaysOK
    <2>3. CASE dbs'[j].bf[q] = dbs[j].bf[q]
      BY <2>2, <2>3
    <2>4. CASE dbs[j].bf[q] = Absent /\ Kept(j, q, dbs'[j].bf[q])
      <3>1. written[j][q] = Absent
        BY <2>2, <2>4
      <3> SUFFICES ASSUME q \notin tainted PROVE Explained(j, q, dbs'[j].bf[q])
        BY <3>1
      <3>2. block \in since[2]..block
        BY <2>1 DEF TypeInv
      <3>3. CASE dbs'[j].bf[q] = chain[block][q]
        BY <3>2, <3>3 DEF Explained
      <3>4. CASE q = "nonce" /\ dbs'[j].bf[q] = 0
        BY <3>4 DEF Explained
      <3>5. CASE \E n \in 1..j - 1 : dbs'[j].bf[q] = Known(dbs[n], q) /\ Known(dbs[n], q) # Absent
        <4>1. PICK n \in 1..j - 1 : dbs'[j].bf[q] = Known(dbs[n], q) /\ Known(dbs[n], q) # Absent
          BY <3>5
        <4>2. n \in 1..Len(dbs) /\ dbs[n] \in DB
          BY <2>1, <1>5
        <4>3. CASE n = 1
          <5>1. Right(q, Known(dbs[1], q))
            <6>1. q \in Key \ dirtied
              BY DEF TypeInv
            <6>2. Known(dbs[1], q) \in {dbs[1].im[q], dbs[1].bf[q]} /\ Known(dbs[1], q) # Absent
              BY <4>1, <4>2, <4>3, KnownFacts
            <6>3. /\ dbs[1].im[q] # Absent => Right(q, dbs[1].im[q])
                  /\ dbs[1].bf[q] # Absent => Right(q, dbs[1].bf[q])
              BY <6>1 DEF ReplicaOK
            <6> QED
              BY <6>2, <6>3
          <5> QED
            BY <4>1, <4>3, <5>1, <3>2 DEF Right, StillZeroed, Explained
        <4>4. CASE n # 1
          <5>1. n \in 2..Len(dbs) /\ n < j
            BY <4>2, <4>4, <2>1
          <5>2. Known(dbs[n], q) = dbs[n].bf[q]
            BY <5>1, <4>2, KnownFacts, NewStateDBFacts DEF HashesOK
          <5>3. Explained(n, q, dbs'[j].bf[q])
            BY <5>1, <5>2, <4>1 DEF OverlaysOK
          <5>4. 2..n \subseteq 2..j
            BY <5>1, <2>1
          <5> QED
            BY <5>3, <5>4 DEF Explained
        <4> QED
          BY <4>3, <4>4
      <3> QED
        BY <2>4, <3>3, <3>4, <3>5 DEF Kept
    <2> QED
      BY <1>6, <2>1, <2>3, <2>4
  <1> QED
    BY <1>7, <1>8, <1>9, <1>10

(***************************************************************************)
(* A block: the replica's layers were right before it, and what the block  *)
(* wrote is what the diff carries, code apart.  The overlays are not told. *)
(***************************************************************************)
LEMMA ApplyBlockDiffInv ==
    ASSUME StateDbInv, NEW changed \in SUBSET keys, ApplyBlockDiff(changed)
    PROVE  StateDbInv'
  <1> USE DEF StateDbInv
  <1> DEFINE b == block + 1
             new == [k \in Key |-> IF k \in changed THEN b ELSE chain[block][k]]
             d == dbs[1]
             im == [k \in Key |-> CASE k \in changed \ {"code"} -> b
                                    [] k \notin changed \ {"code"} /\ d.bf[k] # Absent -> d.bf[k]
                                    [] OTHER -> d.im[k]]
             h == IF d.bf["code"] \notin {Absent, 0} THEN Keccak(d.bf["code"]) ELSE d.imHash
             e == [d EXCEPT !.im = im, !.imHash = h, !.bf = Empty, !.bfHash = Absent]
  <1>1. /\ chain' = [c \in 0..MaxBlock |-> IF c < b THEN chain[c] ELSE new]
        /\ block' = b
        /\ dbs' = [dbs EXCEPT ![1] = e]
        /\ dirtied' = dirtied \ (changed \ {"code"})
        /\ UNCHANGED <<running, tainted, keys, zeroed, written, since>>
    BY DEF ApplyBlockDiff
  <1>2. block \in Nat /\ block < MaxBlock /\ MaxBlock \in Nat /\ b \in Nat
    BY Constants DEF ApplyBlockDiff, TypeInv
  <1>3. d \in DB /\ 1 \in 1..Len(dbs) /\ Len(dbs) \in Nat /\ "code" \in Key
    BY LayerTypes DEF Key
  <1>4. d.bf \in [Key -> Val] /\ d.im \in [Key -> Val] /\ d.imHash \in Val
    BY <1>3 DEF DB
  <1>5. im \in [Key -> Val]
    BY <1>2, <1>4 DEF Val
  <1>6. h \in Val
    BY <1>3, <1>4, Constants DEF Val, Keccak
  <1>7. new \in [Key -> Nat]
    BY <1>2 DEF TypeInv
  <1>8. /\ \A c \in 0..block : chain'[c] = chain[c]
        /\ chain'[b] = new
        /\ chain' \in [0..MaxBlock -> [Key -> Nat]]
    <2> HIDE DEF new
    <2> QED
      BY <1>1, <1>2, <1>7 DEF TypeInv
  <1>9. /\ \A k \in changed \ {"code"} : k \in Key => im[k] = b
        /\ \A k \in Key \ (changed \ {"code"}) :
              im[k] = IF d.bf[k] # Absent THEN d.bf[k] ELSE d.im[k]
    OBVIOUS
  <1>10. "code" \notin dirtied => h = HashOf(im["code"])
    <2> SUFFICES ASSUME "code" \notin dirtied PROVE h = HashOf(im["code"])
      OBVIOUS
    <2>1. d.imHash = HashOf(d.im["code"]) /\ (d.bf["code"] # Absent => d.im["code"] = Absent)
      BY DEF HashesOK
    <2>2. im["code"] = IF d.bf["code"] # Absent THEN d.bf["code"] ELSE d.im["code"]
      BY <1>9, <1>3
    <2> QED
      BY <2>1, <2>2 DEF HashOf
  <1> HIDE DEF im, h
  <1>11. e \in DB /\ e.im = im /\ e.imHash = h /\ e.bf = Empty /\ e.bfHash = Absent
    BY <1>3, <1>5, <1>6, NewStateDBFacts DEF DB
  <1> HIDE DEF e
  <1>12. /\ dbs' \in Seq(DB) /\ Len(dbs') = Len(dbs)
         /\ dbs'[1] = e /\ \A j \in 2..Len(dbs) : dbs'[j] = dbs[j]
    BY <1>1, <1>3, <1>11, ExceptSeq DEF TypeInv
  <1>13. TypeInv'
    <2>1. dirtied' \subseteq tainted' /\ tainted' \subseteq Key
      BY <1>1 DEF TypeInv
    <2>2. block' \in 0..MaxBlock /\ \A i \in Layer : since'[i] <= block'
      BY <1>1, <1>2 DEF TypeInv
    <2> QED
      BY <1>1, <1>8, <1>12, <2>1, <2>2 DEF TypeInv
  <1>14. ReplicaOK'
    <2> SUFFICES ASSUME NEW k \in Key, k \notin dirtied'
                 PROVE  im[k] # Absent =>
                          IF k = "code" THEN \E c \in 0..b : im[k] = chain'[c][k]
                                        ELSE im[k] = chain'[b][k] \/ (StillZeroed(k)' /\ im[k] = 0)
      <3>1. dbs'[1].im = im /\ \A q \in Key : dbs'[1].bf[q] = Absent
        BY <1>11, <1>12, NewStateDBFacts
      <3>2. block' = b
        BY <1>1
      <3> HIDE DEF b
      <3> QED
        BY <3>1, <3>2 DEF ReplicaOK, Right, StillZeroed
    <2>1. CASE k \in changed \ {"code"}
      BY <2>1, <1>8, <1>9
    <2>2. CASE k \notin changed \ {"code"}
      <3>1. k \in Key \ dirtied
        BY <2>2, <1>1
      <3>2. im[k] # Absent => Right(k, im[k])
        BY <2>2, <3>1, <1>9 DEF ReplicaOK
      <3>3. CASE k = "code"
        <4>1. \A c \in 0..block : c \in 0..b /\ chain'[c][k] = chain[c][k]
          BY <1>2, <1>8
        <4> QED
          BY <3>2, <3>3, <4>1 DEF Right, StillZeroed
      <3>4. CASE k # "code"
        <4>1. chain'[b][k] = chain[block][k] /\ chain'[0][k] = chain[0][k] /\ zeroed' = zeroed /\ block' = b
          BY <1>1, <1>2, <1>8, <2>2, <3>4
        <4> QED
          BY <3>2, <3>4, <4>1 DEF Right, StillZeroed
      <3> QED
        BY <3>3, <3>4
    <2> QED
      BY <2>1, <2>2
  <1>15. HashesOK'
    <2>1. \A i \in 1..Len(dbs) : dbs'[i].bfHash = HashOf(dbs'[i].bf["code"])
      <3> SUFFICES ASSUME NEW i \in 1..Len(dbs) PROVE dbs'[i].bfHash = HashOf(dbs'[i].bf["code"])
        OBVIOUS
      <3>1. CASE i = 1
        BY <3>1, <1>3, <1>11, <1>12, NewStateDBFacts DEF HashOf
      <3>2. CASE i # 1
        BY <3>2, <1>3, <1>12 DEF HashesOK
      <3> QED
        BY <3>1, <3>2
    <2>2. \A i \in 2..Len(dbs) : dbs'[i].im = Empty /\ dbs'[i].imHash = Absent
      BY <1>12 DEF HashesOK
    <2>3. "code" \notin dirtied' => "code" \notin dirtied
      BY <1>1
    <2> QED
      BY <1>3, <1>10, <1>11, <1>12, <2>1, <2>2, <2>3, NewStateDBFacts DEF HashesOK
  <1>16. OverlaysOK'
    <2> SUFFICES ASSUME NEW j \in 2..Len(dbs), NEW q \in Key
                 PROVE  /\ written[j][q] # Absent => dbs[j].bf[q] = written[j][q]
                        /\ dbs[j].bf[q] # Absent /\ q \notin tainted => Explained(j, q, dbs[j].bf[q])'
      BY <1>1, <1>12 DEF OverlaysOK
    <2>1. /\ written[j][q] # Absent => dbs[j].bf[q] = written[j][q]
          /\ dbs[j].bf[q] # Absent /\ q \notin tainted => Explained(j, q, dbs[j].bf[q])
      BY DEF OverlaysOK
    <2>2. 2 \in Layer /\ since[2] \in Nat
      BY LayerTypes, Constants DEF TypeInv
    <2>3. \A c \in since[2]..block : c \in since[2]..b /\ chain'[c][q] = chain[c][q]
      BY <1>2, <1>8, <2>2
    <2>4. dbs'[j] = dbs[j]
      BY <1>12
    <2> QED
      BY <1>1, <2>1, <2>3, <2>4 DEF Explained
  <1> QED
    BY <1>13, <1>14, <1>15, <1>16

\* A new overlay knows nothing and was given nothing.
LEMMA NewOverlayInv ==
    ASSUME StateDbInv, NewOverlay
    PROVE  StateDbInv'
  <1> USE DEF StateDbInv
  <1> DEFINE n == Len(dbs)
  <1>1. /\ dbs' = Append(dbs, NewStateDB)
        /\ since' = [since EXCEPT ![n + 1] = block]
        /\ UNCHANGED <<chain, block, running, dirtied, tainted, keys, zeroed, written>>
    BY DEF NewOverlay
  <1>2. n \in Nat /\ n >= 1 /\ n + 1 <= Depth /\ n + 1 \in Layer /\ 1..n \subseteq Layer
    BY LayerTypes, Constants DEF NewOverlay, TypeInv
  <1>3. /\ dbs' \in Seq(DB) /\ Len(dbs') = n + 1
        /\ dbs'[n + 1] = NewStateDB /\ \A j \in 1..n : dbs'[j] = dbs[j]
    BY <1>1, NewStateDBFacts, AppendProperties DEF TypeInv
  <1> HIDE DEF n
  <1>4. \A j \in 1..n + 1 : j = n + 1 \/ j \in 1..n
    BY <1>2
  <1>5. TypeInv'
    <2>1. since' \in [Layer -> 0..MaxBlock] /\ \A i \in Layer : since'[i] <= block'
      BY <1>1, <1>2, Constants DEF TypeInv
    <2>2. Len(dbs') \in 1..Depth
      BY <1>2, <1>3, Constants
    <2> QED
      BY <1>1, <1>3, <2>1, <2>2 DEF TypeInv
  <1>6. ReplicaOK'
    <2>1. dbs'[1] = dbs[1]
      BY <1>2, <1>3
    <2> QED
      BY <1>1, <2>1 DEF ReplicaOK, Right, StillZeroed
  <1>7. HashesOK'
    <2>1. \A j \in 1..n + 1 : dbs'[j].bfHash = HashOf(dbs'[j].bf["code"])
      BY <1>3, <1>4, NewStateDBFacts DEF HashesOK, HashOf, Key, n
    <2>2. \A j \in 2..n + 1 : dbs'[j].im = Empty /\ dbs'[j].imHash = Absent
      <3> SUFFICES ASSUME NEW j \in 2..n + 1 PROVE dbs'[j].im = Empty /\ dbs'[j].imHash = Absent
        OBVIOUS
      <3>1. CASE j = n + 1
        BY <3>1, <1>3, NewStateDBFacts
      <3>2. CASE j # n + 1
        <4>1. j \in 2..n /\ j \in 1..n
          BY <3>2, <1>2
        <4> QED
          BY <4>1, <1>3 DEF HashesOK, n
      <3> QED
        BY <3>1, <3>2
    <2>3. dbs'[1] = dbs[1]
      BY <1>2, <1>3
    <2> QED
      BY <1>1, <1>3, <2>1, <2>2, <2>3 DEF HashesOK
  <1>8. OverlaysOK'
    <2>1. written[n + 1] = Empty
      BY <1>2 DEF OverlaysOK, n
    <2>2. ASSUME NEW j \in 2..n + 1, NEW q \in Key
          PROVE  /\ written[j][q] # Absent => dbs'[j].bf[q] = written[j][q]
                 /\ dbs'[j].bf[q] # Absent /\ q \notin tainted => Explained(j, q, dbs[j].bf[q])'
      <3>1. CASE j = n + 1
        BY <3>1, <1>3, <2>1, NewStateDBFacts
      <3>2. CASE j # n + 1
        <4>1. j \in 2..n /\ j \in 1..n /\ n + 1 # 2
          BY <3>2, <1>2
        <4>2. dbs'[j] = dbs[j]
          BY <4>1, <1>3
        <4>3. since'[2] = since[2]
          BY <1>1, <4>1 DEF TypeInv
        <4>4. /\ written[j][q] # Absent => dbs[j].bf[q] = written[j][q]
              /\ dbs[j].bf[q] # Absent /\ q \notin tainted => Explained(j, q, dbs[j].bf[q])
          BY <4>1 DEF OverlaysOK, n
        <4> QED
          BY <1>1, <4>2, <4>3, <4>4 DEF Explained
      <3> QED
        BY <3>1, <3>2
    <2>3. \A i \in Layer : i > n + 1 => written[i] = Empty
      BY <1>2 DEF OverlaysOK, n, Layer
    <2> QED
      BY <1>1, <1>3, <2>2, <2>3 DEF OverlaysOK
  <1> QED
    BY <1>5, <1>6, <1>7, <1>8

\* A discarded overlay leaves nothing behind in the layers below it.
LEMMA DiscardInv ==
    ASSUME StateDbInv, Discard
    PROVE  StateDbInv'
  <1> USE DEF StateDbInv
  <1> DEFINE n == Len(dbs)
  <1>1. /\ dbs' = SubSeq(dbs, 1, n - 1)
        /\ written' = [written EXCEPT ![n] = Empty]
        /\ since' = [since EXCEPT ![n] = 0]
        /\ UNCHANGED <<chain, block, running, dirtied, tainted, keys, zeroed>>
    BY DEF Discard
  <1>2. n \in Nat /\ n > 1 /\ n <= Depth /\ n \in Layer /\ 1..n \subseteq Layer
    BY LayerTypes DEF Discard
  <1>3. \A j \in 1..n - 1 : dbs[j] \in DB
    BY <1>2, LayerTypes
  <1>4. /\ dbs' \in Seq(DB) /\ Len(dbs') = n - 1
        /\ \A j \in 1..n - 1 : dbs'[j] = dbs[j]
    BY <1>1, <1>2, <1>3, SubSeqProperties
  <1> HIDE DEF n
  <1>5. TypeInv'
    <2>1. since' \in [Layer -> 0..MaxBlock] /\ \A i \in Layer : since'[i] <= block'
      BY <1>1, <1>2, Constants DEF TypeInv
    <2>2. Len(dbs') \in 1..Depth
      BY <1>2, <1>4, Constants
    <2>3. written' \in [Layer -> [Key -> Val]]
      BY <1>1, <1>2, NewStateDBFacts DEF TypeInv
    <2> QED
      BY <1>1, <1>4, <2>1, <2>2, <2>3 DEF TypeInv
  <1>6. dbs'[1] = dbs[1] /\ \A j \in 2..n - 1 : j \in 2..n /\ j \in 1..n /\ dbs'[j] = dbs[j]
    BY <1>2, <1>4
  <1>7. ReplicaOK'
    <2>1. dbs'[1] = dbs[1] /\ chain' = chain /\ block' = block /\ dirtied' = dirtied /\ zeroed' = zeroed
      BY <1>1, <1>6
    <2> QED
      BY <2>1 DEF ReplicaOK, Right, StillZeroed
  <1>8. HashesOK'
    <2>1. \A j \in 1..n - 1 : dbs'[j].bfHash = HashOf(dbs'[j].bf["code"])
      BY <1>2, <1>4 DEF HashesOK, n
    <2>2. \A j \in 2..n - 1 : dbs'[j].im = Empty /\ dbs'[j].imHash = Absent
      BY <1>6 DEF HashesOK, n
    <2> QED
      BY <1>1, <1>4, <1>6, <2>1, <2>2 DEF HashesOK
  <1>9. OverlaysOK'
    <2>1. ASSUME NEW j \in 2..n - 1, NEW q \in Key
          PROVE  /\ written'[j][q] # Absent => dbs'[j].bf[q] = written'[j][q]
                 /\ dbs'[j].bf[q] # Absent /\ q \notin tainted => Explained(j, q, dbs[j].bf[q])'
      <3>1. j \in 2..n /\ dbs'[j] = dbs[j] /\ n # 2
        BY <1>2, <1>6
      <3>2. since'[2] = since[2] /\ \A i \in 2..j : written'[i] = written[i]
        BY <1>1, <1>2, <3>1 DEF TypeInv
      <3>3. j \in 2..j
        OBVIOUS
      <3>4. /\ written[j][q] # Absent => dbs[j].bf[q] = written[j][q]
            /\ dbs[j].bf[q] # Absent /\ q \notin tainted => Explained(j, q, dbs[j].bf[q])
        BY <3>1 DEF OverlaysOK, n
      <3> QED
        BY <1>1, <3>1, <3>2, <3>3, <3>4 DEF Explained
    <2>2. \A i \in Layer : i > n - 1 => written'[i] = Empty
      BY <1>1, <1>2 DEF OverlaysOK, n, Layer, TypeInv
    <2> QED
      BY <1>1, <1>4, <2>1, <2>2 DEF OverlaysOK
  <1> QED
    BY <1>5, <1>7, <1>8, <1>9

(***************************************************************************)
(* A write to the topmost overlay: what is given is what it then answers,  *)
(* and what is not given stays as it was.                                  *)
(***************************************************************************)
LEMMA TopWriteInv ==
    ASSUME StateDbInv, NEW i \in Layer, i = Len(dbs), i > 1,
           NEW d \in DB, NEW w \in [Key -> Val],
           d.im = dbs[i].im, d.imHash = dbs[i].imHash,
           d.bfHash = HashOf(d.bf["code"]),
           \A k \in Key : \/ w[k] = d.bf[k]
                          \/ w[k] = written[i][k] /\ d.bf[k] = dbs[i].bf[k],
           dbs' = [dbs EXCEPT ![i] = d],
           written' = [written EXCEPT ![i] = w],
           UNCHANGED <<chain, block, running, dirtied, tainted, keys, zeroed, since>>
    PROVE  StateDbInv'
  <1> USE DEF StateDbInv
  <1>1. Len(dbs) \in Nat /\ i \in 1..Len(dbs) /\ i \in 2..Len(dbs)
    BY LayerTypes
  <1>2. /\ dbs' \in Seq(DB) /\ Len(dbs') = Len(dbs)
        /\ \A j \in 1..Len(dbs) : dbs'[j] = IF j = i THEN d ELSE dbs[j]
    BY <1>1, ExceptSeq DEF TypeInv
  <1>3. \A j \in Layer : written'[j] = IF j = i THEN w ELSE written[j]
    BY DEF TypeInv
  <1>4. written' \in [Layer -> [Key -> Val]]
    BY DEF TypeInv
  <1>5. TypeInv'
    BY <1>2, <1>4 DEF TypeInv
  <1>6. dbs'[1] = dbs[1]
    BY <1>1, <1>2
  <1>7. ReplicaOK'
    BY <1>6 DEF ReplicaOK, Right, StillZeroed
  <1>8. HashesOK'
    <2>1. \A j \in 1..Len(dbs) : dbs'[j].bfHash = HashOf(dbs'[j].bf["code"])
      BY <1>2 DEF HashesOK
    <2>2. \A j \in 2..Len(dbs) : dbs'[j].im = Empty /\ dbs'[j].imHash = Absent
      <3> SUFFICES ASSUME NEW j \in 2..Len(dbs) PROVE dbs'[j].im = Empty /\ dbs'[j].imHash = Absent
        OBVIOUS
      <3>1. j \in 1..Len(dbs) /\ dbs[j].im = Empty /\ dbs[j].imHash = Absent
        BY <1>1 DEF HashesOK
      <3> QED
        BY <3>1, <1>2
    <2> QED
      BY <1>2, <1>6, <2>1, <2>2 DEF HashesOK
  <1>9. OverlaysOK'
    <2>1. ASSUME NEW j \in 2..Len(dbs), NEW q \in Key
          PROVE  /\ written'[j][q] # Absent => dbs'[j].bf[q] = written'[j][q]
                 /\ dbs'[j].bf[q] # Absent /\ q \notin tainted => Explained(j, q, dbs[j].bf[q])'
      <3>1. j \in 1..Len(dbs) /\ 1..Len(dbs) \subseteq Layer /\ 2..j \subseteq Layer /\ j \in 2..j
        BY <1>1, LayerTypes
      <3>2. /\ written[j][q] # Absent => dbs[j].bf[q] = written[j][q]
            /\ dbs[j].bf[q] # Absent /\ q \notin tainted => Explained(j, q, dbs[j].bf[q])
        BY DEF OverlaysOK
      <3>3. CASE dbs'[j].bf[q] = written'[j][q]
        BY <3>1, <3>3 DEF Explained
      <3>4. CASE dbs'[j].bf[q] # written'[j][q]
        <4>1. written'[j][q] = written[j][q] /\ dbs'[j].bf[q] = dbs[j].bf[q]
          BY <3>1, <3>4, <1>2, <1>3
        <4>2. \A m \in 2..j : m # j => m # i
          BY <1>1
        <4>3. \A m \in 2..j : written'[m][q] = written[m][q]
          BY <3>1, <4>1, <4>2, <1>3
        <4> QED
          BY <3>2, <4>1, <4>3 DEF Explained
      <3> QED
        BY <3>3, <3>4
    <2>2. \A m \in Layer : m > Len(dbs) => written'[m] = Empty
      BY <1>1, <1>3 DEF OverlaysOK
    <2> QED
      BY <1>2, <2>1, <2>2 DEF OverlaysOK
  <1> QED
    BY <1>5, <1>7, <1>8, <1>9

\* SetStorageSlot writes the slot.
LEMMA SetStorageSlotInv ==
    ASSUME StateDbInv, NEW i \in Layer, SetStorageSlot(i)
    PROVE  StateDbInv'
  <1> DEFINE d == Set(dbs[i], "slot", Foreign)
             w == [written[i] EXCEPT !["slot"] = Foreign]
  <1>1. /\ i = Len(dbs) /\ i > 1
        /\ dbs' = [dbs EXCEPT ![i] = d]
        /\ written' = [written EXCEPT ![i] = w]
        /\ UNCHANGED <<chain, block, running, dirtied, tainted, keys, zeroed, since>>
    BY DEF SetStorageSlot
  <1>2. /\ i \in 1..Len(dbs) /\ dbs[i] \in DB
        /\ "slot" \in Key /\ "code" \in Key /\ "slot" # "code"
    BY <1>1, LayerTypes DEF Key, StateDbInv
  <1>3. written[i] \in [Key -> Val] /\ dbs[i].bf \in [Key -> Val]
    BY <1>2 DEF StateDbInv, TypeInv, DB
  <1>4. /\ d \in DB /\ d.im = dbs[i].im /\ d.imHash = dbs[i].imHash
        /\ d.bf = [dbs[i].bf EXCEPT !["slot"] = Foreign] /\ d.bfHash = dbs[i].bfHash
    BY <1>2, Constants, SetFacts
  <1>5. w \in [Key -> Val]
    BY <1>2, <1>3, Constants DEF Val
  <1>6. \A k \in Key : \/ w[k] = d.bf[k]
                       \/ w[k] = written[i][k] /\ d.bf[k] = dbs[i].bf[k]
    BY <1>2, <1>3, <1>4
  <1>7. d.bfHash = HashOf(d.bf["code"])
    BY <1>2, <1>3, <1>4 DEF StateDbInv, HashesOK
  <1>8. d \in DB /\ d.im = dbs[i].im /\ d.imHash = dbs[i].imHash
    BY <1>4
  <1> HIDE DEF d, w
  <1> QED
    BY <1>1, <1>5, <1>6, <1>7, <1>8, TopWriteInv

\* SetAccount writes balance and nonce, and the code when there is one.
LEMMA SetAccountInv ==
    ASSUME StateDbInv, NEW i \in Layer, NEW code \in {0, Foreign}, SetAccount(i, code)
    PROVE  StateDbInv'
  <1> DEFINE bal == Set(dbs[i], "balance", Foreign)
             set == Set(bal, "nonce", 0)
             given == {"balance", "nonce"} \cup (IF code = 0 THEN {} ELSE {"code"})
             d == IF code = 0 THEN set ELSE Set(set, "code", code)
             w == [k \in Key |-> IF k \in given THEN d.bf[k] ELSE written[i][k]]
  <1>1. /\ i = Len(dbs) /\ i > 1
        /\ dbs' = [dbs EXCEPT ![i] = d]
        /\ written' = [written EXCEPT ![i] = w]
        /\ UNCHANGED <<chain, block, running, dirtied, tainted, keys, zeroed, since>>
    BY DEF SetAccount
  <1>2. i \in 1..Len(dbs) /\ dbs[i] \in DB /\ code \in Nat /\ 0 \in Nat
    BY <1>1, LayerTypes, Constants DEF StateDbInv
  <1>3. "balance" \in Key /\ "nonce" \in Key /\ "code" \in Key
    BY DEF Key
  <1>4. written[i] \in [Key -> Val] /\ dbs[i].bf \in [Key -> Val]
    BY <1>2 DEF StateDbInv, TypeInv, DB
  <1>5. /\ bal \in DB /\ bal.im = dbs[i].im /\ bal.imHash = dbs[i].imHash
        /\ bal.bf = [dbs[i].bf EXCEPT !["balance"] = Foreign] /\ bal.bfHash = dbs[i].bfHash
    BY <1>2, <1>3, Constants, SetFacts
  <1> HIDE DEF bal
  <1>6. /\ set \in DB /\ set.im = dbs[i].im /\ set.imHash = dbs[i].imHash
        /\ set.bf = [bal.bf EXCEPT !["nonce"] = 0] /\ set.bfHash = dbs[i].bfHash
    BY <1>2, <1>3, <1>5, SetFacts
  <1>7. /\ bal.bf \in [Key -> Val] /\ set.bf \in [Key -> Val]
    BY <1>5, <1>6 DEF DB
  <1>8. dbs[i].bfHash = HashOf(dbs[i].bf["code"])
    BY <1>2 DEF StateDbInv, HashesOK
  <1>9. \A k \in Key \ {"balance", "nonce"} : set.bf[k] = dbs[i].bf[k]
    BY <1>4, <1>5, <1>6, <1>7
  <1> HIDE DEF set
  <1>10. /\ d \in DB /\ d.im = dbs[i].im /\ d.imHash = dbs[i].imHash
         /\ d.bfHash = HashOf(d.bf["code"])
         /\ \A k \in Key \ given : d.bf[k] = dbs[i].bf[k]
    <2>1. CASE code = 0
      BY <2>1, <1>3, <1>6, <1>8, <1>9
    <2>2. CASE code # 0
      <3>1. /\ d \in DB /\ d.im = dbs[i].im /\ d.imHash = dbs[i].imHash
            /\ d.bf = [set.bf EXCEPT !["code"] = code] /\ d.bfHash = HashOf(code)
        BY <2>2, <1>2, <1>3, <1>6, SetFacts
      <3> QED
        BY <2>2, <3>1, <1>3, <1>7, <1>9
    <2> QED
      BY <2>1, <2>2
  <1>11. d.bf \in [Key -> Val]
    BY <1>10 DEF DB
  <1> HIDE DEF d, given
  <1>12. w \in [Key -> Val]
    BY <1>4, <1>11
  <1>13. \A k \in Key : \/ w[k] = d.bf[k]
                        \/ w[k] = written[i][k] /\ d.bf[k] = dbs[i].bf[k]
    BY <1>10
  <1> HIDE DEF w
  <1> QED
    BY <1>1, <1>10, <1>12, <1>13, TopWriteInv

(***************************************************************************)
(* A step of a call on the replica: only the backfill of layer 1 changes,  *)
(* and the key that it wrote is dirtied and tainted.                       *)
(***************************************************************************)
LEMMA CallStepInv ==
    ASSUME StateDbInv, NEW k \in Key, NEW ds \in Seq(DB), dbs' = ds, Len(ds) = Len(dbs),
           ds[1].im = dbs[1].im, ds[1].imHash = dbs[1].imHash,
           ds[1].bfHash = HashOf(ds[1].bf["code"]),
           \A q \in Key \ {k} : ds[1].bf[q] = dbs[1].bf[q],
           \A j \in 2..Len(dbs) : ds[j] = dbs[j],
           Dirty(k), running' \in BOOLEAN,
           UNCHANGED <<chain, block, keys, zeroed, written, since>>
    PROVE  StateDbInv'
  <1> USE DEF StateDbInv
  <1>1. dirtied' = dirtied \cup {k} /\ tainted' = tainted \cup {k}
    BY DEF Dirty
  <1>2. TypeInv'
    BY <1>1 DEF TypeInv
  <1>3. ReplicaOK'
    <2>1. \A q \in Key \ dirtied' : q \in Key \ dirtied /\ q # k
      BY <1>1
    <2> QED
      BY <2>1 DEF ReplicaOK, Right, StillZeroed
  <1>4. HashesOK'
    <2>1. Len(dbs) \in Nat /\ "code" \in Key
      BY LayerTypes DEF Key
    <2>2. \A j \in 1..Len(dbs) : ds[j].bfHash = HashOf(ds[j].bf["code"])
      <3> SUFFICES ASSUME NEW j \in 1..Len(dbs) PROVE ds[j].bfHash = HashOf(ds[j].bf["code"])
        OBVIOUS
      <3>1. CASE j = 1
        BY <3>1
      <3>2. CASE j # 1
        <4>1. j \in 2..Len(dbs)
          BY <3>2, <2>1
        <4> QED
          BY <4>1 DEF HashesOK
      <3> QED
        BY <3>1, <3>2
    <2>3. \A j \in 2..Len(dbs) : ds[j].im = Empty /\ ds[j].imHash = Absent
      BY DEF HashesOK
    <2>4. "code" \notin dirtied' => "code" \notin dirtied /\ "code" # k
      BY <1>1
    <2>5. "code" \notin dirtied' =>
            /\ ds[1].imHash = HashOf(ds[1].im["code"])
            /\ ds[1].bf["code"] # Absent => ds[1].im["code"] = Absent
      BY <2>1, <2>4 DEF HashesOK
    <2> QED
      BY <2>2, <2>3, <2>5 DEF HashesOK
  <1>5. OverlaysOK'
    <2>1. \A q \in Key : q \notin tainted' => q \notin tainted
      BY <1>1
    <2> QED
      BY <2>1 DEF OverlaysOK, Explained
  <1> QED
    BY <1>2, <1>3, <1>4, <1>5

\* SubBalance and AddBalance leave everything but the replica's balance alone.
LEMMA MoveBalanceFacts ==
    ASSUME StateDbInv, NEW amount \in Nat, NEW ok \in BOOLEAN
    PROVE  /\ MoveBalance(amount, ok) \in Seq(DB) /\ Len(MoveBalance(amount, ok)) = Len(dbs)
           /\ MoveBalance(amount, ok)[1].im = dbs[1].im
           /\ MoveBalance(amount, ok)[1].imHash = dbs[1].imHash
           /\ MoveBalance(amount, ok)[1].bfHash = HashOf(MoveBalance(amount, ok)[1].bf["code"])
           /\ \A q \in Key \ {"balance"} : MoveBalance(amount, ok)[1].bf[q] = dbs[1].bf[q]
           /\ \A j \in 2..Len(dbs) : MoveBalance(amount, ok)[j] = dbs[j]
  <1> USE DEF StateDbInv
  <1> DEFINE r == Get(1, "balance", ok)
             v == (r.val + amount) % Word
  <1>1. 1 \in 1..Len(dbs) /\ Len(dbs) \in Nat /\ "balance" \in Key /\ "code" \in Key /\ dbs[1] \in DB
    BY LayerTypes DEF Key
  <1>2. /\ r.val \in Nat /\ r.dbs \in Seq(DB) /\ Len(r.dbs) = Len(dbs)
        /\ \A j \in 1..Len(dbs) :
              \/ r.dbs[j] = dbs[j]
              \/ \E x \in Nat : j <= 1 /\ Kept(j, "balance", x) /\ r.dbs[j] = Set(dbs[j], "balance", x)
    BY <1>1, GetFacts
  <1> HIDE DEF r
  <1>3. v \in Nat
    <2>1. r.val + amount \in Nat /\ Word \in Nat /\ Word >= 1
      BY <1>2, Constants
    <2> QED
      BY <2>1
  <1> HIDE DEF v
  <1>4. \A j \in 2..Len(dbs) : r.dbs[j] = dbs[j]
    BY <1>1, <1>2
  <1>5. /\ r.dbs[1] \in DB /\ r.dbs[1].im = dbs[1].im /\ r.dbs[1].imHash = dbs[1].imHash
        /\ r.dbs[1].bfHash = dbs[1].bfHash
        /\ \A q \in Key \ {"balance"} : r.dbs[1].bf[q] = dbs[1].bf[q]
    <2>1. CASE r.dbs[1] = dbs[1]
      BY <2>1, <1>1
    <2>2. CASE \E x \in Nat : r.dbs[1] = Set(dbs[1], "balance", x)
      <3>1. PICK x \in Nat : r.dbs[1] = Set(dbs[1], "balance", x)
        BY <2>2
      <3>2. /\ r.dbs[1] \in DB /\ r.dbs[1].im = dbs[1].im /\ r.dbs[1].imHash = dbs[1].imHash
            /\ r.dbs[1].bfHash = dbs[1].bfHash /\ r.dbs[1].bf = [dbs[1].bf EXCEPT !["balance"] = x]
        BY <3>1, <1>1, SetFacts
      <3>3. dbs[1].bf \in [Key -> Val]
        BY <1>1 DEF DB
      <3> QED
        BY <3>2, <3>3
    <2> QED
      BY <1>1, <1>2, <2>1, <2>2
  <1> DEFINE d == Set(r.dbs[1], "balance", v)
             ds == [r.dbs EXCEPT ![1] = d]
  <1>6. /\ d \in DB /\ d.im = dbs[1].im /\ d.imHash = dbs[1].imHash
        /\ d.bfHash = dbs[1].bfHash /\ d.bf = [r.dbs[1].bf EXCEPT !["balance"] = v]
    BY <1>1, <1>3, <1>5, SetFacts
  <1>7. MoveBalance(amount, ok) = ds
    BY DEF MoveBalance, r, v
  <1>8. r.dbs[1].bf \in [Key -> Val]
    BY <1>5 DEF DB
  <1>9. \A q \in Key \ {"balance"} : d.bf[q] = dbs[1].bf[q]
    BY <1>5, <1>6, <1>8
  <1>10. d.bfHash = HashOf(d.bf["code"])
    BY <1>1, <1>6, <1>9 DEF HashesOK
  <1> HIDE DEF d
  <1>11. ds \in Seq(DB) /\ Len(ds) = Len(dbs) /\ ds[1] = d /\ \A j \in 2..Len(dbs) : ds[j] = r.dbs[j]
    BY <1>1, <1>2, <1>6, ExceptSeq
  <1> HIDE DEF ds
  <1> QED
    BY <1>4, <1>6, <1>7, <1>9, <1>10, <1>11

\* SSTORE, CREATE's nonce and a contract's code.
LEMMA CallWritesInv ==
    ASSUME StateDbInv, NEW k \in keys, CallWrites(k)
    PROVE  StateDbInv'
  <1> DEFINE d == Set(dbs[1], k, Foreign)
             ds == [dbs EXCEPT ![1] = d]
  <1>1. /\ dbs' = ds /\ Dirty(k) /\ running' \in BOOLEAN
        /\ UNCHANGED <<chain, block, keys, zeroed, written, since>>
    BY DEF CallWrites, StateDbInv, TypeInv
  <1>2. /\ 1 \in 1..Len(dbs) /\ Len(dbs) \in Nat /\ dbs[1] \in DB
        /\ k \in Key /\ "code" \in Key
    BY LayerTypes DEF StateDbInv, TypeInv, Key
  <1>3. /\ d \in DB /\ d.im = dbs[1].im /\ d.imHash = dbs[1].imHash
        /\ d.bf = [dbs[1].bf EXCEPT ![k] = Foreign]
        /\ d.bfHash = IF k = "code" THEN HashOf(Foreign) ELSE dbs[1].bfHash
    <2>1. Foreign \in Nat
      BY Constants
    <2> QED
      BY <1>2, <2>1, SetFacts
  <1>4. dbs[1].bf \in [Key -> Val] /\ dbs[1].bfHash = HashOf(dbs[1].bf["code"])
    BY <1>2 DEF DB, StateDbInv, HashesOK
  <1>5. d.bfHash = HashOf(d.bf["code"]) /\ \A q \in Key \ {k} : d.bf[q] = dbs[1].bf[q]
    BY <1>2, <1>3, <1>4
  <1>6. d \in DB /\ d.im = dbs[1].im /\ d.imHash = dbs[1].imHash
    BY <1>3
  <1> HIDE DEF d
  <1>7. ds \in Seq(DB) /\ Len(ds) = Len(dbs) /\ ds[1] = d /\ \A j \in 2..Len(dbs) : ds[j] = dbs[j]
    BY <1>2, <1>6, ExceptSeq DEF StateDbInv, TypeInv
  <1> HIDE DEF ds
  <1> QED
    BY <1>1, <1>2, <1>5, <1>6, <1>7, CallStepInv

\* A transfer, that of BeginCall too.
LEMMA MoveBalanceInv ==
    ASSUME StateDbInv, NEW amount \in Nat, NEW ok \in BOOLEAN,
           dbs' = MoveBalance(amount, ok), Dirty("balance"), running' \in BOOLEAN,
           UNCHANGED <<chain, block, keys, zeroed, written, since>>
    PROVE  StateDbInv'
  <1> DEFINE ds == MoveBalance(amount, ok)
  <1>1. "balance" \in Key
    BY DEF Key
  <1>2. /\ ds \in Seq(DB) /\ Len(ds) = Len(dbs)
        /\ ds[1].im = dbs[1].im /\ ds[1].imHash = dbs[1].imHash
        /\ ds[1].bfHash = HashOf(ds[1].bf["code"])
        /\ \A q \in Key \ {"balance"} : ds[1].bf[q] = dbs[1].bf[q]
        /\ \A j \in 2..Len(dbs) : ds[j] = dbs[j]
    BY MoveBalanceFacts
  <1>3. dbs' = ds
    OBVIOUS
  <1> HIDE DEF ds
  <1> QED
    BY <1>1, <1>2, <1>3, CallStepInv

\* Nothing that the invariant is about changes.
LEMMA SameStateInv ==
    ASSUME StateDbInv, running' \in BOOLEAN,
           UNCHANGED <<keys, zeroed, chain, block, dbs, dirtied, tainted, written, since>>
    PROVE  StateDbInv'
  <1>1. TypeInv'
    BY DEF StateDbInv, TypeInv
  <1>2. ReplicaOK' /\ HashesOK'
    BY DEF StateDbInv, ReplicaOK, Right, StillZeroed, HashesOK
  <1>3. OverlaysOK'
    BY DEF StateDbInv, OverlaysOK, Explained
  <1> QED
    BY <1>1, <1>2, <1>3 DEF StateDbInv

\* The invariant is inductive.
LEMMA StepInv == StateDbInv /\ [Next]_vars => StateDbInv'
  <1> SUFFICES ASSUME StateDbInv, [Next]_vars PROVE StateDbInv'
    OBVIOUS
  <1>1. ASSUME NEW i \in Layer, NEW k \in keys, Read(i, k) PROVE StateDbInv'
    BY <1>1, ReadInv
  <1>2. ASSUME NEW changed \in SUBSET keys, ApplyBlockDiff(changed) PROVE StateDbInv'
    BY <1>2, ApplyBlockDiffInv
  <1>3. CASE NewOverlay
    BY <1>3, NewOverlayInv
  <1>4. CASE Discard
    BY <1>4, DiscardInv
  <1>5. ASSUME NEW i \in Layer, SetStorageSlot(i) PROVE StateDbInv'
    BY <1>5, SetStorageSlotInv
  <1>6. ASSUME NEW i \in Layer, NEW code \in {0, Foreign}, SetAccount(i, code) PROVE StateDbInv'
    BY <1>6, SetAccountInv
  <1>7. CASE BeginCall
    <2>1. PICK ok \in BOOLEAN : dbs' = MoveBalance(0, ok)
      BY <1>7 DEF BeginCall
    <2>2. Dirty("balance") /\ running' \in BOOLEAN /\ UNCHANGED <<chain, block, keys, zeroed, written, since>>
      BY <1>7 DEF BeginCall
    <2> QED
      BY <2>1, <2>2, MoveBalanceInv
  <1>8. ASSUME NEW k \in keys \ {"balance"}, CallWrites(k) PROVE StateDbInv'
    BY <1>8, CallWritesInv
  <1>9. ASSUME NEW amount \in {1, Word - 1}, CallTransfers(amount) PROVE StateDbInv'
    <2>1. PICK ok \in BOOLEAN : dbs' = MoveBalance(amount, ok)
      BY <1>9 DEF CallTransfers
    <2>2. Dirty("balance") /\ running' \in BOOLEAN /\ UNCHANGED <<chain, block, keys, zeroed, written, since>>
      BY <1>9 DEF CallTransfers, StateDbInv, TypeInv
    <2>3. amount \in Nat
      BY Constants
    <2> QED
      BY <2>1, <2>2, <2>3, MoveBalanceInv
  <1>10. CASE EndCall
    BY <1>10, SameStateInv DEF EndCall
  <1>11. CASE UNCHANGED vars
    <2>1. UNCHANGED <<keys, zeroed, chain, block, dbs, dirtied, tainted, written, since>> /\ running' \in BOOLEAN
      BY <1>11 DEF vars, StateDbInv, TypeInv
    <2> QED
      BY <2>1, SameStateInv
  <1> QED
    BY <1>1, <1>2, <1>3, <1>4, <1>5, <1>6, <1>7, <1>8, <1>9, <1>10, <1>11 DEF Next

\* The invariant in every reachable state.
THEOREM StateDbInvariant == Spec => []StateDbInv
  BY InitInv, StepInv, PTL DEF Spec

-----------------------------------------------------------------------------
(***************************************************************************)
(* The properties.                                                         *)
(***************************************************************************)

(***************************************************************************)
(* For any number of layers and blocks: what the replica answers is the    *)
(* chain's state at its block, unless a call executed on it wrote the key  *)
(* or it is the dump's 0 of an uncached balance or nonce (code: of some    *)
(* block since the dump), and GetCodeHash is the hash of GetCode in every  *)
(* layer.                                                                  *)
(***************************************************************************)
THEOREM StateDbReplicaIsChain == Spec => []ReplicaIsChain
  <1>1. StateDbInv => ReplicaIsChain
    <2> SUFFICES ASSUME StateDbInv PROVE ReplicaIsChain
      OBVIOUS
    <2>1. /\ \A j \in 1..Len(dbs) : dbs[j] \in DB
          /\ DOMAIN dbs = 1..Len(dbs) /\ 1 \in 1..Len(dbs) /\ Len(dbs) \in Nat
      BY LayerTypes DEF StateDbInv
    <2>2. ASSUME NEW k \in Key \ dirtied, Known(dbs[1], k) # Absent
          PROVE  IF k = "code" THEN \E b \in 0..block : Known(dbs[1], k) = chain[b][k]
                               ELSE \/ Known(dbs[1], k) = chain[block][k]
                                    \/ StillZeroed(k) /\ Known(dbs[1], k) = 0
      <3>1. Known(dbs[1], k) \in {dbs[1].im[k], dbs[1].bf[k]}
        BY <2>1, <2>2, KnownFacts
      <3>2. Right(k, Known(dbs[1], k))
        BY <2>2, <3>1 DEF StateDbInv, ReplicaOK
      <3> QED
        BY <3>2 DEF Right, StillZeroed
    <2>3. ASSUME NEW i \in DOMAIN dbs, Known(dbs[i], "code") # Absent, i = 1 => "code" \notin dirtied
          PROVE  HashKnown(dbs[i]) = Keccak(Known(dbs[i], "code"))
      <3>1. dbs[i].bfHash = HashOf(dbs[i].bf["code"])
        BY <2>1 DEF StateDbInv, HashesOK
      <3>2. CASE i = 1
        <4>1. /\ dbs[i].imHash = HashOf(dbs[i].im["code"])
              /\ dbs[i].bf["code"] # Absent => dbs[i].im["code"] = Absent
          BY <2>3, <3>2 DEF StateDbInv, HashesOK
        <4> QED
          BY <2>3, <3>1, <4>1 DEF HashKnown, Known, HashOf
      <3>3. CASE i # 1
        <4>1. i \in 2..Len(dbs)
          BY <2>1, <3>3
        <4>2. dbs[i].im["code"] = Absent /\ dbs[i].imHash = Absent
          BY <4>1, NewStateDBFacts DEF StateDbInv, HashesOK, Key
        <4> QED
          BY <2>3, <3>1, <4>2 DEF HashKnown, Known, HashOf
      <3> QED
        BY <3>2, <3>3
    <2> QED
      BY <2>2, <2>3 DEF ReplicaIsChain
  <1> QED
    BY <1>1, StateDbInvariant, PTL

(***************************************************************************)
(* For any number of layers and blocks: an overlay answers with what it    *)
(* was given, whatever is read through it or happens below it, and with    *)
(* nothing older than the lowest overlay where it was given nothing.       *)
(***************************************************************************)
THEOREM StateDbOverlaysAnswer == Spec => []OverlaysAnswer
  <1>1. StateDbInv => OverlaysAnswer
    <2> SUFFICES ASSUME StateDbInv, NEW i \in DOMAIN dbs \ {1}, NEW k \in Key
                 PROVE  /\ written[i][k] # Absent => Known(dbs[i], k) = written[i][k]
                        /\ Known(dbs[i], k) # Absent /\ k \notin tainted =>
                              Explained(i, k, Known(dbs[i], k))
      BY DEF OverlaysAnswer, Explained
    <2>1. i \in 1..Len(dbs) /\ i \in 2..Len(dbs) /\ dbs[i] \in DB
      BY LayerTypes DEF StateDbInv
    <2>2. Known(dbs[i], k) = dbs[i].bf[k]
      BY <2>1, KnownFacts, NewStateDBFacts DEF StateDbInv, HashesOK
    <2> QED
      BY <2>1, <2>2 DEF StateDbInv, OverlaysOK
  <1> QED
    BY <1>1, StateDbInvariant, PTL
=============================================================================
