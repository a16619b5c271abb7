---------------------------- MODULE ArbBotProofs ----------------------------
(***************************************************************************)
(* Proofs about the arbitrage bot (ArbBot), for every set of tokens,       *)
(* pools, hubs, sizes and trades and every bound.                          *)
(*                                                                         *)
(* NoNonceGap rests on the shape of the chain and on one transaction per   *)
(* nonce in the node's pool.  OnePerBlock rests on the order of the block  *)
(* events and, between a lost confirmation and the next attempt, on the    *)
(* nonce that both share.                                                  *)
(*                                                                         *)
(* SentHoldsOnChain rests on what the search can find.  That is a tower of *)
(* folds: over the legs of a swap, the edges, nodes, tokens and layers of  *)
(* the search, the candidates, and the rounds of the size search.  A fold  *)
(* is unrolled by induction on its length (UpTo), from the least counter-  *)
(* example; a set of values closed under its step contains its result.     *)
(*                                                                         *)
(* SearchIsExact compares two such towers step by step: the searches with  *)
(* and without pruning agree, after each layer, on the candidates and on   *)
(* the nodes at the tokens that still reach the hub (Same); everything     *)
(* else is at tokens none of whose edges leads there (Dead).               *)
(***************************************************************************)
EXTENDS ArbBot, FiniteSetTheorems, WellFoundedInduction, SequenceTheorems, TLAPS

\* A block of the chain has these four parts.
IsBlock(s) ==
  /\ s = [pools |-> s.pools, bal |-> s.bal, approved |-> s.approved, nonce |-> s.nonce]
  /\ s.nonce \in Nat

\* The chain is a nonempty sequence of blocks.
ChainShape ==
  /\ Len(chain) \in Nat \ {0}
  /\ chain = [b \in 1..Len(chain) |-> chain[b]]
  /\ \A b \in 1..Len(chain) : IsBlock(chain[b])

\* The node holds finitely many transactions, one per nonce.
OnePerNonce ==
  /\ IsFiniteSet(mempool)
  /\ \A t, u \in mempool : t.nonce = u.nonce => t = u

NonceInv == ChainShape /\ OnePerNonce /\ nextNonce \in Nat /\ NoNonceGap

\* The parts of the bot.
IsBot(b) ==
  /\ b = [pc |-> b.pc, hub |-> b.hub, block |-> b.block, listening |-> b.listening,
          sent |-> b.sent, found |-> b.found, maxBalance |-> b.maxBalance, price |-> b.price]
  /\ b.pc \in {"start", "approve", "initial", "ran", "wait", "event", "verify", "submit"}
  /\ b.hub \in Nat /\ b.block \in Nat /\ b.sent \in BOOLEAN
-----------------------------------------------------------------------------
\* The order of the natural numbers is well-founded.
LEMMA LessIsWellFounded == IsWellFoundedOn({ss \in Nat \X Nat : ss[1] < ss[2]}, Nat)
  BY NatLessThanWellFounded DEF OpToRel

\* A set of natural numbers that is not empty has a least element.
LEMMA LeastElement ==
  ASSUME NEW T \in SUBSET Nat, T # {}
  PROVE  \E m \in T : \A k \in T : m <= k
  <1> DEFINE R == {ss \in Nat \X Nat : ss[1] < ss[2]}
  <1>1. PICK m \in T : \A k \in T : ~ (<<k, m>> \in R)
    BY LessIsWellFounded, WFMin, Zenon
  <1>2. \A k \in T : ~ (k < m)
    BY <1>1
  <1> QED
    BY <1>2

\* Induction up to n, about a set of natural numbers.
LEMMA UpTo ==
  ASSUME NEW n \in Nat, NEW G, 0 \in G, \A k \in 1..n : k - 1 \in G => k \in G
  PROVE  \A k \in 0..n : k \in G
  <1> DEFINE T == {k \in 0..n : k \notin G}
  <1>1. ASSUME T # {} PROVE FALSE
    <2>1. T \in SUBSET Nat
      OBVIOUS
    <2>2. PICK m \in T : \A k \in T : m <= k
      BY <1>1, <2>1, LeastElement
    <2>3. m \in 1..n /\ m - 1 \in 0..n /\ ~(m <= m - 1)
      BY <2>2
    <2> QED
      BY <2>2, <2>3
  <1> QED
    BY <1>1

\* The largest element of an initial segment with one more number.
LEMMA MaxOf ==
  ASSUME NEW k \in Nat, NEW s, s \subseteq 1..(k + 1), k + 1 \in s
  PROVE  Max(s) = k + 1
  <1>1. \A y \in s : k + 1 >= y
    OBVIOUS
  <1>2. \A x \in s : (\A y \in s : x >= y) => x = k + 1
    OBVIOUS
  <1>3. Max(s) \in s /\ \A y \in s : Max(s) >= y
    BY <1>1, Zenon DEF Max
  <1> QED
    BY <1>2, <1>3

\* g has a value for every set of indices, from its largest element down to base.
IsFold(n, T, base, F, g) ==
  /\ g \in [SUBSET (1..n) -> T] /\ g[{}] = base
  /\ \A s \in SUBSET (1..n) : s # {} =>
       /\ g[s \ {Max(s)}] \in T /\ Max(s) \in 1..n
       /\ g[s] = F[<<g[s \ {Max(s)}], Max(s)>>]

\* Max of a set of indices is one of them.
LEMMA MaxIn ==
  ASSUME NEW n \in Nat, NEW s \in SUBSET (1..n), s # {}
  PROVE  Max(s) \in s
  <1> DEFINE U == {n - x : x \in s}
  <1>1. U \in SUBSET Nat /\ U # {}
    <2>1. \A x \in s : x \in 1..n /\ n - x \in Nat
      OBVIOUS
    <2> QED
      BY <2>1
  <1>2. PICK u \in U : \A v \in U : u <= v
    BY <1>1, LeastElement
  <1>3. PICK x \in s : u = n - x
    BY <1>2
  <1>4. \A y \in s : x >= y
    <2>1. \A y \in s : y \in Nat /\ u <= n - y
      BY <1>2
    <2> QED
      BY <1>3, <2>1
  <1> QED
    BY <1>4, Zenon DEF Max

(* A fold over n elements has a value: the function from the sets of       *)
(* indices to the values that the definition of FoldLeft chooses exists.   *)
LEMMA FoldExists ==
  ASSUME NEW n \in Nat, NEW T, NEW base \in T, NEW F \in [T \X (1..n) -> T]
  PROVE  \E g : IsFold(n, T, base, F, g)
  <1> DEFINE Sol(k, g) == \A s \in SUBSET (1..k) :
               g[s] = IF s = {} THEN base ELSE F[<<g[s \ {Max(s)}], Max(s)>>]
             G == {k \in 0..n : \E g \in [SUBSET (1..k) -> T] : Sol(k, g)}
  <1>1. 0 \in G
    <2> DEFINE g0 == [s \in SUBSET (1..0) |-> base]
    <2>1. g0 \in [SUBSET (1..0) -> T]
      OBVIOUS
    <2>2. \A s \in SUBSET (1..0) : s = {}
      OBVIOUS
    <2>3. \A s \in SUBSET (1..0) : g0[s] = base
      OBVIOUS
    <2>4. Sol(0, g0)
      BY <2>2, <2>3, Zenon
    <2> HIDE DEF g0, Sol
    <2>5. 0 \in 0..n
      OBVIOUS
    <2> QED
      BY <2>1, <2>4, <2>5
  <1>2. ASSUME NEW m \in 1..n, m - 1 \in G PROVE m \in G
    <2> DEFINE k == m - 1
    <2>1. k \in Nat /\ m = k + 1 /\ k + 1 \in 1..n
      OBVIOUS
    <2>2. PICK g \in [SUBSET (1..k) -> T] : Sol(k, g)
      BY <1>2
    <2> HIDE DEF k
    <2> DEFINE h == [s \in SUBSET (1..(k + 1)) |->
                       IF k + 1 \in s THEN F[<<g[s \ {k + 1}], k + 1>>] ELSE g[s]]
    <2>3. \A s \in SUBSET (1..(k + 1)) : s \ {k + 1} \in SUBSET (1..k)
      BY <2>1
    <2>4. \A s \in SUBSET (1..(k + 1)) : k + 1 \notin s => s \in SUBSET (1..k)
      BY <2>1
    <2>5. \A s \in SUBSET (1..k) : k + 1 \notin s /\ s \in SUBSET (1..(k + 1))
      BY <2>1
    <2>6. ASSUME NEW s \in SUBSET (1..(k + 1)) PROVE h[s] \in T
      <3>1. CASE k + 1 \in s
        <4>1. g[s \ {k + 1}] \in T
          BY <2>3
        <4>2. <<g[s \ {k + 1}], k + 1>> \in T \X (1..n)
          BY <2>1, <4>1
        <4> QED
          BY <3>1, <4>2
      <3>2. CASE k + 1 \notin s
        BY <2>4, <3>2
      <3> QED
        BY <3>1, <3>2
    <2>7. h \in [SUBSET (1..(k + 1)) -> T]
      BY <2>6
    <2>8. \A s \in SUBSET (1..k) : h[s] = g[s]
      BY <2>5
    <2>9. \A s \in SUBSET (1..(k + 1)) : k + 1 \in s => h[s] = F[<<g[s \ {k + 1}], k + 1>>]
      OBVIOUS
    <2>10. ASSUME NEW s \in SUBSET (1..(k + 1))
           PROVE  h[s] = IF s = {} THEN base ELSE F[<<h[s \ {Max(s)}], Max(s)>>]
      <3> HIDE DEF h
      <3>1. CASE k + 1 \in s
        <4>1. Max(s) = k + 1
          BY <2>1, <3>1, MaxOf
        <4>2. h[s \ {k + 1}] = g[s \ {k + 1}]
          BY <2>3, <2>8
        <4> QED
          BY <2>9, <3>1, <4>1, <4>2
      <3>2. CASE k + 1 \notin s
        <4>1. s \in SUBSET (1..k) /\ s \ {Max(s)} \in SUBSET (1..k)
          BY <2>4, <3>2
        <4>2. h[s] = g[s] /\ h[s \ {Max(s)}] = g[s \ {Max(s)}]
          BY <2>8, <4>1
        <4>3. g[s] = IF s = {} THEN base ELSE F[<<g[s \ {Max(s)}], Max(s)>>]
          BY <2>2, <4>1
        <4> QED
          BY <4>2, <4>3
      <3> QED
        BY <3>1, <3>2
    <2>11. Sol(k + 1, h)
      BY <2>10
    <2> HIDE DEF h, Sol
    <2> QED
      BY <2>1, <2>7, <2>11
  <1> HIDE DEF Sol
  <1>3. \A k \in 1..n : k - 1 \in G => k \in G
    BY <1>2
  <1> HIDE DEF G
  <1>4. n \in G
    <2>1. \A k \in 0..n : k \in G
      BY <1>1, <1>3, UpTo
    <2> QED
      BY <2>1
  <1>5. PICK g \in [SUBSET (1..n) -> T] : Sol(n, g)
    BY <1>4 DEF G
  <1>6. \A s \in SUBSET (1..n) : g[s] = IF s = {} THEN base ELSE F[<<g[s \ {Max(s)}], Max(s)>>]
    BY <1>5, Zenon DEF Sol
  <1>7. \A s \in SUBSET (1..n) : s \ {Max(s)} \in SUBSET (1..n) /\ g[s \ {Max(s)}] \in T
    OBVIOUS
  <1>8. \A s \in SUBSET (1..n) : s # {} => Max(s) \in 1..n
    BY MaxIn
  <1>9. g[{}] = base
    BY <1>6
  <1>10. IsFold(n, T, base, F, g)
    BY <1>6, <1>7, <1>8, <1>9, Zenon DEF IsFold
  <1> QED
    BY <1>10

\* The initial segments, which are the sets a fold from the left goes through.
LEMMA Segments ==
  ASSUME NEW n \in Nat
  PROVE  /\ 1..0 = {}
         /\ \A k \in 1..n : /\ 1..k # {} /\ 1..k \in SUBSET (1..n) /\ 1..(k - 1) \in SUBSET (1..n)
                             /\ Max(1..k) = k /\ (1..k) \ {k} = 1..(k - 1)
  <1>1. 1..0 = {}
    OBVIOUS
  <1>2. ASSUME NEW k \in 1..n
        PROVE  /\ 1..k # {} /\ 1..k \in SUBSET (1..n) /\ 1..(k - 1) \in SUBSET (1..n)
               /\ Max(1..k) = k /\ (1..k) \ {k} = 1..(k - 1)
    <2>1. k - 1 \in Nat /\ 1..k \subseteq 1..((k - 1) + 1) /\ (k - 1) + 1 \in 1..k
      OBVIOUS
    <2>2. Max(1..k) = (k - 1) + 1
      BY <2>1, MaxOf, Zenon
    <2> QED
      BY <2>1, <2>2
  <1> QED
    BY <1>1, <1>2

\* What the function chosen by a fold satisfies, as long as it stays in T.
IsUnfolded(n, T, base, F, it) ==
  /\ it[{}] = base
  /\ \A s \in SUBSET (1..n) : s # {} /\ it[s \ {Max(s)}] \in T =>
       it[s] = F[<<it[s \ {Max(s)}], Max(s)>>]

\* Its values on the initial segments, step by step.
IsFolded(n, T, base, F, it) ==
  /\ it[1..0] = base /\ it[1..n] \in T
  /\ \A k \in 1..n : it[1..(k - 1)] \in T /\ it[1..k] = F[<<it[1..(k - 1)], k>>]

\* Such a function stays in T on the initial segments, step by step.
LEMMA FoldSteps ==
  ASSUME NEW n \in Nat, NEW T, NEW base \in T, NEW F \in [T \X (1..n) -> T],
         NEW it, IsUnfolded(n, T, base, F, it)
  PROVE  IsFolded(n, T, base, F, it)
  <1>1. it[1..0] = base
    BY Segments DEF IsUnfolded
  <1>2. ASSUME NEW k \in 1..n, it[1..(k - 1)] \in T
        PROVE  it[1..k] = F[<<it[1..(k - 1)], k>>] /\ it[1..k] \in T
    <2>1. /\ 1..k # {} /\ 1..k \in SUBSET (1..n)
          /\ Max(1..k) = k /\ (1..k) \ {k} = 1..(k - 1)
      BY Segments
    <2>2. it[1..k] = F[<<it[1..(k - 1)], k>>]
      BY <1>2, <2>1, Zenon DEF IsUnfolded
    <2>3. <<it[1..(k - 1)], k>> \in T \X (1..n)
      BY <1>2
    <2> QED
      BY <2>2, <2>3
  <1> DEFINE G == {k \in 0..n : it[1..k] \in T}
  <1>3. \A k \in 0..n : k \in G
    <2>1. 0 \in G
      BY <1>1
    <2>2. ASSUME NEW k \in 1..n, k - 1 \in G PROVE k \in G
      <3>1. it[1..(k - 1)] \in T /\ k \in 0..n
        BY <2>2
      <3>2. it[1..k] \in T
        BY <1>2, <3>1
      <3> QED
        BY <3>1, <3>2
    <2> HIDE DEF G
    <2> QED
      BY <2>1, <2>2, UpTo
  <1>4. \A k \in 0..n : it[1..k] \in T
    BY <1>3
  <1>5. \A k \in 1..n : k - 1 \in 0..n
    OBVIOUS
  <1> QED
    BY <1>1, <1>2, <1>4, <1>5 DEF IsFolded

\* The values of a fold from its base to its result, as a function on 0..n.
IsRun(n, T, base, F, result, f) ==
  /\ f \in [0..n -> T] /\ f[0] = base /\ f[n] = result
  /\ \A k \in 1..n : f[k] = F[<<f[k - 1], k>>]

\* A fold has them.
LEMMA FoldRun ==
  ASSUME NEW n \in Nat, NEW T, NEW base, NEW F, NEW it, IsFolded(n, T, base, F, it)
  PROVE  \E f : IsRun(n, T, base, F, it[1..n], f)
  <1> DEFINE f == [k \in 0..n |-> it[1..k]]
  <1>1. ASSUME NEW k \in 0..n PROVE it[1..k] \in T
    <2>1. CASE k = n
      BY <2>1 DEF IsFolded
    <2>2. CASE k # n
      <3>1. k + 1 \in 1..n /\ (k + 1) - 1 = k
        BY <2>2
      <3> QED
        BY <3>1 DEF IsFolded
    <2> QED
      BY <2>1, <2>2
  <1>2. f \in [0..n -> T]
    BY <1>1
  <1>3. f[0] = base /\ f[n] = it[1..n]
    BY DEF IsFolded
  <1>4. ASSUME NEW k \in 1..n PROVE f[k] = F[<<f[k - 1], k>>]
    <2>1. k \in 0..n /\ k - 1 \in 0..n
      OBVIOUS
    <2>2. f[k] = it[1..k] /\ f[k - 1] = it[1..(k - 1)]
      BY <2>1
    <2> HIDE DEF f
    <2> QED
      BY <2>2 DEF IsFolded
  <1>5. IsRun(n, T, base, F, it[1..n], f)
    <2> HIDE DEF f
    <2> QED
      BY <1>2, <1>3, <1>4 DEF IsRun
  <1> QED
    BY <1>5

\* Only the first leg of a route has an amount of its own: it is the input.
LEMMA TotalInOfRoute ==
  ASSUME NEW steps, NEW n \in Nat \ {0}, n = Len(steps), NEW a \in Nat, NEW amounts,
         amounts = [i \in 1..n |-> IF i = 1 THEN a ELSE 0]
  PROVE  TotalIn(steps, amounts) = a
  <1> DEFINE seq == [i \in 1..Len(steps) |-> i]
             op(t, i) == IF steps[i].tokenIn = steps[1].tokenIn THEN t + amounts[i] ELSE t
             body(it) == [s \in SUBSET DOMAIN seq |->
                            IF s = {} THEN 0 ELSE op(it[s \ {Max(s)}], seq[Max(s)])]
             it == CHOOSE it : it = body(it)
             F == [ti \in Nat \X (1..n) |-> op(ti[1], seq[ti[2]])]
  <1>1. TotalIn(steps, amounts) = it[DOMAIN seq]
    BY Zenon DEF TotalIn, FoldLeft, MapThenFoldSet
  <1>2. DOMAIN seq = 1..n /\ \A i \in 1..n : seq[i] = i
    OBVIOUS
  <1>3. 0 \in Nat /\ \A t \in Nat, i \in 1..n : op(t, seq[i]) \in Nat
    OBVIOUS
  <1> HIDE DEF op, seq
  <1>4. /\ F \in [Nat \X (1..n) -> Nat]
        /\ \A v \in Nat, i \in 1..n : F[<<v, i>>] = op(v, seq[i])
    BY <1>3
  <1> HIDE DEF F
  <1>5. PICK g : IsFold(n, Nat, 0, F, g)
    BY <1>3, <1>4, FoldExists
  <1>6. g = body(g)
    <2>1. ASSUME NEW s \in SUBSET (1..n)
          PROVE  g[s] = IF s = {} THEN 0 ELSE op(g[s \ {Max(s)}], seq[Max(s)])
      <3>1. s # {} => /\ g[s \ {Max(s)}] \in Nat /\ Max(s) \in 1..n
                       /\ g[s] = F[<<g[s \ {Max(s)}], Max(s)>>]
        BY <1>5 DEF IsFold
      <3>2. s = {} => g[s] = 0
        BY <1>5 DEF IsFold
      <3> QED
        BY <1>4, <3>1, <3>2, Zenon
    <2>2. g = [s \in SUBSET (1..n) |-> g[s]]
      BY <1>5 DEF IsFold
    <2> QED
      BY <1>2, <2>1, <2>2, Zenon
  <1>7. it = body(it)
    <2> HIDE DEF body
    <2> QED
      BY <1>6, Zenon
  <1> HIDE DEF it
  <1>8. IsUnfolded(n, Nat, 0, F, it)
    <2>1. \A s \in SUBSET (1..n) :
            it[s] = IF s = {} THEN 0 ELSE op(it[s \ {Max(s)}], seq[Max(s)])
      BY <1>2, <1>7, Zenon
    <2>2. \A s \in SUBSET (1..n) : s # {} => Max(s) \in 1..n
      BY MaxIn
    <2> QED
      BY <1>4, <2>1, <2>2, Zenon DEF IsUnfolded
  <1>9. it[1..0] = 0 /\ \A k \in 1..n : it[1..k] = op(it[1..(k - 1)], k)
    <2>1. n \in Nat
      OBVIOUS
    <2>2. IsFolded(n, Nat, 0, F, it)
      BY <1>3, <1>4, <1>8, <2>1, FoldSteps
    <2>3. ASSUME NEW k \in 1..n PROVE it[1..k] = op(it[1..(k - 1)], k)
      <3>1. it[1..(k - 1)] \in Nat /\ it[1..k] = F[<<it[1..(k - 1)], k>>]
        BY <2>2 DEF IsFolded
      <3> QED
        <4>1. F[<<it[1..(k - 1)], k>>] = op(it[1..(k - 1)], seq[k])
          BY <1>4, <3>1
        <4>2. seq[k] = k
          BY <1>2
        <4> QED
          BY <3>1, <4>1, <4>2
    <2> QED
      BY <2>2, <2>3 DEF IsFolded
  <1>10. it[1..n] = a
    <2> DEFINE G == {k \in 0..n : k > 0 => it[1..k] = a}
    <2>1. \A k \in 1..n : k - 1 \in G => k \in G
      BY <1>9 DEF op
    <2>2. n \in G
      <3>1. 0 \in G
        OBVIOUS
      <3> HIDE DEF G
      <3>2. \A k \in 0..n : k \in G
        BY <2>1, <3>1, UpTo
      <3> QED
        BY <3>2
    <2> QED
      BY <2>2
  <1> QED
    BY <1>1, <1>2, <1>10

\* Legs between tokens, and executions whose pools and balances are natural.
LegSet == [pool : Pools, tokenIn : Tokens, tokenOut : Tokens]
Execution == [ok : BOOLEAN, pools : [Pools -> V2Pool], bal : [Tokens -> Nat]]

\* A quotient is at most a number whose product with the divisor is not less.
LEMMA QuotientBound ==
  ASSUME NEW x \in Nat, NEW y \in Nat \ {0}, NEW z \in Nat, x <= z * y
  PROVE  x \div y \in Nat /\ x \div y <= z
  <1> DEFINE q == x \div y
  <1>1. q \in Nat /\ y * q <= x
    OBVIOUS
  <1> HIDE DEF q
  <1>2. ASSUME ~(q <= z) PROVE FALSE
    <2>1. q >= z + 1
      BY <1>1, <1>2
    <2>2. y * q >= y * (z + 1)
      BY <1>1, <2>1
    <2>3. y * (z + 1) = z * y + y
      OBVIOUS
    <2> QED
      BY <1>1, <2>2, <2>3
  <1> QED
    BY <1>1, <1>2 DEF q

\* A constant-product pool does not pay more than its reserve.
LEMMA ProductOutBound ==
  ASSUME NEW dx \in Nat, NEW rIn \in Nat, NEW rOut \in Nat
  PROVE  ProductOut(dx, rIn, rOut) \in Nat /\ ProductOut(dx, rIn, rOut) <= rOut
  <1> DEFINE d == rIn * tenK
  <1>1. d \in Nat
    BY tenKAssumption
  <1>2. ProductOut(dx, rIn, rOut) = IF d + dx = 0 THEN 0 ELSE (dx * rOut) \div (d + dx)
    BY DEF ProductOut
  <1> HIDE DEF d
  <1>3. CASE d + dx # 0
    <2>1. dx * rOut \in Nat /\ d + dx \in Nat \ {0} /\ dx * rOut <= rOut * (d + dx)
      <3>1. d * rOut \in Nat /\ dx * rOut \in Nat
        BY <1>1
      <3>2. rOut * (d + dx) = d * rOut + dx * rOut
        BY <1>1
      <3> QED
        BY <1>1, <1>3, <3>1, <3>2
    <2> QED
      BY <1>2, <1>3, <2>1, QuotientBound
  <1> QED
    BY <1>1, <1>2, <1>3

\* What a pair takes and pays keeps its reserves and balances natural.
LEMMA PairKept ==
  ASSUME NEW p \in V2Pool, NEW amt \in Nat, NEW tokenIn, NEW tokenOut
  PROVE  /\ QuoteV2(p, amt, tokenIn, tokenOut) \in Nat
         /\ PairAfter(p, amt, QuoteV2(p, amt, tokenIn, tokenOut), tokenIn < tokenOut) \in V2Pool
  <1> DEFINE dx == amt * p.factor
  <1>1. /\ p.reserve0 \in Nat /\ p.reserve1 \in Nat /\ p.factor \in Nat
        /\ p.balance0 \in Nat /\ p.balance1 \in Nat /\ dx \in Nat
    BY DEF V2Pool
  <1> DEFINE o1 == ProductOut(dx, p.reserve0, p.reserve1)
             o0 == ProductOut(dx, p.reserve1, p.reserve0)
             q1 == Payable(o1, p.deadDir0, p.balance1)
             q0 == Payable(o0, p.deadDir1, p.balance0)
  <1>2. o1 \in Nat /\ o1 <= p.reserve1 /\ o0 \in Nat /\ o0 <= p.reserve0
    <2> HIDE DEF dx
    <2> QED
      BY <1>1, ProductOutBound
  <1>3. QuoteV2(p, amt, tokenIn, tokenOut) = IF tokenIn < tokenOut THEN q1 ELSE q0
    BY DEF QuoteV2
  <1> HIDE DEF o1, o0, dx
  <1>4. /\ q1 \in Nat /\ q1 <= p.reserve1 /\ (p.balance1 # 0 => q1 <= p.balance1)
        /\ q0 \in Nat /\ q0 <= p.reserve0 /\ (p.balance0 # 0 => q0 <= p.balance0)
    BY <1>1, <1>2 DEF Payable
  <1> HIDE DEF q1, q0
  <1>5. ASSUME NEW z \in BOOLEAN, NEW out, out = IF z THEN q1 ELSE q0
        PROVE  out \in Nat /\ PairAfter(p, amt, out, z) \in V2Pool
    <2> DEFINE d0 == IF z THEN amt ELSE -out
               d1 == IF z THEN -out ELSE amt
               m0 == IF p.balance0 = 0 THEN 0 ELSE p.balance0 + d0
               m1 == IF p.balance1 = 0 THEN 0 ELSE p.balance1 + d1
    <2>1. out \in Nat /\ p.reserve0 + d0 \in Nat /\ p.reserve1 + d1 \in Nat /\ m0 \in Nat /\ m1 \in Nat
      BY <1>1, <1>4, <1>5
    <2>2. PairAfter(p, amt, out, z) = [p EXCEPT !.reserve0 = @ + d0, !.reserve1 = @ + d1,
                                                !.balance0 = m0, !.balance1 = m1]
      BY DEF PairAfter, V2Pool
    <2> HIDE DEF d0, d1, m0, m1
    <2> QED
      BY <2>1, <2>2 DEF V2Pool
  <1>6. (tokenIn < tokenOut) \in BOOLEAN
    OBVIOUS
  <1> QED
    BY <1>3, <1>5, <1>6

\* A leg that takes no more than the router holds keeps an execution one.
LEMMA LegKept ==
  ASSUME NEW ex \in Execution, NEW leg \in LegSet, NEW a \in Nat
  PROVE  _swapLeg(ex, leg, LegAmount(ex.bal[leg.tokenIn], a)) \in Execution
  <1> DEFINE b == ex.bal[leg.tokenIn]
             amt == LegAmount(b, a)
             pr == ex.pools[leg.pool]
             out == QuoteV2(pr, amt, leg.tokenIn, leg.tokenOut)
             after == PairAfter(pr, amt, out, leg.tokenIn < leg.tokenOut)
  <1>1. /\ leg.pool \in Pools /\ leg.tokenIn \in Tokens /\ leg.tokenOut \in Tokens
        /\ b \in Nat /\ pr \in V2Pool
    BY DEF LegSet, Execution
  <1>2. amt \in Nat /\ amt <= b
    BY <1>1 DEF LegAmount
  <1> HIDE DEF amt
  <1>3. out \in Nat /\ after \in V2Pool
    <2> HIDE DEF pr
    <2> QED
      BY <1>1, <1>2, PairKept
  <1> HIDE DEF out, after, pr
  <1> DEFINE bal1 == [ex.bal EXCEPT ![leg.tokenIn] = @ - amt, ![leg.tokenOut] = @ + out]
  <1>4. bal1 \in [Tokens -> Nat]
    <2> DEFINE b1 == [ex.bal EXCEPT ![leg.tokenIn] = b - amt]
    <2>1. b1 \in [Tokens -> Nat]
      BY <1>1, <1>2 DEF Execution
    <2>2. bal1 = [b1 EXCEPT ![leg.tokenOut] = b1[leg.tokenOut] + out]
      BY <1>1 DEF Execution
    <2> HIDE DEF b1, bal1
    <2> QED
      BY <1>1, <1>3, <2>1, <2>2
  <1>5. AfterLeg(ex, leg, amt, out) =
          IF out = 0 THEN [ex EXCEPT !.ok = FALSE]
          ELSE [ok |-> TRUE, pools |-> [ex.pools EXCEPT ![leg.pool] = after], bal |-> bal1]
    BY <1>1 DEF AfterLeg, Execution, after, pr
  <1> HIDE DEF bal1
  <1>6. AfterLeg(ex, leg, amt, out) \in Execution
    <2>1. [ex EXCEPT !.ok = FALSE] \in Execution
      BY DEF Execution
    <2>2. [ex.pools EXCEPT ![leg.pool] = after] \in [Pools -> V2Pool]
      BY <1>1, <1>3 DEF Execution
    <2>3. [ok |-> TRUE, pools |-> [ex.pools EXCEPT ![leg.pool] = after], bal |-> bal1] \in Execution
      BY <1>4, <2>2 DEF Execution
    <2> QED
      BY <1>5, <2>1, <2>3
  <1>7. _swapLeg(ex, leg, amt) = IF ~ex.ok THEN ex ELSE AfterLeg(ex, leg, amt, out)
    BY DEF _swapLeg, out, pr
  <1> QED
    BY <1>6, <1>7 DEF amt

\* The legs of a program keep an execution one.
LEMMA ProgramKept ==
  ASSUME NEW ex \in Execution, NEW steps \in Seq(LegSet), NEW amounts,
         \A i \in 1..Len(steps) : amounts[i] \in Nat
  PROVE  _executeSwapInner(ex, steps, amounts) \in Execution
  <1> DEFINE n == Len(steps)
             seq == [i \in 1..Len(steps) |-> i]
             op(e, i) == _swapLeg(e, steps[i], LegAmount(e.bal[steps[i].tokenIn], amounts[i]))
             body(it) == [s \in SUBSET DOMAIN seq |->
                            IF s = {} THEN ex ELSE op(it[s \ {Max(s)}], seq[Max(s)])]
             it == CHOOSE it : it = body(it)
             F == [ti \in Execution \X (1..n) |-> op(ti[1], seq[ti[2]])]
  <1>1. _executeSwapInner(ex, steps, amounts) = it[DOMAIN seq]
    BY Zenon DEF _executeSwapInner, FoldLeft, MapThenFoldSet
  <1>2. n \in Nat /\ DOMAIN seq = 1..n /\ \A i \in 1..n : seq[i] = i
    BY LenProperties
  <1>3. \A t \in Execution, i \in 1..n : op(t, seq[i]) \in Execution
    <2> SUFFICES ASSUME NEW t \in Execution, NEW i \in 1..n PROVE op(t, i) \in Execution
      BY <1>2
    <2>1. steps[i] \in LegSet /\ amounts[i] \in Nat
      BY ElementOfSeq
    <2> QED
      BY <2>1, LegKept
  <1> HIDE DEF n
  <1> HIDE DEF op, seq
  <1>4. /\ F \in [Execution \X (1..n) -> Execution]
        /\ \A v \in Execution, i \in 1..n : F[<<v, i>>] = op(v, seq[i])
    BY <1>3
  <1> HIDE DEF F
  <1>5. PICK g : IsFold(n, Execution, ex, F, g)
    BY <1>2, <1>3, <1>4, FoldExists
  <1>6. g = body(g)
    <2>1. ASSUME NEW s \in SUBSET (1..n)
          PROVE  g[s] = IF s = {} THEN ex ELSE op(g[s \ {Max(s)}], seq[Max(s)])
      <3>1. s # {} => /\ g[s \ {Max(s)}] \in Execution /\ Max(s) \in 1..n
                       /\ g[s] = F[<<g[s \ {Max(s)}], Max(s)>>]
        BY <1>5 DEF IsFold
      <3>2. s = {} => g[s] = ex
        BY <1>5 DEF IsFold
      <3> QED
        BY <1>4, <3>1, <3>2, Zenon
    <2>2. g = [s \in SUBSET (1..n) |-> g[s]]
      BY <1>5 DEF IsFold
    <2> QED
      BY <1>2, <2>1, <2>2, Zenon
  <1>7. it = body(it)
    <2> HIDE DEF body
    <2> QED
      BY <1>6, Zenon
  <1> HIDE DEF it
  <1>8. IsUnfolded(n, Execution, ex, F, it)
    <2>1. \A s \in SUBSET (1..n) :
            it[s] = IF s = {} THEN ex ELSE op(it[s \ {Max(s)}], seq[Max(s)])
      BY <1>2, <1>7, Zenon
    <2>2. \A s \in SUBSET (1..n) : s # {} => Max(s) \in 1..n
      BY <1>2, MaxIn
    <2> QED
      BY <1>4, <2>1, <2>2, Zenon DEF IsUnfolded
  <1>9. IsFolded(n, Execution, ex, F, it)
    BY <1>2, <1>4, <1>8, FoldSteps
  <1> QED
    BY <1>1, <1>2, <1>9 DEF IsFolded

\* The routes of a hub: legs from it and back to it.
Cycles(hub) == {path \in Seq(LegSet) : /\ path # <<>> /\ path[1].tokenIn = hub
                                       /\ path[Len(path)].tokenOut = hub}

(* A swap of a route of a hub that does not revert pays the sender its     *)
(* amountOut and takes the input; the pools and balances stay natural.     *)
LEMMA SwapOfCycle ==
  ASSUME NEW ps \in [Pools -> V2Pool], NEW hub \in Tokens, NEW path \in Cycles(hub),
         NEW a \in Nat, NEW sender \in [Tokens -> Int], NEW minOutput
  PROVE  LET r == swap(ps, path, [i \in DOMAIN path |-> IF i = 1 THEN a ELSE 0], minOutput, sender)
         IN /\ r.pools \in [Pools -> V2Pool] /\ r.sender \in [Tokens -> Int]
            /\ r.amountOut \in Int
            /\ r.ok => r.sender[hub] - sender[hub] = r.amountOut - a
  <1> DEFINE amounts == [i \in DOMAIN path |-> IF i = 1 THEN a ELSE 0]
             n == Len(path)
  <1>1. /\ path \in Seq(LegSet) /\ path[1].tokenIn = hub /\ path[n].tokenOut = hub
        /\ n \in Nat \ {0} /\ DOMAIN path = 1..n
    BY EmptySeq, LenProperties DEF Cycles
  <1>2. amounts = [i \in 1..n |-> IF i = 1 THEN a ELSE 0]
    BY <1>1
  <1>3. TotalIn(path, amounts) = a
    <2> HIDE DEF amounts
    <2> QED
      BY <1>1, <1>2, TotalInOfRoute
  <1> DEFINE ex0 == [ok |-> TRUE, pools |-> ps, bal |-> [t \in Tokens |-> IF t = hub THEN a ELSE 0]]
             ex == _executeSwapInner(ex0, path, amounts)
             pulled == [sender EXCEPT ![hub] = @ - a]
  <1>4. ex \in Execution
    <2>1. ex0 \in Execution
      BY DEF Execution
    <2>2. \A i \in 1..n : amounts[i] \in Nat
      BY <1>2
    <2> HIDE DEF amounts, ex0
    <2> QED
      BY <1>1, <2>1, <2>2, ProgramKept
  <1>5. swap(ps, path, amounts, minOutput, sender) =
          IF amounts[1] = 0 \/ sender[hub] < a THEN Reverted(ps, sender)
          ELSE Settle(ex, hub, minOutput, pulled, ps, sender)
    <2> HIDE DEF amounts
    <2>1. swap(ps, path, amounts, minOutput, sender) =
          IF amounts[1] = 0 \/ sender[path[1].tokenIn] < TotalIn(path, amounts) THEN Reverted(ps, sender)
          ELSE Settle(_executeSwapInner(
                 [ok |-> TRUE, pools |-> ps,
                  bal |-> [t \in Tokens |-> IF t = path[1].tokenIn THEN TotalIn(path, amounts) ELSE 0]],
                 path, amounts), path[Len(path)].tokenOut, minOutput,
                 [sender EXCEPT ![path[1].tokenIn] = @ - TotalIn(path, amounts)], ps, sender)
      BY Zenon DEF swap
    <2> QED
      BY <1>1, <1>3, <2>1, Zenon
  <1> DEFINE r == swap(ps, path, amounts, minOutput, sender)
  <1> HIDE DEF ex
  <1>6. CASE r = Reverted(ps, sender)
    BY <1>6 DEF Reverted
  <1>7. CASE r # Reverted(ps, sender)
    <2>1. r = Settle(ex, hub, minOutput, pulled, ps, sender)
      BY <1>5, <1>7, Zenon
    <2> HIDE DEF r
    <2>2. r = [ok |-> TRUE, amountOut |-> ex.bal[hub], pools |-> ex.pools,
               left |-> [ex.bal EXCEPT ![hub] = 0],
               sender |-> [pulled EXCEPT ![hub] = @ + ex.bal[hub]]]
      BY <1>7, <2>1, Zenon DEF Settle
    <2>3. ex.bal[hub] \in Nat /\ ex.pools \in [Pools -> V2Pool]
      BY <1>4 DEF Execution
    <2>4. sender[hub] \in Int /\ pulled \in [Tokens -> Int] /\ pulled[hub] = sender[hub] - a
      OBVIOUS
    <2> HIDE DEF pulled
    <2>5. /\ [pulled EXCEPT ![hub] = @ + ex.bal[hub]] \in [Tokens -> Int]
          /\ [pulled EXCEPT ![hub] = @ + ex.bal[hub]][hub] = sender[hub] - a + ex.bal[hub]
      BY <2>3, <2>4
    <2> QED
      BY <2>2, <2>3, <2>4, <2>5 DEF r
  <1> QED
    BY <1>6, <1>7
-----------------------------------------------------------------------------
\* A concatenation of sequences over S is one.
LEMMA FlattenTyped ==
  ASSUME NEW S, NEW seqs \in Seq(Seq(S))
  PROVE  FlattenSeq(seqs) \in Seq(S)
  <1> DEFINE n == Len(seqs)
             body(f) == [i \in 1..n |-> IF i = 1 THEN seqs[i] ELSE f[i - 1] \o seqs[i]]
             fl == CHOOSE f : f = body(f)
  <1>1. n \in Nat /\ \A i \in 1..n : seqs[i] \in Seq(S)
    BY LenProperties, ElementOfSeq
  <1>2. FlattenSeq(seqs) = IF n = 0 THEN seqs ELSE fl[n]
    BY Zenon DEF FlattenSeq
  <1>3. CASE n = 0
    <2>1. seqs = <<>>
      BY <1>3
    <2> QED
      BY <1>2, <1>3, <2>1, EmptySeq
  <1>4. CASE n # 0
    <2> HIDE DEF n
    <2> DEFINE Sol(k, f) == f \in [1..k -> Seq(S)] /\ \A i \in 1..k :
                              f[i] = IF i = 1 THEN seqs[i] ELSE f[i - 1] \o seqs[i]
               G == {k \in 0..n : \E f : Sol(k, f)}
    <2>1. 0 \in G
      <3> DEFINE f0 == [i \in 1..0 |-> seqs]
      <3>1. Sol(0, f0)
        OBVIOUS
      <3> HIDE DEF f0, Sol
      <3> QED
        BY <1>1, <3>1
    <2>2. ASSUME NEW m \in 1..n, m - 1 \in G PROVE m \in G
      <3>1. PICK f : Sol(m - 1, f)
        BY <2>2
      <3> DEFINE v == IF m = 1 THEN seqs[m] ELSE f[m - 1] \o seqs[m]
                 h == [i \in 1..m |-> IF i = m THEN v ELSE f[i]]
      <3>2. m \in Nat /\ m - 1 \in Nat /\ m \in 0..n /\ seqs[m] \in Seq(S)
        BY <1>1
      <3>3. v \in Seq(S)
        BY <3>1, <3>2, ConcatProperties
      <3>4. h \in [1..m -> Seq(S)]
        <4> HIDE DEF v
        <4> QED
          BY <3>1, <3>2, <3>3
      <3>5. ASSUME NEW i \in 1..m
            PROVE  h[i] = IF i = 1 THEN seqs[i] ELSE h[i - 1] \o seqs[i]
        <4>1. CASE i = m
          <5>1. h[i] = v /\ (m # 1 => h[m - 1] = f[m - 1])
            BY <3>2, <4>1
          <5> QED
            BY <4>1, <5>1
        <4>2. CASE i # m
          <5>1. i \in 1..(m - 1) /\ h[i] = f[i] /\ (i # 1 => h[i - 1] = f[i - 1])
            BY <3>2, <4>2
          <5> HIDE DEF h, v
          <5>2. f[i] = IF i = 1 THEN seqs[i] ELSE f[i - 1] \o seqs[i]
            BY <3>1, <5>1
          <5> QED
            BY <5>1, <5>2
        <4> QED
          BY <4>1, <4>2
      <3> HIDE DEF h, v
      <3>6. Sol(m, h)
        BY <3>4, <3>5
      <3> HIDE DEF Sol
      <3> QED
        BY <3>2, <3>6
    <2> HIDE DEF Sol
    <2>3. n \in G
      <3>1. \A k \in 1..n : k - 1 \in G => k \in G
        BY <2>2
      <3> HIDE DEF G
      <3>2. \A k \in 0..n : k \in G
        BY <1>1, <2>1, <3>1, UpTo
      <3> QED
        BY <1>1, <3>2
    <2>4. PICK f : Sol(n, f)
      BY <2>3
    <2>5. f = body(f)
      BY <2>4 DEF Sol
    <2>6. fl = body(fl)
      <3> HIDE DEF body
      <3> QED
        BY <2>5, Zenon
    <2> HIDE DEF fl
    <2>7. \A i \in 1..n : fl[i] = IF i = 1 THEN seqs[i] ELSE fl[i - 1] \o seqs[i]
      BY <2>6
    <2> DEFINE H == {k \in 0..n : k # 0 => fl[k] \in Seq(S)}
    <2>8. 0 \in H
      BY <1>1
    <2>9. ASSUME NEW k \in 1..n, k - 1 \in H PROVE k \in H
      <3>1. k # 1 => fl[k - 1] \in Seq(S)
        BY <2>9
      <3>2. fl[k] \in Seq(S)
        <4>1. CASE k = 1
          BY <1>1, <2>7, <4>1
        <4>2. CASE k # 1
          <5>1. fl[k] = fl[k - 1] \o seqs[k]
            BY <2>7, <4>2
          <5> QED
            BY <1>1, <3>1, <4>2, <5>1, ConcatProperties
        <4> QED
          BY <4>1, <4>2
      <3> QED
        BY <1>1, <3>2
    <2>10. n \in H
      <3> HIDE DEF H
      <3>1. \A k \in 0..n : k \in H
        BY <1>1, <2>8, <2>9, UpTo
      <3> QED
        BY <1>1, <3>1
    <2> QED
      BY <1>2, <1>4, <2>10
  <1> QED
    BY <1>3, <1>4

\* A function on 1..n is a sequence.
LEMMA SeqOfFunction ==
  ASSUME NEW n \in Nat, NEW S, NEW f \in [1..n -> S]
  PROVE  f \in Seq(S)
  BY SeqDef

\* The legs out of a token.
EdgesFrom(token) == {leg \in LegSet : leg.tokenIn = token}

\* The edges of a pool out of a token are legs out of that token.
LEMMA PoolEdgesTyped ==
  ASSUME NEW pool \in Pools, NEW ts \in Seq(Tokens), NEW token \in Tokens
  PROVE  PoolEdges(pool, ts, token) \in Seq(EdgesFrom(token))
  <1> DEFINE E == EdgesFrom(token)
             row(i) == [j \in DOMAIN ts |-> IF i = j \/ ts[i] # token THEN <<>>
                                            ELSE <<Leg(pool, token, ts[j])>>]
             rows == [i \in DOMAIN ts |-> FlattenSeq(row(i))]
  <1>1. Len(ts) \in Nat /\ DOMAIN ts = 1..Len(ts) /\ \A j \in 1..Len(ts) : ts[j] \in Tokens
    BY LenProperties, ElementOfSeq
  <1>2. PoolEdges(pool, ts, token) = FlattenSeq(rows)
    BY Zenon DEF PoolEdges
  <1>3. \A j \in 1..Len(ts) : Leg(pool, token, ts[j]) \in E
    BY <1>1 DEF EdgesFrom, LegSet, Leg
  <1> HIDE DEF E
  <1>4. \A j \in 1..Len(ts) : <<Leg(pool, token, ts[j])>> \in Seq(E) /\ <<>> \in Seq(E)
    BY <1>3
  <1>5. ASSUME NEW i \in 1..Len(ts) PROVE FlattenSeq(row(i)) \in Seq(E)
    <2>1. row(i) \in [1..Len(ts) -> Seq(E)]
      BY <1>1, <1>4
    <2> HIDE DEF row
    <2>2. row(i) \in Seq(Seq(E))
      BY <1>1, <2>1, SeqOfFunction
    <2> QED
      BY <2>2, FlattenTyped
  <1> HIDE DEF row
  <1>6. rows \in [1..Len(ts) -> Seq(E)]
    BY <1>1, <1>5
  <1> HIDE DEF rows
  <1>7. rows \in Seq(Seq(E))
    BY <1>1, <1>6, SeqOfFunction
  <1> QED
    BY <1>2, <1>7, FlattenTyped DEF E

\* An adjacency lists, for each token, legs out of it.
Adjacency == {adj \in [Tokens -> Seq(LegSet)] : \A t \in Tokens : adj[t] \in Seq(EdgesFrom(t))}

\* The bot's adjacency is one.
LEMMA AdjTyped == Adj \in Adjacency
  <1> DEFINE n == Len(Lines)
             idx(i) == ((i - 1) % 65536) + 1
             rows(t) == [i \in DOMAIN Lines |->
                           IF Len(Lines[i].tokens) < 2 \/ i \notin Pools THEN <<>>
                           ELSE PoolEdges(idx(i), Lines[i].tokens, t)]
  <1>1. n \in Nat /\ DOMAIN Lines = 1..n /\ \A i \in 1..n : Lines[i].tokens \in Seq(Tokens)
    <2>1. Lines \in Seq([tokens : Seq(Tokens)])
      BY BotAssumption
    <2>2. n \in Nat /\ DOMAIN Lines = 1..n /\ \A i \in 1..n : Lines[i] \in [tokens : Seq(Tokens)]
      BY <2>1, LenProperties, ElementOfSeq
    <2> QED
      BY <2>2
  <1>2. \A i \in 1..n : i \in Pools => idx(i) \in Pools
    <2>1. \A i \in DOMAIN Lines \intersect Pools : idx(i) \in Pools
      BY BotAssumption
    <2> HIDE DEF idx, n
    <2> QED
      BY <1>1, <2>1
  <1>3. ASSUME NEW t \in Tokens PROVE BuildAdjacency(Lines, Pools, t) \in Seq(EdgesFrom(t))
    <2>1. BuildAdjacency(Lines, Pools, t) = FlattenSeq(rows(t))
      BY DEF BuildAdjacency
    <2> HIDE DEF idx, n
    <2>2. \A i \in 1..n : i \in Pools => PoolEdges(idx(i), Lines[i].tokens, t) \in Seq(EdgesFrom(t))
      BY <1>1, <1>2, PoolEdgesTyped
    <2>3. rows(t) \in [1..n -> Seq(EdgesFrom(t))]
      BY <1>1, <2>2
    <2> HIDE DEF rows
    <2>4. rows(t) \in Seq(Seq(EdgesFrom(t)))
      BY <1>1, <2>3, SeqOfFunction
    <2> QED
      BY <2>1, <2>4, FlattenTyped
  <1>4. \A t \in Tokens : EdgesFrom(t) \subseteq LegSet
    BY DEF EdgesFrom
  <1>5. \A t \in Tokens : BuildAdjacency(Lines, Pools, t) \in Seq(LegSet)
    BY <1>3, <1>4, SeqMonotonic
  <1> QED
    BY <1>3, <1>5 DEF Adj, Adjacency

\* The edges of the selected pools are an adjacency too.
LEMMA FilterTyped ==
  ASSUME NEW adj \in Adjacency, NEW poolSet
  PROVE  filterAdjacency(adj, poolSet) \in Adjacency
  <1>1. ASSUME NEW t \in Tokens
        PROVE  FoldLeft(LAMBDA kept, e : IF e.pool \in poolSet THEN Append(kept, e) ELSE kept,
                        <<>>, adj[t]) \in Seq(EdgesFrom(t))
    <2> DEFINE S == Seq(EdgesFrom(t))
               n == Len(adj[t])
               seq == adj[t]
               op(kept, e) == IF e.pool \in poolSet THEN Append(kept, e) ELSE kept
               body(it) == [s \in SUBSET DOMAIN seq |->
                              IF s = {} THEN <<>> ELSE op(it[s \ {Max(s)}], seq[Max(s)])]
               it == CHOOSE it : it = body(it)
               F == [ti \in S \X (1..n) |-> op(ti[1], seq[ti[2]])]
    <2>1. FoldLeft(LAMBDA kept, e : IF e.pool \in poolSet THEN Append(kept, e) ELSE kept,
                   <<>>, adj[t]) = it[DOMAIN seq]
      BY Zenon DEF FoldLeft, MapThenFoldSet
    <2>2. n \in Nat /\ DOMAIN seq = 1..n
      BY LenProperties DEF Adjacency
    <2>3. <<>> \in S /\ \A k \in S, i \in 1..n : op(k, seq[i]) \in S
      <3>1. \A i \in 1..n : seq[i] \in EdgesFrom(t)
        BY ElementOfSeq DEF Adjacency
      <3> HIDE DEF seq, n
      <3> QED
        BY <3>1, AppendProperties, EmptySeq
    <2> HIDE DEF n, S
    <2> HIDE DEF op, seq
    <2>4. /\ F \in [S \X (1..n) -> S]
          /\ \A v \in S, i \in 1..n : F[<<v, i>>] = op(v, seq[i])
      BY <2>3
    <2> HIDE DEF F
    <2>5. PICK g : IsFold(n, S, <<>>, F, g)
      BY <2>2, <2>3, <2>4, FoldExists
    <2>6. g = body(g)
      <3>1. ASSUME NEW s \in SUBSET (1..n)
            PROVE  g[s] = IF s = {} THEN <<>> ELSE op(g[s \ {Max(s)}], seq[Max(s)])
        <4>1. s # {} => /\ g[s \ {Max(s)}] \in S /\ Max(s) \in 1..n
                         /\ g[s] = F[<<g[s \ {Max(s)}], Max(s)>>]
          BY <2>5 DEF IsFold
        <4>2. s = {} => g[s] = <<>>
          BY <2>5 DEF IsFold
        <4> QED
          BY <2>4, <4>1, <4>2, Zenon
      <3>2. g = [s \in SUBSET (1..n) |-> g[s]]
        BY <2>5 DEF IsFold
      <3> QED
        BY <2>2, <3>1, <3>2, Zenon
    <2>7. it = body(it)
      <3> HIDE DEF body
      <3> QED
        BY <2>6, Zenon
    <2> HIDE DEF it
    <2>8. IsUnfolded(n, S, <<>>, F, it)
      <3>1. \A s \in SUBSET (1..n) :
              it[s] = IF s = {} THEN <<>> ELSE op(it[s \ {Max(s)}], seq[Max(s)])
        BY <2>2, <2>7, Zenon
      <3>2. \A s \in SUBSET (1..n) : s # {} => Max(s) \in 1..n
        BY <2>2, MaxIn
      <3> QED
        BY <2>4, <3>1, <3>2, Zenon DEF IsUnfolded
    <2>9. IsFolded(n, S, <<>>, F, it)
      BY <2>2, <2>3, <2>4, <2>8, FoldSteps
    <2>10. it[DOMAIN seq] \in S
      BY <2>2, <2>9 DEF IsFolded
    <2> QED
      BY <2>1, <2>10 DEF S
  <1>2. \A t \in Tokens : EdgesFrom(t) \subseteq LegSet
    BY DEF EdgesFrom
  <1> DEFINE row(t) == FoldLeft(LAMBDA kept, e : IF e.pool \in poolSet THEN Append(kept, e) ELSE kept,
                                <<>>, adj[t])
  <1>3. filterAdjacency(adj, poolSet) = [t \in Tokens |-> row(t)]
    BY Zenon DEF filterAdjacency
  <1>4. \A t \in Tokens : row(t) \in Seq(EdgesFrom(t))
    BY <1>1, Zenon
  <1> HIDE DEF row
  <1>5. \A t \in Tokens : row(t) \in Seq(LegSet)
    BY <1>2, <1>4, SeqMonotonic
  <1> QED
    BY <1>3, <1>4, <1>5 DEF Adjacency

\* Top-K insertion puts in the new element or leaves the sequence as it is.
LEMMA KeepTopTyped ==
  ASSUME NEW S, NEW entries \in Seq(S), NEW node \in S
  PROVE  KeepTop(entries, node) \in Seq(S)
  <1>1. PICK w : KeepTop(entries, node) \in {Append(entries, node), [entries EXCEPT ![w] = node], entries}
    BY Zenon DEF KeepTop
  <1>2. Append(entries, node) \in Seq(S)
    BY AppendProperties
  <1>3. [entries EXCEPT ![w] = node] \in Seq(S)
    <2>1. Len(entries) \in Nat /\ entries \in [1..Len(entries) -> S]
      BY LenProperties
    <2>2. [entries EXCEPT ![w] = node] \in [1..Len(entries) -> S]
      BY <2>1
    <2> QED
      BY <2>1, <2>2, SeqOfFunction
  <1> QED
    BY <1>1, <1>2, <1>3

\* The paths from a hub to a token, the nodes there, and what a search collects.
PathsTo(hub, t) == {path \in Seq(LegSet) : IF path = <<>> THEN t = hub
                                           ELSE path[1].tokenIn = hub /\ path[Len(path)].tokenOut = t}
NodesAt(hub, t) == [amount : Nat, path : PathsTo(hub, t)]
CandidatesOf(hub) == [path : Cycles(hub), amountIn : Nat, formulaOut : Nat]
Frontier(hub) == {f \in [Tokens -> UNION {Seq(NodesAt(hub, t)) : t \in Tokens}] :
                    \A t \in Tokens : f[t] \in Seq(NodesAt(hub, t))}
SearchState(hub) == [next : Frontier(hub), cands : Seq(CandidatesOf(hub))]

\* An edge out of a token continues the paths to it, and back at the hub closes them.
LEMMA PathContinued ==
  ASSUME NEW hub, NEW t \in Tokens, NEW path \in PathsTo(hub, t), NEW edge \in EdgesFrom(t)
  PROVE  /\ Append(path, edge) \in PathsTo(hub, edge.tokenOut)
         /\ edge.tokenOut = hub => Append(path, edge) \in Cycles(hub)
  <1> DEFINE q == Append(path, edge)
  <1>1. edge \in LegSet /\ edge.tokenIn = t /\ path \in Seq(LegSet)
    BY DEF EdgesFrom, PathsTo
  <1>2. /\ q \in Seq(LegSet) /\ q # <<>> /\ Len(q) = Len(path) + 1 /\ q[Len(q)] = edge
        /\ Len(path) \in Nat /\ \A i \in 1..Len(path) : q[i] = path[i]
    BY <1>1, AppendProperties, LenProperties
  <1> HIDE DEF q
  <1>3. q[1].tokenIn = hub
    <2>1. CASE path = <<>>
      <3>1. Len(path) = 0 /\ t = hub
        BY <2>1 DEF PathsTo
      <3> QED
        BY <1>1, <1>2, <3>1
    <2>2. CASE path # <<>>
      <3>1. 1 \in 1..Len(path)
        BY <1>1, <2>2, EmptySeq
      <3> QED
        BY <1>2, <2>2, <3>1 DEF PathsTo
    <2> QED
      BY <2>1, <2>2
  <1> QED
    BY <1>2, <1>3 DEF PathsTo, Cycles, q

\* One edge keeps the state of a search.
LEMMA EdgeKept ==
  ASSUME NEW ps \in [Pools -> V2Pool], NEW hub \in Tokens, NEW t \in Tokens,
         NEW st \in SearchState(hub), NEW entry \in NodesAt(hub, t), NEW edge \in EdgesFrom(t),
         NEW start \in Nat, NEW layer
  PROVE  BfsEdge(ps, st, entry, edge, hub, layer, start) \in SearchState(hub)
  <1> DEFINE out == PoolQuote(ps, edge, entry.amount)
             q == Append(entry.path, edge)
             x == edge.tokenOut
  <1>1. entry.amount \in Nat /\ entry.path \in PathsTo(hub, t) /\ x \in Tokens /\ edge.pool \in Pools
    BY DEF NodesAt, EdgesFrom, LegSet
  <1>2. out \in Nat
    <2>1. ps[edge.pool] \in V2Pool
      BY <1>1
    <2> QED
      BY <1>1, <2>1, PairKept DEF PoolQuote
  <1>3. q \in PathsTo(hub, x) /\ (x = hub => q \in Cycles(hub))
    BY <1>1, PathContinued
  <1> HIDE DEF out, q
  <1>4. st.next \in Frontier(hub) /\ st.cands \in Seq(CandidatesOf(hub))
    BY DEF SearchState
  <1> DEFINE st1 == [st EXCEPT !.cands = Append(@, backtrack(entry, edge, start, out))]
             node == [amount |-> out, path |-> q]
             st2 == [st EXCEPT !.next[x] = KeepTop(@, node)]
  <1>5. x = hub => st1 \in SearchState(hub)
    <2>1. x = hub => backtrack(entry, edge, start, out) \in CandidatesOf(hub)
      BY <1>2, <1>3 DEF backtrack, CandidatesOf, q
    <2> DEFINE c == Append(st.cands, backtrack(entry, edge, start, out))
    <2>2. x = hub => c \in Seq(CandidatesOf(hub))
      BY <1>4, <2>1, AppendProperties
    <2>3. st1 = [st EXCEPT !.cands = c]
      OBVIOUS
    <2> HIDE DEF c, st1
    <2> QED
      BY <1>4, <2>2, <2>3 DEF SearchState
  <1>6. st2 \in SearchState(hub)
    <2>1. node \in NodesAt(hub, x) /\ st.next[x] \in Seq(NodesAt(hub, x))
      BY <1>1, <1>2, <1>3, <1>4 DEF NodesAt, Frontier
    <2> HIDE DEF node
    <2>2. KeepTop(st.next[x], node) \in Seq(NodesAt(hub, x))
      BY <2>1, KeepTopTyped
    <2> DEFINE v == KeepTop(st.next[x], node)
               f == [st.next EXCEPT ![x] = v]
    <2>3. st2 = [st EXCEPT !.next = f]
      BY DEF SearchState
    <2> HIDE DEF v, st2, x
    <2>4. v \in UNION {Seq(NodesAt(hub, u)) : u \in Tokens}
      BY <1>1, <2>2 DEF v
    <2>5. f \in Frontier(hub)
      BY <1>1, <1>4, <2>2, <2>4 DEF Frontier, v
    <2> HIDE DEF f
    <2> QED
      BY <1>4, <2>3, <2>5 DEF SearchState
  <1>7. BfsEdge(ps, st, entry, edge, hub, layer, start) =
          IF out = 0 THEN st ELSE IF x = hub /\ layer >= 2 THEN st1 ELSE st2
    BY Zenon DEF BfsEdge, out, q
  <1> HIDE DEF st1, st2
  <1> QED
    BY <1>5, <1>6, <1>7

(* The folds of LayeredSearch: over the edges out of a node, the nodes at  *)
(* a token and the tokens of a layer.                                      *)
EdgeStep(ps, hub, start, reach, layer, entry, u, e) ==
  IF Useful(reach, hub, e, HopCap - layer) THEN BfsEdge(ps, u, entry, e, hub, layer, start) ELSE u
OverEdges(ps, adj, hub, start, reach, layer, t, entry, st) ==
  FoldLeft(LAMBDA u, e : IF Useful(reach, hub, e, HopCap - layer)
                         THEN BfsEdge(ps, u, entry, e, hub, layer, start) ELSE u, st, adj[t])
OverNodes(ps, adj, hub, start, reach, layer, t, entries, st) ==
  FoldLeft(LAMBDA u, entry : OverEdges(ps, adj, hub, start, reach, layer, t, entry, u), st, entries)
OverTokens(ps, adj, hub, start, reach, layer, next, order, st) ==
  FoldLeft(LAMBDA u, t : OverNodes(ps, adj, hub, start, reach, layer, t, next[t], u), st, order)

\* The states of a search from one step of these folds to the next.
EdgeRun(ps, adj, hub, start, reach, layer, t, entry, st, f) ==
  /\ f \in [0..Len(adj[t]) -> SearchState(hub)] /\ f[0] = st
  /\ f[Len(adj[t])] = OverEdges(ps, adj, hub, start, reach, layer, t, entry, st)
  /\ \A k \in 1..Len(adj[t]) :
       f[k] = EdgeStep(ps, hub, start, reach, layer, entry, f[k - 1], adj[t][k])
NodesRun(ps, adj, hub, start, reach, layer, t, entries, st, f) ==
  /\ f \in [0..Len(entries) -> SearchState(hub)] /\ f[0] = st
  /\ f[Len(entries)] = OverNodes(ps, adj, hub, start, reach, layer, t, entries, st)
  /\ \A k \in 1..Len(entries) :
       f[k] = OverEdges(ps, adj, hub, start, reach, layer, t, entries[k], f[k - 1])
TokensRun(ps, adj, hub, start, reach, layer, next, order, st, f) ==
  /\ f \in [0..Len(order) -> SearchState(hub)] /\ f[0] = st
  /\ f[Len(order)] = OverTokens(ps, adj, hub, start, reach, layer, next, order, st)
  /\ \A k \in 1..Len(order) :
       f[k] = OverNodes(ps, adj, hub, start, reach, layer, order[k], next[order[k]], f[k - 1])

\* The states of a search along the edges out of a node,
LEMMA NodeRun ==
  ASSUME NEW ps \in [Pools -> V2Pool], NEW adj \in Adjacency, NEW hub \in Tokens, NEW start \in Nat,
         NEW reach, NEW layer, NEW t \in Tokens, NEW entry \in NodesAt(hub, t), NEW st \in SearchState(hub)
  PROVE  \E f : EdgeRun(ps, adj, hub, start, reach, layer, t, entry, st, f)
  <1> DEFINE n == Len(adj[t])
             seq == adj[t]
             op(u, e) == IF Useful(reach, hub, e, HopCap - layer)
                         THEN BfsEdge(ps, u, entry, e, hub, layer, start) ELSE u
             body(it) == [s \in SUBSET DOMAIN seq |->
                            IF s = {} THEN st ELSE op(it[s \ {Max(s)}], seq[Max(s)])]
             it == CHOOSE it : it = body(it)
             F == [ti \in SearchState(hub) \X (1..n) |-> op(ti[1], seq[ti[2]])]
  <1>1. FoldLeft(op, st, seq) = it[DOMAIN seq]
    <2> HIDE DEF op, seq
    <2> QED
      BY Zenon DEF FoldLeft, MapThenFoldSet
  <1>2. n \in Nat /\ DOMAIN seq = 1..n
    BY LenProperties DEF Adjacency
  <1>3. \A u \in SearchState(hub), i \in 1..n : op(u, seq[i]) \in SearchState(hub)
    <2>1. \A i \in 1..n : seq[i] \in EdgesFrom(t)
      BY ElementOfSeq DEF Adjacency
    <2> HIDE DEF seq, n
    <2> QED
      BY <2>1, EdgeKept
  <1> HIDE DEF n
  <1> HIDE DEF op, seq
  <1>4. /\ F \in [SearchState(hub) \X (1..n) -> SearchState(hub)]
        /\ \A v \in SearchState(hub), i \in 1..n : F[<<v, i>>] = op(v, seq[i])
    BY <1>3
  <1> HIDE DEF F
  <1>5. PICK g : IsFold(n, SearchState(hub), st, F, g)
    BY <1>2, <1>3, <1>4, FoldExists
  <1>6. g = body(g)
    <2>1. ASSUME NEW s \in SUBSET (1..n)
          PROVE  g[s] = IF s = {} THEN st ELSE op(g[s \ {Max(s)}], seq[Max(s)])
      <3>1. s # {} => /\ g[s \ {Max(s)}] \in SearchState(hub) /\ Max(s) \in 1..n
                       /\ g[s] = F[<<g[s \ {Max(s)}], Max(s)>>]
        BY <1>5 DEF IsFold
      <3>2. s = {} => g[s] = st
        BY <1>5 DEF IsFold
      <3> QED
        BY <1>4, <3>1, <3>2, Zenon
    <2>2. g = [s \in SUBSET (1..n) |-> g[s]]
      BY <1>5 DEF IsFold
    <2> QED
      BY <1>2, <2>1, <2>2, Zenon
  <1>7. it = body(it)
    <2> HIDE DEF body
    <2> QED
      BY <1>6, Zenon
  <1> HIDE DEF it
  <1>8. IsUnfolded(n, SearchState(hub), st, F, it)
    <2>1. \A s \in SUBSET (1..n) :
            it[s] = IF s = {} THEN st ELSE op(it[s \ {Max(s)}], seq[Max(s)])
      BY <1>2, <1>7, Zenon
    <2>2. \A s \in SUBSET (1..n) : s # {} => Max(s) \in 1..n
      BY <1>2, MaxIn
    <2> QED
      BY <1>4, <2>1, <2>2, Zenon DEF IsUnfolded
  <1>9. IsFolded(n, SearchState(hub), st, F, it)
    BY <1>2, <1>3, <1>4, <1>8, FoldSteps
  <1>r. PICK f : IsRun(n, SearchState(hub), st, F, it[1..n], f)
    BY <1>2, <1>9, FoldRun
  <1>10. /\ f \in [0..n -> SearchState(hub)] /\ f[0] = st /\ f[n] = it[1..n]
         /\ \A k \in 1..n : f[k] = F[<<f[k - 1], k>>]
    BY <1>r DEF IsRun
  <1>11. \A k \in 1..n : f[k] = op(f[k - 1], seq[k])
    <2>1. \A k \in 1..n : f[k - 1] \in SearchState(hub)
      BY <1>2, <1>10
    <2> QED
      BY <1>4, <1>10, <2>1, Zenon
  <1>12. f[n] = OverEdges(ps, adj, hub, start, reach, layer, t, entry, st)
    BY <1>1, <1>2, <1>10, Zenon DEF OverEdges, op, seq
  <1>13. \A k \in 1..n : f[k] = EdgeStep(ps, hub, start, reach, layer, entry, f[k - 1], seq[k])
    BY <1>11, Zenon DEF op, EdgeStep
  <1> QED
    BY <1>10, <1>12, <1>13, Zenon DEF n, seq, EdgeRun

\* The edges out of a node keep the state of a search,
LEMMA NodeKept ==
  ASSUME NEW ps \in [Pools -> V2Pool], NEW adj \in Adjacency, NEW hub \in Tokens, NEW start \in Nat,
         NEW reach, NEW layer, NEW t \in Tokens, NEW entry \in NodesAt(hub, t),
         NEW st \in SearchState(hub)
  PROVE  OverEdges(ps, adj, hub, start, reach, layer, t, entry, st) \in SearchState(hub)
  <1>1. Len(adj[t]) \in Nat
    BY LenProperties DEF Adjacency
  <1>2. PICK f : EdgeRun(ps, adj, hub, start, reach, layer, t, entry, st, f)
    BY NodeRun
  <1> QED
    BY <1>1, <1>2 DEF EdgeRun

\* The states of a search along the nodes at a token.
LEMMA TokenRun ==
  ASSUME NEW ps \in [Pools -> V2Pool], NEW adj \in Adjacency, NEW hub \in Tokens, NEW start \in Nat,
         NEW reach, NEW layer, NEW t \in Tokens, NEW entries \in Seq(NodesAt(hub, t)), NEW st \in SearchState(hub)
  PROVE  \E f : NodesRun(ps, adj, hub, start, reach, layer, t, entries, st, f)
  <1> DEFINE n == Len(entries)
             seq == entries
             op(u, entry) == OverEdges(ps, adj, hub, start, reach, layer, t, entry, u)
             body(it) == [s \in SUBSET DOMAIN seq |->
                            IF s = {} THEN st ELSE op(it[s \ {Max(s)}], seq[Max(s)])]
             it == CHOOSE it : it = body(it)
             F == [ti \in SearchState(hub) \X (1..n) |-> op(ti[1], seq[ti[2]])]
  <1>1. FoldLeft(op, st, seq) = it[DOMAIN seq]
    <2> HIDE DEF op, seq
    <2> QED
      BY Zenon DEF FoldLeft, MapThenFoldSet
  <1>2. n \in Nat /\ DOMAIN seq = 1..n
    BY LenProperties
  <1>3. \A u \in SearchState(hub), i \in 1..n : op(u, seq[i]) \in SearchState(hub)
    <2>1. \A i \in 1..n : seq[i] \in NodesAt(hub, t)
      BY ElementOfSeq
    <2> HIDE DEF seq, n
    <2> QED
      BY <2>1, NodeKept
  <1> HIDE DEF n
  <1> HIDE DEF op, seq
  <1>4. /\ F \in [SearchState(hub) \X (1..n) -> SearchState(hub)]
        /\ \A v \in SearchState(hub), i \in 1..n : F[<<v, i>>] = op(v, seq[i])
    BY <1>3
  <1> HIDE DEF F
  <1>5. PICK g : IsFold(n, SearchState(hub), st, F, g)
    BY <1>2, <1>3, <1>4, FoldExists
  <1>6. g = body(g)
    <2>1. ASSUME NEW s \in SUBSET (1..n)
          PROVE  g[s] = IF s = {} THEN st ELSE op(g[s \ {Max(s)}], seq[Max(s)])
      <3>1. s # {} => /\ g[s \ {Max(s)}] \in SearchState(hub) /\ Max(s) \in 1..n
                       /\ g[s] = F[<<g[s \ {Max(s)}], Max(s)>>]
        BY <1>5 DEF IsFold
      <3>2. s = {} => g[s] = st
        BY <1>5 DEF IsFold
      <3> QED
        BY <1>4, <3>1, <3>2, Zenon
    <2>2. g = [s \in SUBSET (1..n) |-> g[s]]
      BY <1>5 DEF IsFold
    <2> QED
      BY <1>2, <2>1, <2>2, Zenon
  <1>7. it = body(it)
    <2> HIDE DEF body
    <2> QED
      BY <1>6, Zenon
  <1> HIDE DEF it
  <1>8. IsUnfolded(n, SearchState(hub), st, F, it)
    <2>1. \A s \in SUBSET (1..n) :
            it[s] = IF s = {} THEN st ELSE op(it[s \ {Max(s)}], seq[Max(s)])
      BY <1>2, <1>7, Zenon
    <2>2. \A s \in SUBSET (1..n) : s # {} => Max(s) \in 1..n
      BY <1>2, MaxIn
    <2> QED
      BY <1>4, <2>1, <2>2, Zenon DEF IsUnfolded
  <1>9. IsFolded(n, SearchState(hub), st, F, it)
    BY <1>2, <1>3, <1>4, <1>8, FoldSteps
  <1>r. PICK f : IsRun(n, SearchState(hub), st, F, it[1..n], f)
    BY <1>2, <1>9, FoldRun
  <1>10. /\ f \in [0..n -> SearchState(hub)] /\ f[0] = st /\ f[n] = it[1..n]
         /\ \A k \in 1..n : f[k] = F[<<f[k - 1], k>>]
    BY <1>r DEF IsRun
  <1>11. \A k \in 1..n : f[k] = op(f[k - 1], seq[k])
    <2>1. \A k \in 1..n : f[k - 1] \in SearchState(hub)
      BY <1>2, <1>10
    <2> QED
      BY <1>4, <1>10, <2>1, Zenon
  <1>12. f[n] = OverNodes(ps, adj, hub, start, reach, layer, t, entries, st)
    BY <1>1, <1>2, <1>10, Zenon DEF OverNodes, op, seq
  <1> QED
    BY <1>10, <1>11, <1>12, Zenon DEF n, seq, op, NodesRun

\* the nodes at a token too,
LEMMA TokenKept ==
  ASSUME NEW ps \in [Pools -> V2Pool], NEW adj \in Adjacency, NEW hub \in Tokens, NEW start \in Nat,
         NEW reach, NEW layer, NEW t \in Tokens, NEW entries \in Seq(NodesAt(hub, t)),
         NEW st \in SearchState(hub)
  PROVE  OverNodes(ps, adj, hub, start, reach, layer, t, entries, st) \in SearchState(hub)
  <1>1. Len(entries) \in Nat
    BY LenProperties
  <1>2. PICK f : NodesRun(ps, adj, hub, start, reach, layer, t, entries, st, f)
    BY TokenRun
  <1> QED
    BY <1>1, <1>2 DEF NodesRun

\* The states of a search along the tokens of a layer.
LEMMA LayerRun ==
  ASSUME NEW ps \in [Pools -> V2Pool], NEW adj \in Adjacency, NEW hub \in Tokens, NEW start \in Nat,
         NEW reach, NEW layer, NEW next \in Frontier(hub), NEW order \in Seq(Tokens), NEW st \in SearchState(hub)
  PROVE  \E f : TokensRun(ps, adj, hub, start, reach, layer, next, order, st, f)
  <1> DEFINE n == Len(order)
             seq == order
             op(u, t) == OverNodes(ps, adj, hub, start, reach, layer, t, next[t], u)
             body(it) == [s \in SUBSET DOMAIN seq |->
                            IF s = {} THEN st ELSE op(it[s \ {Max(s)}], seq[Max(s)])]
             it == CHOOSE it : it = body(it)
             F == [ti \in SearchState(hub) \X (1..n) |-> op(ti[1], seq[ti[2]])]
  <1>1. FoldLeft(op, st, seq) = it[DOMAIN seq]
    <2> HIDE DEF op, seq
    <2> QED
      BY Zenon DEF FoldLeft, MapThenFoldSet
  <1>2. n \in Nat /\ DOMAIN seq = 1..n
    BY LenProperties
  <1>3. \A u \in SearchState(hub), i \in 1..n : op(u, seq[i]) \in SearchState(hub)
    <2>1. \A i \in 1..n : seq[i] \in Tokens
      BY ElementOfSeq
    <2>2. \A t \in Tokens : next[t] \in Seq(NodesAt(hub, t))
      BY DEF Frontier
    <2> HIDE DEF seq, n
    <2> QED
      BY <2>1, <2>2, TokenKept
  <1> HIDE DEF n
  <1> HIDE DEF op, seq
  <1>4. /\ F \in [SearchState(hub) \X (1..n) -> SearchState(hub)]
        /\ \A v \in SearchState(hub), i \in 1..n : F[<<v, i>>] = op(v, seq[i])
    BY <1>3
  <1> HIDE DEF F
  <1>5. PICK g : IsFold(n, SearchState(hub), st, F, g)
    BY <1>2, <1>3, <1>4, FoldExists
  <1>6. g = body(g)
    <2>1. ASSUME NEW s \in SUBSET (1..n)
          PROVE  g[s] = IF s = {} THEN st ELSE op(g[s \ {Max(s)}], seq[Max(s)])
      <3>1. s # {} => /\ g[s \ {Max(s)}] \in SearchState(hub) /\ Max(s) \in 1..n
                       /\ g[s] = F[<<g[s \ {Max(s)}], Max(s)>>]
        BY <1>5 DEF IsFold
      <3>2. s = {} => g[s] = st
        BY <1>5 DEF IsFold
      <3> QED
        BY <1>4, <3>1, <3>2, Zenon
    <2>2. g = [s \in SUBSET (1..n) |-> g[s]]
      BY <1>5 DEF IsFold
    <2> QED
      BY <1>2, <2>1, <2>2, Zenon
  <1>7. it = body(it)
    <2> HIDE DEF body
    <2> QED
      BY <1>6, Zenon
  <1> HIDE DEF it
  <1>8. IsUnfolded(n, SearchState(hub), st, F, it)
    <2>1. \A s \in SUBSET (1..n) :
            it[s] = IF s = {} THEN st ELSE op(it[s \ {Max(s)}], seq[Max(s)])
      BY <1>2, <1>7, Zenon
    <2>2. \A s \in SUBSET (1..n) : s # {} => Max(s) \in 1..n
      BY <1>2, MaxIn
    <2> QED
      BY <1>4, <2>1, <2>2, Zenon DEF IsUnfolded
  <1>9. IsFolded(n, SearchState(hub), st, F, it)
    BY <1>2, <1>3, <1>4, <1>8, FoldSteps
  <1>r. PICK f : IsRun(n, SearchState(hub), st, F, it[1..n], f)
    BY <1>2, <1>9, FoldRun
  <1>10. /\ f \in [0..n -> SearchState(hub)] /\ f[0] = st /\ f[n] = it[1..n]
         /\ \A k \in 1..n : f[k] = F[<<f[k - 1], k>>]
    BY <1>r DEF IsRun
  <1>11. \A k \in 1..n : f[k] = op(f[k - 1], seq[k])
    <2>1. \A k \in 1..n : f[k - 1] \in SearchState(hub)
      BY <1>2, <1>10
    <2> QED
      BY <1>4, <1>10, <2>1, Zenon
  <1>12. f[n] = OverTokens(ps, adj, hub, start, reach, layer, next, order, st)
    BY <1>1, <1>2, <1>10, Zenon DEF OverTokens, op, seq
  <1> QED
    BY <1>10, <1>11, <1>12, Zenon DEF n, seq, op, TokensRun

\* and a layer, whatever the order of its tokens.
LEMMA LayerKept ==
  ASSUME NEW ps \in [Pools -> V2Pool], NEW adj \in Adjacency, NEW hub \in Tokens, NEW start \in Nat,
         NEW reach, NEW layer, NEW next \in Frontier(hub), NEW order \in Seq(Tokens),
         NEW st \in SearchState(hub)
  PROVE  OverTokens(ps, adj, hub, start, reach, layer, next, order, st) \in SearchState(hub)
  <1>1. Len(order) \in Nat
    BY LenProperties
  <1>2. PICK f : TokensRun(ps, adj, hub, start, reach, layer, next, order, st, f)
    BY LayerRun
  <1> QED
    BY <1>1, <1>2 DEF TokensRun

\* The empty frontier, the state a search begins in, and one layer of it.
Nobody == [t \in Tokens |-> <<>>]
Root(hub, start) == [next |-> [Nobody EXCEPT ![hub] = <<[amount |-> start, path |-> <<>>]>>],
                     cands |-> <<>>]
LayerStep(ps, adj, hub, start, reach, order, st, layer) ==
  OverTokens(ps, adj, hub, start, reach, layer, st.next, order,
             [next |-> Nobody, cands |-> st.cands])

LayersRun(ps, adj, hub, start, order, reach, f) ==
  /\ f \in [0..HopCap -> SearchState(hub)] /\ f[0] = Root(hub, start)
  /\ LayeredSearch(ps, adj, hub, start, order, reach) = f[HopCap].cands
  /\ \A k \in 1..HopCap : f[k] = LayerStep(ps, adj, hub, start, reach, order, f[k - 1], k)

\* The states of a search along its layers.
LEMMA SearchRun ==
  ASSUME NEW ps \in [Pools -> V2Pool], NEW adj \in Adjacency, NEW hub \in Tokens, NEW start \in Nat,
         NEW order \in Seq(Tokens), NEW reach
  PROVE  \E f : LayersRun(ps, adj, hub, start, order, reach, f)
  <1> DEFINE nobody == [t \in Tokens |-> <<>>]
             root == [next |-> [nobody EXCEPT ![hub] = <<[amount |-> start, path |-> <<>>]>>],
                      cands |-> <<>>]
             n == HopCap
             seq == [l \in 1..HopCap |-> l]
             op(st, layer) == OverTokens(ps, adj, hub, start, reach, layer, st.next, order,
                                         [next |-> nobody, cands |-> st.cands])
             body(it) == [s \in SUBSET DOMAIN seq |->
                            IF s = {} THEN root ELSE op(it[s \ {Max(s)}], seq[Max(s)])]
             it == CHOOSE it : it = body(it)
             F == [ti \in SearchState(hub) \X (1..n) |-> op(ti[1], seq[ti[2]])]
  <1>0. LayeredSearch(ps, adj, hub, start, order, reach) = FoldLeft(op, root, seq).cands
    BY Zenon DEF LayeredSearch, OverTokens, OverNodes, OverEdges
  <1>a. nobody \in Frontier(hub)
    <2>1. \A t \in Tokens : <<>> \in Seq(NodesAt(hub, t))
      BY EmptySeq
    <2> QED
      BY <2>1 DEF Frontier
  <1>b. root \in SearchState(hub)
    <2> DEFINE first == <<[amount |-> start, path |-> <<>>]>>
               f == [nobody EXCEPT ![hub] = first]
    <2>1. <<>> \in PathsTo(hub, hub)
      BY EmptySeq DEF PathsTo
    <2>2. [amount |-> start, path |-> <<>>] \in NodesAt(hub, hub)
      BY <2>1 DEF NodesAt
    <2>3. first \in Seq(NodesAt(hub, hub))
      BY <2>2
    <2> HIDE DEF first
    <2>4. f \in Frontier(hub)
      BY <1>a, <2>3 DEF Frontier
    <2> HIDE DEF f
    <2>5. <<>> \in Seq(CandidatesOf(hub))
      BY EmptySeq
    <2>6. root = [next |-> f, cands |-> <<>>]
      BY DEF f, first
    <2> HIDE DEF root
    <2> QED
      BY <2>4, <2>5, <2>6 DEF SearchState
  <1> HIDE DEF nobody, root
  <1>1. FoldLeft(op, root, seq) = it[DOMAIN seq]
    <2> HIDE DEF op, seq
    <2> QED
      BY Zenon DEF FoldLeft, MapThenFoldSet
  <1>2. n \in Nat /\ DOMAIN seq = 1..n
    BY SearchAssumption
  <1>3. root \in SearchState(hub) /\ \A u \in SearchState(hub), i \in 1..n : op(u, seq[i]) \in SearchState(hub)
    <2>1. ASSUME NEW u \in SearchState(hub), NEW layer PROVE op(u, layer) \in SearchState(hub)
      <3>1. u.next \in Frontier(hub) /\ u.cands \in Seq(CandidatesOf(hub))
        BY DEF SearchState
      <3>2. [next |-> nobody, cands |-> u.cands] \in SearchState(hub)
        BY <1>a, <3>1 DEF SearchState
      <3> QED
        BY <3>1, <3>2, LayerKept
    <2> HIDE DEF op
    <2> QED
      BY <1>b, <2>1
  <1> HIDE DEF n
  <1> HIDE DEF op, seq
  <1>4. /\ F \in [SearchState(hub) \X (1..n) -> SearchState(hub)]
        /\ \A v \in SearchState(hub), i \in 1..n : F[<<v, i>>] = op(v, seq[i])
    BY <1>3
  <1> HIDE DEF F
  <1>5. PICK g : IsFold(n, SearchState(hub), root, F, g)
    BY <1>2, <1>3, <1>4, FoldExists
  <1>6. g = body(g)
    <2>1. ASSUME NEW s \in SUBSET (1..n)
          PROVE  g[s] = IF s = {} THEN root ELSE op(g[s \ {Max(s)}], seq[Max(s)])
      <3>1. s # {} => /\ g[s \ {Max(s)}] \in SearchState(hub) /\ Max(s) \in 1..n
                       /\ g[s] = F[<<g[s \ {Max(s)}], Max(s)>>]
        BY <1>5 DEF IsFold
      <3>2. s = {} => g[s] = root
        BY <1>5 DEF IsFold
      <3> QED
        BY <1>4, <3>1, <3>2, Zenon
    <2>2. g = [s \in SUBSET (1..n) |-> g[s]]
      BY <1>5 DEF IsFold
    <2> QED
      BY <1>2, <2>1, <2>2, Zenon
  <1>7. it = body(it)
    <2> HIDE DEF body
    <2> QED
      BY <1>6, Zenon
  <1> HIDE DEF it
  <1>8. IsUnfolded(n, SearchState(hub), root, F, it)
    <2>1. \A s \in SUBSET (1..n) :
            it[s] = IF s = {} THEN root ELSE op(it[s \ {Max(s)}], seq[Max(s)])
      BY <1>2, <1>7, Zenon
    <2>2. \A s \in SUBSET (1..n) : s # {} => Max(s) \in 1..n
      BY <1>2, MaxIn
    <2> QED
      BY <1>4, <2>1, <2>2, Zenon DEF IsUnfolded
  <1>9. IsFolded(n, SearchState(hub), root, F, it)
    BY <1>2, <1>3, <1>4, <1>8, FoldSteps
  <1>r. PICK f : IsRun(n, SearchState(hub), root, F, it[1..n], f)
    BY <1>2, <1>9, FoldRun
  <1>10. /\ f \in [0..n -> SearchState(hub)] /\ f[0] = root /\ f[n] = it[1..n]
         /\ \A k \in 1..n : f[k] = F[<<f[k - 1], k>>]
    BY <1>r DEF IsRun
  <1>11. \A k \in 1..n : f[k] = op(f[k - 1], seq[k])
    <2>1. \A k \in 1..n : f[k - 1] \in SearchState(hub)
      BY <1>2, <1>10
    <2> QED
      BY <1>4, <1>10, <2>1, Zenon
  <1>12. LayeredSearch(ps, adj, hub, start, order, reach) = f[n].cands
    BY <1>0, <1>1, <1>2, <1>10, Zenon
  <1>13. \A k \in 1..n : seq[k] = k
    BY DEF n, seq
  <1>14. \A k \in 1..n : f[k] = LayerStep(ps, adj, hub, start, reach, order, f[k - 1], k)
    BY <1>11, <1>13, Zenon DEF op, LayerStep, nobody, Nobody
  <1>15. root = Root(hub, start)
    BY Zenon DEF root, Root, nobody, Nobody
  <1> QED
    BY <1>10, <1>12, <1>14, <1>15, Zenon DEF n, LayersRun

(* What the layered search finds are cycles of the hub at the start        *)
(* amount, whatever it prunes.                                             *)
LEMMA SearchTyped ==
  ASSUME NEW ps \in [Pools -> V2Pool], NEW adj \in Adjacency, NEW hub \in Tokens, NEW start \in Nat,
         NEW order \in Seq(Tokens), NEW reach
  PROVE  LayeredSearch(ps, adj, hub, start, order, reach) \in Seq(CandidatesOf(hub))
  <1>1. HopCap \in Nat
    BY SearchAssumption
  <1>2. PICK f : LayersRun(ps, adj, hub, start, order, reach, f)
    BY SearchRun
  <1> QED
    BY <1>1, <1>2 DEF LayersRun, SearchState

\* Min of a set of natural numbers that is not empty is its least element.
LEMMA MinIsLeast ==
  ASSUME NEW T \in SUBSET Nat, T # {}
  PROVE  Min(T) \in T /\ \A k \in T : Min(T) <= k
  <1>1. \E m \in T : \A k \in T : m =< k
    BY LeastElement
  <1> QED
    BY <1>1, Zenon DEF Min

\* The insertion of an element at a position of a sequence.
LEMMA InsertTyped ==
  ASSUME NEW S, NEW s \in Seq(S), NEW k \in 1..(Len(s) + 1), NEW c \in S
  PROVE  InsertAt(s, k, c) \in Seq(S)
  <1>1. Len(s) \in Nat /\ \A i \in 1..Len(s) : s[i] \in S
    BY LenProperties, ElementOfSeq
  <1>2. /\ k \in Int /\ k - 1 \in Int /\ Len(s) \in Int
        /\ 1..(k - 1) \subseteq 1..Len(s) /\ k..Len(s) \subseteq 1..Len(s)
    BY <1>1
  <1>3. SubSeq(s, 1, k - 1) \in Seq(S)
    <2>1. \A i \in 1..(k - 1) : s[i] \in S
      BY <1>1, <1>2
    <2> QED
      BY <1>2, <2>1, SubSeqProperties
  <1>4. SubSeq(s, k, Len(s)) \in Seq(S)
    <2>1. \A i \in k..Len(s) : s[i] \in S
      BY <1>1, <1>2
    <2> QED
      BY <1>2, <2>1, SubSeqProperties
  <1>5. <<c>> \in Seq(S)
    OBVIOUS
  <1>6. SubSeq(s, 1, k - 1) \o <<c>> \in Seq(S)
    BY <1>3, <1>5, ConcatProperties
  <1>7. (SubSeq(s, 1, k - 1) \o <<c>>) \o SubSeq(s, k, Len(s)) \in Seq(S)
    BY <1>4, <1>6, ConcatProperties
  <1> QED
    BY <1>7, Zenon DEF InsertAt

\* The candidates of a hub are cycles of it, at the sizes it tries.
LEMMA CandidatesTyped ==
  ASSUME NEW ps \in [Pools -> V2Pool], NEW adj \in Adjacency, NEW hub \in Tokens,
         NEW sizes \in Seq(Nat), NEW maxBalance, NEW order \in Seq(Tokens)
  PROVE  Candidates(ps, adj, hub, sizes, maxBalance, order) \in Seq(CandidatesOf(hub))
  <1> DEFINE lists == [i \in DOMAIN sizes |->
                         IF sizes[i] > maxBalance THEN <<>> ELSE formulaBFS(ps, adj, hub, sizes[i], order)]
             all == FlattenSeq(lists)
             gross(c) == IF c.formulaOut > c.amountIn THEN c.formulaOut - c.amountIn ELSE 0
             place(s, c) == Cardinality({i \in DOMAIN s : gross(s[i]) >= gross(c)}) + 1
             n == Len(all)
             seq == all
             op(s, c) == InsertAt(s, place(s, c), c)
             body(it) == [s \in SUBSET DOMAIN seq |->
                            IF s = {} THEN <<>> ELSE op(it[s \ {Max(s)}], seq[Max(s)])]
             it == CHOOSE it : it = body(it)
             F == [ti \in Seq(CandidatesOf(hub)) \X (1..n) |-> op(ti[1], seq[ti[2]])]
  <1>0. Candidates(ps, adj, hub, sizes, maxBalance, order) = FoldLeft(op, <<>>, seq)
    BY Zenon DEF Candidates
  <1>a. all \in Seq(CandidatesOf(hub))
    <2>1. Len(sizes) \in Nat /\ DOMAIN sizes = 1..Len(sizes) /\ \A i \in 1..Len(sizes) : sizes[i] \in Nat
      BY LenProperties, ElementOfSeq
    <2>2. \A i \in 1..Len(sizes) : formulaBFS(ps, adj, hub, sizes[i], order) \in Seq(CandidatesOf(hub))
      BY <2>1, SearchTyped DEF formulaBFS
    <2>3. <<>> \in Seq(CandidatesOf(hub))
      BY EmptySeq
    <2>4. lists \in [1..Len(sizes) -> Seq(CandidatesOf(hub))]
      BY <2>1, <2>2, <2>3
    <2> HIDE DEF lists
    <2>5. lists \in Seq(Seq(CandidatesOf(hub)))
      BY <2>1, <2>4, SeqOfFunction
    <2> QED
      BY <2>5, FlattenTyped
  <1> HIDE DEF all
  <1>1. FoldLeft(op, <<>>, seq) = it[DOMAIN seq]
    <2> HIDE DEF op, seq
    <2> QED
      BY Zenon DEF FoldLeft, MapThenFoldSet
  <1>2. n \in Nat /\ DOMAIN seq = 1..n
    BY <1>a, LenProperties
  <1>3. /\ <<>> \in Seq(CandidatesOf(hub))
        /\ \A u \in Seq(CandidatesOf(hub)), i \in 1..n : op(u, seq[i]) \in Seq(CandidatesOf(hub))
    <2>1. \A i \in 1..n : seq[i] \in CandidatesOf(hub)
      BY <1>a, ElementOfSeq
    <2>2. ASSUME NEW u \in Seq(CandidatesOf(hub)), NEW c \in CandidatesOf(hub)
          PROVE  op(u, c) \in Seq(CandidatesOf(hub))
      <3> DEFINE ahead == {i \in DOMAIN u : gross(u[i]) >= gross(c)}
      <3>1. Len(u) \in Nat /\ DOMAIN u = 1..Len(u)
        BY LenProperties
      <3>2. ahead \in SUBSET (1..Len(u))
        BY <3>1
      <3> HIDE DEF ahead
      <3>3. IsFiniteSet(1..Len(u)) /\ Cardinality(1..Len(u)) = Len(u)
        <4>1. 1 \in Int /\ Len(u) \in Int
          BY <3>1
        <4>2. /\ IsFiniteSet(1..Len(u))
              /\ Cardinality(1..Len(u)) = IF 1 > Len(u) THEN 0 ELSE Len(u) - 1 + 1
          BY <4>1, FS_Interval, Zenon
        <4> QED
          BY <3>1, <4>2
      <3>4. IsFiniteSet(ahead) /\ Cardinality(ahead) <= Len(u)
        BY <3>2, <3>3, FS_Subset
      <3>5. Cardinality(ahead) \in Nat
        BY <3>4, FS_CardinalityType
      <3>6. Cardinality(ahead) + 1 \in 1..(Len(u) + 1)
        BY <3>1, <3>4, <3>5
      <3>7. InsertAt(u, Cardinality(ahead) + 1, c) \in Seq(CandidatesOf(hub))
        BY <3>6, InsertTyped
      <3> QED
        BY <3>7 DEF ahead
    <2> HIDE DEF seq, n, op
    <2> QED
      BY <2>1, <2>2, EmptySeq
  <1> HIDE DEF n
  <1> HIDE DEF op, seq
  <1>4. /\ F \in [Seq(CandidatesOf(hub)) \X (1..n) -> Seq(CandidatesOf(hub))]
        /\ \A u \in Seq(CandidatesOf(hub)), i \in 1..n : F[<<u, i>>] = op(u, seq[i])
    BY <1>3
  <1> HIDE DEF F
  <1>5. PICK g : IsFold(n, Seq(CandidatesOf(hub)), <<>>, F, g)
    BY <1>2, <1>3, <1>4, FoldExists
  <1>6. g = body(g)
    <2>1. ASSUME NEW s \in SUBSET (1..n)
          PROVE  g[s] = IF s = {} THEN <<>> ELSE op(g[s \ {Max(s)}], seq[Max(s)])
      <3>1. s # {} => /\ g[s \ {Max(s)}] \in Seq(CandidatesOf(hub)) /\ Max(s) \in 1..n
                       /\ g[s] = F[<<g[s \ {Max(s)}], Max(s)>>]
        BY <1>5 DEF IsFold
      <3>2. s = {} => g[s] = <<>>
        BY <1>5 DEF IsFold
      <3> QED
        BY <1>4, <3>1, <3>2, Zenon
    <2>2. g = [s \in SUBSET (1..n) |-> g[s]]
      BY <1>5 DEF IsFold
    <2> QED
      BY <1>2, <2>1, <2>2, Zenon
  <1>7. it = body(it)
    <2> HIDE DEF body
    <2> QED
      BY <1>6, Zenon
  <1> HIDE DEF it
  <1>8. IsUnfolded(n, Seq(CandidatesOf(hub)), <<>>, F, it)
    <2>1. \A s \in SUBSET (1..n) :
            it[s] = IF s = {} THEN <<>> ELSE op(it[s \ {Max(s)}], seq[Max(s)])
      BY <1>2, <1>7, Zenon
    <2>2. \A s \in SUBSET (1..n) : s # {} => Max(s) \in 1..n
      BY <1>2, MaxIn
    <2> QED
      BY <1>4, <2>1, <2>2, Zenon DEF IsUnfolded
  <1>9. IsFolded(n, Seq(CandidatesOf(hub)), <<>>, F, it)
    BY <1>2, <1>3, <1>4, <1>8, FoldSteps
  <1>10. it[DOMAIN seq] \in Seq(CandidatesOf(hub))
    BY <1>2, <1>9 DEF IsFolded
  <1> QED
    BY <1>0, <1>1, <1>10, Zenon

\* The candidates that are verified are among them.
LEMMA DistinctTyped ==
  ASSUME NEW hub, NEW cands \in Seq(CandidatesOf(hub))
  PROVE  Distinct(cands) \in Seq(CandidatesOf(hub))
  <1> DEFINE seen(d, c) == \E i \in DOMAIN d : PathKey(d[i]) = PathKey(c)
             top == SubSeq(cands, 1, Min({VerifyTop, Len(cands)}))
             n == Len(top)
             seq == top
             op(d, c) == IF seen(d, c) THEN d ELSE Append(d, c)
             body(it) == [s \in SUBSET DOMAIN seq |->
                            IF s = {} THEN <<>> ELSE op(it[s \ {Max(s)}], seq[Max(s)])]
             it == CHOOSE it : it = body(it)
             F == [ti \in Seq(CandidatesOf(hub)) \X (1..n) |-> op(ti[1], seq[ti[2]])]
  <1>0. Distinct(cands) = FoldLeft(op, <<>>, seq)
    BY Zenon DEF Distinct
  <1>a. top \in Seq(CandidatesOf(hub))
    <2> DEFINE m == Min({VerifyTop, Len(cands)})
    <2>1. Len(cands) \in Nat /\ \A i \in 1..Len(cands) : cands[i] \in CandidatesOf(hub)
      BY LenProperties, ElementOfSeq
    <2>2. {VerifyTop, Len(cands)} \in SUBSET Nat /\ {VerifyTop, Len(cands)} # {}
      BY <2>1, ArbAssumption
    <2>3. m \in {VerifyTop, Len(cands)} /\ m <= Len(cands)
      BY <2>2, MinIsLeast
    <2> HIDE DEF m
    <2>4. m \in Int /\ \A i \in 1..m : cands[i] \in CandidatesOf(hub)
      BY <2>1, <2>2, <2>3
    <2>5. SubSeq(cands, 1, m) \in Seq(CandidatesOf(hub))
      BY <2>4, SubSeqProperties
    <2> QED
      BY <2>5 DEF m
  <1> HIDE DEF top
  <1>1. FoldLeft(op, <<>>, seq) = it[DOMAIN seq]
    <2> HIDE DEF op, seq
    <2> QED
      BY Zenon DEF FoldLeft, MapThenFoldSet
  <1>2. n \in Nat /\ DOMAIN seq = 1..n
    BY <1>a, LenProperties
  <1>3. /\ <<>> \in Seq(CandidatesOf(hub))
        /\ \A u \in Seq(CandidatesOf(hub)), i \in 1..n : op(u, seq[i]) \in Seq(CandidatesOf(hub))
    <2>1. \A i \in 1..n : seq[i] \in CandidatesOf(hub)
      BY <1>a, ElementOfSeq
    <2> HIDE DEF seq, n, seen
    <2> QED
      BY <2>1, AppendProperties, EmptySeq
  <1> HIDE DEF n
  <1> HIDE DEF op, seq
  <1>4. /\ F \in [Seq(CandidatesOf(hub)) \X (1..n) -> Seq(CandidatesOf(hub))]
        /\ \A u \in Seq(CandidatesOf(hub)), i \in 1..n : F[<<u, i>>] = op(u, seq[i])
    BY <1>3
  <1> HIDE DEF F
  <1>5. PICK g : IsFold(n, Seq(CandidatesOf(hub)), <<>>, F, g)
    BY <1>2, <1>3, <1>4, FoldExists
  <1>6. g = body(g)
    <2>1. ASSUME NEW s \in SUBSET (1..n)
          PROVE  g[s] = IF s = {} THEN <<>> ELSE op(g[s \ {Max(s)}], seq[Max(s)])
      <3>1. s # {} => /\ g[s \ {Max(s)}] \in Seq(CandidatesOf(hub)) /\ Max(s) \in 1..n
                       /\ g[s] = F[<<g[s \ {Max(s)}], Max(s)>>]
        BY <1>5 DEF IsFold
      <3>2. s = {} => g[s] = <<>>
        BY <1>5 DEF IsFold
      <3> QED
        BY <1>4, <3>1, <3>2, Zenon
    <2>2. g = [s \in SUBSET (1..n) |-> g[s]]
      BY <1>5 DEF IsFold
    <2> QED
      BY <1>2, <2>1, <2>2, Zenon
  <1>7. it = body(it)
    <2> HIDE DEF body
    <2> QED
      BY <1>6, Zenon
  <1> HIDE DEF it
  <1>8. IsUnfolded(n, Seq(CandidatesOf(hub)), <<>>, F, it)
    <2>1. \A s \in SUBSET (1..n) :
            it[s] = IF s = {} THEN <<>> ELSE op(it[s \ {Max(s)}], seq[Max(s)])
      BY <1>2, <1>7, Zenon
    <2>2. \A s \in SUBSET (1..n) : s # {} => Max(s) \in 1..n
      BY <1>2, MaxIn
    <2> QED
      BY <1>4, <2>1, <2>2, Zenon DEF IsUnfolded
  <1>9. IsFolded(n, Seq(CandidatesOf(hub)), <<>>, F, it)
    BY <1>2, <1>3, <1>4, <1>8, FoldSteps
  <1>10. it[DOMAIN seq] \in Seq(CandidatesOf(hub))
    BY <1>2, <1>9 DEF IsFolded
  <1> QED
    BY <1>0, <1>1, <1>10, Zenon

\* What the local EVM may report of a cycle of a hub, and the reports that are not empty.
Reports(view, hub, price) ==
  {<<>>} \union {evmVerifyPath(view, ca[1], ca[2], price) : ca \in Cycles(hub) \X Nat}
Profits(view, hub, price) == {r[1] : r \in Reports(view, hub, price) \ {<<>>}}

\* A report names the cycle and the amount it is about.
LEMMA ReportShape ==
  ASSUME NEW view, NEW path, NEW a, NEW price
  PROVE  LET r == evmVerifyPath(view, path, a, price)
         IN r # <<>> => r = <<r[1]>> /\ r[1].path = path /\ r[1].amountIn = a
  <1> DEFINE r == evmVerifyPath(view, path, a, price)
             gas == (Len(path) * GasPerHop * baseFee * price) \div oneAVAX
             s == swap(view, path, [i \in DOMAIN path |-> IF i = 1 THEN a ELSE 0], 1, [t \in Tokens |-> a])
  <1>1. r = IF ~s.ok THEN <<>> ELSE <<[path |-> path, amountIn |-> a, amountOut |-> s.amountOut,
                                       netProfit |-> s.amountOut - gas]>>
    BY Zenon DEF evmVerifyPath
  <1> HIDE DEF s, r, gas
  <1>2. r # <<>> => r = <<[path |-> path, amountIn |-> a, amountOut |-> s.amountOut,
                           netProfit |-> s.amountOut - gas]>>
    BY <1>1, Zenon
  <1> QED
    BY <1>2 DEF r

\* So do the reports of a hub.
LEMMA ReportOfCycle ==
  ASSUME NEW view, NEW hub, NEW price, NEW r \in Reports(view, hub, price), r # <<>>
  PROVE  /\ r = <<r[1]>> /\ r[1].path \in Cycles(hub) /\ r[1].amountIn \in Nat
         /\ r[1] \in Profits(view, hub, price)
  <1>1. PICK ca \in Cycles(hub) \X Nat : r = evmVerifyPath(view, ca[1], ca[2], price)
    BY DEF Reports
  <1>2. r = <<r[1]>> /\ r[1].path = ca[1] /\ r[1].amountIn = ca[2]
    BY <1>1, ReportShape
  <1>3. ca[1] \in Cycles(hub) /\ ca[2] \in Nat
    BY <1>1
  <1>4. r[1] \in Profits(view, hub, price)
    BY DEF Profits
  <1> QED
    BY <1>2, <1>3, <1>4

\* A report that is not empty, and a report of a cycle.
LEMMA ProfitOfCycle ==
  ASSUME NEW view, NEW hub, NEW price, NEW e \in Profits(view, hub, price)
  PROVE  <<e>> \in Reports(view, hub, price) /\ e.path \in Cycles(hub) /\ e.amountIn \in Nat
  <1>1. PICK r \in Reports(view, hub, price) : r # <<>> /\ e = r[1]
    BY DEF Profits
  <1> QED
    BY <1>1, ReportOfCycle

LEMMA VerifyReports ==
  ASSUME NEW view, NEW hub, NEW price, NEW path \in Cycles(hub), NEW a \in Nat
  PROVE  evmVerifyPath(view, path, a, price) \in Reports(view, hub, price)
  <1>1. <<path, a>> \in Cycles(hub) \X Nat /\ <<path, a>>[1] = path /\ <<path, a>>[2] = a
    OBVIOUS
  <1>2. evmVerifyPath(view, path, a, price) \in
          {evmVerifyPath(view, ca[1], ca[2], price) : ca \in Cycles(hub) \X Nat}
    BY <1>1
  <1> QED
    BY <1>2 DEF Reports

\* The size search reports the cycle it sizes.
LEMMA SizeReports ==
  ASSUME NEW view, NEW hub, NEW price, NEW path \in Cycles(hub), NEW base \in Nat
  PROVE  binarySearchSize(view, path, base, price) \in Reports(view, hub, price)
  <1> DEFINE R == Reports(view, hub, price)
             Bracket == [lo : Nat, hi : Nat, best : R]
             eval(amt) == evmVerifyPath(view, path, amt, price)
             start == [lo |-> base \div sizeFactor, hi |-> base * sizeFactor, best |-> <<>>]
             n == sizeRounds
             seq == [k \in 1..sizeRounds |-> k]
             op(s, k) == Narrowed(s, eval(s.lo), eval((s.lo + s.hi) \div 2), eval(s.hi))
             body(it) == [s \in SUBSET DOMAIN seq |->
                            IF s = {} THEN start ELSE op(it[s \ {Max(s)}], seq[Max(s)])]
             it == CHOOSE it : it = body(it)
             F == [ti \in Bracket \X (1..n) |-> op(ti[1], seq[ti[2]])]
  <1>0. binarySearchSize(view, path, base, price) = FoldLeft(op, start, seq).best
    BY Zenon DEF binarySearchSize
  <1>a. \A a \in Nat : eval(a) \in R
    BY VerifyReports
  <1>b. start \in Bracket
    <2>1. base \div sizeFactor \in Nat /\ base * sizeFactor \in Nat
      BY ArbAssumption
    <2>2. <<>> \in R
      BY DEF Reports
    <2> HIDE DEF R
    <2> QED
      BY <2>1, <2>2
  <1> HIDE DEF eval, R, start
  <1>1. FoldLeft(op, start, seq) = it[DOMAIN seq]
    <2> HIDE DEF op, seq
    <2> QED
      BY Zenon DEF FoldLeft, MapThenFoldSet
  <1>2. n \in Nat /\ DOMAIN seq = 1..n
    BY ArbAssumption
  <1>3. start \in Bracket /\ \A u \in Bracket, i \in 1..n : op(u, seq[i]) \in Bracket
    <2>1. ASSUME NEW u \in Bracket, NEW k PROVE op(u, k) \in Bracket
      <3> DEFINE mid == (u.lo + u.hi) \div 2
                 atLo == eval(u.lo)
                 atMid == eval(mid)
                 atHi == eval(u.hi)
                 lower == atLo # <<>> /\ (atHi = <<>> \/ atLo[1].netProfit > atHi[1].netProfit)
                 best == Better(Better(Better(u.best, atLo), atMid), atHi)
                 lo == IF lower THEN u.lo ELSE mid
                 hi == IF lower THEN mid ELSE u.hi
      <3>1. u.lo \in Nat /\ u.hi \in Nat /\ u.best \in R /\ mid \in Nat
        OBVIOUS
      <3>2. atLo \in R /\ atMid \in R /\ atHi \in R
        <4> HIDE DEF mid
        <4> QED
          BY <1>a, <3>1
      <3>3. op(u, k) = [lo |-> lo, hi |-> hi, best |-> best]
        BY Zenon DEF Narrowed
      <3> HIDE DEF atLo, atMid, atHi, mid
      <3>4. \A a, b \in R : Better(a, b) \in R
        BY Zenon DEF Better
      <3>5. best \in R
        BY <3>1, <3>2, <3>4
      <3>6. lo \in Nat /\ hi \in Nat
        BY <3>1, Zenon
      <3> HIDE DEF best, lo, hi, op
      <3> QED
        BY <3>3, <3>5, <3>6
    <2> HIDE DEF op, Bracket
    <2> QED
      BY <1>b, <2>1
  <1> HIDE DEF n, Bracket
  <1> HIDE DEF op, seq
  <1>4. /\ F \in [Bracket \X (1..n) -> Bracket]
        /\ \A u \in Bracket, i \in 1..n : F[<<u, i>>] = op(u, seq[i])
    BY <1>3
  <1> HIDE DEF F
  <1>5. PICK g : IsFold(n, Bracket, start, F, g)
    BY <1>2, <1>3, <1>4, FoldExists
  <1>6. g = body(g)
    <2>1. ASSUME NEW s \in SUBSET (1..n)
          PROVE  g[s] = IF s = {} THEN start ELSE op(g[s \ {Max(s)}], seq[Max(s)])
      <3>1. s # {} => /\ g[s \ {Max(s)}] \in Bracket /\ Max(s) \in 1..n
                       /\ g[s] = F[<<g[s \ {Max(s)}], Max(s)>>]
        BY <1>5 DEF IsFold
      <3>2. s = {} => g[s] = start
        BY <1>5 DEF IsFold
      <3> QED
        BY <1>4, <3>1, <3>2, Zenon
    <2>2. g = [s \in SUBSET (1..n) |-> g[s]]
      BY <1>5 DEF IsFold
    <2> QED
      BY <1>2, <2>1, <2>2, Zenon
  <1>7. it = body(it)
    <2> HIDE DEF body
    <2> QED
      BY <1>6, Zenon
  <1> HIDE DEF it
  <1>8. IsUnfolded(n, Bracket, start, F, it)
    <2>1. \A s \in SUBSET (1..n) :
            it[s] = IF s = {} THEN start ELSE op(it[s \ {Max(s)}], seq[Max(s)])
      BY <1>2, <1>7, Zenon
    <2>2. \A s \in SUBSET (1..n) : s # {} => Max(s) \in 1..n
      BY <1>2, MaxIn
    <2> QED
      BY <1>4, <2>1, <2>2, Zenon DEF IsUnfolded
  <1>9. IsFolded(n, Bracket, start, F, it)
    BY <1>2, <1>3, <1>4, <1>8, FoldSteps
  <1>10. it[DOMAIN seq] \in Bracket
    BY <1>2, <1>9 DEF IsFolded
  <1>11. it[DOMAIN seq].best \in R
    BY <1>10 DEF Bracket
  <1> QED
    BY <1>0, <1>1, <1>11, Zenon DEF R

\* The results to be sized are reports that are not empty.
LEMMA KeepSizingTyped ==
  ASSUME NEW view, NEW hub, NEW price, NEW rs \in Seq(Profits(view, hub, price)),
         NEW r \in Reports(view, hub, price)
  PROVE  KeepSizing(rs, r) \in Seq(Profits(view, hub, price))
  <1> DEFINE P == Profits(view, hub, price)
  <1>1. PICK w : \/ KeepSizing(rs, r) = rs
                 \/ r # <<>> /\ KeepSizing(rs, r) \in {rs \o r, [rs EXCEPT ![w] = r[1]]}
    BY Zenon DEF KeepSizing
  <1>2. ASSUME r # <<>> PROVE rs \o r \in Seq(P) /\ [rs EXCEPT ![w] = r[1]] \in Seq(P)
    <2>1. r = <<r[1]>> /\ r[1] \in P
      BY <1>2, ReportOfCycle
    <2> HIDE DEF P
    <2>2. rs \in Seq(P)
      BY DEF P
    <2>3. r \in Seq(P)
      <3>1. <<r[1]>> \in Seq(P)
        BY <2>1
      <3> QED
        BY <2>1, <3>1, Zenon
    <2>4. Len(rs) \in Nat /\ rs \in [1..Len(rs) -> P]
      BY <2>2, LenProperties
    <2>5. [rs EXCEPT ![w] = r[1]] \in [1..Len(rs) -> P]
      BY <2>1, <2>4
    <2> QED
      BY <2>2, <2>3, <2>4, <2>5, ConcatProperties, SeqOfFunction
  <1> QED
    BY <1>1, <1>2

\* The verified results of a search, which are sized.
VerifiedOf(view, cands, price) ==
  FoldLeft(LAMBDA rs, c : KeepSizing(rs, evmVerifyPath(view, c.path, c.amountIn, price)),
           <<>>, Distinct(cands))

\* They are reports of the hub's cycles that are not empty.
LEMMA VerifiedTyped ==
  ASSUME NEW view, NEW hub, NEW price, NEW cands \in Seq(CandidatesOf(hub))
  PROVE  VerifiedOf(view, cands, price) \in Seq(Profits(view, hub, price))
  <1> DEFINE n == Len(Distinct(cands))
             seq == Distinct(cands)
             op(rs, c) == KeepSizing(rs, evmVerifyPath(view, c.path, c.amountIn, price))
             body(it) == [s \in SUBSET DOMAIN seq |->
                            IF s = {} THEN <<>> ELSE op(it[s \ {Max(s)}], seq[Max(s)])]
             it == CHOOSE it : it = body(it)
             F == [ti \in Seq(Profits(view, hub, price)) \X (1..n) |-> op(ti[1], seq[ti[2]])]
  <1>0. VerifiedOf(view, cands, price) = FoldLeft(op, <<>>, seq)
    BY Zenon DEF VerifiedOf
  <1>a. seq \in Seq(CandidatesOf(hub))
    BY DistinctTyped
  <1>1. FoldLeft(op, <<>>, seq) = it[DOMAIN seq]
    <2> HIDE DEF op, seq
    <2> QED
      BY Zenon DEF FoldLeft, MapThenFoldSet
  <1>2. n \in Nat /\ DOMAIN seq = 1..n
    BY <1>a, LenProperties
  <1>3. /\ <<>> \in Seq(Profits(view, hub, price))
        /\ \A u \in Seq(Profits(view, hub, price)), i \in 1..n :
             op(u, seq[i]) \in Seq(Profits(view, hub, price))
    <2>1. \A i \in 1..n : seq[i] \in CandidatesOf(hub)
      BY <1>a, ElementOfSeq
    <2>2. ASSUME NEW u \in Seq(Profits(view, hub, price)), NEW c \in CandidatesOf(hub)
          PROVE  op(u, c) \in Seq(Profits(view, hub, price))
      <3>1. c.path \in Cycles(hub) /\ c.amountIn \in Nat
        BY DEF CandidatesOf
      <3>2. evmVerifyPath(view, c.path, c.amountIn, price) \in Reports(view, hub, price)
        BY <3>1, VerifyReports
      <3> QED
        BY <3>2, KeepSizingTyped
    <2> HIDE DEF seq, n, op
    <2> QED
      BY <2>1, <2>2, EmptySeq
  <1> HIDE DEF n
  <1> HIDE DEF op, seq
  <1>4. /\ F \in [Seq(Profits(view, hub, price)) \X (1..n) -> Seq(Profits(view, hub, price))]
        /\ \A u \in Seq(Profits(view, hub, price)), i \in 1..n : F[<<u, i>>] = op(u, seq[i])
    BY <1>3
  <1> HIDE DEF F
  <1>5. PICK g : IsFold(n, Seq(Profits(view, hub, price)), <<>>, F, g)
    BY <1>2, <1>3, <1>4, FoldExists
  <1>6. g = body(g)
    <2>1. ASSUME NEW s \in SUBSET (1..n)
          PROVE  g[s] = IF s = {} THEN <<>> ELSE op(g[s \ {Max(s)}], seq[Max(s)])
      <3>1. s # {} => /\ g[s \ {Max(s)}] \in Seq(Profits(view, hub, price)) /\ Max(s) \in 1..n
                       /\ g[s] = F[<<g[s \ {Max(s)}], Max(s)>>]
        BY <1>5 DEF IsFold
      <3>2. s = {} => g[s] = <<>>
        BY <1>5 DEF IsFold
      <3> QED
        BY <1>4, <3>1, <3>2, Zenon
    <2>2. g = [s \in SUBSET (1..n) |-> g[s]]
      BY <1>5 DEF IsFold
    <2> QED
      BY <1>2, <2>1, <2>2, Zenon
  <1>7. it = body(it)
    <2> HIDE DEF body
    <2> QED
      BY <1>6, Zenon
  <1> HIDE DEF it
  <1>8. IsUnfolded(n, Seq(Profits(view, hub, price)), <<>>, F, it)
    <2>1. \A s \in SUBSET (1..n) :
            it[s] = IF s = {} THEN <<>> ELSE op(it[s \ {Max(s)}], seq[Max(s)])
      BY <1>2, <1>7, Zenon
    <2>2. \A s \in SUBSET (1..n) : s # {} => Max(s) \in 1..n
      BY <1>2, MaxIn
    <2> QED
      BY <1>4, <2>1, <2>2, Zenon DEF IsUnfolded
  <1>9. IsFolded(n, Seq(Profits(view, hub, price)), <<>>, F, it)
    BY <1>2, <1>3, <1>4, <1>8, FoldSteps
  <1>10. it[DOMAIN seq] \in Seq(Profits(view, hub, price))
    BY <1>2, <1>9 DEF IsFolded
  <1> QED
    BY <1>0, <1>1, <1>10, Zenon

(* The result of a hub is the local EVM's report of a cycle of the hub, or *)
(* nothing.                                                                *)
LEMMA HubBestReports ==
  ASSUME NEW view, NEW hub, NEW price, NEW cands \in Seq(CandidatesOf(hub))
  PROVE  HubBest(view, cands, price) \in Reports(view, hub, price)
  <1> DEFINE R == Reports(view, hub, price)
             larger(r, s) == IF s # <<>> /\ s[1].netProfit > r.netProfit THEN s ELSE <<r>>
             n == Len(VerifiedOf(view, cands, price))
             seq == VerifiedOf(view, cands, price)
             op(b, r) == Better(b, larger(r, binarySearchSize(view, r.path, r.amountIn, price)))
             body(it) == [s \in SUBSET DOMAIN seq |->
                            IF s = {} THEN <<>> ELSE op(it[s \ {Max(s)}], seq[Max(s)])]
             it == CHOOSE it : it = body(it)
             F == [ti \in R \X (1..n) |-> op(ti[1], seq[ti[2]])]
  <1>0. HubBest(view, cands, price) = FoldLeft(op, <<>>, seq)
    BY Zenon DEF HubBest, VerifiedOf
  <1>a. seq \in Seq(Profits(view, hub, price))
    BY VerifiedTyped
  <1>1. FoldLeft(op, <<>>, seq) = it[DOMAIN seq]
    <2> HIDE DEF op, seq
    <2> QED
      BY Zenon DEF FoldLeft, MapThenFoldSet
  <1>2. n \in Nat /\ DOMAIN seq = 1..n
    BY <1>a, LenProperties
  <1>3. <<>> \in R /\ \A u \in R, i \in 1..n : op(u, seq[i]) \in R
    <2>1. \A i \in 1..n : seq[i] \in Profits(view, hub, price)
      BY <1>a, ElementOfSeq
    <2>2. ASSUME NEW u \in R, NEW r \in Profits(view, hub, price) PROVE op(u, r) \in R
      <3> DEFINE s == binarySearchSize(view, r.path, r.amountIn, price)
      <3>1. <<r>> \in R /\ r.path \in Cycles(hub) /\ r.amountIn \in Nat
        BY ProfitOfCycle
      <3>2. s \in R
        BY <3>1, SizeReports
      <3> HIDE DEF s, R
      <3>3. larger(r, s) \in R
        BY <3>1, <3>2, Zenon
      <3> HIDE DEF larger
      <3>4. Better(u, larger(r, s)) \in R
        BY <3>3, Zenon DEF Better
      <3> QED
        BY <3>4 DEF s
    <2>3. <<>> \in R
      BY DEF Reports
    <2> HIDE DEF seq, n, op, R
    <2> QED
      BY <2>1, <2>2, <2>3
  <1> HIDE DEF n, R
  <1> HIDE DEF op, seq
  <1>4. /\ F \in [R \X (1..n) -> R]
        /\ \A u \in R, i \in 1..n : F[<<u, i>>] = op(u, seq[i])
    BY <1>3
  <1> HIDE DEF F
  <1>5. PICK g : IsFold(n, R, <<>>, F, g)
    BY <1>2, <1>3, <1>4, FoldExists
  <1>6. g = body(g)
    <2>1. ASSUME NEW s \in SUBSET (1..n)
          PROVE  g[s] = IF s = {} THEN <<>> ELSE op(g[s \ {Max(s)}], seq[Max(s)])
      <3>1. s # {} => /\ g[s \ {Max(s)}] \in R /\ Max(s) \in 1..n
                       /\ g[s] = F[<<g[s \ {Max(s)}], Max(s)>>]
        BY <1>5 DEF IsFold
      <3>2. s = {} => g[s] = <<>>
        BY <1>5 DEF IsFold
      <3> QED
        BY <1>4, <3>1, <3>2, Zenon
    <2>2. g = [s \in SUBSET (1..n) |-> g[s]]
      BY <1>5 DEF IsFold
    <2> QED
      BY <1>2, <2>1, <2>2, Zenon
  <1>7. it = body(it)
    <2> HIDE DEF body
    <2> QED
      BY <1>6, Zenon
  <1> HIDE DEF it
  <1>8. IsUnfolded(n, R, <<>>, F, it)
    <2>1. \A s \in SUBSET (1..n) :
            it[s] = IF s = {} THEN <<>> ELSE op(it[s \ {Max(s)}], seq[Max(s)])
      BY <1>2, <1>7, Zenon
    <2>2. \A s \in SUBSET (1..n) : s # {} => Max(s) \in 1..n
      BY <1>2, MaxIn
    <2> QED
      BY <1>4, <2>1, <2>2, Zenon DEF IsUnfolded
  <1>9. IsFolded(n, R, <<>>, F, it)
    BY <1>2, <1>3, <1>4, <1>8, FoldSteps
  <1>10. it[DOMAIN seq] \in R
    BY <1>2, <1>9 DEF IsFolded
  <1> QED
    BY <1>0, <1>1, <1>10, Zenon DEF R
-----------------------------------------------------------------------------
\* A transaction changes the account's nonce by one, whatever it does.
LEMMA ExecutedNonce ==
  ASSUME NEW s, IsBlock(s), NEW tx
  PROVE  IsBlock(Executed(s, tx)) /\ Executed(s, tx).nonce = s.nonce + 1
  <1> DEFINE r == SwapAt(s, tx.path, tx.amountIn)
             paid == [s EXCEPT !.nonce = @ + 1]
  <1>1. paid = [pools |-> s.pools, bal |-> s.bal, approved |-> s.approved, nonce |-> s.nonce + 1]
    BY DEF IsBlock
  <1> HIDE DEF r, paid
  <1>2. Executed(s, tx) = IF tx.path = <<>> THEN [paid EXCEPT !.approved = @ \union {tx.hub}]
                          ELSE IF tx.hub \notin s.approved \/ ~r.ok THEN paid
                          ELSE [paid EXCEPT !.pools = r.pools, !.bal = r.sender]
    BY Zenon DEF Executed, r, paid
  <1>3. CASE tx.path = <<>>
    <2>1. Executed(s, tx) = [pools |-> s.pools, bal |-> s.bal,
                             approved |-> s.approved \union {tx.hub}, nonce |-> s.nonce + 1]
      BY <1>1, <1>2, <1>3
    <2> QED
      BY <2>1 DEF IsBlock
  <1>4. CASE tx.path # <<>> /\ (tx.hub \notin s.approved \/ ~r.ok)
    <2>1. Executed(s, tx) = paid
      BY <1>2, <1>4
    <2> QED
      BY <1>1, <2>1 DEF IsBlock
  <1>5. CASE tx.path # <<>> /\ ~(tx.hub \notin s.approved \/ ~r.ok)
    <2>1. Executed(s, tx) = [pools |-> r.pools, bal |-> r.sender, approved |-> s.approved,
                             nonce |-> s.nonce + 1]
      BY <1>1, <1>2, <1>5
    <2> QED
      BY <2>1 DEF IsBlock
  <1> QED
    BY <1>3, <1>4, <1>5, Zenon

\* A block appended to the chain is its last one and moves none of the others.
LEMMA Appended ==
  ASSUME ChainShape, NEW s, IsBlock(s), chain' = Append(chain, s)
  PROVE  /\ ChainShape' /\ Len(chain') = Len(chain) + 1 /\ Latest' = s
         /\ \A b \in 1..Len(chain) : chain'[b] = chain[b]
  <1> DEFINE S == {chain[b] : b \in 1..Len(chain)} \union {s}
  <1>1. chain \in Seq(S) /\ s \in S
    BY DEF ChainShape
  <1> HIDE DEF S
  <1>2. /\ chain' \in Seq(S) /\ Len(chain') = Len(chain) + 1
        /\ \A b \in 1..Len(chain) : chain'[b] = chain[b]
        /\ chain'[Len(chain) + 1] = s
    BY <1>1, AppendProperties
  <1>3. ChainShape'
    <2>1. chain' = [b \in 1..Len(chain') |-> chain'[b]]
      BY <1>2, LenProperties
    <2> QED
      BY <1>2, <2>1 DEF ChainShape
  <1> QED
    BY <1>2, <1>3 DEF Latest

\* The block that a trade of someone else leaves.
Traded(t) ==
  [Latest EXCEPT !.pools[t.pool] =
     PairAfter(@, t.amount, PoolQuote(Latest.pools, Leg(t.pool, t.in, t.out), t.amount), t.in < t.out)]

\* The same, with what Mine does to the chain and the node's pool.
LEMMA Mined ==
  ASSUME ChainShape, NEW t, NEW own \in BOOLEAN, Mine(t, own)
  PROVE  LET next == {tx \in mempool : tx.nonce = Latest.nonce}
         IN /\ IsBlock(Traded(t)) /\ Traded(t).nonce = Latest.nonce
            /\ own => \E tx \in next : chain' = Append(chain, Executed(Traded(t), tx))
            /\ ~own => chain' = Append(chain, Traded(t))
            /\ mempool' = IF own THEN mempool \ next ELSE mempool
            /\ UNCHANGED <<rep, blockCh, cached, overlay, bot, nextNonce, restarts>>
  <1> DEFINE next == {tx \in mempool : tx.nonce = Latest.nonce}
  <1>1. IsBlock(Latest)
    BY DEF ChainShape, Latest
  <1>2. IsBlock(Traded(t)) /\ Traded(t).nonce = Latest.nonce
    BY <1>1 DEF IsBlock, Traded
  <1>3. /\ own => next # {}
        /\ chain' = Append(chain, IF own THEN Executed(Traded(t), CHOOSE tx \in next : TRUE) ELSE Traded(t))
        /\ mempool' = IF own THEN mempool \ next ELSE mempool
        /\ UNCHANGED <<rep, blockCh, cached, overlay, bot, nextNonce, restarts>>
    BY Zenon DEF Mine, Traded
  <1> HIDE DEF next
  <1>4. own => (CHOOSE tx \in next : TRUE) \in next
    BY <1>3, Zenon
  <1>5. own => \E tx \in next : chain' = Append(chain, Executed(Traded(t), tx))
    BY <1>3, <1>4, Zenon
  <1>6. ~own => chain' = Append(chain, Traded(t))
    BY <1>3
  <1> QED
    BY <1>2, <1>3, <1>5, <1>6, Zenon DEF next

-----------------------------------------------------------------------------
\* The first block, and no transaction.
LEMMA NonceInit == Init => NonceInv
  <1> SUFFICES ASSUME Init PROVE NonceInv
    OBVIOUS
  <1> DEFINE s == [pools |-> Pools0, bal |-> Balance0, approved |-> Approved0, nonce |-> 1]
  <1>1. chain = <<s>> /\ mempool = {} /\ nextNonce = 0 /\ bot.pc = "start"
    BY DEF Init, Started
  <1>2. IsBlock(s) /\ s.nonce = 1
    BY DEF IsBlock
  <1> HIDE DEF s
  <1>3. Len(chain) = 1 /\ chain[1] = s /\ chain = [b \in 1..1 |-> s]
    BY <1>1
  <1>4. ChainShape /\ Latest.nonce = 1
    BY <1>2, <1>3 DEF ChainShape, Latest
  <1>5. OnePerNonce /\ Cardinality(mempool) = 0
    BY <1>1, FS_EmptySet DEF OnePerNonce
  <1>6. NoNonceGap
    BY <1>1, <1>4, <1>5 DEF NoNonceGap
  <1> QED
    BY <1>1, <1>4, <1>5, <1>6 DEF NonceInv

(* What Send does: the node's pool grows by the transaction, whose nonce   *)
(* is then the one after the last it holds, or stays as it is.             *)
LEMMA SendNonce ==
  ASSUME NonceInv, bot.pc # "start", chain' = chain,
         NEW tx, tx.nonce = nextNonce, NEW a \in BOOLEAN, NEW b \in BOOLEAN, Send(tx, a, b)
  PROVE  NonceInv' /\ nextNonce <= nextNonce'
  <1> DEFINE L == Latest.nonce
             c == Cardinality(mempool)
  <1>1. Latest' = Latest /\ ChainShape'
    BY DEF NonceInv, ChainShape, Latest, IsBlock
  <1>2. /\ L \in Nat /\ c \in Nat /\ nextNonce \in Nat /\ nextNonce <= L + c
        /\ IsFiniteSet(mempool)
        /\ \A t, u \in mempool : t.nonce = u.nonce => t = u
        /\ {t.nonce : t \in mempool} = L..(L + c - 1)
    BY FS_CardinalityType DEF NonceInv, ChainShape, OnePerNonce, NoNonceGap, Latest, IsBlock
  <1>3. Acceptable(tx) => nextNonce = L + c
    BY <1>2 DEF Acceptable
  <1>4. CASE mempool' = mempool /\ nextNonce' = nextNonce
    BY <1>1, <1>2, <1>4 DEF NonceInv, OnePerNonce, NoNonceGap
  <1>5. CASE mempool' = mempool \union {tx} /\ nextNonce' \in {nextNonce, nextNonce + 1} /\ Acceptable(tx)
    <2>1. tx \notin mempool /\ \A u \in mempool : u.nonce # tx.nonce
      BY <1>5 DEF Acceptable
    <2>2. IsFiniteSet(mempool') /\ Cardinality(mempool') = c + 1
      BY <1>2, <1>5, <2>1, FS_AddElement
    <2>3. OnePerNonce'
      BY <1>2, <1>5, <2>1, <2>2 DEF OnePerNonce
    <2>4. {t.nonce : t \in mempool'} = {t.nonce : t \in mempool} \union {L + c}
      BY <1>3, <1>5
    <2>5. {t.nonce : t \in mempool'} = L..(L + (c + 1) - 1)
      BY <1>2, <2>4
    <2>6. NoNonceGap'
      BY <1>1, <1>2, <1>3, <1>5, <2>2, <2>5 DEF NoNonceGap
    <2> QED
      BY <1>1, <1>2, <1>5, <2>3, <2>6 DEF NonceInv
  <1> QED
    BY <1>2, <1>4, <1>5, Zenon DEF Send

\* A mined transaction is the one with the account's nonce.
LEMMA MineNonce ==
  ASSUME NonceInv, NEW t, NEW own \in BOOLEAN, Mine(t, own)
  PROVE  NonceInv'
  <1> DEFINE L == Latest.nonce
             c == Cardinality(mempool)
             next == {tx \in mempool : tx.nonce = L}
  <1>1. /\ IsBlock(Traded(t)) /\ Traded(t).nonce = L
        /\ own => \E tx \in next : chain' = Append(chain, Executed(Traded(t), tx))
        /\ ~own => chain' = Append(chain, Traded(t))
        /\ mempool' = IF own THEN mempool \ next ELSE mempool
        /\ bot' = bot /\ nextNonce' = nextNonce
    BY Mined DEF NonceInv
  <1>2. /\ L \in Nat /\ c \in Nat /\ nextNonce \in Nat
        /\ bot.pc # "start" => nextNonce <= L + c
        /\ IsFiniteSet(mempool) /\ ChainShape
        /\ \A x, u \in mempool : x.nonce = u.nonce => x = u
        /\ {x.nonce : x \in mempool} = L..(L + c - 1)
    BY FS_CardinalityType DEF NonceInv, ChainShape, OnePerNonce, NoNonceGap, Latest, IsBlock
  <1>3. CASE ~own
    <2>1. ChainShape' /\ Latest'.nonce = L
      BY <1>1, <1>2, <1>3, Appended
    <2> QED
      BY <1>1, <1>2, <1>3, <2>1 DEF NonceInv, OnePerNonce, NoNonceGap
  <1>4. CASE own
    <2>1. PICK tx \in next : chain' = Append(chain, Executed(Traded(t), tx))
      BY <1>1, <1>4
    <2>2. ChainShape' /\ Latest'.nonce = L + 1
      BY <1>1, <1>2, <2>1, Appended, ExecutedNonce
    <2>3. next = {tx}
      BY <1>2
    <2>4. mempool' = mempool \ {tx} /\ tx \in mempool /\ tx.nonce = L
      BY <1>1, <1>4, <2>3
    <2>5. IsFiniteSet(mempool') /\ Cardinality(mempool') = c - 1
      BY <1>2, <2>4, FS_RemoveElement
    <2>6. {x.nonce : x \in mempool'} = {x.nonce : x \in mempool} \ {L}
      BY <1>2, <2>4
    <2>7. {x.nonce : x \in mempool'} = (L + 1)..((L + 1) + (c - 1) - 1)
      BY <1>2, <2>6
    <2> DEFINE L1 == Latest'.nonce
               c1 == Cardinality(mempool')
    <2>8. /\ {x.nonce : x \in mempool'} = L1..(L1 + c1 - 1)
          /\ bot'.pc # "start" => nextNonce' <= L1 + c1
      <3>1. L1 = L + 1 /\ c1 = c - 1
        BY <2>2, <2>5
      <3> HIDE DEF L1, c1, L, c
      <3>2. L1 + c1 = L + c /\ L1 + c1 - 1 = (L + 1) + (c - 1) - 1
        BY <1>2, <3>1
      <3> QED
        BY <1>1, <1>2, <2>7, <3>1, <3>2
    <2>9. NoNonceGap'
      BY <2>8 DEF NoNonceGap
    <2> QED
      BY <1>1, <1>2, <2>2, <2>4, <2>5, <2>9 DEF NonceInv, OnePerNonce
  <1> QED
    BY <1>3, <1>4

\* The nonce that Start asks for is the account's, or 0.
LEMMA StartNonce ==
  ASSUME NonceInv, NEW a \in BOOLEAN, Start(a)
  PROVE  NonceInv'
  <1>1. /\ nextNonce' = IF a THEN Latest.nonce ELSE 0
        /\ chain' = chain /\ mempool' = mempool
    BY DEF Start, chainVars
  <1>2. Latest' = Latest /\ ChainShape' /\ Latest.nonce \in Nat /\ Cardinality(mempool) \in Nat
    BY <1>1, FS_CardinalityType DEF NonceInv, ChainShape, OnePerNonce, Latest, IsBlock
  <1> QED
    BY <1>1, <1>2 DEF NonceInv, OnePerNonce, NoNonceGap

\* Every step keeps the nonces in order.
LEMMA NonceStep == NonceInv /\ [Next]_vars => NonceInv'
  <1> SUFFICES ASSUME NonceInv, [Next]_vars PROVE NonceInv'
    OBVIOUS
  <1>1. ASSUME UNCHANGED <<chain, mempool, nextNonce>>, bot'.pc = "start" \/ bot.pc # "start"
        PROVE  NonceInv'
    <2>1. ChainShape' /\ Latest' = Latest
      BY <1>1 DEF NonceInv, ChainShape, Latest, IsBlock
    <2> QED
      BY <1>1, <2>1 DEF NonceInv, OnePerNonce, NoNonceGap
  <1>2. ASSUME NEW t \in Trades, NEW own \in BOOLEAN, Mine(t, own) PROVE NonceInv'
    BY <1>2, MineNonce
  <1>3. CASE ApplyDiff
    BY <1>1, <1>3, Zenon DEF ApplyDiff, chainVars
  <1>4. CASE Restart
    BY <1>1, <1>4 DEF Restart, chainVars, Started
  <1>5. ASSUME NEW a \in BOOLEAN, Start(a) PROVE NonceInv'
    BY <1>5, StartNonce
  <1>6. ASSUME NEW a \in BOOLEAN, verifyOnNode(a) PROVE NonceInv'
    <2>1. UNCHANGED <<chain, mempool, nextNonce>> /\ bot.pc = "verify"
      BY <1>6, Zenon DEF verifyOnNode, chainVars
    <2> QED
      BY <1>1, <2>1
  <1>7. ASSUME NEW a \in BOOLEAN, NEW b \in BOOLEAN, Approve(a, b) PROVE NonceInv'
    <2>1. bot.pc = "approve" /\ chain' = chain
      BY <1>7 DEF Approve
    <2> DEFINE tx == [nonce |-> nextNonce, hub |-> Hubs[bot.hub], path |-> <<>>, amountIn |-> 0,
                      amountOut |-> 0, block |-> 0, run |-> restarts]
    <2>2. Send(tx, a, b)
      BY <1>7, Zenon DEF Approve
    <2>3. tx.nonce = nextNonce
      OBVIOUS
    <2> HIDE DEF tx
    <2> QED
      BY <2>1, <2>2, <2>3, SendNonce
  <1>8. ASSUME NEW a \in BOOLEAN, NEW b \in BOOLEAN, submitArb(a, b) PROVE NonceInv'
    <2>1. bot.pc = "submit" /\ chain' = chain
      BY <1>8, Zenon DEF submitArb
    <2> DEFINE tx == [nonce |-> nextNonce, hub |-> Hubs[bot.hub], path |-> Result.path,
                      amountIn |-> Result.amountIn, amountOut |-> Result.amountOut,
                      block |-> bot.block, run |-> restarts]
    <2>2. Send(tx, a, b)
      BY <1>8, Zenon DEF submitArb
    <2>3. tx.nonce = nextNonce
      OBVIOUS
    <2> HIDE DEF tx
    <2> QED
      BY <2>1, <2>2, <2>3, SendNonce
  <1>9. CASE HasAllowance
    <2>1. UNCHANGED <<chain, mempool, nextNonce>> /\ bot.pc = "approve"
      BY <1>9, Zenon DEF HasAllowance, chainVars
    <2> QED
      BY <1>1, <2>1
  <1>10. CASE RunInitial
    <2>1. UNCHANGED <<chain, mempool, nextNonce>> /\ bot.pc = "initial"
      BY <1>10, Zenon DEF RunInitial, Search, chainVars
    <2> QED
      BY <1>1, <2>1
  <1>11. CASE Register
    <2>1. UNCHANGED <<chain, mempool, nextNonce>> /\ bot.pc = "ran"
      BY <1>11, Zenon DEF Register, chainVars
    <2> QED
      BY <1>1, <2>1
  <1>12. CASE TakeEvent
    <2>1. UNCHANGED <<chain, mempool, nextNonce>> /\ bot.pc = "wait"
      BY <1>12, Zenon DEF TakeEvent, chainVars
    <2> QED
      BY <1>1, <2>1
  <1>13. CASE RunBlock
    <2>1. UNCHANGED <<chain, mempool, nextNonce>> /\ bot.pc = "event"
      BY <1>13, Zenon DEF RunBlock, Search, chainVars
    <2> QED
      BY <1>1, <2>1
  <1>14. CASE UNCHANGED vars
    <2>1. UNCHANGED <<chain, mempool, nextNonce, bot>>
      BY <1>14 DEF vars
    <2> QED
      BY <1>1, <2>1
  <1> QED
    BY <1>2, <1>3, <1>4, <1>5, <1>6, <1>7, <1>8, <1>9, <1>10, <1>11, <1>12, <1>13, <1>14, Zenon
       DEF Next, BotStep

(* The nonces the node holds follow the account's without a gap, and the   *)
(* bot's counter never runs ahead of them (main.go, sendTx and the nonce   *)
(* counting of submitArb and ensureApprovals), whatever is lost.           *)
THEOREM NoNonceGapHolds == Spec => []NoNonceGap
  <1>1. NonceInv => NoNonceGap
    BY DEF NonceInv
  <1> QED
    BY <1>1, NonceInit, NonceStep, PTL DEF Spec

-----------------------------------------------------------------------------
(* From leads to a result not yet tried, of a bot that has sent nothing,   *)
(* or ends the block.                                                      *)
LEMMA FromBot ==
  ASSUME NEW b, IsBot(b), NEW i \in Nat
  PROVE  LET c == From(b, i)
         IN /\ IsBot(c) /\ c.block = b.block /\ c.listening = b.listening
            /\ \/ /\ c.pc = "verify" /\ ~b.sent /\ c.found = b.found
                  /\ c.hub \in i..Len(Hubs) /\ c.found[c.hub] # <<>>
               \/ c.pc \in {"wait", "ran"}
  <1> DEFINE left == {j \in i..Len(Hubs) : b.found[j] # <<>> /\ ~b.sent}
             rest == [b EXCEPT !.pc = IF b.listening THEN "wait" ELSE "ran", !.hub = 1, !.found = <<>>,
                               !.sent = FALSE]
  <1>1. From(b, i) = IF left # {} THEN [b EXCEPT !.pc = "verify", !.hub = Min(left)] ELSE rest
    BY Zenon DEF From
  <1>2. CASE left # {}
    <2>1. left \in SUBSET Nat
      OBVIOUS
    <2>2. Min(left) \in left
      BY <1>2, <2>1, MinIsLeast
    <2> DEFINE m == Min(left)
    <2>3. m \in i..Len(Hubs) /\ b.found[m] # <<>> /\ ~b.sent
      BY <2>2
    <2>4. From(b, i) = [b EXCEPT !.pc = "verify", !.hub = m]
      BY <1>1, <1>2
    <2> HIDE DEF m, left
    <2>5. From(b, i) = [pc |-> "verify", hub |-> m, block |-> b.block, listening |-> b.listening,
                        sent |-> b.sent, found |-> b.found, maxBalance |-> b.maxBalance,
                        price |-> b.price]
      BY <2>4 DEF IsBot
    <2> QED
      BY <2>3, <2>5 DEF IsBot
  <1>3. CASE left = {}
    <2>1. From(b, i) = [pc |-> IF b.listening THEN "wait" ELSE "ran", hub |-> 1, block |-> b.block,
                        listening |-> b.listening, sent |-> FALSE, found |-> <<>>,
                        maxBalance |-> b.maxBalance, price |-> b.price]
      BY <1>1, <1>3 DEF IsBot
    <2> QED
      BY <2>1 DEF IsBot
  <1> QED
    BY <1>2, <1>3

-----------------------------------------------------------------------------
\* Block events, oldest first, each of a block after the one the bot is at.
Events == [block : Nat, dirty : SUBSET Pools]
EventOrder ==
  /\ blockCh \in Seq(Events)
  /\ bot.pc # "start" =>
       /\ bot.block <= rep
       /\ \A i \in 1..Len(blockCh) : bot.block < blockCh[i].block /\ blockCh[i].block <= rep
       /\ \A i, j \in 1..Len(blockCh) : i < j => blockCh[i].block < blockCh[j].block
  /\ bot.pc \in {"approve", "initial"} => blockCh = <<>> /\ ~bot.listening
  /\ bot.pc \in {"event", "verify", "submit"} => bot.block # 0

(* The swaps of this run of the bot are of the blocks up to its own, and   *)
(* while it is at the results of a block, one it has sent for that block   *)
(* has the nonce that the next attempt will use.                           *)
SwapOrder ==
  \A tx \in Waiting :
    /\ tx.run \in Nat /\ tx.run <= restarts /\ tx.block \in 1..Len(chain)
    /\ tx.run = restarts =>
         /\ bot.pc \notin {"start", "approve", "initial"}
         /\ tx.block <= bot.block
         /\ bot.pc = "event" => tx.block < bot.block
         /\ bot.pc \in {"verify", "submit"} /\ tx.block = bot.block => tx.nonce = nextNonce

OrderInv ==
  /\ NonceInv /\ IsBot(bot) /\ restarts \in Nat /\ rep \in 1..Len(chain)
  /\ EventOrder /\ SwapOrder /\ OnePerBlock

\* The bot is not started and the node holds nothing.
LEMMA OrderInit == Init => OrderInv
  <1> SUFFICES ASSUME Init PROVE OrderInv
    OBVIOUS
  <1>1. NonceInv
    BY NonceInit
  <1>2. mempool = {} /\ rep = 1 /\ blockCh = <<>> /\ bot = Started /\ restarts = 0
    BY DEF Init
  <1>3. IsBot(bot) /\ bot.pc = "start"
    BY <1>2 DEF IsBot, Started
  <1>4. rep \in 1..Len(chain)
    BY <1>1, <1>2 DEF NonceInv, ChainShape
  <1>5. EventOrder
    BY <1>2, <1>3 DEF EventOrder
  <1>6. SwapOrder /\ OnePerBlock
    BY <1>2 DEF SwapOrder, OnePerBlock, Waiting
  <1> QED
    BY <1>1, <1>2, <1>3, <1>4, <1>5, <1>6 DEF OrderInv

\* The chain grows and the node's pool shrinks.
LEMMA OrderMine ==
  ASSUME OrderInv, NEW t, NEW own \in BOOLEAN, Mine(t, own)
  PROVE  OrderInv'
  <1>1. NonceInv'
    BY MineNonce DEF OrderInv
  <1>2. ChainShape /\ Len(chain) \in Nat
    BY DEF OrderInv, NonceInv, ChainShape
  <1>3. /\ mempool' \subseteq mempool
        /\ UNCHANGED <<rep, blockCh, bot, nextNonce, restarts>>
    BY <1>2, Mined
  <1>4. Len(chain') = Len(chain) + 1
    <2>1. \E s : IsBlock(s) /\ chain' = Append(chain, s)
      BY <1>2, Mined, ExecutedNonce
    <2> QED
      BY <1>2, <2>1, Appended
  <1>5. Waiting' \subseteq Waiting
    BY <1>3 DEF Waiting
  <1>6. rep' \in 1..Len(chain') /\ restarts' \in Nat /\ IsBot(bot')
    BY <1>2, <1>3, <1>4 DEF OrderInv
  <1>7. EventOrder'
    BY <1>3 DEF OrderInv, EventOrder
  <1>8. SwapOrder'
    <2> SUFFICES ASSUME NEW tx \in Waiting'
                 PROVE  /\ tx.run \in Nat /\ tx.run <= restarts' /\ tx.block \in 1..Len(chain')
                        /\ tx.run = restarts' =>
                             /\ bot'.pc \notin {"start", "approve", "initial"}
                             /\ tx.block <= bot'.block
                             /\ bot'.pc = "event" => tx.block < bot'.block
                             /\ bot'.pc \in {"verify", "submit"} /\ tx.block = bot'.block =>
                                  tx.nonce = nextNonce'
      BY Zenon DEF SwapOrder
    <2> QED
      BY <1>2, <1>3, <1>4, <1>5 DEF OrderInv, SwapOrder
  <1>9. OnePerBlock'
    BY <1>5 DEF OrderInv, OnePerBlock
  <1> QED
    BY <1>1, <1>6, <1>7, <1>8, <1>9 DEF OrderInv

\* A new block event is of a block after all the others.
LEMMA OrderApplyDiff ==
  ASSUME OrderInv, ApplyDiff
  PROVE  OrderInv'
  <1> DEFINE ev == [block |-> rep + 1,
                    dirty |-> {p \in Pools : chain[rep + 1].pools[p] # chain[rep].pools[p]}]
  <1>1. /\ rep < Len(chain) /\ bot.pc # "start" /\ rep' = rep + 1
        /\ UNCHANGED <<chain, mempool, bot, nextNonce, restarts>>
    BY Zenon DEF ApplyDiff, chainVars
  <1>2. IF bot.listening THEN Signal(ev) ELSE UNCHANGED blockCh
    <2>1. bot.listening => Signal([block |-> rep',
                 dirty |-> {p \in Pools : chain[rep'].pools[p] # chain[rep].pools[p]}])
      BY Zenon DEF ApplyDiff
    <2>2. ~bot.listening => UNCHANGED blockCh
      BY Zenon DEF ApplyDiff
    <2> QED
      BY <1>1, <2>1, <2>2
  <1>3. /\ NonceInv' /\ IsBot(bot') /\ restarts' \in Nat /\ SwapOrder' /\ OnePerBlock'
    BY <1>1 DEF OrderInv, NonceInv, ChainShape, IsBlock, OnePerNonce, NoNonceGap, Latest, SwapOrder,
                OnePerBlock, Waiting
  <1>4. rep \in Nat /\ Len(chain) \in Nat /\ rep' \in 1..Len(chain')
    BY <1>1 DEF OrderInv, NonceInv, ChainShape
  <1>5. ev \in Events /\ ev.block = rep + 1
    BY <1>4 DEF Events
  <1> HIDE DEF ev
  <1>6. bot.block \in Nat /\ \A i \in 1..Len(blockCh) : blockCh[i].block \in Nat
    <2>1. \A i \in 1..Len(blockCh) : blockCh[i] \in Events
      BY ElementOfSeq DEF OrderInv, EventOrder
    <2> QED
      BY <2>1 DEF Events, OrderInv, IsBot
  <1>7. CASE blockCh' = blockCh
    BY <1>1, <1>3, <1>4, <1>6, <1>7 DEF OrderInv, EventOrder
  <1>8. CASE blockCh' = Append(blockCh, ev) /\ bot.listening
    <2>1. /\ blockCh' \in Seq(Events) /\ Len(blockCh') = Len(blockCh) + 1 /\ Len(blockCh) \in Nat
          /\ \A i \in 1..Len(blockCh) : blockCh'[i] = blockCh[i]
          /\ blockCh'[Len(blockCh) + 1] = ev
      BY <1>5, <1>8, AppendProperties, LenProperties DEF OrderInv, EventOrder
    <2>2. /\ bot.block <= rep
          /\ \A i \in 1..Len(blockCh) : bot.block < blockCh[i].block /\ blockCh[i].block <= rep
          /\ \A i, j \in 1..Len(blockCh) : i < j => blockCh[i].block < blockCh[j].block
          /\ bot.pc \notin {"approve", "initial"}
          /\ bot.pc \in {"event", "verify", "submit"} => bot.block # 0
      BY <1>1, <1>8 DEF OrderInv, EventOrder
    <2>3. \A i \in 1..Len(blockCh') : bot'.block < blockCh'[i].block /\ blockCh'[i].block <= rep'
      BY <1>1, <1>4, <1>5, <1>6, <2>1, <2>2
    <2>4. \A i, j \in 1..Len(blockCh') : i < j => blockCh'[i].block < blockCh'[j].block
      BY <1>4, <1>5, <1>6, <2>1, <2>2
    <2>5. bot'.block <= rep'
      BY <1>1, <1>4, <1>6, <2>2
    <2>6. EventOrder'
      BY <1>1, <2>1, <2>2, <2>3, <2>4, <2>5 DEF EventOrder
    <2> QED
      BY <1>3, <1>4, <2>6 DEF OrderInv
  <1> QED
    BY <1>2, <1>7, <1>8 DEF Signal

(* A step that changes only the bot, to one of the later points of the     *)
(* same block.                                                             *)
LEMMA OrderSameBlock ==
  ASSUME OrderInv, NonceInv', UNCHANGED <<chain, mempool, rep, blockCh, nextNonce, restarts>>,
         IsBot(bot'), bot'.block = bot.block,
         \/ bot.pc = "event" /\ bot'.pc \in {"verify", "wait", "ran"}
         \/ bot.pc = "verify" /\ bot'.pc \in {"submit", "verify", "wait", "ran"}
         \/ bot.pc = "ran" /\ bot'.pc = "wait"
  PROVE  OrderInv'
  <1>1. EventOrder'
    BY DEF OrderInv, EventOrder
  <1>2. Waiting' = Waiting
    BY DEF Waiting
  <1>3. SwapOrder'
    BY <1>2 DEF OrderInv, SwapOrder, IsBot
  <1>4. OnePerBlock'
    BY <1>2 DEF OrderInv, OnePerBlock
  <1> QED
    BY <1>1, <1>3, <1>4 DEF OrderInv

\* Until the initial run the node holds no swap of this run.
LEMMA OrderBefore ==
  ASSUME OrderInv, NonceInv', UNCHANGED <<chain, rep, blockCh, restarts>>,
         Waiting' = Waiting, IsBot(bot'),
         \/ bot.pc = "approve" /\ bot'.pc \in {"approve", "initial"} /\ bot'.block = bot.block
              /\ bot'.listening = bot.listening
         \/ bot.pc = "initial" /\ bot'.pc \in {"verify", "wait", "ran"} /\ bot'.block = rep
  PROVE  OrderInv'
  <1>1. EventOrder'
    BY DEF OrderInv, EventOrder
  <1>2. SwapOrder'
    BY DEF OrderInv, SwapOrder, IsBot
  <1>3. OnePerBlock'
    BY DEF OrderInv, OnePerBlock
  <1> QED
    BY <1>1, <1>2, <1>3 DEF OrderInv

\* A start empties the channel; a run that is over has its own number.
LEMMA OrderStart ==
  ASSUME OrderInv, NEW a \in BOOLEAN, Start(a)
  PROVE  OrderInv'
  <1>1. /\ bot.pc = "start" /\ rep' = Len(chain) /\ blockCh' = <<>>
        /\ UNCHANGED <<chain, mempool, restarts>>
    BY Zenon DEF Start, chainVars
  <1>2. IsBot(bot') /\ bot'.pc = "approve" /\ bot'.block = 0 /\ ~bot'.listening
    <2> DEFINE mb == [t \in HubSet |-> Latest.bal[t]]
               pr == [t \in HubSet |->
                  IF t = WAVAX THEN oneAVAX ELSE Max({1, quoteAVAXPrice(Latest.pools, Adj, t)})]
    <2>1. bot' = [Started EXCEPT !.pc = "approve", !.maxBalance = mb, !.price = pr]
      BY Zenon DEF Start
    <2> HIDE DEF mb, pr
    <2> QED
      BY <2>1 DEF Started, IsBot
  <1>3. NonceInv' /\ Len(chain) \in Nat \ {0}
    BY StartNonce DEF OrderInv, NonceInv, ChainShape
  <1>4. EventOrder'
    BY <1>1, <1>2, <1>3 DEF EventOrder
  <1>5. Waiting' = Waiting
    BY <1>1 DEF Waiting
  <1>6. SwapOrder' /\ OnePerBlock'
    BY <1>1, <1>5 DEF OrderInv, SwapOrder, OnePerBlock
  <1> QED
    BY <1>1, <1>2, <1>3, <1>4, <1>6 DEF OrderInv

\* A restart begins a run for which nothing was sent.
LEMMA OrderRestart ==
  ASSUME OrderInv, NonceInv', Restart
  PROVE  OrderInv'
  <1>1. /\ restarts' = restarts + 1 /\ bot' = Started
        /\ UNCHANGED <<chain, mempool, rep, blockCh, nextNonce>>
    BY DEF Restart, chainVars
  <1>2. IsBot(bot') /\ bot'.pc = "start" /\ Waiting' = Waiting
    BY <1>1 DEF Started, IsBot, Waiting
  <1>3. EventOrder'
    BY <1>1, <1>2 DEF OrderInv, EventOrder
  <1>4. SwapOrder' /\ OnePerBlock'
    BY <1>1, <1>2 DEF OrderInv, SwapOrder, OnePerBlock
  <1> QED
    BY <1>1, <1>2, <1>3, <1>4 DEF OrderInv

\* The event that is taken is of a block for which nothing was sent.
LEMMA OrderTakeEvent ==
  ASSUME OrderInv, NonceInv', TakeEvent
  PROVE  OrderInv'
  <1> DEFINE n == blockCh[1].block
  <1>1. /\ bot.pc = "wait" /\ blockCh # <<>> /\ blockCh' = Tail(blockCh)
        /\ bot' = [bot EXCEPT !.pc = "event", !.block = n]
        /\ UNCHANGED <<chain, mempool, rep, nextNonce, restarts>>
    BY Zenon DEF TakeEvent, chainVars
  <1>2. /\ blockCh \in Seq(Events) /\ Len(blockCh) \in Nat \ {0}
        /\ \A i \in 1..Len(blockCh) : blockCh[i] \in Events
    BY <1>1, EmptySeq, ElementOfSeq DEF OrderInv, EventOrder
  <1>3. /\ bot.block \in Nat /\ n \in Nat /\ bot.block < n /\ n <= rep
        /\ \A i \in 1..Len(blockCh) : blockCh[i].block \in Nat /\ blockCh[i].block <= rep
        /\ \A i, j \in 1..Len(blockCh) : i < j => blockCh[i].block < blockCh[j].block
    <2>1. bot.block \in Nat
      BY DEF OrderInv, IsBot
    <2>2. \A i \in 1..Len(blockCh) : blockCh[i].block \in Nat
      BY <1>2 DEF Events
    <2> QED
      BY <1>1, <1>2, <2>1, <2>2 DEF OrderInv, EventOrder
  <1> HIDE DEF n
  <1>4. IsBot(bot') /\ bot'.pc = "event" /\ bot'.block = n
    BY <1>1, <1>3 DEF OrderInv, IsBot
  <1>5. /\ blockCh' \in Seq(Events) /\ Len(blockCh') = Len(blockCh) - 1
        /\ \A i \in 1..Len(blockCh') : blockCh'[i] = blockCh[i + 1]
    BY <1>1, <1>2, HeadTailProperties
  <1>6. \A i \in 1..Len(blockCh') : bot'.block < blockCh'[i].block /\ blockCh'[i].block <= rep'
    BY <1>1, <1>2, <1>3, <1>4, <1>5 DEF n
  <1>7. \A i, j \in 1..Len(blockCh') : i < j => blockCh'[i].block < blockCh'[j].block
    <2> SUFFICES ASSUME NEW i \in 1..Len(blockCh'), NEW j \in 1..Len(blockCh'), i < j
                 PROVE  blockCh'[i].block < blockCh'[j].block
      OBVIOUS
    <2>1. i + 1 \in 1..Len(blockCh) /\ j + 1 \in 1..Len(blockCh) /\ i + 1 < j + 1
      BY <1>2, <1>5
    <2> QED
      BY <1>3, <1>5, <2>1
  <1>8. EventOrder'
    BY <1>1, <1>3, <1>4, <1>5, <1>6, <1>7 DEF EventOrder
  <1>9. Waiting' = Waiting
    BY <1>1 DEF Waiting
  <1>10. SwapOrder'
    <2>1. \A tx \in Waiting : /\ tx.run \in Nat /\ tx.run <= restarts /\ tx.block \in 1..Len(chain)
                              /\ tx.run = restarts => tx.block <= bot.block
      BY DEF OrderInv, SwapOrder
    <2> QED
      BY <1>1, <1>3, <1>4, <1>9, <2>1 DEF SwapOrder
  <1>11. OnePerBlock'
    BY <1>9 DEF OrderInv, OnePerBlock
  <1> QED
    BY <1>1, <1>4, <1>8, <1>10, <1>11 DEF OrderInv

(* A swap is sent once: when its confirmation was lost the next attempt    *)
(* has its nonce, and the node refuses it.                                 *)
LEMMA OrderSubmit ==
  ASSUME OrderInv, NEW a \in BOOLEAN, NEW b \in BOOLEAN, submitArb(a, b)
  PROVE  OrderInv'
  <1> DEFINE tx == [nonce |-> nextNonce, hub |-> Hubs[bot.hub], path |-> Result.path,
                    amountIn |-> Result.amountIn, amountOut |-> Result.amountOut,
                    block |-> bot.block, run |-> restarts]
             up == nextNonce' > nextNonce
             bb == [bot EXCEPT !.sent = up]
  <1>1. /\ bot.pc = "submit" /\ Send(tx, a, b) /\ bot' = From(bb, bot.hub + 1)
        /\ UNCHANGED <<chain, rep, blockCh, restarts>>
    BY Zenon DEF submitArb
  <1>2. tx.nonce = nextNonce /\ tx.block = bot.block /\ tx.run = restarts
    OBVIOUS
  <1> HIDE DEF tx
  <1>3. NonceInv' /\ nextNonce \in Nat /\ nextNonce' \in Nat /\ bot.block \in Nat
    BY <1>1, <1>2, SendNonce DEF OrderInv, NonceInv, IsBot
  <1>4. IsBot(bb) /\ bb.block = bot.block /\ (~bb.sent => ~up) /\ bot.hub + 1 \in Nat
    <2>1. up \in BOOLEAN
      BY <1>3
    <2> HIDE DEF up
    <2> QED
      BY <2>1 DEF OrderInv, IsBot
  <1> HIDE DEF bb
  <1>5. /\ IsBot(bot') /\ bot'.block = bot.block
        /\ \/ bot'.pc = "verify" /\ ~(nextNonce' > nextNonce)
           \/ bot'.pc \in {"wait", "ran"}
    <2>1. LET c == From(bb, bot.hub + 1)
          IN /\ IsBot(c) /\ c.block = bb.block
             /\ \/ c.pc = "verify" /\ ~bb.sent
                \/ c.pc \in {"wait", "ran"}
      BY <1>4, FromBot, Zenon
    <2> QED
      BY <1>1, <1>4, <2>1
  <1>6. EventOrder'
    BY <1>1, <1>5 DEF OrderInv, EventOrder
  <1>7. restarts \in Nat /\ bot.block \in 1..Len(chain)
    BY <1>1, <1>3 DEF OrderInv, EventOrder, NonceInv, ChainShape
  <1>8. CASE mempool' = mempool /\ nextNonce' = nextNonce
    <2>1. Waiting' = Waiting
      BY <1>8 DEF Waiting
    <2>2. SwapOrder'
      BY <1>1, <1>3, <1>5, <1>8, <2>1 DEF OrderInv, SwapOrder
    <2>3. OnePerBlock'
      BY <2>1 DEF OrderInv, OnePerBlock
    <2> QED
      BY <1>1, <1>3, <1>5, <1>6, <2>2, <2>3 DEF OrderInv
  <1>9. CASE mempool' = mempool \union {tx} /\ nextNonce' \in {nextNonce, nextNonce + 1} /\ Acceptable(tx)
    <2>1. Waiting \subseteq Waiting' /\ Waiting' \subseteq Waiting \union {tx}
      BY <1>9 DEF Waiting
    <2>2. \A u \in Waiting : u.nonce # nextNonce
      BY <1>2, <1>9 DEF Acceptable, Waiting
    <2>3. \A u \in Waiting : u.run = restarts => u.block < bot.block
      <3>1. \A u \in Waiting : u.block \in Nat
        BY DEF OrderInv, SwapOrder
      <3> QED
        BY <1>1, <1>3, <2>2, <3>1 DEF OrderInv, SwapOrder
    <2>4. SwapOrder'
      <3> SUFFICES ASSUME NEW u \in Waiting'
                   PROVE  /\ u.run \in Nat /\ u.run <= restarts' /\ u.block \in 1..Len(chain')
                          /\ u.run = restarts' =>
                               /\ bot'.pc \notin {"start", "approve", "initial"}
                               /\ u.block <= bot'.block
                               /\ bot'.pc = "event" => u.block < bot'.block
                               /\ bot'.pc \in {"verify", "submit"} /\ u.block = bot'.block =>
                                    u.nonce = nextNonce'
        BY Zenon DEF SwapOrder
      <3>1. CASE u = tx
        BY <1>1, <1>2, <1>3, <1>5, <1>7, <1>9, <3>1
      <3>2. CASE u \in Waiting
        <4>1. u.run \in Nat /\ u.run <= restarts /\ u.block \in 1..Len(chain)
          BY <3>2 DEF OrderInv, SwapOrder
        <4> QED
          BY <1>1, <1>3, <1>5, <2>3, <3>2, <4>1
      <3> QED
        BY <2>1, <3>1, <3>2
    <2>5. OnePerBlock'
      <3> SUFFICES ASSUME NEW u \in Waiting', NEW v \in Waiting', u.run = v.run, u.block = v.block
                   PROVE  u = v
        BY DEF OnePerBlock
      <3>1. ASSUME NEW w \in Waiting PROVE ~(w.run = tx.run /\ w.block = tx.block)
        BY <1>2, <1>3, <2>3
      <3>2. u \in Waiting /\ v \in Waiting => u = v
        BY DEF OrderInv, OnePerBlock
      <3> QED
        BY <2>1, <3>1, <3>2
    <2> QED
      BY <1>1, <1>3, <1>5, <1>6, <2>4, <2>5 DEF OrderInv
  <1> QED
    BY <1>1, <1>8, <1>9, Zenon DEF Send

\* An approval is no swap.
LEMMA OrderApprove ==
  ASSUME OrderInv, NonceInv', NEW a \in BOOLEAN, NEW b \in BOOLEAN,
         Approve(a, b) \/ HasAllowance
  PROVE  OrderInv'
  <1> DEFINE tx == [nonce |-> nextNonce, hub |-> Hubs[bot.hub], path |-> <<>>, amountIn |-> 0,
                    amountOut |-> 0, block |-> 0, run |-> restarts]
  <1>1. /\ bot.pc = "approve" /\ bot' = Approved(bot.hub)
        /\ UNCHANGED <<chain, rep, blockCh, restarts>>
        /\ mempool' = mempool \/ mempool' = mempool \union {tx}
    BY Zenon DEF Approve, HasAllowance, chainVars, Send
  <1>2. Waiting' = Waiting
    BY <1>1 DEF Waiting
  <1>3. /\ IsBot(bot') /\ bot'.pc \in {"approve", "initial"} /\ bot'.block = bot.block
        /\ bot'.listening = bot.listening
    <2>1. IsBot(bot)
      BY DEF OrderInv
    <2>2. \/ bot' = [bot EXCEPT !.pc = "initial", !.hub = 1]
          \/ bot' = [bot EXCEPT !.hub = bot.hub + 1]
      BY <1>1 DEF Approved
    <2>3. CASE bot' = [bot EXCEPT !.pc = "initial", !.hub = 1]
      BY <2>1, <2>3 DEF IsBot
    <2>4. CASE bot' = [bot EXCEPT !.hub = bot.hub + 1]
      BY <1>1, <2>1, <2>4 DEF IsBot
    <2> QED
      BY <2>2, <2>3, <2>4
  <1> QED
    BY <1>1, <1>2, <1>3, OrderBefore

\* A search ends at a result or with the block, at the block it was made for.
LEMMA SearchBot ==
  ASSUME NEW n \in Nat, IsBot(bot), Search(n)
  PROVE  /\ IsBot(bot') /\ bot'.block = n /\ bot'.pc \in {"verify", "wait", "ran"}
         /\ UNCHANGED <<chain, mempool, rep, blockCh, nextNonce, restarts>>
  <1>1. PICK pr, fo : bot' = From([bot EXCEPT !.block = n, !.price = pr, !.found = fo], 1)
    BY Zenon DEF Search
  <1> DEFINE b == [bot EXCEPT !.block = n, !.price = pr, !.found = fo]
  <1>2. IsBot(b) /\ b.block = n
    <2> DEFINE b1 == [bot EXCEPT !.block = n]
               b2 == [b1 EXCEPT !.price = pr]
    <2>1. IsBot(b1) /\ b1.block = n
      BY DEF IsBot
    <2> HIDE DEF b1
    <2>2. IsBot(b2) /\ b2.block = n
      BY <2>1 DEF IsBot
    <2> HIDE DEF b2
    <2>3. IsBot([b2 EXCEPT !.found = fo]) /\ [b2 EXCEPT !.found = fo].block = n
      BY <2>2 DEF IsBot
    <2> QED
      BY <2>3, Zenon DEF b1, b2
  <1> HIDE DEF b
  <1>3. LET c == From(b, 1)
        IN IsBot(c) /\ c.block = n /\ c.pc \in {"verify", "wait", "ran"}
    BY <1>2, FromBot
  <1>4. bot' = From(b, 1)
    BY <1>1 DEF b
  <1>5. UNCHANGED <<chain, mempool, rep, blockCh, nextNonce, restarts>>
    BY Zenon DEF Search, chainVars
  <1> QED
    BY <1>3, <1>4, <1>5

\* Every step keeps the order.
LEMMA OrderStep == OrderInv /\ [Next]_vars => OrderInv'
  <1> SUFFICES ASSUME OrderInv, [Next]_vars PROVE OrderInv'
    OBVIOUS
  <1>1. NonceInv' /\ IsBot(bot)
    BY NonceStep DEF OrderInv
  <1>2. ASSUME NEW t \in Trades, NEW own \in BOOLEAN, Mine(t, own) PROVE OrderInv'
    BY <1>2, OrderMine
  <1>3. CASE ApplyDiff
    BY <1>3, OrderApplyDiff
  <1>4. CASE Restart
    BY <1>1, <1>4, OrderRestart
  <1>5. ASSUME NEW a \in BOOLEAN, Start(a) PROVE OrderInv'
    BY <1>5, OrderStart
  <1>6. ASSUME NEW a \in BOOLEAN, verifyOnNode(a) PROVE OrderInv'
    <2>1. /\ bot.pc = "verify"
          /\ bot' = [bot EXCEPT !.pc = "submit"] \/ bot' = From(bot, bot.hub + 1)
          /\ UNCHANGED <<chain, mempool, rep, blockCh, nextNonce, restarts>>
      BY <1>6, Zenon DEF verifyOnNode, chainVars
    <2>2. CASE bot' = [bot EXCEPT !.pc = "submit"]
      <3>1. IsBot(bot') /\ bot'.block = bot.block /\ bot'.pc = "submit"
        BY <1>1, <2>2 DEF IsBot
      <3> QED
        BY <1>1, <2>1, <3>1, OrderSameBlock
    <2>3. CASE bot' = From(bot, bot.hub + 1)
      <3>1. bot.hub + 1 \in Nat
        BY <1>1 DEF IsBot
      <3>2. LET c == From(bot, bot.hub + 1)
            IN IsBot(c) /\ c.block = bot.block /\ c.pc \in {"verify", "wait", "ran"}
        BY <1>1, <3>1, FromBot
      <3>3. IsBot(bot') /\ bot'.block = bot.block /\ bot'.pc \in {"verify", "wait", "ran"}
        BY <2>3, <3>2
      <3> QED
        BY <1>1, <2>1, <3>3, OrderSameBlock
    <2> QED
      BY <2>1, <2>2, <2>3
  <1>7. ASSUME NEW a \in BOOLEAN, NEW b \in BOOLEAN, Approve(a, b) PROVE OrderInv'
    BY <1>1, <1>7, OrderApprove
  <1>8. ASSUME NEW a \in BOOLEAN, NEW b \in BOOLEAN, submitArb(a, b) PROVE OrderInv'
    BY <1>8, OrderSubmit
  <1>9. CASE HasAllowance
    <2>1. TRUE \in BOOLEAN
      OBVIOUS
    <2> QED
      BY <1>1, <1>9, <2>1, OrderApprove
  <1>10. CASE RunInitial
    <2>1. bot.pc = "initial" /\ Search(rep) /\ rep \in Nat
      BY <1>10 DEF RunInitial, OrderInv
    <2>2. /\ IsBot(bot') /\ bot'.block = rep /\ bot'.pc \in {"verify", "wait", "ran"}
          /\ UNCHANGED <<chain, mempool, rep, blockCh, nextNonce, restarts>>
      BY <1>1, <2>1, SearchBot
    <2>3. Waiting' = Waiting
      BY <2>2 DEF Waiting
    <2> QED
      BY <1>1, <2>1, <2>2, <2>3, OrderBefore
  <1>11. CASE Register
    <2>1. /\ bot.pc = "ran" /\ bot' = [bot EXCEPT !.pc = "wait", !.listening = TRUE]
          /\ UNCHANGED <<chain, mempool, rep, blockCh, nextNonce, restarts>>
      BY <1>11, Zenon DEF Register, chainVars
    <2>2. IsBot(bot') /\ bot'.block = bot.block /\ bot'.pc = "wait"
      BY <1>1, <2>1 DEF IsBot
    <2> QED
      BY <1>1, <2>1, <2>2, OrderSameBlock
  <1>12. CASE TakeEvent
    BY <1>1, <1>12, OrderTakeEvent
  <1>13. CASE RunBlock
    <2>1. bot.pc = "event" /\ Search(bot.block) /\ bot.block \in Nat
      BY <1>1, <1>13 DEF RunBlock, IsBot
    <2>2. /\ IsBot(bot') /\ bot'.block = bot.block /\ bot'.pc \in {"verify", "wait", "ran"}
          /\ UNCHANGED <<chain, mempool, rep, blockCh, nextNonce, restarts>>
      BY <1>1, <2>1, SearchBot
    <2> QED
      BY <1>1, <2>1, <2>2, OrderSameBlock
  <1>14. CASE UNCHANGED vars
    BY <1>1, <1>14 DEF vars, OrderInv, EventOrder, SwapOrder, OnePerBlock, Waiting, IsBot
  <1> QED
    BY <1>2, <1>3, <1>4, <1>5, <1>6, <1>7, <1>8, <1>9, <1>10, <1>11, <1>12, <1>13, <1>14, Zenon
       DEF Next, BotStep

(* The node never holds two swaps of one run of the bot for one block      *)
(* (main.go, the hub loop of runBlock and submitArb), whatever answer is   *)
(* lost and whenever the process is restarted.                             *)
THEOREM OnePerBlockHolds == Spec => []OnePerBlock
  <1>1. OrderInv => OnePerBlock
    BY DEF OrderInv
  <1> QED
    BY <1>1, OrderInit, OrderStep, PTL DEF Spec
-----------------------------------------------------------------------------
\* A block's pools hold natural amounts and its balances are numbers.
BlockTyped(s) == s.pools \in [Pools -> V2Pool] /\ s.bal \in [Tokens -> Int]
ChainTyped == \A b \in 1..Len(chain) : BlockTyped(chain[b])

\* A quoter was built at a block of the chain, or not yet.
CachedAt == cached \in [Pools -> 0..Len(chain)]

\* While the bot is at a result, what it found are cycles of the hubs.
OfCycle(hub, found) == found # <<>> => found[1].path \in Cycles(hub) /\ found[1].amountIn \in Nat
FoundCycles ==
  bot.pc \in {"verify", "submit"} =>
    /\ bot.hub \in DOMAIN Hubs /\ bot.found[bot.hub] # <<>>
    /\ \A i \in DOMAIN Hubs : OfCycle(Hubs[i], bot.found[i])

\* What it is about to send is what the node agreed to.
NodeAgreed == bot.pc = "submit" => NodeAgrees(chain[bot.block], Hubs[bot.hub], Result)

\* What the node holds are cycles, and each pays on its block what it says.
IsSwap(tx) == tx.hub \in Tokens /\ tx.path \in Cycles(tx.hub) /\ tx.amountIn \in Nat
HoldsOn(tx, s) ==
  LET r == SwapAt(s, tx.path, tx.amountIn)
  IN /\ tx.hub \in s.approved /\ r.ok /\ r.amountOut = tx.amountOut
     /\ r.sender[tx.hub] - s.bal[tx.hub] = tx.amountOut - tx.amountIn
SwapsHold == \A tx \in Waiting : IsSwap(tx) /\ HoldsOn(tx, chain[tx.block])

MoneyInv == OrderInv /\ ChainTyped /\ CachedAt /\ FoundCycles /\ NodeAgreed /\ SwapsHold

\* The hubs are tokens, with sizes.
LEMMA HubsTyped ==
  /\ Len(Hubs) \in Nat /\ DOMAIN Hubs = 1..Len(Hubs)
  /\ \A i \in DOMAIN Hubs : Hubs[i] \in Tokens /\ Sizes[Hubs[i]] \in Seq(Nat)
  BY BotAssumption, LenProperties, ElementOfSeq

\* A trade of someone else leaves typed pools.
LEMMA TradedTyped ==
  ASSUME ChainShape, ChainTyped, NEW t \in Trades
  PROVE  BlockTyped(Traded(t))
  <1> DEFINE ps == Latest.pools
             out == PoolQuote(ps, Leg(t.pool, t.in, t.out), t.amount)
             after == PairAfter(ps[t.pool], t.amount, out, t.in < t.out)
  <1>1. IsBlock(Latest) /\ BlockTyped(Latest)
    BY DEF ChainShape, ChainTyped, Latest
  <1>2. t.pool \in Pools /\ t.amount \in Nat /\ ps[t.pool] \in V2Pool
    BY <1>1, BotAssumption DEF BlockTyped
  <1>3. out = QuoteV2(ps[t.pool], t.amount, t.in, t.out)
    BY DEF PoolQuote, Leg
  <1>4. after \in V2Pool
    <2> HIDE DEF out, ps
    <2> QED
      BY <1>2, <1>3, PairKept
  <1>5. Traded(t) = [pools |-> [ps EXCEPT ![t.pool] = after], bal |-> Latest.bal,
                     approved |-> Latest.approved, nonce |-> Latest.nonce]
    BY <1>1 DEF IsBlock, Traded
  <1> HIDE DEF after
  <1>6. [ps EXCEPT ![t.pool] = after] \in [Pools -> V2Pool]
    BY <1>1, <1>2, <1>4 DEF BlockTyped
  <1> QED
    BY <1>1, <1>5, <1>6 DEF BlockTyped

\* A route of a hub in one swap() call, on a block.
LEMMA SwapAtCycle ==
  ASSUME NEW s, BlockTyped(s), NEW hub \in Tokens, NEW path \in Cycles(hub), NEW a \in Nat
  PROVE  LET r == SwapAt(s, path, a)
         IN /\ r.pools \in [Pools -> V2Pool] /\ r.sender \in [Tokens -> Int]
            /\ r.ok => r.sender[hub] - s.bal[hub] = r.amountOut - a
  <1>1. PICK ps \in [Pools -> V2Pool], bal \in [Tokens -> Int] : ps = s.pools /\ bal = s.bal
    BY DEF BlockTyped
  <1> DEFINE w == swap(ps, path, [i \in DOMAIN path |-> IF i = 1 THEN a ELSE 0], 1, bal)
  <1>2. /\ w.pools \in [Pools -> V2Pool] /\ w.sender \in [Tokens -> Int]
        /\ w.ok => w.sender[hub] - bal[hub] = w.amountOut - a
    BY SwapOfCycle
  <1>3. SwapAt(s, path, a) = w
    BY <1>1, Zenon DEF SwapAt
  <1> HIDE DEF w
  <1> QED
    BY <1>1, <1>2, <1>3

\* So does a transaction of the caller.
LEMMA ExecutedTyped ==
  ASSUME NEW s, IsBlock(s), BlockTyped(s), NEW tx, tx.path # <<>> => IsSwap(tx)
  PROVE  BlockTyped(Executed(s, tx))
  <1> DEFINE r == SwapAt(s, tx.path, tx.amountIn)
             paid == [s EXCEPT !.nonce = @ + 1]
  <1>1. paid = [pools |-> s.pools, bal |-> s.bal, approved |-> s.approved, nonce |-> s.nonce + 1]
    BY DEF IsBlock
  <1>2. tx.path # <<>> => r.pools \in [Pools -> V2Pool] /\ r.sender \in [Tokens -> Int]
    <2> SUFFICES ASSUME tx.path # <<>>
                 PROVE  r.pools \in [Pools -> V2Pool] /\ r.sender \in [Tokens -> Int]
      OBVIOUS
    <2>1. tx.hub \in Tokens /\ tx.path \in Cycles(tx.hub) /\ tx.amountIn \in Nat
      BY DEF IsSwap
    <2> QED
      BY <2>1, SwapAtCycle
  <1> HIDE DEF r, paid
  <1>3. Executed(s, tx) = IF tx.path = <<>> THEN [paid EXCEPT !.approved = @ \union {tx.hub}]
                          ELSE IF tx.hub \notin s.approved \/ ~r.ok THEN paid
                          ELSE [paid EXCEPT !.pools = r.pools, !.bal = r.sender]
    BY Zenon DEF Executed, r, paid
  <1>4. CASE tx.path = <<>>
    <2>1. Executed(s, tx) = [pools |-> s.pools, bal |-> s.bal,
                             approved |-> s.approved \union {tx.hub}, nonce |-> s.nonce + 1]
      BY <1>1, <1>3, <1>4
    <2> QED
      BY <2>1 DEF BlockTyped
  <1>5. CASE tx.path # <<>> /\ (tx.hub \notin s.approved \/ ~r.ok)
    <2>1. Executed(s, tx) = paid
      BY <1>3, <1>5
    <2> QED
      BY <1>1, <2>1 DEF BlockTyped
  <1>6. CASE tx.path # <<>> /\ ~(tx.hub \notin s.approved \/ ~r.ok)
    <2>1. Executed(s, tx) = [pools |-> r.pools, bal |-> r.sender, approved |-> s.approved,
                             nonce |-> s.nonce + 1]
      BY <1>1, <1>3, <1>6
    <2> QED
      BY <1>2, <1>6, <2>1 DEF BlockTyped
  <1> QED
    BY <1>4, <1>5, <1>6, Zenon

\* The quoters are of pools of the chain.
LEMMA ViewTyped ==
  ASSUME OrderInv, ChainTyped, CachedAt
  PROVE  ViewOf(cached) \in [Pools -> V2Pool]
  <1>1. Len(chain) \in Nat /\ rep \in 1..Len(chain)
    BY DEF OrderInv, NonceInv, ChainShape
  <1>2. ASSUME NEW p \in Pools
        PROVE  chain[IF cached[p] = 0 THEN rep ELSE cached[p]].pools[p] \in V2Pool
    <2> DEFINE b == IF cached[p] = 0 THEN rep ELSE cached[p]
    <2>1. cached[p] \in 0..Len(chain)
      BY DEF CachedAt
    <2>2. b \in 1..Len(chain)
      BY <1>1, <2>1
    <2> HIDE DEF b
    <2>3. chain[b].pools \in [Pools -> V2Pool]
      BY <2>2 DEF ChainTyped, BlockTyped
    <2>4. chain[b].pools[p] \in V2Pool
      BY <2>3
    <2> QED
      BY <2>4 DEF b
  <1> QED
    BY <1>2 DEF ViewOf

(* What a search finds for a hub is the local EVM's report of a cycle of   *)
(* that hub, whatever the prescreen chose and in whatever order.           *)
LEMMA OutcomeFound ==
  ASSUME OrderInv, ChainTyped, CachedAt, NEW o \in Orders, NEW sel
  PROVE  \A i \in DOMAIN Hubs : OfCycle(Hubs[i], Outcome(o, sel).found[i])
  <1> DEFINE ps == ViewOf(cached)
             view == ViewOf(overlay)
             pr == Prices(ps)
             adj(i) == filterAdjacency(Adj, sel[i])
             cand(i) == Candidates(ps, adj(i), Hubs[i], Sizes[Hubs[i]], bot.maxBalance[Hubs[i]], o)
             cands == [i \in DOMAIN Hubs |-> cand(i)]
             best(i) == HubBest(view, cands[i], pr[Hubs[i]])
             found == [i \in DOMAIN Hubs |-> best(i)]
  <1>1. Outcome(o, sel).found = found
    <2>1. Outcome(o, sel) = Verified(view, pr, cands)
      BY Zenon DEF Outcome
    <2> HIDE DEF view, pr, cands
    <2>2. PICK run, paid : Verified(view, pr, cands) =
                             [price |-> pr, run |-> run, paid |-> paid, found |-> found]
      BY Zenon DEF Verified
    <2> HIDE DEF found
    <2> QED
      BY <2>1, <2>2
  <1>2. ASSUME NEW i \in DOMAIN Hubs PROVE OfCycle(Hubs[i], found[i])
    <2>1. Hubs[i] \in Tokens /\ Sizes[Hubs[i]] \in Seq(Nat) /\ o \in Seq(Tokens)
      BY HubsTyped, BotAssumption
    <2>2. ps \in [Pools -> V2Pool]
      BY ViewTyped
    <2>3. adj(i) \in Adjacency
      BY AdjTyped, FilterTyped
    <2> HIDE DEF ps, adj, pr, view
    <2>4. cand(i) \in Seq(CandidatesOf(Hubs[i]))
      BY <2>1, <2>2, <2>3, CandidatesTyped
    <2> HIDE DEF cand
    <2>5. cands[i] \in Seq(CandidatesOf(Hubs[i]))
      BY <2>4
    <2> HIDE DEF cands
    <2>6. best(i) \in Reports(view, Hubs[i], pr[Hubs[i]])
      BY <2>5, HubBestReports
    <2> HIDE DEF best
    <2>7. OfCycle(Hubs[i], best(i))
      BY <2>6, ReportOfCycle DEF OfCycle
    <2>8. found[i] = best(i)
      OBVIOUS
    <2> QED
      BY <2>7, <2>8
  <1> HIDE DEF found
  <1> QED
    BY <1>1, <1>2

\* From keeps what was found, or ends the block.
LEMMA FoundFrom ==
  ASSUME NEW b, IsBot(b), NEW i \in Nat \ {0}, \A h \in DOMAIN Hubs : OfCycle(Hubs[h], b.found[h]),
         bot' = From(b, i)
  PROVE  FoundCycles' /\ NodeAgreed'
  <1>1. \/ /\ bot'.pc = "verify" /\ bot'.found = b.found
           /\ bot'.hub \in i..Len(Hubs) /\ bot'.found[bot'.hub] # <<>>
        \/ bot'.pc \in {"wait", "ran"}
    <2>1. LET c == From(b, i)
          IN \/ /\ c.pc = "verify" /\ c.found = b.found
                /\ c.hub \in i..Len(Hubs) /\ c.found[c.hub] # <<>>
             \/ c.pc \in {"wait", "ran"}
      BY FromBot, Zenon
    <2> QED
      BY <2>1, Zenon
  <1>2. NodeAgreed'
    BY <1>1 DEF NodeAgreed
  <1>3. CASE bot'.pc = "verify" /\ bot'.found = b.found
             /\ bot'.hub \in i..Len(Hubs) /\ bot'.found[bot'.hub] # <<>>
    <2>1. bot'.hub \in DOMAIN Hubs
      BY <1>3, HubsTyped
    <2> QED
      BY <1>2, <1>3, <2>1 DEF FoundCycles
  <1>4. CASE bot'.pc \in {"wait", "ran"}
    BY <1>2, <1>4 DEF FoundCycles
  <1> QED
    BY <1>1, <1>3, <1>4

\* A search.
LEMMA SearchFinds ==
  ASSUME OrderInv, ChainTyped, CachedAt, NEW n \in Nat, Search(n)
  PROVE  CachedAt' /\ FoundCycles' /\ NodeAgreed'
  <1>1. PICK o, sel, r :
          /\ o \in Orders
          /\ r = Outcome(o, sel)
          /\ cached' = [p \in Pools |-> IF cached[p] = 0 THEN rep ELSE cached[p]]
          /\ bot' = From([bot EXCEPT !.block = n, !.price = r.price, !.found = r.found], 1)
          /\ chain' = chain
    <2>1. PICK r \in UNION {{Outcome(o, sel) : sel \in Selections(o)} : o \in Orders} :
            /\ cached' = [p \in Pools |-> IF cached[p] = 0 THEN rep ELSE cached[p]]
            /\ bot' = From([bot EXCEPT !.block = n, !.price = r.price, !.found = r.found], 1)
            /\ chain' = chain
      BY Zenon DEF Search, chainVars
    <2>2. PICK o \in Orders : r \in {Outcome(o, sel) : sel \in Selections(o)}
      BY <2>1
    <2>3. PICK sel \in Selections(o) : r = Outcome(o, sel)
      BY <2>2
    <2> QED
      BY <2>1, <2>3, Zenon
  <1>2. CachedAt'
    BY <1>1 DEF CachedAt, OrderInv
  <1> DEFINE b == [bot EXCEPT !.block = n, !.price = r.price, !.found = r.found]
  <1>3. IsBot(b) /\ b.found = r.found
    <2> DEFINE b1 == [bot EXCEPT !.block = n]
               b2 == [b1 EXCEPT !.price = r.price]
               b3 == [b2 EXCEPT !.found = r.found]
    <2>1. IsBot(b1)
      BY DEF IsBot, OrderInv
    <2> HIDE DEF b1
    <2>2. IsBot(b2)
      BY <2>1 DEF IsBot
    <2> HIDE DEF b2
    <2>3. IsBot(b3) /\ b3.found = r.found
      BY <2>2 DEF IsBot
    <2> QED
      BY <2>3, Zenon DEF b1, b2
  <1> HIDE DEF b
  <1>4. \A i \in DOMAIN Hubs : OfCycle(Hubs[i], b.found[i])
    BY <1>1, <1>3, OutcomeFound, Zenon
  <1>5. bot' = From(b, 1)
    BY <1>1 DEF b
  <1> QED
    BY <1>2, <1>3, <1>4, <1>5, FoundFrom

\* Nothing is known to be wrong at the start.
LEMMA MoneyInit == Init => MoneyInv
  <1> SUFFICES ASSUME Init PROVE MoneyInv
    OBVIOUS
  <1>1. OrderInv
    BY OrderInit
  <1>2. /\ chain = <<[pools |-> Pools0, bal |-> Balance0, approved |-> Approved0, nonce |-> 1]>>
        /\ mempool = {} /\ cached = None /\ bot.pc = "start"
    BY DEF Init, Started
  <1>3. ChainTyped
    <2>1. BlockTyped([pools |-> Pools0, bal |-> Balance0, approved |-> Approved0, nonce |-> 1])
      BY BotAssumption DEF BlockTyped
    <2> QED
      BY <1>2, <2>1 DEF ChainTyped
  <1>4. CachedAt
    BY <1>1, <1>2 DEF CachedAt, None, OrderInv, NonceInv, ChainShape
  <1>5. FoundCycles /\ NodeAgreed /\ SwapsHold
    BY <1>2 DEF FoundCycles, NodeAgreed, SwapsHold, Waiting
  <1> QED
    BY <1>1, <1>3, <1>4, <1>5 DEF MoneyInv

\* A block is added to the chain, and no block that a swap was found for changes.
LEMMA MoneyMine ==
  ASSUME MoneyInv, OrderInv', NEW t \in Trades, NEW own \in BOOLEAN, Mine(t, own)
  PROVE  MoneyInv'
  <1>1. OrderInv /\ ChainShape /\ ChainTyped /\ Len(chain) \in Nat
    BY DEF MoneyInv, OrderInv, NonceInv, ChainShape
  <1> DEFINE next == {tx \in mempool : tx.nonce = Latest.nonce}
  <1>2. /\ IsBlock(Traded(t)) /\ BlockTyped(Traded(t))
        /\ own => \E tx \in next : chain' = Append(chain, Executed(Traded(t), tx))
        /\ ~own => chain' = Append(chain, Traded(t))
        /\ mempool' \subseteq mempool
        /\ UNCHANGED <<cached, bot>>
    BY <1>1, Mined, TradedTyped
  <1>3. PICK s : IsBlock(s) /\ BlockTyped(s) /\ chain' = Append(chain, s)
    <2>1. CASE own
      <3>1. PICK tx \in mempool : chain' = Append(chain, Executed(Traded(t), tx))
        BY <1>2, <2>1
      <3>2. tx.path # <<>> => IsSwap(tx)
        BY DEF MoneyInv, SwapsHold, Waiting
      <3>3. IsBlock(Executed(Traded(t), tx)) /\ BlockTyped(Executed(Traded(t), tx))
        BY <1>2, <3>2, ExecutedNonce, ExecutedTyped
      <3> QED
        BY <3>1, <3>3
    <2>2. CASE ~own
      BY <1>2, <2>2
    <2> QED
      BY <2>1, <2>2
  <1>4. /\ Len(chain') = Len(chain) + 1 /\ chain'[Len(chain) + 1] = s
        /\ \A b \in 1..Len(chain) : chain'[b] = chain[b]
    BY <1>1, <1>3, Appended DEF Latest
  <1>5. ChainTyped'
    <2> SUFFICES ASSUME NEW b \in 1..Len(chain') PROVE BlockTyped(chain'[b])
      BY DEF ChainTyped
    <2>1. b \in 1..Len(chain) \/ b = Len(chain) + 1
      BY <1>1, <1>4
    <2>2. b \in 1..Len(chain) => chain'[b] = chain[b] /\ BlockTyped(chain[b])
      BY <1>1, <1>4 DEF ChainTyped
    <2>3. b = Len(chain) + 1 => chain'[b] = s
      BY <1>4
    <2> QED
      BY <1>3, <2>1, <2>2, <2>3, Zenon
  <1>6. CachedAt'
    BY <1>1, <1>2, <1>4 DEF MoneyInv, CachedAt
  <1>7. FoundCycles'
    BY <1>2 DEF MoneyInv, FoundCycles
  <1>8. NodeAgreed'
    <2> SUFFICES ASSUME bot'.pc = "submit"
                 PROVE  NodeAgrees(chain'[bot'.block], Hubs[bot'.hub], bot'.found[bot'.hub][1])
      BY DEF NodeAgreed, Result
    <2>1. NodeAgrees(chain[bot.block], Hubs[bot.hub], bot.found[bot.hub][1])
      BY <1>2 DEF MoneyInv, NodeAgreed, Result
    <2>2. bot.block \in 1..Len(chain)
      BY <1>1, <1>2 DEF OrderInv, EventOrder, IsBot
    <2>3. chain'[bot'.block] = chain[bot.block]
      BY <1>2, <1>4, <2>2
    <2> QED
      BY <1>2, <2>1, <2>3
  <1>9. SwapsHold'
    <2> SUFFICES ASSUME NEW tx \in Waiting' PROVE IsSwap(tx) /\ HoldsOn(tx, chain'[tx.block])
      BY DEF SwapsHold
    <2>1. tx \in Waiting
      BY <1>2 DEF Waiting
    <2>2. tx.block \in 1..Len(chain) /\ IsSwap(tx) /\ HoldsOn(tx, chain[tx.block])
      BY <1>1, <2>1 DEF OrderInv, SwapOrder, MoneyInv, SwapsHold
    <2>3. chain'[tx.block] = chain[tx.block]
      BY <1>4, <2>2
    <2> QED
      BY <2>2, <2>3
  <1> QED
    BY <1>5, <1>6, <1>7, <1>8, <1>9 DEF MoneyInv

\* A step that leaves the chain and the swaps the node holds alone.
LEMMA MoneyQuiet ==
  ASSUME MoneyInv, OrderInv', chain' = chain, Waiting' = Waiting, CachedAt', FoundCycles', NodeAgreed'
  PROVE  MoneyInv'
  <1>1. ChainTyped'
    BY DEF MoneyInv, ChainTyped
  <1>2. SwapsHold'
    <2> SUFFICES ASSUME NEW tx \in Waiting' PROVE IsSwap(tx) /\ HoldsOn(tx, chain'[tx.block])
      BY DEF SwapsHold
    <2> QED
      BY DEF MoneyInv, SwapsHold
  <1> QED
    BY <1>1, <1>2 DEF MoneyInv

(* What the node agreed to pays on the block of the bot, and the caller    *)
(* gains what swap() returns less what it took.                            *)
LEMMA MoneySubmit ==
  ASSUME MoneyInv, OrderInv', NEW a \in BOOLEAN, NEW b \in BOOLEAN, submitArb(a, b)
  PROVE  MoneyInv'
  <1> DEFINE h == Hubs[bot.hub]
             tx == [nonce |-> nextNonce, hub |-> h, path |-> Result.path,
                    amountIn |-> Result.amountIn, amountOut |-> Result.amountOut,
                    block |-> bot.block, run |-> restarts]
             bb == [bot EXCEPT !.sent = nextNonce' > nextNonce]
             s == chain[bot.block]
  <1>1. /\ bot.pc = "submit" /\ bot' = From(bb, bot.hub + 1)
        /\ mempool' = mempool \/ mempool' = mempool \union {tx}
        /\ UNCHANGED <<chain, cached>>
    BY Zenon DEF submitArb, Send
  <1>2. /\ tx.hub = h /\ tx.path = Result.path /\ tx.amountIn = Result.amountIn
        /\ tx.amountOut = Result.amountOut /\ tx.block = bot.block
    OBVIOUS
  <1> HIDE DEF tx
  <1>3. OrderInv /\ IsBot(bot) /\ bot.hub \in DOMAIN Hubs /\ bot.block \in 1..Len(chain)
    BY <1>1 DEF MoneyInv, FoundCycles, OrderInv, EventOrder, IsBot, NonceInv, ChainShape
  <1>4. h \in Tokens /\ Result.path \in Cycles(h) /\ Result.amountIn \in Nat
    BY <1>1, <1>3, HubsTyped DEF MoneyInv, FoundCycles, OfCycle, Result
  <1>5. IsSwap(tx)
    BY <1>2, <1>4 DEF IsSwap
  <1>6. HoldsOn(tx, s)
    <2> DEFINE r == SwapAt(s, tx.path, tx.amountIn)
    <2>1. h \in s.approved /\ r.ok /\ r.amountOut = tx.amountOut
      BY <1>1, <1>2 DEF MoneyInv, NodeAgreed, NodeAgrees
    <2>2. BlockTyped(s)
      BY <1>3 DEF MoneyInv, ChainTyped
    <2>3. r.sender[h] - s.bal[h] = r.amountOut - tx.amountIn
      <3>1. tx.path \in Cycles(h) /\ tx.amountIn \in Nat
        BY <1>2, <1>4
      <3> HIDE DEF h, s
      <3> QED
        BY <1>4, <2>1, <2>2, <3>1, SwapAtCycle
    <2> HIDE DEF r, s, h
    <2> QED
      BY <1>2, <2>1, <2>3 DEF HoldsOn, r
  <1>7. SwapsHold'
    <2> SUFFICES ASSUME NEW u \in Waiting' PROVE IsSwap(u) /\ HoldsOn(u, chain'[u.block])
      BY DEF SwapsHold
    <2>1. u = tx \/ u \in Waiting
      BY <1>1 DEF Waiting
    <2>2. CASE u = tx
      BY <1>1, <1>2, <1>5, <1>6, <2>2
    <2>3. CASE u \in Waiting
      BY <1>1, <2>3 DEF MoneyInv, SwapsHold
    <2> QED
      BY <2>1, <2>2, <2>3
  <1>8. IsBot(bb) /\ bb.found = bot.found /\ bot.hub + 1 \in Nat \ {0}
    <2> DEFINE up == nextNonce' > nextNonce
    <2>1. up \in BOOLEAN
      OBVIOUS
    <2> HIDE DEF up
    <2>2. bot.hub + 1 \in Nat \ {0}
      BY <1>3 DEF IsBot
    <2>3. IsBot([bot EXCEPT !.sent = up]) /\ [bot EXCEPT !.sent = up].found = bot.found
      BY <1>3, <2>1 DEF IsBot
    <2> QED
      BY <2>2, <2>3 DEF up
  <1> HIDE DEF bb
  <1>9. FoundCycles' /\ NodeAgreed'
    <2>1. \A i \in DOMAIN Hubs : OfCycle(Hubs[i], bb.found[i])
      BY <1>1, <1>8 DEF MoneyInv, FoundCycles
    <2> QED
      BY <1>1, <1>8, <2>1, FoundFrom
  <1>10. ChainTyped' /\ CachedAt'
    BY <1>1 DEF MoneyInv, ChainTyped, CachedAt
  <1> QED
    BY <1>7, <1>9, <1>10 DEF MoneyInv

\* Every step keeps the invariant.
LEMMA MoneyStep == MoneyInv /\ [Next]_vars => MoneyInv'
  <1> SUFFICES ASSUME MoneyInv, [Next]_vars PROVE MoneyInv'
    OBVIOUS
  <1>1. /\ OrderInv /\ OrderInv' /\ IsBot(bot) /\ ChainTyped /\ CachedAt
        /\ Len(chain) \in Nat \ {0} /\ rep \in 1..Len(chain)
    BY OrderStep DEF MoneyInv, OrderInv, NonceInv, ChainShape
  <1>2. ASSUME NEW t \in Trades, NEW own \in BOOLEAN, Mine(t, own) PROVE MoneyInv'
    BY <1>1, <1>2, MoneyMine
  <1>3. ASSUME UNCHANGED <<chain, mempool, cached, bot>> PROVE MoneyInv'
    <2>1. Waiting' = Waiting /\ CachedAt' /\ FoundCycles' /\ NodeAgreed'
      BY <1>3 DEF MoneyInv, Waiting, CachedAt, FoundCycles, NodeAgreed, Result
    <2> QED
      BY <1>1, <1>3, <2>1, MoneyQuiet
  <1>4. ASSUME chain' = chain, Waiting' = Waiting, CachedAt', bot'.pc \notin {"verify", "submit"}
        PROVE  MoneyInv'
    <2>1. FoundCycles' /\ NodeAgreed'
      BY <1>4 DEF FoundCycles, NodeAgreed
    <2> QED
      BY <1>1, <1>4, <2>1, MoneyQuiet
  <1>5. ASSUME UNCHANGED <<chain, mempool, cached>> PROVE chain' = chain /\ Waiting' = Waiting /\ CachedAt'
    BY <1>5 DEF MoneyInv, Waiting, CachedAt
  <1>6. CASE ApplyDiff
    <2>1. UNCHANGED <<chain, mempool, cached, bot>>
      BY <1>6 DEF ApplyDiff, chainVars
    <2> QED
      BY <1>3, <2>1
  <1>7. CASE Restart
    <2>1. UNCHANGED <<chain, mempool, cached>> /\ bot'.pc = "start"
      BY <1>7 DEF Restart, chainVars, Started
    <2> QED
      BY <1>4, <1>5, <2>1
  <1>8. ASSUME NEW a \in BOOLEAN, Start(a) PROVE MoneyInv'
    <2>1. UNCHANGED <<chain, mempool>> /\ cached' = [p \in Pools |-> Len(chain)]
      BY <1>8, Zenon DEF Start, chainVars
    <2>2. bot'.pc = "approve"
      <3>1. PICK mb, pr : bot' = [Started EXCEPT !.pc = "approve", !.maxBalance = mb, !.price = pr]
        BY <1>8, Zenon DEF Start
      <3> QED
        BY <3>1 DEF Started
    <2>3. CachedAt' /\ Waiting' = Waiting
      BY <1>1, <2>1 DEF CachedAt, Waiting
    <2> QED
      BY <1>4, <2>1, <2>2, <2>3
  <1>9. ASSUME NEW a \in BOOLEAN, verifyOnNode(a) PROVE MoneyInv'
    <2>1. /\ bot.pc = "verify" /\ UNCHANGED <<chain, mempool, cached>>
          /\ \/ /\ NodeAgrees(chain[bot.block], Hubs[bot.hub], Result)
                /\ bot' = [bot EXCEPT !.pc = "submit"]
             \/ bot' = From(bot, bot.hub + 1)
      BY <1>9, Zenon DEF verifyOnNode, chainVars
    <2>2. /\ bot.hub \in DOMAIN Hubs /\ bot.found[bot.hub] # <<>>
          /\ \A i \in DOMAIN Hubs : OfCycle(Hubs[i], bot.found[i])
      BY <2>1 DEF MoneyInv, FoundCycles
    <2>3. FoundCycles' /\ NodeAgreed'
      <3>1. CASE /\ NodeAgrees(chain[bot.block], Hubs[bot.hub], Result)
                 /\ bot' = [bot EXCEPT !.pc = "submit"]
        <4>1. bot'.hub = bot.hub /\ bot'.found = bot.found /\ bot'.block = bot.block
          BY <1>1, <3>1 DEF IsBot
        <4>2. FoundCycles'
          BY <2>2, <4>1 DEF FoundCycles
        <4>3. NodeAgrees(chain'[bot'.block], Hubs[bot'.hub], bot'.found[bot'.hub][1])
          BY <2>1, <3>1, <4>1 DEF Result
        <4> QED
          BY <4>2, <4>3 DEF NodeAgreed, Result
      <3>2. CASE bot' = From(bot, bot.hub + 1)
        <4>1. bot.hub + 1 \in Nat \ {0}
          BY <1>1 DEF IsBot
        <4> QED
          BY <1>1, <2>2, <3>2, <4>1, FoundFrom
      <3> QED
        BY <2>1, <3>1, <3>2
    <2> QED
      BY <1>1, <1>5, <2>1, <2>3, MoneyQuiet
  <1>10. ASSUME NEW a \in BOOLEAN, NEW b \in BOOLEAN, Approve(a, b) \/ HasAllowance PROVE MoneyInv'
    <2> DEFINE tx == [nonce |-> nextNonce, hub |-> Hubs[bot.hub], path |-> <<>>, amountIn |-> 0,
                      amountOut |-> 0, block |-> 0, run |-> restarts]
    <2>1. /\ bot.pc = "approve" /\ bot' = Approved(bot.hub) /\ UNCHANGED <<chain, cached>>
          /\ mempool' = mempool \/ mempool' = mempool \union {tx}
      BY <1>10, Zenon DEF Approve, HasAllowance, chainVars, Send
    <2>2. bot'.pc \in {"approve", "initial"}
      <3>1. bot' \in {[bot EXCEPT !.pc = "initial", !.hub = 1], [bot EXCEPT !.hub = bot.hub + 1]}
        BY <2>1, Zenon DEF Approved
      <3> QED
        BY <1>1, <2>1, <3>1 DEF IsBot
    <2>3. Waiting' = Waiting /\ CachedAt'
      BY <1>1, <2>1 DEF Waiting, CachedAt
    <2> QED
      BY <1>4, <2>1, <2>2, <2>3
  <1>11. ASSUME NEW a \in BOOLEAN, NEW b \in BOOLEAN, submitArb(a, b) PROVE MoneyInv'
    BY <1>1, <1>11, MoneySubmit
  <1>12. ASSUME NEW n \in Nat, Search(n) PROVE MoneyInv'
    <2>1. chain' = chain /\ Waiting' = Waiting
      BY <1>1, <1>12, SearchBot DEF Waiting
    <2>2. CachedAt' /\ FoundCycles' /\ NodeAgreed'
      BY <1>1, <1>12, SearchFinds
    <2> QED
      BY <1>1, <2>1, <2>2, MoneyQuiet
  <1>13. CASE RunInitial
    <2>1. Search(rep) /\ rep \in Nat
      BY <1>1, <1>13 DEF RunInitial
    <2> QED
      BY <1>12, <2>1
  <1>14. CASE RunBlock
    <2>1. Search(bot.block) /\ bot.block \in Nat
      BY <1>1, <1>14 DEF RunBlock, IsBot
    <2> QED
      BY <1>12, <2>1
  <1>15. CASE Register
    <2>1. UNCHANGED <<chain, mempool, cached>> /\ bot' = [bot EXCEPT !.pc = "wait", !.listening = TRUE]
      BY <1>15, Zenon DEF Register, chainVars
    <2>2. bot'.pc = "wait"
      BY <1>1, <2>1 DEF IsBot
    <2> QED
      BY <1>4, <1>5, <2>1, <2>2
  <1>16. CASE TakeEvent
    <2>1. /\ UNCHANGED <<chain, mempool>>
          /\ cached' = [p \in Pools |-> IF p \in blockCh[1].dirty THEN 0 ELSE cached[p]]
      BY <1>16, Zenon DEF TakeEvent, chainVars
    <2>2. bot'.pc = "event"
      <3>1. PICK n : bot' = [bot EXCEPT !.pc = "event", !.block = n]
        BY <1>16, Zenon DEF TakeEvent
      <3> QED
        BY <1>1, <3>1 DEF IsBot
    <2>3. CachedAt' /\ Waiting' = Waiting
      BY <1>1, <2>1 DEF CachedAt, Waiting
    <2> QED
      BY <1>4, <2>1, <2>2, <2>3
  <1>17. CASE UNCHANGED vars
    <2>1. UNCHANGED <<chain, mempool, cached, bot>>
      BY <1>17 DEF vars
    <2> QED
      BY <1>3, <2>1
  <1>18. TRUE \in BOOLEAN
    OBVIOUS
  <1> QED
    BY <1>2, <1>6, <1>7, <1>8, <1>9, <1>10, <1>11, <1>13, <1>14, <1>15, <1>16, <1>17, <1>18, Zenon
       DEF Next, BotStep

(* What the node holds was found to pay, on the block the bot found it     *)
(* for, what the bot says, out of a balance and approval of that block,    *)
(* and the caller's gain is that less the input (main.go, verifyOnNode     *)
(* before submitArb): stale quoters, an overlay of old reads, lost answers *)
(* and restarts cannot make the bot send anything else.                    *)
THEOREM SentHoldsOnChainHolds == Spec => []SentHoldsOnChain
  <1>1. MoneyInv => SentHoldsOnChain
    BY DEF MoneyInv, SwapsHold, HoldsOn, SentHoldsOnChain
  <1> QED
    BY <1>1, MoneyInit, MoneyStep, PTL DEF Spec
-----------------------------------------------------------------------------
(* Two states of a search that agree on the candidates and on the nodes at *)
(* the tokens of S.                                                        *)
Same(S, u, v) == u.cands = v.cands /\ \A t \in S : u.next[t] = v.next[t]

\* What one edge makes of a state of a search: nothing, a candidate or a node.
EdgeMakes(ps, st, entry, edge, hub, layer, start, st1) ==
  LET out == PoolQuote(ps, edge, entry.amount)
      x == edge.tokenOut
  IN /\ out = 0 => st1 = st
     /\ out # 0 /\ x = hub /\ layer >= 2 =>
          /\ st1.next = st.next
          /\ st1.cands = Append(st.cands, backtrack(entry, edge, start, out))
     /\ out # 0 /\ ~(x = hub /\ layer >= 2) =>
          /\ st1.cands = st.cands
          /\ st1.next[x] = KeepTop(st.next[x], [amount |-> out, path |-> Append(entry.path, edge)])
          /\ \A t \in Tokens \ {x} : st1.next[t] = st.next[t]

\* That is what BfsEdge does.
LEMMA EdgeResult ==
  ASSUME NEW ps, NEW hub \in Tokens, NEW st \in SearchState(hub), NEW entry, NEW edge \in LegSet,
         NEW start, NEW layer
  PROVE  EdgeMakes(ps, st, entry, edge, hub, layer, start,
                   BfsEdge(ps, st, entry, edge, hub, layer, start))
  <1> DEFINE out == PoolQuote(ps, edge, entry.amount)
             x == edge.tokenOut
             node == [amount |-> out, path |-> Append(entry.path, edge)]
             back == backtrack(entry, edge, start, out)
             c == Append(st.cands, back)
             k == KeepTop(st.next[x], node)
             st1 == [st EXCEPT !.cands = Append(@, back)]
             st2 == [st EXCEPT !.next[x] = KeepTop(@, node)]
  <1>1. st = [next |-> st.next, cands |-> st.cands] /\ DOMAIN st.next = Tokens /\ x \in Tokens
    BY DEF SearchState, Frontier, LegSet
  <1>2. BfsEdge(ps, st, entry, edge, hub, layer, start) =
          IF out = 0 THEN st ELSE IF x = hub /\ layer >= 2 THEN st1 ELSE st2
    BY Zenon DEF BfsEdge
  <1>3. st1 = [st EXCEPT !.cands = c] /\ st2 = [st EXCEPT !.next = [st.next EXCEPT ![x] = k]]
    OBVIOUS
  <1> HIDE DEF c, k, st1, st2
  <1>4. st1.next = st.next /\ st1.cands = c
    BY <1>1, <1>3
  <1>5. st2.cands = st.cands /\ st2.next[x] = k /\ \A t \in Tokens \ {x} : st2.next[t] = st.next[t]
    BY <1>1, <1>3
  <1> HIDE DEF out, x, node, back
  <1>6. LET s == BfsEdge(ps, st, entry, edge, hub, layer, start)
        IN /\ out = 0 => s = st
           /\ out # 0 /\ x = hub /\ layer >= 2 => s.next = st.next /\ s.cands = c
           /\ out # 0 /\ ~(x = hub /\ layer >= 2) =>
                /\ s.cands = st.cands /\ s.next[x] = k
                /\ \A t \in Tokens \ {x} : s.next[t] = st.next[t]
    BY <1>2, <1>4, <1>5, Zenon
  <1> QED
    BY <1>6, Zenon DEF EdgeMakes, c, k, out, x, node, back

\* The same edge out of the same node keeps two states the same,
LEMMA EdgeAlike ==
  ASSUME NEW ps, NEW hub \in Tokens, NEW u \in SearchState(hub), NEW v \in SearchState(hub),
         NEW entry, NEW edge \in LegSet, NEW start, NEW layer, NEW S \in SUBSET Tokens, Same(S, u, v)
  PROVE  Same(S, BfsEdge(ps, u, entry, edge, hub, layer, start),
                 BfsEdge(ps, v, entry, edge, hub, layer, start))
  <1> DEFINE out == PoolQuote(ps, edge, entry.amount)
             x == edge.tokenOut
             u1 == BfsEdge(ps, u, entry, edge, hub, layer, start)
             v1 == BfsEdge(ps, v, entry, edge, hub, layer, start)
             node == [amount |-> out, path |-> Append(entry.path, edge)]
             back == backtrack(entry, edge, start, out)
  <1>1. /\ out = 0 => u1 = u
        /\ out # 0 /\ x = hub /\ layer >= 2 => u1.next = u.next /\ u1.cands = Append(u.cands, back)
        /\ out # 0 /\ ~(x = hub /\ layer >= 2) =>
             /\ u1.cands = u.cands /\ u1.next[x] = KeepTop(u.next[x], node)
             /\ \A t \in Tokens \ {x} : u1.next[t] = u.next[t]
    <2>1. EdgeMakes(ps, u, entry, edge, hub, layer, start, u1)
      BY EdgeResult
    <2> QED
      BY <2>1, Zenon DEF EdgeMakes
  <1>2. /\ out = 0 => v1 = v
        /\ out # 0 /\ x = hub /\ layer >= 2 => v1.next = v.next /\ v1.cands = Append(v.cands, back)
        /\ out # 0 /\ ~(x = hub /\ layer >= 2) =>
             /\ v1.cands = v.cands /\ v1.next[x] = KeepTop(v.next[x], node)
             /\ \A t \in Tokens \ {x} : v1.next[t] = v.next[t]
    <2>1. EdgeMakes(ps, v, entry, edge, hub, layer, start, v1)
      BY EdgeResult
    <2> QED
      BY <2>1, Zenon DEF EdgeMakes
  <1> HIDE DEF out, x, u1, v1, node, back
  <1>3. u.cands = v.cands /\ \A t \in S : t \in Tokens /\ u.next[t] = v.next[t]
    BY DEF Same
  <1>4. CASE out = 0
    BY <1>1, <1>2, <1>4, Zenon DEF u1, v1
  <1>5. CASE out # 0 /\ x = hub /\ layer >= 2
    <2>1. u1.cands = v1.cands /\ \A t \in S : u1.next[t] = v1.next[t]
      BY <1>1, <1>2, <1>3, <1>5, Zenon
    <2> QED
      BY <2>1, Zenon DEF Same, u1, v1
  <1>6. CASE out # 0 /\ ~(x = hub /\ layer >= 2)
    <2>1. u1.cands = v1.cands /\ \A t \in S : u1.next[t] = v1.next[t]
      <3>1. u1.cands = v1.cands
        BY <1>1, <1>2, <1>3, <1>6, Zenon
      <3>2. ASSUME NEW t \in S PROVE u1.next[t] = v1.next[t]
        <4>1. CASE t = x
          BY <1>1, <1>2, <1>3, <1>6, <4>1, Zenon
        <4>2. CASE t # x
          <5>1. u1.next[t] = u.next[t] /\ v1.next[t] = v.next[t]
            BY <1>1, <1>2, <1>6, <4>2
          <5> QED
            BY <1>3, <5>1
        <4> QED
          BY <4>1, <4>2
      <3> QED
        BY <3>1, <3>2
    <2> QED
      BY <2>1, Zenon DEF Same, u1, v1
  <1> QED
    BY <1>4, <1>5, <1>6

\* and one to a token outside S, and not the hub, changes nothing of it.
LEMMA EdgeApart ==
  ASSUME NEW ps, NEW hub \in Tokens, NEW v \in SearchState(hub), NEW entry, NEW edge \in LegSet,
         NEW start, NEW layer, NEW S \in SUBSET Tokens, edge.tokenOut # hub, edge.tokenOut \notin S
  PROVE  Same(S, v, BfsEdge(ps, v, entry, edge, hub, layer, start))
  <1> DEFINE out == PoolQuote(ps, edge, entry.amount)
             x == edge.tokenOut
             v1 == BfsEdge(ps, v, entry, edge, hub, layer, start)
  <1>1. /\ out = 0 => v1 = v
        /\ out # 0 /\ ~(x = hub /\ layer >= 2) =>
             v1.cands = v.cands /\ \A t \in Tokens \ {x} : v1.next[t] = v.next[t]
    <2>1. EdgeMakes(ps, v, entry, edge, hub, layer, start, v1)
      BY EdgeResult
    <2> QED
      BY <2>1, Zenon DEF EdgeMakes
  <1>2. x # hub /\ \A t \in S : t \in Tokens \ {x}
    OBVIOUS
  <1> HIDE DEF out, x, v1
  <1>3. v1.cands = v.cands /\ \A t \in S : v1.next[t] = v.next[t]
    BY <1>1, <1>2, Zenon
  <1> QED
    BY <1>3, Zenon DEF Same, v1

(* Two pruning tables that decide alike on the edges to the hub and to the *)
(* tokens of S.                                                            *)
Agree(r, q, hub, layer, S) ==
  \A e \in LegSet : e.tokenOut = hub \/ e.tokenOut \in S =>
    (Useful(r, hub, e, HopCap - layer) <=> Useful(q, hub, e, HopCap - layer))

\* Sameness composes.
LEMMA SameTrans ==
  ASSUME NEW S, NEW u, NEW v, NEW w, Same(S, u, v), Same(S, v, w)
  PROVE  Same(S, u, w) /\ Same(S, v, u) /\ Same(S, u, u)
  BY DEF Same

\* One edge, pruned or not, outside S,
LEMMA StepApart ==
  ASSUME NEW ps, NEW hub \in Tokens, NEW v \in SearchState(hub), NEW entry, NEW edge \in LegSet,
         NEW start, NEW layer, NEW S \in SUBSET Tokens, NEW q,
         edge.tokenOut # hub, edge.tokenOut \notin S
  PROVE  Same(S, v, EdgeStep(ps, hub, start, q, layer, entry, v, edge))
  <1>1. Same(S, v, BfsEdge(ps, v, entry, edge, hub, layer, start))
    BY EdgeApart
  <1>2. Same(S, v, v)
    BY DEF Same
  <1> QED
    BY <1>1, <1>2, Zenon DEF EdgeStep

\* and inside it.
LEMMA StepAlike ==
  ASSUME NEW ps, NEW hub \in Tokens, NEW u \in SearchState(hub), NEW v \in SearchState(hub),
         NEW entry, NEW edge \in LegSet, NEW start, NEW layer, NEW S \in SUBSET Tokens,
         NEW r, NEW q, Agree(r, q, hub, layer, S), Same(S, u, v)
  PROVE  Same(S, EdgeStep(ps, hub, start, r, layer, entry, u, edge),
                 EdgeStep(ps, hub, start, q, layer, entry, v, edge))
  <1>1. CASE edge.tokenOut = hub \/ edge.tokenOut \in S
    <2>1. Useful(r, hub, edge, HopCap - layer) <=> Useful(q, hub, edge, HopCap - layer)
      BY <1>1 DEF Agree
    <2>2. Same(S, BfsEdge(ps, u, entry, edge, hub, layer, start),
                  BfsEdge(ps, v, entry, edge, hub, layer, start))
      BY EdgeAlike
    <2> QED
      BY <2>1, <2>2, Zenon DEF EdgeStep
  <1>2. CASE ~(edge.tokenOut = hub \/ edge.tokenOut \in S)
    <2>1. Same(S, u, EdgeStep(ps, hub, start, r, layer, entry, u, edge))
      BY <1>2, StepApart
    <2>2. Same(S, v, EdgeStep(ps, hub, start, q, layer, entry, v, edge))
      BY <1>2, StepApart
    <2> QED
      BY <2>1, <2>2 DEF Same
  <1> QED
    BY <1>1, <1>2

\* The edges out of a token are legs.
LEMMA EdgesAreLegs ==
  ASSUME NEW adj \in Adjacency, NEW t \in Tokens
  PROVE  Len(adj[t]) \in Nat /\ \A k \in 1..Len(adj[t]) : adj[t][k] \in LegSet
  <1>1. adj[t] \in Seq(LegSet)
    BY DEF Adjacency
  <1> QED
    BY <1>1, LenProperties, ElementOfSeq

\* The same node expanded in two searches that agree on S.
LEMMA NodeAlike ==
  ASSUME NEW ps \in [Pools -> V2Pool], NEW adj \in Adjacency, NEW hub \in Tokens, NEW start \in Nat,
         NEW r, NEW q, NEW layer, NEW t \in Tokens, NEW entry \in NodesAt(hub, t),
         NEW u \in SearchState(hub), NEW v \in SearchState(hub),
         NEW S \in SUBSET Tokens, Agree(r, q, hub, layer, S), Same(S, u, v)
  PROVE  Same(S, OverEdges(ps, adj, hub, start, r, layer, t, entry, u),
                 OverEdges(ps, adj, hub, start, q, layer, t, entry, v))
  <1> DEFINE n == Len(adj[t])
  <1>1. n \in Nat /\ \A k \in 1..n : adj[t][k] \in LegSet
    BY EdgesAreLegs
  <1>2. PICK f : EdgeRun(ps, adj, hub, start, r, layer, t, entry, u, f)
    BY NodeRun
  <1>3. PICK g : EdgeRun(ps, adj, hub, start, q, layer, t, entry, v, g)
    BY NodeRun
  <1>4. /\ f \in [0..n -> SearchState(hub)] /\ f[0] = u
        /\ f[n] = OverEdges(ps, adj, hub, start, r, layer, t, entry, u)
        /\ \A k \in 1..n : f[k] = EdgeStep(ps, hub, start, r, layer, entry, f[k - 1], adj[t][k])
    BY <1>2 DEF EdgeRun
  <1>5. /\ g \in [0..n -> SearchState(hub)] /\ g[0] = v
        /\ g[n] = OverEdges(ps, adj, hub, start, q, layer, t, entry, v)
        /\ \A k \in 1..n : g[k] = EdgeStep(ps, hub, start, q, layer, entry, g[k - 1], adj[t][k])
    BY <1>3 DEF EdgeRun
  <1> HIDE DEF n
  <1> DEFINE H == {k \in 0..n : Same(S, f[k], g[k])}
  <1>6. 0 \in H
    BY <1>1, <1>4, <1>5
  <1>7. ASSUME NEW k \in 1..n, k - 1 \in H PROVE k \in H
    <2>1. f[k - 1] \in SearchState(hub) /\ g[k - 1] \in SearchState(hub) /\ Same(S, f[k - 1], g[k - 1])
      BY <1>1, <1>4, <1>5, <1>7
    <2>2. Same(S, EdgeStep(ps, hub, start, r, layer, entry, f[k - 1], adj[t][k]),
                  EdgeStep(ps, hub, start, q, layer, entry, g[k - 1], adj[t][k]))
      BY <1>1, <2>1, StepAlike
    <2>3. Same(S, f[k], g[k])
      BY <1>4, <1>5, <2>2, Zenon
    <2> QED
      BY <1>1, <2>3
  <1>8. n \in H
    <2> HIDE DEF H
    <2>1. \A k \in 0..n : k \in H
      BY <1>1, <1>6, <1>7, UpTo
    <2> QED
      BY <1>1, <2>1
  <1> QED
    BY <1>4, <1>5, <1>8, Zenon

\* A token none of whose edges leads to the hub or into S.
Dead(adj, t, hub, S) ==
  \A k \in 1..Len(adj[t]) : adj[t][k].tokenOut # hub /\ adj[t][k].tokenOut \notin S

\* A node at such a token, expanded, changes nothing of S.
LEMMA NodeApart ==
  ASSUME NEW ps \in [Pools -> V2Pool], NEW adj \in Adjacency, NEW hub \in Tokens, NEW start \in Nat,
         NEW q, NEW layer, NEW t \in Tokens, NEW entry \in NodesAt(hub, t),
         NEW v \in SearchState(hub), NEW S \in SUBSET Tokens, Dead(adj, t, hub, S)
  PROVE  Same(S, v, OverEdges(ps, adj, hub, start, q, layer, t, entry, v))
  <1> DEFINE n == Len(adj[t])
  <1>1. n \in Nat /\ \A k \in 1..n : adj[t][k] \in LegSet
    BY EdgesAreLegs
  <1>2. PICK g : EdgeRun(ps, adj, hub, start, q, layer, t, entry, v, g)
    BY NodeRun
  <1>3. /\ g \in [0..n -> SearchState(hub)] /\ g[0] = v
        /\ g[n] = OverEdges(ps, adj, hub, start, q, layer, t, entry, v)
        /\ \A k \in 1..n : g[k] = EdgeStep(ps, hub, start, q, layer, entry, g[k - 1], adj[t][k])
    BY <1>2 DEF EdgeRun
  <1>4. \A k \in 1..n : adj[t][k].tokenOut # hub /\ adj[t][k].tokenOut \notin S
    BY DEF Dead
  <1> HIDE DEF n
  <1> DEFINE H == {k \in 0..n : Same(S, v, g[k])}
  <1>5. 0 \in H
    BY <1>1, <1>3 DEF Same
  <1>6. ASSUME NEW k \in 1..n, k - 1 \in H PROVE k \in H
    <2>1. g[k - 1] \in SearchState(hub) /\ Same(S, v, g[k - 1])
      BY <1>1, <1>3, <1>6
    <2>2. Same(S, g[k - 1], EdgeStep(ps, hub, start, q, layer, entry, g[k - 1], adj[t][k]))
      BY <1>1, <1>4, <2>1, StepApart
    <2>3. Same(S, g[k - 1], g[k])
      BY <1>3, <2>2, Zenon
    <2> QED
      BY <1>1, <2>1, <2>3, SameTrans
  <1>7. n \in H
    <2> HIDE DEF H
    <2>1. \A k \in 0..n : k \in H
      BY <1>1, <1>5, <1>6, UpTo
    <2> QED
      BY <1>1, <2>1
  <1> QED
    BY <1>3, <1>7, Zenon

\* The nodes at a token, the same in two searches that agree on S,
LEMMA TokenAlike ==
  ASSUME NEW ps \in [Pools -> V2Pool], NEW adj \in Adjacency, NEW hub \in Tokens, NEW start \in Nat,
         NEW r, NEW q, NEW layer, NEW t \in Tokens, NEW entries \in Seq(NodesAt(hub, t)),
         NEW u \in SearchState(hub), NEW v \in SearchState(hub),
         NEW S \in SUBSET Tokens, Agree(r, q, hub, layer, S), Same(S, u, v)
  PROVE  Same(S, OverNodes(ps, adj, hub, start, r, layer, t, entries, u),
                 OverNodes(ps, adj, hub, start, q, layer, t, entries, v))
  <1> DEFINE n == Len(entries)
  <1>1. n \in Nat /\ \A k \in 1..n : entries[k] \in NodesAt(hub, t)
    BY LenProperties, ElementOfSeq
  <1>2. PICK f : NodesRun(ps, adj, hub, start, r, layer, t, entries, u, f)
    BY TokenRun
  <1>3. PICK g : NodesRun(ps, adj, hub, start, q, layer, t, entries, v, g)
    BY TokenRun
  <1>4. /\ f \in [0..n -> SearchState(hub)] /\ f[0] = u
        /\ f[n] = OverNodes(ps, adj, hub, start, r, layer, t, entries, u)
        /\ \A k \in 1..n : f[k] = OverEdges(ps, adj, hub, start, r, layer, t, entries[k], f[k - 1])
    BY <1>2 DEF NodesRun
  <1>5. /\ g \in [0..n -> SearchState(hub)] /\ g[0] = v
        /\ g[n] = OverNodes(ps, adj, hub, start, q, layer, t, entries, v)
        /\ \A k \in 1..n : g[k] = OverEdges(ps, adj, hub, start, q, layer, t, entries[k], g[k - 1])
    BY <1>3 DEF NodesRun
  <1> HIDE DEF n
  <1> DEFINE H == {k \in 0..n : Same(S, f[k], g[k])}
  <1>6. 0 \in H
    BY <1>1, <1>4, <1>5
  <1>7. ASSUME NEW k \in 1..n, k - 1 \in H PROVE k \in H
    <2>1. f[k - 1] \in SearchState(hub) /\ g[k - 1] \in SearchState(hub) /\ Same(S, f[k - 1], g[k - 1])
      BY <1>1, <1>4, <1>5, <1>7
    <2>2. Same(S, OverEdges(ps, adj, hub, start, r, layer, t, entries[k], f[k - 1]),
                  OverEdges(ps, adj, hub, start, q, layer, t, entries[k], g[k - 1]))
      BY <1>1, <2>1, NodeAlike
    <2>3. Same(S, f[k], g[k])
      BY <1>4, <1>5, <2>2, Zenon
    <2> QED
      BY <1>1, <2>3
  <1>8. n \in H
    <2> HIDE DEF H
    <2>1. \A k \in 0..n : k \in H
      BY <1>1, <1>6, <1>7, UpTo
    <2> QED
      BY <1>1, <2>1
  <1> QED
    BY <1>4, <1>5, <1>8, Zenon

\* and any nodes at a dead token.
LEMMA TokenApart ==
  ASSUME NEW ps \in [Pools -> V2Pool], NEW adj \in Adjacency, NEW hub \in Tokens, NEW start \in Nat,
         NEW q, NEW layer, NEW t \in Tokens, NEW entries \in Seq(NodesAt(hub, t)),
         NEW v \in SearchState(hub), NEW S \in SUBSET Tokens, Dead(adj, t, hub, S)
  PROVE  Same(S, v, OverNodes(ps, adj, hub, start, q, layer, t, entries, v))
  <1> DEFINE n == Len(entries)
  <1>1. n \in Nat /\ \A k \in 1..n : entries[k] \in NodesAt(hub, t)
    BY LenProperties, ElementOfSeq
  <1>2. PICK g : NodesRun(ps, adj, hub, start, q, layer, t, entries, v, g)
    BY TokenRun
  <1>3. /\ g \in [0..n -> SearchState(hub)] /\ g[0] = v
        /\ g[n] = OverNodes(ps, adj, hub, start, q, layer, t, entries, v)
        /\ \A k \in 1..n : g[k] = OverEdges(ps, adj, hub, start, q, layer, t, entries[k], g[k - 1])
    BY <1>2 DEF NodesRun
  <1> HIDE DEF n
  <1> DEFINE H == {k \in 0..n : Same(S, v, g[k])}
  <1>5. 0 \in H
    BY <1>1, <1>3 DEF Same
  <1>6. ASSUME NEW k \in 1..n, k - 1 \in H PROVE k \in H
    <2>1. g[k - 1] \in SearchState(hub) /\ Same(S, v, g[k - 1])
      BY <1>1, <1>3, <1>6
    <2>2. Same(S, g[k - 1], OverEdges(ps, adj, hub, start, q, layer, t, entries[k], g[k - 1]))
      BY <1>1, <2>1, NodeApart
    <2>3. Same(S, g[k - 1], g[k])
      BY <1>3, <2>2, Zenon
    <2> QED
      BY <1>1, <2>1, <2>3, SameTrans
  <1>7. n \in H
    <2> HIDE DEF H
    <2>1. \A k \in 0..n : k \in H
      BY <1>1, <1>5, <1>6, UpTo
    <2> QED
      BY <1>1, <2>1
  <1> QED
    BY <1>3, <1>7, Zenon

(* A layer of two searches whose frontiers differ at dead tokens only, in  *)
(* any order of its tokens.                                                *)
LEMMA LayerAlike ==
  ASSUME NEW ps \in [Pools -> V2Pool], NEW adj \in Adjacency, NEW hub \in Tokens, NEW start \in Nat,
         NEW r, NEW q, NEW layer, NEW fu \in Frontier(hub), NEW fv \in Frontier(hub),
         NEW order \in Seq(Tokens), NEW u \in SearchState(hub), NEW v \in SearchState(hub),
         NEW S \in SUBSET Tokens, Agree(r, q, hub, layer, S), Same(S, u, v),
         \A t \in Tokens : fu[t] = fv[t] \/ Dead(adj, t, hub, S)
  PROVE  Same(S, OverTokens(ps, adj, hub, start, r, layer, fu, order, u),
                 OverTokens(ps, adj, hub, start, q, layer, fv, order, v))
  <1> DEFINE n == Len(order)
  <1>1. n \in Nat /\ \A k \in 1..n : order[k] \in Tokens
    BY LenProperties, ElementOfSeq
  <1>2. PICK f : TokensRun(ps, adj, hub, start, r, layer, fu, order, u, f)
    BY LayerRun
  <1>3. PICK g : TokensRun(ps, adj, hub, start, q, layer, fv, order, v, g)
    BY LayerRun
  <1>4. /\ f \in [0..n -> SearchState(hub)] /\ f[0] = u
        /\ f[n] = OverTokens(ps, adj, hub, start, r, layer, fu, order, u)
        /\ \A k \in 1..n :
             f[k] = OverNodes(ps, adj, hub, start, r, layer, order[k], fu[order[k]], f[k - 1])
    BY <1>2 DEF TokensRun
  <1>5. /\ g \in [0..n -> SearchState(hub)] /\ g[0] = v
        /\ g[n] = OverTokens(ps, adj, hub, start, q, layer, fv, order, v)
        /\ \A k \in 1..n :
             g[k] = OverNodes(ps, adj, hub, start, q, layer, order[k], fv[order[k]], g[k - 1])
    BY <1>3 DEF TokensRun
  <1> HIDE DEF n
  <1> DEFINE H == {k \in 0..n : Same(S, f[k], g[k])}
  <1>6. 0 \in H
    BY <1>1, <1>4, <1>5
  <1>7. ASSUME NEW k \in 1..n, k - 1 \in H PROVE k \in H
    <2>1. f[k - 1] \in SearchState(hub) /\ g[k - 1] \in SearchState(hub) /\ Same(S, f[k - 1], g[k - 1])
      BY <1>1, <1>4, <1>5, <1>7
    <2>2. PICK t \in Tokens : t = order[k]
      BY <1>1
    <2>3. fu[t] \in Seq(NodesAt(hub, t)) /\ fv[t] \in Seq(NodesAt(hub, t))
      BY DEF Frontier
    <2>4. Same(S, OverNodes(ps, adj, hub, start, r, layer, t, fu[t], f[k - 1]),
                  OverNodes(ps, adj, hub, start, q, layer, t, fv[t], g[k - 1]))
      <3>1. CASE fu[t] = fv[t]
        BY <2>1, <2>3, <3>1, TokenAlike
      <3>2. CASE Dead(adj, t, hub, S)
        <4>1. Same(S, f[k - 1], OverNodes(ps, adj, hub, start, r, layer, t, fu[t], f[k - 1]))
          BY <2>1, <2>3, <3>2, TokenApart
        <4>2. Same(S, g[k - 1], OverNodes(ps, adj, hub, start, q, layer, t, fv[t], g[k - 1]))
          BY <2>1, <2>3, <3>2, TokenApart
        <4> QED
          BY <2>1, <4>1, <4>2 DEF Same
      <3> QED
        BY <3>1, <3>2
    <2>5. Same(S, f[k], g[k])
      BY <1>4, <1>5, <2>2, <2>4, Zenon
    <2> QED
      BY <1>1, <2>5
  <1>8. n \in H
    <2> HIDE DEF H
    <2>1. \A k \in 0..n : k \in H
      BY <1>1, <1>6, <1>7, UpTo
    <2> QED
      BY <1>1, <2>1
  <1> QED
    BY <1>4, <1>5, <1>8, Zenon

\* The tokens with an edge into S.
Pred(adj, S) == {t \in Tokens : \E i \in DOMAIN adj[t] : adj[t][i].tokenOut \in S}

\* The tables of the tokens that reach the hub in 1, 2, ... hops.
ReachSeqs(adj, hub) ==
  {s \in Seq(SUBSET Tokens) : /\ Len(s) >= 1 /\ s[1] = {hub} \union Pred(adj, {hub})
                              /\ \A j \in 1..(Len(s) - 1) : s[j + 1] = s[j] \union Pred(adj, s[j])}

\* A table with one more row is one.
LEMMA ReachAppend ==
  ASSUME NEW adj, NEW hub, NEW s \in ReachSeqs(adj, hub)
  PROVE  LET w == Append(s, Last(s) \union Pred(adj, Last(s)))
         IN w \in ReachSeqs(adj, hub) /\ Len(w) = Len(s) + 1
  <1> DEFINE x == s[Len(s)] \union Pred(adj, s[Len(s)])
             w == Append(s, x)
  <1>1. /\ s \in Seq(SUBSET Tokens) /\ Len(s) \in Nat /\ Len(s) >= 1
        /\ s[1] = {hub} \union Pred(adj, {hub})
        /\ \A j \in 1..(Len(s) - 1) : s[j + 1] = s[j] \union Pred(adj, s[j])
    BY LenProperties DEF ReachSeqs
  <1>2. x \in SUBSET Tokens
    <2>1. s[Len(s)] \in SUBSET Tokens
      BY <1>1, ElementOfSeq
    <2> QED
      BY <2>1 DEF Pred
  <1>3. x = Last(s) \union Pred(adj, Last(s))
    BY Zenon DEF Last
  <1> HIDE DEF x
  <1>4. /\ w \in Seq(SUBSET Tokens) /\ Len(w) = Len(s) + 1 /\ w[Len(s) + 1] = x
        /\ \A j \in 1..Len(s) : w[j] = s[j]
    BY <1>1, <1>2, AppendProperties
  <1> HIDE DEF w
  <1>5. ASSUME NEW j \in 1..(Len(w) - 1) PROVE w[j + 1] = w[j] \union Pred(adj, w[j])
    <2>1. CASE j = Len(s)
      BY <1>1, <1>4, <2>1 DEF x
    <2>2. CASE j # Len(s)
      <3>1. j \in 1..(Len(s) - 1) /\ j \in 1..Len(s) /\ j + 1 \in 1..Len(s)
        BY <1>1, <1>4, <2>2
      <3> QED
        BY <1>1, <1>4, <3>1
    <2> QED
      BY <2>1, <2>2
  <1>6. Len(w) >= 1 /\ w[1] = {hub} \union Pred(adj, {hub})
    <2>1. 1 \in 1..Len(s) /\ Len(s) + 1 >= 1
      BY <1>1
    <2>2. w[1] = s[1] /\ Len(w) >= 1
      BY <1>4, <2>1
    <2> QED
      BY <1>1, <2>2
  <1>7. w \in ReachSeqs(adj, hub)
    BY <1>4, <1>5, <1>6 DEF ReachSeqs
  <1> QED
    BY <1>3, <1>4, <1>7, Zenon DEF w

\* The search's table has a row for every number of hops that may remain.
LEMMA ReachableTable ==
  ASSUME NEW adj, NEW hub \in Tokens
  PROVE  Reachable(adj, hub) \in ReachSeqs(adj, hub) /\ Len(Reachable(adj, hub)) >= HopCap - 1
  <1> DEFINE T == ReachSeqs(adj, hub)
             n == IF HopCap >= 2 THEN HopCap - 2 ELSE 0
             seq == [r \in 1..(HopCap - 2) |-> r]
             first == <<{hub} \union Pred(adj, {hub})>>
             op(s, r) == Append(s, Last(s) \union Pred(adj, Last(s)))
             body(it) == [s \in SUBSET DOMAIN seq |->
                            IF s = {} THEN first ELSE op(it[s \ {Max(s)}], seq[Max(s)])]
             it == CHOOSE it : it = body(it)
             F == [ti \in T \X (1..n) |-> op(ti[1], seq[ti[2]])]
  <1>0. Reachable(adj, hub) = FoldLeft(op, first, seq)
    BY Zenon DEF Reachable, Pred
  <1>1. FoldLeft(op, first, seq) = it[DOMAIN seq]
    <2> HIDE DEF op, seq
    <2> QED
      BY Zenon DEF FoldLeft, MapThenFoldSet
  <1>2. n \in Nat /\ DOMAIN seq = 1..n /\ n + 1 >= HopCap - 1
    BY SearchAssumption
  <1>3. /\ first \in T /\ Len(first) = 1
        /\ \A u \in T, i \in 1..n : op(u, seq[i]) \in T /\ Len(op(u, seq[i])) = Len(u) + 1
    <2>1. {hub} \union Pred(adj, {hub}) \in SUBSET Tokens
      BY DEF Pred
    <2>2. first \in T /\ Len(first) = 1
      BY <2>1 DEF ReachSeqs
    <2> HIDE DEF seq, n, first
    <2>3. \A u \in T : op(u, 0) \in T /\ Len(op(u, 0)) = Len(u) + 1
      BY ReachAppend, Zenon
    <2> QED
      BY <2>2, <2>3, Zenon
  <1> HIDE DEF n, first, T
  <1> HIDE DEF op, seq
  <1>4. /\ F \in [T \X (1..n) -> T]
        /\ \A v \in T, i \in 1..n : F[<<v, i>>] = op(v, seq[i])
    BY <1>3
  <1> HIDE DEF F
  <1>5. PICK g : IsFold(n, T, first, F, g)
    BY <1>2, <1>3, <1>4, FoldExists
  <1>6. g = body(g)
    <2>1. ASSUME NEW s \in SUBSET (1..n)
          PROVE  g[s] = IF s = {} THEN first ELSE op(g[s \ {Max(s)}], seq[Max(s)])
      <3>1. s # {} => /\ g[s \ {Max(s)}] \in T /\ Max(s) \in 1..n
                       /\ g[s] = F[<<g[s \ {Max(s)}], Max(s)>>]
        BY <1>5 DEF IsFold
      <3>2. s = {} => g[s] = first
        BY <1>5 DEF IsFold
      <3> QED
        BY <1>4, <3>1, <3>2, Zenon
    <2>2. g = [s \in SUBSET (1..n) |-> g[s]]
      BY <1>5 DEF IsFold
    <2> QED
      BY <1>2, <2>1, <2>2, Zenon
  <1>7. it = body(it)
    <2> HIDE DEF body
    <2> QED
      BY <1>6, Zenon
  <1> HIDE DEF it
  <1>8. IsUnfolded(n, T, first, F, it)
    <2>1. \A s \in SUBSET (1..n) :
            it[s] = IF s = {} THEN first ELSE op(it[s \ {Max(s)}], seq[Max(s)])
      BY <1>2, <1>7, Zenon
    <2>2. \A s \in SUBSET (1..n) : s # {} => Max(s) \in 1..n
      BY <1>2, MaxIn
    <2> QED
      BY <1>4, <2>1, <2>2, Zenon DEF IsUnfolded
  <1>9. IsFolded(n, T, first, F, it)
    BY <1>2, <1>3, <1>4, <1>8, FoldSteps
  <1>10. PICK f : IsRun(n, T, first, F, it[1..n], f)
    BY <1>2, <1>9, FoldRun
  <1>11. /\ f \in [0..n -> T] /\ f[0] = first /\ f[n] = it[1..n]
         /\ \A k \in 1..n : f[k] = F[<<f[k - 1], k>>]
    BY <1>10 DEF IsRun
  <1> DEFINE H == {k \in 0..n : Len(f[k]) = k + 1}
  <1>12. 0 \in H
    BY <1>2, <1>3, <1>11
  <1>13. ASSUME NEW k \in 1..n, k - 1 \in H PROVE k \in H
    <2>1. f[k - 1] \in T /\ Len(f[k - 1]) = k
      BY <1>2, <1>11, <1>13
    <2>2. f[k] = op(f[k - 1], seq[k])
      BY <1>4, <1>11, <2>1, Zenon
    <2>3. Len(f[k]) = Len(f[k - 1]) + 1
      BY <1>3, <2>1, <2>2, Zenon
    <2> QED
      BY <1>2, <2>1, <2>3
  <1>14. n \in H
    <2> HIDE DEF H
    <2>1. \A k \in 0..n : k \in H
      BY <1>2, <1>12, <1>13, UpTo
    <2> QED
      BY <1>2, <2>1
  <1>15. f[n] \in T /\ Len(f[n]) = n + 1
    BY <1>2, <1>11, <1>14
  <1>16. f[n] = Reachable(adj, hub)
    BY <1>0, <1>1, <1>2, <1>11, Zenon
  <1> QED
    BY <1>2, <1>15, <1>16 DEF T

(* A token outside row j has no edge to the hub, and none into the row     *)
(* before.                                                                 *)
LEMMA OutsideRow ==
  ASSUME NEW adj \in Adjacency, NEW hub \in Tokens, NEW s \in ReachSeqs(adj, hub),
         NEW j \in 1..Len(s), NEW t \in Tokens, t \notin s[j]
  PROVE  /\ Dead(adj, t, hub, {})
         /\ j > 1 => Dead(adj, t, hub, s[j - 1])
  <1>1. /\ Len(s) \in Nat /\ s[1] = {hub} \union Pred(adj, {hub})
        /\ \A i \in 1..(Len(s) - 1) : s[i + 1] = s[i] \union Pred(adj, s[i])
    BY LenProperties DEF ReachSeqs
  <1> DEFINE n == Len(s)
             H == {i \in 0..n : i = 0 \/ s[1] \subseteq s[i]}
  <1> HIDE DEF n
  <1>2. /\ n \in Nat /\ j \in 1..n /\ 0 \in H
        /\ \A i \in 1..(n - 1) : s[i + 1] = s[i] \union Pred(adj, s[i])
    BY <1>1 DEF n
  <1>3. ASSUME NEW i \in 1..n, i - 1 \in H PROVE i \in H
    <2>1. i = 1 \/ (i - 1 \in 1..(n - 1) /\ (i - 1) + 1 = i /\ i - 1 # 0)
      BY <1>2
    <2>2. s[1] \subseteq s[i]
      <3>1. CASE i = 1
        BY <3>1
      <3>2. CASE i # 1
        <4>1. s[i] = s[i - 1] \union Pred(adj, s[i - 1])
          BY <1>2, <2>1, <3>2
        <4>2. s[1] \subseteq s[i - 1]
          BY <1>3, <2>1, <3>2
        <4> QED
          BY <4>1, <4>2
      <3> QED
        BY <3>1, <3>2
    <2> QED
      BY <1>2, <2>2
  <1>4. s[1] \subseteq s[j]
    <2> HIDE DEF H
    <2>1. \A i \in 0..n : i \in H
      BY <1>2, <1>3, UpTo
    <2>2. j \in H /\ j # 0
      BY <1>2, <2>1
    <2> QED
      BY <2>2 DEF H
  <1>5. DOMAIN adj[t] = 1..Len(adj[t])
    BY LenProperties DEF Adjacency
  <1>6. \A k \in 1..Len(adj[t]) : adj[t][k].tokenOut # hub
    BY <1>1, <1>4, <1>5 DEF Pred
  <1>7. ASSUME j > 1 PROVE \A k \in 1..Len(adj[t]) : adj[t][k].tokenOut \notin s[j - 1]
    <2>1. j - 1 \in 1..(n - 1) /\ (j - 1) + 1 = j
      BY <1>2, <1>7
    <2>2. s[j] = s[j - 1] \union Pred(adj, s[j - 1])
      BY <1>2, <2>1
    <2> QED
      BY <1>5, <2>2 DEF Pred
  <1> QED
    BY <1>6, <1>7 DEF Dead

\* A state is a frontier and candidates; without its nodes it is one too.
LEMMA BlankTyped ==
  ASSUME NEW hub \in Tokens, NEW u \in SearchState(hub)
  PROVE  /\ u.next \in Frontier(hub)
         /\ [next |-> Nobody, cands |-> u.cands] \in SearchState(hub)
  <1>1. \A t \in Tokens : <<>> \in Seq(NodesAt(hub, t))
    BY EmptySeq
  <1>2. Nobody \in Frontier(hub)
    BY <1>1 DEF Frontier, Nobody
  <1> QED
    BY <1>2 DEF SearchState

(* The pruning of formulaBFS loses nothing: it returns the candidates of   *)
(* the search that follows every edge, in the same order, at every start   *)
(* amount and for every order of the tokens.  The topK places that the     *)
(* dropped nodes leave are at tokens from which the hub is out of reach.   *)
THEOREM PruningLosesNothing ==
  ASSUME NEW ps \in [Pools -> V2Pool], NEW adj \in Adjacency, NEW hub \in Tokens,
         NEW start \in Nat, NEW order \in Seq(Tokens)
  PROVE  formulaBFS(ps, adj, hub, start, order) =
           LayeredSearch(ps, adj, hub, start, order, [r \in 1..HopCap |-> Tokens])
  <1> DEFINE reach == Reachable(adj, hub)
             all == [r \in 1..HopCap |-> Tokens]
             S(l) == IF l = 0 THEN Tokens ELSE IF HopCap - l > 0 THEN reach[HopCap - l] ELSE {}
  <1>1. HopCap \in Nat \ {0}
    BY SearchAssumption
  <1>2. reach \in ReachSeqs(adj, hub) /\ Len(reach) \in Nat /\ Len(reach) >= HopCap - 1
    <2>1. reach \in ReachSeqs(adj, hub) /\ Len(reach) >= HopCap - 1
      BY ReachableTable
    <2> QED
      BY <2>1, LenProperties DEF ReachSeqs
  <1>3. \A i \in 1..HopCap : all[i] = Tokens
    OBVIOUS
  <1>4. PICK f : LayersRun(ps, adj, hub, start, order, reach, f)
    BY SearchRun
  <1>5. PICK g : LayersRun(ps, adj, hub, start, order, all, g)
    BY SearchRun
  <1>6. formulaBFS(ps, adj, hub, start, order) = LayeredSearch(ps, adj, hub, start, order, reach)
    BY DEF formulaBFS
  <1> HIDE DEF reach, all
  <1>7. /\ f \in [0..HopCap -> SearchState(hub)] /\ f[0] = Root(hub, start)
        /\ LayeredSearch(ps, adj, hub, start, order, reach) = f[HopCap].cands
        /\ \A k \in 1..HopCap : f[k] = LayerStep(ps, adj, hub, start, reach, order, f[k - 1], k)
    BY <1>4 DEF LayersRun
  <1>8. /\ g \in [0..HopCap -> SearchState(hub)] /\ g[0] = Root(hub, start)
        /\ LayeredSearch(ps, adj, hub, start, order, all) = g[HopCap].cands
        /\ \A k \in 1..HopCap : g[k] = LayerStep(ps, adj, hub, start, all, order, g[k - 1], k)
    BY <1>5 DEF LayersRun
  <1>9. \A i \in 1..Len(reach) : reach[i] \in SUBSET Tokens
    BY <1>2, ElementOfSeq DEF ReachSeqs
  <1>10. ASSUME NEW l \in 1..HopCap
         PROVE  /\ S(l) \in SUBSET Tokens /\ Agree(reach, all, hub, l, S(l))
                /\ \A t \in Tokens \ S(l - 1) : Dead(adj, t, hub, S(l))
    <2>1. CASE HopCap - l > 0
      <3>1. HopCap - l \in 1..Len(reach) /\ HopCap - l \in 1..HopCap /\ l # 0
        BY <1>1, <1>2, <2>1
      <3>2. S(l) = reach[HopCap - l]
        BY <2>1, <3>1
      <3>3. Agree(reach, all, hub, l, S(l))
        <4>1. all[HopCap - l] = Tokens
          BY <1>3, <3>1
        <4> HIDE DEF S
        <4> QED
          BY <2>1, <3>2, <4>1 DEF Agree, Useful, LegSet
      <3>4. ASSUME NEW t \in Tokens \ S(l - 1) PROVE Dead(adj, t, hub, S(l))
        <4>1. l - 1 # 0
          BY <3>4
        <4>2. /\ HopCap - (l - 1) \in 1..Len(reach) /\ HopCap - (l - 1) > 1
              /\ HopCap - (l - 1) - 1 = HopCap - l
          BY <1>1, <1>2, <2>1, <4>1
        <4>3. S(l - 1) = reach[HopCap - (l - 1)]
          BY <4>1, <4>2
        <4> HIDE DEF S
        <4>4. PICK i \in 1..Len(reach) : i = HopCap - (l - 1)
          BY <4>2
        <4>5. t \notin reach[i] /\ i > 1 /\ reach[i - 1] = S(l)
          BY <3>2, <3>4, <4>2, <4>3, <4>4
        <4> QED
          BY <1>2, <4>5, OutsideRow
      <3>5. S(l) \in SUBSET Tokens
        BY <1>9, <3>1, <3>2
      <3> QED
        BY <3>3, <3>4, <3>5
    <2>2. CASE ~(HopCap - l > 0)
      <3>1. S(l) = {} /\ l = HopCap
        BY <1>1, <2>2
      <3>2. Agree(reach, all, hub, l, {})
        BY DEF Agree, Useful
      <3>3. ASSUME NEW t \in Tokens \ S(l - 1) PROVE Dead(adj, t, hub, {})
        <4>1. l - 1 # 0
          BY <3>3
        <4>2. HopCap - (l - 1) = 1 /\ 1 \in 1..Len(reach)
          BY <1>1, <1>2, <3>1, <4>1
        <4>3. S(l - 1) = reach[1]
          BY <4>1, <4>2
        <4> HIDE DEF S
        <4> QED
          BY <1>2, <3>3, <4>2, <4>3, OutsideRow
      <3> HIDE DEF S
      <3> QED
        BY <3>1, <3>2, <3>3
    <2> QED
      BY <2>1, <2>2
  <1>11. S(0) = Tokens
    OBVIOUS
  <1> HIDE DEF S
  <1> DEFINE H == {l \in 0..HopCap : Same(S(l), f[l], g[l])}
  <1>12. 0 \in H
    BY <1>1, <1>7, <1>8 DEF Same
  <1>13. ASSUME NEW l \in 1..HopCap, l - 1 \in H PROVE l \in H
    <2>1. /\ f[l - 1] \in SearchState(hub) /\ g[l - 1] \in SearchState(hub)
          /\ Same(S(l - 1), f[l - 1], g[l - 1])
      BY <1>1, <1>7, <1>8, <1>13
    <2>2. PICK u, v : u = f[l - 1] /\ v = g[l - 1]
      OBVIOUS
    <2>3. /\ u.next \in Frontier(hub) /\ v.next \in Frontier(hub)
          /\ [next |-> Nobody, cands |-> u.cands] \in SearchState(hub)
          /\ [next |-> Nobody, cands |-> v.cands] \in SearchState(hub)
      BY <2>1, <2>2, BlankTyped
    <2>4. Same(S(l), [next |-> Nobody, cands |-> u.cands], [next |-> Nobody, cands |-> v.cands])
      BY <2>1, <2>2 DEF Same
    <2>5. \A t \in Tokens : u.next[t] = v.next[t] \/ Dead(adj, t, hub, S(l))
      BY <1>10, <2>1, <2>2 DEF Same
    <2>6. Same(S(l), LayerStep(ps, adj, hub, start, reach, order, u, l),
                     LayerStep(ps, adj, hub, start, all, order, v, l))
      BY <1>10, <2>3, <2>4, <2>5, LayerAlike DEF LayerStep
    <2>7. Same(S(l), f[l], g[l])
      BY <1>7, <1>8, <2>2, <2>6, Zenon
    <2> QED
      BY <1>1, <2>7
  <1>14. HopCap \in H
    <2> HIDE DEF H
    <2>1. \A l \in 0..HopCap : l \in H
      BY <1>1, <1>12, <1>13, UpTo
    <2> QED
      BY <1>1, <2>1
  <1>15. f[HopCap].cands = g[HopCap].cands
    BY <1>14 DEF Same
  <1> QED
    BY <1>6, <1>7, <1>8, <1>15, Zenon DEF all

\* A quote of a pool, that of nothing being nothing.
LEMMA QuoteTyped ==
  ASSUME NEW ps \in [Pools -> V2Pool], NEW leg \in LegSet, NEW a \in Nat
  PROVE  PoolQuote(ps, leg, a) \in Nat /\ (a = 0 => PoolQuote(ps, leg, a) = 0)
  <1> DEFINE p == ps[leg.pool]
  <1>1. p \in V2Pool
    BY DEF LegSet
  <1>2. p.reserve0 \in Nat /\ p.reserve1 \in Nat /\ p.factor \in Nat
    BY <1>1 DEF V2Pool
  <1>3. \A rIn, rOut \in Nat : ProductOut(0, rIn, rOut) = 0
    <2> SUFFICES ASSUME NEW rIn \in Nat, NEW rOut \in Nat PROVE ProductOut(0, rIn, rOut) = 0
      OBVIOUS
    <2> DEFINE d == rIn * tenK
    <2>1. d \in Nat
      BY tenKAssumption
    <2>2. ProductOut(0, rIn, rOut) = IF d + 0 = 0 THEN 0 ELSE (0 * rOut) \div (d + 0)
      BY DEF ProductOut
    <2> HIDE DEF d
    <2>3. d # 0 => 0 \div d = 0
      BY <2>1, QuotientBound
    <2> QED
      BY <2>1, <2>2, <2>3
  <1>4. a = 0 => a * p.factor = 0
    BY <1>2
  <1>5. a = 0 => QuoteV2(p, a, leg.tokenIn, leg.tokenOut) = 0
    <2> HIDE DEF p
    <2> QED
      BY <1>2, <1>3, <1>4 DEF QuoteV2, Payable
  <1> QED
    BY <1>1, <1>5, PairKept DEF PoolQuote

\* One hop of QuotePath, and its amounts along a path.
QuoteHop(ps, a, leg) == IF a = 0 THEN 0 ELSE PoolQuote(ps, leg, a)
QuotesRun(ps, path, amountIn, f) ==
  /\ f \in [0..Len(path) -> Nat] /\ f[0] = amountIn
  /\ f[Len(path)] = QuotePath(ps, path, amountIn)
  /\ \A k \in 1..Len(path) : f[k] = QuoteHop(ps, f[k - 1], path[k])

\* QuotePath has them.
LEMMA QuoteRun ==
  ASSUME NEW ps \in [Pools -> V2Pool], NEW path \in Seq(LegSet), NEW amountIn \in Nat
  PROVE  \E f : QuotesRun(ps, path, amountIn, f)
  <1> DEFINE n == Len(path)
             seq == path
             op(a, leg) == IF a = 0 THEN 0 ELSE PoolQuote(ps, leg, a)
             body(it) == [s \in SUBSET DOMAIN seq |->
                            IF s = {} THEN amountIn ELSE op(it[s \ {Max(s)}], seq[Max(s)])]
             it == CHOOSE it : it = body(it)
             F == [ti \in Nat \X (1..n) |-> op(ti[1], seq[ti[2]])]
  <1>1. FoldLeft(op, amountIn, seq) = it[DOMAIN seq]
    <2> HIDE DEF op, seq
    <2> QED
      BY Zenon DEF FoldLeft, MapThenFoldSet
  <1>2. n \in Nat /\ DOMAIN seq = 1..n
    BY LenProperties
  <1>3. \A u \in Nat, i \in 1..n : op(u, seq[i]) \in Nat
    <2>1. \A i \in 1..n : seq[i] \in LegSet
      BY ElementOfSeq
    <2> HIDE DEF seq, n
    <2> QED
      BY <2>1, QuoteTyped
  <1> HIDE DEF n
  <1> HIDE DEF op, seq
  <1>4. /\ F \in [Nat \X (1..n) -> Nat]
        /\ \A v \in Nat, i \in 1..n : F[<<v, i>>] = op(v, seq[i])
    BY <1>3
  <1> HIDE DEF F
  <1>5. PICK g : IsFold(n, Nat, amountIn, F, g)
    BY <1>2, <1>3, <1>4, FoldExists
  <1>6. g = body(g)
    <2>1. ASSUME NEW s \in SUBSET (1..n)
          PROVE  g[s] = IF s = {} THEN amountIn ELSE op(g[s \ {Max(s)}], seq[Max(s)])
      <3>1. s # {} => /\ g[s \ {Max(s)}] \in Nat /\ Max(s) \in 1..n
                       /\ g[s] = F[<<g[s \ {Max(s)}], Max(s)>>]
        BY <1>5 DEF IsFold
      <3>2. s = {} => g[s] = amountIn
        BY <1>5 DEF IsFold
      <3> QED
        BY <1>4, <3>1, <3>2, Zenon
    <2>2. g = [s \in SUBSET (1..n) |-> g[s]]
      BY <1>5 DEF IsFold
    <2> QED
      BY <1>2, <2>1, <2>2, Zenon
  <1>7. it = body(it)
    <2> HIDE DEF body
    <2> QED
      BY <1>6, Zenon
  <1> HIDE DEF it
  <1>8. IsUnfolded(n, Nat, amountIn, F, it)
    <2>1. \A s \in SUBSET (1..n) :
            it[s] = IF s = {} THEN amountIn ELSE op(it[s \ {Max(s)}], seq[Max(s)])
      BY <1>2, <1>7, Zenon
    <2>2. \A s \in SUBSET (1..n) : s # {} => Max(s) \in 1..n
      BY <1>2, MaxIn
    <2> QED
      BY <1>4, <2>1, <2>2, Zenon DEF IsUnfolded
  <1>9. IsFolded(n, Nat, amountIn, F, it)
    BY <1>2, <1>3, <1>4, <1>8, FoldSteps
  <1>r. PICK f : IsRun(n, Nat, amountIn, F, it[1..n], f)
    BY <1>2, <1>9, FoldRun
  <1>10. /\ f \in [0..n -> Nat] /\ f[0] = amountIn /\ f[n] = it[1..n]
         /\ \A k \in 1..n : f[k] = F[<<f[k - 1], k>>]
    BY <1>r DEF IsRun
  <1>11. \A k \in 1..n : f[k] = op(f[k - 1], seq[k])
    <2>1. \A k \in 1..n : f[k - 1] \in Nat
      BY <1>2, <1>10
    <2> QED
      BY <1>4, <1>10, <2>1, Zenon
  <1>12. f[n] = QuotePath(ps, path, amountIn)
    BY <1>1, <1>2, <1>10, Zenon DEF QuotePath, op, seq
  <1>13. \A k \in 1..n : f[k] = QuoteHop(ps, f[k - 1], seq[k])
    BY <1>11, Zenon DEF op, QuoteHop
  <1> QED
    BY <1>10, <1>12, <1>13, Zenon DEF n, seq, QuotesRun

\* A path with one more leg quotes what the leg makes of the path's quote.
LEMMA QuoteAppend ==
  ASSUME NEW ps \in [Pools -> V2Pool], NEW path \in Seq(LegSet), NEW leg \in LegSet,
         NEW amountIn \in Nat
  PROVE  /\ QuotePath(ps, path, amountIn) \in Nat
         /\ QuotePath(ps, Append(path, leg), amountIn)
              = PoolQuote(ps, leg, QuotePath(ps, path, amountIn))
  <1> DEFINE n == Len(path)
             q == Append(path, leg)
  <1>1. /\ n \in Nat /\ q \in Seq(LegSet) /\ Len(q) = n + 1 /\ q[n + 1] = leg
        /\ \A i \in 1..n : q[i] = path[i]
    BY LenProperties, AppendProperties
  <1> HIDE DEF q
  <1>2. PICK f : QuotesRun(ps, path, amountIn, f)
    BY QuoteRun
  <1>3. PICK g : QuotesRun(ps, q, amountIn, g)
    BY <1>1, QuoteRun
  <1>4. /\ f \in [0..n -> Nat] /\ f[0] = amountIn /\ f[n] = QuotePath(ps, path, amountIn)
        /\ \A k \in 1..n : f[k] = QuoteHop(ps, f[k - 1], path[k])
    BY <1>2 DEF QuotesRun
  <1>5. /\ g[0] = amountIn /\ g[n + 1] = QuotePath(ps, q, amountIn)
        /\ \A k \in 1..(n + 1) : g[k] = QuoteHop(ps, g[k - 1], q[k])
    BY <1>1, <1>3 DEF QuotesRun
  <1> HIDE DEF n
  <1> DEFINE H == {k \in 0..n : f[k] = g[k]}
  <1>6. 0 \in H
    BY <1>1, <1>4, <1>5
  <1>7. ASSUME NEW k \in 1..n, k - 1 \in H PROVE k \in H
    <2>1. k \in 1..(n + 1) /\ k \in 0..n /\ f[k - 1] = g[k - 1] /\ q[k] = path[k]
      BY <1>1, <1>7
    <2>2. f[k] = g[k]
      BY <1>4, <1>5, <2>1, Zenon
    <2> QED
      BY <2>1, <2>2
  <1>8. f[n] = g[n] /\ f[n] \in Nat
    <2> HIDE DEF H
    <2>1. \A k \in 0..n : k \in H
      BY <1>1, <1>6, <1>7, UpTo
    <2>2. n \in H
      BY <1>1, <2>1
    <2> QED
      BY <1>1, <1>4, <2>2 DEF H
  <1>9. g[n + 1] = QuoteHop(ps, f[n], leg)
    <2>1. n + 1 \in 1..(n + 1) /\ (n + 1) - 1 = n
      BY <1>1
    <2>2. g[n + 1] = QuoteHop(ps, g[(n + 1) - 1], q[n + 1])
      BY <1>5, <2>1
    <2> QED
      BY <1>1, <1>8, <2>1, <2>2
  <1>10. QuoteHop(ps, f[n], leg) = PoolQuote(ps, leg, f[n])
    BY <1>8, QuoteTyped DEF QuoteHop
  <1> QED
    BY <1>4, <1>5, <1>8, <1>9, <1>10 DEF q

\* A path of no legs quotes its input.
LEMMA QuoteEmpty ==
  ASSUME NEW ps \in [Pools -> V2Pool], NEW amountIn \in Nat
  PROVE  QuotePath(ps, <<>>, amountIn) = amountIn
  <1>1. <<>> \in Seq(LegSet) /\ Len(<<>>) = 0
    BY EmptySeq
  <1>2. PICK f : QuotesRun(ps, <<>>, amountIn, f)
    BY <1>1, QuoteRun
  <1> QED
    BY <1>1, <1>2 DEF QuotesRun

(* The nodes and candidates whose amounts are the quotes of their paths,   *)
(* and the states of a search that hold no others.                         *)
WorthNodes(ps, hub, start, t) == {e \in NodesAt(hub, t) : e.amount = QuotePath(ps, e.path, start)}
WorthCands(ps, hub, start) ==
  {c \in CandidatesOf(hub) : c.amountIn = start /\ c.formulaOut = QuotePath(ps, c.path, start)}
AtWorth(ps, hub, start, st) ==
  /\ \A t \in Tokens : st.next[t] \in Seq(WorthNodes(ps, hub, start, t))
  /\ st.cands \in Seq(WorthCands(ps, hub, start))

\* One edge keeps the amounts those of the paths,
LEMMA EdgeWorth ==
  ASSUME NEW ps \in [Pools -> V2Pool], NEW hub \in Tokens, NEW t \in Tokens, NEW start \in Nat,
         NEW layer, NEW entry \in WorthNodes(ps, hub, start, t), NEW edge \in EdgesFrom(t),
         NEW st \in SearchState(hub), AtWorth(ps, hub, start, st)
  PROVE  AtWorth(ps, hub, start, BfsEdge(ps, st, entry, edge, hub, layer, start))
  <1> DEFINE out == PoolQuote(ps, edge, entry.amount)
             q == Append(entry.path, edge)
             x == edge.tokenOut
             st1 == BfsEdge(ps, st, entry, edge, hub, layer, start)
             node == [amount |-> out, path |-> q]
             back == backtrack(entry, edge, start, out)
  <1>1. /\ entry.amount \in Nat /\ entry.path \in PathsTo(hub, t) /\ entry.path \in Seq(LegSet)
        /\ entry.amount = QuotePath(ps, entry.path, start) /\ edge \in LegSet /\ x \in Tokens
    BY DEF WorthNodes, NodesAt, PathsTo, EdgesFrom, LegSet
  <1>2. out \in Nat /\ QuotePath(ps, q, start) = out
    BY <1>1, QuoteTyped, QuoteAppend
  <1>3. q \in PathsTo(hub, x) /\ (x = hub => q \in Cycles(hub))
    BY <1>1, PathContinued
  <1>4. EdgeMakes(ps, st, entry, edge, hub, layer, start, st1)
    BY <1>1, EdgeResult
  <1>5. /\ out = 0 => st1 = st
        /\ out # 0 /\ x = hub /\ layer >= 2 => st1.next = st.next /\ st1.cands = Append(st.cands, back)
        /\ out # 0 /\ ~(x = hub /\ layer >= 2) =>
             /\ st1.cands = st.cands /\ st1.next[x] = KeepTop(st.next[x], node)
             /\ \A u \in Tokens \ {x} : st1.next[u] = st.next[u]
    BY <1>4, Zenon DEF EdgeMakes
  <1>6. node \in WorthNodes(ps, hub, start, x)
    BY <1>2, <1>3 DEF WorthNodes, NodesAt
  <1>7. x = hub => back \in WorthCands(ps, hub, start)
    BY <1>2, <1>3 DEF WorthCands, CandidatesOf, backtrack
  <1> HIDE DEF out, q, x, st1, node, back
  <1>8. /\ \A u \in Tokens : st.next[u] \in Seq(WorthNodes(ps, hub, start, u))
        /\ st.cands \in Seq(WorthCands(ps, hub, start))
    BY DEF AtWorth
  <1>9. KeepTop(st.next[x], node) \in Seq(WorthNodes(ps, hub, start, x))
    BY <1>1, <1>6, <1>8, KeepTopTyped
  <1>10. x = hub => Append(st.cands, back) \in Seq(WorthCands(ps, hub, start))
    BY <1>7, <1>8, AppendProperties
  <1>11. CASE out = 0
    BY <1>5, <1>11 DEF st1
  <1>12. CASE out # 0 /\ x = hub /\ layer >= 2
    <2>1. AtWorth(ps, hub, start, st1)
      BY <1>5, <1>8, <1>10, <1>12, Zenon DEF AtWorth
    <2> QED
      BY <2>1 DEF st1
  <1>13. CASE out # 0 /\ ~(x = hub /\ layer >= 2)
    <2>1. ASSUME NEW u \in Tokens PROVE st1.next[u] \in Seq(WorthNodes(ps, hub, start, u))
      <3>1. CASE u = x
        BY <1>5, <1>9, <1>13, <3>1, Zenon
      <3>2. CASE u # x
        <4>1. st1.next[u] = st.next[u]
          BY <1>5, <1>13, <3>2
        <4> QED
          BY <1>8, <4>1
      <3> QED
        BY <3>1, <3>2
    <2>2. st1.cands \in Seq(WorthCands(ps, hub, start))
      BY <1>5, <1>8, <1>13, Zenon
    <2>3. AtWorth(ps, hub, start, st1)
      BY <2>1, <2>2, Zenon DEF AtWorth
    <2> QED
      BY <2>3 DEF st1
  <1> QED
    BY <1>11, <1>12, <1>13

\* all the edges out of a node,
LEMMA NodeWorth ==
  ASSUME NEW ps \in [Pools -> V2Pool], NEW adj \in Adjacency, NEW hub \in Tokens, NEW start \in Nat,
         NEW reach, NEW layer, NEW t \in Tokens, NEW entry \in WorthNodes(ps, hub, start, t),
         NEW st \in SearchState(hub), AtWorth(ps, hub, start, st)
  PROVE  AtWorth(ps, hub, start, OverEdges(ps, adj, hub, start, reach, layer, t, entry, st))
  <1> DEFINE n == Len(adj[t])
  <1>1. /\ n \in Nat /\ \A k \in 1..n : adj[t][k] \in EdgesFrom(t)
        /\ entry \in NodesAt(hub, t)
    BY LenProperties, ElementOfSeq DEF Adjacency, WorthNodes
  <1>2. PICK f : EdgeRun(ps, adj, hub, start, reach, layer, t, entry, st, f)
    BY <1>1, NodeRun
  <1>3. /\ f \in [0..n -> SearchState(hub)] /\ f[0] = st
        /\ f[n] = OverEdges(ps, adj, hub, start, reach, layer, t, entry, st)
        /\ \A k \in 1..n :
             f[k] = EdgeStep(ps, hub, start, reach, layer, entry, f[k - 1], adj[t][k])
    BY <1>2 DEF EdgeRun
  <1> HIDE DEF n
  <1> DEFINE H == {k \in 0..n : AtWorth(ps, hub, start, f[k])}
  <1>4. 0 \in H
    BY <1>1, <1>3
  <1>5. ASSUME NEW k \in 1..n, k - 1 \in H PROVE k \in H
    <2>1. f[k - 1] \in SearchState(hub) /\ AtWorth(ps, hub, start, f[k - 1]) /\ k \in 0..n
      BY <1>1, <1>3, <1>5
    <2>2. AtWorth(ps, hub, start, EdgeStep(ps, hub, start, reach, layer, entry, f[k - 1], adj[t][k]))
      <3>1. AtWorth(ps, hub, start, BfsEdge(ps, f[k - 1], entry, adj[t][k], hub, layer, start))
        BY <1>1, <2>1, EdgeWorth
      <3> QED
        BY <2>1, <3>1, Zenon DEF EdgeStep
    <2>3. AtWorth(ps, hub, start, f[k])
      BY <1>3, <2>2, Zenon
    <2> QED
      BY <2>1, <2>3
  <1>6. n \in H
    <2> HIDE DEF H
    <2>1. \A k \in 0..n : k \in H
      BY <1>1, <1>4, <1>5, UpTo
    <2> QED
      BY <1>1, <2>1
  <1> QED
    BY <1>3, <1>6, Zenon

\* all the nodes at a token,
LEMMA TokenWorth ==
  ASSUME NEW ps \in [Pools -> V2Pool], NEW adj \in Adjacency, NEW hub \in Tokens, NEW start \in Nat,
         NEW reach, NEW layer, NEW t \in Tokens, NEW entries \in Seq(WorthNodes(ps, hub, start, t)),
         NEW st \in SearchState(hub), AtWorth(ps, hub, start, st)
  PROVE  AtWorth(ps, hub, start, OverNodes(ps, adj, hub, start, reach, layer, t, entries, st))
  <1> DEFINE n == Len(entries)
  <1>1. /\ n \in Nat /\ \A k \in 1..n : entries[k] \in WorthNodes(ps, hub, start, t)
        /\ entries \in Seq(NodesAt(hub, t))
    <2>1. WorthNodes(ps, hub, start, t) \subseteq NodesAt(hub, t)
      BY DEF WorthNodes
    <2> QED
      BY <2>1, LenProperties, ElementOfSeq, SeqMonotonic
  <1>2. PICK f : NodesRun(ps, adj, hub, start, reach, layer, t, entries, st, f)
    BY <1>1, TokenRun
  <1>3. /\ f \in [0..n -> SearchState(hub)] /\ f[0] = st
        /\ f[n] = OverNodes(ps, adj, hub, start, reach, layer, t, entries, st)
        /\ \A k \in 1..n :
             f[k] = OverEdges(ps, adj, hub, start, reach, layer, t, entries[k], f[k - 1])
    BY <1>2 DEF NodesRun
  <1> HIDE DEF n
  <1> DEFINE H == {k \in 0..n : AtWorth(ps, hub, start, f[k])}
  <1>4. 0 \in H
    BY <1>1, <1>3
  <1>5. ASSUME NEW k \in 1..n, k - 1 \in H PROVE k \in H
    <2>1. f[k - 1] \in SearchState(hub) /\ AtWorth(ps, hub, start, f[k - 1]) /\ k \in 0..n
      BY <1>1, <1>3, <1>5
    <2>2. AtWorth(ps, hub, start, OverEdges(ps, adj, hub, start, reach, layer, t, entries[k], f[k - 1]))
      BY <1>1, <2>1, NodeWorth
    <2>3. AtWorth(ps, hub, start, f[k])
      BY <1>3, <2>2, Zenon
    <2> QED
      BY <2>1, <2>3
  <1>6. n \in H
    <2> HIDE DEF H
    <2>1. \A k \in 0..n : k \in H
      BY <1>1, <1>4, <1>5, UpTo
    <2> QED
      BY <1>1, <2>1
  <1> QED
    BY <1>3, <1>6, Zenon

\* and a layer, whatever the order of its tokens.
LEMMA LayerWorth ==
  ASSUME NEW ps \in [Pools -> V2Pool], NEW adj \in Adjacency, NEW hub \in Tokens, NEW start \in Nat,
         NEW reach, NEW layer, NEW next \in Frontier(hub), NEW order \in Seq(Tokens),
         \A t \in Tokens : next[t] \in Seq(WorthNodes(ps, hub, start, t)),
         NEW st \in SearchState(hub), AtWorth(ps, hub, start, st)
  PROVE  AtWorth(ps, hub, start, OverTokens(ps, adj, hub, start, reach, layer, next, order, st))
  <1> DEFINE n == Len(order)
  <1>1. n \in Nat /\ \A k \in 1..n : order[k] \in Tokens
    BY LenProperties, ElementOfSeq
  <1>2. PICK f : TokensRun(ps, adj, hub, start, reach, layer, next, order, st, f)
    BY <1>1, LayerRun
  <1>3. /\ f \in [0..n -> SearchState(hub)] /\ f[0] = st
        /\ f[n] = OverTokens(ps, adj, hub, start, reach, layer, next, order, st)
        /\ \A k \in 1..n :
             f[k] = OverNodes(ps, adj, hub, start, reach, layer, order[k], next[order[k]], f[k - 1])
    BY <1>2 DEF TokensRun
  <1> HIDE DEF n
  <1> DEFINE H == {k \in 0..n : AtWorth(ps, hub, start, f[k])}
  <1>4. 0 \in H
    BY <1>1, <1>3
  <1>5. ASSUME NEW k \in 1..n, k - 1 \in H PROVE k \in H
    <2>1. f[k - 1] \in SearchState(hub) /\ AtWorth(ps, hub, start, f[k - 1]) /\ k \in 0..n
      BY <1>1, <1>3, <1>5
    <2>2. AtWorth(ps, hub, start, OverNodes(ps, adj, hub, start, reach, layer, order[k], next[order[k]], f[k - 1]))
      BY <1>1, <2>1, TokenWorth
    <2>3. AtWorth(ps, hub, start, f[k])
      BY <1>3, <2>2, Zenon
    <2> QED
      BY <2>1, <2>3
  <1>6. n \in H
    <2> HIDE DEF H
    <2>1. \A k \in 0..n : k \in H
      BY <1>1, <1>4, <1>5, UpTo
    <2> QED
      BY <1>1, <2>1
  <1> QED
    BY <1>3, <1>6, Zenon

(* The amounts of the search are those of the paths: what it promises for  *)
(* a cycle is what the pools, quoted one after the other, make of the      *)
(* start amount.                                                           *)
THEOREM SearchQuotesItsPaths ==
  ASSUME NEW ps \in [Pools -> V2Pool], NEW adj \in Adjacency, NEW hub \in Tokens, NEW start \in Nat,
         NEW order \in Seq(Tokens), NEW reach
  PROVE  LayeredSearch(ps, adj, hub, start, order, reach) \in Seq(WorthCands(ps, hub, start))
  <1>1. HopCap \in Nat
    BY SearchAssumption
  <1>2. PICK f : LayersRun(ps, adj, hub, start, order, reach, f)
    BY SearchRun
  <1>3. /\ f \in [0..HopCap -> SearchState(hub)] /\ f[0] = Root(hub, start)
        /\ LayeredSearch(ps, adj, hub, start, order, reach) = f[HopCap].cands
        /\ \A k \in 1..HopCap : f[k] = LayerStep(ps, adj, hub, start, reach, order, f[k - 1], k)
    BY <1>2 DEF LayersRun
  <1>4. AtWorth(ps, hub, start, Root(hub, start))
    <2> DEFINE e == [amount |-> start, path |-> <<>>]
    <2>1. <<>> \in PathsTo(hub, hub)
      BY EmptySeq DEF PathsTo
    <2>2. e \in WorthNodes(ps, hub, start, hub)
      BY <2>1, QuoteEmpty DEF WorthNodes, NodesAt
    <2> HIDE DEF e
    <2>3. <<e>> \in Seq(WorthNodes(ps, hub, start, hub))
      BY <2>2
    <2>4. \A t \in Tokens : <<>> \in Seq(WorthNodes(ps, hub, start, t))
      BY EmptySeq
    <2>5. <<>> \in Seq(WorthCands(ps, hub, start))
      BY EmptySeq
    <2>6. /\ Root(hub, start).cands = <<>> /\ Root(hub, start).next[hub] = <<e>>
          /\ \A t \in Tokens \ {hub} : Root(hub, start).next[t] = <<>>
      BY DEF Root, Nobody, e
    <2> QED
      BY <2>3, <2>4, <2>5, <2>6 DEF AtWorth
  <1> DEFINE H == {k \in 0..HopCap : AtWorth(ps, hub, start, f[k])}
  <1>5. 0 \in H
    BY <1>1, <1>3, <1>4
  <1>6. ASSUME NEW k \in 1..HopCap, k - 1 \in H PROVE k \in H
    <2>1. f[k - 1] \in SearchState(hub) /\ AtWorth(ps, hub, start, f[k - 1]) /\ k \in 0..HopCap
      BY <1>1, <1>3, <1>6
    <2>2. PICK u : u = f[k - 1]
      OBVIOUS
    <2>3. u.next \in Frontier(hub) /\ [next |-> Nobody, cands |-> u.cands] \in SearchState(hub)
      BY <2>1, <2>2, BlankTyped
    <2>4. AtWorth(ps, hub, start, [next |-> Nobody, cands |-> u.cands])
      <3>1. \A t \in Tokens : <<>> \in Seq(WorthNodes(ps, hub, start, t))
        BY EmptySeq
      <3> QED
        BY <2>1, <2>2, <3>1 DEF AtWorth, Nobody
    <2>5. \A t \in Tokens : u.next[t] \in Seq(WorthNodes(ps, hub, start, t))
      BY <2>1, <2>2 DEF AtWorth
    <2>6. AtWorth(ps, hub, start, LayerStep(ps, adj, hub, start, reach, order, u, k))
      BY <2>3, <2>4, <2>5, LayerWorth DEF LayerStep
    <2>7. AtWorth(ps, hub, start, f[k])
      BY <1>3, <2>2, <2>6, Zenon
    <2> QED
      BY <2>1, <2>7
  <1>7. HopCap \in H
    <2> HIDE DEF H
    <2>1. \A k \in 0..HopCap : k \in H
      BY <1>1, <1>5, <1>6, UpTo
    <2> QED
      BY <1>1, <2>1
  <1>8. f[HopCap].cands \in Seq(WorthCands(ps, hub, start))
    BY <1>7 DEF AtWorth
  <1> QED
    BY <1>3, <1>8, Zenon

(* In every state the bot reaches, whatever blocks its quoters were built  *)
(* at, formulaBFS returns what a search without pruning returns, and each  *)
(* candidate's formulaOut is the quote of its path (main.go, formulaBFS).  *)
THEOREM SearchIsExactHolds == Spec => []SearchIsExact
  <1>1. ASSUME MoneyInv PROVE SearchIsExact
    <2> DEFINE ps == ViewOf(cached)
    <2>1. ps \in [Pools -> V2Pool]
      BY <1>1, ViewTyped DEF MoneyInv
    <2> HIDE DEF ps
    <2>2. ASSUME NEW o \in Orders, NEW hub \in HubSet, NEW i \in DOMAIN Sizes[hub]
          PROVE  LET all == LayeredSearch(ps, Adj, hub, Sizes[hub][i], o, [r \in 1..HopCap |-> Tokens])
                     got == formulaBFS(ps, Adj, hub, Sizes[hub][i], o)
                 IN /\ got = all
                    /\ \A c \in Range(got) : QuotePath(ps, c.path, c.amountIn) = c.formulaOut
      <3>1. hub \in Tokens /\ Sizes[hub] \in Seq(Nat) /\ o \in Seq(Tokens)
        BY HubsTyped, BotAssumption DEF HubSet
      <3>2. PICK start \in Nat : start = Sizes[hub][i]
        BY <3>1, LenProperties, ElementOfSeq
      <3> DEFINE got == formulaBFS(ps, Adj, hub, start, o)
      <3>3. got = LayeredSearch(ps, Adj, hub, start, o, [r \in 1..HopCap |-> Tokens])
        BY <2>1, <3>1, AdjTyped, PruningLosesNothing
      <3>4. got \in Seq(WorthCands(ps, hub, start))
        BY <2>1, <3>1, AdjTyped, SearchQuotesItsPaths DEF formulaBFS
      <3> HIDE DEF got
      <3>5. ASSUME NEW c \in Range(got) PROVE QuotePath(ps, c.path, c.amountIn) = c.formulaOut
        <4>1. c \in WorthCands(ps, hub, start)
          BY <3>4, <3>5, LenProperties, ElementOfSeq DEF Range
        <4> QED
          BY <4>1 DEF WorthCands
      <3> QED
        BY <3>2, <3>3, <3>5, Zenon DEF got
    <2> QED
      BY <2>2, Zenon DEF SearchIsExact, ps
  <1> QED
    BY <1>1, MoneyInit, MoneyStep, PTL DEF Spec
=============================================================================
