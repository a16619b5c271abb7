----------------------------- MODULE ArbSearch ------------------------------
(***************************************************************************)
(* The search of the arbitrage bot (examples/go/arbitrage/main.go): a      *)
(* prescreen that scores the pools on short cycles with interpolated       *)
(* rates, a layered search on the pools it keeps, the EVM verification of  *)
(* the best cycles and the sizing of what they trade.  float64 rates are   *)
(* fixed-point numbers of unit RateUnit; float64 profits are integers.     *)
(* The result of a search depends on map order: `order' is one such order. *)
(***************************************************************************)
EXTENDS Pathfinder, FiniteSetsExt

CONSTANTS WAVAX,       \* the gas token
          oneAVAX,     \* its unit
          RateUnit,    \* the resolution of a rate
          ProbeScales, \* the three amounts probed, as <<numerator, denominator>>
          PrescreenTop,\* pools kept by score (500)
          AdjacentTop, \* edges of the hub whose pools are always kept (20)
          VerifyTop,   \* candidates executed (30)
          maxSizing,   \* verified cycles that are sized (5)
          sizeFactor,  \* the bracket around the verified amount (5)
          sizeRounds,  \* rounds of the size search (5)
          GasPerHop, baseFee

ASSUME ArbAssumption == /\ WAVAX \in Tokens /\ RateUnit \in Nat \ {0} /\ oneAVAX \in Nat \ {0}
                        /\ {VerifyTop, maxSizing, sizeRounds} \subseteq Nat /\ sizeFactor \in Nat \ {0}

(* rateAt: the rate of an edge at an amount, interpolated between probes.  *)
(* A probe that failed before one that did not stays zero.                 *)
rateAt(probes, amountIn) ==
  LET n == Len(probes)
      i == Min({j \in 2..n : amountIn <= probes[j].in})
      run == probes[i].in - probes[i - 1].in
      rise == probes[i].rate - probes[i - 1].rate
  IN IF n = 0 THEN 0
     ELSE IF n = 1 \/ amountIn <= probes[1].in THEN probes[1].rate
     ELSE IF amountIn >= probes[n].in THEN probes[n].rate
     ELSE probes[i - 1].rate + ((amountIn - probes[i - 1].in) * rise) \div run

\* The prices with that of an edge's target: the first quote stays.
Priced(prices, edge, out) ==
  IF prices[edge.tokenOut] # 0 \/ out = 0 THEN prices ELSE [prices EXCEPT ![edge.tokenOut] = out]

\* The prices with those of the neighbours of a token, one AVAX buying amt of it.
PricedAround(ps, adj, prices, token, amt) ==
  FoldLeft(LAMBDA pr, e : Priced(pr, e, PoolQuote(ps, e, amt)), prices, adj[token])

(* buildTokenPrices: what one AVAX buys of each token, 0 if unknown: first *)
(* of the neighbours of WAVAX, then of theirs.                             *)
buildTokenPrices(ps, adj, order) ==
  LET around(wave1) ==
        FoldLeft(LAMBDA pr, t : IF t = WAVAX \/ wave1[t] = 0 THEN pr
                                ELSE PricedAround(ps, adj, pr, t, wave1[t]), wave1, order)
  IN around(PricedAround(ps, adj, [t \in Tokens |-> IF t = WAVAX THEN oneAVAX ELSE 0],
                         WAVAX, oneAVAX))

\* The probes of one edge, cut after the last that gave a quote.
Probes(ps, edge, price) ==
  LET amt(i) == Max({1, (price * ProbeScales[i][1]) \div ProbeScales[i][2]})
      out(i) == PoolQuote(ps, edge, amt(i))
      n == Max({0} \union {i \in 1..3 : out(i) # 0})
  IN [i \in 1..n |-> IF out(i) = 0 THEN [in |-> 0, rate |-> 0]
                     ELSE [in |-> amt(i), rate |-> (out(i) * RateUnit) \div amt(i)]]

\* The rated edges out of each token.
RatedEdges(ps, adj, prices) ==
  LET price(t) == IF prices[t] = 0 THEN oneAVAX ELSE prices[t]
  IN [t \in Tokens |->
        SelectSeq([i \in DOMAIN adj[t] |->
                     [edge |-> adj[t][i], probes |-> Probes(ps, adj[t][i], price(t))]],
                  LAMBDA r : r.probes # <<>>)]

buildPrescreenData(ps, adj, order) ==
  LET with(prices) == [prices |-> prices, edges |-> RatedEdges(ps, adj, prices)]
  IN with(buildTokenPrices(ps, adj, order))

\* An amount after one rated edge.
Through(amount, r) == (amount * rateAt(r.probes, amount)) \div RateUnit

\* The walks extended by every rated edge that has a rate at their amount.
Extended(data, walks) ==
  FlattenSeq([i \in DOMAIN walks |->
    LET w == walks[i]
        rs == SelectSeq(data.edges[w.token], LAMBDA r : rateAt(r.probes, w.amount) > 0)
    IN [j \in DOMAIN rs |->
          [token |-> rs[j].edge.tokenOut, amount |-> Through(w.amount, rs[j]),
           tokens |-> Append(w.tokens, rs[j].edge.tokenOut),
           pools |-> Append(w.pools, rs[j].edge.pool)]]])

\* The walks that stopped at the hub, and the others.
At(hub, walks) == SelectSeq(walks, LAMBDA w : w.token = hub)
Off(hub, walks) == SelectSeq(walks, LAMBDA w : w.token # hub)

\* The walks whose pools are scored: those back at the hub.
Scored(hub, one, two, three, four) == At(hub, one) \o At(hub, two) \o At(hub, three) \o four

\* The best of some walks to each token.
BestToEach(walks) ==
  LET better(b, w) == IF b = <<>> \/ w.amount > b[1].amount THEN <<w>> ELSE b
      best(t) == FoldLeft(better, <<>>, SelectSeq(walks, LAMBDA w : w.token = t))
  IN FlattenSeq([i \in 1..Cardinality(Tokens) |-> best(SetToSeq(Tokens)[i])])

\* Cycles of three hops: a walk does not turn back to its first token.
ThreeHops(data, two) == SelectSeq(Extended(data, two), LAMBDA w : w.token # w.tokens[1])

\* Cycles of four hops that continue the best walk of two hops to a token.
FourHops(data, adj, hub, two) ==
  LET penultimate(w) == \E i \in DOMAIN adj[w.token] : adj[w.token][i].tokenOut = hub
  IN At(hub, Extended(data, SelectSeq(Off(hub, Extended(data, BestToEach(two))), penultimate)))

\* The scored cycles of prescreenPools.
ScoredCycles(data, adj, hub) ==
  LET start == [token |-> hub, amount |-> IF data.prices[hub] = 0 THEN oneAVAX ELSE data.prices[hub],
                tokens |-> <<>>, pools |-> <<>>]
      from2(one, two) == Scored(hub, one, two, ThreeHops(data, Off(hub, two)),
                                FourHops(data, adj, hub, Off(hub, two)))
      from1(one) == from2(one, Extended(data, Off(hub, one)))
  IN from1(Extended(data, <<start>>))

\* A pool's score: the largest amount a scored cycle through it returns.
Scores(cycles) ==
  [p \in Pools |-> Max({0} \union {cycles[i].amount :
                                     i \in {j \in DOMAIN cycles : p \in Range(cycles[j].pools)}})]

\* The sets of the best scores, ties as they fall.
BestScored(score) ==
  LET scored == {p \in Pools : score[p] > 0}
  IN {T \in SUBSET scored : /\ Cardinality(T) = Min({PrescreenTop, Cardinality(scored)})
                            /\ \A p \in T, q \in scored \ T : score[p] >= score[q]}

(* The sets of pools prescreenPools may select: the best scores, and the   *)
(* pools of the hub's first edges.                                         *)
prescreenPools(data, adj, hub) ==
  LET edges == data.edges[hub]
      near == {edges[i].edge.pool : i \in 1..Min({AdjacentTop, Len(edges)})}
  IN {S \union near : S \in BestScored(Scores(ScoredCycles(data, adj, hub)))}

filterAdjacency(adj, poolSet) ==
  [t \in Tokens |->
     FoldLeft(LAMBDA kept, e : IF e.pool \in poolSet THEN Append(kept, e) ELSE kept, <<>>, adj[t])]

(* The pruning test: an edge into the hub, or into a token from which the  *)
(* hub can be reached in the hops that remain.                             *)
Useful(reach, hub, edge, remaining) ==
  edge.tokenOut = hub \/ (remaining > 0 /\ edge.tokenOut \in reach[remaining])

\* Mutant: without the tokens that have an edge to the hub, one hop too few.
ReachableShort(adj, hub) ==
  LET pred(S) == {t \in Tokens : \E i \in DOMAIN adj[t] : adj[t][i].tokenOut \in S}
  IN FoldLeft(LAMBDA s, r : Append(s, Last(s) \union pred(Last(s))),
              <<{hub}>>, [r \in 1..(HopCap - 2) |-> r])

\* The tokens that reach the hub in at most 1, 2, ... hops.
Reachable(adj, hub) ==
  LET pred(S) == {t \in Tokens : \E i \in DOMAIN adj[t] : adj[t][i].tokenOut \in S}
  IN FoldLeft(LAMBDA s, r : Append(s, Last(s) \union pred(Last(s))),
              <<{hub} \union pred({hub})>>, [r \in 1..(HopCap - 2) |-> r])

\* backtrack: the cycle that the last edge closes.
backtrack(entry, edge, startAmount, out) ==
  [path |-> Append(entry.path, edge), amountIn |-> startAmount, formulaOut |-> out]

(* One edge of formulaBFS: back at the hub after two hops is a candidate,  *)
(* any other node goes to the next frontier, topK per token.               *)
BfsEdge(ps, st, entry, edge, hub, layer, start) ==
  LET out == PoolQuote(ps, edge, entry.amount)
  IN IF out = 0 THEN st
     ELSE IF edge.tokenOut = hub /\ layer >= 2
     THEN [st EXCEPT !.cands = Append(@, backtrack(entry, edge, start, out))]
     ELSE [st EXCEPT !.next[edge.tokenOut] =
             KeepTop(@, [amount |-> out, path |-> Append(entry.path, edge)])]

\* The layered search, pruned by the tokens that reach the hub in 1, 2, ... hops.
LayeredSearch(ps, adj, hub, start, order, reach) ==
  LET nobody == [t \in Tokens |-> <<>>]
      node(s, t, entry, layer) ==
        FoldLeft(LAMBDA u, e : IF Useful(reach, hub, e, HopCap - layer)
                               THEN BfsEdge(ps, u, entry, e, hub, layer, start) ELSE u, s, adj[t])
      layerOf(st, layer) ==
        LET expand(s, t) == FoldLeft(LAMBDA u, entry : node(u, t, entry, layer), s, st.next[t])
        IN FoldLeft(expand, [next |-> nobody, cands |-> st.cands], order)
      root == [next |-> [nobody EXCEPT ![hub] = <<[amount |-> start, path |-> <<>>]>>],
               cands |-> <<>>]
  IN FoldLeft(layerOf, root, [l \in 1..HopCap |-> l]).cands

formulaBFS(ps, adj, hub, start, order) ==
  LayeredSearch(ps, adj, hub, start, order, Reachable(adj, hub))

\* quoteAVAXPrice: the best quote of one AVAX in the hub token, 0 if none.
quoteAVAXPrice(ps, adj, hub) ==
  Max({0} \union {PoolQuote(ps, adj[WAVAX][i], oneAVAX) :
                    i \in {j \in DOMAIN adj[WAVAX] : adj[WAVAX][j].tokenOut = hub}})

\* The candidates of one hub at the sizes it can afford, by profit.
Candidates(ps, adj, hub, sizes, maxBalance, order) ==
  LET all == FlattenSeq([i \in DOMAIN sizes |->
               IF sizes[i] > maxBalance THEN <<>> ELSE formulaBFS(ps, adj, hub, sizes[i], order)])
      gross(c) == IF c.formulaOut > c.amountIn THEN c.formulaOut - c.amountIn ELSE 0
  IN FoldLeft(LAMBDA s, c :
                InsertAt(s, Cardinality({i \in DOMAIN s : gross(s[i]) >= gross(c)}) + 1, c), <<>>, all)

\* The pools of a cycle, in order: what tells two candidates apart.
PathKey(c) == [i \in DOMAIN c.path |-> c.path[i].pool]

\* The first VerifyTop candidates without those whose pools came before.
Distinct(cands) ==
  LET seen(d, c) == \E i \in DOMAIN d : PathKey(d[i]) = PathKey(c)
  IN FoldLeft(LAMBDA d, c : IF seen(d, c) THEN d ELSE Append(d, c), <<>>,
              SubSeq(cands, 1, Min({VerifyTop, Len(cands)})))

(* evmVerifyPath: the whole cycle as one swap() with minOutput 1, by a     *)
(* sender whose balance and allowance are overridden.  A reverted call is  *)
(* <<>>.  The profit is the amount swap() returns less the gas.            *)
evmVerifyPath(view, path, amountIn, price) ==
  LET gasCost == (Len(path) * GasPerHop * baseFee * price) \div oneAVAX
      report(r) == IF ~r.ok THEN <<>>
                   ELSE <<[path |-> path, amountIn |-> amountIn, amountOut |-> r.amountOut,
                           netProfit |-> r.amountOut - gasCost]>>
  IN report(swap(view, path, [i \in DOMAIN path |-> IF i = 1 THEN amountIn ELSE 0], 1,
                 [t \in Tokens |-> amountIn]))

\* The better of two results, each possibly <<>>; the first on a tie.
Better(a, b) == IF a = <<>> \/ (b # <<>> /\ b[1].netProfit > a[1].netProfit) THEN b ELSE a

(* One round of the size search: the half at the better end is kept, and   *)
(* the best result so far; no result is worst.                             *)
Narrowed(s, atLo, atMid, atHi) ==
  LET mid == (s.lo + s.hi) \div 2
      lower == atLo # <<>> /\ (atHi = <<>> \/ atLo[1].netProfit > atHi[1].netProfit)
  IN [lo |-> IF lower THEN s.lo ELSE mid, hi |-> IF lower THEN mid ELSE s.hi,
      best |-> Better(Better(Better(s.best, atLo), atMid), atHi)]

\* binarySearchSize: rounds that try the ends and the middle of the bracket.
binarySearchSize(view, path, base, price) ==
  LET eval(amt) == evmVerifyPath(view, path, amt, price)
      round(s, k) == Narrowed(s, eval(s.lo), eval((s.lo + s.hi) \div 2), eval(s.hi))
  IN FoldLeft(round, [lo |-> base \div sizeFactor, hi |-> base * sizeFactor, best |-> <<>>],
              [k \in 1..sizeRounds |-> k]).best

\* The verified cycles to be sized: the maxSizing best of those with a profit.
KeepSizing(rs, r) ==
  IF r = <<>> \/ r[1].netProfit <= 0 THEN rs
  ELSE IF Len(rs) < maxSizing THEN rs \o r
  ELSE LET worst == CHOOSE i \in DOMAIN rs :
             /\ \A j \in DOMAIN rs : rs[i].netProfit <= rs[j].netProfit
             /\ \A j \in 1..(i - 1) : rs[i].netProfit < rs[j].netProfit
       IN IF r[1].netProfit > rs[worst].netProfit THEN [rs EXCEPT ![worst] = r[1]] ELSE rs

(* The search of one hub: verify, size, and take the best, <<>> if nothing *)
(* is left.                                                                *)
HubBest(view, cands, price) ==
  LET verified(rs, c) == KeepSizing(rs, evmVerifyPath(view, c.path, c.amountIn, price))
      larger(r, s) == IF s # <<>> /\ s[1].netProfit > r.netProfit THEN s ELSE <<r>>
      sized(b, r) == Better(b, larger(r, binarySearchSize(view, r.path, r.amountIn, price)))
  IN FoldLeft(sized, <<>>, FoldLeft(verified, <<>>, Distinct(cands)))
=============================================================================
