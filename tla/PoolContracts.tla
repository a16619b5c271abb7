--------------------------- MODULE PoolContracts ---------------------------
(***************************************************************************)
(* The pool contracts the formulas quote, as far as the formulas depend on *)
(* them: what a swap pays and what it leaves in storage.  They are not     *)
(* part of the repository; the models follow how its code reads them.      *)
(*                                                                         *)
(* A concentrated-liquidity pool is cl = [price, tick, net, spacing, fee]: *)
(* net maps the initialized ticks to their net liquidity.                  *)
(***************************************************************************)
EXTENDS FormulaV3, FormulaLFJ, FormulaDODO, FormulaPharaohV1, FormulaWooFi, FormulaWombat

\* The liquidity in range at a tick.
InRange(cl) == MapThenSumSet(LAMBDA t : IF t <= cl.tick THEN cl.net[t] ELSE 0, DOMAIN cl.net)

RECURSIVE UniswapWalk(_, _, _, _, _)
(* The swap of a Uniswap V3 contract: exact arithmetic, every bitmap word. *)
(* The steps are counted, those to an initialized tick apart.              *)
UniswapWalk(view, fee, zeroForOne, n, w) ==
  LET step(nx) == computeSwapStep(w.price, TargetOf(zeroForOne, nx), w.liquidity, w.remaining, fee)
      at(nx) == UniswapWalk(view, fee, zeroForOne,
                  IF nx.initialized THEN [n EXCEPT !.ticks = @ + 1] ELSE [n EXCEPT !.words = @ + 1],
                  Stepped(view, zeroForOne, w, nx, step(nx)))
  IN IF Spent(w, zeroForOne) THEN [out |-> w.out, price |-> w.price, tick |-> w.tick, steps |-> n]
     ELSE at(nextInitializedTick(view, w.tick, zeroForOne))

UniswapSwap(cl, amountIn, zeroForOne) ==
  UniswapWalk([net |-> cl.net, spacing |-> cl.spacing, minWord |-> -MaxTick - 1,
               maxWord |-> MaxTick + 1], cl.fee, zeroForOne, [ticks |-> 0, words |-> 0],
              [price |-> cl.price, tick |-> cl.tick, liquidity |-> InRange(cl),
               remaining |-> amountIn, out |-> 0])

AfterUniswap(cl, amountIn, zeroForOne) ==
  LET at(r) == [cl EXCEPT !.price = r.price, !.tick = r.tick]
  IN at(UniswapSwap(cl, amountIn, zeroForOne))

\* The same pool in the storage of a V3 contract of some layout, with what an
\* earlier layout of the contract may have left behind.
V3Storage(cl, live, old) ==
  LET slot(c) == [price |-> c.price, tick |-> c.tick, obs |-> 1]
      body(c) == [liquidity |-> InRange(c), net |-> c.net]
      none    == [liquidity |-> 0, net |-> <<>>]
      pharaoh == live \in {"pharaohV1", "pharaohV2"}
  IN [known |-> TRUE, pharaoh |-> pharaoh, fee |-> cl.fee, spacing |-> cl.spacing,
      feeSlot |-> cl.fee,
      slot0 |-> [s \in {"s0", "s4", "s5", "v1", "v2"} |->
                   CASE s = v3Layout(live).slot0 -> slot(cl)
                     [] s = "v1" /\ old # <<>> -> slot(old[1])
                     [] OTHER -> ZeroSlot0],
      body |-> [l \in {"standard", "proxy", "pangolin", "pangolinReward", "pharaohV1", "pharaohV2"} |->
                  CASE l = live -> body(cl)
                    [] l = "pharaohV1" /\ old # <<>> -> body(old[1])
                    [] OTHER -> none]]

\* The same pool in the PoolManager, and as a list of ticks.
V4Storage(cl, protocolFee) ==
  [known |-> TRUE, price |-> cl.price, tick |-> cl.tick, protocolFee |-> protocolFee,
   fee |-> cl.fee, liquidity |-> InRange(cl), net |-> cl.net, spacing |-> cl.spacing,
   hookFee |-> 0, arena |-> <<>>]

AlgebraStorage(cl, plugin, pending) ==
  LET ts == DOMAIN cl.net
      below(t) == LET s == {u \in ts : u < t} IN IF s = {} THEN MinTick ELSE Max(s)
      above(t) == LET s == {u \in ts : u > t} IN IF s = {} THEN MaxTick ELSE Min(s)
  IN [price |-> cl.price, fee |-> cl.fee, plugin |-> plugin, pending |-> pending,
      liquidity |-> InRange(cl),
      prevTick |-> below(cl.tick + 1), nextTick |-> above(cl.tick),
      ticks |-> [t \in ts \union {MinTick, MaxTick} |->
                   [delta |-> IF t \in ts THEN cl.net[t] ELSE 0, prev |-> below(t), next |-> above(t)]]]

\* A bin after what a swap filled of it.
BinAfter(bin, fills, id, y) ==
  LET filled(f) == IF y THEN [x |-> bin.x + f.in, y |-> bin.y - f.out]
                   ELSE [x |-> bin.x - f.out, y |-> bin.y + f.in]
      last(is) == IF is = {} THEN bin ELSE filled(fills[Max(is)])
  IN last({i \in DOMAIN fills : fills[i].id = id})

\* The sums over the bins.
BinTotals(bins) == [x |-> MapThenSumSet(LAMBDA i : bins[i].x, DOMAIN bins),
                    y |-> MapThenSumSet(LAMBDA i : bins[i].y, DOMAIN bins)]

(* The bins of a Liquidity Book pair after the fills of a swap, its active *)
(* bin, and the volatility it remembers.                                   *)
AfterLb(pair, amountIn, zeroForOne, now) ==
  LET with(bins, active, ref) ==
        [pair EXCEPT !.bins = bins, !.active = active,
                     !.reserves = BinTotals(bins), !.balances = BinTotals(bins),
                     !.surplusX = 0, !.surplusY = 0,
                     !.fp.volRef = ref.volRef, !.fp.idRef = ref.idRef, !.fp.time = now,
                     !.fp.volAcc = updateVolatilityAccumulator(ref.volRef, ref.idRef, active,
                                                               pair.fp.maxVolAcc)]
      after(q) ==
        IF q.out = 0 THEN pair
        ELSE with([id \in DOMAIN pair.bins |->
                     BinAfter(pair.bins[id], q.fills, id, zeroForOne = pair.tokenXIsToken0)],
                  q.fills[Len(q.fills)].id, updateReferences(pair.fp, pair.active, now))
  IN after(QuoteLFJ(pair, amountIn, zeroForOne, now))

-----------------------------------------------------------------------------
(***************************************************************************)
(* What the pool contracts behind the curve formulas do with a trade, so   *)
(* that the formulas are quoted on states that trading reaches.  A curve   *)
(* pool is [kind, st], st the storage its formula reads.                   *)
(***************************************************************************)
\* The tokens of a curve pool; a pair's are 0 and 1.
CurveTokens(pool) == CASE pool.kind = "woo" -> DOMAIN wooTokenDecimals \union {wooNative}
                       [] pool.kind = "wombat" -> DOMAIN pool.st.assets
                       [] OTHER -> {0, 1}

\* The quote of a curve pool, as its quoter gives it; <<>> if it does not return.
CurveQuote(pool, a, in, out) ==
  LET solidly(p) == IF p = <<>> THEN <<0>> ELSE <<QuotePharaohV1(p[1], a, in < out)>>
      woo(p) == IF p = <<>> THEN <<0>> ELSE <<QuoteWooFi(p[1], a, in, out)>>
      wombat(p) == IF p = <<>> THEN <<0>> ELSE QuoteWombat(p[1], a, in, out)
  IN CASE pool.kind = "dodo" -> <<QuoteDODOPool(newDODOPool(pool.st), a, in < out)>>
       [] pool.kind = "solidly" -> solidly(newPharaohV1Pool(pool.st))
       [] pool.kind = "woo" -> woo(newWooFiPool(pool.st))
       [] pool.kind = "wombat" -> wombat(newWombatPool(pool.st))

\* What a curve pool holds of a token.
Reserve(pool, t) ==
  CASE pool.kind = "dodo" -> IF (t = 0) = pool.st.baseIsToken0 THEN pool.st.reserves.B ELSE pool.st.reserves.Q
    [] pool.kind = "solidly" -> IF t = 0 THEN pool.st.r0 ELSE pool.st.r1
    [] pool.kind = "woo" -> IF t \in DOMAIN pool.st.infos THEN pool.st.infos[t].reserve ELSE 0
    [] pool.kind = "wombat" -> pool.st.assets[t].cash

\* The regime after a trade of a: onward, or back to or past equilibrium.
RegimeAfter(s, a, sells) ==
  LET onward == IF sells THEN "below" ELSE "above"
      back == IF sells THEN s.B0 - s.B ELSE s.Q0 - s.Q
  IN IF s.R \in {"one", onward} \/ a > back THEN onward ELSE IF a = back THEN "one" ELSE s.R

(* DODO: the reserves move, the maintainer's fee leaves, and the target on *)
(* the side sold is stored only when the regime changes.                   *)
AfterDodo(st, a, sells, out) ==
  LET targets(s, R) == IF R = s.R \/ st.family = "DVM" THEN st.targets
                       ELSE IF sells THEN [st.targets EXCEPT !.R = R, !.B0 = s.B0]
                       ELSE [st.targets EXCEPT !.R = R, !.Q0 = s.Q0]
      moved(s, left) ==
        [st EXCEPT !.reserves = IF sells THEN [B |-> s.B + a, Q |-> s.Q - left]
                                ELSE [B |-> s.B - left, Q |-> s.Q + a],
                   !.targets = targets(s, RegimeAfter(s, a, sells))]
      from(s) == moved(s, out + dodoMulFloor((IF sells THEN dodoSellBaseToken(s, a)
                                              ELSE dodoSellQuoteToken(s, a))[1], s.mtFee))
  IN from(FetchDODOState(st))

\* Solidly: the fee leaves the pair at once.
AfterSolidly(st, a, zeroForOne, out) ==
  LET kept == AdjustedIn(FetchPharaohV1StateStorage(st), a)
  IN IF zeroForOne THEN [st EXCEPT !.r0 = @ + kept, !.r1 = @ - out]
     ELSE [st EXCEPT !.r1 = @ + kept, !.r0 = @ - out]

\* The pair's own test of a swap.
SolidlyAccepts(st, a, zeroForOne, out) ==
  LET k(s) == IF s.stable THEN kStable(s) ELSE s.r0 * s.r1
  IN k(AfterSolidly(st, a, zeroForOne, out)) >= k(st)

\* WooFi: what is sold comes in, what is bought goes out, fees leave the quote reserve.
AfterWoo(st, a, tokenIn, tokenOut, out) ==
  LET in == IF tokenIn = wooNative THEN wooWavax ELSE tokenIn
      fee == IF in = st.quote THEN a - LessFee(a, st.infos[tokenOut].feeRate) ELSE 0
  IN [st EXCEPT !.infos[in].reserve = @ + a - fee, !.infos[tokenOut].reserve = @ - out]

AfterCurve(pool, a, in, out, q) ==
  CASE pool.kind = "dodo" -> [pool EXCEPT !.st = AfterDodo(@, a, (in < out) = pool.st.baseIsToken0, q)]
    [] pool.kind = "solidly" -> [pool EXCEPT !.st = AfterSolidly(@, a, in < out, q)]
    [] pool.kind = "woo" -> [pool EXCEPT !.st = AfterWoo(@, a, in, out, q)]
    [] pool.kind = "wombat" -> [pool EXCEPT !.st.assets[in].cash = @ + a, !.st.assets[out].cash = @ - q]
=============================================================================
