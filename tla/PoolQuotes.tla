----------------------------- MODULE PoolQuotes -----------------------------
(***************************************************************************)
(* Pools as trading moves them, each quoted by its formula: one pool       *)
(* contract, its storage changed by swaps and, for a Pharaoh V3 pool, by   *)
(* its migration to a new storage layout.                                  *)
(***************************************************************************)
EXTENDS PoolContracts

CONSTANTS Pools0,     \* the pools a behaviour may start with
          Amounts,    \* amounts traded and quoted
          Prices,     \* prices the WooFi oracle posts
          Layouts,    \* the layouts V3 pools are deployed with
          SqrtMax,    \* up to which the root of a Wombat quote is checked
          MaxTrades   \* the number of swaps in a behaviour

VARIABLES pool,       \* the contract's storage
          live,       \* the layout a V3 contract uses now
          old,        \* what it left at its former layout: <<>> or <<cl>>
          cache,      \* the layout this process has resolved, "none" if none
          now,        \* the block's timestamp
          trades      \* swaps so far

vars == <<pool, live, old, cache, now, trades>>

\* The layout after the quoter of a changed pool is built again.
Rebuilt(cl, layout, left, known) == v3GetLayoutBytes(V3Storage(cl, layout, left), known)

Init == /\ pool \in Pools0
        /\ live \in Layouts
        /\ old = <<>> /\ now = 0 /\ trades = 0
        /\ pool.kind # "cl" => live = "standard"
        /\ cache = IF pool.kind = "cl" THEN Rebuilt(pool.cl, live, old, "none") ELSE "none"

\* Someone trades on a concentrated-liquidity pool.
TradeCl(a, z) == /\ pool.kind = "cl"
                 /\ trades < MaxTrades /\ trades' = trades + 1
                 /\ pool' = [pool EXCEPT !.cl = AfterUniswap(pool.cl, a, z)]
                 /\ cache' = Rebuilt(pool'.cl, live, old, cache)
                 /\ UNCHANGED <<live, old, now>>

\* A Pharaoh pool migrates: live data moves, stale data stays behind.
Migrate == /\ pool.kind = "cl" /\ live = "pharaohV1"
           /\ live' = "pharaohV2" /\ old' = <<pool.cl>>
           /\ cache' = Rebuilt(pool.cl, live', old', cache)
           /\ UNCHANGED <<pool, now, trades>>

\* The process starts again and resolves the layout anew.
Restart == /\ pool.kind = "cl"
           /\ cache' = Rebuilt(pool.cl, live, old, "none")
           /\ UNCHANGED <<pool, live, old, now, trades>>

\* Someone trades on a Liquidity Book pair, in this second or a later one.
TradeLb(a, z, t) == /\ pool.kind = "lb"
                    /\ trades < MaxTrades /\ trades' = trades + 1
                    /\ now' = now + t
                    /\ pool' = [pool EXCEPT !.lb = AfterLb(newLFJV2Pool(pool.lb), a, z, now')]
                    /\ UNCHANGED <<live, old, cache>>

\* Someone trades on a curve pool; the contract rejects what it cannot pay.
TradeCurve(a, in, out) ==
  /\ pool.kind \in {"dodo", "solidly", "woo", "wombat"} /\ in # out
  /\ {in, out} \subseteq CurveTokens(pool)
  /\ trades < MaxTrades /\ trades' = trades + 1
  /\ \E q \in Range(CurveQuote(pool, a, in, out)) :
       /\ q \in 1..Reserve(pool, out)
       /\ pool' = AfterCurve(pool, a, in, out, q)
  /\ UNCHANGED <<live, old, cache, now>>

\* The oracle of a WooFi pool posts a price.
Post(t, price) == /\ pool.kind = "woo" /\ t # pool.st.quote /\ trades < MaxTrades
                  /\ pool' = [pool EXCEPT !.st.prices[t].price = price]
                  /\ trades' = trades + 1
                  /\ UNCHANGED <<live, old, cache, now>>

Next == \/ \E a \in Amounts, z \in BOOLEAN : TradeCl(a, z)
        \/ Migrate \/ Restart
        \/ \E a \in Amounts, z \in BOOLEAN, t \in 0..2 : TradeLb(a, z, t)
        \/ \E a \in Amounts, in, out \in CurveTokens(pool) : TradeCurve(a, in, out)
        \/ \E price \in Prices, t \in wooActiveTokens : Post(t, price)

Spec == Init /\ [][Next]_vars
-----------------------------------------------------------------------------
Cl == pool.kind = "cl"
Lb == pool.kind = "lb"
V3Now == V3Storage(pool.cl, live, old)

\* A swap that ends on a tick going down leaves the tick below with its upper price.
OnBoundary(cl) == cl.tick < MaxTick /\ cl.price = sqrtRatio[cl.tick + 1]

(* Detection finds the layout of every pool that is not on such a          *)
(* boundary, also when stale data of a former layout passes for a slot0.   *)
LayoutDetected == Cl /\ ~OnBoundary(pool.cl) => v3ResolveLayout(V3Now) = live

(* A V3 quote is what the contract pays: the precomputed steps lose        *)
(* nothing, nor does the arithmetic of words that hold every product.  It  *)
(* is zero instead when the gas estimate is exceeded, and never too high   *)
(* when the contract has initialized ticks outside the loaded window.      *)
(* This is said of quoters built from the layout the contract uses: a      *)
(* process that resolved the layout before a migration keeps the former    *)
(* one until it restarts, and what it quotes then is left out.             *)
V3Lossless ==
  LET gas(p, c) == 400 + c.steps.ticks * (IF p.heavyGas THEN 55 ELSE 25) + c.steps.words * 7
      sound(p, z, q, c) == \/ q = c.out
                           \/ q = 0 /\ (gas(p, c) > v3GasLimit \/ ~evmWouldComplete(p, z))
                           \/ q < c.out /\ DOMAIN p.net # DOMAIN pool.cl.net
      quotes(p) == \A a \in Amounts, z \in BOOLEAN :
                     sound(p, z, QuoteV3(p, a, z), UniswapSwap(pool.cl, a, z))
  IN Cl /\ cache = live => quotes(newV3Pool(V3Now, cache))

(* A V4 quote is what a V3 contract of the same price, ticks and combined  *)
(* fee pays, as long as all initialized ticks are in the loaded words.     *)
V4MatchesV3 ==
  Cl => \A f01 \in {0, 20}, f10 \in {0, 30}, a \in Amounts, z \in BOOLEAN :
    LET p == newV4Pool(V4Storage(pool.cl, f01 + f10 * 4096))
        f == IF z THEN f01 ELSE f10
    IN DOMAIN p.net = DOMAIN pool.cl.net =>
         QuoteV4(p, a, z)
           = UniswapSwap([pool.cl EXCEPT !.fee = f + @ - (f * @) \div Mil], a, z).out

\* What the positions of a pool hold of the token that is paid out.
Holdings(cl, zeroForOne) ==
  LET ts == DOMAIN cl.net
      liq(t) == MapThenSumSet(LAMBDA u : IF u <= t THEN cl.net[u] ELSE 0, ts)
      next(t) == LET s == {u \in ts : u > t} IN IF s = {} THEN t ELSE Min(s)
      part(t) == LET lo == sqrtRatio[t]
                     hi == sqrtRatio[next(t)]
                     x == IF cl.price < lo THEN lo ELSE IF cl.price > hi THEN hi ELSE cl.price
                 IN IF zeroForOne THEN sGetAmount1Delta(FALSE, lo, x, liq(t), TRUE)
                    ELSE sGetAmount0Delta(FALSE, x, hi, liq(t), TRUE)
  IN MapThenSumSet(part, ts)

(* No fill takes value out of its bin at the bin's price, a quote spends   *)
(* exactly the input, and the search in the tree of bins skips no bin.     *)
LbKeepsValue ==
  LET price(p, f) == getPriceFromIdU256(f.id, p.binStep)
      fair(p, y, f) == IF y THEN f.out * Q128 <= f.in * price(p, f) ELSE f.out * price(p, f) <= f.in * Q128
      nearest(y, from) == IF y THEN Max({b \in DOMAIN pool.lb.bins : b < from})
                          ELSE Min({b \in DOMAIN pool.lb.bins : b > from})
      keeps(p, a, y, q) ==
        q.out > 0 =>
          /\ \A i \in DOMAIN q.fills : fair(p, y, q.fills[i])
          /\ MapThenSumSet(LAMBDA i : q.fills[i].in, DOMAIN q.fills)
               = a + (IF y THEN p.surplusX ELSE p.surplusY)
          /\ \A i \in 1..(Len(q.fills) - 1) : q.fills[i + 1].id = nearest(y, q.fills[i].id)
      quotes(p) == \A a \in Amounts, z \in BOOLEAN :
                     keeps(p, a, z = p.tokenXIsToken0, QuoteLFJ(p, a, z, now))
  IN Lb => quotes(newLFJV2Pool(pool.lb))

\* The directions in which a curve pool is quoted.
Directions == {p \in CurveTokens(pool) \X CurveTokens(pool) : p[1] # p[2]}
Curve(a, p) == CurveQuote(pool, a, p[1], p[2])

(* No pool is quoted above what it holds, with the one exception of a      *)
(* WooFi pool without quote tokens: there the code skips the test.  An     *)
(* Algebra quote pays at least what steps at every bitmap word would pay.  *)
PaysFromReserve ==
  /\ pool.kind \in {"dodo", "solidly", "woo", "wombat"} =>
       \A a \in Amounts, p \in Directions : \A q \in Range(Curve(a, p)) :
         \/ q <= Reserve(pool, p[2])
         \/ pool.kind = "woo" /\ p[2] = pool.st.quote /\ Reserve(pool, p[2]) = 0
  /\ Cl => \A a \in Amounts, z \in BOOLEAN :
       QuoteAlgebraStorage(AlgebraStorage(pool.cl, FALSE, <<0, 0>>), a, z)
         \in UniswapSwap(pool.cl, a, z).out .. Holdings(pool.cl, z)

(* On a DODO pool paying more never gives less, also across equilibrium,   *)
(* where the quote changes from one curve to the other; unless the larger  *)
(* amount gets no quote at all.                                            *)
DodoMonotone ==
  LET ordered(less, more) == more # 0 => less <= more
  IN pool.kind = "dodo" =>
       \A a, b \in Amounts, p \in Directions : a < b => ordered(Curve(a, p)[1], Curve(b, p)[1])

(* The pair's own test of its curve accepts what a Solidly quote promises: *)
(* Newton's method and its roundings stay on the pool's side.              *)
SolidlyAccepted ==
  LET accepted(a, p, q) == q > 0 => SolidlyAccepts(pool.st, a, p[1] < p[2], q)
  IN pool.kind = "solidly" => \A a \in Amounts, p \in Directions : accepted(a, p, Curve(a, p)[1])

(* wombatSqrt "computes integer sqrt" whatever its guess: a root it returns *)
(* is the integer root, and only just below a square may it return none.   *)
(* There the loop of the code never ends.                                  *)
WombatSqrtExact ==
  LET exact(y, root) == root * root <= y /\ (root + 1) * (root + 1) > y
      belowSquare(y) == \E n \in 0..y : n * n = y + 1
  IN pool.kind = "wombat" /\ trades = 0 =>
       \A y \in 0..SqrtMax, guess \in -12..12 : LET r == wombatSqrt(y, guess)
                                              IN IF r = <<>> THEN belowSquare(y) ELSE exact(y, r[1])
=============================================================================
