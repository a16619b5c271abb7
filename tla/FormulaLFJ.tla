----------------------------- MODULE FormulaLFJ -----------------------------
(***************************************************************************)
(* The LFJ (Trader Joe) Liquidity Book pools, V2.0 to V2.2                 *)
(* (formulas/lfj_v2.go, lfj_v2_fast.go, lfj_v2_v20.go, pool_lfj_v2.go):    *)
(* bin prices, the volatility fee, the three-level tree that finds the     *)
(* next bin, and the walk over the bins.                                   *)
(*                                                                         *)
(* A pair is [active, binStep, fp, bins, reserves, balances, v20]: fp the  *)
(* decoded fee parameters, bins a map from the ids in the tree to [x, y].  *)
(***************************************************************************)
EXTENDS TickMath

CONSTANTS TreeBits,      \* 256: bits of one tree node
          realIDShift,   \* the id of price 1
          bpMax,         \* 10000
          precision,     \* 1e18
          feeUnit,       \* 1e10
          varFeeDiv,     \* 100
          mask20,        \* 2^20: volatility accumulators are kept below it
          TimeRange,     \* 2^64: timestamps wrap
          Word64         \* 2^64: the products of the fee wrap

\* base^exponent in fixed point by squaring; a base above one is inverted first.
pow128U256(base, exponent) ==
  LET RECURSIVE go(_, _, _)
      go(n, sq, acc) == IF n = 0 THEN acc
                        ELSE go(n \div 2, (sq * sq) \div Q128,
                                IF n % 2 = 1 THEN (acc * sq) \div Q128 ELSE acc)
      invert(r) == IF r # 0 /\ (exponent < 0) # (base > Q128 - 1) THEN MaxU \div r ELSE r
  IN IF exponent = 0 THEN Q128
     ELSE invert(go(Abs(exponent), IF base > Q128 - 1 THEN MaxU \div base ELSE base, Q128))

getPriceFromIdU256(id, binStep) ==
  pow128U256(Q128 + (binStep * Q128) \div bpMax, id - realIDShift)

CeilDiv(a, b) == (a + b - 1) \div b

(* The base fee plus the fee for volatility, capped.  The products are     *)
(* computed in uint64, where the larger of them may lose their high bits.  *)
getTotalFeeU256(fp, binStep, volAcc) ==
  LET times(a, b) == (a * b) % Word64
      prod == times(volAcc, binStep)
      rounded == (times(times(prod, prod), fp.vfc) + varFeeDiv - 1) % Word64
      variable == IF fp.vfc = 0 THEN 0 ELSE rounded \div varFeeDiv
  IN Min({times(times(fp.baseFactor, binStep), feeUnit) + variable, Q128 - 1})

\* The fee on top of an amount, and the fee contained in one.
getFeeAmountU256(amount, totalFee) == CeilDiv(amount * totalFee, precision - totalFee)
getFeeAmountFromU256(amountWithFees, totalFee) == CeilDiv(amountWithFees * totalFee, precision)

mulShiftU256(x, y, roundUp) ==
  (x * y) \div Q128 + (IF roundUp /\ (x * y) % Q128 # 0 THEN 1 ELSE 0)

\* A mutant: never rounds up.
shiftDivDown(x, denom, roundUp) == (x * Q128) \div denom

shiftDivU256(x, denom, roundUp) ==
  (x * Q128) \div denom + (IF roundUp /\ (x * Q128) % denom # 0 THEN 1 ELSE 0)

\* The references move when the filter period has passed; time may wrap.
updateReferences(fp, active, now) ==
  LET dt == (now - fp.time) % TimeRange
  IN IF dt < fp.filterPeriod THEN [volRef |-> fp.volRef, idRef |-> fp.idRef]
     ELSE [volRef |-> IF dt < fp.decayPeriod THEN (fp.volAcc * fp.reduction) \div bpMax ELSE 0,
           idRef |-> active]

updateVolatilityAccumulator(volRef, idRef, active, maxVolAcc) ==
  Min({volRef + Abs(active - idRef) * bpMax, maxVolAcc}) % mask20
-----------------------------------------------------------------------------
\* A node of the tree over the ids: level 2 has the bins, 1 and 0 what is below them.
lfjV2ReadTreeLevelU256(ids, level, key) ==
  {b \in 0..(TreeBits - 1) :
     \E id \in ids : id \div TreeBits^(2 - level) = key * TreeBits + b}

\* -1 stands for the 256 of the code, which no bit has.
closestBitRightU256(x, bit) ==
  LET s == {b \in x : b < bit} IN IF s = {} THEN -1 ELSE Max(s)
closestBitLeftU256(x, bit) ==
  LET s == {b \in x : b > bit} IN IF s = {} THEN -1 ELSE Min(s)

\* On one side of a bit the nearest bit of a node, and the last of its bits.
Nearest(x, bit, right) == IF right THEN closestBitRightU256(x, bit) ELSE closestBitLeftU256(x, bit)
Outermost(x, right) == IF right THEN Max(x) ELSE Min(x)

(* The next non-empty bin below (right) or above an id: in the id's own    *)
(* node, else in that of a sibling, else under another node of the root.   *)
FindFirst(ids, id, right) ==
  LET node(l, k) == lfjV2ReadTreeLevelU256(ids, l, k)
      down2(n) == n * TreeBits + Outermost(node(2, n), right)
      down1(n) == down2(n * TreeBits + Outermost(node(1, n), right))
      key2 == id \div TreeBits
      key1 == key2 \div TreeBits
      among(c2, c1, c0) ==
        CASE c2 # -1 -> key2 * TreeBits + c2
          [] c1 # -1 -> down2(key1 * TreeBits + c1)
          [] c0 # -1 -> down1(c0)
          [] OTHER -> IF right THEN TreeBits^3 - 1 ELSE 0
  IN among(Nearest(node(2, key2), id % TreeBits, right), Nearest(node(1, key1), key2 % TreeBits, right),
           Nearest(node(0, 0), key1 % TreeBits, right))

\* The largest id if there is none below, 0 if there is none above.
lfjV2FindFirstRightU256(ids, id) == FindFirst(ids, id, TRUE)
lfjV2FindFirstLeftU256(ids, id) == FindFirst(ids, id, FALSE)

\* Bin reserves; a bin that was never used reads as zeros.
lfjV2ReadBinU256(pair, id) ==
  IF id \in DOMAIN pair.bins THEN pair.bins[id] ELSE [x |-> 0, y |-> 0]

(* What a bin takes of the input left and pays for it, at its price and    *)
(* fee: all it has, or what the input less the fee buys.                   *)
Fill(id, left, reserve, price, fee, swapForY) ==
  LET partly(after) ==
        [id |-> id, in |-> left,
         out |-> Min({reserve, IF swapForY THEN mulShiftU256(after, price, FALSE)
                               ELSE shiftDivU256(after, price, FALSE)})]
      upTo(full) == IF left >= full THEN [id |-> id, in |-> full, out |-> reserve]
                    ELSE partly(left - getFeeAmountFromU256(left, fee))
      with(noFee) == upTo(noFee + getFeeAmountU256(noFee, fee))
  IN IF reserve = 0 THEN [id |-> id, in |-> 0, out |-> 0]
     ELSE with(IF swapForY THEN shiftDivU256(reserve, price, TRUE)
               ELSE mulShiftU256(reserve, price, TRUE))

\* The reserve that a swap takes from.
Paying(bin, swapForY) == IF swapForY THEN bin.y ELSE bin.x

RECURSIVE lfjWalk(_, _, _, _, _, _, _)
(* The walk: every bin that can pay is filled, wholly or by what is left   *)
(* of the input.  The fills [id, in, out] are kept; out of bins is zero.   *)
lfjWalk(pair, swapForY, ref, id, left, out, fills) ==
  LET fee == getTotalFeeU256(pair.fp, pair.binStep,
               updateVolatilityAccumulator(ref.volRef, ref.idRef, id, pair.fp.maxVolAcc))
      next(f, bin) ==
        IF bin \in {0, TreeBits^3 - 1} THEN [out |-> 0, fills |-> <<>>]
        ELSE lfjWalk(pair, swapForY, ref, bin, left - f.in, out + f.out, Append(fills, f))
      then(f) == IF left = f.in THEN [out |-> out + f.out, fills |-> Append(fills, f)]
                 ELSE next(f, IF swapForY THEN lfjV2FindFirstRightU256(DOMAIN pair.bins, id)
                              ELSE lfjV2FindFirstLeftU256(DOMAIN pair.bins, id))
  IN then(Fill(id, left, Paying(lfjV2ReadBinU256(pair, id), swapForY),
               getPriceFromIdU256(id, pair.binStep), fee, swapForY))

QuoteLFJV2Fast(pair, amountIn, swapForY, now) ==
  IF amountIn = 0 THEN [out |-> 0, fills |-> <<>>]
  ELSE lfjWalk(pair, swapForY, updateReferences(pair.fp, pair.active, now), pair.active, amountIn,
               0, <<>>)

\* What a rebasing token has accrued to the pair beyond its reserves.
lfjV2ComputeSurplus(balance, reserve) == IF balance > reserve THEN balance - reserve ELSE 0

\* Construction: surplus is only counted for V2.1 and V2.2.
newLFJV2Pool(pair) ==
  [pair EXCEPT !.surplusX = IF pair.v20 THEN 0 ELSE lfjV2ComputeSurplus(pair.balances.x, pair.reserves.x),
               !.surplusY = IF pair.v20 THEN 0 ELSE lfjV2ComputeSurplus(pair.balances.y, pair.reserves.y)]

\* LFJV2Pool.Quote: the surplus of the token that is sold counts as input.
QuoteLFJ(pair, amountIn, zeroForOne, now) ==
  LET swapForY == zeroForOne = pair.tokenXIsToken0
  IN IF pair.active = 0 THEN [out |-> 0, fills |-> <<>>]
     ELSE QuoteLFJV2Fast(pair, amountIn + (IF swapForY THEN pair.surplusX ELSE pair.surplusY),
                         swapForY, now)
=============================================================================
