------------------------------ MODULE TickMath ------------------------------
(***************************************************************************)
(* Prices, ticks and the swap step shared by the concentrated-liquidity    *)
(* pools (formulas/shared.go, shared_u256.go, v3.go).  Q96, Q32 and the    *)
(* magic numbers scale the code's fixed point down to TLC's integers: a    *)
(* word holds Q128 * Q128 values, as 2^256 = 2^128 * 2^128 does.           *)
(***************************************************************************)
EXTENDS Integers, Sequences, SequencesExt

CONSTANTS Q96, Q32,     \* 2^96 and 2^32
          Magics,       \* the ratio of 2^(i-1) ticks, in units of 1/Q128
          MaxTick,      \* algebraMaxTick; algebraMinTick is its negation
          Mil           \* the fee denominator, 1e6

ASSUME TickMathAssumption ==
  /\ {Q96, Q32, MaxTick, Mil} \subseteq Nat \ {0}
  /\ MaxTick < 2^Len(Magics)

Q128 == Q96 * Q32
MaxU == Q128 * Q128 - 1
MinTick == -MaxTick
Abs(n) == IF n < 0 THEN -n ELSE n
Bit(n, i) == (n \div 2^i) % 2 = 1

\* The product of the magics of the set bits, inverted for positive ticks, rounded up.
getSqrtRatioAtTickU256Compute(tick) ==
  LET times(acc, i) == IF Bit(Abs(tick), i - 1) THEN (acc * Magics[i]) \div Q128 ELSE acc
      up(down) == IF tick > 0 THEN MaxU \div down ELSE down
      rounded(ratio) == (ratio \div Q32) + (IF ratio % Q32 # 0 THEN 1 ELSE 0)
  IN rounded(up(FoldLeft(times, Q128, [i \in DOMAIN Magics |-> i])))

\* The table of prices: every entry is computed once and kept.
sqrtRatio == [t \in MinTick..MaxTick |-> getSqrtRatioAtTickU256Compute(t)]
MinSqr == sqrtRatio[MinTick]
MaxSqr == sqrtRatio[MaxTick]

\* The tick a price lies in: the code brackets it by a logarithm and picks one.
getTickAtSqrtRatioU256(price) == Max({t \in MinTick..MaxTick : sqrtRatio[t] <= price})
-----------------------------------------------------------------------------
\* The quotient is exact; MulDivOverflow keeps 512 bits.
mulDivU256(a, b, denom) == (a * b) \div denom

\* The remainder is taken from the product as it fits in one word.
mulDivRoundingUpU256(a, b, denom) ==
  mulDivU256(a, b, denom) + (IF ((a * b) % (MaxU + 1)) % denom # 0 THEN 1 ELSE 0)

\* The big.Int version rounds by the exact remainder.
mulDivRoundingUp(a, b, denominator) ==
  ((a * b) \div denominator) + (IF (a * b) % denominator # 0 THEN 1 ELSE 0)

unsafeDivRoundingUpU256(a, denom) == (a \div denom) + (IF a % denom # 0 THEN 1 ELSE 0)

\* The code has the functions below once over uint256 words, once over big.Int.
RoundUp(word, a, b, denom) ==
  IF word THEN mulDivRoundingUpU256(a, b, denom) ELSE mulDivRoundingUp(a, b, denom)

\* Amounts of token 0 and token 1 between two prices.
sGetAmount0Delta(word, x, y, liquidity, roundUp) ==
  LET between(a, b, n1) ==
        IF roundUp THEN unsafeDivRoundingUpU256(RoundUp(word, n1, b - a, b), a)
        ELSE mulDivU256(n1, b - a, b) \div a
  IN between(Min({x, y}), Max({x, y}), liquidity * Q96)

sGetAmount1Delta(word, x, y, liquidity, roundUp) ==
  IF roundUp THEN RoundUp(word, liquidity, Abs(x - y), Q96) ELSE mulDivU256(liquidity, Abs(x - y), Q96)

\* A sum that wraps around when it is kept in a word.
WordSum(word, a, b) == IF word THEN (a + b) % (MaxU + 1) ELSE a + b

sGetNextSqrtPriceFromInput(word, price, liquidity, amountIn, zeroForOne) ==
  IF zeroForOne
  THEN IF amountIn = 0 THEN price
       ELSE RoundUp(word, liquidity * Q96, price, WordSum(word, liquidity * Q96, amountIn * price))
  ELSE WordSum(word, price, mulDivU256(amountIn, Q96, liquidity))

\* Selling token 0 has a second form for products that leave the word.
v3GetNextPriceFromInput(word, price, liquidity, amountIn, zeroForOne) ==
  IF zeroForOne /\ amountIn * price > MaxU
  THEN unsafeDivRoundingUpU256(liquidity * Q96, (liquidity * Q96) \div price + amountIn)
  ELSE sGetNextSqrtPriceFromInput(word, price, liquidity, amountIn, zeroForOne)

\* What a move from one price to another takes in, and what it pays.
InTo(word, zeroForOne, current, x, liquidity) ==
  IF zeroForOne THEN sGetAmount0Delta(word, x, current, liquidity, TRUE)
  ELSE sGetAmount1Delta(word, current, x, liquidity, TRUE)

OutTo(word, zeroForOne, current, x, liquidity) ==
  IF zeroForOne THEN sGetAmount1Delta(word, x, current, liquidity, FALSE)
  ELSE sGetAmount0Delta(word, current, x, liquidity, FALSE)

(* One step towards a target price: reach it if the input less the fee     *)
(* suffices, else spend all of the input, the rest of it being the fee.    *)
computeSwapStepWith(word, current, target, liquidity, remaining, fee) ==
  LET zeroForOne == current >= target
      next(lessFee) ==
        IF lessFee >= InTo(word, zeroForOne, current, target, liquidity) THEN target
        ELSE v3GetNextPriceFromInput(word, current, liquidity, lessFee, zeroForOne)
      moved(price, in) ==
        [price |-> price, in |-> in, out |-> OutTo(word, zeroForOne, current, price, liquidity),
         fee |-> IF price = target THEN RoundUp(word, in, fee, Mil - fee) ELSE remaining - in]
      to(price) == moved(price, InTo(word, zeroForOne, current, price, liquidity))
  IN to(next(mulDivU256(remaining, Mil - fee, Mil)))

computeSwapStepU256(current, target, liquidity, remaining, fee) ==
  computeSwapStepWith(TRUE, current, target, liquidity, remaining, fee)

computeSwapStep(current, target, liquidity, remaining, fee) ==
  computeSwapStepWith(FALSE, current, target, liquidity, remaining, fee)

\* The price limit of a swap, and the target of a step: the next tick within the limit.
PriceLimit(zeroForOne) == IF zeroForOne THEN MinSqr + 1 ELSE MaxSqr - 1
StepTarget(zeroForOne, tickPrice) ==
  IF zeroForOne THEN Max({tickPrice, PriceLimit(TRUE)}) ELSE Min({tickPrice, PriceLimit(FALSE)})
Clamp(tick) == Max({MinTick, Min({MaxTick, tick})})
=============================================================================
