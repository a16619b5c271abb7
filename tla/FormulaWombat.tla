---------------------------- MODULE FormulaWombat ----------------------------
(***************************************************************************)
(* Wombat dynamic pools (formulas/wombat.go): a quadratic in the coverage  *)
(* ratios cash/liability of two assets.  Fixed-point numbers have the unit *)
(* wad, with rounding to the nearest.  A pool's storage is [amp, haircut,  *)
(* start, end, assets], an asset [cash, liab, oracle, pooled, shares,      *)
(* vault]: the price sources that getRelativePrice asks.                   *)
(***************************************************************************)
EXTENDS Integers, Sequences

CONSTANTS wad, SqrtRounds

ASSUME wadAssumption == wad \in Nat \ {0} /\ SqrtRounds \in Nat \ {0}

wMul(x, y) == (IF x * y >= 0 THEN x * y + wad \div 2 ELSE x * y - wad \div 2) \div wad

wDiv(x, y) == IF y = 0 THEN 0
              ELSE (IF x >= 0 THEN x * wad + y \div 2 ELSE x * wad - y \div 2) \div y

\* Mutant: stops when the root no longer falls.
wombatSqrtFalling(y, guess) ==
  LET z0 == IF guess # 0 /\ (IF guess < 0 THEN -guess ELSE guess) <= y
            THEN (IF guess < 0 THEN -guess ELSE guess) ELSE y
      RECURSIVE go(_, _, _)
      go(z, x, n) == IF x >= z THEN <<z>> ELSE IF n = 0 THEN <<>> ELSE go(x, (y \div x + x) \div 2, n - 1)
  IN IF y <= 3 THEN <<IF y <= 0 THEN 0 ELSE 1>> ELSE go(z0, (y \div z0 + z0) \div 2, SqrtRounds)

(* The Babylonian root from a guess, until two values in a row are equal.  *)
(* <<>> if that has not happened in SqrtRounds rounds.                     *)
wombatSqrt(y, guess) ==
  LET z0 == IF guess # 0 /\ (IF guess < 0 THEN -guess ELSE guess) <= y
            THEN (IF guess < 0 THEN -guess ELSE guess) ELSE y
      RECURSIVE go(_, _, _)
      go(z, x, n) == IF x = z THEN <<z>> ELSE IF n = 0 THEN <<>> ELSE go(x, (y \div x + x) \div 2, n - 1)
  IN IF y <= 3 THEN <<IF y <= 0 THEN 0 ELSE 1>> ELSE go(z0, (y \div z0 + z0) \div 2, SqrtRounds)

\* x^2 + b x = c.
wombatSolveQuad(b, c) ==
  LET half(r) == IF r = <<>> THEN <<>> ELSE <<(r[1] - b) \div 2>>
  IN half(wombatSqrt(b * b + 4 * c * wad, b))

\* What leaves the second asset when Dx enters the first; 0 stands for nil.
wombatSwapQuoteFunc(Ax, Ay, Lx, Ly, Dx, A) ==
  LET D == Ax + Ay - wMul(A, (Lx * Lx) \div Ax + (Ly * Ly) \div Ay)
      paid(Dy) == IF Dy >= 0 THEN <<0>> ELSE <<-Dy>>
      at(ry) == IF ry = <<>> THEN <<>>
                ELSE IF ry[1] <= 0 THEN <<0>> ELSE paid(wMul(Ly, ry[1]) - Ay)
      with(rx) == IF rx <= 0 THEN <<0>>
                  ELSE at(wombatSolveQuad((Lx * (rx - wDiv(A, rx))) \div Ly - wDiv(D, Ly), A))
  IN IF Lx <= 0 \/ Ax <= 0 THEN <<0>> ELSE with(wDiv(Ax + Dx, Lx))

\* The fee on pushing an asset's coverage above start.
wombatHighCovRatioFee(init, final, start, end) ==
  LET a == IF init <= start THEN 0 ELSE wMul(init - start, init - start)
      b == wMul(final - start, final - start)
  IN IF final <= start \/ final <= init \/ end <= start THEN 0
     ELSE wDiv(wDiv(b - a, final - init) \div 2, end - start)

(* The relative price of an asset: one without an oracle, the staking      *)
(* pool's if its two slots are set, the vault's answer if the call works.  *)
getRelativePrice(a) ==
  CASE ~a.oracle -> wad
    [] a.oracle /\ a.pooled > 0 /\ a.shares > 0 -> wDiv(a.pooled, a.shares)
    [] OTHER -> IF a.vault > 0 THEN a.vault ELSE wad

quoteFactor(from, to) ==
  IF getRelativePrice(to) <= 0 THEN wad ELSE wDiv(getRelativePrice(from), getRelativePrice(to))

newWombatPool(st) == IF st.amp = 0 \/ st.start = 0 \/ st.end = 0 THEN <<>> ELSE <<st>>

(* The ideal amount less the haircut and, when the coverage ends above     *)
(* start, the fee on that; nothing beyond the cash or the coverage limit.  *)
WombatPaid(p, ideal, cash, init, final) ==
  LET some(out) == IF out <= 0 THEN 0 ELSE out
      less(actual, fee) == IF final > p.start /\ fee > 0 THEN actual - wMul(fee, actual) ELSE actual
      of(actual) == IF actual <= 0 THEN 0
                    ELSE some(less(actual, wombatHighCovRatioFee(init, final, p.start, p.end)))
  IN IF ideal <= 0 \/ ideal > cash \/ final > p.end THEN 0 ELSE of(ideal - wMul(ideal, p.haircut))

(* WombatPool.Quote, assets read at quote time; <<>> if it does not return. *)
QuoteWombat(p, amt, tokenIn, tokenOut) ==
  LET paid(from, to, ideal) ==
        IF ideal = <<>> THEN <<>>
        ELSE <<WombatPaid(p, ideal[1], to.cash, wDiv(from.cash, from.liab),
                          wDiv(from.cash + amt, from.liab))>>
      between(from, to, f) ==
        paid(from, to, wombatSwapQuoteFunc(wMul(from.cash, f), to.cash, wMul(from.liab, f), to.liab,
                                           wMul(amt, f), p.amp))
      swap(from, to) == IF 0 \in {from.cash, from.liab, to.cash, to.liab} THEN <<0>>
                        ELSE between(from, to, quoteFactor(from, to))
  IN IF amt = 0 \/ ~({tokenIn, tokenOut} \subseteq DOMAIN p.assets) THEN <<0>>
     ELSE swap(p.assets[tokenIn], p.assets[tokenOut])
=============================================================================
