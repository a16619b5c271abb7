---------------------------- MODULE FormulaDODO ----------------------------
(***************************************************************************)
(* The DODO V2 proactive market maker (formulas/dodo.go, pool_dodo.go).    *)
(* Fixed-point numbers have the unit ONE (1e18).  A contract's storage is  *)
(* [family, reserves, targets, lpFee, k, i, mins, baseIsToken0]; a pool is *)
(* the PMM state the code builds from it.  <<>> is a call that reverts.    *)
(***************************************************************************)
EXTENDS Integers, Sequences

CONSTANT ONE

ASSUME ONEAssumption == ONE \in Nat \ {0}

ONE2 == ONE * ONE

dodoMulFloor(t, d) == (t * d) \div ONE
dodoDivFloor(t, d) == (t * ONE) \div d
dodoDivCeil(t, d) == (t * ONE + d - 1) \div d
dodoReciprocalFloor(t) == ONE2 \div t

\* The Babylonian root of the contract, from above.
dodoSqrt(x) ==
  LET RECURSIVE go(_, _)
      go(y, z) == IF z < y THEN go(z, (x \div z + z) \div 2) ELSE y
  IN IF x = 0 THEN 0 ELSE go(x, x \div 2 + 1)

\* The target V0 from which selling down to V1 has brought delta at price i.
dodoSolveQuadraticForTarget(V1, delta, i, k) ==
  LET root == IF 4 * k * i = 0 THEN ONE ELSE dodoSqrt((4 * k * i * delta) \div V1 + ONE2)
      premium == dodoDivFloor(root - ONE, 2 * k) + ONE
  IN CASE k = 0 -> V1 + dodoMulFloor(i, delta)
       [] k # 0 /\ V1 = 0 -> 0
       [] OTHER -> dodoMulFloor(V1, premium)

\* The target away from equilibrium is recomputed from the other side's.
dodoAdjustedTarget(s) ==
  CASE s.R = "below" -> [s EXCEPT !.Q0 = dodoSolveQuadraticForTarget(s.Q, s.B - s.B0, s.I, s.K)]
    [] s.R = "above" -> [s EXCEPT !.B0 = dodoSolveQuadraticForTarget(s.B, s.Q - s.Q0,
                                             dodoReciprocalFloor(s.I), s.K)]
    [] OTHER -> s

\* What each storage family holds: a DVM has no targets and is always above one.
unpackTargetsAndR(st) ==
  IF st.family = "DVM" THEN [B0 |-> 0, Q0 |-> 0, R |-> "above"] ELSE st.targets

\* The maintainer's fee rate: a quarter of the LP fee, nothing for the DSP layout.
mtFeeRate(st) == IF st.family = "DSP" THEN 0 ELSE (st.lpFee * 25) \div 100

(* FetchDODOState: the family is told by the strings at slots 5 and 8.     *)
FetchDODOState(st) ==
  LET t == unpackTargetsAndR(st)
  IN dodoAdjustedTarget([I |-> st.i, K |-> st.k, B |-> st.reserves.B, Q |-> st.reserves.Q,
                         B0 |-> t.B0, Q0 |-> t.Q0, R |-> t.R,
                         lpFee |-> st.lpFee, mtFee |-> mtFeeRate(st)])

(* i * (V1-V2) * (1 - k + k * V0^2/V1/V2), rounded down; a zero target     *)
(* panics, which Quote turns into zero.                                    *)
dodoGeneralIntegrate(V0, V1, V2, i, k) ==
  LET fair == i * (V1 - V2)
      penalty == dodoMulFloor(k, dodoDivFloor((V0 * V0) \div V1, V2))
  IN CASE V0 = 0 -> <<>>
       [] V0 # 0 /\ k = 0 -> <<fair \div ONE>>
       [] OTHER -> <<((ONE - k + penalty) * fair) \div ONE2>>

(* What a trade of delta at price i takes from a side at V1 with target    *)
(* V0.                                                                     *)
dodoSolveQuadraticForTrade(V0, V1, delta, i, k) ==
  LET linear == dodoMulFloor(i, delta)
      full(temp) == <<(V1 * temp) \div (temp + ONE)>>
      left(V2) == <<IF V2 > V1 THEN 0 ELSE V1 - V2>>
      solved(num) == IF num <= 0 THEN <<>> ELSE left(dodoDivCeil(num, 2 * (ONE - k)))
      rooted(bSig, bAbs, root) == solved(IF bSig THEN root - bAbs ELSE bAbs + root)
      signed(bSig, bAbs) ==
        rooted(bSig, bAbs,
               dodoSqrt(bAbs * bAbs + dodoMulFloor(4 * (ONE - k), dodoMulFloor(k, V0) * V0)))
      curved(part2, b) == signed(b < part2, (IF b < part2 THEN part2 - b ELSE b - part2) \div ONE)
  IN CASE V0 = 0 -> <<>>
       [] V0 # 0 /\ delta = 0 -> <<0>>
       [] V0 # 0 /\ delta # 0 /\ k = 0 -> <<IF linear > V1 THEN V1 ELSE linear>>
       [] V0 # 0 /\ delta # 0 /\ k = ONE -> full((i * delta * V1) \div (V0 * V0))
       [] OTHER -> curved(((k * V0) \div V1) * V0 + i * delta, (ONE - k) * V1)

\* Mutant: past equilibrium only the second part is paid.
BackToOneForgets(pay, payBack, receiveBack, before, after) ==
  CASE pay < payBack -> IF before # <<>> /\ before[1] > receiveBack THEN <<receiveBack>> ELSE before
    [] pay = payBack -> <<receiveBack>>
    [] OTHER -> after

(* A trade that leads back towards equilibrium: before it on the old side  *)
(* and never beyond what equilibrium gives, after it on the other side.    *)
BackToOne(pay, payBack, receiveBack, before, after) ==
  CASE pay < payBack -> IF before # <<>> /\ before[1] > receiveBack THEN <<receiveBack>> ELSE before
    [] pay = payBack -> <<receiveBack>>
    [] OTHER -> IF after = <<>> THEN <<>> ELSE <<receiveBack + after[1]>>

dodoROneSellBaseToken(s, pay) == dodoSolveQuadraticForTrade(s.Q0, s.Q0, pay, s.I, s.K)
dodoROneSellQuoteToken(s, pay) ==
  dodoSolveQuadraticForTrade(s.B0, s.B0, pay, dodoReciprocalFloor(s.I), s.K)
dodoRBelowSellBaseToken(s, pay) == dodoSolveQuadraticForTrade(s.Q0, s.Q, pay, s.I, s.K)
dodoRBelowSellQuoteToken(s, pay) ==
  dodoGeneralIntegrate(s.Q0, s.Q + pay, s.Q, dodoReciprocalFloor(s.I), s.K)
dodoRAboveSellBaseToken(s, pay) == dodoGeneralIntegrate(s.B0, s.B + pay, s.B, s.I, s.K)
dodoRAboveSellQuoteToken(s, pay) ==
  dodoSolveQuadraticForTrade(s.B0, s.B, pay, dodoReciprocalFloor(s.I), s.K)

dodoSellBaseToken(s, pay) ==
  CASE s.R = "one" -> dodoROneSellBaseToken(s, pay)
    [] s.R = "above" -> BackToOne(pay, s.B0 - s.B, s.Q - s.Q0, dodoRAboveSellBaseToken(s, pay),
                                  dodoROneSellBaseToken(s, pay - (s.B0 - s.B)))
    [] s.R = "below" -> dodoRBelowSellBaseToken(s, pay)

dodoSellQuoteToken(s, pay) ==
  CASE s.R = "one" -> dodoROneSellQuoteToken(s, pay)
    [] s.R = "above" -> dodoRAboveSellQuoteToken(s, pay)
    [] s.R = "below" -> BackToOne(pay, s.Q0 - s.Q, s.B - s.B0, dodoRBelowSellQuoteToken(s, pay),
                                  dodoROneSellQuoteToken(s, pay - (s.Q0 - s.Q)))

\* What the two fees leave; both are taken from the same amount.
AfterFees(s, r) == r - dodoMulFloor(r, s.lpFee) - (IF s.mtFee > 0 THEN dodoMulFloor(r, s.mtFee) ELSE 0)

QuoteDODO(s, amountIn, sellBase) ==
  LET paid(r) == IF r = <<>> THEN 0 ELSE AfterFees(s, r[1])
  IN paid(IF sellBase THEN dodoSellBaseToken(s, amountIn) ELSE dodoSellQuoteToken(s, amountIn))

\* newDODOPool: the state, and the minimum amounts of the families that have them.
newDODOPool(st) ==
  [s |-> FetchDODOState(st), baseIsToken0 |-> st.baseIsToken0,
   mins |-> IF st.family = "DVM" THEN [base |-> 0, quote |-> 0] ELSE st.mins]

\* DODOPool.Quote: nothing below the minimum; a negative result is nothing.
QuoteDODOPool(p, amountIn, zeroForOne) ==
  LET sellBase == zeroForOne = p.baseIsToken0
      some(out) == IF out < 0 THEN 0 ELSE out
  IN IF amountIn < (IF sellBase THEN p.mins.base ELSE p.mins.quote) THEN 0
     ELSE some(QuoteDODO(p.s, amountIn, sellBase))
=============================================================================
