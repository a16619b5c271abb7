-------------------------- MODULE FormulaPharaohV1 --------------------------
(***************************************************************************)
(* The Pharaoh V1 pairs, a Solidly fork (formulas/pharaoh_v1.go,           *)
(* pool_pharaoh_v1.go): constant-product pairs and pairs on the curve      *)
(* x^3 y + y^3 x = k, solved by Newton's method.  e18 is the unit of the   *)
(* normalised reserves, U256 bounds a uint256.  A pair's storage is        *)
(* [stable, r0, r1, d0, d1, packed, subtractOne, fees], d the 10^decimals. *)
(***************************************************************************)
EXTENDS Integers, Sequences

CONSTANTS e18, U256, feeBase, NewtonRounds

ASSUME e18Assumption == e18 \in Nat \ {0} /\ U256 \in Nat \ {0} /\ feeBase \in Nat \ {0}

Norm(r, d) == (r * e18) \div d

\* The factored and the expanded form of the curve; <<>> if the product overflows.
pharaohF(x, y) ==
  LET product(a, b) == IF b # 0 /\ a >= (U256 + b - 1) \div b THEN <<>> ELSE <<(a * b) \div e18>>
  IN product((x * y) \div e18, (x * x) \div e18 + (y * y) \div e18)

pharaohFExpanded(x, y) ==
  LET cube(u) == (((u * u) \div e18) * u) \div e18
  IN <<(cube(x) * y) \div e18 + (cube(y) * x) \div e18>>

\* The invariant of the reserves.
kStable(p) ==
  LET k(x, y) == (((x * y) \div e18) * ((x * x) \div e18 + (y * y) \div e18)) \div e18
  IN k(Norm(p.r0, p.d0), Norm(p.r1, p.d1))

\* Mutant: the factor 3 is lost.
pharaohDLess(x, y) == (x * ((y * y) \div e18)) \div e18 + (((x * x) \div e18) * x) \div e18

\* The derivative of the curve in y.
pharaohD(x, y) == (3 * x * ((y * y) \div e18)) \div e18 + (((x * x) \div e18) * x) \div e18

RECURSIVE Newton(_, _, _, _, _)
(* Newton's method from y: <<>> on overflow or when it does not settle in  *)
(* n rounds.                                                               *)
Newton(x, xy, expanded, y, n) ==
  LET to(dy, next) == IF dy = 0 THEN <<y>>
                      ELSE IF next - y \in -1..1 THEN <<next>>
                      ELSE Newton(x, xy, expanded, next, n - 1)
      move(k, dy) == to(dy, IF k < xy THEN y + dy ELSE IF dy > y THEN 0 ELSE y - dy)
      by(k, d) == IF d = 0 THEN <<y>>
                  ELSE move(k, ((IF k < xy THEN xy - k ELSE k - xy) * e18) \div d)
      at(k) == IF k = <<>> THEN <<>> ELSE by(k[1], pharaohD(x, y))
  IN IF n = 0 THEN <<>> ELSE at(IF expanded THEN pharaohFExpanded(x, y) ELSE pharaohF(x, y))

getY(x, xy, y0, expanded) == Newton(x, xy, expanded, y0, NewtonRounds)

getAmountOutVolatile(p, in, zeroForOne) ==
  LET a == IF zeroForOne THEN p.r0 ELSE p.r1
      b == IF zeroForOne THEN p.r1 ELSE p.r0
  IN (in * b) \div (a + in)

(* The stable curve in normalised amounts; 0 stands for the nil of a swap  *)
(* that would revert.                                                      *)
getAmountOutStable(p, in, zeroForOne) ==
  LET paid(b, y, dOut, reserve) ==
        LET dy == ((b - y) * dOut) \div e18
        IN IF y = 0 \/ y > b \/ dy >= reserve THEN 0 ELSE dy
      with(b, y, dOut, reserve) == IF y = <<>> THEN 0 ELSE paid(b, y[1], dOut, reserve)
      sell(a, b, dIn, dOut, reserve) ==
        with(b, getY(Norm(in, dIn) + a, kStable(p), b, p.expandedF), dOut, reserve)
  IN IF zeroForOne THEN sell(Norm(p.r0, p.d0), Norm(p.r1, p.d1), p.d0, p.d1, p.r1)
     ELSE sell(Norm(p.r1, p.d1), Norm(p.r0, p.d0), p.d1, p.d0, p.r0)

(* The input after the fee, rounded in the trader's favour.                *)
AdjustedIn(p, amountIn) == amountIn - (amountIn * p.feeBps) \div feeBase

pharaohGetAmountOut(p, in, zeroForOne) ==
  IF p.stable THEN getAmountOutStable(p, in, zeroForOne) ELSE getAmountOutVolatile(p, in, zeroForOne)

\* QuotePharaohV1: some forks pay one unit less.
QuotePharaohV1(p, amountIn, zeroForOne) ==
  LET less(out) == IF p.subtractOne /\ out # 0 THEN out - 1 ELSE out
  IN less(pharaohGetAmountOut(p, AdjustedIn(p, amountIn), zeroForOne))

(* The fee: a packed pair keeps its own, in millionths; a pair behind the  *)
(* factory has the factory's for the pair or its default for the curve; a  *)
(* zero always means that the next source is asked.                        *)
FeeBps(st) ==
  LET fac == IF st.stable THEN st.fees.stable ELSE st.fees.volatile
  IN CASE st.packed -> IF st.fees.own = 0 THEN st.fees.registry ELSE st.fees.own \div 100
       [] ~st.packed /\ st.factory -> IF st.fees.pair # 0 THEN st.fees.pair
                                      ELSE IF fac # 0 THEN fac ELSE st.fees.registry
       [] OTHER -> st.fees.registry

FetchPharaohV1StateStorage(st) ==
  [stable |-> st.stable, r0 |-> st.r0, r1 |-> st.r1, d0 |-> st.d0, d1 |-> st.d1,
   feeBps |-> FeeBps(st), subtractOne |-> st.subtractOne, expandedF |-> st.stable /\ st.packed]

\* Construction fails on an empty side.
newPharaohV1Pool(st) ==
  IF st.r0 = 0 \/ st.r1 = 0 THEN <<>> ELSE <<FetchPharaohV1StateStorage(st)>>
=============================================================================
