----------------------------- MODULE FormulaV2 -----------------------------
(***************************************************************************)
(* The constant-product pools (formulas/pool_v2.go) and the effect of a    *)
(* swap on the pair contract they quote.  Tokens are naturals, compared as *)
(* the code compares addresses: the smaller one is token0.  The fee base   *)
(* tenK (10000 in the code) is a constant so that TLC's integers suffice.  *)
(***************************************************************************)
EXTENDS Integers

CONSTANT tenK

ASSUME tenKAssumption == tenK \in Nat \ {0}

V2Pool == [reserve0 : Nat, reserve1 : Nat, factor : Nat, balance0 : Nat, balance1 : Nat,
           deadDir0 : BOOLEAN, deadDir1 : BOOLEAN]

\* The pool whose construction failed: every quote is zero (zeroQuoter).
NoPool == [reserve0 |-> 0, reserve1 |-> 0, factor |-> 0, balance0 |-> 0,
           balance1 |-> 0, deadDir0 |-> TRUE, deadDir1 |-> TRUE]

(* Construction from the packed reserves slot: a pool with an empty side   *)
(* is not built.                                                           *)
newV2PoolWithSlot(r0, r1, feeFactor) ==
  IF r0 = 0 \/ r1 = 0 THEN NoPool
  ELSE [reserve0 |-> r0, reserve1 |-> r1, factor |-> feeFactor,
        balance0 |-> 0, balance1 |-> 0, deadDir0 |-> FALSE, deadDir1 |-> FALSE]

\* Fraxswap keeps its fee factor in a slot of its own, checked before use.
newFraxswapPool(r0, r1, fee) ==
  IF fee = 0 \/ fee > tenK THEN NoPool ELSE newV2PoolWithSlot(r0, r1, fee)

\* Selling a token whose transfer reverts is a dead direction.
SetDeadDirs(p, token0, token1, brokenTokens) ==
  [p EXCEPT !.deadDir0 = @ \/ token0 \in brokenTokens,
            !.deadDir1 = @ \/ token1 \in brokenTokens]

\* The balances the EVM caller reports; 0 stands for unknown.
SetTokenBalances(p, b0, b1) == [p EXCEPT !.balance0 = b0, !.balance1 = b1]

\* The constant-product output, dx being the input after the fee.
ProductOut(dx, reserveIn, reserveOut) ==
  IF reserveIn * tenK + dx = 0 THEN 0 ELSE (dx * reserveOut) \div (reserveIn * tenK + dx)

\* Nothing from a dead direction, or beyond a known balance.
Payable(out, dead, balanceOut) ==
  IF dead \/ (balanceOut # 0 /\ out > balanceOut) THEN 0 ELSE out

\* V2Pool.Quote.
QuoteV2(p, amountIn, tokenIn, tokenOut) ==
  IF tokenIn < tokenOut
  THEN Payable(ProductOut(amountIn * p.factor, p.reserve0, p.reserve1), p.deadDir0, p.balance1)
  ELSE Payable(ProductOut(amountIn * p.factor, p.reserve1, p.reserve0), p.deadDir1, p.balance0)

(* The pair after it took amountIn and paid amountOut (the pair contract,  *)
(* which the router's _swapLFJV1 calls); a known balance moves with it.    *)
PairAfter(p, amountIn, amountOut, zeroForOne) ==
  LET d0 == IF zeroForOne THEN amountIn ELSE -amountOut
      d1 == IF zeroForOne THEN -amountOut ELSE amountIn
      moved(b, d) == IF b = 0 THEN 0 ELSE b + d
  IN [p EXCEPT !.reserve0 = @ + d0, !.reserve1 = @ + d1,
               !.balance0 = moved(@, d0), !.balance1 = moved(@, d1)]
=============================================================================
