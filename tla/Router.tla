------------------------------- MODULE Router -------------------------------
(***************************************************************************)
(* HayabusaRouter.swap (contracts/HayabusaRouter.sol): a program of swap   *)
(* legs executed against the pools and the router's own token balances.    *)
(* A leg is [pool, tokenIn, tokenOut]; the pools are pairs (FormulaV2).    *)
(* An execution is [ok, pools, bal]: ok is FALSE after a revert.           *)
(***************************************************************************)
EXTENDS FormulaV2, Sequences, SequencesExt

CONSTANTS Tokens, Pools

ASSUME TokensAssumption == Tokens \subseteq Nat

Leg(pool, tokenIn, tokenOut) ==
  [pool |-> pool, tokenIn |-> tokenIn, tokenOut |-> tokenOut]

\* The execution after a leg that took amt and paid out: a pair reverts on zero.
AfterLeg(ex, leg, amt, out) ==
  IF out = 0 THEN [ex EXCEPT !.ok = FALSE]
  ELSE [ok |-> TRUE,
        pools |-> [ex.pools EXCEPT ![leg.pool] =
                     PairAfter(@, amt, out, leg.tokenIn < leg.tokenOut)],
        bal |-> [ex.bal EXCEPT ![leg.tokenIn] = @ - amt, ![leg.tokenOut] = @ + out]]

(* _swapLeg for a pair: transfer the input, compute the output from the    *)
(* reserves, swap.                                                         *)
_swapLeg(ex, leg, amt) ==
  IF ~ex.ok THEN ex
  ELSE AfterLeg(ex, leg, amt, QuoteV2(ex.pools[leg.pool], amt, leg.tokenIn, leg.tokenOut))

(* What a leg consumes: the whole balance when its amount is 0, otherwise  *)
(* the amount, capped at the balance.                                      *)
LegAmount(bal, amt) == IF amt = 0 \/ bal < amt THEN bal ELSE amt

\* The legs of a program, one after another.
_executeSwapInner(ex, steps, amounts) ==
  FoldLeft(LAMBDA e, i : _swapLeg(e, steps[i], LegAmount(e.bal[steps[i].tokenIn], amounts[i])),
           ex, [i \in 1..Len(steps) |-> i])

\* The input pulled from the sender: every explicit amount of the first token.
TotalIn(steps, amounts) ==
  FoldLeft(LAMBDA t, i : IF steps[i].tokenIn = steps[1].tokenIn THEN t + amounts[i] ELSE t,
           0, [i \in 1..Len(steps) |-> i])

\* A reverted call: nothing moved.
Reverted(pools, sender) ==
  [ok |-> FALSE, amountOut |-> 0, pools |-> pools, left |-> [t \in Tokens |-> 0], sender |-> sender]

(* The end of swap(): the router's tokenOut balance goes to the sender,    *)
(* whose balance may not have grown by less than minOutput.                *)
Settle(ex, tokenOut, minOutput, pulled, pools, sender) ==
  IF ~ex.ok \/ ex.bal[tokenOut] < minOutput THEN Reverted(pools, sender)
  ELSE [ok |-> TRUE, amountOut |-> ex.bal[tokenOut], pools |-> ex.pools,
        left |-> [ex.bal EXCEPT ![tokenOut] = 0],
        sender |-> [pulled EXCEPT ![tokenOut] = @ + ex.bal[tokenOut]]]

(* swap(): pull the input, snapshot the sender's tokenOut balance, execute *)
(* the legs, send the router's tokenOut balance to the sender, and return  *)
(* the signed change of the sender's tokenOut balance since the snapshot.  *)
swap(pools, steps, amounts, minOutput, sender) ==
  LET tokenIn == steps[1].tokenIn
      run(totalIn) ==
        IF amounts[1] = 0 \/ sender[tokenIn] < totalIn THEN Reverted(pools, sender)
        ELSE Settle(_executeSwapInner(
                      [ok |-> TRUE, pools |-> pools,
                       bal |-> [t \in Tokens |-> IF t = tokenIn THEN totalIn ELSE 0]],
                      steps, amounts),
                    steps[Len(steps)].tokenOut, minOutput,
                    [sender EXCEPT ![tokenIn] = @ - totalIn], pools, sender)
  IN run(TotalIn(steps, amounts))
=============================================================================
