---------------------------- MODULE FormulaWooFi ----------------------------
(***************************************************************************)
(* WooFi V2 (formulas/woofi.go): an oracle-priced pool of one quote token  *)
(* and several base tokens.  Its storage is [oracle, quote, infos, prices],*)
(* infos and prices per token; everything but the oracle and the quote     *)
(* token is read at quote time.  0 is the quote of a swap that reverts.    *)
(***************************************************************************)
EXTENDS Integers, Sequences

CONSTANTS woo1e18, wooPriceDec, wooFeeBase,
          wooTokenDecimals,   \* known tokens: 10^decimals
          wooActiveTokens, wooNative, wooWavax

ASSUME wooAssumption == woo1e18 \in Nat \ {0} /\ wooPriceDec \in Nat \ {0} /\ wooFeeBase \in Nat \ {0}

\* The part of 1 that the spread and the size of the trade leave.
Coef(gamma, spread) == woo1e18 - gamma - spread

\* base -> quote and quote -> base at a price: the amount and gamma.
wooCalcQuoteAmountSellBase(amt, pr, spread, baseDec, quoteDec) ==
  LET gamma == ((pr.coeff * amt * pr.price) \div baseDec) \div wooPriceDec
      worth == (amt * quoteDec * pr.price) \div wooPriceDec
  IN [gamma |-> gamma, out |-> IF Coef(gamma, spread) <= 0 THEN 0
                               ELSE ((worth * Coef(gamma, spread)) \div woo1e18) \div baseDec]

wooCalcBaseAmountSellQuote(amt, pr, spread, baseDec, quoteDec) ==
  LET gamma == (amt * pr.coeff) \div quoteDec
      worth == (amt * baseDec * wooPriceDec) \div pr.price
  IN [gamma |-> gamma, out |-> IF Coef(gamma, spread) <= 0 THEN 0
                               ELSE ((worth * Coef(gamma, spread)) \div woo1e18) \div quoteDec]

\* The limits of a token; 0 is no limit.
Within(info, r, notional) == /\ r.out > 0
                             /\ info.maxGamma > 0 => r.gamma <= info.maxGamma
                             /\ info.maxNotional > 0 => notional <= info.maxNotional

\* An amount without its fee.
LessFee(amt, feeRate) == amt - (amt * feeRate) \div wooFeeBase

\* Mutant: a reserve bounds nothing.
CoveredAlways(reserve, out) == TRUE

Covered(reserve, out) == out <= reserve

\* base -> quote.  An empty quote reserve bounds nothing.
sellBase(p, base, amt) ==
  LET pr == p.prices[base]
      i == p.infos[base]
      r == wooCalcQuoteAmountSellBase(amt, pr, pr.spread, wooTokenDecimals[base], wooTokenDecimals[p.quote])
      out == LessFee(r.out, i.feeRate)
  IN IF pr.price = 0 \/ i.reserve = 0 THEN 0
     ELSE IF ~Within(i, r, r.out) THEN 0
     ELSE IF p.infos[p.quote].reserve > 0 /\ ~Covered(p.infos[p.quote].reserve, out) THEN 0 ELSE out

\* quote -> base, the fee first.
sellQuote(p, base, amt) ==
  LET pr == p.prices[base]
      i == p.infos[base]
      paid == LessFee(amt, i.feeRate)
      r == wooCalcBaseAmountSellQuote(paid, pr, pr.spread, wooTokenDecimals[base], wooTokenDecimals[p.quote])
  IN IF i.reserve = 0 \/ paid <= 0 \/ pr.price = 0 THEN 0
     ELSE IF ~Within(i, r, paid) \/ ~Covered(i.reserve, r.out) THEN 0 ELSE r.out

(* base -> base through the quote token, with the larger fee and half the  *)
(* larger spread on both sides.                                            *)
baseToBase(p, b1, b2, amt) ==
  LET i1 == p.infos[b1]
      i2 == p.infos[b2]
      larger(x, y) == IF y > x THEN y ELSE x
      spread == larger(p.prices[b1].spread, p.prices[b2].spread) \div 2
      q == wooCalcQuoteAmountSellBase(amt, p.prices[b1], spread, wooTokenDecimals[b1],
                                      wooTokenDecimals[p.quote])
      paid == LessFee(q.out, larger(i1.feeRate, i2.feeRate))
      r == wooCalcBaseAmountSellQuote(paid, p.prices[b2], spread, wooTokenDecimals[b2],
                                      wooTokenDecimals[p.quote])
  IN IF p.prices[b1].price = 0 \/ p.prices[b2].price = 0 \/ i1.reserve = 0 \/ i2.reserve = 0 THEN 0
     ELSE IF ~Within(i1, q, q.out) \/ paid <= 0 THEN 0
     ELSE IF ~Within(i2, r, paid) \/ ~Covered(i2.reserve, r.out) THEN 0 ELSE r.out

\* Construction needs an oracle and a quote token of known decimals.
newWooFiPool(st) == IF st.oracle /\ st.quote \in DOMAIN wooTokenDecimals THEN <<st>> ELSE <<>>

\* The router wraps the native token on the way in and cannot unwrap it on the way out.
QuoteWooFi(p, amt, tokenIn, tokenOut) ==
  LET in == IF tokenIn = wooNative THEN wooWavax ELSE tokenIn
  IN IF amt = 0 \/ tokenOut = wooNative \/ in = tokenOut \/ ~({in, tokenOut} \subseteq wooActiveTokens) THEN 0
     ELSE IF in = p.quote THEN sellQuote(p, tokenOut, amt)
     ELSE IF tokenOut = p.quote THEN sellBase(p, in, amt)
     ELSE baseToBase(p, in, tokenOut, amt)
=============================================================================
