---------------------------- MODULE MCPoolQuotes ----------------------------
(***************************************************************************)
(* Small pools: positions between ticks -12 and 12 of about 6% each, words *)
(* of four ticks, and Liquidity Book pairs over 27 bins of 6%.             *)
(***************************************************************************)
EXTENDS PoolQuotes, TLC

MCMagics == <<3864, 3645, 3244, 2569>>
MCRadius == [s \in 1..3 |-> IF s = 1 THEN 2 ELSE 1]

\* The net liquidity of a set of positions [lo, hi, l].
Net(ps) == [t \in {p.lo : p \in ps} \union {p.hi : p \in ps} |->
              MapThenSumSet(LAMBDA p : (IF p.lo = t THEN p.l ELSE 0) - (IF p.hi = t THEN p.l ELSE 0), ps)]

Wide == [lo |-> -12, hi |-> 12, l |-> 40]
Cl0(ps, t, off, s, fee) ==
  [kind |-> "cl", cl |-> [price |-> sqrtRatio[t] + off, tick |-> t, net |-> Net(ps), spacing |-> s,
                          fee |-> fee]]
MCClPools == { Cl0({Wide}, 0, 0, 1, 3), Cl0({Wide}, 3, 5, 3, 10),
               Cl0({[lo |-> -10, hi |-> 10, l |-> 30], [lo |-> -2, hi |-> 2, l |-> 60]}, -1, 3, 2, 5),
               Cl0({[lo |-> -8, hi |-> -4, l |-> 50], [lo |-> 1, hi |-> 6, l |-> 50]}, -5, 2, 1, 3) }

MCFp == [baseFactor |-> 2, filterPeriod |-> 1, decayPeriod |-> 2, reduction |-> 50, vfc |-> 1,
         maxVolAcc |-> 300, volAcc |-> 100, volRef |-> 0, idRef |-> 13, time |-> 0]
Bins0(b) == [kind |-> "lb",
             lb |-> [active |-> 13, binStep |-> 6, fp |-> MCFp, bins |-> b, v20 |-> FALSE,
                     tokenXIsToken0 |-> TRUE, surplusX |-> 0, surplusY |-> 0,
                     reserves |-> [x |-> 40, y |-> 80], balances |-> [x |-> 42, y |-> 80]]]
MCLbPools == { Bins0([id \in {4, 11, 12, 13, 14, 22} |->
                        [x |-> IF id > 13 THEN 15 ELSE IF id = 13 THEN 10 ELSE 0,
                         y |-> IF id < 13 THEN 20 ELSE IF id = 13 THEN 20 ELSE 0]]) }

MCDecimals == [t \in {"USDC", "WAVAX", "BTC", "JOE"} |-> 10]
Info(r, f, g, n) == [reserve |-> r, feeRate |-> f, maxGamma |-> g, maxNotional |-> n]
Price(p, c, s) == [price |-> p, coeff |-> c, spread |-> s]
MCWoo == [kind |-> "woo",
          st |-> [oracle |-> TRUE, quote |-> "USDC",
                  infos |-> "USDC" :> Info(60, 0, 0, 0) @@ "WAVAX" :> Info(50, 5, 30, 100)
                            @@ "BTC" :> Info(20, 10, 0, 0),
                  prices |-> "USDC" :> Price(0, 0, 0) @@ "WAVAX" :> Price(150, 2, 4)
                             @@ "BTC" :> Price(400, 1, 10)]]

Asset(c, l, o, po, sh, v) == [cash |-> c, liab |-> l, oracle |-> o, pooled |-> po, shares |-> sh, vault |-> v]
MCWombat == [kind |-> "wombat",
             st |-> [amp |-> 2, haircut |-> 1, start |-> 150, end |-> 180,
                     assets |-> "WAVAX" :> Asset(60, 60, FALSE, 0, 0, 0)
                                @@ "sAVAX" :> Asset(50, 60, TRUE, 120, 100, 0)
                                @@ "ggAVAX" :> Asset(40, 30, TRUE, 0, 0, 110)]]

Dodo(f, b, q, t, k, i, fee) ==
  [kind |-> "dodo", st |-> [family |-> f, reserves |-> [B |-> b, Q |-> q], targets |-> t, lpFee |-> fee,
                            k |-> k, i |-> i, mins |-> [base |-> 2, quote |-> 1], baseIsToken0 |-> TRUE]]
MCDodos == { Dodo("DVM", 60, 50, [B0 |-> 0, Q0 |-> 0, R |-> "one"], 100, 100, 3),
             Dodo("DSP", 60, 60, [B0 |-> 60, Q0 |-> 60, R |-> "one"], 20, 100, 2),
             Dodo("DPP", 60, 40, [B0 |-> 50, Q0 |-> 50, R |-> "below"], 50, 120, 4),
             Dodo("DPP", 30, 60, [B0 |-> 50, Q0 |-> 50, R |-> "above"], 0, 50, 0) }

MCFees == [own |-> 200, registry |-> 3, pair |-> 0, stable |-> 1, volatile |-> 2]
Solidly(s, r0, r1, d1, packed, less) ==
  [kind |-> "solidly", st |-> [stable |-> s, r0 |-> r0, r1 |-> r1, d0 |-> 10, d1 |-> d1, packed |-> packed,
                               subtractOne |-> less, factory |-> TRUE, fees |-> MCFees]]
MCSolidlys == { Solidly(TRUE, 60, 60, 10, TRUE, FALSE), Solidly(TRUE, 60, 600, 100, FALSE, TRUE),
                Solidly(TRUE, 80, 40, 10, FALSE, FALSE), Solidly(FALSE, 80, 40, 10, FALSE, FALSE) }

MCPools == MCClPools \union MCLbPools \union {MCWoo, MCWombat} \union MCDodos \union MCSolidlys
=============================================================================
