--------------------------- MODULE MCSplitRouting ---------------------------
(***************************************************************************)
(* Three tokens and six pool lines, one of them malformed; the reserves,   *)
(* the map order, the reverting pool and the amount vary.                  *)
(***************************************************************************)
EXTENDS SplitRouting

\* The pool list: the head block, five pools, and one line without a second token.
MCLines == << [fields |-> 1, typeOk |-> FALSE, tokens |-> <<>>],
              [fields |-> 6, typeOk |-> TRUE, tokens |-> <<1, 2>>],
              [fields |-> 6, typeOk |-> TRUE, tokens |-> <<1, 2>>],
              [fields |-> 5, typeOk |-> TRUE, tokens |-> <<1>>],
              [fields |-> 6, typeOk |-> TRUE, tokens |-> <<2, 3>>],
              [fields |-> 6, typeOk |-> TRUE, tokens |-> <<2, 3>>],
              [fields |-> 6, typeOk |-> TRUE, tokens |-> <<1, 3>>] >>

MCParsed == ParsePools(MCLines, 0)
MCAdj == [t \in 1..3 |-> BuildAdjacency(MCParsed, 1..5, t)]

Pair(r0, r1) == newV2PoolWithSlot(r0, r1, tenK - 3)

\* A Fraxswap pair of tokens 2 and 3 whose token 3 cannot be sold, and a pair with a
\* balance of token 3 below its reserve.
OneWay(r0, r1) == SetDeadDirs(newFraxswapPool(r0, r1, tenK - 3), 2, 3, {3})
Short(r0, r1, b1) == SetTokenBalances(Pair(r0, r1), r0, b1)

\* Two families of reserves: uneven pools, one of them possibly empty, and even ones.
MCReserves == { <<Pair(600, 500), Pair(r, 900), Pair(700, s), Pair(400, 500), Pair(400, 900)>> :
                  r \in {0, 300}, s \in {300, 1000} }
              \union
              { <<Pair(a, 700), Pair(600, 600), Pair(700, 500), OneWay(600, q), Short(400, 100, 40)>> :
                  a \in {500, 650}, q \in {450, 800} }

MCParams == { [adj |-> MCAdj, tokenIn |-> 1, tokenOut |-> t, maxHops |-> h, order |-> o,
               reverting |-> rv, sender |-> [u \in 1..3 |-> 1000]] :
                t \in {1, 3}, h \in {2, 3}, o \in {<<1, 2, 3>>, <<3, 2, 1>>}, rv \in {{}, {3}} }

\* Pool 4 is a V4 line without a key, pool 5 one with a negative tick spacing.
MCPoolInfo == [i \in 1..5 |-> [type  |-> IF i \in {4, 5} THEN 9 ELSE 0,
                               extra |-> IF i = 5 THEN <<30, -2, 7>> ELSE <<>>]]

MCFront == <<4, 3, 2, 2, 1, 1, 1, 1>>
MCGradual == <<3, 3, 2, 2>>
MCShuffle2 == <<3, 2, 1, 3, 2, 1>>

MCScenarios == [p : MCParams, ps : MCReserves, amountIn : {7, 60, 230}]
=============================================================================
