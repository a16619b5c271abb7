---------------------------- MODULE SplitRouting ----------------------------
(***************************************************************************)
(* One quote with split routing, from the request to the router program:   *)
(* the routes found, the split of the input by one of the strategies, and  *)
(* the single swap() call the legs are merged into, executed on the state  *)
(* the quote was made on.                                                  *)
(***************************************************************************)
EXTENDS Splitters, Calldata

CONSTANTS Scenarios,   \* requests: [p, ps, amountIn], p the search parameters
          Strategies,  \* names of the split strategies
          Chunks,      \* the chunk count given to the equal-chunk strategies
          PoolInfo     \* per pool the [type, extra] of its line in the pool list

VARIABLES req, stage, routes, split, prog, paid

vars == <<req, stage, routes, split, prog, paid>>

Run(s, p, ps, amountIn) ==
  CASE s = "greedy"    -> Greedy(p, ps, amountIn, Chunks)
    [] s = "fast"      -> GreedyFast(p, ps, amountIn, Chunks)
    [] s = "front"     -> GreedyMixed(p, ps, amountIn, SchedFrontLoaded)
    [] s = "split"     -> GreedySplit(p, ps, amountIn, SlabPct, 2)
    [] s = "dynamic"   -> greedyDynamicInner(p, ps, amountIn, SlabPct, 1, 3)
    [] s = "compete"   -> GreedyCompete(p, ps, amountIn, SlabPct, 2)
    [] s = "recursive" -> GreedyRecursive(p, ps, amountIn, 2)
    [] s = "optimized" -> Optimized(p, ps, amountIn, Chunks)
    [] s = "v2"        -> optimizedTwoPhase(p, ps, amountIn, SchedShuffle2)
    [] s = "v4"        -> OptimizedV4(p, ps, amountIn)
    [] s = "waterfill" -> WaterFill(p, ps, amountIn)
    [] s = "max"       -> SplitMax(p, ps, amountIn)
    [] s = "staged"    -> Staged(p, ps, amountIn)
    [] s = "best"      -> Best(p, ps, amountIn, Chunks)

None == [strategy |-> "none", legs |-> <<>>, total |-> 0]

Init == /\ req \in Scenarios
        /\ stage = "asked"
        /\ routes = <<>> /\ split = None
        /\ prog = <<>> /\ paid = [ok |-> FALSE]

\* The forward route, and the candidates the strategies start from.
Quote == /\ stage = "asked"
         /\ routes' = FindTopRoutes(req.p, req.ps, req.amountIn, EvmTop)
         /\ stage' = "quoted"
         /\ UNCHANGED <<req, split, prog, paid>>

\* What a strategy reports of its result.
Report(s, r) == [strategy |-> s, legs |-> r.legs, total |-> r.total]

\* The request asks for a split: one strategy divides the input.
Split(s) == /\ stage = "quoted"
            /\ split' = Report(s, Run(s, req.p, req.ps, req.amountIn))
            /\ stage' = "split"
            /\ UNCHANGED <<req, routes, prog, paid>>

\* The legs become one program, which the router executes.
Squish(quoter) ==
  /\ stage = "split" /\ split.legs # <<>>
  /\ prog' = mergeRoutesInner(split.legs, quoter, req.ps)
  /\ paid' = LET e == encodeMergedSteps(prog')
             IN swap(EvmView(req.p, req.ps), e.steps, e.amounts, 0, req.p.sender)
  /\ stage' = IF quoter THEN "hopped" ELSE "merged"
  /\ UNCHANGED <<req, routes, split>>

Done == stage \in {"merged", "hopped"} \/ (stage = "split" /\ split.legs = <<>>)

Next == Quote \/ (\E s \in Strategies : Split(s)) \/ (\E q \in BOOLEAN : Squish(q))
        \/ (Done /\ UNCHANGED vars)

Spec == Init /\ [][Next]_vars
-----------------------------------------------------------------------------
\* All paths of one or two hops between two tokens.
ShortPaths(p) ==
  LET edges(t) == {p.adj[t][i] : i \in DOMAIN p.adj[t]}
      to(t) == {e \in edges(t) : e.tokenOut = p.tokenOut}
  IN {<<e>> : e \in to(p.tokenIn)}
     \union UNION {{<<e, f>> : f \in {g \in to(e.tokenOut) : g.pool # e.pool}} :
                    e \in {e \in edges(p.tokenIn) : e.tokenOut \notin {p.tokenIn, p.tokenOut}}}

(* The beam of topK amounts per token and layer loses no path of one or    *)
(* two hops: no such path would have quoted more than the best route.      *)
BeamKeepsBest ==
  stage = "quoted" /\ req.p.reverting = {} =>
    \A s \in ShortPaths(req.p) :
      QuotePath(req.ps, s, req.amountIn) > 0 =>
        routes # <<>> /\ QuotePath(req.ps, s, req.amountIn) <= routes[1].amountOut

(* A split is honest: its legs executed in order from the state of the     *)
(* quote pay what each says, and together its total, and they spend no     *)
(* more than the input, whatever fails on the way.  WaterFill may spend    *)
(* more: it never tests the rate it starts from.                           *)
LegsReplay ==
  stage = "split" =>
    LET run(st, leg) == RunLeg(req.p, st, leg.steps, leg.volume).st
        again == FoldLeft(run, Start(req.ps), split.legs)
    IN /\ again.legs = split.legs /\ again.total = split.total
       /\ split.strategy # "waterfill" => Volume(split.legs) <= req.amountIn

(* Merging on shared suffixes alone leaves no intermediate token on the    *)
(* router and spends exactly the volume of the legs.                       *)
MergedSweepsAll ==
  stage = "merged" =>
    /\ paid.ok
    /\ \A t \in Tokens : paid.left[t] = 0
    /\ paid.sender[req.p.tokenIn] + Volume(split.legs)
         = req.p.sender[req.p.tokenIn]
           + (IF req.p.tokenIn = req.p.tokenOut THEN paid.amountOut ELSE 0)

(* merge.go says of merged first hops that the last consumer "uses         *)
(* amount=0 (balance) to sweep leftovers": a program that succeeds leaves  *)
(* nothing on the router.                                                  *)
HoppedSweepsAll ==
  stage = "hopped" /\ paid.ok => \A t \in Tokens : paid.left[t] = 0

\* A step with the pool type and the extra data of its pool.
Typed(s) == [pool |-> s.pool, type |-> PoolInfo[s.pool].type, tokenIn |-> s.tokenIn,
             tokenOut |-> s.tokenOut, extra |-> PoolInfo[s.pool].extra]

\* A tick spacing as it was before its encoding in two's complement.
Signed(word) == IF 2 * word < WordRange THEN word ELSE word - WordRange

\* d is what the steps ts, their amounts and the minimum were encoded from.
DecodesTo(d, ts, amounts, minOutput) ==
  /\ d.amounts = amounts /\ d.minOutput = minOutput
  /\ \A i \in DOMAIN ts :
       /\ <<d.tokens[2 * i - 1], d.tokens[2 * i]>> = <<ts[i].tokenIn, ts[i].tokenOut>>
       /\ d.types[i] = ts[i].type
       /\ IF d.extras[i] = <<>> THEN d.pools[i] = ts[i].pool
          ELSE /\ d.pools[i] = V4PoolManager
               /\ <<d.extras[i][1], Signed(d.extras[i][2]), d.extras[i][3]>> = ts[i].extra

(* The router decodes from the calldata the program that was encoded, V4   *)
(* pools redirected to the pool manager with their key, and the two        *)
(* encoders of swap() agree on a single route.                             *)
CalldataDecodes ==
  LET typed(steps) == [i \in DOMAIN steps |-> Typed(steps[i])]
      first(ts) == [i \in DOMAIN ts |-> IF i = 1 THEN req.amountIn ELSE 0]
      decodes(ts, amounts) ==
        DecodesTo(decodeSwap(encodeSwapRaw(ts, amounts, split.total)), ts, amounts, split.total)
      agree(ts) ==
        /\ encodeSwapMultiInner(ts, req.amountIn, 0) = encodeSwapRaw(ts, first(ts), 0)
        /\ \A i \in DOMAIN ts : LET w == encodeSwapSingleInner(ts[i], req.amountIn)
                                IN 32 * (Len(w) - 7) = w[(w[6] \div 32) + 1]
  IN /\ prog # <<>> =>
          decodes(typed(encodeMergedSteps(prog).steps), encodeMergedSteps(prog).amounts)
     /\ \A k \in DOMAIN routes : agree(typed(routes[k].steps))
=============================================================================
