----------------------------- MODULE Splitters -----------------------------
(***************************************************************************)
(* The split strategies (pathfinder/splitter).  Each divides an input into *)
(* legs, executes every leg on the router, and continues on the state the  *)
(* leg left behind.  The code carries that state twice, as a StateDB       *)
(* overlay for the EVM and as a PoolManagerOverlay for the formulas, both  *)
(* built from the same dirty slots: here both are the pool states `ps' of  *)
(* the progress record.  A result without legs stands for nil.  Gas is     *)
(* counted in router steps.                                                *)
(***************************************************************************)
EXTENDS MergeRoutes

CONSTANTS maxLegs,    \* the safety cap on legs and slabs (200 and 100)
          maxDepth,   \* the recursion limit of recurseSplit (8)
          Percent,    \* the parts percentages are counted in (100)
          SlabPct,    \* the slab of the production GreedyCompete (30)
          SchedFrontLoaded, SchedGradual, SchedShuffle2  \* the schedules

ASSUME SplitAssumption ==
  /\ {maxLegs, maxDepth, Percent, SlabPct} \subseteq Nat \ {0}
  /\ \A s \in {SchedFrontLoaded, SchedGradual, SchedShuffle2} :
       s # <<>> /\ \A i \in DOMAIN s : s[i] \in 1..Percent

Start(ps) == [legs |-> <<>>, total |-> 0, gas |-> 0, routed |-> 0, ps |-> ps]

Least(a, b) == IF a < b THEN a ELSE b

\* The identity of a path: its pools (pathKey).
pathKey(steps) == [i \in DOMAIN steps |-> steps[i].pool]

\* A leg that the router executed with result r: its writes are merged into
\* the state (mergeDirtySlots).
LegAdded(p, st, steps, vol, r) ==
  [legs |-> Append(st.legs, [steps |-> steps, volume |-> vol, output |-> r.amountOut]),
   total |-> st.total + r.amountOut, gas |-> st.gas + Len(steps), routed |-> st.routed + vol,
   ps |-> [i \in DOMAIN st.ps |-> IF i \in p.reverting THEN st.ps[i] ELSE r.pools[i]]]

\* A leg that reverts or pays nothing changes nothing.
LegTried(p, st, steps, vol, r) ==
  IF r.ok /\ r.amountOut > 0
  THEN [found |-> TRUE, ok |-> TRUE, st |-> LegAdded(p, st, steps, vol, r)]
  ELSE [found |-> TRUE, ok |-> FALSE, st |-> st]

RunLeg(p, st, steps, vol) == LegTried(p, st, steps, vol, Execute(p, st.ps, steps, vol))

\* A leg on the first of some routes, if there is one.
LegOn(p, st, route, vol) ==
  IF route = <<>> THEN [found |-> FALSE, ok |-> FALSE, st |-> st]
  ELSE RunLeg(p, st, route[1].steps, vol)

(* A leg of volume vol on the best route for the amount probe.  No route   *)
(* is found for nothing, so a zero probe ends every loop below.            *)
BestLeg(p, st, probe, vol) == LegOn(p, st, FindBestRoute(p, st.ps, probe), vol)

\* Where the loops over legs start.
NoLeg(ps) == [found |-> TRUE, ok |-> TRUE, st |-> Start(ps)]

\* The better of two results; the first one on a tie.
Better(a, b) == IF b.total > a.total THEN b ELSE a

RECURSIVE EqualChunks(_, _, _, _)
\* n more chunks, each on the best route in the state the others left.
EqualChunks(p, n, chunk, leg) ==
  IF n = 0 \/ ~leg.found THEN leg.st
  ELSE EqualChunks(p, n - 1, chunk, BestLeg(p, leg.st, chunk, chunk))

(* Greedy: `chunks' equal chunks; the remainder of the division is not     *)
(* routed.                                                                 *)
Greedy(p, ps, amountIn, chunks) == EqualChunks(p, chunks, amountIn \div chunks, NoLeg(ps))

(* GreedyFast keeps its two overlays across chunks and adds only the new   *)
(* writes of each: the same search on the same states.                     *)
GreedyFast(p, ps, amountIn, chunks) == EqualChunks(p, chunks, amountIn \div chunks, NoLeg(ps))

GreedyFine(p, ps, amountIn, chunks) == Greedy(p, ps, amountIn, chunks * 4)

RECURSIVE Scheduled(_, _, _, _, _)
\* The chunks of a schedule from the i-th on; its last entry is repeated.
Scheduled(p, amountIn, sched, i, leg) ==
  LET pct == IF i <= Len(sched) THEN sched[i] ELSE Last(sched)
      vol == Least((amountIn \div Percent) * pct, amountIn - leg.st.routed)
  IN IF ~leg.ok THEN leg.st
     ELSE Scheduled(p, amountIn, sched, i + 1, BestLeg(p, leg.st, vol, vol))

\* GreedyMixed: chunk sizes from a schedule of percentages.
GreedyMixed(p, ps, amountIn, sched) == Scheduled(p, amountIn, sched, 1, NoLeg(ps))

RECURSIVE Probed(_, _, _, _, _, _)
Probed(p, amountIn, probePct, execVol, i, leg) ==
  LET remaining == amountIn - leg.st.routed
      probe == (remaining \div Percent) * probePct
  IN IF i = maxLegs \/ ~leg.ok THEN leg.st
     ELSE Probed(p, amountIn, probePct, execVol, i + 1,
                 BestLeg(p, leg.st, IF probe = 0 THEN remaining ELSE probe,
                         Least(execVol, remaining)))

(* GreedySplit: the path is searched at probePct of what remains and run   *)
(* at execPct of the whole.                                                *)
GreedySplit(p, ps, amountIn, probePct, execPct) ==
  IF amountIn \div Percent = 0 THEN Start(ps)
  ELSE Probed(p, amountIn, probePct, (amountIn \div Percent) * execPct, 0, NoLeg(ps))

\* How many legs at the end have the small volume.
SmallsInARow(legs, small) ==
  Len(legs) - Max({0} \union {k \in DOMAIN legs : legs[k].volume # small})

(* The route found for a chunk; a small chunk whose path is not that of    *)
(* the last leg is searched again, and run, as a large one.                *)
Rerouted(p, st, route, vol, small, large) ==
  IF /\ route # <<>> /\ st.legs # <<>> /\ vol = small
     /\ pathKey(route[1].steps) # pathKey(Last(st.legs).steps)
  THEN BestLeg(p, st, large, large)
  ELSE LegOn(p, st, route, vol)

RECURSIVE Dynamic(_, _, _, _, _, _, _)
Dynamic(p, amountIn, largeVol, smallVol, forceEvery, i, leg) ==
  LET st == leg.st
      large == Least(largeVol, amountIn - st.routed)
      force == forceEvery > 0 /\ SmallsInARow(st.legs, smallVol) >= forceEvery
      vol == IF st.legs = <<>> \/ force THEN large ELSE Least(smallVol, amountIn - st.routed)
  IN IF i = maxLegs \/ ~leg.ok THEN st
     ELSE Dynamic(p, amountIn, largeVol, smallVol, forceEvery, i + 1,
                  Rerouted(p, st, FindBestRoute(p, st.ps, vol), vol, smallVol, large))

(* greedyDynamicInner: small chunks while the path stays the same, a large *)
(* one at the start, when the path changes, and after forceEvery small     *)
(* ones (0: never).                                                        *)
greedyDynamicInner(p, ps, amountIn, largePct, smallPct, forceEvery) ==
  LET onePercent == amountIn \div Percent
  IN IF onePercent = 0 THEN Start(ps)
     ELSE Dynamic(p, amountIn, onePercent * largePct, onePercent * smallPct, forceEvery, 0, NoLeg(ps))

RECURSIVE Chunked(_, _, _, _)
(* The chunked contestant of a slab: legs of at most chunkVol until the    *)
(* slab is routed or a chunk fails.                                        *)
Chunked(p, slab, chunkVol, leg) ==
  LET vol == Least(chunkVol, slab - leg.st.routed)
  IN IF ~leg.ok THEN leg.st ELSE Chunked(p, slab, chunkVol, BestLeg(p, leg.st, vol, vol))

\* The winner of a slab: one shot, also on a tie if it uses no more gas, or chunks.
Winner(single, chunked) ==
  IF /\ single.total # 0
     /\ \/ single.total > chunked.total
        \/ single.total = chunked.total /\ single.gas <= chunked.gas
  THEN single ELSE chunked

\* Mutant: the winner's writes are not applied before the next slab.
JoinedStale(st, won) ==
  [legs |-> st.legs \o won.legs, total |-> st.total + won.total, gas |-> st.gas + won.gas,
   routed |-> st.routed + won.routed, ps |-> st.ps]

\* The progress with the legs of a result that continued it.
Joined(st, won) ==
  [legs |-> st.legs \o won.legs, total |-> st.total + won.total, gas |-> st.gas + won.gas,
   routed |-> st.routed + won.routed, ps |-> won.ps]

RECURSIVE Slabs(_, _, _, _, _, _)
Slabs(p, amountIn, slabVol, chunkVol, i, leg) ==
  LET slab == Least(slabVol, amountIn - leg.st.routed)
      again(won) == [ok |-> won.total # 0, st |-> Joined(leg.st, won)]
  IN IF i = maxLegs \/ ~leg.ok THEN leg.st
     ELSE Slabs(p, amountIn, slabVol, chunkVol, i + 1,
                again(Winner(BestLeg(p, Start(leg.st.ps), slab, slab).st,
                             Chunked(p, slab, chunkVol, NoLeg(leg.st.ps)))))

(* GreedyCompete: slab by slab, one shot against chunks; the winner's legs *)
(* and writes are kept.                                                    *)
GreedyCompete(p, ps, amountIn, slabPct, chunkPct) ==
  LET onePercent == amountIn \div Percent
  IN IF onePercent = 0 THEN Start(ps)
     ELSE Slabs(p, amountIn, onePercent * slabPct, onePercent * chunkPct, 0, NoLeg(ps))

RECURSIVE recurseSplit(_, _, _, _, _)
(* recurseSplit: one shot, or, when they pay more, the two halves, each    *)
(* split the same way; the second half runs on the state after the legs of *)
(* the first.                                                              *)
recurseSplit(p, ps, vol, minVol, depth) ==
  LET half(qs, v) == recurseSplit(p, qs, v, minVol, depth + 1)
      best(single, first, second) ==
        IF second.legs = <<>> \/ first.total + second.total <= single.total
        THEN single ELSE Joined(first, second)
      after(single, first) ==
        IF first.legs = <<>> THEN single
        ELSE best(single, first, half(first.ps, vol - vol \div 2))
      divide(single) ==
        IF ~single.ok \/ vol \div 2 < minVol \/ depth >= maxDepth THEN single.st
        ELSE after(single.st, half(ps, vol \div 2))
  IN divide(BestLeg(p, Start(ps), vol, vol))

GreedyRecursive(p, ps, amountIn, minPct) ==
  LET onePercent == amountIn \div Percent
      minVol == onePercent * minPct
  IN IF onePercent = 0 THEN Start(ps)
     ELSE recurseSplit(p, ps, amountIn, IF minVol = 0 THEN 1 ELSE minVol, 0)

\* The different paths of some legs or routes, in order of appearance.
CollectPaths(legs) ==
  FoldLeft(LAMBDA ps, leg : IF \E i \in DOMAIN ps : pathKey(ps[i]) = pathKey(leg.steps)
                            THEN ps ELSE Append(ps, leg.steps), <<>>, legs)

\* The first index with the largest value.
FirstLargest(s) == CHOOSE i \in DOMAIN s : /\ \A j \in DOMAIN s : s[i] >= s[j]
                                           /\ \A j \in 1..(i - 1) : s[j] < s[i]

(* The live path with the largest formula quote at a volume, the first one *)
(* on a tie; 0 when none quotes.                                           *)
BestPath(ps, paths, dead, vol) ==
  LET pick(q) == IF \A i \in DOMAIN q : q[i] = 0 THEN 0 ELSE FirstLargest(q)
  IN pick([i \in DOMAIN paths |-> IF i \in dead THEN 0 ELSE QuotePath(ps, paths[i], vol)])

\* A chunk run on the path `best': a path whose execution fails is dead from then on.
Placed(p, paths, a, vol, best) ==
  LET keep(leg) == IF leg.ok THEN [a EXCEPT !.st = leg.st, !.chunk = @ + 1]
                   ELSE [a EXCEPT !.dead = @ \union {best}]
  IN IF best = 0 THEN [a EXCEPT !.open = FALSE] ELSE keep(RunLeg(p, a.st, paths[best], vol))

RECURSIVE Allocate(_, _, _, _, _, _)
(* Chunks over a fixed set of paths until the input is routed, no path     *)
(* quotes, or `chunks' were run, the last taking what is left (0: as many  *)
(* as it takes).                                                           *)
Allocate(p, amountIn, paths, chunkVol, chunks, a) ==
  LET remaining == amountIn - a.st.routed
      vol == IF a.chunk = chunks THEN remaining ELSE Least(chunkVol, remaining)
  IN IF ~a.open \/ remaining = 0 \/ (chunks > 0 /\ a.chunk > chunks) THEN a.st
     ELSE Allocate(p, amountIn, paths, chunkVol, chunks,
                   Placed(p, paths, a, vol, BestPath(a.st.ps, paths, a.dead, vol)))

Unallocated(ps) == [open |-> TRUE, st |-> Start(ps), dead |-> {}, chunk |-> 1]

\* AllocateAcrossPaths: 2% chunks over a fixed set of paths.
AllocateAcrossPaths(p, ps, amountIn, paths) ==
  IF amountIn \div Percent = 0 THEN Start(ps)
  ELSE Allocate(p, amountIn, paths, (amountIn \div Percent) * 2, 0, Unallocated(ps))

(* The candidates of Optimized and WaterFill: the five best routes at a    *)
(* twentieth of the input, and the three best at the whole of it.          *)
Discover(p, ps, amountIn) ==
  LET small == IF amountIn \div 20 = 0 THEN amountIn ELSE amountIn \div 20
  IN CollectPaths(FindTopRoutes(p, ps, small, 5) \o FindTopRoutes(p, ps, amountIn, 3))

(* Optimized: equal chunks over the discovered paths; the last chunk takes *)
(* the remainder, and a chunk whose path fails is tried on another.        *)
Optimized(p, ps, amountIn, chunks) ==
  IF amountIn \div chunks = 0 THEN Start(ps)
  ELSE Allocate(p, amountIn, Discover(p, ps, amountIn), amountIn \div chunks, chunks, Unallocated(ps))

(* The best of some results and of a reallocation over all their paths;    *)
(* nothing when they have no legs.                                         *)
WithReallocation(p, ps, amountIn, rs) ==
  LET best(legs) ==
        IF legs = <<>> THEN Start(ps)
        ELSE Better(FoldLeft(Better, rs[1], Tail(rs)),
                    AllocateAcrossPaths(p, ps, amountIn, CollectPaths(legs)))
  IN best(FlattenSeq([i \in DOMAIN rs |-> rs[i].legs]))

\* A schedule for discovery, then a reallocation over the paths it found.
optimizedTwoPhase(p, ps, amountIn, sched) ==
  WithReallocation(p, ps, amountIn, <<GreedyMixed(p, ps, amountIn, sched)>>)

(* OptimizedV4: two schedules, and a reallocation over the paths of both;  *)
(* nothing when the first finds nothing.                                   *)
OptimizedV4(p, ps, amountIn) ==
  LET both(rs) == IF rs[1].legs = <<>> THEN Start(ps) ELSE WithReallocation(p, ps, amountIn, rs)
  IN both(<<GreedyMixed(p, ps, amountIn, SchedFrontLoaded),
            GreedyMixed(p, ps, amountIn, SchedShuffle2)>>)

(* SplitMax and Split: the best of four strategies and of a reallocation   *)
(* over all their paths.                                                   *)
SplitMax(p, ps, amountIn) ==
  WithReallocation(p, ps, amountIn,
    <<GreedyMixed(p, ps, amountIn, SchedFrontLoaded),
      optimizedTwoPhase(p, ps, amountIn, SchedShuffle2),
      GreedyMixed(p, ps, amountIn, SchedGradual),
      GreedyCompete(p, ps, amountIn, SlabPct, 2)>>)

\* Staged: two of the strategies and the reallocation.
Staged(p, ps, amountIn) ==
  WithReallocation(p, ps, amountIn,
    <<GreedyMixed(p, ps, amountIn, SchedFrontLoaded),
      optimizedTwoPhase(p, ps, amountIn, SchedShuffle2)>>)

\* Best: the best of four strategies at one chunk count.
Best(p, ps, amountIn, chunks) ==
  Better(Better(Better(Greedy(p, ps, amountIn, chunks), Optimized(p, ps, amountIn, chunks)),
                GreedyFine(p, ps, amountIn, chunks)),
         Greedy(p, ps, amountIn, chunks * 8))

(* The output of delta more input on a path that already carries v; 0 when *)
(* the larger amount does not quote or quotes less.                        *)
marginal(ps, steps, v, delta) ==
  LET more(outHigh, outLow) == IF outHigh < outLow THEN 0 ELSE outHigh - outLow
  IN more(QuotePath(ps, steps, v + delta), QuotePath(ps, steps, v))

(* Binary search, at most 20 halvings, for the volume at which a path's    *)
(* marginal falls to the target.                                           *)
findVolumeForMarginal(ps, steps, target, maxVol, delta) ==
  LET RECURSIVE go(_, _, _)
      go(k, lo, hi) == LET mid == (lo + hi) \div 2 IN
        IF k = 20 \/ mid = lo THEN lo
        ELSE IF marginal(ps, steps, mid, delta) > target THEN go(k + 1, mid, hi)
        ELSE go(k + 1, lo, mid)
  IN IF marginal(ps, steps, 0, delta) < target THEN 0 ELSE go(0, 0, maxVol)

(* The equilibrium rate: at most 30 halvings of [0, maxM0], raised while   *)
(* the paths want more than the input.                                     *)
equilibriumRate(ps, live, maxM0, amountIn, delta) ==
  LET want(r) == SumSeq([i \in DOMAIN live |-> findVolumeForMarginal(ps, live[i], r, amountIn, delta)])
      RECURSIVE go(_, _, _)
      go(k, rLow, rHigh) == LET rMid == (rLow + rHigh) \div 2 IN
        IF k = 30 \/ rMid = rLow THEN rHigh
        ELSE IF want(rMid) > amountIn THEN go(k + 1, rMid, rHigh) ELSE go(k + 1, rLow, rMid)
  IN go(0, 0, maxM0)

(* The volumes at the equilibrium rate: what is missing goes to the path   *)
(* with the best marginal, legs below a thousandth are dropped, and what   *)
(* they carried goes to the largest.                                       *)
allocations(ps, live, amountIn, delta) ==
  LET m(vols) == [i \in DOMAIN live |-> marginal(ps, live[i], vols[i], delta)]
      fill(a, i) == IF amountIn > SumSeq(a) THEN [a EXCEPT ![i] = @ + (amountIn - SumSeq(a))] ELSE a
      at(rate) == [i \in DOMAIN live |-> findVolumeForMarginal(ps, live[i], rate, amountIn, delta)]
      best(v) == v[FirstLargest(v)]
      whole(a) == fill(a, FirstLargest(m(a)))
      worth(a) == [i \in DOMAIN live |-> IF a[i] < amountIn \div 1000 THEN 0 ELSE a[i]]
      rest(a) == fill(a, FirstLargest(a))
  IN rest(worth(whole(at(equilibriumRate(ps, live, best(m([i \in DOMAIN live |-> 0])),
                                         amountIn, delta)))))

\* One execution per path with a volume; a leg that fails is skipped.
Pour(p, ps, live, vols) ==
  FoldLeft(LAMBDA st, i : IF vols[i] = 0 THEN st ELSE RunLeg(p, st, live[i], vols[i]).st,
           Start(ps), [i \in DOMAIN live |-> i])

(* WaterFill: the discovered paths with a marginal, filled with their      *)
(* allocations.                                                            *)
WaterFill(p, ps, amountIn) ==
  LET delta == IF amountIn \div 10000 = 0 THEN 1 ELSE amountIn \div 10000
      live == SelectSeq(Discover(p, ps, amountIn), LAMBDA s : marginal(ps, s, 0, delta) # 0)
      fill(paths) == IF paths = <<>> THEN Start(ps)
                     ELSE Pour(p, ps, paths, allocations(ps, paths, amountIn, delta))
  IN fill(live)
=============================================================================
