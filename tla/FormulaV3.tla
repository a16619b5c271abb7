----------------------------- MODULE FormulaV3 -----------------------------
(***************************************************************************)
(* The concentrated-liquidity pools: Uniswap V3 and its forks first, then  *)
(* Uniswap V4 and Algebra Integral.                                        *)
(*                                                                         *)
(* The Uniswap V3, Pangolin V3 and Pharaoh V3 pools (formulas/v3.go,       *)
(* v3_u256.go, pool_v3.go): layout detection, the preloaded bitmap window, *)
(* the precomputed steps over empty words, and the quote.                  *)
(*                                                                         *)
(* A pool contract is a record st: its registry entry (known, pharaoh,     *)
(* fee, spacing), slot0 by storage position, and for each layout the body  *)
(* (liquidity and the net liquidity of the initialized ticks) stored at    *)
(* that layout's other positions.  Zeros are stored where nothing was      *)
(* written.                                                                *)
(***************************************************************************)
EXTENDS TickMath

CONSTANTS WordBits,       \* ticks per bitmap word, 256
          bitmapRadius,   \* words loaded on either side, by tick spacing
          maxSwapSteps,   \* 500
          v3GasLimit,     \* 4_800_000, what a quote may cost
          evmGasLimit     \* 5_000_000, what the router's call may cost

ASSUME FormulaV3Assumption == {WordBits, maxSwapSteps, v3GasLimit, evmGasLimit} \subseteq Nat

\* The layouts: where slot0 is, whether the fee is stored, whether ticks are costly.
v3Layout(name) ==
  CASE name = "standard"       -> [slot0 |-> "s0", feeSlot |-> FALSE, heavyGas |-> FALSE]
    [] name = "proxy"          -> [slot0 |-> "s4", feeSlot |-> FALSE, heavyGas |-> TRUE]
    [] name = "pangolinReward" -> [slot0 |-> "s5", feeSlot |-> FALSE, heavyGas |-> TRUE]
    [] name = "pangolin"       -> [slot0 |-> "s5", feeSlot |-> FALSE, heavyGas |-> TRUE]
    [] name = "pharaohV1"      -> [slot0 |-> "v1", feeSlot |-> FALSE, heavyGas |-> TRUE]
    [] name = "pharaohV2"      -> [slot0 |-> "v2", feeSlot |-> TRUE, heavyGas |-> TRUE]

ZeroSlot0 == [price |-> 0, tick |-> 0, obs |-> 0]

\* A mutant: a price that is exactly a tick's price belongs to no tick.
v3ReadSlot0Strict(s) ==
  /\ s.price \in MinSqr..MaxSqr /\ s.tick \in MinTick..MaxTick
  /\ sqrtRatio[s.tick] < s.price

\* What makes a word look like a slot0: price and tick in range and consistent.
v3ReadSlot0(s) ==
  /\ s.price # 0 /\ s.price \in MinSqr..MaxSqr
  /\ s.tick # 0 \/ s.obs # 0
  /\ s.tick \in MinTick..MaxTick
  /\ sqrtRatio[s.tick] <= s.price
  /\ s.tick < MaxTick => s.price < sqrtRatio[s.tick + 1]

\* The first layout of the pool's family whose slot0 is valid, "none" if there is none.
v3ResolveLayout(st) ==
  LET layouts == IF st.pharaoh THEN <<"pharaohV2", "pharaohV1">>
                 ELSE <<"standard", "proxy", "pangolinReward", "pangolin">>
      valid == {i \in DOMAIN layouts : v3ReadSlot0(st.slot0[v3Layout(layouts[i]).slot0])}
  IN IF valid = {} THEN "none" ELSE layouts[Min(valid)]

\* The layout is resolved once per process and address and then remembered.
v3GetLayoutBytes(st, cache) == IF cache # "none" THEN cache ELSE v3ResolveLayout(st)

v3FloorDiv(a, b) == a \div b
v3Position(compressed) == <<compressed \div WordBits, compressed % WordBits>>

\* A bitmap word: the bits of the initialized ticks.
v3ReadBitmapWord(net, spacing, w) ==
  {b \in 0..(WordBits - 1) : (w * WordBits + b) * spacing \in DOMAIN net}

EmptyV3 == [fee |-> 0, spacing |-> 1, price |-> 0, tick |-> 0, liquidity |-> 0, net |-> <<>>,
            minWord |-> 0, maxWord |-> 0, heavyGas |-> FALSE, preDown |-> <<>>, preUp |-> <<>>]

(* One bitmap word is searched, from the bit of the compressed tick c on:  *)
(* downwards including it, upwards excluding it.                           *)
NextInWord(p, c, w, b, zeroForOne) ==
  LET found(seen) ==
        [tick |-> p.spacing * (c - b + CASE seen = {} -> IF zeroForOne THEN 0 ELSE WordBits - 1
                                         [] zeroForOne -> Max(seen)
                                         [] OTHER -> Min(seen)),
         initialized |-> seen # {},
         outOfRange |-> IF zeroForOne THEN w < p.minWord ELSE w > p.maxWord]
  IN found({x \in v3ReadBitmapWord(p.net, p.spacing, w) : IF zeroForOne THEN x <= b ELSE x >= b})

nextInitializedTick(p, tick, zeroForOne) ==
  LET from(c) == NextInWord(p, c, v3Position(c)[1], v3Position(c)[2], zeroForOne)
  IN from(v3FloorDiv(tick, p.spacing) + (IF zeroForOne THEN 0 ELSE 1))

\* The state after the tick at the target price is crossed or its word is left.
AfterTick(zeroForOne, tick) == IF zeroForOne THEN tick - 1 ELSE tick
AfterLiquidity(p, zeroForOne, tick, liquidity) ==
  LET n == IF tick \in DOMAIN p.net THEN p.net[tick] ELSE 0
  IN liquidity + (IF zeroForOne THEN -n ELSE n)

(* A swap under way is w = [price, tick, liquidity, remaining, out].  Here *)
(* it has made the step k towards the tick nx.                             *)
Stepped(p, zeroForOne, w, nx, k) ==
  LET to == Clamp(nx.tick)
      there == k.price = sqrtRatio[to]
  IN [price |-> k.price,
      tick |-> IF there THEN AfterTick(zeroForOne, to) ELSE getTickAtSqrtRatioU256(k.price),
      liquidity |-> IF there /\ nx.initialized THEN AfterLiquidity(p, zeroForOne, to, w.liquidity)
                    ELSE w.liquidity,
      remaining |-> w.remaining - k.in - k.fee, out |-> w.out + k.out]

\* A swap that has spent its input or reached its price limit.
Spent(w, zeroForOne) == w.remaining = 0 \/ w.price = PriceLimit(zeroForOne)

\* The price a step towards a tick aims at.
TargetOf(zeroForOne, nx) == StepTarget(zeroForOne, sqrtRatio[Clamp(nx.tick)])

\* A mutant: the fee is left out of the cost of a full crossing.
TotalCostNoFee(in, fee) == in

\* What a full crossing costs; a quote compares it with what remains.
TotalCost(in, fee) == in + fee

\* The full crossing of an empty word that ends at a price.
Crossing(p, zeroForOne, price, to, liquidity) ==
  LET with(in, fee) == [price |-> to, in |-> in, fee |-> fee, totalCost |-> TotalCost(in, fee),
                        out |-> OutTo(TRUE, zeroForOne, price, to, liquidity)]
      of(in) == with(in, mulDivRoundingUpU256(in, p.fee, Mil - p.fee))
  IN of(InTo(TRUE, zeroForOne, price, to, liquidity))

RECURSIVE CrossingsFrom(_, _, _, _, _, _, _)
(* Walk outwards from the current tick until the window ends, keeping the  *)
(* full crossing of every empty word, by the tick it ends at.              *)
CrossingsFrom(p, zeroForOne, n, tick, price, liquidity, acc) ==
  LET on(nx, to) ==
        IF nx.outOfRange THEN acc
        ELSE CrossingsFrom(p, zeroForOne, n + 1, AfterTick(zeroForOne, to), sqrtRatio[to],
               IF nx.initialized THEN AfterLiquidity(p, zeroForOne, to, liquidity) ELSE liquidity,
               IF nx.initialized \/ liquidity = 0 THEN acc
               ELSE [t \in DOMAIN acc \union {to} |->
                       IF t = to THEN Crossing(p, zeroForOne, price, sqrtRatio[to], liquidity)
                       ELSE acc[t]])
      at(nx) == on(nx, Clamp(nx.tick))
  IN IF n = maxSwapSteps THEN acc ELSE at(nextInitializedTick(p, tick, zeroForOne))

precomputeSteps(p, zeroForOne) == CrossingsFrom(p, zeroForOne, 0, p.tick, p.price, p.liquidity, <<>>)

\* The word of a tick.
WordOf(tick, spacing) == v3Position(v3FloorDiv(tick, spacing))[1]
TicksIn(net, spacing, range) == {t \in DOMAIN net : WordOf(t, spacing) \in range.lo..range.hi}

(* The window of words: around the current tick, the full range when that  *)
(* holds no initialized tick.                                              *)
Window(spacing, tick, body) ==
  LET full == (MaxTick \div spacing) \div WordBits + 1
      or(near) == IF /\ TicksIn(body.net, spacing, near) = {} /\ body.liquidity # 0
                     /\ full > bitmapRadius[spacing]
                  THEN [lo |-> -full, hi |-> full] ELSE near
  IN or([lo |-> WordOf(tick, spacing) - bitmapRadius[spacing],
         hi |-> WordOf(tick, spacing) + bitmapRadius[spacing]])

\* The fee (stored or from the registry), slot0, liquidity and the window's ticks.
Loaded(st, layout, s0, body, window) ==
  [fee |-> IF layout.feeSlot /\ st.feeSlot > 0 THEN st.feeSlot ELSE st.fee,
   spacing |-> st.spacing, price |-> s0.price, tick |-> s0.tick, liquidity |-> body.liquidity,
   net |-> [t \in TicksIn(body.net, st.spacing, window) |-> body.net[t]],
   minWord |-> window.lo, maxWord |-> window.hi, heavyGas |-> layout.heavyGas,
   preDown |-> <<>>, preUp |-> <<>>]

\* Construction: the layout, the pool's state and the precomputed steps.
newV3Pool(st, cache) ==
  LET steps(p) == [p EXCEPT !.preDown = precomputeSteps(p, TRUE), !.preUp = precomputeSteps(p, FALSE)]
      from(layout, s0, body) ==
        IF s0.price = 0 THEN EmptyV3
        ELSE steps(Loaded(st, layout, s0, body, Window(st.spacing, s0.tick, body)))
      at(name) == IF ~st.known \/ name = "none" THEN EmptyV3
                  ELSE from(v3Layout(name), st.slot0[v3Layout(name).slot0], st.body[name])
  IN at(v3GetLayoutBytes(st, cache))

\* Would a swap that runs off the window still fit in the call's gas?
evmWouldComplete(p, zeroForOne) ==
  LET words == ((IF zeroForOne THEN MaxTick + p.tick ELSE MaxTick - p.tick) \div p.spacing) \div WordBits
      perTick == IF p.heavyGas THEN 55 ELSE 15
      overhead == IF p.heavyGas THEN 400 ELSE 200
  IN Cardinality(DOMAIN p.net) * perTick + words * 7 + overhead < evmGasLimit

RECURSIVE v3Walk(_, _, _, _, _, _)
(* The quote: steps from tick to tick with an estimate of the gas, in      *)
(* thousands; a full crossing of an empty word comes from the precomputed  *)
(* steps pre.                                                              *)
v3Walk(p, zeroForOne, pre, n, gas, w) ==
  LET to(nx) == Clamp(nx.tick)
      full(nx) == ~nx.initialized /\ to(nx) \in DOMAIN pre /\ w.remaining >= pre[to(nx)].totalCost
      step(nx) == IF full(nx) THEN pre[to(nx)]
                  ELSE computeSwapStepU256(w.price, TargetOf(zeroForOne, nx), w.liquidity,
                                           w.remaining, p.fee)
      on(nx, cost) ==
        CASE nx.outOfRange -> IF w.liquidity = 0 /\ evmWouldComplete(p, zeroForOne)
                              THEN w.out ELSE 0
          [] cost > v3GasLimit -> 0
          [] OTHER -> v3Walk(p, zeroForOne, pre, n + 1, cost, Stepped(p, zeroForOne, w, nx, step(nx)))
      at(nx) == on(nx, gas + (IF ~nx.initialized THEN 7 ELSE IF p.heavyGas THEN 55 ELSE 25))
  IN CASE Spent(w, zeroForOne) -> w.out
       [] n >= maxSwapSteps -> 0
       [] OTHER -> at(nextInitializedTick(p, w.tick, zeroForOne))

QuoteV3(p, amountIn, zeroForOne) ==
  IF amountIn = 0 \/ p.price = 0 THEN 0
  ELSE v3Walk(p, zeroForOne, IF zeroForOne THEN p.preDown ELSE p.preUp, 0, 400,
              [price |-> p.price, tick |-> p.tick, liquidity |-> p.liquidity,
               remaining |-> amountIn, out |-> 0])

-----------------------------------------------------------------------------
(***************************************************************************)
(* The Uniswap V4 pools (formulas/v4.go, v4_u256.go, pool_v4.go): state    *)
(* read from the PoolManager singleton, a window of bitmap words that is   *)
(* not centred on the price, fees by direction, and the ArenaHook fee.     *)
(***************************************************************************)
CONSTANT v4Radius   \* 200: the words -v4Radius..v4Radius are loaded

\* A mutant: the halves of the packed fee are swapped.
ProtocolFeeSwapped(packed, zeroForOne) ==
  IF zeroForOne THEN (packed \div 4096) % 4096 ELSE packed % 4096

\* One direction's share of the packed protocol fee.
ProtocolFee(packed, zeroForOne) == IF zeroForOne THEN packed % 4096 ELSE (packed \div 4096) % 4096

\* The hook's fee: the pool's share plus the protocol's, both read from storage.
readArenaHookFee(hook) == hook.poolFee + hook.protocolFee

(* Pool.State of the manager: price, tick, both fees and the liquidity,    *)
(* with the net liquidity of the ticks in the loaded words.                *)
FetchV4State(st, hookFee, seen) ==
  [price |-> st.price, tick |-> st.tick, protocolFee |-> st.protocolFee, lpFee |-> st.fee,
   liquidity |-> st.liquidity, spacing |-> st.spacing, hookFee |-> hookFee,
   net |-> [t \in seen |-> st.net[t]], minWord |-> -MaxTick - 1, maxWord |-> MaxTick + 1]

\* Construction: a registered hook fee wins, then the one the ArenaHook stores.
newV4Pool(st) ==
  LET hookFee == IF st.hookFee = 0 /\ st.arena # <<>> THEN readArenaHookFee(st.arena[1])
                 ELSE st.hookFee
      word(t) == v3Position(v3FloorDiv(t, st.spacing))[1]
      s == FetchV4State(st, hookFee, {t \in DOMAIN st.net : word(t) \in -v4Radius..v4Radius})
  IN IF st.known THEN s ELSE [s EXCEPT !.price = 0]

\* The step of V4: what is not needed for the price stays with the input.
v4ComputeSwapStepU256(current, target, liquidity, remaining, fee) ==
  LET zeroForOne == current >= target
      moved(next, in, rest) ==
        [price |-> next, in |-> in, out |-> OutTo(TRUE, zeroForOne, current, next, liquidity),
         fee |-> rest]
      step(lessFee, full) ==
        IF lessFee >= full
        THEN moved(target, full,
                   IF fee = Mil THEN full ELSE mulDivRoundingUpU256(full, fee, Mil - fee))
        ELSE moved(v3GetNextPriceFromInput(TRUE, current, liquidity, lessFee, zeroForOne),
                   lessFee, remaining - lessFee)
  IN step(mulDivU256(remaining, Mil - fee, Mil), InTo(TRUE, zeroForOne, current, target, liquidity))

\* The fee a swap pays: the LP fee on what the protocol fee leaves.
SwapFee(p, zeroForOne) ==
  LET f == ProtocolFee(p.protocolFee, zeroForOne)
  IN IF f = 0 THEN p.lpFee ELSE f + p.lpFee - (f * p.lpFee) \div Mil

RECURSIVE v4Walk(_, _, _)
(* The walk has no window test and no gas estimate; words that were not    *)
(* loaded read as empty.                                                   *)
v4Walk(p, zeroForOne, w) ==
  LET step(nx) == v4ComputeSwapStepU256(w.price, TargetOf(zeroForOne, nx), w.liquidity,
                                        w.remaining, SwapFee(p, zeroForOne))
      at(nx) == v4Walk(p, zeroForOne, Stepped(p, zeroForOne, w, nx, step(nx)))
  IN IF Spent(w, zeroForOne) THEN w.out ELSE at(nextInitializedTick(p, w.tick, zeroForOne))

QuoteV4(p, amountIn, zeroForOne) ==
  LET less(paid) == paid - mulDivU256(paid, p.hookFee, Mil)
  IN IF amountIn = 0 \/ p.price = 0 THEN 0
     ELSE less(v4Walk(p, zeroForOne, [price |-> p.price, tick |-> p.tick, liquidity |-> p.liquidity,
                                      remaining |-> amountIn, out |-> 0]))

-----------------------------------------------------------------------------
(***************************************************************************)
(* The Algebra Integral pools (formulas/algebra.go, pool_algebra.go):      *)
(* initialized ticks form a linked list that is followed at quote time,    *)
(* and the gas budget depends on the fees pending for the AFTER_SWAP hook. *)
(* A pool is [price, liquidity, fee, prevTick, nextTick, ticks, plugin,    *)
(* pending]; ticks maps an initialized tick to its delta and neighbours.   *)
(***************************************************************************)
CONSTANTS algebraGasLimit,    \* 4_800_000
          pendingThreshold    \* 1e18: more pending fees make the hook costly

\* globalState: a zero price is an error, as is one at construction.
algebraReadGlobalState(st) == [ok |-> st.price # 0, price |-> st.price, fee |-> st.fee,
                               plugin |-> st.plugin]

\* The packed slot: liquidity and the ticks around the price.
algebraReadPackedSlot(st) == [liquidity |-> st.liquidity, prev |-> st.prevTick, next |-> st.nextTick]

\* One list node; a tick that was never initialized reads as zeros.
algebraReadTick(st, tick) ==
  IF tick \in DOMAIN st.ticks THEN st.ticks[tick] ELSE [delta |-> 0, prev |-> 0, next |-> 0]

\* The gas set aside for the hook that runs after the swap, in thousands.
AfterSwapGas(st) ==
  IF st.plugin /\ Max({st.pending[1], st.pending[2]}) > pendingThreshold THEN 2600 ELSE 0

RECURSIVE algebraWalk(_, _, _, _)
(* The walk along the list, w = [price, liquidity, prev, next, remaining,  *)
(* out]; zero when the steps would not fit in the gas or a tick's data     *)
(* would make the liquidity negative.                                      *)
algebraWalk(st, zeroForOne, n, w) ==
  LET tick == IF zeroForOne THEN w.prev ELSE w.next
      spend(s) == [w EXCEPT !.price = s.price, !.remaining = @ - s.in - s.fee, !.out = @ + s.out]
      crossed(v, node) ==
        [v EXCEPT !.liquidity = @ + (IF zeroForOne THEN -node.delta ELSE node.delta),
                  !.prev = IF zeroForOne THEN node.prev ELSE tick,
                  !.next = IF zeroForOne THEN tick ELSE node.next]
      on(v) == IF v.liquidity < 0 THEN 0 ELSE algebraWalk(st, zeroForOne, n + 1, v)
      after(v) == CASE v.price = sqrtRatio[tick] -> on(crossed(v, algebraReadTick(st, tick)))
                    [] v.price # w.price -> v.out
                    [] OTHER -> on(v)
  IN CASE w.remaining <= 0 \/ w.price = PriceLimit(zeroForOne) -> w.out
       [] (n + 1) * 22 + 200 > algebraGasLimit - AfterSwapGas(st) -> 0
       [] OTHER -> after(spend(computeSwapStep(w.price, StepTarget(zeroForOne, sqrtRatio[tick]),
                                               w.liquidity, w.remaining, st.fee)))

QuoteAlgebraStorage(st, amountIn, zeroForOne) ==
  LET from(g, k) == [price |-> g.price, liquidity |-> k.liquidity, prev |-> k.prev,
                     next |-> k.next, remaining |-> amountIn, out |-> 0]
  IN IF amountIn <= 0 \/ ~algebraReadGlobalState(st).ok THEN 0
     ELSE algebraWalk(st, zeroForOne, 0, from(algebraReadGlobalState(st), algebraReadPackedSlot(st)))
=============================================================================
