------------------------------- MODULE ArbBot -------------------------------
(***************************************************************************)
(* The arbitrage bot's main loop (examples/go/arbitrage/main.go): start,   *)
(* approvals, one search per block event, the check of the result on the   *)
(* node and the submission of a transaction, while the chain moves on.     *)
(*                                                                         *)
(* The bot reads three views of the chain.  The pool manager's quoters are *)
(* of the block at which they were last built; the EVM runs on an overlay  *)
(* made once, which keeps the first value it read; the node executes at    *)
(* the block the bot names.  LiveState (the replica `rep') is specified in *)
(* StateSync: here a diff is applied and its callback run in one step,     *)
(* which the bot holds up while it has the read lock.                      *)
(***************************************************************************)
EXTENDS ArbSearch, TLC

CONSTANTS Lines,       \* the parsed pools, known to the registry
          Pools0,      \* pools at the first block
          Balance0,    \* the caller's balances at the first block
          Approved0,   \* the hubs whose allowance it has given before
          Hubs,        \* hub tokens, in the order they are tried
          Sizes,       \* per hub the start amounts
          Trades,      \* swaps of others: [pool, in, out, amount]
          Orders,      \* map orders of the tokens
          ChanCap,     \* blockCh (4)
          MaxBlocks, MaxRestarts

(* The pools' tokens and the hubs are tokens, the amounts are natural, and *)
(* the 16-bit index of a known pool is that of a known pool.               *)
ASSUME BotAssumption ==
  /\ Lines \in Seq([tokens : Seq(Tokens)])
  /\ \A i \in DOMAIN Lines \intersect Pools : ((i - 1) % 65536) + 1 \in Pools
  /\ Pools0 \in [Pools -> V2Pool] /\ Balance0 \in [Tokens -> Nat]
  /\ Hubs \in Seq(Tokens) /\ \A i \in DOMAIN Hubs : Sizes[Hubs[i]] \in Seq(Nat)
  /\ \A t \in Trades : t.pool \in Pools /\ t.amount \in Nat
  /\ Orders \subseteq Seq(Tokens)

Adj == [t \in Tokens |-> BuildAdjacency(Lines, Pools, t)]

VARIABLES chain,     \* per block: pools, the caller's balances, approvals and nonce
          mempool,   \* the caller's transactions the node holds
          rep,       \* the block of the replica
          blockCh,   \* block events: the block and the pools it touched
          cached,    \* per pool the block its quoter was built at, 0 if none
          overlay,   \* per pool the block at which the overlay read it, 0 if not yet
          bot,       \* where the main goroutine is, and what it found
          nextNonce,
          restarts

chainVars == <<chain, mempool>>
vars == <<chain, mempool, rep, blockCh, cached, overlay, bot, nextNonce, restarts>>

Latest == chain[Len(chain)]
HubSet == {Hubs[i] : i \in DOMAIN Hubs}
None == [p \in Pools |-> 0]
Started == [pc |-> "start", hub |-> 1, block |-> 0, listening |-> FALSE, sent |-> FALSE,
            found |-> <<>>, maxBalance |-> [t \in HubSet |-> 0], price |-> [t \in HubSet |-> 1]]

Init == /\ chain = <<[pools |-> Pools0, bal |-> Balance0, approved |-> Approved0, nonce |-> 1]>>
        /\ mempool = {}
        /\ rep = 1 /\ blockCh = <<>> /\ cached = None /\ overlay = None
        /\ bot = Started /\ nextNonce = 0 /\ restarts = 0

\* A route in one swap() call: an explicit amount for its first leg only.
SwapAt(s, path, amountIn) ==
  swap(s.pools, path, [i \in DOMAIN path |-> IF i = 1 THEN amountIn ELSE 0], 1, s.bal)

\* What a transaction of the caller does when it is mined; an approval has no path.
Executed(s, tx) ==
  LET r == SwapAt(s, tx.path, tx.amountIn)
      paid == [s EXCEPT !.nonce = @ + 1]
  IN IF tx.path = <<>> THEN [paid EXCEPT !.approved = @ \union {tx.hub}]
     ELSE IF tx.hub \notin s.approved \/ ~r.ok THEN paid
     ELSE [paid EXCEPT !.pools = r.pools, !.bal = r.sender]

\* A block: a swap of someone else and, perhaps, the caller's next transaction.
Mine(t, own) ==
  LET next == {tx \in mempool : tx.nonce = Latest.nonce}
      out == PoolQuote(Latest.pools, Leg(t.pool, t.in, t.out), t.amount)
      traded == [Latest EXCEPT !.pools[t.pool] = PairAfter(@, t.amount, out, t.in < t.out)]
  IN /\ Len(chain) < MaxBlocks
     /\ own => next # {}
     /\ chain' = Append(chain, IF own THEN Executed(traded, CHOOSE tx \in next : TRUE) ELSE traded)
     /\ mempool' = IF own THEN mempool \ next ELSE mempool
     /\ UNCHANGED <<rep, blockCh, cached, overlay, bot, nextNonce, restarts>>

\* The pools in a view that has read each at a block of its own, or reads it now.
ViewOf(at) == [p \in Pools |-> chain[IF at[p] = 0 THEN rep ELSE at[p]].pools[p]]

\* The callback's non-blocking send: a full channel drops the event.
Signal(ev) == blockCh' = IF Len(blockCh) < ChanCap THEN Append(blockCh, ev) ELSE blockCh

\* runBlock holds the read lock from the search to the submission.
Locked == bot.pc \in {"verify", "submit"}

(* LiveState applies the next diff under the write lock and calls the      *)
(* callback, which is registered only after the initial run.               *)
ApplyDiff ==
  /\ rep < Len(chain) /\ ~Locked /\ bot.pc # "start"
  /\ rep' = rep + 1
  /\ IF bot.listening
     THEN Signal([block |-> rep',
                  dirty |-> {p \in Pools : chain[rep'].pools[p] # chain[rep].pools[p]}])
     ELSE UNCHANGED blockCh
  /\ UNCHANGED <<chainVars, cached, overlay, bot, nextNonce, restarts>>

(* Start: connect at the head, build the quoters, read balances and        *)
(* prices, and ask for the nonce, 0 when that fails.                       *)
Start(answered) ==
  /\ bot.pc = "start"
  /\ rep' = Len(chain) /\ blockCh' = <<>>
  /\ cached' = [p \in Pools |-> Len(chain)] /\ overlay' = None
  /\ nextNonce' = IF answered THEN Latest.nonce ELSE 0
  /\ bot' = [Started EXCEPT !.pc = "approve",
               !.maxBalance = [t \in HubSet |-> Latest.bal[t]],
               !.price = [t \in HubSet |->
                  IF t = WAVAX THEN oneAVAX ELSE Max({1, quoteAVAXPrice(Latest.pools, Adj, t)})]]
  /\ UNCHANGED <<chainVars, restarts>>

\* The process dies and is started again.
Restart == /\ restarts < MaxRestarts /\ restarts' = restarts + 1
           /\ bot.pc # "start" /\ bot' = Started
           /\ UNCHANGED <<chainVars, rep, blockCh, cached, overlay, nextNonce>>

(* The node takes a transaction unless its nonce is used or waiting: with  *)
(* the same tip of zero there is no replacement.                           *)
Acceptable(tx) == tx.nonce >= Latest.nonce /\ \A u \in mempool : u.nonce # tx.nonce

\* Mutant: the nonce counts attempts.
SendCounting(tx, arrives, answered) ==
  /\ mempool' = IF arrives /\ Acceptable(tx) THEN mempool \union {tx} ELSE mempool
  /\ nextNonce' = nextNonce + 1

(* eth_sendRawTransaction over HTTP: the request or its answer may be      *)
(* lost, and the nonce is counted only when the node has confirmed.        *)
Send(tx, arrives, answered) ==
  /\ mempool' = IF arrives /\ Acceptable(tx) THEN mempool \union {tx} ELSE mempool
  /\ nextNonce' = IF arrives /\ answered /\ Acceptable(tx) THEN nextNonce + 1 ELSE nextNonce

\* The bot after hub i of ensureApprovals.
Approved(i) == IF i = Len(Hubs) THEN [bot EXCEPT !.pc = "initial", !.hub = 1]
               ELSE [bot EXCEPT !.hub = i + 1]

\* ensureApprovals, one hub: an unknown allowance counts as none.
HasAllowance == /\ bot.pc = "approve" /\ Hubs[bot.hub] \in Latest.approved
                /\ bot' = Approved(bot.hub)
                /\ UNCHANGED <<chainVars, rep, blockCh, cached, overlay, nextNonce, restarts>>

Approve(arrives, answered) ==
  /\ bot.pc = "approve"
  /\ Send([nonce |-> nextNonce, hub |-> Hubs[bot.hub], path |-> <<>>, amountIn |-> 0,
           amountOut |-> 0, block |-> 0, run |-> restarts], arrives, answered)
  /\ bot' = Approved(bot.hub)
  /\ UNCHANGED <<chain, rep, blockCh, cached, overlay, restarts>>

(* The next block event: the quoters of the pools it touched are dropped.  *)
TakeEvent == /\ bot.pc = "wait" /\ blockCh # <<>>
             /\ blockCh' = Tail(blockCh)
             /\ cached' = [p \in Pools |-> IF p \in blockCh[1].dirty THEN 0 ELSE cached[p]]
             /\ bot' = [bot EXCEPT !.pc = "event", !.block = blockCh[1].block]
             /\ UNCHANGED <<chainVars, rep, overlay, nextNonce, restarts>>

\* Mutant: every hub's result is tried.
FromAll(b, i) ==
  LET left == {j \in i..Len(Hubs) : b.found[j] # <<>>}
  IN IF left # {} THEN [b EXCEPT !.pc = "verify", !.hub = Min(left)]
     ELSE [b EXCEPT !.pc = IF b.listening THEN "wait" ELSE "ran", !.hub = 1, !.found = <<>>,
                    !.sent = FALSE]

\* The bot at the first result from hub i on, or done with the block.
From(b, i) ==
  LET left == {j \in i..Len(Hubs) : b.found[j] # <<>> /\ ~b.sent}
  IN IF left # {} THEN [b EXCEPT !.pc = "verify", !.hub = Min(left)]
     ELSE [b EXCEPT !.pc = IF b.listening THEN "wait" ELSE "ran", !.hub = 1, !.found = <<>>,
                    !.sent = FALSE]

\* The pools the prescreen may choose for each hub.
Selections(order) ==
  LET choice(data) == [i \in DOMAIN Hubs |-> prescreenPools(data, Adj, Hubs[i])]
      pick(sets) == {f \in [DOMAIN Hubs -> UNION Range(sets)] : \A i \in DOMAIN Hubs : f[i] \in sets[i]}
  IN pick(choice(buildPrescreenData(ViewOf(cached), Adj, order)))

\* The prices of a run: a hub without a quote keeps its last one.
Prices(ps) ==
  LET new(t, q) == IF t = WAVAX \/ q = 0 THEN bot.price[t] ELSE q
  IN [t \in HubSet |-> new(t, quoteAVAXPrice(ps, Adj, t))]

(* What verification and sizing find among the candidates of each hub.     *)
(* `run' and `paid' are the pools of the cycles that were executed, and    *)
(* that executed without a revert.                                         *)
Verified(view, price, cands) ==
  LET tried == UNION {{<<Hubs[i], c>> : c \in Range(Distinct(cands[i]))} : i \in DOMAIN Hubs}
      pays(x) == evmVerifyPath(view, x[2].path, x[2].amountIn, price[x[1]]) # <<>>
      poolsOf(xs) == UNION {Range(PathKey(x[2])) : x \in xs}
  IN [price |-> price, run |-> poolsOf(tried), paid |-> poolsOf({x \in tried : pays(x)}),
      found |-> [i \in DOMAIN Hubs |-> HubBest(view, cands[i], price[Hubs[i]])]]

(* What runBlock finds: prices, prescreen, and the search of every hub, on *)
(* the quoters and the overlay as they are.                                *)
Outcome(order, sel) ==
  LET on(ps) == Verified(ViewOf(overlay), Prices(ps),
                  [i \in DOMAIN Hubs |->
                     Candidates(ps, filterAdjacency(Adj, sel[i]), Hubs[i], Sizes[Hubs[i]],
                                bot.maxBalance[Hubs[i]], order)])
  IN on(ViewOf(cached))

(* runBlock under the read lock up to its results.  The quoters and the    *)
(* overlay keep what they read; a cycle that reverts has read some pools.  *)
Search(block) ==
  \E r \in UNION {{Outcome(o, sel) : sel \in Selections(o)} : o \in Orders} :
    /\ cached' = [p \in Pools |-> IF cached[p] = 0 THEN rep ELSE cached[p]]
    /\ \E extra \in SUBSET (r.run \ r.paid) :
         overlay' = [p \in Pools |-> IF overlay[p] = 0 /\ p \in r.paid \union extra
                                     THEN rep ELSE overlay[p]]
    /\ bot' = From([bot EXCEPT !.block = block, !.price = r.price, !.found = r.found], 1)
    /\ UNCHANGED <<chainVars, rep, blockCh, nextNonce, restarts>>

RunInitial == bot.pc = "initial" /\ Search(rep)

RunBlock == bot.pc = "event" /\ Search(bot.block)

\* SetOnBlock, after the initial run.
Register == /\ bot.pc = "ran" /\ bot' = [bot EXCEPT !.pc = "wait", !.listening = TRUE]
            /\ UNCHANGED <<chainVars, rep, blockCh, cached, overlay, nextNonce, restarts>>

\* The result that is being verified or submitted.
Result == bot.found[bot.hub][1]

\* Mutant: the local result is taken as it is.
NodeTrusts(s, hub, r) == TRUE

(* The test of verifyOnNode: the node executes the call at the bot's block *)
(* with the caller's real balance and approval, and pays what the local    *)
(* EVM said.                                                               *)
NodeAgrees(s, hub, r) ==
  LET n == SwapAt(s, r.path, r.amountIn)
  IN hub \in s.approved /\ n.ok /\ n.amountOut = r.amountOut

verifyOnNode(answered) ==
  /\ bot.pc = "verify"
  /\ bot' = IF answered /\ NodeAgrees(chain[bot.block], Hubs[bot.hub], Result)
            THEN [bot EXCEPT !.pc = "submit"] ELSE From(bot, bot.hub + 1)
  /\ UNCHANGED <<chainVars, rep, blockCh, cached, overlay, nextNonce, restarts>>

\* After a confirmed one the block sends no other.
submitArb(arrives, answered) ==
  /\ bot.pc = "submit"
  /\ Send([nonce |-> nextNonce, hub |-> Hubs[bot.hub], path |-> Result.path,
           amountIn |-> Result.amountIn, amountOut |-> Result.amountOut,
           block |-> bot.block, run |-> restarts], arrives, answered)
  /\ bot' = From([bot EXCEPT !.sent = nextNonce' > nextNonce], bot.hub + 1)
  /\ UNCHANGED <<chain, rep, blockCh, cached, overlay, restarts>>

BotStep == \/ \E a \in BOOLEAN : Start(a) \/ verifyOnNode(a)
           \/ \E a, b \in BOOLEAN : Approve(a, b) \/ submitArb(a, b)
           \/ HasAllowance \/ RunInitial \/ Register \/ TakeEvent \/ RunBlock

Next == \/ \E t \in Trades, own \in BOOLEAN : Mine(t, own)
        \/ ApplyDiff \/ Restart \/ BotStep

Spec == Init /\ [][Next]_vars
-----------------------------------------------------------------------------
\* The caller's swaps that the node has taken and not yet mined.
Waiting == {tx \in mempool : tx.path # <<>>}

(* What is sent pays, on the block it was found for, what the bot says,    *)
(* with the balance and approval of that block: the stale overlay and the  *)
(* quoters of dropped blocks never decide alone.  What it pays contains    *)
(* the input: swap takes its snapshot after the pull, so the caller's gain *)
(* is amountOut - amountIn and not, as runBlock takes it, amountOut.       *)
SentHoldsOnChain ==
  \A tx \in Waiting : LET s == chain[tx.block]
                           r == SwapAt(s, tx.path, tx.amountIn)
                       IN /\ tx.hub \in s.approved /\ r.ok /\ r.amountOut = tx.amountOut
                          /\ r.sender[tx.hub] - s.bal[tx.hub] = tx.amountOut - tx.amountIn

(* One transaction per block and run of the bot, also when a confirmation  *)
(* was lost: the next attempt has the same nonce and is refused.           *)
OnePerBlock ==
  \A tx, u \in Waiting : tx.run = u.run /\ tx.block = u.block => tx = u

(* The nonces the node holds are those that follow the account's, without  *)
(* a gap that would hold up every later transaction.                       *)
NoNonceGap ==
  /\ {tx.nonce : tx \in mempool} = Latest.nonce..(Latest.nonce + Cardinality(mempool) - 1)
  /\ bot.pc # "start" => nextNonce <= Latest.nonce + Cardinality(mempool)

(* No cycle is lost to the pruning of formulaBFS: when the bot searches,   *)
(* whatever blocks its quoters are of, it gets the candidates of a search  *)
(* that follows every edge, in the same order, and each one's formulaOut   *)
(* is the quote of its path.  What prescreen and topK cut stays cut.       *)
SearchIsExact ==
  bot.pc \in {"initial", "event"} =>
    \A o \in Orders, hub \in HubSet : \A i \in DOMAIN Sizes[hub] :
      LET ps == ViewOf(cached)
          all == LayeredSearch(ps, Adj, hub, Sizes[hub][i], o, [r \in 1..HopCap |-> Tokens])
          got == formulaBFS(ps, Adj, hub, Sizes[hub][i], o)
      IN /\ got = all
         /\ \A c \in Range(got) : QuotePath(ps, c.path, c.amountIn) = c.formulaOut

=============================================================================
