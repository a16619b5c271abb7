# Verification of the Avalanche DeFi toolbox

The toolbox quotes swaps off-chain and trades on what it quotes. A **state
server** follows an Avalanche node and replicates the contract state somebody
has asked for. **Clients** (Go programs and the browser) keep a replica of that
state in memory, evaluate pool formulas and EVM calls against it, search and
split routes, encode them for the router contract, and, in the arbitrage bot,
submit them. A quote is only worth something if the state it comes from is the
state of one recent block, if the formula pays what the contract pays, and if
the encoded program does what the search computed. This project follows a value
along that way: node, server cache, wire, replica, overlays and call journal,
pool manager, formula, search, split, merge, calldata, router, transaction.

## Inventory

| component | state | operations | hard parts |
|---|---|---|---|
| State server (`cmd/state-server/main.go`), one `stateServer` per endpoint `/live` or `/debug/N` | capped `cache` and its block, registered subscribers, `ready` | start-up, `subscribeNewHeads`, `blockLoop`, `handleStateWS`, `handleClientRequest` | the node is queried between two critical sections; dump and registration against the block loop; caps |
| Node RPC pool (`rpcSocket`, `rpcPool`) and eth_call proxy | per socket: connection, ready gate, token, pending table; memo table | `send`, `readLoop`, `connect`, `failAllLocked`, `proxyEthCall` | a connection that ends between any two steps of `send`; no timeout; a memo that is never invalidated |
| `LiveState` (`statedb/livestate.go`, `immutable.go`, `statedb.go`) | primary and backfill layer, block, `pushCh`, `blockMu` | `Connect`, `handlePushMessage`, `RLock`/`RUnlock`, `Fetch*` | answers of another block than the one asked at; a full queue; writer against readers |
| `WSTransport` (`statedb/transport_ws.go`) | `pending` by id | `Call`, `readLoop`, `Close` | timeout against late answer; the read loop must not block |
| StateDB and overlays (`statedb/statedb.go`, `immutable.go`) | two layers per database, chain of parents | getters, `NewOverlay`, overrides, `ApplyBlockDiff`, calls | an overlay caches what it reads; errors without a place to go |
| `CallState` (`statedb/callstate.go`) | journal, snapshots, dirty maps | setters, `Snapshot`, `RevertToSnapshot`, `Reset` | nested reverts over many journal entries |
| Browser SDK (`cmd/wasm-sdk`) | `pending`, `firstMsg`, a replica | `onmessage`, `Call`, `ConnectBrowser`, quotes, `ethCall` | callbacks in goroutines of their own; first push; error answers |
| `Quoter` (`quoter/quoter.go`) | pool manager, overlay, block channel | `SetOnBlock` callback, block loop, `Quote` | invalidation outside the lock, dropped notifications |
| `PoolManager` (`formulas/pool_quoter.go`, `overlay.go`) | built quoters, slot dependencies, quote caches | `Get`, `Quote`, `Invalidate*`, overlays | a stale quote stored after its invalidation |
| Formulas (`formulas/*.go`) | per-pool precomputed steps | one quoter per pool type | rounding, word overflow, storage layouts, pools at a boundary |
| Pathfinder (`pathfinder/bfs.go`, `pools.go`) | none | `ParsePools`, `BuildAdjacency`, `FindTopRoutes` | pruning must not lose the best route |
| Splitters (`pathfinder/splitter`) | none | one per strategy | a quote must be made on the pools as the legs before leave them |
| Merging and encoding (`pathfinder/merge.go`, `encode.go`) | none | `MergeRoutes`, `EncodeSquished`, `EncodeSwap*` | order of feeders and sweeps; nested ABI offsets |
| `HayabusaRouter.sol` | token balances during a swap | `swap` | explicit amounts against balance sweeps |
| Arbitrage bot (`examples/go/arbitrage/main.go`) | nonce, approvals, block channel, overlay | prescreen, search, verify, size, submit | lost answers, dropped events, restarts, stale overlay |
| Experiments, tools, benchmarks, MCP server | none of the system's | | |

How they interact: the node pushes `newHeads` to the server and answers its RPC
over the socket pool; the server pushes `block_diff` frames and answers requests
on the same WebSocket; `LiveState` applies diffs under the write lock of `blockMu`
and calls the quoter's callback there; the callback hands the changed slots to a
channel; the block loop invalidates pools and calls the program's `onBlock`;
quotes hold the read lock and call back into `LiveState` for slots they miss.
A quote runs the pathfinder over the pool manager, a splitter over overlays of
it, merging, the encoder, and an EVM call of the router on an overlay. The bot
does the same for cycles and asks the node before it sends.

What makes each correct:

- server: the cache holds values of its own block only; a subscriber gets a dump
  and then every later diff of what the dump holds; the caps hold;
- RPC pool: a waiting caller is known to its socket or has its outcome;
- client: a cached slot is never older than the block the client says it is at,
  and a stale one has its repair on the way, both except for slots written by a
  diff that `pushCh` dropped; block updates and fetches come to an end;
- overlays: an override stays; what is read ages no more than the overlay;
- `CallState`: a revert restores the snapshot exactly;
- pool manager: every cached quoter is registered for every slot it was built
  from; nothing stale survives the invalidation, unless a quote of another
  goroutine and the invalidation met at the pool;
- formulas: no quote is more than the contract's invariant and holdings pay;
- routing: legs replay with the amounts announced, nothing stays on the router,
  calldata decodes to the program encoded;
- bot: what it sends holds on the chain at its block; nonces have no gap.

## Modules

| module | models | built on |
|---|---|---|
| `Wire` | keys, values, frames of a WebSocket, the node's append-only chain | |
| `StateServer` | one endpoint of the server; the same among arbitrary connections (`OpenSpec`) | `Wire` |
| `Upstream` | RPC socket pool and eth_call proxy | |
| `LiveState` | the client replica, its transport and its quoting goroutines | `Wire` |
| `StateSync` | server, node and clients together | `StateServer`, `LiveState` |
| `Browser` | the browser transport and its replica | |
| `StateDb` | the replica below overlays and calls, one address | |
| `EvmState` | what a call state promises: single-field writes, remembered copies, and a revert that ends in one | |
| `CallState` | the journal that implements it | refines `EvmState` |
| `PoolManager`, `Quoter` | quoters, dependencies, caches; callback, channel, block loop, quotes | |
| `TickMath`, `FormulaV2`, `V3` (with V4 and Algebra), `LFJ`, `DODO`, `PharaohV1`, `WooFi`, `Wombat` | the quoters of nine pool families as operators | |
| `PoolContracts` | the contracts they quote (external) | the formulas |
| `PoolQuotes` | one pool traded, upgraded, re-read and quoted | both |
| `Pathfinder` | adjacency, beam search, verification | `FormulaV2`, `Router` |
| `Splitters` | the splitters and the pool overlay they quote on | `Pathfinder` |
| `MergeRoutes`, `Calldata`, `Router` | merging, ABI layout, execution | |
| `SplitRouting` | one request from quote to execution | all of routing |
| `ArbSearch`, `ArbBot` | the bot's search; the bot, its node and the chain | `Pathfinder`, `Router` |
| `MC*` | constants and symmetry for TLC | |
| `*Proofs` | theorems and their proofs | the module of that name |

### Wire, StateServer

`chain[b]` is the state at block `b`; `Mine` appends a block in which a set of
keys gets new values. A key stands for one storage slot (`SlotKey`), balance or
nonce (`AcctKey`) or code (`CodeKey`) of an address; a value is identified with
the block that wrote it, so that two values are equal only if they are the same
write. `up`, `down` and `dump` are the frames of each connection. Encodings (gob,
JSON, hex) are left out.

`ProcessBlock` is one round of `blockLoop` under `blockMu.Lock`. A request is
`LookupRequest` (read lock, cache), then, for a miss, `FinishFetch` or `FailFetch`
after any number of other steps, since the node is asked without the lock, then
`Reply`. The slots of a diff come from Go maps: `ProcessBlock` inserts them in any
order (`Orders`, `Filled`), and `Admit` is the code's counting for one of them. A
request that does not parse gets an error reply and touches no state; it has no
action. `OpenSpec` closes the
model with connections that come as subscribers or workers, send any key under
any id, read, and vanish.

### Upstream

A call takes a socket by round robin, waits for its token (a queue per socket)
and its ready gate, registers, writes and waits; every one of these is a step,
and `Break`, `Lost` and `Dial` may come between any two. `Lost` is what `connect`
does after `readLoop` returns: everything pending fails. The proxy looks in its
memo table first, answers a hit from it, and stores results of the pool, not errors. `Break` is bounded by `MaxDials`
so that a last connection stays up.

### LiveState and StateSync

`primary` and `backfill` are the two layers, `pushCh` is the queue with its
drop-oldest rule in two steps (`ReadPush`, `DropOldest`), since the consumer may
run between them. `RLock`, `Fetch`, `StoreBackfill`, `Timeout` and `RUnlock` are the
life of a quoting goroutine; `ApplyBlockDiff` waits for readers, and a waiting
update keeps new readers out as `sync.RWMutex` does. `lost` records which slots a
dropped diff would have written.

### Browser

Go's runtime on `js/wasm` has one thread, so a step of a goroutine runs until it
blocks; `blockMu` serves its waiters in order. `onmessage` starts a goroutine per
push: the diffs that wait for the lock are the queue `waiting`. `firstMsg` is the
channel of one for the dump: after `ConnectBrowser` has read it, the next push
fits in it again and is swallowed. An error answer has no result and decodes to
zero. `GiveUp` is the 30 s timer or the closed socket. The other end is the state
server as in `StateServer`, cut down to one connection: its block loop (`Mine`),
and its read loop, which subscribes, or looks a request up under the lock
(`Lookup`, `stamp` is the block it was done at) and replies later with the value of
that block or an error (`Reply`). Every request is a miss here or might as well
be: a hit has the same value. Blocks that write nothing are not broadcast, and the
model has none.

### StateDb

One address with a slot, balance, nonce and code, in a stack of databases: the
replica (layer 1) and overlays above. The replica starts from the dump of any
subset of the keys (`Dumped`): an address with any cached account field has one
entry, whose balance and nonce are taken in any case, as zero if the server had
not cached them (`Zeros`); `zeroed` remembers these. `Get` is the getters' walk through primary,
backfill and parent: the layers `Asking` ask in turn, down to the one that knows
or the server, are told the answer (`Told`) and keep it as they do (`Keeping`).
`BeginCall`/`CallWrites`/`CallTransfers`/`EndCall` are an EVM call executed on the
replica itself, as `ethCall` of the browser does. Fetches answer at the replica's
block here; answers of later blocks are the subject of `StateSync`. `dirtied`
records what such a call wrote.

### CallState and EvmState

Every setter with its journal entry is an action; `UndoLast` is one iteration of
the loop in `RevertToSnapshot`, `Undo` what the entry's `revert` does. Words wrap
at `Modulus`. `EvmState` keeps full copies instead: a write sets one field, and a
revert goes to the remembered copy when it begins (`RevertToSnapshot`) and may not
change it when it returns (`Reverted`). The refinement maps a revert in progress
to the state it must end in, so that the undo steps are stutters; when the revert
returns the abstract state is the journal's own again, and has to be the copy.

### PoolManager and Quoter

A slot's value is the block that wrote it, and a quoter is the values and the time
it was built from; a cached quote is the quoter and the balance that produced it.
One amount and direction per pool stands for all. `Quote` is the steps between its
critical sections: `Lookup`, `Get`/`Build`/`Publish`/`GetZero`, `Cap`, `Store`,
`Return`. `Invalidate` and its clean-up of `depSlots` are two steps, because the
maps `pools` and `depSlots` have no lock. (Go may also abort the process when it
notices the race on those maps; the model takes the outcomes in which it does
not.) Any goroutines of `Proc` may quote, as the bot's hubs do (main.go:1301). The
history variable `raced` collects the pools of which another goroutine had a
quoter in hand, or built one, while the loop invalidated them or set their time:
about those nothing orders the two, the code goes wrong, and the properties are
silent. `overlay` is the backfill of `stateWithOverrides`, through which the EVM
verifies routes.

### Formulas, contracts and PoolQuotes

The formulas are operators over small words: `Q96`, `Q32` and the magic numbers of
the tick table scale 256-bit fixed point down to TLC's integers, with a word of
`Q128 * Q128` as in the code; sums and products wrap where the code's do
(`WordSum`, `RoundUp`, `Word64` for the LFJ fee), but the pools of the run are small
enough that none does: the run shows nothing about words that overflow.
`getTickAtSqrtRatioU256` is its specification, the tick of a price, in place of the
logarithm of the code. `PoolContracts` has models of the contracts (external,
from how the code reads their storage), in exact arithmetic. `PoolQuotes` takes a
pool through trades in the contract, oracle posts, a storage upgrade (`Migrate`)
and restarts of the process (which lose the remembered layout), and every
invariant quotes every amount in every direction in the state reached.

### Routing

`Pathfinder` is the layered search with its three best entries per token, over
constant-product pools. `Splitters` has every strategy; `RunLeg` is the code's
overlay: the pools after the legs so far. `MergeRoutes` is the suffix trie, the
merging of first hops, the extraction of mixed steps and the collapse of
duplicates; `Calldata` the word layout of the nested ABI arrays with its
offsets, and the decoding the contract's ABI decoder does; `Router` is `swap` of
`contracts/HayabusaRouter.sol`. `SplitRouting` composes them: `Quote`, `Split(s)` by
any strategy, `Squish` with or without merging of first hops.

### ArbSearch and ArbBot

`ArbSearch` is the prescreen, `formulaBFS`, verification and sizing of
`examples/go/arbitrage/main.go`; the outcome depends on map order, which is a
parameter. `ArbBot` is the bot's run (nonce, approvals, initial search,
registration, one event after another, verification on the node, submission),
with the search of all hubs, whose goroutines only read, as one step,
the chain with other people's trades, the mempool, answers that are lost, and
restarts. The replica it searches on and the values its overlay cached at
earlier blocks (`cached`) differ from the chain.

## Runs

| run | instance | shows |
|---|---|---|
| `server` | 2 connections, 3 slots of 2 contracts, both caps 1, 1 block, 1 request in flight each | `TypeOK`, `CacheCoherent`, `CapsHold`, `StreamComplete` |
| `state_sync` | `/live` or `/debug/1`, 1 client with 2 goroutines, 2 slots, 3 blocks, queue of 2 | `NeverOlderThanBlock`, `StaleIsPending`, `FrozenIsOneBlock` |
| `state_sync_live` | 2 goroutines, 1 slot, 3 blocks, queue of 1, fair | `CatchesUp`, `FetchReturns` |
| `call_state` | 2 addresses, 2 slots each, 3 journal entries, 2 snapshots | `RestoresSnapshot`, `ImplementsEvmState` |
| `quoter` | 2 pools with a shared slot, one hidden from `SetBlockTimestamp`, channel of 1, 3 blocks, quotes in the loop's callback only (`Proc = {Loop}`), fair | `DepsComplete`, `StaleUntilInvalidated`, `TimesInSync`, `LoopAndUpdatesReturn` |
| `split_routing` | 5 pools, 3 tokens, all 14 strategies, several graphs and reserves, a pair with a dead direction and one short of a token | `BeamKeepsBest`, `LegsReplay`, `MergedSweepsAll`, `CalldataDecodes` |
| `pool_quotes` | pools of nine families, 3 trades of 4 amounts, 4 storage layouts, 25 ticks | `LayoutDetected`, `V3Lossless`, `V4MatchesV3`, `LbKeepsValue`, `PaysFromReserve`, `DodoMonotone`, `SolidlyAccepted`, `WombatSqrtExact` |
| `upstream` | 2 sockets with 2 connections each, 2 callers, 3 calls, 1 block, fair | `NobodyStranded`, `AnswersReal`, `CallsReturn` |
| `browser` | 2 slots, 3 blocks, 1 reader with 2 calls, fair | `WrongOnlyWhere`, `OnlyFirstLost`, `NobodyHangs` |
| `arb_bot` | 5 pools, 4 tokens, 2 hubs, 3 blocks, channel of 1, 1 restart | `SentHoldsOnChain`, `OnePerBlock`, `NoNonceGap`, `SearchIsExact` |
| `state_db` | replica of any dump and 2 overlays, 2 blocks, one of the four keys at a time | `ReplicaIsChain`, `OverlaysAnswer` |
| `stranded_tokens` | as `split_routing` | refutes `HoppedSweepsAll` |

**Why the bounds are enough.** One block lets a fetch of the server straddle it
(with the caps and two connections that is what its races need; the invariants
of the server are proved for all bounds); three let a diff be dropped between
two that are not. A queue or channel of one or two fills within three blocks. Two
goroutines, sockets or connections are the fewest that race. Two slots are the
fewest that can be of different blocks, three the fewest that meet both caps at
once. Two nested snapshots over three entries have entries below, between and
above. Two overlays are the fewest with an overlay on an overlay. The routing
graph has parallel pools on both of its legs and a direct pool, so that routes
share first hops, last hops or nothing; input and output token are different or
the same, one pool may be empty or revert, and the amounts are small, middling
and near the reserves. The bot's graph has cycles of two, three and four hops. 25 ticks with a spacing give
pools with several initialized ticks, a gap beyond the bitmap window and prices
exactly on a tick, and the chosen amounts end inside a tick, on one, and beyond
the last. `quoter` has the loop's
own quotes only: with a second goroutine its liveness is out of reach; the safety
properties were checked once with one (10.9 million states), and the theorems are
for any. Runs do not check for deadlock, because a bounded chain or a finished
request ends; `call_state` and `split_routing` do.

**Fairness.** `StateSync!FairSpec` and `Quoter!LiveSpec` assume that a goroutine
that can go on does (the Go scheduler), that the server and its node answer,
and that a quote unlocks after finitely many reads. In `StateSync` weak fairness is
enough, as the guard of `RLock` already says that a waiting writer goes before
later readers. `Quoter` needs strong fairness of two actions: `RLock` of the loop
(`sync.RWMutex` admits the readers that waited once a writer is done) and `RUnlock`
(a quote makes finitely many pool quotes). `Upstream` assumes that callers and
sockets run, a lost connection is dialled again (`connect` retries for ever), and
the node answers what reaches it: the code has no timeout, so without the last
`CallsReturn` is false. `Browser` assumes goroutines and timers only, nothing of
server or network. No fairness is assumed of connection losses, new quotes, new
blocks, or of time-outs outside `Browser`.

## Where code and comments disagree

`stranded_tokens` is a run TLC refutes: merge.go:36-37 says of merged first hops that the
last consumer "uses amount=0 (balance) to sweep leftovers", but a shared suffix
that was to sweep several feeders gets an explicit amount too and is emitted
before the later feeders, whose output then stays on the router.

The models also reproduce the following; the invariants are stated so that they
hold beside them, and the comment at each says so:

| where | what the comment or name says | what the code does | where it shows |
|---|---|---|---|
| livestate.go:21 | no quote sees a half-applied block | on `/live` a fetch is answered at the server's newer block, and a quote mixes two blocks; on `/debug/N` it cannot | `FrozenIsOneBlock` is about frozen endpoints only |
| livestate.go:154 | a dropped diff is made up for by later ones | its slots stay old until something writes them again: the client is then at a block with the value of an earlier one | `lost` in `StaleIsPending`, `Kept` in `NeverOlderThanBlock` |
| immutable.go:164 | | code in block diffs is ignored by the client | `NeverOlderThanBlock` is about slots, and `ReplicaIsChain` exempts code |
| main.go:541 (server) | | the dump has zeros for account fields that are not cached, and the client takes balance and nonce from them | `Zero` is exempt in `StreamComplete`, `zeroed` in `ReplicaIsChain` and `OverlaysAnswer` |
| main.go:628 (server) | | a transaction result without a post state, or a nonce that does not parse, is skipped and the block still advances | not modelled: the traces of `Wire` are complete |
| main.go:981 (server) | | `/debug/N` serves block 0 when the header cannot be fetched | `StartFrozen` |
| callstate.go:267 | delegate with error propagation | a nonce or code hash that cannot be fetched is zero, the call succeeds | `FailedRead` |
| pool_quoter.go:472 | the next `Get` re-records the slots | a `Get` of another goroutine between the halves of `Invalidate` loses them | `raced` in `DepsComplete`, `StaleUntilInvalidated`, `TimesInSync` |
| quoter.go:87 | | the verification overlay never gets a block and keeps the first values it saw | `OverlaysAnswer` (overlays age) |
| main.go:1424 (bot) | the amount returned is the profit | the router's snapshot is after the pull, so it contains the input | `SentHoldsOnChain` |
| wasm_state.go:136 | | the first diff after the dump is swallowed | `Swallowed` in `WrongOnlyWhere` |
| waterfill.go | | spends more than the input when the first rate is too high | exempt in `LegsReplay` |
| wombat.go:322 | "computes integer sqrt" | the loop at wombat.go:349 does not terminate just below a square | `WombatSqrtExact` allows no result there, and only there |
| shared_u256.go:234 | "Check remainder: (a*b) mod denom != 0" | the product is truncated to 256 bits first; a quote whose products leave the word can differ from the contract by the rounding | `RoundUp`; not reached by the pools of `pool_quotes`, with a liquidity of 300 it is |
| v3_u256.go:27 | | a layout is resolved once per process: after an upgrade of the pool a running process quotes from the former one | `cache = live` in `V3Lossless` |
| lfj_v2_fast.go:116 | fits in `uint64` "always" for uint20 * uint16 | 2^36 does not; its square and the product with the control parameter can wrap | `Word64`; not reached in the run |
| pharaoh_v1.go:412 | `getY` mirrors the contract "including the dy==0 edge-case handling" | there is no such handling | `SolidlyAccepted` (equal decimals) |
| v3.go:153 | | a price exactly on its tick's upper boundary is not recognised | `OnBoundary` in `LayoutDetected` |

## Proofs

All proofs are for every value of the constants under the assumptions named
in the modules (sets of keys and so on are arbitrary, bounds are naturals, model
values such as `Absent` are not among the values).

- `StateServerProofs`: `ServerTypeCorrect`, `ServerCacheCoherent`, `ServerCapsHold`,
  `ServerStreamComplete`. `CacheCoherent` alone is not inductive: a fetch stores its
  answer if the server's block is the block it asked at, which needs that the
  answer is the chain's value there and that the chain does not change below its
  head. `ServerInv` adds `ChainOK` (a key that a block did not write keeps its
  value) and `ServerSteady` (no fetch is ahead of the server, the server not ahead
  of the node, nothing is cached before it is ready). `ProcessBlock` is the step
  that needs `ChainOK`: what the diff does not mention is still right at the next
  block. The lemmas about the server's own steps hold whatever connects to it,
  and `StateSyncProofs` uses them too. For `ServerCapsHold` the insertion of a diff
  is followed slot by slot in an arbitrary order: `FillingExists` gives the caches
  in between, `AdmitKeepsCaps` says that the code's count is that of the cache it
  inserts into, `FilledKeepsCaps` that the caps hold at the end; slots and
  contracts are finitely many (`FiniteSlots`). `ServerStreamComplete`
  goes through `StreamInv`: while a dump is unread its connection is subscribed
  and every diff since is behind it, whatever keys the dump holds.
- `CallStateProofs`: `CallTypeCorrect`, `SlotsKeepAddrs`, `RevertIsExact`,
  `JournalImplementsCopies`. The history `hist` remembers the state at each journal
  length; `JournalUndoes` says that undoing entry n takes `hist[n + 1]` to `hist[n]`.
  Each kind of entry has a lemma that its undo inverts its mutation. The one
  mutation that changes the access list without an entry (a known slot adds its
  address) is harmless only because a known slot has its address in every state
  the journal can return to (`AccessListOK`). The refinement maps a snapshot to
  the copy in `hist`; that every mutation is a single write of `EvmState` is
  `IsWrite`, and the step by which a revert returns needs `RevertIsExact`'s invariant.
- `QuoterProofs`: `QuoterTypeCorrect`, `QuoterStaysFresh`, `QuoterDepsComplete`,
  `QuoterTimesInSync`, for any goroutines that quote, in the loop's callback or
  beside it. `QuoterInv` says who holds the read lock, so that no block is applied
  under a quote (`Locks`), what is left of an event at each point of the loop
  (`LoopPhase`), that an event not yet delivered is about the last block
  (`AppliedIsLast`), so that dropping it accounts for exactly the slots that become
  stale, and, of the pools not raced over, that every quoter held anywhere, by the
  cache, a cached quote or a goroutine between two steps, is registered, at the
  right time and stale only while its invalidation is pending (`HeldGood`), and
  comes from a quoter that is still cached (`UsedBuilt`).
- `StateSyncProofs`: `SyncNeverOlder`, `SyncStaleIsPending`, `SyncFrozenIsOneBlock`,
  over server, node and clients together. `SyncInv` adds to `ServerInv`, for every client that has its dump (on
  the wire or loaded): the diffs in hand, queued, held up and on the wire come in
  the order of their blocks, after the client's block and not after the server's
  (`Ordered`); no diff of a slot is missing among them unless `pushCh` dropped it
  (`Complete`); both layers hold values from between the two blocks
  (`FreshLayers`). Where a request is (on the wire, with the handler, answered,
  fetched), its answer is or will be such a value (`AnswerOK`): the goroutine's
  read lock keeps the client at the block it had when it asked, and the server's
  block only grows.
- `UpstreamProofs`: `UpstreamStrandsNobody`, `UpstreamAnswersReal`. `UpstreamInv` adds
  where a caller's place in `send` puts its answer and its token (`SendOK`), that
  nobody is twice at a semaphore (`QueueOK`), and that ids are given out once, so
  that what is in flight under a pending id is that caller's own request
  (`WireOK`); the last is what a late answer of a lost connection would break.
- `StateDbProofs`: `StateDbReplicaIsChain`, `StateDbOverlaysAnswer`. `ReplicaIsChain` is
  about the layer that is visible; `StateDbInv` says it of both, since
  `ApplyBlockDiff` merges the backfill into the primary layer and makes it visible
  (`ReplicaOK`). A layer's code hash is that of its own code (`HashesOK`), and what
  an overlay keeps is an override below it, a value the chain has had since the
  lowest overlay was made, a failed nonce, or a zero of the dump (`OverlaysOK`).
- `BrowserProofs`: `BrowserWrongOnlyWhere`, `BrowserOnlyFirstLost`. `BrowserInv` says what
  may be on the wire, in `firstMsg` and at the lock in each phase of
  `ConnectBrowser` (`PhaseInv`), that the diffs are in the order of their blocks
  (`Ordered`) and that none is missing but the one in `firstMsg` (`Complete`), the
  fact by which `HandleBlockDiff` may skip at most that one block; that both layers
  are right (`ValuesInv`), and what is under way to a goroutine is about its key
  and recent (`AnswersInv`). `StampInv` says that the block of a lookup is one the
  waiting goroutine's replica has not passed, so that the reply is recent too.

- `ArbBotProofs`: `NoNonceGapHolds`, `OnePerBlockHolds`, `SentHoldsOnChainHolds`,
  `PruningLosesNothing`, `SearchQuotesItsPaths`, `SearchIsExactHolds`.
  `NonceInv` adds that the node holds one transaction per nonce. `OrderInv` adds
  the order of the block events (`EventOrder`) and, for the swaps of the current
  run, that one sent for the block the bot is at has the nonce of the next
  attempt (`SwapOrder`): that is why a lost confirmation does not lead to a second
  one. `MoneyInv` adds that pools and balances are numbers (`ChainTyped`), that what
  was found are cycles of the hubs (`FoundCycles`), that the node agreed to what is
  about to be sent (`NodeAgreed`), and that each swap the node holds is a cycle that
  pays on its block (`SwapsHold`). The caller's gain is the reason for the long
  part: `amountOut - amountIn` is what the caller gains only if the route starts
  and ends at the hub and only its first leg has an amount, so the proof follows the
  search from the adjacency to the result (`AdjTyped`, `FilterTyped`, `SearchTyped`,
  `CandidatesTyped`, `DistinctTyped`, `HubBestReports`) and the router leg by leg
  (`PairKept`: a pair never pays more than its reserve; `LegKept`, `ProgramKept`,
  `TotalInOfRoute`, `SwapOfCycle`). The prescreen's choice and the order of the map
  are arbitrary there. Each of these is a fold. The induction theorems of the
  library take an operator and cannot be used, so a fold is unrolled with lemmas
  about sets: `LeastElement` (from the well-founded order of the naturals) gives
  `UpTo`, that gives `FoldExists` (the function that `FoldLeft` chooses exists) and
  `FoldSteps` (a set closed under the step contains every intermediate value).
  `FoldRun` names the intermediate values, so that two folds can be compared.
  `PruningLosesNothing` runs `formulaBFS` beside the search without pruning: after
  layer `l` both have the same candidates, in the same order, and the same nodes at the
  tokens of row `HopCap - l` of the table of `Reachable` (`Same`). A token outside that
  row has no edge to the hub and none into the next row (`OutsideRow`), so what the
  pruned search does not know there never matters (`NodeApart`, `TokenApart`), and
  topK evicts the same nodes elsewhere (`EdgeAlike` up to `LayerAlike`).
  `SearchQuotesItsPaths` shows that every node and candidate carries the quote of its
  path (`AtWorth`, from `QuoteAppend`). `SearchIsExactHolds` applies both to every view
  of the quoters that the bot can have, with `MoneyInv` for the types; it is the
  property `SearchIsExact` of the run.
  `BotAssumption` says that the tokens of the pools and the hubs are tokens, that
  sizes, balances and trades are natural, and that the 16-bit index of a known
  pool is again a known pool, which the code does not check
  (pathfinder/bfs.go stores the index as a `uint16`).

Each inductive invariant was checked by TLC on the instances above first.

**Only model-checked**: the liveness properties (outside the prover's reach), and what `SplitRouting` and `PoolQuotes` say of the formulas, the beam
search, splitters, merging and calldata: their modules use `RECURSIVE` operators or
`SelectSeq`, of which the prover knows nothing. The proved invariants are still
checked in their runs, where the mutants show that they can fail.

## Not modelled, and why

- What the bot's prescreen and topK cut: both are modelled, but which of the cycles
  lost there were profitable no property says.
- A trace of the node that lacks the post state of a transaction.
- The plugin branch of Algebra pools: it is in `FormulaV3`, but no pool of
  `pool_quotes` has a plugin.
- Encodings (gob, JSON, hex), logging, flags, the HTTP and MCP front ends.
- The EVM: a third-party library. Its effect on `CallState` is any sequence of
  setter calls, on an overlay any sequence of reads, on the replica any sequence
  of writes and transfers. The cached EVM context (`GetCachedContext`), which has no
  key but the timestamp, and StateDB's per-call access list, transient storage,
  logs and refund, which mirror `CallState`'s.
- The formulas of Balancer V2 and V3, Platypus, Kyber, Synapse, Trident and
  Cavalre, the fee-on-transfer table and the token model; the registries are
  tables of addresses.
- The router's adapters for other pools than constant-product pairs,
  `quoteMulti`, and the proxy.
- Socket back-pressure: the queues of `Wire` are unbounded, so a client that does
  not read never blocks `broadcast`. A `Call` that registers after `WSTransport`'s
  read loop has ended.
- Slots that constructors read through `evmCaller`; cached balances without slot
  dependencies are modelled and exempt.
- Experiments, other examples, tools, benchmarks: earlier versions of the bot,
  scripts and measurements.

## Plan

Modelled in this order: the state path (server, client, journal, quoter), then
routing, formulas, the socket pool, the browser, overlays and the bot. Left:

1. Proofs: what the formulas promise (`PaysFromReserve` for each family) and that the
   beam search keeps the best route; `PairKept`, and `KeepTopTyped` with `FoldRun`,
   are the first lemmas of each.
2. The remaining formulas that have an invariant of their own (Balancer stable
   and weighted, Platypus).
3. A bounded socket buffer in `Wire`, for `broadcast` under the lock.
