----------------------------- MODULE Pathfinder -----------------------------
(***************************************************************************)
(* The route search (pathfinder/bfs.go): a layered search over the token   *)
(* graph that keeps the topK amounts per token and layer, and verifies the *)
(* best candidates by executing them on the router.  A node carries the    *)
(* legs that led to it; the code keeps parent indices and walks them back. *)
(***************************************************************************)
EXTENDS Router, FiniteSets

CONSTANTS topK,      \* amounts kept per token and layer (3)
          EvmTop,    \* candidates executed on the router (5)
          HopCap     \* the cap on the number of hops (4)

ASSUME SearchAssumption == {topK, EvmTop, HopCap} \subseteq Nat \ {0}

(* ParsePools: after the head-block line, a line is kept when it has six   *)
(* fields, a numeric pool type and two tokens, up to the limit (0: none).  *)
ParsePools(lines, limit) ==
  LET kept == SelectSeq(Tail(lines),
                LAMBDA l : l.fields >= 6 /\ l.typeOk /\ Len(l.tokens) >= 2)
  IN IF limit > 0 /\ Len(kept) > limit THEN SubSeq(kept, 1, limit) ELSE kept

\* The edges of one pool out of a token: one per ordered pair of positions.
PoolEdges(pool, ts, token) ==
  LET from(i) == FlattenSeq([j \in DOMAIN ts |-> IF i = j \/ ts[i] # token THEN <<>>
                                                 ELSE <<Leg(pool, token, ts[j])>>])
  IN FlattenSeq([i \in DOMAIN ts |-> from(i)])

(* The directed edges out of a token, in pool order, of the pools that the *)
(* registry knows.  The index is a uint16.                                 *)
BuildAdjacency(pools, known, token) ==
  LET idx(i) == ((i - 1) % 65536) + 1
  IN FlattenSeq([i \in DOMAIN pools |->
       IF Len(pools[i].tokens) < 2 \/ i \notin known THEN <<>>
       ELSE PoolEdges(idx(i), pools[i].tokens, token)])

\* A quote of pool i in the given pool states.
PoolQuote(ps, leg, amount) == QuoteV2(ps[leg.pool], amount, leg.tokenIn, leg.tokenOut)

\* QuotePath chains the quotes along a path; a failed hop gives 0.
QuotePath(ps, steps, amountIn) ==
  FoldLeft(LAMBDA a, leg : IF a = 0 THEN 0 ELSE PoolQuote(ps, leg, a), amountIn, steps)

\* Mutant: a full list is never improved.
KeepFirst(entries, node) ==
  IF Len(entries) < topK THEN Append(entries, node) ELSE entries

(* Top-K insertion: append while there is room, otherwise replace the      *)
(* first worst entry if the new amount is larger.                          *)
KeepTop(entries, node) ==
  IF Len(entries) < topK THEN Append(entries, node)
  ELSE LET worst == CHOOSE i \in DOMAIN entries :
             /\ \A j \in DOMAIN entries : entries[i].amount <= entries[j].amount
             /\ \A j \in 1..(i - 1) : entries[i].amount < entries[j].amount
       IN IF node.amount > entries[worst].amount
          THEN [entries EXCEPT ![worst] = node] ELSE entries

(* A node the search reached.  In a cyclic search an edge back to the      *)
(* start is a candidate from the second hop on.                            *)
Reached(st, node, tokenIn, tokenOut, hop) ==
  IF node.amount = 0 THEN st
  ELSE IF tokenIn = tokenOut /\ node.token = tokenOut /\ hop >= 1
  THEN [st EXCEPT !.cands = Append(@, node)]
  ELSE [st EXCEPT !.best[node.token] = KeepTop(@, node)]

\* One edge out of one frontier node.
TryEdge(ps, st, parent, edge, tokenIn, tokenOut, hop) ==
  IF \/ parent.path # <<>> /\ edge.pool = Last(parent.path).pool
     \/ tokenIn # tokenOut /\ edge.tokenOut = tokenIn
  THEN st
  ELSE Reached(st, [amount |-> PoolQuote(ps, edge, parent.amount), token |-> edge.tokenOut,
                    path |-> Append(parent.path, edge)], tokenIn, tokenOut, hop)

(* The end of a layer: the entries at tokenOut become candidates (A to B)  *)
(* and the others, in the order in which the code happens to range over    *)
(* its map, the next frontier.                                             *)
NextLayer(done, tokenIn, tokenOut, order) ==
  [frontier |-> FlattenSeq([i \in DOMAIN order |->
                  IF order[i] = tokenOut THEN <<>> ELSE done.best[order[i]]]),
   cands |-> IF tokenIn # tokenOut THEN done.cands \o done.best[tokenOut] ELSE done.cands]

\* The number of layers a search runs: 1..HopCap, and HopCap by default.
Hops(maxHops) == IF maxHops <= 0 \/ maxHops > HopCap THEN HopCap ELSE maxHops

(* One layer of a search: every edge of every node of the frontier; none,  *)
(* when the frontier is empty.                                             *)
Layer(p, ps, st, hop) ==
  LET expand(s, parent) ==
        FoldLeft(LAMBDA t, edge : TryEdge(ps, t, parent, edge, p.tokenIn, p.tokenOut, hop),
                 s, p.adj[parent.token])
  IN IF st.frontier = <<>> THEN st
     ELSE NextLayer(FoldLeft(expand, [best |-> [t \in Tokens |-> <<>>], cands |-> st.cands],
                             st.frontier), p.tokenIn, p.tokenOut, p.order)

\* The candidates of the layers of a search, up to its limit.
Layers(p, ps, root) ==
  FoldLeft(LAMBDA st, n : Layer(p, ps, st, n - 1), root, [n \in 1..Hops(p.maxHops) |-> n]).cands

\* The first k elements, or all of them.
FirstOf(s, k) == SubSeq(s, 1, IF Len(s) < k THEN Len(s) ELSE k)

\* The stable insertion sort by amount, descending.
SortCandidates(cands) ==
  FoldLeft(LAMBDA s, c : InsertAt(s, Cardinality({i \in DOMAIN s : s[i].amount >= c.amount}) + 1, c),
           <<>>, cands)

(* What the EVM runs on: the formulas do not know that the pools of        *)
(* p.reverting revert.                                                     *)
EvmView(p, ps) == [i \in DOMAIN ps |-> IF i \in p.reverting THEN NoPool ELSE ps[i]]

\* A route at a volume: only the first step has an explicit amount.
Execute(p, ps, steps, vol) ==
  swap(EvmView(p, ps), steps, [i \in DOMAIN steps |-> IF i = 1 THEN vol ELSE 0], 0, p.sender)

\* An executed candidate joins the routes unless it reverted or paid nothing.
Accept(rs, steps, r) ==
  IF ~r.ok \/ r.amountOut = 0 THEN rs
  ELSE Append(rs, [steps |-> steps, amountOut |-> r.amountOut])

(* Execution of the best candidates on the router, until `limit' of them   *)
(* are accepted.                                                           *)
Verify(p, ps, cands, amountIn, limit) ==
  FoldLeft(LAMBDA rs, c : IF Len(rs) >= limit THEN rs
                          ELSE Accept(rs, c.path, Execute(p, ps, c.path, amountIn)),
           <<>>, cands)

(* FindTopRoutes on the pool states ps.  The parameters p carry the        *)
(* adjacency, the two tokens, the hop limit, and the order in which the    *)
(* code happens to range over its map of tokens.                           *)
FindTopRoutes(p, ps, amountIn, limit) ==
  LET root == [amount |-> amountIn, token |-> p.tokenIn, path |-> <<>>]
  IN IF amountIn = 0 THEN <<>>
     ELSE Verify(p, ps, FirstOf(SortCandidates(
                   Layers(p, ps, [frontier |-> <<root>>, cands |-> <<>>])), EvmTop),
                 amountIn, IF limit <= 0 THEN 1 ELSE limit)

\* FindBestRoute: the first of them, or nothing.
FindBestRoute(p, ps, amountIn) == FindTopRoutes(p, ps, amountIn, 1)
=============================================================================
