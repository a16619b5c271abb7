---------------------------- MODULE MergeRoutes ----------------------------
(***************************************************************************)
(* Merging the legs of a split into one router program                     *)
(* (pathfinder/merge.go).  A route is [steps, volume]; a program is a      *)
(* sequence of [step, amt], amt = 0 meaning "the router's whole balance".  *)
(* A node of the suffix trie is named by the suffix it stands for: the     *)
(* steps from that node to the end of the route.                           *)
(***************************************************************************)
EXTENDS Pathfinder

At(step, amt) == [step |-> step, amt |-> amt]

SumSeq(s) == FoldLeft(LAMBDA a, b : a + b, 0, s)

\* One explicit first step, balance steps after it.
Chain(r) == [i \in DOMAIN r.steps |-> At(r.steps[i], IF i = 1 THEN r.volume ELSE 0)]

(* The children of a trie node, in insertion order: the suffixes one step  *)
(* longer.  <<>> is the root.                                              *)
TrieChildren(routes, suf) ==
  LET longer(r) == IF Len(r.steps) > Len(suf) /\ IsSuffix(suf, r.steps)
                   THEN <<SubSeq(r.steps, Len(r.steps) - Len(suf), Len(r.steps))>> ELSE <<>>
      all == FlattenSeq([i \in DOMAIN routes |-> longer(routes[i])])
  IN SelectSeq([i \in DOMAIN all |-> [v |-> all[i], new |-> all[i] \notin {all[j] : j \in 1..(i - 1)}]],
               LAMBDA e : e.new)

\* The routes that start at a node.
StartingAt(routes, suf) == SelectSeq(routes, LAMBDA r : r.steps = suf)

Volume(routes) == SumSeq([i \in DOMAIN routes |-> routes[i].volume])

Mixed(routes, suf) == StartingAt(routes, suf) # <<>> /\ TrieChildren(routes, suf) # <<>>

RECURSIVE extractMixed(_, _)
(* The routes that start at a node which also has feeders leave the trie;  *)
(* what is kept of each is the node's own step.                            *)
extractMixed(routes, suf) ==
  LET ch == TrieChildren(routes, suf)
      own(c) == IF Mixed(routes, c)
                THEN [k \in DOMAIN StartingAt(routes, c) |->
                        [steps |-> <<Head(c)>>, volume |-> StartingAt(routes, c)[k].volume]]
                ELSE <<>>
  IN FlattenSeq([i \in DOMAIN ch |-> extractMixed(routes, ch[i].v) \o own(ch[i].v)])

RECURSIVE emitDFS(_, _)
(* Post-order: the feeders of a node before the node; a leaf carries the   *)
(* summed volume of its routes, an inner node sweeps the balance.          *)
emitDFS(routes, suf) ==
  LET ch == TrieChildren(routes, suf)
      feeders == FlattenSeq([i \in DOMAIN ch |-> emitDFS(routes, ch[i].v)])
      amt == IF ch = <<>> THEN Volume(StartingAt(routes, suf)) ELSE 0
  IN IF suf = <<>> THEN feeders ELSE Append(feeders, At(Head(suf), amt))

(* mergeFirstHops: a branch is an explicit step and the balance steps      *)
(* after it.  Branches with the same first step, all longer than one step, *)
(* share one call with the total volume, and the second step of each gets  *)
(* the quote of that branch's own volume as its explicit amount.           *)
mergeFirstHops(prog, ps) ==
  LET starts == SelectSeq([i \in DOMAIN prog |-> i], LAMBDA i : prog[i].amt # 0)
      n == Len(starts)
      last(b) == IF b = n THEN Len(prog) ELSE starts[b + 1] - 1
      key(b) == prog[starts[b]].step
      group(b) == SelectSeq([k \in 1..n |-> k], LAMBDA k : key(k) = key(b))
      mergeable(b) == /\ Len(group(b)) > 1
                      /\ \A k \in 1..n : key(k) = key(b) => last(k) > starts[k]
      heads == SelectSeq([k \in 1..n |-> k], LAMBDA b : \A k \in 1..(b - 1) : key(k) # key(b))
      asIs(b) == SubSeq(prog, starts[b], last(b))
      tail(b) == [j \in 1..(last(b) - starts[b]) |->
                    LET e == prog[starts[b] + j] IN
                    IF j = 1 THEN At(e.step, PoolQuote(ps, key(b), prog[starts[b]].amt)) ELSE e]
      over(g, Emit(_)) == FlattenSeq([i \in DOMAIN g |-> Emit(g[i])])
      emit(b) == IF ~mergeable(b) THEN over(group(b), asIs)
                 ELSE <<At(key(b), SumSeq([i \in DOMAIN group(b) |-> prog[starts[group(b)[i]]].amt]))>>
                      \o over(group(b), tail)
  IN IF n < 2 \/ \A b \in 1..n : ~mergeable(b) THEN prog
     ELSE over(heads, emit)

\* Mutant: the steps between two calls are not looked at.
CollapsibleAlways(prog, i, j) ==
  prog[i].amt # 0 /\ prog[j].amt # 0 /\ prog[i].step = prog[j].step

\* Two explicit calls of the same step may become one call at the earlier place.
Collapsible(prog, i, j) ==
  /\ prog[i].amt # 0 /\ prog[j].amt # 0 /\ prog[i].step = prog[j].step
  /\ \A k \in (i + 1)..(j - 1) :
       prog[k].amt = 0 =>
         prog[k].step.tokenIn \notin {prog[i].step.tokenIn, prog[i].step.tokenOut}

RECURSIVE collapseDuplicates(_)
\* The first collapsible pair is merged and the scan starts again.
collapseDuplicates(prog) ==
  LET pairs == {<<i, j>> \in (DOMAIN prog) \X (DOMAIN prog) : i < j /\ Collapsible(prog, i, j)}
      first == CHOOSE p \in pairs : \A q \in pairs : p[1] < q[1] \/ (p[1] = q[1] /\ p[2] <= q[2])
  IN IF pairs = {} THEN prog
     ELSE collapseDuplicates(RemoveAt(
            [prog EXCEPT ![first[1]].amt = @ + prog[first[2]].amt], first[2]))

(* mergeRoutesInner; with a quoter (ps gives the pools it quotes on) the   *)
(* first hops are merged too.                                              *)
mergeRoutesInner(routes, quoter, ps) ==
  LET chains(overflow) == FlattenSeq([i \in DOMAIN overflow |-> Chain(overflow[i])])
      hopped(emitted) == IF quoter THEN mergeFirstHops(emitted, ps) ELSE emitted
  IN IF routes = <<>> THEN <<>>
     ELSE IF Len(routes) = 1 THEN Chain(routes[1])
     ELSE collapseDuplicates(hopped(emitDFS(routes, <<>>) \o chains(extractMixed(routes, <<>>))))

\* The arrays the calldata carries (encodeMergedSteps).
encodeMergedSteps(prog) ==
  [steps |-> [i \in DOMAIN prog |-> prog[i].step], amounts |-> [i \in DOMAIN prog |-> prog[i].amt]]
=============================================================================
