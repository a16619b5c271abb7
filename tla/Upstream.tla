------------------------------ MODULE Upstream ------------------------------
(***************************************************************************)
(* The pool of WebSockets to the node and the eth_call proxy that uses it. *)
(* A call looks in the cache, takes the next socket round robin, waits for *)
(* the socket's only token, registers its request under the socket's lock, *)
(* writes it and waits for the answer.  Every socket has a goroutine that  *)
(* dials, reads answers and, when the connection breaks, fails whatever is *)
(* pending.  There is no timeout anywhere.                                 *)
(***************************************************************************)
EXTENDS Integers, Sequences

CONSTANTS Size,       \* poolSize
          Callers,    \* goroutines that call
          Params,     \* parameters of eth_call at the latest block
          PinnedAt,   \* parameters of eth_call at a block: a function to the block
          MaxHead,    \* bound on the chain
          MaxDials,   \* bound on the connections of a socket
          MaxCalls    \* bound on the calls forwarded

ASSUME UpstreamAssumption ==
  /\ Size \in Nat \ {0} /\ MaxHead \in Nat /\ MaxDials \in Nat /\ MaxCalls \in Nat
  /\ Params # {} /\ DOMAIN PinnedAt \subseteq Params /\ \A k \in DOMAIN PinnedAt : PinnedAt[k] \in Nat

VARIABLES head,     \* the node's block; the answer of a call is the block it ran at
          next,     \* rpcPool.next
          conn,     \* per socket: the number of the connection in use, 0 for nil
          dials,    \* per socket: connections made so far
          up,       \* per socket: whether the last connection is up
          nextID,   \* per socket
          pending,  \* per socket: the requests that await an answer, [id, c]
          queue,    \* per socket: the callers at its semaphore, the first has the token
          wire,     \* per socket: requests and answers in flight, [id, call, ans]
          caller,   \* per caller
          cache     \* ethCallCache: pairs of parameters and answer

vars == <<head, next, conn, dials, up, nextID, pending, queue, wire, caller, cache>>
sockVars == <<conn, dials, up, nextID, pending, queue, wire>>

Sockets == 0..(Size - 1)
Error   == -1
Result(k, b) == IF k \in DOMAIN PinnedAt THEN PinnedAt[k] ELSE b

\* A goroutine with no request.
Idle == [pc |-> "idle", call |-> CHOOSE k \in Params : TRUE, at |-> 0, id |-> 0, conn |-> 0, ch |-> <<>>]

Init == /\ head = 0 /\ next = 0
        /\ conn = [s \in Sockets |-> 0] /\ dials = conn /\ nextID = conn
        /\ up = [s \in Sockets |-> FALSE]
        /\ pending = [s \in Sockets |-> {}] /\ wire = pending
        /\ queue = [s \in Sockets |-> <<>>]
        /\ caller = [c \in Callers |-> Idle]
        /\ cache = {}

\* The answer cached for some parameters, as a channel content.
Hit(k) == {e.ans : e \in {x \in cache : x.call = k}}

(* A request on /eth-call is answered from the cache or handed to the next *)
(* socket of the pool.                                                     *)
AskCached(c, k) == /\ caller[c].pc = "idle"
                   /\ \E a \in Hit(k) :
                        caller' = [caller EXCEPT ![c].pc = "hit", ![c].call = k, ![c].ch = <<a>>]
                   /\ UNCHANGED <<head, next, cache>> /\ UNCHANGED sockVars

\* Round robin, also when the socket is busy and others are free.
Pick(n) == n % Size

Ask(c, k) == /\ caller[c].pc = "idle" /\ Hit(k) = {} /\ next < MaxCalls
             /\ next' = next + 1
             /\ LET s == Pick(next)
                IN /\ caller' = [caller EXCEPT ![c].pc = "queued", ![c].call = k, ![c].at = s]
                   /\ queue' = [queue EXCEPT ![s] = Append(@, c)]
             /\ UNCHANGED <<head, conn, dials, up, nextID, pending, wire, cache>>

HasToken(c) == queue[caller[c].at] # <<>> /\ Head(queue[caller[c].at]) = c

\* <-s.ready: the channel is closed while the socket has a connection.
AwaitReady(c) == /\ caller[c].pc = "queued" /\ HasToken(c)
                 /\ conn[caller[c].at] # 0
                 /\ caller' = [caller EXCEPT ![c].pc = "ready"]
                 /\ UNCHANGED <<head, next, cache>> /\ UNCHANGED sockVars

Keep(s) == UNCHANGED queue

\* send returns: the token goes back, the next caller gets it.
Release(s) == queue' = [queue EXCEPT ![s] = Tail(@)]

\* The connection was lost between <-s.ready and s.mu.Lock.
NotOpen(c) == LET s == caller[c].at IN
  /\ caller[c].pc = "ready" /\ conn[s] = 0
  /\ caller' = [caller EXCEPT ![c].pc = "got", ![c].ch = <<Error>>]
  /\ Release(s)
  /\ UNCHANGED <<head, next, conn, dials, up, nextID, pending, wire, cache>>

Register(c) == LET s == caller[c].at IN
  /\ caller[c].pc = "ready" /\ conn[s] # 0
  /\ nextID' = [nextID EXCEPT ![s] = @ + 1]
  /\ pending' = [pending EXCEPT ![s] = @ \union {[id |-> nextID[s], c |-> c]}]
  /\ caller' = [caller EXCEPT ![c].pc = "write", ![c].id = nextID[s], ![c].conn = conn[s]]
  /\ UNCHANGED <<head, next, conn, dials, up, queue, wire, cache>>

\* The connection the caller took is still the one that is up.
Writable(c) == up[caller[c].at] /\ dials[caller[c].at] = caller[c].conn

(* WriteMessage succeeds; on a connection that has just broken the request *)
(* may be accepted and go nowhere.                                         *)
Write(c) == LET s == caller[c].at IN
  /\ caller[c].pc = "write"
  /\ caller' = [caller EXCEPT ![c].pc = "wait"]
  /\ wire' = IF Writable(c)
             THEN [wire EXCEPT ![s] = @ \union {[id |-> caller[c].id, call |-> caller[c].call, ans |-> <<>>]}]
             ELSE wire
  /\ UNCHANGED <<head, next, conn, dials, up, nextID, pending, queue, cache>>

\* What a write that failed leaves pending.
Forget(s, id) == {p \in pending[s] : p.id # id}

WriteFails(c) == LET s == caller[c].at IN
  /\ caller[c].pc = "write" /\ ~Writable(c)
  /\ pending' = [pending EXCEPT ![s] = Forget(s, caller[c].id)]
  /\ caller' = [caller EXCEPT ![c].pc = "got", ![c].ch = <<Error>>]
  /\ Release(s)
  /\ UNCHANGED <<head, next, conn, dials, up, nextID, wire, cache>>

\* res := <-ch, and send returns.
Receive(c) == /\ caller[c].pc = "wait" /\ caller[c].ch # <<>>
              /\ caller' = [caller EXCEPT ![c].pc = "got"]
              /\ Release(caller[c].at)
              /\ UNCHANGED <<head, next, conn, dials, up, nextID, pending, wire, cache>>

RememberAll(k, ch) == {e \in cache : e.call # k} \union {[call |-> k, ans |-> ch[1]]}

\* What the proxy remembers of an answer.
Remember(k, ch) == IF ch = <<Error>> THEN cache
                   ELSE {e \in cache : e.call # k} \union {[call |-> k, ans |-> ch[1]]}

\* The proxy caches what the pool returned, and the client gets its answer.
Respond(c) == /\ caller[c].pc \in {"hit", "got"}
              /\ cache' = IF caller[c].pc = "hit" THEN cache
                          ELSE Remember(caller[c].call, caller[c].ch)
              /\ caller' = [caller EXCEPT ![c] = Idle]
              /\ UNCHANGED <<head, next>> /\ UNCHANGED sockVars

Dial(s) == /\ conn[s] = 0 /\ dials[s] < MaxDials
           /\ dials' = [dials EXCEPT ![s] = @ + 1]
           /\ conn' = [conn EXCEPT ![s] = dials[s] + 1]
           /\ up' = [up EXCEPT ![s] = TRUE]
           /\ UNCHANGED <<head, next, nextID, pending, queue, wire, caller, cache>>

\* Callers after ch <- r for the requests ps; a full channel does not occur.
Sent(ps, r) == [c \in Callers |-> IF \E p \in ps : p.c = c THEN [caller[c] EXCEPT !.ch = r] ELSE caller[c]]

\* readLoop takes an answer from the connection.
Read(s, x) == /\ up[s] /\ conn[s] # 0 /\ x.ans # <<>>
              /\ LET ps == {p \in pending[s] : p.id = x.id}
                 IN /\ pending' = [pending EXCEPT ![s] = @ \ ps]
                    /\ caller' = Sent(ps, x.ans)
              /\ wire' = [wire EXCEPT ![s] = @ \ {x}]
              /\ UNCHANGED <<head, next, conn, dials, up, nextID, queue, cache>>

Unfailed(s) == [caller |-> caller, pending |-> {}]

\* failAllLocked
failAllLocked(s) == [caller |-> Sent(pending[s], <<Error>>), pending |-> {}]

\* readLoop has returned: everything pending fails, the socket has no connection.
Lost(s) == /\ conn[s] # 0 /\ ~up[s]
           /\ caller' = failAllLocked(s).caller
           /\ pending' = [pending EXCEPT ![s] = failAllLocked(s).pending]
           /\ conn' = [conn EXCEPT ![s] = 0]
           /\ UNCHANGED <<head, next, dials, up, nextID, queue, wire, cache>>

\* The node executes a request at its latest block, or rejects it.
Serve(s, x) == /\ up[s] /\ x.ans = <<>>
               /\ \E r \in {Error, Result(x.call, head)} :
                    wire' = [wire EXCEPT ![s] = (@ \ {x}) \union {[x EXCEPT !.ans = <<r>>]}]
               /\ UNCHANGED <<head, next, conn, dials, up, nextID, pending, queue, caller, cache>>

\* The network drops a connection and what is in flight on it.
Break(s) == /\ up[s] /\ dials[s] < MaxDials
            /\ up' = [up EXCEPT ![s] = FALSE]
            /\ wire' = [wire EXCEPT ![s] = {}]
            /\ UNCHANGED <<head, next, conn, dials, nextID, pending, queue, caller, cache>>

Mine == /\ head < MaxHead /\ head' = head + 1
        /\ UNCHANGED <<next, caller, cache>> /\ UNCHANGED sockVars

CallerStep(c) == \/ AwaitReady(c) \/ NotOpen(c) \/ Register(c) \/ Write(c) \/ WriteFails(c)
                 \/ Receive(c) \/ Respond(c)
SocketStep(s) == Dial(s) \/ Lost(s) \/ \E x \in wire[s] : Read(s, x)
Node(s)       == \E x \in wire[s] : Serve(s, x)

Next == \/ \E c \in Callers : CallerStep(c) \/ \E k \in Params : AskCached(c, k) \/ Ask(c, k)
        \/ \E s \in Sockets : SocketStep(s) \/ Node(s) \/ Break(s)
        \/ Mine

(* Goroutines run, and the node answers what reaches it: without a timeout *)
(* in the code nothing else ends a call on a connection that stays up.     *)
Spec == /\ Init /\ [][Next]_vars
        /\ \A c \in Callers : WF_vars(CallerStep(c))
        /\ \A s \in Sockets : WF_vars(SocketStep(s)) /\ WF_vars(Node(s))
-----------------------------------------------------------------------------
(* Callers and sockets agree about what is under way.  A caller that waits *)
(* has its answer, or is pending on the connection it wrote to, whose end  *)
(* would fail it: the end of a connection between any two steps of send    *)
(* strands nobody.  And nothing stays pending without its caller, the one  *)
(* that holds the socket's token.                                          *)
NobodyStranded ==
  /\ \A c \in Callers : caller[c].pc \in {"write", "wait"} =>
       \/ caller[c].ch # <<>>
       \/ /\ conn[caller[c].at] = caller[c].conn
          /\ [id |-> caller[c].id, c |-> c] \in pending[caller[c].at]
  /\ \A s \in Sockets : \A p \in pending[s] :
       /\ queue[s] # <<>> /\ Head(queue[s]) = p.c
       /\ caller[p.c].at = s /\ caller[p.c].id = p.id
       /\ caller[p.c].pc \in {"write", "wait"} /\ caller[p.c].ch = <<>>

(* What the proxy answers or remembers was computed by the node for these  *)
(* parameters: at the block asked for, or at a block the chain has had;    *)
(* an error is never remembered.                                           *)
Real(k, a) == IF k \in DOMAIN PinnedAt THEN a = PinnedAt[k] ELSE a \in 0..head
AnswersReal ==
  /\ \A e \in cache : Real(e.call, e.ans)
  /\ \A c \in Callers : caller[c].ch \notin {<<>>, <<Error>>} => Real(caller[c].call, caller[c].ch[1])

(* Every call returns: a broken connection, a failed write or an error of  *)
(* the node keeps no caller waiting, not even one queued behind it.        *)
CallsReturn == \A c \in Callers : caller[c].pc # "idle" ~> caller[c].pc = "idle"
=============================================================================
