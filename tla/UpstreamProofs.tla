--------------------------- MODULE UpstreamProofs ---------------------------
(***************************************************************************)
(* The socket pool and the eth_call proxy: nobody is stranded and every    *)
(* answer is real, for any number of sockets, callers and calls and any    *)
(* sequence of lost connections.                                           *)
(***************************************************************************)
EXTENDS Upstream, TLAPS

\* What a channel of capacity one holds.
Chan == {<<>>} \union {<<a>> : a \in Int}

AtSocket == {"queued", "ready", "write", "wait"}
Caller == [pc : {"idle", "hit", "got"} \union AtSocket, call : Params, at : Sockets, id : Nat, conn : Nat,
           ch : Chan]
Asked == [id : Nat, c : Callers]
InFlight == [id : Nat, call : Params, ans : Chan]

TypeOK ==
  /\ head \in Nat /\ next \in Nat
  /\ conn \in [Sockets -> Nat] /\ dials \in [Sockets -> Nat] /\ nextID \in [Sockets -> Nat]
  /\ up \in [Sockets -> BOOLEAN]
  /\ pending \in [Sockets -> SUBSET Asked]
  /\ queue \in [Sockets -> Seq(Callers)]
  /\ wire \in [Sockets -> SUBSET InFlight]
  /\ caller \in [Callers -> Caller]
  /\ cache \in SUBSET [call : Params, ans : Int]

\* Where a caller is in send tells whether it has its answer and the token.
SendOK ==
  \A c \in Callers :
    /\ caller[c].pc \in {"idle", "queued", "ready"} => caller[c].ch = <<>>
    /\ caller[c].pc \in {"hit", "got"} => caller[c].ch # <<>>
    /\ caller[c].pc \in {"ready", "write", "wait"} => HasToken(c)
    /\ caller[c].pc \in {"write", "wait"} =>
         caller[c].id < nextID[caller[c].at] /\ caller[c].conn # 0

\* Who is at a socket's semaphore is there once and is in send.
QueueOK ==
  \A s \in Sockets : \A i \in DOMAIN queue[s] :
    /\ caller[queue[s][i]].pc \in AtSocket /\ caller[queue[s][i]].at = s
    /\ \A j \in DOMAIN queue[s] : queue[s][i] = queue[s][j] => i = j

\* Ids are not used twice: what is in flight under a pending id is the
\* pending caller's own request, and an answer is real.
WireOK ==
  \A s \in Sockets : \A x \in wire[s] :
    /\ x.id < nextID[s]
    /\ x.ans \notin {<<>>, <<Error>>} => Real(x.call, x.ans[1])
    /\ \A p \in pending[s] : p.id = x.id => x.call = caller[p.c].call

UpstreamInv == TypeOK /\ SendOK /\ QueueOK /\ WireOK /\ NobodyStranded /\ AnswersReal

-----------------------------------------------------------------------------
\* A pool without connections and callers without requests.
LEMMA InitUpstreamInv == Init => UpstreamInv
<1> SUFFICES ASSUME Init PROVE UpstreamInv
  OBVIOUS
<1>1. (CHOOSE k \in Params : TRUE) \in Params
  BY UpstreamAssumption
<1>2. 0 \in Sockets
  BY UpstreamAssumption DEF Sockets
<1>3. Idle \in Caller /\ Idle.pc = "idle" /\ Idle.ch = <<>>
  BY <1>1, <1>2 DEF Idle, Caller, Chan, AtSocket
<1>4. TypeOK
  BY <1>3 DEF Init, TypeOK
<1>5. SendOK
  BY <1>3 DEF Init, SendOK
<1>6. QueueOK /\ WireOK /\ NobodyStranded /\ AnswersReal
  BY <1>3 DEF Init, QueueOK, WireOK, NobodyStranded, AnswersReal
<1> QED
  BY <1>4, <1>5, <1>6 DEF UpstreamInv

-----------------------------------------------------------------------------
\* A caller past <-s.ready is the first at its socket.
LEMMA TokenIsFirst ==
  ASSUME UpstreamInv, NEW c \in Callers, caller[c].pc \in {"ready", "write", "wait"}
  PROVE  /\ caller[c].at \in Sockets
         /\ queue[caller[c].at] \in Seq(Callers)
         /\ 1 \in DOMAIN queue[caller[c].at]
         /\ queue[caller[c].at][1] = c
         /\ Head(queue[caller[c].at]) = c
<1>1. caller[c] \in Caller /\ HasToken(c)
  BY DEF UpstreamInv, TypeOK, SendOK
<1>2. caller[c].at \in Sockets
  BY <1>1 DEF Caller
<1>3. queue[caller[c].at] \in Seq(Callers)
  BY <1>2 DEF UpstreamInv, TypeOK
<1> QED
  BY <1>1, <1>2, <1>3 DEF HasToken

\* At most one request of a socket is pending, that of the caller with the token.
LEMMA OnePending ==
  ASSUME UpstreamInv, NEW s \in Sockets, NEW p \in pending[s]
  PROVE  /\ p \in Asked /\ p.c \in Callers
         /\ queue[s] # <<>> /\ p.c = Head(queue[s])
         /\ p = [id |-> caller[p.c].id, c |-> p.c]
         /\ \A q \in pending[s] : q = p
<1>1. \A q \in pending[s] : q \in Asked
  BY DEF UpstreamInv, TypeOK
<1>2. \A q \in pending[s] : /\ q.c \in Callers /\ queue[s] # <<>> /\ Head(queue[s]) = q.c
                            /\ caller[q.c].id = q.id
  BY <1>1 DEF UpstreamInv, NobodyStranded, Asked
<1>3. \A q \in pending[s] : q = [id |-> q.id, c |-> q.c]
  BY <1>1 DEF Asked
<1> QED
  BY <1>1, <1>2, <1>3

\* A caller that has not registered, or has returned, is not pending anywhere.
LEMMA NotPending ==
  ASSUME UpstreamInv, NEW c \in Callers, caller[c].pc \notin {"write", "wait"}
  PROVE  /\ \A s \in Sockets : \A p \in pending[s] : p.c \in Callers /\ p.c # c
         /\ \A s \in Sockets : Head(queue[s]) = c => pending[s] = {}
<1>1. \A s \in Sockets : \A p \in pending[s] : p.c \in Callers /\ p.c # c /\ Head(queue[s]) = p.c
  BY OnePending DEF UpstreamInv, NobodyStranded
<1> QED
  BY <1>1

-----------------------------------------------------------------------------
\* What Release does to a queue whose first caller leaves send.
LEMMA ReleaseKeepsQueue ==
  ASSUME UpstreamInv, NEW c \in Callers, caller[c].pc \in {"ready", "write", "wait"},
         Release(caller[c].at), \A d \in Callers : d # c => caller'[d] = caller[d]
  PROVE  /\ queue' \in [Sockets -> Seq(Callers)]
         /\ QueueOK'
         /\ \A s \in Sockets : s # caller[c].at => queue'[s] = queue[s]
<1> DEFINE a == caller[c].at
<1>1. /\ a \in Sockets /\ queue[a] \in Seq(Callers) /\ 1 \in DOMAIN queue[a] /\ queue[a][1] = c
  BY TokenIsFirst
<1>2. queue \in [Sockets -> Seq(Callers)]
  BY DEF UpstreamInv, TypeOK
<1>3. queue' = [queue EXCEPT ![a] = Tail(queue[a])]
  BY DEF Release
<1> HIDE DEF a
<1>4. /\ Tail(queue[a]) \in Seq(Callers)
      /\ \A i \in DOMAIN Tail(queue[a]) : /\ i + 1 \in DOMAIN queue[a] /\ i \in Nat /\ i # 0
                                          /\ Tail(queue[a])[i] = queue[a][i + 1]
  BY <1>1
<1>5. \A s \in Sockets : s # a => queue'[s] = queue[s]
  BY <1>2, <1>3
<1>6. queue'[a] = Tail(queue[a])
  BY <1>1, <1>2, <1>3
<1>7. ASSUME NEW s \in Sockets, NEW i \in DOMAIN queue'[s]
      PROVE  /\ caller'[queue'[s][i]].pc \in AtSocket /\ caller'[queue'[s][i]].at = s
             /\ \A j \in DOMAIN queue'[s] : queue'[s][i] = queue'[s][j] => i = j
  <2>1. CASE s = a
    <3>1. queue[a][i + 1] # queue[a][1]
      BY <2>1, <1>1, <1>4, <1>6, <1>7 DEF UpstreamInv, QueueOK
    <3>2. queue'[a][i] = queue[a][i + 1] /\ queue[a][i + 1] \in Callers /\ i + 1 \in DOMAIN queue[a]
      BY <2>1, <1>1, <1>4, <1>6, <1>7
    <3>3. caller'[queue'[a][i]] = caller[queue[a][i + 1]]
      BY <3>1, <3>2, <1>1
    <3>4. ASSUME NEW j \in DOMAIN queue'[a], queue'[a][i] = queue'[a][j] PROVE i = j
      <4>1. j \in DOMAIN Tail(queue[a]) /\ i \in DOMAIN Tail(queue[a])
        BY <1>6, <1>7, <2>1, <3>4
      <4>2. /\ j \in Nat /\ i \in Nat /\ j + 1 \in DOMAIN queue[a]
            /\ queue[a][i + 1] = queue[a][j + 1]
        BY <4>1, <1>4, <1>6, <3>2, <3>4
      <4>3. i + 1 = j + 1
        BY <4>2, <3>2, <1>1 DEF UpstreamInv, QueueOK
      <4> QED
        BY <4>2, <4>3
    <3> QED
      BY <2>1, <3>2, <3>3, <3>4 DEF UpstreamInv, QueueOK
  <2>2. CASE s # a
    <3>1. queue'[s] = queue[s] /\ queue[s] \in Seq(Callers)
      BY <2>2, <1>2, <1>5
    <3>2. caller[queue[s][i]].at = s /\ queue[s][i] \in Callers
      BY <3>1, <1>7 DEF UpstreamInv, QueueOK
    <3>3. queue[s][i] # c
      BY <3>2, <2>2 DEF a
    <3> QED
      BY <3>1, <3>2, <3>3, <1>7 DEF UpstreamInv, QueueOK
  <2> QED
    BY <2>1, <2>2
<1> QED
  BY <1>1, <1>2, <1>3, <1>4, <1>5, <1>7 DEF QueueOK, a

\* A step that takes nobody away from a socket leaves the queues as they were.
LEMMA QueueKept ==
  ASSUME UpstreamInv, queue' = queue,
         \A d \in Callers : caller[d].pc \in AtSocket =>
            caller'[d].pc \in AtSocket /\ caller'[d].at = caller[d].at
  PROVE  QueueOK'
<1> SUFFICES ASSUME NEW s \in Sockets, NEW i \in DOMAIN queue[s]
             PROVE  /\ caller'[queue[s][i]].pc \in AtSocket /\ caller'[queue[s][i]].at = s
                    /\ \A j \in DOMAIN queue[s] : queue[s][i] = queue[s][j] => i = j
  BY DEF QueueOK
<1>1. queue[s] \in Seq(Callers)
  BY DEF UpstreamInv, TypeOK
<1>2. queue[s][i] \in Callers
  BY <1>1
<1> QED
  BY <1>2 DEF UpstreamInv, QueueOK

-----------------------------------------------------------------------------
\* AskCached and Ask: the caller had no request, so nothing refers to it.
LEMMA AskKeepsInv ==
  ASSUME UpstreamInv, NEW c \in Callers, NEW k \in Params, AskCached(c, k) \/ Ask(c, k)
  PROVE  UpstreamInv'
<1>1. /\ caller \in [Callers -> Caller] /\ caller[c] \in Caller /\ queue \in [Sockets -> Seq(Callers)]
      /\ caller[c].pc = "idle" /\ caller[c].ch = <<>>
  BY DEF UpstreamInv, TypeOK, SendOK, AskCached, Ask
<1>2. UNCHANGED <<head, conn, dials, up, nextID, pending, wire, cache>>
  BY DEF AskCached, Ask, sockVars
<1>3. \A s \in Sockets : \A p \in pending[s] : p.c \in Callers /\ p.c # c
  BY <1>1, NotPending
<1>4. CASE AskCached(c, k)
  <2>1. PICK a \in Hit(k) :
           caller' = [caller EXCEPT ![c].pc = "hit", ![c].call = k, ![c].ch = <<a>>]
    BY <1>4 DEF AskCached
  <2>2. a \in Int /\ Real(k, a)
    BY <2>1 DEF Hit, UpstreamInv, TypeOK, AnswersReal
  <2>3. /\ caller'[c].pc = "hit" /\ caller'[c].call = k /\ caller'[c].ch = <<a>>
        /\ \A d \in Callers : d # c => caller'[d] = caller[d]
        /\ caller' \in [Callers -> Caller]
    BY <2>1, <2>2, <1>1 DEF Caller, Chan
  <2>4. queue' = queue /\ next' = next
    BY <1>4 DEF AskCached, sockVars
  <2>5. TypeOK'
    BY <2>3, <2>4, <1>2 DEF UpstreamInv, TypeOK
  <2>6. SendOK'
    BY <2>3, <2>4, <1>2 DEF UpstreamInv, SendOK, HasToken
  <2>7. QueueOK'
    BY <2>3, <2>4, <1>1, QueueKept DEF AtSocket
  <2>8. WireOK'
    BY <2>3, <1>2, <1>3 DEF UpstreamInv, WireOK, Real
  <2>9. NobodyStranded'
    BY <2>3, <2>4, <1>2, <1>3 DEF UpstreamInv, NobodyStranded
  <2>10. AnswersReal'
    <3>1. <<a>>[1] = a
      OBVIOUS
    <3>2. Real(k, a)'
      BY <2>2, <1>2 DEF Real
    <3> QED
      BY <3>1, <3>2, <2>3, <1>2 DEF UpstreamInv, AnswersReal, Real
  <2> QED
    BY <2>5, <2>6, <2>7, <2>8, <2>9, <2>10 DEF UpstreamInv
<1>5. CASE Ask(c, k)
  <2> DEFINE s == Pick(next)
  <2>1. s \in Sockets
    <3>1. next \in Nat /\ Size \in Nat \ {0}
      BY UpstreamAssumption DEF UpstreamInv, TypeOK
    <3> QED
      BY <3>1 DEF Pick, Sockets
  <2>2. /\ next' = next + 1 /\ queue' = [queue EXCEPT ![s] = Append(@, c)]
        /\ caller' = [caller EXCEPT ![c].pc = "queued", ![c].call = k, ![c].at = s]
    BY <1>5 DEF Ask
  <2> HIDE DEF s
  <2>3. /\ caller'[c].pc = "queued" /\ caller'[c].call = k /\ caller'[c].at = s /\ caller'[c].ch = <<>>
        /\ \A d \in Callers : d # c => caller'[d] = caller[d]
        /\ caller' \in [Callers -> Caller]
    BY <2>1, <2>2, <1>1 DEF Caller, AtSocket
  <2>4. /\ queue[s] \in Seq(Callers) /\ queue'[s] = Append(queue[s], c)
        /\ \A t \in Sockets : t # s => queue'[t] = queue[t]
        /\ queue' \in [Sockets -> Seq(Callers)]
    BY <2>1, <2>2, <1>1
  <2>5. \A t \in Sockets : queue[t] # <<>> => queue'[t] # <<>> /\ Head(queue'[t]) = Head(queue[t])
    <3>1. queue[s] # <<>> => Append(queue[s], c) # <<>> /\ Head(Append(queue[s], c)) = Head(queue[s])
      BY <2>4
    <3> QED
      BY <2>4, <3>1
  <2>6. TypeOK'
    BY <2>2, <2>3, <2>4, <1>2 DEF UpstreamInv, TypeOK
  <2>7. SendOK'
    <3>1. ASSUME NEW d \in Callers, d # c, caller[d].pc \in {"ready", "write", "wait"}
          PROVE  HasToken(d)'
      BY <3>1, <2>3, <2>5, TokenIsFirst DEF HasToken, UpstreamInv, SendOK
    <3> QED
      BY <3>1, <2>3, <1>2 DEF UpstreamInv, SendOK
  <2>8. QueueOK'
    <3> SUFFICES ASSUME NEW t \in Sockets, NEW i \in DOMAIN queue'[t]
                 PROVE  /\ caller'[queue'[t][i]].pc \in AtSocket /\ caller'[queue'[t][i]].at = t
                        /\ \A j \in DOMAIN queue'[t] : queue'[t][i] = queue'[t][j] => i = j
      BY DEF QueueOK
    <3>1. ASSUME NEW u \in Sockets, NEW j \in DOMAIN queue[u] PROVE queue[u][j] \in Callers \ {c}
      <4>1. queue[u] \in Seq(Callers)
        BY <1>1
      <4> QED
        BY <4>1, <1>1 DEF UpstreamInv, QueueOK, AtSocket
    <3>2. CASE t # s
      BY <3>1, <3>2, <2>3, <2>4 DEF UpstreamInv, QueueOK
    <3>3. CASE t = s
      <4>1. /\ \A j \in DOMAIN queue'[s] : j \in DOMAIN queue[s] \/ j = Len(queue[s]) + 1
            /\ \A j \in DOMAIN queue[s] : queue'[s][j] = queue[s][j]
            /\ queue'[s][Len(queue[s]) + 1] = c
        BY <2>4
      <4>2. CASE i \in DOMAIN queue[s]
        BY <4>1, <4>2, <3>1, <3>3, <2>1, <2>3 DEF UpstreamInv, QueueOK
      <4>3. CASE i = Len(queue[s]) + 1
        BY <4>1, <4>3, <3>1, <3>3, <2>1, <2>3 DEF AtSocket
      <4> QED
        BY <4>1, <4>2, <4>3, <3>3
    <3> QED
      BY <3>2, <3>3
  <2>9. WireOK'
    BY <2>3, <1>2, <1>3 DEF UpstreamInv, WireOK, Real
  <2>10. NobodyStranded'
    BY <2>3, <2>5, <1>2, <1>3 DEF UpstreamInv, NobodyStranded
  <2>11. AnswersReal'
    BY <2>3, <1>2 DEF UpstreamInv, AnswersReal, Real
  <2> QED
    BY <2>6, <2>7, <2>8, <2>9, <2>10, <2>11 DEF UpstreamInv
<1> QED
  BY <1>4, <1>5

-----------------------------------------------------------------------------
\* The connection is there: only the caller's place in send changes.
LEMMA AwaitReadyKeepsInv ==
  ASSUME UpstreamInv, NEW c \in Callers, AwaitReady(c)
  PROVE  UpstreamInv'
<1>1. /\ caller \in [Callers -> Caller] /\ caller[c] \in Caller
      /\ caller[c].pc = "queued" /\ caller[c].ch = <<>> /\ HasToken(c)
  BY DEF UpstreamInv, TypeOK, SendOK, AwaitReady
<1>2. UNCHANGED <<head, next, conn, dials, up, nextID, pending, queue, wire, cache>>
  BY DEF AwaitReady, sockVars
<1>3. \A s \in Sockets : \A p \in pending[s] : p.c \in Callers /\ p.c # c
  BY <1>1, NotPending
<1>4. /\ caller'[c].pc = "ready" /\ caller'[c].ch = <<>> /\ caller'[c].at = caller[c].at
      /\ \A d \in Callers : d # c => caller'[d] = caller[d]
      /\ caller' \in [Callers -> Caller]
  BY <1>1 DEF AwaitReady, Caller, AtSocket
<1>5. TypeOK'
  BY <1>2, <1>4 DEF UpstreamInv, TypeOK
<1>6. SendOK'
  BY <1>1, <1>2, <1>4 DEF UpstreamInv, SendOK, HasToken
<1>7. QueueOK'
  BY <1>2, <1>4, QueueKept DEF AtSocket
<1>8. WireOK'
  BY <1>2, <1>3, <1>4 DEF UpstreamInv, WireOK, Real
<1>9. NobodyStranded'
  BY <1>2, <1>3, <1>4 DEF UpstreamInv, NobodyStranded
<1>10. AnswersReal'
  BY <1>2, <1>4 DEF UpstreamInv, AnswersReal, Real
<1> QED
  BY <1>5, <1>6, <1>7, <1>8, <1>9, <1>10 DEF UpstreamInv

-----------------------------------------------------------------------------
\* send returns with an answer or an error, nothing of it pending: the token
\* goes to a caller that is not the one that leaves.
LEMMA LeaveKeepsInv ==
  ASSUME UpstreamInv, NEW c \in Callers, caller[c].pc \in {"ready", "write", "wait"},
         NEW r \in Chan \ {<<>>}, caller' = [caller EXCEPT ![c].pc = "got", ![c].ch = r],
         r # <<Error>> => Real(caller[c].call, r[1]),
         Release(caller[c].at),
         pending' = [pending EXCEPT ![caller[c].at] = {}],
         UNCHANGED <<head, next, conn, dials, up, nextID, wire, cache>>
  PROVE  UpstreamInv'
<1> DEFINE a == caller[c].at
<1>1. /\ caller \in [Callers -> Caller] /\ caller[c] \in Caller /\ a \in Sockets
      /\ queue[a] \in Seq(Callers) /\ queue[a][1] = c /\ Head(queue[a]) = c
      /\ pending \in [Sockets -> SUBSET Asked]
  BY TokenIsFirst DEF UpstreamInv, TypeOK
<1>2. /\ caller'[c].pc = "got" /\ caller'[c].ch = r /\ caller'[c].call = caller[c].call
      /\ \A d \in Callers : d # c => caller'[d] = caller[d]
      /\ caller' \in [Callers -> Caller]
  BY <1>1 DEF Caller, AtSocket
<1>3. /\ pending'[a] = {} /\ \A s \in Sockets : s # a => pending'[s] = pending[s]
      /\ pending' \in [Sockets -> SUBSET Asked]
  BY <1>1
<1>4. /\ queue' \in [Sockets -> Seq(Callers)] /\ QueueOK'
      /\ \A s \in Sockets : s # a => queue'[s] = queue[s]
  BY <1>2, ReleaseKeepsQueue
<1>5. \A d \in Callers : d # c /\ caller[d].pc \in {"ready", "write", "wait"} => caller[d].at # a
  BY <1>1, TokenIsFirst
<1>6. \A s \in Sockets : \A p \in pending'[s] : p \in pending[s] /\ s # a /\ p.c \in Callers /\ p.c # c
  <2> SUFFICES ASSUME NEW s \in Sockets, NEW p \in pending'[s]
               PROVE  p \in pending[s] /\ s # a /\ p.c \in Callers /\ p.c # c
    OBVIOUS
  <2>1. s # a /\ p \in pending[s]
    BY <1>3
  <2>2. p.c \in Callers /\ caller[p.c].at = s
    BY <2>1, OnePending DEF UpstreamInv, NobodyStranded
  <2> QED
    BY <2>1, <2>2 DEF a
<1>7. \A d \in Callers : caller[d].at \in Sockets
  BY <1>1 DEF Caller
<1> HIDE DEF a
<1>8. TypeOK'
  BY <1>2, <1>3, <1>4 DEF UpstreamInv, TypeOK
<1>9. SendOK'
  <2>1. ASSUME NEW d \in Callers, d # c, caller[d].pc \in {"ready", "write", "wait"}
        PROVE  HasToken(d)'
    BY <2>1, <1>2, <1>4, <1>5, <1>7 DEF HasToken, UpstreamInv, SendOK
  <2> QED
    BY <2>1, <1>2 DEF UpstreamInv, SendOK
<1>10. WireOK'
  BY <1>2, <1>6 DEF UpstreamInv, WireOK, Real
<1>11. NobodyStranded'
  <2>1. ASSUME NEW d \in Callers, caller'[d].pc \in {"write", "wait"}
        PROVE  \/ caller'[d].ch # <<>>
               \/ /\ conn'[caller'[d].at] = caller'[d].conn
                  /\ [id |-> caller'[d].id, c |-> d] \in pending'[caller'[d].at]
    <3>1. d # c /\ caller'[d] = caller[d]
      BY <2>1, <1>2
    <3>2. caller[d].at \in Sockets /\ caller[d].at # a
      BY <3>1, <2>1, <1>5, <1>7
    <3>3. \/ caller[d].ch # <<>>
          \/ /\ conn[caller[d].at] = caller[d].conn
             /\ [id |-> caller[d].id, c |-> d] \in pending[caller[d].at]
      BY <3>1, <2>1 DEF UpstreamInv, NobodyStranded
    <3>4. pending'[caller[d].at] = pending[caller[d].at]
      BY <3>2, <1>3
    <3> QED
      BY <3>1, <3>3, <3>4
  <2>2. ASSUME NEW s \in Sockets, NEW p \in pending'[s]
        PROVE  /\ queue'[s] # <<>> /\ Head(queue'[s]) = p.c
               /\ caller'[p.c].at = s /\ caller'[p.c].id = p.id
               /\ caller'[p.c].pc \in {"write", "wait"} /\ caller'[p.c].ch = <<>>
    BY <1>2, <1>4, <1>6 DEF UpstreamInv, NobodyStranded
  <2> QED
    BY <2>1, <2>2 DEF NobodyStranded
<1>12. AnswersReal'
  BY <1>2 DEF UpstreamInv, AnswersReal, Real
<1> QED
  BY <1>4, <1>8, <1>9, <1>10, <1>11, <1>12 DEF UpstreamInv

\* The three ways out of send.
LEMMA NotOpenKeepsInv ==
  ASSUME UpstreamInv, NEW c \in Callers, NotOpen(c)
  PROVE  UpstreamInv'
<1> DEFINE a == caller[c].at
<1>1. caller[c].pc = "ready" /\ a \in Sockets /\ Head(queue[a]) = c
  BY TokenIsFirst DEF NotOpen
<1>2. pending[a] = {}
  BY <1>1 DEF UpstreamInv, NobodyStranded
<1>3. pending' = [pending EXCEPT ![a] = {}]
  BY <1>1, <1>2 DEF NotOpen, UpstreamInv, TypeOK
<1>4. <<Error>> \in Chan \ {<<>>}
  BY DEF Chan, Error
<1> QED
  BY <1>1, <1>3, <1>4, LeaveKeepsInv DEF NotOpen

\* A failed write: the caller takes its own entry back and leaves with the error.
LEMMA WriteFailsKeepsInv ==
  ASSUME UpstreamInv, NEW c \in Callers, WriteFails(c)
  PROVE  UpstreamInv'
<1> DEFINE a == caller[c].at
<1>1. caller[c].pc = "write" /\ a \in Sockets /\ Head(queue[a]) = c
  BY TokenIsFirst DEF WriteFails
<1>2. \A p \in pending[a] : p.id = caller[c].id
  BY <1>1, OnePending
<1>3. Forget(a, caller[c].id) = {}
  BY <1>2 DEF Forget
<1>4. pending' = [pending EXCEPT ![a] = {}]
  BY <1>3 DEF WriteFails
<1>5. <<Error>> \in Chan \ {<<>>}
  BY DEF Chan, Error
<1> QED
  BY <1>1, <1>4, <1>5, LeaveKeepsInv DEF WriteFails

\* The caller takes its answer and passes the token on.
LEMMA ReceiveKeepsInv ==
  ASSUME UpstreamInv, NEW c \in Callers, Receive(c)
  PROVE  UpstreamInv'
<1> DEFINE a == caller[c].at
           r == caller[c].ch
<1>1. caller[c].pc = "wait" /\ a \in Sockets /\ Head(queue[a]) = c /\ r # <<>>
  BY TokenIsFirst DEF Receive
<1>2. caller \in [Callers -> Caller] /\ caller[c] \in Caller /\ r \in Chan
  BY DEF UpstreamInv, TypeOK, Caller
<1>3. pending[a] = {}
  BY <1>1 DEF UpstreamInv, NobodyStranded
<1>4. pending' = [pending EXCEPT ![a] = {}]
  BY <1>1, <1>3 DEF Receive, UpstreamInv, TypeOK
<1>5. caller' = [caller EXCEPT ![c].pc = "got", ![c].ch = r]
  BY <1>2 DEF Receive, Caller
<1>6. r # <<Error>> => Real(caller[c].call, r[1])
  BY <1>1 DEF UpstreamInv, AnswersReal
<1> HIDE DEF r
<1> QED
  BY <1>1, <1>2, <1>4, <1>5, <1>6, LeaveKeepsInv DEF Receive

-----------------------------------------------------------------------------
\* Under the socket's lock the request gets an id that nothing has yet.
LEMMA RegisterKeepsInv ==
  ASSUME UpstreamInv, NEW c \in Callers, Register(c)
  PROVE  UpstreamInv'
<1> DEFINE a == caller[c].at
           n == nextID[a]
           p == [id |-> n, c |-> c]
<1>1. /\ caller \in [Callers -> Caller] /\ caller[c] \in Caller /\ a \in Sockets
      /\ Head(queue[a]) = c /\ queue[a] # <<>> /\ caller[c].pc = "ready" /\ caller[c].ch = <<>>
      /\ pending \in [Sockets -> SUBSET Asked] /\ nextID \in [Sockets -> Nat]
      /\ conn \in [Sockets -> Nat] /\ conn[a] # 0
  BY TokenIsFirst DEF UpstreamInv, TypeOK, SendOK, Register, HasToken
<1>2. UNCHANGED <<head, next, conn, dials, up, queue, wire, cache>>
  BY DEF Register
<1>3. /\ caller'[c].pc = "write" /\ caller'[c].id = n /\ caller'[c].conn = conn[a]
      /\ caller'[c].at = a /\ caller'[c].ch = <<>> /\ caller'[c].call = caller[c].call
      /\ \A d \in Callers : d # c => caller'[d] = caller[d]
      /\ caller' \in [Callers -> Caller]
  BY <1>1 DEF Register, Caller, AtSocket
<1>4. pending[a] = {}
  BY <1>1, NotPending
<1>5. /\ pending'[a] = {p} /\ \A s \in Sockets : s # a => pending'[s] = pending[s]
      /\ pending' \in [Sockets -> SUBSET Asked]
  BY <1>1, <1>4 DEF Register, Asked
<1>6. /\ nextID'[a] = n + 1 /\ \A s \in Sockets : s # a => nextID'[s] = nextID[s]
      /\ nextID' \in [Sockets -> Nat]
  BY <1>1 DEF Register
<1>7. \A d \in Callers : d # c /\ caller[d].pc \in {"ready", "write", "wait"} =>
         caller[d].at # a /\ caller[d].at \in Sockets
  BY <1>1, TokenIsFirst
<1>8. \A s \in Sockets : \A q \in pending[s] : q.c \in Callers /\ q.c # c
  BY <1>1, NotPending
<1>9. p.c = c /\ p.id = n /\ n \in Nat
  BY <1>1
<1> HIDE DEF a, n, p
<1>10. TypeOK'
  BY <1>2, <1>3, <1>5, <1>6 DEF UpstreamInv, TypeOK
<1>11. SendOK'
  <2>1. \A d \in Callers : d # c => (HasToken(d)' <=> HasToken(d))
    BY <1>2, <1>3 DEF HasToken
  <2>2. HasToken(c)'
    BY <1>1, <1>2, <1>3 DEF HasToken, a
  <2>3. ASSUME NEW d \in Callers, d = c
        PROVE  /\ caller'[d].pc = "write" /\ HasToken(d)'
               /\ caller'[d].id < nextID'[caller'[d].at] /\ caller'[d].conn # 0
    BY <2>2, <2>3, <1>1, <1>3, <1>6, <1>9
  <2>4. ASSUME NEW d \in Callers, d # c, caller[d].pc \in {"write", "wait"}
        PROVE  caller'[d].id < nextID'[caller'[d].at] /\ caller'[d].conn # 0
    BY <2>4, <1>3, <1>6, <1>7 DEF UpstreamInv, SendOK
  <2>5. ASSUME NEW d \in Callers, d # c
        PROVE  /\ caller'[d].pc \in {"idle", "queued", "ready"} => caller'[d].ch = <<>>
               /\ caller'[d].pc \in {"hit", "got"} => caller'[d].ch # <<>>
               /\ caller'[d].pc \in {"ready", "write", "wait"} => HasToken(d)'
    BY <2>5, <2>1, <1>3 DEF UpstreamInv, SendOK
  <2>6. ASSUME NEW d \in Callers, d # c, caller'[d].pc \in {"write", "wait"}
        PROVE  caller[d].pc \in {"write", "wait"}
    BY <2>6, <1>3
  <2> QED
    BY <2>3, <2>4, <2>5, <2>6 DEF SendOK
<1>12. QueueOK'
  BY <1>2, <1>3, QueueKept DEF AtSocket, a
<1>13. WireOK'
  <2> SUFFICES ASSUME NEW s \in Sockets, NEW x \in wire[s]
               PROVE  /\ x.id < nextID'[s]
                      /\ \A q \in pending'[s] : q.id = x.id => x.call = caller'[q.c].call
    BY <1>2 DEF UpstreamInv, WireOK, Real
  <2>1. x.id < nextID[s] /\ \A q \in pending[s] : q.id = x.id => x.call = caller[q.c].call
    BY DEF UpstreamInv, WireOK
  <2>2. x.id \in Nat
    BY DEF UpstreamInv, TypeOK, InFlight
  <2>3. CASE s = a
    BY <2>1, <2>2, <2>3, <1>5, <1>6, <1>9 DEF n
  <2>4. CASE s # a
    BY <2>1, <2>2, <2>4, <1>3, <1>5, <1>6, <1>8
  <2> QED
    BY <2>3, <2>4
<1>14. NobodyStranded'
  <2>1. \A d \in Callers : caller'[d].pc \in {"write", "wait"} =>
          \/ caller'[d].ch # <<>>
          \/ /\ conn'[caller'[d].at] = caller'[d].conn
             /\ [id |-> caller'[d].id, c |-> d] \in pending'[caller'[d].at]
    BY <1>2, <1>3, <1>5, <1>7 DEF UpstreamInv, NobodyStranded, p
  <2>2. ASSUME NEW s \in Sockets, NEW q \in pending'[s]
        PROVE  /\ queue'[s] # <<>> /\ Head(queue'[s]) = q.c
               /\ caller'[q.c].at = s /\ caller'[q.c].id = q.id
               /\ caller'[q.c].pc \in {"write", "wait"} /\ caller'[q.c].ch = <<>>
    <3>1. CASE s = a
      BY <3>1, <1>1, <1>2, <1>3, <1>5, <1>9 DEF a
    <3>2. CASE s # a
      BY <3>2, <1>2, <1>3, <1>5, <1>8 DEF UpstreamInv, NobodyStranded
    <3> QED
      BY <3>1, <3>2
  <2> QED
    BY <2>1, <2>2 DEF NobodyStranded
<1>15. AnswersReal'
  BY <1>2, <1>3 DEF UpstreamInv, AnswersReal, Real
<1> QED
  BY <1>10, <1>11, <1>12, <1>13, <1>14, <1>15 DEF UpstreamInv

\* What is written is the request of the caller, whoever is pending.
LEMMA WriteKeepsInv ==
  ASSUME UpstreamInv, NEW c \in Callers, Write(c)
  PROVE  UpstreamInv'
<1> DEFINE a == caller[c].at
           y == [id |-> caller[c].id, call |-> caller[c].call, ans |-> <<>>]
<1>1. /\ caller \in [Callers -> Caller] /\ caller[c] \in Caller /\ a \in Sockets
      /\ Head(queue[a]) = c /\ caller[c].pc = "write" /\ caller[c].id < nextID[a]
      /\ caller[c].conn # 0 /\ HasToken(c) /\ wire \in [Sockets -> SUBSET InFlight]
  BY TokenIsFirst DEF UpstreamInv, TypeOK, SendOK, Write
<1>2. UNCHANGED <<head, next, conn, dials, up, nextID, pending, queue, cache>>
  BY DEF Write
<1>3. /\ caller'[c].pc = "wait" /\ caller'[c].id = caller[c].id /\ caller'[c].conn = caller[c].conn
      /\ caller'[c].at = a /\ caller'[c].ch = caller[c].ch /\ caller'[c].call = caller[c].call
      /\ \A d \in Callers : d # c => caller'[d] = caller[d]
      /\ caller' \in [Callers -> Caller]
  BY <1>1 DEF Write, Caller, AtSocket
<1>4. y \in InFlight /\ y.id = caller[c].id /\ y.call = caller[c].call /\ y.ans = <<>>
  BY <1>1 DEF Caller, InFlight, Chan
<1>5. wire' \in [Sockets -> SUBSET InFlight] /\ \A s \in Sockets : wire'[s] \subseteq wire[s] \union {y}
  BY <1>1, <1>4 DEF Write
<1>6. \A s \in Sockets : s # a => wire'[s] = wire[s]
  BY <1>1 DEF Write
<1>7. \A d \in Callers : caller'[d].call = caller[d].call
  BY <1>3
<1> HIDE DEF a, y
<1>8. TypeOK'
  BY <1>2, <1>3, <1>5 DEF UpstreamInv, TypeOK
<1>9. SendOK'
  BY <1>1, <1>2, <1>3 DEF UpstreamInv, SendOK, HasToken, a
<1>10. QueueOK'
  BY <1>2, <1>3, QueueKept DEF AtSocket, a
<1>11. WireOK'
  <2> SUFFICES ASSUME NEW s \in Sockets, NEW x \in wire'[s]
               PROVE  /\ x.id < nextID[s]
                      /\ x.ans \notin {<<>>, <<Error>>} => Real(x.call, x.ans[1])
                      /\ \A p \in pending[s] : p.id = x.id => x.call = caller'[p.c].call
    BY <1>2 DEF WireOK, Real
  <2>1. CASE x \in wire[s]
    BY <2>1, <1>7, OnePending DEF UpstreamInv, WireOK
  <2>2. CASE x \notin wire[s]
    <3>1. s = a /\ x = y
      BY <2>2, <1>5, <1>6
    <3>2. \A p \in pending[a] : p.c = c
      BY <1>1, OnePending
    <3> QED
      BY <3>1, <3>2, <1>1, <1>4, <1>7
  <2> QED
    BY <2>1, <2>2
<1>12. NobodyStranded'
  <2>1. \A d \in Callers : caller'[d].pc \in {"write", "wait"} => caller[d].pc \in {"write", "wait"}
    BY <1>1, <1>3
  <2>2. \A d \in Callers : /\ caller'[d].ch = caller[d].ch /\ caller'[d].at = caller[d].at
                           /\ caller'[d].conn = caller[d].conn /\ caller'[d].id = caller[d].id
    BY <1>3 DEF a
  <2>3. \A d \in Callers : caller[d].pc \in {"write", "wait"} => caller'[d].pc \in {"write", "wait"}
    BY <1>3
  <2>4. \A s \in Sockets : \A p \in pending[s] : p.c \in Callers
    BY OnePending
  <2> QED
    BY <2>1, <2>2, <2>3, <2>4, <1>2 DEF UpstreamInv, NobodyStranded
<1>13. AnswersReal'
  BY <1>2, <1>3 DEF UpstreamInv, AnswersReal, Real
<1> QED
  BY <1>8, <1>9, <1>10, <1>11, <1>12, <1>13 DEF UpstreamInv

\* The proxy remembers a real answer or nothing.
LEMMA RespondKeepsInv ==
  ASSUME UpstreamInv, NEW c \in Callers, Respond(c)
  PROVE  UpstreamInv'
<1> DEFINE k == caller[c].call
           r == caller[c].ch
<1>1. /\ caller \in [Callers -> Caller] /\ caller[c] \in Caller
      /\ caller[c].pc \in {"hit", "got"} /\ r # <<>> /\ r \in Chan /\ k \in Params
  BY DEF UpstreamInv, TypeOK, SendOK, Respond, Caller
<1>2. UNCHANGED <<head, next, conn, dials, up, nextID, pending, queue, wire>>
  BY DEF Respond, sockVars
<1>3. Idle \in Caller /\ Idle.pc = "idle" /\ Idle.ch = <<>>
  <2>1. (CHOOSE z \in Params : TRUE) \in Params
    BY UpstreamAssumption
  <2>2. 0 \in Sockets
    BY UpstreamAssumption DEF Sockets
  <2> QED
    BY <2>1, <2>2 DEF Idle, Caller, Chan, AtSocket
<1>4. /\ caller'[c] = Idle /\ \A d \in Callers : d # c => caller'[d] = caller[d]
      /\ caller' \in [Callers -> Caller]
  BY <1>1, <1>3 DEF Respond
<1>5. \A s \in Sockets : \A p \in pending[s] : p.c \in Callers /\ p.c # c
  BY <1>1, NotPending
<1>6. r[1] \in Int /\ (r # <<Error>> => Real(k, r[1]))
  BY <1>1 DEF UpstreamInv, AnswersReal, Chan
<1>7. \A e \in cache' : e \in cache \/ (e = [call |-> k, ans |-> r[1]] /\ r # <<Error>>)
  BY DEF Respond, Remember
<1> HIDE DEF k, r
<1>8. TypeOK'
  BY <1>1, <1>2, <1>4, <1>6, <1>7 DEF UpstreamInv, TypeOK
<1>9. SendOK'
  BY <1>2, <1>3, <1>4 DEF UpstreamInv, SendOK, HasToken
<1>10. QueueOK'
  BY <1>1, <1>2, <1>4, QueueKept DEF AtSocket
<1>11. WireOK'
  BY <1>2, <1>4, <1>5 DEF UpstreamInv, WireOK, Real
<1>12. NobodyStranded'
  BY <1>2, <1>3, <1>4, <1>5 DEF UpstreamInv, NobodyStranded
<1>13. AnswersReal'
  <2>1. \A e \in cache' : Real(e.call, e.ans)'
    BY <1>2, <1>6, <1>7 DEF UpstreamInv, AnswersReal, Real
  <2>2. (\A d \in Callers : caller[d].ch \notin {<<>>, <<Error>>} =>
            Real(caller[d].call, caller[d].ch[1]))'
    BY <1>2, <1>3, <1>4 DEF UpstreamInv, AnswersReal, Real
  <2> QED
    BY <2>1, <2>2 DEF AnswersReal
<1> QED
  BY <1>8, <1>9, <1>10, <1>11, <1>12, <1>13 DEF UpstreamInv

-----------------------------------------------------------------------------
\* Channel sends reach the caller that holds the socket's token, or nobody.
LEMMA SentFacts ==
  ASSUME UpstreamInv, NEW s \in Sockets, NEW ps \in SUBSET pending[s], NEW r \in Chan \ {<<>>},
         caller' = Sent(ps, r)
  PROVE  /\ caller' \in [Callers -> Caller]
         /\ \A d \in Callers : caller'[d] = caller[d] \/ caller'[d].ch = r
         /\ \A d \in Callers : caller'[d].ch = caller[d].ch \/ caller[d].pc \in {"write", "wait"}
         /\ \A d \in Callers :
              /\ caller'[d].pc = caller[d].pc /\ caller'[d].call = caller[d].call
              /\ caller'[d].at = caller[d].at /\ caller'[d].id = caller[d].id
              /\ caller'[d].conn = caller[d].conn
         /\ \A d \in Callers : (\E p \in ps : p.c = d) => caller'[d].ch = r
         /\ \A d \in Callers : ~(\E p \in ps : p.c = d) => caller'[d] = caller[d]
<1>1. caller \in [Callers -> Caller]
  BY DEF UpstreamInv, TypeOK
<1>2. \A d \in Callers : caller'[d] = IF \E p \in ps : p.c = d THEN [caller[d] EXCEPT !.ch = r] ELSE caller[d]
  BY DEF Sent
<1>3. \A d \in Callers : (\E p \in ps : p.c = d) => caller[d].pc \in {"write", "wait"}
  BY DEF UpstreamInv, NobodyStranded
<1>4. ASSUME NEW d \in Callers
      PROVE  /\ [caller[d] EXCEPT !.ch = r] \in Caller
             /\ [caller[d] EXCEPT !.ch = r].ch = r
             /\ [caller[d] EXCEPT !.ch = r].pc = caller[d].pc
             /\ [caller[d] EXCEPT !.ch = r].call = caller[d].call
             /\ [caller[d] EXCEPT !.ch = r].at = caller[d].at
             /\ [caller[d] EXCEPT !.ch = r].id = caller[d].id
             /\ [caller[d] EXCEPT !.ch = r].conn = caller[d].conn
  <2>1. caller[d] \in Caller
    BY <1>1
  <2> QED
    BY <2>1 DEF Caller
<1>5. caller' \in [Callers -> Caller]
  BY <1>1, <1>4 DEF Sent
<1>6. ASSUME NEW d \in Callers
      PROVE  /\ caller'[d] = caller[d] \/ caller'[d].ch = r
             /\ caller'[d].ch = caller[d].ch \/ caller[d].pc \in {"write", "wait"}
             /\ caller'[d].pc = caller[d].pc /\ caller'[d].call = caller[d].call
             /\ caller'[d].at = caller[d].at /\ caller'[d].id = caller[d].id
             /\ caller'[d].conn = caller[d].conn
             /\ (\E p \in ps : p.c = d) => caller'[d].ch = r
             /\ ~(\E p \in ps : p.c = d) => caller'[d] = caller[d]
  <2>1. CASE \E p \in ps : p.c = d
    <3>1. caller'[d] = [caller[d] EXCEPT !.ch = r] /\ caller[d].pc \in {"write", "wait"}
      BY <2>1, <1>2, <1>3
    <3> QED
      BY <2>1, <3>1, <1>4
  <2>2. CASE ~\E p \in ps : p.c = d
    <3>1. caller'[d] = caller[d]
      BY <2>2, <1>2
    <3> QED
      BY <2>2, <3>1
  <2> QED
    BY <2>1, <2>2
<1> QED
  BY <1>5, <1>6

\* readLoop delivers an answer, or failAllLocked an error: whoever was told is
\* not pending any more, the others are as before.
LEMMA DeliverKeepsInv ==
  ASSUME UpstreamInv, NEW s \in Sockets, NEW ps \in SUBSET pending[s], NEW r \in Chan \ {<<>>},
         \A p \in ps : r # <<Error>> => Real(caller[p.c].call, r[1]),
         caller' = Sent(ps, r), pending' = [pending EXCEPT ![s] = @ \ ps],
         \/ conn' = conn
         \/ ps = pending[s] /\ conn' = [conn EXCEPT ![s] = 0],
         wire' \in [Sockets -> SUBSET InFlight], \A t \in Sockets : wire'[t] \subseteq wire[t],
         UNCHANGED <<head, next, dials, up, nextID, queue, cache>>
  PROVE  UpstreamInv'
<1>1. /\ caller \in [Callers -> Caller] /\ pending \in [Sockets -> SUBSET Asked]
      /\ conn \in [Sockets -> Nat]
  BY DEF UpstreamInv, TypeOK
<1>2. /\ caller' \in [Callers -> Caller]
      /\ \A d \in Callers : caller'[d] = caller[d] \/ caller'[d].ch = r
      /\ \A d \in Callers : caller'[d].ch = caller[d].ch \/ caller[d].pc \in {"write", "wait"}
      /\ \A d \in Callers :
              /\ caller'[d].pc = caller[d].pc /\ caller'[d].call = caller[d].call
              /\ caller'[d].at = caller[d].at /\ caller'[d].id = caller[d].id
              /\ caller'[d].conn = caller[d].conn
      /\ \A d \in Callers : (\E p \in ps : p.c = d) => caller'[d].ch = r
      /\ \A d \in Callers : ~(\E p \in ps : p.c = d) => caller'[d] = caller[d]
  BY SentFacts
<1>3. /\ pending'[s] = pending[s] \ ps /\ \A t \in Sockets : t # s => pending'[t] = pending[t]
      /\ pending' \in [Sockets -> SUBSET Asked]
  BY <1>1
<1>4. conn' \in [Sockets -> Nat] /\ \A t \in Sockets : t # s => conn'[t] = conn[t]
  BY <1>1
<1>5. \A t \in Sockets : \A p \in pending[t] : p.c \in Callers /\ caller[p.c].at = t
  BY OnePending DEF UpstreamInv, NobodyStranded
<1>6. ps # {} => pending'[s] = {}
  BY <1>3, OnePending
<1>7. TypeOK'
  BY <1>2, <1>3, <1>4 DEF UpstreamInv, TypeOK
<1>8. SendOK'
  BY <1>2 DEF UpstreamInv, SendOK, HasToken
<1>9. QueueOK'
  BY <1>2, QueueKept
<1>10. WireOK'
  <2>1. \A t \in Sockets : pending'[t] \subseteq pending[t]
    BY <1>3
  <2> QED
    BY <2>1, <1>2, <1>5 DEF UpstreamInv, WireOK, Real
<1>11. NobodyStranded'
  <2>1. ASSUME NEW d \in Callers, caller'[d].pc \in {"write", "wait"}, caller'[d].ch = <<>>
        PROVE  /\ conn'[caller'[d].at] = caller'[d].conn
               /\ [id |-> caller'[d].id, c |-> d] \in pending'[caller'[d].at]
    <3> DEFINE q == [id |-> caller[d].id, c |-> d]
    <3>1. caller'[d] = caller[d] /\ ~\E p \in ps : p.c = d
      BY <2>1, <1>2
    <3>2. conn[caller[d].at] = caller[d].conn /\ q \in pending[caller[d].at]
      BY <3>1, <2>1 DEF UpstreamInv, NobodyStranded
    <3>3. q \notin ps /\ caller[d].at \in Sockets
      BY <3>1, <1>1 DEF Caller
    <3>4. q \in pending'[caller[d].at]
      BY <3>2, <3>3, <1>3
    <3>5. conn'[caller[d].at] = conn[caller[d].at]
      BY <3>2, <3>3, <1>4
    <3> QED
      BY <3>1, <3>2, <3>4, <3>5
  <2>2. ASSUME NEW t \in Sockets, NEW p \in pending'[t]
        PROVE  /\ queue'[t] # <<>> /\ Head(queue'[t]) = p.c
               /\ caller'[p.c].at = t /\ caller'[p.c].id = p.id
               /\ caller'[p.c].pc \in {"write", "wait"} /\ caller'[p.c].ch = <<>>
    <3>1. p \in pending[t] /\ (t = s => ps = {})
      BY <1>3, <1>6
    <3>2. p.c \in Callers /\ ~\E z \in ps : z.c = p.c
      BY <3>1, <1>5
    <3>3. caller'[p.c] = caller[p.c]
      BY <3>2, <1>2
    <3> QED
      BY <3>1, <3>3 DEF UpstreamInv, NobodyStranded
  <2> QED
    BY <2>1, <2>2 DEF NobodyStranded
<1>12. AnswersReal'
  <2>1. ASSUME NEW d \in Callers, caller'[d].ch \notin {<<>>, <<Error>>}
        PROVE  Real(caller'[d].call, caller'[d].ch[1])
    <3>1. CASE \E p \in ps : p.c = d
      BY <3>1, <2>1, <1>2
    <3>2. CASE ~\E p \in ps : p.c = d
      BY <3>2, <2>1, <1>2 DEF UpstreamInv, AnswersReal
    <3> QED
      BY <3>1, <3>2
  <2> QED
    BY <2>1 DEF UpstreamInv, AnswersReal, Real
<1> QED
  BY <1>7, <1>8, <1>9, <1>10, <1>11, <1>12 DEF UpstreamInv

\* An answer is for the request whose id it has, which is that caller's own.
LEMMA ReadKeepsInv ==
  ASSUME UpstreamInv, NEW s \in Sockets, NEW x \in wire[s], Read(s, x)
  PROVE  UpstreamInv'
<1> DEFINE ps == {p \in pending[s] : p.id = x.id}
<1>1. x.ans \in Chan \ {<<>>} /\ wire \in [Sockets -> SUBSET InFlight]
  BY DEF Read, UpstreamInv, TypeOK, InFlight
<1>2. \A p \in ps : x.ans # <<Error>> => Real(caller[p.c].call, x.ans[1])
  BY <1>1 DEF UpstreamInv, WireOK
<1>3. wire' \in [Sockets -> SUBSET InFlight] /\ \A t \in Sockets : wire'[t] \subseteq wire[t]
  BY <1>1 DEF Read
<1>4. ps \in SUBSET pending[s] /\ caller' = Sent(ps, x.ans) /\ pending' = [pending EXCEPT ![s] = @ \ ps]
  BY DEF Read
<1> HIDE DEF ps
<1> QED
  BY <1>1, <1>2, <1>3, <1>4, DeliverKeepsInv DEF Read

\* A lost connection answers every pending caller with the error.
LEMMA LostKeepsInv ==
  ASSUME UpstreamInv, NEW s \in Sockets, Lost(s)
  PROVE  UpstreamInv'
<1>1. <<Error>> \in Chan \ {<<>>}
  BY DEF Chan, Error
<1>2. wire' \in [Sockets -> SUBSET InFlight] /\ \A t \in Sockets : wire'[t] \subseteq wire[t]
  BY DEF Lost, UpstreamInv, TypeOK
<1>3. caller' = Sent(pending[s], <<Error>>)
  BY DEF Lost, failAllLocked
<1>4. pending' = [pending EXCEPT ![s] = @ \ pending[s]]
  BY DEF Lost, failAllLocked
<1>5. pending[s] \in SUBSET pending[s] /\ conn' = [conn EXCEPT ![s] = 0]
  BY DEF Lost
<1> QED
  BY <1>1, <1>2, <1>3, <1>4, <1>5, DeliverKeepsInv DEF Lost

-----------------------------------------------------------------------------
\* Steps that leave callers, requests and tokens alone: Dial, Break, Serve, Mine.
LEMMA OutsideKeepsInv ==
  ASSUME UpstreamInv, UNCHANGED <<next, nextID, pending, queue, caller, cache>>, TypeOK',
         head <= head',
         \A s \in Sockets : conn'[s] = conn[s] \/ conn[s] = 0,
         \A s \in Sockets : \A x \in wire'[s] : \E y \in wire[s] :
            /\ x.id = y.id /\ x.call = y.call
            /\ x.ans = y.ans \/ (x.ans \notin {<<>>, <<Error>>} => Real(x.call, x.ans[1])')
  PROVE  UpstreamInv'
<1>1. \A k, z : Real(k, z) => Real(k, z)'
  BY DEF Real, UpstreamInv, TypeOK
<1>2. SendOK'
  BY DEF UpstreamInv, SendOK, HasToken
<1>3. QueueOK'
  BY QueueKept
<1>4. WireOK'
  <2> SUFFICES ASSUME NEW s \in Sockets, NEW x \in wire'[s]
               PROVE  /\ x.id < nextID[s]
                      /\ x.ans \notin {<<>>, <<Error>>} => Real(x.call, x.ans[1])'
                      /\ \A p \in pending[s] : p.id = x.id => x.call = caller[p.c].call
    BY DEF WireOK, Real
  <2>1. PICK y \in wire[s] :
            /\ x.id = y.id /\ x.call = y.call
            /\ x.ans = y.ans \/ (x.ans \notin {<<>>, <<Error>>} => Real(x.call, x.ans[1])')
    OBVIOUS
  <2>2. /\ y.id < nextID[s]
        /\ y.ans \notin {<<>>, <<Error>>} => Real(y.call, y.ans[1])
        /\ \A p \in pending[s] : p.id = y.id => y.call = caller[p.c].call
    BY DEF UpstreamInv, WireOK
  <2> QED
    <3>1. Real(y.call, y.ans[1]) => Real(y.call, y.ans[1])'
      BY <1>1
    <3> QED
      BY <2>1, <2>2, <3>1 DEF Real
<1>5. NobodyStranded'
  <2>1. \A c \in Callers : /\ caller[c].at \in Sockets
                           /\ caller[c].pc \in {"write", "wait"} => caller[c].conn # 0
    BY DEF UpstreamInv, TypeOK, Caller, SendOK
  <2> QED
    BY <2>1 DEF UpstreamInv, NobodyStranded
<1>6. AnswersReal'
  BY <1>1 DEF UpstreamInv, AnswersReal, Real
<1> QED
  BY <1>2, <1>3, <1>4, <1>5, <1>6 DEF UpstreamInv

\* Steps outside the callers: dialling, the node, the network, new blocks.
LEMMA NodeKeepsInv ==
  ASSUME UpstreamInv,
         \/ \E s \in Sockets : Dial(s) \/ Node(s) \/ Break(s)
         \/ Mine
  PROVE  UpstreamInv'
<1>1. TypeOK
  BY DEF UpstreamInv
<1>2. ASSUME NEW s \in Sockets, Dial(s) PROVE UpstreamInv'
  <2>1. TypeOK'
    BY <1>1, <1>2 DEF TypeOK, Dial
  <2> QED
    BY <1>1, <1>2, <2>1, OutsideKeepsInv DEF Dial, TypeOK
<1>3. ASSUME NEW s \in Sockets, Break(s) PROVE UpstreamInv'
  <2>1. TypeOK'
    BY <1>1, <1>3 DEF TypeOK, Break
  <2>2. \A t \in Sockets : wire'[t] \subseteq wire[t]
    BY <1>1, <1>3 DEF TypeOK, Break
  <2> QED
    BY <1>1, <1>3, <2>1, <2>2, OutsideKeepsInv DEF Break, TypeOK
<1>4. ASSUME Mine PROVE UpstreamInv'
  <2>1. TypeOK' /\ UNCHANGED <<wire, conn>>
    BY <1>1, <1>4 DEF TypeOK, Mine, sockVars
  <2> QED
    BY <1>1, <1>4, <2>1, OutsideKeepsInv DEF Mine, TypeOK, sockVars
<1>5. ASSUME NEW s \in Sockets, NEW x \in wire[s], Serve(s, x) PROVE UpstreamInv'
  <2>1. PICK r \in {Error, Result(x.call, head)} :
          wire' = [wire EXCEPT ![s] = (@ \ {x}) \union {[x EXCEPT !.ans = <<r>>]}]
    BY <1>5 DEF Serve
  <2> DEFINE y == [x EXCEPT !.ans = <<r>>]
  <2>2. x \in InFlight /\ head \in Nat
    BY <1>1 DEF TypeOK
  <2>3. r \in Int /\ (r # Error => Real(x.call, r))
    BY <2>2, UpstreamAssumption DEF Error, Result, Real, InFlight
  <2>4. y \in InFlight /\ y.id = x.id /\ y.call = x.call /\ y.ans = <<r>>
    BY <2>2, <2>3 DEF InFlight, Chan
  <2>5. /\ wire' \in [Sockets -> SUBSET InFlight]
        /\ \A t \in Sockets : \A z \in wire'[t] : z \in wire[t] \/ (t = s /\ z = y)
    BY <2>1, <2>4, <1>1 DEF TypeOK
  <2>6. UNCHANGED <<head, next, conn, dials, up, nextID, pending, queue, caller, cache>>
    BY <1>5 DEF Serve
  <2>7. TypeOK'
    BY <2>5, <2>6, <1>1 DEF TypeOK
  <2>8. y.ans \notin {<<>>, <<Error>>} => Real(y.call, y.ans[1])'
    BY <2>3, <2>4, <2>6 DEF Real
  <2> HIDE DEF y
  <2>9. \A t \in Sockets : \A z \in wire'[t] : \E v \in wire[t] :
            /\ z.id = v.id /\ z.call = v.call
            /\ z.ans = v.ans \/ (z.ans \notin {<<>>, <<Error>>} => Real(z.call, z.ans[1])')
    BY <2>4, <2>5, <2>8
  <2> QED
    BY <2>2, <2>6, <2>7, <2>9, OutsideKeepsInv
<1> QED
  BY <1>2, <1>3, <1>4, <1>5 DEF Node

-----------------------------------------------------------------------------
\* The inductive step of the pool's invariant, one case per action.
LEMMA NextUpstreamInv == UpstreamInv /\ [Next]_vars => UpstreamInv'
<1> SUFFICES ASSUME UpstreamInv, [Next]_vars PROVE UpstreamInv'
  OBVIOUS
<1>1. ASSUME NEW c \in Callers, CallerStep(c) PROVE UpstreamInv'
  BY <1>1, AwaitReadyKeepsInv, NotOpenKeepsInv, RegisterKeepsInv, WriteKeepsInv, WriteFailsKeepsInv,
     ReceiveKeepsInv, RespondKeepsInv DEF CallerStep
<1>2. ASSUME NEW s \in Sockets, SocketStep(s) \/ Node(s) \/ Break(s) PROVE UpstreamInv'
  BY <1>2, ReadKeepsInv, LostKeepsInv, NodeKeepsInv DEF SocketStep
<1>3. CASE UNCHANGED vars
  BY <1>3 DEF vars, UpstreamInv, TypeOK, SendOK, QueueOK, WireOK, NobodyStranded, AnswersReal, HasToken, Real
<1> QED
  BY <1>1, <1>2, <1>3, AskKeepsInv, NodeKeepsInv DEF Next

(***************************************************************************)
(* rpcSocket.send and readLoop agree about what is under way: whenever a   *)
(* connection ends, between any two steps of any caller, a waiting caller  *)
(* has its answer or is in the pending map that failAllLocked will fail.   *)
(***************************************************************************)
THEOREM UpstreamStrandsNobody == Spec => []NobodyStranded
<1>1. UpstreamInv => NobodyStranded
  BY DEF UpstreamInv
<1> QED
  BY <1>1, InitUpstreamInv, NextUpstreamInv, PTL DEF Spec

(***************************************************************************)
(* No caller of the eth_call proxy gets the answer to somebody else's      *)
(* request, from a socket that was reused after a loss or from the cache.  *)
(***************************************************************************)
THEOREM UpstreamAnswersReal == Spec => []AnswersReal
<1>1. UpstreamInv => AnswersReal
  BY DEF UpstreamInv
<1> QED
  BY <1>1, InitUpstreamInv, NextUpstreamInv, PTL DEF Spec
=============================================================================
