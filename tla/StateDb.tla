------------------------------- MODULE StateDb -------------------------------
(***************************************************************************)
(* statedb/statedb.go: the client's StateDB and the overlays stacked on    *)
(* it.  Every StateDB has a primary layer (ImmutableState) and a backfill; *)
(* an overlay is a StateDB whose fetcher is the StateDB below it.  Layer 1 *)
(* is the replica, layer 2 the overlay with the token overrides, layer 3   *)
(* the overlay of one split.  One address is enough: its slot, balance,    *)
(* nonce and code are the keys.                                            *)
(***************************************************************************)
EXTENDS Naturals, Sequences, FiniteSets

CONSTANTS
    MaxBlock,       \* bound: blocks after the dump
    Focus,          \* bound: the keys a behaviour reads and writes, one set of these
    Depth,          \* layers
    Foreign,        \* a value that calls and overrides write and no block does
    Word,           \* 2^256: where a balance wraps
    Absent

ASSUME StateDbAssumption ==
    /\ MaxBlock \in Nat /\ Depth \in Nat \ {0}
    /\ Word \in Nat /\ Foreign \in MaxBlock + 1 .. Word - 1
    /\ Absent \notin Nat
    /\ Focus \subseteq SUBSET {"slot", "balance", "nonce", "code"}

Key == {"slot", "balance", "nonce", "code"}
Value == 0..Word - 1
Layer == 1..Depth
Empty == [k \in Key |-> Absent]

VARIABLES
    keys,       \* the keys of this behaviour
    zeroed,     \* the keys of which the dump said 0 because the server did not cache them
    chain,      \* chain[b][k]: the value of k after block b; a write stores b
    block,      \* the replica's block
    dbs,        \* one StateDB per layer that exists
    running,    \* an EVM call is in progress on the replica
    dirtied,    \* history: keys that calls on the replica have written, and no block since
    tainted,    \* history: keys that calls on the replica have ever written
    written,    \* history: what was written to an overlay, not read through it
    since       \* history: the block at which an overlay was made

vars == <<keys, zeroed, chain, block, dbs, running, dirtied, tainted, written, since>>

-----------------------------------------------------------------------------
\* keccak256; an empty code has no hash.
Keccak(code) == IF code = 0 THEN 0 ELSE code + Word

\* NewStateDB
NewStateDB == [im |-> Empty, imHash |-> Absent, bf |-> Empty, bfHash |-> Absent]

\* Primary layer first, then backfill.
Known(d, k) == IF d.im[k] # Absent THEN d.im[k] ELSE d.bf[k]

\* SetState, SetStorageSlot, SetNonce, SetCode, and what a fetch stores.
Set(d, k, v) ==
    [d EXCEPT !.bf[k] = v,
              !.bfHash = CASE k # "code" -> @
                           [] k = "code" /\ v = 0 -> Absent
                           [] OTHER -> Keccak(v)]

\* Mutant: a failed fetch is stored as the zero it returns.
FetchRemembering(k, ok) == [val |-> IF ok THEN chain[block][k] ELSE 0, err |-> FALSE]

\* The replica's fetcher: LiveState asks the server, which may fail.
FetchFromServer(k, ok) ==
    IF ok THEN [val |-> chain[block][k], err |-> FALSE] ELSE [val |-> 0, err |-> TRUE]

\* The layers that ask the one below when k is read on layer i: up to i, none
\* of them knows it.
Asking(i, k) == {j \in 1..i : \A m \in j..i : Known(dbs[m], k) = Absent}

\* What they are told by the layer below them, or by the server.
Told(i, k, ok) ==
    LET below == {m \in 1..i \ Asking(i, k) : m = i \/ m + 1 \in Asking(i, k)}
    IN  IF below = {} THEN FetchFromServer(k, ok)
        ELSE [val |-> Known(dbs[CHOOSE m \in below : TRUE], k), err |-> FALSE]

Keeping(layers, k, v) ==
    [j \in DOMAIN dbs |-> IF j \in layers THEN Set(dbs[j], k, v) ELSE dbs[j]]

\* Mutant: every fetch from the layer below drops its error, as FetchNonce does.
GetWithoutErrors(i, k, ok) ==
    LET r == Told(i, k, ok)
        keep == IF r.err THEN Asking(i, k) \ {1} ELSE Asking(i, k)
    IN  [dbs |-> Keeping(keep, k, r.val), val |-> r.val]

(***************************************************************************)
(* getStorageWithErr, getBalanceWithErr, GetNonce, getCodeWithErr on layer *)
(* i: the layers below are asked in turn, and each keeps what it was told. *)
(* FetchNonce returns no error, so a nonce that could not be fetched is    *)
(* kept as 0 by the overlays, though not by the replica.                   *)
(***************************************************************************)
Get(i, k, ok) ==
    LET r == Told(i, k, ok)
        keep == CASE ~r.err -> Asking(i, k)
                  [] r.err /\ k = "nonce" -> Asking(i, k) \ {1}
                  [] OTHER -> {}
    IN  [dbs |-> Keeping(keep, k, r.val), val |-> r.val]

\* GetCodeHash, when the code is known: both layers' hashes come first.
HashKnown(d) ==
    CASE d.imHash # Absent -> d.imHash
      [] d.imHash = Absent /\ d.bfHash # Absent -> d.bfHash
      [] OTHER -> Keccak(Known(d, "code"))

-----------------------------------------------------------------------------
(***************************************************************************)
(* dumpGob, loadGobDump and SetAccount: of an address with a balance, a    *)
(* nonce or a code in the server's cache the dump has one entry, and the   *)
(* client takes a balance and a nonce from it in any case: 0 where the     *)
(* server had none.  Empty code is not taken.                              *)
(***************************************************************************)
Zeros(cached) ==
    IF cached \cap {"balance", "nonce", "code"} = {} THEN {} ELSE {"balance", "nonce"} \ cached

\* The replica made of a dump of the cached keys.
Dumped(cached) ==
    LET code == IF "code" \in cached THEN chain[0]["code"] ELSE 0
    IN  [NewStateDB EXCEPT
           !.im = [k \in Key |->
                     CASE k \in Zeros(cached) -> 0
                       [] k = "code" /\ code = 0 -> Absent
                       [] k \in cached /\ (k = "code" => code # 0) -> chain[0][k]
                       [] OTHER -> Absent],
           !.imHash = IF code = 0 THEN Absent ELSE Keccak(code)]

\* The server has cached some of the keys before the client connects.
Init ==
    /\ keys \in Focus
    /\ \E code \in {0} \cup (IF "code" \in keys THEN {Word - 1} ELSE {}) :
          chain = [b \in 0..MaxBlock |->
                     [k \in Key |-> CASE k = "code" -> code [] k = "slot" -> 0 [] OTHER -> Word - 1]]
    /\ block = 0
    /\ \E cached \in SUBSET Key : dbs = <<Dumped(cached)>> /\ zeroed = Zeros(cached)
    /\ running = FALSE
    /\ dirtied = {} /\ tainted = {}
    /\ written = [i \in Layer |-> Empty]
    /\ since = [i \in Layer |-> 0]

\* A read through layer i: a formula, or the EVM on a CallState above it.
Read(i, k) ==
    /\ i \in DOMAIN dbs
    /\ \E ok \in BOOLEAN : dbs' = Get(i, k, ok).dbs
    /\ UNCHANGED <<chain, block, running, dirtied, tainted, keys, zeroed, written, since>>

(***************************************************************************)
(* ApplyBlockDiff: backfill into the primary layer, then the diff, which   *)
(* has no code in it; code found in the backfill brings its hash.  Only    *)
(* the replica is told; no call is running, LiveState holds blockMu.       *)
(***************************************************************************)
ApplyBlockDiff(changed) ==
    /\ ~running
    /\ block < MaxBlock
    /\ LET b == block + 1
           new == [k \in Key |-> IF k \in changed THEN b ELSE chain[block][k]]
           d == dbs[1]
       IN  /\ chain' = [c \in 0..MaxBlock |-> IF c < b THEN chain[c] ELSE new]
           /\ block' = b
           /\ dbs' = [dbs EXCEPT ![1] = [d EXCEPT
                 !.im = [k \in Key |-> CASE k \in changed \ {"code"} -> b
                                         [] k \notin changed \ {"code"} /\ d.bf[k] # Absent -> d.bf[k]
                                         [] OTHER -> d.im[k]],
                 !.imHash = IF d.bf["code"] \notin {Absent, 0} THEN Keccak(d.bf["code"]) ELSE @,
                 !.bf = Empty,
                 !.bfHash = Absent]]
           /\ dirtied' = dirtied \ (changed \ {"code"})
    /\ UNCHANGED <<running, tainted, keys, zeroed, written, since>>

-----------------------------------------------------------------------------
\* NewOverlay on the topmost layer.
NewOverlay ==
    /\ Len(dbs) < Depth
    /\ dbs' = Append(dbs, NewStateDB)
    /\ since' = [since EXCEPT ![Len(dbs) + 1] = block]
    /\ UNCHANGED <<chain, block, running, dirtied, tainted, keys, zeroed, written>>

\* The topmost overlay goes out of scope.
Discard ==
    /\ Len(dbs) > 1
    /\ dbs' = SubSeq(dbs, 1, Len(dbs) - 1)
    /\ written' = [written EXCEPT ![Len(dbs)] = Empty]
    /\ since' = [since EXCEPT ![Len(dbs)] = 0]
    /\ UNCHANGED <<chain, block, running, dirtied, tainted, keys, zeroed>>

\* SetStorageSlot: an override, or the dirty slot of an earlier leg.
SetStorageSlot(i) ==
    /\ i = Len(dbs) /\ i > 1
    /\ dbs' = [dbs EXCEPT ![i] = Set(@, "slot", Foreign)]
    /\ written' = [written EXCEPT ![i]["slot"] = Foreign]
    /\ UNCHANGED <<chain, block, running, dirtied, tainted, keys, zeroed, since>>

\* SetAccount: ApplyOverridesFlat sets balance, nonce 0 and, if given, code.
SetAccount(i, code) ==
    /\ i = Len(dbs) /\ i = 2
    /\ LET set == Set(Set(dbs[i], "balance", Foreign), "nonce", 0)
           given == {"balance", "nonce"} \cup (IF code = 0 THEN {} ELSE {"code"})
           d == IF code = 0 THEN set ELSE Set(set, "code", code)
       IN  /\ dbs' = [dbs EXCEPT ![i] = d]
           /\ written' = [written EXCEPT ![i] = [k \in Key |-> IF k \in given THEN d.bf[k] ELSE @[k]]]
    /\ UNCHANGED <<chain, block, running, dirtied, tainted, keys, zeroed, since>>

-----------------------------------------------------------------------------
(***************************************************************************)
(* An EVM call directly on the replica (ethCall of the browser SDK, the    *)
(* tools): the vm.StateDB methods write to its backfill.                   *)
(***************************************************************************)

\* SubBalance and AddBalance read without an error and write modulo 2^256.
MoveBalance(amount, ok) ==
    LET r == Get(1, "balance", ok)
    IN  [r.dbs EXCEPT ![1] = Set(@, "balance", (r.val + amount) % Word)]

Dirty(k) == dirtied' = dirtied \cup {k} /\ tainted' = tainted \cup {k}

\* Execute: Prepare, EVM.Call's snapshot and its transfer of 0.
BeginCall ==
    /\ ~running /\ running' = TRUE
    /\ \E ok \in BOOLEAN : dbs' = MoveBalance(0, ok)
    /\ Dirty("balance")
    /\ UNCHANGED <<chain, block, keys, zeroed, written, since>>

\* SSTORE, CREATE's nonce, and the code of a contract where there was none.
CallWrites(k) ==
    /\ running
    /\ k = "code" => Known(dbs[1], "code") = 0
    /\ dbs' = [dbs EXCEPT ![1] = Set(@, k, Foreign)]
    /\ Dirty(k)
    /\ UNCHANGED <<chain, block, running, keys, zeroed, written, since>>

CallTransfers(amount) ==
    /\ running
    /\ \E ok \in BOOLEAN : dbs' = MoveBalance(amount, ok)
    /\ Dirty("balance")
    /\ UNCHANGED <<chain, block, running, keys, zeroed, written, since>>

(***************************************************************************)
(* The call returns or reverts.  RevertToSnapshot puts back the pointer to *)
(* the primary layer, which is the same one, and the refund: the backfill  *)
(* keeps what a reverted call has written.                                 *)
(***************************************************************************)
EndCall ==
    /\ running /\ running' = FALSE
    /\ UNCHANGED <<chain, block, dbs, dirtied, tainted, keys, zeroed, written, since>>

Next ==
    \/ \E i \in Layer, k \in keys : Read(i, k)
    \/ \E changed \in SUBSET keys : ApplyBlockDiff(changed)
    \/ NewOverlay
    \/ Discard
    \/ \E i \in Layer : SetStorageSlot(i) \/ \E code \in {0, Foreign} : SetAccount(i, code)
    \/ BeginCall
    \/ \E k \in keys \ {"balance"} : CallWrites(k)
    \/ "balance" \in keys /\ \E amount \in {1, Word - 1} : CallTransfers(amount)
    \/ EndCall

Spec == Init /\ [][Next]_vars

-----------------------------------------------------------------------------
\* No block has written k since the dump said 0 of it.
StillZeroed(k) == k \in zeroed /\ chain[block][k] = chain[0][k]

(***************************************************************************)
(* The replica answers with the chain's state at its block, whatever was   *)
(* overridden, read or failed in the overlays above it.  A wrong answer is *)
(* one that a call executed on the replica itself has written, or the 0 of *)
(* a balance or a nonce that the dump had without the server caching it;   *)
(* the next block that writes the key repairs both.  Code is the           *)
(* exception: no diff carries it, and it is that of some block since the   *)
(* dump.  In every layer GetCodeHash and GetCode describe the same code.   *)
(***************************************************************************)
ReplicaIsChain ==
    /\ \A k \in Key \ dirtied :
        Known(dbs[1], k) # Absent =>
            IF k = "code" THEN \E b \in 0..block : Known(dbs[1], k) = chain[b][k]
                          ELSE \/ Known(dbs[1], k) = chain[block][k]
                               \/ StillZeroed(k) /\ Known(dbs[1], k) = 0
    /\ \A i \in DOMAIN dbs :
        Known(dbs[i], "code") # Absent /\ (i = 1 => "code" \notin dirtied) =>
            HashKnown(dbs[i]) = Keccak(Known(dbs[i], "code"))

(***************************************************************************)
(* What an overlay was given stays what it answers, whatever is read       *)
(* through it, executed below it or changed by later blocks.  What it was  *)
(* not given is an override of an overlay below or a value the chain has   *)
(* had since the lowest overlay was made: overlays age, but no value       *)
(* outlives them.  A nonce may also be a failed fetch, and a balance the 0 *)
(* of a dump without it.                                                   *)
(***************************************************************************)
OverlaysAnswer ==
    \A i \in DOMAIN dbs \ {1}, k \in Key :
        LET v == Known(dbs[i], k) IN
        /\ written[i][k] # Absent => v = written[i][k]
        /\ v # Absent /\ k \notin tainted =>
            \/ \E j \in 2..i : written[j][k] = v
            \/ \E b \in since[2]..block : chain[b][k] = v
            \/ k = "nonce" /\ v = 0
            \/ k \in zeroed /\ v = 0
            \/ k = "code"

=============================================================================
