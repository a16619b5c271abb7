-------------------------------- MODULE Wire --------------------------------
(***************************************************************************)
(* What the state server and its clients share: the chain behind the       *)
(* node's RPC endpoint, the keys of the replicated state, and the two      *)
(* directions of every WebSocket.                                          *)
(*                                                                         *)
(* Data abstraction: the value of a key is the number of the block that    *)
(* last wrote it, so two values are equal exactly when no write lies       *)
(* between the blocks they were read at.  A block_diff carries its block   *)
(* number; its entries are looked up in the (append-only) chain.           *)
(***************************************************************************)
EXTENDS Integers, Sequences, FiniteSets

CONSTANTS
    Client,      \* WebSocket connections to the state server
    MaxCalls,    \* bound: requests a connection sends, or has under way
    SlotKey,     \* storage slots            ("s:" entries)
    AcctKey,     \* balances and nonces      ("b:" and "n:" entries)
    CodeKey,     \* contract code            ("c:" entries)
    AddrOf,      \* the address a key belongs to
    MaxBlock,    \* bound: the last block the node mines
    Absent,      \* "not in the map"
    Zero,        \* the zero word Go puts where it has no value
    Failed       \* an RPC error in the place of a value

Key == SlotKey \cup AcctKey \cup CodeKey
Block == 0..MaxBlock
Id == 1..MaxCalls       \* JSON-RPC request ids

\* What a map entry can hold: a value of the chain, or a zero filled in by Go.
Value == Block \cup {Zero}

ASSUME WireAssumption ==
    /\ MaxBlock \in Nat
    /\ MaxCalls \in Nat
    /\ {Absent, Zero, Failed} \cap Nat = {}
    /\ Absent # Zero /\ Absent # Failed /\ Zero # Failed
    /\ IsFiniteSet(SlotKey)
    /\ SlotKey \cap (AcctKey \cup CodeKey) = {}
    /\ AcctKey \cap CodeKey = {}

VARIABLES
    chain,       \* chain[b][k]: value of k after block b
    head,        \* last block of the node
    conn,        \* per connection: how far the WebSocket has got
    up,          \* per connection: requests on their way to the server
    down,        \* per connection: text frames on their way to the client
    dump         \* per connection: the binary initial_dump frame, ahead of `down'

nodeVars == <<chain, head>>
wireVars == <<conn, up, down, dump>>

ConnState == {"none", "subscribing", "subscribed", "worker", "closed"}

\* Requests: the blockNumber parameter is overwritten by the server and not kept.
Request == [id : Id, key : Key]

BlockDiff == [type : {"block_diff"}, block : Block]
Response == [type : {"response"}, id : Id, val : Value \cup {Failed}]
Frame == BlockDiff \cup Response

NoDump == [block |-> 0, state |-> Absent]
Dump == [block : Block, state : [Key -> Value \cup {Absent}]]

\* The keys a block wrote: what the tracer lists under "post".  A transaction
\* whose result has no "post" the code skips; here the node's traces are complete.
Diff(b) == {k \in Key : chain[b][k] = b}

-----------------------------------------------------------------------------
NodeTypeOK ==
    /\ chain \in [Block -> [Key -> Block]]
    /\ head \in Block

WireTypeOK ==
    /\ conn \in [Client -> ConnState]
    /\ up \in [Client -> Seq(Request)]
    /\ down \in [Client -> Seq(Frame)]
    /\ dump \in [Client -> Dump \cup {NoDump}]

NodeInit ==
    /\ chain = [b \in Block |-> [k \in Key |-> 0]]
    /\ head = 0

WireInit ==
    /\ conn = [c \in Client |-> "none"]
    /\ up = [c \in Client |-> <<>>]
    /\ down = [c \in Client |-> <<>>]
    /\ dump = [c \in Client |-> NoDump]

(***************************************************************************)
(* The node accepts a block that writes the keys in `written'.  Avalanche  *)
(* blocks are final: an accepted block never changes.                      *)
(***************************************************************************)
Mine(written) ==
    /\ head < MaxBlock
    /\ head' = head + 1
    /\ chain' = [chain EXCEPT ![head + 1] =
                    [k \in Key |-> IF k \in written THEN head + 1
                                                    ELSE chain[head][k]]]

(***************************************************************************)
(* Every block value is the last write at or before that block.            *)
(***************************************************************************)
ChainOK ==
    \A b \in 0..head, k \in Key :
        /\ chain[b][k] \in 0..b
        /\ \A w \in chain[b][k]..b : chain[w][k] = chain[b][k]
=============================================================================
