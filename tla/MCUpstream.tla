----------------------------- MODULE MCUpstream -----------------------------
(***************************************************************************)
(* Two callers on two sockets; the third call meets one under way.         *)
(***************************************************************************)
EXTENDS Upstream, TLC

MCPinnedAt == "pinned" :> 7
=============================================================================
