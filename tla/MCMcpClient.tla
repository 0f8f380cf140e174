----------------------------- MODULE MCMcpClient -----------------------------
(* Two calls of different runs share one MCP server. *)
EXTENDS McpClient, TLC

Sym == Permutations(Calls)
=============================================================================
