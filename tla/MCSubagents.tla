----------------------------- MODULE MCSubagents -----------------------------
(* A call of the root and one of the child it starts.                       *)
EXTENDS Subagents, TLC

CONSTANTS outer, inner

MCCalls == {outer, inner}
MCMaker == (outer :> Root) @@ (inner :> outer)
=============================================================================
