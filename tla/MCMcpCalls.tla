----------------------------- MODULE MCMcpCalls -----------------------------
(* McpCalls over the small instances of its machines.                         *)
EXTENDS McpCalls, MCFundQuotes, MCFundLookup
=============================================================================
