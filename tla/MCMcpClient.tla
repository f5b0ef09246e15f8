---------------------------- MODULE MCMcpClient ----------------------------
(***************************************************************************)
(* The MCP client driven by a short sweep: initialize, tools/list, a step  *)
(* whose failure is survived, and one or two steps after it.               *)
(***************************************************************************)
EXTENDS McpCalls

MCGuarded == {3}
=============================================================================
