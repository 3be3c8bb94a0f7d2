------------------------------ MODULE MCMcpClient ------------------------------
(***************************************************************************)
(* Two requests of an application over HTTP: an initialization and a call  *)
(* that needs a capability, or two of either.                              *)
(***************************************************************************)
EXTENDS McpClient

MCMethods == {"tools/list"}
MCTimeouts == {1, -1}
MCOffers == {{"tools"}}
===============================================================================
