-------------------------- MODULE MCMcpConnection --------------------------
(***************************************************************************)
(* One server and one request, which is a tools/call or one that may be    *)
(* repeated: the connection is lost, restarted, removed or shut down at    *)
(* any of its awaits.                                                      *)
(***************************************************************************)
EXTENDS McpConnection

CONSTANTS call, read, supervisor1, supervisor2
=============================================================================
