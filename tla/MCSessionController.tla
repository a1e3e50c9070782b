------------------------- MODULE MCSessionController -------------------------
(***************************************************************************)
(* Two tasks and the commands of a user who changes their mind.            *)
(***************************************************************************)
EXTENDS SessionController

CONSTANTS first, second, esc, clear, resume, mcp, other, small, large
=============================================================================
