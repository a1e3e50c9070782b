----------------------------- MODULE MCFrontEnd -----------------------------
(* FrontEnd with two sessions and two tasks. *)
EXTENDS FrontEnd
=============================================================================
