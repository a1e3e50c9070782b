---------------------------- MODULE MCGoalRunner ----------------------------
(***************************************************************************)
(* A goal of eight units of time.  Where silence of three is a stall it is *)
(* watched: the watchdog looks every two units; where the stall budget is  *)
(* the whole time it runs inline.  An approval is denied after two units.  *)
(* A cancelled task unwinds as cancelled, or ends on its own.              *)
(***************************************************************************)
EXTENDS GoalRunner

MCUnwinds == {"cancellation", "done", "blocked"}
=============================================================================
