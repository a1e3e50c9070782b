--------------------------- MODULE GoalLifecycle ---------------------------
(***************************************************************************)
(* What a goal promises to whoever reads its events: it starts, it works,  *)
(* and once nothing works for it any more it reports one terminal event.   *)
(***************************************************************************)
EXTENDS Sequences

CONSTANT TerminalEvents

VARIABLES
    working,    \* something runs on behalf of the goal
    reported    \* the goal's lifecycle events, in order

vars == <<working, reported>>

Init == working = FALSE /\ reported = <<>>

Start ==
    /\ reported = <<>>
    /\ working' = TRUE
    /\ reported' = <<"goal.started">>

Stop == working /\ working' = FALSE /\ UNCHANGED reported

Report(event) ==
    /\ ~working
    /\ reported = <<"goal.started">>
    /\ reported' = Append(reported, event)
    /\ UNCHANGED working

Next == Start \/ Stop \/ \E event \in TerminalEvents : Report(event)

Spec == Init /\ [][Next]_vars
=============================================================================
