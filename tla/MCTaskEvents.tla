---------------------------- MODULE MCTaskEvents ----------------------------
(***************************************************************************)
(* The two sides of a terminal: what it and the other readers make of the  *)
(* events of two tasks (TaskEvents), and what its keys do (Keyboard).  A   *)
(* behaviour is one of the two: the keys look at the transcript only for   *)
(* its task, cards and list, which Keyboard has itself.                    *)
(***************************************************************************)
EXTENDS TaskEvents, Keyboard

CONSTANTS t1, t2

MCTasks == <<t1, t2>>
MCOptions == [resume |-> 2, model |-> 1]

VARIABLES
    moves       \* which of them

ViewsInit == Init /\ KeysInit /\ moves \in {"events", "keys"}

ViewsNext ==
    /\ UNCHANGED moves
    /\ \/ moves = "events" /\ Next /\ UNCHANGED keyVars
       \/ moves = "keys" /\ KeysNext /\ UNCHANGED vars

ViewsSpec == ViewsInit /\ [][ViewsNext]_<<vars, keyVars, moves>>
=============================================================================
