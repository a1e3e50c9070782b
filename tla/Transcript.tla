---------------------------- MODULE Transcript ----------------------------
(***************************************************************************)
(* What the terminal shows of a trace: an event as an item of the feed     *)
(* (ui/feed.py), and the reducer that folds items into the live blocks and *)
(* those that are final (ui/tui/transcript.py).  Pure; an event is as in   *)
(* Spans.  `printed` holds what the reducer returned to be printed.        *)
(***************************************************************************)
EXTENDS Spans

FeedKind(type) ==
    CASE type \in TerminalEvents -> "outcome"
      [] type = "goal.started" -> "goal_started"
      [] type = "plan.updated" -> "plan"
      [] type = "turn.started" -> "turn"
      [] type \in {"model.requested", "model.responded"} -> "model"
      [] type = "action.proposed" -> "call"
      [] type \in {"policy.decided", "hook.decided", "permission.decided"} -> "gate"
      [] type = "approval.requested" -> "approval_requested"
      [] type \in {"approval.resolved", "approval.answered"} -> "approval_resolved"
      [] type = "tool.started" -> "tool_started"
      [] type = "tool.finished" -> "tool_finished"
      [] type = "observation.compiled" -> "observation"
      [] type \in {"memory.outcome", "memory.consolidated", "memory.skipped"} -> "memory"
      [] OTHER -> "session"

\* Events the feed leaves out; of the gates, those that let the call through.
Unshown(e) ==
    CASE e.type \in {"session.started", "session.closed", "model.responded"} -> TRUE
      [] e.type = "policy.decided" -> Get(e, "decision") # "blocked"
      [] e.type = "hook.decided" -> Get(e, "decision") \notin {"deny", "ask"} /\ Get(e, "error") = None
      [] OTHER -> FALSE

\* project_event: the payload stays as it is, its texts sanitized.
ProjectEvent(e) == [kind |-> FeedKind(e.type), sequence |-> e.sequence, task |-> e.task,
                    type |-> e.type, payload |-> e.payload]

Feed(events) ==
    LET shown == SelectSeq(events, LAMBDA e : ~Unshown(e))
    IN  [i \in DOMAIN shown |-> ProjectEvent(shown[i])]

----------------------------------------------------------------------------
CallKinds == {"gate", "approval_requested", "approval_resolved", "tool_started", "tool_finished"}

Block(id, kind, task, items) ==
    [id |-> id, kind |-> kind, task |-> task, items |-> items,
     steps |-> 0, current |-> 0, calls |-> 0, answer |-> None]

NewTranscript == [live |-> <<>>, task |-> None, next |-> 1, last |-> 0, printed |-> <<>>]

TaskProgress(t) == [task |-> t, turn |-> None, phase |-> None, calls |-> 0, steps |-> 0, current |-> 0]

LiveAt(t, kind) == SelectInSeq(t.live, LAMBDA b : b.kind = kind)

\* _new_block, put in front of or behind the live ones.
NewBlock(t, kind, task, items) ==
    [t EXCEPT !.next = @ + 1, !.live = Append(@, Block(t.next, kind, task, items))]
NewFirst(t, kind, task) ==
    [t EXCEPT !.next = @ + 1, !.live = <<Block(t.next, kind, task, <<>>)>> \o @]

\* _freeze_new
FreezeNew(t, kind, task, items) ==
    [t EXCEPT !.next = @ + 1, !.printed = Append(@, Block(t.next, kind, task, items))]

\* _freeze_kinds
FreezeKinds(t, kinds) ==
    [t EXCEPT !.live = SelectSeq(@, LAMBDA b : b.kind \notin kinds),
              !.printed = @ \o SelectSeq(t.live, LAMBDA b : b.kind \in kinds)]

WithBlock(t, kind, task) == IF LiveAt(t, kind) = 0 THEN NewBlock(t, kind, task, <<>>) ELSE t
AddToCall(t, item) == [t EXCEPT !.live[LiveAt(t, "call")].items = Append(@, item)]
Progress(t, item) == IF t.task = None THEN [t EXCEPT !.task = TaskProgress(item.task)] ELSE t

StartGoal(t, item) == [FreezeKinds(t, {"call", "plan"}) EXCEPT !.task = TaskProgress(item.task)]

\* A new plan, or its steps' progress.
ShowPlan(t, item) ==
    LET known == Progress(t, item)
        held == IF LiveAt(t, "plan") = 0 THEN NewFirst(known, "plan", item.task) ELSE known
        steps == Len(item.payload.steps)
        current == item.payload.current_step
    IN  [held EXCEPT !.task.steps = steps, !.task.current = current,
                     !.live[LiveAt(held, "plan")] =
                        [@ EXCEPT !.steps = steps, !.current = current, !.items = <<item>>]]

StartTurn(t, item) ==
    LET current == item.payload.current_step
        known == [Progress(t, item) EXCEPT !.task.turn = item.payload.turn, !.task.current = current]
    IN  IF LiveAt(t, "plan") = 0 THEN known
        ELSE [known EXCEPT !.live[LiveAt(t, "plan")].current = current]

CallModel(t, item) == IF t.task = None THEN t ELSE [t EXCEPT !.task.phase = item.payload.phase]

ProposeCall(t, item) ==
    LET new == NewBlock(FreezeKinds(t, {"call"}), "call", item.task, <<item>>)
    IN  IF t.task = None THEN new ELSE [new EXCEPT !.task.phase = "tool"]

\* A gate, an approval, the start or the end of the tool.
ExtendCall(t, item) ==
    LET new == AddToCall(WithBlock(t, "call", item.task), item)
    IN  IF item.kind = "tool_finished" /\ t.task # None THEN [new EXCEPT !.task.calls = @ + 1] ELSE new

Observe(t, item) ==
    IF LiveAt(t, "call") = 0 THEN t ELSE FreezeKinds(AddToCall(t, item), {"call"})

\* The plan of a completed task is printed as done, an empty one not at all.
PrintPlan(t, item) ==
    LET i == LiveAt(t, "plan")
        plan == t.live[i]
        done == IF item.type = "goal.completed" THEN [plan EXCEPT !.current = plan.steps] ELSE plan
    IN  IF i = 0 THEN t
        ELSE [t EXCEPT !.live = SelectSeq(@, LAMBDA b : b.kind # "plan"),
                       !.printed = IF plan.steps = 0 THEN @ ELSE Append(@, done)]

\* _reduce_outcome
ReduceOutcome(t, item) ==
    LET ended == FreezeNew(PrintPlan(FreezeKinds(t, {"call", "approval"}), item),
                           "outcome", item.task, <<item>>)
    IN  [ended EXCEPT !.task = None,
            !.printed[Len(ended.printed)].calls = IF t.task = None THEN 0 ELSE t.task.calls]

\* _reduce_feed: what was folded in before is not folded in again.
ReduceFeed(t, item) ==
    LET seen == [t EXCEPT !.last = item.sequence]
    IN  IF item.sequence <= t.last THEN t
        ELSE CASE item.kind = "goal_started" -> StartGoal(seen, item)
               [] item.kind = "plan" -> ShowPlan(seen, item)
               [] item.kind = "turn" -> StartTurn(seen, item)
               [] item.kind = "model" -> CallModel(seen, item)
               [] item.kind = "call" -> ProposeCall(seen, item)
               [] item.kind \in CallKinds -> ExtendCall(seen, item)
               [] item.kind = "observation" -> Observe(seen, item)
               [] item.kind = "outcome" -> ReduceOutcome(seen, item)
               [] item.kind = "memory" -> FreezeNew(seen, "notice", item.task, <<item>>)

----------------------------------------------------------------------------
(* The messages that are not the feed's *)

UserSubmitted(t, text) == FreezeNew(t, "user", text, <<>>)
ApprovalShown(t, task) == NewBlock(t, "approval", task, <<>>)

\* _close_approval, of the one card there is.
CloseApproval(t, answer) ==
    LET i == LiveAt(t, "approval")
    IN  IF i = 0 THEN t
        ELSE [t EXCEPT !.live = SelectSeq(@, LAMBDA b : b.kind # "approval"),
                       !.printed = Append(@, [t.live[i] EXCEPT !.answer = answer])]
=============================================================================
