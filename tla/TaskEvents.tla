---------------------------- MODULE TaskEvents ----------------------------
(***************************************************************************)
(* The events of a session's tasks, in the order the code emits them       *)
(* (agent_loop/goals.py, agent_loop/execution/loop.py,                     *)
(* harness/approvals.py, harness/session.py), and their readers: the       *)
(* exporter of spans (Spans), the figures (Figures) and the terminal's     *)
(* transcript (Transcript).                                                *)
(*                                                                         *)
(* What decides between the alternatives is modelled elsewhere             *)
(* (AgentLoop, Permissions, Hooks, GoalRunner): here the model, the hooks, *)
(* the rules, the guards and the user choose.  A step is what happens      *)
(* between two awaits.                                                     *)
(***************************************************************************)
EXTENDS Figures, Transcript

CONSTANTS
    Tasks,      \* the sequence of the tasks the user submits
    Text,       \* any text of a user, a model, a page or an exception
    MaxCalls,   \* bound: the calls the model proposes
    MaxTurns,   \* the turn cap
    MaxReplans, \* bound: new plans of a task
    MaxBefore,  \* bound: the events before a task is submitted
    MaxHooks    \* bound: the decisions of hooks

ASSUME TaskEventsAssumption ==
    /\ {MaxCalls, MaxTurns, MaxReplans, MaxBefore, MaxHooks} \subseteq Nat
    /\ {Tasks[i] : i \in DOMAIN Tasks} \cap {None, Text} = {}

VARIABLES
    log,        \* events.jsonl
    sink,       \* OtlpEventSink
    screen,     \* Transcript, and what it printed
    records,    \* SessionContext.tasks
    pc,         \* the await the task is at
    turn,       \* AgentLoopEngine.run's
    calls,      \* how many calls were proposed
    replans,    \* LoopState.replan_count
    known,      \* the tool of the call at hand is in the registry
    granted,    \* the user allowed it for the session
    result      \* the AgentLoopResult the goal ends with

loopVars == <<turn, calls, replans, known, granted, result>>
vars == <<log, sink, screen, records, pc, loopVars>>

Task == IF records = <<>> THEN None ELSE records[Len(records)].task

\* EventEmitter.emit of [type, payload] for the task.
Numbered(task, es) ==
    [i \in DOMAIN es |-> [type |-> es[i].type, task |-> task,
                          sequence |-> Len(log) + i, payload |-> es[i].payload]]

HooksOf(events) == Count(events, "hook.decided")

Record(new) ==
    /\ HooksOf(log \o new) <= MaxHooks
    /\ log' = log \o new /\ sink' = FoldLeft(Handle, sink, new)
Shown(t, new) == FoldLeft(ReduceFeed, t, Feed(new))

Emit(es) ==
    LET new == Numbered(Task, es) IN Record(new) /\ screen' = Shown(screen, new)

E(type, payload) == [type |-> type, payload |-> payload]
Nothing == <<>>

NoResult == [type |-> None, payload |-> Nothing]

Init ==
    /\ log = <<[type |-> "session.started", task |-> None, sequence |-> 1, payload |-> Nothing]>>
    /\ sink = NewSink /\ screen = NewTranscript /\ records = <<>>
    /\ pc = "idle" /\ turn = 0 /\ calls = 0 /\ replans = 0
    /\ known = FALSE /\ granted = FALSE /\ result = NoResult

----------------------------------------------------------------------------
(* The task, from its submission to its plan *)

PlanRequested == E("model.requested", [phase |-> "plan"])
PlanUpdated(current, n) ==
    E("plan.updated", [steps |-> <<Text, Text>>, current_step |-> current, replan_count |-> n])

Tool == IF known THEN "click" ELSE "nosuch"
Call == [name |-> Tool, args |-> Text]

HookDecided(event, decision) ==
    E("hook.decided", [hook_id |-> "hook", event |-> event, decision |-> decision, reason |-> Text]
        @@ (IF event \in {"pre_tool_use", "permission_request"} THEN "tool" :> Tool ELSE <<>>))

\* SessionRuntime.run_task up to GoalRunner.run: the user's line, then goal.started.
Submit ==
    /\ pc = "idle" /\ Len(records) < Len(Tasks) /\ Len(log) <= MaxBefore
    /\ LET task == Tasks[Len(records) + 1]
           new == Numbered(task, <<E("goal.started", [task |-> Text])>>)
       IN  /\ records' = Append(records, [task |-> task, status |-> "running"])
           /\ Record(new) /\ screen' = Shown(UserSubmitted(screen, task), new)
    /\ pc' = "starting" /\ turn' = 0 /\ replans' = 0 /\ result' = NoResult
    /\ UNCHANGED <<calls, known, granted>>

\* The loop returns; the goal ends with the result.
Return(type, reason, turns) ==
    /\ pc' = "ending"
    /\ result' = E(type, [task |-> Text, final_answer |-> Text, stop_reason |-> reason, turns |-> turns])

\* _goal_start: a hook denies the task.
GoalDenied ==
    /\ pc = "starting"
    /\ Emit(<<HookDecided("goal_start", "deny")>>) /\ Return("goal.blocked", "goal_hook_denied", 0)
    /\ UNCHANGED <<records, turn, calls, replans, known, granted>>

\* _run_plan up to its model call.
Plans ==
    /\ pc = "starting"
    /\ Emit(<<PlanRequested>>) /\ pc' = "planning"
    /\ UNCHANGED <<records, loopVars>>

\* The top of the loop after the events es: the next turn, up to the model call, or the cap.
NextTurn(es, plan) ==
    LET next == E("turn.started", [turn |-> turn + 1, current_step |-> plan])
    IN  \/ /\ turn < MaxTurns
           /\ Emit(es \o <<next, E("model.requested", [phase |-> "agent"])>>)
           /\ turn' = turn + 1 /\ pc' = "thinking" /\ UNCHANGED result
        \/ /\ turn < MaxTurns   \* pre_turn_terminal
           /\ Emit(es \o <<next>>)
           /\ turn' = turn + 1 /\ Return("goal.blocked", "consecutive_failures", turn + 1)
        \/ /\ turn = MaxTurns
           /\ Emit(es)
           /\ turn' = turn + 1 /\ Return("goal.blocked", "turn_cap", turn + 1)

\* The planner answers.
Planned ==
    /\ pc = "planning"
    /\ NextTurn(<<E("model.responded", [phase |-> "plan"]), PlanUpdated(0, replans)>>, 0)
    /\ UNCHANGED <<records, calls, replans, known, granted>>

----------------------------------------------------------------------------
(* A turn: what the model answers *)

AgentAnswered == E("model.responded", [phase |-> "agent"])

\* answer, or a stop of the model: the plan is complete.
Answers(type) ==
    /\ pc = "thinking"
    /\ Emit(<<AgentAnswered, PlanUpdated(2, replans)>>) /\ Return(type, IF type = "goal.completed" THEN "answered" ELSE "model_stop", turn)
    /\ UNCHANGED <<records, turn, calls, replans, known, granted>>

\* _stop_check: a stop hook rejects the answer.
AnswerRejected ==
    /\ pc = "thinking"
    /\ NextTurn(<<AgentAnswered, HookDecided("stop", "deny")>>, 0)
    /\ UNCHANGED <<records, calls, replans, known, granted>>

Replans ==
    /\ pc = "thinking" /\ replans < MaxReplans
    /\ Emit(<<AgentAnswered, PlanRequested>>) /\ pc' = "planning" /\ replans' = replans + 1
    /\ UNCHANGED <<records, turn, calls, known, granted, result>>

\* A tool call, up to the broker's preparation of it.
Proposes ==
    /\ pc = "thinking" /\ calls < MaxCalls
    /\ known' \in BOOLEAN
    /\ Emit(<<AgentAnswered, E("action.proposed", Call')>>)
    /\ calls' = calls + 1 /\ pc' = "proposed"
    /\ UNCHANGED <<records, turn, replans, granted, result>>

\* The progress guard blocks it.
Repeated ==
    /\ pc = "thinking" /\ calls < MaxCalls /\ known' = TRUE
    /\ NextTurn(<<AgentAnswered, E("action.proposed", Call'),
                  E("policy.decided", [decision |-> "blocked", reason |-> Text] @@ Call')>>, 0)
    /\ calls' = calls + 1
    /\ UNCHANGED <<records, replans, granted>>

----------------------------------------------------------------------------
(* The gates of a call *)

PermissionDecided(decision, source) ==
    E("permission.decided", [tool |-> Tool, server |-> "browser", decision |-> decision,
                             source |-> source, reason |-> Text])
ApprovalResolved(decision, by, scope) ==
    E("approval.resolved", [decision |-> decision, by |-> by, scope |-> scope])
ToolStarted == E("tool.started", Call)
ApprovalRequested == E("approval.requested", [reason |-> Text] @@ Call)

Runs(es) == Emit(Append(es, ToolStarted)) /\ pc' = "running"
Asks(es) == Emit(es \o <<PermissionDecided("ask", "rule"), ApprovalRequested>>) /\ pc' = "asking"
Gated == UNCHANGED <<records, loopVars>>
Refused == UNCHANGED <<records, calls, replans, known, granted>>

HookDenies ==
    /\ pc = "proposed" /\ known
    /\ NextTurn(<<HookDecided("pre_tool_use", "deny")>>, 0) /\ Refused

\* An unknown tool passes no gate.
Unknown == pc = "proposed" /\ ~known /\ Runs(<<>>) /\ Gated

Denied ==
    /\ pc = "proposed" /\ known
    /\ NextTurn(<<PermissionDecided("deny", "rule")>>, 0) /\ Refused

Allowed ==
    /\ pc = "proposed" /\ known
    /\ Runs(IF granted THEN <<PermissionDecided("allow", "grant"), ApprovalResolved("allow", "grant", "session")>>
            ELSE <<PermissionDecided("allow", "mode")>>)
    /\ Gated

\* A rule asks, or a hook does.
Asked ==
    /\ pc = "proposed" /\ known
    /\ \E hook \in BOOLEAN : Asks(IF hook THEN <<HookDecided("pre_tool_use", "ask")>> ELSE <<>>)
    /\ Gated

\* _classify up to the model call.
Judges ==
    /\ pc = "proposed" /\ known /\ ~granted
    /\ Emit(<<E("model.requested", [phase |-> "approval"])>>) /\ pc' = "judging"
    /\ Gated

JudgedSafe ==
    /\ pc = "judging"
    /\ Runs(<<E("model.responded", [phase |-> "approval", needs_approval |-> FALSE]),
              PermissionDecided("allow", "mode")>>)
    /\ Gated

\* The judge flags the call or fails; the call is asked about, or denied by the mode.
JudgedUnsafe(failed) ==
    /\ pc = "judging"
    /\ LET judged == E("model.responded",
               [phase |-> "approval", needs_approval |-> TRUE]
               @@ (IF failed THEN "error" :> Text ELSE <<>>))
       IN  \/ Asks(<<judged>>) /\ Gated
           \/ NextTurn(<<judged, PermissionDecided("deny", "mode")>>, 0) /\ Refused

\* permission_request hooks.
HookApproves ==
    /\ pc = "asking"
    /\ Runs(<<HookDecided("permission_request", "allow"), ApprovalResolved("allow", "hook", "once")>>)
    /\ Gated

HookRefuses ==
    /\ pc = "asking"
    /\ Emit(<<HookDecided("permission_request", "deny"), ApprovalResolved("deny", "hook", "once")>>)
    /\ Return("goal.blocked", "approval_hook_denied", turn)
    /\ UNCHANGED turn /\ Refused

\* ApprovalBroker: the ticket is shown at once.
TicketOpens ==
    /\ pc = "asking" /\ pc' = "waiting"
    /\ screen' = ApprovalShown(screen, Task)
    /\ UNCHANGED <<log, sink, records, loopVars>>

\* _resolve: approval.answered, then the card closes, then es.
Resolve(answer, via, es) ==
    LET new == Numbered(Task, <<E("approval.answered", [answer |-> answer, via |-> via])>> \o es)
    IN  /\ Record(new)
        /\ screen' = Shown(CloseApproval(Shown(screen, SubSeq(new, 1, 1)), answer), Tail(new))

HumanAllows(scope) ==
    /\ pc = "waiting" /\ pc' = "running"
    /\ Resolve(scope, "human", <<ApprovalResolved("allow", "human", scope), ToolStarted>>)
    /\ granted' = (granted \/ scope = "session")
    /\ UNCHANGED <<records, turn, calls, replans, known, result>>

\* A refusal, or nobody answered in time.
HumanRefuses ==
    /\ pc = "waiting"
    /\ Resolve("deny", "human", <<ApprovalResolved("deny", "human", "once")>>)
    /\ Return("goal.blocked", "approval_denied", turn)
    /\ UNCHANGED turn /\ Refused

\* ToolBroker.invoke returns, a hook that fails after it, the observation.
ToolFinishes(ok, hook) ==
    /\ pc = "running" /\ (ok => known)
    /\ NextTurn(<<E("tool.finished", [name |-> Tool] @@
                    (IF ok THEN [status |-> "success", content |-> Text]
                     ELSE [status |-> "error", error |-> Text]))>>
                \o (IF hook /\ known
                    THEN <<E("hook.decided", [hook_id |-> "hook", event |-> "post_tool_use",
                                              tool |-> Tool, error |-> Text])>> ELSE <<>>)
                \o <<E("observation.compiled", [observation |-> Text])>>, 0)
    /\ Refused

----------------------------------------------------------------------------
(* How a task ends *)

Awaits == {"starting", "planning", "thinking", "proposed", "judging", "asking", "waiting", "running", "ending"}

\* The goal's last event; the session then updates its memory.
Close(status, es) ==
    /\ IF pc = "waiting" THEN Resolve("deny", "cancelled", es) ELSE Emit(es)
    /\ records' = [records EXCEPT ![Len(records)].status = status]
    /\ pc' = "idle"
    /\ UNCHANGED <<loopVars>>

\* GoalRunner.run: a cancellation reaches the task at an await.
Cancelled ==
    /\ pc \in Awaits
    /\ Close("goal.cancelled", <<E("goal.cancelled", [task |-> Text, reason |-> Text, stop_reason |-> "cancelled"])>>)

GoalFailed(type) == E("goal.failed", [task |-> Text, error_type |-> type, error |-> Text])

\* The model cannot be reached; elsewhere, the watchdog cancels the run.
Failed ==
    /\ pc \in Awaits
    /\ Close("goal.failed", <<GoalFailed(IF pc \in {"planning", "thinking"}
                                         THEN "ModelProviderError" ELSE "TimeoutError")>>)

\* goal_end hooks, the goal's event; run_task goes on to the memory.
GoalEnds(hook) ==
    /\ pc = "ending" /\ pc' = "updating"
    /\ Emit((IF hook THEN <<HookDecided("goal_end", "deny")>> ELSE <<>>) \o <<result>>)
    /\ UNCHANGED <<records, loopVars>>

\* _update_memory of a task that loaded entries, finish_task.
TaskReturns ==
    /\ pc = "updating" /\ pc' = "idle"
    /\ Emit(IF result.type = "goal.cancelled" THEN <<>> ELSE <<E("memory.outcome", [reason |-> Text])>>)
    /\ records' = [records EXCEPT ![Len(records)].status = result.type]
    /\ UNCHANGED <<loopVars>>

\* SessionContext.close
SessionCloses ==
    /\ pc = "idle" /\ pc' = "closed"
    /\ LET new == Numbered(None, <<E("session.closed", Nothing)>>)
       IN  Record(new) /\ screen' = Shown(screen, new)
    /\ UNCHANGED <<records, loopVars>>

----------------------------------------------------------------------------
Gate ==
    \/ HookDenies \/ Unknown \/ Denied \/ Allowed \/ Asked
    \/ Judges \/ JudgedSafe \/ \E failed \in BOOLEAN : JudgedUnsafe(failed)
    \/ HookApproves \/ HookRefuses \/ TicketOpens
    \/ \E scope \in {"once", "session"} : HumanAllows(scope)
    \/ HumanRefuses

Next ==
    \/ Submit \/ GoalDenied \/ Plans \/ Planned
    \/ \E type \in {"goal.completed", "goal.blocked", "goal.cancelled"} : Answers(type)
    \/ AnswerRejected \/ Replans \/ Proposes \/ Repeated
    \/ Gate
    \/ \E ok, hook \in BOOLEAN : ToolFinishes(ok, hook)
    \/ Cancelled \/ Failed
    \/ \E hook \in BOOLEAN : GoalEnds(hook)
    \/ TaskReturns
    \/ SessionCloses

Spec == Init /\ [][Next]_vars

----------------------------------------------------------------------------
(* What the readers owe *)

TypeOK ==
    /\ \A i \in DOMAIN log : log[i].sequence = i /\ log[i].task \in {Tasks[j] : j \in DOMAIN Tasks} \cup {None}
    /\ Len(records) <= Len(Tasks) /\ turn \in 0..(MaxTurns + 1) /\ calls \in 0..MaxCalls
    /\ pc \in Awaits \cup {"idle", "updating", "closed"}
    /\ replans \in 0..MaxReplans /\ {known, granted} \subseteq BOOLEAN

\* The session is over, and every reader has what was emitted.
Settled == pc = "closed"

Finished == {records[i].task : i \in {j \in DOMAIN records : records[j].status # "running"}}
TraceOf(t) == FirstOf(sink.exported, LAMBDA trace : trace # <<>> /\ trace[1].task = t)
Specs(t, level) == TaskSpanSpecs(TraceOf(t), level)
RootOf(t, level) == Specs(t, level)[1]
Children(t, name) == SelectSeq(Specs(t, "redacted"), LAMBDA s : s.parent # 0 /\ s.name = name)
Complete(spans) == SelectSeq(spans, LAMBDA s : ~s.incomplete)
Outcome(t) == FirstOf(screen.printed, LAMBDA b : b.kind = "outcome" /\ b.task = t)

\* A task is one trace: exported once, its own events from goal.started to the end of the
\* goal, nothing of what the session does after it (otel_sink.py, _handle).
TracesAreWhole ==
    Settled =>
        /\ Len(sink.exported) = Len(records)
        /\ \A i \in DOMAIN records :
              LET own == OfTask(log, records[i].task)
                  end == SelectInSeq(own, LAMBDA e : e.type \in TerminalEvents)
              IN  /\ end # 0
                  /\ sink.exported[i] = SubSeq(own, 1, end)

\* A tool's span lasts from the start of its call to the end of the same call, with the
\* error of that call and the server that was decided on; what never ended is incomplete
\* (otel_spans.py, the FIFO of open tools).
SpansTellCalls ==
    Settled => \A t \in Finished :
        LET own == TraceOf(t)
            starts == SelectSeq(own, LAMBDA e : e.type = "tool.started")
            spans == Children(t, "execute_tool")
        IN  /\ Len(spans) = Len(starts)
            /\ \A i \in DOMAIN spans :
                  LET end == FirstOf(own, LAMBDA e : e.type = "tool.finished" /\ e.sequence > spans[i].start)
                      mine == end # None /\ (i < Len(starts) => end.sequence < starts[i + 1].sequence)
                  IN  /\ spans[i].start = starts[i].sequence
                      /\ spans[i].incomplete <=> ~mine
                      /\ mine => spans[i].end = end.sequence /\ (spans[i].error # {} <=> ToolFailed(end))

\* What a trace tells of its texts is what the setting lets it: nothing, or the task and
\* the answer on the task's own span (otel_spans.py, capture_content).
ContentIsOptIn ==
    Settled => \A t \in Finished :
        \A level \in {"none", "answers"} :
            LET specs == Specs(t, level)
                told(span) == {a \in DOMAIN span.attributes : span.attributes[a] = Text}
                marked(span) == \E i \in DOMAIN span.events :
                    \E a \in DOMAIN span.events[i].attributes : span.events[i].attributes[a] = Text
            IN  \A i \in DOMAIN specs :
                    /\ Text \notin specs[i].error /\ ~marked(specs[i])
                    /\ told(specs[i]) \subseteq
                          IF level = "answers" /\ i = 1 THEN {"input.value", "output.value"} ELSE {}

\* What the telemetry's reader is told is what happened: whole tasks, call by call, and no
\* more of their texts than the setting lets it.
TracesTellTasks == TracesAreWhole /\ SpansTellCalls /\ ContentIsOptIn

\* Every call is printed once, in order, as a block of its own, with everything its task
\* emitted about it before the next call: its gates, its approval, its start, its result
\* and what was observed (transcript.py: a block that was printed is never touched again).
EveryCallIsPrinted ==
    Settled => \A t \in Finished :
        LET shown == SelectSeq(Feed(OfTask(log, t)), LAMBDA item : item.kind \in CallKinds \cup {"call", "observation"})
            starts == SelectSeq([i \in DOMAIN shown |-> i], LAMBDA i : shown[i].kind = "call")
            blocks == SelectSeq(screen.printed, LAMBDA b :
                          b.kind = "call" /\ b.task = t /\ b.items[1].kind = "call")
            last(k) == IF k = Len(starts) THEN Len(shown) ELSE starts[k + 1] - 1
            own(k) == SubSeq(shown, starts[k], last(k))
            harness(item) == item.kind = "gate" /\ item.type = "hook.decided"
                             /\ item.payload.event \in {"stop", "goal_end"}
        IN  /\ Len(blocks) = Len(starts)
            /\ \A k \in DOMAIN blocks :
                  SelectSeq(blocks[k].items, LAMBDA item : ~harness(item))
                      = SelectSeq(own(k), LAMBDA item : ~harness(item))

\* The figures of a task are the same whoever is asked: the metrics, the replay, the
\* timings, the spans, the outcome on the screen and the record of the session; and those
\* of a run are the sums of the exported rows, or of the lines of the compact trace; and the
\* screen shows each call they count.
ReadersAgree == EveryCallIsPrinted /\ (Settled =>
    /\ LET rows == ExportRows(records, log)
           run == RunMetrics(log, [i \in DOMAIN records |-> records[i].task])
           trace == AgentTrace(log)
           ended == SelectSeq(trace, LAMBDA e : e.type \in TerminalEvents)
       IN  /\ run.tool_calls = Total([i \in DOMAIN rows |-> rows[i].metrics.tool_call_count])
           /\ run.model_calls = Total([i \in DOMAIN rows |-> rows[i].metrics.model_turn_count])
           /\ run.policy_blocks = Total([i \in DOMAIN rows |-> rows[i].metrics.policy_block_count])
           /\ run.tool_errors + Cardinality({i \in DOMAIN rows : rows[i].status = "goal.failed"})
                 = Total([i \in DOMAIN rows |-> rows[i].metrics.error_count])
           /\ [i \in DOMAIN ended |-> ended[i].type] = [i \in DOMAIN records |-> records[i].status]
           /\ Count(trace, "tool.finished") = run.tool_calls
           /\ Len(SelectSeq(trace, PolicyBlock)) = run.policy_blocks
           /\ Len(SelectSeq(trace, ErrorEvent)) = Total([i \in DOMAIN rows |-> rows[i].metrics.error_count])
    /\ \A i \in DOMAIN records :
        LET t == records[i].task
            metrics == EventMetrics(OfTask(log, t))
            summary == TraceSummary(OfTask(log, t))
            timings == TaskTimings(OfTask(log, t))
            tools == Complete(Children(t, "execute_tool"))
            root == RootOf(t, "answers")
        IN  /\ {summary.tool_call_count, Len(timings.tool_latency), Len(tools), Outcome(t).calls}
                  = {metrics.tool_call_count}
            /\ {summary.model_turn_count, timings.model_calls, Len(timings.model_latency),
                Len(Complete(Children(t, "chat")))} = {metrics.model_turn_count}
            /\ summary.policy_block_count = metrics.policy_block_count
            /\ metrics.policy_block_count = Len(SelectSeq(root.events, LAMBDA m :
                  \/ m.name \in {"policy.decided", "permission.decided"}
                     /\ m.attributes.decision \in {"blocked", "deny"}
                  \/ m.name = "hook.decided" /\ m.attributes.event = "pre_tool_use"
                     /\ m.attributes.decision = "deny"))
            /\ {summary.terminal_status, root.attributes["autobrowser.goal.status"],
                records[i].status, Outcome(t).items[1].type} = {metrics.terminal_status}
            /\ Len(ActionSequence(OfTask(log, t))) = Cardinality({k \in DOMAIN screen.printed :
                  screen.printed[k].task = t /\ screen.printed[k].kind = "call"
                  /\ screen.printed[k].items[1].kind = "call"}))
=============================================================================
