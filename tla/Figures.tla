------------------------------ MODULE Figures ------------------------------
(***************************************************************************)
(* The figures that are read off a trace: the metrics of a task            *)
(* (agent_loop/metrics.py), the summary and the actions of a replay        *)
(* (replay.py), the timings of a benchmark (benchmarks.py) and the rows of *)
(* an export (export.py), and the compact trace beside it (events.py).     *)
(* Pure; an event is as in Spans.                                          *)
(***************************************************************************)
EXTENDS Spans, FiniteSetsExt

Count(events, type) == Len(SelectSeq(events, LAMBDA e : e.type = type))
Has(events, type) == Count(events, type) > 0
Total(seq) == FoldLeft(+, 0, seq)

\* The first event a test holds of, None when there is none.
FirstOf(events, Test(_)) ==
    LET i == SelectInSeq(events, Test) IN IF i = 0 THEN None ELSE events[i]

\* _terminal_event: the last one.
Terminal(events) ==
    LET i == SelectLastInSeq(events, LAMBDA e : e.type \in TerminalEvents)
    IN  IF i = 0 THEN None ELSE events[i]

TerminalStatus(terminal) == IF terminal = None THEN "missing" ELSE terminal.type

\* Mutated: any hook's deny counts as a blocked call.
PolicyBlockOfAnyHook(e) ==
    \/ e.type = "policy.decided" /\ Get(e, "decision") = "blocked"
    \/ e.type \in {"permission.decided", "hook.decided"} /\ Get(e, "decision") = "deny"

\* The metrics' test of a blocked call, with _is_hook_block.
PolicyBlock(e) ==
    \/ e.type = "policy.decided" /\ Get(e, "decision") = "blocked"
    \/ e.type = "hook.decided" /\ Get(e, "event") = "pre_tool_use" /\ Get(e, "decision") = "deny"
    \/ e.type = "permission.decided" /\ Get(e, "decision") = "deny"

\* The replay's.
PolicyBlockReplayed(e) ==
    CASE e.type = "policy.decided" -> Get(e, "decision") = "blocked"
      [] e.type = "permission.decided" -> Get(e, "decision") = "deny"
      [] e.type = "hook.decided" -> Get(e, "event") = "pre_tool_use" /\ Get(e, "decision") = "deny"
      [] OTHER -> FALSE

ToolErrorEvent(e) == e.type = "tool.finished" /\ ToolFailed(e)
ErrorEvent(e) == e.type = "goal.failed" \/ ToolErrorEvent(e)

\* extract_event_metrics
EventMetrics(events) ==
    LET terminal == Terminal(events)
        times == {events[i].sequence : i \in DOMAIN events}
    IN  [duration |-> IF times = {} THEN None ELSE Max(times) - Min(times),
         terminal_status |-> TerminalStatus(terminal),
         model_turn_count |-> Count(events, "model.responded"),
         tool_call_count |-> Count(events, "tool.finished"),
         policy_block_count |-> Len(SelectSeq(events, PolicyBlock)),
         approval_request_count |-> Count(events, "approval.requested"),
         observation_count |-> Count(events, "observation.compiled"),
         error_count |-> Len(SelectSeq(events, ErrorEvent)),
         final_answer |-> IF terminal = None THEN None ELSE Get(terminal, "final_answer")]

\* iter_action_sequence: the i-th call with the i-th status.
ActionSequence(events) ==
    LET calls == SelectSeq(events, LAMBDA e : e.type = "action.proposed")
        results == SelectSeq(events, LAMBDA e : e.type = "tool.finished")
    IN  [i \in DOMAIN calls |->
            [name |-> Get(calls[i], "name"),
             status |-> IF i \in DOMAIN results THEN Get(results[i], "status") ELSE None]]

\* summarize_trace
TraceSummary(events) ==
    LET terminal == Terminal(events)
    IN  [terminal_status |-> TerminalStatus(terminal),
         final_answer |-> IF terminal = None THEN None
                          ELSE IF Get(terminal, "final_answer") # None THEN Get(terminal, "final_answer")
                          ELSE IF Get(terminal, "error") # None THEN Get(terminal, "error")
                          ELSE Get(terminal, "reason"),
         model_turn_count |-> Count(events, "model.responded"),
         tool_call_count |-> Count(events, "tool.finished"),
         policy_block_count |-> Len(SelectSeq(events, PolicyBlockReplayed)),
         trace_complete |-> Has(events, "goal.started") /\ terminal # None]

\* _span
Lapse(from, to) == IF None \in {from, to} THEN None ELSE to.sequence - from.sequence

NoTimings == [model |-> [p \in Phases |-> None], tools |-> <<>>,
              modelLatency |-> <<>>, toolLatency |-> <<>>]

\* One event of extract_task_timings' loop: one pending model call a phase, the tools in a row.
Timed(acc, e) ==
    CASE e.type = "model.requested" -> [acc EXCEPT !.model[Get(e, "phase")] = e.sequence]
      [] e.type = "model.responded" /\ acc.model[Get(e, "phase")] # None ->
            [acc EXCEPT !.modelLatency = Append(@, e.sequence - acc.model[Get(e, "phase")]),
                        !.model[Get(e, "phase")] = None]
      [] e.type = "tool.started" -> [acc EXCEPT !.tools = Append(@, e.sequence)]
      [] e.type = "tool.finished" /\ acc.tools # <<>> ->
            [acc EXCEPT !.toolLatency = Append(@, e.sequence - Head(acc.tools)), !.tools = Tail(@)]
      [] OTHER -> acc

\* extract_task_timings
TaskTimings(events) ==
    LET started == FirstOf(events, LAMBDA e : e.type = "goal.started")
        timed == FoldLeft(Timed, NoTimings, events)
    IN  [task_latency |-> Lapse(started, FirstOf(events, LAMBDA e : e.type \in TerminalEvents)),
         time_to_plan |-> Lapse(started, FirstOf(events, LAMBDA e :
                                e.type = "model.responded" /\ Get(e, "phase") = "plan")),
         time_to_first_tool |-> Lapse(started, FirstOf(events, LAMBDA e : e.type = "tool.started")),
         model_latency |-> timed.modelLatency,
         tool_latency |-> timed.toolLatency,
         model_calls |-> Count(events, "model.responded")]

\* _group_events_by_task_id, split_by_task: the events of a task.
OfTask(events, t) == SelectSeq(events, LAMBDA e : e.task = t)

\* summarize_run, of the tasks in the order they started.
RunMetrics(log, tasks) ==
    LET timings == [i \in DOMAIN tasks |-> TaskTimings(OfTask(log, tasks[i]))]
        counts == [i \in DOMAIN tasks |-> EventMetrics(OfTask(log, tasks[i]))]
    IN  [model_calls |-> Total([i \in DOMAIN tasks |-> timings[i].model_calls]),
         model_time |-> Total([i \in DOMAIN tasks |-> Total(timings[i].model_latency)]),
         tool_calls |-> Total([i \in DOMAIN tasks |-> Len(timings[i].tool_latency)]),
         tool_time |-> Total([i \in DOMAIN tasks |-> Total(timings[i].tool_latency)]),
         tool_errors |-> Len(SelectSeq(log, ToolErrorEvent)),
         policy_blocks |-> Total([i \in DOMAIN tasks |-> counts[i].policy_block_count])]

\* _export_row of a task record [task, status] and the events of its task.
ExportRow(record, log) ==
    [task |-> record.task, status |-> record.status, metrics |-> EventMetrics(OfTask(log, record.task))]

\* collect_session_export_rows_from_dir
ExportRows(records, log) == [i \in DOMAIN records |-> ExportRow(records[i], log)]

----------------------------------------------------------------------------
(* agent_trace.jsonl: the events an operator reads, each a line of a few fields *)

AgentTraceTypes == TerminalEvents \cup
    {"goal.started", "plan.updated", "model.responded", "action.proposed", "policy.decided",
     "permission.decided", "approval.requested", "approval.resolved", "tool.started",
     "tool.finished", "observation.compiled", "hook.decided"}

\* The fields of the payload that have a value.
Kept(e, fields) == [f \in {g \in fields : Get(e, g) # None} |-> Get(e, f)]

\* _project_tool_request_event
ToolRequestFields(e) == Attribute("tool", Get(e, "name")) @@ Attribute("arguments", Get(e, "args"))

\* _project_tool_result_event reads tool_result, which only the end of a call carries.
ToolResultFields(e) ==
    IF e.type = "tool.started" THEN <<>>
    ELSE Attribute("tool", Get(e, "name")) @@ Kept(e, {"status", "error"})

\* _compact_goal_answer: an answer that is there.
GoalFields(e) == Kept(e, {"task", "status", "final_answer", "turns", "reason", "error"})

\* _project_agent_trace_record: the fields of an event beside its type.
AgentTraceFields(e) ==
    CASE e.type = "goal.started" -> Kept(e, {"task"})
      [] e.type = "model.responded" -> Kept(e, {"node"})
      [] e.type = "plan.updated" -> Kept(e, {"steps", "replan_count"})
      [] e.type = "action.proposed" -> ToolRequestFields(e)
      [] e.type \in {"policy.decided", "approval.requested"} ->
            Kept(e, {"decision", "reason", "rule_id"}) @@ ToolRequestFields(e)
      [] e.type \in {"permission.decided", "approval.resolved"} ->
            Kept(e, {"tool", "server", "decision", "source", "rule_id", "mode", "reason", "by", "scope"})
      [] e.type \in {"tool.started", "tool.finished"} -> ToolResultFields(e)
      [] e.type = "observation.compiled" -> Attribute("summary", Get(e, "observation"))
      [] e.type = "hook.decided" ->
            Kept(e, {"hook_id", "event", "decision", "reason", "tool", "error", "skipped"})
      [] e.type \in TerminalEvents -> GoalFields(e)

\* AgentTraceSink.emit of every event of a log.
AgentTrace(log) ==
    LET traced == SelectSeq(log, LAMBDA e : e.type \in AgentTraceTypes)
    IN  [i \in DOMAIN traced |->
            [type |-> traced[i].type, payload |-> AgentTraceFields(traced[i])]]
=============================================================================
