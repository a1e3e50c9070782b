------------------------------- MODULE Spans -------------------------------
(***************************************************************************)
(* The trace of a task: its events as a tree of spans                      *)
(* (src/src/harness/otel_spans.py), and the sink that collects the events  *)
(* of the running task and exports it (src/src/harness/otel_sink.py).      *)
(*                                                                         *)
(* An event is [type, task, sequence, payload]; a payload is a record of   *)
(* the keys that have a value in it.  A moment is the sequence number of   *)
(* an event, and a span is keyed by the one that opened it.  A span's      *)
(* attributes are a function from their names.  An error description is    *)
(* the set of the texts it is made of.                                     *)
(***************************************************************************)
EXTENDS Naturals, Sequences, SequencesExt

CONSTANT None

\* payload.get
Get(e, key) == IF key \in DOMAIN e.payload THEN e.payload[key] ELSE None

TerminalEvents == {"goal.completed", "goal.failed", "goal.blocked", "goal.cancelled"}

\* What follows goal.started, up to the terminal event.
Body(events) ==
    LET start == SelectInSeq(events, LAMBDA e : e.type = "goal.started")
        rest == SubSeq(events, start + 1, Len(events))
        end == SelectInSeq(rest, LAMBDA e : e.type \in TerminalEvents)
    IN  IF end = 0 THEN rest ELSE SubSeq(rest, 1, end - 1)

ShowsAnswers(level) == level # "none"
Redacted(level) == level = "redacted"

\* An attribute that is there when its value is.
Attribute(name, value) == IF value = None THEN <<>> ELSE name :> value

\* _is_notable, and plan.updated, which always is.
Notable(e) ==
    CASE e.type = "permission.decided" -> Get(e, "decision") # "allow"
      [] e.type = "hook.decided" -> Get(e, "decision") \in {"deny", "ask"}
      [] e.type = "policy.decided" -> Get(e, "decision") = "blocked"
      [] OTHER -> e.type \in {"plan.updated", "approval.requested", "approval.answered", "approval.resolved"}

\* _EVENT_FIELDS
EventFields(type) ==
    CASE type = "permission.decided" -> {"decision", "source", "rule_id", "tool"}
      [] type = "approval.requested" -> {"rule_id"}
      [] type = "approval.answered" -> {"answer", "via"}
      [] type = "approval.resolved" -> {"decision", "by", "scope"}
      [] type = "hook.decided" -> {"hook_id", "event", "decision", "tool"}
      [] type = "policy.decided" -> {"decision", "source", "rule_id"}
      [] type = "plan.updated" -> {"current_step", "replan_count"}

\* _span_event
Mark(e, level) ==
    LET fields == {f \in EventFields(e.type) : Get(e, f) # None}
    IN  [name |-> e.type, at |-> e.sequence,
         attributes |-> [f \in fields |-> Get(e, f)]
            @@ (IF e.type \in {"approval.requested", "policy.decided"}
                THEN Attribute("tool", Get(e, "name")) ELSE <<>>)
            @@ (IF e.type = "plan.updated" THEN "steps" :> Len(Get(e, "steps")) ELSE <<>>)
            @@ (IF Redacted(level) THEN Attribute("reason", Get(e, "reason")) ELSE <<>>)]

Open(e, name, attributes) ==
    [start |-> e.sequence, name |-> name, attributes |-> attributes]

\* _closed: a child of the root.
ClosedSpan(span, root, end, attributes, error, incomplete) ==
    [parent |-> root, name |-> span.name, start |-> span.start,
     end |-> end, attributes |-> attributes @@ span.attributes,
     events |-> <<>>, error |-> error, incomplete |-> incomplete]

\* model.requested; the judge's phase may have a model of its own.
OpenModel(e) ==
    Open(e, "chat", "gen_ai.operation.name" :> "chat" @@ "autobrowser.model.phase" :> Get(e, "phase"))

\* _model_response
ModelError(e, level) ==
    CASE Get(e, "error") = None -> {}
      [] Redacted(level) -> {Get(e, "error")}
      [] OTHER -> {"model_error"}

ErrorStatuses == {"error", "failed", "failure"}
ToolFailed(e) == Get(e, "error") # None \/ Get(e, "status") \in ErrorStatuses

\* _tool_result
ToolError(e, level) ==
    CASE ~ToolFailed(e) -> {}
      [] Redacted(level) -> {Get(e, "error")}
      [] OTHER -> {"tool_error"}

\* tool.started: the server is the one of the permission decision before it.
OpenTool(e, server, level) ==
    Open(e, "execute_tool",
        "gen_ai.tool.name" :> Get(e, "name")
        @@ Attribute("autobrowser.tool.server", server)
        @@ (IF Redacted(level) THEN "gen_ai.tool.call.arguments" :> Get(e, "args") ELSE <<>>))

Phases == {"plan", "agent", "approval"}

NoSpans == [models |-> [p \in Phases |-> <<>>], tools |-> <<>>, server |-> None,
            children |-> <<>>, marks |-> <<>>]

\* Mutated: a result with an error leaves the span of its call open.
FinishToolIfWell(s, e, root, level) ==
    IF s.tools = <<>> \/ ToolFailed(e) THEN s
    ELSE [s EXCEPT !.tools = Tail(@),
                   !.children = Append(@, ClosedSpan(Head(s.tools), root, e.sequence, <<>>, {}, FALSE))]

\* tool.finished ends the oldest call that is open.
FinishTool(s, e, root, level) ==
    IF s.tools = <<>> THEN s
    ELSE [s EXCEPT
            !.tools = Tail(@),
            !.children = Append(@, ClosedSpan(Head(s.tools), root, e.sequence,
                (IF Redacted(level) THEN Attribute("gen_ai.tool.call.result", Get(e, "content")) ELSE <<>>)
                @@ (IF ToolFailed(e) THEN "error.type" :> "tool_error" ELSE <<>>),
                ToolError(e, level), FALSE))]

FinishModel(s, e, root, level) ==
    LET pending == s.models[Get(e, "phase")]
        error == ModelError(e, level)
    IN  IF pending = <<>> THEN s
        ELSE [s EXCEPT
                !.models[Get(e, "phase")] = Tail(@),
                !.children = Append(@, ClosedSpan(Head(pending), root, e.sequence,
                    Attribute("autobrowser.approval.needs_approval", Get(e, "needs_approval"))
                    @@ (IF error = {} THEN <<>> ELSE "error.type" :> "model_error"),
                    error, FALSE))]

\* One event of task_span_specs' loop.
FoldEvent(s, e, root, level) ==
    CASE e.type = "model.requested" -> [s EXCEPT !.models[Get(e, "phase")] = Append(@, OpenModel(e))]
      [] e.type = "model.responded" -> FinishModel(s, e, root, level)
      [] e.type = "tool.started" ->
            [s EXCEPT !.tools = Append(@, OpenTool(e, s.server, level)), !.server = None]
      [] e.type = "tool.finished" -> FinishTool(s, e, root, level)
      [] OTHER ->
            [s EXCEPT
                !.server = IF e.type = "permission.decided" THEN Get(e, "server") ELSE @,
                !.marks = IF Notable(e) THEN Append(@, Mark(e, level)) ELSE @]

RootError(terminal, level) ==
    CASE terminal = None -> {"incomplete"}
      [] terminal.type = "goal.failed" ->
            {Get(terminal, "error_type")} \cup (IF Redacted(level) THEN {Get(terminal, "error")} ELSE {})
      [] terminal.type = "goal.completed" -> {}
      [] OTHER -> {Get(terminal, "stop_reason")}

\* _root
Root(start, terminal, end, marks, level) ==
    [parent |-> 0, name |-> "invoke_agent", start |-> start.sequence, end |-> end,
     attributes |-> "autobrowser.task.id" :> start.task
        @@ (IF ShowsAnswers(level) THEN Attribute("input.value", Get(start, "task")) ELSE <<>>)
        @@ (IF terminal = None THEN "autobrowser.incomplete" :> TRUE
            ELSE "autobrowser.goal.status" :> terminal.type
                @@ Attribute("autobrowser.stop_reason", Get(terminal, "stop_reason"))
                @@ Attribute("autobrowser.turns", Get(terminal, "turns"))
                @@ (IF ShowsAnswers(level) THEN Attribute("output.value", Get(terminal, "final_answer")) ELSE <<>>)),
     events |-> marks, error |-> RootError(terminal, level), incomplete |-> terminal = None]

\* task_span_specs: the root, then the children in the order they began.
TaskSpanSpecs(events, level) ==
    LET at == SelectInSeq(events, LAMBDA e : e.type = "goal.started")
    IN  IF at = 0 THEN <<>>
        ELSE LET start == events[at]
                 body == Body(events)
                 next == at + Len(body) + 1
                 terminal == IF next <= Len(events) THEN events[next] ELSE None
                 end == events[at + Len(body) + (IF terminal = None THEN 0 ELSE 1)].sequence
                 s == FoldLeft(LAMBDA acc, e : FoldEvent(acc, e, start.sequence, level), NoSpans, body)
                 open == s.models["plan"] \o s.models["agent"] \o s.models["approval"] \o s.tools
                 left == [i \in DOMAIN open |-> ClosedSpan(open[i], start.sequence, end,
                                                   "autobrowser.incomplete" :> TRUE, {}, TRUE)]
             IN  <<Root(start, terminal, end, s.marks, level)>>
                 \o SortSeq(s.children \o left, LAMBDA a, b : a.start < b.start)

----------------------------------------------------------------------------
(* The sink *)

\* task: the events of the task under way, <<>> for None; exported: the traces.
NewSink == [task |-> <<>>, closed |-> FALSE, exported |-> <<>>]

\* _export_task
ExportTask(sink) == [sink EXCEPT !.task = <<>>, !.exported = Append(@, sink.task)]

ExportLeft(sink) == IF sink.task = <<>> THEN sink ELSE ExportTask(sink)

EndsTask(e) == e.type \in TerminalEvents

\* OtlpEventSink.emit and _handle; the flush is the collector's affair.
Handle(sink, e) ==
    CASE sink.closed -> sink
      [] e.type = "session.closed" -> [ExportLeft(sink) EXCEPT !.closed = TRUE]
      [] e.type = "goal.started" -> [ExportLeft(sink) EXCEPT !.task = <<e>>]
      [] sink.task # <<>> /\ e.task \in {None, Head(sink.task).task} ->
            LET held == [sink EXCEPT !.task = Append(@, e)]
            IN  IF EndsTask(e) THEN ExportTask(held) ELSE held
      [] OTHER -> sink
=============================================================================
