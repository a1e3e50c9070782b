------------------------------ MODULE ToolTurn ------------------------------
(***************************************************************************)
(* From the model's reply to the tool's arguments: how a reply is parsed   *)
(* into an action (agent_loop/model.py), how the two arguments the harness *)
(* offers beside a tool's own (approval_request, notes) are taken out of   *)
(* the call again (execution/approval.py, notes.py), how the call is       *)
(* normalized to the tool's schema (harness/normalization.py) and decided  *)
(* by the permission engine, the classifier and the human.                 *)
(*                                                                         *)
(* The session is the one of PermissionEngine: a verdict is an EvaluateCall*)
(* and a "for this session" answer a Grant.  Whenever the loop awaits      *)
(* somebody, a server may come back with other schemas for its tools       *)
(* (Rediscover): the model still answers to the tools it was offered when  *)
(* the task began.                                                         *)
(***************************************************************************)
EXTENDS PermissionEngine, Naturals, Sequences

CONSTANTS
    Values,         \* what a call says in the arguments the tool declares
    Schemas,        \* tool -> the schemas its server may declare for it
    Replies,        \* the replies of the model
    Updates,        \* value -> the values a pre_tool_use hook may put instead
    OffersNotes,    \* memory.working_notes_max_chars > 0
    ModelSignal,    \* permissions.approval_judge includes the model
    Classifies      \* ... and the classifier

\* Arguments of a call: those the tool declares (None if there are none), one
\* that no tool declares, and the two the harness offers.
Args == [value    : Values \cup {None},
         stray    : BOOLEAN,
         approval : {"absent", "declined", "stated"},
         notes    : {"absent", "written"}]

NoArgs == [value |-> None, stray |-> FALSE, approval |-> "absent", notes |-> "absent"]

\* A tool's input schema: the harness' names that are properties of its own, and
\* whether it forbids additional properties.  The schema of a tool the registry
\* does not know is None.
Schema == [owns : SUBSET {"approval", "notes"}, closed : BOOLEAN]

Owns(schema, name) == schema # None /\ name \in schema.owns

Catalogs == {cat \in [Tools -> UNION {Schemas[t] : t \in Tools}] :
                \A t \in Tools : cat[t] \in Schemas[t]}

\* A tool call of a reply; its arguments may be no readable JSON object.
NativeCall == [named : BOOLEAN, tool : Tools, readable : BOOLEAN, args : Args]

\* An object in the content of a reply, or one of its list of actions.
ActionRecord == [kind    : {"tool", "answer", "ask_user", "update_plan", "delegate",
                        "compact_memory", "stop", "failed", "other"},
             request : BOOLEAN,     \* it has a tool_request or a name
             final   : BOOLEAN,     \* it has a final_answer
             status  : {"none", "done", "blocked", "cancelled", "failed"},
             call    : NativeCall]

\* A reply: its tool calls, the objects its content holds, whether it has content.
ReplyShape(reply) ==
    /\ reply.calls \in Seq(NativeCall)
    /\ reply.objects \in Seq(ActionRecord)
    /\ reply.text \in BOOLEAN

ASSUME TurnAssumption ==
    /\ \A t \in Tools : Schemas[t] \subseteq Schema \cup {None}
    /\ \A reply \in Replies : ReplyShape(reply)
    /\ Updates \in [Values \cup {None} -> SUBSET Values]
    /\ Calls = [tool : Tools, args : Args]
    /\ \A c \in Calls : ToolOf[c] = c.tool
    /\ OffersNotes \in BOOLEAN /\ ModelSignal \in BOOLEAN /\ Classifies \in BOOLEAN

VARIABLES
    pc,         \* what the turn awaits; "idle" between tasks
    catalog,    \* the registry: the schema of every tool
    offered,    \* the schemas as the model was offered them
    wrote,      \* history: the call as the model wrote it
    request,    \* LoopState.tool_request
    asked,      \* LoopState.approval_request is not empty
    last,       \* LoopState.last_tool, last_args
    repeat,     \* LoopState.repeat_count
    prepared,   \* PreparedToolCall: the call and the schema of the tool it resolved to
    judged,     \* history: what the classifier's answer was
    consent,    \* history: who let the call through
    row         \* history: what the last call asked of its tool, and how often in a row

turnVars == <<wrote, request, asked, prepared, judged, consent>>
trackVars == <<last, repeat, row>>
engineVars == <<mode, rules, grants, check, verdict>>
turnAll == <<pc, catalog, offered, turnVars, trackVars, engineVars>>

----------------------------------------------------------------------------
(* Parsing: ActionParser. *)

CallAction(call) ==
    [kind |-> "call", tool |-> call.tool, args |-> IF call.readable THEN call.args ELSE NoArgs]

Action(kind) == [kind |-> kind]
StopAction(status) == [kind |-> "stop", status |-> status]

\* _stop_from_record: a status the loop does not know is "blocked".
StopStatus(record) ==
    IF record.status = "none" THEN "blocked" ELSE record.status

\* _parse_record.
ParseRecord(record) ==
    CASE record.kind = "tool" \/ (record.kind = "other" /\ record.request) ->
            IF record.call.named THEN CallAction(record.call) ELSE Action("replan")
      [] record.kind \in {"ask_user", "update_plan", "delegate", "compact_memory"} ->
            Action("replan")
      [] record.kind \in {"stop", "failed"} -> StopAction(StopStatus(record))
      [] OTHER -> Action("answer")

\* The tool calls of a reply that have a name.
Named(reply) == {i \in DOMAIN reply.calls : reply.calls[i].named}

\* The first action of a reply: its first tool call with a name, else what its
\* content says.
FirstAction(reply) ==
    LET first == CHOOSE i \in Named(reply) : \A j \in Named(reply) : i <= j
    IN  IF Named(reply) # {} THEN CallAction(reply.calls[first])
        ELSE IF reply.objects # <<>> THEN ParseRecord(Head(reply.objects))
        ELSE IF reply.text THEN Action("answer")
        ELSE StopAction("blocked")

----------------------------------------------------------------------------
(* The arguments the harness offers. *)

\* Mutated: ownership is read from the registry as it is now.
TakesNotesNow(tool) == OffersNotes /\ ~Owns(catalog[tool], "notes")

\* A tool that owns a name keeps it: its argument is never taken out.
TakesNotes(tool) == OffersNotes /\ ~Owns(offered[tool], "notes")
TakesApproval(tool) == ModelSignal /\ ~Owns(offered[tool], "approval")

\* split_notes and split_approval_request.
Split(tool, args) ==
    [args EXCEPT !.notes    = IF TakesNotes(tool) THEN "absent" ELSE @,
                 !.approval = IF TakesApproval(tool) THEN "absent" ELSE @]

\* The model's own request for approval, unless it answered a false word.
Signals(tool, args) == TakesApproval(tool) /\ args.approval = "stated"

\* SchemaArgsNormalizer: a closed schema drops what it does not declare.
Normalize(schema, args) ==
    LET Keep(name) == IF schema.closed /\ name \notin schema.owns THEN "absent" ELSE args[name]
    IN  [args EXCEPT !.stray    = @ /\ ~schema.closed,
                     !.notes    = Keep("notes"),
                     !.approval = Keep("approval")]

\* What a call asks of its tool: the tool and the arguments that are its own.
Substance(tool, args) ==
    [tool |-> tool, value |-> args.value, stray |-> args.stray,
     own  |-> {<<name, args[name]>> : name \in {n \in {"approval", "notes"} : Owns(offered[tool], n)}}]

----------------------------------------------------------------------------
(* The turn. *)

ClearCall ==
    /\ wrote' = None /\ request' = None /\ prepared' = None
    /\ asked' = FALSE
    /\ judged' = "nothing" /\ consent' = "nobody"

NoRow == [of |-> None, times |-> 0]

TurnInit ==
    /\ Init
    /\ pc = "idle"
    /\ catalog \in Catalogs
    /\ offered = catalog
    /\ wrote = None /\ request = None /\ prepared = None
    /\ asked = FALSE
    /\ judged = "nothing" /\ consent = "nobody"
    /\ last = None /\ repeat = 0 /\ row = NoRow

\* A server reconnected or announced a new list of its tools.
Rediscover ==
    /\ catalog' \in Catalogs \ {catalog}
    /\ UNCHANGED <<pc, offered, turnVars, trackVars, engineVars>>

\* TurnController.__init__: what is offered is fixed for the task.
StartTask ==
    /\ pc = "idle"
    /\ offered' = catalog
    /\ repeat' = 0 /\ row' = NoRow
    /\ pc' = "model"
    /\ UNCHANGED <<catalog, turnVars, last, engineVars>>

\* Any end of a task: an answer, a stop, a refused approval, a cancellation.
EndTask ==
    /\ pc # "idle"
    /\ pc' = "idle"
    /\ ClearCall
    /\ Settle
    /\ UNCHANGED <<catalog, offered, trackVars>>

\* The action is no call: the task ends, or the loop replans or lets a stop hook
\* send the answer back, and asks the model again.
Responds(reply) ==
    /\ pc = "model"
    /\ LET action == FirstAction(reply) IN
       /\ action.kind # "call"
       /\ pc' = IF action.kind = "stop" /\ action.status # "done" THEN "idle" ELSE "model"
    /\ ClearCall
    /\ UNCHANGED <<catalog, offered, trackVars, engineVars>>

CallOf(tool, args) == [tool |-> tool, args |-> args]

\* Mutated: the call is tracked as the model wrote it.
TrackedRaw(tool, args) == CallOf(tool, args)

\* _repeat_tracking_key: the call without what the harness took out of it.
Tracked(tool, args) == CallOf(tool, Split(tool, args))

\* The model calls a tool: the third call in a row with one tool and the same
\* arguments is refused, any other is proposed.
Proposes(reply) ==
    /\ pc = "model"
    /\ LET action == FirstAction(reply) IN
       /\ action.kind = "call"
       /\ LET key   == Tracked(action.tool, action.args)
              again == last = key
              asks  == Substance(action.tool, action.args)
          IN  /\ last' = key
              /\ IF again /\ repeat >= 2
                 THEN /\ repeat' = 3
                      /\ ClearCall
                      /\ UNCHANGED <<pc, row>>
                 ELSE /\ repeat' = IF again THEN repeat + 1 ELSE 1
                      /\ row' = [of |-> asks, times |-> IF row.of = asks THEN row.times + 1 ELSE 1]
                      /\ wrote' = CallOf(action.tool, action.args)
                      /\ request' = CallOf(action.tool, Split(action.tool, action.args))
                      /\ asked' = Signals(action.tool, action.args)
                      /\ pc' = "guard"
                      /\ UNCHANGED <<prepared, judged, consent>>
    /\ UNCHANGED <<catalog, offered, engineVars>>

\* The call was made, or the model reads why it was not; then it is asked again.
NextTurn ==
    /\ pc' = "model"
    /\ ClearCall
    /\ Settle
    /\ UNCHANGED <<catalog, offered, trackVars>>

\* The progress guard, or a tool the registry does not know (any more).
NotRun ==
    /\ pc = "guard"
    /\ NextTurn

\* ToolBroker.prepare.
Prepare ==
    /\ pc = "guard"
    /\ catalog[request.tool] # None
    /\ prepared' = [call   |-> CallOf(request.tool, Normalize(catalog[request.tool], request.args)),
                    schema |-> catalog[request.tool]]
    /\ pc' = "hooks"
    /\ UNCHANGED <<catalog, offered, wrote, request, asked, judged, consent, trackVars, engineVars>>

\* pre_tool_use hooks let the call on or replace its arguments; new arguments are
\* prepared again, if the tool is still there.
PreToolUse(update) ==
    /\ pc = "hooks"
    /\ \/ /\ update = None
          /\ UNCHANGED <<request, prepared>>
       \/ /\ update \in Updates[prepared.call.args.value]
          /\ catalog[request.tool] # None
          /\ LET args == [prepared.call.args EXCEPT !.value = update]
             IN  /\ request' = CallOf(request.tool, args)
                 /\ prepared' =
                       [call   |-> CallOf(request.tool, Normalize(catalog[request.tool], args)),
                        schema |-> catalog[request.tool]]
    /\ pc' = "authorize"
    /\ UNCHANGED <<catalog, offered, wrote, asked, judged, consent, trackVars, engineVars>>

\* ... or deny it.
HookDenies ==
    /\ pc = "hooks"
    /\ NextTurn

\* What becomes of a call that got the verdict v.
Follow(v) ==
    /\ pc' = CASE v.decision = "deny"  -> "denied"
               [] v.decision = "allow" -> "invoke"
               [] v.decision = "ask"   -> "approval"
    /\ consent' = IF v.decision = "allow" THEN "verdict" ELSE "nobody"
    /\ UNCHANGED <<catalog, offered, wrote, request, asked, prepared, trackVars>>

\* The check of the final call and its verdict; a call that is let through only
\* by default is shown to the classifier first.
CheckOf(domain, target, broken, ask) ==
    [call |-> prepared.call, domain |-> domain, target |-> target, broken |-> broken,
     hookAsk |-> ask, modelAsk |-> asked, classifierAsk |-> FALSE]

Authorize(domain, target, broken, ask) ==
    /\ pc = "authorize"
    /\ EvaluateCall(CheckOf(domain, target, broken, ask))
    /\ IF Classifies /\ ByDefault(mode, rules, grants, check')
       THEN /\ pc' = "classify"
            /\ UNCHANGED <<catalog, offered, turnVars, trackVars>>
       ELSE Follow(verdict') /\ UNCHANGED judged

\* The classifier's answer: it failed or timed out, or a text that holds a
\* readable object with a verdict, or not.
Judgments == {"fails", "no_object", "unreadable", "no_verdict", "yes", "no"}

\* Mutated: only a clear "yes" asks the human.
NeedsApprovalIfYes(answer) == answer = "yes"

\* ApprovalClassifier.judge: only a clear "no" spares the human.
NeedsApproval(answer) == answer # "no"

Classify(answer) ==
    /\ pc = "classify"
    /\ EvaluateCall([check EXCEPT !.classifierAsk = NeedsApproval(answer)])
    /\ Follow(verdict')
    /\ judged' = answer

\* tool_block_updates: the model reads the verdict's reason.
Denied ==
    /\ pc = "denied"
    /\ NextTurn

\* A permission_request hook or the human lets the call through, once or for the
\* session; a refusal ends the task (EndTask).
ApproveOnce(who) ==
    /\ pc = "approval"
    /\ consent' = who
    /\ pc' = "invoke"
    /\ UNCHANGED <<catalog, offered, wrote, request, asked, prepared, judged, trackVars, engineVars>>

ApproveForSession ==
    /\ pc = "approval"
    /\ Grant
    /\ consent' = "human"
    /\ pc' = "invoke"
    /\ UNCHANGED <<catalog, offered, wrote, request, asked, prepared, judged, trackVars>>

\* The tool returns, or fails; the model is asked again.
Returns ==
    /\ pc = "invoke"
    /\ NextTurn

TurnNext ==
    \/ Rediscover
    \/ StartTask
    \/ EndTask
    \/ \E reply \in Replies : Responds(reply) \/ Proposes(reply)
    \/ NotRun
    \/ Prepare
    \/ \E update \in Values \cup {None} : PreToolUse(update)
    \/ HookDenies \/ Denied
    \/ \E domain \in Domains \cup {Unresolved}, target \in Targets \cup {Unresolved},
          broken, ask \in BOOLEAN : Authorize(domain, target, broken, ask)
    \/ \E answer \in Judgments : Classify(answer)
    \/ \E who \in {"hook", "human"} : ApproveOnce(who)
    \/ ApproveForSession
    \/ Returns

TurnSpec == TurnInit /\ [][TurnNext]_turnAll
-----------------------------------------------------------------------------
\* What was asked for runs only with somebody's consent: a call for which the
\* acting model stated a request for approval (in an argument the harness offered,
\* whatever became of the call's arguments on the way), and a call on which the
\* approval classifier did not answer with a clear "no".
AskedIsConsented ==
    pc = "invoke" =>
        \/ consent \in {"hook", "human"}
        \/ /\ wrote.args.approval = "stated" /\ ModelSignal
                => Owns(offered[wrote.tool], "approval")
           /\ judged \in {"nothing", "no"}

\* A tool is called with the arguments it was offered with: what the harness
\* offered beside them never reaches it, what is its own does, and nothing a
\* closed schema forbids, however the catalog changed since the task began.
ArgumentsAreItsOwn ==
    pc = "invoke" =>
        LET args   == prepared.call.args
            schema == prepared.schema
            May(name) == schema.closed => name \in schema.owns
        IN  /\ args.notes # "absent" /\ OffersNotes => Owns(offered[wrote.tool], "notes")
            /\ args.approval # "absent" /\ ModelSignal => Owns(offered[wrote.tool], "approval")
            /\ args.stray => ~schema.closed
            /\ \A name \in {"approval", "notes"} :
                  /\ args[name] # "absent" => May(name)
                  /\ (Owns(offered[wrote.tool], name) /\ May(name)
                         /\ args.value = wrote.args.value) => args[name] = wrote.args[name]

\* A model that insists on one call cannot dodge the limit by rewording what it
\* writes to the harness: two in a row ask the same of a tool, never three.
RewordingIsNoEscape ==
    ModelSignal /\ OffersNotes => row.times <= 2
=============================================================================
