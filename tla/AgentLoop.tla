------------------------------ MODULE AgentLoop ------------------------------
(***************************************************************************)
(* The execution loop of the agent (src/src/agent_loop/execution/): one    *)
(* session runs task after task, a task runs                               *)
(*                                                                         *)
(*     goal_start hooks -> plan -> (guards -> model -> tool turn)*         *)
(*                                                                         *)
(* and a tool turn runs                                                    *)
(*                                                                         *)
(*     progress guard -> pre_tool_use hooks -> permissions -> approval     *)
(*         -> tool -> observation.                                         *)
(*                                                                         *)
(* The loop is sequential: every `pc' names a point where the coroutine    *)
(* awaits somebody (the planner, the model, hooks, the classifier, the     *)
(* human, the tool), and an action is what the code does from one such     *)
(* point to the next.  While it waits, the task can be cancelled, time out *)
(* or fail: `Abandon'.                                                     *)
(*                                                                         *)
(* The conversation is kept only as far as its calls and results must pair *)
(* up: whether its last message is a call that awaits its result, and how  *)
(* many calls got another message instead of a result.                     *)
(***************************************************************************)
EXTENDS Permissions, Naturals

CONSTANTS
    Mode, Rules,        \* configuration of the permission engine
    Normal,             \* what the schema normalizer makes of a call
    Rewrites,           \* calls a pre_tool_use hook may turn a call into
    ModelSignal,        \* permissions.approval_judge includes the model
    Classifies,         \* permissions.approval_judge includes the classifier
    Successes, Failures,\* what a tool may return, by ToolResult.status
    TurnCap, MaxReplans, MaxFailures, MaxIneffective, MaxStopBlocks,
    MaxTasks,           \* bound: tasks a session runs in the model
    None                \* no call, no outcome, no check

Outcomes == Successes \cup Failures

ASSUME ConfigAssumption ==
    /\ Mode \in Modes
    /\ Rules \subseteq Rule
    /\ ModelSignal \in BOOLEAN
    /\ Classifies \in BOOLEAN

ASSUME LimitsAssumption ==
    /\ TurnCap \in Nat \ {0}
    /\ MaxReplans \in Nat
    /\ MaxFailures \in Nat \ {0}
    /\ MaxIneffective \in Nat \ {0}
    /\ MaxStopBlocks \in Nat
    /\ MaxTasks \in Nat

\* Normalizing and rewriting change the arguments of a call, never its tool.
ASSUME RequestAssumption ==
    /\ Normal \in [Calls -> Calls]
    /\ Rewrites \in [Calls -> SUBSET Calls]
    /\ \A c \in Calls : ToolOf[Normal[c]] = ToolOf[c]
    /\ \A c \in Calls : \A d \in Rewrites[c] : ToolOf[d] = ToolOf[c]

ASSUME OutcomesAssumption == Successes \cap Failures = {}
ASSUME NoneAssumption == None \notin Calls \cup Outcomes \cup Check

VARIABLES
    pc,         \* what the loop awaits; "idle" between tasks
    tasks,      \* tasks started in this session
    turn,       \* turns begun in this task
    state,      \* LoopState
    request,    \* LoopState.tool_request: the call in turn, with or without an id
    prepared,   \* the normalized call the broker will run
    known,      \* the registry resolved its tool
    check,      \* the PermissionCheck of that call
    consent,    \* history: who let the call through
    result,     \* status and stop reason of the task
    grants,     \* PermissionEngine._grants, kept for the session
    carried,    \* SessionContext.state: conversation and last call
    refusals,   \* history: refused approvals in the carried conversation and this task
    insisted    \* history: requests in a row, in this task, for the call requested last

turnVars == <<request, prepared, known, check, consent>>
sessionVars == <<tasks, grants, carried>>
historyVars == <<refusals, insisted>>
vars == <<pc, tasks, turn, state, request, prepared, known, check, consent,
          result, grants, carried, refusals, insisted>>

----------------------------------------------------------------------------
(* The conversation. *)

Conversation == [open : BOOLEAN, orphans : Nat]

NewConversation == [open |-> FALSE, orphans |-> 0]

\* An assistant, user or system-level message after a call that has no result
\* leaves that call unanswered for good.
Say(conv) ==
    [open |-> FALSE, orphans |-> IF conv.open THEN conv.orphans + 1 ELSE conv.orphans]

\* A call without an id can never be answered; results pair up by id only.
SayCall(conv, req) == [Say(conv) EXCEPT !.open = req.ided]

\* A result for a request without an id is not appended at all.
SayResult(conv, req) == IF req.ided THEN [conv EXCEPT !.open = FALSE] ELSE conv

----------------------------------------------------------------------------
(* LoopState. *)

\* The journal of executed calls: how often a call returned an outcome, and
\* the outcome it returned last.
Journal == [count : [Calls -> [Outcomes -> Nat]], latest : [Calls -> Outcomes \cup {None}]]

EmptyJournal ==
    [count |-> [c \in Calls |-> [o \in Outcomes |-> 0]], latest |-> [c \in Calls |-> None]]

Record(journal, call, outcome) ==
    [count  |-> [journal.count EXCEPT ![call][outcome] = @ + 1],
     latest |-> [journal.latest EXCEPT ![call] = outcome]]

IdenticalOutcomes(journal, call) ==
    IF journal.latest[call] = None THEN 0 ELSE journal.count[call][journal.latest[call]]

LoopState == [planned    : BOOLEAN,
              replans    : Nat,
              failures   : Nat,
              last       : Calls \cup {None},
              repeat     : Nat,
              stopBlocks : Nat,
              journal    : Journal,
              conv       : Conversation]

\* LoopState.from_state_overrides over the task boundary resets.
FreshState(conv, last) ==
    [planned |-> FALSE, replans |-> 0, failures |-> 0, last |-> last, repeat |-> 0,
     stopBlocks |-> 0, journal |-> EmptyJournal, conv |-> conv]

Request == [call : Calls, ided : BOOLEAN]

ClearTurn ==
    /\ request' = None
    /\ prepared' = None
    /\ known' = FALSE
    /\ check' = None
    /\ consent' = "none"

\* blocked_response and done_response end the run with one assistant message.
Finish(s, status, reason) ==
    /\ state' = [s EXCEPT !.conv = Say(s.conv)]
    /\ result' = [status |-> status, reason |-> reason]
    /\ pc' = "finish"
    /\ ClearTurn

\* Mutated: the reason is not appended to the history.
BlockSilently ==
    /\ state' = [state EXCEPT !.failures = @ + 1]
    /\ pc' = "turn"
    /\ ClearTurn
    /\ UNCHANGED <<turn, result, historyVars, sessionVars>>

\* tool_block_updates: the model reads the reason as the result of its call.
Block ==
    /\ state' = [state EXCEPT !.failures = @ + 1, !.conv = SayResult(state.conv, request)]
    /\ pc' = "turn"
    /\ ClearTurn
    /\ UNCHANGED <<turn, result, historyVars, sessionVars>>

----------------------------------------------------------------------------
(* The task and its plan. *)

NoResult == [status |-> "none", reason |-> "none"]

Init ==
    /\ pc = "idle"
    /\ tasks = 0
    /\ turn = 0
    /\ grants = {}
    /\ carried = [conv |-> NewConversation, last |-> None, refusals |-> 0]
    /\ state = FreshState(NewConversation, None)
    /\ request = None /\ prepared = None /\ known = FALSE
    /\ check = None /\ consent = "none"
    /\ result = NoResult
    /\ refusals = 0
    /\ insisted = 0

StartTask ==
    /\ pc = "idle"
    /\ tasks < MaxTasks
    /\ tasks' = tasks + 1
    /\ turn' = 0
    /\ state' = FreshState(carried.conv, carried.last)
    /\ result' = NoResult
    /\ refusals' = carried.refusals
    /\ insisted' = 0
    /\ pc' = "goal_start"
    /\ ClearTurn
    /\ UNCHANGED <<grants, carried>>

\* ensure_message_history adds the user's request once; then the goal_start
\* hooks deny the task or let it begin.
GoalStart(deny) ==
    /\ pc = "goal_start"
    /\ IF deny
       THEN Finish([state EXCEPT !.conv = Say(@)], "blocked", "goal_hook_denied")
       ELSE /\ pc' = "plan"
            /\ state' = [state EXCEPT !.conv = Say(@)]
            /\ UNCHANGED <<turnVars, result>>
    /\ UNCHANGED <<turn, historyVars, sessionVars>>

\* _run_plan: only replacing a plan counts as a replan.
MakePlan ==
    /\ pc = "plan"
    /\ state' = [state EXCEPT !.planned = TRUE,
                              !.replans = IF state.planned THEN @ + 1 ELSE @]
    /\ pc' = "turn"
    /\ UNCHANGED <<turn, turnVars, result, historyVars, sessionVars>>

ReplansSpent == state.replans >= MaxReplans
FailuresSpent == state.failures >= MaxFailures

\* The turn cap and the terminal guard, in their order.
BeginTurn ==
    /\ pc = "turn"
    /\ turn' = turn + 1
    /\ \/ /\ turn >= TurnCap
          /\ Finish(state, "blocked", "turn_cap")
       \/ /\ turn < TurnCap
          /\ ReplansSpent
          /\ Finish(state, "blocked", "max_replans")
       \/ /\ turn < TurnCap
          /\ ~ReplansSpent
          /\ FailuresSpent
          /\ Finish(state, "blocked", "consecutive_failures")
       \/ /\ turn < TurnCap
          /\ ~ReplansSpent
          /\ ~FailuresSpent
          /\ pc' = "model"
          /\ UNCHANGED <<state, turnVars, result>>
    /\ UNCHANGED <<historyVars, sessionVars>>

----------------------------------------------------------------------------
(* The model's turn: _classify_action of its first action. *)

\* An answer, or a stop that claims success: the stop hooks come next.
ModelDone ==
    /\ pc = "model"
    /\ pc' = "stop"
    /\ UNCHANGED <<turn, state, turnVars, result, historyVars, sessionVars>>

\* A stop that does not claim success.
ModelStops(status) ==
    /\ pc = "model"
    /\ Finish(state, status, "model_stop")
    /\ UNCHANGED <<turn, historyVars, sessionVars>>

\* update_plan, ask_user, delegate, compact_memory and unknown kinds.
ModelReplans ==
    /\ pc = "model"
    /\ pc' = "plan"
    /\ UNCHANGED <<turn, state, turnVars, result, historyVars, sessionVars>>

\* Mutated: the fourth request in a row is refused.
InsistsLate(call) == state.last = call /\ state.repeat >= 3

\* The same call was already requested twice in a row.
Insists(call) == state.last = call /\ state.repeat >= 2

\* tool_request_update refuses the third request in a row of one call: the
\* call is answered by the refusal and the loop replans.
ModelRepeats(req) ==
    /\ pc = "model"
    /\ Insists(req.call)
    /\ state' = [state EXCEPT !.repeat = 3,
                              !.conv = SayResult(SayCall(state.conv, req), req)]
    /\ insisted' = insisted + 1
    /\ pc' = "plan"
    /\ UNCHANGED <<turn, turnVars, result, refusals, sessionVars>>

\* The model proposes a call; with the model judge on, it may ask for approval.
ModelCalls(req, ask) ==
    /\ pc = "model"
    /\ ~Insists(req.call)
    /\ ask => ModelSignal
    /\ state' = [state EXCEPT !.last = req.call,
                              !.repeat = IF state.last = req.call THEN @ + 1 ELSE 1,
                              !.conv = SayCall(state.conv, req)]
    /\ request' = req
    /\ check' = [call |-> req.call, domain |-> Unresolved, target |-> Unresolved,
                 broken |-> FALSE, hookAsk |-> FALSE, modelAsk |-> ask,
                 classifierAsk |-> FALSE]
    /\ insisted' = IF state.last = req.call THEN insisted + 1 ELSE 1
    /\ pc' = "guard"
    /\ UNCHANGED <<turn, prepared, known, consent, result, refusals, sessionVars>>

\* Mutated: a denied completion asks the model again within its turn.
StopHooksRetry(deny) ==
    /\ pc = "stop"
    /\ IF deny
       THEN pc' = "model" /\ UNCHANGED <<state, turnVars, result>>
       ELSE Finish(state, "done", "answered")
    /\ UNCHANGED <<turn, historyVars, sessionVars>>

\* _stop_check: a denied completion goes back to the model as feedback, at most
\* MaxStopBlocks times in a task.
StopHooks(deny) ==
    /\ pc = "stop"
    /\ IF deny /\ state.stopBlocks < MaxStopBlocks
       THEN /\ state' = [state EXCEPT !.stopBlocks = @ + 1, !.conv = Say(@)]
            /\ pc' = "turn"
            /\ UNCHANGED <<turnVars, result>>
       ELSE Finish(state, "done", "answered")
    /\ UNCHANGED <<turn, historyVars, sessionVars>>

----------------------------------------------------------------------------
(* The tool turn. *)

\* ineffective_repeat_reason on the request as the model made it.
Pointless == IdenticalOutcomes(state.journal, request.call) >= MaxIneffective

ProgressGuard ==
    /\ pc = "guard"
    /\ Pointless
    /\ Block

\* ToolBroker.prepare; a tool the registry does not know goes straight to its
\* error result, past hooks and permissions.
Prepare(resolved) ==
    /\ pc = "guard"
    /\ ~Pointless
    /\ prepared' = IF resolved THEN Normal[request.call] ELSE request.call
    /\ known' = resolved
    /\ pc' = IF resolved THEN "hooks" ELSE "invoke"
    /\ UNCHANGED <<turn, state, request, check, consent, result, historyVars, sessionVars>>

\* pre_tool_use hooks deny the call, or let it on, perhaps with other
\* arguments, perhaps asking for approval.
PreToolUseDenies ==
    /\ pc = "hooks"
    /\ Block

PreToolUse(updated, ask) ==
    /\ pc = "hooks"
    /\ \/ updated = None /\ UNCHANGED <<prepared, request>>
       \/ /\ updated \in Rewrites[prepared]
          /\ prepared' = Normal[updated]
          /\ request' = [request EXCEPT !.call = updated]
    /\ check' = [check EXCEPT !.hookAsk = ask]
    /\ pc' = "authorize"
    /\ UNCHANGED <<turn, state, known, consent, result, historyVars, sessionVars>>

\* What a verdict on the check c means for the call.
Apply(c) ==
    LET verdict == Evaluate(Mode, Rules, grants, c)
    IN  \/ /\ verdict.decision = "deny"
           /\ Block
        \/ /\ verdict.decision = "allow"
           /\ check' = c
           /\ consent' = "verdict"
           /\ pc' = "invoke"
           /\ UNCHANGED <<turn, state, request, prepared, known, result, historyVars, sessionVars>>
        \/ /\ verdict.decision = "ask"
           /\ check' = c
           /\ pc' = "approval"
           /\ UNCHANGED <<turn, state, request, prepared, known, consent, result,
                          historyVars, sessionVars>>

\* Mutated: the call is checked as the model made it, before the hooks.
CheckOfRaw(domain, target, broken) ==
    [check EXCEPT !.domain = domain, !.target = target, !.broken = broken]

\* The check of the final call; the resolver knows the page or raises.
CheckOf(domain, target, broken) ==
    [check EXCEPT !.call = prepared, !.domain = domain, !.target = target, !.broken = broken]

Authorize(domain, target, broken) ==
    LET c == CheckOf(domain, target, broken)
    IN  /\ pc = "authorize"
        /\ IF Classifies /\ ByDefault(Mode, Rules, grants, c)
           THEN /\ check' = c
                /\ pc' = "classify"
                /\ UNCHANGED <<turn, state, request, prepared, known, consent, result,
                               historyVars, sessionVars>>
           ELSE Apply(c)

\* The approval classifier; a failure or a timeout asks too.
Classify(ask) ==
    /\ pc = "classify"
    /\ Apply([check EXCEPT !.classifierAsk = ask])

Approve(who) ==
    /\ consent' = who
    /\ pc' = "invoke"
    /\ UNCHANGED <<turn, state, request, prepared, known, check, result, historyVars>>

Refuse(reason) ==
    /\ Finish(state, "blocked", reason)
    /\ refusals' = refusals + 1
    /\ UNCHANGED <<turn, insisted, sessionVars>>

\* permission_request hooks stand in for the human.
ApprovalHooks(decision) ==
    /\ pc = "approval"
    /\ \/ decision = "allow" /\ Approve("hook") /\ UNCHANGED sessionVars
       \/ decision = "deny" /\ Refuse("approval_hook_denied")
       \/ /\ decision = "none"
          /\ pc' = "human"
          /\ UNCHANGED <<turn, state, turnVars, result, historyVars, sessionVars>>

\* The human; "session" leaves a grant unless the call is always asked.
Human(answer) ==
    /\ pc = "human"
    /\ \/ answer = "deny" /\ Refuse("approval_denied")
       \/ /\ answer = "once"
          /\ Approve("human")
          /\ UNCHANGED sessionVars
       \/ /\ answer = "session"
          /\ grants' = IF Evaluate(Mode, Rules, grants, check).always
                       THEN grants ELSE grants \cup {GrantKey(check)}
          /\ Approve("human")
          /\ UNCHANGED <<tasks, carried>>

\* The tool returns, post_tool_use hooks run, the observation is compiled.
Observe(outcome) ==
    /\ pc = "invoke"
    /\ known \/ outcome \in Failures
    /\ state' = [state EXCEPT !.failures = IF outcome \in Successes THEN 0 ELSE @ + 1,
                              !.journal = Record(@, request.call, outcome),
                              !.conv = SayResult(@, request)]
    /\ pc' = "turn"
    /\ ClearTurn
    /\ UNCHANGED <<turn, result, historyVars, sessionVars>>

----------------------------------------------------------------------------
(* The end of a task. *)

\* The engine and its LoopState are gone.
Leave ==
    /\ pc' = "idle"
    /\ turn' = 0
    /\ state' = FreshState(NewConversation, None)
    /\ ClearTurn
    /\ refusals' = 0
    /\ insisted' = 0

\* goal_end hooks, then run_task carries the conversation into the session.
EndTask ==
    /\ pc = "finish"
    /\ carried' = [conv |-> state.conv, last |-> state.last, refusals |-> refusals]
    /\ Leave
    /\ UNCHANGED <<tasks, result, grants>>

\* Cancelled, timed out or failed while the loop waits: nothing is carried.
Abandon ==
    /\ pc # "idle"
    /\ result' = [status |-> "abandoned", reason |-> "none"]
    /\ Leave
    /\ UNCHANGED sessionVars

Task ==
    \/ \E deny \in BOOLEAN : GoalStart(deny) \/ StopHooks(deny)
    \/ MakePlan
    \/ BeginTurn
    \/ ModelDone
    \/ \E status \in {"blocked", "cancelled"} : ModelStops(status)
    \/ ModelReplans
    \/ \E req \in Request, ask \in BOOLEAN : ModelCalls(req, ask)
    \/ \E req \in Request : ModelRepeats(req)
    \/ ProgressGuard
    \/ \E resolved \in BOOLEAN : Prepare(resolved)
    \/ PreToolUseDenies
    \/ \E updated \in Calls \cup {None}, ask \in BOOLEAN : PreToolUse(updated, ask)
    \/ \E domain \in Domains \cup {Unresolved}, target \in Targets \cup {Unresolved},
          broken \in BOOLEAN : Authorize(domain, target, broken)
    \/ \E ask \in BOOLEAN : Classify(ask)
    \/ \E decision \in {"allow", "deny", "none"} : ApprovalHooks(decision)
    \/ \E answer \in {"once", "session", "deny"} : Human(answer)
    \/ \E outcome \in Outcomes : Observe(outcome)
    \/ EndTask

\* The bound of the model, not a stop of the program.
SessionOver == pc = "idle" /\ tasks = MaxTasks /\ UNCHANGED vars

Next == StartTask \/ Task \/ Abandon \/ SessionOver

Spec == Init /\ [][Next]_vars

\* Whoever the loop awaits answers or fails: providers, tools and hooks have
\* timeouts of their own, and the goal watchdog ends a task that makes no progress.
FairSpec == Spec /\ WF_vars(Task)
-----------------------------------------------------------------------------
InTurn == {"guard", "hooks", "authorize", "classify", "approval", "human", "invoke"}

Points == {"idle", "goal_start", "plan", "turn", "model", "stop", "finish"} \cup InTurn

TypeOK ==
    /\ pc \in Points
    /\ tasks \in 0..MaxTasks
    /\ turn \in Nat
    /\ state \in LoopState
    /\ request \in Request \cup {None}
    /\ prepared \in Calls \cup {None}
    /\ known \in BOOLEAN
    /\ check \in Check \cup {None}
    /\ consent \in {"none", "verdict", "hook", "human"}
    /\ result \in [status : {"none", "done", "blocked", "cancelled", "abandoned"},
                   reason : {"none", "answered", "model_stop", "turn_cap", "max_replans",
                             "consecutive_failures", "goal_hook_denied",
                             "approval_denied", "approval_hook_denied"}]
    /\ grants \subseteq GrantKeys
    /\ carried \in [conv : Conversation, last : Calls \cup {None}, refusals : Nat]
    /\ refusals \in Nat
    /\ insisted \in Nat

\* A tool of the registry runs only the very call that was authorized: the one
\* the permissions saw is the one the hooks left, no deny rule covers it, and
\* what had to be asked was approved by the human or an approval hook in this turn.
RunsOnlyAuthorized ==
    pc = "invoke" /\ known =>
        /\ check.call = prepared
        /\ Matching(Rules, check, "deny") = {}
        /\ Evaluate(Mode, Rules, grants, check).decision # "deny"
        /\ JudgeAsk(check) \/ (\E rule \in Matching(Rules, check, "ask") : rule.always)
               => consent \in {"human", "hook"}

\* Whenever the model, a hook, the human or a tool is busy in a turn, the task is
\* within every budget of the loop: none is overrun in the middle of a turn.
WithinBudgets ==
    pc \in InTurn \cup {"model", "stop"} =>
        /\ state.planned
        /\ turn \in 1..TurnCap
        /\ state.replans < MaxReplans
        /\ state.failures < MaxFailures
        /\ state.stopBlocks <= MaxStopBlocks

\* A model that insists on one call is stopped without the turn cap: every
\* request after the second costs one of the replans.
InsistenceIsBounded == insisted <= 2 + MaxReplans

\* No budget is overrun: neither a single one nor, by insisting on a call, their sum.
BudgetsHold == WithinBudgets /\ InsistenceIsBounded

\* No call of a task, as it was recorded, returned one outcome more often than
\* the progress guard allows.
IdenticalOutcomesBounded ==
    \A c \in Calls, o \in Outcomes : state.journal.count[c][o] <= MaxIneffective

\* Between the turns no call is left open, and in the carried history only
\* refused approvals leave calls without a result.
CallsAreAnswered ==
    /\ pc \in {"plan", "turn", "model", "stop"} => ~state.conv.open
    /\ ~carried.conv.open
    /\ state.conv.orphans <= refusals
    /\ carried.conv.orphans <= carried.refusals

\* Every task comes to its end.
TaskEnds == pc # "idle" ~> pc = "idle"
=============================================================================
