------------------------------ MODULE History ------------------------------
(***************************************************************************)
(* The conversation a session carries from task to task: MemoryManager's   *)
(* shaping (seeding, compaction of superseded outputs, the character       *)
(* budget, digests of finished tasks), what the turns append to it, and    *)
(* the request that openai_compat makes of it.  The loop's own decisions   *)
(* (guards, permissions, budgets) are inputs here.                         *)
(***************************************************************************)
EXTENDS Hooks, SequencesExt, FiniteSetsExt

CONSTANTS
    Tools,
    Ids,            \* call ids of the provider (servers may give one again)
    NoId,           \* no id: a call the model wrote as JSON text
    Sizes,          \* lengths of tool outputs
    Placeholder,    \* length of a placeholder
    Kinds,          \* sensitive kinds, all of them in every output
    MinChars,       \* memory.compact_tool_output_min_chars
    Budget,         \* memory.history_budget_chars
    KeepResults,    \* memory.keep_recent_tool_results
    KeepTasks,      \* memory.keep_recent_tasks
    MaxGoals, MaxCalls, MaxRejections, MaxResumes   \* bounds of the model

ASSUME HistoryConstants ==
    /\ NoId \notin Ids
    /\ Placeholder \in Nat /\ Sizes \subseteq Nat
    /\ {MinChars, Budget, KeepResults, KeepTasks} \subseteq Nat
    /\ {MaxGoals, MaxCalls, MaxRejections, MaxResumes} \subseteq Nat

VARIABLES
    hist,       \* LoopState.messages
    carried,    \* SessionContext.state["messages"]
    prompt,     \* the session's system prompt, by its number of resumptions
    task,       \* the number of the current task
    point,      \* "idle", "start", "turn", "tool"
    request,    \* the call being handled
    calls,      \* calls so far (a bound)
    rejections, \* rejected answers so far (a bound)
    ended       \* tasks that ended with a result (history variable)

historyVars == <<hist, carried, prompt, task, point, request, calls, rejections, ended>>

-----------------------------------------------------------------------------
(* Messages. *)

System(p) == [role |-> "system", kind |-> "prompt", prompt |-> p]
TaskRequest(t) == [role |-> "user", kind |-> "request", task |-> t]
TaskDigest(t) == [role |-> "user", kind |-> "digest", task |-> t]
Note == [role |-> "user", kind |-> "note"]
Final == [role |-> "assistant", kind |-> "answer"]
Call(r) == [role |-> "assistant", kind |-> "call", id |-> r.id, tool |-> r.tool]
Result(r, size, output, maskedBy) ==
    [role |-> "tool", kind |-> "full", id |-> r.id, tool |-> r.tool, size |-> size,
     output |-> output, maskedBy |-> maskedBy]
Shrunk(m, how) == [m EXCEPT !.kind = how, !.size = Placeholder, !.output = {}]

IsCall(m) == m.kind = "call"
IsTool(m) == m.role = "tool"

\* append_tool_result: nothing is appended for a call that has no id.
AppendResult(h, r, size, output, maskedBy) ==
    IF r.id = NoId THEN h ELSE Append(h, Result(r, size, output, maskedBy))

Notes(n) == IF n = 0 THEN <<>> ELSE <<Note>>

-----------------------------------------------------------------------------
(* MemoryManager. *)

Chars(m) == IF IsTool(m) THEN m.size ELSE 1
Total(h) == FoldLeft(LAMBDA n, m : n + Chars(m), 0, h)

\* Mutant: any newer result supersedes an output.
CompactAnyTool(h) ==
    [i \in 1 .. Len(h) |->
        IF /\ IsTool(h[i]) /\ h[i].size > MinChars /\ h[i].kind # "compacted"
           /\ \E j \in i + 1 .. Len(h) : IsTool(h[j])
        THEN Shrunk(h[i], "compacted") ELSE h[i]]

\* Large outputs of a tool of which a newer result follows.
CompactSnapshotHistory(h) ==
    [i \in 1 .. Len(h) |->
        IF /\ IsTool(h[i]) /\ h[i].size > MinChars /\ h[i].kind # "compacted"
           /\ \E j \in i + 1 .. Len(h) : IsTool(h[j]) /\ h[j].tool = h[i].tool
        THEN Shrunk(h[i], "compacted") ELSE h[i]]

\* The outputs the budget may clear: not the newest, not what is shrunk already.
ToolsAfter(h, i) == Cardinality({j \in i + 1 .. Len(h) : IsTool(h[j])})
Clearable(h) ==
    {i \in 1 .. Len(h) : /\ IsTool(h[i]) /\ h[i].kind = "full"
                         /\ h[i].size > Placeholder
                         /\ ToolsAfter(h, i) >= KeepResults}

\* What is saved by clearing those before i.
SavedBefore(h, clearable, i) ==
    MapThenSumSet(LAMBDA j : h[j].size - Placeholder, {j \in clearable : j < i})

\* Oldest first, until the history fits; a budget of 0 is no budget.
ApplyHistoryBudget(h) ==
    LET total == Total(h)
        clearable == Clearable(h)
    IN  IF Budget = 0 \/ total <= Budget THEN h
        ELSE [i \in 1 .. Len(h) |->
                IF i \in clearable /\ total - SavedBefore(h, clearable, i) > Budget
                THEN Shrunk(h[i], "cleared") ELSE h[i]]

\* ensure_history: the prompt and the user's request are there, once.
EnsureHistory(h, p) ==
    LET seeded == IF \E i \in 1 .. Len(h) : h[i].role = "system"
                  THEN [h EXCEPT ![1] = System(p)]
                  ELSE <<System(p)>> \o h
        asking == IF \E i \in 1 .. Len(seeded) : seeded[i] = TaskRequest(task)
                  THEN seeded ELSE Append(seeded, TaskRequest(task))
    IN  ApplyHistoryBudget(CompactSnapshotHistory(asking))

Starts(h) == {i \in 1 .. Len(h) : h[i].kind = "request"}

\* The segments that are folded: all but the newest KeepTasks.
Folded(h) ==
    IF KeepTasks = 0 THEN {}
    ELSE {i \in Starts(h) : Cardinality({j \in Starts(h) : j > i}) >= KeepTasks}

\* A message belongs to the segment of the last start before it, if there is one.
InFolded(h, folded, i) ==
    /\ \E j \in Starts(h) : j <= i
    /\ \A j \in Starts(h) : j <= i => j \in folded

\* digest_tasks: a folded segment becomes one message; what is before the first segment
\* (the prompt, earlier digests) stays.
DigestTasks(h) ==
    LET folded == Folded(h)
        upto[i \in 0 .. Len(h)] ==
            IF i = 0 THEN <<>>
            ELSE IF i \in folded THEN Append(upto[i - 1], TaskDigest(h[i].task))
            ELSE IF InFolded(h, folded, i) THEN upto[i - 1]
            ELSE Append(upto[i - 1], h[i])
    IN  upto[Len(h)]

-----------------------------------------------------------------------------
(* The request of openai_compat. *)

\* Mutant: the answer of a call is looked for in all of the history.
AnsweredAnywhere(h, i) == {h[j].id : j \in {k \in i + 1 .. Len(h) : IsTool(h[k])}}

\* _answered_ids: the ids of the run of tool messages that follows a call.
AnsweredIds(h, i) ==
    {h[j].id : j \in {k \in i + 1 .. Len(h) : \A l \in i + 1 .. k : IsTool(h[l])}}

\* messages_to_wire: calls without an answer and results without a call are
\* left out.
MessagesToWire(h) ==
    LET upto[i \in 0 .. Len(h)] ==
        IF i = 0 THEN [wire |-> <<>>, pending |-> {}]
        ELSE LET s == upto[i - 1]
                 m == h[i]
             IN  IF IsCall(m)
                 THEN IF m.id # NoId /\ m.id \in AnsweredIds(h, i)
                      THEN [wire |-> Append(s.wire, m), pending |-> {m.id}]
                      ELSE [wire |-> s.wire, pending |-> {}]
                 ELSE IF IsTool(m)
                 THEN IF m.id \in s.pending
                      THEN [wire |-> Append(s.wire, m), pending |-> s.pending \ {m.id}]
                      ELSE s
                 ELSE [wire |-> Append(s.wire, m), pending |-> {}]
    IN  upto[Len(h)].wire

-----------------------------------------------------------------------------
(* The session and its turns. *)

HistoryInit ==
    /\ hist = <<>> /\ carried = <<>>
    /\ prompt = 0 /\ task = 0 /\ point = "idle"
    /\ request = [id |-> NoId, tool |-> NoId]
    /\ calls = 0 /\ rejections = 0 /\ ended = {}

NoRequest == [id |-> NoId, tool |-> NoId]

\* The task ends with a result: its history is what the session carries on.
EndWith(h) ==
    /\ hist' = h /\ carried' = h
    /\ point' = "idle" /\ request' = NoRequest
    /\ ended' = ended \union {task}

\* The session is resumed, with another system prompt.
Resume ==
    /\ point = "idle" /\ prompt < MaxResumes
    /\ prompt' = prompt + 1
    /\ UNCHANGED <<hist, carried, task, point, request, calls, rejections, ended>>

\* _task_state_overrides: the history carried on, with old tasks digested.
StartTask ==
    /\ point = "idle" /\ task < MaxGoals
    /\ task' = task + 1
    /\ hist' = DigestTasks(carried)
    /\ point' = "start"
    /\ UNCHANGED <<carried, prompt, request, calls, rejections, ended>>

\* The goal_start hooks: a refusal ends the task, context follows the request;
\* without either the history is left for the first turn to seed.
GoalStart ==
    /\ point = "start"
    /\ \E o \in Outcomes("goal_start", NoId, {}) :
         \/ /\ o.decision = "deny"
            /\ EndWith(Append(EnsureHistory(hist, prompt), Final))
         \/ /\ o.decision # "deny"
            /\ hist' = IF o.notes = 0 THEN hist
                       ELSE Append(EnsureHistory(hist, prompt), Note)
            /\ point' = "turn"
            /\ UNCHANGED <<carried, request, ended>>
    /\ UNCHANGED <<prompt, task, calls, rejections>>

Asked == EnsureHistory(hist, prompt)

\* The model answers; a stop hook may reject the answer, with its feedback.
ModelAnswers ==
    /\ point = "turn"
    /\ \E o \in Outcomes("stop", NoId, {}) :
         \/ /\ o.decision # "deny" \/ rejections = MaxRejections
            /\ EndWith(Append(Asked, Final))
            /\ UNCHANGED rejections
         \/ /\ o.decision = "deny" /\ rejections < MaxRejections
            /\ hist' = Asked \o <<Final, Note>>
            /\ rejections' = rejections + 1
            /\ UNCHANGED <<carried, point, request, ended>>
    /\ UNCHANGED <<prompt, task, calls>>

\* A replan leaves the history as it is; a guard of the loop ends the task.
GivesUp ==
    /\ point = "turn"
    /\ EndWith(Append(Asked, Final))
    /\ UNCHANGED <<prompt, task, calls, rejections>>

\* The ids an action may carry: the adapter gives every call of a reply one
\* (the server's, or a fresh one), a call that is written as JSON text in the
\* reply's content keeps the id written there, if any.
FromReply == Ids
FromText == Ids \union {NoId}

\* The first action of a reply is a call, which the repeat guard answers at
\* once or the tool turn takes up.
ModelCalls ==
    /\ point = "turn" /\ calls < MaxCalls
    /\ calls' = calls + 1
    /\ \E id \in FromReply \union FromText, tool \in Tools :
         LET r == [id |-> id, tool |-> tool] IN
         \/ /\ hist' = AppendResult(Append(Asked, Call(r)), r, Placeholder, {}, {})
            /\ UNCHANGED <<point, request>>
         \/ /\ hist' = Append(Asked, Call(r))
            /\ point' = "tool" /\ request' = r
    /\ UNCHANGED <<carried, prompt, task, rejections, ended>>

ToTurn == point' = "turn" /\ request' = NoRequest

\* The progress guard or a permission rule: the model reads the reason as the
\* call's output.
Blocked ==
    /\ point = "tool"
    /\ hist' = AppendResult(hist, request, Placeholder, {}, {})
    /\ ToTurn
    /\ UNCHANGED <<carried, prompt, task, calls, rejections, ended>>

\* A refused approval ends the task right after the call.
Refused ==
    /\ point = "tool"
    /\ EndWith(Append(EnsureHistory(hist, prompt), Final))
    /\ UNCHANGED <<prompt, task, calls, rejections>>

\* The hooks before the call may refuse it; else it runs, the hooks after it
\* may rewrite its output, and what they all have to say follows it.
ToolTurn ==
    /\ point = "tool"
    /\ \E pre \in Outcomes("pre_tool_use", request.tool, {}) :
         IF pre.decision = "deny"
         THEN hist' = AppendResult(hist, request, Placeholder, {}, {}) \o Notes(pre.notes)
         ELSE \E size \in Sizes, post \in Outcomes("post_tool_use", request.tool, Kinds) :
                hist' = AppendResult(hist, request, size, post.output, post.maskedBy)
                          \o Notes(pre.notes + post.notes)
    /\ ToTurn
    /\ UNCHANGED <<carried, prompt, task, calls, rejections, ended>>

\* A timeout, a cancellation or a failed model call: the task's history is lost.
Abandon ==
    /\ point # "idle"
    /\ hist' = carried /\ point' = "idle" /\ request' = NoRequest
    /\ UNCHANGED <<carried, prompt, task, calls, rejections, ended>>

HistoryNext ==
    \/ Resume \/ StartTask \/ GoalStart \/ ModelAnswers \/ GivesUp \/ ModelCalls
    \/ Blocked \/ Refused \/ ToolTurn \/ Abandon

HistorySpec == HistoryInit /\ [][HistoryNext]_historyVars

-----------------------------------------------------------------------------
(* Properties. *)

HistoryTyped ==
    /\ point \in {"idle", "start", "turn", "tool"}
    /\ task \in 0 .. MaxGoals /\ calls \in 0 .. MaxCalls
    /\ rejections \in 0 .. MaxRejections /\ prompt \in 0 .. MaxResumes
    /\ request.id \in Ids \union {NoId} /\ request.tool \in Tools \union {NoId}
    /\ ended \subseteq 1 .. task
    /\ \A h \in {hist, carried} : \A i \in 1 .. Len(h) :
         h[i].role \in {"system", "user", "assistant", "tool"}

\* What the model is asked keeps the strict pairing of Chat Completions: every
\* call is followed at once by its own result and every result by no other;
\* and no result that the history holds is left out.  Refused calls, calls
\* without an id and ids a server gives twice must not break it
\* (messages_to_wire).
SentIsPaired ==
    LET asked == Asked
        w == MessagesToWire(asked)
    IN
    /\ \A i \in 1 .. Len(w) :
         IsCall(w[i]) => i < Len(w) /\ IsTool(w[i + 1]) /\ w[i + 1].id = w[i].id
    /\ \A i \in 1 .. Len(w) : IsTool(w[i]) => i > 1 /\ IsCall(w[i - 1])
    /\ Cardinality({i \in 1 .. Len(w) : IsTool(w[i])})
         = Cardinality({i \in 1 .. Len(asked) : IsTool(asked[i])})

\* Whatever is digested, abandoned or resumed, the session's history tells of
\* every task that ended with a result exactly once, in their order, after one
\* system message.
Told(h) == {i \in 1 .. Len(h) : h[i].kind \in {"request", "digest"}}
EveryTaskOnce ==
    /\ {carried[i].task : i \in Told(carried)} = ended
    /\ \A i, j \in Told(carried) : i < j => carried[i].task < carried[j].task
    /\ ended # {} => {i \in 1 .. Len(carried) : carried[i].role = "system"} = {1}

\* Neither the budget nor compaction nor a digest takes what the model works
\* with: an output is compacted only while a newer one of its tool is there,
\* and cleared only while KeepResults newer outputs are (compact_snapshot_history
\* and apply_history_budget, turn after turn and across tasks); and every task is
\* still told of.
NewestStay ==
    /\ EveryTaskOnce
    /\ \A i \in 1 .. Len(hist) : IsTool(hist[i]) =>
         /\ hist[i].kind = "compacted" =>
             \E j \in i + 1 .. Len(hist) : IsTool(hist[j]) /\ hist[j].tool = hist[i].tool
         /\ hist[i].kind = "cleared" => ToolsAfter(hist, i) >= KeepResults

\* What a hook took out of an output is not in the history, whichever hooks
\* rewrote it before or after: rewriting chains (HookEngine.run).
MaskedStays ==
    \A i \in 1 .. Len(hist) : IsTool(hist[i]) =>
        \A id \in hist[i].maskedBy : hist[i].output \intersect KindsOf(id) = {}
=============================================================================
