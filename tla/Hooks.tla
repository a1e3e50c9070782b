------------------------------- MODULE Hooks -------------------------------
(***************************************************************************)
(* HookEngine.run: the hooks registered for an event are asked one after   *)
(* the other and their answers folded into one outcome.  A tool's output   *)
(* is the set of sensitive kinds it still holds; a hook that rewrites an   *)
(* output takes its own kinds out of what it was given.                    *)
(***************************************************************************)
EXTENDS Integers, Sequences, FiniteSets

CONSTANTS
    Registry,     \* event -> the sequence of its hooks
    AnswersOf     \* a hook's id -> the answers its handler may give

\* HookEngine.__init__ refuses two hooks of one id.
ASSUME HooksAssumption ==
    LET chain == Registry["post_tool_use"]
    IN  /\ Len(chain) \in Nat /\ DOMAIN chain = 1 .. Len(chain)
        /\ \A i, j \in DOMAIN chain : chain[i].id = chain[j].id => i = j

(***************************************************************************)
(* What a handler may answer: a decision, a rewritten output, context for  *)
(* the model, or a failure (an exception, a timeout, an invalid result).   *)
(***************************************************************************)
Answers == {"nothing", "ask", "deny", "mask", "note", "fails"}

\* A command answers with its exit code and what it prints: 2 blocks, on a
\* post-tool event it only has something to say; any other non-zero code, and
\* output that is no valid result, is a failure.
ParseCommandOutput(event, code, stdout) ==
    CASE code = 2 -> IF event = "post_tool_use" THEN "note" ELSE "deny"
      [] code \notin {0, 2} -> "fails"
      [] code = 0 /\ stdout \in Answers -> stdout
      [] code = 0 /\ stdout = "text" -> IF event = "goal_start" THEN "note" ELSE "nothing"
      [] OTHER -> "fails"

\* The events on which a failure counts as a refusal, unless the hook's own
\* fail_closed says otherwise.
FailClosed == {"goal_start", "pre_tool_use"}
FailureDenies(hook, event) ==
    IF hook.failClosed = "default" THEN event \in FailClosed ELSE hook.failClosed = "yes"

Matches(hook, tool) == hook.tools = {} \/ tool \in hook.tools

Rank == [nothing |-> 0, ask |-> 1, deny |-> 2]

\* One handler's answer as a decision.
Decision(hook, event, answer) ==
    IF answer = "fails" /\ FailureDenies(hook, event) THEN "deny"
    ELSE IF answer \in {"ask", "deny"} THEN answer ELSE "nothing"

NoOutcome(output) ==
    [decision |-> "nothing", output |-> output, maskedBy |-> {}, notes |-> 0, over |-> FALSE]

\* Mutant: a handler is given the tool's own output, not what the hooks before
\* it made of it.
AfterFromTool(o, hook, event, answer, output) ==
    LET d == Decision(hook, event, answer) IN
    [decision |-> IF Rank[d] > Rank[o.decision] THEN d ELSE o.decision,
     output |-> IF answer = "mask" /\ event = "post_tool_use" THEN output \ hook.kinds
                ELSE o.output,
     maskedBy |-> IF answer = "mask" /\ event = "post_tool_use"
                  THEN o.maskedBy \union {hook.id} ELSE o.maskedBy,
     notes |-> IF answer = "note" THEN o.notes + 1 ELSE o.notes,
     over |-> d = "deny"]

\* The outcome after one more handler: the strongest decision, the output as
\* rewritten so far, everybody's context; a refusal is the end of the chain.
After(o, hook, event, answer, output) ==
    LET d == Decision(hook, event, answer)
        masks == answer = "mask" /\ event = "post_tool_use"
    IN  [decision |-> IF Rank[d] > Rank[o.decision] THEN d ELSE o.decision,
         output |-> IF masks THEN o.output \ hook.kinds ELSE o.output,
         maskedBy |-> IF masks THEN o.maskedBy \union {hook.id} ELSE o.maskedBy,
         notes |-> IF answer = "note" THEN o.notes + 1 ELSE o.notes,
         over |-> d = "deny"]

\* HookEngine.run on a call of tool whose output is given, when its handlers
\* answer as answers says.
Run(event, tool, output, answers) ==
    LET chain == Registry[event]
        upto[i \in 0 .. Len(chain)] ==
            IF i = 0 THEN NoOutcome(output)
            ELSE IF upto[i - 1].over \/ ~Matches(chain[i], tool) THEN upto[i - 1]
            ELSE After(upto[i - 1], chain[i], event, answers[chain[i].id], output)
    IN  upto[Len(chain)]

\* All ways the handlers of an event may answer, and all outcomes of a chain.
Handlers(event) == {Registry[event][i].id : i \in 1 .. Len(Registry[event])}
AllAnswers(event) ==
    {a \in [Handlers(event) -> Answers] : \A h \in Handlers(event) : a[h] \in AnswersOf[h]}
Outcomes(event, tool, output) == {Run(event, tool, output, a) : a \in AllAnswers(event)}

\* The kinds a hook takes out.
KindsOf(id) ==
    UNION {Registry["post_tool_use"][i].kinds : i \in
           {j \in 1 .. Len(Registry["post_tool_use"]) : Registry["post_tool_use"][j].id = id}}
=============================================================================
