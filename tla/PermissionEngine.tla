-------------------------- MODULE PermissionEngine --------------------------
(***************************************************************************)
(* The permission engine of one session (src/src/harness/permissions.py)   *)
(* with its caller's part of the protocol (TurnController._authorize): the *)
(* mode and the rules are fixed when the session starts, the grants grow   *)
(* with the human's "for this session" answers.                            *)
(***************************************************************************)
EXTENDS Permissions

CONSTANTS
    RuleSets,   \* the rule configurations a session may start with
    None        \* no check evaluated yet

ASSUME RuleSetsAssumption == RuleSets \subseteq SUBSET Rule
ASSUME NoneAssumption == None \notin Check

VARIABLES
    mode,     \* PermissionEngine._mode
    rules,    \* PermissionEngine._rules
    grants,   \* PermissionEngine._grants
    check,    \* the check evaluated last
    verdict   \* its verdict

vars == <<mode, rules, grants, check, verdict>>

Init ==
    /\ mode \in Modes
    /\ rules \in RuleSets
    /\ grants = {}
    /\ check = None
    /\ verdict = Ruling("deny", "error")

\* evaluate: a call, the page it would act on and what the judges say of it.
EvaluateCall(c) ==
    /\ check' = c
    /\ verdict' = Evaluate(mode, rules, grants, c)
    /\ UNCHANGED <<mode, rules, grants>>

\* The human answers an ask with "for this session"; a verdict that is always
\* asked carries no grant key.
Grant ==
    /\ check # None
    /\ verdict.decision = "ask"
    /\ ~verdict.always
    /\ grants' = grants \cup {GrantKey(check)}
    /\ check' = None
    /\ verdict' = Ruling("deny", "error")
    /\ UNCHANGED <<mode, rules>>

\* The caller is done with the call and its verdict.
Settle ==
    /\ check' = None
    /\ verdict' = Ruling("deny", "error")
    /\ UNCHANGED <<mode, rules, grants>>

Next == Grant \/ Settle \/ \E c \in Check : EvaluateCall(c)

Spec == Init /\ [][Next]_vars
-----------------------------------------------------------------------------
TypeOK ==
    /\ mode \in Modes
    /\ rules \in RuleSets
    /\ grants \subseteq GrantKeys
    /\ check \in Check \cup {None}
    /\ verdict \in Verdict

\* No mode, grant, allow rule or judge lifts a matching deny rule, and none
\* turns it into a question ("no mode, grant or hook lifts it").
DenyRulesAreFinal ==
    check # None /\ Matching(rules, check, "deny") # {} => verdict.decision = "deny"

\* What a judge or an always_ask rule wants approved is never allowed without
\* the human: not by a grant, not by bypass mode, not by an allow rule.
AlwaysAskIsAlwaysAsked ==
    check # None /\ (JudgeAsk(check) \/ \E rule \in Matching(rules, check, "ask") : rule.always)
        => verdict.decision # "allow"

WithoutJudges(c) == [c EXCEPT !.hookAsk = FALSE, !.modelAsk = FALSE, !.classifierAsk = FALSE]

\* Hooks, the acting model and the classifier "can only add an approval, never
\* lift a rule": with their asks a call gets at most what it gets without.
JudgesOnlyRestrict ==
    check # None =>
        AtMostAs(verdict, Evaluate(mode, rules, grants, WithoutJudges(check)))

\* One more deny or ask rule never lets more through, whatever the other rules
\* and the session's grants are ("order and specificity of rules do not matter").
RulesOnlyRestrict ==
    check # None =>
        \A ruleset \in RuleSets : \A rule \in ruleset :
            rule.decision # "allow" =>
                AtMostAs(Evaluate(mode, rules \cup {rule}, grants, check), verdict)

\* A page that could not be resolved "may be anything": short of a grant given
\* on an unresolved page, the call gets at most what it gets on any domain with
\* any click target.
UnresolvedFailsClosed ==
    check # None /\ <<ToolOf[check.call], Unresolved>> \notin grants =>
        \A domain \in Domains, target \in Targets :
            AtMostAs(Evaluate(mode, rules, grants,
                              [check EXCEPT !.domain = Unresolved, !.target = Unresolved]),
                     Evaluate(mode, rules, grants,
                              [check EXCEPT !.domain = domain, !.target = target]))

\* dont_ask mode never waits for a human; read_only mode runs a state-changing
\* call (or asks for it) only where an allow rule names it.
ModesHold ==
    check # None =>
        /\ mode = "dont_ask" => verdict.decision # "ask"
        /\ mode = "read_only" /\ ~ReadOnly(check) /\ verdict.decision # "deny"
               => Matching(rules, check, "allow") # {}
=============================================================================
