---------------------------- MODULE Permissions ----------------------------
(***************************************************************************)
(* The decision function of the permission engine                          *)
(* (src/src/harness/permissions.py): which verdict a tool call gets from   *)
(* the mode, the configured rules and the session's grants.                *)
(*                                                                         *)
(* A call is a tool with its arguments, so the static filters of a rule    *)
(* (server, tool pattern, argument patterns) are the set of calls the rule *)
(* covers.  The filters on a resource (domains, target) depend on the page *)
(* the call would act on and stay filters of the rule.  Texts (reasons,    *)
(* rule ids) are left out: a verdict keeps what the loop branches on.      *)
(***************************************************************************)

CONSTANTS
    Calls,          \* tool calls: an exposed tool name with its arguments
    Tools,          \* exposed tool names; each belongs to one server
    ToolOf,         \* the tool of a call
    ReadOnlyTools,  \* tools whose server declared the readOnlyHint
    Domains,        \* domains a page can be on
    Targets,        \* labels of click targets
    Unresolved      \* a resource the resolver could not provide

ASSUME CallsAssumption ==
    /\ ToolOf \in [Calls -> Tools]
    /\ ReadOnlyTools \subseteq Tools

ASSUME UnresolvedAssumption == Unresolved \notin Domains \cup Targets

Modes == {"default", "read_only", "dont_ask", "bypass"}
Decisions == {"allow", "ask", "deny"}
Sources == {"rule", "judge", "mode", "annotation", "grant", "error"}

\* A rule: the calls its static filters cover, its resource filters (an empty
\* set is a filter that is not set) and whether its ask is an always_ask.
Rule == [decision   : Decisions,
         calls      : SUBSET Calls,
         domains    : SUBSET Domains,
         notDomains : SUBSET Domains,
         targets    : SUBSET Targets,
         always     : BOOLEAN]

\* PermissionCheck with the resources of the call.  `broken` says that the
\* resolver raised; the three asks are the judges' escalations.
Check == [call          : Calls,
          domain        : Domains \cup {Unresolved},
          target        : Targets \cup {Unresolved},
          broken        : BOOLEAN,
          hookAsk       : BOOLEAN,
          modelAsk      : BOOLEAN,
          classifierAsk : BOOLEAN]

Verdict == [decision : Decisions, source : Sources, always : BOOLEAN]

\* What a "for this session" approval remembers: (server, tool, domain).
GrantKeys == Tools \X (Domains \cup {Unresolved})

ReadOnly(check) == ToolOf[check.call] \in ReadOnlyTools
GrantKey(check) == <<ToolOf[check.call], check.domain>>
JudgeAsk(check) == check.hookAsk \/ check.modelAsk \/ check.classifierAsk

\* A filter on an unresolved resource fails closed: it holds for a restricting
\* rule and not for a permitting one.
DomainMatches(rule, check) ==
    \/ rule.domains = {} /\ rule.notDomains = {}
    \/ check.domain = Unresolved /\ rule.decision # "allow"
    \/ /\ check.domain # Unresolved
       /\ rule.domains = {} \/ check.domain \in rule.domains
       /\ check.domain \notin rule.notDomains

TargetMatches(rule, check) ==
    \/ rule.targets = {}
    \/ check.target = Unresolved /\ rule.decision # "allow"
    \/ check.target \in rule.targets

Matches(rule, check) ==
    /\ check.call \in rule.calls
    /\ DomainMatches(rule, check)
    /\ TargetMatches(rule, check)

Matching(rules, check, decision) ==
    {rule \in rules : rule.decision = decision /\ Matches(rule, check)}

Ruling(decision, source) == [decision |-> decision, source |-> source, always |-> FALSE]

\* Mutated: a session grant covers what must always be asked.
GrantedAlways(always, grants, check) == GrantKey(check) \in grants

\* The human already approved this tool on this domain for the session.
Granted(always, grants, check) == ~always /\ GrantKey(check) \in grants

\* An ask rule or a judge wants an approval.
ResolveAsk(mode, asks, grants, check) ==
    LET always == JudgeAsk(check) \/ \E rule \in asks : rule.always
    IN  IF Granted(always, grants, check) THEN Ruling("allow", "grant")
        ELSE IF ~always /\ mode = "bypass" THEN Ruling("allow", "mode")
        ELSE IF mode = "dont_ask" THEN Ruling("deny", "mode")
        ELSE [decision |-> "ask",
              source   |-> IF asks # {} THEN "rule" ELSE "judge",
              always   |-> always]

\* read_only mode leaves state-changing calls to the allow rules.
OffLimits(mode, allows, check) ==
    mode = "read_only" /\ ~ReadOnly(check) /\ allows = {}

\* Mutated: a session grant is looked up before the deny rules.
EvaluateGrantFirst(mode, rules, grants, check) ==
    LET asks   == Matching(rules, check, "ask")
    IN  IF check.broken THEN Ruling("deny", "error")
        ELSE IF GrantKey(check) \in grants THEN ResolveAsk(mode, asks, grants, check)
        ELSE IF Matching(rules, check, "deny") # {} THEN Ruling("deny", "rule")
        ELSE IF OffLimits(mode, Matching(rules, check, "allow"), check) THEN Ruling("deny", "mode")
        ELSE IF asks # {} \/ JudgeAsk(check) THEN ResolveAsk(mode, asks, grants, check)
        ELSE Ruling("allow", "mode")

\* PermissionEngine.evaluate; any exception is a deny.
Evaluate(mode, rules, grants, check) ==
    LET asks   == Matching(rules, check, "ask")
        allows == Matching(rules, check, "allow")
    IN  IF check.broken THEN Ruling("deny", "error")
        ELSE IF Matching(rules, check, "deny") # {} THEN Ruling("deny", "rule")
        ELSE IF OffLimits(mode, allows, check) THEN Ruling("deny", "mode")
        ELSE IF asks # {} \/ JudgeAsk(check) THEN ResolveAsk(mode, asks, grants, check)
        ELSE IF allows # {} THEN Ruling("allow", "rule")
        ELSE Ruling("allow", IF ReadOnly(check) THEN "annotation" ELSE "mode")

\* The decision left to chance: nothing configured, granted or asked decided it
\* (the calls the loop shows to the approval classifier).
ByDefault(mode, rules, grants, check) ==
    LET verdict == Evaluate(mode, rules, grants, check)
    IN  /\ verdict = Ruling("allow", "mode")
        /\ Matching(rules, check, "ask") = {}
        /\ ~ReadOnly(check)

----------------------------------------------------------------------------
\* Verdict v lets through at most what w does: deny, then ask, then allow.
AtMostAs(v, w) ==
    \/ v.decision = "deny"
    \/ v.decision = "ask" /\ w.decision # "deny"
    \/ w.decision = "allow"
============================================================================
