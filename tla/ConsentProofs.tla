---------------------------- MODULE ConsentProofs ----------------------------
(***************************************************************************)
(* What a tool is called with, and with whose consent.  The permission     *)
(* engine keeps its promises for every set of calls, tools, domains and    *)
(* targets and for every rule configuration; a tool turn, what it promises *)
(* about asking, arguments and rewording for every catalog and every set   *)
(* of replies; and the keys by which the user answers, theirs, however     *)
(* many lists, cards and messages come up between two of them.             *)
(*                                                                         *)
(* The engine's promises are facts about the decision function: the lemmas *)
(* state them for any mode, rules, grants and check.  The state machine    *)
(* adds that the verdict at hand is the one of the check at hand (Current).*)
(* A frame of the terminal folds all the messages that wait: what it makes *)
(* of any number of them is proved by the least one it could fail at.      *)
(***************************************************************************)
EXTENDS ToolTurn, Keyboard, TLAPS, WellFoundedInduction, SequenceTheorems

-----------------------------------------------------------------------------
(* The permission engine *)

\* The decision function returns a verdict.
LEMMA EvaluateType ==
    ASSUME NEW m, NEW rs, NEW gs, NEW c
    PROVE  Evaluate(m, rs, gs, c) \in Verdict
BY DEF Evaluate, OffLimits, ResolveAsk, Granted, Ruling, Verdict, Decisions, Sources, JudgeAsk

\* permissions.py, step 1: a matching deny rule decides.
LEMMA DenyDecides ==
    ASSUME NEW m, NEW rs, NEW gs, NEW c, Matching(rs, c, "deny") # {}
    PROVE  Evaluate(m, rs, gs, c).decision = "deny"
BY DEF Evaluate, Ruling

\* permissions.py, step 3: what must always be asked is never allowed.
LEMMA AlwaysAskDecides ==
    ASSUME NEW m, NEW rs, NEW gs, NEW c,
           JudgeAsk(c) \/ \E rule \in Matching(rs, c, "ask") : rule.always
    PROVE  Evaluate(m, rs, gs, c).decision # "allow"
BY DEF Evaluate, OffLimits, ResolveAsk, Granted, Ruling

\* A grant never turns a call that was allowed or asked into a denied one.
LEMMA GrantsNeverDeny ==
    ASSUME NEW m, NEW rs, NEW gs, NEW more, gs \subseteq more, NEW c,
           Evaluate(m, rs, gs, c).decision # "deny"
    PROVE  Evaluate(m, rs, more, c).decision # "deny"
BY DEF Evaluate, OffLimits, ResolveAsk, Granted, Ruling

\* A judge's ask only restricts.
LEMMA JudgesRestrict ==
    ASSUME NEW m, NEW rs, NEW gs, NEW c \in Check
    PROVE  AtMostAs(Evaluate(m, rs, gs, c), Evaluate(m, rs, gs, WithoutJudges(c)))
<1> DEFINE d == WithoutJudges(c)
<1>1. /\ d.broken = c.broken /\ d.call = c.call
      /\ d.domain = c.domain /\ d.target = c.target /\ ~JudgeAsk(d)
  BY DEF WithoutJudges, JudgeAsk, Check
<1>2. \A decision : Matching(rs, d, decision) = Matching(rs, c, decision)
  BY <1>1 DEF Matching, Matches, DomainMatches, TargetMatches
<1>3. ReadOnly(d) = ReadOnly(c) /\ GrantKey(d) = GrantKey(c)
  BY <1>1 DEF ReadOnly, GrantKey
<1> HIDE DEF d
<1>4. AtMostAs(Evaluate(m, rs, gs, c), Evaluate(m, rs, gs, d))
  BY <1>1, <1>2, <1>3 DEF Evaluate, OffLimits, ResolveAsk, Granted, Ruling, AtMostAs
<1> QED BY <1>4 DEF d

\* One more restricting rule only restricts.
LEMMA RuleRestricts ==
    ASSUME NEW m, NEW rs, NEW gs, NEW c, NEW rule, rule.decision \in {"deny", "ask"}
    PROVE  AtMostAs(Evaluate(m, rs \cup {rule}, gs, c), Evaluate(m, rs, gs, c))
<1> DEFINE more == rs \cup {rule}
<1>1. Matching(more, c, "allow") = Matching(rs, c, "allow")
  BY DEF Matching
<1>2. /\ Matching(rs, c, "deny") \subseteq Matching(more, c, "deny")
      /\ Matching(rs, c, "ask") \subseteq Matching(more, c, "ask")
  BY DEF Matching
<1> HIDE DEF more
<1>3. AtMostAs(Evaluate(m, more, gs, c), Evaluate(m, rs, gs, c))
  BY <1>1, <1>2 DEF Evaluate, OffLimits, ResolveAsk, Granted, Ruling, AtMostAs
<1> QED BY <1>3 DEF more

\* Not knowing the page only restricts, grants on unknown pages apart.
LEMMA UnresolvedRestricts ==
    ASSUME NEW m, NEW rs \in SUBSET Rule, NEW gs, NEW c \in Check,
           <<ToolOf[c.call], Unresolved>> \notin gs,
           NEW dom \in Domains, NEW tgt \in Targets
    PROVE  AtMostAs(Evaluate(m, rs, gs, [c EXCEPT !.domain = Unresolved,
                                                  !.target = Unresolved]),
                    Evaluate(m, rs, gs, [c EXCEPT !.domain = dom, !.target = tgt]))
<1> DEFINE u == [c EXCEPT !.domain = Unresolved, !.target = Unresolved]
           r == [c EXCEPT !.domain = dom, !.target = tgt]
<1>1. /\ u.broken = c.broken /\ u.call = c.call /\ u.domain = Unresolved /\ u.target = Unresolved
      /\ r.broken = c.broken /\ r.call = c.call /\ r.domain = dom /\ r.target = tgt
      /\ JudgeAsk(u) = JudgeAsk(c) /\ JudgeAsk(r) = JudgeAsk(c)
      /\ dom # Unresolved /\ tgt # Unresolved
  BY UnresolvedAssumption DEF Check, JudgeAsk
<1>2. /\ Matching(rs, r, "deny") \subseteq Matching(rs, u, "deny")
      /\ Matching(rs, r, "ask") \subseteq Matching(rs, u, "ask")
      /\ Matching(rs, u, "allow") \subseteq Matching(rs, r, "allow")
  <2>1. ASSUME NEW rule \in rs, rule.decision # "allow", Matches(rule, r)
        PROVE  Matches(rule, u)
    BY <2>1, <1>1 DEF Matches, DomainMatches, TargetMatches
  <2>2. ASSUME NEW rule \in rs, rule.decision = "allow", Matches(rule, u)
        PROVE  Matches(rule, r)
    BY <2>2, <1>1, UnresolvedAssumption
       DEF Matches, DomainMatches, TargetMatches, Rule
  <2> QED BY <2>1, <2>2 DEF Matching
<1>3. GrantKey(u) \notin gs /\ ReadOnly(u) = ReadOnly(r)
  BY <1>1 DEF GrantKey, ReadOnly
<1> HIDE DEF u, r
<1>4. AtMostAs(Evaluate(m, rs, gs, u), Evaluate(m, rs, gs, r))
  BY <1>1, <1>2, <1>3 DEF Evaluate, OffLimits, ResolveAsk, Granted, Ruling, AtMostAs
<1> QED BY <1>4 DEF u, r

\* permissions.py, steps 2 and 3: what the modes without a human refuse.
LEMMA ModesDecide ==
    ASSUME NEW m, NEW rs, NEW gs, NEW c
    PROVE  /\ m = "dont_ask" => Evaluate(m, rs, gs, c).decision # "ask"
           /\ m = "read_only" /\ ~ReadOnly(c) /\ Evaluate(m, rs, gs, c).decision # "deny"
                => Matching(rs, c, "allow") # {}
BY DEF Evaluate, OffLimits, ResolveAsk, Granted, Ruling
-----------------------------------------------------------------------------
\* The verdict at hand is the one of the check at hand, under the grants at hand.
Current == check # None => verdict = Evaluate(mode, rules, grants, check)

IInv == TypeOK /\ Current

\* The state of the engine keeps its type and the verdict is never out of date.
THEOREM EngineInvariant == Spec => []IInv
<1>1. Init => IInv
  BY DEF Init, IInv, TypeOK, Current, Ruling, Verdict, Decisions, Sources
<1>2. IInv /\ [Next]_vars => IInv'
  <2> SUFFICES ASSUME IInv, [Next]_vars PROVE IInv'
    OBVIOUS
  <2>1. CASE Grant
    <3>1. GrantKey(check) \in GrantKeys
      BY <2>1, CallsAssumption DEF Grant, IInv, TypeOK, Check, GrantKey, GrantKeys
    <3>2. verdict' \in Verdict
      BY <2>1 DEF Grant, Ruling, Verdict, Decisions, Sources
    <3> QED BY <2>1, <3>1, <3>2 DEF Grant, IInv, TypeOK, Current
  <2>2. ASSUME NEW c \in Check, EvaluateCall(c) PROVE IInv'
    BY <2>2, EvaluateType DEF EvaluateCall, IInv, TypeOK, Current
  <2>3. CASE Settle
    <3>1. verdict' \in Verdict
      BY <2>3 DEF Settle, Ruling, Verdict, Decisions, Sources
    <3> QED BY <2>3, <3>1 DEF Settle, IInv, TypeOK, Current
  <2>4. CASE UNCHANGED vars
    BY <2>4 DEF vars, IInv, TypeOK, Current
  <2> QED BY <2>1, <2>2, <2>3, <2>4 DEF Next
<1> QED BY <1>1, <1>2, PTL DEF Spec

\* No mode, grant or judge lifts a deny rule.
THEOREM DenyIsFinal == Spec => []DenyRulesAreFinal
<1>1. IInv => DenyRulesAreFinal
  BY DenyDecides DEF IInv, Current, DenyRulesAreFinal
<1> QED BY <1>1, EngineInvariant, PTL

\* Neither a session grant nor bypass mode covers an always-asked call.
THEOREM AlwaysAsked == Spec => []AlwaysAskIsAlwaysAsked
<1>1. IInv => AlwaysAskIsAlwaysAsked
  BY AlwaysAskDecides DEF IInv, Current, AlwaysAskIsAlwaysAsked
<1> QED BY <1>1, EngineInvariant, PTL

\* Hooks, the model and the classifier can only add an approval.
THEOREM JudgesRestrictOnly == Spec => []JudgesOnlyRestrict
<1>1. IInv => JudgesOnlyRestrict
  BY JudgesRestrict, NoneAssumption DEF IInv, TypeOK, Current, JudgesOnlyRestrict
<1> QED BY <1>1, EngineInvariant, PTL

\* Adding a deny or an ask rule never lets more through.
THEOREM RulesRestrictOnly == Spec => []RulesOnlyRestrict
<1>1. IInv => RulesOnlyRestrict
  <2> SUFFICES ASSUME IInv, check # None, NEW ruleset \in RuleSets, NEW rule \in ruleset,
                      rule.decision # "allow"
               PROVE  AtMostAs(Evaluate(mode, rules \cup {rule}, grants, check), verdict)
    BY DEF RulesOnlyRestrict
  <2>1. rule.decision \in {"deny", "ask"}
    BY RuleSetsAssumption DEF Rule, Decisions
  <2> QED BY <2>1, RuleRestricts DEF IInv, Current
<1> QED BY <1>1, EngineInvariant, PTL

\* An unresolved page fails closed.
THEOREM UnresolvedIsClosed == Spec => []UnresolvedFailsClosed
<1>1. IInv => UnresolvedFailsClosed
  <2> SUFFICES ASSUME IInv, check # None, <<ToolOf[check.call], Unresolved>> \notin grants,
                      NEW domain \in Domains, NEW target \in Targets
               PROVE  AtMostAs(Evaluate(mode, rules, grants, [check EXCEPT
                                   !.domain = Unresolved, !.target = Unresolved]),
                               Evaluate(mode, rules, grants, [check EXCEPT
                                   !.domain = domain, !.target = target]))
    BY DEF UnresolvedFailsClosed
  <2>1. rules \in SUBSET Rule /\ check \in Check
    BY RuleSetsAssumption DEF IInv, TypeOK
  <2> QED BY <2>1, UnresolvedRestricts
<1> QED BY <1>1, EngineInvariant, PTL

\* dont_ask never waits, read_only changes nothing that no rule allows.
THEOREM ModesAreKept == Spec => []ModesHold
<1>1. IInv => ModesHold
  BY ModesDecide DEF IInv, Current, ModesHold
<1> QED BY <1>1, EngineInvariant, PTL

-----------------------------------------------------------------------------
(* The tool turn *)

\* A call as the model or the loop holds it.
CallRecord == [tool : Tools, args : Args]

-----------------------------------------------------------------------------
\* A set of numbers has a smallest one.
LEMMA Smallest ==
    ASSUME NEW S \in SUBSET Nat, S # {}
    PROVE  \E i \in S : \A j \in S : i <= j
<1> DEFINE R == OpToRel(<, Nat)
<1>1. IsWellFoundedOn(R, Nat)
  BY NatLessThanWellFounded
<1>2. \A i, j \in Nat : <<j, i>> \in R <=> j < i
  BY DEF OpToRel
<1> HIDE DEF R
<1>3. PICK i \in S : \A j \in S : ~ <<j, i>> \in R
  BY <1>1, WFMin
<1>4. ASSUME NEW j \in S PROVE i <= j
  <2>1. i \in Nat /\ j \in Nat /\ ~ <<j, i>> \in R
    BY <1>3
  <2>2. ~ (j < i)
    BY <2>1, <1>2
  <2> QED BY <2>1, <2>2
<1> QED BY <1>4

\* What CallAction makes of a call has the type of a call.
LEMMA CallActionIsTyped ==
    ASSUME NEW call \in NativeCall
    PROVE  CallOf(CallAction(call).tool, CallAction(call).args) \in CallRecord
BY DEF NativeCall, CallAction, CallOf, CallRecord, NoArgs, Args

\* The first action of a reply, if it is a call, is one of the reply's calls.
LEMMA FirstCallIsTyped ==
    ASSUME NEW reply \in Replies, FirstAction(reply).kind = "call"
    PROVE  CallOf(FirstAction(reply).tool, FirstAction(reply).args) \in CallRecord
<1> DEFINE first == CHOOSE i \in Named(reply) : \A j \in Named(reply) : i <= j
<1>1. reply.calls \in Seq(NativeCall) /\ reply.objects \in Seq(ActionRecord)
  BY TurnAssumption DEF ReplyShape
<1>2. CASE Named(reply) # {}
  <2>1. Named(reply) \in SUBSET Nat
    BY <1>1 DEF Named
  <2>2. first \in Named(reply)
    BY <2>1, <1>2, Smallest
  <2> HIDE DEF first
  <2>3. reply.calls[first] \in NativeCall
    BY <2>2, <1>1 DEF Named
  <2>4. FirstAction(reply) = CallAction(reply.calls[first])
    BY <1>2 DEF FirstAction, first
  <2> QED BY <2>3, <2>4, CallActionIsTyped
<1>3. CASE Named(reply) = {} /\ reply.objects # <<>>
  <2> DEFINE record == Head(reply.objects)
  <2>1. record \in ActionRecord
    BY <1>1, <1>3
  <2>2. FirstAction(reply) = ParseRecord(record)
    BY <1>3 DEF FirstAction
  <2> HIDE DEF record
  <2>3. ParseRecord(record).kind = "call" => ParseRecord(record) = CallAction(record.call)
    BY DEF ParseRecord, Action, StopAction
  <2>4. record.call \in NativeCall
    BY <2>1 DEF ActionRecord
  <2> QED BY <2>2, <2>3, <2>4, CallActionIsTyped
<1>4. CASE Named(reply) = {} /\ reply.objects = <<>>
  BY <1>4 DEF FirstAction, Action, StopAction
<1> QED BY <1>2, <1>3, <1>4

\* Taking the harness' arguments out of a call leaves a call behind.
LEMMA SplitIsTyped ==
    ASSUME NEW tool, NEW args \in Args
    PROVE  Split(tool, args) \in Args
BY DEF Split, Args

\* So does fitting it to a schema.
LEMMA NormalizeIsTyped ==
    ASSUME NEW schema, NEW args \in Args
    PROVE  Normalize(schema, args) \in Args
<1> DEFINE Keep(name) == IF schema.closed /\ name \notin schema.owns THEN "absent" ELSE args[name]
<1>1. Keep("notes") \in {"absent", "written"} /\ Keep("approval") \in {"absent", "declined", "stated"}
  BY DEF Args
<1>2. (args.stray /\ ~schema.closed) \in BOOLEAN
  OBVIOUS
<1> QED BY <1>1, <1>2 DEF Normalize, Args
-----------------------------------------------------------------------------
\* The states in which a call is prepared, and those in which it is on its way.
Ready == {"hooks", "authorize", "classify", "denied", "approval", "invoke"}
InCall == Ready \cup {"guard"}

\* The call keeps its type and its tool on the way from the model to the tool.
CallIsTyped ==
    /\ pc \in InCall =>
          wrote \in CallRecord /\ request \in CallRecord /\ request.tool = wrote.tool
    /\ pc \in Ready =>
          prepared.call \in CallRecord /\ prepared.call.tool = wrote.tool

\* What the call is checked for is what the model asked for, and without a human or
\* a hook only a clear "no" of the classifier lets it through.
AsksStay ==
    /\ pc \in InCall => asked = Signals(wrote.tool, wrote.args)
    /\ pc \in {"idle", "model", "guard", "hooks", "authorize", "classify"} => judged = "nothing"
    /\ pc = "classify" => check \in Check /\ check.modelAsk = asked
    /\ pc = "invoke" =>
          \/ consent \in {"hook", "human"}
          \/ ~asked /\ judged \in {"nothing", "no"}

TurnInv == CallIsTyped /\ AsksStay

\* A call in the hands of the loop is one the permission engine can be asked about.
LEMMA ChecksAreTyped ==
    ASSUME TurnInv, pc = "authorize",
           NEW domain \in Domains \cup {Unresolved}, NEW target \in Targets \cup {Unresolved},
           NEW broken \in BOOLEAN, NEW ask \in BOOLEAN
    PROVE  CheckOf(domain, target, broken, ask) \in Check
<1>1. prepared.call \in Calls
  BY TurnAssumption DEF TurnInv, CallIsTyped, Ready, CallRecord
<1>2. asked \in BOOLEAN
  BY DEF TurnInv, AsksStay, InCall, Ready, Signals
<1> QED BY <1>1, <1>2 DEF CheckOf, Check

\* A call that is allowed was asked for by nobody.
LEMMA AllowedIsUnasked ==
    ASSUME NEW m, NEW rs, NEW gs, NEW c \in Check, Evaluate(m, rs, gs, c).decision = "allow"
    PROVE  ~c.modelAsk /\ ~c.classifierAsk
BY AlwaysAskDecides DEF JudgeAsk

\* Nobody calls anything before the first task.
LEMMA TurnStart == TurnInit => TurnInv
BY DEF TurnInit, TurnInv, CallIsTyped, AsksStay, InCall, Ready

\* A call is proposed with the request for approval the model stated.
LEMMA ProposesKeeps ==
    ASSUME TurnInv, NEW reply \in Replies, Proposes(reply)
    PROVE  TurnInv'
<1> DEFINE action == FirstAction(reply)
           call   == CallOf(action.tool, action.args)
<1>1. call \in CallRecord /\ action.kind = "call" /\ pc = "model"
  BY FirstCallIsTyped DEF Proposes
<1>2. CallOf(action.tool, Split(action.tool, action.args)) \in CallRecord
  BY <1>1, SplitIsTyped DEF CallOf, CallRecord
<1>3. CASE pc' = "guard"
  <2>1. /\ wrote' = call
        /\ request' = CallOf(action.tool, Split(action.tool, action.args))
        /\ asked' = Signals(action.tool, action.args)
        /\ judged' = judged /\ offered' = offered
    BY <1>3, <1>1 DEF Proposes
  <2>2. CallIsTyped'
    BY <1>1, <1>2, <1>3, <2>1 DEF CallIsTyped, Ready, CallOf
  <2>3. asked' = Signals(wrote.tool, wrote.args)'
    BY <2>1 DEF CallOf, Signals, TakesApproval
  <2> QED BY <1>1, <1>3, <2>1, <2>2, <2>3 DEF TurnInv, AsksStay
<1>4. CASE pc' = "model"
  BY <1>4, <1>1 DEF Proposes, ClearCall, TurnInv, CallIsTyped, AsksStay, InCall, Ready
<1> QED BY <1>1, <1>3, <1>4 DEF Proposes

\* Preparing a call changes neither its tool nor what was asked for it.
LEMMA PrepareKeeps ==
    ASSUME TurnInv, Prepare
    PROVE  TurnInv'
<1> DEFINE args == Normalize(catalog[request.tool], request.args)
<1>1. request \in CallRecord /\ wrote \in CallRecord /\ request.tool = wrote.tool
  BY DEF Prepare, TurnInv, CallIsTyped, InCall
<1>2. args \in Args
  BY <1>1, NormalizeIsTyped DEF CallRecord
<1>3. prepared'.call = CallOf(request.tool, args)
  BY DEF Prepare
<1> HIDE DEF args
<1>4. CallIsTyped'
  BY <1>1, <1>2, <1>3 DEF Prepare, CallIsTyped, Ready, InCall, CallOf, CallRecord
<1>5. asked' = Signals(wrote.tool, wrote.args)'
  BY DEF Prepare, TurnInv, AsksStay, InCall, Signals, TakesApproval
<1> QED BY <1>4, <1>5 DEF Prepare, TurnInv, AsksStay

\* Nor does a hook that replaces arguments.
LEMMA PreToolUseKeeps ==
    ASSUME TurnInv, NEW update \in Values \cup {None}, PreToolUse(update)
    PROVE  TurnInv'
<1>1. /\ request \in CallRecord /\ wrote \in CallRecord /\ request.tool = wrote.tool
      /\ prepared.call \in CallRecord /\ prepared.call.tool = wrote.tool
  BY DEF PreToolUse, TurnInv, CallIsTyped, InCall, Ready
<1>2. CallIsTyped'
  <2>1. CASE update = None /\ UNCHANGED <<request, prepared>>
    BY <2>1, <1>1 DEF PreToolUse, CallIsTyped
  <2>2. CASE ~ (update = None /\ UNCHANGED <<request, prepared>>)
    <3> DEFINE args == [prepared.call.args EXCEPT !.value = update]
               norm == Normalize(catalog[request.tool], args)
    <3>1. request' = CallOf(request.tool, args) /\ prepared'.call = CallOf(request.tool, norm)
      BY <2>2 DEF PreToolUse
    <3>2. args \in Args
      BY <1>1 DEF CallRecord, Args
    <3>3. norm \in Args
      BY <3>2, NormalizeIsTyped
    <3> HIDE DEF args, norm
    <3>4. wrote' = wrote
      BY DEF PreToolUse
    <3> QED BY <1>1, <3>1, <3>2, <3>3, <3>4 DEF CallIsTyped, CallOf, CallRecord
  <2> QED BY <2>1, <2>2
<1>3. asked' = Signals(wrote.tool, wrote.args)'
  BY DEF PreToolUse, TurnInv, AsksStay, InCall, Ready, Signals, TakesApproval
<1> QED BY <1>2, <1>3 DEF PreToolUse, TurnInv, AsksStay

\* The call is decided with what was asked for it.
LEMMA AuthorizeKeeps ==
    ASSUME TurnInv, NEW domain \in Domains \cup {Unresolved},
           NEW target \in Targets \cup {Unresolved}, NEW broken \in BOOLEAN, NEW ask \in BOOLEAN,
           Authorize(domain, target, broken, ask)
    PROVE  TurnInv'
<1> DEFINE c == CheckOf(domain, target, broken, ask)
<1>1. c \in Check /\ c.modelAsk = asked /\ pc = "authorize"
  BY ChecksAreTyped DEF Authorize, CheckOf
<1> HIDE DEF c
<1>2. /\ check' = c /\ verdict' = Evaluate(mode, rules, grants, c)
      /\ UNCHANGED <<wrote, request, prepared, asked, judged, offered>>
      /\ pc' \in {"classify", "denied", "invoke", "approval"}
      /\ pc' = "invoke" => verdict'.decision = "allow"
  <2>1. Evaluate(mode, rules, grants, c).decision \in {"deny", "allow", "ask"}
    BY EvaluateType DEF Verdict, Decisions
  <2> QED BY <2>1 DEF Authorize, EvaluateCall, Follow, turnVars, c
<1>3. CallIsTyped'
  BY <1>1, <1>2 DEF TurnInv, CallIsTyped, InCall, Ready
<1>4. asked' = Signals(wrote.tool, wrote.args)'
  BY <1>1, <1>2 DEF TurnInv, AsksStay, InCall, Ready, Signals, TakesApproval
<1>5. pc' = "invoke" => ~asked'
  BY <1>1, <1>2, AllowedIsUnasked
<1>6. judged' = "nothing"
  BY <1>1, <1>2 DEF TurnInv, AsksStay
<1> QED BY <1>1, <1>2, <1>3, <1>4, <1>5, <1>6 DEF TurnInv, AsksStay

\* Only a clear "no" of the classifier adds nothing to that.
LEMMA ClassifyKeeps ==
    ASSUME TurnInv, NEW answer \in Judgments, Classify(answer)
    PROVE  TurnInv'
<1> DEFINE c == [check EXCEPT !.classifierAsk = NeedsApproval(answer)]
<1>1. check \in Check /\ check.modelAsk = asked /\ pc = "classify"
  BY DEF Classify, TurnInv, AsksStay
<1>2. c \in Check /\ c.modelAsk = asked /\ c.classifierAsk = (answer # "no")
  BY <1>1 DEF Check, NeedsApproval
<1>3. verdict' = Evaluate(mode, rules, grants, c) /\ judged' = answer
  BY DEF Classify, EvaluateCall
<1> HIDE DEF c
<1>4. /\ UNCHANGED <<wrote, request, prepared, asked, offered>>
      /\ pc' \in {"denied", "invoke", "approval"}
      /\ pc' = "invoke" => verdict'.decision = "allow"
  <2>1. verdict'.decision \in {"deny", "allow", "ask"}
    BY <1>3, EvaluateType DEF Verdict, Decisions
  <2> QED BY <2>1 DEF Classify, Follow
<1>5. CallIsTyped'
  BY <1>1, <1>4 DEF TurnInv, CallIsTyped, InCall, Ready
<1>6. asked' = Signals(wrote.tool, wrote.args)'
  BY <1>1, <1>4 DEF TurnInv, AsksStay, InCall, Ready, Signals, TakesApproval
<1>7. pc' = "invoke" => ~asked' /\ judged' = "no"
  BY <1>2, <1>3, <1>4, AllowedIsUnasked
<1> QED BY <1>4, <1>5, <1>6, <1>7 DEF TurnInv, AsksStay

\* No step of a turn breaks TurnInv.
LEMMA TurnKeeps == TurnInv /\ [TurnNext]_turnAll => TurnInv'
<1> SUFFICES ASSUME TurnInv, [TurnNext]_turnAll PROVE TurnInv'
  OBVIOUS
<1> USE DEF TurnInv, CallIsTyped, AsksStay, InCall, Ready
<1>1. CASE UNCHANGED turnAll
  BY <1>1 DEF turnAll, turnVars, trackVars, engineVars, Signals, TakesApproval
<1>2. CASE Rediscover
  BY <1>2 DEF Rediscover, turnVars, trackVars, engineVars, Signals, TakesApproval
<1>3. CASE StartTask
  BY <1>3 DEF StartTask, turnVars, engineVars
<1>4. CASE EndTask
  BY <1>4 DEF EndTask, ClearCall
<1>5. ASSUME NEW reply \in Replies, Responds(reply) PROVE TurnInv'
  BY <1>5 DEF Responds, ClearCall
<1>6. CASE NextTurn
  BY <1>6 DEF NextTurn, ClearCall
<1>7. ASSUME NEW who \in {"hook", "human"}, ApproveOnce(who) PROVE TurnInv'
  BY <1>7 DEF ApproveOnce, trackVars, engineVars, Signals, TakesApproval
<1>8. CASE ApproveForSession
  BY <1>8 DEF ApproveForSession, trackVars, Signals, TakesApproval
<1> QED
  BY <1>1, <1>2, <1>3, <1>4, <1>5, <1>6, <1>7, <1>8, ProposesKeeps, PrepareKeeps,
     PreToolUseKeeps, AuthorizeKeeps, ClassifyKeeps
     DEF TurnNext, NotRun, HookDenies, Denied, Returns

\* What was asked for runs only with consent, for every set of rules and replies.
THEOREM AsksAreConsented == TurnSpec => []AskedIsConsented
<1>1. TurnInv => AskedIsConsented
  <2> SUFFICES ASSUME TurnInv, pc = "invoke", consent \notin {"hook", "human"}
               PROVE  /\ wrote.args.approval = "stated" /\ ModelSignal
                           => Owns(offered[wrote.tool], "approval")
                      /\ judged \in {"nothing", "no"}
    BY DEF AskedIsConsented
  <2> QED BY DEF TurnInv, AsksStay, InCall, Ready, Signals, TakesApproval
<1> QED BY <1>1, TurnStart, TurnKeeps, PTL DEF TurnSpec
-----------------------------------------------------------------------------
\* Every step of a turn is a step of the permission engine or none for it.
LEMMA TurnStepsAreEngineSteps == TurnInv /\ [TurnNext]_turnAll => [Next]_vars
<1> SUFFICES ASSUME TurnInv, [TurnNext]_turnAll PROVE [Next]_vars
  OBVIOUS
<1>1. CASE UNCHANGED engineVars
  BY <1>1 DEF engineVars, vars
<1>2. CASE Settle
  BY <1>2 DEF Next
<1>3. CASE ApproveForSession
  BY <1>3 DEF ApproveForSession, Next
<1>4. ASSUME NEW domain \in Domains \cup {Unresolved}, NEW target \in Targets \cup {Unresolved},
             NEW broken \in BOOLEAN, NEW ask \in BOOLEAN, Authorize(domain, target, broken, ask)
      PROVE  [Next]_vars
  <2>1. EvaluateCall(CheckOf(domain, target, broken, ask))
    BY <1>4 DEF Authorize
  <2>2. CheckOf(domain, target, broken, ask) \in Check
    BY <1>4, ChecksAreTyped DEF Authorize
  <2> QED BY <2>1, <2>2 DEF Next
<1>5. ASSUME NEW answer \in Judgments, Classify(answer) PROVE [Next]_vars
  <2>1. check \in Check
    BY <1>5 DEF Classify, TurnInv, AsksStay
  <2>2. [check EXCEPT !.classifierAsk = NeedsApproval(answer)] \in Check
    BY <2>1 DEF Check, NeedsApproval
  <2> QED BY <1>5, <2>2 DEF Classify, Next
<1>6. UNCHANGED turnAll => UNCHANGED engineVars
  BY DEF turnAll
<1> QED
  BY <1>1, <1>2, <1>3, <1>4, <1>5, <1>6
     DEF TurnNext, Rediscover, StartTask, EndTask, Responds, Proposes, NotRun, NextTurn, Prepare,
         PreToolUse, HookDenies, Denied, ApproveOnce, Returns

\* The turns of a session are behaviours of the permission engine.
THEOREM TurnsUseTheEngine == TurnSpec => Spec
<1>1. TurnInit => Init
  BY DEF TurnInit
<1> QED BY <1>1, TurnStart, TurnKeeps, TurnStepsAreEngineSteps, PTL DEF TurnSpec, Spec

\* So nothing that happens in a turn lifts a deny rule, ...
THEOREM TurnsKeepDenyRules == TurnSpec => []DenyRulesAreFinal
BY TurnsUseTheEngine, DenyIsFinal, PTL

\* ... or lets a call run unasked that is always asked for.
THEOREM TurnsAlwaysAsk == TurnSpec => []AlwaysAskIsAlwaysAsked
BY TurnsUseTheEngine, AlwaysAsked, PTL
-----------------------------------------------------------------------------
\* What ArgumentsAreItsOwn says of the arguments at the tool, of any arguments.
AreOwn(args, schema) ==
    LET May(name) == schema.closed => name \in schema.owns
    IN  /\ args.notes # "absent" /\ OffersNotes => Owns(offered[wrote.tool], "notes")
        /\ args.approval # "absent" /\ ModelSignal => Owns(offered[wrote.tool], "approval")
        /\ args.stray => ~schema.closed
        /\ \A name \in {"approval", "notes"} :
              /\ args[name] # "absent" => May(name)
              /\ (Owns(offered[wrote.tool], name) /\ May(name)
                     /\ args.value = wrote.args.value) => args[name] = wrote.args[name]

\* The call as the model wrote it, without what the harness takes out of it; and what
\* is prepared of it.
OwnInv ==
    /\ pc = "guard" => request = CallOf(wrote.tool, Split(wrote.tool, wrote.args))
    /\ pc = "hooks" => prepared.call.args.value = wrote.args.value
    /\ pc \in Ready => AreOwn(prepared.call.args, prepared.schema)

\* A hook that replaces a value puts another one.
HooksChange == \A value \in Values \cup {None} : value \notin Updates[value]

\* A call that is split and normalized keeps what is the tool's own and nothing else.
LEMMA SplitAndNormalizeIsOwn ==
    ASSUME NEW schema, wrote \in CallRecord
    PROVE  AreOwn(Normalize(schema, Split(wrote.tool, wrote.args)), schema)
<1> DEFINE split == Split(wrote.tool, wrote.args)
           norm  == Normalize(schema, split)
<1>1. wrote.args \in Args /\ split \in Args
  BY SplitIsTyped DEF CallRecord
<1>2. /\ split.value = wrote.args.value
      /\ split.notes = IF TakesNotes(wrote.tool) THEN "absent" ELSE wrote.args.notes
      /\ split.approval = IF TakesApproval(wrote.tool) THEN "absent" ELSE wrote.args.approval
  BY <1>1 DEF Split, Args
<1> HIDE DEF split
<1>3. /\ norm.value = split.value
      /\ norm.stray = (split.stray /\ ~schema.closed)
      /\ norm.notes = IF schema.closed /\ "notes" \notin schema.owns THEN "absent" ELSE split.notes
      /\ norm.approval =
            IF schema.closed /\ "approval" \notin schema.owns THEN "absent" ELSE split.approval
  BY <1>1 DEF Normalize, Args
<1> HIDE DEF norm
<1>4. AreOwn(norm, schema)
  BY <1>2, <1>3 DEF AreOwn, TakesNotes, TakesApproval
<1> QED BY <1>4 DEF norm, split

\* What a hook rewrote is normalized again: nothing comes back.
LEMMA RewriteIsOwn ==
    ASSUME NEW schema, NEW old, NEW args \in Args, AreOwn(args, old),
           NEW update, update # wrote.args.value
    PROVE  AreOwn(Normalize(schema, [args EXCEPT !.value = update]), schema)
<1> DEFINE norm  == Normalize(schema, [args EXCEPT !.value = update])
<1>1. /\ norm.value = update
      /\ norm.stray = (args.stray /\ ~schema.closed)
      /\ norm.notes = IF schema.closed /\ "notes" \notin schema.owns THEN "absent" ELSE args.notes
      /\ norm.approval =
            IF schema.closed /\ "approval" \notin schema.owns THEN "absent" ELSE args.approval
  BY DEF Normalize, Args
<1> HIDE DEF norm
<1>2. AreOwn(norm, schema)
  BY <1>1 DEF AreOwn
<1> QED BY <1>2 DEF norm

\* On its way to the tool the call keeps what is the tool's own.
LEMMA OwnKeeps ==
    ASSUME HooksChange
    PROVE  TurnInv /\ OwnInv /\ [TurnNext]_turnAll => OwnInv'
<1> SUFFICES ASSUME TurnInv, OwnInv, [TurnNext]_turnAll PROVE OwnInv'
  OBVIOUS
<1>1. ASSUME UNCHANGED <<wrote, request, prepared, offered>>,
             pc' = pc \/ pc' \notin {"guard", "hooks"},
             pc' \in Ready => pc \in Ready
      PROVE  OwnInv'
  <2>1. CASE pc' \in Ready
    <3>1. AreOwn(prepared.call.args, prepared.schema)
      BY <1>1, <2>1 DEF OwnInv
    <3>2. AreOwn(prepared.call.args, prepared.schema)'
      BY <1>1, <3>1 DEF AreOwn, Owns
    <3> QED BY <1>1, <3>2 DEF OwnInv, CallOf, Split, TakesNotes, TakesApproval, Owns
  <2>2. CASE pc' \notin Ready
    BY <1>1, <2>2 DEF OwnInv, CallOf, Split, TakesNotes, TakesApproval, Owns
  <2> QED BY <2>1, <2>2
<1>2. ASSUME pc' \notin InCall PROVE OwnInv'
  BY <1>2 DEF OwnInv, InCall, Ready
<1>3. ASSUME NEW reply \in Replies, Proposes(reply) PROVE OwnInv'
  <2>1. CASE pc' = "guard"
    <3> DEFINE action == FirstAction(reply)
    <3>1. /\ wrote' = CallOf(action.tool, action.args)
          /\ request' = CallOf(action.tool, Split(action.tool, action.args))
          /\ offered' = offered
      BY <1>3, <2>1 DEF Proposes
    <3> HIDE DEF action
    <3>2. wrote'.tool = action.tool /\ wrote'.args = action.args
      BY <3>1 DEF CallOf
    <3>3. Split(wrote.tool, wrote.args)' = Split(action.tool, action.args)
      BY <3>1, <3>2 DEF Split, TakesNotes, TakesApproval, Owns
    <3> QED BY <2>1, <3>1, <3>2, <3>3 DEF OwnInv, Ready, CallOf
  <2>2. CASE pc' # "guard"
    BY <1>3, <2>2, <1>2 DEF Proposes, InCall, Ready
  <2> QED BY <2>1, <2>2
<1>4. CASE Prepare
  <2>1. /\ wrote \in CallRecord /\ request.args = Split(wrote.tool, wrote.args)
        /\ request.tool = wrote.tool
    BY <1>4 DEF Prepare, OwnInv, TurnInv, CallIsTyped, InCall, CallOf
  <2> DEFINE schema == catalog[request.tool]
             norm   == Normalize(schema, request.args)
  <2>2. AreOwn(norm, schema)
    BY <2>1, SplitAndNormalizeIsOwn
  <2>3. norm.value = wrote.args.value
    BY <2>1, SplitIsTyped DEF Normalize, Split, CallRecord, Args
  <2>4. prepared'.call.args = norm /\ prepared'.schema = schema
    BY <1>4 DEF Prepare, CallOf
  <2>5. UNCHANGED <<wrote, offered>> /\ pc' = "hooks"
    BY <1>4 DEF Prepare
  <2> HIDE DEF norm, schema
  <2> QED BY <2>2, <2>3, <2>4, <2>5 DEF OwnInv, AreOwn
<1>5. ASSUME NEW update \in Values \cup {None}, PreToolUse(update) PROVE OwnInv'
  <2>1. /\ UNCHANGED <<wrote, offered>> /\ pc' = "authorize" /\ pc = "hooks"
        /\ prepared.call.args \in Args
        /\ prepared.call.args.value = wrote.args.value
        /\ AreOwn(prepared.call.args, prepared.schema)
    BY <1>5 DEF PreToolUse, OwnInv, TurnInv, CallIsTyped, Ready, CallRecord
  <2>2. CASE UNCHANGED <<request, prepared>>
    BY <2>1, <2>2 DEF OwnInv, AreOwn, Ready
  <2>3. CASE ~ UNCHANGED <<request, prepared>>
    <3> DEFINE schema == catalog[request.tool]
               norm   == Normalize(schema, [prepared.call.args EXCEPT !.value = update])
    <3>1. update \in Updates[prepared.call.args.value]
      BY <1>5, <2>3 DEF PreToolUse
    <3>2. prepared.call.args.value \in Values \cup {None}
      BY <2>1 DEF Args
    <3>3. update # wrote.args.value
      BY <2>1, <3>1, <3>2, HooksChange DEF HooksChange
    <3>4. AreOwn(norm, schema)
      BY <2>1, <3>3, RewriteIsOwn
    <3>5. prepared'.call.args = norm /\ prepared'.schema = schema
      BY <1>5, <2>3 DEF PreToolUse, CallOf
    <3> HIDE DEF norm, schema
    <3> QED BY <2>1, <3>4, <3>5 DEF OwnInv, AreOwn, Ready
  <2> QED BY <2>2, <2>3
<1>6. ASSUME NEW domain \in Domains \cup {Unresolved}, NEW target \in Targets \cup {Unresolved},
             NEW broken \in BOOLEAN, NEW ask \in BOOLEAN, Authorize(domain, target, broken, ask)
      PROVE  OwnInv'
  <2>1. /\ UNCHANGED <<wrote, request, prepared, offered>> /\ pc = "authorize"
        /\ pc' \notin {"guard", "hooks"}
    <3>1. Evaluate(mode, rules, grants, check').decision \in {"deny", "allow", "ask"}
      BY EvaluateType DEF Verdict, Decisions
    <3> QED BY <1>6, <3>1 DEF Authorize, EvaluateCall, Follow, turnVars
  <2> QED BY <2>1, <1>1 DEF Ready
<1>7. ASSUME NEW answer \in Judgments, Classify(answer) PROVE OwnInv'
  <2>1. /\ UNCHANGED <<wrote, request, prepared, offered>> /\ pc = "classify"
        /\ pc' \notin {"guard", "hooks"}
    <3>1. verdict'.decision \in {"deny", "allow", "ask"}
      BY <1>7, EvaluateType DEF Classify, EvaluateCall, Verdict, Decisions
    <3> QED BY <1>7, <3>1 DEF Classify, Follow
  <2> QED BY <2>1, <1>1 DEF Ready
<1>8. ASSUME NEW who \in {"hook", "human"}, ApproveOnce(who) PROVE OwnInv'
  BY <1>8, <1>1 DEF ApproveOnce, Ready
<1>9. CASE ApproveForSession
  BY <1>9, <1>1 DEF ApproveForSession, Ready
<1>10. CASE Rediscover
  BY <1>10, <1>1 DEF Rediscover, turnVars
<1>11. CASE UNCHANGED turnAll
  BY <1>11, <1>1 DEF turnAll, turnVars
<1>12. ASSUME StartTask \/ EndTask \/ NextTurn \/ \E reply \in Replies : Responds(reply)
       PROVE  OwnInv'
  BY <1>12, <1>2 DEF StartTask, EndTask, NextTurn, Responds, InCall, Ready
<1> QED
  BY <1>3, <1>4, <1>5, <1>6, <1>7, <1>8, <1>9, <1>10, <1>11, <1>12
     DEF TurnNext, NotRun, HookDenies, Denied, Returns

\* A tool gets its own arguments and no other, whatever its server declares meanwhile.
THEOREM ArgumentsAreKept == HooksChange => (TurnSpec => []ArgumentsAreItsOwn)
<1> SUFFICES ASSUME HooksChange PROVE TurnSpec => []ArgumentsAreItsOwn
  OBVIOUS
<1>1. TurnInit => OwnInv
  BY DEF TurnInit, OwnInv, Ready
<1>2. TurnInv /\ OwnInv /\ [TurnNext]_turnAll => OwnInv'
  BY OwnKeeps
<1>3. OwnInv => ArgumentsAreItsOwn
  BY DEF OwnInv, AreOwn, ArgumentsAreItsOwn, Ready
<1> QED BY <1>1, <1>2, <1>3, TurnStart, TurnKeeps, PTL DEF TurnSpec
-----------------------------------------------------------------------------
\* The row of calls that ask the same of a tool is no longer than the counter of the
\* loop, which compares the calls without what the harness offered.
RowInv ==
    /\ repeat \in 0 .. 3
    /\ row.times \in 0 .. 2
    /\ row.times <= repeat
    /\ row.times > 0 =>
          /\ last.args \in Args
          /\ last = Tracked(last.tool, last.args)
          /\ row.of = Substance(last.tool, last.args)

\* What is taken out of a call is gone, what is not taken out stays.
LEMMA SplitKeeps ==
    ASSUME NEW tool, NEW args \in Args
    PROVE  /\ Split(tool, args).value = args.value
           /\ Split(tool, args).stray = args.stray
           /\ Split(tool, args).notes = IF TakesNotes(tool) THEN "absent" ELSE args.notes
           /\ Split(tool, args).approval = IF TakesApproval(tool) THEN "absent" ELSE args.approval
BY DEF Split, Args

\* Two calls that ask the same of a tool are one to the loop.
LEMMA SameSubstanceSameKey ==
    ASSUME ModelSignal, OffersNotes,
           NEW tool1, NEW args1 \in Args, NEW tool2, NEW args2 \in Args,
           Substance(tool1, args1) = Substance(tool2, args2)
    PROVE  Tracked(tool1, args1) = Tracked(tool2, args2)
<1> DEFINE Own(tool, args) ==
              {<<name, args[name]>> : name \in {n \in {"approval", "notes"} : Owns(offered[tool], n)}}
<1>1. /\ tool1 = tool2 /\ args1.value = args2.value /\ args1.stray = args2.stray
      /\ Own(tool1, args1) = Own(tool2, args2)
  BY DEF Substance
<1>2. ASSUME NEW name \in {"approval", "notes"}, Owns(offered[tool1], name)
      PROVE  args1[name] = args2[name]
  <2>1. <<name, args1[name]>> \in Own(tool1, args1)
    BY <1>2
  <2>2. <<name, args1[name]>> \in Own(tool2, args2)
    BY <2>1, <1>1
  <2> QED BY <2>2
<1> HIDE DEF Own
<1>3. /\ ~TakesNotes(tool1) => args1.notes = args2.notes
      /\ ~TakesApproval(tool1) => args1.approval = args2.approval
  BY <1>2 DEF TakesNotes, TakesApproval
<1>4. Split(tool1, args1) \in Args /\ Split(tool2, args2) \in Args
  BY SplitIsTyped
<1>5. Split(tool1, args1) = Split(tool2, args2)
  BY <1>1, <1>3, <1>4, SplitKeeps DEF Args
<1> QED BY <1>1, <1>5 DEF Tracked, CallOf

\* What the harness takes out of a call is not what the call asks.
LEMMA SplitKeepsSubstance ==
    ASSUME NEW tool, NEW args \in Args
    PROVE  Substance(tool, Split(tool, args)) = Substance(tool, args)
<1> DEFINE split == Split(tool, args)
<1>1. split.value = args.value /\ split.stray = args.stray
  BY SplitKeeps
<1>2. \A name \in {"approval", "notes"} : Owns(offered[tool], name) => split[name] = args[name]
  BY SplitKeeps DEF TakesNotes, TakesApproval
<1> HIDE DEF split
<1>3. Substance(tool, split) = Substance(tool, args)
  BY <1>1, <1>2 DEF Substance
<1> QED BY <1>3 DEF split

\* Nor is anything left to take out of it.
LEMMA SplitTwice ==
    ASSUME NEW tool, NEW args \in Args
    PROVE  Split(tool, Split(tool, args)) = Split(tool, args)
<1> DEFINE once == Split(tool, args)
<1>1. once \in Args /\ Split(tool, once) \in Args
  BY SplitIsTyped
<1>2. /\ Split(tool, once).value = once.value /\ Split(tool, once).stray = once.stray
      /\ Split(tool, once).notes = once.notes /\ Split(tool, once).approval = once.approval
  BY <1>1, SplitKeeps
<1> HIDE DEF once
<1>3. Split(tool, once) = once
  BY <1>1, <1>2 DEF Args
<1> QED BY <1>3 DEF once

\* A proposed call lengthens the row only if it raises the counter.
LEMMA ProposesKeepsRow ==
    ASSUME ModelSignal, OffersNotes, RowInv, NEW reply \in Replies, Proposes(reply)
    PROVE  RowInv'
<1> DEFINE action == FirstAction(reply)
           key    == Tracked(action.tool, action.args)
           asks   == Substance(action.tool, action.args)
           split  == Split(action.tool, action.args)
<1>1. action.args \in Args /\ split \in Args
  BY FirstCallIsTyped, SplitIsTyped DEF Proposes, CallOf, CallRecord
<1>2. key.tool = action.tool /\ key.args = split /\ key = Tracked(key.tool, key.args)
  BY <1>1, SplitTwice DEF Tracked, CallOf
<1>3. asks = Substance(key.tool, key.args)
  BY <1>1, <1>2, SplitKeepsSubstance
<1>4. row.times > 0 /\ row.of = asks => last = key
  BY <1>1, SameSubstanceSameKey DEF RowInv
<1>5. /\ last' = key /\ UNCHANGED offered
      /\ \/ last = key /\ repeat >= 2 /\ repeat' = 3 /\ row' = row
         \/ /\ ~(last = key /\ repeat >= 2)
            /\ repeat' = IF last = key THEN repeat + 1 ELSE 1
            /\ row' = [of |-> asks, times |-> IF row.of = asks THEN row.times + 1 ELSE 1]
  BY DEF Proposes
<1>6. /\ Tracked(last.tool, last.args)' = Tracked(last'.tool, last'.args)
      /\ Substance(last.tool, last.args)' = Substance(last'.tool, last'.args)
  BY <1>5 DEF Tracked, CallOf, Split, TakesNotes, TakesApproval, Substance, Owns
<1> HIDE DEF action, key, asks, split
<1>7. CASE last = key /\ repeat >= 2 /\ repeat' = 3 /\ row' = row
  BY <1>1, <1>2, <1>5, <1>6, <1>7 DEF RowInv
<1>8. CASE /\ ~(last = key /\ repeat >= 2)
           /\ repeat' = IF last = key THEN repeat + 1 ELSE 1
           /\ row' = [of |-> asks, times |-> IF row.of = asks THEN row.times + 1 ELSE 1]
  <2>1. row'.of = asks /\ row'.times = IF row.of = asks THEN row.times + 1 ELSE 1
    BY <1>8
  <2>2. repeat' \in 0 .. 3 /\ row'.times \in 0 .. 2 /\ row'.times <= repeat'
    BY <1>4, <1>8, <2>1 DEF RowInv
  <2> QED BY <1>1, <1>2, <1>3, <1>5, <1>6, <2>1, <2>2 DEF RowInv
<1> QED BY <1>5, <1>7, <1>8

\* No other step touches the calls made so far, but the start of a task, which begins
\* a new row.
LEMMA RowKeeps ==
    ASSUME ModelSignal, OffersNotes
    PROVE  RowInv /\ [TurnNext]_turnAll => RowInv'
<1> SUFFICES ASSUME RowInv, [TurnNext]_turnAll PROVE RowInv'
  OBVIOUS
<1>1. ASSUME UNCHANGED <<offered, trackVars>> PROVE RowInv'
  BY <1>1 DEF RowInv, trackVars, Tracked, CallOf, Split, TakesNotes, TakesApproval, Substance, Owns
<1>2. CASE StartTask
  BY <1>2 DEF StartTask, RowInv, NoRow
<1>3. ASSUME NEW reply \in Replies, Proposes(reply) PROVE RowInv'
  BY <1>3, ProposesKeepsRow
<1>4. ASSUME NEW reply \in Replies, Responds(reply) PROVE RowInv'
  BY <1>4, <1>1 DEF Responds
<1>5. ASSUME NEW update \in Values \cup {None}, PreToolUse(update) PROVE RowInv'
  BY <1>5, <1>1 DEF PreToolUse
<1>6. ASSUME NEW domain, NEW target, NEW broken, NEW ask, Authorize(domain, target, broken, ask)
      PROVE  RowInv'
  BY <1>6, <1>1 DEF Authorize, Follow
<1>7. ASSUME NEW answer, Classify(answer) PROVE RowInv'
  BY <1>7, <1>1 DEF Classify, Follow
<1>8. ASSUME NEW who, ApproveOnce(who) PROVE RowInv'
  BY <1>8, <1>1 DEF ApproveOnce
<1>9. CASE Rediscover \/ EndTask \/ NextTurn \/ Prepare \/ ApproveForSession \/ UNCHANGED turnAll
  BY <1>9, <1>1 DEF Rediscover, EndTask, NextTurn, Prepare, ApproveForSession, turnAll
<1> QED
  BY <1>2, <1>3, <1>4, <1>5, <1>6, <1>7, <1>8, <1>9
     DEF TurnNext, NotRun, HookDenies, Denied, Returns

\* Where the harness offers both arguments, no rewording of them lets a model make the
\* same call of a tool a third time in a row.
THEOREM RewordingIsBounded == TurnSpec => []RewordingIsNoEscape
<1>1. CASE ModelSignal /\ OffersNotes
  <2>1. TurnInit => RowInv
    BY DEF TurnInit, RowInv, NoRow
  <2>2. RowInv /\ [TurnNext]_turnAll => RowInv'
    BY <1>1, RowKeeps
  <2>3. RowInv => RewordingIsNoEscape
    BY DEF RowInv, RewordingIsNoEscape
  <2> QED BY <2>1, <2>2, <2>3, PTL DEF TurnSpec
<1>2. CASE ~(ModelSignal /\ OffersNotes)
  <2>1. RewordingIsNoEscape
    BY <1>2 DEF RewordingIsNoEscape
  <2> QED BY <2>1, PTL
<1> QED BY <1>1, <1>2

-----------------------------------------------------------------------------
(* The keys *)

\* The questions of the broker.
Questions == [allow_session : BOOLEAN, state : {"open", "answered", "closed"}]

\* The cards there may be of the questions asked so far: one that is highlighted is one
\* of its choices.
CardsOf(questions) ==
    {c \in [ticket : 1..Len(questions), choice : 0..2] :
        c.choice < Len(ApprovalChoices(questions[c.ticket].allow_session))}

\* The messages of n questions.
Messages(n) ==
    [kind : {"picker"}, id : {"resume", "model"}]
        \cup [kind : {"shown", "closed"}, ticket : 1..n]
        \cup [kind : {"goal_started", "outcome"}]

\* Every card and every message is of a question that was asked.
OfQuestions ==
    /\ tickets \in Seq(Questions)
    /\ cards \in Seq(CardsOf(tickets))
    /\ inbox \in Seq(Messages(Len(tickets)))

\* Nothing was typed since the open list came up, and what is armed was warned of.
Announced ==
    /\ typed \in BOOLEAN
    /\ picker # NoPicker => ~typed
    /\ armed => warned

KeysInv == OfQuestions /\ Announced /\ KeysAreMeant

-----------------------------------------------------------------------------
\* The choices of a card: two or three, the grant among them only where it is allowed.
LEMMA Choices ==
    ASSUME NEW allow_session \in BOOLEAN
    PROVE  /\ Len(ApprovalChoices(allow_session)) = IF allow_session THEN 3 ELSE 2
           /\ \A i \in 1..Len(ApprovalChoices(allow_session)) :
                 ApprovalChoices(allow_session)[i] = "session" => allow_session
<1>1. CASE allow_session = TRUE
  BY <1>1 DEF ApprovalChoices
<1>2. CASE allow_session = FALSE
  BY <1>2 DEF ApprovalChoices
<1> QED BY <1>1, <1>2

\* A question more, or another state of one, leaves every card one of a question.
LEMMA CardsStay ==
    ASSUME NEW before \in Seq(Questions), NEW after \in Seq(Questions),
           Len(before) <= Len(after),
           \A n \in 1..Len(before) : after[n].allow_session = before[n].allow_session
    PROVE  /\ CardsOf(before) \subseteq CardsOf(after)
           /\ Messages(Len(before)) \subseteq Messages(Len(after))
<1>1. Len(before) \in Nat /\ Len(after) \in Nat
  OBVIOUS
<1>2. 1..Len(before) \subseteq 1..Len(after)
  BY <1>1
<1>3. CardsOf(before) \subseteq CardsOf(after)
  BY <1>2 DEF CardsOf
<1>4. Messages(Len(before)) \subseteq Messages(Len(after))
  BY <1>2 DEF Messages
<1> QED BY <1>3, <1>4

\* A sequence of what is in S is one of what is in a larger set.
LEMMA SeqGrows ==
    ASSUME NEW S, NEW T, S \subseteq T, NEW s \in Seq(S)
    PROVE  s \in Seq(T)
<1>1. Len(s) \in Nat /\ s = [i \in 1..Len(s) |-> s[i]] /\ \A i \in 1..Len(s) : s[i] \in T
  OBVIOUS
<1> QED BY <1>1

-----------------------------------------------------------------------------
(* A frame *)

\* What the transcript may be while the questions are these.
Transcripts ==
    LET seen == [picker : {picker, NoPicker} \cup [id : {"resume", "model"}, choice : {0}],
                 cards : Seq(CardsOf(tickets)), task : {task, "shown", "idle"}, typed : BOOLEAN]
    IN  {s \in seen : s.picker # NoPicker => ~s.typed}

\* Without a card there are the others.
LEMMA WithoutOne ==
    ASSUME NEW S, NEW shown \in Seq(S), NEW n
    PROVE  Without(shown, n) \in Seq(S)
<1> DEFINE of == {i \in DOMAIN shown : shown[i].ticket = n}
           k == CHOOSE i \in of : TRUE
<1>1. CASE of = {}
  BY <1>1 DEF Without
<1>2. CASE of # {}
  <2>1. k \in 1..Len(shown) /\ Len(shown) \in Nat
    BY <1>2
  <2> HIDE DEF k
  <2>2. SubSeq(shown, 1, k - 1) \in Seq(S)
    BY <2>1, SubSeqProperties
  <2>3. SubSeq(shown, k + 1, Len(shown)) \in Seq(S)
    BY <2>1, SubSeqProperties
  <2>4. SubSeq(shown, 1, k - 1) \o SubSeq(shown, k + 1, Len(shown)) \in Seq(S)
    BY <2>2, <2>3
  <2>5. Without(shown, n) = SubSeq(shown, 1, k - 1) \o SubSeq(shown, k + 1, Len(shown))
    BY <1>2 DEF Without, k
  <2> QED BY <2>4, <2>5
<1> QED BY <1>1, <1>2

\* A message of a question leaves the transcript what it may be.
LEMMA Reduced ==
    ASSUME OfQuestions, NEW s \in Transcripts, NEW m \in Messages(Len(tickets))
    PROVE  Reduce(s, m) \in Transcripts
<1>1. CASE m.kind = "picker"
  <2>1. m.id \in {"resume", "model"}
    BY <1>1 DEF Messages
  <2> DEFINE list == [id |-> m.id, choice |-> 0]
  <2>2. Reduce(s, m) = [s EXCEPT !.picker = list, !.typed = FALSE]
    BY <1>1 DEF Reduce
  <2>3. list \in [id : {"resume", "model"}, choice : {0}]
    BY <2>1
  <2> HIDE DEF list
  <2> QED BY <2>2, <2>3 DEF Transcripts
<1>2. CASE m.kind = "shown"
  <2> DEFINE c == [ticket |-> m.ticket, choice |-> 0]
  <2>1. m.ticket \in 1..Len(tickets)
    BY <1>2 DEF Messages
  <2>2. tickets[m.ticket].allow_session \in BOOLEAN
    <3>1. tickets[m.ticket] \in Questions
      BY <2>1 DEF OfQuestions
    <3> QED BY <3>1 DEF Questions
  <2>3. 0 < Len(ApprovalChoices(tickets[m.ticket].allow_session))
    BY <2>2, Choices
  <2>4. c \in CardsOf(tickets)
    BY <2>1, <2>3 DEF CardsOf
  <2> HIDE DEF c
  <2>5. Reduce(s, m) = [s EXCEPT !.cards = Append(@, c)]
    BY <1>2 DEF Reduce, c
  <2>6. Append(s.cards, c) \in Seq(CardsOf(tickets))
    BY <2>4 DEF Transcripts
  <2> QED BY <2>5, <2>6 DEF Transcripts
<1>3. CASE m.kind = "closed"
  <2>1. Reduce(s, m) = [s EXCEPT !.cards = Without(@, m.ticket)]
    BY <1>3 DEF Reduce
  <2>2. s.cards \in Seq(CardsOf(tickets))
    BY DEF Transcripts
  <2>3. Without(s.cards, m.ticket) \in Seq(CardsOf(tickets))
    BY <2>2, WithoutOne
  <2> QED BY <2>1, <2>3 DEF Transcripts
<1>4. CASE m.kind = "goal_started"
  <2>1. Reduce(s, m) = [s EXCEPT !.task = "shown"]
    BY <1>4 DEF Reduce
  <2> QED BY <2>1 DEF Transcripts
<1>5. CASE m.kind = "outcome"
  <2>1. Reduce(s, m) = [s EXCEPT !.task = "idle", !.cards = <<>>]
    BY <1>5 DEF Reduce
  <2>2. <<>> \in Seq(CardsOf(tickets))
    OBVIOUS
  <2> QED BY <2>1, <2>2 DEF Transcripts
<1> QED BY <1>1, <1>2, <1>3, <1>4, <1>5 DEF Messages

\* upto is the recursion of ReduceAll up to n.
Reads(upto, s, messages, n) ==
    upto = [i \in 0..n |-> IF i = 0 THEN s ELSE Reduce(upto[i - 1], messages[i])]

\* The recursion has a result for every sequence of messages.
LEMMA ReadsExist ==
    ASSUME NEW s, NEW messages, NEW n \in Nat
    PROVE  \E upto : Reads(upto, s, messages, n)
<1> DEFINE T == {m \in Nat : ~ \E upto : Reads(upto, s, messages, m)}
<1> SUFFICES ASSUME n \in T PROVE FALSE
  OBVIOUS
<1>1. PICK m \in T : \A k \in T : m <= k
  BY Smallest, T \in SUBSET Nat, T # {}
<1>2. m # 0
  <2> SUFFICES ASSUME m = 0 PROVE FALSE
    OBVIOUS
  <2> DEFINE one == [i \in 0..0 |-> s]
  <2>1. Reads(one, s, messages, 0)
    BY DEF Reads
  <2> QED BY <2>1
<1>3. m - 1 \in Nat /\ m - 1 \notin T
  BY <1>1, <1>2
<1>4. PICK upto : Reads(upto, s, messages, m - 1)
  BY <1>3
<1> DEFINE longer == [i \in 0..m |-> IF i < m THEN upto[i] ELSE Reduce(upto[m - 1], messages[m])]
<1>5. \A i \in 0..m : longer[i] = IF i = 0 THEN s ELSE Reduce(longer[i - 1], messages[i])
  <2> SUFFICES ASSUME NEW i \in 0..m
               PROVE  longer[i] = IF i = 0 THEN s ELSE Reduce(longer[i - 1], messages[i])
    OBVIOUS
  <2>1. CASE i = m
    BY <2>1, <1>1, <1>2
  <2>2. CASE i # m
    <3>1. i \in 0..(m - 1) /\ longer[i] = upto[i] /\ (i # 0 => longer[i - 1] = upto[i - 1])
      BY <2>2, <1>1
    <3>2. upto[i] = IF i = 0 THEN s ELSE Reduce(upto[i - 1], messages[i])
      BY <1>4, <3>1 DEF Reads
    <3> QED BY <3>1, <3>2
  <2> QED BY <2>1, <2>2
<1>6. Reads(longer, s, messages, m)
  <2> HIDE DEF longer
  <2>1. longer = [i \in 0..m |-> longer[i]]
    BY DEF longer
  <2> QED BY <1>5, <2>1 DEF Reads
<1> QED BY <1>1, <1>6

\* A frame leaves the transcript what it may be, however many messages it takes.
LEMMA AllReduced ==
    ASSUME OfQuestions, NEW s \in Transcripts
    PROVE  ReduceAll(s, inbox) \in Transcripts
<1> DEFINE C == CHOOSE upto : Reads(upto, s, inbox, Len(inbox))
<1>0. /\ Len(inbox) \in Nat
      /\ \A i \in 1..Len(inbox) : inbox[i] \in Messages(Len(tickets))
  BY DEF OfQuestions
<1>1. Reads(C, s, inbox, Len(inbox))
  BY <1>0, ReadsExist
<1>2. ReduceAll(s, inbox) = C[Len(inbox)]
  BY DEF ReduceAll, Reads
<1> HIDE DEF C
<1>3. \A i \in 0..Len(inbox) : C[i] = IF i = 0 THEN s ELSE Reduce(C[i - 1], inbox[i])
  BY <1>1 DEF Reads
<1> DEFINE T == {i \in 0..Len(inbox) : C[i] \notin Transcripts}
<1>4. ASSUME T # {} PROVE FALSE
  <2>1. PICK m \in T : \A k \in T : m <= k
    BY <1>4, <1>0, Smallest, T \in SUBSET Nat
  <2>2. m # 0
    BY <1>0, <1>3, <2>1
  <2>3. m - 1 \in 0..Len(inbox) /\ m - 1 \notin T /\ m \in 1..Len(inbox)
    BY <1>0, <2>1, <2>2
  <2>4. C[m - 1] \in Transcripts /\ C[m] = Reduce(C[m - 1], inbox[m])
    BY <1>3, <2>2, <2>3
  <2>5. C[m] \in Transcripts
    BY <1>0, <2>3, <2>4, Reduced
  <2> QED BY <2>1, <2>5
<1>5. Len(inbox) \in 0..Len(inbox)
  BY <1>0
<1> QED BY <1>2, <1>4, <1>5

-----------------------------------------------------------------------------
(* The steps *)

\* The cards, the questions and what is armed are the same; a list that is open stays one
\* beside which nothing was typed.
LEMMA LineStep ==
    ASSUME KeysInv, UNCHANGED <<tickets, cards, armed, warned, astray>>,
           inbox' \in Seq(Messages(Len(tickets))),
           typed' \in BOOLEAN, picker' # NoPicker => picker # NoPicker /\ typed' = typed
    PROVE  KeysInv'
BY DEF KeysInv, OfQuestions, Announced, KeysAreMeant

\* Messages of the questions there are leave the inbox one of such messages.
LEMMA Posted ==
    ASSUME OfQuestions, NEW more \in Seq(Messages(Len(tickets))), Post(more)
    PROVE  inbox' \in Seq(Messages(Len(tickets)))
<1>1. inbox \in Seq(Messages(Len(tickets))) /\ inbox' = inbox \o more
  BY DEF OfQuestions, Post
<1> QED BY <1>1

\* Typing closes the list.
LEMMA BecomesKeeps ==
    ASSUME NEW text, Becomes(text), typed \in BOOLEAN
    PROVE  typed' \in BOOLEAN /\ (picker' # NoPicker => picker # NoPicker /\ typed' = typed)
BY DEF Becomes, ClosePickerOnTyping

\* Typing into the line.
LEMMA TypeKeeps == ASSUME KeysInv, NEW text, Type(text) PROVE KeysInv'
BY BecomesKeeps, LineStep DEF Type, KeysInv, OfQuestions, Announced, sessionVars

\* Enter empties the line, or makes two of it.
LEMMA EnterLineKeeps == ASSUME KeysInv, EnterLine PROVE KeysInv'
<1>1. UNCHANGED <<tickets, cards, armed, warned, astray, inbox>>
  BY DEF EnterLine
<1>2. typed \in BOOLEAN /\ inbox \in Seq(Messages(Len(tickets)))
  BY DEF KeysInv, OfQuestions, Announced
<1>3. typed' \in BOOLEAN /\ (picker' # NoPicker => picker # NoPicker /\ typed' = typed)
  BY <1>2, BecomesKeeps DEF EnterLine
<1> QED BY <1>1, <1>2, <1>3, LineStep

\* A completion is typed into the line.
LEMMA EnterCompletionKeeps == ASSUME KeysInv, EnterCompletion PROVE KeysInv'
<1>1. UNCHANGED <<tickets, cards, armed, warned, astray, inbox>>
  BY DEF EnterCompletion, sessionVars
<1>2. typed \in BOOLEAN /\ inbox \in Seq(Messages(Len(tickets)))
  BY DEF KeysInv, OfQuestions, Announced
<1>3. typed' \in BOOLEAN /\ (picker' # NoPicker => picker # NoPicker /\ typed' = typed)
  BY <1>2, BecomesKeeps DEF EnterCompletion
<1> QED BY <1>1, <1>2, <1>3, LineStep

\* The arrows move within the choices of the card.
LEMMA ArrowKeeps == ASSUME KeysInv, NEW step \in {1, -1}, Arrow(step) PROVE KeysInv'
<1>0. UNCHANGED <<tickets, armed, warned, astray, inbox, typed>>
  BY DEF Arrow, sessionVars, ghosts
<1>1. CASE CardOpen
  <2> DEFINE size == Len(ApprovalChoices(tickets[Card.ticket].allow_session))
             c == [Card EXCEPT !.choice = (@ + size + step) % size]
  <2>1. cards \in Seq(CardsOf(tickets)) /\ cards # <<>> /\ Len(cards) \in Nat /\ 1 \in 1..Len(cards)
    BY <1>1 DEF CardOpen, KeysInv, OfQuestions
  <2>2. Card = cards[1] /\ Card \in CardsOf(tickets)
    BY <2>1 DEF Card
  <2>3. tickets[Card.ticket] \in Questions
    BY <2>2 DEF CardsOf, KeysInv, OfQuestions
  <2>4. size \in {2, 3} /\ Card.choice \in 0..2
    BY <2>2, <2>3, Choices DEF Questions, CardsOf
  <2>5. (Card.choice + size + step) % size \in 0..(size - 1)
    <3> HIDE DEF size
    <3>1. Card.choice + size + step \in Nat
      BY <2>4
    <3> QED BY <2>4, <3>1
  <2>6. c \in CardsOf(tickets)
    <3> DEFINE n == (Card.choice + size + step) % size
    <3>1. n \in 0..2 /\ n < size
      <4> HIDE DEF size
      <4> QED BY <2>4, <2>5
    <3>2. c = [Card EXCEPT !.choice = n]
      OBVIOUS
    <3> HIDE DEF n
    <3> QED BY <2>2, <3>1, <3>2 DEF CardsOf
  <2>7. cards' = [cards EXCEPT ![1] = c] /\ picker' = picker
    BY <1>1, <2>2 DEF Arrow
  <2> HIDE DEF c, size
  <2>8. cards' \in Seq(CardsOf(tickets))
    BY <2>1, <2>6, <2>7
  <2> QED BY <1>0, <2>7, <2>8 DEF KeysInv, OfQuestions, Announced, KeysAreMeant
<1>2. CASE ~CardOpen
  <2>1. cards' = cards /\ picker # NoPicker
    BY <1>2 DEF Arrow, ListKeys, PickerOpen
  <2> QED BY <1>0, <2>1, LineStep DEF KeysInv, OfQuestions, Announced
<1> QED BY <1>1, <1>2

\* An entry of the list is chosen by a key that nothing was typed before.
LEMMA ChooseKeeps == ASSUME KeysInv, NEW index, Choose(index) PROVE KeysInv'
<1>1. picker # NoPicker /\ picker' = NoPicker /\ ~typed
  BY DEF Choose, ListKeys, PickerOpen, KeysInv, Announced
<1>2. astray' = astray \cup (IF typed THEN {"choice"} ELSE {})
  BY DEF Choose, Stray
<1>3. astray' = astray
  BY <1>1, <1>2
<1>4. UNCHANGED <<tickets, cards, armed, warned, inbox, typed>>
  BY DEF Choose, sessionVars
<1> QED BY <1>1, <1>3, <1>4, LineStep DEF KeysInv, OfQuestions, Announced

\* The card on top, and its choices.
LEMMA OnTop ==
    ASSUME KeysInv, CardOpen
    PROVE  LET choices == ApprovalChoices(tickets[Card.ticket].allow_session)
           IN  /\ Card.ticket \in 1..Len(tickets) /\ Card.choice \in 0..(Len(choices) - 1)
               /\ tickets[Card.ticket] \in Questions /\ Len(choices) \in {2, 3}
               /\ \A i \in 1..Len(choices) :
                     choices[i] = "session" => tickets[Card.ticket].allow_session
<1>1. Card \in CardsOf(tickets) /\ tickets \in Seq(Questions)
  BY DEF CardOpen, Card, KeysInv, OfQuestions
<1>2. Card.ticket \in 1..Len(tickets) /\ tickets[Card.ticket] \in Questions
  BY <1>1 DEF CardsOf
<1>3. tickets[Card.ticket].allow_session \in BOOLEAN
  BY <1>2 DEF Questions
<1>4. Card.choice \in 0..2 /\ Card.choice < Len(ApprovalChoices(tickets[Card.ticket].allow_session))
  BY <1>1 DEF CardsOf
<1> QED BY <1>2, <1>3, <1>4, Choices

\* An answer that is among the choices is one the open question takes.
LEMMA AnswerKeeps ==
    ASSUME KeysInv, CardOpen, NEW answer, Answer(answer),
           answer = "session" => tickets[Card.ticket].allow_session
    PROVE  KeysInv'
<1> DEFINE n == Card.ticket
<1>1. n \in 1..Len(tickets) /\ tickets \in Seq(Questions) /\ tickets[n] \in Questions
  BY OnTop DEF KeysInv, OfQuestions
<1>2. astray' = astray
  BY DEF Answer, Answerable, Stray
<1>3. PICK state \in {"open", "answered", "closed"} : tickets' = [tickets EXCEPT ![n].state = state]
  BY <1>1 DEF Answer, Questions
<1>4. [tickets[n] EXCEPT !.state = state] \in Questions
  BY <1>1 DEF Questions
<1> HIDE DEF n
<1>5. /\ tickets' \in Seq(Questions) /\ Len(tickets') = Len(tickets)
      /\ \A i \in 1..Len(tickets) : tickets'[i].allow_session = tickets[i].allow_session
  BY <1>1, <1>3, <1>4 DEF Questions
<1>6. CardsOf(tickets) \subseteq CardsOf(tickets')
  BY <1>1, <1>5, CardsStay
<1>7. cards \in Seq(CardsOf(tickets'))
  BY <1>6, SeqGrows DEF KeysInv, OfQuestions
<1>8. UNCHANGED <<picker, cards, inbox, armed, typed, warned>>
  BY DEF Answer
<1> QED BY <1>2, <1>5, <1>7, <1>8 DEF KeysInv, OfQuestions, Announced, KeysAreMeant

\* Enter gives the choice that is highlighted.
LEMMA EnterCardKeeps == ASSUME KeysInv, EnterCard PROVE KeysInv'
<1> DEFINE choices == ApprovalChoices(tickets[Card.ticket].allow_session)
<1>1. CardOpen /\ Answer(choices[Card.choice + 1])
  BY DEF EnterCard
<1>2. Card.choice + 1 \in 1..Len(choices)
  BY <1>1, OnTop
<1>3. choices[Card.choice + 1] = "session" => tickets[Card.ticket].allow_session
  BY <1>1, <1>2, OnTop
<1> QED BY <1>1, <1>3, AnswerKeeps

\* A digit gives one of the choices that are shown.
LEMMA DigitCardKeeps == ASSUME KeysInv, NEW index \in Nat, DigitCard(index) PROVE KeysInv'
<1> DEFINE choices == ApprovalChoices(tickets[Card.ticket].allow_session)
<1>1. CardOpen /\ index < Len(choices) /\ Answer(choices[index + 1])
  BY DEF DigitCard
<1>2. index + 1 \in 1..Len(choices)
  BY <1>1, OnTop
<1>3. choices[index + 1] = "session" => tickets[Card.ticket].allow_session
  BY <1>1, <1>2, OnTop
<1> QED BY <1>1, <1>3, AnswerKeeps

\* Escape denies, which every question takes, or closes what is open.
LEMMA EscapeKeeps == ASSUME KeysInv, Escape PROVE KeysInv'
<1>1. CASE CardOpen /\ Answer("deny")
  BY <1>1, AnswerKeeps
<1>2. CASE ~(CardOpen /\ Answer("deny"))
  <2>1. UNCHANGED <<tickets, cards, armed, warned, astray, inbox, typed>> /\ picker' \in {NoPicker, picker}
    BY <1>2 DEF Escape, sessionVars, ghosts
  <2> QED BY <2>1, LineStep DEF KeysInv, OfQuestions, Announced
<1> QED BY <1>1, <1>2

\* Ctrl+C leaves when it was armed, and whoever armed it warned.
LEMMA InterruptKeeps == ASSUME KeysInv, Interrupt PROVE KeysInv'
<1>1. UNCHANGED <<tickets, cards, inbox, picker, typed>>
  BY DEF Interrupt, sessionVars
<1>2. CASE armed
  <2>1. warned /\ astray' = astray /\ warned' = warned
    BY <1>2 DEF Interrupt, Stray, KeysInv, Announced
  <2> QED BY <1>1, <2>1 DEF KeysInv, OfQuestions, Announced, KeysAreMeant
<1>3. CASE ~armed
  <2>1. astray' = astray /\ (armed' = armed \/ warned' = TRUE)
    BY <1>3 DEF Interrupt
  <2>2. armed' => warned'
    BY <1>3, <2>1
  <2> QED BY <1>1, <2>1, <2>2 DEF KeysInv, OfQuestions, Announced, KeysAreMeant
<1> QED BY <1>2, <1>3

\* Whatever the key is.
LEMMA KeyKeeps == ASSUME KeysInv, Key PROVE KeysInv'
<1>1. CASE Highlight
  BY <1>1, LineStep DEF Highlight, sessionVars, ghosts, KeysInv, OfQuestions, Announced
<1>2. CASE EndOfInput
  BY <1>2, LineStep DEF EndOfInput, sessionVars, ghosts, KeysInv, OfQuestions, Announced
<1>3. \A digit \in 1..3 : digit - 1 \in Nat
  OBVIOUS
<1>4. ASSUME NEW digit \in 1..3, Choose(digit - 1) \/ DigitCard(digit - 1) PROVE KeysInv'
  BY <1>3, <1>4, ChooseKeeps, DigitCardKeeps
<1> QED BY <1>1, <1>2, <1>4, TypeKeeps, EnterLineKeeps, EnterCompletionKeeps, ArrowKeeps,
           ChooseKeeps, EnterCardKeeps, EscapeKeeps, InterruptKeeps DEF Key

-----------------------------------------------------------------------------
(* What goes on meanwhile *)

\* A command posts a list, or nothing.
LEMMA CommandKeeps == ASSUME KeysInv, CommandReturns PROVE KeysInv'
<1>1. UNCHANGED <<tickets, cards, armed, warned, astray, picker, typed>>
  BY DEF CommandReturns, ListReturns, ResumeReturns, SwitchBegins, ExitReturns, NoticeReturns,
         Applied, ghosts
<1>2. inbox' \in Seq(Messages(Len(tickets)))
  <2>1. ASSUME NEW id \in {"resume", "model"}, Post(<<PickerShown(id)>>)
        PROVE  inbox' \in Seq(Messages(Len(tickets)))
    <3>1. PickerShown(id) \in Messages(Len(tickets))
      BY DEF PickerShown, Messages
    <3>2. <<PickerShown(id)>> \in Seq(Messages(Len(tickets)))
      BY <3>1
    <3> QED BY <2>1, <3>2, Posted DEF KeysInv
  <2>2. \/ UNCHANGED inbox
        \/ \E id \in {"resume", "model"} : Post(<<PickerShown(id)>>)
    BY DEF CommandReturns, ListReturns, ResumeReturns, SwitchBegins, ExitReturns, NoticeReturns
  <2> QED BY <2>1, <2>2 DEF KeysInv, OfQuestions
<1> QED BY <1>1, <1>2, LineStep DEF KeysInv, Announced

\* What a goal posts.
LEMMA GoalPosted ==
    ASSUME KeysInv, NEW kind \in {"goal_started", "outcome"}
    PROVE  <<Goal(kind)>> \in Seq(Messages(Len(tickets)))
<1>1. Goal(kind) \in Messages(Len(tickets))
  BY DEF Goal, Messages
<1> QED BY <1>1

\* A task that starts posts so.
LEMMA SubmitReturnsKeeps == ASSUME KeysInv, SubmitReturns PROVE KeysInv'
<1>1. UNCHANGED <<tickets, cards, armed, warned, astray, picker, typed>>
  BY DEF SubmitReturns, ghosts
<1>2. inbox' \in Seq(Messages(Len(tickets)))
  BY GoalPosted, Posted DEF SubmitReturns, KeysInv, OfQuestions
<1> QED BY <1>1, <1>2, LineStep DEF KeysInv, Announced

\* A task that ends posts so.
LEMMA TaskEndsKeeps == ASSUME KeysInv, TaskEnds PROVE KeysInv'
<1>1. UNCHANGED <<tickets, cards, armed, warned, astray, picker, typed>>
  BY DEF TaskEnds, ghosts, sessionVars
<1>2. inbox' \in Seq(Messages(Len(tickets)))
  BY GoalPosted, Posted DEF TaskEnds, KeysInv
<1> QED BY <1>1, <1>2, LineStep DEF KeysInv, Announced

\* The questions change, none of those there are in what it allows; what is posted is of them.
LEMMA QuestionStep ==
    ASSUME KeysInv, tickets' \in Seq(Questions), Len(tickets) <= Len(tickets'),
           \A n \in 1..Len(tickets) : tickets'[n].allow_session = tickets[n].allow_session,
           NEW more \in Seq(Messages(Len(tickets'))), Post(more),
           UNCHANGED <<picker, cards, armed, typed, warned, astray>>
    PROVE  KeysInv'
<1>1. /\ CardsOf(tickets) \subseteq CardsOf(tickets')
      /\ Messages(Len(tickets)) \subseteq Messages(Len(tickets'))
  BY CardsStay DEF KeysInv, OfQuestions
<1>2. cards \in Seq(CardsOf(tickets')) /\ inbox \in Seq(Messages(Len(tickets')))
  BY <1>1, SeqGrows DEF KeysInv, OfQuestions
<1>3. inbox' = inbox \o more
  BY DEF Post
<1>4. inbox' \in Seq(Messages(Len(tickets')))
  BY <1>2, <1>3
<1> QED BY <1>2, <1>4 DEF KeysInv, OfQuestions, Announced, KeysAreMeant

\* A question more, and its card on the way.
LEMMA QuestionOpensKeeps ==
    ASSUME KeysInv, NEW allow_session \in BOOLEAN, QuestionOpens(allow_session)
    PROVE  KeysInv'
<1> DEFINE q == [allow_session |-> allow_session, state |-> "open"]
<1>1. q \in Questions /\ tickets' = Append(tickets, q) /\ tickets \in Seq(Questions)
  BY DEF QuestionOpens, Questions, KeysInv, OfQuestions
<1> HIDE DEF q
<1>2. /\ tickets' \in Seq(Questions) /\ Len(tickets') = Len(tickets) + 1 /\ Len(tickets) \in Nat
      /\ \A n \in 1..Len(tickets) : tickets'[n] = tickets[n]
  BY <1>1
<1>3. CardShown(Len(tickets) + 1) \in Messages(Len(tickets'))
  BY <1>2 DEF CardShown, Messages
<1>4. <<CardShown(Len(tickets) + 1)>> \in Seq(Messages(Len(tickets')))
  BY <1>3
<1>5. Post(<<CardShown(Len(tickets) + 1)>>) /\ UNCHANGED <<picker, cards, armed, typed, warned, astray>>
  BY DEF QuestionOpens, ghosts
<1>6. /\ Len(tickets) <= Len(tickets')
      /\ \A n \in 1..Len(tickets) : tickets'[n].allow_session = tickets[n].allow_session
  BY <1>2
<1> DEFINE more == <<CardShown(Len(tickets) + 1)>>
<1> HIDE DEF more
<1>7. more \in Seq(Messages(Len(tickets'))) /\ Post(more)
  BY <1>4, <1>5 DEF more
<1> QED BY <1>2, <1>5, <1>6, <1>7, QuestionStep

\* A question is closed, and its card is to go.
LEMMA QuestionClosesKeeps == ASSUME KeysInv, NEW ends, QuestionCloses(ends) PROVE KeysInv'
<1> DEFINE more == <<CardClosed(Len(tickets))>> \o (IF ends THEN <<Goal("outcome")>> ELSE <<>>)
<1>1. tickets \in Seq(Questions) /\ Len(tickets) \in Nat /\ DOMAIN tickets = 1..Len(tickets)
  BY DEF KeysInv, OfQuestions
<1>2. \A n \in 1..Len(tickets) : tickets[n] \in Questions
  BY <1>1
<1>3. tickets' = [n \in 1..Len(tickets) |-> [tickets[n] EXCEPT !.state = "closed"]]
  BY <1>1 DEF QuestionCloses
<1>4. \A n \in 1..Len(tickets) : /\ tickets'[n] \in Questions
                                 /\ tickets'[n].allow_session = tickets[n].allow_session
  BY <1>2, <1>3 DEF Questions
<1>5. tickets' \in Seq(Questions) /\ Len(tickets') = Len(tickets)
  BY <1>1, <1>3, <1>4
<1>6. Len(tickets) \in 1..Len(tickets)
  BY <1>1 DEF QuestionCloses, Asking
<1>7. CardClosed(Len(tickets)) \in Messages(Len(tickets'))
  BY <1>5, <1>6 DEF CardClosed, Messages
<1>8. more \in Seq(Messages(Len(tickets')))
  <2>1. <<CardClosed(Len(tickets))>> \in Seq(Messages(Len(tickets')))
    BY <1>7
  <2>2. (IF ends THEN <<Goal("outcome")>> ELSE <<>>) \in Seq(Messages(Len(tickets')))
    BY <1>5, GoalPosted
  <2> QED BY <2>1, <2>2
<1>9. Post(more) /\ UNCHANGED <<picker, cards, armed, typed, warned, astray>>
  BY DEF QuestionCloses, ghosts
<1> HIDE DEF more
<1> QED BY <1>1, <1>4, <1>5, <1>8, <1>9, QuestionStep

\* A frame shows a list only with what was typed forgotten.
LEMMA FrameKeeps == ASSUME KeysInv, Frame PROVE KeysInv'
<1> DEFINE s == ReduceAll(Seen, inbox)
<1>1. Seen \in Transcripts
  BY DEF Seen, Transcripts, KeysInv, OfQuestions, Announced
<1>2. s \in Transcripts
  BY <1>1, AllReduced DEF KeysInv
<1>3. /\ picker' = s.picker /\ cards' = s.cards /\ typed' = s.typed /\ inbox' = <<>>
      /\ UNCHANGED <<tickets, armed, warned, astray>>
  BY DEF Frame
<1> HIDE DEF s
<1>4. cards' \in Seq(CardsOf(tickets)) /\ typed' \in BOOLEAN /\ (picker' # NoPicker => ~typed')
  BY <1>2, <1>3 DEF Transcripts
<1>5. inbox' \in Seq(Messages(Len(tickets)))
  BY <1>3
<1> QED BY <1>3, <1>4, <1>5 DEF KeysInv, OfQuestions, Announced, KeysAreMeant

-----------------------------------------------------------------------------
\* At the start nothing is shown.
LEMMA KeysInitially == KeysInit => KeysInv
<1> SUFFICES ASSUME KeysInit PROVE KeysInv
  OBVIOUS
<1>1. tickets = <<>> /\ cards = <<>> /\ inbox = <<>>
  BY DEF KeysInit
<1>2. OfQuestions
  BY <1>1 DEF OfQuestions
<1>3. Announced /\ KeysAreMeant
  BY DEF KeysInit, Announced, KeysAreMeant
<1> QED BY <1>2, <1>3 DEF KeysInv

\* Every key, and all that comes up between two of them, keeps the invariant.
LEMMA KeysKept == KeysInv /\ [KeysNext]_keyVars => KeysInv'
<1> SUFFICES ASSUME KeysInv, [KeysNext]_keyVars PROVE KeysInv'
  OBVIOUS
<1>1. CASE Resumed
  BY <1>1, LineStep DEF Resumed, ghosts, KeysInv, OfQuestions, Announced
<1>2. CASE WindowPasses
  BY <1>2 DEF WindowPasses, sessionVars, KeysInv, OfQuestions, Announced, KeysAreMeant
<1>3. CASE UNCHANGED keyVars
  BY <1>3, LineStep DEF keyVars, sessionVars, ghosts, KeysInv, OfQuestions, Announced
<1> QED BY <1>1, <1>2, <1>3, KeyKeeps, CommandKeeps, QuestionOpensKeeps, QuestionClosesKeeps,
           SubmitReturnsKeeps, TaskEndsKeeps, FrameKeeps DEF KeysNext

\* A key does what it shows, however many tasks, questions, commands and messages there
\* are: no entry of a list is chosen by what was typed into the line, no key of a card is an
\* answer its question does not take, and Ctrl+C leaves only where it was announced
\* (ui/tui/app.py: _key_bindings, _answer; ui/tui/transcript.py: reduce).
THEOREM SpecMeansKeys == KeysSpec => []KeysAreMeant
<1>1. KeysInv => KeysAreMeant
  BY DEF KeysInv
<1> QED BY <1>1, KeysInitially, KeysKept, PTL DEF KeysSpec
=============================================================================
