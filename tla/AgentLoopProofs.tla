--------------------------- MODULE AgentLoopProofs ---------------------------
(***************************************************************************)
(* Safety of the execution loop for every configuration of its limits,     *)
(* rules, hooks and judges, and for every number of tasks.                 *)
(*                                                                         *)
(* Each promise has an inductive part of its own: Phases says what a tool  *)
(* turn has at hand at each of its points, Authorization what is known of  *)
(* the check there, Budgets what is left where, Insistence how the repeat  *)
(* counter, the replans and the requests in a row are tied, Pairing where  *)
(* in a turn a call may be open, Repeats what the journal holds.           *)
(***************************************************************************)
EXTENDS AgentLoop, TLAPS

\* permissions.py, step 1: a matching deny rule decides.
LEMMA DenyDecides ==
    ASSUME NEW m, NEW rs, NEW gs, NEW c, Matching(rs, c, "deny") # {}
    PROVE  Evaluate(m, rs, gs, c).decision = "deny"
BY DEF Evaluate, Ruling

\* permissions.py, step 3: what must always be asked is never allowed.
LEMMA AlwaysAskDecides ==
    ASSUME NEW m, NEW rs, NEW gs, NEW c,
           JudgeAsk(c) \/ \E rule \in Matching(rs, c, "ask") : rule.always
    PROVE  Evaluate(m, rs, gs, c).decision # "allow"
BY DEF Evaluate, OffLimits, ResolveAsk, Granted, Ruling

\* A grant never turns a call that was allowed or asked into a denied one.
LEMMA GrantsNeverDeny ==
    ASSUME NEW m, NEW rs, NEW gs, NEW more, gs \subseteq more, NEW c,
           Evaluate(m, rs, gs, c).decision # "deny"
    PROVE  Evaluate(m, rs, more, c).decision # "deny"
BY DEF Evaluate, OffLimits, ResolveAsk, Granted, Ruling

\* The actions change request, check and the like together: these sets name the
\* points of a tool turn at which they are set.
Phases ==
    /\ pc \in InTurn => request \in Request /\ check \in Check
    /\ pc \in InTurn \ {"guard"} => prepared \in Calls
    /\ pc \in InTurn \ {"guard", "invoke"} => known

Authorization ==
    LET verdict == Evaluate(Mode, Rules, grants, check)
    IN  /\ pc \in {"classify", "approval", "human"} => check.call = prepared
        /\ pc \in {"approval", "human"} => verdict.decision = "ask"
        /\ pc = "invoke" /\ known =>
             /\ check.call = prepared
             /\ \/ consent = "verdict" /\ verdict.decision = "allow"
                \/ consent \in {"hook", "human"} /\ verdict.decision # "deny"

Budgets ==
    /\ pc \in {"goal_start", "plan", "turn"} => turn <= TurnCap
    /\ pc = "turn" => state.planned
    /\ state.stopBlocks <= MaxStopBlocks
    /\ WithinBudgets

Insistence ==
    /\ InsistenceIsBounded
    /\ state.repeat \in 0..3
    /\ state.repeat < 3 => insisted = state.repeat
    /\ pc \in {"plan", "turn", "model", "stop"} \cup InTurn =>
          insisted <= 2 + state.replans + IF pc = "plan" /\ state.planned THEN 1 ELSE 0
    /\ pc = "goal_start" => insisted = 0
    /\ pc = "plan" /\ ~state.planned => insisted = 0

Pairing ==
    /\ CallsAreAnswered
    /\ pc \in {"idle", "finish", "goal_start"} => ~state.conv.open
    /\ pc \in InTurn => state.conv.open = request.ided
-----------------------------------------------------------------------------
(* The operators. *)

LEMMA SayType ==
    ASSUME NEW conv \in Conversation
    PROVE  /\ Say(conv) \in Conversation
           /\ ~Say(conv).open
           /\ ~conv.open => Say(conv).orphans = conv.orphans
           /\ Say(conv).orphans <= conv.orphans + 1
BY DEF Conversation, Say

LEMMA SayCallType ==
    ASSUME NEW conv \in Conversation, NEW req \in Request
    PROVE  /\ SayCall(conv, req) \in Conversation
           /\ SayCall(conv, req).open = req.ided
           /\ SayCall(conv, req).orphans = Say(conv).orphans
BY DEF Conversation, Say, SayCall, Request

LEMMA SayResultType ==
    ASSUME NEW conv \in Conversation, NEW req \in Request
    PROVE  /\ SayResult(conv, req) \in Conversation
           /\ conv.open = req.ided => ~SayResult(conv, req).open
           /\ SayResult(conv, req).orphans = conv.orphans
BY DEF Conversation, SayResult, Request

LEMMA EmptyJournalType == EmptyJournal \in Journal
BY DEF EmptyJournal, Journal

\* Recording an outcome keeps the journal a journal.
LEMMA RecordType ==
    ASSUME NEW j \in Journal, NEW c \in Calls, NEW o \in Outcomes
    PROVE  Record(j, c, o) \in Journal
BY DEF Record, Journal

LEMMA FreshType ==
    ASSUME NEW conv \in Conversation, NEW last \in Calls \cup {None}
    PROVE  FreshState(conv, last) \in LoopState
BY EmptyJournalType DEF FreshState, LoopState

LEMMA CheckOfType ==
    ASSUME check \in Check, prepared \in Calls,
           NEW dom \in Domains \cup {Unresolved}, NEW tgt \in Targets \cup {Unresolved},
           NEW broken \in BOOLEAN
    PROVE  /\ CheckOf(dom, tgt, broken) \in Check
           /\ CheckOf(dom, tgt, broken).call = prepared
BY DEF CheckOf, Check

LEMMA ThreeDecisions ==
    ASSUME NEW gs, NEW c
    PROVE  Evaluate(Mode, Rules, gs, c).decision \in {"allow", "ask", "deny"}
BY DEF Evaluate, OffLimits, ResolveAsk, Granted, Ruling
-----------------------------------------------------------------------------
(* Types. *)

TypeInv == TypeOK /\ Phases

LEMMA NewConversationType == NewConversation \in Conversation
BY DEF NewConversation, Conversation

LEMMA TypeInit == Init => TypeInv
<1> SUFFICES ASSUME Init PROVE TypeInv
  OBVIOUS
<1>1. pc \in Points /\ pc \notin InTurn
  BY DEF Init, Points, InTurn
<1>2. state \in LoopState
  BY FreshType, NewConversationType DEF Init
<1>3. carried \in [conv : Conversation, last : Calls \cup {None}, refusals : Nat]
  BY NewConversationType DEF Init
<1>4. tasks \in 0..MaxTasks
  BY LimitsAssumption DEF Init
<1> QED BY <1>1, <1>2, <1>3, <1>4 DEF Init, TypeInv, TypeOK, Phases, NoResult

\* Outside a tool turn nothing is at hand.
LEMMA Cleared ==
    ASSUME ClearTurn, pc' \in Points \ InTurn
    PROVE  /\ Phases'
           /\ request' \in Request \cup {None} /\ prepared' \in Calls \cup {None}
           /\ known' \in BOOLEAN /\ check' \in Check \cup {None}
           /\ consent' \in {"none", "verdict", "hook", "human"}
BY DEF ClearTurn, Phases, InTurn, Points

\* Every action that ends the task leaves well-typed state.
LEMMA FinishType ==
    ASSUME TypeOK, NEW s \in LoopState,
           NEW status \in {"done", "blocked", "cancelled"},
           NEW reason \in {"answered", "model_stop", "turn_cap", "max_replans",
                           "consecutive_failures", "goal_hook_denied",
                           "approval_denied", "approval_hook_denied"},
           Finish(s, status, reason),
           turn' \in Nat, refusals' \in Nat, UNCHANGED <<insisted, sessionVars>>
    PROVE  TypeInv'
<1>1. state' \in LoopState
  BY SayType DEF Finish, LoopState
<1>2. pc' \in Points \ InTurn
  BY DEF Finish, Points, InTurn
<1>3. ClearTurn
  BY DEF Finish
<1> QED BY <1>1, <1>2, <1>3, Cleared DEF Finish, TypeInv, TypeOK, sessionVars

LEMMA BlockType == TypeInv /\ Block /\ pc \in InTurn => TypeInv'
<1> SUFFICES ASSUME TypeInv, Block, pc \in InTurn PROVE TypeInv'
  OBVIOUS
<1>1. state' \in LoopState
  <2>1. state.failures + 1 \in Nat /\ SayResult(state.conv, request) \in Conversation
    BY SayResultType DEF LoopState, TypeInv, TypeOK, Phases
  <2> QED BY <2>1 DEF Block, LoopState, TypeInv, TypeOK
<1>2. pc' \in Points \ InTurn
  BY DEF Block, Points, InTurn
<1>3. ClearTurn
  BY DEF Block
<1> QED BY <1>1, <1>2, <1>3, Cleared DEF Block, TypeInv, TypeOK, sessionVars, historyVars

LEMMA ApplyType ==
    ASSUME TypeInv, pc \in InTurn \ {"guard", "invoke"}, NEW c \in Check, Apply(c)
    PROVE  TypeInv'
<1> USE DEF TypeInv, Phases, TypeOK, sessionVars, historyVars
<1>1. CASE Block
  BY <1>1, BlockType
<1>2. CASE ~Block
  <2>1. /\ check' = c /\ pc' \in {"invoke", "approval"}
        /\ consent' \in {consent, "verdict"}
        /\ UNCHANGED <<turn, state, request, prepared, known, result, historyVars, sessionVars>>
    BY <1>2 DEF Apply
  <2>2. pc' \in InTurn /\ pc' \in Points
    BY <2>1 DEF InTurn, Points
  <2> QED BY <2>1, <2>2
<1> QED BY <1>1, <1>2

LEMMA TypeStep == TypeInv /\ [Next]_vars => TypeInv'
<1> SUFFICES ASSUME TypeInv, [Next]_vars PROVE TypeInv'
  OBVIOUS
<1> USE DEF TypeInv
<1> DEFINE Reasons == {"answered", "model_stop", "turn_cap", "max_replans",
                       "consecutive_failures", "goal_hook_denied",
                       "approval_denied", "approval_hook_denied"}
<1>1. CASE StartTask
  <2>1. state' \in LoopState
    BY <1>1, FreshType DEF StartTask, TypeOK
  <2>2. pc' \in Points \ InTurn /\ ClearTurn
    BY <1>1 DEF StartTask, Points, InTurn
  <2>3. tasks' \in 0..MaxTasks
    BY <1>1, LimitsAssumption DEF StartTask, TypeOK
  <2> QED BY <1>1, <2>1, <2>2, <2>3, Cleared DEF StartTask, TypeOK, NoResult
<1>2. ASSUME NEW deny \in BOOLEAN, GoalStart(deny) PROVE TypeInv'
  <2>1. [state EXCEPT !.conv = Say(@)] \in LoopState
    BY SayType DEF TypeOK, LoopState
  <2>2. [state EXCEPT !.conv = Say(@)].conv = Say(state.conv)
    BY DEF TypeOK, LoopState
  <2>3. CASE deny
    BY <1>2, <2>1, <2>3, FinishType DEF GoalStart, TypeOK, historyVars
  <2>4. CASE ~deny
    BY <1>2, <2>1, <2>4
       DEF GoalStart, TypeOK, turnVars, historyVars, sessionVars, Phases, Points, InTurn
  <2> QED BY <2>3, <2>4
<1>3. CASE MakePlan
  <2>1. state' \in LoopState
    <3> DEFINE n == IF state.planned THEN state.replans + 1 ELSE state.replans
    <3>1. n \in Nat
      BY DEF TypeOK, LoopState
    <3>2. state' = [state EXCEPT !.planned = TRUE, !.replans = n]
      BY <1>3 DEF MakePlan
    <3> HIDE DEF n
    <3> QED BY <3>1, <3>2 DEF TypeOK, LoopState
  <2> QED BY <1>3, <2>1
          DEF MakePlan, TypeOK, turnVars, historyVars, sessionVars, Phases, Points, InTurn
<1>4. CASE BeginTurn
  <2>1. turn' \in Nat
    BY <1>4 DEF BeginTurn, TypeOK
  <2>2. CASE pc' = "model"
    BY <1>4, <2>1, <2>2
       DEF BeginTurn, Finish, TypeOK, turnVars, historyVars, sessionVars, Phases, Points, InTurn
  <2>3. CASE pc' # "model"
    <3>1. PICK reason \in {"turn_cap", "max_replans", "consecutive_failures"} :
              Finish(state, "blocked", reason)
      BY <1>4, <2>3 DEF BeginTurn
    <3> QED BY <1>4, <2>1, <3>1, FinishType DEF BeginTurn, TypeOK, historyVars
  <2> QED BY <2>2, <2>3
<1>5. CASE ModelDone
  BY <1>5 DEF ModelDone, TypeOK, turnVars, historyVars, sessionVars, Phases, Points, InTurn
<1>6. ASSUME NEW status \in {"blocked", "cancelled"}, ModelStops(status) PROVE TypeInv'
  BY <1>6, FinishType DEF ModelStops, TypeOK, historyVars
<1>7. CASE ModelReplans
  BY <1>7 DEF ModelReplans, TypeOK, turnVars, historyVars, sessionVars, Phases, Points, InTurn
<1>8. ASSUME NEW req \in Request, ModelRepeats(req) PROVE TypeInv'
  <2>1. state' \in LoopState
    BY <1>8, SayCallType, SayResultType DEF ModelRepeats, TypeOK, LoopState
  <2> QED BY <1>8, <2>1
          DEF ModelRepeats, TypeOK, turnVars, sessionVars, Phases, Points, InTurn
<1>9. ASSUME NEW req \in Request, NEW ask \in BOOLEAN, ModelCalls(req, ask) PROVE TypeInv'
  <2>1. state' \in LoopState
    <3> DEFINE n == IF state.last = req.call THEN state.repeat + 1 ELSE 1
    <3>1. n \in Nat /\ SayCall(state.conv, req) \in Conversation /\ req.call \in Calls
      BY SayCallType DEF TypeOK, LoopState, Request
    <3>2. state' = [state EXCEPT !.last = req.call, !.repeat = n,
                                 !.conv = SayCall(state.conv, req)]
      BY <1>9 DEF ModelCalls
    <3> HIDE DEF n
    <3> QED BY <3>1, <3>2 DEF TypeOK, LoopState
  <2>2. check' \in Check
    BY <1>9 DEF ModelCalls, Check, Request
  <2>3. pc' = "guard" /\ request' \in Request /\ insisted' \in Nat
    BY <1>9 DEF ModelCalls, TypeOK
  <2> QED BY <1>9, <2>1, <2>2, <2>3 DEF ModelCalls, TypeOK, sessionVars, Phases, Points, InTurn
<1>10. ASSUME NEW deny \in BOOLEAN, StopHooks(deny) PROVE TypeInv'
  <2>1. CASE deny /\ state.stopBlocks < MaxStopBlocks
    <3>1. state' \in LoopState
      <4>1. state.stopBlocks + 1 \in Nat /\ Say(state.conv) \in Conversation
        BY SayType DEF TypeOK, LoopState
      <4> QED BY <1>10, <2>1, <4>1 DEF StopHooks, TypeOK, LoopState
    <3> QED BY <1>10, <2>1, <3>1
            DEF StopHooks, TypeOK, turnVars, historyVars, sessionVars, Phases, Points, InTurn
  <2>2. CASE ~(deny /\ state.stopBlocks < MaxStopBlocks)
    BY <1>10, <2>2, FinishType DEF StopHooks, TypeOK, historyVars
  <2> QED BY <2>1, <2>2
<1>11. CASE ProgressGuard
  BY <1>11, BlockType DEF ProgressGuard, InTurn
<1>12. ASSUME NEW resolved \in BOOLEAN, Prepare(resolved) PROVE TypeInv'
  <2>1. prepared' \in Calls
    BY <1>12, RequestAssumption DEF Prepare, Phases, InTurn, Request
  <2> QED BY <1>12, <2>1
          DEF Prepare, TypeOK, historyVars, sessionVars, Phases, Points, InTurn
<1>13. CASE PreToolUseDenies
  BY <1>13, BlockType DEF PreToolUseDenies, InTurn
<1>14. ASSUME NEW updated \in Calls \cup {None}, NEW ask \in BOOLEAN, PreToolUse(updated, ask)
       PROVE TypeInv'
  <2>1. prepared \in Calls /\ request \in Request /\ check \in Check /\ known
    BY <1>14 DEF PreToolUse, Phases, InTurn
  <2>2. prepared' \in Calls /\ request' \in Request
    <3>1. CASE updated = None /\ UNCHANGED <<prepared, request>>
      BY <2>1, <3>1
    <3>2. CASE /\ updated \in Rewrites[prepared]
               /\ prepared' = Normal[updated]
               /\ request' = [request EXCEPT !.call = updated]
      BY <2>1, <3>2, RequestAssumption DEF Request
    <3> QED BY <1>14, <3>1, <3>2 DEF PreToolUse
  <2>3. check' \in Check
    BY <1>14, <2>1 DEF PreToolUse, Check
  <2> QED BY <1>14, <2>1, <2>2, <2>3
          DEF PreToolUse, TypeOK, historyVars, sessionVars, Phases, Points, InTurn
<1>15. ASSUME NEW domain \in Domains \cup {Unresolved}, NEW target \in Targets \cup {Unresolved},
              NEW broken \in BOOLEAN, Authorize(domain, target, broken)
       PROVE TypeInv'
  <2>1. pc \in InTurn \ {"guard", "invoke"} /\ check \in Check /\ prepared \in Calls
    BY <1>15 DEF Authorize, Phases, InTurn
  <2>2. CheckOf(domain, target, broken) \in Check
    BY <2>1, CheckOfType
  <2>3. CASE Apply(CheckOf(domain, target, broken))
    BY <2>1, <2>2, <2>3, ApplyType
  <2>4. CASE ~Apply(CheckOf(domain, target, broken))
    BY <1>15, <2>2, <2>4
       DEF Authorize, TypeOK, historyVars, sessionVars, Phases, Points, InTurn
  <2> QED BY <2>3, <2>4
<1>16. ASSUME NEW ask \in BOOLEAN, Classify(ask) PROVE TypeInv'
  <2>1. pc \in InTurn \ {"guard", "invoke"} /\ check \in Check
    BY <1>16 DEF Classify, Phases, InTurn
  <2>2. [check EXCEPT !.classifierAsk = ask] \in Check
    BY <2>1 DEF Check
  <2> QED BY <1>16, <2>1, <2>2, ApplyType DEF Classify
<1>17. ASSUME NEW decision \in {"allow", "deny", "none"}, ApprovalHooks(decision) PROVE TypeInv'
  <2>1. CASE Refuse("approval_hook_denied")
    BY <2>1, FinishType DEF Refuse, TypeOK
  <2>2. CASE ~Refuse("approval_hook_denied")
    BY <1>17, <2>2 DEF ApprovalHooks, Approve, TypeOK, turnVars, historyVars, sessionVars, Phases,
                       Points, InTurn
  <2> QED BY <2>1, <2>2
<1>18. ASSUME NEW answer \in {"once", "session", "deny"}, Human(answer) PROVE TypeInv'
  <2>1. CASE Refuse("approval_denied")
    BY <2>1, FinishType DEF Refuse, TypeOK
  <2>2. CASE ~Refuse("approval_denied")
    <3>1. check \in Check
      BY <1>18 DEF Human, Phases, InTurn
    <3>2. GrantKey(check) \in GrantKeys
      BY <3>1, CallsAssumption DEF Check, GrantKey, GrantKeys
    <3>3. grants' \subseteq GrantKeys
      BY <1>18, <2>2, <3>2 DEF Human, TypeOK, sessionVars
    <3> QED BY <1>18, <2>2, <3>3 DEF Human, Approve, TypeOK, historyVars, sessionVars, Phases,
                                     Points, InTurn
  <2> QED BY <2>1, <2>2
<1>19. ASSUME NEW outcome \in Outcomes, Observe(outcome) PROVE TypeInv'
  <2>1. request \in Request
    BY <1>19 DEF Observe, Phases, InTurn
  <2>2. Record(state.journal, request.call, outcome) \in Journal
    BY <2>1, RecordType DEF TypeOK, LoopState, Request
  <2>3. state' \in LoopState
    <3> DEFINE n == IF outcome \in Successes THEN 0 ELSE state.failures + 1
    <3>1. n \in Nat /\ SayResult(state.conv, request) \in Conversation
      BY <2>1, SayResultType DEF TypeOK, LoopState
    <3>2. state' = [state EXCEPT !.failures = n,
                                 !.journal = Record(state.journal, request.call, outcome),
                                 !.conv = SayResult(state.conv, request)]
      BY <1>19 DEF Observe
    <3> HIDE DEF n
    <3> QED BY <2>2, <3>1, <3>2 DEF TypeOK, LoopState
  <2>4. pc' \in Points \ InTurn /\ ClearTurn
    BY <1>19 DEF Observe, Points, InTurn
  <2> QED BY <1>19, <2>3, <2>4, Cleared DEF Observe, TypeOK, historyVars, sessionVars
<1>20. CASE EndTask
  <2>1. state' \in LoopState
    BY <1>20, FreshType, NewConversationType DEF EndTask, Leave
  <2>2. pc' \in Points \ InTurn /\ ClearTurn
    BY <1>20 DEF EndTask, Leave, Points, InTurn
  <2>3. carried' \in [conv : Conversation, last : Calls \cup {None}, refusals : Nat]
    BY <1>20 DEF EndTask, TypeOK, LoopState
  <2> QED BY <1>20, <2>1, <2>2, <2>3, Cleared DEF Leave, EndTask, TypeOK
<1>21. CASE Abandon
  <2>1. state' \in LoopState
    BY <1>21, FreshType, NewConversationType DEF Abandon, Leave
  <2>2. pc' \in Points \ InTurn /\ ClearTurn
    BY <1>21 DEF Abandon, Leave, Points, InTurn
  <2> QED BY <1>21, <2>1, <2>2, Cleared DEF Abandon, Leave, TypeOK, sessionVars
<1>22. CASE SessionOver \/ UNCHANGED vars
  BY <1>22 DEF SessionOver, vars, TypeOK, Phases
<1> QED BY <1>1, <1>2, <1>3, <1>4, <1>5, <1>6, <1>7, <1>8, <1>9, <1>10, <1>11, <1>12, <1>13,
           <1>14, <1>15, <1>16, <1>17, <1>18, <1>19, <1>20, <1>21, <1>22 DEF Next, Task

\* The state of the loop keeps its type, and a tool turn has at every point what
\* the code reads there.
THEOREM TypeCorrect == Spec => [](TypeOK /\ Phases)
<1>1. Init => TypeInv
  BY TypeInit
<1>2. TypeInv /\ [Next]_vars => TypeInv'
  BY TypeStep
<1>3. TypeInv => TypeOK /\ Phases
  BY DEF TypeInv
<1> QED BY <1>1, <1>2, <1>3, PTL DEF Spec
-----------------------------------------------------------------------------
(* Authorization. *)

\* Where a call goes nowhere near its tool there is nothing to show.
LEMMA NothingToAuthorize ==
    ASSUME pc' \notin {"classify", "approval", "human", "invoke"}
    PROVE  Authorization'
BY DEF Authorization

\* What a verdict does with a call establishes the part of the point it leads to.
LEMMA ApplyAuthorizes ==
    ASSUME TypeInv, NEW c \in Check, c.call = prepared, Apply(c)
    PROVE  Authorization'
<1>1. CASE Block
  BY <1>1, NothingToAuthorize DEF Block
<1>2. CASE ~Block
  BY <1>2, ThreeDecisions DEF Apply, Authorization, sessionVars
<1> QED BY <1>1, <1>2

LEMMA AuthorizationStep == TypeInv /\ Authorization /\ [Next]_vars => Authorization'
<1> SUFFICES ASSUME TypeInv, Authorization, [Next]_vars PROVE Authorization'
  OBVIOUS
<1>1. CASE pc' \notin {"classify", "approval", "human", "invoke"}
  BY <1>1, NothingToAuthorize
<1>2. CASE UNCHANGED vars \/ SessionOver
  BY <1>2 DEF vars, SessionOver, Authorization
<1>3. CASE Next /\ ~SessionOver /\ pc' \in {"classify", "approval", "human", "invoke"}
  <2>1. \/ \E resolved \in BOOLEAN : Prepare(resolved)
        \/ \E domain \in Domains \cup {Unresolved}, target \in Targets \cup {Unresolved},
              broken \in BOOLEAN : Authorize(domain, target, broken)
        \/ \E ask \in BOOLEAN : Classify(ask)
        \/ \E decision \in {"allow", "deny", "none"} : ApprovalHooks(decision)
        \/ \E answer \in {"once", "session", "deny"} : Human(answer)
    BY <1>3 DEF Next, Task, StartTask, GoalStart, StopHooks, MakePlan, BeginTurn, ModelDone,
                ModelStops, ModelReplans, ModelCalls, ModelRepeats, ProgressGuard, Block,
                PreToolUseDenies, PreToolUse, Observe, EndTask, Abandon, Leave, Finish
  <2>2. ASSUME NEW resolved \in BOOLEAN, Prepare(resolved) PROVE Authorization'
    BY <1>3, <2>2 DEF Prepare, Authorization
  <2>3. ASSUME NEW domain \in Domains \cup {Unresolved}, NEW target \in Targets \cup {Unresolved},
               NEW broken \in BOOLEAN, Authorize(domain, target, broken)
        PROVE Authorization'
    <3>1. check \in Check /\ prepared \in Calls
      BY <2>3 DEF Authorize, TypeInv, Phases, InTurn
    <3>2. /\ CheckOf(domain, target, broken) \in Check
          /\ CheckOf(domain, target, broken).call = prepared
      BY <3>1, CheckOfType
    <3>3. CASE Apply(CheckOf(domain, target, broken))
      BY <3>2, <3>3, ApplyAuthorizes
    <3>4. CASE ~Apply(CheckOf(domain, target, broken))
      BY <2>3, <3>2, <3>4 DEF Authorize, Authorization
    <3> QED BY <3>3, <3>4
  <2>4. ASSUME NEW ask \in BOOLEAN, Classify(ask) PROVE Authorization'
    <3>1. check \in Check /\ check.call = prepared
      BY <2>4 DEF Classify, TypeInv, Phases, Authorization, InTurn
    <3>2. /\ [check EXCEPT !.classifierAsk = ask] \in Check
          /\ [check EXCEPT !.classifierAsk = ask].call = prepared
      BY <3>1 DEF Check
    <3> QED BY <2>4, <3>2, ApplyAuthorizes DEF Classify
  <2>5. ASSUME NEW decision \in {"allow", "deny", "none"}, ApprovalHooks(decision)
        PROVE Authorization'
    BY <1>3, <2>5
       DEF ApprovalHooks, Approve, Refuse, Finish, Authorization, sessionVars, turnVars
  <2>6. ASSUME NEW answer \in {"once", "session", "deny"}, Human(answer) PROVE Authorization'
    <3>1. /\ check.call = prepared
          /\ Evaluate(Mode, Rules, grants, check).decision = "ask"
          /\ grants \subseteq grants'
          /\ UNCHANGED <<check, prepared, known>> /\ pc' = "invoke" /\ consent' = "human"
      BY <1>3, <2>6 DEF Human, Approve, Refuse, Finish, Authorization, sessionVars
    <3>2. Evaluate(Mode, Rules, grants', check).decision # "deny"
      BY <3>1, GrantsNeverDeny
    <3> QED BY <3>1, <3>2 DEF Authorization
  <2> QED BY <2>1, <2>2, <2>3, <2>4, <2>5, <2>6
<1> QED BY <1>1, <1>2, <1>3

\* A call that runs was checked as it runs, no deny rule covers it, and where
\* the rules or a judge always ask, the human or an approval hook said yes to it.
THEOREM OnlyAuthorizedRuns == Spec => []RunsOnlyAuthorized
<1>1. Init => TypeInv /\ Authorization
  BY TypeInit DEF Init, Authorization
<1>2. TypeInv /\ Authorization /\ [Next]_vars => (TypeInv /\ Authorization)'
  BY TypeStep, AuthorizationStep
<1>3. TypeInv /\ Authorization => RunsOnlyAuthorized
  <2> SUFFICES ASSUME Authorization, pc = "invoke", known PROVE
        /\ check.call = prepared
        /\ Matching(Rules, check, "deny") = {}
        /\ Evaluate(Mode, Rules, grants, check).decision # "deny"
        /\ JudgeAsk(check) \/ (\E rule \in Matching(Rules, check, "ask") : rule.always)
               => consent \in {"human", "hook"}
    BY DEF RunsOnlyAuthorized
  <2>1. Evaluate(Mode, Rules, grants, check).decision # "deny" /\ check.call = prepared
    BY DEF Authorization
  <2>2. Matching(Rules, check, "deny") = {}
    BY <2>1, DenyDecides
  <2>3. JudgeAsk(check) \/ (\E rule \in Matching(Rules, check, "ask") : rule.always)
          => Evaluate(Mode, Rules, grants, check).decision # "allow"
    BY AlwaysAskDecides
  <2> QED BY <2>1, <2>2, <2>3 DEF Authorization
<1> QED BY <1>1, <1>2, <1>3, PTL DEF Spec
-----------------------------------------------------------------------------
(* Budgets. *)

\* A step that ends the task, or leaves it, is within every budget.
LEMMA BudgetsAtEnd ==
    ASSUME TypeInv, Budgets, pc' \in {"idle", "finish"},
           state'.stopBlocks \in {0, state.stopBlocks}
    PROVE  Budgets'
BY LimitsAssumption DEF Budgets, WithinBudgets, InTurn, TypeInv, TypeOK, LoopState

\* A step inside a turn uses nothing up.
LEMMA BudgetsInTurn ==
    ASSUME Budgets, pc \in InTurn \cup {"model", "stop"},
           pc' \in InTurn \cup {"model", "stop", "plan"},
           turn' = turn, state'.planned = state.planned,
           state'.replans = state.replans, state'.failures = state.failures,
           state'.stopBlocks = state.stopBlocks
    PROVE  Budgets'
BY LimitsAssumption DEF Budgets, WithinBudgets, InTurn

\* A turn that ends in a blocked or an executed call is followed by the next one.
LEMMA BudgetsAfterTurn ==
    ASSUME Budgets, pc \in InTurn, pc' = "turn", turn' = turn,
           state'.planned = state.planned, state'.stopBlocks = state.stopBlocks
    PROVE  Budgets'
BY LimitsAssumption DEF Budgets, WithinBudgets, InTurn

LEMMA BlockBudgets == TypeInv /\ Budgets /\ pc \in InTurn /\ Block => Budgets'
<1> SUFFICES ASSUME TypeInv, Budgets, pc \in InTurn, Block PROVE Budgets'
  OBVIOUS
<1>1. state'.planned = state.planned /\ state'.stopBlocks = state.stopBlocks
  BY DEF Block, TypeInv, TypeOK, LoopState
<1> QED BY <1>1, BudgetsAfterTurn DEF Block

LEMMA ApplyBudgets ==
    ASSUME TypeInv, Budgets, pc \in InTurn, NEW c, Apply(c)
    PROVE  Budgets'
<1>1. CASE Block
  BY <1>1, BlockBudgets
<1>2. CASE ~Block
  <2>1. turn' = turn /\ state' = state /\ pc' \in InTurn
    BY <1>2 DEF Apply, InTurn
  <2> QED BY <2>1, BudgetsInTurn
<1> QED BY <1>1, <1>2

LEMMA FinishBudgets ==
    ASSUME TypeInv, Budgets, NEW s \in LoopState, s.stopBlocks = state.stopBlocks,
           NEW status, NEW reason, Finish(s, status, reason)
    PROVE  Budgets'
<1>1. pc' = "finish" /\ state'.stopBlocks = state.stopBlocks
  BY DEF Finish, LoopState
<1> QED BY <1>1, BudgetsAtEnd

LEMMA BudgetsStep == TypeInv /\ Budgets /\ [Next]_vars => Budgets'
<1> SUFFICES ASSUME TypeInv, Budgets, [Next]_vars PROVE Budgets'
  OBVIOUS
<1> USE DEF TypeInv
<1>0. state \in LoopState
  BY DEF TypeOK
<1>1. CASE StartTask
  BY <1>1, LimitsAssumption DEF StartTask, FreshState, Budgets, WithinBudgets, InTurn
<1>2. ASSUME NEW deny \in BOOLEAN, GoalStart(deny) PROVE Budgets'
  <2> DEFINE s == [state EXCEPT !.conv = Say(@)]
  <2>1. s \in LoopState /\ s.stopBlocks = state.stopBlocks
    BY <1>0, SayType DEF LoopState
  <2>2. CASE deny
    <3>1. Finish(s, "blocked", "goal_hook_denied")
      BY <1>2, <2>2 DEF GoalStart
    <3> QED BY <2>1, <3>1, FinishBudgets
  <2>3. CASE ~deny
    <3>1. pc' = "plan" /\ turn' = turn /\ state' = s /\ pc = "goal_start"
      BY <1>2, <2>3 DEF GoalStart
    <3> QED BY <2>1, <3>1 DEF Budgets, WithinBudgets, InTurn
  <2> QED BY <2>2, <2>3
<1>3. CASE MakePlan
  <2>1. state'.planned /\ state'.stopBlocks = state.stopBlocks
    BY <1>0, <1>3 DEF MakePlan, LoopState
  <2> QED BY <1>3, <2>1 DEF MakePlan, Budgets, WithinBudgets, InTurn
<1>4. CASE BeginTurn
  <2>1. CASE pc' = "model"
    BY <1>0, <1>4, <2>1, LimitsAssumption
       DEF BeginTurn, Finish, TypeOK, LoopState, ReplansSpent, FailuresSpent, Budgets,
           WithinBudgets, InTurn
  <2>2. CASE pc' # "model"
    <3>1. PICK reason \in {"turn_cap", "max_replans", "consecutive_failures"} :
              Finish(state, "blocked", reason)
      BY <1>4, <2>2 DEF BeginTurn
    <3> QED BY <1>0, <3>1, FinishBudgets
  <2> QED BY <2>1, <2>2
<1>5. CASE ModelDone
  BY <1>5, BudgetsInTurn DEF ModelDone
<1>6. ASSUME NEW status \in {"blocked", "cancelled"}, ModelStops(status) PROVE Budgets'
  BY <1>0, <1>6, FinishBudgets DEF ModelStops
<1>7. CASE ModelReplans
  BY <1>7, BudgetsInTurn DEF ModelReplans
<1>8. ASSUME NEW req \in Request, ModelRepeats(req) PROVE Budgets'
  BY <1>0, <1>8, BudgetsInTurn DEF ModelRepeats, LoopState
<1>9. ASSUME NEW req \in Request, NEW ask \in BOOLEAN, ModelCalls(req, ask) PROVE Budgets'
  <2>1. pc = "model" /\ pc' \in InTurn /\ turn' = turn
    BY <1>9 DEF ModelCalls, InTurn
  <2>2. /\ state'.planned = state.planned /\ state'.replans = state.replans
        /\ state'.failures = state.failures /\ state'.stopBlocks = state.stopBlocks
    BY <1>0, <1>9 DEF ModelCalls, LoopState
  <2> QED BY <2>1, <2>2, BudgetsInTurn
<1>10. ASSUME NEW deny \in BOOLEAN, StopHooks(deny) PROVE Budgets'
  <2>1. CASE deny /\ state.stopBlocks < MaxStopBlocks
    <3>1. state'.stopBlocks = state.stopBlocks + 1 /\ state'.planned = state.planned
      BY <1>0, <1>10, <2>1 DEF StopHooks, LoopState
    <3>2. pc = "stop" /\ pc' = "turn" /\ turn' = turn
      BY <1>10, <2>1 DEF StopHooks
    <3> QED BY <1>0, <2>1, <3>1, <3>2, LimitsAssumption
            DEF Budgets, WithinBudgets, InTurn, LoopState
  <2>2. CASE ~(deny /\ state.stopBlocks < MaxStopBlocks)
    BY <1>0, <1>10, <2>2, FinishBudgets DEF StopHooks
  <2> QED BY <2>1, <2>2
<1>11. CASE ProgressGuard \/ PreToolUseDenies
  BY <1>11, BlockBudgets DEF ProgressGuard, PreToolUseDenies, InTurn
<1>12. CASE (\E resolved \in BOOLEAN : Prepare(resolved))
            \/ \E updated \in Calls \cup {None}, ask \in BOOLEAN : PreToolUse(updated, ask)
  <2>1. pc \in InTurn /\ pc' \in InTurn /\ turn' = turn /\ state' = state
    BY <1>12 DEF Prepare, PreToolUse, InTurn
  <2> QED BY <2>1, BudgetsInTurn
<1>13. ASSUME NEW domain \in Domains \cup {Unresolved}, NEW target \in Targets \cup {Unresolved},
              NEW broken \in BOOLEAN, Authorize(domain, target, broken)
       PROVE Budgets'
  <2>1. pc \in InTurn
    BY <1>13 DEF Authorize, InTurn
  <2>2. CASE Apply(CheckOf(domain, target, broken))
    BY <2>1, <2>2, ApplyBudgets
  <2>3. CASE ~Apply(CheckOf(domain, target, broken))
    <3>1. pc' \in InTurn /\ turn' = turn /\ state' = state
      BY <1>13, <2>3 DEF Authorize, InTurn
    <3> QED BY <2>1, <3>1, BudgetsInTurn
  <2> QED BY <2>2, <2>3
<1>14. ASSUME NEW ask \in BOOLEAN, Classify(ask) PROVE Budgets'
  BY <1>14, ApplyBudgets DEF Classify, InTurn
<1>15. CASE (\E decision \in {"allow", "deny", "none"} : ApprovalHooks(decision))
            \/ \E answer \in {"once", "session", "deny"} : Human(answer)
  <2>1. CASE \E reason \in {"approval_hook_denied", "approval_denied"} : Refuse(reason)
    BY <1>0, <2>1, FinishBudgets DEF Refuse
  <2>2. CASE ~\E reason \in {"approval_hook_denied", "approval_denied"} : Refuse(reason)
    <3>1. pc \in InTurn /\ pc' \in InTurn /\ turn' = turn /\ state' = state
      BY <1>15, <2>2 DEF ApprovalHooks, Human, Approve, InTurn
    <3> QED BY <3>1, BudgetsInTurn
  <2> QED BY <2>1, <2>2
<1>16. ASSUME NEW outcome \in Outcomes, Observe(outcome) PROVE Budgets'
  <2>1. state'.planned = state.planned /\ state'.stopBlocks = state.stopBlocks
    BY <1>0, <1>16 DEF Observe, LoopState
  <2> QED BY <1>16, <2>1, BudgetsAfterTurn DEF Observe, InTurn
<1>17. CASE EndTask \/ Abandon
  <2>1. pc' = "idle" /\ state'.stopBlocks = 0
    BY <1>17 DEF EndTask, Abandon, Leave, FreshState
  <2> QED BY <2>1, BudgetsAtEnd
<1>18. CASE SessionOver \/ UNCHANGED vars
  BY <1>18 DEF SessionOver, vars, Budgets, WithinBudgets
<1> QED BY <1>1, <1>2, <1>3, <1>4, <1>5, <1>6, <1>7, <1>8, <1>9, <1>10, <1>11, <1>12, <1>13,
           <1>14, <1>15, <1>16, <1>17, <1>18 DEF Next, Task

\* Whatever the model, the hooks and the human do, and in whatever order, a turn
\* never runs beyond a budget of the loop.
THEOREM BudgetsAreKept == Spec => []WithinBudgets
<1>1. Init => TypeInv /\ Budgets
  BY TypeInit, LimitsAssumption DEF Init, FreshState, Budgets, WithinBudgets, InTurn
<1>2. TypeInv /\ Budgets /\ [Next]_vars => (TypeInv /\ Budgets)'
  BY TypeStep, BudgetsStep
<1>3. Budgets => WithinBudgets
  BY DEF Budgets
<1> QED BY <1>1, <1>2, <1>3, PTL DEF Spec
-----------------------------------------------------------------------------
(* Insistence. *)

Late == {"turn", "model", "stop"} \cup InTurn

\* A step that requests nothing and plans nothing.
LEMMA InsistenceKept ==
    ASSUME TypeInv, Insistence, pc \in Late, pc' \in Late \cup {"finish"},
           insisted' = insisted, state'.repeat = state.repeat, state'.replans = state.replans
    PROVE  Insistence'
BY DEF Insistence, InsistenceIsBounded, Late, InTurn

LEMMA FinishInsistence ==
    ASSUME TypeInv, Insistence, NEW s \in LoopState, s.repeat = state.repeat,
           NEW status, NEW reason, Finish(s, status, reason), insisted' = insisted
    PROVE  Insistence'
<1>1. pc' = "finish" /\ state'.repeat = state.repeat
  BY DEF Finish, LoopState
<1> QED BY <1>1 DEF Insistence, InsistenceIsBounded, InTurn

LEMMA BlockInsistence ==
    ASSUME TypeInv, Insistence, pc \in InTurn, Block
    PROVE  Insistence'
<1>1. state'.repeat = state.repeat /\ state'.replans = state.replans
  BY DEF Block, TypeInv, TypeOK, LoopState
<1> QED BY <1>1, InsistenceKept DEF Block, Late, historyVars

LEMMA ApplyInsistence ==
    ASSUME TypeInv, Insistence, pc \in InTurn, NEW c, Apply(c)
    PROVE  Insistence'
<1>1. CASE Block
  BY <1>1, BlockInsistence
<1>2. CASE ~Block
  <2>1. insisted' = insisted /\ state' = state /\ pc' \in Late
    BY <1>2 DEF Apply, InTurn, Late, historyVars
  <2> QED BY <2>1, InsistenceKept DEF Late
<1> QED BY <1>1, <1>2

LEMMA InsistenceStep == TypeInv /\ Budgets /\ Insistence /\ [Next]_vars => Insistence'
<1> SUFFICES ASSUME TypeInv, Budgets, Insistence, [Next]_vars PROVE Insistence'
  OBVIOUS
<1> USE DEF TypeInv
<1>0. state \in LoopState /\ insisted \in Nat
  BY DEF TypeOK
<1>1. CASE StartTask
  BY <1>1, LimitsAssumption
     DEF StartTask, FreshState, Insistence, InsistenceIsBounded, InTurn
<1>2. ASSUME NEW deny \in BOOLEAN, GoalStart(deny) PROVE Insistence'
  <2> DEFINE s == [state EXCEPT !.conv = Say(@)]
  <2>1. /\ s \in LoopState /\ s.repeat = state.repeat /\ s.replans = state.replans
        /\ s.planned = state.planned
    BY <1>0, SayType DEF LoopState
  <2>2. CASE deny
    <3>1. Finish(s, "blocked", "goal_hook_denied")
      BY <1>2, <2>2 DEF GoalStart
    <3> QED BY <1>2, <2>1, <3>1, FinishInsistence DEF GoalStart, historyVars
  <2>3. CASE ~deny
    <3>1. pc' = "plan" /\ insisted' = insisted /\ state' = s /\ pc = "goal_start"
      BY <1>2, <2>3 DEF GoalStart, historyVars
    <3> HIDE DEF s
    <3> QED BY <1>0, <2>1, <3>1, LimitsAssumption
            DEF Insistence, InsistenceIsBounded, InTurn, LoopState
  <2> QED BY <2>2, <2>3
<1>3. CASE MakePlan
  <2>1. /\ state'.replans = IF state.planned THEN state.replans + 1 ELSE state.replans
        /\ state'.repeat = state.repeat
    BY <1>0, <1>3 DEF MakePlan, LoopState
  <2> QED BY <1>0, <1>3, <2>1
          DEF MakePlan, Insistence, InsistenceIsBounded, InTurn, LoopState, historyVars
<1>4. CASE BeginTurn
  <2>1. CASE pc' = "model" /\ state' = state
    BY <1>4, <2>1, InsistenceKept DEF BeginTurn, Late, historyVars
  <2>2. CASE ~(pc' = "model" /\ state' = state)
    <3>1. PICK reason \in {"turn_cap", "max_replans", "consecutive_failures"} :
              Finish(state, "blocked", reason)
      BY <1>4, <2>2 DEF BeginTurn
    <3> QED BY <1>0, <1>4, <3>1, FinishInsistence DEF BeginTurn, historyVars
  <2> QED BY <2>1, <2>2
<1>5. CASE ModelDone
  BY <1>5, InsistenceKept DEF ModelDone, Late, historyVars
<1>6. ASSUME NEW status \in {"blocked", "cancelled"}, ModelStops(status) PROVE Insistence'
  BY <1>0, <1>6, FinishInsistence DEF ModelStops, historyVars
<1>7. CASE ModelReplans
  BY <1>0, <1>7 DEF ModelReplans, Insistence, InsistenceIsBounded, Budgets, WithinBudgets,
                    InTurn, LoopState, historyVars
<1>8. ASSUME NEW req \in Request, ModelRepeats(req) PROVE Insistence'
  <2>1. /\ state'.repeat = 3 /\ state'.replans = state.replans
        /\ state'.planned = state.planned
    BY <1>0, <1>8 DEF ModelRepeats, LoopState
  <2>2. state.planned /\ state.replans < MaxReplans
    BY <1>8 DEF ModelRepeats, Budgets, WithinBudgets
  <2>3. pc = "model" /\ pc' = "plan" /\ insisted' = insisted + 1
    BY <1>8 DEF ModelRepeats
  <2> QED BY <1>0, <2>1, <2>2, <2>3, LimitsAssumption
          DEF Insistence, InsistenceIsBounded, InTurn, LoopState
<1>9. ASSUME NEW req \in Request, NEW ask \in BOOLEAN, ModelCalls(req, ask) PROVE Insistence'
  <2>1. /\ state'.repeat = IF state.last = req.call THEN state.repeat + 1 ELSE 1
        /\ state'.replans = state.replans
    BY <1>0, <1>9 DEF ModelCalls, LoopState
  <2>2. /\ pc' = "guard" /\ insisted' = IF state.last = req.call THEN insisted + 1 ELSE 1
        /\ state.last = req.call => state.repeat < 2
    BY <1>0, <1>9 DEF ModelCalls, Insists, LoopState
  <2>3. state'.repeat <= 2 /\ insisted' = state'.repeat
    BY <1>0, <2>1, <2>2 DEF Insistence, LoopState
  <2> QED BY <1>0, <2>1, <2>2, <2>3, LimitsAssumption
          DEF Insistence, InsistenceIsBounded, InTurn, LoopState
<1>10. ASSUME NEW deny \in BOOLEAN, StopHooks(deny) PROVE Insistence'
  <2>1. CASE deny /\ state.stopBlocks < MaxStopBlocks
    <3>1. state'.repeat = state.repeat /\ state'.replans = state.replans
      BY <1>0, <1>10, <2>1 DEF StopHooks, LoopState
    <3>2. pc = "stop" /\ pc' = "turn" /\ insisted' = insisted
      BY <1>10, <2>1 DEF StopHooks, historyVars
    <3> QED BY <3>1, <3>2, InsistenceKept DEF Late
  <2>2. CASE ~(deny /\ state.stopBlocks < MaxStopBlocks)
    BY <1>0, <1>10, <2>2, FinishInsistence DEF StopHooks, historyVars
  <2> QED BY <2>1, <2>2
<1>11. CASE ProgressGuard \/ PreToolUseDenies
  BY <1>11, BlockInsistence DEF ProgressGuard, PreToolUseDenies, InTurn
<1>12. CASE (\E resolved \in BOOLEAN : Prepare(resolved))
            \/ \E updated \in Calls \cup {None}, ask \in BOOLEAN : PreToolUse(updated, ask)
  <2>1. pc \in Late /\ pc' \in Late /\ insisted' = insisted /\ state' = state
    BY <1>12 DEF Prepare, PreToolUse, InTurn, Late, historyVars
  <2> QED BY <2>1, InsistenceKept
<1>13. ASSUME NEW domain \in Domains \cup {Unresolved}, NEW target \in Targets \cup {Unresolved},
              NEW broken \in BOOLEAN, Authorize(domain, target, broken)
       PROVE Insistence'
  <2>1. pc \in InTurn
    BY <1>13 DEF Authorize, InTurn
  <2>2. CASE Apply(CheckOf(domain, target, broken))
    BY <2>1, <2>2, ApplyInsistence
  <2>3. CASE ~Apply(CheckOf(domain, target, broken))
    <3>1. pc' \in Late /\ insisted' = insisted /\ state' = state
      BY <1>13, <2>3 DEF Authorize, InTurn, Late, historyVars
    <3> QED BY <2>1, <3>1, InsistenceKept DEF Late
  <2> QED BY <2>2, <2>3
<1>14. ASSUME NEW ask \in BOOLEAN, Classify(ask) PROVE Insistence'
  BY <1>14, ApplyInsistence DEF Classify, InTurn
<1>15. CASE (\E decision \in {"allow", "deny", "none"} : ApprovalHooks(decision))
            \/ \E answer \in {"once", "session", "deny"} : Human(answer)
  <2>1. CASE \E reason \in {"approval_hook_denied", "approval_denied"} : Refuse(reason)
    BY <1>0, <2>1, FinishInsistence DEF Refuse
  <2>2. CASE ~\E reason \in {"approval_hook_denied", "approval_denied"} : Refuse(reason)
    <3>1. pc \in Late /\ pc' \in Late /\ insisted' = insisted /\ state' = state
      BY <1>15, <2>2 DEF ApprovalHooks, Human, Approve, InTurn, Late, historyVars
    <3> QED BY <3>1, InsistenceKept
  <2> QED BY <2>1, <2>2
<1>16. ASSUME NEW outcome \in Outcomes, Observe(outcome) PROVE Insistence'
  <2>1. state'.repeat = state.repeat /\ state'.replans = state.replans
    BY <1>0, <1>16 DEF Observe, LoopState
  <2> QED BY <1>16, <2>1, InsistenceKept DEF Observe, InTurn, Late, historyVars
<1>17. CASE EndTask \/ Abandon
  BY <1>17, LimitsAssumption
     DEF EndTask, Abandon, Leave, FreshState, Insistence, InsistenceIsBounded, InTurn
<1>18. CASE SessionOver \/ UNCHANGED vars
  BY <1>18 DEF SessionOver, vars, Insistence, InsistenceIsBounded
<1> QED BY <1>1, <1>2, <1>3, <1>4, <1>5, <1>6, <1>7, <1>8, <1>9, <1>10, <1>11, <1>12, <1>13,
           <1>14, <1>15, <1>16, <1>17, <1>18 DEF Next, Task

\* A model that asks for one call over and over is stopped after two requests and
\* one more for every replan, however large the turn cap is.
THEOREM InsistenceEnds == Spec => []InsistenceIsBounded
<1>1. Init => TypeInv /\ Budgets /\ Insistence
  BY TypeInit, LimitsAssumption
     DEF Init, FreshState, Budgets, WithinBudgets, Insistence, InsistenceIsBounded, InTurn
<1>2. TypeInv /\ Budgets /\ Insistence /\ [Next]_vars => (TypeInv /\ Budgets /\ Insistence)'
  BY TypeStep, BudgetsStep, InsistenceStep
<1>3. Insistence => InsistenceIsBounded
  BY DEF Insistence
<1> QED BY <1>1, <1>2, <1>3, PTL DEF Spec

\* Both together: the property the runs check.
THEOREM BudgetsHeld == Spec => []BudgetsHold
<1>1. WithinBudgets /\ InsistenceIsBounded => BudgetsHold
  BY DEF BudgetsHold
<1>2. QED BY <1>1, BudgetsAreKept, InsistenceEnds, PTL
-----------------------------------------------------------------------------
(* Pairing. *)

\* A step that says nothing.
LEMMA PairingKept ==
    ASSUME TypeInv, Pairing, state'.conv = state.conv,
           pc \notin InTurn, pc' \notin InTurn, UNCHANGED <<carried, refusals>>
    PROVE  Pairing'
BY DEF Pairing, CallsAreAnswered, InTurn, TypeInv, TypeOK, Points

\* A step that goes on with the call in turn.
LEMMA PairingInTurn ==
    ASSUME TypeInv, Pairing, state'.conv = state.conv, pc \in InTurn, pc' \in InTurn,
           request'.ided = request.ided, UNCHANGED <<carried, refusals>>
    PROVE  Pairing'
BY DEF Pairing, CallsAreAnswered, InTurn

\* A call that got its result is closed.
LEMMA PairingAnswered ==
    ASSUME TypeInv, Pairing, pc \in InTurn, pc' = "turn",
           state'.conv = SayResult(state.conv, request), UNCHANGED <<carried, refusals>>
    PROVE  Pairing'
<1>1. request \in Request /\ state.conv \in Conversation /\ state.conv.open = request.ided
  BY DEF TypeInv, TypeOK, Phases, Pairing, LoopState
<1>2. ~state'.conv.open /\ state'.conv.orphans = state.conv.orphans
  BY <1>1, SayResultType
<1> QED BY <1>2 DEF Pairing, CallsAreAnswered, InTurn

\* The last message of a task leaves one call open at most.
LEMMA FinishPairing ==
    ASSUME TypeInv, Pairing, NEW s \in LoopState, NEW status, NEW reason,
           Finish(s, status, reason), carried' = carried,
           IF s.conv.open THEN s.conv.orphans < refusals' ELSE s.conv.orphans <= refusals',
           refusals' \in Nat
    PROVE  Pairing'
<1>1. s.conv \in Conversation /\ s.conv.orphans \in Nat
  BY DEF LoopState, Conversation
<1>2. state'.conv = Say(s.conv) /\ pc' = "finish"
  BY DEF Finish, LoopState
<1>3. ~state'.conv.open /\ state'.conv.orphans <= refusals'
  BY <1>1, <1>2 DEF Say
<1> QED BY <1>2, <1>3 DEF Pairing, CallsAreAnswered, InTurn

LEMMA BlockPairing ==
    ASSUME TypeInv, Pairing, pc \in InTurn, Block
    PROVE  Pairing'
<1>1. state'.conv = SayResult(state.conv, request)
  BY DEF Block, TypeInv, TypeOK, LoopState
<1> QED BY <1>1, PairingAnswered DEF Block, sessionVars, historyVars

LEMMA ApplyPairing ==
    ASSUME TypeInv, Pairing, pc \in InTurn, NEW c, Apply(c)
    PROVE  Pairing'
<1>1. CASE Block
  BY <1>1, BlockPairing
<1>2. CASE ~Block
  <2>1. state' = state /\ request' = request /\ pc' \in InTurn /\ UNCHANGED <<carried, refusals>>
    BY <1>2 DEF Apply, InTurn, historyVars, sessionVars
  <2> QED BY <2>1, PairingInTurn
<1> QED BY <1>1, <1>2

LEMMA PairingStep == TypeInv /\ Pairing /\ [Next]_vars => Pairing'
<1> SUFFICES ASSUME TypeInv, Pairing, [Next]_vars PROVE Pairing'
  OBVIOUS
<1> USE DEF TypeInv
<1>0. state \in LoopState /\ state.conv \in Conversation /\ refusals \in Nat
  BY DEF TypeOK, LoopState
<1>1. CASE StartTask
  BY <1>1 DEF StartTask, FreshState, Pairing, CallsAreAnswered, InTurn
<1>2. ASSUME NEW deny \in BOOLEAN, GoalStart(deny) PROVE Pairing'
  <2> DEFINE s == [state EXCEPT !.conv = Say(@)]
  <2>1. s \in LoopState /\ s.conv = Say(state.conv)
    BY <1>0, SayType DEF LoopState
  <2>2. ~s.conv.open /\ s.conv.orphans <= refusals
    BY <1>0, <1>2, <2>1, SayType DEF GoalStart, Pairing, CallsAreAnswered
  <2>3. CASE deny
    <3>1. Finish(s, "blocked", "goal_hook_denied") /\ UNCHANGED <<carried, refusals>>
      BY <1>2, <2>3 DEF GoalStart, historyVars, sessionVars
    <3> QED BY <1>0, <2>1, <2>2, <3>1, FinishPairing
  <2>4. CASE ~deny
    <3>1. pc' = "plan" /\ state' = s /\ UNCHANGED <<carried, refusals>>
      BY <1>2, <2>4 DEF GoalStart, historyVars, sessionVars
    <3> HIDE DEF s
    <3> QED BY <2>2, <3>1 DEF Pairing, CallsAreAnswered, InTurn
  <2> QED BY <2>3, <2>4
<1>3. CASE MakePlan
  <2>1. state'.conv = state.conv
    BY <1>0, <1>3 DEF MakePlan, LoopState
  <2> QED BY <1>3, <2>1, PairingKept DEF MakePlan, InTurn, historyVars, sessionVars
<1>4. CASE BeginTurn
  <2>1. CASE pc' = "model" /\ state' = state
    BY <1>4, <2>1, PairingKept DEF BeginTurn, InTurn, historyVars, sessionVars
  <2>2. CASE ~(pc' = "model" /\ state' = state)
    <3>1. PICK reason \in {"turn_cap", "max_replans", "consecutive_failures"} :
              Finish(state, "blocked", reason)
      BY <1>4, <2>2 DEF BeginTurn
    <3> QED BY <1>0, <1>4, <3>1, FinishPairing
            DEF BeginTurn, Pairing, CallsAreAnswered, historyVars, sessionVars
  <2> QED BY <2>1, <2>2
<1>5. CASE ModelDone \/ ModelReplans
  BY <1>5, PairingKept DEF ModelDone, ModelReplans, InTurn, historyVars, sessionVars
<1>6. ASSUME NEW status \in {"blocked", "cancelled"}, ModelStops(status) PROVE Pairing'
  BY <1>0, <1>6, FinishPairing
     DEF ModelStops, Pairing, CallsAreAnswered, historyVars, sessionVars
<1>7. ASSUME NEW req \in Request, ModelRepeats(req) PROVE Pairing'
  <2> DEFINE asked == SayCall(state.conv, req)
  <2>1. /\ asked \in Conversation /\ asked.open = req.ided
        /\ asked.orphans = state.conv.orphans
    BY <1>0, <1>7, SayType, SayCallType DEF ModelRepeats, Pairing, CallsAreAnswered
  <2>2. state'.conv = SayResult(asked, req)
    BY <1>0, <1>7 DEF ModelRepeats, LoopState
  <2>3. ~state'.conv.open /\ state'.conv.orphans = state.conv.orphans
    BY <2>1, <2>2, SayResultType
  <2> QED BY <1>7, <2>3 DEF ModelRepeats, Pairing, CallsAreAnswered, InTurn, sessionVars
<1>8. ASSUME NEW req \in Request, NEW ask \in BOOLEAN, ModelCalls(req, ask) PROVE Pairing'
  <2>1. state'.conv = SayCall(state.conv, req)
    BY <1>0, <1>8 DEF ModelCalls, LoopState
  <2>2. state'.conv.open = req.ided /\ state'.conv.orphans = state.conv.orphans
    BY <1>0, <1>8, <2>1, SayType, SayCallType DEF ModelCalls, Pairing, CallsAreAnswered
  <2> QED BY <1>8, <2>2 DEF ModelCalls, Pairing, CallsAreAnswered, InTurn, sessionVars
<1>9. ASSUME NEW deny \in BOOLEAN, StopHooks(deny) PROVE Pairing'
  <2>1. CASE deny /\ state.stopBlocks < MaxStopBlocks
    <3>1. state'.conv = Say(state.conv)
      BY <1>0, <1>9, <2>1 DEF StopHooks, LoopState
    <3>2. ~state'.conv.open /\ state'.conv.orphans = state.conv.orphans
      BY <1>0, <1>9, <3>1, SayType DEF StopHooks, Pairing, CallsAreAnswered
    <3> QED BY <1>9, <2>1, <3>2
            DEF StopHooks, Pairing, CallsAreAnswered, InTurn, historyVars, sessionVars
  <2>2. CASE ~(deny /\ state.stopBlocks < MaxStopBlocks)
    BY <1>0, <1>9, <2>2, FinishPairing
       DEF StopHooks, Pairing, CallsAreAnswered, historyVars, sessionVars
  <2> QED BY <2>1, <2>2
<1>10. CASE ProgressGuard \/ PreToolUseDenies
  BY <1>10, BlockPairing DEF ProgressGuard, PreToolUseDenies, InTurn
<1>11. ASSUME NEW resolved \in BOOLEAN, Prepare(resolved) PROVE Pairing'
  BY <1>11, PairingInTurn DEF Prepare, InTurn, historyVars, sessionVars
<1>12. ASSUME NEW updated \in Calls \cup {None}, NEW ask \in BOOLEAN, PreToolUse(updated, ask)
       PROVE Pairing'
  <2>1. request \in Request
    BY <1>12 DEF PreToolUse, Phases, InTurn
  <2>2. request'.ided = request.ided
    BY <1>12, <2>1 DEF PreToolUse, Request
  <2> QED BY <1>12, <2>2, PairingInTurn DEF PreToolUse, InTurn, historyVars, sessionVars
<1>13. ASSUME NEW domain \in Domains \cup {Unresolved}, NEW target \in Targets \cup {Unresolved},
              NEW broken \in BOOLEAN, Authorize(domain, target, broken)
       PROVE Pairing'
  <2>1. pc \in InTurn
    BY <1>13 DEF Authorize, InTurn
  <2>2. CASE Apply(CheckOf(domain, target, broken))
    BY <2>1, <2>2, ApplyPairing
  <2>3. CASE ~Apply(CheckOf(domain, target, broken))
    <3>1. /\ pc' \in InTurn /\ state' = state /\ request' = request
          /\ UNCHANGED <<carried, refusals>>
      BY <1>13, <2>3 DEF Authorize, InTurn, historyVars, sessionVars
    <3> QED BY <2>1, <3>1, PairingInTurn
  <2> QED BY <2>2, <2>3
<1>14. ASSUME NEW ask \in BOOLEAN, Classify(ask) PROVE Pairing'
  BY <1>14, ApplyPairing DEF Classify, InTurn
<1>15. CASE (\E decision \in {"allow", "deny", "none"} : ApprovalHooks(decision))
            \/ \E answer \in {"once", "session", "deny"} : Human(answer)
  <2>0. pc \in InTurn
    BY <1>15 DEF ApprovalHooks, Human, InTurn
  <2>1. CASE \E reason \in {"approval_hook_denied", "approval_denied"} : Refuse(reason)
    <3>1. state.conv.orphans <= refusals /\ state.conv.orphans \in Nat
      BY <1>0 DEF Pairing, CallsAreAnswered, Conversation
    <3>2. state.conv.orphans < refusals + 1 /\ refusals + 1 \in Nat
      BY <1>0, <3>1
    <3>3. PICK reason \in {"approval_hook_denied", "approval_denied"} : Refuse(reason)
      BY <2>1
    <3>4. /\ Finish(state, "blocked", reason) /\ refusals' = refusals + 1
          /\ carried' = carried
      BY <3>3 DEF Refuse, sessionVars
    <3> QED BY <1>0, <3>1, <3>2, <3>4, FinishPairing
  <2>2. CASE ~\E reason \in {"approval_hook_denied", "approval_denied"} : Refuse(reason)
    <3>1. /\ pc' \in InTurn /\ state' = state /\ request' = request
          /\ UNCHANGED <<carried, refusals>>
      BY <1>15, <2>2 DEF ApprovalHooks, Human, Approve, InTurn, turnVars, historyVars, sessionVars
    <3> QED BY <2>0, <3>1, PairingInTurn
  <2> QED BY <2>1, <2>2
<1>16. ASSUME NEW outcome \in Outcomes, Observe(outcome) PROVE Pairing'
  <2>1. state'.conv = SayResult(state.conv, request)
    BY <1>0, <1>16 DEF Observe, LoopState
  <2> QED BY <1>16, <2>1, PairingAnswered DEF Observe, InTurn, historyVars, sessionVars
<1>17. CASE EndTask \/ Abandon
  <2>1. pc' = "idle" /\ state'.conv = NewConversation /\ refusals' = 0
    BY <1>17 DEF EndTask, Abandon, Leave, FreshState
  <2>2. /\ ~carried'.conv.open
        /\ carried'.conv.orphans <= carried'.refusals
    BY <1>17 DEF EndTask, Abandon, Pairing, CallsAreAnswered, sessionVars
  <2> QED BY <2>1, <2>2 DEF Pairing, CallsAreAnswered, NewConversation, InTurn
<1>18. CASE SessionOver \/ UNCHANGED vars
  BY <1>18 DEF SessionOver, vars, Pairing, CallsAreAnswered
<1> QED BY <1>1, <1>2, <1>3, <1>4, <1>5, <1>6, <1>7, <1>8, <1>9, <1>10, <1>11, <1>12, <1>13,
           <1>14, <1>15, <1>16, <1>17, <1>18 DEF Next, Task

\* The history a session carries from task to task has no open call, and no call
\* without a result beyond the approvals that were refused.
THEOREM HistoryPairsUp == Spec => []CallsAreAnswered
<1>1. Init => TypeInv /\ Pairing
  BY TypeInit DEF Init, FreshState, NewConversation, Pairing, CallsAreAnswered, InTurn
<1>2. TypeInv /\ Pairing /\ [Next]_vars => (TypeInv /\ Pairing)'
  BY TypeStep, PairingStep
<1>3. Pairing => CallsAreAnswered
  BY DEF Pairing
<1> QED BY <1>1, <1>2, <1>3, PTL DEF Spec
-----------------------------------------------------------------------------
(* Repeats. *)

NoRewrites == \A c \in Calls : Rewrites[c] = {}

\* A call that returned one outcome as often as allowed returned it last, so the
\* guard sees it, and a call past the guard has not come that far.
Repeats ==
    /\ IdenticalOutcomesBounded
    /\ \A c \in Calls, o \in Outcomes :
          state.journal.count[c][o] = MaxIneffective => state.journal.latest[c] = o
    /\ pc \in InTurn \ {"guard"} => ~Pointless

\* A step that records nothing and leaves the request alone, or has none.
LEMMA RepeatsKept ==
    ASSUME Repeats, state'.journal = state.journal,
           \/ pc' \notin InTurn \ {"guard"}
           \/ pc \in InTurn \ {"guard"} /\ request' = request
    PROVE  Repeats'
BY DEF Repeats, IdenticalOutcomesBounded, Pointless

LEMMA BlockRepeats == TypeInv /\ Repeats /\ Block => Repeats'
<1> SUFFICES ASSUME TypeInv, Repeats, Block PROVE Repeats'
  OBVIOUS
<1>1. state'.journal = state.journal
  BY DEF Block, TypeInv, TypeOK, LoopState
<1>2. pc' \notin InTurn \ {"guard"}
  BY DEF Block, InTurn
<1> QED BY <1>1, <1>2, RepeatsKept

LEMMA ApplyRepeats ==
    ASSUME TypeInv, Repeats, pc \in InTurn \ {"guard"}, NEW c, Apply(c)
    PROVE  Repeats'
<1>1. CASE Block
  BY <1>1, BlockRepeats
<1>2. CASE ~Block
  BY <1>2, RepeatsKept DEF Apply
<1> QED BY <1>1, <1>2

\* The journal after a call that the guard let through.
LEMMA RecordRepeats ==
    ASSUME NEW j \in Journal, NEW call \in Calls, NEW outcome \in Outcomes,
           \A c \in Calls, o \in Outcomes : j.count[c][o] <= MaxIneffective,
           \A c \in Calls, o \in Outcomes : j.count[c][o] = MaxIneffective => j.latest[c] = o,
           IdenticalOutcomes(j, call) < MaxIneffective
    PROVE  LET r == Record(j, call, outcome)
           IN  \A c \in Calls, o \in Outcomes :
                   /\ r.count[c][o] <= MaxIneffective
                   /\ r.count[c][o] = MaxIneffective => r.latest[c] = o
<1> DEFINE r == Record(j, call, outcome)
<1>1. \A c \in Calls, o \in Outcomes : j.count[c][o] \in Nat
  BY DEF Journal
<1>2. \A o \in Outcomes : j.count[call][o] < MaxIneffective
  <2> SUFFICES ASSUME NEW o \in Outcomes, j.count[call][o] = MaxIneffective PROVE FALSE
    BY <1>1, LimitsAssumption
  <2>1. j.latest[call] = o /\ o # None
    BY NoneAssumption
  <2> QED BY <1>1, <2>1, LimitsAssumption DEF IdenticalOutcomes
<1>3. \A c \in Calls, o \in Outcomes :
         /\ r.count[c][o] = IF c = call /\ o = outcome THEN j.count[c][o] + 1 ELSE j.count[c][o]
         /\ r.latest[c] = IF c = call THEN outcome ELSE j.latest[c]
  BY DEF Record, Journal
<1> HIDE DEF r
<1>4. \A c \in Calls, o \in Outcomes :
         /\ r.count[c][o] <= MaxIneffective
         /\ r.count[c][o] = MaxIneffective => r.latest[c] = o
  <2> TAKE c \in Calls, o \in Outcomes
  <2>1. CASE c = call /\ o = outcome
    BY <1>1, <1>2, <1>3, <2>1, LimitsAssumption
  <2>2. CASE c = call /\ o # outcome
    BY <1>1, <1>2, <1>3, <2>2, LimitsAssumption
  <2>3. CASE c # call
    BY <1>3, <2>3
  <2> QED BY <2>1, <2>2, <2>3
<1> QED BY <1>4 DEF r

LEMMA RepeatsStep ==
    ASSUME NoRewrites
    PROVE  TypeInv /\ Repeats /\ [Next]_vars => Repeats'
<1> SUFFICES ASSUME TypeInv, Repeats, [Next]_vars PROVE Repeats'
  OBVIOUS
<1>0. state \in LoopState
  BY DEF TypeInv, TypeOK
<1>1. CASE StartTask \/ EndTask \/ Abandon
  <2>1. state'.journal = EmptyJournal /\ pc' \notin InTurn
    BY <1>1 DEF StartTask, EndTask, Abandon, Leave, FreshState, InTurn
  <2> QED BY <2>1, LimitsAssumption, NoneAssumption
          DEF Repeats, IdenticalOutcomesBounded, EmptyJournal
<1>2. ASSUME NEW outcome \in Outcomes, Observe(outcome) PROVE Repeats'
  <2>1. request \in Request /\ request.call \in Calls /\ state.journal \in Journal
    BY <1>0, <1>2 DEF Observe, TypeInv, Phases, InTurn, Request, LoopState
  <2>2. state'.journal = Record(state.journal, request.call, outcome)
    BY <1>0, <1>2 DEF Observe, LoopState
  <2>3. IdenticalOutcomes(state.journal, request.call) < MaxIneffective
    <3>1. IdenticalOutcomes(state.journal, request.call) \in Nat
      BY <2>1 DEF IdenticalOutcomes, Journal
    <3>2. ~Pointless
      BY <1>2 DEF Observe, Repeats, InTurn
    <3> QED BY <3>1, <3>2, LimitsAssumption DEF Pointless
  <2>4. \A c \in Calls, o \in Outcomes :
           /\ state.journal.count[c][o] <= MaxIneffective
           /\ state.journal.count[c][o] = MaxIneffective => state.journal.latest[c] = o
    BY DEF Repeats, IdenticalOutcomesBounded
  <2>5. \A c \in Calls, o \in Outcomes :
           /\ state'.journal.count[c][o] <= MaxIneffective
           /\ state'.journal.count[c][o] = MaxIneffective => state'.journal.latest[c] = o
    BY <2>1, <2>2, <2>3, <2>4, RecordRepeats
  <2>6. pc' \notin InTurn
    BY <1>2 DEF Observe, InTurn
  <2> QED BY <2>5, <2>6 DEF Repeats, IdenticalOutcomesBounded
<1>3. ASSUME NEW deny \in BOOLEAN, GoalStart(deny) \/ StopHooks(deny) PROVE Repeats'
  <2>1. [state EXCEPT !.conv = Say(@)] \in LoopState
    BY <1>0, SayType DEF LoopState
  <2>2. state'.journal = state.journal /\ pc' \notin InTurn
    BY <1>0, <1>3, <2>1 DEF GoalStart, StopHooks, Finish, LoopState, InTurn
  <2> QED BY <2>2, RepeatsKept
<1>4. CASE MakePlan \/ BeginTurn \/ ModelDone \/ ModelReplans
  <2>1. state'.journal = state.journal /\ pc' \notin InTurn
    BY <1>0, <1>4 DEF MakePlan, BeginTurn, ModelDone, ModelReplans, Finish, LoopState, InTurn
  <2> QED BY <2>1, RepeatsKept
<1>5. ASSUME NEW status \in {"blocked", "cancelled"}, ModelStops(status) PROVE Repeats'
  BY <1>0, <1>5, RepeatsKept DEF ModelStops, Finish, LoopState, InTurn
<1>6. ASSUME NEW req \in Request, NEW ask \in BOOLEAN,
             ModelCalls(req, ask) \/ ModelRepeats(req)
      PROVE  Repeats'
  <2>1. state'.journal = state.journal /\ pc' \notin InTurn \ {"guard"}
    BY <1>0, <1>6 DEF ModelCalls, ModelRepeats, LoopState, InTurn
  <2> QED BY <2>1, RepeatsKept
<1>7. CASE ProgressGuard \/ PreToolUseDenies
  BY <1>7, BlockRepeats DEF ProgressGuard, PreToolUseDenies
<1>8. ASSUME NEW resolved \in BOOLEAN, Prepare(resolved) PROVE Repeats'
  BY <1>8 DEF Prepare, Repeats, IdenticalOutcomesBounded, Pointless
<1>9. ASSUME NEW updated \in Calls \cup {None}, NEW ask \in BOOLEAN, PreToolUse(updated, ask)
      PROVE Repeats'
  <2>1. prepared \in Calls
    BY <1>9 DEF PreToolUse, TypeInv, Phases, InTurn
  <2>2. request' = request
    BY <1>9, <2>1 DEF PreToolUse, NoRewrites
  <2> QED BY <1>9, <2>2, RepeatsKept DEF PreToolUse, InTurn
<1>10. ASSUME NEW domain \in Domains \cup {Unresolved}, NEW target \in Targets \cup {Unresolved},
              NEW broken \in BOOLEAN, Authorize(domain, target, broken)
       PROVE Repeats'
  <2>1. pc \in InTurn \ {"guard"}
    BY <1>10 DEF Authorize, InTurn
  <2>2. CASE Apply(CheckOf(domain, target, broken))
    BY <2>1, <2>2, ApplyRepeats
  <2>3. CASE ~Apply(CheckOf(domain, target, broken))
    BY <1>10, <2>1, <2>3, RepeatsKept DEF Authorize
  <2> QED BY <2>2, <2>3
<1>11. ASSUME NEW ask \in BOOLEAN, Classify(ask) PROVE Repeats'
  BY <1>11, ApplyRepeats DEF Classify, InTurn
<1>12. CASE (\E decision \in {"allow", "deny", "none"} : ApprovalHooks(decision))
            \/ \E answer \in {"once", "session", "deny"} : Human(answer)
  <2>1. CASE \E reason \in {"approval_hook_denied", "approval_denied"} : Refuse(reason)
    BY <1>0, <2>1, RepeatsKept DEF Refuse, Finish, LoopState, InTurn
  <2>2. CASE ~\E reason \in {"approval_hook_denied", "approval_denied"} : Refuse(reason)
    <3>1. pc \in InTurn \ {"guard"} /\ state' = state /\ request' = request
      BY <1>12, <2>2 DEF ApprovalHooks, Human, Approve, InTurn, turnVars
    <3> QED BY <3>1, RepeatsKept
  <2> QED BY <2>1, <2>2
<1>13. CASE SessionOver \/ UNCHANGED vars
  BY <1>13 DEF SessionOver, vars, Repeats, IdenticalOutcomesBounded, Pointless
<1> QED BY <1>1, <1>2, <1>3, <1>4, <1>5, <1>6, <1>7, <1>8, <1>9, <1>10, <1>11, <1>12, <1>13
        DEF Next, Task

\* Where no hook replaces a call, no call returns one outcome more often than the
\* progress guard allows.  (Where one does, it can: the run `rewritten'.)
THEOREM PointlessCallsAreBlocked == NoRewrites => (Spec => []IdenticalOutcomesBounded)
<1> SUFFICES ASSUME NoRewrites PROVE Spec => []IdenticalOutcomesBounded
  OBVIOUS
<1>1. Init => TypeInv /\ Repeats
  <2> SUFFICES ASSUME Init PROVE Repeats
    BY TypeInit
  <2>1. state.journal = EmptyJournal /\ pc \notin InTurn
    BY DEF Init, FreshState, InTurn
  <2> QED BY <2>1, LimitsAssumption, NoneAssumption
          DEF Repeats, IdenticalOutcomesBounded, EmptyJournal
<1>2. TypeInv /\ Repeats /\ [Next]_vars => (TypeInv /\ Repeats)'
  BY TypeStep, RepeatsStep
<1>3. Repeats => IdenticalOutcomesBounded
  BY DEF Repeats
<1> QED BY <1>1, <1>2, <1>3, PTL DEF Spec
=============================================================================
