----------------------------- MODULE Evaluation -----------------------------
(***************************************************************************)
(* What a batch makes of the traces of its sessions (agent_loop/failures,  *)
(* graders, batch_compare): a kind per task and per scenario, a grade, and *)
(* the verdict between two batches. Pure; a trace is a sequence of events  *)
(* [task, type, ...], without those no rule reads.                         *)
(***************************************************************************)
EXTENDS Naturals, Sequences, FiniteSets, SequencesExt

InfraKinds == {"provider_error", "timeout"}
NeutralKinds == InfraKinds \cup {"passed", "ungraded"}
ApprovalReasons == {"approval_denied", "approval_hook_denied", "goal_hook_denied"}
GuardReasons == {"turn_cap", "max_replans", "consecutive_failures", "no_plan_advance",
                 "no_action", "invalid_decision"}

ErrorKind(error) ==
    CASE error = "ModelProviderError" -> "provider_error"
      [] error = "TimeoutError" -> "timeout"
      [] OTHER -> "error"

\* The events of each task, in the order the tasks started.
SplitByTask(trace) ==
    LET first == SelectSeq([i \in DOMAIN trace |-> i],
                           LAMBDA i : \A j \in 1..(i - 1) : trace[j].task # trace[i].task)
    IN  [k \in DOMAIN first |-> SelectSeq(trace, LAMBDA e : e.task = trace[first[k]].task)]

\* Mutated: a judge's error outlives the decision it led to.
CountDeniesSticky(events) ==
    FoldLeft(LAMBDA acc, e :
        CASE e.type = "judged" -> [acc EXCEPT !.error = e.error]
          [] e.type = "decided" ->
                [acc EXCEPT !.denies = @ + IF e.decision = "deny" THEN 1 ELSE 0,
                            !.infra = IF e.decision = "deny" /\ ErrorKind(acc.error) \in InfraKinds
                                      THEN Append(@, ErrorKind(acc.error)) ELSE @]
          [] OTHER -> acc,
        [denies |-> 0, infra |-> <<>>, error |-> ""], events)

\* The denies of a task, and the kinds of those the outage of a judge caused: such a
\* deny follows the judge's answer, and the next decision is another call's.
CountDenies(events) ==
    FoldLeft(LAMBDA acc, e :
        CASE e.type = "judged" -> [acc EXCEPT !.error = e.error]
          [] e.type = "decided" ->
                [denies |-> acc.denies + IF e.decision = "deny" THEN 1 ELSE 0,
                 infra  |-> IF e.decision = "deny" /\ ErrorKind(acc.error) \in InfraKinds
                            THEN Append(acc.infra, ErrorKind(acc.error)) ELSE acc.infra,
                 error  |-> ""]
          [] OTHER -> acc,
        [denies |-> 0, infra |-> <<>>, error |-> ""], events)

\* The kind of a task that ended without raising.
EndedKind(status, reason, denies) ==
    IF reason \in ApprovalReasons THEN "permission_denied"
    ELSE IF status = "completed" THEN "passed"
    ELSE IF denies > 0 THEN "permission_denied"
    ELSE IF reason \in GuardReasons THEN "guard_limit"
    ELSE IF reason \in {"", "model_stop"} THEN "agent_stopped"
    ELSE "error"

\* The first terminal event decides; an outage that alone denied a call excuses it.
ClassifyTask(events) ==
    LET ends   == SelectSeq(events, LAMBDA e : e.type = "ended")
        count  == CountDenies(events)
        kind   == EndedKind(ends[1].status, ends[1].reason, count.denies - Len(count.infra))
    IN  IF ends = <<>> THEN "error"
        ELSE IF ends[1].status = "failed" THEN ErrorKind(ends[1].error)
        ELSE IF count.infra # <<>> /\ kind \notin {"passed", "permission_denied"}
        THEN Last(count.infra)
        ELSE kind

ClassifyTasks(trace) == [k \in DOMAIN SplitByTask(trace) |-> ClassifyTask(SplitByTask(trace)[k])]

\* The first task that did not pass, else how the scenario raised, else its grade
\* (error is "" when it did not raise).
ClassifyScenario(kinds, grade, error) ==
    LET failed == SelectSeq(kinds, LAMBDA k : k # "passed")
    IN  IF failed # <<>> THEN failed[1]
        ELSE IF error # "" THEN ErrorKind(error)
        ELSE IF kinds = <<>> THEN "error"
        ELSE CASE grade = "failed" -> "grade_failed"
               [] grade = "passed" -> "passed"
               [] OTHER -> "ungraded"

-----------------------------------------------------------------------------
Graders == {"contains", "not_contains", "regex", "items", "min_items", "max_items",
            "numbers_at_most", "numbers_at_least"}

\* The status of each key of expected for an answer that meets the keys in met; a key
\* without a grader is reported and never fails.
GradeAnswer(expected, met) ==
    [key \in expected |-> IF key \notin Graders THEN "ungraded"
                          ELSE IF key \in met THEN "passed" ELSE "failed"]

GradeStatus(checks) ==
    IF \E key \in DOMAIN checks : checks[key] = "failed" THEN "failed"
    ELSE IF \A key \in DOMAIN checks : checks[key] = "ungraded" THEN "ungraded"
    ELSE "passed"

\* Only an answer whose tasks are all done is graded. Typo: expected is not a mapping.
Grade(expected, typo, statuses, met) ==
    IF typo \/ \E i \in DOMAIN statuses : statuses[i] # "done" THEN "failed"
    ELSE GradeStatus(GradeAnswer(expected, met))

-----------------------------------------------------------------------------
KindChange(before, after) ==
    IF after \in InfraKinds THEN "inconclusive"
    ELSE IF before = "passed" /\ after \notin NeutralKinds THEN "regression"
    ELSE IF before \notin NeutralKinds /\ after = "passed" THEN "fixed"
    ELSE "changed"

\* The finding on one scenario of two runs; "none" when its kind is the same (the
\* metrics of two passes are compared too, and gate nothing by default).
Finding(before, after) == IF before = after THEN "none" ELSE KindChange(before, after)
=============================================================================
