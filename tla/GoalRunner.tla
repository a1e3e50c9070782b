----------------------------- MODULE GoalRunner -----------------------------
(***************************************************************************)
(* The life of one goal (src/src/agent_loop/goals.py): GoalRunner.run      *)
(* starts the agent's task and, where the stall budget is shorter than the *)
(* total one, a watchdog beside it, and waits for the first of: the task   *)
(* is done, the watchdog fires, the total time is up, somebody cancels.    *)
(* Then it stops what still runs and reports one terminal event.           *)
(*                                                                         *)
(* The task is the agent loop as its runner sees it: it emits events or is *)
(* silent, and it may wait for a human's approval, which the approval      *)
(* broker bounds (src/src/harness/approvals.py).  A cancelled asyncio task *)
(* unwinds in its own time.                                                *)
(*                                                                         *)
(* Time is counted in units, and passes only while no timer is due and     *)
(* nobody is ready to run: the event loop is never blocked for a unit.     *)
(***************************************************************************)
EXTENDS Naturals, Sequences

CONSTANTS
    Total,          \* GoalLimits.timeout_seconds
    StallBudgets,   \* what GoalLimits.progress_timeout_seconds may be
    PollInterval,   \* _watchdog_poll_interval of it
    ApprovalWait,   \* ApprovalBroker.timeout_seconds
    Unwinds         \* how a cancelled task may end

Statuses == {"done", "blocked", "cancelled", "continue"}
Outcomes == Statuses \cup {"error", "cancellation"}

ASSUME TimesAssumption ==
    /\ Total \in Nat \ {0}
    /\ StallBudgets \subseteq 1..Total
    /\ PollInterval \in Nat \ {0}
    /\ ApprovalWait \in Nat

\* permissions.approval_timeout_ratio is below 1.
ASSUME ApprovalAssumption == \A budget \in StallBudgets : ApprovalWait < budget

ASSUME UnwindsAssumption == Unwinds \subseteq Outcomes

VARIABLES
    progress,   \* GoalLimits.progress_timeout_seconds of this goal
    now,        \* time since the goal started
    pc,         \* what GoalRunner.run awaits
    exit,       \* how the wait ended
    task,       \* the inner task: what it does
    outcome,    \* and how it ended
    answerBy,   \* when the approval it waits for is denied
    watchdog,   \* the watchdog task
    wake,       \* when its sleep ends
    deadline,   \* _watch_progress: deadline
    unseen,     \* events were emitted since the watchdog looked at the sequence
    silentFrom, \* history: the time of the last event
    told,       \* the runner was cancelled while it waited
    reported    \* the goal.* events

taskVars == <<task, outcome, answerBy>>
watchdogVars == <<watchdog, wake, deadline>>
eventVars == <<unseen, silentFrom>>
vars == <<progress, now, pc, exit, task, outcome, answerBy, watchdog, wake, deadline, unseen,
          silentFrom, told, reported>>

Watched == progress < Total

Least(m, n) == IF m <= n THEN m ELSE n

Init ==
    /\ progress \in StallBudgets
    /\ now = 0
    /\ pc = "start"
    /\ exit = "none"
    /\ task = "none"
    /\ outcome = "none"
    /\ answerBy = 0
    /\ watchdog = "none"
    /\ wake = 0
    /\ deadline = 0
    /\ unseen = FALSE
    /\ silentFrom = 0
    /\ told = FALSE
    /\ reported = <<>>

\* goal.started, then the task and perhaps the watchdog begin.
Start ==
    /\ pc = "start"
    /\ pc' = "wait"
    /\ task' = "runs"
    /\ reported' = <<"goal.started">>
    /\ IF Watched
       THEN /\ watchdog' = "sleeps"
            /\ deadline' = progress
            /\ wake' = Least(PollInterval, progress)
       ELSE UNCHANGED watchdogVars
    /\ UNCHANGED <<progress, now, exit, outcome, answerBy, eventVars, told>>

----------------------------------------------------------------------------
(* The task. *)

Emits == unseen' = TRUE /\ silentFrom' = now

EmitEvent ==
    /\ task = "runs"
    /\ Emits
    /\ UNCHANGED <<progress, now, pc, exit, taskVars, watchdogVars, told, reported>>

\* approval.requested, then silence until the human answers or time is up.
RequestApproval ==
    /\ task = "runs"
    /\ task' = "asks"
    /\ answerBy' = now + ApprovalWait
    /\ Emits
    /\ UNCHANGED <<progress, now, pc, exit, outcome, watchdogVars, told, reported>>

\* approval.answered, by the human or by the broker's timeout.
ApprovalAnswered ==
    /\ task = "asks"
    /\ task' = "runs"
    /\ Emits
    /\ UNCHANGED <<progress, now, pc, exit, outcome, answerBy, watchdogVars, told, reported>>

Finish(how) ==
    /\ task = "runs"
    /\ task' = "ended"
    /\ outcome' = how
    /\ UNCHANGED <<progress, now, pc, exit, answerBy, watchdogVars, eventVars, told, reported>>

Unwind(how) ==
    /\ task = "stops"
    /\ task' = "ended"
    /\ outcome' = how
    /\ UNCHANGED <<progress, now, pc, exit, answerBy, watchdogVars, eventVars, told, reported>>

----------------------------------------------------------------------------
(* The watchdog. *)

\* Mutated: any look renews the deadline.
MovedAlways == TRUE
Moved == unseen

\* One round of _watch_progress: new events renew the deadline.
Look ==
    /\ watchdog = "sleeps"
    /\ now >= wake
    /\ unseen' = FALSE
    /\ IF ~Moved /\ now >= deadline
       THEN watchdog' = "fired" /\ UNCHANGED <<wake, deadline>>
       ELSE /\ deadline' = IF Moved THEN now + progress ELSE deadline
            /\ wake' = now + Least(PollInterval, deadline' - now)
            /\ UNCHANGED watchdog
    /\ UNCHANGED <<progress, now, pc, exit, taskVars, silentFrom, told, reported>>

WatchdogStopped ==
    /\ watchdog = "stops"
    /\ watchdog' = "ended"
    /\ UNCHANGED <<progress, now, pc, exit, taskVars, wake, deadline, eventVars, told, reported>>

----------------------------------------------------------------------------
(* The runner. *)

CancelTask == task' = "stops"
CancelWatchdog == watchdog' = IF watchdog = "sleeps" THEN "stops" ELSE watchdog

\* run's last step: what the wait raised or returned becomes the terminal event.
EventOf(how) ==
    CASE how = "blocked" -> "goal.blocked"
      [] how \in {"cancelled", "cancellation"} -> "goal.cancelled"
      [] how = "done" -> "goal.completed"
      [] OTHER -> "goal.failed"

Report(how) ==
    /\ pc' = "ended"
    /\ exit' = how
    /\ reported' = Append(reported, EventOf(how))

\* asyncio.wait returns: the task counts first, then the watchdog.
TaskEnded ==
    /\ pc = "wait" /\ Watched
    /\ task = "ended"
    /\ exit' = outcome
    /\ CancelWatchdog
    /\ pc' = "stop_watchdog"
    /\ UNCHANGED <<progress, now, taskVars, wake, deadline, eventVars, told, reported>>

WatchdogFired ==
    /\ pc = "wait" /\ Watched
    /\ task # "ended"
    /\ watchdog = "fired"
    /\ exit' = "stalled"
    /\ CancelTask
    /\ pc' = "stop_task"
    /\ UNCHANGED <<progress, now, outcome, answerBy, watchdogVars, eventVars, told, reported>>

\* Mutated: a task that makes progress gets more time.
OutOfTimeSilent == now >= Total /\ ~unseen
OutOfTime == now >= Total

TimeUp ==
    /\ pc = "wait" /\ Watched
    /\ task # "ended"
    /\ watchdog # "fired"
    /\ OutOfTime
    /\ exit' = "timeout"
    /\ CancelTask
    /\ pc' = "stop_task"
    /\ UNCHANGED <<progress, now, outcome, answerBy, watchdogVars, eventVars, told, reported>>

\* The runner's own task is cancelled; what comes later is swallowed by
\* _cancel_pending and changes nothing.  A task that is done already is left as
\* it is, its error unread.
Cancelled ==
    /\ pc = "wait" /\ Watched
    /\ told' = TRUE
    /\ exit' = "cancellation"
    /\ IF task = "ended"
       THEN pc' = "stop_watchdog" /\ CancelWatchdog /\ UNCHANGED task
       ELSE pc' = "stop_task" /\ CancelTask /\ UNCHANGED watchdog
    /\ UNCHANGED <<progress, now, outcome, answerBy, wake, deadline, eventVars, reported>>

\* An error of the unwinding task takes the place of what ended the wait.
Exit == IF outcome = "error" THEN "error" ELSE exit

\* Such an error out of the finally clause also skips the watchdog.
\* Mutated: a cancellation does.
SkippedAlways == exit = "cancellation"
Skipped == exit = "cancellation" /\ outcome = "error"

\* _cancel_pending(task) returns.
TaskStopped ==
    /\ pc = "stop_task"
    /\ task = "ended"
    /\ IF Skipped
       THEN Report(Exit) /\ UNCHANGED watchdog
       ELSE /\ exit' = Exit
            /\ CancelWatchdog
            /\ pc' = "stop_watchdog"
            /\ UNCHANGED reported
    /\ UNCHANGED <<progress, now, taskVars, wake, deadline, eventVars, told>>

WatchdogGone ==
    /\ pc = "stop_watchdog"
    /\ watchdog \in {"ended", "fired"}
    /\ Report(exit)
    /\ UNCHANGED <<progress, now, taskVars, watchdogVars, eventVars, told>>

\* Mutated: the timeout replaces a cancellation under way.
InterruptibleStill == task \in {"runs", "asks", "stops"}
Interruptible == task \in {"runs", "asks"}

\* Without a watchdog the task runs inside asyncio.wait_for: time is up or the
\* runner is cancelled, and the task is cancelled in its place.
InlineTimeUp ==
    /\ pc = "wait" /\ ~Watched
    /\ OutOfTime
    /\ Interruptible
    /\ exit' = "timeout"
    /\ CancelTask
    /\ UNCHANGED <<progress, now, pc, outcome, answerBy, watchdogVars, eventVars, told, reported>>

InlineCancelled ==
    /\ pc = "wait" /\ ~Watched
    /\ task # "ended"
    /\ told' = TRUE
    /\ exit' = "cancellation"
    /\ CancelTask
    /\ UNCHANGED <<progress, now, pc, outcome, answerBy, watchdogVars, eventVars, reported>>

\* A timeout turns the cancellation it caused into a TimeoutError.
InlineEnded ==
    /\ pc = "wait" /\ ~Watched
    /\ task = "ended"
    /\ Report(IF outcome = "cancellation" /\ exit = "timeout" THEN "timeout" ELSE outcome)
    /\ UNCHANGED <<progress, now, taskVars, watchdogVars, eventVars, told>>

----------------------------------------------------------------------------
Due ==
    \/ now >= Total
    \/ task = "ended"
    \/ task = "asks" /\ now >= answerBy
    \/ watchdog = "sleeps" /\ now >= wake
    \/ watchdog = "fired"

\* Time matters only as long as the runner waits.
Tick ==
    /\ pc = "wait"
    /\ ~Due
    /\ now' = now + 1
    /\ UNCHANGED <<progress, pc, exit, taskVars, watchdogVars, eventVars, told, reported>>

Runner ==
    \/ Start \/ TaskEnded \/ WatchdogFired \/ TimeUp \/ TaskStopped \/ WatchdogGone
    \/ InlineTimeUp \/ InlineEnded
Watchdog == Look \/ WatchdogStopped
Unwinding == \E how \in Unwinds : Unwind(how)
Task ==
    \/ EmitEvent \/ RequestApproval \/ ApprovalAnswered
    \/ \E how \in Outcomes : Finish(how)
    \/ Unwinding

Over == pc = "ended" /\ UNCHANGED vars

Next == Runner \/ Watchdog \/ Task \/ Tick \/ Cancelled \/ InlineCancelled \/ Over

Spec == Init /\ [][Next]_vars

\* The event loop runs who is ready, time passes, and a cancelled task unwinds.
\* The task itself may be silent, or chatty, for ever.
FairSpec ==
    /\ Spec
    /\ WF_vars(Runner) /\ WF_vars(Watchdog) /\ WF_vars(Unwinding) /\ WF_vars(Tick)
    /\ WF_vars(ApprovalAnswered)
-----------------------------------------------------------------------------
TypeOK ==
    /\ progress \in StallBudgets
    /\ now \in 0..Total
    /\ pc \in {"start", "wait", "stop_task", "stop_watchdog", "ended"}
    /\ exit \in Outcomes \cup {"none", "stalled", "timeout"}
    /\ task \in {"none", "runs", "asks", "stops", "ended"}
    /\ outcome \in Outcomes \cup {"none"}
    /\ answerBy \in Nat
    /\ watchdog \in {"none", "sleeps", "stops", "fired", "ended"}
    /\ wake \in Nat
    /\ deadline \in Nat
    /\ unseen \in BOOLEAN
    /\ silentFrom \in Nat
    /\ told \in BOOLEAN
    /\ reported \in Seq({"goal.started", "goal.completed", "goal.blocked", "goal.cancelled",
                         "goal.failed"})

\* A task that emits nothing is stopped: its silence never outlasts the stall
\* budget by more than one look of the watchdog.
SilenceIsBounded ==
    Watched /\ task \in {"runs", "asks"} => now <= silentFrom + progress + PollInterval

\* The watchdog never fires while a human may still answer ("the goal watchdog,
\* which sees no events while the human thinks, never fires first").
HumanIsNotAStall == [][watchdog' = "fired" /\ watchdog # "fired" => task # "asks"]_vars

\* A goal whose runner is cancelled while it waits is reported as cancelled: when
\* its time is up or its watchdog fires before the task has unwound, too.  Only
\* a task that will not be cancelled, or fails at it, is reported as what it is.
CancellationIsReported ==
    pc = "ended" /\ told /\ (outcome = "cancellation" \/ (Watched /\ outcome # "error"))
        => reported[Len(reported)] = "goal.cancelled"

\* The goal as its readers see it: nothing works for it when it reports.
Lifecycle ==
    INSTANCE GoalLifecycle
        WITH working <- task \in {"runs", "asks", "stops"} \/ watchdog \in {"sleeps", "stops"},
             TerminalEvents <- {"goal.completed", "goal.blocked", "goal.cancelled", "goal.failed"}

ReportsOnce == Lifecycle!Spec

\* However silent or busy the task is, the goal ends.
GoalEnds == pc = "wait" ~> pc = "ended"
=============================================================================
