-------------------------- MODULE GoalRunnerProofs --------------------------
(***************************************************************************)
(* What GoalRunner promises, for every budget, poll interval and approval  *)
(* wait.  Shape says which of the runner's partners exist at which pc;     *)
(* Clock relates the watchdog's timers to the last event; Human relates    *)
(* them to a pending approval; Exits keeps what ended the wait.            *)
(*                                                                         *)
(* And what the front ends promise that show a goal's events and answer    *)
(* its questions (FrontEnd), for every queue limit, session and task:      *)
(* Follows says that what is on its way to a screen is in order; Control   *)
(* what the queue holds while the session changes; Tickets which ticket is *)
(* open; Ended that no goal's end is told before it; Attends what the      *)
(* plain loop waits for.                                                   *)
(***************************************************************************)
EXTENDS GoalRunner, FrontEnd, SequenceTheorems, WellFoundedInduction, TLAPS

USE DEF TimesAssumption, ApprovalAssumption, UnwindsAssumption
USE TimesAssumption, ApprovalAssumption, UnwindsAssumption

Shape ==
    /\ progress \in 1..Total /\ ApprovalWait < progress
    /\ pc = "start" => task = "none" /\ watchdog = "none" /\ now = 0 /\ silentFrom = 0
    /\ pc = "start" => reported = <<>>
    /\ pc \in {"wait", "stop_task", "stop_watchdog"} => reported = <<"goal.started">>
    /\ pc = "wait" => task # "none"
    /\ pc = "wait" /\ Watched => task # "stops" /\ watchdog \in {"sleeps", "fired"}
    /\ ~Watched => watchdog = "none" /\ pc \in {"start", "wait", "ended"}
    /\ pc = "stop_task" => task \in {"stops", "ended"} /\ watchdog \in {"sleeps", "fired"}
    /\ pc \in {"stop_watchdog", "ended"} => task = "ended"
    /\ pc = "stop_watchdog" => watchdog \in {"stops", "fired", "ended"}

Clock ==
    /\ silentFrom <= now
    /\ watchdog = "sleeps" => wake <= deadline /\ wake <= now + PollInterval
    /\ watchdog = "sleeps" /\ unseen => wake <= silentFrom + PollInterval
    /\ watchdog = "sleeps" /\ ~unseen => deadline <= silentFrom + progress + PollInterval
    /\ watchdog = "sleeps" => now <= wake
    /\ pc = "wait" /\ watchdog = "fired" => now <= silentFrom + progress + PollInterval

Human ==
    /\ task = "asks" => now <= answerBy /\ answerBy <= now + ApprovalWait
    /\ task = "asks" /\ watchdog = "sleeps" /\ ~unseen => answerBy < deadline

Exits ==
    /\ pc = "start" => ~told
    /\ pc = "stop_task" /\ task = "ended" => outcome \in Unwinds
    /\ told /\ pc = "wait" => ~Watched /\ task \in {"stops", "ended"}
    /\ told /\ pc \in {"wait", "stop_task"} => exit = "cancellation"
    /\ told /\ Watched /\ pc \in {"stop_watchdog", "ended"} /\ outcome # "error"
           => exit = "cancellation"
    /\ told /\ ~Watched /\ pc = "ended" /\ outcome = "cancellation" => exit = "cancellation"
    /\ pc = "ended" => Len(reported) = 2 /\ reported[2] = EventOf(exit)

IInv == TypeOK /\ Shape /\ Clock /\ Human /\ Exits

LEMMA Initially == Init => IInv
<1> SUFFICES ASSUME Init PROVE IInv
  OBVIOUS
<1>1. TypeOK
  <2>1. reported \in Seq({"goal.started", "goal.completed", "goal.blocked", "goal.cancelled",
                           "goal.failed"})
    BY DEF Init
  <2>2. now \in 0..Total /\ answerBy \in Nat /\ wake \in Nat /\ deadline \in Nat
        /\ silentFrom \in Nat
    BY DEF Init
  <2>3. exit \in Outcomes \cup {"none", "stalled", "timeout"} /\ outcome \in Outcomes \cup {"none"}
    BY DEF Init
  <2> QED BY <2>1, <2>2, <2>3 DEF Init, TypeOK
<1>2. Shape
  BY DEF Init, Shape, Watched
<1>3. Clock /\ Human /\ Exits
  BY DEF Init, Clock, Human, Exits
<1> QED BY <1>1, <1>2, <1>3 DEF IInv

\* The events a goal may report, and the sequence that ends with one of them.
Events == {"goal.started", "goal.completed", "goal.blocked", "goal.cancelled", "goal.failed"}

LEMMA Reports ==
    ASSUME NEW STATE how, reported = <<"goal.started">>, Report(how)
    PROVE  /\ reported' \in Seq(Events)
           /\ Len(reported') = 2 /\ reported'[2] = EventOf(how)
           /\ EventOf(how) \in Events \ {"goal.started"}
           /\ pc' = "ended" /\ exit' = how
<1>1. EventOf(how) \in Events \ {"goal.started"}
  <2>1. CASE how \in {"blocked", "cancelled", "cancellation", "done"}
    BY <2>1 DEF EventOf, Events
  <2>2. CASE how \notin {"blocked", "cancelled", "cancellation", "done"}
    BY <2>2 DEF EventOf, Events
  <2> QED BY <2>1, <2>2
<1>2. reported \in Seq(Events) /\ Len(reported) = 1
  BY DEF Events
<1>3. reported' \in Seq(Events) /\ Len(reported') = 2 /\ reported'[2] = EventOf(how)
  BY <1>1, <1>2, AppendProperties DEF Report
<1> QED BY <1>1, <1>3 DEF Report

LEMMA StartKeeps ==
    ASSUME IInv, Start
    PROVE  IInv'
<1>1. TypeOK'
  BY DEF Start, Watched, Least, vars, taskVars, watchdogVars, eventVars, IInv, TypeOK, Shape, Clock, Human, Exits, Watched, Outcomes, Statuses
<1>2. Shape'
  BY DEF Start, Watched, Least, vars, taskVars, watchdogVars, eventVars, IInv, TypeOK, Shape, Clock, Human, Exits, Watched, Outcomes, Statuses
<1>3. Clock'
  BY DEF Start, Watched, Least, vars, taskVars, watchdogVars, eventVars, IInv, TypeOK, Shape, Clock, Human, Exits, Watched, Outcomes, Statuses
<1>4. Human'
  BY DEF Start, Watched, Least, vars, taskVars, watchdogVars, eventVars, IInv, TypeOK, Shape, Clock, Human, Exits, Watched, Outcomes, Statuses
<1>5. Exits'
  BY DEF Start, Watched, Least, vars, taskVars, watchdogVars, eventVars, IInv, TypeOK, Shape, Clock, Human, Exits, Watched, Outcomes, Statuses
<1> QED BY <1>1, <1>2, <1>3, <1>4, <1>5 DEF IInv

LEMMA EmitEventKeeps ==
    ASSUME IInv, EmitEvent
    PROVE  IInv'
<1>1. TypeOK'
  BY DEF EmitEvent, Emits, vars, taskVars, watchdogVars, eventVars, IInv, TypeOK, Shape, Clock, Human, Exits, Watched, Outcomes, Statuses
<1>2. Shape'
  BY DEF EmitEvent, Emits, vars, taskVars, watchdogVars, eventVars, IInv, TypeOK, Shape, Clock, Human, Exits, Watched, Outcomes, Statuses
<1>3. Clock'
  BY DEF EmitEvent, Emits, vars, taskVars, watchdogVars, eventVars, IInv, TypeOK, Shape, Clock, Human, Exits, Watched, Outcomes, Statuses
<1>4. Human'
  BY DEF EmitEvent, Emits, vars, taskVars, watchdogVars, eventVars, IInv, TypeOK, Shape, Clock, Human, Exits, Watched, Outcomes, Statuses
<1>5. Exits'
  BY DEF EmitEvent, Emits, vars, taskVars, watchdogVars, eventVars, IInv, TypeOK, Shape, Clock, Human, Exits, Watched, Outcomes, Statuses
<1> QED BY <1>1, <1>2, <1>3, <1>4, <1>5 DEF IInv

LEMMA RequestApprovalKeeps ==
    ASSUME IInv, RequestApproval
    PROVE  IInv'
<1>1. TypeOK'
  BY DEF RequestApproval, Emits, vars, taskVars, watchdogVars, eventVars, IInv, TypeOK, Shape, Clock, Human, Exits, Watched, Outcomes, Statuses
<1>2. Shape'
  BY DEF RequestApproval, Emits, vars, taskVars, watchdogVars, eventVars, IInv, TypeOK, Shape, Clock, Human, Exits, Watched, Outcomes, Statuses
<1>3. Clock'
  BY DEF RequestApproval, Emits, vars, taskVars, watchdogVars, eventVars, IInv, TypeOK, Shape, Clock, Human, Exits, Watched, Outcomes, Statuses
<1>4. Human'
  BY DEF RequestApproval, Emits, vars, taskVars, watchdogVars, eventVars, IInv, TypeOK, Shape, Clock, Human, Exits, Watched, Outcomes, Statuses
<1>5. Exits'
  BY DEF RequestApproval, Emits, vars, taskVars, watchdogVars, eventVars, IInv, TypeOK, Shape, Clock, Human, Exits, Watched, Outcomes, Statuses
<1> QED BY <1>1, <1>2, <1>3, <1>4, <1>5 DEF IInv

LEMMA ApprovalAnsweredKeeps ==
    ASSUME IInv, ApprovalAnswered
    PROVE  IInv'
<1>1. TypeOK'
  BY DEF ApprovalAnswered, Emits, vars, taskVars, watchdogVars, eventVars, IInv, TypeOK, Shape, Clock, Human, Exits, Watched, Outcomes, Statuses
<1>2. Shape'
  BY DEF ApprovalAnswered, Emits, vars, taskVars, watchdogVars, eventVars, IInv, TypeOK, Shape, Clock, Human, Exits, Watched, Outcomes, Statuses
<1>3. Clock'
  BY DEF ApprovalAnswered, Emits, vars, taskVars, watchdogVars, eventVars, IInv, TypeOK, Shape, Clock, Human, Exits, Watched, Outcomes, Statuses
<1>4. Human'
  BY DEF ApprovalAnswered, Emits, vars, taskVars, watchdogVars, eventVars, IInv, TypeOK, Shape, Clock, Human, Exits, Watched, Outcomes, Statuses
<1>5. Exits'
  BY DEF ApprovalAnswered, Emits, vars, taskVars, watchdogVars, eventVars, IInv, TypeOK, Shape, Clock, Human, Exits, Watched, Outcomes, Statuses
<1> QED BY <1>1, <1>2, <1>3, <1>4, <1>5 DEF IInv

LEMMA FinishKeeps ==
    ASSUME IInv, NEW how \in Outcomes, Finish(how)
    PROVE  IInv'
<1>1. TypeOK'
  BY DEF Finish, vars, taskVars, watchdogVars, eventVars, IInv, TypeOK, Shape, Clock, Human, Exits, Watched, Outcomes, Statuses
<1>2. Shape'
  BY DEF Finish, vars, taskVars, watchdogVars, eventVars, IInv, TypeOK, Shape, Clock, Human, Exits, Watched, Outcomes, Statuses
<1>3. Clock'
  BY DEF Finish, vars, taskVars, watchdogVars, eventVars, IInv, TypeOK, Shape, Clock, Human, Exits, Watched, Outcomes, Statuses
<1>4. Human'
  BY DEF Finish, vars, taskVars, watchdogVars, eventVars, IInv, TypeOK, Shape, Clock, Human, Exits, Watched, Outcomes, Statuses
<1>5. Exits'
  BY DEF Finish, vars, taskVars, watchdogVars, eventVars, IInv, TypeOK, Shape, Clock, Human, Exits, Watched, Outcomes, Statuses
<1> QED BY <1>1, <1>2, <1>3, <1>4, <1>5 DEF IInv

LEMMA UnwindKeeps ==
    ASSUME IInv, NEW how \in Unwinds, Unwind(how)
    PROVE  IInv'
<1>1. TypeOK'
  BY DEF Unwind, vars, taskVars, watchdogVars, eventVars, IInv, TypeOK, Shape, Clock, Human, Exits, Watched, Outcomes, Statuses
<1>2. Shape'
  BY DEF Unwind, vars, taskVars, watchdogVars, eventVars, IInv, TypeOK, Shape, Clock, Human, Exits, Watched, Outcomes, Statuses
<1>3. Clock'
  BY DEF Unwind, vars, taskVars, watchdogVars, eventVars, IInv, TypeOK, Shape, Clock, Human, Exits, Watched, Outcomes, Statuses
<1>4. Human'
  BY DEF Unwind, vars, taskVars, watchdogVars, eventVars, IInv, TypeOK, Shape, Clock, Human, Exits, Watched, Outcomes, Statuses
<1>5. Exits'
  BY DEF Unwind, vars, taskVars, watchdogVars, eventVars, IInv, TypeOK, Shape, Clock, Human, Exits, Watched, Outcomes, Statuses
<1> QED BY <1>1, <1>2, <1>3, <1>4, <1>5 DEF IInv

LEMMA LookKeeps ==
    ASSUME IInv, Look
    PROVE  IInv'
<1> USE DEF IInv, TypeOK, Shape, Clock, Human, Exits, Watched, Outcomes, Statuses, vars, taskVars, watchdogVars, eventVars
<1>1. CASE ~unseen /\ now >= deadline
  <2>1. watchdog' = "fired" /\ UNCHANGED <<wake, deadline>> /\ unseen' = FALSE
    BY <1>1 DEF Look, Moved
  <2>2. pc = "wait" => now <= silentFrom + progress + PollInterval
    BY <1>1 DEF Look
  <2> QED BY ZenonT(60), <1>1, <2>1, <2>2 DEF Look
<1>2. CASE unseen
  <2>1. /\ deadline' = now + progress /\ watchdog' = watchdog /\ unseen' = FALSE
        /\ wake' = now + Least(PollInterval, progress)
    BY <1>2 DEF Look, Moved
  <2>2. wake' \in Nat /\ wake' <= deadline' /\ wake' <= now + PollInterval /\ now <= wake'
    BY <2>1 DEF Least
  <2>3. watchdog = "sleeps" /\ deadline' <= silentFrom + progress + PollInterval
    BY <1>2, <2>1 DEF Look
  <2>4. UNCHANGED <<progress, now, pc, exit, task, outcome, answerBy, silentFrom, told, reported>>
    BY DEF Look
  <2>5. deadline' \in Nat
    BY <2>1
  <2>6. TypeOK'
    BY ZenonT(60), <2>1, <2>2, <2>4, <2>5
  <2>7. Shape'
    BY <2>1, <2>4
  <2>8. Clock'
    BY <2>1, <2>2, <2>3, <2>4
  <2>9. Human' /\ Exits'
    BY <1>2, <2>1, <2>2, <2>4
  <2> QED BY <2>6, <2>7, <2>8, <2>9
<1>3. CASE ~unseen /\ now < deadline
  <2>1. /\ deadline' = deadline /\ watchdog' = watchdog /\ unseen' = FALSE
        /\ wake' = now + Least(PollInterval, deadline - now)
    BY <1>3 DEF Look, Moved
  <2>2. wake' \in Nat /\ wake' <= deadline' /\ wake' <= now + PollInterval /\ now <= wake'
    BY <1>3, <2>1 DEF Least
  <2>3. UNCHANGED <<progress, now, pc, exit, task, outcome, answerBy, silentFrom, told, reported>>
    BY DEF Look
  <2>4. TypeOK'
    BY ZenonT(60), <2>1, <2>2, <2>3
  <2>5. Shape'
    BY <2>1, <2>3
  <2>6. Clock'
    BY <1>3, <2>1, <2>2, <2>3
  <2>7. Human' /\ Exits'
    BY <1>3, <2>1, <2>2, <2>3
  <2> QED BY <2>4, <2>5, <2>6, <2>7
<1> QED BY <1>1, <1>2, <1>3

LEMMA WatchdogStoppedKeeps ==
    ASSUME IInv, WatchdogStopped
    PROVE  IInv'
<1>1. TypeOK'
  BY DEF WatchdogStopped, vars, taskVars, watchdogVars, eventVars, IInv, TypeOK, Shape, Clock, Human, Exits, Watched, Outcomes, Statuses
<1>2. Shape'
  BY DEF WatchdogStopped, vars, taskVars, watchdogVars, eventVars, IInv, TypeOK, Shape, Clock, Human, Exits, Watched, Outcomes, Statuses
<1>3. Clock'
  BY DEF WatchdogStopped, vars, taskVars, watchdogVars, eventVars, IInv, TypeOK, Shape, Clock, Human, Exits, Watched, Outcomes, Statuses
<1>4. Human'
  BY DEF WatchdogStopped, vars, taskVars, watchdogVars, eventVars, IInv, TypeOK, Shape, Clock, Human, Exits, Watched, Outcomes, Statuses
<1>5. Exits'
  BY DEF WatchdogStopped, vars, taskVars, watchdogVars, eventVars, IInv, TypeOK, Shape, Clock, Human, Exits, Watched, Outcomes, Statuses
<1> QED BY <1>1, <1>2, <1>3, <1>4, <1>5 DEF IInv

LEMMA TaskEndedKeeps ==
    ASSUME IInv, TaskEnded
    PROVE  IInv'
<1>1. TypeOK'
  BY DEF TaskEnded, CancelWatchdog, vars, taskVars, watchdogVars, eventVars, IInv, TypeOK, Shape, Clock, Human, Exits, Watched, Outcomes, Statuses
<1>2. Shape'
  BY DEF TaskEnded, CancelWatchdog, vars, taskVars, watchdogVars, eventVars, IInv, TypeOK, Shape, Clock, Human, Exits, Watched, Outcomes, Statuses
<1>3. Clock'
  BY DEF TaskEnded, CancelWatchdog, vars, taskVars, watchdogVars, eventVars, IInv, TypeOK, Shape, Clock, Human, Exits, Watched, Outcomes, Statuses
<1>4. Human'
  BY DEF TaskEnded, CancelWatchdog, vars, taskVars, watchdogVars, eventVars, IInv, TypeOK, Shape, Clock, Human, Exits, Watched, Outcomes, Statuses
<1>5. Exits'
  BY DEF TaskEnded, CancelWatchdog, vars, taskVars, watchdogVars, eventVars, IInv, TypeOK, Shape, Clock, Human, Exits, Watched, Outcomes, Statuses
<1> QED BY <1>1, <1>2, <1>3, <1>4, <1>5 DEF IInv

LEMMA WatchdogFiredKeeps ==
    ASSUME IInv, WatchdogFired
    PROVE  IInv'
<1>1. TypeOK'
  BY DEF WatchdogFired, CancelTask, vars, taskVars, watchdogVars, eventVars, IInv, TypeOK, Shape, Clock, Human, Exits, Watched, Outcomes, Statuses
<1>2. Shape'
  BY DEF WatchdogFired, CancelTask, vars, taskVars, watchdogVars, eventVars, IInv, TypeOK, Shape, Clock, Human, Exits, Watched, Outcomes, Statuses
<1>3. Clock'
  BY DEF WatchdogFired, CancelTask, vars, taskVars, watchdogVars, eventVars, IInv, TypeOK, Shape, Clock, Human, Exits, Watched, Outcomes, Statuses
<1>4. Human'
  BY DEF WatchdogFired, CancelTask, vars, taskVars, watchdogVars, eventVars, IInv, TypeOK, Shape, Clock, Human, Exits, Watched, Outcomes, Statuses
<1>5. Exits'
  BY DEF WatchdogFired, CancelTask, vars, taskVars, watchdogVars, eventVars, IInv, TypeOK, Shape, Clock, Human, Exits, Watched, Outcomes, Statuses
<1> QED BY <1>1, <1>2, <1>3, <1>4, <1>5 DEF IInv

LEMMA TimeUpKeeps ==
    ASSUME IInv, TimeUp
    PROVE  IInv'
<1>1. TypeOK'
  BY DEF TimeUp, OutOfTime, CancelTask, vars, taskVars, watchdogVars, eventVars, IInv, TypeOK, Shape, Clock, Human, Exits, Watched, Outcomes, Statuses
<1>2. Shape'
  BY DEF TimeUp, OutOfTime, CancelTask, vars, taskVars, watchdogVars, eventVars, IInv, TypeOK, Shape, Clock, Human, Exits, Watched, Outcomes, Statuses
<1>3. Clock'
  BY DEF TimeUp, OutOfTime, CancelTask, vars, taskVars, watchdogVars, eventVars, IInv, TypeOK, Shape, Clock, Human, Exits, Watched, Outcomes, Statuses
<1>4. Human'
  BY DEF TimeUp, OutOfTime, CancelTask, vars, taskVars, watchdogVars, eventVars, IInv, TypeOK, Shape, Clock, Human, Exits, Watched, Outcomes, Statuses
<1>5. Exits'
  BY DEF TimeUp, OutOfTime, CancelTask, vars, taskVars, watchdogVars, eventVars, IInv, TypeOK, Shape, Clock, Human, Exits, Watched, Outcomes, Statuses
<1> QED BY <1>1, <1>2, <1>3, <1>4, <1>5 DEF IInv

LEMMA CancelledKeeps ==
    ASSUME IInv, Cancelled
    PROVE  IInv'
<1>1. TypeOK'
  BY DEF Cancelled, CancelTask, CancelWatchdog, vars, taskVars, watchdogVars, eventVars, IInv, TypeOK, Shape, Clock, Human, Exits, Watched, Outcomes, Statuses
<1>2. Shape'
  BY DEF Cancelled, CancelTask, CancelWatchdog, vars, taskVars, watchdogVars, eventVars, IInv, TypeOK, Shape, Clock, Human, Exits, Watched, Outcomes, Statuses
<1>3. Clock'
  BY DEF Cancelled, CancelTask, CancelWatchdog, vars, taskVars, watchdogVars, eventVars, IInv, TypeOK, Shape, Clock, Human, Exits, Watched, Outcomes, Statuses
<1>4. Human'
  BY DEF Cancelled, CancelTask, CancelWatchdog, vars, taskVars, watchdogVars, eventVars, IInv, TypeOK, Shape, Clock, Human, Exits, Watched, Outcomes, Statuses
<1>5. Exits'
  BY DEF Cancelled, CancelTask, CancelWatchdog, vars, taskVars, watchdogVars, eventVars, IInv, TypeOK, Shape, Clock, Human, Exits, Watched, Outcomes, Statuses
<1> QED BY <1>1, <1>2, <1>3, <1>4, <1>5 DEF IInv

LEMMA TaskStoppedKeeps ==
    ASSUME IInv, TaskStopped
    PROVE  IInv'
<1> DEFINE event == EventOf(Exit)
<1>1. Exit \in Outcomes \cup {"none", "stalled", "timeout"}
  BY DEF Exit, IInv, TypeOK, Outcomes, Statuses
<1>2. outcome # "error" => Exit = exit
  BY DEF Exit
<1>3. pc = "stop_task" /\ task = "ended" /\ reported = <<"goal.started">>
  BY DEF TaskStopped, IInv, Shape
<1>4. UNCHANGED <<progress, now, task, outcome, answerBy, wake, deadline, unseen, silentFrom, told>>
  BY DEF TaskStopped, taskVars, eventVars
<1>5. CASE Skipped
  <2>1. Report(Exit) /\ UNCHANGED watchdog
    BY <1>5 DEF TaskStopped
  <2>2. /\ reported' \in Seq(Events) /\ Len(reported') = 2 /\ reported'[2] = event
        /\ event \in Events /\ pc' = "ended" /\ exit' = Exit
    BY <1>3, <2>1, Reports
  <2> HIDE DEF event
  <2>3. TypeOK'
    BY <1>1, <1>4, <2>1, <2>2 DEF Events, IInv, TypeOK
  <2>4. Shape' /\ Clock' /\ Human'
    BY <1>3, <1>4, <2>1, <2>2 DEF IInv, Shape, Clock, Human, Watched
  <2>5. (EventOf(exit))' = event
    BY <2>2 DEF event, EventOf
  <2>6. Exits'
    BY <1>2, <1>3, <1>4, <1>5, <2>2, <2>5 DEF IInv, Shape, Exits, Watched, Skipped
  <2> QED BY <2>3, <2>4, <2>6 DEF IInv
<1>6. CASE ~Skipped
  <2>1. exit' = Exit /\ CancelWatchdog /\ pc' = "stop_watchdog" /\ UNCHANGED reported
    BY <1>6 DEF TaskStopped
  <2>2. TypeOK'
    BY <1>1, <1>4, <2>1 DEF CancelWatchdog, IInv, TypeOK
  <2>3. Shape' /\ Clock' /\ Human'
    BY <1>3, <1>4, <2>1 DEF CancelWatchdog, IInv, Shape, Clock, Human, Watched
  <2>4. Exits'
    BY <1>2, <1>3, <1>4, <2>1 DEF IInv, Shape, Exits, Watched
  <2> QED BY <2>2, <2>3, <2>4 DEF IInv
<1> QED BY <1>5, <1>6

LEMMA WatchdogGoneKeeps ==
    ASSUME IInv, WatchdogGone
    PROVE  IInv'
<1> DEFINE event == EventOf(exit)
<1>0. /\ reported' \in Seq(Events) /\ Len(reported') = 2 /\ reported'[2] = event
      /\ event \in Events
      /\ pc' = "ended" /\ exit' = exit
  BY Reports DEF WatchdogGone, IInv, Shape, Watched
<1> HIDE DEF event
<1>1. TypeOK'
  BY <1>0 DEF Events, WatchdogGone, vars, taskVars, watchdogVars, eventVars, IInv, TypeOK, Shape, Clock, Human, Exits, Watched, Outcomes, Statuses
<1>2. Shape'
  BY <1>0 DEF Events, WatchdogGone, vars, taskVars, watchdogVars, eventVars, IInv, TypeOK, Shape, Clock, Human, Exits, Watched, Outcomes, Statuses
<1>3. Clock'
  BY <1>0 DEF Events, WatchdogGone, vars, taskVars, watchdogVars, eventVars, IInv, TypeOK, Shape, Clock, Human, Exits, Watched, Outcomes, Statuses
<1>4. Human'
  BY <1>0 DEF Events, WatchdogGone, vars, taskVars, watchdogVars, eventVars, IInv, TypeOK, Shape, Clock, Human, Exits, Watched, Outcomes, Statuses
<1>5. Exits'
  BY <1>0 DEF Events, WatchdogGone, vars, taskVars, watchdogVars, eventVars, IInv, TypeOK, Shape, Clock, Human, Exits, Watched, Outcomes, Statuses, event
<1> QED BY <1>1, <1>2, <1>3, <1>4, <1>5 DEF IInv

LEMMA InlineTimeUpKeeps ==
    ASSUME IInv, InlineTimeUp
    PROVE  IInv'
<1>1. TypeOK'
  BY DEF InlineTimeUp, OutOfTime, Interruptible, CancelTask, vars, taskVars, watchdogVars, eventVars, IInv, TypeOK, Shape, Clock, Human, Exits, Watched, Outcomes, Statuses
<1>2. Shape'
  BY DEF InlineTimeUp, OutOfTime, Interruptible, CancelTask, vars, taskVars, watchdogVars, eventVars, IInv, TypeOK, Shape, Clock, Human, Exits, Watched, Outcomes, Statuses
<1>3. Clock'
  BY DEF InlineTimeUp, OutOfTime, Interruptible, CancelTask, vars, taskVars, watchdogVars, eventVars, IInv, TypeOK, Shape, Clock, Human, Exits, Watched, Outcomes, Statuses
<1>4. Human'
  BY DEF InlineTimeUp, OutOfTime, Interruptible, CancelTask, vars, taskVars, watchdogVars, eventVars, IInv, TypeOK, Shape, Clock, Human, Exits, Watched, Outcomes, Statuses
<1>5. Exits'
  BY DEF InlineTimeUp, OutOfTime, Interruptible, CancelTask, vars, taskVars, watchdogVars, eventVars, IInv, TypeOK, Shape, Clock, Human, Exits, Watched, Outcomes, Statuses
<1> QED BY <1>1, <1>2, <1>3, <1>4, <1>5 DEF IInv

LEMMA InlineCancelledKeeps ==
    ASSUME IInv, InlineCancelled
    PROVE  IInv'
<1>1. TypeOK'
  BY DEF InlineCancelled, CancelTask, vars, taskVars, watchdogVars, eventVars, IInv, TypeOK, Shape, Clock, Human, Exits, Watched, Outcomes, Statuses
<1>2. Shape'
  BY DEF InlineCancelled, CancelTask, vars, taskVars, watchdogVars, eventVars, IInv, TypeOK, Shape, Clock, Human, Exits, Watched, Outcomes, Statuses
<1>3. Clock'
  BY DEF InlineCancelled, CancelTask, vars, taskVars, watchdogVars, eventVars, IInv, TypeOK, Shape, Clock, Human, Exits, Watched, Outcomes, Statuses
<1>4. Human'
  BY DEF InlineCancelled, CancelTask, vars, taskVars, watchdogVars, eventVars, IInv, TypeOK, Shape, Clock, Human, Exits, Watched, Outcomes, Statuses
<1>5. Exits'
  BY DEF InlineCancelled, CancelTask, vars, taskVars, watchdogVars, eventVars, IInv, TypeOK, Shape, Clock, Human, Exits, Watched, Outcomes, Statuses
<1> QED BY <1>1, <1>2, <1>3, <1>4, <1>5 DEF IInv

LEMMA InlineEndedKeeps ==
    ASSUME IInv, InlineEnded
    PROVE  IInv'
<1> DEFINE event == EventOf(IF outcome = "cancellation" /\ exit = "timeout" THEN "timeout" ELSE outcome)
<1>0. /\ reported' \in Seq(Events) /\ Len(reported') = 2 /\ reported'[2] = event
      /\ event \in Events
      /\ pc' = "ended" /\ exit' = (IF outcome = "cancellation" /\ exit = "timeout" THEN "timeout" ELSE outcome)
  BY Reports DEF InlineEnded, IInv, Shape, Watched
<1> HIDE DEF event
<1>1. TypeOK'
  BY <1>0 DEF Events, InlineEnded, vars, taskVars, watchdogVars, eventVars, IInv, TypeOK, Shape, Clock, Human, Exits, Watched, Outcomes, Statuses
<1>2. Shape'
  BY <1>0 DEF Events, InlineEnded, vars, taskVars, watchdogVars, eventVars, IInv, TypeOK, Shape, Clock, Human, Exits, Watched, Outcomes, Statuses
<1>3. Clock'
  BY <1>0 DEF Events, InlineEnded, vars, taskVars, watchdogVars, eventVars, IInv, TypeOK, Shape, Clock, Human, Exits, Watched, Outcomes, Statuses
<1>4. Human'
  BY <1>0 DEF Events, InlineEnded, vars, taskVars, watchdogVars, eventVars, IInv, TypeOK, Shape, Clock, Human, Exits, Watched, Outcomes, Statuses
<1>5. Exits'
  BY <1>0 DEF Events, InlineEnded, vars, taskVars, watchdogVars, eventVars, IInv, TypeOK, Shape, Clock, Human, Exits, Watched, Outcomes, Statuses, event
<1> QED BY <1>1, <1>2, <1>3, <1>4, <1>5 DEF IInv

LEMMA TickKeeps ==
    ASSUME IInv, Tick
    PROVE  IInv'
<1>1. TypeOK'
  BY DEF Tick, Due, vars, taskVars, watchdogVars, eventVars, IInv, TypeOK, Shape, Clock, Human, Exits, Watched, Outcomes, Statuses
<1>2. Shape'
  BY DEF Tick, Due, vars, taskVars, watchdogVars, eventVars, IInv, TypeOK, Shape, Clock, Human, Exits, Watched, Outcomes, Statuses
<1>3. Clock'
  BY DEF Tick, Due, vars, taskVars, watchdogVars, eventVars, IInv, TypeOK, Shape, Clock, Human, Exits, Watched, Outcomes, Statuses
<1>4. Human'
  BY DEF Tick, Due, vars, taskVars, watchdogVars, eventVars, IInv, TypeOK, Shape, Clock, Human, Exits, Watched, Outcomes, Statuses
<1>5. Exits'
  BY DEF Tick, Due, vars, taskVars, watchdogVars, eventVars, IInv, TypeOK, Shape, Clock, Human, Exits, Watched, Outcomes, Statuses
<1> QED BY <1>1, <1>2, <1>3, <1>4, <1>5 DEF IInv

LEMMA StutterKeeps ==
    ASSUME IInv, UNCHANGED vars
    PROVE  IInv'
<1>1. TypeOK'
  BY DEF vars, taskVars, watchdogVars, eventVars, IInv, TypeOK, Shape, Clock, Human, Exits, Watched, Outcomes, Statuses
<1>2. Shape'
  BY DEF vars, taskVars, watchdogVars, eventVars, IInv, TypeOK, Shape, Clock, Human, Exits, Watched, Outcomes, Statuses
<1>3. Clock'
  BY DEF vars, taskVars, watchdogVars, eventVars, IInv, TypeOK, Shape, Clock, Human, Exits, Watched, Outcomes, Statuses
<1>4. Human'
  BY DEF vars, taskVars, watchdogVars, eventVars, IInv, TypeOK, Shape, Clock, Human, Exits, Watched, Outcomes, Statuses
<1>5. Exits'
  BY DEF vars, taskVars, watchdogVars, eventVars, IInv, TypeOK, Shape, Clock, Human, Exits, Watched, Outcomes, Statuses
<1> QED BY <1>1, <1>2, <1>3, <1>4, <1>5 DEF IInv

LEMMA Preserved == IInv /\ [Next]_vars => IInv'
  BY StartKeeps, EmitEventKeeps, RequestApprovalKeeps, ApprovalAnsweredKeeps, FinishKeeps, UnwindKeeps, LookKeeps, WatchdogStoppedKeeps, TaskEndedKeeps, WatchdogFiredKeeps, TimeUpKeeps, CancelledKeeps, TaskStoppedKeeps, WatchdogGoneKeeps, InlineTimeUpKeeps, InlineCancelledKeeps, InlineEndedKeeps, TickKeeps, StutterKeeps
     DEF Next, Runner, Watchdog, Task, Unwinding, Over

THEOREM GoalInvariant == Spec => []IInv
  BY Initially, Preserved, PTL DEF Spec

\* The runner's state keeps its type.
THEOREM TypeCorrect == Spec => []TypeOK
  BY GoalInvariant, PTL DEF IInv

\* A silent task is stopped: the watchdog fires at the latest one poll after its
\* stall budget (goals.py, _watch_progress), whatever the budgets are.
THEOREM SilenceBounded == Spec => []SilenceIsBounded
<1>1. IInv => SilenceIsBounded
  BY DEF IInv, TypeOK, Shape, Clock, SilenceIsBounded
<1> QED BY <1>1, GoalInvariant, PTL

\* The watchdog never fires while a human is asked, as long as the approval is
\* bounded below the stall budget (config.py, approval_timeout_ratio).
THEOREM HumansAreNoStall == Spec => HumanIsNotAStall
<1>1. IInv /\ [Next]_vars => (watchdog' = "fired" /\ watchdog # "fired" => task # "asks")
  <2> SUFFICES ASSUME IInv, [Next]_vars, watchdog' = "fired", watchdog # "fired"
               PROVE  task # "asks"
    OBVIOUS
  <2>1. Look
    BY DEF Next, Runner, Watchdog, Task, Unwinding, Over, vars, taskVars, watchdogVars,
           Start, EmitEvent, RequestApproval, ApprovalAnswered, Finish, Unwind, WatchdogStopped,
           TaskEnded, WatchdogFired, TimeUp, Cancelled, TaskStopped, WatchdogGone, InlineTimeUp,
           InlineCancelled, InlineEnded, Tick, CancelWatchdog
  <2>2. watchdog = "sleeps" /\ ~unseen /\ now >= deadline
    BY <2>1 DEF Look, Moved
  <2> QED BY <2>2 DEF IInv, TypeOK, Human
<1> QED BY <1>1, GoalInvariant, PTL DEF Spec, HumanIsNotAStall

\* A cancelled goal is reported as cancelled, unless its task would not be
\* cancelled (goals.py, run and _cancel_pending).
THEOREM CancellationsAreReported == Spec => []CancellationIsReported
<1>1. IInv => CancellationIsReported
  BY DEF IInv, Exits, CancellationIsReported, EventOf
<1> QED BY <1>1, GoalInvariant, PTL

----------------------------------------------------------------------------
(* The goal implements GoalLifecycle, if a cancelled task unwinds without an *)
(* error: with one, the watchdog may outlive the goal.                       *)

NoErrors == "error" \notin Unwinds

Stopped == pc = "ended" => watchdog \in {"none", "fired", "ended"}

Working == task \in {"runs", "asks", "stops"} \/ watchdog \in {"sleeps", "stops"}

LEMMA StoppedPreserved ==
    ASSUME NoErrors, IInv, Stopped, [Next]_vars
    PROVE  Stopped'
<1>1. CASE TaskStopped
  <2>1. ~Skipped
    BY <1>1 DEF NoErrors, TaskStopped, Skipped, IInv, Exits
  <2> QED BY <1>1, <2>1 DEF TaskStopped, Stopped
<1>2. CASE WatchdogGone
  BY <1>2 DEF WatchdogGone, watchdogVars, Stopped
<1>3. CASE InlineEnded
  BY <1>3 DEF InlineEnded, watchdogVars, Stopped, IInv, Shape
<1>4. CASE [Next]_vars /\ ~TaskStopped /\ ~WatchdogGone /\ ~InlineEnded
  <2>1. pc' = "ended" => pc = "ended" /\ (watchdog' = watchdog \/ watchdog' \in {"fired", "ended"})
    BY <1>4 DEF Next, Runner, Watchdog, Task, Unwinding, Over, vars, taskVars, watchdogVars,
       Start, EmitEvent, RequestApproval, ApprovalAnswered, Finish, Unwind, Look, WatchdogStopped,
       TaskEnded, WatchdogFired, TimeUp, Cancelled, InlineTimeUp, InlineCancelled, Tick,
       CancelWatchdog, IInv, TypeOK
  <2> QED BY <2>1 DEF Stopped
<1> QED BY <1>1, <1>2, <1>3, <1>4

\* Every step reports one event when nothing works any more, ends the work, or
\* is invisible.
LEMMA StepsRefine ==
    ASSUME NoErrors, IInv, Stopped, [Next]_vars
    PROVE  [Lifecycle!Next]_(Lifecycle!vars)
<1> USE DEF Lifecycle!Next, Lifecycle!vars, Lifecycle!Start, Lifecycle!Stop, Lifecycle!Report
<1>1. CASE Start
  <2>1. reported = <<>> /\ reported' = <<"goal.started">> /\ task' = "runs"
    BY <1>1 DEF Start, IInv, Shape
  <2> QED BY <2>1
<1>2. CASE WatchdogGone
  <2>1. task = "ended" /\ watchdog \in {"fired", "ended"} /\ reported = <<"goal.started">>
    BY <1>2 DEF WatchdogGone, IInv, Shape
  <2>2. UNCHANGED <<task, watchdog>> /\ Report(exit)
    BY <1>2 DEF WatchdogGone, taskVars, watchdogVars
  <2>3. EventOf(exit) \in Events \ {"goal.started"}
    BY <2>1, <2>2, Reports
  <2>4. reported' = Append(reported, EventOf(exit))
    BY <2>2 DEF Report
  <2> HIDE DEF EventOf
  <2> QED BY <2>1, <2>2, <2>3, <2>4 DEF Events
<1>3. CASE InlineEnded
  <2> DEFINE how == IF outcome = "cancellation" /\ exit = "timeout" THEN "timeout" ELSE outcome
  <2>1. task = "ended" /\ watchdog = "none" /\ reported = <<"goal.started">>
    BY <1>3 DEF InlineEnded, IInv, Shape
  <2>2. UNCHANGED <<task, watchdog>> /\ Report(how)
    BY <1>3 DEF InlineEnded, taskVars, watchdogVars
  <2> HIDE DEF how
  <2>3. EventOf(how) \in Events \ {"goal.started"}
    BY <2>1, <2>2, Reports
  <2>4. reported' = Append(reported, EventOf(how))
    BY <2>2 DEF Report
  <2> QED BY <2>1, <2>2, <2>3, <2>4 DEF Events
<1>4. CASE [Next]_vars /\ ~Start /\ ~WatchdogGone /\ ~InlineEnded
  <2>1. CASE TaskStopped
    <3>1. ~Skipped
      BY <2>1 DEF NoErrors, TaskStopped, Skipped, IInv, Exits
    <3>2. UNCHANGED <<task, reported>> /\ watchdog \in {"sleeps", "fired"} /\ CancelWatchdog
      BY <2>1, <3>1 DEF TaskStopped, taskVars, IInv, Shape
    <3> QED BY <3>2 DEF CancelWatchdog
  <2>2. CASE ~TaskStopped
    <3>1. UNCHANGED reported
      BY <1>4, <2>2 DEF Next, Runner, Watchdog, Task, Unwinding, Over, vars,
         EmitEvent, RequestApproval, ApprovalAnswered, Finish, Unwind, Look, WatchdogStopped,
         TaskEnded, WatchdogFired, TimeUp, Cancelled, InlineTimeUp, InlineCancelled, Tick
    <3>2. Working' => Working
      BY <1>4, <2>2 DEF Next, Runner, Watchdog, Task, Unwinding, Over, vars, taskVars, watchdogVars,
         EmitEvent, RequestApproval, ApprovalAnswered, Finish, Unwind, Look, WatchdogStopped,
         TaskEnded, WatchdogFired, TimeUp, Cancelled, InlineTimeUp, InlineCancelled, Tick,
         CancelTask, CancelWatchdog, Interruptible, Working, IInv, TypeOK, Shape
    <3> QED BY <3>1, <3>2 DEF Working
  <2> QED BY <2>1, <2>2
<1> QED BY <1>1, <1>2, <1>3, <1>4

\* The goal reports one terminal event, and nothing works for it then
\* (goals.py, run and _run_with_watchdog).
THEOREM ImplementsLifecycle ==
    ASSUME NoErrors
    PROVE  Spec => ReportsOnce
<1>1. Init => Lifecycle!Init /\ Stopped
  BY DEF Init, Lifecycle!Init, Stopped
<1>2. IInv /\ Stopped /\ [Next]_vars => Stopped' /\ [Lifecycle!Next]_(Lifecycle!vars)
  BY StoppedPreserved, StepsRefine
<1>3. Spec => []Stopped
  BY <1>1, <1>2, GoalInvariant, PTL DEF Spec
<1> QED BY <1>1, <1>2, <1>3, GoalInvariant, PTL DEF Spec, ReportsOnce, Lifecycle!Spec

----------------------------------------------------------------------------
(* The front ends *)

HIDE DEF TimesAssumption, ApprovalAssumption, UnwindsAssumption

\* What a front end may be told: the types of events, with a line in the feed or without.
Lines == {"goal.started", "plan.updated", "action.proposed", "approval.requested",
          "approval.answered", "observation.compiled", "goal.ended"}
EventTypes == Lines \cup {"session.started", "session.closed"}
EventsOf(types) ==
    [kind : {"event"}, type : types, sequence : Nat, task : Tasks \cup {None}]
Items == EventsOf(EventTypes) \cup {Gap, Reset}
Messages ==
    EventsOf(Lines) \cup {Reset, Settled} \cup {Shown(t) : t \in Tasks} \cup {Closed(t) : t \in Tasks}
Transcripts ==
    [live : SUBSET {"plan", "call"}, cards : Seq(Tasks), task : Tasks \cup {None},
     last : Nat, refused : BOOLEAN]
Mains ==
    [at : {"prompt", "submitting", "waiting", "asking", "exited"}, task : Tasks \cup {None},
     idle : {0, 1}, command : {None, "clear", "resume"}, reset : BOOLEAN]

FrontTypes ==
    /\ FrontTypeOK
    /\ ticket \in [Tasks -> {"none", "open", "set", "closed"}]
    /\ queue \in Seq(Items)
    /\ inbox \in Seq(Messages)
    /\ ui \in Transcripts
    /\ main \in Mains

\* At most one card is open; None stands for no card.
Card == Tasks \cup {None}
Cards(c) == IF c = None THEN <<>> ELSE <<c>>

\* What message does to a transcript whose last number is l and whose card is c,
\* if it is in order: the number becomes k, the card d.
Passes(l, c, message, k, d) ==
    CASE message.kind = "event" ->
            IF message.type \in Lines
            THEN /\ l < message.sequence /\ k = message.sequence
                 /\ d = c /\ (message.type = "goal.ended" => c = None)
            ELSE k = l /\ d = c
      [] message.kind = "reset" -> k = 0 /\ d = c
      [] message.kind = "gap" -> k = l /\ d = c
      [] message.kind = "settled" -> k = l /\ c = None /\ d = None
      [] message.kind = "shown" -> k = l /\ c = None /\ d = message.task
      [] message.kind = "closed" -> k = l /\ c = message.task /\ d = None

\* Every message of q passes, from l and c on; at the end the number is at most
\* m and the card d.
Trail(q, l, c, m, d) ==
    \E f \in [0..Len(q) -> Nat], g \in [0..Len(q) -> Card] :
        /\ f[0] = l /\ g[0] = c
        /\ f[Len(q)] <= m /\ g[Len(q)] = d
        /\ \A i \in 1..Len(q) : Passes(f[i - 1], g[i - 1], q[i], f[i], g[i])

\* Every set of numbers has a least element.
LEMMA LeastNumber ==
    ASSUME NEW S \in SUBSET Nat, S # {}
    PROVE  \E i \in S : \A j \in S : i <= j
<1> DEFINE R == OpToRel(<, Nat)
<1>1. IsWellFoundedOn(R, Nat)
  BY NatLessThanWellFounded
<1>2. \A i, j \in Nat : <<j, i>> \in R <=> j < i
  BY DEF OpToRel
<1> HIDE DEF R
<1>3. PICK i \in S : \A j \in S : ~ <<j, i>> \in R
  BY <1>1, WFMin
<1>4. ASSUME NEW j \in S PROVE i <= j
  <2>1. i \in Nat /\ j \in Nat /\ ~ <<j, i>> \in R
    BY <1>3
  <2> QED BY <1>2, <2>1
<1> QED BY <1>3, <1>4

\* No message, nothing changes.
LEMMA EmptyTrail ==
    ASSUME NEW l \in Nat, NEW c \in Card, NEW m \in Nat, l <= m
    PROVE  Trail(<<>>, l, c, m, c)
<1> DEFINE f == [i \in 0..0 |-> l]
           g == [i \in 0..0 |-> c]
<1>1. f \in [0..Len(<<>>) -> Nat] /\ g \in [0..Len(<<>>) -> Card] /\ f[0] = l /\ g[0] = c
  OBVIOUS
<1>2. Len(<<>>) = 0 /\ 1..0 = {}
  OBVIOUS
<1> HIDE DEF f, g
<1> QED BY <1>1, <1>2 DEF Trail

\* Where no message is, the end is the beginning.
LEMMA NoTrail ==
    ASSUME NEW l, NEW c, NEW m \in Nat, NEW d, Trail(<<>>, l, c, m, d)
    PROVE  l \in Nat /\ l <= m /\ c = d
BY DEF Trail

\* One message more.
LEMMA TrailGrows ==
    ASSUME NEW S, NEW q \in Seq(S), NEW x \in S, NEW l, NEW c, NEW m \in Nat, NEW d,
           NEW n \in Nat, NEW e \in Card,
           Trail(q, l, c, m, d),
           \A k \in Nat : k <= m => \E p \in Nat : p <= n /\ Passes(k, d, x, p, e)
    PROVE  Trail(Append(q, x), l, c, n, e)
<1> DEFINE r == Append(q, x)
<1>1. /\ Len(q) \in Nat /\ Len(r) = Len(q) + 1 /\ r[Len(q) + 1] = x
      /\ \A i \in 1..Len(q) : r[i] = q[i]
  OBVIOUS
<1> HIDE DEF r
<1>2. PICK f \in [0..Len(q) -> Nat], g \in [0..Len(q) -> Card] :
        /\ f[0] = l /\ g[0] = c
        /\ f[Len(q)] <= m /\ g[Len(q)] = d
        /\ \A i \in 1..Len(q) : Passes(f[i - 1], g[i - 1], q[i], f[i], g[i])
  BY DEF Trail
<1>3. PICK p \in Nat : p <= n /\ Passes(f[Len(q)], d, x, p, e)
  BY <1>1, <1>2
<1> DEFINE F == [i \in 0..Len(r) |-> IF i = Len(r) THEN p ELSE f[i]]
           G == [i \in 0..Len(r) |-> IF i = Len(r) THEN e ELSE g[i]]
<1>4. /\ F \in [0..Len(r) -> Nat] /\ G \in [0..Len(r) -> Card]
      /\ F[0] = l /\ G[0] = c /\ F[Len(r)] = p /\ G[Len(r)] = e
      /\ \A i \in 0..Len(q) : F[i] = f[i] /\ G[i] = g[i]
  BY <1>1, <1>2
<1> HIDE DEF F, G
<1>5. ASSUME NEW i \in 1..Len(r) PROVE Passes(F[i - 1], G[i - 1], r[i], F[i], G[i])
  <2>1. CASE i = Len(r)
    <3>1. i - 1 = Len(q) /\ r[i] = x
      BY <2>1, <1>1
    <3> QED BY <3>1, <2>1, <1>1, <1>2, <1>3, <1>4
  <2>2. CASE i # Len(r)
    <3>1. i \in 1..Len(q) /\ i - 1 \in 0..Len(q) /\ i \in 0..Len(q)
      BY <2>2, <1>1
    <3> QED BY <3>1, <1>1, <1>2, <1>4
  <2> QED BY <2>1, <2>2
<1>6. Trail(r, l, c, n, e)
  BY <1>3, <1>4, <1>5 DEF Trail
<1> QED BY <1>6 DEF r

\* The first message gone.
LEMMA TrailGoesOn ==
    ASSUME NEW S, NEW q \in Seq(S), q # <<>>, NEW l, NEW c, NEW m \in Nat, NEW d,
           Trail(q, l, c, m, d)
    PROVE  \E p \in Nat, e \in Card :
               Passes(l, c, Head(q), p, e) /\ Trail(Tail(q), p, e, m, d)
<1> DEFINE r == Tail(q)
<1>1. /\ Len(q) \in Nat \ {0} /\ Len(r) = Len(q) - 1 /\ Head(q) = q[1]
      /\ \A i \in 1..Len(r) : r[i] = q[i + 1]
  OBVIOUS
<1> HIDE DEF r
<1>2. PICK f \in [0..Len(q) -> Nat], g \in [0..Len(q) -> Card] :
        /\ f[0] = l /\ g[0] = c
        /\ f[Len(q)] <= m /\ g[Len(q)] = d
        /\ \A i \in 1..Len(q) : Passes(f[i - 1], g[i - 1], q[i], f[i], g[i])
  BY DEF Trail
<1>3. Passes(l, c, Head(q), f[1], g[1]) /\ f[1] \in Nat /\ g[1] \in Card
  <2>1. 1 \in 1..Len(q) /\ 1 - 1 = 0 /\ 1 \in 0..Len(q)
    BY <1>1
  <2> QED BY <1>1, <1>2, <2>1
<1> DEFINE F == [i \in 0..Len(r) |-> f[i + 1]]
           G == [i \in 0..Len(r) |-> g[i + 1]]
<1>4. /\ F \in [0..Len(r) -> Nat] /\ G \in [0..Len(r) -> Card]
      /\ F[0] = f[1] /\ G[0] = g[1] /\ F[Len(r)] <= m /\ G[Len(r)] = d
      /\ \A i \in 0..Len(r) : F[i] = f[i + 1] /\ G[i] = g[i + 1]
  BY <1>1, <1>2
<1> HIDE DEF F, G
<1>5. ASSUME NEW i \in 1..Len(r) PROVE Passes(F[i - 1], G[i - 1], r[i], F[i], G[i])
  <2>1. /\ i + 1 \in 1..Len(q) /\ i - 1 \in 0..Len(r) /\ i \in 0..Len(r)
        /\ (i - 1) + 1 = i /\ (i + 1) - 1 = i
    BY <1>1
  <2>2. Passes(f[i], g[i], q[i + 1], f[i + 1], g[i + 1])
    BY <1>2, <2>1
  <2>3. F[i - 1] = f[i] /\ G[i - 1] = g[i] /\ F[i] = f[i + 1] /\ G[i] = g[i + 1] /\ r[i] = q[i + 1]
    BY <1>1, <1>4, <2>1
  <2> QED BY <2>2, <2>3
<1>6. Trail(r, f[1], g[1], m, d)
  BY <1>4, <1>5 DEF Trail
<1> QED BY <1>3, <1>6 DEF r

\* The queue after the first n of items (OfferAll).
Offering(upto, q, items, n) ==
    upto = [i \in 0..n |-> IF i = 0 THEN q ELSE Offer(upto[i - 1], items[i])]

\* The function OfferAll chooses exists.
LEMMA OfferingExists ==
    ASSUME NEW q, NEW items, NEW n \in Nat
    PROVE  \E upto : Offering(upto, q, items, n)
<1> DEFINE T == {m \in Nat : ~ \E upto : Offering(upto, q, items, m)}
<1> SUFFICES ASSUME n \in T PROVE FALSE
  OBVIOUS
<1>1. PICK m \in T : \A k \in T : m <= k
  BY LeastNumber, T \in SUBSET Nat, T # {}
<1>2. m # 0
  <2> SUFFICES ASSUME m = 0 PROVE FALSE
    OBVIOUS
  <2> DEFINE one == [i \in 0..0 |-> q]
  <2>1. Offering(one, q, items, 0)
    BY DEF Offering
  <2> QED BY <2>1
<1>3. m - 1 \in Nat /\ m - 1 \notin T
  BY <1>1, <1>2
<1>4. PICK upto : Offering(upto, q, items, m - 1)
  BY <1>3
<1> DEFINE longer == [i \in 0..m |-> IF i < m THEN upto[i] ELSE Offer(upto[m - 1], items[m])]
<1>5. \A i \in 0..m : longer[i] = IF i = 0 THEN q ELSE Offer(longer[i - 1], items[i])
  <2> SUFFICES ASSUME NEW i \in 0..m
               PROVE  longer[i] = IF i = 0 THEN q ELSE Offer(longer[i - 1], items[i])
    OBVIOUS
  <2>1. CASE i = m
    BY <2>1, <1>1, <1>2
  <2>2. CASE i # m
    <3>1. i \in 0..(m - 1) /\ longer[i] = upto[i] /\ (i # 0 => longer[i - 1] = upto[i - 1])
      BY <2>2, <1>1
    <3>2. upto[i] = IF i = 0 THEN q ELSE Offer(upto[i - 1], items[i])
      BY <1>4, <3>1 DEF Offering
    <3> QED BY <3>1, <3>2
  <2> QED BY <2>1, <2>2
<1>6. Offering(longer, q, items, m)
  <2> HIDE DEF longer
  <2>1. longer = [i \in 0..m |-> longer[i]]
    BY DEF longer
  <2> QED BY <1>5, <2>1 DEF Offering
<1> QED BY <1>1, <1>6

\* What every offer keeps, all of them keep: P[i] is what a queue may be after i items.
LEMMA AllOffered ==
    ASSUME NEW q, NEW S, NEW items \in Seq(S), NEW P, q \in P[0],
           \A i \in 1..Len(items) : \A r \in P[i - 1] : Offer(r, items[i]) \in P[i]
    PROVE  OfferAll(q, items) \in P[Len(items)]
<1> DEFINE C == CHOOSE upto : Offering(upto, q, items, Len(items))
<1>0. Len(items) \in Nat
  OBVIOUS
<1>1. Offering(C, q, items, Len(items))
  BY <1>0, OfferingExists
<1>2. OfferAll(q, items) = C[Len(items)]
  BY DEF OfferAll, Offering
<1> HIDE DEF C
<1>3. \A i \in 0..Len(items) : C[i] = IF i = 0 THEN q ELSE Offer(C[i - 1], items[i])
  BY <1>1 DEF Offering
<1> DEFINE T == {i \in 0..Len(items) : C[i] \notin P[i]}
<1>4. ASSUME T # {} PROVE FALSE
  <2>1. PICK m \in T : \A k \in T : m <= k
    BY <1>4, <1>0, LeastNumber, T \in SUBSET Nat
  <2>2. m # 0
    BY <1>0, <1>3, <2>1
  <2>3. m - 1 \in 0..Len(items) /\ m - 1 \notin T /\ m \in 1..Len(items)
    BY <1>0, <2>1, <2>2
  <2>4. C[m - 1] \in P[m - 1] /\ C[m] = Offer(C[m - 1], items[m])
    BY <2>2, <2>3, <1>3, <2>1
  <2>5. Offer(C[m - 1], items[m]) \in P[m]
    BY <2>3, <2>4
  <2> QED BY <2>1, <2>4, <2>5
<1> QED BY <1>0, <1>2, <1>4

\* The transcript after the first n messages (ReduceAll).
Reducing(upto, u, messages, n) ==
    upto = [i \in 0..n |-> IF i = 0 THEN u ELSE Reduce(upto[i - 1], messages[i])]

\* The function ReduceAll chooses exists.
LEMMA ReducingExists ==
    ASSUME NEW u, NEW messages, NEW n \in Nat
    PROVE  \E upto : Reducing(upto, u, messages, n)
<1> DEFINE T == {m \in Nat : ~ \E upto : Reducing(upto, u, messages, m)}
<1> SUFFICES ASSUME n \in T PROVE FALSE
  OBVIOUS
<1>1. PICK m \in T : \A k \in T : m <= k
  BY LeastNumber, T \in SUBSET Nat, T # {}
<1>2. m # 0
  <2> SUFFICES ASSUME m = 0 PROVE FALSE
    OBVIOUS
  <2> DEFINE one == [i \in 0..0 |-> u]
  <2>1. Reducing(one, u, messages, 0)
    BY DEF Reducing
  <2> QED BY <2>1
<1>3. m - 1 \in Nat /\ m - 1 \notin T
  BY <1>1, <1>2
<1>4. PICK upto : Reducing(upto, u, messages, m - 1)
  BY <1>3
<1> DEFINE longer == [i \in 0..m |-> IF i < m THEN upto[i] ELSE Reduce(upto[m - 1], messages[m])]
<1>5. \A i \in 0..m : longer[i] = IF i = 0 THEN u ELSE Reduce(longer[i - 1], messages[i])
  <2> SUFFICES ASSUME NEW i \in 0..m
               PROVE  longer[i] = IF i = 0 THEN u ELSE Reduce(longer[i - 1], messages[i])
    OBVIOUS
  <2>1. CASE i = m
    BY <2>1, <1>1, <1>2
  <2>2. CASE i # m
    <3>1. i \in 0..(m - 1) /\ longer[i] = upto[i] /\ (i # 0 => longer[i - 1] = upto[i - 1])
      BY <2>2, <1>1
    <3>2. upto[i] = IF i = 0 THEN u ELSE Reduce(upto[i - 1], messages[i])
      BY <1>4, <3>1 DEF Reducing
    <3> QED BY <3>1, <3>2
  <2> QED BY <2>1, <2>2
<1>6. Reducing(longer, u, messages, m)
  <2> HIDE DEF longer
  <2>1. longer = [i \in 0..m |-> longer[i]]
    BY DEF longer
  <2> QED BY <1>5, <2>1 DEF Reducing
<1> QED BY <1>1, <1>6

\* What every message keeps, a frame keeps: P[i] is what it may be after i messages.
LEMMA AllReduced ==
    ASSUME NEW u, NEW S, NEW messages \in Seq(S), NEW P, u \in P[0],
           \A i \in 1..Len(messages) : \A v \in P[i - 1] : Reduce(v, messages[i]) \in P[i]
    PROVE  ReduceAll(u, messages) \in P[Len(messages)]
<1> DEFINE C == CHOOSE upto : Reducing(upto, u, messages, Len(messages))
<1>0. Len(messages) \in Nat
  OBVIOUS
<1>1. Reducing(C, u, messages, Len(messages))
  BY <1>0, ReducingExists
<1>2. ReduceAll(u, messages) = C[Len(messages)]
  BY DEF ReduceAll, Reducing
<1> HIDE DEF C
<1>3. \A i \in 0..Len(messages) : C[i] = IF i = 0 THEN u ELSE Reduce(C[i - 1], messages[i])
  BY <1>1 DEF Reducing
<1> DEFINE T == {i \in 0..Len(messages) : C[i] \notin P[i]}
<1>4. ASSUME T # {} PROVE FALSE
  <2>1. PICK m \in T : \A k \in T : m <= k
    BY <1>4, <1>0, LeastNumber, T \in SUBSET Nat
  <2>2. m # 0
    BY <1>0, <1>3, <2>1
  <2>3. m - 1 \in 0..Len(messages) /\ m - 1 \notin T /\ m \in 1..Len(messages)
    BY <1>0, <2>1, <2>2
  <2>4. C[m - 1] \in P[m - 1] /\ C[m] = Reduce(C[m - 1], messages[m])
    BY <2>2, <2>3, <1>3, <2>1
  <2>5. Reduce(C[m - 1], messages[m]) \in P[m]
    BY <2>3, <2>4
  <2> QED BY <2>1, <2>4, <2>5
<1> QED BY <1>0, <1>2, <1>4

\* The card of a ticket that closes is gone.
LEMMA NoCardLeft ==
    ASSUME NEW t \in Tasks
    PROVE  Without(<<t>>, t) = <<>>
<1> DEFINE upto == [i \in 0..1 |-> <<>>]
<1>1. \A i \in 0..1 : upto[i] = IF i = 0 THEN <<>> ELSE upto[i - 1]
  OBVIOUS
<1> DEFINE R(v) == v = [i \in 0..Len(<<t>>) |->
                            IF i = 0 THEN <<>>
                            ELSE IF (<<t>>)[i] = t THEN v[i - 1]
                            ELSE Append(v[i - 1], (<<t>>)[i])]
           C == CHOOSE v : R(v)
<1>2. R(upto)
  BY <1>1
<1>3. R(C)
  BY <1>2
<1>4. Without(<<t>>, t) = C[1]
  BY DEF Without
<1> HIDE DEF C
<1>5. C[1] = C[0] /\ C[0] = <<>>
  BY <1>3
<1> QED BY <1>4, <1>5

\* A message that passes does to the transcript what it says.
LEMMA PassesOne ==
    ASSUME None \notin Tasks,
           NEW u \in Transcripts, NEW c \in Card, u.cards = Cards(c), ~u.refused,
           NEW x \in Messages, NEW p \in Nat, NEW e \in Card, Passes(u.last, c, x, p, e)
    PROVE  LET v == Reduce(u, x)
           IN  v \in Transcripts /\ v.cards = Cards(e) /\ ~v.refused /\ v.last = p
<1> DEFINE v == Reduce(u, x)
<1>1. CASE x \in EventsOf(Lines)
  <2>1. x.kind = "event" /\ x.type \in Lines /\ x.sequence \in Nat /\ x.task \in Tasks \cup {None}
    BY <1>1 DEF EventsOf
  <2>2. v = ReduceFeed(u, x)
    BY <2>1 DEF Reduce
  <2>3. ~(x.sequence <= u.last) /\ p = x.sequence /\ e = c /\ (x.type = "goal.ended" => c = None)
    BY <2>1 DEF Passes, Transcripts
  <2>4. ProjectEvent(x.type) \in {"goal_started", "plan", "call", "of_call", "observation", "outcome"}
        /\ (ProjectEvent(x.type) = "outcome" <=> x.type = "goal.ended")
    BY <2>1 DEF ProjectEvent, Lines
  <2> DEFINE kind == ProjectEvent(x.type)
             live == CASE kind \in {"goal_started", "outcome"} -> {}
                       [] kind = "plan" -> u.live \cup {"plan"}
                       [] kind \in {"call", "of_call"} -> u.live \cup {"call"}
                       [] kind = "observation" -> u.live \ {"call"}
             cards == IF kind = "outcome" THEN <<>> ELSE u.cards
             t == CASE kind = "goal_started" -> x.task
                    [] kind = "plan" /\ u.task = None -> x.task
                    [] kind = "outcome" -> None
                    [] OTHER -> u.task
  <2>5. v = [u EXCEPT !.last = x.sequence, !.live = live, !.cards = cards, !.task = t]
    BY <2>2, <2>3 DEF ReduceFeed
  <2>6. live \in SUBSET {"plan", "call"} /\ t \in Tasks \cup {None}
    BY <2>1, <2>4 DEF Transcripts
  <2>7. cards = Cards(c) /\ cards \in Seq(Tasks)
    BY <2>3, <2>4 DEF Cards, Card, Transcripts
  <2> HIDE DEF v, kind, live, cards, t
  <2> QED BY <2>1, <2>3, <2>5, <2>6, <2>7 DEF Transcripts, v
<1>2. CASE x = Reset
  BY <1>2 DEF Reset, Reduce, Passes, Transcripts
<1>3. CASE x = Settled
  <2>1. p = u.last /\ c = None /\ e = None /\ x.kind = "settled"
    BY <1>3 DEF Settled, Passes
  <2>2. v = IF u.task = None THEN u ELSE [u EXCEPT !.live = {}, !.cards = <<>>, !.task = None]
    BY <2>1 DEF Reduce
  <2> QED BY <2>1, <2>2 DEF Cards, Transcripts
<1>4. CASE \E t \in Tasks : x = Shown(t)
  <2>1. PICK t \in Tasks : x = Shown(t)
    BY <1>4
  <2>2. p = u.last /\ c = None /\ e = t /\ x.kind = "shown" /\ x.task = t
    BY <2>1 DEF Shown, Passes
  <2>3. v = [u EXCEPT !.cards = Append(@, t)]
    BY <2>2 DEF Reduce
  <2>4. Append(u.cards, t) = <<t>> /\ <<t>> \in Seq(Tasks)
    BY <2>2 DEF Cards
  <2> HIDE DEF v
  <2> QED BY <2>2, <2>3, <2>4 DEF Cards, Transcripts, v
<1>5. CASE \E t \in Tasks : x = Closed(t)
  <2>1. PICK t \in Tasks : x = Closed(t)
    BY <1>5
  <2>2. p = u.last /\ c = t /\ e = None /\ x.kind = "closed" /\ x.task = t
    BY <2>1 DEF Closed, Passes
  <2>3. v = [u EXCEPT !.cards = Without(@, t)]
    BY <2>2 DEF Reduce
  <2>4. Without(u.cards, t) = <<>>
    BY <2>2, NoCardLeft DEF Cards
  <2>5. v = [u EXCEPT !.cards = <<>>] /\ <<>> \in Seq(Tasks)
    BY <2>3, <2>4
  <2>6. Cards(e) = <<>>
    BY <2>2 DEF Cards
  <2> HIDE DEF v
  <2> QED BY <2>2, <2>5, <2>6 DEF Transcripts, v
<1> QED BY <1>1, <1>2, <1>3, <1>4, <1>5 DEF Messages

\* A frame does to the transcript what the trail of the inbox says.
LEMMA FrameFollows ==
    ASSUME None \notin Tasks,
           NEW u \in Transcripts, NEW c \in Card, u.cards = Cards(c), ~u.refused,
           NEW q \in Seq(Messages), NEW m \in Nat, NEW d, Trail(q, u.last, c, m, d)
    PROVE  LET v == ReduceAll(u, q)
           IN  v \in Transcripts /\ v.cards = Cards(d) /\ ~v.refused /\ v.last <= m
<1>1. PICK f \in [0..Len(q) -> Nat], g \in [0..Len(q) -> Card] :
        /\ f[0] = u.last /\ g[0] = c
        /\ f[Len(q)] <= m /\ g[Len(q)] = d
        /\ \A i \in 1..Len(q) : Passes(f[i - 1], g[i - 1], q[i], f[i], g[i])
  BY DEF Trail
<1>0. Len(q) \in Nat /\ \A i \in 1..Len(q) : q[i] \in Messages
  OBVIOUS
<1> DEFINE P == [i \in 0..Len(q) |->
                     {v \in Transcripts : v.cards = Cards(g[i]) /\ ~v.refused /\ v.last = f[i]}]
<1>2. u \in P[0]
  BY <1>0, <1>1
<1>3. ASSUME NEW i \in 1..Len(q), NEW v \in P[i - 1]
      PROVE  Reduce(v, q[i]) \in P[i]
  <2>1. i - 1 \in 0..Len(q) /\ i \in 0..Len(q)
    BY <1>0
  <2>2. /\ v \in Transcripts /\ v.cards = Cards(g[i - 1]) /\ ~v.refused /\ v.last = f[i - 1]
        /\ f[i] \in Nat /\ g[i] \in Card /\ g[i - 1] \in Card
    BY <1>3, <2>1
  <2>3. Passes(v.last, g[i - 1], q[i], f[i], g[i])
    BY <1>1, <2>2
  <2> DEFINE w == Reduce(v, q[i])
  <2>4. w \in Transcripts /\ w.cards = Cards(g[i]) /\ ~w.refused /\ w.last = f[i]
    BY <1>0, <2>2, <2>3, PassesOne
  <2> QED BY <2>1, <2>4
<1> HIDE DEF P
<1>4. ReduceAll(u, q) \in P[Len(q)]
  BY <1>2, <1>3, AllReduced
<1>5. Len(q) \in 0..Len(q)
  BY <1>0
<1> QED BY <1>1, <1>4, <1>5 DEF P

\* The events of a queue that will have a line have numbers up to s.
Numbered(q, s) == \A j \in 1..Len(q) : q[j] \in EventsOf(Lines) => q[j].sequence <= s

\* An offer leaves a queue of its length, with nothing but what it had, the item, or a gap.
LEMMA OfferOne ==
    ASSUME Limit \in Nat \ {0}, NEW q \in Seq(Items), Len(q) <= Limit, NEW x \in Items
    PROVE  LET r == Offer(q, x)
           IN  /\ r \in Seq(Items) /\ Len(r) <= Limit
               /\ \A j \in 1..Len(r) : r[j] = x \/ r[j] = Gap \/ \E k \in 1..Len(q) : r[j] = q[k]
<1>1. CASE Len(q) >= Limit
  <2>1. Offer(q, x) = <<Gap>> /\ Gap \in Items
    BY <1>1 DEF Offer, Items
  <2> QED BY <2>1
<1>2. CASE ~(Len(q) >= Limit)
  <2>1. Offer(q, x) = Append(q, x)
    BY <1>2 DEF Offer
  <2>2. /\ Append(q, x) \in Seq(Items) /\ Len(Append(q, x)) = Len(q) + 1 /\ Len(q) \in Nat
        /\ \A j \in 1..Len(q) + 1 : Append(q, x)[j] = IF j = Len(q) + 1 THEN x ELSE q[j]
    OBVIOUS
  <2>3. \A j \in 1..Len(q) + 1 : j # Len(q) + 1 => j \in 1..Len(q)
    BY <2>2
  <2> QED BY <1>2, <2>1, <2>2, <2>3
<1> QED BY <1>1, <1>2

\* The next event of a session at the end of a queue that is in order.
LEMMA OfferFollows ==
    ASSUME Limit \in Nat \ {0},
           NEW q \in Seq(Items), Len(q) <= Limit, NEW m \in Nat, NEW c \in Card, NEW s \in Nat,
           m <= s, Trail(q, m, c, s, c), Numbered(q, s),
           NEW x \in EventsOf(EventTypes), x.sequence = s + 1, x.type = "goal.ended" => c = None
    PROVE  Trail(Offer(q, x), m, c, s + 1, c) /\ Numbered(Offer(q, x), s + 1)
<1>0. x \in Items /\ Gap \in Items /\ x.kind = "event" /\ Gap.kind = "gap"
  BY DEF Items, EventsOf, Gap
<1>1. CASE Len(q) >= Limit
  <2> DEFINE none == <<>>
  <2>1. Offer(q, x) = <<Gap>> /\ <<Gap>> = Append(none, Gap) /\ none \in Seq(Items)
    BY <1>1 DEF Offer
  <2>2. Trail(none, m, c, s, c)
    BY EmptyTrail
  <2>3. \A k \in Nat : k <= s => \E p \in Nat : p <= s + 1 /\ Passes(k, c, Gap, p, c)
    BY <1>0 DEF Passes
  <2> HIDE DEF none
  <2>4. Trail(Append(none, Gap), m, c, s + 1, c)
    BY <1>0, <2>1, <2>2, <2>3, TrailGrows
  <2>5. Numbered(<<Gap>>, s + 1)
    <3>1. Len(<<Gap>>) = 1 /\ \A j \in 1..1 : (<<Gap>>)[j] = Gap
      OBVIOUS
    <3> QED BY <1>0, <3>1 DEF Numbered, EventsOf
  <2>6. Offer(q, x) = <<Gap>> /\ Trail(<<Gap>>, m, c, s + 1, c)
    BY <2>1, <2>4
  <2> QED BY <2>5, <2>6
<1>2. CASE ~(Len(q) >= Limit)
  <2>1. Offer(q, x) = Append(q, x)
    BY <1>2 DEF Offer
  <2>2. \A k \in Nat : k <= s => \E p \in Nat : p <= s + 1 /\ Passes(k, c, x, p, c)
    BY <1>0 DEF Passes
  <2>3. Trail(Append(q, x), m, c, s + 1, c)
    BY <1>0, <2>2, TrailGrows
  <2>4. /\ Len(Append(q, x)) = Len(q) + 1 /\ Len(q) \in Nat
        /\ \A j \in 1..Len(q) + 1 : Append(q, x)[j] = IF j = Len(q) + 1 THEN x ELSE q[j]
    BY <1>0
  <2>5. Numbered(Append(q, x), s + 1)
    <3> SUFFICES ASSUME NEW j \in 1..Len(q) + 1
                 PROVE  Append(q, x)[j] \in EventsOf(Lines) => Append(q, x)[j].sequence <= s + 1
      BY <2>4 DEF Numbered
    <3>1. CASE j = Len(q) + 1
      BY <3>1, <2>4
    <3>2. CASE j # Len(q) + 1
      <4>1. j \in 1..Len(q) /\ Append(q, x)[j] = q[j]
        BY <3>2, <2>4
      <4>2. q[j] \in EventsOf(Lines) => q[j].sequence <= s
        BY <4>1 DEF Numbered
      <4> QED BY <4>1, <4>2 DEF EventsOf
    <3> QED BY <3>1, <3>2
  <2> QED BY <2>1, <2>3, <2>5
<1> QED BY <1>1, <1>2

\* The events of one emission.
Emitted(types, t) == [i \in DOMAIN types |-> Event(types[i], sequence[session] + i, t)]

\* The events of an emission.
LEMMA EmittedTypes ==
    ASSUME FrontEndAssumption, FrontTypes, NEW types \in Seq(EventTypes), NEW t \in Card
    PROVE  /\ Emitted(types, t) \in Seq(EventsOf(EventTypes)) /\ Emitted(types, t) \in Seq(Items)
           /\ Len(Emitted(types, t)) = Len(types)
           /\ \A i \in 1..Len(types) :
                  /\ Emitted(types, t)[i] = Event(types[i], sequence[session] + i, t)
                  /\ Emitted(types, t)[i] \in EventsOf(EventTypes) /\ Emitted(types, t)[i] \in Items
                  /\ Emitted(types, t)[i].sequence = sequence[session] + i
                  /\ Emitted(types, t)[i].type = types[i]
<1> DEFINE e == Emitted(types, t)
<1>1. Len(types) \in Nat /\ DOMAIN types = 1..Len(types) /\ sequence[session] \in Nat
  BY DEF FrontTypes, FrontTypeOK
<1>2. ASSUME NEW i \in 1..Len(types)
      PROVE  /\ e[i] = Event(types[i], sequence[session] + i, t)
             /\ e[i] \in EventsOf(EventTypes) /\ e[i] \in Items
             /\ e[i].sequence = sequence[session] + i /\ e[i].type = types[i]
  <2>1. e[i] = Event(types[i], sequence[session] + i, t) /\ types[i] \in EventTypes
    BY <1>1 DEF Emitted
  <2>2. sequence[session] + i \in Nat
    BY <1>1
  <2> QED BY <2>1, <2>2 DEF Event, EventsOf, Card, Items
<1>3. e = [i \in 1..Len(types) |-> e[i]]
  BY <1>1 DEF Emitted
<1> HIDE DEF e
<1>4. e \in Seq(EventsOf(EventTypes)) /\ e \in Seq(Items) /\ Len(e) = Len(types)
  BY <1>1, <1>2, <1>3
<1> QED BY <1>2, <1>4 DEF e

\* What an emission leaves in the queue.
LEMMA EmitTypes ==
    ASSUME FrontEndAssumption, FrontTypes, NEW types \in Seq(EventTypes), NEW t \in Card,
           Emit(types, t)
    PROVE  /\ queue' \in Seq(Items) /\ Len(queue') <= Limit
           /\ sequence' \in [Sessions -> Nat] /\ stream' = stream
           /\ sequence'[session] = sequence[session] + Len(types)
           /\ stream = "dead" => queue' = queue
           /\ \A j \in 1..Len(queue') :
                  \/ queue'[j] = Gap
                  \/ \E k \in 1..Len(queue) : queue'[j] = queue[k]
                  \/ \E i \in 1..Len(types) : queue'[j] = Event(types[i], sequence[session] + i, t)
<1> DEFINE items == Emitted(types, t)
           P == [i \in 0..Len(items) |->
                   {r \in Seq(Items) :
                      /\ Len(r) <= Limit
                      /\ \A j \in 1..Len(r) :
                            \/ r[j] = Gap
                            \/ \E k \in 1..Len(queue) : r[j] = queue[k]
                            \/ \E n \in 1..Len(items) : r[j] = items[n]}]
<1>0. Limit \in Nat \ {0}
  BY DEF FrontEndAssumption
<1>1. items \in Seq(Items) /\ Len(items) = Len(types) /\ Len(items) \in Nat
      /\ \A i \in 1..Len(items) : items[i] = Event(types[i], sequence[session] + i, t) /\ items[i] \in Items
  BY EmittedTypes
<1>2. queue' = IF stream = "up" THEN OfferAll(queue, items) ELSE queue
  BY DEF Emit, Deliver, Emitted
<1> HIDE DEF items
<1>3. queue \in P[0]
  BY <1>1 DEF FrontTypes, FrontTypeOK
<1>4. ASSUME NEW i \in 1..Len(items), NEW r \in P[i - 1]
      PROVE  Offer(r, items[i]) \in P[i]
  <2>1. i - 1 \in 0..Len(items) /\ i \in 0..Len(items)
    BY <1>1
  <2>2. /\ r \in Seq(Items) /\ Len(r) <= Limit
        /\ \A j \in 1..Len(r) :
              \/ r[j] = Gap
              \/ \E k \in 1..Len(queue) : r[j] = queue[k]
              \/ \E n \in 1..Len(items) : r[j] = items[n]
    BY <1>4, <2>1
  <2> DEFINE w == Offer(r, items[i])
  <2>3. /\ w \in Seq(Items) /\ Len(w) <= Limit
        /\ \A j \in 1..Len(w) : w[j] = items[i] \/ w[j] = Gap \/ \E k \in 1..Len(r) : w[j] = r[k]
    BY <1>0, <1>1, <2>2, OfferOne
  <2> HIDE DEF w
  <2>4. \A j \in 1..Len(w) :
              \/ w[j] = Gap
              \/ \E k \in 1..Len(queue) : w[j] = queue[k]
              \/ \E n \in 1..Len(items) : w[j] = items[n]
    BY <2>2, <2>3
  <2>5. w \in P[i]
    BY <2>1, <2>3, <2>4
  <2> QED BY <2>5 DEF w
<1> HIDE DEF P
<1>5. OfferAll(queue, items) \in P[Len(items)]
  BY <1>1, <1>3, <1>4, AllOffered
<1>6. queue \in P[Len(items)]
  BY <1>1 DEF P, FrontTypes, FrontTypeOK
<1>7. queue' \in P[Len(items)]
  BY <1>2, <1>5, <1>6
<1>8. /\ queue' \in Seq(Items) /\ Len(queue') <= Limit
      /\ \A j \in 1..Len(queue') :
            \/ queue'[j] = Gap
            \/ \E k \in 1..Len(queue) : queue'[j] = queue[k]
            \/ \E n \in 1..Len(items) : queue'[j] = items[n]
  <2>1. Len(items) \in 0..Len(items)
    BY <1>1
  <2> QED BY <1>7, <2>1 DEF P
<1>9. /\ sequence' \in [Sessions -> Nat] /\ stream' = stream
      /\ sequence'[session] = sequence[session] + Len(types)
  BY <1>1 DEF Emit, Deliver, FrontTypes, FrontTypeOK
<1>10. stream = "dead" => queue' = queue
  BY <1>2
<1> QED BY <1>1, <1>8, <1>9, <1>10

\* An emission into a queue in order leaves it in order.
LEMMA EmitFollows ==
    ASSUME FrontEndAssumption, FrontTypes, NEW types \in Seq(EventTypes), NEW t \in Card,
           Emit(types, t), NEW m \in Nat, NEW c \in Card,
           m <= sequence[session], Trail(queue, m, c, sequence[session], c),
           Numbered(queue, sequence[session]), stream = "dead" => queue = <<>>,
           c = None \/ \A i \in 1..Len(types) : types[i] # "goal.ended"
    PROVE  /\ m <= sequence'[session]
           /\ Trail(queue', m, c, sequence'[session], c)
           /\ Numbered(queue', sequence'[session])
<1> DEFINE items == Emitted(types, t)
           s == sequence[session]
           P == [i \in 0..Len(items) |->
                   {r \in Seq(Items) : Len(r) <= Limit /\ Trail(r, m, c, s + i, c) /\ Numbered(r, s + i)}]
<1>0. Limit \in Nat \ {0} /\ s \in Nat
  BY DEF FrontEndAssumption, FrontTypes, FrontTypeOK
<1>1. items \in Seq(Items) /\ Len(items) = Len(types) /\ Len(items) \in Nat
      /\ \A i \in 1..Len(items) :
            /\ items[i] \in EventsOf(EventTypes) /\ items[i].sequence = s + i /\ items[i].type = types[i]
  BY EmittedTypes
<1>2. queue' = IF stream = "up" THEN OfferAll(queue, items) ELSE queue
  BY DEF Emit, Deliver, Emitted
<1>9. sequence'[session] = s + Len(items)
  BY <1>1, EmitTypes
<1> HIDE DEF items, s
<1>3. queue \in P[0]
  BY <1>0, <1>1 DEF FrontTypes, FrontTypeOK, s
<1>4. ASSUME NEW i \in 1..Len(items), NEW r \in P[i - 1]
      PROVE  Offer(r, items[i]) \in P[i]
  <2>1. i - 1 \in 0..Len(items) /\ i \in 0..Len(items) /\ s + (i - 1) \in Nat /\ (s + (i - 1)) + 1 = s + i
    BY <1>0, <1>1
  <2>2. /\ r \in Seq(Items) /\ Len(r) <= Limit
        /\ Trail(r, m, c, s + (i - 1), c) /\ Numbered(r, s + (i - 1))
    BY <1>4, <2>1
  <2> DEFINE w == Offer(r, items[i])
  <2>3. w \in Seq(Items) /\ Len(w) <= Limit
    BY <1>0, <1>1, <2>2, OfferOne DEF Items
  <2>4. m <= s + (i - 1) /\ (items[i].type = "goal.ended" => c = None)
    <3>1. m <= s /\ i - 1 \in Nat
      BY <1>1 DEF s
    <3>2. m <= s + (i - 1)
      BY <1>0, <3>1
    <3>3. items[i].type = types[i] /\ i \in 1..Len(types)
      BY <1>1
    <3> QED BY <3>2, <3>3
  <2>5. Trail(w, m, c, (s + (i - 1)) + 1, c) /\ Numbered(w, (s + (i - 1)) + 1)
    <3> DEFINE z == s + (i - 1)
    <3>1. z \in Nat /\ items[i].sequence = z + 1 /\ m <= z
      BY <1>1, <2>1, <2>4
    <3> HIDE DEF z
    <3>2. Trail(r, m, c, z, c) /\ Numbered(r, z)
      BY <2>2 DEF z
    <3>3. Trail(w, m, c, z + 1, c) /\ Numbered(w, z + 1)
      BY <1>0, <1>1, <2>2, <2>4, <3>1, <3>2, OfferFollows
    <3> QED BY <3>3 DEF z
  <2> HIDE DEF w
  <2>6. w \in P[i]
    BY <2>1, <2>3, <2>5
  <2> QED BY <2>6 DEF w
<1> HIDE DEF P
<1>5. CASE stream = "up"
  <2>1. queue' \in P[Len(items)]
    BY <1>1, <1>2, <1>3, <1>4, <1>5, AllOffered
  <2>2. Len(items) \in 0..Len(items) /\ m <= s + Len(items)
    BY <1>0, <1>1 DEF s
  <2> QED BY <2>1, <2>2, <1>9 DEF P
<1>6. CASE stream # "up"
  <2>1. queue' = <<>>
    <3>1. stream = "dead"
      BY <1>6 DEF FrontTypes, FrontTypeOK
    <3> QED BY <3>1, <1>2
  <2>2. s + Len(items) \in Nat /\ m <= s + Len(items)
    BY <1>0, <1>1 DEF s
  <2>3. Trail(<<>>, m, c, s + Len(items), c)
    BY <2>2, EmptyTrail
  <2>4. Numbered(<<>>, s + Len(items))
    BY DEF Numbered
  <2> QED BY <1>9, <2>1, <2>2, <2>3, <2>4
<1> QED BY <1>5, <1>6

\* What is in the queue while a switch closes its session (SwitchTo), and from the
\* reset on until the front end has been told (Switched).
SessionClosed(n) == Event("session.closed", n, None)
Closing == {<<>>} \cup {<<SessionClosed(n)>> : n \in Nat}
Switching == {<<>>, <<Gap>>, <<Reset>>} \cup {<<SessionClosed(n), Reset>> : n \in Nat}

Control ==
    /\ target # None => running = None /\ ~main.reset /\ queue \in Closing
    /\ main.reset => phase \in {"none", "starting"} /\ queue \in Switching
    /\ running \in used \cup {None}
    /\ stream = "dead" => queue = <<>>
    /\ front # "tui" => ~ui.refused

\* A ticket is open while its task asks.
Tickets == \A t \in Tasks : ticket[t] \in {"open", "set"} <=> phase = "ask" /\ t = running
Current == IF phase = "ask" THEN running ELSE None

\* What is on its way to the terminal UI is in order: the inbox leads from the
\* transcript to the card of the ticket that is open, and the queue goes on from there.
FollowsWith(c, m) ==
    /\ ui.cards = Cards(c)
    /\ Trail(inbox, ui.last, c, m, Current)
    /\ ~main.reset =>
           /\ m <= sequence[session]
           /\ Trail(queue, m, Current, sequence[session], Current)
           /\ Numbered(queue, sequence[session])
Follows == front = "tui" => ~ui.refused /\ \E c \in Card, m \in Nat : FollowsWith(c, m)

\* The last event of a goal comes when it is over.
TellsEnd(x) == x.kind = "event" /\ x.type = "goal.ended"
Known == {inbox[j] : j \in 1..Len(inbox)} \cup {queue[j] : j \in 1..Len(queue)}
Ended == \A x \in Known : TellsEnd(x) => x.task \in used /\ (x.task = running => phase = "over")

\* The plain loop waits for the task that runs, and is told what it asks.
Attends ==
    front = "plain" =>
        /\ phase = "starting" => main.at = "submitting" /\ main.task = running
        /\ phase \in {"run", "ask"} => main.at \in {"waiting", "asking"} /\ main.task = running
        /\ phase = "ask" /\ ticket[running] = "open" /\ main.at = "waiting" =>
               \E j \in 1..Len(inbox) : inbox[j] = Shown(running)
        /\ main.at = "asking" => main.task \in Tasks

FrontInv == FrontTypes /\ Control /\ Tickets /\ Follows /\ Ended /\ Attends

\* What an await of the session waits out.
LEMMA DrainedMeans ==
    ASSUME FrontInv, Drained
    PROVE  queue = <<>> /\ ~main.reset
BY DEF FrontInv, FrontTypes, FrontTypeOK, Control, Drained

\* Steps that leave the messages alone.
LEMMA FollowsStays ==
    ASSUME Follows, UNCHANGED <<front, session, sequence, queue, inbox, ui>>,
           main'.reset = main.reset, Current' = Current
    PROVE  Follows'
BY DEF Follows, FollowsWith

\* Only the terminal UI keeps a transcript.
LEMMA OthersFollow ==
    ASSUME front' = front, front # "tui"
    PROVE  Follows'
BY DEF Follows

\* Only the plain loop waits for its own task.
LEMMA OthersAttend ==
    ASSUME front' = front, front # "plain"
    PROVE  Attends'
BY DEF Attends

\* Steps that tell of no end.
LEMMA EndedStays ==
    ASSUME None \notin Tasks, used \subseteq Tasks, Ended, used \subseteq used',
           \A x \in Known' : TellsEnd(x) => x \in Known,
           \/ running' = None
           \/ running' \notin used
           \/ running' = running /\ (phase = "over" => phase' = "over")
    PROVE  Ended'
BY DEF Ended

\* No event of a goal's end is new after an emission without one.
LEMMA EmitKnown ==
    ASSUME FrontEndAssumption, FrontTypes, NEW types \in Seq(EventTypes), NEW t \in Card,
           Emit(types, t), \A j \in 1..Len(inbox') : TellsEnd(inbox'[j]) => inbox'[j] \in Known,
           NEW x \in Known', TellsEnd(x)
    PROVE  x \in Known \/ (x.task = t /\ \E i \in 1..Len(types) : types[i] = "goal.ended")
<1>1. CASE \E j \in 1..Len(inbox') : x = inbox'[j]
  BY <1>1
<1>2. CASE \E j \in 1..Len(queue') : x = queue'[j]
  <2>1. PICK j \in 1..Len(queue') : x = queue'[j]
    BY <1>2
  <2>0. \A n \in 1..Len(queue') :
            \/ queue'[n] = Gap
            \/ \E k \in 1..Len(queue) : queue'[n] = queue[k]
            \/ \E i \in 1..Len(types) : queue'[n] = Event(types[i], sequence[session] + i, t)
    BY EmitTypes
  <2>2. \/ x = Gap
        \/ \E k \in 1..Len(queue) : x = queue[k]
        \/ \E i \in 1..Len(types) : x = Event(types[i], sequence[session] + i, t)
    BY <2>0, <2>1
  <2>3. Gap.kind = "gap" /\ "gap" # "event"
    BY DEF Gap
  <2>4. x # Gap
    BY <2>3 DEF TellsEnd
  <2> QED BY <2>2, <2>4 DEF Known, TellsEnd, Event
<1> QED BY <1>1, <1>2 DEF Known

\* The steps of a front end that change only where its own loop is.
LEMMA FrontStepKeeps ==
    ASSUME FrontEndAssumption, FrontInv,
           UNCHANGED <<front, sessionVars, used, ticket, streamVars, ui>>,
           inbox' = inbox, main' \in Mains, main'.reset = main.reset \/ (front # "tui" /\ ~main'.reset),
           Attends'
    PROVE  FrontInv'
<1> USE DEF sessionVars, streamVars
<1>1. FrontTypes'
  BY DEF FrontInv, FrontTypes, FrontTypeOK, Mains
<1>2. Control'
  BY DEF FrontInv, Control
<1>3. Tickets'
  BY DEF FrontInv, Tickets
<1>4. Follows'
  <2>1. CASE front = "tui"
    BY <2>1, FollowsStays DEF FrontInv, Current
  <2> QED BY <2>1, OthersFollow
<1>5. Ended'
  BY DEF FrontInv, Ended, Known
<1> QED BY <1>1, <1>2, <1>3, <1>4, <1>5 DEF FrontInv

\* An answer: only an open ticket changes, and it stays one that its task waits for.
LEMMA AnswerKeeps ==
    ASSUME FrontEndAssumption, FrontInv, NEW t \in Tasks, Answer(t),
           UNCHANGED <<front, sessionVars, used, streamVars, inbox, ui>>,
           main' \in Mains, main'.reset = main.reset, main'.task = main.task,
           main'.at = main.at \/ (main.at = "asking" /\ main'.at = "waiting" /\ t = main.task)
    PROVE  FrontInv'
<1> USE DEF sessionVars, streamVars
<1>0. /\ ticket' \in [Tasks -> {"none", "open", "set", "closed"}]
      /\ \A u \in Tasks : ticket'[u] \in {"open", "set"} <=> ticket[u] \in {"open", "set"}
      /\ ticket'[t] # "open"
      /\ \A u \in Tasks : ticket'[u] = "open" => ticket[u] = "open"
  BY DEF Answer, FrontInv, FrontTypes
<1>1. FrontTypes'
  BY <1>0 DEF FrontInv, FrontTypes, FrontTypeOK, Mains
<1>2. Control'
  BY DEF FrontInv, Control
<1>3. Tickets'
  BY <1>0 DEF FrontInv, Tickets
<1>4. Follows'
  BY FollowsStays DEF FrontInv, Current
<1>5. Ended'
  BY DEF FrontInv, Ended, Known
<1>6. Attends'
  <2> SUFFICES ASSUME front = "plain" PROVE Attends'
    BY OthersAttend
  <2>1. phase = "ask" => running \in Tasks
    BY DEF FrontInv, FrontTypes, FrontTypeOK
  <2>2. ASSUME phase = "ask", ticket'[running] = "open", main'.at = "waiting"
        PROVE  \E j \in 1..Len(inbox) : inbox[j] = Shown(running)
    <3>1. ticket[running] = "open" /\ running # t /\ main.task = running
      BY <1>0, <2>1, <2>2 DEF FrontInv, Attends
    <3>2. main.at = "waiting"
      BY <2>2, <3>1
    <3> QED BY <2>2, <3>1, <3>2 DEF FrontInv, Attends
  <2> QED BY <2>2 DEF FrontInv, Attends
<1> QED BY <1>1, <1>2, <1>3, <1>4, <1>5, <1>6 DEF FrontInv

\* ApprovalBroker.answer, by each front end that asks.
LEMMA Answers ==
    ASSUME FrontEndAssumption, FrontInv, TuiAnswer \/ PlainAnswer \/ ClassicLine
    PROVE  FrontInv'
<1>1. CASE TuiAnswer
  <2>1. Head(ui.cards) \in Tasks /\ main \in Mains
    BY <1>1 DEF TuiAnswer, FrontInv, FrontTypes, Transcripts
  <2> QED BY <1>1, <2>1, AnswerKeeps DEF TuiAnswer
<1>2. CASE PlainAnswer
  <2>1. main \in Mains /\ main' = [main EXCEPT !.at = "waiting"]
    BY <1>2 DEF PlainAnswer, FrontInv, FrontTypes
  <2>2. main' \in Mains /\ main'.reset = main.reset /\ main'.task = main.task /\ main'.at = "waiting"
    BY <2>1 DEF Mains
  <2>3. main.task \in Tasks /\ main.at = "asking"
    BY <1>2 DEF PlainAnswer, FrontInv, Attends
  <2> QED BY <1>2, <2>1, <2>2, <2>3, AnswerKeeps DEF PlainAnswer
<1>3. CASE ClassicLine
  <2>1. main \in Mains
    BY DEF FrontInv, FrontTypes
  <2> QED BY <1>3, <2>1, AnswerKeeps DEF ClassicLine
<1> QED BY <1>1, <1>2, <1>3

\* An emission, with what the broker tells of it, keeps the messages in order.
LEMMA EmissionFollows ==
    ASSUME FrontEndAssumption, FrontInv, NEW types \in Seq(EventTypes), NEW t \in Card,
           Emit(types, t), ~main.reset, ~main'.reset,
           UNCHANGED <<front, session, ui>>, Current \in Card, Current' \in Card,
           \/ inbox' = inbox /\ Current' = Current
           \/ /\ queue = <<>>
              /\ front = "tui" =>
                    \E x \in Messages :
                        inbox' = Append(inbox, x) /\ \A k \in Nat : Passes(k, Current, x, k, Current'),
           Current' = None \/ \A i \in 1..Len(types) : types[i] # "goal.ended"
    PROVE  Follows'
<1> SUFFICES ASSUME front = "tui" PROVE Follows'
  BY OthersFollow
<1>1. PICK c \in Card, m \in Nat : FollowsWith(c, m)
  BY DEF FrontInv, Follows
<1>2. sequence[session] \in Nat /\ m <= sequence[session] /\ inbox \in Seq(Messages)
  BY <1>1 DEF FollowsWith, FrontInv, FrontTypes, FrontTypeOK
<1>3. Trail(inbox', ui.last, c, m, Current')
  <2>1. CASE inbox' = inbox /\ Current' = Current
    BY <2>1, <1>1 DEF FollowsWith
  <2>2. CASE \E x \in Messages :
                 inbox' = Append(inbox, x) /\ \A k \in Nat : Passes(k, Current, x, k, Current')
    <3> DEFINE d == Current
               e == Current'
    <3>0. Trail(inbox, ui.last, c, m, d) /\ e \in Card
      BY <1>1 DEF FollowsWith
    <3>1. PICK x \in Messages : inbox' = Append(inbox, x) /\ \A k \in Nat : Passes(k, d, x, k, e)
      BY <2>2
    <3> HIDE DEF d, e
    <3>2. \A k \in Nat : k <= m => \E p \in Nat : p <= m /\ Passes(k, d, x, p, e)
      BY <3>1
    <3>3. Trail(Append(inbox, x), ui.last, c, m, e)
      BY <1>2, <3>0, <3>2, TrailGrows
    <3> QED BY <3>1, <3>3 DEF e
  <2> QED BY <2>1, <2>2
<1>4. Trail(queue, m, Current', sequence[session], Current') /\ Numbered(queue, sequence[session])
  <2>1. CASE inbox' = inbox /\ Current' = Current
    BY <2>1, <1>1 DEF FollowsWith
  <2>2. CASE queue = <<>>
    BY <2>2, <1>2, EmptyTrail DEF Numbered
  <2> QED BY <2>1, <2>2
<1>5. stream = "dead" => queue = <<>>
  BY DEF FrontInv, Control
<1>6. /\ m <= sequence'[session]
      /\ Trail(queue', m, Current', sequence'[session], Current')
      /\ Numbered(queue', sequence'[session])
  <2> DEFINE e == Current'
  <2>1. e \in Card /\ Trail(queue, m, e, sequence[session], e) /\ FrontTypes
        /\ (e = None \/ \A i \in 1..Len(types) : types[i] # "goal.ended")
    BY <1>4 DEF FrontInv
  <2> HIDE DEF e
  <2>2. /\ m <= sequence'[session]
        /\ Trail(queue', m, e, sequence'[session], e)
        /\ Numbered(queue', sequence'[session])
    BY <1>2, <1>4, <1>5, <2>1, EmitFollows
  <2> QED BY <2>2 DEF e
<1>7. ui'.cards = Cards(c) /\ ~ui'.refused
  BY <1>1 DEF FollowsWith, FrontInv, Follows
<1> QED BY <1>3, <1>6, <1>7 DEF Follows, FollowsWith

\* An emission tells of the end of a goal when the goal is over.
LEMMA EmissionEnded ==
    ASSUME FrontEndAssumption, FrontInv, NEW types \in Seq(EventTypes), NEW t \in Card,
           Emit(types, t), UNCHANGED <<used, running>>,
           \A j \in 1..Len(inbox') : TellsEnd(inbox'[j]) => inbox'[j] \in Known,
           phase = "over" => phase' = "over",
           (\E i \in 1..Len(types) : types[i] = "goal.ended") => t \in used /\ phase' = "over"
    PROVE  Ended'
<1>1. ASSUME NEW x \in Known', TellsEnd(x)
      PROVE  x.task \in used /\ (x.task = running => phase' = "over")
  <2>1. x \in Known \/ (x.task = t /\ \E i \in 1..Len(types) : types[i] = "goal.ended")
    BY <1>1, EmitKnown DEF FrontInv
  <2> QED BY <1>1, <2>1 DEF FrontInv, Ended
<1> QED BY <1>1 DEF Ended

\* The types an emission keeps.
LEMMA EmissionTypes ==
    ASSUME FrontEndAssumption, FrontInv, NEW types \in Seq(EventTypes), NEW t \in Card,
           Emit(types, t)
    PROVE  /\ queue' \in Seq(Items) /\ Len(queue') <= Limit
           /\ sequence' \in [Sessions -> Nat] /\ stream' = stream
           /\ stream' = "dead" => queue' = <<>>
BY EmitTypes DEF FrontInv, Control

\* What the broker puts into the inbox is no end of a goal.
LEMMA NotifyKnown ==
    ASSUME FrontEndAssumption, FrontInv, NEW t \in Tasks, NEW x \in {Shown(t), Closed(t)}, Notify(x)
    PROVE  /\ inbox' \in Seq(Messages) /\ x \in Messages
           /\ \A j \in 1..Len(inbox') : TellsEnd(inbox'[j]) => inbox'[j] \in Known
           /\ front \in {"tui", "plain"} => inbox' = Append(inbox, x) /\ inbox'[Len(inbox')] = x
                                            /\ Len(inbox') \in 1..Len(inbox')
           /\ \A j \in 1..Len(inbox) : j \in 1..Len(inbox') /\ inbox'[j] = inbox[j]
<1>1. inbox \in Seq(Messages) /\ x \in Messages /\ ~TellsEnd(x)
  BY DEF FrontInv, FrontTypes, Messages, Shown, Closed, TellsEnd
<1>2. CASE inbox' = inbox /\ front \notin {"tui", "plain"}
  BY <1>1, <1>2 DEF Known
<1>3. CASE inbox' = Append(inbox, x)
  <2>1. /\ inbox' \in Seq(Messages) /\ Len(inbox) \in Nat /\ Len(inbox') = Len(inbox) + 1
        /\ inbox'[Len(inbox) + 1] = x
        /\ \A j \in 1..Len(inbox) : inbox'[j] = inbox[j]
    BY <1>1, <1>3
  <2>2. \A j \in 1..Len(inbox') : j = Len(inbox) + 1 \/ j \in 1..Len(inbox)
    BY <2>1
  <2>3. \A j \in 1..Len(inbox') : TellsEnd(inbox'[j]) => inbox'[j] \in Known
    BY <1>1, <2>1, <2>2 DEF Known
  <2> QED BY <1>1, <1>3, <2>1, <2>3
<1>4. front \in {"tui", "plain", "print", "classic"}
  BY DEF FrontInv, FrontTypes, FrontTypeOK, FrontEndAssumption
<1> QED BY <1>1, <1>2, <1>3, <1>4 DEF Notify

\* What the proofs keep needing of the invariant.
LEMMA SomeFacts ==
    ASSUME FrontEndAssumption, FrontInv
    PROVE  /\ None \notin Tasks /\ used \subseteq Tasks /\ None \notin used
           /\ running \in Card /\ main \in Mains /\ inbox \in Seq(Messages) /\ queue \in Seq(Items)
           /\ running = None <=> phase = "none"
           /\ phase = "ask" => running \in Tasks
           /\ Current \in Card
BY DEF FrontEndAssumption, FrontInv, FrontTypes, FrontTypeOK, Card, Current

\* SessionRuntime.start: from here on the front end waits.
LEMMA StartsKeeps ==
    ASSUME FrontEndAssumption, FrontInv, Starts
    PROVE  FrontInv'
<1> DEFINE types == (IF initialized THEN <<>> ELSE <<"session.started">>) \o <<"goal.started">>
<1>0. queue = <<>> /\ ~main.reset /\ phase = "starting" /\ phase' = "run" /\ running' = running
      /\ running \in Tasks /\ initialized \in BOOLEAN
  BY SomeFacts, DrainedMeans DEF Starts, Card, FrontInv, FrontTypes, FrontTypeOK
<1>1. types \in Seq(EventTypes) /\ \A i \in 1..Len(types) : types[i] # "goal.ended"
  <2>1. CASE initialized
    <3>1. types = <<"goal.started">>
      BY <2>1
    <3> QED BY <3>1 DEF EventTypes, Lines
  <2>2. CASE ~initialized
    <3> DEFINE one == <<"session.started">>
               two == <<"goal.started">>
    <3>1. types = one \o two
      BY <2>2
    <3>2. /\ one \in Seq(EventTypes) /\ two \in Seq(EventTypes) /\ Len(one) = 1 /\ Len(two) = 1
          /\ one[1] = "session.started" /\ two[1] = "goal.started"
      BY DEF EventTypes, Lines
    <3> HIDE DEF types, one, two
    <3>3. /\ one \o two \in Seq(EventTypes) /\ Len(one \o two) = 2
          /\ (one \o two)[1] = "session.started" /\ (one \o two)[2] = "goal.started"
      <4>0. one \in Seq(EventTypes) /\ two \in Seq(EventTypes)
        BY <3>2
      <4>1. Len(one \o two) = Len(one) + Len(two) /\ one \o two \in Seq(EventTypes)
        BY <4>0, ConcatProperties
      <4>2. \A i \in 1..2 : (one \o two)[i] = IF i <= 1 THEN one[i] ELSE two[i - 1]
        BY <3>2, <4>1, ConcatProperties
      <4>3. 1 \in 1..2 /\ 2 \in 1..2 /\ 2 - 1 = 1 /\ 1 + 1 = 2 /\ ~(2 <= 1)
        OBVIOUS
      <4> QED BY <3>2, <4>1, <4>2, <4>3
    <3>4. \A i \in 1..2 : i = 1 \/ i = 2
      OBVIOUS
    <3> QED BY <3>1, <3>3, <3>4
  <2> QED BY <2>1, <2>2
<1>2. Emit(types, running) /\ running \in Card
  BY <1>0 DEF Starts, Card
<1> HIDE DEF types
<1>3. main' \in Mains /\ main'.reset = main.reset /\ main'.task = main.task
      /\ main'.at = (IF main.at = "submitting" THEN "waiting" ELSE main.at)
  <2>1. main' = IF main.at = "submitting" THEN [main EXCEPT !.at = "waiting"] ELSE main
    BY DEF Starts, Tracked
  <2> QED BY <2>1, SomeFacts DEF Mains
<1>4. UNCHANGED <<front, session, running, steps, target, used, ticket, inbox, ui, switches, faults>>
      /\ initialized' = TRUE
  BY DEF Starts
<1>5. FrontTypes'
  BY <1>0, <1>1, <1>2, <1>3, <1>4, EmissionTypes DEF FrontInv, FrontTypes, FrontTypeOK
<1>6. Control'
  BY <1>0, <1>1, <1>2, <1>3, <1>4, EmissionTypes DEF FrontInv, Control
<1>7. Tickets'
  BY <1>0, <1>4 DEF FrontInv, Tickets
<1>8. Current = None /\ Current' = None /\ None \in Card
  BY <1>0 DEF Current, Card
<1>9. Follows'
  BY <1>0, <1>1, <1>2, <1>3, <1>4, <1>8, EmissionFollows
<1>10. Ended'
  BY <1>0, <1>1, <1>2, <1>4, EmissionEnded DEF Known
<1>11. Attends'
  BY <1>0, <1>3, <1>4 DEF FrontInv, Attends
<1> QED BY <1>5, <1>6, <1>7, <1>9, <1>10, <1>11 DEF FrontInv

\* A plan and a call.
LEMMA StepKeeps ==
    ASSUME FrontEndAssumption, FrontInv, Step
    PROVE  FrontInv'
<1> DEFINE types == <<"plan.updated", "action.proposed", "observation.compiled">>
<1>0. queue = <<>> /\ ~main.reset /\ phase = "run" /\ phase' = phase /\ running' = running
      /\ running \in Tasks
  BY SomeFacts, DrainedMeans DEF Step, Card
<1>1. types \in Seq(EventTypes) /\ \A i \in 1..Len(types) : types[i] # "goal.ended"
  BY DEF EventTypes, Lines
<1>2. Emit(types, running) /\ running \in Card
  BY <1>0 DEF Step, Card
<1> HIDE DEF types
<1>4. UNCHANGED <<front, session, initialized, target, used, ticket, inbox, ui, main>>
      /\ steps' \in 0..MaxSteps
  BY DEF Step, FrontInv, FrontTypes, FrontTypeOK, FrontEndAssumption
<1>5. FrontTypes'
  BY <1>0, <1>1, <1>2, <1>4, EmissionTypes DEF FrontInv, FrontTypes, FrontTypeOK
<1>6. Control'
  BY <1>0, <1>1, <1>2, <1>4, EmissionTypes DEF FrontInv, Control
<1>7. Tickets'
  BY <1>0, <1>4 DEF FrontInv, Tickets
<1>8. Current = None /\ Current' = None /\ None \in Card
  BY <1>0 DEF Current, Card
<1>9. Follows'
  BY <1>0, <1>1, <1>2, <1>4, <1>8, EmissionFollows
<1>10. Ended'
  BY <1>0, <1>1, <1>2, <1>4, EmissionEnded DEF Known
<1>11. Attends'
  BY <1>0, <1>4 DEF FrontInv, Attends
<1> QED BY <1>5, <1>6, <1>7, <1>9, <1>10, <1>11 DEF FrontInv

\* The goal's last event: it is not awaited, so the queue need not be empty.
LEMMA GoalIsOverKeeps ==
    ASSUME FrontEndAssumption, FrontInv, GoalIsOver
    PROVE  FrontInv'
<1> DEFINE types == <<"goal.ended">>
<1>0. ~main.reset /\ phase = "run" /\ phase' = "over" /\ running' = running /\ running \in Tasks
  BY SomeFacts DEF GoalIsOver, Card, FrontInv, Control
<1>1. types \in Seq(EventTypes)
  BY DEF EventTypes, Lines
<1>2. Emit(types, running) /\ running \in Card /\ running \in used
  BY <1>0, SomeFacts DEF GoalIsOver, Card, FrontInv, Control
<1> HIDE DEF types
<1>4. UNCHANGED <<front, session, initialized, steps, target, used, ticket, inbox, ui, main>>
  BY DEF GoalIsOver
<1>5. FrontTypes'
  BY <1>0, <1>1, <1>2, <1>4, EmissionTypes DEF FrontInv, FrontTypes, FrontTypeOK
<1>6. Control'
  BY <1>0, <1>1, <1>2, <1>4, SomeFacts, EmissionTypes DEF FrontInv, Control
<1>7. Tickets'
  BY <1>0, <1>4 DEF FrontInv, Tickets
<1>8. Current = None /\ Current' = None /\ None \in Card
  BY <1>0 DEF Current, Card
<1>9. Follows'
  BY <1>0, <1>1, <1>2, <1>4, <1>8, EmissionFollows
<1>10. Ended'
  BY <1>0, <1>1, <1>2, <1>4, EmissionEnded DEF Known
<1>11. Attends'
  BY <1>0, <1>4 DEF FrontInv, Attends
<1> QED BY <1>5, <1>6, <1>7, <1>9, <1>10, <1>11 DEF FrontInv

\* A question: the ticket's card goes to the inbox.
LEMMA AskKeeps ==
    ASSUME FrontEndAssumption, FrontInv, Ask
    PROVE  FrontInv'
<1> DEFINE types == <<"action.proposed", "approval.requested">>
<1>0. queue = <<>> /\ ~main.reset /\ phase = "run" /\ phase' = "ask" /\ running' = running
      /\ running \in Tasks /\ Notify(Shown(running))
  BY SomeFacts, DrainedMeans DEF Ask, Card
<1>1. types \in Seq(EventTypes) /\ \A i \in 1..Len(types) : types[i] # "goal.ended"
  BY DEF EventTypes, Lines
<1>2. Emit(types, running) /\ running \in Card
  BY <1>0 DEF Ask, Card
<1> HIDE DEF types
<1>4. UNCHANGED <<front, session, initialized, steps, target, used, ui, main>>
      /\ ticket' = [ticket EXCEPT ![running] = "open"]
  BY DEF Ask
<1>n. /\ inbox' \in Seq(Messages) /\ Shown(running) \in Messages
      /\ \A j \in 1..Len(inbox') : TellsEnd(inbox'[j]) => inbox'[j] \in Known
      /\ front \in {"tui", "plain"} => inbox' = Append(inbox, Shown(running))
                                         /\ inbox'[Len(inbox')] = Shown(running)
                                         /\ Len(inbox') \in 1..Len(inbox')
  BY <1>0, NotifyKnown
<1>t. /\ ticket' \in [Tasks -> {"none", "open", "set", "closed"}]
      /\ ticket'[running] = "open" /\ \A u \in Tasks : u # running => ticket'[u] = ticket[u]
  BY <1>0, <1>4 DEF FrontInv, FrontTypes
<1>5. FrontTypes'
  BY <1>0, <1>1, <1>2, <1>4, <1>n, <1>t, EmissionTypes DEF FrontInv, FrontTypes, FrontTypeOK
<1>6. Control'
  BY <1>0, <1>1, <1>2, <1>4, EmissionTypes DEF FrontInv, Control
<1>7. Tickets'
  BY <1>0, <1>t DEF FrontInv, Tickets
<1>8. Current = None /\ Current' = running /\ None \in Card /\ running \in Card
  BY <1>0 DEF Current, Card
<1>p. \A k \in Nat : Passes(k, Current, Shown(running), k, Current')
  BY <1>8 DEF Passes, Shown
<1>9. Follows'
  BY <1>0, <1>1, <1>2, <1>4, <1>8, <1>n, <1>p, EmissionFollows
<1>10. Ended'
  BY <1>0, <1>1, <1>2, <1>4, <1>n, EmissionEnded
<1>11. Attends'
  BY <1>0, <1>4, <1>n DEF FrontInv, Attends
<1> QED BY <1>5, <1>6, <1>7, <1>9, <1>10, <1>11 DEF FrontInv

\* What is common to the two ends of a question: it is taken from the screen.
LEMMA ResolveKeeps ==
    ASSUME FrontEndAssumption, FrontInv, NEW types \in Seq(EventTypes), Emit(types, running),
           Drained, phase = "ask", Resolve,
           \/ phase' = "over"
           \/ phase' = "run" /\ \A i \in 1..Len(types) : types[i] # "goal.ended",
           UNCHANGED <<front, session, initialized, running, steps, target, used, ui, main>>
    PROVE  FrontInv'
<1>0. queue = <<>> /\ ~main.reset /\ running \in Tasks /\ Notify(Closed(running)) /\ running \in Card
      /\ running \in used
  BY SomeFacts, DrainedMeans DEF Resolve, Card, FrontInv, Control
<1>n. /\ inbox' \in Seq(Messages) /\ Closed(running) \in Messages
      /\ \A j \in 1..Len(inbox') : TellsEnd(inbox'[j]) => inbox'[j] \in Known
      /\ front \in {"tui", "plain"} => inbox' = Append(inbox, Closed(running))
  BY <1>0, NotifyKnown
<1>t. /\ ticket' \in [Tasks -> {"none", "open", "set", "closed"}]
      /\ ticket'[running] = "closed" /\ \A u \in Tasks : u # running => ticket'[u] = ticket[u]
  BY <1>0 DEF Resolve, FrontInv, FrontTypes
<1>5. FrontTypes'
  BY <1>0, <1>n, <1>t, EmissionTypes DEF FrontInv, FrontTypes, FrontTypeOK
<1>6. Control'
  BY <1>0, EmissionTypes DEF FrontInv, Control
<1>7. Tickets'
  BY <1>0, <1>t DEF FrontInv, Tickets
<1>8. Current = running /\ Current' = None /\ None \in Card
  BY <1>0 DEF Current, Card
<1>p. \A k \in Nat : Passes(k, Current, Closed(running), k, Current')
  BY <1>8 DEF Passes, Closed
<1>9. Follows'
  BY <1>0, <1>8, <1>n, <1>p, EmissionFollows
<1>10. Ended'
  BY <1>0, <1>n, EmissionEnded
<1>11. Attends'
  BY <1>0 DEF FrontInv, Attends
<1> QED BY <1>5, <1>6, <1>7, <1>9, <1>10, <1>11 DEF FrontInv

\* The wait ends: the card goes.
LEMMA AnsweredKeeps ==
    ASSUME FrontEndAssumption, FrontInv, Answered
    PROVE  FrontInv'
<1> DEFINE types == <<"approval.answered">>
<1>1. types \in Seq(EventTypes) /\ \A i \in 1..Len(types) : types[i] # "goal.ended"
  BY DEF EventTypes, Lines
<1>2. Emit(types, running)
  BY DEF Answered
<1> HIDE DEF types
<1> QED BY <1>1, <1>2, ResolveKeeps DEF Answered

\* What is added at the end of the inbox.
LEMMA Added ==
    ASSUME NEW q \in Seq(Messages), NEW x \in Messages
    PROVE  /\ q \o <<x>> = Append(q, x) /\ Append(q, x) \in Seq(Messages)
           /\ Len(Append(q, x)) = Len(q) + 1
           /\ \A j \in 1..Len(Append(q, x)) :
                  Append(q, x)[j] = x \/ \E k \in 1..Len(q) : Append(q, x)[j] = q[k]
           /\ \A k \in 1..Len(q) : k \in 1..Len(Append(q, x)) /\ Append(q, x)[k] = q[k]
<1>1. q \o <<x>> = Append(q, x)
  BY AppendIsConcat
<1>2. /\ Append(q, x) \in Seq(Messages) /\ Len(Append(q, x)) = Len(q) + 1 /\ Len(q) \in Nat
      /\ \A j \in 1..Len(q) + 1 : Append(q, x)[j] = IF j = Len(q) + 1 THEN x ELSE q[j]
  OBVIOUS
<1>3. \A j \in 1..Len(q) + 1 : j = Len(q) + 1 \/ j \in 1..Len(q)
  BY <1>2
<1> QED BY <1>1, <1>2, <1>3

\* Nothing but a message that is no end of a goal comes into the inbox, and the
\* queue loses what it loses: every step of the streams is of this form.
LEMMA InboxGrows ==
    ASSUME FrontEndAssumption, FrontInv, UNCHANGED <<front, used, running, phase, ticket>>,
           main'.at = main.at, main'.task = main.task,
           \/ inbox' = inbox
           \/ \E x \in Messages : inbox' = Append(inbox, x) /\ (TellsEnd(x) => x \in Known),
           \A j \in 1..Len(queue') : queue'[j] \in Known \/ ~TellsEnd(queue'[j])
    PROVE  Ended' /\ Attends' /\ inbox' \in Seq(Messages)
<1>1. inbox \in Seq(Messages)
  BY DEF FrontInv, FrontTypes
<1>2. /\ inbox' \in Seq(Messages)
      /\ \A j \in 1..Len(inbox') : inbox'[j] \in Known \/ ~TellsEnd(inbox'[j])
      /\ \A k \in 1..Len(inbox) : k \in 1..Len(inbox') /\ inbox'[k] = inbox[k]
  <2>1. CASE inbox' = inbox
    BY <1>1, <2>1 DEF Known
  <2>2. CASE \E x \in Messages : inbox' = Append(inbox, x) /\ (TellsEnd(x) => x \in Known)
    <3>1. PICK x \in Messages : inbox' = Append(inbox, x) /\ (TellsEnd(x) => x \in Known)
      BY <2>2
    <3>2. \A k \in 1..Len(inbox) : inbox[k] \in Known
      BY DEF Known
    <3> QED BY <1>1, <3>1, <3>2, Added
  <2> QED BY <2>1, <2>2
<1>3. \A x \in Known' : TellsEnd(x) => x \in Known
  BY <1>2 DEF Known
<1>4. Ended'
  BY <1>3, SomeFacts, EndedStays DEF FrontInv
<1>5. Attends'
  BY <1>2 DEF FrontInv, Attends
<1> QED BY <1>2, <1>4, <1>5

\* The head of the queue, and what is behind it.
LEMMA QueueHead ==
    ASSUME FrontEndAssumption, FrontInv, queue # <<>>
    PROVE  /\ Head(queue) \in Items /\ Head(queue) \in Known /\ Tail(queue) \in Seq(Items)
           /\ Len(Tail(queue)) <= Limit
           /\ \A j \in 1..Len(Tail(queue)) :
                 /\ Tail(queue)[j] = queue[j + 1] /\ j + 1 \in 1..Len(queue)
                 /\ Tail(queue)[j] \in Known
           /\ queue \in Closing => Tail(queue) = <<>> /\ \E n \in Nat : Head(queue) = SessionClosed(n)
           /\ queue \in Switching =>
                 /\ Tail(queue) \in {<<>>, <<Reset>>}
                 /\ Head(queue) \in {Gap, Reset} \/ \E n \in Nat : Head(queue) = SessionClosed(n)
<1>1. queue \in Seq(Items) /\ Len(queue) <= Limit /\ Limit \in Nat
  BY DEF FrontInv, FrontTypes, FrontTypeOK, FrontEndAssumption
<1>0. \A x, y : Head(<<x>>) = x /\ Tail(<<x>>) = <<>> /\ Head(<<x, y>>) = x /\ Tail(<<x, y>>) = <<y>>
  OBVIOUS
<1>2. /\ Len(queue) \in Nat \ {0} /\ Head(queue) = queue[1] /\ Head(queue) \in Items
      /\ Tail(queue) \in Seq(Items) /\ Len(Tail(queue)) = Len(queue) - 1
      /\ \A j \in 1..Len(Tail(queue)) : Tail(queue)[j] = queue[j + 1] /\ j + 1 \in 1..Len(queue)
  BY <1>1
<1>3. queue \in Closing => Tail(queue) = <<>> /\ \E n \in Nat : Head(queue) = SessionClosed(n)
  <2> SUFFICES ASSUME NEW n \in Nat, queue = <<SessionClosed(n)>>
               PROVE  Tail(queue) = <<>> /\ Head(queue) = SessionClosed(n)
    BY DEF Closing
  <2> QED BY <1>0
<1>4. queue \in Switching =>
        /\ Tail(queue) \in {<<>>, <<Reset>>}
        /\ Head(queue) \in {Gap, Reset} \/ \E n \in Nat : Head(queue) = SessionClosed(n)
  <2>1. CASE queue \in {<<Gap>>, <<Reset>>}
    BY <1>0, <2>1
  <2>2. ASSUME NEW n \in Nat, queue = <<SessionClosed(n), Reset>>
        PROVE  Tail(queue) = <<Reset>> /\ Head(queue) = SessionClosed(n)
    BY <1>0, <2>2
  <2> QED BY <2>1, <2>2 DEF Switching
<1>5. Head(queue) \in Known /\ \A j \in 1..Len(Tail(queue)) : Tail(queue)[j] \in Known
  <2>1. 1 \in 1..Len(queue)
    BY <1>2
  <2> QED BY <1>2, <2>1 DEF Known
<1>6. Len(Tail(queue)) <= Limit
  BY <1>1, <1>2
<1> QED BY <1>2, <1>3, <1>4, <1>5, <1>6

\* What the forwarder puts into the inbox for one item.
LEMMA ForwardedIs ==
    ASSUME FrontEndAssumption, FrontInv, NEW x \in Items
    PROVE  \/ Forwarded(x) = <<>> /\ (front = "tui" => x \notin EventsOf(Lines) /\ x # Reset)
           \/ Forwarded(x) = <<x>> /\ x \in EventsOf(Lines)
           \/ Forwarded(x) = <<Settled>> /\ x = Gap /\ running = None
           \/ Forwarded(x) = <<Reset>> /\ x = Reset
<1>1. CASE x \in EventsOf(EventTypes)
  <2>1. x.kind = "event" /\ x.type \in EventTypes
    BY <1>1 DEF EventsOf
  <2>2. x # Reset
    BY <2>1 DEF Reset
  <2>3. ProjectEvent(x.type) = "none" <=> x.type \notin Lines
    BY <2>1 DEF ProjectEvent, Lines, EventTypes
  <2>4. x \in EventsOf(Lines) <=> x.type \in Lines
    BY <1>1 DEF EventsOf
  <2>5. Forwarded(x) = IF ProjectEvent(x.type) = "none" \/ (front = "print" /\ x.type # "goal.ended")
                       THEN <<>> ELSE <<x>>
    BY <2>1 DEF Forwarded
  <2> QED BY <2>2, <2>3, <2>4, <2>5
<1>2. CASE x = Gap
  <2>1. x.kind = "gap" /\ x \notin EventsOf(Lines) /\ x # Reset
    BY <1>2 DEF Gap, Reset, EventsOf
  <2>2. Forwarded(x) = IF front = "tui" THEN SettleIfIdle ELSE <<>>
    BY <2>1 DEF Forwarded
  <2> QED BY <1>2, <2>1, <2>2 DEF SettleIfIdle, Busy
<1>3. CASE x = Reset
  <2>1. Forwarded(x) = IF front = "tui" THEN <<Reset>> ELSE <<>>
    BY <1>3 DEF Forwarded, Reset
  <2> QED BY <1>3, <2>1
<1> QED BY <1>1, <1>2, <1>3 DEF Items

\* In the inbox it is a message, and nothing new of an end.
LEMMA ForwardKeepsEnds ==
    ASSUME FrontEndAssumption, FrontInv, queue # <<>>, inbox' = inbox \o Forwarded(Head(queue))
    PROVE  \/ inbox' = inbox
           \/ \E x \in Messages : inbox' = Append(inbox, x) /\ (TellsEnd(x) => x \in Known)
<1> DEFINE x == Head(queue)
<1>1. x \in Items /\ x \in Known /\ inbox \in Seq(Messages)
  BY QueueHead, SomeFacts
<1>2. \A s \in Seq(Messages) : s \o <<>> = s
  BY ConcatEmptySeq
<1>3. Settled \in Messages /\ ~TellsEnd(Settled) /\ Reset \in Messages /\ ~TellsEnd(Reset)
      /\ EventsOf(Lines) \subseteq Messages
  BY DEF Messages, TellsEnd, Settled, Reset
<1> HIDE DEF x
<1>4. \A y \in Messages : inbox \o <<y>> = Append(inbox, y)
  BY <1>1, Added
<1> QED BY <1>1, <1>2, <1>3, <1>4, ForwardedIs DEF x

\* And in order.
LEMMA ForwardFollows ==
    ASSUME FrontEndAssumption, FrontInv, Forward
    PROVE  Follows'
<1> SUFFICES ASSUME front = "tui" PROVE Follows'
  BY OthersFollow DEF Forward
<1> DEFINE x == Head(queue)
<1>0. /\ x \in Items /\ Tail(queue) \in Seq(Items) /\ queue # <<>> /\ queue \in Seq(Items)
      /\ \A j \in 1..Len(Tail(queue)) : Tail(queue)[j] = queue[j + 1] /\ j + 1 \in 1..Len(queue)
      /\ inbox \in Seq(Messages) /\ Current \in Card
  BY QueueHead, SomeFacts DEF Forward
<1>1. PICK c \in Card, m \in Nat : FollowsWith(c, m)
  BY DEF FrontInv, Follows
<1>2. /\ queue' = Tail(queue) /\ inbox' = inbox \o Forwarded(x)
      /\ UNCHANGED <<front, session, sequence, running, phase, ui, main>>
  BY DEF Forward, sessionVars
<1>3. Current' = Current /\ sequence[session] \in Nat
  BY <1>2 DEF Current, FrontInv, FrontTypes, FrontTypeOK
<1>4. ~main.reset => \E p \in Nat, e \in Card :
         Passes(m, Current, x, p, e) /\ Trail(Tail(queue), p, e, sequence[session], Current)
  <2> DEFINE s == sequence[session]
             d == Current
  <2>1. ~main.reset => Trail(queue, m, d, s, d)
    BY <1>1 DEF FollowsWith
  <2>2. s \in Nat
    BY <1>3
  <2> HIDE DEF s, d, x
  <2>3. ~main.reset => \E p \in Nat, e \in Card : Passes(m, d, Head(queue), p, e) /\ Trail(Tail(queue), p, e, s, d)
    BY <1>0, <2>1, <2>2, TrailGoesOn
  <2> QED BY <2>3 DEF s, d, x
<1>5. ~main.reset => Numbered(Tail(queue), sequence[session])
  BY <1>0, <1>1 DEF FollowsWith, Numbered
<1>6. main.reset => x \notin EventsOf(Lines) /\ (x = Reset \/ x = Gap \/ \E n \in Nat : x = SessionClosed(n))
  <2>1. main.reset => x \in {Gap, Reset} \/ \E n \in Nat : x = SessionClosed(n)
    BY QueueHead, <1>0 DEF FrontInv, Control
  <2>2. Gap \notin EventsOf(Lines) /\ Reset \notin EventsOf(Lines)
        /\ \A n \in Nat : SessionClosed(n) \notin EventsOf(Lines)
    BY DEF Gap, Reset, SessionClosed, Event, EventsOf, Lines
  <2> QED BY <2>1, <2>2
<1>7. ui.cards = Cards(c) /\ ~ui.refused /\ Trail(inbox, ui.last, c, m, Current)
  BY <1>1 DEF FollowsWith, FrontInv, Follows
<1>w. SUFFICES \E n \in Nat :
          /\ Trail(inbox', ui.last, c, n, Current)
          /\ ~main.reset => /\ n <= sequence[session]
                            /\ Trail(Tail(queue), n, Current, sequence[session], Current)
  BY <1>2, <1>3, <1>5, <1>7 DEF Follows, FollowsWith
<1>8. CASE Forwarded(x) = <<>> /\ x \notin EventsOf(Lines) /\ x # Reset
  <2>1. inbox' = inbox
    BY <1>0, <1>2, <1>8, ConcatEmptySeq
  <2>2. x.kind = "gap" \/ (x.kind = "event" /\ x.type \notin Lines)
    BY <1>0, <1>8 DEF Items, EventsOf, Gap
  <2>3. \A p, e : Passes(m, Current, x, p, e) => p = m /\ e = Current
    BY <2>2 DEF Passes
  <2> QED BY <1>1, <1>4, <1>7, <2>1, <2>3 DEF FollowsWith
<1>9. CASE Forwarded(x) = <<x>> /\ x \in EventsOf(Lines)
  <2>1. x \in Messages /\ ~main.reset
    BY <1>6, <1>9 DEF Messages
  <2>2. inbox' = Append(inbox, x)
    BY <1>0, <1>2, <1>9, <2>1, Added
  <2>3. PICK p \in Nat, e \in Card :
          Passes(m, Current, x, p, e) /\ Trail(Tail(queue), p, e, sequence[session], Current)
    BY <1>4, <2>1
  <2>4. x.kind = "event" /\ x.type \in Lines /\ x.sequence \in Nat
    BY <1>9 DEF EventsOf
  <2>5. /\ m < x.sequence /\ p = x.sequence /\ e = Current
        /\ x.type = "goal.ended" => Current = None
    BY <2>3, <2>4 DEF Passes
  <2>6. p <= sequence[session]
    <3>1. 1 \in 1..Len(queue) /\ queue[1] = x
      BY <1>0
    <3> QED BY <1>1, <1>9, <2>1, <2>5, <3>1 DEF FollowsWith, Numbered
  <2>7. Trail(inbox', ui.last, c, p, Current)
    <3> DEFINE d == Current
    <3>1. Trail(inbox, ui.last, c, m, d) /\ d \in Card
      BY <1>0, <1>7
    <3>0. x.type = "goal.ended" => d = None
      BY <2>5
    <3> HIDE DEF d, x
    <3>2. \A k \in Nat : k <= m => Passes(k, d, x, p, d)
      BY <2>4, <2>5, <3>0 DEF Passes
    <3>3. Trail(Append(inbox, x), ui.last, c, p, d)
      BY <1>0, <2>1, <2>3, <3>1, <3>2, TrailGrows
    <3> QED BY <2>2, <3>3 DEF d
  <2> QED BY <2>3, <2>5, <2>6, <2>7
<1>10. CASE Forwarded(x) = <<Settled>> /\ x = Gap /\ running = None
  <2>1. Settled \in Messages /\ Settled.kind = "settled" /\ x.kind = "gap"
    BY <1>10 DEF Messages, Settled, Gap
  <2>2. inbox' = Append(inbox, Settled)
    <3>1. inbox \o <<Settled>> = Append(inbox, Settled)
      BY <1>0, <2>1, Added
    <3>2. inbox' = inbox \o <<Settled>>
      BY <1>2, <1>10
    <3> QED BY <3>1, <3>2
  <2>3. Current = None
    BY <1>10 DEF Current
  <2>4. \A p, e : Passes(m, Current, x, p, e) => p = m /\ e = Current
    BY <2>1 DEF Passes
  <2>5. Trail(inbox', ui.last, c, m, Current)
    <3> DEFINE d == Current
    <3>1. Trail(inbox, ui.last, c, m, d) /\ d \in Card
      BY <1>0, <1>7
    <3>2. \A k \in Nat : Passes(k, d, Settled, k, d)
      BY <2>1, <2>3 DEF Passes
    <3> HIDE DEF d
    <3>3. Trail(Append(inbox, Settled), ui.last, c, m, d)
      BY <1>0, <2>1, <3>1, <3>2, TrailGrows
    <3> QED BY <2>2, <3>3 DEF d
  <2> QED BY <1>1, <1>4, <2>4, <2>5 DEF FollowsWith
<1>11. CASE Forwarded(x) = <<Reset>> /\ x = Reset
  <2>1. Reset \in Messages /\ Reset.kind = "reset"
    BY DEF Messages, Reset
  <2>2. inbox' = Append(inbox, Reset)
    <3>1. inbox \o <<Reset>> = Append(inbox, Reset)
      BY <1>0, <2>1, Added
    <3>2. inbox' = inbox \o <<Reset>>
      BY <1>2, <1>11
    <3> QED BY <3>1, <3>2
  <2>4. \A p, e : Passes(m, Current, x, p, e) => p = 0 /\ e = Current
    BY <1>11, <2>1 DEF Passes
  <2>5. Trail(inbox', ui.last, c, 0, Current)
    <3> DEFINE d == Current
    <3>1. Trail(inbox, ui.last, c, m, d) /\ d \in Card
      BY <1>0, <1>7
    <3>2. \A k \in Nat : Passes(k, d, Reset, 0, d)
      BY <2>1 DEF Passes
    <3> HIDE DEF d
    <3>3. Trail(Append(inbox, Reset), ui.last, c, 0, d)
      BY <1>0, <2>1, <3>1, <3>2, TrailGrows
    <3> QED BY <2>2, <3>3 DEF d
  <2> QED BY <1>3, <1>4, <2>4, <2>5
<1> QED BY <1>0, <1>8, <1>9, <1>10, <1>11, ForwardedIs

\* _forward_stream, one item.
LEMMA ForwardKeeps ==
    ASSUME FrontEndAssumption, FrontInv, Forward
    PROVE  FrontInv'
<1>1. /\ queue # <<>> /\ queue' = Tail(queue) /\ inbox' = inbox \o Forwarded(Head(queue)) /\ stream = "up"
      /\ UNCHANGED <<front, session, sequence, initialized, running, phase, steps, target, used,
                     ticket, stream, ui, main>>
  BY DEF Forward, sessionVars
<1>2. Ended' /\ Attends' /\ inbox' \in Seq(Messages)
  BY <1>1, QueueHead, ForwardKeepsEnds, InboxGrows
<1>3. FrontTypes'
  BY <1>1, <1>2, QueueHead DEF FrontInv, FrontTypes, FrontTypeOK
<1>4. Control'
  <2>1. <<>> \in Closing /\ {<<>>, <<Reset>>} \subseteq Switching
    BY DEF Closing, Switching
  <2> QED BY <1>1, <2>1, QueueHead DEF FrontInv, Control
<1>5. Tickets'
  BY <1>1 DEF FrontInv, Tickets
<1> QED BY <1>2, <1>3, <1>4, <1>5, ForwardFollows DEF FrontInv

\* One more message in the inbox that no number depends on.
LEMMA InboxFollows ==
    ASSUME FrontEndAssumption, FrontInv, NEW c \in Card, NEW m \in Nat, FollowsWith(c, m),
           NEW x \in Messages, NEW n \in Nat, n <= m,
           \A k \in Nat : k <= m => \E p \in Nat : p <= n /\ Passes(k, Current, x, p, Current)
    PROVE  Trail(Append(inbox, x), ui.last, c, n, Current)
<1> DEFINE d == Current
<1>1. Trail(inbox, ui.last, c, m, d) /\ d \in Card /\ inbox \in Seq(Messages)
  BY SomeFacts DEF FollowsWith
<1>2. \A k \in Nat : k <= m => \E p \in Nat : p <= n /\ Passes(k, d, x, p, d)
  OBVIOUS
<1> HIDE DEF d
<1>3. Trail(Append(inbox, x), ui.last, c, n, d)
  BY <1>1, <1>2, TrailGrows
<1> QED BY <1>3 DEF d

\* _settle_if_idle: with nothing running there is no card to lose.
LEMMA SettledFollows ==
    ASSUME FrontEndAssumption, FrontInv, running = None, NEW c \in Card, NEW m \in Nat, FollowsWith(c, m)
    PROVE  /\ Settled \in Messages /\ ~TellsEnd(Settled)
           /\ Trail(Append(inbox, Settled), ui.last, c, m, Current)
<1>1. Settled \in Messages /\ Settled.kind = "settled" /\ ~TellsEnd(Settled) /\ Current = None
  BY DEF Messages, Settled, TellsEnd, Current
<1>2. \A k \in Nat : k <= m => \E p \in Nat : p <= m /\ Passes(k, Current, Settled, p, Current)
  BY <1>1 DEF Passes
<1> QED BY <1>1, <1>2, InboxFollows

\* The rest of the stream is lost, the inbox stays.
LEMMA StreamBreaksKeeps ==
    ASSUME FrontEndAssumption, FrontInv, StreamBreaks
    PROVE  FrontInv'
<1>1. /\ queue' = <<>> /\ stream' = "dead"
      /\ inbox' = inbox \o (IF front = "tui" THEN SettleIfIdle ELSE <<>>)
      /\ UNCHANGED <<front, session, sequence, initialized, running, phase, steps, target, used,
                     ticket, ui, main>>
  BY DEF StreamBreaks, sessionVars
<1>2. Settled \in Messages /\ ~TellsEnd(Settled)
  BY DEF Messages, Settled, TellsEnd
<1>3. \/ inbox' = inbox
      \/ front = "tui" /\ running = None /\ inbox' = Append(inbox, Settled)
  <2>1. inbox \o <<>> = inbox /\ inbox \o <<Settled>> = Append(inbox, Settled)
    BY <1>2, SomeFacts, Added, ConcatEmptySeq
  <2> QED BY <1>1, <2>1 DEF SettleIfIdle, Busy
<1>4. Ended' /\ Attends' /\ inbox' \in Seq(Messages)
  <2>1. \A j \in 1..Len(queue') : queue'[j] \in Known \/ ~TellsEnd(queue'[j])
    BY <1>1
  <2> QED BY <1>1, <1>2, <1>3, <2>1, InboxGrows
<1>5. FrontTypes'
  BY <1>1, <1>4 DEF FrontInv, FrontTypes, FrontTypeOK, FrontEndAssumption
<1>6. Control'
  BY <1>1 DEF FrontInv, Control, Closing, Switching
<1>7. Tickets'
  BY <1>1 DEF FrontInv, Tickets
<1>8. Follows'
  <2> SUFFICES ASSUME front = "tui" PROVE Follows'
    BY <1>1, OthersFollow
  <2>1. PICK c \in Card, m \in Nat : FollowsWith(c, m)
    BY DEF FrontInv, Follows
  <2>2. Current' = Current /\ sequence[session] \in Nat /\ Current \in Card
    BY <1>1, SomeFacts DEF Current, FrontInv, FrontTypes, FrontTypeOK
  <2>3. Trail(inbox', ui.last, c, m, Current)
    BY <1>3, <2>1, SettledFollows DEF FollowsWith
  <2>4. ~main.reset => Trail(<<>>, m, Current, sequence[session], Current)
    BY <2>1, <2>2, EmptyTrail DEF FollowsWith
  <2>5. Numbered(<<>>, sequence[session])
    BY DEF Numbered
  <2> QED BY <1>1, <2>1, <2>2, <2>3, <2>4, <2>5 DEF FollowsWith, Follows, FrontInv
<1> QED BY <1>4, <1>5, <1>6, <1>7, <1>8 DEF FrontInv

\* SessionRuntime.run_task returns.
LEMMA TaskReturnsKeeps ==
    ASSUME FrontEndAssumption, FrontInv, TaskReturns
    PROVE  FrontInv'
<1>1. /\ phase = "over" /\ phase' = "none" /\ running' = None
      /\ UNCHANGED <<front, session, sequence, initialized, steps, target, used, ticket, queue, stream,
                     inbox, ui, main>>
  BY DEF TaskReturns, Quiet, streamVars
<1>2. FrontTypes'
  BY <1>1 DEF FrontInv, FrontTypes, FrontTypeOK
<1>3. Control'
  BY <1>1 DEF FrontInv, Control
<1>4. Tickets'
  BY <1>1 DEF FrontInv, Tickets
<1>5. Follows'
  BY <1>1, FollowsStays DEF FrontInv, Current
<1>6. Ended'
  BY <1>1, SomeFacts, EndedStays DEF FrontInv, Known
<1>7. Attends'
  BY <1>1 DEF FrontInv, Attends
<1> QED BY <1>2, <1>3, <1>4, <1>5, <1>6, <1>7 DEF FrontInv

\* A start that fails, or that is cancelled.
LEMMA StartEndsKeeps ==
    ASSUME FrontEndAssumption, FrontInv, phase = "starting", phase' = "none", running' = None,
           UNCHANGED <<front, session, sequence, initialized, steps, target, used, ticket, queue, stream,
                       inbox, ui>>,
           \E at \in {"prompt", "exited"} : Tracked(at)
    PROVE  FrontInv'
<1>1. main' \in Mains /\ main'.reset = main.reset /\ main'.task = main.task
      /\ (main'.at = "asking" => main.at = "asking")
  <2>1. PICK at \in {"prompt", "exited"} :
            main' = IF main.at = "submitting" THEN [main EXCEPT !.at = at] ELSE main
    BY DEF Tracked
  <2> QED BY <2>1, SomeFacts DEF Mains
<1>2. FrontTypes'
  BY <1>1 DEF FrontInv, FrontTypes, FrontTypeOK, Mains
<1>3. Control'
  BY <1>1 DEF FrontInv, Control
<1>4. Tickets'
  BY DEF FrontInv, Tickets
<1>5. Follows'
  BY <1>1, FollowsStays DEF FrontInv, Current
<1>6. Ended'
  BY SomeFacts, EndedStays DEF FrontInv, Known
<1>7. Attends'
  BY <1>1 DEF FrontInv, Attends
<1> QED BY <1>2, <1>3, <1>4, <1>5, <1>6, <1>7 DEF FrontInv

\* SessionRuntime.start raises.
LEMMA StartFailsKeeps ==
    ASSUME FrontEndAssumption, FrontInv, StartFails
    PROVE  FrontInv'
<1>1. \E at \in {"prompt", "exited"} : Tracked(at)
  BY DEF StartFails
<1> QED BY <1>1, StartEndsKeeps DEF StartFails, Quiet, streamVars

\* SessionController.cancel.
LEMMA CancelKeeps ==
    ASSUME FrontEndAssumption, FrontInv, Cancel
    PROVE  FrontInv'
<1>1. UNCHANGED <<front, session, initialized, steps, target, used, ui>> /\ Drained /\ running # None
  BY DEF Cancel
<1>2. CASE phase = "starting" /\ running' = None /\ phase' = "none" /\ Tracked("prompt") /\ Quiet
           /\ UNCHANGED <<ticket, inbox>>
  BY <1>1, <1>2, StartEndsKeeps DEF Quiet, streamVars
<1>3. CASE phase = "run" /\ phase' = "over" /\ Emit(<<"goal.ended">>, running)
           /\ UNCHANGED <<running, ticket, inbox, main>>
  <2> DEFINE types == <<"goal.ended">>
  <2>1. types \in Seq(EventTypes) /\ Emit(types, running)
    BY <1>3 DEF EventTypes, Lines
  <2> HIDE DEF types
  <2>2. ~main.reset /\ running \in Card /\ running \in used
    BY <1>1, DrainedMeans, SomeFacts DEF FrontInv, Control
  <2>5. FrontTypes'
    BY <1>1, <1>3, <2>1, <2>2, EmissionTypes DEF FrontInv, FrontTypes, FrontTypeOK
  <2>6. Control'
    BY <1>1, <1>3, <2>1, <2>2, SomeFacts, EmissionTypes DEF FrontInv, Control
  <2>7. Tickets'
    BY <1>3 DEF FrontInv, Tickets
  <2>8. Current = None /\ Current' = None /\ None \in Card
    BY <1>3 DEF Current, Card
  <2>9. Follows'
    BY <1>1, <1>3, <2>1, <2>2, <2>8, EmissionFollows
  <2>10. Ended'
    BY <1>1, <1>3, <2>1, <2>2, EmissionEnded DEF Known
  <2>11. Attends'
    BY <1>1, <1>3 DEF FrontInv, Attends
  <2> QED BY <2>5, <2>6, <2>7, <2>9, <2>10, <2>11 DEF FrontInv
<1>4. CASE phase = "ask" /\ phase' = "over" /\ Resolve
           /\ Emit(<<"approval.answered", "goal.ended">>, running) /\ UNCHANGED <<running, main>>
  <2> DEFINE types == <<"approval.answered", "goal.ended">>
  <2>1. types \in Seq(EventTypes) /\ Emit(types, running)
    BY <1>4 DEF EventTypes, Lines
  <2> HIDE DEF types
  <2> QED BY <1>1, <1>4, <2>1, ResolveKeeps
<1>5. CASE phase = "over" /\ running' = None /\ phase' = "none" /\ Quiet
           /\ UNCHANGED <<ticket, inbox, main>>
  <2>1. UNCHANGED <<front, session, sequence, initialized, steps, target, used, ticket, queue, stream,
                     inbox, ui, main>>
    BY <1>1, <1>5 DEF Quiet, streamVars
  <2>2. FrontTypes'
    BY <1>5, <2>1 DEF FrontInv, FrontTypes, FrontTypeOK
  <2>3. Control'
    BY <1>5, <2>1 DEF FrontInv, Control
  <2>4. Tickets'
    BY <1>5, <2>1 DEF FrontInv, Tickets
  <2>5. Follows'
    BY <1>5, <2>1, FollowsStays DEF FrontInv, Current
  <2>6. Ended'
    BY <1>5, <2>1, SomeFacts, EndedStays DEF FrontInv, Known
  <2>7. Attends'
    BY <1>5, <2>1 DEF FrontInv, Attends
  <2> QED BY <2>2, <2>3, <2>4, <2>5, <2>6, <2>7 DEF FrontInv
<1> QED BY <1>2, <1>3, <1>4, <1>5 DEF Cancel

\* The session that is left is closed.
LEMMA SwitchToKeeps ==
    ASSUME FrontEndAssumption, FrontInv, NEW command \in {"clear", "resume"}, NEW s \in Sessions,
           SwitchTo(command, s)
    PROVE  FrontInv'
<1> DEFINE types == <<"session.closed">>
<1>0. /\ queue = <<>> /\ ~main.reset /\ running = None /\ phase = "none" /\ target = None
      /\ s # session /\ target' = s /\ initialized' = FALSE
      /\ UNCHANGED <<front, session, running, phase, steps, used, ticket, inbox, ui>>
  BY SomeFacts, DrainedMeans DEF SwitchTo, Busy
<1>1. types \in Seq(EventTypes) /\ \A i \in 1..Len(types) : types[i] # "goal.ended"
  BY DEF EventTypes, Lines
<1>2. Emit(types, None) /\ None \in Card
  BY DEF SwitchTo, Card
<1>3. main' \in Mains /\ main'.reset = main.reset /\ main'.at = main.at /\ main'.task = main.task
  <2>1. main' = [main EXCEPT !.command = command]
    BY DEF SwitchTo
  <2> QED BY <2>1, SomeFacts DEF Mains
<1>c. queue' \in Closing
  <2> DEFINE n == sequence[session] + 1
             x == Event("session.closed", n, None)
  <2>1. n \in Nat
    BY DEF FrontInv, FrontTypes, FrontTypeOK
  <2>2. CASE queue' = queue
    BY <1>0, <2>2 DEF Closing
  <2>3. CASE queue' = OfferAll(queue, Emitted(types, None))
    <3> DEFINE e == Emitted(types, None)
               P == [i \in 0..1 |-> IF i = 0 THEN {<<>>} ELSE {<<x>>}]
    <3>1. e \in Seq(Items) /\ Len(e) = 1 /\ e[1] = x
      <4>1. Len(types) = 1 /\ types[1] = "session.closed" /\ 1 \in 1..1
        OBVIOUS
      <4> HIDE DEF types
      <4> QED BY <1>1, <1>2, <4>1, EmittedTypes DEF FrontInv
    <3>2. Offer(<<>>, x) = <<x>>
      BY DEF Offer, FrontEndAssumption
    <3> HIDE DEF e, x, types
    <3>3. queue \in P[0]
      BY <1>0
    <3>4. ASSUME NEW i \in 1..Len(e), NEW r \in P[i - 1] PROVE Offer(r, e[i]) \in P[i]
      <4>1. i = 1 /\ r = <<>>
        BY <3>1, <3>4
      <4> QED BY <3>1, <3>2, <4>1
    <3> HIDE DEF P
    <3>5. OfferAll(queue, e) \in P[1]
      BY <3>1, <3>3, <3>4, AllOffered
    <3>6. queue' = <<x>>
      BY <2>3, <3>5 DEF e, P
    <3> QED BY <2>1, <3>6 DEF Closing, SessionClosed, x
  <2> QED BY <1>2, <2>2, <2>3 DEF Emit, Deliver, Emitted
<1> HIDE DEF types
<1>5. FrontTypes'
  BY <1>0, <1>1, <1>2, <1>3, EmissionTypes DEF FrontInv, FrontTypes, FrontTypeOK
<1>6. Control'
  BY <1>0, <1>1, <1>2, <1>3, <1>c, EmissionTypes DEF FrontInv, Control
<1>7. Tickets'
  BY <1>0 DEF FrontInv, Tickets
<1>8. Current = None /\ Current' = None
  BY <1>0 DEF Current
<1>9. Follows'
  BY <1>0, <1>1, <1>2, <1>3, <1>8, EmissionFollows
<1>10. Ended'
  BY <1>0, <1>1, <1>2, EmissionEnded DEF Known
<1>11. Attends'
  BY <1>0, <1>3 DEF FrontInv, Attends
<1> QED BY <1>5, <1>6, <1>7, <1>9, <1>10, <1>11 DEF FrontInv

\* A sequence of one and one more.
LEMMA PairUp ==
    ASSUME NEW x, NEW y
    PROVE  Append(<<x>>, y) = <<x, y>>
<1> DEFINE S == {x, y}
           a == Append(<<x>>, y)
           b == <<x, y>>
<1>1. <<x>> \in Seq(S) /\ y \in S /\ Len(<<x>>) = 1 /\ <<x>>[1] = x
  OBVIOUS
<1>2. b \in Seq(S) /\ Len(b) = 2 /\ b[1] = x /\ b[2] = y
  OBVIOUS
<1>3. a \in Seq(S) /\ Len(a) = 2 /\ a[1] = x /\ a[2] = y
  BY <1>1, AppendProperties
<1>4. \A i \in 1..2 : i = 1 \/ i = 2
  OBVIOUS
<1> HIDE DEF a, b
<1>5. a = b
  BY <1>2, <1>3, <1>4, SeqEqual
<1> QED BY <1>5 DEF a, b

\* The session changes: from here on the queue counts again only after a reset.
LEMMA SwitchedKeeps ==
    ASSUME FrontEndAssumption, FrontInv, Switched
    PROVE  FrontInv'
<1>0. /\ target # None /\ session' = target /\ target' = None
      /\ running = None /\ phase = "none" /\ ~main.reset /\ queue \in Closing
      /\ UNCHANGED <<front, sequence, initialized, running, phase, steps, used, ticket, stream, inbox, ui>>
      /\ main' = [main EXCEPT !.reset = TRUE]
      /\ target \in Sessions
  BY SomeFacts DEF Switched, Deliver, FrontInv, Control, FrontTypes, FrontTypeOK
<1>1. main' \in Mains /\ main'.reset /\ main'.at = main.at /\ main'.task = main.task
  BY <1>0, SomeFacts DEF Mains
<1>2. Offer(queue, Reset) \in Seq(Items) /\ Len(Offer(queue, Reset)) <= Limit
      /\ \A j \in 1..Len(Offer(queue, Reset)) :
             Offer(queue, Reset)[j] \in {Gap, Reset} \/ Offer(queue, Reset)[j] \in Known
  <2>1. Reset \in Items /\ queue \in Seq(Items) /\ Len(queue) <= Limit /\ Limit \in Nat \ {0}
    BY DEF Items, FrontInv, FrontTypes, FrontTypeOK, FrontEndAssumption
  <2> QED BY <2>1, OfferOne DEF Known
<1>3. queue' = IF stream = "up" THEN Offer(queue, Reset) ELSE queue
  <2> DEFINE items == <<Reset>>
             P == [i \in 0..1 |-> IF i = 0 THEN {queue} ELSE {Offer(queue, Reset)}]
  <2>1. items \in Seq({Reset}) /\ Len(items) = 1 /\ items[1] = Reset
    OBVIOUS
  <2>2. queue' = IF stream = "up" THEN OfferAll(queue, items) ELSE queue
    BY DEF Switched, Deliver
  <2> HIDE DEF items
  <2>3. queue \in P[0]
    OBVIOUS
  <2>4. ASSUME NEW i \in 1..Len(items), NEW r \in P[i - 1] PROVE Offer(r, items[i]) \in P[i]
    <3>1. i = 1 /\ r = queue
      BY <2>1, <2>4
    <3> QED BY <2>1, <3>1
  <2> HIDE DEF P
  <2>5. OfferAll(queue, items) \in P[1]
    BY <2>1, <2>3, <2>4, AllOffered
  <2> QED BY <2>2, <2>5 DEF P
<1>4. Offer(queue, Reset) \in Switching
  <2>1. CASE Len(queue) >= Limit
    BY <2>1 DEF Offer, Switching
  <2>2. CASE ~(Len(queue) >= Limit)
    <3>1. Offer(queue, Reset) = Append(queue, Reset)
      BY <2>2 DEF Offer
    <3>2. CASE queue = <<>>
      BY <3>1, <3>2 DEF Switching
    <3>3. CASE \E n \in Nat : queue = <<SessionClosed(n)>>
      <4>1. PICK n \in Nat : queue = <<SessionClosed(n)>>
        BY <3>3
      <4>2. Append(queue, Reset) = <<SessionClosed(n), Reset>>
        BY <4>1, PairUp
      <4> QED BY <3>1, <4>2 DEF Switching
    <3> QED BY <1>0, <3>2, <3>3 DEF Closing
  <2> QED BY <2>1, <2>2
<1>5. stream = "dead" => queue' = <<>>
  BY <1>0, <1>3 DEF FrontInv, Control
<1>6. stream \in {"up", "dead"} /\ <<>> \in Switching
  BY DEF FrontInv, FrontTypes, FrontTypeOK, Switching
<1>7. FrontTypes'
  BY <1>0, <1>1, <1>2, <1>3 DEF FrontInv, FrontTypes, FrontTypeOK
<1>8. Control'
  BY <1>0, <1>1, <1>3, <1>4, <1>5, <1>6 DEF FrontInv, Control
<1>9. Tickets'
  BY <1>0 DEF FrontInv, Tickets
<1>10. Follows'
  BY <1>0, <1>1 DEF FrontInv, Follows, FollowsWith, Current
<1>11. Ended'
  <2>1. ~TellsEnd(Gap) /\ ~TellsEnd(Reset)
    BY DEF TellsEnd, Gap, Reset
  <2>2. \A x \in Known' : TellsEnd(x) => x \in Known
    BY <1>0, <1>2, <1>3, <2>1 DEF Known
  <2> QED BY <1>0, <2>2, SomeFacts, EndedStays DEF FrontInv
<1>12. Attends'
  BY <1>0, <1>1 DEF FrontInv, Attends
<1> QED BY <1>7, <1>8, <1>9, <1>10, <1>11, <1>12 DEF FrontInv

\* The terminal UI draws what has come.
LEMMA FrameKeeps ==
    ASSUME FrontEndAssumption, FrontInv, Frame
    PROVE  FrontInv'
<1>0. /\ front = "tui" /\ ui' = ReduceAll(ui, inbox) /\ inbox' = <<>>
      /\ UNCHANGED <<front, session, sequence, initialized, running, phase, steps, target, used, ticket,
                     stream, queue, main>>
  BY DEF Frame, sessionVars, streamVars
<1>1. PICK c \in Card, m \in Nat : FollowsWith(c, m)
  BY <1>0 DEF FrontInv, Follows
<1>2. ui \in Transcripts /\ ~ui.refused /\ inbox \in Seq(Messages) /\ None \notin Tasks
      /\ ui.cards = Cards(c) /\ Trail(inbox, ui.last, c, m, Current) /\ Current \in Card
  BY <1>0, <1>1, SomeFacts DEF FollowsWith, FrontInv, FrontTypes, Follows
<1>3. ui' \in Transcripts /\ ui'.cards = Cards(Current) /\ ~ui'.refused /\ ui'.last <= m
  <2> DEFINE d == Current
  <2>1. Trail(inbox, ui.last, c, m, d)
    BY <1>2
  <2> HIDE DEF d
  <2>2. LET v == ReduceAll(ui, inbox)
        IN  v \in Transcripts /\ v.cards = Cards(d) /\ ~v.refused /\ v.last <= m
    BY <1>2, <2>1, FrameFollows
  <2> QED BY <1>0, <2>2 DEF d
<1>4. Current' = Current /\ ui'.last \in Nat
  BY <1>0, <1>3 DEF Current, Transcripts
<1>5. Trail(<<>>, ui'.last, Current, m, Current)
  BY <1>2, <1>3, <1>4, EmptyTrail
<1>6. FollowsWith(Current, m)'
  BY <1>0, <1>1, <1>3, <1>4, <1>5 DEF FollowsWith
<1>7. Follows'
  <2>1. \E b \in Card, n \in Nat : FollowsWith(b, n)'
    BY <1>2, <1>4, <1>6 DEF FollowsWith
  <2> QED BY <1>3, <2>1 DEF Follows
<1>8. FrontTypes'
  BY <1>0, <1>3 DEF FrontInv, FrontTypes, FrontTypeOK, Transcripts
<1>9. Control'
  BY <1>0 DEF FrontInv, Control
<1>10. Tickets'
  BY <1>0 DEF FrontInv, Tickets
<1>11. Ended'
  BY <1>0, SomeFacts, EndedStays DEF FrontInv, Known
<1>12. Attends'
  BY <1>0, OthersAttend
<1> QED BY <1>7, <1>8, <1>9, <1>10, <1>11, <1>12 DEF FrontInv

\* The result of a switch: the numbers start again.
LEMMA TuiSwitchedKeeps ==
    ASSUME FrontEndAssumption, FrontInv, TuiSwitched
    PROVE  FrontInv'
<1>0. /\ front = "tui" /\ main.reset /\ inbox' = Append(inbox, Reset)
      /\ main' = [main EXCEPT !.command = None, !.reset = FALSE]
      /\ UNCHANGED <<front, session, sequence, initialized, running, phase, steps, target, used, ticket,
                     stream, queue, ui>>
  BY DEF TuiSwitched, sessionVars, streamVars
<1>1. main' \in Mains /\ ~main'.reset /\ main'.at = main.at /\ main'.task = main.task
  BY <1>0, SomeFacts DEF Mains
<1>2. Reset \in Messages /\ ~TellsEnd(Reset) /\ Reset.kind = "reset" /\ Gap.kind = "gap"
  BY DEF Messages, Reset, TellsEnd, Gap
<1>3. phase \in {"none", "starting"} /\ queue \in Switching /\ target = None
  BY <1>0 DEF FrontInv, Control
<1>4. Ended' /\ Attends' /\ inbox' \in Seq(Messages)
  <2>1. \A j \in 1..Len(queue') : queue'[j] \in Known \/ ~TellsEnd(queue'[j])
    BY <1>0 DEF Known
  <2> QED BY <1>0, <1>1, <1>2, <2>1, InboxGrows
<1>5. FrontTypes'
  BY <1>0, <1>1, <1>4 DEF FrontInv, FrontTypes, FrontTypeOK, Mains
<1>6. Control'
  BY <1>0, <1>1, <1>3 DEF FrontInv, Control
<1>7. Tickets'
  BY <1>0 DEF FrontInv, Tickets
<1>8. Current = None /\ Current' = None /\ None \in Card /\ sequence[session] \in Nat
  BY <1>0, <1>3 DEF Current, Card, FrontInv, FrontTypes, FrontTypeOK
<1>9. Trail(queue, 0, None, sequence[session], None) /\ Numbered(queue, sequence[session])
  <2> DEFINE s == sequence[session]
             zero == [i \in 0..Len(queue) |-> 0]
             no == [i \in 0..Len(queue) |-> None]
  <2>1. queue \in Seq(Items) /\ Len(queue) \in Nat
    BY SomeFacts
  <2>2. \A j \in 1..Len(queue) : queue[j] \in {Gap, Reset} \/ \E n \in Nat : queue[j] = SessionClosed(n)
    <3>1. CASE queue \in {<<>>, <<Gap>>, <<Reset>>}
      BY <3>1
    <3>2. ASSUME NEW n \in Nat, queue = <<SessionClosed(n), Reset>>, NEW j \in 1..Len(queue)
          PROVE  queue[j] = SessionClosed(n) \/ queue[j] = Reset
      BY <3>2
    <3> QED BY <1>3, <3>1, <3>2 DEF Switching
  <2>3. \A n \in Nat : /\ SessionClosed(n).kind = "event" /\ SessionClosed(n).type \notin Lines
                       /\ SessionClosed(n) \notin EventsOf(Lines)
    BY DEF SessionClosed, Event, Lines, EventsOf
  <2>4. ASSUME NEW j \in 1..Len(queue) PROVE Passes(0, None, queue[j], 0, None)
    BY <1>2, <2>2, <2>3 DEF Passes
  <2>5. /\ zero \in [0..Len(queue) -> Nat] /\ no \in [0..Len(queue) -> Card]
        /\ \A i \in 0..Len(queue) : zero[i] = 0 /\ no[i] = None
        /\ 0 \in 0..Len(queue) /\ Len(queue) \in 0..Len(queue)
        /\ \A i \in 1..Len(queue) : i \in 0..Len(queue) /\ i - 1 \in 0..Len(queue)
    BY <1>8, <2>1
  <2> HIDE DEF zero, no, s
  <2>6. s \in Nat /\ 0 <= s
    BY <1>8 DEF s
  <2>7. Trail(queue, 0, None, s, None)
    BY <2>4, <2>5, <2>6 DEF Trail
  <2>8. Gap \notin EventsOf(Lines) /\ Reset \notin EventsOf(Lines)
    BY <1>2 DEF EventsOf
  <2>9. Numbered(queue, s)
    BY <2>2, <2>3, <2>8 DEF Numbered
  <2> QED BY <2>7, <2>9 DEF s
<1>10. Follows'
  <2>1. PICK c \in Card, m \in Nat : FollowsWith(c, m)
    BY <1>0 DEF FrontInv, Follows
  <2>2. \A k \in Nat : k <= m => \E p \in Nat : p <= 0 /\ Passes(k, Current, Reset, p, Current)
    BY <1>2 DEF Passes
  <2>3. 0 \in Nat /\ 0 <= m
    OBVIOUS
  <2>4. Trail(Append(inbox, Reset), ui.last, c, 0, Current)
    BY <1>2, <2>1, <2>2, <2>3, InboxFollows
  <2>5. FollowsWith(c, 0)'
    BY <1>0, <1>1, <1>8, <1>9, <2>1, <2>4 DEF FollowsWith
  <2>6. ~ui'.refused
    BY <1>0 DEF FrontInv, Follows
  <2>7. \E b \in Card, n \in Nat : FollowsWith(b, n)'
    BY <2>3, <2>5 DEF FollowsWith
  <2> QED BY <2>6, <2>7 DEF Follows
<1> QED BY <1>4, <1>5, <1>6, <1>7, <1>10 DEF FrontInv

\* The poll may settle a transcript, when nothing runs.
LEMMA PollKeeps ==
    ASSUME FrontEndAssumption, FrontInv, Poll
    PROVE  FrontInv'
<1> DEFINE idle == IF ui.task # None /\ ~Busy THEN main.idle + 1 ELSE 0
<1>0. /\ front = "tui" /\ main' = [main EXCEPT !.idle = idle % 2]
      /\ inbox' = IF idle = 2 THEN Append(inbox, Settled) ELSE inbox
      /\ UNCHANGED <<front, session, sequence, initialized, running, phase, steps, target, used, ticket,
                     stream, queue, ui>>
  BY DEF Poll, sessionVars, streamVars
<1>1. idle \in {0, 1, 2} /\ (idle = 2 => running = None) /\ idle % 2 \in {0, 1}
  <2>1. main.idle \in {0, 1}
    BY SomeFacts DEF Mains
  <2>2. idle \in {0, 1, 2} /\ (idle = 2 => running = None)
    BY <2>1 DEF Busy
  <2>3. 0 % 2 = 0 /\ 1 % 2 = 1 /\ 2 % 2 = 0
    OBVIOUS
  <2> QED BY <2>2, <2>3
<1> HIDE DEF idle
<1>2. main' \in Mains /\ main'.reset = main.reset /\ main'.at = main.at /\ main'.task = main.task
  BY <1>0, <1>1, SomeFacts DEF Mains
<1>3. Settled \in Messages /\ ~TellsEnd(Settled)
  BY DEF Messages, Settled, TellsEnd
<1>4. Ended' /\ Attends' /\ inbox' \in Seq(Messages)
  <2>1. \A j \in 1..Len(queue') : queue'[j] \in Known \/ ~TellsEnd(queue'[j])
    BY <1>0 DEF Known
  <2> QED BY <1>0, <1>2, <1>3, <2>1, InboxGrows
<1>5. FrontTypes'
  BY <1>0, <1>2, <1>4 DEF FrontInv, FrontTypes, FrontTypeOK, Mains
<1>6. Control'
  BY <1>0, <1>2 DEF FrontInv, Control
<1>7. Tickets'
  BY <1>0 DEF FrontInv, Tickets
<1>8. Follows'
  <2>1. PICK c \in Card, m \in Nat : FollowsWith(c, m)
    BY <1>0 DEF FrontInv, Follows
  <2>2. Trail(inbox', ui.last, c, m, Current)
    BY <1>0, <1>1, <2>1, SettledFollows DEF FollowsWith
  <2>3. Current' = Current
    BY <1>0 DEF Current
  <2>4. FollowsWith(c, m)'
    BY <1>0, <1>2, <2>1, <2>2, <2>3 DEF FollowsWith
  <2>5. ~ui'.refused
    BY <1>0 DEF FrontInv, Follows
  <2>6. \E b \in Card, n \in Nat : FollowsWith(b, n)'
    BY <2>4 DEF FollowsWith
  <2> QED BY <2>5, <2>6 DEF Follows
<1> QED BY <1>4, <1>5, <1>6, <1>7, <1>8 DEF FrontInv

\* The plain loop takes one item: the end of its own task only when that is over.
LEMMA PlainTakeKeeps ==
    ASSUME FrontEndAssumption, FrontInv, PlainTake
    PROVE  FrontInv'
<1> DEFINE item == Head(inbox)
           own == item.kind # "closed" /\ item.task = main.task
           at == IF own /\ item.kind = "shown" THEN "asking"
                 ELSE IF own /\ item.kind = "event" /\ item.type = "goal.ended" THEN "prompt"
                 ELSE main.at
<1>0. /\ front = "plain" /\ main.at = "waiting" /\ inbox # <<>> /\ inbox' = Tail(inbox)
      /\ main' = [main EXCEPT !.idle = 0, !.at = at]
      /\ UNCHANGED <<front, session, sequence, initialized, running, phase, steps, target, used, ticket,
                     stream, queue, ui>>
  BY DEF PlainTake, sessionVars, streamVars
<1>1. /\ item = inbox[1] /\ item \in Messages /\ inbox' \in Seq(Messages) /\ 1 \in 1..Len(inbox)
      /\ \A j \in 1..Len(inbox') : inbox'[j] = inbox[j + 1] /\ j + 1 \in 1..Len(inbox)
      /\ \A j \in 1..Len(inbox) : j = 1 \/ (j - 1 \in 1..Len(inbox') /\ inbox'[j - 1] = inbox[j])
  <2>1. inbox \in Seq(Messages) /\ inbox # <<>>
    BY <1>0, SomeFacts
  <2>2. /\ Len(inbox) \in Nat \ {0} /\ Len(Tail(inbox)) = Len(inbox) - 1
        /\ Head(inbox) = inbox[1] /\ Head(inbox) \in Messages /\ Tail(inbox) \in Seq(Messages)
        /\ \A j \in 1..Len(Tail(inbox)) : Tail(inbox)[j] = inbox[j + 1]
    BY <2>1
  <2>3. \A j \in 1..Len(inbox) : j = 1 \/ (j - 1 \in 1..Len(Tail(inbox)) /\ (j - 1) + 1 = j)
    BY <2>2
  <2>4. 1 \in 1..Len(inbox) /\ \A j \in 1..Len(Tail(inbox)) : j + 1 \in 1..Len(inbox)
    BY <2>2
  <2> QED BY <1>0, <2>2, <2>3, <2>4
<1>2. item \in Known
  BY <1>1 DEF Known
<1> HIDE DEF item
<1>3. main' \in Mains /\ main'.reset = main.reset /\ main'.at = at /\ main'.task = main.task
  BY <1>0, SomeFacts DEF Mains
<1>4. FrontTypes'
  BY <1>0, <1>1, <1>3 DEF FrontInv, FrontTypes, FrontTypeOK, Mains
<1>5. Control'
  BY <1>0, <1>3 DEF FrontInv, Control
<1>6. Tickets'
  BY <1>0 DEF FrontInv, Tickets
<1>7. Follows'
  BY <1>0, OthersFollow
<1>8. Ended'
  <2>1. \A x \in Known' : x \in Known
    BY <1>0, <1>1 DEF Known
  <2> QED BY <1>0, <2>1 DEF FrontInv, Ended
<1>9. phase # "starting"
  BY <1>0 DEF FrontInv, Attends
<1>10. ASSUME phase \in {"run", "ask"} PROVE main.task = running /\ at \in {"waiting", "asking"}
  <2>1. main.task = running
    BY <1>0, <1>10 DEF FrontInv, Attends
  <2>2. ~(own /\ TellsEnd(item))
    BY <1>2, <1>10, <2>1 DEF FrontInv, Ended
  <2> QED BY <1>0, <2>1, <2>2 DEF TellsEnd
<1>11. ASSUME phase = "ask", ticket[running] = "open", at = "waiting"
       PROVE  \E j \in 1..Len(inbox') : inbox'[j] = Shown(running)
  <2>1. PICK j \in 1..Len(inbox) : inbox[j] = Shown(running)
    BY <1>0, <1>11 DEF FrontInv, Attends
  <2>2. main.task = running
    BY <1>10, <1>11
  <2>3. Shown(running).kind = "shown" /\ Shown(running).task = running
    BY DEF Shown
  <2>4. item # Shown(running)
    BY <1>11, <2>2, <2>3
  <2>5. j # 1
    BY <1>1, <2>1, <2>4
  <2> QED BY <1>1, <2>1, <2>5
<1>12. ASSUME at = "asking" PROVE main.task \in Tasks
  <2>1. item.kind = "shown" /\ item.task = main.task
    BY <1>0, <1>12
  <2>2. item \notin EventsOf(Lines) /\ item \notin {Reset, Settled} /\ \A t \in Tasks : item # Closed(t)
    BY <2>1 DEF EventsOf, Reset, Settled, Closed
  <2>3. \E t \in Tasks : item = Shown(t)
    BY <1>1, <2>2 DEF Messages
  <2> QED BY <2>1, <2>3 DEF Shown
<1>13. Attends'
  <2> HIDE DEF at
  <2> QED BY <1>0, <1>3, <1>9, <1>10, <1>11, <1>12 DEF Attends
<1> QED BY <1>4, <1>5, <1>6, <1>7, <1>8, <1>13 DEF FrontInv

\* The front ends' own steps that read no message.
LEMMA OwnStepsKeep ==
    ASSUME FrontEndAssumption, FrontInv,
           PlainIdle \/ PlainSwitched \/ PrintReturns \/ ClassicResetDone \/ ClassicTaskDone
    PROVE  FrontInv'
<1>0. main \in Mains
  BY SomeFacts
<1>1. CASE PlainIdle
  <2>1. /\ front = "plain" /\ main.at = "waiting" /\ main.idle \in {0, 1}
        /\ UNCHANGED <<front, sessionVars, used, ticket, streamVars, inbox, ui>>
        /\ running = None <=> phase = "none"
    BY <1>0, <1>1, SomeFacts DEF PlainIdle, Mains
  <2>2. /\ main' \in Mains /\ main'.reset = main.reset /\ main'.task = main.task
        /\ main'.at = "waiting" \/ (main'.at = "prompt" /\ running = None)
    <3>1. \/ main' = [main EXCEPT !.idle = 0]
          \/ main' = [main EXCEPT !.idle = 1]
          \/ main' = [main EXCEPT !.at = "prompt"] /\ running = None
      BY <1>1 DEF PlainIdle, Busy
    <3> QED BY <1>0, <2>1, <3>1 DEF Mains
  <2>3. Attends'
    BY <2>1, <2>2 DEF FrontInv, Attends, sessionVars
  <2> QED BY <2>1, <2>2, <2>3, FrontStepKeeps
<1>2. CASE PlainSwitched
  <2>1. /\ front = "plain" /\ main' = [main EXCEPT !.command = None, !.reset = FALSE]
        /\ UNCHANGED <<front, sessionVars, used, ticket, streamVars, inbox, ui>>
    BY <1>2 DEF PlainSwitched
  <2>2. main' \in Mains /\ ~main'.reset /\ main'.task = main.task /\ main'.at = main.at
    BY <1>0, <2>1 DEF Mains
  <2>3. Attends'
    BY <2>1, <2>2 DEF FrontInv, Attends, sessionVars
  <2> QED BY <2>1, <2>2, <2>3, FrontStepKeeps
<1>3. CASE PrintReturns \/ ClassicTaskDone
  <2>1. /\ front # "plain" /\ \E at \in {"exited", "prompt"} : main' = [main EXCEPT !.at = at]
        /\ UNCHANGED <<front, sessionVars, used, ticket, streamVars, inbox, ui>>
    BY <1>3 DEF PrintReturns, ClassicTaskDone
  <2>2. main' \in Mains /\ main'.reset = main.reset
    BY <1>0, <2>1 DEF Mains
  <2>3. Attends'
    BY <2>1, OthersAttend
  <2> QED BY <2>1, <2>2, <2>3, FrontStepKeeps
<1>4. CASE ClassicResetDone
  <2>1. /\ front = "classic" /\ main' = [main EXCEPT !.command = None, !.reset = FALSE]
        /\ UNCHANGED <<front, sessionVars, used, ticket, streamVars, inbox, ui>>
    BY <1>4 DEF ClassicResetDone
  <2>2. main' \in Mains /\ ~main'.reset
    BY <1>0, <2>1 DEF Mains
  <2>3. Attends'
    BY <2>1, OthersAttend
  <2> QED BY <2>1, <2>2, <2>3, FrontStepKeeps
<1> QED BY <1>1, <1>2, <1>3, <1>4

\* A task is submitted, and starts or is refused.
LEMMA IssueKeeps ==
    ASSUME FrontEndAssumption, FrontInv, NEW t \in Tasks, Issue(t),
           main' \in Mains, main'.reset = main.reset,
           inbox' = inbox \/ (front = "plain" /\ inbox' = <<>>),
           Attends'
    PROVE  FrontInv'
<1>1. /\ t \notin used /\ used' = used \cup {t} /\ t # None
      /\ UNCHANGED <<front, session, sequence, initialized, target, ticket, stream, queue, ui>>
  BY SomeFacts DEF Issue, streamVars
<1>2. \/ /\ running = None /\ target = None /\ phase = "none"
         /\ running' = t /\ phase' = "starting" /\ steps' = 0
      \/ running # None /\ UNCHANGED <<running, phase, steps>>
      \/ target # None /\ UNCHANGED <<running, phase, steps>>
  BY SomeFacts DEF Issue, Busy
<1>3. inbox' \in Seq(Messages) /\ \A x \in Known' : x \in Known
  <2>1. inbox \in Seq(Messages) /\ queue' = queue
    BY <1>1, SomeFacts
  <2>2. CASE inbox' = inbox
    BY <2>1, <2>2 DEF Known
  <2>3. CASE inbox' = <<>>
    <3>1. <<>> \in Seq(Messages) /\ 1..Len(<<>>) = {}
      OBVIOUS
    <3>2. \A x \in Known' : \E j \in 1..Len(queue) : x = queue[j]
      BY <2>1, <2>3, <3>1 DEF Known
    <3> QED BY <2>3, <3>1, <3>2 DEF Known
  <2> QED BY <2>2, <2>3
<1>4. FrontTypes'
  <2>1. FrontTypes /\ MaxSteps \in Nat
    BY DEF FrontInv, FrontEndAssumption
  <2>2. main'.at \in {"prompt", "submitting", "waiting", "asking", "exited"}
    BY DEF Mains
  <2>3. running' \in Tasks \cup {None} /\ (running' = None <=> phase' = "none") /\ steps' \in 0..MaxSteps
        /\ phase' \in {"none", "starting", "run", "ask", "over"} /\ used' \subseteq Tasks
    BY <1>1, <1>2, <2>1 DEF FrontTypes, FrontTypeOK
  <2> QED BY <1>1, <1>3, <2>1, <2>2, <2>3 DEF FrontTypes, FrontTypeOK
<1>5. Control'
  BY <1>1, <1>2 DEF FrontInv, Control
<1>6. Tickets'
  BY <1>1, <1>2 DEF FrontInv, Tickets
<1>7. Follows'
  <2>1. CASE front = "tui"
    <3>1. Current' = Current /\ inbox' = inbox
      BY <1>2, <2>1 DEF Current
    <3> QED BY <1>1, <3>1, FollowsStays DEF FrontInv
  <2> QED BY <1>1, <2>1, OthersFollow
<1>8. Ended'
  BY <1>1, <1>2, <1>3, SomeFacts, EndedStays DEF FrontInv
<1> QED BY <1>4, <1>5, <1>6, <1>7, <1>8 DEF FrontInv

\* RuntimeBridge.spawn(controller.submit), by each front end.
LEMMA SubmitsKeep ==
    ASSUME FrontEndAssumption, FrontInv, NEW t \in Tasks,
           TuiSubmit(t) \/ PlainSubmit(t) \/ PrintRun(t) \/ ClassicRun(t)
    PROVE  FrontInv'
<1>0. main \in Mains /\ t \in Tasks \cup {None}
  BY SomeFacts
<1>1. CASE TuiSubmit(t)
  <2>1. Issue(t) /\ inbox' = inbox /\ main' = main /\ front = "tui"
    BY <1>1 DEF TuiSubmit
  <2>2. Attends'
    BY <2>1, OthersAttend DEF Issue
  <2> QED BY <1>0, <2>1, <2>2, IssueKeeps
<1>2. CASE PlainSubmit(t)
  <2>1. /\ Issue(t) /\ inbox' = <<>> /\ front = "plain" /\ main.at = "prompt" /\ ticket' = ticket
        /\ main' = IF Busy THEN main ELSE [main EXCEPT !.at = "submitting", !.task = t, !.idle = 0]
    BY <1>2 DEF PlainSubmit, PlainAtPrompt, Issue
  <2>2. phase \notin {"starting", "run", "ask"}
    BY <2>1 DEF FrontInv, Attends
  <2>3. CASE Busy
    <3>1. main' = main /\ UNCHANGED <<running, phase>> /\ front' = front
      BY <2>1, <2>3 DEF Issue
    <3>2. Attends'
      BY <2>1, <2>2, <3>1 DEF Attends
    <3> QED BY <1>0, <2>1, <3>1, <3>2, IssueKeeps
  <2>4. CASE ~Busy
    <3>1. running' = t /\ phase' = "starting" /\ front' = front
      BY <2>1, <2>4 DEF Issue
    <3>2. /\ main' \in Mains /\ main'.reset = main.reset /\ main'.at = "submitting" /\ main'.task = t
      BY <1>0, <2>1, <2>4 DEF Mains
    <3>3. Attends'
      BY <3>1, <3>2 DEF Attends
    <3> QED BY <2>1, <3>2, <3>3, IssueKeeps
  <2> QED BY <2>3, <2>4
<1>3. CASE PrintRun(t) \/ ClassicRun(t)
  <2>1. /\ Issue(t) /\ inbox' = inbox /\ front # "plain"
        /\ main' = [main EXCEPT !.at = "submitting", !.task = t]
    BY <1>3 DEF PrintRun, ClassicRun
  <2>2. main' \in Mains /\ main'.reset = main.reset
    BY <1>0, <2>1 DEF Mains
  <2>3. Attends'
    BY <2>1, OthersAttend DEF Issue
  <2> QED BY <2>1, <2>2, <2>3, IssueKeeps
<1> QED BY <1>1, <1>2, <1>3

\* At the start nothing is on its way.
LEMMA FrontStarts ==
    ASSUME FrontEndAssumption, FrontInit
    PROVE  FrontInv
<1>1. /\ ui = [live |-> {}, cards |-> <<>>, task |-> None, last |-> 0, refused |-> FALSE]
      /\ main = [at |-> "prompt", task |-> None, idle |-> 0, command |-> None, reset |-> FALSE]
      /\ queue = <<>> /\ inbox = <<>> /\ phase = "none" /\ running = None /\ target = None
      /\ sequence = [s \in Sessions |-> 0] /\ session \in Sessions /\ used = {}
      /\ ticket = [t \in Tasks |-> "none"]
  BY DEF FrontInit, FrontEndAssumption
<1>2. FrontTypes
  <2>1. ui \in Transcripts /\ main \in Mains
    BY <1>1 DEF Transcripts, Mains
  <2>2. FrontTypeOK
    <3>1. Limit \in Nat /\ MaxSteps \in Nat /\ Len(<<>>) = 0
      BY DEF FrontEndAssumption
    <3>2. /\ 0 \in 0..MaxSteps /\ Len(queue) <= Limit /\ front \in Fronts /\ initialized = FALSE /\ steps = 0
          /\ stream \in {"up", "dead"}
      BY <1>1, <3>1 DEF FrontInit
    <3> QED BY <1>1, <3>2 DEF FrontTypeOK
  <2> QED BY <1>1, <2>1, <2>2 DEF FrontTypes
<1>3. Control
  BY <1>1 DEF Control, Closing
<1>4. Tickets
  BY <1>1 DEF Tickets
<1>5. Follows
  <2>1. Current = None /\ None \in Card /\ Cards(None) = <<>> /\ sequence[session] = 0
    BY <1>1 DEF Current, Card, Cards
  <2>2. Trail(<<>>, 0, None, 0, None)
    BY <2>1, EmptyTrail
  <2>3. Numbered(<<>>, 0)
    BY DEF Numbered
  <2>4. FollowsWith(None, 0)
    BY <1>1, <2>1, <2>2, <2>3 DEF FollowsWith
  <2> QED BY <1>1, <2>1, <2>4 DEF Follows
<1>6. Ended
  BY <1>1 DEF Ended, Known
<1>7. Attends
  BY <1>1 DEF Attends
<1> QED BY <1>2, <1>3, <1>4, <1>5, <1>6, <1>7 DEF FrontInv

\* Every step, and every step of somebody else, keeps the invariant.
LEMMA FrontKeeps ==
    ASSUME FrontEndAssumption, FrontInv, [FrontNext]_frontVars
    PROVE  FrontInv'
<1>1. CASE Forward \/ StreamBreaks
  BY <1>1, ForwardKeeps, StreamBreaksKeeps
<1>2. CASE SessionStep
  BY <1>2, StartsKeeps, StepKeeps, AskKeeps, AnsweredKeeps, GoalIsOverKeeps, TaskReturnsKeeps,
     SwitchedKeeps DEF SessionStep
<1>3. CASE StartFails
  BY <1>3, StartFailsKeeps
<1>4. CASE FrontStep
  BY <1>4, FrameKeeps, TuiSwitchedKeeps, PollKeeps, PlainTakeKeeps, OwnStepsKeep DEF FrontStep
<1>5. CASE User
  <2>1. CASE \E t \in Tasks : TuiSubmit(t) \/ PlainSubmit(t) \/ PrintRun(t) \/ ClassicRun(t)
    BY <2>1, SubmitsKeep
  <2>2. CASE TuiAnswer \/ PlainAnswer \/ ClassicLine
    BY <2>2, Answers
  <2>3. CASE \E s \in Sessions : ClassicReset(s)
    BY <2>3, SwitchToKeeps DEF ClassicReset
  <2>4. CASE \E s \in Sessions, command \in {"clear", "resume"} : TuiSwitch(command, s) \/ PlainSwitch(command, s)
    BY <2>4, SwitchToKeeps DEF TuiSwitch, PlainSwitch
  <2>5. CASE TuiCancel \/ PlainCancel \/ ClassicCancel
    BY <2>5, CancelKeeps DEF TuiCancel, PlainCancel, ClassicCancel
  <2> QED BY <1>5, <2>1, <2>2, <2>3, <2>4, <2>5 DEF User
<1>6. CASE UNCHANGED frontVars
  <2>1. UNCHANGED <<front, session, sequence, initialized, running, phase, steps, target, used, ticket,
                   stream, queue, inbox, ui, main>>
    BY <1>6 DEF frontVars, sessionVars, streamVars
  <2>2. main' \in Mains /\ UNCHANGED <<front, sessionVars, used, ticket, streamVars, ui>>
    BY <2>1, SomeFacts DEF sessionVars, streamVars
  <2>3. Attends'
    BY <2>1 DEF FrontInv, Attends
  <2> QED BY <2>1, <2>2, <2>3, FrontStepKeeps
<1> QED BY <1>1, <1>2, <1>3, <1>4, <1>5, <1>6 DEF FrontNext

\* With nothing on its way, what is shown is what waits.
LEMMA NothingOnItsWay ==
    ASSUME FrontEndAssumption, FrontInv
    PROVE  ScreenIsTrue
<1>1. Open = IF phase = "ask" THEN {running} ELSE {}
  <2>1. phase = "ask" => running \in Tasks
    BY SomeFacts
  <2> QED BY <2>1 DEF Open, FrontInv, Tickets
<1>2. ASSUME inbox = <<>>, front = "tui"
      PROVE  Open = Range(ui.cards) /\ Len(ui.cards) <= 1
  <2>1. PICK c \in Card, m \in Nat : FollowsWith(c, m)
    BY <1>2 DEF FrontInv, Follows
  <2>2. ui.cards = Cards(c) /\ Trail(<<>>, ui.last, c, m, Current)
    BY <1>2, <2>1 DEF FollowsWith
  <2>3. c = Current
    <3> DEFINE d == Current
    <3>1. Trail(<<>>, ui.last, c, m, d)
      BY <2>2
    <3> HIDE DEF d
    <3>2. c = d
      BY <3>1, NoTrail
    <3> QED BY <3>2 DEF d
  <2>4. CASE phase = "ask"
    <3>1. running \in Tasks /\ running # None
      BY <2>4, SomeFacts
    <3>2. ui.cards = <<running>>
      BY <2>2, <2>3, <2>4, <3>1 DEF Current, Cards
    <3>3. Range(<<running>>) = {running} /\ Len(<<running>>) = 1
      BY DEF Range
    <3> QED BY <1>1, <2>4, <3>2, <3>3
  <2>5. CASE phase # "ask"
    <3>1. ui.cards = <<>>
      BY <2>2, <2>3, <2>5 DEF Current, Cards
    <3>2. Range(<<>>) = {} /\ Len(<<>>) = 0
      BY DEF Range
    <3> QED BY <1>1, <2>5, <3>1, <3>2
  <2> QED BY <2>4, <2>5
<1>3. ASSUME inbox = <<>>, front = "plain", NEW t \in Open, ticket[t] = "open"
      PROVE  main = [main EXCEPT !.at = "asking", !.task = t]
  <2>1. phase = "ask" /\ t = running
    BY <1>1, <1>3
  <2>2. main.at = "asking" /\ main.task = t
    BY <1>3, <2>1 DEF FrontInv, Attends
  <2>3. main \in Mains
    BY SomeFacts
  <2> QED BY <2>2, <2>3 DEF Mains
<1>4. QuestionsAreAsked
  BY <1>2, <1>3 DEF QuestionsAreAsked
<1>5. NothingRefused
  BY DEF NothingRefused, FrontInv, Follows, Control
<1> QED BY <1>4, <1>5 DEF ScreenIsTrue

\* Whatever the limit of a subscriber queue, and whatever the sessions and tasks: what is
\* on its way from the emitter and the broker to a front end stays in order
\* (harness/event_stream.py, harness/approvals.py, ui/tui/pump.py, ui/plain.py).
THEOREM FrontInvariant == FrontSpec => []FrontInv
<1>1. FrontInit => FrontInv
  BY FrontEndAssumption, FrontStarts
<1>2. FrontInv /\ [FrontNext]_frontVars => FrontInv'
  BY FrontEndAssumption, FrontKeeps
<1> QED BY <1>1, <1>2, PTL DEF FrontSpec

\* When a front end has taken all it was sent, its cards are the tickets that wait, the
\* plain loop has asked the one that waits, and no event was taken for one already shown
\* (ui/tui/transcript.py, ui/plain.py), though events and tickets may overtake each other,
\* a full queue loses its backlog, and another session's numbers start again.
THEOREM ScreensAreTrue == FrontSpec => []ScreenIsTrue
<1>1. FrontInv => ScreenIsTrue
  BY FrontEndAssumption, NothingOnItsWay
<1> QED BY <1>1, FrontInvariant, PTL
=============================================================================
