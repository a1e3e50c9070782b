------------------------------ MODULE FrontEnd ------------------------------
(***************************************************************************)
(* What a front end shows of a session and sends back to it: the event     *)
(* stream (harness/event_stream.py), the approval tickets                  *)
(* (harness/approvals.py), and the front ends that read them: the terminal *)
(* UI (ui/tui/app.py, pump.py, transcript.py), the plain loop              *)
(* (ui/plain.py) and print mode (ui/print_mode.py); and the classic shell  *)
(* (cli/agent_cli.py, cli/approval.py), which reads no events and asks the *)
(* broker itself what waits.                                               *)
(*                                                                         *)
(* The session runs on one loop, the front end on another thread.  Events  *)
(* take the long way: subscriber queue, forwarder, inbox.  Tickets are put *)
(* into the inbox by the broker's listener at once, so the two may         *)
(* overtake each other.                                                    *)
(***************************************************************************)
EXTENDS Naturals, Sequences, FiniteSets, SequencesExt

CONSTANTS
    Fronts,     \* the front ends: a subset of {"tui", "plain", "print", "classic"}
    Sessions,   \* session ids
    first,      \* the session the program starts with
    Tasks,      \* what the user submits
    None,       \* no task, no session
    Limit,      \* ui.subscriber_queue_size
    Behind,     \* bound: messages the pump may be behind when the session goes on
    MaxSteps,   \* bound: plans and calls of a task
    MaxSwitches, \* bound: /clear and /resume
    MaxFaults   \* bound: failed starts, refused switches, broken streams

ASSUME FrontEndAssumption ==
    /\ Fronts \subseteq {"tui", "plain", "print", "classic"}
    /\ first \in Sessions
    /\ None \notin Sessions \cup Tasks
    /\ Limit \in Nat \ {0}
    /\ {Behind, MaxSteps, MaxSwitches, MaxFaults} \subseteq Nat

VARIABLES
    front,      \* the front end that was launched
    session,    \* SessionContext.session_id
    sequence,   \* EventEmitter._sequence, per session (stored with it)
    initialized, \* SessionContext.initialized
    running,    \* SessionController._starting or _task
    phase,      \* how far it is
    steps,      \* plans and calls it has made
    target,     \* the session a switch goes to
    used,       \* the tasks submitted so far
    ticket,     \* ApprovalBroker._pending, one ticket a task
    stream,     \* the front end's subscription
    queue,      \* _Subscriber.queue
    inbox,      \* RenderPump._queue, PlainFrontend._events
    ui,         \* Transcript
    main,       \* where the front end's own loop is
    switches,
    faults

sessionVars == <<session, sequence, initialized, running, phase, steps, target>>
streamVars == <<stream, queue>>
frontVars == <<front, sessionVars, used, ticket, streamVars, inbox, ui, main, switches, faults>>

\* _KIND_BY_TYPE and project_event: a session's own events have no line in the feed.
ProjectEvent(type) ==
    CASE type \in {"session.started", "session.closed"} -> "none"
      [] type = "goal.started" -> "goal_started"
      [] type = "plan.updated" -> "plan"
      [] type = "action.proposed" -> "call"
      [] type \in {"approval.requested", "approval.answered"} -> "of_call"
      [] type = "observation.compiled" -> "observation"
      [] type = "goal.ended" -> "outcome"

Event(type, n, t) == [kind |-> "event", type |-> type, sequence |-> n, task |-> t]
Gap == [kind |-> "gap"]
Reset == [kind |-> "reset"]
Settled == [kind |-> "settled"]
Shown(t) == [kind |-> "shown", task |-> t]
Closed(t) == [kind |-> "closed", task |-> t]

FrontTypeOK ==
    /\ front \in Fronts
    /\ session \in Sessions
    /\ sequence \in [Sessions -> Nat]
    /\ initialized \in BOOLEAN
    /\ running \in Tasks \cup {None}
    /\ phase \in {"none", "starting", "run", "ask", "over"}
    /\ (running = None) <=> (phase = "none")
    /\ steps \in 0..MaxSteps
    /\ target \in Sessions \cup {None}
    /\ used \subseteq Tasks
    /\ stream \in {"up", "dead"}
    /\ Len(queue) <= Limit
    /\ ui.task \in Tasks \cup {None}
    /\ ui.live \subseteq {"plan", "call"}
    /\ main.at \in {"prompt", "submitting", "waiting", "asking", "exited"}

FrontInit ==
    /\ front \in Fronts
    /\ session = first
    /\ sequence = [s \in Sessions |-> 0]
    /\ initialized = FALSE
    /\ running = None
    /\ phase = "none"
    /\ steps = 0
    /\ target = None
    /\ used = {}
    /\ ticket = [t \in Tasks |-> "none"]
    /\ stream = IF front = "classic" THEN "dead" ELSE "up"
    /\ queue = <<>>
    /\ inbox = <<>>
    /\ ui = [live |-> {}, cards |-> <<>>, task |-> None, last |-> 0, refused |-> FALSE]
    /\ main = [at |-> "prompt", task |-> None, idle |-> 0, command |-> None, reset |-> FALSE]
    /\ switches = 0
    /\ faults = 0

----------------------------------------------------------------------------
(* The stream *)

\* _Subscriber.offer: a full queue loses its backlog and keeps one gap.
Offer(q, item) == IF Len(q) >= Limit THEN <<Gap>> ELSE Append(q, item)

OfferAll(q, items) ==
    LET upto[i \in 0..Len(items)] == IF i = 0 THEN q ELSE Offer(upto[i - 1], items[i])
    IN  upto[Len(items)]

\* EventBroadcaster.emit, of events with no await between them.
Deliver(items) ==
    /\ queue' = IF stream = "up" THEN OfferAll(queue, items) ELSE queue
    /\ UNCHANGED stream

\* EventEmitter.emit: each event has the session's next number.
Emit(types, t) ==
    /\ Deliver([i \in DOMAIN types |-> Event(types[i], sequence[session] + i, t)])
    /\ sequence' = [sequence EXCEPT ![session] = @ + Len(types)]

Quiet == UNCHANGED <<sequence, streamVars>>

Busy == running # None \/ target # None

\* An await of the session (a model, a tool, a human, a start) takes longer than
\* a hop between the loops: what was emitted before it has been forwarded when it
\* is over, and a result on its way to the UI loop has arrived.  A frame of the
\* pump may take longer still.
Drained ==
    /\ stream = "up" => queue = <<>>
    /\ ~main.reset
    /\ front = "tui" => Len(inbox) <= Behind

\* _settle_if_idle
SettleIfIdle == IF Busy THEN <<>> ELSE <<Settled>>

\* The messages one stream item becomes (_stream_message and its loop).
Forwarded(item) ==
    CASE item.kind = "event" ->
            IF ProjectEvent(item.type) = "none" \/ (front = "print" /\ item.type # "goal.ended")
            THEN <<>> ELSE <<item>>
      [] item.kind = "gap" -> IF front = "tui" THEN SettleIfIdle ELSE <<>>
      [] item.kind = "reset" -> IF front = "tui" THEN <<Reset>> ELSE <<>>

Forward ==
    /\ stream = "up"
    /\ queue # <<>>
    /\ queue' = Tail(queue)
    /\ inbox' = inbox \o Forwarded(Head(queue))
    /\ UNCHANGED <<front, sessionVars, used, ticket, stream, ui, main, switches, faults>>

\* _forward_stream ends with an exception: the rest of the stream is lost.
StreamBreaks ==
    /\ stream = "up"
    /\ faults < MaxFaults
    /\ faults' = faults + 1
    /\ stream' = "dead"
    /\ queue' = <<>>
    /\ inbox' = inbox \o (IF front = "tui" THEN SettleIfIdle ELSE <<>>)
    /\ UNCHANGED <<front, sessionVars, used, ticket, ui, main, switches>>

----------------------------------------------------------------------------
(* The session *)

\* RuntimeBridge.spawn(controller.submit) by a front end at rest.
Issue(t) ==
    /\ t \notin used
    /\ t = CHOOSE u \in Tasks \ used : TRUE
    /\ used' = used \cup {t}
    /\ \/ /\ ~Busy
          /\ running' = t
          /\ phase' = "starting"
          /\ steps' = 0
       \/ /\ Busy        \* TaskBusyError, shown as a notice
          /\ UNCHANGED <<running, phase, steps>>
    /\ UNCHANGED <<front, session, sequence, initialized, target, ticket, streamVars, ui, switches, faults>>

\* The plain loop and print mode go on when submit returns.
Tracked(at) == main' = IF main.at = "submitting" THEN [main EXCEPT !.at = at] ELSE main

\* SessionRuntime.start, reset_task and the first event of GoalRunner.run.
Starts ==
    /\ Drained
    /\ phase = "starting"
    /\ phase' = "run"
    /\ initialized' = TRUE
    /\ Emit((IF initialized THEN <<>> ELSE <<"session.started">>) \o <<"goal.started">>, running)
    /\ Tracked("waiting")
    /\ UNCHANGED <<front, session, running, steps, target, used, ticket, inbox, ui, switches, faults>>

StartFails ==
    /\ phase = "starting"
    /\ ~initialized
    /\ faults < MaxFaults
    /\ faults' = faults + 1
    /\ running' = None
    /\ phase' = "none"
    /\ Tracked(IF front = "print" THEN "exited" ELSE "prompt")
    /\ Quiet
    /\ UNCHANGED <<front, session, initialized, steps, target, used, ticket, inbox, ui, switches>>

\* A plan and a call that needs no approval.
Step ==
    /\ Drained
    /\ phase = "run"
    /\ steps < MaxSteps
    /\ steps' = steps + 1
    /\ Emit(<<"plan.updated", "action.proposed", "observation.compiled">>, running)
    /\ UNCHANGED <<front, session, initialized, running, phase, target, used, ticket, inbox, ui, main, switches, faults>>

\* ApprovalBroker._notify: the front end's listener puts it into the inbox.
Notify(item) == inbox' = IF front \in {"print", "classic"} THEN inbox ELSE Append(inbox, item)

\* ApprovalBroker.__call__ up to its wait; allow_session is the verdict's.
Ask ==
    /\ Drained
    /\ phase = "run"
    /\ ticket[running] = "none"
    /\ phase' = "ask"
    /\ Emit(<<"action.proposed", "approval.requested">>, running)
    /\ ticket' = [ticket EXCEPT ![running] = "open"]
    /\ Notify(Shown(running))
    /\ UNCHANGED <<front, session, initialized, running, steps, target, used, ui, main, switches, faults>>

\* ApprovalBroker.answer: only an open ticket takes an answer, from any thread.
Answer(t) == ticket' = IF ticket[t] = "open" THEN [ticket EXCEPT ![t] = "set"] ELSE ticket

\* Mutated: no listener is told.
ResolveQuietly == ticket' = [ticket EXCEPT ![running] = "closed"] /\ UNCHANGED inbox

\* _resolve: the event and the listeners.
Resolve ==
    /\ ticket' = [ticket EXCEPT ![running] = "closed"]
    /\ Notify(Closed(running))

\* The wait ends with the answer; at any moment, even when the answer is there,
\* the timer may be first.
Answered ==
    /\ Drained
    /\ phase = "ask"
    /\ Resolve
    /\ phase' = "run"
    /\ Emit(<<"approval.answered">>, running)
    /\ UNCHANGED <<front, session, initialized, running, steps, target, used, ui, main, switches, faults>>

\* The goal's last event, in one go with those of the last step (so it may be
\* the one that overflows); memory and files come after it.
GoalIsOver ==
    /\ phase = "run"
    /\ phase' = "over"
    /\ Emit(<<"goal.ended">>, running)
    /\ UNCHANGED <<front, session, initialized, running, steps, target, used, ticket, inbox, ui, main, switches, faults>>

\* SessionRuntime.run_task returns; print mode gets its outcome.
TaskReturns ==
    /\ phase = "over"
    /\ running' = None
    /\ phase' = "none"
    /\ Quiet
    /\ UNCHANGED <<front, session, initialized, steps, target, used, ticket, inbox, ui, main, switches, faults>>

\* SessionController.cancel, up to what the cancelled task does.
Cancel ==
    /\ Drained
    /\ running # None
    /\ \/ /\ phase = "starting"
          /\ running' = None
          /\ phase' = "none"
          /\ Tracked("prompt")
          /\ Quiet
          /\ UNCHANGED <<ticket, inbox>>
       \/ /\ phase = "run"
          /\ phase' = "over"
          /\ Emit(<<"goal.ended">>, running)
          /\ UNCHANGED <<running, ticket, inbox, main>>
       \/ /\ phase = "ask"
          /\ phase' = "over"
          /\ Resolve
          /\ Emit(<<"approval.answered", "goal.ended">>, running)
          /\ UNCHANGED <<running, main>>
       \/ /\ phase = "over"
          /\ running' = None
          /\ phase' = "none"
          /\ Quiet
          /\ UNCHANGED <<ticket, inbox, main>>
    /\ UNCHANGED <<front, session, initialized, steps, target, used, ui, switches, faults>>

\* SessionController.reset and resume, up to the close of the session that is
\* left; while busy they are refused.  /clear makes a new session, /resume goes
\* to one that has tasks.
SwitchTo(command, s) ==
    /\ Drained
    /\ ~Busy
    /\ switches < MaxSwitches
    /\ switches' = switches + 1
    /\ s # session
    /\ IF command = "clear" THEN sequence[s] = 0 ELSE sequence[s] > 1
    /\ target' = s
    /\ initialized' = FALSE
    /\ Emit(<<"session.closed">>, None)
    /\ main' = [main EXCEPT !.command = command]
    /\ UNCHANGED <<front, session, running, phase, steps, used, ticket, inbox, ui, faults>>

\* mark_reset, and the command's result on its way to the front end.
Switched ==
    /\ target # None
    /\ session' = target
    /\ target' = None
    /\ Deliver(<<Reset>>)
    /\ main' = [main EXCEPT !.reset = TRUE]
    /\ UNCHANGED <<front, sequence, initialized, running, phase, steps, used, ticket, inbox, ui, switches, faults>>

SessionStep ==
    \/ Starts \/ Step \/ Ask \/ Answered \/ GoalIsOver \/ TaskReturns \/ Switched

----------------------------------------------------------------------------
(* The terminal UI *)

\* _reduce_feed: what one feed item does to the live blocks and the spinner.
ReduceFeed(u, item) ==
    LET kind == ProjectEvent(item.type)
    IN  IF item.sequence <= u.last THEN [u EXCEPT !.refused = TRUE]
        ELSE [u EXCEPT
            !.last = item.sequence,
            !.live = CASE kind \in {"goal_started", "outcome"} -> {}
                       [] kind = "plan" -> @ \cup {"plan"}
                       [] kind \in {"call", "of_call"} -> @ \cup {"call"}
                       [] kind = "observation" -> @ \ {"call"},
            !.cards = IF kind = "outcome" THEN <<>> ELSE @,
            !.task = CASE kind = "goal_started" -> item.task
                       [] kind = "plan" /\ @ = None -> item.task
                       [] kind = "outcome" -> None
                       [] OTHER -> @]

\* _close_approval
Without(cards, t) ==
    LET upto[i \in 0..Len(cards)] ==
            IF i = 0 THEN <<>>
            ELSE IF cards[i] = t THEN upto[i - 1]
            ELSE Append(upto[i - 1], cards[i])
    IN  upto[Len(cards)]

\* transcript.reduce
Reduce(u, message) ==
    CASE message.kind = "event" -> ReduceFeed(u, message)
      [] message.kind = "reset" -> [u EXCEPT !.last = 0]
      [] message.kind = "settled" ->
            IF u.task = None THEN u ELSE [u EXCEPT !.live = {}, !.cards = <<>>, !.task = None]
      [] message.kind = "shown" -> [u EXCEPT !.cards = Append(@, message.task)]
      [] message.kind = "closed" -> [u EXCEPT !.cards = Without(@, message.task)]

ReduceAll(u, messages) ==
    LET upto[i \in 0..Len(messages)] == IF i = 0 THEN u ELSE Reduce(upto[i - 1], messages[i])
    IN  upto[Len(messages)]

\* RenderPump.run: one frame folds all that has arrived.
Frame ==
    /\ front = "tui"
    /\ inbox # <<>>
    /\ ui' = ReduceAll(ui, inbox)
    /\ inbox' = <<>>
    /\ UNCHANGED <<front, sessionVars, used, ticket, streamVars, main, switches, faults>>

\* TuiApp._busy
UiBusy == phase = "starting" \/ main.command = "resume" \/ ui.task # None

TuiSubmit(t) ==
    /\ front = "tui"
    /\ ~UiBusy
    /\ Issue(t)
    /\ UNCHANGED <<inbox, main>>

TuiCancel ==
    /\ front = "tui"
    /\ UiBusy
    /\ Cancel

\* A key on the card that is shown: its ticket is answered, whatever became of it.
TuiAnswer ==
    /\ front = "tui"
    /\ ui.cards # <<>>
    /\ Answer(Head(ui.cards))
    /\ UNCHANGED <<front, sessionVars, used, streamVars, inbox, ui, main, switches, faults>>

\* /clear and /resume: only /resume looks at _busy, and keeps submits away.
TuiSwitch(command, s) ==
    /\ front = "tui"
    /\ main.command = None
    /\ command = "resume" => ~UiBusy
    /\ SwitchTo(command, s)

\* The result of the switch reaches the UI loop: its own StreamReset.
TuiSwitched ==
    /\ front = "tui"
    /\ main.reset
    /\ main' = [main EXCEPT !.command = None, !.reset = FALSE]
    /\ inbox' = Append(inbox, Reset)
    /\ UNCHANGED <<front, sessionVars, used, ticket, streamVars, ui, switches, faults>>

\* Mutated: the poll never settles.
PollOnlyLooks ==
    /\ front = "tui"
    /\ inbox = <<>>
    /\ main.idle # 0
    /\ main' = [main EXCEPT !.idle = 0]
    /\ UNCHANGED <<front, sessionVars, used, ticket, streamVars, inbox, ui, switches, faults>>

\* _poll_status: a transcript with a task while the view is idle, twice in a row,
\* is settled.
Poll ==
    /\ front = "tui"
    /\ inbox = <<>>                      \* a poll takes longer than a frame
    /\ ui.task # None \/ main.idle # 0   \* else it would change nothing
    /\ LET idle == IF ui.task # None /\ ~Busy THEN main.idle + 1 ELSE 0
       IN  /\ main' = [main EXCEPT !.idle = idle % 2]
           /\ inbox' = IF idle = 2 THEN Append(inbox, Settled) ELSE inbox
    /\ UNCHANGED <<front, sessionVars, used, ticket, streamVars, ui, switches, faults>>

----------------------------------------------------------------------------
(* The plain loop *)

PlainAtPrompt == main.at = "prompt" /\ main.command = None

\* _run_task: leftovers are dropped, then submit is waited for.
PlainSubmit(t) ==
    /\ front = "plain"
    /\ PlainAtPrompt
    /\ Issue(t)
    /\ inbox' = <<>>
    /\ main' = IF Busy THEN main ELSE [main EXCEPT !.at = "submitting", !.task = t, !.idle = 0]

\* One item of the queue: only this task's, and a resolution has no task.
PlainTake ==
    /\ front = "plain"
    /\ main.at = "waiting"
    /\ inbox # <<>>
    /\ inbox' = Tail(inbox)
    /\ LET item == Head(inbox)
           own == item.kind # "closed" /\ item.task = main.task
       IN  main' = [main EXCEPT
                !.idle = 0,
                !.at = IF own /\ item.kind = "shown" THEN "asking"
                       ELSE IF own /\ item.kind = "event" /\ item.type = "goal.ended" THEN "prompt"
                       ELSE @]
    /\ UNCHANGED <<front, sessionVars, used, ticket, streamVars, ui, switches, faults>>

\* _settled twice in a row: the outcome is lost.
PlainIdle ==
    /\ front = "plain"
    /\ main.at = "waiting"
    /\ inbox = <<>>
    /\ main' = IF Busy THEN [main EXCEPT !.idle = 0]
               ELSE IF main.idle = 0 THEN [main EXCEPT !.idle = 1]
               ELSE [main EXCEPT !.at = "prompt"]
    /\ UNCHANGED <<front, sessionVars, used, ticket, streamVars, inbox, ui, switches, faults>>

\* _ask: the line the user types, for the ticket it was asked for.
PlainAnswer ==
    /\ front = "plain"
    /\ main.at = "asking"
    /\ Answer(main.task)
    /\ main' = [main EXCEPT !.at = "waiting"]
    /\ UNCHANGED <<front, sessionVars, used, streamVars, inbox, ui, switches, faults>>

PlainCancel ==
    /\ front = "plain"
    /\ main.at \in {"submitting", "waiting"}
    /\ Cancel

\* /clear and /resume block the loop until they are through.
PlainSwitch(command, s) ==
    /\ front = "plain"
    /\ PlainAtPrompt
    /\ SwitchTo(command, s)

PlainSwitched ==
    /\ front = "plain"
    /\ main.reset
    /\ main' = [main EXCEPT !.command = None, !.reset = FALSE]
    /\ UNCHANGED <<front, sessionVars, used, ticket, streamVars, inbox, ui, switches, faults>>

----------------------------------------------------------------------------
(* Print mode *)

PrintRun(t) ==
    /\ front = "print"
    /\ main.at = "prompt"
    /\ used = {}
    /\ Issue(t)
    /\ main' = [main EXCEPT !.at = "submitting", !.task = t]
    /\ UNCHANGED inbox

\* The outcome, and at most shutdown_timeout_seconds more for its event.
PrintReturns ==
    /\ front = "print"
    /\ main.at = "waiting"
    /\ running = None
    /\ main' = [main EXCEPT !.at = "exited"]
    /\ UNCHANGED <<front, sessionVars, used, ticket, streamVars, inbox, ui, switches, faults>>

----------------------------------------------------------------------------
(* The classic shell: its prompt stays open while a task runs *)

\* AgentCli._is_task_running: not _task_done.
ClassicRunning == main.at \in {"submitting", "waiting"}

\* _run_task_text: SessionController.run on the session's loop.
ClassicRun(t) ==
    /\ front = "classic"
    /\ ~ClassicRunning /\ main.command = None
    /\ Issue(t)
    /\ main' = [main EXCEPT !.at = "submitting", !.task = t]
    /\ UNCHANGED inbox

\* default: while a question waits, the line answers the oldest one.
ClassicLine ==
    /\ front = "classic"
    /\ \E t \in Tasks : ticket[t] = "open" /\ Answer(t)
    /\ UNCHANGED <<front, sessionVars, used, streamVars, inbox, ui, main, switches, faults>>

ClassicCancel ==
    /\ front = "classic"
    /\ ClassicRunning
    /\ Cancel

\* do_reset blocks the shell until it is through.
ClassicReset(s) ==
    /\ front = "classic"
    /\ ~ClassicRunning /\ main.command = None
    /\ SwitchTo("clear", s)

ClassicResetDone ==
    /\ front = "classic"
    /\ main.reset
    /\ main' = [main EXCEPT !.command = None, !.reset = FALSE]
    /\ UNCHANGED <<front, sessionVars, used, ticket, streamVars, inbox, ui, switches, faults>>

\* _on_task_done
ClassicTaskDone ==
    /\ front = "classic"
    /\ main.at = "waiting"
    /\ running = None
    /\ main' = [main EXCEPT !.at = "prompt"]
    /\ UNCHANGED <<front, sessionVars, used, ticket, streamVars, inbox, ui, switches, faults>>

----------------------------------------------------------------------------
User ==
    \/ \E t \in Tasks : TuiSubmit(t) \/ PlainSubmit(t) \/ PrintRun(t) \/ ClassicRun(t)
    \/ TuiAnswer \/ PlainAnswer \/ ClassicLine
    \/ \E s \in Sessions : ClassicReset(s)
    \/ \E s \in Sessions, command \in {"clear", "resume"} : TuiSwitch(command, s) \/ PlainSwitch(command, s)
    \/ TuiCancel \/ PlainCancel \/ ClassicCancel

FrontStep ==
    \/ Frame \/ TuiSwitched \/ Poll
    \/ PlainTake \/ PlainIdle \/ PlainSwitched \/ PrintReturns
    \/ ClassicResetDone \/ ClassicTaskDone

FrontNext ==
    \/ Forward \/ StreamBreaks
    \/ SessionStep \/ StartFails
    \/ FrontStep
    \/ User

FrontSpec == FrontInit /\ [][FrontNext]_frontVars

\* The goal, the ticket's timer and the loops go on; the user need not.
FrontFairSpec ==
    /\ FrontSpec
    /\ WF_frontVars(Forward)
    /\ WF_frontVars(Starts) /\ WF_frontVars(Answered) /\ WF_frontVars(GoalIsOver)
    /\ WF_frontVars(TaskReturns) /\ WF_frontVars(Switched)
    /\ WF_frontVars(Frame) /\ WF_frontVars(TuiSwitched) /\ WF_frontVars(Poll)
    /\ WF_frontVars(PlainTake) /\ WF_frontVars(PlainIdle) /\ WF_frontVars(PlainSwitched) /\ WF_frontVars(PrintReturns)
    /\ WF_frontVars(ClassicResetDone) /\ WF_frontVars(ClassicTaskDone)

----------------------------------------------------------------------------
Open == {t \in Tasks : ticket[t] \in {"open", "set"}}

\* When the terminal UI has folded what it got, its cards are the tickets that
\* wait; the plain loop has asked, or is about to ask, the one that waits.
QuestionsAreAsked ==
    inbox = <<>> =>
        /\ front = "tui" => Open = Range(ui.cards) /\ Len(ui.cards) <= 1
        /\ front = "plain" =>
            \A t \in Open : ticket[t] = "open" => main = [main EXCEPT !.at = "asking", !.task = t]

\* No event is taken for one that was shown already: the numbers of another
\* session start again while items of the last one may still be on their way.
NothingRefused == ~ui.refused

\* What a front end shows is what there is: the questions that wait, and every event.
ScreenIsTrue == QuestionsAreAsked /\ NothingRefused

\* Every front end comes back: the spinner stops, the prompt returns, print exits.
FrontEndReturns ==
    /\ ui.task # None ~> ui.task = None
    /\ main.at \in {"submitting", "waiting"} ~> main.at \in {"prompt", "asking", "exited"}
=============================================================================
