------------------------------ MODULE Keyboard ------------------------------
(***************************************************************************)
(* The keys of the terminal UI (ui/tui/app.py) and its commands            *)
(* (ui/tui/commands.py): what a key does depends on the input line, the    *)
(* completion menu, an open list and an approval card, and all but the     *)
(* first may change on their own between two keys.                         *)
(*                                                                         *)
(* A key acts on the transcript at once; what the session, a command or    *)
(* the broker posts waits in the inbox for a frame.  How the events of a   *)
(* task get there is in FrontEnd.                                          *)
(***************************************************************************)
EXTENDS Integers, Sequences

CONSTANTS
    Options,     \* the entries of each list, "resume" and "model"
    MaxTasks,    \* bound: tasks the user submits
    MaxTickets,  \* bound: questions the session asks
    MaxCommands, \* bound: commands the user runs
    MaxInbox     \* bound: messages that wait for a frame

ASSUME KeyboardConstants ==
    /\ DOMAIN Options = {"resume", "model"}
    /\ \A id \in DOMAIN Options : Options[id] \in 1..9
    /\ {MaxTasks, MaxTickets, MaxCommands, MaxInbox} \subseteq Nat

VARIABLES
    draft,     \* the text of the input line
    menu,      \* its completions: "none", "listed", or one is "chosen"
    picker,    \* the open list and its highlighted entry
    cards,     \* the open approval cards, each with its highlighted choice
    inbox,     \* RenderPump._queue
    running,   \* the commands whose result is awaited
    switching, \* _switching
    task,      \* how far the task is: "idle", "submitted", "started", "shown"
    tickets,   \* the questions the broker asked: [allow_session, state]
    armed,     \* _last_interrupt is less than double_press_seconds ago
    exited,    \* Application.exit was called
    typed,     \* text was typed since the open list was shown
    warned,    \* the user was told that the next Ctrl+C leaves, or it cancelled a task
    astray,    \* what a key did that it was not meant to
    tasks, commands

lineVars == <<draft, menu>>
sessionVars == <<task, tickets, switching, tasks>>
ghosts == <<typed, warned, astray>>
keyVars == <<lineVars, picker, cards, inbox, running, sessionVars, armed, exited, ghosts, commands>>

\* A line that asks for a task, one that ends with a backslash, and the commands:
\* "/re" is the beginning of one.
COMMANDS == {"/exit", "/clear", "/cancel", "/resume", "/resume id", "/model", "/model id"}
Texts == COMMANDS \cup {"", "task", "line\\", "/re"}
IsCommand(text) == text \in COMMANDS \cup {"/re"}
NoPicker == [id |-> "none", choice |-> 0]

KeysTyped ==
    /\ draft \in Texts
    /\ menu \in {"none", "listed", "chosen"}
    /\ picker = NoPicker \/ picker.choice \in 0..(Options[picker.id] - 1)
    /\ \A i \in DOMAIN cards : cards[i].ticket \in DOMAIN tickets /\ cards[i].choice \in 0..2
    /\ task \in {"idle", "submitted", "started", "shown"}
    /\ {armed, exited, typed, warned, switching} \subseteq BOOLEAN

KeysInit ==
    /\ draft = "" /\ menu = "none" /\ picker = NoPicker /\ cards = <<>>
    /\ inbox = <<>> /\ running = {} /\ switching = FALSE
    /\ task = "idle" /\ tickets = <<>> /\ armed = FALSE /\ exited = FALSE
    /\ typed = FALSE /\ warned = FALSE /\ astray = {}
    /\ tasks = 0 /\ commands = 0

\* _busy: from the submission until the outcome reached the transcript, but for the moment
\* between the return of submit and the frame with goal.started.
Busy == task \in {"submitted", "shown"} \/ switching

\* RenderPump.post
Post(messages) == Len(inbox \o messages) <= MaxInbox /\ inbox' = inbox \o messages
PickerShown(id) == [kind |-> "picker", id |-> id]
CardShown(n) == [kind |-> "shown", ticket |-> n]
CardClosed(n) == [kind |-> "closed", ticket |-> n]
Goal(kind) == [kind |-> kind]

----------------------------------------------------------------------------
(* What the keys find *)

CardOpen == cards # <<>>
Card == Head(cards)
PickerOpen == picker # NoPicker /\ ~CardOpen
ListKeys == PickerOpen /\ draft = ""
NoCard == ~CardOpen /\ ~ListKeys

\* approval_choices: "session" only when the ticket allows a grant.
ApprovalChoices(allow_session) ==
    IF allow_session THEN <<"once", "session", "deny">> ELSE <<"once", "deny">>

\* Mutated: typing leaves the list open.
PickerStaysOpen(text) == UNCHANGED picker

\* _close_picker_on_typing
ClosePickerOnTyping(text) == picker' = IF text # "" THEN NoPicker ELSE picker

Stray(deed, wrong) == astray' = astray \cup (IF wrong THEN {deed} ELSE {})

----------------------------------------------------------------------------
(* The input line *)

\* The line becomes a text; completions are offered for what begins like a command.
Becomes(text) ==
    /\ draft' = text
    /\ menu' \in {"none"} \cup (IF IsCommand(text) THEN {"listed"} ELSE {})
    /\ ClosePickerOnTyping(text)
    /\ typed' = (typed \/ text # "")

Type(text) ==
    /\ text # draft
    /\ Becomes(text)
    /\ UNCHANGED <<cards, inbox, running, sessionVars, armed, exited, warned, astray, commands>>

\* Tab and the arrows on the completions.
Highlight ==
    /\ menu = "listed" /\ menu' = "chosen"
    /\ UNCHANGED <<draft, picker, cards, inbox, running, sessionVars, armed, exited, ghosts, commands>>

\* _run_command
RunCommand(text) ==
    /\ commands < MaxCommands /\ commands' = commands + 1
    /\ running' = running \cup {text}

\* _submit_text; a task is refused with a notice while one runs, by the session in the
\* moment _busy does not see.
SubmitText(text) ==
    \/ text = "" /\ UNCHANGED <<running, task, tasks, commands>>
    \/ IsCommand(text) /\ RunCommand(text) /\ UNCHANGED <<task, tasks>>
    \/ /\ text = "task" /\ (Busy \/ task = "started")
       /\ UNCHANGED <<running, task, tasks, commands>>
    \/ /\ text = "task" /\ ~Busy /\ task = "idle"
       /\ tasks < MaxTasks /\ tasks' = tasks + 1 /\ task' = "submitted"
       /\ UNCHANGED <<running, commands>>

\* Enter on the line: a new line, or what it says.
EnterLine ==
    /\ NoCard /\ menu = "none"
    /\ IF draft = "line\\"
       THEN Becomes("task") /\ UNCHANGED <<running, task, tasks, commands>>
       ELSE draft' = "" /\ UNCHANGED <<menu, picker, typed>> /\ SubmitText(draft)
    /\ UNCHANGED <<cards, inbox, tickets, switching, armed, exited, warned, astray>>

\* Enter on the completions takes the chosen one, or closes them.
EnterCompletion ==
    /\ NoCard /\ menu # "none"
    /\ \/ menu = "listed" /\ menu' = "none" /\ UNCHANGED <<draft, picker, typed>>
       \/ menu = "chosen" /\ \E text \in COMMANDS : Becomes(text)
    /\ UNCHANGED <<cards, inbox, running, sessionVars, armed, exited, warned, astray, commands>>

----------------------------------------------------------------------------
(* The list and the card *)

Arrow(step) ==
    /\ CardOpen \/ ListKeys
    /\ IF CardOpen
       THEN LET size == Len(ApprovalChoices(tickets[Card.ticket].allow_session))
            IN  cards' = [cards EXCEPT ![1].choice = (@ + size + step) % size] /\ UNCHANGED picker
       ELSE LET size == Options[picker.id]
            IN  picker' = [picker EXCEPT !.choice = (@ + size + step) % size] /\ UNCHANGED cards
    /\ UNCHANGED <<lineVars, inbox, running, sessionVars, armed, exited, ghosts, commands>>

\* _choose: a session is switched to, or /model is run.
Choose(index) ==
    /\ ListKeys
    /\ index < Options[picker.id]
    /\ picker' = NoPicker
    /\ running' = running \cup {IF picker.id = "resume" THEN "switch" ELSE "/model id"}
    /\ Stray("choice", typed)
    /\ UNCHANGED <<lineVars, cards, inbox, sessionVars, armed, exited, typed, warned, commands>>

\* ApprovalBroker.answer takes one answer, and none the ticket does not allow.
Answerable(n, answer) ==
    tickets[n].state = "open" /\ (answer = "session" => tickets[n].allow_session)

\* _answer: the card on top; a key that its open question does not take is a dead key.
Answer(answer) ==
    /\ tickets' = [tickets EXCEPT ![Card.ticket].state =
                      IF Answerable(Card.ticket, answer) THEN "answered" ELSE @]
    /\ Stray("answer", tickets[Card.ticket].state = "open" /\ ~Answerable(Card.ticket, answer))
    /\ UNCHANGED <<lineVars, picker, cards, inbox, running, task, switching, tasks, armed, exited, typed, warned, commands>>

EnterCard ==
    /\ CardOpen
    /\ Answer(ApprovalChoices(tickets[Card.ticket].allow_session)[Card.choice + 1])

\* A digit on a card, whatever stands in the line.
DigitCard(index) ==
    /\ CardOpen
    /\ LET choices == ApprovalChoices(tickets[Card.ticket].allow_session)
       IN  index < Len(choices) /\ Answer(choices[index + 1])

\* Escape denies, closes the list, or closes the completions; else it cancels the task, even
\* beside a list that was opened over a line (TaskEnds: the session may end it at any time).
Escape ==
    \/ CardOpen /\ Answer("deny")
    \/ /\ ListKeys /\ picker' = NoPicker
       /\ UNCHANGED <<lineVars, cards, inbox, running, sessionVars, armed, exited, ghosts, commands>>
    \/ /\ NoCard /\ menu # "none" /\ menu' = "none"
       /\ UNCHANGED <<draft, picker, cards, inbox, running, sessionVars, armed, exited, ghosts, commands>>

\* Ctrl+C leaves the second time; the first cancels the task, or clears the line, or warns.
Interrupt ==
    /\ \/ armed /\ exited' = TRUE /\ Stray("exit", ~warned) /\ UNCHANGED <<lineVars, armed, warned>>
       \/ /\ ~armed /\ ~Busy /\ draft # ""
          /\ draft' = "" /\ menu' = "none" /\ UNCHANGED <<armed, warned, exited, astray>>
       \/ /\ ~armed /\ (Busy \/ draft = "")
          /\ armed' = TRUE /\ warned' = TRUE /\ UNCHANGED <<lineVars, exited, astray>>
    /\ UNCHANGED <<picker, cards, inbox, running, sessionVars, typed, commands>>

\* Ctrl+D
EndOfInput ==
    /\ draft = "" /\ ~Busy /\ exited' = TRUE
    /\ UNCHANGED <<lineVars, picker, cards, inbox, running, sessionVars, armed, ghosts, commands>>

----------------------------------------------------------------------------
(* What goes on meanwhile *)

\* double_press_seconds go by.
WindowPasses ==
    /\ armed /\ armed' = FALSE /\ warned' = FALSE
    /\ UNCHANGED <<lineVars, picker, cards, inbox, running, sessionVars, exited, typed, astray, commands>>

\* _apply_command of a result: what is left to wait for.
Applied(text, then) ==
    /\ text \in running
    /\ running' = (running \ {text}) \cup then
    /\ UNCHANGED <<lineVars, picker, cards, task, tickets, tasks, armed, ghosts, commands>>

\* A list, unless there is nothing to list or a line was begun meanwhile: the text wins.
ListReturns(text, id) ==
    /\ Applied(text, {})
    /\ \/ UNCHANGED inbox
       \/ draft = "" /\ Post(<<PickerShown(id)>>)
    /\ UNCHANGED <<exited, switching>>

\* /resume with a target: TuiApp._resume is scheduled.
ResumeReturns == Applied("/resume id", {"switch"}) /\ UNCHANGED <<inbox, exited, switching>>

\* TuiApp._resume up to its await; it is refused while busy.
SwitchBegins ==
    /\ Applied("switch", {})
    /\ switching' = (switching \/ ~Busy)
    /\ UNCHANGED <<inbox, exited>>

ExitReturns == Applied("/exit", {}) /\ exited' = TRUE /\ UNCHANGED <<inbox, switching>>

\* The commands that only ask the session for something (SessionController), and an
\* unknown one: a notice.
NoticeReturns(text) == Applied(text, {}) /\ UNCHANGED <<inbox, exited, switching>>

CommandReturns ==
    \/ ListReturns("/resume", "resume") \/ ListReturns("/model", "model")
    \/ ResumeReturns \/ SwitchBegins \/ ExitReturns
    \/ \E text \in {"/clear", "/cancel", "/model id", "/re"} : NoticeReturns(text)

\* The switch is through, or was refused.
Resumed ==
    /\ switching /\ switching' = FALSE
    /\ UNCHANGED <<lineVars, picker, cards, inbox, running, task, tickets, tasks, armed, exited, ghosts, commands>>

\* submit returns: the task is tracked, or could not start (_on_submitted).
SubmitReturns ==
    /\ task = "submitted"
    /\ \/ task' = "started" /\ Post(<<Goal("goal_started")>>)
       \/ task' = "idle" /\ UNCHANGED inbox
    /\ UNCHANGED <<lineVars, picker, cards, running, tickets, switching, tasks, armed, exited, ghosts, commands>>

Ending == \E i \in DOMAIN inbox : inbox[i].kind = "outcome"
Asking == {n \in DOMAIN tickets : tickets[n].state \in {"open", "answered"}}

QuestionOpens(allow_session) ==
    /\ task \in {"started", "shown"} /\ Asking = {} /\ ~Ending /\ Len(tickets) < MaxTickets
    /\ tickets' = Append(tickets, [allow_session |-> allow_session, state |-> "open"])
    /\ Post(<<CardShown(Len(tickets) + 1)>>)
    /\ UNCHANGED <<lineVars, picker, cards, running, task, switching, tasks, armed, exited, ghosts, commands>>

\* The answer is there, the time is over or the task was cancelled; the last ends the task.
QuestionCloses(ends) ==
    /\ Asking # {}
    /\ tickets' = [n \in DOMAIN tickets |-> [tickets[n] EXCEPT !.state = "closed"]]
    /\ Post(<<CardClosed(Len(tickets))>> \o (IF ends THEN <<Goal("outcome")>> ELSE <<>>))
    /\ UNCHANGED <<lineVars, picker, cards, running, task, switching, tasks, armed, exited, ghosts, commands>>

TaskEnds ==
    /\ task \in {"started", "shown"} /\ Asking = {}
    /\ ~Ending
    /\ Post(<<Goal("outcome")>>)
    /\ UNCHANGED <<lineVars, picker, cards, running, sessionVars, armed, exited, ghosts, commands>>

----------------------------------------------------------------------------
(* A frame *)

Seen == [picker |-> picker, cards |-> cards, task |-> task, typed |-> typed]

\* The cards without that of a ticket; a ticket has one card.
Without(shown, n) ==
    LET of == {i \in DOMAIN shown : shown[i].ticket = n}
    IN  IF of = {} THEN shown
        ELSE LET i == CHOOSE i \in of : TRUE
             IN  SubSeq(shown, 1, i - 1) \o SubSeq(shown, i + 1, Len(shown))

\* transcript.reduce
Reduce(s, m) ==
    CASE m.kind = "picker" -> [s EXCEPT !.picker = [id |-> m.id, choice |-> 0], !.typed = FALSE]
      [] m.kind = "shown" -> [s EXCEPT !.cards = Append(@, [ticket |-> m.ticket, choice |-> 0])]
      [] m.kind = "closed" -> [s EXCEPT !.cards = Without(@, m.ticket)]
      [] m.kind = "goal_started" -> [s EXCEPT !.task = "shown"]
      [] m.kind = "outcome" -> [s EXCEPT !.task = "idle", !.cards = <<>>]

\* The messages in their order.
ReduceAll(s, messages) ==
    LET upto[i \in 0..Len(messages)] ==
            IF i = 0 THEN s ELSE Reduce(upto[i - 1], messages[i])
    IN  upto[Len(messages)]

\* RenderPump.run: one frame takes all that waits.
Frame ==
    /\ inbox # <<>> /\ inbox' = <<>>
    /\ LET s == ReduceAll(Seen, inbox)
       IN  picker' = s.picker /\ cards' = s.cards /\ task' = s.task /\ typed' = s.typed
    /\ UNCHANGED <<lineVars, running, tickets, switching, tasks, armed, exited, warned, astray, commands>>

Key ==
    \/ \E text \in Texts : Type(text)
    \/ Highlight \/ EnterLine \/ EnterCompletion
    \/ \E step \in {1, -1} : Arrow(step)
    \/ Choose(picker.choice) \/ \E digit \in 1..3 : Choose(digit - 1) \/ DigitCard(digit - 1)
    \/ EnterCard \/ Escape \/ Interrupt \/ EndOfInput

KeysNext ==
    /\ ~exited
    /\ \/ Key
       \/ CommandReturns
       \/ \E allow_session \in BOOLEAN : QuestionOpens(allow_session)
       \/ \E ends \in BOOLEAN : QuestionCloses(ends)
       \/ SubmitReturns \/ TaskEnds \/ Resumed \/ WindowPasses \/ Frame

KeysSpec == KeysInit /\ [][KeysNext]_keyVars

----------------------------------------------------------------------------
\* A key does what it shows: an entry is never chosen by one that was typed into the line
\* since the list came up, every key of a card is an answer its question takes, and Ctrl+C
\* leaves only where the press before it warned (app.py, _key_bindings).
KeysAreMeant == astray = {}
=============================================================================
