------------------------- MODULE SessionController -------------------------
(***************************************************************************)
(* The commands of a front end (src/src/ui/controller.py) on the session   *)
(* they start, run tasks in, reset, switch and close                       *)
(* (src/src/harness/session.py), and the exit (src/src/cli/bootstrap.py).  *)
(*                                                                         *)
(* Everything runs on one asyncio loop, and which command gets in between  *)
(* two others depends on how many turns of the loop a wake-up takes: a     *)
(* future's own waiter is queued at once, a waiter behind asyncio.shield   *)
(* or asyncio.wait, or a call from another thread, one turn later.  So the *)
(* loop's queue is kept as it is: an entry <<t, n>> runs task t after n    *)
(* more turns, and an action is what t does up to its next await.          *)
(*                                                                         *)
(* A goal and the life of an MCP pool are one step here; GoalRunner and    *)
(* McpConnection have their own modules.                                   *)
(***************************************************************************)
EXTENDS Naturals, Sequences, FiniteSets

CONSTANTS
    Submits,    \* the tasks submitted
    Cancels,    \* cancel commands
    Resets,     \* /clear
    Resumes,    \* /resume
    Switches,   \* /model <id>
    Reconnects, \* /mcp reconnect <name>
    Models,     \* the model ids a user may name
    Default,    \* the one the program starts with
    Exits,      \* does the user leave?
    shutdown, close, stop,  \* the three calls of the exit
    None,       \* no task
    MaxCommands, \* bound: commands in one behaviour, the exit aside
    MaxFaults   \* bound: starts and writes that fail

\* Every command is of one kind, and a command like no other.
ASSUME CommandsAssumption ==
    /\ Submits \cap (Cancels \cup Resets \cup Resumes \cup Switches \cup Reconnects) = {}
    /\ Cancels \cap (Resets \cup Resumes \cup Switches \cup Reconnects) = {}
    /\ Resets \cap (Resumes \cup Switches \cup Reconnects) = {}
    /\ Resumes \cap (Switches \cup Reconnects) = {}
    /\ Switches \cap Reconnects = {}
    /\ (Submits \cup Cancels \cup Resets \cup Resumes \cup Switches \cup Reconnects)
          \cap {None, shutdown, close, stop} = {}
    /\ None \notin {shutdown, close, stop} /\ shutdown # close /\ shutdown # stop /\ close # stop

ASSUME ModelsAssumption == Default \in Models /\ None \notin Models

ASSUME BoundsAssumption == Exits \in BOOLEAN /\ MaxCommands \in Nat /\ MaxFaults \in Nat

VARIABLES
    ready,      \* the loop's queue
    at,         \* the await each task is suspended at
    cut,        \* the tasks whose next step raises CancelledError
    watchers,   \* the queue entries a finished task adds
    starting,   \* SessionController._starting
    task,       \* SessionController._task
    switching,  \* SessionController._switching
    context,    \* SessionRuntime.context
    model,      \* SessionRuntime.config.model
    agent,      \* the model of SessionRuntime.agent; None without one
    session,    \* the SessionContexts there were
    of,         \* the session a task or a closing command works on
    by,         \* the model a task is run by
    known,      \* the submit's count of tasks
    restored,   \* the session a resume has restored; 0 for none
    holds,      \* the MCP pool a closing command waits for
    faults,
    late,       \* history: the shutdown did not wait for the end
    hurried     \* history: a clean-up was cut off, or the exit's close found something running

controllerVars == <<starting, task, switching>>
runtimeVars == <<context, model, agent, session>>
localVars == <<of, by, known, restored, holds>>
historyVars == <<late, hurried>>
vars == <<ready, at, cut, watchers, starting, task, switching, context, model, agent, session, of, by,
          known, restored, holds, faults, late, hurried>>

Start(s) == <<"start", s>>
Run(s) == <<"run", s>>
Starts == {Start(s) : s \in Submits}
Runs == {Run(s) : s \in Submits}
Launchers == Starts \cup Runs
Leaving == IF Exits THEN {shutdown, close, stop} ELSE {}
Commands ==
    Submits \cup Cancels \cup Resets \cup Resumes \cup Switches \cup Reconnects \cup Leaving
Tasks == Commands \cup Launchers

\* The tasks a submit starts have names of their own.
ASSUME NamesAssumption == Launchers \cap (Commands \cup {None}) = {}

Sessions == 1..(1 + Cardinality(Resets) + Cardinality(Resumes))

\* A SessionContext: lock, chrome and mcp are its resources, serving the MCP
\* pools that run for it, each named by the task that launched it; model is its
\* config.model and llm the model it has built.
Fresh(locked, m) ==
    [lock |-> locked, initialized |-> FALSE, chrome |-> FALSE, mcp |-> None, serving |-> {},
     current |-> None, tasks |-> 0, model |-> m, llm |-> None]

Init ==
    /\ ready = <<>>
    /\ at = [t \in Tasks |-> "idle"]
    /\ cut = {}
    /\ watchers = [t \in Launchers |-> <<>>]
    /\ starting = None
    /\ task = None
    /\ switching = FALSE
    /\ context = 1
    /\ model = Default
    /\ agent = None
    /\ session = <<Fresh(FALSE, Default)>>
    /\ of = [t \in Tasks |-> 0]
    /\ by = [t \in Runs |-> None]
    /\ known = [s \in Submits |-> 0]
    /\ restored = [u \in Resumes |-> 0]
    /\ holds = [t \in Tasks |-> None]
    /\ faults = 0
    /\ late = FALSE
    /\ hurried = FALSE

----------------------------------------------------------------------------
(* The loop.                                                                *)

Over == {"ended", "done", "failed", "cancelled"}
Pending(t) == t # None /\ at[t] \notin Over
Queued(t) == \E k \in 1..Len(ready) : ready[k][1] = t
Stopped == Exits /\ at[stop] = "ended"

\* t is the next to run, from the await p.
Turn(t, p) == ~Stopped /\ ready # <<>> /\ Head(ready) = <<t, 0>> /\ at[t] = p

\* It suspends at the await p; the entries are queued on the way.
Goes(t, p, entries) ==
    /\ at' = [at EXCEPT ![t] = p]
    /\ ready' = Tail(ready) \o entries

Ends(t, how) == Goes(t, how, watchers[t])

\* A command returns; its caller, on another thread, hears of it a turn later.
Returns(c) == Goes(c, "returns", << <<c, 0>> >>)

\* A callback between the event and the task that waits for it.
Relay ==
    /\ ~Stopped /\ ready # <<>> /\ Head(ready)[2] > 0
    /\ ready' = Append(Tail(ready), <<Head(ready)[1], Head(ready)[2] - 1>>)
    /\ UNCHANGED <<at, cut, watchers, controllerVars, runtimeVars, localVars, faults, historyVars>>

\* What a task waits for outside of the loop: processes, files, the model.
Outside ==
    {"connects", "launches", "undoes", "fails", "goal", "stops", "remembers", "picks", "closes",
     "reconnects"}
IoDone(t) ==
    /\ ~Stopped /\ at[t] \in Outside /\ ~Queued(t)
    /\ ready' = Append(ready, <<t, 0>>)
    /\ UNCHANGED <<at, cut, watchers, controllerVars, runtimeVars, localVars, faults, historyVars>>

Fails == faults < MaxFaults /\ faults' = faults + 1

\* Mutated: a start is not busy.
BusyWithTask == Pending(task) \/ switching
Busy == Pending(starting) \/ Pending(task) \/ switching

----------------------------------------------------------------------------
(* Starting the session and running a task: the start task of a submit and  *)
(* its run task, which starts the session itself when it has to.            *)

SetSession(i, s) == session' = [session EXCEPT ![i] = s]

\* run_task behind start(): the task is tracked, unless the session has no
\* agent or its files cannot be written.
Track(t, s, a) ==
    \/ /\ a # None
       /\ SetSession(context, [s EXCEPT !.current = t, !.tasks = @ + 1])
       /\ of' = [of EXCEPT ![t] = context]
       /\ by' = [by EXCEPT ![t] = a]
       /\ Goes(t, "goal", <<>>)
       /\ UNCHANGED faults
    \/ /\ a # None => faults < MaxFaults
       /\ faults' = IF a # None THEN faults + 1 ELSE faults
       /\ SetSession(context, s)
       /\ Ends(t, "failed")
       /\ UNCHANGED <<of, by>>

Started(t, s, a) ==
    IF t \in Starts
    THEN SetSession(context, s) /\ Ends(t, "done") /\ UNCHANGED <<of, by, faults>>
    ELSE Track(t, s, a)

\* initialize up to its first await: the lock, the model, then Chrome.
Launch(t, s) ==
    /\ of' = [of EXCEPT ![t] = context]
    /\ UNCHANGED by
    /\ \/ /\ SetSession(context, [s EXCEPT !.lock = TRUE, !.chrome = TRUE, !.llm = s.model])
          /\ Goes(t, "connects", <<>>)
          /\ UNCHANGED faults
       \/ /\ Fails
          /\ \E locked \in {s.lock, TRUE} : SetSession(context, [s EXCEPT !.lock = locked])
          /\ Ends(t, "failed")

BeginLauncher(t) ==
    /\ Turn(t, "begin") /\ t \notin cut
    /\ IF session[context].initialized
       THEN Started(t, session[context], agent)
       ELSE Launch(t, session[context])
    /\ UNCHANGED <<cut, watchers, controllerVars, context, model, agent, known, restored, holds, historyVars>>

\* Chrome's port is open, or is not in time.
Connected(t) ==
    /\ Turn(t, "connects") /\ t \notin cut
    /\ \/ /\ SetSession(of[t], [session[of[t]] EXCEPT !.serving = @ \cup {t}])
          /\ Goes(t, "launches", <<>>)
          /\ UNCHANGED faults
       \/ /\ Fails
          /\ SetSession(of[t], [session[of[t]] EXCEPT !.chrome = FALSE])
          /\ Ends(t, "failed")
    /\ UNCHANGED <<cut, watchers, controllerVars, context, model, agent, localVars, historyVars>>

\* The MCP pool is up: the rest of initialize and of start().  The session
\* counts as initialized before its files are written.
Launched(t) ==
    /\ Turn(t, "launches") /\ t \notin cut
    /\ LET s == [session[of[t]] EXCEPT !.mcp = t, !.initialized = TRUE]
       IN  \/ agent' = s.llm /\ Started(t, s, s.llm)
           \/ /\ Fails
              /\ SetSession(of[t], s)
              /\ Ends(t, "failed")
              /\ UNCHANGED <<agent, of, by>>
    /\ UNCHANGED <<cut, watchers, controllerVars, context, model, known, restored, holds, historyVars>>

LaunchFails(t) ==
    /\ Turn(t, "launches") /\ t \notin cut
    /\ Fails
    /\ Goes(t, "fails", <<>>)
    /\ UNCHANGED <<cut, watchers, controllerVars, runtimeVars, localVars, historyVars>>

\* Mutated: the lock of the session is not given back.
UndoneQuietly(t) ==
    /\ \E p \in {"undoes", "fails"} :
          Turn(t, p) /\ t \notin cut /\ Ends(t, IF p = "undoes" THEN "cancelled" ELSE "failed")
    /\ SetSession(of[t], [session[of[t]] EXCEPT !.chrome = FALSE])
    /\ UNCHANGED <<cut, watchers, controllerVars, context, model, agent, localVars, faults, historyVars>>

\* initialize's except clause, once the pool is closed.
Undone(t) ==
    /\ \E p \in {"undoes", "fails"} :
          Turn(t, p) /\ t \notin cut /\ Ends(t, IF p = "undoes" THEN "cancelled" ELSE "failed")
    /\ SetSession(of[t], [session[of[t]] EXCEPT !.serving = @ \ {t}, !.chrome = FALSE])
    /\ UNCHANGED <<cut, watchers, controllerVars, context, model, agent, localVars, faults, historyVars>>

\* A cancelled start: before Chrome is reached, while MCP starts, and while it
\* already cleans up - the pool is then left as it is.
CutLaunch(t) ==
    /\ t \in cut
    /\ \/ /\ Turn(t, "begin")
          /\ Ends(t, "cancelled")
          /\ UNCHANGED <<session, hurried>>
       \/ /\ Turn(t, "connects")
          /\ SetSession(of[t], [session[of[t]] EXCEPT !.chrome = FALSE])
          /\ Ends(t, "cancelled")
          /\ UNCHANGED hurried
       \/ /\ Turn(t, "launches")
          /\ Goes(t, "undoes", <<>>)
          /\ UNCHANGED <<session, hurried>>
       \/ /\ Turn(t, "undoes") \/ Turn(t, "fails")
          /\ Ends(t, "cancelled")
          /\ hurried' = TRUE
          /\ UNCHANGED session
    /\ cut' = cut \ {t}
    /\ UNCHANGED <<watchers, controllerVars, context, model, agent, localVars, faults, late>>

\* The goal ended.  The record is closed at once when it raised or the memory has
\* nothing to consolidate, and behind the consolidation otherwise.
GoalOver(t) ==
    /\ Turn(t, "goal") /\ t \notin cut
    /\ \/ Goes(t, "remembers", <<>>) /\ UNCHANGED session
       \/ /\ \E how \in {"done", "failed"} : Ends(t, how)
          /\ SetSession(context, [session[context] EXCEPT !.current = None])
    /\ UNCHANGED <<cut, watchers, controllerVars, context, model, agent, localVars, faults, historyVars>>

\* The goal takes a while to stop.
CutGoal(t) ==
    /\ Turn(t, "goal") /\ t \in cut
    /\ Goes(t, "stops", <<>>)
    /\ cut' = cut \ {t}
    /\ UNCHANGED <<watchers, controllerVars, runtimeVars, localVars, faults, historyVars>>

\* Mutated: a task that was cut off leaves the session's current task.
FinishUnlessCut(t) ==
    /\ \E p \in {"stops", "remembers"} :
          /\ Turn(t, p)
          /\ Ends(t, IF p = "stops" \/ t \in cut THEN "cancelled" ELSE "done")
          /\ IF p = "remembers" /\ t \in cut
             THEN UNCHANGED session
             ELSE SetSession(context, [session[context] EXCEPT !.current = None])
    /\ cut' = cut \ {t}
    /\ UNCHANGED <<watchers, controllerVars, context, model, agent, localVars, faults, historyVars>>

\* finish_task and cancel_task close the record, however the wait ended.
FinishTask(t) ==
    /\ \E p \in {"stops", "remembers"} :
          /\ Turn(t, p)
          /\ Ends(t, IF p = "stops" \/ t \in cut THEN "cancelled" ELSE "done")
    /\ SetSession(context, [session[context] EXCEPT !.current = None])
    /\ cut' = cut \ {t}
    /\ UNCHANGED <<watchers, controllerVars, context, model, agent, localVars, faults, historyVars>>

----------------------------------------------------------------------------
(* submit, cancel and shutdown.                                             *)

Refuse(c) ==
    /\ Turn(c, "begin") /\ c \notin Cancels \cup Leaving /\ Busy
    /\ Returns(c)
    /\ UNCHANGED <<cut, watchers, controllerVars, runtimeVars, localVars, faults, historyVars>>

Submit(s) ==
    /\ Turn(s, "begin") /\ ~Busy
    /\ starting' = Start(s)
    /\ at' = [at EXCEPT ![s] = "shields", ![Start(s)] = "begin"]
    /\ ready' = Append(Tail(ready), <<Start(s), 0>>)
    /\ watchers' = [watchers EXCEPT ![Start(s)] = << <<s, 1>> >>]
    /\ UNCHANGED <<cut, task, switching, runtimeVars, localVars, faults, historyVars>>

\* The start is over.  submit waits for a cancelled one, which is done, once
\* more; it does not look at _switching again.
Shielded(s) ==
    /\ Turn(s, "shields")
    /\ CASE at[Start(s)] = "cancelled" ->
              Goes(s, "unwinds", << <<s, 1>> >>) /\ UNCHANGED <<starting, task, known>>
         [] at[Start(s)] = "failed" ->
              starting' = None /\ Returns(s) /\ UNCHANGED <<task, known>>
         [] OTHER ->
              /\ starting' = None
              /\ task' = Run(s)
              /\ known' = [known EXCEPT ![s] = session[context].tasks]
              /\ at' = [at EXCEPT ![s] = "tracks", ![Run(s)] = "begin"]
              /\ ready' = Tail(ready) \o << <<Run(s), 0>>, <<s, 0>> >>
    /\ UNCHANGED <<cut, watchers, switching, runtimeVars, of, by, restored, holds, faults, historyVars>>

Unwound(s) ==
    /\ Turn(s, "unwinds")
    /\ starting' = None
    /\ Returns(s)
    /\ UNCHANGED <<cut, watchers, task, switching, runtimeVars, localVars, faults, historyVars>>

\* Mutated: submit waits for a task that never comes.
TrackedOnly(s) == session[context].tasks # known[s]

\* submit polls until the task is tracked, or is over without that.
Tracked(s) == session[context].tasks # known[s] \/ ~Pending(task)
Poll(s) ==
    /\ Turn(s, "tracks")
    /\ IF Tracked(s) THEN Returns(s) ELSE Goes(s, "tracks", << <<s, 0>> >>)
    /\ UNCHANGED <<cut, watchers, controllerVars, runtimeVars, localVars, faults, historyVars>>

\* c cancels t and waits for its end, turns after it.
CancelAndWait(c, t, turns) ==
    /\ cut' = cut \cup {t}
    /\ watchers' = [watchers EXCEPT ![t] = Append(@, <<c, turns>>)]
    /\ Goes(c, "waits", IF Queued(t) THEN <<>> ELSE << <<t, 0>> >>)

Cancel(c) ==
    /\ Turn(c, "begin") /\ c \in Cancels
    /\ IF Pending(starting) THEN CancelAndWait(c, starting, 1)
       ELSE IF Pending(task) THEN CancelAndWait(c, task, 0)
       ELSE Returns(c) /\ UNCHANGED <<cut, watchers>>
    /\ UNCHANGED <<controllerVars, runtimeVars, localVars, faults, historyVars>>

\* A start and a task are never both pending: a submit begins when neither is.
Shutdown ==
    /\ Exits /\ Turn(shutdown, "begin")
    /\ IF Pending(starting) THEN CancelAndWait(shutdown, starting, 1)
       ELSE IF Pending(task) THEN CancelAndWait(shutdown, task, 1)
       ELSE Returns(shutdown) /\ UNCHANGED <<cut, watchers>>
    /\ UNCHANGED <<controllerVars, runtimeVars, localVars, faults, historyVars>>

\* ui.shutdown_timeout_seconds is over: asyncio.wait takes its callback back.
TimesOut ==
    /\ Exits /\ ~Stopped /\ at[shutdown] = "waits" /\ ~Queued(shutdown)
    /\ ready' = Append(ready, <<shutdown, 0>>)
    /\ \E t \in Launchers : \E k \in 1..Len(watchers[t]) :
          /\ watchers[t][k][1] = shutdown
          /\ watchers' = [watchers EXCEPT ![t] = SubSeq(@, 1, k - 1) \o SubSeq(@, k + 1, Len(@))]
    /\ late' = TRUE
    /\ UNCHANGED <<at, cut, controllerVars, runtimeVars, localVars, faults, hurried>>

Waited(c) ==
    /\ Turn(c, "waits")
    /\ Returns(c)
    /\ UNCHANGED <<cut, watchers, controllerVars, runtimeVars, localVars, faults, historyVars>>

Returned(c) ==
    /\ Turn(c, "returns")
    /\ Goes(c, "ended", <<>>)
    /\ UNCHANGED <<cut, watchers, controllerVars, runtimeVars, localVars, faults, historyVars>>

----------------------------------------------------------------------------
(* Closing the session: reset, resume and the exit.                         *)

Closers == Resets \cup Resumes \cup (Leaving \cap {close})

\* What follows a close in c: all are the sessions with this one closed, a says
\* whether there is an agent.
Closed(c, all, a) ==
    /\ agent' = IF c = close THEN a ELSE None
    /\ IF c \in Resets
       THEN session' = Append(all, Fresh(FALSE, model)) /\ context' = Len(all) + 1
       ELSE session' = all /\ context' = IF c \in Resumes THEN restored'[c] ELSE context
    /\ switching' = (c = close /\ switching)
    /\ Returns(c)

\* The files could not be written: the session is closed but not left, and one
\* that was restored is let go.
NotSaved(c, all, a) ==
    /\ agent' = a
    /\ session' = IF c \in Resumes THEN [all EXCEPT ![restored'[c]].lock = FALSE] ELSE all
    /\ switching' = (c = close /\ switching)
    /\ Returns(c)
    /\ UNCHANGED context

\* The rest of close, behind the end of the MCP pool p: Chrome, the record and the
\* lock, which goes whether or not the files were written.
Release(c, i, p, all, a) ==
    LET closed == [all[i] EXCEPT !.serving = @ \ {p}, !.chrome = FALSE, !.current = None,
                                 !.initialized = FALSE, !.lock = FALSE]
        released == [all EXCEPT ![i] = closed]
    IN  \/ Closed(c, released, a) /\ UNCHANGED faults
        \/ all[i].lock /\ Fails /\ NotSaved(c, released, a)

\* SessionRuntime.close: the agent goes first, then MCP, then the rest.
Close(c, all) ==
    /\ of' = [of EXCEPT ![c] = context]
    /\ IF all[context].mcp = None
       THEN Release(c, context, None, all, None) /\ UNCHANGED holds
       ELSE /\ agent' = None
            /\ session' = [all EXCEPT ![context].mcp = None]
            /\ holds' = [holds EXCEPT ![c] = all[context].mcp]
            /\ Goes(c, "closes", <<>>)
            /\ switching' = (c # close \/ switching)
            /\ UNCHANGED <<context, faults>>

CloseOver(c) ==
    /\ Turn(c, "closes")
    /\ UNCHANGED <<cut, watchers, starting, task, model, of, by, known, restored, historyVars>>
    /\ Release(c, of[c], holds[c], session, agent)
    /\ holds' = [holds EXCEPT ![c] = None]

\* A record left open would refuse it for good.
Reset(r) ==
    /\ Turn(r, "begin") /\ r \in Resets /\ ~Busy
    /\ IF session[context].current = None
       THEN Close(r, session)
       ELSE Returns(r) /\ UNCHANGED <<switching, context, agent, session, of, holds, faults>>
    /\ UNCHANGED <<cut, watchers, starting, task, model, by, known, restored, historyVars>>

Resume(u) ==
    /\ Turn(u, "begin") /\ u \in Resumes /\ ~Busy
    /\ switching' = TRUE
    /\ Goes(u, "picks", <<>>)
    /\ UNCHANGED <<cut, watchers, starting, task, runtimeVars, localVars, faults, historyVars>>

\* The stored session is locked and read before the current one is closed.
Picked(u) ==
    /\ Turn(u, "picks")
    /\ session[context].current = None
    /\ restored' = [restored EXCEPT ![u] = Len(session) + 1]
    /\ Close(u, Append(session, Fresh(TRUE, model)))
    /\ UNCHANGED <<cut, watchers, starting, task, model, by, known, historyVars>>

\* There is no such session, or another process has it open.
ResumeRefused(u) ==
    /\ Turn(u, "picks")
    /\ switching' = FALSE
    /\ Returns(u)
    /\ UNCHANGED <<cut, watchers, starting, task, runtimeVars, localVars, faults, historyVars>>

CloseSession ==
    /\ Exits /\ Turn(close, "begin")
    /\ Close(close, session)
    /\ hurried' = (hurried \/ Busy)
    /\ UNCHANGED <<cut, watchers, starting, task, model, by, known, restored, late>>

\* RuntimeLoop.stop: nothing runs behind it.
Stop ==
    /\ Exits /\ Turn(stop, "begin")
    /\ Goes(stop, "ended", <<>>)
    /\ UNCHANGED <<cut, watchers, controllerVars, runtimeVars, localVars, faults, historyVars>>

----------------------------------------------------------------------------
(* Another model, and an MCP server started anew.                           *)

\* use_model: the new model is built before anything changes.
UseModel(i, m) == [session[i] EXCEPT !.model = m, !.llm = m]

\* set_model: a started session builds the model and the agent at once, another
\* picks the model up when it starts.  A model that cannot be built changes nothing,
\* and files that cannot be written are only logged.
SetModel(c) ==
    /\ Turn(c, "begin") /\ c \in Switches /\ ~Busy
    /\ Returns(c)
    /\ \/ /\ session[context].current = None
          /\ \E m \in Models \ {model} :
                /\ model' = m
                /\ IF session[context].initialized
                   THEN /\ SetSession(context, UseModel(context, m))
                        /\ agent' = m
                   ELSE /\ SetSession(context, [session[context] EXCEPT !.model = m])
                        /\ UNCHANGED agent
       \/ UNCHANGED <<model, session, agent>>
    /\ UNCHANGED <<cut, watchers, controllerVars, context, localVars, faults, historyVars>>

\* reconnect looks whether anything runs, and then waits without saying that it does.
Reconnect(c) ==
    /\ Turn(c, "begin") /\ c \in Reconnects /\ ~Busy
    /\ IF session[context].mcp = None THEN Returns(c) ELSE Goes(c, "reconnects", <<>>)
    /\ UNCHANGED <<cut, watchers, controllerVars, runtimeVars, localVars, faults, historyVars>>

\* The server is up again, has failed, or its pool was closed meanwhile.
Reconnected(c) ==
    /\ Turn(c, "reconnects")
    /\ Returns(c)
    /\ UNCHANGED <<cut, watchers, controllerVars, runtimeVars, localVars, faults, historyVars>>

----------------------------------------------------------------------------
(* The terminal front end.                                                  *)

\* TuiApp._busy: a submit or a resume on its way, or a task whose outcome has
\* not been shown.
UiBusy ==
    \/ \E c \in Submits \cup Resumes : at[c] \notin {"idle", "ended"}
    \/ \E t \in Runs : at[t] \notin {"idle", "remembers"} \cup Over

\* A command arrives from the front end's thread.  Esc, /cancel and /clear do
\* not look at _busy; the exit is three calls, one after another.
Issue(c) ==
    /\ ~Stopped /\ at[c] = "idle"
    /\ c \in Submits \cup Resumes => ~UiBusy
    /\ c \notin Leaving =>
          /\ Exits => at[shutdown] = "idle"
          /\ Cardinality({d \in Commands : at[d] # "idle"}) < MaxCommands
    /\ c = close => at[shutdown] = "ended"
    /\ c = stop => at[close] = "ended"
    /\ at' = [at EXCEPT ![c] = "begin"]
    /\ ready' = Append(ready, <<c, 1>>)
    /\ UNCHANGED <<cut, watchers, controllerVars, runtimeVars, localVars, faults, historyVars>>

Loop ==
    \/ Relay
    \/ \E t \in Launchers :
          \/ BeginLauncher(t) \/ Connected(t) \/ Launched(t) \/ LaunchFails(t) \/ Undone(t)
          \/ CutLaunch(t) \/ GoalOver(t) \/ CutGoal(t) \/ FinishTask(t)
    \/ \E s \in Submits : Submit(s) \/ Shielded(s) \/ Unwound(s) \/ Poll(s)
    \/ \E c \in Commands : Refuse(c) \/ Cancel(c) \/ Waited(c) \/ Returned(c) \/ CloseOver(c)
    \/ \E r \in Resets : Reset(r)
    \/ \E u \in Resumes : Resume(u) \/ Picked(u) \/ ResumeRefused(u)
    \/ \E c \in Switches : SetModel(c)
    \/ \E c \in Reconnects : Reconnect(c) \/ Reconnected(c)
    \/ Shutdown \/ CloseSession \/ Stop

Next ==
    \/ Loop
    \/ \E t \in Launchers \cup Closers \cup Reconnects : IoDone(t)
    \/ TimesOut
    \/ \E c \in Commands : Issue(c)

Spec == Init /\ [][Next]_vars

\* The loop runs, and what is waited for outside of it is bounded: Chrome by
\* cdp_timeout, MCP by its own timeouts, a goal by the runner's limits.
FairSpec == Spec /\ WF_vars(Loop) /\ \A t \in Launchers \cup Closers \cup Reconnects : WF_vars(IoDone(t))

----------------------------------------------------------------------------
SessionRecords ==
    [lock : BOOLEAN, initialized : BOOLEAN, chrome : BOOLEAN, mcp : Launchers \cup {None},
     serving : SUBSET Launchers, current : Runs \cup {None}, tasks : 0..Cardinality(Submits),
     model : Models, llm : Models \cup {None}]

TypeOK ==
    /\ ready \in Seq(Tasks \X {0, 1})
    /\ at \in [Tasks -> {"idle", "begin", "shields", "unwinds", "tracks", "waits", "returns"}
                        \cup Outside \cup Over]
    /\ cut \subseteq Launchers
    /\ watchers \in [Launchers -> Seq(Commands \X {0, 1})]
    /\ starting \in Starts \cup {None}
    /\ task \in Runs \cup {None}
    /\ switching \in BOOLEAN
    /\ session \in Seq(SessionRecords) /\ Len(session) \in Sessions
    /\ context \in 1..Len(session)
    /\ model \in Models
    /\ agent \in Models \cup {None}
    /\ by \in [Runs -> Models \cup {None}]
    /\ of \in [Tasks -> {0} \cup Sessions]
    /\ known \in [Submits -> 0..Cardinality(Submits)]
    /\ restored \in [Resumes -> {0} \cup Sessions]
    /\ holds \in [Tasks -> Launchers \cup {None}]
    /\ faults \in 0..MaxFaults
    /\ late \in BOOLEAN
    /\ hurried \in BOOLEAN

Launching == {t \in Launchers : at[t] \in {"connects", "launches", "undoes", "fails"}}
Working == {t \in Runs : at[t] \in {"goal", "stops", "remembers"}}

InItsSession(t) ==
    /\ of[t] = context
    /\ session[context].lock
    /\ t \in Working =>
          session[context].initialized /\ session[context].current = t /\ by[t] = model

\* One session starts or runs one task at a time, whatever commands come in while a
\* submit is on its way, and no reset and no resume closes it under a start or a task:
\* until the exit it is open, and the current one, for as long as they run; and the
\* task is run throughout by the model that was chosen last.
SwitchesSpareTasks ==
    /\ Cardinality(Launching \cup Working) <= 1
    /\ (Exits => at[close] = "idle") => \A t \in Launching \cup Working : InItsSession(t)

\* A session is locked only while it is the current one, or a resume under way
\* has restored it: no way out leaves a lock nobody releases.
NoOrphanLock ==
    \A i \in 1..Len(session) : session[i].lock =>
        i = context \/ \E u \in Resumes : restored[u] = i /\ at[u] = "closes"

Quiet == \A t \in Tasks : at[t] \in {"idle"} \cup Over

\* When nothing is under way the session can be used again: no flag and no open
\* record is left to refuse the next command, and what counts as initialized has
\* its MCP pool, and an agent of the model chosen last unless a write failed.  No
\* lock is orphaned either.
NeverStuck ==
    /\ NoOrphanLock
    /\ Quiet => /\ ~Busy
                /\ session[context].current = None
                /\ session[context].initialized =>
                      /\ session[context].mcp \in session[context].serving
                      /\ agent = model \/ (agent = None /\ faults > 0)
                /\ session[context].model = model

\* When the program leaves in order nothing stays behind: no Chrome, no MCP
\* pool, no lock, no running task.
ExitIsClean ==
    Stopped /\ ~late /\ ~hurried =>
        /\ Launching \cup Working = {}
        /\ \A i \in 1..Len(session) :
              ~session[i].chrome /\ ~session[i].lock /\ session[i].serving = {}

\* Every command returns: again and again there is none on its way.
CommandsEnd == []<>(Stopped \/ \A c \in Commands : at[c] \in {"idle", "ended"})
=============================================================================
