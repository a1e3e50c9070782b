----------------------------- MODULE SessionFiles -----------------------------
(***************************************************************************)
(* The files of a session (harness/session_store.py and the persist,       *)
(* restore and close of harness/session.py), written by processes that may *)
(* be killed between any two writes, fail to write, and compete for one    *)
(* session: session.json, tasks.json and state.json, each replaced in one  *)
(* step, the lock of the operating system, and the event log that is       *)
(* appended to line by line.                                               *)
(***************************************************************************)
EXTENDS Naturals, Sequences, FiniteSets, Functions

CONSTANTS
    Procs,      \* processes of AutoBrowser, one after the other in a slot
    Sessions,   \* session directories
    Tasks,      \* task ids
    None,       \* no session, no file, nobody
    MaxEvents,  \* bound: events of a session, over all its processes
    MaxFaults   \* bound: kills and failed writes

ASSUME FilesAssumption ==
    /\ None \notin Procs \cup Sessions
    /\ \A S \in SUBSET Tasks : S # None
    /\ {MaxEvents, MaxFaults} \subseteq Nat

VARIABLES
    disk,   \* per session: the three files, and the end of events.jsonl
    lock,   \* per session: who holds .lock
    proc,   \* per process: its SessionContext and what it is doing
    used,   \* the tasks that were ever started
    faults

vars == <<disk, lock, proc, used, faults>>

NoTasks == [t \in {} |-> None]

\* A line of events.jsonl: its number, and whether a reader can parse it.
Line(n, ok) == [number |-> n, ok |-> ok]

\* No directory yet.  "cut": the last line has no newline, because its writer
\* was killed in the middle of it.
NewDirectory ==
    [session |-> FALSE, tasks |-> None, state |-> None, tail |-> <<>>, cut |-> FALSE]

\* A process without a session.
Gone == [at |-> "none", session |-> None, tasks |-> NoTasks, dialogue |-> {}, number |-> 0, left |-> <<>>]

Init ==
    /\ disk = [s \in Sessions |-> NewDirectory]
    /\ lock = [s \in Sessions |-> None]
    /\ proc = [p \in Procs |-> Gone]
    /\ used = {}
    /\ faults = 0

TypeOK ==
    /\ lock \in [Sessions -> Procs \cup {None}]
    /\ \A s \in Sessions :
        /\ disk[s].tasks # None => \A t \in DOMAIN disk[s].tasks :
            disk[s].tasks[t] \in {"running", "completed", "failed"}
        /\ disk[s].state # None => disk[s].state \subseteq Tasks
        /\ Len(disk[s].tail) <= 2
    /\ \A p \in Procs : proc[p].at \in
        {"none", "probing", "probed", "open", "start", "idle", "begin", "run", "finish", "close"}
    /\ faults \in 0..MaxFaults

\* What a process is from now on.
Becomes(p, new) == proc' = [proc EXCEPT ![p] = new]
Goes(p, at) == Becomes(p, [proc[p] EXCEPT !.at = at])

----------------------------------------------------------------------------
(* The event log *)

\* JsonlEventSink.emit: after a line without newline both are one damaged line.
Appended(d, n) ==
    [d EXCEPT
        !.tail = IF d.cut THEN [@ EXCEPT ![Len(@)].ok = FALSE]
                 ELSE Append(IF Len(@) = 2 THEN Tail(@) ELSE @, Line(n, TRUE)),
        !.cut = FALSE]

\* last_event_sequence: the last line that can be read, of the last two.
LastSequence(d) ==
    LET readable == {i \in DOMAIN d.tail : d.tail[i].ok}
    IN  IF readable = {} THEN 0
        ELSE d.tail[CHOOSE i \in readable : \A j \in readable : j <= i].number

\* The writer is killed in the middle of a line: half of it, or all but the newline.
TornLine(d, n, ok) ==
    [Appended(d, n) EXCEPT
        !.tail[Len(Appended(d, n).tail)].ok = ok /\ ~d.cut,
        !.cut = TRUE]

Room(p) == proc[p].number < MaxEvents

----------------------------------------------------------------------------
(* Opening a session *)

\* SessionContext.initialize of a new session: a directory and a lock of its own.
Open(p, s) ==
    /\ proc[p].at = "none"
    /\ disk[s] = NewDirectory
    /\ \A q \in Procs : proc[q].session # s
    /\ lock' = [lock EXCEPT ![s] = p]
    /\ Becomes(p, [proc[p] EXCEPT !.at = "open", !.session = s])
    /\ UNCHANGED <<disk, used, faults>>

\* StoredSession.resumable
Resumable(s) == disk[s].session /\ disk[s].tasks \notin {None, NoTasks} /\ disk[s].state # None

\* _check_usable: session_in_use takes the lock ...
Probe(p, s) ==
    /\ proc[p].at = "none"
    /\ Resumable(s)
    /\ lock[s] = None          \* otherwise the process says so and ends
    /\ lock' = [lock EXCEPT ![s] = p]
    /\ Becomes(p, [proc[p] EXCEPT !.at = "probing", !.session = s])
    /\ UNCHANGED <<disk, used, faults>>

\* ... and gives it back before the session is opened.
ProbeEnds(p) ==
    /\ proc[p].at = "probing"
    /\ lock' = [lock EXCEPT ![proc[p].session] = None]
    /\ Goes(p, "probed")
    /\ UNCHANGED <<disk, used, faults>>

\* _restored_task: what was left running has failed.
Restored(tasks) == [t \in DOMAIN tasks |-> IF tasks[t] = "running" THEN "failed" ELSE tasks[t]]

\* The context of the files that were read.
Resumed(context, d) ==
    [context EXCEPT !.at = "open", !.tasks = Restored(d.tasks), !.dialogue = d.state,
                    !.number = LastSequence(d)]

\* Mutated: the files are read without the lock.
RestoreUnlocked(p) ==
    /\ proc[p].at = "probed"
    /\ Becomes(p, Resumed(proc[p], disk[proc[p].session]))
    /\ UNCHANGED <<disk, lock, used, faults>>

\* SessionContext.restore: lock first, then read.
Restore(p) ==
    LET s == proc[p].session
    IN  /\ proc[p].at = "probed"
        /\ IF lock[s] # None
           THEN /\ Becomes(p, Gone)               \* SessionInUseError
                /\ UNCHANGED lock
           ELSE /\ lock' = [lock EXCEPT ![s] = p]
                /\ Becomes(p, Resumed(proc[p], disk[s]))
        /\ UNCHANGED <<disk, used, faults>>

----------------------------------------------------------------------------
(* Saving *)

\* Mutated: the dialogue is written before the tasks.
FilesStateFirst == <<"session", "state", "tasks">>

Files == <<"session", "tasks", "state">>

\* SessionContext.persist of a context, up to its first write.
Persist(p, at, context) == Becomes(p, [context EXCEPT !.at = at, !.left = Files])

Saving(p) == proc[p].at \in {"start", "begin", "finish", "close"} /\ proc[p].left # <<>>

\* One file, written beside and moved into place.
WriteFile(p) ==
    LET s == proc[p].session
    IN  /\ Saving(p)
        /\ disk' = CASE Head(proc[p].left) = "session" -> [disk EXCEPT ![s].session = TRUE]
                     [] Head(proc[p].left) = "tasks" -> [disk EXCEPT ![s].tasks = proc[p].tasks]
                     [] Head(proc[p].left) = "state" -> [disk EXCEPT ![s].state = proc[p].dialogue]
        /\ Becomes(p, [proc[p] EXCEPT !.left = Tail(@)])
        /\ UNCHANGED <<lock, used, faults>>

\* The task that runs in a context.
Running(tasks) == {t \in DOMAIN tasks : tasks[t] = "running"}

\* The tasks with one more, which runs.
With(tasks, t) == [u \in DOMAIN tasks \cup {t} |-> IF u = t THEN "running" ELSE tasks[u]]

\* The session lets go of its lock.
Released(p) ==
    /\ lock' = [lock EXCEPT ![proc[p].session] = None]
    /\ Becomes(p, Gone)

\* An OSError: reset_task takes the record back, _persist_closed_task logs it,
\* close releases the lock all the same.  (A start that fails is
\* SessionController's.)
WriteFails(p) ==
    /\ Saving(p)
    /\ proc[p].at # "start"
    /\ faults < MaxFaults
    /\ faults' = faults + 1
    /\ \/ /\ proc[p].at = "begin"
          /\ Becomes(p, [proc[p] EXCEPT !.at = "idle", !.left = <<>>,
                                        !.tasks = Restrict(@, DOMAIN @ \ Running(@))])
          /\ UNCHANGED lock
       \/ /\ proc[p].at = "finish"
          /\ Becomes(p, [proc[p] EXCEPT !.at = "idle", !.left = <<>>])
          /\ UNCHANGED lock
       \/ /\ proc[p].at = "close"
          /\ Released(p)
    /\ UNCHANGED <<disk, used>>

\* All files are written: the operation goes on.
Saved(p) ==
    /\ proc[p].at \in {"start", "begin", "finish", "close"}
    /\ proc[p].left = <<>>
    /\ \/ /\ proc[p].at \in {"start", "finish"}
          /\ Goes(p, "idle")
          /\ UNCHANGED lock
       \/ /\ proc[p].at = "begin"
          /\ Goes(p, "run")
          /\ UNCHANGED lock
       \/ /\ proc[p].at = "close"
          /\ Released(p)
    /\ UNCHANGED <<disk, used, faults>>

----------------------------------------------------------------------------
(* The life of a session *)

\* EventEmitter.emit into events.jsonl.
Emit(p) ==
    /\ proc[p].at \in {"idle", "run"}
    /\ Room(p)
    /\ Becomes(p, [proc[p] EXCEPT !.number = @ + 1])
    /\ disk' = [disk EXCEPT ![proc[p].session] = Appended(@, proc[p].number + 1)]
    /\ UNCHANGED <<lock, used, faults>>

\* The end of initialize.
Start(p) ==
    /\ proc[p].at = "open"
    /\ Persist(p, "start", proc[p])
    /\ UNCHANGED <<disk, lock, used, faults>>

\* reset_task
Begin(p, t) ==
    /\ proc[p].at = "idle"
    /\ t \notin used
    /\ used' = used \cup {t}
    /\ Persist(p, "begin", [proc[p] EXCEPT !.tasks = With(@, t)])
    /\ UNCHANGED <<disk, lock, faults>>

\* finish_task: the goal ended (with whatever status: "completed" here) and the
\* dialogue goes on with what the task said; fail_task and cancel_task leave it.
Finish(p, t, status) ==
    /\ proc[p].at = "run"
    /\ t \in Running(proc[p].tasks)
    /\ Persist(p, "finish",
        [proc[p] EXCEPT !.tasks = [@ EXCEPT ![t] = status],
                        !.dialogue = IF status = "completed" THEN @ \cup {t} ELSE @])
    /\ UNCHANGED <<disk, lock, used, faults>>

\* SessionContext.close
Close(p) ==
    /\ proc[p].at \in {"open", "idle"}
    /\ IF proc[p].at = "idle" /\ Room(p)
       THEN /\ disk' = [disk EXCEPT ![proc[p].session] = Appended(@, proc[p].number + 1)]
            /\ Persist(p, "close", [proc[p] EXCEPT !.number = @ + 1])
       ELSE /\ Persist(p, "close", proc[p])
            /\ UNCHANGED disk
    /\ UNCHANGED <<lock, used, faults>>

\* The process is killed; the operating system drops its lock.
Killed(p) ==
    /\ proc[p].at # "none"
    /\ faults < MaxFaults
    /\ faults' = faults + 1
    /\ lock' = [s \in Sessions |-> IF lock[s] = p THEN None ELSE lock[s]]
    /\ Becomes(p, Gone)
    /\ \/ UNCHANGED disk
       \/ /\ proc[p].at \in {"idle", "run"}
          /\ Room(p)
          /\ \E ok \in BOOLEAN :
                disk' = [disk EXCEPT ![proc[p].session] = TornLine(@, proc[p].number + 1, ok)]
    /\ UNCHANGED used

Next ==
    \E p \in Procs :
        \/ \E s \in Sessions : Open(p, s) \/ Probe(p, s)
        \/ ProbeEnds(p) \/ Restore(p)
        \/ Start(p) \/ Emit(p) \/ Close(p)
        \/ \E t \in Tasks : Begin(p, t) \/ \E status \in {"completed", "failed"} : Finish(p, t, status)
        \/ WriteFile(p) \/ WriteFails(p) \/ Saved(p)
        \/ Killed(p)

Spec == Init /\ [][Next]_vars

----------------------------------------------------------------------------
\* What the dialogue of a stored session tells of is recorded as completed:
\* whatever moment a process was killed at, a resumed session continues from
\* tasks it has.
DialogueIsRecorded ==
    \A s \in Sessions : disk[s].state \notin {None, {}} =>
        \A t \in disk[s].state : t \in DOMAIN disk[s].tasks /\ disk[s].tasks[t] = "completed"

\* An outcome that was written once stays: no process writes back an older copy.
OutcomesStay ==
    [][\A s \in Sessions : disk[s].tasks # None => \A t \in DOMAIN disk[s].tasks :
        disk[s].tasks[t] # "running" =>
            t \in DOMAIN disk'[s].tasks /\ disk'[s].tasks[t] = disk[s].tasks[t]]_vars
=============================================================================
