--------------------------- MODULE McpConnection ---------------------------
(***************************************************************************)
(* One persistent MCP server of the pool (src/src/mcp/manager.py): the     *)
(* requests routed to it, the owner task of each connection incarnation,   *)
(* the reconnect supervisor and the calls that start, restart, remove and  *)
(* shut it down.                                                           *)
(*                                                                         *)
(* Everything runs on one asyncio loop: an action is what one task does    *)
(* between two awaits.  The lifecycle lock is an asyncio.Lock, first come  *)
(* first served: its queue is a sequence whose head holds it, and a task   *)
(* that finds it free goes on without a pause.  The catalog is in          *)
(* ToolCatalog; ephemeral servers are left out.                            *)
(***************************************************************************)
EXTENDS Naturals, Sequences, FiniteSets

CONSTANTS
    Callers,        \* the requests
    Idempotent,     \* those that are not tools/call
    MaxRequests,    \* bound: requests in one behaviour
    Reconnect,      \* config.reconnect.enabled
    MaxAttempts,    \* config.reconnect.max_attempts
    StartAttempts,  \* config.reconnect.startup_attempts
    Closers,        \* the closing calls made: "reconnect", "remove", "shutdown"
    Supervisors,    \* bound: reconnect tasks at a time
    MaxClosings,    \* bound: closing calls in one behaviour
    MaxFaults,      \* bound: how often the server fails to start or goes away
    Incarnations    \* bound: owner tasks

ASSUME CallersAssumption ==
    /\ Idempotent \subseteq Callers
    /\ Closers \subseteq {"reconnect", "remove", "shutdown"}
    /\ (Callers \cup Supervisors) \cap {"start", "reconnect", "remove", "shutdown"} = {}
    /\ Callers \cap Supervisors = {}
    /\ Supervisors # {}

ASSUME PolicyAssumption ==
    /\ Reconnect \in BOOLEAN
    /\ MaxAttempts \in Nat \ {0}
    /\ StartAttempts \in Nat \ {0}
    /\ ~Reconnect => StartAttempts = 1
    /\ MaxRequests \in Nat
    /\ MaxClosings \in Nat
    /\ MaxFaults \in Nat
    /\ Incarnations \in Nat \ {0}

VARIABLES
    m,          \* the ManagedServer and the owner tasks it ever had
    closed,     \* MCPManager._closed
    registered, \* the server is in MCPManager._servers
    lock,       \* m.lifecycle_lock: who holds it and who waits for it
    pc,         \* where each caller, the start and each closing call is
    tries,      \* connection attempts of the start
    pin,        \* expected_generation of a call; 0 for none
    sends,      \* history: how often a request was sent
    on,         \* the incarnation it was sent to
    aborted,    \* the requests whose task was cancelled
    result,     \* what the caller was told
    supervisor, \* where each reconnect task is, the owner it waits for, its attempts
    liveness,   \* the incarnation the liveness check pings; 0 for none
    drain,      \* the requests a closing call waits for
    faults

requestVars == <<pin, sends, on, aborted, result>>
taskVars == <<supervisor, liveness, drain>>
vars == <<m, closed, registered, lock, pc, tries, pin, sends, on, aborted, result, supervisor,
          liveness, drain, faults>>

Starters == Callers \cup {"start", "reconnect"}
Procs == Callers \cup {"start"} \cup Closers
States == {"DISCONNECTED", "CONNECTING", "READY", "RECONNECTING", "FAILED"}

\* An owner task: how far it is, the future its starter awaits, and whether it
\* was woken or cancelled; gone says that the server stopped serving it.
Owner(phase) ==
    [phase |-> phase, ready |-> "pending", wake |-> FALSE, cancel |-> FALSE, gone |-> FALSE,
     generation |-> 0]

\* A reconnect task; old is the owner it found.
Supervisor(phase, old) == [phase |-> phase, old |-> old, tries |-> 0]

Init ==
    /\ m = [state |-> "DISCONNECTED", closing |-> FALSE, stop |-> FALSE, session |-> 0,
            current |-> 0, generation |-> 0,
            task |-> CHOOSE i \in Supervisors : TRUE, owner |-> [n \in 1..Incarnations |-> Owner("none")]]
    /\ closed = FALSE
    /\ registered = TRUE
    /\ lock = <<>>
    /\ pc = [p \in Procs |-> "idle"]
    /\ tries = 0
    /\ pin \in [Callers -> {0, 1}]
    /\ sends = [c \in Callers |-> 0]
    /\ on = [c \in Callers |-> 0]
    /\ aborted = {}
    /\ result = [c \in Callers |-> "none"]
    /\ supervisor = [i \in Supervisors |-> Supervisor("none", 0)]
    /\ liveness = 0
    /\ drain = {}
    /\ faults = 0

\* The head of the queue holds the lock; a waiter that is cancelled leaves it.
Holds(p) == lock # <<>> /\ Head(lock) = p
Without(queue, p) ==
    IF \E i \in DOMAIN queue : queue[i] = p
    THEN LET at == CHOOSE i \in DOMAIN queue : queue[i] = p
         IN  [i \in 1..(Len(queue) - 1) |-> IF i < at THEN queue[i] ELSE queue[i + 1]]
    ELSE queue

Inflight == {c \in Callers : pc[c] = "sent"}
Supervised == supervisor[m.task].phase # "none"
Phase(s) == IF s.current = 0 THEN "done" ELSE s.owner[s.current].phase

----------------------------------------------------------------------------
(* What the manager does to the server; s is the server as the step has     *)
(* left it so far.                                                          *)

\* The task of the next reconnection.  One that runs already is not stopped: it
\* is only forgotten.
Fresh ==
    IF ~Supervised \/ \A i \in Supervisors : supervisor[i].phase # "none" THEN m.task
    ELSE CHOOSE i \in Supervisors : supervisor[i].phase = "none"

\* _mark_transport_lost: what was READY reconnects, or fails for good.
Losable(s) == s.state = "READY" /\ ~s.closing
Lose(s) ==
    IF Losable(s)
    THEN [s EXCEPT !.state = IF Reconnect /\ ~closed THEN "RECONNECTING" ELSE "FAILED",
                   !.task = IF Reconnect /\ ~closed THEN Fresh ELSE @,
                   !.owner[s.current].wake = TRUE]
    ELSE s
Supervise(s) ==
    IF Losable(s) /\ Reconnect /\ ~closed
    THEN /\ supervisor[Fresh].phase = "none"
         /\ supervisor' = [supervisor EXCEPT ![Fresh] = Supervisor("waits", s.current)]
    ELSE UNCHANGED supervisor

\* _start_owner up to its await: a new incarnation.
Open(s) ==
    [s EXCEPT !.stop = FALSE, !.current = s.current + 1,
              !.owner[s.current + 1] = Owner("opening")]

\* The rest of _start_owner when the owner is ready.
Adopt(s) ==
    [s EXCEPT !.state = "READY", !.session = s.current, !.generation = s.generation + 1,
              !.owner[s.current].ready = "taken",
              !.owner[s.current].generation = s.generation + 1]

\* _connect's except clause.
GiveUp(s) ==
    [s EXCEPT !.state = IF @ # "CONNECTING" THEN @
                        ELSE IF s.closing THEN "DISCONNECTED" ELSE "FAILED",
              !.owner[s.current].ready = "taken"]

----------------------------------------------------------------------------
(* Requests. *)

Attempts(c) == IF c \in Idempotent THEN 2 ELSE 1

End(c, told) ==
    /\ pc' = [pc EXCEPT ![c] = "ended"]
    /\ result' = [result EXCEPT ![c] = told]
    /\ UNCHANGED <<sends, on>>

\* Mutated: the generation is the one from before the server was made ready.
PinKeptEarly(c, s) == pin[c] \in {0, m.generation}
PinKept(c, s) == pin[c] \in {0, s.generation}

\* _request after _ensure_ready, up to the await of its answer.
Proceed(c, s) ==
    CASE s.state # "READY" -> End(c, "unavailable")
      [] s.state = "READY" /\ ~PinKept(c, s) -> End(c, "state_lost")
      [] s.state = "READY" /\ PinKept(c, s) /\ s.session = 0 -> End(c, "unavailable")
      [] OTHER ->
            /\ pc' = [pc EXCEPT ![c] = "sent"]
            /\ sends' = [sends EXCEPT ![c] = @ + 1]
            /\ on' = [on EXCEPT ![c] = s.session]
            /\ UNCHANGED result

\* How _connect's caller goes on.
Continue(p, s, how) ==
    IF p \in Callers
    THEN Proceed(p, s)
    ELSE /\ pc' = [pc EXCEPT ![p] =
                     IF p = "start" /\ how = "unavailable" /\ tries < StartAttempts /\ ~closed
                     THEN "backoff" ELSE "ended"]
         /\ UNCHANGED <<sends, on, result>>

\* Mutated: who waited for the lock finds the manager open.
ClosedBefore(queue) == closed /\ Len(queue) = 1 /\ lock = <<>>
Closed(queue) == closed

\* _connect as the holder of the lock, up to its await.
Connect(p, s, queue) ==
    \/ /\ s.state \in {"READY", "RECONNECTING"}
       /\ m' = s
       /\ lock' = Tail(queue)
       /\ Continue(p, s, "ok")
    \/ /\ s.state \notin {"READY", "RECONNECTING"}
       /\ Closed(queue)
       /\ m' = s
       /\ lock' = Tail(queue)
       /\ Continue(p, s, "closed")
    \/ /\ s.state \notin {"READY", "RECONNECTING"}
       /\ ~Closed(queue)
       /\ s.current < Incarnations
       /\ m' = Open([s EXCEPT !.state = "CONNECTING", !.closing = FALSE])
       /\ lock' = queue
       /\ pc' = [pc EXCEPT ![p] = "starting"]
       /\ UNCHANGED <<sends, on, result>>

\* async with lifecycle_lock
Seek(p, s) ==
    IF lock = <<>>
    THEN Connect(p, s, <<p>>)
    ELSE /\ lock' = Append(lock, p)
         /\ m' = s
         /\ pc' = [pc EXCEPT ![p] = "queued"]
         /\ UNCHANGED <<sends, on, result>>

\* One round of _request, up to its first await.
Request(c, s) ==
    LET refused == closed \/ (s.closing /\ s.state = "DISCONNECTED") IN
    \/ refused /\ m' = s /\ UNCHANGED lock /\ End(c, "closed")
    \/ ~refused /\ s.state = "READY" /\ m' = s /\ UNCHANGED lock /\ Proceed(c, s)
    \/ /\ ~refused /\ s.state = "RECONNECTING"
       /\ m' = s /\ UNCHANGED lock
       /\ IF supervisor'[s.task].phase = "none"
          THEN End(c, "unavailable")
          ELSE pc' = [pc EXCEPT ![c] = "waits"] /\ UNCHANGED <<sends, on, result>>
    \/ ~refused /\ s.state \notin {"READY", "RECONNECTING"} /\ Seek(c, s)

\* A tool is found in the catalog of an earlier connection; a ping, or a read of
\* a resource of the named server, needs none.
Call(c) ==
    /\ pc[c] = "idle"
    /\ Cardinality({d \in Callers : pc[d] # "idle"}) < MaxRequests
    /\ registered
    /\ pin[c] <= m.generation
    /\ c \notin Idempotent => m.generation > 0
    /\ UNCHANGED supervisor
    /\ Request(c, m)
    /\ UNCHANGED <<closed, registered, tries, pin, aborted, liveness, drain, faults>>

\* The supervisor is done, or the caller has waited long enough.
WaitOver(c) ==
    /\ pc[c] = "waits"
    /\ Proceed(c, m)
    /\ UNCHANGED <<m, closed, registered, lock, tries, pin, aborted, taskVars, faults>>

Serves(n) == m.owner[n].phase = "up" /\ ~m.owner[n].gone

Answered(c) ==
    /\ pc[c] = "sent" /\ c \notin aborted
    /\ Serves(on[c])
    /\ End(c, "ok")
    /\ UNCHANGED <<m, closed, registered, lock, tries, pin, aborted, taskVars, faults>>

\* The answer is late: the connection is pinged, unless that is under way.
TimedOut(c) ==
    /\ pc[c] = "sent" /\ c \notin aborted
    /\ End(c, "timeout")
    /\ liveness' = IF liveness = 0 /\ m.state = "READY" THEN m.session ELSE liveness
    /\ UNCHANGED <<m, closed, registered, lock, tries, pin, aborted, supervisor, drain, faults>>

\* The connection broke while the request was pending.
ConnectionLost(c) ==
    /\ pc[c] = "sent" /\ c \notin aborted
    /\ m.owner[on[c]].wake \/ m.owner[on[c]].cancel \/ m.owner[on[c]].phase # "up"
    /\ Supervise(m)
    /\ IF sends[c] < Attempts(c)
       THEN Request(c, Lose(m))
       ELSE m' = Lose(m) /\ UNCHANGED lock /\ End(c, "lost")
    /\ UNCHANGED <<closed, registered, tries, pin, aborted, liveness, drain, faults>>

\* The task of the request was cancelled: by its owner's exit, or by _stop_owner.
RequestAborted(c) ==
    /\ pc[c] = "sent" /\ c \in aborted
    /\ End(c, IF ~m.closing /\ ~closed THEN "lost" ELSE "closed")
    /\ UNCHANGED <<m, closed, registered, lock, tries, pin, aborted, taskVars, faults>>

\* The caller is cancelled.  One that starts a connection takes the half-started
\* owner down with it.
CallerCancelled(c) ==
    /\ \/ /\ pc[c] \in {"waits", "sent"}
          /\ End(c, "cancelled")
          /\ UNCHANGED <<m, lock>>
       \/ /\ pc[c] = "queued"
          /\ lock' = Without(lock, c)
          /\ End(c, "cancelled")
          /\ UNCHANGED m
       \/ /\ pc[c] = "starting"
          /\ m' = [m EXCEPT !.stop = TRUE, !.owner[m.current].cancel = TRUE,
                            !.owner[m.current].ready = "taken"]
          /\ pc' = [pc EXCEPT ![c] = "aborting"]
          /\ UNCHANGED <<lock, sends, on, result>>
    /\ UNCHANGED <<closed, registered, tries, pin, aborted, taskVars, faults>>

StartAborted(c) ==
    /\ pc[c] = "aborting"
    /\ Phase(m) = "done"
    /\ m' = GiveUp(m)
    /\ lock' = Tail(lock)
    /\ End(c, "cancelled")
    /\ UNCHANGED <<closed, registered, tries, pin, aborted, taskVars, faults>>

----------------------------------------------------------------------------
(* Starting. *)

\* MCPManager.start or add_server, and what it retries.
Start ==
    /\ \/ pc["start"] = "idle" /\ registered /\ ~closed
       \/ pc["start"] = "backoff"
    /\ tries' = tries + 1
    /\ Seek("start", m)
    /\ UNCHANGED <<closed, registered, pin, aborted, taskVars, faults>>

\* The lock comes to who waited for it to connect.
Granted(p) ==
    /\ pc[p] = "queued"
    /\ Holds(p)
    /\ Connect(p, m, lock)
    /\ UNCHANGED <<closed, registered, tries, pin, aborted, taskVars, faults>>

\* Mutated: a start that failed keeps the lock.
HandedIfReady == IF m.owner[m.current].ready = "set" THEN Tail(lock) ELSE lock
Handed == Tail(lock)

\* _start_owner's await returns or raises.
Started(p) ==
    /\ pc[p] = "starting"
    /\ LET ready == m.owner[m.current].ready
           s == IF ready = "set" THEN Adopt(m) ELSE GiveUp(m)
       IN /\ ready \in {"set", "failed", "cancelled"}
          /\ m' = s
          /\ Continue(p, s, CASE ready = "set" -> "ok"
                              [] ready = "failed" -> "unavailable"
                              [] OTHER -> "closed")
    /\ lock' = Handed
    /\ UNCHANGED <<closed, registered, tries, pin, aborted, taskVars, faults>>

----------------------------------------------------------------------------
(* The owner task of incarnation n. *)

\* initialize and discover succeed.  Answers of the transport come after all
\* that is ready to run: nobody is still to hear that its connection is gone.
OwnerUp(n) ==
    /\ m.owner[n].phase = "opening" /\ ~m.owner[n].cancel
    /\ \A c \in Inflight : c \notin aborted /\ m.owner[on[c]].phase # "done"
    /\ m' = [m EXCEPT !.owner[n].phase = "up", !.owner[n].ready = "set"]
    /\ UNCHANGED <<closed, registered, lock, pc, tries, requestVars, taskVars, faults>>

Unexpected(n) == n = m.current /\ ~m.stop /\ ~m.closing

\* The owner has left its contexts; then _on_owner_exit.
Exit(n, ready) ==
    LET s == [m EXCEPT !.owner[n].phase = "done", !.owner[n].ready = ready,
                       !.session = IF @ = n THEN 0 ELSE @]
    IN IF Unexpected(n)
       THEN /\ m' = Lose(s)
            /\ Supervise(s)
            /\ aborted' = aborted \cup Inflight
       ELSE /\ m' = s
            /\ UNCHANGED <<supervisor, aborted>>

OwnerFails(n) ==
    /\ m.owner[n].phase = "opening" /\ ~m.owner[n].cancel
    /\ faults < MaxFaults
    /\ faults' = faults + 1
    /\ Exit(n, "failed")
    /\ UNCHANGED <<closed, registered, lock, pc, tries, pin, sends, on, result, liveness, drain>>

\* Who awaits the owner's start runs before the owner can be through.
OwnerEnds(n) ==
    /\ m.owner[n].phase \in {"opening", "up", "abandoned"}
    /\ m.owner[n].cancel \/ (m.owner[n].phase = "up" /\ m.owner[n].wake)
    /\ m.owner[n].ready # "set"
    /\ Exit(n, IF m.owner[n].ready = "pending" THEN "cancelled" ELSE m.owner[n].ready)
    /\ UNCHANGED <<closed, registered, lock, pc, tries, pin, sends, on, result, liveness, drain, faults>>

\* The owner ends on its own, with an error.
OwnerCrashes(n) ==
    /\ m.owner[n].phase = "up" /\ m.owner[n].ready = "taken"
    /\ ~m.owner[n].wake /\ ~m.owner[n].cancel
    /\ faults < MaxFaults
    /\ faults' = faults + 1
    /\ Exit(n, "taken")
    /\ UNCHANGED <<closed, registered, lock, pc, tries, pin, sends, on, result, liveness, drain>>

\* The server goes away: _pump wakes the owner.
Eof(n) ==
    /\ m.owner[n].phase = "up" /\ ~m.owner[n].gone
    /\ faults < MaxFaults
    /\ faults' = faults + 1
    /\ m' = [m EXCEPT !.owner[n].wake = TRUE, !.owner[n].gone = TRUE]
    /\ UNCHANGED <<closed, registered, lock, pc, tries, requestVars, taskVars>>

\* The server hangs: only a ping tells.
Hang(n) ==
    /\ m.owner[n].phase = "up" /\ ~m.owner[n].gone
    /\ faults < MaxFaults
    /\ faults' = faults + 1
    /\ m' = [m EXCEPT !.owner[n].gone = TRUE]
    /\ UNCHANGED <<closed, registered, lock, pc, tries, requestVars, taskVars>>

----------------------------------------------------------------------------
(* The reconnect supervisor and the liveness check. *)

OldIsGone(i) == m.owner[supervisor[i].old].phase = "done"

Reach(i, phase) == supervisor' = [supervisor EXCEPT ![i].phase = phase]

OldEnded(i) ==
    /\ supervisor[i].phase = "waits"
    /\ OldIsGone(i)
    /\ Reach(i, "sleeps")
    /\ UNCHANGED <<m, closed, registered, lock, pc, tries, requestVars, liveness, drain, faults>>

\* The old owner takes too long.
OldCancelled(i) ==
    /\ supervisor[i].phase = "waits"
    /\ LET old == m.owner[supervisor[i].old] IN old.phase # "done" /\ ~old.cancel
    /\ m' = [m EXCEPT !.owner[supervisor[i].old].cancel = TRUE]
    /\ UNCHANGED <<closed, registered, lock, pc, tries, requestVars, taskVars, faults>>

\* One attempt, with the lock.
Attempt(i, queue, phase) ==
    LET count == [supervisor EXCEPT ![i].tries = IF phase = "sleeps" THEN @ + 1 ELSE @] IN
    IF m.closing \/ closed \/ m.state # "RECONNECTING"
    THEN /\ supervisor' = [count EXCEPT ![i] = Supervisor("none", 0)]
         /\ lock' = Tail(queue)
         /\ UNCHANGED m
    ELSE /\ m.current < Incarnations
         /\ supervisor' = [count EXCEPT ![i].phase = "starting"]
         /\ lock' = queue
         /\ m' = Open(m)

BackoffOver(i) ==
    /\ supervisor[i].phase = "sleeps"
    /\ IF lock = <<>>
       THEN Attempt(i, <<i>>, "sleeps")
       ELSE /\ supervisor' = [supervisor EXCEPT ![i].phase = "queued", ![i].tries = @ + 1]
            /\ lock' = Append(lock, i)
            /\ UNCHANGED m
    /\ UNCHANGED <<closed, registered, pc, tries, requestVars, liveness, drain, faults>>

AttemptGranted(i) ==
    /\ supervisor[i].phase = "queued"
    /\ Holds(i)
    /\ Attempt(i, lock, "queued")
    /\ UNCHANGED <<closed, registered, pc, tries, requestVars, liveness, drain, faults>>

Exhausted(s) == [s EXCEPT !.state = IF @ = "RECONNECTING" THEN "FAILED" ELSE @]

Last(i) == supervisor[i].tries = MaxAttempts

Attempted(i) ==
    LET ready == m.owner[m.current].ready
    IN /\ supervisor[i].phase = "starting"
       /\ ready \in {"set", "failed", "cancelled"}
       /\ lock' = Tail(lock)
       /\ m' = IF ready = "set" THEN Adopt(m) ELSE IF Last(i) THEN Exhausted(GiveUp(m)) ELSE GiveUp(m)
       /\ IF ready = "set" \/ Last(i)
          THEN supervisor' = [supervisor EXCEPT ![i] = Supervisor("none", 0)]
          ELSE Reach(i, "sleeps")
       /\ UNCHANGED <<closed, registered, pc, tries, requestVars, liveness, drain, faults>>

\* The supervisor was cancelled while it started a connection.
AttemptAborted(i) ==
    /\ supervisor[i].phase = "aborting"
    /\ Phase(m) = "done"
    /\ supervisor' = [supervisor EXCEPT ![i] = Supervisor("none", 0)]
    /\ lock' = Tail(lock)
    /\ UNCHANGED <<m, closed, registered, pc, tries, requestVars, liveness, drain, faults>>

PingAnswered ==
    /\ liveness # 0
    /\ Serves(liveness)
    /\ liveness' = 0
    /\ UNCHANGED <<m, closed, registered, lock, pc, tries, requestVars, supervisor, drain, faults>>

\* The ping fails; only the session it was sent on is given up.
PingFails ==
    /\ liveness # 0
    /\ ~Serves(liveness)
    /\ liveness' = 0
    /\ IF m.session = liveness
       THEN m' = Lose(m) /\ Supervise(m)
       ELSE UNCHANGED <<m, supervisor>>
    /\ UNCHANGED <<closed, registered, lock, pc, tries, requestVars, drain, faults>>

----------------------------------------------------------------------------
(* Closing. *)

CutShort(s) ==
    IF s.state \in {"CONNECTING", "RECONNECTING"} /\ Phase(s) # "done" /\ s.current # 0
    THEN [s EXCEPT !.owner[s.current].cancel = TRUE]
    ELSE s

\* The end of _close, and what its caller does next.
Finish(p, s, queue) ==
    LET closedServer == [s EXCEPT !.session = 0, !.state = "DISCONNECTED"] IN
    IF p = "reconnect" /\ ~closed
    THEN \* the lock is free for who waits, or for the reconnection itself
         /\ UNCHANGED registered
         /\ IF Tail(queue) = <<>>
            THEN Connect(p, closedServer, <<p>>)
            ELSE /\ m' = closedServer
                 /\ lock' = Append(Tail(queue), p)
                 /\ pc' = [pc EXCEPT ![p] = "queued"]
                 /\ UNCHANGED <<sends, on, result>>
    ELSE /\ m' = closedServer
         /\ lock' = Tail(queue)
         /\ pc' = [pc EXCEPT ![p] = "ended"]
         /\ registered' = (registered /\ p # "remove")
         /\ UNCHANGED <<sends, on, result>>

\* _stop_owner up to its first await, by the holder of the lock.
StopOwner(p, s, queue) ==
    IF Phase(s) = "done"
    THEN Finish(p, s, queue) /\ UNCHANGED drain
    ELSE /\ lock' = queue
         /\ drain' = Inflight
         /\ IF Inflight # {}
            THEN m' = s /\ pc' = [pc EXCEPT ![p] = "drains"]
            ELSE /\ m' = [s EXCEPT !.stop = TRUE, !.owner[s.current].wake = TRUE]
                 /\ pc' = [pc EXCEPT ![p] = "stops"]
         /\ UNCHANGED <<registered, sends, on, result>>

LockToClose(p, s, queue) ==
    IF queue = <<>>
    THEN StopOwner(p, s, <<p>>)
    ELSE /\ lock' = Append(queue, p)
         /\ m' = s
         /\ pc' = [pc EXCEPT ![p] = "locks"]
         /\ UNCHANGED <<registered, sends, on, result, drain>>

\* reconnect, remove_server, shutdown: _close up to its first await.  The
\* supervisor is cancelled wherever it is; only one that starts a connection
\* takes a while to give the lock back.
Close(p) ==
    LET starting == supervisor[m.task].phase = "starting"
        cut == IF starting
               THEN [m EXCEPT !.closing = TRUE, !.stop = TRUE, !.owner[m.current].cancel = TRUE,
                              !.owner[m.current].ready = "taken"]
               ELSE [m EXCEPT !.closing = TRUE]
        queue == IF starting THEN lock ELSE Without(lock, m.task)
    IN /\ pc[p] = "idle"
       /\ Cardinality({q \in Closers : pc[q] # "idle"}) < MaxClosings
       /\ registered
       /\ closed' = (closed \/ p = "shutdown")
       /\ IF starting
          THEN Reach(m.task, "aborting")
          ELSE supervisor' = [supervisor EXCEPT ![m.task] = Supervisor("none", 0)]
       /\ liveness' = 0
       /\ IF Supervised \/ liveness # 0
          THEN /\ m' = CutShort(cut)
               /\ lock' = queue
               /\ pc' = [pc EXCEPT ![p] = "aux"]
               /\ UNCHANGED <<registered, sends, on, result, drain>>
          ELSE LockToClose(p, CutShort(cut), queue)
       /\ UNCHANGED <<tries, pin, aborted, faults>>

\* The cancelled tasks are through, or take too long.
AuxOver(p) ==
    /\ pc[p] = "aux"
    /\ LockToClose(p, m, lock)
    /\ UNCHANGED <<closed, tries, pin, aborted, supervisor, liveness, faults>>

CloseGranted(p) ==
    /\ pc[p] = "locks"
    /\ Holds(p)
    /\ StopOwner(p, m, lock)
    /\ UNCHANGED <<closed, tries, pin, aborted, supervisor, liveness, faults>>

\* The requests have ended, or their time is up.
Drained(p) ==
    /\ pc[p] = "drains"
    /\ aborted' = aborted \cup (drain \cap Inflight)
    /\ m' = [m EXCEPT !.stop = TRUE, !.owner[m.current].wake = TRUE]
    /\ pc' = [pc EXCEPT ![p] = "stops"]
    /\ drain' = {}
    /\ UNCHANGED <<closed, registered, lock, tries, pin, sends, on, result, supervisor, liveness,
                   faults>>

OwnerStopped(p) ==
    /\ pc[p] \in {"stops", "kills"}
    /\ Phase(m) = "done"
    /\ Finish(p, m, lock)
    /\ UNCHANGED <<closed, tries, pin, aborted, taskVars, faults>>

Kill(p) ==
    /\ pc[p] = "stops"
    /\ Phase(m) # "done"
    /\ m' = [m EXCEPT !.owner[m.current].cancel = TRUE]
    /\ pc' = [pc EXCEPT ![p] = "kills"]
    /\ UNCHANGED <<closed, registered, lock, tries, requestVars, taskVars, faults>>

\* The owner swallowed its cancellation: it is left to end in the background.
Abandon(p) ==
    /\ pc[p] = "kills"
    /\ Phase(m) # "done"
    /\ Finish(p, [m EXCEPT !.owner[m.current].phase = "abandoned"], lock)
    /\ UNCHANGED <<closed, tries, pin, aborted, taskVars, faults>>

----------------------------------------------------------------------------
Requesting ==
    \E c \in Callers : WaitOver(c) \/ Answered(c) \/ TimedOut(c) \/ ConnectionLost(c)
                       \/ RequestAborted(c) \/ StartAborted(c)
Starting == \E p \in Starters \cap Procs : Granted(p) \/ Started(p)
Owning == \E n \in 1..Incarnations : OwnerUp(n) \/ OwnerEnds(n)
Faulty == \E n \in 1..Incarnations : OwnerFails(n) \/ OwnerCrashes(n) \/ Eof(n) \/ Hang(n)
Supervision(i) ==
    OldEnded(i) \/ OldCancelled(i) \/ BackoffOver(i) \/ AttemptGranted(i) \/ Attempted(i)
    \/ AttemptAborted(i)
Supervising ==
    \E i \in Supervisors : Supervision(i)
Pinging == PingAnswered \/ PingFails
Closing ==
    \E p \in Closers : AuxOver(p) \/ CloseGranted(p) \/ Drained(p) \/ OwnerStopped(p) \/ Kill(p)
                       \/ Abandon(p)
Asking ==
    \/ \E c \in Callers : Call(c) \/ CallerCancelled(c)
    \/ \E p \in Closers : Close(p)

Next ==
    \/ Start \/ Requesting \/ Starting \/ Owning \/ Faulty \/ Supervising \/ Pinging \/ Closing
    \/ Asking

Spec == Init /\ [][Next]_vars

\* Tasks that may run do, every wait is bounded, and an owner comes up, fails
\* or, once woken or cancelled, ends.
FairSpec ==
    /\ Spec
    /\ \A c \in Callers :
        WF_vars(WaitOver(c) \/ TimedOut(c) \/ RequestAborted(c) \/ StartAborted(c))
    /\ \A p \in Starters \cap Procs : WF_vars(Granted(p)) /\ WF_vars(Started(p))
    /\ \A n \in 1..Incarnations : WF_vars(OwnerUp(n)) /\ WF_vars(OwnerEnds(n))
    /\ \A i \in Supervisors : WF_vars(Supervision(i))
    /\ \A p \in Closers :
        WF_vars(AuxOver(p) \/ CloseGranted(p) \/ Drained(p) \/ OwnerStopped(p) \/ Kill(p) \/ Abandon(p))
-----------------------------------------------------------------------------
OwnerRecords ==
    [phase : {"none", "opening", "up", "done", "abandoned"},
     ready : {"pending", "set", "failed", "cancelled", "taken"},
     wake : BOOLEAN, cancel : BOOLEAN, gone : BOOLEAN, generation : 0..Incarnations]

SupervisorRecords ==
    [phase : {"none", "waits", "sleeps", "queued", "starting", "aborting"}, old : 0..Incarnations,
     tries : 0..MaxAttempts]

TypeOK ==
    /\ m \in [state : States, closing : BOOLEAN, stop : BOOLEAN, session : 0..Incarnations,
              current : 0..Incarnations, generation : 0..Incarnations,
              task : Supervisors, owner : [1..Incarnations -> OwnerRecords]]
    /\ closed \in BOOLEAN
    /\ registered \in BOOLEAN
    /\ lock \in Seq(Procs \cup Supervisors)
    /\ pc \in [Procs -> {"idle", "waits", "queued", "starting", "aborting", "sent", "backoff", "aux",
                         "locks", "drains", "stops", "kills", "ended"}]
    /\ tries \in 0..StartAttempts
    /\ pin \in [Callers -> Nat]
    /\ sends \in [Callers -> Nat]
    /\ on \in [Callers -> 0..Incarnations]
    /\ aborted \subseteq Callers
    /\ result \in [Callers -> {"none", "ok", "closed", "unavailable", "state_lost", "timeout", "lost",
                               "cancelled"}]
    /\ supervisor \in [Supervisors -> SupervisorRecords]
    /\ liveness \in 0..Incarnations
    /\ drain \subseteq Callers
    /\ faults \in 0..MaxFaults

Alive == {n \in 1..Incarnations : m.owner[n].phase \in {"opening", "up"}}

\* Whoever finds the server READY finds its session: no dead connection is
\* offered, unless a closing call has stopped it and is about to say so.
ReadyIsConnected ==
    m.state = "READY" /\ ~m.closing /\ ~m.stop =>
        m.session = m.current /\ m.owner[m.current].phase = "up"

\* A request pinned to an incarnation of the server is never sent to another,
\* however long it waited for the connection.
PinnedCallsStay ==
    \A c \in Callers : pc[c] = "sent" /\ pin[c] # 0 => m.owner[on[c]].generation = pin[c]

\* tools/call is never sent twice; other requests once more, after a loss.
NeverRepeated == \A c \in Callers : sends[c] <= IF c \in Idempotent THEN 2 ELSE 1

\* A request meets the server it was promised: a READY server has its session, a pinned
\* request its incarnation, and what must not be repeated is sent once.
CallsMeetTheirServer == ReadyIsConnected /\ PinnedCallsStay /\ NeverRepeated

\* After shutdown the server is not connected and does not come back: what still runs
\* is an incarnation that another has replaced, and it was told to end.
ShutdownIsFinal ==
    "shutdown" \in Closers /\ pc["shutdown"] = "ended" =>
        /\ m.state = "DISCONNECTED"
        /\ \A n \in Alive : n # m.current /\ (m.owner[n].wake \/ m.owner[n].cancel)

\* "one client per server" (src/src/mcp/manager.py:3): no incarnation is opened while
\* another is still connected.  The code does not keep it.
OneClientPerServer == Cardinality(Alive) <= 1

\* Whoever waits is let go: every request and every closing call ends, and a
\* reconnection ends one way or the other, whatever happens to the connection.
WaitsEnd ==
    /\ \A p \in Callers \cup Closers : pc[p] # "idle" ~> pc[p] = "ended"
    /\ m.state = "RECONNECTING" ~> m.state # "RECONNECTING"
=============================================================================
