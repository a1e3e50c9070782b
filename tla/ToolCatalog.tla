----------------------------- MODULE ToolCatalog -----------------------------
(***************************************************************************)
(* What the servers of the pool offer and what the harness knows of it:    *)
(* the lists of tools as they were fetched (mcp/catalog.py), the fetching  *)
(* when a server connects and when it announces that its list changed (the *)
(* owner and rediscovery tasks of mcp/manager.py), the names under which   *)
(* tools are called (mcp/naming.py, harness/mcp_tools.py) and the caches   *)
(* the tool registry reads (harness/tools.py).                             *)
(*                                                                         *)
(* How a connection comes and goes is McpConnection's; here it is there or *)
(* not.  A session is the number of the connection; 0 is no session.       *)
(***************************************************************************)
EXTENDS Naturals, FiniteSets

CONSTANTS
    Servers,        \* the configured servers
    Ephemeral,      \* those with connection_mode "ephemeral"
    Browser,        \* the server whose tools keep their own names; or None
    None,
    Tools,          \* every tool a server may have: <<server, local name>>
    Lists,          \* server -> the sets of its tools it may have
    Before,         \* the order of (server, local name): a set of pairs of tools
    Local,          \* tool -> the name its server uses, if a provider takes it, or None
    Base,           \* tool -> server__name, made safe
    Hashed,         \* tool -> the same, cut and with a hash of server and name
    Short,          \* the tools whose base fits into a name
    MaxChanges,     \* bound: changes of a list, refreshes and removals
    MaxFaults       \* bound: lost connections and failed discoveries

ASSUME CatalogAssumption ==
    /\ Ephemeral \subseteq Servers
    /\ Tools \subseteq Servers \X {t[2] : t \in Tools}
    /\ \A s \in Servers : Lists[s] \subseteq SUBSET {t \in Tools : t[1] = s}
    /\ \A t, u \in Tools : t # u => (<<t, u>> \in Before <=> <<u, t>> \notin Before)
    /\ \A t, u, v \in Tools : <<t, u>> \in Before /\ <<u, v>> \in Before => <<t, v>> \in Before
    /\ {MaxChanges, MaxFaults} \subseteq Nat

\* Hashes do not collide, neither with each other nor with a plain name, and one
\* server has one tool of a name.
ASSUME NamingAssumption ==
    /\ \A t, u \in Tools : t # u => Hashed[t] # Hashed[u] /\ Hashed[t] # Base[u]
    /\ \A t \in Tools : Hashed[t] # Base[t] /\ None \notin {Base[t], Hashed[t]}
    /\ \A t, u \in Tools : t # u /\ t[1] = u[1] /\ Local[t] # None => Local[t] # Local[u]

VARIABLES
    real,       \* server -> the list it has, and how often it changed
    told,       \* server -> the session its list_changed is under way to; 0 for none
    m,          \* server -> its ManagedServer
    task,       \* server -> its rediscovery task
    index,      \* MCPManager._tool_index
    cache,      \* what the registry read last, and whether its version is current
    changes, faults

serverVars == <<real, told>>
vars == <<real, told, m, task, index, cache, changes, faults>>

States == {"DOWN", "CONNECTING", "READY"}

List(tools, revision) == [tools |-> tools, revision |-> revision]
NoList == List({}, 0)

\* fetched: what the owner, or the probe of an ephemeral server, has brought;
\* from: the session that known was fetched in.
Managed == [state |-> "DOWN", closing |-> FALSE, session |-> 0, opened |-> 0, fetched |-> None,
            known |-> NoList, from |-> 0, dirty |-> FALSE, stale |-> FALSE]

NoTask == [phase |-> "none", session |-> 0, list |-> NoList]

Init ==
    /\ real \in [Servers -> {List(l, 0) : l \in UNION {Lists[s] : s \in Servers}}]
    /\ \A s \in Servers : real[s].tools \in Lists[s]
    /\ told = [s \in Servers |-> 0]
    /\ m = [s \in Servers |-> Managed]
    /\ task = [s \in Servers |-> NoTask]
    /\ index = [n \in {} |-> None]
    /\ cache = [tools |-> {}, current |-> FALSE]
    /\ changes = 0 /\ faults = 0

----------------------------------------------------------------------------
(* Names *)

\* _rebuild_indexes: what is indexed is the last known list of every server.
Known(ms) == UNION {ms[s].known.tools : s \in DOMAIN ms}

\* The tools whose name a tool would take, if they are there before it.
Rivals == [t \in Tools |-> {u \in Short : <<u, t>> \in Before /\ Base[u] = Base[t]}]

\* qualify, in the order of the rebuild: the first tool of a base gets it.
Qualify(tool, known) ==
    IF tool \in Short /\ Rivals[tool] \cap known = {} THEN Base[tool] ELSE Hashed[tool]

Index(ms) ==
    LET known == Known(ms)
        name == [t \in known |-> Qualify(t, known)]
    IN  [n \in {name[t] : t \in known} |-> CHOOSE t \in known : name[t] = n]

\* list_tools: the tools of READY servers only.
Ready(ms) == {s \in DOMAIN ms : ms[s].state = "READY"}
Listed(ms) == UNION {ms[s].known.tools : s \in Ready(ms)}

\* Mutated: a local name is not compared with the qualified ones.
ExposedUnreserved(tool, name, reserved) ==
    IF tool[1] = Browser /\ Local[tool] # None THEN Local[tool] ELSE name

\* exposed_name: the browser's tools keep their own names, if they can.
Exposed(tool, name, reserved) ==
    IF tool[1] = Browser /\ Local[tool] \notin {None} \cup reserved THEN Local[tool] ELSE name

\* MCPToolSource._build: the tools as the model sees them.
Build(ms) ==
    LET known == Known(ms)
        name == [t \in Listed(ms) |-> Qualify(t, known)]
        reserved == {name[t] : t \in Listed(ms)}
    IN  {[name |-> Exposed(t, name[t], reserved), qualified |-> name[t], tool |-> t,
          revision |-> ms[t[1]].known.revision] : t \in Listed(ms)}

----------------------------------------------------------------------------
(* The manager; ms is m as the step leaves it. *)

\* _set_state and _rebuild_indexes bump the version.
Bump == cache' = [cache EXCEPT !.current = FALSE]

\* _rebuild_indexes.
Rebuild(ms) ==
    /\ m' = ms
    /\ index' = Index(ms)
    /\ Bump

\* A new state; the version is bumped if it is about READY.
Enter(s, ms) ==
    /\ m' = ms
    /\ UNCHANGED index
    /\ IF (m[s].state = "READY") # (ms[s].state = "READY") THEN Bump ELSE UNCHANGED cache

\* Mutated: one round, whatever was announced meanwhile.
RoundOnce(s, ms) ==
    IF task[s].phase = "starts" /\ ms[s].dirty /\ ms[s].state = "READY" /\ ms[s].session # 0
    THEN [phase |-> "asks", session |-> ms[s].session, list |-> NoList]
    ELSE NoTask

\* The head of _rediscover_loop: another round, or the task is done.
Round(s, ms) ==
    IF ms[s].dirty /\ ms[s].state = "READY" /\ ms[s].session # 0
    THEN [phase |-> "asks", session |-> ms[s].session, list |-> NoList]
    ELSE NoTask

\* What a round does to dirty: it takes it, even when there is no session.
Taken(s, ms) == IF ms[s].state = "READY" THEN [ms EXCEPT ![s].dirty = FALSE] ELSE ms

\* _schedule_rediscover: one task at a time.
Schedule(s, ms) ==
    IF ms[s].state = "READY" /\ task[s].phase = "none"
    THEN task' = [task EXCEPT ![s].phase = "starts"]
    ELSE UNCHANGED task

\* A connection attempt: initialize and discover of the new session.
Opens(s) ==
    /\ s \in DOMAIN m
    /\ m[s].state = "DOWN" /\ m[s].session = 0 /\ m[s].fetched = None
    /\ m[s].opened <= MaxFaults + MaxChanges
    /\ Enter(s, [m EXCEPT ![s].state = "CONNECTING", ![s].closing = FALSE,
                          ![s].opened = @ + 1, ![s].fetched = real[s]])
    /\ UNCHANGED <<serverVars, task, changes, faults>>

\* _start_owner, or _probe_ephemeral, when it is through.
Adopts(s) ==
    /\ s \in DOMAIN m
    /\ m[s].fetched # None
    /\ LET ms == [m EXCEPT ![s].state = "READY", ![s].fetched = None, ![s].stale = FALSE,
                           ![s].known = m[s].fetched, ![s].from = m[s].opened,
                           ![s].session = IF s \in Ephemeral THEN 0 ELSE m[s].opened]
       IN  /\ Rebuild(ms)
           /\ IF m[s].dirty /\ s \notin Ephemeral THEN Schedule(s, ms) ELSE UNCHANGED task
    /\ UNCHANGED <<serverVars, changes, faults>>

OpenFails(s) ==
    /\ s \in DOMAIN m
    /\ m[s].fetched # None
    /\ faults < MaxFaults
    /\ faults' = faults + 1
    /\ Enter(s, [m EXCEPT ![s].fetched = None,
                          ![s].state = IF @ = "CONNECTING" THEN "DOWN" ELSE @])
    /\ UNCHANGED <<serverVars, task, changes>>

\* The connection is lost: its session goes when the owner has left its contexts,
\* the state when somebody notices; either may be first.
SessionGoes(s) ==
    /\ s \in DOMAIN m
    /\ m[s].session # 0
    /\ m[s].state = "READY" => faults < MaxFaults
    /\ faults' = IF m[s].state = "READY" THEN faults + 1 ELSE faults
    /\ m' = [m EXCEPT ![s].session = 0]
    /\ UNCHANGED <<serverVars, task, index, cache, changes>>

LossSeen(s) ==
    /\ s \in DOMAIN m \ Ephemeral
    /\ m[s].state = "READY" /\ ~m[s].closing
    /\ m[s].session # 0 => faults < MaxFaults
    /\ faults' = IF m[s].session # 0 THEN faults + 1 ELSE faults
    /\ Enter(s, [m EXCEPT ![s].state = "DOWN"])
    /\ UNCHANGED <<serverVars, task, changes>>

\* _close of a reconnect or a removal: the tasks are cancelled first, the
\* connection is closed when its requests have ended.
CloseBegins(s) ==
    /\ s \in DOMAIN m
    /\ m[s].state = "READY" /\ ~m[s].closing /\ m[s].fetched = None
    /\ changes < MaxChanges
    /\ changes' = changes + 1
    /\ m' = [m EXCEPT ![s].closing = TRUE]
    /\ task' = [task EXCEPT ![s] = NoTask]
    /\ UNCHANGED <<serverVars, index, cache, faults>>

Closed(s) ==
    /\ s \in DOMAIN m
    /\ m[s].closing /\ m[s].state = "READY"
    /\ Enter(s, [m EXCEPT ![s].state = "DOWN", ![s].session = 0])
    /\ UNCHANGED <<serverVars, task, changes, faults>>

\* remove_server: the server leaves the pool and the index.
Removed(s) ==
    /\ s \in DOMAIN m
    /\ m[s].closing /\ m[s].state = "READY"
    /\ Rebuild([r \in DOMAIN m \ {s} |-> m[r]])
    /\ task' = [task EXCEPT ![s] = NoTask]
    /\ UNCHANGED <<serverVars, changes, faults>>

----------------------------------------------------------------------------
(* Rediscovery *)

\* The server has another list and says so, if anybody is connected to it.
Changes(s, tools) ==
    /\ changes < MaxChanges
    /\ changes' = changes + 1
    /\ real' = [real EXCEPT ![s] = List(tools, @.revision + 1)]
    /\ told' = [told EXCEPT ![s] =
                    IF s \in DOMAIN m /\ s \notin Ephemeral /\ (m[s].session # 0 \/ m[s].fetched # None)
                    THEN m[s].opened ELSE 0]
    /\ UNCHANGED <<m, task, index, cache, faults>>

\* on_message: one of a stopping connection is dropped.
Hears(s) ==
    /\ told[s] # 0
    /\ told' = [told EXCEPT ![s] = 0]
    /\ IF /\ s \in DOMAIN m
          /\ told[s] = m[s].opened
          /\ \/ m[s].state = "CONNECTING"
             \/ m[s].state = "READY" /\ m[s].session = told[s]
       THEN /\ m' = [m EXCEPT ![s].dirty = TRUE]
            /\ Schedule(s, m)
       ELSE UNCHANGED <<m, task>>
    /\ UNCHANGED <<real, index, cache, changes, faults>>

\* refresh: an ephemeral server is probed again, the list of another refetched.
Refresh(s) ==
    /\ s \in DOMAIN m
    /\ changes < MaxChanges
    /\ changes' = changes + 1
    /\ IF s \in Ephemeral
       THEN /\ m[s].fetched = None /\ ~m[s].closing
            /\ m' = [m EXCEPT ![s].fetched = real[s], ![s].opened = @ + 1]
            /\ UNCHANGED task
       ELSE /\ m[s].state = "READY"
            /\ m' = [m EXCEPT ![s].dirty = TRUE]
            /\ Schedule(s, m)
    /\ UNCHANGED <<serverVars, index, cache, faults>>

\* The task runs for the first time.
Rediscovers(s) ==
    /\ task[s].phase = "starts"
    /\ task' = [task EXCEPT ![s] = Round(s, m)]
    /\ m' = Taken(s, m)
    /\ UNCHANGED <<serverVars, index, cache, changes, faults>>

\* The server answers with the list it has.
Answers(s) ==
    /\ task[s].phase = "asks"
    /\ m[s].session = task[s].session
    /\ task' = [task EXCEPT ![s].phase = "answered", ![s].list = real[s]]
    /\ UNCHANGED <<serverVars, m, index, cache, changes, faults>>

\* Mutated: whatever was fetched is applied.
OursAlways(s) == TRUE

\* "not a catalog of a replaced incarnation"
Ours(s) == m[s].session = task[s].session

\* discover returns: the list is applied, and the loop looks again.
Applies(s) ==
    /\ task[s].phase = "answered"
    /\ LET ms == IF Ours(s)
                 THEN [m EXCEPT ![s].known = task[s].list, ![s].from = task[s].session,
                                ![s].stale = FALSE]
                 ELSE m
       IN  /\ Rebuild(Taken(s, ms))
           /\ task' = [task EXCEPT ![s] = Round(s, ms)]
    /\ UNCHANGED <<serverVars, changes, faults>>

\* discover raises: the connection is gone, or the server does not answer (the
\* ping that follows may find the connection dead: LossSeen).
DiscoverFails(s) ==
    /\ task[s].phase \in {"asks", "answered"}
    /\ m[s].session = task[s].session => faults < MaxFaults
    /\ faults' = IF m[s].session = task[s].session THEN faults + 1 ELSE faults
    /\ LET ms == [m EXCEPT ![s].stale = TRUE]
       IN  /\ Rebuild(Taken(s, ms))
           /\ task' = [task EXCEPT ![s] = Round(s, ms)]
    /\ UNCHANGED <<serverVars, changes>>

\* ToolRegistry.get_all: the list is built anew if the version is another one.
Reads ==
    /\ ~cache.current
    /\ cache' = [tools |-> Build(m), current |-> TRUE]
    /\ UNCHANGED <<serverVars, m, task, index, changes, faults>>

Rediscovery(s) == Rediscovers(s) \/ Answers(s) \/ Applies(s) \/ DiscoverFails(s)

Next ==
    \/ \E s \in Servers :
        \/ Opens(s) \/ Adopts(s) \/ OpenFails(s)
        \/ SessionGoes(s) \/ LossSeen(s)
        \/ CloseBegins(s) \/ Closed(s) \/ Removed(s)
        \/ \E tools \in Lists[s] : Changes(s, tools)
        \/ Hears(s) \/ Refresh(s)
        \/ Rediscovery(s)
    \/ Reads

Spec == Init /\ [][Next]_vars

\* Messages arrive, discovery ends (a request times out at the latest), a
\* connection attempt as well, who closes a server finishes, and the exit of an
\* owner task is seen.
FairSpec ==
    /\ Spec
    /\ \A s \in Servers :
        /\ WF_vars(Hears(s))
        /\ WF_vars(Rediscovery(s))
        /\ WF_vars(Adopts(s) \/ OpenFails(s))
        /\ WF_vars(Closed(s) \/ Removed(s))
        /\ WF_vars(s \in DOMAIN m /\ m[s].session = 0 /\ LossSeen(s))
-----------------------------------------------------------------------------
TypeOK ==
    /\ \A s \in Servers : real[s].tools \in Lists[s]
    /\ DOMAIN m \subseteq Servers
    /\ \A s \in DOMAIN m :
        /\ m[s].state \in States
        /\ m[s].session \in {0, m[s].opened}
    /\ \A s \in Servers : task[s].phase \in {"none", "starts", "asks", "answered"}

\* What is offered of a connected server was fetched from the connection it has: a
\* list that an earlier one sent is never put over it, however late it is read.
ListsAreOfTheirSession ==
    \A s \in DOMAIN m : m[s].session # 0 /\ m[s].state = "READY" => m[s].from = m[s].session

\* A name leads to one tool, and to the tool it stands for; what a reader has under
\* the current version is what the servers offer.
NamesLeadHome ==
    LET built == Build(m) IN
    /\ \A a, b \in built : a.name = b.name => a = b
    /\ \A a \in built : a.qualified \in DOMAIN index /\ index[a.qualified] = a.tool
    /\ cache.current => cache.tools = built

\* No announced change is missed: of a server that stays connected the list it has
\* becomes known, or is known to be out of date.
ListsSettle ==
    \A s \in Servers \ Ephemeral :
        <>[](s \in DOMAIN m /\ m[s].state = "READY")
            => <>[](s \in DOMAIN m /\ (m[s].known = real[s] \/ m[s].stale))
=============================================================================
