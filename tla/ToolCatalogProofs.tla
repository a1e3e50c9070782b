-------------------------- MODULE ToolCatalogProofs --------------------------
(***************************************************************************)
(* Proofs about ToolCatalog: the lists of tools that are offered are those *)
(* of the connections at hand, and a name leads to one tool.               *)
(*                                                                         *)
(* Names are a matter of the operators alone: among any tools the names of *)
(* qualify differ, so the index inverts them, and the names that are       *)
(* exposed differ as well.  What the steps add is that the index and the   *)
(* registry's copy are of the lists as they are: a step that touches a     *)
(* list rebuilds the index, and one that changes what is offered bumps the *)
(* version.                                                                *)
(***************************************************************************)
EXTENDS ToolCatalog, TLAPS

\* The tools that a server can have.
ToolsOf(s) == {t \in Tools : t[1] = s}

ManagedFields == {"state", "closing", "session", "opened", "fetched", "known", "from",
                  "dirty", "stale"}

\* An entry of the pool.
Sound(s, e) ==
    /\ DOMAIN e = ManagedFields
    /\ e.state \in States
    /\ e.session \in {0, e.opened}
    /\ s \in Ephemeral => e.session = 0
    /\ e.known.tools \subseteq ToolsOf(s)
    /\ e.fetched # None => e.fetched.tools \subseteq ToolsOf(s)

\* A rediscovery task.
TaskSound(s, t) ==
    /\ DOMAIN t = {"phase", "session", "list"}
    /\ t.phase \in {"none", "starts", "asks", "answered"}
    /\ t.list.tools \subseteq ToolsOf(s)

RealSound == DOMAIN real = Servers /\ \A s \in Servers : real[s].tools \in Lists[s]
PoolSound == DOMAIN m \subseteq Servers /\ \A s \in DOMAIN m : Sound(s, m[s])
TasksSound == DOMAIN task = Servers /\ \A s \in Servers : TaskSound(s, task[s])
CacheSound == DOMAIN cache = {"tools", "current"}

Typed == RealSound /\ PoolSound /\ TasksSound /\ CacheSound

\* The index is of the lists as they are, the registry's copy too unless its
\* version is an old one.
UpToDate ==
    /\ index = Index(m)
    /\ cache.current => cache.tools = Build(m)

IInv == Typed /\ ListsAreOfTheirSession /\ UpToDate

----------------------------------------------------------------------------
(* Names *)

\* Of two tools with the same base one comes before the other, which then takes
\* its hashed name: qualify gives no name twice.
LEMMA NamesDiffer ==
    ASSUME NEW known \in SUBSET Tools, NEW t \in known, NEW u \in known,
           Qualify(t, known) = Qualify(u, known)
    PROVE  t = u
<1> SUFFICES ASSUME t # u PROVE FALSE
  OBVIOUS
<1>1. t \in Tools /\ u \in Tools
  OBVIOUS
<1>2. <<t, u>> \in Before \/ <<u, t>> \in Before
  BY <1>1, CatalogAssumption
<1>3. Hashed[t] # Hashed[u] /\ Hashed[t] # Base[u] /\ Hashed[u] # Base[t]
  BY <1>1, NamingAssumption
<1>4. /\ t \in Short /\ Rivals[t] \cap known = {}
      /\ u \in Short /\ Rivals[u] \cap known = {}
      /\ Base[t] = Base[u]
  BY <1>3 DEF Qualify
<1>5. t \in Rivals[u] \/ u \in Rivals[t]
  BY <1>1, <1>2, <1>4 DEF Rivals
<1> QED
  BY <1>4, <1>5

\* A tool that is known is found under its name.
LEMMA IndexLeads ==
    ASSUME NEW ms, Known(ms) \subseteq Tools, NEW t \in Known(ms)
    PROVE  /\ Qualify(t, Known(ms)) \in DOMAIN Index(ms)
           /\ Index(ms)[Qualify(t, Known(ms))] = t
<1> DEFINE known == Known(ms)
           name == [u \in known |-> Qualify(u, known)]
<1>1. \A u \in known : name[u] = name[t] => u = t
  BY NamesDiffer
<1>2. name[t] \in {name[u] : u \in known} /\ name[t] = Qualify(t, known)
  OBVIOUS
<1>3. (CHOOSE u \in known : name[u] = name[t]) = t
  BY <1>1
<1>4. Index(ms) = [n \in {name[u] : u \in known} |-> CHOOSE u \in known : name[u] = n]
  BY DEF Index
<1> HIDE DEF name, known
<1>5. Index(ms)[name[t]] = t /\ name[t] \in DOMAIN Index(ms)
  BY <1>2, <1>3, <1>4
<1> QED
  BY <1>2, <1>5 DEF known

\* What is listed is known.
LEMMA ListedIsKnown ==
    ASSUME NEW ms, NEW t \in Listed(ms)
    PROVE  t \in Known(ms)
  BY DEF Listed, Known, Ready

\* The tools under their names as _build has them: no two have the same name,
\* whether they keep their own or not.
LEMMA BuiltDiffer ==
    ASSUME NEW ms, Known(ms) \subseteq Tools,
           NEW a \in Build(ms), NEW b \in Build(ms), a.name = b.name
    PROVE  a = b
<1> DEFINE known == Known(ms)
           name == [t \in Listed(ms) |-> Qualify(t, known)]
           reserved == {name[t] : t \in Listed(ms)}
           built(t) == [name |-> Exposed(t, name[t], reserved), qualified |-> name[t], tool |-> t,
                        revision |-> ms[t[1]].known.revision]
<1>1. PICK t \in Listed(ms) : a = built(t)
  BY DEF Build
<1>2. PICK u \in Listed(ms) : b = built(u)
  BY DEF Build
<1>3. /\ t \in known /\ u \in known /\ t \in Tools /\ u \in Tools
      /\ name[t] = Qualify(t, known) /\ name[u] = Qualify(u, known)
      /\ name[t] \in reserved /\ name[u] \in reserved
  BY ListedIsKnown
<1>4. name[t] = name[u] => t = u
  BY <1>3, NamesDiffer
<1> HIDE DEF name, known, reserved
<1>5. Exposed(t, name[t], reserved) = Exposed(u, name[u], reserved)
  BY <1>1, <1>2
<1>6. t = u
  BY <1>3, <1>4, <1>5, NamingAssumption DEF Exposed
<1> QED
  BY <1>1, <1>2, <1>6

----------------------------------------------------------------------------
(* What a step leaves as it is *)

\* Nobody's list is another, and no server is there that was not or gone.
SameLists(a, b) == DOMAIN a = DOMAIN b /\ \A s \in DOMAIN a : a[s].known = b[s].known

\* The index is a matter of the lists.
LEMMA SameIndex ==
    ASSUME NEW a, NEW b, SameLists(a, b)
    PROVE  Known(a) = Known(b) /\ Index(a) = Index(b)
<1>1. Known(a) = Known(b)
  BY DEF SameLists, Known
<1> QED
  BY <1>1 DEF Index

\* What is offered is a matter of the lists and of who is connected.
LEMMA SameBuild ==
    ASSUME NEW a, NEW b, SameLists(a, b), Ready(a) = Ready(b),
           \A s \in DOMAIN a : a[s].known.tools \subseteq ToolsOf(s)
    PROVE  Build(a) = Build(b)
<1>1. Known(a) = Known(b)
  BY SameIndex
<1>2. Listed(a) = Listed(b)
  BY DEF SameLists, Listed, Ready
<1>3. \A t \in Listed(a) : a[t[1]].known.revision = b[t[1]].known.revision
  BY DEF SameLists, Listed, Ready, ToolsOf
<1> QED
  BY <1>1, <1>2, <1>3 DEF Build

\* A rebuild leaves nothing out of date that claims to be current.
LEMMA Rebuilt ==
    ASSUME Typed, NEW ms, Rebuild(ms)
    PROVE  UpToDate' /\ CacheSound'
  BY DEF Typed, CacheSound, Rebuild, Bump, UpToDate

\* A step that moves no list and does not change who is READY has no need to.
LEMMA Untouched ==
    ASSUME Typed, UpToDate, UNCHANGED <<index, cache>>, SameLists(m, m'),
           \A r \in DOMAIN m : (m[r].state = "READY") <=> (m'[r].state = "READY")
    PROVE  UpToDate' /\ CacheSound'
<1>1. Index(m') = Index(m)
  BY SameIndex
<1>2. Ready(m) = Ready(m')
  BY DEF Ready, SameLists
<1>3. \A s \in DOMAIN m : m[s].known.tools \subseteq ToolsOf(s)
  BY DEF Typed, PoolSound, Sound
<1>4. Build(m) = Build(m')
  BY <1>2, <1>3, SameBuild
<1> QED
  BY <1>1, <1>4 DEF UpToDate, Typed, CacheSound

\* _set_state bumps the version when a server becomes READY or ceases to be.
LEMMA Entered ==
    ASSUME Typed, UpToDate, NEW s \in DOMAIN m, NEW ms, Enter(s, ms), SameLists(m, ms),
           \A r \in DOMAIN m \ {s} : ms[r].state = m[r].state
    PROVE  UpToDate' /\ CacheSound'
<1>1. m' = ms /\ UNCHANGED index
  BY DEF Enter
<1>2. CASE (m[s].state = "READY") <=> (ms[s].state = "READY")
  BY <1>1, <1>2, Untouched DEF Enter
<1>3. CASE ~((m[s].state = "READY") <=> (ms[s].state = "READY"))
  <2>1. Bump
    BY <1>3 DEF Enter
  <2>2. CacheSound' /\ ~cache'.current
    BY <2>1 DEF Bump, Typed, CacheSound
  <2> QED
    BY <1>1, <2>2, SameIndex DEF UpToDate
<1> QED
  BY <1>2, <1>3

\* A step that changes one entry of the pool needs to be looked at there only.
LEMMA OneEntry ==
    ASSUME Typed, ListsAreOfTheirSession, NEW s \in DOMAIN m,
           DOMAIN m' = DOMAIN m, \A r \in DOMAIN m \ {s} : m'[r] = m[r],
           Sound(s, m'[s]),
           m'[s].session # 0 /\ m'[s].state = "READY" => m'[s].from = m'[s].session
    PROVE  PoolSound' /\ ListsAreOfTheirSession'
  BY DEF Typed, PoolSound, ListsAreOfTheirSession

----------------------------------------------------------------------------
(* The steps *)

\* The list a server has can be fetched.
LEMMA RealIsOfServer ==
    ASSUME Typed, NEW s \in Servers
    PROVE  real[s].tools \subseteq ToolsOf(s)
  BY CatalogAssumption DEF Typed, RealSound, ToolsOf

\* _schedule_rediscover leaves tasks that can be there, and so does a round.
LEMMA TasksStay ==
    ASSUME Typed, NEW s \in Servers, NEW ms,
           UNCHANGED task \/ Schedule(s, ms) \/ task' = [task EXCEPT ![s] = NoTask]
               \/ task' = [task EXCEPT ![s] = Round(s, ms)]
    PROVE  TasksSound'
<1>1. \A r \in Servers : TaskSound(r, NoTask) /\ TaskSound(r, Round(r, ms))
  BY DEF TaskSound, NoTask, Round, NoList, List
<1>2. TasksSound
  BY DEF Typed
<1>3. CASE UNCHANGED task
  BY <1>2, <1>3 DEF TasksSound
<1>4. CASE Schedule(s, ms)
  BY <1>2, <1>4 DEF TasksSound, TaskSound, Schedule
<1>5. CASE task' = [task EXCEPT ![s] = NoTask] \/ task' = [task EXCEPT ![s] = Round(s, ms)]
  BY <1>1, <1>2, <1>5 DEF TasksSound
<1> QED
  BY <1>3, <1>4, <1>5

\* A connection attempt fetches a list, and offers nothing yet.
LEMMA OpensInv == ASSUME IInv, NEW s \in Servers, Opens(s) PROVE IInv'
<1> DEFINE e == [m[s] EXCEPT !.state = "CONNECTING", !.closing = FALSE,
                             !.opened = @ + 1, !.fetched = real[s]]
           ms == [m EXCEPT ![s] = e]
<1>1. /\ Typed /\ s \in DOMAIN m /\ Sound(s, m[s]) /\ m[s].state = "DOWN" /\ m[s].session = 0
      /\ Enter(s, ms)
  BY DEF Opens, IInv, Typed, PoolSound
<1>2. real[s].tools \subseteq ToolsOf(s)
  BY <1>1, RealIsOfServer
<1>3. /\ Sound(s, e) /\ e.known = m[s].known /\ e.state = "CONNECTING"
  BY <1>1, <1>2 DEF Sound, ManagedFields, States
<1> HIDE DEF e
<1>4. m' = ms /\ UNCHANGED <<real, task>>
  BY <1>1 DEF Opens, Enter, serverVars
<1>5. UpToDate' /\ CacheSound'
  BY <1>1, <1>3, Entered DEF IInv, SameLists
<1>6. PoolSound' /\ ListsAreOfTheirSession'
  BY <1>1, <1>3, <1>4, OneEntry DEF IInv
<1> QED
  BY <1>1, <1>4, <1>5, <1>6 DEF IInv, Typed, RealSound, TasksSound

\* What was fetched is offered under the session it was fetched in.
LEMMA AdoptsInv == ASSUME IInv, NEW s \in Servers, Adopts(s) PROVE IInv'
<1> DEFINE e == [m[s] EXCEPT !.state = "READY", !.fetched = None, !.stale = FALSE,
                             !.known = m[s].fetched, !.from = m[s].opened,
                             !.session = IF s \in Ephemeral THEN 0 ELSE m[s].opened]
           ms == [m EXCEPT ![s] = e]
<1>1. /\ Typed /\ s \in DOMAIN m /\ Sound(s, m[s]) /\ m[s].fetched # None
      /\ Rebuild(ms) /\ (UNCHANGED task \/ Schedule(s, ms)) /\ UNCHANGED real
  BY DEF Adopts, IInv, Typed, PoolSound, serverVars
<1>2. Sound(s, e) /\ (e.session # 0 => e.from = e.session)
  BY <1>1 DEF Sound, ManagedFields, States
<1> HIDE DEF e
<1>3. m' = ms
  BY <1>1 DEF Rebuild
<1>4. PoolSound' /\ ListsAreOfTheirSession'
  BY <1>1, <1>2, <1>3, OneEntry DEF IInv
<1>5. UpToDate' /\ CacheSound' /\ TasksSound'
  BY <1>1, Rebuilt, TasksStay
<1> QED
  BY <1>1, <1>4, <1>5 DEF IInv, Typed, RealSound

\* A failed attempt offers no more than before.
LEMMA OpenFailsInv == ASSUME IInv, NEW s \in Servers, OpenFails(s) PROVE IInv'
<1> DEFINE e == [m[s] EXCEPT !.fetched = None,
                             !.state = IF @ = "CONNECTING" THEN "DOWN" ELSE @]
           ms == [m EXCEPT ![s] = e]
<1>1. Typed /\ s \in DOMAIN m /\ Sound(s, m[s]) /\ Enter(s, ms) /\ UNCHANGED <<real, task>>
  BY DEF OpenFails, IInv, Typed, PoolSound, serverVars
<1>2. /\ Sound(s, e) /\ e.known = m[s].known /\ e.session = m[s].session /\ e.from = m[s].from
      /\ e.state = "READY" => m[s].state = "READY"
  BY <1>1 DEF Sound, ManagedFields, States
<1> HIDE DEF e
<1>3. m' = ms
  BY <1>1 DEF Enter
<1>4. UpToDate' /\ CacheSound'
  BY <1>1, <1>2, Entered DEF IInv, SameLists
<1>5. PoolSound' /\ ListsAreOfTheirSession'
  BY <1>1, <1>2, <1>3, OneEntry DEF IInv, ListsAreOfTheirSession
<1> QED
  BY <1>1, <1>4, <1>5 DEF IInv, Typed, RealSound, TasksSound

\* A connection that is lost or closed offers what it offered, or nothing.
LEMMA SessionGoesInv == ASSUME IInv, NEW s \in Servers, SessionGoes(s) PROVE IInv'
<1> DEFINE e == [m[s] EXCEPT !.session = 0]
<1>1. /\ Typed /\ s \in DOMAIN m /\ Sound(s, m[s])
      /\ m' = [m EXCEPT ![s] = e] /\ UNCHANGED <<real, task, index, cache>>
  BY DEF SessionGoes, IInv, Typed, PoolSound, serverVars
<1>2. Sound(s, e) /\ e.known = m[s].known /\ e.session = 0 /\ e.state = m[s].state
  BY <1>1 DEF Sound, ManagedFields
<1> HIDE DEF e
<1>3. UpToDate' /\ CacheSound'
  BY <1>1, <1>2, Untouched DEF IInv, SameLists
<1>4. PoolSound' /\ ListsAreOfTheirSession'
  BY <1>1, <1>2, OneEntry DEF IInv
<1> QED
  BY <1>1, <1>3, <1>4 DEF IInv, Typed, RealSound, TasksSound

LEMMA GoesDownInv ==
    ASSUME IInv, NEW s \in Servers, LossSeen(s) \/ Closed(s)
    PROVE  IInv'
<1>1. PICK e \in {[m[s] EXCEPT !.state = "DOWN"], [m[s] EXCEPT !.state = "DOWN", !.session = 0]} :
          Enter(s, [m EXCEPT ![s] = e])
  BY DEF LossSeen, Closed
<1> DEFINE ms == [m EXCEPT ![s] = e]
<1>2. Typed /\ s \in DOMAIN m /\ Sound(s, m[s]) /\ UNCHANGED <<real, task>>
  BY DEF LossSeen, Closed, IInv, Typed, PoolSound, serverVars
<1>3. Sound(s, e) /\ e.known = m[s].known /\ e.state = "DOWN"
  BY <1>2 DEF Sound, ManagedFields, States
<1>4. m' = ms
  BY <1>1 DEF Enter
<1>5. UpToDate' /\ CacheSound'
  BY <1>1, <1>2, <1>3, Entered DEF IInv, SameLists
<1>6. PoolSound' /\ ListsAreOfTheirSession'
  BY <1>2, <1>3, <1>4, OneEntry DEF IInv
<1> QED
  BY <1>2, <1>5, <1>6 DEF IInv, Typed, RealSound, TasksSound

\* A server that is closed or removed has no task any more.
LEMMA CloseBeginsInv == ASSUME IInv, NEW s \in Servers, CloseBegins(s) PROVE IInv'
<1> DEFINE e == [m[s] EXCEPT !.closing = TRUE]
<1>1. /\ Typed /\ s \in DOMAIN m /\ Sound(s, m[s]) /\ m' = [m EXCEPT ![s] = e]
      /\ task' = [task EXCEPT ![s] = NoTask] /\ UNCHANGED <<real, index, cache>>
  BY DEF CloseBegins, IInv, Typed, PoolSound, serverVars
<1>2. /\ Sound(s, e) /\ e.known = m[s].known /\ e.session = m[s].session
      /\ e.from = m[s].from /\ e.state = m[s].state
  BY <1>1 DEF Sound, ManagedFields
<1> HIDE DEF e
<1>3. UpToDate' /\ CacheSound' /\ TasksSound'
  BY <1>1, <1>2, Untouched, TasksStay DEF IInv, SameLists
<1>4. PoolSound' /\ ListsAreOfTheirSession'
  BY <1>1, <1>2, OneEntry DEF IInv, ListsAreOfTheirSession
<1> QED
  BY <1>1, <1>3, <1>4 DEF IInv, Typed, RealSound

LEMMA RemovedInv == ASSUME IInv, NEW s \in Servers, Removed(s) PROVE IInv'
<1>1. /\ Typed /\ Rebuild([r \in DOMAIN m \ {s} |-> m[r]])
      /\ task' = [task EXCEPT ![s] = NoTask] /\ UNCHANGED real
  BY DEF Removed, IInv, serverVars
<1>2. UpToDate' /\ CacheSound' /\ TasksSound'
  BY <1>1, Rebuilt, TasksStay
<1>3. m' = [r \in DOMAIN m \ {s} |-> m[r]]
  BY <1>1 DEF Rebuild
<1>4. PoolSound' /\ ListsAreOfTheirSession'
  BY <1>1, <1>3 DEF IInv, Typed, PoolSound, ListsAreOfTheirSession
<1> QED
  BY <1>1, <1>2, <1>4 DEF IInv, Typed, RealSound

\* What the server has is its own business until it is fetched.
LEMMA ChangesInv ==
    ASSUME IInv, NEW s \in Servers, NEW tools \in Lists[s], Changes(s, tools)
    PROVE  IInv'
<1>1. real' = [real EXCEPT ![s] = List(tools, real[s].revision + 1)]
      /\ UNCHANGED <<m, task, index, cache>>
  BY DEF Changes
<1>2. RealSound'
  BY <1>1 DEF IInv, Typed, RealSound, List
<1> QED
  BY <1>1, <1>2
     DEF IInv, Typed, PoolSound, TasksSound, CacheSound, ListsAreOfTheirSession, UpToDate

\* What is heard, or asked for, is remembered.
LEMMA DirtyInv ==
    ASSUME IInv, NEW s \in DOMAIN m, m' = [m EXCEPT ![s].dirty = TRUE], Schedule(s, m),
           UNCHANGED <<real, index, cache>>
    PROVE  IInv'
<1> DEFINE e == [m[s] EXCEPT !.dirty = TRUE]
<1>1. Typed /\ s \in Servers /\ Sound(s, m[s]) /\ m' = [m EXCEPT ![s] = e]
  BY DEF IInv, Typed, PoolSound
<1>2. /\ Sound(s, e) /\ e.known = m[s].known /\ e.state = m[s].state
      /\ e.session # 0 /\ e.state = "READY" => e.from = e.session
  BY <1>1 DEF Sound, ManagedFields, IInv, ListsAreOfTheirSession
<1> HIDE DEF e
<1>3. DOMAIN m' = DOMAIN m /\ m'[s] = e /\ \A r \in DOMAIN m \ {s} : m'[r] = m[r]
  BY <1>1
<1>4. UpToDate' /\ CacheSound' /\ TasksSound'
  BY <1>1, <1>2, <1>3, Untouched, TasksStay DEF IInv, SameLists
<1>5. PoolSound' /\ ListsAreOfTheirSession'
  BY <1>1, <1>2, <1>3, OneEntry DEF IInv
<1> QED
  BY <1>1, <1>4, <1>5 DEF IInv, Typed, RealSound

LEMMA HearsInv == ASSUME IInv, NEW s \in Servers, Hears(s) PROVE IInv'
<1>1. CASE UNCHANGED <<m, task>>
  BY <1>1 DEF Hears, IInv, Typed, RealSound, PoolSound, TasksSound, CacheSound,
              ListsAreOfTheirSession, UpToDate
<1>2. CASE ~UNCHANGED <<m, task>>
  BY <1>2, DirtyInv DEF Hears
<1> QED
  BY <1>1, <1>2

LEMMA RefreshInv == ASSUME IInv, NEW s \in Servers, Refresh(s) PROVE IInv'
<1>1. CASE s \in Ephemeral
  <2> DEFINE e == [m[s] EXCEPT !.fetched = real[s], !.opened = @ + 1]
  <2>1. /\ Typed /\ s \in DOMAIN m /\ Sound(s, m[s]) /\ m' = [m EXCEPT ![s] = e]
        /\ UNCHANGED <<real, task, index, cache>>
    BY <1>1 DEF Refresh, IInv, Typed, PoolSound, serverVars
  <2>2. /\ Sound(s, e) /\ e.known = m[s].known /\ e.session = 0 /\ e.state = m[s].state
    BY <1>1, <2>1, RealIsOfServer DEF Sound, ManagedFields
  <2> HIDE DEF e
  <2>3. UpToDate' /\ CacheSound'
    BY <2>1, <2>2, Untouched DEF IInv, SameLists
  <2>4. PoolSound' /\ ListsAreOfTheirSession'
    BY <2>1, <2>2, OneEntry DEF IInv
  <2> QED
    BY <2>1, <2>3, <2>4 DEF IInv, Typed, RealSound, TasksSound
<1>2. CASE s \notin Ephemeral
  BY <1>2, DirtyInv DEF Refresh, serverVars
<1> QED
  BY <1>1, <1>2

\* Rediscovery

\* A round takes the note that the list changed, and nothing else.
LEMMA TakenStays ==
    ASSUME NEW s, NEW ms, NEW r \in DOMAIN ms, Sound(r, ms[r])
    PROVE  /\ DOMAIN Taken(s, ms) = DOMAIN ms
           /\ Sound(r, Taken(s, ms)[r])
           /\ \A f \in {"known", "state", "session", "from"} : Taken(s, ms)[r][f] = ms[r][f]
  BY DEF Taken, Sound, ManagedFields

LEMMA RediscoversInv == ASSUME IInv, NEW s \in Servers, Rediscovers(s) PROVE IInv'
<1>1. /\ Typed /\ m' = Taken(s, m) /\ task' = [task EXCEPT ![s] = Round(s, m)]
      /\ UNCHANGED <<real, index, cache>>
  BY DEF Rediscovers, IInv, serverVars
<1>2. \A r \in DOMAIN m : Sound(r, m[r])
  BY <1>1 DEF Typed, PoolSound
<1>3. DOMAIN m' = DOMAIN m
  BY <1>1 DEF Taken
<1>4. \A r \in DOMAIN m : /\ Sound(r, m'[r]) /\ m'[r].known = m[r].known
                          /\ m'[r].state = m[r].state /\ m'[r].session = m[r].session
                          /\ m'[r].from = m[r].from
  BY <1>1, <1>2, TakenStays
<1>5. UpToDate' /\ CacheSound' /\ TasksSound'
  BY <1>1, <1>3, <1>4, Untouched, TasksStay DEF IInv, SameLists
<1>6. PoolSound' /\ ListsAreOfTheirSession'
  BY <1>1, <1>3, <1>4 DEF IInv, Typed, PoolSound, ListsAreOfTheirSession
<1> QED
  BY <1>1, <1>5, <1>6 DEF IInv, Typed, RealSound

LEMMA AnswersInv == ASSUME IInv, NEW s \in Servers, Answers(s) PROVE IInv'
<1>1. /\ Typed /\ task' = [task EXCEPT ![s].phase = "answered", ![s].list = real[s]]
      /\ UNCHANGED <<real, m, index, cache>>
  BY DEF Answers, IInv, serverVars
<1>2. TasksSound'
  BY <1>1, RealIsOfServer DEF Typed, TasksSound, TaskSound
<1> QED
  BY <1>1, <1>2
     DEF IInv, Typed, RealSound, PoolSound, CacheSound, ListsAreOfTheirSession, UpToDate

\* The end of a round rebuilds the index: what it leaves must be sound entry by entry.
LEMMA RoundEnds ==
    ASSUME IInv, NEW s \in Servers, NEW ms, DOMAIN ms = DOMAIN m,
           \A r \in DOMAIN m : /\ Sound(r, ms[r])
                               /\ ms[r].session # 0 /\ ms[r].state = "READY"
                                       => ms[r].from = ms[r].session,
           Rebuild(Taken(s, ms)), task' = [task EXCEPT ![s] = Round(s, ms)], UNCHANGED real
    PROVE  IInv'
<1>1. Typed
  BY DEF IInv
<1>2. UpToDate' /\ CacheSound' /\ TasksSound'
  BY <1>1, Rebuilt, TasksStay
<1>3. m' = Taken(s, ms) /\ DOMAIN m' = DOMAIN m
  BY DEF Rebuild, Taken
<1>4. \A r \in DOMAIN m : /\ Sound(r, m'[r]) /\ m'[r].state = ms[r].state
                          /\ m'[r].session = ms[r].session /\ m'[r].from = ms[r].from
  BY <1>3, TakenStays
<1>5. PoolSound' /\ ListsAreOfTheirSession'
  BY <1>1, <1>3, <1>4 DEF Typed, PoolSound, ListsAreOfTheirSession
<1> QED
  BY <1>1, <1>2, <1>5 DEF IInv, Typed, RealSound

\* A list is applied under the session it was asked of, and only while that is the
\* server's: "not a catalog of a replaced incarnation".
LEMMA AppliesInv == ASSUME IInv, NEW s \in Servers, Applies(s) PROVE IInv'
<1> DEFINE ours == [m EXCEPT ![s].known = task[s].list, ![s].from = task[s].session,
                             ![s].stale = FALSE]
           ms == IF Ours(s) THEN ours ELSE m
<1>1. /\ \A r \in DOMAIN m : Sound(r, m[r])
      /\ \A r \in DOMAIN m : m[r].session # 0 /\ m[r].state = "READY" => m[r].from = m[r].session
      /\ task[s].list.tools \subseteq ToolsOf(s)
  BY DEF IInv, Typed, PoolSound, TasksSound, TaskSound, ListsAreOfTheirSession
<1>2. /\ Rebuild(Taken(s, ms)) /\ task' = [task EXCEPT ![s] = Round(s, ms)]
      /\ UNCHANGED real
  BY DEF Applies, serverVars
<1>3. DOMAIN ms = DOMAIN m
  OBVIOUS
<1>4. \A r \in DOMAIN m : /\ Sound(r, ms[r])
                          /\ ms[r].session # 0 /\ ms[r].state = "READY"
                                  => ms[r].from = ms[r].session
  BY <1>1 DEF Sound, ManagedFields, Ours
<1> HIDE DEF ms
<1> QED
  BY <1>2, <1>3, <1>4, RoundEnds

LEMMA DiscoverFailsInv == ASSUME IInv, NEW s \in Servers, DiscoverFails(s) PROVE IInv'
<1> DEFINE ms == [m EXCEPT ![s].stale = TRUE]
<1>1. /\ \A r \in DOMAIN m : Sound(r, m[r])
      /\ \A r \in DOMAIN m : m[r].session # 0 /\ m[r].state = "READY" => m[r].from = m[r].session
  BY DEF IInv, Typed, PoolSound, ListsAreOfTheirSession
<1>2. /\ Rebuild(Taken(s, ms)) /\ task' = [task EXCEPT ![s] = Round(s, ms)]
      /\ UNCHANGED real
  BY DEF DiscoverFails, serverVars
<1>3. DOMAIN ms = DOMAIN m
  OBVIOUS
<1>4. \A r \in DOMAIN m : /\ Sound(r, ms[r])
                          /\ ms[r].session # 0 /\ ms[r].state = "READY"
                                  => ms[r].from = ms[r].session
  BY <1>1 DEF Sound, ManagedFields
<1> HIDE DEF ms
<1> QED
  BY <1>2, <1>3, <1>4, RoundEnds

\* The registry reads what is offered, and the version is current.
LEMMA ReadsInv == ASSUME IInv, Reads PROVE IInv'
  BY DEF Reads, serverVars, IInv, Typed, RealSound, PoolSound, TasksSound, CacheSound,
         ListsAreOfTheirSession, UpToDate

LEMMA Initially == Init => IInv
<1> SUFFICES ASSUME Init PROVE IInv
  OBVIOUS
<1>1. Typed
  BY DEF Init, Typed, RealSound, PoolSound, TasksSound, CacheSound, Sound, TaskSound,
         ManagedFields, Managed, NoTask, NoList, List, States
<1>2. ListsAreOfTheirSession
  BY DEF Init, ListsAreOfTheirSession, Managed
<1>3. Known(m) = {}
  BY DEF Init, Known, Managed, NoList, List
<1>4. index = Index(m)
  BY <1>3 DEF Init, Index
<1> QED
  BY <1>1, <1>2, <1>4 DEF Init, IInv, UpToDate

LEMMA Inductive == IInv /\ [Next]_vars => IInv'
<1> SUFFICES ASSUME IInv, [Next]_vars PROVE IInv'
  OBVIOUS
<1>1. CASE UNCHANGED vars
  BY <1>1 DEF vars, serverVars, IInv, Typed, RealSound, PoolSound, TasksSound, CacheSound,
              ListsAreOfTheirSession, UpToDate
<1>2. ASSUME NEW s \in Servers,
             \/ Opens(s) \/ Adopts(s) \/ OpenFails(s)
             \/ SessionGoes(s) \/ LossSeen(s)
             \/ CloseBegins(s) \/ Closed(s) \/ Removed(s)
      PROVE  IInv'
  BY <1>2, OpensInv, AdoptsInv, OpenFailsInv, SessionGoesInv, GoesDownInv, CloseBeginsInv,
     RemovedInv
<1>3. ASSUME NEW s \in Servers,
             \/ \E tools \in Lists[s] : Changes(s, tools)
             \/ Hears(s) \/ Refresh(s) \/ Rediscovery(s)
      PROVE  IInv'
  BY <1>3, ChangesInv, HearsInv, RefreshInv, RediscoversInv, AnswersInv, AppliesInv,
     DiscoverFailsInv DEF Rediscovery
<1> QED
  BY <1>1, <1>2, <1>3, ReadsInv DEF Next

----------------------------------------------------------------------------
(* The theorems *)

\* In every reachable state the pool, the tasks and the caches are what they can be,
\* the index is of the lists as they are and the registry's copy is as good as its
\* version says.
THEOREM CatalogInvariant == Spec => []IInv
  BY Initially, Inductive, PTL DEF Spec

\* What is offered of a connected server was fetched from the connection it has.
THEOREM ListsStayOfTheirSession == Spec => []ListsAreOfTheirSession
<1>1. IInv => ListsAreOfTheirSession
  BY DEF IInv
<1> QED
  BY <1>1, CatalogInvariant, PTL

\* The index and the names that are built from sound lists are as NamesLeadHome
\* wants them.
LEMMA NamesAreRight == IInv => NamesLeadHome
<1> SUFFICES ASSUME IInv PROVE NamesLeadHome
  OBVIOUS
<1>1. Known(m) \subseteq Tools
  BY DEF IInv, Typed, PoolSound, Sound, Known, ToolsOf
<1>2. \A a, b \in Build(m) : a.name = b.name => a = b
  BY <1>1, BuiltDiffer
<1>3. ASSUME NEW a \in Build(m)
      PROVE  a.qualified \in DOMAIN index /\ index[a.qualified] = a.tool
  <2> DEFINE name == [t \in Listed(m) |-> Qualify(t, Known(m))]
             own(t) == Exposed(t, name[t], {name[u] : u \in Listed(m)})
  <2>0. PICK t \in Listed(m) :
            a = [name |-> own(t), qualified |-> name[t], tool |-> t,
                 revision |-> m[t[1]].known.revision]
    BY DEF Build
  <2>1. a.tool = t /\ a.qualified = Qualify(t, Known(m))
    BY <2>0
  <2>2. t \in Known(m)
    BY ListedIsKnown
  <2> QED
    BY <1>1, <2>1, <2>2, IndexLeads DEF IInv, UpToDate
<1> QED
  BY <1>2, <1>3 DEF NamesLeadHome, IInv, UpToDate

\* For any servers, tools and names: a name leads to one tool, and to the tool it
\* stands for; what a reader has under the current version is what is offered.
THEOREM NamesAlwaysLeadHome == Spec => []NamesLeadHome
  BY CatalogInvariant, NamesAreRight, PTL
=============================================================================
