------------------------------ MODULE MemoryStore ------------------------------
(***************************************************************************)
(* Persistent memory (harness/memory_store.py, memory_tool.py,             *)
(* memory_consolidation.py, and the _update_memory of harness/session.py): *)
(* markdown files that the user and the tasks of several processes write,  *)
(* and the trust that an entry of an agent earns by the outcomes of the    *)
(* tasks it was shown to.                                                  *)
(*                                                                         *)
(* An operation of the store is one step: it does not await.  The model    *)
(* call of the consolidation does, and anything may happen meanwhile.      *)
(***************************************************************************)
EXTENDS Naturals, FiniteSets

CONSTANTS
    Agents,     \* sessions that share the memory
    Paths,      \* sites/<domain>.md and procedures/<name>.md
    Covers,     \* the sites, each with the paths whose scope is it or a parent domain
    Promote,    \* memory.promote_after_successes
    StaleAfter, \* memory.stale_after_failures
    MaxEntries, \* memory.consolidation_max_entries
    MaxTasks,   \* bound: tasks that are run
    MaxEdits,   \* bound: edits by the user, writes by the tools, entries that age
    MaxRefusals \* bound: failed writes

ASSUME MemoryAssumption ==
    /\ {Promote, StaleAfter, MaxEntries} \subseteq Nat \ {0}
    /\ {MaxTasks, MaxEdits, MaxRefusals} \subseteq Nat

VARIABLES
    files,   \* what is under the memory directory
    phase,   \* per session: its task's
    loaded,  \* per session: MemoryStore._loaded of its task
    raised,  \* per session: a failure of the memory reached the caller of run_task
    mine,    \* the paths whose last writer was the user
    earned,  \* tasks that succeeded with an entry since its body was written
    tasks, edits, refusals

memoryVars == <<files, phase, loaded, raised, mine, earned, tasks, edits, refusals>>

\* "old": verified_at is longer ago than stale_after_days; "any": its scope is "*".
Entry(source, status, uses, failures) ==
    [source |-> source, status |-> status, uses |-> uses, failures |-> failures,
     old |-> FALSE, any |-> FALSE]
NoFile == Entry("none", "none", 0, 0)
Broken == Entry("broken", "none", 0, 0)

\* What the agent writes, never with the scope "*".
AgentEntry == Entry("agent", "unverified", 0, 0)

\* Counters beyond what is compared are the same.
Capped(n, limit) == IF n > limit THEN limit ELSE n

MemoryTypeOK ==
    /\ files \in [Paths ->
        [source : {"none", "broken", "user", "agent"}, status : {"none", "user", "unverified", "verified", "stale"},
         uses : 0..Promote, failures : 0..StaleAfter, old : BOOLEAN, any : BOOLEAN]]
    /\ phase \in [Agents -> {"idle", "run", "ended", "consolidate"}]
    /\ loaded \in [Agents -> SUBSET Paths]
    /\ raised \in [Agents -> BOOLEAN]
    /\ mine \subseteq Paths
    /\ earned \in [Paths -> 0..Promote]

MemoryInit ==
    /\ files = [f \in Paths |-> NoFile]
    /\ phase = [p \in Agents |-> "idle"]
    /\ loaded = [p \in Agents |-> {}]
    /\ raised = [p \in Agents |-> FALSE]
    /\ mine = {}
    /\ earned = [f \in Paths |-> 0]
    /\ tasks = 0 /\ edits = 0 /\ refusals = 0

Readable(f) == files[f].source \in {"user", "agent"}

\* _with_ttl: the status a reader sees.
Status(f) == IF files[f].status = "verified" /\ files[f].old THEN "stale" ELSE files[f].status

----------------------------------------------------------------------------
(* The user, with an editor *)

UserStep(f, file) ==
    /\ edits < MaxEdits
    /\ edits' = edits + 1
    /\ files' = [files EXCEPT ![f] = file]
    /\ mine' = IF file.source = "user" THEN mine \cup {f} ELSE mine \ {f}
    /\ earned' = [earned EXCEPT ![f] = 0]
    /\ UNCHANGED <<phase, loaded, raised, tasks, refusals>>

\* A file without frontmatter is the user's; one with broken frontmatter is skipped.
UserWrites(f, any) == UserStep(f, [Entry("user", "user", 0, 0) EXCEPT !.any = any])
UserBreaks(f) == UserStep(f, Broken)
UserDeletes(f) == files[f] # NoFile /\ UserStep(f, NoFile)

\* stale_after_days go by.
Ages(f) ==
    /\ files[f].status = "verified"
    /\ ~files[f].old
    /\ edits < MaxEdits
    /\ edits' = edits + 1
    /\ files' = [files EXCEPT ![f].old = TRUE]
    /\ UNCHANGED <<phase, loaded, raised, mine, earned, tasks, refusals>>

----------------------------------------------------------------------------
(* A task *)

BindTask(p) ==
    /\ phase[p] = "idle"
    /\ tasks < MaxTasks
    /\ tasks' = tasks + 1
    /\ phase' = [phase EXCEPT ![p] = "run"]
    /\ raised' = [raised EXCEPT ![p] = FALSE]
    /\ UNCHANGED <<files, loaded, mine, earned, edits, refusals>>

\* entries_for_scope: "*" is the user's only.
EntriesForScope(site) ==
    {f \in Paths : Readable(f) /\ (files[f].any \/ f \in Covers[site])}

TrustOrder == [user |-> 0, verified |-> 1, unverified |-> 2, stale |-> 3]

\* _fit_sections: what does not fit goes, the least trusted first (of two alike, the
\* later path); the body of the last one that stays may be cut.
Fits(shown, scoped) ==
    /\ shown \subseteq scoped
    /\ \A f \in shown, g \in scoped \ shown : TrustOrder[Status(f)] <= TrustOrder[Status(g)]

NoteLoaded(p, shown) == loaded' = [loaded EXCEPT ![p] = @ \cup shown]

\* MemoryContext.render on a page of a site.
Render(p, site, shown) ==
    /\ phase[p] = "run"
    /\ Fits(shown, EntriesForScope(site))
    /\ NoteLoaded(p, shown)
    /\ UNCHANGED <<files, phase, raised, mine, earned, tasks, edits, refusals>>

\* Who may write: nobody over the user's file, nobody over an unreadable one.
Writable(f) == files[f].source \in {"none", "agent"}

\* Mutated: the counters stay.
ReplacedKeepsTrust(entry) == [entry EXCEPT !.status = "unverified", !.old = FALSE]

\* str_replace takes the counters back with the body.
Replaced(entry) == AgentEntry

\* delete takes the agent's only.
Deletable(f) == files[f].source = "agent"

\* memory_write: create, str_replace or delete of an entry of the agent's.
MemoryWrite(p, f, command) ==
    /\ phase[p] = "run"
    /\ edits < MaxEdits
    /\ edits' = edits + 1
    /\ CASE command = "create" -> Writable(f)
         [] command = "str_replace" -> files[f].source = "agent"
         [] command = "delete" -> Deletable(f)
    /\ files' = [files EXCEPT ![f] =
            CASE command = "create" -> AgentEntry
              [] command = "str_replace" -> Replaced(@)
              [] command = "delete" -> NoFile]
    /\ earned' = [earned EXCEPT ![f] = 0]
    /\ UNCHANGED <<phase, loaded, raised, mine, tasks, refusals>>

----------------------------------------------------------------------------
(* What the outcome of a task does *)

\* _outcome
Outcome(entry, status) ==
    LET uses == Capped(entry.uses + 1, Promote)
        failures == Capped(entry.failures + 1, StaleAfter)
        done == [entry EXCEPT !.uses = uses, !.failures = 0]
    IN  CASE status = "done" /\ entry.status = "stale" -> Entry("agent", "unverified", 1, 0)
          [] status = "done" /\ entry.status = "unverified" /\ uses >= Promote ->
                [done EXCEPT !.status = "verified"]
          [] status = "done" /\ entry.status = "verified" -> [done EXCEPT !.old = FALSE]
          [] status = "done" /\ entry.status = "unverified" /\ uses < Promote -> done
          [] status = "blocked" /\ failures >= StaleAfter ->
                [entry EXCEPT !.status = "stale", !.failures = failures, !.old = FALSE]
          [] status = "blocked" /\ failures < StaleAfter -> [entry EXCEPT !.failures = failures]

\* _forget_memory
Forget(p) == loaded' = [loaded EXCEPT ![p] = {}]

\* The goal was cancelled or raised: no outcome.
GoalBreaks(p) ==
    /\ phase[p] = "run"
    /\ phase' = [phase EXCEPT ![p] = "idle"]
    /\ Forget(p)
    /\ UNCHANGED <<files, raised, mine, earned, tasks, edits, refusals>>

\* record_outcome, for the entries that are still the agent's; a write that fails
\* leaves the rest as it was, and is only reported.
RecordOutcome(p, status, written) ==
    LET own == {f \in loaded[p] : files[f].source = "agent"}
        kept == IF status = "cancelled" THEN {} ELSE written
    IN  /\ phase[p] = "run"
        /\ written \subseteq own
        /\ \/ written = own /\ UNCHANGED refusals
           \/ status # "cancelled" /\ written # own /\ refusals < MaxRefusals /\ refusals' = refusals + 1
        /\ files' = [f \in Paths |-> IF f \in kept THEN Outcome(files[f], status) ELSE files[f]]
        /\ earned' = [f \in Paths |->
                IF f \in kept /\ status = "done" THEN Capped(earned[f] + 1, Promote) ELSE earned[f]]
        /\ loaded' = [loaded EXCEPT ![p] = {}]
        /\ phase' = [phase EXCEPT ![p] = IF status = "done" THEN "ended" ELSE "idle"]
        /\ UNCHANGED <<raised, mine, tasks, edits>>

\* consolidate_on_goal_end is on: the model is asked, with the index and the bodies.
AskModel(p) ==
    /\ phase[p] = "ended"
    /\ phase' = [phase EXCEPT ![p] = "consolidate"]
    /\ UNCHANGED <<files, loaded, raised, mine, earned, tasks, edits, refusals>>

\* It is off; or the model fails, takes too long, or is cancelled.
NoConsolidation(p) ==
    /\ phase[p] \in {"ended", "consolidate"}
    /\ phase' = [phase EXCEPT ![p] = "idle"]
    /\ Forget(p)
    /\ UNCHANGED <<files, raised, mine, earned, tasks, edits, refusals>>

\* What a consolidation may write over: not the user's and not what is verified.
Proposable(f) == Writable(f) /\ Status(f) \notin {"user", "verified"}

\* create with keep_trust
Merged(entry) == Entry("agent", "unverified", entry.uses, entry.failures)

\* The answer: each proposal is looked at when it is written, one that is refused is
\* reported, one that the disk refuses ends the rest with an exception.
Consolidate(p, proposals, written) ==
    LET allowed == {f \in proposals : Proposable(f)}
    IN  /\ phase[p] = "consolidate"
        /\ Cardinality(proposals) <= MaxEntries
        /\ written \subseteq allowed
        /\ \/ written = allowed /\ UNCHANGED <<refusals, raised>>
           \/ /\ written # allowed
              /\ refusals < MaxRefusals
              /\ refusals' = refusals + 1
              /\ raised' = [raised EXCEPT ![p] = TRUE]
        /\ files' = [f \in Paths |-> IF f \in written THEN Merged(files[f]) ELSE files[f]]
        /\ phase' = [phase EXCEPT ![p] = "idle"]
        /\ Forget(p)
        /\ UNCHANGED <<mine, earned, tasks, edits>>

MemoryNext ==
    \/ \E f \in Paths : UserBreaks(f) \/ UserDeletes(f) \/ Ages(f) \/ \E any \in BOOLEAN : UserWrites(f, any)
    \/ \E p \in Agents :
        \/ BindTask(p) \/ GoalBreaks(p) \/ AskModel(p) \/ NoConsolidation(p)
        \/ \E S \in SUBSET Paths :
            \/ \E site \in DOMAIN Covers : Render(p, site, S)
            \/ \E status \in {"done", "blocked", "cancelled"} : RecordOutcome(p, status, S)
            \/ \E T \in SUBSET S : Consolidate(p, S, T)
        \/ \E f \in Paths, command \in {"create", "str_replace", "delete"} : MemoryWrite(p, f, command)

MemorySpec == MemoryInit /\ [][MemoryNext]_memoryVars

----------------------------------------------------------------------------
\* Whatever the tasks of all sessions write, what the user wrote stays the user's.
UserEntriesStay == \A f \in mine : files[f].source = "user"

\* An entry is verified only after so many tasks succeeded that were shown what is
\* in it (a consolidation merges into it and lets them count).
VerifiedIsEarned ==
    \A f \in Paths : files[f].status = "verified" => earned[f] >= Promote

\* What a task loaded is gone with the task, however it ended: a later outcome
\* never counts for it.
NothingLeftLoaded == \A p \in Agents : phase[p] # "run" => loaded[p] = {}

\* A memory can be trusted as it says: what is the user's was written by the user, what
\* is verified was earned, by tasks that ended.
TrustIsEarned == UserEntriesStay /\ VerifiedIsEarned /\ NothingLeftLoaded
=============================================================================
