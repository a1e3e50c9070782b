---------------------------- MODULE LangfuseSync ----------------------------
(***************************************************************************)
(* Syncing one finished batch to Langfuse (scripts/langfuse_bridge): the   *)
(* ledger on disk and its lock, one pass of push_batch (connect, experiment*)
(* item traces, scores, triage queue) and the platform at the other end.   *)
(* A pass may be killed at any step; the platform may answer, refuse, or   *)
(* leave a request in doubt.                                               *)
(*                                                                         *)
(* Time is one bit per stamp: Pass makes every stamp old at once, where    *)
(* old means past verify_grace_seconds for a request and past twice the    *)
(* sync budget for a lock, and a request that has been taken in is visible *)
(* by then.                                                                *)
(***************************************************************************)
EXTENDS Naturals, Sequences, FiniteSets, Functions, Folds

CONSTANTS
    Rows,           \* the scenarios of the batch, in the order of run_index.jsonl
    Spans,          \* Spans[row]: the keys of its spans, the root first
    Settings,       \* values of eval_platform: [capture, limit]
    SizeOf(_, _),   \* SizeOf(span, capture): the bytes of a span
    Failed,         \* the rows whose failure kind is one to review
    runner,         \* the run_batch.py that made the batch
    Developers,     \* processes that run langfuse_sync.py
    Projects,       \* projects the keys may name
    None,
    Room,           \* eval_platform.triage_max_items
    MaxAttempts, MaxFaults, MaxChanges,
    Lapses          \* what may go wrong with the timing, a subset of AllLapses

Procs == {runner} \cup Developers
AllLapses == {"attempt", "backoff", "lock", "takeover"}
ASSUME LapsesAssumption == Lapses \subseteq AllLapses

RowSet == Range(Rows)
SpanSet(row) == Range(Spans[row])
Attempts == 1..MaxAttempts

(* A trace has a root, and no two spans with one key.                      *)
ASSUME SpansAssumption ==
    /\ Rows \in Seq(RowSet)
    /\ Failed \subseteq RowSet
    /\ \A r \in RowSet :
          /\ Spans[r] \in Seq(SpanSet(r)) \ {<<>>}
          /\ IsInjective(Spans[r])
ASSUME BoundsAssumption == Room \in Nat /\ MaxAttempts \in Nat \ {0}
ASSUME NoneAssumption ==
    /\ Projects # {}
    /\ None \notin Projects /\ None \notin Settings
    /\ \A p \in Procs, written, old \in BOOLEAN : None # [by |-> p, written |-> written, old |-> old]

VARIABLES
    ledger,     \* platform_sync.json
    mem,        \* the ledger as each process holds it
    lock,       \* platform_sync.lock
    pc,         \* where each process is
    at,         \* the row it is on
    opt,        \* how it was started
    tries,      \* attempts at the lock
    got,        \* spans the platform has taken in: how often each, by project and attempt
    visible,    \* those its observations API shows
    queue,      \* traces in the annotation queue
    settings, project,   \* what the configuration says now
    faults, changes      \* counters that bound the environment

vars == <<ledger, mem, lock, pc, at, opt, tries, got, visible, queue, settings, project,
          faults, changes>>
platform == <<got, visible, queue>>
config == <<settings, project, changes>>

-----------------------------------------------------------------------------
(* The spans of a row cut into request bodies of at most the limit; a lone *)
(* oversize span goes alone.                                               *)
Weight(group, set) ==
    MapThenFoldSet(LAMBDA x, y : x + y, 0, LAMBDA j : SizeOf(group[j], set.capture),
                   LAMBDA S : CHOOSE j \in S : TRUE, DOMAIN group)

(* A span goes into the last body, or into a new one.                      *)
Placed(span, groups, set) ==
    LET group == Append(groups[Len(groups)], span)
    IN IF Len(group) > 1 /\ Weight(group, set) > set.limit
       THEN Append(groups, <<span>>)
       ELSE [groups EXCEPT ![Len(groups)] = group]

SplitTail(seq, set) ==
    LET cut[i \in 0..Len(seq)] ==
            IF i = 0 THEN << <<>> >> ELSE Placed(seq[i], cut[i - 1], set)
    IN cut[Len(seq)]

Split(row, set) == SplitTail(Spans[row], set)

NoItem == [state |-> "pending", sent |-> 0, old |-> FALSE]

EmptyLedger == [state |-> "pending", project |-> None, pinned |-> None, attempt |-> 0,
                items |-> [r \in RowSet |-> NoItem], scores |-> "none", queued |-> {}]

Exported(led, r) == led.items[r].state = "exported"
AllExported(led) == Len(Rows) > 0 /\ \A r \in RowSet : Exported(led, r)

Parts(led, r) == Split(r, led.pinned)

(* What one request can come to, its retries included: a request that must *)
(* not be repeated and may have arrived ends in doubt, any other is retried*)
(* until it is answered or given up.                                       *)
Fates(idempotent) ==
    {[answer |-> "ok", arrived |-> TRUE], [answer |-> "failed", arrived |-> FALSE]}
    \cup IF idempotent THEN {[answer |-> "failed", arrived |-> TRUE]}
         ELSE {[answer |-> "unknown", arrived |-> a] : a \in BOOLEAN}

Fault(fate) ==
    /\ fate.answer # "ok" => faults < MaxFaults
    /\ faults' = IF fate.answer = "ok" THEN faults ELSE faults + 1

-----------------------------------------------------------------------------
Init ==
    /\ ledger = EmptyLedger
    /\ mem = [p \in Procs |-> EmptyLedger]
    /\ lock = None
    /\ pc = [p \in Procs |-> "idle"]
    /\ at = [p \in Procs |-> 1]
    /\ opt = [p \in Procs |-> "rerun"]
    /\ tries = [p \in Procs |-> 0]
    /\ got = [pr \in Projects |-> [a \in Attempts |->
                 [r \in RowSet |-> [s \in SpanSet(r) |-> 0]]]]
    /\ visible = {}
    /\ queue = [r \in RowSet |-> 0]
    /\ settings \in Settings
    /\ project = CHOOSE pr \in Projects : TRUE
    /\ faults = 0
    /\ changes = 0

Goto(p, label) == pc' = [pc EXCEPT ![p] = label]

(* The process is gone: what it held in memory with it.                    *)
Leave(p) ==
    /\ Goto(p, "idle")
    /\ mem' = [mem EXCEPT ![p] = EmptyLedger]
    /\ at' = [at EXCEPT ![p] = 1]
    /\ opt' = [opt EXCEPT ![p] = "rerun"]
    /\ tries' = [tries EXCEPT ![p] = 0]

Hold(p, led) == mem' = [mem EXCEPT ![p] = led]
SaveAs(p, led) == Hold(p, led) /\ ledger' = led

-----------------------------------------------------------------------------
(* push_batch: the lock.                                                   *)

(* run_batch.py syncs at the end of the batch with a deadline ("auto"); a  *)
(* developer runs experiment push later, as it is ("rerun"), with          *)
(* --retry-rejected ("retry") or with --new-attempt ("new").               *)
Push(p, how) ==
    /\ pc[p] = "idle"
    /\ how = "auto" <=> p = runner
    /\ how = "auto" => ledger = EmptyLedger
    /\ how = "new" => ledger.attempt \in 1..(MaxAttempts - 1)
    /\ Goto(p, "lock")
    /\ opt' = [opt EXCEPT ![p] = how]
    /\ UNCHANGED <<ledger, mem, lock, at, tries, platform, config, faults>>

CreateLock(p) ==
    /\ pc[p] = "lock"
    /\ tries[p] < 2
    /\ lock = None
    /\ lock' = [by |-> p, written |-> FALSE, old |-> FALSE]
    /\ Goto(p, "stamp")
    /\ UNCHANGED <<ledger, mem, at, opt, tries, platform, config, faults>>

(* The file exists from os.open; its content follows.                      *)
StampLock(p) ==
    /\ pc[p] = "stamp"
    /\ lock' = IF lock # None /\ lock.by = p THEN [lock EXCEPT !.written = TRUE] ELSE lock
    /\ Goto(p, "load")
    /\ UNCHANGED <<ledger, mem, at, opt, tries, platform, config, faults>>

Held == lock # None /\ pc[lock.by] \notin {"idle", "lock", "unlink"}

(* Old, or unreadable: left by a killed sync. Unless the lapse is allowed, *)
(* nobody looks at the file between its creation and its content.          *)
Unreadable == ~lock.written /\ (Held => "lock" \in Lapses)

\* Mutated: a lock that is old is not taken over.
StaleUnlessOwned == lock # None /\ Unreadable

Stale == lock # None /\ (lock.old \/ Unreadable)

(* Looking at the lock and removing it are two steps; unless the lapse is  *)
(* allowed, nobody else gets in between.                                   *)
FindStale(p) ==
    /\ pc[p] = "lock"
    /\ tries[p] < 2
    /\ Stale
    /\ "takeover" \in Lapses \/ \A q \in Procs : pc[q] # "unlink"
    /\ Goto(p, "unlink")
    /\ UNCHANGED <<ledger, mem, lock, at, opt, tries, platform, config, faults>>

BreakLock(p) ==
    /\ pc[p] = "unlink"
    /\ lock' = None
    /\ Goto(p, "lock")
    /\ tries' = [tries EXCEPT ![p] = @ + 1]
    /\ UNCHANGED <<ledger, mem, at, opt, platform, config, faults>>

FindLocked(p) ==
    /\ pc[p] = "lock"
    /\ \/ tries[p] = 2
       \/ lock # None /\ ~Stale
    /\ Leave(p)
    /\ UNCHANGED <<ledger, lock, platform, config, faults>>

(* A complete ledger is reported, not synced again.                        *)
Load(p) ==
    /\ pc[p] = "load"
    /\ Hold(p, ledger)
    /\ Goto(p, IF ledger.state = "complete" /\ opt[p] \notin {"new", "retry"}
               THEN "release" ELSE "connect")
    /\ UNCHANGED <<ledger, lock, at, opt, tries, platform, config, faults>>

(* The finally of ledger_lock: whoever's lock is there is removed.         *)
Release(p) ==
    /\ pc[p] = "release"
    /\ lock' = None
    /\ Leave(p)
    /\ UNCHANGED <<ledger, platform, config, faults>>

-----------------------------------------------------------------------------
(* _Run.sync                                                               *)

Fail(p, led) ==
    /\ SaveAs(p, [led EXCEPT !.state = "pending"])
    /\ Goto(p, "release")

Resets(p) == opt[p] = "new" /\ mem[p].attempt > 0

(* The attempt this pass works on: the ledger's, the next one, or the      *)
(* first when the ledger names none.                                       *)
Attempt(p) ==
    IF Resets(p) THEN mem[p].attempt + 1
    ELSE IF mem[p].attempt = 0 THEN 1 ELSE mem[p].attempt

Base(p) == IF Resets(p) THEN EmptyLedger ELSE mem[p]

(* The ledger once it names the project and keeps the settings of the first *)
(* pass: a trace is cut the same way in every pass.                         *)
Pinned(p) ==
    [Base(p) EXCEPT !.project = project,
                    !.pinned = IF Base(p).pinned = None THEN settings ELSE Base(p).pinned]

OtherProject(p) == mem[p].project # None /\ mem[p].project # project /\ opt[p] # "new"

(* Health and project are asked before anything is changed.                *)
Unreachable(p) ==
    /\ pc[p] = "connect"
    /\ \E fate \in Fates(TRUE) : fate.answer # "ok" /\ Fault(fate)
    /\ Fail(p, mem[p])
    /\ UNCHANGED <<lock, at, opt, tries, platform, config>>

Refuse(p) ==
    /\ pc[p] = "connect"
    /\ OtherProject(p)
    /\ Goto(p, "release")
    /\ UNCHANGED <<ledger, mem, lock, at, opt, tries, platform, config, faults>>

(* The batch's dataset is pushed and looked up between the reset of the     *)
(* ledger and the naming of the experiment: it may fail in between.        *)
NoDataset(p) ==
    /\ pc[p] = "connect"
    /\ ~OtherProject(p)
    /\ Base(p).attempt = 0
    /\ Resets(p) => "attempt" \in Lapses
    /\ \E fate \in Fates(TRUE) : fate.answer # "ok" /\ Fault(fate)
    /\ Fail(p, Pinned(p))
    /\ UNCHANGED <<lock, at, opt, tries, platform, config>>

Experiment(p) ==
    /\ pc[p] = "connect"
    /\ ~OtherProject(p)
    /\ Attempt(p) \in Attempts
    /\ SaveAs(p, [Pinned(p) EXCEPT !.attempt = Attempt(p)])
    /\ Goto(p, "items")
    /\ UNCHANGED <<lock, at, opt, tries, platform, config, faults>>

-----------------------------------------------------------------------------
(* _export_items: one scenario at a time, recorded before and after.       *)

Row(p) == Rows[at[p]]
Item(p) == mem[p].items[Row(p)]
WithItem(p, item) == [mem[p] EXCEPT !.items[Row(p)] = item]
InDoubt(p) == Item(p).state \in {"unknown", "sending"}
OnItem(p) == pc[p] = "items" /\ at[p] <= Len(Rows)
NextRow(p) == at' = [at EXCEPT ![p] = @ + 1]

SkipItem(p) ==
    /\ OnItem(p)
    /\ Item(p).state = "exported" \/ (InDoubt(p) /\ ~Item(p).old)
    /\ NextRow(p)
    /\ UNCHANGED <<ledger, mem, lock, pc, opt, tries, platform, config, faults>>

Shown(p, span) == <<mem[p].project, mem[p].attempt, Row(p), span>> \in visible

\* Mutated: the part in doubt is taken for sent.
AssumedSent(p) ==
    [Item(p) EXCEPT !.sent = @ + 1, !.old = FALSE,
                    !.state = IF Item(p).sent + 1 >= Len(Parts(mem[p], Row(p))) THEN "exported" ELSE "pending"]

(* The first span of the part in doubt tells whether the part arrived.     *)
Resolved(p) ==
    LET sent == Item(p).sent + IF Shown(p, Parts(mem[p], Row(p))[Item(p).sent + 1][1]) THEN 1 ELSE 0
    IN [Item(p) EXCEPT !.sent = sent,
                       !.old = FALSE,
                       !.state = IF sent >= Len(Parts(mem[p], Row(p))) THEN "exported" ELSE "pending"]

Verify(p) ==
    /\ OnItem(p)
    /\ InDoubt(p)
    /\ Item(p).old
    /\ \E fate \in Fates(TRUE) :
          /\ Fault(fate)
          /\ IF fate.answer = "ok"
             THEN /\ SaveAs(p, WithItem(p, Resolved(p)))
                  /\ UNCHANGED pc
             ELSE Fail(p, mem[p])
    /\ UNCHANGED <<lock, at, opt, tries, platform, config>>

OutOfBudget(p) ==
    /\ OnItem(p)
    /\ Item(p).state = "pending"
    /\ opt[p] = "auto"
    /\ Goto(p, "finish")
    /\ UNCHANGED <<ledger, mem, lock, at, opt, tries, platform, config, faults>>

\* Mutated: the record is only in memory.
AnnounceUnsaved(p) ==
    /\ Hold(p, WithItem(p, [Item(p) EXCEPT !.state = "sending", !.old = FALSE]))
    /\ UNCHANGED ledger

(* The part is on record as being sent before its request is made.         *)
Announce(p) == SaveAs(p, WithItem(p, [Item(p) EXCEPT !.state = "sending", !.old = FALSE]))

StartItem(p) ==
    /\ OnItem(p)
    /\ Item(p).state = "pending"
    /\ Announce(p)
    /\ Goto(p, "request")
    /\ UNCHANGED <<lock, at, opt, tries, platform, config, faults>>

\* The part that is next on record.
Part(p) == Parts(mem[p], Row(p))[Item(p).sent + 1]

TakeIn(p) ==
    got' = [got EXCEPT ![mem[p].project][mem[p].attempt][Row(p)] =
               [s \in DOMAIN @ |-> IF s \in Range(Part(p)) THEN @[s] + 1 ELSE @[s]]]

(* One request. Acknowledged: the part counts as sent. In doubt: the item  *)
(* is left for a later pass and the next one follows. Refused: the pass    *)
(* ends.                                                                   *)
Request(p) ==
    /\ pc[p] = "request"
    /\ \E fate \in Fates(FALSE) :
          /\ Fault(fate)
          /\ IF fate.arrived THEN TakeIn(p) ELSE UNCHANGED got
          /\ \/ /\ fate.answer = "ok"
                /\ Hold(p, WithItem(p, [Item(p) EXCEPT !.sent = @ + 1]))
                /\ Goto(p, "acked")
                /\ UNCHANGED <<ledger, at>>
             \/ /\ fate.answer = "unknown"
                /\ SaveAs(p, WithItem(p, [Item(p) EXCEPT !.state = "unknown"]))
                /\ Goto(p, "items")
                /\ NextRow(p)
             \/ /\ fate.answer = "failed"
                /\ Fail(p, WithItem(p, [Item(p) EXCEPT !.state = "pending", !.old = FALSE]))
                /\ UNCHANGED at
    /\ UNCHANGED <<lock, opt, tries, visible, queue, config>>

NextPart(p) ==
    /\ pc[p] = "acked"
    /\ Item(p).sent < Len(Parts(mem[p], Row(p)))
    /\ Announce(p)
    /\ Goto(p, "request")
    /\ UNCHANGED <<lock, at, opt, tries, platform, config, faults>>

EndItem(p) ==
    /\ pc[p] = "acked"
    /\ Item(p).sent = Len(Parts(mem[p], Row(p)))
    /\ SaveAs(p, WithItem(p, [Item(p) EXCEPT !.state = "exported", !.old = FALSE]))
    /\ Goto(p, "items")
    /\ NextRow(p)
    /\ UNCHANGED <<lock, opt, tries, platform, config, faults>>

EndItems(p) ==
    /\ pc[p] = "items"
    /\ at[p] > Len(Rows)
    /\ Goto(p, IF AllExported(mem[p]) THEN "scores" ELSE "finish")
    /\ UNCHANGED <<ledger, mem, lock, at, opt, tries, platform, config, faults>>

-----------------------------------------------------------------------------
(* _scores: all of them once; after a partial rejection only --retry-      *)
(* rejected sends them again.                                              *)
Settled(p) == mem[p].scores = "posted" \/ (mem[p].scores = "rejected" /\ opt[p] # "retry")

KeepScores(p) ==
    /\ pc[p] = "scores"
    /\ Settled(p)
    /\ Goto(p, "triage")
    /\ UNCHANGED <<ledger, mem, lock, at, opt, tries, platform, config, faults>>

PostScores(p) ==
    /\ pc[p] = "scores"
    /\ ~Settled(p)
    /\ \/ /\ SaveAs(p, [mem[p] EXCEPT !.scores = "posted"])
          /\ Goto(p, "triage")
          /\ UNCHANGED faults
       \/ /\ faults < MaxFaults
          /\ faults' = faults + 1
          /\ \/ /\ SaveAs(p, [mem[p] EXCEPT !.scores = "rejected"])
                /\ Goto(p, "triage")
             \/ Fail(p, mem[p])
    /\ UNCHANGED <<lock, at, opt, tries, platform, config>>

(* _triage: failed scenarios into the annotation queue, one save each.     *)
Candidates(p) == IF Cardinality(mem[p].queued) < Room THEN Failed \ mem[p].queued ELSE {}

Enqueue(p) ==
    /\ pc[p] = "triage"
    /\ \E r \in Candidates(p), fate \in Fates(TRUE) :
          /\ Fault(fate)
          /\ queue' = IF fate.arrived THEN [queue EXCEPT ![r] = @ + 1] ELSE queue
          /\ IF fate.answer = "ok"
             THEN /\ Hold(p, [mem[p] EXCEPT !.queued = @ \cup {r}])
                  /\ Goto(p, "queued")
                  /\ UNCHANGED ledger
             ELSE Fail(p, mem[p])
    /\ UNCHANGED <<lock, at, opt, tries, got, visible, config>>

Enqueued(p) ==
    /\ pc[p] = "queued"
    /\ SaveAs(p, mem[p])
    /\ Goto(p, "triage")
    /\ UNCHANGED <<lock, at, opt, tries, platform, config, faults>>

EndTriage(p) ==
    /\ pc[p] = "triage"
    /\ Candidates(p) = {}
    /\ Goto(p, "finish")
    /\ UNCHANGED <<ledger, mem, lock, at, opt, tries, platform, config, faults>>

Finish(p) ==
    /\ pc[p] = "finish"
    /\ SaveAs(p, [mem[p] EXCEPT !.state =
                     IF AllExported(mem[p]) /\ mem[p].scores = "posted" THEN "complete" ELSE "pending"])
    /\ Goto(p, "release")
    /\ UNCHANGED <<lock, at, opt, tries, platform, config, faults>>

-----------------------------------------------------------------------------
(* The environment.                                                        *)

(* The process is killed: its lock stays.                                  *)
Crash(p) ==
    /\ pc[p] # "idle"
    /\ faults < MaxFaults
    /\ faults' = faults + 1
    /\ Leave(p)
    /\ UNCHANGED <<ledger, lock, platform, config>>

Age(led) ==
    [led EXCEPT !.items = [r \in RowSet |->
        [led.items[r] EXCEPT !.old = led.items[r].state \in {"unknown", "sending"}]]]

(* Time goes by. Unless the lapse is allowed, no request is still being    *)
(* made by then, and no sync outlives twice its budget.                    *)
Pass ==
    /\ "backoff" \notin Lapses => \A p \in Procs : pc[p] # "request"
    /\ ledger' = Age(ledger)
    /\ mem' = [p \in Procs |-> Age(mem[p])]
    /\ lock' = IF lock # None /\ (Held => "lock" \in Lapses) THEN [lock EXCEPT !.old = TRUE] ELSE lock
    /\ visible' = {v \in Projects \X Attempts \X RowSet \X UNION {SpanSet(r) : r \in RowSet} :
                     v[4] \in SpanSet(v[3]) /\ got[v[1]][v[2]][v[3]][v[4]] > 0}
    /\ UNCHANGED <<pc, at, opt, tries, got, queue, config, faults>>

Reconfigure ==
    /\ changes < MaxChanges
    /\ changes' = changes + 1
    /\ \/ settings' \in Settings \ {settings} /\ UNCHANGED project
       \/ project' \in Projects \ {project} /\ UNCHANGED settings
    /\ UNCHANGED <<ledger, mem, lock, pc, at, opt, tries, platform, faults>>

PassStep(p) ==
    \/ CreateLock(p) \/ StampLock(p) \/ FindStale(p) \/ BreakLock(p) \/ FindLocked(p) \/ Load(p) \/ Release(p)
    \/ Unreachable(p) \/ Refuse(p) \/ NoDataset(p) \/ Experiment(p)
    \/ SkipItem(p) \/ Verify(p) \/ OutOfBudget(p) \/ StartItem(p) \/ Request(p) \/ NextPart(p)
    \/ EndItem(p) \/ EndItems(p)
    \/ KeepScores(p) \/ PostScores(p) \/ Enqueue(p) \/ Enqueued(p) \/ EndTriage(p) \/ Finish(p)

Next ==
    \/ \E p \in Procs : PassStep(p) \/ Crash(p) \/ \E how \in {"auto", "rerun", "retry", "new"} : Push(p, how)
    \/ Pass
    \/ Reconfigure

Spec == Init /\ [][Next]_vars

(* Every process keeps going, time goes by, and somebody keeps running     *)
(* experiment push --retry-rejected.                                       *)
FairSpec ==
    /\ Spec
    /\ \A p \in Procs : WF_vars(PassStep(p))
    /\ \A p \in Developers : SF_vars(Push(p, "retry"))
    /\ SF_vars(Pass)

-----------------------------------------------------------------------------
(* Every trace is sent once: whatever is killed, lost or left in doubt, and *)
(* however the settings change, the platform never takes a span in twice.  *)
NothingSentTwice ==
    \A pr \in Projects, a \in Attempts, r \in RowSet :
        \A s \in DOMAIN got[pr][a][r] : got[pr][a][r][s] <= 1

(* A complete ledger is the truth about the platform: every span of every  *)
(* scenario is there, in the project and the attempt the ledger names, and *)
(* as many failed scenarios as fit wait for review.                        *)
CompleteIsWhole ==
    ledger.state = "complete" =>
        /\ \A r \in RowSet : \A s \in DOMAIN got[ledger.project][ledger.attempt][r] :
               got[ledger.project][ledger.attempt][r][s] >= 1
        /\ Cardinality({r \in Failed : queue[r] > 0}) >=
               (IF Cardinality(Failed) < Room THEN Cardinality(Failed) ELSE Room)

(* A killed sync, an outage or a doubt never leaves the batch unsynced for *)
(* good, unless the keys name another project now.                         *)
SyncCompletes ==
    <>[](ledger.state = "complete" \/ ledger.project \notin {None, project})
=============================================================================
