----------------------------- MODULE RecordsProofs -----------------------------
(***************************************************************************)
(* What SessionFiles promises, for any number of processes, sessions and   *)
(* tasks, and any number of kills and failed writes; and what MemoryStore  *)
(* promises, for any number of sessions, files, sites and outcomes, and    *)
(* for every threshold of the settings.                                    *)
(*                                                                         *)
(* DialogueIsRecorded and OutcomesStay are not inductive: what a save      *)
(* leaves on disk depends on what its process has in memory.  Holds says   *)
(* that a process that works on a session has its lock; Agrees, what its   *)
(* copy has of the outcomes on disk; and that tasks.json is written before *)
(* state.json.                                                             *)
(*                                                                         *)
(* TrustIsEarned is not inductive: a consolidation keeps the counters of   *)
(* what it merges, and what has gone stale may be merged.  Fair says that  *)
(* no entry, whatever its status, counts more uses than its body earned.   *)
(*                                                                         *)
(* And what History promises, for any tools, ids, sizes and settings of    *)
(* the memory, and any chain of hooks.  SentIsPaired, NewestStay and       *)
(* MaskedStays are about what is sent and kept; Well says what every       *)
(* history is between two steps (a result right behind its call, nothing   *)
(* done before it was asked for, digests first, nothing shrunk but for     *)
(* newer outputs), and Story which tasks it tells of.  The recursions of   *)
(* the model are unrolled by Recursion, and what holds along them is found *)
(* by the least number at which it would not.                              *)
(*                                                                         *)
(* And that of Batch HistoryKeepsNewest, for any scenarios, versions,      *)
(* modes and errors, and any number of batches, kills and rows.  The       *)
(* history alone does not tell what it gave up: HistoryIsNewest names it,  *)
(* as what was written before what is left, and Runs says what the folder  *)
(* of a batch says meanwhile, so that one that was killed never reads as   *)
(* finished.                                                               *)
(***************************************************************************)
EXTENDS SessionFiles, MemoryStore, History, Batch, TLAPS, WellFoundedInduction,
        FiniteSetTheorems, SequenceTheorems

-----------------------------------------------------------------------------
(* The files of a session.                                                 *)

\* The fields of a context and of a directory.
Context(at, session, recorded, dialogue, number, left) ==
    [at |-> at, session |-> session, tasks |-> recorded, dialogue |-> dialogue,
     number |-> number, left |-> left]

IsContext(c) == c = Context(c.at, c.session, c.tasks, c.dialogue, c.number, c.left)

Directory(session, recorded, state, tail, cut) ==
    [session |-> session, tasks |-> recorded, state |-> state, tail |-> tail, cut |-> cut]

IsDirectory(d) == d = Directory(d.session, d.tasks, d.state, d.tail, d.cut)

\* Each task of a dialogue is recorded as completed.
Tells(dialogue, recorded) ==
    \A t \in dialogue : t \in DOMAIN recorded /\ recorded[t] = "completed"

\* The outcomes of an older record of the tasks are in the newer one.
Keeps(older, newer) ==
    \A t \in DOMAIN older :
        older[t] # "running" => t \in DOMAIN newer /\ newer[t] = older[t]

Saves == {"start", "begin", "finish", "close"}
Works == {"open", "idle", "run"} \cup Saves

\* What process p knows of the locks.
Holds(p, c, locks) ==
    c.at \in Works \cup {"probing"} => c.session \in Sessions /\ locks[c.session] = p

\* A session that p has looked at can still be resumed: its files stay.
Seen(c, dirs) ==
    c.at \in {"probing", "probed"} =>
        /\ c.session \in Sessions
        /\ dirs[c.session].state # None

\* What p holds in memory, and what it has written of it; started: the tasks there were.
Agrees(c, d, started) ==
    /\ c.dialogue \subseteq Tasks
    /\ DOMAIN c.tasks \subseteq started
    /\ Tells(c.dialogue, c.tasks)
    /\ d.tasks # None \/ d.state # None => Keeps(d.tasks, c.tasks)
    /\ c.left = <<"state">> => d.tasks = c.tasks

\* A process, under its lock or waiting for it.
Sound(p, c, dirs, locks, started) ==
    /\ IsContext(c)
    /\ c.at \in {"none", "probing", "probed"} \cup Works
    /\ c.left \in {<<>>, <<"state">>, <<"tasks", "state">>, Files}
    /\ c.at \notin Saves => c.left = <<>>
    /\ c.at = "none" => c = Gone
    /\ Holds(p, c, locks)
    /\ Seen(c, dirs)
    /\ c.at \in Works => Agrees(c, dirs[c.session], started)

\* A directory: the stored dialogue tells of completed tasks.
Stored(d, started) ==
    /\ IsDirectory(d)
    /\ d.tasks # None \/ d.state # None => DOMAIN d.tasks \subseteq started
    /\ d.state # None => d.state \subseteq Tasks /\ Tells(d.state, d.tasks)

IInv ==
    /\ disk = [s \in Sessions |-> disk[s]]
    /\ proc = [p \in Procs |-> proc[p]]
    /\ lock \in [Sessions -> Procs \cup {None}]
    /\ \A s \in Sessions : Stored(disk[s], used)
    /\ \A p \in Procs : Sound(p, proc[p], disk, lock, used)

\* The fields of a context.
LEMMA ContextFields ==
    ASSUME NEW at, NEW session, NEW recorded, NEW dialogue, NEW number, NEW left, NEW c,
           c = Context(at, session, recorded, dialogue, number, left)
    PROVE  /\ IsContext(c)
           /\ c.at = at /\ c.session = session /\ c.tasks = recorded
           /\ c.dialogue = dialogue /\ c.number = number /\ c.left = left
  BY DEF Context, IsContext

\* An update of one field of a context: the other fields stay.
LEMMA SetField ==
    ASSUME NEW c, IsContext(c), NEW v
    PROVE  /\ [c EXCEPT !.at = v] = Context(v, c.session, c.tasks, c.dialogue, c.number, c.left)
           /\ [c EXCEPT !.session = v] = Context(c.at, v, c.tasks, c.dialogue, c.number, c.left)
           /\ [c EXCEPT !.tasks = v] = Context(c.at, c.session, v, c.dialogue, c.number, c.left)
           /\ [c EXCEPT !.dialogue = v] = Context(c.at, c.session, c.tasks, v, c.number, c.left)
           /\ [c EXCEPT !.number = v] = Context(c.at, c.session, c.tasks, c.dialogue, v, c.left)
           /\ [c EXCEPT !.left = v] = Context(c.at, c.session, c.tasks, c.dialogue, c.number, v)
<1>0. DOMAIN c = {"at", "session", "tasks", "dialogue", "number", "left"}
  BY DEF IsContext, Context
<1>1. [c EXCEPT !.at = v] = Context(v, c.session, c.tasks, c.dialogue, c.number, c.left)
  BY <1>0 DEF IsContext, Context
<1>2. [c EXCEPT !.session = v] = Context(c.at, v, c.tasks, c.dialogue, c.number, c.left)
  BY <1>0 DEF IsContext, Context
<1>3. [c EXCEPT !.tasks = v] = Context(c.at, c.session, v, c.dialogue, c.number, c.left)
  BY <1>0 DEF IsContext, Context
<1>4. [c EXCEPT !.dialogue = v] = Context(c.at, c.session, c.tasks, v, c.number, c.left)
  BY <1>0 DEF IsContext, Context
<1>5. [c EXCEPT !.number = v] = Context(c.at, c.session, c.tasks, c.dialogue, v, c.left)
  BY <1>0 DEF IsContext, Context
<1>6. [c EXCEPT !.left = v] = Context(c.at, c.session, c.tasks, c.dialogue, c.number, v)
  BY <1>0 DEF IsContext, Context
<1> QED
  BY <1>1, <1>2, <1>3, <1>4, <1>5, <1>6

(* The updates of several fields that the operations make. *)

\* Opening a session, or looking at it.
LEMMA SetsSession ==
    ASSUME NEW c, IsContext(c), NEW at, NEW session
    PROVE  [c EXCEPT !.at = at, !.session = session]
                = Context(at, session, c.tasks, c.dialogue, c.number, c.left)
<1> DEFINE c1 == [c EXCEPT !.at = at]
<1>1. c1 = Context(at, c.session, c.tasks, c.dialogue, c.number, c.left)
  BY SetField
<1> HIDE DEF c1
<1>2. IsContext(c1)
  BY <1>1, ContextFields
<1>3. [c1 EXCEPT !.session = session] = Context(c1.at, session, c1.tasks, c1.dialogue, c1.number, c1.left)
  BY <1>2, SetField
<1>4. [c1 EXCEPT !.session = session] = Context(at, session, c.tasks, c.dialogue, c.number, c.left)
  BY <1>3, <1>1, ContextFields
<1> QED
  BY <1>4 DEF c1

\* A save begins, or is given up.
LEMMA SetsLeft ==
    ASSUME NEW c, IsContext(c), NEW at, NEW left
    PROVE  [c EXCEPT !.at = at, !.left = left]
                = Context(at, c.session, c.tasks, c.dialogue, c.number, left)
<1> DEFINE c1 == [c EXCEPT !.at = at]
<1>1. c1 = Context(at, c.session, c.tasks, c.dialogue, c.number, c.left)
  BY SetField
<1> HIDE DEF c1
<1>2. IsContext(c1)
  BY <1>1, ContextFields
<1>3. [c1 EXCEPT !.left = left] = Context(c1.at, c1.session, c1.tasks, c1.dialogue, c1.number, left)
  BY <1>2, SetField
<1>4. [c1 EXCEPT !.left = left] = Context(at, c.session, c.tasks, c.dialogue, c.number, left)
  BY <1>3, <1>1, ContextFields
<1> QED
  BY <1>4 DEF c1

\* A task ends.
LEMMA SetsOutcome ==
    ASSUME NEW c, IsContext(c), NEW recorded, NEW dialogue
    PROVE  [c EXCEPT !.tasks = recorded, !.dialogue = dialogue]
                = Context(c.at, c.session, recorded, dialogue, c.number, c.left)
<1> DEFINE c1 == [c EXCEPT !.tasks = recorded]
<1>1. c1 = Context(c.at, c.session, recorded, c.dialogue, c.number, c.left)
  BY SetField
<1> HIDE DEF c1
<1>2. IsContext(c1)
  BY <1>1, ContextFields
<1>3. [c1 EXCEPT !.dialogue = dialogue] = Context(c1.at, c1.session, c1.tasks, dialogue, c1.number, c1.left)
  BY <1>2, SetField
<1>4. [c1 EXCEPT !.dialogue = dialogue] = Context(c.at, c.session, recorded, dialogue, c.number, c.left)
  BY <1>3, <1>1, ContextFields
<1> QED
  BY <1>4 DEF c1

\* A task that could not be recorded is taken back.
LEMMA SetsRecord ==
    ASSUME NEW c, IsContext(c), NEW at, NEW left, NEW recorded
    PROVE  [c EXCEPT !.at = at, !.left = left, !.tasks = recorded]
                = Context(at, c.session, recorded, c.dialogue, c.number, left)
<1> DEFINE c1 == [c EXCEPT !.at = at]
<1> DEFINE c2 == [c1 EXCEPT !.left = left]
<1>1. c1 = Context(at, c.session, c.tasks, c.dialogue, c.number, c.left)
  BY SetField
<1>2. c2 = Context(at, c.session, c.tasks, c.dialogue, c.number, left)
  <2> HIDE DEF c1
  <2>1. IsContext(c1)
    BY <1>1, ContextFields
  <2>2. c2 = Context(c1.at, c1.session, c1.tasks, c1.dialogue, c1.number, left)
    BY <2>1, SetField
  <2> QED
    BY <2>2, <1>1, ContextFields
<1> HIDE DEF c2
<1>3. IsContext(c2)
  BY <1>2, ContextFields
<1>4. [c2 EXCEPT !.tasks = recorded] = Context(c2.at, c2.session, recorded, c2.dialogue, c2.number, c2.left)
  BY <1>3, SetField
<1>5. [c2 EXCEPT !.tasks = recorded] = Context(at, c.session, recorded, c.dialogue, c.number, left)
  BY <1>4, <1>2, ContextFields
<1> QED
  BY <1>5 DEF c1, c2

\* A session is resumed.
LEMMA SetsRestored ==
    ASSUME NEW c, IsContext(c), NEW at, NEW recorded, NEW dialogue, NEW number
    PROVE  [c EXCEPT !.at = at, !.tasks = recorded, !.dialogue = dialogue, !.number = number]
                = Context(at, c.session, recorded, dialogue, number, c.left)
<1> DEFINE c1 == [c EXCEPT !.at = at]
<1> DEFINE c2 == [c1 EXCEPT !.tasks = recorded]
<1> DEFINE c3 == [c2 EXCEPT !.dialogue = dialogue]
<1>1. c1 = Context(at, c.session, c.tasks, c.dialogue, c.number, c.left)
  BY SetField
<1>2. c2 = Context(at, c.session, recorded, c.dialogue, c.number, c.left)
  <2> HIDE DEF c1
  <2>1. IsContext(c1)
    BY <1>1, ContextFields
  <2>2. c2 = Context(c1.at, c1.session, recorded, c1.dialogue, c1.number, c1.left)
    BY <2>1, SetField
  <2> QED
    BY <2>2, <1>1, ContextFields
<1>3. c3 = Context(at, c.session, recorded, dialogue, c.number, c.left)
  <2> HIDE DEF c2
  <2>1. IsContext(c2)
    BY <1>2, ContextFields
  <2>2. c3 = Context(c2.at, c2.session, c2.tasks, dialogue, c2.number, c2.left)
    BY <2>1, SetField
  <2> QED
    BY <2>2, <1>2, ContextFields
<1> HIDE DEF c3
<1>4. IsContext(c3)
  BY <1>3, ContextFields
<1>5. [c3 EXCEPT !.number = number] = Context(c3.at, c3.session, c3.tasks, c3.dialogue, number, c3.left)
  BY <1>4, SetField
<1>6. [c3 EXCEPT !.number = number] = Context(at, c.session, recorded, dialogue, number, c.left)
  BY <1>5, <1>3, ContextFields
<1> QED
  BY <1>6 DEF c1, c2, c3

\* An update of one field of a directory.
LEMMA SetFile ==
    ASSUME NEW d, IsDirectory(d), NEW v
    PROVE  /\ [d EXCEPT !.session = v] = Directory(v, d.tasks, d.state, d.tail, d.cut)
           /\ [d EXCEPT !.tasks = v] = Directory(d.session, v, d.state, d.tail, d.cut)
           /\ [d EXCEPT !.state = v] = Directory(d.session, d.tasks, v, d.tail, d.cut)
           /\ [d EXCEPT !.tail = v] = Directory(d.session, d.tasks, d.state, v, d.cut)
           /\ [d EXCEPT !.cut = v] = Directory(d.session, d.tasks, d.state, d.tail, v)
<1>0. DOMAIN d = {"session", "tasks", "state", "tail", "cut"}
  BY DEF IsDirectory, Directory
<1>1. [d EXCEPT !.session = v] = Directory(v, d.tasks, d.state, d.tail, d.cut)
  BY <1>0 DEF IsDirectory, Directory
<1>2. [d EXCEPT !.tasks = v] = Directory(d.session, v, d.state, d.tail, d.cut)
  BY <1>0 DEF IsDirectory, Directory
<1>3. [d EXCEPT !.state = v] = Directory(d.session, d.tasks, v, d.tail, d.cut)
  BY <1>0 DEF IsDirectory, Directory
<1>4. [d EXCEPT !.tail = v] = Directory(d.session, d.tasks, d.state, v, d.cut)
  BY <1>0 DEF IsDirectory, Directory
<1>5. [d EXCEPT !.cut = v] = Directory(d.session, d.tasks, d.state, d.tail, v)
  BY <1>0 DEF IsDirectory, Directory
<1> QED
  BY <1>1, <1>2, <1>3, <1>4, <1>5

\* The files of a directory.
LEMMA DirectoryFields ==
    ASSUME NEW session, NEW recorded, NEW state, NEW tail, NEW cut, NEW d,
           d = Directory(session, recorded, state, tail, cut)
    PROVE  /\ IsDirectory(d)
           /\ d.session = session /\ d.tasks = recorded /\ d.state = state
           /\ d.tail = tail /\ d.cut = cut
  BY DEF Directory, IsDirectory

\* The same tasks.json and state.json.
Alike(d, e) == IsDirectory(e) /\ e.tasks = d.tasks /\ e.state = d.state

\* A line of the event log, whole or torn, leaves the other files alone.
LEMMA LogOnly ==
    ASSUME NEW d, IsDirectory(d), NEW n, NEW ok
    PROVE  Alike(d, Appended(d, n)) /\ Alike(d, TornLine(d, n, ok))
<1>1. ASSUME NEW e, IsDirectory(e), NEW v, NEW b
      PROVE  Alike(e, [e EXCEPT !.tail = v, !.cut = b])
  <2> DEFINE e1 == [e EXCEPT !.tail = v]
  <2>1. e1 = Directory(e.session, e.tasks, e.state, v, e.cut)
    BY <1>1, SetFile
  <2> HIDE DEF e1
  <2>2. IsDirectory(e1) /\ e1.tasks = e.tasks /\ e1.state = e.state
    BY <2>1, DirectoryFields
  <2>3. [e1 EXCEPT !.cut = b] = Directory(e1.session, e1.tasks, e1.state, e1.tail, b)
    BY <2>2, SetFile
  <2>4. Alike(e, [e1 EXCEPT !.cut = b])
    <3> DEFINE e2 == [e1 EXCEPT !.cut = b]
    <3> HIDE DEF e2
    <3>1. IsDirectory(e2) /\ e2.tasks = e1.tasks /\ e2.state = e1.state
      BY <2>3, DirectoryFields DEF e2
    <3>2. Alike(e, e2)
      BY <3>1, <2>2 DEF Alike
    <3> QED
      BY <3>2 DEF e2
  <2> QED
    BY <2>4 DEF e1
<1>2. Alike(d, Appended(d, n))
  BY <1>1 DEF Appended
<1> DEFINE a == Appended(d, n)
           last == Len(a.tail)
           tail == [a.tail EXCEPT ![last] = [a.tail[last] EXCEPT !.ok = ok /\ ~d.cut]]
<1>3. TornLine(d, n, ok) = [a EXCEPT !.tail = tail, !.cut = TRUE]
  BY DEF TornLine
<1> HIDE DEF a, tail
<1>4. IsDirectory(a)
  BY <1>2 DEF a, Alike
<1>5. Alike(a, [a EXCEPT !.tail = tail, !.cut = TRUE])
  BY <1>1, <1>4
<1>6. Alike(a, TornLine(d, n, ok))
  BY <1>3, <1>5
<1> QED
  BY <1>2, <1>6 DEF a, Alike

\* A process does not notice what others do to sessions that it does not hold, nor a
\* line of the log; a state.json that it saw stays.
LEMMA OthersStaySound ==
    ASSUME IInv, NEW q \in Procs,
           proc[q].at \in Works \cup {"probing"} =>
               /\ lock'[proc[q].session] = q
               /\ Alike(disk[proc[q].session], disk'[proc[q].session]),
           \A s \in Sessions : disk[s].state # None => disk'[s].state # None,
           used \subseteq used'
    PROVE  Sound(q, proc[q], disk', lock', used')
  BY DEF IInv, Sound, Holds, Seen, Agrees, Alike, Works, Saves

\* A step of p: what is to be shown is that p is sound, that the directories are, and
\* that p let the sessions of the others alone.
LEMMA OneProcess ==
    ASSUME IInv, NEW p \in Procs, NEW c, Becomes(p, c), Sound(p, c, disk', lock', used'),
           disk' = [s \in Sessions |-> disk'[s]], lock' \in [Sessions -> Procs \cup {None}],
           \A s \in Sessions : Stored(disk'[s], used'),
           \A s \in Sessions : disk[s].state # None => disk'[s].state # None,
           used \subseteq used',
           \A q \in Procs \ {p} : proc[q].at \in Works \cup {"probing"} =>
               /\ lock'[proc[q].session] = q
               /\ Alike(disk[proc[q].session], disk'[proc[q].session])
    PROVE  IInv'
<1>1. proc' = [q \in Procs |-> IF q = p THEN c ELSE proc[q]]
  BY DEF Becomes, IInv
<1>2. ASSUME NEW q \in Procs PROVE Sound(q, proc'[q], disk', lock', used')
  <2>1. CASE q = p
    BY <2>1, <1>1
  <2>2. CASE q # p
    BY <2>2, <1>1, OthersStaySound
  <2> QED
    BY <2>1, <2>2
<1> QED
  BY <1>1, <1>2 DEF IInv

\* A process that works on a session is the only one.
LEMMA OneHolder ==
    ASSUME IInv, NEW p \in Procs, NEW q \in Procs \ {p},
           proc[p].at \in Works \cup {"probing"}, proc[q].at \in Works \cup {"probing"}
    PROVE  proc[p].session # proc[q].session
  BY DEF IInv, Sound, Holds

\* Nobody works on a session whose lock is free.
LEMMA FreeIsUnheld ==
    ASSUME IInv, NEW s, lock[s] = None
    PROVE  \A q \in Procs : proc[q].at \in Works \cup {"probing"} => proc[q].session # s
<1>1. \A q \in Procs : proc[q].at \in Works \cup {"probing"} => lock[proc[q].session] = q
  BY DEF IInv, Sound, Holds
<1>2. None \notin Procs
  BY FilesAssumption
<1> QED
  BY <1>1, <1>2

\* A step that writes nothing but a line of a log.
SameFiles ==
    /\ disk' = [s \in Sessions |-> disk'[s]]
    /\ \A s \in Sessions : Alike(disk[s], disk'[s])

LEMMA Unwritten ==
    ASSUME IInv, UNCHANGED disk
    PROVE  SameFiles
  BY DEF SameFiles, IInv, Stored, Alike

LEMMA LogLine ==
    ASSUME IInv, NEW s \in Sessions, NEW e, Alike(disk[s], e), disk' = [disk EXCEPT ![s] = e]
    PROVE  SameFiles
  BY DEF SameFiles, IInv, Stored, Alike

LEMMA SameIsStored ==
    ASSUME IInv, SameFiles, used \subseteq used'
    PROVE  /\ \A s \in Sessions : Stored(disk'[s], used')
           /\ \A s \in Sessions : disk[s].state # None => disk'[s].state # None
  BY DEF IInv, SameFiles, Stored, Alike

LEMMA SameIsSound ==
    ASSUME SameFiles, NEW p, NEW c, NEW locks, NEW started, Sound(p, c, disk, locks, started)
    PROVE  Sound(p, c, disk', locks, started)
<1>1. c.at \in Works \cup {"probing", "probed"} => c.session \in Sessions
  BY DEF Sound, Holds, Seen
<1> QED
  BY <1>1 DEF SameFiles, Sound, Seen, Agrees, Alike

\* A step that touches neither the files nor the locks.
LEMMA InMemory ==
    ASSUME IInv, NEW p \in Procs, NEW c, Becomes(p, c), SameFiles, UNCHANGED lock,
           used \subseteq used', Sound(p, c, disk, lock, used')
    PROVE  IInv'
<1>1. \A q \in Procs : proc[q].at \in Works \cup {"probing"} =>
          proc[q].session \in Sessions /\ lock'[proc[q].session] = q
  BY DEF IInv, Sound, Holds
<1>2. lock' \in [Sessions -> Procs \cup {None}]
  BY DEF IInv
<1>3. Sound(p, c, disk', lock', used')
  BY SameIsSound
<1> QED
  BY <1>1, <1>2, <1>3, SameIsStored, OneProcess DEF SameFiles

\* A step that lets go of the lock of the process, or of nothing.
LEMMA LetsGo ==
    ASSUME IInv, NEW p \in Procs, Becomes(p, Gone), SameFiles, UNCHANGED used,
           \/ UNCHANGED lock
           \/ /\ proc[p].at \in Works \cup {"probing"}
              /\ lock' = [lock EXCEPT ![proc[p].session] = None]
           \/ lock' = [s \in Sessions |-> IF lock[s] = p THEN None ELSE lock[s]]
    PROVE  IInv'
<1>1. Sound(p, Gone, disk', lock', used')
  BY DEF Sound, Gone, IsContext, Context, Holds, Seen, Works, Saves
<1>2. ASSUME NEW q \in Procs \ {p}, proc[q].at \in Works \cup {"probing"}
      PROVE  lock'[proc[q].session] = q /\ Alike(disk[proc[q].session], disk'[proc[q].session])
  <2>1. proc[q].session \in Sessions /\ lock[proc[q].session] = q
    BY <1>2 DEF IInv, Sound, Holds
  <2>2. lock'[proc[q].session] = q
    BY <2>1, <1>2, OneHolder, FilesAssumption DEF IInv
  <2> QED
    BY <2>1, <2>2 DEF SameFiles
<1>3. lock' \in [Sessions -> Procs \cup {None}]
  BY DEF IInv
<1> QED
  BY <1>1, <1>2, <1>3, SameIsStored, OneProcess DEF SameFiles

\* The directories of the first state hold nothing, and nobody works.
LEMMA Initially == Init => IInv
<1> SUFFICES ASSUME Init PROVE IInv
  OBVIOUS
<1>1. ASSUME NEW s \in Sessions PROVE Stored(disk[s], used)
  <2>1. disk[s] = NewDirectory
    BY DEF Init
  <2>2. Stored(NewDirectory, used)
    BY DEF Stored, NewDirectory, IsDirectory, Directory
  <2> QED
    BY <2>1, <2>2
<1>2. ASSUME NEW p \in Procs PROVE Sound(p, proc[p], disk, lock, used)
  <2>1. proc[p] = Gone
    BY DEF Init
  <2>2. Sound(p, Gone, disk, lock, used)
    BY DEF Sound, Gone, IsContext, Context, Holds, Seen, Works, Saves
  <2> QED
    BY <2>1, <2>2
<1> QED
  BY <1>1, <1>2 DEF IInv, Init

----------------------------------------------------------------------------
(* One lemma per action of Next *)

\* A step that takes the lock of a session nobody works on.
LEMMA TakesLock ==
    ASSUME IInv, NEW p \in Procs, NEW s \in Sessions, NEW c, Becomes(p, c),
           UNCHANGED <<disk, used>>, lock' = [lock EXCEPT ![s] = p], Sound(p, c, disk, lock', used'),
           \A q \in Procs \ {p} :
               proc[q].at \in Works \cup {"probing"} => proc[q].session # s
    PROVE  IInv'
<1>1. ASSUME NEW q \in Procs \ {p}, proc[q].at \in Works \cup {"probing"}
      PROVE  lock'[proc[q].session] = q /\ Alike(disk[proc[q].session], disk'[proc[q].session])
  <2>1. proc[q].session \in Sessions /\ lock[proc[q].session] = q /\ proc[q].session # s
    BY <1>1 DEF IInv, Sound, Holds
  <2> QED
    BY <2>1 DEF IInv, Stored, Alike
<1>2. disk' = [r \in Sessions |-> disk'[r]] /\ lock' \in [Sessions -> Procs \cup {None}]
      /\ \A r \in Sessions : Stored(disk'[r], used')
  BY DEF IInv
<1>3. Sound(p, c, disk', lock', used')
  OBVIOUS
<1> QED
  BY <1>1, <1>2, <1>3, OneProcess

LEMMA OpenInv ==
    ASSUME IInv, NEW p \in Procs, NEW s \in Sessions, Open(p, s)
    PROVE  IInv'
<1> DEFINE c == [proc[p] EXCEPT !.at = "open", !.session = s]
<1>1. proc[p] = Gone /\ IsContext(proc[p])
  BY DEF Open, IInv, Sound
<1>2. c = Context("open", s, proc[p].tasks, proc[p].dialogue, proc[p].number, proc[p].left)
  BY <1>1, SetsSession
<1> HIDE DEF c
<1>3. /\ IsContext(c) /\ c.at = "open" /\ c.session = s /\ c.tasks = NoTasks
      /\ c.dialogue = {} /\ c.left = <<>>
  BY <1>1, <1>2, ContextFields DEF Gone
<1>4. disk[s].tasks = None /\ disk[s].state = None
  BY DEF Open, NewDirectory
<1>5. lock' = [lock EXCEPT ![s] = p] /\ lock'[s] = p
  BY DEF Open, IInv
<1>6. Sound(p, c, disk, lock', used')
  BY <1>3, <1>4, <1>5 DEF Sound, Holds, Seen, Agrees, Tells, NoTasks, Works, Saves
<1>7. Becomes(p, c) /\ UNCHANGED <<disk, used>> /\ \A q \in Procs : proc[q].session # s
  BY DEF Open, c
<1> QED
  BY <1>5, <1>6, <1>7, TakesLock

LEMMA ProbeInv ==
    ASSUME IInv, NEW p \in Procs, NEW s \in Sessions, Probe(p, s)
    PROVE  IInv'
<1> DEFINE c == [proc[p] EXCEPT !.at = "probing", !.session = s]
<1>1. proc[p] = Gone /\ IsContext(proc[p])
  BY DEF Probe, IInv, Sound
<1>2. c = Context("probing", s, proc[p].tasks, proc[p].dialogue, proc[p].number, proc[p].left)
  BY <1>1, SetsSession
<1> HIDE DEF c
<1>3. IsContext(c) /\ c.at = "probing" /\ c.session = s /\ c.left = <<>>
  BY <1>1, <1>2, ContextFields DEF Gone
<1>4. disk[s].state # None
  BY DEF Probe, Resumable
<1>5. lock' = [lock EXCEPT ![s] = p] /\ lock'[s] = p
  BY DEF Probe, IInv
<1>6. Sound(p, c, disk, lock', used')
  BY <1>3, <1>4, <1>5 DEF Sound, Holds, Seen, Works, Saves
<1>7. \A q \in Procs : proc[q].at \in Works \cup {"probing"} => proc[q].session # s
  BY FreeIsUnheld DEF Probe
<1>8. Becomes(p, c) /\ UNCHANGED <<disk, used>>
  BY DEF Probe, c
<1> QED
  BY <1>5, <1>6, <1>7, <1>8, TakesLock

LEMMA ProbeEndsInv ==
    ASSUME IInv, NEW p \in Procs, ProbeEnds(p)
    PROVE  IInv'
<1> DEFINE c == [proc[p] EXCEPT !.at = "probed"]
<1>1. Sound(p, proc[p], disk, lock, used) /\ proc[p].at = "probing"
  BY DEF ProbeEnds, IInv
<1>2. c = Context("probed", proc[p].session, proc[p].tasks, proc[p].dialogue, proc[p].number,
                  proc[p].left)
  BY <1>1, SetField DEF Sound
<1> HIDE DEF c
<1>3. IsContext(c) /\ c.at = "probed" /\ c.session = proc[p].session /\ c.left = <<>>
  BY <1>1, <1>2, ContextFields DEF Sound, Works, Saves
<1>4. Sound(p, c, disk', lock', used')
  BY <1>1, <1>3 DEF ProbeEnds, Sound, Holds, Seen, Works, Saves
<1>5. Becomes(p, c) /\ UNCHANGED <<disk, used>> /\ lock' = [lock EXCEPT ![proc[p].session] = None]
  BY DEF ProbeEnds, Goes, c
<1>6. ASSUME NEW q \in Procs \ {p}, proc[q].at \in Works \cup {"probing"}
      PROVE  lock'[proc[q].session] = q /\ Alike(disk[proc[q].session], disk'[proc[q].session])
  <2>1. proc[q].session \in Sessions /\ lock[proc[q].session] = q
    BY <1>6 DEF IInv, Sound, Holds
  <2>2. proc[q].session # proc[p].session
    BY <1>1, <1>6, OneHolder
  <2> QED
    BY <2>1, <2>2, <1>5 DEF IInv, Stored, Alike
<1>7. disk' = [r \in Sessions |-> disk'[r]] /\ lock' \in [Sessions -> Procs \cup {None}]
      /\ \A r \in Sessions : Stored(disk'[r], used')
  BY <1>5 DEF IInv
<1> QED
  BY <1>4, <1>5, <1>6, <1>7, OneProcess

LEMMA RestoreInv ==
    ASSUME IInv, NEW p \in Procs, Restore(p)
    PROVE  IInv'
<1> DEFINE s == proc[p].session
<1>1. Sound(p, proc[p], disk, lock, used) /\ proc[p].at = "probed"
  BY DEF Restore, IInv
<1>2. CASE lock[s] # None
  BY <1>2, Unwritten, LetsGo DEF Restore
<1>3. CASE lock[s] = None
  <2> DEFINE c == Resumed(proc[p], disk[s])
  <2>1. c = Context("open", s, Restored(disk[s].tasks), disk[s].state, LastSequence(disk[s]),
                    proc[p].left)
    <3>1. IsContext(proc[p])
      BY <1>1 DEF Sound
    <3>2. \A recorded, dialogue, number :
              [proc[p] EXCEPT !.at = "open", !.tasks = recorded, !.dialogue = dialogue,
                              !.number = number]
                = Context("open", s, recorded, dialogue, number, proc[p].left)
      BY <3>1, SetsRestored
    <3> QED
      BY <3>2 DEF Resumed
  <2>2. Becomes(p, c) /\ UNCHANGED <<disk, used>> /\ lock' = [lock EXCEPT ![s] = p]
    BY <1>3 DEF Restore
  <2> HIDE DEF c
  <2>3. /\ IsContext(c) /\ c.at = "open" /\ c.session = s /\ c.left = <<>>
        /\ c.tasks = Restored(disk[s].tasks) /\ c.dialogue = disk[s].state
    BY <2>1, <1>1, ContextFields DEF Sound, Saves
  <2>4. s \in Sessions /\ disk[s].state # None
    BY <1>1 DEF Sound, Seen
  <2>5. disk[s].state \subseteq Tasks /\ Tells(disk[s].state, disk[s].tasks)
    BY <2>4 DEF IInv, Stored
  <2>6. Agrees(c, disk[s], used')
    <3>1. DOMAIN disk[s].tasks \subseteq used /\ used' = used
      BY <2>4 DEF IInv, Stored, Restore
    <3> DEFINE d == disk[s]
               r == Restored(d.tasks)
    <3>2. /\ DOMAIN r = DOMAIN d.tasks
          /\ \A t \in DOMAIN d.tasks :
                r[t] = IF d.tasks[t] = "running" THEN "failed" ELSE d.tasks[t]
      BY DEF Restored
    <3>3. c.tasks = r /\ c.dialogue = d.state /\ c.left = <<>>
      BY <2>3
    <3>4. d.state \subseteq Tasks /\ Tells(d.state, d.tasks) /\ DOMAIN d.tasks \subseteq used
      BY <2>5, <3>1
    <3> HIDE DEF d, r
    <3>5. Tells(d.state, r)
      BY <3>2, <3>4 DEF Tells
    <3>6. Keeps(d.tasks, r)
      BY <3>2 DEF Keeps
    <3>7. <<>> # <<"state">>
      OBVIOUS
    <3>8. Agrees(c, d, used')
      BY <3>1, <3>2, <3>3, <3>4, <3>5, <3>6, <3>7 DEF Agrees
    <3> QED
      BY <3>8 DEF d
  <2>7. lock'[s] = p
    BY <2>2, <2>4 DEF IInv
  <2>8. Sound(p, c, disk, lock', used')
    BY <2>3, <2>4, <2>6, <2>7 DEF Sound, Holds, Seen, Works, Saves
  <2>9. \A q \in Procs : proc[q].at \in Works \cup {"probing"} => proc[q].session # s
    BY <1>3, FreeIsUnheld
  <2> QED
    BY <2>2, <2>4, <2>8, <2>9, TakesLock
<1> QED
  BY <1>2, <1>3

\* A save begins: the context in memory may be newer than the one before.
LEMMA PersistInv ==
    ASSUME IInv, NEW p \in Procs, NEW at \in Saves, NEW context,
           proc[p].at \in Works, IsContext(context), context.session = proc[p].session,
           Agrees(context, disk[proc[p].session], used'), context.left = <<>>,
           Persist(p, at, context), SameFiles, UNCHANGED lock, used \subseteq used'
    PROVE  IInv'
<1> DEFINE c == [context EXCEPT !.at = at, !.left = Files]
<1>1. c = Context(at, context.session, context.tasks, context.dialogue, context.number, Files)
  BY SetsLeft
<1>2. Becomes(p, c)
  BY DEF Persist
<1> HIDE DEF c
<1>3. /\ IsContext(c) /\ c.at = at /\ c.session = proc[p].session /\ c.left = Files
      /\ c.tasks = context.tasks /\ c.dialogue = context.dialogue
  BY <1>1, ContextFields
<1>4. proc[p].session \in Sessions /\ lock[proc[p].session] = p
  BY DEF IInv, Sound, Holds
<1>5. Agrees(c, disk[proc[p].session], used')
  BY <1>3 DEF Agrees, Files
<1>6. Sound(p, c, disk, lock, used')
  BY <1>3, <1>4, <1>5 DEF Sound, Holds, Seen, Works, Saves
<1> QED
  BY <1>2, <1>6, InMemory

LEMMA StartInv ==
    ASSUME IInv, NEW p \in Procs, Start(p)
    PROVE  IInv'
<1>1. Sound(p, proc[p], disk, lock, used) /\ proc[p].at = "open"
  BY DEF Start, IInv
<1>2. /\ IsContext(proc[p]) /\ Agrees(proc[p], disk[proc[p].session], used)
      /\ proc[p].left = <<>>
  BY <1>1 DEF Sound, Works, Saves
<1>3. proc[p].at \in Works /\ "start" \in Saves
  BY <1>1 DEF Works, Saves
<1>4. Persist(p, "start", proc[p]) /\ SameFiles /\ UNCHANGED <<lock, used>>
  BY Unwritten DEF Start
<1> QED
  BY <1>2, <1>3, <1>4, PersistInv

LEMMA BeginInv ==
    ASSUME IInv, NEW p \in Procs, NEW t \in Tasks, Begin(p, t)
    PROVE  IInv'
<1> DEFINE context == [proc[p] EXCEPT !.tasks = With(proc[p].tasks, t)]
           d == disk[proc[p].session]
<1>1. Sound(p, proc[p], disk, lock, used) /\ proc[p].at = "idle"
  BY DEF Begin, IInv
<1>2. context = Context(proc[p].at, proc[p].session, With(proc[p].tasks, t), proc[p].dialogue,
                        proc[p].number, proc[p].left)
  BY <1>1, SetField DEF Sound
<1>3. Persist(p, "begin", context) /\ SameFiles /\ UNCHANGED lock /\ used \subseteq used'
  BY Unwritten DEF Begin
<1> HIDE DEF context
<1>4. /\ IsContext(context) /\ context.session = proc[p].session
      /\ context.tasks = With(proc[p].tasks, t) /\ context.dialogue = proc[p].dialogue
      /\ context.left = proc[p].left
  BY <1>2, ContextFields
<1>5. Agrees(proc[p], d, used) /\ proc[p].left = <<>> /\ proc[p].session \in Sessions
  BY <1>1 DEF Sound, Holds, Works, Saves
<1>6. t \notin used /\ used' = used \cup {t}
  BY DEF Begin
<1>7. Stored(d, used)
  BY <1>5 DEF IInv
<1>8. Agrees(context, d, used')
  <2>1. DOMAIN context.tasks = DOMAIN proc[p].tasks \cup {t}
        /\ \A u \in DOMAIN proc[p].tasks : context.tasks[u] = proc[p].tasks[u]
    BY <1>4, <1>5, <1>6 DEF With, Agrees
  <2>2. DOMAIN context.tasks \subseteq used'
    BY <2>1, <1>5, <1>6 DEF Agrees
  <2>3. Tells(context.dialogue, context.tasks)
    BY <2>1, <1>4, <1>5 DEF Agrees, Tells
  <2>4. d.tasks # None \/ d.state # None => Keeps(d.tasks, context.tasks)
    BY <2>1, <1>5 DEF Agrees, Keeps
  <2> QED
    BY <2>2, <2>3, <2>4, <1>4, <1>5 DEF Agrees
<1>9. proc[p].at \in Works /\ "begin" \in Saves
  BY <1>1 DEF Works, Saves
<1> QED
  BY <1>3, <1>4, <1>5, <1>8, <1>9, PersistInv

LEMMA FinishInv ==
    ASSUME IInv, NEW p \in Procs, NEW t \in Tasks,
           NEW status \in {"completed", "failed"}, Finish(p, t, status)
    PROVE  IInv'
<1> DEFINE recorded == [proc[p].tasks EXCEPT ![t] = status]
           dialogue == IF status = "completed" THEN proc[p].dialogue \cup {t} ELSE proc[p].dialogue
           context == [proc[p] EXCEPT !.tasks = recorded, !.dialogue = dialogue]
           d == disk[proc[p].session]
<1>1. Sound(p, proc[p], disk, lock, used) /\ proc[p].at = "run"
  BY DEF Finish, IInv
<1>2. Persist(p, "finish", context) /\ SameFiles /\ UNCHANGED <<lock, used>>
  BY Unwritten DEF Finish
<1>3. t \in DOMAIN proc[p].tasks /\ proc[p].tasks[t] = "running"
  BY DEF Finish, Running
<1>4. /\ DOMAIN recorded = DOMAIN proc[p].tasks /\ recorded[t] = status
      /\ \A u \in DOMAIN proc[p].tasks \ {t} : recorded[u] = proc[p].tasks[u]
  BY <1>3
<1>5. dialogue \subseteq proc[p].dialogue \cup {t} /\ (t \in dialogue => status = "completed")
  <2>1. t \notin proc[p].dialogue
    BY <1>1, <1>3 DEF Sound, Agrees, Tells, Works
  <2> QED
    BY <2>1
<1> HIDE DEF recorded, dialogue
<1>6. context = Context(proc[p].at, proc[p].session, recorded, dialogue, proc[p].number, proc[p].left)
  BY <1>1, SetsOutcome DEF Sound
<1> HIDE DEF context
<1>7. /\ IsContext(context) /\ context.session = proc[p].session
      /\ context.tasks = recorded /\ context.dialogue = dialogue /\ context.left = proc[p].left
  BY <1>6, ContextFields
<1>8. Agrees(proc[p], d, used) /\ proc[p].left = <<>>
  BY <1>1 DEF Sound, Works, Saves
<1>9. Agrees(context, d, used')
  <2>1. Tells(dialogue, recorded)
    BY <1>3, <1>4, <1>5, <1>8 DEF Agrees, Tells
  <2>2. d.tasks # None \/ d.state # None => Keeps(d.tasks, recorded)
    BY <1>3, <1>4, <1>8 DEF Agrees, Keeps
  <2>3. dialogue \subseteq Tasks /\ DOMAIN recorded \subseteq used'
    BY <1>2, <1>4, <1>5, <1>8 DEF Agrees
  <2> QED
    BY <2>1, <2>2, <2>3, <1>7, <1>8 DEF Agrees
<1>10. proc[p].at \in Works /\ "finish" \in Saves
  BY <1>1 DEF Works, Saves
<1> QED
  BY <1>2, <1>7, <1>8, <1>9, <1>10, PersistInv

\* A number more: what is agreed on stays.
LEMMA Counts ==
    ASSUME NEW c, IsContext(c), NEW n
    PROVE  LET e == [c EXCEPT !.number = n]
           IN  /\ IsContext(e) /\ e.at = c.at /\ e.session = c.session /\ e.left = c.left
               /\ e.tasks = c.tasks /\ e.dialogue = c.dialogue
<1> DEFINE e == [c EXCEPT !.number = n]
<1>1. e = Context(c.at, c.session, c.tasks, c.dialogue, n, c.left)
  BY SetField
<1> HIDE DEF e
<1>2. /\ IsContext(e) /\ e.at = c.at /\ e.session = c.session /\ e.left = c.left
      /\ e.tasks = c.tasks /\ e.dialogue = c.dialogue
  BY <1>1, ContextFields
<1> QED
  BY <1>2 DEF e

LEMMA EmitInv ==
    ASSUME IInv, NEW p \in Procs, Emit(p)
    PROVE  IInv' /\ SameFiles
<1> DEFINE c == [proc[p] EXCEPT !.number = proc[p].number + 1]
           s == proc[p].session
<1>1. Sound(p, proc[p], disk, lock, used) /\ proc[p].at \in Works \ Saves
  BY DEF Emit, IInv, Works, Saves
<1>2. s \in Sessions /\ IsContext(proc[p]) /\ IsDirectory(disk[s])
  BY <1>1 DEF IInv, Sound, Holds, Stored
<1>3. Becomes(p, c) /\ UNCHANGED <<lock, used>>
  BY DEF Emit
<1>4. SameFiles
  BY <1>2, LogOnly, LogLine DEF Emit
<1>5. /\ IsContext(c) /\ c.at = proc[p].at /\ c.session = s /\ c.left = proc[p].left
      /\ c.tasks = proc[p].tasks /\ c.dialogue = proc[p].dialogue
  BY <1>2, Counts
<1> HIDE DEF c
<1>6. Sound(p, c, disk, lock, used')
  BY <1>1, <1>3, <1>5 DEF Sound, Holds, Seen, Agrees, Works, Saves
<1> QED
  BY <1>3, <1>4, <1>6, InMemory

LEMMA CloseInv ==
    ASSUME IInv, NEW p \in Procs, Close(p)
    PROVE  IInv' /\ SameFiles
<1> DEFINE context == [proc[p] EXCEPT !.number = proc[p].number + 1]
           s == proc[p].session
<1>1. Sound(p, proc[p], disk, lock, used) /\ proc[p].at \in {"open", "idle"}
  BY DEF Close, IInv
<1>2. proc[p].at \in Works /\ "close" \in Saves /\ proc[p].at \notin Saves
  BY <1>1 DEF Works, Saves
<1>3. /\ s \in Sessions /\ IsContext(proc[p]) /\ IsDirectory(disk[s])
      /\ Agrees(proc[p], disk[s], used) /\ proc[p].left = <<>>
  BY <1>1, <1>2 DEF IInv, Sound, Holds, Stored
<1>4. /\ IsContext(context) /\ context.at = proc[p].at /\ context.session = s
      /\ context.left = proc[p].left
      /\ context.tasks = proc[p].tasks /\ context.dialogue = proc[p].dialogue
  BY <1>3, Counts
<1>5. UNCHANGED <<lock, used>>
  BY DEF Close
<1>6. CASE proc[p].at = "idle" /\ Room(p)
  <2>1. Persist(p, "close", context) /\ SameFiles
    <3>1. /\ Persist(p, "close", context)
          /\ disk' = [disk EXCEPT ![s] = Appended(disk[s], proc[p].number + 1)]
      BY <1>6 DEF Close
    <3>2. Alike(disk[s], Appended(disk[s], proc[p].number + 1))
      BY <1>3, LogOnly
    <3> QED
      BY <3>1, <3>2, <1>3, LogLine
  <2> HIDE DEF context
  <2>2. Agrees(context, disk[s], used)
    BY <1>3, <1>4 DEF Agrees
  <2> QED
    BY <2>1, <2>2, <1>2, <1>3, <1>4, <1>5, PersistInv
<1>7. CASE ~(proc[p].at = "idle" /\ Room(p))
  <2>1. Persist(p, "close", proc[p]) /\ SameFiles
    BY <1>7, Unwritten DEF Close
  <2> QED
    BY <2>1, <1>2, <1>3, <1>5, PersistInv
<1> QED
  BY <1>6, <1>7

LEMMA KilledInv ==
    ASSUME IInv, NEW p \in Procs, Killed(p)
    PROVE  IInv' /\ SameFiles
<1>1. /\ Becomes(p, Gone) /\ UNCHANGED used
      /\ lock' = [s \in Sessions |-> IF lock[s] = p THEN None ELSE lock[s]]
  BY DEF Killed
<1>2. CASE UNCHANGED disk
  BY <1>1, <1>2, Unwritten, LetsGo
<1>3. CASE ~UNCHANGED disk
  <2>1. PICK ok \in BOOLEAN : disk' = [disk EXCEPT ![proc[p].session] =
                                  TornLine(disk[proc[p].session], proc[p].number + 1, ok)]
    BY <1>3 DEF Killed
  <2>2. proc[p].at \in Works
    BY <1>3 DEF Killed, Works
  <2>3. proc[p].session \in Sessions /\ IsDirectory(disk[proc[p].session])
    BY <2>2 DEF IInv, Sound, Holds, Stored
  <2> QED
    BY <2>1, <2>3, <1>1, LogOnly, LogLine, LetsGo
<1> QED
  BY <1>2, <1>3

\* A save writes one of its files.
LEMMA WriteFileInv ==
    ASSUME IInv, NEW p \in Procs, WriteFile(p)
    PROVE  /\ IInv'
           /\ \A s \in Sessions : disk[s].tasks # None => Keeps(disk[s].tasks, disk'[s].tasks)
<1> DEFINE s == proc[p].session
           c == [proc[p] EXCEPT !.left = Tail(proc[p].left)]
           d == disk[s]
           e == disk'[s]
<1>1. Sound(p, proc[p], disk, lock, used) /\ proc[p].at \in Saves /\ proc[p].left # <<>>
  BY DEF WriteFile, Saving, IInv, Saves
<1>2. /\ s \in Sessions /\ lock[s] = p /\ IsContext(proc[p])
      /\ Agrees(proc[p], d, used) /\ Stored(d, used) /\ IsDirectory(d)
  BY <1>1 DEF IInv, Sound, Holds, Works, Stored
<1>3. /\ Becomes(p, c) /\ UNCHANGED <<lock, used>>
  BY DEF WriteFile
<1>4. c = Context(proc[p].at, s, proc[p].tasks, proc[p].dialogue, proc[p].number,
                  Tail(proc[p].left))
  <2>1. \A v : [proc[p] EXCEPT !.left = v]
                  = Context(proc[p].at, s, proc[p].tasks, proc[p].dialogue, proc[p].number, v)
    BY <1>2, SetField
  <2> QED
    BY <2>1
<1> HIDE DEF c
<1>5. /\ IsContext(c) /\ c.at = proc[p].at /\ c.session = s /\ c.left = Tail(proc[p].left)
      /\ c.tasks = proc[p].tasks /\ c.dialogue = proc[p].dialogue
  BY <1>4, ContextFields
<1>6. proc[p].dialogue # None
  BY <1>2, FilesAssumption DEF Agrees
<1>7. /\ disk' = [r \in Sessions |-> disk'[r]] /\ \A r \in Sessions \ {s} : disk'[r] = disk[r]
      /\ Stored(e, used) /\ (d.state # None => e.state # None) /\ Agrees(c, e, used)
      /\ c.left \in {<<>>, <<"state">>, <<"tasks", "state">>}
      /\ (d.tasks # None => Keeps(d.tasks, e.tasks))
  <2>1. CASE proc[p].left = Files
    <3>1. Head(proc[p].left) = "session" /\ Tail(proc[p].left) = <<"tasks", "state">>
      BY <2>1 DEF Files
    <3>2. disk' = [disk EXCEPT ![s] = [disk[s] EXCEPT !.session = TRUE]]
      BY <3>1 DEF WriteFile
    <3>3. e = [d EXCEPT !.session = TRUE]
      BY <3>2, <1>2 DEF IInv
    <3>4. e = Directory(TRUE, d.tasks, d.state, d.tail, d.cut)
      BY <3>3, <1>2, SetFile
    <3>5. IsDirectory(e) /\ e.tasks = d.tasks /\ e.state = d.state
      <4> HIDE DEF e, d
      <4> QED
        BY <3>4 DEF Directory, IsDirectory
    <3>6. disk' = [r \in Sessions |-> disk'[r]] /\ \A r \in Sessions \ {s} : disk'[r] = disk[r]
      BY <3>2 DEF IInv
    <3>7. Stored(e, used)
      BY <3>5, <1>2 DEF Stored
    <3>8. Agrees(c, e, used)
      BY <3>1, <3>5, <1>2, <1>5 DEF Agrees
    <3> QED
      BY <3>1, <3>5, <3>6, <3>7, <3>8, <1>2, <1>5 DEF Agrees, Keeps
  <2>2. CASE proc[p].left = <<"tasks", "state">>
    <3>1. Head(proc[p].left) = "tasks" /\ Tail(proc[p].left) = <<"state">>
      BY <2>2
    <3>2. disk' = [disk EXCEPT ![s] = [disk[s] EXCEPT !.tasks = proc[p].tasks]]
      BY <3>1 DEF WriteFile
    <3>3. e = [d EXCEPT !.tasks = proc[p].tasks]
      BY <3>2, <1>2 DEF IInv
    <3>4. e = Directory(d.session, proc[p].tasks, d.state, d.tail, d.cut)
      BY <3>3, <1>2, SetFile
    <3>5. IsDirectory(e) /\ e.tasks = proc[p].tasks /\ e.state = d.state
      BY <3>4, DirectoryFields
    <3>6. disk' = [r \in Sessions |-> disk'[r]] /\ \A r \in Sessions \ {s} : disk'[r] = disk[r]
      BY <3>2 DEF IInv
    <3>7. Stored(e, used)
      BY <3>5, <1>2 DEF Stored, Agrees, Tells, Keeps
    <3>8. Agrees(c, e, used)
      BY <3>1, <3>5, <1>2, <1>5 DEF Agrees, Keeps
    <3> QED
      BY <3>1, <3>5, <3>6, <3>7, <3>8, <1>2, <1>5 DEF Agrees, Keeps
  <2>3. CASE proc[p].left = <<"state">>
    <3>1. Head(proc[p].left) = "state" /\ Tail(proc[p].left) = <<>>
      BY <2>3
    <3>2. disk' = [disk EXCEPT ![s] = [disk[s] EXCEPT !.state = proc[p].dialogue]]
      BY <3>1 DEF WriteFile
    <3>3. e = [d EXCEPT !.state = proc[p].dialogue]
      BY <3>2, <1>2 DEF IInv
    <3>4. e = Directory(d.session, d.tasks, proc[p].dialogue, d.tail, d.cut)
      BY <3>3, <1>2, SetFile
    <3>5. IsDirectory(e) /\ e.tasks = d.tasks /\ e.state = proc[p].dialogue
      BY <3>4, DirectoryFields
    <3>6. disk' = [r \in Sessions |-> disk'[r]] /\ \A r \in Sessions \ {s} : disk'[r] = disk[r]
      BY <3>2 DEF IInv
    <3>7. d.tasks = proc[p].tasks
      BY <2>3, <1>2 DEF Agrees
    <3>8. Stored(e, used)
      BY <3>5, <3>7, <1>2 DEF Stored, Agrees
    <3>9. Agrees(c, e, used)
      BY <3>1, <3>5, <3>7, <1>2, <1>5 DEF Agrees, Keeps
    <3> QED
      BY <3>1, <3>5, <3>6, <3>8, <3>9, <1>5, <1>6 DEF Keeps
  <2> QED
    BY <2>1, <2>2, <2>3, <1>1 DEF Sound
<1>8. Sound(p, c, disk', lock', used')
  <2>1. c.at \in Works /\ c.at \in Saves /\ c.at \notin {"none", "probing", "probed"}
    BY <1>1, <1>5 DEF Works, Saves
  <2> QED
    BY <2>1, <1>2, <1>3, <1>5, <1>7 DEF Sound, Holds, Seen
<1>9. \A r \in Sessions : Stored(disk'[r], used')
  BY <1>3, <1>7 DEF IInv
<1>10. \A r \in Sessions : disk[r].state # None => disk'[r].state # None
  BY <1>7
<1>11. ASSUME NEW q \in Procs \ {p}, proc[q].at \in Works \cup {"probing"}
       PROVE  lock'[proc[q].session] = q /\ Alike(disk[proc[q].session], disk'[proc[q].session])
  <2>1. proc[q].session \in Sessions \ {s} /\ lock[proc[q].session] = q
    BY <1>2, <1>11 DEF IInv, Sound, Holds
  <2> QED
    BY <2>1, <1>3, <1>7 DEF IInv, Stored, Alike
<1>12. lock' \in [Sessions -> Procs \cup {None}] /\ used \subseteq used'
  BY <1>3 DEF IInv
<1>13. \A r \in Sessions : disk[r].tasks # None => Keeps(disk[r].tasks, disk'[r].tasks)
  BY <1>7 DEF Keeps
<1>14. IInv'
  BY <1>3, <1>7, <1>8, <1>9, <1>10, <1>11, <1>12, OneProcess
<1> QED
  BY <1>13, <1>14

\* A save that fails: what is on disk stays, the process goes on or is gone.
LEMMA WriteFailsInv ==
    ASSUME IInv, NEW p \in Procs, WriteFails(p)
    PROVE  IInv'
<1>1. Sound(p, proc[p], disk, lock, used) /\ proc[p].at \in Works
  BY DEF WriteFails, Saving, IInv, Works, Saves
<1>2. IsContext(proc[p]) /\ Agrees(proc[p], disk[proc[p].session], used)
  BY <1>1 DEF Sound
<1>3. SameFiles /\ UNCHANGED used
  BY Unwritten DEF WriteFails
<1>4. CASE proc[p].at = "begin"
  <2> DEFINE kept == DOMAIN proc[p].tasks \ Running(proc[p].tasks)
             recorded == Restrict(proc[p].tasks, kept)
             c == [proc[p] EXCEPT !.at = "idle", !.left = <<>>, !.tasks = recorded]
  <2>1. Becomes(p, c) /\ UNCHANGED lock
    BY <1>4 DEF WriteFails
  <2>2. DOMAIN recorded = kept /\ \A t \in kept : recorded[t] = proc[p].tasks[t]
    BY DEF Restrict
  <2>3. kept = {t \in DOMAIN proc[p].tasks : proc[p].tasks[t] # "running"}
    BY DEF Running
  <2> HIDE DEF kept, recorded
  <2>4. c = Context("idle", proc[p].session, recorded, proc[p].dialogue, proc[p].number, <<>>)
    <3>1. \A at, left, record : [proc[p] EXCEPT !.at = at, !.left = left, !.tasks = record]
              = Context(at, proc[p].session, record, proc[p].dialogue, proc[p].number, left)
      BY <1>2, SetsRecord
    <3> QED
      BY <3>1
  <2> HIDE DEF c
  <2>5. /\ IsContext(c) /\ c.at = "idle" /\ c.session = proc[p].session /\ c.left = <<>>
        /\ c.tasks = recorded /\ c.dialogue = proc[p].dialogue
    BY <2>4, ContextFields
  <2>6. Agrees(c, disk[proc[p].session], used')
    BY <2>2, <2>3, <2>5, <1>2, <1>3 DEF Agrees, Tells, Keeps
  <2>7. Sound(p, c, disk, lock, used')
    BY <2>5, <2>6, <1>1 DEF Sound, Holds, Seen, Works, Saves
  <2> QED
    BY <2>1, <2>7, <1>3, InMemory
<1>5. CASE proc[p].at = "finish"
  <2> DEFINE c == [proc[p] EXCEPT !.at = "idle", !.left = <<>>]
  <2>1. Becomes(p, c) /\ UNCHANGED lock
    BY <1>5 DEF WriteFails
  <2>2. c = Context("idle", proc[p].session, proc[p].tasks, proc[p].dialogue, proc[p].number, <<>>)
    BY <1>2, SetsLeft
  <2> HIDE DEF c
  <2>3. /\ IsContext(c) /\ c.at = "idle" /\ c.session = proc[p].session /\ c.left = <<>>
        /\ c.tasks = proc[p].tasks /\ c.dialogue = proc[p].dialogue
    BY <2>2, ContextFields
  <2>4. Sound(p, c, disk, lock, used')
    BY <2>3, <1>1, <1>2, <1>3 DEF Sound, Holds, Seen, Agrees, Works, Saves
  <2> QED
    BY <2>1, <2>4, <1>3, InMemory
<1>6. CASE proc[p].at = "close"
  BY <1>1, <1>3, <1>6, LetsGo DEF WriteFails, Released
<1> QED
  BY <1>4, <1>5, <1>6 DEF WriteFails, Saving

\* A save that is complete.
LEMMA SavedInv ==
    ASSUME IInv, NEW p \in Procs, Saved(p)
    PROVE  IInv'
<1>1. /\ Sound(p, proc[p], disk, lock, used) /\ proc[p].at \in Works
      /\ proc[p].left = <<>>
  BY DEF Saved, IInv, Works, Saves
<1>2. SameFiles /\ UNCHANGED used
  BY Unwritten DEF Saved
<1>3. ASSUME NEW at \in {"idle", "run"}, Goes(p, at), UNCHANGED lock PROVE IInv'
  <2> DEFINE c == [proc[p] EXCEPT !.at = at]
  <2>1. Becomes(p, c)
    BY <1>3 DEF Goes
  <2>2. c = Context(at, proc[p].session, proc[p].tasks, proc[p].dialogue, proc[p].number,
                    proc[p].left)
    BY <1>1, SetField DEF Sound
  <2> HIDE DEF c
  <2>3. /\ IsContext(c) /\ c.at = at /\ c.session = proc[p].session /\ c.left = <<>>
        /\ c.tasks = proc[p].tasks /\ c.dialogue = proc[p].dialogue
    BY <2>2, <1>1, ContextFields
  <2>4. Sound(p, c, disk, lock, used')
    BY <2>3, <1>1, <1>2 DEF Sound, Holds, Seen, Agrees, Works, Saves
  <2> QED
    BY <2>1, <2>4, <1>2, <1>3, InMemory
<1>4. CASE proc[p].at = "close"
  BY <1>1, <1>2, <1>4, LetsGo DEF Saved, Released
<1>5. CASE proc[p].at # "close"
  BY <1>3, <1>5 DEF Saved
<1> QED
  BY <1>4, <1>5

----------------------------------------------------------------------------
(* The theorems *)

\* Each action of Next, and a step that changes nothing, keeps the invariant.
LEMMA Inductive == IInv /\ [Next]_vars => IInv'
<1> SUFFICES ASSUME IInv, [Next]_vars PROVE IInv'
  OBVIOUS
<1>1. CASE UNCHANGED vars
  BY <1>1 DEF vars, IInv
<1>2. ASSUME NEW p \in Procs, NEW s \in Sessions, Open(p, s) \/ Probe(p, s) PROVE IInv'
  BY <1>2, OpenInv, ProbeInv
<1>3. ASSUME NEW p \in Procs, ProbeEnds(p) \/ Restore(p) PROVE IInv'
  BY <1>3, ProbeEndsInv, RestoreInv
<1>4. ASSUME NEW p \in Procs, Start(p) \/ Emit(p) \/ Close(p) PROVE IInv'
  BY <1>4, StartInv, EmitInv, CloseInv
<1>5. ASSUME NEW p \in Procs, NEW t \in Tasks,
             Begin(p, t) \/ \E status \in {"completed", "failed"} : Finish(p, t, status)
      PROVE  IInv'
  BY <1>5, BeginInv, FinishInv
<1>6. ASSUME NEW p \in Procs, WriteFile(p) \/ WriteFails(p) \/ Saved(p) PROVE IInv'
  BY <1>6, WriteFileInv, WriteFailsInv, SavedInv
<1>7. ASSUME NEW p \in Procs, Killed(p) PROVE IInv'
  BY <1>7, KilledInv
<1> QED
  BY <1>1, <1>2, <1>3, <1>4, <1>5, <1>6, <1>7 DEF Next

\* The invariant: locks, copies in memory and files agree, whenever a process is killed.
THEOREM FilesInvariant == Spec => []IInv
<1>1. Init => IInv
  BY Initially
<1>2. IInv /\ [Next]_vars => IInv'
  BY Inductive
<1> QED
  BY <1>1, <1>2, PTL DEF Spec

\* A session directory never tells, in state.json, of a task that tasks.json does not
\* have as completed: for any processes that compete for it, and any kills.
THEOREM DialogueStaysRecorded == Spec => []DialogueIsRecorded
<1>1. IInv => DialogueIsRecorded
  BY DEF IInv, Stored, Tells, DialogueIsRecorded
<1> QED
  BY <1>1, FilesInvariant, PTL

\* What tasks.json said of a task that had ended, it says for ever.
THEOREM OutcomesAreFinal == Spec => OutcomesStay
<1>1. IInv /\ [Next]_vars =>
        [\A s \in Sessions : disk[s].tasks # None => \A t \in DOMAIN disk[s].tasks :
            disk[s].tasks[t] # "running" =>
                t \in DOMAIN disk'[s].tasks /\ disk'[s].tasks[t] = disk[s].tasks[t]]_vars
  <2> SUFFICES ASSUME IInv, Next, NEW s \in Sessions, disk[s].tasks # None
               PROVE  Keeps(disk[s].tasks, disk'[s].tasks)
    BY DEF Keeps
  <2>1. CASE SameFiles
    BY <2>1 DEF SameFiles, Alike, Keeps
  <2>2. ASSUME NEW p \in Procs, WriteFile(p) PROVE Keeps(disk[s].tasks, disk'[s].tasks)
    BY <2>2, WriteFileInv
  <2>3. ASSUME NEW p \in Procs, Emit(p) \/ Close(p) \/ Killed(p) PROVE SameFiles
    BY <2>3, EmitInv, CloseInv, KilledInv
  <2>4. CASE UNCHANGED disk
    BY <2>4, Unwritten, <2>1
  <2> QED
    BY <2>1, <2>2, <2>3, <2>4
       DEF Next, Open, Probe, ProbeEnds, Restore, Start, Begin, Finish, WriteFails, Saved
<1> QED
  BY <1>1, FilesInvariant, PTL DEF Spec, OutcomesStay
-----------------------------------------------------------------------------
(* The memory.                                                             *)

\* What a file of the directory can hold.
Entries ==
    [source : {"none", "broken", "user", "agent"},
     status : {"none", "user", "unverified", "verified", "stale"},
     uses : 0..Promote, failures : 0..StaleAfter, old : BOOLEAN, any : BOOLEAN]

\* An entry, and the number of tasks that succeeded with its body: a status belongs
\* to a writer, and trust to those tasks.
Fair(entry, count) ==
    /\ entry \in Entries
    /\ entry.source \in {"none", "broken"} => entry.status = "none"
    /\ entry.source = "user" => entry.status = "user"
    /\ entry.source = "agent" => entry.status \in {"unverified", "verified", "stale"}
    /\ entry.uses <= count
    /\ entry.status = "verified" => count >= Promote

AllFair == \A f \in Paths : Fair(files[f], earned[f])

MemoryIInv == MemoryTypeOK /\ AllFair /\ UserEntriesStay /\ NothingLeftLoaded

\* Capped, what _outcome does to the counters, stays in its range and keeps the order.
LEMMA CappedStays ==
    ASSUME NEW limit \in Nat \ {0}, NEW m \in 0..limit, NEW n \in 0..limit, m <= n
    PROVE  /\ Capped(n + 1, limit) \in 1..limit
           /\ Capped(m + 1, limit) <= Capped(n + 1, limit)
  BY DEF Capped

\* _outcome: an entry counts a success exactly when its body earned one, and is
\* promoted only when it has earned enough.
LEMMA OutcomeIsFair ==
    ASSUME NEW entry, NEW count \in 0..Promote, Fair(entry, count),
           entry.source = "agent", NEW status \in {"done", "blocked"}
    PROVE  /\ Outcome(entry, status).source = "agent"
           /\ Fair(Outcome(entry, status),
                   IF status = "done" THEN Capped(count + 1, Promote) ELSE count)
<1> DEFINE uses == Capped(entry.uses + 1, Promote)
           failures == Capped(entry.failures + 1, StaleAfter)
           counted == [entry EXCEPT !.uses = uses]
           done == [counted EXCEPT !.failures = 0]
           stale == [entry EXCEPT !.status = "stale"]
           failed == [stale EXCEPT !.failures = failures]
<1>0. Promote \in Nat \ {0} /\ StaleAfter \in Nat \ {0}
  BY MemoryAssumption
<1>1. entry \in Entries
  BY DEF Fair
<1>2. entry.uses \in 0..Promote /\ entry.failures \in 0..StaleAfter /\ entry.uses <= count
  BY <1>1 DEF Fair, Entries
<1>3. uses \in 1..Promote /\ uses <= Capped(count + 1, Promote)
      /\ Capped(count + 1, Promote) \in 1..Promote
  BY <1>0, <1>2, CappedStays
<1>4. failures \in 1..StaleAfter
  BY <1>0, <1>2, CappedStays
<1>5. entry.status \in {"unverified", "verified", "stale"}
  BY DEF Fair
<1>6. entry.status = "verified" => Capped(count + 1, Promote) >= Promote
  BY <1>0 DEF Fair, Capped
<1> HIDE DEF uses, failures
<1>u. counted \in Entries /\ counted.source = entry.source /\ counted.status = entry.status
      /\ counted.uses = uses
  BY <1>0, <1>1, <1>3 DEF Entries
<1>d. done \in Entries /\ done.source = entry.source /\ done.status = entry.status
      /\ done.uses = uses
  <2> HIDE DEF counted
  <2> QED
    BY <1>0, <1>u DEF Entries
<1>s. stale \in Entries /\ stale.source = entry.source /\ stale.status = "stale"
      /\ stale.uses = entry.uses
  BY <1>0, <1>1 DEF Entries
<1>f. failed \in Entries /\ failed.source = entry.source /\ failed.status = "stale"
      /\ failed.uses = entry.uses
  <2> HIDE DEF stale
  <2> QED
    BY <1>0, <1>s, <1>4 DEF Entries
<1>7. CASE status = "done" /\ entry.status = "stale"
  <2>1. Outcome(entry, status) = Entry("agent", "unverified", 1, 0)
    BY <1>7 DEF Outcome
  <2> QED
    BY <2>1, <1>7, <1>0, <1>3 DEF Fair, Entries, Entry
<1>8. CASE status = "done" /\ entry.status = "unverified" /\ uses >= Promote
  <2>1. Outcome(entry, status) = [done EXCEPT !.status = "verified"]
    BY <1>8, <1>0, <1>3 DEF Outcome, uses
  <2> HIDE DEF done
  <2> QED
    BY <2>1, <1>8, <1>0, <1>3, <1>d DEF Fair, Entries
<1>9. CASE status = "done" /\ entry.status = "verified"
  <2>1. Outcome(entry, status) = [done EXCEPT !.old = FALSE]
    BY <1>9, <1>0, <1>3 DEF Outcome, uses
  <2> HIDE DEF done
  <2> QED
    BY <2>1, <1>9, <1>0, <1>3, <1>6, <1>d DEF Fair, Entries
<1>10. CASE status = "done" /\ entry.status = "unverified" /\ ~(uses >= Promote)
  <2>0. uses < Promote
    BY <1>10, <1>3, <1>0
  <2>1. Outcome(entry, status) = done
    BY <1>10, <1>0, <1>3, <2>0 DEF Outcome, uses
  <2> HIDE DEF done
  <2> QED
    BY <2>1, <1>10, <1>0, <1>3, <1>d DEF Fair, Entries
<1>11. CASE status = "blocked" /\ failures >= StaleAfter
  <2>1. Outcome(entry, status) = [failed EXCEPT !.old = FALSE]
    BY <1>11, <1>0, <1>4 DEF Outcome, failures
  <2> HIDE DEF failed
  <2> QED
    BY <2>1, <1>11, <1>0, <1>2, <1>f DEF Fair, Entries
<1>12. CASE status = "blocked" /\ ~(failures >= StaleAfter)
  <2>0. failures < StaleAfter
    BY <1>12, <1>4, <1>0
  <2>1. Outcome(entry, status) = [entry EXCEPT !.failures = failures]
    BY <1>12, <1>0, <1>4, <2>0 DEF Outcome, failures
  <2> QED
    BY <2>1, <1>12, <1>0, <1>1, <1>2, <1>4 DEF Fair, Entries
<1> QED
  BY <1>5, <1>7, <1>8, <1>9, <1>10, <1>11, <1>12

\* What is written anew has counted nothing.
LEMMA NewIsFair ==
    /\ Fair(AgentEntry, 0) /\ Fair(NoFile, 0) /\ Fair(Broken, 0)
    /\ AgentEntry.source = "agent" /\ NoFile.source = "none" /\ Broken.source = "broken"
    /\ \A any \in BOOLEAN :
          /\ Fair([Entry("user", "user", 0, 0) EXCEPT !.any = any], 0)
          /\ [Entry("user", "user", 0, 0) EXCEPT !.any = any].source = "user"
<1>1. /\ Fair(AgentEntry, 0) /\ Fair(NoFile, 0) /\ Fair(Broken, 0)
      /\ AgentEntry.source = "agent" /\ NoFile.source = "none" /\ Broken.source = "broken"
  BY MemoryAssumption DEF Fair, Entries, AgentEntry, NoFile, Broken, Entry
<1>2. ASSUME NEW any \in BOOLEAN
      PROVE  /\ Fair([Entry("user", "user", 0, 0) EXCEPT !.any = any], 0)
             /\ [Entry("user", "user", 0, 0) EXCEPT !.any = any].source = "user"
  <2> DEFINE own == Entry("user", "user", 0, 0)
  <2>1. own \in Entries /\ own.source = "user" /\ own.status = "user" /\ own.uses = 0
    BY MemoryAssumption DEF Entries, Entry
  <2> HIDE DEF own
  <2>2. /\ [own EXCEPT !.any = any] \in Entries
        /\ [own EXCEPT !.any = any].source = "user" /\ [own EXCEPT !.any = any].status = "user"
        /\ [own EXCEPT !.any = any].uses = 0
    BY <2>1 DEF Entries
  <2> QED
    BY <2>2 DEF own, Fair
<1> QED
  BY <1>1, <1>2

\* create with keep_trust: what is merged keeps the counters and loses the status.
LEMMA MergedIsFair ==
    ASSUME NEW entry, NEW count \in 0..Promote, Fair(entry, count)
    PROVE  Fair(Merged(entry), count) /\ Merged(entry).source = "agent"
  BY MemoryAssumption DEF Fair, Entries, Merged, Entry

\* The first state has no file, no task and nothing earned.
LEMMA MemoryInitially == MemoryInit => MemoryIInv
<1> SUFFICES ASSUME MemoryInit PROVE MemoryIInv
  OBVIOUS
<1>1. AllFair
  BY NewIsFair DEF MemoryInit, AllFair
<1>2. MemoryTypeOK
  <2>1. NoFile \in Entries /\ 0 \in 0..Promote
    BY NewIsFair, MemoryAssumption DEF Fair
  <2> QED
    BY <2>1 DEF MemoryInit, MemoryTypeOK, Entries
<1> QED
  BY <1>1, <1>2 DEF MemoryIInv, MemoryInit, UserEntriesStay, NothingLeftLoaded

\* A step on one file: whoever writes it anew starts its count at nothing.
LEMMA OneFile ==
    ASSUME MemoryIInv, NEW g \in Paths, NEW file, Fair(file, 0),
           files' = [files EXCEPT ![g] = file], earned' = [earned EXCEPT ![g] = 0]
    PROVE  AllFair' /\ files' \in [Paths -> Entries] /\ earned' \in [Paths -> 0..Promote]
<1>1. files \in [Paths -> Entries] /\ earned \in [Paths -> 0..Promote] /\ 0 \in 0..Promote
  BY MemoryAssumption DEF MemoryIInv, MemoryTypeOK, Entries
<1>2. file \in Entries
  BY DEF Fair
<1> QED
  BY <1>1, <1>2 DEF MemoryIInv, AllFair

\* A step of the user's editor: the last writer of the file is known.
LEMMA UserStepInv ==
    ASSUME MemoryIInv, NEW g \in Paths, NEW file, Fair(file, 0), UserStep(g, file)
    PROVE  MemoryIInv'
<1>1. AllFair' /\ files' \in [Paths -> Entries] /\ earned' \in [Paths -> 0..Promote]
  BY OneFile DEF UserStep
<1>2. MemoryTypeOK'
  BY <1>1 DEF MemoryIInv, MemoryTypeOK, UserStep, Entries
<1>3. UserEntriesStay'
  BY DEF MemoryIInv, MemoryTypeOK, UserEntriesStay, UserStep
<1> QED
  BY <1>1, <1>2, <1>3 DEF MemoryIInv, NothingLeftLoaded, UserStep

\* Each action of MemoryNext, and a step that changes nothing, keeps the invariant.
LEMMA MemoryInductive == MemoryIInv /\ [MemoryNext]_memoryVars => MemoryIInv'
<1> SUFFICES ASSUME MemoryIInv, [MemoryNext]_memoryVars PROVE MemoryIInv'
  OBVIOUS
<1>0. /\ files \in [Paths -> Entries] /\ earned \in [Paths -> 0..Promote]
      /\ phase \in [Agents -> {"idle", "run", "ended", "consolidate"}]
      /\ loaded \in [Agents -> SUBSET Paths] /\ raised \in [Agents -> BOOLEAN]
      /\ mine \subseteq Paths /\ Promote \in Nat \ {0}
  BY MemoryAssumption DEF MemoryIInv, MemoryTypeOK, Entries
<1>1. ASSUME NEW f \in Paths, NEW any \in BOOLEAN, UserWrites(f, any) PROVE MemoryIInv'
  BY <1>1, UserStepInv, NewIsFair DEF UserWrites
<1>2. ASSUME NEW f \in Paths, UserBreaks(f) PROVE MemoryIInv'
  BY <1>2, UserStepInv, NewIsFair DEF UserBreaks
<1>3. ASSUME NEW f \in Paths, UserDeletes(f) PROVE MemoryIInv'
  BY <1>3, UserStepInv, NewIsFair DEF UserDeletes
<1>4. ASSUME NEW f \in Paths, Ages(f) PROVE MemoryIInv'
  <2>1. files' \in [Paths -> Entries]
    BY ZenonT(60), <1>0, <1>4 DEF Ages, Entries
  <2>2. AllFair'
    BY <2>1, <1>0, <1>4 DEF Ages, MemoryIInv, AllFair, Fair, Entries
  <2> QED
    BY <2>1, <2>2, <1>0, <1>4
       DEF Ages, MemoryIInv, MemoryTypeOK, Entries, UserEntriesStay, NothingLeftLoaded
<1>5. ASSUME NEW p \in Agents, BindTask(p) PROVE MemoryIInv'
  BY <1>0, <1>5 DEF BindTask, MemoryIInv, MemoryTypeOK, AllFair, UserEntriesStay, NothingLeftLoaded
<1>6. ASSUME NEW p \in Agents, GoalBreaks(p) PROVE MemoryIInv'
  BY <1>0, <1>6 DEF GoalBreaks, Forget, MemoryIInv, MemoryTypeOK, AllFair, UserEntriesStay, NothingLeftLoaded
<1>7. ASSUME NEW p \in Agents, AskModel(p) PROVE MemoryIInv'
  BY <1>0, <1>7 DEF AskModel, MemoryIInv, MemoryTypeOK, AllFair, UserEntriesStay, NothingLeftLoaded
<1>8. ASSUME NEW p \in Agents, NoConsolidation(p) PROVE MemoryIInv'
  BY <1>0, <1>8
     DEF NoConsolidation, Forget, MemoryIInv, MemoryTypeOK, AllFair, UserEntriesStay, NothingLeftLoaded
<1>9. ASSUME NEW p \in Agents, NEW site, NEW shown \in SUBSET Paths, Render(p, site, shown)
      PROVE MemoryIInv'
  BY <1>0, <1>9 DEF Render, NoteLoaded, MemoryIInv, MemoryTypeOK, AllFair, UserEntriesStay, NothingLeftLoaded
<1>10. ASSUME NEW p \in Agents, NEW f \in Paths,
              NEW command \in {"create", "str_replace", "delete"}, MemoryWrite(p, f, command)
       PROVE MemoryIInv'
  <2>1. PICK file \in {AgentEntry, NoFile} : files' = [files EXCEPT ![f] = file]
    BY <1>10 DEF MemoryWrite, Replaced
  <2>2. files[f].source # "user"
    BY <1>10 DEF MemoryWrite, Writable, Deletable
  <2>3. AllFair' /\ files' \in [Paths -> Entries] /\ earned' \in [Paths -> 0..Promote]
    BY <2>1, <1>10, NewIsFair, OneFile DEF MemoryWrite
  <2>4. UserEntriesStay'
    BY <2>1, <2>2, <1>0, <1>10 DEF MemoryWrite, MemoryIInv, UserEntriesStay
  <2> QED
    BY <2>3, <2>4, <1>0, <1>10 DEF MemoryWrite, MemoryIInv, MemoryTypeOK, Entries, NothingLeftLoaded
<1>11. ASSUME NEW p \in Agents, NEW status \in {"done", "blocked", "cancelled"},
              NEW written \in SUBSET Paths, RecordOutcome(p, status, written)
       PROVE MemoryIInv'
  <2> DEFINE kept == IF status = "cancelled" THEN {} ELSE written
  <2>1. /\ files' = [f \in Paths |-> IF f \in kept THEN Outcome(files[f], status) ELSE files[f]]
        /\ earned' = [f \in Paths |->
              IF f \in kept /\ status = "done" THEN Capped(earned[f] + 1, Promote) ELSE earned[f]]
        /\ \A f \in kept : files[f].source = "agent"
    BY <1>11 DEF RecordOutcome
  <2>2. kept # {} => status \in {"done", "blocked"}
    OBVIOUS
  <2> HIDE DEF kept
  <2>3. earned' \in [Paths -> 0..Promote]
    <3>1. \A f \in Paths : Capped(earned[f] + 1, Promote) \in 0..Promote
      BY <1>0, CappedStays
    <3> QED
      BY <3>1, <2>1, <1>0
  <2>4. ASSUME NEW f \in Paths
        PROVE  Fair(files'[f], earned'[f]) /\ (f \in kept => files'[f].source = "agent")
    <3>0. Fair(files[f], earned[f])
      BY DEF MemoryIInv, AllFair
    <3>1. CASE f \in kept
      <4>1. /\ Outcome(files[f], status).source = "agent"
            /\ Fair(Outcome(files[f], status),
                    IF status = "done" THEN Capped(earned[f] + 1, Promote) ELSE earned[f])
        BY <3>0, <3>1, <2>1, <2>2, <1>0, OutcomeIsFair
      <4> QED
        BY <4>1, <3>1, <2>1
    <3>2. CASE f \notin kept
      BY <3>0, <3>2, <2>1
    <3> QED
      BY <3>1, <3>2
  <2>5. files' \in [Paths -> Entries]
    BY <2>4, <2>1 DEF Fair
  <2>6. UserEntriesStay'
    <3>1. mine' = mine
      BY <1>11 DEF RecordOutcome
    <3> QED
      BY <3>1, <2>1, <2>4, <1>0 DEF MemoryIInv, UserEntriesStay
  <2>7. NothingLeftLoaded'
    BY <1>0, <1>11 DEF RecordOutcome, MemoryIInv, NothingLeftLoaded
  <2>8. MemoryTypeOK'
    BY <2>3, <2>5, <1>0, <1>11 DEF RecordOutcome, MemoryTypeOK, Entries
  <2> QED
    BY <2>4, <2>6, <2>7, <2>8 DEF MemoryIInv, AllFair
<1>12. ASSUME NEW p \in Agents, NEW proposals \in SUBSET Paths, NEW written \in SUBSET proposals,
              Consolidate(p, proposals, written)
       PROVE MemoryIInv'
  <2>1. /\ files' = [f \in Paths |-> IF f \in written THEN Merged(files[f]) ELSE files[f]]
        /\ earned' = earned /\ mine' = mine
        /\ \A f \in written : files[f].source # "user"
    BY <1>12 DEF Consolidate, Proposable, Writable
  <2>2. ASSUME NEW f \in Paths PROVE Fair(files'[f], earned'[f])
    BY <2>1, <1>0, MergedIsFair DEF MemoryIInv, AllFair
  <2>3. files' \in [Paths -> Entries]
    BY <2>2, <2>1 DEF Fair
  <2>4. UserEntriesStay'
    BY <2>1, <1>0 DEF MemoryIInv, UserEntriesStay
  <2>5. NothingLeftLoaded'
    BY <1>0, <1>12 DEF Consolidate, Forget, MemoryIInv, NothingLeftLoaded
  <2>6. MemoryTypeOK'
    <3>1. raised' \in [Agents -> BOOLEAN]
      BY <1>0, <1>12 DEF Consolidate
    <3> QED
      BY <3>1, <2>1, <2>3, <1>0, <1>12 DEF Consolidate, Forget, MemoryTypeOK, Entries
  <2> QED
    BY <2>2, <2>4, <2>5, <2>6 DEF MemoryIInv, AllFair
<1>13. CASE UNCHANGED memoryVars
  BY <1>13 DEF memoryVars, MemoryIInv, MemoryTypeOK, AllFair, UserEntriesStay, NothingLeftLoaded
<1> QED
  BY <1>1, <1>2, <1>3, <1>4, <1>5, <1>6, <1>7, <1>8, <1>9, <1>10, <1>11, <1>12, <1>13 DEF MemoryNext

\* The invariant: every file is fair, whatever the sessions, the user and the clock do.
THEOREM MemoryInvariant == MemorySpec => []MemoryIInv
<1>1. MemoryInit => MemoryIInv
  BY MemoryInitially
<1>2. MemoryIInv /\ [MemoryNext]_memoryVars => MemoryIInv'
  BY MemoryInductive
<1> QED
  BY <1>1, <1>2, PTL DEF MemorySpec

\* What the user wrote stays the user's; an entry is verified only after Promote tasks
\* succeeded with its body; what a task loaded is forgotten with it.  For any sessions,
\* files and thresholds.
THEOREM MemoryIsTrustworthy == MemorySpec => []TrustIsEarned
<1>1. MemoryIInv => TrustIsEarned
  BY DEF MemoryIInv, AllFair, Fair, TrustIsEarned, VerifiedIsEarned
<1> QED
  BY <1>1, MemoryInvariant, PTL

-----------------------------------------------------------------------------
(* The conversation of a session: recursion.                               *)

\* A set of numbers that is not empty has a least one.
LEMMA LeastOf ==
    ASSUME NEW T, T \subseteq Nat, T # {}
    PROVE  \E m \in T : \A k \in T : m <= k
<1>1. IsWellFoundedOn(OpToRel(<, Nat), Nat)
  BY NatLessThanWellFounded
<1>2. PICK m \in T : \A k \in T : ~(<<k, m>> \in OpToRel(<, Nat))
  BY <1>1, WFMin, Zenon
<1>3. \A k \in T : ~(k < m)
  BY <1>2 DEF OpToRel
<1> QED BY <1>3

\* f follows step from base, number by number.
Follows(f, base, step, n) ==
    f = [i \in 0 .. n |-> IF i = 0 THEN base ELSE step[<<f[i - 1], i>>]]

\* A recursion over the first n numbers has a result.
LEMMA Recursion ==
    ASSUME NEW S, NEW base \in S, NEW step \in [S \X Nat -> S], NEW n \in Nat
    PROVE  \E f \in [0 .. n -> S] : Follows(f, base, step, n)
<1> DEFINE T == {m \in Nat : ~ \E f \in [0 .. m -> S] : Follows(f, base, step, m)}
<1> SUFFICES ASSUME n \in T PROVE FALSE
  OBVIOUS
<1>1. PICK m \in T : \A k \in T : m <= k
  BY LeastOf, T \subseteq Nat, T # {}
<1>2. m # 0
  <2> SUFFICES ASSUME m = 0 PROVE FALSE
    OBVIOUS
  <2> DEFINE one == [i \in 0 .. 0 |-> base]
  <2>1. one \in [0 .. 0 -> S] /\ Follows(one, base, step, 0)
    BY DEF Follows
  <2> QED BY <2>1
<1>3. m - 1 \in Nat /\ m - 1 \notin T
  BY <1>1, <1>2
<1>4. PICK f \in [0 .. (m - 1) -> S] : Follows(f, base, step, m - 1)
  BY <1>3
<1> DEFINE longer == [i \in 0 .. m |-> IF i < m THEN f[i] ELSE step[<<f[m - 1], m>>]]
<1>5. f[m - 1] \in S /\ step[<<f[m - 1], m>>] \in S
  BY <1>3, <1>1
<1>6. \A i \in 0 .. m : longer[i] = IF i = 0 THEN base ELSE step[<<longer[i - 1], i>>]
  <2> SUFFICES ASSUME NEW i \in 0 .. m
               PROVE  longer[i] = IF i = 0 THEN base ELSE step[<<longer[i - 1], i>>]
    OBVIOUS
  <2>1. CASE i = m
    <3>1. m \in Nat /\ m - 1 \in 0 .. m /\ m - 1 < m
      BY <1>1, <1>2
    <3>2. longer[m] = step[<<f[m - 1], m>>] /\ longer[m - 1] = f[m - 1]
      BY <3>1
    <3> HIDE DEF longer
    <3> QED BY <2>1, <3>2, <1>2
  <2>2. CASE i # m
    <3>1. i \in 0 .. (m - 1) /\ longer[i] = f[i] /\ (i # 0 => longer[i - 1] = f[i - 1])
      BY <2>2, <1>1
    <3>2. f[i] = IF i = 0 THEN base ELSE step[<<f[i - 1], i>>]
      BY <1>4, <3>1 DEF Follows
    <3> QED BY <3>1, <3>2
  <2> QED BY <2>1, <2>2
<1>7. longer \in [0 .. m -> S]
  BY <1>1, <1>5
<1>8. Follows(longer, base, step, m)
  <2> HIDE DEF longer
  <2>1. longer = [i \in 0 .. m |-> longer[i]]
    BY <1>7
  <2> QED BY <1>6, <2>1 DEF Follows
<1> QED BY <1>1, <1>7, <1>8

-----------------------------------------------------------------------------
(* The hooks on an output.                                                 *)

Chain == Registry["post_tool_use"]
ChainIds == {Chain[i].id : i \in 1 .. Len(Chain)}

\* What a chain may come to on an output of some kinds.
Results == [decision : {"nothing", "ask", "deny"}, output : SUBSET Kinds,
            maskedBy : SUBSET ChainIds, notes : Nat, over : BOOLEAN]

\* Nothing is left of what a hook took out.
OutcomeIsMasked(o) == \A id \in o.maskedBy : o.output \intersect KindsOf(id) = {}

\* A hook has one place in the chain, so what it takes out is its own kinds.
LEMMA OwnKinds ==
    ASSUME NEW i \in 1 .. Len(Chain)
    PROVE  KindsOf(Chain[i].id) = Chain[i].kinds
<1>1. {j \in 1 .. Len(Chain) : Chain[j].id = Chain[i].id} = {i}
  BY HooksAssumption DEF Chain
<1> QED BY <1>1 DEF KindsOf, Chain

\* One more hook takes out what it says, and nothing comes back.
LEMMA AfterIsMasked ==
    ASSUME NEW o \in Results, NEW i \in 1 .. Len(Chain), NEW answer, NEW output
    PROVE  /\ After(o, Chain[i], "post_tool_use", answer, output) \in Results
           /\ OutcomeIsMasked(o)
                => OutcomeIsMasked(After(o, Chain[i], "post_tool_use", answer, output))
<1> DEFINE a == After(o, Chain[i], "post_tool_use", answer, output)
           d == Decision(Chain[i], "post_tool_use", answer)
<1>1. d \in {"nothing", "ask", "deny"}
  BY DEF Decision
<1>2. Chain[i].id \in ChainIds
  BY DEF ChainIds
<1>3. /\ o.output \in SUBSET Kinds /\ o.maskedBy \in SUBSET ChainIds /\ o.notes \in Nat
      /\ o.decision \in {"nothing", "ask", "deny"}
  BY DEF Results
<1>4. a = [decision |-> a.decision, output |-> a.output, maskedBy |-> a.maskedBy,
           notes |-> a.notes, over |-> a.over]
  BY DEF After
<1>5. a.decision \in {"nothing", "ask", "deny"} /\ a.notes \in Nat /\ a.over \in BOOLEAN
  BY <1>1, <1>3 DEF After
<1>6. CASE answer = "mask"
  <2>1. a.output = o.output \ Chain[i].kinds /\ a.maskedBy = o.maskedBy \union {Chain[i].id}
    BY <1>6 DEF After
  <2>2. a.output \in SUBSET Kinds /\ a.maskedBy \in SUBSET ChainIds
    BY <2>1, <1>2, <1>3
  <2> HIDE DEF a
  <2>3. a \in Results
    BY <1>4, <1>5, <2>2 DEF Results
  <2>4. OutcomeIsMasked(o) => OutcomeIsMasked(a)
    BY <2>1, OwnKinds DEF OutcomeIsMasked
  <2> QED BY <2>3, <2>4 DEF a
<1>7. CASE answer # "mask"
  <2>1. a.output = o.output /\ a.maskedBy = o.maskedBy
    BY <1>7 DEF After
  <2> HIDE DEF a
  <2>2. a \in Results
    BY <2>1, <1>3, <1>4, <1>5 DEF Results
  <2>3. OutcomeIsMasked(o) => OutcomeIsMasked(a)
    BY <2>1 DEF OutcomeIsMasked
  <2> QED BY <2>2, <2>3 DEF a
<1> QED BY <1>6, <1>7

\* Whatever the handlers of a chain answer, what they took out is not in the output.
LEMMA ChainMasks ==
    ASSUME NEW tool, NEW output \in SUBSET Kinds, NEW answers
    PROVE  /\ Run("post_tool_use", tool, output, answers) \in Results
           /\ OutcomeIsMasked(Run("post_tool_use", tool, output, answers))
<1> DEFINE n == Len(Chain)
           one(o, i) == IF o.over \/ ~Matches(Chain[i], tool) THEN o
                        ELSE After(o, Chain[i], "post_tool_use", answers[Chain[i].id], output)
           step == [x \in Results \X Nat |-> IF x[2] \in 1 .. n THEN one(x[1], x[2]) ELSE x[1]]
           Runs(f) == f = [i \in 0 .. n |->
               IF i = 0 THEN NoOutcome(output)
               ELSE IF f[i - 1].over \/ ~Matches(Chain[i], tool) THEN f[i - 1]
               ELSE After(f[i - 1], Chain[i], "post_tool_use", answers[Chain[i].id], output)]
           C == CHOOSE f : Runs(f)
<1>1. n \in Nat
  BY HooksAssumption DEF Chain
<1>2. NoOutcome(output) \in Results
  BY DEF NoOutcome, Results
<1>3. \A o \in Results, i \in 1 .. n :
         one(o, i) \in Results /\ (OutcomeIsMasked(o) => OutcomeIsMasked(one(o, i)))
  BY AfterIsMasked
<1>4. step \in [Results \X Nat -> Results]
  <2> HIDE DEF one
  <2> QED BY <1>3
<1>5. PICK f \in [0 .. n -> Results] : Follows(f, NoOutcome(output), step, n)
  <2> HIDE DEF step, n
  <2> QED BY <1>1, <1>2, <1>4, Recursion
<1>6. \A i \in 0 .. n : f[i] = IF i = 0 THEN NoOutcome(output) ELSE one(f[i - 1], i)
  <2> SUFFICES ASSUME NEW i \in 0 .. n
               PROVE  f[i] = IF i = 0 THEN NoOutcome(output) ELSE one(f[i - 1], i)
    OBVIOUS
  <2>1. f[i] = IF i = 0 THEN NoOutcome(output) ELSE step[<<f[i - 1], i>>]
    <3> HIDE DEF step, n
    <3> QED BY <1>5 DEF Follows
  <2>2. CASE i # 0
    <3>1. <<f[i - 1], i>> \in Results \X Nat /\ i \in 1 .. n
      BY <2>2, <1>1
    <3>2. step[<<f[i - 1], i>>] = one(f[i - 1], i)
      <4> HIDE DEF one
      <4> QED BY <3>1
    <3> QED BY <2>1, <2>2, <3>2
  <2> QED BY <2>1, <2>2
<1>7. Runs(f)
  <2> HIDE DEF n
  <2> QED BY <1>5, <1>6
<1>8. Runs(C)
  <2> HIDE DEF Runs
  <2> QED BY <1>7
<1>9. Run("post_tool_use", tool, output, answers) = C[n]
  BY DEF Run, Chain
<1> HIDE DEF C
<1>10. \A i \in 0 .. n : C[i] = IF i = 0 THEN NoOutcome(output) ELSE one(C[i - 1], i)
  <2> HIDE DEF n
  <2> QED BY <1>8
<1> HIDE DEF one, n
<1> DEFINE T == {i \in 0 .. n : ~(C[i] \in Results /\ OutcomeIsMasked(C[i]))}
<1>11. ASSUME T # {} PROVE FALSE
  <2>1. PICK m \in T : \A k \in T : m <= k
    BY <1>11, <1>1, LeastOf, T \subseteq Nat
  <2>2. m # 0
    <3>1. OutcomeIsMasked(NoOutcome(output))
      BY DEF NoOutcome, OutcomeIsMasked
    <3> QED BY <1>1, <1>2, <1>10, <2>1, <3>1
  <2>3. m - 1 \in 0 .. n /\ m - 1 \notin T /\ m \in 1 .. n
    BY <1>1, <2>1, <2>2
  <2>4. C[m - 1] \in Results /\ OutcomeIsMasked(C[m - 1]) /\ C[m] = one(C[m - 1], m)
    BY <1>10, <2>2, <2>3
  <2> QED BY <1>3, <2>1, <2>3, <2>4
<1>12. n \in 0 .. n
  BY <1>1
<1> QED BY <1>9, <1>11, <1>12

-----------------------------------------------------------------------------
(* What a history is at any time.                                          *)

CallMessages == [role : {"assistant"}, kind : {"call"}, id : Ids \union {NoId}, tool : Tools]
ToolMessages ==
    [role : {"tool"}, kind : {"full", "compacted", "cleared"}, id : Ids, tool : Tools,
     size : Nat, output : SUBSET Kinds, maskedBy : SUBSET ChainIds]
Messages ==
    [role : {"system"}, kind : {"prompt"}, prompt : Nat]
        \union [role : {"user"}, kind : {"request", "digest"}, task : Nat]
        \union [role : {"user"}, kind : {"note"}]
        \union [role : {"assistant"}, kind : {"answer"}]
        \union CallMessages \union ToolMessages

\* What the kinds of messages have in common.
LEMMA MessageFacts ==
    ASSUME NEW m \in Messages
    PROVE  /\ IsTool(m) => m \in ToolMessages /\ ~IsCall(m)
           /\ IsCall(m) => m \in CallMessages /\ m.role = "assistant"
           /\ m.kind \in {"request", "digest"} =>
                 /\ m.task \in Nat /\ m.role = "user" /\ ~IsTool(m) /\ ~IsCall(m)
                 /\ m.kind = "request" => m = TaskRequest(m.task)
           /\ m.role = "system" => m.kind = "prompt"
BY DEF Messages, CallMessages, ToolMessages, IsTool, IsCall, TaskRequest

\* One system message, the first.
Headed(h) == \A i \in 1 .. Len(h) : h[i].role = "system" <=> i = 1

\* A result stands right behind its call.
Paired(h) ==
    \A i \in 1 .. Len(h) : IsTool(h[i]) =>
        i > 1 /\ IsCall(h[i - 1]) /\ h[i - 1].id = h[i].id

\* Nothing is done before it is asked for.
AskedFor(h) ==
    \A i \in 1 .. Len(h) : IsTool(h[i]) => \E j \in 1 .. (i - 1) : h[j].kind = "request"

Masked(h) ==
    \A i \in 1 .. Len(h) : IsTool(h[i]) => OutcomeIsMasked(h[i])

\* What is folded was there before what is not.
DigestsFirst(h) ==
    \A i, j \in 1 .. Len(h) : h[i].kind = "digest" /\ h[j].kind = "request" => i < j

Shape(h) ==
    /\ h \in Seq(Messages)
    /\ Headed(h) /\ Paired(h) /\ AskedFor(h) /\ Masked(h) /\ DigestsFirst(h)

\* An output is shrunk only while there are newer ones.
Superseded(h, i) == \E j \in i + 1 .. Len(h) : IsTool(h[j]) /\ h[j].tool = h[i].tool
Newest(h) ==
    \A i \in 1 .. Len(h) : IsTool(h[i]) =>
        /\ h[i].kind = "compacted" => Superseded(h, i)
        /\ h[i].kind = "cleared" => ToolsAfter(h, i) >= KeepResults

Well(h) == Shape(h) /\ Newest(h)

\* The tasks a history tells of, each once and in their order.
Story(h, of) ==
    /\ {h[i].task : i \in Told(h)} = of
    /\ \A i, j \in Told(h) : i < j => h[i].task < h[j].task

LEMMA EmptyIsWell == Well(<<>>) /\ Story(<<>>, {})
BY DEF Well, Shape, Headed, Paired, AskedFor, Masked, DigestsFirst, Newest, Story, Told

-----------------------------------------------------------------------------
(* Shrinking.                                                              *)

\* An output that is shrunk is still the result of its call.
LEMMA ShrunkFacts ==
    ASSUME NEW m \in ToolMessages, NEW how \in {"compacted", "cleared"}
    PROVE  /\ Shrunk(m, how) \in ToolMessages /\ Shrunk(m, how) \in Messages
           /\ Shrunk(m, how).kind = how
           /\ Shrunk(m, how).id = m.id /\ Shrunk(m, how).tool = m.tool
           /\ OutcomeIsMasked(Shrunk(m, how))
           /\ IsTool(Shrunk(m, how))
<1>1. Shrunk(m, how) = [m EXCEPT !.kind = how, !.size = Placeholder, !.output = {}]
  BY DEF Shrunk
<1>2. Placeholder \in Nat
  BY HistoryConstants
<1>3. Shrunk(m, how) \in ToolMessages
  BY <1>1, <1>2 DEF ToolMessages
<1>4. /\ Shrunk(m, how).kind = how /\ Shrunk(m, how).id = m.id /\ Shrunk(m, how).tool = m.tool
      /\ Shrunk(m, how).output = {} /\ Shrunk(m, how).role = "tool"
  BY <1>1 DEF ToolMessages
<1> QED BY <1>3, <1>4 DEF OutcomeIsMasked, IsTool, Messages

\* g is h with some outputs shrunk, each while there are newer ones.
Shrinks(h, g) ==
    /\ Len(g) = Len(h) /\ g = [i \in 1 .. Len(h) |-> g[i]]
    /\ \A i \in 1 .. Len(h) :
         \/ g[i] = h[i]
         \/ /\ IsTool(h[i])
            /\ \/ g[i] = Shrunk(h[i], "compacted") /\ Superseded(h, i)
               \/ g[i] = Shrunk(h[i], "cleared") /\ ToolsAfter(h, i) >= KeepResults

\* What shrinking leaves of a message.
LEMMA ShrinksOne ==
    ASSUME NEW h, Well(h), NEW g, Shrinks(h, g), NEW i \in 1 .. Len(h)
    PROVE  /\ g[i] \in Messages /\ h[i] \in Messages
           /\ IsTool(g[i]) <=> IsTool(h[i])
           /\ ~IsTool(h[i]) => g[i] = h[i]
           /\ IsTool(h[i]) => /\ g[i].id = h[i].id /\ g[i].tool = h[i].tool
                              /\ OutcomeIsMasked(g[i])
                              /\ g[i].kind = "compacted" => Superseded(h, i)
                              /\ g[i].kind = "cleared" => ToolsAfter(h, i) >= KeepResults
<1>1. h[i] \in Messages
  BY DEF Well, Shape
<1>2. CASE g[i] = h[i]
  BY <1>1, <1>2 DEF Well, Shape, Masked, Newest
<1>3. CASE g[i] # h[i]
  <2>1. IsTool(h[i]) /\ h[i] \in ToolMessages
    BY <1>1, <1>3, MessageFacts DEF Shrinks
  <2>2. \/ g[i] = Shrunk(h[i], "compacted") /\ Superseded(h, i)
        \/ g[i] = Shrunk(h[i], "cleared") /\ ToolsAfter(h, i) >= KeepResults
    BY <1>3 DEF Shrinks
  <2>3. CASE g[i] = Shrunk(h[i], "compacted") /\ Superseded(h, i)
    BY <1>1, <2>1, <2>3, ShrunkFacts
  <2>4. CASE g[i] = Shrunk(h[i], "cleared") /\ ToolsAfter(h, i) >= KeepResults
    BY <1>1, <2>1, <2>4, ShrunkFacts
  <2> QED BY <2>2, <2>3, <2>4
<1> QED BY <1>2, <1>3

\* Shrinking leaves a history what it is, and the tasks it tells of.
LEMMA ShrinkingKeeps ==
    ASSUME NEW h, Well(h), NEW g, Shrinks(h, g)
    PROVE  /\ Well(g) /\ Told(g) = Told(h)
           /\ \A i \in 1 .. Len(h) : ~IsTool(h[i]) => g[i] = h[i]
           /\ \A of : Story(h, of) => Story(g, of)
<1>1. Len(g) = Len(h) /\ Len(h) \in Nat
  BY DEF Shrinks, Well, Shape
<1>2. g \in Seq(Messages)
  <2>1. \A i \in 1 .. Len(h) : g[i] \in Messages
    BY ShrinksOne
  <2>2. g = [i \in 1 .. Len(h) |-> g[i]]
    BY DEF Shrinks
  <2> QED BY <2>1, <2>2, <1>1
<1>3. Headed(g)
  <2> SUFFICES ASSUME NEW i \in 1 .. Len(h) PROVE g[i].role = "system" <=> i = 1
    BY <1>1 DEF Headed
  <2>1. (h[i].role = "system" <=> i = 1) /\ h[i] \in Messages
    BY DEF Well, Shape, Headed
  <2>2. CASE IsTool(h[i])
    BY <2>1, <2>2, ShrinksOne DEF IsTool
  <2>3. CASE ~IsTool(h[i])
    BY <2>1, <2>3, ShrinksOne
  <2> QED BY <2>2, <2>3
<1>4. Paired(g)
  <2> SUFFICES ASSUME NEW i \in 1 .. Len(h), IsTool(g[i])
               PROVE  i > 1 /\ IsCall(g[i - 1]) /\ g[i - 1].id = g[i].id
    BY <1>1 DEF Paired
  <2>1. IsTool(h[i]) /\ g[i].id = h[i].id
    BY ShrinksOne
  <2>2. i > 1 /\ IsCall(h[i - 1]) /\ h[i - 1].id = h[i].id
    BY <2>1 DEF Well, Shape, Paired
  <2>3. i - 1 \in 1 .. Len(h) /\ h[i - 1] \in Messages
    BY <1>1, <2>2 DEF Well, Shape
  <2>4. ~IsTool(h[i - 1])
    BY <2>2, <2>3, MessageFacts
  <2>5. g[i - 1] = h[i - 1]
    BY <2>3, <2>4, ShrinksOne
  <2> QED BY <2>1, <2>2, <2>5
<1>5. AskedFor(g)
  <2> SUFFICES ASSUME NEW i \in 1 .. Len(h), IsTool(g[i])
               PROVE  \E j \in 1 .. (i - 1) : g[j].kind = "request"
    BY <1>1 DEF AskedFor
  <2>1. IsTool(h[i])
    BY ShrinksOne
  <2>2. PICK j \in 1 .. (i - 1) : h[j].kind = "request"
    BY <2>1 DEF Well, Shape, AskedFor
  <2>3. j \in 1 .. Len(h) /\ h[j] \in Messages
    BY <1>1 DEF Well, Shape
  <2>4. g[j] = h[j]
    BY <2>2, <2>3, MessageFacts, ShrinksOne
  <2> QED BY <2>2, <2>4
<1>6. Masked(g)
  BY <1>1, ShrinksOne DEF Masked
<1>7. Newest(g)
  <2> SUFFICES ASSUME NEW i \in 1 .. Len(h), IsTool(g[i])
               PROVE  /\ g[i].kind = "compacted" => Superseded(g, i)
                      /\ g[i].kind = "cleared" => ToolsAfter(g, i) >= KeepResults
    BY <1>1 DEF Newest
  <2>1. /\ g[i].kind = "compacted" => Superseded(h, i)
        /\ g[i].kind = "cleared" => ToolsAfter(h, i) >= KeepResults
        /\ g[i].tool = h[i].tool
    BY ShrinksOne
  <2>2. ToolsAfter(g, i) = ToolsAfter(h, i)
    <3>1. \A j \in i + 1 .. Len(h) : IsTool(g[j]) <=> IsTool(h[j])
      BY <1>1, ShrinksOne
    <3>2. {j \in i + 1 .. Len(g) : IsTool(g[j])} = {j \in i + 1 .. Len(h) : IsTool(h[j])}
      BY <1>1, <3>1
    <3> QED BY <3>2 DEF ToolsAfter
  <2>3. Superseded(h, i) => Superseded(g, i)
    <3> SUFFICES ASSUME NEW j \in i + 1 .. Len(h), IsTool(h[j]), h[j].tool = h[i].tool
                 PROVE  Superseded(g, i)
      BY DEF Superseded
    <3>1. j \in 1 .. Len(h)
      BY <1>1
    <3>2. IsTool(g[j]) /\ g[j].tool = h[j].tool
      BY <3>1, ShrinksOne
    <3> QED BY <1>1, <2>1, <3>2 DEF Superseded
  <2> QED BY <2>1, <2>2, <2>3
<1>8. \A i \in 1 .. Len(h) : ~IsTool(h[i]) => g[i] = h[i]
  BY ShrinksOne
<1>9. \A i \in 1 .. Len(h) : h[i].kind \in {"request", "digest"} => g[i] = h[i]
  <2>1. \A i \in 1 .. Len(h) : h[i] \in Messages
    BY DEF Well, Shape
  <2> QED BY <2>1, <1>8, MessageFacts
<1>10. \A i \in 1 .. Len(h) : g[i].kind \in {"request", "digest"} => g[i] = h[i]
  <2> SUFFICES ASSUME NEW i \in 1 .. Len(h), g[i].kind \in {"request", "digest"}
               PROVE  g[i] = h[i]
    OBVIOUS
  <2>1. g[i] \in Messages
    BY ShrinksOne
  <2>2. ~IsTool(g[i])
    BY <2>1, MessageFacts
  <2> QED BY <2>2, ShrinksOne
<1>11. DigestsFirst(g)
  BY <1>1, <1>10 DEF Well, Shape, DigestsFirst
<1>12. Told(g) = Told(h)
  BY <1>1, <1>9, <1>10 DEF Told
<1>13. ASSUME NEW of, Story(h, of) PROVE Story(g, of)
  <2>1. \A i \in Told(h) : g[i] = h[i]
    BY <1>9 DEF Told
  <2>2. {g[i].task : i \in Told(h)} = {h[i].task : i \in Told(h)}
    BY <2>1
  <2> QED BY <1>12, <1>13, <2>1, <2>2 DEF Story
<1> QED BY <1>2, <1>3, <1>4, <1>5, <1>6, <1>7, <1>8, <1>11, <1>12, <1>13 DEF Well, Shape

\* Compaction does no more than that.
LEMMA CompactionShrinks ==
    ASSUME NEW h, Well(h)
    PROVE  Shrinks(h, CompactSnapshotHistory(h))
<1> DEFINE g == CompactSnapshotHistory(h)
<1>1. Len(h) \in Nat
  BY DEF Well, Shape
<1>2. g = [i \in 1 .. Len(h) |-> g[i]] /\ Len(g) = Len(h)
  BY <1>1 DEF CompactSnapshotHistory
<1>3. \A i \in 1 .. Len(h) :
         \/ g[i] = h[i]
         \/ IsTool(h[i]) /\ g[i] = Shrunk(h[i], "compacted") /\ Superseded(h, i)
  BY DEF CompactSnapshotHistory, Superseded
<1> QED BY <1>2, <1>3 DEF Shrinks

\* Neither does the budget, whatever the lengths are.
LEMMA BudgetShrinks ==
    ASSUME NEW h, Well(h)
    PROVE  Shrinks(h, ApplyHistoryBudget(h))
<1> DEFINE g == ApplyHistoryBudget(h)
           over(i) == i \in Clearable(h) /\ Total(h) - SavedBefore(h, Clearable(h), i) > Budget
           less == [i \in 1 .. Len(h) |-> IF over(i) THEN Shrunk(h[i], "cleared") ELSE h[i]]
<1>1. Len(h) \in Nat /\ h = [i \in 1 .. Len(h) |-> h[i]]
  BY DEF Well, Shape
<1>2. g = h \/ g = less
  BY DEF ApplyHistoryBudget
<1>3. \A i \in 1 .. Len(h) : over(i) => IsTool(h[i]) /\ ToolsAfter(h, i) >= KeepResults
  BY DEF Clearable
<1> HIDE DEF g, over
<1>4. CASE g = h
  BY <1>1, <1>4 DEF Shrinks, g
<1>5. CASE g = less
  <2>1. g = [i \in 1 .. Len(h) |-> g[i]] /\ Len(g) = Len(h)
    BY <1>1, <1>5
  <2>2. \A i \in 1 .. Len(h) :
           \/ g[i] = h[i]
           \/ IsTool(h[i]) /\ g[i] = Shrunk(h[i], "cleared") /\ ToolsAfter(h, i) >= KeepResults
    BY <1>3, <1>5
  <2>3. Shrinks(h, g)
    BY <2>1, <2>2 DEF Shrinks
  <2> QED BY <2>3 DEF g
<1> QED BY <1>2, <1>4, <1>5

-----------------------------------------------------------------------------
(* What is appended.                                                       *)

\* m may stand behind h: results come right behind their call, in a task that was
\* asked for.
MayFollow(h, m) ==
    /\ m \in Messages
    /\ m.role = "system" <=> h = <<>>
    /\ IsTool(m) => /\ OutcomeIsMasked(m)
                    /\ h # <<>> /\ IsCall(h[Len(h)]) /\ h[Len(h)].id = m.id
                    /\ \E j \in 1 .. Len(h) : h[j].kind = "request"
    /\ m.kind = "digest" => \A j \in 1 .. Len(h) : h[j].kind # "request"

LEMMA AppendFacts ==
    ASSUME NEW h \in Seq(Messages), NEW m \in Messages
    PROVE  /\ Append(h, m) \in Seq(Messages)
           /\ Len(h) \in Nat /\ Len(Append(h, m)) = Len(h) + 1
           /\ \A i \in 1 .. Len(h) : Append(h, m)[i] = h[i]
           /\ Append(h, m)[Len(h) + 1] = m
OBVIOUS

\* One more result is newer than what was there.
LEMMA ToolsAfterAppend ==
    ASSUME NEW h \in Seq(Messages), NEW m \in Messages, NEW i \in 1 .. Len(h) + 1
    PROVE  /\ ToolsAfter(h, i) \in Nat
           /\ i \in 1 .. Len(h) =>
                ToolsAfter(Append(h, m), i) = ToolsAfter(h, i) + IF IsTool(m) THEN 1 ELSE 0
<1> DEFINE g == Append(h, m)
           n == Len(h)
           A == {j \in i + 1 .. n : IsTool(h[j])}
           B == {j \in i + 1 .. Len(g) : IsTool(g[j])}
<1>1. n \in Nat /\ Len(g) = n + 1 /\ g[n + 1] = m /\ \A j \in 1 .. n : g[j] = h[j]
  BY AppendFacts
<1>2. IsFiniteSet(A) /\ n + 1 \notin A
  <2>1. IsFiniteSet(i + 1 .. n)
    BY <1>1, FS_Interval
  <2> QED BY <1>1, <2>1, FS_Subset
<1>3. i \in 1 .. n => B = IF IsTool(m) THEN A \union {n + 1} ELSE A
  BY <1>1
<1>4. ToolsAfter(h, i) = Cardinality(A) /\ ToolsAfter(g, i) = Cardinality(B)
  BY DEF ToolsAfter
<1> HIDE DEF A, B
<1>5. Cardinality(A) \in Nat /\ Cardinality(A \union {n + 1}) = Cardinality(A) + 1
  BY <1>2, FS_AddElement, FS_CardinalityType
<1>6. CASE IsTool(m)
  <2> HIDE DEF g, n
  <2> QED BY <1>3, <1>4, <1>5, <1>6 DEF g, n
<1>7. CASE ~IsTool(m)
  <2> HIDE DEF g, n
  <2> QED BY <1>3, <1>4, <1>5, <1>7 DEF g, n
<1> QED BY <1>6, <1>7

\* What fits leaves the history in shape, and its outputs as superseded as they were.
LEMMA AppendKeeps ==
    ASSUME NEW h, Shape(h), NEW m, MayFollow(h, m)
    PROVE  /\ Shape(Append(h, m))
           /\ Newest(h) /\ (IsTool(m) => m.kind = "full") => Newest(Append(h, m))
<1> DEFINE g == Append(h, m)
           n == Len(h)
<1>1. /\ g \in Seq(Messages) /\ n \in Nat /\ Len(g) = n + 1
      /\ \A i \in 1 .. n : g[i] = h[i]
      /\ g[n + 1] = m
  BY AppendFacts DEF Shape, MayFollow
<1>2. h = <<>> <=> n = 0
  BY DEF Shape
<1>3. \A i \in 1 .. n + 1 : i \in 1 .. n \/ i = n + 1
  BY <1>1
<1>4. \A i \in 1 .. n : h[i] \in Messages
  BY DEF Shape
<1>5. m \in Messages
  BY DEF MayFollow
<1> HIDE DEF g
<1>6. Headed(g)
  <2>1. \A i \in 1 .. n : g[i].role = "system" <=> i = 1
    BY <1>1 DEF Shape, Headed
  <2>2. g[n + 1].role = "system" <=> n + 1 = 1
    BY <1>1, <1>2 DEF MayFollow
  <2> QED BY <1>1, <1>3, <2>1, <2>2 DEF Headed
<1>7. Paired(g)
  <2> SUFFICES ASSUME NEW i \in 1 .. n + 1, IsTool(g[i])
               PROVE  i > 1 /\ IsCall(g[i - 1]) /\ g[i - 1].id = g[i].id
    BY <1>1 DEF Paired
  <2>1. CASE i \in 1 .. n
    <3>1. i > 1 /\ IsCall(h[i - 1]) /\ h[i - 1].id = h[i].id
      BY <1>1, <2>1 DEF Shape, Paired
    <3>2. i - 1 \in 1 .. n
      BY <1>1, <2>1, <3>1
    <3> QED BY <1>1, <2>1, <3>1, <3>2
  <2>2. CASE i = n + 1
    <3>1. h # <<>> /\ IsCall(h[n]) /\ h[n].id = m.id
      BY <1>1, <2>2 DEF MayFollow
    <3>2. n \in 1 .. n
      BY <1>1, <1>2, <3>1
    <3> QED BY <1>1, <2>2, <3>1, <3>2
  <2> QED BY <1>3, <2>1, <2>2
<1>8. AskedFor(g)
  <2> SUFFICES ASSUME NEW i \in 1 .. n + 1, IsTool(g[i])
               PROVE  \E j \in 1 .. (i - 1) : g[j].kind = "request"
    BY <1>1 DEF AskedFor
  <2>1. CASE i \in 1 .. n
    <3>1. PICK j \in 1 .. (i - 1) : h[j].kind = "request"
      BY <1>1, <2>1 DEF Shape, AskedFor
    <3>2. j \in 1 .. n
      BY <1>1, <2>1
    <3> QED BY <1>1, <3>1, <3>2
  <2>2. CASE i = n + 1
    <3>1. PICK j \in 1 .. n : h[j].kind = "request"
      BY <1>1, <2>2 DEF MayFollow
    <3> QED BY <1>1, <2>2, <3>1
  <2> QED BY <1>3, <2>1, <2>2
<1>9. Masked(g)
  <2>1. \A i \in 1 .. n : IsTool(g[i]) => OutcomeIsMasked(g[i])
    BY <1>1 DEF Shape, Masked
  <2>2. IsTool(g[n + 1]) => OutcomeIsMasked(g[n + 1])
    BY <1>1 DEF MayFollow
  <2> QED BY <1>1, <1>3, <2>1, <2>2 DEF Masked
<1>10. DigestsFirst(g)
  <2> SUFFICES ASSUME NEW i \in 1 .. n + 1, NEW j \in 1 .. n + 1,
                      g[i].kind = "digest", g[j].kind = "request"
               PROVE  i < j
    BY <1>1 DEF DigestsFirst
  <2>1. CASE i \in 1 .. n /\ j \in 1 .. n
    BY <1>1, <2>1 DEF Shape, DigestsFirst
  <2>2. CASE i = n + 1
    <3>1. m.kind = "digest" /\ m.kind # "request"
      BY <1>1, <2>2
    <3>2. j \in 1 .. n
      BY <1>1, <1>3, <3>1
    <3> QED BY <1>1, <3>1, <3>2 DEF MayFollow
  <2>3. CASE i \in 1 .. n /\ j = n + 1
    BY <1>1, <2>3
  <2> QED BY <1>3, <2>1, <2>2, <2>3
<1>11. Shape(g)
  BY <1>1, <1>6, <1>7, <1>8, <1>9, <1>10 DEF Shape
<1>12. ASSUME Newest(h), IsTool(m) => m.kind = "full" PROVE Newest(g)
  <2> SUFFICES ASSUME NEW i \in 1 .. n + 1, IsTool(g[i])
               PROVE  /\ g[i].kind = "compacted" => Superseded(g, i)
                      /\ g[i].kind = "cleared" => ToolsAfter(g, i) >= KeepResults
    BY <1>1 DEF Newest
  <2>1. CASE i \in 1 .. n
    <3>1. g[i] = h[i]
      BY <1>1, <2>1
    <3>2. /\ h[i].kind = "compacted" => Superseded(h, i)
          /\ h[i].kind = "cleared" => ToolsAfter(h, i) >= KeepResults
      BY <1>12, <2>1, <3>1 DEF Newest
    <3>3. Superseded(h, i) => Superseded(g, i)
      <4> SUFFICES ASSUME NEW j \in i + 1 .. n, IsTool(h[j]), h[j].tool = h[i].tool
                   PROVE  Superseded(g, i)
        BY DEF Superseded
      <4>1. j \in 1 .. n /\ j \in i + 1 .. n + 1
        BY <1>1, <2>1
      <4>2. g[j] = h[j]
        BY <1>1, <4>1
      <4> QED BY <1>1, <3>1, <4>1, <4>2 DEF Superseded
    <3>4. ToolsAfter(h, i) >= KeepResults => ToolsAfter(g, i) >= KeepResults
      <4>1. /\ ToolsAfter(h, i) \in Nat /\ ToolsAfter(g, i) \in Nat
            /\ ToolsAfter(g, i) >= ToolsAfter(h, i)
        BY <1>1, <1>5, <2>1, ToolsAfterAppend DEF g, Shape
      <4> QED BY <4>1, HistoryConstants
    <3> QED BY <3>1, <3>2, <3>3, <3>4
  <2>2. CASE i = n + 1
    BY <1>1, <1>12, <2>2
  <2> QED BY <1>3, <2>1, <2>2
<1> QED BY <1>11, <1>12 DEF g

LEMMA AppendIsWell ==
    ASSUME NEW h, Well(h), NEW m, MayFollow(h, m), IsTool(m) => m.kind = "full"
    PROVE  Well(Append(h, m))
BY AppendKeeps DEF Well

\* A request or a digest of a newer task is told of; other messages tell of none.
LEMMA AppendTells ==
    ASSUME NEW h \in Seq(Messages), NEW m \in Messages, NEW of, Story(h, of)
    PROVE  /\ m.kind \notin {"request", "digest"} => Story(Append(h, m), of)
           /\ m.kind \in {"request", "digest"} /\ (\A t \in of : t < m.task)
                => Story(Append(h, m), of \union {m.task})
<1> DEFINE g == Append(h, m)
           n == Len(h)
<1>1. /\ g \in Seq(Messages) /\ n \in Nat /\ Len(g) = n + 1
      /\ \A i \in 1 .. n : g[i] = h[i]
      /\ g[n + 1] = m
  BY AppendFacts
<1>2. Told(h) \subseteq 1 .. n
  BY DEF Told
<1> HIDE DEF g
<1>3. Told(g) = Told(h) \union (IF m.kind \in {"request", "digest"} THEN {n + 1} ELSE {})
  <2>1. \A i \in 1 .. n + 1 : i \in 1 .. n \/ i = n + 1
    BY <1>1
  <2>2. \A i \in 1 .. n : i \in 1 .. n + 1
    BY <1>1
  <2>3. n + 1 \in 1 .. n + 1 /\ n + 1 \notin 1 .. n
    BY <1>1
  <2> QED BY <1>1, <2>1, <2>2, <2>3 DEF Told
<1>4. {g[i].task : i \in Told(h)} = of
  BY <1>1, <1>2 DEF Story
<1>5. \A i, j \in Told(h) : i < j => g[i].task < g[j].task
  BY <1>1, <1>2 DEF Story
<1>6. ASSUME m.kind \notin {"request", "digest"} PROVE Story(g, of)
  <2>1. Told(g) = Told(h)
    BY <1>3, <1>6
  <2> QED BY <1>4, <1>5, <2>1 DEF Story
<1>7. ASSUME m.kind \in {"request", "digest"}, \A t \in of : t < m.task
      PROVE  Story(g, of \union {m.task})
  <2>1. Told(g) = Told(h) \union {n + 1}
    BY <1>3, <1>7
  <2>2. {g[i].task : i \in Told(g)} = of \union {m.task}
    BY <1>1, <1>4, <2>1
  <2>3. \A i \in Told(h) : i < n + 1 /\ g[i].task < g[n + 1].task
    <3> SUFFICES ASSUME NEW i \in Told(h) PROVE i < n + 1 /\ g[i].task < g[n + 1].task
      OBVIOUS
    <3>1. g[i].task \in of
      BY <1>4
    <3> QED BY <1>1, <1>2, <1>7, <3>1
  <2>4. \A i, j \in Told(g) : i < j => g[i].task < g[j].task
    <3> SUFFICES ASSUME NEW i \in Told(g), NEW j \in Told(g), i < j
                 PROVE  g[i].task < g[j].task
      OBVIOUS
    <3>1. CASE i \in Told(h) /\ j \in Told(h)
      BY <1>5, <3>1
    <3>2. CASE i \in Told(h) /\ j = n + 1
      BY <2>3, <3>2
    <3>3. CASE i = n + 1
      BY <1>1, <1>2, <2>1, <3>3
    <3> QED BY <2>1, <3>1, <3>2, <3>3
  <2> QED BY <2>2, <2>4 DEF Story
<1> QED BY <1>6, <1>7 DEF g

-----------------------------------------------------------------------------
(* Seeding.                                                                *)

Requested(h, t) == \E i \in 1 .. Len(h) : h[i] = TaskRequest(t)

\* The two first steps of ensure_history.
Seeded(h, p) ==
    IF \E i \in 1 .. Len(h) : h[i].role = "system"
    THEN [h EXCEPT ![1] = System(p)] ELSE <<System(p)>> \o h
Asking(h, t) == IF Requested(h, t) THEN h ELSE Append(h, TaskRequest(t))

LEMMA EnsureInSteps ==
    ASSUME NEW h, NEW p
    PROVE  EnsureHistory(h, p)
             = ApplyHistoryBudget(CompactSnapshotHistory(Asking(Seeded(h, p), task)))
BY DEF EnsureHistory, Seeded, Asking, Requested

LEMMA SystemIsMessage ==
    ASSUME NEW p \in Nat
    PROVE  /\ System(p) \in Messages /\ System(p).role = "system"
           /\ System(p).kind = "prompt" /\ ~IsTool(System(p)) /\ ~IsCall(System(p))
BY DEF System, Messages, IsTool, IsCall

\* The prompt takes the place of the one before, or the first place.
LEMMA SeedingKeeps ==
    ASSUME NEW h, Well(h), NEW p \in Nat
    PROVE  /\ Well(Seeded(h, p)) /\ Seeded(h, p) # <<>>
           /\ \A t : Requested(Seeded(h, p), t) <=> Requested(h, t)
           /\ \A of : Story(h, of) => Story(Seeded(h, p), of)
<1>1. h \in Seq(Messages) /\ Headed(h) /\ Len(h) \in Nat
  BY DEF Well, Shape
<1>2. CASE h = <<>>
  <2> DEFINE g == <<System(p)>>
  <2>1. Seeded(h, p) = g
    BY <1>2 DEF Seeded
  <2>2. g \in Seq(Messages) /\ Len(g) = 1 /\ g[1] = System(p) /\ g # <<>>
    BY SystemIsMessage
  <2> HIDE DEF g
  <2>3. \A i \in 1 .. Len(g) : i = 1
    BY <2>2
  <2>4. Headed(g) /\ Paired(g) /\ AskedFor(g) /\ Masked(g) /\ Newest(g)
    BY <2>2, <2>3, SystemIsMessage DEF Headed, Paired, AskedFor, Masked, Newest
  <2>5. DigestsFirst(g)
    BY <2>2, <2>3, SystemIsMessage DEF DigestsFirst
  <2>6. \A t : ~Requested(g, t)
    BY <2>2, <2>3, SystemIsMessage DEF Requested, TaskRequest, System
  <2>7. \A t : ~Requested(h, t)
    BY <1>2 DEF Requested
  <2>8. Told(g) = {} /\ Told(h) = {}
    BY <1>2, <2>2, <2>3, SystemIsMessage DEF Told
  <2>9. ASSUME NEW of, Story(h, of) PROVE Story(g, of)
    BY <2>8, <2>9 DEF Story
  <2> QED BY <2>1, <2>2, <2>4, <2>5, <2>6, <2>7, <2>9 DEF Well, Shape
<1>3. CASE h # <<>>
  <2> DEFINE g == [h EXCEPT ![1] = System(p)]
  <2>1. 1 \in 1 .. Len(h)
    BY <1>1, <1>3
  <2>2. h[1].role = "system" /\ h[1] \in Messages
    BY <1>1, <2>1 DEF Headed
  <2>3. Seeded(h, p) = g
    BY <2>1, <2>2 DEF Seeded
  <2>4. /\ g \in Seq(Messages) /\ Len(g) = Len(h) /\ g # <<>>
        /\ g[1] = System(p)
        /\ \A i \in 1 .. Len(h) : i # 1 => g[i] = h[i]
    BY <1>1, <1>3, <2>1, SystemIsMessage
  <2>5. h[1].kind = "prompt" /\ ~IsTool(h[1]) /\ ~IsCall(h[1])
    BY <2>2, MessageFacts DEF IsTool, IsCall
  <2> HIDE DEF g
  <2>6. /\ g[1].role = "system" /\ g[1].kind = "prompt" /\ ~IsTool(g[1]) /\ ~IsCall(g[1])
    BY <2>4, SystemIsMessage
  <2>7. \A i \in 1 .. Len(h) :
          /\ IsTool(g[i]) <=> IsTool(h[i])
          /\ IsCall(g[i]) <=> IsCall(h[i])
          /\ g[i].kind = h[i].kind
          /\ h[i].kind # "prompt" => g[i] = h[i]
          /\ IsTool(h[i]) => g[i] = h[i]
          /\ IsCall(h[i]) => g[i] = h[i]
    BY <2>4, <2>5, <2>6
  <2>8. Headed(g)
    BY <1>1, <2>4, <2>6 DEF Headed
  <2>9. Paired(g)
    <3> SUFFICES ASSUME NEW i \in 1 .. Len(h), IsTool(g[i])
                 PROVE  i > 1 /\ IsCall(g[i - 1]) /\ g[i - 1].id = g[i].id
      BY <2>4 DEF Paired
    <3>1. IsTool(h[i]) /\ g[i] = h[i]
      BY <2>7
    <3>2. i > 1 /\ IsCall(h[i - 1]) /\ h[i - 1].id = h[i].id
      BY <3>1 DEF Well, Shape, Paired
    <3>3. i - 1 \in 1 .. Len(h)
      BY <1>1, <3>2
    <3> QED BY <2>7, <3>1, <3>2, <3>3
  <2>10. AskedFor(g)
    <3> SUFFICES ASSUME NEW i \in 1 .. Len(h), IsTool(g[i])
                 PROVE  \E j \in 1 .. (i - 1) : g[j].kind = "request"
      BY <2>4 DEF AskedFor
    <3>1. IsTool(h[i])
      BY <2>7
    <3>2. PICK j \in 1 .. (i - 1) : h[j].kind = "request"
      BY <3>1 DEF Well, Shape, AskedFor
    <3>3. j \in 1 .. Len(h)
      BY <1>1
    <3> QED BY <2>7, <3>2, <3>3
  <2>11. Masked(g)
    BY <2>4, <2>7 DEF Well, Shape, Masked
  <2>12. DigestsFirst(g)
    BY <2>4, <2>7 DEF Well, Shape, DigestsFirst
  <2>13. Newest(g)
    <3> SUFFICES ASSUME NEW i \in 1 .. Len(h), IsTool(g[i])
                 PROVE  /\ g[i].kind = "compacted" => Superseded(g, i)
                        /\ g[i].kind = "cleared" => ToolsAfter(g, i) >= KeepResults
      BY <2>4 DEF Newest
    <3>1. IsTool(h[i]) /\ g[i] = h[i]
      BY <2>7
    <3>2. /\ h[i].kind = "compacted" => Superseded(h, i)
          /\ h[i].kind = "cleared" => ToolsAfter(h, i) >= KeepResults
      BY <3>1 DEF Well, Newest
    <3>3. \A j \in i + 1 .. Len(h) : g[j] = h[j]
      BY <1>1, <2>4
    <3>4. Superseded(h, i) => Superseded(g, i)
      BY <2>4, <3>1, <3>3 DEF Superseded
    <3>5. ToolsAfter(g, i) = ToolsAfter(h, i)
      <4>1. {j \in i + 1 .. Len(g) : IsTool(g[j])} = {j \in i + 1 .. Len(h) : IsTool(h[j])}
        BY <2>4, <3>3
      <4> QED BY <4>1 DEF ToolsAfter
    <3> QED BY <3>1, <3>2, <3>4, <3>5
  <2>14. ASSUME NEW t PROVE Requested(g, t) <=> Requested(h, t)
    <3>1. TaskRequest(t).kind = "request"
      BY DEF TaskRequest
    <3> QED BY <2>4, <2>5, <2>6, <2>7, <3>1 DEF Requested
  <2>15. Told(g) = Told(h) /\ \A i \in Told(h) : g[i] = h[i]
    BY <2>4, <2>7 DEF Told
  <2>16. ASSUME NEW of, Story(h, of) PROVE Story(g, of)
    <3>1. {g[i].task : i \in Told(h)} = {h[i].task : i \in Told(h)}
      BY <2>15
    <3> QED BY <2>15, <2>16, <3>1 DEF Story
  <2> QED BY <2>3, <2>4, <2>8, <2>9, <2>10, <2>11, <2>12, <2>13, <2>14, <2>16 DEF Well, Shape
<1> QED BY <1>2, <1>3

\* What is requested stays requested.
LEMMA ShrinkingAsks ==
    ASSUME NEW h, Well(h), NEW g, Shrinks(h, g), NEW t, Requested(h, t)
    PROVE  Requested(g, t)
<1>1. PICK i \in 1 .. Len(h) : h[i] = TaskRequest(t)
  BY DEF Requested
<1>2. ~IsTool(h[i])
  BY <1>1 DEF TaskRequest, IsTool
<1>3. g[i] = h[i] /\ Len(g) = Len(h)
  BY <1>2, ShrinkingKeeps DEF Shrinks
<1> QED BY <1>1, <1>3 DEF Requested

\* Ensuring the history keeps what it is and asks for the task, once.
LEMMA EnsuringKeeps ==
    ASSUME NEW h, Well(h), NEW p \in Nat, task \in Nat
    PROVE  /\ Well(EnsureHistory(h, p)) /\ EnsureHistory(h, p) # <<>>
           /\ Requested(EnsureHistory(h, p), task)
           /\ \A of : Story(h, of) /\ (Requested(h, task) \/ \A t \in of : t < task)
                => Story(EnsureHistory(h, p),
                         IF Requested(h, task) THEN of ELSE of \union {task})
<1> DEFINE s == Seeded(h, p)
           a == Asking(s, task)
           c == CompactSnapshotHistory(a)
           e == ApplyHistoryBudget(c)
           m == TaskRequest(task)
<1>1. EnsureHistory(h, p) = e
  BY EnsureInSteps
<1>2. /\ Well(s) /\ s # <<>>
      /\ Requested(s, task) <=> Requested(h, task)
      /\ \A of : Story(h, of) => Story(s, of)
  BY SeedingKeeps
<1>3. m \in Messages /\ m.kind = "request" /\ m.role = "user" /\ ~IsTool(m) /\ m.task = task
  BY DEF TaskRequest, Messages, IsTool
<1> HIDE DEF s, m
<1>4. MayFollow(s, m)
  BY <1>2, <1>3 DEF MayFollow
<1>5. s \in Seq(Messages) /\ Len(s) \in Nat
  BY <1>2 DEF Well, Shape
<1>6. /\ Well(a) /\ a # <<>> /\ Requested(a, task)
      /\ \A of : Story(h, of) /\ (Requested(h, task) \/ \A t \in of : t < task)
           => Story(a, IF Requested(h, task) THEN of ELSE of \union {task})
  <2>1. CASE Requested(s, task)
    BY <1>2, <2>1 DEF Asking
  <2>2. CASE ~Requested(s, task)
    <3>1. a = Append(s, m)
      BY <2>2 DEF Asking, m
    <3>2. Well(a)
      BY <1>2, <1>3, <1>4, <3>1, AppendIsWell
    <3>3. Len(a) = Len(s) + 1 /\ a[Len(s) + 1] = m
      BY <1>3, <1>5, <3>1
    <3>4. a # <<>> /\ Requested(a, task)
      BY <1>5, <3>3 DEF Requested, m
    <3>5. ASSUME NEW of, Story(h, of), \A t \in of : t < task
          PROVE  Story(a, of \union {task})
      BY <1>2, <1>3, <1>5, <3>1, <3>5, AppendTells
    <3> HIDE DEF a
    <3> QED BY <1>2, <2>2, <3>2, <3>4, <3>5
  <2> QED BY <2>1, <2>2
<1> HIDE DEF a
<1>7. Shrinks(a, c) /\ Len(a) \in Nat /\ Len(a) # 0
  BY <1>6, CompactionShrinks DEF Well, Shape
<1>8. Well(c) /\ Requested(c, task) /\ Len(c) = Len(a) /\ \A of : Story(a, of) => Story(c, of)
  BY <1>6, <1>7, ShrinkingKeeps, ShrinkingAsks DEF Shrinks
<1> HIDE DEF c
<1>9. Shrinks(c, e)
  BY <1>8, BudgetShrinks
<1>10. Well(e) /\ Requested(e, task) /\ Len(e) = Len(c) /\ \A of : Story(c, of) => Story(e, of)
  BY <1>8, <1>9, ShrinkingKeeps, ShrinkingAsks DEF Shrinks
<1> HIDE DEF e
<1>11. e # <<>>
  BY <1>7, <1>8, <1>10
<1> QED BY <1>1, <1>6, <1>8, <1>10, <1>11

-----------------------------------------------------------------------------
(* The request of openai_compat.                                           *)

Wires == [wire : Seq(Messages), pending : SUBSET (Ids \union {NoId})]
NoWire == [wire |-> <<>>, pending |-> {}]

\* What one message adds.
Wired(h, s, i) ==
    IF IsCall(h[i])
    THEN IF h[i].id # NoId /\ h[i].id \in AnsweredIds(h, i)
         THEN [wire |-> Append(s.wire, h[i]), pending |-> {h[i].id}]
         ELSE [wire |-> s.wire, pending |-> {}]
    ELSE IF IsTool(h[i])
    THEN IF h[i].id \in s.pending
         THEN [wire |-> Append(s.wire, h[i]), pending |-> s.pending \ {h[i].id}]
         ELSE s
    ELSE [wire |-> Append(s.wire, h[i]), pending |-> {}]

WiresOf(f, h) ==
    f = [i \in 0 .. Len(h) |-> IF i = 0 THEN NoWire ELSE Wired(h, f[i - 1], i)]

LEMMA WireTyped ==
    ASSUME NEW h \in Seq(Messages), NEW s \in Wires, NEW i \in 1 .. Len(h)
    PROVE  Wired(h, s, i) \in Wires
<1>1. h[i] \in Messages /\ s.wire \in Seq(Messages) /\ s.pending \in SUBSET (Ids \union {NoId})
  BY DEF Wires
<1>2. IsCall(h[i]) => h[i].id \in Ids \union {NoId}
  BY <1>1, MessageFacts DEF CallMessages
<1>3. Append(s.wire, h[i]) \in Seq(Messages)
  BY <1>1
<1> QED BY <1>1, <1>2, <1>3 DEF Wired, Wires

\* The recursion of messages_to_wire has a result, message by message.
LEMMA WiresExist ==
    ASSUME NEW h \in Seq(Messages)
    PROVE  \E f \in [0 .. Len(h) -> Wires] : WiresOf(f, h)
<1> DEFINE n == Len(h)
           step == [x \in Wires \X Nat |-> IF x[2] \in 1 .. n THEN Wired(h, x[1], x[2]) ELSE x[1]]
<1>1. n \in Nat
  OBVIOUS
<1>2. NoWire \in Wires
  BY DEF NoWire, Wires
<1>3. step \in [Wires \X Nat -> Wires]
  BY WireTyped
<1>4. PICK f \in [0 .. n -> Wires] : Follows(f, NoWire, step, n)
  <2> HIDE DEF step, n
  <2> QED BY <1>1, <1>2, <1>3, Recursion
<1>5. \A i \in 0 .. n : f[i] = IF i = 0 THEN NoWire ELSE Wired(h, f[i - 1], i)
  <2> SUFFICES ASSUME NEW i \in 0 .. n
               PROVE  f[i] = IF i = 0 THEN NoWire ELSE Wired(h, f[i - 1], i)
    OBVIOUS
  <2>1. f[i] = IF i = 0 THEN NoWire ELSE step[<<f[i - 1], i>>]
    <3> HIDE DEF step, n
    <3> QED BY <1>4 DEF Follows
  <2>2. CASE i # 0
    <3>1. <<f[i - 1], i>> \in Wires \X Nat /\ i \in 1 .. n
      BY <2>2, <1>1
    <3> QED BY <2>1, <2>2, <3>1
  <2> QED BY <2>1, <2>2
<1>6. WiresOf(f, h)
  BY <1>4, <1>5 DEF WiresOf
<1> QED BY <1>6

ResultsUpTo(h, k) == {j \in 1 .. k : IsTool(h[j])}

\* Calls and results of a request stand together; its last message may be a call.
PairsIn(w) ==
    /\ \A k \in 1 .. Len(w) :
         IsCall(w[k]) /\ k < Len(w) => IsTool(w[k + 1]) /\ w[k + 1].id = w[k].id
    /\ \A k \in 1 .. Len(w) : IsTool(w[k]) => k > 1 /\ IsCall(w[k - 1])

\* The request is paired as far as it goes, and holds every result up to there.
PairedSoFar(h, s, i) ==
    LET w == s.wire IN
    /\ s \in Wires /\ PairsIn(w)
    /\ w # <<>> /\ IsCall(w[Len(w)]) => i < Len(h) /\ IsTool(h[i + 1])
    /\ i > 0 /\ i < Len(h) /\ IsTool(h[i + 1])
         => w # <<>> /\ w[Len(w)] = h[i] /\ IsCall(h[i]) /\ s.pending = {h[i].id}
    /\ Cardinality(ResultsUpTo(w, Len(w))) = Cardinality(ResultsUpTo(h, i))

\* One more message, one more result or none.
LEMMA ResultsGrow ==
    ASSUME NEW h, NEW i \in Nat \ {0}
    PROVE  /\ Cardinality(ResultsUpTo(h, i - 1)) \in Nat
           /\ Cardinality(ResultsUpTo(h, i))
                = Cardinality(ResultsUpTo(h, i - 1)) + IF IsTool(h[i]) THEN 1 ELSE 0
<1> DEFINE A == ResultsUpTo(h, i - 1)
<1>1. IsFiniteSet(A)
  <2>1. A \subseteq 1 .. (i - 1) /\ IsFiniteSet(1 .. (i - 1))
    BY FS_Interval DEF ResultsUpTo
  <2> QED BY <2>1, FS_Subset
<1>2. i \notin A /\ ResultsUpTo(h, i) = IF IsTool(h[i]) THEN A \union {i} ELSE A
  BY DEF ResultsUpTo
<1> HIDE DEF A
<1>3. Cardinality(A) \in Nat /\ Cardinality(A \union {i}) = Cardinality(A) + 1
  BY <1>1, <1>2, FS_AddElement, FS_CardinalityType
<1> QED BY <1>2, <1>3 DEF A

\* The same for a message appended.
LEMMA WireGrows ==
    ASSUME NEW w \in Seq(Messages), NEW m \in Messages
    PROVE  /\ Cardinality(ResultsUpTo(w, Len(w))) \in Nat
           /\ Cardinality(ResultsUpTo(Append(w, m), Len(w) + 1))
                = Cardinality(ResultsUpTo(w, Len(w))) + IF IsTool(m) THEN 1 ELSE 0
<1> DEFINE v == Append(w, m)
<1>1. /\ Len(w) \in Nat /\ v[Len(w) + 1] = m
      /\ \A i \in 1 .. Len(w) : v[i] = w[i]
  BY AppendFacts
<1> HIDE DEF v
<1>2. ResultsUpTo(v, Len(w)) = ResultsUpTo(w, Len(w))
  BY <1>1 DEF ResultsUpTo
<1>3. Len(w) + 1 \in Nat \ {0} /\ (Len(w) + 1) - 1 = Len(w)
  BY <1>1
<1>4. /\ Cardinality(ResultsUpTo(v, Len(w))) \in Nat
      /\ Cardinality(ResultsUpTo(v, Len(w) + 1))
           = Cardinality(ResultsUpTo(v, Len(w))) + IF IsTool(m) THEN 1 ELSE 0
  BY <1>1, <1>3, ResultsGrow
<1> QED BY <1>2, <1>4 DEF v

\* A message that answers the last call, or follows none, keeps the pairs.
LEMMA PairsAppend ==
    ASSUME NEW w \in Seq(Messages), NEW m \in Messages, PairsIn(w),
           IsTool(m) => w # <<>> /\ IsCall(w[Len(w)]) /\ w[Len(w)].id = m.id,
           w # <<>> /\ IsCall(w[Len(w)]) => IsTool(m)
    PROVE  PairsIn(Append(w, m))
<1> DEFINE v == Append(w, m)
           n == Len(w)
<1>1. /\ n \in Nat /\ Len(v) = n + 1 /\ v[n + 1] = m
      /\ \A k \in 1 .. n : v[k] = w[k]
      /\ w = <<>> <=> n = 0
  BY AppendFacts
<1> HIDE DEF v
<1>2. ASSUME NEW k \in 1 .. Len(v), IsCall(v[k]), k < Len(v)
      PROVE  IsTool(v[k + 1]) /\ v[k + 1].id = v[k].id
  <2>1. k \in 1 .. n /\ v[k] = w[k]
    BY <1>1, <1>2
  <2>2. CASE k = n
    BY <1>1, <1>2, <2>1, <2>2
  <2>3. CASE k # n
    <3>1. k < n /\ k + 1 \in 1 .. n
      BY <1>1, <2>1, <2>3
    <3>2. IsTool(w[k + 1]) /\ w[k + 1].id = w[k].id
      BY <1>2, <2>1, <3>1 DEF PairsIn
    <3> QED BY <1>1, <2>1, <3>1, <3>2
  <2> QED BY <2>2, <2>3
<1>3. ASSUME NEW k \in 1 .. Len(v), IsTool(v[k])
      PROVE  k > 1 /\ IsCall(v[k - 1])
  <2>1. CASE k \in 1 .. n
    <3>1. k > 1 /\ IsCall(w[k - 1])
      BY <1>1, <1>3, <2>1 DEF PairsIn
    <3>2. k - 1 \in 1 .. n
      BY <1>1, <2>1, <3>1
    <3> QED BY <1>1, <3>1, <3>2
  <2>2. CASE k = n + 1
    <3>1. n # 0 /\ IsCall(w[n]) /\ n \in 1 .. n
      BY <1>1, <1>3, <2>2
    <3> QED BY <1>1, <2>2, <3>1
  <2> QED BY <1>1, <2>1, <2>2
<1> QED BY <1>2, <1>3 DEF PairsIn, v

\* Every message keeps it so.
LEMMA WirePairs ==
    ASSUME NEW h, Well(h), NoId \notin Ids, NEW i \in 1 .. Len(h), NEW s,
           PairedSoFar(h, s, i - 1)
    PROVE  PairedSoFar(h, Wired(h, s, i), i)
<1> DEFINE w == s.wire
           m == h[i]
           t == Wired(h, s, i)
           v == Append(w, m)
<1> SUFFICES PairedSoFar(h, t, i)
  OBVIOUS
<1>1. h \in Seq(Messages) /\ Len(h) \in Nat /\ m \in Messages /\ i \in Nat \ {0} /\ i <= Len(h)
  BY DEF Well, Shape
<1>2. /\ s \in Wires /\ w \in Seq(Messages) /\ Len(w) \in Nat
      /\ w # <<>> <=> Len(w) # 0
  BY DEF PairedSoFar, Wires
<1>3. t \in Wires
  BY <1>1, <1>2, WireTyped
<1>4. /\ PairsIn(w)
      /\ w # <<>> /\ IsCall(w[Len(w)]) => IsTool(m)
      /\ i > 1 /\ IsTool(m)
           => /\ w # <<>> /\ w[Len(w)] = h[i - 1] /\ IsCall(h[i - 1])
              /\ s.pending = {h[i - 1].id}
      /\ Cardinality(ResultsUpTo(w, Len(w))) = Cardinality(ResultsUpTo(h, i - 1))
  BY <1>1 DEF PairedSoFar
<1>5. /\ Len(v) = Len(w) + 1 /\ v[Len(w) + 1] = m /\ v # <<>> /\ v[Len(v)] = m
      /\ Cardinality(ResultsUpTo(w, Len(w))) \in Nat
      /\ Cardinality(ResultsUpTo(v, Len(v)))
           = Cardinality(ResultsUpTo(w, Len(w))) + IF IsTool(m) THEN 1 ELSE 0
  <2>1. Len(v) = Len(w) + 1 /\ v[Len(w) + 1] = m
    BY <1>1, <1>2, AppendFacts
  <2>2. v # <<>>
    BY <1>2, <2>1
  <2>3. /\ Cardinality(ResultsUpTo(w, Len(w))) \in Nat
        /\ Cardinality(ResultsUpTo(v, Len(w) + 1))
             = Cardinality(ResultsUpTo(w, Len(w))) + IF IsTool(m) THEN 1 ELSE 0
    BY <1>1, <1>2, WireGrows
  <2> HIDE DEF v, m
  <2> QED BY <2>1, <2>2, <2>3
<1>6. Cardinality(ResultsUpTo(h, i))
        = Cardinality(ResultsUpTo(h, i - 1)) + IF IsTool(m) THEN 1 ELSE 0
  BY <1>1, ResultsGrow
<1>7. IsTool(m) => /\ ~IsCall(m) /\ i > 1 /\ IsCall(h[i - 1]) /\ h[i - 1].id = m.id
  BY <1>1, MessageFacts DEF Well, Shape, Paired
<1>8. i < Len(h) /\ IsTool(h[i + 1])
        => IsCall(m) /\ m.id = h[i + 1].id /\ m.id \in Ids
  <2> SUFFICES ASSUME i < Len(h), IsTool(h[i + 1])
               PROVE  IsCall(m) /\ m.id = h[i + 1].id /\ m.id \in Ids
    OBVIOUS
  <2>1. i + 1 \in 1 .. Len(h) /\ h[i + 1] \in Messages
    BY <1>1
  <2>2. IsCall(h[(i + 1) - 1]) /\ h[(i + 1) - 1].id = h[i + 1].id
    BY <2>1 DEF Well, Shape, Paired
  <2>3. h[i + 1].id \in Ids
    BY <2>1, MessageFacts DEF ToolMessages
  <2> QED BY <1>1, <2>2, <2>3
<1>9. CASE IsCall(m) /\ m.id # NoId /\ m.id \in AnsweredIds(h, i)
  <2>1. t = [wire |-> v, pending |-> {m.id}]
    BY <1>9 DEF Wired
  <2>2. i < Len(h) /\ IsTool(h[i + 1])
    <3>1. PICK k \in i + 1 .. Len(h) : \A l \in i + 1 .. k : IsTool(h[l])
      BY <1>9 DEF AnsweredIds
    <3> QED BY <1>1, <3>1
  <2>3. ~IsTool(m) /\ (w # <<>> => ~IsCall(w[Len(w)]))
    BY <1>4, <1>7, <1>9
  <2>4. PairsIn(v)
    BY <1>1, <1>2, <1>4, <2>3, PairsAppend
  <2>5. /\ t.wire = v /\ t.pending = {h[i].id} /\ v[Len(v)] = h[i] /\ IsCall(h[i])
        /\ Cardinality(ResultsUpTo(v, Len(v))) = Cardinality(ResultsUpTo(h, i))
    BY <1>4, <1>5, <1>6, <1>9, <2>1
  <2> HIDE DEF w, t, m, v
  <2> QED BY <1>1, <1>3, <1>5, <2>2, <2>4, <2>5 DEF PairedSoFar
<1>10. CASE IsCall(m) /\ ~(m.id # NoId /\ m.id \in AnsweredIds(h, i))
  <2>1. t = [wire |-> w, pending |-> {}]
    BY <1>10 DEF Wired
  <2>2. ~(i < Len(h) /\ IsTool(h[i + 1]))
    <3> SUFFICES ASSUME i < Len(h), IsTool(h[i + 1]) PROVE FALSE
      OBVIOUS
    <3>1. m.id = h[i + 1].id /\ m.id # NoId
      BY <1>8
    <3>2. i + 1 \in {k \in i + 1 .. Len(h) : \A l \in i + 1 .. k : IsTool(h[l])}
      BY <1>1
    <3>3. m.id \in AnsweredIds(h, i)
      BY <3>1, <3>2 DEF AnsweredIds
    <3> QED BY <1>10, <3>1, <3>3
  <2>3. ~IsTool(m) /\ (w # <<>> => ~IsCall(w[Len(w)]))
    BY <1>4, <1>7, <1>10
  <2> HIDE DEF w, t, m, v
  <2> QED
    BY <1>1, <1>2, <1>3, <1>4, <1>5, <1>6, <2>1, <2>2, <2>3 DEF PairedSoFar, m, t
<1>11. CASE IsTool(m)
  <2>1. /\ ~IsCall(m) /\ i > 1 /\ w # <<>> /\ w[Len(w)] = h[i - 1] /\ IsCall(h[i - 1])
        /\ s.pending = {m.id} /\ h[i - 1].id = m.id
    BY <1>4, <1>7, <1>11
  <2>2. t.wire = v
    BY <1>11, <2>1 DEF Wired
  <2>3. ~(i < Len(h) /\ IsTool(h[i + 1]))
    BY <1>8, <2>1
  <2> HIDE DEF w, t, m, v
  <2>4. PairsIn(v)
    <3>1. w[Len(w)].id = m.id
      BY <2>1
    <3> HIDE DEF w, m
    <3> QED BY <1>1, <1>2, <1>4, <1>11, <2>1, <3>1, PairsAppend DEF v
  <2>5. /\ v[Len(v)] = m /\ ~IsCall(m)
        /\ Cardinality(ResultsUpTo(v, Len(v))) = Cardinality(ResultsUpTo(h, i))
    BY <1>4, <1>5, <1>6, <1>11, <2>1
  <2> HIDE DEF w, t, m, v
  <2> QED BY <1>1, <1>3, <1>5, <2>2, <2>3, <2>4, <2>5 DEF PairedSoFar
<1>12. CASE ~IsCall(m) /\ ~IsTool(m)
  <2>1. t = [wire |-> v, pending |-> {}]
    BY <1>12 DEF Wired
  <2>2. ~(i < Len(h) /\ IsTool(h[i + 1]))
    BY <1>8, <1>12
  <2>3. PairsIn(v)
    BY <1>1, <1>2, <1>4, <1>12, PairsAppend
  <2>4. /\ t.wire = v /\ v[Len(v)] = m /\ ~IsCall(m)
        /\ Cardinality(ResultsUpTo(v, Len(v))) = Cardinality(ResultsUpTo(h, i))
    BY <1>4, <1>5, <1>6, <1>12, <2>1
  <2> HIDE DEF w, t, m, v
  <2> QED BY <1>1, <1>3, <1>5, <2>2, <2>3, <2>4 DEF PairedSoFar
<1> QED BY <1>9, <1>10, <1>11, <1>12

\* A history that is well makes a request that is paired and leaves no result out.
LEMMA WireIsPaired ==
    ASSUME NEW h, Well(h)
    PROVE  LET w == MessagesToWire(h) IN
           /\ \A i \in 1 .. Len(w) :
                IsCall(w[i]) => i < Len(w) /\ IsTool(w[i + 1]) /\ w[i + 1].id = w[i].id
           /\ \A i \in 1 .. Len(w) : IsTool(w[i]) => i > 1 /\ IsCall(w[i - 1])
           /\ Cardinality({i \in 1 .. Len(w) : IsTool(w[i])})
                = Cardinality({i \in 1 .. Len(h) : IsTool(h[i])})
<1> DEFINE n == Len(h)
           C == CHOOSE f : WiresOf(f, h)
<1>1. h \in Seq(Messages) /\ n \in Nat
  BY DEF Well, Shape
<1>2. MessagesToWire(h) = C[n].wire
  BY DEF MessagesToWire, WiresOf, Wired, NoWire
<1>3. WiresOf(C, h)
  BY <1>1, WiresExist
<1> HIDE DEF C
<1>4. \A i \in 0 .. n : C[i] = IF i = 0 THEN NoWire ELSE Wired(h, C[i - 1], i)
  BY <1>3 DEF WiresOf
<1> DEFINE T == {i \in 0 .. n : ~PairedSoFar(h, C[i], i)}
<1>5. ASSUME T # {} PROVE FALSE
  <2>1. PICK m \in T : \A k \in T : m <= k
    BY <1>1, <1>5, LeastOf, T \subseteq Nat
  <2>2. m # 0
    <3>1. C[0] = NoWire /\ NoWire \in Wires /\ NoWire.wire = <<>>
      BY <1>1, <1>4 DEF NoWire, Wires
    <3>2. \A g : ResultsUpTo(g, 0) = {}
      BY DEF ResultsUpTo
    <3> HIDE DEF n
    <3>3. PairsIn(<<>>)
      BY DEF PairsIn
    <3>4. PairedSoFar(h, C[0], 0)
      <4> DEFINE c == C[0]
      <4>1. c \in Wires /\ c.wire = <<>> /\ Len(c.wire) = 0 /\ PairsIn(c.wire)
        BY <3>1, <3>3
      <4> HIDE DEF c
      <4>2. Cardinality(ResultsUpTo(c.wire, Len(c.wire))) = Cardinality(ResultsUpTo(h, 0))
        BY <3>2, <4>1
      <4>3. ~(0 > 0)
        OBVIOUS
      <4>4. PairedSoFar(h, c, 0)
        BY <4>1, <4>2, <4>3, Zenon DEF PairedSoFar
      <4> QED BY <4>4 DEF c
    <3> QED BY <2>1, <3>4
  <2>3. m - 1 \in 0 .. n /\ m - 1 \notin T /\ m \in 1 .. Len(h)
    BY <1>1, <2>1, <2>2
  <2>4. PairedSoFar(h, C[m - 1], m - 1) /\ C[m] = Wired(h, C[m - 1], m)
    BY <1>4, <2>2, <2>3
  <2>5. PairedSoFar(h, C[m], m)
    BY <2>3, <2>4, WirePairs, HistoryConstants
  <2> QED BY <2>1, <2>5
<1>6. PairedSoFar(h, C[n], n)
  <2>1. n \in 0 .. n
    BY <1>1
  <2> QED BY <1>5, <2>1
<1> DEFINE w == C[n].wire
<1>7. /\ w \in Seq(Messages) /\ Len(w) \in Nat
      /\ PairsIn(w)
      /\ Len(w) # 0 => ~IsCall(w[Len(w)])
      /\ Cardinality(ResultsUpTo(w, Len(w))) = Cardinality(ResultsUpTo(h, n))
  BY <1>1, <1>6 DEF PairedSoFar, Wires
<1>8. \A i \in 1 .. Len(w) : IsCall(w[i]) => i < Len(w)
  BY <1>7
<1> HIDE DEF w
<1> QED BY <1>2, <1>7, <1>8 DEF w, ResultsUpTo, PairsIn

-----------------------------------------------------------------------------
(* Digests.                                                                *)

\* What is folded is older than what is not.
LEMMA OldestFold ==
    ASSUME NEW h, Len(h) \in Nat, NEW i \in Starts(h), NEW j \in Folded(h), i < j
    PROVE  i \in Folded(h)
<1> DEFINE A == {k \in Starts(h) : k > j}
           B == {k \in Starts(h) : k > i}
<1>1. KeepTasks # 0 /\ j \in Starts(h) /\ Cardinality(A) >= KeepTasks
  BY DEF Folded
<1>2. Starts(h) \subseteq 1 .. Len(h)
  BY DEF Starts
<1>3. A \subseteq B
  BY <1>1, <1>2
<1>4. IsFiniteSet(B)
  <2>1. IsFiniteSet(1 .. Len(h))
    BY FS_Interval
  <2> QED BY <1>2, <2>1, FS_Subset
<1> HIDE DEF A
<1>5. Cardinality(A) \in Nat /\ Cardinality(B) \in Nat /\ Cardinality(A) <= Cardinality(B)
  <2> HIDE DEF B
  <2> QED BY <1>3, <1>4, FS_Subset, FS_CardinalityType
<1>6. KeepTasks \in Nat
  BY HistoryConstants
<1>7. Cardinality(B) >= KeepTasks
  BY <1>1, <1>5, <1>6
<1> QED BY <1>1, <1>7 DEF Folded

\* What one message adds.
Digested(h, s, i) ==
    IF i \in Folded(h) THEN Append(s, TaskDigest(h[i].task))
    ELSE IF InFolded(h, Folded(h), i) THEN s
    ELSE Append(s, h[i])

DigestsOf(f, h) ==
    f = [i \in 0 .. Len(h) |-> IF i = 0 THEN <<>> ELSE Digested(h, f[i - 1], i)]

\* The digest of a folded task.
LEMMA DigestFacts ==
    ASSUME NEW h, Well(h), NEW i \in Folded(h)
    PROVE  LET d == TaskDigest(h[i].task) IN
           /\ i \in 1 .. Len(h) /\ i \in Starts(h) /\ i \in Told(h)
           /\ h[i].kind = "request"
           /\ d \in Messages /\ d.role = "user" /\ d.kind = "digest" /\ d.task = h[i].task
           /\ ~IsTool(d) /\ ~IsCall(d)
<1>1. i \in Starts(h)
  BY DEF Folded
<1>2. i \in 1 .. Len(h) /\ h[i].kind = "request" /\ i \in Told(h)
  BY <1>1 DEF Starts, Told
<1>3. h[i].task \in Nat
  BY <1>2, MessageFacts DEF Well, Shape
<1> DEFINE t == h[i].task
           d == TaskDigest(t)
<1>4. d = [role |-> "user", kind |-> "digest", task |-> t]
  BY DEF TaskDigest
<1> HIDE DEF d, t
<1>5. d.role = "user" /\ d.kind = "digest" /\ d.task = t
  BY <1>4
<1>6. d \in Messages
  BY <1>3, <1>4 DEF Messages, t
<1> QED BY <1>1, <1>2, <1>5, <1>6 DEF d, t, IsTool, IsCall

LEMMA DigestTyped ==
    ASSUME NEW h, Well(h), NEW s \in Seq(Messages), NEW i \in 1 .. Len(h)
    PROVE  Digested(h, s, i) \in Seq(Messages)
<1>1. h[i] \in Messages
  BY DEF Well, Shape
<1>2. i \in Folded(h) => TaskDigest(h[i].task) \in Messages
  BY DigestFacts
<1> QED BY <1>1, <1>2 DEF Digested

\* The recursion of digest_tasks has a result, message by message.
LEMMA DigestsExist ==
    ASSUME NEW h, Well(h)
    PROVE  \E f : DigestsOf(f, h)
<1> DEFINE n == Len(h)
           S == Seq(Messages)
           step == [x \in S \X Nat |-> IF x[2] \in 1 .. n THEN Digested(h, x[1], x[2]) ELSE x[1]]
<1>1. n \in Nat
  BY DEF Well, Shape
<1>2. <<>> \in S
  OBVIOUS
<1>3. step \in [S \X Nat -> S]
  <2>1. \A s \in S, i \in 1 .. n : Digested(h, s, i) \in S
    BY DigestTyped
  <2> HIDE DEF S, n
  <2> QED BY <2>1
<1>4. PICK f \in [0 .. n -> S] : Follows(f, <<>>, step, n)
  <2> HIDE DEF step, n, S
  <2> QED BY <1>1, <1>2, <1>3, Recursion
<1>5. \A i \in 0 .. n : f[i] = IF i = 0 THEN <<>> ELSE Digested(h, f[i - 1], i)
  <2> SUFFICES ASSUME NEW i \in 0 .. n
               PROVE  f[i] = IF i = 0 THEN <<>> ELSE Digested(h, f[i - 1], i)
    OBVIOUS
  <2>1. f[i] = IF i = 0 THEN <<>> ELSE step[<<f[i - 1], i>>]
    <3> HIDE DEF step, n, S
    <3> QED BY <1>4 DEF Follows
  <2>2. CASE i # 0
    <3>1. <<f[i - 1], i>> \in S \X Nat /\ i \in 1 .. n
      <4> HIDE DEF S
      <4> QED BY <2>2, <1>1
    <3>2. step[<<f[i - 1], i>>] = Digested(h, f[i - 1], i)
      <4> HIDE DEF S
      <4> QED BY <3>1
    <3> QED BY <2>1, <2>2, <3>2
  <2> QED BY <2>1, <2>2
<1>6. DigestsOf(f, h)
  <2> HIDE DEF S
  <2> QED BY <1>4, <1>5 DEF DigestsOf
<1> QED BY <1>6

\* There is a task that is kept whole among the first i messages.
KeptBy(h, i) == \E k \in Starts(h) : k <= i /\ k \notin Folded(h)

\* Message i stays as it is.
Stays(h, i) == i \notin Folded(h) /\ ~InFolded(h, Folded(h), i)

TasksTo(h, i) == {h[j].task : j \in {k \in Told(h) : k <= i}}

\* Once a task is kept, everything is.
LEMMA StaysBehind ==
    ASSUME NEW h, Len(h) \in Nat, NEW i \in Int, NEW j \in Int, i <= j, KeptBy(h, i)
    PROVE  Stays(h, j)
<1>1. PICK k \in Starts(h) : k <= i /\ k \notin Folded(h)
  BY DEF KeptBy
<1>2. k \in Int
  BY DEF Starts
<1>3. ~InFolded(h, Folded(h), j)
  BY <1>1, <1>2 DEF InFolded
<1>4. ASSUME j \in Folded(h) PROVE FALSE
  <2>1. k < j
    BY <1>1, <1>2, <1>4
  <2> QED BY <1>1, <1>4, <2>1, OldestFold
<1> QED BY <1>3, <1>4 DEF Stays

\* Behind message i there are as many results as behind the one before, less itself.
LEMMA FewerTools ==
    ASSUME NEW h \in Seq(Messages), NEW i \in 1 .. Len(h)
    PROVE  /\ ToolsAfter(h, i) \in Nat
           /\ ToolsAfter(h, i - 1) = ToolsAfter(h, i) + IF IsTool(h[i]) THEN 1 ELSE 0
<1> DEFINE n == Len(h)
           A == {j \in i + 1 .. n : IsTool(h[j])}
           B == {j \in (i - 1) + 1 .. n : IsTool(h[j])}
<1>1. n \in Nat
  OBVIOUS
<1>2. IsFiniteSet(A) /\ i \notin A
  <2>1. IsFiniteSet(i + 1 .. n)
    BY <1>1, FS_Interval
  <2> QED BY <1>1, <2>1, FS_Subset
<1>3. B = IF IsTool(h[i]) THEN A \union {i} ELSE A
  BY <1>1
<1>4. ToolsAfter(h, i) = Cardinality(A) /\ ToolsAfter(h, i - 1) = Cardinality(B)
  BY DEF ToolsAfter
<1> HIDE DEF A, B
<1>5. Cardinality(A) \in Nat /\ Cardinality(A \union {i}) = Cardinality(A) + 1
  BY <1>2, FS_AddElement, FS_CardinalityType
<1>6. CASE IsTool(h[i])
  BY <1>3, <1>4, <1>5, <1>6
<1>7. CASE ~IsTool(h[i])
  BY <1>3, <1>4, <1>5, <1>7
<1> QED BY <1>6, <1>7

\* The tasks of the first i messages, one message more.
LEMMA TasksGrow ==
    ASSUME NEW h, NEW of, Story(h, of), NEW i \in 1 .. Len(h)
    PROVE  /\ i \in Told(h) => /\ TasksTo(h, i) = TasksTo(h, i - 1) \union {h[i].task}
                               /\ \A t \in TasksTo(h, i - 1) : t < h[i].task
           /\ i \notin Told(h) => TasksTo(h, i) = TasksTo(h, i - 1)
<1>1. \A k \in Told(h) : k \in Int
  BY DEF Told
<1>2. {k \in Told(h) : k <= i}
        = {k \in Told(h) : k <= i - 1} \union IF i \in Told(h) THEN {i} ELSE {}
  BY <1>1
<1>3. \A k \in {k \in Told(h) : k <= i - 1} : i \in Told(h) => h[k].task < h[i].task
  BY <1>1 DEF Story
<1> QED BY <1>2, <1>3 DEF TasksTo

\* The results that follow make up for those that are shrunk.
Covered(h, s, i) ==
    \A p \in 1 .. Len(s) : IsTool(s[p]) =>
      /\ s[p].kind = "compacted" =>
           \/ Superseded(s, p)
           \/ \E j \in i + 1 .. Len(h) : IsTool(h[j]) /\ h[j].tool = s[p].tool
      /\ s[p].kind = "cleared" => ToolsAfter(s, p) + ToolsAfter(h, i) >= KeepResults

\* The first i messages are digested into s.
DigestedSoFar(h, s, i) ==
    /\ Shape(s)
    /\ s = <<>> <=> i = 0
    /\ i > 0 /\ Stays(h, i) => s # <<>> /\ s[Len(s)] = h[i]
    /\ KeptBy(h, i) <=> \E q \in 1 .. Len(s) : s[q].kind = "request"
    /\ Covered(h, s, i)
    /\ Story(s, TasksTo(h, i))

\* No result is kept before a task is kept whole.
LEMMA NothingKept ==
    ASSUME NEW h, NEW i, NEW s, DigestedSoFar(h, s, i), ~KeptBy(h, i)
    PROVE  \A q \in 1 .. Len(s) : s[q].kind # "request" /\ ~IsTool(s[q])
<1>1. Shape(s) /\ \A q \in 1 .. Len(s) : s[q].kind # "request"
  BY DEF DigestedSoFar
<1>2. Len(s) \in Nat
  BY <1>1 DEF Shape
<1>3. ASSUME NEW q \in 1 .. Len(s), IsTool(s[q]) PROVE FALSE
  <2>1. PICK j \in 1 .. (q - 1) : s[j].kind = "request"
    BY <1>1, <1>3 DEF Shape, AskedFor
  <2> QED BY <1>1, <1>2, <2>1
<1> QED BY <1>1, <1>3

\* A message that starts a folded task becomes its digest.
LEMMA DigestsStart ==
    ASSUME NEW h, Well(h), NEW of, Story(h, of), NEW i \in 1 .. Len(h), i \in Folded(h),
           NEW s, DigestedSoFar(h, s, i - 1)
    PROVE  DigestedSoFar(h, Append(s, TaskDigest(h[i].task)), i)
<1> DEFINE d == TaskDigest(h[i].task)
           g == Append(s, d)
           n == Len(s)
<1>1. h \in Seq(Messages) /\ Len(h) \in Nat /\ Headed(h)
  BY DEF Well, Shape
<1>2. /\ i \in Starts(h) /\ i \in Told(h) /\ h[i].kind = "request"
      /\ d \in Messages /\ d.role = "user" /\ d.kind = "digest" /\ d.task = h[i].task
      /\ ~IsTool(d)
  BY DigestFacts
<1>3. ~KeptBy(h, i - 1) /\ ~KeptBy(h, i)
  <2>1. ~Stays(h, i)
    BY DEF Stays
  <2>2. ~KeptBy(h, i - 1)
    BY <1>1, <2>1, StaysBehind
  <2>3. ~KeptBy(h, i)
    BY <1>1, <2>1, StaysBehind
  <2> QED BY <2>2, <2>3
<1>4. \A q \in 1 .. n : s[q].kind # "request" /\ ~IsTool(s[q])
  BY <1>3, NothingKept
<1>5. Shape(s) /\ s \in Seq(Messages) /\ Story(s, TasksTo(h, i - 1))
  BY DEF DigestedSoFar, Shape
<1>6. i # 1
  <2>1. h[i].role # "system"
    BY <1>1, <1>2, MessageFacts
  <2> QED BY <2>1, <1>1 DEF Headed
<1>7. s # <<>>
  BY <1>6 DEF DigestedSoFar
<1> HIDE DEF d
<1>8. /\ g \in Seq(Messages) /\ n \in Nat /\ Len(g) = n + 1
      /\ \A q \in 1 .. n : g[q] = s[q]
      /\ g[n + 1] = d
  BY <1>2, <1>5, AppendFacts
<1>9. MayFollow(s, d)
  BY <1>2, <1>4, <1>7 DEF MayFollow
<1>10. Shape(g)
  BY <1>5, <1>9, AppendKeeps
<1>11. Story(g, TasksTo(h, i))
  BY <1>2, <1>5, AppendTells, TasksGrow
<1> HIDE DEF g
<1>12. \A q \in 1 .. Len(g) : g[q].kind # "request" /\ ~IsTool(g[q])
  <2>1. \A q \in 1 .. n + 1 : q \in 1 .. n \/ q = n + 1
    BY <1>8
  <2> QED BY <1>2, <1>4, <1>8, <2>1
<1>13. Covered(h, g, i)
  BY <1>12 DEF Covered
<1>14. g # <<>> /\ i # 0 /\ ~Stays(h, i)
  BY <1>8 DEF Stays
<1> QED BY <1>3, <1>10, <1>11, <1>12, <1>13, <1>14 DEF DigestedSoFar, g, d

\* The rest of a folded task is left out.
LEMMA DigestsRest ==
    ASSUME NEW h, Well(h), NEW of, Story(h, of), NEW i \in 1 .. Len(h), i \notin Folded(h),
           InFolded(h, Folded(h), i), NEW s, DigestedSoFar(h, s, i - 1)
    PROVE  DigestedSoFar(h, s, i)
<1>1. h \in Seq(Messages) /\ Len(h) \in Nat /\ Headed(h)
  BY DEF Well, Shape
<1>2. \A k \in Starts(h) : k \in 1 .. Len(h) /\ h[k].kind = "request"
  BY DEF Starts
<1>3. ~KeptBy(h, i) /\ ~KeptBy(h, i - 1)
  BY <1>2 DEF InFolded, KeptBy
<1>4. \A q \in 1 .. Len(s) : s[q].kind # "request" /\ ~IsTool(s[q])
  BY <1>3, NothingKept
<1>5. PICK k \in Starts(h) : k <= i
  BY DEF InFolded
<1>6. i \notin Starts(h) /\ k < i
  <2>1. i \notin Starts(h)
    BY DEF InFolded
  <2> QED BY <2>1, <1>2, <1>5
<1>7. s # <<>>
  <2>1. i - 1 # 0
    BY <1>2, <1>6
  <2> QED BY <2>1 DEF DigestedSoFar
<1>8. i \notin Told(h)
  <2>1. h[i].kind # "request"
    BY <1>6 DEF Starts
  <2>2. h[i].kind # "digest"
    <3> SUFFICES ASSUME h[i].kind = "digest" PROVE FALSE
      OBVIOUS
    <3>1. i < k
      BY <1>2 DEF Well, Shape, DigestsFirst
    <3> QED BY <1>2, <1>6, <3>1
  <2> QED BY <2>1, <2>2 DEF Told
<1>9. Story(s, TasksTo(h, i))
  BY <1>8, TasksGrow DEF DigestedSoFar
<1>10. Covered(h, s, i)
  BY <1>4 DEF Covered
<1>11. Shape(s) /\ i # 0 /\ ~Stays(h, i)
  BY DEF DigestedSoFar, Stays
<1> QED BY <1>3, <1>4, <1>7, <1>9, <1>10, <1>11 DEF DigestedSoFar

\* What is not folded stays.
LEMMA DigestsNothing ==
    ASSUME NEW h, Well(h), NEW of, Story(h, of), NEW i \in 1 .. Len(h), Stays(h, i),
           NEW s, DigestedSoFar(h, s, i - 1)
    PROVE  DigestedSoFar(h, Append(s, h[i]), i)
<1> DEFINE m == h[i]
           g == Append(s, m)
           n == Len(s)
<1>1. h \in Seq(Messages) /\ Len(h) \in Nat /\ m \in Messages
  BY DEF Well, Shape
<1>2. Shape(s) /\ s \in Seq(Messages) /\ Story(s, TasksTo(h, i - 1))
  BY DEF DigestedSoFar, Shape
<1>3. \A k \in Starts(h) : k \in 1 .. Len(h) /\ h[k].kind = "request"
  BY DEF Starts
<1>4. KeptBy(h, i - 1) <=> \E q \in 1 .. n : s[q].kind = "request"
  BY DEF DigestedSoFar
<1>5. IsTool(m) => /\ m \in ToolMessages /\ m.kind # "request" /\ i > 1
                   /\ IsCall(h[i - 1]) /\ h[i - 1].id = m.id
                   /\ OutcomeIsMasked(m)
                   /\ \E j \in 1 .. (i - 1) : h[j].kind = "request"
  <2>1. IsTool(m) => m \in ToolMessages /\ m.kind # "request"
    BY <1>1, MessageFacts DEF ToolMessages
  <2> QED BY <2>1 DEF Well, Shape, Paired, AskedFor, Masked
<1>6. ASSUME IsTool(m)
      PROVE  s # <<>> /\ s[n] = h[i - 1] /\ KeptBy(h, i - 1)
  <2>1. PICK j \in 1 .. (i - 1) : h[j].kind = "request"
    BY <1>5, <1>6
  <2>2. j \in Starts(h) /\ j <= i
    BY <1>1, <2>1 DEF Starts
  <2>3. PICK k \in Starts(h) : k <= i /\ k \notin Folded(h)
    BY <2>2 DEF Stays, InFolded
  <2>4. k # i
    BY <1>3, <1>5, <1>6
  <2>5. KeptBy(h, i - 1)
    BY <1>3, <2>3, <2>4 DEF KeptBy
  <2>6. i - 1 > 0 /\ Stays(h, i - 1)
    BY <1>1, <1>5, <1>6, <2>5, StaysBehind
  <2> QED BY <2>5, <2>6 DEF DigestedSoFar
<1>7. m.role = "system" <=> s = <<>>
  <2>1. m.role = "system" <=> i = 1
    BY DEF Well, Shape, Headed
  <2>2. s = <<>> <=> i - 1 = 0
    BY DEF DigestedSoFar
  <2> QED BY <2>1, <2>2
<1>8. ASSUME m.kind = "digest" PROVE ~KeptBy(h, i - 1)
  <2> SUFFICES ASSUME NEW k \in Starts(h), k <= i - 1 PROVE FALSE
    BY DEF KeptBy
  <2>1. i < k
    BY <1>3, <1>8 DEF Well, Shape, DigestsFirst
  <2> QED BY <1>3, <2>1
<1> HIDE DEF m
<1>9. MayFollow(s, m)
  <2>1. IsTool(m) => /\ OutcomeIsMasked(m) /\ s # <<>> /\ IsCall(s[n]) /\ s[n].id = m.id
                     /\ \E q \in 1 .. n : s[q].kind = "request"
    BY <1>4, <1>5, <1>6
  <2>2. m.kind = "digest" => \A q \in 1 .. n : s[q].kind # "request"
    BY <1>4, <1>8
  <2> QED BY <1>1, <1>7, <2>1, <2>2 DEF MayFollow
<1>10. Shape(g)
  BY <1>2, <1>9, AppendKeeps
<1>11. /\ g \in Seq(Messages) /\ n \in Nat /\ Len(g) = n + 1
       /\ \A q \in 1 .. n : g[q] = s[q]
       /\ g[n + 1] = m
  BY <1>1, <1>2, AppendFacts
<1>12. \A q \in 1 .. n + 1 : q \in 1 .. n \/ q = n + 1
  BY <1>11
<1>13. Story(g, TasksTo(h, i))
  <2>1. CASE i \in Told(h)
    <3>1. m.kind \in {"request", "digest"}
      BY <2>1 DEF Told, m
    <3>2. TasksTo(h, i) = TasksTo(h, i - 1) \union {m.task} /\ \A t \in TasksTo(h, i - 1) : t < m.task
      BY <2>1, TasksGrow DEF m
    <3> QED BY <1>1, <1>2, <3>1, <3>2, AppendTells
  <2>2. CASE i \notin Told(h)
    <3>1. m.kind \notin {"request", "digest"}
      BY <2>2 DEF Told, m
    <3>2. TasksTo(h, i) = TasksTo(h, i - 1)
      BY <2>2, TasksGrow
    <3> QED BY <1>1, <1>2, <3>1, <3>2, AppendTells
  <2> QED BY <2>1, <2>2
<1>14. KeptBy(h, i) <=> \E q \in 1 .. Len(g) : g[q].kind = "request"
  <2>1. KeptBy(h, i) <=> KeptBy(h, i - 1) \/ m.kind = "request"
    <3>1. i \in Starts(h) <=> m.kind = "request"
      BY DEF Starts, m
    <3>2. i \notin Folded(h)
      BY DEF Stays
    <3>3. ASSUME KeptBy(h, i) PROVE KeptBy(h, i - 1) \/ m.kind = "request"
      <4>1. PICK k \in Starts(h) : k <= i /\ k \notin Folded(h)
        BY <3>3 DEF KeptBy
      <4>2. k = i \/ k <= i - 1
        BY <1>3, <4>1
      <4> QED BY <3>1, <4>1, <4>2 DEF KeptBy
    <3>4. ASSUME KeptBy(h, i - 1) \/ m.kind = "request" PROVE KeptBy(h, i)
      <4>1. CASE KeptBy(h, i - 1)
        <5>1. PICK k \in Starts(h) : k <= i - 1 /\ k \notin Folded(h)
          BY <4>1 DEF KeptBy
        <5>2. k <= i
          BY <1>3, <5>1
        <5> QED BY <5>1, <5>2 DEF KeptBy
      <4>2. CASE m.kind = "request"
        <5>1. i \in Starts(h) /\ i <= i
          BY <3>1, <4>2
        <5> QED BY <3>2, <5>1 DEF KeptBy
      <4> QED BY <3>4, <4>1, <4>2
    <3> QED BY <3>3, <3>4
  <2> HIDE DEF g
  <2>2. (\E q \in 1 .. Len(g) : g[q].kind = "request")
          <=> (\E q \in 1 .. n : s[q].kind = "request") \/ m.kind = "request"
    <3>1. \A q \in 1 .. n : q \in 1 .. n + 1
      BY <1>11
    <3>2. n + 1 \in 1 .. n + 1
      BY <1>11
    <3> QED BY <1>11, <1>12, <3>1, <3>2
  <2> QED BY <1>4, <2>1, <2>2
<1>15. Covered(h, g, i)
  <2> SUFFICES ASSUME NEW p \in 1 .. n + 1, IsTool(g[p])
               PROVE  /\ g[p].kind = "compacted" =>
                           \/ Superseded(g, p)
                           \/ \E j \in i + 1 .. Len(h) : IsTool(h[j]) /\ h[j].tool = g[p].tool
                      /\ g[p].kind = "cleared" =>
                           ToolsAfter(g, p) + ToolsAfter(h, i) >= KeepResults
    BY <1>11 DEF Covered
  <2>1. /\ ToolsAfter(h, i) \in Nat
        /\ ToolsAfter(h, i - 1) = ToolsAfter(h, i) + IF IsTool(m) THEN 1 ELSE 0
    BY <1>1, FewerTools DEF m
  <2>2. KeepResults \in Nat
    BY HistoryConstants
  <2>3. CASE p \in 1 .. n
    <3>1. g[p] = s[p]
      BY <1>11, <2>3
    <3>2. /\ s[p].kind = "compacted" =>
               \/ Superseded(s, p)
               \/ \E j \in (i - 1) + 1 .. Len(h) : IsTool(h[j]) /\ h[j].tool = s[p].tool
          /\ s[p].kind = "cleared" => ToolsAfter(s, p) + ToolsAfter(h, i - 1) >= KeepResults
      BY <2>3, <3>1 DEF DigestedSoFar, Covered
    <3>3. Superseded(s, p) => Superseded(g, p)
      <4> SUFFICES ASSUME NEW j \in p + 1 .. n, IsTool(s[j]), s[j].tool = s[p].tool
                   PROVE  Superseded(g, p)
        BY DEF Superseded
      <4>1. j \in 1 .. n /\ j \in p + 1 .. n + 1
        BY <1>11, <2>3
      <4> HIDE DEF g
      <4> QED BY <1>11, <3>1, <4>1 DEF Superseded
    <3>4. ASSUME NEW j \in (i - 1) + 1 .. Len(h), IsTool(h[j]), h[j].tool = s[p].tool
          PROVE  \/ Superseded(g, p)
                 \/ \E k \in i + 1 .. Len(h) : IsTool(h[k]) /\ h[k].tool = s[p].tool
      <4>1. CASE j = i
        <5>1. n + 1 \in p + 1 .. n + 1
          BY <1>11, <2>3
        <5> HIDE DEF g
        <5> QED BY <1>11, <3>1, <3>4, <4>1, <5>1 DEF Superseded, m
      <4>2. CASE j # i
        <5>1. j \in i + 1 .. Len(h)
          BY <1>1, <4>2
        <5> QED BY <3>4, <5>1
      <4> QED BY <4>1, <4>2
    <3>5. /\ ToolsAfter(s, p) \in Nat
          /\ ToolsAfter(g, p) = ToolsAfter(s, p) + IF IsTool(m) THEN 1 ELSE 0
      <4>1. p \in 1 .. n + 1
        OBVIOUS
      <4> QED BY <1>1, <1>2, <2>3, <4>1, ToolsAfterAppend
    <3> HIDE DEF g
    <3>6. ToolsAfter(g, p) + ToolsAfter(h, i) = ToolsAfter(s, p) + ToolsAfter(h, i - 1)
      BY <2>1, <3>5
    <3> QED BY <3>1, <3>2, <3>3, <3>4, <3>6
  <2>4. CASE p = n + 1
    <3>1. g[p] = m
      BY <1>11, <2>4
    <3> HIDE DEF g
    <3>2. /\ m.kind = "compacted" => Superseded(h, i)
          /\ m.kind = "cleared" => ToolsAfter(h, i) >= KeepResults
      BY <3>1 DEF Well, Newest, m
    <3>3. ToolsAfter(g, p) \in Nat
      <4>1. n + 1 \in 1 .. Len(g) + 1
        BY <1>11
      <4> QED BY <1>1, <1>11, <2>4, <4>1, ToolsAfterAppend
    <3> QED BY <2>1, <2>2, <3>1, <3>2, <3>3 DEF Superseded, m
  <2> QED BY <1>12, <2>3, <2>4
<1> HIDE DEF g
<1>16. g # <<>> /\ i # 0 /\ g[Len(g)] = m
  BY <1>11
<1> QED BY <1>10, <1>13, <1>14, <1>15, <1>16 DEF DigestedSoFar, g, m

\* Digesting keeps what a history is, and the tasks it tells of.
LEMMA DigestKeeps ==
    ASSUME NEW h, Well(h), NEW of, Story(h, of)
    PROVE  Well(DigestTasks(h)) /\ Story(DigestTasks(h), of)
<1> DEFINE n == Len(h)
           C == CHOOSE f : DigestsOf(f, h)
<1>1. h \in Seq(Messages) /\ n \in Nat
  BY DEF Well, Shape
<1>2. DigestTasks(h) = C[n]
  BY DEF DigestTasks, DigestsOf, Digested
<1>3. DigestsOf(C, h)
  BY DigestsExist
<1> HIDE DEF C
<1>4. \A i \in 0 .. n : C[i] = IF i = 0 THEN <<>> ELSE Digested(h, C[i - 1], i)
  BY <1>3 DEF DigestsOf
<1> DEFINE T == {i \in 0 .. n : ~DigestedSoFar(h, C[i], i)}
<1>5. ASSUME T # {} PROVE FALSE
  <2>1. PICK m \in T : \A k \in T : m <= k
    BY <1>1, <1>5, LeastOf, T \subseteq Nat
  <2>2. m # 0
    <3>1. C[0] = <<>>
      BY <1>1, <1>4
    <3>2. \A k \in Starts(h) \union Told(h) : k \in 1 .. n
      BY DEF Starts, Told
    <3>3. TasksTo(h, 0) = {} /\ ~KeptBy(h, 0)
      BY <3>2 DEF TasksTo, KeptBy
    <3>4. Shape(<<>>) /\ Story(<<>>, {})
      BY EmptyIsWell DEF Well
    <3>5. DigestedSoFar(h, <<>>, 0)
      <4>1. \A q \in 1 .. Len(<<>>) : FALSE
        OBVIOUS
      <4>2. Covered(h, <<>>, 0)
        BY <4>1 DEF Covered
      <4>3. ~(0 > 0)
        OBVIOUS
      <4> QED BY <3>3, <3>4, <4>1, <4>2, <4>3, Zenon DEF DigestedSoFar
    <3> QED BY <2>1, <3>1, <3>5
  <2>3. m - 1 \in 0 .. n /\ m - 1 \notin T /\ m \in 1 .. Len(h)
    BY <1>1, <2>1, <2>2
  <2>4. DigestedSoFar(h, C[m - 1], m - 1) /\ C[m] = Digested(h, C[m - 1], m)
    BY <1>4, <2>2, <2>3
  <2>5. DigestedSoFar(h, C[m], m)
    BY <2>3, <2>4, DigestsStart, DigestsRest, DigestsNothing DEF Digested, Stays
  <2> QED BY <2>1, <2>5
<1>6. DigestedSoFar(h, C[n], n)
  <2>1. n \in 0 .. n
    BY <1>1
  <2> QED BY <1>5, <2>1
<1> DEFINE g == C[n]
<1>7. Shape(g) /\ Covered(h, g, n) /\ Story(g, TasksTo(h, n))
  BY <1>6 DEF DigestedSoFar
<1>8. TasksTo(h, n) = of
  <2>1. \A k \in Told(h) : k <= n
    BY <1>1 DEF Told
  <2>2. {k \in Told(h) : k <= n} = Told(h)
    BY <2>1
  <2> QED BY <2>2 DEF TasksTo, Story
<1>9. Newest(g)
  <2> HIDE DEF g
  <2> SUFFICES ASSUME NEW p \in 1 .. Len(g), IsTool(g[p])
               PROVE  /\ g[p].kind = "compacted" => Superseded(g, p)
                      /\ g[p].kind = "cleared" => ToolsAfter(g, p) >= KeepResults
    BY DEF Newest
  <2>1. ToolsAfter(h, n) = 0
    <3>1. {j \in n + 1 .. n : IsTool(h[j])} = {}
      BY <1>1
    <3> QED BY <3>1, FS_EmptySet DEF ToolsAfter
  <2>2. ToolsAfter(g, p) \in Nat
    <3>1. g \in Seq(Messages) /\ Len(g) \in Nat /\ g[p] \in Messages
      BY <1>7 DEF Shape
    <3> QED BY <3>1, ToolsAfterAppend
  <2>3. ~ \E j \in n + 1 .. n : IsTool(h[j]) /\ h[j].tool = g[p].tool
    BY <1>1
  <2> QED BY <1>7, <2>1, <2>2, <2>3 DEF Covered
<1> QED BY <1>2, <1>7, <1>8, <1>9 DEF Well

-----------------------------------------------------------------------------
(* The session.                                                            *)

\* The inductive invariant.
HistInv ==
    /\ point \in {"idle", "start", "turn", "tool"}
    /\ task \in Nat /\ prompt \in Nat /\ ended \subseteq 1 .. task
    /\ Well(carried) /\ Story(carried, ended)
    /\ Well(hist)
    /\ point = "idle" => hist = carried
    /\ point # "idle" =>
         /\ task \in Nat \ {0} /\ task \notin ended
         /\ Story(hist, ended \union IF Requested(hist, task) THEN {task} ELSE {})
    /\ point = "tool" =>
         /\ request \in [id : Ids \union {NoId}, tool : Tools]
         /\ hist # <<>> /\ hist[Len(hist)] = Call(request)
         /\ Requested(hist, task)

\* A history of a task that is asked for in it.
Live(h, t, of) ==
    Well(h) /\ h # <<>> /\ Requested(h, t) /\ Story(h, of \union {t})

\* What the model is asked is one.
LEMMA AskedIsLive ==
    ASSUME HistInv, point # "idle"
    PROVE  Live(Asked, task, ended)
<1> DEFINE of == ended \union IF Requested(hist, task) THEN {task} ELSE {}
<1>1. /\ Well(hist) /\ prompt \in Nat /\ task \in Nat \ {0} /\ task \notin ended
      /\ ended \subseteq 1 .. task /\ Story(hist, of)
  BY DEF HistInv
<1>2. /\ Well(Asked) /\ Asked # <<>> /\ Requested(Asked, task)
      /\ Requested(hist, task) \/ (\A t \in of : t < task)
           => Story(Asked, IF Requested(hist, task) THEN of ELSE of \union {task})
  <2> HIDE DEF of
  <2> QED BY <1>1, EnsuringKeeps DEF Asked
<1>3. Requested(hist, task) \/ \A t \in of : t < task
  BY <1>1
<1>4. (IF Requested(hist, task) THEN of ELSE of \union {task}) = ended \union {task}
  OBVIOUS
<1> QED BY <1>2, <1>3, <1>4 DEF Live

\* Answers, notes and calls may follow anything.
LEMMA LiveGrows ==
    ASSUME NEW h, NEW t, NEW of, Live(h, t, of), NEW m \in Messages,
           m.kind \in {"answer", "note", "call"}
    PROVE  /\ Live(Append(h, m), t, of)
           /\ Append(h, m)[Len(Append(h, m))] = m
<1>1. m.role # "system" /\ ~IsTool(m)
  BY DEF Messages, ToolMessages, CallMessages, IsTool
<1>2. Well(h) /\ h # <<>> /\ h \in Seq(Messages) /\ Story(h, of \union {t})
  BY DEF Live, Well, Shape
<1>3. MayFollow(h, m)
  BY <1>1, <1>2 DEF MayFollow
<1>4. Well(Append(h, m))
  BY <1>1, <1>2, <1>3, AppendIsWell
<1>5. Story(Append(h, m), of \union {t})
  BY <1>2, AppendTells
<1> DEFINE g == Append(h, m)
<1>6. Len(h) \in Nat /\ Len(g) = Len(h) + 1 /\ g[Len(h) + 1] = m /\ \A i \in 1 .. Len(h) : g[i] = h[i]
  BY <1>2, AppendFacts
<1> HIDE DEF g
<1>7. g # <<>> /\ g[Len(g)] = m
  BY <1>6
<1>8. Requested(g, t)
  <2>1. PICK i \in 1 .. Len(h) : h[i] = TaskRequest(t)
    BY DEF Live, Requested
  <2>2. i \in 1 .. Len(g)
    BY <1>6
  <2> QED BY <1>6, <2>1, <2>2 DEF Requested
<1> QED BY <1>4, <1>5, <1>7, <1>8 DEF Live, g

Requests == [id : Ids \union {NoId}, tool : Tools]

\* What the loop appends.
LEMMA AppendedKinds ==
    /\ Final \in Messages /\ Final.kind = "answer"
    /\ Note \in Messages /\ Note.kind = "note"
    /\ \A r \in Requests : /\ Call(r) \in Messages /\ Call(r).kind = "call"
                           /\ Call(r).id = r.id /\ IsCall(Call(r))
<1>1. Final \in Messages /\ Final.kind = "answer" /\ Note \in Messages /\ Note.kind = "note"
  BY DEF Final, Note, Messages
<1>2. ASSUME NEW r \in Requests
      PROVE  Call(r) \in Messages /\ Call(r).kind = "call" /\ Call(r).id = r.id /\ IsCall(Call(r))
  BY DEF Requests, Call, Messages, CallMessages, IsCall
<1> QED BY <1>1, <1>2

\* A result may follow its call; a call without an id has none.
LEMMA ResultGrows ==
    ASSUME NEW h, NEW t, NEW of, Live(h, t, of), NEW r \in Requests, h[Len(h)] = Call(r),
           NEW size \in Nat, NEW output \in SUBSET Kinds, NEW maskedBy \in SUBSET ChainIds,
           \A id \in maskedBy : output \intersect KindsOf(id) = {}
    PROVE  Live(AppendResult(h, r, size, output, maskedBy), t, of)
<1> DEFINE m == Result(r, size, output, maskedBy)
           g == Append(h, m)
<1>1. CASE r.id = NoId
  BY <1>1 DEF AppendResult
<1>2. CASE r.id # NoId
  <2>1. r.id \in Ids /\ r.tool \in Tools
    BY <1>2 DEF Requests
  <2>2. m = [role |-> "tool", kind |-> "full", id |-> r.id, tool |-> r.tool, size |-> size,
             output |-> output, maskedBy |-> maskedBy]
    BY DEF Result
  <2>3. m \in ToolMessages
    BY <2>1, <2>2 DEF ToolMessages
  <2>4. m.role = "tool" /\ m.kind = "full" /\ m.id = r.id /\ m.output = output /\ m.maskedBy = maskedBy
    BY <2>2
  <2> HIDE DEF m
  <2>5. m \in Messages /\ IsTool(m) /\ OutcomeIsMasked(m)
    BY <2>3, <2>4 DEF Messages, IsTool, OutcomeIsMasked
  <2>6. Well(h) /\ h # <<>> /\ h \in Seq(Messages) /\ Story(h, of \union {t})
    BY DEF Live, Well, Shape
  <2>7. PICK i \in 1 .. Len(h) : h[i] = TaskRequest(t)
    BY DEF Live, Requested
  <2>8. h[i].kind = "request"
    BY <2>7 DEF TaskRequest
  <2>9. MayFollow(h, m)
    BY <2>4, <2>5, <2>6, <2>8, AppendedKinds DEF MayFollow
  <2>10. Well(g)
    BY <2>4, <2>6, <2>9, AppendIsWell
  <2>11. Story(g, of \union {t})
    BY <2>4, <2>5, <2>6, AppendTells
  <2>12. Len(h) \in Nat /\ Len(g) = Len(h) + 1 /\ \A j \in 1 .. Len(h) : g[j] = h[j]
    BY <2>5, <2>6, AppendFacts
  <2>13. AppendResult(h, r, size, output, maskedBy) = g
    BY <1>2 DEF AppendResult, m
  <2> HIDE DEF g
  <2>14. g # <<>> /\ i \in 1 .. Len(g)
    BY <2>12
  <2>15. Requested(g, t)
    BY <2>7, <2>12, <2>14 DEF Requested
  <2> QED BY <2>10, <2>11, <2>13, <2>14, <2>15 DEF Live
<1> QED BY <1>1, <1>2

LEMMA NotesGrow ==
    ASSUME NEW h, NEW t, NEW of, Live(h, t, of), NEW n
    PROVE  Live(h \o Notes(n), t, of)
<1>1. h \in Seq(Messages)
  BY DEF Live, Well, Shape
<1>2. CASE n = 0
  BY <1>1, <1>2 DEF Notes
<1>3. CASE n # 0
  <2>1. h \o Notes(n) = Append(h, Note)
    BY <1>1, <1>3, AppendedKinds DEF Notes
  <2> QED BY <2>1, AppendedKinds, LiveGrows
<1> QED BY <1>2, <1>3

\* The live history of a turn.
LEMMA LiveTurn ==
    ASSUME HistInv, point # "idle", Live(hist', task, ended), point' \in {"start", "turn"},
           UNCHANGED <<carried, prompt, task, ended>>
    PROVE  HistInv'
<1>1. Requested(hist, task)' /\ Well(hist)' /\ Story(hist', ended \union {task})
  BY DEF Live
<1>2. Story(hist', (ended \union IF Requested(hist, task) THEN {task} ELSE {})')
  BY <1>1
<1> QED BY <1>1, <1>2 DEF HistInv

\* A task that ends with a result.
LEMMA EndKeeps ==
    ASSUME HistInv, point # "idle", NEW h, Live(h, task, ended), EndWith(h),
           UNCHANGED <<prompt, task>>
    PROVE  HistInv'
<1>1. Well(h) /\ Story(h, ended \union {task}) /\ task \in Nat \ {0} /\ ended \subseteq 1 .. task
  BY DEF Live, HistInv
<1>2. hist' = h /\ carried' = h /\ point' = "idle" /\ ended' = ended \union {task}
  BY DEF EndWith
<1> QED BY <1>1, <1>2 DEF HistInv

-----------------------------------------------------------------------------

LEMMA ResumeKeeps == HistInv /\ Resume => HistInv'
BY DEF HistInv, Resume

LEMMA StartTaskKeeps == HistInv /\ StartTask => HistInv'
<1> SUFFICES ASSUME HistInv, StartTask PROVE HistInv'
  OBVIOUS
<1> DEFINE h == DigestTasks(carried)
<1>1. /\ task \in Nat /\ prompt \in Nat /\ ended \subseteq 1 .. task
      /\ Well(carried) /\ Story(carried, ended)
  BY DEF HistInv
<1>2. /\ task' = task + 1 /\ hist' = h /\ point' = "start"
      /\ UNCHANGED <<carried, prompt, ended>>
  BY DEF StartTask
<1>3. Well(h) /\ Story(h, ended)
  BY <1>1, DigestKeeps
<1> HIDE DEF h
<1>4. ~Requested(h, task + 1)
  <2> SUFFICES ASSUME NEW i \in 1 .. Len(h), h[i] = TaskRequest(task + 1) PROVE FALSE
    BY DEF Requested
  <2>1. i \in Told(h) /\ h[i].task = task + 1
    BY DEF TaskRequest, Told
  <2>2. task + 1 \in ended
    BY <1>3, <2>1 DEF Story
  <2> QED BY <1>1, <2>2
<1>5. /\ task + 1 \in Nat \ {0} /\ task + 1 \notin ended /\ ended \subseteq 1 .. task + 1
  BY <1>1
<1>6. ended \union (IF Requested(h, task + 1) THEN {task + 1} ELSE {}) = ended
  BY <1>4
<1> QED BY <1>1, <1>2, <1>3, <1>5, <1>6 DEF HistInv

LEMMA GoalStartKeeps == HistInv /\ GoalStart => HistInv'
<1> SUFFICES ASSUME HistInv, GoalStart PROVE HistInv'
  OBVIOUS
<1>1. point # "idle" /\ UNCHANGED <<prompt, task>>
  BY DEF GoalStart
<1>2. Live(EnsureHistory(hist, prompt), task, ended)
  BY <1>1, AskedIsLive DEF Asked
<1>3. PICK o \in Outcomes("goal_start", NoId, {}) :
         \/ /\ o.decision = "deny"
            /\ EndWith(Append(EnsureHistory(hist, prompt), Final))
         \/ /\ o.decision # "deny"
            /\ hist' = IF o.notes = 0 THEN hist
                       ELSE Append(EnsureHistory(hist, prompt), Note)
            /\ point' = "turn"
            /\ UNCHANGED <<carried, request, ended>>
  BY DEF GoalStart
<1>4. CASE EndWith(Append(EnsureHistory(hist, prompt), Final))
  <2>1. Live(Append(EnsureHistory(hist, prompt), Final), task, ended)
    BY <1>2, AppendedKinds, LiveGrows
  <2> QED BY <1>1, <1>4, <2>1, EndKeeps
<1>5. CASE /\ hist' = hist /\ point' = "turn" /\ UNCHANGED <<carried, request, ended>>
  BY <1>1, <1>5 DEF HistInv
<1>6. CASE /\ hist' = Append(EnsureHistory(hist, prompt), Note)
           /\ point' = "turn" /\ UNCHANGED <<carried, request, ended>>
  <2>1. Live(Append(EnsureHistory(hist, prompt), Note), task, ended)
    BY <1>2, AppendedKinds, LiveGrows
  <2> QED BY <1>1, <1>6, <2>1, LiveTurn
<1> QED BY <1>3, <1>4, <1>5, <1>6

LEMMA ModelAnswersKeeps == HistInv /\ ModelAnswers => HistInv'
<1> SUFFICES ASSUME HistInv, ModelAnswers PROVE HistInv'
  OBVIOUS
<1>1. point = "turn" /\ point # "idle" /\ UNCHANGED <<prompt, task>>
  BY DEF ModelAnswers
<1>2. Live(Asked, task, ended)
  BY <1>1, AskedIsLive
<1>3. Live(Append(Asked, Final), task, ended)
  BY <1>2, AppendedKinds, LiveGrows
<1>4. \/ EndWith(Append(Asked, Final))
      \/ hist' = Asked \o <<Final, Note>> /\ UNCHANGED <<carried, point, request, ended>>
  BY DEF ModelAnswers
<1>5. CASE EndWith(Append(Asked, Final))
  BY <1>1, <1>3, <1>5, EndKeeps
<1>6. CASE hist' = Asked \o <<Final, Note>> /\ UNCHANGED <<carried, point, request, ended>>
  <2>1. Asked \in Seq(Messages)
    BY <1>2 DEF Live, Well, Shape
  <2>2. Asked \o <<Final, Note>> = Append(Append(Asked, Final), Note)
    <3> DEFINE a == Asked
    <3> HIDE DEF a
    <3>1. ASSUME a \in Seq(Messages) PROVE a \o <<Final, Note>> = Append(Append(a, Final), Note)
      BY <3>1, AppendedKinds
    <3> QED BY <2>1, <3>1 DEF a
  <2>3. Live(Append(Append(Asked, Final), Note), task, ended)
    BY <1>3, AppendedKinds, LiveGrows
  <2> QED BY <1>1, <1>6, <2>2, <2>3, LiveTurn
<1> QED BY <1>4, <1>5, <1>6

LEMMA GivesUpKeeps == HistInv /\ GivesUp => HistInv'
<1> SUFFICES ASSUME HistInv, GivesUp PROVE HistInv'
  OBVIOUS
<1>1. point # "idle" /\ EndWith(Append(Asked, Final)) /\ UNCHANGED <<prompt, task>>
  BY DEF GivesUp
<1>2. Live(Append(Asked, Final), task, ended)
  BY <1>1, AskedIsLive, AppendedKinds, LiveGrows
<1> QED BY <1>1, <1>2, EndKeeps

LEMMA ModelCallsKeeps == HistInv /\ ModelCalls => HistInv'
<1> SUFFICES ASSUME HistInv, ModelCalls PROVE HistInv'
  OBVIOUS
<1>1. point = "turn" /\ point # "idle" /\ UNCHANGED <<carried, prompt, task, ended>>
  BY DEF ModelCalls
<1>2. PICK id \in FromReply \union FromText, tool \in Tools :
         LET r == [id |-> id, tool |-> tool] IN
         \/ /\ hist' = AppendResult(Append(Asked, Call(r)), r, Placeholder, {}, {})
            /\ UNCHANGED <<point, request>>
         \/ /\ hist' = Append(Asked, Call(r))
            /\ point' = "tool" /\ request' = r
  BY DEF ModelCalls
<1> DEFINE r == [id |-> id, tool |-> tool]
           h == Append(Asked, Call(r))
<1>3. r \in Requests
  BY DEF FromReply, FromText, Requests
<1> HIDE DEF r
<1>4. Live(h, task, ended) /\ h[Len(h)] = Call(r)
  BY <1>1, <1>3, AskedIsLive, AppendedKinds, LiveGrows
<1> HIDE DEF h
<1>5. CASE /\ hist' = AppendResult(h, r, Placeholder, {}, {}) /\ UNCHANGED <<point, request>>
  <2>1. Live(AppendResult(h, r, Placeholder, {}, {}), task, ended)
    BY <1>3, <1>4, ResultGrows, HistoryConstants
  <2> QED BY <1>1, <1>5, <2>1, LiveTurn
<1>6. CASE hist' = h /\ point' = "tool" /\ request' = r
  <2>1. Well(h) /\ h # <<>> /\ Requested(h, task) /\ Story(h, ended \union {task})
    BY <1>4 DEF Live
  <2> QED BY <1>1, <1>3, <1>4, <1>6, <2>1 DEF HistInv, Requests
<1> QED BY <1>2, <1>5, <1>6 DEF h, r

\* While a call is handled it is the last that was said.
LEMMA CallIsLive ==
    ASSUME HistInv, point = "tool"
    PROVE  Live(hist, task, ended) /\ request \in Requests /\ hist[Len(hist)] = Call(request)
BY DEF HistInv, Live, Requests

LEMMA BlockedKeeps == HistInv /\ Blocked => HistInv'
<1> SUFFICES ASSUME HistInv, Blocked PROVE HistInv'
  OBVIOUS
<1>1. /\ point = "tool" /\ point # "idle" /\ point' = "turn"
      /\ hist' = AppendResult(hist, request, Placeholder, {}, {})
      /\ UNCHANGED <<carried, prompt, task, ended>>
  BY DEF Blocked, ToTurn
<1>2. Live(AppendResult(hist, request, Placeholder, {}, {}), task, ended)
  BY <1>1, CallIsLive, ResultGrows, HistoryConstants
<1> QED BY <1>1, <1>2, LiveTurn

LEMMA RefusedKeeps == HistInv /\ Refused => HistInv'
<1> SUFFICES ASSUME HistInv, Refused PROVE HistInv'
  OBVIOUS
<1>1. point # "idle" /\ EndWith(Append(Asked, Final)) /\ UNCHANGED <<prompt, task>>
  BY DEF Refused, Asked
<1>2. Live(Append(Asked, Final), task, ended)
  BY <1>1, AskedIsLive, AppendedKinds, LiveGrows
<1> QED BY <1>1, <1>2, EndKeeps

LEMMA ToolTurnKeeps == HistInv /\ ToolTurn => HistInv'
<1> SUFFICES ASSUME HistInv, ToolTurn PROVE HistInv'
  OBVIOUS
<1>1. /\ point = "tool" /\ point # "idle" /\ point' = "turn"
      /\ UNCHANGED <<carried, prompt, task, ended>>
  BY DEF ToolTurn, ToTurn
<1>2. PICK pre \in Outcomes("pre_tool_use", request.tool, {}) :
         IF pre.decision = "deny"
         THEN hist' = AppendResult(hist, request, Placeholder, {}, {}) \o Notes(pre.notes)
         ELSE \E size \in Sizes, post \in Outcomes("post_tool_use", request.tool, Kinds) :
                hist' = AppendResult(hist, request, size, post.output, post.maskedBy)
                          \o Notes(pre.notes + post.notes)
  BY DEF ToolTurn
<1>3. CASE hist' = AppendResult(hist, request, Placeholder, {}, {}) \o Notes(pre.notes)
  <2>1. Live(AppendResult(hist, request, Placeholder, {}, {}), task, ended)
    BY <1>1, CallIsLive, ResultGrows, HistoryConstants
  <2>2. Live(hist', task, ended)
    BY <1>3, <2>1, NotesGrow
  <2> QED BY <1>1, <2>2, LiveTurn
<1>4. ASSUME NEW size \in Sizes, NEW post \in Outcomes("post_tool_use", request.tool, Kinds),
             hist' = AppendResult(hist, request, size, post.output, post.maskedBy)
                       \o Notes(pre.notes + post.notes)
      PROVE  HistInv'
  <2>1. post \in Results /\ OutcomeIsMasked(post)
    BY ChainMasks DEF Outcomes
  <2>2. /\ size \in Nat /\ post.output \in SUBSET Kinds /\ post.maskedBy \in SUBSET ChainIds
        /\ \A id \in post.maskedBy : post.output \intersect KindsOf(id) = {}
    BY <2>1, HistoryConstants DEF Results, OutcomeIsMasked
  <2>3. Live(AppendResult(hist, request, size, post.output, post.maskedBy), task, ended)
    BY <1>1, <2>2, CallIsLive, ResultGrows
  <2>4. Live(hist', task, ended)
    BY <1>4, <2>3, NotesGrow
  <2> QED BY <1>1, <2>4, LiveTurn
<1> QED BY <1>2, <1>3, <1>4

LEMMA AbandonKeeps == HistInv /\ Abandon => HistInv'
BY DEF HistInv, Abandon

\* The invariant of the session's conversation.
THEOREM HistoryInvariant == HistorySpec => []HistInv
<1>1. HistoryInit => HistInv
  BY EmptyIsWell DEF HistoryInit, HistInv
<1>2. HistInv /\ [HistoryNext]_historyVars => HistInv'
  <2>1. HistInv /\ UNCHANGED historyVars => HistInv'
    BY DEF HistInv, historyVars
  <2> QED
    BY <2>1, ResumeKeeps, StartTaskKeeps, GoalStartKeeps, ModelAnswersKeeps, GivesUpKeeps,
       ModelCallsKeeps, BlockedKeeps, RefusedKeeps, ToolTurnKeeps, AbandonKeeps DEF HistoryNext
<1> QED BY <1>1, <1>2, PTL DEF HistorySpec

\* What the model is asked keeps the pairing of calls and results, and leaves no
\* result out (messages_to_wire).
THEOREM RequestsArePaired == HistorySpec => []SentIsPaired
<1>1. HistInv => SentIsPaired
  <2> SUFFICES ASSUME HistInv PROVE SentIsPaired
    OBVIOUS
  <2>1. Well(Asked)
    BY EnsuringKeeps DEF HistInv, Asked
  <2> QED BY <2>1, WireIsPaired DEF SentIsPaired
<1> QED BY <1>1, HistoryInvariant, PTL

\* No output is compacted or cleared but for newer ones, and every task that ended is
\* told of once, in order (compact_snapshot_history, apply_history_budget,
\* digest_tasks).
THEOREM NewestAreKept == HistorySpec => []NewestStay
<1>1. HistInv => NewestStay
  <2> SUFFICES ASSUME HistInv PROVE NewestStay
    OBVIOUS
  <2>1. Well(hist) /\ Well(carried) /\ Story(carried, ended)
    BY DEF HistInv
  <2>2. ASSUME ended # {} PROVE {i \in 1 .. Len(carried) : carried[i].role = "system"} = {1}
    <3>1. Len(carried) \in Nat /\ Headed(carried)
      BY <2>1 DEF Well, Shape
    <3>2. PICK i \in 1 .. Len(carried) : TRUE
      BY <2>1, <2>2 DEF Story, Told
    <3>3. 1 \in 1 .. Len(carried)
      BY <3>1, <3>2
    <3> QED BY <3>1, <3>3 DEF Headed
  <2>3. EveryTaskOnce
    BY <2>1, <2>2 DEF EveryTaskOnce, Story
  <2> QED BY <2>1, <2>3 DEF NewestStay, Well, Newest, Superseded
<1> QED BY <1>1, HistoryInvariant, PTL

\* What a hook took out of an output is nowhere in the history (HookEngine.run).
THEOREM MasksHold == HistorySpec => []MaskedStays
<1>1. HistInv => MaskedStays
  BY DEF HistInv, Well, Shape, Masked, OutcomeIsMasked, MaskedStays
<1> QED BY <1>1, HistoryInvariant, PTL

-----------------------------------------------------------------------------
(* Batches: the lines of the history.                                      *)

\* What holds at the start and of a number when it holds of the one before, holds up to n.
LEMMA UpTo ==
    ASSUME NEW n \in Nat, NEW T, 0 \in T, \A i \in 1 .. n : i - 1 \in T => i \in T
    PROVE  \A i \in 0 .. n : i \in T
<1> DEFINE Bad == {i \in 0 .. n : i \notin T}
<1> SUFFICES ASSUME Bad # {} PROVE FALSE
  OBVIOUS
<1>1. PICK m \in Bad : \A k \in Bad : m <= k
  BY LeastOf, Bad \subseteq Nat
<1>2. m # 0 /\ m \in 0 .. n
  BY <1>1
<1>3. m - 1 \in 0 .. n /\ m \in 1 .. n /\ ~(m <= m - 1)
  BY <1>2
<1>4. m - 1 \notin Bad
  BY <1>1, <1>3
<1> QED BY <1>1, <1>3, <1>4

\* The lines of a history, and those that are rows.
AnyLines == [batch : Batches \cup {0}, scenario : Scenarios \cup {"torn"}]
WholeLines == AnyLines \ {Torn}

\* The rows among the first i lines (Whole).
Sifted(upto, lines) ==
    /\ upto \in [0 .. Len(lines) -> Seq(WholeLines)]
    /\ upto[0] = <<>>
    /\ \A i \in 1 .. Len(lines) :
           upto[i] = IF lines[i] = Torn THEN upto[i - 1] ELSE Append(upto[i - 1], lines[i])

LEMMA WholeIs ==
    ASSUME NEW lines \in Seq(AnyLines)
    PROVE  \E upto : Sifted(upto, lines) /\ Whole(lines) = upto[Len(lines)]
<1> DEFINE n == Len(lines)
           S == Seq(WholeLines)
           R(v) == v = [i \in 0 .. n |-> IF i = 0 THEN <<>>
                                         ELSE IF lines[i] = Torn THEN v[i - 1]
                                         ELSE Append(v[i - 1], lines[i])]
           C == CHOOSE v : R(v)
           step == [p \in S \X Nat |->
                      IF p[2] \in 1 .. n /\ lines[p[2]] # Torn THEN Append(p[1], lines[p[2]]) ELSE p[1]]
<1>1. n \in Nat /\ \A i \in 1 .. n : lines[i] \in AnyLines
  OBVIOUS
<1> HIDE DEF n
<1>2. step \in [S \X Nat -> S] /\ <<>> \in S
  <2> SUFFICES ASSUME NEW a \in S, NEW k \in Nat
               PROVE  (IF k \in 1 .. n /\ lines[k] # Torn THEN Append(a, lines[k]) ELSE a) \in S
    OBVIOUS
  <2>1. k \in 1 .. n /\ lines[k] # Torn => lines[k] \in WholeLines
    BY <1>1 DEF WholeLines
  <2> QED BY <2>1
<1>3. PICK f \in [0 .. n -> S] : Follows(f, <<>>, step, n)
  BY <1>1, <1>2, Recursion
<1>4. ASSUME NEW i \in 0 .. n
      PROVE  f[i] = IF i = 0 THEN <<>> ELSE IF lines[i] = Torn THEN f[i - 1] ELSE Append(f[i - 1], lines[i])
  <2>1. f[i] = IF i = 0 THEN <<>> ELSE step[<<f[i - 1], i>>]
    BY <1>3 DEF Follows
  <2>2. i # 0 => i - 1 \in 0 .. n /\ i \in 1 .. n /\ i \in Nat
    BY <1>1
  <2>3. i # 0 => step[<<f[i - 1], i>>] = IF lines[i] = Torn THEN f[i - 1] ELSE Append(f[i - 1], lines[i])
    BY <2>2
  <2> QED BY <2>1, <2>3
<1> HIDE DEF step
<1>5. R(f)
  <2>1. f = [i \in 0 .. n |-> f[i]]
    OBVIOUS
  <2> QED BY <1>4, <2>1
<1>6. R(C)
  BY <1>5
<1>7. Whole(lines) = C[n]
  BY DEF Whole, n, C, R
<1> HIDE DEF C
<1>8. C[0] = <<>> /\ \A i \in 1 .. n : C[i] = IF lines[i] = Torn THEN C[i - 1] ELSE Append(C[i - 1], lines[i])
  <2>1. \A i \in 0 .. n : C[i] = IF i = 0 THEN <<>>
                                 ELSE IF lines[i] = Torn THEN C[i - 1] ELSE Append(C[i - 1], lines[i])
    BY <1>6
  <2>2. 0 \in 0 .. n /\ \A i \in 1 .. n : i \in 0 .. n /\ i # 0
    BY <1>1
  <2> HIDE DEF R
  <2> QED BY <2>1, <2>2
<1>9. \A i \in 0 .. n : C[i] = f[i]
  <2> DEFINE T == {i \in 0 .. n : C[i] = f[i]}
  <2>1. 0 \in T
    BY <1>1, <1>4, <1>8
  <2>2. ASSUME NEW i \in 1 .. n, i - 1 \in T PROVE i \in T
    <3>1. i \in 0 .. n /\ i # 0 /\ C[i - 1] = f[i - 1]
      BY <1>1, <2>2
    <3> QED BY <3>1, <1>4, <1>8
  <2> HIDE DEF T
  <2>3. \A i \in 0 .. n : i \in T
    BY <1>1, <2>1, <2>2, UpTo
  <2> QED BY <2>3 DEF T
<1>10. C \in [0 .. n -> S]
  BY <1>6, <1>9
<1> QED BY <1>7, <1>8, <1>10 DEF Sifted, n

LEMMA WholeTypes ==
    ASSUME NEW lines \in Seq(AnyLines)
    PROVE  Whole(lines) \in Seq(WholeLines)
<1>1. PICK f : Sifted(f, lines) /\ Whole(lines) = f[Len(lines)]
  BY WholeIs
<1>2. Len(lines) \in 0 .. Len(lines)
  OBVIOUS
<1> QED BY <1>1, <1>2 DEF Sifted

\* The rows of two parts of a file.
LEMMA WholeOfBoth ==
    ASSUME NEW a \in Seq(AnyLines), NEW b \in Seq(AnyLines)
    PROVE  Whole(a \o b) = Whole(a) \o Whole(b)
<1> DEFINE c == a \o b
           S == Seq(WholeLines)
<1>1. /\ c \in Seq(AnyLines) /\ Len(c) = Len(a) + Len(b) /\ Len(a) \in Nat /\ Len(b) \in Nat
      /\ \A i \in 1 .. Len(a) + Len(b) : c[i] = IF i <= Len(a) THEN a[i] ELSE b[i - Len(a)]
  BY ConcatProperties
<1> HIDE DEF c
<1>2. PICK f : Sifted(f, a) /\ Whole(a) = f[Len(a)]
  BY WholeIs
<1>3. PICK g : Sifted(g, b) /\ Whole(b) = g[Len(b)]
  BY WholeIs
<1>4. PICK h : Sifted(h, c) /\ Whole(c) = h[Len(c)]
  BY <1>1, WholeIs
<1>5. \A i \in 0 .. Len(a) : h[i] = f[i]
  <2> DEFINE T == {i \in 0 .. Len(a) : h[i] = f[i]}
  <2>1. 0 \in T
    BY <1>1, <1>2, <1>4 DEF Sifted
  <2>2. ASSUME NEW i \in 1 .. Len(a), i - 1 \in T PROVE i \in T
    <3>1. i \in 0 .. Len(a) /\ i \in 1 .. Len(c) /\ c[i] = a[i] /\ h[i - 1] = f[i - 1]
      BY <1>1, <2>2
    <3>2. h[i] = IF c[i] = Torn THEN h[i - 1] ELSE Append(h[i - 1], c[i])
      BY <3>1, <1>4 DEF Sifted
    <3>3. f[i] = IF a[i] = Torn THEN f[i - 1] ELSE Append(f[i - 1], a[i])
      BY <1>2 DEF Sifted
    <3> QED BY <3>1, <3>2, <3>3
  <2> HIDE DEF T
  <2>3. \A i \in 0 .. Len(a) : i \in T
    BY <1>1, <2>1, <2>2, UpTo
  <2> QED BY <2>3 DEF T
<1>6. \A i \in 0 .. Len(b) : h[Len(a) + i] = Whole(a) \o g[i]
  <2> DEFINE T == {i \in 0 .. Len(b) : h[Len(a) + i] = Whole(a) \o g[i]}
  <2>0. Whole(a) \in S
    BY WholeTypes
  <2>1. 0 \in T
    <3>1. h[Len(a) + 0] = Whole(a) /\ g[0] = <<>> /\ 0 \in 0 .. Len(b)
      BY <1>1, <1>2, <1>3, <1>5 DEF Sifted
    <3>2. Whole(a) \o <<>> = Whole(a)
      BY <2>0, ConcatEmptySeq
    <3> QED BY <3>1, <3>2
  <2>2. ASSUME NEW i \in 1 .. Len(b), i - 1 \in T PROVE i \in T
    <3> DEFINE j == Len(a) + i
    <3>1. /\ i \in 0 .. Len(b) /\ i - 1 \in 0 .. Len(b) /\ j \in 1 .. Len(c) /\ c[j] = b[i]
          /\ j - 1 = Len(a) + (i - 1)
      <4>1. j \in 1 .. Len(c) /\ ~(j <= Len(a)) /\ j - Len(a) = i /\ j - 1 = Len(a) + (i - 1)
        BY <1>1
      <4>2. c[j] = b[j - Len(a)]
        BY <4>1, <1>1
      <4> QED BY <4>1, <4>2, <1>1
    <3>2. h[j - 1] = Whole(a) \o g[i - 1]
      BY <2>2, <3>1
    <3>3. h[j] = IF c[j] = Torn THEN h[j - 1] ELSE Append(h[j - 1], c[j])
      BY <3>1, <1>4 DEF Sifted
    <3>4. g[i] = (IF b[i] = Torn THEN g[i - 1] ELSE Append(g[i - 1], b[i])) /\ g[i - 1] \in S
      BY <3>1, <1>3 DEF Sifted
    <3>5. ASSUME b[i] # Torn
          PROVE  Append(Whole(a) \o g[i - 1], b[i]) = Whole(a) \o Append(g[i - 1], b[i])
      <4> DEFINE w == Whole(a)
                 p == g[i - 1]
                 x == b[i]
      <4>1. w \in S /\ p \in S /\ x \in WholeLines
        BY <2>0, <3>4, <3>5 DEF WholeLines
      <4> HIDE DEF w, p, x
      <4> DEFINE one == <<x>>
      <4>2. w \o p \in S
        BY <4>1, ConcatProperties
      <4>3. Append(w \o p, x) = (w \o p) \o one /\ Append(p, x) = p \o one
        BY <4>1, <4>2, AppendIsConcat
      <4>4. (w \o p) \o one = w \o (p \o one)
        <5>1. w \in S /\ p \in S /\ one \in S
          BY <4>1
        <5> HIDE DEF one
        <5> QED BY <5>1, ConcatAssociative
      <4>5. Append(w \o p, x) = w \o Append(p, x)
        BY <4>3, <4>4
      <4> QED BY <4>5 DEF w, p, x
    <3>6. h[j] = Whole(a) \o g[i]
      <4> HIDE DEF j
      <4> QED BY <3>1, <3>2, <3>3, <3>4, <3>5
    <3> QED BY <3>1, <3>6
  <2> HIDE DEF T
  <2>3. \A i \in 0 .. Len(b) : i \in T
    BY <1>1, <2>1, <2>2, UpTo
  <2> QED BY <2>3 DEF T
<1>7. Len(b) \in 0 .. Len(b)
  BY <1>1
<1>8. h[Len(a) + Len(b)] = Whole(a) \o Whole(b)
  BY <1>3, <1>6, <1>7
<1>9. Whole(c) = Whole(a) \o Whole(b)
  BY <1>1, <1>4, <1>8
<1> QED BY <1>9 DEF c

\* Rows are whole.
LEMMA WholeOfRows ==
    ASSUME NEW rows \in Seq(WholeLines)
    PROVE  Whole(rows) = rows
<1> DEFINE n == Len(rows)
<1>1. n \in Nat /\ rows \in Seq(AnyLines) /\ \A i \in 1 .. n : rows[i] \in WholeLines /\ rows[i] # Torn
  BY DEF WholeLines
<1>2. PICK f : Sifted(f, rows) /\ Whole(rows) = f[n]
  BY <1>1, WholeIs
<1> HIDE DEF n
<1>3. f \in [0 .. n -> Seq(WholeLines)] /\ f[0] = <<>> /\ \A i \in 1 .. n : f[i] = Append(f[i - 1], rows[i])
  BY <1>1, <1>2 DEF Sifted, n
<1> DEFINE T == {i \in 0 .. n : Len(f[i]) = i /\ \A j \in 1 .. i : f[i][j] = rows[j]}
<1>4. 0 \in T
  BY <1>1, <1>3
<1>5. ASSUME NEW i \in 1 .. n, i - 1 \in T PROVE i \in T
  <2>1. i \in 0 .. n /\ i - 1 \in 0 .. n
    BY <1>1
  <2> DEFINE p == f[i - 1]
             x == rows[i]
  <2>2. p \in Seq(WholeLines) /\ Len(p) = i - 1 /\ (\A j \in 1 .. i - 1 : p[j] = rows[j]) /\ x \in WholeLines
        /\ f[i] = Append(p, x)
    BY <1>1, <1>3, <1>5, <2>1
  <2> HIDE DEF p
  <2>3. Len(f[i]) = i /\ (\A j \in 1 .. i - 1 : f[i][j] = p[j]) /\ f[i][i] = x
    BY <2>2, AppendProperties
  <2>4. \A j \in 1 .. i : j = i \/ j \in 1 .. i - 1
    OBVIOUS
  <2>5. \A j \in 1 .. i : f[i][j] = rows[j]
    BY <2>2, <2>3, <2>4
  <2> QED BY <2>1, <2>3, <2>5
<1> HIDE DEF T
<1>6. \A i \in 0 .. n : i \in T
  BY <1>1, <1>4, <1>5, UpTo
<1>7. n \in T /\ f[n] \in Seq(WholeLines)
  BY <1>1, <1>3, <1>6
<1>8. Len(f[n]) = Len(rows) /\ \A j \in 1 .. Len(f[n]) : f[n][j] = rows[j]
  BY <1>7 DEF T, n
<1>9. f[n] = rows
  BY <1>7, <1>8, SeqEqual
<1> QED BY <1>2, <1>9

LEMMA WholeOfTorn == Whole(<<Torn>>) = <<>> /\ <<Torn>> \in Seq(AnyLines) /\ Whole(<<>>) = <<>>
<1>1. Torn \in AnyLines
  BY DEF Torn, AnyLines
<1> DEFINE one == <<Torn>>
<1>2. one \in Seq(AnyLines) /\ Len(one) = 1 /\ one[1] = Torn
  BY <1>1
<1> HIDE DEF one
<1>3. PICK f : Sifted(f, one) /\ Whole(one) = f[Len(one)]
  BY <1>2, WholeIs
<1>4. f[1] = f[0] /\ f[0] = <<>>
  <2>1. 1 \in 1 .. Len(one) /\ 1 - 1 = 0
    BY <1>2
  <2> QED BY <1>2, <1>3, <2>1 DEF Sifted
<1>5. Whole(<<>>) = <<>>
  <2>1. <<>> \in Seq(WholeLines)
    OBVIOUS
  <2> QED BY <2>1, WholeOfRows
<1> QED BY <1>2, <1>3, <1>4, <1>5 DEF one

-----------------------------------------------------------------------------
(* What is so between two steps of a batch.                                *)

\* The fields of a batch's folder and of the batch that runs.
Folder(json, status, hash, rows) == [json |-> json, status |-> status, hash |-> hash, rows |-> rows]
IsFolder(d) == d = Folder(d.json, d.status, d.hash, d.rows)

Batching(pc, batch, keep, grade, status, at, trace, statuses, error, stopped, hit, causes) ==
    [pc |-> pc, batch |-> batch, keep |-> keep, grade |-> grade, status |-> status, at |-> at,
     trace |-> trace, statuses |-> statuses, raised |-> error, stopped |-> stopped, hit |-> hit,
     causes |-> causes]
IsBatching(r) ==
    r = Batching(r.pc, r.batch, r.keep, r.grade, r.status, r.at, r.trace, r.statuses, r.raised,
                r.stopped, r.hit, r.causes)

\* The rows of a folder tell of scenarios; nothing else of them matters here.
TellsOfScenarios(rows) ==
    (\E T : rows \in Seq(T)) /\ \A i \in 1 .. Len(rows) : rows[i].scenario \in Scenarios

BatchTypes ==
    /\ results = [b \in Batches |-> results[b]]
    /\ \A b \in Batches :
           /\ IsFolder(results[b]) /\ results[b].json \in {"none", "open", "torn", "finished"}
           /\ TellsOfScenarios(results[b].rows)
    /\ IsBatching(run)
    /\ run.pc \in {"idle", "open", "task", "close", "end", "history", "rotate"}
    /\ run.at \in Nat \ {0}
    /\ history = [lines |-> history.lines, ragged |-> history.ragged]
    /\ history.lines \in Seq(AnyLines)
    /\ wrote \in Seq(WholeLines)

\* Which batch runs, and what its folder says meanwhile.
Runs ==
    /\ run.pc = "idle" => run.batch = 0
    /\ run.pc # "idle" => run.batch \in Batches \ killed
    /\ run.pc \in {"open", "task", "close", "end"} => results[run.batch].json = "open"
    /\ run.pc \in {"task", "close"} => run.at <= Len(Golden)
    /\ killed \subseteq {b \in Batches : results[b].json \in {"open", "torn"}}

\* What is not in the history any more was written before what is.
HistoryIsNewest ==
    \E gone \in Seq(WholeLines) :
        /\ wrote = gone \o Whole(history.lines)
        /\ gone # <<>> => Len(history.lines) >= MaxRows

BatchInv == BatchTypes /\ Runs /\ HistoryIsNewest

\* At the start there is nothing.
LEMMA BatchStarts ==
    ASSUME BatchAssumption, BatchInit
    PROVE  BatchInv
<1>1. /\ results = [b \in Batches |-> NoBatch] /\ run = Idle /\ wrote = <<>> /\ killed = {}
      /\ history = [lines |-> <<>>, ragged |-> FALSE]
  BY DEF BatchInit
<1>2. TellsOfScenarios(<<>>)
  BY DEF TellsOfScenarios
<1>3. IsFolder(NoBatch) /\ NoBatch.json = "none" /\ NoBatch.rows = <<>>
  BY DEF IsFolder, Folder, NoBatch
<1>4. IsBatching(Idle) /\ Idle.pc = "idle" /\ Idle.at = 1 /\ Idle.batch = 0
  BY DEF IsBatching, Batching, Idle
<1>5. <<>> \in Seq(AnyLines) /\ <<>> \in Seq(WholeLines) /\ <<>> \o <<>> = <<>>
  OBVIOUS
<1>6. BatchTypes
  <2>1. history.lines = <<>> /\ history.ragged = FALSE
    BY <1>1
  <2>2. \A b \in Batches : results[b] = NoBatch
    BY <1>1
  <2> QED BY <1>1, <1>2, <1>3, <1>4, <1>5, <2>1, <2>2 DEF BatchTypes
<1>7. Runs
  BY <1>1, <1>4 DEF Runs
<1>8. HistoryIsNewest
  BY <1>1, <1>5, WholeOfTorn DEF HistoryIsNewest
<1> QED BY <1>6, <1>7, <1>8 DEF BatchInv

\* Steps that change only the batch that runs.
LEMMA RunStepKeeps ==
    ASSUME BatchInv, UNCHANGED <<results, history, wrote, killed>>,
           IsBatching(run'), run'.pc \in {"idle", "open", "task", "close", "end", "history", "rotate"},
           run'.at \in Nat \ {0}, Runs'
    PROVE  BatchInv'
<1>1. BatchTypes'
  BY DEF BatchInv, BatchTypes
<1>2. HistoryIsNewest'
  BY DEF BatchInv, HistoryIsNewest
<1> QED BY <1>1, <1>2 DEF BatchInv

\* The steps of a task.
LEMMA TaskStepKeeps ==
    ASSUME BatchInv, UNCHANGED <<results, history, wrote, killed>>, run.pc = "task",
           IsBatching(run'), run'.pc \in {"task", "close"}, run'.at = run.at, run'.batch = run.batch
    PROVE  BatchInv'
<1>1. Runs'
  BY DEF BatchInv, Runs
<1>2. run'.at \in Nat \ {0}
  BY DEF BatchInv, BatchTypes
<1> QED BY <1>1, <1>2, RunStepKeeps

LEMMA TaskStepsKeep ==
    ASSUME BatchInv,
           \/ \E decision \in {"allow", "deny"} : RuledCall(decision)
           \/ JudgedSafe
           \/ \E error : JudgedUnsafe(error)
           \/ \E status, reason : TaskReturns(status, reason)
           \/ \E error : TaskFails(error) \/ StartFails(error)
           \/ Interrupt
    PROVE  BatchInv'
<1> USE DEF IsBatching, Batching
<1>1. IsBatching(run)
  BY DEF BatchInv, BatchTypes
<1>2. CASE \E decision \in {"allow", "deny"} : RuledCall(decision)
  <2>1. PICK trace, causes : run' = [run EXCEPT !.trace = trace, !.causes = causes]
    BY <1>2 DEF RuledCall
  <2>2. IsBatching(run') /\ run'.pc = run.pc /\ run'.at = run.at /\ run'.batch = run.batch
    BY <1>1, <2>1
  <2> QED BY <1>2, <2>2, TaskStepKeeps DEF RuledCall
<1>3. CASE JudgedSafe
  <2>1. PICK trace : run' = [run EXCEPT !.trace = trace]
    BY <1>3 DEF JudgedSafe
  <2>2. IsBatching(run') /\ run'.pc = run.pc /\ run'.at = run.at /\ run'.batch = run.batch
    BY <1>1, <2>1
  <2> QED BY <1>3, <2>2, TaskStepKeeps DEF JudgedSafe
<1>4. ASSUME NEW error, JudgedUnsafe(error) PROVE BatchInv'
  <2> DEFINE outage == error \in Outages
             causes == Blame(run.causes \cup {IF outage THEN "outage" ELSE "agent"})
             hit == [run EXCEPT !.causes = causes, !.hit = run.hit \/ outage]
  <2>1. run.pc = "task" /\ UNCHANGED <<results, history, wrote, killed>>
    BY <1>4 DEF JudgedUnsafe
  <2>2. IsBatching(hit) /\ hit.pc = run.pc /\ hit.at = run.at /\ hit.batch = run.batch
    <3>1. \E c, h : hit = [run EXCEPT !.causes = c, !.hit = h]
      <4> HIDE DEF causes, outage
      <4> QED BY Zenon
    <3>2. PICK c, h : hit = [run EXCEPT !.causes = c, !.hit = h]
      <4> HIDE DEF hit
      <4> QED BY <3>1
    <3> HIDE DEF hit
    <3> QED BY <1>1, <3>2
  <2>3. \/ \E trace : run' = [hit EXCEPT !.trace = trace]
        \/ \E trace, statuses, pc : pc \in {"close", hit.pc}
               /\ run' = [hit EXCEPT !.trace = trace, !.statuses = statuses, !.hit = FALSE, !.pc = pc]
    <3>1. CASE Mode = "dont_ask"
      BY <1>4, <3>1 DEF JudgedUnsafe
    <3>2. CASE Mode # "dont_ask"
      <4>1. run' = [hit EXCEPT
                      !.trace = hit.trace \o <<Judged(error), Decided("ask"),
                                               Ended("blocked", "approval_denied", "")>>,
                      !.statuses = Append(hit.statuses, "blocked"),
                      !.hit = FALSE,
                      !.pc = IF Task = TaskCount[Scenario] THEN "close" ELSE hit.pc]
        BY <1>4, <3>2 DEF JudgedUnsafe
      <4> HIDE DEF hit
      <4> QED BY <4>1
    <3> QED BY <3>1, <3>2
  <2> HIDE DEF hit
  <2>4. IsBatching(run') /\ run'.pc \in {"close", hit.pc} /\ run'.at = run.at /\ run'.batch = run.batch
    BY <2>2, <2>3
  <2> QED BY <2>1, <2>2, <2>4, TaskStepKeeps
<1>5. ASSUME NEW statuses, NEW error, NEW event, NEW causes, NEW e,
             e = EndTask(statuses, error, event, causes), run.pc = "task"
      PROVE  IsBatching(e) /\ e.pc \in {"task", "close"} /\ e.at = run.at /\ e.batch = run.batch
  <2> DEFINE trace == Append(run.trace, event)
             c == Blame(causes)
             s == IF error = "" THEN run.status ELSE "failed"
             pc == IF error # "" \/ Len(statuses) = TaskCount[Scenario] THEN "close" ELSE run.pc
  <2>1. e = [run EXCEPT !.trace = trace, !.causes = c, !.statuses = statuses, !.raised = error,
                        !.status = s, !.hit = FALSE, !.pc = pc]
    BY <1>5 DEF EndTask
  <2>2. pc \in {"close", run.pc}
    OBVIOUS
  <2> HIDE DEF trace, c, s, pc
  <2> QED BY <1>1, <1>5, <2>1, <2>2
<1>6. ASSUME NEW status, NEW reason, TaskReturns(status, reason) PROVE BatchInv'
  <2>1. run.pc = "task" /\ UNCHANGED <<results, history, wrote, killed>>
    BY <1>6 DEF TaskReturns
  <2>2. \E statuses, error, event, causes : run' = EndTask(statuses, error, event, causes)
    BY <1>6, Zenon DEF TaskReturns
  <2>3. IsBatching(run') /\ run'.pc \in {"task", "close"} /\ run'.at = run.at /\ run'.batch = run.batch
    BY <1>5, <2>1, <2>2
  <2> QED BY <2>1, <2>3, TaskStepKeeps
<1>7. ASSUME NEW error, TaskFails(error) PROVE BatchInv'
  <2>1. run.pc = "task" /\ UNCHANGED <<results, history, wrote, killed>>
    BY <1>7 DEF TaskFails
  <2>2. \E statuses, e, event, causes : run' = EndTask(statuses, e, event, causes)
    BY <1>7 DEF TaskFails
  <2>3. IsBatching(run') /\ run'.pc \in {"task", "close"} /\ run'.at = run.at /\ run'.batch = run.batch
    BY <1>5, <2>1, <2>2
  <2> QED BY <2>1, <2>3, TaskStepKeeps
<1>8. ASSUME NEW error, StartFails(error) PROVE BatchInv'
  <2>1. run.pc = "task" /\ UNCHANGED <<results, history, wrote, killed>>
        /\ \E causes : run' = [run EXCEPT !.pc = "close", !.raised = error, !.status = "failed", !.causes = causes]
    BY <1>8 DEF StartFails
  <2>2. IsBatching(run') /\ run'.pc = "close" /\ run'.at = run.at /\ run'.batch = run.batch
    BY <1>1, <2>1
  <2> QED BY <2>1, <2>2, TaskStepKeeps
<1>9. CASE Interrupt
  <2>1. run.pc = "task" /\ UNCHANGED <<results, history, wrote, killed>>
        /\ run' = [run EXCEPT !.pc = "close", !.stopped = TRUE]
    BY <1>9 DEF Interrupt
  <2>2. IsBatching(run') /\ run'.pc = "close" /\ run'.at = run.at /\ run'.batch = run.batch
    BY <1>1, <2>1
  <2> QED BY <2>1, <2>2, TaskStepKeeps
<1> QED BY <1>2, <1>3, <1>4, <1>6, <1>7, <1>8, <1>9

-----------------------------------------------------------------------------
(* The folder of a batch.                                                  *)

\* Steps that change one batch's folder.
LEMMA FolderStepKeeps ==
    ASSUME BatchInv, NEW b \in Batches, NEW d, results' = [results EXCEPT ![b] = d],
           IsFolder(d), d.json \in {"none", "open", "torn", "finished"}, TellsOfScenarios(d.rows),
           UNCHANGED <<history, wrote>>,
           IsBatching(run'), run'.pc \in {"idle", "open", "task", "close", "end", "history", "rotate"},
           run'.at \in Nat \ {0}, Runs'
    PROVE  BatchInv'
<1>1. results' = [c \in Batches |-> results'[c]] /\ \A c \in Batches : results'[c] = IF c = b THEN d ELSE results[c]
  BY DEF BatchInv, BatchTypes
<1>2. ASSUME NEW c \in Batches
      PROVE  /\ IsFolder(results'[c]) /\ results'[c].json \in {"none", "open", "torn", "finished"}
             /\ TellsOfScenarios(results'[c].rows)
  BY <1>1 DEF BatchInv, BatchTypes
<1>3. BatchTypes'
  BY <1>1, <1>2 DEF BatchInv, BatchTypes
<1>4. HistoryIsNewest'
  BY DEF BatchInv, HistoryIsNewest
<1> QED BY <1>3, <1>4 DEF BatchInv

LEMMA StartBatchKeeps ==
    ASSUME BatchInv, NEW b \in Batches, NEW hash, NEW keep, NEW grade, StartBatch(b, hash, keep, grade)
    PROVE  BatchInv'
<1>1. /\ run.pc = "idle" /\ results[b].json = "none" /\ results' = [results EXCEPT ![b] = Started(b, hash)]
      /\ run' = [Idle EXCEPT !.pc = "open", !.batch = b, !.keep = keep, !.grade = grade]
      /\ UNCHANGED <<history, wrote, killed>>
  BY DEF StartBatch
<1> DEFINE d == Started(b, hash)
<1>2. IsFolder(d) /\ d.json = "open" /\ d.rows = <<>>
  <2>1. IsFolder(NoBatch) /\ NoBatch.rows = <<>>
    BY DEF IsFolder, Folder, NoBatch
  <2>2. d = [NoBatch EXCEPT !.json = "open", !.hash = hash]
    BY DEF Started
  <2> HIDE DEF d
  <2> QED BY <2>1, <2>2 DEF IsFolder, Folder
<1>3. IsBatching(run') /\ run'.pc = "open" /\ run'.batch = b /\ run'.at = 1
  BY <1>1 DEF Idle, IsBatching, Batching
<1>4. TellsOfScenarios(d.rows)
  BY <1>2 DEF TellsOfScenarios
<1> HIDE DEF d
<1>5. \A c \in Batches : results'[c] = IF c = b THEN d ELSE results[c]
  BY <1>1 DEF BatchInv, BatchTypes, d
<1>6. Runs'
  BY <1>1, <1>2, <1>3, <1>5 DEF BatchInv, Runs
<1>7. results' = [results EXCEPT ![b] = d] /\ UNCHANGED <<history, wrote>>
  BY <1>1 DEF d
<1>8. run'.at \in Nat \ {0}
  BY <1>3
<1> QED BY <1>2, <1>3, <1>4, <1>6, <1>7, <1>8, FolderStepKeeps

LEMMA OpenSessionKeeps ==
    ASSUME BatchInv, OpenSession
    PROVE  BatchInv'
<1>1. run.pc = "open" /\ UNCHANGED <<results, history, wrote, killed>>
  BY DEF OpenSession
<1>2. IsBatching(run)
  BY DEF BatchInv, BatchTypes
<1>3. CASE run' = [run EXCEPT !.pc = "end"]
  <2>1. IsBatching(run') /\ run'.pc = "end" /\ run'.batch = run.batch /\ run'.at = run.at
    BY <1>2, <1>3 DEF IsBatching, Batching
  <2>2. Runs'
    BY <1>1, <2>1 DEF BatchInv, Runs
  <2>3. run'.at \in Nat \ {0}
    BY <2>1 DEF BatchInv, BatchTypes
  <2> QED BY <1>1, <2>1, <2>2, <2>3, RunStepKeeps
<1>4. CASE /\ run.at <= Len(Golden)
           /\ run' = [run EXCEPT !.pc = "task", !.trace = <<>>, !.statuses = <<>>, !.raised = "",
                                 !.hit = FALSE, !.causes = {}]
  <2>1. IsBatching(run') /\ run'.pc = "task" /\ run'.batch = run.batch /\ run'.at = run.at
    BY <1>2, <1>4 DEF IsBatching, Batching
  <2>2. Runs'
    BY <1>1, <1>4, <2>1 DEF BatchInv, Runs
  <2>3. run'.at \in Nat \ {0}
    BY <2>1 DEF BatchInv, BatchTypes
  <2> QED BY <1>1, <2>1, <2>2, <2>3, RunStepKeeps
<1> QED BY <1>3, <1>4 DEF OpenSession

\* The row of a session tells of its scenario.
LEMMA RowTells ==
    ASSUME BatchAssumption, BatchInv, run.pc = "close", NEW met, NEW rows, TellsOfScenarios(rows)
    PROVE  TellsOfScenarios(Append(rows, Row(met)))
<1>1. run.at \in 1 .. Len(Golden)
  <2>1. Golden \in Seq(Range(Golden))
    BY DEF BatchAssumption
  <2>2. Len(Golden) \in Nat
    BY <2>1
  <2> QED BY <2>2 DEF BatchInv, BatchTypes, Runs
<1>2. Scenario \in Scenarios
  <2>1. DOMAIN Golden = 1 .. Len(Golden)
    BY DEF BatchAssumption
  <2> QED BY <1>1, <2>1 DEF Scenario, Scenarios
<1>3. Row(met).scenario = Scenario
  BY DEF Row
<1> DEFINE x == Row(met)
<1> HIDE DEF x
<1>4. PICK T : rows \in Seq(T)
  BY DEF TellsOfScenarios
<1>5. rows \in Seq(T \cup {x})
  BY <1>4, SeqMonotonic
<1>6. /\ Append(rows, x) \in Seq(T \cup {x}) /\ Len(Append(rows, x)) = Len(rows) + 1
      /\ \A i \in 1 .. Len(rows) : Append(rows, x)[i] = rows[i]
      /\ Append(rows, x)[Len(rows) + 1] = x
  BY <1>5, AppendProperties
<1>7. Len(rows) \in Nat
  BY <1>4
<1>8. \A i \in 1 .. Len(Append(rows, x)) : i = Len(rows) + 1 \/ i \in 1 .. Len(rows)
  BY <1>6, <1>7
<1>9. x.scenario \in Scenarios
  BY <1>2, <1>3 DEF x
<1>10. \A i \in 1 .. Len(Append(rows, x)) : Append(rows, x)[i].scenario \in Scenarios
  BY <1>6, <1>8, <1>9 DEF TellsOfScenarios
<1>11. TellsOfScenarios(Append(rows, x))
  BY <1>6, <1>10 DEF TellsOfScenarios
<1> QED BY <1>11 DEF x

LEMMA CloseSessionKeeps ==
    ASSUME BatchAssumption, BatchInv, NEW met, CloseSession(met)
    PROVE  BatchInv'
<1>1. run.pc = "close" /\ UNCHANGED <<history, wrote, killed>>
  BY DEF CloseSession
<1>2. IsBatching(run) /\ run.at \in Nat \ {0} /\ run.batch \in Batches
  BY <1>1 DEF BatchInv, BatchTypes, Runs
<1> DEFINE b == run.batch
           d == [results[b] EXCEPT !.rows = Append(results[b].rows, Row(met))]
<1>3. IsFolder(results[b]) /\ TellsOfScenarios(results[b].rows)
  BY <1>2 DEF BatchInv, BatchTypes
<1>4. IsFolder(d) /\ d.json = results[b].json /\ d.rows = Append(results[b].rows, Row(met))
  <2>1. d = [results[b] EXCEPT !.rows = Append(results[b].rows, Row(met))]
    OBVIOUS
  <2> HIDE DEF d
  <2> QED BY <1>3, <2>1 DEF IsFolder, Folder
<1>5. d.json = "open" /\ TellsOfScenarios(d.rows)
  BY <1>1, <1>3, <1>4, RowTells DEF BatchInv, Runs
<1>6. \/ /\ \E pc \in {"open", "end"} : run' = [run EXCEPT !.pc = pc, !.at = run.at + 1]
         /\ UNCHANGED results \/ results' = [results EXCEPT ![b] = d]
      \/ run' = [run EXCEPT !.pc = "end"] /\ UNCHANGED results
  <2> DEFINE go == IF ~run.stopped /\ (run.raised = "" \/ run.keep) THEN "open" ELSE "end"
  <2>1. \/ /\ run' = [run EXCEPT !.pc = go, !.at = run.at + 1]
           /\ UNCHANGED results \/ results' = [results EXCEPT ![b] = d]
        \/ run' = [run EXCEPT !.pc = "end"] /\ UNCHANGED results
    BY DEF CloseSession
  <2>2. go \in {"open", "end"}
    OBVIOUS
  <2> HIDE DEF go, d
  <2> QED BY <2>1, <2>2
<1> HIDE DEF d
<1>7. IsBatching(run') /\ run'.pc \in {"open", "end"} /\ run'.batch = b /\ run'.at \in Nat \ {0}
  <2>1. \E pc \in {"open", "end"}, at \in Nat \ {0} : run' = [run EXCEPT !.pc = pc, !.at = at]
    <3>1. ASSUME run' = [run EXCEPT !.pc = "end"]
          PROVE  run' = [run EXCEPT !.pc = "end", !.at = run.at]
      BY <1>2, <3>1 DEF IsBatching, Batching
    <3>2. run.at \in Nat \ {0} /\ run.at + 1 \in Nat \ {0}
      BY <1>2
    <3> QED BY <1>6, <3>1, <3>2
  <2> QED BY <1>2, <2>1 DEF IsBatching, Batching
<1>8. CASE UNCHANGED results
  <2>1. Runs'
    BY <1>1, <1>7, <1>8 DEF BatchInv, Runs
  <2> QED BY <1>1, <1>7, <1>8, <2>1, RunStepKeeps
<1>9. CASE results' = [results EXCEPT ![b] = d]
  <2>1. \A c \in Batches : results'[c] = IF c = b THEN d ELSE results[c]
    BY <1>9 DEF BatchInv, BatchTypes
  <2>2. Runs'
    BY <1>1, <1>2, <1>5, <1>7, <2>1 DEF BatchInv, Runs
  <2> QED BY <1>1, <1>2, <1>4, <1>5, <1>7, <1>9, <2>2, FolderStepKeeps
<1> QED BY <1>6, <1>8, <1>9

LEMMA FinishBatchKeeps ==
    ASSUME BatchInv, FinishBatch
    PROVE  BatchInv'
<1>1. /\ run.pc = "end" /\ run' = [run EXCEPT !.pc = "history"] /\ UNCHANGED <<history, wrote, killed>>
  BY DEF FinishBatch
<1>2. IsBatching(run) /\ run.at \in Nat \ {0} /\ run.batch \in Batches \ killed
  BY <1>1 DEF BatchInv, BatchTypes, Runs
<1> DEFINE b == run.batch
           d == [results[b] EXCEPT !.json = "finished", !.status = run.status]
<1>3. IsFolder(results[b]) /\ TellsOfScenarios(results[b].rows)
  BY <1>2 DEF BatchInv, BatchTypes
<1>4. IsFolder(d) /\ d.json = "finished" /\ d.rows = results[b].rows
  <2>1. d = [results[b] EXCEPT !.json = "finished", !.status = run.status]
    OBVIOUS
  <2> HIDE DEF d
  <2> QED BY <1>3, <2>1 DEF IsFolder, Folder
<1>5. results' = [results EXCEPT ![b] = d]
  BY DEF FinishBatch
<1> HIDE DEF d
<1>6. IsBatching(run') /\ run'.pc = "history" /\ run'.batch = b /\ run'.at = run.at
  BY <1>1, <1>2 DEF IsBatching, Batching
<1>7. \A c \in Batches : results'[c] = IF c = b THEN d ELSE results[c]
  BY <1>5 DEF BatchInv, BatchTypes
<1>8. Runs'
  BY <1>1, <1>2, <1>6, <1>7 DEF BatchInv, Runs
<1> QED BY <1>1, <1>2, <1>3, <1>4, <1>5, <1>6, <1>8, FolderStepKeeps

-----------------------------------------------------------------------------
(* The history of all batches.                                             *)

\* The rows of a batch are whole lines.
LEMMA HistoryRowsAreWhole ==
    ASSUME BatchAssumption, BatchInv, NEW b \in Batches
    PROVE  /\ HistoryRows(b) \in Seq(WholeLines)
           /\ Len(HistoryRows(b)) = Len(results[b].rows) /\ Len(results[b].rows) \in Nat
<1> DEFINE rows == results[b].rows
           n == Len(rows)
           line(i) == [batch |-> b, scenario |-> rows[i].scenario]
<1>1. n \in Nat /\ DOMAIN rows = 1 .. n /\ \A i \in 1 .. n : rows[i].scenario \in Scenarios
  <2>1. TellsOfScenarios(rows)
    BY DEF BatchInv, BatchTypes
  <2>2. PICK T : rows \in Seq(T)
    BY <2>1 DEF TellsOfScenarios
  <2> HIDE DEF rows
  <2> QED BY <2>1, <2>2 DEF TellsOfScenarios, n
<1>2. b # 0
  BY DEF Batches, BatchAssumption
<1>3. ASSUME NEW i \in 1 .. n PROVE line(i) \in WholeLines
  <2>1. line(i).batch = b /\ Torn.batch = 0
    BY DEF Torn
  <2>2. line(i) # Torn
    BY <1>2, <2>1
  <2>3. line(i) \in AnyLines
    BY <1>1 DEF AnyLines
  <2> QED BY <2>2, <2>3 DEF WholeLines
<1>4. HistoryRows(b) = [i \in 1 .. n |-> line(i)]
  BY <1>1 DEF HistoryRows
<1> HIDE DEF line, rows, n
<1>5. [i \in 1 .. n |-> line(i)] \in Seq(WholeLines) /\ Len([i \in 1 .. n |-> line(i)]) = n
  BY <1>1, <1>3
<1> QED BY <1>1, <1>4, <1>5 DEF n, rows

\* Lines that are added do not change what is gone.
LEMMA MoreIsNewest ==
    ASSUME BatchAssumption, NEW old \in Seq(AnyLines), NEW more \in Seq(AnyLines),
           NEW gone \in Seq(WholeLines), gone # <<>> => Len(old) >= MaxRows
    PROVE  /\ old \o more \in Seq(AnyLines)
           /\ (gone \o Whole(old)) \o Whole(more) = gone \o Whole(old \o more)
           /\ gone # <<>> => Len(old \o more) >= MaxRows
<1> DEFINE u == Whole(old)
           v == Whole(more)
<1>1. Whole(old \o more) = u \o v
  BY WholeOfBoth
<1>2. (gone \o u) \o v = gone \o (u \o v)
  <2>1. u \in Seq(WholeLines) /\ v \in Seq(WholeLines)
    BY WholeTypes
  <2> HIDE DEF u, v
  <2> QED BY <2>1, ConcatAssociative
<1>3. /\ old \o more \in Seq(AnyLines) /\ Len(old \o more) = Len(old) + Len(more)
      /\ Len(old) \in Nat /\ Len(more) \in Nat
  BY ConcatProperties
<1>4. gone # <<>> => Len(old \o more) >= MaxRows
  <2>1. MaxRows \in Nat
    BY DEF BatchAssumption
  <2> QED BY <1>3, <2>1
<1> QED BY <1>1, <1>2, <1>3, <1>4

\* A history that grows by rows, and perhaps by the beginning of one more.
LEMMA HistoryGrows ==
    ASSUME BatchAssumption, BatchInv, NEW rows \in Seq(WholeLines), NEW tail \in {<<>>, <<Torn>>}, NEW ragged,
           history' = [lines |-> LinesAfter(history, rows \o tail), ragged |-> ragged],
           wrote' = wrote \o rows
    PROVE  /\ history' = [lines |-> history'.lines, ragged |-> history'.ragged]
           /\ history'.lines \in Seq(AnyLines) /\ wrote' \in Seq(WholeLines)
           /\ HistoryIsNewest'
<1> DEFINE old == history.lines
           more == rows \o tail
<1>1. old \in Seq(AnyLines) /\ wrote \in Seq(WholeLines)
  BY DEF BatchInv, BatchTypes
<1>2. tail \in Seq(AnyLines) /\ Whole(tail) = <<>>
  <2>1. <<>> \in Seq(AnyLines)
    OBVIOUS
  <2>2. CASE tail = <<>>
    BY <2>1, <2>2, WholeOfTorn
  <2>3. CASE tail = <<Torn>>
    BY <2>3, WholeOfTorn
  <2> QED BY <2>2, <2>3
<1>3. rows \in Seq(AnyLines)
  BY SeqMonotonic DEF WholeLines
<1>4. more \in Seq(AnyLines) /\ Whole(more) = rows
  <2>1. Whole(more) = Whole(rows) \o Whole(tail)
    BY <1>2, <1>3, WholeOfBoth
  <2>2. Whole(rows) = rows
    BY WholeOfRows
  <2> QED BY <1>2, <1>3, <2>1, <2>2, ConcatProperties, ConcatEmptySeq
<1> HIDE DEF more
<1>5. history'.lines = old \o more /\ history' = [lines |-> history'.lines, ragged |-> history'.ragged]
  BY DEF LinesAfter, more
<1>6. PICK gone \in Seq(WholeLines) :
        wrote = gone \o Whole(old) /\ (gone # <<>> => Len(old) >= MaxRows)
  BY DEF BatchInv, HistoryIsNewest
<1>7. /\ old \o more \in Seq(AnyLines)
      /\ (gone \o Whole(old)) \o Whole(more) = gone \o Whole(old \o more)
      /\ gone # <<>> => Len(old \o more) >= MaxRows
  BY <1>1, <1>4, <1>6, MoreIsNewest
<1>8. wrote' = gone \o Whole(old \o more)
  BY <1>4, <1>6, <1>7
<1>9. wrote' \in Seq(WholeLines)
  BY <1>1, ConcatProperties
<1>10. HistoryIsNewest'
  BY <1>5, <1>7, <1>8 DEF HistoryIsNewest
<1> QED BY <1>5, <1>7, <1>9, <1>10

\* A batch that is over, whatever became of the history.
LEMMA HistoryStepKeeps ==
    ASSUME BatchInv, UNCHANGED <<results, killed>>,
           history' = [lines |-> history'.lines, ragged |-> history'.ragged],
           history'.lines \in Seq(AnyLines), wrote' \in Seq(WholeLines), HistoryIsNewest',
           \/ run' = Idle
           \/ run.pc \in {"history", "rotate"} /\ run' = [run EXCEPT !.pc = "rotate"]
    PROVE  BatchInv'
<1>1. IsBatching(run)
  BY DEF BatchInv, BatchTypes
<1>a. /\ results' = [b \in Batches |-> results'[b]]
      /\ \A b \in Batches :
             /\ IsFolder(results'[b]) /\ results'[b].json \in {"none", "open", "torn", "finished"}
             /\ TellsOfScenarios(results'[b].rows)
  BY DEF BatchInv, BatchTypes
<1>2. CASE run' = Idle
  <2>1. IsBatching(run') /\ run'.pc = "idle" /\ run'.at \in Nat \ {0} /\ run'.batch = 0
    <3>1. IsBatching(Idle) /\ Idle.pc = "idle" /\ Idle.at = 1 /\ Idle.batch = 0
      BY DEF IsBatching, Batching, Idle
    <3> QED BY <1>2, <3>1
  <2>2. BatchTypes'
    <3>1. IsBatching(run') /\ run'.pc \in {"idle", "open", "task", "close", "end", "history", "rotate"}
          /\ run'.at \in Nat \ {0}
      BY <2>1
    <3> QED BY <1>a, <3>1 DEF BatchTypes
  <2>3. Runs'
    BY <2>1 DEF BatchInv, Runs
  <2> QED BY <2>2, <2>3 DEF BatchInv
<1>3. CASE run.pc \in {"history", "rotate"} /\ run' = [run EXCEPT !.pc = "rotate"]
  <2>1. IsBatching(run') /\ run'.pc = "rotate" /\ run'.at = run.at /\ run'.batch = run.batch
    BY <1>1, <1>3 DEF IsBatching, Batching
  <2>2. BatchTypes'
    BY <1>a, <2>1 DEF BatchInv, BatchTypes
  <2>3. Runs'
    BY <1>3, <2>1 DEF BatchInv, Runs
  <2> QED BY <2>2, <2>3 DEF BatchInv
<1> QED BY <1>2, <1>3

LEMMA HistoryStays ==
    ASSUME BatchInv, UNCHANGED <<history, wrote>>
    PROVE  /\ history' = [lines |-> history'.lines, ragged |-> history'.ragged]
           /\ history'.lines \in Seq(AnyLines) /\ wrote' \in Seq(WholeLines)
           /\ HistoryIsNewest'
<1>1. HistoryIsNewest'
  BY DEF BatchInv, HistoryIsNewest
<1> QED BY <1>1 DEF BatchInv, BatchTypes

LEMMA AppendHistoryKeeps ==
    ASSUME BatchAssumption, BatchInv, AppendHistory
    PROVE  BatchInv'
<1>1. run.pc = "history" /\ UNCHANGED <<results, killed>>
  BY DEF AppendHistory
<1> DEFINE rows == HistoryRows(run.batch)
<1>2. rows \in Seq(WholeLines)
  BY <1>1, HistoryRowsAreWhole DEF BatchInv, Runs
<1>3. CASE /\ history' = [lines |-> LinesAfter(history, rows), ragged |-> FALSE]
           /\ wrote' = wrote \o rows /\ run' = [run EXCEPT !.pc = "rotate"]
  <2> HIDE DEF rows
  <2>1. rows \o <<>> = rows
    BY <1>2, ConcatEmptySeq
  <2>2. history' = [lines |-> LinesAfter(history, rows \o <<>>), ragged |-> FALSE]
    BY <1>3, <2>1
  <2>3. /\ history' = [lines |-> history'.lines, ragged |-> history'.ragged]
        /\ history'.lines \in Seq(AnyLines) /\ wrote' \in Seq(WholeLines)
        /\ HistoryIsNewest'
    BY <1>2, <1>3, <2>2, HistoryGrows
  <2> QED BY <1>1, <1>3, <2>3, HistoryStepKeeps
<1>4. CASE run' = Idle /\ UNCHANGED <<history, wrote>>
  BY <1>1, <1>4, HistoryStays, HistoryStepKeeps
<1> QED BY <1>3, <1>4 DEF AppendHistory

\* Rotation gives up the oldest lines.
LEMMA RotationKeepsNewest ==
    ASSUME BatchAssumption, BatchInv, history' = [history EXCEPT !.lines = Rotated(history.lines)],
           UNCHANGED wrote
    PROVE  /\ history' = [lines |-> history'.lines, ragged |-> history'.ragged]
           /\ history'.lines \in Seq(AnyLines) /\ wrote' \in Seq(WholeLines)
           /\ HistoryIsNewest'
<1> DEFINE old == history.lines
           n == Len(old)
           k == n - MaxRows
<1>1. /\ old \in Seq(AnyLines) /\ wrote \in Seq(WholeLines)
      /\ history = [lines |-> old, ragged |-> history.ragged]
  BY DEF BatchInv, BatchTypes
<1>2. n \in Nat /\ MaxRows \in Nat \ {0}
  BY <1>1 DEF BatchAssumption
<1>3. history'.lines = Rotated(old) /\ history' = [lines |-> history'.lines, ragged |-> history'.ragged]
  <2> DEFINE new == Rotated(history.lines)
  <2>1. history' = [history EXCEPT !.lines = new]
    OBVIOUS
  <2> HIDE DEF new
  <2>2. history'.lines = new /\ history' = [lines |-> history'.lines, ragged |-> history'.ragged]
    BY <1>1, <2>1
  <2> QED BY <2>2 DEF new
<1>4. PICK gone \in Seq(WholeLines) : wrote = gone \o Whole(old) /\ (gone # <<>> => n >= MaxRows)
  BY DEF BatchInv, HistoryIsNewest
<1>5. CASE n <= MaxRows
  <2>1. Rotated(old) = old
    BY <1>5 DEF Rotated
  <2>2. HistoryIsNewest'
    BY <1>3, <1>4, <2>1 DEF HistoryIsNewest
  <2> QED BY <1>1, <1>3, <2>1, <2>2
<1>6. CASE ~(n <= MaxRows)
  <2> DEFINE pre == SubSeq(old, 1, k)
             post == SubSeq(old, k + 1, n)
  <2> HIDE DEF n
  <2>1. k \in 0 .. n /\ k \in Nat /\ k + 1 = n - MaxRows + 1 /\ n - (k + 1) + 1 = MaxRows /\ k + 1 <= n
        /\ k \in 1 - 1 .. n /\ 1 \in 1 .. n + 1 /\ n \in k .. n
    BY <1>2, <1>6
  <2>2. Rotated(old) = post
    BY <1>6, <2>1 DEF Rotated, n
  <2>3. \A i \in 1 .. n : old[i] \in AnyLines
    BY <1>1 DEF n
  <2> HIDE DEF k
  <2>4. pre \in Seq(AnyLines) /\ post \in Seq(AnyLines) /\ Len(post) = MaxRows
    <3>1. pre \in Seq(AnyLines)
      <4>1. \A i \in 1 .. k : old[i] \in AnyLines
        BY <1>2, <2>1, <2>3
      <4> QED BY <2>1, <4>1, SubSeqProperties
    <3>2. post \in Seq(AnyLines) /\ Len(post) = n - (k + 1) + 1
      <4>1. \A i \in k + 1 .. n : old[i] \in AnyLines
        BY <1>2, <2>1, <2>3
      <4>2. k + 1 \in Int /\ n \in Int
        BY <1>2, <2>1
      <4> QED BY <2>1, <4>1, <4>2, SubSeqProperties
    <3> QED BY <2>1, <3>1, <3>2
  <2>5. old = pre \o post
    <3>1. pre \o post = SubSeq(old, 1, n)
      <4>1. /\ k \in 1 - 1 .. Len(old) /\ 1 \in 1 .. Len(old) + 1 /\ Len(old) \in k .. Len(old)
            /\ n = Len(old)
        BY <2>1 DEF n
      <4> QED BY <1>1, <4>1, ConcatAdjacentSubSeq
    <3>2. SubSeq(old, 1, n) = old
      <4>1. /\ SubSeq(old, 1, n) \in Seq(AnyLines) /\ Len(SubSeq(old, 1, n)) = n
            /\ \A i \in 1 .. n : SubSeq(old, 1, n)[i] = old[i]
        <5>1. 1 \in Int /\ n \in Int /\ 1 <= n /\ n - 1 + 1 = n /\ \A i \in 1 .. n : 1 + i - 1 = i
          BY <1>2, <2>1
        <5> QED BY <2>3, <5>1, SubSeqProperties
      <4>2. Len(old) = n
        BY DEF n
      <4> QED BY <1>1, <4>1, <4>2, SeqEqual
    <3> QED BY <3>1, <3>2
  <2> HIDE DEF pre, post
  <2>6. Whole(old) = Whole(pre) \o Whole(post) /\ Whole(pre) \in Seq(WholeLines) /\ Whole(post) \in Seq(WholeLines)
    BY <2>4, <2>5, WholeOfBoth, WholeTypes
  <2>7. wrote = (gone \o Whole(pre)) \o Whole(post)
    <3> DEFINE u == Whole(pre)
               v == Whole(post)
    <3>1. u \in Seq(WholeLines) /\ v \in Seq(WholeLines) /\ wrote = gone \o (u \o v)
      BY <1>4, <2>6
    <3> HIDE DEF u, v
    <3>2. (gone \o u) \o v = gone \o (u \o v)
      BY <3>1, ConcatAssociative
    <3>3. wrote = (gone \o u) \o v
      BY <3>1, <3>2
    <3> QED BY <3>3 DEF u, v
  <2>8. gone \o Whole(pre) \in Seq(WholeLines)
    BY <2>6, ConcatProperties
  <2>9. history'.lines = post /\ Len(post) >= MaxRows
    BY <1>2, <1>3, <2>2, <2>4
  <2>10. HistoryIsNewest'
    BY <2>7, <2>8, <2>9 DEF HistoryIsNewest
  <2> QED BY <1>1, <1>3, <2>4, <2>9, <2>10
<1> QED BY <1>5, <1>6

LEMMA RotateHistoryKeeps ==
    ASSUME BatchAssumption, BatchInv, RotateHistory
    PROVE  BatchInv'
<1>1. UNCHANGED <<results, wrote, killed>> /\ run' = Idle
  BY DEF RotateHistory
<1>2. CASE history' = [history EXCEPT !.lines = Rotated(history.lines)]
  <2>1. /\ history' = [lines |-> history'.lines, ragged |-> history'.ragged]
        /\ history'.lines \in Seq(AnyLines) /\ wrote' \in Seq(WholeLines)
        /\ HistoryIsNewest'
    BY <1>1, <1>2, RotationKeepsNewest
  <2> QED BY <1>1, <2>1, HistoryStepKeeps
<1>3. CASE UNCHANGED history
  <2>1. UNCHANGED <<history, wrote>>
    BY <1>1, <1>3
  <2>2. /\ history' = [lines |-> history'.lines, ragged |-> history'.ragged]
        /\ history'.lines \in Seq(AnyLines) /\ wrote' \in Seq(WholeLines)
        /\ HistoryIsNewest'
    BY <2>1, HistoryStays
  <2> QED BY <1>1, <2>2, HistoryStepKeeps
<1> QED BY <1>2, <1>3 DEF RotateHistory

\* A kill leaves what was written of a file.
LEMMA KillKeeps ==
    ASSUME BatchAssumption, BatchInv, Kill
    PROVE  BatchInv'
<1>1. /\ run.pc # "idle" /\ run' = Idle
      /\ killed' = IF run.pc \in {"open", "task", "close", "end"} THEN killed \cup {run.batch} ELSE killed
  BY DEF Kill
<1>2. run.batch \in Batches \ killed
  BY <1>1 DEF BatchInv, Runs
<1>3. IsBatching(run') /\ run'.pc = "idle" /\ run'.at \in Nat \ {0} /\ run'.batch = 0
  <2>1. IsBatching(Idle) /\ Idle.pc = "idle" /\ Idle.at = 1 /\ Idle.batch = 0
    BY DEF IsBatching, Batching, Idle
  <2> QED BY <1>1, <2>1
<1>4. Runs' \/ ~ (killed' \subseteq {b \in Batches : results'[b].json \in {"open", "torn"}})
  BY <1>3 DEF Runs
<1>5. CASE UNCHANGED <<results, history, wrote>>
  <2>1. killed' \subseteq {b \in Batches : results'[b].json \in {"open", "torn"}}
    BY <1>1, <1>2, <1>5 DEF BatchInv, Runs
  <2>2. Runs'
    BY <1>4, <2>1
  <2>3. HistoryIsNewest'
    BY <1>5 DEF BatchInv, HistoryIsNewest
  <2>4. BatchTypes'
    BY <1>3, <1>5 DEF BatchInv, BatchTypes
  <2> QED BY <2>2, <2>3, <2>4 DEF BatchInv
<1>6. CASE /\ run.pc \in {"open", "end"}
           /\ results' = [results EXCEPT ![run.batch].json = "torn"]
           /\ UNCHANGED <<history, wrote>>
  <2> DEFINE b == run.batch
             d == [results[b] EXCEPT !.json = "torn"]
  <2>1. IsFolder(results[b]) /\ TellsOfScenarios(results[b].rows)
    BY <1>2 DEF BatchInv, BatchTypes
  <2>2. IsFolder(d) /\ d.json = "torn" /\ d.rows = results[b].rows
    <3>1. d = [results[b] EXCEPT !.json = "torn"]
      OBVIOUS
    <3> HIDE DEF d
    <3> QED BY <2>1, <3>1 DEF IsFolder, Folder
  <2>3. results' = [results EXCEPT ![b] = d]
    BY <1>6
  <2> HIDE DEF d
  <2>4. \A c \in Batches : results'[c] = IF c = b THEN d ELSE results[c]
    BY <2>3 DEF BatchInv, BatchTypes
  <2>5. killed' \subseteq {c \in Batches : results'[c].json \in {"open", "torn"}}
    BY <1>1, <1>2, <1>6, <2>2, <2>4 DEF BatchInv, Runs
  <2>6. Runs'
    BY <1>4, <2>5
  <2> QED BY <1>2, <1>3, <1>6, <2>1, <2>2, <2>3, <2>6, FolderStepKeeps
<1>7. CASE /\ run.pc = "history"
           /\ \E n \in 0..Len(results[run.batch].rows), torn \in BOOLEAN :
                 LET rows == SubSeq(HistoryRows(run.batch), 1, n)
                     tail == IF torn /\ n < Len(results[run.batch].rows) THEN <<Torn>> ELSE <<>>
                 IN  /\ history' = [lines |-> LinesAfter(history, rows \o tail), ragged |-> tail # <<>>]
                     /\ wrote' = wrote \o rows
           /\ UNCHANGED results
  <2> DEFINE all == HistoryRows(run.batch)
  <2>1. all \in Seq(WholeLines) /\ Len(all) = Len(results[run.batch].rows) /\ Len(all) \in Nat
    BY <1>2, HistoryRowsAreWhole
  <2>2. PICK n \in 0 .. Len(all), tail \in {<<>>, <<Torn>>} :
          /\ history' = [lines |-> LinesAfter(history, SubSeq(all, 1, n) \o tail), ragged |-> tail # <<>>]
          /\ wrote' = wrote \o SubSeq(all, 1, n)
    BY <1>7, <2>1
  <2> HIDE DEF all
  <2> DEFINE rows == SubSeq(all, 1, n)
             ragged == tail # <<>>
  <2>3. rows \in Seq(WholeLines)
    <3>1. 1 \in Int /\ n \in Int /\ \A i \in 1 .. n : all[i] \in WholeLines
      BY <2>1, <2>2
    <3> QED BY <3>1, SubSeqProperties
  <2>4. history' = [lines |-> LinesAfter(history, rows \o tail), ragged |-> ragged] /\ wrote' = wrote \o rows
    BY <2>2
  <2> HIDE DEF rows, ragged
  <2>5. /\ history' = [lines |-> history'.lines, ragged |-> history'.ragged]
        /\ history'.lines \in Seq(AnyLines) /\ wrote' \in Seq(WholeLines)
        /\ HistoryIsNewest'
    BY <2>2, <2>3, <2>4, HistoryGrows
  <2>6. UNCHANGED <<results, killed>>
    BY <1>1, <1>7
  <2> QED BY <1>1, <2>5, <2>6, HistoryStepKeeps
<1> QED BY <1>5, <1>6, <1>7 DEF Kill

LEMMA BatchStepKeeps ==
    ASSUME BatchAssumption, BatchInv, [BatchNext]_batchVars
    PROVE  BatchInv'
<1>1. CASE UNCHANGED batchVars
  <2>1. BatchTypes'
    BY <1>1 DEF BatchInv, BatchTypes, batchVars
  <2>2. Runs' /\ HistoryIsNewest'
    BY <1>1 DEF BatchInv, Runs, HistoryIsNewest, batchVars
  <2> QED BY <2>1, <2>2 DEF BatchInv
<1>2. ASSUME NEW b \in Batches, NEW hash \in Hashes, NEW opt \in Options,
             StartBatch(b, hash, opt.keep, opt.grade)
      PROVE  BatchInv'
  BY <1>2, StartBatchKeeps
<1>3. ASSUME NEW met, CloseSession(met)
      PROVE  BatchInv'
  BY <1>3, CloseSessionKeeps
<1>4. CASE \/ \E decision \in {"allow", "deny"} : RuledCall(decision)
           \/ JudgedSafe
           \/ \E error \in {"no JSON answer"} \cup (Errors \cap Outages) : JudgedUnsafe(error)
           \/ TaskReturns("completed", "answered")
           \/ \E reason \in {"model_stop", "turn_cap"} : TaskReturns("blocked", reason)
           \/ GoalDenied
           \/ \E error \in Errors : TaskFails(error) \/ StartFails(error)
           \/ Interrupt
  <2>1. GoalDenied => TaskReturns("blocked", "goal_hook_denied")
    BY DEF GoalDenied
  <2> QED BY <1>4, <2>1, TaskStepsKeep
<1>5. CASE OpenSession
  BY <1>5, OpenSessionKeeps
<1>6. CASE FinishBatch
  BY <1>6, FinishBatchKeeps
<1>7. CASE AppendHistory
  BY <1>7, AppendHistoryKeeps
<1>8. CASE RotateHistory
  BY <1>8, RotateHistoryKeeps
<1>9. CASE Kill
  BY <1>9, KillKeeps
<1> QED BY <1>1, <1>2, <1>3, <1>4, <1>5, <1>6, <1>7, <1>8, <1>9 DEF BatchNext

\* Which batch runs, what its folder says, and that the history holds what was written last,
\* whatever was killed in between.
THEOREM BatchInvariant == BatchSpec => []BatchInv
<1> USE BatchAssumption
<1>1. BatchInit => BatchInv
  BY BatchStarts
<1>2. BatchInv /\ [BatchNext]_batchVars => BatchInv'
  BY BatchStepKeeps
<1> QED BY <1>1, <1>2, PTL DEF BatchSpec

\* A set of numbers that is bounded and not empty has a greatest one.
LEMMA GreatestOf ==
    ASSUME NEW n \in Nat, NEW T, T \subseteq 1 .. n, T # {}
    PROVE  \E m \in T : \A k \in T : k <= m
<1> DEFINE U == {n - x : x \in T}
<1>1. U \subseteq Nat /\ U # {}
  <2>1. PICK x : x \in T
    OBVIOUS
  <2>2. n - x \in U
    BY <2>1
  <2>3. ASSUME NEW y \in T PROVE n - y \in Nat
    OBVIOUS
  <2> QED BY <2>2, <2>3
<1>2. PICK u \in U : \A v \in U : u <= v
  BY <1>1, LeastOf
<1>3. PICK m \in T : u = n - m
  OBVIOUS
<1>4. ASSUME NEW k \in T PROVE k <= m
  <2>1. n - m <= n - k
    BY <1>2, <1>3
  <2> QED BY <2>1
<1> QED BY <1>4

\* What is compared ended.
LEMMA ComparedHaveEnded ==
    ASSUME BatchAssumption, BatchInv
    PROVE  ComparedRunsEnded
<1>1. ASSUME NEW b \in Comparable
      PROVE  b \notin killed /\ (run.batch = b => run.pc \in {"history", "rotate"})
  <2>1. b \in Batches /\ results[b].json = "finished"
    BY <1>1 DEF Comparable
  <2>2. b \notin killed
    BY <2>1 DEF BatchInv, Runs
  <2>3. b # 0
    BY <2>1 DEF Batches, BatchAssumption
  <2>4. ASSUME run.batch = b PROVE run.pc \in {"history", "rotate"}
    <3>1. run.pc # "idle"
      BY <2>3, <2>4 DEF BatchInv, Runs
    <3>2. run.pc \notin {"open", "task", "close", "end"}
      BY <2>1, <2>4 DEF BatchInv, Runs
    <3> QED BY <3>1, <3>2 DEF BatchInv, BatchTypes
  <2> QED BY <2>2, <2>4
<1>2. ASSUME NEW pair \in LatestPair
      PROVE  pair.older \in Comparable /\ pair.newer \in Comparable
  <2> DEFINE latest == CHOOSE b \in Comparable : \A c \in Comparable : c <= b
             before == {b \in Comparable : b < latest /\ results[b].hash = results[latest].hash}
             older == CHOOSE b \in before : \A c \in before : c <= b
  <2>1. Comparable # {} /\ before # {} /\ pair = [older |-> older, newer |-> latest]
    BY <1>2 DEF LatestPair
  <2>2. MaxBatches \in Nat /\ Comparable \subseteq 1 .. MaxBatches
    BY DEF BatchAssumption, Comparable, Batches
  <2>3. latest \in Comparable
    <3>1. \E m \in Comparable : \A k \in Comparable : k <= m
      BY <2>1, <2>2, GreatestOf
    <3> QED BY <3>1
  <2> HIDE DEF latest
  <2>4. before \subseteq Comparable
    OBVIOUS
  <2> HIDE DEF before
  <2>5. older \in before
    <3>1. \E m \in before : \A k \in before : k <= m
      BY <2>1, <2>2, <2>4, GreatestOf
    <3> QED BY <3>1
  <2> QED BY <2>1, <2>3, <2>4, <2>5
<1> QED BY <1>1, <1>2 DEF ComparedRunsEnded

\* What comes last is a suffix.
LEMMA LastPartIsSuffix ==
    ASSUME NEW S, NEW gone \in Seq(S), NEW kept \in Seq(S)
    PROVE  IsSuffix(kept, gone \o kept) /\ Len(gone \o kept) = Len(gone) + Len(kept)
<1> DEFINE w == gone \o kept
           m == Len(gone)
           n == Len(kept)
           a == Reverse(kept)
           b == Reverse(w)
<1>1. /\ w \in Seq(S) /\ Len(w) = m + n /\ m \in Nat /\ n \in Nat
      /\ \A i \in 1 .. m + n : w[i] = IF i <= m THEN gone[i] ELSE kept[i - m]
  BY ConcatProperties
<1> HIDE DEF w, m, n
<1>2. /\ a = [i \in 1 .. n |-> kept[(n - i) + 1]]
      /\ b = [i \in 1 .. m + n |-> w[(m + n - i) + 1]]
  BY <1>1 DEF Reverse, n
<1>3. \A i \in 1 .. n : kept[i] \in S
  BY DEF n
<1>4. a \in Seq(S) /\ Len(a) = n /\ \A i \in 1 .. n : a[i] = kept[(n - i) + 1] /\ a[i] \in S
  <2>1. \A i \in 1 .. n : (n - i) + 1 \in 1 .. n
    BY <1>1
  <2> HIDE DEF a
  <2> QED BY <1>1, <1>2, <1>3, <2>1
<1>5. Len(b) = m + n /\ \A i \in 1 .. n : b[i] = kept[(n - i) + 1]
  <2>1. ASSUME NEW i \in 1 .. n
        PROVE  /\ i \in 1 .. m + n /\ (m + n - i) + 1 \in 1 .. m + n
               /\ ~((m + n - i) + 1 <= m) /\ (m + n - i) + 1 - m = (n - i) + 1
    BY <1>1
  <2> HIDE DEF b
  <2>2. \A i \in 1 .. n : b[i] = w[(m + n - i) + 1]
    BY <1>2, <2>1
  <2>3. Len(b) = m + n
    BY <1>1, <1>2
  <2> QED BY <1>1, <2>1, <2>2, <2>3
<1> HIDE DEF a, b
<1>6. \A i \in 1 .. n : b[i] = a[i] /\ b[i] \in S
  BY <1>4, <1>5
<1>7. SubSeq(a, 1, n) = SubSeq(b, 1, n)
  <2>1. 1 \in Int /\ n \in Int /\ n - 1 + 1 = n /\ \A i \in 1 .. n : 1 + i - 1 = i
    BY <1>1
  <2>2. /\ SubSeq(a, 1, n) \in Seq(S) /\ Len(SubSeq(a, 1, n)) = IF 1 <= n THEN n - 1 + 1 ELSE 0
        /\ \A i \in 1 .. n - 1 + 1 : SubSeq(a, 1, n)[i] = a[1 + i - 1]
    BY <1>4, <2>1, SubSeqProperties
  <2>3. /\ SubSeq(b, 1, n) \in Seq(S) /\ Len(SubSeq(b, 1, n)) = IF 1 <= n THEN n - 1 + 1 ELSE 0
        /\ \A i \in 1 .. n - 1 + 1 : SubSeq(b, 1, n)[i] = b[1 + i - 1]
    BY <1>6, <2>1, SubSeqProperties
  <2>4. /\ Len(SubSeq(a, 1, n)) = n /\ Len(SubSeq(b, 1, n)) = n
        /\ \A i \in 1 .. n : SubSeq(a, 1, n)[i] = SubSeq(b, 1, n)[i]
    BY <1>1, <1>6, <2>1, <2>2, <2>3
  <2> QED BY <2>2, <2>3, <2>4, SeqEqual
<1>8. IsPrefix(a, b)
  BY <1>1, <1>4, <1>5, <1>7 DEF IsPrefix
<1> QED BY <1>1, <1>8 DEF IsSuffix, a, b, w, m, n

\* The history holds the newest rows that were written, whole and in order, and gives up none
\* before it is full; and what is compared by it ended (Batch.HistoryKeepsNewest).
THEOREM HistoryStaysNewest == BatchSpec => []HistoryKeepsNewest
<1> USE BatchAssumption
<1>1. ASSUME BatchInv PROVE HistoryKeepsNewest
  <2> DEFINE kept == Whole(history.lines)
  <2>1. PICK gone \in Seq(WholeLines) : wrote = gone \o kept /\ (gone # <<>> => Len(history.lines) >= MaxRows)
    BY <1>1 DEF BatchInv, HistoryIsNewest
  <2>2. kept \in Seq(WholeLines)
    BY <1>1, WholeTypes DEF BatchInv, BatchTypes
  <2>3. ComparedRunsEnded
    BY <1>1, ComparedHaveEnded
  <2> HIDE DEF kept
  <2>4. IsSuffix(kept, wrote) /\ Len(wrote) = Len(gone) + Len(kept)
    BY <2>1, <2>2, LastPartIsSuffix
  <2>5. Len(kept) < Len(wrote) => gone # <<>>
    BY <2>2, <2>4
  <2>6. Len(kept) < Len(wrote) => Len(history.lines) >= MaxRows
    BY <2>1, <2>5
  <2> QED BY <2>3, <2>4, <2>6 DEF HistoryKeepsNewest, kept
<1>2. BatchSpec => []BatchInv
  BY BatchInvariant
<1> QED BY <1>1, <1>2, PTL
=============================================================================
