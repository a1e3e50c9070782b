------------------------------ MODULE MCRecords ------------------------------
(***************************************************************************)
(* What is on disk, and what a process makes of it: the files of a session *)
(* (SessionFiles), the memory all sessions share (MemoryStore), the        *)
(* settings (Settings), the skills (Skills) and the results of batches     *)
(* (Batch).  None reads what another writes, so their steps are not        *)
(* interleaved: a behaviour is that of one of the five.                    *)
(***************************************************************************)
EXTENDS SessionFiles, MemoryStore, Batch

CONSTANTS p1, p2, t1, t2, t3, s1, f1, f2

MCProcs == {p1, p2}
MCTasks == {t1, t2, t3}
MCPaths == {f1, f2}
MCCovers == [a |-> {f1, f2}, b |-> {f2}]

\* Two scenarios: one of two tasks, graded by a key with a grader and one without; one of
\* one task that is not graded.
MCGolden == <<"buy", "look">>
MCTaskCount == [buy |-> 2, look |-> 1]
MCExpected == [buy |-> {"contains", "fields"}, look |-> {}]
MCOptions == {[keep |-> TRUE, grade |-> TRUE], [keep |-> FALSE, grade |-> FALSE]}

VARIABLES
    written, named, stage, read, settings, session, writes,                            \* Settings
    folders, store, problems, shadowed, sections, prompt, viewed, started, changes,    \* Skills
    moves                                                                              \* which of them

settingsVars == <<written, named, stage, read, settings, session, writes>>
skillsVars == <<folders, store, problems, shadowed, sections, prompt, viewed, started, changes>>

Settings == INSTANCE Settings WITH MaxEdits <- 2, phase <- stage, edits <- writes
Skills == INSTANCE Skills WITH
            Folders <- <<"a", "b", "c">>, MaxSkills <- 2, CatalogMax <- 3, MaxEdits <- 3, edits <- changes

RecordsInit ==
    /\ Init /\ MemoryInit /\ Settings!Init /\ Skills!Init /\ BatchInit
    /\ moves \in {"files", "memory", "settings", "skills", "batch"}

RecordsNext ==
    /\ UNCHANGED moves
    /\ \/ moves = "files" /\ Next /\ UNCHANGED <<memoryVars, settingsVars, skillsVars, batchVars>>
       \/ moves = "memory" /\ MemoryNext /\ UNCHANGED <<vars, settingsVars, skillsVars, batchVars>>
       \/ moves = "settings" /\ Settings!Next /\ UNCHANGED <<vars, memoryVars, skillsVars, batchVars>>
       \/ moves = "skills" /\ Skills!Next /\ UNCHANGED <<vars, memoryVars, settingsVars, batchVars>>
       \/ moves = "batch" /\ BatchNext /\ UNCHANGED <<vars, memoryVars, settingsVars, skillsVars>>

RecordsSpec ==
    RecordsInit /\ [][RecordsNext]_<<vars, memoryVars, settingsVars, skillsVars, batchVars, moves>>
-----------------------------------------------------------------------------
\* Settings and Skills: what runs is what was written, source by source, when it started.
StartsAsWritten ==
    /\ moves = "settings" => Settings!SettingsAreLayered /\ Settings!SessionIsConsistent
    /\ moves = "skills" => Skills!SkillsAreAsWritten /\ Skills!CatalogIsHonest
=============================================================================
