------------------------------- MODULE Batch -------------------------------
(***************************************************************************)
(* Batches of Golden Set scenarios (agent_loop/batch.py): a fresh session  *)
(* per scenario, a row per session, batch.json, the history all batches    *)
(* share, and the comparison of the latest batch with the one before it.   *)
(* One batch runs at a time. It may be killed or interrupted at any step,  *)
(* the model provider may fail, and so may the session or the disk.        *)
(*                                                                         *)
(* A kill during a write of batch.json leaves it unreadable; a kill while  *)
(* the history is appended to leaves any part of it.                       *)
(***************************************************************************)
EXTENDS Evaluation, SequencesExt

CONSTANTS
    Golden,         \* the scenarios, in the order of the file
    TaskCount,      \* TaskCount[s]: the number of its tasks
    Expected,       \* Expected[s]: the keys it is graded by
    Typos,          \* scenarios whose expected is not a mapping
    Hashes,         \* versions of the Golden Set file
    Mode,           \* the permission mode its sessions run in
    Options,        \* how a batch is started: [keep, grade], --continue-on-error and --grade
    Errors,         \* what a provider, a browser or a session may raise
    MaxBatches, MaxRows,
    MaxIncidents    \* calls, stops, failures and kills, of all batches together

ASSUME BatchAssumption ==
    /\ Golden \in Seq(Range(Golden))
    /\ Mode \in {"dont_ask", "bypass"}
    /\ MaxBatches \in Nat
    /\ MaxRows \in Nat \ {0}

Batches == 1..MaxBatches
Outages == {"ModelProviderError", "TimeoutError"}
Scenarios == {Golden[i] : i \in DOMAIN Golden}

VARIABLES
    results,    \* each batch's folder: batch.json, run_index.jsonl
    history,    \* history.jsonl: its lines, and whether the last one lacks its end
    run,        \* the batch that runs
    wrote,      \* every line ever written to the history whole, in order
    killed,     \* the batches that were killed
    events      \* how many happened, a bound

batchVars == <<results, history, run, wrote, killed, events>>

NoBatch == [json |-> "none", status |-> "", hash |-> "", rows |-> <<>>]
Idle == [pc |-> "idle", batch |-> 0, keep |-> FALSE, grade |-> FALSE, status |-> "completed",
         at |-> 1, trace |-> <<>>, statuses |-> <<>>, raised |-> "", stopped |-> FALSE,
         hit |-> FALSE, causes |-> {}]
Torn == [batch |-> 0, scenario |-> "torn"]

BatchInit ==
    /\ results = [b \in Batches |-> NoBatch]
    /\ history = [lines |-> <<>>, ragged |-> FALSE]
    /\ run = Idle
    /\ wrote = <<>> /\ killed = {} /\ events = 0

Scenario == Golden[run.at]
Task == Len(run.statuses) + 1
Event == events < MaxIncidents /\ events' = events + 1

----------------------------------------------------------------------------
\* The folder of a batch that starts.
Started(b, hash) == [NoBatch EXCEPT !.json = "open", !.hash = hash]

StartBatch(b, hash, keep, grade) ==
    /\ run.pc = "idle"
    /\ results[b].json = "none" /\ \A c \in 1..(b - 1) : results[c].json # "none"
    /\ results' = [results EXCEPT ![b] = Started(b, hash)]
    /\ run' = [Idle EXCEPT !.pc = "open", !.batch = b, !.keep = keep, !.grade = grade]
    /\ UNCHANGED <<history, wrote, killed, events>>

\* The session of the next scenario; a factory that raises ends the batch.
OpenSession ==
    /\ run.pc = "open"
    /\ \/ /\ run.at > Len(Golden)
          /\ run' = [run EXCEPT !.pc = "end"]
          /\ UNCHANGED events
       \/ /\ run.at <= Len(Golden)
          /\ run' = [run EXCEPT !.pc = "task", !.trace = <<>>, !.statuses = <<>>, !.raised = "",
                                !.hit = FALSE, !.causes = {}]
          /\ UNCHANGED events
       \/ /\ run.at <= Len(Golden)
          /\ Event
          /\ run' = [run EXCEPT !.pc = "end"]
    /\ UNCHANGED <<results, history, wrote, killed>>

Judged(error) == [task |-> Task, type |-> "judged", error |-> error]
Decided(decision) == [task |-> Task, type |-> "decided", decision |-> decision]
Ended(status, reason, error) ==
    [task |-> Task, type |-> "ended", status |-> status, reason |-> reason, error |-> error]

\* What is to blame, for the record: the first task that is not done decides.
Blame(causes) == IF \E i \in DOMAIN run.statuses : run.statuses[i] # "done" THEN run.causes ELSE causes

\* A call of the task that its rules decide.
RuledCall(decision) ==
    /\ run.pc = "task"
    /\ Event
    /\ run' = [run EXCEPT !.trace = Append(@, Decided(decision)),
                          !.causes = Blame(IF decision = "deny" THEN @ \cup {"agent"} ELSE @)]
    /\ UNCHANGED <<results, history, wrote, killed>>

\* A call the approval classifier lets pass.
JudgedSafe ==
    /\ run.pc = "task"
    /\ Event
    /\ run' = [run EXCEPT !.trace = @ \o <<Judged(""), Decided("allow")>>]
    /\ UNCHANGED <<results, history, wrote, killed>>

\* The task is over: with a result, or it raised.
EndTask(statuses, error, event, causes) ==
    [run EXCEPT !.trace = Append(@, event),
                !.causes = Blame(causes),
                !.statuses = statuses,
                !.raised = error,
                !.status = IF error = "" THEN @ ELSE "failed",
                !.hit = FALSE,
                !.pc = IF error # "" \/ Len(statuses) = TaskCount[Scenario] THEN "close" ELSE @]

\* A call the approval classifier wants approved, or cannot judge: nobody answers, so the
\* mode denies the call, or the approval is refused and the task ends.
JudgedUnsafe(error) ==
    LET outage == error \in Outages
        cause  == {IF outage THEN "outage" ELSE "agent"}
        hit    == [run EXCEPT !.causes = Blame(@ \cup cause), !.hit = @ \/ outage]
    IN  /\ run.pc = "task"
        /\ Event
        /\ run' = IF Mode = "dont_ask"
                  THEN [hit EXCEPT !.trace = @ \o <<Judged(error), Decided("deny")>>]
                  ELSE [hit EXCEPT
                          !.trace = @ \o <<Judged(error), Decided("ask"),
                                           Ended("blocked", "approval_denied", "")>>,
                          !.statuses = Append(@, "blocked"),
                          !.hit = FALSE,
                          !.pc = IF Task = TaskCount[Scenario] THEN "close" ELSE @]
        /\ UNCHANGED <<results, history, wrote, killed>>

\* run_task returns: the answer, or the model or a guard stopped. A stop is the agent's
\* unless an outage had denied it a call; what a task that was done met is no cause.
TaskReturns(status, reason) ==
    /\ run.pc = "task"
    /\ IF status = "completed" THEN UNCHANGED events ELSE Event
    /\ run' = EndTask(Append(run.statuses, IF status = "completed" THEN "done" ELSE status),
                      "", Ended(status, reason, ""),
                      IF status = "completed" THEN {}
                      ELSE IF run.hit THEN run.causes ELSE run.causes \cup {"agent"})
    /\ UNCHANGED <<results, history, wrote, killed>>

\* A goal_start hook denies the task before anything was called.
GoalDenied ==
    /\ \A i \in DOMAIN run.trace : run.trace[i].task # Task
    /\ TaskReturns("blocked", "goal_hook_denied")

\* run_task raises, with its goal.failed.
TaskFails(error) ==
    /\ run.pc = "task"
    /\ Event
    /\ run' = EndTask(run.statuses, error, Ended("failed", "", error),
                      {IF error \in Outages THEN "outage" ELSE "agent"})
    /\ UNCHANGED <<results, history, wrote, killed>>

\* The session fails to start under its first task: no goal, no event.
StartFails(error) ==
    /\ run.pc = "task" /\ run.trace = <<>> /\ run.statuses = <<>>
    /\ Event
    /\ run' = [run EXCEPT !.pc = "close", !.raised = error, !.status = "failed",
                          !.causes = {IF error \in Outages THEN "outage" ELSE "agent"}]
    /\ UNCHANGED <<results, history, wrote, killed>>

\* Ctrl+C: the goal notes it, and there will be no row.
Interrupt ==
    /\ run.pc = "task"
    /\ Event
    /\ run' = [run EXCEPT !.pc = "close", !.stopped = TRUE]
    /\ UNCHANGED <<results, history, wrote, killed>>

----------------------------------------------------------------------------
\* With --grade; a scenario that raised fails.
RowGrade(met) ==
    IF ~run.grade THEN ""
    ELSE IF run.raised # "" THEN "failed"
    ELSE Grade(Expected[Scenario], Scenario \in Typos, run.statuses, met)

Row(met) ==
    [scenario |-> Scenario,
     kind     |-> ClassifyScenario(ClassifyTasks(run.trace), RowGrade(met), run.raised),
     causes   |-> IF run.causes # {} THEN run.causes
                  ELSE IF Scenario \in Typos \/ ~(Expected[Scenario] \cap Graders \subseteq met)
                  THEN {"agent"} ELSE {}]

\* The session is closed and its row written, unless it was interrupted or the close
\* raises; then the next scenario, if the batch goes on.
CloseSession(met) ==
    /\ run.pc = "close"
    /\ LET goesOn == ~run.stopped /\ (run.raised = "" \/ run.keep)
       IN \/ /\ run' = [run EXCEPT !.pc = IF goesOn THEN "open" ELSE "end", !.at = @ + 1]
             /\ results' = IF run.stopped THEN results
                        ELSE [results EXCEPT ![run.batch].rows = Append(@, Row(met))]
             /\ UNCHANGED events
          \/ /\ Event
             /\ run' = [run EXCEPT !.pc = "end"]
             /\ UNCHANGED results
    /\ UNCHANGED <<history, wrote, killed>>

\* The finally of the batch, however it ended.
FinishBatch ==
    /\ run.pc = "end"
    /\ results' = [results EXCEPT ![run.batch].json = "finished", ![run.batch].status = run.status]
    /\ run' = [run EXCEPT !.pc = "history"]
    /\ UNCHANGED <<history, wrote, killed, events>>

HistoryRows(b) == [i \in DOMAIN results[b].rows |-> [batch |-> b, scenario |-> results[b].rows[i].scenario]]

\* Mutated: the rows are glued to a torn last line.
LinesGlued(old, rows) ==
    IF old.ragged /\ rows # <<>> THEN old.lines \o Tail(rows) ELSE old.lines \o rows

\* The lines after rows were appended: a torn last line is ended first.
LinesAfter(old, rows) == old.lines \o rows

\* The history is opened, and the rows written; --no-history and an OSError skip it.
AppendHistory ==
    /\ run.pc = "history"
    /\ \/ /\ history' = [lines |-> LinesAfter(history, HistoryRows(run.batch)), ragged |-> FALSE]
          /\ wrote' = wrote \o HistoryRows(run.batch)
          /\ run' = [run EXCEPT !.pc = "rotate"]
          /\ UNCHANGED events
       \/ /\ Event
          /\ run' = Idle
          /\ UNCHANGED <<history, wrote>>
    /\ UNCHANGED <<results, killed>>

Rotated(lines) ==
    IF Len(lines) <= MaxRows THEN lines ELSE SubSeq(lines, Len(lines) - MaxRows + 1, Len(lines))

\* The newest lines replace the file at once; an OSError leaves it long.
RotateHistory ==
    /\ run.pc = "rotate"
    /\ \/ history' = [history EXCEPT !.lines = Rotated(@)] /\ UNCHANGED events
       \/ Event /\ UNCHANGED history
    /\ run' = Idle
    /\ UNCHANGED <<results, wrote, killed>>

\* The process is killed.
Kill ==
    /\ run.pc # "idle"
    /\ Event
    /\ run' = Idle
    /\ killed' = IF run.pc \in {"open", "task", "close", "end"} THEN killed \cup {run.batch} ELSE killed
    /\ \/ UNCHANGED <<results, history, wrote>>
       \/ /\ run.pc \in {"open", "end"}
          /\ run.pc = "open" => run.at = 1
          /\ results' = [results EXCEPT ![run.batch].json = "torn"]
          /\ UNCHANGED <<history, wrote>>
       \/ /\ run.pc = "history"
          /\ \E n \in 0..Len(results[run.batch].rows), torn \in BOOLEAN :
                LET rows == SubSeq(HistoryRows(run.batch), 1, n)
                    tail == IF torn /\ n < Len(results[run.batch].rows) THEN <<Torn>> ELSE <<>>
                IN  /\ history' = [lines |-> LinesAfter(history, rows \o tail), ragged |-> tail # <<>>]
                    /\ wrote' = wrote \o rows
          /\ UNCHANGED results

----------------------------------------------------------------------------
\* The batches compare_batches.py takes: readable, and finished.
Comparable == {b \in Batches : results[b].json = "finished"}

\* The latest one and the one before it on the same Golden Set; {} without both.
LatestPair ==
    LET latest == CHOOSE b \in Comparable : \A c \in Comparable : c <= b
        before == {b \in Comparable : b < latest /\ results[b].hash = results[latest].hash}
    IN  IF Comparable = {} \/ before = {} THEN {}
        ELSE {[older |-> CHOOSE b \in before : \A c \in before : c <= b, newer |-> latest]}

RowsOf(b, s) == SelectSeq(results[b].rows, LAMBDA row : row.scenario = s)
Compared(pair) == {s \in Scenarios : RowsOf(pair.older, s) # <<>> /\ RowsOf(pair.newer, s) # <<>>}
FindingOn(pair, s) == Finding(Last(RowsOf(pair.older, s)).kind, Last(RowsOf(pair.newer, s)).kind)
CausesOf(pair, s) == Last(RowsOf(pair.newer, s)).causes

BatchNext ==
    \/ \E b \in Batches, hash \in Hashes, opt \in Options : StartBatch(b, hash, opt.keep, opt.grade)
    \/ OpenSession
    \/ \E decision \in {"allow", "deny"} : RuledCall(decision)
    \/ JudgedSafe
    \/ \E error \in {"no JSON answer"} \cup (Errors \cap Outages) : JudgedUnsafe(error)
    \/ TaskReturns("completed", "answered")
    \/ \E reason \in {"model_stop", "turn_cap"} : TaskReturns("blocked", reason)
    \/ GoalDenied
    \/ \E error \in Errors : TaskFails(error) \/ StartFails(error)
    \/ Interrupt
    \/ \E met \in SUBSET (Graders \cap UNION {Expected[s] : s \in Scenarios}) : CloseSession(met)
    \/ FinishBatch \/ AppendHistory \/ RotateHistory \/ Kill

BatchSpec == BatchInit /\ [][BatchNext]_batchVars

----------------------------------------------------------------------------
\* A provider outage is never called an agent regression: where the comparison says
\* regression, something other than an outage went wrong in the newer run.
OutageIsNoRegression ==
    \A pair \in LatestPair, s \in Scenarios :
        s \in Compared(pair) /\ FindingOn(pair, s) = "regression" => "agent" \in CausesOf(pair, s)

\* A fault of the agent is not excused as an outage either: inconclusive, so rerun it, is
\* said only of a scenario that an outage alone stopped.
FaultIsNotExcused ==
    \A pair \in LatestPair, s \in Scenarios :
        s \in Compared(pair) /\ FindingOn(pair, s) = "inconclusive" => CausesOf(pair, s) = {"outage"}

\* The comparison blames the agent for its own faults and for nothing else.
BlameIsFair == OutageIsNoRegression /\ FaultIsNotExcused

\* Only batches that came to their end are compared, never one that runs or was killed.
ComparedRunsEnded ==
    \A pair \in LatestPair : \A b \in {pair.older, pair.newer} :
        b \notin killed /\ (run.batch = b => run.pc \in {"history", "rotate"})

\* The lines that are rows.
Whole(lines) ==
    LET upto[i \in 0..Len(lines)] ==
            IF i = 0 THEN <<>>
            ELSE IF lines[i] = Torn THEN upto[i - 1]
            ELSE Append(upto[i - 1], lines[i])
    IN  upto[Len(lines)]

\* The history holds the newest rows that were written, whole and in order, and gives up
\* none before it is full, whenever the batches were killed; and what is compared by it ended.
HistoryKeepsNewest ==
    LET kept == Whole(history.lines)
    IN  /\ ComparedRunsEnded
        /\ IsSuffix(kept, wrote)
        /\ Len(kept) < Len(wrote) => Len(history.lines) >= MaxRows
============================================================================
