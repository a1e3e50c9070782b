----------------------- MODULE SessionControllerProofs -----------------------
(***************************************************************************)
(* Whatever commands there are, and however they interleave: one session   *)
(* starts or runs one task at a time, and until the exit the session it    *)
(* started in stays the current one, locked and with the model chosen last.*)
(*                                                                         *)
(* The invariant has two parts.  Control holds all the time: what runs is  *)
(* the task the controller knows of (Alone), which rests on the front end's*)
(* one submit or resume at a time (OneByOne) and on the loop's queue - a   *)
(* submit behind its shield is woken by the end of its start and by nothing*)
(* else (Woken, Stage).  Sound holds until the exit closes the session: a  *)
(* launcher's session is the current one, and a reset or a resume that     *)
(* waits has no launcher beside it but a run that finds no agent and is    *)
(* refused (ChangeIsSound), although submit does not look at _switching    *)
(* again.  A launcher's step has to say what it makes of the session       *)
(* (Makes, LauncherStep), a command's that it leaves the session alone     *)
(* (CommandStep, QueueStep) or changes it when nothing runs (ChangeStep).  *)
(***************************************************************************)
EXTENDS SessionController, SequenceTheorems, FiniteSetTheorems, TLAPS

-----------------------------------------------------------------------------
(* The invariant *)

\* The task t has an entry in the queue q; it has no two.
In(t, q) == \E k \in 1..Len(q) : q[k][1] = t
Once(t, q) == \A j, k \in 1..Len(q) : q[j][1] = t /\ q[k][1] = t => j = k

Entries == Tasks \X {0, 1}

\* The launchers that run.
Active == {t \in Launchers : at[t] \notin {"idle"} \cup Over}

\* The awaits of a task.
Places ==
    {"idle", "begin", "shields", "unwinds", "tracks", "waits", "returns", "connects", "launches",
     "undoes", "fails", "goal", "stops", "remembers", "picks", "closes", "reconnects", "ended",
     "done", "failed", "cancelled"}

\* The command c has arrived and has not ended.
InFlight(c) == at[c] \notin {"idle", "ended"}

Typed ==
    /\ ready \in Seq(Entries)
    /\ at \in [Tasks -> Places]
    /\ watchers \in [Launchers -> Seq(Entries)]
    /\ starting \in Starts \cup {None}
    /\ task \in Runs \cup {None}

\* A submit behind its shield is in nobody's queue before its start is over.
Woken(s) ==
    /\ at[s] = "idle" => ~In(s, ready)
    /\ at[s] = "begin" => Once(s, ready)
    /\ at[s] = "shields" => (In(s, ready) => at[Start(s)] \in Over)
    /\ \A t \in Launchers : In(s, watchers[t]) => t = Start(s) /\ at[s] \notin {"idle", "begin"}

\* What runs is what the controller knows of, and it is one.
Alone ==
    /\ \A t \in Starts : t \in Active => t = starting
    /\ \A t \in Runs : t \in Active => t = task
    /\ ~(Pending(starting) /\ Pending(task))

\* The front end has one submit or resume on its way.
OneByOne == \A c, d \in Submits \cup Resumes : InFlight(c) /\ InFlight(d) => c = d

\* What a submit that waits knows of its start.
Stage(s) ==
    /\ at[s] = "shields" => starting = Start(s) /\ ~Pending(task)
    /\ at[s] = "unwinds" => starting = Start(s) /\ at[Start(s)] \in Over

\* Which commands wait where.
Placed ==
    \A c \in Commands :
        /\ at[c] = "closes" => c \in Closers
        /\ at[c] = "picks" => c \in Resumes

Control ==
    /\ Typed /\ Alone /\ OneByOne /\ Placed
    /\ \A s \in Submits : Woken(s) /\ Stage(s)

-----------------------------------------------------------------------------
\* The exit has not come to its close.
Before == Exits => at[close] = "idle"

\* The current session.
Here == session[context]

Records ==
    [lock : BOOLEAN, initialized : BOOLEAN, chrome : BOOLEAN, mcp : Launchers \cup {None},
     serving : SUBSET Launchers, current : Runs \cup {None}, tasks : Nat,
     model : Models, llm : Models \cup {None}]

RuntimeTyped ==
    /\ session \in Seq(Records) /\ context \in 1..Len(session)
    /\ model \in Models /\ agent \in Models \cup {None}
    /\ of \in [Tasks -> Nat] /\ by \in [Runs -> Models \cup {None}]
    /\ restored \in [Resumes -> Nat]
    /\ switching \in BOOLEAN

\* The current session, beside the runtime's model and agent.
HereIsSound ==
    /\ Here.model = model
    /\ Here.initialized => Here.lock
    /\ Here.mcp # None => Here.initialized
    /\ agent # None => Here.initialized /\ agent = model

\* A launcher of the session: that of SwitchesSpareTasks, with the model it will have.
LaunchIsSound(t) == of[t] = context /\ Here.lock /\ Here.llm = model

\* The resets and resumes that wait.
Changing == {c \in Resets \cup Resumes : at[c] \in {"picks", "closes"}}

\* One that waits keeps the others out, and what it closes is the current session.
ChangeIsSound(c) ==
    /\ switching
    /\ ~Pending(starting)
    /\ Pending(task) => c \in Resets /\ at[task] = "begin"
    /\ at[c] = "closes" => of[c] = context /\ Here.initialized /\ Here.mcp = None /\ agent = None
    /\ at[c] = "closes" /\ c \in Resumes =>
          /\ restored[c] \in (1..Len(session)) \ {context}
          /\ session[restored[c]] = Fresh(TRUE, model)

Sound ==
    /\ RuntimeTyped /\ HereIsSound
    /\ \A t \in Launching : LaunchIsSound(t)
    /\ \A t \in Working : InItsSession(t)
    /\ \A c \in Changing : ChangeIsSound(c)
    /\ \A c, d \in Changing : c = d

IInv == Control /\ (Before => Sound)

-----------------------------------------------------------------------------
(* The queue *)

\* Nothing is in an empty queue.
LEMMA NoEntry == <<>> \in Seq(Entries) /\ \A t : ~In(t, <<>>)
<1>1. <<>> \in Seq(Entries) /\ Len(<<>>) = 0
  BY EmptySeq
<1> QED BY <1>1 DEF In

\* An entry is removed from a queue: what is left was in it.
LEMMA Removed ==
    ASSUME NEW q \in Seq(Entries), NEW k \in 1..Len(q)
    PROVE  LET rest == SubSeq(q, 1, k - 1) \o SubSeq(q, k + 1, Len(q))
           IN  rest \in Seq(Entries) /\ \A t : In(t, rest) => In(t, q)
<1> DEFINE a == SubSeq(q, 1, k - 1)
           b == SubSeq(q, k + 1, Len(q))
<1>0. Len(q) \in Nat /\ \A j \in 1..Len(q) : q[j] \in Entries
  BY ElementOfSeq, LenProperties
<1>1. a \in Seq(Entries) /\ Len(a) = k - 1 /\ \A j \in 1..Len(a) : a[j] = q[j]
  <2>1. \A j \in 1..(k - 1) : q[j] \in Entries
    BY <1>0
  <2>2. /\ a \in Seq(Entries) /\ Len(a) = (IF 1 <= k - 1 THEN k - 1 - 1 + 1 ELSE 0)
        /\ \A j \in 1..(k - 1 - 1 + 1) : a[j] = q[1 + j - 1]
    BY <1>0, <2>1, SubSeqProperties
  <2> QED BY <1>0, <2>2
<1>2. b \in Seq(Entries) /\ Len(b) = Len(q) - k /\ \A j \in 1..Len(b) : b[j] = q[k + j]
  <2>1. \A j \in (k + 1)..Len(q) : q[j] \in Entries
    BY <1>0
  <2>2. /\ b \in Seq(Entries)
        /\ Len(b) = (IF k + 1 <= Len(q) THEN Len(q) - (k + 1) + 1 ELSE 0)
        /\ \A j \in 1..(Len(q) - (k + 1) + 1) : b[j] = q[k + 1 + j - 1]
    BY <1>0, <2>1, SubSeqProperties
  <2> QED BY <1>0, <2>2
<1>3. /\ a \o b \in Seq(Entries) /\ Len(a \o b) = Len(a) + Len(b)
      /\ \A j \in 1..(Len(a) + Len(b)) : (a \o b)[j] = IF j <= Len(a) THEN a[j] ELSE b[j - Len(a)]
  BY <1>1, <1>2, ConcatProperties
<1>4. ASSUME NEW t, In(t, a \o b) PROVE In(t, q)
  <2> HIDE DEF a, b
  <2>1. PICK j \in 1..Len(a \o b) : (a \o b)[j][1] = t
    BY <1>4 DEF In
  <2>2. CASE j <= Len(a)
    <3>1. j \in 1..Len(q) /\ q[j][1] = t
      BY <1>0, <1>1, <1>2, <1>3, <2>1, <2>2
    <3> QED BY <3>1 DEF In
  <2>3. CASE j > Len(a)
    <3>1. j - Len(a) \in 1..Len(b) /\ (a \o b)[j] = b[j - Len(a)]
      BY <1>0, <1>1, <1>2, <1>3, <2>3
    <3>2. PICK i \in 1..Len(b) : (a \o b)[j] = b[i]
      BY <3>1
    <3>3. k + i \in 1..Len(q) /\ b[i] = q[k + i]
      BY <1>0, <1>2
    <3> QED BY <2>1, <3>2, <3>3 DEF In
  <2> QED BY <2>2, <2>3, <1>0, <1>1, <1>2, <1>3, <2>1
<1> QED BY <1>3, <1>4

\* An entry is added at the end.
LEMMA Added ==
    ASSUME NEW q \in Seq(Entries), NEW x \in Tasks, NEW n \in {0, 1}
    PROVE  /\ Append(q, <<x, n>>) \in Seq(Entries)
           /\ \A t : In(t, Append(q, <<x, n>>)) => In(t, q) \/ t = x
           /\ \A t : Once(t, q) /\ (In(t, q) => t # x) => Once(t, Append(q, <<x, n>>))
<1> DEFINE more == Append(q, <<x, n>>)
<1>0. <<x, n>> \in Entries /\ Len(q) \in Nat
  BY LenProperties DEF Entries
<1>1. /\ more \in Seq(Entries) /\ Len(more) = Len(q) + 1
      /\ \A i \in 1..Len(q) : more[i] = q[i]
      /\ more[Len(q) + 1] = <<x, n>>
  BY <1>0, AppendProperties
<1> HIDE DEF more
<1>2. ASSUME NEW t, In(t, more) PROVE In(t, q) \/ t = x
  BY <1>0, <1>1, <1>2 DEF In
<1>3. ASSUME NEW t, Once(t, q), In(t, q) => t # x PROVE Once(t, more)
  <2> SUFFICES ASSUME NEW j \in 1..Len(more), NEW k \in 1..Len(more),
                      more[j][1] = t, more[k][1] = t
               PROVE  j = k
    BY DEF Once
  <2>1. CASE t = x
    <3>1. \A i \in 1..Len(q) : more[i][1] # t
      BY <1>1, <1>3, <2>1 DEF In
    <3> QED BY <3>1, <1>0, <1>1
  <2>2. CASE t # x
    <3>1. j \in 1..Len(q) /\ k \in 1..Len(q)
      BY <1>0, <1>1, <2>2
    <3> QED BY <3>1, <1>1, <1>3 DEF Once
  <2> QED BY <2>1, <2>2
<1> QED BY <1>1, <1>2, <1>3 DEF more

\* The first entry is taken.
LEMMA Taken ==
    ASSUME NEW q \in Seq(Entries), q # <<>>
    PROVE  /\ Tail(q) \in Seq(Entries) /\ Head(q) \in Entries
           /\ \A t : In(t, Tail(q)) => In(t, q)
           /\ \A t : Once(t, q) => Once(t, Tail(q)) /\ (In(t, Tail(q)) => t # Head(q)[1])
           /\ In(Head(q)[1], q)
<1>1. /\ Tail(q) \in Seq(Entries) /\ Head(q) \in Entries /\ Len(q) \in Nat \ {0}
      /\ Len(Tail(q)) = Len(q) - 1 /\ \A i \in 1..Len(Tail(q)) : Tail(q)[i] = q[i + 1]
      /\ Head(q) = q[1]
  BY HeadTailProperties, EmptySeq
<1>2. ASSUME NEW t, In(t, Tail(q)) PROVE \E k \in 1..Len(q) : q[k][1] = t /\ k # 1
  <2>1. PICK j \in 1..Len(Tail(q)) : Tail(q)[j][1] = t
    BY <1>2 DEF In
  <2>2. j + 1 \in 1..Len(q) /\ q[j + 1][1] = t /\ j + 1 # 1
    BY <1>1, <2>1
  <2> QED BY <2>2
<1>3. ASSUME NEW t, Once(t, q) PROVE Once(t, Tail(q))
  <2> SUFFICES ASSUME NEW j \in 1..Len(Tail(q)), NEW k \in 1..Len(Tail(q)),
                      Tail(q)[j][1] = t, Tail(q)[k][1] = t
               PROVE  j = k
    BY DEF Once
  <2>1. /\ j + 1 \in 1..Len(q) /\ k + 1 \in 1..Len(q)
        /\ q[j + 1][1] = t /\ q[k + 1][1] = t
    BY <1>1
  <2>2. j + 1 = k + 1
    BY <2>1, <1>3 DEF Once
  <2> QED BY <2>2, <1>1
<1>4. 1 \in 1..Len(q) /\ q[1][1] = Head(q)[1]
  BY <1>1
<1>5. ASSUME NEW t, Once(t, q), In(t, Tail(q)) PROVE t # Head(q)[1]
  BY <1>2, <1>4, <1>5 DEF Once
<1>6. In(Head(q)[1], q)
  BY <1>4 DEF In
<1> QED BY <1>1, <1>2, <1>3, <1>5, <1>6 DEF In

\* Entries are added at the end.
LEMMA Joined ==
    ASSUME NEW q \in Seq(Entries), NEW e \in Seq(Entries)
    PROVE  /\ q \o e \in Seq(Entries)
           /\ \A t : In(t, q \o e) => In(t, q) \/ In(t, e)
           /\ \A t : Once(t, q) /\ ~In(t, e) => Once(t, q \o e)
<1>1. /\ q \o e \in Seq(Entries) /\ Len(q \o e) = Len(q) + Len(e)
      /\ \A i \in 1..(Len(q) + Len(e)) : (q \o e)[i] = IF i <= Len(q) THEN q[i] ELSE e[i - Len(q)]
      /\ Len(q) \in Nat /\ Len(e) \in Nat
  BY ConcatProperties, LenProperties
<1>2. ASSUME NEW i \in 1..Len(q \o e)
      PROVE  \/ i \in 1..Len(q) /\ (q \o e)[i] = q[i]
             \/ i - Len(q) \in 1..Len(e) /\ (q \o e)[i] = e[i - Len(q)]
  BY <1>1
<1>3. ASSUME NEW t, In(t, q \o e) PROVE In(t, q) \/ In(t, e)
  BY <1>2, <1>3 DEF In
<1>4. ASSUME NEW t, Once(t, q), ~In(t, e) PROVE Once(t, q \o e)
  BY <1>2, <1>4 DEF In, Once
<1> QED BY <1>1, <1>3, <1>4

-----------------------------------------------------------------------------
(* What a step changes of the invariant's first part *)

\* The tasks have names of their own.
LEMMA Names ==
    /\ \A c \in Commands : c \in Tasks /\ c # None /\ c \notin Launchers
    /\ \A t \in Launchers : t \in Tasks /\ t # None /\ t \notin Commands
    /\ \A s \in Submits : s \in Commands /\ Start(s) \in Starts /\ Run(s) \in Runs
    /\ \A t \in Starts : t \in Launchers /\ t \notin Runs
    /\ \A t \in Runs : t \in Launchers /\ t \notin Starts
    /\ \A r, s \in Submits : Start(r) = Start(s) => r = s
    /\ Exits => {shutdown, close, stop} \subseteq Commands
<1>1. \A c \in Commands : c # None
  BY CommandsAssumption DEF Commands, Leaving
<1>2. \A t \in Launchers : t # None /\ t \notin Commands
  BY NamesAssumption
<1>3. \A s \in Submits : s \in Commands /\ Start(s) \in Starts /\ Run(s) \in Runs
  BY DEF Commands, Starts, Runs
<1>4. \A r, s \in Submits : Start(r) # Run(s) /\ (Start(r) = Start(s) => r = s)
  BY DEF Start, Run
<1>5. Starts \cap Runs = {}
  BY <1>4 DEF Starts, Runs
<1>6. Exits => {shutdown, close, stop} \subseteq Commands
  BY DEF Commands, Leaving
<1> QED BY <1>1, <1>2, <1>3, <1>4, <1>5, <1>6 DEF Tasks, Launchers

\* A launcher moves on; what waits for it hears of it when it is over.
LEMMA LauncherMoves ==
    ASSUME Control, NEW t \in Launchers, at[t] \notin {"idle"} \cup Over,
           NEW p \in Places \ {"idle"}, NEW e, e = <<>> \/ (e = watchers[t] /\ p \in Over),
           ready # <<>>, ready' = Tail(ready) \o e, at' = [at EXCEPT ![t] = p],
           UNCHANGED <<watchers, starting, task>>
    PROVE  Control' /\ (Before' => Before)
<1>0. /\ ready \in Seq(Entries) /\ DOMAIN at = Tasks /\ at \in [Tasks -> Places]
      /\ watchers \in [Launchers -> Seq(Entries)]
  BY DEF Control, Typed
<1>1. /\ e \in Seq(Entries)
      /\ \A s : In(s, e) => p \in Over /\ In(s, watchers[t])
  <2>1. CASE e = <<>>
    BY <2>1, NoEntry
  <2>2. CASE e = watchers[t] /\ p \in Over
    BY <2>2, <1>0
  <2> QED BY <2>1, <2>2
<1>2. /\ ready' \in Seq(Entries)
      /\ \A s : In(s, ready') => In(s, ready) \/ In(s, e)
      /\ \A s : Once(s, ready) /\ ~In(s, e) => Once(s, ready')
  BY <1>0, <1>1, Taken, Joined
<1>3. /\ \A c \in Tasks : at'[c] = IF c = t THEN p ELSE at[c]
      /\ \A c \in Commands : at'[c] = at[c]
  BY <1>0, Names
<1>4. Typed'
  BY <1>0, <1>2 DEF Control, Typed
<1>5. Alone'
  <2>1. Active' \subseteq Active
    BY <1>3, Names DEF Active
  <2>2. /\ Pending(starting)' => Pending(starting)
        /\ Pending(task)' => Pending(task)
    BY <1>3, Names DEF Pending, Control, Typed
  <2> QED BY <2>1, <2>2 DEF Control, Alone
<1>6. OneByOne'
  <2>1. \A c \in Submits \cup Resumes : InFlight(c)' <=> InFlight(c)
    BY <1>3 DEF InFlight, Commands
  <2> QED BY <2>1 DEF Control, OneByOne
<1>7. Placed'
  BY <1>3 DEF Control, Placed
<1>8. ASSUME NEW s \in Submits PROVE Woken(s)'
  <2>1. Woken(s) /\ at'[s] = at[s]
    BY <1>3, Names DEF Control
  <2>2. In(s, e) => t = Start(s) /\ at[s] \notin {"idle", "begin"}
    BY <1>1, <2>1 DEF Woken
  <2>3. at[s] = "shields" /\ In(s, ready') => at'[Start(s)] \in Over
    <3>1. CASE In(s, e)
      BY <3>1, <1>1, <1>3, <2>2, Names
    <3>2. CASE In(s, ready) /\ at[s] = "shields"
      BY <3>2, <1>3, <2>1, Names DEF Woken
    <3> QED BY <3>1, <3>2, <1>2
  <2> QED BY <1>2, <2>1, <2>2, <2>3 DEF Woken
<1>9. ASSUME NEW s \in Submits PROVE Stage(s)'
  <2>1. Stage(s) /\ at'[s] = at[s]
    BY <1>3, Names DEF Control
  <2>2. Pending(task)' => Pending(task)
    BY <1>3, Names DEF Pending, Control, Typed
  <2>3. at[Start(s)] \in Over => at'[Start(s)] \in Over
    BY <1>3, Names
  <2> QED BY <2>1, <2>2, <2>3 DEF Stage
<1>10. Before' => Before
  BY <1>3, Names DEF Before
<1> QED BY <1>4, <1>5, <1>6, <1>7, <1>8, <1>9, <1>10 DEF Control

\* No submit is added to what waits for a launcher.
Watched ==
    /\ watchers' \in [Launchers -> Seq(Entries)]
    /\ \A s \in Submits, t \in Launchers : In(s, watchers'[t]) => In(s, watchers[t])

\* A step that leaves the watchers alone adds no submit to them.
LEMMA SameWatchers == ASSUME Control, UNCHANGED watchers PROVE Watched
BY DEF Control, Typed, Watched

\* A command moves on.
LEMMA CommandMoves ==
    ASSUME Control, NEW c \in Commands, InFlight(c),
           NEW p \in Places \ {"idle", "begin", "shields"},
           p = "closes" => c \in Closers, p = "picks" => c \in Resumes,
           p = "unwinds" => starting' = starting /\ starting = Start(c) /\ at[Start(c)] \in Over,
           ready # <<>>, NEW e \in Seq(Entries), \A s \in Submits : In(s, e) => s = c,
           ready' = Tail(ready) \o e, at' = [at EXCEPT ![c] = p], Watched,
           starting' = starting \/ (starting' = None /\ c \in Submits /\ ~Pending(starting)),
           UNCHANGED task
    PROVE  Control' /\ (Before' => Before)
<1>0. /\ ready \in Seq(Entries) /\ DOMAIN at = Tasks /\ at \in [Tasks -> Places]
      /\ watchers \in [Launchers -> Seq(Entries)]
  BY DEF Control, Typed
<1>2. /\ ready' \in Seq(Entries)
      /\ \A s : In(s, ready') => In(s, ready) \/ In(s, e)
      /\ \A s : Once(s, ready) /\ ~In(s, e) => Once(s, ready')
  BY <1>0, Taken, Joined
<1>3. /\ \A d \in Tasks : at'[d] = IF d = c THEN p ELSE at[d]
      /\ \A t \in Launchers : at'[t] = at[t]
  BY <1>0, Names
<1>4. Typed'
  BY <1>0, <1>2, <1>3 DEF Control, Typed, Watched
<1>5. Alone'
  <2>1. Active' = Active
    BY <1>3 DEF Active
  <2>2. /\ Pending(starting)' => Pending(starting) /\ starting' = starting
        /\ Pending(task)' <=> Pending(task)
    BY <1>3, Names DEF Pending, Control, Typed
  <2>3. ASSUME NEW t \in Starts, t \in Active PROVE t = starting'
    <3>1. t = starting /\ Pending(starting)
      BY <2>3, Names DEF Control, Alone, Active, Pending
    <3> QED BY <3>1
  <2> QED BY <2>1, <2>2, <2>3 DEF Control, Alone
<1>6. OneByOne'
  <2>1. \A d \in Submits \cup Resumes : InFlight(d)' => InFlight(d)
    BY <1>3, Names DEF InFlight, Commands
  <2> QED BY <2>1 DEF Control, OneByOne
<1>7. Placed'
  BY <1>3, Names DEF Control, Placed
<1>8. ASSUME NEW s \in Submits PROVE Woken(s)'
  <2>1. Woken(s) /\ at'[s] = (IF s = c THEN p ELSE at[s]) /\ at'[Start(s)] = at[Start(s)]
    BY <1>3, Names DEF Control
  <2>2. \A t \in Launchers : In(s, watchers'[t]) => In(s, watchers[t])
    BY DEF Watched
  <2>3. CASE s = c
    BY <2>1, <2>2, <2>3, <1>2 DEF Woken, InFlight
  <2>4. CASE s # c
    BY <2>1, <2>2, <2>4, <1>2 DEF Woken
  <2> QED BY <2>3, <2>4
<1>9. ASSUME NEW s \in Submits PROVE Stage(s)'
  <2>1. /\ Stage(s) /\ at'[s] = (IF s = c THEN p ELSE at[s]) /\ at'[Start(s)] = at[Start(s)]
    BY <1>3, Names DEF Control
  <2>2. Pending(task)' <=> Pending(task)
    BY <1>3, Names DEF Pending, Control, Typed
  <2>3. CASE s = c
    BY <2>1, <2>3 DEF Stage
  <2>4. CASE s # c /\ at[s] \in {"shields", "unwinds"}
    <3>1. c \notin Submits
      BY <2>4 DEF Control, OneByOne, InFlight
    <3> QED BY <2>1, <2>2, <2>4, <3>1 DEF Stage
  <2> QED BY <2>1, <2>3, <2>4 DEF Stage
<1>10. Before' => Before
  BY <1>3, Names DEF Before
<1> QED BY <1>4, <1>5, <1>6, <1>7, <1>8, <1>9, <1>10 DEF Control

\* A step that only changes who is woken, and when, and no submit twice.
LEMMA QueueMoves ==
    ASSUME Control, ready' \in Seq(Entries),
           \A s \in Submits : (In(s, ready') => In(s, ready)) /\ (Once(s, ready) => Once(s, ready')),
           Watched, UNCHANGED <<at, starting, task>>
    PROVE  Control' /\ (Before' => Before)
<1>1. Typed'
  BY DEF Control, Typed, Watched
<1>2. Alone' /\ OneByOne' /\ Placed' /\ (Before' => Before)
  BY DEF Control, Alone, Active, Pending, OneByOne, InFlight, Placed, Before
<1>3. ASSUME NEW s \in Submits PROVE Woken(s)' /\ Stage(s)'
  BY DEF Control, Woken, Stage, Pending, Watched
<1> QED BY <1>1, <1>2, <1>3 DEF Control

\* A command arrives.
LEMMA CommandArrives == ASSUME Control, NEW c \in Commands, Issue(c) PROVE Control' /\ (Before' => Before)
<1>0. /\ ready \in Seq(Entries) /\ DOMAIN at = Tasks /\ at \in [Tasks -> Places]
      /\ watchers \in [Launchers -> Seq(Entries)]
  BY DEF Control, Typed
<1>1. /\ at[c] = "idle" /\ at' = [at EXCEPT ![c] = "begin"] /\ ready' = Append(ready, <<c, 1>>)
      /\ UNCHANGED <<watchers, starting, task>>
      /\ c \in Submits \cup Resumes => ~UiBusy
  BY DEF Issue, controllerVars
<1>2. /\ ready' \in Seq(Entries)
      /\ \A t : In(t, ready') => In(t, ready) \/ t = c
      /\ \A t : Once(t, ready) /\ (In(t, ready) => t # c) => Once(t, ready')
  BY <1>0, <1>1, Names, Added
<1>3. /\ \A d \in Tasks : at'[d] = IF d = c THEN "begin" ELSE at[d]
      /\ \A t \in Launchers : at'[t] = at[t]
  BY <1>0, <1>1, Names
<1>4. Typed'
  <2>1. at' \in [Tasks -> Places]
    BY <1>0, <1>1 DEF Places
  <2>2. starting' \in Starts \cup {None} /\ task' \in Runs \cup {None}
    BY <1>1 DEF Control, Typed
  <2>3. watchers' \in [Launchers -> Seq(Entries)]
    BY <1>0, <1>1
  <2> QED BY <1>2, <2>1, <2>2, <2>3 DEF Typed
<1>5. Alone'
  <2>1. Active' = Active
    BY <1>3 DEF Active
  <2>2. (Pending(starting)' <=> Pending(starting)) /\ (Pending(task)' <=> Pending(task))
    BY <1>1, <1>3, Names DEF Pending, Control, Typed
  <2> QED BY <1>1, <2>1, <2>2 DEF Control, Alone
<1>6. OneByOne'
  <2>1. \A d \in Submits \cup Resumes : InFlight(d)' => InFlight(d) \/ d = c
    BY <1>3, Names DEF InFlight, Commands
  <2>2. c \in Submits \cup Resumes => \A d \in Submits \cup Resumes : ~InFlight(d)
    BY <1>1 DEF UiBusy, InFlight
  <2> QED BY <2>1, <2>2 DEF Control, OneByOne
<1>7. Placed'
  BY <1>3, Names DEF Control, Placed
<1>8. ASSUME NEW s \in Submits PROVE Woken(s)' /\ Stage(s)'
  <2>1. /\ Woken(s) /\ Stage(s) /\ at'[s] = (IF s = c THEN "begin" ELSE at[s])
        /\ at'[Start(s)] = at[Start(s)]
    BY <1>3, Names DEF Control
  <2>2. Pending(task)' <=> Pending(task)
    BY <1>1, <1>3, Names DEF Pending, Control, Typed
  <2>3. CASE s = c
    <3>1. Once(s, ready) /\ ~In(s, ready) /\ \A t \in Launchers : ~In(s, watchers[t])
      BY <1>1, <2>1, <2>3 DEF Woken, In, Once
    <3> QED BY <1>1, <1>2, <2>1, <2>3, <3>1 DEF Woken, Stage
  <2>4. CASE s # c
    <3>1. Woken(s)'
      BY <1>1, <1>2, <2>1, <2>4 DEF Woken
    <3>2. Stage(s)'
      BY <1>1, <2>1, <2>2, <2>4 DEF Stage
    <3> QED BY <3>1, <3>2
  <2> QED BY <2>3, <2>4
<1>9. Before' => Before
  BY <1>1, <1>3, Names DEF Before
<1> QED BY <1>4, <1>5, <1>6, <1>7, <1>8, <1>9 DEF Control

-----------------------------------------------------------------------------
(* A submit starts the session, and runs its task *)

\* Where the task of a turn is.
LEMMA AtTurn ==
    ASSUME Control, NEW c \in Tasks, NEW p, Turn(c, p)
    PROVE  /\ ready # <<>> /\ at[c] = p /\ In(c, ready)
           /\ Tail(ready) \in Seq(Entries)
           /\ \A t : In(t, Tail(ready)) => In(t, ready)
           /\ \A t : Once(t, ready) => Once(t, Tail(ready)) /\ (In(t, Tail(ready)) => t # c)
<1>1. ready \in Seq(Entries) /\ ready # <<>> /\ at[c] = p /\ Head(ready)[1] = c
  BY DEF Turn, Control, Typed
<1> QED BY <1>1, Taken

\* Nothing runs and nothing changes when the controller is not busy.
LEMMA NothingRuns ==
    ASSUME Control, ~Pending(starting), ~Pending(task)
    PROVE  Active = {} /\ Launching = {} /\ Working = {}
<1>1. Active = {}
  BY Names DEF Control, Alone, Active, Pending, Launchers
<1>2. Launching \subseteq Active /\ Working \subseteq Active
  BY Names DEF Launching, Working, Active, Over
<1> QED BY <1>1, <1>2

\* submit makes its start the one launcher there is.
LEMMA SubmitStarts ==
    ASSUME Control, NEW s \in Submits, Submit(s)
    PROVE  /\ Control' /\ (Before' => Before)
           /\ Launching' = {} /\ Working' = {}
<1>0. /\ ready \in Seq(Entries) /\ DOMAIN at = Tasks /\ at \in [Tasks -> Places]
      /\ watchers \in [Launchers -> Seq(Entries)]
      /\ s \in Commands /\ s \in Tasks /\ Start(s) \in Starts /\ Start(s) \in Launchers
      /\ Start(s) \in Tasks /\ s # Start(s)
  BY Names DEF Control, Typed
<1>1. /\ Turn(s, "begin") /\ ~Busy /\ starting' = Start(s)
      /\ at' = [at EXCEPT ![s] = "shields", ![Start(s)] = "begin"]
      /\ ready' = Append(Tail(ready), <<Start(s), 0>>)
      /\ watchers' = [watchers EXCEPT ![Start(s)] = << <<s, 1>> >>]
      /\ task' = task
  BY DEF Submit
<1>2. /\ at[s] = "begin" /\ Once(s, ready) /\ ~In(s, Tail(ready))
      /\ Tail(ready) \in Seq(Entries) /\ \A t : In(t, Tail(ready)) => In(t, ready)
      /\ \A t : Once(t, ready) => Once(t, Tail(ready))
  BY <1>0, <1>1, AtTurn DEF Control, Woken
<1>3. /\ ready' \in Seq(Entries)
      /\ \A t : In(t, ready') => In(t, Tail(ready)) \/ t = Start(s)
      /\ \A t : Once(t, Tail(ready)) /\ t # Start(s) => Once(t, ready')
  BY <1>0, <1>1, <1>2, Added
<1>4. /\ <<<<s, 1>>>> \in Seq(Entries) /\ \A t : In(t, <<<<s, 1>>>>) => t = s
  <2>1. <<s, 1>> \in Entries
    BY <1>0 DEF Entries
  <2> QED BY <2>1 DEF In
<1>5. /\ \A d \in Tasks : at'[d] = IF d = s THEN "shields" ELSE IF d = Start(s) THEN "begin" ELSE at[d]
      /\ \A t \in Launchers : watchers'[t] = IF t = Start(s) THEN <<<<s, 1>>>> ELSE watchers[t]
      /\ watchers' \in [Launchers -> Seq(Entries)] /\ at' \in [Tasks -> Places]
  BY <1>0, <1>1, <1>4 DEF Places
<1>6. ~Pending(starting) /\ ~Pending(task) /\ Active = {} /\ Launching = {} /\ Working = {}
  BY <1>1, NothingRuns DEF Busy
<1>7. Typed'
  BY <1>0, <1>1, <1>3, <1>5 DEF Control, Typed
<1>8. ~Pending(task)'
  BY <1>0, <1>1, <1>5, <1>6, Names DEF Pending, Control, Typed
<1>9. Alone'
  <2>1. Active' \subseteq {Start(s)}
    BY <1>0, <1>5, <1>6, Names DEF Active
  <2> QED BY <1>0, <1>1, <1>8, <2>1, Names DEF Alone
<1>10. \A d \in Submits \cup Resumes : (InFlight(d)' => InFlight(d)) /\ (InFlight(d) => d = s)
  BY <1>0, <1>2, <1>5, Names DEF InFlight, Commands, Control, OneByOne
<1>11. OneByOne' /\ Placed'
  BY <1>0, <1>5, <1>10, Names DEF OneByOne, Control, Placed
<1>12. ASSUME NEW r \in Submits PROVE Woken(r)' /\ Stage(r)'
  <2>1. Woken(r) /\ r \in Tasks /\ Start(r) \in Launchers /\ (Start(r) = Start(s) => r = s)
    BY Names DEF Control
  <2>2. CASE r = s
    BY <1>0, <1>1, <1>2, <1>3, <1>5, <1>8, <2>1, <2>2 DEF Woken, Stage
  <2>3. CASE r # s
    <3>1. at'[r] = at[r] /\ r # Start(s) /\ ~InFlight(r)
      BY <1>0, <1>5, <1>10, <2>1, <2>3, Names
    <3> QED BY <1>2, <1>3, <1>4, <1>5, <2>1, <2>3, <3>1 DEF Woken, Stage, InFlight
  <2> QED BY <2>2, <2>3
<1>13. Before' => Before
  BY <1>0, <1>5, Names DEF Before
<1>14. Launching' = {} /\ Working' = {}
  BY <1>0, <1>5, <1>6, Names DEF Launching, Working
<1> QED BY <1>7, <1>9, <1>11, <1>12, <1>13, <1>14 DEF Control

\* A submit whose start is done makes its run the one launcher there is.
LEMMA RunBegins ==
    ASSUME Control, NEW s \in Submits, Shielded(s), at[Start(s)] \notin {"cancelled", "failed"}
    PROVE  /\ Control' /\ (Before' => Before)
           /\ task' = Run(s) /\ at'[Run(s)] = "begin" /\ starting' = None
           /\ Launching' = {} /\ Working' = {}
           /\ \A c \in Resumes : ~InFlight(c)
           /\ \A c \in Resets : at'[c] = at[c]
<1>0. /\ ready \in Seq(Entries) /\ DOMAIN at = Tasks /\ at \in [Tasks -> Places]
      /\ watchers \in [Launchers -> Seq(Entries)]
      /\ s \in Commands /\ s \in Tasks /\ Run(s) \in Runs /\ Run(s) \in Launchers
      /\ Run(s) \in Tasks /\ s # Run(s) /\ Run(s) # None
  BY Names DEF Control, Typed
<1>1. /\ Turn(s, "shields") /\ starting' = None /\ task' = Run(s)
      /\ at' = [at EXCEPT ![s] = "tracks", ![Run(s)] = "begin"]
      /\ ready' = Tail(ready) \o << <<Run(s), 0>>, <<s, 0>> >>
      /\ UNCHANGED watchers
  BY DEF Shielded
<1>2. /\ at[s] = "shields" /\ at[Start(s)] \in Over
      /\ starting = Start(s) /\ ~Pending(task) /\ ~Pending(starting)
  BY <1>0, <1>1, AtTurn DEF Control, Woken, Stage, Pending
<1>3. /\ Active = {} /\ Launching = {} /\ Working = {}
  BY <1>2, NothingRuns
<1>4. /\ ready' \in Seq(Entries)
      /\ \A t : In(t, ready') => In(t, ready) \/ t = s \/ t = Run(s)
      /\ \A t : Once(t, ready) /\ t # s /\ t # Run(s) => Once(t, ready')
  <2> DEFINE e == << <<Run(s), 0>>, <<s, 0>> >>
  <2>1. <<Run(s), 0>> \in Entries /\ <<s, 0>> \in Entries
    BY <1>0 DEF Entries
  <2>2. e \in Seq(Entries) /\ \A t : In(t, e) => t = s \/ t = Run(s)
    BY <2>1 DEF In
  <2>3. /\ Tail(ready) \in Seq(Entries) /\ \A t : In(t, Tail(ready)) => In(t, ready)
        /\ \A t : Once(t, ready) => Once(t, Tail(ready))
    BY <1>0, <1>1, AtTurn
  <2> HIDE DEF e
  <2>4. /\ Tail(ready) \o e \in Seq(Entries)
        /\ \A t : In(t, Tail(ready) \o e) => In(t, Tail(ready)) \/ In(t, e)
        /\ \A t : Once(t, Tail(ready)) /\ ~In(t, e) => Once(t, Tail(ready) \o e)
    BY <2>2, <2>3, Joined
  <2>5. ready' = Tail(ready) \o e
    BY <1>1 DEF e
  <2> QED BY <2>2, <2>3, <2>4, <2>5
<1>5. /\ \A d \in Tasks : at'[d] = IF d = s THEN "tracks" ELSE IF d = Run(s) THEN "begin" ELSE at[d]
      /\ at' \in [Tasks -> Places]
  BY <1>0, <1>1 DEF Places
<1>7. Typed'
  BY <1>0, <1>1, <1>4, <1>5 DEF Control, Typed
<1>9. Alone'
  <2>1. Active' \subseteq {Run(s)}
    BY <1>0, <1>3, <1>5, Names DEF Active
  <2>2. ~Pending(starting)'
    BY <1>1 DEF Pending
  <2> QED BY <1>0, <1>1, <2>1, <2>2, Names DEF Alone
<1>10. \A d \in Submits \cup Resumes : (InFlight(d)' => InFlight(d)) /\ (InFlight(d) => d = s)
  BY ZenonT(60), <1>0, <1>2, <1>5, Names DEF InFlight, Commands, Control, OneByOne
<1>11. OneByOne' /\ Placed'
  BY <1>0, <1>5, <1>10, Names DEF OneByOne, Control, Placed
<1>12. ASSUME NEW r \in Submits PROVE Woken(r)' /\ Stage(r)'
  <2>1. /\ Woken(r) /\ r \in Tasks /\ Start(r) \in Launchers /\ Start(r) # Run(s)
        /\ Start(r) \in Tasks /\ r # Run(s) /\ Start(r) # s
    BY <1>0, Names DEF Control
  <2>2. CASE r = s
    BY <1>0, <1>1, <1>2, <1>5, <2>1, <2>2 DEF Woken, Stage
  <2>3. CASE r # s
    <3>1. at'[r] = at[r] /\ ~InFlight(r)
      BY <1>0, <1>5, <1>10, <2>1, <2>3, Names
    <3> QED BY <1>1, <1>4, <1>5, <2>1, <2>3, <3>1 DEF Woken, Stage, InFlight
  <2> QED BY <2>2, <2>3
<1>13. Before' => Before
  BY <1>0, <1>5, Names DEF Before
<1>14. Launching' = {} /\ Working' = {}
  BY <1>0, <1>3, <1>5, Names DEF Launching, Working
<1>15. \A c \in Resumes : ~InFlight(c)
  BY <1>10, CommandsAssumption
<1>16. \A c \in Resets : at'[c] = at[c]
  BY <1>0, <1>5, Names, CommandsAssumption DEF Commands
<1> QED BY <1>0, <1>1, <1>5, <1>7, <1>9, <1>11, <1>12, <1>13, <1>14, <1>15, <1>16 DEF Control

-----------------------------------------------------------------------------
(* What a step of a launcher changes of the session *)

LaunchPlaces == {"connects", "launches", "undoes", "fails"}
WorkPlaces == {"goal", "stops", "remembers"}

\* A step of t to p makes r of the session at hand.
Makes(t, p, r) ==
    /\ Changing = {}
    /\ session' = [session EXCEPT ![context] = r] /\ r \in Records
    /\ r.model = model
    /\ r.initialized => r.lock
    /\ r.mcp # None => r.initialized
    /\ agent' \in Models \cup {None} /\ (agent' # None => r.initialized /\ agent' = model)
    /\ of' \in [Tasks -> Nat] /\ by' \in [Runs -> Models \cup {None}]
    /\ p \in LaunchPlaces => of'[t] = context /\ r.lock /\ r.llm = model
    /\ p \in WorkPlaces /\ t \in Runs =>
          of'[t] = context /\ r.lock /\ r.initialized /\ r.current = t /\ by'[t] = model

\* Two tasks do not run at once.
LEMMA OneRuns == ASSUME Control, NEW t \in Active, NEW u \in Active PROVE t = u
BY Names DEF Control, Alone, Active, Pending, Launchers

\* A reset or a resume that waits has no launcher run, but for one that will be refused.
LEMMA NobodyChanges ==
    ASSUME Control, Sound, NEW t \in Active
    PROVE  \/ Changing = {}
           \/ t \in Runs /\ t = task /\ at[t] = "begin" /\ Here.initialized /\ agent = None
<1> SUFFICES ASSUME NEW c \in Changing
             PROVE  t \in Runs /\ t = task /\ at[t] = "begin" /\ Here.initialized /\ agent = None
  OBVIOUS
<1>1. ChangeIsSound(c) /\ c \in Commands
  BY DEF Sound, Changing, Commands
<1>2. t \in Runs /\ t = task
  BY <1>1, Names DEF ChangeIsSound, Control, Alone, Active, Pending, Launchers
<1>3. c \in Resets /\ at[t] = "begin"
  BY <1>1, <1>2, Names DEF ChangeIsSound, Active, Pending
<1>4. at[c] = "closes"
  BY <1>1, <1>3, CommandsAssumption DEF Control, Placed, Changing
<1> QED BY <1>1, <1>2, <1>3, <1>4 DEF ChangeIsSound

\* What Makes says of a step is enough for the rest of the session's invariant.
LEMMA SessionMade ==
    ASSUME Control, Sound, NEW t \in Active, NEW p, NEW r, Makes(t, p, r),
           at' = [at EXCEPT ![t] = p], UNCHANGED <<context, model, restored, switching>>
    PROVE  Sound'
<1>0. /\ t \in Launchers /\ t \in Tasks /\ DOMAIN at = Tasks /\ context \in 1..Len(session)
      /\ session \in Seq(Records)
  BY Names DEF Active, Control, Typed, Sound, RuntimeTyped
<1>1. \A d \in Tasks : at'[d] = IF d = t THEN p ELSE at[d]
  BY <1>0
<1>2. /\ session' \in Seq(Records) /\ Len(session') = Len(session)
      /\ session'[context] = r
  BY <1>0, ExceptSeq DEF Makes
<1>3. RuntimeTyped'
  BY <1>2 DEF RuntimeTyped, Sound, Makes
<1>4. HereIsSound'
  BY <1>2 DEF HereIsSound, Here, Makes
<1>5. /\ Launching' \subseteq {t} /\ (t \in Launching' => p \in LaunchPlaces)
      /\ Working' \subseteq {t} /\ (t \in Working' => p \in WorkPlaces /\ t \in Runs)
  <2>1. \A u \in Launchers : u # t => at[u] \in {"idle"} \cup Over /\ at'[u] = at[u]
    BY <1>0, <1>1, OneRuns, Names DEF Active
  <2> QED BY <1>0, <1>1, <2>1, Names DEF Launching, Working, LaunchPlaces, WorkPlaces, Over
<1>6. \A u \in Launching' : LaunchIsSound(u)'
  BY <1>2, <1>5 DEF LaunchIsSound, Here, Makes
<1>7. \A u \in Working' : InItsSession(u)'
  BY <1>2, <1>5 DEF InItsSession, Makes
<1>8. Changing' = {}
  <2>1. \A c \in Resets \cup Resumes : at'[c] = at[c]
    BY <1>0, <1>1, Names DEF Commands
  <2> QED BY <2>1 DEF Changing, Makes
<1> QED BY <1>3, <1>4, <1>6, <1>7, <1>8 DEF Sound

\* A launcher's step.
LEMMA LauncherStep ==
    ASSUME IInv, NEW t \in Launchers, at[t] \notin {"idle"} \cup Over,
           NEW p \in Places \ {"idle"}, NEW e, e = <<>> \/ (e = watchers[t] /\ p \in Over),
           ready # <<>>, Goes(t, p, e),
           UNCHANGED <<watchers, starting, task, context, model, restored, switching>>,
           Before /\ Sound => \E r : Makes(t, p, r)
    PROVE  IInv'
<1>1. Control' /\ (Before' => Before)
  BY LauncherMoves DEF IInv, Goes
<1>2. ASSUME Before' PROVE Sound'
  <2>1. Control /\ Before /\ Sound /\ t \in Active
    BY <1>1, <1>2 DEF IInv, Active
  <2>2. PICK r : Makes(t, p, r)
    BY <2>1
  <2> QED BY <2>1, <2>2, SessionMade DEF Goes
<1> QED BY <1>1, <1>2 DEF IInv

-----------------------------------------------------------------------------
(* The launchers *)

\* What is known of the session while a launcher runs.
LEMMA WhileItRuns ==
    ASSUME Control, Sound, NEW t \in Active
    PROVE  /\ Here \in Records /\ context \in 1..Len(session)
           /\ model \in Models /\ agent \in Models \cup {None} /\ None \notin Models
           /\ of \in [Tasks -> Nat] /\ by \in [Runs -> Models \cup {None}]
           /\ Here.model = model /\ (Here.initialized => Here.lock)
           /\ Here.mcp # None => Here.initialized
           /\ agent # None => Here.initialized /\ agent = model
           /\ at[t] # "begin" => Changing = {}
           /\ at[t] \in LaunchPlaces => of[t] = context /\ Here.lock /\ Here.llm = model
           /\ at[t] \in WorkPlaces /\ t \in Runs =>
                 of[t] = context /\ Here.lock /\ Here.initialized /\ Here.current = t /\ by[t] = model
<1>1. t \in Launchers
  BY DEF Active
<1>2. /\ Here \in Records /\ context \in 1..Len(session)
      /\ model \in Models /\ agent \in Models \cup {None} /\ None \notin Models
      /\ of \in [Tasks -> Nat] /\ by \in [Runs -> Models \cup {None}]
  BY ElementOfSeq, ModelsAssumption DEF Sound, RuntimeTyped, Here
<1>3. /\ Here.model = model /\ (Here.initialized => Here.lock)
      /\ Here.mcp # None => Here.initialized
      /\ agent # None => Here.initialized /\ agent = model
  BY DEF Sound, HereIsSound
<1>4. at[t] # "begin" => Changing = {}
  BY NobodyChanges
<1>5. at[t] \in LaunchPlaces => of[t] = context /\ Here.lock /\ Here.llm = model
  BY <1>1 DEF Sound, Launching, LaunchPlaces, LaunchIsSound
<1>6. at[t] \in WorkPlaces /\ t \in Runs =>
         of[t] = context /\ Here.lock /\ Here.initialized /\ Here.current = t /\ by[t] = model
  BY DEF Sound, Working, WorkPlaces, InItsSession, Here
<1> QED BY <1>2, <1>3, <1>4, <1>5, <1>6

\* Whose turn it is runs.
LEMMA LauncherTurn ==
    ASSUME IInv, NEW t \in Launchers, NEW p \in Places \ ({"idle"} \cup Over), Turn(t, p)
    PROVE  /\ ready # <<>> /\ at[t] = p /\ at[t] \notin {"idle"} \cup Over
           /\ t \in Active /\ Control /\ watchers[t] \in Seq(Entries)
BY AtTurn, Names DEF IInv, Active, Control, Typed

\* Chrome is there, or not in time: the session stays the launcher's.
LEMMA ConnectedKeeps == ASSUME IInv, NEW t \in Launchers, Connected(t) PROVE IInv'
<1>1. /\ ready # <<>> /\ at[t] = "connects" /\ at[t] \notin {"idle"} \cup Over
      /\ t \in Active /\ Control
  BY LauncherTurn DEF Connected, Places, Over
<1>2. UNCHANGED <<watchers, starting, task, switching, context, model, restored, agent, of, by>>
  BY DEF Connected, controllerVars, localVars
<1>3. CASE /\ SetSession(of[t], [session[of[t]] EXCEPT !.serving = @ \cup {t}])
           /\ Goes(t, "launches", <<>>)
  <2>1. ASSUME Before, Sound PROVE Makes(t, "launches", [Here EXCEPT !.serving = @ \cup {t}])
    BY <1>1, <1>2, <1>3, <2>1, WhileItRuns DEF Makes, SetSession, Here, Records, LaunchPlaces, WorkPlaces
  <2> QED BY <1>1, <1>2, <1>3, <2>1, LauncherStep DEF Places
<1>4. CASE /\ SetSession(of[t], [session[of[t]] EXCEPT !.chrome = FALSE])
           /\ Ends(t, "failed")
  <2>1. ASSUME Before, Sound PROVE Makes(t, "failed", [Here EXCEPT !.chrome = FALSE])
    BY <1>1, <1>2, <1>4, <2>1, WhileItRuns DEF Makes, SetSession, Here, Records, LaunchPlaces, WorkPlaces
  <2> QED BY <1>1, <1>2, <1>4, <2>1, LauncherStep DEF Places, Ends, Over
<1> QED BY <1>3, <1>4 DEF Connected

\* A step that leaves the session as it is.
LEMMA LauncherStays ==
    ASSUME IInv, NEW t \in Launchers, at[t] \notin {"idle"} \cup Over,
           NEW p \in Places \ {"idle"}, NEW e, e = <<>> \/ (e = watchers[t] /\ p \in Over),
           ready # <<>>, Goes(t, p, e), at[t] # "begin",
           p \in Over \/ (p \in LaunchPlaces /\ at[t] \in LaunchPlaces)
              \/ (p \in WorkPlaces /\ at[t] \in WorkPlaces),
           UNCHANGED <<watchers, starting, task, switching, context, model, restored, agent, of, by, session>>
    PROVE  IInv'
<1>1. ASSUME Before, Sound PROVE Makes(t, p, Here)
  <2>1. t \in Active /\ Control
    BY DEF Active, IInv
  <2>2. session' = [session EXCEPT ![context] = Here]
    BY <1>1 DEF Sound, RuntimeTyped, Here
  <2> QED BY <1>1, <2>1, <2>2, WhileItRuns DEF Makes, LaunchPlaces, WorkPlaces, Over
<1> QED BY <1>1, LauncherStep

\* The MCP pool does not come up: the start cleans up, under its lock.
LEMMA LaunchFailsKeeps == ASSUME IInv, NEW t \in Launchers, LaunchFails(t) PROVE IInv'
<1>1. /\ ready # <<>> /\ at[t] = "launches" /\ at[t] \notin {"idle"} \cup Over
      /\ Goes(t, "fails", <<>>)
  BY LauncherTurn DEF LaunchFails, Places, Over
<1>2. UNCHANGED <<watchers, starting, task, switching, context, model, restored, agent, of, by, session>>
  BY DEF LaunchFails, controllerVars, localVars, runtimeVars
<1> QED BY <1>1, <1>2, LauncherStays DEF Places, LaunchPlaces

\* The clean-up of a start ends it.
LEMMA UndoneKeeps == ASSUME IInv, NEW t \in Launchers, Undone(t) PROVE IInv'
<1>1. PICK p \in {"undoes", "fails"} :
         Turn(t, p) /\ Ends(t, IF p = "undoes" THEN "cancelled" ELSE "failed")
  BY DEF Undone
<1>2. /\ ready # <<>> /\ at[t] = p /\ at[t] \notin {"idle"} \cup Over
      /\ t \in Active /\ Control
  BY <1>1, LauncherTurn DEF Places, Over
<1>3. /\ UNCHANGED <<watchers, starting, task, switching, context, model, restored, agent, of, by>>
      /\ SetSession(of[t], [session[of[t]] EXCEPT !.serving = @ \ {t}, !.chrome = FALSE])
  BY DEF Undone, controllerVars, localVars
<1> DEFINE q == IF p = "undoes" THEN "cancelled" ELSE "failed"
<1>4. q \in Over /\ q \in Places \ {"idle"} /\ q \notin LaunchPlaces \cup WorkPlaces
  BY DEF Over, Places, LaunchPlaces, WorkPlaces
<1>5. Goes(t, q, watchers[t])
  BY <1>1 DEF Ends
<1> HIDE DEF q
<1>6. ASSUME Before, Sound PROVE Makes(t, q, [Here EXCEPT !.serving = @ \ {t}, !.chrome = FALSE])
  <2>1. at[t] \in LaunchPlaces /\ at[t] # "begin"
    BY <1>2 DEF LaunchPlaces
  <2> QED BY <1>2, <1>3, <1>4, <1>6, <2>1, WhileItRuns DEF Makes, SetSession, Here, Records
<1> QED BY <1>2, <1>3, <1>4, <1>5, <1>6, LauncherStep

\* A launcher is over, and leaves everything as it is: whatever waits may go on.
LEMMA LauncherEnds ==
    ASSUME Control, Sound, NEW t \in Active, NEW p \in Over, at' = [at EXCEPT ![t] = p],
           UNCHANGED <<starting, task, switching, context, model, restored, agent, of, by, session>>
    PROVE  Sound'
<1>0. t \in Launchers /\ t \in Tasks /\ DOMAIN at = Tasks
  BY Names DEF Active, Control, Typed
<1>1. \A d \in Tasks : at'[d] = IF d = t THEN p ELSE at[d]
  BY <1>0
<1>2. Launching' \subseteq Launching /\ Working' \subseteq Working
  BY <1>0, <1>1, Names DEF Launching, Working, Over
<1>3. /\ Changing' = Changing /\ \A c \in Changing : at'[c] = at[c]
  <2>1. \A c \in Resets \cup Resumes : at'[c] = at[c]
    BY <1>0, <1>1, Names DEF Commands
  <2> QED BY <2>1 DEF Changing
<1>4. /\ Pending(starting)' => Pending(starting)
      /\ Pending(task)' => Pending(task) /\ at'[task] = at[task]
  BY <1>0, <1>1, Names DEF Pending, Control, Typed
<1>5. RuntimeTyped' /\ HereIsSound'
  BY DEF Sound, RuntimeTyped, HereIsSound, Here
<1>6. \A u \in Launching' : LaunchIsSound(u)'
  BY <1>2 DEF Sound, LaunchIsSound, Here
<1>7. \A u \in Working' : InItsSession(u)'
  BY <1>2 DEF Sound, InItsSession
<1>8. \A c \in Changing' : ChangeIsSound(c)'
  BY <1>3, <1>4 DEF Sound, ChangeIsSound, Here
<1>9. \A c, d \in Changing' : c = d
  BY <1>3 DEF Sound
<1> QED BY <1>5, <1>6, <1>7, <1>8, <1>9 DEF Sound

\* A cancelled start ends, or cleans up first; a run that is cancelled before it began
\* leaves a reset that waits as it is.
LEMMA CutLaunchKeeps == ASSUME IInv, NEW t \in Launchers, CutLaunch(t) PROVE IInv'
<1>1. UNCHANGED <<watchers, starting, task, switching, context, model, restored, agent, of, by>>
  BY DEF CutLaunch, controllerVars, localVars
<1>2. CASE Turn(t, "begin") /\ Ends(t, "cancelled") /\ UNCHANGED session
  <2>1. /\ ready # <<>> /\ at[t] = "begin" /\ at[t] \notin {"idle"} \cup Over /\ t \in Active /\ Control
        /\ Goes(t, "cancelled", watchers[t])
    BY <1>2, LauncherTurn DEF Places, Over, Ends
  <2>2. Control' /\ (Before' => Before)
    BY <1>1, <2>1, LauncherMoves DEF Goes, Places, Over
  <2>3. ASSUME Before' PROVE Sound'
    <3>1. Sound
      BY <2>2, <2>3 DEF IInv
    <3> QED BY <1>1, <1>2, <2>1, <3>1, LauncherEnds DEF Goes, Over
  <2> QED BY <2>2, <2>3 DEF IInv
<1>3. CASE /\ Turn(t, "connects") /\ Ends(t, "cancelled")
           /\ SetSession(of[t], [session[of[t]] EXCEPT !.chrome = FALSE])
  <2>1. /\ ready # <<>> /\ at[t] = "connects" /\ at[t] \notin {"idle"} \cup Over /\ t \in Active /\ Control
        /\ Goes(t, "cancelled", watchers[t])
    BY <1>3, LauncherTurn DEF Places, Over, Ends
  <2>2. ASSUME Before, Sound PROVE Makes(t, "cancelled", [Here EXCEPT !.chrome = FALSE])
    BY <1>1, <1>3, <2>1, <2>2, WhileItRuns DEF Makes, SetSession, Here, Records, LaunchPlaces, WorkPlaces
  <2> QED BY <1>1, <2>1, <2>2, LauncherStep DEF Places, Over
<1>4. CASE Turn(t, "launches") /\ Goes(t, "undoes", <<>>) /\ UNCHANGED session
  <2>1. /\ ready # <<>> /\ at[t] = "launches" /\ at[t] \notin {"idle"} \cup Over
    BY <1>4, LauncherTurn DEF Places, Over
  <2> QED BY <1>1, <1>4, <2>1, LauncherStays DEF Places, LaunchPlaces
<1>5. CASE (Turn(t, "undoes") \/ Turn(t, "fails")) /\ Ends(t, "cancelled") /\ UNCHANGED session
  <2>1. /\ ready # <<>> /\ at[t] \in {"undoes", "fails"} /\ at[t] \notin {"idle"} \cup Over
        /\ Goes(t, "cancelled", watchers[t])
    BY <1>5, LauncherTurn DEF Places, Over, Ends
  <2> QED BY <1>1, <1>5, <2>1, LauncherStays DEF Places, Over
<1> QED BY <1>2, <1>3, <1>4, <1>5 DEF CutLaunch

\* The end of a task: its record is closed.
LEMMA TaskEnds ==
    ASSUME IInv, NEW t \in Launchers, NEW p \in WorkPlaces, Turn(t, p), NEW how \in Over, Ends(t, how),
           SetSession(context, [session[context] EXCEPT !.current = None]),
           UNCHANGED <<watchers, starting, task, switching, context, model, restored, agent, of, by>>
    PROVE  IInv'
<1>1. /\ ready # <<>> /\ at[t] = p /\ at[t] \notin {"idle"} \cup Over /\ at[t] # "begin"
      /\ t \in Active /\ Control
  BY LauncherTurn DEF Places, Over, WorkPlaces
<1>2. how \in Places \ {"idle"} /\ how \notin LaunchPlaces \cup WorkPlaces
  BY DEF Places, Over, LaunchPlaces, WorkPlaces
<1>3. ASSUME Before, Sound PROVE Makes(t, how, [Here EXCEPT !.current = None])
  BY <1>1, <1>2, <1>3, WhileItRuns DEF Makes, SetSession, Here, Records
<1> QED BY <1>1, <1>2, <1>3, LauncherStep DEF Ends

\* The goal's end closes the record, or goes on to the memory with the record open.
LEMMA GoalOverKeeps == ASSUME IInv, NEW t \in Launchers, GoalOver(t) PROVE IInv'
<1>1. Turn(t, "goal") /\ ready # <<>> /\ at[t] = "goal" /\ at[t] \notin {"idle"} \cup Over
  BY LauncherTurn DEF GoalOver, Places, Over
<1>2. UNCHANGED <<watchers, starting, task, switching, context, model, restored, agent, of, by>>
  BY DEF GoalOver, controllerVars, localVars
<1>3. CASE Goes(t, "remembers", <<>>) /\ UNCHANGED session
  BY <1>1, <1>2, <1>3, LauncherStays DEF Places, WorkPlaces
<1>4. CASE /\ \E how \in {"done", "failed"} : Ends(t, how)
           /\ SetSession(context, [session[context] EXCEPT !.current = None])
  BY <1>1, <1>2, <1>4, TaskEnds DEF WorkPlaces, Over
<1> QED BY <1>3, <1>4 DEF GoalOver

\* A cancelled goal goes on in its session until it has stopped.
LEMMA CutGoalKeeps == ASSUME IInv, NEW t \in Launchers, CutGoal(t) PROVE IInv'
<1>1. /\ ready # <<>> /\ at[t] = "goal" /\ at[t] \notin {"idle"} \cup Over
      /\ Goes(t, "stops", <<>>)
  BY LauncherTurn DEF CutGoal, Places, Over
<1>2. UNCHANGED <<watchers, starting, task, switching, context, model, restored, agent, of, by, session>>
  BY DEF CutGoal, controllerVars, localVars, runtimeVars
<1> QED BY <1>1, <1>2, LauncherStays DEF Places, WorkPlaces

\* finish_task and cancel_task close the record of the task that ends.
LEMMA FinishTaskKeeps == ASSUME IInv, NEW t \in Launchers, FinishTask(t) PROVE IInv'
<1>1. PICK p \in {"stops", "remembers"} :
         Turn(t, p) /\ Ends(t, IF p = "stops" \/ t \in cut THEN "cancelled" ELSE "done")
  BY DEF FinishTask
<1>2. UNCHANGED <<watchers, starting, task, switching, context, model, restored, agent, of, by>>
  BY DEF FinishTask, controllerVars, localVars
<1>3. SetSession(context, [session[context] EXCEPT !.current = None])
  BY DEF FinishTask
<1>4. \E how \in Over : Ends(t, how)
  BY <1>1 DEF Over
<1> QED BY <1>1, <1>2, <1>3, <1>4, TaskEnds DEF WorkPlaces

\* The record of a task is opened.
LEMMA RecordOpened ==
    ASSUME NEW r \in Records, NEW t \in Runs
    PROVE  LET opened == [r EXCEPT !.current = t, !.tasks = @ + 1]
           IN  /\ opened \in Records /\ opened.current = t
               /\ opened.model = r.model /\ opened.lock = r.lock /\ opened.initialized = r.initialized
               /\ opened.mcp = r.mcp
<1>1. r.tasks + 1 \in Nat
  <2>1. r.tasks \in Nat
    BY DEF Records
  <2> QED BY <2>1
<1> DEFINE n == r.tasks + 1
<1>2. n \in Nat
  BY <1>1
<1> HIDE DEF n
<1>3. LET opened == [r EXCEPT !.current = t, !.tasks = n]
      IN  /\ opened \in Records /\ opened.current = t
          /\ opened.model = r.model /\ opened.lock = r.lock /\ opened.initialized = r.initialized
          /\ opened.mcp = r.mcp
  BY <1>2 DEF Records
<1> QED BY <1>3 DEF n

\* A launcher begins: it uses the session that was started, starts it, or is refused
\* because a reset that waits has taken the agent.
LEMMA BeginLauncherKeeps == ASSUME IInv, NEW t \in Launchers, BeginLauncher(t) PROVE IInv'
<1>1. /\ ready # <<>> /\ at[t] = "begin" /\ at[t] \notin {"idle"} \cup Over
      /\ t \in Active /\ Control
  BY LauncherTurn DEF BeginLauncher, Places, Over
<1>2. UNCHANGED <<watchers, starting, task, switching, context, model, restored, agent>>
  BY DEF BeginLauncher, controllerVars
<1>3. /\ \A p \in {"done", "failed"} : p \in Places \ {"idle"} /\ p \in Over
      /\ \A p \in {"goal", "connects"} : p \in Places \ {"idle"}
  BY DEF Places, Over
\* It ends at once: the session was started before, or its files cannot be written.
<1>4. CASE /\ SetSession(context, Here) /\ (Ends(t, "done") \/ Ends(t, "failed"))
           /\ UNCHANGED <<of, by>>
  <2>1. PICK how \in {"done", "failed"} : Goes(t, how, watchers[t])
    BY <1>4 DEF Ends
  <2>2. Control' /\ (Before' => Before)
    BY <1>1, <1>2, <1>3, <2>1, LauncherMoves DEF Goes
  <2>3. ASSUME Before' PROVE Sound'
    <3>1. Sound
      BY <2>2, <2>3 DEF IInv
    <3>2. UNCHANGED session
      BY <1>4, <3>1 DEF SetSession, Here, Sound, RuntimeTyped
    <3> QED BY <1>1, <1>2, <1>3, <1>4, <2>1, <3>1, <3>2, LauncherEnds DEF Goes
  <2> QED BY <2>2, <2>3 DEF IInv
\* It is tracked.
<1>5. CASE /\ Here.initialized /\ t \in Runs /\ agent # None
           /\ SetSession(context, [Here EXCEPT !.current = t, !.tasks = @ + 1])
           /\ of' = [of EXCEPT ![t] = context] /\ by' = [by EXCEPT ![t] = agent]
           /\ Goes(t, "goal", <<>>)
  <2>1. ASSUME Before, Sound
        PROVE  Makes(t, "goal", [Here EXCEPT !.current = t, !.tasks = @ + 1])
    <3>1. Changing = {}
      BY <1>1, <1>5, <2>1, NobodyChanges
    <3>2. of' \in [Tasks -> Nat] /\ of'[t] = context /\ by' \in [Runs -> Models \cup {None}] /\ by'[t] = agent
      BY <1>1, <1>5, <2>1, WhileItRuns, Names
    <3> DEFINE r == [Here EXCEPT !.current = t, !.tasks = @ + 1]
    <3>3. /\ r \in Records /\ r.current = t /\ r.model = Here.model /\ r.lock = Here.lock
          /\ r.initialized = Here.initialized /\ r.mcp = Here.mcp
      BY <1>1, <1>5, <2>1, WhileItRuns, RecordOpened
    <3>4. session' = [session EXCEPT ![context] = r]
      BY <1>5 DEF SetSession
    <3> HIDE DEF r
    <3>5. Makes(t, "goal", r)
      BY <1>1, <1>2, <1>5, <2>1, <3>1, <3>2, <3>3, <3>4, WhileItRuns DEF Makes, LaunchPlaces
    <3> QED BY <3>5 DEF r
  <2> QED BY <1>1, <1>2, <1>3, <1>5, <2>1, LauncherStep
\* It starts the session.
<1>6. CASE /\ ~Here.initialized /\ of' = [of EXCEPT ![t] = context] /\ UNCHANGED by
           /\ SetSession(context, [Here EXCEPT !.lock = TRUE, !.chrome = TRUE, !.llm = Here.model])
           /\ Goes(t, "connects", <<>>)
  <2>1. ASSUME Before, Sound
        PROVE  Makes(t, "connects", [Here EXCEPT !.lock = TRUE, !.chrome = TRUE, !.llm = Here.model])
    <3>1. Changing = {}
      BY <1>1, <1>6, <2>1, NobodyChanges
    <3>2. of' \in [Tasks -> Nat] /\ of'[t] = context /\ by' = by
      BY <1>1, <1>6, <2>1, WhileItRuns, Names
    <3> QED BY <1>1, <1>2, <1>6, <2>1, <3>1, <3>2, WhileItRuns
            DEF Makes, SetSession, Records, WorkPlaces
  <2> QED BY <1>1, <1>2, <1>3, <1>6, <2>1, LauncherStep
<1>7. CASE /\ ~Here.initialized /\ of' = [of EXCEPT ![t] = context] /\ UNCHANGED by
           /\ \E locked \in {Here.lock, TRUE} : SetSession(context, [Here EXCEPT !.lock = locked])
           /\ Ends(t, "failed")
  <2>1. PICK locked \in {Here.lock, TRUE} : SetSession(context, [Here EXCEPT !.lock = locked])
    BY <1>7
  <2>2. ASSUME Before, Sound PROVE Makes(t, "failed", [Here EXCEPT !.lock = locked])
    <3>1. Changing = {}
      BY <1>1, <1>7, <2>2, NobodyChanges
    <3>2. of' \in [Tasks -> Nat] /\ by' = by
      BY <1>1, <1>7, <2>2, WhileItRuns, Names
    <3> QED BY <1>1, <1>2, <1>7, <2>1, <2>2, <3>1, <3>2, WhileItRuns
            DEF Makes, SetSession, Records, LaunchPlaces, WorkPlaces
  <2> QED BY <1>1, <1>2, <1>3, <1>7, <2>2, LauncherStep DEF Ends
<1>8. CASE Here.initialized
  BY <1>4, <1>5, <1>8, Names DEF BeginLauncher, Started, Track, Here, Launchers
<1>9. CASE ~Here.initialized
  BY <1>6, <1>7, <1>9 DEF BeginLauncher, Launch, Here
<1> QED BY <1>8, <1>9

\* The session is started, with an agent of the model chosen last.
LEMMA LaunchedKeeps == ASSUME IInv, NEW t \in Launchers, Launched(t) PROVE IInv'
<1> DEFINE s == [session[of[t]] EXCEPT !.mcp = t, !.initialized = TRUE]
<1>1. /\ ready # <<>> /\ at[t] = "launches" /\ at[t] \notin {"idle"} \cup Over
      /\ t \in Active /\ Control
  BY LauncherTurn DEF Launched, Places, Over
<1>2. UNCHANGED <<watchers, starting, task, switching, context, model, restored>>
  BY DEF Launched, controllerVars
<1>3. \A p \in {"done", "failed"} : p \in Places \ {"idle"} /\ p \in Over
                                    /\ p \notin LaunchPlaces \cup WorkPlaces
  BY DEF Places, Over, LaunchPlaces, WorkPlaces
<1>4. ASSUME Before, Sound
      PROVE  /\ of[t] = context /\ s \in Records /\ s.model = model /\ s.initialized /\ s.lock
             /\ s.llm = model /\ s.mcp = t
             /\ [s EXCEPT !.current = t, !.tasks = @ + 1] \in Records \/ t \notin Runs
             /\ Changing = {} /\ of \in [Tasks -> Nat] /\ by \in [Runs -> Models \cup {None}]
             /\ model \in Models /\ model # None /\ agent \in Models \cup {None}
             /\ agent # None => agent = model
  <2>1. at[t] \in LaunchPlaces /\ at[t] # "begin"
    BY <1>1 DEF LaunchPlaces
  <2>2. of[t] = context /\ Here \in Records /\ Here.lock /\ Here.llm = model /\ Here.model = model
    BY <1>1, <1>4, <2>1, WhileItRuns
  <2>3. s \in Records /\ s.model = model /\ s.initialized /\ s.lock /\ s.llm = model /\ s.mcp = t
    BY <2>2 DEF Here, Records
  <2>4. [s EXCEPT !.current = t, !.tasks = @ + 1] \in Records \/ t \notin Runs
    BY <2>3, RecordOpened
  <2> QED BY <1>1, <1>4, <2>1, <2>2, <2>3, <2>4, WhileItRuns
<1> HIDE DEF s
\* It ends: the session was to be started, and is, or its files cannot be written.
<1>5. CASE /\ SetSession(of[t], s) \/ SetSession(context, s)
           /\ Ends(t, "done") \/ Ends(t, "failed")
           /\ UNCHANGED <<of, by>> /\ (agent' = agent \/ agent' = s.llm)
  <2>1. PICK how \in {"done", "failed"} : Goes(t, how, watchers[t])
    BY <1>5 DEF Ends
  <2>2. ASSUME Before, Sound PROVE Makes(t, how, s)
    BY <1>2, <1>3, <1>4, <1>5, <2>2 DEF Makes, SetSession
  <2> QED BY <1>1, <1>2, <1>3, <2>1, <2>2, LauncherStep
\* The task is tracked.
<1>6. CASE /\ t \in Runs /\ agent' = s.llm
           /\ SetSession(context, [s EXCEPT !.current = t, !.tasks = @ + 1])
           /\ of' = [of EXCEPT ![t] = context] /\ by' = [by EXCEPT ![t] = s.llm]
           /\ Goes(t, "goal", <<>>)
  <2> DEFINE r == [s EXCEPT !.current = t, !.tasks = @ + 1]
  <2>1. ASSUME Before, Sound PROVE Makes(t, "goal", r)
    <3>1. /\ of' \in [Tasks -> Nat] /\ of'[t] = context
          /\ by' \in [Runs -> Models \cup {None}] /\ by'[t] = model
      BY <1>4, <1>6, <2>1, Names DEF Sound, RuntimeTyped
    <3>2. r \in Records /\ r.model = model /\ r.initialized /\ r.lock /\ r.current = t
      BY <1>4, <1>6, <2>1, RecordOpened
    <3>3. session' = [session EXCEPT ![context] = r]
      BY <1>6 DEF SetSession
    <3> HIDE DEF r
    <3> QED BY <1>2, <1>4, <1>6, <2>1, <3>1, <3>2, <3>3 DEF Makes, LaunchPlaces
  <2> QED BY <1>1, <1>2, <1>6, <2>1, LauncherStep DEF Places
<1>7. CASE agent' = s.llm /\ Started(t, s, s.llm)
  BY <1>5, <1>6, <1>7, Names DEF Started, Track, Launchers
<1>8. CASE Fails /\ SetSession(of[t], s) /\ Ends(t, "failed") /\ UNCHANGED <<agent, of, by>>
  BY <1>5, <1>8
<1> QED BY <1>7, <1>8 DEF Launched, s

-----------------------------------------------------------------------------
(* The commands that leave the session alone, and the queue *)

runtimeFrame == <<session, context, model, agent, of, by, restored, switching>>

\* Nothing starts, ends or changes.
LEMMA StillSound ==
    ASSUME Control, Sound, UNCHANGED runtimeFrame, task' = task, starting' \in {starting, None},
           \A t \in Launchers : at'[t] = at[t],
           \A c \in Resets \cup Resumes : at'[c] \in {"picks", "closes"} => at'[c] = at[c]
    PROVE  Sound'
<1>1. Launching' = Launching /\ Working' = Working
  BY Names DEF Launching, Working
<1>2. Changing' \subseteq Changing /\ \A c \in Changing' : at'[c] = at[c]
  BY DEF Changing
<1>3. /\ Pending(starting)' => Pending(starting)
      /\ Pending(task)' => Pending(task) /\ at'[task] = at[task]
  BY Names DEF Pending, Control, Typed
<1>4. RuntimeTyped' /\ HereIsSound'
  BY DEF Sound, RuntimeTyped, HereIsSound, Here, runtimeFrame
<1>5. \A u \in Launching' : LaunchIsSound(u)'
  BY <1>1 DEF Sound, LaunchIsSound, Here, runtimeFrame
<1>6. \A u \in Working' : InItsSession(u)'
  BY <1>1 DEF Sound, InItsSession, runtimeFrame
<1>7. \A c \in Changing' : ChangeIsSound(c)'
  BY <1>2, <1>3 DEF Sound, ChangeIsSound, Here, runtimeFrame
<1>8. \A c, d \in Changing' : c = d
  BY <1>2 DEF Sound
<1> QED BY <1>4, <1>5, <1>6, <1>7, <1>8 DEF Sound

\* A single entry.
LEMMA OneEntry ==
    ASSUME NEW c \in Tasks, NEW n \in {0, 1}
    PROVE  <<<<c, n>>>> \in Seq(Entries) /\ \A t : In(t, <<<<c, n>>>>) => t = c
<1>1. <<c, n>> \in Entries
  BY DEF Entries
<1> QED BY <1>1 DEF In

\* A command's step, the session aside.
LEMMA CommandStep ==
    ASSUME IInv, NEW c \in Commands, InFlight(c),
           NEW p \in {"waits", "returns", "ended", "tracks", "unwinds", "reconnects"},
           p = "unwinds" => starting' = starting /\ starting = Start(c) /\ at[Start(c)] \in Over,
           ready # <<>>, NEW e \in Seq(Entries), \A s \in Submits : In(s, e) => s = c,
           Goes(c, p, e), Watched,
           starting' = starting \/ (starting' = None /\ c \in Submits /\ ~Pending(starting)),
           UNCHANGED <<task, runtimeFrame>>
    PROVE  IInv'
<1>1. p \in Places \ {"idle", "begin", "shields"} /\ p # "closes" /\ p # "picks"
  BY DEF Places
<1>2. Control' /\ (Before' => Before)
  BY <1>1, CommandMoves DEF IInv, Goes
<1>3. ASSUME Before' PROVE Sound'
  <2>1. Sound /\ Control
    BY <1>2, <1>3 DEF IInv
  <2>2. \A d \in Tasks : at'[d] = IF d = c THEN p ELSE at[d]
    BY <2>1 DEF Goes, Control, Typed
  <2>3. /\ \A t \in Launchers : at'[t] = at[t]
        /\ \A d \in Resets \cup Resumes : at'[d] \in {"picks", "closes"} => at'[d] = at[d]
    BY <1>1, <2>2, Names DEF Commands
  <2> QED BY <2>1, <2>3, StillSound
<1> QED BY <1>2, <1>3 DEF IInv

\* A command returns.
LEMMA ReturnsStep ==
    ASSUME IInv, NEW c \in Commands, NEW p \in Places \ {"idle", "ended"}, Turn(c, p), Returns(c),
           starting' = starting \/ (starting' = None /\ c \in Submits /\ ~Pending(starting)),
           UNCHANGED <<watchers, task, runtimeFrame>>
    PROVE  IInv'
<1>1. ready # <<>> /\ InFlight(c) /\ c \in Tasks /\ Watched
  BY AtTurn, Names, SameWatchers DEF IInv, InFlight
<1> QED BY <1>1, OneEntry, CommandStep DEF Returns

\* A command that finds the controller busy returns.
LEMMA RefuseKeeps == ASSUME IInv, NEW c \in Commands, Refuse(c) PROVE IInv'
BY ReturnsStep DEF Refuse, Places, controllerVars, runtimeVars, localVars, runtimeFrame

\* A cancel that has waited returns.
LEMMA WaitedKeeps == ASSUME IInv, NEW c \in Commands, Waited(c) PROVE IInv'
BY ReturnsStep DEF Waited, Places, controllerVars, runtimeVars, localVars, runtimeFrame

\* A reconnect returns.
LEMMA ReconnectedKeeps == ASSUME IInv, NEW c \in Commands, Reconnected(c) PROVE IInv'
BY ReturnsStep DEF Reconnected, Places, controllerVars, runtimeVars, localVars, runtimeFrame

\* A command has returned.
LEMMA ReturnedKeeps == ASSUME IInv, NEW c \in Commands, Returned(c) PROVE IInv'
<1>1. ready # <<>> /\ InFlight(c) /\ Watched
  BY AtTurn, Names, SameWatchers DEF IInv, InFlight, Returned
<1>2. Goes(c, "ended", <<>>) /\ UNCHANGED <<starting, task, runtimeFrame>>
  BY DEF Returned, controllerVars, runtimeVars, localVars, runtimeFrame
<1> QED BY <1>1, <1>2, NoEntry, CommandStep

\* The loop stops.
LEMMA StopKeeps == ASSUME IInv, Stop PROVE IInv'
<1>1. ready # <<>> /\ InFlight(stop) /\ Watched /\ stop \in Commands
  BY AtTurn, Names, SameWatchers DEF IInv, InFlight, Stop
<1>2. Goes(stop, "ended", <<>>) /\ UNCHANGED <<starting, task, runtimeFrame>>
  BY DEF Stop, controllerVars, runtimeVars, localVars, runtimeFrame
<1> QED BY <1>1, <1>2, NoEntry, CommandStep

\* A reconnect waits without a flag, and takes nothing from anybody.
LEMMA ReconnectKeeps == ASSUME IInv, NEW c \in Commands, Reconnect(c) PROVE IInv'
<1>1. ready # <<>> /\ InFlight(c) /\ Watched /\ Turn(c, "begin")
  BY AtTurn, Names, SameWatchers DEF IInv, InFlight, Reconnect
<1>2. UNCHANGED <<watchers, starting, task, runtimeFrame>>
  BY DEF Reconnect, controllerVars, runtimeVars, localVars, runtimeFrame
<1>3. CASE Returns(c)
  BY <1>1, <1>2, <1>3, ReturnsStep DEF Places
<1>4. CASE Goes(c, "reconnects", <<>>)
  BY <1>1, <1>2, <1>4, NoEntry, CommandStep
<1> QED BY <1>3, <1>4 DEF Reconnect

\* submit polls for its task.
LEMMA PollKeeps == ASSUME IInv, NEW s \in Submits, Poll(s) PROVE IInv'
<1>1. ready # <<>> /\ InFlight(s) /\ Watched /\ Turn(s, "tracks") /\ s \in Commands /\ s \in Tasks
  BY AtTurn, Names, SameWatchers DEF IInv, InFlight, Poll
<1>2. UNCHANGED <<watchers, starting, task, runtimeFrame>>
  BY DEF Poll, controllerVars, runtimeVars, localVars, runtimeFrame
<1>3. CASE Returns(s)
  BY <1>1, <1>2, <1>3, ReturnsStep DEF Places
<1>4. CASE Goes(s, "tracks", << <<s, 0>> >>)
  BY <1>1, <1>2, <1>4, OneEntry, CommandStep
<1> QED BY <1>3, <1>4 DEF Poll

\* A submit whose start was cancelled lets it go: it is over by then.
LEMMA UnwoundKeeps == ASSUME IInv, NEW s \in Submits, Unwound(s) PROVE IInv'
<1>1. Turn(s, "unwinds") /\ at[s] = "unwinds" /\ s \in Commands
  BY AtTurn, Names DEF IInv, Unwound
<1>2. ~Pending(starting)
  BY <1>1, Names DEF IInv, Control, Stage, Pending
<1> QED BY <1>1, <1>2, ReturnsStep
        DEF Unwound, Places, runtimeVars, localVars, runtimeFrame

\* The end of a start reaches submit.
LEMMA ShieldedKeeps == ASSUME IInv, NEW s \in Submits, Shielded(s) PROVE IInv'
<1>1. /\ ready # <<>> /\ InFlight(s) /\ Watched /\ Turn(s, "shields") /\ at[s] = "shields"
      /\ s \in Commands /\ s \in Tasks /\ In(s, ready)
  BY AtTurn, Names, SameWatchers DEF IInv, InFlight, Shielded
<1>2. starting = Start(s) /\ at[Start(s)] \in Over /\ ~Pending(starting)
  BY <1>1 DEF IInv, Control, Woken, Stage, Pending
<1>3. UNCHANGED <<watchers, runtimeFrame>>
  BY DEF Shielded, runtimeVars, runtimeFrame
<1>4. CASE at[Start(s)] = "cancelled"
  <2>1. Goes(s, "unwinds", << <<s, 1>> >>) /\ UNCHANGED <<starting, task>>
    BY <1>4 DEF Shielded
  <2> QED BY <1>1, <1>2, <1>3, <2>1, OneEntry, CommandStep
<1>5. CASE at[Start(s)] = "failed"
  <2>1. starting' = None /\ Returns(s) /\ task' = task
    BY <1>5 DEF Shielded
  <2> QED BY <1>1, <1>2, <1>3, <2>1, ReturnsStep DEF Places
<1>6. CASE at[Start(s)] \notin {"cancelled", "failed"}
  <2>1. /\ Control' /\ (Before' => Before)
        /\ task' = Run(s) /\ at'[Run(s)] = "begin" /\ starting' = None
        /\ Launching' = {} /\ Working' = {}
        /\ \A c \in Resumes : ~InFlight(c)
        /\ \A c \in Resets : at'[c] = at[c]
        /\ at' = [at EXCEPT ![s] = "tracks", ![Run(s)] = "begin"]
    BY <1>6, RunBegins DEF IInv, Shielded
  <2>2. ASSUME Before' PROVE Sound'
    <3>1. Sound
      BY <2>1, <2>2 DEF IInv
    <3>2. RuntimeTyped' /\ HereIsSound'
      BY <1>3, <3>1 DEF Sound, RuntimeTyped, HereIsSound, Here, runtimeFrame
    <3>3. Changing' = Changing /\ \A c \in Changing : at'[c] = at[c] /\ c \in Resets
      <4>1. \A c \in Resumes : at'[c] = at[c]
        BY <2>1, <1>1, Names, CommandsAssumption DEF IInv, Control, Typed, Commands
      <4>2. \A c \in Resumes : at[c] \notin {"picks", "closes"}
        BY <2>1 DEF InFlight
      <4> QED BY <2>1, <4>1, <4>2 DEF Changing
    <3>4. \A c \in Changing' : ChangeIsSound(c)'
      BY <1>3, <2>1, <3>1, <3>3, CommandsAssumption DEF Sound, ChangeIsSound, Here, runtimeFrame, Pending
    <3>5. \A c, d \in Changing' : c = d
      BY <3>1, <3>3 DEF Sound
    <3> QED BY <2>1, <3>2, <3>4, <3>5 DEF Sound
  <2> QED BY <2>1, <2>2 DEF IInv
<1> QED BY <1>4, <1>5, <1>6

\* submit: no reset or resume waits when it finds the controller not busy.
LEMMA SubmitKeeps == ASSUME IInv, NEW s \in Submits, Submit(s) PROVE IInv'
<1>1. /\ Control' /\ (Before' => Before)
      /\ Launching' = {} /\ Working' = {}
  BY SubmitStarts DEF IInv
<1>2. /\ ~Busy /\ UNCHANGED runtimeFrame
      /\ at' = [at EXCEPT ![s] = "shields", ![Start(s)] = "begin"]
  BY DEF Submit, runtimeVars, localVars, runtimeFrame
<1>3. ASSUME Before' PROVE Sound'
  <2>1. Sound /\ Control
    BY <1>1, <1>3 DEF IInv
  <2>2. RuntimeTyped' /\ HereIsSound'
    BY <1>2, <2>1 DEF Sound, RuntimeTyped, HereIsSound, Here, runtimeFrame
  <2>3. Changing' = {}
    <3>1. Changing = {}
      BY <1>2, <2>1 DEF Sound, ChangeIsSound, Busy
    <3>2. \A c \in Resets \cup Resumes : at'[c] = at[c]
      BY <1>2, <2>1, Names, CommandsAssumption DEF Control, Typed, Commands
    <3> QED BY <3>1, <3>2 DEF Changing
  <2> QED BY <1>1, <2>2, <2>3 DEF Sound
<1> QED BY <1>1, <1>3 DEF IInv

\* Cancelling a launcher, and waiting for it.
LEMMA CancelAndWaitStep ==
    ASSUME IInv, NEW c \in Commands, c \notin Submits, NEW t \in Launchers, NEW n \in {0, 1},
           Turn(c, "begin"), CancelAndWait(c, t, n), UNCHANGED <<starting, task, runtimeFrame>>
    PROVE  IInv'
<1>1. ready # <<>> /\ InFlight(c) /\ c \in Tasks /\ t \in Tasks
  BY AtTurn, Names DEF IInv, InFlight
<1>2. /\ watchers' = [watchers EXCEPT ![t] = Append(@, <<c, n>>)]
      /\ Goes(c, "waits", IF Queued(t) THEN <<>> ELSE << <<t, 0>> >>)
  BY DEF CancelAndWait
<1>3. Watched
  <2>1. watchers \in [Launchers -> Seq(Entries)]
    BY DEF IInv, Control, Typed
  <2>2. /\ Append(watchers[t], <<c, n>>) \in Seq(Entries)
        /\ \A s : In(s, Append(watchers[t], <<c, n>>)) => In(s, watchers[t]) \/ s = c
    BY <1>1, <2>1, Added
  <2> QED BY <1>2, <2>1, <2>2 DEF Watched
<1>4. /\ (IF Queued(t) THEN <<>> ELSE << <<t, 0>> >>) \in Seq(Entries)
      /\ \A s \in Submits : ~In(s, IF Queued(t) THEN <<>> ELSE << <<t, 0>> >>)
  BY ZenonT(60), <1>1, NoEntry, OneEntry, Names
<1> QED BY <1>1, <1>2, <1>3, <1>4, CommandStep

\* cancel waits for the start or for the task.
LEMMA CancelKeeps == ASSUME IInv, NEW c \in Commands, Cancel(c) PROVE IInv'
<1>1. /\ Turn(c, "begin") /\ c \notin Submits
      /\ UNCHANGED <<starting, task, runtimeFrame>>
  BY CommandsAssumption DEF Cancel, controllerVars, runtimeVars, localVars, runtimeFrame
<1>2. CASE Pending(starting) /\ CancelAndWait(c, starting, 1)
  BY <1>1, <1>2, CancelAndWaitStep DEF IInv, Control, Typed, Pending, Launchers
<1>3. CASE Pending(task) /\ CancelAndWait(c, task, 0)
  BY <1>1, <1>3, CancelAndWaitStep DEF IInv, Control, Typed, Pending, Launchers
<1>4. CASE Returns(c) /\ UNCHANGED watchers
  BY <1>1, <1>4, ReturnsStep DEF Places
<1> QED BY <1>2, <1>3, <1>4 DEF Cancel

\* shutdown waits for the start or for the task.
LEMMA ShutdownKeeps == ASSUME IInv, Shutdown PROVE IInv'
<1>1. /\ Turn(shutdown, "begin") /\ shutdown \notin Submits /\ shutdown \in Commands
      /\ UNCHANGED <<starting, task, runtimeFrame>>
  BY CommandsAssumption, Names DEF Shutdown, controllerVars, runtimeVars, localVars, runtimeFrame
<1>2. CASE Pending(starting) /\ CancelAndWait(shutdown, starting, 1)
  BY <1>1, <1>2, CancelAndWaitStep DEF IInv, Control, Typed, Pending, Launchers
<1>3. CASE Pending(task) /\ CancelAndWait(shutdown, task, 1)
  BY <1>1, <1>3, CancelAndWaitStep DEF IInv, Control, Typed, Pending, Launchers
<1>4. CASE Returns(shutdown) /\ UNCHANGED watchers
  BY <1>1, <1>4, ReturnsStep DEF Places
<1> QED BY <1>2, <1>3, <1>4 DEF Shutdown

\* A step of the queue.
LEMMA QueueStep ==
    ASSUME IInv, ready' \in Seq(Entries),
           \A s \in Submits : (In(s, ready') => In(s, ready)) /\ (Once(s, ready) => Once(s, ready')),
           Watched, UNCHANGED <<at, starting, task, runtimeFrame>>
    PROVE  IInv'
<1>1. Control' /\ (Before' => Before)
  BY QueueMoves DEF IInv
<1>2. ASSUME Before' PROVE Sound'
  <2>1. Sound /\ Control
    BY <1>1, <1>2 DEF IInv
  <2> QED BY <2>1, StillSound
<1> QED BY <1>1, <1>2 DEF IInv

\* A callback in between does not change who is woken.
LEMMA RelayKeeps == ASSUME IInv, Relay PROVE IInv'
<1>1. /\ ready \in Seq(Entries) /\ ready # <<>> /\ Head(ready)[2] > 0
      /\ ready' = Append(Tail(ready), <<Head(ready)[1], Head(ready)[2] - 1>>)
      /\ UNCHANGED <<watchers, at, starting, task, runtimeFrame>>
  BY DEF Relay, IInv, Control, Typed, controllerVars, runtimeVars, localVars, runtimeFrame
<1>2. Watched
  BY <1>1, SameWatchers DEF IInv
<1>3. /\ Tail(ready) \in Seq(Entries) /\ Head(ready) \in Entries
      /\ \A t : In(t, Tail(ready)) => In(t, ready)
      /\ \A t : Once(t, ready) => Once(t, Tail(ready)) /\ (In(t, Tail(ready)) => t # Head(ready)[1])
      /\ In(Head(ready)[1], ready)
  BY <1>1, Taken
<1>4. Head(ready)[1] \in Tasks /\ Head(ready)[2] - 1 \in {0, 1}
  BY <1>1, <1>3 DEF Entries
<1>5. /\ ready' \in Seq(Entries)
      /\ \A t : In(t, ready') => In(t, Tail(ready)) \/ t = Head(ready)[1]
      /\ \A t : Once(t, Tail(ready)) /\ (In(t, Tail(ready)) => t # Head(ready)[1]) => Once(t, ready')
  BY <1>1, <1>3, <1>4, Added
<1> QED BY <1>1, <1>2, <1>3, <1>5, QueueStep

\* A task is woken that is no submit.
LEMMA WokenStep ==
    ASSUME IInv, NEW t \in Tasks \ Submits, NEW n \in {0, 1}, ready' = Append(ready, <<t, n>>),
           Watched, UNCHANGED <<at, starting, task, runtimeFrame>>
    PROVE  IInv'
<1>1. ready \in Seq(Entries)
  BY DEF IInv, Control, Typed
<1>2. /\ ready' \in Seq(Entries)
      /\ \A s : In(s, ready') => In(s, ready) \/ s = t
      /\ \A s : Once(s, ready) /\ (In(s, ready) => s # t) => Once(s, ready')
  BY <1>1, Added
<1> QED BY <1>2, QueueStep

\* What waits for something outside of the loop is no submit.
LEMMA IoDoneKeeps ==
    ASSUME IInv, NEW t \in Launchers \cup Closers \cup Reconnects, IoDone(t)
    PROVE  IInv'
<1>1. t \in Tasks \ Submits
  BY Names, CommandsAssumption DEF Closers, Commands, Leaving
<1>2. Watched /\ UNCHANGED <<at, starting, task, runtimeFrame>>
  BY SameWatchers DEF IInv, IoDone, controllerVars, runtimeVars, localVars, runtimeFrame
<1> QED BY <1>1, <1>2, WokenStep DEF IoDone

\* The shutdown's watcher goes, and no other.
LEMMA TimesOutKeeps == ASSUME IInv, TimesOut PROVE IInv'
<1>1. shutdown \in Tasks \ Submits
  BY Names, CommandsAssumption DEF TimesOut
<1>2. UNCHANGED <<at, starting, task, runtimeFrame>> /\ ready' = Append(ready, <<shutdown, 0>>)
  BY DEF TimesOut, controllerVars, runtimeVars, localVars, runtimeFrame
<1>3. Watched
  <2>1. PICK t \in Launchers : \E k \in 1..Len(watchers[t]) :
           watchers' = [watchers EXCEPT ![t] = SubSeq(@, 1, k - 1) \o SubSeq(@, k + 1, Len(@))]
    BY DEF TimesOut
  <2>2. PICK k \in 1..Len(watchers[t]) :
           watchers' = [watchers EXCEPT ![t] = SubSeq(@, 1, k - 1) \o SubSeq(@, k + 1, Len(@))]
    BY <2>1
  <2> DEFINE rest == SubSeq(watchers[t], 1, k - 1) \o SubSeq(watchers[t], k + 1, Len(watchers[t]))
  <2>3. watchers \in [Launchers -> Seq(Entries)] /\ watchers' = [watchers EXCEPT ![t] = rest]
    BY <2>2 DEF IInv, Control, Typed
  <2>4. rest \in Seq(Entries) /\ \A s : In(s, rest) => In(s, watchers[t])
    BY <2>3, Removed
  <2> HIDE DEF rest
  <2> QED BY <2>3, <2>4 DEF Watched
<1> QED BY <1>1, <1>2, <1>3, WokenStep

\* A command arrives; the front end lets one submit or resume through.
LEMMA IssueKeeps == ASSUME IInv, NEW c \in Commands, Issue(c) PROVE IInv'
<1>1. Control' /\ (Before' => Before)
  BY CommandArrives DEF IInv
<1>2. /\ at' = [at EXCEPT ![c] = "begin"] /\ UNCHANGED <<starting, task, runtimeFrame>>
  BY DEF Issue, controllerVars, runtimeVars, localVars, runtimeFrame
<1>3. ASSUME Before' PROVE Sound'
  <2>1. Sound /\ Control
    BY <1>1, <1>3 DEF IInv
  <2>2. \A d \in Tasks : at'[d] = IF d = c THEN "begin" ELSE at[d]
    BY <1>2, <2>1 DEF Control, Typed
  <2>3. /\ \A t \in Launchers : at'[t] = at[t]
        /\ \A d \in Resets \cup Resumes : at'[d] \in {"picks", "closes"} => at'[d] = at[d]
    BY <2>2, Names DEF Commands
  <2> QED BY <1>2, <2>1, <2>3, StillSound
<1> QED BY <1>1, <1>3 DEF IInv

-----------------------------------------------------------------------------
(* The commands that change the session *)

\* A change's step: nothing runs and nothing else changes.
LEMMA ChangeStep ==
    ASSUME IInv, NEW c \in Commands, c \notin Submits, InFlight(c),
           NEW p \in {"returns", "picks", "closes"},
           p = "closes" => c \in Closers, p = "picks" => c \in Resumes,
           ready # <<>>, NEW e \in Seq(Entries), \A s \in Submits : ~In(s, e), Goes(c, p, e),
           UNCHANGED <<watchers, starting, task>>,
           Before /\ Sound =>
              /\ Changing \subseteq {c} /\ Launching = {} /\ Working = {}
              /\ RuntimeTyped' /\ HereIsSound'
              /\ p # "returns" => ChangeIsSound(c)'
    PROVE  IInv'
<1>1. Control' /\ (Before' => Before)
  <2>1. p \in Places \ {"idle", "begin", "shields"} /\ p # "unwinds" /\ Watched
    BY SameWatchers DEF Places, IInv
  <2> QED BY <2>1, CommandMoves DEF IInv, Goes
<1>2. ASSUME Before' PROVE Sound'
  <2>1. Sound /\ Before /\ Control
    BY <1>1, <1>2 DEF IInv
  <2>2. \A d \in Tasks : at'[d] = IF d = c THEN p ELSE at[d]
    BY <2>1 DEF Goes, Control, Typed
  <2>3. Launching' = {} /\ Working' = {}
    BY <2>1, <2>2, Names DEF Launching, Working
  <2>4. Changing' \subseteq {c} /\ (c \in Changing' => p # "returns")
    BY <2>1, <2>2, Names DEF Changing, Commands
  <2> QED BY <2>1, <2>3, <2>4 DEF Sound
<1> QED BY <1>1, <1>2 DEF IInv

\* A new SessionContext.
LEMMA FreshIsOne ==
    ASSUME NEW locked \in BOOLEAN, NEW m \in Models
    PROVE  /\ Fresh(locked, m) \in Records /\ Fresh(locked, m).model = m
           /\ Fresh(locked, m).mcp = None /\ ~Fresh(locked, m).initialized
BY DEF Fresh, Records

\* What is known when a command finds the controller not busy.
LEMMA WhenNotBusy ==
    ASSUME Control, Sound, ~Busy
    PROVE  /\ Changing = {} /\ Launching = {} /\ Working = {}
           /\ ~Pending(starting) /\ ~Pending(task)
BY NothingRuns DEF Busy, Sound, ChangeIsSound

\* set_model: the session, the agent and the configuration change together.
LEMMA SetModelKeeps == ASSUME IInv, NEW c \in Commands, SetModel(c) PROVE IInv'
<1>1. /\ ready # <<>> /\ InFlight(c) /\ c \in Tasks /\ c \notin Submits
      /\ Goes(c, "returns", << <<c, 0>> >>) /\ ~Busy /\ Control
      /\ UNCHANGED <<watchers, starting, task, context, of, by, restored, switching>>
  BY AtTurn, Names, CommandsAssumption DEF IInv, InFlight, SetModel, Returns, controllerVars, localVars
<1>2. ASSUME Sound PROVE RuntimeTyped' /\ HereIsSound'
  <2>1. /\ session \in Seq(Records) /\ context \in 1..Len(session) /\ Here \in Records
        /\ model \in Models /\ agent \in Models \cup {None} /\ None \notin Models
        /\ Here.model = model /\ (Here.initialized => Here.lock)
        /\ Here.mcp # None => Here.initialized
        /\ agent # None => Here.initialized /\ agent = model
    BY <1>2, ElementOfSeq, ModelsAssumption DEF Sound, RuntimeTyped, HereIsSound, Here
  <2>2. CASE UNCHANGED <<model, session, agent>>
    BY <1>1, <1>2, <2>2 DEF Sound, RuntimeTyped, HereIsSound, Here
  <2>3. ASSUME NEW m \in Models \ {model}, model' = m, NEW r \in Records, SetSession(context, r),
               r.model = m, r.initialized = Here.initialized, r.lock = Here.lock, r.mcp = Here.mcp,
               \/ agent' = m /\ r.initialized
               \/ agent' = agent /\ ~r.initialized
        PROVE  RuntimeTyped' /\ HereIsSound'
    <3>1. session' \in Seq(Records) /\ Len(session') = Len(session) /\ session'[context] = r
      BY <2>1, <2>3, ExceptSeq DEF SetSession
    <3> QED BY <1>1, <1>2, <2>1, <2>3, <3>1 DEF Sound, RuntimeTyped, HereIsSound, Here
  <2>4. ASSUME NEW m \in Models \ {model}, model' = m,
               IF Here.initialized
               THEN SetSession(context, UseModel(context, m)) /\ agent' = m
               ELSE SetSession(context, [Here EXCEPT !.model = m]) /\ UNCHANGED agent
        PROVE  RuntimeTyped' /\ HereIsSound'
    <3>1. CASE Here.initialized
      <4> DEFINE r == [Here EXCEPT !.model = m, !.llm = m]
      <4>1. /\ r \in Records /\ r.model = m /\ r.initialized = Here.initialized
            /\ r.lock = Here.lock /\ r.mcp = Here.mcp
        BY <2>1 DEF Records
      <4>2. SetSession(context, r) /\ agent' = m
        BY <2>4, <3>1 DEF UseModel, Here
      <4> HIDE DEF r
      <4> QED BY <2>3, <2>4, <3>1, <4>1, <4>2
    <3>2. CASE ~Here.initialized
      <4> DEFINE r == [Here EXCEPT !.model = m]
      <4>1. /\ r \in Records /\ r.model = m /\ r.initialized = Here.initialized
            /\ r.lock = Here.lock /\ r.mcp = Here.mcp
        BY <2>1 DEF Records
      <4>2. SetSession(context, r) /\ agent' = agent
        BY <2>4, <3>2
      <4> HIDE DEF r
      <4> QED BY <2>3, <2>4, <3>2, <4>1, <4>2
    <3> QED BY <3>1, <3>2
  <2> QED BY <2>2, <2>4 DEF SetModel, Here
<1> QED BY <1>1, <1>2, WhenNotBusy, OneEntry, ChangeStep

\* A resume picks a session with nothing running, and keeps the others out meanwhile.
LEMMA ResumeKeeps == ASSUME IInv, NEW u \in Resumes, Resume(u) PROVE IInv'
<1>1. /\ ready # <<>> /\ InFlight(u) /\ u \in Commands /\ u \notin Submits
      /\ Goes(u, "picks", <<>>) /\ ~Busy /\ Control /\ switching' = TRUE
      /\ UNCHANGED <<watchers, starting, task, context, session, model, agent, of, by, restored>>
  BY AtTurn, Names, CommandsAssumption
     DEF IInv, InFlight, Resume, runtimeVars, localVars, Commands
<1>2. ASSUME Sound
      PROVE  RuntimeTyped' /\ HereIsSound' /\ ChangeIsSound(u)'
  <2>1. RuntimeTyped' /\ HereIsSound'
    BY <1>1, <1>2 DEF Sound, RuntimeTyped, HereIsSound, Here
  <2>2. at'[u] = "picks"
    BY <1>1, Names DEF Goes, Control, Typed
  <2>3. ~Pending(starting)' /\ ~Pending(task)'
    <3>1. \A t \in Launchers : at'[t] = at[t]
      BY <1>1, Names DEF Goes, Control, Typed
    <3> QED BY <1>1, <1>2, <3>1, WhenNotBusy, Names DEF Pending, Control, Typed
  <2> QED BY <1>1, <2>1, <2>2, <2>3 DEF ChangeIsSound
<1> QED BY <1>1, <1>2, NoEntry, WhenNotBusy, ChangeStep

\* A resume that is refused leaves everything as it was.
LEMMA ResumeRefusedKeeps == ASSUME IInv, NEW u \in Resumes, ResumeRefused(u) PROVE IInv'
<1>1. /\ ready # <<>> /\ InFlight(u) /\ u \in Commands /\ u \in Tasks /\ u \notin Submits
      /\ at[u] = "picks" /\ Goes(u, "returns", << <<u, 0>> >>) /\ Control /\ switching' = FALSE
      /\ UNCHANGED <<watchers, starting, task, context, session, model, agent, of, by, restored>>
  BY AtTurn, Names, CommandsAssumption
     DEF IInv, InFlight, ResumeRefused, Returns, runtimeVars, localVars, Commands
<1>2. ASSUME Sound
      PROVE  /\ RuntimeTyped' /\ HereIsSound'
             /\ Changing \subseteq {u} /\ Launching = {} /\ Working = {}
  <2>1. RuntimeTyped' /\ HereIsSound'
    BY <1>1, <1>2 DEF Sound, RuntimeTyped, HereIsSound, Here
  <2>2. u \in Changing /\ ChangeIsSound(u)
    BY <1>1, <1>2 DEF Sound, Changing
  <2>3. ~Pending(starting) /\ ~Pending(task)
    BY <2>2, CommandsAssumption DEF ChangeIsSound
  <2> QED BY <1>1, <1>2, <2>1, <2>2, <2>3, NothingRuns DEF Sound
<1> QED BY <1>1, <1>2, OneEntry, ChangeStep

\* The sessions as a reset or a resume, c, finds them: the one at hand is to be closed
\* and the one a resume restored is as it was written.
Closable(c, all) ==
    /\ all \in Seq(Records) /\ context \in 1..Len(all)
    /\ all[context].model = model /\ (all[context].initialized => all[context].lock)
    /\ c \in Resumes => /\ restored'[c] \in (1..Len(all)) \ {context}
                        /\ all[restored'[c]] = Fresh(TRUE, model)

\* What c may leave the session as, whatever it waits for.
LEMMA Closing ==
    ASSUME NEW c \in Resets \cup Resumes, NEW all, Closable(c, all), all[context].mcp = None,
           NEW p, Release(c, context, p, all, None),
           model \in Models, UNCHANGED model, of' \in [Tasks -> Nat],
           by' \in [Runs -> Models \cup {None}], restored' \in [Resumes -> Nat]
    PROVE  RuntimeTyped' /\ HereIsSound' /\ Returns(c)
<1> DEFINE closed == [all[context] EXCEPT !.serving = @ \ {p}, !.chrome = FALSE, !.current = None,
                                          !.initialized = FALSE, !.lock = FALSE]
           released == [all EXCEPT ![context] = closed]
<1>0. /\ c # close /\ all \in Seq(Records) /\ context \in 1..Len(all) /\ all[context] \in Records
      /\ Len(all) \in Nat
      /\ c \in Resets => c \notin Resumes
  BY CommandsAssumption, ElementOfSeq, LenProperties DEF Closable
<1>1. /\ closed \in Records /\ closed.model = model /\ ~closed.initialized /\ closed.mcp = None
  BY <1>0 DEF Closable, Records
<1>3. Closed(c, released, None) \/ NotSaved(c, released, None)
  BY DEF Release
<1> HIDE DEF closed
<1>2. /\ released \in Seq(Records) /\ Len(released) = Len(all) /\ released[context] = closed
      /\ \A j \in 1..Len(all) : j # context => released[j] = all[j]
  BY <1>0, <1>1, ExceptSeq
<1> HIDE DEF released
<1>4. CASE Closed(c, released, None)
  <2>1. Returns(c) /\ agent' = None /\ switching' = FALSE
    BY <1>0, <1>4 DEF Closed
  <2>2. CASE c \in Resets
    <3>1. /\ session' = Append(released, Fresh(FALSE, model)) /\ context' = Len(released) + 1
      BY <1>4, <2>2 DEF Closed
    <3>2. /\ Fresh(FALSE, model) \in Records /\ Fresh(FALSE, model).model = model
          /\ Fresh(FALSE, model).mcp = None /\ ~Fresh(FALSE, model).initialized
      BY FreshIsOne
    <3> DEFINE f == Fresh(FALSE, model)
    <3>3. f \in Records /\ session' = Append(released, f) /\ context' = Len(released) + 1
      BY <3>1, <3>2
    <3> HIDE DEF f
    <3>5. /\ session' \in Seq(Records) /\ Len(session') = Len(released) + 1
          /\ session'[Len(released) + 1] = f
      BY <1>2, <3>3, AppendProperties
    <3>6. context' \in 1..Len(session') /\ session'[context'] = f
      BY <1>0, <1>2, <3>3, <3>5
    <3> QED BY <2>1, <3>2, <3>5, <3>6 DEF RuntimeTyped, HereIsSound, Here, f
  <2>3. CASE c \in Resumes
    <3>1. session' = released /\ context' = restored'[c]
      BY <1>0, <1>4, <2>3 DEF Closed
    <3>2. context' \in 1..Len(session') /\ session'[context'] = Fresh(TRUE, model)
      BY <1>2, <2>3, <3>1 DEF Closable
    <3>3. /\ Fresh(TRUE, model).model = model
          /\ Fresh(TRUE, model).mcp = None /\ ~Fresh(TRUE, model).initialized
      BY FreshIsOne
    <3> QED BY <1>2, <2>1, <3>1, <3>2, <3>3 DEF RuntimeTyped, HereIsSound, Here
  <2> QED BY <2>2, <2>3
<1>5. CASE NotSaved(c, released, None)
  <2>1. Returns(c) /\ agent' = None /\ switching' = FALSE /\ context' = context
    BY <1>0, <1>5 DEF NotSaved
  <2>2. CASE c \in Resets
    BY <1>0, <1>1, <1>2, <1>5, <2>1, <2>2 DEF NotSaved, RuntimeTyped, HereIsSound, Here
  <2>3. CASE c \in Resumes
    <3> DEFINE i == restored'[c]
    <3>1. i \in 1..Len(released) /\ i # context /\ released[i] = Fresh(TRUE, model)
      BY <1>2, <2>3 DEF Closable
    <3>2. session' = [released EXCEPT ![i] = [released[i] EXCEPT !.lock = FALSE]]
      BY <1>5, <2>3 DEF NotSaved
    <3>3. [released[i] EXCEPT !.lock = FALSE] \in Records
      <4>1. released[i] \in Records
        BY <1>2, <3>1, ElementOfSeq
      <4> QED BY <4>1 DEF Records
    <3> DEFINE freed == [released[i] EXCEPT !.lock = FALSE]
    <3>5. freed \in Records /\ session' = [released EXCEPT ![i] = freed]
      BY <3>2, <3>3
    <3> HIDE DEF i, freed
    <3>4. session' \in Seq(Records) /\ Len(session') = Len(released) /\ session'[context] = closed
      BY <1>0, <1>2, <3>1, <3>5, ExceptSeq
    <3> QED BY <1>0, <1>1, <1>2, <2>1, <3>4 DEF RuntimeTyped, HereIsSound, Here
  <2> QED BY <2>2, <2>3
<1> QED BY <1>3, <1>4, <1>5

\* Where a close leaves its command: it returns, or waits for the MCP pool.
LEMMA CloseGoes ==
    ASSUME NEW c \in Closers, NEW all, Close(c, all), UNCHANGED <<starting, task, watchers>>
    PROVE  \/ Returns(c) /\ Release(c, context, None, all, None) /\ all[context].mcp = None
           \/ /\ Goes(c, "closes", <<>>) /\ agent' = None /\ context' = context
              /\ session' = [all EXCEPT ![context].mcp = None] /\ all[context].mcp # None
              /\ switching' = (c # close \/ switching)
BY DEF Close, Release, Closed, NotSaved

\* A reset or a resume closes the session: all are the sessions by then.
LEMMA CloseStep ==
    ASSUME IInv, NEW c \in Resets \cup Resumes, NEW all, Close(c, all),
           ready # <<>>, InFlight(c), UNCHANGED <<watchers, starting, task, model, by>>,
           Before /\ Sound =>
              /\ Changing \subseteq {c} /\ ~Pending(starting) /\ ~Pending(task)
              /\ Closable(c, all) /\ restored' \in [Resumes -> Nat]
              /\ all[context].mcp # None => all[context].initialized
    PROVE  IInv'
<1>1. /\ c \in Commands /\ c \notin Submits /\ c \in Closers /\ c # close /\ c \in Tasks
      /\ of' = [of EXCEPT ![c] = context] /\ Control
  BY Names, CommandsAssumption DEF Commands, Closers, Close, IInv
<1>2. ASSUME Before, Sound
      PROVE  /\ Changing \subseteq {c} /\ Launching = {} /\ Working = {}
             /\ model \in Models /\ of' \in [Tasks -> Nat] /\ of'[c] = context
             /\ by' \in [Runs -> Models \cup {None}] /\ restored' \in [Resumes -> Nat]
             /\ Closable(c, all)
  BY <1>1, <1>2, NothingRuns DEF Sound, RuntimeTyped
<1>3. CASE Returns(c) /\ Release(c, context, None, all, None) /\ all[context].mcp = None
  <2>1. Before /\ Sound => RuntimeTyped' /\ HereIsSound'
    BY <1>2, <1>3, Closing
  <2> QED BY <1>1, <1>2, <1>3, <2>1, OneEntry, ChangeStep DEF Returns
<1>4. CASE /\ Goes(c, "closes", <<>>) /\ agent' = None /\ context' = context
           /\ session' = [all EXCEPT ![context].mcp = None] /\ all[context].mcp # None
           /\ switching' = (c # close \/ switching)
  <2>1. ASSUME Before, Sound
        PROVE  RuntimeTyped' /\ HereIsSound' /\ ChangeIsSound(c)'
    <3> DEFINE r == [all[context] EXCEPT !.mcp = None]
    <3>1. /\ all \in Seq(Records) /\ context \in 1..Len(all) /\ all[context] \in Records
          /\ all[context].model = model /\ all[context].initialized /\ all[context].lock
      BY <1>2, <1>4, <2>1, ElementOfSeq DEF Closable
    <3>2. /\ r \in Records /\ r.model = model /\ r.mcp = None /\ r.initialized
          /\ r.lock = all[context].lock
      BY <3>1 DEF Records
    <3>3. session' = [all EXCEPT ![context] = r]
      BY <1>4
    <3> HIDE DEF r
    <3>4. /\ session' \in Seq(Records) /\ Len(session') = Len(all) /\ session'[context] = r
          /\ \A j \in 1..Len(all) : j # context => session'[j] = all[j]
      BY <3>1, <3>2, <3>3, ExceptSeq
    <3>5. RuntimeTyped'
      BY <1>1, <1>2, <1>4, <2>1, <3>1, <3>4 DEF RuntimeTyped
    <3>6. HereIsSound'
      BY <1>4, <3>1, <3>2, <3>4 DEF HereIsSound, Here
    <3>7. at'[c] = "closes" /\ \A t \in Launchers : at'[t] = at[t]
      BY <1>1, <1>4, Names DEF Goes, Control, Typed
    <3>8. ~Pending(starting)' /\ ~Pending(task)'
      BY <1>1, <2>1, <3>7, Names DEF Pending, Control, Typed
    <3>9. c \in Resumes => /\ restored'[c] \in (1..Len(session')) \ {context'}
                           /\ session'[restored'[c]] = Fresh(TRUE, model')
      BY <1>2, <1>4, <2>1, <3>4 DEF Closable
    <3> QED BY <1>1, <1>2, <1>4, <2>1, <3>2, <3>4, <3>5, <3>6, <3>7, <3>8, <3>9
            DEF ChangeIsSound, Here
  <2> QED BY <1>1, <1>2, <1>4, <2>1, NoEntry, ChangeStep
<1> QED BY <1>1, <1>3, <1>4, CloseGoes

\* A reset closes a session nothing runs in.
LEMMA ResetKeeps == ASSUME IInv, NEW r \in Resets, Reset(r) PROVE IInv'
<1>1. /\ ready # <<>> /\ InFlight(r) /\ r \in Commands /\ r \in Tasks /\ r \notin Submits
      /\ Turn(r, "begin") /\ ~Busy /\ Control /\ r \notin Resumes
      /\ UNCHANGED <<watchers, starting, task, model, by, restored>>
  BY AtTurn, Names, CommandsAssumption DEF IInv, InFlight, Reset, Commands
<1>2. CASE Close(r, session)
  <2>1. ASSUME Before, Sound
        PROVE  /\ Changing \subseteq {r} /\ ~Pending(starting) /\ ~Pending(task)
               /\ Closable(r, session) /\ restored' \in [Resumes -> Nat]
               /\ session[context].mcp # None => session[context].initialized
    BY <1>1, <2>1, WhenNotBusy DEF Closable, Sound, RuntimeTyped, HereIsSound, Here
  <2> QED BY <1>1, <1>2, <2>1, CloseStep
<1>3. CASE Returns(r) /\ UNCHANGED <<switching, context, agent, session, of, holds, faults>>
  BY <1>1, <1>3, ReturnsStep DEF Places, runtimeFrame
<1> QED BY <1>2, <1>3 DEF Reset

\* A resume closes a session nothing runs in, with the other one locked.
LEMMA PickedKeeps == ASSUME IInv, NEW u \in Resumes, Picked(u) PROVE IInv'
<1> DEFINE all == Append(session, Fresh(TRUE, model))
<1>1. /\ ready # <<>> /\ InFlight(u) /\ u \notin Resets /\ at[u] = "picks" /\ Control
      /\ Close(u, all) /\ restored' = [restored EXCEPT ![u] = Len(session) + 1]
      /\ UNCHANGED <<watchers, starting, task, model, by>>
  <2>1. /\ Turn(u, "picks") /\ Close(u, all)
        /\ restored' = [restored EXCEPT ![u] = Len(session) + 1]
        /\ UNCHANGED <<watchers, starting, task, model, by>>
    BY DEF Picked
  <2>2. u \in Tasks /\ u \notin Resets /\ Control
    BY Names, CommandsAssumption DEF IInv, Commands
  <2>3. ready # <<>> /\ at[u] = "picks"
    BY <2>1, <2>2, AtTurn
  <2> QED BY <2>1, <2>2, <2>3 DEF InFlight
<1>2. ASSUME Before, Sound
      PROVE  /\ Changing \subseteq {u} /\ ~Pending(starting) /\ ~Pending(task)
             /\ Closable(u, all) /\ restored' \in [Resumes -> Nat]
             /\ all[context].mcp # None => all[context].initialized
  <2>1. u \in Changing /\ ChangeIsSound(u)
    BY <1>1, <1>2 DEF Sound, Changing
  <2>2. Changing \subseteq {u} /\ ~Pending(starting) /\ ~Pending(task)
    BY <1>1, <1>2, <2>1 DEF ChangeIsSound, Sound
  <2> DEFINE f == Fresh(TRUE, model)
  <2>3. /\ f \in Records /\ session \in Seq(Records) /\ context \in 1..Len(session)
        /\ Len(session) \in Nat /\ restored \in [Resumes -> Nat]
    BY <1>2, FreshIsOne, LenProperties DEF Sound, RuntimeTyped
  <2> HIDE DEF f
  <2> DEFINE more == Append(session, f)
  <2>4. /\ more \in Seq(Records) /\ Len(more) = Len(session) + 1 /\ more[Len(session) + 1] = f
        /\ more[context] = session[context]
    BY <2>3, AppendProperties
  <2>5. all = more
    BY DEF f
  <2> HIDE DEF more, all
  <2>6. /\ restored' \in [Resumes -> Nat]
        /\ restored'[u] \in (1..Len(all)) \ {context} /\ all[restored'[u]] = f
    BY <1>1, <2>3, <2>4, <2>5
  <2>7. Closable(u, all)
    BY <1>2, <2>3, <2>4, <2>5, <2>6 DEF Closable, Sound, HereIsSound, Here, f
  <2>8. all[context].mcp # None => all[context].initialized
    BY <1>2, <2>4, <2>5 DEF Sound, HereIsSound, Here
  <2> QED BY <2>2, <2>6, <2>7, <2>8
<1> QED BY <1>1, <1>2, CloseStep

\* What the exit's close does is no matter before it.
LEMMA AtTheExit ==
    ASSUME IInv, close \in Closers, at[close] \notin {"idle", "ended"}, ready # <<>>,
           Returns(close) \/ Goes(close, "closes", <<>>), UNCHANGED <<watchers, starting, task>>
    PROVE  IInv'
<1>1. close \in Commands /\ close \in Tasks /\ close \notin Submits /\ InFlight(close) /\ Exits
  BY Names, CommandsAssumption DEF Closers, Leaving, Commands, InFlight
<1>2. ~Before
  BY <1>1 DEF Before
<1> QED BY <1>1, <1>2, NoEntry, OneEntry, ChangeStep DEF Returns

\* The exit closes the session.
LEMMA CloseSessionKeeps == ASSUME IInv, CloseSession PROVE IInv'
<1>1. /\ ready # <<>> /\ at[close] = "begin" /\ Close(close, session) /\ close \in Closers
      /\ UNCHANGED <<watchers, starting, task>>
  BY AtTurn, Names DEF IInv, CloseSession, Closers, Leaving
<1>2. Returns(close) \/ Goes(close, "closes", <<>>)
  BY <1>1, CloseGoes
<1> QED BY <1>1, <1>2, AtTheExit

\* The close is over: what waited for it is the only change, and nothing runs in the
\* session it leaves.
LEMMA CloseOverKeeps == ASSUME IInv, NEW c \in Commands, CloseOver(c) PROVE IInv'
<1>1. /\ ready # <<>> /\ at[c] = "closes" /\ c \in Closers /\ InFlight(c) /\ c \in Tasks
      /\ c \notin Submits /\ Control
      /\ Release(c, of[c], holds[c], session, agent)
      /\ UNCHANGED <<watchers, starting, task, model, of, by, restored>>
  BY AtTurn, Names, CommandsAssumption
     DEF IInv, InFlight, CloseOver, Control, Placed, Closers, Leaving
<1>2. Returns(c)
  BY <1>1 DEF Release, Closed, NotSaved
<1>3. CASE c = close
  BY <1>1, <1>2, <1>3, AtTheExit
<1>4. CASE c # close
  <2>1. c \in Resets \cup Resumes
    BY <1>1, <1>4 DEF Closers
  <2>2. ASSUME Before, Sound
        PROVE  /\ Changing \subseteq {c} /\ Launching = {} /\ Working = {}
               /\ RuntimeTyped' /\ HereIsSound'
    <3>1. c \in Changing /\ ChangeIsSound(c)
      BY <1>1, <2>1, <2>2 DEF Sound, Changing
    <3>2. Changing \subseteq {c}
      BY <2>2, <3>1 DEF Sound
    <3>3. Active \subseteq {task} /\ (task \in Active => at[task] = "begin")
      BY <1>1, <3>1, Names DEF ChangeIsSound, Control, Alone, Active, Pending, Launchers
    <3>4. Launching = {} /\ Working = {}
      BY <3>3, Names DEF Launching, Working, Active, Over
    <3>5. of[c] = context /\ agent = None /\ session[context].mcp = None /\ Closable(c, session)
      BY <1>1, <2>2, <3>1 DEF ChangeIsSound, Closable, Sound, RuntimeTyped, HereIsSound, Here
    <3>6. RuntimeTyped' /\ HereIsSound'
      BY <1>1, <2>1, <2>2, <3>5, Closing DEF Sound, RuntimeTyped
    <3> QED BY <3>2, <3>4, <3>6
  <2> QED BY <1>1, <1>2, <2>2, OneEntry, ChangeStep DEF Returns
<1> QED BY <1>3, <1>4

-----------------------------------------------------------------------------
(* The theorem *)

\* At the start nothing runs and nothing is under way (SessionController.__init__).
THEOREM Initially == Init => IInv
<1> SUFFICES ASSUME Init PROVE IInv
  OBVIOUS
<1>1. /\ ready = <<>> /\ starting = None /\ task = None /\ Active = {}
      /\ \A t \in Tasks : at[t] = "idle"
  BY Names DEF Init, Active
<1>2. \A t \in Launchers : watchers[t] = <<>>
  BY DEF Init
<1>3. Typed
  BY NoEntry DEF Init, Typed, Places
<1>4. Alone /\ OneByOne /\ Placed
  BY <1>1, Names DEF Alone, OneByOne, Placed, Active, InFlight, Pending, Commands
<1>5. ASSUME NEW s \in Submits PROVE Woken(s) /\ Stage(s)
  BY <1>1, <1>2, NoEntry, Names DEF Woken, Stage
<1>6. Sound
  <2>1. Launching = {} /\ Working = {} /\ Changing = {}
    BY <1>1, Names DEF Launching, Working, Changing, Commands
  <2> DEFINE f == Fresh(FALSE, Default)
  <2>2. f \in Records /\ f.model = Default /\ f.mcp = None /\ ~f.initialized
    BY FreshIsOne, ModelsAssumption
  <2>3. session = <<f>> /\ context = 1 /\ model = Default /\ agent = None
    BY DEF Init
  <2> HIDE DEF f
  <2>4. RuntimeTyped
    <3>1. session \in Seq(Records) /\ context \in 1..Len(session)
      BY <2>2, <2>3
    <3>2. /\ model \in Models /\ agent \in Models \cup {None}
          /\ of \in [Tasks -> Nat] /\ by \in [Runs -> Models \cup {None}]
          /\ restored \in [Resumes -> Nat] /\ switching \in BOOLEAN
      BY ModelsAssumption DEF Init
    <3> QED BY <3>1, <3>2 DEF RuntimeTyped
  <2>5. HereIsSound
    BY <2>2, <2>3 DEF HereIsSound, Here
  <2> QED BY <2>1, <2>4, <2>5 DEF Sound
<1> QED BY <1>3, <1>4, <1>5, <1>6 DEF IInv, Control

\* Every step of the loop, of the outside and of the front end keeps the invariant.
THEOREM Kept == IInv /\ [Next]_vars => IInv'
<1> SUFFICES ASSUME IInv, [Next]_vars PROVE IInv'
  OBVIOUS
<1>1. CASE Relay
  BY <1>1, RelayKeeps
<1>2. ASSUME NEW t \in Launchers,
             \/ BeginLauncher(t) \/ Connected(t) \/ Launched(t) \/ LaunchFails(t) \/ Undone(t)
             \/ CutLaunch(t) \/ GoalOver(t) \/ CutGoal(t) \/ FinishTask(t)
      PROVE  IInv'
  BY <1>2, BeginLauncherKeeps, ConnectedKeeps, LaunchedKeeps, LaunchFailsKeeps, UndoneKeeps,
     CutLaunchKeeps, GoalOverKeeps, CutGoalKeeps, FinishTaskKeeps
<1>3. ASSUME NEW s \in Submits, Submit(s) \/ Shielded(s) \/ Unwound(s) \/ Poll(s) PROVE IInv'
  BY <1>3, SubmitKeeps, ShieldedKeeps, UnwoundKeeps, PollKeeps
<1>4. ASSUME NEW c \in Commands,
             Refuse(c) \/ Cancel(c) \/ Waited(c) \/ Returned(c) \/ CloseOver(c) \/ Issue(c)
      PROVE  IInv'
  BY <1>4, RefuseKeeps, CancelKeeps, WaitedKeeps, ReturnedKeeps, CloseOverKeeps, IssueKeeps
<1>5. ASSUME NEW r \in Resets, Reset(r) PROVE IInv'
  BY <1>5, ResetKeeps
<1>6. ASSUME NEW u \in Resumes, Resume(u) \/ Picked(u) \/ ResumeRefused(u) PROVE IInv'
  BY <1>6, ResumeKeeps, PickedKeeps, ResumeRefusedKeeps
<1>7. ASSUME NEW c \in Switches, SetModel(c) PROVE IInv'
  BY <1>7, SetModelKeeps DEF Commands
<1>8. ASSUME NEW c \in Reconnects, Reconnect(c) \/ Reconnected(c) PROVE IInv'
  BY <1>8, ReconnectKeeps, ReconnectedKeeps DEF Commands
<1>9. CASE Shutdown \/ CloseSession \/ Stop
  BY <1>9, ShutdownKeeps, CloseSessionKeeps, StopKeeps
<1>10. ASSUME NEW t \in Launchers \cup Closers \cup Reconnects, IoDone(t) PROVE IInv'
  BY <1>10, IoDoneKeeps
<1>11. CASE TimesOut
  BY <1>11, TimesOutKeeps
<1>12. CASE UNCHANGED vars
  <2>1. ready \in Seq(Entries) /\ UNCHANGED <<ready, watchers, at, starting, task, runtimeFrame>>
    BY <1>12 DEF vars, runtimeFrame, IInv, Control, Typed
  <2> QED BY <2>1, SameWatchers, QueueStep DEF IInv
<1> QED BY <1>1, <1>2, <1>3, <1>4, <1>5, <1>6, <1>7, <1>8, <1>9, <1>10, <1>11, <1>12 DEF Next, Loop

\* Two tasks never run at once, and until the exit the session they started in stays theirs.
LEMMA InvSparesTasks == IInv => SwitchesSpareTasks
<1> SUFFICES ASSUME IInv PROVE SwitchesSpareTasks
  OBVIOUS
<1>1. Launching \cup Working \subseteq Active
  BY Names DEF Launching, Working, Active, Over
<1>2. \A t, u \in Launching \cup Working : t = u
  BY <1>1, OneRuns DEF IInv
<1>3. Cardinality(Launching \cup Working) <= 1
  <2>1. CASE Launching \cup Working = {}
    BY <2>1, FS_EmptySet
  <2>2. ASSUME NEW t \in Launching \cup Working PROVE Cardinality(Launching \cup Working) <= 1
    <3>1. Launching \cup Working = {t}
      BY <1>2
    <3> QED BY <3>1, FS_Singleton
  <2> QED BY <2>1, <2>2
<1>4. ASSUME Before, NEW t \in Launching \cup Working PROVE InItsSession(t)
  <2>1. Sound
    BY <1>4 DEF IInv
  <2>2. CASE t \in Working
    BY <2>1, <2>2 DEF Sound
  <2>3. CASE t \notin Working
    BY <1>4, <2>1, <2>3 DEF Sound, LaunchIsSound, InItsSession, Here
  <2> QED BY <2>2, <2>3
<1> QED BY <1>3, <1>4 DEF SwitchesSpareTasks, Before

\* Whatever commands come in while a submit is on its way, one start or task runs at a
\* time, and until the exit no reset, no resume and no change of the model takes its
\* session away (controller.py: submit, reset_session, resume, set_model).
THEOREM SpecSparesTasks == Spec => []SwitchesSpareTasks
BY Initially, Kept, InvSparesTasks, PTL DEF Spec
=============================================================================
