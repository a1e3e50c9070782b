------------------------- MODULE McpConnectionProofs -------------------------
(***************************************************************************)
(* Safety of the connection manager for any callers and closing calls, any *)
(* reconnect policy and any number of incarnations of a server.            *)
(*                                                                         *)
(* A step of the model changes the server, the queue of its lifecycle lock *)
(* and the place of one task, each by the functions the manager's methods  *)
(* are made of.  The invariant follows that: Sound is what those functions *)
(* keep of a server whoever calls them, Locking and Begun are what the     *)
(* lock adds - only who has it starts or closes, and when nobody starts no *)
(* owner comes up that nobody awaits -, CallersSound ties a request to the *)
(* incarnation it was sent to, and ShutDown says what no later step undoes.*)
(* The lemma Steps puts them together: for a step of one task it is enough *)
(* to say what the step leaves of the server and of the lock.              *)
(***************************************************************************)
EXTENDS McpConnection, TLAPS

\* The fields of a server and of an owner.
ServerFields == {"state", "closing", "stop", "session", "current", "generation", "task", "owner"}
OwnerFields == {"phase", "ready", "wake", "cancel", "gone", "generation"}

\* A server of the pool, s, as a value.
Shape(s) ==
    /\ DOMAIN s = ServerFields
    /\ s.state \in States /\ s.closing \in BOOLEAN /\ s.stop \in BOOLEAN
    /\ s.current \in 0..Incarnations /\ s.session \in 0..Incarnations
    /\ s.generation \in Nat /\ s.task \in Supervisors
    /\ DOMAIN s.owner = 1..Incarnations
    /\ \A n \in 1..Incarnations : DOMAIN s.owner[n] = OwnerFields

\* An owner whose connection is open was told to end.
Told(o) == o.phase \in {"opening", "up"} => o.wake \/ o.cancel

\* What holds of the n-th owner of a server.
OwnerSound(s, n, o) ==
    /\ n > s.current => o.phase = "none" /\ o.ready = "pending"
    /\ o.phase = "opening" /\ ~o.cancel => n = s.current /\ o.ready = "pending"
    /\ o.ready = "set" => n = s.current /\ o.phase = "up"
    /\ o.phase = "up" => o.ready \in {"set", "taken"}
    /\ o.ready \in {"failed", "cancelled"} => o.phase = "done"
    /\ n # s.current => Told(o)

\* ReadyIsConnected of a server.
Connected(s) ==
    s.state = "READY" /\ ~s.closing /\ ~s.stop =>
        s.session # 0 /\ s.session = s.current /\ s.owner[s.current].phase = "up"

\* The incarnation whose session a server has was adopted under its generation.
SessionSound(s) ==
    s.session # 0 => /\ s.session \in 1..s.current
                     /\ s.owner[s.session].ready = "taken"
                     /\ s.owner[s.session].generation = s.generation

\* A server, and one that is READY with the session of its current incarnation.
Whole(s) ==
    /\ Shape(s)
    /\ \A n \in 1..Incarnations : OwnerSound(s, n, s.owner[n])
    /\ SessionSound(s)
Sound(s) == Whole(s) /\ Connected(s)

\* Nobody starts the server: no owner is about to come up or waits to be adopted,
\* and one that was not told to end is the one of a READY server.
Settled(o, state) ==
    /\ o.phase = "opening" => o.cancel
    /\ o.ready # "set"
    /\ state # "READY" => Told(o)
Idle(s) == \A n \in 1..Incarnations : Settled(s.owner[n], s.state)

\* What a request holds on to stays as it is.
Evolves(s, t) ==
    /\ s.current <= t.current
    /\ \A n \in 1..s.current : s.owner[n].ready = "taken" =>
           t.owner[n].ready = "taken" /\ t.owner[n].generation = s.owner[n].generation

----------------------------------------------------------------------------
(* What the manager does to a server *)

\* The task a loss starts is one of the reconnect tasks.
LEMMA FreshIsOne == ASSUME m.task \in Supervisors PROVE Fresh \in Supervisors
  BY DEF Fresh

\* _mark_lost: the owner is told to end, and the server is READY no more.
LEMMA LoseStays ==
    ASSUME NEW s, Whole(s), Connected(s) \/ Losable(s), m.task \in Supervisors
    PROVE  /\ Sound(Lose(s)) /\ (Idle(s) => Idle(Lose(s))) /\ Evolves(s, Lose(s))
           /\ Lose(s).current = s.current /\ (s.state # "READY" => Lose(s).state = s.state)
           /\ \A n \in 1..Incarnations : Lose(s).owner[n].phase = s.owner[n].phase
<1>1. CASE ~Losable(s)
  BY <1>1 DEF Lose, Evolves, Sound, Whole, Shape
<1>2. CASE Losable(s)
  <2> DEFINE t == Lose(s)
  <2>1. /\ Shape(s) /\ s.state = "READY" /\ ~s.closing
        /\ \A n \in 1..Incarnations : OwnerSound(s, n, s.owner[n])
        /\ SessionSound(s)
    BY <1>2 DEF Losable, Sound, Whole
  <2>2. Fresh \in Supervisors
    BY FreshIsOne
  <2>3. /\ DOMAIN t = ServerFields
        /\ t.state \in {"RECONNECTING", "FAILED"} /\ t.task \in Supervisors
        /\ t.closing = s.closing /\ t.stop = s.stop /\ t.session = s.session
        /\ t.current = s.current /\ t.generation = s.generation
        /\ t.owner = [s.owner EXCEPT ![s.current] = [@ EXCEPT !.wake = TRUE]]
    BY <1>2, <2>1, <2>2 DEF Lose, Shape, ServerFields
  <2> HIDE DEF t
  <2>a. \A n \in 1..Incarnations :
           t.owner[n] = IF n = s.current THEN [s.owner[n] EXCEPT !.wake = TRUE] ELSE s.owner[n]
    BY <2>1, <2>3 DEF Shape
  <2>4. /\ DOMAIN t.owner = 1..Incarnations
        /\ \A n \in 1..Incarnations :
             /\ DOMAIN t.owner[n] = OwnerFields
             /\ t.owner[n].phase = s.owner[n].phase /\ t.owner[n].ready = s.owner[n].ready
             /\ t.owner[n].cancel = s.owner[n].cancel
             /\ t.owner[n].generation = s.owner[n].generation
             /\ t.owner[n].wake = IF n = s.current THEN TRUE ELSE s.owner[n].wake
    BY <2>1, <2>3, <2>a DEF Shape, OwnerFields
  <2>5. Shape(t) /\ Evolves(s, t) /\ Connected(t) /\ SessionSound(t)
    BY <2>1, <2>3, <2>4 DEF Shape, Connected, SessionSound, Evolves, States
  <2>6. \A n \in 1..Incarnations : Told(s.owner[n]) => Told(t.owner[n])
    BY <2>4 DEF Told
  <2>7. \A n \in 1..Incarnations : OwnerSound(t, n, t.owner[n])
    BY <2>1, <2>3, <2>4, <2>6 DEF OwnerSound
  <2>8. \A n \in 1..Incarnations : Told(t.owner[n])
    BY <2>1, <2>4, <2>6 DEF OwnerSound, Told
  <2>9. Idle(s) => Idle(t)
    BY <2>4, <2>8 DEF Idle, Settled
  <2> QED
    BY <2>1, <2>3, <2>4, <2>5, <2>7, <2>9 DEF Sound, Whole, t
<1> QED
  BY <1>1, <1>2

\* A server goes on from itself,
LEMMA Reflexive == ASSUME NEW s, Shape(s) PROVE Evolves(s, s)
  BY DEF Evolves, Shape

\* and from what it went on from.
LEMMA Transitive ==
    ASSUME NEW s, NEW t, NEW u, Shape(s), Shape(t), Shape(u), Evolves(s, t), Evolves(t, u)
    PROVE  Evolves(s, u)
  BY DEF Evolves, Shape

\* _open starts an owner where none is about to come up.
LEMMA OpenStays ==
    ASSUME NEW s, Sound(s), Idle(s), s.state # "READY", s.current < Incarnations
    PROVE  /\ Sound(Open(s)) /\ Evolves(s, Open(s))
           /\ Open(s).state = s.state /\ Open(s).current = s.current + 1
<1> DEFINE t == Open(s)
<1>1. Shape(s) /\ SessionSound(s) /\ \A n \in 1..Incarnations : OwnerSound(s, n, s.owner[n])
  BY DEF Sound, Whole
<1>2. /\ DOMAIN t = ServerFields
      /\ t.state = s.state /\ t.closing = s.closing /\ t.session = s.session
      /\ t.generation = s.generation /\ t.task = s.task
      /\ t.stop = FALSE /\ t.current = s.current + 1
      /\ t.owner = [s.owner EXCEPT ![s.current + 1] = Owner("opening")]
  BY <1>1 DEF Open, Shape, ServerFields
<1> HIDE DEF t
<1>3. /\ DOMAIN t.owner = 1..Incarnations
      /\ \A n \in 1..Incarnations :
            t.owner[n] = IF n = s.current + 1 THEN Owner("opening") ELSE s.owner[n]
  BY <1>1, <1>2 DEF Shape
<1>d. \A n \in 1..Incarnations : DOMAIN t.owner[n] = OwnerFields
  BY <1>1, <1>3 DEF Shape, Owner, OwnerFields
<1>n. t.current \in 0..Incarnations /\ DOMAIN t.owner = 1..Incarnations
  BY <1>1, <1>2, <1>3, PolicyAssumption DEF Shape
<1>4. Shape(t)
  BY <1>1, <1>2, <1>d, <1>n DEF Shape
<1>c. Connected(t)
  BY <1>2 DEF Connected
<1>s. SessionSound(t) /\ Evolves(s, t)
  BY <1>1, <1>2, <1>3 DEF Shape, SessionSound, Evolves
<1>5. ASSUME NEW n \in 1..Incarnations PROVE OwnerSound(t, n, t.owner[n])
  <2>1. CASE n = s.current + 1
    BY <1>2, <1>3, <2>1 DEF OwnerSound, Owner, Told
  <2>2. CASE n # s.current + 1
    BY <1>1, <1>2, <1>3, <2>2 DEF OwnerSound, Idle, Settled, Told, Shape
  <2> QED
    BY <2>1, <2>2
<1> QED
  BY <1>2, <1>4, <1>c, <1>s, <1>5 DEF Sound, Whole, t

\* The session of an owner that came up is taken over, under a new generation.
LEMMA AdoptStays ==
    ASSUME NEW s, Sound(s), s.current # 0, s.owner[s.current].ready = "set"
    PROVE  Sound(Adopt(s)) /\ Idle(Adopt(s)) /\ Evolves(s, Adopt(s)) /\ Adopt(s).current = s.current
<1> DEFINE t == Adopt(s)
<1>1. /\ Shape(s) /\ SessionSound(s) /\ \A n \in 1..Incarnations : OwnerSound(s, n, s.owner[n])
      /\ s.current \in 1..Incarnations
  BY DEF Sound, Whole, Shape
<1>2. /\ DOMAIN t = ServerFields
      /\ t.closing = s.closing /\ t.stop = s.stop /\ t.current = s.current /\ t.task = s.task
      /\ t.state = "READY" /\ t.session = s.current /\ t.generation = s.generation + 1
      /\ t.owner = [s.owner EXCEPT ![s.current].ready = "taken",
                                  ![s.current].generation = s.generation + 1]
  BY <1>1 DEF Adopt, Shape, ServerFields
<1> HIDE DEF t
<1>a. \A n \in 1..Incarnations :
          t.owner[n] = IF n = s.current
                       THEN [s.owner[n] EXCEPT !.ready = "taken", !.generation = s.generation + 1]
                       ELSE s.owner[n]
  BY <1>1, <1>2 DEF Shape
<1>3. /\ DOMAIN t.owner = 1..Incarnations
      /\ \A n \in 1..Incarnations :
            /\ DOMAIN t.owner[n] = OwnerFields
            /\ t.owner[n].phase = s.owner[n].phase /\ t.owner[n].wake = s.owner[n].wake
            /\ t.owner[n].cancel = s.owner[n].cancel
            /\ n # s.current => t.owner[n] = s.owner[n]
      /\ t.owner[s.current].ready = "taken"
      /\ t.owner[s.current].generation = s.generation + 1
  <2>1. DOMAIN t.owner = 1..Incarnations
    BY <1>1, <1>2 DEF Shape
  <2>2. ASSUME NEW n \in 1..Incarnations
        PROVE  /\ DOMAIN t.owner[n] = OwnerFields
               /\ t.owner[n].phase = s.owner[n].phase /\ t.owner[n].wake = s.owner[n].wake
               /\ t.owner[n].cancel = s.owner[n].cancel
               /\ n # s.current => t.owner[n] = s.owner[n]
               /\ n = s.current => /\ t.owner[n].ready = "taken"
                                  /\ t.owner[n].generation = s.generation + 1
    <3> DEFINE o == s.owner[n]
    <3>1. DOMAIN o = OwnerFields
      BY <1>1 DEF Shape
    <3>2. t.owner[n] = IF n = s.current
                       THEN [o EXCEPT !.ready = "taken", !.generation = s.generation + 1] ELSE o
      BY <1>a
    <3> HIDE DEF o
    <3>3. CASE n = s.current
      BY <3>1, <3>2, <3>3 DEF OwnerFields, o
    <3>4. CASE n # s.current
      BY <3>1, <3>2, <3>4 DEF o
    <3> QED BY <3>3, <3>4
  <2> QED BY <1>1, <2>1, <2>2
<1>4. Shape(t) /\ Connected(t)
  BY <1>1, <1>2, <1>3 DEF Shape, Connected, States, OwnerSound
<1>e. Evolves(s, t)
  <2> SUFFICES ASSUME NEW n \in 1..s.current, s.owner[n].ready = "taken"
               PROVE  t.owner[n] = s.owner[n]
    BY <1>1, <1>2 DEF Evolves, Shape
  <2>1. n \in 1..Incarnations /\ n # s.current
    BY <1>1, PolicyAssumption
  <2> QED
    BY <1>3, <2>1
<1>s. SessionSound(t)
  BY <1>1, <1>2, <1>3 DEF SessionSound
<1>5. \A n \in 1..Incarnations : OwnerSound(t, n, t.owner[n])
  BY SMTT(30), <1>1, <1>2, <1>3 DEF OwnerSound, Told
<1>6. Idle(t)
  BY <1>1, <1>2, <1>3 DEF Idle, Settled, OwnerSound
<1> QED
  BY <1>2, <1>4, <1>e, <1>s, <1>5, <1>6 DEF Sound, Whole, t

\* What the except clause of a failed start leaves: the owner it gave up has ended,
\* or was told to.
LEMMA GiveUpStays ==
    ASSUME NEW s, Sound(s), s.current # 0,
           LET o == s.owner[s.current] IN o.ready # "set" /\ (o.phase \notin {"opening", "up"} \/ Idle(s))
    PROVE  /\ Sound(GiveUp(s)) /\ Idle(GiveUp(s)) /\ Evolves(s, GiveUp(s))
           /\ GiveUp(s).current = s.current /\ Phase(GiveUp(s)) = Phase(s)
           /\ s.state # "CONNECTING" => GiveUp(s).state = s.state
<1> DEFINE t == GiveUp(s)
<1>1. /\ Shape(s) /\ Connected(s) /\ SessionSound(s)
      /\ \A n \in 1..Incarnations : OwnerSound(s, n, s.owner[n])
      /\ s.current \in 1..Incarnations
  BY DEF Sound, Whole, Shape
<1>2. /\ DOMAIN t = ServerFields
      /\ t.closing = s.closing /\ t.stop = s.stop /\ t.session = s.session
      /\ t.generation = s.generation /\ t.current = s.current /\ t.task = s.task
      /\ t.state \in States \ {"CONNECTING"} /\ (s.state # "CONNECTING" => t.state = s.state)
      /\ t.state = "READY" => s.state = "READY"
      /\ t.owner = [s.owner EXCEPT ![s.current].ready = "taken"]
  BY <1>1 DEF GiveUp, Shape, ServerFields, States
<1> HIDE DEF t
<1>a. \A n \in 1..Incarnations :
          t.owner[n] = IF n = s.current THEN [s.owner[n] EXCEPT !.ready = "taken"] ELSE s.owner[n]
  BY ZenonT(60), <1>1, <1>2 DEF Shape
<1>3. /\ DOMAIN t.owner = 1..Incarnations
      /\ \A n \in 1..Incarnations :
            /\ DOMAIN t.owner[n] = OwnerFields
            /\ t.owner[n].phase = s.owner[n].phase /\ t.owner[n].wake = s.owner[n].wake
            /\ t.owner[n].cancel = s.owner[n].cancel
            /\ t.owner[n].generation = s.owner[n].generation
            /\ n # s.current => t.owner[n] = s.owner[n]
      /\ t.owner[s.current].ready = "taken"
  BY <1>1, <1>2, <1>a DEF Shape, OwnerFields
<1>4. Shape(t) /\ Evolves(s, t) /\ Connected(t) /\ SessionSound(t)
  BY <1>1, <1>2, <1>3 DEF Shape, Connected, SessionSound, Evolves
<1>5. ASSUME NEW n \in 1..Incarnations
      PROVE  OwnerSound(t, n, t.owner[n])
  BY <1>1, <1>2, <1>3 DEF OwnerSound, Told, Idle, Settled
<1>6. Idle(t)
  BY <1>1, <1>2, <1>3 DEF Idle, Settled, OwnerSound, Told
<1>7. Phase(t) = Phase(s)
  BY <1>1, <1>2, <1>3 DEF Phase
<1> QED
  BY <1>2, <1>4, <1>5, <1>6, <1>7 DEF Sound, Whole, t

\* One owner becomes another, with whatever flags of the server.
LEMMA OwnerChanges ==
    ASSUME NEW s, NEW t, NEW k \in 1..Incarnations, NEW o, Sound(s),
           DOMAIN t = ServerFields, t.closing \in BOOLEAN, t.stop \in BOOLEAN,
           t.state = s.state, t.current = s.current, t.generation = s.generation,
           t.session \in {0, s.session}, t.task = s.task,
           t.owner = [s.owner EXCEPT ![k] = o],
           DOMAIN o = OwnerFields, o.generation = s.owner[k].generation,
           s.owner[k].ready = "taken" => o.ready = "taken",
           OwnerSound(s, k, o)
    PROVE  /\ Whole(t) /\ Evolves(s, t)
           /\ (Idle(s) \/ k = s.current) /\ Settled(o, s.state) => Idle(t)
<1>1. Shape(s) /\ SessionSound(s) /\ \A n \in 1..Incarnations : OwnerSound(s, n, s.owner[n])
  BY DEF Sound, Whole
<1>2. DOMAIN t.owner = 1..Incarnations
      /\ \A n \in 1..Incarnations : t.owner[n] = IF n = k THEN o ELSE s.owner[n]
  BY <1>1 DEF Shape
<1>3. \A n \in 1..Incarnations :
          /\ DOMAIN t.owner[n] = OwnerFields
          /\ t.owner[n].generation = s.owner[n].generation
          /\ s.owner[n].ready = "taken" => t.owner[n].ready = "taken"
          /\ OwnerSound(s, n, t.owner[n])
  BY <1>1, <1>2 DEF Shape
<1>4. Shape(t)
  <2>1. t.session \in 0..Incarnations
    BY <1>1, PolicyAssumption DEF Shape
  <2> QED
    BY <1>1, <1>2, <1>3, <2>1 DEF Shape
<1>5. \A n \in 1..Incarnations : OwnerSound(t, n, t.owner[n])
  BY <1>3 DEF OwnerSound
<1>6. 1..s.current \subseteq 1..Incarnations
  BY <1>1, PolicyAssumption DEF Shape
<1>7. SessionSound(t) /\ Evolves(s, t)
  BY <1>1, <1>3, <1>6 DEF SessionSound, Evolves, Shape
<1>8. (Idle(s) \/ k = s.current) /\ Settled(o, s.state) => Idle(t)
  BY <1>1, <1>2 DEF Idle, OwnerSound, Settled
<1> QED
  BY <1>4, <1>5, <1>7, <1>8 DEF Sound, Whole

\* An owner that was told more: woken, cancelled or out of service.
More(o, p) ==
    /\ DOMAIN p = OwnerFields
    /\ p.phase = o.phase /\ p.ready = o.ready /\ p.generation = o.generation
    /\ o.wake => p.wake
    /\ o.cancel => p.cancel

\* Owners are told more, closing calls set their flags.
LEMMA TellingStays ==
    ASSUME NEW s, NEW t, Sound(s),
           DOMAIN t = ServerFields, t.closing \in BOOLEAN, t.stop \in BOOLEAN,
           s.closing => t.closing, s.stop => t.stop,
           t.state = s.state, t.current = s.current, t.generation = s.generation,
           t.session = s.session, t.task = s.task,
           DOMAIN t.owner = 1..Incarnations,
           \A n \in 1..Incarnations : More(s.owner[n], t.owner[n])
    PROVE  Sound(t) /\ Evolves(s, t) /\ (Idle(s) => Idle(t))
<1>1. /\ Shape(s) /\ SessionSound(s) /\ Connected(s)
      /\ \A n \in 1..Incarnations : OwnerSound(s, n, s.owner[n])
  BY DEF Sound, Whole
<1>2. 1..s.current \subseteq 1..Incarnations
  BY <1>1, PolicyAssumption DEF Shape
<1>3. Shape(t)
  BY <1>1 DEF Shape, More
<1>4. \A n \in 1..Incarnations : OwnerSound(t, n, t.owner[n])
  BY <1>1 DEF More, OwnerSound, Told
<1>5. SessionSound(t) /\ Evolves(s, t)
  BY <1>1, <1>2 DEF SessionSound, Evolves, Shape, More
<1>6. Connected(t)
  <2> SUFFICES ASSUME t.state = "READY", ~t.closing, ~t.stop
               PROVE  t.session # 0 /\ t.session = t.current /\ t.owner[t.current].phase = "up"
    BY DEF Connected
  <2>1. s.session # 0 /\ s.session = s.current /\ s.owner[s.current].phase = "up"
    BY <1>1 DEF Connected
  <2>2. s.current \in 1..Incarnations
    BY <1>1, <2>1 DEF Shape
  <2> QED
    BY <2>1, <2>2 DEF More
<1>7. Idle(s) => Idle(t)
  BY DEF Idle, Settled, Told, More
<1> QED
  BY <1>3, <1>4, <1>5, <1>6, <1>7 DEF Sound, Whole

\* The end of _close.
ClosedServer(s) == [s EXCEPT !.session = 0, !.state = "DISCONNECTED"]

\* It finds the owner gone, and leaves the server without a session.
LEMMA ClosedStays ==
    ASSUME NEW s, Whole(s), Idle(s), Phase(s) \notin {"opening", "up"}
    PROVE  /\ Sound(ClosedServer(s)) /\ Idle(ClosedServer(s)) /\ Evolves(s, ClosedServer(s))
           /\ ClosedServer(s).current = s.current /\ ClosedServer(s).state = "DISCONNECTED"
<1> DEFINE t == ClosedServer(s)
<1>1. Shape(s) /\ \A n \in 1..Incarnations : OwnerSound(s, n, s.owner[n])
  BY DEF Sound, Whole
<1>2. /\ DOMAIN t = ServerFields /\ t.closing = s.closing /\ t.stop = s.stop
      /\ t.state = "DISCONNECTED" /\ t.current = s.current /\ t.generation = s.generation
      /\ t.session = 0 /\ t.task = s.task /\ t.owner = s.owner
  BY <1>1 DEF Shape, ServerFields, ClosedServer
<1> HIDE DEF t
<1>3. \A n \in 1..Incarnations : Told(s.owner[n])
  BY <1>1 DEF OwnerSound, Told, Phase, Shape
<1>4. Sound(t) /\ Evolves(s, t)
  <2>1. Shape(t)
    BY <1>1, <1>2, PolicyAssumption DEF Shape, States
  <2> QED
    BY <1>1, <1>2, <2>1 DEF Sound, Whole, Shape, OwnerSound, Connected, SessionSound, Evolves
<1>5. Idle(t)
  BY <1>2, <1>3 DEF Idle, Settled
<1> QED
  BY <1>2, <1>4, <1>5 DEF t

\* _close cancels the owner of an attempt.
LEMMA CutShortStays ==
    ASSUME NEW s, Sound(s)
    PROVE  /\ Sound(CutShort(s)) /\ Evolves(s, CutShort(s)) /\ (Idle(s) => Idle(CutShort(s)))
           /\ CutShort(s).current = s.current /\ CutShort(s).state = s.state
<1>1. Shape(s)
  BY DEF Sound, Whole
<1>2. CASE CutShort(s) = s
  BY <1>1, <1>2, Reflexive
<1>3. CASE CutShort(s) # s
  <2> DEFINE t == CutShort(s)
  <2>1. t = [s EXCEPT !.owner[s.current].cancel = TRUE]
    BY <1>3 DEF CutShort
  <2>2. /\ DOMAIN t = ServerFields /\ t.closing = s.closing /\ t.stop = s.stop
        /\ t.state = s.state /\ t.current = s.current /\ t.generation = s.generation
        /\ t.session = s.session /\ t.task = s.task
        /\ t.owner = [s.owner EXCEPT ![s.current].cancel = TRUE]
    BY <1>1, <2>1 DEF Shape, ServerFields
  <2> HIDE DEF t
  <2>3. /\ DOMAIN t.owner = 1..Incarnations
        /\ \A n \in 1..Incarnations : More(s.owner[n], t.owner[n])
    BY <1>1, <2>2 DEF Shape, OwnerFields, More
  <2>4. Sound(t) /\ Evolves(s, t) /\ (Idle(s) => Idle(t))
    BY <1>1, <2>2, <2>3, TellingStays DEF Shape
  <2> QED
    BY <2>2, <2>4 DEF t
<1> QED
  BY <1>2, <1>3

----------------------------------------------------------------------------
(* The invariant *)

All == Procs \cup Supervisors

\* In the middle of a start, of its abortion, or of closing: with the lock.
Attempting(q) ==
    \/ q \in Procs /\ pc[q] \in {"starting", "aborting"}
    \/ q \in Supervisors /\ supervisor[q].phase \in {"starting", "aborting"}
Starts(q) ==
    \/ q \in Procs /\ pc[q] = "starting"
    \/ q \in Supervisors /\ supervisor[q].phase = "starting"
InLock(q) == Attempting(q) \/ (q \in Procs /\ pc[q] \in {"drains", "stops", "kills"})

NobodyStarts == \A q \in All : ~Starts(q)

\* The values the proofs need of the tasks.
Typed ==
    /\ closed \in BOOLEAN
    /\ lock \in Seq(All)
    /\ DOMAIN pc = Procs
    /\ DOMAIN supervisor = Supervisors
    /\ \A i \in Supervisors : DOMAIN supervisor[i] = {"phase", "old", "tries"}
    /\ DOMAIN sends = Callers /\ DOMAIN on = Callers

\* The lock excludes.
Locking == \A q \in All : InLock(q) => Holds(q)

\* Who starts has an owner to wait for; when nobody does, no owner comes up.
Begun ==
    /\ \A q \in All : Attempting(q) => m.current # 0
    /\ NobodyStarts => Idle(m)

\* A request that can be sent has a try left, and one that was sent was sent to an
\* incarnation that had come up, the one it is pinned to if it is.
CallerSound(c, where, count, at, s) ==
    /\ count \in Nat /\ count <= Attempts(c)
    /\ where = "idle" => count = 0
    /\ where \in {"waits", "queued", "starting"} => count < Attempts(c)
    /\ where = "sent" => /\ at \in 1..s.current
                         /\ s.owner[at].ready = "taken"
                         /\ pin[c] # 0 => s.owner[at].generation = pin[c]

CallersSound == \A c \in Callers : CallerSound(c, pc[c], sends[c], on[c], m)

\* Once shutdown is through nobody starts the server any more.
Ended(s) == s.state = "DISCONNECTED" /\ Phase(s) \notin {"opening", "up"}
ShutDown ==
    "shutdown" \in Closers =>
        /\ pc["shutdown"] # "idle" => closed
        /\ pc["shutdown"] = "ended" => Ended(m) /\ NobodyStarts

\* What every step keeps.
IInv == Typed /\ Sound(m) /\ Locking /\ Begun /\ CallersSound /\ ShutDown

----------------------------------------------------------------------------
(* The lock *)

\* A waiter that leaves the queue leaves its head alone.
LEMMA WithoutKeeps ==
    ASSUME NEW S, NEW queue \in Seq(S), NEW p
    PROVE  /\ Without(queue, p) \in Seq(S)
           /\ queue # <<>> /\ Head(queue) # p =>
                  Without(queue, p) # <<>> /\ Head(Without(queue, p)) = Head(queue)
<1>1. CASE ~\E i \in DOMAIN queue : queue[i] = p
  BY <1>1 DEF Without
<1>2. CASE \E i \in DOMAIN queue : queue[i] = p
  <2> DEFINE at == CHOOSE i \in DOMAIN queue : queue[i] = p
             rest == [i \in 1..(Len(queue) - 1) |-> IF i < at THEN queue[i] ELSE queue[i + 1]]
  <2>1. Without(queue, p) = rest
    BY <1>2 DEF Without
  <2>2. at \in 1..Len(queue) /\ queue[at] = p /\ Len(queue) \in Nat
    BY <1>2
  <2> HIDE DEF at
  <2>3. rest \in Seq(S) /\ Len(rest) = Len(queue) - 1
    BY <2>2
  <2>4. ASSUME queue # <<>>, Head(queue) # p
        PROVE  rest # <<>> /\ Head(rest) = Head(queue)
    <3>1. at # 1 /\ Len(queue) > 1
      BY <2>2, <2>4
    <3>2. 1 \in 1..(Len(queue) - 1) /\ 1 < at
      BY <2>2, <3>1
    <3>3. rest[1] = queue[1]
      BY <3>2
    <3> HIDE DEF rest
    <3>4. rest # <<>>
      BY <2>2, <2>3, <3>1
    <3> QED
      BY <2>3, <2>4, <3>3, <3>4
  <2> QED
    BY <2>1, <2>3, <2>4
<1> QED
  BY <1>1, <1>2

\* A queue that is left by its head is one of the same tasks.
LEMMA TailStays == ASSUME NEW S, NEW queue \in Seq(S), queue # <<>> PROVE Tail(queue) \in Seq(S)
  OBVIOUS

\* Who joins the queue does not take the lock from who has it.
LEMMA AppendKeeps ==
    ASSUME NEW S, NEW queue \in Seq(S), NEW p \in S
    PROVE  /\ Append(queue, p) \in Seq(S)
           /\ queue # <<>> => Append(queue, p) # <<>> /\ Head(Append(queue, p)) = Head(queue)
  OBVIOUS

\* Procs and supervisors are different things, and so are callers and closing calls.
LEMMA Distinct ==
    /\ Procs \cap Supervisors = {}
    /\ Callers \cap Closers = {} /\ "start" \notin Callers \cup Closers
    /\ Callers \subseteq Procs /\ Closers \subseteq Procs /\ "start" \in Procs
    /\ Callers \cap {"start", "reconnect", "remove", "shutdown"} = {}
  BY CallersAssumption DEF Procs

\* Who has the lock, or finds it free, has it alone.
LEMMA Alone ==
    ASSUME IInv, NEW p \in All, lock = <<>> \/ Holds(p), NEW q \in All, q # p
    PROVE  ~InLock(q)
  BY DEF IInv, Locking, Holds

\* Who waits for the lock, or comes to it, starts nothing: then nobody does.
LEMMA NobodyElse ==
    ASSUME IInv, NEW p \in All, lock = <<>> \/ Holds(p), ~Starts(p)
    PROVE  NobodyStarts /\ Idle(m)
<1>1. NobodyStarts
  BY Alone DEF NobodyStarts, InLock, Attempting, Starts
<1> QED
  BY <1>1 DEF IInv, Begun

\* Who moves, if anybody does, finds the lock free or leaves it to who has it.
Free(p) == \A q \in All : InLock(q) => q = p
Kept == \A q \in All : InLock(q)' /\ Holds(q) => Holds(q)'

\* Tasks other than p take no part in the lock that they did not have.
OthersStay(p) ==
    \A q \in All : q # p => /\ InLock(q)' => InLock(q)
                            /\ Attempting(q)' => Attempting(q)
                            /\ Starts(q)' => Starts(q)

\* What a step leaves for the closing call that shuts the pool down.
ShutDownBy(p) ==
    "shutdown" \in Closers =>
        \/ pc'["shutdown"] = pc["shutdown"]
        \/ /\ p = "shutdown" /\ closed'
           /\ pc'["shutdown"] = "ended" => Ended(m)' /\ NobodyStarts'

SameCaller(c) == pc'[c] = pc[c] /\ sends'[c] = sends[c] /\ on'[c] = on[c]

\* What a step leaves of the server.
Left(s) ==
    /\ Sound(s) /\ Evolves(m, s)
    /\ closed /\ Ended(m) => Ended(s)

\* A step of one task keeps the invariant if it keeps what it says of the server, of the

\* lock and of that task.
LEMMA Steps ==
    ASSUME IInv, NEW p \in All, Typed', pin' = pin, closed => closed',
           OthersStay(p), Free(p) \/ Kept, Left(m'),
           InLock(p)' => Holds(p)', Attempting(p)' => m'.current # 0,
           Starts(p)' => Starts(p) \/ ~closed,
           NobodyStarts' => Idle(m'), ShutDownBy(p),
           \A c \in Callers : SameCaller(c) \/ CallerSound(c, pc'[c], sends'[c], on'[c], m')
    PROVE  IInv'
<1>1. Sound(m') /\ Evolves(m, m') /\ Shape(m) /\ Shape(m')
  BY DEF Left, IInv, Sound, Whole
<1>2. Locking'
  <2> SUFFICES ASSUME NEW q \in All, InLock(q)', q # p
               PROVE  Holds(q)'
    BY DEF Locking
  <2>1. InLock(q)
    BY DEF OthersStay
  <2>2. Holds(q)
    BY <2>1 DEF IInv, Locking
  <2> QED
    BY <2>1, <2>2 DEF Free, Kept
<1>3. Begun'
  <2> SUFFICES ASSUME NEW q \in All, Attempting(q)', q # p
               PROVE  m'.current # 0
    BY DEF Begun
  <2>1. m.current # 0
    BY DEF OthersStay, IInv, Begun
  <2> QED
    BY <1>1, <2>1 DEF Evolves, Shape
<1>4. CallersSound'
  <2> SUFFICES ASSUME NEW c \in Callers, SameCaller(c)
               PROVE  CallerSound(c, pc[c], sends[c], on[c], m)'
    BY DEF CallersSound, CallerSound
  <2>1. CallerSound(c, pc[c], sends[c], on[c], m)
    BY DEF IInv, CallersSound
  <2> QED
    BY <1>1, <2>1 DEF CallerSound, SameCaller, Evolves, Shape
<1>5. ShutDown'
  <2> SUFFICES ASSUME "shutdown" \in Closers, pc'["shutdown"] = pc["shutdown"]
               PROVE  ShutDown'
    BY DEF ShutDown, ShutDownBy
  <2>1. pc["shutdown"] = "ended" => closed /\ Ended(m) /\ NobodyStarts
    BY DEF IInv, ShutDown
  <2>2. closed /\ NobodyStarts => NobodyStarts'
    BY DEF NobodyStarts, OthersStay
  <2>3. pc["shutdown"] # "idle" => closed'
    BY DEF IInv, ShutDown
  <2> QED
    BY <2>1, <2>2, <2>3 DEF Left, ShutDown
<1> QED
  BY <1>1, <1>2, <1>3, <1>4, <1>5 DEF IInv

\* The reconnect tasks take no more part in the lock than before.
Quiet ==
    /\ DOMAIN supervisor' = Supervisors
    /\ \A i \in Supervisors :
          /\ DOMAIN supervisor'[i] = {"phase", "old", "tries"}
          /\ supervisor'[i].phase = "starting" => supervisor[i].phase = "starting"
          /\ supervisor'[i].phase = "aborting" => supervisor[i].phase \in {"starting", "aborting"}

\* A caller, the start or a closing call gets to a place.
LEMMA Moves ==
    ASSUME IInv, NEW p \in Procs, NEW place, pc' = [pc EXCEPT ![p] = place], Quiet, pin' = pin,
           closed' \in BOOLEAN, closed => closed', lock' \in Seq(All), Free(p) \/ Kept, Left(m'),
           place \in {"starting", "aborting", "drains", "stops", "kills"} => Holds(p)',
           place \in {"starting", "aborting"} => m'.current # 0,
           place = "starting" => ~closed,
           NobodyStarts' => Idle(m'),
           p = "shutdown" => closed' /\ (place = "ended" => Ended(m)' /\ NobodyStarts'),
           DOMAIN sends' = Callers, DOMAIN on' = Callers,
           \A c \in Callers : c # p => sends'[c] = sends[c] /\ on'[c] = on[c],
           p \in Callers => CallerSound(p, place, sends'[p], on'[p], m')
    PROVE  IInv'
<1>1. /\ DOMAIN pc' = Procs /\ pc'[p] = place /\ p \notin Supervisors /\ p \in All
      /\ \A q \in Procs : q # p => pc'[q] = pc[q]
  BY Distinct DEF IInv, Typed, All
<1>2. OthersStay(p)
  BY <1>1 DEF OthersStay, InLock, Attempting, Starts, Quiet
<1>3. Typed'
  BY <1>1 DEF Typed, Quiet
<1>4. InLock(p)' => Holds(p)'
  BY <1>1 DEF InLock, Attempting
<1>5. (Attempting(p)' => m'.current # 0) /\ (Starts(p)' => ~closed)
  BY <1>1 DEF Attempting, Starts
<1>6. ShutDownBy(p)
  BY <1>1, Distinct DEF ShutDownBy
<1>7. \A c \in Callers : SameCaller(c) \/ CallerSound(c, pc'[c], sends'[c], on'[c], m')
  BY <1>1, Distinct DEF SameCaller
<1> QED
  BY <1>1, <1>2, <1>3, <1>4, <1>5, <1>6, <1>7, Steps

\* A reconnect task gets to a place.
LEMMA SupervisorMoves ==
    ASSUME IInv, NEW i \in Supervisors, NEW task, supervisor' = [supervisor EXCEPT ![i] = task],
           DOMAIN task = {"phase", "old", "tries"}, UNCHANGED <<pc, sends, on, pin, closed>>,
           lock' \in Seq(All), Free(i) \/ Kept, Left(m'),
           task.phase \in {"starting", "aborting"} => Holds(i)' /\ m'.current # 0,
           task.phase = "starting" => supervisor[i].phase = "starting" \/ ~closed,
           NobodyStarts' => Idle(m')
    PROVE  IInv'
<1>1. /\ DOMAIN supervisor' = Supervisors /\ supervisor'[i] = task /\ i \notin Procs /\ i \in All
      /\ \A j \in Supervisors : j # i => supervisor'[j] = supervisor[j]
  BY Distinct DEF IInv, Typed, All
<1>2. OthersStay(i)
  BY <1>1 DEF OthersStay, InLock, Attempting, Starts
<1>3. Typed'
  BY <1>1 DEF Typed, IInv
<1>4. InLock(i)' => Holds(i)'
  BY <1>1 DEF InLock, Attempting
<1>5. (Attempting(i)' => m'.current # 0) /\ (Starts(i)' => Starts(i) \/ ~closed)
  BY <1>1 DEF Attempting, Starts
<1>6. ShutDownBy(i)
  BY DEF ShutDownBy
<1>7. \A c \in Callers : SameCaller(c)
  BY DEF SameCaller
<1> QED
  BY <1>1, <1>2, <1>3, <1>4, <1>5, <1>6, <1>7, Steps

\* The server changes, and everybody stays where they are.
LEMMA ServerMoves ==
    ASSUME IInv, UNCHANGED <<pc, sends, on, pin, closed, lock>>, Quiet, Left(m'),
           NobodyStarts' => Idle(m')
    PROVE  IInv'
<1>1. PICK i \in Supervisors : TRUE
  BY CallersAssumption
<1>2. i \in All /\ i \notin Procs
  BY Distinct DEF All
<1>3. \A q \in All : /\ InLock(q)' => InLock(q)
                     /\ Attempting(q)' => Attempting(q)
                     /\ Starts(q)' => Starts(q)
  BY DEF InLock, Attempting, Starts, Quiet
<1>4. Typed' /\ OthersStay(i) /\ Kept
  BY <1>3 DEF Typed, IInv, OthersStay, Kept, Holds, Quiet
<1>5. InLock(i)' => Holds(i)'
  BY <1>2, <1>3, <1>4 DEF IInv, Locking, Kept
<1>6. Attempting(i)' => m'.current # 0
  BY <1>2, <1>3 DEF IInv, Begun, Left, Evolves, Sound, Whole, Shape
<1>7. ShutDownBy(i) /\ \A c \in Callers : SameCaller(c)
  BY DEF ShutDownBy, SameCaller
<1> QED
  BY <1>2, <1>3, <1>4, <1>5, <1>6, <1>7, Steps
----------------------------------------------------------------------------
(* Requests *)

\* What surrounds the move of a caller, the start or a closing call.
Orderly(p) ==
    /\ IInv /\ Quiet /\ pin' = pin /\ closed' = closed /\ lock' \in Seq(All)
    /\ Free(p) \/ Kept
    /\ Left(m') /\ (NobodyStarts' => Idle(m'))

\* A request that ends.
LEMMA EndStays ==
    ASSUME NEW c \in Callers, NEW told, Orderly(c), End(c, told)
    PROVE  IInv'
<1>1. CallerSound(c, pc[c], sends[c], on[c], m) /\ closed \in BOOLEAN
      /\ DOMAIN sends = Callers /\ DOMAIN on = Callers
  BY DEF Orderly, IInv, CallersSound, Typed
<1>2. CallerSound(c, "ended", sends'[c], on'[c], m')
  BY <1>1 DEF CallerSound, End
<1> QED
  BY <1>1, <1>2, Moves, Distinct DEF Orderly, End

\* A request with a try left goes to the session of a server that is READY.
LEMMA ProceedStays ==
    ASSUME NEW c \in Callers, Orderly(c), sends[c] < Attempts(c), Proceed(c, m')
    PROVE  IInv'
<1>1. CASE \E told : End(c, told)
  BY <1>1, EndStays
<1>2. CASE /\ m'.state = "READY" /\ PinKept(c, m') /\ m'.session # 0
           /\ pc' = [pc EXCEPT ![c] = "sent"]
           /\ sends' = [sends EXCEPT ![c] = @ + 1]
           /\ on' = [on EXCEPT ![c] = m'.session]
  <2>1. CallerSound(c, pc[c], sends[c], on[c], m) /\ closed \in BOOLEAN
        /\ DOMAIN sends = Callers /\ DOMAIN on = Callers
    BY DEF Orderly, IInv, CallersSound, Typed
  <2>2. SessionSound(m')
    BY DEF Orderly, Left, Sound, Whole
  <2>3. CallerSound(c, "sent", sends[c] + 1, m'.session, m')
    BY <1>2, <2>1, <2>2 DEF CallerSound, SessionSound, PinKept, Attempts
  <2>4. /\ DOMAIN sends' = Callers /\ DOMAIN on' = Callers
        /\ sends'[c] = sends[c] + 1 /\ on'[c] = m'.session
        /\ \A d \in Callers : d # c => sends'[d] = sends[d] /\ on'[d] = on[d]
    BY <1>2, <2>1
  <2> QED
    BY <1>2, <2>1, <2>3, <2>4, Moves, Distinct DEF Orderly
<1> QED
  BY <1>1, <1>2 DEF Proceed

\* Who awaited a connection goes on.
LEMMA ContinueStays ==
    ASSUME NEW p \in Procs, p # "shutdown", NEW how, Orderly(p),
           p \in Callers => sends[p] < Attempts(p), Continue(p, m', how)
    PROVE  IInv'
<1>1. CASE p \in Callers
  BY <1>1, ProceedStays DEF Continue
<1>2. CASE p \notin Callers
  <2>1. closed \in BOOLEAN /\ DOMAIN sends = Callers /\ DOMAIN on = Callers
    BY DEF Orderly, IInv, Typed
  <2>2. PICK place \in {"backoff", "ended"} : pc' = [pc EXCEPT ![p] = place]
    BY <1>2 DEF Continue
  <2> QED
    BY <1>2, <2>1, <2>2, Moves DEF Orderly, Continue
<1> QED
  BY <1>1, <1>2

\* Before a connection is opened.
Connecting(s) == [s EXCEPT !.state = "CONNECTING", !.closing = FALSE]

\* It leaves the owners as they are.
LEMMA ConnectingStays ==
    ASSUME NEW s, Sound(s), Idle(s), s.state # "READY"
    PROVE  /\ Sound(Connecting(s)) /\ Idle(Connecting(s)) /\ Evolves(s, Connecting(s))
           /\ Connecting(s).current = s.current /\ Connecting(s).state = "CONNECTING"
<1> DEFINE t == Connecting(s)
<1>1. Shape(s) /\ SessionSound(s) /\ \A n \in 1..Incarnations : OwnerSound(s, n, s.owner[n])
  BY DEF Sound, Whole
<1>2. /\ DOMAIN t = ServerFields /\ t.closing = FALSE /\ t.stop = s.stop
      /\ t.state = "CONNECTING" /\ t.current = s.current /\ t.generation = s.generation
      /\ t.session = s.session /\ t.task = s.task /\ t.owner = s.owner
  BY <1>1 DEF Shape, ServerFields, Connecting
<1> HIDE DEF t
<1>3. Sound(t) /\ Evolves(s, t)
  <2>1. Shape(t)
    BY <1>1, <1>2 DEF Shape, States
  <2> QED
    BY <1>1, <1>2, <2>1 DEF Sound, Whole, Shape, OwnerSound, Connected, SessionSound, Evolves
<1>4. Idle(t)
  BY <1>2 DEF Idle, Settled
<1> QED
  BY <1>2, <1>3, <1>4 DEF t

\* _connect, by who has the lock.
LEMMA ConnectStays ==
    ASSUME IInv, NEW p \in Procs, p # "shutdown", Quiet, pin' = pin, closed' = closed, Free(p),
           NEW s, Left(s), Idle(s), s.current = m.current,
           NEW queue \in Seq(All), queue # <<>>, Head(queue) = p,
           p \in Callers => sends[p] < Attempts(p), Connect(p, s, queue)
    PROVE  IInv'
<1>1. CASE m' = s /\ lock' = Tail(queue) /\ \E how : Continue(p, s, how)
  <2>1. Orderly(p)
    BY <1>1 DEF Orderly
  <2> QED
    BY <1>1, <2>1, ContinueStays
<1>2. CASE /\ s.state \notin {"READY", "RECONNECTING"} /\ ~closed /\ s.current < Incarnations
           /\ m' = Open(Connecting(s)) /\ lock' = queue
           /\ pc' = [pc EXCEPT ![p] = "starting"] /\ UNCHANGED <<sends, on, result>>
  <2> DEFINE t == Connecting(s)
  <2>1. Sound(s) /\ Evolves(m, s) /\ Sound(m)
    BY DEF Left, IInv
  <2>2. /\ Sound(t) /\ Idle(t) /\ Evolves(s, t)
        /\ t.current = s.current /\ t.state = "CONNECTING"
    BY <1>2, <2>1, ConnectingStays
  <2>3. Sound(m') /\ Evolves(t, m') /\ m'.current = s.current + 1
    <3> HIDE DEF t
    <3>1. m' = Open(t)
      BY <1>2 DEF t
    <3> QED
      BY <1>2, <2>2, <3>1, OpenStays
  <2> HIDE DEF t
  <2>4. Evolves(m, m')
    BY <2>1, <2>2, <2>3, Transitive DEF Sound, Whole
  <2>5. Left(m')
    BY <1>2, <2>3, <2>4 DEF Left
  <2>6. /\ closed \in BOOLEAN /\ DOMAIN sends = Callers /\ DOMAIN on = Callers
        /\ DOMAIN pc = Procs /\ m'.current # 0
    BY <2>1, <2>3 DEF IInv, Typed, Sound, Whole, Shape
  <2>7. ~NobodyStarts'
    BY <1>2, <2>6 DEF NobodyStarts, Starts, All
  <2>8. p \in Callers => CallerSound(p, "starting", sends'[p], on'[p], m')
    <3>1. p \in Callers => CallerSound(p, pc[p], sends[p], on[p], m)
      BY DEF IInv, CallersSound
    <3> QED
      BY <1>2, <3>1 DEF CallerSound
  <2> QED
    BY <1>2, <2>5, <2>6, <2>7, <2>8, Moves DEF Holds
<1> QED
  BY <1>1, <1>2 DEF Connect, Connecting, Closed
\* The reconnect tasks that start a connection go on with it.
SameStarts ==
    \A i \in Supervisors : supervisor[i].phase = "starting" => supervisor'[i].phase = "starting"

\* When nobody starts after the step of a task that did not, nobody did before.
LEMMA NobodyStarted ==
    ASSUME IInv, NEW p \in Procs, ~Starts(p), SameStarts, NobodyStarts',
           \/ pc' = pc
           \/ \E place : pc' = [pc EXCEPT ![p] = place]
    PROVE  NobodyStarts
<1>1. DOMAIN pc = Procs
  BY DEF IInv, Typed
<1> QED
  BY <1>1, Distinct DEF NobodyStarts, Starts, SameStarts, All

\* async with lifecycle_lock
LEMMA SeekStays ==
    ASSUME IInv, NEW p \in Procs, p # "shutdown", ~Starts(p), Quiet, SameStarts, pin' = pin,
           closed' = closed, NEW s, Left(s), NobodyStarts => Idle(s), s.current = m.current,
           p \in Callers => sends[p] < Attempts(p), Seek(p, s)
    PROVE  IInv'
<1>1. p \in All /\ closed \in BOOLEAN /\ lock \in Seq(All)
      /\ DOMAIN sends = Callers /\ DOMAIN on = Callers
  BY DEF All, IInv, Typed
<1>2. CASE lock = <<>>
  <2>1. Free(p)
    BY <1>2 DEF Free, IInv, Locking, Holds
  <2>2. Idle(s)
    BY <1>1, <1>2, NobodyElse
  <2>3. <<p>> \in Seq(All) /\ <<p>> # <<>> /\ Head(<<p>>) = p
    BY <1>1
  <2> HIDE DEF Connect
  <2>4. Connect(p, s, <<p>>)
    BY <1>2 DEF Seek
  <2> QED
    BY <2>1, <2>2, <2>3, <2>4, ConnectStays
<1>3. CASE lock # <<>>
  <2>1. /\ lock' = Append(lock, p) /\ m' = s /\ pc' = [pc EXCEPT ![p] = "queued"]
        /\ UNCHANGED <<sends, on>>
    BY <1>3 DEF Seek
  <2>2. lock' \in Seq(All) /\ Kept
    BY <1>1, <1>3, <2>1, AppendKeeps DEF Kept, Holds
  <2>3. NobodyStarts' => Idle(m')
    BY <2>1, NobodyStarted
  <2>4. p \in Callers => CallerSound(p, "queued", sends'[p], on'[p], m')
    BY <2>1 DEF IInv, CallersSound, CallerSound
  <2> QED
    BY <1>1, <2>1, <2>2, <2>3, <2>4, Moves
<1> QED
  BY <1>2, <1>3

\* One round of _request.
LEMMA RequestStays ==
    ASSUME IInv, NEW c \in Callers, ~Starts(c), Quiet, SameStarts, pin' = pin,
           closed' = closed, NEW s, Left(s), NobodyStarts => Idle(s), s.current = m.current,
           sends[c] < Attempts(c), Request(c, s)
    PROVE  IInv'
<1>1. c \in Procs /\ c # "shutdown"
  BY Distinct
<1>2. CASE Seek(c, s)
  BY <1>1, <1>2, SeekStays
<1>3. CASE /\ m' = s /\ UNCHANGED lock
           /\ \/ \E told : End(c, told)
              \/ Proceed(c, s)
              \/ pc' = [pc EXCEPT ![c] = "waits"] /\ UNCHANGED <<sends, on, result>>
  <2>1. /\ closed \in BOOLEAN /\ lock \in Seq(All)
        /\ DOMAIN sends = Callers /\ DOMAIN on = Callers
    BY DEF IInv, Typed
  <2>2. Kept
    BY <1>3 DEF Kept, Holds
  <2>3. \E place : pc' = [pc EXCEPT ![c] = place]
    BY <1>3 DEF End, Proceed
  <2>4. NobodyStarts' => Idle(m')
    BY <1>1, <1>3, <2>3, NobodyStarted
  <2>5. Orderly(c)
    BY <1>3, <2>1, <2>2, <2>4 DEF Orderly
  <2>6. CASE \E told : End(c, told)
    BY <2>5, <2>6, EndStays
  <2>7. CASE Proceed(c, s)
    BY <1>3, <2>5, <2>7, ProceedStays
  <2>8. CASE pc' = [pc EXCEPT ![c] = "waits"] /\ UNCHANGED <<sends, on, result>>
    <3>1. CallerSound(c, "waits", sends'[c], on'[c], m')
      BY <2>8 DEF IInv, CallersSound, CallerSound
    <3> QED
      BY <1>1, <1>3, <2>1, <2>2, <2>4, <2>8, <3>1, Moves
  <2> QED
    BY <1>3, <2>6, <2>7, <2>8
<1> QED
  BY <1>2, <1>3 DEF Request

\* The server as it is, and as the loss of its transport leaves it.
LEMMA LeftAlone == ASSUME IInv PROVE Left(m) /\ (NobodyStarts => Idle(m))
  BY Reflexive DEF Left, IInv, Begun, Sound, Whole

\* The same of the server whose transport is lost.
LEMMA LostLeft ==
    ASSUME IInv
    PROVE  Left(Lose(m)) /\ (Idle(m) => Idle(Lose(m))) /\ Lose(m).current = m.current
<1>1. Sound(m) /\ Shape(m) /\ m.task \in Supervisors
  BY DEF IInv, Sound, Whole, Shape
<1>2. /\ Sound(Lose(m)) /\ (Idle(m) => Idle(Lose(m))) /\ Evolves(m, Lose(m))
      /\ Lose(m).current = m.current /\ (m.state # "READY" => Lose(m).state = m.state)
      /\ \A n \in 1..Incarnations : Lose(m).owner[n].phase = m.owner[n].phase
  BY <1>1, LoseStays DEF Sound
<1>3. Ended(m) => Ended(Lose(m))
  BY <1>1, <1>2 DEF Ended, Phase, Shape
<1> QED
  BY <1>2, <1>3 DEF Left

\* The task that a loss starts waits.
LEMMA SuperviseStays ==
    ASSUME IInv, NEW s, Supervise(s)
    PROVE  Quiet /\ SameStarts
<1>1. m.task \in Supervisors /\ DOMAIN supervisor = Supervisors
      /\ \A i \in Supervisors : DOMAIN supervisor[i] = {"phase", "old", "tries"}
  BY DEF IInv, Sound, Whole, Shape, Typed
<1>2. Fresh \in Supervisors
  BY <1>1, FreshIsOne
<1> QED
  BY <1>1, <1>2 DEF Supervise, Supervisor, Quiet, SameStarts

\* Where no reconnect task moves, none comes to start.
LEMMA QuietTasks == ASSUME IInv, UNCHANGED supervisor PROVE Quiet /\ SameStarts
  BY DEF IInv, Typed, Quiet, SameStarts

\* _request: a call is made.
LEMMA CallInv == ASSUME IInv, NEW c \in Callers, Call(c) PROVE IInv'
<1>1. pc[c] = "idle" /\ CallerSound(c, pc[c], sends[c], on[c], m)
  BY DEF Call, IInv, CallersSound
<1>2. sends[c] < Attempts(c) /\ ~Starts(c)
  BY <1>1, Distinct DEF CallerSound, Attempts, Starts
<1> QED
  BY <1>1, <1>2, LeftAlone, QuietTasks, RequestStays DEF Call

\* _request goes on when the reconnection it waited for is settled.
LEMMA WaitOverInv == ASSUME IInv, NEW c \in Callers, WaitOver(c) PROVE IInv'
<1>1. pc[c] = "waits" /\ CallerSound(c, pc[c], sends[c], on[c], m) /\ lock \in Seq(All)
  BY DEF WaitOver, IInv, CallersSound, Typed
<1>2. sends[c] < Attempts(c) /\ ~Starts(c) /\ c \in Procs
  BY <1>1, Distinct DEF CallerSound, Starts
<1>3. \E place : pc' = [pc EXCEPT ![c] = place]
  BY DEF WaitOver, Proceed, End
<1>4. Quiet /\ SameStarts /\ m' = m /\ lock' = lock /\ pin' = pin /\ closed' = closed
  BY QuietTasks DEF WaitOver, taskVars
<1>5. Orderly(c)
  BY <1>1, <1>2, <1>3, <1>4, NobodyStarted, LeftAlone DEF Orderly, Kept, Holds
<1> QED
  BY <1>2, <1>4, <1>5, ProceedStays DEF WaitOver

\* A request that ends where it is, with the server as it was.
LEMMA EndsInPlace ==
    ASSUME IInv, NEW c \in Callers, pc[c] # "starting", NEW told, End(c, told),
           UNCHANGED <<m, closed, pin, supervisor>>, lock' \in Seq(All), Kept
    PROVE  IInv'
<1>1. c \in Procs /\ ~Starts(c)
  BY Distinct DEF Starts
<1>2. Orderly(c)
  BY <1>1, NobodyStarted, LeftAlone, QuietTasks DEF Orderly, End
<1> QED
  BY <1>2, EndStays

\* Nobody gains or loses the lock.
LEMMA SameLock == ASSUME IInv, UNCHANGED lock PROVE lock' \in Seq(All) /\ Kept
  BY DEF IInv, Typed, Kept, Holds

\* The server answers.
LEMMA AnsweredInv == ASSUME IInv, NEW c \in Callers, Answered(c) PROVE IInv'
  BY SameLock, EndsInPlace DEF Answered, taskVars

\* The request has taken too long.
LEMMA TimedOutInv == ASSUME IInv, NEW c \in Callers, TimedOut(c) PROVE IInv'
  BY SameLock, EndsInPlace DEF TimedOut

\* The cancelled request is through.
LEMMA RequestAbortedInv == ASSUME IInv, NEW c \in Callers, RequestAborted(c) PROVE IInv'
  BY SameLock, EndsInPlace DEF RequestAborted, taskVars

\* The transport is lost under a request, which is made again if it may be.
LEMMA ConnectionLostInv == ASSUME IInv, NEW c \in Callers, ConnectionLost(c) PROVE IInv'
<1>1. /\ pc[c] = "sent" /\ ~Starts(c) /\ c \in Procs /\ Supervise(m)
      /\ pin' = pin /\ closed' = closed
  BY Distinct DEF ConnectionLost, Starts
<1>2. Quiet /\ SameStarts
  BY <1>1, SuperviseStays
<1>3. /\ Left(Lose(m)) /\ Lose(m).current = m.current
      /\ NobodyStarts => Idle(Lose(m))
  BY LeftAlone, LostLeft
<1>4. CASE sends[c] < Attempts(c)
  <2>1. Request(c, Lose(m))
    BY <1>4 DEF ConnectionLost
  <2> QED
    BY <1>1, <1>2, <1>3, <1>4, <2>1, RequestStays
<1>5. CASE m' = Lose(m) /\ UNCHANGED lock /\ End(c, "lost")
  <2>1. NobodyStarts' => NobodyStarts
    BY <1>1, <1>2, <1>5, NobodyStarted DEF End
  <2>2. Orderly(c)
    BY <1>1, <1>2, <1>3, <1>5, <2>1, SameLock DEF Orderly
  <2> QED
    BY <1>5, <2>2, EndStays
<1> QED
  BY <1>4, <1>5 DEF ConnectionLost

\* A start is given up: its owner is cancelled, and nobody awaits it any more.
LEMMA AbortLeaves ==
    ASSUME IInv, m.current # 0, NEW t,
           \/ t = [m EXCEPT !.stop = TRUE, !.owner[m.current].cancel = TRUE,
                            !.owner[m.current].ready = "taken"]
           \/ t = [m EXCEPT !.closing = TRUE, !.stop = TRUE, !.owner[m.current].cancel = TRUE,
                            !.owner[m.current].ready = "taken"]
    PROVE  Left(t) /\ Idle(t) /\ t.current = m.current /\ Sound(t)
<1>1. Sound(m) /\ Shape(m) /\ m.current \in 1..Incarnations
      /\ OwnerSound(m, m.current, m.owner[m.current])
  BY DEF IInv, Sound, Whole, Shape
<1> DEFINE o == [m.owner[m.current] EXCEPT !.cancel = TRUE, !.ready = "taken"]
<1>2. /\ DOMAIN t = ServerFields /\ t.closing \in BOOLEAN /\ t.stop = TRUE
      /\ t.state = m.state /\ t.current = m.current /\ t.generation = m.generation
      /\ t.session = m.session /\ t.task = m.task
      /\ t.owner = [m.owner EXCEPT ![m.current].cancel = TRUE, ![m.current].ready = "taken"]
  <2>1. CASE t = [m EXCEPT !.stop = TRUE, !.owner[m.current].cancel = TRUE,
                           !.owner[m.current].ready = "taken"]
    BY <1>1, <2>1 DEF Shape, ServerFields
  <2>2. CASE t = [m EXCEPT !.closing = TRUE, !.stop = TRUE, !.owner[m.current].cancel = TRUE,
                           !.owner[m.current].ready = "taken"]
    BY <1>1, <2>2 DEF Shape, ServerFields
  <2> QED
    BY <2>1, <2>2
<1>o. t.owner = [m.owner EXCEPT ![m.current] = o]
  BY <1>1, <1>2 DEF Shape
<1>3. /\ DOMAIN o = OwnerFields /\ o.generation = m.owner[m.current].generation
      /\ o.ready = "taken" /\ o.cancel = TRUE /\ o.phase = m.owner[m.current].phase
  BY <1>1 DEF Shape, OwnerFields
<1> HIDE DEF o
<1>4. OwnerSound(m, m.current, o) /\ Settled(o, m.state) /\ Connected(t)
  BY <1>1, <1>2, <1>3 DEF OwnerSound, Told, Settled, Connected
<1>5. Sound(t) /\ Evolves(m, t) /\ Idle(t)
  BY <1>1, <1>2, <1>o, <1>3, <1>4, OwnerChanges DEF Sound
<1>6. Phase(t) = Phase(m)
  BY <1>1, <1>2, <1>o, <1>3 DEF Phase, Shape
<1> QED
  BY <1>2, <1>5, <1>6 DEF Left, Ended

\* Who has the lock, and gives it back.
LEMMA HandOver ==
    ASSUME IInv, NEW p \in All, Holds(p)
    PROVE  Free(p) /\ lock # <<>> /\ Tail(lock) \in Seq(All)
  BY Alone, TailStays DEF Free, Holds, IInv, Typed

\* A caller is cancelled wherever it is.
LEMMA CallerCancelledInv == ASSUME IInv, NEW c \in Callers, CallerCancelled(c) PROVE IInv'
<1>1. lock \in Seq(All) /\ c \in Procs /\ c \in All
  BY Distinct DEF IInv, Typed, All
<1>2. CASE /\ pc[c] \in {"waits", "sent"}
           /\ End(c, "cancelled")
           /\ UNCHANGED <<m, lock>>
  BY <1>2, SameLock, EndsInPlace DEF CallerCancelled, taskVars
<1>3. CASE /\ pc[c] = "queued"
           /\ lock' = Without(lock, c)
           /\ End(c, "cancelled")
           /\ UNCHANGED m
  <2>1. lock' \in Seq(All)
    BY <1>1, <1>3, WithoutKeeps
  <2>2. CASE lock # <<>> /\ Head(lock) = c
    <3>1. Free(c)
      BY <1>1, <2>2, HandOver DEF Holds
    <3>2. ~Starts(c)
      BY <1>1, <1>3, Distinct DEF Starts
    <3>3. Orderly(c)
      BY <1>1, <1>3, <2>1, <3>1, <3>2, NobodyStarted, LeftAlone, QuietTasks
      DEF Orderly, CallerCancelled, taskVars, End
    <3> QED
      BY <1>3, <3>3, EndStays
  <2>3. CASE lock = <<>> \/ Head(lock) # c
    <3>1. Kept
      BY <1>1, <1>3, <2>3, WithoutKeeps DEF Kept, Holds
    <3> QED
      BY <1>3, <2>1, <3>1, EndsInPlace DEF CallerCancelled, taskVars
  <2> QED
    BY <2>2, <2>3
<1>4. CASE /\ pc[c] = "starting"
           /\ m' = [m EXCEPT !.stop = TRUE, !.owner[m.current].cancel = TRUE,
                             !.owner[m.current].ready = "taken"]
           /\ pc' = [pc EXCEPT ![c] = "aborting"]
           /\ UNCHANGED <<lock, sends, on, result>>
  <2>1. Holds(c) /\ m.current # 0
    BY <1>1, <1>4 DEF IInv, Locking, Begun, InLock, Attempting
  <2>2. Left(m') /\ Idle(m') /\ m'.current = m.current
    BY <1>4, <2>1, AbortLeaves
  <2>3. CallerSound(c, "aborting", sends'[c], on'[c], m')
    BY <1>4 DEF IInv, CallersSound, CallerSound
  <2>4. /\ closed' = closed /\ closed \in BOOLEAN /\ pin' = pin /\ Quiet
        /\ DOMAIN sends' = Callers /\ DOMAIN on' = Callers /\ lock' \in Seq(All) /\ Kept
        /\ c # "shutdown" /\ Holds(c)'
    BY <1>1, <1>4, <2>1, Distinct, QuietTasks, SameLock DEF CallerCancelled, IInv, Typed, taskVars, Holds
  <2> QED
    BY <1>1, <1>4, <2>1, <2>2, <2>3, <2>4, Moves
<1> QED
  BY <1>2, <1>3, <1>4 DEF CallerCancelled

\* What is left of an attempt that failed.
LEMMA GiveUpLeaves ==
    ASSUME IInv, m.current # 0, m.owner[m.current].phase = "done" \/ m.owner[m.current].ready \in {"failed", "cancelled"}
    PROVE  Left(GiveUp(m)) /\ Idle(GiveUp(m)) /\ GiveUp(m).current = m.current
<1>1. Sound(m) /\ OwnerSound(m, m.current, m.owner[m.current])
  BY DEF IInv, Sound, Whole, Shape
<1>2. m.owner[m.current].phase = "done" /\ m.owner[m.current].ready # "set"
  BY <1>1 DEF OwnerSound
<1> QED
  BY <1>1, <1>2, GiveUpStays DEF Left, Ended

\* The start that a cancelled caller awaited is given up.
LEMMA StartAbortedInv == ASSUME IInv, NEW c \in Callers, StartAborted(c) PROVE IInv'
<1>1. c \in Procs /\ c \in All /\ pc[c] = "aborting" /\ m' = GiveUp(m) /\ lock' = Tail(lock)
  BY Distinct DEF StartAborted, All
<1>2. Holds(c) /\ m.current # 0
  BY <1>1 DEF IInv, Locking, Begun, InLock, Attempting
<1>3. m.owner[m.current].phase = "done"
  BY <1>2 DEF StartAborted, Phase
<1>4. Left(m') /\ Idle(m')
  BY <1>1, <1>2, <1>3, GiveUpLeaves
<1>5. Orderly(c)
  BY <1>1, <1>2, <1>4, HandOver, QuietTasks DEF Orderly, StartAborted, taskVars
<1> QED
  BY <1>5, EndStays DEF StartAborted

----------------------------------------------------------------------------
(* Starting *)

\* start() connects the server.
LEMMA StartInv == ASSUME IInv, Start PROVE IInv'
<1>1. "start" \in Procs /\ "start" \notin Callers /\ ~Starts("start")
  BY Distinct, CallersAssumption DEF Start, Starts
<1> QED
  BY <1>1, LeftAlone, QuietTasks, SeekStays DEF Start, taskVars

\* The lock falls to who waits for it to connect.
LEMMA GrantedInv == ASSUME IInv, NEW p \in Starters \cap Procs, Granted(p) PROVE IInv'
<1>1. /\ p \in All /\ p # "shutdown" /\ ~Starts(p) /\ pc[p] = "queued"
      /\ lock \in Seq(All) /\ lock # <<>> /\ Head(lock) = p /\ Holds(p)
  BY Distinct DEF Granted, Holds, IInv, Typed, All, Starters, Starts
<1>2. Free(p) /\ Idle(m)
  BY <1>1, HandOver, NobodyElse
<1>3. p \in Callers => sends[p] < Attempts(p)
  BY <1>1 DEF IInv, CallersSound, CallerSound
<1> QED
  BY <1>1, <1>2, <1>3, LeftAlone, QuietTasks, ConnectStays DEF Granted, taskVars

\* What is left of an attempt that is over.
LEMMA StartedLeaves ==
    ASSUME IInv, m.current # 0, m.owner[m.current].ready \in {"set", "failed", "cancelled"},
           NEW t, t = IF m.owner[m.current].ready = "set" THEN Adopt(m) ELSE GiveUp(m)
    PROVE  Left(t) /\ Idle(t) /\ t.current = m.current
<1>1. Sound(m) /\ OwnerSound(m, m.current, m.owner[m.current])
  BY DEF IInv, Sound, Whole, Shape
<1>2. CASE m.owner[m.current].ready = "set"
  <2>1. ~Ended(m)
    BY <1>1, <1>2 DEF Ended, Phase, OwnerSound
  <2> QED
    BY <1>1, <1>2, <2>1, AdoptStays DEF Left
<1>3. CASE m.owner[m.current].ready # "set"
  BY <1>3, GiveUpLeaves
<1> QED
  BY <1>2, <1>3

\* The owner that is awaited has come up, failed, or gone.
LEMMA StartedInv == ASSUME IInv, NEW p \in Starters \cap Procs, Started(p) PROVE IInv'
<1>1. /\ p \in All /\ p # "shutdown" /\ pc[p] = "starting" /\ lock' = Tail(lock)
      /\ pin' = pin /\ closed' = closed /\ supervisor' = supervisor
  BY Distinct DEF Started, Handed, All, Starters, taskVars
<1>2. Holds(p) /\ m.current # 0
  BY <1>1 DEF IInv, Locking, Begun, InLock, Attempting
<1>3. Left(m') /\ Idle(m')
  BY <1>2, StartedLeaves DEF Started
<1>4. p \in Callers => sends[p] < Attempts(p)
  BY <1>1 DEF IInv, CallersSound, CallerSound
<1>5. Orderly(p)
  BY <1>1, <1>2, <1>3, HandOver, QuietTasks DEF Orderly
<1>6. \E how : Continue(p, m', how)
  BY DEF Started
<1> QED
  BY <1>1, <1>4, <1>5, <1>6, ContinueStays
----------------------------------------------------------------------------
(* The owner tasks *)

\* An owner task: the transport is open and initialized.
LEMMA OwnerUpInv == ASSUME IInv, NEW n \in 1..Incarnations, OwnerUp(n) PROVE IInv'
<1>1. /\ Sound(m) /\ Shape(m) /\ OwnerSound(m, n, m.owner[n]) /\ Connected(m)
      /\ m.owner[n].phase = "opening" /\ ~m.owner[n].cancel
      /\ m' = [m EXCEPT !.owner[n].phase = "up", !.owner[n].ready = "set"]
  BY DEF OwnerUp, IInv, Sound, Whole
<1>2. n = m.current /\ m.owner[n].ready = "pending"
  BY <1>1 DEF OwnerSound
<1> DEFINE o == [m.owner[n] EXCEPT !.phase = "up", !.ready = "set"]
<1>3. /\ DOMAIN m' = ServerFields /\ m'.closing = m.closing /\ m'.stop = m.stop
      /\ m'.state = m.state /\ m'.current = m.current /\ m'.generation = m.generation
      /\ m'.session = m.session /\ m'.task = m.task
      /\ m'.owner = [m.owner EXCEPT ![n].phase = "up", ![n].ready = "set"]
  BY <1>1 DEF Shape, ServerFields
<1>4. m'.owner = [m.owner EXCEPT ![n] = o]
  BY <1>1, <1>3 DEF Shape
<1>5. /\ DOMAIN o = OwnerFields /\ o.generation = m.owner[n].generation
      /\ o.ready = "set" /\ o.phase = "up"
  BY <1>1 DEF Shape, OwnerFields
<1> HIDE DEF o
<1>6. OwnerSound(m, n, o)
  BY <1>1, <1>2, <1>5 DEF OwnerSound
<1>7. Whole(m') /\ Evolves(m, m')
  BY <1>1, <1>2, <1>3, <1>4, <1>5, <1>6, OwnerChanges DEF Shape
<1>8. Connected(m')
  BY <1>1, <1>2, <1>3 DEF Connected
<1>9. ~Ended(m) /\ ~NobodyStarts
  BY <1>1, <1>2 DEF Ended, Phase, Shape, IInv, Begun, Idle, Settled
<1>10. UNCHANGED <<pc, sends, on, pin, closed, lock, supervisor>>
  BY DEF OwnerUp, requestVars, taskVars
<1>11. Quiet /\ (NobodyStarts' => NobodyStarts)
  BY <1>10, QuietTasks DEF NobodyStarts, Starts
<1> QED
  BY <1>7, <1>8, <1>9, <1>10, <1>11, ServerMoves DEF Left, Sound

\* Nobody gets to start a connection when an owner or the supervision moves.
LEMMA StartsGoOn ==
    ASSUME UNCHANGED pc, SameStarts, NobodyStarts'
    PROVE  NobodyStarts
  BY DEF NobodyStarts, Starts, SameStarts

\* An owner task ends, and a server it was current of is lost.
LEMMA ExitInv ==
    ASSUME IInv, NEW n \in 1..Incarnations, NEW ready, ready # "set",
           m.owner[n].phase \in {"opening", "up", "abandoned"},
           m.owner[n].ready = "taken" => ready = "taken",
           Exit(n, ready), UNCHANGED <<pc, sends, on, pin, closed, lock>>
    PROVE  IInv'
<1>1. /\ Sound(m) /\ Shape(m) /\ OwnerSound(m, n, m.owner[n]) /\ Connected(m)
  BY DEF IInv, Sound, Whole
<1> DEFINE o == [m.owner[n] EXCEPT !.phase = "done", !.ready = ready]
           s == [m EXCEPT !.owner[n].phase = "done", !.owner[n].ready = ready,
                          !.session = IF @ = n THEN 0 ELSE @]
<1>2. /\ DOMAIN s = ServerFields /\ s.closing = m.closing /\ s.stop = m.stop
      /\ s.state = m.state /\ s.current = m.current /\ s.generation = m.generation
      /\ s.session = (IF m.session = n THEN 0 ELSE m.session) /\ s.task = m.task
      /\ s.owner = [m.owner EXCEPT ![n].phase = "done", ![n].ready = ready]
  BY <1>1 DEF Shape, ServerFields
<1>3. s.owner = [m.owner EXCEPT ![n] = o]
  BY <1>1, <1>2 DEF Shape
<1>4. /\ DOMAIN o = OwnerFields /\ o.generation = m.owner[n].generation
      /\ o.ready = ready /\ o.phase = "done"
  BY <1>1 DEF Shape, OwnerFields
<1>5. /\ Unexpected(n) => m' = Lose(s) /\ Supervise(s)
      /\ ~Unexpected(n) => m' = s /\ supervisor' = supervisor
  BY DEF Exit
<1> HIDE DEF o, s
<1>6. OwnerSound(m, n, o) /\ Settled(o, m.state)
  BY <1>1, <1>4 DEF OwnerSound, Settled, Told
<1>7. Whole(s) /\ Evolves(m, s) /\ (Idle(m) => Idle(s)) /\ Shape(s)
  <2>1. s.closing \in BOOLEAN /\ s.stop \in BOOLEAN /\ s.session \in {0, m.session}
        /\ (m.owner[n].ready = "taken" => o.ready = "taken")
    BY <1>1, <1>2, <1>4 DEF Shape
  <2> QED
    BY <1>1, <1>2, <1>3, <1>4, <1>6, <2>1, OwnerChanges DEF Whole
<1>p. \A k \in 1..Incarnations : s.owner[k] = IF k = n THEN o ELSE m.owner[k]
  BY <1>1, <1>3 DEF Shape
<1>c. m.current = 0 \/ m.current \in 1..Incarnations
  BY <1>1 DEF Shape
<1>8. Ended(m) => Ended(s)
  BY <1>2, <1>4, <1>p, <1>c DEF Ended, Phase
<1>9. ~Unexpected(n) => Connected(s)
  <2> SUFFICES ASSUME m.state = "READY", ~m.closing, ~m.stop, n # m.current
               PROVE  Connected(s)
    BY <1>2 DEF Connected, Unexpected
  <2>1. m.session # 0 /\ m.session = m.current /\ m.owner[m.current].phase = "up"
    BY <1>1 DEF Connected
  <2> QED
    BY <1>2, <1>p, <1>c, <2>1 DEF Connected
<1>10. CASE Unexpected(n)
  <2>1. Connected(s) \/ Losable(s)
    BY <1>2, <1>10 DEF Connected, Losable, Unexpected
  <2>2. /\ Sound(Lose(s)) /\ (Idle(s) => Idle(Lose(s))) /\ Evolves(s, Lose(s))
        /\ Lose(s).current = s.current /\ (s.state # "READY" => Lose(s).state = s.state)
        /\ \A k \in 1..Incarnations : Lose(s).owner[k].phase = s.owner[k].phase
    BY <1>1, <1>7, <2>1, LoseStays DEF Shape
  <2>3. Evolves(m, Lose(s))
    BY <1>1, <1>7, <2>2, Transitive DEF Sound, Whole
  <2>4. Ended(s) => Ended(Lose(s))
    BY <1>7, <2>2 DEF Ended, Phase, Shape
  <2>5. Quiet /\ SameStarts
    BY <1>5, <1>10, SuperviseStays
  <2> QED
    BY <1>5, <1>7, <1>8, <1>10, <2>2, <2>3, <2>4, <2>5, LeftAlone, StartsGoOn, ServerMoves DEF Left
<1>11. CASE ~Unexpected(n)
  BY <1>5, <1>7, <1>8, <1>9, <1>11, QuietTasks, LeftAlone, StartsGoOn, ServerMoves DEF Left, Sound
<1> QED
  BY <1>10, <1>11

\* An owner task cannot open its transport,
LEMMA OwnerFailsInv == ASSUME IInv, NEW n \in 1..Incarnations, OwnerFails(n) PROVE IInv'
<1>1. m.owner[n].ready # "taken"
  BY DEF OwnerFails, IInv, Sound, Whole, OwnerSound
<1> QED
  BY <1>1, ExitInv DEF OwnerFails

\* ends as it was told,
LEMMA OwnerEndsInv == ASSUME IInv, NEW n \in 1..Incarnations, OwnerEnds(n) PROVE IInv'
  BY ExitInv DEF OwnerEnds

\* or of an error of its own.
LEMMA OwnerCrashesInv == ASSUME IInv, NEW n \in 1..Incarnations, OwnerCrashes(n) PROVE IInv'
  BY ExitInv DEF OwnerCrashes

\* An owner is told more, and nothing else happens.
LEMMA OwnerToldInv ==
    ASSUME IInv, DOMAIN m' = ServerFields, m'.closing = m.closing, m'.stop \in BOOLEAN,
           m.stop => m'.stop,
           m'.state = m.state, m'.current = m.current, m'.generation = m.generation,
           m'.session = m.session, m'.task = m.task, DOMAIN m'.owner = 1..Incarnations,
           \A n \in 1..Incarnations : More(m.owner[n], m'.owner[n])
    PROVE  Left(m') /\ (Idle(m) => Idle(m'))
<1>1. Sound(m) /\ Shape(m)
  BY DEF IInv, Sound, Whole
<1>2. Sound(m') /\ Evolves(m, m') /\ (Idle(m) => Idle(m'))
  BY <1>1, TellingStays DEF Shape
<1>3. Ended(m) => Ended(m')
  BY <1>1 DEF Ended, Phase, More, Shape
<1> QED
  BY <1>2, <1>3 DEF Left

\* The transport closes by itself.
LEMMA EofInv == ASSUME IInv, NEW n \in 1..Incarnations, Eof(n) PROVE IInv'
<1>1. Shape(m)
  BY DEF IInv, Sound, Whole
<1>2. /\ DOMAIN m' = ServerFields /\ m'.closing = m.closing /\ m'.stop = m.stop
      /\ m'.state = m.state /\ m'.current = m.current /\ m'.generation = m.generation
      /\ m'.session = m.session /\ m'.task = m.task
      /\ m'.owner = [m.owner EXCEPT ![n].wake = TRUE, ![n].gone = TRUE]
  BY <1>1 DEF Eof, Shape, ServerFields
<1>3. DOMAIN m'.owner = 1..Incarnations
      /\ \A k \in 1..Incarnations : More(m.owner[k], m'.owner[k])
  <2>1. /\ DOMAIN m'.owner = 1..Incarnations
        /\ \A k \in 1..Incarnations :
              m'.owner[k] = IF k = n THEN [m.owner[k] EXCEPT !.wake = TRUE, !.gone = TRUE]
                            ELSE m.owner[k]
    BY <1>1, <1>2 DEF Shape
  <2> QED
    BY <1>1, <2>1 DEF Shape, More, OwnerFields
<1>4. UNCHANGED <<pc, sends, on, pin, closed, lock, supervisor>>
  BY DEF Eof, requestVars, taskVars
<1>5. m'.stop \in BOOLEAN
  BY <1>1, <1>2 DEF Shape
<1> QED
  BY <1>2, <1>3, <1>4, <1>5, OwnerToldInv, QuietTasks, StartsGoOn, LeftAlone, ServerMoves

\* The server stops to answer.
LEMMA HangInv == ASSUME IInv, NEW n \in 1..Incarnations, Hang(n) PROVE IInv'
<1>1. Shape(m)
  BY DEF IInv, Sound, Whole
<1>2. /\ DOMAIN m' = ServerFields /\ m'.closing = m.closing /\ m'.stop = m.stop
      /\ m'.state = m.state /\ m'.current = m.current /\ m'.generation = m.generation
      /\ m'.session = m.session /\ m'.task = m.task
      /\ m'.owner = [m.owner EXCEPT ![n].gone = TRUE]
  BY <1>1 DEF Hang, Shape, ServerFields
<1>3. DOMAIN m'.owner = 1..Incarnations
      /\ \A k \in 1..Incarnations : More(m.owner[k], m'.owner[k])
  BY <1>1, <1>2 DEF Shape, More, OwnerFields
<1>4. UNCHANGED <<pc, sends, on, pin, closed, lock, supervisor>>
  BY DEF Hang, requestVars, taskVars
<1>5. m'.stop \in BOOLEAN
  BY <1>1, <1>2 DEF Shape
<1> QED
  BY <1>2, <1>3, <1>4, <1>5, OwnerToldInv, QuietTasks, StartsGoOn, LeftAlone, ServerMoves

\* An owner that is cancelled.
LEMMA CancelledOwner ==
    ASSUME IInv, NEW n, m' = [m EXCEPT !.owner[n].cancel = TRUE]
    PROVE  Left(m') /\ (Idle(m) => Idle(m'))
<1>1. Shape(m)
  BY DEF IInv, Sound, Whole
<1>2. /\ DOMAIN m' = ServerFields /\ m'.closing = m.closing /\ m'.stop = m.stop
      /\ m'.state = m.state /\ m'.current = m.current /\ m'.generation = m.generation
      /\ m'.session = m.session /\ m'.task = m.task
      /\ m'.owner = [m.owner EXCEPT ![n].cancel = TRUE]
  BY <1>1 DEF Shape, ServerFields
<1>3. DOMAIN m'.owner = 1..Incarnations
      /\ \A k \in 1..Incarnations : More(m.owner[k], m'.owner[k])
  BY <1>1, <1>2 DEF Shape, More, OwnerFields
<1>5. m'.stop \in BOOLEAN
  BY <1>1, <1>2 DEF Shape
<1> QED
  BY <1>2, <1>3, <1>5, OwnerToldInv

----------------------------------------------------------------------------
(* The reconnect tasks and the liveness check *)

\* A reconnect task: the owner of the lost connection has ended,
LEMMA OldEndedInv == ASSUME IInv, NEW i \in Supervisors, OldEnded(i) PROVE IInv'
<1>1. /\ UNCHANGED <<m, pc, sends, on, pin, closed, lock>>
      /\ supervisor[i].phase = "waits" /\ supervisor' = [supervisor EXCEPT ![i].phase = "sleeps"]
  BY DEF OldEnded, requestVars, Reach
<1>2. Quiet /\ SameStarts
  BY <1>1 DEF Quiet, SameStarts, IInv, Typed
<1> QED
  BY <1>1, <1>2, StartsGoOn, LeftAlone, ServerMoves

\* or was cancelled after its grace period.
LEMMA OldCancelledInv == ASSUME IInv, NEW i \in Supervisors, OldCancelled(i) PROVE IInv'
<1>1. /\ UNCHANGED <<pc, sends, on, pin, closed, lock, supervisor>>
      /\ m' = [m EXCEPT !.owner[supervisor[i].old].cancel = TRUE]
  BY DEF OldCancelled, requestVars, taskVars
<1> QED
  BY <1>1, CancelledOwner, QuietTasks, StartsGoOn, LeftAlone, ServerMoves

\* An attempt to reconnect, with the lock.
LEMMA AttemptStays ==
    ASSUME IInv, NEW i \in Supervisors, Free(i), Idle(m), NEW phase,
           NEW queue \in Seq(All), queue # <<>>, Head(queue) = i, Attempt(i, queue, phase),
           UNCHANGED <<pc, sends, on, pin, closed>>
    PROVE  IInv'
<1>1. /\ DOMAIN supervisor = Supervisors /\ DOMAIN supervisor[i] = {"phase", "old", "tries"}
      /\ Sound(m) /\ Shape(m)
  BY DEF IInv, Typed, Sound, Whole
<1> DEFINE tried == IF phase = "sleeps" THEN supervisor[i].tries + 1 ELSE supervisor[i].tries
<1>2. CASE /\ supervisor' = [[supervisor EXCEPT ![i].tries = tried] EXCEPT ![i] = Supervisor("none", 0)]
           /\ lock' = Tail(queue)
           /\ UNCHANGED m
  <2>1. supervisor' = [supervisor EXCEPT ![i] = Supervisor("none", 0)]
    BY <1>1, <1>2
  <2>2. /\ DOMAIN Supervisor("none", 0) = {"phase", "old", "tries"}
        /\ Supervisor("none", 0).phase = "none"
    BY DEF Supervisor
  <2> QED
    BY <1>2, <2>1, <2>2, TailStays, LeftAlone, SupervisorMoves
<1>3. CASE /\ m.state = "RECONNECTING" /\ ~closed /\ m.current < Incarnations
           /\ supervisor' = [[supervisor EXCEPT ![i].tries = tried] EXCEPT ![i].phase = "starting"]
           /\ lock' = queue
           /\ m' = Open(m)
  <2> DEFINE task == [supervisor[i] EXCEPT !.tries = tried, !.phase = "starting"]
  <2>1. /\ supervisor' = [supervisor EXCEPT ![i] = task]
        /\ DOMAIN task = {"phase", "old", "tries"} /\ task.phase = "starting"
    BY <1>1, <1>3
  <2>2. Sound(m') /\ Evolves(m, m') /\ m'.current = m.current + 1
    BY <1>1, <1>3, OpenStays
  <2>3. Left(m') /\ m'.current # 0 /\ Holds(i)'
    BY <1>1, <1>3, <2>2 DEF Left, Shape, Holds
  <2> HIDE DEF task
  <2>4. ~NobodyStarts'
    BY <1>1, <2>1 DEF NobodyStarts, Starts, All
  <2> QED
    BY <1>3, <2>1, <2>3, <2>4, SupervisorMoves
<1> QED
  BY <1>2, <1>3 DEF Attempt

\* A reconnect task comes to the lock when its pause is over.
LEMMA BackoffOverInv == ASSUME IInv, NEW i \in Supervisors, BackoffOver(i) PROVE IInv'
<1>1. /\ UNCHANGED <<pc, sends, on, pin, closed>> /\ i \in All /\ lock \in Seq(All)
      /\ supervisor[i].phase = "sleeps" /\ ~Starts(i)
      /\ DOMAIN supervisor = Supervisors /\ DOMAIN supervisor[i] = {"phase", "old", "tries"}
  BY Distinct DEF BackoffOver, requestVars, All, IInv, Typed, Starts
<1>2. CASE lock = <<>> /\ Attempt(i, <<i>>, "sleeps")
  <2>1. Free(i)
    BY <1>2 DEF Free, IInv, Locking, Holds
  <2>2. Idle(m)
    BY <1>1, <1>2, NobodyElse
  <2>3. <<i>> \in Seq(All) /\ <<i>> # <<>> /\ Head(<<i>>) = i
    BY <1>1
  <2> QED
    BY <1>1, <1>2, <2>1, <2>2, <2>3, AttemptStays
<1>3. CASE /\ lock # <<>>
           /\ supervisor' = [supervisor EXCEPT ![i].phase = "queued", ![i].tries = @ + 1]
           /\ lock' = Append(lock, i)
           /\ UNCHANGED m
  <2> DEFINE task == [supervisor[i] EXCEPT !.phase = "queued", !.tries = @ + 1]
  <2>1. /\ supervisor' = [supervisor EXCEPT ![i] = task]
        /\ DOMAIN task = {"phase", "old", "tries"} /\ task.phase = "queued"
    BY <1>1, <1>3
  <2>2. lock' \in Seq(All) /\ Kept
    BY <1>1, <1>3, AppendKeeps DEF Kept, Holds
  <2> HIDE DEF task
  <2>3. SameStarts
    BY <1>1, <2>1 DEF SameStarts
  <2> QED
    BY <1>1, <1>3, <2>1, <2>2, <2>3, StartsGoOn, LeftAlone, SupervisorMoves
<1> QED
  BY <1>2, <1>3 DEF BackoffOver

\* The lock falls to a reconnect task.
LEMMA AttemptGrantedInv == ASSUME IInv, NEW i \in Supervisors, AttemptGranted(i) PROVE IInv'
<1>1. /\ UNCHANGED <<pc, sends, on, pin, closed>> /\ i \in All /\ lock \in Seq(All)
      /\ supervisor[i].phase = "queued" /\ ~Starts(i) /\ Holds(i) /\ Attempt(i, lock, "queued")
  BY Distinct DEF AttemptGranted, requestVars, All, IInv, Typed, Starts
<1>2. Free(i) /\ Idle(m)
  BY <1>1, HandOver, NobodyElse
<1> QED
  BY <1>1, <1>2, AttemptStays DEF Holds

\* The last attempt has failed.
LEMMA ExhaustedLeaves ==
    ASSUME IInv, NEW s, Left(s), Idle(s)
    PROVE  Left(Exhausted(s)) /\ Idle(Exhausted(s))
<1> DEFINE t == Exhausted(s)
<1>1. Whole(s) /\ Shape(s) /\ Connected(s) /\ Evolves(m, s)
  BY DEF Left, Sound, Whole
<1>2. /\ DOMAIN t = ServerFields /\ t.closing = s.closing /\ t.stop = s.stop
      /\ t.state = (IF s.state = "RECONNECTING" THEN "FAILED" ELSE s.state)
      /\ t.current = s.current /\ t.generation = s.generation
      /\ t.session = s.session /\ t.task = s.task /\ t.owner = s.owner
  BY <1>1 DEF Shape, ServerFields, Exhausted
<1> HIDE DEF t
<1>3. Shape(t)
  BY <1>1, <1>2 DEF Shape, States
<1>4. Sound(t) /\ Evolves(m, t) /\ Idle(t)
  BY <1>1, <1>2, <1>3 DEF Sound, Whole, OwnerSound, SessionSound, Connected, Evolves, Idle, Settled
<1>5. Ended(s) => Ended(t)
  BY <1>2 DEF Ended, Phase
<1> QED
  BY <1>4, <1>5 DEF Left, t

\* The owner a reconnect task awaits has come up or failed.
LEMMA AttemptedInv == ASSUME IInv, NEW i \in Supervisors, Attempted(i) PROVE IInv'
<1>1. /\ UNCHANGED <<pc, sends, on, pin, closed>> /\ i \in All
      /\ supervisor[i].phase = "starting" /\ lock' = Tail(lock)
      /\ DOMAIN supervisor = Supervisors /\ DOMAIN supervisor[i] = {"phase", "old", "tries"}
  BY DEF Attempted, requestVars, All, IInv, Typed
<1>2. Holds(i) /\ m.current # 0
  BY <1>1 DEF IInv, Locking, Begun, InLock, Attempting
<1>3. lock' \in Seq(All) /\ Free(i)
  BY <1>1, <1>2, HandOver
<1> DEFINE ready == m.owner[m.current].ready
           s == IF ready = "set" THEN Adopt(m) ELSE GiveUp(m)
<1>4. Left(s) /\ Idle(s)
  BY <1>2, StartedLeaves DEF Attempted
<1>5. m' = s \/ m' = Exhausted(s)
  BY DEF Attempted
<1>6. Left(m') /\ Idle(m')
  <2> HIDE DEF s
  <2> QED
    BY <1>4, <1>5, ExhaustedLeaves
<1>7. PICK task : /\ supervisor' = [supervisor EXCEPT ![i] = task]
                  /\ DOMAIN task = {"phase", "old", "tries"} /\ task.phase \in {"none", "sleeps"}
  <2>1. CASE supervisor' = [supervisor EXCEPT ![i] = Supervisor("none", 0)]
    <3>1. /\ DOMAIN Supervisor("none", 0) = {"phase", "old", "tries"}
          /\ Supervisor("none", 0).phase = "none"
      BY DEF Supervisor
    <3> QED
      BY <2>1, <3>1
  <2>2. CASE supervisor' = [supervisor EXCEPT ![i].phase = "sleeps"]
    <3> DEFINE task == [supervisor[i] EXCEPT !.phase = "sleeps"]
    <3>1. supervisor' = [supervisor EXCEPT ![i] = task]
          /\ DOMAIN task = {"phase", "old", "tries"} /\ task.phase = "sleeps"
      BY <1>1, <2>2
    <3> QED
      BY <3>1
  <2> QED
    BY <2>1, <2>2 DEF Attempted, Reach
<1> QED
  BY <1>1, <1>3, <1>6, <1>7, SupervisorMoves

\* The attempt of a reconnect task that was cancelled is given up.
LEMMA AttemptAbortedInv == ASSUME IInv, NEW i \in Supervisors, AttemptAborted(i) PROVE IInv'
<1>1. /\ UNCHANGED <<m, pc, sends, on, pin, closed>> /\ i \in All
      /\ supervisor[i].phase = "aborting" /\ lock' = Tail(lock) /\ ~Starts(i)
      /\ supervisor' = [supervisor EXCEPT ![i] = Supervisor("none", 0)]
  BY Distinct DEF AttemptAborted, requestVars, All, Starts
<1>2. Holds(i)
  BY <1>1 DEF IInv, Locking, InLock, Attempting
<1>3. lock' \in Seq(All) /\ Free(i) /\ Idle(m)
  BY <1>1, <1>2, HandOver, NobodyElse
<1>4. /\ DOMAIN Supervisor("none", 0) = {"phase", "old", "tries"}
      /\ Supervisor("none", 0).phase = "none"
  BY DEF Supervisor
<1> QED
  BY <1>1, <1>3, <1>4, LeftAlone, SupervisorMoves

\* The liveness check: the server answers,
LEMMA PingAnsweredInv == ASSUME IInv, PingAnswered PROVE IInv'
<1>1. UNCHANGED <<m, pc, sends, on, pin, closed, lock, supervisor>>
  BY DEF PingAnswered, requestVars
<1> QED
  BY <1>1, QuietTasks, StartsGoOn, LeftAlone, ServerMoves

\* or it does not, and counts as lost.
LEMMA PingFailsInv == ASSUME IInv, PingFails PROVE IInv'
<1>1. UNCHANGED <<pc, sends, on, pin, closed, lock>>
  BY DEF PingFails, requestVars
<1>2. CASE m' = Lose(m) /\ Supervise(m)
  BY <1>1, <1>2, SuperviseStays, LostLeft, StartsGoOn, LeftAlone, ServerMoves
<1>3. CASE UNCHANGED <<m, supervisor>>
  BY <1>1, <1>3, QuietTasks, StartsGoOn, LeftAlone, ServerMoves
<1> QED
  BY <1>2, <1>3 DEF PingFails
----------------------------------------------------------------------------
(* Closing *)

\* With nobody in the lock but a task that does not start, nobody starts.
LEMMA NobodyStartsNow ==
    ASSUME IInv, NEW p \in Procs, Free(p), Quiet, NEW place, place # "starting",
           pc' = [pc EXCEPT ![p] = place]
    PROVE  NobodyStarts'
<1>1. DOMAIN pc = Procs /\ p \notin Supervisors /\ All = Procs \cup Supervisors
  BY Distinct DEF IInv, Typed, All
<1> QED
  BY <1>1 DEF NobodyStarts, Starts, Free, InLock, Attempting, Quiet

\* What surrounds the move of a closing call.
Closes(p) ==
    /\ IInv /\ Quiet /\ pin' = pin
    /\ closed' \in BOOLEAN /\ (closed => closed') /\ (p = "shutdown" => closed')
    /\ p = "reconnect" => closed' = closed

\* A closing call gets to a place.
LEMMA ClosingMoves ==
    ASSUME NEW p \in Closers, NEW place, Closes(p), pc' = [pc EXCEPT ![p] = place],
           UNCHANGED <<sends, on>>, lock' \in Seq(All), Free(p) \/ Kept, Left(m'),
           place \in {"queued", "aux", "locks", "drains", "stops", "kills", "ended"},
           place \in {"drains", "stops", "kills"} => Holds(p)',
           NobodyStarts' => Idle(m'),
           place = "ended" => Ended(m)' /\ NobodyStarts'
    PROVE  IInv'
<1>1. p \in Procs /\ p \notin Callers /\ DOMAIN sends = Callers /\ DOMAIN on = Callers
  BY Distinct DEF Closes, IInv, Typed
<1> QED
  BY <1>1, Moves DEF Closes

\* The end of _close, with the lock.
LEMMA FinishStays ==
    ASSUME NEW p \in Closers, Closes(p), Free(p), NEW s, Whole(s), Evolves(m, s), Idle(s),
           s.current = m.current, Phase(s) \notin {"opening", "up"},
           NEW queue \in Seq(All), queue # <<>>, Head(queue) = p, Finish(p, s, queue)
    PROVE  IInv'
<1>1. p \in Procs /\ p \in All /\ p \notin Callers
  BY Distinct DEF All
<1> DEFINE t == ClosedServer(s)
<1>2. /\ Sound(t) /\ Idle(t) /\ Evolves(s, t) /\ t.current = m.current
      /\ t.state = "DISCONNECTED"
  BY ClosedStays
<1>3. Shape(m) /\ Shape(s) /\ Shape(t)
  BY <1>2 DEF Closes, IInv, Sound, Whole
<1>4. Phase(t) = Phase(s)
  BY <1>3 DEF ClosedServer, Phase, Shape, ServerFields
<1>5. Left(t) /\ Ended(t)
  BY <1>2, <1>3, <1>4, Transitive DEF Left, Ended
<1> HIDE DEF t
<1>6. Tail(queue) \in Seq(All)
  OBVIOUS
<1>7. CASE p = "reconnect" /\ Connect(p, t, <<p>>)
  <2>1. <<p>> \in Seq(All) /\ <<p>> # <<>> /\ Head(<<p>>) = p
    BY <1>1
  <2> QED
    BY <1>1, <1>2, <1>5, <1>7, <2>1, ConnectStays DEF Closes
<1>8. CASE /\ m' = t /\ lock' = Append(Tail(queue), p) /\ pc' = [pc EXCEPT ![p] = "queued"]
           /\ UNCHANGED <<sends, on, result>>
  <2>1. lock' \in Seq(All)
    BY <1>1, <1>6, <1>8
  <2> QED
    BY <1>1, <1>2, <1>5, <1>8, <2>1, ClosingMoves
<1>9. CASE /\ m' = t /\ lock' = Tail(queue) /\ pc' = [pc EXCEPT ![p] = "ended"]
           /\ UNCHANGED <<sends, on, result>>
  <2>1. NobodyStarts'
    BY <1>1, <1>9, NobodyStartsNow DEF Closes
  <2>2. Ended(m)'
    BY <1>5, <1>9 DEF Ended, Phase
  <2> QED
    BY <1>1, <1>2, <1>5, <1>6, <1>9, <2>1, <2>2, ClosingMoves
<1> QED
  BY <1>7, <1>8, <1>9 DEF Finish, ClosedServer, t

\* The owner is woken.
LEMMA WokenLeaves ==
    ASSUME Sound(m), NEW s, Left(s), NEW t,
           t = [s EXCEPT !.stop = TRUE, !.owner[s.current].wake = TRUE]
    PROVE  Left(t) /\ (Idle(s) => Idle(t))
<1>1. Sound(s) /\ Shape(s) /\ Shape(m) /\ Evolves(m, s)
  BY DEF Left, Sound, Whole
<1>2. /\ DOMAIN t = ServerFields /\ t.closing = s.closing /\ t.stop = TRUE
      /\ t.state = s.state /\ t.current = s.current /\ t.generation = s.generation
      /\ t.session = s.session /\ t.task = s.task
      /\ t.owner = [s.owner EXCEPT ![s.current].wake = TRUE]
  BY <1>1 DEF Shape, ServerFields
<1>3. DOMAIN t.owner = 1..Incarnations
      /\ \A k \in 1..Incarnations : More(s.owner[k], t.owner[k])
  BY <1>1, <1>2 DEF Shape, More, OwnerFields
<1>4. Sound(t) /\ Evolves(s, t) /\ (Idle(s) => Idle(t))
  <2>1. /\ t.closing \in BOOLEAN /\ t.stop \in BOOLEAN
        /\ s.closing => t.closing
        /\ s.stop => t.stop
    BY <1>1, <1>2 DEF Shape
  <2> QED
    BY ZenonT(60), <1>1, <1>2, <1>3, <2>1, TellingStays
<1>5. Evolves(m, t)
  BY <1>1, <1>4, Transitive DEF Sound, Whole
<1>6. Ended(s) => Ended(t)
  BY <1>1, <1>2, <1>3 DEF Ended, Phase, More, Shape
<1> QED
  BY <1>4, <1>5, <1>6 DEF Left

\* _stop_owner, with the lock.
LEMMA StopOwnerStays ==
    ASSUME NEW p \in Closers, Closes(p), Free(p), NEW s, Left(s), Idle(s), s.current = m.current,
           NEW queue \in Seq(All), queue # <<>>, Head(queue) = p, StopOwner(p, s, queue)
    PROVE  IInv'
<1>1. CASE Phase(s) = "done" /\ Finish(p, s, queue)
  BY <1>1, FinishStays DEF Left, Sound
<1>2. CASE /\ lock' = queue /\ UNCHANGED <<sends, on, result>>
           /\ m' = s /\ pc' = [pc EXCEPT ![p] = "drains"]
  BY <1>2, ClosingMoves DEF Holds
<1>3. CASE /\ lock' = queue /\ UNCHANGED <<sends, on, result>>
           /\ m' = [s EXCEPT !.stop = TRUE, !.owner[s.current].wake = TRUE]
           /\ pc' = [pc EXCEPT ![p] = "stops"]
  <2>1. Left(m') /\ Idle(m')
    BY <1>3, WokenLeaves DEF Closes, IInv
  <2> QED
    BY <1>3, <2>1, ClosingMoves DEF Holds
<1> QED
  BY <1>1, <1>2, <1>3 DEF StopOwner

\* _close comes to the lock.
LEMMA LockToCloseStays ==
    ASSUME NEW p \in Closers, Closes(p), ~Starts(p), NEW s, Left(s), s.current = m.current,
           NobodyStarts \/ NobodyStarts' => Idle(s), NEW queue \in Seq(All),
           queue = <<>> => Free(p),
           \A q \in All : InLock(q)' /\ Holds(q) => queue # <<>> /\ Head(queue) = q,
           LockToClose(p, s, queue)
    PROVE  IInv'
<1>1. p \in All /\ p \in Procs
  BY Distinct DEF All
<1>2. CASE queue = <<>>
  <2>1. NobodyStarts
    BY <1>1, <1>2 DEF NobodyStarts, Free, InLock, Attempting, Starts
  <2>2. <<p>> \in Seq(All) /\ <<p>> # <<>> /\ Head(<<p>>) = p
    BY <1>1
  <2> QED
    BY <1>2, <2>1, <2>2, StopOwnerStays DEF LockToClose
<1>3. CASE queue # <<>>
  <2>1. /\ lock' = Append(queue, p) /\ m' = s /\ pc' = [pc EXCEPT ![p] = "locks"]
        /\ UNCHANGED <<sends, on>>
    BY <1>3 DEF LockToClose
  <2>2. lock' \in Seq(All) /\ Kept
    BY <1>1, <1>3, <2>1, AppendKeeps DEF Kept, Holds
  <2> QED
    BY <2>1, <2>2, ClosingMoves
<1> QED
  BY <1>2, <1>3

\* The attempt it finds under way is cut short.
LEMMA CutLeaves ==
    ASSUME IInv, NEW s, Left(s), s.current = m.current
    PROVE  /\ Left(CutShort(s)) /\ CutShort(s).current = m.current
           /\ Idle(s) => Idle(CutShort(s))
<1>1. Sound(s) /\ Sound(m)
  BY DEF Left, IInv
<1>2. /\ Sound(CutShort(s)) /\ Evolves(s, CutShort(s)) /\ (Idle(s) => Idle(CutShort(s)))
      /\ CutShort(s).current = s.current /\ CutShort(s).state = s.state
  BY <1>1, CutShortStays
<1>3. Evolves(m, CutShort(s))
  BY <1>1, <1>2, Transitive DEF Left, Sound, Whole
<1>4. Ended(s) => Ended(CutShort(s))
  BY DEF Ended, CutShort
<1> QED
  BY <1>2, <1>3, <1>4 DEF Left

\* _close takes the server over.
LEMMA ClosingLeaves ==
    ASSUME IInv, NEW t, t = [m EXCEPT !.closing = TRUE]
    PROVE  Left(t) /\ (Idle(m) => Idle(t)) /\ t.current = m.current
<1>1. Sound(m) /\ Shape(m)
  BY DEF IInv, Sound, Whole
<1>2. /\ DOMAIN t = ServerFields /\ t.closing = TRUE /\ t.stop = m.stop
      /\ t.state = m.state /\ t.current = m.current /\ t.generation = m.generation
      /\ t.session = m.session /\ t.task = m.task /\ t.owner = m.owner
  BY <1>1 DEF Shape, ServerFields
<1>3. DOMAIN t.owner = 1..Incarnations
      /\ \A k \in 1..Incarnations : More(m.owner[k], t.owner[k])
  BY <1>1, <1>2 DEF Shape, More
<1>4. /\ t.closing \in BOOLEAN /\ t.stop \in BOOLEAN
      /\ m.closing => t.closing
      /\ m.stop => t.stop
  BY <1>1, <1>2 DEF Shape
<1>5. Sound(t) /\ Evolves(m, t) /\ (Idle(m) => Idle(t))
  BY <1>1, <1>2, <1>3, <1>4, TellingStays
<1>6. Ended(m) => Ended(t)
  BY <1>2 DEF Ended, Phase
<1> QED
  BY <1>2, <1>5, <1>6 DEF Left

\* close, remove or reconnect is called.
LEMMA CloseInv == ASSUME IInv, NEW p \in Closers, Close(p) PROVE IInv'
<1> DEFINE starting == supervisor[m.task].phase = "starting"
           cut == IF starting
                  THEN [m EXCEPT !.closing = TRUE, !.stop = TRUE, !.owner[m.current].cancel = TRUE,
                                 !.owner[m.current].ready = "taken"]
                  ELSE [m EXCEPT !.closing = TRUE]
           s == CutShort(cut)
           queue == IF starting THEN lock ELSE Without(lock, m.task)
<1>1. /\ pc[p] = "idle" /\ closed' = (closed \/ p = "shutdown") /\ pin' = pin
      /\ IF starting
         THEN Reach(m.task, "aborting")
         ELSE supervisor' = [supervisor EXCEPT ![m.task] = Supervisor("none", 0)]
      /\ \/ /\ Supervised \/ liveness # 0
            /\ m' = s /\ lock' = queue /\ pc' = [pc EXCEPT ![p] = "aux"]
            /\ UNCHANGED <<sends, on>>
         \/ ~Supervised /\ LockToClose(p, s, queue)
  BY DEF Close
<1>2. /\ closed \in BOOLEAN /\ lock \in Seq(All) /\ m.task \in Supervisors /\ m.task \in All
      /\ DOMAIN supervisor = Supervisors /\ m.task \notin Procs /\ p \in Procs
      /\ \A i \in Supervisors : DOMAIN supervisor[i] = {"phase", "old", "tries"}
  BY Distinct DEF IInv, Typed, Sound, Whole, Shape, All
<1>3. /\ DOMAIN supervisor' = Supervisors
      /\ \A i \in Supervisors : /\ DOMAIN supervisor'[i] = {"phase", "old", "tries"}
                                /\ i # m.task => supervisor'[i] = supervisor[i]
      /\ supervisor'[m.task].phase = IF starting THEN "aborting" ELSE "none"
  BY <1>1, <1>2 DEF Reach, Supervisor
<1>4. Quiet
  BY <1>2, <1>3 DEF Quiet
<1>5. Closes(p)
  BY <1>1, <1>2, <1>4 DEF Closes
<1>6. ~Starts(p)
  BY <1>1, Distinct DEF Starts
<1>7. Left(cut) /\ cut.current = m.current
      /\ (starting => Idle(cut)) /\ (~starting /\ Idle(m) => Idle(cut))
  <2>1. CASE starting
    <3>1. m.current # 0
      BY <1>2, <2>1 DEF IInv, Begun, Attempting
    <3> QED
      BY <2>1, <3>1, AbortLeaves
  <2>2. CASE ~starting
    BY <2>2, ClosingLeaves
  <2> QED
    BY <2>1, <2>2
<1> HIDE DEF cut
<1>8. Left(s) /\ s.current = m.current /\ (Idle(cut) => Idle(s))
  BY <1>7, CutLeaves
<1> HIDE DEF s
<1>9. ~starting => SameStarts
  BY <1>3 DEF SameStarts
<1>10. \E place : pc' = [pc EXCEPT ![p] = place]
  BY <1>1 DEF LockToClose, StopOwner, Finish, Connect, Continue, Proceed, End
<1>11. NobodyStarts \/ NobodyStarts' => Idle(s)
  BY <1>2, <1>6, <1>7, <1>8, <1>9, <1>10, NobodyStarted, LeftAlone
<1>12. queue \in Seq(All)
  BY <1>2, WithoutKeeps
<1>13. ASSUME NEW q \in All, InLock(q)', Holds(q)
       PROVE  queue # <<>> /\ Head(queue) = q
  <2>1. CASE starting
    BY <1>13, <2>1 DEF Holds
  <2>2. CASE ~starting
    <3>1. q # m.task
      BY <1>2, <1>3, <1>13, <2>2 DEF InLock, Attempting
    <3> QED
      BY <1>2, <1>13, <2>2, <3>1, WithoutKeeps DEF Holds
  <2> QED
    BY <2>1, <2>2
<1>14. CASE /\ m' = s /\ lock' = queue /\ pc' = [pc EXCEPT ![p] = "aux"]
            /\ UNCHANGED <<sends, on>>
  <2>1. Kept
    BY <1>13, <1>14 DEF Kept, Holds
  <2> HIDE DEF queue
  <2> QED
    BY <1>5, <1>8, <1>11, <1>12, <1>14, <2>1, ClosingMoves
<1>15. CASE ~Supervised /\ LockToClose(p, s, queue)
  <2>1. supervisor[m.task].phase = "none" /\ ~starting /\ ~InLock(m.task)
    BY <1>2, <1>15 DEF Supervised, InLock, Attempting
  <2>2. queue = <<>> => Free(p)
    <3> SUFFICES ASSUME queue = <<>>, NEW q \in All, InLock(q)
                 PROVE  q = p
      BY DEF Free
    <3>1. Holds(q) /\ q # m.task
      BY <2>1 DEF IInv, Locking
    <3> QED
      BY <1>2, <2>1, <3>1, WithoutKeeps DEF Holds
  <2> HIDE DEF queue
  <2> QED
    BY <1>5, <1>6, <1>8, <1>11, <1>12, <1>13, <1>15, <2>2, LockToCloseStays
<1> QED
  BY <1>1, <1>14, <1>15

\* A closing call goes on, with nothing else changed.
LEMMA ClosesOn ==
    ASSUME IInv, NEW p \in Closers, pc[p] # "idle", UNCHANGED <<closed, pin, supervisor>>
    PROVE  Closes(p)
  BY QuietTasks DEF Closes, IInv, Typed, ShutDown

\* The reconnect and ping tasks a closing call cancelled are over.
LEMMA AuxOverInv == ASSUME IInv, NEW p \in Closers, AuxOver(p) PROVE IInv'
<1>1. Closes(p) /\ ~Starts(p) /\ lock \in Seq(All) /\ pc[p] = "aux" /\ p \in Procs
      /\ supervisor' = supervisor
  BY ClosesOn, Distinct DEF AuxOver, Starts, IInv, Typed
<1>2. lock = <<>> => Free(p)
  BY DEF Free, IInv, Locking, Holds
<1>3. \E place : pc' = [pc EXCEPT ![p] = place]
  BY DEF AuxOver, LockToClose, StopOwner, Finish, Connect, Continue, Proceed, End
<1>4. NobodyStarts \/ NobodyStarts' => Idle(m)
  BY <1>1, <1>3, NobodyStarted, LeftAlone, QuietTasks
<1>5. \A q \in All : InLock(q)' /\ Holds(q) => lock # <<>> /\ Head(lock) = q
  BY DEF Holds
<1> QED
  BY <1>1, <1>2, <1>4, <1>5, LeftAlone, LockToCloseStays DEF AuxOver

\* Who closes with the lock has the server to itself.
LEMMA HasServer ==
    ASSUME IInv, NEW p \in Closers, ~Starts(p), Holds(p)
    PROVE  /\ Free(p) /\ Idle(m) /\ Left(m) /\ p \in Procs
           /\ lock \in Seq(All) /\ lock # <<>> /\ Head(lock) = p
<1>1. p \in All /\ p \in Procs /\ lock \in Seq(All)
  BY Distinct DEF All, IInv, Typed
<1> QED
  BY <1>1, HandOver, NobodyElse, LeftAlone DEF Holds

\* The lock falls to a closing call.
LEMMA CloseGrantedInv == ASSUME IInv, NEW p \in Closers, CloseGranted(p) PROVE IInv'
<1>1. Closes(p) /\ ~Starts(p) /\ Holds(p)
  BY ClosesOn, Distinct DEF CloseGranted, Starts
<1> QED
  BY <1>1, HasServer, StopOwnerStays DEF CloseGranted

\* What a closing call has the lock for.
LEMMA ClosesWithLock ==
    ASSUME IInv, NEW p \in Closers, pc[p] \in {"drains", "stops", "kills"},
           UNCHANGED <<closed, pin, supervisor>>
    PROVE  Closes(p) /\ ~Starts(p) /\ Holds(p)
<1>1. p \in Procs /\ p \in All /\ p \notin Supervisors
  BY Distinct DEF All
<1> QED
  BY <1>1, ClosesOn DEF Starts, IInv, Locking, InLock

\* The requests under way are drained.
LEMMA DrainedInv == ASSUME IInv, NEW p \in Closers, Drained(p) PROVE IInv'
<1>1. Closes(p) /\ ~Starts(p) /\ Holds(p)
  BY ClosesWithLock DEF Drained
<1>2. /\ Free(p) /\ Idle(m) /\ Left(m) /\ lock \in Seq(All)
  BY <1>1, HasServer
<1>3. Left(m') /\ Idle(m')
  BY <1>2, WokenLeaves DEF Drained, IInv
<1> QED
  BY <1>1, <1>2, <1>3, ClosingMoves DEF Drained, Holds

\* The owner ended as it was told.
LEMMA OwnerStoppedInv == ASSUME IInv, NEW p \in Closers, OwnerStopped(p) PROVE IInv'
<1>1. Closes(p) /\ ~Starts(p) /\ Holds(p)
  BY ClosesWithLock DEF OwnerStopped, taskVars
<1> QED
  BY <1>1, HasServer, FinishStays DEF OwnerStopped, Left, Sound

\* It did not, and is cancelled.
LEMMA KillInv == ASSUME IInv, NEW p \in Closers, Kill(p) PROVE IInv'
<1>1. Closes(p) /\ ~Starts(p) /\ Holds(p)
  BY ClosesWithLock DEF Kill, requestVars, taskVars
<1>2. /\ Free(p) /\ Idle(m) /\ Left(m) /\ lock \in Seq(All)
  BY <1>1, HasServer
<1>3. Left(m') /\ Idle(m')
  BY <1>2, CancelledOwner DEF Kill
<1> QED
  BY <1>1, <1>2, <1>3, ClosingMoves DEF Kill, Holds, requestVars

\* It does not end either, and is left to itself.
LEMMA AbandonInv == ASSUME IInv, NEW p \in Closers, Abandon(p) PROVE IInv'
<1>1. Closes(p) /\ ~Starts(p) /\ Holds(p)
  BY ClosesWithLock DEF Abandon, taskVars
<1>2. /\ Free(p) /\ Idle(m) /\ lock \in Seq(All) /\ lock # <<>> /\ Head(lock) = p
  BY <1>1, HasServer
<1> DEFINE k == m.current
           o == [m.owner[k] EXCEPT !.phase = "abandoned"]
           s == [m EXCEPT !.owner[k].phase = "abandoned"]
<1>3. Sound(m) /\ Shape(m) /\ k \in 1..Incarnations /\ OwnerSound(m, k, m.owner[k])
      /\ m.owner[k].phase # "done"
  BY DEF IInv, Sound, Whole, Shape, Abandon, Phase
<1>4. /\ DOMAIN s = ServerFields /\ s.closing = m.closing /\ s.stop = m.stop
      /\ s.state = m.state /\ s.current = m.current /\ s.generation = m.generation
      /\ s.session = m.session /\ s.task = m.task
      /\ s.owner = [m.owner EXCEPT ![k].phase = "abandoned"]
  BY <1>3 DEF Shape, ServerFields
<1>5. s.owner = [m.owner EXCEPT ![k] = o]
  BY <1>3, <1>4 DEF Shape
<1>6. /\ DOMAIN o = OwnerFields /\ o.generation = m.owner[k].generation
      /\ o.ready = m.owner[k].ready /\ o.phase = "abandoned"
  BY <1>3 DEF Shape, OwnerFields
<1> HIDE DEF o, s
<1>7. m.owner[k].ready # "set"
  BY <1>2, <1>3 DEF Idle, Settled
<1>8. OwnerSound(m, k, o) /\ Settled(o, m.state)
  BY <1>3, <1>6, <1>7 DEF OwnerSound, Settled, Told
<1>9. Whole(s) /\ Evolves(m, s) /\ Idle(s)
  BY <1>3, <1>4, <1>5, <1>6, <1>8, OwnerChanges DEF Shape
<1>10. Phase(s) = "abandoned"
  <2>1. s.owner[k] = o
    BY <1>3, <1>5 DEF Shape
  <2>2. s.current = k /\ k # 0
    BY <1>3, <1>4
  <2> HIDE DEF k
  <2> QED
    BY <1>6, <2>1, <2>2 DEF Phase
<1>11. Finish(p, s, lock)
  BY DEF Abandon, s
<1> QED
  BY <1>1, <1>2, <1>4, <1>9, <1>10, <1>11, FinishStays
----------------------------------------------------------------------------
(* The theorems *)

\* The pool before its start.
LEMMA Initially == Init => IInv
<1> SUFFICES ASSUME Init PROVE IInv
  OBVIOUS
<1>1. /\ DOMAIN m = ServerFields /\ m.state = "DISCONNECTED" /\ m.closing = FALSE /\ m.stop = FALSE
      /\ m.session = 0 /\ m.current = 0 /\ m.generation = 0 /\ m.task \in Supervisors
      /\ m.owner = [n \in 1..Incarnations |-> Owner("none")]
  BY CallersAssumption DEF Init, ServerFields
<1>2. /\ DOMAIN Owner("none") = OwnerFields /\ Owner("none").phase = "none"
      /\ Owner("none").ready = "pending"
  BY DEF Owner, OwnerFields
<1>3. Shape(m)
  <2>1. 0 \in 0..Incarnations /\ 0 \in Nat
    BY PolicyAssumption
  <2>2. DOMAIN m.owner = 1..Incarnations /\ \A n \in 1..Incarnations : m.owner[n] = Owner("none")
    BY <1>1
  <2>3. m.state \in States /\ m.closing \in BOOLEAN /\ m.stop \in BOOLEAN
    BY <1>1 DEF States
  <2> QED
    BY <1>1, <1>2, <2>1, <2>2, <2>3 DEF Shape
<1>4. /\ \A n \in 1..Incarnations : OwnerSound(m, n, m.owner[n]) /\ Settled(m.owner[n], m.state)
      /\ Connected(m) /\ SessionSound(m)
  BY <1>1, <1>2 DEF OwnerSound, Settled, Told, Connected, SessionSound
<1>5. Sound(m) /\ Idle(m)
  BY <1>3, <1>4 DEF Sound, Whole, Idle
<1>6. Typed
  <2>1. lock = <<>> /\ closed = FALSE
        /\ DOMAIN pc = Procs /\ DOMAIN supervisor = Supervisors
        /\ DOMAIN sends = Callers /\ DOMAIN on = Callers
    BY DEF Init
  <2>2. \A i \in Supervisors : DOMAIN supervisor[i] = {"phase", "old", "tries"}
    BY DEF Init, Supervisor
  <2>3. lock \in Seq(All)
    BY <2>1
  <2> QED
    BY <2>1, <2>2, <2>3 DEF Typed
<1>7. \A q \in All : ~InLock(q)
  BY Distinct DEF Init, InLock, Attempting, Supervisor, All
<1>8. Locking /\ Begun
  BY <1>5, <1>7 DEF Locking, Begun, InLock
<1>9. CallersSound
  BY Distinct DEF Init, CallersSound, CallerSound, Attempts
<1>10. ShutDown
  BY Distinct DEF Init, ShutDown
<1> QED
  BY <1>5, <1>6, <1>8, <1>9, <1>10 DEF IInv

\* A step in which nothing happens.
LEMMA Unchanging == ASSUME IInv, UNCHANGED vars PROVE IInv'
<1>1. UNCHANGED <<m, pc, sends, on, pin, closed, lock, supervisor>>
  BY DEF vars
<1> QED
  BY <1>1, QuietTasks, StartsGoOn, LeftAlone, ServerMoves

\* Every step keeps the invariant.
LEMMA Inductive == ASSUME IInv, [Next]_vars PROVE IInv'
<1>1. CASE Start
  BY <1>1, StartInv
<1>2. CASE Requesting
  BY <1>2, WaitOverInv, AnsweredInv, TimedOutInv, ConnectionLostInv, RequestAbortedInv,
     StartAbortedInv DEF Requesting
<1>3. CASE Starting
  BY <1>3, GrantedInv, StartedInv DEF Starting
<1>4. CASE Owning
  BY <1>4, OwnerUpInv, OwnerEndsInv DEF Owning
<1>5. CASE Faulty
  BY <1>5, OwnerFailsInv, OwnerCrashesInv, EofInv, HangInv DEF Faulty
<1>6. CASE Supervising
  BY <1>6, OldEndedInv, OldCancelledInv, BackoffOverInv, AttemptGrantedInv, AttemptedInv,
     AttemptAbortedInv DEF Supervising, Supervision
<1>7. CASE Pinging
  BY <1>7, PingAnsweredInv, PingFailsInv DEF Pinging
<1>8. CASE Closing
  BY <1>8, AuxOverInv, CloseGrantedInv, DrainedInv, OwnerStoppedInv, KillInv, AbandonInv DEF Closing
<1>9. CASE Asking
  BY <1>9, CallInv, CallerCancelledInv, CloseInv DEF Asking
<1>10. CASE UNCHANGED vars
  BY <1>10, Unchanging
<1> QED
  BY <1>1, <1>2, <1>3, <1>4, <1>5, <1>6, <1>7, <1>8, <1>9, <1>10 DEF Next

\* The inductive invariant of the connection manager.
THEOREM ConnectionInvariant == Spec => []IInv
<1>1. Init => IInv
  BY Initially
<1>2. IInv /\ [Next]_vars => IInv'
  BY Inductive
<1> QED
  BY <1>1, <1>2, PTL DEF Spec

\* The invariant has the promise of CallsMeetTheirServer in it.
LEMMA MeetTheirServer == ASSUME IInv PROVE CallsMeetTheirServer
<1>1. Sound(m) /\ \A c \in Callers : CallerSound(c, pc[c], sends[c], on[c], m)
  BY DEF IInv, CallersSound
<1>2. ReadyIsConnected
  BY <1>1 DEF Sound, Connected, ReadyIsConnected
<1>3. PinnedCallsStay
  BY <1>1 DEF CallerSound, PinnedCallsStay
<1>4. NeverRepeated
  BY <1>1 DEF CallerSound, NeverRepeated, Attempts
<1> QED
  BY <1>2, <1>3, <1>4 DEF CallsMeetTheirServer

\* manager.py: a server that is READY has the session of a connection that is open, a call

\* that is pinned to a generation is sent to no other, and a call that must not be repeated
\* is sent once.
THEOREM CallsAlwaysMeetTheirServer == Spec => []CallsMeetTheirServer
<1>1. IInv => CallsMeetTheirServer
  BY MeetTheirServer
<1> QED
  BY <1>1, ConnectionInvariant, PTL

\* The owners that outlive the shutdown are replaced ones that were told to end.
LEMMA IsFinal == ASSUME IInv PROVE ShutdownIsFinal
<1> SUFFICES ASSUME "shutdown" \in Closers, pc["shutdown"] = "ended"
             PROVE  /\ m.state = "DISCONNECTED"
                    /\ \A n \in Alive : n # m.current /\ (m.owner[n].wake \/ m.owner[n].cancel)
  BY DEF ShutdownIsFinal
<1>1. Ended(m)
  BY DEF IInv, ShutDown
<1> SUFFICES ASSUME NEW n \in Alive
             PROVE  n # m.current /\ (m.owner[n].wake \/ m.owner[n].cancel)
  BY <1>1 DEF Ended
<1>2. n \in 1..Incarnations /\ m.owner[n].phase \in {"opening", "up"}
  BY DEF Alive
<1>3. n # m.current
  BY <1>1, <1>2 DEF Ended, Phase
<1>4. OwnerSound(m, n, m.owner[n])
  BY <1>2 DEF IInv, Sound, Whole
<1> QED
  BY <1>2, <1>3, <1>4 DEF OwnerSound, Told

\* manager.py: once shutdown is through the server is DISCONNECTED for good; no call, restart

\* or reconnection brings it up again, and what is still open is a connection that was
\* replaced before and was told to end.
THEOREM ShutdownStaysFinal == Spec => []ShutdownIsFinal
<1>1. IInv => ShutdownIsFinal
  BY IsFinal
<1> QED
  BY <1>1, ConnectionInvariant, PTL
=============================================================================
