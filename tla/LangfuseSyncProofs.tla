-------------------------- MODULE LangfuseSyncProofs --------------------------
(***************************************************************************)
(* What LangfuseSync promises, for any batch, any way to cut its traces,   *)
(* any number of processes, attempts, crashes and doubts, while the timing *)
(* keeps what the code counts on (Lapses = {}).                            *)
(*                                                                         *)
(* NothingSentTwice is not inductive: a part may be sent again when it is  *)
(* on record as not sent, so what is on record must be true.  LedgerIsTrue *)
(* says that the ledger on disk tells what the platform has, part by part; *)
(* Working, how far what a process has in memory is ahead of the disk;     *)
(* Locking, that only one has; Fresh, that a new attempt begins with none  *)
(* of its spans there.                                                     *)
(*                                                                         *)
(* How often a span is in a trace's parts is a question about a recursion  *)
(* (_split): its answer is proved by the least number it could fail for.   *)
(***************************************************************************)
EXTENDS LangfuseSync, WellFoundedInduction, FiniteSetTheorems, TLAPS

-----------------------------------------------------------------------------
(* Induction: a non-empty set of numbers has a least one.                  *)

Less == {p \in Nat \X Nat : p[1] < p[2]}

LEMMA LeastNumber ==
    ASSUME NEW T, T \subseteq Nat, T # {}
    PROVE  \E n \in T : \A m \in T : n <= m
<1>1. IsWellFoundedOn(OpToRel(<, Nat), Nat)
  BY NatLessThanWellFounded
<1>2. Less \cap (Nat \X Nat) \subseteq OpToRel(<, Nat)
  BY DEF OpToRel, Less
<1>3. IsWellFoundedOn(Less, Nat)
  BY <1>1, <1>2, IsWellFoundedOnSubrelation, Zenon
<1>4. PICK n \in T : \A m \in T : <<m, n>> \notin Less
  BY <1>3, WFMin, Zenon
<1>5. \A m \in T : ~(m < n)
  BY <1>4 DEF Less
<1> QED BY <1>5

-----------------------------------------------------------------------------
(* Split.                                                                  *)

\* cut is the recursion of _split up to n.
Cuts(cut, seq, set, n) ==
    cut = [i \in 0..n |-> IF i = 0 THEN << <<>> >> ELSE Placed(seq[i], cut[i - 1], set)]

\* The recursion has a result for every sequence.
LEMMA CutExists ==
    ASSUME NEW seq, NEW set, NEW n \in Nat
    PROVE  \E cut : Cuts(cut, seq, set, n)
<1> DEFINE T == {m \in Nat : ~ \E cut : Cuts(cut, seq, set, m)}
<1> SUFFICES ASSUME n \in T PROVE FALSE
  OBVIOUS
<1>1. PICK m \in T : \A k \in T : m <= k
  BY LeastNumber, T \subseteq Nat, T # {}
<1>2. m # 0
  <2> SUFFICES ASSUME m = 0 PROVE FALSE
    OBVIOUS
  <2> DEFINE one == [i \in 0..0 |-> << <<>> >>]
  <2>1. Cuts(one, seq, set, 0)
    BY DEF Cuts
  <2> QED BY <2>1
<1>3. m - 1 \in Nat /\ m - 1 \notin T
  BY <1>1, <1>2
<1>4. PICK cut : Cuts(cut, seq, set, m - 1)
  BY <1>3
<1> DEFINE longer == [i \in 0..m |-> IF i < m THEN cut[i] ELSE Placed(seq[m], cut[m - 1], set)]
<1>5. \A i \in 0..m : longer[i] = IF i = 0 THEN << <<>> >> ELSE Placed(seq[i], longer[i - 1], set)
  <2> SUFFICES ASSUME NEW i \in 0..m
               PROVE  longer[i] = IF i = 0 THEN << <<>> >> ELSE Placed(seq[i], longer[i - 1], set)
    OBVIOUS
  <2>1. CASE i = m
    BY <2>1, <1>1, <1>2
  <2>2. CASE i # m
    <3>1. i \in 0..(m - 1) /\ longer[i] = cut[i] /\ (i # 0 => longer[i - 1] = cut[i - 1])
      BY <2>2, <1>1
    <3>2. cut[i] = IF i = 0 THEN << <<>> >> ELSE Placed(seq[i], cut[i - 1], set)
      BY <1>4, <3>1 DEF Cuts
    <3> QED BY <3>1, <3>2
  <2> QED BY <2>1, <2>2
<1>6. Cuts(longer, seq, set, m)
  <2> HIDE DEF longer
  <2>1. longer = [i \in 0..m |-> longer[i]]
    BY DEF longer
  <2> QED BY <1>5, <2>1 DEF Cuts
<1> QED BY <1>1, <1>6

LEMMA SplitIsCut ==
    ASSUME NEW seq, NEW set, Len(seq) \in Nat
    PROVE  \E cut : Cuts(cut, seq, set, Len(seq)) /\ SplitTail(seq, set) = cut[Len(seq)]
<1> DEFINE C == CHOOSE cut : Cuts(cut, seq, set, Len(seq))
<1>1. Cuts(C, seq, set, Len(seq))
  BY CutExists
<1>2. SplitTail(seq, set) = C[Len(seq)]
  BY DEF SplitTail, Cuts
<1> QED BY <1>1, <1>2

\* What is in the bodies; nothing is in two of them; none is empty.
Content(groups) == UNION {Range(groups[i]) : i \in DOMAIN groups}
Apart(groups) == \A i, j \in DOMAIN groups : Range(groups[i]) \cap Range(groups[j]) # {} => i = j
Filled(groups) == \A i \in DOMAIN groups : groups[i] # <<>>

\* The bodies made of the first n elements of seq.
Grouped(groups, seq, n) ==
    /\ groups \in Seq(Seq(Range(seq)))
    /\ Len(groups) > 0
    /\ Content(groups) = {seq[k] : k \in 1..n}
    /\ Apart(groups)
    /\ n # 0 => Filled(groups)
    /\ n = 0 => groups = << <<>> >>

\* A new body, of one new element.
LEMMA NewGroup ==
    ASSUME NEW S, NEW groups \in Seq(Seq(S)), NEW x \in S, x \notin Content(groups),
           Apart(groups), Filled(groups)
    PROVE  LET new == Append(groups, <<x>>)
           IN  /\ new \in Seq(Seq(S)) /\ Len(new) > 0
               /\ Content(new) = Content(groups) \cup {x}
               /\ Apart(new) /\ Filled(new)
<1> DEFINE new == Append(groups, <<x>>)
           last == Len(groups)
<1>1. /\ last \in Nat /\ DOMAIN groups = 1..last
      /\ new \in Seq(Seq(S)) /\ Len(new) = last + 1 /\ DOMAIN new = 1..(last + 1)
      /\ \A i \in 1..last : new[i] = groups[i]
      /\ new[last + 1] = <<x>>
  OBVIOUS
<1>2. Range(<<x>>) = {x} /\ <<x>> # <<>>
  BY DEF Range
<1> HIDE DEF new, last
<1>3. DOMAIN new = DOMAIN groups \cup {last + 1} /\ last + 1 \notin DOMAIN groups /\ Len(new) > 0
  BY <1>1
<1>4. \A i \in DOMAIN groups : new[i] = groups[i] /\ Range(new[i]) = Range(groups[i]) /\ x \notin Range(groups[i])
  BY <1>1 DEF Content
<1>5. Range(new[last + 1]) = {x}
  BY <1>1, <1>2
<1>6. Content(new) = Content(groups) \cup {x}
  BY <1>3, <1>4, <1>5, Zenon DEF Content
<1>7. Apart(new)
  <2> SUFFICES ASSUME NEW i \in DOMAIN new, NEW j \in DOMAIN new,
                      NEW y, y \in Range(new[i]), y \in Range(new[j])
               PROVE  i = j
    BY DEF Apart
  <2>1. CASE i \in DOMAIN groups /\ j \in DOMAIN groups
    BY <2>1, <1>4 DEF Apart
  <2>2. CASE i = last + 1 \/ j = last + 1
    BY <2>2, <1>3, <1>4, <1>5
  <2> QED BY <2>1, <2>2, <1>3
<1>8. Filled(new)
  BY <1>1, <1>2, <1>3, <1>4, Zenon DEF Filled
<1> QED BY <1>1, <1>3, <1>6, <1>7, <1>8 DEF new

\* A new element for the last body.
LEMMA LongerGroup ==
    ASSUME NEW S, NEW groups \in Seq(Seq(S)), Len(groups) > 0, NEW x \in S, x \notin Content(groups),
           Apart(groups), \A i \in DOMAIN groups : i # Len(groups) => groups[i] # <<>>
    PROVE  LET new == [groups EXCEPT ![Len(groups)] = Append(groups[Len(groups)], x)]
           IN  /\ new \in Seq(Seq(S)) /\ Len(new) > 0
               /\ Content(new) = Content(groups) \cup {x}
               /\ Apart(new) /\ Filled(new)
<1> DEFINE last == Len(groups)
           group == Append(groups[last], x)
           new == [groups EXCEPT ![last] = group]
<1>0. last \in Nat /\ last \in DOMAIN groups /\ DOMAIN groups = 1..last /\ groups[last] \in Seq(S)
  OBVIOUS
<1>1. /\ group \in Seq(S) /\ group # <<>>
      /\ DOMAIN group = 1..(Len(groups[last]) + 1) /\ DOMAIN groups[last] = 1..Len(groups[last])
      /\ \A i \in 1..Len(groups[last]) : group[i] = groups[last][i]
      /\ group[Len(groups[last]) + 1] = x /\ Len(groups[last]) \in Nat
  BY <1>0
<1>2. /\ new \in Seq(Seq(S)) /\ Len(new) = last /\ DOMAIN new = DOMAIN groups /\ last > 0
      /\ \A i \in DOMAIN groups : i # last => new[i] = groups[i]
      /\ new[last] = group
  BY <1>0, <1>1
<1>3. Range(group) = Range(groups[last]) \cup {x}
  <2> HIDE DEF group
  <2>1. DOMAIN group = DOMAIN groups[last] \cup {Len(groups[last]) + 1}
    BY <1>1
  <2>2. \A i \in DOMAIN groups[last] : group[i] = groups[last][i]
    BY <1>1
  <2>3. Range(groups[last]) = {groups[last][i] : i \in DOMAIN groups[last]}
    BY DEF Range
  <2>4. Range(group) = {group[i] : i \in DOMAIN group}
    BY DEF Range
  <2> HIDE DEF last
  <2>5. \A y : y \in Range(group) => y \in Range(groups[last]) \cup {x}
    BY <2>1, <2>2, <2>3, <2>4, <1>1
  <2>6. \A y : y \in Range(groups[last]) \cup {x} => y \in Range(group)
    BY <2>1, <2>2, <2>3, <2>4, <1>1
  <2> QED BY <2>5, <2>6
<1> HIDE DEF new, group, last
<1>4. \A i \in DOMAIN groups : i # last => Range(new[i]) = Range(groups[i])
  BY <1>2
<1>5. Range(new[last]) = Range(groups[last]) \cup {x}
  BY <1>2, <1>3
<1>6. Content(new) = Content(groups) \cup {x}
  <2>1. \A y : y \in Content(new) <=> y \in Content(groups) \/ y = x
    <3> SUFFICES ASSUME NEW y PROVE y \in Content(new) <=> y \in Content(groups) \/ y = x
      OBVIOUS
    <3>1. y \in Content(new) <=> \E i \in DOMAIN groups : y \in Range(new[i])
      BY <1>2, Zenon DEF Content
    <3>2. y \in Content(groups) <=> \E i \in DOMAIN groups : y \in Range(groups[i])
      BY Zenon DEF Content
    <3> QED BY <3>1, <3>2, <1>0, <1>4, <1>5
  <2> QED BY <2>1
<1>7. Apart(new)
  <2> SUFFICES ASSUME NEW i \in DOMAIN new, NEW j \in DOMAIN new,
                      NEW y, y \in Range(new[i]), y \in Range(new[j])
               PROVE  i = j
    BY DEF Apart
  <2>1. \A k \in DOMAIN groups : x \notin Range(groups[k])
    BY DEF Content
  <2>2. CASE y = x
    BY <2>1, <2>2, <1>2, <1>4
  <2>3. CASE y # x
    <3>1. y \in Range(groups[i]) /\ y \in Range(groups[j])
      <4>1. \A k \in DOMAIN groups : y \in Range(new[k]) => y \in Range(groups[k])
        BY <2>3, <1>4, <1>5
      <4> QED BY <4>1, <1>2
    <3> QED BY <3>1, <1>2 DEF Apart
  <2> QED BY <2>2, <2>3
<1>8. Filled(new)
  <2>1. \A i \in DOMAIN groups : i # last => groups[i] # <<>>
    BY DEF last
  <2> QED BY <2>1, <1>1, <1>2, Zenon DEF Filled
<1> QED BY <1>2, <1>6, <1>7, <1>8 DEF new, group, last

\* Placed puts one more into the last body or into a new one.
LEMMA PlacedIsGrouped ==
    ASSUME NEW seq, seq \in Seq(Range(seq)), IsInjective(seq), NEW set,
           NEW n \in 0..(Len(seq) - 1), NEW groups, Grouped(groups, seq, n)
    PROVE  Grouped(Placed(seq[n + 1], groups, set), seq, n + 1)
<1> DEFINE S == Range(seq)
           x == seq[n + 1]
           last == Len(groups)
           group == Append(groups[last], x)
           placed == Placed(x, groups, set)
<1>1. n + 1 \in DOMAIN seq /\ n + 1 \in Nat \ {0} /\ n \in Nat /\ DOMAIN seq = 1..Len(seq)
  OBVIOUS
<1>2. x \in S
  BY <1>1 DEF Range
<1>3. groups \in Seq(Seq(S)) /\ last > 0 /\ Apart(groups)
  BY DEF Grouped
<1>4. x \notin Content(groups)
  <2> SUFFICES ASSUME NEW k \in 1..n, x = seq[k] PROVE FALSE
    BY DEF Grouped
  <2>1. k \in DOMAIN seq /\ k # n + 1
    BY <1>1
  <2> QED BY <1>1, <2>1 DEF IsInjective
<1>5. \/ Filled(groups) /\ placed = Append(groups, <<x>>)
      \/ placed = [groups EXCEPT ![last] = group]
  <2>1. CASE Len(group) > 1 /\ Weight(group, set) > set.limit
    <3>1. placed = Append(groups, <<x>>)
      BY <2>1 DEF Placed
    <3>2. n # 0
      <4> SUFFICES ASSUME n = 0 PROVE Len(group) = 1
        BY <2>1
      <4>1. groups = << <<>> >>
        BY DEF Grouped
      <4> QED BY <4>1
    <3> QED BY <3>1, <3>2 DEF Grouped
  <2>2. CASE ~(Len(group) > 1 /\ Weight(group, set) > set.limit)
    BY <2>2 DEF Placed
  <2> QED BY <2>1, <2>2
<1>6. \A i \in DOMAIN groups : i # last => groups[i] # <<>>
  <2>1. CASE n = 0
    BY <2>1 DEF Grouped
  <2>2. CASE n # 0
    BY <2>2 DEF Grouped, Filled
  <2> QED BY <2>1, <2>2
<1> HIDE DEF S, x, last, group, placed
<1>7. /\ placed \in Seq(Seq(S)) /\ Len(placed) > 0
      /\ Content(placed) = Content(groups) \cup {x}
      /\ Apart(placed) /\ Filled(placed)
  <2>1. CASE Filled(groups) /\ placed = Append(groups, <<x>>)
    BY <2>1, <1>2, <1>3, <1>4, NewGroup
  <2>2. CASE placed = [groups EXCEPT ![last] = group]
    BY <2>2, <1>2, <1>3, <1>4, <1>6, LongerGroup DEF last, group
  <2> QED BY <1>5, <2>1, <2>2
<1>8. {seq[k] : k \in 1..(n + 1)} = {seq[k] : k \in 1..n} \cup {x}
  BY <1>1 DEF x
<1> QED BY <1>1, <1>7, <1>8 DEF Grouped, S, placed, x

\* _split: each span appears in exactly one body, and no body is empty.
THEOREM SplitIsGrouped ==
    ASSUME NEW seq, seq \in Seq(Range(seq)), IsInjective(seq), NEW set
    PROVE  Grouped(SplitTail(seq, set), seq, Len(seq))
<1>0. Len(seq) \in Nat
  OBVIOUS
<1>1. PICK cut : Cuts(cut, seq, set, Len(seq)) /\ SplitTail(seq, set) = cut[Len(seq)]
  BY <1>0, SplitIsCut
<1> DEFINE T == {n \in 0..Len(seq) : ~Grouped(cut[n], seq, n)}
<1>2. T = {}
  <2> SUFFICES ASSUME T # {} PROVE FALSE
    OBVIOUS
  <2>0. T \subseteq Nat
    BY <1>0
  <2>1. PICK n \in T : \A m \in T : n <= m
    BY <2>0, LeastNumber
  <2>2. n # 0
    <3> SUFFICES Grouped(cut[0], seq, 0)
      OBVIOUS
    <3>1. cut[0] = << <<>> >>
      BY <1>0, <1>1 DEF Cuts
    <3>2. Range(<<>>) = {} /\ Len(<< <<>> >>) = 1 /\ DOMAIN << <<>> >> = {1} /\ << <<>> >>[1] = <<>>
      BY DEF Range
    <3>3. << <<>> >> \in Seq(Seq(Range(seq)))
      OBVIOUS
    <3>4. Content(<< <<>> >>) = {}
      BY <3>2 DEF Content
    <3>5. Apart(<< <<>> >>)
      BY <3>2 DEF Apart
    <3> QED BY <3>1, <3>2, <3>3, <3>4, <3>5 DEF Grouped
  <2>3. n - 1 \in 0..(Len(seq) - 1) /\ n - 1 \notin T /\ n \in 0..Len(seq)
    BY <1>0, <2>1, <2>2
  <2>4. Grouped(cut[n - 1], seq, n - 1)
    BY <1>0, <2>3
  <2>5. cut[n] = Placed(seq[n], cut[n - 1], set)
    BY <1>1, <2>2, <2>3 DEF Cuts
  <2>6. Grouped(Placed(seq[n - 1 + 1], cut[n - 1], set), seq, n - 1 + 1)
    BY <2>3, <2>4, PlacedIsGrouped
  <2>7. n - 1 + 1 = n
    BY <2>3
  <2> QED BY <2>1, <2>5, <2>6, <2>7
<1> QED BY <1>0, <1>1, <1>2

-----------------------------------------------------------------------------
(* The inductive invariant.                                                *)

Labels == {"idle", "lock", "unlink", "stamp", "load", "release", "connect", "items", "request",
           "acked", "scores", "triage", "queued", "finish"}

ItemType == [state : {"pending", "sending", "unknown", "exported"}, sent : Nat, old : BOOLEAN]

LedgerType ==
    [state : {"pending", "complete"}, project : Projects \cup {None}, pinned : Settings \cup {None},
     attempt : 0..MaxAttempts, items : [RowSet -> ItemType], scores : {"none", "posted", "rejected"},
     queued : SUBSET Failed]

LockType == [by : Procs, written : BOOLEAN, old : BOOLEAN]

Taken ==
    /\ got \in [Projects -> [Attempts -> [RowSet -> UNION {[SpanSet(r) -> Nat] : r \in RowSet}]]]
    /\ \A pr \in Projects, a \in Attempts, r \in RowSet : got[pr][a][r] \in [SpanSet(r) -> Nat]

TypeInv ==
    /\ ledger \in LedgerType
    /\ mem \in [Procs -> LedgerType]
    /\ lock \in {None} \cup LockType
    /\ pc \in [Procs -> Labels]
    /\ at \in [Procs -> Nat \ {0}]
    /\ opt \in [Procs -> {"auto", "rerun", "retry", "new"}]
    /\ tries \in [Procs -> Nat]
    /\ Taken
    /\ queue \in [RowSet -> Nat]
    /\ settings \in Settings
    /\ project \in Projects

\* A process in the critical section has the lock, and it is no stale one; one that is about
\* to remove a stale lock is alone with it.
Active(p) == pc[p] \notin {"idle", "lock", "unlink"}

Owned(p) == lock # None /\ lock.by = p /\ ~lock.old /\ (pc[p] # "stamp" => lock.written)

Locking ==
    /\ \A p \in Procs : Active(p) => Owned(p)
    /\ \A p \in Procs : pc[p] = "unlink" => lock # None /\ ~Active(lock.by)
    /\ \A p, q \in Procs : pc[p] = "unlink" /\ pc[q] = "unlink" => p = q

\* What the ledger says of a row is what the platform has (count: how often it took in a span;
\* shown: the spans it shows): the parts that count as sent once, those behind the next one
\* not at all, and the next one whole or not at all; while it is pending, not at all; and when
\* its doubt is old, the platform shows it if it has it.
Delivered(item, parts, count, shown) ==
    /\ item.sent \in 0..Len(parts)
    /\ (item.state = "exported") <=> (item.sent = Len(parts))
    /\ \A i \in DOMAIN parts : \A s \in Range(parts[i]) :
          /\ i <= item.sent => count[s] = 1
          /\ i > item.sent + 1 => count[s] = 0
    /\ item.state # "exported" =>
          /\ \E n \in {0, 1} : \A s \in Range(parts[item.sent + 1]) : count[s] = n
          /\ item.state = "pending" => \A s \in Range(parts[item.sent + 1]) : count[s] = 0
          /\ item.old => \A s \in Range(parts[item.sent + 1]) : s \in shown <=> count[s] = 1

ShownOf(led, vis, r) == {s \in SpanSet(r) : <<led.project, led.attempt, r, s>> \in vis}

CountOf(led, g, r) == g[led.project][led.attempt][r]

RowIsTrue(led, g, vis, r) ==
    Delivered(led.items[r], Parts(led, r), CountOf(led, g, r), ShownOf(led, vis, r))

TriageDone(led) == Cardinality(led.queued) >= Room \/ Failed \subseteq led.queued

Started(led) == led.attempt # 0

LedgerIsTrue(led, g, vis, q) ==
    /\ ~Started(led) => \A r \in RowSet : led.items[r] = NoItem
    /\ Started(led) =>
          /\ led.project \in Projects
          /\ led.pinned \in Settings
          /\ \A r \in RowSet : RowIsTrue(led, g, vis, r)
    /\ led.state = "complete" => Started(led) /\ AllExported(led) /\ TriageDone(led)
    /\ \A r \in led.queued : q[r] > 0

\* Nothing was ever sent under a number that no attempt had.
Fresh(led, g) ==
    \A pr \in Projects, a \in Attempts, r \in RowSet : \A s \in SpanSet(r) :
        a > led.attempt => g[pr][a][r][s] = 0

\* The next part of the row a process is on has been taken in n times.
NextHas(led, g, r, n) == \A s \in Range(Parts(led, r)[led.items[r].sent + 1]) : CountOf(led, g, r)[s] = n

\* What a process has in memory, and how far it is, against the ledger on disk.
Working(p) ==
    /\ pc[p] = "connect" => mem[p] = ledger
    /\ pc[p] \in {"items", "request", "scores", "triage", "finish"} => mem[p] = ledger /\ Started(ledger)
    /\ pc[p] \in {"request", "acked"} => at[p] \in DOMAIN Rows /\ ledger.items[Row(p)].state = "sending"
    /\ pc[p] = "request" => ~ledger.items[Row(p)].old /\ NextHas(ledger, got, Row(p), 0)
    /\ pc[p] = "acked" =>
          /\ Started(ledger) /\ NextHas(ledger, got, Row(p), 1)
          /\ mem[p] = [ledger EXCEPT !.items[Row(p)].sent = @ + 1]
    /\ pc[p] \in {"scores", "triage", "queued"} => AllExported(ledger)
    /\ pc[p] = "queued" =>
          /\ Started(ledger) /\ ledger.state = "pending"
          /\ mem[p] = [ledger EXCEPT !.queued = mem[p].queued]
          /\ \A r \in mem[p].queued : queue[r] > 0
    /\ pc[p] = "finish" /\ AllExported(ledger) => TriageDone(ledger)

IInv ==
    /\ TypeInv
    /\ Locking
    /\ LedgerIsTrue(ledger, got, visible, queue)
    /\ Fresh(ledger, got)
    /\ NothingSentTwice
    /\ \A p \in Procs : Working(p)

-----------------------------------------------------------------------------
(* Delivered, from one state of a row to the next.                         *)

Bodies(parts, S) ==
    /\ parts \in Seq(Seq(S)) /\ Len(parts) > 0
    /\ Content(parts) = S /\ Apart(parts) /\ Filled(parts)

\* The bodies of a row, whatever the settings.
LEMMA PartsAreBodies ==
    ASSUME NEW led, NEW r \in RowSet
    PROVE  Bodies(Parts(led, r), SpanSet(r))
<1> DEFINE seq == Spans[r]
           parts == Parts(led, r)
<1>1. seq \in Seq(Range(seq)) /\ seq # <<>> /\ IsInjective(seq) /\ SpanSet(r) = Range(seq)
  BY SpansAssumption DEF SpanSet
<1>2. parts = SplitTail(seq, led.pinned)
  BY DEF Parts, Split
<1> HIDE DEF seq, parts
<1>3. Grouped(parts, seq, Len(seq))
  BY <1>1, <1>2, SplitIsGrouped
<1>4. Len(seq) # 0 /\ {seq[k] : k \in 1..Len(seq)} = Range(seq)
  BY <1>1 DEF Range
<1> QED BY <1>1, <1>3, <1>4 DEF Grouped, Bodies, parts

LEMMA BodyFacts ==
    ASSUME NEW S, NEW parts, Bodies(parts, S)
    PROVE  /\ Len(parts) \in Nat \ {0} /\ DOMAIN parts = 1..Len(parts)
           /\ \A i \in DOMAIN parts : Range(parts[i]) \subseteq S /\ parts[i][1] \in Range(parts[i])
           /\ \A i, j \in DOMAIN parts : \A s \in Range(parts[i]) : s \in Range(parts[j]) => i = j
           /\ \A s \in S : \E i \in DOMAIN parts : s \in Range(parts[i])
<1>1. parts \in Seq(Seq(S))
  BY DEF Bodies
<1>2. \A i \in DOMAIN parts : parts[i] \in Seq(S) /\ parts[i] # <<>>
  BY <1>1 DEF Bodies, Filled
<1>3. \A i \in DOMAIN parts : 1 \in DOMAIN parts[i]
  BY <1>2
<1>4. \A i \in DOMAIN parts : Range(parts[i]) \subseteq S /\ parts[i][1] \in Range(parts[i])
  BY <1>2, <1>3 DEF Range
<1>5. \A i, j \in DOMAIN parts : \A s \in Range(parts[i]) : s \in Range(parts[j]) => i = j
  BY DEF Bodies, Apart
<1>6. \A s \in S : \E i \in DOMAIN parts : s \in Range(parts[i])
  BY DEF Bodies, Content
<1>7. Len(parts) \in Nat \ {0} /\ DOMAIN parts = 1..Len(parts)
  BY <1>1 DEF Bodies
<1> QED BY <1>4, <1>5, <1>6, <1>7

\* A row nobody has sent anything of.
LEMMA DeliveredNothing ==
    ASSUME NEW S, NEW parts, Bodies(parts, S), NEW count, \A s \in S : count[s] = 0, NEW shown
    PROVE  Delivered(NoItem, parts, count, shown)
  BY BodyFacts DEF Delivered, NoItem

\* _send notes that the next part is on its way.
LEMMA DeliveredSending ==
    ASSUME NEW S, NEW parts, Bodies(parts, S), NEW count, NEW shown,
           NEW item \in ItemType, Delivered(item, parts, count, shown), item.state = "pending"
    PROVE  Delivered([item EXCEPT !.state = "sending", !.old = FALSE], parts, count, shown)
  BY BodyFacts DEF Delivered, ItemType

\* The next part was acknowledged: the one behind it follows, or none is left.
LEMMA DeliveredPart ==
    ASSUME NEW S, NEW parts, Bodies(parts, S), NEW count, NEW shown,
           NEW item \in ItemType, Delivered(item, parts, count, shown), item.state # "exported",
           \A s \in Range(parts[item.sent + 1]) : count[s] = 1,
           NEW state \in {"sending", "exported", "pending"},
           state = "exported" <=> item.sent + 1 = Len(parts)
    PROVE  Delivered([item EXCEPT !.sent = @ + 1, !.state = state, !.old = FALSE], parts, count, shown)
<1> DEFINE new == [item EXCEPT !.sent = @ + 1, !.state = state, !.old = FALSE]
           n == item.sent
<1>1. new.sent = n + 1 /\ new.state = state /\ new.old = FALSE /\ n \in 0..Len(parts) /\ n # Len(parts)
  BY DEF ItemType, Delivered
<1>2. Len(parts) \in Nat /\ DOMAIN parts = 1..Len(parts)
  BY BodyFacts
<1> HIDE DEF new
<1>3. \A i \in DOMAIN parts : \A s \in Range(parts[i]) :
         /\ i <= n + 1 => count[s] = 1
         /\ i > n + 1 => count[s] = 0
  <2> SUFFICES ASSUME NEW i \in DOMAIN parts, NEW s \in Range(parts[i])
               PROVE  (i <= n + 1 => count[s] = 1) /\ (i > n + 1 => count[s] = 0)
    OBVIOUS
  <2>1. CASE i = n + 1
    BY <2>1, <1>1, <1>2
  <2>2. CASE i # n + 1
    BY <2>2, <1>1, <1>2 DEF Delivered
  <2> QED BY <2>1, <2>2
<1>4. state # "exported" => n + 2 \in DOMAIN parts /\ \A s \in Range(parts[n + 2]) : count[s] = 0
  BY <1>1, <1>2, <1>3
<1> QED BY <1>1, <1>2, <1>3, <1>4 DEF Delivered

\* A request arrives: the next part is there once.
LEMMA DeliveredArrives ==
    ASSUME NEW S, NEW parts, Bodies(parts, S), NEW count \in [S -> Nat], NEW shown,
           NEW item \in ItemType, Delivered(item, parts, count, shown), item.state = "sending", ~item.old,
           \A s \in Range(parts[item.sent + 1]) : count[s] = 0,
           NEW new, new = [s \in S |-> IF s \in Range(parts[item.sent + 1]) THEN count[s] + 1 ELSE count[s]]
    PROVE  /\ Delivered(item, parts, new, shown)
           /\ \A s \in Range(parts[item.sent + 1]) : new[s] = 1
           /\ \A s \in S : new[s] = count[s] \/ (count[s] = 0 /\ new[s] = 1)
<1> DEFINE n == item.sent + 1
           part == Range(parts[n])
<1>1. Len(parts) \in Nat /\ DOMAIN parts = 1..Len(parts) /\ n \in DOMAIN parts /\ item.sent \in Nat
  BY BodyFacts DEF Delivered, ItemType
<1>2. part \subseteq S
  BY <1>1, BodyFacts
<1>3. \A s \in part : count[s] = 0 /\ new[s] = 1
  BY <1>2
<1>4. \A s \in S : s \notin part => new[s] = count[s]
  OBVIOUS
<1>5. \A i \in DOMAIN parts : \A s \in Range(parts[i]) : s \in S /\ (i # n => s \notin part)
  <2>1. \A i, j \in DOMAIN parts : \A s \in Range(parts[i]) : s \in Range(parts[j]) => i = j
    BY BodyFacts
  <2>2. \A i \in DOMAIN parts : Range(parts[i]) \subseteq S
    BY BodyFacts
  <2> HIDE DEF n
  <2> QED BY <1>1, <2>1, <2>2
<1>6. \A i \in DOMAIN parts : \A s \in Range(parts[i]) :
         /\ i <= item.sent => new[s] = 1
         /\ i > item.sent + 1 => new[s] = 0
  <2> SUFFICES ASSUME NEW i \in DOMAIN parts, NEW s \in Range(parts[i]), i # n
               PROVE  (i <= item.sent => new[s] = 1) /\ (i > item.sent + 1 => new[s] = 0)
    BY <1>1
  <2>1. new[s] = count[s]
    BY <1>4, <1>5
  <2> QED BY <2>1 DEF Delivered
<1> HIDE DEF part
<1>7. Delivered(item, parts, new, shown)
  BY <1>3, <1>6 DEF Delivered, part
<1> QED BY <1>3, <1>4, <1>7 DEF part

\* The answer to it is in doubt.
LEMMA DeliveredUnknown ==
    ASSUME NEW S, NEW parts, Bodies(parts, S), NEW count, NEW shown,
           NEW item \in ItemType, Delivered(item, parts, count, shown), item.state = "sending"
    PROVE  Delivered([item EXCEPT !.state = "unknown"], parts, count, shown)
  BY BodyFacts DEF Delivered, ItemType

\* The platform does not have the next part: it is sent again.
LEMMA DeliveredPending ==
    ASSUME NEW S, NEW parts, Bodies(parts, S), NEW count, NEW shown,
           NEW item \in ItemType, Delivered(item, parts, count, shown), item.state # "exported",
           \A s \in Range(parts[item.sent + 1]) : count[s] = 0
    PROVE  Delivered([item EXCEPT !.state = "pending", !.old = FALSE], parts, count, shown)
  BY BodyFacts DEF Delivered, ItemType

\* Time went by: the platform shows what it has.
LEMMA DeliveredShown ==
    ASSUME NEW S, NEW parts, Bodies(parts, S), NEW count \in [S -> Nat], NEW shown,
           NEW item \in ItemType, Delivered(item, parts, count, shown), NEW old \in BOOLEAN
    PROVE  Delivered([item EXCEPT !.old = old], parts, count, {s \in S : count[s] > 0})
<1> DEFINE new == [item EXCEPT !.old = old]
<1>1. new.sent = item.sent /\ new.state = item.state
  BY DEF ItemType
<1>2. item.state # "exported" => \A s \in Range(parts[item.sent + 1]) : s \in S /\ count[s] \in {0, 1}
  BY BodyFacts DEF Delivered, ItemType
<1>3. item.state # "exported" =>
         \A s \in Range(parts[item.sent + 1]) : s \in {t \in S : count[t] > 0} <=> count[s] = 1
  BY <1>2
<1> HIDE DEF new
<1> QED BY <1>1, <1>3 DEF Delivered

\* No span of a row is there twice, and all are there once the row is exported.
LEMMA DeliveredOnce ==
    ASSUME NEW S, NEW parts, Bodies(parts, S), NEW count, NEW shown,
           NEW item \in ItemType, Delivered(item, parts, count, shown), item.state = "exported", NEW s \in S
    PROVE  count[s] = 1
<1>1. PICK i \in DOMAIN parts : s \in Range(parts[i])
  BY BodyFacts
<1>2. Len(parts) \in Nat /\ i \in 1..Len(parts) /\ item.sent = Len(parts)
  BY BodyFacts DEF Delivered
<1> QED BY <1>1, <1>2 DEF Delivered

-----------------------------------------------------------------------------
(* The ledger, the lock and the processes.                                 *)

LEMMA PartsByPinned ==
    ASSUME NEW led, NEW led2, led2.pinned = led.pinned, NEW r
    PROVE  Parts(led2, r) = Parts(led, r)
  BY DEF Parts

\* The ledger changes in one row, or only the platform does, under that row.
LEMMA RowStep ==
    ASSUME NEW led \in LedgerType, NEW g, NEW g2, NEW vis, NEW q, LedgerIsTrue(led, g, vis, q), Started(led),
           NEW r \in RowSet, led.items[r].state # "exported", NEW item \in ItemType,
           \A r2 \in RowSet \ {r} : CountOf(led, g2, r2) = CountOf(led, g, r2),
           Delivered(item, Parts(led, r), CountOf(led, g2, r), ShownOf(led, vis, r)),
           NEW led2, led2 = [led EXCEPT !.items[r] = item]
    PROVE  /\ led2 \in LedgerType /\ LedgerIsTrue(led2, g2, vis, q) /\ Started(led2)
           /\ led2.state = "pending" /\ led2 = [led2 EXCEPT !.state = "pending"]
<1>1. led.state = "pending"
  BY DEF LedgerIsTrue, AllExported, Exported, LedgerType
<1>2. /\ led2 \in LedgerType /\ led2.state = "pending" /\ led2.project = led.project /\ led2.attempt = led.attempt
      /\ led2.pinned = led.pinned /\ led2.queued = led.queued /\ led2.items[r] = item
      /\ \A r2 \in RowSet \ {r} : led2.items[r2] = led.items[r2]
  BY <1>1 DEF LedgerType
<1>3. led2 = [led2 EXCEPT !.state = "pending"]
  BY <1>2 DEF LedgerType
<1>4. \A r2 \in RowSet : /\ Parts(led2, r2) = Parts(led, r2) /\ CountOf(led2, g2, r2) = CountOf(led, g2, r2)
                        /\ ShownOf(led2, vis, r2) = ShownOf(led, vis, r2)
  <2>1. \A r2 \in RowSet : Parts(led2, r2) = Parts(led, r2)
    BY <1>2 DEF Parts
  <2> QED BY <2>1, <1>2 DEF CountOf, ShownOf
<1>5. \A r2 \in RowSet : RowIsTrue(led2, g2, vis, r2)
  BY <1>2, <1>4 DEF RowIsTrue, LedgerIsTrue
<1>6. Started(led2)
  BY <1>2 DEF Started
<1> QED BY <1>2, <1>3, <1>5, <1>6 DEF LedgerIsTrue

\* What nobody touches of the ledger and the platform stays true.
LEMMA RestStep ==
    ASSUME NEW led \in LedgerType, NEW g, NEW vis, NEW q, LedgerIsTrue(led, g, vis, q),
           NEW led2 \in LedgerType, NEW q2,
           led2.project = led.project, led2.attempt = led.attempt, led2.pinned = led.pinned, led2.items = led.items,
           led2.state = "complete" => Started(led) /\ AllExported(led) /\ TriageDone(led2),
           \A r \in led2.queued : q2[r] > 0
    PROVE  LedgerIsTrue(led2, g, vis, q2)
<1>1. Started(led2) <=> Started(led)
  BY DEF Started
<1>2. \A r \in RowSet : Parts(led2, r) = Parts(led, r)
  BY PartsByPinned
<1>3. \A r \in RowSet : CountOf(led2, g, r) = CountOf(led, g, r) /\ ShownOf(led2, vis, r) = ShownOf(led, vis, r)
  BY DEF CountOf, ShownOf
<1>4. \A r \in RowSet : RowIsTrue(led2, g, vis, r) <=> RowIsTrue(led, g, vis, r)
  BY <1>2, <1>3 DEF RowIsTrue
<1>5. AllExported(led2) <=> AllExported(led)
  BY DEF AllExported, Exported
<1> QED BY <1>1, <1>4, <1>5 DEF LedgerIsTrue

\* A process on a row.
LEMMA RowFacts ==
    ASSUME TypeInv, NEW p \in Procs, at[p] \in DOMAIN Rows
    PROVE  /\ Row(p) \in RowSet /\ Item(p) \in ItemType /\ mem[p] \in LedgerType
           /\ \A item \in ItemType : WithItem(p, item) \in LedgerType
  BY ZenonT(60) DEF TypeInv, LedgerType, Row, Item, WithItem, RowSet, Range

LEMMA OnItemFacts ==
    ASSUME TypeInv, NEW p \in Procs, OnItem(p)
    PROVE  at[p] \in DOMAIN Rows /\ pc[p] = "items"
  BY SpansAssumption DEF TypeInv, OnItem

LEMMA OneActive ==
    ASSUME IInv, NEW p \in Procs, Active(p), NEW q \in Procs, Active(q)
    PROVE  q = p
  BY DEF IInv, Locking, Owned

\* A step of a process that has the lock.
LEMMA InsideStep ==
    ASSUME IInv, NEW p \in Procs, Active(p), NEW label, pc' = [pc EXCEPT ![p] = label],
           TypeInv', Locking', LedgerIsTrue(ledger, got, visible, queue)', Fresh(ledger, got)',
           NothingSentTwice', Working(p)'
    PROVE  IInv'
<1>1. \A q \in Procs : Working(q)'
  <2> SUFFICES ASSUME NEW q \in Procs, q # p PROVE Working(q)'
    OBVIOUS
  <2>1. ~Active(q)
    BY OneActive
  <2>2. pc'[q] \in {"idle", "lock", "unlink"}
    BY <2>1 DEF IInv, TypeInv, Active
  <2> QED BY <2>2 DEF Working
<1> QED BY <1>1 DEF IInv

LEMMA LockStays ==
    ASSUME IInv, NEW p \in Procs, Active(p), pc[p] # "stamp",
           NEW label \in Labels \ {"idle", "lock", "unlink", "stamp"}, pc' = [pc EXCEPT ![p] = label], lock' = lock
    PROVE  Locking'
<1>1. /\ \A q \in Procs : pc'[q] = IF q = p THEN label ELSE pc[q]
      /\ lock # None /\ lock.by = p /\ ~lock.old /\ lock.written
  BY DEF IInv, TypeInv, Locking, Owned
<1> QED BY <1>1 DEF IInv, Locking, Owned, Active

\* A step that leaves ledger and platform, of a process that is not, or no longer, at work.
LEMMA OutsideStep ==
    ASSUME IInv, NEW p \in Procs, TypeInv', Locking',
           NEW label \in {"idle", "lock", "unlink", "stamp", "load", "release"}, pc' = [pc EXCEPT ![p] = label],
           NEW m, mem' = [mem EXCEPT ![p] = m], NEW n, at' = [at EXCEPT ![p] = n],
           UNCHANGED <<ledger, got, visible, queue>>
    PROVE  IInv'
<1>1. \A q \in Procs : Working(q)'
  <2> SUFFICES ASSUME NEW q \in Procs PROVE Working(q)'
    OBVIOUS
  <2>1. CASE q = p
    <3>1. pc'[p] = label
      BY DEF IInv, TypeInv
    <3> QED BY <2>1, <3>1 DEF Working
  <2>2. CASE q # p
    <3>1. pc'[q] = pc[q] /\ mem'[q] = mem[q] /\ at'[q] = at[q]
      BY <2>2 DEF IInv, TypeInv
    <3>2. Working(q) /\ Row(q)' = Row(q) /\ ledger' = ledger /\ got' = got /\ queue' = queue
      BY <3>1 DEF IInv, Row
    <3> QED BY <3>1, <3>2 DEF Working
  <2> QED BY <2>1, <2>2
<1> QED BY <1>1 DEF IInv, NothingSentTwice

LEMMA QuietStep ==
    ASSUME IInv, NEW p \in Procs, TypeInv', Locking',
           NEW label \in {"idle", "lock", "unlink", "stamp", "load", "release"}, pc' = [pc EXCEPT ![p] = label],
           UNCHANGED <<mem, at, ledger, got, visible, queue>>
    PROVE  IInv'
<1>1. mem' = [mem EXCEPT ![p] = mem[p]] /\ at' = [at EXCEPT ![p] = at[p]]
  BY DEF IInv, TypeInv
<1> QED BY <1>1, OutsideStep

-----------------------------------------------------------------------------
(* The steps around the lock.                                              *)

LEMMA EmptyIsLedger == EmptyLedger \in LedgerType /\ NoItem \in ItemType
  BY BoundsAssumption DEF EmptyLedger, LedgerType, NoItem, ItemType

LEMMA PushStep ==
    ASSUME IInv, NEW p \in Procs, NEW how \in {"auto", "rerun", "retry", "new"}, Push(p, how)
    PROVE  IInv'
<1>1. TypeInv'
  BY DEF IInv, TypeInv, Push, Goto, Labels, platform, config, Taken
<1>2. Locking'
  BY DEF IInv, TypeInv, Locking, Push, Goto, Owned, Active
<1> QED BY <1>1, <1>2, QuietStep DEF Push, Goto, platform

LEMMA CreateLockStep == ASSUME IInv, NEW p \in Procs, CreateLock(p) PROVE IInv'
<1>1. TypeInv'
  BY DEF IInv, TypeInv, CreateLock, Goto, Labels, platform, config, Taken, LockType
<1>2. Locking'
  BY NoneAssumption DEF IInv, TypeInv, Locking, CreateLock, Goto, Owned, Active
<1> QED BY <1>1, <1>2, QuietStep DEF CreateLock, Goto, platform

LEMMA StampLockStep == ASSUME IInv, NEW p \in Procs, StampLock(p) PROVE IInv'
<1>0. Active(p) /\ Owned(p) /\ lock' = [lock EXCEPT !.written = TRUE] /\ lock \in LockType
  BY DEF IInv, TypeInv, Locking, StampLock, Active, Owned
<1>1. TypeInv'
  BY <1>0 DEF IInv, TypeInv, StampLock, Goto, Labels, platform, config, Taken, LockType
<1>2. Locking'
  <2>1. lock'.by = p /\ lock'.written /\ ~lock'.old /\ lock' # None
    BY <1>0, NoneAssumption DEF LockType, Owned
  <2>2. \A q \in Procs : q # p => ~Active(q)
    BY <1>0, OneActive
  <2> QED BY <1>0, <2>1, <2>2 DEF IInv, TypeInv, Locking, StampLock, Goto, Owned, Active
<1> QED BY <1>1, <1>2, QuietStep DEF StampLock, Goto, platform

LEMMA FindStaleStep ==
    ASSUME IInv, Lapses = {}, NEW p \in Procs, FindStale(p)
    PROVE  IInv'
<1>1. TypeInv'
  BY DEF IInv, TypeInv, FindStale, Goto, Labels, platform, config, Taken
<1>2. ~Active(lock.by) /\ lock # None /\ lock.by \in Procs
  BY DEF IInv, TypeInv, LockType, Locking, FindStale, Stale, Unreadable, Held, Owned, Active
<1>3. Locking'
  BY <1>2 DEF IInv, TypeInv, Locking, FindStale, Goto, Owned, Active
<1> QED BY <1>1, <1>3, QuietStep DEF FindStale, Goto, platform

LEMMA BreakLockStep == ASSUME IInv, NEW p \in Procs, BreakLock(p) PROVE IInv'
<1>1. TypeInv'
  BY DEF IInv, TypeInv, BreakLock, Goto, Labels, platform, config, Taken
<1>2. \A q \in Procs : ~Active(q)
  BY DEF IInv, Locking, BreakLock, Owned
<1>3. Locking'
  BY <1>2 DEF IInv, TypeInv, Locking, BreakLock, Goto, Owned, Active
<1> QED BY <1>1, <1>3, QuietStep DEF BreakLock, Goto, platform

LEMMA LeaveIsTyped ==
    ASSUME TypeInv, NEW p \in Procs, Leave(p), lock' \in {None} \cup LockType, UNCHANGED <<ledger, platform, config>>
    PROVE  TypeInv'
  BY EmptyIsLedger DEF TypeInv, Leave, Goto, Labels, platform, config, Taken

LEMMA FindLockedStep == ASSUME IInv, NEW p \in Procs, FindLocked(p) PROVE IInv'
<1>1. TypeInv'
  BY LeaveIsTyped DEF IInv, TypeInv, FindLocked
<1>2. Locking'
  BY DEF IInv, TypeInv, Locking, FindLocked, Leave, Goto, Owned, Active
<1> QED BY <1>1, <1>2, OutsideStep DEF FindLocked, Leave, Goto, platform, config, IInv, TypeInv

LEMMA ReleaseStep == ASSUME IInv, NEW p \in Procs, Release(p) PROVE IInv'
<1>1. TypeInv'
  BY LeaveIsTyped DEF IInv, TypeInv, Release
<1>2. Active(p) /\ \A q \in Procs : (q # p => ~Active(q)) /\ pc[q] # "unlink"
  BY OneActive DEF IInv, Locking, Owned, Active, Release
<1>3. Locking'
  BY <1>2 DEF IInv, TypeInv, Locking, Release, Leave, Goto, Owned, Active
<1> QED BY <1>1, <1>3, OutsideStep DEF Release, Leave, Goto, platform, config, IInv, TypeInv

LEMMA CrashStep == ASSUME IInv, NEW p \in Procs, Crash(p) PROVE IInv'
<1>1. TypeInv'
  BY LeaveIsTyped DEF IInv, TypeInv, Crash
<1>2. Locking'
  BY DEF IInv, TypeInv, Locking, Crash, Leave, Goto, Owned, Active
<1> QED BY <1>1, <1>2, OutsideStep DEF Crash, Leave, Goto, platform, config, IInv, TypeInv

LEMMA RefuseStep == ASSUME IInv, NEW p \in Procs, Refuse(p) PROVE IInv'
<1>1. TypeInv'
  BY DEF IInv, TypeInv, Refuse, Goto, Labels, platform, config, Taken
<1>2. Locking'
  BY LockStays DEF Refuse, Goto, Labels, Active
<1> QED BY <1>1, <1>2, QuietStep DEF Refuse, Goto, platform

-----------------------------------------------------------------------------
(* The steps of a pass that leave the platform.                            *)

\* mem and ledger after a step that saves one and the same.
LEMMA SavedIsTyped ==
    ASSUME TypeInv, NEW p \in Procs, NEW led \in LedgerType, SaveAs(p, led),
           NEW label \in Labels, pc' = [pc EXCEPT ![p] = label], at' \in [Procs -> Nat \ {0}],
           Taken', queue' \in [RowSet -> Nat], UNCHANGED <<lock, opt, tries, config>>
    PROVE  TypeInv' /\ mem'[p] = led /\ ledger' = led /\ pc'[p] = label
  BY DEF TypeInv, SaveAs, Hold, config

LEMMA LoadStep == ASSUME IInv, NEW p \in Procs, Load(p) PROVE IInv'
<1>0. PICK label \in {"release", "connect"} : pc' = [pc EXCEPT ![p] = label]
  BY DEF Load, Goto
<1>1. TypeInv' /\ mem'[p] = ledger' /\ pc'[p] = label
  BY <1>0 DEF IInv, TypeInv, Load, Hold, Labels, platform, config, Taken
<1>2. Active(p) /\ Locking'
  BY <1>0, LockStays DEF Load, Labels, Active
<1>3. Working(p)'
  BY <1>1 DEF Working
<1> QED BY <1>0, <1>1, <1>2, <1>3, InsideStep DEF Load, platform, config, IInv, NothingSentTwice

\* fail: the ledger is saved as pending.
LEMMA FailStep ==
    ASSUME IInv, NEW p \in Procs, Active(p), pc[p] # "stamp", NEW led \in LedgerType, Fail(p, led),
           at' \in [Procs -> Nat \ {0}], Taken', queue' \in [RowSet -> Nat], UNCHANGED <<lock, opt, tries, config>>,
           LedgerIsTrue([led EXCEPT !.state = "pending"], got', visible', queue'),
           Fresh(led, got'), NothingSentTwice'
    PROVE  IInv'
<1> DEFINE new == [led EXCEPT !.state = "pending"]
<1>1. new \in LedgerType /\ new.attempt = led.attempt
  BY DEF LedgerType
<1>2. SaveAs(p, new) /\ pc' = [pc EXCEPT ![p] = "release"] /\ "release" \in Labels
  BY DEF Fail, Goto, Labels
<1>3. TypeInv' /\ ledger' = new /\ pc'[p] = "release"
  BY <1>1, <1>2, SavedIsTyped DEF IInv
<1>4. Locking'
  BY <1>2, LockStays
<1>5. Working(p)'
  BY <1>3 DEF Working
<1>6. Fresh(ledger, got)'
  BY <1>1, <1>3 DEF Fresh
<1>7. LedgerIsTrue(ledger, got, visible, queue)'
  BY <1>3
<1> QED BY <1>2, <1>3, <1>4, <1>5, <1>6, <1>7, InsideStep

LEMMA UnreachableStep == ASSUME IInv, NEW p \in Procs, Unreachable(p) PROVE IInv'
<1>1. Active(p) /\ mem[p] = ledger /\ Fail(p, mem[p])
  BY DEF Unreachable, Active, IInv, Working
<1>2. [ledger EXCEPT !.state = "pending"] \in LedgerType
  BY DEF IInv, TypeInv, LedgerType
<1>3. LedgerIsTrue([ledger EXCEPT !.state = "pending"], got, visible, queue)
  BY <1>2, RestStep DEF IInv, TypeInv, LedgerType, LedgerIsTrue
<1> QED BY <1>1, <1>2, <1>3, FailStep DEF Unreachable, platform, config, IInv, TypeInv, Taken, NothingSentTwice

\* An attempt that begins: nothing of any row was sent under its number.
LEMMA NewAttempt ==
    ASSUME NEW led \in LedgerType, Started(led), led.project \in Projects, led.pinned \in Settings, led.state = "pending",
           \A r \in RowSet : led.items[r] = NoItem, led.queued = {},
           NEW g, NEW vis, NEW q, \A r \in RowSet : \A s \in SpanSet(r) : CountOf(led, g, r)[s] = 0
    PROVE  LedgerIsTrue(led, g, vis, q)
<1>1. \A r \in RowSet : RowIsTrue(led, g, vis, r)
  BY PartsAreBodies, DeliveredNothing DEF RowIsTrue
<1> QED BY <1>1 DEF LedgerIsTrue

LEMMA NoDatasetStep ==
    ASSUME IInv, Lapses = {}, NEW p \in Procs, NoDataset(p)
    PROVE  IInv'
<1>1. Active(p) /\ mem[p] = ledger /\ ~Resets(p) /\ Fail(p, Pinned(p)) /\ ledger.attempt = 0
  BY DEF NoDataset, Active, IInv, Working, Base
<1> DEFINE led == Pinned(p)
<1>2. /\ led \in LedgerType /\ led.attempt = 0 /\ led.items = ledger.items /\ led.queued = ledger.queued
  BY <1>1 DEF Pinned, Base, IInv, TypeInv, LedgerType
<1> HIDE DEF led
<1>3. LET new == [led EXCEPT !.state = "pending"]
      IN  new.attempt = 0 /\ new.items = ledger.items /\ new.queued = ledger.queued /\ new.state = "pending"
  BY <1>2 DEF LedgerType
<1>4. LedgerIsTrue([led EXCEPT !.state = "pending"], got, visible, queue)
  BY <1>1, <1>3 DEF LedgerIsTrue, Started, IInv
<1>5. Fresh(led, got)
  BY <1>1, <1>2 DEF Fresh, IInv
<1>6. got' = got /\ visible' = visible /\ queue' = queue /\ at' = at /\ UNCHANGED <<lock, opt, tries, config>>
  BY DEF NoDataset, platform
<1>7. Fail(p, led)
  BY <1>1 DEF led
<1>8. pc[p] # "stamp" /\ at' \in [Procs -> Nat \ {0}] /\ Taken' /\ queue' \in [RowSet -> Nat] /\ NothingSentTwice'
  BY <1>6 DEF NoDataset, IInv, TypeInv, Taken, NothingSentTwice
<1>9. LedgerIsTrue([led EXCEPT !.state = "pending"], got', visible', queue') /\ Fresh(led, got')
  BY <1>4, <1>5, <1>6
<1> QED BY <1>1, <1>2, <1>6, <1>7, <1>8, <1>9, FailStep

LEMMA ExperimentStep == ASSUME IInv, NEW p \in Procs, Experiment(p) PROVE IInv'
<1> DEFINE led == [Pinned(p) EXCEPT !.attempt = Attempt(p)]
<1>1. Active(p) /\ mem[p] = ledger /\ SaveAs(p, led) /\ pc' = [pc EXCEPT ![p] = "items"] /\ pc[p] # "stamp"
  BY DEF Experiment, Active, IInv, Working, Goto
<1>2. ledger \in LedgerType /\ settings \in Settings /\ project \in Projects /\ EmptyLedger \in LedgerType
  BY EmptyIsLedger DEF IInv, TypeInv
<1>4. led \in LedgerType /\ LedgerIsTrue(led, got, visible, queue) /\ Started(led) /\ led.attempt >= ledger.attempt
  <2>1. CASE Resets(p)
    <3>1. led = [EmptyLedger EXCEPT !.project = project, !.pinned = settings, !.attempt = ledger.attempt + 1]
      BY <2>1, <1>1 DEF Pinned, Base, Attempt, EmptyLedger
    <3>2. ledger.attempt + 1 \in Attempts /\ ledger.attempt \in Nat
      BY <2>1, <1>1, <1>2 DEF Experiment, Attempt, LedgerType
    <3> HIDE DEF led
    <3>3. /\ led \in LedgerType /\ led.project = project /\ led.pinned = settings /\ led.attempt = ledger.attempt + 1
          /\ led.items = EmptyLedger.items /\ led.queued = {} /\ led.state = "pending"
      <4>1. ledger.attempt + 1 \in 0..MaxAttempts
        BY <3>2, BoundsAssumption DEF Attempts
      <4>2. EmptyLedger.queued = {} /\ EmptyLedger.state = "pending"
        BY DEF EmptyLedger
      <4> QED BY <3>1, <4>1, <4>2, <1>2 DEF LedgerType
    <3>4. Started(led) /\ \A r \in RowSet : led.items[r] = NoItem
      BY <3>2, <3>3 DEF Started, EmptyLedger
    <3>5. \A r \in RowSet : \A s \in SpanSet(r) : CountOf(led, got, r)[s] = 0
      BY <3>2, <3>3, <1>2 DEF IInv, Fresh, CountOf
    <3>6. LedgerIsTrue(led, got, visible, queue)
      BY <3>3, <3>4, <3>5, <1>2, NewAttempt
    <3> QED BY <3>2, <3>3, <3>4, <3>6
  <2>2. CASE ~Resets(p) /\ ledger.attempt = 0
    <3> DEFINE pinned == IF ledger.pinned = None THEN settings ELSE ledger.pinned
    <3>1. led = [ledger EXCEPT !.project = project, !.pinned = pinned, !.attempt = 1]
      BY <2>2, <1>1, <1>2 DEF Pinned, Base, Attempt, LedgerType
    <3>2. pinned \in Settings /\ 1 \in Attempts
      BY <1>2, BoundsAssumption DEF LedgerType, Attempts
    <3>3. ledger.state = "pending" /\ \A r \in RowSet : ledger.items[r] = NoItem
      BY <2>2, <1>2 DEF IInv, LedgerIsTrue, Started, LedgerType
    <3> HIDE DEF led, pinned
    <3>4. /\ led \in LedgerType /\ led.project = project /\ led.pinned = pinned /\ led.attempt = 1
          /\ led.items = ledger.items /\ led.queued = ledger.queued /\ led.state = "pending"
      <4>1. 1 \in 0..MaxAttempts
        BY BoundsAssumption
      <4> QED BY <3>1, <3>2, <3>3, <4>1, <1>2 DEF LedgerType
    <3>5. Started(led) /\ \A r \in RowSet : led.items[r] = NoItem
      BY <3>3, <3>4 DEF Started
    <3>6. \A r \in RowSet : \A s \in SpanSet(r) : CountOf(led, got, r)[s] = 0
      BY <2>2, <3>2, <3>4, <1>2 DEF IInv, Fresh, CountOf
    <3>7. \A r \in RowSet : RowIsTrue(led, got, visible, r)
      BY <3>5, <3>6, PartsAreBodies, DeliveredNothing DEF RowIsTrue
    <3>8. LedgerIsTrue(led, got, visible, queue)
      BY <3>2, <3>4, <3>5, <3>7, <1>2 DEF LedgerIsTrue, IInv
    <3> QED BY <2>2, <3>4, <3>5, <3>8
  <2>3. CASE ~Resets(p) /\ ledger.attempt # 0
    <3>1. ledger.attempt \in Nat /\ ledger.project \in Projects /\ ledger.pinned \in Settings
      BY <2>3, <1>2 DEF LedgerType, IInv, LedgerIsTrue, Started
    <3>2. opt[p] # "new" /\ ledger.project = project
      BY <2>3, <3>1, <1>1, NoneAssumption DEF Experiment, OtherProject, Resets
    <3>3. led = [ledger EXCEPT !.project = project, !.pinned = ledger.pinned, !.attempt = ledger.attempt]
      BY <2>3, <3>1, <1>1, NoneAssumption DEF Pinned, Base, Attempt
    <3>4. led = ledger
      BY <3>2, <3>3, <1>2 DEF LedgerType
    <3> HIDE DEF led
    <3> QED BY <2>3, <3>1, <3>4, <1>2 DEF IInv, Started
  <2> QED BY <2>1, <2>2, <2>3
<1> HIDE DEF led
<1>5. UNCHANGED <<lock, at, opt, tries, platform, config>>
  BY DEF Experiment
<1>6. at' \in [Procs -> Nat \ {0}] /\ Taken' /\ queue' \in [RowSet -> Nat] /\ NothingSentTwice'
  BY <1>5 DEF platform, IInv, TypeInv, Taken, NothingSentTwice
<1>7. TypeInv' /\ mem'[p] = led /\ ledger' = led /\ pc'[p] = "items"
  BY <1>1, <1>4, <1>5, <1>6, SavedIsTyped DEF Labels, IInv
<1>8. Locking'
  BY <1>1, <1>5, LockStays DEF Labels
<1>9. Working(p)'
  BY <1>4, <1>7 DEF Working
<1>10. Fresh(ledger, got)'
  <2>1. \A a \in Attempts : a > led.attempt => a > ledger.attempt
    BY <1>2, <1>4, BoundsAssumption DEF LedgerType, Attempts
  <2>2. Fresh(led, got)
    BY <2>1 DEF Fresh, IInv
  <2> QED BY <2>2, <1>5, <1>7 DEF platform
<1>11. LedgerIsTrue(ledger, got, visible, queue)'
  BY <1>4, <1>5, <1>7 DEF platform
<1> QED BY <1>1, <1>6, <1>7, <1>8, <1>9, <1>10, <1>11, InsideStep

-----------------------------------------------------------------------------
(* The steps on the items.                                                 *)

\* A step of a process with the lock that saves its ledger and goes on.
LEMMA SavedStep ==
    ASSUME IInv, NEW p \in Procs, Active(p), pc[p] # "stamp", NEW led \in LedgerType, SaveAs(p, led),
           NEW label \in Labels \ {"idle", "lock", "unlink", "stamp"}, pc' = [pc EXCEPT ![p] = label],
           at' \in [Procs -> Nat \ {0}], queue' \in [RowSet -> Nat], UNCHANGED <<got, lock, opt, tries, config>>,
           LedgerIsTrue(led, got', visible', queue'), led.attempt = ledger.attempt,
           ledger' = led /\ mem'[p] = led /\ pc'[p] = label => Working(p)'
    PROVE  IInv'
<1>1. Taken' /\ NothingSentTwice'
  BY DEF IInv, TypeInv, Taken, NothingSentTwice
<1>2. TypeInv' /\ mem'[p] = led /\ ledger' = led /\ pc'[p] = label
  BY <1>1, SavedIsTyped DEF IInv
<1>3. Locking'
  BY LockStays
<1>4. Fresh(led, got)
  BY DEF IInv, Fresh
<1>5. LedgerIsTrue(ledger, got, visible, queue)' /\ Fresh(ledger, got)' /\ Working(p)'
  BY <1>2, <1>4
<1> QED BY <1>1, <1>2, <1>3, <1>5, InsideStep

\* A step of a process with the lock that changes where it is and nothing else.
LEMMA MoveStep ==
    ASSUME IInv, NEW p \in Procs, Active(p), pc[p] # "stamp",
           NEW label \in Labels \ {"idle", "lock", "unlink", "stamp"}, pc' = [pc EXCEPT ![p] = label],
           at' \in [Procs -> Nat \ {0}], UNCHANGED <<ledger, mem, lock, opt, tries, platform, config>>,
           pc'[p] = label => Working(p)'
    PROVE  IInv'
<1>1. TypeInv' /\ pc'[p] = label
  BY DEF IInv, TypeInv, platform, config, Taken
<1>2. Locking'
  BY LockStays
<1>3. LedgerIsTrue(ledger, got, visible, queue)' /\ Fresh(ledger, got)' /\ NothingSentTwice'
  BY DEF IInv, platform, NothingSentTwice
<1> QED BY <1>1, <1>2, <1>3, InsideStep

LEMMA NextRowIsTyped ==
    ASSUME TypeInv, NEW p \in Procs
    PROVE  /\ NextRow(p) => at' \in [Procs -> Nat \ {0}]
           /\ at' = at => at' \in [Procs -> Nat \ {0}]
  BY DEF TypeInv, NextRow

LEMMA SkipItemStep == ASSUME IInv, NEW p \in Procs, SkipItem(p) PROVE IInv'
<1>1. Active(p) /\ pc[p] = "items" /\ mem[p] = ledger /\ Started(ledger) /\ pc' = [pc EXCEPT ![p] = "items"]
  BY DEF SkipItem, OnItem, Active, IInv, Working, TypeInv
<1>2. at' \in [Procs -> Nat \ {0}]
  BY NextRowIsTyped DEF SkipItem, IInv
<1>3. pc'[p] = "items" => Working(p)'
  BY <1>1 DEF Working, SkipItem
<1>4. UNCHANGED <<ledger, mem, lock, opt, tries, platform, config>>
  BY DEF SkipItem
<1> QED BY <1>1, <1>2, <1>3, <1>4, MoveStep DEF Labels

LEMMA OutOfBudgetStep == ASSUME IInv, NEW p \in Procs, OutOfBudget(p) PROVE IInv'
<1>1. Active(p) /\ pc[p] = "items" /\ mem[p] = ledger /\ Started(ledger) /\ pc' = [pc EXCEPT ![p] = "finish"]
  BY DEF OutOfBudget, OnItem, Active, IInv, Working, Goto
<1>2. at' \in [Procs -> Nat \ {0}]
  BY NextRowIsTyped DEF OutOfBudget, IInv
<1>3. ~AllExported(ledger)
  BY <1>1, OnItemFacts, RowFacts DEF OutOfBudget, AllExported, Exported, Item, IInv
<1>4. UNCHANGED <<ledger, mem, lock, opt, tries, platform, config>>
  BY DEF OutOfBudget
<1>5. pc'[p] = "finish" => Working(p)'
  BY <1>1, <1>3, <1>4 DEF Working
<1> QED BY <1>1, <1>2, <1>4, <1>5, MoveStep DEF Labels

\* The row that a process with the ledger in memory is on.
LEMMA RowIs ==
    ASSUME IInv, NEW p \in Procs, at[p] \in DOMAIN Rows, Started(ledger)
    PROVE  /\ Row(p) \in RowSet /\ ledger.items[Row(p)] \in ItemType /\ ledger \in LedgerType
           /\ Bodies(Parts(ledger, Row(p)), SpanSet(Row(p)))
           /\ RowIsTrue(ledger, got, visible, Row(p))
           /\ CountOf(ledger, got, Row(p)) \in [SpanSet(Row(p)) -> Nat]
           /\ ledger.project \in Projects /\ ledger.attempt \in Attempts
<1>1. Row(p) \in RowSet /\ ledger \in LedgerType
  BY RowFacts DEF IInv, TypeInv
<1>2. ledger.items[Row(p)] \in ItemType
  BY <1>1 DEF LedgerType
<1>3. ledger.project \in Projects /\ RowIsTrue(ledger, got, visible, Row(p))
  BY <1>1 DEF IInv, LedgerIsTrue
<1>4. ledger.attempt \in Attempts
  BY <1>1, BoundsAssumption DEF LedgerType, Started, Attempts
<1>5. CountOf(ledger, got, Row(p)) \in [SpanSet(Row(p)) -> Nat]
  BY <1>1, <1>3, <1>4 DEF IInv, TypeInv, Taken, CountOf
<1> QED BY <1>1, <1>2, <1>3, <1>4, <1>5, PartsAreBodies

LEMMA StartItemStep == ASSUME IInv, NEW p \in Procs, StartItem(p) PROVE IInv'
<1> DEFINE r == Row(p)
           item == [ledger.items[r] EXCEPT !.state = "sending", !.old = FALSE]
           led == [ledger EXCEPT !.items[r] = item]
<1>1. /\ Active(p) /\ pc[p] # "stamp" /\ at[p] \in DOMAIN Rows /\ mem[p] = ledger /\ Started(ledger)
      /\ pc' = [pc EXCEPT ![p] = "request"] /\ ledger.items[r].state = "pending" /\ SaveAs(p, led)
  BY OnItemFacts DEF StartItem, OnItem, Active, IInv, Working, Goto, Item, Announce, WithItem
<1>2. UNCHANGED <<lock, at, opt, tries, platform, config>>
  BY DEF StartItem
<1>3. /\ r \in RowSet /\ ledger.items[r] \in ItemType /\ ledger \in LedgerType
      /\ Bodies(Parts(ledger, r), SpanSet(r)) /\ RowIsTrue(ledger, got, visible, r)
  BY <1>1, RowIs
<1>4. item \in ItemType /\ item.sent = ledger.items[r].sent /\ item.state = "sending" /\ ~item.old
  BY <1>3 DEF ItemType
<1>5. Delivered(item, Parts(ledger, r), CountOf(ledger, got, r), ShownOf(ledger, visible, r))
  BY <1>1, <1>3, DeliveredSending DEF RowIsTrue
<1>6. NextHas(ledger, got, r, 0)
  BY <1>1, <1>3 DEF RowIsTrue, Delivered, NextHas
<1> HIDE DEF item
<1>7. led.items[r] = item /\ led.attempt = ledger.attempt /\ led.project = ledger.project /\ led.pinned = ledger.pinned
  BY <1>3 DEF LedgerType
<1> HIDE DEF led
<1>8. led \in LedgerType /\ LedgerIsTrue(led, got, visible, queue) /\ Started(led)
  BY <1>1, <1>3, <1>4, <1>5, RowStep DEF IInv, led
<1>9. NextHas(led, got, r, 0)
  BY <1>4, <1>6, <1>7 DEF NextHas, Parts, CountOf
<1> HIDE DEF r
<1>10. ledger' = led /\ mem'[p] = led /\ pc'[p] = "request" => Working(p)'
  BY <1>1, <1>2, <1>4, <1>7, <1>8, <1>9 DEF Working, Row, platform, r
<1>11. at' \in [Procs -> Nat \ {0}] /\ queue' \in [RowSet -> Nat]
  BY <1>2 DEF platform, IInv, TypeInv
<1>12. LedgerIsTrue(led, got', visible', queue') /\ UNCHANGED <<got, lock, opt, tries, config>>
  BY <1>2, <1>8 DEF platform
<1> QED BY <1>1, <1>7, <1>8, <1>10, <1>11, <1>12, SavedStep DEF Labels

LEMMA ItemWith ==
    ASSUME NEW old \in ItemType, NEW state \in {"pending", "sending", "unknown", "exported"},
           NEW item, item = [old EXCEPT !.sent = @ + 1, !.state = state, !.old = FALSE]
    PROVE  item \in ItemType /\ item.sent = old.sent + 1 /\ item.state = state /\ item.old = FALSE
<1> DEFINE n == old.sent + 1
<1>1. n \in Nat /\ item = [old EXCEPT !.sent = n, !.state = state, !.old = FALSE]
  BY DEF ItemType
<1> HIDE DEF n
<1>2. item = [state |-> state, sent |-> n, old |-> FALSE]
  BY <1>1 DEF ItemType
<1> QED BY <1>1, <1>2 DEF ItemType, n

\* What an acknowledged process saves of its row.
AckedItem(p, state) == [ledger.items[Row(p)] EXCEPT !.sent = @ + 1, !.state = state, !.old = FALSE]
AckedLedger(p, state) == [ledger EXCEPT !.items[Row(p)] = AckedItem(p, state)]

LEMMA AckedFacts ==
    ASSUME IInv, NEW p \in Procs, pc[p] = "acked", NEW state
    PROVE  /\ Active(p) /\ pc[p] # "stamp" /\ at[p] \in DOMAIN Rows /\ Started(ledger)
           /\ ledger.items[Row(p)].state = "sending" /\ NextHas(ledger, got, Row(p), 1)
           /\ Item(p).sent = ledger.items[Row(p)].sent + 1
           /\ Parts(mem[p], Row(p)) = Parts(ledger, Row(p))
           /\ WithItem(p, [Item(p) EXCEPT !.state = state, !.old = FALSE]) = AckedLedger(p, state)
<1> DEFINE r == Row(p)
           item == AckedItem(p, state)
<1>1. /\ Active(p) /\ pc[p] # "stamp" /\ at[p] \in DOMAIN Rows /\ Started(ledger)
      /\ ledger.items[r].state = "sending" /\ NextHas(ledger, got, r, 1)
      /\ mem[p] = [ledger EXCEPT !.items[r].sent = @ + 1]
  BY DEF IInv, Working, Active
<1>2. r \in RowSet /\ ledger.items[r] \in ItemType /\ ledger \in LedgerType
  BY <1>1, RowIs
<1> HIDE DEF r
<1>3. mem[p].items[r] = [ledger.items[r] EXCEPT !.sent = @ + 1] /\ mem[p].pinned = ledger.pinned
  BY <1>1, <1>2 DEF LedgerType
<1>4. Item(p) = [ledger.items[r] EXCEPT !.sent = @ + 1]
  BY <1>3 DEF Item, r
<1>5. [Item(p) EXCEPT !.state = state, !.old = FALSE] = item
  BY <1>2, <1>4 DEF ItemType, AckedItem, r
<1>6. [mem[p] EXCEPT !.items[r] = item] = [ledger EXCEPT !.items[r] = item]
  BY <1>1, <1>2 DEF LedgerType
<1>7. Item(p).sent = ledger.items[r].sent + 1 /\ Parts(mem[p], r) = Parts(ledger, r)
  BY <1>2, <1>3, <1>4 DEF ItemType, Parts
<1> QED BY <1>1, <1>5, <1>6, <1>7 DEF WithItem, AckedLedger, r

LEMMA AckedDelivered ==
    ASSUME IInv, NEW p \in Procs, pc[p] = "acked", NEW state \in {"sending", "exported"},
           state = "exported" <=> Item(p).sent = Len(Parts(mem[p], Row(p)))
    PROVE  LET item == AckedItem(p, state)
               led == AckedLedger(p, state)
           IN
           /\ led \in LedgerType /\ LedgerIsTrue(led, got, visible, queue) /\ Started(led)
           /\ led.attempt = ledger.attempt /\ led.items[Row(p)] = item /\ item.state = state /\ ~item.old
           /\ state = "sending" => NextHas(led, got, Row(p), 0)
<1> DEFINE r == Row(p)
           item == AckedItem(p, state)
           led == AckedLedger(p, state)
<1>1. /\ at[p] \in DOMAIN Rows /\ Started(ledger) /\ ledger.items[r].state = "sending" /\ NextHas(ledger, got, r, 1)
      /\ Item(p).sent = ledger.items[r].sent + 1 /\ Parts(mem[p], r) = Parts(ledger, r)
  BY AckedFacts
<1>2. /\ r \in RowSet /\ ledger.items[r] \in ItemType /\ ledger \in LedgerType
      /\ Bodies(Parts(ledger, r), SpanSet(r)) /\ RowIsTrue(ledger, got, visible, r)
  BY <1>1, RowIs
<1>3. item \in ItemType /\ item.sent = ledger.items[r].sent + 1 /\ item.state = state /\ ~item.old
  <2> DEFINE old == ledger.items[r]
  <2>1. old \in ItemType /\ item = [old EXCEPT !.sent = @ + 1, !.state = state, !.old = FALSE]
    BY <1>2 DEF AckedItem
  <2> HIDE DEF old
  <2>2. item \in ItemType /\ item.sent = old.sent + 1 /\ item.state = state /\ ~item.old
    BY ZenonT(60), <2>1, ItemWith
  <2> QED BY <2>2 DEF old
<1>4. state = "exported" <=> ledger.items[r].sent + 1 = Len(Parts(ledger, r))
  BY <1>1
<1>5. Delivered(item, Parts(ledger, r), CountOf(ledger, got, r), ShownOf(ledger, visible, r))
  <2> DEFINE old == ledger.items[r]
             parts == Parts(ledger, r)
             count == CountOf(ledger, got, r)
             shown == ShownOf(ledger, visible, r)
  <2>1. /\ old \in ItemType /\ old.state # "exported" /\ Delivered(old, parts, count, shown)
        /\ Bodies(parts, SpanSet(r)) /\ \A s \in Range(parts[old.sent + 1]) : count[s] = 1
        /\ state = "exported" <=> old.sent + 1 = Len(parts)
    BY <1>1, <1>2, <1>4 DEF RowIsTrue, NextHas
  <2>2. item = [old EXCEPT !.sent = @ + 1, !.state = state, !.old = FALSE]
    BY DEF AckedItem
  <2> HIDE DEF old, parts, count, shown, item
  <2>3. Delivered([old EXCEPT !.sent = @ + 1, !.state = state, !.old = FALSE], parts, count, shown)
    BY <2>1, DeliveredPart
  <2> QED BY <2>2, <2>3 DEF old, parts, count, shown
<1> HIDE DEF item
<1>6. state = "sending" => \A s \in Range(Parts(ledger, r)[item.sent + 1]) : CountOf(ledger, got, r)[s] = 0
  <2> DEFINE n == ledger.items[r].sent
             parts == Parts(ledger, r)
  <2>1. n \in 0..Len(parts) /\ Len(parts) \in Nat /\ DOMAIN parts = 1..Len(parts) /\ n # Len(parts)
    BY <1>1, <1>2, BodyFacts DEF RowIsTrue, Delivered
  <2>2. state = "sending" => n + 2 \in DOMAIN parts /\ n + 2 > n + 1 /\ item.sent + 1 = n + 2
    BY SMTT(30), <2>1, <1>3, <1>4
  <2>3. \A i \in DOMAIN parts : i > n + 1 => \A s \in Range(parts[i]) : CountOf(ledger, got, r)[s] = 0
    BY <1>2 DEF RowIsTrue, Delivered
  <2> HIDE DEF n, parts
  <2>4. state = "sending" => \A s \in Range(parts[n + 2]) : CountOf(ledger, got, r)[s] = 0
    BY <2>2, <2>3
  <2> QED BY <2>2, <2>4 DEF parts
<1>7. led = [ledger EXCEPT !.items[r] = item]
  BY DEF AckedLedger, item
<1> HIDE DEF led
<1>8. led.items[r] = item /\ led.attempt = ledger.attempt /\ led.project = ledger.project /\ led.pinned = ledger.pinned
  BY <1>2, <1>7 DEF LedgerType
<1>9. led \in LedgerType /\ LedgerIsTrue(led, got, visible, queue) /\ Started(led)
  BY <1>1, <1>2, <1>3, <1>5, <1>7, RowStep DEF IInv
<1>10. state = "sending" => NextHas(led, got, r, 0)
  BY <1>6, <1>8 DEF NextHas, Parts, CountOf
<1> QED BY <1>3, <1>8, <1>9, <1>10 DEF item, led

LEMMA NextPartStep == ASSUME IInv, NEW p \in Procs, NextPart(p) PROVE IInv'
<1> DEFINE r == Row(p)
           item == AckedItem(p, "sending")
           led == AckedLedger(p, "sending")
<1>1. /\ Active(p) /\ pc[p] # "stamp" /\ at[p] \in DOMAIN Rows /\ SaveAs(p, led)
      /\ pc' = [pc EXCEPT ![p] = "request"] /\ pc[p] = "acked"
  BY AckedFacts DEF NextPart, Goto, Announce
<1>2. UNCHANGED <<lock, at, opt, tries, platform, config>>
  BY DEF NextPart
<1>3. ~(Item(p).sent = Len(Parts(mem[p], Row(p))))
  <2>1. Item(p).sent = ledger.items[r].sent + 1 /\ ledger.items[r] \in ItemType /\ Parts(mem[p], r) = Parts(ledger, r)
        /\ Bodies(Parts(ledger, r), SpanSet(r))
    BY <1>1, AckedFacts, RowIs
  <2>2. Item(p).sent \in Nat /\ Len(Parts(mem[p], r)) \in Nat
    BY <2>1, BodyFacts DEF ItemType
  <2> QED BY <2>2 DEF NextPart
<1>4. /\ led \in LedgerType /\ LedgerIsTrue(led, got, visible, queue) /\ Started(led) /\ led.attempt = ledger.attempt
      /\ led.items[r] = item /\ item.state = "sending" /\ ~item.old /\ NextHas(led, got, r, 0)
  <2> HIDE DEF r
  <2>3. "sending" = "exported" <=> Item(p).sent = Len(Parts(mem[p], Row(p)))
    BY <1>3
  <2> QED BY <1>1, <2>3, AckedDelivered DEF r
<1> HIDE DEF item, led, r
<1>5. ledger' = led /\ mem'[p] = led /\ pc'[p] = "request" => Working(p)'
  BY <1>1, <1>2, <1>4 DEF Working, Row, platform, r
<1>6. at' \in [Procs -> Nat \ {0}] /\ queue' \in [RowSet -> Nat]
  BY <1>2 DEF platform, IInv, TypeInv
<1>7. LedgerIsTrue(led, got', visible', queue') /\ UNCHANGED <<got, lock, opt, tries, config>>
  BY <1>2, <1>4 DEF platform
<1> QED BY <1>1, <1>4, <1>5, <1>6, <1>7, SavedStep DEF Labels

LEMMA EndItemStep == ASSUME IInv, NEW p \in Procs, EndItem(p) PROVE IInv'
<1> DEFINE r == Row(p)
           item == AckedItem(p, "exported")
           led == AckedLedger(p, "exported")
<1>1. /\ Active(p) /\ pc[p] # "stamp" /\ SaveAs(p, led)
      /\ pc' = [pc EXCEPT ![p] = "items"] /\ pc[p] = "acked" /\ NextRow(p)
  BY AckedFacts DEF EndItem, Goto
<1>2. UNCHANGED <<lock, opt, tries, platform, config>>
  BY DEF EndItem
<1>3. /\ led \in LedgerType /\ LedgerIsTrue(led, got, visible, queue) /\ Started(led) /\ led.attempt = ledger.attempt
  <2>3. "exported" = "exported" <=> Item(p).sent = Len(Parts(mem[p], Row(p)))
    BY DEF EndItem
  <2> QED BY <1>1, <2>3, AckedDelivered
<1> HIDE DEF item, led, r
<1>4. ledger' = led /\ mem'[p] = led /\ pc'[p] = "items" => Working(p)'
  BY <1>3 DEF Working
<1>5. at' \in [Procs -> Nat \ {0}] /\ queue' \in [RowSet -> Nat]
  BY <1>1, <1>2, NextRowIsTyped DEF platform, IInv, TypeInv
<1>6. LedgerIsTrue(led, got', visible', queue') /\ UNCHANGED <<got, lock, opt, tries, config>>
  BY <1>2, <1>3 DEF platform
<1> QED BY <1>1, <1>3, <1>4, <1>5, <1>6, SavedStep DEF Labels

LEMMA EndItemsStep == ASSUME IInv, NEW p \in Procs, EndItems(p) PROVE IInv'
<1>1. /\ Active(p) /\ pc[p] # "stamp" /\ mem[p] = ledger /\ Started(ledger)
      /\ UNCHANGED <<ledger, mem, lock, at, opt, tries, platform, config>>
  BY DEF EndItems, Active, IInv, Working
<1>2. at' \in [Procs -> Nat \ {0}]
  BY <1>1, NextRowIsTyped DEF IInv
<1>3. CASE AllExported(ledger)
  <2>1. pc' = [pc EXCEPT ![p] = "scores"]
    BY <1>1, <1>3 DEF EndItems, Goto
  <2>2. pc'[p] = "scores" => Working(p)'
    BY <1>1, <1>3 DEF Working
  <2> QED BY <1>1, <1>2, <2>1, <2>2, MoveStep DEF Labels
<1>4. CASE ~AllExported(ledger)
  <2>1. pc' = [pc EXCEPT ![p] = "finish"]
    BY <1>1, <1>4 DEF EndItems, Goto
  <2>2. pc'[p] = "finish" => Working(p)'
    BY <1>1, <1>4 DEF Working
  <2> QED BY <1>1, <1>2, <2>1, <2>2, MoveStep DEF Labels
<1> QED BY <1>3, <1>4

\* The first span of the part in doubt tells whether the part arrived.
LEMMA DeliveredResolved ==
    ASSUME NEW S, NEW parts, Bodies(parts, S), NEW count, NEW shown,
           NEW item \in ItemType, Delivered(item, parts, count, shown), item.state # "exported", item.old,
           NEW sent, sent = item.sent + IF parts[item.sent + 1][1] \in shown THEN 1 ELSE 0,
           NEW new, new = [item EXCEPT !.sent = sent, !.old = FALSE,
                                       !.state = IF sent >= Len(parts) THEN "exported" ELSE "pending"]
    PROVE  new \in ItemType /\ Delivered(new, parts, count, shown)
<1> DEFINE n == item.sent
<1>1. n \in Nat /\ Len(parts) \in Nat /\ n < Len(parts) /\ n + 1 \in DOMAIN parts
  BY BodyFacts DEF Delivered, ItemType
<1>2. parts[n + 1][1] \in Range(parts[n + 1])
  BY <1>1, BodyFacts
<1>3. /\ \A s \in Range(parts[n + 1]) : s \in shown <=> count[s] = 1
      /\ \E m \in {0, 1} : \A s \in Range(parts[n + 1]) : count[s] = m
  BY DEF Delivered
<1>4. CASE parts[n + 1][1] \in shown
  <2> DEFINE state == IF n + 1 >= Len(parts) THEN "exported" ELSE "pending"
  <2>1. \A s \in Range(parts[n + 1]) : count[s] = 1
    BY <1>2, <1>3, <1>4
  <2>2. state \in {"sending", "exported", "pending"} /\ (state = "exported" <=> n + 1 = Len(parts))
    BY <1>1
  <2>3. sent = n + 1
    BY <1>4
  <2>4. new = [item EXCEPT !.sent = @ + 1, !.state = state, !.old = FALSE]
    <3>1. new = [item EXCEPT !.sent = n + 1, !.old = FALSE, !.state = state]
      BY <2>3
    <3> HIDE DEF state
    <3> QED BY <3>1 DEF ItemType
  <2> HIDE DEF state
  <2>5. new \in ItemType
    <3>1. state \in {"pending", "sending", "unknown", "exported"}
      BY <2>2
    <3> DEFINE m == n + 1
    <3>2. new = [item EXCEPT !.sent = m, !.state = state, !.old = FALSE] /\ m \in Nat
      BY <1>1, <2>4
    <3> HIDE DEF m
    <3> QED BY <3>1, <3>2 DEF ItemType
  <2>6. Delivered([item EXCEPT !.sent = @ + 1, !.state = state, !.old = FALSE], parts, count, shown)
    BY <2>1, <2>2, DeliveredPart
  <2> QED BY <2>4, <2>5, <2>6
<1>5. CASE parts[n + 1][1] \notin shown
  <2>1. \A s \in Range(parts[n + 1]) : count[s] = 0
    BY <1>2, <1>3, <1>5
  <2>2. sent = n /\ ~(n >= Len(parts))
    BY <1>1, <1>5
  <2>3. new = [item EXCEPT !.state = "pending", !.old = FALSE]
    <3>1. new = [item EXCEPT !.sent = n, !.old = FALSE, !.state = "pending"]
      BY <2>2
    <3> QED BY <3>1 DEF ItemType
  <2>4. new \in ItemType
    BY <2>3 DEF ItemType
  <2>5. Delivered([item EXCEPT !.state = "pending", !.old = FALSE], parts, count, shown)
    BY <2>1, DeliveredPending
  <2> QED BY <2>3, <2>4, <2>5
<1> QED BY <1>4, <1>5

\* fail, with the ledger as it is on disk.
LEMMA FailSameStep ==
    ASSUME IInv, NEW p \in Procs, Active(p), pc[p] # "stamp", mem[p] = ledger, Fail(p, mem[p]),
           UNCHANGED <<at, got, visible, lock, opt, tries, config>>,
           queue' \in [RowSet -> Nat], \A r \in RowSet : queue[r] > 0 => queue'[r] > 0
    PROVE  IInv'
<1> DEFINE led == [ledger EXCEPT !.state = "pending"]
<1>1. ledger \in LedgerType /\ LedgerIsTrue(ledger, got, visible, queue)
  BY DEF IInv, TypeInv
<1>2. /\ led \in LedgerType /\ led.state = "pending" /\ led.items = ledger.items /\ led.attempt = ledger.attempt
      /\ led.project = ledger.project /\ led.pinned = ledger.pinned /\ led.queued = ledger.queued
  BY <1>1 DEF LedgerType
<1> HIDE DEF led
<1>3. \A r \in led.queued : queue'[r] > 0
  BY <1>1, <1>2, SpansAssumption DEF LedgerIsTrue, LedgerType
<1>4. LedgerIsTrue(led, got, visible, queue')
  BY <1>1, <1>2, <1>3, RestStep
<1>5. LedgerIsTrue(led, got', visible', queue') /\ Fresh(ledger, got')
  BY <1>4 DEF IInv
<1>6. at' \in [Procs -> Nat \ {0}] /\ Taken' /\ NothingSentTwice'
  BY DEF IInv, TypeInv, Taken, NothingSentTwice
<1>7. Fail(p, ledger) /\ UNCHANGED <<lock, opt, tries, config>>
  OBVIOUS
<1> QED BY <1>1, <1>5, <1>6, <1>7, FailStep DEF led

LEMMA VerifyStep == ASSUME IInv, NEW p \in Procs, Verify(p) PROVE IInv'
<1> DEFINE r == Row(p)
           item == Resolved(p)
           led == [ledger EXCEPT !.items[r] = item]
<1>1. /\ Active(p) /\ pc[p] # "stamp" /\ at[p] \in DOMAIN Rows /\ mem[p] = ledger /\ Started(ledger)
      /\ ledger.items[r].state \in {"unknown", "sending"} /\ ledger.items[r].old /\ pc[p] = "items"
  BY OnItemFacts DEF Verify, OnItem, Active, IInv, Working, Item, InDoubt
<1>2. UNCHANGED <<lock, at, opt, tries, platform, config>>
  BY DEF Verify
<1>3. /\ r \in RowSet /\ ledger.items[r] \in ItemType /\ ledger \in LedgerType
      /\ Bodies(Parts(ledger, r), SpanSet(r)) /\ RowIsTrue(ledger, got, visible, r)
  BY <1>1, RowIs
<1>4. CASE Fail(p, mem[p])
  <2>1. UNCHANGED <<at, got, visible, lock, opt, tries, config>> /\ queue' = queue
    BY <1>2 DEF platform
  <2>2. queue' \in [RowSet -> Nat] /\ \A r2 \in RowSet : queue[r2] > 0 => queue'[r2] > 0
    BY <2>1 DEF IInv, TypeInv
  <2> QED BY <1>1, <1>4, <2>1, <2>2, FailSameStep
<1>5. CASE SaveAs(p, WithItem(p, Resolved(p))) /\ UNCHANGED pc
  <2>1. item \in ItemType /\ Delivered(item, Parts(ledger, r), CountOf(ledger, got, r), ShownOf(ledger, visible, r))
    <3> DEFINE old == ledger.items[r]
               parts == Parts(ledger, r)
               shown == ShownOf(ledger, visible, r)
               sent == old.sent + IF parts[old.sent + 1][1] \in shown THEN 1 ELSE 0
    <3>1. Bodies(parts, SpanSet(r)) /\ Delivered(old, parts, CountOf(ledger, got, r), shown) /\ old \in ItemType
          /\ old.state # "exported" /\ old.old
      BY <1>1, <1>3 DEF RowIsTrue
    <3>2. parts[old.sent + 1][1] \in SpanSet(r)
      BY <3>1, BodyFacts DEF Delivered, ItemType
    <3>3. Shown(p, parts[old.sent + 1][1]) <=> parts[old.sent + 1][1] \in shown
      BY <3>2, <1>1 DEF Shown, ShownOf
    <3>4. item = [old EXCEPT !.sent = sent, !.old = FALSE,
                             !.state = IF sent >= Len(parts) THEN "exported" ELSE "pending"]
      BY <1>1, <3>3 DEF Resolved, Item
    <3> HIDE DEF old, parts, shown, item
    <3> QED BY <3>1, <3>4, DeliveredResolved DEF old, parts, shown
  <2> HIDE DEF item
  <2>2. SaveAs(p, led) /\ pc' = [pc EXCEPT ![p] = "items"]
    BY <1>1, <1>5 DEF WithItem, IInv, TypeInv, item
  <2>3. led.attempt = ledger.attempt
    BY <1>3 DEF LedgerType
  <2>4. led \in LedgerType /\ LedgerIsTrue(led, got, visible, queue) /\ Started(led)
    BY <1>1, <1>3, <2>1, RowStep DEF IInv
  <2> HIDE DEF led, r
  <2>5. ledger' = led /\ mem'[p] = led /\ pc'[p] = "items" => Working(p)'
    BY <2>4 DEF Working
  <2>6. at' \in [Procs -> Nat \ {0}] /\ queue' \in [RowSet -> Nat]
    BY <1>2 DEF platform, IInv, TypeInv
  <2>7. LedgerIsTrue(led, got', visible', queue') /\ UNCHANGED <<got, lock, opt, tries, config>>
    BY <1>2, <2>4 DEF platform
  <2> QED BY <1>1, <2>2, <2>3, <2>4, <2>5, <2>6, <2>7, SavedStep DEF Labels
<1> QED BY <1>4, <1>5 DEF Verify

-----------------------------------------------------------------------------
(* A request.                                                              *)

LEMMA TakeInFacts ==
    ASSUME IInv, NEW p \in Procs, at[p] \in DOMAIN Rows, Started(ledger), mem[p] = ledger, TakeIn(p)
    PROVE  /\ Taken'
           /\ CountOf(ledger, got', Row(p)) =
                 [s \in SpanSet(Row(p)) |-> IF s \in Range(Parts(ledger, Row(p))[ledger.items[Row(p)].sent + 1])
                                            THEN CountOf(ledger, got, Row(p))[s] + 1
                                            ELSE CountOf(ledger, got, Row(p))[s]]
           /\ \A pr \in Projects, a \in Attempts, r2 \in RowSet :
                 \/ pr = ledger.project /\ a = ledger.attempt /\ r2 = Row(p)
                 \/ got'[pr][a][r2] = got[pr][a][r2]
<1> DEFINE pr0 == ledger.project
           a0 == ledger.attempt
           r0 == Row(p)
           part == Range(Parts(ledger, r0)[ledger.items[r0].sent + 1])
           count == got[pr0][a0][r0]
           new == [s \in SpanSet(r0) |-> IF s \in part THEN count[s] + 1 ELSE count[s]]
<1>1. /\ pr0 \in Projects /\ a0 \in Attempts /\ r0 \in RowSet
      /\ count \in [SpanSet(r0) -> Nat]
  BY RowIs DEF CountOf
<1>2. got' = [got EXCEPT ![pr0][a0][r0] = new]
  BY <1>1 DEF TakeIn, Part, Item
<1>3. new \in [SpanSet(r0) -> Nat]
  BY <1>1
<1> HIDE DEF new, part, count
<1>4. CountOf(ledger, got, r0) = count
  BY DEF CountOf, count
<1> HIDE DEF pr0, a0, r0
<1>5. got \in [Projects -> [Attempts -> [RowSet -> UNION {[SpanSet(r) -> Nat] : r \in RowSet}]]]
  BY DEF IInv, TypeInv, Taken
<1>6. \A pr \in Projects, a \in Attempts, r2 \in RowSet :
         got'[pr][a][r2] = IF pr = pr0 /\ a = a0 /\ r2 = r0 THEN new ELSE got[pr][a][r2]
  BY <1>1, <1>2, <1>5
<1>7. new \in UNION {[SpanSet(r) -> Nat] : r \in RowSet}
  BY <1>1, <1>3
<1>8. got' \in [Projects -> [Attempts -> [RowSet -> UNION {[SpanSet(r) -> Nat] : r \in RowSet}]]]
  BY <1>1, <1>2, <1>5, <1>7
<1>9. ASSUME NEW pr \in Projects, NEW a \in Attempts, NEW r2 \in RowSet
      PROVE  got'[pr][a][r2] \in [SpanSet(r2) -> Nat]
  <2>1. CASE pr = pr0 /\ a = a0 /\ r2 = r0
    <3>1. got'[pr][a][r2] = new
      BY <1>6, <2>1
    <3> QED BY <1>3, <2>1, <3>1
  <2>2. CASE ~(pr = pr0 /\ a = a0 /\ r2 = r0)
    <3>1. got'[pr][a][r2] = got[pr][a][r2]
      BY <1>6, <2>2
    <3> QED BY <3>1 DEF IInv, TypeInv, Taken
  <2> QED BY <2>1, <2>2
<1>10. Taken'
  BY <1>8, <1>9 DEF Taken
<1>11. got'[pr0][a0][r0] = new
  BY <1>1, <1>6
<1>12. CountOf(ledger, got', Row(p)) = new
  BY <1>11 DEF CountOf, pr0, a0, r0
<1> QED BY <1>4, <1>6, <1>10, <1>12 DEF new, part, count, pr0, a0, r0

\* A request came to the platform or not.
LEMMA Arrival ==
    ASSUME IInv, NEW p \in Procs, pc[p] = "request", NEW n \in {0, 1},
           n = 1 => TakeIn(p), n = 0 => UNCHANGED got
    PROVE  /\ Taken' /\ NothingSentTwice' /\ Fresh(ledger, got')
           /\ \A r2 \in RowSet \ {Row(p)} : CountOf(ledger, got', r2) = CountOf(ledger, got, r2)
           /\ Delivered(ledger.items[Row(p)], Parts(ledger, Row(p)), CountOf(ledger, got', Row(p)),
                        ShownOf(ledger, visible, Row(p)))
           /\ NextHas(ledger, got', Row(p), n)
<1> DEFINE r == Row(p)
           item == ledger.items[r]
           parts == Parts(ledger, r)
           count == CountOf(ledger, got, r)
           new == CountOf(ledger, got', r)
           shown == ShownOf(ledger, visible, r)
<1>1. /\ at[p] \in DOMAIN Rows /\ mem[p] = ledger /\ Started(ledger) /\ item.state = "sending" /\ ~item.old
      /\ NextHas(ledger, got, r, 0)
  BY DEF IInv, Working
<1>2. /\ r \in RowSet /\ item \in ItemType /\ ledger \in LedgerType
      /\ Bodies(parts, SpanSet(r)) /\ Delivered(item, parts, count, shown) /\ count \in [SpanSet(r) -> Nat]
      /\ ledger.project \in Projects /\ ledger.attempt \in Attempts
  BY <1>1, RowIs DEF RowIsTrue
<1>3. CASE n = 0
  <2>1. got' = got
    BY <1>3
  <2> QED BY <1>1, <1>2, <1>3, <2>1 DEF IInv, TypeInv, Taken, NothingSentTwice
<1>4. CASE n = 1
  <2>1. /\ Taken'
        /\ new = [s \in SpanSet(r) |-> IF s \in Range(parts[item.sent + 1]) THEN count[s] + 1 ELSE count[s]]
        /\ \A pr \in Projects, a \in Attempts, r2 \in RowSet :
                 \/ pr = ledger.project /\ a = ledger.attempt /\ r2 = r
                 \/ got'[pr][a][r2] = got[pr][a][r2]
    BY <1>1, <1>4, TakeInFacts
  <2>2. \A s \in Range(parts[item.sent + 1]) : count[s] = 0
    BY <1>1 DEF NextHas
  <2>3. new = got'[ledger.project][ledger.attempt][r]
    BY DEF CountOf
  <2>4. NothingSentTwice => \A s \in SpanSet(r) : count[s] <= 1
    BY <1>2 DEF CountOf, NothingSentTwice
  <2>5. \A r2 \in RowSet \ {r} : CountOf(ledger, got', r2) = CountOf(ledger, got, r2)
    BY <1>2, <2>1 DEF CountOf
  <2> HIDE DEF item, parts, count, new, shown
  <2>6. /\ Delivered(item, parts, new, shown)
        /\ \A s \in Range(parts[item.sent + 1]) : new[s] = 1
        /\ \A s \in SpanSet(r) : new[s] = count[s] \/ (count[s] = 0 /\ new[s] = 1)
    BY <1>1, <1>2, <2>1, <2>2, DeliveredArrives
  <2>7. DOMAIN new = SpanSet(r) /\ \A s \in SpanSet(r) : new[s] <= 1
    BY <2>1, <2>4, <2>6, <1>2 DEF IInv
  <2>8. NothingSentTwice'
    <3> SUFFICES ASSUME NEW pr \in Projects, NEW a \in Attempts, NEW r2 \in RowSet, NEW s \in DOMAIN got'[pr][a][r2]
                 PROVE  got'[pr][a][r2][s] <= 1
      BY DEF NothingSentTwice
    <3>1. CASE pr = ledger.project /\ a = ledger.attempt /\ r2 = r
      BY <3>1, <2>3, <2>7
    <3>2. CASE got'[pr][a][r2] = got[pr][a][r2]
      BY <3>2 DEF IInv, NothingSentTwice
    <3> QED BY <2>1, <3>1, <3>2
  <2>9. Fresh(ledger, got')
    <3> SUFFICES ASSUME NEW pr \in Projects, NEW a \in Attempts, NEW r2 \in RowSet, NEW s \in SpanSet(r2), a > ledger.attempt
                 PROVE  got'[pr][a][r2][s] = 0
      BY DEF Fresh
    <3>1. a # ledger.attempt
      BY <1>2 DEF Attempts
    <3>2. got'[pr][a][r2] = got[pr][a][r2]
      BY <2>1, <3>1
    <3> QED BY <3>2 DEF IInv, Fresh
  <2>10. NextHas(ledger, got', r, 1)
    BY <2>6 DEF NextHas, new, item, parts
  <2> QED BY <1>4, <2>1, <2>5, <2>6, <2>8, <2>9, <2>10 DEF item, parts, new, shown
<1> QED BY <1>3, <1>4

LEMMA RequestStep == ASSUME IInv, NEW p \in Procs, Request(p) PROVE IInv'
<1> DEFINE r == Row(p)
           old == ledger.items[r]
           parts == Parts(ledger, r)
           shown == ShownOf(ledger, visible, r)
<1>1. PICK fate \in Fates(FALSE) :
          /\ IF fate.arrived THEN TakeIn(p) ELSE UNCHANGED got
          /\ \/ /\ fate.answer = "ok"
                /\ Hold(p, WithItem(p, [Item(p) EXCEPT !.sent = @ + 1]))
                /\ Goto(p, "acked")
                /\ UNCHANGED <<ledger, at>>
             \/ /\ fate.answer = "unknown"
                /\ SaveAs(p, WithItem(p, [Item(p) EXCEPT !.state = "unknown"]))
                /\ Goto(p, "items")
                /\ NextRow(p)
             \/ /\ fate.answer = "failed"
                /\ Fail(p, WithItem(p, [Item(p) EXCEPT !.state = "pending", !.old = FALSE]))
                /\ UNCHANGED at
  BY DEF Request
<1>2. /\ fate.answer = "ok" => fate.arrived
      /\ fate.answer = "failed" => ~fate.arrived
  BY <1>1 DEF Fates
<1> DEFINE n == IF fate.arrived THEN 1 ELSE 0
<1>3. /\ Active(p) /\ pc[p] # "stamp" /\ pc[p] = "request" /\ at[p] \in DOMAIN Rows /\ mem[p] = ledger /\ Started(ledger)
      /\ old.state = "sending" /\ UNCHANGED <<lock, opt, tries, visible, queue, config>>
  BY DEF IInv, Working, Active, Request
<1>4. /\ r \in RowSet /\ old \in ItemType /\ ledger \in LedgerType /\ Bodies(parts, SpanSet(r))
  BY <1>3, RowIs
<1>5. n \in {0, 1} /\ (n = 1 => TakeIn(p)) /\ (n = 0 => UNCHANGED got)
  BY <1>1
<1>6. /\ Taken' /\ NothingSentTwice' /\ Fresh(ledger, got')
      /\ \A r2 \in RowSet \ {r} : CountOf(ledger, got', r2) = CountOf(ledger, got, r2)
      /\ Delivered(old, parts, CountOf(ledger, got', r), shown)
      /\ NextHas(ledger, got', r, n)
  <2> HIDE DEF n
  <2> QED BY <1>3, <1>5, Arrival
<1>7. queue' \in [RowSet -> Nat] /\ at' \in [Procs -> Nat \ {0}]
  BY <1>1, <1>3, NextRowIsTyped DEF IInv, TypeInv, Fail
<1>8. CASE fate.answer = "ok"
  <2> DEFINE led == [ledger EXCEPT !.items[r] = [old EXCEPT !.sent = @ + 1]]
  <2>1. Hold(p, led) /\ pc' = [pc EXCEPT ![p] = "acked"] /\ UNCHANGED <<ledger, at>>
    BY <1>1, <1>3, <1>8 DEF WithItem, Item, Goto
  <2>2. n = 1
    BY <1>2, <1>8
  <2>3. led \in LedgerType
    <3>1. [old EXCEPT !.sent = @ + 1] \in ItemType
      BY <1>4 DEF ItemType
    <3> QED BY <1>4, <3>1 DEF LedgerType
  <2>4. led = [ledger EXCEPT !.items[r].sent = @ + 1]
    BY <1>4 DEF LedgerType
  <2> HIDE DEF led
  <2>5. LedgerIsTrue(ledger, got', visible, queue)
    <3>1. ledger = [ledger EXCEPT !.items[r] = old]
      BY <1>4 DEF LedgerType
    <3>2. ledger.items[r].state # "exported" /\ LedgerIsTrue(ledger, got, visible, queue)
      BY <1>3 DEF IInv
    <3>3. Delivered(old, Parts(ledger, r), CountOf(ledger, got', r), ShownOf(ledger, visible, r))
      BY <1>6
    <3> HIDE DEF old, r, n, parts, shown
    <3> QED BY <1>3, <1>4, <1>6, <3>1, <3>2, <3>3, RowStep
  <2>6. TypeInv' /\ pc'[p] = "acked" /\ mem'[p] = led
    BY <1>3, <1>6, <1>7, <2>1, <2>3 DEF IInv, TypeInv, Hold, Labels, config
  <2>7. Locking'
    BY <1>3, <2>1, LockStays DEF Labels
  <2> HIDE DEF r, n
  <2>8. Working(p)'
    BY <1>3, <1>6, <2>1, <2>2, <2>4, <2>6 DEF Working, Row, r, old
  <2>9. LedgerIsTrue(ledger, got, visible, queue)' /\ Fresh(ledger, got)'
    BY <1>3, <1>6, <2>1, <2>5
  <2> QED BY <1>3, <1>6, <2>1, <2>6, <2>7, <2>8, <2>9, InsideStep
<1>9. CASE fate.answer = "unknown"
  <2> DEFINE item == [old EXCEPT !.state = "unknown"]
             led == [ledger EXCEPT !.items[r] = item]
  <2>1. SaveAs(p, led) /\ pc' = [pc EXCEPT ![p] = "items"]
    BY <1>1, <1>3, <1>9 DEF WithItem, Item, Goto
  <2>2. item \in ItemType /\ Delivered(item, parts, CountOf(ledger, got', r), shown) /\ old.state # "exported"
    BY <1>3, <1>4, <1>6, DeliveredUnknown DEF ItemType
  <2> HIDE DEF item
  <2>3. led.attempt = ledger.attempt
    BY <1>4 DEF LedgerType
  <2>4. led \in LedgerType /\ LedgerIsTrue(led, got', visible, queue) /\ Started(led)
    <3>1. ledger.items[r].state # "exported" /\ LedgerIsTrue(ledger, got, visible, queue)
      BY <1>3 DEF IInv
    <3>2. Delivered(item, Parts(ledger, r), CountOf(ledger, got', r), ShownOf(ledger, visible, r))
      BY <2>2
    <3>3. led = [ledger EXCEPT !.items[r] = item]
      OBVIOUS
    <3> HIDE DEF old, r, n, parts, shown, led
    <3> QED BY <1>3, <1>4, <1>6, <2>2, <3>1, <3>2, <3>3, RowStep
  <2> HIDE DEF led, r, n
  <2>5. TypeInv' /\ mem'[p] = led /\ ledger' = led /\ pc'[p] = "items"
    BY <1>3, <1>6, <1>7, <2>1, <2>4, SavedIsTyped DEF IInv, Labels
  <2>6. Locking'
    BY <1>3, <2>1, LockStays DEF Labels
  <2>7. Working(p)'
    BY <2>4, <2>5 DEF Working
  <2>8. Fresh(led, got')
    BY <1>6, <2>3 DEF Fresh
  <2>9. LedgerIsTrue(ledger, got, visible, queue)' /\ Fresh(ledger, got)'
    BY <1>3, <2>4, <2>5, <2>8
  <2> QED BY <1>3, <1>6, <2>1, <2>5, <2>6, <2>7, <2>9, InsideStep
<1>10. CASE fate.answer = "failed"
  <2> DEFINE item == [old EXCEPT !.state = "pending", !.old = FALSE]
             led == [ledger EXCEPT !.items[r] = item]
  <2>1. Fail(p, led)
    BY <1>1, <1>3, <1>10 DEF WithItem, Item
  <2>2. n = 0 /\ old.state # "exported"
    BY <1>2, <1>3, <1>10
  <2>3. item \in ItemType /\ Delivered(item, parts, CountOf(ledger, got', r), shown)
    BY <1>4, <1>6, <2>2, DeliveredPending DEF ItemType, NextHas
  <2> HIDE DEF item
  <2>4. led.attempt = ledger.attempt
    BY <1>4 DEF LedgerType
  <2>5. led \in LedgerType /\ LedgerIsTrue(led, got', visible, queue) /\ led = [led EXCEPT !.state = "pending"]
    <3>1. ledger.items[r].state # "exported" /\ LedgerIsTrue(ledger, got, visible, queue)
      BY <1>3 DEF IInv
    <3>2. Delivered(item, Parts(ledger, r), CountOf(ledger, got', r), ShownOf(ledger, visible, r))
      BY <2>3
    <3>3. led = [ledger EXCEPT !.items[r] = item]
      OBVIOUS
    <3> HIDE DEF old, r, n, parts, shown, led
    <3>4. led \in LedgerType /\ LedgerIsTrue(led, got', visible, queue) /\ Started(led)
      BY <1>3, <1>4, <1>6, <2>3, <3>1, <3>2, <3>3, RowStep
    <3>5. led.state = "pending"
      <4>1. ledger.state = "pending"
        BY <1>4, <3>1 DEF LedgerIsTrue, AllExported, Exported, LedgerType
      <4> QED BY <1>4, <3>3, <4>1 DEF LedgerType
    <3> QED BY <3>4, <3>5 DEF LedgerType
  <2> HIDE DEF led, r, n
  <2>6. Fresh(led, got')
    BY <1>6, <2>4 DEF Fresh
  <2>7. LedgerIsTrue([led EXCEPT !.state = "pending"], got', visible', queue')
    BY <1>3, <2>5
  <2> QED BY <1>3, <1>6, <1>7, <2>1, <2>5, <2>6, <2>7, FailStep
<1> QED BY <1>1, <1>8, <1>9, <1>10

-----------------------------------------------------------------------------
(* The scores, the triage and the end of a pass.                           *)

LEMMA FailedIsFinite ==
    ASSUME NEW S \in SUBSET Failed
    PROVE  IsFiniteSet(S) /\ Cardinality(S) \in Nat /\ IsFiniteSet(Failed) /\ Cardinality(Failed) \in Nat
<1>1. IsFiniteSet(RowSet)
  <2>1. Rows \in Seq(RowSet) /\ \A r \in RowSet : \E n \in 1..Len(Rows) : Rows[n] = r
    BY SpansAssumption DEF RowSet, Range
  <2> QED BY <2>1 DEF IsFiniteSet
<1>2. S \in SUBSET RowSet /\ Failed \in SUBSET RowSet
  BY SpansAssumption
<1> QED BY <1>1, <1>2, FS_Subset, FS_CardinalityType

\* A step that leaves the items.
LEMMA NoItemStep ==
    ASSUME IInv, NEW led \in LedgerType, NEW q2,
           led.items = ledger.items, led.attempt = ledger.attempt,
           led.project = ledger.project, led.pinned = ledger.pinned,
           led.state = "complete" => Started(ledger) /\ AllExported(ledger) /\ TriageDone(led),
           \A r \in led.queued : q2[r] > 0
    PROVE  LedgerIsTrue(led, got, visible, q2)
  BY RestStep DEF IInv, TypeInv

LEMMA KeepScoresStep == ASSUME IInv, NEW p \in Procs, KeepScores(p) PROVE IInv'
<1>1. /\ Active(p) /\ pc[p] # "stamp" /\ mem[p] = ledger /\ Started(ledger) /\ AllExported(ledger)
      /\ UNCHANGED <<ledger, mem, lock, at, opt, tries, platform, config>> /\ pc' = [pc EXCEPT ![p] = "triage"]
  BY DEF KeepScores, Active, IInv, Working, Goto
<1>2. at' \in [Procs -> Nat \ {0}]
  BY <1>1, NextRowIsTyped DEF IInv
<1>3. pc'[p] = "triage" => Working(p)'
  BY <1>1 DEF Working
<1> QED BY <1>1, <1>2, <1>3, MoveStep DEF Labels

LEMMA PostScoresStep == ASSUME IInv, NEW p \in Procs, PostScores(p) PROVE IInv'
<1>1. /\ Active(p) /\ pc[p] # "stamp" /\ mem[p] = ledger /\ Started(ledger) /\ AllExported(ledger)
      /\ UNCHANGED <<lock, at, opt, tries, platform, config>>
  BY DEF PostScores, Active, IInv, Working
<1>2. /\ ledger \in LedgerType /\ at' \in [Procs -> Nat \ {0}] /\ queue' = queue /\ queue \in [RowSet -> Nat]
      /\ UNCHANGED <<at, got, visible, lock, opt, tries, config>>
  BY <1>1 DEF IInv, TypeInv, platform
<1>3. ASSUME NEW scores \in {"posted", "rejected"},
             SaveAs(p, [mem[p] EXCEPT !.scores = scores]), Goto(p, "triage")
      PROVE  IInv'
  <2> DEFINE led == [ledger EXCEPT !.scores = scores]
  <2>1. SaveAs(p, led) /\ pc' = [pc EXCEPT ![p] = "triage"]
    BY <1>1, <1>3 DEF Goto
  <2>2. /\ led \in LedgerType /\ led.items = ledger.items /\ led.attempt = ledger.attempt /\ led.project = ledger.project
        /\ led.pinned = ledger.pinned /\ led.state = ledger.state /\ led.queued = ledger.queued
    BY <1>2 DEF LedgerType
  <2> HIDE DEF led
  <2>3. LedgerIsTrue(led, got, visible, queue)
    BY <2>2, NoItemStep DEF IInv, LedgerIsTrue, TriageDone
  <2>4. Started(led) /\ AllExported(led)
    BY <1>1, <2>2 DEF Started, AllExported, Exported
  <2>5. ledger' = led /\ mem'[p] = led /\ pc'[p] = "triage" => Working(p)'
    BY <2>4 DEF Working
  <2>6. LedgerIsTrue(led, got', visible', queue')
    BY <1>2, <2>3
  <2> QED BY <1>1, <1>2, <2>1, <2>2, <2>5, <2>6, SavedStep DEF Labels
<1>4. CASE Fail(p, mem[p])
  BY <1>1, <1>2, <1>4, FailSameStep
<1> QED BY <1>3, <1>4 DEF PostScores

LEMMA EnqueueStep == ASSUME IInv, NEW p \in Procs, Enqueue(p) PROVE IInv'
<1>1. /\ Active(p) /\ pc[p] # "stamp" /\ mem[p] = ledger /\ Started(ledger) /\ AllExported(ledger)
      /\ UNCHANGED <<lock, at, opt, tries, got, visible, config>>
  BY DEF Enqueue, Active, IInv, Working
<1>2. PICK r \in Candidates(p), fate \in Fates(TRUE) :
          /\ queue' = IF fate.arrived THEN [queue EXCEPT ![r] = @ + 1] ELSE queue
          /\ IF fate.answer = "ok"
             THEN /\ Hold(p, [mem[p] EXCEPT !.queued = @ \cup {r}])
                  /\ Goto(p, "queued")
                  /\ UNCHANGED ledger
             ELSE Fail(p, mem[p])
  BY DEF Enqueue
<1>3. r \in Failed /\ r \in RowSet /\ Cardinality(ledger.queued) < Room /\ r \notin ledger.queued
  BY <1>1, SpansAssumption DEF Candidates
<1>4. /\ ledger \in LedgerType /\ queue \in [RowSet -> Nat]
      /\ LedgerIsTrue(ledger, got, visible, queue)
  BY DEF IInv, TypeInv
<1>5. queue' \in [RowSet -> Nat] /\ \A r2 \in RowSet : queue[r2] > 0 => queue'[r2] > 0
  BY <1>2, <1>3, <1>4
<1>6. CASE fate.answer # "ok"
  BY <1>1, <1>2, <1>5, <1>6, FailSameStep
<1>7. CASE fate.answer = "ok"
  <2> DEFINE led == [ledger EXCEPT !.queued = @ \cup {r}]
  <2>1. Hold(p, led) /\ pc' = [pc EXCEPT ![p] = "queued"] /\ UNCHANGED ledger /\ queue' = [queue EXCEPT ![r] = @ + 1]
    BY <1>1, <1>2, <1>7 DEF Fates, Goto
  <2>2. led \in LedgerType /\ led = [ledger EXCEPT !.queued = led.queued] /\ led.queued = ledger.queued \cup {r}
    BY <1>3, <1>4 DEF LedgerType
  <2> HIDE DEF led
  <2>3. queue'[r] > 0 /\ \A r2 \in ledger.queued : r2 \in RowSet /\ queue[r2] > 0
    BY <1>3, <1>4, <2>1, SpansAssumption DEF LedgerIsTrue, LedgerType
  <2>4. \A r2 \in led.queued : queue'[r2] > 0
    BY <1>5, <2>2, <2>3
  <2>5. ledger.state = "pending"
    <3>1. Cardinality(ledger.queued) \in Nat
      BY <1>4, FailedIsFinite DEF LedgerType
    <3>2. ~TriageDone(ledger)
      BY <1>3, <3>1, BoundsAssumption DEF TriageDone
    <3> QED BY <1>4, <3>2 DEF LedgerIsTrue, LedgerType
  <2>6. LedgerIsTrue(ledger, got, visible, queue')
    BY <1>4, <1>5, <2>3, <2>5, NoItemStep
  <2>7. Taken' /\ NothingSentTwice' /\ Fresh(ledger, got)'
    BY <1>1, <2>1 DEF IInv, TypeInv, Taken, NothingSentTwice
  <2>8. TypeInv' /\ pc'[p] = "queued" /\ mem'[p] = led
    BY <1>1, <1>5, <2>1, <2>2, <2>7 DEF IInv, TypeInv, Hold, Labels, config
  <2>9. Locking'
    BY <1>1, <2>1, LockStays DEF Labels
  <2>10. Working(p)'
    BY <1>1, <2>1, <2>2, <2>4, <2>5, <2>8 DEF Working
  <2>11. LedgerIsTrue(ledger, got, visible, queue)'
    BY <1>1, <2>1, <2>6
  <2> QED BY <1>1, <2>1, <2>7, <2>8, <2>9, <2>10, <2>11, InsideStep
<1> QED BY <1>6, <1>7

LEMMA EnqueuedStep == ASSUME IInv, NEW p \in Procs, Enqueued(p) PROVE IInv'
<1> DEFINE led == mem[p]
<1>1. /\ Active(p) /\ pc[p] # "stamp" /\ Started(ledger) /\ AllExported(ledger) /\ ledger.state = "pending"
      /\ led = [ledger EXCEPT !.queued = led.queued] /\ (\A r \in led.queued : queue[r] > 0)
      /\ UNCHANGED <<lock, at, opt, tries, platform, config>>
      /\ SaveAs(p, led) /\ pc' = [pc EXCEPT ![p] = "triage"]
  BY DEF Enqueued, Active, IInv, Working, Goto
<1>2. led \in LedgerType /\ ledger \in LedgerType
  BY DEF IInv, TypeInv
<1>3. /\ at' \in [Procs -> Nat \ {0}] /\ queue' = queue /\ queue' \in [RowSet -> Nat]
      /\ UNCHANGED <<got, visible, lock, opt, tries, config>>
  BY <1>1 DEF IInv, TypeInv, platform
<1> HIDE DEF led
<1>4. /\ led.items = ledger.items /\ led.attempt = ledger.attempt /\ led.project = ledger.project
      /\ led.pinned = ledger.pinned /\ led.state = "pending"
  BY <1>1, <1>2 DEF LedgerType
<1>5. LedgerIsTrue(led, got, visible, queue)
  BY <1>1, <1>2, <1>4, NoItemStep
<1>6. Started(led) /\ AllExported(led)
  BY <1>1, <1>4 DEF Started, AllExported, Exported
<1>7. ledger' = led /\ mem'[p] = led /\ pc'[p] = "triage" => Working(p)'
  BY <1>6 DEF Working
<1>8. LedgerIsTrue(led, got', visible', queue')
  BY <1>3, <1>5
<1> QED BY <1>1, <1>2, <1>3, <1>4, <1>7, <1>8, SavedStep DEF Labels

LEMMA EndTriageStep == ASSUME IInv, NEW p \in Procs, EndTriage(p) PROVE IInv'
<1>1. /\ Active(p) /\ pc[p] # "stamp" /\ mem[p] = ledger /\ Started(ledger) /\ Candidates(p) = {}
      /\ UNCHANGED <<ledger, mem, lock, at, opt, tries, platform, config>> /\ pc' = [pc EXCEPT ![p] = "finish"]
  BY DEF EndTriage, Active, IInv, Working, Goto
<1>2. at' \in [Procs -> Nat \ {0}]
  BY <1>1, NextRowIsTyped DEF IInv
<1>3. TriageDone(ledger)
  <2>1. ledger.queued \in SUBSET Failed
    BY DEF IInv, TypeInv, LedgerType
  <2>2. Cardinality(ledger.queued) \in Nat
    BY <2>1, FailedIsFinite
  <2> QED BY <1>1, <2>2, BoundsAssumption DEF Candidates, TriageDone
<1>4. pc'[p] = "finish" => Working(p)'
  BY <1>1, <1>3 DEF Working
<1> QED BY <1>1, <1>2, <1>4, MoveStep DEF Labels

LEMMA FinishStep == ASSUME IInv, NEW p \in Procs, Finish(p) PROVE IInv'
<1> DEFINE state == IF AllExported(ledger) /\ ledger.scores = "posted" THEN "complete" ELSE "pending"
           led == [ledger EXCEPT !.state = state]
<1>1. /\ Active(p) /\ pc[p] # "stamp" /\ mem[p] = ledger /\ Started(ledger) /\ (AllExported(ledger) => TriageDone(ledger))
      /\ UNCHANGED <<lock, at, opt, tries, platform, config>>
      /\ SaveAs(p, led) /\ pc' = [pc EXCEPT ![p] = "release"]
  BY DEF Finish, Active, IInv, Working, Goto
<1>2. ledger \in LedgerType /\ state \in {"pending", "complete"} /\ (state = "complete" => AllExported(ledger))
  BY DEF IInv, TypeInv
<1>3. /\ at' \in [Procs -> Nat \ {0}] /\ queue' = queue /\ queue' \in [RowSet -> Nat]
      /\ UNCHANGED <<got, visible, lock, opt, tries, config>>
  BY <1>1 DEF IInv, TypeInv, platform
<1> HIDE DEF state
<1>4. /\ led \in LedgerType /\ led.items = ledger.items /\ led.attempt = ledger.attempt /\ led.project = ledger.project
      /\ led.pinned = ledger.pinned /\ led.state = state /\ led.queued = ledger.queued
  BY <1>2 DEF LedgerType
<1> HIDE DEF led
<1>5. LedgerIsTrue(led, got, visible, queue)
  BY <1>1, <1>2, <1>4, NoItemStep DEF TriageDone, IInv, LedgerIsTrue
<1>6. ledger' = led /\ mem'[p] = led /\ pc'[p] = "release" => Working(p)'
  BY DEF Working
<1>7. LedgerIsTrue(led, got', visible', queue')
  BY <1>3, <1>5
<1> QED BY <1>1, <1>3, <1>4, <1>6, <1>7, SavedStep DEF Labels

-----------------------------------------------------------------------------
(* Time, and the configuration.                                            *)

Aged(item) == [item EXCEPT !.old = item.state \in {"unknown", "sending"}]

LEMMA AgedFacts ==
    ASSUME NEW item \in ItemType
    PROVE  /\ Aged(item) \in ItemType /\ Aged(item).sent = item.sent /\ Aged(item).state = item.state
           /\ Aged(NoItem) = NoItem
<1> DEFINE old == item.state \in {"unknown", "sending"}
<1>1. old \in BOOLEAN /\ Aged(item) = [item EXCEPT !.old = old]
  BY DEF Aged
<1> HIDE DEF old
<1>2. Aged(item) \in ItemType /\ Aged(item).sent = item.sent /\ Aged(item).state = item.state
  BY <1>1 DEF ItemType
<1>3. Aged(NoItem) = [NoItem EXCEPT !.old = FALSE]
  <2>1. (NoItem.state \in {"unknown", "sending"}) = FALSE
    BY DEF NoItem
  <2> QED BY <2>1, Zenon DEF Aged
<1>4. [NoItem EXCEPT !.old = FALSE] = NoItem
  <2>1. NoItem \in ItemType /\ NoItem.old = FALSE
    BY DEF NoItem, ItemType
  <2> QED BY <2>1 DEF ItemType
<1> QED BY <1>2, <1>3, <1>4

LEMMA AgeFacts ==
    ASSUME NEW led \in LedgerType
    PROVE  /\ Age(led) \in LedgerType
           /\ Age(led).items = [r \in RowSet |-> Aged(led.items[r])]
           /\ Age(led).state = led.state /\ Age(led).project = led.project /\ Age(led).pinned = led.pinned
           /\ Age(led).attempt = led.attempt /\ Age(led).scores = led.scores /\ Age(led).queued = led.queued
           /\ \A r \in RowSet : Age(led).items[r].state = led.items[r].state /\ Age(led).items[r].sent = led.items[r].sent
           /\ \A r \in RowSet : Parts(Age(led), r) = Parts(led, r)
<1> DEFINE items == [r \in RowSet |-> Aged(led.items[r])]
<1>1. \A r \in RowSet : led.items[r] \in ItemType
  BY DEF LedgerType
<1>2. \A r \in RowSet : /\ items[r] = Aged(led.items[r]) /\ items[r] \in ItemType
                        /\ items[r].state = led.items[r].state /\ items[r].sent = led.items[r].sent
  BY <1>1, AgedFacts
<1>3. items \in [RowSet -> ItemType]
  BY <1>2
<1>4. Age(led) = [led EXCEPT !.items = items]
  BY DEF Age, Aged
<1> HIDE DEF items
<1>5. /\ Age(led) \in LedgerType /\ Age(led).items = items
      /\ Age(led).state = led.state /\ Age(led).project = led.project /\ Age(led).pinned = led.pinned
      /\ Age(led).attempt = led.attempt /\ Age(led).scores = led.scores /\ Age(led).queued = led.queued
  BY <1>3, <1>4 DEF LedgerType
<1> QED BY <1>2, <1>5 DEF items, Parts

\* Aging and one change of another field, in either order.
LEMMA AgeAcked ==
    ASSUME NEW led \in LedgerType, NEW r \in RowSet
    PROVE  Age([led EXCEPT !.items[r].sent = @ + 1]) = [Age(led) EXCEPT !.items[r].sent = @ + 1]
<1> DEFINE new == [led EXCEPT !.items[r].sent = @ + 1]
<1>1. \A r2 \in RowSet : led.items[r2] \in ItemType
  BY DEF LedgerType
<1>2. /\ new = [led EXCEPT !.items = new.items]
      /\ DOMAIN new.items = RowSet
      /\ \A r2 \in RowSet : new.items[r2] = IF r2 = r THEN [led.items[r] EXCEPT !.sent = @ + 1] ELSE led.items[r2]
  BY DEF LedgerType
<1>3. /\ Aged([led.items[r] EXCEPT !.sent = @ + 1]) = [Aged(led.items[r]) EXCEPT !.sent = @ + 1]
  BY <1>1 DEF Aged, ItemType
<1> HIDE DEF new
<1>4. [r2 \in RowSet |-> Aged(new.items[r2])] = [[r2 \in RowSet |-> Aged(led.items[r2])] EXCEPT ![r].sent = @ + 1]
  BY <1>2, <1>3
<1>5. Age(new) = [new EXCEPT !.items = [r2 \in RowSet |-> Aged(new.items[r2])]]
  BY DEF Age, Aged
<1>6. Age(led) = [led EXCEPT !.items = [r2 \in RowSet |-> Aged(led.items[r2])]]
  BY DEF Age, Aged
<1> QED BY <1>2, <1>4, <1>5, <1>6 DEF new, LedgerType

LEMMA AgeQueued ==
    ASSUME NEW led \in LedgerType, NEW queued
    PROVE  Age([led EXCEPT !.queued = queued]) = [Age(led) EXCEPT !.queued = queued]
  BY DEF Age, LedgerType

LEMMA TimeStep == ASSUME IInv, Lapses = {}, Pass PROVE IInv'
<1>1. /\ ledger \in LedgerType /\ mem \in [Procs -> LedgerType]
      /\ ledger' = Age(ledger) /\ (\A p \in Procs : mem'[p] = Age(mem[p]))
      /\ mem' = [p \in Procs |-> Age(mem[p])]
      /\ \A p \in Procs : pc[p] # "request"
      /\ UNCHANGED <<pc, at, opt, tries, got, queue, config, faults>>
  BY DEF IInv, TypeInv, Pass
<1>2. \/ lock' = lock
      \/ lock # None /\ ~Active(lock.by) /\ lock' = [lock EXCEPT !.old = TRUE]
  BY DEF Pass, Held, Active
<1>3. lock' \in {None} \cup LockType
  BY <1>2 DEF IInv, TypeInv, LockType
<1>4. TypeInv'
  <2>1. Age(ledger) \in LedgerType /\ mem' \in [Procs -> LedgerType]
    BY <1>1, AgeFacts
  <2> QED BY <2>1, <1>1, <1>3 DEF IInv, TypeInv, Taken, config
<1>5. Locking'
  <2>1. CASE lock' = lock
    BY <1>1, <2>1 DEF IInv, Locking, Owned, Active
  <2>2. CASE lock # None /\ ~Active(lock.by) /\ lock' = [lock EXCEPT !.old = TRUE]
    <3>1. lock' # None /\ lock'.by = lock.by
      BY <2>2, <1>3, NoneAssumption DEF IInv, TypeInv, LockType
    <3>2. \A p \in Procs : ~Active(p)
      BY <2>2 DEF IInv, Locking, Owned
    <3> QED BY <1>1, <2>2, <3>1, <3>2 DEF IInv, Locking, Active
  <2> QED BY <1>2, <2>1, <2>2
<1>6. Fresh(ledger, got)' /\ NothingSentTwice'
  BY <1>1, AgeFacts DEF IInv, Fresh, NothingSentTwice
<1>7. LedgerIsTrue(Age(ledger), got, visible', queue)
  <2> DEFINE led == Age(ledger)
  <2>1. ~Started(led) => \A r \in RowSet : led.items[r] = NoItem
    <3> SUFFICES ASSUME ~Started(led), NEW r \in RowSet PROVE led.items[r] = NoItem
      OBVIOUS
    <3>1. led.items = [r2 \in RowSet |-> Aged(ledger.items[r2])] /\ led.attempt = ledger.attempt
      BY <1>1, AgeFacts
    <3> HIDE DEF led
    <3>3. ~Started(ledger) /\ led.items[r] = Aged(ledger.items[r])
      BY <3>1 DEF Started
    <3>2. ledger.items[r] = NoItem
      BY <3>3 DEF IInv, LedgerIsTrue
    <3> QED BY <3>3, <3>2, AgedFacts, EmptyIsLedger
  <2>2. ASSUME Started(led), NEW r \in RowSet
        PROVE  RowIsTrue(led, got, visible', r)
    <3>1. Started(ledger) /\ ledger.project \in Projects
      BY <1>1, <2>2, AgeFacts DEF Started, IInv, LedgerIsTrue
    <3>2. ledger.attempt \in Attempts
      BY <1>1, <3>1, BoundsAssumption DEF LedgerType, Started, Attempts
    <3> DEFINE item == ledger.items[r]
               parts == Parts(ledger, r)
               count == CountOf(ledger, got, r)
               old == item.state \in {"unknown", "sending"}
    <3>3. item \in ItemType /\ count \in [SpanSet(r) -> Nat] /\ Bodies(parts, SpanSet(r))
      BY <1>1, <2>2, <3>1, <3>2, PartsAreBodies DEF LedgerType, IInv, TypeInv, Taken, CountOf
    <3>4. Delivered(item, parts, count, ShownOf(ledger, visible, r))
      BY <2>2, <3>1 DEF IInv, LedgerIsTrue, RowIsTrue
    <3>5. ShownOf(led, visible', r) = {s \in SpanSet(r) : count[s] > 0}
      <4> SUFFICES ASSUME NEW s \in SpanSet(r)
                   PROVE  <<ledger.project, ledger.attempt, r, s>> \in visible' <=> count[s] > 0
        BY <1>1, AgeFacts DEF ShownOf
      <4>1. s \in UNION {SpanSet(r2) : r2 \in RowSet}
        BY <2>2
      <4>2. <<ledger.project, ledger.attempt, r, s>> \in
               Projects \X Attempts \X RowSet \X UNION {SpanSet(r2) : r2 \in RowSet}
        BY <2>2, <3>1, <3>2, <4>1
      <4> QED BY <4>2 DEF Pass, CountOf
    <3>6. CountOf(led, got, r) = count /\ Parts(led, r) = parts /\ led.items[r] = [item EXCEPT !.old = old]
      BY <1>1, <2>2, AgeFacts DEF CountOf, Aged
    <3> HIDE DEF led, item, parts, count
    <3>7. old \in BOOLEAN
      OBVIOUS
    <3> HIDE DEF old
    <3>8. Delivered([item EXCEPT !.old = old], parts, count, {s \in SpanSet(r) : count[s] > 0})
      BY <3>3, <3>4, <3>7, DeliveredShown
    <3> QED BY <3>5, <3>6, <3>8 DEF RowIsTrue
  <2>3. Started(led) => led.project \in Projects /\ led.pinned \in Settings
    BY <1>1, AgeFacts DEF IInv, LedgerIsTrue, Started
  <2>4. led.state = "complete" => Started(led) /\ AllExported(led) /\ TriageDone(led)
    BY <1>1, AgeFacts DEF IInv, LedgerIsTrue, Started, AllExported, Exported, TriageDone
  <2>5. \A r \in led.queued : queue[r] > 0
    BY <1>1, AgeFacts DEF IInv, LedgerIsTrue
  <2>6. LedgerIsTrue(led, got, visible', queue)
    <3> HIDE DEF led
    <3> QED BY <2>1, <2>2, <2>3, <2>4, <2>5 DEF LedgerIsTrue
  <2> QED BY <2>6
<1>8. ASSUME NEW p \in Procs PROVE Working(p)'
  <2> DEFINE r == Row(p)
  <2>1. Working(p) /\ mem[p] \in LedgerType /\ pc'[p] = pc[p] /\ at' = at /\ got' = got /\ queue' = queue /\ Row(p)' = r
    BY <1>1, <1>8 DEF IInv, Row
  <2>2. mem[p] = ledger => mem'[p] = ledger'
    BY <1>1, <1>8
  <2>3. (Started(ledger)' <=> Started(ledger)) /\ (AllExported(ledger)' <=> AllExported(ledger))
        /\ (TriageDone(ledger)' <=> TriageDone(ledger)) /\ ledger'.state = ledger.state
    BY <1>1, AgeFacts DEF Started, AllExported, Exported, TriageDone
  <2>4. pc[p] = "acked" =>
           /\ at[p] \in DOMAIN Rows /\ ledger'.items[r].state = "sending"
           /\ NextHas(ledger', got', r, 1) /\ mem'[p] = [ledger' EXCEPT !.items[r].sent = @ + 1]
    <3> SUFFICES ASSUME pc[p] = "acked"
                 PROVE  /\ at[p] \in DOMAIN Rows /\ ledger'.items[r].state = "sending"
                        /\ NextHas(ledger', got', r, 1) /\ mem'[p] = [ledger' EXCEPT !.items[r].sent = @ + 1]
      OBVIOUS
    <3>1. at[p] \in DOMAIN Rows /\ ledger.items[r].state = "sending" /\ NextHas(ledger, got, r, 1)
          /\ mem[p] = [ledger EXCEPT !.items[r].sent = @ + 1]
      BY <2>1 DEF Working
    <3>2. r \in RowSet
      BY <3>1, RowFacts DEF IInv
    <3>3. ledger'.items[r].state = "sending" /\ ledger'.items[r].sent = ledger.items[r].sent
          /\ Parts(ledger', r) = Parts(ledger, r) /\ ledger'.project = ledger.project /\ ledger'.attempt = ledger.attempt
      BY <1>1, <3>1, <3>2, AgeFacts
    <3>4. NextHas(ledger', got', r, 1)
      BY <2>1, <3>1, <3>3 DEF NextHas, CountOf
    <3>5. mem'[p] = Age([ledger EXCEPT !.items[r].sent = @ + 1])
      BY <1>1, <3>1
    <3>6. mem'[p] = [ledger' EXCEPT !.items[r].sent = @ + 1]
      BY <1>1, <3>2, <3>5, AgeAcked
    <3> QED BY <3>1, <3>3, <3>4, <3>6
  <2>5. pc[p] = "queued" => /\ mem'[p] = [ledger' EXCEPT !.queued = mem'[p].queued]
                            /\ \A r2 \in mem'[p].queued : queue'[r2] > 0
    <3> SUFFICES ASSUME pc[p] = "queued"
                 PROVE  /\ mem'[p] = [ledger' EXCEPT !.queued = mem'[p].queued]
                        /\ \A r2 \in mem'[p].queued : queue'[r2] > 0
      OBVIOUS
    <3> DEFINE q == mem[p].queued
    <3>1. mem[p] = [ledger EXCEPT !.queued = q] /\ \A r2 \in q : queue[r2] > 0
      BY <2>1 DEF Working
    <3>2. mem'[p].queued = q
      BY <1>1, <2>1, AgeFacts
    <3> HIDE DEF q
    <3>3. Age(mem[p]) = Age([ledger EXCEPT !.queued = q])
      BY <3>1
    <3>4. mem'[p] = [ledger' EXCEPT !.queued = q]
      BY <1>1, <3>3, AgeQueued
    <3> QED BY <2>1, <3>1, <3>2, <3>4
  <2>6. pc[p] \in {"connect", "items", "scores", "triage", "finish"} => mem[p] = ledger
    BY <2>1 DEF Working
  <2>7. pc[p] \in {"items", "scores", "triage", "finish", "acked", "queued"} => Started(ledger)'
    BY <2>1, <2>3 DEF Working
  <2>8. /\ pc[p] \in {"scores", "triage", "queued"} => AllExported(ledger)'
        /\ pc[p] = "queued" => ledger'.state = "pending"
        /\ pc[p] = "finish" /\ AllExported(ledger)' => TriageDone(ledger)'
    BY <2>1, <2>3 DEF Working
  <2>9. pc[p] # "request"
    BY <1>1, <1>8
  <2> HIDE DEF r
  <2> QED BY <2>1, <2>2, <2>4, <2>5, <2>6, <2>7, <2>8, <2>9 DEF Working
<1>9. LedgerIsTrue(ledger, got, visible, queue)'
  BY <1>1, <1>7
<1> QED BY <1>4, <1>5, <1>6, <1>8, <1>9 DEF IInv

LEMMA ReconfigureStep == ASSUME IInv, Reconfigure PROVE IInv'
<1>1. /\ UNCHANGED <<ledger, mem, lock, pc, at, opt, tries, got, visible, queue>>
      /\ settings' \in Settings /\ project' \in Projects
  BY DEF IInv, TypeInv, Reconfigure, platform
<1>2. TypeInv'
  BY <1>1 DEF IInv, TypeInv, Taken
<1>3. Locking' /\ NothingSentTwice' /\ \A p \in Procs : Working(p)'
  BY <1>1 DEF IInv, Locking, Owned, Active, NothingSentTwice, Working, Row
<1> QED BY <1>1, <1>2, <1>3 DEF IInv

-----------------------------------------------------------------------------
(* The specification.                                                      *)

LEMMA InitIInv == ASSUME Init PROVE IInv
<1>1. ledger = EmptyLedger /\ EmptyLedger \in LedgerType /\ ~Started(EmptyLedger) /\ EmptyLedger.state = "pending"
      /\ EmptyLedger.queued = {} /\ EmptyLedger.attempt = 0 /\ \A r \in RowSet : EmptyLedger.items[r] = NoItem
  BY EmptyIsLedger DEF Init, Started, EmptyLedger
<1>2. Taken /\ \A pr \in Projects, a \in Attempts, r \in RowSet : \A s \in SpanSet(r) : got[pr][a][r][s] = 0
  <2> DEFINE zero(r) == [s \in SpanSet(r) |-> 0]
  <2>1. \A r \in RowSet : zero(r) \in [SpanSet(r) -> Nat]
    OBVIOUS
  <2>2. got = [pr \in Projects |-> [a \in Attempts |-> [r \in RowSet |-> zero(r)]]]
    BY DEF Init
  <2>3. \A r \in RowSet : \A s \in SpanSet(r) : zero(r)[s] = 0
    OBVIOUS
  <2> HIDE DEF zero
  <2>4. \A r \in RowSet : zero(r) \in UNION {[SpanSet(r2) -> Nat] : r2 \in RowSet}
    BY <2>1
  <2> QED BY <2>1, <2>2, <2>3, <2>4 DEF Taken
<1>3. TypeInv
  BY <1>1, <1>2, NoneAssumption DEF Init, TypeInv, Labels
<1>4. Locking
  BY DEF Init, Locking, Active
<1>5. LedgerIsTrue(ledger, got, visible, queue)
  BY <1>1 DEF LedgerIsTrue
<1>6. Fresh(ledger, got)
  BY <1>2 DEF Fresh
<1>7. NothingSentTwice
  <2> SUFFICES ASSUME NEW pr \in Projects, NEW a \in Attempts, NEW r \in RowSet, NEW s \in DOMAIN got[pr][a][r]
               PROVE  got[pr][a][r][s] <= 1
    BY DEF NothingSentTwice
  <2>1. s \in SpanSet(r)
    BY <1>2 DEF Taken
  <2> QED BY <1>2, <2>1
<1>8. \A p \in Procs : Working(p)
  BY DEF Init, Working
<1> QED BY <1>3, <1>4, <1>5, <1>6, <1>7, <1>8 DEF IInv

LEMMA PassStepIInv ==
    ASSUME IInv, Lapses = {}, NEW p \in Procs, PassStep(p)
    PROVE  IInv'
<1>1. CASE CreateLock(p)  BY <1>1, CreateLockStep
<1>2. CASE StampLock(p)   BY <1>2, StampLockStep
<1>3. CASE FindStale(p)   BY <1>3, FindStaleStep
<1>4. CASE BreakLock(p)   BY <1>4, BreakLockStep
<1>5. CASE FindLocked(p)  BY <1>5, FindLockedStep
<1>6. CASE Load(p)        BY <1>6, LoadStep
<1>7. CASE Release(p)     BY <1>7, ReleaseStep
<1>8. CASE Unreachable(p) BY <1>8, UnreachableStep
<1>9. CASE Refuse(p)      BY <1>9, RefuseStep
<1>10. CASE NoDataset(p)  BY <1>10, NoDatasetStep
<1>11. CASE Experiment(p) BY <1>11, ExperimentStep
<1>12. CASE SkipItem(p)   BY <1>12, SkipItemStep
<1>13. CASE Verify(p)     BY <1>13, VerifyStep
<1>14. CASE OutOfBudget(p) BY <1>14, OutOfBudgetStep
<1>15. CASE StartItem(p)  BY <1>15, StartItemStep
<1>16. CASE Request(p)    BY <1>16, RequestStep
<1>17. CASE NextPart(p)   BY <1>17, NextPartStep
<1>18. CASE EndItem(p)    BY <1>18, EndItemStep
<1>19. CASE EndItems(p)   BY <1>19, EndItemsStep
<1>20. CASE KeepScores(p) BY <1>20, KeepScoresStep
<1>21. CASE PostScores(p) BY <1>21, PostScoresStep
<1>22. CASE Enqueue(p)    BY <1>22, EnqueueStep
<1>23. CASE Enqueued(p)   BY <1>23, EnqueuedStep
<1>24. CASE EndTriage(p)  BY <1>24, EndTriageStep
<1>25. CASE Finish(p)     BY <1>25, FinishStep
<1> QED BY <1>1, <1>2, <1>3, <1>4, <1>5, <1>6, <1>7, <1>8, <1>9, <1>10, <1>11, <1>12, <1>13, <1>14,
           <1>15, <1>16, <1>17, <1>18, <1>19, <1>20, <1>21, <1>22, <1>23, <1>24, <1>25 DEF PassStep

LEMMA SpecIInv == ASSUME Lapses = {} PROVE Spec => []IInv
<1>1. Init => IInv
  BY InitIInv
<1>2. IInv /\ [Next]_vars => IInv'
  <2> SUFFICES ASSUME IInv, [Next]_vars PROVE IInv'
    OBVIOUS
  <2>1. CASE UNCHANGED vars
    <3>1. UNCHANGED <<ledger, mem, lock, pc, at, opt, tries, got, visible, queue, settings, project>>
      BY <2>1 DEF vars
    <3> QED BY <3>1 DEF IInv, TypeInv, Taken, Locking, Owned, Active, NothingSentTwice, Working, Row
  <2>2. CASE \E p \in Procs : PassStep(p)
    BY <2>2, PassStepIInv
  <2>3. CASE \E p \in Procs : Crash(p)
    BY <2>3, CrashStep
  <2>4. CASE \E p \in Procs : \E how \in {"auto", "rerun", "retry", "new"} : Push(p, how)
    BY <2>4, PushStep
  <2>5. CASE Pass
    BY <2>5, TimeStep
  <2>6. CASE Reconfigure
    BY <2>6, ReconfigureStep
  <2> QED BY <2>1, <2>2, <2>3, <2>4, <2>5, <2>6 DEF Next
<1> QED BY <1>1, <1>2, PTL DEF Spec

(* Every variable of the sync keeps its type (LangfuseSync: the ledger and  *)
(* its lock, ledger.py, and what the platform has taken in).               *)
THEOREM SpecIsTyped == ASSUME Lapses = {} PROVE Spec => []TypeInv
<1>1. IInv => TypeInv
  BY DEF IInv
<1> QED BY <1>1, SpecIInv, PTL

(* Two passes never work on the ledger of one batch at once: while the      *)
(* timing keeps what ledger_lock counts on, its lock excludes (ledger.py,   *)
(* ledger_lock).                                                           *)
THEOREM SpecExcludes ==
    ASSUME Lapses = {}
    PROVE  Spec => [](\A p, q \in Procs : Active(p) /\ Active(q) => p = q)
<1>1. IInv => \A p, q \in Procs : Active(p) /\ Active(q) => p = q
  BY DEF IInv, Locking, Owned
<1> QED BY <1>1, SpecIInv, PTL

(* Every span is taken in once, for every batch, every way to cut its       *)
(* traces, and every number of processes, attempts, crashes and doubts      *)
(* (push.py, _send and _verify).                                           *)
THEOREM SpecSendsOnce == ASSUME Lapses = {} PROVE Spec => []NothingSentTwice
<1>1. IInv => NothingSentTwice
  BY DEF IInv
<1> QED BY <1>1, SpecIInv, PTL

(* A complete ledger is the truth about the platform: it has all spans of   *)
(* all scenarios, and the review queue as many failed ones as fit (push.py, *)
(* _finish).                                                               *)
THEOREM SpecCompletes == ASSUME Lapses = {} PROVE Spec => []CompleteIsWhole
<1>1. IInv => CompleteIsWhole
  <2> SUFFICES ASSUME IInv, ledger.state = "complete" PROVE CompleteIsWhole
    BY DEF CompleteIsWhole
  <2>1. /\ ledger \in LedgerType /\ Started(ledger) /\ AllExported(ledger) /\ TriageDone(ledger)
        /\ ledger.project \in Projects /\ \A r \in RowSet : RowIsTrue(ledger, got, visible, r)
        /\ \A r \in ledger.queued : queue[r] > 0
    BY DEF IInv, TypeInv, LedgerIsTrue
  <2>2. ledger.attempt \in Attempts
    BY <2>1, BoundsAssumption DEF LedgerType, Started, Attempts
  <2>3. ASSUME NEW r \in RowSet, NEW s \in DOMAIN got[ledger.project][ledger.attempt][r]
        PROVE  got[ledger.project][ledger.attempt][r][s] >= 1
    <3>1. s \in SpanSet(r) /\ CountOf(ledger, got, r) = got[ledger.project][ledger.attempt][r]
      BY <2>1, <2>2, <2>3 DEF IInv, TypeInv, Taken, CountOf
    <3>2. ledger.items[r] \in ItemType /\ ledger.items[r].state = "exported"
      BY <2>1, <2>3 DEF LedgerType, AllExported, Exported
    <3>3. Delivered(ledger.items[r], Parts(ledger, r), CountOf(ledger, got, r), ShownOf(ledger, visible, r))
          /\ Bodies(Parts(ledger, r), SpanSet(r))
      BY <2>1, <2>3, PartsAreBodies DEF RowIsTrue
    <3>4. CountOf(ledger, got, r)[s] = 1
      BY <3>1, <3>2, <3>3, DeliveredOnce
    <3> QED BY <3>1, <3>4
  <2> DEFINE waiting == {r \in Failed : queue[r] > 0}
  <2>4. Cardinality(waiting) >= IF Cardinality(Failed) < Room THEN Cardinality(Failed) ELSE Room
    <3>1. ledger.queued \in SUBSET waiting /\ waiting \in SUBSET Failed
      BY <2>1 DEF LedgerType
    <3> HIDE DEF waiting
    <3>2. IsFiniteSet(waiting) /\ Cardinality(waiting) \in Nat /\ Cardinality(Failed) \in Nat
          /\ Cardinality(ledger.queued) \in Nat
      BY <3>1, FailedIsFinite
    <3>3. Cardinality(ledger.queued) <= Cardinality(waiting)
      BY <3>1, <3>2, FS_Subset
    <3>4. CASE Cardinality(ledger.queued) >= Room
      BY <3>2, <3>3, <3>4, BoundsAssumption
    <3>5. CASE Failed \subseteq ledger.queued
      <4>1. waiting = Failed
        BY <3>1, <3>5
      <4> QED BY <4>1, <3>2, BoundsAssumption
    <3> QED BY <2>1, <3>4, <3>5 DEF TriageDone
  <2> QED BY <2>3, <2>4 DEF CompleteIsWhole
<1> QED BY <1>1, SpecIInv, PTL
=============================================================================
