-------------------------- MODULE TaskRunnerProofs --------------------------
(***************************************************************************)
(* Proofs about TaskRunner for any set of tasks, any cap and any bounds.   *)
(* First, sequences without repeats (SelectionProofs says what a filter of *)
(* one returns).  Then the inductive invariant and what is read off it;    *)
(* then what becomes of the tasks that wait, and of the records: the line  *)
(* forgets nobody, the runner is never idle beside a task it could start,  *)
(* a shipped task stays shipped, and no turn is taken back or run twice.   *)
(***************************************************************************)
EXTENDS TaskRunner, SelectionProofs

-----------------------------------------------------------------------------
(***************************************************************************)
(* Sequences without repeats.                                              *)
(***************************************************************************)

\* A new element at the end of a sequence without repeats.
LEMMA AppendFresh ==
  ASSUME NEW T, NEW s \in Seq(T), NEW e \in T, IsInjective(s), ~Contains(s, e)
  PROVE  /\ Append(s, e) \in Seq(T) /\ IsInjective(Append(s, e))
         /\ Len(Append(s, e)) = Len(s) + 1
         /\ \A x : Contains(Append(s, e), x) <=> Contains(s, x) \/ x = e
<1> DEFINE a == Append(s, e)
<1>1. /\ Len(s) \in Nat /\ a \in Seq(T) /\ Len(a) = Len(s) + 1
      /\ DOMAIN a = 1..Len(a) /\ DOMAIN s = 1..Len(s)
      /\ \A i \in 1..Len(s) : a[i] = s[i]
      /\ a[Len(s) + 1] = e
  BY LenProperties, AppendProperties
<1> HIDE DEF a
<1>2. \A i \in 1..Len(a) : i \in 1..Len(s) \/ i = Len(s) + 1
  BY <1>1
<1>3. IsInjective(a)
  <2> SUFFICES ASSUME NEW i \in 1..Len(a), NEW j \in 1..Len(a), a[i] = a[j]
               PROVE  i = j
    BY <1>1 DEF IsInjective
  <2> QED
    BY <1>1, <1>2 DEF IsInjective, Contains
<1>4. ASSUME NEW x PROVE Contains(a, x) <=> Contains(s, x) \/ x = e
  BY <1>1, <1>2 DEF Contains
<1> QED
  BY <1>1, <1>3, <1>4 DEF a

\* One sequence after another that shares nothing with it, neither repeating
\* itself.
LEMMA ConcatFresh ==
  ASSUME NEW T, NEW s \in Seq(T), NEW r \in Seq(T), IsInjective(s), IsInjective(r),
         \A i \in 1..Len(r) : ~Contains(s, r[i])
  PROVE  s \o r \in Seq(T) /\ IsInjective(s \o r)
<1> DEFINE a == s \o r
<1>1. /\ Len(s) \in Nat /\ Len(r) \in Nat /\ a \in Seq(T)
      /\ DOMAIN s = 1..Len(s) /\ DOMAIN r = 1..Len(r)
      /\ DOMAIN a = 1..(Len(s) + Len(r))
      /\ \A i \in 1..(Len(s) + Len(r)) :
           a[i] = IF i <= Len(s) THEN s[i] ELSE r[i - Len(s)]
  BY LenProperties, ConcatProperties
<1> HIDE DEF a
<1>2. ASSUME NEW i \in DOMAIN a, NEW j \in DOMAIN a, a[i] = a[j] PROVE i = j
  <2>1. CASE i <= Len(s) /\ j <= Len(s)
    <3>1. i \in 1..Len(s) /\ j \in 1..Len(s) /\ s[i] = s[j]
      BY <1>1, <1>2, <2>1
    <3> QED
      BY <1>1, <3>1 DEF IsInjective
  <2>2. CASE ~ (i <= Len(s)) /\ ~ (j <= Len(s))
    <3>1. i \in 1..(Len(s) + Len(r)) /\ j \in 1..(Len(s) + Len(r))
      BY <1>1
    <3>2. i - Len(s) \in 1..Len(r) /\ j - Len(s) \in 1..Len(r)
      BY <1>1, <2>2, <3>1
    <3>3. a[i] = r[i - Len(s)] /\ a[j] = r[j - Len(s)]
      BY <1>1, <2>2, <3>1
    <3>4. i - Len(s) = j - Len(s)
      BY <1>1, <1>2, <3>2, <3>3 DEF IsInjective
    <3> QED
      BY <1>1, <3>1, <3>4
  <2>3. CASE i <= Len(s) /\ ~ (j <= Len(s))
    <3>1. i \in 1..Len(s) /\ j - Len(s) \in 1..Len(r) /\ s[i] = r[j - Len(s)]
      BY <1>1, <1>2, <2>3
    <3> QED
      BY <3>1 DEF Contains
  <2>4. CASE ~ (i <= Len(s)) /\ j <= Len(s)
    <3>1. j \in 1..Len(s) /\ i - Len(s) \in 1..Len(r) /\ s[j] = r[i - Len(s)]
      BY <1>1, <1>2, <2>4
    <3> QED
      BY <3>1 DEF Contains
  <2> QED
    BY <2>1, <2>2, <2>3, <2>4
<1> QED
  BY <1>1, <1>2 DEF a, IsInjective

\* The beginning of a sequence without repeats.
LEMMA PrefixInjective ==
  ASSUME NEW T, NEW s \in Seq(T), IsInjective(s), NEW n \in 0..Len(s)
  PROVE  /\ SubSeq(s, 1, n) \in Seq(T) /\ Len(SubSeq(s, 1, n)) = n
         /\ IsInjective(SubSeq(s, 1, n))
<1>1. Len(s) \in Nat /\ DOMAIN s = 1..Len(s) /\ \A i \in 1..Len(s) : s[i] \in T
  BY LenProperties, ElementOfSeq
<1>2. /\ SubSeq(s, 1, n) \in Seq(T) /\ Len(SubSeq(s, 1, n)) = n
      /\ \A i \in 1..n : SubSeq(s, 1, n)[i] = s[i]
  <2>1. \A i \in 1..n : s[i] \in T
    BY <1>1
  <2>2. /\ SubSeq(s, 1, n) \in Seq(T)
        /\ Len(SubSeq(s, 1, n)) = IF 1 <= n THEN n - 1 + 1 ELSE 0
        /\ \A i \in 1..(n - 1 + 1) : SubSeq(s, 1, n)[i] = s[1 + i - 1]
    BY <2>1, SubSeqProperties
  <2> QED
    BY <1>1, <2>2
<1>3. DOMAIN SubSeq(s, 1, n) = 1..n
  BY <1>2, LenProperties
<1>4. ASSUME NEW i \in 1..n, NEW j \in 1..n, SubSeq(s, 1, n)[i] = SubSeq(s, 1, n)[j]
      PROVE  i = j
  <2>1. s[i] = s[j] /\ i \in DOMAIN s /\ j \in DOMAIN s
    BY <1>1, <1>2, <1>4
  <2> QED
    BY <2>1 DEF IsInjective
<1> QED
  BY <1>2, <1>3, <1>4 DEF IsInjective

-----------------------------------------------------------------------------
(***************************************************************************)
(* What the operators return.                                              *)
(***************************************************************************)

\* Types of the line alone.
LineOK(l) == l \in Seq(Tasks) /\ IsInjective(l) /\ Len(l) <= QueueMax

LEMMA OnlyOfLine ==
  ASSUME NEW l, LineOK(l), NEW S
  PROVE  LineOK(Only(l, S)) /\ \A t : Contains(Only(l, S), t) <=> Contains(l, t) /\ t \in S
<1>1. Len(l) \in Nat /\ Len(Only(l, S)) \in Nat
  BY OnlyProperties, LenProperties DEF LineOK
<1>2. QueueMax \in Nat
  BY QueueMaxPositive
<1> QED
  BY <1>1, <1>2, OnlyProperties DEF LineOK

\* The line without t.
LEMMA WithoutDrops ==
  ASSUME NEW l, LineOK(l), NEW t
  PROVE  /\ LineOK(Without(l, t))
         /\ \A x : Contains(Without(l, t), x) <=> Contains(l, x) /\ x # t
<1>1. \A x : Contains(l, x) => x \in Tasks
  BY ElementOfSeq DEF LineOK, Contains
<1> QED
  BY <1>1, OnlyOfLine DEF Without

\* A task at the end of a line that has room and does not have it yet.
LEMMA AppendToLine ==
  ASSUME NEW l, LineOK(l), NEW t \in Tasks, ~Contains(l, t), Len(l) < QueueMax
  PROVE  /\ LineOK(Append(l, t))
         /\ \A x : Contains(Append(l, t), x) <=> Contains(l, x) \/ x = t
<1>1. l \in Seq(Tasks) /\ IsInjective(l) /\ Len(l) \in Nat /\ QueueMax \in Nat
  BY LenProperties, QueueMaxPositive DEF LineOK
<1> QED
  BY <1>1, AppendFresh DEF LineOK

\* The place of the next runnable entry: in the line, and of a task that is
\* queued, or past its end.
LEMMA NextRunnableProperties ==
  ASSUME NEW l, LineOK(l), ~ (NextRunnable(l) > Len(l))
  PROVE  /\ NextRunnable(l) \in 1..Len(l)
         /\ l[NextRunnable(l)] \in Tasks
         /\ Contains(l, l[NextRunnable(l)])
         /\ disk'[l[NextRunnable(l)]].status = "queued"
<1> DEFINE R == {i \in 1..Len(l) : l[i] \notin blocked' /\ disk'[l[i]].status = "queued"}
                  \union {Len(l) + 1}
<1>1. l \in Seq(Tasks) /\ Len(l) \in Nat
  BY LenProperties DEF LineOK
<1>2. R \in SUBSET Nat /\ R # {}
  BY <1>1
<1>3. NextRunnable(l) \in R
  <2>1. \E x \in R : \A y \in R : x <= y
    BY <1>2, LeastOfNats
  <2>2. Min(R) \in R
    BY <2>1 DEF Min
  <2> QED
    BY <2>2 DEF NextRunnable
<1>4. NextRunnable(l) # Len(l) + 1
  BY <1>1
<1>5. /\ NextRunnable(l) \in 1..Len(l)
      /\ disk'[l[NextRunnable(l)]].status = "queued"
  BY <1>3, <1>4
<1> QED
  BY <1>1, <1>5, ElementOfSeq DEF Contains

\* The pump sweeps the line, and either changes nothing else or, nobody having
\* the claim, launches one queued task of the line.
LEMMA PumpEffect ==
  ASSUME NEW l, LineOK(l), NEW c, NEW s, NEW st, NEW h, Pump(l, c, s, st, h)
  PROVE  /\ LineOK(line') /\ \A t : Contains(line', t) => Contains(l, t)
         /\ \/ claim' = c /\ slots' = s /\ stage' = st /\ held' = h
            \/ /\ c = None /\ ~draining
               /\ \E next \in Tasks :
                    /\ Contains(l, next) /\ disk'[next].status = "queued"
                    /\ ~ (Cardinality(s) >= Cap)
                    /\ claim' = next
                    /\ slots' = s \union {next}
                    /\ stage' = [st EXCEPT ![next] = "materializing"]
                    /\ held' = [h EXCEPT ![next] = disk'[next]]
<1>1. line' = l \/ line' = Swept(l)
  BY DEF Pump
<1>2. LineOK(line') /\ \A t : Contains(line', t) => Contains(l, t)
  BY <1>1, OnlyOfLine DEF Swept
<1>3. CASE draining \/ c # None \/ NextRunnable(l) > Len(l) \/ Cardinality(s) >= Cap
  BY <1>2, <1>3 DEF Pump
<1>4. CASE ~ (draining \/ c # None \/ NextRunnable(l) > Len(l) \/ Cardinality(s) >= Cap)
  BY <1>2, <1>4, NextRunnableProperties DEF Pump
<1> QED
  BY <1>3, <1>4

-----------------------------------------------------------------------------
(***************************************************************************)
(* The inductive invariant of a runner whose queue.json can be written and *)
(* that takes no repositories in. It is stated of the values the pump is   *)
(* run on, which are not yet those of any state: d the records, l the      *)
(* line, c the claim, st the stages, h the held records, a the abandons,   *)
(* de the deliveries, s and p the load.                                    *)
(***************************************************************************)
Faultless == QueueFaults = FALSE /\ Scratch = {}

Heavy == Active \union {"checks", "review"}
Reviewing == Hook \ {"shipping", "merging"}

\* What the record of one task, its chain, its abandon and its place in the
\* line and in the load cap say of each other.
TaskOK(t, d, l, c, st, h, a, de, s, p) ==
  /\ c = t <=> st[t] # "none"
  /\ a[t] # "no" =>
       /\ st[t] = "none" /\ t \notin de /\ ~Contains(l, t)
       /\ d[t].status # "absent"
  /\ d[t].status = "running" <=> st[t] = "agent"
  /\ d[t].status = "reviewing" <=> st[t] \in Reviewing
  /\ st[t] = "materializing" => d[t].status = "queued" /\ h[t].status = "queued"
  /\ st[t] = "shipping" => d[t].status = "review_ok"
  /\ st[t] = "merging" => d[t].status = "shipped"
  /\ st[t] \in {"shipping", "merging"} => t \in de
  /\ t \in de => \/ st[t] \in {"shipping", "merging"}
                 \/ st[t] = "none" /\ d[t].status \in {"review_ok", "review_ko"}
  /\ h[t] # NoRecord => /\ st[t] # "none" \/ t \in de
                        /\ Criteria = {} => h[t] = d[t]
  /\ t \in s <=> st[t] \in Heavy
  /\ Contains(p, t) <=> st[t] \in Waits

LoadOK(s, p) ==
  /\ s \subseteq Tasks \union Others /\ Cardinality(s) <= Cap
  /\ p \in Seq(Tasks \union Others) /\ IsInjective(p)

Consistent(d, l, c, st, h, a, de, s, p) ==
  /\ d \in [Tasks -> Record] /\ LineOK(l) /\ c \in Tasks \union {None}
  /\ st \in [Tasks -> Stage] /\ h \in [Tasks -> Record]
  /\ a \in [Tasks -> {"no", "out", "in_line"}] /\ de \subseteq Tasks
  /\ LoadOK(s, p)
  /\ \A t \in Tasks : TaskOK(t, d, l, c, st, h, a, de, s, p)

Alive == Consistent(disk, line, claim, stage, held, abandoning, delivering,
                    slots, parked)

Fits(t) == TaskOK(t, disk, line, claim, stage, held, abandoning, delivering,
                  slots, parked)

\* A process that is down leaves its files and nothing else.
Down ==
  /\ disk \in [Tasks -> Record] /\ LineOK(line) /\ claim = None
  /\ stage = [t \in Tasks |-> "none"] /\ held = [t \in Tasks |-> NoRecord]
  /\ abandoning = [t \in Tasks |-> "no"] /\ delivering = {}
  /\ slots = {} /\ parked = <<>>

IInv ==
  /\ IF up THEN Alive ELSE Down
  /\ cut \subseteq {t \in Tasks : stage[t] # "none"}
  /\ attaching = [t \in Tasks |-> NoRecord]
  /\ written \in BOOLEAN /\ up \in BOOLEAN /\ draining \in BOOLEAN
  /\ blocked \subseteq Tasks

-----------------------------------------------------------------------------
(***************************************************************************)
(* Sets of holders, and records with another status.                       *)
(***************************************************************************)
LEMMA HoldersFinite ==
  ASSUME NEW S \in SUBSET (Tasks \union Others)
  PROVE  IsFiniteSet(S) /\ Cardinality(S) \in Nat
<1>1. IsFiniteSet(Tasks \union Others)
  BY TasksFinite, OthersFinite, FS_Union
<1> QED
  BY <1>1, FS_Subset, FS_CardinalityType

LEMMA StatusTyped ==
  ASSUME NEW r \in Record, NEW status \in Status
  PROVE  /\ [r EXCEPT !.status = status] \in Record
         /\ [r EXCEPT !.status = status].status = status
         /\ [r EXCEPT !.status = status].turn = r.turn
BY DEF Record

LEMMA NoRecordTyped == NoRecord \in Record /\ NoRecord.status = "absent"
BY MaxTurnsPositive DEF NoRecord, Record, Status

\* The pump keeps all of it, whatever handler runs it.
LEMMA PumpConsistent ==
  ASSUME NEW l, NEW c, NEW s, NEW st, NEW h, Pump(l, c, s, st, h),
         Consistent(disk', l, c, st, h, abandoning', delivering', s, parked')
  PROVE  /\ Alive'
         /\ \A t \in Tasks : st[t] # "none" => stage'[t] # "none"
<1> DEFINE d == disk'
           a == abandoning'
           de == delivering'
           p == parked'
           l1 == line'
<1>1. /\ LineOK(l) /\ LineOK(l1) /\ \A t : Contains(l1, t) => Contains(l, t)
      /\ d \in [Tasks -> Record] /\ c \in Tasks \union {None}
      /\ st \in [Tasks -> Stage] /\ h \in [Tasks -> Record]
      /\ a \in [Tasks -> {"no", "out", "in_line"}] /\ de \subseteq Tasks
      /\ LoadOK(s, p)
  BY PumpEffect DEF Consistent
<1>2. ASSUME NEW t \in Tasks PROVE TaskOK(t, d, l, c, st, h, a, de, s, p)
  BY DEF Consistent
<1>3. CASE claim' = c /\ slots' = s /\ stage' = st /\ held' = h
  <2>1. ASSUME NEW t \in Tasks
        PROVE  TaskOK(t, d, l1, c, st, h, a, de, s, p)
    BY <1>1, <1>2 DEF TaskOK
  <2> QED
    BY <1>1, <1>3, <2>1 DEF Consistent, Alive
<1>4. CASE ~ (claim' = c /\ slots' = s /\ stage' = st /\ held' = h)
  <2>1. PICK next \in Tasks :
          /\ c = None
          /\ Contains(l, next) /\ d[next].status = "queued"
          /\ ~ (Cardinality(s) >= Cap)
          /\ claim' = next
          /\ slots' = s \union {next}
          /\ stage' = [st EXCEPT ![next] = "materializing"]
          /\ held' = [h EXCEPT ![next] = d[next]]
    <3>1. LineOK(l)
      BY <1>1
    <3> QED
      BY <1>4, <3>1, PumpEffect
  <2>2. \A t \in Tasks : st[t] = "none"
    BY <1>2, <2>1, NoneIsNoTask DEF TaskOK
  <2>3. LoadOK(slots', p)
    <3>1. s \in SUBSET (Tasks \union Others)
      BY <1>1 DEF LoadOK
    <3>2. IsFiniteSet(s) /\ Cardinality(s) \in Nat
      BY <3>1, HoldersFinite
    <3>3. Cardinality(s \union {next}) <= Cardinality(s) + 1
      BY <3>2, FS_AddElement
    <3>4. Cardinality(s \union {next}) \in Nat
      BY <3>1, HoldersFinite
    <3>5. Cardinality(slots') <= Cap
      BY <2>1, <3>2, <3>3, <3>4, CapPositive
    <3>6. slots' \subseteq Tasks \union Others
      BY <2>1, <3>1
    <3> QED
      BY <1>1, <3>5, <3>6 DEF LoadOK
  <2>4. /\ stage' \in [Tasks -> Stage] /\ held' \in [Tasks -> Record]
        /\ claim' \in Tasks
    BY <1>1, <2>1 DEF Stage, Active
  <2>5. ASSUME NEW t \in Tasks, t # next
        PROVE  TaskOK(t, d, l1, claim', stage', held', a, de, slots', p)
    <3>1. /\ claim' # t /\ c # t /\ stage'[t] = st[t] /\ held'[t] = h[t]
          /\ t \in slots' <=> t \in s
      BY <1>1, <2>1, <2>5, NoneIsNoTask
    <3>2. TaskOK(t, d, l, c, st, h, a, de, s, p)
      BY <1>2
    <3> QED
      BY <1>1, <3>1, <3>2 DEF TaskOK
  <2>6. TaskOK(next, d, l1, claim', stage', held', a, de, slots', p)
    <3>1. /\ claim' = next /\ stage'[next] = "materializing"
          /\ held'[next] = d[next] /\ next \in slots' /\ st[next] = "none"
      BY <1>1, <2>1, <2>2
    <3>2. TaskOK(next, d, l, c, st, h, a, de, s, p)
      BY <1>2
    <3> QED
      BY <2>1, <3>1, <3>2
      DEF TaskOK, Heavy, Active, Reviewing, Hook, Waits
  <2>7. \A t \in Tasks : TaskOK(t, d, l1, claim', stage', held', a, de, slots', p)
    BY <2>5, <2>6
  <2>8. Consistent(d, l1, claim', stage', held', a, de, slots', p)
    BY <1>1, <2>3, <2>4, <2>7 DEF Consistent
  <2> QED
    BY <2>2, <2>8 DEF Alive
<1> QED
  BY <1>3, <1>4

-----------------------------------------------------------------------------
\* What giving a slot back makes of the load, for any client.
LEMMA FreedEffect ==
  ASSUME LoadOK(slots, parked), NEW c, NEW f \in Freed(c)
  PROVE  /\ LoadOK(f.slots, f.parked)
         /\ \/ f.slots = slots /\ f.parked = parked /\ c \notin slots
            \/ \E w : /\ Contains(parked, w) /\ c \in slots
                      /\ f.slots = (slots \ {c}) \union {w}
                      /\ \A x : Contains(f.parked, x) <=> Contains(parked, x) /\ x # w
            \/ \E O \in SUBSET Others : /\ f.slots = (slots \ {c}) \union O
                                        /\ f.parked = parked /\ c \in slots
<1> DEFINE C == Tasks \union Others
<1>1. /\ parked \in Seq(C) /\ IsInjective(parked) /\ slots \in SUBSET C
      /\ Cardinality(slots) <= Cap /\ Cap \in Nat
  BY CapPositive DEF LoadOK
<1>2. CASE c \notin slots
  <2>1. f = [slots |-> slots, parked |-> parked]
    BY <1>2 DEF Freed
  <2> QED
    BY <1>2, <2>1
<1>3. ASSUME c \in slots, NEW w \in C
      PROVE  /\ (slots \ {c}) \union {w} \subseteq C
             /\ Cardinality((slots \ {c}) \union {w}) <= Cap
  <2>1. IsFiniteSet(slots) /\ Cardinality(slots) \in Nat
    BY <1>1, HoldersFinite
  <2>2. /\ IsFiniteSet(slots \ {c})
        /\ Cardinality(slots \ {c}) = Cardinality(slots) - 1
    BY <1>3, <2>1, FS_RemoveElement
  <2>3. \/ Cardinality((slots \ {c}) \union {w}) = Cardinality(slots \ {c})
        \/ Cardinality((slots \ {c}) \union {w}) = Cardinality(slots \ {c}) + 1
    BY <2>2, FS_AddElement
  <2> QED
    BY <1>1, <1>3, <2>1, <2>2, <2>3
<1>4. CASE c \in slots /\ parked # <<>>
  <2> DEFINE w == Head(parked)
  <2>1. f = [slots |-> (slots \ {c}) \union {w}, parked |-> Tail(parked)]
    BY <1>4 DEF Freed
  <2>2. /\ w \in C /\ w = parked[1] /\ Tail(parked) \in Seq(C)
        /\ Len(parked) \in Nat /\ Len(parked) > 0
        /\ Len(Tail(parked)) = Len(parked) - 1
        /\ \A i \in 1..Len(Tail(parked)) : Tail(parked)[i] = parked[i + 1]
        /\ DOMAIN parked = 1..Len(parked)
        /\ DOMAIN Tail(parked) = 1..Len(Tail(parked))
    BY <1>1, <1>4, HeadTailProperties, LenProperties, EmptySeq
  <2> HIDE DEF w
  <2>3. IsInjective(Tail(parked))
    <3> SUFFICES ASSUME NEW i \in 1..Len(Tail(parked)), NEW j \in 1..Len(Tail(parked)),
                        Tail(parked)[i] = Tail(parked)[j]
                 PROVE  i = j
      BY <2>2 DEF IsInjective
    <3>1. parked[i + 1] = parked[j + 1] /\ i + 1 \in 1..Len(parked) /\ j + 1 \in 1..Len(parked)
      BY <2>2
    <3>2. i + 1 = j + 1
      BY <1>1, <2>2, <3>1 DEF IsInjective
    <3> QED
      BY <3>2
  <2>4. ASSUME NEW x
        PROVE  Contains(Tail(parked), x) <=> Contains(parked, x) /\ x # w
    <3>1. ASSUME NEW i \in 1..Len(Tail(parked)), Tail(parked)[i] = x
          PROVE  Contains(parked, x) /\ x # w
      <4>1. parked[i + 1] = x /\ i + 1 \in 1..Len(parked) /\ i + 1 # 1 /\ 1 \in 1..Len(parked)
        BY <2>2, <3>1
      <4> QED
        BY <1>1, <2>2, <4>1 DEF IsInjective, Contains
    <3>2. ASSUME NEW i \in 1..Len(parked), parked[i] = x, x # w
          PROVE  Contains(Tail(parked), x)
      <4>1. i - 1 \in 1..Len(Tail(parked)) /\ (i - 1) + 1 = i
        BY <2>2, <3>2
      <4>2. Tail(parked)[i - 1] = x
        BY <2>2, <3>2, <4>1
      <4> QED
        BY <4>1, <4>2 DEF Contains
    <3> QED
      BY <3>1, <3>2 DEF Contains
  <2>5. Contains(parked, w)
    BY <2>2 DEF Contains
  <2>6. LoadOK((slots \ {c}) \union {w}, Tail(parked))
    BY <1>3, <1>4, <2>2, <2>3 DEF LoadOK
  <2> QED
    BY <1>4, <2>1, <2>4, <2>5, <2>6
<1>5. CASE c \in slots /\ parked = <<>>
  <2>1. PICK O \in {{}} \union {{o} : o \in Others \ slots} :
          f = [slots |-> (slots \ {c}) \union O, parked |-> parked]
    BY <1>5 DEF Freed
  <2>2. O \in SUBSET Others /\ f.slots = (slots \ {c}) \union O /\ f.parked = parked
    BY <2>1
  <2>3. (slots \ {c}) \union O \subseteq C
    BY <1>1, <2>2
  <2>4. Cardinality((slots \ {c}) \union O) <= Cap
    <3>1. CASE O = {}
      <4>1. IsFiniteSet(slots) /\ Cardinality(slots) \in Nat
        BY <1>1, HoldersFinite
      <4>2. Cardinality(slots \ {c}) = Cardinality(slots) - 1
        BY <1>5, <4>1, FS_RemoveElement
      <4>3. (slots \ {c}) \union O = slots \ {c}
        BY <3>1
      <4>4. Cardinality((slots \ {c}) \union O) = Cardinality(slots) - 1
        BY <4>2, <4>3
      <4> QED
        BY <1>1, <4>1, <4>4
    <3>2. CASE O # {}
      <4>1. PICK o \in Others : O = {o}
        BY <2>1, <3>2
      <4>2. o \in C
        OBVIOUS
      <4>3. Cardinality((slots \ {c}) \union {o}) <= Cap
        BY <1>3, <1>5, <4>2
      <4> QED
        BY <4>1, <4>3
    <3> QED
      BY <3>1, <3>2
  <2>5. LoadOK(f.slots, f.parked)
    BY <1>1, <2>2, <2>3, <2>4 DEF LoadOK
  <2> QED
    BY <1>5, <2>2, <2>5
<1> QED
  BY <1>2, <1>4, <1>5

\* A chain that gives its slot back leaves no task of this project on the load.
LEMMA FreedByTheChain ==
  ASSUME LoadOK(slots, parked), NEW t \in Tasks,
         \A x \in Tasks : (x \in slots => x = t) /\ ~Contains(parked, x),
         NEW f \in Freed(t)
  PROVE  /\ LoadOK(f.slots, f.parked)
         /\ \A x \in Tasks : x \notin f.slots /\ ~Contains(f.parked, x)
BY FreedEffect, ClientsApart

\* A task nobody is at work on.
LEMMA Resting ==
  ASSUME IInv, up, NEW t \in Tasks, t \notin delivering,
         disk[t].status # "reviewing",
         stage[t] \notin Active \/ disk[t].status \notin {"running", "queued"}
  PROVE  /\ stage[t] = "none" /\ held[t] = NoRecord /\ claim # t
         /\ t \notin slots /\ ~Contains(parked, t)
<1>1. Fits(t) /\ stage[t] \in Stage
  BY DEF IInv, Alive, Fits, Consistent
<1>2. stage[t] = "none"
  BY <1>1 DEF Fits, TaskOK, Stage, Active, Hook, Reviewing
<1> QED
  BY <1>1, <1>2 DEF Fits, TaskOK, Heavy, Active, Waits

\* Whatever ends a chain: the record says neither 'running' nor 'reviewing',
\* nothing is delivered any more, and the line has lost tasks or gained t.
LEMMA EndChainConsistent ==
  ASSUME IInv, up, NEW t \in Tasks, stage[t] \notin Waits \union {"none"},
         disk' \in [Tasks -> Record],
         \A x \in Tasks : x # t => disk'[x] = disk[x],
         disk'[t].status \notin {"running", "reviewing"},
         abandoning' = abandoning, delivering' = delivering \ {t},
         NEW l, LineOK(l), \A x : Contains(l, x) => Contains(line, x) \/ x = t,
         NEW f \in Freed(t), EndChain(t, l, f)
  PROVE  /\ Alive'
         /\ cut' \subseteq {x \in Tasks : stage'[x] # "none"}
<1> DEFINE st == [stage EXCEPT ![t] = "none"]
           h == [held EXCEPT ![t] = NoRecord]
<1>1. Consistent(disk, line, claim, stage, held, abandoning, delivering, slots, parked)
      /\ cut \subseteq {x \in Tasks : stage[x] # "none"}
  BY DEF IInv, Alive
<1>2. ASSUME NEW x \in Tasks
      PROVE  TaskOK(x, disk, line, claim, stage, held, abandoning, delivering, slots, parked)
  BY <1>1 DEF Consistent
<1>3. claim = t
  BY <1>2 DEF TaskOK
<1>4. ASSUME NEW x \in Tasks, x # t PROVE stage[x] = "none"
  BY <1>2, <1>3, <1>4 DEF TaskOK
<1>5. \A x \in Tasks : (x \in slots => x = t) /\ ~Contains(parked, x)
  BY <1>2, <1>4 DEF TaskOK, Heavy, Active, Waits
<1>6. /\ LoadOK(f.slots, f.parked)
      /\ \A x \in Tasks : x \notin f.slots /\ ~Contains(f.parked, x)
  BY <1>1, <1>5, FreedByTheChain DEF Consistent
<1>7. /\ Pump(l, None, f.slots, st, h) /\ parked' = f.parked
      /\ cut' = cut \ {t}
  BY <1>3 DEF EndChain
<1>8. st \in [Tasks -> Stage] /\ h \in [Tasks -> Record]
  BY <1>1, NoRecordTyped DEF Consistent, Stage
<1>9. ASSUME NEW x \in Tasks
      PROVE  TaskOK(x, disk', l, None, st, h, abandoning', delivering', f.slots, f.parked)
  <2>1. st[x] = "none" /\ None # x
    BY <1>1, <1>4, NoneIsNoTask DEF Consistent
  <2>2. CASE x = t
    <3>1. h[x] = NoRecord /\ x \notin delivering' /\ abandoning'[x] = "no"
      BY <1>1, <1>2, <2>2 DEF Consistent, TaskOK
    <3> QED
      BY <1>6, <2>1, <2>2, <3>1
      DEF TaskOK, Reviewing, Hook, Heavy, Active, Waits
  <2>3. CASE x # t
    <3>1. /\ h[x] = held[x] /\ disk'[x] = disk[x] /\ stage[x] = "none"
          /\ x \in delivering' <=> x \in delivering
          /\ Contains(l, x) => Contains(line, x)
      BY <1>1, <1>4, <2>3 DEF Consistent
    <3> QED
      BY <1>2, <1>6, <2>1, <3>1
      DEF TaskOK, Reviewing, Hook, Heavy, Active, Waits
  <2> QED
    BY <2>2, <2>3
<1>10. Consistent(disk', l, None, st, h, abandoning', delivering', f.slots, parked')
  BY <1>1, <1>6, <1>7, <1>8, <1>9 DEF Consistent
<1>11. \A x \in Tasks : x # t => st[x] = stage[x]
  BY <1>1 DEF Consistent
<1> HIDE DEF st, h
<1>12. /\ Alive'
       /\ \A x \in Tasks : st[x] # "none" => stage'[x] # "none"
  BY <1>7, <1>10, PumpConsistent
<1> QED
  BY <1>1, <1>7, <1>11, <1>12

\* A step that touches one task and does not pump.
LEMMA StepOfOne ==
  ASSUME IInv, up, NEW t \in Tasks,
         disk' \in [Tasks -> Record], LineOK(line'), claim' = claim,
         stage' \in [Tasks -> Stage], held' \in [Tasks -> Record],
         abandoning' \in [Tasks -> {"no", "out", "in_line"}],
         delivering' \subseteq Tasks, LoadOK(slots', parked'),
         \A x \in Tasks \ {t} :
           /\ disk'[x] = disk[x] /\ stage'[x] = stage[x] /\ held'[x] = held[x]
           /\ abandoning'[x] = abandoning[x]
           /\ x \in delivering' <=> x \in delivering
           /\ x \in slots' <=> x \in slots
           /\ Contains(parked', x) <=> Contains(parked, x)
           /\ Contains(line', x) => Contains(line, x),
         Fits(t)'
  PROVE  Alive'
<1>1. Alive
  BY DEF IInv
<1>2. ASSUME NEW x \in Tasks, x # t PROVE Fits(x)'
  <2>1. Fits(x)
    BY <1>1 DEF Alive, Consistent, Fits
  <2> QED
    BY <1>2, <2>1 DEF Fits, TaskOK
<1>3. \A x \in Tasks : Fits(x)'
  BY <1>2
<1>4. claim \in Tasks \union {None}
  BY <1>1 DEF Alive, Consistent
<1> QED
  BY <1>3, <1>4 DEF Alive, Consistent, Fits

\* A waiting task leaves the line, for a Stop or for an abandon.
LEMMA DropConsistent ==
  ASSUME Faultless, IInv, up, NEW t \in Tasks, DropFromQueue(t),
         stage[t] = "none", held[t] = NoRecord, claim # t, t \notin delivering,
         disk' \in [Tasks -> Record],
         \A x \in Tasks : x # t => disk'[x] = disk[x],
         disk'[t].status \notin {"absent", "running", "reviewing"},
         abandoning' \in [Tasks -> {"no", "out", "in_line"}],
         \A x \in Tasks : x # t => abandoning'[x] = abandoning[x],
         UNCHANGED <<delivering, parked>>
  PROVE  Alive' /\ \A x \in Tasks : stage[x] # "none" => stage'[x] # "none"
<1>1. Alive /\ LineOK(line)
  BY DEF IInv, Alive, Consistent
<1>2. /\ LineOK(Without(line, t))
      /\ \A x : Contains(Without(line, t), x) <=> Contains(line, x) /\ x # t
  BY <1>1, WithoutDrops
<1>3. \/ Pump(Without(line, t), claim, slots, stage, held)
      \/ ~InLine(t) /\ UNCHANGED <<line, claim, slots, stage, held>>
  BY DEF DropFromQueue, Writes, Faultless
<1>4. ASSUME NEW x \in Tasks, NEW m,
             \A y : Contains(m, y) => Contains(line, y) /\ y # t
      PROVE  TaskOK(x, disk', m, claim, stage, held, abandoning', delivering', slots, parked')
  <2>1. Fits(x)
    BY <1>1 DEF Alive, Consistent, Fits
  <2>2. CASE x = t
    BY <1>4, <2>1, <2>2 DEF Fits, TaskOK, Reviewing, Hook
  <2>3. CASE x # t
    BY <1>4, <2>1, <2>3 DEF Fits, TaskOK
  <2> QED
    BY <2>2, <2>3
<1>5. CASE Pump(Without(line, t), claim, slots, stage, held)
  <2>1. Consistent(disk', Without(line, t), claim, stage, held, abandoning',
                  delivering', slots, parked')
    BY <1>1, <1>2, <1>4 DEF Alive, Consistent
  <2> QED
    BY <1>5, <2>1, PumpConsistent
<1>6. CASE ~InLine(t) /\ UNCHANGED <<line, claim, slots, stage, held>>
  <2>1. \A y : Contains(line, y) => Contains(line, y) /\ y # t
    BY <1>6 DEF InLine
  <2>2. Consistent(disk', line, claim, stage, held, abandoning', delivering', slots, parked')
    BY <1>1, <1>4, <2>1 DEF Alive, Consistent
  <2> QED
    BY <1>6, <2>2 DEF Alive
<1> QED
  BY <1>3, <1>5, <1>6

\* A gesture that asks for a turn of a task at rest.
LEMMA ScheduleIInv ==
  ASSUME IInv, NEW t \in Tasks, NEW q \in Record, NEW r \in Record,
         Schedule(t, q, r), stage[t] = "none", held[t] = NoRecord,
         t \notin delivering, abandoning[t] = "no",
         q.status = "queued", r.status \in {"queued", "failed"}
  PROVE  IInv'
<1>1. up /\ up' = up /\ Alive /\ LineOK(line) /\ disk \in [Tasks -> Record]
  BY DEF IInv, Schedule, Alive, Consistent
<1>2. /\ UNCHANGED <<draining, cut, parked, abandoning, delivering, attaching>>
      /\ blocked' \subseteq Tasks /\ written' \in BOOLEAN
      /\ disk' = [disk EXCEPT ![t] = q] \/ disk' = [disk EXCEPT ![t] = r]
  BY DEF Schedule, IInv, Persist
<1>3. /\ disk' \in [Tasks -> Record] /\ disk'[t].status \in {"queued", "failed"}
      /\ \A x \in Tasks : x # t => disk'[x] = disk[x]
  BY <1>1, <1>2
<1>4. ASSUME NEW l, LineOK(l), \A x : Contains(l, x) => Contains(line, x) \/ x = t
      PROVE  Consistent(disk', l, claim, stage, held, abandoning', delivering', slots, parked')
  <2>1. ASSUME NEW x \in Tasks
        PROVE  TaskOK(x, disk', l, claim, stage, held, abandoning', delivering', slots, parked')
    <3>1. Fits(x)
      BY <1>1 DEF Alive, Consistent, Fits
    <3>2. CASE x = t
      BY <1>2, <1>3, <3>1, <3>2 DEF Fits, TaskOK, Reviewing, Hook
    <3>3. CASE x # t
      BY <1>2, <1>3, <1>4, <3>1, <3>3 DEF Fits, TaskOK
    <3> QED
      BY <3>2, <3>3
  <2> QED
    BY <1>1, <1>2, <1>3, <1>4, <2>1 DEF Alive, Consistent
<1>5. \/ Pump(line, claim, slots, stage, held)
      \/ /\ ~InLine(t) /\ Len(line) < QueueMax
         /\ Pump(Append(line, t), claim, slots, stage, held)
      \/ UNCHANGED <<line, claim, slots, stage, held>>
  BY DEF Schedule
<1>6. Alive' /\ \A x \in Tasks : stage[x] # "none" => stage'[x] # "none"
  <2>1. CASE Pump(line, claim, slots, stage, held)
    BY <1>1, <1>4, <2>1, PumpConsistent
  <2>2. CASE /\ ~InLine(t) /\ Len(line) < QueueMax
             /\ Pump(Append(line, t), claim, slots, stage, held)
    <3>1. /\ LineOK(Append(line, t))
          /\ \A x : Contains(Append(line, t), x) <=> Contains(line, x) \/ x = t
      BY <1>1, <2>2, AppendToLine DEF InLine
    <3> QED
      BY <1>4, <2>2, <3>1, PumpConsistent
  <2>3. CASE UNCHANGED <<line, claim, slots, stage, held>>
    <3>1. Consistent(disk', line, claim, stage, held, abandoning', delivering', slots, parked')
      BY <1>1, <1>4
    <3> QED
      BY <2>3, <3>1 DEF Alive
  <2> QED
    BY <1>5, <2>1, <2>2, <2>3
<1> QED
  BY <1>1, <1>2, <1>6 DEF IInv

-----------------------------------------------------------------------------
(***************************************************************************)
(* The invariant holds at the start, and every action keeps it.            *)
(***************************************************************************)
LEMMA EmptyLoad == LoadOK({}, <<>>) /\ LineOK(<<>>) /\ \A x : ~Contains(<<>>, x)
<1>1. Cardinality({}) <= Cap /\ 0 <= QueueMax
  BY FS_EmptySet, CapPositive, QueueMaxPositive
<1>2. \A S : <<>> \in Seq(S) /\ Len(<<>>) = 0 /\ DOMAIN <<>> = {}
  OBVIOUS
<1> QED
  BY <1>1, <1>2 DEF LoadOK, LineOK, IsInjective, Contains

LEMMA InitIInv == Init => IInv
<1> SUFFICES ASSUME Init PROVE IInv
  OBVIOUS
<1>1. /\ disk \in [Tasks -> Record] /\ held \in [Tasks -> Record]
      /\ stage \in [Tasks -> Stage]
      /\ abandoning \in [Tasks -> {"no", "out", "in_line"}]
  BY NoRecordTyped DEF Init, Stage
<1>2. ASSUME NEW t \in Tasks PROVE Fits(t)
  <2>1. claim # t
    BY NoneIsNoTask DEF Init
  <2> QED
    BY <2>1, NoRecordTyped, EmptyLoad
    DEF Init, Fits, TaskOK, Heavy, Active, Waits, Reviewing, Hook
<1>3. Alive
  BY <1>1, <1>2, EmptyLoad DEF Init, Alive, Consistent, Fits
<1> QED
  BY <1>3 DEF Init, IInv

\* Records the gestures write.
LEMMA RecordsWritten ==
  /\ Created \in Record /\ Created.status = "queued"
  /\ [Created EXCEPT !.status = "failed"] \in Record
  /\ [Created EXCEPT !.status = "failed"].status = "failed"
  /\ \A r \in Record :
       /\ Resumed(r) \in Record /\ Resumed(r).status = "queued"
       /\ r.turn < MaxTurns => Replied(r) \in Record /\ Replied(r).status = "queued"
<1>1. 1 \in 0..MaxTurns /\ MaxTurns \in Nat
  BY MaxTurnsPositive
<1>2. Created \in Record /\ Created.status = "queued"
  BY <1>1 DEF Created, Record, Status
<1>3. \A r \in Record : Resumed(r) \in Record /\ Resumed(r).status = "queued"
  BY StatusTyped DEF Resumed, Status
<1>4. ASSUME NEW r \in Record, r.turn < MaxTurns
      PROVE  Replied(r) \in Record /\ Replied(r).status = "queued"
  <2>1. r.turn + 1 \in 0..MaxTurns
    BY <1>1, <1>4 DEF Record
  <2> DEFINE a == [r EXCEPT !.status = "queued"]
             b == [a EXCEPT !.turn = r.turn + 1]
             e == [b EXCEPT !.answered = FALSE]
  <2>2. a \in Record /\ a.status = "queued"
    BY StatusTyped DEF Status
  <2>3. b \in Record /\ b.status = "queued"
    BY <2>1, <2>2 DEF Record
  <2>4. e \in Record /\ e.status = "queued"
    BY <2>3 DEF Record
  <2>5. Replied(r) = e
    BY DEF Replied
  <2> QED
    BY <2>4, <2>5
<1> QED
  BY <1>2, <1>3, <1>4, StatusTyped DEF Status

LEMMA AskIInv ==
  ASSUME IInv, NEW t \in Tasks, Create(t) \/ Reply(t) \/ Resume(t)
  PROVE  IInv'
<1>1. up /\ disk[t] \in Record /\ Fits(t)
  BY DEF IInv, Alive, Consistent, Fits, Create, Reply, Resume, Schedule
<1>2. CASE Create(t)
  <2>1. disk[t].status = "absent"
    BY <1>2 DEF Create, CanCreate
  <2>2. t \notin delivering /\ abandoning[t] = "no"
    BY <1>1, <2>1 DEF Fits, TaskOK
  <2>3. stage[t] = "none" /\ held[t] = NoRecord
    BY <1>1, <2>1, <2>2, Resting
  <2> QED
    BY <1>2, <2>2, <2>3, ScheduleIInv, RecordsWritten DEF Create
<1>3. CASE Reply(t)
  <2>1. /\ t \notin delivering /\ abandoning[t] = "no" /\ stage[t] \notin Active
        /\ disk[t].status # "reviewing" /\ disk[t].turn < MaxTurns
    BY <1>3 DEF Reply, CanReply, Replyable
  <2>2. stage[t] = "none" /\ held[t] = NoRecord
    BY <1>1, <2>1, Resting
  <2> QED
    BY <1>1, <1>3, <2>1, <2>2, ScheduleIInv, RecordsWritten DEF Reply
<1>4. CASE Resume(t)
  <2>1. /\ t \notin delivering /\ abandoning[t] = "no" /\ stage[t] \notin Active
        /\ disk[t].status # "reviewing"
    BY <1>4 DEF Resume, CanResume
  <2>2. stage[t] = "none" /\ held[t] = NoRecord
    BY <1>1, <2>1, Resting
  <2> QED
    BY <1>1, <1>4, <2>1, <2>2, ScheduleIInv, RecordsWritten DEF Resume
<1> QED
  BY <1>2, <1>3, <1>4

LEMMA CreateWhileDrainingIInv ==
  ASSUME IInv, NEW t \in Tasks, CreateWhileDraining(t)
  PROVE  IInv'
<1>1. up /\ Alive /\ Fits(t) /\ disk[t].status = "absent"
  BY DEF IInv, Alive, Consistent, Fits, CreateWhileDraining, CanCreate
<1>2. t \notin delivering /\ abandoning[t] = "no"
  BY <1>1 DEF Fits, TaskOK
<1>3. stage[t] = "none" /\ held[t] = NoRecord
  BY <1>1, <1>2, Resting
<1>4. /\ disk' \in [Tasks -> Record] /\ disk'[t].status = "failed"
      /\ \A x \in Tasks : x # t => disk'[x] = disk[x]
  BY <1>1, RecordsWritten DEF CreateWhileDraining, Persist, Alive, Consistent
<1>5. Fits(t)'
  BY <1>1, <1>2, <1>3, <1>4
  DEF CreateWhileDraining, Fits, TaskOK, Reviewing, Hook
<1>6. Alive'
  BY <1>1, <1>4, <1>5, StepOfOne
  DEF CreateWhileDraining, Alive, Consistent
<1> QED
  BY <1>1, <1>6 DEF CreateWhileDraining, IInv

LEMMA InterruptIInv ==
  ASSUME Faultless, IInv, NEW t \in Tasks, InterruptTurn(t) \/ InterruptWaiting(t)
  PROVE  IInv'
<1>1. up /\ Alive /\ Fits(t) /\ disk[t] \in Record
  BY DEF IInv, Alive, Consistent, Fits, InterruptTurn, InterruptWaiting
<1>2. CASE InterruptTurn(t)
  <2>1. Alive'
    BY <1>1, <1>2 DEF InterruptTurn, Alive
  <2>2. stage[t] # "none"
    BY <1>2 DEF InterruptTurn, Active
  <2> QED
    BY <1>1, <1>2, <2>1, <2>2 DEF InterruptTurn, IInv
<1>3. CASE InterruptWaiting(t)
  <2>1. /\ stage[t] \notin Active /\ disk[t].status \in {"queued", "waiting_for_you"}
        /\ DropFromQueue(t)
        /\ Persist(t, [disk[t] EXCEPT !.status = "interrupted"])
        /\ UNCHANGED <<written, up, draining, cut, parked, abandoning, delivering,
                       attaching>>
    BY <1>3 DEF InterruptWaiting
  <2>2. t \notin delivering
    BY <1>1, <2>1 DEF Fits, TaskOK
  <2>3. stage[t] = "none" /\ held[t] = NoRecord /\ claim # t
    BY <1>1, <2>1, <2>2, Resting
  <2>4. /\ disk' \in [Tasks -> Record] /\ disk'[t].status = "interrupted"
        /\ \A x \in Tasks : x # t => disk'[x] = disk[x]
    BY <1>1, <2>1, StatusTyped DEF Persist, Alive, Consistent, Status
  <2>5. abandoning' \in [Tasks -> {"no", "out", "in_line"}] /\ abandoning' = abandoning
    BY <1>1, <2>1 DEF Alive, Consistent
  <2>6. Alive' /\ \A x \in Tasks : stage[x] # "none" => stage'[x] # "none"
    BY <1>1, <2>1, <2>2, <2>3, <2>4, <2>5, DropConsistent
  <2> QED
    BY <1>1, <2>1, <2>6 DEF IInv, DropFromQueue
<1> QED
  BY <1>2, <1>3

LEMMA AbandonBeginIInv ==
  ASSUME Faultless, IInv, NEW t \in Tasks, AbandonBegin(t)
  PROVE  IInv'
<1>1. /\ up /\ Alive /\ disk[t] \in Record
      /\ stage[t] \notin Active /\ t \notin delivering
      /\ disk[t].status \notin {"absent", "running", "reviewing"}
      /\ abandoning' = [abandoning EXCEPT ![t] = IF InLine(t) THEN "in_line" ELSE "out"]
      /\ DropFromQueue(t)
      /\ UNCHANGED <<disk, written, up, draining, cut, parked, delivering, attaching>>
  BY DEF IInv, Alive, Consistent, AbandonBegin
<1>2. stage[t] = "none" /\ held[t] = NoRecord /\ claim # t
  BY <1>1, Resting
<1>3. /\ abandoning' \in [Tasks -> {"no", "out", "in_line"}]
      /\ \A x \in Tasks : x # t => abandoning'[x] = abandoning[x]
      /\ disk' \in [Tasks -> Record] /\ disk' = disk
  BY <1>1 DEF Alive, Consistent
<1>4. Alive' /\ \A x \in Tasks : stage[x] # "none" => stage'[x] # "none"
  BY <1>1, <1>2, <1>3, DropConsistent
<1> QED
  BY <1>1, <1>4 DEF IInv, DropFromQueue

LEMMA AbandonEndIInv ==
  ASSUME IInv, NEW t \in Tasks, AbandonEnd(t)
  PROVE  IInv'
<1>1. up /\ Alive /\ Fits(t) /\ disk[t] \in Record
  BY DEF IInv, Down, Alive, Consistent, Fits, AbandonEnd
<1>2. /\ stage[t] = "none" /\ t \notin delivering /\ held[t] = NoRecord
      /\ disk[t].status \notin {"absent", "running", "reviewing"}
  BY <1>1 DEF AbandonEnd, Fits, TaskOK, Reviewing, Hook
<1>3. /\ disk' \in [Tasks -> Record] /\ disk'[t].status \in {"failed", "shipped"}
      /\ \A x \in Tasks : x # t => disk'[x] = disk[x]
  <2> DEFINE status == IF disk[t].status = "shipped" THEN "shipped" ELSE "failed"
             r == [disk[t] EXCEPT !.status = status]
  <2>1. status \in {"failed", "shipped"} /\ status \in Status
    BY DEF Status
  <2>2. r \in Record /\ r.status = status
    BY <1>1, <2>1, StatusTyped
  <2>3. disk' = [disk EXCEPT ![t] = r] /\ disk \in [Tasks -> Record]
    BY <1>1 DEF AbandonEnd, Persist, Alive, Consistent
  <2> HIDE DEF status, r
  <2> QED
    BY <2>1, <2>2, <2>3
<1>4. /\ abandoning' \in [Tasks -> {"no", "out", "in_line"}]
      /\ abandoning'[t] = "no"
      /\ \A x \in Tasks : x # t => abandoning'[x] = abandoning[x]
  BY <1>1 DEF AbandonEnd, Alive, Consistent
<1>5. Fits(t)'
  BY <1>1, <1>2, <1>3, <1>4
  DEF AbandonEnd, Fits, TaskOK, Reviewing, Hook
<1>6. Alive'
  BY <1>1, <1>3, <1>4, <1>5, StepOfOne DEF AbandonEnd, Alive, Consistent
<1> QED
  BY <1>1, <1>6 DEF AbandonEnd, IInv

\* A removal that failed puts back at the end of the line a task that was in it.
LEMMA AbandonFailsIInv ==
  ASSUME IInv, NEW t \in Tasks, AbandonFails(t)
  PROVE  IInv'
<1>1. up /\ Alive /\ LineOK(line)
  BY DEF IInv, Down, Alive, Consistent, AbandonFails
<1>2. /\ UNCHANGED <<disk, up, draining, cut, parked, blocked, delivering, attaching>>
      /\ abandoning' \in [Tasks -> {"no", "out", "in_line"}]
      /\ abandoning'[t] = "no"
      /\ \A x \in Tasks : x # t => abandoning'[x] = abandoning[x]
      /\ written' \in BOOLEAN
  BY <1>1 DEF AbandonFails, IInv, Alive, Consistent
<1>3. ASSUME NEW l, LineOK(l), \A x : Contains(l, x) => Contains(line, x) \/ x = t
      PROVE  Consistent(disk', l, claim, stage, held, abandoning', delivering', slots, parked')
  <2>1. ASSUME NEW x \in Tasks
        PROVE  TaskOK(x, disk', l, claim, stage, held, abandoning', delivering', slots, parked')
    <3>1. Fits(x)
      BY <1>1 DEF Alive, Consistent, Fits
    <3>2. CASE x = t
      BY <1>2, <3>1, <3>2 DEF Fits, TaskOK
    <3>3. CASE x # t
      BY <1>2, <1>3, <3>1, <3>3 DEF Fits, TaskOK
    <3> QED
      BY <3>2, <3>3
  <2> QED
    BY <1>1, <1>2, <1>3, <2>1 DEF Alive, Consistent
<1>4. \/ Pump(line, claim, slots, stage, held)
      \/ /\ ~InLine(t) /\ Len(line) < QueueMax
         /\ Pump(Append(line, t), claim, slots, stage, held)
      \/ UNCHANGED <<line, claim, slots, stage, held>>
  BY DEF AbandonFails
<1>5. Alive' /\ \A x \in Tasks : stage[x] # "none" => stage'[x] # "none"
  <2>1. CASE Pump(line, claim, slots, stage, held)
    BY <1>1, <1>3, <2>1, PumpConsistent
  <2>2. CASE /\ ~InLine(t) /\ Len(line) < QueueMax
             /\ Pump(Append(line, t), claim, slots, stage, held)
    <3>1. /\ LineOK(Append(line, t))
          /\ \A x : Contains(Append(line, t), x) <=> Contains(line, x) \/ x = t
      BY <1>1, <2>2, AppendToLine DEF InLine
    <3> QED
      BY <1>3, <2>2, <3>1, PumpConsistent
  <2>3. CASE UNCHANGED <<line, claim, slots, stage, held>>
    <3>1. Consistent(disk', line, claim, stage, held, abandoning', delivering', slots, parked')
      BY <1>1, <1>3
    <3> QED
      BY <2>3, <3>1 DEF Alive
  <2> QED
    BY <1>4, <2>1, <2>2, <2>3
<1> QED
  BY <1>1, <1>2, <1>5 DEF IInv

\* A chain writes a status that ends it.
LEMMA ChainEnds ==
  ASSUME IInv, up, NEW t \in Tasks, stage[t] \notin Waits \union {"none"},
         NEW r \in Record, r.status \notin {"running", "reviewing"}, Persist(t, r),
         UNCHANGED <<up, draining, abandoning, attaching>>,
         delivering' = delivering \ {t},
         written' \in BOOLEAN, blocked' \subseteq Tasks,
         NEW l, LineOK(l), \A x : Contains(l, x) => Contains(line, x) \/ x = t,
         NEW f \in Freed(t), EndChain(t, l, f)
  PROVE  IInv'
<1>1. disk \in [Tasks -> Record]
  BY DEF IInv, Alive, Consistent
<1>2. /\ disk' \in [Tasks -> Record] /\ disk'[t] = r
      /\ \A x \in Tasks : x # t => disk'[x] = disk[x]
  <2>1. disk' = [disk EXCEPT ![t] = r]
    BY DEF Persist
  <2> QED
    BY <1>1, <2>1, Zenon
<1>3. Alive' /\ cut' \subseteq {x \in Tasks : stage'[x] # "none"}
  BY <1>2, EndChainConsistent
<1> QED
  BY <1>3 DEF IInv

\* The record a chain will write with another status.
LEMMA AsTyped ==
  ASSUME IInv, NEW t \in Tasks, NEW status \in Status, NEW b \in BOOLEAN
  PROVE  /\ As(t, status) \in Record /\ As(t, status).status = status
         /\ [As(t, status) EXCEPT !.answered = b] \in Record
         /\ [As(t, status) EXCEPT !.answered = b].status = status
<1>1. held[t] \in Record
  BY NoRecordTyped DEF IInv, Alive, Down, Consistent
<1>2. As(t, status) \in Record /\ As(t, status).status = status
  BY <1>1, StatusTyped DEF As
<1> QED
  BY <1>2 DEF Record

\* A chain in flight: the process lives, and ends of chains can be applied.
LEMMA ChainInFlight ==
  ASSUME IInv, NEW t \in Tasks, stage[t] # "none"
  PROVE  /\ up /\ Alive /\ Fits(t) /\ LineOK(line)
         /\ disk[t] \in Record /\ held[t] \in Record /\ stage[t] \in Stage
         /\ stage[t] \notin {"shipping", "merging"} => delivering \ {t} = delivering
BY DEF IInv, Down, Alive, Consistent, Fits, TaskOK

LEMMA MaterializingIInv ==
  ASSUME IInv, NEW t \in Tasks,
         \/ MaterializedTooLate(t) \/ MaterializeFails(t) \/ MaterializeBlocks(t)
  PROVE  IInv'
<1>1. stage[t] = "materializing"
  BY DEF MaterializedTooLate, MaterializeFails, MaterializeBlocks
<1>2. /\ up /\ LineOK(line) /\ held[t] \in Record /\ Fits(t)
      /\ delivering \ {t} = delivering
      /\ stage[t] \notin Waits \union {"none"}
      /\ written \in BOOLEAN /\ blocked \subseteq Tasks
  BY <1>1, ChainInFlight DEF Waits, IInv
<1>3. CASE MaterializedTooLate(t)
  <2>1. As(t, "interrupted") \in Record /\ As(t, "interrupted").status = "interrupted"
    BY AsTyped DEF Status
  <2>2. LineOK(Without(line, t)) /\ \A x : Contains(Without(line, t), x) => Contains(line, x)
    BY <1>2, WithoutDrops
  <2> QED
    BY <1>2, <1>3, <2>1, <2>2, ChainEnds DEF MaterializedTooLate
<1>4. CASE MaterializeFails(t)
  <2>1. PICK status \in {"interrupted", "failed"} : Persist(t, As(t, status))
    BY <1>4 DEF MaterializeFails
  <2>2. status \in Status
    BY DEF Status
  <2>3. As(t, status) \in Record /\ As(t, status).status = status
    BY <2>2, AsTyped
  <2> QED
    BY <1>2, <1>4, <2>1, <2>3, ChainEnds DEF MaterializeFails
<1>5. CASE MaterializeBlocks(t)
  <2>1. held[t].status = "queued"
    BY <1>1, <1>2 DEF Fits, TaskOK
  <2>2. blocked' \subseteq Tasks
    BY <1>2, <1>5 DEF MaterializeBlocks
  <2> QED
    BY <1>2, <1>5, <2>1, <2>2, ChainEnds DEF MaterializeBlocks
<1> QED
  BY <1>3, <1>4, <1>5

LEMMA AgentEndsIInv ==
  ASSUME IInv, NEW t \in Tasks, AgentFails(t) \/ AgentAsks(t)
  PROVE  IInv'
<1>1. stage[t] = "agent"
  BY DEF AgentFails, AgentAsks
<1>2. /\ up /\ LineOK(line) /\ delivering \ {t} = delivering
      /\ stage[t] \notin Waits \union {"none"}
      /\ written \in BOOLEAN /\ blocked \subseteq Tasks
  BY <1>1, ChainInFlight DEF Waits, IInv
<1>3. PICK status \in {"interrupted", "failed", "waiting_for_you"}, b \in BOOLEAN :
        Persist(t, [As(t, status) EXCEPT !.answered = b])
  BY DEF AgentFails, AgentAsks
<1>4. /\ [As(t, status) EXCEPT !.answered = b] \in Record
      /\ [As(t, status) EXCEPT !.answered = b].status = status
  BY AsTyped DEF Status
<1>5. PICK f \in Freed(t) : EndChain(t, line, f)
  BY DEF AgentFails, AgentAsks
<1>6. UNCHANGED <<written, up, draining, blocked, abandoning, delivering, attaching>>
  BY DEF AgentFails, AgentAsks
<1> QED
  BY <1>2, <1>3, <1>4, <1>5, <1>6, ChainEnds

LEMMA MaterializedIInv ==
  ASSUME IInv, NEW t \in Tasks, Materialized(t)
  PROVE  IInv'
<1>1. stage[t] = "materializing"
  BY DEF Materialized
<1>2. up /\ Alive /\ Fits(t) /\ LineOK(line)
  BY <1>1, ChainInFlight
<1>3. /\ LineOK(Without(line, t))
      /\ \A x : Contains(Without(line, t), x) => Contains(line, x)
  BY <1>2, WithoutDrops
<1>4. As(t, "running") \in Record /\ As(t, "running").status = "running"
  BY AsTyped DEF Status
<1>5. /\ disk' = [disk EXCEPT ![t] = As(t, "running")]
      /\ held' = [held EXCEPT ![t] = As(t, "running")]
      /\ stage' = [stage EXCEPT ![t] = "agent"]
      /\ line' = Without(line, t)
      /\ UNCHANGED <<written, up, draining, claim, cut, slots, parked, abandoning,
                     delivering, attaching>>
      /\ blocked' \subseteq Tasks
  BY DEF Materialized, Persist, IInv
<1>6. /\ disk \in [Tasks -> Record] /\ held \in [Tasks -> Record]
      /\ stage \in [Tasks -> Stage]
  BY <1>2 DEF Alive, Consistent
<1>7. /\ disk' \in [Tasks -> Record] /\ held' \in [Tasks -> Record]
      /\ stage' \in [Tasks -> Stage] /\ stage'[t] = "agent"
      /\ disk'[t] = held'[t] /\ disk'[t].status = "running"
      /\ \A x \in Tasks \ {t} : disk'[x] = disk[x] /\ held'[x] = held[x] /\ stage'[x] = stage[x]
  BY <1>4, <1>5, <1>6 DEF Stage, Active
<1>8. Fits(t)'
  BY <1>1, <1>2, <1>5, <1>7 DEF Fits, TaskOK, Active, Reviewing, Hook, Heavy, Waits
<1>9. Alive'
  BY <1>2, <1>3, <1>5, <1>7, <1>8, StepOfOne DEF Alive, Consistent
<1>10. cut' \subseteq {x \in Tasks : stage'[x] # "none"}
  BY <1>5, <1>7 DEF IInv
<1> QED
  BY <1>2, <1>5, <1>9, <1>10 DEF IInv

\* The only worker of the project gives its slot back and goes on without one.
LEMMA FreedInTheChain ==
  ASSUME IInv, NEW t \in Tasks, stage[t] \notin Waits \union {"none"}, NEW f \in Freed(t)
  PROVE  /\ LoadOK(f.slots, f.parked)
         /\ \A x \in Tasks : x \notin f.slots /\ ~Contains(f.parked, x)
         /\ \A x \in Tasks \ {t} : x \notin slots /\ ~Contains(parked, x)
<1>1. /\ LoadOK(slots, parked)
      /\ \A x \in Tasks : Fits(x)
  BY ChainInFlight DEF Alive, Consistent, Fits
<1>2. ASSUME NEW x \in Tasks, x # t PROVE stage[x] = "none"
  BY <1>1, <1>2 DEF Fits, TaskOK
<1>3. \A x \in Tasks : (x \in slots => x = t) /\ ~Contains(parked, x)
  BY <1>1, <1>2 DEF Fits, TaskOK, Heavy, Active, Waits
<1> QED
  BY <1>1, <1>3, FreedByTheChain

LEMMA AgentDoneIInv ==
  ASSUME IInv, NEW t \in Tasks, AgentDone(t)
  PROVE  IInv'
<1>1. stage[t] = "agent"
  BY DEF AgentDone
<1>2. /\ up /\ Alive /\ Fits(t) /\ LineOK(line) /\ delivering \ {t} = delivering
      /\ stage[t] \notin Waits \union {"none"}
  BY <1>1, ChainInFlight DEF Waits
<1>3. PICK b \in BOOLEAN :
        /\ disk' = [disk EXCEPT ![t] = [As(t, "reviewing") EXCEPT !.answered = b]]
        /\ held' = [held EXCEPT ![t] = [As(t, "reviewing") EXCEPT !.answered = b]]
  BY DEF AgentDone, Persist
<1> DEFINE r == [As(t, "reviewing") EXCEPT !.answered = b]
<1>4. r \in Record /\ r.status = "reviewing"
  BY AsTyped DEF Status
<1>5. PICK f \in Freed(t) : slots' = f.slots /\ parked' = f.parked
  BY DEF AgentDone
<1>6. /\ stage' = [stage EXCEPT ![t] = "hook"] /\ cut' \subseteq cut \union {t}
      /\ UNCHANGED <<line, written, up, draining, claim, blocked, abandoning,
                     delivering, attaching>>
  BY DEF AgentDone
<1> HIDE DEF r
<1>7. /\ disk \in [Tasks -> Record] /\ held \in [Tasks -> Record]
      /\ stage \in [Tasks -> Stage]
  BY <1>2 DEF Alive, Consistent
<1>8. /\ disk' \in [Tasks -> Record] /\ held' \in [Tasks -> Record]
      /\ stage' \in [Tasks -> Stage] /\ stage'[t] = "hook"
      /\ disk'[t] = r /\ held'[t] = r
      /\ \A x \in Tasks \ {t} : disk'[x] = disk[x] /\ held'[x] = held[x] /\ stage'[x] = stage[x]
  BY <1>3, <1>4, <1>6, <1>7 DEF Stage, Hook, r
<1>9. /\ LoadOK(slots', parked')
      /\ \A x \in Tasks : x \notin slots' /\ ~Contains(parked', x)
      /\ \A x \in Tasks \ {t} : x \notin slots /\ ~Contains(parked, x)
  BY <1>2, <1>5, FreedInTheChain
<1>10. Fits(t)'
  BY <1>1, <1>2, <1>4, <1>6, <1>8, <1>9
  DEF Fits, TaskOK, Active, Reviewing, Hook, Heavy, Waits
<1>11. Alive'
  BY <1>2, <1>6, <1>8, <1>9, <1>10, StepOfOne DEF Alive, Consistent
<1>12. cut' \subseteq {x \in Tasks : stage'[x] # "none"}
  BY <1>6, <1>8 DEF IInv
<1> QED
  BY <1>2, <1>6, <1>11, <1>12 DEF IInv

\* Slots asked for by a chain that has none, and by the rest of the machine.
LEMMA LoadGrows ==
  ASSUME LoadOK(slots, parked), NEW c \in Tasks \union Others, ~Contains(parked, c)
  PROVE  /\ Free => LoadOK(slots \union {c}, parked)
         /\ LoadOK(slots, Append(parked, c))
         /\ \A x : Contains(Append(parked, c), x) <=> Contains(parked, x) \/ x = c
<1>1. /\ slots \in SUBSET (Tasks \union Others) /\ IsInjective(parked)
      /\ parked \in Seq(Tasks \union Others) /\ Cardinality(slots) <= Cap
  BY DEF LoadOK
<1>2. ASSUME Free PROVE Cardinality(slots \union {c}) <= Cap
  <2>1. IsFiniteSet(slots) /\ Cardinality(slots) \in Nat
    BY <1>1, HoldersFinite
  <2>2. \/ Cardinality(slots \union {c}) = Cardinality(slots)
        \/ Cardinality(slots \union {c}) = Cardinality(slots) + 1
    BY <2>1, FS_AddElement
  <2> QED
    BY <1>2, <2>1, <2>2, CapPositive DEF Free
<1>3. Free => LoadOK(slots \union {c}, parked)
  BY <1>1, <1>2 DEF LoadOK
<1>4. /\ Append(parked, c) \in Seq(Tasks \union Others) /\ IsInjective(Append(parked, c))
      /\ \A x : Contains(Append(parked, c), x) <=> Contains(parked, x) \/ x = c
  BY <1>1, AppendFresh
<1> QED
  BY <1>1, <1>3, <1>4 DEF LoadOK

\* A step of the hook, before the checks or the review: stages, slots and
\* waiters move, the records do not.
LEMMA HookStep ==
  ASSUME IInv, NEW t \in Tasks, stage[t] \in Reviewing, NEW v \in Reviewing,
         stage' = [stage EXCEPT ![t] = v],
         UNCHANGED <<persisted, up, draining, claim, held, cut, blocked, abandoning,
                     delivering, attaching>>,
         LoadOK(slots', parked'),
         \A x \in Tasks \ {t} : /\ x \in slots' <=> x \in slots
                                /\ Contains(parked', x) <=> Contains(parked, x),
         t \in slots' <=> v \in Heavy, Contains(parked', t) <=> v \in Waits
  PROVE  IInv'
<1>1. up /\ Alive /\ Fits(t) /\ LineOK(line)
  BY ChainInFlight DEF Reviewing, Hook
<1>2. /\ disk \in [Tasks -> Record] /\ held \in [Tasks -> Record]
      /\ stage \in [Tasks -> Stage] /\ v \in Stage /\ v # "none"
  BY <1>1 DEF Alive, Consistent, Reviewing, Stage, Hook
<1>3. /\ stage' \in [Tasks -> Stage] /\ stage'[t] = v
      /\ \A x \in Tasks \ {t} : stage'[x] = stage[x]
  BY <1>2
<1>4. UNCHANGED <<disk, line, written>>
  BY DEF persisted
<1>5. Fits(t)'
  BY <1>1, <1>2, <1>3, <1>4 DEF Fits, TaskOK, Active, Reviewing, Hook
<1>6. Alive'
  BY <1>1, <1>2, <1>3, <1>4, <1>5, StepOfOne DEF Alive, Consistent
<1>7. cut' \subseteq {x \in Tasks : stage'[x] # "none"}
  BY <1>2, <1>3 DEF IInv
<1> QED
  BY <1>1, <1>4, <1>6, <1>7 DEF IInv

LEMMA AskForSlotIInv ==
  ASSUME IInv, NEW t \in Tasks, BeginChecks(t) \/ BeginReview(t)
  PROVE  IInv'
<1>1. stage[t] \in {"hook", "checked"}
  BY DEF BeginChecks, BeginReview
<1>2. stage[t] \in Reviewing /\ stage[t] # "none"
  BY <1>1 DEF Reviewing, Hook
<1>3. up /\ Alive /\ Fits(t) /\ LoadOK(slots, parked)
  BY <1>2, ChainInFlight DEF Alive, Consistent
<1>4. t \notin slots /\ ~Contains(parked, t)
  BY <1>1, <1>3 DEF Fits, TaskOK, Heavy, Active, Waits
<1>5. /\ UNCHANGED <<persisted, up, draining, claim, held, cut, blocked, abandoning,
                     delivering, attaching>>
  BY DEF BeginChecks, BeginReview
<1>6. PICK v \in {"checks", "review", "checked", "checks_parked", "review_parked"} :
        /\ stage' = [stage EXCEPT ![t] = v]
        /\ \/ /\ v \in {"checks", "review"} /\ Free
              /\ slots' = slots \union {t} /\ parked' = parked
           \/ v = "checked" /\ slots' = slots /\ parked' = parked
           \/ /\ v \in {"checks_parked", "review_parked"}
              /\ slots' = slots /\ parked' = Append(parked, t)
  BY DEF BeginChecks, BeginReview, load
<1>7. v \in Reviewing
  BY DEF Reviewing, Hook
<1>8. /\ LoadOK(slots', parked')
      /\ \A x \in Tasks \ {t} : /\ x \in slots' <=> x \in slots
                                /\ Contains(parked', x) <=> Contains(parked, x)
      /\ t \in slots' <=> v \in Heavy
      /\ Contains(parked', t) <=> v \in Waits
  <2>1. CASE /\ v \in {"checks", "review"} /\ Free
             /\ slots' = slots \union {t} /\ parked' = parked
    BY <1>3, <1>4, <2>1, LoadGrows DEF Heavy, Waits
  <2>2. CASE v = "checked" /\ slots' = slots /\ parked' = parked
    BY <1>3, <1>4, <2>2 DEF Heavy, Active, Waits
  <2>3. CASE /\ v \in {"checks_parked", "review_parked"}
             /\ slots' = slots /\ parked' = Append(parked, t)
    <3>1. /\ LoadOK(slots, Append(parked, t))
          /\ \A x : Contains(Append(parked, t), x) <=> Contains(parked, x) \/ x = t
      BY <1>3, <1>4, LoadGrows
    <3> QED
      BY <1>4, <2>3, <3>1 DEF Heavy, Active, Waits
  <2> QED
    BY <1>6, <2>1, <2>2, <2>3
<1> QED
  BY <1>2, <1>5, <1>6, <1>7, <1>8, HookStep

LEMMA EndChecksIInv ==
  ASSUME IInv, NEW t \in Tasks, EndChecks(t)
  PROVE  IInv'
<1>1. stage[t] = "checks"
  BY DEF EndChecks
<1>2. stage[t] \in Reviewing /\ "checked" \in Reviewing /\ stage[t] \notin Waits \union {"none"}
  BY <1>1 DEF Reviewing, Hook, Waits
<1>3. PICK f \in Freed(t) : slots' = f.slots /\ parked' = f.parked
  BY DEF EndChecks
<1>4. /\ LoadOK(slots', parked')
      /\ \A x \in Tasks : x \notin slots' /\ ~Contains(parked', x)
      /\ \A x \in Tasks \ {t} : x \notin slots /\ ~Contains(parked, x)
  BY <1>2, <1>3, FreedInTheChain
<1>5. "checked" \notin Heavy /\ "checked" \notin Waits
  BY DEF Heavy, Active, Waits
<1> QED
  BY <1>2, <1>4, <1>5, HookStep DEF EndChecks

LEMMA HookEndsIInv ==
  ASSUME Faultless, IInv, NEW t \in Tasks, HookSettles(t) \/ HookRetries(t)
  PROVE  IInv'
<1>1. stage[t] \in {"hook", "checked", "review"}
  BY DEF HookSettles, HookRetries, Judged
<1>2. /\ up /\ LineOK(line) /\ held[t] \in Record
      /\ delivering \ {t} = delivering
      /\ stage[t] \notin Waits \union {"none"}
      /\ written \in BOOLEAN /\ blocked \subseteq Tasks
  BY <1>1, ChainInFlight DEF Waits, IInv
<1>3. CASE HookSettles(t)
  <2>1. PICK status \in {"interrupted", "waiting_for_you", "review_ok", "review_ko"} :
          Persist(t, As(t, status))
    BY <1>3 DEF HookSettles
  <2>2. status \in Status
    BY DEF Status
  <2>3. As(t, status) \in Record /\ As(t, status).status = status
    BY <2>2, AsTyped
  <2>4. PICK f \in Freed(t) : EndChain(t, line, f)
    BY <1>3 DEF HookSettles
  <2>5. UNCHANGED <<written, up, draining, blocked, abandoning, delivering, attaching>>
    BY <1>3 DEF HookSettles
  <2> QED
    BY <1>2, <2>1, <2>3, <2>4, <2>5, ChainEnds
<1>4. CASE HookRetries(t)
  <2>1. Replied(held[t]) \in Record /\ Replied(held[t]).status = "queued"
    BY <1>2, <1>4, RecordsWritten DEF HookRetries
  <2>2. PICK ok \in Writes, f \in Freed(t) :
          LET taken == Len(line) < QueueMax /\ ok
          IN  /\ written' = (written \/ taken)
              /\ EndChain(t, IF taken THEN Append(line, t) ELSE line, f)
    BY <1>4 DEF HookRetries
  <2> DEFINE l == IF Len(line) < QueueMax /\ ok THEN Append(line, t) ELSE line
  <2>3. LineOK(l) /\ \A x : Contains(l, x) => Contains(line, x) \/ x = t
    BY <1>2, <1>4, AppendToLine DEF HookRetries, InLine
  <2>4. EndChain(t, l, f) /\ written' \in BOOLEAN
    BY <1>2, <2>2 DEF Writes
  <2>5. /\ UNCHANGED <<up, draining, abandoning, delivering, attaching>>
        /\ blocked' \subseteq Tasks /\ Persist(t, Replied(held[t]))
    BY <1>2, <1>4 DEF HookRetries
  <2> HIDE DEF l
  <2> QED
    BY <1>2, <2>1, <2>3, <2>4, <2>5, ChainEnds
<1> QED
  BY <1>3, <1>4

LEMMA HookShipsIInv ==
  ASSUME IInv, NEW t \in Tasks, HookShips(t)
  PROVE  IInv'
<1>1. stage[t] \in {"hook", "checked", "review"}
  BY DEF HookShips, Judged
<1>2. /\ up /\ Alive /\ Fits(t) /\ LineOK(line)
      /\ stage[t] \notin Waits \union {"none"}
  BY <1>1, ChainInFlight DEF Waits
<1> DEFINE r == As(t, "review_ok")
<1>3. r \in Record /\ r.status = "review_ok"
  BY AsTyped DEF Status
<1> HIDE DEF r
<1>4. PICK f \in Freed(t) : slots' = f.slots /\ parked' = f.parked
  BY DEF HookShips
<1>5. /\ disk' = [disk EXCEPT ![t] = r] /\ held' = [held EXCEPT ![t] = r]
      /\ stage' = [stage EXCEPT ![t] = "shipping"]
      /\ delivering' = delivering \union {t}
      /\ UNCHANGED <<line, written, up, draining, claim, cut, blocked, abandoning,
                     attaching>>
  BY DEF HookShips, Persist, r
<1>6. /\ disk \in [Tasks -> Record] /\ held \in [Tasks -> Record]
      /\ stage \in [Tasks -> Stage] /\ delivering \subseteq Tasks
  BY <1>2 DEF Alive, Consistent
<1>7. /\ disk' \in [Tasks -> Record] /\ held' \in [Tasks -> Record]
      /\ stage' \in [Tasks -> Stage] /\ stage'[t] = "shipping"
      /\ disk'[t] = r /\ held'[t] = r /\ delivering' \subseteq Tasks /\ t \in delivering'
      /\ \A x \in Tasks \ {t} : /\ disk'[x] = disk[x] /\ held'[x] = held[x]
                                /\ stage'[x] = stage[x]
                                /\ x \in delivering' <=> x \in delivering
  BY <1>3, <1>5, <1>6 DEF Stage, Hook
<1>8. /\ LoadOK(slots', parked')
      /\ \A x \in Tasks : x \notin slots' /\ ~Contains(parked', x)
      /\ \A x \in Tasks \ {t} : x \notin slots /\ ~Contains(parked, x)
  BY <1>2, <1>4, FreedInTheChain
<1>9. Fits(t)'
  BY <1>2, <1>3, <1>5, <1>7, <1>8
  DEF Fits, TaskOK, Active, Reviewing, Hook, Heavy, Waits
<1>10. Alive'
  BY <1>2, <1>5, <1>7, <1>8, <1>9, StepOfOne DEF Alive, Consistent
<1>11. cut' \subseteq {x \in Tasks : stage'[x] # "none"}
  BY <1>5, <1>7 DEF IInv
<1> QED
  BY <1>2, <1>5, <1>10, <1>11 DEF IInv

LEMMA ShipIInv ==
  ASSUME IInv, NEW t \in Tasks, Ship(t)
  PROVE  IInv'
<1>1. /\ up /\ Alive /\ Fits(t) /\ LineOK(line)
      /\ t \notin delivering /\ abandoning[t] = "no"
      /\ disk[t].status \in {"review_ok", "review_ko"}
      /\ delivering' = delivering \union {t}
      /\ held' = [held EXCEPT ![t] = disk[t]]
      /\ UNCHANGED <<disk, line, written, up, draining, claim, stage, cut, slots,
                     parked, blocked, abandoning, attaching>>
  BY DEF Ship, IInv, Alive, Consistent, Fits, persisted, load
<1>2. stage[t] = "none"
  BY <1>1, Resting
<1>3. /\ disk \in [Tasks -> Record] /\ held \in [Tasks -> Record]
      /\ delivering \subseteq Tasks
  BY <1>1 DEF Alive, Consistent
<1>4. /\ held' \in [Tasks -> Record] /\ held'[t] = disk[t]
      /\ delivering' \subseteq Tasks /\ t \in delivering'
      /\ \A x \in Tasks \ {t} : /\ held'[x] = held[x]
                                /\ x \in delivering' <=> x \in delivering
  BY <1>1, <1>3
<1>5. Fits(t)'
  BY <1>1, <1>2, <1>4 DEF Fits, TaskOK
<1>6. Alive'
  BY <1>1, <1>3, <1>4, <1>5, StepOfOne DEF Alive, Consistent
<1> QED
  BY <1>1, <1>6 DEF IInv

LEMMA ShipLandsIInv ==
  ASSUME IInv, NEW t \in Tasks, ShipLands(t)
  PROVE  IInv'
<1> DEFINE r == As(t, "shipped")
<1>1. /\ t \in delivering /\ stage[t] \in {"none", "shipping"}
      /\ disk' = [disk EXCEPT ![t] = r]
      /\ UNCHANGED <<line, written, up, draining, claim, cut, slots, parked, blocked,
                     abandoning, attaching>>
  BY DEF ShipLands, Persist, load
<1>2. r \in Record /\ r.status = "shipped"
  BY AsTyped DEF Status
<1>3. up /\ Alive /\ Fits(t)
  BY <1>1 DEF IInv, Down, Alive, Consistent, Fits
<1>4. \/ /\ stage[t] = "none" /\ delivering' = delivering \ {t}
         /\ held' = [held EXCEPT ![t] = NoRecord] /\ stage' = stage
      \/ /\ stage[t] = "shipping" /\ delivering' = delivering
         /\ held' = [held EXCEPT ![t] = r]
         /\ stage' = [stage EXCEPT ![t] = "merging"]
  BY <1>1 DEF ShipLands
<1> HIDE DEF r
<1>5. /\ disk \in [Tasks -> Record] /\ held \in [Tasks -> Record]
      /\ stage \in [Tasks -> Stage] /\ delivering \subseteq Tasks
  BY <1>3 DEF Alive, Consistent
<1>6. /\ disk' \in [Tasks -> Record] /\ held' \in [Tasks -> Record]
      /\ stage' \in [Tasks -> Stage] /\ delivering' \subseteq Tasks
      /\ disk'[t] = r
      /\ \A x \in Tasks \ {t} : /\ disk'[x] = disk[x] /\ held'[x] = held[x]
                                /\ stage'[x] = stage[x]
                                /\ x \in delivering' <=> x \in delivering
  BY <1>1, <1>2, <1>4, <1>5, NoRecordTyped DEF Stage, Hook
<1>7. Fits(t)'
  <2>1. CASE stage[t] = "none"
    <3>1. stage'[t] = "none" /\ held'[t] = NoRecord /\ t \notin delivering'
      BY <1>4, <1>5, <2>1
    <3> QED
      BY <1>1, <1>2, <1>3, <1>6, <2>1, <3>1
      DEF Fits, TaskOK, Reviewing, Hook
  <2>2. CASE stage[t] = "shipping"
    <3>1. stage'[t] = "merging" /\ held'[t] = r /\ t \in delivering'
      BY <1>1, <1>4, <1>5, <2>2
    <3> QED
      BY <1>1, <1>2, <1>3, <1>6, <2>2, <3>1
      DEF Fits, TaskOK, Active, Reviewing, Hook, Heavy, Waits
  <2> QED
    BY <1>1, <2>1, <2>2
<1>8. Alive'
  BY <1>1, <1>3, <1>6, <1>7, StepOfOne DEF Alive, Consistent
<1>9. cut' \subseteq {x \in Tasks : stage'[x] # "none"}
  BY <1>1, <1>4, <1>5 DEF IInv
<1> QED
  BY <1>1, <1>3, <1>8, <1>9 DEF IInv

LEMMA ShipFailsIInv ==
  ASSUME IInv, NEW t \in Tasks, ShipFails(t)
  PROVE  IInv'
<1>1. /\ t \in delivering /\ stage[t] \in {"none", "shipping"}
      /\ delivering' = delivering \ {t}
      /\ UNCHANGED <<disk, written, up, draining, blocked, abandoning, attaching>>
  BY DEF ShipFails
<1>2. /\ up /\ Alive /\ Fits(t) /\ LineOK(line) /\ disk \in [Tasks -> Record]
      /\ held \in [Tasks -> Record] /\ delivering \subseteq Tasks
  BY <1>1 DEF IInv, Down, Alive, Consistent, Fits
<1>3. CASE stage[t] = "none"
  <2>1. /\ held' = [held EXCEPT ![t] = NoRecord]
        /\ UNCHANGED <<line, claim, stage, cut, slots, parked>>
    BY <1>3 DEF ShipFails, load
  <2>2. /\ held' \in [Tasks -> Record] /\ held'[t] = NoRecord
        /\ delivering' \subseteq Tasks /\ t \notin delivering'
        /\ \A x \in Tasks \ {t} : /\ held'[x] = held[x]
                                  /\ x \in delivering' <=> x \in delivering
    BY <1>1, <1>2, <2>1, NoRecordTyped
  <2>3. Fits(t)'
    BY <1>1, <1>2, <1>3, <2>1, <2>2 DEF Fits, TaskOK
  <2>4. Alive'
    BY <1>1, <1>2, <2>1, <2>2, <2>3, StepOfOne DEF Alive, Consistent
  <2> QED
    BY <1>1, <1>2, <2>1, <2>4 DEF IInv
<1>4. CASE stage[t] = "shipping"
  <2>1. PICK f \in Freed(t) : EndChain(t, line, f)
    BY <1>4 DEF ShipFails
  <2>2. stage[t] \notin Waits \union {"none"} /\ disk[t].status = "review_ok"
    BY <1>2, <1>4 DEF Waits, Fits, TaskOK
  <2>3. Persist(t, disk[t]) /\ disk[t] \in Record
    BY <1>1, <1>2 DEF Persist
  <2>4. written' \in BOOLEAN /\ blocked' \subseteq Tasks
    BY <1>1 DEF IInv
  <2> QED
    BY <1>1, <1>2, <2>1, <2>2, <2>3, <2>4, ChainEnds
<1> QED
  BY <1>1, <1>3, <1>4

LEMMA MergeSettlesIInv ==
  ASSUME IInv, NEW t \in Tasks, MergeSettles(t)
  PROVE  IInv'
<1>1. stage[t] = "merging"
  BY DEF MergeSettles
<1>2. /\ up /\ LineOK(line) /\ stage[t] \notin Waits \union {"none"}
      /\ written \in BOOLEAN /\ blocked \subseteq Tasks
  BY <1>1, ChainInFlight DEF Waits, IInv
<1>3. PICK status \in {"shipped", "waiting_for_you"} : Persist(t, As(t, status))
  BY DEF MergeSettles
<1>4. status \in Status
  BY DEF Status
<1>5. As(t, status) \in Record /\ As(t, status).status = status
  BY <1>4, AsTyped
<1>6. PICK f \in Freed(t) : EndChain(t, line, f)
  BY DEF MergeSettles
<1>7. /\ delivering' = delivering \ {t}
      /\ UNCHANGED <<written, up, draining, blocked, abandoning, attaching>>
  BY DEF MergeSettles
<1> QED
  BY <1>2, <1>3, <1>5, <1>6, <1>7, ChainEnds

LEMMA ValidateCriteriaIInv ==
  ASSUME IInv, NEW t \in Tasks, ValidateCriteria(t)
  PROVE  IInv'
<1> DEFINE r == [disk[t] EXCEPT !.criteria = TRUE]
<1>1. /\ up /\ Alive /\ Fits(t) /\ disk \in [Tasks -> Record]
      /\ disk' = [disk EXCEPT ![t] = r] /\ Criteria # {}
      /\ UNCHANGED <<line, written, up, draining, claim, stage, held, cut, slots, parked,
                     blocked, abandoning, delivering, attaching>>
  BY DEF ValidateCriteria, Persist, IInv, Alive, Consistent, Fits, load
<1>2. r \in Record /\ r.status = disk[t].status
  BY <1>1 DEF Record
<1> HIDE DEF r
<1>3. /\ disk' \in [Tasks -> Record] /\ disk'[t].status = disk[t].status
      /\ \A x \in Tasks \ {t} : disk'[x] = disk[x]
  BY <1>1, <1>2
<1>4. Fits(t)'
  BY <1>1, <1>3 DEF Fits, TaskOK
<1>5. Alive'
  BY <1>1, <1>3, <1>4, StepOfOne DEF Alive, Consistent
<1> QED
  BY <1>1, <1>5 DEF IInv

LEMMA OtherTakesIInv ==
  ASSUME IInv, NEW o \in Others, OtherTakes(o)
  PROVE  IInv'
<1>1. /\ up /\ Alive /\ LoadOK(slots, parked)
      /\ o \notin slots /\ ~Contains(parked, o)
      /\ \/ Free /\ slots' = slots \union {o} /\ parked' = parked
         \/ slots' = slots /\ parked' = Append(parked, o)
      /\ UNCHANGED <<disk, line, written, up, draining, claim, stage, held, cut, blocked,
                     abandoning, delivering, attaching>>
  BY DEF OtherTakes, IInv, Alive, Consistent, persisted
<1>2. /\ LoadOK(slots', parked')
      /\ \A x \in Tasks : /\ x \in slots' <=> x \in slots
                          /\ Contains(parked', x) <=> Contains(parked, x)
  <2>1. /\ Free => LoadOK(slots \union {o}, parked)
        /\ LoadOK(slots, Append(parked, o))
        /\ \A x : Contains(Append(parked, o), x) <=> Contains(parked, x) \/ x = o
    BY <1>1, LoadGrows
  <2>2. \A x \in Tasks : x # o
    BY ClientsApart
  <2> QED
    BY <1>1, <2>1, <2>2
<1>3. ASSUME NEW x \in Tasks PROVE Fits(x)'
  <2>1. Fits(x)
    BY <1>1 DEF Alive, Consistent, Fits
  <2> QED
    BY <1>1, <1>2, <2>1 DEF Fits, TaskOK
<1>4. Alive'
  BY <1>1, <1>2, <1>3 DEF Alive, Consistent, Fits
<1> QED
  BY <1>1, <1>4 DEF IInv

\* A slot freed elsewhere is handed to the waiter at the head, a task of this
\* project or not, or wakes the pump.
LEMMA OtherReleasesIInv ==
  ASSUME IInv, NEW o \in Others, OtherReleases(o)
  PROVE  IInv'
<1>1. /\ up /\ Alive /\ LoadOK(slots, parked) /\ o \in slots
      /\ UNCHANGED <<disk, written, up, draining, cut, blocked, abandoning,
                     delivering, attaching>>
  BY DEF OtherReleases, IInv, Down, Alive, Consistent
<1>2. PICK f \in Freed(o) :
        /\ parked' = f.parked
        /\ Pump(line, claim, f.slots,
                [t \in Tasks |-> IF stage[t] \in Waits /\ t \in f.slots
                                   THEN Served[stage[t]] ELSE stage[t]],
                held)
  BY DEF OtherReleases
<1> DEFINE st == [t \in Tasks |-> IF stage[t] \in Waits /\ t \in f.slots
                                    THEN Served[stage[t]] ELSE stage[t]]
<1>3. LoadOK(f.slots, f.parked)
  BY <1>1, FreedEffect
<1>4. ASSUME NEW x \in Tasks
      PROVE  \/ /\ x \in f.slots <=> x \in slots
                /\ Contains(f.parked, x) <=> Contains(parked, x)
             \/ x \in f.slots /\ Contains(parked, x) /\ ~Contains(f.parked, x)
  <2>1. x # o /\ x \notin Others
    BY ClientsApart
  <2> QED
    BY <1>1, <2>1, FreedEffect
<1>5. ASSUME NEW x \in Tasks
      PROVE  \/ /\ st[x] = stage[x]
                /\ x \in f.slots <=> x \in slots
                /\ Contains(f.parked, x) <=> Contains(parked, x)
             \/ /\ stage[x] \in Waits /\ st[x] \in {"checks", "review"}
                /\ x \in f.slots /\ ~Contains(f.parked, x)
  <2>1. Fits(x)
    BY <1>1 DEF Alive, Consistent, Fits
  <2>2. stage[x] \in Waits => x \notin slots
    BY <2>1 DEF Fits, TaskOK, Heavy, Active, Waits
  <2>3. Contains(parked, x) <=> stage[x] \in Waits
    BY <2>1 DEF Fits, TaskOK
  <2>4. stage[x] \in Waits => Served[stage[x]] \in {"checks", "review"}
    BY DEF Waits, Served
  <2> QED
    BY <1>4, <2>2, <2>3, <2>4
<1>6. \A x \in Tasks : stage[x] \in Stage /\ Fits(x)
  BY <1>1 DEF Alive, Consistent, Fits
<1>7. st \in [Tasks -> Stage]
  <2>1. ASSUME NEW x \in Tasks PROVE st[x] \in Stage
    BY <1>5, <1>6 DEF Stage, Hook
  <2> QED
    BY <2>1
<1> HIDE DEF st
<1>8. ASSUME NEW x \in Tasks
      PROVE  TaskOK(x, disk', line, claim, st, held, abandoning', delivering', f.slots, parked')
  <2>1. CASE /\ st[x] = stage[x]
             /\ x \in f.slots <=> x \in slots
             /\ Contains(f.parked, x) <=> Contains(parked, x)
    BY <1>1, <1>2, <1>6, <2>1 DEF Fits, TaskOK
  <2>2. CASE /\ stage[x] \in Waits /\ st[x] \in {"checks", "review"}
             /\ x \in f.slots /\ ~Contains(f.parked, x)
    BY <1>1, <1>2, <1>6, <2>2
    DEF Fits, TaskOK, Heavy, Active, Waits, Reviewing, Hook
  <2> QED
    BY <1>5, <2>1, <2>2
<1>9. Consistent(disk', line, claim, st, held, abandoning', delivering', f.slots, parked')
  BY <1>1, <1>2, <1>3, <1>7, <1>8 DEF Alive, Consistent
<1>10. Pump(line, claim, f.slots, st, held)
  BY <1>2 DEF st
<1>11. Alive' /\ \A x \in Tasks : st[x] # "none" => stage'[x] # "none"
  BY <1>9, <1>10, PumpConsistent
<1>12. \A x \in Tasks : stage[x] # "none" => st[x] # "none"
  BY <1>5
<1> QED
  BY <1>1, <1>11, <1>12 DEF IInv

LEMMA ShutdownIInv ==
  ASSUME IInv, Shutdown
  PROVE  IInv'
<1>1. /\ up /\ Alive /\ LoadOK(slots, parked)
      /\ draining' = TRUE
      /\ cut' = {t \in Tasks : stage[t] # "none"}
      /\ parked' = Only(parked, Others)
      /\ stage' = [t \in Tasks |-> IF stage[t] \in Waits THEN "checked" ELSE stage[t]]
      /\ UNCHANGED <<disk, line, written, up, claim, held, slots, blocked, abandoning,
                     delivering, attaching>>
  BY DEF Shutdown, IInv, Alive, Consistent, persisted
<1>2. LoadOK(slots', parked') /\ \A x \in Tasks : ~Contains(parked', x)
  BY <1>1, OnlyProperties, ClientsApart DEF LoadOK
<1>3. ASSUME NEW x \in Tasks PROVE Fits(x)' /\ stage'[x] \in Stage
  <2>1. Fits(x) /\ stage[x] \in Stage
    BY <1>1 DEF Alive, Consistent, Fits
  <2>2. stage'[x] = IF stage[x] \in Waits THEN "checked" ELSE stage[x]
    BY <1>1
  <2>3. CASE stage[x] \in Waits
    BY <1>1, <1>2, <2>1, <2>2, <2>3
    DEF Fits, TaskOK, Heavy, Active, Waits, Reviewing, Hook, Stage
  <2>4. CASE stage[x] \notin Waits
    BY <1>1, <1>2, <2>1, <2>2, <2>4 DEF Fits, TaskOK
  <2> QED
    BY <2>3, <2>4
<1>4. stage' \in [Tasks -> Stage]
  BY <1>1, <1>3
<1>5. Alive'
  BY <1>1, <1>2, <1>3, <1>4 DEF Alive, Consistent, Fits
<1>6. cut' \subseteq {x \in Tasks : stage'[x] # "none"}
  BY <1>1
<1> QED
  BY <1>1, <1>5, <1>6 DEF IInv

LEMMA CrashIInv ==
  ASSUME IInv, \/ Crash
               \/ \E t \in Tasks : CrashWhileScheduling(t) \/ CrashWhileLeaving(t)
  PROVE  IInv'
<1>1. Dies
  BY DEF Crash, CrashWhileScheduling, CrashWhileLeaving
<1>2. up /\ disk \in [Tasks -> Record] /\ LineOK(line)
  BY <1>1 DEF Dies, IInv, Alive, Consistent
<1>3. disk' \in [Tasks -> Record] /\ LineOK(line') /\ written' = written
  <2>1. CASE Crash
    BY <1>2, <2>1 DEF Crash, persisted
  <2>2. CASE \E t \in Tasks : CrashWhileScheduling(t)
    <3>1. PICK t \in Tasks : CrashWhileScheduling(t)
      BY <2>2
    <3>2. CanReply(t) => disk[t].turn < MaxTurns
      BY DEF CanReply
    <3>3. PICK r \in Record : Persist(t, r)
      BY <1>2, <3>1, <3>2, RecordsWritten DEF CrashWhileScheduling
    <3> QED
      BY <1>2, <3>1, <3>3 DEF CrashWhileScheduling, Persist
  <2>3. CASE \E t \in Tasks : CrashWhileLeaving(t)
    BY <1>2, <2>3, WithoutDrops DEF CrashWhileLeaving
  <2> QED
    BY <2>1, <2>2, <2>3
<1>4. Down'
  BY <1>1, <1>3 DEF Dies, Down
<1> QED
  BY <1>1, <1>3, <1>4 DEF Dies, IInv

\* What a boot makes of the line, whatever the records say.
LEMMA BootedLine ==
  ASSUME NEW l, LineOK(l), NEW Q \in SUBSET Tasks,
         NEW tail \in SetToSeqs({t \in Q : ~Contains(l, t)})
  PROVE  LineOK(SubSeq(Only(l, Q) \o tail, 1, Min({QueueMax, Len(Only(l, Q) \o tail)})))
<1> DEFINE orphans == {t \in Q : ~Contains(l, t)}
           kept == Only(l, Q)
           n == Cardinality(orphans)
           s == kept \o tail
           m == Min({QueueMax, Len(s)})
<1>1. IsFiniteSet(orphans) /\ n \in Nat
  BY TasksFinite, FS_Subset, FS_CardinalityType
<1>2. /\ tail \in [1..n -> orphans]
      /\ \A i, j \in 1..n : i # j => tail[i] # tail[j]
  BY DEF SetToSeqs
<1>3. tail \in Seq(Tasks) /\ IsInjective(tail) /\ Len(tail) = n
  <2>1. tail \in [1..n -> Tasks] /\ DOMAIN tail = 1..n
    BY <1>2
  <2>2. tail \in Seq(Tasks) /\ Len(tail) = n
    <3>1. ASSUME NEW k \in Nat, NEW f \in [1..k -> Tasks]
          PROVE  f \in Seq(Tasks) /\ Len(f) = k
      OBVIOUS
    <3> HIDE DEF n
    <3> QED
      BY <1>1, <2>1, <3>1
  <2> QED
    BY <1>2, <2>1, <2>2 DEF IsInjective
<1>4. /\ kept \in Seq(Tasks) /\ IsInjective(kept)
      /\ \A x : Contains(kept, x) => Contains(l, x)
  BY OnlyOfLine DEF LineOK
<1>5. \A i \in 1..Len(tail) : ~Contains(kept, tail[i])
  BY <1>2, <1>3, <1>4
<1> HIDE DEF orphans, kept, n
<1>6. s \in Seq(Tasks) /\ IsInjective(s)
  BY <1>3, <1>4, <1>5, ConcatFresh
<1>7. Len(s) \in Nat /\ QueueMax \in Nat
  BY <1>6, LenProperties, QueueMaxPositive
<1> HIDE DEF s
<1>8. m \in 0..Len(s) /\ m <= QueueMax
  <2>1. \E x \in {QueueMax, Len(s)} : \A y \in {QueueMax, Len(s)} : x <= y
    BY <1>7
  <2>2. m \in {QueueMax, Len(s)} /\ \A y \in {QueueMax, Len(s)} : m <= y
    BY <2>1 DEF Min
  <2> QED
    BY <1>7, <2>2
<1> HIDE DEF m
<1>9. LineOK(SubSeq(s, 1, m))
  BY <1>6, <1>8, PrefixInjective DEF LineOK
<1> QED
  BY <1>9 DEF s, m, kept

LEMMA BootIInv ==
  ASSUME IInv, Boot
  PROVE  IInv'
<1>1. /\ ~up /\ up' = TRUE /\ Down
      /\ UNCHANGED <<written, draining, cut, parked, blocked, abandoning, delivering,
                     attaching>>
  BY DEF Boot, IInv
<1>2. PICK lost \in SUBSET Tasks :
        disk' = [t \in Tasks |-> [disk[t] EXCEPT !.status =
                  CASE t \in lost -> "failed"
                    [] t \notin lost /\ @ \in {"running", "reviewing"} -> "interrupted"
                    [] @ = "queued" /\ ~written -> "interrupted"
                    [] OTHER -> @]]
  BY DEF Boot
<1>3. ASSUME NEW t \in Tasks
      PROVE  disk'[t] \in Record /\ disk'[t].status \notin {"running", "reviewing"}
  <2>1. disk[t] \in Record /\ disk[t].status \in Status
    BY <1>1 DEF Down, Record
  <2>2. PICK status \in Status \ {"running", "reviewing"} :
          disk'[t] = [disk[t] EXCEPT !.status = status]
    <3>1. CASE t \in lost
      BY <1>2, <3>1 DEF Status
    <3>2. CASE t \notin lost /\ disk[t].status \in {"running", "reviewing"}
      BY <1>2, <3>2 DEF Status
    <3>3. CASE /\ t \notin lost /\ disk[t].status \notin {"running", "reviewing"}
               /\ disk[t].status = "queued" /\ ~written
      BY <1>2, <3>3 DEF Status
    <3>4. CASE /\ t \notin lost /\ disk[t].status \notin {"running", "reviewing"}
               /\ ~ (disk[t].status = "queued" /\ ~written)
      BY <1>2, <2>1, <3>4
    <3> QED
      BY <3>1, <3>2, <3>3, <3>4
  <2> QED
    BY <2>1, <2>2, StatusTyped
<1>4. disk' \in [Tasks -> Record]
  BY <1>2, <1>3
<1> DEFINE Q == {t \in Tasks : disk'[t].status = "queued"}
<1>5. PICK tail \in SetToSeqs({t \in Q : ~Contains(line, t)}) :
        Pump(SubSeq(Only(line, Q) \o tail, 1, Min({QueueMax, Len(Only(line, Q) \o tail)})),
             claim, slots, stage, held)
  BY DEF Boot, InLine
<1> DEFINE l == SubSeq(Only(line, Q) \o tail, 1, Min({QueueMax, Len(Only(line, Q) \o tail)}))
<1>6. LineOK(l)
  <2>1. LineOK(line) /\ Q \in SUBSET Tasks
    BY <1>1 DEF Down
  <2> HIDE DEF Q
  <2> QED
    BY <2>1, BootedLine
<1>7. Pump(l, claim, slots, stage, held)
  BY <1>5
<1> HIDE DEF Q, l
<1>8. ASSUME NEW x \in Tasks
      PROVE  TaskOK(x, disk', l, claim, stage, held, abandoning', delivering', slots, parked')
  <2>1. /\ claim # x /\ stage[x] = "none" /\ held[x] = NoRecord
        /\ abandoning'[x] = "no" /\ x \notin delivering' /\ x \notin slots
        /\ ~Contains(parked', x)
    BY <1>1, NoneIsNoTask, EmptyLoad DEF Down
  <2> QED
    BY <1>3, <2>1 DEF TaskOK, Reviewing, Hook, Heavy, Active, Waits
<1>9. Consistent(disk', l, claim, stage, held, abandoning', delivering', slots, parked')
  BY <1>1, <1>4, <1>6, <1>8, NoRecordTyped, EmptyLoad DEF Down, Consistent, Stage
<1>10. Alive' /\ \A x \in Tasks : stage[x] # "none" => stage'[x] # "none"
  BY <1>7, <1>9, PumpConsistent
<1> QED
  BY <1>1, <1>10 DEF IInv

\* Nobody takes a repository in.
LEMMA NoAttach ==
  ASSUME Faultless, IInv, NEW t \in Tasks
  PROVE  ~AttachBegin(t) /\ ~AttachEnd(t)
BY DEF Faultless, IInv, AttachBegin, AttachEnd

LEMMA StutterIInv ==
  ASSUME IInv, UNCHANGED vars
  PROVE  IInv'
BY DEF IInv, vars, Alive, Down

LEMMA NextIInv ==
  ASSUME Faultless, IInv, [Next]_vars
  PROVE  IInv'
<1>1. CASE \E t \in Tasks : Gesture(t)
  <2>1. PICK t \in Tasks : Gesture(t)
    BY <1>1
  <2>2. CASE Create(t) \/ Reply(t) \/ Resume(t)
    BY <2>2, AskIInv
  <2>3. CASE CreateWhileDraining(t)
    BY <2>3, CreateWhileDrainingIInv
  <2>4. CASE InterruptTurn(t) \/ InterruptWaiting(t)
    BY <2>4, InterruptIInv
  <2>5. CASE AbandonBegin(t)
    BY <2>5, AbandonBeginIInv
  <2>6. CASE Ship(t)
    BY <2>6, ShipIInv
  <2>7. CASE ValidateCriteria(t)
    BY <2>7, ValidateCriteriaIInv
  <2>8. CASE AttachBegin(t)
    BY <2>8, NoAttach
  <2> QED
    BY <2>1, <2>2, <2>3, <2>4, <2>5, <2>6, <2>7, <2>8 DEF Gesture
<1>2. CASE \E t \in Tasks : Chain(t)
  <2>1. PICK t \in Tasks : Chain(t)
    BY <1>2
  <2>2. CASE Materialized(t)
    BY <2>2, MaterializedIInv
  <2>3. CASE MaterializedTooLate(t) \/ MaterializeFails(t) \/ MaterializeBlocks(t)
    BY <2>3, MaterializingIInv
  <2>4. CASE AgentFails(t) \/ AgentAsks(t)
    BY <2>4, AgentEndsIInv
  <2>5. CASE AgentDone(t)
    BY <2>5, AgentDoneIInv
  <2>6. CASE BeginChecks(t) \/ BeginReview(t)
    BY <2>6, AskForSlotIInv
  <2>7. CASE EndChecks(t)
    BY <2>7, EndChecksIInv
  <2>8. CASE HookSettles(t) \/ HookRetries(t)
    BY <2>8, HookEndsIInv
  <2>9. CASE HookShips(t)
    BY <2>9, HookShipsIInv
  <2>10. CASE ShipLands(t)
    BY <2>10, ShipLandsIInv
  <2>11. CASE ShipFails(t)
    BY <2>11, ShipFailsIInv
  <2>12. CASE MergeSettles(t)
    BY <2>12, MergeSettlesIInv
  <2> QED
    BY <2>1, <2>2, <2>3, <2>4, <2>5, <2>6, <2>7, <2>8, <2>9, <2>10, <2>11, <2>12
    DEF Chain
<1>3. CASE \E t \in Tasks : Removal(t)
  BY <1>3, AbandonEndIInv, AbandonFailsIInv DEF Removal
<1>4. CASE \E t \in Tasks : AttachEnd(t)
  BY <1>4, NoAttach
<1>5. CASE \E o \in Others : OtherTakes(o) \/ OtherReleases(o)
  BY <1>5, OtherTakesIInv, OtherReleasesIInv
<1>6. CASE Shutdown
  BY <1>6, ShutdownIInv
<1>7. CASE Crash \/ \E t \in Tasks : CrashWhileScheduling(t) \/ CrashWhileLeaving(t)
  BY <1>7, CrashIInv
<1>8. CASE Boot
  BY <1>8, BootIInv
<1>9. CASE UNCHANGED vars
  BY <1>9, StutterIInv
<1> QED
  BY <1>1, <1>2, <1>3, <1>4, <1>5, <1>6, <1>7, <1>8, <1>9 DEF Next

-----------------------------------------------------------------------------
(***************************************************************************)
(* What the invariant says in every state.                                 *)
(***************************************************************************)
LEMMA IInvHolds == Faultless => (Spec => []IInv)
<1> SUFFICES ASSUME Faultless PROVE Spec => []IInv
  OBVIOUS
<1>1. Init => IInv
  BY InitIInv
<1>2. IInv /\ [Next]_vars => IInv'
  BY NextIInv
<1> QED
  BY <1>1, <1>2, PTL DEF Spec

\* Every task's facts, whether the process is up or down.
LEMMA IInvFits ==
  ASSUME IInv, NEW t \in Tasks
  PROVE  /\ claim = t <=> stage[t] # "none"
         /\ abandoning[t] # "no" => stage[t] = "none" /\ t \notin delivering
         /\ t \in slots <=> stage[t] \in Heavy
         /\ Contains(parked, t) <=> stage[t] \in Waits
         /\ Criteria = {} /\ held[t] # NoRecord => held[t] = disk[t]
<1>1. CASE up
  <2>1. Fits(t)
    BY <1>1 DEF IInv, Alive, Consistent, Fits
  <2> QED
    BY <2>1 DEF Fits, TaskOK
<1>2. CASE ~up
  <2>1. /\ claim # t /\ stage[t] = "none" /\ abandoning[t] = "no" /\ t \notin slots
        /\ ~Contains(parked, t) /\ held[t] = NoRecord
    BY <1>2, NoneIsNoTask, EmptyLoad DEF IInv, Down
  <2> QED
    BY <2>1 DEF Heavy, Active, Waits
<1> QED
  BY <1>1, <1>2

\* Types: no task outspends its turns, the line names no task twice and keeps
\* its bound, nobody waits twice for a slot.
THEOREM TypesHold == Faultless => (Spec => []TypeOK)
<1> SUFFICES ASSUME Faultless PROVE Spec => []TypeOK
  OBVIOUS
<1>1. IInv => TypeOK
  <2> SUFFICES ASSUME IInv PROVE TypeOK
    OBVIOUS
  <2> DEFINE Rest == /\ disk \in [Tasks -> Record] /\ LineOK(line)
                    /\ claim \in Tasks \union {None}
                    /\ stage \in [Tasks -> Stage] /\ held \in [Tasks -> Record]
                    /\ abandoning \in [Tasks -> {"no", "out", "in_line"}]
                    /\ delivering \subseteq Tasks /\ LoadOK(slots, parked)
  <2>1. ASSUME up PROVE Rest
    BY <2>1 DEF IInv, Alive, Consistent
  <2>2. ASSUME ~up PROVE Rest
    BY <2>2, EmptyLoad, NoRecordTyped DEF IInv, Down, Stage
  <2>3. Rest
    BY <2>1, <2>2
  <2>4. attaching \in [Tasks -> Record]
    BY NoRecordTyped DEF IInv
  <2>5. /\ cut \subseteq {t \in Tasks : stage[t] # "none"}
        /\ written \in BOOLEAN /\ up \in BOOLEAN /\ draining \in BOOLEAN
        /\ blocked \subseteq Tasks
    BY DEF IInv
  <2> QED
    BY <2>3, <2>4, <2>5 DEF TypeOK, LineOK, LoadOK
<1> QED
  BY <1>1, IInvHolds, PTL

\* One active task per project: the claim covers a task's whole active window,
\* from the worktree to the merge, and nothing else, so no two tasks of a
\* project are ever at work at once.
THEOREM ProjectIsExclusive == Faultless => (Spec => []ClaimIsTheWork)
<1> SUFFICES ASSUME Faultless PROVE Spec => []ClaimIsTheWork
  OBVIOUS
<1>1. IInv => ClaimIsTheWork
  BY IInvFits DEF ClaimIsTheWork
<1> QED
  BY <1>1, IInvHolds, PTL

\* No turn and no push ever runs on a worktree that is being deleted.
THEOREM AbandonIsAlone == Faultless => (Spec => []NothingUnderAbandon)
<1> SUFFICES ASSUME Faultless PROVE Spec => []NothingUnderAbandon
  OBVIOUS
<1>1. IInv => NothingUnderAbandon
  BY IInvFits DEF NothingUnderAbandon
<1> QED
  BY <1>1, IInvHolds, PTL

\* The machine's cap holds, and a chain has a slot exactly while it runs a
\* heavy process and waits in the FIFO exactly while it asks for one.
THEOREM SlotsAreTheWork == Faultless => (Spec => []SlotsFollowTheWork)
<1> SUFFICES ASSUME Faultless PROVE Spec => []SlotsFollowTheWork
  OBVIOUS
<1>1. ASSUME IInv PROVE SlotsFollowTheWork
  <2>1. ASSUME up PROVE LoadOK(slots, parked)
    BY <1>1, <2>1 DEF IInv, Alive, Consistent
  <2>2. ASSUME ~up PROVE LoadOK(slots, parked)
    BY <1>1, <2>2, EmptyLoad DEF IInv, Down
  <2>3. LoadOK(slots, parked)
    BY <2>1, <2>2
  <2> QED
    BY <1>1, <2>3, IInvFits DEF SlotsFollowTheWork, LoadOK, Heavy
<1> QED
  BY <1>1, IInvHolds, PTL

\* No status without a way out: 'running' means an agent at work and
\* 'reviewing' a hook in flight, after any crash, abort or refusal.
THEOREM StatusIsTold == Faultless => (Spec => []StatusTellsTheStage)
<1> SUFFICES ASSUME Faultless PROVE Spec => []StatusTellsTheStage
  OBVIOUS
<1>1. IInv => StatusTellsTheStage
  BY DEF IInv, Alive, Consistent, TaskOK, StatusTellsTheStage, Reviewing
<1> QED
  BY <1>1, IInvHolds, PTL

\* With no criteria validated meanwhile, the records held across the awaits of
\* a chain or of a ship are the ones on disk: they overwrite nothing.
THEOREM HeldRecordsAreCurrent ==
  Faultless /\ Criteria = {} => (Spec => []HeldIsCurrent)
<1> SUFFICES ASSUME Faultless, Criteria = {} PROVE Spec => []HeldIsCurrent
  OBVIOUS
<1>1. IInv => HeldIsCurrent
  BY IInvFits DEF HeldIsCurrent
<1> QED
  BY <1>1, IInvHolds, PTL

\* Types, claim, statuses and slots in one: the runner tells one story of every
\* chain, whatever crashed, was aborted or refused before.
THEOREM RunnerHolds == Faultless => (Spec => []RunnerIsSound)
<1> SUFFICES ASSUME Faultless PROVE Spec => []RunnerIsSound
  OBVIOUS
<1>1. Spec => []TypeOK
  BY TypesHold
<1>2. Spec => []ClaimIsTheWork
  BY ProjectIsExclusive
<1>3. Spec => []StatusTellsTheStage
  BY StatusIsTold
<1>4. Spec => []SlotsFollowTheWork
  BY SlotsAreTheWork
<1> QED
  BY <1>1, <1>2, <1>3, <1>4, PTL DEF RunnerIsSound

-----------------------------------------------------------------------------
(***************************************************************************)
(* What the pump does of the tasks that wait.                              *)
(***************************************************************************)

\* No runnable entry stands before the one the pump looks at.
LEMMA NextRunnableIsFirst ==
  ASSUME NEW l, LineOK(l), NEW i \in 1..Len(l),
         l[i] \notin blocked', disk'[l[i]].status = "queued"
  PROVE  NextRunnable(l) \in 1..Len(l) /\ NextRunnable(l) <= i
<1> DEFINE R == {j \in 1..Len(l) : l[j] \notin blocked' /\ disk'[l[j]].status = "queued"}
                  \union {Len(l) + 1}
<1>1. Len(l) \in Nat
  BY LenProperties DEF LineOK
<1>2. R \in SUBSET Nat /\ i \in R
  BY <1>1
<1>3. \E x \in R : \A y \in R : x <= y
  BY <1>2, LeastOfNats
<1>4. Min(R) \in R /\ Min(R) <= i
  BY <1>2, <1>3 DEF Min
<1>5. NextRunnable(l) = Min(R)
  BY DEF NextRunnable
<1> HIDE DEF R
<1>6. NextRunnable(l) \in Nat /\ NextRunnable(l) <= i
  BY <1>2, <1>4, <1>5
<1>7. NextRunnable(l) \in 1..Len(l) \/ NextRunnable(l) = Len(l) + 1
  BY <1>4, <1>5 DEF R
<1> QED
  BY <1>1, <1>6, <1>7

\* The sweep drops no task that still waits for its turn.
LEMMA PumpKeepsQueued ==
  ASSUME NEW l, LineOK(l), NEW c, NEW s, NEW st, NEW h, Pump(l, c, s, st, h),
         NEW t, Contains(l, t), disk'[t].status = "queued"
  PROVE  Contains(line', t)
<1>1. CASE line' = l
  BY <1>1
<1>2. CASE line' = Swept(l)
  <2> DEFINE S == blocked' \union {l[i] : i \in NextRunnable(l)..Len(l)}
  <2>1. Contains(line', t) <=> Contains(l, t) /\ t \in S
    BY <1>2, OnlyOfLine DEF Swept
  <2>2. CASE t \in blocked'
    BY <2>1, <2>2
  <2>3. CASE t \notin blocked'
    <3>1. PICK i \in 1..Len(l) : l[i] = t
      BY DEF Contains
    <3>2. NextRunnable(l) \in 1..Len(l) /\ NextRunnable(l) <= i /\ Len(l) \in Nat
      BY <2>3, <3>1, NextRunnableIsFirst, LenProperties DEF LineOK
    <3>3. i \in NextRunnable(l)..Len(l)
      BY <3>2
    <3> QED
      BY <2>1, <3>1, <3>3
  <2> QED
    BY <2>2, <2>3
<1> QED
  BY <1>1, <1>2 DEF Pump

\* After a pump that nobody was draining, a project and a machine both free
\* mean that what is left in line is blocked.
LEMMA PumpLeavesNoWork ==
  ASSUME NEW l, LineOK(l), NEW c \in Tasks \union {None},
         NEW s \in SUBSET (Tasks \union Others), NEW st, NEW h, Pump(l, c, s, st, h),
         ~draining, claim' = None, Cardinality(slots') < Cap,
         NEW t, Contains(line', t), disk'[t].status = "queued"
  PROVE  t \in blocked'
<1>1. c = None
  BY DEF Pump
<1>2. NextRunnable(l) > Len(l) \/ Cardinality(s) >= Cap
  <2> SUFFICES ASSUME ~ (NextRunnable(l) > Len(l)), ~ (Cardinality(s) >= Cap)
               PROVE  FALSE
    OBVIOUS
  <2>1. claim' = l[NextRunnable(l)] /\ l[NextRunnable(l)] \in Tasks
    BY <1>1, NextRunnableProperties DEF Pump
  <2> QED
    BY <2>1, NoneIsNoTask
<1>3. slots' = s
  BY <1>1, <1>2 DEF Pump
<1>4. ~ (Cardinality(s) >= Cap)
  BY <1>3, HoldersFinite, CapPositive
<1>5. NextRunnable(l) > Len(l)
  BY <1>2, <1>4
<1>6. Contains(l, t)
  BY PumpEffect
<1>7. PICK i \in 1..Len(l) : l[i] = t
  BY <1>6 DEF Contains
<1>8. ASSUME t \notin blocked' PROVE FALSE
  <2>1. NextRunnable(l) \in 1..Len(l) /\ Len(l) \in Nat
    BY <1>7, <1>8, NextRunnableIsFirst, LenProperties DEF LineOK
  <2> QED
    BY <1>5, <2>1
<1> QED
  BY <1>8

\* A line that names no task twice is no longer than there are tasks to name.
LEMMA InjectiveIsShort ==
  ASSUME NEW T, IsFiniteSet(T), NEW l \in Seq(T), IsInjective(l)
  PROVE  Len(l) <= Cardinality(T)
<1> DEFINE D == 1..Len(l)
<1>1. /\ Len(l) \in Nat /\ Cardinality(T) \in Nat
      /\ DOMAIN l = D /\ \A i \in D : l[i] \in T
  BY LenProperties, ElementOfSeq, FS_CardinalityType
<1>2. IsFiniteSet(D) /\ Cardinality(D) = Len(l)
  <2>1. /\ IsFiniteSet(1..Len(l))
        /\ Cardinality(1..Len(l)) = IF 1 > Len(l) THEN 0 ELSE Len(l) - 1 + 1
    <3>1. 1 \in Int /\ Len(l) \in Int
      BY <1>1
    <3> QED
      BY ONLY <3>1, FS_Interval
  <2> QED
    BY <1>1, <2>1
<1>3. l \in [D -> T]
  <2>1. l = [i \in D |-> l[i]]
    BY <1>1
  <2> QED
    BY <1>1, <2>1
<1>4. \A i, j \in D : i # j => l[i] # l[j]
  BY <1>1 DEF IsInjective
<1> HIDE DEF D
<1>5. ~ (Cardinality(T) < Cardinality(D))
  BY <1>2, <1>3, <1>4, FS_PigeonHole
<1> QED
  BY <1>1, <1>2, <1>5

\* A line that lacks a task has room for it, when it is as long as there are
\* tasks.
LEMMA RoomForOneMore ==
  ASSUME Cardinality(Tasks) <= QueueMax, NEW l, LineOK(l), NEW t \in Tasks, ~Contains(l, t)
  PROVE  Len(l) < QueueMax
<1> DEFINE R == Tasks \ {t}
<1>1. /\ Len(l) \in Nat /\ QueueMax \in Nat /\ l \in [1..Len(l) -> Tasks]
      /\ DOMAIN l = 1..Len(l) /\ IsInjective(l)
  BY LenProperties, QueueMaxPositive DEF LineOK
<1>2. /\ IsFiniteSet(R) /\ Cardinality(R) = Cardinality(Tasks) - 1
      /\ Cardinality(Tasks) \in Nat
  BY TasksFinite, FS_RemoveElement, FS_CardinalityType
<1>3. l \in Seq(R)
  <2>1. \A i \in 1..Len(l) : l[i] \in R
    BY <1>1 DEF Contains
  <2> QED
    BY <1>1, <2>1, IsASeq
<1> HIDE DEF R
<1>4. Len(l) <= Cardinality(R)
  BY <1>1, <1>2, <1>3, InjectiveIsShort
<1> QED
  BY <1>1, <1>2, <1>4

-----------------------------------------------------------------------------
(***************************************************************************)
(* The invariant of the tasks that wait. A line with room for every task   *)
(* holds whoever says 'queued', or an abandon will put it back there; and  *)
(* no task is left in line beside a free project and a free machine.       *)
(***************************************************************************)
Roomy == Cardinality(Tasks) <= QueueMax

Placed(d, l, a) ==
  \A t \in Tasks : d[t].status = "queued" => Contains(l, t) \/ a[t] = "in_line"

QInv == (Roomy /\ up => Placed(disk, line, abandoning)) /\ NeverIdleWithWork

\* Any pump leaves it so.
LEMMA PumpQ ==
  ASSUME NEW l, LineOK(l), NEW c \in Tasks \union {None},
         NEW s \in SUBSET (Tasks \union Others), NEW st, NEW h, Pump(l, c, s, st, h),
         draining' = draining, Roomy => Placed(disk', l, abandoning')
  PROVE  QInv'
<1>1. Roomy => Placed(disk', line', abandoning')
  BY PumpKeepsQueued DEF Placed
<1>2. NeverIdleWithWork'
  <2> SUFFICES ASSUME ~draining, claim' = None, Cardinality(slots') < Cap,
                      NEW t \in Tasks, Contains(line', t), disk'[t].status = "queued"
               PROVE  t \in blocked'
    BY DEF NeverIdleWithWork, Free, InLine
  <2> QED
    BY PumpLeavesNoWork
<1> QED
  BY <1>1, <1>2 DEF QInv, Roomy

\* A step that wakes no pump: nobody comes to wait, nobody who waits leaves the
\* line, and neither the project nor the machine becomes free.
LEMMA QuietQ ==
  ASSUME QInv, up,
         claim' = None /\ Free' /\ ~draining' => claim = None /\ Free /\ ~draining,
         \A x \in Tasks : disk'[x].status = "queued" =>
           /\ disk[x].status = "queued"
           /\ Contains(line', x) <=> Contains(line, x)
           /\ abandoning[x] = "in_line" => abandoning'[x] = "in_line"
           /\ x \in blocked => x \in blocked'
  PROVE  QInv'
<1>1. Roomy => Placed(disk', line', abandoning')
  BY DEF QInv, Placed
<1>2. NeverIdleWithWork'
  BY DEF QInv, NeverIdleWithWork, InLine
<1> QED
  BY <1>1, <1>2 DEF QInv, Roomy

\* One record written.
LEMMA OneWritten ==
  ASSUME IInv, NEW t \in Tasks, NEW r, Persist(t, r)
  PROVE  disk'[t] = r /\ \A x \in Tasks : x # t => disk'[x] = disk[x]
<1>1. disk \in [Tasks -> Record]
  BY DEF IInv, Alive, Down, Consistent
<1> QED
  BY <1>1 DEF Persist

\* The end of a chain: the line l it pumps has lost nobody but t, and has t if
\* its record says 'queued'.
LEMMA ChainEndsQ ==
  ASSUME IInv, QInv, NEW t \in Tasks, stage[t] \notin Waits \union {"none"},
         \A x \in Tasks : x # t => disk'[x] = disk[x],
         UNCHANGED <<draining, abandoning>>,
         NEW l, LineOK(l), \A x \in Tasks : x # t /\ Contains(line, x) => Contains(l, x),
         Roomy /\ disk'[t].status = "queued" => Contains(l, t),
         NEW f \in Freed(t), EndChain(t, l, f)
  PROVE  QInv'
<1>1. up /\ claim \in Tasks \union {None}
  BY ChainInFlight DEF Alive, Consistent
<1>2. f.slots \in SUBSET (Tasks \union Others)
  BY FreedInTheChain DEF LoadOK
<1> DEFINE c == IF claim = t THEN None ELSE claim
           st == [stage EXCEPT ![t] = "none"]
           h == [held EXCEPT ![t] = NoRecord]
<1>3. Pump(l, c, f.slots, st, h) /\ c \in Tasks \union {None}
  BY <1>1 DEF EndChain
<1>4. Roomy => Placed(disk', l, abandoning')
  BY <1>1 DEF QInv, Placed
<1> HIDE DEF c, st, h
<1> QED
  BY <1>2, <1>3, <1>4, PumpQ

\* A gesture that puts t in line.
LEMMA ScheduleQ ==
  ASSUME Faultless, IInv, QInv, NEW t \in Tasks, NEW q, NEW r, Schedule(t, q, r)
  PROVE  QInv'
<1>1. /\ up /\ LineOK(line) /\ claim \in Tasks \union {None}
      /\ slots \in SUBSET (Tasks \union Others)
      /\ UNCHANGED <<draining, abandoning>>
  BY DEF IInv, Alive, Consistent, LoadOK, Schedule
<1> DEFINE l == IF InLine(t) THEN line ELSE Append(line, t)
<1>2. \/ (InLine(t) \/ Len(line) < QueueMax) /\ Persist(t, q) /\ Pump(l, claim, slots, stage, held)
      \/ /\ ~InLine(t) /\ ~(Len(line) < QueueMax) /\ Persist(t, r)
         /\ UNCHANGED <<line, claim, slots>> /\ blocked' = blocked \ {t}
  BY DEF Schedule, Writes, Faultless
<1>3. CASE (InLine(t) \/ Len(line) < QueueMax) /\ Persist(t, q) /\ Pump(l, claim, slots, stage, held)
  <2>1. LineOK(l) /\ \A x : Contains(l, x) <=> Contains(line, x) \/ x = t
    BY <1>1, <1>3, AppendToLine DEF InLine
  <2>2. \A x \in Tasks : x # t => disk'[x] = disk[x]
    BY <1>3, OneWritten
  <2>3. Roomy => Placed(disk', l, abandoning')
    BY <1>1, <2>1, <2>2 DEF QInv, Placed
  <2> HIDE DEF l
  <2> QED
    BY <1>1, <1>3, <2>1, <2>3, PumpQ
<1>4. CASE /\ ~InLine(t) /\ ~(Len(line) < QueueMax) /\ Persist(t, r)
           /\ UNCHANGED <<line, claim, slots>> /\ blocked' = blocked \ {t}
  <2>1. \A x \in Tasks : x # t => disk'[x] = disk[x]
    BY <1>4, OneWritten
  <2>2. ~Roomy
    BY <1>1, <1>4, RoomForOneMore DEF Roomy, InLine
  <2>3. NeverIdleWithWork'
    BY <1>1, <1>4, <2>1 DEF QInv, NeverIdleWithWork, InLine, Free
  <2> QED
    BY <2>2, <2>3 DEF QInv, Roomy
<1> QED
  BY <1>2, <1>3, <1>4

\* A waiting task leaves the line: for good, or until its abandon ends.
LEMMA DropQ ==
  ASSUME Faultless, IInv, QInv, up, NEW t \in Tasks, DropFromQueue(t),
         draining' = draining,
         \A x \in Tasks : x # t => disk'[x] = disk[x] /\ abandoning'[x] = abandoning[x],
         Roomy /\ disk'[t].status = "queued" => abandoning'[t] = "in_line"
  PROVE  QInv'
<1>1. /\ LineOK(line) /\ claim \in Tasks \union {None}
      /\ slots \in SUBSET (Tasks \union Others)
  BY DEF IInv, Alive, Consistent, LoadOK
<1> DEFINE l == IF InLine(t) THEN Without(line, t) ELSE line
           c == IF claim = t THEN None ELSE claim
<1>2. \/ Pump(l, c, slots, stage, held)
      \/ ~InLine(t) /\ UNCHANGED <<line, claim, slots>> /\ blocked' = blocked \ {t}
  BY DEF DropFromQueue, Writes, Faultless
<1>3. LineOK(l) /\ \A x : x # t => (Contains(l, x) <=> Contains(line, x))
  BY <1>1, WithoutDrops
<1>4. Roomy => Placed(disk', l, abandoning')
  BY <1>3 DEF QInv, Placed
<1>5. CASE Pump(l, c, slots, stage, held)
  <2>1. c \in Tasks \union {None}
    BY <1>1
  <2> HIDE DEF l, c
  <2> QED
    BY <1>1, <1>3, <1>4, <1>5, <2>1, PumpQ
<1>6. CASE ~InLine(t) /\ UNCHANGED <<line, claim, slots>> /\ blocked' = blocked \ {t}
  <2>1. Roomy => Placed(disk', line', abandoning')
    BY <1>4, <1>6
  <2>2. ASSUME NEW x \in Tasks, Contains(line, x) PROVE x # t
    BY <1>6, <2>2 DEF InLine
  <2>3. NeverIdleWithWork'
    BY <1>6, <2>2 DEF QInv, NeverIdleWithWork, InLine, Free
  <2> QED
    BY <2>1, <2>3 DEF QInv, Roomy
<1> QED
  BY <1>2, <1>5, <1>6

-----------------------------------------------------------------------------
(***************************************************************************)
(* Every action keeps it.                                                  *)
(***************************************************************************)
LEMMA GestureQ ==
  ASSUME Faultless, IInv, QInv, NEW t \in Tasks, Gesture(t)
  PROVE  QInv'
<1>1. CASE Create(t) \/ Reply(t) \/ Resume(t)
  BY <1>1, ScheduleQ DEF Create, Reply, Resume
<1>2. CASE CreateWhileDraining(t)
  <2>1. /\ disk'[t].status = "failed"
        /\ \A x \in Tasks : x # t => disk'[x] = disk[x]
    BY <1>2, OneWritten, RecordsWritten DEF CreateWhileDraining
  <2> QED
    BY <1>2, <2>1, QuietQ DEF CreateWhileDraining
<1>3. CASE InterruptTurn(t) \/ Ship(t)
  BY <1>3, QuietQ DEF InterruptTurn, Ship, persisted, load, Free
<1>4. CASE InterruptWaiting(t)
  <2>1. disk[t] \in Record
    BY <1>4 DEF InterruptWaiting, IInv, Alive, Consistent
  <2>2. /\ disk'[t].status = "interrupted"
        /\ \A x \in Tasks : x # t => disk'[x] = disk[x]
    <3>1. [disk[t] EXCEPT !.status = "interrupted"].status = "interrupted"
      BY <2>1, StatusTyped DEF Status
    <3> QED
      BY <1>4, <3>1, OneWritten DEF InterruptWaiting
  <2> QED
    BY <1>4, <2>2, DropQ DEF InterruptWaiting
<1>5. CASE AbandonBegin(t)
  <2>1. /\ up /\ abandoning[t] = "no" /\ disk' = disk /\ draining' = draining
        /\ abandoning' = [abandoning EXCEPT ![t] = IF InLine(t) THEN "in_line" ELSE "out"]
        /\ abandoning \in [Tasks -> {"no", "out", "in_line"}]
        /\ DropFromQueue(t)
    BY <1>5 DEF AbandonBegin, IInv, Alive, Consistent
  <2>2. /\ abandoning'[t] = IF InLine(t) THEN "in_line" ELSE "out"
        /\ \A x \in Tasks : x # t => abandoning'[x] = abandoning[x]
    BY <2>1
  <2>3. Roomy /\ disk'[t].status = "queued" => abandoning'[t] = "in_line"
    BY <2>1, <2>2 DEF QInv, Placed, InLine
  <2> QED
    BY <2>1, <2>2, <2>3, DropQ
<1>6. CASE ValidateCriteria(t)
  <2>1. disk[t] \in Record
    BY <1>6 DEF ValidateCriteria, IInv, Alive, Consistent
  <2>2. /\ disk'[t].status = disk[t].status
        /\ \A x \in Tasks : x # t => disk'[x] = disk[x]
    BY <1>6, <2>1, OneWritten DEF ValidateCriteria, Record
  <2> QED
    BY <1>6, <2>2, QuietQ DEF ValidateCriteria, load, Free
<1>7. CASE AttachBegin(t)
  BY <1>7, NoAttach
<1> QED
  BY <1>1, <1>2, <1>3, <1>4, <1>5, <1>6, <1>7 DEF Gesture

\* A chain in flight has the claim, so a step that leaves it there needs no pump.
LEMMA ClaimedQ ==
  ASSUME IInv, QInv, NEW t \in Tasks, stage[t] # "none", claim' = claim,
         abandoning' = abandoning,
         (disk' = disk /\ line' = line) \/ disk'[t].status # "queued",
         \A x \in Tasks \ {t} : /\ disk'[x] = disk[x]
                                /\ Contains(line', x) <=> Contains(line, x)
                                /\ x \in blocked => x \in blocked',
         disk' = disk => blocked' = blocked
  PROVE  QInv'
<1>1. up /\ claim' # None
  BY ChainInFlight, NoneIsNoTask DEF Fits, TaskOK
<1> QED
  BY <1>1, QuietQ

LEMMA MaterializeQ ==
  ASSUME IInv, QInv, NEW t \in Tasks,
         \/ Materialized(t) \/ MaterializedTooLate(t)
         \/ MaterializeFails(t) \/ MaterializeBlocks(t)
  PROVE  QInv'
<1>1. stage[t] = "materializing"
  BY DEF Materialized, MaterializedTooLate, MaterializeFails, MaterializeBlocks
<1>2. /\ up /\ LineOK(line) /\ Fits(t) /\ stage[t] \notin Waits \union {"none"}
  BY <1>1, ChainInFlight DEF Waits
<1>3. /\ LineOK(Without(line, t))
      /\ \A x : Contains(Without(line, t), x) <=> Contains(line, x) /\ x # t
  BY <1>2, WithoutDrops
<1>4. \A status \in Status : As(t, status).status = status
  BY AsTyped
<1>5. CASE Materialized(t)
  <2>1. /\ disk'[t].status = "running"
        /\ \A x \in Tasks : x # t => disk'[x] = disk[x]
    BY <1>4, <1>5, OneWritten DEF Materialized, Status
  <2>2. disk' # disk
    BY <1>1, <1>2, <2>1 DEF Fits, TaskOK
  <2> QED
    BY <1>1, <1>3, <1>5, <2>1, <2>2, ClaimedQ DEF Materialized
<1>6. CASE MaterializedTooLate(t)
  <2>1. /\ disk'[t].status = "interrupted"
        /\ \A x \in Tasks : x # t => disk'[x] = disk[x]
    BY <1>4, <1>6, OneWritten DEF MaterializedTooLate, Status
  <2> QED
    BY <1>2, <1>3, <1>6, <2>1, ChainEndsQ DEF MaterializedTooLate
<1>7. CASE MaterializeFails(t)
  <2>1. /\ disk'[t].status \in {"interrupted", "failed"}
        /\ \A x \in Tasks : x # t => disk'[x] = disk[x]
    BY <1>4, <1>7, OneWritten DEF MaterializeFails, Status
  <2> QED
    BY <1>2, <1>7, <2>1, ChainEndsQ DEF MaterializeFails
<1>8. CASE MaterializeBlocks(t)
  <2>1. \A x \in Tasks : x # t => disk'[x] = disk[x]
    BY <1>8, OneWritten DEF MaterializeBlocks
  <2>2. Roomy => Contains(line, t)
    BY <1>1, <1>2 DEF QInv, Placed, Fits, TaskOK
  <2> QED
    BY <1>2, <1>8, <2>1, <2>2, ChainEndsQ DEF MaterializeBlocks
<1> QED
  BY <1>5, <1>6, <1>7, <1>8

LEMMA AgentQ ==
  ASSUME IInv, QInv, NEW t \in Tasks, AgentFails(t) \/ AgentAsks(t) \/ AgentDone(t)
  PROVE  QInv'
<1>1. stage[t] = "agent"
  BY DEF AgentFails, AgentAsks, AgentDone
<1>2. /\ up /\ LineOK(line) /\ Fits(t) /\ stage[t] \notin Waits \union {"none"}
  BY <1>1, ChainInFlight DEF Waits
<1>3. \A status \in Status, b \in BOOLEAN : [As(t, status) EXCEPT !.answered = b].status = status
  BY AsTyped
<1>4. CASE AgentFails(t) \/ AgentAsks(t)
  <2>1. /\ disk'[t].status \in {"interrupted", "failed", "waiting_for_you"}
        /\ \A x \in Tasks : x # t => disk'[x] = disk[x]
    <3>1. PICK status \in {"interrupted", "failed", "waiting_for_you"}, b \in BOOLEAN :
            Persist(t, [As(t, status) EXCEPT !.answered = b])
      BY <1>4 DEF AgentFails, AgentAsks
    <3>2. [As(t, status) EXCEPT !.answered = b].status = status
      BY <1>3 DEF Status
    <3> QED
      BY <3>1, <3>2, OneWritten
  <2> QED
    BY <1>2, <1>4, <2>1, ChainEndsQ DEF AgentFails, AgentAsks
<1>5. CASE AgentDone(t)
  <2>1. /\ disk'[t].status = "reviewing"
        /\ \A x \in Tasks : x # t => disk'[x] = disk[x]
    <3>1. PICK b \in BOOLEAN : Persist(t, [As(t, "reviewing") EXCEPT !.answered = b])
      BY <1>5 DEF AgentDone
    <3>2. [As(t, "reviewing") EXCEPT !.answered = b].status = "reviewing"
      BY <1>3 DEF Status
    <3> QED
      BY <3>1, <3>2, OneWritten
  <2> QED
    BY <1>1, <1>5, <2>1, ClaimedQ DEF AgentDone
<1> QED
  BY <1>4, <1>5

LEMMA HookQ ==
  ASSUME Faultless, IInv, QInv, NEW t \in Tasks,
         \/ BeginChecks(t) \/ EndChecks(t) \/ BeginReview(t)
         \/ HookSettles(t) \/ HookRetries(t) \/ HookShips(t)
  PROVE  QInv'
<1>1. stage[t] \in {"hook", "checks", "checked", "review"}
  BY DEF BeginChecks, EndChecks, BeginReview, HookSettles, HookRetries, HookShips, Judged
<1>2. /\ up /\ LineOK(line) /\ stage[t] \notin Waits \union {"none"}
  BY <1>1, ChainInFlight DEF Waits
<1>3. \A status \in Status : As(t, status).status = status
  BY AsTyped
<1>4. CASE BeginChecks(t) \/ EndChecks(t) \/ BeginReview(t)
  BY <1>2, <1>4, ClaimedQ DEF BeginChecks, EndChecks, BeginReview, persisted
<1>5. CASE HookSettles(t)
  <2>1. /\ disk'[t].status \in {"interrupted", "waiting_for_you", "review_ok", "review_ko"}
        /\ \A x \in Tasks : x # t => disk'[x] = disk[x]
    BY <1>3, <1>5, OneWritten DEF HookSettles, Status
  <2> QED
    BY <1>2, <1>5, <2>1, ChainEndsQ DEF HookSettles
<1>6. CASE HookRetries(t)
  <2> DEFINE l == IF Len(line) < QueueMax THEN Append(line, t) ELSE line
  <2>1. PICK f \in Freed(t) : EndChain(t, l, f)
    BY <1>6 DEF HookRetries, Writes, Faultless
  <2>2. \A x \in Tasks : x # t => disk'[x] = disk[x]
    BY <1>6, OneWritten DEF HookRetries
  <2>3. ~Contains(line, t)
    BY <1>6 DEF HookRetries, InLine
  <2>4. LineOK(l) /\ \A x \in Tasks : x # t /\ Contains(line, x) => Contains(l, x)
    BY <1>2, <2>3, AppendToLine
  <2>5. Roomy => Contains(l, t)
    BY <1>2, <2>3, RoomForOneMore, AppendToLine DEF Roomy
  <2>6. UNCHANGED <<draining, abandoning>>
    BY <1>6 DEF HookRetries
  <2> HIDE DEF l
  <2> QED
    BY <1>2, <2>1, <2>2, <2>4, <2>5, <2>6, ChainEndsQ
<1>7. CASE HookShips(t)
  <2>1. /\ disk'[t].status = "review_ok"
        /\ \A x \in Tasks : x # t => disk'[x] = disk[x]
    BY <1>3, <1>7, OneWritten DEF HookShips, Status
  <2> QED
    BY <1>2, <1>7, <2>1, ClaimedQ DEF HookShips
<1> QED
  BY <1>4, <1>5, <1>6, <1>7

LEMMA DeliveryQ ==
  ASSUME IInv, QInv, NEW t \in Tasks, ShipLands(t) \/ ShipFails(t) \/ MergeSettles(t)
  PROVE  QInv'
<1>1. up /\ LineOK(line) /\ disk \in [Tasks -> Record]
  BY DEF ShipLands, ShipFails, MergeSettles, IInv, Down, Alive, Consistent
<1>2. \A status \in Status : As(t, status).status = status
  BY AsTyped
<1>3. CASE ShipLands(t)
  <2>1. /\ disk'[t].status = "shipped"
        /\ \A x \in Tasks : x # t => disk'[x] = disk[x]
    BY <1>2, <1>3, OneWritten DEF ShipLands, Status
  <2> QED
    BY <1>1, <1>3, <2>1, QuietQ DEF ShipLands, load, Free
<1>4. CASE ShipFails(t) /\ stage[t] = "none"
  BY <1>1, <1>4, QuietQ DEF ShipFails, load, Free
<1>5. CASE ShipFails(t) /\ stage[t] = "shipping"
  <2>1. stage[t] \notin Waits \union {"none"}
    BY <1>5 DEF Waits
  <2>2. disk[t].status # "queued"
    BY <1>5, ChainInFlight DEF Fits, TaskOK
  <2> QED
    BY <1>1, <1>5, <2>1, <2>2, ChainEndsQ DEF ShipFails
<1>6. CASE MergeSettles(t)
  <2>1. /\ disk'[t].status \in {"shipped", "waiting_for_you"}
        /\ \A x \in Tasks : x # t => disk'[x] = disk[x]
    BY <1>2, <1>6, OneWritten DEF MergeSettles, Status
  <2>2. stage[t] \notin Waits \union {"none"}
    BY <1>6 DEF MergeSettles, Waits
  <2> QED
    BY <1>1, <1>6, <2>1, <2>2, ChainEndsQ DEF MergeSettles
<1> QED
  BY <1>3, <1>4, <1>5, <1>6 DEF ShipFails

LEMMA RemovalQ ==
  ASSUME Faultless, IInv, QInv, NEW t \in Tasks, Removal(t)
  PROVE  QInv'
<1>1. /\ up /\ LineOK(line) /\ Fits(t) /\ disk[t] \in Record /\ abandoning[t] # "no"
      /\ claim \in Tasks \union {None} /\ slots \in SUBSET (Tasks \union Others)
      /\ abandoning \in [Tasks -> {"no", "out", "in_line"}]
      /\ draining' = draining
  BY DEF Removal, AbandonEnd, AbandonFails, IInv, Down, Alive, Consistent, Fits, LoadOK
<1>2. \A x \in Tasks : x # t => abandoning'[x] = abandoning[x]
  BY <1>1 DEF Removal, AbandonEnd, AbandonFails
<1>3. CASE AbandonEnd(t)
  <2> DEFINE status == IF disk[t].status = "shipped" THEN "shipped" ELSE "failed"
             r == [disk[t] EXCEPT !.status = status]
  <2>1. r.status \in {"failed", "shipped"}
    BY <1>1, StatusTyped DEF Status
  <2>2. Persist(t, r)
    BY <1>3 DEF AbandonEnd
  <2> HIDE DEF r
  <2>3. /\ disk'[t].status \in {"failed", "shipped"}
        /\ \A x \in Tasks : x # t => disk'[x] = disk[x]
    BY <2>1, <2>2, OneWritten
  <2> QED
    BY <1>1, <1>2, <1>3, <2>3, QuietQ DEF AbandonEnd, Free
<1>4. CASE AbandonFails(t) /\ abandoning[t] = "out"
  <2>1. Roomy => Placed(disk', line', abandoning')
    BY <1>1, <1>2, <1>4 DEF AbandonFails, QInv, Placed
  <2>2. NeverIdleWithWork'
    BY <1>4 DEF AbandonFails, QInv, NeverIdleWithWork, InLine, Free
  <2> QED
    BY <2>1, <2>2 DEF QInv, Roomy
<1>5. CASE AbandonFails(t) /\ abandoning[t] # "out"
  <2> DEFINE l == IF Len(line) < QueueMax THEN Append(line, t) ELSE line
  <2>1. ~Contains(line, t)
    BY <1>1 DEF Fits, TaskOK
  <2>2. Pump(l, claim, slots, stage, held) /\ disk' = disk
    BY <1>5, <2>1 DEF AbandonFails, Writes, Faultless, InLine
  <2>3. LineOK(l) /\ \A x \in Tasks : x # t => (Contains(l, x) <=> Contains(line, x))
    BY <1>1, <2>1, AppendToLine
  <2>4. Roomy => Contains(l, t)
    BY <1>1, <2>1, RoomForOneMore, AppendToLine DEF Roomy
  <2>5. Roomy => Placed(disk', l, abandoning')
    BY <1>1, <1>2, <2>2, <2>3, <2>4 DEF QInv, Placed
  <2> HIDE DEF l
  <2> QED
    BY <1>1, <2>2, <2>3, <2>5, PumpQ
<1> QED
  BY <1>3, <1>4, <1>5 DEF Removal

LEMMA OthersQ ==
  ASSUME IInv, QInv, NEW o \in Others, OtherTakes(o) \/ OtherReleases(o)
  PROVE  QInv'
<1>1. /\ up /\ LineOK(line) /\ LoadOK(slots, parked) /\ claim \in Tasks \union {None}
  BY DEF OtherTakes, OtherReleases, IInv, Down, Alive, Consistent
<1>2. CASE OtherTakes(o)
  BY <1>1, <1>2, QuietQ DEF OtherTakes, persisted, Free
<1>3. CASE OtherReleases(o)
  <2>1. PICK f \in Freed(o) :
          Pump(line, claim, f.slots,
               [t \in Tasks |-> IF stage[t] \in Waits /\ t \in f.slots
                                  THEN Served[stage[t]] ELSE stage[t]],
               held)
    BY <1>3 DEF OtherReleases
  <2>2. f.slots \in SUBSET (Tasks \union Others)
    BY <1>1, FreedEffect DEF LoadOK
  <2>3. Roomy => Placed(disk', line, abandoning')
    BY <1>1, <1>3 DEF QInv, OtherReleases
  <2>4. draining' = draining
    BY <1>3 DEF OtherReleases
  <2> QED
    BY <1>1, <2>1, <2>2, <2>3, <2>4, PumpQ
<1> QED
  BY <1>2, <1>3

\* What a boot puts in line: every task that says 'queued', when there is room.
LEMMA BootedLineHasAll ==
  ASSUME Roomy, NEW l, LineOK(l), NEW Q \in SUBSET Tasks,
         NEW tail \in SetToSeqs({t \in Q : ~Contains(l, t)}), NEW x \in Q
  PROVE  Contains(SubSeq(Only(l, Q) \o tail, 1, Min({QueueMax, Len(Only(l, Q) \o tail)})), x)
<1> DEFINE orphans == {t \in Q : ~Contains(l, t)}
           kept == Only(l, Q)
           n == Cardinality(orphans)
           s == kept \o tail
<1>1. IsFiniteSet(orphans) /\ n \in Nat
  BY TasksFinite, FS_Subset, FS_CardinalityType
<1>2. /\ tail \in [1..n -> orphans]
      /\ \A i, j \in 1..n : i # j => tail[i] # tail[j]
  BY DEF SetToSeqs
<1>3. tail \in Seq(Tasks) /\ IsInjective(tail) /\ Len(tail) = n
  <2>1. tail \in [1..n -> Tasks] /\ DOMAIN tail = 1..n
    BY <1>2
  <2>2. tail \in Seq(Tasks) /\ Len(tail) = n
    <3>1. ASSUME NEW k \in Nat, NEW f \in [1..k -> Tasks]
          PROVE  f \in Seq(Tasks) /\ Len(f) = k
      OBVIOUS
    <3> HIDE DEF n
    <3> QED
      BY <1>1, <2>1, <3>1
  <2> QED
    BY <1>2, <2>1, <2>2 DEF IsInjective
<1>4. /\ kept \in Seq(Tasks) /\ IsInjective(kept)
      /\ \A y : Contains(kept, y) <=> Contains(l, y) /\ y \in Q
  BY OnlyOfLine DEF LineOK
<1>5. x \in orphans => \E i \in 1..Len(tail) : tail[i] = x
  <2>1. IsFiniteSet(1..n) /\ Cardinality(1..n) = n
    <3> HIDE DEF n
    <3>1. /\ IsFiniteSet(1..n)
          /\ Cardinality(1..n) = IF 1 > n THEN 0 ELSE n - 1 + 1
      <4>1. 1 \in Int /\ n \in Int
        BY <1>1
      <4> QED
        BY ONLY <4>1, FS_Interval
    <3> QED
      BY <1>1, <3>1
  <2>2. tail \in Injection(1..n, orphans)
    BY <1>2 DEF Injection, IsInjective
  <2>3. tail \in Surjection(1..n, orphans)
    BY <1>1, <2>1, <2>2, FS_Injection
  <2> QED
    BY <1>3, <2>3 DEF Surjection
<1>6. \A i \in 1..Len(tail) : ~Contains(kept, tail[i])
  BY <1>2, <1>3, <1>4
<1>7. Contains(kept, x) \/ \E i \in 1..Len(tail) : tail[i] = x
  BY <1>4, <1>5
<1> HIDE DEF orphans, kept, n
<1>8. s \in Seq(Tasks) /\ IsInjective(s)
  BY <1>3, <1>4, <1>6, ConcatFresh
<1>9. Contains(s, x)
  <2>1. /\ Len(kept) \in Nat /\ Len(tail) \in Nat /\ Len(s) = Len(kept) + Len(tail)
        /\ \A i \in 1..Len(kept) + Len(tail) :
             s[i] = IF i <= Len(kept) THEN kept[i] ELSE tail[i - Len(kept)]
    BY <1>3, <1>4, ConcatProperties, LenProperties
  <2> HIDE DEF s
  <2>2. ASSUME NEW i \in 1..Len(kept), kept[i] = x PROVE Contains(s, x)
    <3>1. i \in 1..Len(s) /\ s[i] = x
      BY <2>1, <2>2
    <3> QED
      BY <3>1 DEF Contains
  <2>3. ASSUME NEW i \in 1..Len(tail), tail[i] = x PROVE Contains(s, x)
    <3>1. /\ i + Len(kept) \in 1..Len(s) /\ ~ (i + Len(kept) <= Len(kept))
          /\ (i + Len(kept)) - Len(kept) = i
      BY <2>1
    <3>2. s[i + Len(kept)] = x
      BY <2>1, <2>3, <3>1
    <3> QED
      BY <3>1, <3>2 DEF Contains
  <2> QED
    BY <1>7, <2>2, <2>3 DEF Contains
<1>10. Len(s) \in Nat /\ QueueMax \in Nat /\ Len(s) <= QueueMax
  <2>1. Len(s) <= Cardinality(Tasks) /\ Len(s) \in Nat
    BY <1>8, TasksFinite, InjectiveIsShort, LenProperties
  <2>2. Cardinality(Tasks) \in Nat /\ QueueMax \in Nat /\ Cardinality(Tasks) <= QueueMax
    BY TasksFinite, FS_CardinalityType, QueueMaxPositive DEF Roomy
  <2> QED
    BY <2>1, <2>2
<1> HIDE DEF s
<1>11. Min({QueueMax, Len(s)}) = Len(s)
  <2>1. \E y \in {QueueMax, Len(s)} : \A z \in {QueueMax, Len(s)} : y <= z
    BY <1>10
  <2>2. /\ Min({QueueMax, Len(s)}) \in {QueueMax, Len(s)}
        /\ \A z \in {QueueMax, Len(s)} : Min({QueueMax, Len(s)}) <= z
    BY <2>1 DEF Min
  <2> QED
    BY <1>10, <2>2
<1>12. SubSeq(s, 1, Len(s)) = s
  BY <1>8, SubSeqFull
<1> QED
  BY <1>9, <1>11, <1>12 DEF s, kept

LEMMA BootQ ==
  ASSUME IInv, QInv, Boot
  PROVE  QInv'
<1>1. Down /\ UNCHANGED <<draining, abandoning>>
  BY DEF Boot, IInv
<1> DEFINE Q == {t \in Tasks : disk'[t].status = "queued"}
<1>2. PICK tail \in SetToSeqs({t \in Q : ~Contains(line, t)}) :
        Pump(SubSeq(Only(line, Q) \o tail, 1, Min({QueueMax, Len(Only(line, Q) \o tail)})),
             claim, slots, stage, held)
  BY DEF Boot, InLine
<1> DEFINE l == SubSeq(Only(line, Q) \o tail, 1, Min({QueueMax, Len(Only(line, Q) \o tail)}))
<1>3. LineOK(line) /\ Q \in SUBSET Tasks
  BY <1>1 DEF Down
<1>4. LineOK(l)
  <2> HIDE DEF Q
  <2> QED
    BY <1>3, BootedLine
<1>5. ASSUME Roomy, NEW x \in Q PROVE Contains(l, x)
  <2> HIDE DEF Q
  <2> QED
    BY <1>3, <1>5, BootedLineHasAll
<1>6. Roomy => Placed(disk', l, abandoning')
  <2> HIDE DEF l
  <2> QED
    BY <1>5 DEF Placed
<1>7. Pump(l, claim, slots, stage, held)
  BY <1>2
<1>8. claim \in Tasks \union {None} /\ slots \in SUBSET (Tasks \union Others)
  BY <1>1 DEF Down
<1> HIDE DEF l
<1> QED
  BY <1>1, <1>4, <1>6, <1>7, <1>8, PumpQ

LEMMA InitQ == Init => QInv
BY NoRecordTyped, EmptyLoad DEF Init, QInv, Placed, NeverIdleWithWork, InLine

\* A process that drains is told to stop, one that died is not asked.
LEMMA StopsQ ==
  ASSUME IInv, QInv,
         \/ Shutdown \/ Crash
         \/ \E t \in Tasks : CrashWhileScheduling(t) \/ CrashWhileLeaving(t)
  PROVE  QInv'
<1>1. CASE Shutdown
  BY <1>1, QuietQ DEF Shutdown, persisted
<1>2. CASE Crash \/ \E t \in Tasks : CrashWhileScheduling(t) \/ CrashWhileLeaving(t)
  <2>1. up' = FALSE
    BY <1>2 DEF Crash, CrashWhileScheduling, CrashWhileLeaving, Dies
  <2> QED
    BY <2>1 DEF QInv, NeverIdleWithWork
<1> QED
  BY <1>1, <1>2

LEMMA NextQ ==
  ASSUME Faultless, IInv, QInv, [Next]_vars
  PROVE  QInv'
<1>1. CASE \E t \in Tasks : Gesture(t)
  BY <1>1, GestureQ
<1>2. CASE \E t \in Tasks : Chain(t)
  BY <1>2, MaterializeQ, AgentQ, HookQ, DeliveryQ DEF Chain
<1>3. CASE \E t \in Tasks : Removal(t)
  BY <1>3, RemovalQ
<1>4. CASE \E t \in Tasks : AttachEnd(t)
  BY <1>4, NoAttach
<1>5. CASE \E o \in Others : OtherTakes(o) \/ OtherReleases(o)
  BY <1>5, OthersQ
<1>6. CASE \/ Shutdown \/ Crash
           \/ \E t \in Tasks : CrashWhileScheduling(t) \/ CrashWhileLeaving(t)
  BY <1>6, StopsQ
<1>7. CASE Boot
  BY <1>7, BootQ
<1>8. CASE UNCHANGED vars
  BY <1>8 DEF vars, QInv, Placed, NeverIdleWithWork, Free, InLine
<1> QED
  BY <1>1, <1>2, <1>3, <1>4, <1>5, <1>6, <1>7, <1>8 DEF Next

LEMMA QInvHolds == Faultless => (Spec => []QInv)
<1> SUFFICES ASSUME Faultless PROVE Spec => []QInv
  OBVIOUS
<1>1. Spec => []IInv
  BY IInvHolds
<1>2. Init => QInv
  BY InitQ
<1>3. IInv /\ QInv /\ [Next]_vars => QInv'
  BY NextQ
<1> QED
  BY <1>1, <1>2, <1>3, PTL DEF Spec

\* The line forgets nobody: with room in queue.json for every task, a task that
\* says 'queued' is in the line that starts it, or an abandon in flight has it.
\* Without that room a reply or a boot may find the line full (ReplyStranded.cfg).
THEOREM NothingIsStranded ==
  Faultless /\ Cardinality(Tasks) <= QueueMax => (Spec => []NothingStranded)
<1> SUFFICES ASSUME Faultless, Roomy PROVE Spec => []NothingStranded
  BY DEF Roomy
<1>1. QInv => NothingStranded
  BY DEF QInv, Placed, NothingStranded, InLine
<1> QED
  BY <1>1, QInvHolds, PTL

\* Never idle with work at hand: whatever handler ran last, a free project on a
\* free machine has nothing in line that it could start.
THEOREM NoWorkIsLeft == Faultless => (Spec => []NeverIdleWithWork)
<1> SUFFICES ASSUME Faultless PROVE Spec => []NeverIdleWithWork
  OBVIOUS
<1>1. QInv => NeverIdleWithWork
  BY DEF QInv
<1> QED
  BY <1>1, QInvHolds, PTL

-----------------------------------------------------------------------------
(***************************************************************************)
(* The life of one task, with a queue.json that may fail at any write. The *)
(* claim does not exclude any more: a task may be launched under its own   *)
(* abandon, and stand on 'failed' while its chain goes on. What is left is *)
(* what each task's record, chain, delivery and abandon say of each other. *)
(***************************************************************************)
Life(t, d, c, st, h, a, de) ==
  /\ d[t].status = "queued" => ~d[t].answered
  /\ d[t].status = "absent" => d[t].turn = 0
  /\ st[t] \in Active => c = t
  /\ st[t] # "none" \/ t \in de => h[t].turn = d[t].turn
  /\ st[t] = "materializing" =>
       /\ h[t].status = "queued" /\ ~h[t].answered
       /\ d[t].status \in {"queued", "failed"} /\ ~d[t].answered
  /\ st[t] = "agent" => d[t].status \in {"running", "failed"}
  /\ st[t] \in Reviewing => d[t].status \in {"reviewing", "failed"}
  /\ st[t] = "shipping" => d[t].status = "review_ok"
  /\ st[t] = "merging" => d[t].status = "shipped"
  /\ st[t] \in {"shipping", "merging"} => t \in de
  /\ t \in de =>
       /\ a[t] = "no"
       /\ \/ st[t] \in {"shipping", "merging"}
          \/ st[t] = "none" /\ d[t].status \in {"review_ok", "review_ko"}

LInv ==
  /\ disk \in [Tasks -> Record] /\ LineOK(line) /\ claim \in Tasks \union {None}
  /\ stage \in [Tasks -> Stage] /\ held \in [Tasks -> Record]
  /\ abandoning \in [Tasks -> {"no", "out", "in_line"}] /\ delivering \subseteq Tasks
  /\ attaching = [t \in Tasks |-> NoRecord]
  /\ up \/ Down
  /\ \A t \in Tasks : Life(t, disk, claim, stage, held, abandoning, delivering)

\* What a step may make of the record of t, and on which record it may start an
\* agent.
Kept(t) ==
  /\ disk[t].status = "shipped" => disk'[t].status = "shipped" \/ stage[t] = "merging"
  /\ disk'[t].turn >= disk[t].turn
  /\ stage[t] # "agent" /\ stage'[t] = "agent" => ~disk[t].answered

AllKept == \A t \in Tasks : Kept(t)

\* A reply is the next turn, not answered yet; a resume is the same turn.
LEMMA NextTurn ==
  ASSUME NEW r \in Record
  PROVE  /\ Replied(r).turn = r.turn + 1 /\ ~Replied(r).answered /\ Replied(r).status = "queued"
         /\ Resumed(r).turn = r.turn /\ Resumed(r).answered = r.answered
         /\ Resumed(r).status = "queued"
<1> DEFINE a == [r EXCEPT !.status = "queued"]
           b == [a EXCEPT !.turn = r.turn + 1]
<1>1. Replied(r) = [b EXCEPT !.answered = FALSE] /\ Resumed(r) = a
  BY DEF Replied, Resumed
<1>2. a.status = "queued" /\ a.turn = r.turn /\ a.answered = r.answered
  BY DEF Record
<1>3. b.status = "queued" /\ b.turn = r.turn + 1
  BY DEF Record
<1>4. /\ [b EXCEPT !.answered = FALSE].status = "queued"
      /\ [b EXCEPT !.answered = FALSE].turn = r.turn + 1
      /\ ~[b EXCEPT !.answered = FALSE].answered
  BY <1>3 DEF Record
<1> QED
  BY <1>1, <1>2, <1>4

\* Whoever waits for a slot is served by another stage of the same hook.
LEMMA WaitsServed ==
  \A w \in Waits : w \in Reviewing /\ Served[w] \in Reviewing
BY DEF Waits, Served, Hook, Reviewing

\* The values the pump is run on.
Ready(c, st, h) ==
  /\ c \in Tasks \union {None} /\ st \in [Tasks -> Stage] /\ h \in [Tasks -> Record]
  /\ \A x \in Tasks : Life(x, disk', c, st, h, abandoning', delivering')

LEMMA PumpLife ==
  ASSUME NEW l, LineOK(l), NEW c, NEW s, NEW st, NEW h, Ready(c, st, h),
         disk' \in [Tasks -> Record], Pump(l, c, s, st, h)
  PROVE  /\ LineOK(line') /\ Ready(claim', stage', held')
         /\ \A x \in Tasks : stage'[x] = "agent" => st[x] = "agent"
<1>1. LineOK(line')
  BY PumpEffect
<1>2. CASE claim' = c /\ slots' = s /\ stage' = st /\ held' = h
  BY <1>1, <1>2
<1>3. CASE /\ c = None /\ ~draining
           /\ \E next \in Tasks :
                /\ Contains(l, next) /\ disk'[next].status = "queued"
                /\ ~ (Cardinality(s) >= Cap)
                /\ claim' = next
                /\ slots' = s \union {next}
                /\ stage' = [st EXCEPT ![next] = "materializing"]
                /\ held' = [h EXCEPT ![next] = disk'[next]]
  <2>1. PICK next \in Tasks :
                /\ disk'[next].status = "queued"
                /\ claim' = next
                /\ stage' = [st EXCEPT ![next] = "materializing"]
                /\ held' = [h EXCEPT ![next] = disk'[next]]
    BY <1>3
  <2>2. /\ stage' \in [Tasks -> Stage] /\ held' \in [Tasks -> Record]
        /\ stage'[next] = "materializing" /\ held'[next] = disk'[next]
        /\ \A x \in Tasks : x # next => stage'[x] = st[x] /\ held'[x] = h[x]
    BY <2>1 DEF Ready, Stage, Active
  <2>3. Life(next, disk', claim', stage', held', abandoning', delivering')
    BY <2>1, <2>2 DEF Ready, Life, Active, Reviewing, Hook
  <2>4. ASSUME NEW x \in Tasks, x # next
        PROVE  Life(x, disk', claim', stage', held', abandoning', delivering')
    <3>1. Life(x, disk', c, st, h, abandoning', delivering') /\ st[x] \notin Active
      BY <1>3, NoneIsNoTask DEF Ready, Life
    <3> QED
      BY <2>2, <2>4, <3>1 DEF Life
  <2> QED
    BY <1>1, <2>1, <2>2, <2>3, <2>4 DEF Ready
<1> QED
  BY <1>2, <1>3, PumpEffect

\* Where one task alone moves, and only its own claim is given back, the others
\* stay as they are.
LEMMA OneMoves ==
  ASSUME LInv, NEW t \in Tasks, NEW c, c = claim \/ (claim = t /\ c = None),
         NEW st \in [Tasks -> Stage], NEW h \in [Tasks -> Record],
         \A x \in Tasks : x # t =>
           /\ disk'[x] = disk[x] /\ st[x] = stage[x] /\ h[x] = held[x]
           /\ abandoning'[x] = abandoning[x] /\ (x \in delivering' <=> x \in delivering),
         Life(t, disk', c, st, h, abandoning', delivering')
  PROVE  Ready(c, st, h)
<1>1. ASSUME NEW x \in Tasks, x # t
      PROVE  Life(x, disk', c, st, h, abandoning', delivering')
  <2>1. Life(x, disk, claim, stage, held, abandoning, delivering)
    BY DEF LInv
  <2> QED
    BY <1>1, <2>1 DEF Life
<1> QED
  BY <1>1 DEF Ready, LInv

LEMMA Wrote ==
  ASSUME LInv, NEW t \in Tasks, NEW r \in Record, Persist(t, r)
  PROVE  /\ disk' \in [Tasks -> Record]
         /\ disk'[t] = r /\ \A x \in Tasks : x # t => disk'[x] = disk[x]
BY DEF LInv, Persist

LEMMA AsIs ==
  ASSUME LInv, NEW t \in Tasks, NEW status \in Status, NEW b \in BOOLEAN
  PROVE  /\ As(t, status) \in Record /\ As(t, status).status = status
         /\ As(t, status).turn = held[t].turn
         /\ [As(t, status) EXCEPT !.answered = b] \in Record
         /\ [As(t, status) EXCEPT !.answered = b].status = status
         /\ [As(t, status) EXCEPT !.answered = b].turn = held[t].turn
<1>1. held[t] \in Record
  BY DEF LInv
<1>2. /\ As(t, status) \in Record /\ As(t, status).status = status
      /\ As(t, status).turn = held[t].turn
  BY <1>1, StatusTyped DEF As
<1> QED
  BY <1>2 DEF Record

LEMMA TurnsAreNumbers ==
  ASSUME NEW r \in Record
  PROVE  r.turn \in Nat /\ r.status \in Status /\ r.answered \in BOOLEAN
BY MaxTurnsPositive DEF Record

\* A step that pumps, or leaves what the pump would move alone.
LEMMA StepIsGood ==
  ASSUME LInv, up', disk' \in [Tasks -> Record], LineOK(line'), Ready(claim', stage', held'),
         abandoning' \in [Tasks -> {"no", "out", "in_line"}], delivering' \subseteq Tasks,
         UNCHANGED attaching
  PROVE  LInv'
BY DEF LInv, Ready

LEMMA OthersKept ==
  ASSUME LInv, NEW x \in Tasks, disk'[x] = disk[x], stage'[x] = "agent" => stage[x] = "agent"
  PROVE  Kept(x)
<1>1. disk[x].turn \in Nat
  BY TurnsAreNumbers DEF LInv
<1> QED
  BY <1>1 DEF Kept

LEMMA AtRest ==
  ASSUME LInv, NEW t \in Tasks, stage[t] \notin Active, t \notin delivering,
         disk[t].status \notin {"reviewing", "failed"}
  PROVE  stage[t] = "none"
BY DEF LInv, Life, Stage, Reviewing, Hook

\* The end of a chain: of the task, only the record it leaves counts.
LEMMA ChainEndsWell ==
  ASSUME LInv, NEW t \in Tasks, stage[t] # "none", NEW r \in Record, Persist(t, r),
         r.status = "queued" => ~r.answered, r.status # "absent", r.turn >= disk[t].turn,
         disk[t].status = "shipped" => r.status = "shipped" \/ stage[t] = "merging",
         NEW l, LineOK(l), NEW f, EndChain(t, l, f),
         UNCHANGED <<up, abandoning, attaching>>, delivering' = delivering \ {t}
  PROVE  LInv' /\ AllKept
<1> DEFINE c == IF claim = t THEN None ELSE claim
           st == [stage EXCEPT ![t] = "none"]
           h == [held EXCEPT ![t] = NoRecord]
<1>1. up
  BY DEF LInv, Down
<1>2. /\ disk' \in [Tasks -> Record]
      /\ disk'[t] = r /\ \A x \in Tasks : x # t => disk'[x] = disk[x]
  BY Wrote
<1>3. /\ st \in [Tasks -> Stage] /\ h \in [Tasks -> Record]
      /\ st[t] = "none" /\ \A x \in Tasks : x # t => st[x] = stage[x] /\ h[x] = held[x]
  BY NoRecordTyped DEF LInv, Stage
<1>4. Life(t, disk', c, st, h, abandoning', delivering')
  BY <1>2, <1>3 DEF Life, Active, Reviewing, Hook
<1>5. c = claim \/ (claim = t /\ c = None)
  OBVIOUS
<1>6. Pump(l, c, f.slots, st, h)
  BY DEF EndChain
<1> HIDE DEF c, st, h
<1>7. Ready(c, st, h)
  BY <1>2, <1>3, <1>4, <1>5, OneMoves
<1>8. /\ LineOK(line') /\ Ready(claim', stage', held')
      /\ \A x \in Tasks : stage'[x] = "agent" => st[x] = "agent"
  BY <1>2, <1>6, <1>7, PumpLife
<1>9. LInv'
  BY <1>1, <1>2, <1>8, StepIsGood DEF LInv
<1>10. ASSUME NEW x \in Tasks PROVE Kept(x)
  <2>1. CASE x = t
    BY <1>2, <1>3, <1>8, <2>1 DEF Kept
  <2>2. CASE x # t
    BY <1>2, <1>3, <1>8, <2>2, OthersKept
  <2> QED
    BY <2>1, <2>2
<1> QED
  BY <1>9, <1>10 DEF AllKept

\* The same of a step that moves one task and pumps nothing.
LEMMA OneIsGood ==
  ASSUME LInv, up', NEW t \in Tasks, disk' \in [Tasks -> Record], LineOK(line'),
         claim' = claim, stage' \in [Tasks -> Stage], held' \in [Tasks -> Record],
         abandoning' \in [Tasks -> {"no", "out", "in_line"}], delivering' \subseteq Tasks,
         UNCHANGED attaching,
         \A x \in Tasks : x # t =>
           /\ disk'[x] = disk[x] /\ stage'[x] = stage[x] /\ held'[x] = held[x]
           /\ abandoning'[x] = abandoning[x] /\ (x \in delivering' <=> x \in delivering),
         Life(t, disk', claim', stage', held', abandoning', delivering'), Kept(t)
  PROVE  LInv' /\ AllKept
<1>1. Ready(claim', stage', held')
  BY OneMoves
<1>2. LInv'
  BY <1>1, StepIsGood
<1>3. ASSUME NEW x \in Tasks, x # t PROVE Kept(x)
  BY <1>3, OthersKept
<1> QED
  BY <1>2, <1>3 DEF AllKept

\* A step that moves one task, and ends with the pump.
LEMMA OneAndPump ==
  ASSUME LInv, up', NEW t \in Tasks, disk' \in [Tasks -> Record],
         NEW l, LineOK(l), NEW c, c = claim \/ (claim = t /\ c = None), NEW s,
         Pump(l, c, s, stage, held),
         abandoning' \in [Tasks -> {"no", "out", "in_line"}], UNCHANGED <<delivering, attaching>>,
         \A x \in Tasks : x # t => disk'[x] = disk[x] /\ abandoning'[x] = abandoning[x],
         Life(t, disk', c, stage, held, abandoning', delivering),
         disk'[t].turn >= disk[t].turn, disk[t].status = "shipped" => disk'[t].status = "shipped"
  PROVE  LInv' /\ AllKept
<1>1. /\ stage \in [Tasks -> Stage] /\ held \in [Tasks -> Record] /\ delivering \subseteq Tasks
  BY DEF LInv
<1>2. Ready(c, stage, held)
  BY <1>1, OneMoves
<1>3. /\ LineOK(line') /\ Ready(claim', stage', held')
      /\ \A x \in Tasks : stage'[x] = "agent" => stage[x] = "agent"
  BY <1>2, PumpLife
<1>4. LInv'
  BY <1>1, <1>3, StepIsGood
<1>5. ASSUME NEW x \in Tasks PROVE Kept(x)
  BY <1>3, OthersKept DEF Kept
<1> QED
  BY <1>4, <1>5 DEF AllKept

\* A gesture that asks for a turn, on a task no chain and no ship holds.
LEMMA ScheduleLife ==
  ASSUME LInv, up, NEW t \in Tasks, stage[t] = "none", t \notin delivering,
         disk[t].status # "shipped", NEW q \in Record, NEW r \in Record, Schedule(t, q, r),
         q.status = "queued" /\ ~q.answered /\ q.turn >= disk[t].turn,
         r.status \in {"queued", "failed"} /\ ~r.answered /\ r.turn >= disk[t].turn
  PROVE  LInv' /\ AllKept
<1>1. UNCHANGED <<up, abandoning, delivering, attaching>> /\ LineOK(line)
  BY DEF Schedule, LInv
<1>2. ASSUME NEW z \in {q, r}, Persist(t, z)
      PROVE  /\ disk' \in [Tasks -> Record] /\ \A x \in Tasks : x # t => disk'[x] = disk[x]
             /\ \A c : Life(t, disk', c, stage, held, abandoning', delivering)
             /\ disk'[t].turn >= disk[t].turn
  <2>1. /\ disk' \in [Tasks -> Record]
        /\ disk'[t] = z /\ \A x \in Tasks : x # t => disk'[x] = disk[x]
    BY <1>2, Wrote
  <2> QED
    BY <2>1 DEF Life, Active, Reviewing, Hook
<1>3. CASE /\ Persist(t, q)
           /\ \/ InLine(t) /\ Pump(line, claim, slots, stage, held)
              \/ /\ ~InLine(t) /\ Len(line) < QueueMax
                 /\ Pump(Append(line, t), claim, slots, stage, held)
  <2>1. \E l : LineOK(l) /\ Pump(l, claim, slots, stage, held)
    BY <1>1, <1>3, AppendToLine DEF InLine
  <2>2. /\ disk' \in [Tasks -> Record] /\ \A x \in Tasks : x # t => disk'[x] = disk[x]
        /\ Life(t, disk', claim, stage, held, abandoning', delivering)
        /\ disk'[t].turn >= disk[t].turn
    BY <1>2, <1>3
  <2>3. up' /\ abandoning' \in [Tasks -> {"no", "out", "in_line"}]
    BY <1>1 DEF LInv
  <2> QED
    BY <1>1, <2>1, <2>2, <2>3, OneAndPump
<1>4. CASE Persist(t, r) /\ UNCHANGED <<line, claim, slots, stage, held>>
  <2>1. /\ disk' \in [Tasks -> Record] /\ \A x \in Tasks : x # t => disk'[x] = disk[x]
        /\ Life(t, disk', claim, stage, held, abandoning', delivering)
        /\ disk'[t].turn >= disk[t].turn
    BY <1>2, <1>4
  <2>2. Life(t, disk', claim', stage', held', abandoning', delivering') /\ Kept(t)
    BY <1>1, <1>4, <2>1 DEF Kept
  <2>3. /\ up' /\ LineOK(line') /\ stage' \in [Tasks -> Stage] /\ held' \in [Tasks -> Record]
        /\ abandoning' \in [Tasks -> {"no", "out", "in_line"}] /\ delivering' \subseteq Tasks
    BY <1>1, <1>4 DEF LInv
  <2> QED
    BY <1>1, <1>4, <2>1, <2>2, <2>3, OneIsGood
<1> QED
  BY <1>3, <1>4 DEF Schedule

LEMMA AskLife ==
  ASSUME LInv, NEW t \in Tasks, Create(t) \/ Reply(t) \/ Resume(t)
  PROVE  LInv' /\ AllKept
<1>1. disk[t] \in Record /\ disk[t].turn \in Nat /\ up
  BY TurnsAreNumbers DEF LInv, Create, Reply, Resume, Schedule
<1>2. Life(t, disk, claim, stage, held, abandoning, delivering)
  BY DEF LInv
<1>3. CASE Create(t)
  <2>1. disk[t].status = "absent" /\ disk[t].turn = 0 /\ t \notin delivering
    BY <1>2, <1>3 DEF Create, CanCreate, Life
  <2>2. stage[t] = "none"
    BY <1>2, <2>1 DEF Life, Stage, Active, Reviewing, Hook, LInv
  <2>3. /\ ~Created.answered /\ Created.turn = 1
        /\ ~[Created EXCEPT !.status = "failed"].answered
        /\ [Created EXCEPT !.status = "failed"].turn = 1
    BY DEF Created
  <2> DEFINE r == [Created EXCEPT !.status = "failed"]
  <2>4. /\ Created \in Record /\ Created.status = "queued" /\ ~Created.answered
        /\ Created.turn >= disk[t].turn
        /\ r \in Record /\ r.status = "failed" /\ ~r.answered /\ r.turn >= disk[t].turn
    BY <2>1, <2>3, RecordsWritten
  <2>5. Schedule(t, Created, r)
    BY <1>3 DEF Create
  <2> HIDE DEF r
  <2> QED
    BY <1>1, <2>1, <2>2, <2>4, <2>5, ScheduleLife
<1>4. CASE Reply(t)
  <2>1. /\ disk[t].status \in Replyable /\ t \notin delivering /\ stage[t] \notin Active
        /\ disk[t].turn < MaxTurns
    BY <1>4 DEF Reply, CanReply
  <2>2. stage[t] = "none"
    BY <2>1, AtRest DEF Replyable
  <2>3. Replied(disk[t]) \in Record
    BY <1>1, <2>1, RecordsWritten
  <2>4. /\ Replied(disk[t]).status = "queued" /\ ~Replied(disk[t]).answered
        /\ Replied(disk[t]).turn >= disk[t].turn
    BY <1>1, NextTurn
  <2>5. Schedule(t, Replied(disk[t]), Replied(disk[t])) /\ disk[t].status # "shipped"
    BY <1>4, <2>1 DEF Reply, Replyable
  <2> HIDE DEF Replied
  <2> QED
    BY <1>1, <2>1, <2>2, <2>3, <2>4, <2>5, ScheduleLife
<1>5. CASE Resume(t)
  <2>1. /\ disk[t].status = "interrupted" /\ t \notin delivering /\ stage[t] \notin Active
        /\ ~disk[t].answered
    BY <1>5 DEF Resume, CanResume
  <2>2. stage[t] = "none"
    BY <2>1, AtRest
  <2>3. /\ Resumed(disk[t]) \in Record /\ Resumed(disk[t]).status = "queued"
        /\ ~Resumed(disk[t]).answered /\ Resumed(disk[t]).turn >= disk[t].turn
    BY <1>1, <2>1, RecordsWritten, NextTurn
  <2>4. Schedule(t, Resumed(disk[t]), Resumed(disk[t])) /\ disk[t].status # "shipped"
    BY <1>5, <2>1 DEF Resume
  <2> QED
    BY <1>1, <2>1, <2>2, <2>3, <2>4, ScheduleLife
<1> QED
  BY <1>3, <1>4, <1>5

\* A gesture on a task at rest, or a signal to its turn.
LEMMA GestureLife ==
  ASSUME Scratch = {}, LInv, NEW t \in Tasks, Gesture(t)
  PROVE  LInv' /\ AllKept
<1>1. /\ disk \in [Tasks -> Record] /\ disk[t] \in Record /\ disk[t].turn \in Nat
      /\ LineOK(line) /\ Life(t, disk, claim, stage, held, abandoning, delivering)
      /\ stage \in [Tasks -> Stage] /\ held \in [Tasks -> Record]
      /\ abandoning \in [Tasks -> {"no", "out", "in_line"}] /\ delivering \subseteq Tasks
  BY TurnsAreNumbers DEF LInv
<1>2. CASE Create(t) \/ Reply(t) \/ Resume(t)
  BY <1>2, AskLife
<1>3. CASE CreateWhileDraining(t)
  <2> DEFINE r == [Created EXCEPT !.status = "failed"]
  <2>1. Persist(t, r) /\ disk[t].status = "absent"
    BY <1>3 DEF CreateWhileDraining, CanCreate
  <2>2. r \in Record /\ r.status = "failed" /\ r.turn = 1
    BY RecordsWritten DEF Created
  <2> HIDE DEF r
  <2>3. disk' \in [Tasks -> Record] /\ disk'[t] = r /\ \A x \in Tasks : x # t => disk'[x] = disk[x]
    BY <2>1, <2>2, Wrote
  <2>4. t \notin delivering /\ disk[t].turn = 0
    BY <1>1, <2>1 DEF Life
  <2>5. stage[t] = "none"
    BY <2>1, <2>4, <1>1 DEF Life, Stage, Active, Reviewing, Hook
  <2>6. up' /\ UNCHANGED <<line, claim, stage, held, abandoning, delivering, attaching>>
    BY <1>3 DEF CreateWhileDraining
  <2>7. Life(t, disk', claim', stage', held', abandoning', delivering')
    BY <2>2, <2>3, <2>4, <2>5, <2>6 DEF Life, Active, Reviewing, Hook
  <2>8. Kept(t)
    BY <2>1, <2>2, <2>3, <2>4, <2>5, <2>6 DEF Kept
  <2> QED
    BY <1>1, <2>3, <2>6, <2>7, <2>8, OneIsGood
<1>4. CASE InterruptTurn(t)
  <2>1. /\ up' /\ UNCHANGED <<disk, line, claim, stage, held, abandoning, delivering, attaching>>
    BY <1>4 DEF InterruptTurn
  <2>2. Life(t, disk', claim', stage', held', abandoning', delivering') /\ Kept(t)
    BY <1>1, <2>1 DEF Kept
  <2> QED
    BY <1>1, <2>1, <2>2, OneIsGood
<1>5. CASE Ship(t)
  <2>1. /\ t \notin delivering /\ disk[t].status \in {"review_ok", "review_ko"}
        /\ abandoning[t] = "no" /\ held' = [held EXCEPT ![t] = disk[t]]
        /\ delivering' = delivering \union {t}
        /\ up' /\ UNCHANGED <<disk, line, claim, stage, abandoning, attaching>>
    BY <1>5 DEF Ship, persisted
  <2>2. stage[t] = "none"
    BY <1>1, <2>1 DEF Life, Stage, Active, Reviewing, Hook
  <2>3. Life(t, disk', claim', stage', held', abandoning', delivering')
    BY <1>1, <2>1, <2>2 DEF Life, Active, Reviewing, Hook
  <2>4. Kept(t)
    BY <1>1, <2>1, <2>2 DEF Kept
  <2> QED
    BY <1>1, <2>1, <2>3, <2>4, OneIsGood
<1>6. CASE ValidateCriteria(t)
  <2> DEFINE r == [disk[t] EXCEPT !.criteria = TRUE]
  <2>1. Persist(t, r)
    BY <1>6 DEF ValidateCriteria
  <2>2. /\ r \in Record /\ r.status = disk[t].status /\ r.turn = disk[t].turn
        /\ r.answered = disk[t].answered
    BY <1>1 DEF Record
  <2> HIDE DEF r
  <2>3. disk' \in [Tasks -> Record] /\ disk'[t] = r /\ \A x \in Tasks : x # t => disk'[x] = disk[x]
    BY <2>1, <2>2, Wrote
  <2>4. up' /\ UNCHANGED <<line, claim, stage, held, abandoning, delivering, attaching>>
    BY <1>6 DEF ValidateCriteria
  <2>5. Life(t, disk', claim', stage', held', abandoning', delivering')
    BY <1>1, <2>2, <2>3, <2>4 DEF Life
  <2>6. Kept(t)
    BY <1>1, <2>2, <2>3, <2>4 DEF Kept
  <2> QED
    BY <1>1, <2>3, <2>4, <2>5, <2>6, OneIsGood
<1>7. ASSUME DropFromQueue(t), up', disk' \in [Tasks -> Record],
             abandoning' \in [Tasks -> {"no", "out", "in_line"}], UNCHANGED <<delivering, attaching>>,
             \A x \in Tasks : x # t => disk'[x] = disk[x] /\ abandoning'[x] = abandoning[x],
             \A c : Life(t, disk', c, stage, held, abandoning', delivering),
             disk'[t].turn >= disk[t].turn,
             disk[t].status = "shipped" => disk'[t].status = "shipped"
      PROVE  LInv' /\ AllKept
  <2> DEFINE c == IF claim = t THEN None ELSE claim
  <2>1. LineOK(Without(line, t)) /\ (c = claim \/ (claim = t /\ c = None))
    BY <1>1, WithoutDrops
  <2>2. \/ \E l : LineOK(l) /\ Pump(l, c, slots, stage, held)
        \/ UNCHANGED <<line, claim, slots, stage, held>>
    BY <1>1, <1>7, <2>1 DEF DropFromQueue
  <2> HIDE DEF c
  <2>3. CASE \E l : LineOK(l) /\ Pump(l, c, slots, stage, held)
    BY <1>7, <2>1, <2>3, OneAndPump
  <2>4. CASE UNCHANGED <<line, claim, slots, stage, held>>
    <3>1. Life(t, disk', claim', stage', held', abandoning', delivering') /\ Kept(t)
      BY <1>7, <2>4 DEF Kept
    <3> QED
      BY <1>1, <1>7, <2>4, <3>1, OneIsGood
  <2> QED
    BY <2>2, <2>3, <2>4
<1>8. CASE InterruptWaiting(t)
  <2> DEFINE r == [disk[t] EXCEPT !.status = "interrupted"]
  <2>1. /\ Persist(t, r) /\ stage[t] \notin Active
        /\ disk[t].status \in {"queued", "waiting_for_you"}
        /\ DropFromQueue(t) /\ up' /\ UNCHANGED <<abandoning, delivering, attaching>>
    BY <1>8 DEF InterruptWaiting
  <2>2. r \in Record /\ r.status = "interrupted" /\ r.turn = disk[t].turn
    BY <1>1, StatusTyped DEF Status
  <2> HIDE DEF r
  <2>3. disk' \in [Tasks -> Record] /\ disk'[t] = r /\ \A x \in Tasks : x # t => disk'[x] = disk[x]
    BY <2>1, <2>2, Wrote
  <2>4. t \notin delivering /\ stage[t] = "none"
    BY <1>1, <2>1 DEF Life, Stage, Active, Reviewing, Hook
  <2>5. \A c : Life(t, disk', c, stage, held, abandoning', delivering)
    BY <2>2, <2>3, <2>4 DEF Life, Active, Reviewing, Hook
  <2>6. disk[t].status # "shipped" /\ disk'[t].turn >= disk[t].turn
    BY <1>1, <2>1, <2>2, <2>3
  <2> QED
    BY <1>1, <1>7, <2>1, <2>3, <2>5, <2>6
<1>9. CASE AbandonBegin(t)
  <2>1. /\ t \notin delivering /\ stage[t] \notin Active
        /\ DropFromQueue(t) /\ up' /\ UNCHANGED <<disk, delivering, attaching>>
        /\ \E v \in {"out", "in_line"} : abandoning' = [abandoning EXCEPT ![t] = v]
    BY <1>9 DEF AbandonBegin
  <2>2. \A c : Life(t, disk', c, stage, held, abandoning', delivering)
    BY <1>1, <2>1 DEF Life
  <2>3. /\ abandoning' \in [Tasks -> {"no", "out", "in_line"}]
        /\ \A x \in Tasks : x # t => disk'[x] = disk[x] /\ abandoning'[x] = abandoning[x]
    BY <1>1, <2>1
  <2>4. disk' \in [Tasks -> Record] /\ disk'[t] = disk[t] /\ disk'[t].turn >= disk[t].turn
    BY <1>1, <2>1
  <2> QED
    BY <1>7, <2>1, <2>2, <2>3, <2>4
<1>10. ~AttachBegin(t)
  BY DEF AttachBegin
<1> QED
  BY <1>2, <1>3, <1>4, <1>5, <1>6, <1>8, <1>9, <1>10 DEF Gesture

\* The steps that end an abandon.
LEMMA RemovalLife ==
  ASSUME LInv, NEW t \in Tasks, Removal(t)
  PROVE  LInv' /\ AllKept
<1>1. /\ disk \in [Tasks -> Record] /\ disk[t] \in Record /\ disk[t].turn \in Nat
      /\ LineOK(line) /\ Life(t, disk, claim, stage, held, abandoning, delivering)
      /\ stage \in [Tasks -> Stage] /\ held \in [Tasks -> Record]
      /\ abandoning \in [Tasks -> {"no", "out", "in_line"}] /\ delivering \subseteq Tasks
      /\ claim \in Tasks \union {None}
  BY TurnsAreNumbers DEF LInv
<1>2. abandoning[t] # "no" /\ up /\ t \notin delivering
  BY <1>1 DEF Removal, AbandonEnd, AbandonFails, LInv, Down, Life
<1>3. CASE AbandonEnd(t)
  <2> DEFINE status == IF disk[t].status = "shipped" THEN "shipped" ELSE "failed"
             r == [disk[t] EXCEPT !.status = status]
  <2>1. r \in Record /\ r.status = status /\ r.turn = disk[t].turn /\ r.answered = disk[t].answered
    <3>1. status \in Status
      BY DEF Status
    <3> HIDE DEF status
    <3>2. r \in Record /\ r.status = status /\ r.turn = disk[t].turn
      BY <1>1, <3>1, StatusTyped
    <3> QED
      BY <1>1, <3>2 DEF Record
  <2>2. /\ Persist(t, r) /\ abandoning' = [abandoning EXCEPT ![t] = "no"]
        /\ UNCHANGED <<line, up, claim, stage, held, delivering, attaching>>
    BY <1>3 DEF AbandonEnd
  <2>3. status \in {"shipped", "failed"} /\ (status = "shipped" <=> disk[t].status = "shipped")
    OBVIOUS
  <2> HIDE DEF r, status
  <2>4. disk' \in [Tasks -> Record] /\ disk'[t] = r /\ \A x \in Tasks : x # t => disk'[x] = disk[x]
    BY <2>1, <2>2, Wrote
  <2>5. Life(t, disk', claim', stage', held', abandoning', delivering')
    BY <1>1, <1>2, <2>1, <2>2, <2>3, <2>4 DEF Life, Active, Reviewing, Hook
  <2>6. Kept(t)
    BY <1>1, <2>1, <2>2, <2>3, <2>4 DEF Kept
  <2> QED
    BY <1>1, <1>2, <2>2, <2>4, <2>5, <2>6, OneIsGood
<1>4. CASE AbandonFails(t)
  <2>1. /\ abandoning' = [abandoning EXCEPT ![t] = "no"]
        /\ UNCHANGED <<disk, up, delivering, attaching>>
    BY <1>4 DEF AbandonFails
  <2>2. /\ abandoning' \in [Tasks -> {"no", "out", "in_line"}]
        /\ \A x \in Tasks : x # t => disk'[x] = disk[x] /\ abandoning'[x] = abandoning[x]
        /\ Life(t, disk', claim, stage, held, abandoning', delivering)
    BY <1>1, <1>2, <2>1 DEF Life
  <2>3. \/ \E l : LineOK(l) /\ Pump(l, claim, slots, stage, held)
        \/ UNCHANGED <<line, claim, slots, stage, held>>
    BY <1>1, <1>4, AppendToLine DEF AbandonFails, InLine
  <2>4. CASE \E l : LineOK(l) /\ Pump(l, claim, slots, stage, held)
    <3>1. disk' \in [Tasks -> Record] /\ disk'[t] = disk[t] /\ disk'[t].turn >= disk[t].turn
      BY <1>1, <2>1
    <3>2. up' /\ UNCHANGED <<delivering, attaching>>
      BY <1>2, <2>1
    <3> QED
      BY <2>2, <2>4, <3>1, <3>2, OneAndPump
  <2>5. CASE UNCHANGED <<line, claim, slots, stage, held>>
    <3>1. Life(t, disk', claim', stage', held', abandoning', delivering') /\ Kept(t)
      BY <1>1, <2>1, <2>2, <2>5 DEF Kept
    <3> QED
      BY <1>1, <1>2, <2>1, <2>2, <2>5, <3>1, OneIsGood
  <2> QED
    BY <2>3, <2>4, <2>5
<1> QED
  BY <1>3, <1>4 DEF Removal

\* The end of a chain that holds no delivery, under a status that is not final.
LEMMA ChainLeaves ==
  ASSUME LInv, NEW t \in Tasks, stage[t] \notin {"none", "shipping", "merging"},
         NEW r \in Record, Persist(t, r), r.status = "queued" => ~r.answered,
         r.status # "absent", r.turn >= held[t].turn, NEW l, LineOK(l),
         \E f : EndChain(t, l, f), UNCHANGED <<up, abandoning, delivering, attaching>>
  PROVE  LInv' /\ AllKept
<1>1. Life(t, disk, claim, stage, held, abandoning, delivering) /\ stage \in [Tasks -> Stage]
  BY DEF LInv
<1>2. /\ t \notin delivering /\ disk[t].status # "shipped" /\ r.turn >= disk[t].turn
  BY <1>1 DEF Life, Stage, Active, Reviewing, Hook
<1>3. delivering' = delivering \ {t}
  BY <1>2
<1>4. r.status = "queued" \/ r.status # "queued"
  OBVIOUS
<1> QED
  BY <1>2, <1>3, ChainEndsWell

\* A turn that does not start, and the ends of an agent and of a hook.
LEMMA ChainSettles ==
  ASSUME LInv, NEW t \in Tasks,
         \/ MaterializedTooLate(t) \/ MaterializeFails(t) \/ MaterializeBlocks(t)
         \/ AgentFails(t) \/ AgentAsks(t) \/ HookSettles(t) \/ HookRetries(t)
  PROVE  LInv' /\ AllKept
<1>1. /\ LineOK(line) /\ held[t] \in Record /\ held[t].turn \in Nat
      /\ Life(t, disk, claim, stage, held, abandoning, delivering)
  BY TurnsAreNumbers DEF LInv
<1>2. ASSUME NEW l, LineOK(l), \E f : EndChain(t, l, f),
             UNCHANGED <<up, abandoning, delivering, attaching>>,
             stage[t] \notin {"none", "shipping", "merging"},
             NEW status \in Status \ {"queued", "absent"}, NEW b \in BOOLEAN,
             Persist(t, As(t, status)) \/ Persist(t, [As(t, status) EXCEPT !.answered = b])
      PROVE  LInv' /\ AllKept
  <2>1. PICK r \in Record : Persist(t, r) /\ r.status = status /\ r.turn = held[t].turn
    BY <1>2, AsIs
  <2> QED
    BY <1>1, <1>2, <2>1, ChainLeaves
<1>3. CASE MaterializedTooLate(t)
  <2>1. LineOK(Without(line, t))
    BY <1>1, WithoutDrops
  <2>2. /\ stage[t] = "materializing" /\ Persist(t, As(t, "interrupted"))
        /\ \E f : EndChain(t, Without(line, t), f)
        /\ UNCHANGED <<up, abandoning, delivering, attaching>>
    BY <1>3 DEF MaterializedTooLate
  <2> QED
    BY <1>2, <2>1, <2>2 DEF Status
<1>4. CASE MaterializeFails(t)
  <2>1. /\ stage[t] = "materializing"
        /\ \E status \in {"interrupted", "failed"} : Persist(t, As(t, status))
        /\ \E f : EndChain(t, line, f)
        /\ UNCHANGED <<up, abandoning, delivering, attaching>>
    BY <1>4 DEF MaterializeFails
  <2> QED
    BY <1>1, <1>2, <2>1 DEF Status
<1>5. CASE AgentFails(t) \/ AgentAsks(t)
  <2>1. /\ stage[t] = "agent"
        /\ \E status \in {"interrupted", "failed", "waiting_for_you"}, b \in BOOLEAN :
             Persist(t, [As(t, status) EXCEPT !.answered = b])
        /\ \E f : EndChain(t, line, f)
        /\ UNCHANGED <<up, abandoning, delivering, attaching>>
    BY <1>5 DEF AgentFails, AgentAsks
  <2> QED
    BY <1>1, <1>2, <2>1 DEF Status
<1>6. CASE HookSettles(t)
  <2>1. /\ stage[t] \in {"hook", "checked", "review"}
        /\ \E status \in {"interrupted", "waiting_for_you", "review_ok", "review_ko"} :
             Persist(t, As(t, status))
        /\ \E f : EndChain(t, line, f)
        /\ UNCHANGED <<up, abandoning, delivering, attaching>>
    BY <1>6 DEF HookSettles, Judged
  <2> QED
    BY <1>1, <1>2, <2>1 DEF Status
<1>7. CASE MaterializeBlocks(t)
  <2>1. /\ stage[t] = "materializing" /\ Persist(t, held[t]) /\ \E f : EndChain(t, line, f)
        /\ UNCHANGED <<up, abandoning, delivering, attaching>>
    BY <1>7 DEF MaterializeBlocks
  <2>2. held[t].status = "queued" /\ ~held[t].answered
    BY <1>1, <2>1 DEF Life
  <2> QED
    BY <1>1, <2>1, <2>2, ChainLeaves
<1>8. CASE HookRetries(t)
  <2>1. /\ stage[t] = "review" /\ Persist(t, Replied(held[t])) /\ held[t].turn < MaxTurns
        /\ \E f : \/ EndChain(t, line, f)
                  \/ /\ ~Contains(line, t) /\ Len(line) < QueueMax
                     /\ EndChain(t, Append(line, t), f)
        /\ UNCHANGED <<up, abandoning, delivering, attaching>>
    BY <1>8 DEF HookRetries, InLine
  <2>2. \E l : LineOK(l) /\ \E f : EndChain(t, l, f)
    BY <1>1, <2>1, AppendToLine
  <2>3. /\ Replied(held[t]) \in Record /\ Replied(held[t]).status = "queued"
        /\ ~Replied(held[t]).answered /\ Replied(held[t]).turn >= held[t].turn
    BY <1>1, <2>1, RecordsWritten, NextTurn
  <2> HIDE DEF Replied
  <2> QED
    BY <2>1, <2>2, <2>3, ChainLeaves
<1> QED
  BY <1>3, <1>4, <1>5, <1>6, <1>7, <1>8

\* The steps between the start of an agent and the verdict, and the push.
LEMMA ChainMoves ==
  ASSUME LInv, NEW t \in Tasks,
         \/ Materialized(t) \/ AgentDone(t) \/ HookShips(t) \/ ShipLands(t)
         \/ BeginChecks(t) \/ EndChecks(t) \/ BeginReview(t)
  PROVE  LInv' /\ AllKept
<1>1. /\ disk \in [Tasks -> Record] /\ disk[t] \in Record /\ disk[t].turn \in Nat
      /\ LineOK(line) /\ Life(t, disk, claim, stage, held, abandoning, delivering)
      /\ stage \in [Tasks -> Stage] /\ held \in [Tasks -> Record]
      /\ abandoning \in [Tasks -> {"no", "out", "in_line"}] /\ delivering \subseteq Tasks
      /\ NoRecord \in Record
  BY TurnsAreNumbers, NoRecordTyped DEF LInv
<1>2. up /\ UNCHANGED <<up, claim, abandoning, attaching>>
  <2>1. stage[t] # "none" \/ t \in delivering
    BY DEF Materialized, AgentDone, HookShips, ShipLands, BeginChecks, EndChecks, BeginReview, Judged
  <2> QED
    BY <2>1 DEF LInv, Down, Materialized, AgentDone, HookShips, ShipLands, BeginChecks,
                EndChecks, BeginReview
<1>3. LineOK(line')
  BY <1>1, WithoutDrops DEF Materialized, AgentDone, HookShips, ShipLands, BeginChecks,
                            EndChecks, BeginReview, persisted
<1>4. ASSUME NEW r \in Record, disk' = [disk EXCEPT ![t] = r], r.turn = held[t].turn,
             NEW z \in Record, held' = [held EXCEPT ![t] = z],
             NEW v \in Stage, stage' = [stage EXCEPT ![t] = v], delivering' \subseteq Tasks,
             \A x \in Tasks : x # t => (x \in delivering' <=> x \in delivering),
             r.turn = disk[t].turn, disk[t].status # "shipped",
             stage[t] # "agent" /\ v = "agent" => ~disk[t].answered,
             Life(t, disk', claim, stage', held', abandoning, delivering')
      PROVE  LInv' /\ AllKept
  <2>1. Kept(t)
    BY <1>1, <1>4 DEF Kept
  <2>2. disk' \in [Tasks -> Record] /\ stage' \in [Tasks -> Stage] /\ held' \in [Tasks -> Record]
    BY <1>1, <1>4
  <2> QED
    BY <1>1, <1>2, <1>3, <1>4, <2>1, <2>2, OneIsGood
<1>5. CASE Materialized(t)
  <2>1. PICK r \in Record : /\ disk' = [disk EXCEPT ![t] = r] /\ held' = [held EXCEPT ![t] = r]
                            /\ r.status = "running" /\ r.turn = held[t].turn
    BY <1>5, AsIs DEF Materialized, Persist, Status
  <2>2. /\ stage[t] = "materializing" /\ stage' = [stage EXCEPT ![t] = "agent"]
        /\ UNCHANGED delivering
    BY <1>5 DEF Materialized
  <2>3. Life(t, disk', claim, stage', held', abandoning, delivering')
    BY <1>1, <2>1, <2>2 DEF Life, Active, Reviewing, Hook
  <2>4. /\ r.turn = disk[t].turn /\ disk[t].status # "shipped" /\ ~disk[t].answered
        /\ "agent" \in Stage
    BY <1>1, <2>1, <2>2 DEF Life, Stage, Active
  <2> QED
    BY <1>1, <1>4, <2>1, <2>2, <2>3, <2>4
<1>6. CASE AgentDone(t)
  <2>1. PICK r \in Record : /\ disk' = [disk EXCEPT ![t] = r] /\ held' = [held EXCEPT ![t] = r]
                            /\ r.status = "reviewing" /\ r.turn = held[t].turn
    <3>1. PICK a \in BOOLEAN :
            /\ Persist(t, [As(t, "reviewing") EXCEPT !.answered = a])
            /\ held' = [held EXCEPT ![t] = [As(t, "reviewing") EXCEPT !.answered = a]]
      BY <1>6 DEF AgentDone
    <3>2. "reviewing" \in Status
      BY DEF Status
    <3> QED
      BY <3>1, <3>2, AsIs DEF Persist
  <2>2. /\ stage[t] = "agent" /\ stage' = [stage EXCEPT ![t] = "hook"]
        /\ UNCHANGED delivering
    BY <1>6 DEF AgentDone
  <2>3. Life(t, disk', claim, stage', held', abandoning, delivering')
    BY <1>1, <2>1, <2>2 DEF Life, Active, Reviewing, Hook
  <2>4. r.turn = disk[t].turn /\ disk[t].status # "shipped" /\ "hook" \in Stage
    BY <1>1, <2>1, <2>2 DEF Life, Stage, Active, Hook
  <2> QED
    BY <1>1, <1>4, <2>1, <2>2, <2>3, <2>4
<1>7. CASE HookShips(t)
  <2>1. PICK r \in Record : /\ disk' = [disk EXCEPT ![t] = r] /\ held' = [held EXCEPT ![t] = r]
                            /\ r.status = "review_ok" /\ r.turn = held[t].turn
    BY <1>7, AsIs DEF HookShips, Persist, Status
  <2>2. /\ stage[t] \in {"hook", "checked", "review"} /\ abandoning[t] = "no"
        /\ stage' = [stage EXCEPT ![t] = "shipping"] /\ delivering' = delivering \union {t}
    BY <1>7 DEF HookShips, Judged
  <2>3. Life(t, disk', claim, stage', held', abandoning, delivering')
    BY <1>1, <2>1, <2>2 DEF Life, Active, Reviewing, Hook
  <2>4. r.turn = disk[t].turn /\ disk[t].status # "shipped" /\ "shipping" \in Stage
    BY <1>1, <2>1, <2>2 DEF Life, Stage, Active, Hook, Reviewing
  <2> QED
    BY <1>1, <1>4, <2>1, <2>2, <2>3, <2>4
<1>8. CASE ShipLands(t)
  <2>1. PICK r \in Record : /\ disk' = [disk EXCEPT ![t] = r]
                            /\ r.status = "shipped" /\ r.turn = held[t].turn
                            /\ r = As(t, "shipped")
    BY <1>8, AsIs DEF ShipLands, Persist, Status
  <2>2. t \in delivering /\ stage[t] \in {"none", "shipping"}
    BY <1>8 DEF ShipLands
  <2>3. r.turn = disk[t].turn /\ disk[t].status # "shipped"
    BY <1>1, <2>1, <2>2 DEF Life
  <2>4. CASE stage[t] = "none"
    <3>1. /\ delivering' = delivering \ {t} /\ held' = [held EXCEPT ![t] = NoRecord]
          /\ stage' = [stage EXCEPT ![t] = "none"]
      BY <1>1, <1>8, <2>4 DEF ShipLands
    <3>2. Life(t, disk', claim, stage', held', abandoning, delivering') /\ "none" \in Stage
      BY <1>1, <2>1, <3>1 DEF Life, Active, Reviewing, Hook, Stage
    <3> QED
      BY <1>1, <1>4, <2>1, <2>3, <3>1, <3>2
  <2>5. CASE stage[t] = "shipping"
    <3>1. /\ delivering' = delivering /\ held' = [held EXCEPT ![t] = r]
          /\ stage' = [stage EXCEPT ![t] = "merging"]
      BY <1>8, <2>1, <2>5 DEF ShipLands
    <3>2. Life(t, disk', claim, stage', held', abandoning, delivering') /\ "merging" \in Stage
      BY <1>1, <2>1, <2>2, <3>1 DEF Life, Active, Reviewing, Hook, Stage
    <3> QED
      BY <1>1, <1>4, <2>1, <2>3, <3>1, <3>2
  <2> QED
    BY <2>2, <2>4, <2>5
<1>9. CASE BeginChecks(t) \/ EndChecks(t) \/ BeginReview(t)
  <2>1. /\ stage[t] \in Reviewing /\ UNCHANGED <<disk, held, delivering>>
        /\ \E v \in Reviewing : stage' = [stage EXCEPT ![t] = v]
    BY <1>9 DEF BeginChecks, EndChecks, BeginReview, persisted, Reviewing, Hook
  <2>2. Life(t, disk', claim, stage', held', abandoning, delivering')
    BY <1>1, <2>1 DEF Life, Active, Reviewing, Hook
  <2>3. Kept(t) /\ stage' \in [Tasks -> Stage]
    BY <1>1, <2>1 DEF Kept, Stage, Reviewing, Hook
  <2> QED
    BY <1>1, <1>2, <1>3, <2>1, <2>2, <2>3, OneIsGood
<1> QED
  BY <1>5, <1>6, <1>7, <1>8, <1>9

\* A push that failed, and the word of the merge.
LEMMA DeliveryEnds ==
  ASSUME LInv, NEW t \in Tasks, ShipFails(t) \/ MergeSettles(t)
  PROVE  LInv' /\ AllKept
<1>1. /\ disk \in [Tasks -> Record] /\ disk[t] \in Record /\ disk[t].turn \in Nat
      /\ LineOK(line) /\ Life(t, disk, claim, stage, held, abandoning, delivering)
      /\ stage \in [Tasks -> Stage] /\ held \in [Tasks -> Record]
      /\ abandoning \in [Tasks -> {"no", "out", "in_line"}] /\ delivering \subseteq Tasks
      /\ NoRecord \in Record
  BY TurnsAreNumbers, NoRecordTyped DEF LInv
<1>2. CASE MergeSettles(t)
  <2>1. /\ stage[t] = "merging" /\ delivering' = delivering \ {t}
        /\ \E f : EndChain(t, line, f) /\ UNCHANGED <<up, abandoning, attaching>>
        /\ \E status \in {"shipped", "waiting_for_you"} : Persist(t, As(t, status))
    BY <1>2 DEF MergeSettles
  <2>2. PICK r \in Record : /\ Persist(t, r) /\ r.status \in {"shipped", "waiting_for_you"}
                            /\ r.turn = held[t].turn
    BY <2>1, AsIs DEF Status
  <2>3. r.turn >= disk[t].turn
    BY <1>1, <2>1, <2>2 DEF Life
  <2> QED
    BY <1>1, <2>1, <2>2, <2>3, ChainEndsWell
<1>3. CASE ShipFails(t) /\ stage[t] # "none"
  <2>1. /\ stage[t] = "shipping" /\ delivering' = delivering \ {t} /\ disk' = disk
        /\ \E f : EndChain(t, line, f) /\ UNCHANGED <<up, abandoning, attaching>>
    BY <1>3 DEF ShipFails
  <2>2. Persist(t, disk[t]) /\ disk[t].status = "review_ok" /\ disk[t].turn >= disk[t].turn
    BY <1>1, <2>1 DEF Persist, Life
  <2> QED
    BY <1>1, <2>1, <2>2, ChainEndsWell
<1>4. CASE ShipFails(t) /\ stage[t] = "none"
  <2>1. /\ delivering' = delivering \ {t} /\ held' = [held EXCEPT ![t] = NoRecord]
        /\ t \in delivering /\ UNCHANGED <<disk, line, up, claim, stage, abandoning, attaching>>
    BY <1>4 DEF ShipFails
  <2>2. up' /\ Life(t, disk', claim', stage', held', abandoning', delivering') /\ Kept(t)
    BY <1>1, <1>4, <2>1 DEF Life, Active, Reviewing, Hook, Kept, LInv, Down
  <2> QED
    BY <1>1, <2>1, <2>2, OneIsGood
<1> QED
  BY <1>2, <1>3, <1>4

LEMMA ChainLife ==
  ASSUME LInv, NEW t \in Tasks, Chain(t)
  PROVE  LInv' /\ AllKept
BY ChainSettles, ChainMoves, DeliveryEnds DEF Chain

\* The load moves a chain between its waits and its work, and may wake the pump;
\* a drain answers those who wait.
LEMMA LoadLife ==
  ASSUME LInv, (\E o \in Others : OtherTakes(o) \/ OtherReleases(o)) \/ Shutdown
  PROVE  LInv' /\ AllKept
<1>1. /\ disk \in [Tasks -> Record] /\ stage \in [Tasks -> Stage] /\ held \in [Tasks -> Record]
      /\ LineOK(line) /\ claim \in Tasks \union {None}
      /\ abandoning \in [Tasks -> {"no", "out", "in_line"}] /\ delivering \subseteq Tasks
  BY DEF LInv
<1>2. up /\ UNCHANGED <<up, disk, abandoning, delivering, attaching>>
  BY DEF LInv, Down, OtherTakes, OtherReleases, Shutdown, persisted
<1>3. ASSUME NEW st \in [Tasks -> Stage],
             \A x \in Tasks : st[x] = stage[x] \/ (stage[x] \in Reviewing /\ st[x] \in Reviewing)
      PROVE  Ready(claim, st, held) /\ \A x \in Tasks : st[x] = "agent" => stage[x] = "agent"
  <2>1. ASSUME NEW x \in Tasks PROVE Life(x, disk', claim, st, held, abandoning', delivering')
    <3>1. Life(x, disk, claim, stage, held, abandoning, delivering)
      BY DEF LInv
    <3> QED
      BY <1>2, <1>3, <3>1 DEF Life, Active, Reviewing, Hook
  <2> QED
    BY <1>1, <1>3, <2>1 DEF Ready, Reviewing, Hook
<1>4. CASE Ready(claim', stage', held') /\ LineOK(line')
           /\ \A x \in Tasks : stage'[x] = "agent" => stage[x] = "agent"
  BY <1>1, <1>2, <1>4, StepIsGood, OthersKept DEF AllKept
<1>5. CASE \E o \in Others : OtherTakes(o)
  BY <1>1, <1>3, <1>4, <1>5 DEF OtherTakes, persisted
<1>6. CASE Shutdown
  <2>1. /\ stage' = [t \in Tasks |-> IF stage[t] \in Waits THEN "checked" ELSE stage[t]]
        /\ UNCHANGED <<line, claim, held>>
    BY <1>6 DEF Shutdown, persisted
  <2>2. /\ stage' \in [Tasks -> Stage]
        /\ \A x \in Tasks :
             stage'[x] = stage[x] \/ (stage[x] \in Reviewing /\ stage'[x] \in Reviewing)
    BY <1>1, <2>1 DEF Waits, Reviewing, Hook, Stage
  <2> QED
    BY <1>1, <1>3, <1>4, <2>1, <2>2
<1>7. CASE \E o \in Others : OtherReleases(o)
  <2>1. PICK o \in Others : OtherReleases(o)
    BY <1>7
  <2>2. PICK f \in Freed(o) :
          Pump(line, claim, f.slots,
               [t \in Tasks |-> IF stage[t] \in Waits /\ t \in f.slots
                                  THEN Served[stage[t]] ELSE stage[t]],
               held)
    BY <2>1 DEF OtherReleases
  <2> DEFINE st == [t \in Tasks |-> IF stage[t] \in Waits /\ t \in f.slots
                                      THEN Served[stage[t]] ELSE stage[t]]
  <2>3. ASSUME NEW x \in Tasks
        PROVE  st[x] = stage[x] \/ (stage[x] \in Reviewing /\ st[x] \in Reviewing)
    <3>1. CASE stage[x] \in Waits /\ x \in f.slots
      <4>1. st[x] = Served[stage[x]] /\ stage[x] \in Waits
        BY <3>1
      <4> QED
        BY <4>1, WaitsServed
    <3>2. CASE ~ (stage[x] \in Waits /\ x \in f.slots)
      BY <3>2
    <3> QED
      BY <3>1, <3>2
  <2>4. Pump(line, claim, f.slots, st, held) /\ st = [x \in Tasks |-> st[x]]
    BY <2>2
  <2> HIDE DEF st
  <2>5. st \in [Tasks -> Stage]
    BY <1>1, <2>3, <2>4 DEF Stage, Reviewing, Hook
  <2>6. Ready(claim, st, held) /\ \A x \in Tasks : st[x] = "agent" => stage[x] = "agent"
    BY <1>3, <2>3, <2>5
  <2>7. disk' \in [Tasks -> Record]
    BY <1>1, <1>2
  <2> QED
    BY <1>1, <1>4, <2>4, <2>6, <2>7, PumpLife
<1> QED
  BY <1>5, <1>6, <1>7

\* A process that dies leaves the records and the line.
LEMMA DeathLife ==
  ASSUME LInv,
         Crash \/ \E t \in Tasks : CrashWhileScheduling(t) \/ CrashWhileLeaving(t)
  PROVE  LInv' /\ AllKept
<1>1. /\ disk \in [Tasks -> Record] /\ LineOK(line)
      /\ \A x \in Tasks : /\ Life(x, disk, claim, stage, held, abandoning, delivering)
                          /\ disk[x] \in Record /\ disk[x].turn \in Nat
  BY TurnsAreNumbers DEF LInv
<1>2. Dies
  BY DEF Crash, CrashWhileScheduling, CrashWhileLeaving
<1>3. LineOK(line')
  BY <1>1, WithoutDrops DEF Crash, CrashWhileScheduling, CrashWhileLeaving, persisted
<1>4. ASSUME disk' \in [Tasks -> Record],
             \A x \in Tasks : /\ disk'[x].status = "queued" => ~disk'[x].answered
                              /\ disk'[x].status = "absent" => disk'[x].turn = 0
                              /\ disk'[x].turn >= disk[x].turn
                              /\ disk[x].status = "shipped" => disk'[x].status = "shipped"
      PROVE  LInv' /\ AllKept
  <2>1. /\ up' = FALSE /\ claim' = None
        /\ stage' = [t \in Tasks |-> "none"] /\ held' = [t \in Tasks |-> NoRecord]
        /\ abandoning' = [t \in Tasks |-> "no"] /\ delivering' = {}
        /\ slots' = {} /\ parked' = <<>> /\ attaching' = [t \in Tasks |-> NoRecord]
        /\ draining' = FALSE
    BY <1>2 DEF Dies
  <2>2. ASSUME NEW x \in Tasks
        PROVE  Life(x, disk', claim', stage', held', abandoning', delivering') /\ Kept(x)
    <3>1. stage'[x] = "none" /\ x \notin delivering'
      BY <2>1
    <3> QED
      BY <1>4, <3>1 DEF Life, Active, Reviewing, Hook, Kept
  <2>3. /\ stage' \in [Tasks -> Stage] /\ held' \in [Tasks -> Record]
        /\ abandoning' \in [Tasks -> {"no", "out", "in_line"}]
    BY <2>1, NoRecordTyped DEF Stage
  <2>4. Down'
    BY <1>2, <1>3, <1>4, <2>1, <2>3 DEF Down, Dies
  <2> QED
    BY <1>3, <1>4, <2>1, <2>2, <2>3, <2>4 DEF LInv, AllKept
<1>5. CASE disk' = disk
  <2>1. ASSUME NEW x \in Tasks
        PROVE  /\ disk'[x].status = "queued" => ~disk'[x].answered
               /\ disk'[x].status = "absent" => disk'[x].turn = 0
               /\ disk'[x].turn >= disk[x].turn
    BY <1>1, <1>5 DEF Life
  <2> QED
    BY <1>1, <1>4, <1>5, <2>1
<1>6. ASSUME NEW t \in Tasks, CrashWhileScheduling(t) PROVE LInv' /\ AllKept
  <2>1. PICK r \in Record :
          /\ Persist(t, r) /\ r.status = "queued" /\ ~r.answered /\ r.turn >= disk[t].turn
          /\ disk[t].status # "shipped"
    <3>1. disk[t] \in Record /\ disk[t].turn \in Nat
      BY <1>1
    <3>2. CASE CanCreate(t) /\ Persist(t, Created)
      <4>1. disk[t].turn = 0 /\ ~Created.answered /\ Created.turn = 1 /\ disk[t].status = "absent"
        BY <1>1, <3>2 DEF CanCreate, Life, Created
      <4> QED
        BY <3>2, <4>1, RecordsWritten
    <3>3. CASE CanReply(t) /\ Persist(t, Replied(disk[t]))
      <4>1. disk[t].turn < MaxTurns /\ disk[t].status # "shipped"
        BY <3>3 DEF CanReply, Replyable
      <4>2. /\ Replied(disk[t]) \in Record /\ Replied(disk[t]).status = "queued"
            /\ ~Replied(disk[t]).answered /\ Replied(disk[t]).turn >= disk[t].turn
        BY <3>1, <4>1, RecordsWritten, NextTurn
      <4> HIDE DEF Replied
      <4> QED
        BY <3>3, <4>1, <4>2
    <3>4. CASE CanResume(t) /\ Persist(t, Resumed(disk[t]))
      <4>1. disk[t].status = "interrupted" /\ ~disk[t].answered
        BY <3>4 DEF CanResume
      <4>2. /\ Resumed(disk[t]) \in Record /\ Resumed(disk[t]).status = "queued"
            /\ ~Resumed(disk[t]).answered /\ Resumed(disk[t]).turn >= disk[t].turn
        BY <3>1, <4>1, RecordsWritten, NextTurn
      <4> QED
        BY <3>4, <4>1, <4>2
    <3> QED
      BY <1>6, <3>2, <3>3, <3>4 DEF CrashWhileScheduling
  <2>2. disk' \in [Tasks -> Record] /\ disk'[t] = r /\ \A x \in Tasks : x # t => disk'[x] = disk[x]
    BY <2>1, Wrote
  <2>3. ASSUME NEW x \in Tasks
        PROVE  /\ disk'[x].status = "queued" => ~disk'[x].answered
               /\ disk'[x].status = "absent" => disk'[x].turn = 0
               /\ disk'[x].turn >= disk[x].turn
               /\ disk[x].status = "shipped" => disk'[x].status = "shipped"
    <3>1. CASE x = t
      BY <2>1, <2>2, <3>1
    <3>2. CASE x # t
      BY <1>1, <2>2, <3>2 DEF Life
    <3> QED
      BY <3>1, <3>2
  <2> QED
    BY <1>4, <2>2, <2>3
<1> QED
  BY <1>5, <1>6 DEF Crash, CrashWhileLeaving, persisted

\* What a boot writes: another status over the same turn, and never another one
\* over a shipped task.
LEMMA BootWrites ==
  ASSUME disk \in [Tasks -> Record], Boot, NEW t \in Tasks
  PROVE  /\ disk'[t] \in Record
         /\ disk'[t].turn = disk[t].turn /\ disk'[t].answered = disk[t].answered
         /\ disk[t].status \in {"shipped", "absent"} => disk'[t].status = disk[t].status
         /\ disk'[t].status \in {"queued", "absent"} => disk[t].status = disk'[t].status
<1>1. disk[t] \in Record /\ disk[t].status \in Status
  BY DEF Record
<1>2. PICK lost \in SUBSET {x \in Tasks :
                              disk[x].status \in {"running", "reviewing", "interrupted"}} :
        disk' = [x \in Tasks |-> [disk[x] EXCEPT !.status =
                  CASE x \in lost -> "failed"
                    [] x \notin lost /\ @ \in {"running", "reviewing"} -> "interrupted"
                    [] @ = "queued" /\ ~written -> "interrupted"
                    [] OTHER -> @]]
  BY DEF Boot
<1>3. PICK status : /\ disk'[t] = [disk[t] EXCEPT !.status = status]
                    /\ status \in {"failed", "interrupted"} \/ status = disk[t].status
                    /\ disk[t].status \in {"shipped", "absent"} => status = disk[t].status
  <2>1. CASE t \in lost
    BY <1>2, <2>1
  <2>2. CASE t \notin lost /\ disk[t].status \in {"running", "reviewing"}
    BY <1>2, <2>2
  <2>3. CASE /\ t \notin lost /\ disk[t].status \notin {"running", "reviewing"}
             /\ disk[t].status = "queued" /\ ~written
    BY <1>2, <2>3
  <2>4. CASE /\ t \notin lost /\ disk[t].status \notin {"running", "reviewing"}
             /\ ~ (disk[t].status = "queued" /\ ~written)
    BY <1>2, <2>4
  <2> QED
    BY <2>1, <2>2, <2>3, <2>4
<1>4. /\ disk'[t].status = status /\ disk'[t].turn = disk[t].turn
      /\ disk'[t].answered = disk[t].answered
  BY <1>1, <1>3 DEF Record
<1>5. status \in Status
  BY <1>1, <1>3 DEF Status
<1> QED
  BY <1>1, <1>3, <1>4, <1>5, StatusTyped

\* A boot settles the records, and launches what its first pump finds.
LEMMA BootLife ==
  ASSUME LInv, Boot
  PROVE  LInv' /\ AllKept
<1>1. /\ Down /\ LineOK(line) /\ disk \in [Tasks -> Record] /\ up'
      /\ UNCHANGED <<abandoning, delivering, attaching>>
      /\ stage \in [Tasks -> Stage] /\ held \in [Tasks -> Record]
      /\ abandoning \in [Tasks -> {"no", "out", "in_line"}] /\ delivering \subseteq Tasks
      /\ claim \in Tasks \union {None}
      /\ \A x \in Tasks : /\ Life(x, disk, claim, stage, held, abandoning, delivering)
                          /\ disk[x].turn \in Nat
  BY TurnsAreNumbers DEF Boot, LInv
<1>2. \A x \in Tasks : stage[x] = "none" /\ x \notin delivering
  BY <1>1 DEF Down
<1>3. disk' \in [Tasks -> Record]
  <2>1. \E F : disk' = [x \in Tasks |-> F[x]] /\ F = disk'
    <3>1. disk' = [x \in Tasks |-> disk'[x]]
      BY DEF Boot
    <3> QED
      BY <3>1
  <2> QED
    BY <1>1, <2>1, BootWrites
<1> DEFINE Q == {t \in Tasks : disk'[t].status = "queued"}
<1>4. PICK tail \in SetToSeqs({t \in Q : ~Contains(line, t)}) :
        Pump(SubSeq(Only(line, Q) \o tail, 1, Min({QueueMax, Len(Only(line, Q) \o tail)})),
             claim, slots, stage, held)
  BY DEF Boot, InLine
<1> DEFINE l == SubSeq(Only(line, Q) \o tail, 1, Min({QueueMax, Len(Only(line, Q) \o tail)}))
<1>5. LineOK(l)
  <2>1. Q \in SUBSET Tasks
    OBVIOUS
  <2> HIDE DEF Q
  <2> QED
    BY <1>1, <2>1, BootedLine
<1>6. Pump(l, claim, slots, stage, held)
  BY <1>4
<1> HIDE DEF l
<1>7. ASSUME NEW x \in Tasks
      PROVE  /\ Life(x, disk', claim, stage, held, abandoning', delivering')
             /\ disk'[x].turn >= disk[x].turn
             /\ disk[x].status = "shipped" => disk'[x].status = "shipped"
  BY <1>1, <1>2, BootWrites DEF Life, Active, Reviewing, Hook
<1>8. Ready(claim, stage, held)
  BY <1>1, <1>7 DEF Ready
<1>9. /\ LineOK(line') /\ Ready(claim', stage', held')
      /\ \A x \in Tasks : stage'[x] = "agent" => stage[x] = "agent"
  BY <1>3, <1>5, <1>6, <1>8, PumpLife
<1>10. LInv'
  BY <1>1, <1>3, <1>9, StepIsGood
<1> QED
  BY <1>7, <1>9, <1>10 DEF Kept, AllKept

LEMMA InitLife == Init => LInv
<1> SUFFICES ASSUME Init PROVE LInv
  OBVIOUS
<1>1. /\ disk \in [Tasks -> Record] /\ held \in [Tasks -> Record] /\ stage \in [Tasks -> Stage]
      /\ abandoning \in [Tasks -> {"no", "out", "in_line"}]
  BY NoRecordTyped DEF Init, Stage
<1>2. \A x \in Tasks : Life(x, disk, claim, stage, held, abandoning, delivering)
  BY DEF Init, Life, NoRecord, Active, Reviewing, Hook
<1> QED
  BY <1>1, <1>2, EmptyLoad DEF Init, LInv

LEMMA NextLife ==
  ASSUME Scratch = {}, LInv, Next
  PROVE  LInv' /\ AllKept
<1>1. \A t \in Tasks : ~AttachEnd(t)
  BY DEF LInv, AttachEnd
<1> QED
  BY <1>1, GestureLife, ChainLife, RemovalLife, LoadLife, DeathLife, BootLife DEF Next

LEMMA StutterLife ==
  ASSUME LInv, UNCHANGED vars
  PROVE  LInv'
BY DEF vars, LInv, Down

LEMMA LInvHolds == Scratch = {} => (Spec => []LInv)
<1> SUFFICES ASSUME Scratch = {} PROVE Spec => []LInv
  OBVIOUS
<1>1. Init => LInv
  BY InitLife
<1>2. LInv /\ [Next]_vars => LInv'
  BY NextLife, StutterLife
<1> QED
  BY <1>1, <1>2, PTL DEF Spec

\* Shipped is for good, but for the merge step: no crash, no clean-up, no late
\* write of a chain and no failed write of queue.json makes a shipped task
\* anything else.
THEOREM ShippedIsForGood == Scratch = {} => (Spec => ShippedStays)
<1> SUFFICES ASSUME Scratch = {} PROVE Spec => ShippedStays
  OBVIOUS
<1> DEFINE Stays == \A t \in Tasks :
                      disk[t].status = "shipped" =>
                        disk'[t].status = "shipped" \/ stage[t] = "merging"
<1>1. LInv /\ [Next]_vars => [Stays]_vars
  BY NextLife DEF AllKept, Kept
<1> QED
  BY <1>1, LInvHolds, PTL DEF Spec, ShippedStays

\* No turn is run twice: whatever Stop, crash, reboot and failed write of
\* queue.json come in between, the turn of a record never goes back, and an
\* agent is started on a turn that has no answer yet.
THEOREM TurnsAreRunOnce == Scratch = {} => (Spec => TurnsRunOnce)
<1> SUFFICES ASSUME Scratch = {} PROVE Spec => TurnsRunOnce
  OBVIOUS
<1> DEFINE Once == \A t \in Tasks :
                     /\ disk'[t].turn >= disk[t].turn
                     /\ stage[t] # "agent" /\ stage'[t] = "agent" => ~disk[t].answered
<1>1. LInv /\ [Next]_vars => [Once]_vars
  BY NextLife DEF AllKept, Kept
<1> QED
  BY <1>1, LInvHolds, PTL DEF Spec, TurnsRunOnce

=============================================================================
