---------------------------- MODULE MachineProofs ----------------------------
(***************************************************************************)
(* What runs beside the tasks. The two passes of a boot clean up after the  *)
(* right tasks, whatever is created, run, abandoned and stopped beside      *)
(* them; the runner's pidfile names who serves; the watchdog cuts a run     *)
(* with cause; and the cut owns the outcome.                                *)
(***************************************************************************)
EXTENDS MCMachine, Integers, TLAPS

-----------------------------------------------------------------------------
(* Worktrees and volumes (Housekeeping).                                     *)
(*                                                                         *)
(* The invariant says what a record stands for (Stands) and what the       *)
(* retention knows of the task it is at, although the snapshot it works on *)
(* is as old as the boot (Pass): that task has ended, the sweep of the     *)
(* same boot counts it among the claimed, and from the removal of its      *)
(* worktree on there is none.                                              *)

\* What a record stands for.
Stands(t) ==
  /\ t \in Foreign => record[t] = "unborn"
  /\ record[t] \in {"live", "ended"} => dir[t]
  /\ record[t] # "live" => turn[t] = "idle"
  /\ record[t] = "unborn" => /\ abandon[t] = "none" /\ t \notin memo
                             /\ t \in Tasks => home[t] = "none"
  /\ record[t] = "gone" => tree[t] = "none"
  /\ abandon[t] # "none" => turn[t] = "idle"
  /\ abandon[t] = "releasing" => record[t] # "live"
  /\ t \in memo => (t \in claimed \/ dir[t]) /\ turn[t] \in {"idle", "runs"}

\* The tasks past the window, and the one the retention is at.
Pass ==
  /\ \A t \in Tasks : t \in beyond \/ t = at =>
       t \in claimed /\ record[t] \in {"ended", "gone"}
  /\ retention \in {"releases", "drops"} => tree[at] = "none"
  /\ ~up => /\ memo = {} /\ beyond = {} /\ at = Nobody /\ sweep = "off"
            /\ \A t \in Ids : turn[t] = "idle" /\ abandon[t] = "none"

IInv == TypeOK /\ Pass /\ \A t \in Ids : Stands(t)

\* A volume without credentials is being seeded, or its task has ended, or its
\* seeding was cut short.
Seeded ==
  \A t \in Ids :
    /\ turn[t] = "runs" => home[t] # "none"
    /\ record[t] = "live" /\ home[t] = "bare" => turn[t] = "seed" \/ t \in bared

\* A worktree that was found clean is still clean when it is removed.
WeighedClean == retention = "removes" => tree[at] # "dirty"

-----------------------------------------------------------------------------
LEMMA SomeTask == Tasks \subseteq Ids /\ Nobody \notin Tasks /\ Tasks \cap Foreign = {}
BY HouseParameters DEF ParametersAreSound, Ids

LEMMA InitIInv == Init => IInv
<1> SUFFICES ASSUME Init PROVE IInv
  OBVIOUS
<1>1. TypeOK
  BY DEF Init, TypeOK
<1>2. Pass
  BY SomeTask DEF Init, Pass
<1>3. \A t \in Ids : Stands(t)
  BY SomeTask DEF Init, Stands, Ids
<1> QED
  BY <1>1, <1>2, <1>3 DEF IInv

\* The tasks' own steps, from their creation to the end of a turn.
LEMMA TaskIInv ==
  ASSUME IInv, NEW t \in Ids,
         \/ Create(t) \/ TurnStarts(t) \/ Inspect(t) \/ CreateHome(t)
         \/ CreateFails(t) \/ Seed(t) \/ TurnEnds(t) \/ Edit(t)
  PROVE  IInv'
<1>1. CASE Create(t)
  BY <1>1, SomeTask
     DEF Create, IInv, TypeOK, Pass, Stands, Ids, others, sweeping, retaining, history
<1>2. CASE TurnStarts(t)
  BY <1>2, SomeTask DEF TurnStarts, IInv, TypeOK, Pass, Stands, Ids, disk, others, sweeping,
                        retaining, history
<1>3. CASE Inspect(t)
  BY <1>3, SomeTask DEF Inspect, IInv, TypeOK, Pass, Stands, Ids, disk, others, sweeping,
                        retaining, history
<1>4. CASE CreateHome(t)
  BY <1>4, SomeTask DEF CreateHome, IInv, TypeOK, Pass, Stands, Ids, disk, others, sweeping,
                        retaining, history
<1>5. CASE Seed(t)
  <2>1. /\ turn[t] = "seed"
        /\ UNCHANGED <<dir, tree, up, abandon, sweep, claimed, todo, retention, beyond, at,
                       left, owed>>
    BY <1>5 DEF Seed, others, sweeping, retaining
  <2>2. \/ /\ home' = [home EXCEPT ![t] = "seeded"] /\ turn' = [turn EXCEPT ![t] = "runs"]
           /\ memo' = memo \cup {t} /\ record' = record /\ bared' = bared
        \/ /\ turn' = [turn EXCEPT ![t] = "idle"] /\ home' = home /\ memo' = memo
           /\ \/ record' = [record EXCEPT ![t] = "live"]
              \/ record' = [record EXCEPT ![t] = "ended"]
           /\ bared' \in {bared, bared \cup {t}}
    BY <1>5 DEF Seed, SeedOutcome, TurnFails
  <2>3. record[t] = "live" /\ up /\ t \in Tasks /\ t \notin beyond /\ t # at
    BY <2>1, SomeTask DEF IInv, TypeOK, Pass, Stands, Ids
  <2>7. /\ record' \in [Ids -> {"unborn", "live", "ended", "gone"}]
        /\ home' \in [Ids -> {"none", "bare", "seeded"}]
        /\ turn' \in [Ids -> {"idle", "inspect", "create", "seed", "runs"}]
        /\ memo' \subseteq Tasks /\ bared' \subseteq Ids
    BY <2>2, <2>3 DEF IInv, TypeOK, Ids
  <2>8. \A x \in memo' : home'[x] # "none"
    BY <2>2, <2>3 DEF IInv, TypeOK, Ids
  <2>4. TypeOK'
    BY <2>1, <2>7, <2>8 DEF IInv, TypeOK
  <2>5. Pass'
    BY <2>1, <2>2, <2>3 DEF IInv, TypeOK, Pass
  <2>6. \A x \in Ids : Stands(x)'
    BY <2>1, <2>2, <2>3, SomeTask DEF IInv, TypeOK, Stands, Ids
  <2> QED
    BY <2>4, <2>5, <2>6 DEF IInv
<1>8. CASE CreateFails(t)
  BY <1>8, SomeTask DEF CreateFails, TurnFails, IInv, TypeOK, Pass, Stands, Ids, others,
                        sweeping, retaining, history
<1>6. CASE TurnEnds(t)
  BY <1>6, SomeTask DEF TurnEnds, IInv, TypeOK, Pass, Stands, Ids, others, sweeping,
                        retaining, history
<1>7. CASE Edit(t)
  BY <1>7, SomeTask DEF Edit, IInv, TypeOK, Pass, Stands, Ids, others, sweeping,
                        retaining, history
<1> QED
  BY <1>1, <1>2, <1>3, <1>4, <1>5, <1>6, <1>7, <1>8

\* An abandon, whatever the retention has done to the task meanwhile.
LEMMA AbandonIInv ==
  ASSUME IInv, NEW t \in Ids,
         \/ AbandonBegins(t) \/ AbandonFails(t) \/ AbandonReleases(t)
         \/ \E keepsBranch \in BOOLEAN : AbandonRemoves(t, keepsBranch)
  PROVE  IInv'
<1>1. CASE AbandonBegins(t)
  BY <1>1, SomeTask DEF AbandonBegins, IInv, TypeOK, Pass, Stands, Ids, disk, sweeping,
                        retaining, history
<1>2. CASE AbandonFails(t)
  BY <1>2, SomeTask DEF AbandonFails, IInv, TypeOK, Pass, Stands, Ids, disk, sweeping,
                        retaining, history
<1>3. CASE AbandonReleases(t)
  BY <1>3, SomeTask DEF AbandonReleases, Release, IInv, TypeOK, Pass, Stands, Ids, sweeping,
                        retaining, history
<1>4. CASE \E keepsBranch \in BOOLEAN : AbandonRemoves(t, keepsBranch)
  <2>1. TypeOK'
    BY <1>4, SomeTask DEF AbandonRemoves, IInv, TypeOK, sweeping, retaining, history
  <2>2. Pass'
    BY <1>4, SomeTask DEF AbandonRemoves, IInv, TypeOK, Pass, Ids, sweeping, retaining
  <2>3. \A x \in Ids : Stands(x)'
    BY <1>4, SomeTask DEF AbandonRemoves, IInv, TypeOK, Stands, Ids, sweeping, retaining
  <2> QED
    BY <2>1, <2>2, <2>3 DEF IInv
<1> QED
  BY <1>1, <1>2, <1>3, <1>4

\* What the sweep takes had no directory at boot, and has none now.
LEMMA JudgesOrphans ==
  ASSUME IInv, NEW t \in Ids, SweepJudges(t)
  PROVE  \/ home' = home
         \/ /\ home' = [home EXCEPT ![t] = "none"]
            /\ Owner(t) # "them" /\ t \notin claimed /\ ~dir[t]
<1>1. home \in [Ids -> {"none", "bare", "seeded"}]
  BY DEF IInv, TypeOK
<1>2. PICK removed \in IF Judged(t) /\ Orphan(t) THEN BOOLEAN ELSE {FALSE} :
        home' = [home EXCEPT ![t] = IF removed THEN "none" ELSE @]
  BY DEF SweepJudges
<1>3. CASE ~(Judged(t) /\ Orphan(t))
  <2>1. ~removed
    BY <1>3
  <2> QED
    BY <1>1, <1>2, <2>1
<1>4. CASE Judged(t) /\ Orphan(t)
  <2>1. Owner(t) # "them" /\ t \notin claimed /\ ~dir[t]
    BY <1>4 DEF Judged, Orphan, ClaimedIds
  <2>2. removed \in BOOLEAN
    BY <1>4
  <2>3. CASE removed
    BY <1>2, <2>1, <2>3
  <2>4. CASE ~removed
    BY <1>1, <1>2, <2>4
  <2> QED
    BY <2>2, <2>3, <2>4
<1> QED
  BY <1>3, <1>4

\* The sweep, which may find the volumes of tasks that were not there at boot.
LEMMA SweepIInv ==
  ASSUME IInv,
         \/ SweepSkips \/ SweepLists \/ SweepEnds \/ \E t \in Ids : SweepJudges(t)
  PROVE  IInv'
<1>1. CASE SweepSkips
  BY <1>1 DEF SweepSkips, IInv, TypeOK, Pass, Stands, disk, others, retaining, history
<1>2. CASE SweepLists
  BY <1>2 DEF SweepLists, IInv, TypeOK, Pass, Stands, disk, others, retaining, history
<1>3. CASE SweepEnds
  BY <1>3 DEF SweepEnds, IInv, TypeOK, Pass, Stands, disk, others, retaining, history
<1>4. ASSUME NEW t \in Ids, SweepJudges(t) PROVE IInv'
  <2>1. /\ todo' = todo \ {t}
        /\ \/ home' = home
           \/ /\ home' = [home EXCEPT ![t] = "none"] /\ t \notin claimed /\ ~dir[t]
        /\ UNCHANGED <<record, dir, tree, memo, turn, up, abandon, sweep, claimed, retention,
                       beyond, at, left, owed, bared>>
    BY <1>4, JudgesOrphans DEF SweepJudges, disk, others, retaining, history
  <2>2. \A x \in memo : home'[x] = home[x]
    BY <2>1, SomeTask DEF IInv, Stands, TypeOK
  <2>3. TypeOK'
    BY <2>1, <2>2 DEF IInv, TypeOK
  <2>4. Pass' /\ \A x \in Ids : Stands(x)'
    BY <2>1, <2>2 DEF IInv, TypeOK, Pass, Stands
  <2> QED
    BY <2>3, <2>4 DEF IInv
<1> QED
  BY <1>1, <1>2, <1>3, <1>4

\* The retention, one await after the other.
LEMMA RetentionIInv ==
  ASSUME IInv,
         \/ RetentionRemoves \/ RetentionReleases \/ RetentionDrops \/ RetentionEnds
         \/ \E t \in Ids : RetentionWeighs(t)
  PROVE  IInv'
<1>1. CASE RetentionRemoves
  BY <1>1, SomeTask DEF RetentionRemoves, AfterRemoval, IInv, TypeOK, Pass, Stands, Ids, others,
                        sweeping, history
<1>2. CASE RetentionReleases
  BY <1>2, SomeTask DEF RetentionReleases, Release, IInv, TypeOK, Pass, Stands, Ids, disk, others,
                        sweeping
<1>3. CASE RetentionDrops
  <2>1. /\ retention = "drops" /\ retention' = "weighs" /\ at' = Nobody
        /\ \/ record' = [record EXCEPT ![at] = "gone"] /\ dir' = [dir EXCEPT ![at] = FALSE]
           \/ record' = record /\ dir' = dir
        /\ UNCHANGED <<tree, home, memo, turn, up, abandon, sweep, claimed, todo, beyond, left,
           owed, bared>>
    BY <1>3 DEF RetentionDrops, IInv, TypeOK, others, sweeping, history
  <2>2. /\ at \in Tasks /\ at \in claimed /\ record[at] \in {"ended", "gone"} /\ tree[at] = "none"
        /\ up
    BY <2>1 DEF IInv, TypeOK, Pass
  <2>3. TypeOK'
    BY <2>1 DEF IInv, TypeOK
  <2>4. Pass'
    BY <2>1, <2>2, <2>3, SomeTask DEF IInv, TypeOK, Pass
  <2>5. \A x \in Ids : Stands(x)'
    BY <2>1, <2>2, SomeTask DEF IInv, TypeOK, Stands
  <2> QED
    BY <2>3, <2>4, <2>5 DEF IInv
<1>4. CASE RetentionEnds
  BY <1>4, SomeTask DEF RetentionEnds, IInv, TypeOK, Pass, Stands, Ids, disk, others, sweeping,
                        history
<1>5. ASSUME NEW t \in Ids, RetentionWeighs(t) PROVE IInv'
  BY <1>5, SomeTask DEF RetentionWeighs, IInv, TypeOK, Pass, Stands, Ids, disk, others, sweeping,
                        history
<1> QED
  BY <1>1, <1>2, <1>3, <1>4, <1>5

\* A boot takes its snapshots, the end of a process forgets them.
LEMMA ProcessIInv ==
  ASSUME IInv, Boot \/ Crash \/ Shutdown
  PROVE  IInv'
<1>1. CASE Boot
  <2>1. PICK kept \in SUBSET {t \in Ids : record[t] = "ended"} :
          beyond' = {t \in Ids : record[t] = "ended"} \ kept
    BY <1>1 DEF Boot
  <2>2. /\ ~up /\ up' = TRUE /\ sweep' = "lists" /\ claimed' = {t \in Ids : dir[t]}
        /\ retention' = "weighs" /\ owed' = left
        /\ UNCHANGED <<record, dir, tree, home, memo, turn, abandon, todo, at, left, bared>>
    BY <1>1 DEF Boot, ClaimedIds, disk
  <2>3. beyond' \subseteq Tasks
    BY <2>1 DEF IInv, Stands, Ids
  <2> QED
    BY <2>1, <2>2, <2>3, SomeTask DEF IInv, TypeOK, Pass, Stands, Ids
<1>2. CASE Crash \/ Shutdown
  <2>1. ProcessEnds
    BY <1>2 DEF Crash, Shutdown
  <2> QED
    <3>1. TypeOK'
      BY <2>1, SomeTask DEF ProcessEnds, IInv, TypeOK, disk, history
    <3>2. Pass'
      BY <2>1, SomeTask DEF ProcessEnds, Pass, Ids
    <3>3. \A x \in Ids : Stands(x)'
      BY <2>1, SomeTask DEF ProcessEnds, IInv, Stands, disk
    <3> QED
      BY <3>1, <3>2, <3>3 DEF IInv
<1> QED
  BY <1>1, <1>2

LEMMA NextIInv == IInv /\ [Next]_vars => IInv'
<1> SUFFICES ASSUME IInv, [Next]_vars PROVE IInv'
  OBVIOUS
<1>1. CASE UNCHANGED vars
  BY <1>1 DEF vars, IInv, TypeOK, Pass, Stands
<1> QED
  BY <1>1, TaskIInv, AbandonIInv, SweepIInv, RetentionIInv, ProcessIInv DEF Next

LEMMA IInvHolds == Spec => []IInv
BY InitIInv, NextIInv, PTL DEF Spec

\* Whatever crashes, no record is dropped over a worktree that still stands, and
\* every variable keeps its type.
THEOREM NoWorktreeIsOrphaned == Spec => [](TypeOK /\ NoOrphanTree)
<1>1. IInv => TypeOK /\ NoOrphanTree
  BY SomeTask DEF IInv, Stands, NoOrphanTree
<1> QED
  BY <1>1, IInvHolds, PTL


-----------------------------------------------------------------------------
\* A volume without credentials, over interruptions and crashes.
LEMMA NextSeeded ==
  ASSUME IInv, Seeded, [Next]_vars
  PROVE  Seeded'
<1>1. ASSUME NEW t \in Ids, Create(t) \/ Edit(t) \/ TurnStarts(t) \/ Inspect(t) \/ CreateHome(t)
      PROVE  Seeded'
  <2>1. CASE Create(t)
    BY <1>1, <2>1, SomeTask DEF Create, IInv, TypeOK, Stands, Seeded, Ids, history
  <2>2. CASE Edit(t)
    BY <2>2 DEF Edit, Seeded, history
  <2>3. CASE TurnStarts(t)
    BY <1>1, <2>3 DEF TurnStarts, IInv, TypeOK, Seeded, disk, history
  <2>4. CASE Inspect(t)
    BY <1>1, <2>4 DEF Inspect, IInv, TypeOK, Stands, Seeded, disk, history
  <2>5. CASE CreateHome(t)
    BY <1>1, <2>5 DEF CreateHome, IInv, TypeOK, Seeded, disk, history
  <2> QED
    BY <1>1, <2>1, <2>2, <2>3, <2>4, <2>5
<1>2. ASSUME NEW t \in Ids, CreateFails(t) \/ Seed(t) \/ TurnEnds(t) PROVE Seeded'
  <2>1. CASE Seed(t)
    <3>1. \/ /\ home' = [home EXCEPT ![t] = "seeded"] /\ turn' = [turn EXCEPT ![t] = "runs"]
             /\ record' = record /\ bared' = bared
          \/ /\ turn' = [turn EXCEPT ![t] = "idle"] /\ home' = home
             /\ \/ record' = [record EXCEPT ![t] = "live"] /\ bared' = bared \cup {t}
                \/ record' = [record EXCEPT ![t] = "ended"] /\ bared' = bared
      BY <2>1 DEF Seed, SeedOutcome, TurnFails
    <3> QED
      BY <3>1 DEF IInv, TypeOK, Seeded
  <2>2. CASE TurnEnds(t)
    BY <1>2, <2>2 DEF TurnEnds, IInv, TypeOK, Stands, Seeded, history
  <2>3. CASE CreateFails(t)
    BY <1>2, <2>3 DEF CreateFails, TurnFails, IInv, TypeOK, Stands, Seeded, history
  <2> QED
    BY <1>2, <2>1, <2>2, <2>3
<1>3. ASSUME NEW t \in Ids, AbandonBegins(t) \/ AbandonFails(t) \/ AbandonReleases(t)
      PROVE Seeded'
  <2>1. CASE AbandonBegins(t) \/ AbandonFails(t)
    BY <2>1 DEF AbandonBegins, AbandonFails, Seeded, disk, history
  <2>2. CASE AbandonReleases(t)
    <3>1. /\ record[t] # "live" /\ turn[t] = "idle" /\ record' = record /\ turn' = turn
          /\ bared' = bared
      BY <1>3, <2>2 DEF AbandonReleases, IInv, TypeOK, Stands
    <3>2. home' = home \/ home' = [home EXCEPT ![t] = "none"]
      BY <2>2 DEF AbandonReleases, Release
    <3> QED
      BY <3>1, <3>2 DEF IInv, TypeOK, Seeded
  <2> QED
    BY <1>3, <2>1, <2>2
<1>4. ASSUME NEW t \in Ids, NEW keepsBranch, AbandonRemoves(t, keepsBranch) PROVE Seeded'
  BY <1>4 DEF AbandonRemoves, IInv, TypeOK, Seeded, history
<1>5. ASSUME NEW t \in Ids, SweepJudges(t) PROVE Seeded'
  <2>1. /\ record' = record /\ turn' = turn /\ bared' = bared
        /\ \/ home' = home
           \/ home' = [home EXCEPT ![t] = "none"] /\ t \notin claimed /\ ~dir[t]
    BY <1>5, JudgesOrphans DEF SweepJudges, disk, history
  <2>2. CASE home' = home
    BY <2>1, <2>2 DEF Seeded
  <2>3. CASE home' = [home EXCEPT ![t] = "none"] /\ ~dir[t]
    <3>1. turn[t] = "idle"
      BY <2>3, SomeTask DEF IInv, TypeOK, Stands
    <3> QED
      BY <2>1, <2>3, <3>1 DEF IInv, TypeOK, Seeded
  <2> QED
    BY <2>1, <2>2, <2>3
<1>6. CASE SweepSkips \/ SweepLists \/ SweepEnds \/ RetentionRemoves \/ RetentionEnds \/ Boot
           \/ \E t \in Ids : RetentionWeighs(t)
  BY <1>6 DEF SweepSkips, SweepLists, SweepEnds, RetentionRemoves, RetentionEnds, Boot,
              RetentionWeighs, Seeded, disk, history
<1>7. CASE RetentionReleases \/ RetentionDrops
  <2>1. at \in Tasks /\ record[at] # "live" /\ turn[at] = "idle"
    BY <1>7, SomeTask DEF RetentionReleases, RetentionDrops, IInv, TypeOK, Pass, Stands
  <2>2. CASE RetentionReleases
    BY <2>1, <2>2 DEF RetentionReleases, Release, IInv, TypeOK, Seeded, disk, history
  <2>3. CASE RetentionDrops
    BY <2>1, <2>3 DEF RetentionDrops, IInv, TypeOK, Seeded, history
  <2> QED
    BY <1>7, <2>2, <2>3
<1>8. CASE Crash \/ Shutdown
  <2>1. /\ turn' = [t \in Ids |-> "idle"] /\ record' = record /\ home' = home
        /\ bared' = bared \cup {t \in Ids : turn[t] = "seed"}
    BY <1>8 DEF Crash, Shutdown, ProcessEnds, disk
  <2> QED
    BY <2>1 DEF Seeded
<1>9. CASE UNCHANGED vars
  BY <1>9 DEF vars, Seeded
<1> QED
  BY <1>1, <1>2, <1>3, <1>4, <1>5, <1>6, <1>7, <1>8, <1>9 DEF Next

\* The house is in order for any tasks, whatever crashes, is interrupted or fails:
\* no record is dropped over a worktree that stands, and what a caged turn is given
\* has not been swept from under it, and has had its credentials unless its
\* seeding was cut short, by a crash or an interruption.
THEOREM HouseIsInOrder == Spec => []HouseInOrder
<1>1. Init => Seeded
  BY SomeTask DEF Init, Seeded, Ids
<1>2. IInv /\ Seeded /\ [Next]_vars => Seeded'
  BY NextSeeded
<1>3. IInv /\ Seeded => HouseInOrder
  BY SomeTask DEF TypeOK, IInv, Stands, Seeded, HouseInOrder, NoOrphanTree, TurnsAreSeeded
<1> QED
  BY <1>1, <1>2, <1>3, IInvHolds, PTL DEF Spec

-----------------------------------------------------------------------------
\* Nobody loses the HOME of a task that may have another turn, nor that of
\* another user: the sweep takes what had no directory at boot and has none now,
\* the two releases come for a task that has ended.
LEMMA NextKeepsHomes == IInv /\ [Next]_vars => KeepsHomesOfOthers
<1> SUFFICES ASSUME IInv, [Next]_vars, NEW t \in Ids, home[t] # "none", home'[t] = "none"
             PROVE  record[t] \in {"ended", "gone"}
  BY DEF KeepsHomesOfOthers
<1>1. CASE UNCHANGED home
  BY <1>1
<1>2. ASSUME NEW x \in Ids, CreateHome(x) \/ Seed(x)
      PROVE  home'[t] # "none"
  BY <1>2 DEF CreateHome, Seed, SeedOutcome, IInv, TypeOK
<1>3. ASSUME NEW x \in Ids, AbandonReleases(x) PROVE record[t] \in {"ended", "gone"}
  <2>1. x = t
    BY <1>3 DEF AbandonReleases, Release, IInv, TypeOK
  <2> QED
    BY <1>3, <2>1 DEF AbandonReleases, IInv, TypeOK, Stands
<1>4. ASSUME NEW x \in Ids, SweepJudges(x) PROVE record[t] \in {"ended", "gone"}
  <2>1. x = t /\ ~dir[t] /\ Owner(t) # "them"
    BY <1>4, JudgesOrphans DEF SweepJudges, IInv, TypeOK
  <2> QED
    BY <2>1, SomeTask DEF Owner, IInv, TypeOK, Stands, Ids
<1>5. CASE RetentionReleases
  <2>1. at \in Tasks /\ record[at] \in {"ended", "gone"}
    BY <1>5 DEF RetentionReleases, IInv, TypeOK, Pass
  <2>2. t = at
    BY <1>5 DEF RetentionReleases, Release, IInv, TypeOK
  <2> QED
    BY <2>1, <2>2
<1>6. CASE Next
  <2>1. ASSUME NEW x \in Ids, \/ Create(x) \/ TurnStarts(x) \/ Inspect(x) \/ CreateFails(x)
                              \/ TurnEnds(x) \/ Edit(x)
                              \/ AbandonBegins(x) \/ AbandonFails(x) \/ RetentionWeighs(x)
        PROVE  UNCHANGED home
    BY <2>1 DEF Create, TurnStarts, Inspect, CreateFails, TurnEnds, Edit, AbandonBegins,
                AbandonFails, RetentionWeighs
  <2>2. ASSUME NEW x \in Ids, NEW keepsBranch, AbandonRemoves(x, keepsBranch)
        PROVE  UNCHANGED home
    BY <2>2 DEF AbandonRemoves
  <2>3. ASSUME \/ SweepSkips \/ SweepLists \/ SweepEnds \/ RetentionRemoves \/ RetentionDrops
               \/ RetentionEnds \/ Boot \/ Crash \/ Shutdown
        PROVE  UNCHANGED home
    BY <2>3
       DEF SweepSkips, SweepLists, SweepEnds, RetentionRemoves, RetentionDrops, RetentionEnds,
                Boot, Crash, Shutdown, ProcessEnds
  <2> QED
    BY <1>1, <1>2, <1>3, <1>4, <1>5, <1>6, <2>1, <2>2, <2>3 DEF Next
<1> QED
  BY <1>1, <1>6 DEF vars

\* What the retention weighed as clean stays clean: its task has ended, so no
\* turn writes there, and no human does (Edits).
LEMMA NextWeighed ==
  ASSUME Edits = FALSE, IInv, WeighedClean, [Next]_vars
  PROVE  WeighedClean'
<1>1. at = Nobody \/ at \in Ids
  BY SomeTask DEF IInv, TypeOK
<1>2. CASE RetentionRemoves \/ RetentionReleases \/ RetentionDrops \/ RetentionEnds
           \/ Boot \/ Crash \/ Shutdown
  BY <1>2
     DEF RetentionRemoves, AfterRemoval, RetentionReleases, RetentionDrops, RetentionEnds, Boot,
              Crash, Shutdown, ProcessEnds, WeighedClean
<1>3. ASSUME NEW t \in Ids, RetentionWeighs(t) PROVE WeighedClean'
  BY <1>3 DEF RetentionWeighs, Clears, WeighedClean, disk
<1>4. ASSUME NEW t \in Ids, TurnEnds(t) PROVE WeighedClean'
  <2>1. record[t] = "live" /\ t \in Ids
    BY <1>4 DEF TurnEnds, IInv, TypeOK, Stands
  <2>2. retention = "removes" => at # t
    BY <2>1 DEF IInv, TypeOK, Pass
  <2> QED
    BY <1>4, <2>2 DEF TurnEnds, retaining, WeighedClean, IInv, TypeOK
<1>5. ASSUME NEW t \in Ids, Create(t) PROVE WeighedClean'
  BY <1>5 DEF Create, retaining, WeighedClean, IInv, TypeOK
<1>6. ASSUME NEW t \in Ids, NEW keepsBranch, AbandonRemoves(t, keepsBranch) PROVE WeighedClean'
  BY <1>6 DEF AbandonRemoves, retaining, WeighedClean, IInv, TypeOK
<1>7. ASSUME NEW t \in Ids, \/ TurnStarts(t) \/ Inspect(t) \/ CreateHome(t) \/ CreateFails(t)
                            \/ Seed(t) \/ Edit(t) \/ AbandonBegins(t) \/ AbandonFails(t) \/ AbandonReleases(t)
                            \/ SweepJudges(t)
      PROVE  WeighedClean'
  BY <1>7 DEF TurnStarts, Inspect, CreateHome, CreateFails, Seed, Edit, AbandonBegins,
              AbandonFails, AbandonReleases, SweepJudges, disk, retaining, WeighedClean
<1>8. CASE SweepSkips \/ SweepLists \/ SweepEnds \/ UNCHANGED vars
  BY <1>8 DEF SweepSkips, SweepLists, SweepEnds, disk, retaining, vars, WeighedClean
<1> QED
  BY <1>2, <1>3, <1>4, <1>5, <1>6, <1>7, <1>8 DEF Next

\* Uncommitted work goes with an abandon of its own task, or stays.
LEMMA NextKeepsWork ==
  ASSUME IInv, WeighedClean, [Next]_vars
  PROVE  KeepsUncommitted
<1> SUFFICES ASSUME NEW t \in Ids, tree[t] = "dirty", tree'[t] = "none"
             PROVE  abandon[t] = "removing"
  BY DEF KeepsUncommitted
<1>1. CASE UNCHANGED tree
  BY <1>1
<1>2. ASSUME NEW x \in Ids, Create(x) \/ TurnEnds(x) \/ Edit(x) PROVE tree'[t] # "none"
  BY <1>2 DEF Create, TurnEnds, Edit, IInv, TypeOK
<1>3. ASSUME NEW x \in Ids, NEW keepsBranch, AbandonRemoves(x, keepsBranch)
      PROVE  abandon[t] = "removing"
  BY <1>3 DEF AbandonRemoves, IInv, TypeOK
<1>4. ASSUME RetentionRemoves PROVE FALSE
  BY <1>4 DEF RetentionRemoves, WeighedClean, IInv, TypeOK
<1>5. CASE Next
  <2>1. ASSUME NEW x \in Ids, \/ TurnStarts(x) \/ Inspect(x) \/ CreateHome(x) \/ CreateFails(x)
                              \/ Seed(x) \/ AbandonBegins(x) \/ AbandonFails(x) \/ AbandonReleases(x)
                              \/ SweepJudges(x) \/ RetentionWeighs(x)
        PROVE  UNCHANGED tree
    BY <2>1 DEF TurnStarts, Inspect, CreateHome, CreateFails, Seed, AbandonBegins,
                AbandonFails, AbandonReleases, SweepJudges, RetentionWeighs, disk
  <2>2. ASSUME \/ SweepSkips \/ SweepLists \/ SweepEnds \/ RetentionReleases \/ RetentionDrops
               \/ RetentionEnds \/ Boot \/ Crash \/ Shutdown
        PROVE  UNCHANGED tree
    BY <2>2
       DEF SweepSkips, SweepLists, SweepEnds, RetentionReleases, RetentionDrops, RetentionEnds,
                Boot, Crash, Shutdown, ProcessEnds, disk
  <2> QED
    BY <1>1, <1>2, <1>3, <1>4, <1>5, <2>1, <2>2 DEF Next
<1> QED
  BY <1>1, <1>5 DEF vars

\* The clean-up takes what is its own only, for any tasks and users and with
\* crashes at any step, as long as no human writes into a worktree between its
\* weighing and its removal (see the counterexamples).
THEOREM OnlyItsOwnIsCleaned == Edits = FALSE => (Spec => CleansItsOwnOnly)
<1> SUFFICES ASSUME Edits = FALSE PROVE Spec => CleansItsOwnOnly
  OBVIOUS
<1>1. Init => WeighedClean
  BY DEF Init, WeighedClean
<1>2. IInv /\ WeighedClean /\ [Next]_vars => WeighedClean'
  BY NextWeighed
<1>3. IInv /\ WeighedClean /\ [Next]_vars => [KeepsHomesOfOthers /\ KeepsUncommitted]_vars
  BY NextKeepsHomes, NextKeepsWork
<1> QED
  BY <1>1, <1>2, <1>3, IInvHolds, PTL DEF Spec, CleansItsOwnOnly

\* And whoever writes where, the HOMEs of the living and of others stay.
THEOREM HomesAreKept == Spec => [][KeepsHomesOfOthers]_vars
<1>1. IInv /\ [Next]_vars => [KeepsHomesOfOthers]_vars
  BY NextKeepsHomes
<1> QED
  BY <1>1, IInvHolds, PTL DEF Spec

-----------------------------------------------------------------------------
(* The pidfile of the runner (RunnerPidfile, as GapPidfile) *)

\* What is known whoever runs between a look and its follow-up: the lock is one
\* daemon's, a pid that was written is of a daemon that has begun, and a removal
\* is of a pid that is dead for good.
Begun(p) == p \in Daemons => daemon[p] # "off"
Dead(p) == p \in Daemons => daemon[p] = "gone"

PidInv ==
  /\ GapPidfile!TypeOK
  /\ \A d, e \in Daemons : GapPidfile!HoldsTheLock(d) /\ GapPidfile!HoldsTheLock(e) => d = e
  /\ Begun(file)
  /\ \A c \in Callers :
       /\ Begun(seen[c])
       /\ pidPc[c] \in {"removing", "unlinking"} => Dead(seen[c])
       /\ pidPc[c] # "done" => said[c] = "nothing"
       /\ said[c] = "stopped" => seen[c] \in Daemons /\ Dead(seen[c]) /\ file # seen[c]

\* Nothing comes between a look and its follow-up.
NoGap ==
  /\ \A d \in Daemons : daemon[d] # "unlinking"
  /\ \A c \in Callers : pidPc[c] \notin {"renaming", "unlinking"}
  /\ GapPidfile!Findable

LEMMA PidInit == GapPidfile!ParametersAreSound /\ GapPidfile!Init => PidInv /\ NoGap
BY
   DEF GapPidfile!ParametersAreSound, GapPidfile!Init, PidInv, NoGap, GapPidfile!TypeOK,
       GapPidfile!HoldsTheLock, Begun, Dead, GapPidfile!Findable, GapPidfile!Pids

\* What a daemon's step does: it goes on to `where', and the file is as it was,
\* opened, written or gone.
Goes(d, where) ==
  /\ daemon' = [daemon EXCEPT ![d] = where]
  /\ file' \in {file, GapPidfile!Absent, GapPidfile!Torn, d} /\ legacy' \in BOOLEAN
  /\ UNCHANGED <<signalled, pidPc, op, seen, said>>

LEMMA GoesKeeps ==
  ASSUME GapPidfile!ParametersAreSound, PidInv, NEW d \in Daemons,
         NEW where \in {"booting", "writing", "serving", "draining", "unlinking", "gone"},
         Goes(d, where), daemon[d] # "gone", file' = d => file = d \/ daemon[d] # "off",
         \/ GapPidfile!HoldsTheLock(d)
         \/ where \in {"unlinking", "gone"}
         \/ \A e \in Daemons : ~GapPidfile!HoldsTheLock(e)
  PROVE  PidInv' /\ \A e \in Daemons : daemon'[e] = IF e = d THEN where ELSE daemon[e]
<1> USE DEF GapPidfile!ParametersAreSound, GapPidfile!Pids
<1>1. GapPidfile!TypeOK'
  BY DEF PidInv, GapPidfile!TypeOK, Goes
<1>2. \A e \in Daemons : daemon'[e] = IF e = d THEN where ELSE daemon[e]
  BY DEF PidInv, GapPidfile!TypeOK, Goes
<1>3. \A p : (Begun(p) => Begun(p)') /\ (Dead(p) => Dead(p)' /\ p # d)
  BY <1>2 DEF Begun, Dead
<1>4. (\A x, y \in Daemons : GapPidfile!HoldsTheLock(x) /\ GapPidfile!HoldsTheLock(y) => x = y)'
  BY <1>2 DEF PidInv, GapPidfile!HoldsTheLock
<1>5. Begun(file)'
  BY <1>2, <1>3 DEF Goes, PidInv, Begun
<1>6. ASSUME NEW c \in Callers
      PROVE  /\ Begun(seen[c])'
             /\ pidPc'[c] \in {"removing", "unlinking"} => Dead(seen[c])'
             /\ pidPc'[c] # "done" => said'[c] = "nothing"
             /\ said'[c] = "stopped" => seen'[c] \in Daemons /\ Dead(seen[c])' /\ file' # seen'[c]
  BY <1>3 DEF Goes, PidInv
<1> QED
  BY <1>1, <1>2, <1>4, <1>5, <1>6 DEF PidInv

LEMMA DaemonStep ==
  ASSUME GapPidfile!ParametersAreSound, PidInv, NEW d \in Daemons,
         \/ GapPidfile!Boots(d) \/ GapPidfile!Opens(d) \/ GapPidfile!Writes(d)
            \/ GapPidfile!Terminates(d) \/ GapPidfile!Releases(d)
         \/ GapPidfile!UnlinksOwn(d) \/ GapPidfile!Dies(d)
  PROVE  PidInv' /\ (~PidfileGap /\ NoGap => NoGap')
<1>0. daemon \in [Daemons -> {"off", "booting", "writing", "serving", "draining", "unlinking",
      "gone"}]
      /\ legacy \in BOOLEAN /\ (\A x, y \in Daemons : GapPidfile!HoldsTheLock(x)
         /\ GapPidfile!HoldsTheLock(y) => x = y)
  BY DEF PidInv, GapPidfile!TypeOK
<1> USE DEF GapPidfile!disk, GapPidfile!caller
<1>1. CASE GapPidfile!Boots(d)
  <2>1. Goes(d, "booting") /\ UNCHANGED file
    BY <1>0, <1>1 DEF GapPidfile!Boots, Goes
  <2> QED
    BY <1>1, <2>1, GoesKeeps DEF GapPidfile!Boots, Goes, NoGap, GapPidfile!Findable
<1>2. CASE GapPidfile!Opens(d)
  <2>1. Goes(d, "writing")
    BY <1>0, <1>2 DEF GapPidfile!Opens, Goes
  <2>2. daemon[d] = "booting" /\ UNCHANGED pidPc /\ file' = GapPidfile!Torn
    BY <1>2 DEF GapPidfile!Opens
  <2>3. GapPidfile!HoldsTheLock(d)
    BY <2>2 DEF GapPidfile!HoldsTheLock
  <2>4. PidInv' /\ \A e \in Daemons : daemon'[e] = IF e = d THEN "writing" ELSE daemon[e]
    BY <2>1, <2>2, <2>3, GoesKeeps DEF GapPidfile!ParametersAreSound
  <2>5. \A e \in Daemons : daemon[e] # "serving"
    BY <1>0, <2>2 DEF GapPidfile!HoldsTheLock
  <2> QED
    BY <2>2, <2>4, <2>5 DEF NoGap, GapPidfile!Findable
<1>3. CASE GapPidfile!Writes(d)
  <2>1. Goes(d, "serving")
    BY <1>0, <1>3 DEF GapPidfile!Writes, Goes
  <2>2. daemon[d] = "writing" /\ UNCHANGED pidPc /\ file' = d
    BY <1>3 DEF GapPidfile!Writes
  <2>3. GapPidfile!HoldsTheLock(d)
    BY <2>2 DEF GapPidfile!HoldsTheLock
  <2>4. PidInv' /\ \A e \in Daemons : daemon'[e] = IF e = d THEN "serving" ELSE daemon[e]
    BY <2>1, <2>2, <2>3, GoesKeeps
  <2>5. \A e \in Daemons : daemon[e] # "serving"
    BY <1>0, <2>2 DEF GapPidfile!HoldsTheLock
  <2> QED
    BY <2>2, <2>4, <2>5 DEF NoGap, GapPidfile!Findable
<1>4. CASE GapPidfile!Terminates(d)
  <2>1. (Goes(d, "draining") \/ Goes(d, "gone")) /\ UNCHANGED <<file, pidPc>>
        /\ GapPidfile!HoldsTheLock(d)
    BY <1>0, <1>4 DEF GapPidfile!Terminates, Goes, GapPidfile!HoldsTheLock
  <2>2. daemon[d] # "gone" /\ daemon[d] # "off"
    BY <2>1 DEF GapPidfile!HoldsTheLock
  <2>3. PidInv' /\ \A e \in Daemons : daemon'[e] = daemon[e] \/ daemon'[e] \in {"draining", "gone"}
    BY <2>1, <2>2, GoesKeeps
  <2> QED
    BY <2>1, <2>3 DEF NoGap, GapPidfile!Findable
<1>5. CASE GapPidfile!Releases(d)
  <2>1. daemon[d] = "draining" /\ UNCHANGED pidPc /\ GapPidfile!HoldsTheLock(d)
    BY <1>5 DEF GapPidfile!Releases, GapPidfile!HoldsTheLock
  <2>2. CASE file = d /\ PidfileGap
    <3>1. Goes(d, "unlinking")
      BY <1>0, <1>5, <2>2 DEF GapPidfile!Releases, GapPidfile!Named, Goes
    <3> QED
      BY <2>1, <2>2, <3>1, GoesKeeps
  <2>3. CASE ~(file = d /\ PidfileGap)
    <3>1. Goes(d, "gone") /\ (file' = file \/ (file = d /\ file' = GapPidfile!Absent))
      <4>1. CASE file = d
        BY <1>0, <1>5, <2>3, <4>1 DEF GapPidfile!Releases, GapPidfile!Named, Goes
      <4>2. CASE file # d
        <5>1. daemon' = [daemon EXCEPT ![d] = "gone"] /\ UNCHANGED file
          BY <1>5, <4>2 DEF GapPidfile!Releases, GapPidfile!Named
        <5>2. UNCHANGED <<legacy, signalled, pidPc, op, seen, said>>
          BY <1>5 DEF GapPidfile!Releases
        <5>3. legacy' \in BOOLEAN
          BY <1>0, <5>2
        <5> QED
          BY <5>1, <5>2, <5>3 DEF Goes
      <4> QED
        BY <4>1, <4>2
    <3>2. PidInv' /\ \A e \in Daemons : daemon'[e] = IF e = d THEN "gone" ELSE daemon[e]
      BY <2>1, <3>1, GoesKeeps
    <3> QED
      BY <2>1, <3>1, <3>2 DEF NoGap, GapPidfile!Findable
  <2> QED
    BY <2>2, <2>3
<1>6. CASE GapPidfile!UnlinksOwn(d)
  <2>1. Goes(d, "gone") /\ daemon[d] = "unlinking" /\ ~NoGap
    BY <1>0, <1>6 DEF GapPidfile!UnlinksOwn, Goes, NoGap
  <2> QED
    BY <2>1, GoesKeeps
<1>7. CASE GapPidfile!Dies(d)
  <2>1. Goes(d, "gone") /\ UNCHANGED <<file, pidPc>> /\ daemon[d] \notin {"off", "gone"}
    BY <1>0, <1>7 DEF GapPidfile!Dies, GapPidfile!isPidAlive, Goes
  <2>2. PidInv' /\ \A e \in Daemons : daemon'[e] = IF e = d THEN "gone" ELSE daemon[e]
    BY <2>1, GoesKeeps
  <2> QED
    BY <2>1, <2>2 DEF NoGap, GapPidfile!Findable
<1> QED
  BY <1>1, <1>2, <1>3, <1>4, <1>5, <1>6, <1>7

\* What a caller's step does: it moves to `where', having seen `pid' and answered
\* `word', and the file is as it was, gone, or brain.pid's.
Moves(c, where, pid, word) ==
  /\ pidPc' = [pidPc EXCEPT ![c] = where] /\ seen' = [seen EXCEPT ![c] = pid]
  /\ said' = [said EXCEPT ![c] = word]
  /\ file' \in {file, GapPidfile!Absent, GapPidfile!OldPid} /\ legacy' \in BOOLEAN
  /\ op' \in [Callers -> {"stop", "status"}] /\ signalled' \in SUBSET Daemons
  /\ UNCHANGED daemon

LEMMA MovesKeep ==
  ASSUME GapPidfile!ParametersAreSound, PidInv, NEW c \in Callers, NEW pid \in GapPidfile!Pids,
         NEW where \in {"renaming", "read", "waiting", "removing", "unlinking", "done"},
         NEW word \in {"nothing", "not running", "running", "stopped", "timed out"},
         Moves(c, where, pid, word), Begun(pid),
         where \in {"removing", "unlinking"} => Dead(pid),
         where # "done" => word = "nothing",
         word = "stopped" => pid \in Daemons /\ Dead(pid) /\ file' # pid
  PROVE  /\ PidInv'
         /\ \A b \in Callers : b # c => pidPc'[b] = pidPc[b]
         /\ pidPc'[c] = where
<1>0. /\ pidPc \in [Callers -> {"idle", "renaming", "read", "waiting", "removing", "unlinking",
         "done"}]
      /\ seen \in [Callers -> GapPidfile!Pids]
      /\ said \in [Callers -> {"nothing", "not running", "running", "stopped", "timed out"}]
  BY DEF PidInv, GapPidfile!TypeOK
<1>1. GapPidfile!TypeOK'
  BY DEF PidInv, GapPidfile!TypeOK, Moves, GapPidfile!Pids
<1>2. (\A x, y \in Daemons : GapPidfile!HoldsTheLock(x) /\ GapPidfile!HoldsTheLock(y) => x = y)'
      /\ Begun(file)'
  BY DEF PidInv, Moves, GapPidfile!HoldsTheLock, Begun, GapPidfile!ParametersAreSound
<1>3. pidPc'[c] = where /\ seen'[c] = pid /\ said'[c] = word
  BY <1>0 DEF Moves
<1>4. \A b \in Callers : b # c => pidPc'[b] = pidPc[b] /\ seen'[b] = seen[b] /\ said'[b] = said[b]
  BY <1>0 DEF Moves
<1>5. \A p : (Begun(p) => Begun(p)') /\ (Dead(p) => Dead(p)')
  BY DEF Moves, Begun, Dead
<1>6. ASSUME NEW b \in Callers
      PROVE  /\ Begun(seen[b])'
             /\ pidPc'[b] \in {"removing", "unlinking"} => Dead(seen[b])'
             /\ pidPc'[b] # "done" => said'[b] = "nothing"
             /\ said'[b] = "stopped" => seen'[b] \in Daemons /\ Dead(seen[b])' /\ file' # seen'[b]
  <2>1. CASE b = c
    BY <1>3, <1>5, <2>1 DEF Begun, Dead, Moves
  <2>2. CASE b # c
    <3>1. pidPc'[b] = pidPc[b] /\ seen'[b] = seen[b] /\ said'[b] = said[b]
      BY <1>4, <2>2
    <3>2. seen[b] \in Daemons /\ file # seen[b] => file' # seen[b]
      BY DEF Moves, GapPidfile!ParametersAreSound
    <3> QED
      BY <1>5, <3>1, <3>2 DEF PidInv, Begun, Dead
  <2> QED
    BY <2>1, <2>2
<1> QED
  BY <1>1, <1>2, <1>3, <1>4, <1>6 DEF PidInv

\* Reading the file: the pid of a daemon that has begun, or nobody; the reader is
\* not about to remove it and answers nothing but "not running".
LEMMA Learned ==
  ASSUME GapPidfile!ParametersAreSound, PidInv, NEW c \in Callers, NEW x \in {file,
      GapPidfile!OldPid},
         GapPidfile!Learns(c, x), pidPc[c] \in {"idle", "renaming"}, op' \in [Callers -> {"stop",
             "status"}],
         file' \in {file, GapPidfile!OldPid}, legacy' \in BOOLEAN, UNCHANGED <<daemon, signalled>>
  PROVE  /\ PidInv'
         /\ \A b \in Callers : b # c => pidPc'[b] = pidPc[b]
         /\ pidPc'[c] \in {"read", "done"}
<1>1. CASE x \in GapPidfile!Pids
  <2>1. Moves(c, "read", x, "nothing") /\ Begun(x)
    BY <1>1
       DEF GapPidfile!Learns, GapPidfile!At, PidInv, GapPidfile!TypeOK, Moves, Begun,
           GapPidfile!ParametersAreSound
  <2> QED
    BY <1>1, <2>1, MovesKeep
<1>2. CASE x \notin GapPidfile!Pids
  <2>1. Moves(c, "done", seen[c], "not running") /\ Begun(seen[c]) /\ seen[c] \in GapPidfile!Pids
    BY <1>2
       DEF GapPidfile!Learns, GapPidfile!At, GapPidfile!Answers, PidInv, GapPidfile!TypeOK, Moves,
           Begun, GapPidfile!ParametersAreSound
  <2> QED
    BY <2>1, MovesKeep
<1> QED
  BY <1>1, <1>2

LEMMA CallerStep ==
  ASSUME GapPidfile!ParametersAreSound, PidInv, NEW c \in Callers,
         \/ GapPidfile!Reads(c) \/ GapPidfile!Renames(c) \/ GapPidfile!Judges(c)
            \/ GapPidfile!Waits(c) \/ GapPidfile!Confirms(c) \/ GapPidfile!Unlinks(c)
  PROVE  PidInv' /\ (~PidfileGap /\ NoGap => NoGap')
<1>0. seen[c] \in GapPidfile!Pids /\ Begun(seen[c])
      /\ pidPc[c] \in {"idle", "renaming", "read", "waiting", "removing", "unlinking", "done"}
      /\ said[c] \in {"nothing", "not running", "running", "stopped", "timed out"}
      /\ GapPidfile!TypeOK /\ (pidPc[c] # "done" => said[c] = "nothing")
         /\ (pidPc[c] \in {"removing", "unlinking"} => Dead(seen[c]))
  BY DEF PidInv, GapPidfile!TypeOK
<1>1. CASE GapPidfile!Reads(c)
  <2>0. op' \in [Callers -> {"stop", "status"}] /\ pidPc[c] = "idle"
        /\ UNCHANGED <<daemon, signalled>>
    BY <1>0, <1>1 DEF GapPidfile!Reads, GapPidfile!TypeOK
  <2>1. CASE legacy /\ file = GapPidfile!Absent /\ PidfileGap
    <3>1. Moves(c, "renaming", seen[c], "nothing")
      BY <1>0, <1>1, <2>0, <2>1
         DEF GapPidfile!Reads, Moves, GapPidfile!TypeOK, GapPidfile!At, GapPidfile!disk
    <3> QED
      BY <1>0, <2>1, <3>1, MovesKeep
  <2>2. CASE legacy /\ file = GapPidfile!Absent /\ ~PidfileGap
    <3>1. file' = GapPidfile!OldPid /\ legacy' = FALSE /\ GapPidfile!Learns(c, GapPidfile!OldPid)
      BY <1>1, <2>2 DEF GapPidfile!Reads
    <3>2. /\ PidInv' /\ pidPc'[c] \in {"read", "done"}
          /\ \A b \in Callers : b # c => pidPc'[b] = pidPc[b]
      BY <2>0, <3>1, Learned
    <3> QED
      BY <2>0, <2>2, <3>1, <3>2 DEF NoGap, GapPidfile!Findable, GapPidfile!ParametersAreSound
  <2>3. CASE ~(legacy /\ file = GapPidfile!Absent)
    <3>1. UNCHANGED <<file, legacy>> /\ GapPidfile!Learns(c, file)
      BY <1>1, <2>3 DEF GapPidfile!Reads, GapPidfile!disk
    <3>2. /\ PidInv' /\ pidPc'[c] \in {"read", "done"}
          /\ \A b \in Callers : b # c => pidPc'[b] = pidPc[b]
      BY <1>0, <2>0, <3>1, Learned DEF GapPidfile!TypeOK
    <3> QED
      BY <2>0, <3>1, <3>2 DEF NoGap, GapPidfile!Findable
  <2> QED
    BY <2>1, <2>2, <2>3
<1>2. CASE GapPidfile!Renames(c)
  <2>0. op' \in [Callers -> {"stop", "status"}] /\ pidPc[c] = "renaming"
        /\ UNCHANGED <<daemon, signalled>> /\ ~NoGap
    BY <1>0, <1>2 DEF GapPidfile!Renames, GapPidfile!TypeOK, NoGap
  <2>1. file' \in {file, GapPidfile!OldPid} /\ legacy' \in BOOLEAN
        /\ \E x \in {file, GapPidfile!OldPid} : GapPidfile!Learns(c, x)
    BY <1>0, <1>2 DEF GapPidfile!Renames, GapPidfile!TypeOK, GapPidfile!disk
  <2> QED
    BY <2>0, <2>1, Learned
<1>3. CASE GapPidfile!Judges(c)
  <2>0. pidPc[c] = "read" /\ UNCHANGED <<file, legacy, daemon, op, seen>>
    BY <1>3 DEF GapPidfile!Judges, GapPidfile!disk
  <2>1. \/ ~GapPidfile!isPidAlive(seen[c]) /\ Moves(c, "removing", seen[c], "nothing")
        \/ Moves(c, "done", seen[c], "running")
        \/ Moves(c, "waiting", seen[c], "nothing")
    BY <1>0, <1>3, <2>0
       DEF GapPidfile!Judges, Moves, GapPidfile!TypeOK, GapPidfile!At, GapPidfile!Answers,
           GapPidfile!isPidAlive
  <2>2. ~GapPidfile!isPidAlive(seen[c]) => Dead(seen[c])
    BY <1>0 DEF GapPidfile!isPidAlive, Dead, Begun
  <2>3. /\ PidInv' /\ pidPc'[c] \in {"removing", "done", "waiting"}
        /\ \A b \in Callers : b # c => pidPc'[b] = pidPc[b]
    BY <1>0, <2>1, <2>2, MovesKeep
  <2> QED
    BY <2>0, <2>3 DEF NoGap, GapPidfile!Findable
<1>4. CASE GapPidfile!Waits(c)
  <2>0. pidPc[c] = "waiting" /\ UNCHANGED <<file, legacy, daemon, op, seen>>
    BY <1>4 DEF GapPidfile!Waits, GapPidfile!disk
  <2>1. \/ ~GapPidfile!isPidAlive(seen[c]) /\ Moves(c, "removing", seen[c], "nothing")
        \/ Moves(c, "done", seen[c], "timed out")
    BY <1>0, <1>4, <2>0
       DEF GapPidfile!Waits, Moves, GapPidfile!TypeOK, GapPidfile!At, GapPidfile!Answers,
           GapPidfile!isPidAlive
  <2>2. ~GapPidfile!isPidAlive(seen[c]) => Dead(seen[c])
    BY <1>0 DEF GapPidfile!isPidAlive, Dead, Begun
  <2>3. /\ PidInv' /\ pidPc'[c] \in {"removing", "done"}
        /\ \A b \in Callers : b # c => pidPc'[b] = pidPc[b]
    BY <1>0, <2>1, <2>2, MovesKeep
  <2> QED
    BY <2>0, <2>3 DEF NoGap, GapPidfile!Findable
<1>5. GapPidfile!Verdict(c) \in {"stopped", "not running"}
      /\ (GapPidfile!Verdict(c) = "stopped" => seen[c] \in Daemons)
  BY <1>0 DEF GapPidfile!Verdict, GapPidfile!TypeOK
<1>6. CASE GapPidfile!Confirms(c)
  <2>0. pidPc[c] = "removing" /\ UNCHANGED <<legacy, daemon, signalled, op, seen>> /\ Dead(seen[c])
    BY <1>0, <1>6 DEF GapPidfile!Confirms
  <2>1. CASE file = seen[c] /\ PidfileGap
    <3>1. Moves(c, "unlinking", seen[c], "nothing")
      BY <1>0, <1>6, <2>0, <2>1
         DEF GapPidfile!Confirms, GapPidfile!Named, Moves, GapPidfile!TypeOK, GapPidfile!At
    <3> QED
      BY <1>0, <2>0, <2>1, <3>1, MovesKeep
  <2>2. CASE ~(file = seen[c] /\ PidfileGap)
    <3>1. Moves(c, "done", seen[c], GapPidfile!Verdict(c)) /\ file' # seen[c] /\ (file' = file
          \/ file = seen[c])
      <4>0. seen[c] # GapPidfile!Absent
        BY <1>0
           DEF GapPidfile!ParametersAreSound, GapPidfile!Pids, GapPidfile!Absent,
               GapPidfile!OldPid
      <4>1. CASE file = seen[c]
        BY <1>0, <1>6, <2>0, <2>2, <4>0, <4>1
           DEF GapPidfile!Confirms, GapPidfile!Named, Moves, GapPidfile!TypeOK, GapPidfile!At,
               GapPidfile!Answers
      <4>2. CASE file # seen[c]
        BY <1>0, <1>6, <2>0, <4>2
           DEF GapPidfile!Confirms, GapPidfile!Named, Moves, GapPidfile!TypeOK, GapPidfile!At,
               GapPidfile!Answers
      <4> QED
        BY <4>1, <4>2
    <3>2. /\ PidInv' /\ pidPc'[c] = "done"
          /\ \A b \in Callers : b # c => pidPc'[b] = pidPc[b]
      BY <1>0, <1>5, <2>0, <3>1, MovesKeep
    <3>3. GapPidfile!Findable => GapPidfile!Findable'
      BY <2>0, <3>1 DEF GapPidfile!Findable, Dead
    <3> QED
      BY <2>0, <3>2, <3>3 DEF NoGap
  <2> QED
    BY <2>1, <2>2
<1>7. CASE GapPidfile!Unlinks(c)
  <2>0. pidPc[c] = "unlinking" /\ UNCHANGED <<legacy, daemon, signalled, op, seen>>
        /\ Dead(seen[c]) /\ ~NoGap
    BY <1>0, <1>7 DEF GapPidfile!Unlinks, NoGap
  <2>1. Moves(c, "done", seen[c], GapPidfile!Verdict(c)) /\ file' = GapPidfile!Absent
    BY <1>0, <1>7, <2>0
       DEF GapPidfile!Unlinks, Moves, GapPidfile!TypeOK, GapPidfile!At, GapPidfile!Answers
  <2>2. seen[c] \in Daemons => file' # seen[c]
    BY <2>1 DEF GapPidfile!ParametersAreSound
  <2> QED
    BY <1>0, <1>5, <2>0, <2>1, <2>2, MovesKeep
<1> QED
  BY <1>1, <1>2, <1>3, <1>4, <1>6, <1>7

LEMMA PidStep ==
  ASSUME GapPidfile!ParametersAreSound, PidInv, [GapPidfile!Next]_(GapPidfile!vars)
  PROVE  PidInv' /\ (~PidfileGap /\ NoGap => NoGap')
<1>1. CASE UNCHANGED GapPidfile!vars
  BY <1>1
     DEF GapPidfile!vars, PidInv, NoGap, GapPidfile!TypeOK, Begun, Dead, GapPidfile!HoldsTheLock,
         GapPidfile!Findable
<1> QED
  BY <1>1, DaemonStep, CallerStep DEF GapPidfile!Next

\* What a stop reports stopped is not named by the file any more, whoever runs
\* between a look at the disk and what follows it (runner-commands.ts,
\* runner-pidfile.ts).
THEOREM StoppedIsGone == GapPidfile!Spec => []GapPidfile!StoppedIsForgotten
<1>1. GapPidfile!Init => PidInv
  BY PidInit, PartsAreSound DEF PartsAreSound
<1>2. PidInv /\ [GapPidfile!Next]_(GapPidfile!vars) => PidInv'
  BY PidStep, PartsAreSound DEF PartsAreSound
<1>3. PidInv => GapPidfile!StoppedIsForgotten
  BY DEF PidInv, GapPidfile!StoppedIsForgotten
<1> QED
  BY <1>1, <1>2, <1>3, PTL DEF GapPidfile!Spec

\* The daemon that serves can be found, however often it is stopped, looked at,
\* crashed and started again, where nobody runs between a look and its follow-up.
THEOREM ServingIsFound == ~PidfileGap => (GapPidfile!Spec => []GapPidfile!Findable)
<1> SUFFICES ASSUME ~PidfileGap PROVE GapPidfile!Spec => []GapPidfile!Findable
  OBVIOUS
<1>1. GapPidfile!Init => PidInv /\ NoGap
  BY PidInit, PartsAreSound DEF PartsAreSound
<1>2. PidInv /\ NoGap /\ [GapPidfile!Next]_(GapPidfile!vars) => (PidInv /\ NoGap)'
  BY PidStep, PartsAreSound DEF PartsAreSound
<1>3. NoGap => GapPidfile!Findable
  BY DEF NoGap
<1> QED
  BY <1>1, <1>2, <1>3, PTL DEF GapPidfile!Spec

-----------------------------------------------------------------------------
(* The watchdog of a run (Watchdog, as Dog) *)

\* The poll is finer than the escalation and its margin (agent.ts: at most 30 s,
\* against 75 s).
PolledInTime == Dog!TickPeriod <= Escalation

\* The budgets, the poll and the ceiling, as numbers.
LEMMA LeastOfThree ==
  ASSUME NEW a \in Nat, NEW b \in Nat, NEW c \in Nat
  PROVE  Dog!Min({a, b, c}) \in {a, b, c} /\ \A x \in {a, b, c} : Dog!Min({a, b, c}) <= x
<1>1. \E x \in {a, b, c} : \A y \in {a, b, c} : x <= y
  <2>1. CASE a <= b /\ a <= c
    BY <2>1
  <2>2. CASE b <= a /\ b <= c
    BY <2>2
  <2>3. CASE c <= a /\ c <= b
    BY <2>3
  <2> QED
    BY <2>1, <2>2, <2>3
<1> QED
  BY <1>1 DEF Dog!Min

LEMMA LargestOfTwo ==
  ASSUME NEW a \in Nat, NEW b \in Nat
  PROVE  Dog!Max({a, b}) \in {a, b} /\ \A x \in {a, b} : Dog!Max({a, b}) >= x
<1>1. \E x \in {a, b} : \A y \in {a, b} : x >= y
  <2>1. CASE a <= b
    BY <2>1
  <2>2. CASE b <= a
    BY <2>2
  <2> QED
    BY <2>1, <2>2
<1> QED
  BY <1>1 DEF Dog!Max

Largest == Dog!Max({Inactivity, ToolBudget})

LEMMA BudgetsAreNumbers ==
  ASSUME Dog!ParametersAreSound
  PROVE  /\ {Inactivity, ToolBudget, Heartbeat, Escalation, MaxTools} \subseteq Nat \ {0}
         /\ Dog!TickPeriod \in Nat \ {0}
         /\ Largest \in Nat /\ Largest >= Inactivity /\ Largest >= ToolBudget
         /\ Dog!Cap \in Nat /\ Dog!Cap >= Largest + Escalation
<1>1. /\ {Inactivity, ToolBudget, Heartbeat, Escalation, MaxTools} \subseteq Nat \ {0}
      /\ Configured \in Nat
  BY DEF Dog!ParametersAreSound
<1>2. Dog!TickPeriod \in Nat \ {0}
  BY <1>1, LeastOfThree DEF Dog!TickPeriod
<1>3. Largest \in Nat /\ Largest >= Inactivity /\ Largest >= ToolBudget
  BY <1>1, LargestOfTwo DEF Largest
<1>4. Dog!Cap \in Nat /\ Dog!Cap >= Largest + Escalation
  <2> DEFINE floor == Largest + Escalation
  <2>1. floor \in Nat
    BY <1>1, <1>3
  <2>2. Dog!Cap = Dog!Max({Configured, floor})
    BY DEF Dog!Cap, Dog!EffectiveCap, Largest
  <2> HIDE DEF floor
  <2>3. Dog!Cap \in Nat /\ Dog!Cap >= floor
    BY <1>1, <2>1, <2>2, LargestOfTwo
  <2> QED
    BY <2>3 DEF floor
<1> QED
  BY <1>1, <1>2, <1>3, <1>4

\* What holds from one poll to the next: at the last one no budget was spent, and a
\* window was opened by a frame.
LastTick == nextTick - Dog!TickPeriod

Polled ==
  /\ now \in 0 .. Dog!Cap /\ nextTick \in Nat /\ LastTick \in 0 .. now /\ now <= nextTick
  /\ lastActivityAt \in 0 .. now /\ lastBeatAt \in 0 .. now
  /\ inFlight \in 0 .. MaxTools /\ toolsSince \in (0 .. now) \union {Dog!Never}
  /\ toolsSince = Dog!Never <=> inFlight = 0
  /\ toolsSince # Dog!Never => toolsSince <= lastActivityAt
  /\ Dog!Going =>
       /\ toolsSince = Dog!Never => LastTick - lastActivityAt < Inactivity
       /\ toolsSince # Dog!Never => LastTick - toolsSince < ToolBudget
       /\ LastTick - lastBeatAt < Heartbeat

\* The truth beside it: what is out is in flight, and is the same unless a result
\* was lost.
Told ==
  /\ out \in 0 .. MaxTools /\ outSince \in (0 .. now) \union {Dog!Never}
  /\ dialect = "claude" => out <= inFlight
  /\ dialect = "claude" /\ ~lossy => out = inFlight /\ outSince = toolsSince
  /\ dialect = "bytes" \/ (dialect # "claude" /\ ~lossy) => inFlight = 0

DogInv ==
  /\ dialect \in Dialects /\ lossy \in BOOLEAN
  /\ verdict \in {"none", "inactivity", "tool_budget", "timeout"}
  /\ Polled /\ Told
  /\ dialect = "claude" => Dog!WaitingIsNotDeath /\ Dog!WindowsAreFresh
  /\ PolledInTime => Dog!WatchdogComesFirst

LEMMA DogInit == ASSUME Dog!ParametersAreSound, Dog!Init PROVE DogInv
<1>1. Polled
  BY BudgetsAreNumbers DEF Dog!Init, Polled, LastTick, Dog!Never, Dog!Going
<1>2. Told
  BY BudgetsAreNumbers DEF Dog!Init, Told, Dog!Never
<1> QED
  BY <1>1, <1>2
     DEF Dog!Init, DogInv, Dog!WaitingIsNotDeath, Dog!WindowsAreFresh, Dog!WatchdogComesFirst

\* A frame, or none, moves no clock and gives no verdict.
LEMMA FrameStep ==
  ASSUME Dog!ParametersAreSound, DogInv, Dog!Going,
         UNCHANGED Dog!timers, lossy' \in {lossy, TRUE},
         lastActivityAt' \in {lastActivityAt, now},
         inFlight' \in 0 .. MaxTools, toolsSince' \in {toolsSince, now, Dog!Never},
         toolsSince' = Dog!Never <=> inFlight' = 0,
         toolsSince' # toolsSince => lastActivityAt' = now,
         Told'
  PROVE  DogInv'
<1>1. /\ dialect' = dialect /\ now' = now /\ nextTick' = nextTick /\ lastBeatAt' = lastBeatAt
      /\ verdict' = "none" /\ verdict = "none"
  BY DEF Dog!timers, Dog!Going
<1>2. Polled'
  BY <1>1, BudgetsAreNumbers DEF DogInv, Polled, LastTick, Dog!Never, Dog!Going
<1> QED
  BY <1>1, <1>2 DEF DogInv, Dog!WaitingIsNotDeath, Dog!WindowsAreFresh, Dog!WatchdogComesFirst

LEMMA SpeaksStep == ASSUME Dog!ParametersAreSound, DogInv, Dog!Speaks PROVE DogInv'
<1>1. /\ Dog!Going /\ UNCHANGED <<Dog!timers, out, outSince, lossy, inFlight, toolsSince>>
      /\ lastActivityAt' = now
  BY DEF Dog!Speaks, Dog!JustAFrame, Dog!Frame
<1>2. Told'
  BY <1>1 DEF DogInv, Told, Dog!timers
<1> QED
  BY <1>1, <1>2, FrameStep DEF DogInv, Polled

LEMMA StartsStep == ASSUME Dog!ParametersAreSound, DogInv, Dog!ToolStarts PROVE DogInv'
<1>1. /\ Dog!Going /\ out < MaxTools /\ out' = out + 1
      /\ dialect = "claude" => inFlight < MaxTools
      /\ outSince' = (IF out = 0 THEN now ELSE outSince)
      /\ UNCHANGED Dog!timers /\ lossy' = lossy /\ dialect' = dialect /\ now' = now
  BY DEF Dog!ToolStarts, Dog!timers
<1>2. /\ dialect = "claude" => /\ lastActivityAt' = now /\ inFlight' = inFlight + 1
                               /\ toolsSince' = (IF inFlight = 0 THEN now ELSE toolsSince)
      /\ dialect # "claude" => /\ lastActivityAt' \in {lastActivityAt, now}
                               /\ UNCHANGED <<inFlight, toolsSince>>
  <2>1. CASE dialect = "claude"
    BY <2>1 DEF Dog!ToolStarts, Dog!Frame, Dog!OpenTool
  <2>2. CASE dialect # "claude"
    BY <2>2
       DEF Dog!ToolStarts, Dog!Frame, Dog!Unseen, Dog!seen, Dog!JustAFrame, DogInv,
           Dog!ParametersAreSound
  <2> QED
    BY <2>1, <2>2
<1>3. MaxTools \in Nat /\ out \in 0 .. MaxTools /\ inFlight \in 0 .. MaxTools /\ now \in Nat
      /\ toolsSince \in (0 .. now) \union {Dog!Never} /\ (toolsSince = Dog!Never <=> inFlight = 0)
  BY BudgetsAreNumbers DEF DogInv, Polled, Told
<1>4. Told'
  <2>1. out' \in 0 .. MaxTools /\ outSince' \in (0 .. now') \union {Dog!Never}
    BY <1>1, <1>3 DEF DogInv, Told
  <2> QED
    BY <1>1, <1>2, <1>3, <2>1 DEF DogInv, Told
<1>5. /\ inFlight' \in 0 .. MaxTools /\ toolsSince' \in {toolsSince, now, Dog!Never}
      /\ toolsSince' = Dog!Never <=> inFlight' = 0
      /\ toolsSince' # toolsSince => lastActivityAt' = now
      /\ lastActivityAt' \in {lastActivityAt, now}
  BY <1>1, <1>2, <1>3 DEF Dog!Never
<1> QED
  BY <1>1, <1>4, <1>5, FrameStep

\* A tool of Claude's ends, or seems to; one of OpenCode's opens and closes.
LEMMA EndsStep ==
  ASSUME Dog!ParametersAreSound, DogInv,
         \/ Dog!ToolEnds \/ Dog!ResultLost
         \/ Dog!OrphanResult /\ dialect = "claude"
  PROVE  DogInv'
<1>0. lossy \in BOOLEAN
  BY DEF DogInv
<1>1. /\ Dog!Going /\ UNCHANGED Dog!timers /\ lossy' \in {lossy, TRUE} /\ dialect' = dialect
         /\ now' = now
      /\ \/ /\ out > 0 /\ out' = out - 1
            /\ outSince' = (IF out = 1 THEN Dog!Never ELSE outSince)
         \/ UNCHANGED <<out, outSince>> /\ dialect = "claude" /\ out = 0 /\ ~lossy /\ ~lossy'
  <2>1. CASE Dog!ToolEnds
    BY <2>1 DEF Dog!ToolEnds, Dog!timers
  <2>2. CASE Dog!ResultLost
    BY <2>2 DEF Dog!ResultLost, Dog!timers
  <2>3. CASE Dog!OrphanResult /\ dialect = "claude"
    <3>1. Dog!Going /\ UNCHANGED Dog!timers /\ UNCHANGED <<out, outSince>> /\ dialect = "claude"
          /\ out = 0
      BY <2>3 DEF Dog!OrphanResult
    <3>2. ~lossy /\ lossy' = lossy
      BY <2>3 DEF Dog!OrphanResult
    <3>3. dialect' = dialect /\ now' = now
      BY <3>1 DEF Dog!timers
    <3>4. ~lossy' /\ lossy' \in {lossy, TRUE}
      BY <3>2
    <3> QED
      BY <3>1, <3>2, <3>3, <3>4
  <2> QED
    BY <2>1, <2>2, <2>3
<1>2. \/ /\ dialect = "claude" /\ lossy' = lossy /\ lastActivityAt' = now /\ Dog!CloseTool
      \/ /\ dialect # "claude" /\ UNCHANGED <<inFlight, toolsSince>>
         /\ lastActivityAt' \in {lastActivityAt, now}
      \/ lossy' /\ out > 0 /\ UNCHANGED <<inFlight, toolsSince, lastActivityAt>>
  <2>1. CASE Dog!ToolEnds /\ dialect = "claude"
    BY <2>1 DEF Dog!ToolEnds, Dog!Frame
  <2>2. CASE Dog!ToolEnds /\ dialect # "claude"
    BY <2>2
       DEF Dog!ToolEnds, Dog!Frame, Dog!Unseen, Dog!seen, Dog!JustAFrame, DogInv,
           Dog!ParametersAreSound
  <2>3. CASE Dog!ResultLost
    BY <2>3 DEF Dog!ResultLost, Dog!Unseen, Dog!seen
  <2>4. CASE Dog!OrphanResult /\ dialect = "claude"
    BY <2>4 DEF Dog!OrphanResult, Dog!Frame
  <2> QED
    BY <2>1, <2>2, <2>3, <2>4
<1>3. MaxTools \in Nat /\ out \in 0 .. MaxTools /\ inFlight \in 0 .. MaxTools /\ now \in Nat
      /\ toolsSince \in (0 .. now) \union {Dog!Never} /\ (toolsSince = Dog!Never <=> inFlight = 0)
      /\ outSince \in (0 .. now) \union {Dog!Never}
      /\ (dialect = "claude" => out <= inFlight)
      /\ (dialect = "claude" /\ ~lossy => out = inFlight /\ outSince = toolsSince)
      /\ (dialect = "bytes" \/ (dialect # "claude" /\ ~lossy) => inFlight = 0)
  BY BudgetsAreNumbers DEF DogInv, Polled, Told
<1>4. /\ inFlight' \in 0 .. MaxTools /\ toolsSince' \in {toolsSince, Dog!Never}
      /\ toolsSince' = Dog!Never <=> inFlight' = 0
      /\ toolsSince' # toolsSince => lastActivityAt' = now
      /\ lastActivityAt' \in {lastActivityAt, now}
  <2>1. CASE lastActivityAt' = now /\ Dog!CloseTool
    BY <1>3, <2>1 DEF Dog!CloseTool, Dog!Never
  <2>2. CASE UNCHANGED <<inFlight, toolsSince>> /\ lastActivityAt' \in {lastActivityAt, now}
    BY <1>3, <2>2
  <2> QED
    BY <1>2, <2>1, <2>2
<1>5. Told'
  <2>1. out' \in 0 .. MaxTools /\ outSince' \in (0 .. now') \union {Dog!Never}
    BY <1>1, <1>3
  <2>2. CASE dialect = "claude" /\ lossy' = lossy /\ Dog!CloseTool
    BY <1>1, <1>3, <2>1, <2>2 DEF Told, Dog!CloseTool
  <2>3. CASE UNCHANGED <<inFlight, toolsSince>> /\ (dialect # "claude" \/ (lossy' /\ out > 0))
    <3>1. ~ lossy' => ~ lossy
      BY <1>1, <1>0
    <3> QED
      BY <1>1, <1>3, <2>1, <2>3, <3>1 DEF Told
  <2> QED
    BY <1>2, <2>2, <2>3
<1> QED
  BY <1>1, <1>4, <1>5, FrameStep

\* What OpenCode says of a tool that failed, or on a line of its own, moves the
\* count that was not told of the truth.
LEMMA BlindStep ==
  ASSUME Dog!ParametersAreSound, DogInv,
         Dog!ToolErrs \/ (Dog!OrphanResult /\ dialect = "opencode")
  PROVE  DogInv'
<1>1. /\ Dog!Going /\ dialect = "opencode" /\ UNCHANGED Dog!timers
      /\ dialect' = dialect /\ now' = now /\ lastActivityAt' = now
      /\ \/ /\ out > 0 /\ out' = out - 1 /\ lossy'
            /\ outSince' = (IF out = 1 THEN Dog!Never ELSE outSince)
            /\ inFlight < MaxTools /\ inFlight' = inFlight + 1
            /\ toolsSince' = (IF inFlight = 0 THEN now ELSE toolsSince)
         \/ /\ UNCHANGED <<out, outSince, lossy>>
            /\ \/ inFlight = 0 /\ UNCHANGED <<inFlight, toolsSince>>
               \/ /\ inFlight # 0 /\ inFlight' = inFlight - 1
                  /\ toolsSince' = (IF inFlight = 1 THEN Dog!Never ELSE toolsSince)
  <2>1. CASE Dog!ToolErrs
    BY <2>1 DEF Dog!ToolErrs, Dog!Frame, Dog!OpenTool, Dog!timers
  <2>2. CASE Dog!OrphanResult /\ dialect = "opencode"
    BY <2>2 DEF Dog!OrphanResult, Dog!Frame, Dog!CloseTool, Dog!timers
  <2> QED
    BY <2>1, <2>2
<1>2. /\ MaxTools \in Nat /\ out \in 0 .. MaxTools /\ inFlight \in 0 .. MaxTools /\ now \in Nat
      /\ toolsSince \in (0 .. now) \union {Dog!Never} /\ (toolsSince = Dog!Never <=> inFlight = 0)
      /\ outSince \in (0 .. now) \union {Dog!Never} /\ lossy \in BOOLEAN
      /\ (~lossy => inFlight = 0)
  BY <1>1, BudgetsAreNumbers DEF DogInv, Polled, Told
<1>3. /\ inFlight' \in 0 .. MaxTools /\ toolsSince' \in {toolsSince, now, Dog!Never}
      /\ toolsSince' = Dog!Never <=> inFlight' = 0
  BY <1>1, <1>2 DEF Dog!Never
<1>4. lossy' \in {lossy, TRUE}
  BY <1>1, <1>2
<1>5. Told'
  <2>1. out' \in 0 .. MaxTools /\ outSince' \in (0 .. now') \union {Dog!Never}
    BY <1>1, <1>2
  <2>2. ~lossy' => inFlight' = 0
    BY <1>1, <1>2
  <2> QED
    BY <1>1, <2>1, <2>2 DEF Told
<1> QED
  BY <1>1, <1>3, <1>4, <1>5, FrameStep

\* A poll cuts what has spent its budget, and what it leaves has time.
LEMMA TickStep == ASSUME Dog!ParametersAreSound, DogInv, Dog!Tick PROVE DogInv'
<1>1. /\ verdict = "none" /\ now = nextTick /\ nextTick' = now + Dog!TickPeriod
      /\ UNCHANGED <<dialect, now, lastActivityAt, inFlight, toolsSince, out, outSince, lossy>>
      /\ lastBeatAt' = Dog!Beats(now) /\ verdict' = Dog!Expiry(now)
  BY DEF Dog!Tick, Dog!Going, Dog!seen
<1>2. /\ now \in Nat /\ Dog!TickPeriod \in Nat \ {0} /\ lastBeatAt \in 0 .. now
         /\ lastActivityAt \in 0 .. now
      /\ toolsSince \in (0 .. now) \union {Dog!Never} /\ now \in 0 .. Dog!Cap
      /\ {Inactivity, ToolBudget, Heartbeat} \subseteq Nat \ {0}
  BY BudgetsAreNumbers DEF DogInv, Polled
<1>3. /\ lastBeatAt' \in 0 .. now /\ now - lastBeatAt' < Heartbeat
  BY <1>1, <1>2 DEF Dog!Beats
<1>4. /\ verdict' \in {"none", "inactivity", "tool_budget"}
      /\ verdict' = "none" => /\ toolsSince = Dog!Never => now - lastActivityAt < Inactivity
                              /\ toolsSince # Dog!Never => now - toolsSince < ToolBudget
      /\ verdict' = "inactivity" => toolsSince = Dog!Never
      /\ verdict' = "tool_budget" => toolsSince # Dog!Never /\ now - toolsSince >= ToolBudget
  BY <1>1, <1>2 DEF Dog!Expiry
<1>5. nextTick' \in Nat /\ LastTick' = now /\ now <= nextTick'
  BY <1>1, <1>2 DEF LastTick
<1>6. Polled'
  BY <1>1, <1>2, <1>3, <1>4, <1>5 DEF DogInv, Polled, Dog!Going
<1>7. Told'
  BY <1>1 DEF DogInv, Told
<1>8. dialect = "claude" => Dog!WaitingIsNotDeath' /\ Dog!WindowsAreFresh'
  <2> SUFFICES ASSUME dialect = "claude" PROVE Dog!WaitingIsNotDeath' /\ Dog!WindowsAreFresh'
    OBVIOUS
  <2>1. out \in Nat /\ inFlight \in Nat /\ out <= inFlight
        /\ (toolsSince = Dog!Never <=> inFlight = 0)
        /\ (~lossy => out = inFlight /\ outSince = toolsSince)
    BY BudgetsAreNumbers DEF DogInv, Polled, Told
  <2> QED
    BY <1>1, <1>2, <1>4, <2>1 DEF Dog!WaitingIsNotDeath, Dog!WindowsAreFresh
<1>9. Dog!WatchdogComesFirst'
  BY <1>4 DEF Dog!WatchdogComesFirst
<1> QED
  BY <1>1, <1>4, <1>6, <1>7, <1>8, <1>9 DEF DogInv

\* The ceiling finds a run that has said something, or the watchdog would have
\* cut it.
LEMMA CapStep == ASSUME Dog!ParametersAreSound, DogInv, Dog!CapFires PROVE DogInv'
<1>1. /\ verdict = "none" /\ now = Dog!Cap /\ verdict' = "timeout"
      /\ UNCHANGED <<dialect, now, nextTick, lastBeatAt, lastActivityAt, inFlight, toolsSince,
                     out, outSince, lossy>>
  BY DEF Dog!CapFires, Dog!Going, Dog!seen
<1>2. Polled'
  BY <1>1 DEF DogInv, Polled, LastTick, Dog!Going
<1>3. PolledInTime => lastActivityAt > 0
  <2> SUFFICES ASSUME Dog!TickPeriod <= Escalation, lastActivityAt = 0 PROVE FALSE
    BY DEF DogInv, Polled, PolledInTime
  <2>1. LastTick >= 0 /\ LastTick \in Int /\ nextTick = LastTick + Dog!TickPeriod /\ now <= nextTick
        /\ now \in Nat /\ nextTick \in Nat
    BY BudgetsAreNumbers DEF DogInv, Polled, LastTick
  <2>2. LastTick < Largest
    <3>1. CASE toolsSince = Dog!Never
      BY <1>1, <2>1, <3>1, BudgetsAreNumbers DEF DogInv, Polled, Dog!Going
    <3>2. CASE toolsSince # Dog!Never
      BY <1>1, <2>1, <3>2, BudgetsAreNumbers DEF DogInv, Polled, Dog!Going
    <3> QED
      BY <3>1, <3>2
  <2> QED
    BY <1>1, <2>1, <2>2, BudgetsAreNumbers
<1>4. Told'
  BY <1>1 DEF DogInv, Told
<1> QED
  BY <1>1, <1>2, <1>3, <1>4
     DEF DogInv, Dog!WaitingIsNotDeath, Dog!WindowsAreFresh, Dog!WatchdogComesFirst

LEMMA AdvanceStep == ASSUME Dog!ParametersAreSound, DogInv, Dog!Advance PROVE DogInv'
<1>1. /\ verdict = "none" /\ now < nextTick /\ now < Dog!Cap /\ now' = now + 1 /\ verdict' = verdict
      /\ UNCHANGED <<dialect, nextTick, lastBeatAt, lastActivityAt, inFlight, toolsSince,
                     out, outSince, lossy>>
  BY DEF Dog!Advance, Dog!Going, Dog!seen
<1>2. now \in Nat /\ nextTick \in Nat /\ Dog!Cap \in Nat /\ LastTick' = LastTick
      /\ LastTick \in 0 .. now
  BY <1>1, BudgetsAreNumbers DEF DogInv, Polled, LastTick
<1>3. Polled'
  BY <1>1, <1>2 DEF DogInv, Polled, Dog!Going
<1>4. Told'
  BY <1>1, <1>2 DEF DogInv, Told
<1> QED
  BY <1>1, <1>3, <1>4
     DEF DogInv, Dog!WaitingIsNotDeath, Dog!WindowsAreFresh, Dog!WatchdogComesFirst

LEMMA DogStep == ASSUME Dog!ParametersAreSound, DogInv, [Dog!Next]_(Dog!vars) PROVE DogInv'
<1>1. CASE UNCHANGED Dog!vars
  BY <1>1
     DEF Dog!vars, DogInv, Polled, Told, LastTick, Dog!Going, Dog!WaitingIsNotDeath,
         Dog!WindowsAreFresh,
              Dog!WatchdogComesFirst
<1> QED
  BY <1>1, SpeaksStep, StartsStep, EndsStep, BlindStep, TickStep, CapStep, AdvanceStep
     DEF Dog!Next, Dog!OrphanResult

\* What the watchdog of a run promises, of any dialect and of Claude's.
Watched ==
  /\ Dog!TypeOK /\ Dog!SilenceIsBounded
  /\ dialect = "claude" => Dog!WaitingIsNotDeath /\ Dog!WindowsAreFresh /\ Dog!LongIsNotSilent
                           /\ Dog!WatchdogComesFirst
  /\ dialect # "claude" => Dog!BlindSilenceIsShort

LEMMA DogWatches == ASSUME Dog!ParametersAreSound, PolledInTime, DogInv PROVE Watched
<1>1. /\ now \in 0 .. Dog!Cap /\ nextTick \in Nat /\ Dog!Cap \in Nat /\ Dog!TickPeriod \in Nat
      /\ nextTick = LastTick + Dog!TickPeriod /\ now <= nextTick /\ LastTick \in 0 .. now
      /\ lastActivityAt \in 0 .. now /\ lastBeatAt \in 0 .. now
  BY BudgetsAreNumbers DEF DogInv, Polled, LastTick
<1>2. Dog!TypeOK
  BY <1>1 DEF DogInv, Polled, Told, Dog!TypeOK
<1>3. Dog!Going => now - lastActivityAt <= Largest + Dog!TickPeriod
  <2>1. CASE toolsSince = Dog!Never
    BY <1>1, <2>1, BudgetsAreNumbers DEF DogInv, Polled
  <2>2. CASE toolsSince # Dog!Never
    BY <1>1, <2>2, BudgetsAreNumbers DEF DogInv, Polled
  <2> QED
    BY <2>1, <2>2
<1>4. Dog!LongIsNotSilent
  BY <1>1, BudgetsAreNumbers DEF DogInv, Polled, Dog!LongIsNotSilent
<1>5. dialect # "claude" => Dog!BlindSilenceIsShort
  <2>1. dialect # "claude" /\ (lossy => toolsSince = Dog!Never) => toolsSince = Dog!Never
    BY DEF DogInv, Polled, Told
  <2> QED
    BY <1>1, <2>1, BudgetsAreNumbers DEF DogInv, Polled, Dog!BlindSilenceIsShort, Dog!TickPeriod
<1>6. Dog!SilenceIsBounded
  BY <1>3 DEF Dog!SilenceIsBounded, Largest
<1> QED
  BY <1>2, <1>4, <1>5, <1>6 DEF Watched, DogInv

\* The watchdog cuts for a silence only, a tool it showed suspends the silence,
\* each window is fresh, and no silence outlasts the budgets, for any budgets, any
\* ceiling and any dialect (agent.ts, createSemanticWatchdog).
THEOREM CutsAreEarned == PolledInTime => (Dog!Spec => []Watched)
<1> SUFFICES ASSUME PolledInTime PROVE Dog!Spec => []Watched
  OBVIOUS
<1>0. Dog!ParametersAreSound
  BY PartsAreSound DEF PartsAreSound
<1>1. Dog!Init => DogInv
  BY <1>0, DogInit
<1>2. DogInv /\ [Dog!Next]_(Dog!vars) => DogInv'
  BY <1>0, DogStep
<1>3. DogInv => Watched
  BY <1>0, DogWatches
<1> QED
  BY <1>1, <1>2, <1>3, PTL DEF Dog!Spec

-----------------------------------------------------------------------------
(* The processes of a run (AgentRun, as Run, and as OrderlyRun where the box is    *)
(* there in time)                                                                *)

\* What is known of a run whatever its processes do: nobody ends what has not
\* begun, the last signal is the step's, and the status is the outcome's, by the
\* cause that came first.
RunInv ==
  /\ OrderlyRun!TypeOK
  /\ (cut \/ aborted \/ capped \/ OrderlyRun!killing \/ asked # "none") => child # "none"
  /\ cut \/ aborted \/ capped => OrderlyRun!killing
  /\ byName => path = "cage"
  /\ step \in {"none", "box"} => asked = "none"
  /\ step = "term" => asked = "term"
  /\ step = "kill" => asked = "kill"
  /\ child = "none" => box = "none"
  /\ path = "host" => box = "none" /\ step # "box"
  /\ outcome = "none" => status = "running"
  /\ cut /\ outcome # "none" => status = "inactivity_timeout"
  /\ stopped => status # "failed"

\* And of one whose box is there before it is killed: it is gone before its client
\* is asked to go, and who holds the pipes of a settled run cannot be killed.
BoxInTime ==
  /\ box # "starting"
  /\ path = "cage" /\ step # "none" => byName \/ box # "works"
  /\ path = "cage" /\ step \in {"term", "kill"} => box # "works"
  /\ child = "gone" => box # "works"
  /\ outcome # "none" => /\ child = "works" => step = "kill" /\ ~OrderlyRun!Takes("child")
                         /\ box # "works"

LEMMA RunInit == OrderlyRun!ParametersAreSound /\ OrderlyRun!Init => RunInv /\ BoxInTime
BY
   DEF OrderlyRun!ParametersAreSound, OrderlyRun!Init, RunInv, BoxInTime, OrderlyRun!TypeOK,
       OrderlyRun!killing

LEMMA RunStep ==
  ASSUME OrderlyRun!ParametersAreSound, RunInv, [OrderlyRun!Next]_(OrderlyRun!vars)
  PROVE  RunInv' /\ (BoxInTime => BoxInTime')
<1> USE DEF RunInv, OrderlyRun!TypeOK, BoxInTime, OrderlyRun!killing, OrderlyRun!Takes
<1> USE DEF OrderlyRun!procs, OrderlyRun!nature, OrderlyRun!causes, OrderlyRun!end
<1>0. path = "host" \/ path = "cage"
  BY DEF OrderlyRun!ParametersAreSound
<1>1. CASE OrderlyRun!Spawns
  BY <1>0, <1>1 DEF OrderlyRun!Spawns, OrderlyRun!Prepared, OrderlyRun!Escalate
<1>2. CASE OrderlyRun!PreparationFails
  BY <1>2
     DEF OrderlyRun!PreparationFails, OrderlyRun!Prepared, OrderlyRun!Settle, OrderlyRun!StatusOf
<1>3. CASE OrderlyRun!BoxStarts
  BY <1>3 DEF OrderlyRun!BoxStarts
<1>4. CASE OrderlyRun!Dies
  BY <1>0, <1>4 DEF OrderlyRun!Dies
<1>5. CASE OrderlyRun!HelperDies
  BY <1>5 DEF OrderlyRun!HelperDies
<1>6. ASSUME NEW c \in {"zero", "other"}, OrderlyRun!Exits(c)
      PROVE RunInv' /\ (BoxInTime => BoxInTime')
  <2>1. OrderlyRun!TypeOK' /\ child' = "gone" /\ child = "works" /\ box' # "works"
        /\ box' # "starting"
        /\ (box = "none" => box' = "none")
    BY <1>6 DEF OrderlyRun!Exits
  <2>2. UNCHANGED <<helper, path, stubborn, deathless, asked, byName, step, cut, aborted, capped,
        stopped, outcome, status>>
    BY <1>6 DEF OrderlyRun!Exits
  <2> QED
    BY <2>1, <2>2
<1>7. CASE OrderlyRun!Expires
  BY <1>0, <1>7 DEF OrderlyRun!Expires, OrderlyRun!Ripe, OrderlyRun!Going, OrderlyRun!Escalate
<1>8. CASE OrderlyRun!CapFires
  BY <1>0, <1>8 DEF OrderlyRun!CapFires, OrderlyRun!Ripe, OrderlyRun!Going, OrderlyRun!Escalate
<1>9. CASE OrderlyRun!Stop
  <2>1. outcome = "none" /\ status = "running"
        /\ UNCHANGED <<child, code, box, helper, path, stubborn, deathless, cut, capped, outcome,
           status>>
    BY <1>9 DEF OrderlyRun!Stop
  <2>2. CASE child = "none"
    <3>1. stopped' = TRUE /\ UNCHANGED <<aborted, step, asked, byName>>
      BY <1>9, <2>2 DEF OrderlyRun!Stop
    <3> QED
      BY <2>1, <3>1
  <2>3. CASE child # "none"
    <3>1. stopped' = TRUE /\ aborted' = TRUE
      BY <1>9, <2>3 DEF OrderlyRun!Stop
    <3>2. \/ OrderlyRun!killing /\ UNCHANGED <<step, asked, byName>>
          \/ ~OrderlyRun!killing /\ path = "cage" /\ step' = "box" /\ byName' = TRUE
             /\ UNCHANGED asked
          \/ ~OrderlyRun!killing /\ path = "host" /\ step' = "term" /\ asked' = "term"
             /\ UNCHANGED byName
      BY <1>0, <1>9, <2>3 DEF OrderlyRun!Stop, OrderlyRun!Escalate
    <3>3. OrderlyRun!TypeOK'
      BY <2>1, <3>1, <3>2
    <3>4. BoxInTime => BoxInTime'
      BY <2>1, <3>2
    <3>5. RunInv'
      BY <2>1, <2>3, <3>1, <3>2, <3>3
    <3> QED
      BY <3>4, <3>5
  <2> QED
    BY <2>2, <2>3
<1>10. CASE OrderlyRun!KillLands
  <2>1. byName /\ byName' = FALSE /\ box = "works" /\ box' = "gone"
        /\ UNCHANGED <<child, code, helper, path, stubborn, deathless, asked, step, cut, aborted,
           capped, stopped, outcome, status>>
    BY <1>10 DEF OrderlyRun!KillLands
  <2>2. OrderlyRun!TypeOK'
    BY <2>1
  <2>3. box' = "none" <=> box = "none"
    BY <2>1
  <2>4. RunInv'
    BY <2>1, <2>2, <2>3
  <2>5. BoxInTime => BoxInTime'
    BY <2>1
  <2> QED
    BY <2>4, <2>5
<1>11. CASE OrderlyRun!BoxGraceEnds
  BY <1>11 DEF OrderlyRun!BoxGraceEnds
<1>12. CASE OrderlyRun!TermGraceEnds
  BY <1>12 DEF OrderlyRun!TermGraceEnds
<1>13. CASE OrderlyRun!SettleGraceEnds
  BY <1>0, <1>13
     DEF OrderlyRun!SettleGraceEnds, OrderlyRun!Reports, OrderlyRun!Settle, OrderlyRun!Settlement,
         OrderlyRun!StatusOf
<1>14. CASE OrderlyRun!Closes
  BY <1>0, <1>14
     DEF OrderlyRun!Closes, OrderlyRun!Going, OrderlyRun!Settle, OrderlyRun!Settlement,
         OrderlyRun!StatusOf
<1>15. CASE UNCHANGED OrderlyRun!vars
  BY <1>15 DEF OrderlyRun!vars
<1> QED
  BY <1>1, <1>2, <1>3, <1>4, <1>5, <1>6, <1>7, <1>8, <1>9, <1>10, <1>11, <1>12, <1>13, <1>14,
     <1>15 DEF OrderlyRun!Next

\* A run that races its box does what another may do, but where the box is meant.
LEMMA RunsAlike ==
  /\ \A c : Run!Exits(c) => OrderlyRun!Exits(c)
  /\ Run!PreparationFails => OrderlyRun!PreparationFails
  /\ Run!BoxStarts => OrderlyRun!BoxStarts
  /\ Run!Dies => OrderlyRun!Dies
  /\ Run!HelperDies => OrderlyRun!HelperDies
  /\ Run!Expires => OrderlyRun!Expires
  /\ Run!CapFires => OrderlyRun!CapFires
  /\ Run!Stop => OrderlyRun!Stop
  /\ Run!TermGraceEnds => OrderlyRun!TermGraceEnds
  /\ Run!SettleGraceEnds => OrderlyRun!SettleGraceEnds
  /\ Run!Closes => OrderlyRun!Closes
<1>1. \A c : Run!Exits(c) => OrderlyRun!Exits(c)
  BY
     DEF Run!Exits, OrderlyRun!Exits, Run!procs, OrderlyRun!procs, Run!nature, OrderlyRun!nature,
         Run!causes, OrderlyRun!causes, Run!end, OrderlyRun!end
<1>2. Run!PreparationFails => OrderlyRun!PreparationFails
  BY
     DEF Run!PreparationFails, OrderlyRun!PreparationFails, Run!Prepared, OrderlyRun!Prepared,
         Run!Settle, OrderlyRun!Settle, Run!StatusOf, OrderlyRun!StatusOf, Run!procs,
         OrderlyRun!procs, Run!nature, OrderlyRun!nature, Run!causes, OrderlyRun!causes, Run!end,
         OrderlyRun!end
<1>3. Run!BoxStarts => OrderlyRun!BoxStarts
  BY
     DEF Run!BoxStarts, OrderlyRun!BoxStarts, Run!procs, OrderlyRun!procs, Run!nature,
         OrderlyRun!nature, Run!causes, OrderlyRun!causes, Run!end, OrderlyRun!end
<1>4. Run!Dies => OrderlyRun!Dies
  BY
     DEF Run!Dies, OrderlyRun!Dies, Run!Takes, OrderlyRun!Takes, Run!procs, OrderlyRun!procs,
         Run!nature, OrderlyRun!nature, Run!causes, OrderlyRun!causes, Run!end, OrderlyRun!end
<1>5. Run!HelperDies => OrderlyRun!HelperDies
  BY
     DEF Run!HelperDies, OrderlyRun!HelperDies, Run!Takes, OrderlyRun!Takes, Run!procs,
         OrderlyRun!procs, Run!nature, OrderlyRun!nature, Run!causes, OrderlyRun!causes, Run!end,
         OrderlyRun!end
<1>6. Run!Expires => OrderlyRun!Expires
  BY
     DEF Run!Expires, OrderlyRun!Expires, Run!Ripe, OrderlyRun!Ripe, Run!Going, OrderlyRun!Going,
         Run!Escalate, OrderlyRun!Escalate, Run!killing, OrderlyRun!killing, Run!procs,
         OrderlyRun!procs, Run!nature, OrderlyRun!nature, Run!causes, OrderlyRun!causes, Run!end,
         OrderlyRun!end
<1>7. Run!CapFires => OrderlyRun!CapFires
  BY
     DEF Run!CapFires, OrderlyRun!CapFires, Run!Ripe, OrderlyRun!Ripe, Run!Going,
         OrderlyRun!Going, Run!Escalate, OrderlyRun!Escalate, Run!killing, OrderlyRun!killing,
         Run!procs, OrderlyRun!procs, Run!nature, OrderlyRun!nature, Run!causes,
         OrderlyRun!causes, Run!end, OrderlyRun!end
<1>8. Run!Stop => OrderlyRun!Stop
  BY
     DEF Run!Stop, OrderlyRun!Stop, Run!Escalate, OrderlyRun!Escalate, Run!killing,
         OrderlyRun!killing, Run!procs, OrderlyRun!procs, Run!nature, OrderlyRun!nature,
         Run!causes, OrderlyRun!causes, Run!end, OrderlyRun!end
<1>9. Run!TermGraceEnds => OrderlyRun!TermGraceEnds
  BY
     DEF Run!TermGraceEnds, OrderlyRun!TermGraceEnds, Run!procs, OrderlyRun!procs, Run!nature,
         OrderlyRun!nature, Run!causes, OrderlyRun!causes, Run!end, OrderlyRun!end
<1>10. Run!SettleGraceEnds => OrderlyRun!SettleGraceEnds
  BY
     DEF Run!SettleGraceEnds, OrderlyRun!SettleGraceEnds, Run!Reports, OrderlyRun!Reports,
         Run!Takes, OrderlyRun!Takes, Run!Settle, OrderlyRun!Settle, Run!Settlement,
         OrderlyRun!Settlement, Run!StatusOf, OrderlyRun!StatusOf, Run!procs, OrderlyRun!procs,
         Run!nature, OrderlyRun!nature, Run!causes, OrderlyRun!causes, Run!end, OrderlyRun!end
<1>11. Run!Closes => OrderlyRun!Closes
  BY
     DEF Run!Closes, OrderlyRun!Closes, Run!Going, OrderlyRun!Going, Run!Settle,
         OrderlyRun!Settle, Run!Settlement, OrderlyRun!Settlement, Run!StatusOf,
         OrderlyRun!StatusOf, Run!procs, OrderlyRun!procs, Run!nature, OrderlyRun!nature,
         Run!causes, OrderlyRun!causes, Run!end, OrderlyRun!end
<1> QED
  BY <1>1, <1>2, <1>3, <1>4, <1>5, <1>6, <1>7, <1>8, <1>9, <1>10, <1>11

LEMMA RacingStep ==
  ASSUME Run!ParametersAreSound, RunInv, [Run!Next]_(Run!vars)
  PROVE  RunInv'
<1> USE DEF Run!procs, Run!nature, Run!causes, Run!end
<1>0. OrderlyRun!ParametersAreSound /\ path \in {"host", "cage"}
  BY DEF Run!ParametersAreSound, OrderlyRun!ParametersAreSound, RunInv, OrderlyRun!TypeOK
<1>1. CASE Run!Spawns
  BY <1>0, <1>1
     DEF Run!Spawns, Run!Prepared, Run!Escalate, Run!killing, RunInv, OrderlyRun!TypeOK,
         OrderlyRun!killing
<1>2. CASE Run!KillLands
  <2>1. byName /\ byName' = FALSE /\ (box' = box \/ (box = "works" /\ box' = "gone"))
        /\ UNCHANGED <<child, code, helper, path, stubborn, deathless, asked, step, cut, aborted,
                       capped, stopped, outcome, status>>
    BY <1>2 DEF Run!KillLands
  <2>2. OrderlyRun!TypeOK'
    BY <2>1 DEF RunInv, OrderlyRun!TypeOK
  <2>3. box' = "none" <=> box = "none"
    BY <2>1
  <2> QED
    BY <2>1, <2>2, <2>3 DEF RunInv, OrderlyRun!killing
<1>3. CASE Run!BoxGraceEnds
  BY <1>3 DEF Run!BoxGraceEnds, RunInv, OrderlyRun!TypeOK, OrderlyRun!killing
<1>4. CASE UNCHANGED Run!vars
  BY <1>0, <1>4, RunStep DEF Run!vars, OrderlyRun!vars
<1>5. CASE OrderlyRun!Next
  BY <1>0, <1>5, RunStep
<1> QED
  BY <1>1, <1>2, <1>3, <1>4, <1>5, RunsAlike DEF Run!Next, OrderlyRun!Next

LEMMA RunDecides ==
  RunInv => Run!TypeOK /\ Run!CutOwnsTheOutcome /\ Run!StopIsNeverAFailure
BY DEF RunInv, OrderlyRun!TypeOK, Run!TypeOK, Run!CutOwnsTheOutcome, Run!StopIsNeverAFailure

LEMMA RunIsOver == RunInv /\ BoxInTime => OrderlyRun!NobodyWorksOn
BY DEF RunInv, BoxInTime, OrderlyRun!NobodyWorksOn, OrderlyRun!Takes

LEMMA RacingInit == Run!Init => RunInv
BY PartsAreSound, RunInit DEF PartsAreSound, Run!Init, OrderlyRun!Init

\* Once a cut has begun the outcome is its own, and a turn that a human stopped is
\* never failed, whatever races them (agent.ts, settleFromState; task-runner.ts,
\* failTurn).
THEOREM CauseDecides ==
  Run!Spec => [](Run!TypeOK /\ Run!CutOwnsTheOutcome /\ Run!StopIsNeverAFailure)
<1>1. RunInv /\ [Run!Next]_(Run!vars) => RunInv'
  BY RacingStep, PartsAreSound DEF PartsAreSound
<1> QED
  BY <1>1, RacingInit, RunDecides, PTL DEF Run!Spec

\* Nobody works for a turn that has been settled, but what no signal takes, as long
\* as the box of a caged run is there before it is killed (task-isolation.ts,
\* spawnContainer).
THEOREM SettledIsOver == OrderlyRun!Spec => []OrderlyRun!NobodyWorksOn
<1>1. OrderlyRun!Init => RunInv /\ BoxInTime
  BY RunInit, PartsAreSound DEF PartsAreSound
<1>2. RunInv /\ BoxInTime /\ [OrderlyRun!Next]_(OrderlyRun!vars) => (RunInv /\ BoxInTime)'
  BY RunStep, PartsAreSound DEF PartsAreSound
<1> QED
  BY <1>1, <1>2, RunIsOver, PTL DEF OrderlyRun!Spec

-----------------------------------------------------------------------------
(* The machine's run *)

\* In the machine's run: a run is cut with cause, and the cut owns the outcome, for
\* any budgets, tools, dialects and paths.
THEOREM CutsAreJust == PolledInTime => (MachineSpec => []CutsHaveCause)
<1> SUFFICES ASSUME PolledInTime PROVE MachineSpec => []CutsHaveCause
  OBVIOUS
<1> DEFINE Inv == /\ part = "watchdog" => DogInv
                  /\ part = "run" => RunInv
                  /\ part = "orderly run" => RunInv /\ BoxInTime
<1>0. Dog!ParametersAreSound /\ Run!ParametersAreSound /\ OrderlyRun!ParametersAreSound
  BY PartsAreSound DEF PartsAreSound
<1>1. MachineInit => Inv
  <2>1. Run!Init => OrderlyRun!Init
    BY DEF Run!Init, OrderlyRun!Init
  <2> QED
    BY <1>0, <2>1, DogInit, RunInit DEF MachineInit
<1>2. ASSUME Inv, [MachineNext]_machineVars PROVE Inv'
  <2>1. /\ part' = part
        /\ part = "watchdog" => [Dog!Next]_(Dog!vars)
        /\ part = "run" => [Run!Next]_(Run!vars)
        /\ part = "orderly run" => [OrderlyRun!Next]_(OrderlyRun!vars)
    BY <1>2 DEF MachineNext, machineVars, dogVars, Dog!vars, runVars, Run!vars, OrderlyRun!vars
  <2>2. CASE part = "watchdog"
    BY <1>0, <1>2, <2>1, <2>2, DogStep
  <2>3. CASE part = "run"
    BY <1>0, <1>2, <2>1, <2>3, RacingStep
  <2>4. CASE part = "orderly run"
    BY <1>0, <1>2, <2>1, <2>4, RunStep
  <2> QED
    BY <2>1, <2>2, <2>3, <2>4
<1>3. Inv => CutsHaveCause
  BY <1>0, DogWatches, RunDecides, RunIsOver DEF CutsHaveCause, Watched
<1> QED
  BY <1>1, <1>2, <1>3, PTL DEF MachineSpec
=============================================================================
