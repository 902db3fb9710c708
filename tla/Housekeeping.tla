---------------------------- MODULE Housekeeping ----------------------------
(***************************************************************************)
(* What a task leaves on the machine, and who takes it away.  A caged task *)
(* has a worktree, a directory with its record, and a HOME volume that its *)
(* first turn creates and seeds (bootstrapAgentHome in task-isolation.ts). *)
(* At each boot two passes run beside the tasks and are awaited by nobody: *)
(* the sweep of orphaned volumes (sweepOrphanedHomeVolumes) and the        *)
(* retention of terminated tasks (applyTaskRetention in task-retention.ts);*)
(* a human may abandon a task at any time (abandon in task-runner.ts).     *)
(*                                                                         *)
(* Every await is a step boundary.  A removal of a worktree waits for the  *)
(* lock of the repository, a minute at most: WorktreeLock has its own      *)
(* module.  The runtime's commands and git's may fail.                     *)
(***************************************************************************)
EXTENDS Naturals, FiniteSets

CONSTANTS
  Tasks,      \* ids of this user's tasks
  Foreign,    \* ids of another user of the same runtime, whose label they carry
  Old,        \* tasks whose volume carries no label: an earlier version made it
  Keep,       \* of the terminated tasks, the most recent stay
  Edits,      \* a human may write into a worktree
  Gestures,   \* a human may abandon a task
  Crashes     \* the process may die at any step; otherwise it drains and stops

Nobody == "nobody"

ParametersAreSound ==
  /\ Tasks \cap Foreign = {} /\ Old \subseteq Tasks /\ Nobody \notin Tasks
  /\ Keep \in Nat /\ {Edits, Gestures, Crashes} \subseteq BOOLEAN

ASSUME HouseParameters == ParametersAreSound

Ids == Tasks \cup Foreign

VARIABLES
  record,     \* of each task: "unborn", "live", "ended", "gone"
  dir,        \* its directory stands
  tree,       \* its worktree: "none", "clean", "dirty"
  home,       \* its volume: "none", "bare", "seeded"
  memo,       \* homes: what this process has bootstrapped
  turn,       \* of each task: "idle", "inspect", "create", "seed", "runs"
  abandon,    \* of each task: "none", "removing", "releasing"
  up,         \* the workspace runs
  sweep,      \* "off", "lists", "checks", "removes", "done"
  claimed,    \* the sweep's snapshot
  todo,       \* the volumes it has still to judge
  retention,  \* "off", "weighs", "removes", "releases", "drops", "done"
  beyond,     \* the tasks past the window, a snapshot; the pass is at one of them
  at,
  left, owed, \* history: releases that failed, and those of earlier processes
  bared         \* history: tasks interrupted, or left by a crash, before their seed

vars == <<record, dir, tree, home, memo, turn, abandon, up, sweep, claimed, todo,
          retention, beyond, at, left, owed, bared>>
disk == <<record, dir, tree>>
sweeping == <<sweep, claimed, todo>>
retaining == <<retention, beyond, at>>
history == <<left, owed, bared>>
others == <<up, abandon>>

\* The owner's label on a volume; nothing, for an old one.
Owner(t) == IF t \in Foreign THEN "them" ELSE IF t \in Old THEN "none" ELSE "us"

Init ==
  /\ record \in [Ids -> {"unborn", "live", "ended"}]
  /\ \A t \in Foreign : record[t] = "unborn"
  /\ dir = [t \in Ids |-> record[t] # "unborn"]
  /\ tree \in [Ids -> {"none", "clean", "dirty"}]
  /\ \A t \in Ids : tree[t] = "none" <=> record[t] = "unborn"
  /\ home = [t \in Ids |-> IF t \in Foreign \/ record[t] # "unborn" THEN "seeded" ELSE "none"]
  /\ memo = {} /\ left = {} /\ owed = {} /\ bared = {}
  /\ turn = [t \in Ids |-> "idle"]
  /\ abandon = [t \in Ids |-> "none"]
  /\ up = FALSE /\ sweep = "off" /\ claimed = {} /\ todo = {}
  /\ retention = "off" /\ beyond = {} /\ at = Nobody

-----------------------------------------------------------------------------
(* The tasks *)

\* A new task has its directory before anything else has its id.
Create(t) ==
  /\ up /\ record[t] = "unborn" /\ t \notin Foreign
  /\ record' = [record EXCEPT ![t] = "live"]
  /\ dir' = [dir EXCEPT ![t] = TRUE]
  /\ tree' = [tree EXCEPT ![t] = "clean"]
  /\ UNCHANGED <<home, memo, turn, others, sweeping, retaining, history>>

TurnStarts(t) ==
  /\ up /\ record[t] = "live" /\ turn[t] = "idle" /\ abandon[t] = "none"
  /\ turn' = [turn EXCEPT ![t] = IF t \in memo THEN "runs" ELSE "inspect"]
  /\ UNCHANGED <<disk, home, memo, others, sweeping, retaining, history>>

\* A volume that exists is left strictly alone.
Inspect(t) ==
  /\ turn[t] = "inspect"
  /\ IF home[t] # "none"
     THEN /\ turn' = [turn EXCEPT ![t] = "runs"]
          /\ memo' = memo \cup {t}
     ELSE /\ turn' = [turn EXCEPT ![t] = "create"]
          /\ UNCHANGED memo
  /\ UNCHANGED <<disk, home, others, sweeping, retaining, history>>

CreateHome(t) ==
  /\ turn[t] = "create"
  /\ home' = [home EXCEPT ![t] = "bare"]
  /\ turn' = [turn EXCEPT ![t] = "seed"]
  /\ UNCHANGED <<disk, memo, others, sweeping, retaining, history>>

\* failTurn, of a turn whose bootstrap threw: the task is over, or interrupted
\* if it was being stopped, and an interrupted task may have another turn.
TurnFails(t, aborted) ==
  /\ turn' = [turn EXCEPT ![t] = "idle"]
  /\ record' = [record EXCEPT ![t] = IF aborted THEN "live" ELSE "ended"]

CreateFails(t) ==
  /\ turn[t] = "create"
  /\ \E aborted \in BOOLEAN : TurnFails(t, aborted)
  /\ UNCHANGED <<dir, tree, home, memo, others, sweeping, retaining, history>>

SeedIgnored(t, ok) ==
  /\ home' = [home EXCEPT ![t] = IF ok THEN "seeded" ELSE @]
  /\ turn' = [turn EXCEPT ![t] = "runs"]
  /\ memo' = memo \cup {t}
  /\ UNCHANGED <<record, bared>>
\* A seeding that fails fails the turn; the volume stays, bare.
SeedOutcome(t, ok) ==
  IF ok
  THEN /\ home' = [home EXCEPT ![t] = "seeded"]
       /\ turn' = [turn EXCEPT ![t] = "runs"]
       /\ memo' = memo \cup {t}
       /\ UNCHANGED <<record, bared>>
  ELSE /\ \E aborted \in BOOLEAN :
            /\ TurnFails(t, aborted)
            /\ bared' = IF aborted THEN bared \cup {t} ELSE bared
       /\ UNCHANGED <<home, memo>>

Seed(t) ==
  /\ turn[t] = "seed"
  /\ \E ok \in BOOLEAN : SeedOutcome(t, ok)
  /\ UNCHANGED <<dir, tree, others, sweeping, retaining, left, owed>>

\* The turn commits what it wrote, or fails and leaves it uncommitted.
TurnEnds(t) ==
  /\ turn[t] = "runs"
  /\ turn' = [turn EXCEPT ![t] = "idle"]
  /\ \E end \in {"live", "ended"} : record' = [record EXCEPT ![t] = end]
  /\ \E dirt \in {"clean", "dirty"} : tree' = [tree EXCEPT ![t] = dirt]
  /\ UNCHANGED <<dir, home, memo, others, sweeping, retaining, history>>

Edit(t) ==
  /\ Edits /\ tree[t] = "clean"
  /\ tree' = [tree EXCEPT ![t] = "dirty"]
  /\ UNCHANGED <<record, dir, home, memo, turn, others, sweeping, retaining, history>>

-----------------------------------------------------------------------------
(* An abandon, which also cleans up after a terminated task *)

AbandonBegins(t) ==
  /\ Gestures /\ up
  /\ record[t] \in {"live", "ended"} /\ turn[t] = "idle" /\ abandon[t] = "none"
  /\ abandon' = [abandon EXCEPT ![t] = "removing"]
  /\ UNCHANGED <<disk, home, memo, turn, up, sweeping, retaining, history>>

\* The worktree is gone.  A branch that is kept is told to the journal, which
\* makes the directory if need be; then the record is read again.
AbandonRemoves(t, keepsBranch) ==
  /\ abandon[t] = "removing"
  /\ tree' = [tree EXCEPT ![t] = "none"]
  /\ IF record[t] = "gone"
     THEN /\ abandon' = [abandon EXCEPT ![t] = "none"]
          /\ dir' = [dir EXCEPT ![t] = @ \/ keepsBranch]
          /\ UNCHANGED record
     ELSE /\ abandon' = [abandon EXCEPT ![t] = "releasing"]
          /\ record' = [record EXCEPT ![t] = "ended"]
          /\ UNCHANGED dir
  /\ UNCHANGED <<home, memo, turn, up, sweeping, retaining, history>>

AbandonFails(t) ==
  /\ abandon[t] = "removing"
  /\ abandon' = [abandon EXCEPT ![t] = "none"]
  /\ UNCHANGED <<disk, home, memo, turn, up, sweeping, retaining, history>>

\* releaseAgentHome: what was never there is released, too.
Release(t, ok) ==
  IF ok \/ home[t] = "none"
  THEN home' = [home EXCEPT ![t] = "none"] /\ memo' = memo \ {t} /\ left' = left \ {t}
  ELSE left' = left \cup {t} /\ UNCHANGED <<home, memo>>

AbandonReleases(t) ==
  /\ abandon[t] = "releasing"
  /\ abandon' = [abandon EXCEPT ![t] = "none"]
  /\ dir' = [dir EXCEPT ![t] = TRUE]     \* the journal is told
  /\ \E ok \in BOOLEAN : Release(t, ok)
  /\ UNCHANGED <<record, tree, turn, up, sweeping, retaining, owed, bared>>

-----------------------------------------------------------------------------
(* The boot, and the sweep of the volumes no task claims *)

\* projectClaimedIds: directories, whether their record can be read or not.
ClaimedIds == {t \in Ids : dir[t]}

Boot ==
  /\ ~ up /\ up' = TRUE
  /\ sweep' = "lists" /\ claimed' = ClaimedIds
  /\ \E kept \in SUBSET {t \in Ids : record[t] = "ended"} :
       LET ended == {t \in Ids : record[t] = "ended"} IN
       /\ Cardinality(kept) = IF Cardinality(ended) < Keep THEN Cardinality(ended) ELSE Keep
       /\ beyond' = ended \ kept
  /\ retention' = "weighs"
  /\ owed' = left
  /\ UNCHANGED <<disk, home, memo, turn, abandon, todo, at, left, bared>>

\* An inventory that cannot be read forbids the sweep: projects, then volumes.
SweepSkips ==
  /\ sweep = "lists" /\ sweep' = "done"
  /\ UNCHANGED <<disk, home, memo, turn, others, claimed, todo, retaining, history>>

SweepLists ==
  /\ sweep = "lists" /\ sweep' = "checks"
  /\ todo' = {t \in Ids : home[t] # "none"}
  /\ UNCHANGED <<disk, home, memo, turn, others, claimed, retaining, history>>

\* An unlabelled volume is judged like ours; another user's never is.
Judged(t) == Owner(t) # "them"

SnapshotOnly(t) == t \notin claimed
\* Read again right before the removal, whatever the snapshot says.
Orphan(t) == t \notin claimed /\ t \notin ClaimedIds

\* One volume is judged; the removal is under way before anybody else moves.
SweepJudges(t) ==
  /\ sweep = "checks" /\ t \in todo
  /\ todo' = todo \ {t}
  /\ \E removed \in IF Judged(t) /\ Orphan(t) THEN BOOLEAN ELSE {FALSE} :
       home' = [home EXCEPT ![t] = IF removed THEN "none" ELSE @]
  /\ UNCHANGED <<disk, memo, turn, others, sweep, claimed, retaining, history>>

SweepEnds ==
  /\ sweep = "checks" /\ todo = {}
  /\ sweep' = "done"
  /\ UNCHANGED <<disk, home, memo, turn, others, claimed, todo, retaining, history>>

-----------------------------------------------------------------------------
(* Retention, one task after the other *)

\* uncommittedCount: only a status that was read, and is empty, clears the way.
Clears(status) == status \in {"clean", "none"}

RetentionWeighs(t) ==
  /\ retention = "weighs" /\ t \in beyond
  /\ beyond' = beyond \ {t}
  /\ \E status \in {tree[t], "unreadable"} :
       IF Clears(status)
       THEN retention' = "removes" /\ at' = t
       ELSE UNCHANGED <<retention, at>>
  /\ UNCHANGED <<disk, home, memo, turn, others, sweeping, history>>

\* A worktree git refuses to remove keeps its task.
AfterRemoval(removed) == IF removed THEN "releases" ELSE "weighs"

RetentionRemoves ==
  /\ retention = "removes"
  /\ \E removed \in BOOLEAN :
       /\ tree[at] = "none" => removed
       /\ tree' = [tree EXCEPT ![at] = IF removed THEN "none" ELSE @]
       /\ retention' = AfterRemoval(removed)
       /\ at' = IF AfterRemoval(removed) = "weighs" THEN Nobody ELSE at
  /\ UNCHANGED <<record, dir, home, memo, turn, others, sweeping, beyond, history>>

RetentionReleases ==
  /\ retention = "releases" /\ retention' = "drops"
  /\ \E ok \in BOOLEAN : Release(at, ok)
  /\ UNCHANGED <<disk, turn, others, sweeping, beyond, at, owed, bared>>

\* removeTaskDir removes the record with the directory, or nothing.
RetentionDrops ==
  /\ retention = "drops" /\ retention' = "weighs" /\ at' = Nobody
  /\ \E ok \in BOOLEAN :
       /\ record' = [record EXCEPT ![at] = IF ok THEN "gone" ELSE @]
       /\ dir' = [dir EXCEPT ![at] = IF ok THEN FALSE ELSE @]
  /\ UNCHANGED <<tree, home, memo, turn, others, sweeping, beyond, history>>

RetentionEnds ==
  /\ retention = "weighs" /\ beyond = {}
  /\ retention' = "done" /\ at' = Nobody
  /\ UNCHANGED <<disk, home, memo, turn, others, sweeping, beyond, history>>

-----------------------------------------------------------------------------
(* The end of a process *)

ProcessEnds ==
  /\ up' = FALSE /\ memo' = {}
  /\ turn' = [t \in Ids |-> "idle"]
  /\ abandon' = [t \in Ids |-> "none"]
  /\ sweep' = "off" /\ claimed' = {} /\ todo' = {}
  /\ retention' = "off" /\ beyond' = {} /\ at' = Nobody
  /\ bared' = bared \cup {t \in Ids : turn[t] = "seed"}
  /\ UNCHANGED <<disk, home, left, owed>>

Crash == Crashes /\ up /\ ProcessEnds

\* A graceful one waits for the turns and the abandons, not for the passes.
Shutdown ==
  /\ up /\ \A t \in Ids : turn[t] = "idle" /\ abandon[t] = "none"
  /\ ProcessEnds

Next ==
  \/ Boot \/ Crash \/ Shutdown
  \/ SweepSkips \/ SweepLists \/ SweepEnds
  \/ RetentionRemoves \/ RetentionReleases \/ RetentionDrops \/ RetentionEnds
  \/ \E t \in Ids :
       \/ Create(t) \/ TurnStarts(t) \/ Inspect(t) \/ CreateHome(t) \/ CreateFails(t) \/ Seed(t)
       \/ TurnEnds(t)
       \/ Edit(t)
       \/ AbandonBegins(t) \/ AbandonFails(t) \/ AbandonReleases(t)
       \/ \E keepsBranch \in BOOLEAN : AbandonRemoves(t, keepsBranch)
       \/ SweepJudges(t) \/ RetentionWeighs(t)

Spec == Init /\ [][Next]_vars

\* The workspace is started again and again; what it has begun goes on; an
\* inventory is readable, and a removal succeeds, as often as it is tried.
FairSpec ==
  /\ Spec
  /\ WF_vars(Boot) /\ WF_vars(SweepEnds) /\ SF_vars(SweepLists)
  /\ SF_vars(sweep = "done" /\ Shutdown)
  /\ \A t \in Ids :
       /\ WF_vars(Inspect(t)) /\ WF_vars(CreateHome(t)) /\ WF_vars(Seed(t))
       /\ WF_vars(TurnEnds(t)) /\ WF_vars(SweepJudges(t))
       /\ SF_vars(SweepJudges(t) /\ home'[t] # home[t])

-----------------------------------------------------------------------------
(* Properties *)

\* Every variable has its type; what this process remembers to have
\* bootstrapped is there, and the pass is at a task exactly between two verdicts.
TypeOK ==
  /\ record \in [Ids -> {"unborn", "live", "ended", "gone"}]
  /\ dir \in [Ids -> BOOLEAN]
  /\ tree \in [Ids -> {"none", "clean", "dirty"}]
  /\ home \in [Ids -> {"none", "bare", "seeded"}]
  /\ memo \subseteq Tasks /\ left \subseteq Tasks /\ owed \subseteq Tasks
  /\ bared \subseteq Ids
  /\ turn \in [Ids -> {"idle", "inspect", "create", "seed", "runs"}]
  /\ abandon \in [Ids -> {"none", "removing", "releasing"}]
  /\ up \in BOOLEAN
  /\ sweep \in {"off", "lists", "checks", "done"}
  /\ claimed \subseteq Ids /\ todo \subseteq Ids
  /\ retention \in {"off", "weighs", "removes", "releases", "drops", "done"}
  /\ beyond \subseteq Tasks /\ at \in Tasks \cup {Nobody}
  /\ \A t \in memo : home[t] # "none"
  /\ at # Nobody <=> retention \in {"removes", "releases", "drops"}

\* Nobody loses the HOME of a task that may have another turn, nor that of
\* another user of the machine, whatever is created while a pass is running
\* (the recheck right before each removal; releases come after the status).
KeepsHomesOfOthers ==
  \A t \in Ids : home[t] # "none" /\ home'[t] = "none" => record[t] \in {"ended", "gone"}

\* No record is dropped on top of a worktree: one that no record names would
\* stand for ever (WorktreeRemoval, worktree_removed).
NoOrphanTree == \A t \in Tasks : record[t] = "gone" => tree[t] = "none"

\* Housekeeping that nobody asked for destroys no uncommitted work: only an
\* abandon of this very task does (DP16).
KeepsUncommitted ==
  \A t \in Ids : tree[t] = "dirty" /\ tree'[t] = "none" => abandon[t] = "removing"
UncommittedKept == [][KeepsUncommitted]_vars

\* What is mounted in a caged turn is there, whoever sweeps, and has had its
\* credentials, if there are any; or else its seeding was cut short, by an
\* interruption or a crash, and the volume that it left was taken for a home.
TurnsAreSeeded ==
  \A t \in Ids : turn[t] = "runs" => home[t] = "seeded" \/ (home[t] = "bare" /\ t \in bared)

\* A HOME volume is created and seeded once (bootstrapAgentHome's comment): that
\* one exists means that it was bootstrapped.
ExistenceMeansSeeded == \A t \in Ids : turn[t] = "runs" => home[t] = "seeded"

\* The house is in order: what is recorded stands, what is dropped has left no
\* worktree, what a caged turn is given has its credentials, or was cut short of
\* them (task-retention.ts, task-isolation.ts).
HouseInOrder == TypeOK /\ NoOrphanTree /\ TurnsAreSeeded

\* And nobody cleans up after a task that may still want it: neither its HOME,
\* nor work that it has not committed.
CleansItsOwnOnly == [][KeepsHomesOfOthers /\ KeepsUncommitted]_vars

\* The volume of a task that is gone goes with one of the next boots, label or
\* no label.
OrphanHomesGo == \A t \in Tasks : record[t] = "gone" ~> (home[t] = "none")

\* A directory that was purged is not made again (removeTaskDir's comment).
GoneStaysGone == [][\A t \in Ids : ~ dir[t] /\ dir'[t] => record'[t] = "live"]_vars

\* A volume that could not be released is taken by the sweep of the next start
\* (releaseAgentHome's comment): at the least, the sweep tries.
NextStartTakesIt ==
  [][\A t \in owed \cap todo : t \notin todo' /\ up' => Orphan(t)]_vars
=============================================================================
