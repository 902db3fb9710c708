------------------------------ MODULE Sandboxes -------------------------------
(****************************************************************************)
(* The micro-VMs of one project: the boxes its turns, its verifications and *)
(* its checks run in, the warm snapshots they start from, what is copied    *)
(* into them and back, and the sweep of a boot.  A tree is a set of files;  *)
(* each task writes one of its own and may delete the one they all have.    *)
(****************************************************************************)
EXTENDS Naturals, FiniteSets

CONSTANTS
  Tasks,
  Warm,       \* the project has a runbook, so boxes start from a snapshot
  Alike,      \* the tasks whose lockfiles are equal, so their snapshots are too
  Persons,    \* somebody asks for checks by hand, beside a turn
  Deletes,    \* agents delete files
  CopyFails,  \* the copy out of a box may fail
  Sweeps,     \* a boot's sweep may be under way
  MaxCrashes, \* a bound
  MaxTurns    \* a bound on the turns of a task

ParametersAreSound ==
  /\ {Warm, Persons, Deletes, CopyFails, Sweeps} \subseteq BOOLEAN
  /\ Alike \subseteq Tasks /\ {MaxCrashes, MaxTurns} \subseteq Nat
  /\ Tasks \intersect {"none", "base", "all"} = {}

VARIABLES
  recorded,  \* the tasks that have a record
  tree,      \* the worktree of each task
  meant,     \* what its turns have made of it
  turns,     \* how many it has had
  snaps,     \* the snapshots: fingerprint -> the files of /work, or none
  boxes,     \* the boxes: name -> the files of /work, or none
  work,      \* the chain at work and the checks by hand, see Resting
  sweep,     \* the boot's sweep: [claimed, listed]
  crashes,
  tested     \* the last verification or check: [is, of], two trees

vars == <<recorded, tree, meant, turns, snaps, boxes, work, sweep, crashes, tested>>
disk == <<recorded, tree, meant, turns>>

Base == "base"
Files == Tasks \union {Base}

\* projectSnapshotFingerprint, of the worktree's lockfiles.
Fingerprint(t) == IF t \in Alike THEN "all" ELSE t
Fingerprints == Tasks \union {"all"}

NoFiles == {"none"}
There(content) == content # NoFiles

\* Box names; those of checks and of a build carry no task.
Names == ({"dev", "verify"} \X Tasks) \union ({"checks"} \X Tasks) \union ({"scan"} \X Fingerprints)
TaskOf(name) == IF name[1] \in {"dev", "verify"} THEN {name[2]} ELSE {}

Chain == "chain"
Hand == "by hand"
Actors == {Chain, Hand}
Resting == [at |-> "rest", task |-> "none", snap |-> "none", box |-> <<"none", "none">>, ok |-> TRUE]

NoSweep == [on |-> FALSE, claimed |-> {}, listed |-> {}]
NotTested == [is |-> {}, of |-> {}]

TypeOK ==
  /\ recorded \subseteq Tasks
  /\ \A t \in Tasks : tree[t] \subseteq Files /\ meant[t] \subseteq Files /\ turns[t] \in 0 .. MaxTurns
  /\ \A f \in Fingerprints : snaps[f] = NoFiles \/ snaps[f] \subseteq Files
  /\ \A n \in Names : boxes[n] = NoFiles \/ boxes[n] \subseteq Files
  /\ \A a \in Actors : work[a].at \in {"rest", "resolves", "builds", "installs", "purges", "boots",
                                       "copies in", "works", "copies out", "ends"}
  /\ sweep.claimed \subseteq Tasks /\ sweep.listed \subseteq Names

Init ==
  /\ recorded = {} /\ tree = [t \in Tasks |-> {Base}] /\ meant = tree
  /\ turns = [t \in Tasks |-> 0]
  /\ snaps = [f \in Fingerprints |-> NoFiles] /\ boxes = [n \in Names |-> NoFiles]
  /\ work = [a \in Actors |-> Resting]
  /\ sweep = NoSweep /\ crashes = 0 /\ tested = NotTested

Becomes(a, at) == work' = [work EXCEPT ![a].at = at]
Rests(a) == work' = [work EXCEPT ![a] = Resting]
Box(a) == work[a].box
Holds(a) == work[a].at \in {"installs", "copies in", "works", "copies out", "ends"}

------------------------------------------------------------------------------
(* Starting *)

Creates(t) ==
  /\ t \notin recorded /\ recorded' = recorded \union {t}
  /\ UNCHANGED <<tree, meant, turns, snaps, boxes, work, sweep, crashes, tested>>

\* A turn of the chain, or its verification; a person's checks.
Starts(a, kind, t) ==
  work' = [work EXCEPT ![a] = [Resting EXCEPT !.at = "resolves", !.task = t, !.box = <<kind, t>>]]

Turns(t) ==
  /\ work[Chain] = Resting /\ t \in recorded /\ turns[t] < MaxTurns
  /\ Starts(Chain, "dev", t) /\ turns' = [turns EXCEPT ![t] = @ + 1]
  /\ UNCHANGED <<recorded, tree, meant, snaps, boxes, sweep, crashes, tested>>

Verifies(t) ==
  /\ Warm /\ work[Chain] = Resting /\ t \in recorded /\ turns[t] > 0
  /\ Starts(Chain, "verify", t)
  /\ UNCHANGED <<disk, snaps, boxes, sweep, crashes, tested>>

AsksForChecks(t) ==
  /\ Persons /\ work[Hand] = Resting /\ t \in recorded /\ turns[t] > 0
  /\ Starts(Hand, "checks", t)
  /\ UNCHANGED <<disk, snaps, boxes, sweep, crashes, tested>>

\* resolveProjectSnapshot: a snapshot of that fingerprint, or, for a turn and a
\* verification, one to be built; checks and boxes without a runbook boot cold.
Resolves(a) ==
  LET f == Fingerprint(work[a].task)
  IN /\ work[a].at = "resolves"
     /\ work' = IF ~Warm THEN [work EXCEPT ![a].at = "boots"]
                ELSE IF There(snaps[f]) THEN [work EXCEPT ![a].at = "boots", ![a].snap = f]
                ELSE IF a = Chain THEN [work EXCEPT ![a].at = "builds"]
                ELSE [work EXCEPT ![a].at = "boots"]
     /\ UNCHANGED <<disk, snaps, boxes, sweep, crashes, tested>>

\* buildProjectSnapshot: a box of its own name, which replaces one of that name,
\* with a copy of this task's worktree...
Builds(a) ==
  LET n == <<"scan", Fingerprint(work[a].task)>>
  IN /\ work[a].at = "builds"
     /\ boxes' = [boxes EXCEPT ![n] = tree[work[a].task]]
     /\ work' = [work EXCEPT ![a].at = "installs"]
     /\ UNCHANGED <<disk, snaps, sweep, crashes, tested>>

ScanBox(a) == <<"scan", Fingerprint(work[a].task)>>

\* ... the install, and the snapshot; the box is destroyed either way, and a
\* failure fails the turn.
Snapshots(a) ==
  /\ work[a].at = "installs" /\ There(boxes[ScanBox(a)])
  /\ snaps' = [snaps EXCEPT ![Fingerprint(work[a].task)] = boxes[ScanBox(a)]]
  /\ boxes' = [boxes EXCEPT ![ScanBox(a)] = NoFiles]
  /\ work' = [work EXCEPT ![a].at = "purges", ![a].snap = Fingerprint(work[a].task)]
  /\ UNCHANGED <<disk, sweep, crashes, tested>>

BuildFails(a) ==
  /\ work[a].at = "installs"
  /\ boxes' = [boxes EXCEPT ![ScanBox(a)] = NoFiles] /\ Rests(a)
  /\ UNCHANGED <<disk, snaps, sweep, crashes, tested>>

\* purgeProjectSnapshots: every other one of the project.
Kept(f, keep) == f = keep
Purges(a) ==
  /\ work[a].at = "purges" /\ Becomes(a, "boots")
  /\ snaps' = [f \in Fingerprints |-> IF Kept(f, work[a].snap) THEN snaps[f] ELSE NoFiles]
  /\ UNCHANGED <<disk, boxes, sweep, crashes, tested>>

------------------------------------------------------------------------------
(* A run in its box *)

\* Out of the snapshot, which must be there, or of the image.
Boots(a) ==
  /\ work[a].at = "boots"
  /\ \/ /\ work[a].snap = "none"
        /\ boxes' = [boxes EXCEPT ![Box(a)] = {}]
     \/ /\ work[a].snap # "none" /\ There(snaps[work[a].snap])
        /\ boxes' = [boxes EXCEPT ![Box(a)] = snaps[work[a].snap]]
  /\ Becomes(a, "copies in")
  /\ UNCHANGED <<disk, snaps, sweep, crashes, tested>>

CannotBoot(a) ==
  /\ work[a].at = "boots" /\ work[a].snap # "none" /\ ~There(snaps[work[a].snap])
  /\ Rests(a)
  /\ UNCHANGED <<disk, snaps, boxes, sweep, crashes, tested>>

\* copyFromHost unpacks the worktree over what is there.
CopiesIn(a) ==
  /\ work[a].at = "copies in" /\ There(boxes[Box(a)])
  /\ boxes' = [boxes EXCEPT ![Box(a)] = @ \union tree[work[a].task]]
  /\ Becomes(a, "works")
  /\ UNCHANGED <<disk, snaps, sweep, crashes, tested>>

\* The agent writes its file, and may delete the common one...
AgentWorks ==
  LET t == work[Chain].task
  IN /\ work[Chain].at = "works" /\ Box(Chain)[1] = "dev" /\ There(boxes[Box(Chain)])
     /\ \E gone \in IF Deletes THEN {{}, {Base}} ELSE {{}} :
          /\ boxes' = [boxes EXCEPT ![Box(Chain)] = (@ \union {t}) \ gone]
          /\ meant' = [meant EXCEPT ![t] = (@ \union {t}) \ gone]
     /\ Becomes(Chain, "copies out")
     /\ UNCHANGED <<recorded, tree, turns, snaps, sweep, crashes, tested>>

\* ... or dies, or is cut: what it wrote is copied out all the same.
AgentDies ==
  /\ work[Chain].at = "works" /\ Box(Chain)[1] = "dev" /\ There(boxes[Box(Chain)])
  /\ work' = [work EXCEPT ![Chain].at = "copies out", ![Chain].ok = FALSE]
  /\ UNCHANGED <<disk, snaps, boxes, sweep, crashes, tested>>

\* The tests of a verification, or of a check: of what is in the box.
Tests(a) ==
  /\ work[a].at = "works" /\ Box(a)[1] # "dev" /\ There(boxes[Box(a)])
  /\ tested' = [is |-> boxes[Box(a)], of |-> tree[work[a].task]]
  /\ Becomes(a, IF Box(a)[1] = "checks" THEN "copies out" ELSE "ends")
  /\ UNCHANGED <<disk, snaps, boxes, sweep, crashes>>

\* copyToHost unpacks the box over the worktree: nothing is deleted there.  That
\* it fails is swallowed.
CopiesOut(a) ==
  /\ work[a].at = "copies out" /\ There(boxes[Box(a)])
  /\ tree' = [tree EXCEPT ![work[a].task] = @ \union boxes[Box(a)]]
  /\ Becomes(a, "ends")
  /\ UNCHANGED <<recorded, meant, turns, snaps, boxes, sweep, crashes, tested>>

CannotCopyOut(a) ==
  /\ work[a].at = "copies out" /\ (CopyFails \/ ~There(boxes[Box(a)]))
  /\ Becomes(a, "ends")
  /\ UNCHANGED <<disk, snaps, boxes, sweep, crashes, tested>>

\* The box is destroyed, whatever came of the run.
Finishes(a) ==
  /\ work[a].at = "ends"
  /\ boxes' = [boxes EXCEPT ![Box(a)] = NoFiles] /\ Rests(a)
  /\ UNCHANGED <<disk, snaps, sweep, crashes, tested>>

\* A step of a run whose box is gone fails.
BoxIsGone(a) ==
  /\ work[a].at \in {"installs", "copies in", "works"}
  /\ ~There(boxes[IF work[a].at = "installs" THEN ScanBox(a) ELSE Box(a)])
  /\ Rests(a)
  /\ UNCHANGED <<disk, snaps, boxes, sweep, crashes, tested>>

------------------------------------------------------------------------------
(* Crashes, and the sweep of the boot *)

Crash ==
  /\ crashes < MaxCrashes /\ crashes' = crashes + 1
  /\ work' = [a \in Actors |-> Resting]
  /\ sweep' = [NoSweep EXCEPT !.on = Sweeps, !.claimed = recorded]
  /\ UNCHANGED <<disk, snaps, boxes, tested>>

\* sweepOrphanedSandboxes, beside what the boot starts: the claimed tasks are
\* read, then the boxes are listed...
Lists ==
  /\ sweep.on /\ sweep.listed = {} /\ \E n \in Names : There(boxes[n])
  /\ sweep' = [sweep EXCEPT !.listed = {n \in Names : There(boxes[n])}]
  /\ UNCHANGED <<disk, snaps, boxes, work, crashes, tested>>

\* ... and each that no task claims, now either, is destroyed.
Claimed(name) == TaskOf(name) \intersect (sweep.claimed \union recorded) # {}

Sweeps1(n) ==
  /\ n \in sweep.listed
  /\ sweep' = [sweep EXCEPT !.listed = @ \ {n}, !.on = sweep.listed # {n}]
  /\ boxes' = IF Claimed(n) THEN boxes ELSE [boxes EXCEPT ![n] = NoFiles]
  /\ UNCHANGED <<disk, snaps, work, crashes, tested>>

Next ==
  \/ \E t \in Tasks : Creates(t) \/ Turns(t) \/ Verifies(t) \/ AsksForChecks(t)
  \/ \E a \in Actors :
       \/ Resolves(a) \/ Builds(a) \/ Snapshots(a) \/ BuildFails(a) \/ Purges(a)
       \/ Boots(a) \/ CannotBoot(a) \/ CopiesIn(a) \/ Tests(a)
       \/ CopiesOut(a) \/ CannotCopyOut(a) \/ Finishes(a) \/ BoxIsGone(a)
  \/ AgentWorks \/ AgentDies
  \/ Crash \/ Lists \/ \E n \in Names : Sweeps1(n)

Spec == Init /\ [][Next]_vars
------------------------------------------------------------------------------
(* Properties *)

\* A worktree holds what its own task has had, and nothing of another's.
TreesAreTheirOwn == \A t \in Tasks : tree[t] \subseteq {Base, t}

\* Between turns a worktree is what its turns have made of it (copyToHost).
WorkArrives == work[Chain] = Resting /\ crashes = 0 => tree = meant

\* What is tested is the commit that the verdict names (verifyTask).
TestedIsTheCommit == tested.is = tested.of

\* Nobody destroys the box of a run but that run.
RunsKeepTheirBox ==
  \A a \in Actors : Holds(a) =>
    There(boxes[IF work[a].at = "installs" THEN ScanBox(a) ELSE Box(a)])

\* A run that was told of a snapshot can start from it.
ReadyIsThere == \A a \in Actors : work[a].snap # "none" => There(snaps[work[a].snap])

\* No box outlives its run, but for a crash (the `finally' of each of them).
NoBoxIsLeft ==
  crashes = 0 /\ (\A a \in Actors : work[a] = Resting) => \A n \in Names : ~There(boxes[n])
==============================================================================
