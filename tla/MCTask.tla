------------------------------- MODULE MCTask --------------------------------
(****************************************************************************)
(* Small instances of the modules about what a task works with: the checks  *)
(* of its turns and the branches that hold its work, the runbook of its     *)
(* project, the micro-VMs all of them run in, and what its turns cost. They *)
(* are checked in one run: `part' says which of them moves, and the others  *)
(* rest.                                                                    *)
(****************************************************************************)
EXTENDS Naturals, Checks

CONSTANTS
  Parts,  \* those of the parts below that this run explores
  Tasks, MaxCommits, BranchTurns, MaxHands, MaxCrashes, MaxSuffix, Proposals,
  Hands, BranchWaits, CrashesAt,  \* of the branches, where none is by hand
  Books, BookAttempts, BookVersions,  \* of the runbook
  BoxTurns, BoxCrashes  \* of the boxes, whose tasks are those of the branches

\* The checks runs of one task, in a micro-VM, are this module's own; the same
\* with crashes, and on the host with a person's runs and refused writes.
CutRuns == INSTANCE Checks WITH
  MaxTurns <- 3, Persons <- FALSE, MicroVm <- TRUE, Refuses <- FALSE,
  Ends <- {"drain", "crash"}
HandRuns == INSTANCE Checks WITH
  MaxTurns <- 3, Persons <- TRUE, MicroVm <- FALSE, Refuses <- TRUE,
  Ends <- {"drain", "crash"}

VARIABLE part  \* the one that moves

\* The branches of two tasks, of one and a person at git, and of two whose
\* abandons wait for the repository's lock.
VARIABLES refs, origin, main, trees, records, run, going, maker, branchTold,
          hands, branchCrashes, trashed
twigsVars == <<refs, origin, main, trees, records, run, going, maker,
               branchTold, hands, branchCrashes, trashed>>
Twigs == INSTANCE Branches WITH
  MaxTurns <- BranchTurns, Waits <- BranchWaits,
  told <- branchTold, crashes <- branchCrashes
HandTwigs == INSTANCE Branches WITH
  Tasks <- {"a"}, MaxCommits <- 2, MaxTurns <- 3, MaxHands <- 4,
  MaxCrashes <- 1, MaxSuffix <- 3, Proposals <- {"y"},
  Hands <- {"commits", "checks out", "deletes", "removes"}, Waits <- FALSE,
  CrashesAt <- {"none", "works", "named", "committed"}, told <- branchTold,
  crashes <- branchCrashes
SlowTwigs == INSTANCE Branches WITH
  Tasks <- {"a", "b"}, MaxCommits <- 2, MaxTurns <- 2, MaxHands <- 0,
  MaxCrashes <- 0, MaxSuffix <- 2, Proposals <- {"y"}, Hands <- {},
  Waits <- TRUE, CrashesAt <- {}, told <- branchTold, crashes <- branchCrashes

\* The runbook of a project whose scans and validations come one at a time, and
\* of one whose validations run beside the daemon's scan.
VARIABLES runbookTree, history, runbook, validation, runbookRuns, hub, due,
          greens, cut, verdict
bookVars == <<runbookTree, history, runbook, validation, runbookRuns, hub,
              due, greens, cut, verdict>>
Book == INSTANCE Runbook WITH
  Runbooks <- Books, MaxAttempts <- BookAttempts, MaxVersions <- BookVersions,
  Commands <- {"scan", "validate"}, Overlaps <- FALSE, Moves <- FALSE,
  Losses <- TRUE, Sleeps <- FALSE, Crashes <- TRUE, tree <- runbookTree,
  runs <- runbookRuns
SharedBook == INSTANCE Runbook WITH
  Runbooks <- Books, MaxAttempts <- BookAttempts, MaxVersions <- BookVersions,
  Commands <- {"validate"}, Overlaps <- TRUE, Moves <- FALSE, Losses <- FALSE,
  Sleeps <- TRUE, Crashes <- TRUE, tree <- runbookTree, runs <- runbookRuns

\* The micro-VMs of two tasks: without a runbook, with one, with checks by hand
\* over snapshots that both tasks share or that one takes from the other, and
\* with a boot's sweep.
VARIABLES recorded, sandboxTree, meant, sandboxTurns, snaps, boxes, work,
          sweep, sandboxCrashes, tested
boxesVars == <<recorded, sandboxTree, meant, sandboxTurns, snaps, boxes, work,
               sweep, sandboxCrashes, tested>>
Boxes == INSTANCE Sandboxes WITH
  Warm <- TRUE, Alike <- {}, Persons <- FALSE,
  Deletes <- FALSE, CopyFails <- FALSE, Sweeps <- FALSE, MaxCrashes <- BoxCrashes,
  MaxTurns <- BoxTurns, tree <- sandboxTree, turns <- sandboxTurns,
  crashes <- sandboxCrashes
ColdBoxes == INSTANCE Sandboxes WITH
  Warm <- FALSE, Alike <- {}, Persons <- FALSE,
  Deletes <- FALSE, CopyFails <- FALSE, Sweeps <- TRUE, MaxCrashes <- BoxCrashes,
  MaxTurns <- BoxTurns, tree <- sandboxTree, turns <- sandboxTurns,
  crashes <- sandboxCrashes
HandBoxes == INSTANCE Sandboxes WITH
  Warm <- TRUE, Alike <- Tasks, Persons <- TRUE,
  Deletes <- TRUE, CopyFails <- TRUE, Sweeps <- FALSE, MaxCrashes <- 0,
  MaxTurns <- BoxTurns, tree <- sandboxTree, turns <- sandboxTurns,
  crashes <- sandboxCrashes
ApartBoxes == INSTANCE Sandboxes WITH
  Warm <- TRUE, Alike <- {}, Persons <- TRUE,
  Deletes <- FALSE, CopyFails <- FALSE, Sweeps <- FALSE, MaxCrashes <- 0,
  MaxTurns <- BoxTurns, tree <- sandboxTree, turns <- sandboxTurns,
  crashes <- sandboxCrashes
SweptBoxes == INSTANCE Sandboxes WITH
  Warm <- TRUE, Alike <- {}, Persons <- FALSE,
  Deletes <- FALSE, CopyFails <- FALSE, Sweeps <- TRUE, MaxCrashes <- BoxCrashes,
  MaxTurns <- BoxTurns, tree <- sandboxTree, turns <- sandboxTurns,
  crashes <- sandboxCrashes

\* What the turns of one task cost, and the same where sums leave the range of
\* exact integers.
VARIABLES agent, status, costTurns, total, attempt, parser, buffer, stream,
          over, bill, spent, unsaid, burned, all, costTold, costRuns
billsVars == <<agent, status, costTurns, total, attempt, parser, buffer,
               stream, over, bill, spent, unsaid, burned, all, costTold,
               costRuns>>
Bills == INSTANCE TurnCost WITH
  Agents <- {"claude", "opencode"},
  Models <- {"priced", "unpriced", "partner"}, Repeats <- TRUE,
  Unnamed <- FALSE, Crashes <- TRUE, SafeMax <- 100, MaxTurns <- 2,
  MaxRuns <- 3, MaxResponses <- 2, MaxPrice <- 1, turns <- costTurns,
  told <- costTold, runs <- costRuns
LargeBills == INSTANCE TurnCost WITH
  Agents <- {"claude", "opencode"},
  Models <- {"priced", "unpriced", "partner"}, Repeats <- TRUE,
  Unnamed <- FALSE, Crashes <- TRUE, SafeMax <- 3, MaxTurns <- 2,
  MaxRuns <- 3, MaxResponses <- 2, MaxPrice <- 1, turns <- costTurns,
  told <- costTold, runs <- costRuns

ASSUME PartsAreSound ==
  /\ Parts \subseteq {"checks", "checks cut", "checks by hand", "branches",
                     "branches by hand", "branches wait", "runbook",
                     "runbook shared", "boxes", "boxes cold", "boxes by hand",
                     "boxes apart", "boxes swept", "costs",
                     "costs at the limit"}
  /\ ParametersAreSound /\ CutRuns!ParametersAreSound
  /\ HandRuns!ParametersAreSound /\ Twigs!ParametersAreSound
  /\ HandTwigs!ParametersAreSound /\ SlowTwigs!ParametersAreSound
  /\ Book!ParametersAreSound /\ SharedBook!ParametersAreSound
  /\ Boxes!ParametersAreSound /\ ColdBoxes!ParametersAreSound
  /\ HandBoxes!ParametersAreSound /\ ApartBoxes!ParametersAreSound
  /\ SweptBoxes!ParametersAreSound /\ Bills!ParametersAreSound
  /\ LargeBills!ParametersAreSound

taskVars == <<part, vars, twigsVars, bookVars, boxesVars, billsVars>>

\* The parts that do not move rest where they start, each in one of its initial
\* states.
TaskInit ==
  /\ part \in Parts
  /\ Init /\ Twigs!Init /\ Book!Init /\ Boxes!Init /\ Bills!Init
  /\ \/ part \in {"branches", "branches by hand", "branches wait"}
     \/ refs[Twigs!User] = Twigs!NoRef
  /\ part \in {"costs", "costs at the limit"} \/ agent = "claude"

TaskNext ==
  /\ UNCHANGED part
  /\ \/ /\ part = "checks" /\ Next
        /\ UNCHANGED <<twigsVars, bookVars, boxesVars, billsVars>>
     \/ /\ part = "checks cut" /\ CutRuns!Next
        /\ UNCHANGED <<twigsVars, bookVars, boxesVars, billsVars>>
     \/ /\ part = "checks by hand" /\ HandRuns!Next
        /\ UNCHANGED <<twigsVars, bookVars, boxesVars, billsVars>>
     \/ /\ part = "branches" /\ Twigs!Next
        /\ UNCHANGED <<vars, bookVars, boxesVars, billsVars>>
     \/ /\ part = "branches by hand" /\ HandTwigs!Next
        /\ UNCHANGED <<vars, bookVars, boxesVars, billsVars>>
     \/ /\ part = "branches wait" /\ SlowTwigs!Next
        /\ UNCHANGED <<vars, bookVars, boxesVars, billsVars>>
     \/ /\ part = "runbook" /\ Book!Next
        /\ UNCHANGED <<vars, twigsVars, boxesVars, billsVars>>
     \/ /\ part = "runbook shared" /\ SharedBook!Next
        /\ UNCHANGED <<vars, twigsVars, boxesVars, billsVars>>
     \/ /\ part = "boxes" /\ Boxes!Next
        /\ UNCHANGED <<vars, twigsVars, bookVars, billsVars>>
     \/ /\ part = "boxes cold" /\ ColdBoxes!Next
        /\ UNCHANGED <<vars, twigsVars, bookVars, billsVars>>
     \/ /\ part = "boxes by hand" /\ HandBoxes!Next
        /\ UNCHANGED <<vars, twigsVars, bookVars, billsVars>>
     \/ /\ part = "boxes apart" /\ ApartBoxes!Next
        /\ UNCHANGED <<vars, twigsVars, bookVars, billsVars>>
     \/ /\ part = "boxes swept" /\ SweptBoxes!Next
        /\ UNCHANGED <<vars, twigsVars, bookVars, billsVars>>
     \/ /\ part = "costs" /\ Bills!Next
        /\ UNCHANGED <<vars, twigsVars, bookVars, boxesVars>>
     \/ /\ part = "costs at the limit" /\ LargeBills!Next
        /\ UNCHANGED <<vars, twigsVars, bookVars, boxesVars>>

TaskSpec == TaskInit /\ [][TaskNext]_taskVars
------------------------------------------------------------------------------
(* Properties *)

\* Nobody but a person takes a commit away; a task's commits are on the branch its
\* record names, or its journal says that they are not; what a turn committed
\* no later one takes back; one conversation to a branch and a branch to each
\* conversation, the one in the worktree; and what the task measures as its own
\* is its own (task-worktree.ts, task-plan.ts, task-runner.ts).
BranchesHoldTheWork ==
  /\ part = "branches" => Twigs!TypeOK /\ Twigs!WorkIsOnABranch
  /\ part \in {"branches", "branches wait"} =>
       /\ Twigs!LineageIsNamed /\ Twigs!OneConversationPerBranch /\ Twigs!ActiveBranchLives
       /\ Twigs!RecordNamesTheTree /\ Twigs!MeasureIsTold
  /\ part = "branches by hand" =>
       /\ HandTwigs!WorkIsOnABranch /\ HandTwigs!LineageIsNamed
       /\ HandTwigs!RecordNamesTheTree /\ HandTwigs!MeasureIsTold
  /\ part \in {"checks", "checks cut", "checks by hand"} => WorkIsKept
  /\ part \in {"boxes", "boxes cold"} => Boxes!WorkArrives

\* With nobody asking for runs by hand a running mark is a run at work, `verified'
\* is of the commit named, and the evidence of a turn is that turn's
\* (task-server.ts, prepareChecks).  A cost is what it calls itself, of all the
\* attempts at its turn, and the total is of the turns it says (cost.ts,
\* accrueCost).
RecordsTellTheTruth ==
  /\ part = "checks" => TypeOK /\ RunningIsARun /\ ItemsAreOfTheirTurn
  /\ part \in {"checks", "checks cut"} => VerifiedIsTrue
  /\ part = "costs" => Bills!TypeOK /\ Bills!TokensAreTheRuns /\ Bills!AttemptHoldsTheBest
  /\ part = "costs" =>
       /\ Bills!BoundIsBelow /\ Bills!EstimateIsTheAttempts /\ Bills!UnknownIsUnpublished
       /\ Bills!TotalIsItsTurns
  /\ part = "costs at the limit" =>
       /\ LargeBills!BoundIsBelow /\ LargeBills!EstimateIsTheAttempts
       /\ LargeBills!TotalIsItsTurns

\* What runs and judges a turn is what was proved to: a verification runs by a
\* runbook that passed over the same files, which the hub heard of from the daemon
\* that holds its lease, and in a box with that commit and nothing of another
\* task's, which nobody else destroys and which does not outlive it
\* (runbook-runner.ts, microvm-snapshot.ts, microvm-turn.ts).
RunsAreOverWhatTheyName ==
  /\ part = "runbook" => Book!TypeOK /\ Book!FilesAgree /\ Book!LeaseIsHeld /\ Book!AnswerIsTheHolders
  /\ part \in {"runbook", "runbook shared"} => Book!VerifiedByWhatPassed
  /\ part \in {"boxes", "boxes cold"} => Boxes!TypeOK /\ Boxes!TestedIsTheCommit
  /\ part \in {"boxes", "boxes cold"} => Boxes!RunsKeepTheirBox /\ Boxes!ReadyIsThere
  /\ part = "boxes by hand" => HandBoxes!RunsKeepTheirBox /\ HandBoxes!ReadyIsThere
  /\ part = "boxes apart" => Boxes!RunsKeepTheirBox
  /\ part \in {"boxes", "boxes cold", "boxes apart", "boxes swept"} => Boxes!TreesAreTheirOwn
  /\ part = "boxes by hand" => HandBoxes!TreesAreTheirOwn
  /\ part \in {"boxes", "boxes cold", "boxes by hand", "boxes apart", "boxes swept"} =>
       Boxes!NoBoxIsLeft
==============================================================================
