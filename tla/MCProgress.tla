----------------------------- MODULE MCProgress ------------------------------
(****************************************************************************)
(* Small instances of the modules whose work must get on by itself, under   *)
(* the fairness each of them asks. They are checked in one run: `part' says *)
(* which of them moves, and the others rest.                                *)
(****************************************************************************)
EXTENDS Naturals

CONSTANTS
  Parts  \* those of the parts below that this run explores

VARIABLE part  \* the one that moves

\* The daemon, up again before a lease is over; and the dashboard's decisions.
VARIABLES daemonHub, silence, order, records, daemonUp, daemonPc, entry, next,
          beat, daemonHanded, given, put, daemonCrashes, lost
claimsVars == <<daemonHub, silence, order, records, daemonUp, daemonPc, entry,
                next, beat, daemonHanded, given, put, daemonCrashes, lost>>
Claims == INSTANCE Daemon WITH
  Tickets <- {1, 2}, Unfit <- {2}, TurnCap <- 3, LeaseBeats <- 2,
  MaxRecords <- 2, MaxCrashes <- 1, MaxLost <- 1, MaxOrders <- 0,
  Outages <- FALSE, Refusals <- FALSE, Persons <- FALSE, Orders <- {},
  hub <- daemonHub, up <- daemonUp, pc <- daemonPc, handed <- daemonHanded,
  crashes <- daemonCrashes
Orders == INSTANCE Daemon WITH
  Tickets <- {1, 2}, Unfit <- {}, TurnCap <- 3, LeaseBeats <- 2,
  MaxRecords <- 2, MaxCrashes <- 1, MaxLost <- 1, MaxOrders <- 2,
  Outages <- FALSE, Refusals <- FALSE, Persons <- FALSE,
  Orders <- {"ship", "reply", "abandon"}, hub <- daemonHub, up <- daemonUp,
  pc <- daemonPc, handed <- daemonHanded, crashes <- daemonCrashes

\* The runner of two tasks, no other project at work.
VARIABLES disk, line, written, taskUp, draining, claim, stage, held, taskCut,
          slots, parked, blocked, abandoning, delivering, attaching
workVars == <<disk, line, written, taskUp, draining, claim, stage, held,
              taskCut, slots, parked, blocked, abandoning, delivering,
              attaching>>
Work == INSTANCE TaskRunner WITH
  Tasks <- {"t1", "t2"}, Others <- {}, Cap <- 1, QueueMax <- 2, MaxTurns <- 2,
  QueueFaults <- FALSE, Criteria <- {}, Scratch <- {}, None <- "nobody",
  up <- taskUp, cut <- taskCut

\* The ship and the merge of a task, which a boot may have to resume.
VARIABLES shipStatus, cycle_step, opts, shipPc, copy, checking, shipUp, mr,
          landed, behind, merged, published, turns, shipCrashes
stepsVars == <<shipStatus, cycle_step, opts, shipPc, copy, checking, shipUp,
               mr, landed, behind, merged, published, turns, shipCrashes>>
Steps == INSTANCE Delivery WITH
  MaxCrashes <- 2, PersonShips <- FALSE, ChecksByHand <- FALSE,
  Others <- TRUE, Throws <- FALSE, BaseMoves <- TRUE, MaxTurns <- 2,
  status <- shipStatus, pc <- shipPc, up <- shipUp, crashes <- shipCrashes

\* The processes of an agent run that is cut, stopped or out of time.
VARIABLES path, child, code, box, helper, stubborn, deathless, asked, byName,
          step, runCut, aborted, capped, stopped, outcome, runStatus
runVars == <<path, child, code, box, helper, stubborn, deathless, asked,
             byName, step, runCut, aborted, capped, stopped, outcome,
             runStatus>>
Run == INSTANCE AgentRun WITH
  Paths <- {"host", "cage"}, Helpers <- TRUE, Races <- TRUE, cut <- runCut,
  status <- runStatus

\* The outbox, with answers that cross its replay and lines a crash left half.
VARIABLES outboxHanded, batch, posting, outbox, open, flush, connected,
          received, spoken, crashed, doubtful, faults
outboxVars == <<outboxHanded, batch, posting, outbox, open, flush, connected,
                received, spoken, crashed, doubtful, faults>>
Outbox == INSTANCE HubOutbox WITH
  MaxItems <- 3, BatchMax <- 2, MaxFaults <- 3, Overlap <- TRUE,
  Tears <- TRUE, handed <- outboxHanded

\* The volume of one task, and that of somebody else.
VARIABLES record, dir, houseTree, home, memo, turn, abandon, houseUp, sweep,
          claimed, todo, retention, beyond, at, left, owed, bared
houseVars == <<record, dir, houseTree, home, memo, turn, abandon, houseUp,
               sweep, claimed, todo, retention, beyond, at, left, owed, bared>>
House == INSTANCE Housekeeping WITH
  Tasks <- {"t1"}, Foreign <- {"f"}, Old <- {"t1"}, Keep <- 0, Edits <- TRUE,
  Gestures <- FALSE, Crashes <- TRUE, tree <- houseTree, up <- houseUp

\* The daemon's scans of one project's runbook, which another daemon may take.
VARIABLES runbookTree, history, runbook, validation, runs, runbookHub, due,
          greens, runbookCut, verdict
scanVars == <<runbookTree, history, runbook, validation, runs, runbookHub,
              due, greens, runbookCut, verdict>>
Scan == INSTANCE Runbook WITH
  Runbooks <- {1}, MaxAttempts <- 2, MaxVersions <- 2, Commands <- {},
  Overlaps <- FALSE, Moves <- FALSE, Losses <- TRUE, Sleeps <- TRUE,
  Crashes <- TRUE, tree <- runbookTree, hub <- runbookHub, cut <- runbookCut

ASSUME PartsAreSound ==
  /\ Parts \subseteq {"claims", "orders", "tasks", "steps", "run", "outbox",
                     "house", "scan"}
  /\ Claims!ParametersAreSound /\ Orders!ParametersAreSound
  /\ Steps!ParametersAreSound /\ Run!ParametersAreSound
  /\ Outbox!ParametersAreSound /\ House!ParametersAreSound
  /\ Scan!ParametersAreSound

vars == <<part, claimsVars, workVars, stepsVars, runVars, outboxVars, houseVars,
          scanVars>>

\* The parts that do not move rest where they start, each in one of its initial
\* states.
Init ==
  /\ part \in Parts
  /\ Claims!Init /\ Work!Init /\ Steps!Init /\ Run!Init /\ Outbox!Init
  /\ House!Init /\ Scan!Init
  /\ part = "steps" \/ opts = [auto_ship |-> FALSE, auto_merge |-> FALSE]
  /\ part = "run" \/ (path = "host" /\ stubborn = {} /\ deathless = {})
  /\ part = "house" \/ (record = [t \in House!Ids |-> "unborn"])

Next ==
  /\ UNCHANGED part
  /\ \/ /\ part = "claims" /\ Claims!Next
        /\ UNCHANGED <<workVars, stepsVars, runVars, outboxVars, houseVars,
                        scanVars>>
     \/ /\ part = "orders" /\ Orders!Next
        /\ UNCHANGED <<workVars, stepsVars, runVars, outboxVars, houseVars,
                        scanVars>>
     \/ /\ part = "tasks" /\ Work!Next
        /\ UNCHANGED <<claimsVars, stepsVars, runVars, outboxVars, houseVars,
                        scanVars>>
     \/ /\ part = "steps" /\ Steps!Next
        /\ UNCHANGED <<claimsVars, workVars, runVars, outboxVars, houseVars,
                        scanVars>>
     \/ /\ part = "run" /\ Run!Next
        /\ UNCHANGED <<claimsVars, workVars, stepsVars, outboxVars, houseVars,
                        scanVars>>
     \/ /\ part = "outbox" /\ Outbox!Next
        /\ UNCHANGED <<claimsVars, workVars, stepsVars, runVars, houseVars,
                        scanVars>>
     \/ /\ part = "house" /\ House!Next
        /\ UNCHANGED <<claimsVars, workVars, stepsVars, runVars, outboxVars,
                        scanVars>>
     \/ /\ part = "scan" /\ Scan!Next
        /\ UNCHANGED <<claimsVars, workVars, stepsVars, runVars, outboxVars,
                        houseVars>>

Spec == Init /\ [][Next]_vars

\* Each part is treated as fairly as its own specification asks: the sleeps of
\* the daemon's loops end, the hub answers what is not lost, leases run out and a
\* service manager starts the daemon again; turns, pushes and calls have time
\* limits; timers fire and signals are delivered; the workspace is started again,
\* and an inventory is readable, and a removal succeeds, as often as it is tried.
ClaimsFairness ==
  /\ WF_claimsVars(part = "claims" /\ Claims!Looks)
  /\ WF_claimsVars(part = "claims" /\ Claims!Listed)
  /\ WF_claimsVars(part = "claims" /\ Claims!Leased)
  /\ WF_claimsVars(part = "claims" /\ Claims!createHubTicketTask)
  /\ WF_claimsVars(part = "claims" /\ Claims!Beats)
  /\ WF_claimsVars(part = "claims" /\ Claims!BeatAnswered)
  /\ WF_claimsVars(part = "claims" /\ Claims!Boots)
  /\ WF_claimsVars(part = "claims" /\ \E k \in DOMAIN records : Claims!Settles(k))
  /\ \A t \in {1, 2} : WF_claimsVars(part = "claims" /\ Claims!Lapses(t))

OrdersFairness ==
  /\ WF_claimsVars(part = "orders" /\ Orders!Looks)
  /\ WF_claimsVars(part = "orders" /\ Orders!Listed)
  /\ WF_claimsVars(part = "orders" /\ Orders!Leased)
  /\ WF_claimsVars(part = "orders" /\ Orders!createHubTicketTask)
  /\ WF_claimsVars(part = "orders" /\ Orders!Beats)
  /\ WF_claimsVars(part = "orders" /\ Orders!BeatAnswered)
  /\ WF_claimsVars(part = "orders" /\ Orders!Boots)
  /\ WF_claimsVars(part = "orders" /\ \E k \in DOMAIN records : Orders!Settles(k))

WorkFairness ==
  \A t \in {"t1", "t2"} : /\ WF_workVars(part = "tasks" /\ Work!Chain(t))
                          /\ WF_workVars(part = "tasks" /\ Work!Removal(t))

StepsFairness ==
  /\ \A w \in Steps!Callers : /\ WF_stepsVars(part = "steps" /\ Steps!Ship(w))
                              /\ WF_stepsVars(part = "steps" /\ Steps!Merge(w))
  /\ WF_stepsVars(part = "steps" /\ Steps!Boot)

RunFairness ==
  /\ WF_runVars(part = "run" /\ Run!BoxGraceEnds)
  /\ WF_runVars(part = "run" /\ Run!TermGraceEnds)
  /\ WF_runVars(part = "run" /\ Run!SettleGraceEnds)
  /\ WF_runVars(part = "run" /\ Run!Closes)
  /\ WF_runVars(part = "run" /\ Run!KillLands)
  /\ WF_runVars(part = "run" /\ Run!Dies)

OutboxFairness ==
  /\ WF_outboxVars(part = "outbox" /\ Outbox!BatchTimer)
  /\ WF_outboxVars(part = "outbox" /\ Outbox!Answer)
  /\ WF_outboxVars(part = "outbox" /\ Outbox!FlushStart)
  /\ WF_outboxVars(part = "outbox" /\ Outbox!FlushPost)
  /\ WF_outboxVars(part = "outbox" /\ Outbox!FlushEnd)

HouseFairness ==
  /\ WF_houseVars(part = "house" /\ House!Boot)
  /\ WF_houseVars(part = "house" /\ House!SweepEnds)
  /\ SF_houseVars(part = "house" /\ House!SweepLists)
  /\ SF_houseVars(part = "house" /\ sweep = "done" /\ House!Shutdown)
  /\ \A t \in House!Ids :
       /\ WF_houseVars(part = "house" /\ House!Inspect(t))
       /\ WF_houseVars(part = "house" /\ House!CreateHome(t))
       /\ WF_houseVars(part = "house" /\ House!Seed(t))
       /\ WF_houseVars(part = "house" /\ House!TurnEnds(t))
       /\ WF_houseVars(part = "house" /\ House!SweepJudges(t))
       /\ SF_houseVars(part = "house" /\ House!SweepJudges(t) /\ home'[t] # home[t])

ScanFairness ==
  /\ WF_scanVars(part = "scan" /\ Scan!Beat)
  /\ WF_scanVars(part = "scan" /\ (Scan!Renews \/ Scan!RenewalIsLost))
  /\ WF_scanVars(part = "scan" /\ Scan!Tries)
  /\ WF_scanVars(part = "scan" /\ Scan!Concludes)

FairSpec ==
  Spec /\ ClaimsFairness /\ OrdersFairness /\ WorkFairness
       /\ StepsFairness /\ RunFairness /\ OutboxFairness /\ HouseFairness /\ ScanFairness
------------------------------------------------------------------------------
(* Properties *)

\* As long as the machine does not stay down for a lease, and fewer calls are lost
\* than a lease outlives, the ticket of a task that is still going on is never
\* given away; and what a human decides on the dashboard is put to the manager once
\* at most, and lost only with the answer that brings it, or with the process
\* (runner-daemon.ts, heartbeatTick; task-hub.ts, heartbeatHubTicket).
NothingIsDropped ==
  /\ part = "claims" => Claims!KeptAlive
  /\ part = "orders" => Orders!OrdersAddUp

\* With nothing going on here a published ticket is claimed, one leased for a
\* task that was never made goes back on the market, an interrupted task is
\* resumed, and the decisions get there.
DaemonGoesOn ==
  /\ part = "claims" => /\ Claims!TicketsAreClaimed /\ Claims!NoLeaseWithoutTask
                        /\ Claims!InterruptedGoesOn
  /\ part = "orders" => Orders!OrderArrives

\* A task in line is tried, or leaves it, as long as the process lives: nothing
\* holds the project for ever (task-runner.ts, pump).
LineMovesOn == part = "tasks" => Work!QueuedIsTried

\* A step named in task.json is run or resumed, and the record stops saying so
\* (D20); a run that is being killed settles, whatever its processes do; and the
\* scan of a runbook that somebody claimed is answered or goes back.
WhatBeganEnds ==
  /\ part = "steps" => Steps!StepsAreResumed
  /\ part = "run" => Run!KilledSettles
  /\ part = "scan" => Scan!ScanComesBack

\* With credentials to send it the outbox is emptied in the end; the volume of a
\* task that is gone goes with one of the next boots.
NothingLingers ==
  /\ part = "outbox" => Outbox!Drains
  /\ part = "house" => House!OrphanHomesGo
==============================================================================
