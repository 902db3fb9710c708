-------------------------------- MODULE MCHub --------------------------------
(****************************************************************************)
(* Small instances of the modules about what leaves this machine: the gates *)
(* before a merge, the ship and the merge under a hook that throws, the     *)
(* ticket the hub shows, the outbox of its reports, and the issue on the    *)
(* forge. They are checked in one run: `part' says which of them moves, and *)
(* the others rest.                                                         *)
(****************************************************************************)
EXTENDS Naturals, MergeGate

CONSTANTS
  Parts,  \* those of the parts below that this run explores
  MaxTurns, MaxFaults,                          \* of the ticket
  MaxItems, BatchMax, MaxLost, Overlap, Tears   \* of the outbox

\* The gates from the review to the merge are this module's own.

VARIABLE part  \* the one that moves

\* Ship and merge of one task under a hook that may throw.
VARIABLES shipStatus, cycle_step, opts, pc, copy, checking, up, shipMr,
          landed, behind, shipMerged, published, shipTurns, shipCrashes
thrownStepsVars == <<shipStatus, cycle_step, opts, pc, copy, checking, up,
                     shipMr, landed, behind, shipMerged, published, shipTurns,
                     shipCrashes>>
ThrownSteps == INSTANCE Delivery WITH
  MaxCrashes <- 2, PersonShips <- TRUE, ChecksByHand <- TRUE, Others <- TRUE,
  Throws <- TRUE, BaseMoves <- TRUE, MaxTurns <- 2, status <- shipStatus,
  mr <- shipMr, merged <- shipMerged, turns <- shipTurns,
  crashes <- shipCrashes

\* One ticket and the reports of its task.
VARIABLES ticketAt, ticketTurns, known, held, passed, ticketMr, issued,
          ticketPosting, ticketOutbox, hub, applied, history, refusals,
          late, ticketFaults
ticketVars == <<ticketAt, ticketTurns, known, held, passed, ticketMr, issued,
                ticketPosting, ticketOutbox, hub, applied, history, refusals,
                late, ticketFaults>>
Ticket == INSTANCE HubTicket WITH
  at <- ticketAt, turns <- ticketTurns, mr <- ticketMr,
  posting <- ticketPosting, outbox <- ticketOutbox, faults <- ticketFaults

\* The outbox that the reports pass through.
VARIABLES handed, batch, outboxPosting, outboxOutbox, outboxOpen, flush,
          connected, received, spoken, crashed, doubtful, outboxFaults
outboxVars == <<handed, batch, outboxPosting, outboxOutbox, outboxOpen, flush,
                connected, received, spoken, crashed, doubtful, outboxFaults>>
Outbox == INSTANCE HubOutbox WITH
  MaxFaults <- MaxLost, posting <- outboxPosting, outbox <- outboxOutbox,
  open <- outboxOpen, faults <- outboxFaults

\* The forge issue of a task, the same over restarts and writes whose answers
\* are lost, and one whose opt-in comes and goes.
VARIABLES issueStatus, issueMerged, memo, chain, pose, pub, enabled, labels,
          recaps, issueOpen, theirs, moves, issueFaults, issueCrashes
issueVars == <<issueStatus, issueMerged, memo, chain, pose, pub, enabled,
               labels, recaps, issueOpen, theirs, moves, issueFaults,
               issueCrashes>>
Issue == INSTANCE ForgeIssue WITH
  Tasks <- {1}, Unnamed <- TRUE, Hands <- TRUE, Window <- FALSE,
  Landed <- FALSE, Toggles <- FALSE, Withheld <- TRUE, Stops <- FALSE,
  MaxMoves <- 8, MaxWaiting <- 3, MaxFaults <- 2, MaxCrashes <- 0,
  status <- issueStatus, merged <- issueMerged, open <- issueOpen,
  faults <- issueFaults, crashes <- issueCrashes
RestartedIssue == INSTANCE ForgeIssue WITH
  Tasks <- {1}, Unnamed <- TRUE, Hands <- TRUE, Window <- FALSE,
  Landed <- TRUE, Toggles <- FALSE, Withheld <- TRUE, Stops <- TRUE,
  MaxMoves <- 8, MaxWaiting <- 3, MaxFaults <- 1, MaxCrashes <- 1,
  status <- issueStatus, merged <- issueMerged, open <- issueOpen,
  faults <- issueFaults, crashes <- issueCrashes
OptedIssue == INSTANCE ForgeIssue WITH
  Tasks <- {1}, Unnamed <- TRUE, Hands <- TRUE, Window <- FALSE,
  Landed <- FALSE, Toggles <- TRUE, Withheld <- TRUE, Stops <- FALSE,
  MaxMoves <- 6, MaxWaiting <- 3, MaxFaults <- 1, MaxCrashes <- 1,
  status <- issueStatus, merged <- issueMerged, open <- issueOpen,
  faults <- issueFaults, crashes <- issueCrashes

\* The merge requests of one branch, and the same where the remote names no
\* forge and answers are lost.
VARIABLES task, requestStatus, requestStep, by, requestAt, tool, failed, tip,
          pushed, base, requests, shipped, url, link, short, requestMerged,
          told, box, older, requestFaults, requestCrashes
requestsVars == <<task, requestStatus, requestStep, by, requestAt, tool,
                  failed, tip, pushed, base, requests, shipped, url, link,
                  short, requestMerged, told, box, older, requestFaults,
                  requestCrashes>>
Requests == INSTANCE MergeRequests WITH
  Tasks <- {1, 2}, Home <- "gh", Unnamed <- FALSE,
  Installed <- {"gh", "glab"}, Auto <- TRUE, Hands <- {"merges", "closes"},
  Caged <- TRUE, Landed <- FALSE, MaxCommits <- 3, MaxFaults <- 2,
  MaxCrashes <- 1, status <- requestStatus, step <- requestStep,
  at <- requestAt, merged <- requestMerged, faults <- requestFaults,
  crashes <- requestCrashes
LostRequests == INSTANCE MergeRequests WITH
  Tasks <- {1, 2}, Home <- "glab", Unnamed <- TRUE,
  Installed <- {"gh", "glab"}, Auto <- TRUE, Hands <- {}, Caged <- TRUE,
  Landed <- TRUE, MaxCommits <- 3, MaxFaults <- 3, MaxCrashes <- 1,
  status <- requestStatus, step <- requestStep, at <- requestAt,
  merged <- requestMerged, faults <- requestFaults, crashes <- requestCrashes

ASSUME PartsAreSound ==
  /\ Parts \subseteq {"gate", "delivery thrown", "ticket", "outbox", "issue", "issue restarted", "issue opted",
                     "requests", "requests lost"}
  /\ ParametersAreSound /\ ThrownSteps!ParametersAreSound
  /\ Ticket!ParametersAreSound /\ Outbox!ParametersAreSound /\ Issue!ParametersAreSound
  /\ RestartedIssue!ParametersAreSound /\ OptedIssue!ParametersAreSound
  /\ Requests!ParametersAreSound /\ LostRequests!ParametersAreSound

hubVars == <<part, vars, thrownStepsVars, ticketVars, outboxVars, issueVars, requestsVars>>

\* The parts that do not move rest where they start, each in one of its initial
\* states.
HubInit ==
  /\ part \in Parts
  /\ Init /\ ThrownSteps!Init /\ Ticket!Init /\ Outbox!Init /\ Issue!Init
  /\ Requests!Init
  /\ part = "gate" \/ criteria = {}
  /\ \/ part = "delivery thrown"
     \/ opts = [auto_ship |-> FALSE, auto_merge |-> FALSE]
  /\ part \in {"issue", "issue restarted", "issue opted"} \/ enabled

HubNext ==
  /\ UNCHANGED part
  /\ \/ /\ part = "gate" /\ Next
        /\ UNCHANGED <<thrownStepsVars, ticketVars, outboxVars, issueVars,
                        requestsVars>>
     \/ /\ part = "delivery thrown" /\ ThrownSteps!Next
        /\ UNCHANGED <<vars, ticketVars, outboxVars, issueVars, requestsVars>>
     \/ /\ part = "ticket" /\ Ticket!Next
        /\ UNCHANGED <<vars, thrownStepsVars, outboxVars, issueVars,
                        requestsVars>>
     \/ /\ part = "outbox" /\ Outbox!Next
        /\ UNCHANGED <<vars, thrownStepsVars, ticketVars, issueVars,
                        requestsVars>>
     \/ /\ part = "issue" /\ Issue!Next
        /\ UNCHANGED <<vars, thrownStepsVars, ticketVars, outboxVars,
                        requestsVars>>
     \/ /\ part = "issue restarted" /\ RestartedIssue!Next
        /\ UNCHANGED <<vars, thrownStepsVars, ticketVars, outboxVars,
                        requestsVars>>
     \/ /\ part = "issue opted" /\ OptedIssue!Next
        /\ UNCHANGED <<vars, thrownStepsVars, ticketVars, outboxVars,
                        requestsVars>>
     \/ /\ part = "requests" /\ Requests!Next
        /\ UNCHANGED <<vars, thrownStepsVars, ticketVars, outboxVars,
                        issueVars>>
     \/ /\ part = "requests lost" /\ LostRequests!Next
        /\ UNCHANGED <<vars, thrownStepsVars, ticketVars, outboxVars,
                        issueVars>>

HubSpec == HubInit /\ [][HubNext]_hubVars
------------------------------------------------------------------------------
(* Properties *)

\* The hub never shows a merge request nobody opened nor a merge nobody made,
\* whatever answers are late, lost or replayed; task.json holds what the hub
\* itself answered; a merge gets there unless the ship or the merge landed over
\* unanswered reports, or its report was refused over an older word.
\* The forge's issue carries one label of the workspace's, that of the last
\* transition, and nothing walks it back from `merged'; labels of persons are kept,
\* and it is closed over its recap only (task-hub.ts, task-labels.ts,
\* task-recap-publish.ts). A ship that the hub hears of as `mr_opened', or that
\* the record calls complete, has its merge request; one that it hears of as
\* failed has none; and the first merge of a branch is of all that was shipped
\* (task-ship.ts, task-merge.ts). A merge in the journal is not asked of the forge
\* again, even after a hook that throws and puts the task back where it was.
OthersSeeWhatIs ==
  /\ [](part = "ticket" => Ticket!TypeOK /\ Ticket!StateHasItsProof /\ Ticket!KnownWasAnswered)
  /\ [](part = "ticket" => Ticket!MergeReachesTheHub)
  /\ [](part \in {"issue", "issue restarted"} => Issue!TypeOK /\ Issue!LastTransitionShows)
  /\ [](part \in {"issue", "issue restarted"} => Issue!ForeignKept /\ Issue!ClosedHasItsRecap)
  /\ [](part = "issue opted" => OptedIssue!ForeignKept /\ OptedIssue!ClosedHasItsRecap)
  /\ [](part = "issue" /\ issueFaults = 0 => Issue!MergedIsShown)
  /\ [][part = "issue" => Issue!MergedStays]_hubVars
  /\ [](part \in {"requests", "requests lost"} =>
         Requests!OpenedHasProof /\ Requests!CleanHasARequest /\ Requests!MergedForTheFirstTime)
  /\ [](part \in {"requests", "requests lost"} => Requests!LinkIsMerged /\ Requests!NoBoxIsLeft)
  /\ [](part = "requests" => Requests!TypeOK /\ Requests!FailedHasNone)
  /\ [](part = "delivery thrown" => ThrownSteps!DeliveryIsSound)

\* Every item handed over has reached the hub, is kept, or was logged as lost;
\* and the hub is told a thing twice only because an answer did not come back
\* (task-hub.ts, postOrQueue and flushOutbox).
ReportsAreKept ==
  part = "outbox" => Outbox!TypeOK /\ Outbox!NothingVanishes /\ Outbox!RepeatsHaveACause
==============================================================================
