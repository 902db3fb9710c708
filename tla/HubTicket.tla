----------------------------- MODULE HubTicket -----------------------------
(***************************************************************************)
(* What the hub believes of a ticket while a task works on it: the task's   *)
(* turns, ship and merge report facts (reportHubTransition), the hub's      *)
(* answers are remembered in task.json (rememberHubTicketStatus), and what  *)
(* was not answered is replayed from the outbox.                            *)
(*                                                                          *)
(* The chain of a turn works on a copy of the record (`held'): the answers  *)
(* go to the file.  The hub is external: it applies a key once and refuses  *)
(* what is not in the shared table.                                         *)
(***************************************************************************)
EXTENDS Naturals, Sequences, SequencesExt, TicketState

CONSTANTS MaxTurns,   \* turns of the task
          MaxFaults   \* posts left without an answer

ParametersAreSound ==
  /\ MaxTurns \in Nat \ {0} /\ MaxFaults \in Nat

VARIABLES
  at,       \* what the task is at
  turns,    \* record.turns.length
  known,    \* hub_ticket_status in task.json
  held,     \* hub_ticket_status in the copy the chain works on
  passed,   \* the last review settled on an approval
  mr,       \* the forge has a merge request for the branch
  issued,   \* the reports made so far, in order
  posting,  \* the places in `issued' of those on their way
  outbox,   \* the places of those waiting in the outbox
  hub,      \* the ticket's status at the hub
  applied,  \* the keys the hub has applied
  history,  \* the statuses the hub has answered with
  refusals, \* reports refused before posting: the claim and the hub's last word
  late,     \* the last ship, or its merge, landed with earlier reports unanswered
  faults

vars == <<at, turns, known, held, passed, mr, issued, posting, outbox, hub, applied, history,
          refusals, late, faults>>

Statuses == ARM_TICKET_STATUSES \union {"unknown"}
\* "landed" is a merge whose sha the forge did not give back.
Stages == {"turn", "reviewed", "failed", "shipping", "shipped", "merging", "waiting",
           "merged", "landed"}

\* idempotency_key: <task>:<type>:<turn count>.
Key(type) == <<type, turns>>

\* The last status the hub itself answered with.
LastAnswer == history[Len(history)]

Answered == posting = {} /\ outbox = <<>>

-----------------------------------------------------------------------------
(* Reporting *)

\* reportHubTransition, with the record the caller holds.
Report(type, approves, proof, fact, record) ==
  LET claimed == targetTicketStatus(type, approves)
      report == [key |-> Key(type), to |-> claimed, fact |-> fact] IN
  IF ~ sanitizeArmTransition(type, proof)
    THEN UNCHANGED <<issued, posting, refusals>>
  ELSE IF claimed # "none" /\ record # "unknown" /\ ~ isLegalTicketTransition(record, claimed)
    THEN /\ refusals' = refusals \union {[from |-> LastAnswer, to |-> claimed]}
         /\ UNCHANGED <<issued, posting>>
  ELSE /\ issued' = Append(issued, report)
       /\ posting' = posting \union {Len(issued) + 1}
       /\ UNCHANGED refusals

NoReport == UNCHANGED <<issued, posting, refusals>>

\* A plausible bug: the ship saves the status it is about to report.
SaveClaim == known' = IF at = "shipping" THEN "mr_opened" ELSE held

\* saveTask of the copy the chain holds.
SaveHeld == known' = held

HubStands == UNCHANGED <<outbox, hub, applied, history, faults>>

-----------------------------------------------------------------------------
(* The task *)

\* The turn fails in the runner: reported, then persisted.
TurnFails ==
  /\ at = "turn"
  /\ at' = "failed"
  /\ Report("failed", FALSE, FALSE, "turn", held)
  /\ SaveHeld
  /\ UNCHANGED <<turns, held, passed, mr, late>> /\ HubStands

\* settle: persisted, then reported. Without a reviewer's outcome a KO is a
\* failure of the review, not a verdict (hubSettleTransition).
Settle ==
  /\ at = "turn"
  /\ at' = "reviewed"
  /\ \/ passed' = TRUE /\ Report("review_result", TRUE, FALSE, "approve", held)
     \/ passed' = FALSE /\ Report("review_result", FALSE, FALSE, "changes", held)
     \/ passed' = FALSE /\ Report("failed", FALSE, FALSE, "review", held)
  /\ SaveHeld
  /\ UNCHANGED <<turns, held, mr, late>> /\ HubStands

\* settleInterrupted: a shutdown cut the review.
SettleInterrupted ==
  /\ at = "turn"
  /\ at' = "waiting"
  /\ Report("failed", FALSE, FALSE, "cut", held)
  /\ SaveHeld
  /\ UNCHANGED <<turns, held, passed, mr, late>> /\ HubStands

\* ship(): the record is read, then crosses the push.
ShipStart ==
  /\ at = "reviewed"
  /\ at' = "shipping"
  /\ held' = known
  /\ NoReport
  /\ UNCHANGED <<turns, known, passed, mr, late>> /\ HubStands

\* The push went through; the forge may have opened no merge request.
ShipLands ==
  /\ at = "shipping"
  /\ at' = "shipped" /\ late' = ~ Answered
  /\ mr' \in {mr, TRUE}
  /\ SaveHeld
  /\ IF mr' THEN Report("mr_opened", FALSE, mr', "opened", held)
            ELSE Report("failed", FALSE, FALSE, "no url", held)
  /\ UNCHANGED <<turns, held, passed>> /\ HubStands

ShipFails ==
  /\ at = "shipping"
  /\ at' = "reviewed"
  /\ SaveHeld \/ UNCHANGED known
  /\ NoReport
  /\ UNCHANGED <<turns, held, passed, mr, late>> /\ HubStands

\* runMergeStep, behind the ship or at the next boot.
MergeStart ==
  /\ at = "shipped"
  /\ at' = "merging"
  /\ held' = known
  /\ NoReport
  /\ UNCHANGED <<turns, known, passed, mr, late>> /\ HubStands

\* The merge landed: reported with its sha, and the step's marker cleared.
MergeLands ==
  /\ at = "merging" /\ mr /\ passed /\ late' = (late \/ ~ Answered)
  /\ \/ at' = "merged" /\ Report("merged", FALSE, TRUE, "merged", held)
     \/ at' = "landed" /\ NoReport
  /\ SaveHeld
  /\ UNCHANGED <<turns, held, passed, mr>> /\ HubStands

\* A condition is missing, or the merge failed: the task waits for a human.
MergeFails ==
  /\ at = "merging"
  /\ at' = "waiting"
  /\ NoReport \/ (passed /\ Report("failed", FALSE, FALSE, "merge", held))
  /\ SaveHeld
  /\ UNCHANGED <<turns, held, passed, mr, late>> /\ HubStands

\* A human replies: the chain of the next turn reads the record.
Reply ==
  /\ at \in {"reviewed", "waiting"}
  /\ turns < MaxTurns
  /\ turns' = turns + 1
  /\ at' = "turn"
  /\ held' = known
  /\ NoReport
  /\ UNCHANGED <<known, passed, mr, late>> /\ HubStands

\* A human gives the task up: the record is read, reported and saved.
Abandon ==
  /\ at \in {"reviewed", "waiting"}
  /\ at' = "failed"
  /\ held' = known
  /\ Report("failed", FALSE, FALSE, "abandoned", known)
  /\ UNCHANGED <<turns, known, passed, mr, late>> /\ HubStands

-----------------------------------------------------------------------------
(* The hub (external) *)

Applies(report) ==
  /\ report.key \notin applied
  /\ report.to # "none" => isLegalTicketTransition(hub, report.to)

\* The hub's share of a post that it applies.
HubApplies(report) ==
  /\ Applies(report)
  /\ hub' = IF report.to = "none" THEN hub ELSE report.to
  /\ applied' = applied \union {report.key}

Answers == history' = Append(history, hub')

-----------------------------------------------------------------------------
(* The answers *)

NotPosted(n) == posting' = posting \ {n}

\* rememberHubTicketStatus: the file is read, changed and saved in one go.
Remember == known' = hub'

Accepted ==
  \E n \in posting :
    /\ HubApplies(issued[n]) /\ Answers
    /\ Remember
    /\ NotPosted(n)
    /\ UNCHANGED <<at, turns, held, passed, mr, issued, outbox, refusals, late, faults>>

\* A key already applied, or a move out of the table: a 4xx, abandoned.
Rejected ==
  \E n \in posting :
    /\ ~ Applies(issued[n])
    /\ NotPosted(n)
    /\ UNCHANGED <<at, turns, known, held, passed, mr, issued, outbox, hub, applied, history,
                   refusals, late, faults>>

\* No answer: the hub may have applied it; the report goes to the outbox.
Unanswered ==
  \E n \in posting :
    /\ faults < MaxFaults /\ faults' = faults + 1
    /\ HubApplies(issued[n]) \/ UNCHANGED <<hub, applied>>
    /\ NotPosted(n)
    /\ outbox' = Append(outbox, n)
    /\ UNCHANGED <<at, turns, known, held, passed, mr, issued, history, refusals, late>>

\* flushHubOutbox: the first entry is sent again. The answer's body is not read.
Replay ==
  /\ outbox # <<>>
  /\ \/ HubApplies(issued[Head(outbox)]) /\ Answers
     \/ ~ Applies(issued[Head(outbox)]) /\ UNCHANGED <<hub, applied, history>>
  /\ outbox' = Tail(outbox)
  /\ UNCHANGED <<at, turns, known, held, passed, mr, issued, posting, refusals, late, faults>>

\* The ticket was claimed: the hub has it in progress and has said so, but the
\* record of the task is created without a status.
Init ==
  /\ at = "turn" /\ turns = 1
  /\ known = "unknown" /\ held = "unknown" /\ passed = FALSE /\ mr = FALSE
  /\ issued = <<>> /\ posting = {} /\ outbox = <<>>
  /\ hub = "in_progress" /\ applied = {} /\ history = <<"in_progress">>
  /\ refusals = {} /\ late = FALSE /\ faults = 0

Next ==
  \/ TurnFails \/ Settle \/ SettleInterrupted \/ ShipStart \/ ShipLands \/ ShipFails
  \/ MergeStart \/ MergeLands \/ MergeFails \/ Reply \/ Abandon
  \/ Accepted \/ Rejected \/ Unanswered \/ Replay

Spec == Init /\ [][Next]_vars

-----------------------------------------------------------------------------
(* Properties *)

\* The types of the variables; a report is in one place at a time.
TypeOK ==
  /\ at \in Stages /\ turns \in 1 .. MaxTurns
  /\ {known, held} \subseteq Statuses /\ {passed, mr} \subseteq BOOLEAN
  /\ posting \subseteq DOMAIN issued /\ ToSet(outbox) \subseteq DOMAIN issued
  /\ posting \intersect ToSet(outbox) = {} /\ IsInjective(outbox)
  /\ hub \in ARM_TICKET_STATUSES \ TICKET_TERMINAL_STATUSES
  /\ history \in Seq(ARM_TICKET_STATUSES)
  /\ faults \in 0 .. MaxFaults

\* docs/recovery.md rule 4 and task-server.ts 2204-2208: the hub never shows a
\* merge request nobody opened nor a merge nobody made, whatever answers are
\* late, lost or replayed behind later facts.
StateHasItsProof ==
  /\ hub \in {"mr_opened", "ready_to_merge"} => mr
  /\ hub = "done" => at = "merged"

\* What task.json says of the ticket is a status the hub itself has answered
\* with, however stale the copy that was saved.
KnownWasAnswered == known = "unknown" \/ known \in ToSet(history)

\* A merge that landed ends with the ticket done once the reports are answered.
\* Where it does not, the ship or the merge landed with earlier reports
\* unanswered, or the report of the merge was refused over an older word.
MergeReachesTheHub ==
  at = "merged" /\ Answered /\ hub # "done" =>
    late \/ \E refusal \in refusals : refusal.to = "done"

\* task-hub.ts 239-246: a report is refused before it is posted only for not
\* being a legal move from the last status the hub itself answered with.
RefusedFromTheLastAnswer ==
  \A refusal \in refusals : ~ isLegalTicketTransition(refusal.from, refusal.to)

\* task-hub.ts 226-233: two different facts of one type carry different keys.
KeysTellFactsApart ==
  \A i, j \in DOMAIN issued : issued[i].key = issued[j].key => issued[i].fact = issued[j].fact

\* task-hub.ts 243-244: the status is remembered on every successful round
\* trip.
EveryRoundTripIsRemembered ==
  [][history' # history => known' = hub']_vars

\* task-server.ts 2067-2071: while the push is in flight nothing but the ship
\* writes the record.
ShipIsAlone ==
  [][at = "shipping" /\ at' = "shipping" => known' = known]_vars
=============================================================================
