------------------------------ MODULE FixLoop ------------------------------
(***************************************************************************)
(* The automatic fix loop: after a review that blocked, the machine queues  *)
(* another turn by itself, a bounded number of times in a row.  The bound   *)
(* is kept in no counter: the rounds are counted over the journal, which    *)
(* crashes cut short, which may have damaged lines and may not open.        *)
(***************************************************************************)
EXTENDS Naturals, Sequences, SequencesExt, FiniteSets

CONSTANTS MaxRounds,     \* resolveMaxAutoFixRounds
          TurnCap,       \* resolveMaxTaskTurns
          MaxFaults,     \* crashes, Stops, damaged lines and reads refused
          Daemon,        \* the runner daemon resumes what is interrupted
          RefusedWrites  \* the queue may refuse to take a round

ParametersAreSound ==
  /\ MaxRounds \in Nat \ {0} /\ TurnCap \in Nat \ {0} /\ MaxFaults \in Nat
  /\ Daemon \in BOOLEAN /\ RefusedWrites \in BOOLEAN

VARIABLES
  status,   \* record.status; "stranded" is 'queued' in the record and not in the line
  by,       \* who asked for the turn under way: a person, the loop or the daemon
  open,     \* the last turn has no response: resume() may run it again
  turns,    \* record.turns.length
  loop,     \* what the end-of-turn hook still has to do
  written,  \* the lines of the journal the count reads, as they were written
  spoilt,   \* the places of those that do not parse any more
  closed,   \* the journal cannot be read at all
  auto,     \* the turns started since a person last asked for one
  faults

vars == <<status, by, open, turns, loop, written, spoilt, closed, auto, faults>>

Replyable == {"waiting_for_you", "interrupted", "review_ok", "review_ko"}
Statuses == Replyable \union {"queued", "stranded", "running"}

-----------------------------------------------------------------------------
(* Counting *)

\* The lines that are left of the journal.
Readable == [i \in 1 .. Len(written) |-> IF i \in spoilt THEN "dropped" ELSE written[i]]

Reads(count, line) ==
  CASE line = "marker"  -> [count EXCEPT !.announced = TRUE]
    [] line = "retract" -> [count EXCEPT !.announced = FALSE]
    [] line = "turn"    -> [streak |-> IF count.announced THEN count.streak + 1 ELSE 0,
                            announced |-> FALSE]
    [] OTHER -> count

autoFixRoundsUsed(lines) ==
  FoldLeft(Reads, [streak |-> 0, announced |-> FALSE], lines).streak

JUDGMENT_ONLY_MAX_ROUNDS == 2

effectiveMax(verdict) ==
  IF verdict = "judgment" /\ JUDGMENT_ONLY_MAX_ROUNDS < MaxRounds
    THEN JUDGMENT_ONLY_MAX_ROUNDS ELSE MaxRounds

\* How a review may settle, by what blocks: "judgment" is an unmet criterion
\* that only waits for somebody's judgment.
LOOP_BLOCKERS == {"review_blocked", "criteria_unmet", "judgment"}
Verdicts == LOOP_BLOCKERS \union {"checks_failed", "ok"}

decideFixLoop(verdict, fixable) ==
  IF verdict \notin LOOP_BLOCKERS THEN "none"
  ELSE IF closed \/ ~fixable THEN "stand"
  ELSE IF autoFixRoundsUsed(Readable) < effectiveMax(verdict) THEN "retry"
  ELSE IF verdict = "judgment" THEN "ship" ELSE "exit"

\* The status the review settles on once the decision is folded into it.
applyFixLoopDecision(verdict, decision) ==
  CASE decision = "exit" -> "waiting_for_you"
    [] decision = "ship" \/ verdict = "ok" -> "review_ok"
    [] OTHER -> "review_ko"

-----------------------------------------------------------------------------
(* The task *)

\* A task is created with its first turn in the line.
Init ==
  /\ status = "queued" /\ by = "person" /\ open = TRUE /\ turns = 1 /\ loop = "none"
  /\ written = <<>> /\ spoilt = {} /\ closed = FALSE /\ auto = 0 /\ faults = 0

\* The turn begins: runTaskTurn says so in the journal.
TurnStarts ==
  /\ status = "queued"
  /\ status' = "running"
  /\ written' = Append(written, "turn")
  /\ auto' = IF by = "person" THEN 0 ELSE auto + 1
  /\ UNCHANGED <<by, open, turns, loop, spoilt, closed, faults>>

\* The turn ends on a question: no review follows.
Asks ==
  /\ status = "running"
  /\ status' = "waiting_for_you" /\ open' = FALSE
  /\ UNCHANGED <<by, turns, loop, written, spoilt, closed, auto, faults>>

\* The turn ends and its review settles: the decision is part of that write.
Settles(verdict, fixable) ==
  /\ status = "running"
  /\ LET decision == decideFixLoop(verdict, fixable)
     IN  /\ status' = applyFixLoopDecision(verdict, decision)
         /\ loop' = IF decision = "retry" THEN "announce" ELSE "none"
  /\ open' = FALSE
  /\ UNCHANGED <<by, turns, written, spoilt, closed, auto, faults>>

\* The round is announced before it is queued.
Announces ==
  /\ loop = "announce"
  /\ loop' = "queue"
  /\ written' = Append(written, "marker")
  /\ UNCHANGED <<status, by, open, turns, spoilt, closed, auto, faults>>

\* A plausible bug: the round is queued before it is announced.
QueuesUnannounced ==
  /\ loop \in {"announce", "queue"} /\ turns < TurnCap
  /\ loop' = "none" /\ status' = "queued" /\ by' = "loop" /\ open' = TRUE /\ turns' = turns + 1
  /\ UNCHANGED <<written, spoilt, closed, auto, faults>>

\* The runner takes the reply.
Queues ==
  /\ loop = "queue" /\ turns < TurnCap
  /\ loop' = "none" /\ status' = "queued" /\ by' = "loop" /\ open' = TRUE /\ turns' = turns + 1
  /\ UNCHANGED <<written, spoilt, closed, auto, faults>>

\* The runner refuses it before it touches the record: a drain, the turn cap.
Refused ==
  /\ loop = "queue"
  /\ turns = TurnCap \/ faults < MaxFaults
  /\ faults' = IF turns = TurnCap THEN faults ELSE faults + 1
  /\ loop' = "none"
  /\ written' = Append(written, "retract")
  /\ UNCHANGED <<status, by, open, turns, spoilt, closed, auto>>

\* The queue refuses it: the record is 'queued' already.
RefusedLate ==
  /\ RefusedWrites /\ loop = "queue" /\ turns < TurnCap /\ faults < MaxFaults
  /\ faults' = faults + 1
  /\ loop' = "none" /\ status' = "stranded" /\ by' = "loop" /\ open' = TRUE /\ turns' = turns + 1
  /\ written' = Append(written, "retract")
  /\ UNCHANGED <<spoilt, closed, auto>>

\* A person answers, or the daemon re-enters a cycle cut between two turns.
Reply(who) ==
  /\ loop = "none" /\ status \in Replyable /\ turns < TurnCap
  /\ who = "daemon" => Daemon /\ status = "interrupted" /\ ~open
  /\ status' = "queued" /\ by' = who /\ open' = TRUE /\ turns' = turns + 1
  /\ UNCHANGED <<loop, written, spoilt, closed, auto, faults>>

\* The turn that was cut runs again.
Resume(who) ==
  /\ loop = "none" /\ status = "interrupted" /\ open
  /\ who = "daemon" => Daemon
  /\ status' = "queued" /\ by' = who
  /\ UNCHANGED <<open, turns, loop, written, spoilt, closed, auto, faults>>

-----------------------------------------------------------------------------
(* Faults *)

Fault == faults < MaxFaults /\ faults' = faults + 1

\* Stop, on a turn that runs or that waits for its slot.
Interrupt ==
  /\ Fault
  /\ loop = "none" /\ status \in {"queued", "running", "waiting_for_you"}
  /\ status' = "interrupted"
  /\ UNCHANGED <<by, open, turns, loop, written, spoilt, closed, auto>>

\* The process dies, in the turn or in its review, and boot settles the record
\* and rebuilds the line.
Crash ==
  /\ Fault
  /\ loop' = "none"
  /\ status' = CASE status = "running" -> "interrupted"
                 [] status = "stranded" -> "queued"
                 [] OTHER -> status
  /\ open' \in IF status = "running" THEN BOOLEAN ELSE {open}
  /\ UNCHANGED <<by, turns, written, spoilt, closed, auto>>

\* A line of the journal does not parse any more.
Spoils ==
  /\ Fault
  /\ \E i \in (1 .. Len(written)) \ spoilt : spoilt' = spoilt \union {i}
  /\ UNCHANGED <<status, by, open, turns, loop, written, closed, auto>>

\* The journal stops opening, and opens again.
Closes ==
  /\ Fault /\ ~closed /\ closed' = TRUE
  /\ UNCHANGED <<status, by, open, turns, loop, written, spoilt, auto>>

Opens ==
  /\ closed /\ closed' = FALSE
  /\ UNCHANGED <<status, by, open, turns, loop, written, spoilt, auto, faults>>

Next ==
  \/ TurnStarts \/ Asks \/ Announces \/ Queues \/ Refused \/ RefusedLate
  \/ \E verdict \in Verdicts, fixable \in BOOLEAN : Settles(verdict, fixable)
  \/ \E who \in {"person", "daemon"} : Reply(who) \/ Resume(who)
  \/ Interrupt \/ Crash \/ Spoils \/ Closes \/ Opens

Spec == Init /\ [][Next]_vars

-----------------------------------------------------------------------------
(* Properties *)

\* Every variable holds a value of its kind, and a round is only ever about to
\* start on a task left at 'review_ko', which reply() takes.
TypeOK ==
  /\ status \in Statuses /\ by \in {"person", "loop", "daemon"} /\ open \in BOOLEAN
  /\ turns \in 1 .. TurnCap /\ loop \in {"none", "announce", "queue"}
  /\ written \in Seq({"marker", "retract", "turn"}) /\ spoilt \subseteq 1 .. Len(written)
  /\ closed \in BOOLEAN /\ auto \in Nat /\ faults \in 0 .. MaxFaults
  /\ loop # "none" => status = "review_ko"

\* The bound caps how far the machine goes without a person (task-fix-loop.ts:
\* autoFixRoundsUsed, decideFixLoop): whatever crashes, refusals and reads that
\* fail come between, it starts no more turns in a row than configured, and a
\* line lost to the journal renews the budget at most once.
RoundsBounded == auto <= MaxRounds * (Cardinality(spoilt) + 1)

\* What renews the budget without a person is always a fault, and one fault
\* renews it once (task-fix-loop.ts, runner-daemon.ts claimNextTicket): also with
\* the daemon resuming and the queue refusing, the machine cannot go on for ever.
EachFaultRenewsOnce == auto <= MaxRounds + faults * (MaxRounds + 1)

\* A crash between the marker and the queued turn costs a round rather than
\* granting one (task-server.ts, the marker before reply()): over the journal
\* as it was written, the count is never short of what the machine did.
CountCoversTheMachine == auto <= autoFixRoundsUsed(written)

\* A round announced and never run costs the person who answers next one round
\* of budget (task-fix-loop.ts:229): their turn starts with one round used at most.
CostsOneRound ==
  (status = "running" /\ by = "person" /\ spoilt = {}) => autoFixRoundsUsed(written) <= 1

\* The count may be short by up to as many rounds as lines were dropped
\* (task-server.ts:3475).
ShortByTheDropped ==
  autoFixRoundsUsed(written) <= autoFixRoundsUsed(Readable) + Cardinality(spoilt)
=============================================================================
