------------------------------- MODULE TurnCost -------------------------------
(****************************************************************************)
(* What the turns of one task cost: the frames of an agent's stream, the meter *)
(* that prices them and publishes its best figure as they come, the figure    *)
(* that an attempt at a turn leaves on it, however the attempt ends, and the  *)
(* record's total.  A turn that was cut is attempted again in place.          *)
(****************************************************************************)
EXTENDS Integers, Sequences, SequencesExt, FiniteSetsExt

CONSTANTS
  Agents,       \* the agents a task may have: "claude", "opencode"
  Models,       \* "priced": in the table; "unpriced"; "partner": by its shape
  Repeats,      \* a response may come in a second frame, with the same usage
  Unnamed,      \* frames may carry no message id
  Crashes,      \* the workspace may die while an agent runs
  SafeMax,      \* Number.MAX_SAFE_INTEGER, in ticks
  MaxTurns, MaxRuns, MaxResponses, MaxPrice  \* bounds; MaxResponses is of one run

ParametersAreSound ==
  /\ Agents \subseteq {"claude", "opencode"} /\ Models \subseteq {"priced", "unpriced", "partner"}
  /\ {Repeats, Unnamed, Crashes} \subseteq BOOLEAN
  /\ {SafeMax, MaxTurns, MaxRuns, MaxResponses, MaxPrice} \subseteq Nat \ {0}

VARIABLES
  agent,   \* of the task
  status,  \* "waiting", "running", "interrupted" or "failed"
  turns,   \* of the record: [cost, tokens, answered]
  total,   \* of the record: [ticks, turns, basis]
  attempt, \* TurnAttempt.cost: what the meter last published
  parser,  \* of the stream: [seen, tokens, meter], see Fresh
  buffer,  \* the line that has not ended yet, a frame or NoFrame
  stream,  \* the responses of this run so far, [ticks, model, inner, named]
  over,    \* its result frame has come
  bill,    \* what this run cost indeed
  spent,   \* per turn: what all its runs cost
  unsaid,  \* per turn: what of it no figure was published of
  burned,  \* tokens of this run
  all,     \* per turn: tokens of all its runs
  told,    \* a journal line says that a sum could not be stated
  runs

vars == <<agent, status, turns, total, attempt, parser, buffer, stream, over, bill, spent,
          unsaid, burned, all, told, runs>>
ghosts == <<spent, unsaid, all, told>>

(* Figures: an absent one is unknown, never 0. *)
None == [ticks |-> 0, basis |-> "none"]
Figure(n, b) == [ticks |-> n, basis |-> b]
NoTotal == [ticks |-> 0, turns |-> 0, basis |-> "none"]
NoFrame == [kind |-> "none"]
Usable(c) == c.basis # "none" /\ c.ticks <= SafeMax

(* The meter. *)
NoMeter == [bound |-> 0, bounded |-> FALSE, broken |-> FALSE, harness |-> -1,
            partner |-> FALSE, counted |-> {}]
Fresh == [seen |-> {}, tokens |-> 0, meter |-> NoMeter]

Best(m) ==
  IF m.partner THEN None
  ELSE IF m.harness >= 0 THEN Figure(m.harness, "harness")
  ELSE IF m.bounded /\ ~m.broken THEN Figure(m.bound, "lower_bound")
  ELSE None

SameCost(a, b) == a = b

Published(was, m) == IF SameCost(was, Best(m)) THEN was ELSE Best(m)

\* Somebody else's price list applies, which is not at hand.
Partnered(f) == f.model = "partner"
\* lowerBoundTicks has no row for it, or none for the day the turn began.
Unpriced(f) == f.model = "unpriced"

Charged(m, f) ==
  IF m.partner THEN m
  ELSE IF Partnered(f) THEN [m EXCEPT !.partner = TRUE]
  ELSE IF f.named /\ f.id \in m.counted THEN m
  ELSE LET once == [m EXCEPT !.counted = IF f.named THEN @ \union {f.id} ELSE @]
       IN IF Unpriced(f) THEN [once EXCEPT !.broken = TRUE]
          ELSE [once EXCEPT !.bounded = TRUE, !.bound = @ + f.ticks]

\* harnessTicks: the run ended in a way whose figures are complete, and this one
\* is an amount.
Offers(f) == f.says = "estimate"

Estimated(m, f) == IF m.partner \/ ~Offers(f) THEN m ELSE [m EXCEPT !.harness = f.ticks]

(* The parsers: what handling one line makes of <<parser, attempt>>. *)

\* A subagent's response counts as tokens and is not charged; it is its frame that
\* says whose it is.
Assistant(p, f) ==
  IF f.named /\ f.id \in p.seen THEN p
  ELSE [seen |-> IF f.named THEN p.seen \union {f.id} ELSE p.seen,
        tokens |-> p.tokens + f.tokens,
        meter |-> IF f.inner THEN p.meter ELSE Charged(p.meter, f)]
ResultFrame(p, f) ==
  [p EXCEPT !.meter = Estimated(p.meter, f),
            !.tokens = IF f.tokens > @ THEN f.tokens ELSE @]

\* OpenCode's step_finish.
StepFinish(p, a, f) ==
  <<[p EXCEPT !.tokens = @ + f.tokens], IF f.known THEN Figure(a.ticks + f.ticks, "harness") ELSE a>>

Handled(f, p, a) ==
  CASE f.kind = "assistant" -> LET q == Assistant(p, f)
                               IN <<q, Published(a, q.meter)>>
    [] f.kind = "result" -> LET q == ResultFrame(p, f)
                            IN <<q, Published(a, q.meter)>>
    [] f.kind = "step" -> StepFinish(p, a, f)
    [] OTHER -> <<p, a>>

-----------------------------------------------------------------------------
(* The figure on the turn and on the record. *)

\* foldTurnCost: [cost, lost], the second says that a sum could not be stated.
Folded(current, measured) ==
  IF ~Usable(measured) THEN [cost |-> current, lost |-> FALSE]
  ELSE IF ~Usable(current) THEN [cost |-> measured, lost |-> FALSE]
  ELSE IF current.ticks + measured.ticks > SafeMax THEN [cost |-> current, lost |-> TRUE]
  ELSE [cost |-> Figure(current.ticks + measured.ticks,
                        IF current.basis = "harness" /\ measured.basis = "harness"
                        THEN "harness" ELSE "lower_bound"),
        lost |-> FALSE]

Priced(ts) == SelectSeq(ts, LAMBDA t : Usable(t.cost))
SumOf(ts) == FoldLeft(LAMBDA n, t : n + t.cost.ticks, 0, Priced(ts))

TotalCost(ts) ==
  IF Priced(ts) = <<>> \/ SumOf(ts) > SafeMax THEN NoTotal
  ELSE [ticks |-> SumOf(ts), turns |-> Len(Priced(ts)),
        basis |-> IF \A i \in DOMAIN ts : ts[i].cost.basis # "lower_bound"
                  THEN "harness" ELSE "lower_bound"]

\* What the end of an attempt, whose last publication was m, makes of the record:
\* the fold is done once, also where the end of the turn folds and then throws and
\* the failure comes by it again.
Settle(ts, m) ==
  LET f == Folded(Last(ts).cost, m)
      us == [ts EXCEPT ![Len(ts)].cost = f.cost]
  IN /\ turns' = us
     /\ total' = TotalCost(us)
     /\ told' = (told \/ f.lost \/ (Priced(us) # <<>> /\ SumOf(us) > SafeMax))

\* What the run's last publication said nothing of.
Missed(m, cost) ==
  IF ~Usable(m) THEN cost ELSE IF m.basis = "harness" THEN cost - m.ticks ELSE 0

Accounted(m, more) ==
  /\ spent' = [spent EXCEPT ![Len(turns)] = @ + bill + more]
  /\ unsaid' = [unsaid EXCEPT ![Len(turns)] = @ + Missed(m, bill + more)]
  /\ all' = [all EXCEPT ![Len(turns)] = @ + burned]

AtRest ==
  /\ attempt' = None /\ parser' = Fresh /\ buffer' = NoFrame /\ stream' = <<>>
  /\ over' = FALSE /\ bill' = 0 /\ burned' = 0

-----------------------------------------------------------------------------
NewTurn == [cost |-> None, tokens |-> 0, answered |-> FALSE]

Init ==
  /\ agent \in Agents
  /\ status = "running" /\ turns = <<NewTurn>> /\ total = NoTotal
  /\ attempt = None /\ parser = Fresh /\ buffer = NoFrame /\ stream = <<>>
  /\ over = FALSE /\ bill = 0 /\ burned = 0
  /\ spent = <<0>> /\ unsaid = <<0>> /\ all = <<0>> /\ told = FALSE /\ runs = 1

Receive(f, whole) ==
  /\ IF whole
     THEN LET h == Handled(f, parser, attempt)
          IN parser' = h[1] /\ attempt' = h[2] /\ buffer' = buffer
     ELSE buffer' = f /\ UNCHANGED <<parser, attempt>>
  /\ UNCHANGED <<agent, status, turns, total, ghosts, runs>>

Frame(i, s) ==
  [kind |-> "assistant", id |-> i, named |-> s[i].named, model |-> s[i].model,
   inner |-> s[i].inner, ticks |-> s[i].ticks, tokens |-> s[i].ticks + 1]

\* A response: its input at the table's price, and its output, which is not charged.
Response(whole) ==
  /\ status = "running" /\ agent = "claude" /\ buffer = NoFrame
  /\ ~over /\ Len(stream) < MaxResponses
  /\ \E t \in 1..MaxPrice, m \in Models, inner \in BOOLEAN,
        named \in (IF Unnamed THEN BOOLEAN ELSE {TRUE}) :
       LET s == Append(stream, [ticks |-> t, model |-> m, inner |-> inner, named |-> named])
       IN /\ stream' = s
          /\ bill' = bill + t + 1 /\ burned' = burned + t + 1
          /\ Receive(Frame(Len(s), s), whole)
  /\ UNCHANGED over

\* The same response again: another content block.
Repeated(whole) ==
  /\ Repeats
  /\ status = "running" /\ agent = "claude" /\ buffer = NoFrame
  /\ ~over /\ stream # <<>>
  /\ Receive(Frame(Len(stream), stream), whole)
  /\ UNCHANGED <<stream, over, bill, burned>>

\* The closing frame: of a run that ended well, or broke, or with a broken amount.
Closing(whole) ==
  /\ status = "running" /\ agent = "claude" /\ buffer = NoFrame /\ ~over
  /\ \E says \in {"estimate", "amount", "frame"} :
       Receive([kind |-> "result", says |-> says, ticks |-> bill,
                tokens |-> IF says = "estimate" THEN burned ELSE 0], whole)
  /\ over' = TRUE
  /\ UNCHANGED <<stream, bill, burned>>

\* A finished step of OpenCode's, which tells its cost or not.
Step(whole) ==
  /\ status = "running" /\ agent = "opencode" /\ buffer = NoFrame
  /\ Len(stream) < MaxResponses
  /\ \E t \in 1..MaxPrice, known \in BOOLEAN :
       /\ stream' = Append(stream, t)
       /\ bill' = bill + t /\ burned' = burned + t
       /\ Receive([kind |-> "step", ticks |-> t, known |-> known, tokens |-> t], whole)
  /\ UNCHANGED over

\* The rest of the line.
LineEnds ==
  /\ status = "running" /\ buffer # NoFrame
  /\ LET h == Handled(buffer, parser, attempt) IN parser' = h[1] /\ attempt' = h[2]
  /\ buffer' = NoFrame
  /\ UNCHANGED <<agent, status, turns, total, stream, over, bill, burned, ghosts, runs>>

\* The agent has answered: what is left of the stream is handled, and finishTurn
\* settles the turn, or throws on its way, before or after the fold.
Answers ==
  /\ status = "running"
  /\ LET h == Handled(buffer, parser, attempt)
     IN \E thrown \in {"no", "before", "after"} :
          /\ Settle(IF thrown = "before" THEN turns
                    ELSE [turns EXCEPT ![Len(turns)].answered = TRUE,
                                       ![Len(turns)].tokens = IF h[1].tokens > 0
                                                              THEN h[1].tokens ELSE @],
                    h[2])
          /\ status' \in (IF thrown = "no" THEN {"waiting"} ELSE {"failed", "interrupted"})
          /\ Accounted(h[2], 0)
  /\ AtRest
  /\ UNCHANGED <<agent, runs>>

\* It was stopped, or cut, or died: what stands in the buffer is not looked at, and
\* a response that was under way is billed all the same.
Dies ==
  /\ status = "running"
  /\ Settle(turns, attempt)
  /\ status' \in {"interrupted", "failed"}
  /\ \E more \in (IF over THEN {0} ELSE {0, 1}) : Accounted(attempt, more)
  /\ AtRest
  /\ UNCHANGED <<agent, runs>>

\* The workspace dies with its agent: nothing is folded, and the boot finds the
\* turn interrupted.
Crash ==
  /\ Crashes
  /\ status = "running"
  /\ status' = "interrupted"
  /\ Accounted(None, 0)
  /\ AtRest
  /\ UNCHANGED <<agent, turns, total, told, runs>>

\* resume(): the same turn again, in place.
Resume ==
  /\ status = "interrupted" /\ ~Last(turns).answered /\ runs < MaxRuns
  /\ status' = "running" /\ runs' = runs + 1
  /\ UNCHANGED <<agent, turns, total, attempt, parser, buffer, stream, over, bill, burned, ghosts>>

Reply ==
  /\ status \in {"waiting", "interrupted"} /\ Len(turns) < MaxTurns /\ runs < MaxRuns
  /\ status' = "running" /\ runs' = runs + 1
  /\ turns' = Append(turns, NewTurn)
  /\ spent' = Append(spent, 0) /\ unsaid' = Append(unsaid, 0) /\ all' = Append(all, 0)
  /\ UNCHANGED <<agent, total, attempt, parser, buffer, stream, over, bill, burned, told>>

Next ==
  \/ \E whole \in BOOLEAN : Response(whole) \/ Repeated(whole) \/ Closing(whole) \/ Step(whole)
  \/ LineEnds \/ Answers \/ Dies \/ Crash \/ Resume \/ Reply

Spec == Init /\ [][Next]_vars

-----------------------------------------------------------------------------
TypeOK ==
  /\ agent \in Agents /\ status \in {"waiting", "running", "interrupted", "failed"}
  /\ \A i \in DOMAIN turns :
       turns[i].cost.basis \in {"none", "harness", "lower_bound"} /\ turns[i].cost.ticks <= SafeMax
  /\ DOMAIN turns = DOMAIN spent /\ DOMAIN turns = DOMAIN unsaid /\ DOMAIN turns = DOMAIN all
  /\ status # "running" => attempt = None /\ buffer = NoFrame

\* A figure that calls itself a lower bound is one: of everything that the turn's
\* attempts spent, those that were cut and those that no price was known of
\* included (cost.ts:139-141, tasks.ts:55-57).
BoundIsBelow ==
  \A i \in DOMAIN turns :
    turns[i].cost.basis = "lower_bound" => turns[i].cost.ticks <= spent[i]

\* A harness figure is the sum of what the harness said of each attempt: none of
\* them is counted twice, or lost on the way from the stream to the record, unless
\* the journal says that the sum could not be stated (foldTurnCost, TurnAttempt).
EstimateIsTheAttempts ==
  \A i \in DOMAIN turns :
    turns[i].cost.basis = "harness" => told \/ turns[i].cost.ticks + unsaid[i] = spent[i]

\* A figure that calls itself the harness's is of all that the turn spent
\* (tasks.ts:49-53: 'covers everything the run consumed'; cost.ts:878-881: 'a sum
\* is never more authoritative than its weakest term').
HarnessIsWhole ==
  \A i \in DOMAIN turns :
    turns[i].cost.basis = "harness" => told \/ turns[i].cost.ticks = spent[i]

\* Whatever moment a turn is cut at, what its attempt holds is the best that can
\* be said of the stream so far, nothing retracted stands, and a lower bound leaves out
\* no response that came before it (CostMeterHandlers.onCost).
AttemptHoldsTheBest ==
  status = "running" /\ agent = "claude" =>
    /\ attempt = Best(parser.meter)
    /\ attempt.basis = "lower_bound" =>
         \A i \in 1..(Len(stream) - IF buffer = NoFrame THEN 0 ELSE 1) :
           stream[i].inner \/ stream[i].model = "priced"

\* The record's total is of its turns, and says of how many
\* (TaskRecord.cost_ticks, cost_turns).
TotalIsItsTurns ==
  LET priced == {i \in DOMAIN turns : turns[i].cost.basis # "none"}
  IN \/ total = NoTotal /\ (priced = {} \/ told)
     \/ /\ total.turns = Cardinality(priced)
        /\ total.ticks = MapThenSumSet(LAMBDA i : turns[i].cost.ticks, priced)
        /\ total.basis = "harness" => \A i \in priced : turns[i].cost.basis = "harness"

\* A turn without a figure is one of which no attempt published any: an attempt
\* that measured nothing erases nothing (foldTurnCost).
UnknownIsUnpublished ==
  \A i \in DOMAIN turns : turns[i].cost = None => unsaid[i] = spent[i]

\* The tokens of an answered turn are those of the run that answered, each response
\* counted once, subagents included (agent.ts:691-707).
TokensAreTheRuns ==
  \A i \in DOMAIN turns : turns[i].tokens <= all[i]

\* They are all that the turn consumed (agent.ts:703-705: turn.tokens "has always
\* meant 'what this turn burned'").
TokensAreWhatBurned ==
  \A i \in DOMAIN turns : turns[i].answered => turns[i].tokens = all[i]
=============================================================================
