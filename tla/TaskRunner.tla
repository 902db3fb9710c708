----------------------------- MODULE TaskRunner -----------------------------
(***************************************************************************)
(* One project's task runner (createTaskRunner, task-runner.ts) inside the *)
(* task manager that drives it (task-server.ts): the persisted queue, the  *)
(* one-active-task claim, the machine-wide slots a turn, a checks run and  *)
(* a review each take, the turn's chain of steps from the worktree to the  *)
(* merge, the gestures that land between two of them, and the crashes.     *)
(*                                                                         *)
(* A JavaScript handler runs to its next real await, so one action is one  *)
(* such stretch: what it persists, what it releases, and the pump it ends  *)
(* with. The load cap is used as LoadCap specifies it.                     *)
(***************************************************************************)
EXTENDS Naturals, FiniteSets, Sequences, SequencesExt, Selection

CONSTANTS
  Tasks,       \* the conversations of this project
  Others,      \* the other heavy processes of the machine
  Cap,         \* maxConcurrentAgents
  QueueMax,    \* QUEUE_ENTRIES_MAX
  MaxTurns,    \* resolveMaxTaskTurns: the turns a task may spend
  QueueFaults, \* may a write of queue.json fail?
  Criteria,    \* the tasks a human validates criteria on, at any moment
  Scratch,     \* the tasks that take repositories in (attach)
  None         \* no task

ASSUME TasksFinite == IsFiniteSet(Tasks)
ASSUME OthersFinite == IsFiniteSet(Others)
ASSUME ClientsApart == Tasks \intersect Others = {}
ASSUME CapPositive == Cap \in Nat \ {0}
ASSUME QueueMaxPositive == QueueMax \in Nat \ {0}
ASSUME MaxTurnsPositive == MaxTurns \in Nat \ {0}
ASSUME QueueFaultsBoolean == QueueFaults \in BOOLEAN
ASSUME CriteriaAreTasks == Criteria \subseteq Tasks
ASSUME ScratchAreTasks == Scratch \subseteq Tasks
ASSUME NoneIsNoTask == None \notin Tasks \union Others

VARIABLES
  disk,       \* task.json of each task
  line,       \* queue.json: the ids waiting, in order
  written,    \* has queue.json ever been written?
  up,         \* is the process alive?
  draining,   \* has shutdown() been called?
  claim,      \* the project's one active task (activeByProject)
  stage,      \* where the chain started by launch() stands, per task
  held,       \* the record a chain or a ship will write back
  cut,        \* the tasks whose current AbortController has fired
  slots,      \* the holders of a load-cap slot
  parked,     \* the load cap's FIFO
  blocked,    \* ids that would not materialize in this session
  abandoning, \* the abandon in flight, and whether its task was in line
  delivering, \* the tasks being shipped or merged (shipping, merging)
  attaching   \* the record attach() will write back

persisted == <<disk, line, written>>
load == <<slots, parked>>
vars == <<disk, line, written, up, draining, claim, stage, held, cut, slots,
          parked, blocked, abandoning, delivering, attaching>>

-----------------------------------------------------------------------------
\* "absent": no task.json. A record keeps its status, how many turns it has,
\* whether the last one was answered, and whether criteria were validated.
Status == {"absent", "queued", "running", "reviewing", "waiting_for_you",
           "review_ok", "review_ko", "shipped", "interrupted", "failed"}

Record == [status : Status, turn : 0..MaxTurns, answered : BOOLEAN,
           criteria : BOOLEAN]

NoRecord == [status |-> "absent", turn |-> 0, answered |-> FALSE,
             criteria |-> FALSE]

Active == {"materializing", "agent"}               \* the `active` map
Hook == {"hook", "checks_parked", "checks", "checked", "review_parked",
         "review", "shipping", "merging"}          \* the `reviews` map
Stage == {"none"} \union Active \union Hook

Waits == {"checks_parked", "review_parked"}
Served == [checks_parked |-> "checks", review_parked |-> "review"]

Replyable == {"waiting_for_you", "interrupted", "review_ok", "review_ko"}

\* t stands in the line at most once.
Without(l, t) == Only(l, Tasks \ {t})

Free == Cardinality(slots) < Cap
InLine(t) == Contains(line, t)

\* May this write of queue.json succeed? One choice per write.
Writes == IF QueueFaults THEN BOOLEAN ELSE {TRUE}

-----------------------------------------------------------------------------
(***************************************************************************)
(* A slot comes back. The head of the FIFO is handed it; with nobody       *)
(* parked, another project's runner, told first, may have taken it before  *)
(* this one looks.                                                         *)
(***************************************************************************)
Freed(c) ==
  IF c \notin slots THEN {[slots |-> slots, parked |-> parked]}
  ELSE IF parked # <<>>
    THEN {[slots |-> (slots \ {c}) \union {Head(parked)}, parked |-> Tail(parked)]}
    ELSE {[slots |-> (slots \ {c}) \union s, parked |-> parked] :
            s \in {{}} \union {{o} : o \in Others \ slots}}

(***************************************************************************)
(* The pump every handler ends with, run on the line l, the claim c, the   *)
(* slots s, the chains st and their records h, once disk' and blocked' are *)
(* known. It sweeps the entries in front of the first one it can run, but  *)
(* steps over the blocked ones, and launches that one if the project and   *)
(* the machine are both free. A launched task keeps its entry for now.     *)
(***************************************************************************)
NextRunnable(l) ==
  Min({i \in 1..Len(l) : l[i] \notin blocked' /\ disk'[l[i]].status = "queued"}
        \union {Len(l) + 1})

Swept(l) == Only(l, blocked' \union {l[i] : i \in NextRunnable(l)..Len(l)})

Pump(l, c, s, st, h) ==
  IF draining \/ c # None
    THEN line' = l /\ claim' = c /\ slots' = s /\ stage' = st /\ held' = h
    ELSE /\ line' \in {Swept(l)} \union (IF QueueFaults THEN {l} ELSE {})
         /\ IF NextRunnable(l) > Len(l) \/ Cardinality(s) >= Cap
              THEN claim' = c /\ slots' = s /\ stage' = st /\ held' = h
              ELSE LET next == l[NextRunnable(l)]
                   IN  /\ claim' = next
                       /\ slots' = s \union {next}
                       /\ stage' = [st EXCEPT ![next] = "materializing"]
                       /\ held' = [h EXCEPT ![next] = disk'[next]]

\* Variant of the definition below: nobody pumps when the chain ends.
EndChainQuietly(t, l, f) ==
  /\ parked' = f.parked
  /\ cut' = cut \ {t}
  /\ line' = l
  /\ claim' = IF claim = t THEN None ELSE claim
  /\ slots' = f.slots
  /\ stage' = [stage EXCEPT ![t] = "none"]
  /\ held' = [held EXCEPT ![t] = NoRecord]

\* The end of t's chain (the `finally` of launch): its slot, if it still has
\* one, then the claim, then the pump.
EndChain(t, l, f) ==
  /\ parked' = f.parked
  /\ cut' = cut \ {t}
  /\ Pump(l, IF claim = t THEN None ELSE claim, f.slots,
          [stage EXCEPT ![t] = "none"], [held EXCEPT ![t] = NoRecord])

Persist(t, r) == disk' = [disk EXCEPT ![t] = r]

\* The chain's record with another status.
As(t, status) == [held[t] EXCEPT !.status = status]

-----------------------------------------------------------------------------
(***************************************************************************)
(* Variants of the steps below that a plausible bug would give, used to    *)
(* show that the properties tell them apart from the code.                 *)
(***************************************************************************)

\* reply() without the manager's guard on a push or a merge in flight.
CanReplyWhileShipping(t) ==
  /\ ~draining
  /\ stage[t] \notin Active
  /\ abandoning[t] = "no"
  /\ ~InLine(t)
  /\ disk[t].status \in Replyable
  /\ disk[t].turn < MaxTurns

\* resume() of a turn that was answered before it was interrupted.
CanResumeAnswered(t) ==
  /\ ~draining
  /\ t \notin delivering
  /\ stage[t] \notin Active
  /\ abandoning[t] = "no"
  /\ ~InLine(t)
  /\ disk[t].status = "interrupted"

\* The agent's slot is only given back at the end of the chain.
AgentDoneKeepsSlot(t) ==
  /\ stage[t] = "agent"
  /\ \E a \in BOOLEAN :
       LET done == [As(t, "reviewing") EXCEPT !.answered = a]
       IN  Persist(t, done) /\ held' = [held EXCEPT ![t] = done]
  /\ stage' = [stage EXCEPT ![t] = "hook"]
  /\ cut' = IF draining THEN cut \union {t} ELSE cut \ {t}
  /\ UNCHANGED <<line, written, up, draining, claim, load, blocked, abandoning,
                 delivering, attaching>>

\* The abandoned task keeps its place in line.
AbandonBeginInLine(t) ==
  /\ up
  /\ t \notin delivering
  /\ stage[t] \notin Active
  /\ abandoning[t] = "no"
  /\ disk[t].status \notin {"absent", "running", "reviewing"}
  /\ abandoning' = [abandoning EXCEPT ![t] = IF InLine(t) THEN "in_line" ELSE "out"]
  /\ UNCHANGED <<persisted, up, draining, claim, stage, held, cut, load, blocked,
                 delivering, attaching>>

\* A cleaned-up task is a failed one, shipped or not.
AbandonEndAlwaysFailed(t) ==
  /\ abandoning[t] # "no"
  /\ Persist(t, [disk[t] EXCEPT !.status = "failed"])
  /\ abandoning' = [abandoning EXCEPT ![t] = "no"]
  /\ UNCHANGED <<line, written, up, draining, claim, stage, held, cut, slots,
                 parked, blocked, delivering, attaching>>

\* A removal that failed leaves the task where the abandon put it.
AbandonFailsOutOfLine(t) ==
  /\ abandoning[t] # "no"
  /\ abandoning' = [abandoning EXCEPT ![t] = "no"]
  /\ UNCHANGED <<persisted, up, draining, claim, stage, held, cut, load, blocked,
                 delivering, attaching>>

\* The runner does not listen to slots freed elsewhere.
OtherReleasesUnheard(o) ==
  /\ o \in slots
  /\ UNCHANGED <<persisted, up, draining, claim, held, cut, blocked, abandoning,
                 delivering, attaching>>
  /\ \E f \in Freed(o) :
       /\ parked' = f.parked
       /\ slots' = f.slots
       /\ stage' = [t \in Tasks |-> IF stage[t] \in Waits /\ t \in f.slots
                                     THEN Served[stage[t]] ELSE stage[t]]

\* Only the running turns are aborted by a drain, not the reviews.
ShutdownSparesReviews ==
  /\ up /\ ~draining
  /\ draining' = TRUE
  /\ cut' = {t \in Tasks : stage[t] \in Active}
  /\ UNCHANGED <<persisted, up, claim, stage, held, load, blocked, abandoning,
                 delivering, attaching>>

-----------------------------------------------------------------------------
(***************************************************************************)
(* Gestures that ask for a turn. schedule() puts the task in line and      *)
(* pumps; a queue that will not take it answers 503, and what the record   *)
(* says then is up to the caller.                                          *)
(***************************************************************************)
Schedule(t, queued, refused) ==
  /\ up
  /\ blocked' = blocked \ {t}
  /\ \E ok \in Writes :
       IF InLine(t) \/ (Len(line) < QueueMax /\ ok)
         THEN /\ Persist(t, queued)
              /\ written' = TRUE
              /\ Pump(IF InLine(t) THEN line ELSE Append(line, t),
                      claim, slots, stage, held)
         ELSE /\ Persist(t, refused)
              /\ UNCHANGED <<line, written, claim, slots, stage, held>>
  /\ UNCHANGED <<up, draining, cut, parked, abandoning, delivering, attaching>>

Created == [status |-> "queued", turn |-> 1, answered |-> FALSE, criteria |-> FALSE]
Replied(r) == [r EXCEPT !.status = "queued", !.turn = @ + 1, !.answered = FALSE]
Resumed(r) == [r EXCEPT !.status = "queued"]

CanCreate(t) == disk[t].status = "absent"

CanReply(t) ==
  /\ ~draining
  /\ t \notin delivering
  /\ stage[t] \notin Active
  /\ abandoning[t] = "no"
  /\ ~InLine(t)
  /\ disk[t].status \in Replyable
  /\ disk[t].turn < MaxTurns

CanResume(t) ==
  /\ ~draining
  /\ t \notin delivering
  /\ stage[t] \notin Active
  /\ abandoning[t] = "no"
  /\ ~InLine(t)
  /\ disk[t].status = "interrupted"
  /\ ~disk[t].answered

\* create() saves the record and starts it; a start that is refused (a queue
\* that will not take it, a drain) settles the task as failed there and then.
Create(t) ==
  /\ CanCreate(t)
  /\ ~draining
  /\ Schedule(t, Created, [Created EXCEPT !.status = "failed"])

CreateWhileDraining(t) ==
  /\ up /\ draining
  /\ CanCreate(t)
  /\ Persist(t, [Created EXCEPT !.status = "failed"])
  /\ UNCHANGED <<line, written, up, draining, claim, stage, held, cut, slots,
                 parked, blocked, abandoning, delivering, attaching>>

\* reply() and resume() persist 'queued' before they schedule, and leave it.
Reply(t) == CanReply(t) /\ Schedule(t, Replied(disk[t]), Replied(disk[t]))
Resume(t) == CanResume(t) /\ Schedule(t, Resumed(disk[t]), Resumed(disk[t]))

(***************************************************************************)
(* Stop. A turn being set up or running is only signalled: its chain       *)
(* settles it. A task that waits leaves the line at once (dropFromQueue),  *)
(* pumping for those behind it before its own record is written.           *)
(***************************************************************************)
InterruptTurn(t) ==
  /\ up
  /\ stage[t] \in Active
  /\ cut' = cut \union {t}
  /\ UNCHANGED <<disk, line, written, up, draining, claim, stage, held, slots,
                 parked, blocked, abandoning, delivering, attaching>>

\* dropFromQueue: out of the line, the claim given back if it was its own. A
\* failed write changes nothing, and wakes nobody.
DropFromQueue(t) ==
  /\ blocked' = blocked \ {t}
  /\ \E ok \in Writes :
       LET left == InLine(t) /\ ok
       IN  IF left \/ claim = t
             THEN Pump(IF left THEN Without(line, t) ELSE line,
                       IF claim = t THEN None ELSE claim, slots, stage, held)
             ELSE UNCHANGED <<line, claim, slots, stage, held>>

InterruptWaiting(t) ==
  /\ up
  /\ stage[t] \notin Active
  /\ abandoning[t] = "no"
  /\ disk[t].status \in {"queued", "waiting_for_you"}
  /\ Persist(t, [disk[t] EXCEPT !.status = "interrupted"])
  /\ DropFromQueue(t)
  /\ UNCHANGED <<written, up, draining, cut, parked, abandoning, delivering,
                 attaching>>

(***************************************************************************)
(* Abandon. The guards and the removal from the line run before the await  *)
(* on the worktree, the record's last write after it, on a copy read again *)
(* then. A removal that failed puts a task that was in line back at the    *)
(* end of it.                                                              *)
(***************************************************************************)
AbandonBegin(t) ==
  /\ up
  /\ t \notin delivering
  /\ stage[t] \notin Active
  /\ abandoning[t] = "no"
  /\ disk[t].status \notin {"absent", "running", "reviewing"}
  /\ abandoning' = [abandoning EXCEPT ![t] = IF InLine(t) THEN "in_line" ELSE "out"]
  /\ UNCHANGED <<disk, written, up, draining, cut, parked, delivering, attaching>>
  /\ DropFromQueue(t)

AbandonEnd(t) ==
  /\ abandoning[t] # "no"
  /\ Persist(t, [disk[t] EXCEPT
                   !.status = IF @ = "shipped" THEN "shipped" ELSE "failed"])
  /\ abandoning' = [abandoning EXCEPT ![t] = "no"]
  /\ UNCHANGED <<line, written, up, draining, claim, stage, held, cut, slots,
                 parked, blocked, delivering, attaching>>

AbandonFails(t) ==
  /\ abandoning[t] # "no"
  /\ abandoning' = [abandoning EXCEPT ![t] = "no"]
  /\ UNCHANGED <<disk, up, draining, cut, parked, blocked, delivering, attaching>>
  /\ IF abandoning[t] = "out"
       THEN UNCHANGED <<line, written, claim, slots, stage, held>>
       ELSE \E ok \in Writes :
              LET back == ~InLine(t) /\ Len(line) < QueueMax /\ ok
              IN  /\ Pump(IF back THEN Append(line, t) ELSE line,
                          claim, slots, stage, held)
                  /\ written' = (written \/ back)

-----------------------------------------------------------------------------
(***************************************************************************)
(* The chain of launch(). The worktree is there: out of the line first,    *)
(* then the record says 'running', unless Stop was clicked meanwhile. A    *)
(* line that cannot be written is an ordinary failure to materialize.      *)
(***************************************************************************)
Materialized(t) ==
  /\ stage[t] = "materializing"
  /\ t \notin cut
  /\ line' = Without(line, t)
  /\ Persist(t, As(t, "running"))
  /\ held' = [held EXCEPT ![t] = As(t, "running")]
  /\ stage' = [stage EXCEPT ![t] = "agent"]
  /\ blocked' = blocked \ {t}
  /\ UNCHANGED <<written, up, draining, claim, cut, slots, parked, abandoning,
                 delivering, attaching>>

MaterializedTooLate(t) ==
  /\ stage[t] = "materializing"
  /\ t \in cut
  /\ Persist(t, As(t, "interrupted"))
  /\ UNCHANGED <<written, up, draining, blocked, abandoning, delivering, attaching>>
  /\ \E f \in Freed(t) : EndChain(t, Without(line, t), f)

\* A failure that names itself, or a Stop, settles the turn (failTurn) and
\* leaves the entry for the pump to sweep.
MaterializeFails(t) ==
  /\ stage[t] = "materializing"
  /\ \E status \in IF t \in cut THEN {"interrupted"} ELSE {"interrupted", "failed"} :
       Persist(t, As(t, status))
  /\ UNCHANGED <<written, up, draining, blocked, abandoning, delivering, attaching>>
  /\ \E f \in Freed(t) : EndChain(t, line, f)

\* Any other failure: the turn never started. The task stays queued, in line,
\* and is stepped over until a gesture or the next boot.
MaterializeBlocks(t) ==
  /\ stage[t] = "materializing"
  /\ t \notin cut
  /\ Persist(t, held[t])
  /\ blocked' = blocked \union {t}
  /\ UNCHANGED <<written, up, draining, abandoning, delivering, attaching>>
  /\ \E f \in Freed(t) : EndChain(t, line, f)

\* failTurn on a running turn: Stop, the watchdog and retryable failures are
\* resumable, the others are not. The answer may be in already, when what
\* failed is the commit or the write that follows it.
AgentFails(t) ==
  /\ stage[t] = "agent"
  /\ \E status \in IF t \in cut THEN {"interrupted"} ELSE {"interrupted", "failed"},
        a \in BOOLEAN :
       Persist(t, [As(t, status) EXCEPT !.answered = a])
  /\ UNCHANGED <<written, up, draining, blocked, abandoning, delivering, attaching>>
  /\ \E f \in Freed(t) : EndChain(t, line, f)

\* finishTurn on a question. An answer may be empty, which reads as none.
AgentAsks(t) ==
  /\ stage[t] = "agent"
  /\ \E a \in BOOLEAN :
       Persist(t, [As(t, "waiting_for_you") EXCEPT !.answered = a])
  /\ UNCHANGED <<written, up, draining, blocked, abandoning, delivering, attaching>>
  /\ \E f \in Freed(t) : EndChain(t, line, f)

\* finishTurn on a finished turn: the agent's slot is released before the
\* hook runs, the claim is not; the hook gets a controller of its own, already
\* aborted during a drain.
AgentDone(t) ==
  /\ stage[t] = "agent"
  /\ \E a \in BOOLEAN :
       LET done == [As(t, "reviewing") EXCEPT !.answered = a]
       IN  Persist(t, done) /\ held' = [held EXCEPT ![t] = done]
  /\ stage' = [stage EXCEPT ![t] = "hook"]
  /\ cut' = IF draining THEN cut \union {t} ELSE cut \ {t}
  /\ \E f \in Freed(t) : slots' = f.slots /\ parked' = f.parked
  /\ UNCHANGED <<line, written, up, draining, claim, blocked, abandoning,
                 delivering, attaching>>

-----------------------------------------------------------------------------
(***************************************************************************)
(* The end-of-turn hook (onTurnDone). The checks, when there are some to   *)
(* run, take a slot of their own and give it back before the review asks   *)
(* for one. A wait for a slot ends at once when the drain aborts it.       *)
(***************************************************************************)
BeginChecks(t) ==
  /\ stage[t] = "hook"
  /\ IF Free
       THEN /\ slots' = slots \union {t}
            /\ stage' = [stage EXCEPT ![t] = "checks"]
            /\ UNCHANGED parked
       ELSE IF draining
         THEN stage' = [stage EXCEPT ![t] = "checked"] /\ UNCHANGED load
         ELSE /\ parked' = Append(parked, t)
              /\ stage' = [stage EXCEPT ![t] = "checks_parked"]
              /\ UNCHANGED slots
  /\ UNCHANGED <<persisted, up, draining, claim, held, cut, blocked, abandoning,
                 delivering, attaching>>

EndChecks(t) ==
  /\ stage[t] = "checks"
  /\ stage' = [stage EXCEPT ![t] = "checked"]
  /\ \E f \in Freed(t) : slots' = f.slots /\ parked' = f.parked
  /\ UNCHANGED <<persisted, up, draining, claim, held, cut, blocked, abandoning,
                 delivering, attaching>>

BeginReview(t) ==
  /\ stage[t] \in {"hook", "checked"}
  /\ t \notin cut
  /\ IF Free
       THEN /\ slots' = slots \union {t}
            /\ stage' = [stage EXCEPT ![t] = "review"]
            /\ UNCHANGED parked
       ELSE /\ parked' = Append(parked, t)
            /\ stage' = [stage EXCEPT ![t] = "review_parked"]
            /\ UNCHANGED slots
  /\ UNCHANGED <<persisted, up, draining, claim, held, cut, blocked, abandoning,
                 delivering, attaching>>

\* A verdict falls: from the review, or before it when the diff is empty.
Judged(t) == stage[t] = "review" \/ (stage[t] \in {"hook", "checked"} /\ t \notin cut)

\* The hook writes its last word and returns: the chain is over. Either the
\* drain cut it, or the ticket was edited on the forge, or a verdict fell; the
\* gates may turn an approval into a KO, and a KO into a hand-back.
HookSettles(t) ==
  /\ \/ /\ stage[t] \in {"hook", "checked", "review"} /\ t \in cut
        /\ Persist(t, As(t, "interrupted"))
     \/ stage[t] \in {"hook", "checked"} /\ Persist(t, As(t, "waiting_for_you"))
     \/ \E verdict \in {"review_ok", "review_ko", "waiting_for_you"} :
          Judged(t) /\ Persist(t, As(t, verdict))
  /\ UNCHANGED <<written, up, draining, blocked, abandoning, delivering, attaching>>
  /\ \E f \in Freed(t) : EndChain(t, line, f)

\* An automatic fix round: the verdict is persisted, then reply() queues the
\* next turn from inside the hook, under the claim; the chain ends right after.
HookRetries(t) ==
  /\ stage[t] = "review"
  /\ ~draining
  /\ abandoning[t] = "no"
  /\ ~InLine(t)
  /\ held[t].turn < MaxTurns
  /\ Persist(t, Replied(held[t]))
  /\ blocked' = blocked \ {t}
  /\ UNCHANGED <<up, draining, abandoning, delivering, attaching>>
  /\ \E ok \in Writes, f \in Freed(t) :
       LET taken == Len(line) < QueueMax /\ ok
       IN  /\ written' = (written \/ taken)
           /\ EndChain(t, IF taken THEN Append(line, t) ELSE line, f)

\* An approved task with auto_ship: the push starts from inside the hook, on a
\* record read again, unless an abandon or a human's ship is already at it.
HookShips(t) ==
  /\ Judged(t)
  /\ abandoning[t] = "no"
  /\ t \notin delivering
  /\ Persist(t, As(t, "review_ok"))
  /\ held' = [held EXCEPT ![t] = As(t, "review_ok")]
  /\ stage' = [stage EXCEPT ![t] = "shipping"]
  /\ delivering' = delivering \union {t}
  /\ \E f \in Freed(t) : slots' = f.slots /\ parked' = f.parked
  /\ UNCHANGED <<line, written, up, draining, claim, cut, blocked, abandoning,
                 attaching>>

-----------------------------------------------------------------------------
\* ship() on a human's click, outside any chain.
Ship(t) ==
  /\ up
  /\ t \notin delivering
  /\ abandoning[t] = "no"
  /\ disk[t].status \in {"review_ok", "review_ko"}
  /\ delivering' = delivering \union {t}
  /\ held' = [held EXCEPT ![t] = disk[t]]
  /\ UNCHANGED <<persisted, up, draining, claim, stage, cut, load, blocked,
                 abandoning, attaching>>

\* The push landed. In a chain, runMergeStep follows on the record just saved.
ShipLands(t) ==
  /\ t \in delivering
  /\ stage[t] \in {"none", "shipping"}
  /\ Persist(t, As(t, "shipped"))
  /\ IF stage[t] = "none"
       THEN /\ delivering' = delivering \ {t}
            /\ held' = [held EXCEPT ![t] = NoRecord]
            /\ UNCHANGED stage
       ELSE /\ stage' = [stage EXCEPT ![t] = "merging"]
            /\ held' = [held EXCEPT ![t] = As(t, "shipped")]
            /\ UNCHANGED delivering
  /\ UNCHANGED <<line, written, up, draining, claim, cut, load, blocked,
                 abandoning, attaching>>

\* The push failed: nothing is written, the ship can be tried again.
ShipFails(t) ==
  /\ t \in delivering
  /\ stage[t] \in {"none", "shipping"}
  /\ delivering' = delivering \ {t}
  /\ UNCHANGED <<disk, written, up, draining, blocked, abandoning, attaching>>
  /\ IF stage[t] = "none"
       THEN /\ held' = [held EXCEPT ![t] = NoRecord]
            /\ UNCHANGED <<line, claim, stage, cut, load>>
       ELSE \E f \in Freed(t) : EndChain(t, line, f)

\* A merge that landed, or was only reported on, leaves 'shipped'; one that was
\* refused asks for a human.
MergeSettles(t) ==
  /\ stage[t] = "merging"
  /\ \E status \in {"shipped", "waiting_for_you"} : Persist(t, As(t, status))
  /\ delivering' = delivering \ {t}
  /\ UNCHANGED <<written, up, draining, blocked, abandoning, attaching>>
  /\ \E f \in Freed(t) : EndChain(t, line, f)

-----------------------------------------------------------------------------
\* POST /criteria: read, set, save; no guard on the status.
ValidateCriteria(t) ==
  /\ up
  /\ t \in Criteria
  /\ disk[t].status # "absent"
  /\ Persist(t, [disk[t] EXCEPT !.criteria = TRUE])
  /\ UNCHANGED <<line, written, up, draining, claim, stage, held, cut, load,
                 blocked, abandoning, delivering, attaching>>

\* attach(): guarded on the active turn and the abandon, before its await on
\* the repository's worktree; then the record it read before is written back,
\* unless the worktree could not be had. One attachment at a time here.
AttachBegin(t) ==
  /\ up
  /\ t \in Scratch
  /\ stage[t] \notin Active
  /\ abandoning[t] = "no"
  /\ disk[t].status # "absent"
  /\ attaching[t] = NoRecord
  /\ attaching' = [attaching EXCEPT ![t] = disk[t]]
  /\ UNCHANGED <<persisted, up, draining, claim, stage, held, cut, load, blocked,
                 abandoning, delivering>>

AttachEnd(t) ==
  /\ attaching[t] # NoRecord
  /\ Persist(t, attaching[t]) \/ UNCHANGED disk
  /\ attaching' = [attaching EXCEPT ![t] = NoRecord]
  /\ UNCHANGED <<line, written, up, draining, claim, stage, held, cut, load,
                 blocked, abandoning, delivering>>

-----------------------------------------------------------------------------
\* The rest of the machine: other projects' turns, reviews and checks runs.
OtherTakes(o) ==
  /\ up
  /\ o \notin slots /\ ~Contains(parked, o)
  /\ IF Free THEN slots' = slots \union {o} /\ UNCHANGED parked
             ELSE parked' = Append(parked, o) /\ UNCHANGED slots
  /\ UNCHANGED <<persisted, up, draining, claim, stage, held, cut, blocked,
                 abandoning, delivering, attaching>>

\* A slot given back elsewhere goes to the head of the FIFO or calls this
\* runner's onSlotFreed listener, which pumps.
OtherReleases(o) ==
  /\ o \in slots
  /\ UNCHANGED <<disk, written, up, draining, cut, blocked, abandoning,
                 delivering, attaching>>
  /\ \E f \in Freed(o) :
       /\ parked' = f.parked
       /\ Pump(line, claim, f.slots,
               [t \in Tasks |-> IF stage[t] \in Waits /\ t \in f.slots
                                  THEN Served[stage[t]] ELSE stage[t]],
               held)

-----------------------------------------------------------------------------
(***************************************************************************)
(* shutdown(): nothing is launched any more, every turn and every review   *)
(* is aborted, and whoever waits for a slot is answered without one.       *)
(***************************************************************************)
Shutdown ==
  /\ up /\ ~draining
  /\ draining' = TRUE
  /\ cut' = {t \in Tasks : stage[t] # "none"}
  /\ parked' = Only(parked, Others)
  /\ stage' = [t \in Tasks |-> IF stage[t] \in Waits THEN "checked" ELSE stage[t]]
  /\ UNCHANGED <<persisted, up, claim, held, slots, blocked, abandoning,
                 delivering, attaching>>

\* The process dies: only task.json and queue.json are left.
Dies ==
  /\ up /\ up' = FALSE
  /\ draining' = FALSE
  /\ claim' = None
  /\ stage' = [t \in Tasks |-> "none"]
  /\ held' = [t \in Tasks |-> NoRecord]
  /\ cut' = {}
  /\ slots' = {}
  /\ parked' = <<>>
  /\ blocked' = {}
  /\ abandoning' = [t \in Tasks |-> "no"]
  /\ delivering' = {}
  /\ attaching' = [t \in Tasks |-> NoRecord]

Crash == Dies /\ UNCHANGED persisted

\* Between the record that says 'queued' and the line that remembers it.
CrashWhileScheduling(t) ==
  /\ \/ CanCreate(t) /\ Persist(t, Created)
     \/ CanReply(t) /\ Persist(t, Replied(disk[t]))
     \/ CanResume(t) /\ Persist(t, Resumed(disk[t]))
  /\ UNCHANGED <<line, written>>
  /\ Dies

\* Between the line that lost the task and the record that says why: a launch,
\* a Stop, or an abandon just begun.
CrashWhileLeaving(t) ==
  /\ InLine(t)
  /\ line' = Without(line, t)
  /\ UNCHANGED <<disk, written>>
  /\ Dies

(***************************************************************************)
(* Boot: reconcileTasks settles the records no process runs any more, then *)
(* reconcile keeps the line's queued ids in order and appends the queued   *)
(* ones it did not know; a repo with no queue.json starts nothing. The     *)
(* runner's first pump follows. lost: worktree and branch are both gone.   *)
(***************************************************************************)
Boot ==
  /\ ~up /\ up' = TRUE
  /\ \E lost \in SUBSET {t \in Tasks :
                           disk[t].status \in {"running", "reviewing", "interrupted"}} :
       disk' = [t \in Tasks |-> [disk[t] EXCEPT !.status =
                  CASE t \in lost -> "failed"
                    [] t \notin lost /\ @ \in {"running", "reviewing"} -> "interrupted"
                    [] @ = "queued" /\ ~written -> "interrupted"
                    [] OTHER -> @]]
  /\ UNCHANGED <<written, draining, cut, parked, blocked, abandoning, delivering,
                 attaching>>
  /\ LET queued == {t \in Tasks : disk'[t].status = "queued"}
         kept == Only(line, queued)
         orphans == {t \in queued : ~InLine(t)}
     IN  \E tail \in SetToSeqs(orphans) :
           Pump(SubSeq(kept \o tail, 1, Min({QueueMax, Len(kept \o tail)})),
                claim, slots, stage, held)

-----------------------------------------------------------------------------
Init ==
  /\ disk = [t \in Tasks |-> NoRecord]
  /\ line = <<>>
  /\ written = FALSE
  /\ up = TRUE
  /\ draining = FALSE
  /\ claim = None
  /\ stage = [t \in Tasks |-> "none"]
  /\ held = [t \in Tasks |-> NoRecord]
  /\ cut = {}
  /\ slots = {}
  /\ parked = <<>>
  /\ blocked = {}
  /\ abandoning = [t \in Tasks |-> "no"]
  /\ delivering = {}
  /\ attaching = [t \in Tasks |-> NoRecord]

Gesture(t) ==
  \/ Create(t) \/ CreateWhileDraining(t) \/ Reply(t) \/ Resume(t)
  \/ InterruptTurn(t) \/ InterruptWaiting(t)
  \/ AbandonBegin(t) \/ Ship(t)
  \/ ValidateCriteria(t) \/ AttachBegin(t)

\* What the started work does by itself.
Chain(t) ==
  \/ Materialized(t) \/ MaterializedTooLate(t)
  \/ MaterializeFails(t) \/ MaterializeBlocks(t)
  \/ AgentFails(t) \/ AgentAsks(t) \/ AgentDone(t)
  \/ BeginChecks(t) \/ EndChecks(t) \/ BeginReview(t)
  \/ HookSettles(t) \/ HookRetries(t) \/ HookShips(t)
  \/ ShipLands(t) \/ ShipFails(t) \/ MergeSettles(t)

Removal(t) == AbandonEnd(t) \/ AbandonFails(t)

Next ==
  \/ \E t \in Tasks : Gesture(t)
  \/ \E t \in Tasks : Chain(t)
  \/ \E t \in Tasks : Removal(t)
  \/ \E t \in Tasks : AttachEnd(t)
  \/ \E o \in Others : OtherTakes(o) \/ OtherReleases(o)
  \/ Shutdown
  \/ Crash
  \/ \E t \in Tasks : CrashWhileScheduling(t) \/ CrashWhileLeaving(t)
  \/ Boot

(***************************************************************************)
(* The watchdogs, and the timeouts of the review, the checks, the forge    *)
(* and the worktree lock, bound every await of a chain or of an abandon:   *)
(* one that does not wait for a slot moves on. Nothing is assumed of       *)
(* humans, of other projects, or of a process that is down.                *)
(***************************************************************************)
Fairness == \A t \in Tasks : WF_vars(Chain(t)) /\ WF_vars(Removal(t))

Spec == Init /\ [][Next]_vars /\ Fairness

-----------------------------------------------------------------------------
\* Every variable stays in its type: no task outspends its turns, the line
\* names no task twice, an abort only stands against a chain in flight.
TypeOK ==
  /\ disk \in [Tasks -> Record]
  /\ line \in Seq(Tasks) /\ IsInjective(line) /\ Len(line) <= QueueMax
  /\ written \in BOOLEAN /\ up \in BOOLEAN /\ draining \in BOOLEAN
  /\ claim \in Tasks \union {None}
  /\ stage \in [Tasks -> Stage]
  /\ held \in [Tasks -> Record]
  /\ cut \subseteq {t \in Tasks : stage[t] # "none"}
  /\ slots \subseteq Tasks \union Others
  /\ parked \in Seq(Tasks \union Others) /\ IsInjective(parked)
  /\ blocked \subseteq Tasks
  /\ abandoning \in [Tasks -> {"no", "out", "in_line"}]
  /\ delivering \subseteq Tasks
  /\ attaching \in [Tasks -> Record]

\* The claim covers a task's whole active window, agent and review and ship
\* and merge alike, and nothing else: it never leaks and never lapses, so two
\* tasks of one project are never at work at once.
ClaimIsTheWork == \A t \in Tasks : claim = t <=> stage[t] # "none"

\* No status without a way out: while the process is alive, a record on
\* 'running' has an agent at work and one on 'reviewing' has a hook in flight,
\* after any crash, abort or refusal.
StatusTellsTheStage ==
  up => \A t \in Tasks :
          /\ disk[t].status = "running" <=> stage[t] = "agent"
          /\ disk[t].status = "reviewing" <=>
               stage[t] \in Hook \ {"shipping", "merging"}

\* The records a chain or a ship holds across its awaits are valid by
\* exclusion: nobody else writes task.json meanwhile.
HeldIsCurrent ==
  \A t \in Tasks : held[t] # NoRecord => held[t] = disk[t]

\* A task that says 'queued' is in the line that starts it, unless an abandon
\* took it out: a queue that forgot it is a task nothing would ever start.
NothingStranded ==
  up => \A t \in Tasks :
          disk[t].status = "queued" => InLine(t) \/ abandoning[t] # "no"

\* No turn and no push on a worktree that is being deleted.
NothingUnderAbandon ==
  \A t \in Tasks :
    abandoning[t] # "no" => stage[t] = "none" /\ t \notin delivering

\* The machine's cap holds whatever the handovers, and a chain holds a slot
\* exactly while it runs a heavy process: none while it waits for one, which
\* is what keeps a cap of one from blocking itself.
SlotsFollowTheWork ==
  /\ Cardinality(slots) <= Cap
  /\ \A t \in Tasks :
       /\ t \in slots <=> stage[t] \in Active \union {"checks", "review"}
       /\ Contains(parked, t) <=> stage[t] \in Waits

\* The claim, the statuses and the slots tell the same story of every chain.
RunnerIsSound ==
  TypeOK /\ ClaimIsTheWork /\ StatusTellsTheStage /\ SlotsFollowTheWork

\* Never idle with work at hand: when the project and the machine are both
\* free, no task in line could be started, whatever handler ran last.
NeverIdleWithWork ==
  up /\ ~draining /\ claim = None /\ Free =>
    \A t \in Tasks : InLine(t) /\ disk[t].status = "queued" => t \in blocked

\* Shipped is for good: cleaning up a shipped task, a crash or a late write
\* never makes it anything else; only the merge step hands it to a human.
ShippedStays ==
  [][\A t \in Tasks :
       disk[t].status = "shipped" =>
         disk'[t].status = "shipped" \/ stage[t] = "merging"]_vars

\* No write takes a turn back: a reply, once persisted, stays in the record.
TurnsAreKept == [][\A t \in Tasks : disk'[t].turn >= disk[t].turn]_vars

\* What runs once is what the human asked last: no persisted reply is taken
\* back, and no agent starts on a turn that was answered.
TurnsRunOnce ==
  [][\A t \in Tasks :
       /\ disk'[t].turn >= disk[t].turn
       /\ stage[t] # "agent" /\ stage'[t] = "agent" => ~disk[t].answered]_vars

\* Criteria a human validated stay in the record.
CriteriaAreKept ==
  [][\A t \in Tasks : disk[t].criteria => disk'[t].criteria]_vars

\* A task in line is eventually tried, or leaves the line, as long as the
\* process lives: no turn, review, ship or merge holds the project for ever.
QueuedIsTried ==
  \A t \in Tasks :
    disk[t].status = "queued" /\ InLine(t) ~>
      \/ stage[t] # "none" \/ disk[t].status # "queued" \/ t \in blocked
      \/ abandoning[t] # "no" \/ draining \/ ~up

\* A drain ends: every chain settles by itself, the ones waiting for a slot
\* nobody gives back included.
DrainEnds == draining ~> ~up \/ \A t \in Tasks : stage[t] = "none"

=============================================================================
