# A verification development of codesema's agentic workspace

codesema runs coding agents on tasks: one task, one branch, one worktree; a
turn of the agent, then checks, a review, and possibly a push and a merge. This
directory holds TLA+ modules that model how the workspace schedules that work
and keeps its records, TLC configurations that check them on small instances,
and TLAPS proofs.

Paths below are relative to `src/packages/cli/src/` unless they start with
`docs/` or `packages/`.

    tlc -workers 2 -config TaskRunner.cfg MCTaskRunner   # one run
    tlc -workers 2 -config MCHub.cfg MCHub               # several small parts in one run
    tlapm TaskRunnerProofs.tla                           # one module's proofs

## 1. Inventory

The program is a single Node process per workspace: handlers run to their next
`await` without interruption, everything hard happens between two awaits, or
between two processes that share files. Persisted state is one directory per
task (`task.json`, replaced atomically; `events.jsonl`, append-only) and one
`queue.json` per project.

| Component | State | Operations | Talks to |
| --- | --- | --- | --- |
| load cap (`load-cap.ts`) | counter of slots, FIFO of waiters, listeners | tryAcquire, acquire, release, abort, onSlotFreed | every runner, reviewer and checks run of the machine |
| task queue (`task-queue.ts`) | `queue.json`, `queue.json.corrupt`, the claim `activeByProject` | read and repair, enqueue, remove, removeMany, list, preview, reconcile | runner, boot |
| task runner (`task-runner.ts`) | `active`, `reviews`, `blocked`, `abandoning`, `inflight` | start, reply, resume, interrupt, abandon, attach, pump, launch, finishTurn, failTurn, shutdown | queue, load cap, worktrees, hook |
| task manager (`task-server.ts`) | `shipping`, `merging`, `checking`, `heldTicketedOrder`, contexts | create, guards of the gestures, onTurnDone, ship, runMergeStep, reconcileTasks, holdTicketedTasks, startPending | runner, reviewer, forge, hub |
| end-of-turn review and its gates (`task-review.ts`, `task-criteria-gate.ts`) | the record it was handed, the archived review | reviewTurn, settle, applyCriteriaGate, applyChecksGate | load cap, agent, fix loop, merge |
| fix loop (`task-fix-loop.ts`) | none of its own: rounds counted in the journal | decideFixLoop, applyFixLoopDecision | hook, runner.reply |
| ship and merge (`task-ship.ts`, `task-merge.ts`) | `cycle_step` | shipTask, mergeReadiness, mergeTask | forge |
| store (`tasks-store.ts`, `atomic-write.ts`) | `task.json`, `events.jsonl`, the cursor and hub-ticket caches | saveTask, loadTask, appendTaskEvent, readTaskJournal | all of the above |
| worktree lock, workspace lock (`worktree-lock.ts`, `workspace-lock.ts`) | lock files, `held` | acquire, steal, release | several processes |
| agent and watchdogs (`agent.ts`) | timers, counts of tools out, the process group | run, frames, tick, cut, kill escalation | runner |
| isolation (`task-isolation.ts`) | boxes, home volumes, egress proxies and their memos | bootstrapAgentHome, sweepOrphanedHomeVolumes, ensureEgressProxy, teardownEgressProxy, spawnContainer | runner, container runtime |
| retention (`task-retention.ts`) | conversations on disk | applyTaskRetention | boot, worktree lock |
| hub client and outbox (`task-hub.ts`) | `hub-outbox.jsonl`, pending batches, `hub_ticket_status` | reportHubTransition, postOrQueue, batches, flushHubOutbox | hub server |
| runner daemon (`runner-daemon.ts`, `runner-pidfile.ts`) | `runner.pid` | claimNextTicket, heartbeatTick, stop, status | hub, manager |
| issues (`task-issue.ts`, `task-server.ts`) | `reason` of a task | reconcileIssuesFor | forge, line |
| review engine (`review.ts`, `dual.ts`, `mr-review-runner.ts`) | lanes, decisions, the session | review, assembleDualReview, start | agents, browser |
| event streams and the web store (`serve.ts`, `useTasks.ts`, `useReviewSession.ts`) | frames on their way, the browser's records, journals and live messages | serveTaskEvents, hydrateStore, mergeBySeq, openEvents | browser |
| labels, recap and closing of an issue (`task-labels.ts`, `task-recap-publish.ts`, `task-server.ts`) | `cycleLabelPosed`, the poses in flight, the labels and the comments at the forge | pose, publishMergedOutcome | forge |
| merge requests (`task-ship.ts`, `task-merge.ts`, `forge.ts`) | the request a journal names, `shipped_without_mr` | open, merge, recognise a landed merge | the forge's command line tools |
| runbooks (`runbook-runner.ts`, `runner-daemon.ts`) | `runbook.json`, `runbook.validation.json`, the hub's scan and its lease | scan, validate, renew, answer, verify | hub, micro-VMs |
| micro-VMs (`microvm-snapshot.ts`, `microvm-turn.ts`, `microsandbox-driver.ts`) | boxes, warm snapshots | ensureSnapshot, copy in, copy out, destroy, sweep | turns, verifications, checks |
| cost meter (`cost.ts`, the parsers of `agent.ts`) | the meter of a run, `attempt`, `turn.cost`, the record's total | onFrame, settle, accrueCost | agents, runner |

`PROJECT.json` lists these and the others (configuration, terminal interface...)
with their status.

**What is hard.** Handlers that hold a record across an await and write it back
(the code lists four such places and argues each "by exclusion"); a claim that
must cover the whole of a turn, its review, its push and its merge; slots that
several projects share and that the same chain takes two or three times; a
queue file and a record file written one after the other, with a crash in
between; a Stop, an Abandon, a reply or a drain landing at any await; a write
of `queue.json` that fails and is swallowed; counters that are not kept but
counted over a journal that a crash cuts short; lock files, pidfiles, volumes
and proxies that several processes judge by what they read a moment ago; answers
of a hub, of a forge, of the workspace's own server that overtake each other.

**What makes each component correct.** The load cap: slots neither leak nor
double, no waiter is forgotten or overtaken. The queue and the runner: one task
of a project at work at a time, never idle with runnable work, no task waiting
in a status nothing leads out of, no answered turn run again. The records:
nobody's write undoes another's. The abandon: nothing works in a directory that
is being deleted. The drain: it ends. The
files: what was accepted is found again, in its order, or somebody is told. The
runs: they are over the commit, the runbook and the files they name. The ship and the merge: nothing unapproved leaves unattended, and a step that was
begun is finished once. The hub: it shows what happened and hears of it. The
screen: it ends up with what the server has.

## 2. Modules

| Module | What it is |
| --- | --- |
| `Semaphore` | what the load cap promises: at most `Cap` holders, nobody waits while a slot is free, a slot given back goes to someone waiting |
| `LoadCap`, `LoadCapProofs` | `createLoadCap`, one action per call and callback; its inductive invariant, its safety properties and the refinement of `Semaphore`, proved |
| `TaskRunner`, `TaskRunnerProofs` | one project's runner inside its manager, with the line, the claim, the slots, the hook, ship, merge, abandon, attach, drain, crash and boot; what a filter keeps of a line, the inductive invariants, and the theorems: exclusion, slots, statuses, held records, and that nothing is stranded, idle, unshipped or run twice |
| `Selection`, `SelectionProofs` | what a filter leaves of a list, and the proof of what it is; lemmas on least naturals, ranks and folds that other proofs use |
| `TaskQueue` | `queue.json` torn, deleted or unopenable; its repair, its preview, its boot |
| `Journal` | `events.jsonl`: the cursor, torn lines, other writers, readers that catch up, what the hub is handed |
| `FixLoop` | the automatic rounds, counted over the journal |
| `Tickets` | the tasks bound to an issue: held out of the line, compared, put back |
| `WorktreeLock` | the lock file of the worktrees, several callers in several processes |
| `WorkspaceLock` | the lock file of the machine's one workspace |
| `Delivery` | ship, merge and `cycle_step`, with three callers and crashes at each await |
| `MergeGate` | the gates at the end of a turn, what the fix loop and the second fold make of them, and the four conditions of the merge |
| `TicketState`, `HubTicket` | the ticket's state machine shared with the hub, and a ticket through late, lost and replayed reports |
| `HubOutbox` | transitions and batches that could not be posted, and their replay |
| `Daemon`, `RunnerPidfile` | the claim loop and the heartbeat; the pidfile between daemons and commands |
| `Watchdog`, `AgentRun` | when a silence is a death; how an agent is killed and what its turn becomes |
| `Housekeeping` | worktree, directory and home volume of a task, the sweep, the retention, the abandon |
| `EgressProxy` | the proxies of caged agents, shared by the workspaces of a machine |
| `Board` | one conversation between the server and one browser |
| `DualReview` | two lanes, the judge, and the record assembled from them |
| `ReviewSession` | the review runner, its session, its stream and two browsers |
| `Checks` | the checks runs of one task, by hand and at the end of a turn: the claim, `checks.json`, the boxes and the worktree, the captures, the reader at the merge |
| `Branches` | records, refs and worktrees: how branches are named, forked, worked on, renamed, rebuilt, committed to and deleted |
| `Runbook` | a project's runbook: scanned for the hub or by a person, validated, and read by every verification |
| `Sandboxes` | the micro-VMs of a project: what is copied into them and back, their snapshots, their sweep |
| `ForgeIssue` | the label, the recap and the closing of the forge issue a task is bound to |
| `MergeRequests` | the merge requests of one branch, through command line tools that fail, lose answers or know another forge |
| `TurnCost` | the stream of an agent's frames, the meter that prices them, the attempts at a turn and the total of the record |
| `MCTaskRunner` | an instance for TLC |
| `MCEngine`, `MCHub`, `MCMachine`, `MCTask`, `MCReview`, `MCProgress` | instances of several modules at a time, see 3 |
| `EngineProofs`, `HubProofs`, `MachineProofs`, `TaskProofs`, `ReviewProofs` | the proofs about the modules of `MCEngine`, `MCHub`, `MCMachine`, `MCTask` and `MCReview`: each extends the MC module, so that it is about the formulas the run checks |

### LoadCap

`occupied` and `queue` are the closure's variables; `req` says for each caller
where its call stands (what its promise resolved with, and whether the release
handle was used); `aborted` is the caller's AbortSignal; `woken` records whom
`onSlotFreed` has called. `TryAcquire` is the runners' path, `AcquireNow`,
`AcquireAborted` and `AcquirePark` the three outcomes of `acquire`, `Abort` its
`onAbort`, `Release` the handle, idempotent through `released`. A listener that
was called may ask again: that is all `onSlotFreed` promises.

### TaskRunner

One action is one stretch of synchronous code. Awaits that only cross
microtasks (a `.then` chain, the end of a `finally`) do not separate actions,
since no other handler can run there; awaits on git, on the agent, on a slot,
on the forge or on the worktree lock do.

| Variable | Code |
| --- | --- |
| `disk` | `task.json` of each task: status, number of turns, whether the last turn has a response, whether criteria were validated |
| `line`, `written` | `queue.json`'s entries, and whether the file exists |
| `claim` | `activeByProject` for this project |
| `stage` | how far the promise chain of `launch()` has come: the `active` map is `Active`, the `reviews` map is `Hook` |
| `held` | the `record` object captured by the chain, or by `ship()` |
| `cut` | the AbortController of the task's current phase has fired |
| `slots`, `parked` | the load cap, as `LoadCap` specifies it, this project's tasks and everybody else's |
| `blocked`, `abandoning`, `delivering` | the maps of the same names; `delivering` is `shipping` and `merging` together |
| `attaching` | the `record` object captured by `attach()` |
| `up`, `draining` | the process is alive; `shutdown()` was called |

Every handler that frees something ends with the pump, so `Pump` is an operator
the actions end with and not an action: `NextRunnable` finds the first entry
that is queued and not blocked, `Swept` drops the stale ones in front of it,
and the pump takes the claim and the slot and starts the chain, or leaves
things as they are. `Only` is the filter these removals use; it is told by
ranks and not by the library's recursive `SelectSeq`, so that the prover can
reason about it, and `MCTaskRunner` has TLC compare the two on every short line. `Freed` is a slot coming back: it goes to the head of the FIFO, and,
if nobody is parked, another project's listener may take it before this
project's pump looks. The end-of-turn hook is the stages `hook` (checks not yet
asked), `checks_parked`/`checks`, `checked`, `review_parked`/`review`,
`shipping`, `merging`; each real await of the hook is a boundary between two.
`DropFromQueue`, used by Stop and Abandon, swallows a failed write as
`tryQueueWrite` does. Failing writes are enabled by `QueueFaults`.

Crashes: `Crash` between two handlers; `CrashWhileScheduling` between the
record that says `queued` and the `queue.json` write; `CrashWhileLeaving` between the
`queue.json` write that takes a task out and its record. `Boot` is
`reconcileTasks` followed by the runner's first pump. Orphans, queued
records the line does not know, are appended in any order (the code sorts them
by date, which the model does not keep).

Choices made where the code depends on data: the agent answers or asks or
fails, with or without a response; a worktree materializes, fails with a named
reason, or fails otherwise (`MaterializeBlocks`); the review, together with the
checks, verification and criteria gates, ends on any verdict.

### What each of the other modules keeps of its code

Constants in capitals below are flags or bounds; a flag that is `FALSE` takes a
kind of event out, so that a property which that event breaks can be stated,
and checked, of all the others.

- **TaskQueue.** `file` is absent, good (a list that may carry junk), bad or
  shut; `record` the status in each `task.json`; `evidence` is
  `queue.json.corrupt`. `Reading` is `readQueue` with `reconciledEntries`,
  `Store` a write with its evidence first. `Hiccups` lets the file refuse to be
  opened and, as the finding on `enqueue` shows, breaks `WaitersKept`.
- **Journal.** A line is its seq, its event and its length in units
  (`LineLength`, long enough that fragments never add up to a line; a file that
  comes back to a remembered size by chance is left out). `cursor` is
  `journalCursors`. `Outside` writes and cuts the file, `Opaque` and `Blurs`
  make the journal, or `task.json`, unreadable for a moment.
- **FixLoop.** `written` and `spoilt` are the lines the count reads, `by` who
  asked for the turn. `RoundsBounded` bounds the turns in a row the machine
  asked for. With `Daemon` or `RefusedWrites` the bound only holds up to one
  renewal per fault (`EachFaultRenewsOnce`).
- **Tickets.** `line` is `queue.json`, `held` the order remembered by
  `holdTicketedTasks`; the forge answers unchanged, edited or nothing.
- **WorktreeLock.** A round of `acquireWorktreeLock` is a read, a judgement and a
  claim; the reading again and the unlink of a steal are two steps if `Window`.
  `Grace` lets a holder get older than the pid-reuse grace.
- **WorkspaceLock.** Read, judge, write; boots overlap if `Window`.
- **Delivery.** `pc` and `copy` are the step each of hook, person and boot is in
  and the record it loaded; `cycle_step` is the field; the forge keeps one merge
  request per branch and a merge that landed. `Settles` folds the gates in once:
  their second fold and the marker it leaves are MergeGate's. A merge call that
  fails may have landed, or follow one that had, when the list of merged requests
  fails as well (`ForgeRefuses`).
- **MergeGate.** The reviewer's answers are raw: met, unmet, unclear or nothing,
  with a quote that may not be in the diff. `Late` is a criterion validated after
  the review. `review` is the archive: a review that fails, or a turn that changed
  nothing, archives nothing, and a new turn leaves it where it is; `ended` is what
  came of this turn's review. `mergeReadiness` and its four conditions are pure
  operators, over the archive and whatever turn it is of.
- **HubTicket, HubOutbox.** The hub applies a key once and answers with its own
  status; answers are lost (`MaxFaults`), come whenever they come, since nothing
  awaits a report, and cross the replay if `Overlap`; `Tears` leaves half an outbox
  line. `late` remembers that the last ship, or its merge, landed while earlier
  reports had no answer yet.
- **Daemon.** The two loops as the awaits split them. The hub's leases last
  `LeaseBeats`; a beat that the hub does not hear counts as silence
  (`BeatUnheard`), one whose answer is lost renews the lease and takes the order
  it carried with it (`BeatLost`). A request is answered or times out
  (`HUB_REQUEST_TIMEOUT_MS`, 10 s) well within a lease.
- **RunnerPidfile.** Each read and each unlink a step if `Gap`; `Legacy` is the
  pre-rename `brain.pid`.
- **Watchdog.** What the agent really has out (`out`) beside what its dialect
  lets the watchdog see (`inFlight`). `Losses` lets a tool's end go untold: a
  result that never comes, or the frame of an OpenCode tool that failed, which opens
  a tool and closes none (`ToolErrs`). Time is in units and timers are on time.
- **AgentRun.** The escalation on the host (`SIGTERM`, `SIGKILL`, settle) and in a
  cage (the box by its name, then its client). `Helpers` is a child that holds
  no pipe, `Races` a kill that comes before the box exists.
- **Housekeeping.** Every await of the sweep, of the retention, of an abandon and
  of a first turn is a step; `Edits`, `Gestures`, `Crashes` as their names say. A
  bootstrap that throws ends the task, or interrupts it if its turn was being
  stopped (`TurnFails`); `bared` are the tasks whose seeding was cut short so, or by
  a crash.
- **EgressProxy.** Every command to the runtime is a step; the networks and the
  containers are the machine's, the memos each process's.
- **Board.** The stream is a queue of frames in order; requests are answered in
  any order against it. A reopened stream replays records only. A request that
  fails (`useTasks.ts:560`, `572`) is left out: what it would have brought stays
  away until the next one.
- **DualReview.** A finding is where it is, its kind and its severity; `of` keeps
  what it stands for, for the properties alone.
- **Checks.** `file` is `checks.json`, `job` the run that holds the claim
  `checking`, with the commit it read when it began; `tree` is the content of
  the worktree, as a number of edits, and `box` what a micro-VM's copy of it
  held when the step began. `MicroVm` says that steps run in such a box and
  copy it back; `Persons` lets a person start runs at any time; `Refuses` lets
  the write of 'running' fail; `Ends` names how the process may leave ("drain",
  "crash"). The captures wait in `incoming`.
- **Branches.** `refs` is what each ref points at (its own commits, by task),
  `trees` which branch each worktree has checked out, `rec` the record's own
  idea of both. `Hands` are a person's own git commands, `CrashesAt` the places
  between a git command and the write of the record, `Waits` lets an abandon
  wait for the lock between its decision and its deletion. A work-on branch
  that is not to be had leaves its task in line.
- **Runbook.** A tree is the version of the files a runbook depends on; a run
  passes or not by runbook and version. `runs` holds the command or the daemon's
  scan each process is in, between its reads and its two writes. The hub's lease
  is counted in half leases, the interval of the renewals. `Commands` are those a
  person may run, `Overlaps`, `Moves`, `Losses`, `Sleeps`, `Crashes` what may
  happen besides.
- **Sandboxes.** A tree is a set of files: one all tasks have, one of each task's
  own. `work` is the chain at work and the checks by hand, `meant` what the turns
  of a task have made of its worktree, for the properties. `Warm` starts boxes
  from a snapshot, `Alike` are the tasks with equal lockfiles.
- **ForgeIssue.** `memo` is `cycleLabelPosed`, `chain` the poses that follow one
  another, `pub` how far `publishMergedOutcome` is. `Unnamed` asks both tools,
  each with an issue of that number. `MaxMoves` and `MaxWaiting` bound the
  transitions and the poses in flight.
- **MergeRequests.** A commit is a number, a request has a state and the commits
  it took. `at` and `tool` say which candidate is asked what. `Home` is the
  forge the repository is on, `Landed` lets a call that errs have its effect.
- **TurnCost.** A response has a price in ticks, a model that is in the table or
  not, and a frame that may come twice or without an id; `bill` is what it cost
  indeed. The harness's own table agrees with ours, a model has one row of
  prices, a result frame is the last, and a dead session is replayed at the
  birth of a turn only. `SafeMax` is `Number.MAX_SAFE_INTEGER`.
- **ReviewSession.** One runner, one session, one observed browser and others
  that launch. `left` are the sources of which git would not remove a worktree: the
  next review of a merge request then fails to add its own, that of a branch is
  detached (`TreeRefused`). A request that fails shows its error, with neither record
  nor stream if it followed a done event, until the person retries.

## 3. Runs

A run has a fixed cost, and many of the modules above are small: six MC modules
take several of them at once. Five of these extend the module with a proof
(`MCEngine` extends `WorktreeLock`, `MCHub` `MergeGate`, `MCMachine`
`Housekeeping`, `MCTask` `Checks`, `MCReview` `Delivery`), so that what is
checked of it is the formula the theorem states; the others are instances.
`part`, a variable that no step changes, says which of them moves, and the others rest in an initial state; a property
is a conjunction of the parts' own (`part = "outbox" => Outbox!NothingVanishes`).
The parts share no variable, so the states of such a run are the sum of its
parts' states, not their product, and its verdict is that of each part run by
itself. The same module appears as several parts with different flags. One
`.cfg` per MC module lists the parts it explores in `Parts`; a single part
can be run by naming it alone.

| Run | Instance | Shows |
| --- | --- | --- |
| `load_cap` | 2 turns, 3 reviews or checks, 2 slots | nothing leaks, overtakes or sleeps; `Semaphore` is implemented |
| `runner` | 3 tasks, 1 other process, 1 slot, line of 3, 2 turns, no failing write (455 030 states) | claim, records, line, slots and abandons agree |
| `runner_faults` | 2 tasks, 1 other process, line of 2, failing queue writes, criteria validated at any time (1 286 481) | shipped stays shipped, turns run once and are kept |
| `runner_drains` | 2 tasks, 1 other process that may keep its slot for ever, one attachment, 1 turn (356 306) | a drain ends |
| `engine` | `WorktreeLock` x2, `TaskQueue` x2, `Journal` x3, `FixLoop` x2, `Tickets` x2, `WorkspaceLock` (2.2 million) | the files one workspace works from |
| `hub` | `MergeGate`, `Delivery`, `HubTicket`, `HubOutbox`, `ForgeIssue` x3, `MergeRequests` x2 (6.1 million) | a turn on its way to the forge and to the hub |
| `machine` | `Housekeeping`, `Daemon`, `RunnerPidfile` x2, `Watchdog`, `AgentRun` x2, `EgressProxy` (4.4 million) | what runs beside the manager |
| `task` | `Checks` x3, `Branches` x3, `Runbook` x2, `Sandboxes` x5, `TurnCost` x2 (3.7 million) | a task's worktree, its branch, the verdicts on its commits, what runs them and what they cost |
| `review` | `Delivery`, `Board` x4, `DualReview` x4, `ReviewSession` x2 (4.9 million) | what a person is shown, and takes delivery of |
| `progress` | `Daemon` x2, `TaskRunner`, `Delivery`, `AgentRun`, `HubOutbox`, `Housekeeping`, `Runbook`, with fairness (213 000) | what must get on by itself does |
| `reply_stranded`, `red_ships` | see 4 | violated |

### Properties

Each property is commented where it is defined. Those of the runner:

| Property | Says |
| --- | --- |
| `RunnerIsSound` | types, and: the claim is held by exactly the task whose chain is in flight (`ClaimIsTheWork`); `running` and `reviewing` mean an agent, a hook, at work (`StatusTellsTheStage`); a chain holds a slot exactly while it runs a heavy process (`SlotsFollowTheWork`) |
| `HeldIsCurrent` | a record held across an await is still what is on disk: the "valid by exclusion" comments |
| `NothingStranded` | a `queued` record is in line |
| `NothingUnderAbandon` | no turn, no push on a worktree being removed |
| `NeverIdleWithWork` | when project and machine are free, nothing in line could be started |
| `ShippedStays` | `shipped` is final but for the merge step |
| `TurnsRunOnce` | no write takes a reply back, and an agent is only started on a turn without a response |
| `LineMovesOn` | a task in line is started, or leaves it |
| `DrainEnds` | a drain ends |

Those of the composed runs:

| Property | Says, part by part |
| --- | --- |
| `FilesAreKept`, `DamageIsContained` | who was accepted is in line or was told; the preview is what the creation gets; a repair lets nobody overtake, keeps evidence of the first bad file, and a boot settles it; seqs of a journal ascend, a reader that catches up misses nothing, the hub is handed everything, the cursor is never trusted when wrong, and a broken tail costs itself only |
| `RoundsBounded` | the machine's turns in a row are at most the rounds configured; a lost line renews them once; with the daemon each fault does |
| `HoldLeavesNoTrace`, `CompareKeepsToItself` | the hold changes no rank and strands nobody; no turn starts before its issue is compared; the comparison erases nobody else's reason |
| `LockExcludes` (`WorktreeLock`) | one writer in the worktrees, the file and `held` are its own |
| `OwnersAreReal` | one workspace per machine, and its file names it; `held` outlives no holder, also in the window of a steal |
| `DeliveryIsSound` (`Delivery`) | a held copy stays true; only approved work is pushed unattended; a merge in the journal is not asked again. The first two but for what section 4 shows: a hook that throws, a boot that has other tasks to resume; `hub` checks the last under such a hook |
| `MergeIsEarned` (`MergeGate`) | an automatic merge is of what its archive was shown, never, unless the diff is empty or a person shipped it, on another turn's archive; what the gates let through carries no failed claim; the merge refuses what they let through only for cause |
| `OthersSeeWhatIs` | the hub shows no merge request and no merge that was not; `task.json` holds what the hub answered; the issue carries the label of the last transition, keeps `merged` and the labels of persons, and is closed over its recap only; a ship called complete has its merge request, one called failed has none, and the first merge of a branch is of what was shipped |
| `ReportsAreKept` | every item reached the hub, is kept, or was logged; a repeat has a cause |
| `HelpersAreKnown` | one live task per ticket; the daemon that serves can be found; a proxy that is handed out can be reached, goes with its networks, and none outlives the last workspace |
| `HouseInOrder`, `CleansItsOwnOnly` (`Housekeeping`) | no record dropped over a worktree, no caged turn without credentials but one whose seeding was cut short; homes and uncommitted work go with their owners only |
| `CutsHaveCause` | waiting for a tool is not death, and silence is bounded; a cut owns the outcome, a Stop is no failure, nobody works for a settled turn |
| `ScreenKeepsUp` | the journal on the screen is in order and whole, live messages are of the turn |
| `BranchesHoldTheWork` | an edit of the agent's is not undone by a step of a checks run, and arrives from its micro-VM; a commit stays on some branch; the record, the worktree and the refs name one branch, and one active task has it |
| `ChecksSpeakForTheCommit` (`Checks`) | the gate of a turn, and the merge, are over checks of the commit they judge, but for what kept it from a run of its own |
| `RecordsTellTheTruth` | a 'passed' is of the commit it names and of what was in the worktree; 'running' is a run; the evidence of a turn is that turn's; a cost is what it calls itself, over all the attempts, and the total is of its turns |
| `RunsAreOverWhatTheyName` | a verification runs by a runbook that passed over the same files; the hub hears of a scan from its holder; a box has its commit and nothing of another task's, and lives as long as its run |
| `VerdictHasItsGrounds` | nothing the judge kept is lost; no approval over a critical; consensus is of both |
| `ReviewsEnd` | no worktree left but one git would not remove, no session without its record, no view with neither record, stream nor an error to retry |
| `NothingIsDropped`, `DaemonGoesOn` | a ticket at work is not given away before as many calls are lost as a lease outlives; a decision is put to the manager once at most, and is lost only with an answer or the process; tickets are claimed, decisions arrive |
| `WhatBeganEnds`, `NothingLingers` | a step named in `task.json` is resumed, a killed run settles, a scan of a runbook is answered or given back; the outbox and the orphaned volumes are emptied |

**Bounds.** One slot is the tightest machine: every handover, park and refusal
happens. With three tasks one is at work, one is at the head and one is behind
it, so the sweep, the step over a blocked head and the choice among two waiters
all occur; `QueueMax` equal to the number of tasks is the ordinary case (the
real bound is 1 000) and less is the full queue of `reply_stranded`. Two turns
let a task be replied to and exhaust its budget. The runs with failing writes
leave out the invariants those writes break, of which the first is in 4. The
fault budgets (`MaxFaults`, `MaxCrashes`, `MaxLost`) are one to three: enough
for a fault on top of the recovery from another. Two processes, and three takes
of a lock, are enough for a steal of what a third holder took in between;
three daemons in turn for a pid that is dead, one that serves and one to come.
Three journal items and batches of two fill a batch, start the next and leave
one behind; two turns and two messages tell the messages of a turn from those
of the one before; two findings and one, on two lines and one that is nowhere,
make duplicates, chains of duplicates and a lane left without findings. One criterion
that is judged, one that is mechanical and one that comes late are archived by one
turn and read by another; two reviews, of a merge request and of a branch, let the
second find what the removal of the first left. Of the daemon's orders one answer is
lost and one process ends, the leases outlive more. The
watchdog's budgets keep the code's order (heartbeat, inactivity, tool budget,
ceiling) in a few units. `Outages`, `Refusals`, `Persons`, `Grace`, `Throws`,
`Overlap`, `Tears` and the other flags are set in the parts whose properties
hold with them and shown to break the others in 4. So `FilesAgree`, `LeaseIsHeld`
and `AnswerIsTheHolders` are checked of a runbook without overlaps and sleeps,
and the merge of a request (`MergedForTheFirstTime`, `LinkIsMerged`) of branches
that had none merged before.

**Fairness.** `LoadCap`: a held slot is eventually released, because every
caller releases in a `finally` and its work is bounded by a watchdog or a
timeout. `TaskRunner`: the chain of a task and its abandon keep moving, because
the agent has inactivity and wall-clock watchdogs, and the review, the checks,
the forge calls and the worktree lock have timeouts. A stage that waits for a
slot is not in the fair actions, it moves when the slot comes. Nothing is
assumed of humans, of other projects, of attachments or of a dead process. For this
reason `LineMovesOn` is checked without other projects, which could keep the
machine full for ever, and `DrainEnds` with them. The daemon's loops sleep for a
bounded time and call a hub that answers or times out; a service manager starts
it again. Pushes and merge calls have time limits, and a workspace that died is
started again. Kill timers fire and a signal the kernel accepted is delivered,
but a process that no signal takes stays. The outbox is tried at every tick. A
removal of a volume that fails is tried at each boot, and strong fairness says
that it does not fail for ever. The hub's clock goes on, the daemon renews the
lease of a scan as long as it lives, and the agent and the boxes of a scan have
time limits.

## 4. Disagreements between the code and what it says

Two runs check a statement of the repository and find it violated:

1. `reply_stranded`. `reply()` (and `resume()`) persist `queued` before the
   queue has accepted the task, and leave it there on a 503: no pump sees it,
   until Stop, Abandon or the next boot. `create()` handles that same case.
2. `red_ships`. The checks gate only turns an approval into a refusal, so it says
   nothing over a criteria refusal; the fix loop then ships a block that is made
   of judgments only, and the record becomes `review_ok` over red checks.

### Counterexamples

Others were met the same way, and each is recorded in `PROJECT.json` under
`findings` with the comment or the code it disagrees with. To replay one, give
the module the constants below, `SPECIFICATION Spec` (`FairSpec` for a temporal
property), the property, and `CHECK_DEADLOCK FALSE` outside `TaskRunner`,
`Daemon` and `EgressProxy`. Names in lower case are model values, or strings
where quoted.

| Module and constants | Property | What happens | Code |
| --- | --- | --- | --- |
| `TaskRunner`: Tasks = {t1}, Others = {}, Cap = 1, QueueMax = 1, MaxTurns = 1, QueueFaults = FALSE, Criteria = {t1}, Scratch = {} | `CriteriaAreKept` | Criteria validated while a turn or a review is running are overwritten by the record the chain holds. | `task-criteria.ts:42` |
| `TaskRunner`: Tasks = {t1}, Others = {}, Cap = 1, QueueMax = 1, MaxTurns = 2, QueueFaults = FALSE, Criteria = {}, Scratch = {t1} | `TurnsAreKept` | A reply that lands while a repository is being attached is overwritten by the record attach() read before. | `task-runner.ts:3482` |
| `TaskRunner`: Tasks = {t1, t2}, Others = {o1}, Cap = 1, QueueMax = 2, MaxTurns = 2, QueueFaults = TRUE, Criteria = {}, Scratch = {} | `NothingUnderAbandon` | An abandon whose removal from the line could not be written lets the pump start a turn on the worktree being deleted. | `task-runner.ts:3273` |
| `TaskQueue`: Tasks = {1, 2}, QueueMax = 2, Hiccups = TRUE, MaxFaults = 1 | `WaitersKept` | A gesture answered with a place while queue.json could not be opened is in no line once it can. | `task-queue.ts:849` |
| `Journal`: MaxEvents = 4, MaxFaults = 3, Opaque = TRUE, Blurs = FALSE, Outside = FALSE | `SeqsAscend` | A cold append to a journal that cannot be read for a moment numbers its event 1. | `tasks-store.ts:545` |
| `Journal`: MaxEvents = 4, MaxFaults = 2, Opaque = FALSE, Blurs = TRUE, Outside = FALSE | `HubHearsAll` | One failed read of task.json and the hub is told of no event of the task any more. | `tasks-store.ts:632` |
| `HubOutbox`: MaxItems = 3, BatchMax = 2, MaxFaults = 3, Overlap = TRUE, Tears = FALSE | `NothingVanishes` | An entry appended while the replay awaits the hub is gone with the rewrite. | `task-hub.ts:598` |
| `HubOutbox`: MaxItems = 3, BatchMax = 2, MaxFaults = 3, Overlap = FALSE, Tears = TRUE | `NothingVanishes` | An entry appended after a torn line runs into it, and both are dropped at the replay. | `task-hub.ts:100` |
| `HubTicket`: MaxTurns = 2, MaxFaults = 0 | `RefusedFromTheLastAnswer` | A report is refused before posting because the copy at hand is older than the hub's last answer. | `task-hub.ts:275` |
| `HubTicket`: MaxTurns = 2, MaxFaults = 0 | `KeysTellFactsApart` | Two different failures of one turn carry the same idempotency key. | `task-hub.ts:264` |
| `HubTicket`: MaxTurns = 2, MaxFaults = 1 | `EveryRoundTripIsRemembered` | The answer to a replayed report is not remembered. | `task-hub.ts:580` |
| `HubTicket`: MaxTurns = 2, MaxFaults = 0 | `ShipIsAlone` | The hub's answer to the review is saved into the record a ship holds a copy of. | `task-server.ts:2067` |
| `FixLoop`: MaxRounds = 2, TurnCap = 6, MaxFaults = 2, Daemon = TRUE, RefusedWrites = FALSE | `RoundsBounded` | The daemon's resume of an interrupted round reads as a person's turn and renews the budget. | `runner-daemon.ts:157` |
| `FixLoop`: MaxRounds = 2, TurnCap = 6, MaxFaults = 2, Daemon = FALSE, RefusedWrites = TRUE | `RoundsBounded` | A round the queue refused is retracted, runs at the next boot all the same, and renews the budget. | `task-server.ts:3500` |
| `FixLoop`: MaxRounds = 2, TurnCap = 6, MaxFaults = 1, Daemon = FALSE, RefusedWrites = FALSE | `CostsOneRound` | A marker without a turn, charged to the person's next turn, costs the whole budget they had renewed. | `task-fix-loop.ts:264` |
| `FixLoop`: MaxRounds = 3, TurnCap = 6, MaxFaults = 1, Daemon = FALSE, RefusedWrites = FALSE | `ShortByTheDropped` | One damaged line hides more than one round. | `task-server.ts:3475` |
| `Delivery`: MaxTurns = 2, MaxCrashes = 1, PersonShips = FALSE, ChecksByHand = FALSE, Others = TRUE, Throws = FALSE, BaseMoves = FALSE | `UnattendedShipsAreApproved` | A boot busy with another task resumes a step its owner has overridden, and ships a refused turn. | `task-server.ts:4201` |
| `Delivery`: MaxTurns = 0, MaxCrashes = 1, PersonShips = FALSE, ChecksByHand = FALSE, Others = FALSE, Throws = TRUE, BaseMoves = FALSE | `UnattendedShipsAreApproved` | The hook throws after its ship: the record goes back to 'review_ko' with the marker, and the next boot ships it. | `task-runner.ts:1995` |
| `Delivery`: MaxTurns = 0, MaxCrashes = 0, PersonShips = TRUE, ChecksByHand = FALSE, Others = FALSE, Throws = FALSE, BaseMoves = FALSE | `MarkerIsRun` | A person's ship leaves cycle_step 'merge' and no merge runs. | `task-server.ts:2172` |
| `Delivery`: MaxTurns = 0, MaxCrashes = 0, PersonShips = FALSE, ChecksByHand = TRUE, Others = FALSE, Throws = FALSE, BaseMoves = FALSE | `MarkerIsRun` | A ship refused because checks are running leaves its marker. | `task-server.ts:2041` |
| `Delivery`: MaxTurns = 0, MaxCrashes = 1, PersonShips = FALSE, ChecksByHand = FALSE, Others = FALSE, Throws = FALSE, BaseMoves = FALSE | `NothingOwed` | A crash between the 'merged' line and its publication: nothing ever publishes it. | `task-server.ts:2413` |
| `Delivery`: MaxTurns = 0, MaxCrashes = 1, PersonShips = FALSE, ChecksByHand = FALSE, Others = FALSE, Throws = FALSE, BaseMoves = TRUE | `LandedIsNotRefused` | A crash after the forge merged and a target fetched since: the resumed merge is refused as behind. | `task-merge.ts:955` |
| `Delivery`: MaxTurns = 0, MaxCrashes = 1, PersonShips = FALSE, ChecksByHand = FALSE, Others = FALSE, Throws = FALSE, BaseMoves = FALSE | `LandedIsNotRefused` | A crash after the forge merged, and a list of merged requests that fails at the resumption: the landed merge is parked as refused. | `task-merge.ts:705` |
| `WorkspaceLock`: Pids = {"p1", "p2", "p3"}, MaxBoots = 2, Window = TRUE | `OneWorkspace` | Two boots that overlap both read no lock and both start. | `workspace-lock.ts:66` |
| `WorktreeLock`: MaxTakes = 3, MaxFaults = 0, Window = TRUE, Grace = FALSE | `OneWriter` | A caller that failed to link and then finds no lock steals "nothing", and unlinks whatever another process has linked since: two writers in the worktrees, without any crash. | `worktree-lock.ts:208` |
| `Checks`: MaxTurns = 3, Persons = TRUE, MicroVm = TRUE, Refuses = FALSE, Ends = {"drain"} | `RunningIsARun` | A process that leaves during a run by hand leaves 'running' in `checks.json`, and no boot looks at it. | `task-server.ts:2630` |
| `Checks`: MaxTurns = 3, Persons = FALSE, MicroVm = FALSE, Refuses = TRUE, Ends = {} | `ClaimIsARun` | The write of 'running' throws after the claim was taken: every later run and ship is refused as 'checks already running'. | `task-server.ts:2598` |
| `Checks`: MaxTurns = 3, Persons = TRUE, MicroVm = FALSE, Refuses = FALSE, Ends = {} | `MergedIsChecked` | A run by hand started before a turn keeps the turn from having its own, and its late 'passed' lets the new commit be merged. | `task-merge.ts:267` |
| `Checks`: MaxTurns = 3, Persons = TRUE, MicroVm = FALSE, Refuses = FALSE, Ends = {} | `VerifiedIsTrue` | A run by hand runs in the worktree while a turn writes there, and 'passed' is recorded for the commit before. | `task-server.ts:2594` |
| `Checks`: MaxTurns = 3, Persons = TRUE, MicroVm = TRUE, Refuses = FALSE, Ends = {} | `WorkIsKept` | A run by hand copies its box back over what a turn has written and committed meanwhile: the next commit takes it back. | `task-checks.ts:1378` |
| `Checks`: MaxTurns = 3, Persons = FALSE, MicroVm = TRUE, Refuses = FALSE, Ends = {"crash"} | `ItemsAreOfTheirTurn` | Captures copied out before a crash are recorded under a later turn. | `task-evidence.ts:140` |
| `Branches`: Tasks = {"a", "b"}, MaxCommits = 2, MaxTurns = 2, MaxHands = 2, MaxCrashes = 0, MaxSuffix = 3, Proposals = {"x", "y"}, Hands = {"removes", "deletes"}, Waits = FALSE, CrashesAt = {} | `ActiveBranchLives` | A branch whose worktree a person has removed is deleted while its task is active. | `task-plan.ts:290` |
| `Branches`: Tasks = {"a", "b"}, MaxCommits = 2, MaxTurns = 2, MaxHands = 0, MaxCrashes = 1, MaxSuffix = 3, Proposals = {"x", "y"}, Hands = {}, Waits = FALSE, CrashesAt = {"renamed"} | `OneConversationPerBranch` | A fork takes a name without a ref that an active task still has on its record. | `task-plan.ts:288` |
| `Branches`: Tasks = {"a", "b", "c"}, MaxCommits = 1, MaxTurns = 1, MaxHands = 0, MaxCrashes = 0, MaxSuffix = 2, Proposals = {"x"}, Hands = {}, Waits = FALSE, CrashesAt = {} | `OneConversationPerBranch` | A task waiting to work on a branch that is only on origin has no local ref yet: a fork takes the name. | `task-plan.ts:288` |
| `Branches`: Tasks = {"a", "b"}, MaxCommits = 2, MaxTurns = 2, MaxHands = 0, MaxCrashes = 1, MaxSuffix = 3, Proposals = {"x", "y"}, Hands = {}, Waits = FALSE, CrashesAt = {"renamed"} | `LineageIsNamed` | A crash between `git branch -m` and the record: nothing names the branch that has the commits. | `task-runner.ts:1902` |
| `Branches`: Tasks = {"a", "b"}, MaxCommits = 2, MaxTurns = 2, MaxHands = 2, MaxCrashes = 1, MaxSuffix = 3, Proposals = {"x", "y"}, Hands = {"removes", "checks out"}, Waits = FALSE, CrashesAt = {"made"} | `RecordNamesTheTree` | A crash during the install: the worktree is on a branch the record does not name. | `task-runner.ts:2355` |
| `Branches`: Tasks = {"a"}, MaxCommits = 2, MaxTurns = 2, MaxHands = 1, MaxCrashes = 0, MaxSuffix = 2, Proposals = {"y"}, Hands = {"commits"}, Waits = TRUE, CrashesAt = {} | `WorkIsOnABranch` | What is committed on a branch between the abandon's decision and its deletion goes with the branch. | `task-runner.ts:1102` |
| `MergeGate`: Judged = {"j1"}, Mechanical = {"m1"}, Late = "late" | `OpenIsJudged` | A criterion the reviewer passed over is archived as unclear, so the end of the loop ships it as an open judgment. | `task-criteria-gate.ts:239` |
| `MergeGate`: Judged = {"j1"}, Mechanical = {"m1"}, Late = "late" | `BootShipsTheApproved` | The second fold of the gates takes that approval back and leaves the ship's marker: the next boot ships the review_ko. | `task-server.ts:3403` |
| `MergeGate`: Judged = {"j1"}, Mechanical = {"m1"}, Late = "late" | `ClearedIsNotReblocked` | A task the waiver cleared over a 'request_changes' label is refused by the merge for that very label. | `task-merge.ts:220` |
| `MergeGate`: Judged = {"j1"}, Mechanical = {"m1"}, Late = "late" | `MergedIsOfThisTurn` | A review that fails archives nothing: once a person ships the turn, the automatic merge rests on the approval of a former one. | `task-merge.ts:200` |
| `Daemon`: Tickets = {1, 2}, Unfit = {}, TurnCap = 3, LeaseBeats = 2, MaxRecords = 2, MaxCrashes = 1, MaxLost = 1, MaxOrders = 0, Outages = TRUE, Refusals = FALSE, Persons = FALSE, Orders = {} | `TicketsAreClaimed` | A ticket whose lease ran out during an outage, and whose task then shipped, stands first in the list for ever: nothing behind it is claimed. | `runner-daemon.ts:185` |
| `Daemon`: Tickets = {1, 2}, Unfit = {}, TurnCap = 3, LeaseBeats = 2, MaxRecords = 3, MaxCrashes = 0, MaxLost = 0, MaxOrders = 0, Outages = FALSE, Refusals = TRUE, Persons = FALSE, Orders = {} | `KeptAlive` | A task shipped and then parked by its refused merge hides the next ticket from the heartbeat, and that one's lease runs out under a running turn. | `runner-daemon.ts:466` |
| `Daemon`: Tickets = {1, 2}, Unfit = {}, TurnCap = 1, LeaseBeats = 2, MaxRecords = 3, MaxCrashes = 1, MaxLost = 1, MaxOrders = 0, Outages = FALSE, Refusals = FALSE, Persons = FALSE, Orders = {} | `InterruptedGoesOn` | An interruption between turns, on a task that has spent its turn budget, freezes the loop. | `runner-daemon.ts:150` |
| `Daemon`: Tickets = {1, 2}, Unfit = {}, TurnCap = 3, LeaseBeats = 2, MaxRecords = 2, MaxCrashes = 1, MaxLost = 1, MaxOrders = 1, Outages = FALSE, Refusals = FALSE, Persons = FALSE, Orders = {"ship", "reply", "abandon"} | `OrderKept` | The answer of one heartbeat is lost, and the decision it carried with it. | `task-hub.ts:384` |
| `RunnerPidfile`: Daemons = {d1, d2, d3}, Callers = {c1, c2}, Gap = TRUE, Legacy = TRUE | `Findable` | A command that found the file naming a dead pid unlinks the one a new daemon has written since. | `runner-pidfile.ts:85` |
| `Tickets`: N = 3, Ticketed = {1, 3}, MaxFaults = 0, MaxCrashes = 0, Gestures = TRUE | `NoTurnBeforeCompare` | A resume while the pass runs starts a turn on a ticket that this session has not compared. | `task-runner.ts:3176` |
| `Tickets`: N = 3, Ticketed = {1, 3}, MaxFaults = 1, MaxCrashes = 0, Gestures = FALSE | `NobodyStranded` | A write that fails while the held tasks are put back leaves queued tasks out of the line. | `task-server.ts:3781` |
| `Tickets`: N = 3, Ticketed = {1, 3}, MaxFaults = 0, MaxCrashes = 1, Gestures = FALSE | `RanksKept` | A crash while tasks are held: the next boot puts them behind those that were not. | `task-server.ts:3728` |
| `Watchdog`: Dialects = {"opencode"}, Inactivity = 3, ToolBudget = 5, Heartbeat = 2, Configured = 4, Escalation = 4, MaxTools = 2, Losses = FALSE | `WaitingIsNotDeath` | OpenCode names a tool when it is done: a long one is cut as inactivity. | `agent.ts:920` |
| `Watchdog`: Dialects = {"opencode"}, Inactivity = 3, ToolBudget = 5, Heartbeat = 2, Configured = 4, Escalation = 4, MaxTools = 2, Losses = TRUE | `NothingSticks` | The frame of an OpenCode tool that failed opens a tool and closes none: the inactivity guard stays suspended. | `agent.ts:930` |
| `AgentRun`: Paths = {"cage"}, Helpers = FALSE, Races = TRUE | `NobodyWorksOn` | A Stop during the preparation: the box is killed by name before it exists, and works on after its turn is settled. | `task-isolation.ts:2210` |
| `AgentRun`: Paths = {"host"}, Helpers = TRUE, Races = FALSE | `KillReachesAll` | A helper that ignores SIGTERM and holds no pipe never gets the SIGKILL. | `agent.ts:1535` |
| `Housekeeping`: Tasks = {t1, t2}, Foreign = {f}, Old = {t1}, Keep = 0, Edits = FALSE, Gestures = TRUE, Crashes = FALSE | `ExistenceMeansSeeded` | A stop during the seeding (with `Crashes`, a crash) leaves a bare volume: every later turn runs without credentials. | `task-isolation.ts:1317` |
| `Housekeeping`: Tasks = {t1, t2}, Foreign = {f}, Old = {t1}, Keep = 0, Edits = TRUE, Gestures = FALSE, Crashes = FALSE | `UncommittedKept` | Work that appears after its worktree was found clean is removed by force. | `task-retention.ts:178` |
| `Housekeeping`: Tasks = {t1, t2}, Foreign = {f}, Old = {t1}, Keep = 0, Edits = FALSE, Gestures = TRUE, Crashes = FALSE | `GoneStaysGone` | An abandon that waited for the lock beside the retention pass makes the directory of a purged task again. | `task-runner.ts:3388` |
| `Housekeeping`: Tasks = {t1, t2}, Foreign = {f}, Old = {t1}, Keep = 0, Edits = FALSE, Gestures = TRUE, Crashes = FALSE | `NextStartTakesIt` | A volume whose release failed is still claimed by its ended task: the next start's sweep does not try. | `task-isolation.ts:1673` |
| `EgressProxy`: Procs = {p1}, Lists = {a, b}, JoinFails = TRUE, Slow = FALSE | `ReadyMeansReach` | A proxy that could not join its network is reused as it is by the next turn. | `task-isolation.ts:1089` |
| `EgressProxy`: Procs = {p1, p2}, Lists = {a}, JoinFails = FALSE, Slow = FALSE | `ReadyMeansReach` | Two workspaces with one allowlist: the second is given the proxy before it has joined, or keeps one that its starter has removed. | `task-isolation.ts:1182` |
| `EgressProxy`: Procs = {p1}, Lists = {a, b}, JoinFails = FALSE, Slow = TRUE | `NothingLeftBehind` | The drain's ceiling passes while a proxy is being started: it outlives its workspace. | `task-isolation.ts:1173` |
| `Board`: MaxTurn = 2, MaxSaid = 2, PipeBound = 3, Opened = TRUE, Drops = FALSE, Purges = FALSE | `BoardIsTheServers` | The answer to a request is older than a frame that came before it, and overwrites the record it brought. | `packages/web/src/composables/useTasks.ts:564` |
| `Board`: MaxTurn = 2, MaxSaid = 2, PipeBound = 3, Opened = FALSE, Drops = TRUE, Purges = TRUE | `BoardIsTheServers` | A task purged while the stream was down stays on the board. | `serve.ts:1303` |
| `Board`: MaxTurn = 2, MaxSaid = 2, PipeBound = 3, Opened = TRUE, Drops = TRUE, Purges = FALSE | `BubblesAreOfTheTurn` | After a reconnection the live messages of a former turn stand under the next one. | `packages/web/src/composables/useTasks.ts:570` |
| `DualReview`: Kinds = {"plain", "security"}, Severities = {1}, Wheres = {"first", "no-line"}, MaxFindings = [A \|-> 1, B \|-> 1], Rescores = {}, Faults = FALSE, Overlaps = TRUE | `LostLaneIsSilent` | A lane whose only finding was an exact duplicate counts as one without findings: its verdict stands when the judge rejects the copy. | `dual.ts:400` |
| `DualReview`: Kinds = {"plain", "security"}, Severities = {1}, Wheres = {"first", "no-line"}, MaxFindings = [A \|-> 2, B \|-> 1], Rescores = {}, Faults = FALSE, Overlaps = TRUE | `ConsensusIsBoth` | A consensus finding that the judge merges into another of its lane is no consensus any more. | `dual.ts:343` |
| `ReviewSession`: Sources = {m1, m2}, Branches = {}, MaxRun = 3, MaxStreams = 3, Unknowns = TRUE, Fails = FALSE, Drops = FALSE, Others = FALSE | `StatusIsTheRuns` | A start refused with 404 leaves the former outcome under the name of the unknown source. | `mr-review-runner.ts:302` |
| `ReviewSession`: Sources = {m1, m2}, Branches = {}, MaxRun = 2, MaxStreams = 2, Unknowns = FALSE, Fails = TRUE, Drops = FALSE, Others = FALSE | `OneStream` | A review launched after one that failed opens a second stream; the first is never closed. | `packages/web/src/composables/useReviewSession.ts:139` |
| `ReviewSession`: Sources = {m1, m2}, Branches = {}, MaxRun = 2, MaxStreams = 2, Unknowns = FALSE, Fails = FALSE, Drops = FALSE, Others = FALSE | `PartialsAreOfTheRun` | A new review starts under the partials and decisions of the former one. | `serve.ts:201` |
| `ReviewSession`: Sources = {m1, m2}, Branches = {}, MaxRun = 2, MaxStreams = 2, Unknowns = FALSE, Fails = FALSE, Drops = FALSE, Others = TRUE | `ViewSettles` | Another browser's launch comes between a done event and the request it causes: no record, and no stream. | `packages/web/src/composables/useReviewSession.ts:132` |
| `Runbook`: Runbooks = {1, 2}, MaxAttempts = 2, MaxVersions = 2, Commands = {"validate"}, Overlaps = TRUE, Moves = FALSE, Losses = FALSE, Sleeps = FALSE, Crashes = FALSE | `FilesAgree` | A validation beside a scan: the runbook of one and the validation of the other, and every turn is refused. | `runbook-runner.ts:383` |
| `Runbook`: Runbooks = {1, 2}, MaxAttempts = 2, MaxVersions = 2, Commands = {"scan"}, Overlaps = FALSE, Moves = TRUE, Losses = FALSE, Sleeps = FALSE, Crashes = FALSE | `VerifiedByWhatPassed` | Uncommitted changes are validated under a commit that never passed. | `runbook-runner.ts:422` |
| `Sandboxes`: Tasks = {"a", "b", "c"}, Warm = TRUE, Alike = {"a", "b"}, Persons = FALSE, Deletes = FALSE, CopyFails = FALSE, Sweeps = FALSE, MaxCrashes = 0, MaxTurns = 2 | `TreesAreTheirOwn` | A task whose lockfiles are another's starts with the other's files, and commits them. | `microvm-snapshot.ts:138` |
| `Sandboxes`: Tasks = {"a", "b", "c"}, Warm = TRUE, Alike = {"a", "b"}, Persons = FALSE, Deletes = FALSE, CopyFails = FALSE, Sweeps = FALSE, MaxCrashes = 0, MaxTurns = 2 | `TestedIsTheCommit` | And a verification tests its commit together with them. | `microvm-snapshot.ts:138` |
| `Sandboxes`: Tasks = {"a", "b"}, Warm = FALSE, Alike = {}, Persons = FALSE, Deletes = TRUE, CopyFails = FALSE, Sweeps = FALSE, MaxCrashes = 0, MaxTurns = 2 | `WorkArrives` | A file the agent deleted is still in the worktree after the copy out. | `microsandbox-driver.ts:791` |
| `Sandboxes`: Tasks = {"a", "b"}, Warm = FALSE, Alike = {}, Persons = FALSE, Deletes = FALSE, CopyFails = TRUE, Sweeps = FALSE, MaxCrashes = 0, MaxTurns = 2 | `WorkArrives` | A copy out that fails is swallowed, and the box destroyed with the work. | `microvm-turn.ts:171` |
| `Sandboxes`: Tasks = {"a", "b"}, Warm = TRUE, Alike = {}, Persons = TRUE, Deletes = FALSE, CopyFails = FALSE, Sweeps = FALSE, MaxCrashes = 0, MaxTurns = 2 | `ReadyIsThere` | The build of one task removes the snapshot another was just told is ready. | `microvm-snapshot.ts:161` |
| `Sandboxes`: Tasks = {"a", "b"}, Warm = TRUE, Alike = {}, Persons = FALSE, Deletes = FALSE, CopyFails = FALSE, Sweeps = TRUE, MaxCrashes = 1, MaxTurns = 2 | `RunsKeepTheirBox` | A boot's sweep destroys the boxes of builds and checks, whose names carry no task. | `microsandbox-driver.ts:251` |
| `ForgeIssue`: Tasks = {1}, Unnamed = FALSE, Hands = FALSE, Window = FALSE, Landed = FALSE, Toggles = FALSE, Withheld = FALSE, Stops = TRUE, MaxMoves = 8, MaxWaiting = 3, MaxFaults = 0, MaxCrashes = 0 | `MergedStays` | After a restart the clean-up of a merged task walks its issue back to `reviewing`. | `task-server.ts:1895` |
| `ForgeIssue`: Tasks = {1}, Unnamed = FALSE, Hands = FALSE, Window = FALSE, Landed = FALSE, Toggles = FALSE, Withheld = FALSE, Stops = FALSE, MaxMoves = 8, MaxWaiting = 3, MaxFaults = 1, MaxCrashes = 0 | `MergedIsShown` | A pose of `merged` that fails is never made up. | `task-labels.ts:485` |
| `ForgeIssue`: Tasks = {1}, Unnamed = FALSE, Hands = FALSE, Window = FALSE, Landed = FALSE, Toggles = TRUE, Withheld = FALSE, Stops = FALSE, MaxMoves = 8, MaxWaiting = 3, MaxFaults = 0, MaxCrashes = 0 | `LastTransitionShows` | A label that was not written for want of the opt-in is remembered as posed. | `task-server.ts:1938` |
| `ForgeIssue`: Tasks = {1}, Unnamed = FALSE, Hands = TRUE, Window = TRUE, Landed = FALSE, Toggles = FALSE, Withheld = FALSE, Stops = FALSE, MaxMoves = 8, MaxWaiting = 3, MaxFaults = 0, MaxCrashes = 0 | `ForeignKept` | A label a person puts on between a pose's read and its write is taken off. | `task-labels.ts:368` |
| `ForgeIssue`: Tasks = {1}, Unnamed = FALSE, Hands = FALSE, Window = FALSE, Landed = FALSE, Toggles = FALSE, Withheld = FALSE, Stops = FALSE, MaxMoves = 8, MaxWaiting = 3, MaxFaults = 0, MaxCrashes = 1 | `NoneLost` | A crash between the 'merged' line and the end of the publication loses the recap and the closing. | `task-server.ts:2411` |
| `ForgeIssue`: Tasks = {1, 2}, Unnamed = FALSE, Hands = FALSE, Window = FALSE, Landed = FALSE, Toggles = FALSE, Withheld = FALSE, Stops = FALSE, MaxMoves = 8, MaxWaiting = 3, MaxFaults = 0, MaxCrashes = 0 | `LastTransitionShows` | Two tasks of one issue drive its label against each other. | `task-server.ts:1978` |
| `MergeRequests`: Home = "gh", Installed = {"gh", "glab"}, Tasks = {1, 2}, Auto = TRUE, Hands = {}, MaxFaults = 1, Unnamed = FALSE, Caged = TRUE, Landed = FALSE, MaxCommits = 3, MaxCrashes = 0 | `MergedIsLanded` | A merge that fails is taken for landed, because an earlier request of the branch's name was. | `task-merge.ts:684` |
| `MergeRequests`: Home = "glab", Installed = {"glab"}, Tasks = {1}, Auto = TRUE, Hands = {}, MaxFaults = 0, Unnamed = FALSE, Caged = TRUE, Landed = FALSE, MaxCommits = 3, MaxCrashes = 0 | `FailedHasNone` | A second ship over an existing request is reported as failed, for want of its URL. | `task-server.ts:2216` |
| `MergeRequests`: Home = "gh", Installed = {"gh", "glab"}, Tasks = {1}, Auto = FALSE, Hands = {}, MaxFaults = 1, Unnamed = FALSE, Caged = TRUE, Landed = FALSE, MaxCommits = 3, MaxCrashes = 0 | `ShortCanRetry` | A ship that stopped short of its request cannot be retried, as it says. | `task-server.ts:2148` |
| `MergeRequests`: Home = "gh", Installed = {"gh", "glab"}, Tasks = {1}, Auto = TRUE, Hands = {}, MaxFaults = 1, Unnamed = FALSE, Caged = TRUE, Landed = FALSE, MaxCommits = 3, MaxCrashes = 0 | `AskedOverARequest` | The merge is asked for after a ship without a request. | `task-server.ts:2362` |
| `TurnCost`: Agents = {"opencode"}, Models = {"priced", "unpriced", "partner"}, Repeats = TRUE, Unnamed = FALSE, Crashes = FALSE, SafeMax = 100, MaxTurns = 2, MaxRuns = 1, MaxResponses = 2, MaxPrice = 1 | `HarnessIsWhole` | The finished steps of a run that was cut are recorded as the harness's whole figure. | `agent.ts:957` |
| `TurnCost`: Agents = {"claude"}, Models = {"priced", "unpriced", "partner"}, Repeats = TRUE, Unnamed = FALSE, Crashes = FALSE, SafeMax = 100, MaxTurns = 2, MaxRuns = 2, MaxResponses = 2, MaxPrice = 1 | `HarnessIsWhole` | An attempt cut without a figure and one that ended: the second's figure passes for the turn's. | `cost.ts:914` |
| `TurnCost`: Agents = {"claude"}, Models = {"priced", "unpriced", "partner"}, Repeats = TRUE, Unnamed = FALSE, Crashes = FALSE, SafeMax = 100, MaxTurns = 2, MaxRuns = 2, MaxResponses = 2, MaxPrice = 1 | `TokensAreWhatBurned` | A turn that was resumed has the tokens of its last run. | `task-runner.ts:1953` |
| `TurnCost`: Agents = {"claude"}, Models = {"priced", "unpriced", "partner"}, Repeats = TRUE, Unnamed = TRUE, Crashes = FALSE, SafeMax = 100, MaxTurns = 2, MaxRuns = 1, MaxResponses = 2, MaxPrice = 1 | `BoundIsBelow` | A response whose frames carry no id is charged once per frame. | `cost.ts:708` |

### Also met, not stated as properties

- A task refused at the boot because the line is over its cap is never settled
  in the record.
- In a damaged `queue.json` an older task queued again overtakes younger
  orphans, since orphans are put back by age.
- The preview ranks a creation behind stale entries of a healthy file that the
  creation will find swept.
- A queued `failed` report replayed behind a newer `mr_opened` strands the ticket
  at the hub on `failed`.
- `mergeReadiness` refusals are not reported to the hub.
- A reply that is refused still purges a valid `cycle_step`.
- A `mergeTaskFn` that throws leaves the marker of the merge.
- A waiter whose deadline has passed refuses a lock whose holder is dead.
- A `ship` decided on the dashboard for a task that waits for a human is always
  refused.
- A ship during the boot pass overwrites the reason of an edited issue.
- A boot's `interrupted` is not mirrored to the issue's label.
- A branch whose first merge was not taken as landed stays so after a third
  fault or a refused resume, with one task too.
- The publication of a recap looks for a marker left by an earlier one, which
  none of today's callers reaches.
- A recap states a cost without saying how many of the turns it covers.
- The daemon's scan, the command line and the turns name the snapshots of one
  project by three different ids, so none finds another's.
- After a dead daemon's pid is given to another program, `runner stop` sends it
  a SIGTERM.

## 5. Proofs

A proof module extends the component's module or, for the four that are about
the parts of one run, the MC module of that run. There the constants of a part
whose proofs are general are constants of the MC module, with their values in
its `.cfg`, and its definitions are reached through the instance the run has of
it (`Outbox!`, `Ticket!`, `Workspace!`, `GapPidfile!`, `Dog!`, `Run!`, `Twigs!`).
So a property of the run that is a conjunction over its parts, such as
`ReportsAreKept`, is proved as it is checked, over `HubSpec`: its theorem joins
one invariant per part, and what is said of each part is a theorem of its own.

### The load cap

`LoadCapProofs` holds for any finite set of pollers and waiters and any positive cap. The
invariant is

    IInv == TypeInv, the FIFO has no duplicates and holds exactly the parked
            requests, the counter equals the number of holders, a non-empty
            FIFO means the counter is at the cap, a free slot means every
            refused poller was woken

`SlotsAccounted` alone is not inductive: a release hands its slot to the head
of the FIFO, and only because that head is parked, hence not already a holder,
and there once, does the number of holders stay the same. `FullWhileParked` is
needed for `tryAcquire`, which does not look at the FIFO, to overtake nobody.
The proof takes one step per action; `RemoveAtProperties` says what splicing an
aborted waiter out does to the FIFO, the cardinality lemmas what adding or
removing one holder does to the count. From the invariant: `NoSlotLeaks`,
`WaitingMeansFull`, `AccountsHold`, `WakeupsAreNotLost`, `FirstComeFirstServed`, and
`Refinement`, where a release maps to a give-back or a hand-over, an aborted
waiter to a leave, and refused or repeated calls to stutters.

### The runner

`TaskRunnerProofs` holds for any finite set of tasks and of other processes,
any positive cap, queue bound and turn budget. Its theorems assume

    Faultless == QueueFaults = FALSE /\ Scratch = {}

`queue.json` can be written and no repository is attached: without the first,
`NothingUnderAbandon` is false (section 4), and `ClaimIsTheWork` follows it: the
task launched under its own abandon is set to `failed` by the end of that
abandon while its chain goes on, a second abandon is then accepted, gives the
claim back, and the pump starts another task beside the first. Without the second
`HeldIsCurrent` is false (section 4, `TurnsAreKept`), and `HeldRecordsAreCurrent`
moreover assumes that no criteria are validated (`CriteriaAreKept`). These are conditions on the constants, the ones
`TaskRunner.cfg` meets; crashes, drains, blocked worktrees, aborts and full
queues are all in.

None of the invariants is inductive alone. That a claim is never taken twice
needs the pump to be called only with a claim that tells the truth; that nobody
works under an abandon needs the abandoned task to be out of the line, since the
pump only looks at the line; that it is out of the line needs every gesture to
refuse it; and a record held across an await is only current because its task
has the claim, or is in `delivering`, which the same gestures refuse. `IInv`
therefore says, per task (`TaskOK`), what its status, its chain, its held
record, its place in the line, its slot and its abandon say of each other.

Because every handler ends with the pump, the values the pump is run on are
not those of any state: the records are already the next ones, the line, the
claim and the stages are not. So the invariant is an operator of those values,
`Consistent(d, l, c, st, h, a, de, s, p)`; `Alive` is its instance for a state,
each action's lemma shows that what the action hands to the pump is
`Consistent`, and one lemma, `PumpConsistent`, that the pump keeps it so.
`FreedEffect` does the same for a slot that goes to the head of the FIFO, whose
chain may be another task's. `Resting` says what is known of a task that has
neither chain nor abandon, the situation each gesture starts from.
The first lemmas have what the filter of `Selection` returns: exactly the entries
asked for, no duplicates where there were none, never longer. `NextIInv` puts the actions
together and the theorems read their property off `IInv`.

| Theorem | Property |
| --- | --- |
| `TypesHold` | `TypeOK` |
| `ProjectIsExclusive` | `ClaimIsTheWork` |
| `AbandonIsAlone` | `NothingUnderAbandon` |
| `SlotsAreTheWork` | `SlotsFollowTheWork` |
| `StatusIsTold` | `StatusTellsTheStage` |
| `HeldRecordsAreCurrent` | `HeldIsCurrent`, if no criteria are validated |
| `RunnerHolds` | `RunnerIsSound`, the four of them but the abandon |

### What the runner leaves waiting, and what it settles

`TaskRunnerProofs` has two more invariants, one that goes on from `IInv`
under `Faultless` and one that stands without it, with writes of `queue.json`
that may all fail.

`QInv` says where the tasks that wait are: each queued record is in the line
or under an abandon (`Placed`), and `NeverIdleWithWork`. Neither follows from
`IInv`, and both rest on the pump every handler ends with: that it sweeps away
no entry that is still queued (`PumpKeepsQueued`), and that, when it starts
nothing although nobody has the claim and a slot is free, what is left in line
is blocked (`PumpLeavesNoWork`). A handler that ends without a pump has to leave
a chain, an abandon or a boot behind that will pump (`QuietQ`, `ClaimedQ`).
`NothingIsStranded` moreover assumes `Cardinality(Tasks) <= QueueMax`, under
which an injective line that lacks a task has room for it (`RoomForOneMore`, by
the pigeonhole): `reply_stranded` shows what happens without it, so that the
assumption is needed and not only convenient. `NoWorkIsLeft` does not need it.

`ShippedIsForGood` and `TurnsAreRunOnce` only assume `Scratch = {}`: an
attachment writes back a record it read before its await, whatever was written
meanwhile (section 4, `TurnsAreKept`). With failing writes `IInv` is not an
invariant: a task may be launched under its own abandon, stand on `failed` while
its chain goes on, and share the project with another. `LInv` is what survives.
It says nothing of the exclusion between tasks, only (`Life`) what a task's own
record, chain, delivery and abandon say of each other: a record that waits has no
answer; a chain or a ship holds the turn that is on disk; a chain stands over its
own status or over `failed`, except that a push is over `review_ok` and a merge
over `shipped`, because nobody abandons what is in `delivering`; and a turn being
set up or running is the claim's. The last is what makes it inductive: a pump
that launches finds the claim free, so no other turn is being set up or running,
and `PumpLife` shows that it moves nobody else. `Kept` is what a step may make of
one record, and each action is shown to give `LInv'` and `Kept` of every task at
once (`OneIsGood` where one task moves, `OneAndPump` and `ChainEndsWell` where
the pump follows). Both theorems are read off it, under the conditions
`TaskRunnerFaults.cfg` meets.

| Theorem | Property |
| --- | --- |
| `NothingIsStranded` | `NothingStranded`, with room in the line for every task |
| `NoWorkIsLeft` | `NeverIdleWithWork` |
| `ShippedIsForGood` | `ShippedStays`, failing writes included |
| `TurnsAreRunOnce` | `TurnsRunOnce`, failing writes included |

### The worktree lock

The first part of `EngineProofs` holds for any callers in any processes, any number of
takes and of faults. `NobodyWaitsOnItself` has no hypothesis: `held` names
processes that have a holder, also while others act inside a steal.
`WorktreesHaveOneWriter` assumes

    Careful == Window = FALSE /\ Grace = FALSE

nobody acts between the second reading of a stale file and its unlink, and no
holder is disbelieved for its age. Without the first `OneWriter` is false
(section 4). `OneWriter` is not inductive: `IInv` adds that the file backs the
holder (`Backed`: it is the lock the holder took, with a pid that nobody can
take for dead nor for a leftover of its own), so that no reader judges it stale,
and no link succeeds.

### The workspace lock

`EngineProofs` goes on with the lock of the machine's one workspace, for any
pids, ports and number of boots.

| Theorem | Property | Assumes |
| --- | --- | --- |
| `OwnersAreThere` | `OwnersAreReal`, over `EngineSpec` | `~BootsOverlap` |
| `OneWorkspaceOwns` | `OneWorkspace`, `LockNamesTheWorkspace` | `~BootsOverlap` |

The condition is the one section 4 shows necessary: between its look and its
write a boot decides on what it read. `WorkspaceInv` says that one process at
most is between the two, or between its last look and its removal, and that
nobody owns the machine beside the one that writes; crashes, other programs and
pids that are given out again are all in. `OwnersAreThere` joins it to the
invariant of `NobodyWaitsOnItself`.

### The rounds of the fix loop and the line of tickets

The rest of `EngineProofs` is over `EngineSpec` and has no hypothesis: any rounds
configured, any cap on the turns, any number of tasks, whichever of them have an
issue, any writes that fail and any crashes (the constants `FixRounds` to
`LineCrashes` of `MCEngine`, which the run sets to small numbers).

| Theorem | Property |
| --- | --- |
| `RoundsRunOut` | `RoundsBounded` |
| `HoldIsUndone` | `HoldLeavesNoTrace` |
| `ComparisonStaysInItsLane` | `CompareKeepsToItself` |

The loop keeps no counter: it counts the rounds anew from the lines of the journal
that parse (`autoFixRoundsUsed`), and a line that does not parse takes from the
count whatever it stood for. That the fold over the lines is the fold over the
lines before and then the last (`TallyGrows`) is proved once, and every step that
writes a line is then arithmetic. `Within` is the strengthening: the turns started
are at most what has been allowed for what was lost, plus what the journal still
tells up to the budget (`Upto`), and this has to hold of a round announced, queued
or about to start as well (`Ahead`). Without the daemon what is allowed is one
budget per lost line (`Allowed`), and `Covered` compares the turns with the journal
as it was written, of which the property speaks. With the daemon and refused writes
a fault of any kind allows a budget and one turn more (`Forgiven`); a round that was
cut, or that a refused write left out of the line, has that one turn to its credit
(`Credited`), or its resumption would be one too many.

Of the line of tickets, `RanksKept` compares it with the order it would have without
the hold (`before`). `LineInv` says where that order is to be found at each stage:
until the pass lands it is the line itself, or is kept by the list that is held; then
by the line. What this needs of lists is in `SelectionProofs`: a filter keeps the
order of what it keeps (`OnlyKeepsOrder`). With a write that fails or a crash the
order is not kept (section 4), but what has not been compared is out of the
line the runner looks at, or somebody was told (`FaultyLineInv`).

### The gates and the merge

The first part of `HubProofs` holds for any criteria and needs no hypothesis. `MergedIsProven`
is about a merge several steps after the review it rests on, with the record
let through meanwhile by the gates, by the waiver of open judgments, by the end
of the loop, by a person or by a boot; and several turns after it, since a review
that fails archives nothing and a new turn keeps the archive there is. `IInv` says
what the archive is at every
stage (`Archived`: the words that came back, grounded, of
criteria that only grow by the late one), what each way of being let through
has established of it (`LetThrough`), and that a branch at the forge has passed
the four conditions over the consent and the ancestry that were read
(`Cleared`). `RefusedForCause` then takes apart which condition the first
blocker can be. `StaleNeedsAPerson` says when the archive a merge rests on may be of
another turn than the one it lands (section 4 has what a person's ship makes of it).
`AutomaticMergeIsEarned` is `MergeIsEarned`, all four.

### The hub's side

`HubProofs` goes on with the outbox and the ticket, for any number of items,
entries, turns and faults.

| Theorem | Property | Assumes |
| --- | --- | --- |
| `ReportsHold` | `ReportsAreKept`, over `HubSpec` | `~Overlap`, `~Tears` |
| `NothingIsSwallowed` | `NothingVanishes` | `~Overlap`, `~Tears` |
| `RepeatsAreExplained` | `RepeatsHaveACause` | nothing |
| `TicketTellsTheTruth` | `StateHasItsProof`, `KnownWasAnswered` | nothing |
| `MergeGetsThere` | `MergeReachesTheHub` | nothing |

Section 4 shows what an answer that comes during a replay (`Overlap`) and half a
line (`Tears`) do to the file, and what a late answer does to the ticket. An item
of the outbox is in one place at a time (`OnePlace`): in the batch, in one entry
that is being posted, or in one entry of the file, of which a replay has some
still to do and some to keep. This is what makes a repeat explicable: an item
that may still be sent has not been received, or nobody can know (`SentOnce`).
`NoneDropped` adds that what a replay has read from the file is still to be sent
or settled, which is false as soon as something else is appended meanwhile.
`SelectionIsShared` lets the outbox use the lemmas about the runner's filter. Of
a ticket, `TicketInv` says that each report on its way stands for something that
happened (`SoundReport`): the hub's state is then a consequence, in whatever
order the reports arrive. The runner fires its reports without awaiting them, so that
`MergeReachesTheHub` says of a merge that does not end with the ticket done what came
before: the ship or the merge landed over reports without an answer (`late`), or the
merge was refused over an older word. `KeysInv` says that the reports of a ship and of
its merge have keys no earlier report carries, `MergeInv` follows the one that is out
(`Alone`) from its post to its answer: it is applied, to the state the runner judged
it against (`GetsThere`).

### The delivery

The first part of `ReviewProofs` holds for any number of turns and crashes, whoever
asks for ships and starts checks.

| Theorem | Property | Assumes |
| --- | --- | --- |
| `MergesAreFinal` | `MergedIsFinal` | nothing |
| `DeliveryTyped` | `TypeOK` | nothing |
| `StepsOwn` | `StepsOwnTheRecord` | `~Throws` |
| `DeliveryHolds` | `DeliveryIsSound` | nothing: its parts name `Throws` and `Others` themselves |

Section 4 shows what a hook that throws, a boot that has other tasks to resume
first and a target that moves do to those that exclude them. The invariant has
three layers. `OneAtATime`: the sets `shipping` and `merging` let one caller
through; with the look at the journal before each call it makes a merge final,
since the line is only written by the one caller that is merging. `Owned`: a
push holds a finished review, a merge a shipped record, and the record on disk
is that one. It rests on the gestures' guards, and on the statuses: a turn
settles only out of `turn`, which no step holds, and a push and a merge never
hold the same status. `Approved`: a marker tells the truth (`MarkerTells`: `ship` stands on an
approved review, `merge` on a shipped task), so that what the boot resumes is
what was approved; nobody writes between the boot's look and its step because
requests give way to it, and this is where `~Others` is needed. That
a merge which landed is recognised when its step resumes is not so, neither when the
target moves nor when the forge's list fails (section 4).

### The boards and the reviews

`ReviewProofs` goes on with the browser, for any number of turns, messages, frames,
requests, reviews and streams.

| Theorem | Property | Assumes |
| --- | --- | --- |
| `ScreenIsTrue` | `ScreenKeepsUp`, over `ReviewSpec` | nothing |
| `ReviewsSettle` | `ReviewsEnd`, over `ReviewSpec` | nothing |

Each of the four boards of the run is allowed a part of what may happen (a cut, a
purge, an open conversation), so that what is common to them is proved once:
`AnyBoard` may do everything, and each board takes steps of it (`BoardIsAny`,
`CutBoardIsAny` and so on). `BoardInv` is what it keeps: the journal on the screen
ascends, and neither it nor a frame nor an answer is ahead of the server's. That a
merge keeps the order (`MergeKeepsOrder`: the browser looks for the place of an event
by its seq, replaces what has the same and inserts what has not) is the heart of it,
and `HydrateKeepsOrder` carries it through the fold over an answer's journal. A fold
is no induction over data that is out of the prover's reach, because the length of a
list is a natural number: `FoldExists` shows that the recursion which the fold
chooses has a solution, and `Climb` is the induction up to a bound. `OpenInv` says
of each event that the browser lacks that it is on its way, in a frame, in an answer
or in a request (`Coming`); this holds with the stream up only, and a stream that
comes up asks again. `LiveInv` says of a live message that its turn has not spoken,
or that what takes it away is behind it in the stream; it needs a stream that stays
up, which is why `BubblesAreOfTheTurn` is claimed of that board alone. `ClosedInv`
says that the record on the server is the last one in the stream, or on the screen.

Likewise `AnySession` is what both review sessions take steps of. `SessionFollows`
relates the session to the run: it has the run's record, or none. `ReviewsSettle`
needs for a browser that is alone that it waits for something that will come
(`ViewHolds`: a record on its way, a question whose answer opens a stream, or a
stream that will tell of the end), and that a done which is left over from an
earlier run closes its stream only while it waits for such an answer
(`OldDoneIsHarmless`); where a request fails it shows the error and the button that asks
again. `TreeLeft` says that a worktree which outlives its review is one that git would
not remove. Section 4 has what another browser's launch makes of it.

### The housekeeping

The first part of `MachineProofs` holds for any tasks, users, kept records and old volumes.

| Theorem | Property | Assumes |
| --- | --- | --- |
| `NoWorktreeIsOrphaned` | `NoOrphanTree` | nothing |
| `HomesAreKept` | `KeepsHomesOfOthers` | nothing |
| `HouseIsInOrder` | `HouseInOrder`, with `TurnsAreSeeded` | nothing |
| `OnlyItsOwnIsCleaned` | `CleansItsOwnOnly`, with `KeepsUncommitted` | `Edits = FALSE` |

The condition is the one section 4 shows necessary. The passes of a boot
work on snapshots, so the invariant has to say what a snapshot still knows when
it is used: a task past the retention's window, or the one it is at, has ended
and is claimed in the sweep's snapshot of the same boot, and has no worktree
from the removal on (`Pass`); and what each record stands for (`Stands`: its
directory, its turn, its abandon, its volume, and that a bootstrapped volume is
claimed or has a directory, which is what keeps the sweep off it). `Seeded`
adds that a live volume without credentials is being seeded, or that its seeding was
cut short by a stop or a crash (section 4 has what comes of it), `WeighedClean`
that a worktree found clean is clean until it is removed.

### The runner's pidfile, the watchdog and the agent's processes

The rest of `MachineProofs` holds for any daemons and callers, any budgets,
ceiling and number of tools, any dialects and paths.

| Theorem | Property | Assumes |
| --- | --- | --- |
| `StoppedIsGone` | `StoppedIsForgotten` | nothing |
| `ServingIsFound` | `Findable` | `~PidfileGap` |
| `CutsAreJust` | `CutsHaveCause`, over `MachineSpec` | `PolledInTime` |
| `CutsAreEarned` | the watchdog's part of it | `PolledInTime` |
| `CauseDecides` | `CutOwnsTheOutcome`, `StopIsNeverAFailure` | nothing |
| `SettledIsOver` | `NobodyWorksOn` | a box that is there before it is killed |

    PolledInTime == Dog!TickPeriod <= Escalation

The guard looks at its clocks at most every 30 s (`agent.ts:1154-1161`) and the
escalation of a kill takes 75 s (`agent.ts:1298-1333`), so the code meets the
condition with room to spare; it is there because both are constants of the
model. `~PidfileGap` means that nobody runs between a look at the pidfile and
what follows it (section 4). `PidInv` is what stands without it: a pid that was
written is of a daemon that has begun, and a removal is of one that is dead for
good. `DogInv` relates the clocks: when the guard last looked (`Polled`), what
it has been told of the tools in flight (`Told`), and by how much it can be late.
A tool whose end was not told, OpenCode's failed ones among them, holds a window open
that nothing but the tool budget ends: `BlindSilenceIsShort` is claimed of the time
when there is none (section 4), `SilenceIsBounded` of all.
`RunInv` is about causes: a signal belongs to the step of the escalation that is
under way, a cut that began is what the run settles with, and a stop comes before
any failure. `BoxInTime` is what a box that is late would break.

### The checks

The first part of `TaskProofs` holds for any number of turns, with or without micro-VMs, and
however the process ends.

| Theorem | Property | Assumes |
| --- | --- | --- |
| `JudgedByItsChecks` | `ChecksSpeakForTheCommit` | nothing |
| `ChecksTyped` | `TypeOK` | nothing |
| `CommitsAreKept` | `WorkIsKept` | `~(Persons /\ MicroVm)` |
| `PassedIsOfTheCommit` | `VerifiedIsTrue` | `~Persons` |
| `RunningIsReal` | `RunningIsARun` | `~Persons`, `~Refuses`, no kill |
| `EvidenceIsItsTurns` | `ItemsAreOfTheirTurn` | no kill |

Section 4 shows what `Persons` makes of the three that exclude it and a kill of
the last; a kill, or a last snapshot that is refused, leaves the mark of a run
that is no more. The merge reads `checks.json` long after the gate did, and
between the two a person's run may have taken the file, and a shutdown may have
put back what it said before. `Settled` is what survives this: once the last
commit has had a run of its own, a `passed` in the file, or in what a waiting
run would put back, is of that commit, and a run at work is over it, since
nothing commits outside a turn. `HookAwaits` ties the hook to the run it waits
for, so that the end of a run that is somebody else's moves no hook. `TreeIsKept`,
`RunIsPure`, `MarkIsARun` and `EvidenceIsFresh` strengthen the conditional ones.

### The branches

The second part of `TaskProofs` holds, over the instance `Twigs` of `MCTask`, for any tasks, any slugs, and any number of commits, turns
and gestures.

| Theorem | Property | Assumes |
| --- | --- | --- |
| `OneCheckoutPerBranch` | `TreesOK`, stated in `TaskProofs` | nothing |
| `NoWorkIsLost` | `WorkIsOnABranch` | `~BranchWaits` |
| `TreesAreNamed` | `RecordNamesTheTree` | no crash at "made" nor at "renamed" |

The first is git's own rule, kept by a code that checks the uses of a branch
before it adopts one (`Adoptable`), takes only names without a ref for its forks
(`Free`), and lets every checkout follow a rename; a branch that is checked out is
never deleted. `NoWorkIsLost` is about the one place where the code deletes a
branch: an abandon takes a fork's branch only when it has nothing, and the
invariant `NothingGoes` says that it still has nothing when it goes. It needs the
records to be sound (`RecordOK`: a fork's base is the trunk). When it waits it is
false (section 4). `Named` strengthens `RecordNamesTheTree` by the record that a
turn holds, which is ahead of the one on disk between the worktree and the end of
the install, and between the new name and its record: these are the two stages
the condition names, and section 4 has what a crash there makes of the property.
The other conjuncts of `BranchesHoldTheWork` stay with TLC.

### The runbook and the boxes

The third part of `TaskProofs` is over `TaskSpec`, for any tasks, any runbooks, any
number of versions, attempts, turns and crashes (`Tasks` and the constants `Books` to
`BoxCrashes` of `MCTask`). It has no hypothesis: what each part excludes (section 4)
is in its instance, as in the run.

| Theorem | Property |
| --- | --- |
| `RunsNameTheirGrounds` | `RunsAreOverWhatTheyName` |
| `ScansAreAnswered` | `FilesAgree`, `LeaseIsHeld`, `AnswerIsTheHolders` of `Book` |
| `OnlyWhatPassedVerifies` | `VerifiedByWhatPassed` of `SharedBook` |

The two runbooks are cases of one with all of their freedoms (`AnyBook`), over which
`BookInv` holds: a run that destroys its box or has written has a runbook that passed
over the files of its commit (`BookRunOK`), so a validation has its grounds
(`Grounded`) whoever wrote last, and a verification compares the files with those of
that commit. `SerialInv` adds what only holds one run at a time: between its two
writes, and after a process died there (`cut`), the runbook is not yet the one that
the validation is of, and else it is (`FilesFollow`); a daemon that has not been told
otherwise, and whose renewal is not due, holds the lease (`LeaseOK`).

The five kinds of boxes differ in which steps they have and in what the lockfiles
are (`PrintOf`); `BoxesMove` has them all, and each is shown to take its steps. A
tree is its task's because a snapshot that belongs to one task was made of that
task's worktree, which loses nothing (`ApartFiles`), and one that is shared was made
before any task had written: until it is there no run passes the build, and all
there is is the common file (`SharedFiles`). A box is kept because its name is its
actor's, and the chain's carries a task with a record, which a sweep spares
(`BoxRunsOK`); the boxes of builds and checks carry none, and are kept where nobody
sweeps. That a verification tests the commit needs that nobody else copies to the
worktree (`CommitFiles`).

### Only model-checked

`ParkedAnswered`, `LineMovesOn`, `DrainEnds` and the properties of `progress`
rest on fairness and `ENABLED`, outside the prover's reach, and
`OthersSeeWhatIs` and `HelpersAreKnown` are of several modules at a time, of which
the proofs above have one (`TicketTellsTheTruth`, `StoppedIsGone`). So are
`RecordsTellTheTruth`, of which they have the checks' part, and
`BranchesHoldTheWork`. Left to TLC altogether are `FilesAreKept` and
`DamageIsContained` (the repair of `queue.json`, the cursor and the tail of the
journal), `VerdictHasItsGrounds`, `NothingIsDropped`, and the runner with an attachment.

## 6. Not modelled

Inside the modelled parts: the `activity` fields, `updated_at`, prompts
and transcripts; the replay of a dead agent session, which happens inside one
turn; write errors of `task.json` (the store
throws and the chain's own catch applies); the secret scan and the texts of a
push; the merge strategies of the forge. The drain's hard ceiling is not an
action of `TaskRunner`: a process that leaves before its chains have settled is
`Crash` (in `EgressProxy` it is `Slow`). Several attachments of one conversation
at the same time are taken one by one. A scratch conversation is given the same
hook and the same abandon as the others, which only adds behaviours.

The hub, the forge, the container runtime, git and the operating system are
external: they are modelled by the answers the code distinguishes.

A cost is in ticks of one row of prices per model: the windows of a price table,
and a table that is not the harness's own, are left out. Of a runbook, of a
snapshot and of a recap the models keep which one it is and what it covers.

Not modelled at all: argument lists and file layouts of containers and VMs, the
text of runbooks and recaps, proof collection, prompt construction, parsing of
forge and agent output, configuration, keys and sealed secrets, HTTP routing,
the terminal interface and the visual components of the web UI. `PROJECT.json`
gives each its reason: pure functions over text, or one sequence of calls
without a protocol of its own.

## 7. Plan

1. Proofs: the verdict ladder of `DualReview`.
2. An abstract `Project` specification (tasks waiting, one at work, done) that
   `TaskRunner` implements, checked with a refinement mapping and proved.
