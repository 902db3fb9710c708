----------------------------- MODULE TaskProofs -----------------------------
(***************************************************************************)
(* What a task works with.  What the gates and the merge read of the checks *)
(* is of the commit they judge; no commit is lost, a branch is checked out  *)
(* once, and a record names what its worktree has; and what runs a turn and *)
(* judges it, a runbook and a box, is what it was proved to be.             *)
(***************************************************************************)
EXTENDS MCTask, SequenceTheorems, TLAPS

-----------------------------------------------------------------------------
(* The checks of a turn (Checks).                                          *)
(*                                                                         *)
(* The invariant ties the hook to the run it awaits (HookAwaits) and says  *)
(* what the file, and the file a waiting run may put back, hold once the   *)
(* last commit has had its run (Settled).                                  *)

Turned == 1 .. MaxTurns
Trees == SUBSET Turned
FileType == [status : Finals \union {"none", "running"}, head : Nat, pure : BOOLEAN]
JobType == [by : {"nobody", "hook", "person"}, stage : {"none", "waits", "ready", "step", "leaked"},
            head : Nat, before : FileType, box : Trees, pure : BOOLEAN]

AtWork == job.stage \in {"waits", "ready", "step"}

BranchTyped ==
  /\ turn \in Nat /\ turn <= MaxTurns /\ told \in Nat /\ told <= turn
  /\ commits \in Seq(Trees) /\ head >= 1 /\ tree \in Trees

RunTyped ==
  /\ file \in FileType /\ file.head <= head
  /\ job \in JobType /\ job.head <= head /\ job.before.head <= head
  /\ job.stage = "none" => job = NoJob

HookTyped ==
  /\ stage \in {"idle", "agent", "turned", "checks", "verify", "captured", "review",
                "approved", "shipped", "over"}
  /\ stage \in {"agent", "turned", "checks", "verify", "captured", "review"} => turn >= 1
  /\ gate \in [status : Finals \union {"none"}, head : Nat] /\ gate.head <= head
  /\ incoming \in Trees /\ items \subseteq [turn : Turned, of : Turned]
  /\ up \in BOOLEAN /\ shut \in BOOLEAN /\ excuse \in {"none", "hand", "cut", "write"}

Typed == BranchTyped /\ RunTyped /\ HookTyped

\* The hook is at its checks exactly while its run is at work, and that run is
\* over the turn's commit; while the agent works nothing is committed.
HookAwaits ==
  /\ stage = "checks" <=> job.by = "hook" /\ AtWork
  /\ stage = "checks" => job.head = head /\ CommittedNow
  /\ stage = "agent" => told < turn

\* What is passed is of the last commit.
Fresh(f) == f.status = "passed" => f.head = head

\* Once the last commit has had its run, nothing brings back another's result.
Settled ==
  excuse = "none" /\ ~(CommittedNow /\ stage \in {"turned", "checks"}) =>
    /\ Fresh(file)
    /\ AtWork => job.head = head /\ Fresh(job.before)

\* Nothing is merged before the task is over.
MergedAtTheEnd == merged # NotMerged => stage = "over"

IInv ==
  /\ Typed /\ HookAwaits /\ Settled /\ MergedAtTheEnd
  /\ GateIsOfTheCommit /\ MergeIsOverItsChecks

-----------------------------------------------------------------------------
(***************************************************************************)
(* What each step does to the run.                                         *)
(***************************************************************************)

\* A branch that grows by a commit.
LEMMA Committed ==
  ASSUME BranchTyped, commits' = Append(commits, tree)
  PROVE  /\ commits' \in Seq(Trees) /\ head' = head + 1 /\ commits'[head'] = tree
         /\ \A i \in 1 .. head : commits'[i] = commits[i]
BY DEF BranchTyped, head

\* Nobody is at work.
LEMMA NobodyAtWork == NoJob \in JobType /\ ~(NoJob.stage \in {"waits", "ready", "step"})
BY DEF NoJob, NoFile, JobType, FileType, Trees, Turned

\* A run starts over the branch's last commit, and keeps what the file said.
LEMMA StartsRun ==
  ASSUME RunTyped, NEW who \in {"hook", "person"}, Starts(who), BranchTyped
  PROVE  /\ job = NoJob /\ job' \in JobType /\ file' \in FileType
         /\ job'.by = who /\ job'.stage = "waits" /\ job'.head = head /\ job'.before = file
         /\ job'.pure
         /\ file'.status = "running" /\ file'.head = head
BY DEF RunTyped, BranchTyped, Starts, Idle, JobType, FileType, Trees, Turned, head

\* A run that cannot write its mark leaks the claim.
LEMMA StartsNothing ==
  ASSUME RunTyped, NEW who \in {"hook", "person"}, StartsUnwritten(who)
  PROVE  /\ job = NoJob /\ job' \in JobType /\ file' = file
         /\ job'.stage = "leaked" /\ job'.head = 0 /\ job'.before.head = 0
BY NobodyAtWork DEF RunTyped, StartsUnwritten, Idle, NoJob, NoFile, JobType

\* A run that goes on stays the run it is.
LEMMA GoesOn ==
  ASSUME RunTyped, BranchTyped, Granted \/ StepStarts \/ StepEnds
  PROVE  /\ job' \in JobType /\ AtWork
         /\ job'.stage \in {"ready", "step"}
         /\ job'.by = job.by /\ job'.head = job.head /\ job'.before = job.before
<1>1. CASE Granted
  BY <1>1 DEF RunTyped, Granted, JobType, AtWork
<1>2. CASE StepStarts
  <2>1. (job.pure /\ tree = commits[job.head]) \in BOOLEAN
    OBVIOUS
  <2> DEFINE pure == job.pure /\ tree = commits[job.head]
  <2>2. job' = [job EXCEPT !.stage = "step", !.box = tree, !.pure = pure] /\ pure \in BOOLEAN
    BY <1>2, <2>1 DEF StepStarts
  <2> HIDE DEF pure
  <2> QED
    BY <1>2, <2>2 DEF RunTyped, BranchTyped, StepStarts, JobType, AtWork
<1>3. CASE StepEnds
  BY <1>3 DEF RunTyped, StepEnds, JobType, AtWork, Trees
<1> QED
  BY <1>1, <1>2, <1>3

\* A run that ends says which commit it was over, or puts back what the file
\* said, or says nothing.
LEMMA RunIsOver ==
  ASSUME RunTyped, NEW result,
         \/ result \in Finals /\ Ended(result)
         \/ result = "none" /\ (EndedUnwritten \/ WaitAbandoned)
  PROVE  /\ AtWork /\ job' = NoJob /\ file' \in FileType
         /\ \/ /\ result \in Finals
               /\ file'.status = result /\ file'.head = job.head /\ file'.pure = job.pure
            \/ result \notin Finals /\ (file' = file \/ file' = job.before)
BY DEF RunTyped, Ended, EndedUnwritten, WaitAbandoned, AtWork, JobType, FileType, Finals

\* What the agent writes during a step on the host.
LEMMA AgentTouches ==
  ASSUME RunTyped, job' = IF job.stage = "step"
      /\ ~MicroVm THEN [job EXCEPT !.pure = FALSE] ELSE job
  PROVE  /\ job' \in JobType /\ job'.stage = job.stage /\ job'.by = job.by
         /\ job'.head = job.head /\ job'.before = job.before
         /\ job'.stage = "none" => job' = NoJob
BY DEF RunTyped, JobType

\* What the gate reads is final, or nothing.
LEMMA TerminalTyped ==
  ASSUME NEW f \in FileType
  PROVE  /\ Terminal(f) \in [status : Finals \union {"none"}, head : Nat]
         /\ Terminal(f).head <= f.head
         /\ f.status \in Finals => Terminal(f).head = f.head
BY DEF FileType, Terminal, NoGate, Finals

-----------------------------------------------------------------------------
(***************************************************************************)
(* The invariant, group by group of the steps.                             *)
(***************************************************************************)

LEMMA InitHolds == ASSUME ParametersAreSound, Init PROVE IInv
<1>1. commits \in Seq(Trees) /\ head = 1 /\ tree \in Trees
  BY DEF Init, head, Trees
<1>2. RunTyped
  BY <1>1, NobodyAtWork DEF Init, RunTyped, NoFile, NoJob, FileType
<1>3. BranchTyped
  BY <1>1 DEF Init, BranchTyped, ParametersAreSound
<1>4. HookTyped
  <2>1. NoGate \in [status : Finals \union {"none"}, head : Nat] /\ NoGate.head <= head
    BY <1>1 DEF NoGate
  <2> QED
    BY <2>1 DEF Init, HookTyped, Trees
<1> QED
  BY <1>1, <1>2, <1>3, <1>4
     DEF IInv, Typed, HookAwaits, Settled, MergedAtTheEnd, GateIsOfTheCommit,
     MergeIsOverItsChecks, Init, NoFile, NoJob, Fresh, AtWork

HookMoves ==
  \/ ChecksPassedOver \/ Captures \/ CapturesNothing \/ Ingests
  \/ \E ok \in BOOLEAN : Reviews(ok)
  \/ Ships \/ Merges \/ Drains \/ Boots

\* The hook moves on its own: the run and the branch stay.
LEMMA HookStep ==
  ASSUME IInv, HookMoves
  PROVE  IInv'
<1>1. UNCHANGED <<turn, tree, commits, told, file, job>>
  BY DEF HookMoves, ChecksPassedOver, Captures, CapturesNothing, Ingests, Reviews, Ships, Merges,
     Drains, Boots, branch, hook
<1>2. BranchTyped' /\ RunTyped'
  BY <1>1 DEF IInv, Typed, BranchTyped, RunTyped, head
<1>3. Terminal(file) \in [status : Finals \union {"none"}, head : Nat]
      /\ Terminal(file).head <= head
  BY TerminalTyped DEF IInv, Typed, RunTyped, BranchTyped, head, FileType
<1>4. HookTyped'
  <2>1. CASE ChecksPassedOver
    BY <2>1, <1>1, <1>3 DEF ChecksPassedOver, IInv, Typed, HookTyped, head
  <2>2. CASE Captures
    BY <2>2, <1>1 DEF Captures, IInv, Typed, BranchTyped, HookTyped, head, Trees, Turned
  <2>3. CASE Ingests
    BY <2>3, <1>1 DEF Ingests, IInv, Typed, BranchTyped, HookTyped, head, Trees, Turned
  <2>4. CASE CapturesNothing \/ (\E ok \in BOOLEAN : Reviews(ok)) \/ Ships \/ Merges \/ Drains
        \/ Boots
    BY <2>4, <1>1 DEF CapturesNothing, Reviews, Ships, Merges, Drains, Boots, hook, IInv, Typed,
       HookTyped, head
  <2> QED
    BY <2>1, <2>2, <2>3, <2>4 DEF HookMoves
<1>5. HookAwaits'
  BY <1>1
     DEF HookMoves, ChecksPassedOver, Captures, CapturesNothing, Ingests, Reviews, Ships, Merges,
     Drains, Boots, hook, IInv, HookAwaits, AtWork, head, CommittedNow
<1>6. Settled' /\ GateIsOfTheCommit'
  BY <1>1
     DEF HookMoves, ChecksPassedOver, Captures, CapturesNothing, Ingests, Reviews, Ships, Merges,
     Drains, Boots, hook, IInv, HookAwaits, Settled, GateIsOfTheCommit, AtWork, head,
         CommittedNow, Fresh
<1>7. MergedAtTheEnd' /\ MergeIsOverItsChecks'
  BY <1>1
     DEF HookMoves, ChecksPassedOver, Captures, CapturesNothing, Ingests, Reviews, Ships, Merges,
     Drains, Boots, hook, IInv, Settled, MergedAtTheEnd, MergeIsOverItsChecks, head,
         CommittedNow, Fresh,
     NotMerged
<1> QED
  BY <1>2, <1>4, <1>5, <1>6, <1>7 DEF IInv, Typed

\* The branch moves: a turn starts, works, and is committed.
LEMMA BranchStep ==
  ASSUME ParametersAreSound, IInv, Turns \/ Works \/ TurnEnds
  PROVE  IInv'
<1>1. CASE Turns
  <2>1. UNCHANGED <<tree, commits, told, file, job, gate, incoming, items, up, shut, excuse,
        merged>>
    BY <1>1 DEF Turns
  <2>2. Typed'
    BY <1>1, <2>1
       DEF Turns, IInv, Typed, BranchTyped, RunTyped, HookTyped, head, ParametersAreSound
  <2> QED
    BY <1>1, <2>1, <2>2 DEF Turns, IInv, Typed, BranchTyped, HookAwaits, Settled, MergedAtTheEnd,
       GateIsOfTheCommit, MergeIsOverItsChecks, AtWork, head, CommittedNow, Fresh
<1>2. CASE Works
  <2>1. /\ UNCHANGED <<stage, turn, commits, told, file, gate, incoming, items, up, shut, excuse,
           merged>>
        /\ tree' = tree \union {turn} /\ stage = "agent"
    BY <1>2 DEF Works, hook
  <2>2. /\ job' \in JobType /\ job'.stage = job.stage /\ job'.by = job.by
        /\ job'.head = job.head /\ job'.before = job.before
        /\ job'.stage = "none" => job' = NoJob
    BY <1>2, AgentTouches DEF Works, IInv, Typed
  <2>3. Typed'
    BY <2>1, <2>2 DEF IInv, Typed, BranchTyped, RunTyped, HookTyped, head, Trees, Turned
  <2> QED
    BY <2>1, <2>2, <2>3 DEF IInv, HookAwaits, Settled, MergedAtTheEnd, GateIsOfTheCommit,
       MergeIsOverItsChecks, AtWork, head, CommittedNow, Fresh
<1>3. CASE TurnEnds /\ tree = commits[head]
  <2>1. UNCHANGED <<turn, tree, commits, told, file, job, incoming, items, up, shut, excuse,
        merged>>
    BY <1>3 DEF TurnEnds
  <2>2. Typed'
    BY <1>3, <2>1 DEF TurnEnds, IInv, Typed, BranchTyped, RunTyped, HookTyped, head, NoGate
  <2> QED
    BY <1>3, <2>1, <2>2
       DEF TurnEnds, IInv, HookAwaits, Settled, MergedAtTheEnd, GateIsOfTheCommit,
       MergeIsOverItsChecks, AtWork, head, CommittedNow, Fresh
<1>4. CASE TurnEnds /\ tree # commits[head]
  <2>1. /\ UNCHANGED <<turn, tree, file, job, incoming, items, up, shut, excuse, merged>>
        /\ stage = "agent" /\ stage' = "turned" /\ gate' = NoGate
        /\ commits' = Append(commits, tree) /\ told' = turn
    BY <1>4 DEF TurnEnds
  <2>2. commits' \in Seq(Trees) /\ head' = head + 1 /\ head \in Nat
    BY <2>1, Committed DEF IInv, Typed, BranchTyped, head
  <2>3. Typed'
    BY <2>1, <2>2 DEF IInv, Typed, BranchTyped, RunTyped, HookTyped, NoGate, JobType, FileType
  <2> QED
    BY <2>1, <2>2, <2>3 DEF IInv, HookAwaits, Settled, MergedAtTheEnd, GateIsOfTheCommit,
       MergeIsOverItsChecks, AtWork, CommittedNow, Fresh
<1> QED
  BY <1>1, <1>2, <1>3, <1>4

RunMovesOn ==
  \/ ChecksAsked \/ ChecksUnwritten \/ PersonAsks \/ RunMoves \/ RunCopiesBack
  \/ \E result \in Finals \union {"none"} : RunEnds(result)

\* A run starts, goes on, or ends.
LEMMA RunStep ==
  ASSUME IInv, RunMovesOn
  PROVE  IInv'
<1> USE DEF Typed
<1>1. CASE ChecksAsked
  <2>1. /\ UNCHANGED <<turn, tree, commits, told, gate, incoming, items, up, shut, excuse, merged>>
        /\ stage = "turned" /\ stage' = "checks" /\ CommittedNow /\ Starts("hook")
    BY <1>1 DEF ChecksAsked, branch
  <2>2. /\ job = NoJob /\ job' \in JobType /\ file' \in FileType
        /\ job'.by = "hook" /\ job'.stage = "waits" /\ job'.head = head /\ job'.before = file
        /\ file'.status = "running" /\ file'.head = head
    BY <2>1, StartsRun DEF IInv
  <2>3. Typed'
    BY <2>1, <2>2 DEF IInv, BranchTyped, RunTyped, HookTyped, head
  <2> QED
    BY <2>1, <2>2, <2>3 DEF IInv, HookAwaits, Settled, MergedAtTheEnd, GateIsOfTheCommit,
       MergeIsOverItsChecks, AtWork, head, CommittedNow, Fresh
<1>2. CASE ChecksUnwritten
  <2>1. /\ UNCHANGED <<turn, tree, commits, told, incoming, items, up, shut, merged>>
        /\ stage = "turned" /\ stage' = "verify" /\ StartsUnwritten("hook")
        /\ gate' = Terminal(file) /\ excuse' = "write"
    BY <1>2 DEF ChecksUnwritten, branch
  <2>2. /\ job' \in JobType /\ file' = file
        /\ job'.stage = "leaked" /\ job'.head = 0 /\ job'.before.head = 0
    BY <2>1, StartsNothing DEF IInv
  <2>3. gate' \in [status : Finals \union {"none"}, head : Nat] /\ gate'.head <= file.head
    BY <2>1, TerminalTyped DEF IInv, RunTyped
  <2>4. Typed'
    <3>1. BranchTyped' /\ RunTyped'
      BY <2>1, <2>2 DEF IInv, BranchTyped, RunTyped, head
    <3>2. gate'.head <= head
      BY <2>3 DEF IInv, BranchTyped, RunTyped, head, FileType
    <3> QED
      BY <2>1, <2>3, <3>1, <3>2 DEF IInv, HookTyped, head
  <2> QED
    BY <2>1, <2>2, <2>4 DEF IInv, HookAwaits, Settled, MergedAtTheEnd, GateIsOfTheCommit,
       MergeIsOverItsChecks, AtWork
<1>3. CASE PersonAsks /\ Starts("person")
  <2>1. UNCHANGED <<stage, gate, incoming, items, excuse, merged, turn, tree, commits, told, up,
        shut>>
    BY <1>3 DEF PersonAsks, branch, hook
  <2>2. /\ job = NoJob /\ job' \in JobType /\ file' \in FileType
        /\ job'.by = "person" /\ job'.stage = "waits" /\ job'.head = head /\ job'.before = file
        /\ file'.status = "running" /\ file'.head = head
    BY <1>3, StartsRun DEF IInv
  <2>3. Typed'
    BY <2>1, <2>2 DEF IInv, BranchTyped, RunTyped, HookTyped, head
  <2> QED
    BY <2>1, <2>2, <2>3, NobodyAtWork DEF IInv, HookAwaits, Settled, MergedAtTheEnd,
       GateIsOfTheCommit, MergeIsOverItsChecks, AtWork, head, CommittedNow, Fresh
<1>4. CASE PersonAsks /\ StartsUnwritten("person")
  <2>1. UNCHANGED <<stage, gate, incoming, items, excuse, merged, turn, tree, commits, told, up,
        shut>>
    BY <1>4 DEF PersonAsks, branch, hook
  <2>2. /\ job = NoJob /\ job' \in JobType /\ file' = file
        /\ job'.stage = "leaked" /\ job'.head = 0 /\ job'.before.head = 0
    BY <1>4, StartsNothing DEF IInv
  <2>3. Typed'
    BY <2>1, <2>2 DEF IInv, BranchTyped, RunTyped, HookTyped, head
  <2> QED
    BY <2>1, <2>2, <2>3, NobodyAtWork DEF IInv, HookAwaits, Settled, MergedAtTheEnd,
       GateIsOfTheCommit, MergeIsOverItsChecks, AtWork, head, CommittedNow, Fresh
<1>5. CASE RunMoves \/ RunCopiesBack
  <2>1. /\ UNCHANGED <<stage, gate, incoming, items, excuse, merged, turn, commits, told, file,
           up, shut>>
        /\ Granted \/ StepStarts \/ StepEnds
    BY <1>5 DEF RunMoves, RunCopiesBack, branch, hook, Granted
  <2>2. /\ job' \in JobType /\ AtWork /\ job'.stage \in {"ready", "step"}
        /\ job'.by = job.by /\ job'.head = job.head /\ job'.before = job.before
    BY <2>1, GoesOn DEF IInv
  <2>3. tree' \in Trees
    BY <1>5 DEF IInv, BranchTyped, RunTyped, JobType, RunMoves, RunCopiesBack, StepEnds, branch
  <2>4. Typed'
    BY <2>1, <2>2, <2>3 DEF IInv, BranchTyped, RunTyped, HookTyped, head
  <2> QED
    BY <2>1, <2>2, <2>4 DEF IInv, HookAwaits, Settled, MergedAtTheEnd, GateIsOfTheCommit,
       MergeIsOverItsChecks, AtWork, head, CommittedNow, Fresh
<1>6. ASSUME NEW result \in Finals \union {"none"}, RunEnds(result)
      PROVE  IInv'
  <2>1. /\ UNCHANGED <<incoming, items, up, shut, merged, turn, tree, commits, told>>
        /\ \/ result \in Finals /\ Ended(result)
           \/ result = "none" /\ (EndedUnwritten \/ WaitAbandoned)
        /\ IF job.by = "hook"
             THEN /\ stage' = "verify" /\ gate' = Terminal(file')
                  /\ excuse' = IF result \in Finals THEN "none" ELSE IF shut THEN "cut" ELSE "write"
             ELSE UNCHANGED <<stage, gate, excuse>>
    BY <1>6 DEF RunEnds, branch
  <2>2. /\ AtWork /\ job' = NoJob /\ file' \in FileType
        /\ \/ result \in Finals /\ file'.status = result /\ file'.head = job.head
           \/ result \notin Finals /\ (file' = file \/ file' = job.before)
    BY <2>1, RunIsOver DEF IInv
  <2>3. /\ job' \in JobType /\ ~AtWork' /\ job'.head = 0 /\ job'.before.head = 0
        /\ job'.by = "nobody"
    BY <2>2, NobodyAtWork DEF AtWork, NoJob, NoFile
  <2>4. /\ Terminal(file') \in [status : Finals \union {"none"}, head : Nat]
        /\ Terminal(file').head <= file'.head
        /\ result \in Finals => Terminal(file').head = job.head
    BY <2>2, TerminalTyped
  <2>5. BranchTyped' /\ RunTyped'
    BY <2>1, <2>2, <2>3 DEF IInv, BranchTyped, RunTyped, head
  <2>6. gate'.head <= head /\ gate' \in [status : Finals \union {"none"}, head : Nat]
    BY <2>1, <2>4, <2>5 DEF IInv, BranchTyped, RunTyped, HookTyped, head, FileType
  <2>7. HookTyped'
    BY <2>1, <2>2, <2>6 DEF IInv, HookTyped, HookAwaits, head
  <2>8. HookAwaits'
    BY <2>1, <2>2, <2>3 DEF IInv, HookAwaits, head, CommittedNow
  <2>9. Settled' /\ GateIsOfTheCommit'
    <3>1. CASE job.by = "hook"
      BY <2>1, <2>2, <2>3, <2>4, <3>1 DEF IInv, HookAwaits, Settled, GateIsOfTheCommit, head,
         CommittedNow, Fresh
    <3>2. CASE job.by # "hook"
      BY <2>1, <2>2, <2>3, <3>2
         DEF IInv, HookAwaits, Settled, GateIsOfTheCommit, head, CommittedNow,
         Fresh
    <3> QED
      BY <3>1, <3>2
  <2>10. MergedAtTheEnd' /\ MergeIsOverItsChecks'
    BY <2>1, <2>2 DEF IInv, HookAwaits, MergedAtTheEnd, MergeIsOverItsChecks
  <2> QED
    BY <2>5, <2>7, <2>8, <2>9, <2>10 DEF IInv
<1> QED
  BY <1>1, <1>2, <1>3, <1>4, <1>5, <1>6 DEF RunMovesOn, PersonAsks

\* The process ends, whatever it was doing.
LEMMA EndStep ==
  ASSUME IInv, Exits \/ Crashes
  PROVE  IInv'
<1>1. /\ UNCHANGED <<file, gate, incoming, items, shut, merged, turn, tree, commits, told>>
      /\ up' = FALSE /\ job' = NoJob
      /\ \/ stage \in {"idle", "over"} /\ UNCHANGED <<stage, excuse>>
         \/ excuse' = Cuts /\ stage' = IF stage = "over" THEN "over" ELSE "idle"
  BY DEF Exits, Crashes, hook, branch
<1>2. /\ job' \in JobType /\ ~AtWork' /\ job'.head = 0 /\ job'.before.head = 0
      /\ job'.by = "nobody"
  BY <1>1, NobodyAtWork DEF AtWork, NoJob, NoFile
<1>3. Typed'
  <2>1. BranchTyped' /\ RunTyped'
    BY <1>1, <1>2 DEF IInv, Typed, BranchTyped, RunTyped, head
  <2>2. HookTyped'
    BY <1>1 DEF IInv, Typed, HookTyped, head, Cuts
  <2> QED
    BY <2>1, <2>2 DEF Typed
<1>4. HookAwaits' /\ Settled' /\ GateIsOfTheCommit'
  BY <1>1, <1>2 DEF IInv, HookAwaits, Settled, GateIsOfTheCommit, head, CommittedNow, Fresh, Cuts
<1>5. MergedAtTheEnd' /\ MergeIsOverItsChecks'
  BY <1>1 DEF IInv, HookAwaits, MergedAtTheEnd, MergeIsOverItsChecks, Cuts
<1> QED
  BY <1>3, <1>4, <1>5 DEF IInv

LEMMA StepHolds ==
  ASSUME ParametersAreSound, IInv, [Next]_vars
  PROVE  IInv'
<1>1. CASE HookMoves
  BY <1>1, HookStep
<1>2. CASE Turns \/ Works \/ TurnEnds
  BY <1>2, BranchStep
<1>3. CASE RunMovesOn
  BY <1>3, RunStep
<1>4. CASE Exits \/ Crashes
  BY <1>4, EndStep
<1>5. CASE UNCHANGED vars
  BY <1>5
     DEF vars, IInv, Typed, BranchTyped, RunTyped, HookTyped, HookAwaits, Settled, MergedAtTheEnd,
     GateIsOfTheCommit, MergeIsOverItsChecks, AtWork, head, CommittedNow, Fresh
<1> QED
  BY <1>1, <1>2, <1>3, <1>4, <1>5 DEF Next, HookMoves, RunMovesOn

LEMMA InvHolds == ASSUME ParametersAreSound PROVE Spec => []IInv
<1>1. Init => IInv
  BY InitHolds
<1>2. IInv /\ [Next]_vars => IInv'
  BY StepHolds
<1> QED
  BY <1>1, <1>2, PTL DEF Spec

\* The automatic merge is over checks of what it merges, and the gate of a turn
\* that committed is the result of a run of that commit, whoever asks for runs,
\* whatever write is refused and however the process ends; but for what the
\* turn was told it had no run for (startChecksAfterCommit, prepareChecks).
THEOREM JudgedByItsChecks ==
  ASSUME ParametersAreSound PROVE Spec => []ChecksSpeakForTheCommit
<1>1. IInv => ChecksSpeakForTheCommit
  BY DEF IInv, ChecksSpeakForTheCommit
<1> QED
  BY <1>1, InvHolds, PTL

\* The types, for any number of turns.
THEOREM ChecksTyped ==
  ASSUME ParametersAreSound PROVE Spec => []TypeOK
<1>1. IInv => TypeOK
  <2> SUFFICES ASSUME IInv PROVE TypeOK
    OBVIOUS
  <2>1. head \in Nat
    BY DEF IInv, Typed, BranchTyped, head
  <2>2. file \in [status : Finals \union {"none", "running"}, head : 0 .. head, pure : BOOLEAN]
    BY <2>1 DEF IInv, Typed, RunTyped, FileType
  <2>3. gate \in [status : Finals \union {"none"}, head : 0 .. head]
    BY <2>1 DEF IInv, Typed, HookTyped
  <2>4. job.head \in 0 .. head /\ job.stage \in {"none", "waits", "ready", "step", "leaked"}
    BY <2>1 DEF IInv, Typed, RunTyped, JobType
  <2>5. MaxTurns \in Nat /\ turn \in 0 .. MaxTurns /\ told \in 0 .. MaxTurns
    BY DEF IInv, Typed, BranchTyped, ParametersAreSound
  <2>6. commits \in Seq(SUBSET (1 .. MaxTurns)) /\ tree \subseteq 1 .. MaxTurns
    BY DEF IInv, Typed, BranchTyped, Trees, Turned
  <2>7. incoming \subseteq 1 .. MaxTurns
        /\ items \subseteq [turn : 1 .. MaxTurns, of : 1 .. MaxTurns]
    BY DEF IInv, Typed, HookTyped, Trees, Turned
  <2>8. {up, shut} \subseteq BOOLEAN /\ excuse \in {"none", "hand", "cut", "write"}
    BY DEF IInv, Typed, HookTyped
  <2> QED
    BY <2>2, <2>3, <2>4, <2>5, <2>6, <2>7, <2>8 DEF TypeOK, IInv, Typed, HookTyped
<1> QED
  BY <1>1, InvHolds, PTL

-----------------------------------------------------------------------------
(***************************************************************************)
(* What is true as long as nobody interferes.                              *)
(***************************************************************************)

\* Nobody asks for runs by hand in a task whose trees are copied in and back.
NoHandOnCopies == ~(Persons /\ MicroVm)

\* The tree of the last commit is in the worktree, and back in it after a step.
TreeIsKept ==
  /\ MicroVm /\ AtWork => job.by = "hook"
  /\ commits[head] \subseteq tree
  /\ CommittedNow => tree = commits[head]
  /\ MicroVm /\ job.stage = "step" => job.box = tree
  /\ WorkIsKept

LEMMA TreeInit == ASSUME Init PROVE TreeIsKept
BY DEF Init, TreeIsKept, head, NoJob, AtWork, CommittedNow, WorkIsKept

LEMMA TreeStep ==
  ASSUME NoHandOnCopies, ParametersAreSound, IInv, TreeIsKept, [Next]_vars
  PROVE  TreeIsKept'
<1> USE DEF Typed
<1>1. CASE HookMoves \/ Turns \/ UNCHANGED vars
  <2>1. UNCHANGED <<tree, commits, told, job>> /\ (turn' = turn \/ turn' = turn + 1)
    BY <1>1
       DEF HookMoves, ChecksPassedOver, Captures, CapturesNothing, Ingests, Reviews, Ships,
           Merges,
       Drains, Boots, branch, hook, Turns, vars
  <2> QED
    BY <2>1 DEF IInv, BranchTyped, TreeIsKept, AtWork, head, CommittedNow, WorkIsKept
<1>2. CASE Works
  <2>1. /\ UNCHANGED <<stage, turn, commits, told>> /\ tree' = tree \union {turn} /\ stage = "agent"
        /\ told < turn
    BY <1>2 DEF Works, hook, IInv, HookAwaits
  <2>2. job'.stage = job.stage /\ job'.by = job.by
    BY <1>2, AgentTouches DEF Works, IInv
  <2>3. MicroVm => job.stage # "step"
    BY <2>1 DEF IInv, HookAwaits, TreeIsKept, AtWork
  <2>4. told' # turn'
    BY <2>1 DEF IInv, BranchTyped
  <2> QED
    BY <2>1, <2>2, <2>3, <2>4 DEF TreeIsKept, AtWork, head, CommittedNow, WorkIsKept
<1>3. CASE TurnEnds /\ tree = commits[head]
  BY <1>3 DEF TurnEnds, IInv, TreeIsKept, AtWork, head, CommittedNow, WorkIsKept
<1>4. CASE TurnEnds /\ tree # commits[head]
  <2>1. UNCHANGED <<tree, job>> /\ commits' = Append(commits, tree)
    BY <1>4 DEF TurnEnds
  <2>2. /\ head' = head + 1 /\ commits'[head'] = tree /\ head \in Nat
        /\ \A i \in 1 .. head : commits'[i] = commits[i]
    BY <2>1, Committed DEF IInv, BranchTyped, head
  <2>3. \A i \in 1 .. head : commits[i] \subseteq tree
    BY <2>2 DEF TreeIsKept, WorkIsKept, IInv, BranchTyped
  <2>4. WorkIsKept'
    <3> SUFFICES ASSUME NEW i \in 1 .. head', NEW j \in i .. head'
                 PROVE  commits'[i] \subseteq commits'[j]
      BY DEF WorkIsKept
    <3>1. CASE j = head'
      BY <2>2, <2>3, <3>1
    <3>2. CASE j # head'
      BY <2>2, <3>2 DEF TreeIsKept, WorkIsKept
    <3> QED
      BY <3>1, <3>2
  <2> QED
    BY <2>1, <2>2, <2>4 DEF TreeIsKept, AtWork
<1>5. CASE ChecksAsked \/ ChecksUnwritten \/ PersonAsks
  <2>1. UNCHANGED <<turn, tree, commits, told>>
    BY <1>5 DEF ChecksAsked, ChecksUnwritten, PersonAsks, branch
  <2>2. /\ job'.stage \in {"waits", "leaked"}
        /\ MicroVm /\ job'.stage = "waits" => job'.by = "hook"
    <3>1. CASE (ChecksAsked \/ PersonAsks) /\ (Starts("hook") \/ Starts("person"))
      <4>1. ~MicroVm \/ Starts("hook")
        BY <1>5, <3>1 DEF PersonAsks, ChecksAsked, NoHandOnCopies, Starts
      <4> QED
        BY <3>1, <4>1, StartsRun DEF IInv
    <3>2. CASE StartsUnwritten("hook") \/ StartsUnwritten("person")
      BY <3>2, StartsNothing DEF IInv
    <3> QED
      BY <1>5, <3>1, <3>2 DEF ChecksAsked, ChecksUnwritten, PersonAsks
  <2> QED
    BY <2>1, <2>2 DEF TreeIsKept, AtWork, head, CommittedNow, WorkIsKept
<1>6. CASE RunMoves \/ RunCopiesBack
  <2>1. UNCHANGED <<turn, commits, told>> /\ (Granted \/ StepStarts \/ StepEnds)
    BY <1>6 DEF RunMoves, RunCopiesBack, branch
  <2>2. AtWork /\ job'.by = job.by
    BY <2>1, GoesOn DEF IInv
  <2>3. tree' = tree /\ (job'.stage = "step" => job'.box = tree)
    BY <1>6 DEF RunMoves, RunCopiesBack, branch, Granted, StepStarts, StepEnds, TreeIsKept, IInv,
       RunTyped, JobType
  <2> QED
    BY <2>1, <2>2, <2>3 DEF TreeIsKept, AtWork, head, CommittedNow, WorkIsKept
<1>7. CASE (\E result \in Finals \union {"none"} : RunEnds(result)) \/ Exits \/ Crashes
  <2>1. UNCHANGED <<turn, tree, commits, told>> /\ job' = NoJob
    BY <1>7 DEF RunEnds, Exits, Crashes, branch, Ended, EndedUnwritten, WaitAbandoned
  <2> QED
    BY <2>1, NobodyAtWork DEF TreeIsKept, AtWork, head, CommittedNow, WorkIsKept, NoJob
<1> QED
  BY <1>1, <1>2, <1>3, <1>4, <1>5, <1>6, <1>7 DEF Next, HookMoves

\* What a turn has committed no later commit takes back, unless a person's run
\* copies its tree over what the agent made meanwhile (runChecksForTask).
THEOREM CommitsAreKept ==
  ASSUME ParametersAreSound, NoHandOnCopies PROVE Spec => []WorkIsKept
<1>1. Init => TreeIsKept
  BY TreeInit
<1>2. IInv /\ TreeIsKept /\ [Next]_vars => TreeIsKept'
  BY TreeStep
<1>3. TreeIsKept => WorkIsKept
  BY DEF TreeIsKept
<1> QED
  BY <1>1, <1>2, <1>3, InvHolds, PTL DEF Spec

\* With no runs by hand a run is the hook's, and the file that says `passed' says
\* it of a tree that was the commit's all along.
RunIsPure ==
  /\ AtWork => job.by = "hook" /\ job.pure /\ (job.before.status = "passed" => job.before.pure)
  /\ VerifiedIsTrue

LEMMA PureStep ==
  ASSUME ~Persons, ParametersAreSound, IInv, TreeIsKept, RunIsPure, [Next]_vars
  PROVE  RunIsPure'
<1> USE DEF Typed
<1>1. CASE HookMoves \/ Turns \/ TurnEnds \/ UNCHANGED vars
  <2>1. UNCHANGED <<job, file>>
    BY <1>1
       DEF HookMoves, ChecksPassedOver, Captures, CapturesNothing, Ingests, Reviews, Ships,
           Merges,
       Drains, Boots, hook, Turns, TurnEnds, vars
  <2> QED
    BY <2>1 DEF RunIsPure, AtWork, VerifiedIsTrue
<1>2. CASE Works
  <2>1. ~AtWork /\ UNCHANGED file
    BY <1>2 DEF Works, RunIsPure, IInv, HookAwaits
  <2>2. job'.stage = job.stage
    BY <1>2, AgentTouches DEF Works, IInv
  <2> QED
    BY <2>1, <2>2 DEF RunIsPure, AtWork, VerifiedIsTrue
<1>3. CASE ChecksAsked
  <2>1. /\ job'.by = "hook" /\ job'.before = file /\ job'.pure /\ file'.status = "running"
    BY <1>3, StartsRun DEF ChecksAsked, IInv
  <2> QED
    BY <2>1 DEF RunIsPure, VerifiedIsTrue
<1>4. CASE ChecksUnwritten
  <2>1. job'.stage = "leaked" /\ file' = file
    BY <1>4, StartsNothing DEF ChecksUnwritten, IInv
  <2> QED
    BY <2>1 DEF RunIsPure, AtWork, VerifiedIsTrue
<1>5. CASE RunMoves \/ RunCopiesBack
  <2>1. UNCHANGED file /\ (Granted \/ StepStarts \/ StepEnds)
    BY <1>5 DEF RunMoves, RunCopiesBack, Granted
  <2>2. AtWork /\ job'.by = job.by /\ job'.before = job.before
    BY <2>1, GoesOn DEF IInv
  <2>3. job.head = head /\ tree = commits[head] /\ job.pure
    BY <2>2 DEF RunIsPure, IInv, HookAwaits, TreeIsKept
  <2>4. job'.pure
    BY <2>1, <2>3 DEF Granted, StepStarts, StepEnds, IInv, RunTyped, JobType
  <2> QED
    BY <2>1, <2>2, <2>4 DEF RunIsPure, VerifiedIsTrue
<1>6. ASSUME NEW result \in Finals \union {"none"}, RunEnds(result)
      PROVE  RunIsPure'
  <2>1. \/ result \in Finals /\ Ended(result)
        \/ result = "none" /\ (EndedUnwritten \/ WaitAbandoned)
    BY <1>6 DEF RunEnds
  <2>2. /\ AtWork /\ job' = NoJob
        /\ file'.pure = job.pure \/ file' = file \/ file' = job.before
    BY <2>1, RunIsOver DEF IInv
  <2> QED
    BY <2>2, NobodyAtWork DEF RunIsPure, AtWork, VerifiedIsTrue
<1>7. CASE Exits \/ Crashes
  <2>1. UNCHANGED file /\ job' = NoJob
    BY <1>7 DEF Exits, Crashes
  <2> QED
    BY <2>1, NobodyAtWork DEF RunIsPure, AtWork, VerifiedIsTrue
<1>8. ~PersonAsks
  BY DEF PersonAsks
<1> QED
  BY <1>1, <1>2, <1>3, <1>4, <1>5, <1>6, <1>7, <1>8 DEF Next, HookMoves

\* `passed' in checks.json is of the tree of the commit that it names, when nobody
\* asks for a run while the agent works (the `verified' line, task-server.ts).
THEOREM PassedIsOfTheCommit ==
  ASSUME ParametersAreSound, ~Persons PROVE Spec => []VerifiedIsTrue
<1>1. Init => TreeIsKept /\ RunIsPure
  <2>1. ASSUME Init PROVE ~AtWork /\ file.status # "passed"
    BY <2>1, NobodyAtWork DEF Init, AtWork, NoFile
  <2> QED
    BY <2>1, TreeInit DEF RunIsPure, VerifiedIsTrue
<1>2. IInv /\ TreeIsKept /\ RunIsPure /\ [Next]_vars => TreeIsKept' /\ RunIsPure'
  BY TreeStep, PureStep DEF NoHandOnCopies
<1>3. RunIsPure => VerifiedIsTrue
  BY DEF RunIsPure
<1> QED
  BY <1>1, <1>2, <1>3, InvHolds, PTL DEF Spec

\* Nobody asks for runs by hand, every write lands and the process is never
\* killed.
Calm == ~Persons /\ ~Refuses /\ "crash" \notin Ends

\* A mark is a run's at work, and no run has seen another's.
MarkIsARun ==
  /\ file.status = "running" => AtWork
  /\ AtWork => job.by = "hook" /\ job.before.status # "running"

LEMMA MarkStep ==
  ASSUME Calm, ParametersAreSound, IInv, MarkIsARun, [Next]_vars
  PROVE  MarkIsARun'
<1> USE DEF Typed
<1>1. CASE HookMoves \/ Turns \/ TurnEnds \/ UNCHANGED vars
  <2>1. UNCHANGED <<job, file>>
    BY <1>1
       DEF HookMoves, ChecksPassedOver, Captures, CapturesNothing, Ingests, Reviews, Ships,
           Merges,
       Drains, Boots, hook, Turns, TurnEnds, vars
  <2> QED
    BY <2>1 DEF MarkIsARun, AtWork
<1>2. CASE Works
  <2>1. job'.stage = job.stage /\ job'.by = job.by /\ job'.before = job.before /\ file' = file
    BY <1>2, AgentTouches DEF Works, IInv
  <2> QED
    BY <2>1 DEF MarkIsARun, AtWork
<1>3. CASE ChecksAsked
  <2>1. job = NoJob /\ job'.stage = "waits" /\ job'.by = "hook" /\ job'.before = file
    BY <1>3, StartsRun DEF ChecksAsked, IInv
  <2> QED
    BY <2>1, NobodyAtWork DEF MarkIsARun, AtWork
<1>4. CASE RunMoves \/ RunCopiesBack
  <2>1. UNCHANGED file /\ (Granted \/ StepStarts \/ StepEnds)
    BY <1>4 DEF RunMoves, RunCopiesBack, Granted
  <2>2. /\ AtWork /\ job'.by = job.by /\ job'.before = job.before
        /\ job'.stage \in {"ready", "step"}
    BY <2>1, GoesOn DEF IInv
  <2> QED
    BY <2>1, <2>2 DEF MarkIsARun, AtWork
<1>5. ASSUME NEW result \in Finals \union {"none"}, RunEnds(result)
      PROVE  MarkIsARun'
  <2>1. /\ AtWork /\ job' = NoJob
        /\ \/ result \in Finals /\ file'.status = result
           \/ file' = job.before
    BY <1>5 DEF RunEnds, Ended, EndedUnwritten, WaitAbandoned, Calm, AtWork
  <2> QED
    BY <2>1, NobodyAtWork DEF MarkIsARun, AtWork, Finals
<1>6. CASE Exits
  <2>1. ~AtWork /\ UNCHANGED file /\ job' = NoJob
    BY <1>6 DEF Exits, IInv, HookAwaits, MarkIsARun
  <2> QED
    BY <2>1, NobodyAtWork DEF MarkIsARun, AtWork
<1>7. ~PersonAsks /\ ~Crashes /\ ~ChecksUnwritten
  BY DEF PersonAsks, Crashes, ChecksUnwritten, StartsUnwritten, Calm
<1> QED
  BY <1>1, <1>2, <1>3, <1>4, <1>5, <1>6, <1>7 DEF Next, HookMoves

\* `running' in checks.json is a run at work in the living process, so that the
\* button which asks for another comes back (prepareChecks), in calm weather: a
\* kill, a run by hand at a shutdown, or a refused write leaves the mark behind.
THEOREM RunningIsReal ==
  ASSUME ParametersAreSound, Calm PROVE Spec => []RunningIsARun
<1>1. Init => MarkIsARun
  BY NobodyAtWork DEF Init, MarkIsARun, AtWork, NoFile
<1>2. IInv /\ MarkIsARun /\ [Next]_vars => MarkIsARun'
  BY MarkStep
<1>3. MarkIsARun => RunningIsARun
  BY NobodyAtWork DEF MarkIsARun, RunningIsARun, Claimed, AtWork
<1> QED
  BY <1>1, <1>2, <1>3, InvHolds, PTL DEF Spec

\* What is incoming is of the turn at its verification, and is ingested in it.
EvidenceIsFresh ==
  /\ incoming # {} => stage = "captured" /\ incoming = {turn}
  /\ ItemsAreOfTheirTurn

LEMMA EvidenceStep ==
  ASSUME "crash" \notin Ends, ParametersAreSound, IInv, EvidenceIsFresh, [Next]_vars
  PROVE  EvidenceIsFresh'
<1>1. CASE Captures
  BY <1>1 DEF Captures, branch, EvidenceIsFresh, ItemsAreOfTheirTurn
<1>2. CASE Ingests
  BY <1>2 DEF Ingests, branch, EvidenceIsFresh, ItemsAreOfTheirTurn
<1>3. CASE ~Captures /\ ~Ingests
  <2>1. UNCHANGED <<incoming, items>>
    BY <1>3
       DEF Next, vars, hook, Turns, Works, TurnEnds, ChecksPassedOver, ChecksAsked,
           ChecksUnwritten,
       PersonAsks, RunMoves, RunCopiesBack, RunEnds, CapturesNothing, Reviews, Ships, Merges,
           Drains,
       Exits, Crashes, Boots
  <2>2. stage = "captured" => UNCHANGED <<stage, turn>>
    <3>1. stage = "captured" /\ (\E result \in Finals \union {"none"} : RunEnds(result)) =>
            UNCHANGED <<stage, turn>>
      BY DEF RunEnds, branch, Ended, EndedUnwritten, WaitAbandoned, IInv, HookAwaits, AtWork
    <3> QED
      BY <1>3, <3>1
         DEF Next, vars, hook, branch, Turns, Works, TurnEnds, ChecksPassedOver, ChecksAsked,
         ChecksUnwritten, PersonAsks, RunMoves, RunCopiesBack, CapturesNothing, Reviews, Ships,
             Merges,
         Drains, Exits, Crashes, Boots
  <2> QED
    BY <2>1, <2>2 DEF EvidenceIsFresh, ItemsAreOfTheirTurn
<1> QED
  BY <1>1, <1>2, <1>3

\* An item of the evidence was captured in the turn it names, unless a kill comes
\* between the captures and their ingestion (ingestEvidenceFiles).
THEOREM EvidenceIsItsTurns ==
  ASSUME ParametersAreSound, "crash" \notin Ends PROVE Spec => []ItemsAreOfTheirTurn
<1>1. Init => EvidenceIsFresh
  BY DEF Init, EvidenceIsFresh, ItemsAreOfTheirTurn
<1>2. IInv /\ EvidenceIsFresh /\ [Next]_vars => EvidenceIsFresh'
  BY EvidenceStep
<1>3. EvidenceIsFresh => ItemsAreOfTheirTurn
  BY DEF EvidenceIsFresh
<1> QED
  BY <1>1, <1>2, <1>3, InvHolds, PTL DEF Spec

-----------------------------------------------------------------------------
(* The branches and the worktrees (Branches, as Twigs), for any tasks, any slugs *)
(* and any number of commits, turns and gestures                                *)

(***************************************************************************)
(* The inductive invariant.                                                *)
(***************************************************************************)
TwigsStatus == {"unborn", "queued", "running", "rest", "cut", "shipped", "failed"}
TwigStages == {"none", "made", "works", "renamed", "named", "committed"}

TwigRecord == [status : TwigsStatus, branch : Twigs!Names \union {Twigs!None}, workOn : BOOLEAN,
    placed : BOOLEAN,
           base : SUBSET Nat, left : SUBSET Nat, turn : Nat]

\* A fork starts from the trunk, and has no name before its worktree.
RecordOK(r) ==
  /\ r \in TwigRecord
  /\ r.status = "unborn" => ~r.placed
  /\ ~r.workOn => IF r.placed THEN r.base = {} ELSE r.branch = Twigs!None

TwigsTyped ==
  /\ refs \in [Twigs!Names -> SUBSET Nat] /\ origin \in [Twigs!Names -> SUBSET Nat]
  /\ maker \in Seq(Tasks \union {"person", "guest"})
  /\ main \in Twigs!Names \union {Twigs!None}
     /\ trees \in [Tasks -> Twigs!Names \union {Twigs!None}]
  /\ records \in [Tasks -> TwigRecord] /\ \A t \in Tasks : RecordOK(records[t])
  /\ going \in [Tasks -> {"no", "tree", "branch"}]
  /\ \A t \in Tasks : going[t] # "no" => records[t].status # "unborn"
  /\ run \in [task : Tasks \union {"nobody"}, stage : TwigStages, rec : TwigRecord]

\* A branch that is checked out is there, and checked out by one task.
TreesOK ==
  /\ \A t \in Tasks : trees[t] # Twigs!None => refs[trees[t]] # Twigs!NoRef
  /\ \A t, u \in Tasks : t # u /\ trees[t] = trees[u] => trees[t] = Twigs!None

\* A turn has a worktree, and no abandon.
Busy(t) == run.stage # "none" /\ run.task = t

RunOK ==
  run.stage # "none" =>
    /\ run.task \in Tasks /\ RecordOK(run.rec) /\ run.rec.placed
    /\ trees[run.task] # Twigs!None
    /\ going[run.task] = "no" /\ records[run.task].status # "unborn"

TwigsInv == TwigsTyped /\ TreesOK /\ RunOK

\* What an abandon that does not wait takes with a branch: nothing.
NothingGoes ==
  \A t \in Tasks : going[t] = "branch" =>
    records[t].branch \in Twigs!Names /\ refs[records[t].branch] \subseteq {0}

\* The worktree has the branch of the record a turn holds, of the record on disk
\* of a task at rest, and of a turn that has told it.
Named ==
  \A t \in Tasks :
    /\ Busy(t) => trees[t] = run.rec.branch
    /\ trees[t] # Twigs!None /\ records[t].placed /\ ~Busy(t) => trees[t] = records[t].branch
    /\ Busy(t) /\ run.stage \in {"works", "named", "committed"} =>
         records[t].branch = run.rec.branch

LEMMA RecordFields ==
  ASSUME NEW r, RecordOK(r), NEW s \in TwigsStatus \ {"unborn"}
  PROVE  /\ RecordOK([r EXCEPT !.status = s])
         /\ [r EXCEPT !.status = s].status = s /\ [r EXCEPT !.status = s].branch = r.branch
         /\ [r EXCEPT !.status = s].placed = r.placed /\ [r EXCEPT !.status = s].base = r.base
         /\ [r EXCEPT !.status = s].workOn = r.workOn /\ [r EXCEPT !.status = s].turn = r.turn
BY DEF RecordOK, TwigRecord, TwigsStatus

LEMMA TurnField ==
  ASSUME NEW r, RecordOK(r), NEW k \in Nat
  PROVE  /\ RecordOK([r EXCEPT !.turn = k])
         /\ [r EXCEPT !.turn = k].status = r.status /\ [r EXCEPT !.turn = k].branch = r.branch
         /\ [r EXCEPT !.turn = k].placed = r.placed /\ [r EXCEPT !.turn = k].base = r.base
         /\ [r EXCEPT !.turn = k].workOn = r.workOn
BY DEF RecordOK, TwigRecord

\* A step that writes one record, of a task that keeps its branch and its
\* worktree, or of one that has neither yet.
LEMMA RecordStep ==
  ASSUME TwigsInv, NEW t \in Tasks, NEW r, RecordOK(r), r.status # "unborn",
         records' = [records EXCEPT ![t] = r], UNCHANGED <<refs, main, trees, run, going, maker>>,
         origin' \in [Twigs!Names -> SUBSET Nat],
         \/ r.branch = records[t].branch /\ r.placed = records[t].placed
         \/ records[t].status = "unborn" /\ ~r.placed
  PROVE  TwigsInv' /\ (Named => Named')
<1>1. TwigsTyped'
  BY DEF TwigsInv, TwigsTyped, RecordOK
<1>2. TreesOK' /\ RunOK'
  BY DEF TwigsInv, TwigsTyped, TreesOK, RunOK
<1>3. ASSUME Named PROVE Named'
  <2>1. ASSUME NEW u \in Tasks
        PROVE  /\ Busy(u)' => trees'[u] = run'.rec.branch
               /\ trees'[u] # Twigs!None /\ records'[u].placed
                  /\ ~Busy(u)' => trees'[u] = records'[u].branch
               /\ Busy(u)' /\ run'.stage \in {"works", "named", "committed"} =>
                    records'[u].branch = run'.rec.branch
    BY <1>3 DEF TwigsInv, TwigsTyped, RunOK, Named, Busy
  <2> QED
    BY <2>1 DEF Named
<1> QED
  BY <1>1, <1>2, <1>3 DEF TwigsInv

LEMMA GestureOnRecord ==
  ASSUME TwigsInv, NEW t \in Tasks,
         \/ Twigs!CreateFork(t) \/ Twigs!Replies(t) \/ Twigs!Resumes(t) \/ Twigs!Stops(t)
            \/ Twigs!Ships(t)
         \/ \E n \in Twigs!Names : Twigs!CreateWorkOn(t, n)
  PROVE  TwigsInv' /\ (Named => Named')
<1>1. RecordOK(records[t]) /\ records \in [Tasks -> TwigRecord]
      /\ origin \in [Twigs!Names -> SUBSET Nat]
  BY DEF TwigsInv, TwigsTyped
<1>2. CASE Twigs!CreateFork(t)
  <2> DEFINE a == [records[t] EXCEPT !.status = "queued"]
             r == [a EXCEPT !.turn = 1]
  <2>1. records' = [records EXCEPT ![t] = r]
        /\ UNCHANGED <<refs, origin, main, trees, run, going, maker>>
    BY <1>1, <1>2 DEF Twigs!CreateFork
  <2>2. RecordOK(a) /\ a.status = "queued" /\ a.branch = records[t].branch
        /\ a.placed = records[t].placed
    BY <1>1, RecordFields DEF TwigsStatus
  <2> HIDE DEF a
  <2>3. RecordOK(r) /\ r.status = "queued" /\ r.branch = records[t].branch
        /\ r.placed = records[t].placed
    BY <2>2, TurnField
  <2> HIDE DEF r
  <2> QED
    BY <1>1, <2>1, <2>3, RecordStep
<1>3. CASE Twigs!Replies(t)
  <2> DEFINE a == [records[t] EXCEPT !.status = "queued"]
             r == [a EXCEPT !.turn = records[t].turn + 1]
  <2>1. records' = [records EXCEPT ![t] = r]
        /\ UNCHANGED <<refs, origin, main, trees, run, going, maker>>
    BY <1>1, <1>3 DEF Twigs!Replies, TwigRecord
  <2>2. RecordOK(a) /\ a.status = "queued" /\ a.branch = records[t].branch
        /\ a.placed = records[t].placed
    BY <1>1, RecordFields DEF TwigsStatus
  <2> HIDE DEF a
  <2>3. records[t].turn + 1 \in Nat
    BY <1>1 DEF TwigRecord
  <2>4. RecordOK(r) /\ r.status = "queued" /\ r.branch = records[t].branch
        /\ r.placed = records[t].placed
    BY <2>2, <2>3, TurnField
  <2> HIDE DEF r
  <2> QED
    BY <1>1, <2>1, <2>4, RecordStep
<1>4. CASE Twigs!Resumes(t) \/ Twigs!Stops(t) \/ Twigs!Ships(t)
  <2>1. PICK s \in {"queued", "cut", "shipped"} : records' = [records EXCEPT ![t].status = s]
    BY <1>4 DEF Twigs!Resumes, Twigs!Stops, Twigs!Ships
  <2> DEFINE r == [records[t] EXCEPT !.status = s]
  <2>2. records' = [records EXCEPT ![t] = r] /\ UNCHANGED <<refs, main, trees, run, going, maker>>
    BY <1>4, <2>1 DEF Twigs!Resumes, Twigs!Stops, Twigs!Ships
  <2>3. origin' \in [Twigs!Names -> SUBSET Nat]
    BY <1>1, <1>4
       DEF Twigs!Resumes, Twigs!Stops, Twigs!Ships, TwigsInv, TwigsTyped, Twigs!Exists, TwigRecord
  <2>4. RecordOK(r) /\ r.status = s /\ r.branch = records[t].branch /\ r.placed = records[t].placed
    BY <1>1, RecordFields DEF TwigsStatus
  <2> HIDE DEF r
  <2> QED
    BY <2>1, <2>2, <2>3, <2>4, RecordStep
<1>5. CASE \E n \in Twigs!Names : Twigs!CreateWorkOn(t, n)
  <2>1. PICK n \in Twigs!Names : Twigs!CreateWorkOn(t, n)
    BY <1>5
  <2> DEFINE a == [records[t] EXCEPT !.status = "queued"]
             b == [a EXCEPT !.turn = 1]
             c == [b EXCEPT !.workOn = TRUE]
             r == [c EXCEPT !.branch = n]
  <2>2. records' = [records EXCEPT ![t] = r]
        /\ UNCHANGED <<refs, origin, main, trees, run, going, maker>>
    BY <1>1, <2>1 DEF Twigs!CreateWorkOn
  <2>3. RecordOK(a) /\ a.status = "queued" /\ a.placed = records[t].placed
    BY <1>1, RecordFields DEF TwigsStatus
  <2> HIDE DEF a
  <2>4. RecordOK(b) /\ b.status = "queued" /\ b.placed = records[t].placed
    BY <2>3, TurnField
  <2> HIDE DEF b
  <2>5. RecordOK(r) /\ r.status = "queued" /\ r.placed = records[t].placed
    BY <2>4 DEF RecordOK, TwigRecord
  <2>6. records[t].status = "unborn" /\ ~records[t].placed
    BY <1>1, <2>1 DEF Twigs!CreateWorkOn, RecordOK
  <2> HIDE DEF r
  <2> QED
    BY <1>1, <1>5, <2>2, <2>5, <2>6, RecordStep
<1> QED
  BY <1>2, <1>3, <1>4, <1>5

\* The worktree a turn is given: the branch n, which nobody else has checked out,
\* on a record that names it.
LEMMA GivenATree ==
  ASSUME TwigsInv, NEW t \in Tasks, Twigs!Launchable(t), NEW n \in Twigs!Names, n # Twigs!None,
      NEW tip \in SUBSET Nat,
         tip # Twigs!NoRef, NEW r, RecordOK(r), r.placed, r.branch = n,
         \A u \in Tasks : u # t => trees[u] # n,
         refs' = [refs EXCEPT ![n] = tip], trees' = [trees EXCEPT ![t] = n],
         run' = [task |-> t, stage |-> "made", rec |-> r],
         UNCHANGED <<origin, main, records, going, maker>>
  PROVE  TwigsInv' /\ (Named => Named')
<1>1. TwigsTyped'
  BY DEF TwigsInv, TwigsTyped, RecordOK, TwigStages
<1>2. TreesOK'
  <2>1. ASSUME NEW u \in Tasks, trees'[u] # Twigs!None PROVE refs'[trees'[u]] # Twigs!NoRef
    BY <2>1 DEF TwigsInv, TwigsTyped, TreesOK
  <2>2. ASSUME NEW u \in Tasks, NEW v \in Tasks, u # v, trees'[u] = trees'[v]
        PROVE  trees'[u] = Twigs!None
    BY <2>2 DEF TwigsInv, TwigsTyped, TreesOK
  <2> QED
    BY <2>1, <2>2 DEF TreesOK
<1>3. RunOK'
  BY DEF TwigsInv, TwigsTyped, RunOK, Twigs!Launchable
<1>4. ASSUME Named PROVE Named'
  <2>1. ASSUME NEW u \in Tasks
        PROVE  /\ Busy(u)' => trees'[u] = run'.rec.branch
               /\ trees'[u] # Twigs!None /\ records'[u].placed
                  /\ ~Busy(u)' => trees'[u] = records'[u].branch
               /\ Busy(u)' /\ run'.stage \in {"works", "named", "committed"} =>
                    records'[u].branch = run'.rec.branch
    BY <1>4 DEF TwigsInv, TwigsTyped, Named, Busy, Twigs!Launchable, Twigs!NoRun
  <2> QED
    BY <2>1 DEF Named
<1> QED
  BY <1>1, <1>2, <1>3, <1>4 DEF TwigsInv

LEMMA Rebuilt ==
  ASSUME TwigsInv, NEW t \in Tasks, NEW tip \in SUBSET Nat,
         records[t].workOn \/ records[t].placed
  PROVE  LET r == [records[t] EXCEPT !.placed = TRUE, !.left = tip,
                                     !.base = IF records[t].placed THEN @ ELSE tip]
         IN  records[t].status # "unborn" => RecordOK(r) /\ r.placed /\ r.branch = records[t].branch
<1> DEFINE base == IF records[t].placed THEN records[t].base ELSE tip
           a == [records[t] EXCEPT !.placed = TRUE]
           b == [a EXCEPT !.left = tip]
           r == [b EXCEPT !.base = base]
<1>1. RecordOK(records[t]) /\ base \in SUBSET Nat
  BY DEF TwigsInv, TwigsTyped, RecordOK, TwigRecord
<1>2. /\ records[t].placed => base = records[t].base
      /\ ~records[t].placed => records[t].workOn
  OBVIOUS
<1> HIDE DEF base
<1>3. /\ r \in TwigRecord /\ r.placed /\ r.branch = records[t].branch
      /\ r.status = records[t].status /\ r.workOn = records[t].workOn /\ r.base = base
  BY <1>1 DEF RecordOK, TwigRecord
<1>4. records[t].status # "unborn" => RecordOK(r)
  BY <1>1, <1>2, <1>3 DEF RecordOK
<1>5. r = [records[t] EXCEPT !.placed = TRUE, !.left = tip,
                             !.base = IF records[t].placed THEN @ ELSE tip]
  BY <1>1 DEF RecordOK, TwigRecord, base
<1> QED
  BY <1>3, <1>4, <1>5

LEMMA Materialization ==
  ASSUME TwigsInv, NEW t \in Tasks, Twigs!Materializes(t)
  PROVE  TwigsInv' /\ (Named => Named')
<1>1. /\ refs \in [Twigs!Names -> SUBSET Nat] /\ origin \in [Twigs!Names -> SUBSET Nat]
      /\ trees \in [Tasks -> Twigs!Names \union {Twigs!None}] /\ RecordOK(records[t])
         /\ records[t] \in TwigRecord
      /\ UNCHANGED <<origin, main, records, going, maker>>
  BY DEF TwigsInv, TwigsTyped, Twigs!Materializes
<1>2. CASE Twigs!Stays(t)
  <2> DEFINE n == trees[t]
  <2>1. /\ Twigs!Launchable(t) /\ n # Twigs!None /\ records[t].placed
        /\ run' = [task |-> t, stage |-> "made", rec |-> records[t]]
        /\ UNCHANGED <<refs, trees>>
    BY <1>2 DEF Twigs!Stays, Twigs!Placed, Twigs!Held
  <2>2. TwigsTyped' /\ TreesOK'
    BY <1>1, <2>1 DEF TwigsInv, TwigsTyped, TreesOK, TwigStages
  <2>3. RunOK'
    BY <1>1, <2>1 DEF TwigsInv, TwigsTyped, RunOK, Twigs!Launchable
  <2>4. ASSUME Named PROVE Named'
    <3>1. ASSUME NEW u \in Tasks
          PROVE  /\ Busy(u)' => trees'[u] = run'.rec.branch
                 /\ trees'[u] # Twigs!None /\ records'[u].placed /\ ~Busy(u)' =>
                      trees'[u] = records'[u].branch
                 /\ Busy(u)' /\ run'.stage \in {"works", "named", "committed"} =>
                      records'[u].branch = run'.rec.branch
      BY <1>1, <2>1, <2>4 DEF Named, Busy, Twigs!Launchable, Twigs!NoRun
    <3> QED
      BY <3>1 DEF Named
  <2> QED
    BY <2>2, <2>3, <2>4 DEF TwigsInv
<1>3. CASE Twigs!Adopts(t)
  <2> DEFINE n == records[t].branch
             tip == IF Twigs!Exists(n) THEN refs[n] ELSE origin[n]
             r == [records[t] EXCEPT !.placed = TRUE, !.left = tip,
                                     !.base = IF records[t].placed THEN @ ELSE tip]
  <2>1. /\ Twigs!Launchable(t) /\ Twigs!Adoptable(t) /\ (records[t].workOn \/ records[t].placed)
        /\ refs' = [refs EXCEPT ![n] = tip] /\ trees' = [trees EXCEPT ![t] = n]
        /\ run' = [task |-> t, stage |-> "made", rec |-> r]
    BY <1>3 DEF Twigs!Adopts, Twigs!Held
  <2>2. /\ n # Twigs!None /\ n \in Twigs!Names /\ tip \in SUBSET Nat /\ tip # Twigs!NoRef
        /\ \A u \in Tasks : u # t => trees[u] # n
    BY <1>1, <2>1 DEF Twigs!Adoptable, Twigs!Exists, Twigs!Pushed, Twigs!InUse, TwigRecord
  <2>3. records[t].status # "unborn"
    BY <2>1 DEF Twigs!Launchable
  <2> HIDE DEF tip
  <2>4. RecordOK(r) /\ r.placed /\ r.branch = n
    BY <2>1, <2>2, <2>3, Rebuilt
  <2> HIDE DEF n, r
  <2> QED
    BY <1>1, <2>1, <2>2, <2>4, GivenATree
<1>4. CASE \E n \in Twigs!Names : Twigs!Forks(t, n)
  <2>1. PICK n \in Twigs!Names : Twigs!Forks(t, n)
    BY <1>4
  <2> DEFINE a == [records[t] EXCEPT !.branch = n]
             b == [a EXCEPT !.placed = TRUE]
             c == [b EXCEPT !.base = {}]
             r == [c EXCEPT !.left = {}]
  <2>2. /\ Twigs!Launchable(t) /\ Twigs!Free("x", n)
        /\ refs' = [refs EXCEPT ![n] = {}] /\ trees' = [trees EXCEPT ![t] = n]
        /\ run' = [task |-> t, stage |-> "made", rec |-> r]
    BY <1>1, <2>1 DEF Twigs!Forks, Twigs!Held
  <2>3. n # Twigs!None /\ ~Twigs!Exists(n)
    BY <2>2 DEF Twigs!Free, Twigs!Names, Twigs!User, Twigs!None
  <2>4. \A u \in Tasks : u # t => trees[u] # n
    BY <2>3 DEF TwigsInv, TreesOK, Twigs!Exists
  <2>5. RecordOK(r) /\ r.placed /\ r.branch = n
    BY <1>1, <2>2 DEF RecordOK, TwigRecord, Twigs!Launchable
  <2>6. {} \in SUBSET Nat /\ {} # Twigs!NoRef
    BY DEF Twigs!NoRef
  <2> HIDE DEF r
  <2> QED
    BY <1>1, <2>2, <2>3, <2>4, <2>5, <2>6, GivenATree
<1> QED
  BY <1>2, <1>3, <1>4 DEF Twigs!Materializes

\* The record a turn holds is written, and the turn goes on or ends.
LEMMA TurnSaves ==
  ASSUME TwigsInv, Twigs!Launches \/ Twigs!SavesName
      \/ \E end \in {"rest", "cut", "failed", "queued"} : Twigs!Settles(end)
  PROVE  TwigsInv' /\ (Named => Named')
<1>1. PICK s \in {"running", "rest", "cut", "failed", "queued"} :
        records' = [records EXCEPT ![run.task] = [run.rec EXCEPT !.status = s]]
  BY DEF Twigs!Launches, Twigs!SavesName, Twigs!Settles, Twigs!Saves
<1> DEFINE t == run.task
           r == [run.rec EXCEPT !.status = s]
<1>2. /\ run.stage # "none" /\ UNCHANGED <<refs, origin, main, trees, going, maker>>
      /\ run' = Twigs!NoRun \/ \E g \in TwigStages : run' = [run EXCEPT !.stage = g]
  BY DEF Twigs!Launches, Twigs!SavesName, Twigs!Settles, TwigStages
<1>3. /\ t \in Tasks /\ RecordOK(run.rec) /\ run.rec.placed /\ trees[t] # Twigs!None
      /\ going[t] = "no"
  BY <1>2 DEF TwigsInv, RunOK
<1>4. /\ RecordOK(r) /\ r.status # "unborn" /\ r.branch = run.rec.branch /\ r.placed
  BY <1>3, RecordFields DEF TwigsStatus
<1>5. records' = [records EXCEPT ![t] = r]
  BY <1>1
<1> HIDE DEF r
<1>6. Twigs!NoRun \in [task : Tasks \union {"nobody"}, stage : TwigStages, rec : TwigRecord]
  BY DEF Twigs!NoRun, Twigs!NoRecord, TwigRecord, TwigsStatus, TwigStages, Twigs!NoRef
<1>7. /\ run' \in [task : Tasks \union {"nobody"}, stage : TwigStages, rec : TwigRecord]
      /\ run'.stage # "none" => run'.task = t /\ run'.rec = run.rec
  BY <1>2, <1>6 DEF TwigsInv, TwigsTyped, Twigs!NoRun
<1>8. TwigsTyped'
  BY <1>2, <1>3, <1>4, <1>5, <1>7 DEF TwigsInv, TwigsTyped, RecordOK
<1>9. TreesOK' /\ RunOK'
  BY <1>2, <1>3, <1>4, <1>5, <1>7 DEF TwigsInv, TwigsTyped, TreesOK, RunOK
<1>10. ASSUME Named PROVE Named'
  <2>1. trees[t] = run.rec.branch
    BY <1>2, <1>3, <1>10 DEF Named, Busy
  <2>2. ASSUME NEW u \in Tasks
        PROVE  /\ Busy(u)' => trees'[u] = run'.rec.branch
               /\ trees'[u] # Twigs!None /\ records'[u].placed
                  /\ ~Busy(u)' => trees'[u] = records'[u].branch
               /\ Busy(u)' /\ run'.stage \in {"works", "named", "committed"} =>
                    records'[u].branch = run'.rec.branch
    <3>1. CASE u = t
      BY <1>2, <1>3, <1>4, <1>5, <1>7, <2>1, <3>1 DEF TwigsInv, TwigsTyped, Busy
    <3>2. CASE u # t
      BY <1>2, <1>3, <1>5, <1>7, <1>10, <3>2 DEF TwigsInv, TwigsTyped, Named, Busy
    <3> QED
      BY <3>1, <3>2
  <2> QED
    BY <2>2 DEF Named
<1> QED
  BY <1>8, <1>9, <1>10 DEF TwigsInv

\* A branch takes the name its agent proposes, and every checkout follows.
LEMMA Renaming ==
  ASSUME TwigsInv, NEW slug, NEW n \in Twigs!Names, Twigs!Renames(slug, n)
  PROVE  TwigsInv' /\ (Named => Named')
<1> DEFINE old == run.rec.branch
           r == [run.rec EXCEPT !.branch = n]
<1>1. /\ run.stage = "works" /\ Twigs!Exists(old) /\ ~Twigs!Exists(n) /\ ~run.rec.workOn
      /\ refs' = [refs EXCEPT ![n] = refs[old], ![old] = Twigs!NoRef]
      /\ trees' = [t \in Tasks |-> IF trees[t] = old THEN n ELSE trees[t]]
      /\ run' = [run EXCEPT !.stage = "renamed", !.rec.branch = n]
      /\ UNCHANGED <<origin, main, records, going, maker>>
  BY DEF Twigs!Renames, Twigs!Renamable, Twigs!Free
<1>2. /\ run.task \in Tasks /\ RecordOK(run.rec) /\ run.rec.placed /\ trees[run.task] # Twigs!None
      /\ going[run.task] = "no" /\ records[run.task].status # "unborn"
      /\ run \in [task : Tasks \union {"nobody"}, stage : TwigStages, rec : TwigRecord]
  BY <1>1 DEF TwigsInv, RunOK, TwigsTyped
<1>3. /\ old \in Twigs!Names /\ old # Twigs!None /\ refs[old] # Twigs!NoRef /\ old # n
         /\ n # Twigs!None /\ refs[n] = Twigs!NoRef
  <2>1. n # Twigs!None
    BY DEF Twigs!Renames, Twigs!Free, Twigs!None, Twigs!Names, Twigs!User
  <2> QED
    BY <1>1, <1>2, <2>1 DEF Twigs!Exists, TwigRecord
<1>4. RecordOK(r) /\ r.placed /\ r.branch = n
  BY <1>1, <1>2 DEF RecordOK, TwigRecord
<1>5. run'.stage = "renamed" /\ run'.task = run.task /\ run'.rec = r
      /\ run' \in [task : Tasks \union {"nobody"}, stage : TwigStages, rec : TwigRecord]
  BY <1>1, <1>2, <1>4 DEF RecordOK, TwigStages
<1>6. \A t \in Tasks : trees[t] # n
  BY <1>3 DEF TwigsInv, TreesOK
<1>7. refs' \in [Twigs!Names -> SUBSET Nat] /\ refs'[n] = refs[old]
      /\ \A m \in Twigs!Names \ {n, old} : refs'[m] = refs[m]
  BY <1>1, <1>3 DEF TwigsInv, TwigsTyped, Twigs!NoRef
<1>8. TwigsTyped'
  BY <1>1, <1>5, <1>7 DEF TwigsInv, TwigsTyped
<1>9. TreesOK'
  <2>1. ASSUME NEW u \in Tasks, trees'[u] # Twigs!None PROVE refs'[trees'[u]] # Twigs!NoRef
    BY <1>1, <1>3, <1>6, <1>7, <2>1 DEF TwigsInv, TwigsTyped, TreesOK
  <2>2. ASSUME NEW u \in Tasks, NEW v \in Tasks, u # v, trees'[u] = trees'[v]
        PROVE  trees'[u] = Twigs!None
    BY <1>1, <1>3, <1>6, <2>2 DEF TwigsInv, TreesOK
  <2> QED
    BY <2>1, <2>2 DEF TreesOK
<1>10. RunOK'
  BY <1>1, <1>2, <1>3, <1>4, <1>5 DEF RunOK
<1>11. ASSUME Named PROVE Named'
  <2>1. trees[run.task] = old
    BY <1>1, <1>2, <1>11 DEF Named, Busy
  <2>2. trees'[run.task] = n /\ \A u \in Tasks : u # run.task => trees'[u] = trees[u]
    BY <1>1, <1>2, <1>3, <2>1 DEF TwigsInv, TreesOK
  <2>3. ASSUME NEW u \in Tasks
        PROVE  /\ Busy(u)' => trees'[u] = run'.rec.branch
               /\ trees'[u] # Twigs!None /\ records'[u].placed
                  /\ ~Busy(u)' => trees'[u] = records'[u].branch
               /\ Busy(u)' /\ run'.stage \in {"works", "named", "committed"} =>
                    records'[u].branch = run'.rec.branch
    BY <1>1, <1>4, <1>5, <1>11, <2>2 DEF Named, Busy
  <2> QED
    BY <2>3 DEF Named
<1> QED
  BY <1>8, <1>9, <1>10, <1>11 DEF TwigsInv

\* A commit on a branch that is checked out.
LEMMA Committing ==
  ASSUME TwigsInv, (\E dirty \in BOOLEAN : Twigs!CommitTurn(dirty))
      \/ \E n \in Twigs!Names : Twigs!HandCommits(n)
  PROVE  TwigsInv' /\ (Named => Named')
<1>1. /\ UNCHANGED <<origin, main, trees, records, going>>
      /\ \/ UNCHANGED <<refs, maker>>
         \/ \E n \in Twigs!Names, who \in Tasks \union {"person", "guest"} : Twigs!CommitTo(n, who)
  <2>1. CASE \E dirty \in BOOLEAN : Twigs!CommitTurn(dirty)
    <3>1. run.stage # "none"
      BY <2>1 DEF Twigs!CommitTurn
    <3>2. run.task \in Tasks /\ trees[run.task] \in Twigs!Names
      BY <3>1 DEF TwigsInv, TwigsTyped, RunOK
    <3> QED
      BY <2>1, <3>2 DEF Twigs!CommitTurn
  <2>2. CASE \E n \in Twigs!Names : Twigs!HandCommits(n)
    BY <2>2 DEF Twigs!HandCommits
  <2> QED
    BY <2>1, <2>2
<1>2. /\ refs' \in [Twigs!Names -> SUBSET Nat] /\ maker' \in Seq(Tasks \union {"person", "guest"})
      /\ \A n \in Twigs!Names : refs[n] # Twigs!NoRef => refs'[n] # Twigs!NoRef
  <2>1. ASSUME NEW n \in Twigs!Names, NEW who \in Tasks \union {"person", "guest"},
        Twigs!CommitTo(n, who)
        PROVE  /\ refs' \in [Twigs!Names -> SUBSET Nat]
                  /\ maker' \in Seq(Tasks \union {"person", "guest"})
               /\ \A m \in Twigs!Names : refs[m] # Twigs!NoRef => refs'[m] # Twigs!NoRef
    <3>1. Len(maker) \in Nat /\ maker' \in Seq(Tasks \union {"person", "guest"})
      BY <2>1 DEF TwigsInv, TwigsTyped, Twigs!CommitTo
    <3>2. Len(maker) + 1 \in Nat \ {0}
      BY <3>1
    <3>3. refs' = [refs EXCEPT ![n] = refs[n] \union {Len(maker) + 1}]
      BY <2>1 DEF Twigs!CommitTo
    <3>4. refs[n] \union {Len(maker) + 1} \in SUBSET Nat
          /\ refs[n] \union {Len(maker) + 1} # Twigs!NoRef
      BY <3>2 DEF TwigsInv, TwigsTyped, Twigs!NoRef
    <3> QED
      BY <3>1, <3>3, <3>4 DEF TwigsInv, TwigsTyped
  <2> QED
    BY <1>1, <2>1 DEF TwigsInv, TwigsTyped
<1>3. \/ run' = run
      \/ /\ run.stage \in {"works", "named"}
         /\ \/ run' = [run EXCEPT !.stage = "committed"]
            \/ \E l \in SUBSET Nat : run' = [run EXCEPT !.stage = "committed", !.rec.left = l]
  <2>1. CASE \E dirty \in BOOLEAN : Twigs!CommitTurn(dirty)
    <3>1. run.stage # "none" /\ run.stage \in {"works", "named"}
      BY <2>1 DEF Twigs!CommitTurn
    <3>2. run.task \in Tasks /\ trees[run.task] \in Twigs!Names
      BY <3>1 DEF TwigsInv, TwigsTyped, RunOK
    <3>3. refs'[trees[run.task]] \in SUBSET Nat
      BY <1>2, <3>2
    <3> QED
      BY <2>1, <3>1, <3>3 DEF Twigs!CommitTurn
  <2>2. CASE \E n \in Twigs!Names : Twigs!HandCommits(n)
    BY <2>2 DEF Twigs!HandCommits
  <2> QED
    BY <2>1, <2>2
<1>4. /\ run' \in [task : Tasks \union {"nobody"}, stage : TwigStages, rec : TwigRecord]
      /\ run'.task = run.task /\ run'.rec.branch = run.rec.branch
      /\ run'.rec.placed = run.rec.placed /\ (RecordOK(run.rec) => RecordOK(run'.rec))
      /\ run'.stage # "none" <=> run.stage # "none"
      /\ run'.stage # run.stage => run.stage \in {"works", "named"} /\ run'.stage = "committed"
  <2>1. run \in [task : Tasks \union {"nobody"}, stage : TwigStages, rec : TwigRecord]
    BY DEF TwigsInv, TwigsTyped
  <2>2. CASE run' = run
    BY <2>1, <2>2
  <2>3. CASE run.stage \in {"works", "named"} /\ run' = [run EXCEPT !.stage = "committed"]
    BY <2>1, <2>3 DEF TwigStages
  <2>4. ASSUME run.stage \in {"works", "named"}, NEW l \in SUBSET Nat,
               run' = [run EXCEPT !.stage = "committed", !.rec.left = l]
        PROVE  /\ run' \in [task : Tasks \union {"nobody"}, stage : TwigStages, rec : TwigRecord]
               /\ run'.task = run.task /\ run'.rec.branch = run.rec.branch
               /\ run'.rec.placed = run.rec.placed /\ (RecordOK(run.rec) => RecordOK(run'.rec))
               /\ run'.stage = "committed"
    <3> DEFINE r == [run.rec EXCEPT !.left = l]
    <3>1. /\ r \in TwigRecord /\ r.branch = run.rec.branch /\ r.placed = run.rec.placed
          /\ r.status = run.rec.status /\ r.workOn = run.rec.workOn /\ r.base = run.rec.base
      BY <2>1 DEF TwigRecord
    <3>2. run'.stage = "committed" /\ run'.task = run.task /\ run'.rec = r
          /\ run' \in [task : Tasks \union {"nobody"}, stage : TwigStages, rec : TwigRecord]
      BY <2>1, <2>4, <3>1 DEF TwigStages
    <3> HIDE DEF r
    <3> QED
      BY <3>1, <3>2 DEF RecordOK
  <2> QED
    BY <1>3, <2>2, <2>3, <2>4
<1>5. TwigsTyped' /\ TreesOK'
  BY <1>1, <1>2, <1>4 DEF TwigsInv, TwigsTyped, TreesOK
<1>6. RunOK'
  BY <1>1, <1>4 DEF TwigsInv, RunOK
<1>7. ASSUME Named PROVE Named'
  BY <1>1, <1>4, <1>7 DEF Named, Busy
<1> QED
  BY <1>5, <1>6, <1>7 DEF TwigsInv

\* A step of a person, or the end of an abandon, that keeps every branch that is
\* checked out, and checks nothing out.
LEMMA Bystander ==
  ASSUME TwigsInv, NEW t, UNCHANGED <<origin, run, maker>>,
      main' \in Twigs!Names \union {Twigs!None},
         refs' \in [Twigs!Names -> SUBSET Nat],
         \A n \in Twigs!Names : refs'[n] # refs[n] => \A u \in Tasks \ {t} : trees[u] # n,
         \/ trees' = trees /\ \A n \in Twigs!Names : refs'[n] # refs[n] => \A u \in Tasks : trees[u] # n
         \/ t \in Tasks /\ trees' = [trees EXCEPT ![t] = Twigs!None] /\ ~Busy(t),
         \/ UNCHANGED <<records, going>>
         \/ \E s \in TwigsStatus \ {"unborn"} :
              /\ t \in Tasks /\ ~Busy(t) /\ records' = [records EXCEPT ![t].status = s]
              /\ going' = [going EXCEPT ![t] = "no"]
  PROVE  TwigsInv' /\ (Named => Named')
<1>1. /\ records' \in [Tasks -> TwigRecord] /\ \A u \in Tasks : RecordOK(records'[u])
      /\ \A u \in Tasks : /\ records'[u].branch = records[u].branch
                          /\ records'[u].placed = records[u].placed
                          /\ records[u].status # "unborn" => records'[u].status # "unborn"
                          /\ Busy(u) => records'[u] = records[u]
      /\ going' \in [Tasks -> {"no", "tree", "branch"}]
      /\ \A u \in Tasks : going'[u] # "no" => records'[u].status # "unborn"
      /\ \A u \in Tasks : going'[u] # "no" => going'[u] = going[u]
  <2>1. CASE UNCHANGED <<records, going>>
    BY <2>1 DEF TwigsInv, TwigsTyped
  <2>2. CASE ~UNCHANGED <<records, going>>
    <3>0. PICK s \in TwigsStatus \ {"unborn"} :
                 /\ t \in Tasks /\ ~Busy(t) /\ records' = [records EXCEPT ![t].status = s]
                 /\ going' = [going EXCEPT ![t] = "no"]
      BY <2>2
    <3> DEFINE r == [records[t] EXCEPT !.status = s]
    <3>1. /\ RecordOK(r) /\ r.status = s /\ r.branch = records[t].branch
             /\ r.placed = records[t].placed
      BY <3>0, RecordFields DEF TwigsInv, TwigsTyped
    <3>2. records' = [records EXCEPT ![t] = r]
      BY <3>0
    <3> HIDE DEF r
    <3> QED
      BY <3>0, <3>1, <3>2 DEF TwigsInv, TwigsTyped, RecordOK
  <2> QED
    BY <2>1, <2>2
<1>2. /\ trees' \in [Tasks -> Twigs!Names \union {Twigs!None}]
      /\ \A u \in Tasks : trees'[u] # Twigs!None => trees'[u] = trees[u]
         /\ refs'[trees[u]] = refs[trees[u]]
      /\ \A u \in Tasks : Busy(u) => trees'[u] = trees[u]
  BY DEF TwigsInv, TwigsTyped
<1>3. TwigsTyped' /\ TreesOK'
  BY <1>1, <1>2 DEF TwigsInv, TwigsTyped, TreesOK
<1>4. RunOK'
  <2> SUFFICES ASSUME run.stage # "none" PROVE RunOK'
    BY DEF RunOK
  <2>1. run.task \in Tasks /\ Busy(run.task)
    BY DEF TwigsInv, RunOK, Busy
  <2> QED
    BY <1>1, <1>2, <2>1 DEF TwigsInv, RunOK
<1>5. ASSUME Named PROVE Named'
  BY <1>1, <1>2, <1>5 DEF Named, Busy
<1> QED
  BY <1>3, <1>4, <1>5 DEF TwigsInv

LEMMA ByHand ==
  ASSUME TwigsInv,
         \/ \E n \in Twigs!Names \union {Twigs!None} : Twigs!HandChecksOut(n)
         \/ \E n \in Twigs!Names : Twigs!HandDeletes(n)
         \/ \E t \in Tasks : Twigs!HandRemoves(t)
  PROVE  TwigsInv' /\ (Named => Named')
<1>1. /\ refs \in [Twigs!Names -> SUBSET Nat] /\ main \in Twigs!Names \union {Twigs!None}
      /\ trees \in [Tasks -> Twigs!Names \union {Twigs!None}]
  BY DEF TwigsInv, TwigsTyped
<1>2. CASE \E n \in Twigs!Names \union {Twigs!None} : Twigs!HandChecksOut(n)
  <2>1. main' \in Twigs!Names \union {Twigs!None}
        /\ UNCHANGED <<refs, origin, trees, records, run, going, maker>>
    BY <1>2 DEF Twigs!HandChecksOut
  <2> QED
    BY <1>1, <2>1, Bystander
<1>3. CASE \E n \in Twigs!Names : Twigs!HandDeletes(n)
  <2>1. PICK n \in Twigs!Names : Twigs!HandDeletes(n)
    BY <1>3
  <2>2. /\ refs' = [refs EXCEPT ![n] = Twigs!NoRef] /\ \A u \in Tasks : trees[u] # n
        /\ UNCHANGED <<origin, main, trees, records, run, going, maker>>
    BY <2>1 DEF Twigs!HandDeletes, Twigs!InUse
  <2>3. refs' \in [Twigs!Names -> SUBSET Nat] /\ \A m \in Twigs!Names : refs'[m] # refs[m] => m = n
    BY <1>1, <2>2 DEF Twigs!NoRef
  <2>4. \A m \in Twigs!Names : refs'[m] # refs[m] => \A u \in Tasks \ {"nobody"} : trees[u] # m
    BY <2>2, <2>3
  <2>5. trees' = trees /\ \A m \in Twigs!Names : refs'[m] # refs[m] => \A u \in Tasks : trees[u] # m
    BY <2>2, <2>3
  <2> QED
    BY <1>1, <2>2, <2>3, <2>4, <2>5, Bystander
<1>4. CASE \E t \in Tasks : Twigs!HandRemoves(t)
  <2>0. PICK t \in Tasks : Twigs!HandRemoves(t)
    BY <1>4
  <2>1. /\ trees' = [trees EXCEPT ![t] = Twigs!None] /\ run.task # t
        /\ UNCHANGED <<refs, origin, main, records, run, going, maker>>
    BY <2>0 DEF Twigs!HandRemoves
  <2> QED
    BY <1>1, <2>1, Bystander DEF Busy
<1> QED
  BY <1>2, <1>3, <1>4

LEMMA AbandonOver ==
  ASSUME TwigsInv, NEW t \in Tasks, Twigs!AbandonEnds(t)
  PROVE  TwigsInv' /\ (Named => Named')
<1> DEFINE n == records[t].branch
           s == IF records[t].status = "shipped" THEN "shipped" ELSE "failed"
<1>1. /\ refs \in [Twigs!Names -> SUBSET Nat] /\ main \in Twigs!Names \union {Twigs!None}
      /\ records \in [Tasks -> TwigRecord] /\ trees \in [Tasks -> Twigs!Names \union {Twigs!None}]
  BY DEF TwigsInv, TwigsTyped
<1>2. /\ trees' = [trees EXCEPT ![t] = Twigs!None] /\ ~Busy(t)
      /\ going' = [going EXCEPT ![t] = "no"] /\ UNCHANGED <<origin, main, run, maker>>
  BY DEF Twigs!AbandonEnds, TwigsInv, RunOK, Busy
<1>3. s \in TwigsStatus \ {"unborn"} /\ records' = [records EXCEPT ![t].status = s]
  BY <1>1 DEF Twigs!AbandonEnds, TwigsStatus, TwigRecord
<1>4. /\ refs' \in [Twigs!Names -> SUBSET Nat]
      /\ \A m \in Twigs!Names : refs'[m] # refs[m] => \A u \in Tasks \ {t} : trees[u] # m
  <2>1. \/ refs' = refs
        \/ refs' = [refs EXCEPT ![n] = Twigs!NoRef] /\ \A u \in Tasks \ {t} : trees[u] # n
    BY DEF Twigs!AbandonEnds, Twigs!InUse
  <2> QED
    BY <1>1, <2>1 DEF Twigs!NoRef
<1> HIDE DEF s
<1> QED
  BY <1>1, <1>2, <1>3, <1>4, Bystander

LEMMA AbandonStart ==
  ASSUME TwigsInv, NEW t \in Tasks, Twigs!AbandonBegins(t)
  PROVE  TwigsInv' /\ (Named => Named')
<1>1. /\ going' \in [Tasks -> {"no", "tree", "branch"}] /\ records[t].status # "unborn"
         /\ run.task # t
      /\ \A u \in Tasks : u # t => going'[u] = going[u]
      /\ UNCHANGED <<refs, origin, main, trees, records, run, maker>>
  BY DEF Twigs!AbandonBegins, TwigsInv, TwigsTyped
<1>2. TwigsTyped' /\ TreesOK' /\ RunOK'
  BY <1>1 DEF TwigsInv, TwigsTyped, TreesOK, RunOK
<1>3. Named => Named'
  BY <1>1 DEF Named, Busy
<1> QED
  BY <1>2, <1>3 DEF TwigsInv

\* The process dies.  A turn that has been given its worktree, or has renamed its
\* branch, and whose record does not say so yet, is what the condition leaves out.
LEMMA ProcessEnds ==
  ASSUME TwigsInv, Twigs!Crashes
  PROVE  TwigsInv' /\ (Named /\ CrashesAt \intersect {"made", "renamed"} = {} => Named')
<1>1. /\ run' = Twigs!NoRun /\ going' = [t \in Tasks |-> "no"] /\ run.stage \in CrashesAt
      /\ UNCHANGED <<refs, origin, main, trees, maker>>
  BY DEF Twigs!Crashes
<1>2. Twigs!NoRun \in [task : Tasks \union {"nobody"}, stage : TwigStages, rec : TwigRecord]
  BY DEF Twigs!NoRun, Twigs!NoRecord, TwigRecord, TwigsStatus, TwigStages, Twigs!NoRef
<1>3. /\ records' \in [Tasks -> TwigRecord] /\ \A t \in Tasks : RecordOK(records'[t])
      /\ \A t \in Tasks : records'[t].branch = records[t].branch
         /\ records'[t].placed = records[t].placed
  <2>1. ASSUME NEW t \in Tasks
        PROVE  /\ records'[t] \in TwigRecord /\ RecordOK(records'[t])
               /\ records'[t].branch = records[t].branch /\ records'[t].placed = records[t].placed
    <3>1. records'[t] = records[t]
          \/ \E s \in {"failed", "cut"} : records'[t] = [records[t] EXCEPT !.status = s]
      BY DEF Twigs!Crashes
    <3>2. RecordOK(records[t])
      BY DEF TwigsInv, TwigsTyped
    <3>3. ASSUME NEW s \in {"failed", "cut"}, records'[t] = [records[t] EXCEPT !.status = s]
          PROVE  /\ RecordOK(records'[t])
                 /\ records'[t].branch = records[t].branch /\ records'[t].placed = records[t].placed
      BY <3>2, <3>3, RecordFields DEF TwigsStatus
    <3> QED
      BY <3>1, <3>2, <3>3 DEF RecordOK
  <2>2. DOMAIN records' = Tasks /\ records' = [t \in Tasks |-> records'[t]]
    BY DEF Twigs!Crashes
  <2> QED
    BY <2>1, <2>2
<1>4. TwigsTyped' /\ TreesOK' /\ RunOK'
  BY <1>1, <1>2, <1>3 DEF TwigsInv, TwigsTyped, TreesOK, RunOK, Twigs!NoRun
<1>5. ASSUME Named, CrashesAt \intersect {"made", "renamed"} = {} PROVE Named'
  <2>1. run.stage \in TwigStages \ {"made", "renamed"}
    BY <1>1, <1>5 DEF TwigsInv, TwigsTyped
  <2>2. ASSUME NEW u \in Tasks, trees[u] # Twigs!None, records[u].placed
        PROVE  trees[u] = records[u].branch
    BY <1>5, <2>1, <2>2 DEF Named, Busy, TwigStages
  <2> QED
    BY <1>1, <1>3, <2>2 DEF Named, Busy, Twigs!NoRun
<1> QED
  BY <1>4, <1>5 DEF TwigsInv

LEMMA TwigsInit == Twigs!Init => TwigsInv /\ Named /\ NothingGoes
<1> SUFFICES ASSUME Twigs!Init PROVE TwigsInv /\ Named /\ NothingGoes
  OBVIOUS
<1>1. Twigs!NoRecord \in TwigRecord /\ RecordOK(Twigs!NoRecord)
      /\ Twigs!NoRecord.status = "unborn" /\ ~Twigs!NoRecord.placed
  BY DEF Twigs!NoRecord, TwigRecord, RecordOK, TwigsStatus, Twigs!NoRef
<1>2. Twigs!NoRun \in [task : Tasks \union {"nobody"}, stage : TwigStages, rec : TwigRecord]
      /\ Twigs!NoRun.stage = "none"
  BY <1>1 DEF Twigs!NoRun, TwigStages
<1>3. refs \in [Twigs!Names -> SUBSET Nat] /\ origin \in [Twigs!Names -> SUBSET Nat]
  BY DEF Twigs!Init, Twigs!NoRef
<1>4. maker \in Seq(Tasks \union {"person", "guest"})
  BY DEF Twigs!Init
<1>5. TwigsTyped
  BY <1>1, <1>2, <1>3, <1>4 DEF Twigs!Init, TwigsTyped
<1>6. TreesOK /\ RunOK /\ Named /\ NothingGoes
  BY <1>2 DEF Twigs!Init, TreesOK, RunOK, Named, NothingGoes, Busy
<1> QED
  BY <1>5, <1>6 DEF TwigsInv

\* Every step keeps the invariant, and the names too but for the deaths of the
\* process that leave a worktree untold.
LEMMA TwigsStep ==
  ASSUME TwigsInv, [Twigs!Next]_(Twigs!vars)
  PROVE  TwigsInv' /\ (Named /\ CrashesAt \intersect {"made", "renamed"} = {} => Named')
<1>1. CASE Twigs!Next
  <2>1. CASE \E t \in Tasks : Twigs!AbandonEnds(t)
    BY <2>1, AbandonOver
  <2>2. CASE Twigs!Others
    <3>1. CASE \E t \in Tasks : \/ Twigs!CreateFork(t) \/ Twigs!Replies(t) \/ Twigs!Resumes(t)
                                   \/ Twigs!Stops(t) \/ Twigs!Ships(t)
                                \/ \E n \in Twigs!Names : Twigs!CreateWorkOn(t, n)
      BY <3>1, GestureOnRecord
    <3>2. CASE \E t \in Tasks : Twigs!Materializes(t)
      BY <3>2, Materialization
    <3>3. CASE \E t \in Tasks : Twigs!AbandonBegins(t)
      BY <3>3, AbandonStart
    <3>4. CASE \E t \in Tasks : Twigs!HandRemoves(t)
      BY <3>4, ByHand
    <3>5. CASE Twigs!Launches \/ Twigs!SavesName
          \/ \E end \in {"rest", "cut", "failed", "queued"} : Twigs!Settles(end)
      BY <3>5, TurnSaves
    <3>6. CASE (\E dirty \in BOOLEAN : Twigs!CommitTurn(dirty))
          \/ \E n \in Twigs!Names : Twigs!HandCommits(n)
      BY <3>6, Committing
    <3>7. CASE \E slug \in Proposals, n \in Twigs!Names : Twigs!Renames(slug, n)
      BY <3>7, Renaming
    <3>8. CASE (\E n \in Twigs!Names : Twigs!HandDeletes(n))
          \/ \E n \in Twigs!Names \union {Twigs!None} : Twigs!HandChecksOut(n)
      BY <3>8, ByHand
    <3>9. CASE Twigs!Crashes
      BY <3>9, ProcessEnds
    <3> QED
      BY <2>2, <3>1, <3>2, <3>3, <3>4, <3>5, <3>6, <3>7, <3>8, <3>9 DEF Twigs!Others
  <2> QED
    BY <1>1, <2>1, <2>2 DEF Twigs!Next
<1>2. CASE UNCHANGED Twigs!vars
  BY <1>2 DEF Twigs!vars, TwigsInv, TwigsTyped, TreesOK, RunOK, Named, Busy
<1> QED
  BY <1>1, <1>2

-----------------------------------------------------------------------------
(***************************************************************************)
(* The commits.  An abandon that does not wait for the repository's lock   *)
(* decides and acts at once: what goes with a branch is what it saw.       *)
(***************************************************************************)

LEMMA HeadsGrow ==
  ASSUME NEW h, NEW g, \A n \in Twigs!Names : \E m \in Twigs!Names : h[n] \ Twigs!NoRef \subseteq g[m]
  PROVE  Twigs!OnHeads(h) \subseteq Twigs!OnHeads(g)
BY DEF Twigs!OnHeads

LEMMA NothingGoesStep ==
  ASSUME TwigsInv, NothingGoes, ~BranchWaits, [Twigs!Next]_(Twigs!vars)
  PROVE  NothingGoes'
<1>1. ASSUME NEW t \in Tasks, Twigs!AbandonEnds(t) PROVE NothingGoes'
  <2>1. ASSUME NEW u \in Tasks, going'[u] = "branch"
        PROVE  records'[u].branch \in Twigs!Names /\ refs'[records'[u].branch] \subseteq {0}
    <3>1. u # t /\ going[u] = "branch" /\ records'[u] = records[u]
      BY <1>1, <2>1 DEF Twigs!AbandonEnds, TwigsInv, TwigsTyped
    <3>2. records[u].branch \in Twigs!Names /\ refs[records[u].branch] \subseteq {0}
      BY <3>1 DEF NothingGoes
    <3>3. \/ refs' = refs
          \/ refs' = [refs EXCEPT ![records[t].branch] = Twigs!NoRef]
      BY <1>1 DEF Twigs!AbandonEnds
    <3> QED
      BY <3>1, <3>2, <3>3 DEF TwigsInv, TwigsTyped, Twigs!NoRef
  <2> QED
    BY <2>1 DEF NothingGoes
<1>2. ASSUME NEW t \in Tasks, Twigs!AbandonBegins(t), \A u \in Tasks : going[u] = "no"
      PROVE NothingGoes'
  <2>1. ASSUME NEW u \in Tasks, going'[u] = "branch"
        PROVE  records'[u].branch \in Twigs!Names /\ refs'[records'[u].branch] \subseteq {0}
    <3>1. /\ u = t /\ ~records[t].workOn /\ Twigs!Empty(t) /\ UNCHANGED <<refs, records>>
      BY <1>2, <2>1 DEF Twigs!AbandonBegins, TwigsInv, TwigsTyped
    <3>2. records[t].branch # Twigs!None /\ refs[records[t].branch] = records[t].base
      BY <3>1 DEF Twigs!Empty, Twigs!Exists
    <3>3. RecordOK(records[t])
      BY DEF TwigsInv, TwigsTyped
    <3> QED
      BY <3>1, <3>2, <3>3 DEF RecordOK, TwigRecord
  <2> QED
    BY <2>1 DEF NothingGoes
<1>3. ASSUME Twigs!Others, \A u \in Tasks : going[u] = "no",
      ~\E t \in Tasks : Twigs!AbandonBegins(t)
      PROVE  NothingGoes'
  <2>1. \A u \in Tasks : going'[u] = "no"
    <3>1. going' = going \/ going' = [t \in Tasks |-> "no"]
      BY <1>3
         DEF Twigs!Others, Twigs!CreateFork, Twigs!CreateWorkOn, Twigs!Materializes,
             Twigs!Replies, Twigs!Resumes, Twigs!Stops, Twigs!Ships,
                  Twigs!HandRemoves, Twigs!Launches, Twigs!SavesName, Twigs!CommitTurn,
                      Twigs!Renames, Twigs!Settles, Twigs!HandCommits,
                  Twigs!HandDeletes, Twigs!HandChecksOut, Twigs!Crashes
    <3> QED
      BY <1>3, <3>1
  <2> QED
    BY <2>1 DEF NothingGoes
<1>4. CASE UNCHANGED Twigs!vars
  BY <1>4 DEF Twigs!vars, NothingGoes
<1> QED
  BY <1>1, <1>2, <1>3, <1>4 DEF Twigs!Next

\* What a step makes of the heads.
LEMMA WorkStep ==
  ASSUME TwigsInv, NothingGoes, Twigs!WorkIsOnABranch, [Twigs!Next]_(Twigs!vars)
  PROVE  Twigs!WorkIsOnABranch'
<1> DEFINE Kept == /\ Twigs!OnHeads(refs) \subseteq Twigs!OnHeads(refs') \union trashed' \union Twigs!OnHeads(origin')
                   /\ Twigs!OnHeads(origin) \subseteq Twigs!OnHeads(origin')
                   /\ trashed \subseteq trashed'
<1>1. refs \in [Twigs!Names -> SUBSET Nat] /\ origin \in [Twigs!Names -> SUBSET Nat]
      /\ DOMAIN maker = 1 .. Len(maker)
      /\ Len(maker) \in Nat
  BY DEF TwigsInv, TwigsTyped
<1>2. ASSUME Kept, maker' = maker PROVE Twigs!WorkIsOnABranch'
  BY <1>2 DEF Twigs!WorkIsOnABranch
<1> HIDE DEF Kept
<1>3. ASSUME UNCHANGED <<refs, origin, trashed, maker>> PROVE Twigs!WorkIsOnABranch'
  BY <1>3 DEF Twigs!WorkIsOnABranch, Twigs!OnHeads
<1>4. ASSUME NEW n \in Twigs!Names, NEW tip \in SUBSET Nat, refs[n] \ Twigs!NoRef \subseteq tip,
             refs' = [refs EXCEPT ![n] = tip], UNCHANGED <<origin, trashed, maker>>
      PROVE  Twigs!WorkIsOnABranch'
  <2>1. \A m \in Twigs!Names : refs[m] \ Twigs!NoRef \subseteq refs'[m]
    BY <1>1, <1>4
  <2>2. Twigs!OnHeads(refs) \subseteq Twigs!OnHeads(refs')
    BY <2>1, HeadsGrow
  <2>3. Twigs!OnHeads(origin') = Twigs!OnHeads(origin)
    BY <1>4 DEF Twigs!OnHeads
  <2> QED
    BY <1>2, <1>4, <2>2, <2>3 DEF Kept
<1>5. ASSUME NEW t \in Tasks, Twigs!Materializes(t) PROVE Twigs!WorkIsOnABranch'
  <2>1. UNCHANGED <<origin, trashed, maker>> /\ records[t] \in TwigRecord
    BY <1>5 DEF Twigs!Materializes, TwigsInv, TwigsTyped
  <2>2. CASE Twigs!Stays(t)
    BY <1>3, <2>1, <2>2 DEF Twigs!Stays
  <2>3. CASE Twigs!Adopts(t)
    <3> DEFINE n == records[t].branch
               tip == IF Twigs!Exists(n) THEN refs[n] ELSE origin[n]
    <3>1. n \in Twigs!Names
      BY <2>1, <2>3 DEF Twigs!Adopts, Twigs!Adoptable, Twigs!Exists, Twigs!Pushed, TwigRecord
    <3>2. refs' = [refs EXCEPT ![n] = tip]
      BY <2>3 DEF Twigs!Adopts
    <3>3. n # Twigs!None
      BY <2>3 DEF Twigs!Adopts, Twigs!Adoptable, Twigs!Exists, Twigs!Pushed
    <3>4. tip \in SUBSET Nat /\ refs[n] \ Twigs!NoRef \subseteq tip
      BY <1>1, <3>1, <3>3 DEF Twigs!Exists, Twigs!NoRef
    <3> HIDE DEF n, tip
    <3> QED
      BY <1>4, <2>1, <3>1, <3>2, <3>4
  <2>4. ASSUME NEW n \in Twigs!Names, Twigs!Forks(t, n) PROVE Twigs!WorkIsOnABranch'
    <3>1. refs' = [refs EXCEPT ![n] = {}] /\ (n = Twigs!None \/ refs[n] = Twigs!NoRef)
      BY <2>4 DEF Twigs!Forks, Twigs!Free, Twigs!Exists
    <3>2. n # Twigs!None
      BY <2>4 DEF Twigs!Forks, Twigs!Free, Twigs!None, Twigs!Names, Twigs!User
    <3> QED
      BY <1>4, <2>1, <3>1, <3>2
  <2> QED
    BY <1>5, <2>2, <2>3, <2>4 DEF Twigs!Materializes
<1>6. ASSUME NEW slug, NEW n \in Twigs!Names, Twigs!Renames(slug, n) PROVE Twigs!WorkIsOnABranch'
  <2> DEFINE old == run.rec.branch
  <2>1. /\ refs' = [refs EXCEPT ![n] = refs[old], ![old] = Twigs!NoRef]
        /\ Twigs!Exists(old) /\ ~Twigs!Exists(n) /\ UNCHANGED <<origin, trashed, maker>>
    BY <1>6 DEF Twigs!Renames, Twigs!Renamable, Twigs!Free
  <2>2. n # Twigs!None /\ old \in Twigs!Names
    BY <1>6, <2>1
       DEF Twigs!Renames, Twigs!Free, Twigs!None, Twigs!Names, Twigs!User, TwigsInv, TwigsTyped,
           Twigs!Exists, TwigRecord
  <2>3. old # n /\ refs[n] = Twigs!NoRef
    BY <2>1, <2>2 DEF Twigs!Exists
  <2>4. refs'[n] = refs[old] /\ \A m \in Twigs!Names \ {n, old} : refs'[m] = refs[m]
    BY <1>1, <2>1, <2>2, <2>3
  <2>5. \A m \in Twigs!Names : \E k \in Twigs!Names : refs[m] \ Twigs!NoRef \subseteq refs'[k]
    <3>1. ASSUME NEW m \in Twigs!Names
          PROVE \E k \in Twigs!Names : refs[m] \ Twigs!NoRef \subseteq refs'[k]
      BY <2>2, <2>3, <2>4
    <3> QED
      BY <3>1
  <2>6. Twigs!OnHeads(refs) \subseteq Twigs!OnHeads(refs')
    BY <2>5, HeadsGrow
  <2>7. Twigs!OnHeads(origin') = Twigs!OnHeads(origin)
    BY <2>1 DEF Twigs!OnHeads
  <2> QED
    BY <1>2, <2>1, <2>6, <2>7 DEF Kept
<1>7. ASSUME NEW n \in Twigs!Names, NEW who, Twigs!CommitTo(n, who), UNCHANGED <<origin, trashed>>
      PROVE  Twigs!WorkIsOnABranch'
  <2>1. maker' = Append(maker, who) /\ refs' = [refs EXCEPT ![n] = refs[n] \union {Len(maker) + 1}]
    BY <1>7 DEF Twigs!CommitTo
  <2>2. DOMAIN maker' = DOMAIN maker \union {Len(maker) + 1}
    BY <1>1, <2>1 DEF TwigsInv, TwigsTyped
  <2>3. \A m \in Twigs!Names : refs[m] \ Twigs!NoRef \subseteq refs'[m]
    BY <1>1, <2>1
  <2>4. Twigs!OnHeads(refs) \subseteq Twigs!OnHeads(refs')
    BY <2>3, HeadsGrow
  <2>5. Len(maker) + 1 \in refs'[n] \ Twigs!NoRef
    BY <1>1, <2>1 DEF Twigs!NoRef
  <2>6. Len(maker) + 1 \in Twigs!OnHeads(refs')
    BY <2>5 DEF Twigs!OnHeads
  <2>7. Twigs!OnHeads(origin') = Twigs!OnHeads(origin)
    BY <1>7 DEF Twigs!OnHeads
  <2> QED
    BY <1>7, <2>2, <2>4, <2>6, <2>7 DEF Twigs!WorkIsOnABranch
<1>8. ASSUME NEW t \in Tasks, Twigs!Ships(t) PROVE Twigs!WorkIsOnABranch'
  <2> DEFINE n == records[t].branch
  <2>1. /\ Twigs!Exists(n) /\ (Twigs!Pushed(n) => origin[n] \subseteq refs[n])
           /\ n \in Twigs!Names /\ n # Twigs!None
        /\ origin' = [origin EXCEPT ![n] = refs[n]] /\ UNCHANGED <<refs, trashed, maker>>
    BY <1>8 DEF Twigs!Ships, Twigs!Exists, TwigsInv, TwigsTyped, TwigRecord
  <2>2. \A m \in Twigs!Names : origin[m] \ Twigs!NoRef \subseteq origin'[m]
    BY <1>1, <2>1 DEF Twigs!Pushed
  <2>3. Twigs!OnHeads(origin) \subseteq Twigs!OnHeads(origin')
    BY <2>2, HeadsGrow
  <2>4. Twigs!OnHeads(refs') = Twigs!OnHeads(refs)
    BY <2>1 DEF Twigs!OnHeads
  <2> QED
    BY <1>2, <2>1, <2>3, <2>4 DEF Kept
<1>9. ASSUME NEW t \in Tasks, Twigs!AbandonEnds(t) PROVE Twigs!WorkIsOnABranch'
  <2> DEFINE n == records[t].branch
  <2>1. UNCHANGED <<origin, trashed, maker>>
    BY <1>9 DEF Twigs!AbandonEnds
  <2>2. CASE refs' = refs
    BY <1>3, <2>1, <2>2
  <2>3. CASE refs' # refs
    <3>1. going[t] = "branch" /\ refs' = [refs EXCEPT ![n] = Twigs!NoRef]
      BY <1>9, <2>3 DEF Twigs!AbandonEnds
    <3>2. n \in Twigs!Names /\ refs[n] \subseteq {0}
      BY <3>1 DEF NothingGoes
    <3>3. refs[n] \ Twigs!NoRef \subseteq Twigs!NoRef /\ Twigs!NoRef \in SUBSET Nat
      BY <3>2 DEF Twigs!NoRef
    <3> HIDE DEF n
    <3> QED
      BY <1>4, <2>1, <3>1, <3>2, <3>3
  <2> QED
    BY <2>2, <2>3
<1>10. ASSUME NEW n \in Twigs!Names, Twigs!HandDeletes(n) PROVE Twigs!WorkIsOnABranch'
  <2>1. /\ refs' = [refs EXCEPT ![n] = Twigs!NoRef] /\ UNCHANGED <<origin, maker>>
        /\ trashed' = trashed \union (refs[n] \ (Twigs!OnHeads(refs') \union Twigs!OnHeads(origin)))
    BY <1>10 DEF Twigs!HandDeletes
  <2>2. Twigs!OnHeads(origin') = Twigs!OnHeads(origin)
    BY <2>1 DEF Twigs!OnHeads
  <2>3. ASSUME NEW c \in Twigs!OnHeads(refs)
        PROVE c \in Twigs!OnHeads(refs') \union trashed' \union Twigs!OnHeads(origin')
    <3>1. PICK m \in Twigs!Names : c \in refs[m] /\ c \notin Twigs!NoRef
      BY DEF Twigs!OnHeads
    <3>2. CASE m = n
      BY <2>1, <2>2, <3>1, <3>2
    <3>3. CASE m # n
      BY <1>1, <2>1, <3>1, <3>3 DEF Twigs!OnHeads
    <3> QED
      BY <3>2, <3>3
  <2> QED
    BY <1>2, <2>1, <2>2, <2>3 DEF Kept
<1>11. ASSUME NEW dirty \in BOOLEAN, Twigs!CommitTurn(dirty) PROVE Twigs!WorkIsOnABranch'
  <2>1. trees[run.task] \in Twigs!Names
    BY <1>11 DEF Twigs!CommitTurn, TwigsInv, TwigsTyped, RunOK
  <2>2. UNCHANGED <<refs, maker>> \/ Twigs!CommitTo(trees[run.task], run.task)
    BY <1>11 DEF Twigs!CommitTurn
  <2>3. UNCHANGED <<origin, trashed>>
    BY <1>11 DEF Twigs!CommitTurn
  <2> QED
    BY <1>3, <1>7, <2>1, <2>2, <2>3
<1>12. ASSUME NEW n \in Twigs!Names, Twigs!HandCommits(n) PROVE Twigs!WorkIsOnABranch'
  BY <1>7, <1>12 DEF Twigs!HandCommits
<1>13. CASE UNCHANGED Twigs!vars
  BY <1>3, <1>13 DEF Twigs!vars
<1>14. CASE \/ \E t \in Tasks : \/ Twigs!CreateFork(t)
                                   \/ \E n \in Twigs!Names : Twigs!CreateWorkOn(t, n)
                                \/ Twigs!Replies(t) \/ Twigs!Resumes(t) \/ Twigs!Stops(t)
                                \/ Twigs!AbandonBegins(t) \/ Twigs!HandRemoves(t)
            \/ Twigs!Launches \/ Twigs!SavesName
            \/ \E end \in {"rest", "cut", "failed", "queued"} : Twigs!Settles(end)
            \/ \E n \in Twigs!Names \union {Twigs!None} : Twigs!HandChecksOut(n)
            \/ Twigs!Crashes
  <2>1. UNCHANGED <<refs, origin, trashed, maker>>
    BY <1>14
       DEF Twigs!CreateFork, Twigs!CreateWorkOn, Twigs!Replies, Twigs!Resumes, Twigs!Stops,
           Twigs!AbandonBegins, Twigs!HandRemoves,
                 Twigs!Launches, Twigs!SavesName, Twigs!Settles, Twigs!HandChecksOut, Twigs!Crashes
  <2> QED
    BY <1>3, <2>1
<1> QED
  BY <1>5, <1>6, <1>8, <1>9, <1>10, <1>11, <1>12, <1>13, <1>14 DEF Twigs!Next, Twigs!Others

\* No commit is lost but by the hand of a person, as long as an abandon decides a
\* branch's fate under the lock that it removes it under (removeTaskWorktree).
THEOREM NoWorkIsLost == ~BranchWaits => (Twigs!Spec => []Twigs!WorkIsOnABranch)
<1> SUFFICES ASSUME ~BranchWaits PROVE Twigs!Spec => []Twigs!WorkIsOnABranch
  OBVIOUS
<1>1. Twigs!Init => TwigsInv /\ NothingGoes /\ Twigs!WorkIsOnABranch
  <2>1. Twigs!Init => Twigs!WorkIsOnABranch
    BY DEF Twigs!Init, Twigs!WorkIsOnABranch
  <2> QED
    BY <2>1, TwigsInit
<1>2. TwigsInv /\ NothingGoes /\ Twigs!WorkIsOnABranch /\ [Twigs!Next]_(Twigs!vars) => (TwigsInv
      /\ NothingGoes /\ Twigs!WorkIsOnABranch)'
  BY TwigsStep, NothingGoesStep, WorkStep
<1> QED
  BY <1>1, <1>2, PTL DEF Twigs!Spec

\* Two worktrees never have one branch checked out, and the branch of each is
\* there, whatever a person and the deaths of the process do (ensureWorktree).
THEOREM OneCheckoutPerBranch == Twigs!Spec => []TreesOK
<1>1. TwigsInv /\ [Twigs!Next]_(Twigs!vars) => TwigsInv'
  BY TwigsStep
<1>2. TwigsInv => TreesOK
  BY DEF TwigsInv
<1> QED
  BY <1>1, <1>2, TwigsInit, PTL DEF Twigs!Spec

\* A worktree has the branch that its task's record names, unless the process dies
\* between the worktree, or the new name, and the record that tells of it.
THEOREM TreesAreNamed ==
  CrashesAt \intersect {"made", "renamed"} = {} => (Twigs!Spec => []Twigs!RecordNamesTheTree)
<1> SUFFICES ASSUME CrashesAt \intersect {"made",
    "renamed"} = {} PROVE Twigs!Spec => []Twigs!RecordNamesTheTree
  OBVIOUS
<1>1. TwigsInv /\ Named /\ [Twigs!Next]_(Twigs!vars) => (TwigsInv /\ Named)'
  BY TwigsStep
<1>2. TwigsInv /\ Named => Twigs!RecordNamesTheTree
  BY DEF Named, Twigs!RecordNamesTheTree, Busy
<1> QED
  BY <1>1, <1>2, TwigsInit, PTL DEF Twigs!Spec

-----------------------------------------------------------------------------
(* The runbook (Runbook) *)

\* Runs that overlap, requests that are lost, sleeps and crashes: each of the two
\* runbooks takes steps of it.
AnyBook == INSTANCE Runbook WITH
  Runbooks <- Books, MaxAttempts <- BookAttempts, MaxVersions <- BookVersions,
  Commands <- {"scan", "validate"}, Overlaps <- TRUE, Moves <- FALSE,
  Losses <- TRUE, Sleeps <- TRUE, Crashes <- TRUE, tree <- runbookTree, runs <- runbookRuns

BookStages == {"rest", "proposes", "copies", "runs", "destroys", "builds", "answers"}
BookIdle == [at |-> "rest", head |-> 0, attempts |-> 0, runbook |-> 0, saw |-> 0, lost |-> FALSE]
BookRun == [at : BookStages, head : Nat, attempts : 0 .. BookAttempts,
            runbook : Books \union {0}, saw : 0 .. BookVersions, lost : BOOLEAN]

\* What a run is at. Its commit is the last one, and the checkout has its files.
BookRunOK(r, t, h, passed) ==
  /\ r \in BookRun
  /\ r.at = "rest" => r = BookIdle
  /\ r.at # "rest" => r.head = Len(h) /\ t = h[r.head]
  /\ r.at \in {"copies", "runs", "destroys", "builds"} => r.runbook \in Books
  /\ r.at = "runs" => r.saw = t
  /\ r.at \in {"destroys", "builds"} => [runbook |-> r.runbook, tree |-> h[r.head]] \in passed
RunGoes(r) == BookRunOK(r, runbookTree', history', greens')

\* A validation is of a runbook that passed over the files of the commit it names, and
\* what was verified was.
BookTyped ==
  /\ runbookTree \in 1 .. BookVersions
  /\ history \in Seq(1 .. BookVersions) /\ Len(history) >= 1
  /\ runbook \in Books \union {0}
  /\ greens \subseteq [runbook : Books, tree : 1 .. BookVersions]
  /\ validation \in [of : Books \union {0}, at : 0 .. Len(history)]
  /\ verdict.status \in {"none", "refused", "run"}
  /\ runbookRuns \in [AnyBook!Processes -> BookRun]
Grounded ==
  validation # Book!NoValidation =>
    /\ validation.at # 0
    /\ [runbook |-> validation.of, tree |-> history[validation.at]] \in greens
BookInv ==
  /\ BookTyped /\ Grounded /\ Book!VerifiedByWhatPassed
  /\ \A p \in AnyBook!Processes : BookRunOK(runbookRuns[p], runbookTree, history, greens)
  /\ due \in BOOLEAN /\ (due => runbookRuns["daemon"] # BookIdle /\ ~runbookRuns["daemon"].lost)

\* Nothing is proposed, run nor validated at the start.
LEMMA BookInit == Book!ParametersAreSound => (Book!Init => BookInv)
<1> SUFFICES ASSUME Book!ParametersAreSound, Book!Init PROVE BookInv
  OBVIOUS
<1> USE DEF Book!ParametersAreSound
<1>1. Book!Resting = BookIdle /\ BookIdle \in BookRun
  BY DEF Book!Resting, BookIdle, BookRun, BookStages
<1>2. BookTyped
  BY <1>1
     DEF BookTyped, Book!Init, Book!NoValidation, Book!NotVerified, Book!Processes,
         AnyBook!Processes
<1>3. \A p \in AnyBook!Processes : runbookRuns[p] = BookIdle
  BY <1>1 DEF Book!Init, Book!Processes, AnyBook!Processes
<1>4. BookIdle.at = "rest"
  BY DEF BookIdle
<1> QED
  BY <1>1, <1>2, <1>3, <1>4
     DEF BookInv, BookRunOK, RunGoes, Grounded, Book!Init, Book!VerifiedByWhatPassed,
         Book!NotVerified

\* While a run is on, nothing is edited nor committed, so its commit stays the last.
LEMMA BookStep ==
  ASSUME Book!ParametersAreSound, BookInv, [AnyBook!Next]_(AnyBook!vars)
  PROVE  BookInv'
<1> USE DEF Book!ParametersAreSound
<1>0. CASE UNCHANGED AnyBook!vars
  BY <1>0
     DEF AnyBook!vars, BookInv, BookTyped, Grounded, BookRunOK, RunGoes, Book!VerifiedByWhatPassed
<1>a. AnyBook!Resting = BookIdle /\ BookIdle \in BookRun /\ BookIdle.at = "rest" /\ ~BookIdle.lost
  BY DEF AnyBook!Resting, BookIdle, BookRun, BookStages
<1>b. AnyBook!Processes = {"daemon", "scan", "validate"}
  BY DEF AnyBook!Processes
<1>c. ASSUME NEW p \in AnyBook!Processes
      PROVE  runbookRuns[p] = BookIdle <=> runbookRuns[p].at = "rest"
  BY <1>a DEF BookInv, BookRunOK, RunGoes
<1>d. AnyBook!Tip = Len(history) /\ Len(history) \in Nat
      /\ history[Len(history)] \in 1 .. BookVersions
  BY DEF AnyBook!Tip, BookInv, BookTyped
<1>e. BookAttempts \in Nat \ {0} /\ BookVersions \in Nat \ {0} /\ 1 \in 0 .. BookAttempts
      /\ 0 \in 0 .. BookVersions
  OBVIOUS
<1>f. ASSUME NEW at \in BookStages, NEW b \in Books \union {0}
      PROVE  [at |-> at, head |-> Len(history), attempts |-> 1, runbook |-> b, saw |-> 0,
              lost |-> FALSE] \in BookRun
  BY <1>d, <1>e DEF BookRun
\* The checkout and its history move while everything rests, or as they are.
<1>1. CASE AnyBook!Edits
  <2>1. \A p \in AnyBook!Processes : runbookRuns[p] = BookIdle
    BY <1>1, <1>a DEF AnyBook!Edits, AnyBook!AllRest
  <2>2. runbookTree' \in 1 .. BookVersions
    BY <1>1 DEF AnyBook!Edits
  <2>3. \A p \in AnyBook!Processes : BookRunOK(runbookRuns[p], runbookTree, history, greens)'
    BY <1>1, <1>a, <2>1 DEF AnyBook!Edits, BookRunOK, RunGoes
  <2> QED
    BY <1>1, <2>2, <2>3
       DEF AnyBook!Edits, AnyBook!files, BookInv, BookTyped, Grounded, Book!VerifiedByWhatPassed
<1>2. CASE AnyBook!Commits
  <2>1. \A p \in AnyBook!Processes : runbookRuns[p] = BookIdle
    BY <1>2, <1>c, <1>d DEF AnyBook!Commits, BookInv, BookRunOK, RunGoes
  <2>2. /\ history' \in Seq(1 .. BookVersions) /\ Len(history') = Len(history) + 1
        /\ \A i \in 1 .. Len(history) : history'[i] = history[i]
    BY <1>2 DEF AnyBook!Commits, BookInv, BookTyped
  <2>3. \A p \in AnyBook!Processes : BookRunOK(runbookRuns[p], runbookTree, history, greens)'
    BY <1>2, <1>a, <2>1 DEF AnyBook!Commits, BookRunOK, RunGoes
  <2>4. BookTyped'
    BY <1>2, <1>d, <2>2 DEF AnyBook!Commits, AnyBook!files, BookInv, BookTyped
  <2>5. Grounded'
    BY <1>2, <1>d, <2>2
       DEF AnyBook!Commits, AnyBook!files, BookInv, BookTyped, Grounded, Book!NoValidation
  <2> QED
    BY <1>2, <2>3, <2>4, <2>5 DEF AnyBook!Commits, BookInv, Book!VerifiedByWhatPassed
\* The hub's steps.
<1>3. CASE AnyBook!HubAsks \/ AnyBook!AnotherClaims \/ AnyBook!Beat
  <2>1. UNCHANGED <<runbookTree, history, runbook, validation, runbookRuns, greens, verdict>>
    BY <1>3
       DEF AnyBook!HubAsks, AnyBook!AnotherClaims, AnyBook!Beat, AnyBook!checkout, AnyBook!files
  <2>2. due' \in BOOLEAN /\ (due' => runbookRuns["daemon"] # BookIdle
        /\ ~runbookRuns["daemon"].lost)
    <3>1. CASE AnyBook!Beat
      <4>1. due' = (runbookRuns["daemon"] # BookIdle /\ ~runbookRuns["daemon"].lost)
        BY <1>a, <3>1 DEF AnyBook!Beat, AnyBook!Leased
      <4> QED
        BY <4>1
    <3>2. CASE AnyBook!HubAsks \/ AnyBook!AnotherClaims
      BY <3>2 DEF AnyBook!HubAsks, AnyBook!AnotherClaims, BookInv
    <3> QED
      BY <1>3, <3>1, <3>2
  <2> QED
    BY <2>1, <2>2 DEF BookInv, BookTyped, Grounded, BookRunOK, RunGoes, Book!VerifiedByWhatPassed
\* A step of one run that leaves the files as they are.
<1>4. ASSUME NEW p \in AnyBook!Processes, NEW r,
             runbookRuns' = [runbookRuns EXCEPT ![p] = r], RunGoes(r),
             UNCHANGED <<runbookTree, history, runbook, validation, verdict>>,
             greens \subseteq greens', greens' \subseteq [runbook : Books,
                 tree : 1 .. BookVersions],
             due' \in BOOLEAN, due' => due, due' /\ p = "daemon" => r # BookIdle /\ ~r.lost
      PROVE  BookInv'
  <2>1. \A q \in AnyBook!Processes : BookRunOK(runbookRuns[q], runbookTree, history, greens)'
    <3> TAKE q \in AnyBook!Processes
    <3>1. CASE q = p
      BY <1>4, <3>1 DEF BookInv, BookTyped, BookRunOK, RunGoes
    <3>2. CASE q # p
      <4>1. runbookRuns'[q] = runbookRuns[q]
            /\ BookRunOK(runbookRuns[q], runbookTree, history, greens)
        BY <1>4, <3>2 DEF BookInv, BookTyped
      <4> QED
        BY <1>4, <4>1 DEF BookRunOK, RunGoes
    <3> QED
      BY <3>1, <3>2
  <2>2. runbookRuns' \in [AnyBook!Processes -> BookRun]
    BY <1>4 DEF BookInv, BookTyped, BookRunOK, RunGoes
  <2>3. due' => runbookRuns'["daemon"] # BookIdle /\ ~runbookRuns'["daemon"].lost
    BY <1>4, <1>b DEF BookInv, BookTyped
  <2> QED
    BY <1>4, <2>1, <2>2, <2>3 DEF BookInv, BookTyped, Grounded, Book!VerifiedByWhatPassed
<1>5. ASSUME NEW p \in AnyBook!Processes
      PROVE runbookRuns[p] \in BookRun /\ BookRunOK(runbookRuns[p], runbookTree, history, greens)
  BY DEF BookInv, BookTyped
<1>6. "daemon" \in AnyBook!Processes
  BY <1>b
<1>7. greens \subseteq [runbook : Books, tree : 1 .. BookVersions] /\ due \in BOOLEAN
  BY DEF BookInv, BookTyped
\* A rest is a rest, whatever the rest does.
<1>8. RunGoes(BookIdle)
  BY <1>a DEF BookRunOK, RunGoes
<1>9. CASE AnyBook!Claims
  <2> DEFINE r == [BookIdle EXCEPT !.at = "proposes", !.head = Len(history), !.attempts = 1]
  <2>1. r \in BookRun /\ r.at = "proposes" /\ r.head = Len(history) /\ ~r.lost
    BY <1>d, <1>e, <1>f DEF BookIdle, BookRun, BookStages
  <2>2. runbookTree = history[Len(history)]
    BY <1>9, <1>d DEF AnyBook!Claims, AnyBook!MayStart
  <2>3. RunGoes(r)
    BY <1>9, <2>1, <2>2 DEF AnyBook!Claims, AnyBook!checkout, BookRunOK, RunGoes
  <2>4. r # BookIdle
    BY <1>a, <2>1
  <2>5. runbookRuns' = [runbookRuns EXCEPT !["daemon"] = r]
    BY <1>9, <1>a, <1>d DEF AnyBook!Claims
  <2> HIDE DEF r
  <2> QED
    BY <1>9, <1>4, <1>6, <1>7, <2>1, <2>3, <2>4, <2>5
       DEF AnyBook!Claims, AnyBook!checkout, AnyBook!files
<1>10. CASE AnyBook!Renews \/ AnyBook!RenewalIsLost
  <2>1. CASE UNCHANGED runbookRuns
    BY <1>10, <2>1 DEF AnyBook!Renews, AnyBook!RenewalIsLost, AnyBook!checkout, AnyBook!files,
         BookInv, BookTyped, Grounded, BookRunOK, Book!VerifiedByWhatPassed
  <2>2. CASE runbookRuns' = [runbookRuns EXCEPT !["daemon"].lost = TRUE]
    <3> DEFINE r == [runbookRuns["daemon"] EXCEPT !.lost = TRUE]
    <3>1. runbookRuns["daemon"].at # "rest"
      BY <1>10, <1>6, <1>c DEF AnyBook!Renews, AnyBook!RenewalIsLost, BookInv
    <3>2. runbookRuns' = [runbookRuns EXCEPT !["daemon"] = r]
      BY <2>2, <1>6 DEF BookInv, BookTyped
    <3>3. RunGoes(r)
      BY <1>5, <1>6, <1>10, <3>1
         DEF BookRunOK, RunGoes, BookRun, AnyBook!Renews, AnyBook!RenewalIsLost,
           AnyBook!checkout, AnyBook!files
    <3>4. due' = FALSE
      BY <1>10 DEF AnyBook!Renews, AnyBook!RenewalIsLost
    <3> HIDE DEF r
    <3> QED
      BY <1>10, <1>4, <1>6, <1>7, <3>2, <3>3, <3>4 DEF AnyBook!Renews, AnyBook!RenewalIsLost,
           AnyBook!checkout, AnyBook!files
  <2> QED
    BY <1>10, <2>1, <2>2 DEF AnyBook!Renews, AnyBook!RenewalIsLost
<1>11. ASSUME NEW p \in AnyBook!Processes, AnyBook!CommandStarts(p)
       PROVE  BookInv'
  <2>1. runbookTree = history[Len(history)] /\ p # "daemon"
    BY <1>11, <1>d DEF AnyBook!CommandStarts, AnyBook!MayStart
  <2>2. CASE runbookRuns' = [runbookRuns EXCEPT ![p] =
                               [BookIdle EXCEPT !.at = "proposes", !.head = Len(history),
                                   !.attempts = 1]]
    <3> DEFINE r == [BookIdle EXCEPT !.at = "proposes", !.head = Len(history), !.attempts = 1]
    <3>1. r \in BookRun /\ r.at = "proposes" /\ r.head = Len(history)
      BY <1>d, <1>e, <1>f DEF BookIdle, BookRun, BookStages
    <3>2. RunGoes(r)
      BY <1>11, <2>1, <3>1 DEF AnyBook!CommandStarts, AnyBook!checkout, BookRunOK, RunGoes
    <3>3. runbookRuns' = [runbookRuns EXCEPT ![p] = r]
      BY <2>2
    <3> HIDE DEF r
    <3> QED
      BY <1>11, <1>4, <1>7, <2>1, <3>2, <3>3
         DEF AnyBook!CommandStarts, AnyBook!checkout, AnyBook!files
  <2>3. CASE runbook # 0 /\ runbookRuns' = [runbookRuns EXCEPT ![p] =
                               [BookIdle EXCEPT !.at = "copies", !.head = Len(history),
                                   !.attempts = 1,
                                            !.runbook = runbook]]
    <3> DEFINE r == [BookIdle EXCEPT !.at = "copies", !.head = Len(history), !.attempts = 1,
                                 !.runbook = runbook]
    <3>0. runbook \in Books
      BY <2>3 DEF BookInv, BookTyped
    <3>1. r \in BookRun /\ r.at = "copies" /\ r.head = Len(history) /\ r.runbook = runbook
      BY <1>d, <1>e, <1>f, <3>0 DEF BookIdle, BookRun, BookStages
    <3>2. RunGoes(r)
      BY <1>11, <2>1, <3>0, <3>1 DEF AnyBook!CommandStarts, AnyBook!checkout, BookRunOK, RunGoes
    <3>3. runbookRuns' = [runbookRuns EXCEPT ![p] = r]
      BY <2>3
    <3> HIDE DEF r
    <3> QED
      BY <1>11, <1>4, <1>7, <2>1, <3>2, <3>3
         DEF AnyBook!CommandStarts, AnyBook!checkout, AnyBook!files
  <2> QED
    BY <1>11, <1>a, <1>d, <2>2, <2>3 DEF AnyBook!CommandStarts
\* Trying again: a rest, an answer or the next attempt.
<1>12. ASSUME NEW p \in AnyBook!Processes, runbookRuns[p].at # "rest", AnyBook!TriesAgain(p),
              UNCHANGED <<runbookTree, history, runbook, validation, verdict, greens, due>>
       PROVE  BookInv'
  <2>1. CASE p = "validate"
    <3>1. runbookRuns' = [runbookRuns EXCEPT ![p] = BookIdle]
      BY <1>12, <1>a, <2>1 DEF AnyBook!TriesAgain, AnyBook!Rests
    <3> QED
      BY <1>12, <1>4, <1>7, <1>8, <2>1, <3>1
  <2>2. CASE p # "validate" /\ (runbookRuns[p].attempts = BookAttempts \/ runbookRuns[p].lost)
    <3> DEFINE r == [runbookRuns[p] EXCEPT !.at = "answers", !.runbook = 0]
    <3>1. runbookRuns' = [runbookRuns EXCEPT ![p] = r]
      BY <1>12, <1>5, <2>2 DEF AnyBook!TriesAgain, BookInv, BookTyped
    <3>2. RunGoes(r) /\ r # BookIdle /\ r.lost = runbookRuns[p].lost
      BY <1>12, <1>5 DEF BookRunOK, RunGoes, BookRun, BookStages, BookIdle
    <3>3. due' /\ p = "daemon" => ~r.lost
      BY <1>12, <3>2 DEF BookInv
    <3> HIDE DEF r
    <3> QED
      BY <1>12, <1>4, <1>7, <3>1, <3>2, <3>3
  <2>3. CASE p # "validate" /\ ~(runbookRuns[p].attempts = BookAttempts \/ runbookRuns[p].lost)
    <3> DEFINE r == [runbookRuns[p] EXCEPT !.at = "proposes", !.attempts = @ + 1]
    <3>1. runbookRuns' = [runbookRuns EXCEPT ![p] = r]
      BY <1>12, <1>5, <2>3 DEF AnyBook!TriesAgain, BookInv, BookTyped
    <3>0. runbookRuns[p].attempts + 1 \in 0 .. BookAttempts
      BY <1>5, <1>e, <2>3 DEF BookRun
    <3>2. RunGoes(r) /\ r # BookIdle /\ ~r.lost
      BY <1>12, <1>5, <2>3, <3>0 DEF BookRunOK, RunGoes, BookRun, BookStages, BookIdle
    <3> HIDE DEF r
    <3> QED
      BY <1>12, <1>4, <1>7, <3>1, <3>2
  <2> QED
    BY <2>1, <2>2, <2>3
\* A run that goes on to another stage.
<1>13. ASSUME NEW p \in AnyBook!Processes, NEW r, runbookRuns[p].at # "rest",
              runbookRuns' = [runbookRuns EXCEPT ![p] = r], RunGoes(r),
              r.at # "rest", r.lost = runbookRuns[p].lost,
              UNCHANGED <<runbookTree, history, runbook, validation, verdict, due>>,
              greens \subseteq greens', greens' \subseteq [runbook : Books,
                  tree : 1 .. BookVersions]
       PROVE  BookInv'
  <2>1. r # BookIdle /\ (due' /\ p = "daemon" => ~r.lost)
    BY <1>13, <1>a DEF BookInv
  <2> QED
    BY <1>13, <1>4, <1>7, <2>1
<1>14. ASSUME NEW p \in AnyBook!Processes, AnyBook!Proposes(p) PROVE BookInv'
  <2>1. CASE AnyBook!TriesAgain(p)
    BY <1>12, <1>14, <2>1 DEF AnyBook!Proposes, AnyBook!checkout, AnyBook!files
  <2>2. ASSUME NEW b \in Books,
               runbookRuns' = [runbookRuns EXCEPT ![p].at = "copies", ![p].runbook = b]
        PROVE  BookInv'
    <3> DEFINE r == [runbookRuns[p] EXCEPT !.at = "copies", !.runbook = b]
    <3>1. runbookRuns' = [runbookRuns EXCEPT ![p] = r]
      BY <2>2, <1>5 DEF BookInv, BookTyped
    <3>2. RunGoes(r) /\ r.at # "rest" /\ r.lost = runbookRuns[p].lost
      BY <1>14, <1>5
         DEF AnyBook!Proposes, AnyBook!checkout, BookRunOK, RunGoes, BookRun, BookStages
    <3> HIDE DEF r
    <3> QED
      BY <1>7, <1>13, <1>14, <3>1, <3>2 DEF AnyBook!Proposes, AnyBook!checkout, AnyBook!files
  <2> QED
    BY <1>14, <2>1, <2>2 DEF AnyBook!Proposes
<1>15. ASSUME NEW p \in AnyBook!Processes, AnyBook!Copies(p) PROVE BookInv'
  <2> DEFINE r == [runbookRuns[p] EXCEPT !.at = "runs", !.saw = runbookTree]
  <2>1. runbookRuns' = [runbookRuns EXCEPT ![p] = r]
    BY <1>15, <1>5 DEF AnyBook!Copies, BookInv, BookTyped
  <2>2. runbookTree \in 0 .. BookVersions
    BY DEF BookInv, BookTyped
  <2>3. RunGoes(r) /\ r.at # "rest" /\ r.lost = runbookRuns[p].lost
    BY <1>15, <1>5, <2>2
       DEF AnyBook!Copies, AnyBook!checkout, BookRunOK, RunGoes, BookRun, BookStages
  <2> HIDE DEF r
  <2> QED
    BY <1>7, <1>13, <1>15, <2>1, <2>3 DEF AnyBook!Copies, AnyBook!checkout, AnyBook!files
<1>16. ASSUME NEW p \in AnyBook!Processes, AnyBook!Passes(p) PROVE BookInv'
  <2> DEFINE r == [runbookRuns[p] EXCEPT !.at = "destroys"]
             g == [runbook |-> runbookRuns[p].runbook, tree |-> runbookRuns[p].saw]
  <2>1. runbookRuns' = [runbookRuns EXCEPT ![p] = r] /\ greens' = greens \union {g}
    BY <1>16, <1>5 DEF AnyBook!Passes, AnyBook!Becomes, BookInv, BookTyped
  <2>2. g \in [runbook : Books, tree : 1 .. BookVersions]
        /\ g = [runbook |-> r.runbook, tree |-> history[r.head]]
    BY <1>16, <1>5 DEF AnyBook!Passes, BookRunOK, RunGoes, BookInv, BookTyped, BookRun
  <2>3. RunGoes(r) /\ r.at # "rest" /\ r.lost = runbookRuns[p].lost
    BY <1>16, <1>5, <2>1, <2>2
       DEF AnyBook!Passes, AnyBook!checkout, BookRunOK, RunGoes, BookRun, BookStages
  <2> HIDE DEF r, g
  <2> QED
    BY <1>7, <1>13, <1>16, <2>1, <2>2, <2>3 DEF AnyBook!Passes, AnyBook!checkout, AnyBook!files
<1>17. ASSUME NEW p \in AnyBook!Processes, AnyBook!Fails(p) PROVE BookInv'
  BY <1>12, <1>17 DEF AnyBook!Fails, AnyBook!checkout, AnyBook!files
<1>18. ASSUME NEW p \in AnyBook!Processes, AnyBook!WritesRunbook(p) PROVE BookInv'
  <2> DEFINE r == [runbookRuns[p] EXCEPT !.at = "builds"]
  <2>1. runbookRuns' = [runbookRuns EXCEPT ![p] = r]
    BY <1>18, <1>5 DEF AnyBook!WritesRunbook, AnyBook!Becomes, BookInv, BookTyped
  <2>2. RunGoes(r) /\ r.at # "rest" /\ r.lost = runbookRuns[p].lost
    BY <1>18, <1>5
       DEF AnyBook!WritesRunbook, AnyBook!checkout, BookRunOK, RunGoes, BookRun, BookStages
  <2>3. runbook' \in Books \union {0}
    BY <1>18, <1>5 DEF AnyBook!WritesRunbook, BookInv, BookTyped, BookRunOK, RunGoes
  <2>4. \A q \in AnyBook!Processes : BookRunOK(runbookRuns[q], runbookTree, history, greens)'
    <3> TAKE q \in AnyBook!Processes
    <3>1. CASE q = p
      BY <2>1, <2>2, <3>1 DEF BookInv, BookTyped, BookRunOK, RunGoes
    <3>2. CASE q # p
      <4>1. runbookRuns'[q] = runbookRuns[q]
            /\ BookRunOK(runbookRuns[q], runbookTree, history, greens)
        BY <2>1, <3>2 DEF BookInv, BookTyped
      <4> QED
        BY <1>18, <4>1 DEF AnyBook!WritesRunbook, AnyBook!checkout, BookRunOK, RunGoes
    <3> QED
      BY <3>1, <3>2
  <2>5. BookTyped'
    BY <1>18, <2>1, <2>2, <2>3
       DEF AnyBook!WritesRunbook, AnyBook!checkout, BookInv, BookTyped, BookRunOK, RunGoes
  <2>6. due' \in BOOLEAN /\ (due' => runbookRuns'["daemon"] # BookIdle
        /\ ~runbookRuns'["daemon"].lost)
    BY <1>18, <1>6, <1>a, <2>1, <2>2 DEF AnyBook!WritesRunbook, BookInv, BookTyped
  <2> QED
    BY <1>18, <2>4, <2>5, <2>6 DEF AnyBook!WritesRunbook, AnyBook!checkout, BookInv, Grounded,
         Book!VerifiedByWhatPassed
<1>19. ASSUME NEW p \in AnyBook!Processes, AnyBook!WritesValidation(p) PROVE BookInv'
  <2>1. /\ validation' \in [of : Books \union {0}, at : 0 .. Len(history)] /\ validation'.at # 0
        /\ [runbook |-> validation'.of, tree |-> history[validation'.at]] \in greens
    BY <1>19, <1>5, <1>d DEF AnyBook!WritesValidation, BookRunOK, RunGoes, BookInv, BookTyped
  <2>2. PICK r : /\ runbookRuns' = [runbookRuns EXCEPT ![p] = r] /\ RunGoes(r)
                 /\ (p = "daemon" => r # BookIdle /\ r.lost = runbookRuns[p].lost)
    <3>1. CASE p = "daemon"
      <4> DEFINE r == [runbookRuns[p] EXCEPT !.at = "answers"]
      <4>1. runbookRuns' = [runbookRuns EXCEPT ![p] = r]
        BY <1>19, <1>5, <3>1 DEF AnyBook!WritesValidation, AnyBook!Becomes, BookInv, BookTyped
      <4>2. RunGoes(r) /\ r.at # "rest" /\ r.lost = runbookRuns[p].lost
        BY <1>19, <1>5
           DEF AnyBook!WritesValidation, AnyBook!checkout, BookRunOK, RunGoes, BookRun, BookStages
      <4> HIDE DEF r
      <4> QED
        BY <1>a, <4>1, <4>2
    <3>2. CASE p # "daemon"
      BY <1>19, <1>8, <1>a, <3>2 DEF AnyBook!WritesValidation, AnyBook!Rests
    <3> QED
      BY <3>1, <3>2
  <2>3. UNCHANGED <<runbookTree, history, runbook, greens, verdict, due>>
    BY <1>19 DEF AnyBook!WritesValidation, AnyBook!checkout
  <2>4. \A q \in AnyBook!Processes : BookRunOK(runbookRuns[q], runbookTree, history, greens)'
    <3> TAKE q \in AnyBook!Processes
    <3>1. CASE q = p
      BY <2>2, <3>1 DEF BookInv, BookTyped, BookRunOK, RunGoes
    <3>2. CASE q # p
      <4>1. runbookRuns'[q] = runbookRuns[q]
            /\ BookRunOK(runbookRuns[q], runbookTree, history, greens)
        BY <2>2, <3>2 DEF BookInv, BookTyped
      <4> QED
        BY <2>3, <4>1 DEF BookRunOK, RunGoes
    <3> QED
      BY <3>1, <3>2
  <2>5. BookTyped'
    BY <2>1, <2>2, <2>3 DEF BookInv, BookTyped, BookRunOK, RunGoes
  <2>6. due' \in BOOLEAN /\ (due' => runbookRuns'["daemon"] # BookIdle
        /\ ~runbookRuns'["daemon"].lost)
    BY <1>6, <2>2, <2>3 DEF BookInv, BookTyped
  <2> QED
    BY <2>1, <2>3, <2>4, <2>5, <2>6 DEF BookInv, Grounded, Book!VerifiedByWhatPassed
<1>20. ASSUME NEW p \in AnyBook!Processes, AnyBook!Answers(p) \/ AnyBook!Dies(p) PROVE BookInv'
  <2>1. /\ runbookRuns' = [runbookRuns EXCEPT ![p] = BookIdle]
        /\ UNCHANGED <<runbookTree, history, runbook, validation, verdict, greens>>
    BY <1>20, <1>a
       DEF AnyBook!Answers, AnyBook!Dies, AnyBook!Rests, AnyBook!checkout, AnyBook!files
  <2>2. due' \in BOOLEAN /\ (due' => due /\ p # "daemon")
    BY <1>20, <1>7 DEF AnyBook!Answers, AnyBook!Dies
  <2> QED
    BY <1>4, <1>7, <1>8, <2>1, <2>2
<1>21. ASSUME NEW v \in 1 .. BookVersions, AnyBook!Verifies(v) PROVE BookInv'
  <2>1. verdict' = AnyBook!Verified(runbook, validation, v)
        /\ UNCHANGED <<runbookTree, history, runbook, validation, runbookRuns, greens, due>>
    BY <1>21 DEF AnyBook!Verifies, AnyBook!checkout, AnyBook!files
  <2>2. verdict'.status \in {"none", "refused", "run"} /\ Book!VerifiedByWhatPassed'
    BY <2>1 DEF AnyBook!Verified, AnyBook!NotVerified, AnyBook!NoValidation, Book!NoValidation,
         Book!VerifiedByWhatPassed, BookInv, Grounded
  <2> QED
    BY <2>1, <2>2 DEF BookInv, BookTyped, Grounded, BookRunOK, RunGoes
<1> QED
  BY <1>0, <1>1, <1>2, <1>3, <1>9, <1>10, <1>11, <1>14, <1>15, <1>16, <1>17, <1>18, <1>19, <1>20,
     <1>21 DEF AnyBook!Next

\* Where scans and validations come one at a time: what is left between two writes, what
\* a process that died left, and what the hub takes of it.
Scan == [status : {"none", "queued", "running", "completed", "failed"},
         holder : {"nobody", "daemon", "another"}, left : 0 .. 2]
OneRunAtATime ==
  \A p, q \in AnyBook!Processes : runbookRuns[p] # BookIdle /\ runbookRuns[q] # BookIdle => p = q
FilesFollow ==
  /\ cut \in BOOLEAN
  /\ (\A p \in AnyBook!Processes : runbookRuns[p].at # "builds") /\ ~cut => runbook = validation.of
  /\ \A p \in AnyBook!Processes :
       runbookRuns[p].at = "builds" \/ (p = "validate" /\ runbookRuns[p].at # "rest") =>
         runbookRuns[p].runbook = runbook
  /\ runbookRuns["validate"].at \notin {"proposes", "answers"}
LeaseOK ==
  /\ hub \in Scan /\ (hub.status = "running" => hub.left # 0)
  /\ runbookRuns["daemon"] # BookIdle /\ ~runbookRuns["daemon"].lost /\ ~due =>
       hub.status = "running" /\ hub.holder = "daemon"
  /\ hub.status \in {"completed", "failed"} => hub.holder = "daemon"
SerialInv == BookInv /\ OneRunAtATime /\ FilesFollow /\ LeaseOK

\* The invariant says what the run checks.
LEMMA SerialSays ==
  ASSUME Book!ParametersAreSound, SerialInv
  PROVE  /\ Book!TypeOK /\ Book!FilesAgree /\ Book!LeaseIsHeld /\ Book!AnswerIsTheHolders
<1> USE DEF Book!ParametersAreSound
<1>1. Book!Processes = AnyBook!Processes /\ Book!Resting = BookIdle /\ Book!Tip = Len(history)
  BY DEF Book!Processes, AnyBook!Processes, Book!Resting, BookIdle, Book!Tip
<1>2. ASSUME NEW p \in AnyBook!Processes
      PROVE  /\ runbookRuns[p].at \in BookStages
                /\ runbookRuns[p].attempts \in 0 .. BookAttempts + 1
             /\ runbookRuns[p].head \in 0 .. Len(history)
             /\ (runbookRuns[p] = BookIdle <=> runbookRuns[p].at = "rest")
  <2>1. /\ runbookRuns[p] \in BookRun /\ BookRunOK(runbookRuns[p], runbookTree, history, greens)
        /\ Len(history) \in Nat
    BY DEF SerialInv, BookInv, BookTyped
  <2>2. runbookRuns[p] = BookIdle => runbookRuns[p].at = "rest" /\ runbookRuns[p].head = 0
    BY DEF BookIdle
  <2> QED
    BY <2>1, <2>2 DEF BookRun, BookRunOK
<1>3. Book!TypeOK
  BY <1>1, <1>2
     DEF Book!TypeOK, Book!Lease, SerialInv, BookInv, BookTyped, FilesFollow, LeaseOK, Scan,
     BookStages
<1>4. Book!FilesAgree
  BY <1>1, <1>2 DEF Book!FilesAgree, Book!AllRest, SerialInv, FilesFollow
<1>5. Book!LeaseIsHeld /\ Book!AnswerIsTheHolders
  BY <1>1 DEF Book!LeaseIsHeld, Book!AnswerIsTheHolders, Book!Leased, SerialInv, LeaseOK
<1> QED
  BY <1>3, <1>4, <1>5

\* One at a time or not: the steps are those of any.
LEMMA BookIsAny ==
  ASSUME [Book!Next]_(Book!vars)
  PROVE  [AnyBook!Next]_(AnyBook!vars)
<1>0. Book!Processes = AnyBook!Processes
  BY DEF Book!Processes, AnyBook!Processes
<1> USE DEF
      Book!Tip, Book!Resting, Book!MayStart, Book!AllRest, Book!Processes, Book!Becomes,
      Book!Rests, Book!TriesAgain, Book!Leased, Book!Lease, Book!NoScan, Book!Told,
      Book!checkout, Book!files, AnyBook!Tip, AnyBook!Resting, AnyBook!MayStart,
      AnyBook!AllRest, AnyBook!Processes, AnyBook!Becomes, AnyBook!Rests, AnyBook!TriesAgain,
      AnyBook!Leased, AnyBook!Lease, AnyBook!NoScan, AnyBook!Told, AnyBook!checkout,
      AnyBook!files
<1>1. Book!Edits => AnyBook!Edits
  BY <1>0 DEF Book!Edits, AnyBook!Edits
<1>2. Book!Commits => AnyBook!Commits
  BY <1>0 DEF Book!Commits, AnyBook!Commits
<1>3. Book!HubAsks => AnyBook!HubAsks
  BY <1>0 DEF Book!HubAsks, AnyBook!HubAsks
<1>4. Book!AnotherClaims => AnyBook!AnotherClaims
  BY <1>0 DEF Book!AnotherClaims, AnyBook!AnotherClaims
<1>5. Book!Beat => AnyBook!Beat
  BY <1>0 DEF Book!Beat, AnyBook!Beat
<1>6. Book!Claims => AnyBook!Claims
  BY <1>0 DEF Book!Claims, AnyBook!Claims
<1>7. Book!Renews => AnyBook!Renews
  BY <1>0 DEF Book!Renews, AnyBook!Renews
<1>8. Book!RenewalIsLost => AnyBook!RenewalIsLost
  BY <1>0 DEF Book!RenewalIsLost, AnyBook!RenewalIsLost
<1>9. \A p \in Book!Processes : Book!CommandStarts(p) => AnyBook!CommandStarts(p)
  BY <1>0 DEF Book!CommandStarts, AnyBook!CommandStarts
<1>10. \A p \in Book!Processes : Book!Proposes(p) => AnyBook!Proposes(p)
  BY <1>0 DEF Book!Proposes, AnyBook!Proposes
<1>11. \A p \in Book!Processes : Book!Copies(p) => AnyBook!Copies(p)
  BY <1>0 DEF Book!Copies, AnyBook!Copies
<1>12. \A p \in Book!Processes : Book!Passes(p) => AnyBook!Passes(p)
  BY <1>0 DEF Book!Passes, AnyBook!Passes
<1>13. \A p \in Book!Processes : Book!Fails(p) => AnyBook!Fails(p)
  BY <1>0 DEF Book!Fails, AnyBook!Fails
<1>14. \A p \in Book!Processes : Book!WritesRunbook(p) => AnyBook!WritesRunbook(p)
  BY <1>0 DEF Book!WritesRunbook, AnyBook!WritesRunbook
<1>15. \A p \in Book!Processes : Book!WritesValidation(p) => AnyBook!WritesValidation(p)
  BY <1>0 DEF Book!WritesValidation, AnyBook!WritesValidation
<1>16. \A p \in Book!Processes : Book!Answers(p) => AnyBook!Answers(p)
  BY <1>0 DEF Book!Answers, AnyBook!Answers
<1>17. \A p \in Book!Processes : Book!Dies(p) => AnyBook!Dies(p)
  BY <1>0 DEF Book!Dies, AnyBook!Dies
<1>18. \A v \in 1 .. BookVersions : Book!Verifies(v) => AnyBook!Verifies(v)
  BY DEF Book!Verifies, AnyBook!Verifies, Book!Verified, AnyBook!Verified,
     Book!NoValidation, AnyBook!NoValidation, Book!NotVerified, AnyBook!NotVerified
<1>a. UNCHANGED Book!vars => UNCHANGED AnyBook!vars
  BY DEF Book!vars, AnyBook!vars
<1> HIDE DEF
      Book!Tip, Book!Resting, Book!MayStart, Book!AllRest, Book!Processes, Book!Becomes,
      Book!Rests, Book!TriesAgain, Book!Leased, Book!Lease, Book!NoScan, Book!Told,
      Book!checkout, Book!files, AnyBook!Tip, AnyBook!Resting, AnyBook!MayStart,
      AnyBook!AllRest, AnyBook!Processes, AnyBook!Becomes, AnyBook!Rests, AnyBook!TriesAgain,
      AnyBook!Leased, AnyBook!Lease, AnyBook!NoScan, AnyBook!Told, AnyBook!checkout,
      AnyBook!files
<1>b. CASE Book!Next
  BY <1>b, <1>0, <1>1, <1>2, <1>3, <1>4, <1>5, <1>6, <1>7, <1>8, <1>9, <1>10, <1>11, <1>12, <1>13,
     <1>14, <1>15, <1>16, <1>17, <1>18
     DEF Book!Next, AnyBook!Next
<1> QED
  BY <1>a, <1>b

\* And so are those of the runbook whose validations run beside the daemon's scan, of
\* which a person's scan takes none.
LEMMA SharedIsAny ==
  ASSUME BookInv, runbookRuns["scan"] = BookIdle, [SharedBook!Next]_(SharedBook!vars)
  PROVE  [AnyBook!Next]_(AnyBook!vars) /\ runbookRuns'["scan"] = BookIdle
<1>0. /\ SharedBook!Processes = {"daemon", "validate"}
      /\ AnyBook!Processes = {"daemon", "scan", "validate"}
      /\ runbookRuns["scan"] = AnyBook!Resting /\ runbookRuns["scan"] = BookIdle
      /\ runbookRuns \in [{"daemon", "scan", "validate"} -> BookRun]
  BY DEF SharedBook!Processes, AnyBook!Processes, AnyBook!Resting, BookIdle, BookInv, BookTyped
<1> USE DEF
      SharedBook!Tip, SharedBook!Resting, SharedBook!MayStart, SharedBook!AllRest,
      SharedBook!Processes, SharedBook!Becomes, SharedBook!Rests, SharedBook!TriesAgain,
      SharedBook!Leased, SharedBook!Lease, SharedBook!NoScan, SharedBook!Told,
      SharedBook!checkout, SharedBook!files, AnyBook!Tip, AnyBook!Resting, AnyBook!MayStart,
      AnyBook!AllRest, AnyBook!Processes, AnyBook!Becomes, AnyBook!Rests, AnyBook!TriesAgain,
      AnyBook!Leased, AnyBook!Lease, AnyBook!NoScan, AnyBook!Told, AnyBook!checkout,
      AnyBook!files
<1>1. SharedBook!Edits => AnyBook!Edits
  BY <1>0 DEF SharedBook!Edits, AnyBook!Edits
<1>2. SharedBook!Commits => AnyBook!Commits
  BY <1>0 DEF SharedBook!Commits, AnyBook!Commits
<1>3. SharedBook!HubAsks => AnyBook!HubAsks
  BY <1>0 DEF SharedBook!HubAsks, AnyBook!HubAsks
<1>4. SharedBook!AnotherClaims => AnyBook!AnotherClaims
  BY <1>0 DEF SharedBook!AnotherClaims, AnyBook!AnotherClaims
<1>5. SharedBook!Beat => AnyBook!Beat
  BY <1>0 DEF SharedBook!Beat, AnyBook!Beat
<1>6. SharedBook!Claims => AnyBook!Claims
  BY <1>0 DEF SharedBook!Claims, AnyBook!Claims
<1>7. SharedBook!Renews => AnyBook!Renews
  BY <1>0 DEF SharedBook!Renews, AnyBook!Renews
<1>8. SharedBook!RenewalIsLost => AnyBook!RenewalIsLost
  BY <1>0 DEF SharedBook!RenewalIsLost, AnyBook!RenewalIsLost
<1>9. \A p \in SharedBook!Processes : SharedBook!CommandStarts(p) => AnyBook!CommandStarts(p)
  BY <1>0 DEF SharedBook!CommandStarts, AnyBook!CommandStarts
<1>10. \A p \in SharedBook!Processes : SharedBook!Proposes(p) => AnyBook!Proposes(p)
  BY <1>0 DEF SharedBook!Proposes, AnyBook!Proposes
<1>11. \A p \in SharedBook!Processes : SharedBook!Copies(p) => AnyBook!Copies(p)
  BY <1>0 DEF SharedBook!Copies, AnyBook!Copies
<1>12. \A p \in SharedBook!Processes : SharedBook!Passes(p) => AnyBook!Passes(p)
  BY <1>0 DEF SharedBook!Passes, AnyBook!Passes
<1>13. \A p \in SharedBook!Processes : SharedBook!Fails(p) => AnyBook!Fails(p)
  BY <1>0 DEF SharedBook!Fails, AnyBook!Fails
<1>14. \A p \in SharedBook!Processes : SharedBook!WritesRunbook(p) => AnyBook!WritesRunbook(p)
  BY <1>0 DEF SharedBook!WritesRunbook, AnyBook!WritesRunbook
<1>15. \A p \in SharedBook!Processes : SharedBook!WritesValidation(p) => AnyBook!WritesValidation(p)
  BY <1>0 DEF SharedBook!WritesValidation, AnyBook!WritesValidation
<1>16. \A p \in SharedBook!Processes : SharedBook!Answers(p) => AnyBook!Answers(p)
  BY <1>0 DEF SharedBook!Answers, AnyBook!Answers
<1>17. \A p \in SharedBook!Processes : SharedBook!Dies(p) => AnyBook!Dies(p)
  BY <1>0 DEF SharedBook!Dies, AnyBook!Dies
<1>18. \A v \in 1 .. BookVersions : SharedBook!Verifies(v) => AnyBook!Verifies(v)
  BY DEF SharedBook!Verifies, AnyBook!Verifies, SharedBook!Verified, AnyBook!Verified,
     SharedBook!NoValidation, AnyBook!NoValidation, SharedBook!NotVerified, AnyBook!NotVerified
<1>19. SharedBook!Edits => UNCHANGED runbookRuns
  BY DEF SharedBook!Edits
<1>20. SharedBook!Commits => UNCHANGED runbookRuns
  BY DEF SharedBook!Commits
<1>21. SharedBook!HubAsks => UNCHANGED runbookRuns
  BY DEF SharedBook!HubAsks
<1>22. SharedBook!AnotherClaims => UNCHANGED runbookRuns
  BY DEF SharedBook!AnotherClaims
<1>23. SharedBook!Beat => UNCHANGED runbookRuns
  BY DEF SharedBook!Beat
<1>24. SharedBook!Claims => runbookRuns'["scan"] = BookIdle
  BY <1>0 DEF SharedBook!Claims
<1>25. SharedBook!Renews => runbookRuns'["scan"] = BookIdle
  BY <1>0 DEF SharedBook!Renews
<1>26. SharedBook!RenewalIsLost => runbookRuns'["scan"] = BookIdle
  BY <1>0 DEF SharedBook!RenewalIsLost
<1>27. \A p \in SharedBook!Processes : SharedBook!CommandStarts(p) => runbookRuns'["scan"] = BookIdle
  BY <1>0 DEF SharedBook!CommandStarts
<1>28. \A p \in SharedBook!Processes : SharedBook!Proposes(p) => runbookRuns'["scan"] = BookIdle
  BY <1>0 DEF SharedBook!Proposes
<1>29. \A p \in SharedBook!Processes : SharedBook!Copies(p) => runbookRuns'["scan"] = BookIdle
  BY <1>0 DEF SharedBook!Copies
<1>30. \A p \in SharedBook!Processes : SharedBook!Passes(p) => runbookRuns'["scan"] = BookIdle
  BY <1>0 DEF SharedBook!Passes
<1>31. \A p \in SharedBook!Processes : SharedBook!Fails(p) => runbookRuns'["scan"] = BookIdle
  BY <1>0 DEF SharedBook!Fails
<1>32. \A p \in SharedBook!Processes : SharedBook!WritesRunbook(p) => runbookRuns'["scan"] = BookIdle
  BY <1>0 DEF SharedBook!WritesRunbook
<1>33. \A p \in SharedBook!Processes : SharedBook!WritesValidation(p) => runbookRuns'["scan"] = BookIdle
  BY <1>0 DEF SharedBook!WritesValidation
<1>34. \A p \in SharedBook!Processes : SharedBook!Answers(p) => runbookRuns'["scan"] = BookIdle
  BY <1>0 DEF SharedBook!Answers
<1>35. \A p \in SharedBook!Processes : SharedBook!Dies(p) => runbookRuns'["scan"] = BookIdle
  BY <1>0 DEF SharedBook!Dies
<1>36. \A v \in 1 .. BookVersions : SharedBook!Verifies(v) => UNCHANGED runbookRuns
  BY DEF SharedBook!Verifies
<1>a. UNCHANGED SharedBook!vars => UNCHANGED AnyBook!vars /\ UNCHANGED runbookRuns
  BY DEF SharedBook!vars, AnyBook!vars
<1> HIDE DEF
      SharedBook!Tip, SharedBook!Resting, SharedBook!MayStart, SharedBook!AllRest,
      SharedBook!Processes, SharedBook!Becomes, SharedBook!Rests, SharedBook!TriesAgain,
      SharedBook!Leased, SharedBook!Lease, SharedBook!NoScan, SharedBook!Told,
      SharedBook!checkout, SharedBook!files, AnyBook!Tip, AnyBook!Resting, AnyBook!MayStart,
      AnyBook!AllRest, AnyBook!Processes, AnyBook!Becomes, AnyBook!Rests, AnyBook!TriesAgain,
      AnyBook!Leased, AnyBook!Lease, AnyBook!NoScan, AnyBook!Told, AnyBook!checkout,
      AnyBook!files
<1>b. CASE SharedBook!Next
  BY <1>b, <1>0, <1>1, <1>2, <1>3, <1>4, <1>5, <1>6, <1>7, <1>8, <1>9, <1>10, <1>11, <1>12, <1>13,
     <1>14, <1>15, <1>16, <1>17, <1>18, <1>19, <1>20, <1>21, <1>22, <1>23, <1>24, <1>25, <1>26,
     <1>27, <1>28, <1>29, <1>30, <1>31, <1>32, <1>33, <1>34, <1>35, <1>36
     DEF SharedBook!Next, AnyBook!Next
<1> QED
  BY <1>0, <1>a, <1>b

\* It holds at the start.
LEMMA SerialInit == Book!ParametersAreSound => (Book!Init => SerialInv)
<1> SUFFICES ASSUME Book!ParametersAreSound, Book!Init PROVE SerialInv
  OBVIOUS
<1>1. BookInv
  BY BookInit
<1>2. \A p \in AnyBook!Processes : runbookRuns[p] = BookIdle
  BY DEF Book!Init, Book!Resting, BookIdle, Book!Processes, AnyBook!Processes
<1>3. BookIdle.at = "rest" /\ "daemon" \in AnyBook!Processes /\ "validate" \in AnyBook!Processes
  BY DEF BookIdle, AnyBook!Processes
<1>4. /\ hub = [status |-> "none", holder |-> "nobody", left |-> 0] /\ cut = FALSE
      /\ runbook = 0 /\ validation.of = 0
  BY DEF Book!Init, Book!NoScan, Book!NoValidation
<1>5. OneRunAtATime
  BY <1>2 DEF OneRunAtATime
<1>6. FilesFollow
  BY <1>2, <1>3, <1>4 DEF FilesFollow
<1>7. LeaseOK
  BY <1>2, <1>3, <1>4 DEF LeaseOK, Scan
<1> QED
  BY <1>1, <1>5, <1>6, <1>7 DEF SerialInv

\* A step of the run that is on, or of one that begins while none is, leaves the others
\* at rest; the step of the others is over before it begins.
LEMMA SerialStep ==
  ASSUME Book!ParametersAreSound, SerialInv, [Book!Next]_(Book!vars)
  PROVE  SerialInv'
<1>0. BookInv /\ BookInv'
  BY BookIsAny, BookStep DEF SerialInv
<1>1. /\ Book!Processes = AnyBook!Processes /\ Book!Resting = BookIdle /\ BookIdle.at = "rest"
         /\ ~BookIdle.lost
      /\ Book!Processes = {"daemon", "scan", "validate"}
  BY DEF Book!Processes, AnyBook!Processes, Book!Resting, BookIdle
<1>2. ASSUME NEW p \in Book!Processes
      PROVE  /\ runbookRuns[p] \in BookRun /\ runbookRuns'[p] \in BookRun
             /\ (runbookRuns[p] = BookIdle <=> runbookRuns[p].at = "rest")
             /\ (runbookRuns'[p] = BookIdle <=> runbookRuns'[p].at = "rest")
  <2>1. /\ BookRunOK(runbookRuns[p], runbookTree, history, greens)
        /\ BookRunOK(runbookRuns'[p], runbookTree', history', greens')
    BY <1>0, <1>1 DEF BookInv
  <2> QED
    BY <1>1, <2>1 DEF BookRunOK
<1>3. runbookRuns \in [Book!Processes -> BookRun]
  BY <1>0, <1>1 DEF BookInv, BookTyped
<1>4. /\ hub \in Scan /\ (hub.status = "running" => hub.left # 0)
      /\ due \in BOOLEAN /\ due' \in BOOLEAN /\ cut \in BOOLEAN
  BY <1>0 DEF SerialInv, LeaseOK, BookInv, FilesFollow
\* The rest of the world.
<1>5. CASE UNCHANGED Book!vars
  BY <1>5, <1>0 DEF Book!vars, SerialInv, OneRunAtATime, FilesFollow, LeaseOK
<1>6. CASE Book!Edits \/ Book!Commits \/ \E v \in 1 .. BookVersions : Book!Verifies(v)
  <2>1. UNCHANGED <<runbook, validation, runbookRuns, hub, due, cut>>
    BY <1>6 DEF Book!Edits, Book!Commits, Book!Verifies, Book!files
  <2> QED
    BY <1>0, <2>1 DEF SerialInv, OneRunAtATime, FilesFollow, LeaseOK
<1>7. CASE Book!HubAsks \/ Book!AnotherClaims \/ Book!Beat
  <2>1. UNCHANGED <<runbook, validation, runbookRuns, cut>>
    BY <1>7 DEF Book!HubAsks, Book!AnotherClaims, Book!Beat, Book!files
  <2>2. LeaseOK'
    <3>1. CASE Book!HubAsks
      <4>1. hub.status \in {"none", "completed", "failed"}
            /\ hub' = [Book!NoScan EXCEPT !.status = "queued"]
            /\ UNCHANGED <<due, runbookRuns>>
        BY <3>1 DEF Book!HubAsks
      <4>2. hub' = [status |-> "queued", holder |-> "nobody", left |-> 0]
        BY <4>1 DEF Book!NoScan
      <4>3. hub' \in Scan /\ hub'.status = "queued"
        BY <4>2 DEF Scan
      <4>4. ~(runbookRuns["daemon"] # BookIdle /\ ~runbookRuns["daemon"].lost /\ ~due)
        BY <4>1 DEF SerialInv, LeaseOK
      <4> QED
        BY <4>1, <4>3, <4>4 DEF LeaseOK
    <3>2. CASE Book!AnotherClaims
      <4>1. hub.status = "queued" /\ hub' = [status |-> "running", holder |-> "another", left |-> 2]
            /\ UNCHANGED <<due, runbookRuns>>
        BY <3>2 DEF Book!AnotherClaims, Book!Lease
      <4> QED
        BY <4>1 DEF SerialInv, LeaseOK, Scan
    <3>3. CASE Book!Beat
      <4>1. /\ hub.status = "running" /\ UNCHANGED runbookRuns
            /\ hub' = IF hub.left = 1 THEN [Book!NoScan EXCEPT !.status = "queued"]
                      ELSE [hub EXCEPT !.left = @ - 1]
            /\ due' = (runbookRuns["daemon"] # BookIdle /\ ~runbookRuns["daemon"].lost)
        BY <1>1, <3>3 DEF Book!Beat, Book!Leased
      <4>2. hub' \in Scan /\ (hub'.status = "running" => hub'.left # 0)
            /\ hub'.status \notin {"completed", "failed"}
        BY <1>4, <4>1 DEF Scan, Book!NoScan
      <4>3. runbookRuns'["daemon"] # BookIdle /\ ~runbookRuns'["daemon"].lost => due'
        BY <4>1
      <4> QED
        BY <4>2, <4>3 DEF LeaseOK
    <3> QED
      BY <1>7, <3>1, <3>2, <3>3
  <2> QED
    BY <1>0, <2>1, <2>2 DEF SerialInv, OneRunAtATime, FilesFollow
\* A run that begins finds all of them at rest.
<1>8. ASSUME NEW p \in Book!Processes, runbookRuns' = [runbookRuns EXCEPT ![p] = runbookRuns'[p]],
             Book!AllRest \/ runbookRuns[p] # BookIdle
      PROVE  /\ OneRunAtATime'
             /\ \A q \in Book!Processes : q # p => runbookRuns[q] = BookIdle
                /\ runbookRuns'[q] = BookIdle
  <2>1. \A q \in Book!Processes : q # p => runbookRuns[q] = BookIdle
    BY <1>1, <1>8 DEF SerialInv, OneRunAtATime, Book!AllRest
  <2>2. \A q \in Book!Processes : q # p => runbookRuns'[q] = BookIdle
    BY <1>3, <1>8, <2>1
  <2> QED
    BY <1>1, <2>1, <2>2 DEF OneRunAtATime
\* What such a step has to say of its own run: of the files, and of the lease.
<1>9. ASSUME NEW p \in Book!Processes, runbookRuns' = [runbookRuns EXCEPT ![p] = runbookRuns'[p]],
             Book!AllRest \/ runbookRuns[p] # BookIdle,
             cut' \in BOOLEAN,
             runbookRuns'[p].at # "builds" /\ ~cut' => runbook' = validation'.of,
             runbookRuns'[p].at = "builds" \/ (p = "validate" /\ runbookRuns'[p].at # "rest") =>
               runbookRuns'[p].runbook = runbook',
             p = "validate" => runbookRuns'[p].at \notin {"proposes", "answers"},
             LeaseOK'
      PROVE  SerialInv'
  <2>1. \A q \in Book!Processes : q # p => runbookRuns'[q].at = "rest"
    BY <1>1, <1>8, <1>9
  <2>2. FilesFollow'
    BY <1>1, <1>9, <2>1 DEF FilesFollow
  <2> QED
    BY <1>0, <1>8, <1>9, <2>2 DEF SerialInv
\* The lease, where the hub and the renewal are left as they are.
<1>10. ASSUME NEW p \in Book!Processes, runbookRuns' = [runbookRuns EXCEPT ![p] = runbookRuns'[p]],
              UNCHANGED <<hub, due>>,
              p = "daemon" => runbookRuns'[p] = BookIdle
                              \/ (runbookRuns[p] # BookIdle /\ runbookRuns'[p].lost = runbookRuns[p].lost)
       PROVE  LeaseOK'
  <2>1. runbookRuns'["daemon"] = runbookRuns["daemon"] \/ p = "daemon"
    BY <1>1, <1>3, <1>10
  <2> QED
    BY <1>10, <2>1 DEF SerialInv, LeaseOK
<1>11. ASSUME NEW p \in Book!Processes, runbookRuns[p] # BookIdle
       PROVE  /\ runbookRuns[p].at # "builds" /\ ~cut => runbook = validation.of
              /\ runbookRuns[p].at = "builds" \/ p = "validate" => runbookRuns[p].runbook = runbook
  <2>1. \A q \in Book!Processes : q # p => runbookRuns[q].at = "rest"
    BY <1>1, <1>11 DEF SerialInv, OneRunAtATime
  <2> QED
    BY <1>1, <1>2, <1>11, <2>1 DEF SerialInv, FilesFollow
<1>12. Book!AllRest /\ ~cut => runbook = validation.of
  BY <1>1 DEF Book!AllRest, SerialInv, FilesFollow
<1>13. CASE Book!Claims
  <2>1. /\ Book!AllRest /\ UNCHANGED <<runbook, validation, due, cut>>
        /\ hub' = [status |-> "running", holder |-> "daemon", left |-> 2]
    BY <1>13 DEF Book!Claims, Book!MayStart, Book!files, Book!Lease
  <2>2. "daemon" \in Book!Processes
        /\ runbookRuns' = [runbookRuns EXCEPT !["daemon"] = runbookRuns'["daemon"]]
        /\ runbookRuns'["daemon"].at = "proposes"
    BY <1>1, <1>3, <1>13 DEF Book!Claims, BookIdle
  <2>3. LeaseOK'
    BY <2>1 DEF LeaseOK, Scan
  <2> QED
    BY <1>4, <1>9, <1>12, <2>1, <2>2, <2>3
<1>14. CASE Book!Renews \/ Book!RenewalIsLost
  <2>0. "daemon" \in Book!Processes /\ due /\ ~due' /\ runbookRuns["daemon"] # BookIdle
        /\ UNCHANGED <<runbook, validation, cut>>
    BY <1>0, <1>1, <1>14 DEF Book!Renews, Book!RenewalIsLost, Book!files, BookInv
  <2>1. CASE runbookRuns' = runbookRuns
        /\ hub' = [status |-> "running", holder |-> "daemon", left |-> 2]
    <3>1. LeaseOK'
      BY <2>1 DEF LeaseOK, Scan
    <3> QED
      BY <1>0, <2>0, <2>1, <3>1 DEF SerialInv, OneRunAtATime, FilesFollow
  <2>2. CASE runbookRuns' = [runbookRuns EXCEPT !["daemon"].lost = TRUE] /\ UNCHANGED hub
    <3>1. /\ runbookRuns' = [runbookRuns EXCEPT !["daemon"] = runbookRuns'["daemon"]]
          /\ runbookRuns'["daemon"].lost /\ runbookRuns'["daemon"].at = runbookRuns["daemon"].at
          /\ runbookRuns'["daemon"].runbook = runbookRuns["daemon"].runbook
      BY <1>2, <1>3, <2>0, <2>2 DEF BookRun
    <3>2. LeaseOK'
      BY <2>2, <3>1 DEF SerialInv, LeaseOK
    <3> QED
      BY <1>4, <1>9, <1>11, <2>0, <3>1, <3>2
  <2> QED
    BY <1>14, <2>1, <2>2 DEF Book!Renews, Book!RenewalIsLost, Book!Lease
<1>15. ASSUME NEW p \in Book!Processes, Book!CommandStarts(p) PROVE SerialInv'
  <2>1. /\ Book!AllRest /\ p # "daemon" /\ UNCHANGED <<runbook, validation, hub, due, cut>>
        /\ runbookRuns' = [runbookRuns EXCEPT ![p] = runbookRuns'[p]]
        /\ \/ p = "scan" /\ runbookRuns'[p].at = "proposes"
           \/ p = "validate" /\ runbookRuns'[p].at = "copies" /\ runbookRuns'[p].runbook = runbook
    BY <1>1, <1>3, <1>15 DEF Book!CommandStarts, Book!MayStart, Book!files, BookIdle
  <2>2. LeaseOK'
    BY <1>10, <2>1
  <2> QED
    BY <1>4, <1>9, <1>12, <2>1, <2>2
\* A run that goes on, its lease as it is, over the files as they are.
<1>16. ASSUME NEW p \in Book!Processes, runbookRuns[p] # BookIdle, runbookRuns[p].at # "builds",
              runbookRuns' = [runbookRuns EXCEPT ![p] = runbookRuns'[p]],
              UNCHANGED <<runbook, validation, hub, due, cut>>,
              runbookRuns'[p].lost = runbookRuns[p].lost \/ runbookRuns'[p] = BookIdle,
              runbookRuns'[p].at # "builds",
              p = "validate" => runbookRuns'[p] = BookIdle
                \/ (runbookRuns'[p].at \in {"runs", "destroys"}
                   /\ runbookRuns'[p].runbook = runbookRuns[p].runbook)
       PROVE  SerialInv'
  <2>1. LeaseOK'
    BY <1>10, <1>16
  <2> QED
    BY <1>1, <1>4, <1>9, <1>11, <1>16, <2>1
<1>17. ASSUME NEW p \in Book!Processes, runbookRuns[p] # BookIdle, runbookRuns[p].at # "builds",
              Book!TriesAgain(p), UNCHANGED <<runbook, validation, hub, due, cut>>
       PROVE  SerialInv'
  <2>1. CASE p = "validate"
    <3>1. runbookRuns' = [runbookRuns EXCEPT ![p] = runbookRuns'[p]] /\ runbookRuns'[p] = BookIdle
      BY <1>1, <1>3, <1>17, <2>1 DEF Book!TriesAgain, Book!Rests
    <3> QED
      BY <1>1, <1>16, <1>17, <3>1
  <2>2. CASE p # "validate"
    <3>1. /\ runbookRuns' = [runbookRuns EXCEPT ![p] = runbookRuns'[p]]
          /\ runbookRuns'[p].at \in {"answers", "proposes"}
             /\ runbookRuns'[p].lost = runbookRuns[p].lost
      BY <1>2, <1>3, <1>17, <2>2 DEF Book!TriesAgain, BookRun
    <3> QED
      BY <1>16, <1>17, <2>2, <3>1
  <2> QED
    BY <2>1, <2>2
<1>18. ASSUME NEW p \in Book!Processes, Book!Proposes(p) PROVE SerialInv'
  <2>1. runbookRuns[p] # BookIdle /\ runbookRuns[p].at = "proposes" /\ p # "validate"
        /\ UNCHANGED <<runbook, validation, hub, due, cut>>
    BY <1>1, <1>18 DEF Book!Proposes, Book!files, SerialInv, FilesFollow
  <2>2. CASE Book!TriesAgain(p)
    BY <1>17, <2>1, <2>2
  <2>3. ASSUME NEW b \in Books, runbookRuns' = [runbookRuns EXCEPT ![p].at = "copies",
        ![p].runbook = b]
        PROVE  SerialInv'
    <3>1. /\ runbookRuns' = [runbookRuns EXCEPT ![p] = runbookRuns'[p]]
          /\ runbookRuns'[p].at = "copies" /\ runbookRuns'[p].lost = runbookRuns[p].lost
      BY <1>2, <1>3, <2>3 DEF BookRun
    <3> QED
      BY <1>16, <2>1, <3>1
  <2> QED
    BY <1>18, <2>2, <2>3 DEF Book!Proposes
<1>19. ASSUME NEW p \in Book!Processes, Book!Copies(p) \/ Book!Passes(p) PROVE SerialInv'
  <2>1. runbookRuns[p] # BookIdle /\ runbookRuns[p].at # "builds"
        /\ UNCHANGED <<runbook, validation, hub, due, cut>>
    BY <1>1, <1>19 DEF Book!Copies, Book!Passes, Book!files
  <2>2. /\ runbookRuns' = [runbookRuns EXCEPT ![p] = runbookRuns'[p]]
        /\ runbookRuns'[p].at \in {"runs", "destroys"} /\ runbookRuns'[p].lost = runbookRuns[p].lost
        /\ runbookRuns'[p].runbook = runbookRuns[p].runbook
    BY <1>2, <1>3, <1>19 DEF Book!Copies, Book!Passes, Book!Becomes, BookRun
  <2> QED
    BY <1>16, <2>1, <2>2
<1>20. ASSUME NEW p \in Book!Processes, Book!Fails(p) PROVE SerialInv'
  <2>1. runbookRuns[p] # BookIdle /\ runbookRuns[p].at # "builds"
        /\ UNCHANGED <<runbook, validation, hub, due, cut>>
    BY <1>1, <1>20 DEF Book!Fails, Book!files
  <2> QED
    BY <1>17, <1>20, <2>1 DEF Book!Fails
<1>21. ASSUME NEW p \in Book!Processes, Book!WritesRunbook(p) PROVE SerialInv'
  <2>1. runbookRuns[p] # BookIdle /\ runbookRuns[p].at = "destroys" /\ UNCHANGED <<hub, due, cut>>
        /\ runbook' = IF p = "validate" THEN runbook ELSE runbookRuns[p].runbook
    BY <1>1, <1>21 DEF Book!WritesRunbook
  <2>2. /\ runbookRuns' = [runbookRuns EXCEPT ![p] = runbookRuns'[p]]
        /\ runbookRuns'[p].at = "builds" /\ runbookRuns'[p].lost = runbookRuns[p].lost
        /\ runbookRuns'[p].runbook = runbookRuns[p].runbook
    BY <1>2, <1>3, <1>21 DEF Book!WritesRunbook, Book!Becomes, BookRun
  <2>3. LeaseOK'
    BY <1>10, <2>1, <2>2
  <2> QED
    BY <1>4, <1>9, <1>11, <2>1, <2>2, <2>3
<1>22. ASSUME NEW p \in Book!Processes, Book!WritesValidation(p) PROVE SerialInv'
  <2>1. /\ runbookRuns[p] # BookIdle /\ runbookRuns[p].at = "builds"
           /\ UNCHANGED <<runbook, hub, due>>
        /\ validation' = [of |-> runbookRuns[p].runbook, at |-> runbookRuns[p].head] /\ ~cut'
        /\ cut' \in BOOLEAN
    BY <1>1, <1>22 DEF Book!WritesValidation
  <2>2. /\ runbookRuns' = [runbookRuns EXCEPT ![p] = runbookRuns'[p]]
        /\ \/ p # "daemon" /\ runbookRuns'[p] = BookIdle
           \/ p = "daemon" /\ runbookRuns'[p].at = "answers"
              /\ runbookRuns'[p].lost = runbookRuns[p].lost
    BY <1>1, <1>2, <1>3, <1>22 DEF Book!WritesValidation, Book!Becomes, Book!Rests, BookRun
  <2>3. LeaseOK'
    BY <1>10, <2>1, <2>2
  <2> QED
    BY <1>1, <1>9, <1>11, <2>1, <2>2, <2>3
<1>23. ASSUME NEW p \in Book!Processes, Book!Answers(p) PROVE SerialInv'
  <2>1. /\ runbookRuns[p] # BookIdle /\ runbookRuns[p].at = "answers" /\ ~due'
        /\ UNCHANGED <<runbook, validation, cut>>
        /\ runbookRuns' = [runbookRuns EXCEPT ![p] = runbookRuns'[p]] /\ runbookRuns'[p] = BookIdle
    BY <1>1, <1>3, <1>23 DEF Book!Answers, Book!Rests, Book!files
  <2>2. runbookRuns'["daemon"] = BookIdle
    BY <1>1, <1>8, <2>1
  <2>3. hub' \in Scan /\ (hub'.status = "running" => hub'.left # 0)
        /\ (hub'.status \in {"completed", "failed"} => hub'.holder = "daemon")
    <3>1. CASE UNCHANGED hub
      BY <3>1 DEF SerialInv, LeaseOK
    <3>2. CASE p = "daemon" /\ ~due /\ ~runbookRuns[p].lost /\ Book!Told(p)
      <4>1. hub.holder = "daemon"
        BY <2>1, <3>2 DEF SerialInv, LeaseOK
      <4>2. hub' = [hub EXCEPT !.left = 0,
                      !.status = IF runbookRuns[p].runbook = 0 THEN "failed" ELSE "completed"]
        BY <3>2 DEF Book!Told
      <4>3. /\ hub'.holder = "daemon" /\ hub'.left = 0 /\ hub'.status \in {"completed", "failed"}
            /\ hub' = [status |-> hub'.status, holder |-> hub'.holder, left |-> hub'.left]
        <5> DEFINE s == IF runbookRuns[p].runbook = 0 THEN "failed" ELSE "completed"
        <5>1. s \in {"completed", "failed"}
          OBVIOUS
        <5> HIDE DEF s
        <5>2. hub' = [hub EXCEPT !.left = 0, !.status = s]
          BY <4>2 DEF s
        <5> QED
          BY <1>4, <4>1, <5>1, <5>2 DEF Scan
      <4> QED
        BY <4>3 DEF Scan
    <3> QED
      BY <1>23, <3>1, <3>2 DEF Book!Answers
  <2>4. LeaseOK'
    BY <2>2, <2>3 DEF LeaseOK
  <2> QED
    BY <1>1, <1>4, <1>9, <1>11, <2>1, <2>4
<1>24. ASSUME NEW p \in Book!Processes, Book!Dies(p) PROVE SerialInv'
  <2>1. /\ runbookRuns[p] # BookIdle /\ UNCHANGED <<runbook, validation, hub>>
        /\ runbookRuns' = [runbookRuns EXCEPT ![p] = runbookRuns'[p]] /\ runbookRuns'[p] = BookIdle
        /\ cut' = (cut \/ runbookRuns[p].at = "builds") /\ (p # "daemon" => due' = due)
    BY <1>1, <1>3, <1>4, <1>24 DEF Book!Dies, Book!Rests, Book!files
  <2>2. runbookRuns'["daemon"] = BookIdle
    BY <1>1, <1>8, <2>1
  <2>3. LeaseOK'
    BY <2>1, <2>2 DEF SerialInv, LeaseOK
  <2>4. cut' \in BOOLEAN /\ (~cut' => ~cut /\ runbookRuns[p].at # "builds")
    BY <2>1
  <2> QED
    BY <1>1, <1>9, <1>11, <2>1, <2>3, <2>4
<1> QED
  BY <1>5, <1>6, <1>7, <1>13, <1>14, <1>15, <1>18, <1>19, <1>20, <1>21, <1>22, <1>23, <1>24
     DEF Book!Next

(* The boxes *)

\* Every kind of box, but for what the lockfiles are.
AnyBoxes == INSTANCE Sandboxes WITH
  Warm <- TRUE, Alike <- {}, Persons <- TRUE,
  Deletes <- TRUE, CopyFails <- TRUE, Sweeps <- TRUE, MaxCrashes <- BoxCrashes,
  MaxTurns <- BoxTurns, tree <- sandboxTree, turns <- sandboxTurns,
  crashes <- sandboxCrashes

BoxParts == {"boxes", "boxes cold", "boxes by hand", "boxes apart", "boxes swept"}
Unswept == {"boxes", "boxes by hand", "boxes apart"}
Alone == {"boxes", "boxes cold"}

BoxFiles == Tasks \union {"base"}
Prints == Tasks \union {"all"}
PrintOf(p, t) == IF p = "boxes by hand" THEN "all" ELSE t
Has(content) == content # {"none"}
Content == {c \in SUBSET (BoxFiles \union {"none"}) : Has(c) => c \subseteq BoxFiles}
RunNames == {"dev", "verify", "checks"} \X Tasks
BoxNames == RunNames \union ({"scan"} \X Prints)
BoxActors == {"chain", "by hand"}
Kinds(a) == IF a = "chain" THEN {"dev", "verify"} ELSE {"checks"}
BoxStages == {"rest", "resolves", "builds", "installs", "purges", "boots", "copies in", "works",
              "copies out", "ends"}
Holding == {"installs", "copies in", "works", "copies out", "ends"}
BoxRun == [at : BoxStages, task : Tasks \union {"none"}, snap : Prints \union {"none"},
           box : BoxNames \union {<<"none", "none">>}, ok : BOOLEAN]
AtRest == [at |-> "rest", task |-> "none", snap |-> "none", box |-> <<"none", "none">>, ok |-> TRUE]

\* What a run knows of itself.
BoxRunOK(p, a, r, rec) ==
  /\ r \in BoxRun /\ (r.at = "rest" => r = AtRest)
  /\ r.at # "rest" => /\ r.task \in rec /\ r.box \in Kinds(a) \X {r.task}
                      /\ r.snap \in {"none", PrintOf(p, r.task)}
  /\ r.at \in {"resolves", "builds", "installs"} => r.snap = "none"
  /\ r.at \in {"builds", "installs", "purges"} => a = "chain" /\ p # "boxes cold"
  /\ r.at = "purges" => r.snap = PrintOf(p, r.task)
  /\ p = "boxes cold" => r.snap = "none"

\* The box it holds, and that it has it: with no sweep always, and else the chain,
\* whose task has a record, once the box is the run's own.
Held(p, r) == IF r.at = "installs" THEN <<"scan", PrintOf(p, r.task)>> ELSE r.box
HeldBy(p, r, n) == r.at \in Holding /\ n = Held(p, r)
Kept(p, a, r, bx) ==
  r.at \in Holding /\ (p \in Unswept \/ (a = "chain" /\ r.at # "installs")) => Has(bx[Held(p, r)])

BoxTyped ==
  /\ recorded \subseteq Tasks
  /\ sandboxTree \in [Tasks -> SUBSET BoxFiles] /\ meant \in [Tasks -> SUBSET BoxFiles]
  /\ sandboxTurns \in [Tasks -> 0 .. BoxTurns] /\ sandboxCrashes \in Nat
  /\ snaps \in [Prints -> Content] /\ boxes \in [BoxNames -> Content]
  /\ work \in [BoxActors -> BoxRun]
  /\ sweep \in [on : BOOLEAN, claimed : SUBSET Tasks, listed : SUBSET BoxNames]
  /\ ~sweep.on => sweep.listed = {}

BoxRunsOK(p) ==
  /\ \A a \in BoxActors : BoxRunOK(p, a, work[a], recorded) /\ Kept(p, a, work[a], boxes)
  /\ p \in Unswept \/ sandboxCrashes = 0 => ~sweep.on
  /\ sandboxCrashes = 0 =>
       \A n \in BoxNames : Has(boxes[n]) => \E a \in BoxActors : HeldBy(p, work[a], n)

\* Whose files are where.
OwnFiles ==
  /\ \A t \in Tasks : sandboxTree[t] \subseteq {"base", t}
  /\ \A n \in RunNames : Has(boxes[n]) => boxes[n] \subseteq {"base", n[2]}

\* Where each task has its own snapshot, it was made of that task's worktree, which
\* loses nothing.
ApartFiles ==
  \A t \in Tasks : /\ Has(snaps[t]) => snaps[t] \subseteq sandboxTree[t]
                   /\ Has(boxes[<<"scan", t>>]) => boxes[<<"scan", t>>] \subseteq sandboxTree[t]

\* Where they share one, it was made before any of them had written.
SharedFiles ==
  /\ Has(snaps["all"]) => snaps["all"] \subseteq {"base"}
  /\ Has(boxes[<<"scan", "all">>]) => boxes[<<"scan", "all">>] \subseteq {"base"}
  /\ ~Has(snaps["all"]) =>
       /\ \A t \in Tasks : sandboxTree[t] \subseteq {"base"}
       /\ \A n \in RunNames : Has(boxes[n]) => boxes[n] \subseteq {"base"}
       /\ work["chain"].at \in {"rest", "resolves", "builds", "installs"}
  /\ work["chain"].at \in {"builds", "installs"} => ~Has(snaps["all"])
  /\ \A a \in BoxActors : work[a].snap # "none" => Has(snaps["all"])

\* Where nobody runs checks by hand, a verification's box comes to hold the commit.
CommitFiles ==
  LET r == work["chain"]
  IN /\ work["by hand"] = AtRest
     /\ r.at = "copies in" => boxes[r.box] \subseteq sandboxTree[r.task]
     /\ r.at = "works" /\ r.box[1] # "dev" => boxes[r.box] = sandboxTree[r.task]
     /\ r.snap # "none" => Has(snaps[r.snap])
     /\ tested.is = tested.of

BoxInv(p) ==
  /\ BoxTyped /\ BoxRunsOK(p) /\ OwnFiles
  /\ IF p = "boxes by hand" THEN SharedFiles ELSE ApartFiles
  /\ p \in Alone => CommitFiles

\* What a box or a snapshot holds.
LEMMA Contents ==
  /\ {"none"} \in Content /\ \A c : c \subseteq BoxFiles => c \in Content
  /\ \A c \in Content : c = {"none"} \/ c \subseteq BoxFiles
<1>1. {"none"} \in Content
  BY DEF Content, Has
<1>2. ASSUME NEW c, c \subseteq BoxFiles PROVE c \in Content
  BY <1>2 DEF Content
<1>3. ASSUME NEW c \in Content PROVE c = {"none"} \/ c \subseteq BoxFiles
  BY <1>3 DEF Content, Has
<1> QED
  BY <1>1, <1>2, <1>3

\* The invariant says what the run checks.
LEMMA BoxesSay ==
  ASSUME Boxes!ParametersAreSound, NEW p \in BoxParts, BoxInv(p)
  PROVE  /\ Boxes!TypeOK /\ Boxes!TreesAreTheirOwn /\ Boxes!NoBoxIsLeft
         /\ p \in Alone => Boxes!TestedIsTheCommit /\ Boxes!ReadyIsThere
         /\ p \in {"boxes", "boxes cold", "boxes apart"} => Boxes!RunsKeepTheirBox
         /\ p = "boxes by hand" => HandBoxes!RunsKeepTheirBox /\ HandBoxes!ReadyIsThere
<1>1. /\ Boxes!Actors = BoxActors /\ Boxes!Names = BoxNames /\ Boxes!Fingerprints = Prints
      /\ Boxes!Files = BoxFiles /\ Boxes!NoFiles = {"none"} /\ Boxes!Resting = AtRest
      /\ HandBoxes!Actors = BoxActors /\ HandBoxes!NoFiles = {"none"}
  BY DEF Boxes!Actors, Boxes!Names, Boxes!Fingerprints, Boxes!Files, Boxes!NoFiles, Boxes!Resting,
     BoxActors, BoxNames, RunNames, Prints, BoxFiles, AtRest, Boxes!Chain, Boxes!Hand, Boxes!Base,
     HandBoxes!Actors, HandBoxes!NoFiles, HandBoxes!Chain, HandBoxes!Hand
<1>2. /\ BoxTyped /\ BoxRunsOK(p) /\ OwnFiles
      /\ \A a \in BoxActors : BoxRunOK(p, a, work[a], recorded) /\ Kept(p, a, work[a], boxes)
  BY DEF BoxInv, BoxRunsOK
<1>3. Boxes!TypeOK
  <2>1. \A t \in Tasks : /\ sandboxTree[t] \in SUBSET BoxFiles /\ meant[t] \in SUBSET BoxFiles
                         /\ sandboxTurns[t] \in 0 .. BoxTurns
    BY <1>2 DEF BoxTyped
  <2>2. /\ \A f \in Prints : snaps[f] \in Content
        /\ \A n \in BoxNames : boxes[n] \in Content
    BY <1>2 DEF BoxTyped
  <2>3. \A a \in BoxActors : work[a].at \in BoxStages
    BY <1>2 DEF BoxRunOK, BoxRun
  <2>4. recorded \subseteq Tasks /\ sweep.claimed \subseteq Tasks /\ sweep.listed \subseteq BoxNames
    BY <1>2 DEF BoxTyped
  <2>5. \A c \in Content : c = {"none"} \/ c \subseteq BoxFiles
    BY Contents
  <2>6. /\ \A t \in Tasks : sandboxTree[t] \subseteq BoxFiles /\ meant[t] \subseteq BoxFiles
        /\ \A f \in Prints : snaps[f] = {"none"} \/ snaps[f] \subseteq BoxFiles
        /\ \A n \in BoxNames : boxes[n] = {"none"} \/ boxes[n] \subseteq BoxFiles
    BY <2>1, <2>2, <2>5
  <2> QED
    BY <1>1, <2>1, <2>6, <2>3, <2>4 DEF Boxes!TypeOK, BoxStages
<1>4. Boxes!TreesAreTheirOwn
  BY <1>2 DEF Boxes!TreesAreTheirOwn, OwnFiles, Boxes!Base
<1>5. Boxes!NoBoxIsLeft
  <2>1. \A n : ~HeldBy(p, AtRest, n)
    BY DEF HeldBy, AtRest, Holding
  <2> QED
    BY <1>1, <1>2, <2>1 DEF Boxes!NoBoxIsLeft, Boxes!There, BoxRunsOK, Has
<1>6. ASSUME p \in Alone PROVE Boxes!TestedIsTheCommit /\ Boxes!ReadyIsThere
  <2>1. CommitFiles
    BY <1>6 DEF BoxInv
  <2>2. AtRest.snap = "none"
    BY DEF AtRest
  <2>3. \A a \in BoxActors : work[a].snap # "none" => Has(snaps[work[a].snap])
    BY <2>1, <2>2 DEF CommitFiles, BoxActors
  <2> QED
    BY <1>1, <2>1, <2>3
       DEF CommitFiles, Boxes!TestedIsTheCommit, Boxes!ReadyIsThere, Boxes!There, Has
<1>7. ASSUME p \in {"boxes", "boxes cold", "boxes apart"} PROVE Boxes!RunsKeepTheirBox
  <2>1. \A a \in BoxActors : work[a].at = "installs" => p # "boxes cold"
    BY <1>2 DEF BoxRunOK
  <2>2. \A a \in BoxActors : work[a].at \in Holding /\ p = "boxes cold" => a = "chain"
    <3>1. CASE p = "boxes cold"
      <4>1. work["by hand"] = AtRest /\ AtRest.at = "rest"
        BY <3>1 DEF BoxInv, CommitFiles, AtRest, Alone
      <4> QED
        BY <4>1 DEF BoxActors, Holding
    <3> QED
      BY <3>1
  <2>3. ASSUME NEW a \in BoxActors, work[a].at \in Holding
        PROVE  Has(boxes[Held(p, work[a])])
    BY <1>2, <1>7, <2>1, <2>2, <2>3 DEF Kept, Unswept
  <2>4. ASSUME NEW a \in BoxActors
        PROVE  Held(p, work[a]) = IF work[a].at = "installs" THEN Boxes!ScanBox(a) ELSE Boxes!Box(a)
    BY <1>7 DEF Held, PrintOf, Boxes!ScanBox, Boxes!Box, Boxes!Fingerprint
  <2> QED
    BY <1>1, <2>3, <2>4 DEF Boxes!RunsKeepTheirBox, Boxes!Holds, Holding, Has, Boxes!There
<1>8. ASSUME p = "boxes by hand" PROVE HandBoxes!RunsKeepTheirBox /\ HandBoxes!ReadyIsThere
  <2>1. ASSUME NEW a \in BoxActors, work[a].at \in Holding
        PROVE  /\ Has(boxes[Held(p, work[a])])
               /\ Held(p, work[a]) =
                    IF work[a].at = "installs" THEN HandBoxes!ScanBox(a) ELSE HandBoxes!Box(a)
    <3>1. work[a].task \in Tasks
      BY <1>2, <2>1 DEF BoxRunOK, Holding, BoxTyped
    <3>2. Has(boxes[Held(p, work[a])])
      BY <1>2, <1>8, <2>1 DEF Kept, Unswept
    <3> QED
      BY <1>8, <3>1, <3>2 DEF Held, PrintOf, HandBoxes!ScanBox, HandBoxes!Box, HandBoxes!Fingerprint
  <2>2. HandBoxes!RunsKeepTheirBox
    BY <1>1, <2>1 DEF HandBoxes!RunsKeepTheirBox, HandBoxes!Holds, Holding, Has, HandBoxes!There
  <2>3. ASSUME NEW a \in BoxActors, work[a].snap # "none" PROVE Has(snaps[work[a].snap])
    <3>1. AtRest.snap = "none"
      BY DEF AtRest
    <3>2. work[a].snap = "all"
      BY <1>2, <1>8, <2>3, <3>1 DEF BoxRunOK, PrintOf
    <3> QED
      BY <1>8, <2>3, <3>2 DEF BoxInv, SharedFiles
  <2> QED
    BY <1>1, <2>2, <2>3 DEF HandBoxes!ReadyIsThere, Has, HandBoxes!There
<1> QED
  BY <1>3, <1>4, <1>5, <1>6, <1>7, <1>8

\* It holds at the start.
LEMMA BoxesInit == ASSUME Boxes!ParametersAreSound, Boxes!Init, NEW p \in BoxParts PROVE BoxInv(p)
<1>1. /\ recorded = {} /\ sandboxTree = [t \in Tasks |-> {"base"}] /\ meant = sandboxTree
      /\ sandboxTurns = [t \in Tasks |-> 0] /\ sandboxCrashes = 0
      /\ snaps = [f \in Prints |-> {"none"}] /\ boxes = [n \in BoxNames |-> {"none"}]
      /\ work = [a \in BoxActors |-> AtRest]
      /\ sweep = [on |-> FALSE, claimed |-> {}, listed |-> {}] /\ tested.is = tested.of
  BY DEF Boxes!Init, Boxes!Base, Boxes!NoFiles, Boxes!Names, Boxes!Fingerprints, Boxes!Actors,
     Boxes!Chain, Boxes!Hand, Boxes!Resting, Boxes!NoSweep, Boxes!NotTested,
     Prints, BoxNames, RunNames, BoxActors, AtRest
<1>2. AtRest \in BoxRun /\ AtRest.at = "rest" /\ AtRest.snap = "none"
  BY DEF AtRest, BoxRun, BoxStages
<1>3. \A a \in BoxActors : work[a] = AtRest
  BY <1>1
<1>4. /\ "chain" \in BoxActors /\ "by hand" \in BoxActors /\ "all" \in Prints
         /\ Tasks \subseteq Prints
      /\ RunNames \subseteq BoxNames /\ \A f \in Prints : <<"scan", f>> \in BoxNames
  BY DEF BoxActors, Prints, BoxNames
<1>5. BoxTyped
  <2>1. BoxTurns \in Nat
    <3>1. {BoxCrashes, BoxTurns} \subseteq Nat
      BY DEF Boxes!ParametersAreSound
    <3> QED
      BY <3>1
  <2>2. {"none"} \in Content /\ {"base"} \in SUBSET BoxFiles /\ 0 \in 0 .. BoxTurns
    <3>1. {"base"} \in SUBSET BoxFiles /\ 0 \in 0 .. BoxTurns
      BY <2>1 DEF BoxFiles
    <3> QED
      BY <3>1, Contents
  <2> QED
    BY <1>1, <1>2, <2>2 DEF BoxTyped
<1>6. BoxRunsOK(p)
  BY <1>1, <1>2, <1>3 DEF BoxRunsOK, BoxRunOK, Kept, HeldBy, Holding, Has
<1>7. OwnFiles /\ SharedFiles /\ ApartFiles /\ CommitFiles
  BY <1>1, <1>2, <1>3, <1>4 DEF OwnFiles, SharedFiles, ApartFiles, CommitFiles, Has
<1> QED
  BY <1>5, <1>6, <1>7 DEF BoxInv

\* The steps that ask what the lockfiles are, and those that differ between the boxes.
BoxDisk == <<recorded, sandboxTree, meant, sandboxTurns>>
Scanned(p, a) == <<"scan", PrintOf(p, work[a].task)>>
Resolved(p, a) ==
  /\ work[a].at = "resolves" /\ UNCHANGED <<BoxDisk, snaps, boxes, sweep, sandboxCrashes, tested>>
  /\ \/ (p = "boxes cold" \/ a = "by hand") /\ work' = [work EXCEPT ![a].at = "boots"]
     \/ /\ p # "boxes cold" /\ Has(snaps[PrintOf(p, work[a].task)])
        /\ work' = [work EXCEPT ![a].at = "boots", ![a].snap = PrintOf(p, work[a].task)]
     \/ /\ p # "boxes cold" /\ ~Has(snaps[PrintOf(p, work[a].task)]) /\ a = "chain"
        /\ work' = [work EXCEPT ![a].at = "builds"]
Built(p, a) ==
  /\ work[a].at = "builds" /\ work' = [work EXCEPT ![a].at = "installs"]
  /\ boxes' = [boxes EXCEPT ![Scanned(p, a)] = sandboxTree[work[a].task]]
  /\ UNCHANGED <<BoxDisk, snaps, sweep, sandboxCrashes, tested>>
Snapshot(p, a) ==
  /\ work[a].at = "installs" /\ Has(boxes[Scanned(p, a)])
  /\ snaps' = [snaps EXCEPT ![PrintOf(p, work[a].task)] = boxes[Scanned(p, a)]]
  /\ boxes' = [boxes EXCEPT ![Scanned(p, a)] = {"none"}]
  /\ work' = [work EXCEPT ![a].at = "purges", ![a].snap = PrintOf(p, work[a].task)]
  /\ UNCHANGED <<BoxDisk, sweep, sandboxCrashes, tested>>
BuildFailed(p, a) ==
  /\ work[a].at = "installs" /\ work' = [work EXCEPT ![a] = AtRest]
  /\ boxes' = [boxes EXCEPT ![Scanned(p, a)] = {"none"}]
  /\ UNCHANGED <<BoxDisk, snaps, sweep, sandboxCrashes, tested>>
Gone(p, a) ==
  /\ work[a].at \in {"installs", "copies in", "works"}
  /\ ~Has(boxes[Held(p, work[a])]) /\ work' = [work EXCEPT ![a] = AtRest]
  /\ UNCHANGED <<BoxDisk, snaps, boxes, sweep, sandboxCrashes, tested>>
Crashed(p) ==
  /\ sandboxCrashes' = sandboxCrashes + 1 /\ work' = [a \in BoxActors |-> AtRest]
  /\ \E on \in BOOLEAN : sweep' = [on |-> on, claimed |-> recorded, listed |-> {}]
  /\ p \in Unswept => ~sweep'.on
  /\ UNCHANGED <<BoxDisk, snaps, boxes, tested>>
BoxesMove(p) ==
  \/ \E t \in Tasks : \/ AnyBoxes!Creates(t) \/ AnyBoxes!Turns(t) \/ AnyBoxes!Verifies(t)
                      \/ p \notin Alone /\ AnyBoxes!AsksForChecks(t)
  \/ \E a \in BoxActors :
       \/ Resolved(p, a) \/ Built(p, a) \/ Snapshot(p, a) \/ BuildFailed(p, a) \/ Gone(p, a)
       \/ AnyBoxes!Purges(a) \/ AnyBoxes!Boots(a) \/ AnyBoxes!CannotBoot(a)
       \/ AnyBoxes!CopiesIn(a) \/ AnyBoxes!Tests(a) \/ AnyBoxes!CopiesOut(a)
       \/ AnyBoxes!CannotCopyOut(a) \/ AnyBoxes!Finishes(a)
  \/ AnyBoxes!AgentWorks \/ AnyBoxes!AgentDies
  \/ Crashed(p) \/ AnyBoxes!Lists \/ \E n \in BoxNames : AnyBoxes!Sweeps1(n)

\* What a step makes of a run.
Goes(a, goal, snap) ==
  /\ work' = [work EXCEPT ![a] = work'[a]] /\ work'[a] \in BoxRun
  /\ work'[a].at = goal /\ work'[a].snap = snap
  /\ work'[a].task = work[a].task /\ work'[a].box = work[a].box

\* A step of a run that keeps to its own boxes.
LEMMA RunsStayTheirs ==
  ASSUME NEW p \in BoxParts, BoxTyped, BoxRunsOK(p), NEW a \in BoxActors,
         work' = [work EXCEPT ![a] = work'[a]], BoxRunOK(p, a, work'[a], recorded),
         UNCHANGED <<recorded, sweep, sandboxCrashes>>,
         \A n \in BoxNames :
           n[1] \notin (IF a = "chain" THEN {"dev", "verify", "scan"} ELSE {"checks"}) =>
             boxes'[n] = boxes[n],
         \A n \in BoxNames :
           Has(boxes'[n]) => HeldBy(p, work'[a], n) \/ (Has(boxes[n]) /\ ~HeldBy(p, work[a], n)),
         Kept(p, a, work'[a], boxes')
  PROVE  BoxRunsOK(p)'
<1>1. work \in [BoxActors -> BoxRun] /\ recorded \subseteq Tasks
  BY DEF BoxTyped
<1>2. /\ work'[a] = work'[a] /\ \A b \in BoxActors : b # a => work'[b] = work[b]
  BY <1>1
<1>3. ASSUME NEW b \in BoxActors, b # a
      PROVE  BoxRunOK(p, b, work'[b], recorded) /\ Kept(p, b, work'[b], boxes')
  <2>1. BoxRunOK(p, b, work[b], recorded) /\ Kept(p, b, work[b], boxes) /\ work'[b] = work[b]
    BY <1>2, <1>3 DEF BoxRunsOK
  <2>2. ASSUME work[b].at \in Holding
        PROVE  boxes'[Held(p, work[b])] = boxes[Held(p, work[b])]
    <3>1. /\ work[b].at # "rest" /\ work[b].task \in Tasks
             /\ work[b].box \in Kinds(b) \X {work[b].task}
          /\ work[b].at = "installs" => b = "chain"
      BY <1>1, <2>1, <2>2 DEF BoxRunOK, Holding
    <3>2. Held(p, work[b]) \in BoxNames
      <4>1. PrintOf(p, work[b].task) \in Prints
        BY <3>1 DEF PrintOf, Prints
      <4> QED
        BY <3>1, <4>1 DEF Held, BoxNames, RunNames, Kinds
    <3>3. Held(p, work[b])[1] \notin (IF a = "chain" THEN {"dev", "verify", "scan"} ELSE {"checks"})
      BY <1>3, <3>1 DEF Held, Kinds, BoxActors
    <3> QED
      BY <3>2, <3>3
  <2> QED
    BY <2>1, <2>2 DEF Kept
<1>4. ASSUME sandboxCrashes = 0, NEW n \in BoxNames, Has(boxes'[n])
      PROVE  \E b \in BoxActors : HeldBy(p, work'[b], n)
  <2>1. CASE HeldBy(p, work'[a], n)
    BY <2>1
  <2>2. CASE Has(boxes[n]) /\ ~HeldBy(p, work[a], n)
    <3>1. PICK b \in BoxActors : HeldBy(p, work[b], n)
      BY <1>4, <2>2 DEF BoxRunsOK
    <3> QED
      BY <1>2, <2>2, <3>1
  <2> QED
    BY <1>4, <2>1, <2>2
<1>5. /\ recorded' = recorded /\ sandboxCrashes' = sandboxCrashes /\ sweep' = sweep
  OBVIOUS
<1>6. \A b \in BoxActors : BoxRunOK(p, b, work'[b], recorded) /\ Kept(p, b, work'[b], boxes')
  BY <1>3
<1> QED
  BY <1>4, <1>5, <1>6 DEF BoxRunsOK

\* The rest: what is typed, and whose files are where, step by step.
LEMMA BoxesStep ==
  ASSUME Boxes!ParametersAreSound, NEW p \in BoxParts, BoxInv(p), BoxesMove(p)
  PROVE  BoxInv(p)'
<1>1. /\ BoxTyped /\ BoxRunsOK(p) /\ OwnFiles
      /\ (p = "boxes by hand" => SharedFiles) /\ (p # "boxes by hand" => ApartFiles)
      /\ (p \in Alone => CommitFiles)
  BY DEF BoxInv
<1>2. \A a \in BoxActors : BoxRunOK(p, a, work[a], recorded) /\ Kept(p, a, work[a], boxes)
  BY <1>1 DEF BoxRunsOK
<1>3. /\ recorded \subseteq Tasks
      /\ sandboxTree \in [Tasks -> SUBSET BoxFiles] /\ meant \in [Tasks -> SUBSET BoxFiles]
      /\ snaps \in [Prints -> Content] /\ boxes \in [BoxNames -> Content]
      /\ work \in [BoxActors -> BoxRun]
  BY <1>1 DEF BoxTyped
<1>4. /\ "chain" \in BoxActors /\ "by hand" \in BoxActors /\ "all" \in Prints
         /\ Tasks \subseteq Prints
      /\ RunNames \subseteq BoxNames /\ \A f \in Prints : <<"scan", f>> \in BoxNames
      /\ \A f \in Prints : <<"scan", f>> \notin RunNames
      /\ "none" \notin BoxFiles /\ "all" \notin Tasks /\ "none" \notin Tasks
      /\ "base" \in BoxFiles /\ Tasks \subseteq BoxFiles
  <2>1. Tasks \intersect {"none", "base", "all"} = {}
    BY DEF Boxes!ParametersAreSound
  <2> QED
    BY <2>1 DEF BoxActors, Prints, BoxNames, RunNames, BoxFiles
<1>5. /\ AnyBoxes!NoFiles = {"none"} /\ AnyBoxes!Resting = AtRest /\ AnyBoxes!Chain = "chain"
      /\ AnyBoxes!Hand = "by hand" /\ AnyBoxes!Fingerprints = Prints /\ AnyBoxes!Base = "base"
      /\ AnyBoxes!Names = BoxNames
      /\ \A c : AnyBoxes!There(c) <=> Has(c)
      /\ \A a : AnyBoxes!Box(a) = work[a].box
  BY
     DEF AnyBoxes!NoFiles, AnyBoxes!Resting, AtRest, AnyBoxes!Chain, AnyBoxes!Hand,
         AnyBoxes!Names,
     AnyBoxes!Fingerprints, Prints, AnyBoxes!Base, AnyBoxes!There, Has, AnyBoxes!Box, BoxNames,
         RunNames
<1>6. /\ AtRest \in BoxRun /\ AtRest.at = "rest" /\ AtRest.snap = "none"
      /\ \A a : BoxRunOK(p, a, AtRest, recorded) /\ Kept(p, a, AtRest, boxes')
      /\ \A n : ~HeldBy(p, AtRest, n)
  BY DEF AtRest, BoxRun, BoxStages, BoxRunOK, Kept, HeldBy, Holding
\* What a run at work has.
<1>7. ASSUME NEW a \in BoxActors, work[a].at # "rest"
      PROVE  /\ work[a] \in BoxRun /\ work[a].task \in Tasks /\ work[a].task \in recorded
             /\ work[a].box \in Kinds(a) \X {work[a].task}
             /\ work[a].box \in RunNames /\ work[a].box \in BoxNames
                /\ work[a].box[2] = work[a].task
             /\ PrintOf(p, work[a].task) \in Prints /\ Scanned(p, a) \in BoxNames
             /\ work[a].snap \in {"none", PrintOf(p, work[a].task)}
             /\ work[a].box[1] \notin (IF a = "chain" THEN {"checks"} ELSE {"dev", "verify",
                "scan"})
             /\ work[a].box[1] # "scan"
  <2>1. /\ work[a] \in BoxRun /\ work[a].task \in Tasks /\ work[a].task \in recorded
        /\ work[a].box \in Kinds(a) \X {work[a].task}
           /\ work[a].snap \in {"none", PrintOf(p, work[a].task)}
    BY <1>2, <1>3, <1>7 DEF BoxRunOK
  <2>2. Kinds(a) \subseteq {"dev", "verify", "checks"}
        /\ Kinds(a) \intersect (IF a = "chain" THEN {"checks"} ELSE {"dev", "verify", "scan"}) = {}
    BY DEF Kinds
  <2>3. PrintOf(p, work[a].task) \in Prints
    BY <2>1 DEF PrintOf, Prints
  <2> QED
    BY <1>4, <2>1, <2>2, <2>3 DEF RunNames, Scanned
\* Files that are somebody's are no empty place.
<1>8. \A c : c \subseteq BoxFiles => Has(c) /\ c \in Content
  BY <1>4, Contents DEF Has
<1>9. \A c \in Content : Has(c) => c \subseteq BoxFiles
  BY Contents DEF Has
\* A step that goes on to a goal that holds nothing, or what the run held.
<1>10. ASSUME NEW a \in BoxActors, NEW goal \in BoxStages, work[a].at # "rest", goal # "rest",
              work' = [work EXCEPT ![a].at = goal]
       PROVE  Goes(a, goal, work[a].snap)
  BY <1>3, <1>10 DEF Goes, BoxRun
<1>11. ASSUME NEW a \in BoxActors, NEW goal \in BoxStages, work[a].at # "rest",
              goal \notin {"rest", "resolves", "builds", "installs", "purges"},
              NEW snap, Goes(a, goal, snap),
              snap \in {"none", PrintOf(p, work[a].task)}, p = "boxes cold" => snap = "none"
       PROVE  BoxRunOK(p, a, work'[a], recorded)
  BY <1>7, <1>11 DEF Goes, BoxRunOK
<1>12. ASSUME NEW a \in BoxActors, work' = [work EXCEPT ![a] = work'[a]]
       PROVE  \A b \in BoxActors : b # a => work'[b] = work[b]
  BY <1>3, <1>12
<1>13. ASSUME NEW a \in BoxActors, work' = [work EXCEPT ![a] = AtRest]
       PROVE  /\ work' = [work EXCEPT ![a] = work'[a]] /\ work'[a] = AtRest
              /\ work' \in [BoxActors -> BoxRun]
              /\ \A b \in BoxActors : work'[b] = work[b] \/ work'[b] = AtRest
  BY <1>3, <1>6, <1>13

\* A task.
<1>20. ASSUME NEW t \in Tasks, AnyBoxes!Creates(t) PROVE BoxInv(p)'
  <2>1. recorded' = recorded \union {t}
        /\ UNCHANGED <<sandboxTree, meant, sandboxTurns, snaps, boxes, work, sweep,
           sandboxCrashes, tested>>
    BY <1>20 DEF AnyBoxes!Creates
  <2>2. BoxTyped'
    BY <1>1, <2>1 DEF BoxTyped
  <2>3. \A a \in BoxActors : BoxRunOK(p, a, work[a], recorded')
    BY <1>2, <2>1 DEF BoxRunOK
  <2>4. BoxRunsOK(p)'
    BY <1>1, <2>1, <2>3 DEF BoxRunsOK
  <2> QED
    BY <1>1, <2>1, <2>2, <2>4 DEF BoxInv, OwnFiles, SharedFiles, ApartFiles, CommitFiles
\* A run begins.
<1>21. ASSUME NEW a \in BoxActors, NEW k \in Kinds(a), NEW t \in recorded, work[a] = AtRest,
              work' = [work EXCEPT ![a] = [AtRest EXCEPT !.at = "resolves", !.task = t,
                  !.box = <<k, t>>]],
              sandboxTurns' \in [Tasks -> 0 .. BoxTurns],
              UNCHANGED <<recorded, sandboxTree, meant, snaps, boxes, sweep, sandboxCrashes, tested>>,
              p \in Alone => a = "chain"
       PROVE  BoxInv(p)'
  <2>1. /\ work'[a] = [at |-> "resolves", task |-> t, snap |-> "none", box |-> <<k, t>>,
           ok |-> TRUE]
        /\ work' = [work EXCEPT ![a] = work'[a]]
    BY <1>3, <1>21 DEF AtRest
  <2>2. t \in Tasks /\ <<k, t>> \in BoxNames
    BY <1>3, <1>21 DEF Kinds, BoxNames, RunNames
  <2>3. work'[a] \in BoxRun
    BY <2>1, <2>2 DEF BoxRun, BoxStages
  <2>10. /\ work'[a].at = "resolves" /\ work'[a].task = t /\ work'[a].snap = "none"
         /\ work'[a].box = <<k, t>>
    BY <2>1
  <2>4. BoxRunOK(p, a, work'[a], recorded)
    <3>1. work'[a].box \in Kinds(a) \X {work'[a].task}
      BY <1>21, <2>10
    <3> QED
      BY <1>21, <2>10, <2>3, <3>1 DEF BoxRunOK
  <2>5. BoxTyped'
    BY <1>1, <1>21, <2>1, <2>3 DEF BoxTyped
  <2>6. /\ \A n : ~HeldBy(p, work[a], n) /\ ~HeldBy(p, work'[a], n)
        /\ Kept(p, a, work'[a], boxes')
    BY <1>6, <1>21, <2>10 DEF HeldBy, Kept, Holding
  <2>7. BoxRunsOK(p)'
    <3>1. UNCHANGED <<recorded, boxes, sweep, sandboxCrashes>> /\ boxes' = boxes
      BY <1>21
    <3>2. work' = [work EXCEPT ![a] = work'[a]]
      BY <2>1
    <3> QED
      BY ONLY <1>1, <3>1, <3>2, <2>4, <2>6, RunsStayTheirs, p \in BoxParts, a \in BoxActors
  <2>11. \A b \in BoxActors : b # a => work'[b] = work[b]
    BY <1>12, <2>1
  <2>8. p = "boxes by hand" => SharedFiles'
    <3>1. ASSUME SharedFiles PROVE SharedFiles'
      <4>1. /\ work'["chain"].at \in {"rest", "resolves", "builds", "installs"} <=>
                 work["chain"].at \in {"rest", "resolves", "builds", "installs"}
            /\ work'["chain"].at \in {"builds", "installs"} => work["chain"].at \in {"builds",
               "installs"}
        BY <1>4, <1>6, <1>21, <2>10, <2>11
      <4>2. \A b \in BoxActors : work'[b].snap # "none" => work[b].snap # "none"
        BY <1>6, <1>21, <2>10, <2>11
      <4> QED
        BY <3>1, <4>1, <4>2, <1>21 DEF SharedFiles
    <3> QED
      BY <1>1, <3>1
  <2>9. p \in Alone => CommitFiles'
    <3>1. ASSUME p \in Alone PROVE CommitFiles'
      <4>1. work'["by hand"] = work["by hand"] /\ CommitFiles /\ a = "chain"
        BY <1>1, <1>4, <1>21, <2>11, <3>1
      <4> QED
        BY <1>21, <2>10, <4>1 DEF CommitFiles
    <3> QED
      BY <3>1
  <2> QED
    BY <1>1, <1>21, <2>5, <2>7, <2>8, <2>9 DEF BoxInv, OwnFiles, ApartFiles
<1>22. ASSUME NEW t \in Tasks,
              AnyBoxes!Turns(t) \/ AnyBoxes!Verifies(t) \/ (p \notin Alone
                  /\ AnyBoxes!AsksForChecks(t))
       PROVE  BoxInv(p)'
  <2>1. sandboxTurns \in [Tasks -> 0 .. BoxTurns] /\ BoxTurns \in Nat
    <3>1. {BoxCrashes, BoxTurns} \subseteq Nat
      BY DEF Boxes!ParametersAreSound
    <3> QED
      BY <1>1, <3>1 DEF BoxTyped
  <2>2. CASE AnyBoxes!Turns(t)
    <3>1. sandboxTurns' \in [Tasks -> 0 .. BoxTurns]
      BY <2>1, <2>2 DEF AnyBoxes!Turns
    <3>2. "dev" \in Kinds("chain")
      BY DEF Kinds
    <3> QED
      BY <1>4, <1>5, <1>21, <2>2, <3>1, <3>2 DEF AnyBoxes!Turns, AnyBoxes!Starts
  <2>3. CASE AnyBoxes!Verifies(t)
    <3>1. "verify" \in Kinds("chain")
      BY DEF Kinds
    <3> QED
      BY <1>4, <1>5, <1>21, <2>1, <2>3, <3>1 DEF AnyBoxes!Verifies, AnyBoxes!Starts, AnyBoxes!disk
  <2>4. CASE p \notin Alone /\ AnyBoxes!AsksForChecks(t)
    <3>1. "checks" \in Kinds("by hand")
      BY DEF Kinds
    <3> QED
      BY <1>4, <1>5, <1>21, <2>1, <2>4, <3>1
         DEF AnyBoxes!AsksForChecks, AnyBoxes!Starts, AnyBoxes!disk
  <2> QED
    BY <1>22, <2>2, <2>3, <2>4
\* The snapshot it starts from, and the build of one.
<1>23. ASSUME NEW a \in BoxActors, Resolved(p, a) PROVE BoxInv(p)'
  <2>0. work[a].at # "rest" /\ work[a].snap = "none"
        /\ UNCHANGED <<recorded, sandboxTree, meant, sandboxTurns, snaps, boxes, sweep,
           sandboxCrashes, tested>>
    BY <1>2, <1>23 DEF Resolved, BoxDisk, BoxRunOK
  <2>1. \/ /\ p = "boxes cold" \/ a = "by hand"
           /\ Goes(a, "boots", "none")
        \/ /\ p # "boxes cold" /\ Has(snaps[PrintOf(p, work[a].task)])
           /\ Goes(a, "boots", PrintOf(p, work[a].task))
        \/ /\ p # "boxes cold" /\ ~Has(snaps[PrintOf(p, work[a].task)]) /\ a = "chain"
           /\ Goes(a, "builds", "none")
    <3>1. CASE work' = [work EXCEPT ![a].at = "boots"] /\ (p = "boxes cold" \/ a = "by hand")
      BY <1>10, <2>0, <3>1 DEF BoxStages
    <3>2. CASE /\ p # "boxes cold" /\ Has(snaps[PrintOf(p, work[a].task)])
               /\ work' = [work EXCEPT ![a].at = "boots", ![a].snap = PrintOf(p, work[a].task)]
      <4>1. PrintOf(p, work[a].task) \in Prints
        BY <1>7, <2>0
      <4>2. Goes(a, "boots", PrintOf(p, work[a].task))
        BY <1>3, <3>2, <4>1 DEF Goes, BoxRun, BoxStages
      <4> QED
        BY <3>2, <4>2
    <3>3. CASE /\ p # "boxes cold" /\ ~Has(snaps[PrintOf(p, work[a].task)]) /\ a = "chain"
               /\ work' = [work EXCEPT ![a].at = "builds"]
      BY <1>10, <2>0, <3>3 DEF BoxStages
    <3> QED
      BY <1>23, <3>1, <3>2, <3>3 DEF Resolved
  <2>2. work' = [work EXCEPT ![a] = work'[a]] /\ work'[a] \in BoxRun
        /\ work'[a].at \in {"boots", "builds"}
    BY <2>1 DEF Goes
  <2>3. BoxRunOK(p, a, work'[a], recorded)
    <3>1. CASE work'[a].at = "builds"
      BY <1>7, <2>0, <2>1, <3>1 DEF Goes, BoxRunOK
    <3>2. CASE work'[a].at = "boots"
      BY <1>11, <2>0, <2>1, <3>2 DEF Goes, BoxStages
    <3> QED
      BY <2>2, <3>1, <3>2
  <2>4. BoxTyped'
    BY <1>1, <2>0, <2>2, <1>3 DEF BoxTyped
  <2>5. /\ \A n : ~HeldBy(p, work[a], n) /\ ~HeldBy(p, work'[a], n)
        /\ Kept(p, a, work'[a], boxes')
    BY <1>23, <2>2 DEF HeldBy, Kept, Holding, Resolved
  <2>6. BoxRunsOK(p)'
    BY ONLY <1>1, <2>0, <2>2, <2>3, <2>5, RunsStayTheirs, p \in BoxParts, a \in BoxActors
  <2>7. \A b \in BoxActors : b # a => work'[b] = work[b]
    BY <1>12, <2>2
  <2>8. p = "boxes by hand" => SharedFiles'
    <3>1. ASSUME p = "boxes by hand", SharedFiles PROVE SharedFiles'
      <4>1. PrintOf(p, work[a].task) = "all"
        BY <3>1 DEF PrintOf
      <4>2. /\ Has(snaps["all"]) \/ work'["chain"].at \in {"rest", "resolves", "builds", "installs"}
            /\ work'["chain"].at \in {"builds", "installs"} => ~Has(snaps["all"])
        BY <1>4, <2>1, <2>7, <3>1, <4>1 DEF Goes, SharedFiles, BoxActors
      <4>3. \A b \in BoxActors : work'[b].snap # "none" => Has(snaps["all"])
        BY <2>1, <2>7, <3>1, <4>1 DEF Goes, SharedFiles
      <4> QED
        BY <3>1, <2>0, <4>2, <4>3 DEF SharedFiles
    <3> QED
      BY <1>1, <3>1
  <2>9. p \in Alone => CommitFiles'
    <3>1. ASSUME p \in Alone PROVE CommitFiles'
      <4>1. work["by hand"] = AtRest /\ CommitFiles /\ a = "chain" /\ p # "boxes by hand"
        BY <1>1, <1>6, <2>0, <3>1 DEF CommitFiles, BoxActors, Alone
      <4>2. work'["by hand"] = work["by hand"]
        BY <1>4, <2>7, <4>1
      <4>3. PrintOf(p, work[a].task) = work[a].task
        BY <4>1 DEF PrintOf
      <4>4. work'[a].snap # "none" => Has(snaps[work'[a].snap])
        BY <2>1 DEF Goes
      <4> QED
        BY <2>0, <2>2, <4>1, <4>2, <4>4 DEF CommitFiles
    <3> QED
      BY <3>1
  <2> QED
    BY <1>1, <2>0, <2>4, <2>6, <2>8, <2>9 DEF BoxInv, OwnFiles, ApartFiles
<1>24. ASSUME NEW a \in BoxActors, Built(p, a) PROVE BoxInv(p)'
  <2>0. /\ work[a].at = "builds" /\ a = "chain" /\ p # "boxes cold" /\ work[a].snap = "none"
        /\ UNCHANGED <<recorded, sandboxTree, meant, sandboxTurns, snaps, sweep, sandboxCrashes,
           tested>>
        /\ boxes' = [boxes EXCEPT ![Scanned(p, a)] = sandboxTree[work[a].task]]
    BY <1>2, <1>24 DEF Built, BoxDisk, BoxRunOK
  <2>1. Goes(a, "installs", "none")
    BY <1>10, <1>24, <2>0 DEF BoxStages, Built
  <2>2. /\ work' = [work EXCEPT ![a] = work'[a]] /\ work'[a] \in BoxRun /\ work'[a].at = "installs"
        /\ Held(p, work'[a]) = Scanned(p, a)
    BY <2>1 DEF Goes, Held, Scanned
  <2>3. BoxRunOK(p, a, work'[a], recorded)
    BY <1>7, <2>0, <2>1 DEF Goes, BoxRunOK
  <2>4. /\ sandboxTree[work[a].task] \subseteq BoxFiles /\ Scanned(p, a) \in BoxNames
        /\ Scanned(p, a) = <<"scan", PrintOf(p, work[a].task)>> /\ PrintOf(p, work[a].task) \in Prints
    BY <1>3, <1>7, <2>0 DEF Scanned
  <2>5. /\ boxes' \in [BoxNames -> Content] /\ Has(boxes'[Scanned(p, a)])
        /\ \A n \in BoxNames : n # Scanned(p, a) => boxes'[n] = boxes[n]
        /\ boxes'[Scanned(p, a)] = sandboxTree[work[a].task]
    BY <1>3, <1>8, <2>0, <2>4
  <2>6. BoxTyped'
    BY <1>1, <1>3, <2>0, <2>2, <2>5 DEF BoxTyped
  <2>7. /\ \A n : ~HeldBy(p, work[a], n) /\ (HeldBy(p, work'[a], n) <=> n = Scanned(p, a))
        /\ Kept(p, a, work'[a], boxes')
    BY <2>0, <2>2, <2>5 DEF HeldBy, Kept, Holding
  <2>8. /\ \A n \in BoxNames : n[1] # "scan" => boxes'[n] = boxes[n]
        /\ \A n \in BoxNames :
             Has(boxes'[n]) => HeldBy(p, work'[a], n) \/ (Has(boxes[n]) /\ ~HeldBy(p, work[a], n))
    BY <2>4, <2>5, <2>7
  <2>9. BoxRunsOK(p)'
    BY <1>1, <2>0, <2>2, <2>3, <2>7, <2>8, RunsStayTheirs
  <2>10. \A b \in BoxActors : b # a => work'[b] = work[b]
    BY <1>12, <2>2
  <2>15. \A n \in RunNames : boxes'[n] = boxes[n]
    <3>1. \A n \in RunNames : n \in BoxNames /\ n # Scanned(p, a)
      BY <1>4, <2>4
    <3> QED
      BY <2>5, <3>1
  <2>11. OwnFiles'
    BY <1>1, <2>0, <2>15 DEF OwnFiles
  <2>12. p = "boxes by hand" => SharedFiles'
    <3>1. ASSUME p = "boxes by hand", SharedFiles PROVE SharedFiles'
      <4>1. Scanned(p, a) = <<"scan", "all">>
        BY <2>4, <3>1 DEF PrintOf
      <4>2. ~Has(snaps["all"]) /\ sandboxTree[work[a].task] \subseteq {"base"}
        BY <1>7, <2>0, <3>1 DEF SharedFiles
      <4>3. \A n \in RunNames : boxes'[n] = boxes[n]
        BY <2>15
      <4>4. \A b \in BoxActors : work'[b].snap = work[b].snap
        BY <2>0, <2>1, <2>10 DEF Goes
      <4>5. work'["chain"].at = "installs"
        BY <2>0, <2>2
      <4> QED
        BY <3>1, <2>0, <2>5, <4>1, <4>2, <4>3, <4>4, <4>5 DEF SharedFiles
    <3> QED
      BY <1>1, <3>1
  <2>13. p # "boxes by hand" => ApartFiles'
    <3>1. ASSUME p # "boxes by hand", ApartFiles PROVE ApartFiles'
      <4>1. Scanned(p, a) = <<"scan", work[a].task>>
        BY <2>4, <3>1 DEF PrintOf
      <4>2. ASSUME NEW t \in Tasks, t # work[a].task
            PROVE boxes'[<<"scan", t>>] = boxes[<<"scan", t>>]
        <5>1. <<"scan", t>> \in BoxNames
          BY <1>4
        <5>2. <<"scan", t>> # <<"scan", work[a].task>>
          BY <4>2
        <5> QED
          BY <2>5, <4>1, <5>1, <5>2
      <4> QED
        BY <3>1, <2>0, <2>5, <4>1, <4>2 DEF ApartFiles
    <3> QED
      BY <1>1, <3>1
  <2>14. p \in Alone => CommitFiles'
    <3>1. ASSUME p \in Alone, CommitFiles PROVE CommitFiles'
      <4>1. work'["by hand"] = work["by hand"]
        BY <1>4, <2>0, <2>10
      <4> QED
        BY <2>0, <2>1, <3>1, <4>1 DEF CommitFiles, Goes
    <3> QED
      BY <1>1, <3>1
  <2> QED
    BY <2>6, <2>9, <2>11, <2>12, <2>13, <2>14 DEF BoxInv
<1>25. ASSUME NEW a \in BoxActors, Snapshot(p, a) PROVE BoxInv(p)'
  <2>0. /\ work[a].at = "installs" /\ a = "chain" /\ p # "boxes cold" /\ work[a].snap = "none"
        /\ UNCHANGED <<recorded, sandboxTree, meant, sandboxTurns, sweep, sandboxCrashes, tested>>
        /\ boxes' = [boxes EXCEPT ![Scanned(p, a)] = {"none"}] /\ Has(boxes[Scanned(p, a)])
        /\ snaps' = [snaps EXCEPT ![PrintOf(p, work[a].task)] = boxes[Scanned(p, a)]]
    BY <1>2, <1>25 DEF Snapshot, BoxDisk, BoxRunOK
  <2>4. /\ Scanned(p, a) \in BoxNames /\ Held(p, work[a]) = Scanned(p, a)
        /\ Scanned(p, a) = <<"scan", PrintOf(p, work[a].task)>> /\ PrintOf(p, work[a].task) \in Prints
    BY <1>7, <2>0 DEF Scanned, Held
  <2>1. Goes(a, "purges", PrintOf(p, work[a].task))
    BY <1>3, <1>25, <2>4 DEF Goes, BoxRun, BoxStages, Snapshot
  <2>2. work' = [work EXCEPT ![a] = work'[a]] /\ work'[a] \in BoxRun /\ work'[a].at = "purges"
    BY <2>1 DEF Goes
  <2>3. BoxRunOK(p, a, work'[a], recorded)
    BY <1>7, <2>0, <2>1 DEF Goes, BoxRunOK
  <2>5. /\ boxes' \in [BoxNames -> Content] /\ ~Has(boxes'[Scanned(p, a)])
        /\ \A n \in BoxNames : n # Scanned(p, a) => boxes'[n] = boxes[n]
    BY <1>3, <2>0, <2>4, Contents DEF Has
  <2>16. /\ snaps' \in [Prints -> Content] /\ Has(snaps'[PrintOf(p, work[a].task)])
         /\ snaps'[PrintOf(p, work[a].task)] = boxes[Scanned(p, a)]
         /\ \A f \in Prints : f # PrintOf(p, work[a].task) => snaps'[f] = snaps[f]
    BY <1>3, <2>0, <2>4
  <2>6. BoxTyped'
    BY <1>1, <1>3, <2>0, <2>2, <2>5, <2>16 DEF BoxTyped
  <2>7. /\ \A n : ~HeldBy(p, work'[a], n) /\ (HeldBy(p, work[a], n) <=> n = Scanned(p, a))
        /\ Kept(p, a, work'[a], boxes')
    BY <2>0, <2>2, <2>4 DEF HeldBy, Kept, Holding
  <2>8. /\ \A n \in BoxNames : n[1] # "scan" => boxes'[n] = boxes[n]
        /\ \A n \in BoxNames :
             Has(boxes'[n]) => HeldBy(p, work'[a], n) \/ (Has(boxes[n]) /\ ~HeldBy(p, work[a], n))
    BY <2>4, <2>5, <2>7
  <2>9. BoxRunsOK(p)'
    BY <1>1, <2>0, <2>2, <2>3, <2>7, <2>8, RunsStayTheirs
  <2>10. \A b \in BoxActors : b # a => work'[b] = work[b]
    BY <1>12, <2>2
  <2>15. \A n \in RunNames : boxes'[n] = boxes[n]
    <3>1. \A n \in RunNames : n \in BoxNames /\ n # Scanned(p, a)
      BY <1>4, <2>4
    <3> QED
      BY <2>5, <3>1
  <2>11. OwnFiles'
    BY <1>1, <2>0, <2>15 DEF OwnFiles
  <2>12. p = "boxes by hand" => SharedFiles'
    <3>1. ASSUME p = "boxes by hand", SharedFiles PROVE SharedFiles'
      <4>1. Scanned(p, a) = <<"scan", "all">> /\ PrintOf(p, work[a].task) = "all"
        BY <2>4, <3>1 DEF PrintOf
      <4>2. Has(snaps'["all"]) /\ snaps'["all"] \subseteq {"base"}
            /\ ~Has(boxes'[<<"scan", "all">>])
        BY <2>0, <2>5, <2>16, <3>1, <4>1 DEF SharedFiles
      <4>3. work'["chain"].at = "purges"
        BY <2>0, <2>2
      <4> QED
        BY <4>2, <4>3 DEF SharedFiles
    <3> QED
      BY <1>1, <3>1
  <2>13. p # "boxes by hand" => ApartFiles'
    <3>1. ASSUME p # "boxes by hand", ApartFiles PROVE ApartFiles'
      <4>1. Scanned(p, a) = <<"scan", work[a].task>> /\ PrintOf(p, work[a].task) = work[a].task
        BY <2>4, <3>1 DEF PrintOf
      <4>2. ASSUME NEW t \in Tasks, t # work[a].task
            PROVE  boxes'[<<"scan", t>>] = boxes[<<"scan", t>>] /\ snaps'[t] = snaps[t]
        <5>1. <<"scan", t>> \in BoxNames /\ t \in Prints
          BY <1>4
        <5>2. <<"scan", t>> # <<"scan", work[a].task>>
          BY <4>2
        <5> QED
          BY <2>5, <2>16, <4>1, <4>2, <5>1, <5>2
      <4>3. /\ ~Has(boxes'[<<"scan", work[a].task>>])
               /\ snaps'[work[a].task] = boxes[<<"scan", work[a].task>>]
            /\ work[a].task \in Tasks
        BY <1>7, <2>0, <2>5, <2>16, <4>1
      <4> QED
        BY <3>1, <2>0, <4>1, <4>2, <4>3 DEF ApartFiles
    <3> QED
      BY <1>1, <3>1
  <2>14. p \in Alone => CommitFiles'
    <3>1. ASSUME p \in Alone, CommitFiles PROVE CommitFiles'
      <4>1. work'["by hand"] = work["by hand"]
        BY <1>4, <2>0, <2>10
      <4> QED
        BY <2>0, <2>1, <2>16, <3>1, <4>1 DEF CommitFiles, Goes
    <3> QED
      BY <1>1, <3>1
  <2> QED
    BY <2>6, <2>9, <2>11, <2>12, <2>13, <2>14 DEF BoxInv
\* A run that is over takes the box it holds with it.
<1>26. ASSUME NEW a \in BoxActors, work[a].at \in Holding, work' = [work EXCEPT ![a] = AtRest],
              boxes' = [boxes EXCEPT ![Held(p, work[a])] = {"none"}],
              UNCHANGED <<recorded, sandboxTree, meant, sandboxTurns, snaps, sweep, sandboxCrashes, tested>>
       PROVE  BoxInv(p)'
  <2>1. /\ work' = [work EXCEPT ![a] = work'[a]] /\ work'[a] = AtRest
        /\ work' \in [BoxActors -> BoxRun] /\ work[a].at # "rest"
        /\ \A b \in BoxActors : work'[b] = work[b] \/ work'[b] = AtRest
    BY <1>13, <1>26 DEF Holding
  <2>2. /\ Held(p, work[a]) \in BoxNames
        /\ Held(p, work[a])[1] \notin (IF a = "chain" THEN {"checks"} ELSE {"dev", "verify",
           "scan"})
    <3>1. work[a].at = "installs" => a = "chain"
      BY <1>2 DEF BoxRunOK
    <3> QED
      BY <1>7, <2>1, <3>1 DEF Held, Scanned
  <2>3. /\ boxes' \in [BoxNames -> Content] /\ ~Has(boxes'[Held(p, work[a])])
        /\ \A n \in BoxNames : n # Held(p, work[a]) => boxes'[n] = boxes[n]
    BY <1>3, <1>26, <2>2, Contents DEF Has
  <2>4. BoxTyped'
    BY <1>1, <1>26, <2>1, <2>3 DEF BoxTyped
  <2>5. BoxRunsOK(p)'
    <3>1. \A n \in BoxNames :
            Has(boxes'[n]) => HeldBy(p, work'[a], n) \/ (Has(boxes[n]) /\ ~HeldBy(p, work[a], n))
      BY <2>3 DEF HeldBy
    <3>2. \A n \in BoxNames :
            n[1] \notin (IF a = "chain" THEN {"dev", "verify", "scan"} ELSE {"checks"}) =>
              boxes'[n] = boxes[n]
      <4>1. \A n \in BoxNames : n[1] \in {"dev", "verify", "checks", "scan"}
        BY DEF BoxNames, RunNames
      <4> QED
        BY <2>2, <2>3, <4>1
    <3> QED
      BY <1>1, <1>6, <1>26, <2>1, <3>1, <3>2, RunsStayTheirs
  <2>6. \A n \in BoxNames : Has(boxes'[n]) => boxes'[n] = boxes[n]
    BY <2>3
  <2>7. OwnFiles' /\ (ApartFiles => ApartFiles')
    BY <1>1, <1>4, <1>26, <2>6 DEF OwnFiles, ApartFiles
  <2>8. SharedFiles => SharedFiles'
    <3>1. ASSUME SharedFiles PROVE SharedFiles'
      <4>1. /\ work'["chain"].at = work["chain"].at \/ work'["chain"].at = "rest"
            /\ \A b \in BoxActors : work'[b].snap # "none" => work[b].snap # "none"
        BY <1>4, <1>6, <2>1
      <4> QED
        BY <1>4, <1>26, <2>6, <3>1, <4>1 DEF SharedFiles
    <3> QED
      BY <3>1
  <2>9. p \in Alone => CommitFiles'
    <3>1. ASSUME p \in Alone, CommitFiles PROVE CommitFiles'
      <4>1. a = "chain"
        BY <1>6, <2>1, <3>1 DEF CommitFiles, BoxActors
      <4>2. work'["by hand"] = AtRest /\ work'["chain"] = AtRest
        BY <1>4, <2>1, <3>1, <4>1 DEF CommitFiles
      <4> QED
        BY <1>6, <1>26, <3>1, <4>2 DEF CommitFiles
    <3> QED
      BY <1>1, <3>1
  <2> QED
    BY <1>1, <2>4, <2>5, <2>7, <2>8, <2>9 DEF BoxInv
<1>27. ASSUME NEW a \in BoxActors, BuildFailed(p, a) \/ AnyBoxes!Finishes(a) PROVE BoxInv(p)'
  <2>1. CASE BuildFailed(p, a)
    <3>1. Held(p, work[a]) = Scanned(p, a)
      BY <2>1 DEF BuildFailed, Held, Scanned
    <3> QED
      BY <1>26, <2>1, <3>1 DEF BuildFailed, BoxDisk, Holding
  <2>2. CASE AnyBoxes!Finishes(a)
    <3>1. Held(p, work[a]) = work[a].box
      BY <2>2 DEF AnyBoxes!Finishes, Held
    <3> QED
      BY <1>5, <1>26, <2>2, <3>1 DEF AnyBoxes!Finishes, AnyBoxes!Rests, AnyBoxes!disk, Holding
  <2> QED
    BY <1>27, <2>1, <2>2
\* One that cannot go on leaves what there is.
<1>28. ASSUME NEW a \in BoxActors, work' = [work EXCEPT ![a] = AtRest], work[a].at # "rest",
              work[a].at \in Holding => ~Has(boxes[Held(p, work[a])]),
              UNCHANGED <<recorded, sandboxTree, meant, sandboxTurns, snaps, boxes, sweep, sandboxCrashes, tested>>
       PROVE  BoxInv(p)'
  <2>1. /\ work' = [work EXCEPT ![a] = work'[a]] /\ work'[a] = AtRest
        /\ work' \in [BoxActors -> BoxRun]
        /\ \A b \in BoxActors : work'[b] = work[b] \/ work'[b] = AtRest
    BY <1>13, <1>28
  <2>2. BoxTyped'
    BY <1>1, <1>28, <2>1 DEF BoxTyped
  <2>3. BoxRunsOK(p)'
    <3>1. \A n \in BoxNames : Has(boxes'[n]) => Has(boxes[n]) /\ ~HeldBy(p, work[a], n)
      BY <1>28 DEF HeldBy
    <3> QED
      BY <1>1, <1>6, <1>28, <2>1, <3>1, RunsStayTheirs
  <2>4. SharedFiles => SharedFiles'
    <3>1. /\ work'["chain"].at = work["chain"].at \/ work'["chain"].at = "rest"
          /\ \A b \in BoxActors : work'[b].snap # "none" => work[b].snap # "none"
      BY <1>4, <1>6, <2>1
    <3> QED
      BY <1>28, <3>1 DEF SharedFiles
  <2>5. p \in Alone => CommitFiles'
    <3>1. ASSUME p \in Alone, CommitFiles PROVE CommitFiles'
      <4>1. a = "chain"
        BY <1>6, <1>28, <3>1 DEF CommitFiles, BoxActors
      <4>2. work'["by hand"] = AtRest /\ work'["chain"] = AtRest
        BY <1>4, <2>1, <3>1, <4>1 DEF CommitFiles
      <4> QED
        BY <1>6, <1>28, <3>1, <4>2 DEF CommitFiles
    <3> QED
      BY <1>1, <3>1
  <2> QED
    BY <1>1, <1>28, <2>2, <2>3, <2>4, <2>5 DEF BoxInv, OwnFiles, ApartFiles
<1>29. ASSUME NEW a \in BoxActors, Gone(p, a) \/ AnyBoxes!CannotBoot(a) PROVE BoxInv(p)'
  BY <1>5, <1>28, <1>29
     DEF Gone, AnyBoxes!CannotBoot, AnyBoxes!Rests, AnyBoxes!disk, BoxDisk, Holding
\* The purge keeps the snapshot of the run.
<1>30. ASSUME NEW a \in BoxActors, AnyBoxes!Purges(a) PROVE BoxInv(p)'
  <2>0. /\ work[a].at = "purges" /\ work[a].at # "rest" /\ a = "chain"
        /\ work[a].snap = PrintOf(p, work[a].task) /\ work[a].snap \in Prints
        /\ UNCHANGED <<recorded, sandboxTree, meant, sandboxTurns, boxes, sweep, sandboxCrashes,
           tested>>
        /\ snaps' = [f \in Prints |-> IF f = work[a].snap THEN snaps[f] ELSE {"none"}]
        /\ work' = [work EXCEPT ![a].at = "boots"]
    <3>1. /\ work[a].at = "purges" /\ work' = [work EXCEPT ![a].at = "boots"]
          /\ UNCHANGED <<recorded, sandboxTree, meant, sandboxTurns, boxes, sweep,
             sandboxCrashes, tested>>
      BY <1>30 DEF AnyBoxes!Purges, AnyBoxes!Becomes, AnyBoxes!disk
    <3>2. snaps' = [f \in Prints |-> IF f = work[a].snap THEN snaps[f] ELSE {"none"}]
      BY <1>5, <1>30 DEF AnyBoxes!Purges, AnyBoxes!Kept
    <3>3. a = "chain" /\ work[a].snap = PrintOf(p, work[a].task)
      BY <1>2, <3>1 DEF BoxRunOK
    <3>4. work[a].snap \in Prints /\ work[a].at # "rest"
      BY <1>7, <3>1, <3>3
    <3> QED
      BY <3>1, <3>2, <3>3, <3>4
  <2>1. Goes(a, "boots", work[a].snap)
    BY <1>10, <2>0 DEF BoxStages
  <2>2. work' = [work EXCEPT ![a] = work'[a]] /\ work'[a] \in BoxRun /\ work'[a].at = "boots"
    BY <2>1 DEF Goes
  <2>3. BoxRunOK(p, a, work'[a], recorded)
    BY <1>2, <1>11, <2>0, <2>1 DEF BoxStages, BoxRunOK
  <2>4. /\ snaps' \in [Prints -> Content] /\ snaps'[work[a].snap] = snaps[work[a].snap]
        /\ \A f \in Prints : Has(snaps'[f]) => snaps'[f] = snaps[f]
    BY <1>3, <2>0, Contents DEF Has
  <2>5. BoxTyped'
    BY <1>1, <1>3, <2>0, <2>2, <2>4 DEF BoxTyped
  <2>6. /\ \A n : ~HeldBy(p, work'[a], n) /\ ~HeldBy(p, work[a], n)
        /\ Kept(p, a, work'[a], boxes')
    BY <2>0, <2>2 DEF HeldBy, Kept, Holding
  <2>7. BoxRunsOK(p)'
    BY <1>1, <2>0, <2>2, <2>3, <2>6, RunsStayTheirs
  <2>8. \A b \in BoxActors : b # a => work'[b] = work[b]
    BY <1>12, <2>2
  <2>9. p = "boxes by hand" => SharedFiles'
    <3>1. ASSUME p = "boxes by hand", SharedFiles PROVE SharedFiles'
      <4>1. work[a].snap = "all" /\ work[a].snap # "none"
        BY <2>0, <3>1 DEF PrintOf
      <4>2. Has(snaps["all"]) /\ snaps'["all"] = snaps["all"]
        BY <2>4, <3>1, <4>1 DEF SharedFiles
      <4> QED
        BY <1>4, <2>0, <2>2, <3>1, <4>2 DEF SharedFiles
    <3> QED
      BY <1>1, <3>1
  <2>10. ApartFiles => ApartFiles'
    BY <1>4, <2>0, <2>4 DEF ApartFiles
  <2>11. p \in Alone => CommitFiles'
    <3>1. ASSUME p \in Alone, CommitFiles PROVE CommitFiles'
      <4>1. work'["by hand"] = work["by hand"]
        BY <1>4, <2>0, <2>8
      <4> QED
        BY <2>0, <2>1, <2>4, <3>1, <4>1 DEF CommitFiles, Goes
    <3> QED
      BY <1>1, <3>1
  <2> QED
    BY <1>1, <2>0, <2>5, <2>7, <2>9, <2>10, <2>11 DEF BoxInv, OwnFiles
\* A step in the box that makes it hold c.
<1>31. ASSUME NEW a \in BoxActors, work[a].at \in {"boots", "copies in", "works"},
              NEW goal \in {"copies in", "works", "copies out"}, Goes(a, goal, work[a].snap),
              NEW c, c \subseteq {"base", work[a].task}, boxes' = [boxes EXCEPT ![work[a].box] = c],
              p = "boxes by hand" /\ ~Has(snaps["all"]) => c \subseteq {"base"},
              p \in Alone /\ goal = "copies in" => c \subseteq sandboxTree[work[a].task],
              p \in Alone /\ goal = "works" /\ work[a].box[1] # "dev" => c = sandboxTree[work[a].task],
              meant' \in [Tasks -> SUBSET BoxFiles],
              UNCHANGED <<recorded, sandboxTree, sandboxTurns, snaps, sweep, sandboxCrashes, tested>>
       PROVE  BoxInv(p)'
  <2>0. /\ work[a].at # "rest" /\ work[a].task \in Tasks /\ work[a].box \in RunNames
        /\ work[a].box \in BoxNames /\ work[a].box[2] = work[a].task
        /\ goal \in BoxStages /\ work[a].snap \in {"none", PrintOf(p, work[a].task)}
        /\ p = "boxes cold" => work[a].snap = "none"
    BY <1>2, <1>7, <1>31 DEF BoxStages, BoxRunOK
  <2>1. /\ work' = [work EXCEPT ![a] = work'[a]] /\ work'[a] \in BoxRun /\ work'[a].at = goal
        /\ work'[a].box = work[a].box /\ work'[a].task = work[a].task
           /\ work'[a].snap = work[a].snap
        /\ Held(p, work'[a]) = work[a].box
    BY <1>31 DEF Goes, Held
  <2>2. BoxRunOK(p, a, work'[a], recorded)
    BY <1>11, <1>31, <2>0
  <2>3. c \subseteq BoxFiles
    BY <1>4, <1>31, <2>0
  <2>4. /\ boxes' \in [BoxNames -> Content] /\ boxes'[work[a].box] = c
        /\ Has(boxes'[work[a].box]) /\ \A n \in BoxNames : n # work[a].box => boxes'[n] = boxes[n]
    BY <1>3, <1>8, <1>31, <2>0, <2>3
  <2>5. BoxTyped'
    <3>1. work' \in [BoxActors -> BoxRun]
      BY <1>3, <2>1
    <3>2. UNCHANGED <<recorded, sandboxTree, sandboxTurns, snaps, sweep, sandboxCrashes>>
          /\ meant' \in [Tasks -> SUBSET BoxFiles]
      BY <1>31
    <3> QED
      BY ONLY <1>1, <3>1, <3>2, <2>4 DEF BoxTyped
  <2>6. /\ \A n : HeldBy(p, work[a], n) => n = work[a].box
        /\ \A n : HeldBy(p, work'[a], n) <=> n = work[a].box
        /\ Kept(p, a, work'[a], boxes')
    BY <1>31, <2>1, <2>4 DEF HeldBy, Kept, Holding, Held
  <2>7. BoxRunsOK(p)'
    <3>1. \A n \in BoxNames :
            Has(boxes'[n]) => HeldBy(p, work'[a], n) \/ (Has(boxes[n]) /\ ~HeldBy(p, work[a], n))
      BY <2>4, <2>6
    <3>2. \A n \in BoxNames :
            n[1] \notin (IF a = "chain" THEN {"dev", "verify", "scan"} ELSE {"checks"}) =>
              boxes'[n] = boxes[n]
      <4>1. work[a].box[1] \in (IF a = "chain" THEN {"dev", "verify", "scan"} ELSE {"checks"})
        BY <1>7, <2>0 DEF Kinds
      <4> QED
        BY <2>4, <4>1
    <3> QED
      BY <1>1, <1>31, <2>1, <2>2, <2>6, <3>1, <3>2, RunsStayTheirs
  <2>8. \A b \in BoxActors : b # a => work'[b] = work[b]
    BY <1>12, <2>1
  <2>9. \A n \in RunNames : n \in BoxNames
    BY <1>4
  <2>10. \A f \in Prints : boxes'[<<"scan", f>>] = boxes[<<"scan", f>>]
    <3>1. \A f \in Prints : <<"scan", f>> # work[a].box /\ <<"scan", f>> \in BoxNames
      BY <1>4, <2>0
    <3> QED
      BY <2>4, <3>1
  <2>11. OwnFiles'
    BY <1>1, <1>31, <2>0, <2>4, <2>9 DEF OwnFiles
  <2>12. ApartFiles => ApartFiles'
    BY <1>4, <1>31, <2>10 DEF ApartFiles
  <2>13. p = "boxes by hand" => SharedFiles'
    <3>1. ASSUME p = "boxes by hand", SharedFiles PROVE SharedFiles'
      <4>1. /\ ~Has(snaps["all"]) => a # "chain"
            /\ work'["chain"].at \notin {"builds", "installs"} \/ work'["chain"] = work["chain"]
        BY <1>4, <1>31, <2>1, <2>8, <3>1 DEF SharedFiles
      <4>2. /\ ~Has(snaps["all"]) => work'["chain"] = work["chain"]
            /\ \A b \in BoxActors : work'[b].snap = work[b].snap
        BY <1>4, <2>1, <2>8, <4>1
      <4>3. ~Has(snaps["all"]) => \A n \in RunNames : Has(boxes'[n]) => boxes'[n] \subseteq {"base"}
        BY <1>31, <2>4, <2>9, <3>1 DEF SharedFiles
      <4>4. boxes'[<<"scan", "all">>] = boxes[<<"scan", "all">>]
        BY <1>4, <2>10
      <4> QED
        BY <1>31, <3>1, <4>1, <4>2, <4>3, <4>4 DEF SharedFiles
    <3> QED
      BY <1>1, <3>1
  <2>14. p \in Alone => CommitFiles'
    <3>1. ASSUME p \in Alone, CommitFiles PROVE CommitFiles'
      <4>1. a = "chain"
        BY <1>6, <2>0, <3>1 DEF CommitFiles, BoxActors
      <4>2. work'["by hand"] = work["by hand"]
        BY <1>4, <2>8, <4>1
      <4> QED
        BY <1>31, <2>1, <2>4, <3>1, <4>1, <4>2 DEF CommitFiles
    <3> QED
      BY <1>1, <3>1
  <2> QED
    BY <1>1, <2>5, <2>7, <2>11, <2>12, <2>13, <2>14 DEF BoxInv
<1>32. ASSUME NEW a \in BoxActors, AnyBoxes!Boots(a) PROVE BoxInv(p)'
  <2>0. /\ work[a].at = "boots" /\ work[a].at # "rest"
        /\ work' = [work EXCEPT ![a].at = "copies in"]
        /\ UNCHANGED <<recorded, sandboxTree, meant, sandboxTurns, snaps, sweep, sandboxCrashes,
           tested>>
    BY <1>32 DEF AnyBoxes!Boots, AnyBoxes!Becomes, AnyBoxes!disk
  <2>1. Goes(a, "copies in", work[a].snap)
    BY <1>10, <2>0 DEF BoxStages
  <2>2. CASE boxes' = [boxes EXCEPT ![work[a].box] = {}]
    BY <1>3, <1>31, <2>0, <2>1, <2>2
  <2>3. CASE /\ work[a].snap # "none" /\ Has(snaps[work[a].snap])
             /\ boxes' = [boxes EXCEPT ![work[a].box] = snaps[work[a].snap]]
    <3>1. work[a].snap = PrintOf(p, work[a].task) /\ work[a].task \in Tasks
      BY <1>7, <2>0, <2>3
    <3>2. CASE p = "boxes by hand"
      <4>1. work[a].snap = "all" /\ snaps[work[a].snap] \subseteq {"base"} /\ p \notin Alone
        BY <1>1, <2>3, <3>1, <3>2 DEF PrintOf, SharedFiles, Alone
      <4> QED
        BY <1>3, <1>31, <2>0, <2>1, <2>3, <4>1
    <3>3. CASE p # "boxes by hand"
      <4>1. /\ snaps[work[a].snap] \subseteq sandboxTree[work[a].task]
            /\ sandboxTree[work[a].task] \subseteq {"base", work[a].task}
        BY <1>1, <2>3, <3>1, <3>3 DEF PrintOf, ApartFiles, OwnFiles
      <4> QED
        BY <1>3, <1>31, <2>0, <2>1, <2>3, <3>3, <4>1
    <3> QED
      BY <3>2, <3>3
  <2> QED
    BY <1>5, <1>32, <2>2, <2>3 DEF AnyBoxes!Boots
<1>33. ASSUME NEW a \in BoxActors, AnyBoxes!CopiesIn(a) PROVE BoxInv(p)'
  <2> DEFINE c == boxes[work[a].box] \union sandboxTree[work[a].task]
  <2>0. /\ work[a].at = "copies in" /\ work[a].at # "rest" /\ Has(boxes[work[a].box])
        /\ work' = [work EXCEPT ![a].at = "works"] /\ work[a].box \in BoxNames
        /\ UNCHANGED <<recorded, sandboxTree, meant, sandboxTurns, snaps, sweep, sandboxCrashes,
           tested>>
        /\ boxes' = [boxes EXCEPT ![work[a].box] = c]
    BY <1>3, <1>5, <1>7, <1>33 DEF AnyBoxes!CopiesIn, AnyBoxes!Becomes, AnyBoxes!disk
  <2>1. Goes(a, "works", work[a].snap)
    BY <1>10, <2>0 DEF BoxStages
  <2>2. c \subseteq {"base", work[a].task}
    BY <1>1, <1>7, <2>0 DEF OwnFiles
  <2>3. p = "boxes by hand" /\ ~Has(snaps["all"]) => c \subseteq {"base"}
    BY <1>1, <1>7, <2>0 DEF SharedFiles
  <2>4. p \in Alone => c = sandboxTree[work[a].task]
    <3>1. ASSUME p \in Alone, CommitFiles PROVE c = sandboxTree[work[a].task]
      <4>1. a = "chain"
        BY <1>6, <2>0, <3>1 DEF CommitFiles, BoxActors
      <4> QED
        BY <2>0, <3>1, <4>1 DEF CommitFiles
    <3> QED
      BY <1>1, <3>1
  <2> HIDE DEF c
  <2> QED
    BY <1>3, <1>31, <2>0, <2>1, <2>2, <2>3, <2>4
<1>34. ASSUME AnyBoxes!AgentWorks PROVE BoxInv(p)'
  <2> DEFINE r == work["chain"]
  <2>0. /\ r.at = "works" /\ r.at # "rest" /\ Has(boxes[r.box])
        /\ work' = [work EXCEPT !["chain"].at = "copies out"]
        /\ UNCHANGED <<recorded, sandboxTree, sandboxTurns, snaps, sweep, sandboxCrashes, tested>>
    BY <1>5, <1>34 DEF AnyBoxes!AgentWorks, AnyBoxes!Becomes
  <2>1. PICK gone \in {{}, {"base"}} :
          /\ boxes' = [boxes EXCEPT ![r.box] = (boxes[r.box] \union {r.task}) \ gone]
          /\ meant' = [meant EXCEPT ![r.task] = (meant[r.task] \union {r.task}) \ gone]
    <3>1. r.box \in BoxNames /\ r.task \in Tasks
      BY <1>4, <1>7, <2>0
    <3> QED
      BY <1>3, <1>5, <1>34, <3>1 DEF AnyBoxes!AgentWorks
  <2>2. Goes("chain", "copies out", r.snap)
    BY <1>4, <1>10, <2>0 DEF BoxStages
  <2>3. meant' \in [Tasks -> SUBSET BoxFiles]
    BY <1>3, <1>4, <1>7, <2>0, <2>1
  <2>4. (boxes[r.box] \union {r.task}) \ gone \subseteq {"base", r.task}
    BY <1>1, <1>4, <1>7, <2>0 DEF OwnFiles
  <2>5. p = "boxes by hand" => Has(snaps["all"])
    BY <1>1, <2>0 DEF SharedFiles
  <2> QED
    BY <1>4, <1>31, <2>0, <2>1, <2>2, <2>3, <2>4, <2>5
\* A step after the work, which may copy to the worktree.
<1>35. ASSUME NEW a \in BoxActors, work[a].at \in {"works", "copies out"},
              NEW goal \in {"copies out", "ends"}, Goes(a, goal, work[a].snap),
              sandboxTree' \in [Tasks -> SUBSET BoxFiles],
              \A t \in Tasks : /\ sandboxTree[t] \subseteq sandboxTree'[t]
                               /\ sandboxTree'[t] \subseteq {"base", t}
                               /\ p = "boxes by hand" /\ ~Has(snaps["all"]) =>
                                    sandboxTree'[t] \subseteq {"base"},
              p \in Alone => tested'.is = tested'.of,
              UNCHANGED <<recorded, meant, sandboxTurns, snaps, boxes, sweep, sandboxCrashes>>
       PROVE  BoxInv(p)'
  <2>0. /\ work[a].at # "rest" /\ goal \in BoxStages
           /\ work[a].snap \in {"none", PrintOf(p, work[a].task)}
        /\ p = "boxes cold" => work[a].snap = "none"
    BY <1>2, <1>7, <1>35 DEF BoxStages, BoxRunOK
  <2>1. /\ work' = [work EXCEPT ![a] = work'[a]] /\ work'[a] \in BoxRun /\ work'[a].at = goal
        /\ work'[a].snap = work[a].snap /\ Held(p, work'[a]) = Held(p, work[a])
    BY <1>35 DEF Goes, Held
  <2>2. BoxRunOK(p, a, work'[a], recorded)
    BY <1>11, <1>35, <2>0
  <2>3. BoxTyped'
    BY <1>1, <1>3, <1>35, <2>1 DEF BoxTyped
  <2>4. /\ \A n : HeldBy(p, work[a], n) <=> HeldBy(p, work'[a], n)
        /\ Kept(p, a, work'[a], boxes')
    BY <1>2, <1>35, <2>1 DEF HeldBy, Kept, Holding
  <2>5. BoxRunsOK(p)'
    BY <1>1, <1>35, <2>1, <2>2, <2>4, RunsStayTheirs
  <2>6. \A b \in BoxActors : b # a => work'[b] = work[b]
    BY <1>12, <2>1
  <2>7. OwnFiles' /\ (ApartFiles => ApartFiles')
    BY <1>1, <1>35 DEF OwnFiles, ApartFiles
  <2>8. p = "boxes by hand" => SharedFiles'
    <3>1. ASSUME p = "boxes by hand", SharedFiles PROVE SharedFiles'
      <4>1. ~Has(snaps["all"]) => a # "chain"
        BY <1>35, <3>1 DEF SharedFiles
      <4>2. /\ ~Has(snaps["all"]) => work'["chain"] = work["chain"]
            /\ work'["chain"].at \in {"builds", "installs"} => work'["chain"] = work["chain"]
            /\ \A b \in BoxActors : work'[b].snap = work[b].snap
        BY <1>4, <1>35, <2>1, <2>6, <4>1
      <4> QED
        BY <1>35, <3>1, <4>2 DEF SharedFiles
    <3> QED
      BY <1>1, <3>1
  <2>9. p \in Alone => CommitFiles'
    <3>1. ASSUME p \in Alone, CommitFiles PROVE CommitFiles'
      <4>1. a = "chain"
        BY <1>6, <2>0, <3>1 DEF CommitFiles, BoxActors
      <4>2. work'["by hand"] = work["by hand"]
        BY <1>4, <2>6, <4>1
      <4> QED
        BY <1>35, <2>1, <3>1, <4>1, <4>2 DEF CommitFiles
    <3> QED
      BY <1>1, <3>1
  <2> QED
    BY <1>1, <2>3, <2>5, <2>7, <2>8, <2>9 DEF BoxInv
\* The worktrees, as they are.
<1>36. /\ sandboxTree \in [Tasks -> SUBSET BoxFiles]
       /\ \A t \in Tasks : /\ sandboxTree[t] \subseteq {"base", t}
                           /\ p = "boxes by hand" /\ ~Has(snaps["all"]) => sandboxTree[t] \subseteq {"base"}
       /\ p \in Alone => tested.is = tested.of
  BY <1>1, <1>3 DEF OwnFiles, SharedFiles, CommitFiles
<1>37. ASSUME NEW a \in BoxActors, AnyBoxes!CannotCopyOut(a) \/ (a = "chain" /\ AnyBoxes!AgentDies)
       PROVE  BoxInv(p)'
  <2>1. /\ UNCHANGED <<recorded, sandboxTree, meant, sandboxTurns, snaps, boxes, sweep,
           sandboxCrashes, tested>>
        /\ work[a].at \in {"works", "copies out"}
        /\ \E goal \in {"copies out", "ends"} : Goes(a, goal, work[a].snap)
    <3>1. CASE AnyBoxes!CannotCopyOut(a)
      <4>1. work[a].at = "copies out" /\ work' = [work EXCEPT ![a].at = "ends"]
        BY <3>1 DEF AnyBoxes!CannotCopyOut, AnyBoxes!Becomes
      <4> QED
        BY <1>10, <3>1, <4>1 DEF AnyBoxes!CannotCopyOut, AnyBoxes!disk, BoxStages
    <3>2. CASE a = "chain" /\ AnyBoxes!AgentDies
      <4>1. work[a].at = "works" /\ work' = [work EXCEPT ![a].at = "copies out", ![a].ok = FALSE]
        BY <1>5, <3>2 DEF AnyBoxes!AgentDies
      <4>2. Goes(a, "copies out", work[a].snap)
        BY <1>3, <4>1 DEF Goes, BoxRun, BoxStages
      <4> QED
        BY <3>2, <4>1, <4>2 DEF AnyBoxes!AgentDies, AnyBoxes!disk
    <3> QED
      BY <1>37, <3>1, <3>2
  <2> QED
    BY <1>35, <1>36, <2>1
<1>38. ASSUME NEW a \in BoxActors, AnyBoxes!Tests(a) PROVE BoxInv(p)'
  <2>0. /\ work[a].at = "works" /\ work[a].box[1] # "dev" /\ work[a].at # "rest"
        /\ tested' = [is |-> boxes[work[a].box], of |-> sandboxTree[work[a].task]]
        /\ UNCHANGED <<recorded, sandboxTree, meant, sandboxTurns, snaps, boxes, sweep,
           sandboxCrashes>>
        /\ \E goal \in {"copies out", "ends"} : work' = [work EXCEPT ![a].at = goal]
    BY <1>5, <1>38 DEF AnyBoxes!Tests, AnyBoxes!Becomes, AnyBoxes!disk
  <2>1. \E goal \in {"copies out", "ends"} : Goes(a, goal, work[a].snap)
    BY <1>10, <2>0 DEF BoxStages
  <2>2. p \in Alone => tested'.is = tested'.of
    <3>1. ASSUME p \in Alone, CommitFiles PROVE tested'.is = tested'.of
      <4>1. a = "chain"
        BY <1>6, <2>0, <3>1 DEF CommitFiles, BoxActors
      <4> QED
        BY <2>0, <3>1, <4>1 DEF CommitFiles
    <3> QED
      BY <1>1, <3>1
  <2> QED
    BY <1>35, <1>36, <2>0, <2>1, <2>2
<1>39. ASSUME NEW a \in BoxActors, AnyBoxes!CopiesOut(a) PROVE BoxInv(p)'
  <2>0. /\ work[a].at = "copies out" /\ work[a].at # "rest" /\ Has(boxes[work[a].box])
        /\ work' = [work EXCEPT ![a].at = "ends"] /\ work[a].task \in Tasks
        /\ sandboxTree' = [sandboxTree EXCEPT ![work[a].task] =
                             sandboxTree[work[a].task] \union boxes[work[a].box]]
        /\ UNCHANGED <<recorded, meant, sandboxTurns, snaps, boxes, sweep, sandboxCrashes, tested>>
    BY <1>3, <1>5, <1>7, <1>39 DEF AnyBoxes!CopiesOut, AnyBoxes!Becomes
  <2>1. Goes(a, "ends", work[a].snap)
    BY <1>10, <2>0 DEF BoxStages
  <2>2. /\ boxes[work[a].box] \subseteq {"base", work[a].task}
           /\ boxes[work[a].box] \subseteq BoxFiles
        /\ p = "boxes by hand" /\ ~Has(snaps["all"]) => boxes[work[a].box] \subseteq {"base"}
    <3>1. work[a].box \in RunNames /\ work[a].box[2] = work[a].task
      BY <1>7, <2>0
    <3>2. boxes[work[a].box] \subseteq {"base", work[a].task}
      BY <1>1, <2>0, <3>1 DEF OwnFiles
    <3>3. p = "boxes by hand" /\ ~Has(snaps["all"]) => boxes[work[a].box] \subseteq {"base"}
      BY <1>1, <2>0, <3>1 DEF SharedFiles
    <3>4. {"base", work[a].task} \subseteq BoxFiles
      BY <1>4, <2>0
    <3> QED
      BY <3>2, <3>3, <3>4
  <2>3. /\ sandboxTree' \in [Tasks -> SUBSET BoxFiles]
        /\ \A t \in Tasks : sandboxTree'[t] =
             IF t = work[a].task THEN sandboxTree[t] \union boxes[work[a].box] ELSE sandboxTree[t]
    BY <1>3, <2>0, <2>2
  <2>4. \A t \in Tasks : /\ sandboxTree[t] \subseteq sandboxTree'[t]
                         /\ sandboxTree'[t] \subseteq {"base", t}
                         /\ p = "boxes by hand" /\ ~Has(snaps["all"]) => sandboxTree'[t] \subseteq {"base"}
    BY <1>36, <2>2, <2>3
  <2> QED
    BY <1>35, <1>36, <2>0, <2>1, <2>3, <2>4
\* A crash, and the sweep, which spares what a task has claimed.
<1>40. ASSUME Crashed(p) PROVE BoxInv(p)'
  <2>1. /\ \A a \in BoxActors : work'[a] = AtRest
        /\ work' \in [BoxActors -> BoxRun] /\ sandboxCrashes' = sandboxCrashes + 1
        /\ sandboxCrashes \in Nat
        /\ sweep' \in [on : BOOLEAN, claimed : SUBSET Tasks, listed : SUBSET BoxNames]
        /\ sweep'.listed = {} /\ (p \in Unswept => ~sweep'.on)
        /\ UNCHANGED <<recorded, sandboxTree, meant, sandboxTurns, snaps, boxes, tested>>
    <3>1. PICK on \in BOOLEAN : sweep' = [on |-> on, claimed |-> recorded, listed |-> {}]
      BY <1>40 DEF Crashed
    <3>2. /\ sweep' \in [on : BOOLEAN, claimed : SUBSET Tasks, listed : SUBSET BoxNames]
          /\ sweep'.listed = {}
      BY <1>3, <3>1
    <3>3. work' = [a \in BoxActors |-> AtRest]
      BY <1>40 DEF Crashed
    <3>4. work' \in [BoxActors -> BoxRun] /\ \A a \in BoxActors : work'[a] = AtRest
      BY <1>6, <3>3
    <3>5. /\ sandboxCrashes' = sandboxCrashes + 1 /\ (p \in Unswept => ~sweep'.on)
          /\ UNCHANGED <<recorded, sandboxTree, meant, sandboxTurns, snaps, boxes, tested>>
      BY <1>40 DEF Crashed, BoxDisk
    <3> QED
      BY <1>1, <3>2, <3>4, <3>5 DEF BoxTyped
  <2>2. BoxTyped'
    <3>1. sandboxCrashes' \in Nat
      BY <2>1
    <3> QED
      BY ONLY <1>1, <2>1, <3>1 DEF BoxTyped
  <2>3. BoxRunsOK(p)'
    BY <1>6, <2>1 DEF BoxRunsOK
  <2>4. /\ work'["chain"] = AtRest /\ work'["by hand"] = AtRest
    BY <1>4, <2>1
  <2>5. (SharedFiles => SharedFiles') /\ (CommitFiles => CommitFiles')
    BY <1>6, <2>1, <2>4 DEF SharedFiles, CommitFiles
  <2> QED
    BY <1>1, <2>1, <2>2, <2>3, <2>5 DEF BoxInv, OwnFiles, ApartFiles
<1>41. ASSUME AnyBoxes!Lists PROVE BoxInv(p)'
  <2>1. /\ sweep.on /\ sweep'.on /\ sweep'.claimed = sweep.claimed
           /\ sweep'.listed \subseteq BoxNames
        /\ sweep' \in [on : BOOLEAN, claimed : SUBSET Tasks, listed : SUBSET BoxNames]
        /\ UNCHANGED <<recorded, sandboxTree, meant, sandboxTurns, snaps, boxes, work,
           sandboxCrashes, tested>>
    <3>1. sweep \in [on : BOOLEAN, claimed : SUBSET Tasks, listed : SUBSET BoxNames]
      BY <1>1 DEF BoxTyped
    <3>2. sweep' = [sweep EXCEPT !.listed = {n \in BoxNames : AnyBoxes!There(boxes[n])}]
      BY <1>5, <1>41 DEF AnyBoxes!Lists
    <3> QED
      BY <1>41, <3>1, <3>2 DEF AnyBoxes!Lists, AnyBoxes!disk
  <2>2. BoxTyped'
    BY <1>1, <2>1 DEF BoxTyped
  <2>3. BoxRunsOK(p)'
    BY <1>1, <2>1 DEF BoxRunsOK
  <2> QED
    BY <1>1, <2>1, <2>2, <2>3 DEF BoxInv, OwnFiles, ApartFiles, SharedFiles, CommitFiles
<1>42. ASSUME NEW n \in BoxNames, AnyBoxes!Sweeps1(n) PROVE BoxInv(p)'
  <2>0. /\ n \in sweep.listed /\ sweep' = [sweep EXCEPT !.listed = sweep.listed \ {n},
                                                    !.on = sweep.listed # {n}]
        /\ boxes' = IF AnyBoxes!Claimed(n) THEN boxes ELSE [boxes EXCEPT ![n] = {"none"}]
        /\ UNCHANGED <<recorded, sandboxTree, meant, sandboxTurns, snaps, work, sandboxCrashes,
           tested>>
        /\ sweep \in [on : BOOLEAN, claimed : SUBSET Tasks, listed : SUBSET BoxNames]
    BY <1>1, <1>5, <1>42 DEF AnyBoxes!Sweeps1, AnyBoxes!disk, BoxTyped
  <2>1. /\ sweep.on /\ p \notin Unswept /\ sandboxCrashes # 0
        /\ sweep' \in [on : BOOLEAN, claimed : SUBSET Tasks, listed : SUBSET BoxNames]
        /\ (~sweep'.on => sweep'.listed = {})
    BY <1>1, <2>0 DEF BoxTyped, BoxRunsOK
  <2>2. /\ boxes' \in [BoxNames -> Content]
        /\ \A m \in BoxNames : Has(boxes'[m]) => boxes'[m] = boxes[m]
        /\ \A m \in BoxNames : m # n \/ AnyBoxes!Claimed(n) => boxes'[m] = boxes[m]
    BY <1>3, <2>0, Contents DEF Has
  <2>3. ASSUME work["chain"].at \in Holding, work["chain"].at # "installs"
        PROVE  boxes'[work["chain"].box] = boxes[work["chain"].box]
    <3>1. /\ work["chain"].task \in recorded /\ work["chain"].box \in BoxNames
          /\ work["chain"].box[1] \in {"dev", "verify"} /\ work["chain"].box[2] = work["chain"].task
      <4>1. work["chain"].at # "rest"
        BY <2>3 DEF Holding
      <4> QED
        BY <1>4, <1>7, <4>1 DEF Kinds
    <3>2. n = work["chain"].box => AnyBoxes!Claimed(n)
      BY <3>1 DEF AnyBoxes!Claimed, AnyBoxes!TaskOf
    <3> QED
      BY <2>2, <3>1, <3>2
  <2>4. \A a \in BoxActors : Kept(p, a, work[a], boxes')
    BY <1>2, <2>1, <2>3 DEF Kept, Held
  <2>5. BoxTyped'
    BY <1>1, <2>0, <2>1, <2>2 DEF BoxTyped
  <2>6. BoxRunsOK(p)'
    BY <1>2, <2>0, <2>1, <2>4 DEF BoxRunsOK
  <2>7. OwnFiles' /\ (ApartFiles => ApartFiles') /\ (SharedFiles => SharedFiles')
    BY <1>1, <1>4, <2>0, <2>2 DEF OwnFiles, ApartFiles, SharedFiles
  <2>8. CommitFiles => CommitFiles'
    BY <2>0, <2>3 DEF CommitFiles, Holding
  <2> QED
    BY <1>1, <2>5, <2>6, <2>7, <2>8 DEF BoxInv
<1> QED
  BY <1>4, <1>20, <1>22, <1>23, <1>24, <1>25, <1>27, <1>29, <1>30, <1>32, <1>33, <1>34, <1>37,
     <1>38,
     <1>39, <1>40, <1>41, <1>42 DEF BoxesMove

\* The boxes with nobody running checks by hand are such boxes.
LEMMA BoxesAreBoxes ==
  ASSUME BoxInv("boxes"), Boxes!Next PROVE BoxesMove("boxes")
<1> DEFINE p == "boxes"
<1>1. /\ Boxes!Actors = BoxActors /\ Boxes!Names = BoxNames /\ Boxes!NoFiles = {"none"}
      /\ Boxes!Resting = AtRest /\ Boxes!Chain = "chain" /\ Boxes!Hand = "by hand"
      /\ \A c : Boxes!There(c) <=> Has(c)
  BY DEF Boxes!Actors, Boxes!Names, Boxes!NoFiles, Boxes!Resting, Boxes!Chain, Boxes!Hand,
     Boxes!Fingerprints, Boxes!There, BoxActors, BoxNames, RunNames, Prints, AtRest, Has
<1>2. ASSUME NEW a \in BoxActors, work[a].at # "rest"
      PROVE  Boxes!Fingerprint(work[a].task) = PrintOf(p, work[a].task)
  BY DEF Boxes!Fingerprint, PrintOf
<1>3. ASSUME NEW t \in Tasks, Boxes!Creates(t) \/ Boxes!Turns(t) \/ Boxes!Verifies(t)
      \/ Boxes!AsksForChecks(t)
      PROVE  BoxesMove(p)
  <2>1. \/ AnyBoxes!Creates(t) \/ AnyBoxes!Turns(t) \/ AnyBoxes!Verifies(t)
        \/ p \notin Alone /\ AnyBoxes!AsksForChecks(t)
    BY <1>3 DEF Boxes!Creates, Boxes!Turns, Boxes!Verifies, Boxes!AsksForChecks,
       Boxes!Starts, Boxes!disk, Boxes!Chain, Boxes!Hand, Boxes!Resting, AnyBoxes!Creates,
       AnyBoxes!Turns, AnyBoxes!Verifies, AnyBoxes!AsksForChecks, AnyBoxes!Starts,
       AnyBoxes!disk, AnyBoxes!Chain, AnyBoxes!Hand, AnyBoxes!Resting, Alone
  <2> QED
    BY <2>1 DEF BoxesMove
<1>4. ASSUME NEW a \in BoxActors, Boxes!Resolves(a) PROVE BoxesMove(p)
  <2>2. work[a].at = "resolves" /\ UNCHANGED <<BoxDisk, snaps, boxes, sweep, sandboxCrashes,
        tested>>
    BY <1>4 DEF Boxes!Resolves, Boxes!disk, BoxDisk
  <2>3. Boxes!Fingerprint(work[a].task) = PrintOf(p, work[a].task)
    BY <1>2, <2>2
  <2>4. a = "chain" \/ a = "by hand"
    BY DEF BoxActors
  <2>5. work' = IF Has(snaps[PrintOf(p, work[a].task)])
                THEN [work EXCEPT ![a].at = "boots", ![a].snap = PrintOf(p, work[a].task)]
                ELSE IF a = "chain" THEN [work EXCEPT ![a].at = "builds"]
                ELSE [work EXCEPT ![a].at = "boots"]
    BY <1>1, <1>4, <2>3 DEF Boxes!Resolves
  <2>1. Resolved(p, a)
    BY <2>2, <2>4, <2>5 DEF Resolved
  <2> QED
    BY <2>1 DEF BoxesMove
<1>5. ASSUME NEW a \in BoxActors, Boxes!Builds(a) \/ Boxes!Snapshots(a) \/ Boxes!BuildFails(a)
      PROVE BoxesMove(p)
  <2>1. work[a].at # "rest"
    BY <1>5 DEF Boxes!Builds, Boxes!Snapshots, Boxes!BuildFails
  <2>2. Boxes!Fingerprint(work[a].task) = PrintOf(p, work[a].task) /\ Boxes!ScanBox(a) = Scanned(p, a)
    BY <1>2, <2>1 DEF Boxes!ScanBox, Scanned
  <2>3. Built(p, a) \/ Snapshot(p, a) \/ BuildFailed(p, a)
    <3>1. CASE Boxes!Builds(a)
      BY <1>1, <2>2, <3>1 DEF Boxes!Builds, Boxes!disk, Built, Scanned, BoxDisk
    <3>2. CASE Boxes!Snapshots(a)
      BY <1>1, <2>2, <3>2 DEF Boxes!Snapshots, Boxes!disk, Snapshot, BoxDisk
    <3>3. CASE Boxes!BuildFails(a)
      BY <1>1, <2>2, <3>3 DEF Boxes!BuildFails, Boxes!Rests, Boxes!disk, BuildFailed,
         BoxDisk
    <3> QED
      BY <1>5, <3>1, <3>2, <3>3
  <2> QED
    BY <2>3 DEF BoxesMove
<1>6. ASSUME NEW a \in BoxActors, Boxes!BoxIsGone(a) PROVE BoxesMove(p)
  <2>1. work[a].at # "rest"
    BY <1>6 DEF Boxes!BoxIsGone
  <2>2. Held(p, work[a]) = IF work[a].at = "installs" THEN Boxes!ScanBox(a) ELSE Boxes!Box(a)
    BY <1>2, <2>1 DEF Boxes!ScanBox, Boxes!Box, Held
  <2>3. Gone(p, a)
    BY <1>1, <1>6, <2>2 DEF Boxes!BoxIsGone, Boxes!Rests, Boxes!disk, Gone, BoxDisk
  <2> QED
    BY <2>3 DEF BoxesMove
<1>7. ASSUME NEW a \in BoxActors,
              Boxes!Purges(a) \/ Boxes!Boots(a) \/ Boxes!CannotBoot(a) \/ Boxes!CopiesIn(a)
      PROVE  BoxesMove(p)
  <2>1. AnyBoxes!Purges(a) \/ AnyBoxes!Boots(a) \/ AnyBoxes!CannotBoot(a) \/ AnyBoxes!CopiesIn(a)
    BY <1>7 DEF Boxes!Purges, Boxes!Boots, Boxes!CannotBoot, Boxes!CopiesIn, Boxes!Becomes,
       Boxes!Rests, Boxes!disk, Boxes!There, Boxes!NoFiles, Boxes!Box, Boxes!Resting,
       Boxes!Kept, Boxes!Fingerprints, AnyBoxes!Purges, AnyBoxes!Boots, AnyBoxes!CannotBoot,
       AnyBoxes!CopiesIn, AnyBoxes!Becomes, AnyBoxes!Rests, AnyBoxes!disk, AnyBoxes!There,
       AnyBoxes!NoFiles, AnyBoxes!Box, AnyBoxes!Resting, AnyBoxes!Kept,
       AnyBoxes!Fingerprints
  <2> QED
    BY <2>1 DEF BoxesMove
<1>8. ASSUME NEW a \in BoxActors,
              Boxes!Tests(a) \/ Boxes!CopiesOut(a) \/ Boxes!CannotCopyOut(a) \/ Boxes!Finishes(a)
      PROVE  BoxesMove(p)
  <2>1. AnyBoxes!Tests(a) \/ AnyBoxes!CopiesOut(a) \/ AnyBoxes!CannotCopyOut(a)
        \/ AnyBoxes!Finishes(a)
    BY <1>8 DEF Boxes!Tests, Boxes!CopiesOut, Boxes!CannotCopyOut, Boxes!Finishes,
       Boxes!Becomes, Boxes!Rests, Boxes!disk, Boxes!There, Boxes!NoFiles, Boxes!Box,
       Boxes!Resting, AnyBoxes!Tests, AnyBoxes!CopiesOut, AnyBoxes!CannotCopyOut,
       AnyBoxes!Finishes, AnyBoxes!Becomes, AnyBoxes!Rests, AnyBoxes!disk, AnyBoxes!There,
       AnyBoxes!NoFiles, AnyBoxes!Box, AnyBoxes!Resting
  <2> QED
    BY <2>1 DEF BoxesMove
<1>9. ASSUME Boxes!AgentWorks \/ Boxes!AgentDies PROVE BoxesMove(p)
  <2>1. AnyBoxes!AgentWorks \/ AnyBoxes!AgentDies
    BY <1>9 DEF Boxes!AgentWorks, Boxes!AgentDies, Boxes!Becomes, Boxes!disk, Boxes!There,
       Boxes!NoFiles, Boxes!Box, Boxes!Chain, Boxes!Base, AnyBoxes!AgentWorks,
       AnyBoxes!AgentDies, AnyBoxes!Becomes, AnyBoxes!disk, AnyBoxes!There,
       AnyBoxes!NoFiles, AnyBoxes!Box, AnyBoxes!Chain, AnyBoxes!Base
  <2> QED
    BY <2>1 DEF BoxesMove
<1>10. ASSUME Boxes!Crash PROVE BoxesMove(p)
  <2>1. sweep' = [on |-> FALSE, claimed |-> recorded, listed |-> {}]
    BY <1>10 DEF Boxes!Crash, Boxes!NoSweep
  <2>2. Crashed(p)
    BY <1>1, <1>10, <2>1 DEF Boxes!Crash, Boxes!disk, Crashed, BoxDisk, Unswept
  <2> QED
    BY <2>2 DEF BoxesMove
<1>11. ASSUME Boxes!Lists PROVE BoxesMove(p)
  <2>1. AnyBoxes!Lists
    BY <1>11 DEF Boxes!Lists, Boxes!disk, Boxes!There, Boxes!NoFiles, Boxes!Names,
       Boxes!Fingerprints, AnyBoxes!Lists, AnyBoxes!disk, AnyBoxes!There, AnyBoxes!NoFiles,
       AnyBoxes!Names, AnyBoxes!Fingerprints
  <2> QED
    BY <2>1 DEF BoxesMove
<1>12. ASSUME NEW n \in BoxNames, Boxes!Sweeps1(n) PROVE BoxesMove(p)
  <2>1. AnyBoxes!Sweeps1(n)
    BY <1>12 DEF Boxes!Sweeps1, Boxes!disk, Boxes!Claimed, Boxes!TaskOf, Boxes!NoFiles,
       AnyBoxes!Sweeps1, AnyBoxes!disk, AnyBoxes!Claimed, AnyBoxes!TaskOf, AnyBoxes!NoFiles
  <2> QED
    BY <2>1 DEF BoxesMove
<1> QED
  BY <1>1, <1>3, <1>4, <1>5, <1>6, <1>7, <1>8, <1>9, <1>10, <1>11, <1>12 DEF Boxes!Next

\* The boxes without a runbook are such boxes.
LEMMA ColdBoxesAreBoxes ==
  ASSUME BoxInv("boxes cold"), ColdBoxes!Next PROVE BoxesMove("boxes cold")
<1> DEFINE p == "boxes cold"
<1>1. /\ ColdBoxes!Actors = BoxActors /\ ColdBoxes!Names = BoxNames /\ ColdBoxes!NoFiles = {"none"}
      /\ ColdBoxes!Resting = AtRest /\ ColdBoxes!Chain = "chain" /\ ColdBoxes!Hand = "by hand"
      /\ \A c : ColdBoxes!There(c) <=> Has(c)
  BY DEF ColdBoxes!Actors, ColdBoxes!Names, ColdBoxes!NoFiles, ColdBoxes!Resting,
     ColdBoxes!Chain, ColdBoxes!Hand, ColdBoxes!Fingerprints, ColdBoxes!There, BoxActors,
     BoxNames, RunNames, Prints, AtRest, Has
<1>2. ASSUME NEW a \in BoxActors, work[a].at # "rest"
      PROVE  ColdBoxes!Fingerprint(work[a].task) = PrintOf(p, work[a].task)
  BY DEF ColdBoxes!Fingerprint, PrintOf
<1>3. ASSUME NEW t \in Tasks, ColdBoxes!Creates(t) \/ ColdBoxes!Turns(t) \/ ColdBoxes!Verifies(t)
      \/ ColdBoxes!AsksForChecks(t)
      PROVE  BoxesMove(p)
  <2>1. \/ AnyBoxes!Creates(t) \/ AnyBoxes!Turns(t) \/ AnyBoxes!Verifies(t)
        \/ p \notin Alone /\ AnyBoxes!AsksForChecks(t)
    BY <1>3 DEF ColdBoxes!Creates, ColdBoxes!Turns, ColdBoxes!Verifies,
       ColdBoxes!AsksForChecks, ColdBoxes!Starts, ColdBoxes!disk, ColdBoxes!Chain,
       ColdBoxes!Hand, ColdBoxes!Resting, AnyBoxes!Creates, AnyBoxes!Turns,
       AnyBoxes!Verifies, AnyBoxes!AsksForChecks, AnyBoxes!Starts, AnyBoxes!disk,
       AnyBoxes!Chain, AnyBoxes!Hand, AnyBoxes!Resting, Alone
  <2> QED
    BY <2>1 DEF BoxesMove
<1>4. ASSUME NEW a \in BoxActors, ColdBoxes!Resolves(a) PROVE BoxesMove(p)
  <2>1. Resolved(p, a)
    BY <1>1, <1>2, <1>4 DEF ColdBoxes!Resolves, ColdBoxes!disk, Resolved, BoxDisk
  <2> QED
    BY <2>1 DEF BoxesMove
<1>5. ASSUME NEW a \in BoxActors, ColdBoxes!Builds(a) \/ ColdBoxes!Snapshots(a)
      \/ ColdBoxes!BuildFails(a)
      PROVE BoxesMove(p)
  <2>1. work[a].at # "rest"
    BY <1>5 DEF ColdBoxes!Builds, ColdBoxes!Snapshots, ColdBoxes!BuildFails
  <2>2. ColdBoxes!Fingerprint(work[a].task) = PrintOf(p, work[a].task)
        /\ ColdBoxes!ScanBox(a) = Scanned(p, a)
    BY <1>2, <2>1 DEF ColdBoxes!ScanBox, Scanned
  <2>3. Built(p, a) \/ Snapshot(p, a) \/ BuildFailed(p, a)
    <3>1. CASE ColdBoxes!Builds(a)
      BY <1>1, <2>2, <3>1 DEF ColdBoxes!Builds, ColdBoxes!disk, Built, Scanned, BoxDisk
    <3>2. CASE ColdBoxes!Snapshots(a)
      BY <1>1, <2>2, <3>2 DEF ColdBoxes!Snapshots, ColdBoxes!disk, Snapshot, BoxDisk
    <3>3. CASE ColdBoxes!BuildFails(a)
      BY <1>1, <2>2, <3>3 DEF ColdBoxes!BuildFails, ColdBoxes!Rests, ColdBoxes!disk,
         BuildFailed, BoxDisk
    <3> QED
      BY <1>5, <3>1, <3>2, <3>3
  <2> QED
    BY <2>3 DEF BoxesMove
<1>6. ASSUME NEW a \in BoxActors, ColdBoxes!BoxIsGone(a) PROVE BoxesMove(p)
  <2>1. work[a].at # "rest"
    BY <1>6 DEF ColdBoxes!BoxIsGone
  <2>2. Held(p, work[a]) = IF work[a].at = "installs" THEN ColdBoxes!ScanBox(a) ELSE ColdBoxes!Box(a)
    BY <1>2, <2>1 DEF ColdBoxes!ScanBox, ColdBoxes!Box, Held
  <2>3. Gone(p, a)
    BY <1>1, <1>6, <2>2 DEF ColdBoxes!BoxIsGone, ColdBoxes!Rests, ColdBoxes!disk, Gone,
       BoxDisk
  <2> QED
    BY <2>3 DEF BoxesMove
<1>7. ASSUME NEW a \in BoxActors,
              ColdBoxes!Purges(a) \/ ColdBoxes!Boots(a) \/ ColdBoxes!CannotBoot(a)
                  \/ ColdBoxes!CopiesIn(a)
      PROVE  BoxesMove(p)
  <2>1. AnyBoxes!Purges(a) \/ AnyBoxes!Boots(a) \/ AnyBoxes!CannotBoot(a) \/ AnyBoxes!CopiesIn(a)
    BY <1>7 DEF ColdBoxes!Purges, ColdBoxes!Boots, ColdBoxes!CannotBoot, ColdBoxes!CopiesIn,
       ColdBoxes!Becomes, ColdBoxes!Rests, ColdBoxes!disk, ColdBoxes!There,
       ColdBoxes!NoFiles, ColdBoxes!Box, ColdBoxes!Resting, ColdBoxes!Kept,
       ColdBoxes!Fingerprints, AnyBoxes!Purges, AnyBoxes!Boots, AnyBoxes!CannotBoot,
       AnyBoxes!CopiesIn, AnyBoxes!Becomes, AnyBoxes!Rests, AnyBoxes!disk, AnyBoxes!There,
       AnyBoxes!NoFiles, AnyBoxes!Box, AnyBoxes!Resting, AnyBoxes!Kept,
       AnyBoxes!Fingerprints
  <2> QED
    BY <2>1 DEF BoxesMove
<1>8. ASSUME NEW a \in BoxActors,
              ColdBoxes!Tests(a) \/ ColdBoxes!CopiesOut(a) \/ ColdBoxes!CannotCopyOut(a)
                  \/ ColdBoxes!Finishes(a)
      PROVE  BoxesMove(p)
  <2>1. AnyBoxes!Tests(a) \/ AnyBoxes!CopiesOut(a) \/ AnyBoxes!CannotCopyOut(a)
        \/ AnyBoxes!Finishes(a)
    BY <1>8 DEF ColdBoxes!Tests, ColdBoxes!CopiesOut, ColdBoxes!CannotCopyOut,
       ColdBoxes!Finishes, ColdBoxes!Becomes, ColdBoxes!Rests, ColdBoxes!disk,
       ColdBoxes!There, ColdBoxes!NoFiles, ColdBoxes!Box, ColdBoxes!Resting, AnyBoxes!Tests,
       AnyBoxes!CopiesOut, AnyBoxes!CannotCopyOut, AnyBoxes!Finishes, AnyBoxes!Becomes,
       AnyBoxes!Rests, AnyBoxes!disk, AnyBoxes!There, AnyBoxes!NoFiles, AnyBoxes!Box,
       AnyBoxes!Resting
  <2> QED
    BY <2>1 DEF BoxesMove
<1>9. ASSUME ColdBoxes!AgentWorks \/ ColdBoxes!AgentDies PROVE BoxesMove(p)
  <2>1. AnyBoxes!AgentWorks \/ AnyBoxes!AgentDies
    BY <1>9 DEF ColdBoxes!AgentWorks, ColdBoxes!AgentDies, ColdBoxes!Becomes,
       ColdBoxes!disk, ColdBoxes!There, ColdBoxes!NoFiles, ColdBoxes!Box, ColdBoxes!Chain,
       ColdBoxes!Base, AnyBoxes!AgentWorks, AnyBoxes!AgentDies, AnyBoxes!Becomes,
       AnyBoxes!disk, AnyBoxes!There, AnyBoxes!NoFiles, AnyBoxes!Box, AnyBoxes!Chain,
       AnyBoxes!Base
  <2> QED
    BY <2>1 DEF BoxesMove
<1>10. ASSUME ColdBoxes!Crash PROVE BoxesMove(p)
  <2>1. sweep' = [on |-> TRUE, claimed |-> recorded, listed |-> {}]
    BY <1>10 DEF ColdBoxes!Crash, ColdBoxes!NoSweep
  <2>2. Crashed(p)
    BY <1>1, <1>10, <2>1 DEF ColdBoxes!Crash, ColdBoxes!disk, Crashed, BoxDisk, Unswept
  <2> QED
    BY <2>2 DEF BoxesMove
<1>11. ASSUME ColdBoxes!Lists PROVE BoxesMove(p)
  <2>1. AnyBoxes!Lists
    BY <1>11 DEF ColdBoxes!Lists, ColdBoxes!disk, ColdBoxes!There, ColdBoxes!NoFiles,
       ColdBoxes!Names, ColdBoxes!Fingerprints, AnyBoxes!Lists, AnyBoxes!disk,
       AnyBoxes!There, AnyBoxes!NoFiles, AnyBoxes!Names, AnyBoxes!Fingerprints
  <2> QED
    BY <2>1 DEF BoxesMove
<1>12. ASSUME NEW n \in BoxNames, ColdBoxes!Sweeps1(n) PROVE BoxesMove(p)
  <2>1. AnyBoxes!Sweeps1(n)
    BY <1>12 DEF ColdBoxes!Sweeps1, ColdBoxes!disk, ColdBoxes!Claimed, ColdBoxes!TaskOf,
       ColdBoxes!NoFiles, AnyBoxes!Sweeps1, AnyBoxes!disk, AnyBoxes!Claimed,
       AnyBoxes!TaskOf, AnyBoxes!NoFiles
  <2> QED
    BY <2>1 DEF BoxesMove
<1> QED
  BY <1>1, <1>3, <1>4, <1>5, <1>6, <1>7, <1>8, <1>9, <1>10, <1>11, <1>12 DEF ColdBoxes!Next

\* The boxes whose tasks share a snapshot are such boxes.
LEMMA HandBoxesAreBoxes ==
  ASSUME BoxInv("boxes by hand"), HandBoxes!Next PROVE BoxesMove("boxes by hand")
<1> DEFINE p == "boxes by hand"
<1>1. /\ HandBoxes!Actors = BoxActors /\ HandBoxes!Names = BoxNames /\ HandBoxes!NoFiles = {"none"}
      /\ HandBoxes!Resting = AtRest /\ HandBoxes!Chain = "chain" /\ HandBoxes!Hand = "by hand"
      /\ \A c : HandBoxes!There(c) <=> Has(c)
  BY DEF HandBoxes!Actors, HandBoxes!Names, HandBoxes!NoFiles, HandBoxes!Resting,
     HandBoxes!Chain, HandBoxes!Hand, HandBoxes!Fingerprints, HandBoxes!There, BoxActors,
     BoxNames, RunNames, Prints, AtRest, Has
<1>2. ASSUME NEW a \in BoxActors, work[a].at # "rest"
      PROVE  HandBoxes!Fingerprint(work[a].task) = PrintOf(p, work[a].task)
  <2>1. work[a].task \in Tasks
    BY <1>2 DEF BoxInv, BoxTyped, BoxRunsOK, BoxRunOK
  <2> QED
    BY <2>1 DEF PrintOf, HandBoxes!Fingerprint
<1>3. ASSUME NEW t \in Tasks, HandBoxes!Creates(t) \/ HandBoxes!Turns(t) \/ HandBoxes!Verifies(t)
      \/ HandBoxes!AsksForChecks(t)
      PROVE  BoxesMove(p)
  <2>1. \/ AnyBoxes!Creates(t) \/ AnyBoxes!Turns(t) \/ AnyBoxes!Verifies(t)
        \/ p \notin Alone /\ AnyBoxes!AsksForChecks(t)
    BY <1>3 DEF HandBoxes!Creates, HandBoxes!Turns, HandBoxes!Verifies,
       HandBoxes!AsksForChecks, HandBoxes!Starts, HandBoxes!disk, HandBoxes!Chain,
       HandBoxes!Hand, HandBoxes!Resting, AnyBoxes!Creates, AnyBoxes!Turns,
       AnyBoxes!Verifies, AnyBoxes!AsksForChecks, AnyBoxes!Starts, AnyBoxes!disk,
       AnyBoxes!Chain, AnyBoxes!Hand, AnyBoxes!Resting, Alone
  <2> QED
    BY <2>1 DEF BoxesMove
<1>4. ASSUME NEW a \in BoxActors, HandBoxes!Resolves(a) PROVE BoxesMove(p)
  <2>2. work[a].at = "resolves" /\ UNCHANGED <<BoxDisk, snaps, boxes, sweep, sandboxCrashes,
        tested>>
    BY <1>4 DEF HandBoxes!Resolves, HandBoxes!disk, BoxDisk
  <2>3. HandBoxes!Fingerprint(work[a].task) = PrintOf(p, work[a].task)
    BY <1>2, <2>2
  <2>4. a = "chain" \/ a = "by hand"
    BY DEF BoxActors
  <2>5. work' = IF Has(snaps[PrintOf(p, work[a].task)])
                THEN [work EXCEPT ![a].at = "boots", ![a].snap = PrintOf(p, work[a].task)]
                ELSE IF a = "chain" THEN [work EXCEPT ![a].at = "builds"]
                ELSE [work EXCEPT ![a].at = "boots"]
    BY <1>1, <1>4, <2>3 DEF HandBoxes!Resolves
  <2>1. Resolved(p, a)
    BY <2>2, <2>4, <2>5 DEF Resolved
  <2> QED
    BY <2>1 DEF BoxesMove
<1>5. ASSUME NEW a \in BoxActors, HandBoxes!Builds(a) \/ HandBoxes!Snapshots(a)
      \/ HandBoxes!BuildFails(a)
      PROVE BoxesMove(p)
  <2>1. work[a].at # "rest"
    BY <1>5 DEF HandBoxes!Builds, HandBoxes!Snapshots, HandBoxes!BuildFails
  <2>2. HandBoxes!Fingerprint(work[a].task) = PrintOf(p, work[a].task)
        /\ HandBoxes!ScanBox(a) = Scanned(p, a)
    BY <1>2, <2>1 DEF HandBoxes!ScanBox, Scanned
  <2>3. Built(p, a) \/ Snapshot(p, a) \/ BuildFailed(p, a)
    <3>1. CASE HandBoxes!Builds(a)
      BY <1>1, <2>2, <3>1 DEF HandBoxes!Builds, HandBoxes!disk, Built, Scanned, BoxDisk
    <3>2. CASE HandBoxes!Snapshots(a)
      BY <1>1, <2>2, <3>2 DEF HandBoxes!Snapshots, HandBoxes!disk, Snapshot, BoxDisk
    <3>3. CASE HandBoxes!BuildFails(a)
      BY <1>1, <2>2, <3>3 DEF HandBoxes!BuildFails, HandBoxes!Rests, HandBoxes!disk,
         BuildFailed, BoxDisk
    <3> QED
      BY <1>5, <3>1, <3>2, <3>3
  <2> QED
    BY <2>3 DEF BoxesMove
<1>6. ASSUME NEW a \in BoxActors, HandBoxes!BoxIsGone(a) PROVE BoxesMove(p)
  <2>1. work[a].at # "rest"
    BY <1>6 DEF HandBoxes!BoxIsGone
  <2>2. Held(p, work[a]) = IF work[a].at = "installs" THEN HandBoxes!ScanBox(a) ELSE HandBoxes!Box(a)
    BY <1>2, <2>1 DEF HandBoxes!ScanBox, HandBoxes!Box, Held
  <2>3. Gone(p, a)
    BY <1>1, <1>6, <2>2 DEF HandBoxes!BoxIsGone, HandBoxes!Rests, HandBoxes!disk, Gone,
       BoxDisk
  <2> QED
    BY <2>3 DEF BoxesMove
<1>7. ASSUME NEW a \in BoxActors,
              HandBoxes!Purges(a) \/ HandBoxes!Boots(a) \/ HandBoxes!CannotBoot(a)
                  \/ HandBoxes!CopiesIn(a)
      PROVE  BoxesMove(p)
  <2>1. AnyBoxes!Purges(a) \/ AnyBoxes!Boots(a) \/ AnyBoxes!CannotBoot(a) \/ AnyBoxes!CopiesIn(a)
    BY <1>7 DEF HandBoxes!Purges, HandBoxes!Boots, HandBoxes!CannotBoot, HandBoxes!CopiesIn,
       HandBoxes!Becomes, HandBoxes!Rests, HandBoxes!disk, HandBoxes!There,
       HandBoxes!NoFiles, HandBoxes!Box, HandBoxes!Resting, HandBoxes!Kept,
       HandBoxes!Fingerprints, AnyBoxes!Purges, AnyBoxes!Boots, AnyBoxes!CannotBoot,
       AnyBoxes!CopiesIn, AnyBoxes!Becomes, AnyBoxes!Rests, AnyBoxes!disk, AnyBoxes!There,
       AnyBoxes!NoFiles, AnyBoxes!Box, AnyBoxes!Resting, AnyBoxes!Kept,
       AnyBoxes!Fingerprints
  <2> QED
    BY <2>1 DEF BoxesMove
<1>8. ASSUME NEW a \in BoxActors,
              HandBoxes!Tests(a) \/ HandBoxes!CopiesOut(a) \/ HandBoxes!CannotCopyOut(a)
                  \/ HandBoxes!Finishes(a)
      PROVE  BoxesMove(p)
  <2>1. AnyBoxes!Tests(a) \/ AnyBoxes!CopiesOut(a) \/ AnyBoxes!CannotCopyOut(a)
        \/ AnyBoxes!Finishes(a)
    BY <1>8 DEF HandBoxes!Tests, HandBoxes!CopiesOut, HandBoxes!CannotCopyOut,
       HandBoxes!Finishes, HandBoxes!Becomes, HandBoxes!Rests, HandBoxes!disk,
       HandBoxes!There, HandBoxes!NoFiles, HandBoxes!Box, HandBoxes!Resting, AnyBoxes!Tests,
       AnyBoxes!CopiesOut, AnyBoxes!CannotCopyOut, AnyBoxes!Finishes, AnyBoxes!Becomes,
       AnyBoxes!Rests, AnyBoxes!disk, AnyBoxes!There, AnyBoxes!NoFiles, AnyBoxes!Box,
       AnyBoxes!Resting
  <2> QED
    BY <2>1 DEF BoxesMove
<1>9. ASSUME HandBoxes!AgentWorks \/ HandBoxes!AgentDies PROVE BoxesMove(p)
  <2>1. AnyBoxes!AgentWorks \/ AnyBoxes!AgentDies
    BY <1>9 DEF HandBoxes!AgentWorks, HandBoxes!AgentDies, HandBoxes!Becomes,
       HandBoxes!disk, HandBoxes!There, HandBoxes!NoFiles, HandBoxes!Box, HandBoxes!Chain,
       HandBoxes!Base, AnyBoxes!AgentWorks, AnyBoxes!AgentDies, AnyBoxes!Becomes,
       AnyBoxes!disk, AnyBoxes!There, AnyBoxes!NoFiles, AnyBoxes!Box, AnyBoxes!Chain,
       AnyBoxes!Base
  <2> QED
    BY <2>1 DEF BoxesMove
<1>10. ASSUME HandBoxes!Crash PROVE BoxesMove(p)
  <2>1. sweep' = [on |-> FALSE, claimed |-> recorded, listed |-> {}]
    BY <1>10 DEF HandBoxes!Crash, HandBoxes!NoSweep
  <2>2. Crashed(p)
    BY <1>1, <1>10, <2>1 DEF HandBoxes!Crash, HandBoxes!disk, Crashed, BoxDisk, Unswept
  <2> QED
    BY <2>2 DEF BoxesMove
<1>11. ASSUME HandBoxes!Lists PROVE BoxesMove(p)
  <2>1. AnyBoxes!Lists
    BY <1>11 DEF HandBoxes!Lists, HandBoxes!disk, HandBoxes!There, HandBoxes!NoFiles,
       HandBoxes!Names, HandBoxes!Fingerprints, AnyBoxes!Lists, AnyBoxes!disk,
       AnyBoxes!There, AnyBoxes!NoFiles, AnyBoxes!Names, AnyBoxes!Fingerprints
  <2> QED
    BY <2>1 DEF BoxesMove
<1>12. ASSUME NEW n \in BoxNames, HandBoxes!Sweeps1(n) PROVE BoxesMove(p)
  <2>1. AnyBoxes!Sweeps1(n)
    BY <1>12 DEF HandBoxes!Sweeps1, HandBoxes!disk, HandBoxes!Claimed, HandBoxes!TaskOf,
       HandBoxes!NoFiles, AnyBoxes!Sweeps1, AnyBoxes!disk, AnyBoxes!Claimed,
       AnyBoxes!TaskOf, AnyBoxes!NoFiles
  <2> QED
    BY <2>1 DEF BoxesMove
<1> QED
  BY <1>1, <1>3, <1>4, <1>5, <1>6, <1>7, <1>8, <1>9, <1>10, <1>11, <1>12 DEF HandBoxes!Next

\* The boxes whose tasks each have a snapshot are such boxes.
LEMMA ApartBoxesAreBoxes ==
  ASSUME BoxInv("boxes apart"), ApartBoxes!Next PROVE BoxesMove("boxes apart")
<1> DEFINE p == "boxes apart"
<1>1. /\ ApartBoxes!Actors = BoxActors /\ ApartBoxes!Names = BoxNames
         /\ ApartBoxes!NoFiles = {"none"}
      /\ ApartBoxes!Resting = AtRest /\ ApartBoxes!Chain = "chain" /\ ApartBoxes!Hand = "by hand"
      /\ \A c : ApartBoxes!There(c) <=> Has(c)
  BY DEF ApartBoxes!Actors, ApartBoxes!Names, ApartBoxes!NoFiles, ApartBoxes!Resting,
     ApartBoxes!Chain, ApartBoxes!Hand, ApartBoxes!Fingerprints, ApartBoxes!There, BoxActors,
     BoxNames, RunNames, Prints, AtRest, Has
<1>2. ASSUME NEW a \in BoxActors, work[a].at # "rest"
      PROVE  ApartBoxes!Fingerprint(work[a].task) = PrintOf(p, work[a].task)
  BY DEF ApartBoxes!Fingerprint, PrintOf
<1>3. ASSUME NEW t \in Tasks, ApartBoxes!Creates(t) \/ ApartBoxes!Turns(t)
      \/ ApartBoxes!Verifies(t) \/ ApartBoxes!AsksForChecks(t)
      PROVE  BoxesMove(p)
  <2>1. \/ AnyBoxes!Creates(t) \/ AnyBoxes!Turns(t) \/ AnyBoxes!Verifies(t)
        \/ p \notin Alone /\ AnyBoxes!AsksForChecks(t)
    BY <1>3 DEF ApartBoxes!Creates, ApartBoxes!Turns, ApartBoxes!Verifies,
       ApartBoxes!AsksForChecks, ApartBoxes!Starts, ApartBoxes!disk, ApartBoxes!Chain,
       ApartBoxes!Hand, ApartBoxes!Resting, AnyBoxes!Creates, AnyBoxes!Turns,
       AnyBoxes!Verifies, AnyBoxes!AsksForChecks, AnyBoxes!Starts, AnyBoxes!disk,
       AnyBoxes!Chain, AnyBoxes!Hand, AnyBoxes!Resting, Alone
  <2> QED
    BY <2>1 DEF BoxesMove
<1>4. ASSUME NEW a \in BoxActors, ApartBoxes!Resolves(a) PROVE BoxesMove(p)
  <2>2. work[a].at = "resolves" /\ UNCHANGED <<BoxDisk, snaps, boxes, sweep, sandboxCrashes,
        tested>>
    BY <1>4 DEF ApartBoxes!Resolves, ApartBoxes!disk, BoxDisk
  <2>3. ApartBoxes!Fingerprint(work[a].task) = PrintOf(p, work[a].task)
    BY <1>2, <2>2
  <2>4. a = "chain" \/ a = "by hand"
    BY DEF BoxActors
  <2>5. work' = IF Has(snaps[PrintOf(p, work[a].task)])
                THEN [work EXCEPT ![a].at = "boots", ![a].snap = PrintOf(p, work[a].task)]
                ELSE IF a = "chain" THEN [work EXCEPT ![a].at = "builds"]
                ELSE [work EXCEPT ![a].at = "boots"]
    BY <1>1, <1>4, <2>3 DEF ApartBoxes!Resolves
  <2>1. Resolved(p, a)
    BY <2>2, <2>4, <2>5 DEF Resolved
  <2> QED
    BY <2>1 DEF BoxesMove
<1>5. ASSUME NEW a \in BoxActors, ApartBoxes!Builds(a) \/ ApartBoxes!Snapshots(a)
      \/ ApartBoxes!BuildFails(a)
      PROVE BoxesMove(p)
  <2>1. work[a].at # "rest"
    BY <1>5 DEF ApartBoxes!Builds, ApartBoxes!Snapshots, ApartBoxes!BuildFails
  <2>2. ApartBoxes!Fingerprint(work[a].task) = PrintOf(p, work[a].task)
        /\ ApartBoxes!ScanBox(a) = Scanned(p, a)
    BY <1>2, <2>1 DEF ApartBoxes!ScanBox, Scanned
  <2>3. Built(p, a) \/ Snapshot(p, a) \/ BuildFailed(p, a)
    <3>1. CASE ApartBoxes!Builds(a)
      BY <1>1, <2>2, <3>1 DEF ApartBoxes!Builds, ApartBoxes!disk, Built, Scanned, BoxDisk
    <3>2. CASE ApartBoxes!Snapshots(a)
      BY <1>1, <2>2, <3>2 DEF ApartBoxes!Snapshots, ApartBoxes!disk, Snapshot, BoxDisk
    <3>3. CASE ApartBoxes!BuildFails(a)
      BY <1>1, <2>2, <3>3 DEF ApartBoxes!BuildFails, ApartBoxes!Rests, ApartBoxes!disk,
         BuildFailed, BoxDisk
    <3> QED
      BY <1>5, <3>1, <3>2, <3>3
  <2> QED
    BY <2>3 DEF BoxesMove
<1>6. ASSUME NEW a \in BoxActors, ApartBoxes!BoxIsGone(a) PROVE BoxesMove(p)
  <2>1. work[a].at # "rest"
    BY <1>6 DEF ApartBoxes!BoxIsGone
  <2>2. Held(p, work[a]) = IF work[a].at = "installs" THEN ApartBoxes!ScanBox(a) ELSE ApartBoxes!Box(a)
    BY <1>2, <2>1 DEF ApartBoxes!ScanBox, ApartBoxes!Box, Held
  <2>3. Gone(p, a)
    BY <1>1, <1>6, <2>2 DEF ApartBoxes!BoxIsGone, ApartBoxes!Rests, ApartBoxes!disk, Gone,
       BoxDisk
  <2> QED
    BY <2>3 DEF BoxesMove
<1>7. ASSUME NEW a \in BoxActors,
              ApartBoxes!Purges(a) \/ ApartBoxes!Boots(a) \/ ApartBoxes!CannotBoot(a)
                  \/ ApartBoxes!CopiesIn(a)
      PROVE  BoxesMove(p)
  <2>1. AnyBoxes!Purges(a) \/ AnyBoxes!Boots(a) \/ AnyBoxes!CannotBoot(a) \/ AnyBoxes!CopiesIn(a)
    BY <1>7 DEF ApartBoxes!Purges, ApartBoxes!Boots, ApartBoxes!CannotBoot,
       ApartBoxes!CopiesIn, ApartBoxes!Becomes, ApartBoxes!Rests, ApartBoxes!disk,
       ApartBoxes!There, ApartBoxes!NoFiles, ApartBoxes!Box, ApartBoxes!Resting,
       ApartBoxes!Kept, ApartBoxes!Fingerprints, AnyBoxes!Purges, AnyBoxes!Boots,
       AnyBoxes!CannotBoot, AnyBoxes!CopiesIn, AnyBoxes!Becomes, AnyBoxes!Rests,
       AnyBoxes!disk, AnyBoxes!There, AnyBoxes!NoFiles, AnyBoxes!Box, AnyBoxes!Resting,
       AnyBoxes!Kept, AnyBoxes!Fingerprints
  <2> QED
    BY <2>1 DEF BoxesMove
<1>8. ASSUME NEW a \in BoxActors,
              ApartBoxes!Tests(a) \/ ApartBoxes!CopiesOut(a) \/ ApartBoxes!CannotCopyOut(a)
                  \/ ApartBoxes!Finishes(a)
      PROVE  BoxesMove(p)
  <2>1. AnyBoxes!Tests(a) \/ AnyBoxes!CopiesOut(a) \/ AnyBoxes!CannotCopyOut(a)
        \/ AnyBoxes!Finishes(a)
    BY <1>8 DEF ApartBoxes!Tests, ApartBoxes!CopiesOut, ApartBoxes!CannotCopyOut,
       ApartBoxes!Finishes, ApartBoxes!Becomes, ApartBoxes!Rests, ApartBoxes!disk,
       ApartBoxes!There, ApartBoxes!NoFiles, ApartBoxes!Box, ApartBoxes!Resting,
       AnyBoxes!Tests, AnyBoxes!CopiesOut, AnyBoxes!CannotCopyOut, AnyBoxes!Finishes,
       AnyBoxes!Becomes, AnyBoxes!Rests, AnyBoxes!disk, AnyBoxes!There, AnyBoxes!NoFiles,
       AnyBoxes!Box, AnyBoxes!Resting
  <2> QED
    BY <2>1 DEF BoxesMove
<1>9. ASSUME ApartBoxes!AgentWorks \/ ApartBoxes!AgentDies PROVE BoxesMove(p)
  <2>1. AnyBoxes!AgentWorks \/ AnyBoxes!AgentDies
    BY <1>9 DEF ApartBoxes!AgentWorks, ApartBoxes!AgentDies, ApartBoxes!Becomes,
       ApartBoxes!disk, ApartBoxes!There, ApartBoxes!NoFiles, ApartBoxes!Box,
       ApartBoxes!Chain, ApartBoxes!Base, AnyBoxes!AgentWorks, AnyBoxes!AgentDies,
       AnyBoxes!Becomes, AnyBoxes!disk, AnyBoxes!There, AnyBoxes!NoFiles, AnyBoxes!Box,
       AnyBoxes!Chain, AnyBoxes!Base
  <2> QED
    BY <2>1 DEF BoxesMove
<1>10. ASSUME ApartBoxes!Crash PROVE BoxesMove(p)
  <2>1. sweep' = [on |-> FALSE, claimed |-> recorded, listed |-> {}]
    BY <1>10 DEF ApartBoxes!Crash, ApartBoxes!NoSweep
  <2>2. Crashed(p)
    BY <1>1, <1>10, <2>1 DEF ApartBoxes!Crash, ApartBoxes!disk, Crashed, BoxDisk, Unswept
  <2> QED
    BY <2>2 DEF BoxesMove
<1>11. ASSUME ApartBoxes!Lists PROVE BoxesMove(p)
  <2>1. AnyBoxes!Lists
    BY <1>11 DEF ApartBoxes!Lists, ApartBoxes!disk, ApartBoxes!There, ApartBoxes!NoFiles,
       ApartBoxes!Names, ApartBoxes!Fingerprints, AnyBoxes!Lists, AnyBoxes!disk,
       AnyBoxes!There, AnyBoxes!NoFiles, AnyBoxes!Names, AnyBoxes!Fingerprints
  <2> QED
    BY <2>1 DEF BoxesMove
<1>12. ASSUME NEW n \in BoxNames, ApartBoxes!Sweeps1(n) PROVE BoxesMove(p)
  <2>1. AnyBoxes!Sweeps1(n)
    BY <1>12 DEF ApartBoxes!Sweeps1, ApartBoxes!disk, ApartBoxes!Claimed, ApartBoxes!TaskOf,
       ApartBoxes!NoFiles, AnyBoxes!Sweeps1, AnyBoxes!disk, AnyBoxes!Claimed,
       AnyBoxes!TaskOf, AnyBoxes!NoFiles
  <2> QED
    BY <2>1 DEF BoxesMove
<1> QED
  BY <1>1, <1>3, <1>4, <1>5, <1>6, <1>7, <1>8, <1>9, <1>10, <1>11, <1>12 DEF ApartBoxes!Next

\* The boxes beside a sweep are such boxes.
LEMMA SweptBoxesAreBoxes ==
  ASSUME BoxInv("boxes swept"), SweptBoxes!Next PROVE BoxesMove("boxes swept")
<1> DEFINE p == "boxes swept"
<1>1. /\ SweptBoxes!Actors = BoxActors /\ SweptBoxes!Names = BoxNames
         /\ SweptBoxes!NoFiles = {"none"}
      /\ SweptBoxes!Resting = AtRest /\ SweptBoxes!Chain = "chain" /\ SweptBoxes!Hand = "by hand"
      /\ \A c : SweptBoxes!There(c) <=> Has(c)
  BY DEF SweptBoxes!Actors, SweptBoxes!Names, SweptBoxes!NoFiles, SweptBoxes!Resting,
     SweptBoxes!Chain, SweptBoxes!Hand, SweptBoxes!Fingerprints, SweptBoxes!There, BoxActors,
     BoxNames, RunNames, Prints, AtRest, Has
<1>2. ASSUME NEW a \in BoxActors, work[a].at # "rest"
      PROVE  SweptBoxes!Fingerprint(work[a].task) = PrintOf(p, work[a].task)
  BY DEF SweptBoxes!Fingerprint, PrintOf
<1>3. ASSUME NEW t \in Tasks, SweptBoxes!Creates(t) \/ SweptBoxes!Turns(t)
      \/ SweptBoxes!Verifies(t) \/ SweptBoxes!AsksForChecks(t)
      PROVE  BoxesMove(p)
  <2>1. \/ AnyBoxes!Creates(t) \/ AnyBoxes!Turns(t) \/ AnyBoxes!Verifies(t)
        \/ p \notin Alone /\ AnyBoxes!AsksForChecks(t)
    BY <1>3 DEF SweptBoxes!Creates, SweptBoxes!Turns, SweptBoxes!Verifies,
       SweptBoxes!AsksForChecks, SweptBoxes!Starts, SweptBoxes!disk, SweptBoxes!Chain,
       SweptBoxes!Hand, SweptBoxes!Resting, AnyBoxes!Creates, AnyBoxes!Turns,
       AnyBoxes!Verifies, AnyBoxes!AsksForChecks, AnyBoxes!Starts, AnyBoxes!disk,
       AnyBoxes!Chain, AnyBoxes!Hand, AnyBoxes!Resting, Alone
  <2> QED
    BY <2>1 DEF BoxesMove
<1>4. ASSUME NEW a \in BoxActors, SweptBoxes!Resolves(a) PROVE BoxesMove(p)
  <2>2. work[a].at = "resolves" /\ UNCHANGED <<BoxDisk, snaps, boxes, sweep, sandboxCrashes,
        tested>>
    BY <1>4 DEF SweptBoxes!Resolves, SweptBoxes!disk, BoxDisk
  <2>3. SweptBoxes!Fingerprint(work[a].task) = PrintOf(p, work[a].task)
    BY <1>2, <2>2
  <2>4. a = "chain" \/ a = "by hand"
    BY DEF BoxActors
  <2>5. work' = IF Has(snaps[PrintOf(p, work[a].task)])
                THEN [work EXCEPT ![a].at = "boots", ![a].snap = PrintOf(p, work[a].task)]
                ELSE IF a = "chain" THEN [work EXCEPT ![a].at = "builds"]
                ELSE [work EXCEPT ![a].at = "boots"]
    BY <1>1, <1>4, <2>3 DEF SweptBoxes!Resolves
  <2>1. Resolved(p, a)
    BY <2>2, <2>4, <2>5 DEF Resolved
  <2> QED
    BY <2>1 DEF BoxesMove
<1>5. ASSUME NEW a \in BoxActors, SweptBoxes!Builds(a) \/ SweptBoxes!Snapshots(a)
      \/ SweptBoxes!BuildFails(a)
      PROVE BoxesMove(p)
  <2>1. work[a].at # "rest"
    BY <1>5 DEF SweptBoxes!Builds, SweptBoxes!Snapshots, SweptBoxes!BuildFails
  <2>2. SweptBoxes!Fingerprint(work[a].task) = PrintOf(p, work[a].task)
        /\ SweptBoxes!ScanBox(a) = Scanned(p, a)
    BY <1>2, <2>1 DEF SweptBoxes!ScanBox, Scanned
  <2>3. Built(p, a) \/ Snapshot(p, a) \/ BuildFailed(p, a)
    <3>1. CASE SweptBoxes!Builds(a)
      BY <1>1, <2>2, <3>1 DEF SweptBoxes!Builds, SweptBoxes!disk, Built, Scanned, BoxDisk
    <3>2. CASE SweptBoxes!Snapshots(a)
      BY <1>1, <2>2, <3>2 DEF SweptBoxes!Snapshots, SweptBoxes!disk, Snapshot, BoxDisk
    <3>3. CASE SweptBoxes!BuildFails(a)
      BY <1>1, <2>2, <3>3 DEF SweptBoxes!BuildFails, SweptBoxes!Rests, SweptBoxes!disk,
         BuildFailed, BoxDisk
    <3> QED
      BY <1>5, <3>1, <3>2, <3>3
  <2> QED
    BY <2>3 DEF BoxesMove
<1>6. ASSUME NEW a \in BoxActors, SweptBoxes!BoxIsGone(a) PROVE BoxesMove(p)
  <2>1. work[a].at # "rest"
    BY <1>6 DEF SweptBoxes!BoxIsGone
  <2>2. Held(p, work[a]) = IF work[a].at = "installs" THEN SweptBoxes!ScanBox(a) ELSE SweptBoxes!Box(a)
    BY <1>2, <2>1 DEF SweptBoxes!ScanBox, SweptBoxes!Box, Held
  <2>3. Gone(p, a)
    BY <1>1, <1>6, <2>2 DEF SweptBoxes!BoxIsGone, SweptBoxes!Rests, SweptBoxes!disk, Gone,
       BoxDisk
  <2> QED
    BY <2>3 DEF BoxesMove
<1>7. ASSUME NEW a \in BoxActors,
              SweptBoxes!Purges(a) \/ SweptBoxes!Boots(a) \/ SweptBoxes!CannotBoot(a)
                  \/ SweptBoxes!CopiesIn(a)
      PROVE  BoxesMove(p)
  <2>1. AnyBoxes!Purges(a) \/ AnyBoxes!Boots(a) \/ AnyBoxes!CannotBoot(a) \/ AnyBoxes!CopiesIn(a)
    BY <1>7 DEF SweptBoxes!Purges, SweptBoxes!Boots, SweptBoxes!CannotBoot,
       SweptBoxes!CopiesIn, SweptBoxes!Becomes, SweptBoxes!Rests, SweptBoxes!disk,
       SweptBoxes!There, SweptBoxes!NoFiles, SweptBoxes!Box, SweptBoxes!Resting,
       SweptBoxes!Kept, SweptBoxes!Fingerprints, AnyBoxes!Purges, AnyBoxes!Boots,
       AnyBoxes!CannotBoot, AnyBoxes!CopiesIn, AnyBoxes!Becomes, AnyBoxes!Rests,
       AnyBoxes!disk, AnyBoxes!There, AnyBoxes!NoFiles, AnyBoxes!Box, AnyBoxes!Resting,
       AnyBoxes!Kept, AnyBoxes!Fingerprints
  <2> QED
    BY <2>1 DEF BoxesMove
<1>8. ASSUME NEW a \in BoxActors,
              SweptBoxes!Tests(a) \/ SweptBoxes!CopiesOut(a) \/ SweptBoxes!CannotCopyOut(a)
                  \/ SweptBoxes!Finishes(a)
      PROVE  BoxesMove(p)
  <2>1. AnyBoxes!Tests(a) \/ AnyBoxes!CopiesOut(a) \/ AnyBoxes!CannotCopyOut(a)
        \/ AnyBoxes!Finishes(a)
    BY <1>8 DEF SweptBoxes!Tests, SweptBoxes!CopiesOut, SweptBoxes!CannotCopyOut,
       SweptBoxes!Finishes, SweptBoxes!Becomes, SweptBoxes!Rests, SweptBoxes!disk,
       SweptBoxes!There, SweptBoxes!NoFiles, SweptBoxes!Box, SweptBoxes!Resting,
       AnyBoxes!Tests, AnyBoxes!CopiesOut, AnyBoxes!CannotCopyOut, AnyBoxes!Finishes,
       AnyBoxes!Becomes, AnyBoxes!Rests, AnyBoxes!disk, AnyBoxes!There, AnyBoxes!NoFiles,
       AnyBoxes!Box, AnyBoxes!Resting
  <2> QED
    BY <2>1 DEF BoxesMove
<1>9. ASSUME SweptBoxes!AgentWorks \/ SweptBoxes!AgentDies PROVE BoxesMove(p)
  <2>1. AnyBoxes!AgentWorks \/ AnyBoxes!AgentDies
    BY <1>9 DEF SweptBoxes!AgentWorks, SweptBoxes!AgentDies, SweptBoxes!Becomes,
       SweptBoxes!disk, SweptBoxes!There, SweptBoxes!NoFiles, SweptBoxes!Box,
       SweptBoxes!Chain, SweptBoxes!Base, AnyBoxes!AgentWorks, AnyBoxes!AgentDies,
       AnyBoxes!Becomes, AnyBoxes!disk, AnyBoxes!There, AnyBoxes!NoFiles, AnyBoxes!Box,
       AnyBoxes!Chain, AnyBoxes!Base
  <2> QED
    BY <2>1 DEF BoxesMove
<1>10. ASSUME SweptBoxes!Crash PROVE BoxesMove(p)
  <2>1. sweep' = [on |-> TRUE, claimed |-> recorded, listed |-> {}]
    BY <1>10 DEF SweptBoxes!Crash, SweptBoxes!NoSweep
  <2>2. Crashed(p)
    BY <1>1, <1>10, <2>1 DEF SweptBoxes!Crash, SweptBoxes!disk, Crashed, BoxDisk, Unswept
  <2> QED
    BY <2>2 DEF BoxesMove
<1>11. ASSUME SweptBoxes!Lists PROVE BoxesMove(p)
  <2>1. AnyBoxes!Lists
    BY <1>11 DEF SweptBoxes!Lists, SweptBoxes!disk, SweptBoxes!There, SweptBoxes!NoFiles,
       SweptBoxes!Names, SweptBoxes!Fingerprints, AnyBoxes!Lists, AnyBoxes!disk,
       AnyBoxes!There, AnyBoxes!NoFiles, AnyBoxes!Names, AnyBoxes!Fingerprints
  <2> QED
    BY <2>1 DEF BoxesMove
<1>12. ASSUME NEW n \in BoxNames, SweptBoxes!Sweeps1(n) PROVE BoxesMove(p)
  <2>1. AnyBoxes!Sweeps1(n)
    BY <1>12 DEF SweptBoxes!Sweeps1, SweptBoxes!disk, SweptBoxes!Claimed, SweptBoxes!TaskOf,
       SweptBoxes!NoFiles, AnyBoxes!Sweeps1, AnyBoxes!disk, AnyBoxes!Claimed,
       AnyBoxes!TaskOf, AnyBoxes!NoFiles
  <2> QED
    BY <2>1 DEF BoxesMove
<1> QED
  BY <1>1, <1>3, <1>4, <1>5, <1>6, <1>7, <1>8, <1>9, <1>10, <1>11, <1>12 DEF SweptBoxes!Next

(* What runs and judges a turn *)

\* Each part has what its component's invariant says.
RunsInv ==
  /\ part \in {"runbook", "runbook shared"} => BookInv
  /\ part = "runbook" => SerialInv
  /\ part = "runbook shared" => runbookRuns["scan"] = BookIdle
  /\ \A p \in BoxParts : part = p => BoxInv(p)

\* A step of the part that moves.
LEMMA RunsStep == RunsInv /\ [TaskNext]_taskVars => RunsInv'
<1> SUFFICES ASSUME RunsInv, [TaskNext]_taskVars PROVE RunsInv'
  OBVIOUS
<1>1. /\ Book!ParametersAreSound /\ SharedBook!ParametersAreSound /\ Boxes!ParametersAreSound
  BY PartsAreSound
<1>2. CASE UNCHANGED taskVars
  <2>1. UNCHANGED part /\ UNCHANGED bookVars /\ UNCHANGED boxesVars
    BY <1>2 DEF taskVars
  <2>2. SerialInv => SerialInv'
    <3>1. UNCHANGED Book!vars
      BY <2>1 DEF bookVars, Book!vars
    <3> QED
      BY <1>1, <3>1, SerialStep
  <2>3. BookInv => BookInv'
    <3>1. UNCHANGED AnyBook!vars
      BY <2>1 DEF bookVars, AnyBook!vars
    <3> QED
      BY <1>1, <3>1, BookStep
  <2>4. ASSUME NEW p \in BoxParts, BoxInv(p) PROVE BoxInv(p)'
    BY <2>1, <2>4 DEF boxesVars, BoxInv, BoxTyped, BoxRunsOK, OwnFiles, ApartFiles, SharedFiles,
       CommitFiles
  <2> QED
    BY <2>1, <2>2, <2>3, <2>4 DEF RunsInv, bookVars
<1>3. ASSUME TaskNext PROVE RunsInv'
  <2>1. part' = part
    BY <1>3 DEF TaskNext
  <2>2. ASSUME part = "runbook" PROVE RunsInv'
    <3>1. Book!Next /\ SerialInv
      BY <1>3, <2>2 DEF TaskNext, RunsInv
    <3>2. SerialInv'
      BY <1>1, <3>1, SerialStep
    <3> QED
      BY <2>1, <2>2, <3>2 DEF RunsInv, SerialInv, BoxParts
  <2>3. ASSUME part = "runbook shared" PROVE RunsInv'
    <3>1. SharedBook!Next /\ BookInv /\ runbookRuns["scan"] = BookIdle
      BY <1>3, <2>3 DEF TaskNext, RunsInv
    <3>2. [AnyBook!Next]_(AnyBook!vars) /\ runbookRuns'["scan"] = BookIdle
      BY <3>1, SharedIsAny
    <3>3. BookInv'
      BY <1>1, <3>1, <3>2, BookStep
    <3> QED
      BY <2>1, <2>3, <3>2, <3>3 DEF RunsInv, BoxParts
  <2>4. ASSUME NEW p \in BoxParts, part = p PROVE RunsInv'
    <3>1. BoxInv(p)
      BY <2>4 DEF RunsInv
    <3>2. BoxesMove(p)
      <4>1. CASE p = "boxes"
        BY <1>3, <2>4, <3>1, <4>1, BoxesAreBoxes DEF TaskNext
      <4>2. CASE p = "boxes cold"
        BY <1>3, <2>4, <3>1, <4>2, ColdBoxesAreBoxes DEF TaskNext
      <4>3. CASE p = "boxes by hand"
        BY <1>3, <2>4, <3>1, <4>3, HandBoxesAreBoxes DEF TaskNext
      <4>4. CASE p = "boxes apart"
        BY <1>3, <2>4, <3>1, <4>4, ApartBoxesAreBoxes DEF TaskNext
      <4>5. CASE p = "boxes swept"
        BY <1>3, <2>4, <3>1, <4>5, SweptBoxesAreBoxes DEF TaskNext
      <4> QED
        BY <4>1, <4>2, <4>3, <4>4, <4>5 DEF BoxParts
    <3>3. BoxInv(p)'
      BY <1>1, <3>1, <3>2, BoxesStep
    <3>4. part \notin {"runbook", "runbook shared"}
      BY <2>4 DEF BoxParts
    <3> QED
      BY <2>1, <2>4, <3>3, <3>4 DEF RunsInv
  <2>5. ASSUME part \notin BoxParts \union {"runbook", "runbook shared"} PROVE RunsInv'
    BY <2>1, <2>5 DEF RunsInv
  <2> QED
    BY <2>2, <2>3, <2>4, <2>5
<1> QED
  BY <1>2, <1>3

\* A verification runs by a runbook that passed over the same files, which the hub
\* heard of from the daemon that holds its lease; and a run's box holds that commit
\* and nothing of another task's, is destroyed by nobody else, and does not outlive
\* it: for any tasks, runbooks, versions, turns and crashes.
THEOREM RunsNameTheirGrounds == TaskSpec => []RunsAreOverWhatTheyName
<1>0. /\ Book!ParametersAreSound /\ SharedBook!ParametersAreSound /\ Boxes!ParametersAreSound
  BY PartsAreSound
<1>1. TaskInit => RunsInv
  <2> SUFFICES ASSUME TaskInit PROVE RunsInv
    OBVIOUS
  <2>1. SerialInv /\ BookInv /\ \A p \in BoxParts : BoxInv(p)
    BY <1>0, SerialInit, BookInit, BoxesInit DEF TaskInit
  <2>2. runbookRuns["scan"] = BookIdle
    BY DEF TaskInit, Book!Init, Book!Resting, Book!Processes, BookIdle
  <2> QED
    BY <2>1, <2>2 DEF RunsInv
<1>2. RunsInv => RunsAreOverWhatTheyName
  <2> SUFFICES ASSUME RunsInv PROVE RunsAreOverWhatTheyName
    OBVIOUS
  <2>1. part = "runbook" => Book!TypeOK /\ Book!FilesAgree /\ Book!LeaseIsHeld
        /\ Book!AnswerIsTheHolders
    BY <1>0, SerialSays DEF RunsInv
  <2>2. part \in {"runbook", "runbook shared"} => Book!VerifiedByWhatPassed
    BY DEF RunsInv, BookInv
  <2>3. ASSUME NEW p \in BoxParts, part = p
        PROVE  /\ Boxes!TypeOK /\ Boxes!TreesAreTheirOwn /\ Boxes!NoBoxIsLeft
               /\ p \in Alone => Boxes!TestedIsTheCommit /\ Boxes!ReadyIsThere
               /\ p \in {"boxes", "boxes cold", "boxes apart"} => Boxes!RunsKeepTheirBox
               /\ p = "boxes by hand" => HandBoxes!RunsKeepTheirBox /\ HandBoxes!ReadyIsThere
    BY <1>0, <2>3, BoxesSay DEF RunsInv
  <2>4. Boxes!TreesAreTheirOwn => HandBoxes!TreesAreTheirOwn
    BY DEF Boxes!TreesAreTheirOwn, HandBoxes!TreesAreTheirOwn, Boxes!Base, HandBoxes!Base
  <2> QED
    BY <2>1, <2>2, <2>3, <2>4 DEF RunsAreOverWhatTheyName, BoxParts, Alone
<1> QED
  BY <1>1, <1>2, RunsStep, PTL DEF TaskSpec

\* The files of a runbook agree once its runs rest, a daemon that believes that it holds
\* the hub's lease does, and the hub's answer is its holder's (runbook-runner.ts).
THEOREM ScansAreAnswered ==
  Book!Spec => [](Book!FilesAgree /\ Book!LeaseIsHeld /\ Book!AnswerIsTheHolders)
<1>0. Book!ParametersAreSound
  BY PartsAreSound
<1>1. SerialInv /\ [Book!Next]_(Book!vars) => SerialInv'
  BY <1>0, SerialStep
<1>2. Book!Init => SerialInv
  BY <1>0, SerialInit
<1>3. SerialInv => Book!FilesAgree /\ Book!LeaseIsHeld /\ Book!AnswerIsTheHolders
  BY <1>0, SerialSays
<1> QED
  BY <1>1, <1>2, <1>3, PTL DEF Book!Spec

\* Whatever validations run beside the daemon's scan, and wherever they die, a
\* verification runs by a runbook that passed over the files of its commit
\* (runbook-runner.ts, microvm-turn.ts).
THEOREM OnlyWhatPassedVerifies ==
  Book!Init /\ [][SharedBook!Next]_(SharedBook!vars) => []SharedBook!VerifiedByWhatPassed
<1>0. Book!ParametersAreSound /\ SharedBook!ParametersAreSound
  BY PartsAreSound
<1> DEFINE I == BookInv /\ runbookRuns["scan"] = BookIdle
<1>1. I /\ [SharedBook!Next]_(SharedBook!vars) => I'
  BY <1>0, SharedIsAny, BookStep
<1>2. Book!Init => I
  <2> SUFFICES ASSUME Book!Init PROVE I
    OBVIOUS
  <2>1. runbookRuns["scan"] = BookIdle
    BY DEF Book!Init, Book!Resting, Book!Processes, BookIdle
  <2> QED
    BY <1>0, <2>1, BookInit
<1>3. I => SharedBook!VerifiedByWhatPassed
  BY DEF BookInv, Book!VerifiedByWhatPassed, SharedBook!VerifiedByWhatPassed
<1> QED
  BY <1>1, <1>2, <1>3, PTL
=============================================================================
