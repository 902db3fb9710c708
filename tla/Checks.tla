------------------------------- MODULE Checks -------------------------------
(***************************************************************************)
(* The checks runs of one task: at the end of a turn and by hand, with the *)
(* file that tells of them, the worktree they run in, the captures that    *)
(* follow them, and what the gates and the automatic merge read of it all. *)
(* A tree is the set of the turns whose work it holds.                     *)
(***************************************************************************)
EXTENDS Naturals, Sequences

CONSTANTS
  MaxTurns,  \* a bound
  Persons,   \* somebody asks for a run by hand, at any time
  MicroVm,   \* the task runs in a micro-VM: trees are copied in and back
  Refuses,   \* a write of checks.json may be refused
  Ends       \* how the process may end: "drain", "crash"

ParametersAreSound ==
  /\ MaxTurns \in Nat /\ {Persons, MicroVm, Refuses} \subseteq BOOLEAN
  /\ Ends \subseteq {"drain", "crash"}

VARIABLES
  stage,     \* where the turn and its hook stand
  turn,      \* the number of turns
  tree,      \* the worktree
  commits,   \* the trees of the branch's commits, the base first
  told,      \* the turn of the last 'commit' event
  file,      \* checks.json: [status, head]; `pure' if the tree was that head's
  job,       \* the run that has the claim `checking'
  gate,      \* what gateChecks came to
  incoming,  \* evidence/.incoming: the turns its captures were taken in
  items,     \* evidence.json's items: [turn, of]
  up, shut,  \* the process; its shutdown signal
  excuse,    \* what kept the last commit from a run of its own
  merged     \* the automatic merge: what it merged, and the head its checks name

vars == <<stage, turn, tree, commits, told, file, job, gate, incoming, items, up,
          shut, excuse, merged>>

hook == <<stage, gate, incoming, items, excuse, merged>>
branch == <<turn, tree, commits, told>>

Finals == {"passed", "failed", "error"}
NoFile == [status |-> "none", head |-> 0, pure |-> FALSE]
NoJob == [by |-> "nobody", stage |-> "none", head |-> 0, before |-> NoFile,
          box |-> {}, pure |-> FALSE]
head == Len(commits)
NotMerged == [head |-> 0, over |-> 0]
NoGate == [status |-> "none", head |-> 0]

TypeOK ==
  /\ stage \in {"idle", "agent", "turned", "checks", "verify", "captured", "review",
                "approved", "shipped", "over"}
  /\ turn \in 0 .. MaxTurns /\ told \in 0 .. MaxTurns
  /\ commits \in Seq(SUBSET (1 .. MaxTurns)) /\ tree \subseteq 1 .. MaxTurns
  /\ file \in [status : Finals \union {"none", "running"}, head : 0 .. head, pure : BOOLEAN]
  /\ job.stage \in {"none", "waits", "ready", "step", "leaked"} /\ job.head \in 0 .. head
  /\ gate \in [status : Finals \union {"none"}, head : 0 .. head]
  /\ incoming \subseteq 1 .. MaxTurns /\ items \subseteq [turn : 1 .. MaxTurns, of : 1 .. MaxTurns]
  /\ {up, shut} \subseteq BOOLEAN /\ excuse \in {"none", "hand", "cut", "write"}

Init ==
  /\ stage = "idle" /\ turn = 0 /\ tree = {} /\ commits = <<{}>> /\ told = 0
  /\ file = NoFile /\ job = NoJob /\ gate = NoGate
  /\ incoming = {} /\ items = {} /\ up = TRUE /\ shut = FALSE
  /\ excuse = "none" /\ merged = NotMerged

Idle == job = NoJob
Claimed == job # NoJob

\* terminalChecksResult of a snapshot: 'running' is no result.
Terminal(snapshot) ==
  IF snapshot.status \in Finals THEN [status |-> snapshot.status, head |-> snapshot.head]
  ELSE NoGate

-----------------------------------------------------------------------------
(* The run *)

\* prepareChecks, past its guards: the claim, what the file said before, and
\* 'running' in it.  The wait for a slot starts at once.
Starts(who) ==
  /\ Idle /\ ~shut
  /\ job' = [by |-> who, stage |-> "waits", head |-> head, before |-> file, box |-> {},
             pure |-> TRUE]
  /\ file' = [status |-> "running", head |-> head, pure |-> FALSE]

\* The write of 'running' throws, and the claim is nobody's.
StartsUnwritten(who) ==
  /\ Refuses /\ Idle /\ ~shut
  /\ job' = [NoJob EXCEPT !.by = who, !.stage = "leaked"]
  /\ UNCHANGED file

\* The wait ends: with a slot, or abandoned by the shutdown, which puts the file
\* back where it was.
Granted ==
  /\ job.stage = "waits" /\ ~shut
  /\ job' = [job EXCEPT !.stage = "ready"]
  /\ UNCHANGED file

\* A plausible bug: the wait is given up, and the file left as it is.
WaitForgotten == job.stage = "waits" /\ shut /\ job' = NoJob /\ UNCHANGED file

WaitAbandoned ==
  /\ job.stage = "waits" /\ shut
  /\ file' = job.before /\ job' = NoJob

\* One step of the plan, in a box that mounts the tree, or that holds a copy.
StepStarts ==
  /\ job.stage = "ready"
  /\ job' = [job EXCEPT !.stage = "step", !.box = tree,
                        !.pure = @ /\ tree = commits[job.head]]

\* A copy goes back over the worktree as it is now.
StepEnds ==
  /\ job.stage = "step"
  /\ tree' = IF MicroVm THEN job.box ELSE tree
  /\ job' = [job EXCEPT !.stage = "ready", !.box = {}]

\* The last snapshot; a write that is refused leaves 'running'.
Ended(result) ==
  /\ job.stage = "ready"
  /\ file' = [status |-> result, head |-> job.head, pure |-> job.pure]
  /\ job' = NoJob

EndedUnwritten == Refuses /\ job.stage = "ready" /\ job' = NoJob /\ UNCHANGED file

-----------------------------------------------------------------------------
(* Turns *)

\* A reply, or a resumption: it does not look at the checks.
Turns ==
  /\ up /\ ~shut /\ stage = "idle" /\ turn < MaxTurns
  /\ stage' = "agent" /\ turn' = turn + 1
  /\ UNCHANGED <<tree, commits, told, file, job, gate, incoming, items, up, shut, excuse, merged>>

\* The agent's work reaches the worktree.
Works ==
  /\ up /\ stage = "agent" /\ turn \notin tree
  /\ tree' = tree \union {turn}
  /\ job' = IF job.stage = "step" /\ ~MicroVm THEN [job EXCEPT !.pure = FALSE] ELSE job
  /\ UNCHANGED <<turn, commits, told, file, up, shut>> /\ UNCHANGED hook

\* The turn ends; what differs from the head is committed.
TurnEnds ==
  /\ up /\ stage = "agent"
  /\ stage' = "turned" /\ gate' = NoGate
  /\ IF tree # commits[head] THEN commits' = Append(commits, tree) /\ told' = turn
     ELSE UNCHANGED <<commits, told>>
  /\ UNCHANGED <<turn, tree, file, job, incoming, items, up, shut, excuse, merged>>

-----------------------------------------------------------------------------
(* The hook *)

\* The turn that has just ended committed.
CommittedNow == told = turn

\* startChecksAfterCommit, without a run of its own: nothing was committed,
\* somebody's run has the claim, or the process is leaving.
ChecksPassedOver ==
  /\ up /\ stage = "turned" /\ (~CommittedNow \/ Claimed \/ shut)
  /\ stage' = "verify" /\ gate' = Terminal(file)
  /\ excuse' = IF ~CommittedNow THEN excuse
               ELSE IF Claimed THEN "hand" ELSE "cut"
  /\ UNCHANGED <<file, job, incoming, items, up, shut, merged>> /\ UNCHANGED branch

\* A plausible bug: the run is not awaited.
ChecksFired ==
  /\ up /\ stage = "turned" /\ CommittedNow /\ Starts("hook")
  /\ stage' = "verify" /\ gate' = Terminal(file)
  /\ UNCHANGED <<incoming, items, up, shut, excuse, merged>> /\ UNCHANGED branch

\* ... with one, which it awaits.
ChecksAsked ==
  /\ up /\ stage = "turned" /\ CommittedNow /\ Starts("hook")
  /\ stage' = "checks"
  /\ UNCHANGED <<gate, incoming, items, up, shut, excuse, merged>> /\ UNCHANGED branch

ChecksUnwritten ==
  /\ up /\ stage = "turned" /\ CommittedNow /\ StartsUnwritten("hook")
  /\ stage' = "verify" /\ gate' = Terminal(file) /\ excuse' = "write"
  /\ UNCHANGED <<incoming, items, up, shut, merged>> /\ UNCHANGED branch

\* A person's POST: it needs a commit, and looks at no status.
PersonAsks ==
  /\ Persons /\ up /\ told > 0
  /\ Starts("person") \/ StartsUnwritten("person")
  /\ UNCHANGED <<up, shut>> /\ UNCHANGED hook /\ UNCHANGED branch

\* The run moves on; its end, if the hook awaits it, moves the hook on too.
RunMoves ==
  /\ up /\ (Granted \/ (StepStarts /\ UNCHANGED file))
  /\ UNCHANGED <<up, shut>> /\ UNCHANGED hook /\ UNCHANGED branch

RunCopiesBack ==
  /\ up /\ StepEnds
  /\ UNCHANGED <<turn, commits, told, file, up, shut>> /\ UNCHANGED hook

RunEnds(result) ==
  /\ up
  /\ \/ result \in Finals /\ Ended(result)
     \/ result = "none" /\ (EndedUnwritten \/ WaitAbandoned)
  /\ IF job.by = "hook"
       THEN /\ stage' = "verify" /\ gate' = Terminal(file')
            /\ excuse' = IF result \in Finals THEN "none" ELSE IF shut THEN "cut" ELSE "write"
       ELSE UNCHANGED <<stage, gate, excuse>>
  /\ UNCHANGED <<incoming, items, up, shut, merged>> /\ UNCHANGED branch

\* verifyAfterCommit: the runbook's tests in a fresh VM, and during them the
\* captures, which are copied out.  Nothing to verify, or to capture: on to the
\* review.
Captures ==
  /\ up /\ stage = "verify" /\ MicroVm /\ CommittedNow
  /\ stage' = "captured" /\ incoming' = incoming \union {turn}
  /\ UNCHANGED <<file, job, gate, items, up, shut, excuse, merged>> /\ UNCHANGED branch

CapturesNothing ==
  /\ up /\ stage = "verify" /\ stage' = "review"
  /\ UNCHANGED <<file, job, gate, incoming, items, up, shut, excuse, merged>> /\ UNCHANGED branch

\* ingestEvidenceFiles: every file of the directory becomes this turn's.
Ingests ==
  /\ up /\ stage = "captured" /\ stage' = "review"
  /\ items' = items \union {[turn |-> turn, of |-> t] : t \in incoming} /\ incoming' = {}
  /\ UNCHANGED <<file, job, gate, up, shut, excuse, merged>> /\ UNCHANGED branch

\* The review, with the gates folded in: failed checks approve nothing, and
\* neither does a review that the shutdown cuts.
Reviews(ok) ==
  /\ up /\ stage = "review" /\ (shut => ~ok)
  /\ stage' = IF ok /\ gate.status # "failed" THEN "approved" ELSE "idle"
  /\ UNCHANGED <<file, job, gate, incoming, items, up, shut, excuse, merged>> /\ UNCHANGED branch

\* ship() is refused while a run has the claim, and nobody asks again.
Ships ==
  /\ up /\ stage = "approved"
  /\ stage' = IF Claimed THEN "idle" ELSE "shipped"
  /\ UNCHANGED <<file, job, gate, incoming, items, up, shut, excuse, merged>> /\ UNCHANGED branch

\* The merge reads checks.json again: passed is all it asks of it.
Merges ==
  /\ up /\ stage = "shipped" /\ stage' = "over"
  /\ merged' = IF file.status = "passed" THEN [head |-> head, over |-> file.head] ELSE merged
  /\ UNCHANGED <<file, job, gate, incoming, items, up, shut, excuse>> /\ UNCHANGED branch

-----------------------------------------------------------------------------
(* Ends *)

\* What a cut leaves of a commit that had no run of its own.
Cuts == IF CommittedNow /\ stage \in {"turned", "checks"} THEN "cut" ELSE excuse

\* shutdown(): a turn and a review are cut; a run of the hook's is awaited.
Drains ==
  /\ "drain" \in Ends /\ up /\ ~shut
  /\ shut' = TRUE
  /\ stage' = IF stage \in {"agent", "review"} THEN "idle" ELSE stage
  /\ UNCHANGED <<file, job, gate, incoming, items, up, excuse, merged>> /\ UNCHANGED branch

\* The chains have settled; a run by hand is in none of them.
Exits ==
  /\ up /\ shut /\ stage \in {"idle", "over"}
  /\ up' = FALSE /\ job' = NoJob
  /\ UNCHANGED <<file, shut>> /\ UNCHANGED hook /\ UNCHANGED branch

Crashes ==
  /\ "crash" \in Ends /\ up
  /\ up' = FALSE /\ job' = NoJob /\ excuse' = Cuts
  /\ stage' = IF stage = "over" THEN "over" ELSE "idle"
  /\ UNCHANGED <<file, gate, incoming, items, shut, merged>> /\ UNCHANGED branch

\* Nothing at a boot looks at checks.json, nor at what is incoming.
Boots ==
  /\ ~up /\ up' = TRUE /\ shut' = FALSE
  /\ UNCHANGED <<file, job>> /\ UNCHANGED hook /\ UNCHANGED branch

Next ==
  \/ Turns \/ Works \/ TurnEnds
  \/ ChecksPassedOver \/ ChecksAsked \/ ChecksUnwritten \/ PersonAsks
  \/ RunMoves \/ RunCopiesBack \/ \E result \in Finals \union {"none"} : RunEnds(result)
  \/ Captures \/ CapturesNothing \/ Ingests
  \/ \E ok \in BOOLEAN : Reviews(ok)
  \/ Ships \/ Merges
  \/ Drains \/ Exits \/ Crashes \/ Boots

Spec == Init /\ [][Next]_vars
-----------------------------------------------------------------------------
(* Properties *)

\* A 'running' in checks.json is a run at work: nothing else takes it out, and as
\* long as it stands the button that asks for another is grey (task-server.ts,
\* prepareChecks).
RunningIsARun == up /\ file.status = "running" => Claimed

\* The claim `checking' is a run at work: while it stands no other run, and no
\* ship, is let in.
ClaimIsARun == job.stage # "leaked"

\* The gate of a turn that committed is the result of a run of that commit, but
\* for what kept it from having one.
GateIsOfTheCommit ==
  stage \in {"verify", "captured", "review"} /\ CommittedNow /\ excuse = "none" => gate.head = head

\* `verified head' is true: the tree was that commit's while the run went on.
VerifiedIsTrue == file.status = "passed" => file.pure

\* The automatic merge is over checks of what it merges, but for what kept the
\* last commit from a run of its own.
MergeIsOverItsChecks == merged # NotMerged /\ excuse = "none" => merged.over = merged.head

\* What lets a turn through, and what lets it merge, is of the commit it is about
\* (gateChecks and the automatic merge, task-server.ts).
ChecksSpeakForTheCommit == GateIsOfTheCommit /\ MergeIsOverItsChecks

\* The merge is over checks of what it merges.
MergedIsChecked == merged.over = merged.head

\* What a turn has committed, no later commit takes back.
WorkIsKept == \A i \in 1 .. head : \A j \in i .. head : commits[i] \subseteq commits[j]

\* An item of the evidence was captured in the turn that it names.
ItemsAreOfTheirTurn == \A i \in items : i.of = i.turn
=============================================================================
