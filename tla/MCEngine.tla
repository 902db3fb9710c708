------------------------------ MODULE MCEngine -------------------------------
(****************************************************************************)
(* Small instances of the modules about what is on this machine's disk: the *)
(* queue file, the journal, the rounds read off it, the tasks held at boot  *)
(* and the two locks. They are checked in one run: `part' says which of     *)
(* them moves, and the others rest.                                         *)
(****************************************************************************)
EXTENDS Naturals, WorktreeLock

CONSTANTS
  Parts,  \* those of the parts below that this run explores
  Junk,
  FixRounds,      \* the rounds configured for the fix loop,
  FixTurns,       \* the turns a task may have, where the daemon does not resume
  FaultyFixTurns, \* and where it does,
  FixFaults,      \* and the faults of either
  LineTasks,      \* how many tasks the held line has,
  LineTicketed,   \* those of them with an issue,
  LineFaults,     \* the writes that may fail in the faulty one,
  LineCrashes,    \* and its crashes
  WindowTakes,    \* locks ever taken on the second lock,
  WindowOpen,     \* where others may act inside a steal
  HoldersAge,     \* and holders may get older than the pid-reuse grace
  WorkspacePids,  \* the pids of the machine's workspaces and of other programs
  MaxBoots,
  BootsOverlap

\* The lock over the worktrees is this module's own: three callers in two
\* processes.
TwoProcesses == [c \in {"a", "b", "c"} |-> IF c = "c" THEN "q" ELSE "p"]

VARIABLE part  \* the one that moves

\* queue.json, and one that may refuse to open for a while.
VARIABLES record, blind, queueFile, evidence, reported, queueTold, waiting,
          queueFaults
queueVars == <<record, blind, queueFile, evidence, reported, queueTold,
               waiting, queueFaults>>
Queue == INSTANCE TaskQueue WITH
  Tasks <- 1..3, QueueMax <- 2, Junk <- Junk, Hiccups <- FALSE,
  MaxFaults <- 2, file <- queueFile, told <- queueTold, faults <- queueFaults
ShutQueue == INSTANCE TaskQueue WITH
  Tasks <- 1..2, QueueMax <- 2, Junk <- Junk, Hiccups <- TRUE, MaxFaults <- 2,
  file <- queueFile, told <- queueTold, faults <- queueFaults

\* events.jsonl: alone, written to by others, refusing to be read.
VARIABLES lines, logOpen, readable, cursor, cache, legibleRecord, answered,
          toHub, reader, next, logFaults
logVars == <<lines, logOpen, readable, cursor, cache, legibleRecord, answered,
             toHub, reader, next, logFaults>>
Log == INSTANCE Journal WITH
  MaxEvents <- 6, MaxFaults <- 4, Opaque <- FALSE, Blurs <- FALSE,
  Outside <- FALSE, open <- logOpen, faults <- logFaults
SharedLog == INSTANCE Journal WITH
  MaxEvents <- 6, MaxFaults <- 4, Opaque <- FALSE, Blurs <- FALSE,
  Outside <- TRUE, open <- logOpen, faults <- logFaults
OpaqueLog == INSTANCE Journal WITH
  MaxEvents <- 5, MaxFaults <- 4, Opaque <- TRUE, Blurs <- TRUE,
  Outside <- FALSE, open <- logOpen, faults <- logFaults

\* The rounds of the fix loop, and those of the daemon over a failing queue.
VARIABLES loopStatus, by, loopOpen, turns, loop, written, spoilt, closed,
          auto, loopFaults
loopVars == <<loopStatus, by, loopOpen, turns, loop, written, spoilt, closed,
              auto, loopFaults>>
Loop == INSTANCE FixLoop WITH
  MaxRounds <- FixRounds, TurnCap <- FixTurns, MaxFaults <- FixFaults,
  Daemon <- FALSE, RefusedWrites <- FALSE, status <- loopStatus, open <- loopOpen,
  faults <- loopFaults
FaultyLoop == INSTANCE FixLoop WITH
  MaxRounds <- FixRounds, TurnCap <- FaultyFixTurns, MaxFaults <- FixFaults,
  Daemon <- TRUE, RefusedWrites <- TRUE, status <- loopStatus, open <- loopOpen,
  faults <- loopFaults

\* The tasks held until their issues are compared, and writes that fail.
VARIABLES ticketStatus, cut, reason, line, ticketHeld, runner, pass, compared,
          ticketTold, before, ticketFaults, crashes
lineVars == <<ticketStatus, cut, reason, line, ticketHeld, runner, pass,
              compared, ticketTold, before, ticketFaults, crashes>>
Line == INSTANCE Tickets WITH
  N <- LineTasks, Ticketed <- LineTicketed, MaxFaults <- 0, MaxCrashes <- 0,
  Gestures <- FALSE, status <- ticketStatus, held <- ticketHeld,
  told <- ticketTold, faults <- ticketFaults
FaultyLine == INSTANCE Tickets WITH
  N <- LineTasks, Ticketed <- LineTicketed, MaxFaults <- LineFaults,
  MaxCrashes <- LineCrashes, Gestures <- FALSE, status <- ticketStatus, held <- ticketHeld,
  told <- ticketTold, faults <- ticketFaults

\* The same lock where it is looked at and then taken, with holders that get
\* old.
VARIABLES windowFile, windowHeld, windowAlive, windowPc, windowSaw,
          windowTaken, windowTakes, windowFaults
windowLockVars == <<windowFile, windowHeld, windowAlive, windowPc, windowSaw,
                    windowTaken, windowTakes, windowFaults>>
WindowLock == INSTANCE WorktreeLock WITH
  MaxTakes <- WindowTakes, Window <- WindowOpen, Grace <- HoldersAge,
  file <- windowFile, held <- windowHeld,
  alive <- windowAlive, pc <- windowPc, saw <- windowSaw,
  taken <- windowTaken, takes <- windowTakes, faults <- windowFaults

\* The lock of the machine's one workspace.
VARIABLES workspaceFile, doing, boots
workspaceVars == <<workspaceFile, doing, boots>>
Workspace == INSTANCE WorkspaceLock WITH
  Pids <- WorkspacePids, Window <- BootsOverlap, file <- workspaceFile

ASSUME PartsAreSound ==
  /\ Parts \subseteq {"lock", "queue", "queue shut", "journal",
                     "journal shared", "journal opaque", "loop",
                     "loop faults", "tickets", "tickets faults",
                     "lock window", "workspace"}
  /\ ParametersAreSound /\ Queue!ParametersAreSound
  /\ ShutQueue!ParametersAreSound /\ Log!ParametersAreSound
  /\ SharedLog!ParametersAreSound /\ OpaqueLog!ParametersAreSound
  /\ Loop!ParametersAreSound /\ FaultyLoop!ParametersAreSound
  /\ Line!ParametersAreSound /\ FaultyLine!ParametersAreSound
  /\ WindowLock!ParametersAreSound /\ Workspace!ParametersAreSound

engineVars == <<part, vars, queueVars, logVars, loopVars, lineVars, windowLockVars,
                workspaceVars>>

\* The parts that do not move rest where they start, each in one of its initial
\* states.
EngineInit ==
  /\ part \in Parts
  /\ Init /\ Queue!Init /\ Log!Init /\ Loop!Init /\ Line!Init
  /\ WindowLock!Init /\ Workspace!Init
  /\ \/ part \in {"tickets", "tickets faults"}
     \/ (ticketStatus = [t \in Line!Tasks |-> "queued"] /\ line = [t \in Line!Tasks |-> t]
         /\ reason = [t \in Line!Tasks |-> "none"])

EngineNext ==
  /\ UNCHANGED part
  /\ \/ /\ part = "lock" /\ Next
        /\ UNCHANGED <<queueVars, logVars, loopVars, lineVars, windowLockVars,
                        workspaceVars>>
     \/ /\ part = "queue" /\ Queue!Next
        /\ UNCHANGED <<vars, logVars, loopVars, lineVars, windowLockVars,
                        workspaceVars>>
     \/ /\ part = "queue shut" /\ ShutQueue!Next
        /\ UNCHANGED <<vars, logVars, loopVars, lineVars, windowLockVars,
                        workspaceVars>>
     \/ /\ part = "journal" /\ Log!Next
        /\ UNCHANGED <<vars, queueVars, loopVars, lineVars, windowLockVars,
                        workspaceVars>>
     \/ /\ part = "journal shared" /\ SharedLog!Next
        /\ UNCHANGED <<vars, queueVars, loopVars, lineVars, windowLockVars,
                        workspaceVars>>
     \/ /\ part = "journal opaque" /\ OpaqueLog!Next
        /\ UNCHANGED <<vars, queueVars, loopVars, lineVars, windowLockVars,
                        workspaceVars>>
     \/ /\ part = "loop" /\ Loop!Next
        /\ UNCHANGED <<vars, queueVars, logVars, lineVars, windowLockVars,
                        workspaceVars>>
     \/ /\ part = "loop faults" /\ FaultyLoop!Next
        /\ UNCHANGED <<vars, queueVars, logVars, lineVars, windowLockVars,
                        workspaceVars>>
     \/ /\ part = "tickets" /\ Line!Next
        /\ UNCHANGED <<vars, queueVars, logVars, loopVars, windowLockVars,
                        workspaceVars>>
     \/ /\ part = "tickets faults" /\ FaultyLine!Next
        /\ UNCHANGED <<vars, queueVars, logVars, loopVars, windowLockVars,
                        workspaceVars>>
     \/ /\ part = "lock window" /\ WindowLock!Next
        /\ UNCHANGED <<vars, queueVars, logVars, loopVars, lineVars,
                        workspaceVars>>
     \/ /\ part = "workspace" /\ Workspace!Next
        /\ UNCHANGED <<vars, queueVars, logVars, loopVars, lineVars,
                        windowLockVars>>

EngineSpec == EngineInit /\ [][EngineNext]_engineVars
------------------------------------------------------------------------------
(* Properties *)

\* The two files are kept. While nothing refuses to be opened: every task the
\* queue has accepted is in the line, or somebody was told that it lost its place,
\* and what the preview announces is what a creation would get. The seqs of the
\* journal ascend, a reader that catches up from the last one it saw misses
\* nothing and the hub is handed every event; with others writing, or a file that
\* refuses to be read, the cursor is never trusted when wrong (task-queue.ts,
\* readQueue and repair; task-store.ts, the journal).
FilesAreKept ==
  /\ part = "queue" => Queue!TypeOK /\ Queue!WaitersKept /\ Queue!PreviewTells
  /\ part \in {"journal", "journal shared"} => Log!SeqsAscend
  /\ part = "journal" => Log!TypeOK /\ Log!CatchUpMissesNothing /\ Log!HubHearsAll
  /\ part \in {"journal shared", "journal opaque"} => Log!CursorKnowsTheFile

\* No repair makes a task overtake another; a boot settles the file; a file that
\* went bad, or that would not open, is not written over before some evidence of
\* it is kept, nor the evidence of the first incident replaced. A broken tail of
\* the journal sacrifices itself only, and an answered event can be read back.
DamageIsContained ==
  [][/\ part = "queue" =>
        Queue!KeepsRanks /\ Queue!KeepsEvidence /\ Queue!SettlesAtBoot
     /\ part = "queue shut" => ShutQueue!KeepsEvidence
     /\ part = "journal" => Log!GluesNothing
     /\ part = "journal shared" => SharedLog!GluesNothing]_engineVars

\* However it crashes, is refused or fails to read, the machine starts no more
\* turns in a row than the rounds configured, each lost line renewing them once;
\* with the daemon resuming too, each fault of any kind does.
RoundsBounded ==
  /\ part = "loop" => Loop!TypeOK /\ Loop!RoundsBounded /\ Loop!CountCoversTheMachine
  /\ part = "loop faults" => FaultyLoop!EachFaultRenewsOnce

\* The hold leaves no trace in the order of the line, and leaves nobody out of
\* it; with a write that fails or a crash, no turn starts on an issue that was
\* not compared unless the workspace has said that it may.
HoldLeavesNoTrace ==
  /\ part = "tickets" => Line!TypeOK /\ Line!RanksKept /\ Line!NobodyStranded
  /\ part = "tickets faults" => FaultyLine!NoTurnBeforeCompare

\* The comparison takes away no reason it did not give, and leaves to Resume the
\* turn that Resume can take up, whatever the forge says.
CompareKeepsToItself == [][Line!KeepsReasonsOfOthers /\ Line!KeepsResume]_engineVars

\* Who owns a lock is there. One workspace at most owns the machine, and the lock
\* names it (workspace-lock.ts); and `held' of the worktrees' lock outlives no
\* holder, also when others act between the look and the steal (worktree-lock.ts).
OwnersAreReal ==
  /\ part = "workspace" => Workspace!OneWorkspace /\ Workspace!LockNamesTheWorkspace
  /\ part = "lock window" => WindowLock!HeldHasAHolder
==============================================================================
