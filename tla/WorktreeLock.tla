---------------------------- MODULE WorktreeLock ----------------------------
(***************************************************************************)
(* The lock file that makes the worktree operations of one repository take  *)
(* turns, across processes and inside one (worktree-lock.ts).  The name is  *)
(* claimed by a hard link; a file left by a process that died is removed by *)
(* whoever finds it, after reading it a second time.                        *)
(*                                                                          *)
(* A process runs to its next await, so two callers of one process never    *)
(* interleave inside a round; two processes do.                             *)
(***************************************************************************)
EXTENDS Naturals, FiniteSets

CONSTANTS Callers, Procs,
          ProcOf,     \* the process of each caller
          MaxTakes,   \* locks ever taken
          MaxFaults,  \* processes that die and releases that leave the file
          Window,     \* others may act between the second reading and the unlink
          Grace       \* holders may get older than the pid-reuse grace

ParametersAreSound ==
  /\ ProcOf \in [Callers -> Procs]
  /\ MaxTakes \in Nat /\ MaxFaults \in Nat /\ {Window, Grace} \subseteq BOOLEAN

ASSUME LockParameters == ParametersAreSound

NoLock == [pid |-> "none", at |-> 0]

VARIABLES
  file,    \* .codesema/worktrees/.lock
  held,    \* the processes whose `held' set has the path
  alive,
  pc,      \* where each caller is in acquireWorktreeLock
  saw,     \* the holder it read
  taken,   \* the lock its handle stands for
  takes, faults

vars == <<file, held, alive, pc, saw, taken, takes, faults>>

Pids == Procs \union {"none"}
Locks == [pid : Pids, at : 0 .. MaxTakes]
Stages == {"idle", "trying", "reading", "judging", "unlinking", "holding", "refused", "dead"}

\* The middle of a round: nothing else of the process runs.
InRound == {"reading", "judging", "unlinking"}
Runs(c) == \A d \in Callers \ {c} : ProcOf[d] = ProcOf[c] => pc[d] \notin InRound

Goes(c, stage) == pc' = [pc EXCEPT ![c] = stage]

-----------------------------------------------------------------------------

Asks(c) ==
  /\ pc[c] = "idle" /\ Runs(c)
  /\ Goes(c, "trying")
  /\ UNCHANGED <<file, held, alive, saw, taken, takes, faults>>

\* tryCreateLock: only one caller can claim the name.
Takes(c) ==
  /\ pc[c] = "trying" /\ Runs(c) /\ file = NoLock /\ takes < MaxTakes
  /\ takes' = takes + 1
  /\ file' = [pid |-> ProcOf[c], at |-> takes']
  /\ held' = held \union {ProcOf[c]}
  /\ taken' = [taken EXCEPT ![c] = file']
  /\ Goes(c, "holding")
  /\ UNCHANGED <<alive, saw, faults>>

NameIsTaken(c) ==
  /\ pc[c] = "trying" /\ Runs(c) /\ file # NoLock
  /\ Goes(c, "reading")
  /\ UNCHANGED <<file, held, alive, saw, taken, takes, faults>>

Reads(c) ==
  /\ pc[c] = "reading"
  /\ saw' = [saw EXCEPT ![c] = file]
  /\ Goes(c, "judging")
  /\ UNCHANGED <<file, held, alive, taken, takes, faults>>

StealableByWaiting(c) == saw[c] = NoLock \/ ProcOf[c] \notin held

\* stealReason: the holder vanished, is this very process which does not hold
\* it, is dead, or is too old to be believed.
Stealable(c) ==
  \/ saw[c] = NoLock
  \/ /\ ProcOf[c] \notin held
     /\ saw[c].pid = ProcOf[c] \/ saw[c].pid \notin alive \/ Grace

\* Not stealable, or the budget is spent: wait for the next round, or give up.
Waits(c) ==
  /\ pc[c] = "judging"
  /\ \E stage \in {"trying", "refused"} : Goes(c, stage)
  /\ UNCHANGED <<file, held, alive, saw, taken, takes, faults>>

\* stealIfUnchanged: the file is read again...
Confirms(c) ==
  /\ pc[c] = "judging" /\ Stealable(c) /\ file = saw[c]
  /\ IF Window THEN Goes(c, "unlinking") /\ UNCHANGED file
               ELSE Goes(c, "trying") /\ file' = NoLock
  /\ UNCHANGED <<held, alive, saw, taken, takes, faults>>

\* ... and what is there by then is removed.
Unlinks(c) ==
  /\ pc[c] = "unlinking"
  /\ file' = NoLock
  /\ Goes(c, "trying")
  /\ UNCHANGED <<held, alive, saw, taken, takes, faults>>

\* The wait ended in a refusal or an abort.
Leaves(c) ==
  /\ pc[c] = "refused"
  /\ Goes(c, "idle")
  /\ UNCHANGED <<file, held, alive, saw, taken, takes, faults>>

\* release: the file goes if it names this process.
Releases(c) ==
  /\ pc[c] = "holding" /\ Runs(c)
  /\ held' = held \ {ProcOf[c]}
  /\ file' = IF file.pid = ProcOf[c] THEN NoLock ELSE file
  /\ taken' = [taken EXCEPT ![c] = NoLock]
  /\ Goes(c, "idle")
  /\ UNCHANGED <<alive, saw, takes, faults>>

\* The unlink of a release fails: it is best-effort.
LeavesResidue(c) ==
  /\ pc[c] = "holding" /\ Runs(c) /\ faults < MaxFaults
  /\ faults' = faults + 1
  /\ held' = held \ {ProcOf[c]}
  /\ taken' = [taken EXCEPT ![c] = NoLock]
  /\ Goes(c, "idle")
  /\ UNCHANGED <<file, alive, saw, takes>>

Dies(p) ==
  /\ p \in alive /\ faults < MaxFaults
  /\ faults' = faults + 1
  /\ alive' = alive \ {p} /\ held' = held \ {p}
  /\ pc' = [c \in Callers |-> IF ProcOf[c] = p THEN "dead" ELSE pc[c]]
  /\ UNCHANGED <<file, saw, taken, takes>>

Init ==
  /\ file = NoLock /\ held = {} /\ alive = Procs
  /\ pc = [c \in Callers |-> "idle"]
  /\ saw = [c \in Callers |-> NoLock] /\ taken = [c \in Callers |-> NoLock]
  /\ takes = 0 /\ faults = 0

Next ==
  \/ \E c \in Callers :
       \/ Asks(c) \/ Takes(c) \/ NameIsTaken(c) \/ Reads(c) \/ Waits(c) \/ Confirms(c)
       \/ Unlinks(c) \/ Leaves(c) \/ Releases(c) \/ LeavesResidue(c)
  \/ \E p \in Procs : Dies(p)

Spec == Init /\ [][Next]_vars

-----------------------------------------------------------------------------
(* Properties *)

\* Every variable holds a value of its kind, and the callers of a process that
\* died are those that stopped.
TypeOK ==
  /\ file \in Locks /\ held \subseteq Procs /\ alive \subseteq Procs
  /\ pc \in [Callers -> Stages]
  /\ saw \in [Callers -> Locks] /\ taken \in [Callers -> Locks]
  /\ takes \in 0 .. MaxTakes /\ faults \in 0 .. MaxFaults
  /\ \A c \in Callers : pc[c] = "dead" <=> ProcOf[c] \notin alive

\* Two writers on one git index is the corruption the lock exists to prevent
\* (worktree-lock.ts stealReason): whatever died or left its file behind, one
\* caller at most is in.
OneWriter == \A c, d \in Callers : pc[c] = "holding" /\ pc[d] = "holding" => c = d

\* While a caller is in, the file on disk is its own, and `held' says that its
\* process holds it: neither a stale release nor a steal takes it away.
FileBacksTheHolder ==
  \A c \in Callers : pc[c] = "holding" => file = taken[c] /\ ProcOf[c] \in held

\* `held' never outlives its holder: a process would wait on itself for ever.
HeldHasAHolder == \A p \in held : \E c \in Callers : ProcOf[c] = p /\ pc[c] = "holding"

\* One writer at most is in the worktrees, and the file and `held' are its own.
LockExcludes == TypeOK /\ OneWriter /\ FileBacksTheHolder /\ HeldHasAHolder
=============================================================================
