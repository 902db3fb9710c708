---------------------------- MODULE EngineProofs ----------------------------
(***************************************************************************)
(* What is proved of the engine on one machine. Its locks: the worktree     *)
(* lock excludes, for any callers in any processes, whatever died or left   *)
(* its file behind; `held' outlives no holder even where a steal or a       *)
(* holder's age goes wrong; and one workspace at most owns the machine. Its *)
(* fix loop: no more rounds run unasked than the budget allows, and one     *)
(* budget more for each line or fault that was lost. Its line of tickets: a *)
(* hold leaves no trace when it is lifted, and each comparison reorders its *)
(* own lane only.                                                           *)
(***************************************************************************)
EXTENDS MCEngine, SelectionProofs

-----------------------------------------------------------------------------
(* The lock over the worktrees (WorktreeLock) *)

\* Nobody acts inside a steal, and no holder is disbelieved for its age.
Careful == Window = FALSE /\ Grace = FALSE

\* The file names the one that is in: its pid, which nobody can take for dead
\* or for its own leftover, and a stamp that no empty name has.
Backed(c) ==
  /\ file = taken[c] /\ file.pid = ProcOf[c] /\ file.at > 0
  /\ ProcOf[c] \in held

IInv ==
  /\ TypeOK /\ OneWriter /\ HeldHasAHolder
  /\ \A c \in Callers : pc[c] = "holding" => Backed(c)
  /\ \A c \in Callers : pc[c] # "unlinking"

\* No lock is a lock, and each lock names a pid and a time.
LEMMA LockTyped ==
  /\ NoLock \in Locks
  /\ \A x \in Locks : x.pid \in Pids /\ x.at \in Nat
BY LockParameters DEF ParametersAreSound, Locks, Pids, NoLock

\* No file and nobody in: the invariant holds at the start.
LEMMA InitIInv == Init => IInv
BY LockParameters, LockTyped
DEF Init, IInv, TypeOK, OneWriter, HeldHasAHolder, Stages, ParametersAreSound

\* A step of one caller that is not in, and does not touch the file.
LEMMA QuietStep ==
  ASSUME IInv, NEW c \in Callers, pc[c] \notin {"holding", "dead"},
         NEW stage \in Stages \ {"holding", "dead", "unlinking"}, Goes(c, stage),
         UNCHANGED <<held, alive, taken, takes, faults>>,
         saw' \in [Callers -> Locks],
         \/ file' = file
         \/ file' = NoLock /\ \A d \in Callers : pc[d] # "holding"
  PROVE  IInv'
<1>1. /\ pc' \in [Callers -> Stages] /\ pc'[c] = stage
      /\ \A d \in Callers : d # c => pc'[d] = pc[d]
  BY DEF IInv, TypeOK, Goes
<1>2. \A d \in Callers : /\ pc'[d] = "holding" <=> pc[d] = "holding"
                         /\ pc'[d] = "dead" <=> pc[d] = "dead"
                         /\ pc'[d] # "unlinking"
  BY <1>1 DEF IInv
<1>3. file' \in Locks
  BY LockTyped DEF IInv, TypeOK
<1>4. TypeOK'
  BY <1>1, <1>2, <1>3 DEF IInv, TypeOK
<1>5. OneWriter' /\ HeldHasAHolder'
  BY <1>2 DEF IInv, OneWriter, HeldHasAHolder
<1>6. \A d \in Callers : pc'[d] = "holding" => Backed(d)'
  BY <1>2 DEF IInv, Backed
<1> QED
  BY <1>2, <1>4, <1>5, <1>6 DEF IInv

\* The name is claimed by a caller that finds nobody in.
LEMMA TakesIInv ==
  ASSUME IInv, NEW c \in Callers, Takes(c)
  PROVE  IInv'
<1>1. /\ pc[c] = "trying" /\ file = NoLock /\ takes \in Nat /\ MaxTakes \in Nat
      /\ takes' = takes + 1 /\ takes' \in 0 .. MaxTakes /\ takes' > 0
  BY LockParameters DEF Takes, IInv, TypeOK, ParametersAreSound
<1>2. /\ file' = [pid |-> ProcOf[c], at |-> takes'] /\ held' = held \union {ProcOf[c]}
      /\ taken' = [taken EXCEPT ![c] = file'] /\ UNCHANGED <<alive, saw, faults>>
      /\ pc' = [pc EXCEPT ![c] = "holding"]
  BY DEF Takes, Goes
<1>3. ProcOf[c] \in Procs
  BY LockParameters DEF ParametersAreSound
<1>4. file' \in Locks
  BY <1>1, <1>2, <1>3 DEF Locks, Pids
<1>5. \A d \in Callers : pc[d] # "holding"
  BY <1>1 DEF IInv, Backed, NoLock
<1>6. TypeOK'
  BY <1>1, <1>2, <1>3, <1>4 DEF IInv, TypeOK, Stages
<1>7. OneWriter'
  BY <1>2, <1>5 DEF IInv, TypeOK, OneWriter
<1>8. HeldHasAHolder'
  BY <1>2, <1>5 DEF IInv, TypeOK, HeldHasAHolder
<1>9. \A d \in Callers : /\ pc'[d] = "holding" => Backed(d)'
                         /\ pc'[d] # "unlinking"
  BY <1>1, <1>2, <1>5 DEF IInv, TypeOK, Backed
<1> QED
  BY <1>6, <1>7, <1>8, <1>9 DEF IInv

\* A file is removed by a waiter only when nobody is in: the holder's pid is
\* alive, and its process has it in `held'.
LEMMA ConfirmsIInv ==
  ASSUME Careful, IInv, NEW c \in Callers, Confirms(c)
  PROVE  IInv'
<1>1. /\ pc[c] = "judging" /\ Stealable(c) /\ file = saw[c]
      /\ Goes(c, "trying") /\ file' = NoLock
      /\ UNCHANGED <<held, alive, saw, taken, takes, faults>>
  BY DEF Confirms, Careful
<1>2. ASSUME NEW d \in Callers PROVE pc[d] # "holding"
  <2> SUFFICES ASSUME pc[d] = "holding" PROVE FALSE
    OBVIOUS
  <2>1. Backed(d) /\ ProcOf[d] \in alive
    BY LockParameters DEF IInv, TypeOK, ParametersAreSound
  <2>2. saw[c] # NoLock
    BY <1>1, <2>1 DEF Backed, NoLock
  <2> QED
    BY <1>1, <2>1, <2>2 DEF Backed, Stealable, Careful
<1> QED
  BY <1>1, <1>2, QuietStep DEF IInv, TypeOK, Stages

\* The one that is in goes out, whether or not its file goes with it.
LEMMA ReleasesIInv ==
  ASSUME IInv, NEW c \in Callers, Releases(c) \/ LeavesResidue(c)
  PROVE  IInv'
<1>1. /\ pc[c] = "holding" /\ held' = held \ {ProcOf[c]}
      /\ taken' = [taken EXCEPT ![c] = NoLock] /\ pc' = [pc EXCEPT ![c] = "idle"]
      /\ UNCHANGED <<alive, saw, takes>> /\ file' \in {file, NoLock}
      /\ faults' \in 0 .. MaxFaults
  BY LockParameters DEF Releases, LeavesResidue, Goes, IInv, TypeOK, ParametersAreSound
<1>2. \A d \in Callers : /\ pc'[d] # "holding"
                         /\ pc'[d] = "dead" <=> pc[d] = "dead"
                         /\ pc'[d] # "unlinking"
  BY <1>1 DEF IInv, OneWriter, TypeOK
<1>3. TypeOK'
  BY <1>1, <1>2, LockTyped DEF IInv, TypeOK, Stages
<1>4. HeldHasAHolder'
  <2>1. ASSUME NEW p \in held' PROVE FALSE
    <3>1. PICK d \in Callers : ProcOf[d] = p /\ pc[d] = "holding"
      BY <1>1, <2>1 DEF IInv, HeldHasAHolder
    <3> QED
      BY <1>1, <2>1, <3>1 DEF IInv, OneWriter
  <2> QED
    BY <2>1 DEF HeldHasAHolder
<1> QED
  BY <1>2, <1>3, <1>4 DEF IInv, OneWriter

\* With a process die its callers; what it left on disk names a dead process.
LEMMA DiesIInv ==
  ASSUME IInv, NEW p \in Procs, Dies(p)
  PROVE  IInv'
<1>1. /\ alive' = alive \ {p} /\ held' = held \ {p} /\ UNCHANGED <<file, saw, taken, takes>>
      /\ pc' = [c \in Callers |-> IF ProcOf[c] = p THEN "dead" ELSE pc[c]]
      /\ faults' \in 0 .. MaxFaults
  BY LockParameters DEF Dies, IInv, TypeOK, ParametersAreSound
<1>2. \A d \in Callers : /\ pc'[d] = "holding" <=> pc[d] = "holding" /\ ProcOf[d] # p
                         /\ pc'[d] = "dead" <=> pc[d] = "dead" \/ ProcOf[d] = p
                         /\ pc'[d] # "unlinking"
  BY <1>1 DEF IInv
<1>3. TypeOK'
  BY <1>1, <1>2 DEF IInv, TypeOK, Stages
<1>4. OneWriter'
  BY <1>2 DEF IInv, OneWriter
<1>5. HeldHasAHolder'
  BY <1>1, <1>2 DEF IInv, HeldHasAHolder
<1>6. \A d \in Callers : pc'[d] = "holding" => Backed(d)'
  BY <1>1, <1>2 DEF IInv, Backed
<1> QED
  BY <1>2, <1>3, <1>4, <1>5, <1>6 DEF IInv

\* Every step of the lock keeps it.
LEMMA NextIInv ==
  ASSUME Careful, IInv, [Next]_vars
  PROVE  IInv'
<1>1. ASSUME NEW c \in Callers, Asks(c) \/ NameIsTaken(c) \/ Reads(c) \/ Waits(c) \/ Leaves(c)
      PROVE  IInv'
  <2>1. /\ pc[c] \notin {"holding", "dead"} /\ file' = file
        /\ UNCHANGED <<held, alive, taken, takes, faults>>
        /\ \E stage \in Stages \ {"holding", "dead", "unlinking"} : Goes(c, stage)
    BY <1>1 DEF Asks, NameIsTaken, Reads, Waits, Leaves, Stages
  <2>2. saw' \in [Callers -> Locks]
    BY <1>1 DEF Asks, NameIsTaken, Reads, Waits, Leaves, IInv, TypeOK
  <2> QED
    BY <2>1, <2>2, QuietStep
<1>2. ASSUME NEW c \in Callers, Unlinks(c) PROVE FALSE
  BY <1>2 DEF Unlinks, IInv
<1>3. CASE UNCHANGED vars
  BY <1>3 DEF vars, IInv, TypeOK, OneWriter, HeldHasAHolder, Backed
<1> QED
  BY <1>1, <1>2, <1>3, TakesIInv, ConfirmsIInv, ReleasesIInv, DiesIInv DEF Next

\* One writer at most is in the worktrees: the file on disk is its own, `held'
\* says that its process holds it, and `held' outlives no holder, however many
\* callers and processes wait, die or leave their files behind.
THEOREM WorktreesHaveOneWriter == Careful => (Spec => []LockExcludes)
<1> SUFFICES ASSUME Careful PROVE Spec => []LockExcludes
  OBVIOUS
<1>1. Init => IInv
  BY InitIInv
<1>2. IInv /\ [Next]_vars => IInv'
  BY NextIInv
<1>3. IInv => LockExcludes
  BY DEF IInv, LockExcludes, FileBacksTheHolder, Backed
<1> QED
  BY <1>1, <1>2, <1>3, PTL DEF Spec

-----------------------------------------------------------------------------
(* The same lock where others act inside a steal and holders get old (WindowLock) *)

\* A process that `held' says holds the lock has a caller that is in.
HolderInv == windowPc \in [Callers -> WindowLock!Stages] /\ WindowLock!HeldHasAHolder

\* Nobody holds the lock at the start.
LEMMA HolderInit == WindowLock!Init => HolderInv
BY DEF HolderInv, WindowLock!Init, WindowLock!HeldHasAHolder, WindowLock!Stages

\* And a step puts in `held' the process of the one that goes in.
LEMMA HolderStep ==
  ASSUME HolderInv, [WindowLock!Next]_(WindowLock!vars)
  PROVE  HolderInv'
<1>1. CASE UNCHANGED WindowLock!vars
  BY <1>1 DEF HolderInv, WindowLock!vars, WindowLock!HeldHasAHolder
<1>2. ASSUME NEW c \in Callers, windowPc[c] # "holding", UNCHANGED windowHeld,
             NEW stage \in WindowLock!Stages, WindowLock!Goes(c, stage)
      PROVE  HolderInv'
  <2>1. /\ windowPc' \in [Callers -> WindowLock!Stages]
        /\ \A d \in Callers : windowPc[d] = "holding" => windowPc'[d] = "holding"
    BY <1>2 DEF HolderInv, WindowLock!Goes
  <2> QED
    BY <1>2, <2>1 DEF HolderInv, WindowLock!HeldHasAHolder
<1>3. ASSUME NEW c \in Callers,
             \/ WindowLock!Asks(c) \/ WindowLock!NameIsTaken(c) \/ WindowLock!Reads(c)
                \/ WindowLock!Waits(c) \/ WindowLock!Leaves(c)
             \/ WindowLock!Confirms(c) \/ WindowLock!Unlinks(c)
      PROVE  HolderInv'
  <2>1. /\ windowPc[c] # "holding" /\ UNCHANGED windowHeld
        /\ \E stage \in WindowLock!Stages : WindowLock!Goes(c, stage)
    BY <1>3
       DEF HolderInv, WindowLock!Asks, WindowLock!NameIsTaken, WindowLock!Reads, WindowLock!Waits,
           WindowLock!Leaves, WindowLock!Confirms, WindowLock!Unlinks, WindowLock!Stages
  <2> QED
    BY <1>2, <2>1
<1>4. ASSUME NEW c \in Callers, WindowLock!Takes(c) PROVE HolderInv'
  <2>1. windowHeld' = windowHeld \union {ProcOf[c]}
        /\ windowPc' = [windowPc EXCEPT ![c] = "holding"]
    BY <1>4 DEF HolderInv, WindowLock!Takes, WindowLock!Goes
  <2> QED
    BY <2>1 DEF HolderInv, WindowLock!HeldHasAHolder, WindowLock!Stages
<1>5. ASSUME NEW c \in Callers, WindowLock!Releases(c) \/ WindowLock!LeavesResidue(c)
      PROVE HolderInv'
  <2>1. windowHeld' = windowHeld \ {ProcOf[c]} /\ windowPc' = [windowPc EXCEPT ![c] = "idle"]
    BY <1>5 DEF HolderInv, WindowLock!Releases, WindowLock!LeavesResidue, WindowLock!Goes
  <2> QED
    BY <2>1 DEF HolderInv, WindowLock!HeldHasAHolder, WindowLock!Stages
<1>6. ASSUME NEW p \in Procs, WindowLock!Dies(p) PROVE HolderInv'
  BY <1>6 DEF HolderInv, WindowLock!Dies, WindowLock!HeldHasAHolder, WindowLock!Stages
<1> QED
  BY <1>1, <1>3, <1>4, <1>5, <1>6 DEF HolderInv, WindowLock!Next

\* Even where others act inside a steal and old holders are disbelieved, `held'
\* outlives no holder: a process never waits on itself for ever.
THEOREM NobodyWaitsOnItself == WindowLock!Spec => []WindowLock!HeldHasAHolder
<1>1. HolderInv => WindowLock!HeldHasAHolder
  BY DEF HolderInv
<1> QED
  BY <1>1, HolderInit, HolderStep, PTL DEF WindowLock!Spec

-----------------------------------------------------------------------------
(* The lock of the machine's one workspace (WorkspaceLock, as Workspace) *)

\* At most one process is between its look at the lock and its write, or between
\* its last look and its removal; and nobody owns the machine beside the first.
WorkspaceInv ==
  /\ doing \in [WorkspacePids -> {"none", "other", "reading", "writing", "listening",
                               "up", "leaving"}]
  /\ Workspace!LockNamesTheWorkspace
  /\ \A p, q \in WorkspacePids :
       /\ doing[p] \in {"reading", "writing", "leaving"}
          /\ doing[q] \in {"reading", "writing", "leaving"} => p = q
       /\ doing[p] = "writing" => ~Workspace!Owns(q)

\* No workspace at the start.
LEMMA WorkspaceInit == Workspace!ParametersAreSound => (Workspace!Init => WorkspaceInv)
BY DEF Workspace!ParametersAreSound, Workspace!Init, WorkspaceInv,
       Workspace!LockNamesTheWorkspace, Workspace!Owns

\* Boots that do not overlap keep it: the one that boots finds the owner's lock.
LEMMA WorkspaceStep ==
  ASSUME Workspace!ParametersAreSound, ~BootsOverlap, WorkspaceInv,
         [Workspace!Next]_(Workspace!vars)
  PROVE  WorkspaceInv'
<1>0. "none" \notin WorkspacePids
  BY DEF Workspace!ParametersAreSound
<1>1. ASSUME NEW p \in WorkspacePids, NEW stage \in {"reading", "other"}, Workspace!Starts(p, stage)
      PROVE WorkspaceInv'
  BY <1>0, <1>1
     DEF WorkspaceInv, Workspace!Starts, Workspace!Alone, Workspace!Goes,
         Workspace!LockNamesTheWorkspace, Workspace!Owns
<1>2. ASSUME NEW p \in WorkspacePids, Workspace!Judges(p) PROVE WorkspaceInv'
  BY <1>0, <1>2
     DEF WorkspaceInv, Workspace!Judges, Workspace!isPidAlive, Workspace!Goes,
         Workspace!LockNamesTheWorkspace, Workspace!Owns
<1>3. ASSUME NEW p \in WorkspacePids, Workspace!Writes(p) \/ Workspace!SetsPort(p)
      PROVE WorkspaceInv'
  <2>1. \A q \in WorkspacePids \ {p} : ~Workspace!Owns(q)
    <3>1. CASE Workspace!Writes(p)
      BY <1>0, <3>1 DEF WorkspaceInv, Workspace!Writes
    <3>2. CASE Workspace!SetsPort(p)
      BY <3>2
         DEF WorkspaceInv, Workspace!SetsPort, Workspace!LockNamesTheWorkspace, Workspace!Owns
    <3> QED
      BY <1>3, <3>1, <3>2
  <2>2. CASE Workspace!Writes(p)
    <3>1. doing' = [doing EXCEPT ![p] = "listening"] /\ workspaceFile' = [pid |-> p, port |-> FALSE]
      BY <2>2 DEF Workspace!Writes, Workspace!Goes
    <3>2. Workspace!LockNamesTheWorkspace'
      BY <1>0, <2>1, <3>1 DEF WorkspaceInv, Workspace!LockNamesTheWorkspace, Workspace!Owns
    <3> QED
      BY <1>0, <2>1, <2>2, <3>1, <3>2 DEF WorkspaceInv, Workspace!Writes, Workspace!Owns
  <2>3. CASE Workspace!SetsPort(p)
    <3>1. doing' = [doing EXCEPT ![p] = "up"] /\ workspaceFile' = [pid |-> p, port |-> TRUE]
      BY <2>3 DEF Workspace!SetsPort, Workspace!Goes
    <3>2. Workspace!LockNamesTheWorkspace'
      BY <1>0, <2>1, <3>1 DEF WorkspaceInv, Workspace!LockNamesTheWorkspace, Workspace!Owns
    <3> QED
      BY <1>0, <2>1, <2>3, <3>1, <3>2 DEF WorkspaceInv, Workspace!SetsPort, Workspace!Owns
  <2> QED
    BY <1>3, <2>2, <2>3
<1>4. ASSUME NEW p \in WorkspacePids, Workspace!Releases(p) PROVE WorkspaceInv'
  BY <1>0, <1>4
     DEF WorkspaceInv, Workspace!Releases, Workspace!Alone, Workspace!Goes,
         Workspace!LockNamesTheWorkspace, Workspace!Owns
<1>5. ASSUME NEW p \in WorkspacePids, Workspace!Removes(p) \/ Workspace!Dies(p)
      PROVE WorkspaceInv'
  BY <1>0, <1>5
     DEF WorkspaceInv, Workspace!Removes, Workspace!Dies, Workspace!Goes,
         Workspace!LockNamesTheWorkspace, Workspace!Owns
<1>6. CASE UNCHANGED Workspace!vars
  BY <1>6 DEF WorkspaceInv, Workspace!vars, Workspace!LockNamesTheWorkspace, Workspace!Owns
<1> QED
  BY <1>0, <1>1, <1>2, <1>3, <1>4, <1>5, <1>6 DEF Workspace!Next

\* It says what the lock is for.
LEMMA OneOwner ==
  WorkspaceInv => Workspace!OneWorkspace /\ Workspace!LockNamesTheWorkspace
BY DEF WorkspaceInv, Workspace!OneWorkspace, Workspace!LockNamesTheWorkspace, Workspace!Owns

\* One workspace at most owns the machine, and the lock names it with its port,
\* however often workspaces and other programs boot, die and take each other's
\* pids, as long as no boot overlaps the boot or the leaving of another
\* (workspace-lock.ts, acquireWorkspaceLock, setPort and release).
THEOREM OneWorkspaceOwns ==
  ~BootsOverlap =>
    (Workspace!Spec => [](Workspace!OneWorkspace /\ Workspace!LockNamesTheWorkspace))
<1> SUFFICES ASSUME ~BootsOverlap
             PROVE  Workspace!Spec =>
                      [](Workspace!OneWorkspace /\ Workspace!LockNamesTheWorkspace)
  OBVIOUS
<1>0. Workspace!ParametersAreSound
  BY PartsAreSound
<1>1. Workspace!Init => WorkspaceInv
  BY <1>0, WorkspaceInit
<1>2. WorkspaceInv /\ [Workspace!Next]_(Workspace!vars) => WorkspaceInv'
  BY <1>0, WorkspaceStep
<1> QED
  BY <1>1, <1>2, OneOwner, PTL DEF Workspace!Spec

\* In the engine's run: who owns a lock is there, the machine's workspace and the
\* holder of the worktrees' lock alike, for any callers, processes and pids.
THEOREM OwnersAreThere == ~BootsOverlap => (EngineSpec => []OwnersAreReal)
<1> SUFFICES ASSUME ~BootsOverlap PROVE EngineSpec => []OwnersAreReal
  OBVIOUS
<1> DEFINE Inv == (part = "workspace" => WorkspaceInv) /\ (part = "lock window" => HolderInv)
<1>0. Workspace!ParametersAreSound
  BY PartsAreSound
<1>1. EngineInit => Inv
  BY <1>0, WorkspaceInit, HolderInit DEF EngineInit
<1>2. ASSUME Inv, [EngineNext]_engineVars PROVE Inv'
  <2>1. /\ part' = part
        /\ part = "workspace" => [Workspace!Next]_(Workspace!vars)
        /\ part = "lock window" => [WindowLock!Next]_(WindowLock!vars)
    BY <1>2 DEF EngineNext, engineVars, workspaceVars, Workspace!vars,
                windowLockVars, WindowLock!vars
  <2>2. CASE part = "workspace"
    BY <1>0, <1>2, <2>1, <2>2, WorkspaceStep
  <2>3. CASE part = "lock window"
    BY <1>2, <2>1, <2>3, HolderStep
  <2> QED
    BY <2>1, <2>2, <2>3
<1>3. Inv => OwnersAreReal
  BY OneOwner DEF OwnersAreReal, HolderInv
<1> QED
  BY <1>1, <1>2, <1>3, PTL DEF EngineSpec

-----------------------------------------------------------------------------
(* The rounds of the fix loop (FixLoop) *)

\* What the count reads in the journal, a line that does not parse among them.
Lines == {"marker", "retract", "turn", "dropped"}
Tallies == [streak : Nat, announced : BOOLEAN]
NoTally == [streak |-> 0, announced |-> FALSE]
Tally(s) == Loop!FoldLeft(Loop!Reads, NoTally, s)

\* One line read: a tally again.
LEMMA ReadsTyped ==
  /\ NoTally \in Tallies
  /\ \A c \in Tallies, x \in Lines : Loop!Reads(c, x) \in Tallies
<1>1. NoTally \in Tallies
  BY DEF NoTally, Tallies
<1>2. ASSUME NEW c \in Tallies, NEW x \in Lines PROVE Loop!Reads(c, x) \in Tallies
  <2>1. CASE x = "marker"
    BY <2>1 DEF Loop!Reads, Tallies
  <2>2. CASE x = "retract"
    BY <2>2 DEF Loop!Reads, Tallies
  <2>3. CASE x = "turn"
    BY <2>3 DEF Loop!Reads, Tallies
  <2>4. CASE x = "dropped"
    BY <2>4 DEF Loop!Reads, Tallies
  <2> QED
    BY <2>1, <2>2, <2>3, <2>4 DEF Lines
<1> QED
  BY <1>1, <1>2

\* The tallies after each line of a journal.
IsRun(f, s) ==
  /\ f \in [0 .. Len(s) -> Tallies]
  /\ f[0] = NoTally
  /\ \A k \in 0 .. Len(s) : k < Len(s) => f[k + 1] = Loop!Reads(f[k], s[k + 1])

\* The count is the last of them.
LEMMA TallyRuns ==
  ASSUME NEW s \in Seq(Lines)
  PROVE  \E f : IsRun(f, s) /\ Tally(s) = f[Len(s)]
<1> DEFINE n == Len(s)
           Op(c, i) == Loop!Reads(c, s[i])
           G == [p \in Tallies \X (1 .. n) |-> Op(p[1], p[2])]
           Right(iter) == iter = [T \in SUBSET (1 .. n) |->
                                    IF T = {} THEN NoTally ELSE Op(iter[T \ {Max(T)}], Max(T))]
           folded == CHOOSE iter : Right(iter)
<1>0. n \in Nat /\ DOMAIN s = 1 .. n /\ \A i \in 1 .. n : s[i] \in Lines
  OBVIOUS
<1>1. Tally(s) = folded[1 .. n]
  <2>1. Tally(s) = (CHOOSE iter : iter = [T \in SUBSET (DOMAIN s) |->
                      IF T = {} THEN NoTally
                      ELSE Loop!Reads(iter[T \ {Max(T)}], s[Max(T)])])[DOMAIN s]
    BY DEF Tally, Loop!FoldLeft, Loop!MapThenFoldSet, Loop!Max, Max
  <2> QED
    BY <1>0, <2>1
<1>2. \A c \in Tallies, i \in 1 .. n : Op(c, i) \in Tallies
  BY <1>0, ReadsTyped
<1>3. NoTally \in Tallies
  BY ReadsTyped
<1> HIDE DEF n, Op
<1>4. G \in [Tallies \X (1 .. n) -> Tallies]
      /\ \A c \in Tallies, i \in 1 .. n : G[<<c, i>>] = Op(c, i)
  BY <1>2
<1> HIDE DEF G
<1>5. PICK f \in [SUBSET (1 .. n) -> Tallies] :
        \A T \in SUBSET (1 .. n) :
          f[T] = IF T = {} THEN NoTally ELSE G[<<f[T \ {Max(T)}], Max(T)>>]
  <2>1. PICK f : IsFold(f, n, Tallies, NoTally, G)
    BY <1>0, <1>3, <1>4, FoldExists
  <2> QED
    BY <2>1 DEF IsFold
<1>6. ASSUME NEW T \in SUBSET (1 .. n), T # {}
      PROVE  T \ {Max(T)} \in SUBSET (1 .. n) /\ Max(T) \in 1 .. n
  BY <1>0, <1>6, MaxIs
<1>7. Right(f)
  <2>1. ASSUME NEW T \in SUBSET (1 .. n)
        PROVE  f[T] = IF T = {} THEN NoTally ELSE Op(f[T \ {Max(T)}], Max(T))
    BY <1>4, <1>5, <1>6
  <2> QED
    BY <2>1
<1>8. Right(folded)
  <2> HIDE DEF Right
  <2> QED
    BY <1>7
<1> HIDE DEF folded
<1> DEFINE g == [k \in 0 .. n |-> folded[1 .. k]]
<1>9. folded[{}] = NoTally /\ 1 .. 0 = {}
  <2>1. 1 .. 0 = {} /\ {} \in SUBSET (1 .. n)
    OBVIOUS
  <2> QED
    BY <1>8, <2>1
<1>10. ASSUME NEW k \in 0 .. n, k < n
       PROVE  folded[1 .. (k + 1)] = Op(folded[1 .. k], k + 1)
  <2>1. k + 1 \in Nat \ {0} /\ (k + 1) - 1 = k /\ k + 1 \in 0 .. n
    BY <1>0, <1>10
  <2>2. Max(1 .. (k + 1)) = k + 1 /\ (1 .. (k + 1)) \ {k + 1} = 1 .. ((k + 1) - 1)
    BY <2>1, MaxOfSegment
  <2>3. 1 .. (k + 1) \in SUBSET (1 .. n) /\ 1 .. (k + 1) # {}
    <3>1. ASSUME NEW i \in 1 .. (k + 1) PROVE i \in 1 .. n
      BY <1>0, <2>1
    <3>2. k + 1 \in 1 .. (k + 1)
      BY <2>1
    <3> QED
      BY <3>1, <3>2
  <2> QED
    BY <1>8, <2>1, <2>2, <2>3
<1> DEFINE S == {k \in 0 .. n : folded[1 .. k] \in Tallies}
<1>11. 0 .. n \subseteq S
  <2>1. 0 \in S
    BY <1>0, <1>3, <1>9
  <2>2. ASSUME NEW k \in 0 .. n, k \in S, k < n PROVE k + 1 \in S
    BY <1>0, <1>2, <1>10, <2>2
  <2> HIDE DEF S
  <2> QED
    BY <1>0, <2>1, <2>2, Climb
<1>12. IsRun(g, s)
  <2>1. g \in [0 .. n -> Tallies]
    BY <1>11
  <2>2. g[0] = NoTally
    BY <1>0, <1>9
  <2>3. ASSUME NEW k \in 0 .. n, k < n PROVE g[k + 1] = Op(g[k], k + 1)
    BY <1>0, <1>10, <2>3
  <2> HIDE DEF g
  <2> QED
    BY <2>1, <2>2, <2>3 DEF IsRun, n, Op
<1>13. Tally(s) = g[n]
  BY <1>0, <1>1
<1> QED
  BY <1>12, <1>13 DEF n

\* The count is a fold: of an empty journal, and of one with a line more.
LEMMA TallyGrows ==
  /\ Tally(<<>>) = NoTally
  /\ \A s \in Seq(Lines) : Tally(s) \in Tallies
  /\ \A s \in Seq(Lines), x \in Lines : Tally(Append(s, x)) = Loop!Reads(Tally(s), x)
<1>1. Tally(<<>>) = NoTally
  <2>1. <<>> \in Seq(Lines) /\ Len(<<>>) = 0
    OBVIOUS
  <2>2. PICK f : IsRun(f, <<>>) /\ Tally(<<>>) = f[Len(<<>>)]
    BY <2>1, TallyRuns
  <2> QED
    BY <2>1, <2>2 DEF IsRun
<1>2. ASSUME NEW s \in Seq(Lines) PROVE Tally(s) \in Tallies
  <2>1. PICK f : IsRun(f, s) /\ Tally(s) = f[Len(s)]
    BY TallyRuns
  <2>2. Len(s) \in 0 .. Len(s)
    OBVIOUS
  <2> QED
    BY <2>1, <2>2 DEF IsRun
<1>3. ASSUME NEW s \in Seq(Lines), NEW x \in Lines
      PROVE  Tally(Append(s, x)) = Loop!Reads(Tally(s), x)
  <2> DEFINE n == Len(s)
             t == Append(s, x)
  <2>1. /\ n \in Nat /\ t \in Seq(Lines) /\ Len(t) = n + 1 /\ t[n + 1] = x
        /\ \A i \in 1 .. n : t[i] = s[i]
    OBVIOUS
  <2> HIDE DEF t
  <2>2. PICK f : IsRun(f, s) /\ Tally(s) = f[n]
    BY TallyRuns
  <2>3. PICK g : IsRun(g, t) /\ Tally(t) = g[n + 1]
    BY <2>1, TallyRuns
  <2> DEFINE S == {k \in 0 .. n : f[k] = g[k]}
  <2>4. 0 .. n \subseteq S
    <3>1. 0 \in S
      BY <2>1, <2>2, <2>3 DEF IsRun
    <3>2. ASSUME NEW k \in 0 .. n, k \in S, k < n PROVE k + 1 \in S
      <4>1. k + 1 \in 1 .. n /\ k + 1 \in 0 .. n /\ k \in 0 .. (n + 1) /\ k < n + 1
        BY <2>1, <3>2
      <4>2. f[k + 1] = Loop!Reads(f[k], s[k + 1])
        BY <2>2, <3>2 DEF IsRun
      <4>3. g[k + 1] = Loop!Reads(g[k], t[k + 1])
        BY <2>1, <2>3, <4>1 DEF IsRun
      <4>4. f[k] = g[k]
        BY <3>2
      <4> QED
        BY <2>1, <4>1, <4>2, <4>3, <4>4
    <3> HIDE DEF S
    <3> QED
      BY <2>1, <3>1, <3>2, Climb
  <2>5. f[n] = g[n]
    BY <2>1, <2>4
  <2>6. g[n + 1] = Loop!Reads(g[n], t[n + 1])
    <3>1. n \in 0 .. (n + 1) /\ n < n + 1
      BY <2>1
    <3> QED
      BY <2>1, <2>3, <3>1 DEF IsRun
  <2> QED
    BY <2>1, <2>2, <2>3, <2>5, <2>6 DEF t
<1> QED
  BY <1>1, <1>2, <1>3

\* What is left of a journal whose lines in `holes' do not parse.
Left(w, holes) == [i \in 1 .. Len(w) |-> IF i \in holes THEN "dropped" ELSE w[i]]
Written == {"marker", "retract", "turn"}

\* A line more in the journal is a line more in what is left of it.
LEMMA LeftGrows ==
  ASSUME NEW w \in Seq(Written), NEW holes \in SUBSET (1 .. Len(w))
  PROVE  /\ w \in Seq(Lines) /\ Left(w, holes) \in Seq(Lines)
         /\ \A x \in Written : Left(Append(w, x), holes) = Append(Left(w, holes), x)
<1>1. w \in Seq(Lines)
  <2>1. Written \subseteq Lines
    BY DEF Written, Lines
  <2> QED
    BY <2>1
<1>2. Left(w, holes) \in Seq(Lines) /\ Len(Left(w, holes)) = Len(w)
  <2>1. Len(w) \in Nat /\ \A i \in 1 .. Len(w) : w[i] \in Lines
    BY <1>1
  <2>2. "dropped" \in Lines
    BY DEF Lines
  <2> QED
    BY <2>1, <2>2 DEF Left
<1>3. ASSUME NEW x \in Written PROVE Left(Append(w, x), holes) = Append(Left(w, holes), x)
  <2> DEFINE n == Len(w)
  <2>1. n \in Nat /\ Len(Append(w, x)) = n + 1 /\ Append(w, x)[n + 1] = x
        /\ \A i \in 1 .. n : Append(w, x)[i] = w[i]
    OBVIOUS
  <2>2. Len(Left(Append(w, x), holes)) = n + 1 /\ Len(Append(Left(w, holes), x)) = n + 1
        /\ Left(Append(w, x), holes) \in Seq(Lines) /\ Append(Left(w, holes), x) \in Seq(Lines)
    <3>1. x \in Lines /\ "dropped" \in Lines
      BY DEF Written, Lines
    <3>2. Append(w, x) \in Seq(Lines)
      BY <1>1, <3>1
    <3>3. Left(Append(w, x), holes) \in Seq(Lines) /\ Len(Left(Append(w, x), holes)) = n + 1
      BY <2>1, <3>1, <3>2 DEF Left
    <3> QED
      BY <1>2, <3>1, <3>3
  <2>3. ASSUME NEW i \in 1 .. (n + 1)
        PROVE  Left(Append(w, x), holes)[i] = Append(Left(w, holes), x)[i]
    <3>1. CASE i = n + 1
      <4>1. i \notin holes
        BY <2>1, <3>1
      <4>2. Left(Append(w, x), holes)[i] = x
        BY <2>1, <3>1, <4>1 DEF Left
      <4>3. Append(Left(w, holes), x)[n + 1] = x
        BY <1>2
      <4> QED
        BY <3>1, <4>2, <4>3
    <3>2. CASE i # n + 1
      <4>1. i \in 1 .. n
        BY <2>1, <3>2
      <4>2. Append(Left(w, holes), x)[i] = Left(w, holes)[i]
        BY <1>2, <4>1
      <4> QED
        BY <2>1, <4>1, <4>2 DEF Left
    <3> QED
      BY <3>1, <3>2
  <2> QED
    BY <2>2, <2>3
<1> QED
  BY <1>1, <1>2, <1>3

\* What the next turn makes of a tally, and how much of a budget it uses.
Ahead(c) == IF c.announced THEN c.streak + 1 ELSE 0
Upto(n) == IF n <= FixRounds THEN n ELSE FixRounds

\* The turns started keep within what the faults have allowed so far and what the
\* journal tells of the rest, and so do they with the one that is about to start.
Within(allowed, c) ==
  /\ auto <= allowed + Upto(c.streak)
  /\ loop = "announce" => auto + 1 <= allowed + Upto(c.streak + 1)
  /\ loop = "queue" => auto + 1 <= allowed + Upto(Ahead(c))
  /\ loopStatus = "queued" /\ by # "person" => auto + 1 <= allowed + Upto(Ahead(c))

\* The invariant of the loop without the daemon: the rounds that the faults have
\* allowed are those of the lines that were lost, and every round that starts has
\* its marker in the journal as it was written.
Allowed == FixRounds * Cardinality(spoilt)
TallyLeft == Tally(Left(written, spoilt))
Covered ==
  /\ auto <= Tally(written).streak
  /\ loop = "queue" => Tally(written).announced
  /\ loopStatus = "queued" /\ by # "person" => Tally(written).announced
LoopInv ==
  /\ Loop!TypeOK /\ by # "daemon" /\ loopStatus # "stranded"
  /\ Within(Allowed, TallyLeft) /\ Covered

\* What the instance assumes of the two bounds.
LEMMA LoopParts == Loop!ParametersAreSound => FixRounds \in Nat \ {0} /\ FixTurns \in Nat \ {0}
BY DEF Loop!ParametersAreSound

\* Without a daemon every variable keeps its type: nobody queues a round but the
\* person and the loop, and no round strands.
LEMMA LoopTyped ==
  ASSUME Loop!ParametersAreSound, Loop!TypeOK, by # "daemon", loopStatus # "stranded",
         [Loop!Next]_(Loop!vars)
  PROVE  (Loop!TypeOK /\ by # "daemon" /\ loopStatus # "stranded")'
<1> USE DEF Loop!ParametersAreSound, Loop!TypeOK, Loop!Statuses, Loop!Replyable
<1>1. CASE Loop!TurnStarts
  BY <1>1 DEF Loop!TurnStarts
<1>2. CASE Loop!Asks
  BY <1>2 DEF Loop!Asks
<1>3. CASE Loop!Announces
  BY <1>3 DEF Loop!Announces
<1>4. CASE Loop!Queues
  BY <1>4 DEF Loop!Queues
<1>5. CASE Loop!Refused
  BY <1>5 DEF Loop!Refused
<1>6. CASE Loop!RefusedLate
  BY <1>6 DEF Loop!RefusedLate
<1>7. ASSUME NEW verdict \in Loop!Verdicts, NEW fixable \in BOOLEAN,
             Loop!Settles(verdict, fixable)
      PROVE  (Loop!TypeOK /\ by # "daemon" /\ loopStatus # "stranded")'
  <2>1. Loop!decideFixLoop(verdict, fixable) = "retry"
          => Loop!applyFixLoopDecision(verdict, "retry") = "review_ko"
    BY DEF Loop!decideFixLoop, Loop!applyFixLoopDecision, Loop!LOOP_BLOCKERS
  <2> QED
    BY <1>7, <2>1 DEF Loop!Settles, Loop!applyFixLoopDecision
<1>8. ASSUME NEW who \in {"person", "daemon"}, Loop!Reply(who)
      PROVE  (Loop!TypeOK /\ by # "daemon" /\ loopStatus # "stranded")'
  BY <1>8 DEF Loop!Reply
<1>9. ASSUME NEW who \in {"person", "daemon"}, Loop!Resume(who)
      PROVE  (Loop!TypeOK /\ by # "daemon" /\ loopStatus # "stranded")'
  BY <1>9 DEF Loop!Resume
<1>10. CASE Loop!Interrupt
  BY <1>10 DEF Loop!Interrupt, Loop!Fault
<1>11. CASE Loop!Crash
  BY <1>11 DEF Loop!Crash, Loop!Fault
<1>12. CASE Loop!Spoils
  BY <1>12 DEF Loop!Spoils, Loop!Fault
<1>13. CASE Loop!Closes
  BY <1>13 DEF Loop!Closes, Loop!Fault
<1>14. CASE Loop!Opens
  BY <1>14 DEF Loop!Opens
<1>15. CASE UNCHANGED Loop!vars
  BY <1>15 DEF Loop!vars
<1> QED
  BY <1>1, <1>2, <1>3, <1>4, <1>5, <1>6, <1>7, <1>8, <1>9, <1>10, <1>11, <1>12, <1>13,
     <1>14, <1>15 DEF Loop!Next

\* The count that decides is the tally of what is left.
LEMMA LoopDecides ==
  ASSUME NEW verdict \in Loop!Verdicts, NEW fixable \in BOOLEAN, Loop!ParametersAreSound,
         Loop!decideFixLoop(verdict, fixable) = "retry", TallyLeft \in Tallies
  PROVE  TallyLeft.streak < FixRounds
<1>1. Loop!autoFixRoundsUsed(Loop!Readable) = TallyLeft.streak
  BY DEF Loop!autoFixRoundsUsed, Loop!Readable, TallyLeft, Left, Tally, NoTally
<1>2. Loop!autoFixRoundsUsed(Loop!Readable) < Loop!effectiveMax(verdict)
  BY DEF Loop!decideFixLoop
<1> QED
  BY <1>1, <1>2 DEF Loop!effectiveMax, Loop!JUDGMENT_ONLY_MAX_ROUNDS, Tallies,
                    Loop!ParametersAreSound

\* Every step keeps within what is allowed, and covers what was started.
LEMMA LoopStep ==
  ASSUME Loop!ParametersAreSound, LoopInv, [Loop!Next]_(Loop!vars)
  PROVE  LoopInv'
<1> DEFINE c == TallyLeft
           w == Tally(written)
           b == Allowed
<1>0. /\ (Loop!TypeOK /\ by # "daemon" /\ loopStatus # "stranded")'
      /\ Loop!TypeOK /\ by # "daemon" /\ loopStatus # "stranded"
  BY LoopTyped DEF LoopInv
<1>1. /\ FixRounds \in Nat /\ FixRounds >= 1 /\ auto \in Nat
      /\ written \in Seq(Written) /\ spoilt \in SUBSET (1 .. Len(written))
  BY <1>0, LoopParts DEF Loop!TypeOK, Written
<1>2. Cardinality(spoilt) \in Nat /\ IsFiniteSet(spoilt) /\ b \in Nat
  <2>1. IsFiniteSet(1 .. Len(written))
    BY <1>1, FS_Interval
  <2>2. Cardinality(spoilt) \in Nat /\ IsFiniteSet(spoilt)
    BY <1>1, <2>1, FS_Subset, FS_CardinalityType
  <2> QED
    BY <1>1, <2>2 DEF Allowed
<1>3. w \in Tallies /\ c \in Tallies
  BY <1>1, LeftGrows, TallyGrows DEF TallyLeft
<1>4. ASSUME UNCHANGED <<written, spoilt>> PROVE c' = c /\ w' = w /\ b' = b
  BY <1>4 DEF TallyLeft, Left, Tally, Allowed
<1>5. ASSUME NEW x \in Written, written' = Append(written, x), spoilt' = spoilt
      PROVE  c' = Loop!Reads(c, x) /\ w' = Loop!Reads(w, x) /\ b' = b
  <2>1. x \in Lines
    BY DEF Written, Lines
  <2>2. Left(written', spoilt') = Append(Left(written, spoilt), x)
    BY <1>1, <1>5, LeftGrows
  <2>3. c' = Tally(Left(written', spoilt')) /\ w' = Tally(written') /\ b' = b
    BY <1>5 DEF TallyLeft, Left, Tally, Allowed
  <2> QED
    BY <1>1, <1>5, <2>1, <2>2, <2>3, LeftGrows, TallyGrows DEF TallyLeft
<1>6. Within(b, c) /\ Covered
  BY DEF LoopInv
<1> HIDE DEF b, c
<1> USE DEF Within, Upto, Ahead, Tallies, Covered
<1>7. ASSUME NEW x \in Written, written' = Append(written, x), spoilt' = spoilt
      PROVE  c' \in Tallies /\ w' \in Tallies
  <2>1. x \in Lines
    BY DEF Written, Lines
  <2> QED
    BY <1>3, <1>5, <1>7, <2>1, ReadsTyped
<1>8. ASSUME Loop!TurnStarts PROVE Within(b, c)' /\ Covered'
  <2>0. "turn" \in Written
    BY DEF Written
  <2>1. c' = Loop!Reads(c, "turn") /\ w' = Loop!Reads(w, "turn") /\ b' = b
        /\ c' \in Tallies /\ w' \in Tallies
    BY <1>5, <1>7, <1>8, <2>0 DEF Loop!TurnStarts
  <2>2. loop = "none" /\ loop' = "none" /\ loopStatus' = "running" /\ loopStatus = "queued"
        /\ by' = by /\ auto' = IF by = "person" THEN 0 ELSE auto + 1
    BY <1>0, <1>8 DEF Loop!TurnStarts, Loop!TypeOK
  <2>3. c'.streak = Ahead(c) /\ w'.streak = Ahead(w)
    BY <2>1 DEF Loop!Reads
  <2>4. auto' <= b' + Upto(c'.streak)
    BY <1>1, <1>2, <1>3, <1>6, <2>1, <2>2, <2>3
  <2>5. auto' <= w'.streak
    BY <1>1, <1>3, <1>6, <2>1, <2>2, <2>3
  <2> QED
    BY <2>2, <2>4, <2>5
<1>9. ASSUME Loop!Announces PROVE Within(b, c)' /\ Covered'
  <2>0. "marker" \in Written
    BY DEF Written
  <2>1. c' = Loop!Reads(c, "marker") /\ w' = Loop!Reads(w, "marker") /\ b' = b
    BY <1>5, <1>9, <2>0 DEF Loop!Announces
  <2>2. /\ loop = "announce" /\ loop' = "queue" /\ loopStatus' = "review_ko" /\ auto' = auto
    BY <1>0, <1>9 DEF Loop!Announces, Loop!TypeOK
  <2>3. c'.streak = c.streak /\ c'.announced /\ w'.streak = w.streak /\ w'.announced
    BY <1>3, <2>1 DEF Loop!Reads
  <2> QED
    BY <1>1, <1>2, <1>3, <1>6, <2>1, <2>2, <2>3
<1>10. ASSUME Loop!Refused PROVE Within(b, c)' /\ Covered'
  <2>0. "retract" \in Written
    BY DEF Written
  <2>1. c' = Loop!Reads(c, "retract") /\ w' = Loop!Reads(w, "retract") /\ b' = b
    BY <1>5, <1>10, <2>0 DEF Loop!Refused
  <2>2. loop = "queue" /\ loop' = "none" /\ loopStatus' = "review_ko" /\ auto' = auto
    BY <1>0, <1>10 DEF Loop!Refused, Loop!TypeOK
  <2>3. c'.streak = c.streak /\ w'.streak = w.streak
    BY <1>3, <2>1 DEF Loop!Reads
  <2> QED
    BY <1>1, <1>2, <1>3, <1>6, <2>1, <2>2, <2>3
<1>11. ASSUME Loop!Spoils PROVE Within(b, c)' /\ Covered'
  <2>1. PICK i \in (1 .. Len(written)) \ spoilt : spoilt' = spoilt \union {i}
    BY <1>11 DEF Loop!Spoils
  <2>2. UNCHANGED <<loopStatus, by, loop, written, auto>>
    BY <1>11 DEF Loop!Spoils
  <2>3. Cardinality(spoilt') = Cardinality(spoilt) + 1
    BY <1>2, <2>1, FS_AddElement
  <2>4. b' = b + FixRounds
    BY <1>1, <1>2, <2>3 DEF Allowed, b
  <2>5. c' \in Tallies
    <3>1. written' \in Seq(Written) /\ spoilt' \in SUBSET (1 .. Len(written'))
      BY <1>1, <2>1, <2>2
    <3>2. c' = Tally(Left(written', spoilt'))
      BY DEF c, TallyLeft, Left, Tally
    <3> QED
      BY <3>1, <3>2, LeftGrows, TallyGrows
  <2>6. w' = w
    BY <2>2 DEF Tally
  <2>7. auto + 1 <= b + FixRounds \/ (auto <= b + FixRounds /\ loop = "none"
          /\ (loopStatus # "queued" \/ by = "person"))
    <3>0. loop \in {"none", "announce", "queue"}
      BY <1>0 DEF Loop!TypeOK
    <3>1. /\ Upto(c.streak) <= FixRounds /\ Upto(c.streak + 1) <= FixRounds
          /\ Upto(Ahead(c)) <= FixRounds
          /\ {Upto(c.streak), Upto(c.streak + 1), Upto(Ahead(c))} \subseteq Nat
      BY <1>1, <1>3
    <3> HIDE DEF Upto, Ahead
    <3>2. auto <= b + FixRounds
      BY <1>1, <1>2, <1>6, <3>1
    <3>3. loop # "none" \/ (loopStatus = "queued" /\ by # "person") => auto + 1 <= b + FixRounds
      BY <1>1, <1>2, <1>6, <3>0, <3>1
    <3> QED
      BY <3>2, <3>3
  <2>8. /\ loopStatus' = loopStatus /\ by' = by /\ loop' = loop /\ auto' = auto
    BY <2>2
  <2>9. Within(b, c)'
    BY <1>1, <1>2, <2>4, <2>5, <2>7, <2>8
  <2> QED
    BY <1>6, <2>6, <2>8, <2>9
<1>12. ASSUME UNCHANGED <<written, spoilt, auto>>,
              /\ loop' = "queue" => loop = "queue"
              /\ loop' = "announce" => loop = "announce" \/ c.streak < FixRounds
              /\ loopStatus' = "queued" /\ by' # "person" =>
                   loop = "queue" \/ (loopStatus = "queued" /\ by # "person")
       PROVE  Within(b, c)' /\ Covered'
  <2>1. c' = c /\ w' = w /\ b' = b /\ auto' = auto
    BY <1>4, <1>12
  <2> QED
    BY <1>1, <1>2, <1>3, <1>6, <1>12, <2>1
<1> HIDE DEF Within, Upto, Ahead, Tallies, Covered
<1>13. ASSUME Loop!Asks PROVE Within(b, c)' /\ Covered'
  BY <1>12, <1>13 DEF Loop!Asks
<1>14. ASSUME NEW verdict \in Loop!Verdicts, NEW fixable \in BOOLEAN,
              Loop!Settles(verdict, fixable)
       PROVE  Within(b, c)' /\ Covered'
  <2>1. loop' = "announce" => c.streak < FixRounds
    <3>1. loop' = "announce" => Loop!decideFixLoop(verdict, fixable) = "retry"
      BY <1>14 DEF Loop!Settles
    <3> QED
      BY <1>3, <3>1, LoopDecides DEF c
  <2>2. loop' # "queue" /\ loopStatus' # "queued" /\ UNCHANGED <<written, spoilt, auto>>
    BY <1>14 DEF Loop!Settles, Loop!applyFixLoopDecision
  <2> QED
    BY <1>12, <2>1, <2>2
<1>15. ASSUME Loop!Queues PROVE Within(b, c)' /\ Covered'
  BY <1>12, <1>15 DEF Loop!Queues
<1>16. ASSUME NEW who \in {"person", "daemon"}, Loop!Reply(who)
       PROVE  Within(b, c)' /\ Covered'
  BY <1>12, <1>16 DEF Loop!Reply
<1>17. ASSUME NEW who \in {"person", "daemon"}, Loop!Resume(who)
       PROVE  Within(b, c)' /\ Covered'
  BY <1>12, <1>17 DEF Loop!Resume
<1>18. ASSUME Loop!Interrupt PROVE Within(b, c)' /\ Covered'
  BY <1>12, <1>18 DEF Loop!Interrupt
<1>19. ASSUME Loop!Crash PROVE Within(b, c)' /\ Covered'
  BY <1>0, <1>12, <1>19 DEF Loop!Crash
<1>20. ASSUME Loop!Closes PROVE Within(b, c)' /\ Covered'
  BY <1>12, <1>20 DEF Loop!Closes
<1>21. ASSUME Loop!Opens PROVE Within(b, c)' /\ Covered'
  BY <1>12, <1>21 DEF Loop!Opens
<1>22. ASSUME UNCHANGED Loop!vars PROVE Within(b, c)' /\ Covered'
  BY <1>12, <1>22 DEF Loop!vars
<1>23. ~ Loop!RefusedLate
  BY DEF Loop!RefusedLate
<1>24. Within(b, c)' /\ Covered'
  <2> QED
    BY <1>8, <1>9, <1>10, <1>11, <1>13, <1>14, <1>15, <1>16, <1>17, <1>18, <1>19, <1>20,
       <1>21, <1>22, <1>23 DEF Loop!Next
<1> QED
  BY <1>0, <1>24 DEF LoopInv, b, c

\* It holds at the start.
LEMMA LoopInit == Loop!ParametersAreSound => (Loop!Init => LoopInv)
<1> SUFFICES ASSUME Loop!ParametersAreSound, Loop!Init PROVE LoopInv
  OBVIOUS
<1>1. Loop!TypeOK /\ by # "daemon" /\ loopStatus # "stranded" /\ written = <<>> /\ spoilt = {}
      /\ by = "person" /\ loop = "none" /\ auto = 0
  <2>1. <<>> \in Seq({"marker", "retract", "turn"}) /\ {} \subseteq 1 .. Len(<<>>)
        /\ 1 \in 1 .. FixTurns /\ 0 \in 0 .. FixFaults
    BY DEF Loop!ParametersAreSound
  <2>2. Loop!TypeOK
    BY <2>1 DEF Loop!Init, Loop!TypeOK, Loop!Statuses, Loop!Replyable
  <2> QED
    BY <2>2 DEF Loop!Init
<1>2. Left(written, spoilt) = <<>>
  BY <1>1 DEF Left
<1>3. Allowed = 0
  BY <1>1, LoopParts, FS_EmptySet DEF Allowed
<1>4. TallyLeft = NoTally /\ Tally(written) = NoTally
  BY <1>1, <1>2, TallyGrows DEF TallyLeft
<1> QED
  BY <1>1, <1>3, <1>4, LoopParts DEF LoopInv, Within, Covered, NoTally, Upto

\* And it bounds the turns.
LEMMA LoopBound ==
  Loop!ParametersAreSound /\ LoopInv =>
    Loop!TypeOK /\ Loop!RoundsBounded /\ Loop!CountCoversTheMachine
<1> SUFFICES ASSUME Loop!ParametersAreSound, LoopInv
             PROVE  Loop!TypeOK /\ Loop!RoundsBounded /\ Loop!CountCoversTheMachine
  OBVIOUS
<1>1. /\ FixRounds \in Nat /\ FixRounds >= 1 /\ auto \in Nat
      /\ written \in Seq(Written) /\ spoilt \in SUBSET (1 .. Len(written))
  BY LoopParts DEF LoopInv, Loop!TypeOK, Written
<1>2. Cardinality(spoilt) \in Nat
  <2>1. IsFiniteSet(1 .. Len(written))
    BY <1>1, FS_Interval
  <2> QED
    BY <1>1, <2>1, FS_Subset, FS_CardinalityType
<1>3. Loop!CountCoversTheMachine
  BY DEF LoopInv, Covered, Loop!CountCoversTheMachine, Loop!autoFixRoundsUsed, Tally, NoTally
<1>4. TallyLeft \in Tallies
  BY <1>1, LeftGrows, TallyGrows DEF TallyLeft
<1>5. auto <= Allowed + FixRounds
  <2>1. auto <= Allowed + Upto(TallyLeft.streak)
    BY DEF LoopInv, Within
  <2>2. Upto(TallyLeft.streak) <= FixRounds /\ Upto(TallyLeft.streak) \in Nat
    BY <1>1, <1>4 DEF Upto, Tallies
  <2>3. Allowed \in Nat
    BY <1>1, <1>2 DEF Allowed
  <2> QED
    BY <1>1, <2>1, <2>2, <2>3
<1>6. Allowed + FixRounds = FixRounds * (Cardinality(spoilt) + 1)
  <2> DEFINE k == Cardinality(spoilt)
  <2>1. k \in Nat
    BY <1>2
  <2> HIDE DEF k
  <2>2. FixRounds * (k + 1) = FixRounds * k + FixRounds
    BY <1>1, <2>1
  <2> QED
    BY <2>2 DEF Allowed, k
<1>7. Loop!Cardinality(spoilt) = Cardinality(spoilt)
  BY DEF Loop!Cardinality, Loop!IsFiniteSet, Cardinality, IsFiniteSet
<1> QED
  BY <1>3, <1>5, <1>6, <1>7 DEF LoopInv, Loop!RoundsBounded

\* The invariant with the daemon and the refusals: each fault has allowed a budget
\* and one turn more, which a cut or a stranded round already has to its credit.
Forgiven == loopFaults * (FixRounds + 1)
Credited == loopStatus \in {"interrupted", "stranded"} => auto + 1 <= Forgiven
FaultyInv == FaultyLoop!TypeOK /\ Within(Forgiven, TallyLeft) /\ Credited

\* Every variable keeps its type, the daemon's rounds and the refusals among them.
LEMMA FaultyTyped ==
  ASSUME FaultyLoop!ParametersAreSound, FaultyLoop!TypeOK,
         [FaultyLoop!Next]_(FaultyLoop!vars)
  PROVE  FaultyLoop!TypeOK'
<1> USE DEF FaultyLoop!ParametersAreSound, FaultyLoop!TypeOK, FaultyLoop!Statuses,
            FaultyLoop!Replyable
<1>1. CASE FaultyLoop!TurnStarts
  BY <1>1 DEF FaultyLoop!TurnStarts
<1>2. CASE FaultyLoop!Asks
  BY <1>2 DEF FaultyLoop!Asks
<1>3. CASE FaultyLoop!Announces
  BY <1>3 DEF FaultyLoop!Announces
<1>4. CASE FaultyLoop!Queues
  BY <1>4 DEF FaultyLoop!Queues
<1>5. CASE FaultyLoop!Refused
  BY <1>5 DEF FaultyLoop!Refused
<1>6. CASE FaultyLoop!RefusedLate
  BY <1>6 DEF FaultyLoop!RefusedLate
<1>7. ASSUME NEW verdict \in FaultyLoop!Verdicts, NEW fixable \in BOOLEAN,
             FaultyLoop!Settles(verdict, fixable)
      PROVE  FaultyLoop!TypeOK'
  <2>1. FaultyLoop!decideFixLoop(verdict, fixable) = "retry"
          => FaultyLoop!applyFixLoopDecision(verdict, "retry") = "review_ko"
    BY DEF FaultyLoop!decideFixLoop, FaultyLoop!applyFixLoopDecision,
           FaultyLoop!LOOP_BLOCKERS
  <2> QED
    BY <1>7, <2>1 DEF FaultyLoop!Settles, FaultyLoop!applyFixLoopDecision
<1>8. ASSUME NEW who \in {"person", "daemon"}, FaultyLoop!Reply(who)
      PROVE  FaultyLoop!TypeOK'
  BY <1>8 DEF FaultyLoop!Reply
<1>9. ASSUME NEW who \in {"person", "daemon"}, FaultyLoop!Resume(who)
      PROVE  FaultyLoop!TypeOK'
  BY <1>9 DEF FaultyLoop!Resume
<1>10. CASE FaultyLoop!Interrupt
  BY <1>10 DEF FaultyLoop!Interrupt, FaultyLoop!Fault
<1>11. CASE FaultyLoop!Crash
  BY <1>11 DEF FaultyLoop!Crash, FaultyLoop!Fault
<1>12. CASE FaultyLoop!Spoils
  BY <1>12 DEF FaultyLoop!Spoils, FaultyLoop!Fault
<1>13. CASE FaultyLoop!Closes
  BY <1>13 DEF FaultyLoop!Closes, FaultyLoop!Fault
<1>14. CASE FaultyLoop!Opens
  BY <1>14 DEF FaultyLoop!Opens
<1>15. CASE UNCHANGED FaultyLoop!vars
  BY <1>15 DEF FaultyLoop!vars
<1> QED
  BY <1>1, <1>2, <1>3, <1>4, <1>5, <1>6, <1>7, <1>8, <1>9, <1>10, <1>11, <1>12, <1>13,
     <1>14, <1>15 DEF FaultyLoop!Next

\* The count that decides is the tally of what is left, here too.
LEMMA FaultyDecides ==
  ASSUME NEW verdict \in FaultyLoop!Verdicts, NEW fixable \in BOOLEAN,
         FaultyLoop!ParametersAreSound,
         FaultyLoop!decideFixLoop(verdict, fixable) = "retry", TallyLeft \in Tallies
  PROVE  TallyLeft.streak < FixRounds
<1>1. FaultyLoop!autoFixRoundsUsed(FaultyLoop!Readable) = TallyLeft.streak
  <2>1. \A s : FaultyLoop!FoldLeft(FaultyLoop!Reads, NoTally, s) = Tally(s)
    BY DEF Tally, FaultyLoop!FoldLeft, Loop!FoldLeft, FaultyLoop!MapThenFoldSet,
           Loop!MapThenFoldSet, FaultyLoop!Max, Loop!Max, FaultyLoop!Reads, Loop!Reads
  <2>2. FaultyLoop!Readable = Left(written, spoilt)
    BY DEF FaultyLoop!Readable, Left
  <2>3. FaultyLoop!autoFixRoundsUsed(Left(written, spoilt))
          = FaultyLoop!FoldLeft(FaultyLoop!Reads, NoTally, Left(written, spoilt)).streak
    BY DEF FaultyLoop!autoFixRoundsUsed, NoTally
  <2> QED
    BY <2>1, <2>2, <2>3 DEF TallyLeft
<1>2. FaultyLoop!autoFixRoundsUsed(FaultyLoop!Readable) < FaultyLoop!effectiveMax(verdict)
  BY DEF FaultyLoop!decideFixLoop
<1> QED
  BY <1>1, <1>2 DEF FaultyLoop!effectiveMax, FaultyLoop!JUDGMENT_ONLY_MAX_ROUNDS, Tallies,
                    FaultyLoop!ParametersAreSound

\* A round within a bound is within the bound and more.
LEMMA RoomForMore ==
  ASSUME NEW x \in Nat, NEW y \in Nat, NEW n \in Nat, x + 1 <= y
  PROVE  x + 1 <= y + n /\ x <= y + n
OBVIOUS

\* Every step keeps within what the faults allow.
LEMMA FaultyStep ==
  ASSUME FaultyLoop!ParametersAreSound, FaultyInv, [FaultyLoop!Next]_(FaultyLoop!vars)
  PROVE  FaultyInv'
<1> DEFINE c == TallyLeft
           b == Forgiven
           Kept == Within(b, c) /\ Credited
<1>0. FaultyLoop!TypeOK /\ FaultyLoop!TypeOK'
  BY FaultyTyped DEF FaultyInv
<1>1. /\ FixRounds \in Nat /\ FixRounds >= 1 /\ auto \in Nat /\ auto' \in Nat
      /\ loopFaults \in Nat /\ b \in Nat
      /\ written \in Seq(Written) /\ spoilt \in SUBSET (1 .. Len(written))
      /\ written' \in Seq(Written) /\ spoilt' \in SUBSET (1 .. Len(written'))
  <2>1. FixRounds \in Nat /\ FixRounds >= 1 /\ loopFaults \in Nat
    BY <1>0 DEF FaultyLoop!TypeOK, FaultyLoop!ParametersAreSound
  <2>2. b \in Nat
    BY <2>1 DEF Forgiven
  <2> QED
    BY <1>0, <2>1, <2>2 DEF FaultyLoop!TypeOK, Written
<1>2. c \in Tallies /\ c' \in Tallies
  <2>1. c' = Tally(Left(written', spoilt'))
    BY DEF TallyLeft, Left, Tally
  <2> QED
    BY <1>1, <2>1, LeftGrows, TallyGrows DEF TallyLeft
<1>3. ASSUME loopFaults' = loopFaults PROVE b' = b
  BY <1>3 DEF Forgiven
<1>4. ASSUME loopFaults' = loopFaults + 1 PROVE b' = b + FixRounds + 1
  BY <1>1, <1>4 DEF Forgiven
<1>5. ASSUME UNCHANGED <<written, spoilt>> PROVE c' = c
  BY <1>5 DEF TallyLeft, Left, Tally
<1>6. ASSUME NEW x \in Written, written' = Append(written, x), spoilt' = spoilt
      PROVE  c' = Loop!Reads(c, x)
  <2>1. x \in Lines
    BY DEF Written, Lines
  <2>2. Left(written', spoilt') = Append(Left(written, spoilt), x)
    BY <1>1, <1>6, LeftGrows
  <2>3. c' = Tally(Left(written', spoilt'))
    BY DEF TallyLeft, Left, Tally
  <2> QED
    BY <1>1, <2>1, <2>2, <2>3, LeftGrows, TallyGrows DEF TallyLeft
<1>7. Kept
  BY DEF FaultyInv
<1>8. Kept' <=> Within(b, c)' /\ (loopStatus' \in {"interrupted", "stranded"}
                                    => auto' + 1 <= b')
  BY DEF Credited
<1>9. Credited <=> (loopStatus \in {"interrupted", "stranded"} => auto + 1 <= b)
  BY DEF Credited
<1> HIDE DEF b, c
<1> USE DEF Within, Upto, Ahead, Tallies
<1>10. ASSUME loopFaults' = loopFaults + 1, auto' = auto PROVE Kept'
  <2>1. auto <= b + FixRounds
    BY <1>1, <1>2, <1>7
  <2>2. auto' + 1 <= b'
    BY <1>1, <1>4, <1>10, <2>1
  <2>3. b' \in Nat
    BY <1>1, <1>4, <1>10
  <2>4. /\ Upto(c'.streak) \in Nat /\ Upto(c'.streak + 1) \in Nat
        /\ Upto(Ahead(c')) \in Nat
    BY <1>1, <1>2
  <2>5. Within(b, c)'
    <3> HIDE DEF Upto, Ahead
    <3>1. ASSUME NEW n \in Nat PROVE auto' + 1 <= b' + n /\ auto' <= b' + n
      <4>1. auto' \in Nat /\ b' \in Nat /\ auto' + 1 <= b'
        BY <1>1, <2>2, <2>3
      <4> QED
        BY ONLY <4>1, n \in Nat, RoomForMore
    <3> QED
      BY <2>4, <3>1
  <2> QED
    BY <1>8, <2>2, <2>5
<1>11. ASSUME FaultyLoop!TurnStarts PROVE Kept'
  <2>1. c' = Loop!Reads(c, "turn") /\ b' = b
    BY <1>3, <1>6, <1>11 DEF FaultyLoop!TurnStarts, Written
  <2>2. loop' = "none" /\ loopStatus' = "running" /\ loopStatus = "queued"
        /\ auto' = IF by = "person" THEN 0 ELSE auto + 1
    BY <1>0, <1>11 DEF FaultyLoop!TurnStarts, FaultyLoop!TypeOK
  <2>3. c'.streak = Ahead(c)
    BY <1>2, <2>1 DEF Loop!Reads
  <2>4. auto' <= b' + Upto(c'.streak)
    BY <1>1, <1>2, <1>7, <2>1, <2>2, <2>3
  <2> QED
    BY <1>8, <2>2, <2>4
<1>12. ASSUME FaultyLoop!Announces PROVE Kept'
  <2>1. c' = Loop!Reads(c, "marker") /\ b' = b
    BY <1>3, <1>6, <1>12 DEF FaultyLoop!Announces, Written
  <2>2. /\ loop = "announce" /\ loop' = "queue" /\ loopStatus' = "review_ko" /\ auto' = auto
    BY <1>0, <1>12 DEF FaultyLoop!Announces, FaultyLoop!TypeOK
  <2>3. c'.streak = c.streak /\ c'.announced
    BY <1>2, <2>1 DEF Loop!Reads
  <2>4. Within(b, c)'
    BY <1>1, <1>2, <1>7, <2>1, <2>2, <2>3
  <2> QED
    BY <1>8, <2>2, <2>4
<1>13. ASSUME FaultyLoop!Refused PROVE Kept'
  <2>1. CASE loopFaults' = loopFaults + 1
    BY <1>10, <1>13, <2>1 DEF FaultyLoop!Refused
  <2>2. CASE loopFaults' = loopFaults
    <3>1. c' = Loop!Reads(c, "retract") /\ b' = b
      BY <1>3, <1>6, <1>13, <2>2 DEF FaultyLoop!Refused, Written
    <3>2. loop = "queue" /\ loop' = "none" /\ loopStatus' = "review_ko" /\ auto' = auto
      BY <1>0, <1>13 DEF FaultyLoop!Refused, FaultyLoop!TypeOK
    <3>3. c'.streak = c.streak
      BY <1>2, <3>1 DEF Loop!Reads
    <3>4. Within(b, c)'
      BY <1>1, <1>2, <1>7, <3>1, <3>2, <3>3
    <3> QED
      BY <1>8, <3>2, <3>4
  <2> QED
    BY <1>13, <2>1, <2>2 DEF FaultyLoop!Refused
<1>14. ASSUME UNCHANGED <<written, spoilt, auto, loopFaults>>,
              /\ loop' = "queue" => loop = "queue"
              /\ loop' = "announce" => loop = "announce" \/ c.streak < FixRounds
              /\ loopStatus' = "queued" /\ by' # "person" =>
                   \/ loop = "queue" \/ (loopStatus = "queued" /\ by # "person")
                   \/ loopStatus \in {"interrupted", "stranded"}
              /\ loopStatus' \in {"interrupted", "stranded"} =>
                   loopStatus \in {"interrupted", "stranded"}
       PROVE  Kept'
  <2>1. c' = c /\ b' = b /\ auto' = auto
    BY <1>3, <1>5, <1>14
  <2>2. Within(b, c)'
    BY <1>1, <1>2, <1>7, <1>9, <1>14, <2>1
  <2> QED
    BY <1>7, <1>8, <1>9, <1>14, <2>1, <2>2
<1> HIDE DEF Within, Upto, Ahead, Tallies, Kept
<1>15. ASSUME FaultyLoop!Asks PROVE Kept'
  BY <1>14, <1>15 DEF FaultyLoop!Asks
<1>16. ASSUME NEW verdict \in FaultyLoop!Verdicts, NEW fixable \in BOOLEAN,
              FaultyLoop!Settles(verdict, fixable)
       PROVE  Kept'
  <2>1. loop' = "announce" => c.streak < FixRounds
    <3>1. loop' = "announce" => FaultyLoop!decideFixLoop(verdict, fixable) = "retry"
      BY <1>16 DEF FaultyLoop!Settles
    <3> QED
      BY <1>2, <3>1, FaultyDecides DEF c
  <2>2. /\ loop' # "queue" /\ loopStatus' # "queued"
        /\ loopStatus' \notin {"interrupted", "stranded"}
        /\ UNCHANGED <<written, spoilt, auto, loopFaults>>
    BY <1>16 DEF FaultyLoop!Settles, FaultyLoop!applyFixLoopDecision
  <2> QED
    BY <1>14, <2>1, <2>2
<1>17. ASSUME FaultyLoop!Queues PROVE Kept'
  BY <1>14, <1>17 DEF FaultyLoop!Queues
<1>18. ASSUME FaultyLoop!RefusedLate PROVE Kept'
  BY <1>10, <1>18 DEF FaultyLoop!RefusedLate
<1>19. ASSUME NEW who \in {"person", "daemon"}, FaultyLoop!Reply(who) PROVE Kept'
  BY <1>14, <1>19 DEF FaultyLoop!Reply
<1>20. ASSUME NEW who \in {"person", "daemon"}, FaultyLoop!Resume(who) PROVE Kept'
  BY <1>14, <1>20 DEF FaultyLoop!Resume
<1>21. ASSUME FaultyLoop!Interrupt PROVE Kept'
  BY <1>10, <1>21 DEF FaultyLoop!Interrupt, FaultyLoop!Fault
<1>22. ASSUME FaultyLoop!Crash PROVE Kept'
  BY <1>10, <1>22 DEF FaultyLoop!Crash, FaultyLoop!Fault
<1>23. ASSUME FaultyLoop!Spoils PROVE Kept'
  BY <1>10, <1>23 DEF FaultyLoop!Spoils, FaultyLoop!Fault
<1>24. ASSUME FaultyLoop!Closes PROVE Kept'
  BY <1>10, <1>24 DEF FaultyLoop!Closes, FaultyLoop!Fault
<1>25. ASSUME FaultyLoop!Opens PROVE Kept'
  BY <1>14, <1>25 DEF FaultyLoop!Opens
<1>26. ASSUME UNCHANGED FaultyLoop!vars PROVE Kept'
  BY <1>14, <1>26 DEF FaultyLoop!vars
<1>27. Kept'
  BY <1>11, <1>12, <1>13, <1>15, <1>16, <1>17, <1>18, <1>19, <1>20, <1>21, <1>22, <1>23,
     <1>24, <1>25, <1>26 DEF FaultyLoop!Next
<1> QED
  BY <1>0, <1>27 DEF FaultyInv, Kept, b, c

\* It holds at the start.
LEMMA FaultyInit == FaultyLoop!ParametersAreSound => (FaultyLoop!Init => FaultyInv)
<1> SUFFICES ASSUME FaultyLoop!ParametersAreSound, FaultyLoop!Init PROVE FaultyInv
  OBVIOUS
<1>0. FixRounds \in Nat \ {0} /\ FaultyFixTurns \in Nat \ {0} /\ FixFaults \in Nat
  BY DEF FaultyLoop!ParametersAreSound
<1>1. FaultyLoop!TypeOK
  <2>1. <<>> \in Seq({"marker", "retract", "turn"}) /\ {} \subseteq 1 .. Len(<<>>)
        /\ 1 \in 1 .. FaultyFixTurns /\ 0 \in 0 .. FixFaults
    BY <1>0
  <2> QED
    BY <2>1 DEF FaultyLoop!Init, FaultyLoop!TypeOK, FaultyLoop!Statuses,
                FaultyLoop!Replyable
<1>2. Left(written, spoilt) = <<>>
  BY DEF Left, FaultyLoop!Init
<1>3. Forgiven = 0
  BY <1>0 DEF Forgiven, FaultyLoop!Init
<1>4. TallyLeft = NoTally
  BY <1>2, TallyGrows DEF TallyLeft
<1> QED
  BY <1>0, <1>1, <1>3, <1>4
     DEF FaultyInv, Within, Credited, NoTally, Upto, FaultyLoop!Init

\* And it bounds the turns.
LEMMA FaultyBound ==
  FaultyLoop!ParametersAreSound /\ FaultyInv => FaultyLoop!EachFaultRenewsOnce
<1> SUFFICES ASSUME FaultyLoop!ParametersAreSound, FaultyInv
             PROVE  FaultyLoop!EachFaultRenewsOnce
  OBVIOUS
<1>1. /\ FixRounds \in Nat /\ FixRounds >= 1 /\ auto \in Nat /\ loopFaults \in Nat
      /\ written \in Seq(Written) /\ spoilt \in SUBSET (1 .. Len(written))
  BY DEF FaultyInv, FaultyLoop!TypeOK, FaultyLoop!ParametersAreSound, Written
<1>2. TallyLeft \in Tallies
  BY <1>1, LeftGrows, TallyGrows DEF TallyLeft
<1>3. Upto(TallyLeft.streak) <= FixRounds /\ Upto(TallyLeft.streak) \in Nat
  BY <1>1, <1>2 DEF Upto, Tallies
<1>4. auto <= Forgiven + Upto(TallyLeft.streak)
  BY DEF FaultyInv, Within
<1>5. Forgiven \in Nat
  BY <1>1 DEF Forgiven
<1>6. auto <= FixRounds + Forgiven
  BY <1>1, <1>3, <1>4, <1>5
<1> QED
  BY <1>6 DEF FaultyLoop!EachFaultRenewsOnce, Forgiven

\* The machine starts no more turns in a row than the rounds configured, each line
\* the journal has lost renewing them once, and the count over the journal as it
\* was written covers them all; with the daemon resuming what was cut and the queue
\* refusing, each fault renews them once: for any bound, any number of turns and
\* any number of faults.
THEOREM RoundsRunOut == EngineSpec => []RoundsBounded
<1> DEFINE Inv == (part = "loop" => LoopInv) /\ (part = "loop faults" => FaultyInv)
<1>0. Loop!ParametersAreSound /\ FaultyLoop!ParametersAreSound
  BY PartsAreSound
<1>1. EngineInit => Inv
  <2>1. Loop!Init => FaultyLoop!Init
    BY DEF Loop!Init, FaultyLoop!Init
  <2> QED
    BY <1>0, <2>1, LoopInit, FaultyInit DEF EngineInit
<1>2. ASSUME Inv, [EngineNext]_engineVars PROVE Inv'
  <2>1. /\ part' = part
        /\ part = "loop" => [Loop!Next]_(Loop!vars)
        /\ part = "loop faults" => [FaultyLoop!Next]_(FaultyLoop!vars)
    BY <1>2 DEF EngineNext, engineVars, loopVars, Loop!vars, FaultyLoop!vars
  <2>2. CASE part = "loop"
    BY <1>0, <1>2, <2>1, <2>2, LoopStep
  <2>3. CASE part = "loop faults"
    BY <1>0, <1>2, <2>1, <2>3, FaultyStep
  <2> QED
    BY <2>1, <2>2, <2>3
<1>3. Inv => RoundsBounded
  BY <1>0, LoopBound, FaultyBound DEF RoundsBounded
<1> QED
  BY <1>1, <1>2, <1>3, PTL DEF EngineSpec

-----------------------------------------------------------------------------
(* The tasks held until their issues are compared (Tickets) *)

\* The lists that name each task once at most, and the tasks that wait.
Rows == {s \in Seq(Line!Tasks) : IsInjective(s)}
Waiting == {t \in Line!Tasks : ticketStatus[t] = "queued"}

\* Those that both lists have are in the same order in them.
InOrder(r, s) ==
  \A a, b \in Range(r) \cap Range(s) : Precedes(r, a, b) => Precedes(s, a, b)

\* The instance's lists are these, and its filter is the filter.
LEMMA LineLists ==
  /\ \A s, S : Line!Only(s, S) = Only(s, S)
  /\ \A s : Line!Range(s) = Range(s)
  /\ Line!ParametersAreSound => Line!Perms = Rows
<1>1. \A s, S : Line!Only(s, S) = Only(s, S)
  BY DEF Only, Line!Only, Cardinality, Line!Cardinality
<1>2. \A s : Line!Range(s) = Range(s)
  BY DEF Line!Range, Range
<1>3. ASSUME Line!ParametersAreSound PROVE Line!Perms = Rows
  <2> DEFINE N == LineTasks
  <2>0. N \in Nat
    BY <1>3 DEF Line!ParametersAreSound
  <2>1. ASSUME NEW s \in Line!Perms PROVE s \in Rows
    <3>1. PICK k \in 0 .. N : s \in [1 .. k -> Line!Tasks]
      BY DEF Line!Perms
    <3>2. s \in Seq(Line!Tasks)
      BY <2>0, <3>1
    <3> QED
      BY <3>2 DEF Line!Perms, Rows, Line!IsInjective, IsInjective
  <2>2. ASSUME NEW s \in Rows PROVE s \in Line!Perms
    <3>1. s \in Seq(Line!Tasks) /\ IsInjective(s) /\ Len(s) \in Nat
          /\ DOMAIN s = 1 .. Len(s) /\ s \in [1 .. Len(s) -> Line!Tasks]
      BY LenProperties DEF Rows
    <3>2. IsFiniteSet(1 .. N) /\ Cardinality(1 .. N) = N
      BY <2>0, FS_Interval
    <3>3. IsFiniteSet(1 .. Len(s)) /\ Cardinality(1 .. Len(s)) = Len(s)
      BY <3>1, FS_Interval
    <3>4. s \in [1 .. Len(s) -> 1 .. N] /\ Line!Tasks = 1 .. N
      BY <3>1 DEF Line!Tasks
    <3>5. \A x, y \in 1 .. Len(s) : s[x] = s[y] => x = y
      <4>1. IsInjective(s) /\ DOMAIN s = 1 .. Len(s)
        BY <3>1
      <4> QED
        BY ONLY <4>1 DEF IsInjective
    <3>6. ASSUME N < Len(s) PROVE FALSE
      <4> DEFINE S == 1 .. Len(s)
                 T == 1 .. N
      <4>1. /\ IsFiniteSet(S) /\ IsFiniteSet(T) /\ Cardinality(T) < Cardinality(S)
            /\ s \in [S -> T]
        BY <3>2, <3>3, <3>4, <3>6
      <4>2. \A x, y \in S : s[x] = s[y] => x = y
        BY <3>5
      <4> HIDE DEF S, T
      <4>3. \E x, y \in S : x # y /\ s[x] = s[y]
        BY <4>1, FS_PigeonHole
      <4> QED
        BY <4>2, <4>3
    <3>7. Len(s) \in 0 .. N
      BY <2>0, <3>1, <3>6
    <3>8. Line!IsInjective(s)
      BY <3>1 DEF Line!IsInjective, IsInjective
    <3> QED
      BY <3>1, <3>7, <3>8 DEF Line!Perms
  <2> QED
    BY <2>1, <2>2
<1> QED
  BY <1>1, <1>2, <1>3

\* A filter of such a list is one, has what the list has of the set, in its order.
LEMMA RowsFilter ==
  ASSUME NEW s \in Rows, NEW S
  PROVE  /\ Only(s, S) \in Rows
         /\ Range(Only(s, S)) = Range(s) \cap S
         /\ \A a, b : Precedes(Only(s, S), a, b) <=> Precedes(s, a, b) /\ a \in S /\ b \in S
<1>1. s \in Seq(Line!Tasks) /\ IsInjective(s)
  BY DEF Rows
<1>2. Only(s, S) \in Seq(Line!Tasks) /\ IsInjective(Only(s, S))
  BY <1>1, OnlyProperties
<1>3. \A x : (\E i \in 1 .. Len(Only(s, S)) : Only(s, S)[i] = x)
               <=> (\E i \in 1 .. Len(s) : s[i] = x) /\ x \in S
  BY <1>1, OnlyProperties DEF Contains
<1>4. DOMAIN s = 1 .. Len(s) /\ DOMAIN Only(s, S) = 1 .. Len(Only(s, S))
  BY <1>1, <1>2, LenProperties
<1>5. Range(Only(s, S)) = Range(s) \cap S
  BY <1>3, <1>4 DEF Range
<1>6. \A a, b : Precedes(Only(s, S), a, b) <=> Precedes(s, a, b) /\ a \in S /\ b \in S
  BY <1>1, OnlyKeepsOrder
<1> QED
  BY <1>2, <1>5, <1>6 DEF Rows

\* Who leaves a list leaves the others where they were.
LEMMA RowsWithout ==
  ASSUME NEW s \in Rows, NEW ids
  PROVE  /\ Line!Without(s, ids) \in Rows
         /\ Range(Line!Without(s, ids)) = Range(s) \ ids
         /\ \A a, b : Precedes(Line!Without(s, ids), a, b)
                        <=> Precedes(s, a, b) /\ a \notin ids /\ b \notin ids
<1>1. Line!Without(s, ids) = Only(s, Line!Tasks \ ids)
  BY LineLists DEF Line!Without
<1>2. DOMAIN s = 1 .. Len(s) /\ \A i \in 1 .. Len(s) : s[i] \in Line!Tasks
  BY LenProperties, ElementOfSeq DEF Rows
<1>3. Range(s) \subseteq Line!Tasks
  BY <1>2 DEF Range
<1>4. \A a, b : Precedes(s, a, b) => a \in Line!Tasks /\ b \in Line!Tasks
  BY <1>2 DEF Precedes
<1>5. /\ Only(s, Line!Tasks \ ids) \in Rows
      /\ Range(Only(s, Line!Tasks \ ids)) = Range(s) \cap (Line!Tasks \ ids)
      /\ \A a, b : Precedes(Only(s, Line!Tasks \ ids), a, b)
                     <=> Precedes(s, a, b) /\ a \in Line!Tasks \ ids /\ b \in Line!Tasks \ ids
  BY RowsFilter
<1> QED
  BY <1>1, <1>3, <1>4, <1>5

\* Who comes last comes after the others.
LEMMA RowsAppend ==
  ASSUME NEW s \in Rows, NEW t \in Line!Tasks, t \notin Range(s)
  PROVE  /\ Append(s, t) \in Rows
         /\ Range(Append(s, t)) = Range(s) \cup {t}
         /\ \A a, b : Precedes(s, a, b) => Precedes(Append(s, t), a, b)
<1> DEFINE r == Append(s, t)
<1>1. s \in Seq(Line!Tasks) /\ IsInjective(s) /\ Len(s) \in Nat /\ DOMAIN s = 1 .. Len(s)
  BY LenProperties DEF Rows
<1>2. r \in Seq(Line!Tasks) /\ Len(r) = Len(s) + 1 /\ DOMAIN r = 1 .. (Len(s) + 1)
      /\ r[Len(s) + 1] = t /\ \A i \in 1 .. Len(s) : r[i] = s[i]
  BY <1>1
<1> HIDE DEF r
<1>3. IsInjective(r)
  <2> SUFFICES ASSUME NEW i \in 1 .. (Len(s) + 1), NEW j \in 1 .. (Len(s) + 1), r[i] = r[j]
               PROVE  i = j
    BY <1>2 DEF IsInjective
  <2>1. \A k \in 1 .. Len(s) : s[k] # t
    BY <1>1 DEF Range
  <2>2. \A k \in 1 .. (Len(s) + 1) : k \in 1 .. Len(s) \/ k = Len(s) + 1
    BY <1>1
  <2> QED
    BY <1>1, <1>2, <2>1, <2>2 DEF IsInjective
<1>4. Range(r) = Range(s) \cup {t}
  <2>1. \A k \in 1 .. (Len(s) + 1) : k \in 1 .. Len(s) \/ k = Len(s) + 1
    BY <1>1
  <2>2. Len(s) + 1 \in 1 .. (Len(s) + 1) /\ 1 .. Len(s) \subseteq 1 .. (Len(s) + 1)
    BY <1>1
  <2> QED
    BY <1>1, <1>2, <2>1, <2>2 DEF Range
<1>5. \A a, b : Precedes(s, a, b) => Precedes(r, a, b)
  <2>1. 1 .. Len(s) \subseteq 1 .. Len(r)
    BY <1>1, <1>2
  <2> QED
    BY <1>2, <2>1 DEF Precedes
<1> QED
  BY <1>2, <1>3, <1>4, <1>5 DEF Rows, r

\* Ranks tell the order.
LEMMA RanksTell ==
  ASSUME NEW s \in Rows, NEW a \in Range(s), NEW b \in Range(s)
  PROVE  Line!Rank(s, a) < Line!Rank(s, b) <=> Precedes(s, a, b)
<1>1. DOMAIN s = 1 .. Len(s) /\ Len(s) \in Nat /\ IsInjective(s)
  BY LenProperties DEF Rows
<1>2. ASSUME NEW x \in Range(s) PROVE Line!Rank(s, x) \in 1 .. Len(s) /\ s[Line!Rank(s, x)] = x
  <2>1. \E k \in DOMAIN s : s[k] = x
    BY DEF Range
  <2> QED
    BY <1>1, <2>1 DEF Line!Rank
<1>3. ASSUME NEW i \in 1 .. Len(s), NEW j \in 1 .. Len(s), i < j, s[i] = a, s[j] = b
      PROVE  Line!Rank(s, a) = i /\ Line!Rank(s, b) = j
  BY <1>1, <1>2, <1>3 DEF IsInjective
<1> QED
  BY <1>2, <1>3 DEF Precedes

\* The invariant of the line: nobody is in the order of before but who waits; until
\* the comparison has landed everybody who waits is, and the line is that order, or
\* what is left of the list held; then the line has it, and who has come since.
LineInv ==
  /\ Line!TypeOK
  /\ Range(before) \subseteq Waiting
  /\ ~ pass => Waiting \subseteq Range(before)
  /\ ticketHeld # <<>> => runner /\ ~ pass
  /\ ~ pass /\ ticketHeld = <<>> => line = before
  /\ ~ pass /\ ticketHeld # <<>> =>
       /\ Range(before) \subseteq Range(ticketHeld) /\ Range(line) \subseteq Range(ticketHeld)
       /\ InOrder(before, ticketHeld)
  /\ pass => /\ Waiting \subseteq Range(line)
             /\ InOrder(before, line)

\* What the types say of the lists.
LEMMA LineTypes ==
  ASSUME Line!ParametersAreSound
  PROVE  Line!TypeOK <=>
           /\ ticketStatus \in [Line!Tasks -> {"queued", "running", "review_ok",
                                               "waiting_for_you", "interrupted", "shipped",
                                               "failed"}]
           /\ cut \in [Line!Tasks -> BOOLEAN]
           /\ reason \in [Line!Tasks -> {"none", "forge_unreachable", "other"}]
           /\ line \in Rows /\ ticketHeld \in Rows /\ before \in Rows
           /\ runner \in BOOLEAN /\ pass \in BOOLEAN /\ ticketTold \in BOOLEAN
           /\ compared \subseteq LineTicketed
           /\ ticketFaults = 0 /\ crashes = 0
<1>1. Line!Perms = Rows
  BY LineLists
<1>2. \A n : n \in 0 .. 0 <=> n = 0
  OBVIOUS
<1>3. {runner, pass, ticketTold} \subseteq BOOLEAN
        <=> runner \in BOOLEAN /\ pass \in BOOLEAN /\ ticketTold \in BOOLEAN
  OBVIOUS
<1> QED
  BY <1>1, <1>2, <1>3 DEF Line!TypeOK

\* Nothing moves in the line, and who waits does.
LEMMA LineStays ==
  ASSUME LineInv, Line!TypeOK', UNCHANGED <<line, before, ticketHeld, pass>>, runner => runner',
         Waiting' = Waiting
  PROVE  LineInv'
BY DEF LineInv, InOrder

\* One task leaves the line and the order, and waits no more.
LEMMA LineLeaves ==
  ASSUME Line!ParametersAreSound, LineInv, Line!TypeOK', NEW t \in Line!Tasks, Line!Leaves(t),
         UNCHANGED <<ticketHeld, pass, runner>>, Waiting' = Waiting \ {t}
  PROVE  LineInv'
<1>1. line \in Rows /\ before \in Rows
  BY LineTypes DEF LineInv
<1>2. line' = Line!Without(line, {t}) /\ before' = Line!Without(before, {t})
  BY DEF Line!Leaves
<1>3. Range(line') = Range(line) \ {t} /\ Range(before') = Range(before) \ {t}
  BY <1>1, <1>2, RowsWithout
<1>4. /\ \A a, b : Precedes(line', a, b) <=> Precedes(line, a, b) /\ a # t /\ b # t
      /\ \A a, b : Precedes(before', a, b) <=> Precedes(before, a, b) /\ a # t /\ b # t
  BY <1>1, <1>2, RowsWithout
<1>5. ~ pass /\ ticketHeld # <<>> => InOrder(before', ticketHeld)
  BY <1>3, <1>4 DEF LineInv, InOrder
<1>6. pass => InOrder(before', line')
  BY <1>3, <1>4 DEF LineInv, InOrder
<1>8. InOrder(before, ticketHeld)' <=> InOrder(before', ticketHeld')
  BY DEF InOrder
<1>9. InOrder(before, line)' <=> InOrder(before', line')
  BY DEF InOrder
<1> QED
  BY <1>2, <1>3, <1>5, <1>6, <1>8, <1>9 DEF LineInv

\* The types, primed.
LEMMA LineTypesNext ==
  ASSUME Line!ParametersAreSound
  PROVE  (/\ ticketStatus \in [Line!Tasks -> {"queued", "running", "review_ok",
                                               "waiting_for_you", "interrupted", "shipped",
                                               "failed"}]
          /\ cut \in [Line!Tasks -> BOOLEAN]
          /\ reason \in [Line!Tasks -> {"none", "forge_unreachable", "other"}]
          /\ line \in Rows /\ ticketHeld \in Rows /\ before \in Rows
          /\ runner \in BOOLEAN /\ pass \in BOOLEAN /\ ticketTold \in BOOLEAN
          /\ compared \subseteq LineTicketed
          /\ ticketFaults = 0 /\ crashes = 0)' => Line!TypeOK'
<1>1. Line!Perms = Rows
  BY LineLists
<1>2. \A n : n \in 0 .. 0 <=> n = 0
  OBVIOUS
<1>3. {runner', pass', ticketTold'} \subseteq BOOLEAN
        <=> runner' \in BOOLEAN /\ pass' \in BOOLEAN /\ ticketTold' \in BOOLEAN
  OBVIOUS
<1> QED
  BY <1>1, <1>2, <1>3 DEF Line!TypeOK

\* No write fails here and nothing crashes: what each step does to the line.
LEMMA LineStep ==
  ASSUME Line!ParametersAreSound, LineInv, [Line!Next]_(Line!vars)
  PROVE  LineInv'
<1> DEFINE Statuses == {"queued", "running", "review_ok", "waiting_for_you", "interrupted",
                        "shipped", "failed"}
           Reasons == {"none", "forge_unreachable", "other"}
<1>0. /\ ticketStatus \in [Line!Tasks -> Statuses]
      /\ cut \in [Line!Tasks -> BOOLEAN] /\ reason \in [Line!Tasks -> Reasons]
      /\ line \in Rows /\ ticketHeld \in Rows /\ before \in Rows
      /\ runner \in BOOLEAN /\ pass \in BOOLEAN /\ ticketTold \in BOOLEAN
      /\ compared \subseteq LineTicketed
      /\ ticketFaults = 0 /\ crashes = 0
      /\ LineTicketed \subseteq Line!Tasks
  BY LineTypes DEF LineInv, Line!ParametersAreSound, Line!Tasks
<1>1. /\ <<>> \in Rows
      /\ \A s \in Rows : s = <<>> <=> Range(s) = {}
      /\ \A s \in Rows : Range(s) \subseteq Line!Tasks
  <2>1. <<>> \in Seq(Line!Tasks) /\ DOMAIN <<>> = {}
    OBVIOUS
  <2>2. ASSUME NEW s \in Rows
        PROVE  (s = <<>> <=> Range(s) = {}) /\ Range(s) \subseteq Line!Tasks
    <3>1. s \in Seq(Line!Tasks) /\ DOMAIN s = 1 .. Len(s) /\ Len(s) \in Nat
          /\ \A i \in 1 .. Len(s) : s[i] \in Line!Tasks
      BY LenProperties, ElementOfSeq DEF Rows
    <3>2. s = <<>> <=> Len(s) = 0
      BY <3>1, EmptySeq
    <3>3. Len(s) # 0 => 1 \in DOMAIN s
      BY <3>1
    <3> QED
      BY <2>1, <3>1, <3>2, <3>3 DEF Range
  <2> QED
    BY <2>1, <2>2 DEF Rows, IsInjective
<1>2. ASSUME NEW t \in Line!Tasks, NEW x \in Statuses
      PROVE  /\ [ticketStatus EXCEPT ![t] = x] \in [Line!Tasks -> Statuses]
             /\ ticketStatus' = [ticketStatus EXCEPT ![t] = x] /\ x # "queued"
                  => Waiting' = Waiting \ {t}
  BY <1>0, <1>2 DEF Waiting
<1>3. ASSUME NEW t \in Line!Tasks, Line!Leaves(t) PROVE line' \in Rows /\ before' \in Rows
  BY <1>0, <1>3, RowsWithout DEF Line!Leaves
<1>4. ticketStatus' = ticketStatus => Waiting' = Waiting
  BY DEF Waiting
<1>5. ASSUME NEW t \in Line!Tasks, Line!Compare(t) PROVE LineInv'
  <2>1. t \in LineTicketed /\ compared' \subseteq LineTicketed
    BY <1>0, <1>5 DEF Line!Compare
  <2>2. UNCHANGED <<cut, ticketHeld, runner, pass, ticketTold, ticketFaults, crashes>>
    BY <1>5 DEF Line!Compare, Line!limits
  <2>3. reason' \in [Line!Tasks -> Reasons]
    <3>1. \A outcome : Line!Reason(t, outcome) \in Reasons
      BY <1>0 DEF Line!Reason
    <3> QED
      BY <1>0, <1>5, <3>1 DEF Line!Compare
  <2>4. CASE UNCHANGED <<ticketStatus, line, before>>
    <3>1. Line!TypeOK'
      BY <1>0, <2>1, <2>2, <2>3, <2>4, LineTypesNext
    <3> QED
      BY <1>4, <2>2, <2>4, <3>1, LineStays
  <2>5. CASE ticketStatus' = [ticketStatus EXCEPT ![t] = "waiting_for_you"] /\ Line!Leaves(t)
    <3>1. Line!TypeOK'
      BY <1>0, <1>2, <1>3, <2>1, <2>2, <2>3, <2>5, LineTypesNext
    <3> QED
      BY <1>2, <2>2, <2>5, <3>1, LineLeaves
  <2> QED
    BY <1>5, <2>4, <2>5 DEF Line!Compare
<1>6. ASSUME Line!BuildsContext PROVE LineInv'
  <2>1. UNCHANGED <<ticketStatus, cut, reason, pass, compared, before, crashes>> /\ ~ runner
        /\ runner' = TRUE /\ ticketHeld = <<>>
    BY <1>6 DEF Line!BuildsContext, Line!record, LineInv
  <2>2. CASE UNCHANGED <<line, ticketHeld, ticketTold, ticketFaults>>
    <3>1. Line!TypeOK'
      BY <1>0, <2>1, <2>2, LineTypesNext
    <3> QED
      BY <1>4, <2>1, <2>2, <3>1, LineStays
  <2>3. CASE /\ ~ pass /\ Line!ToHold # {}
             /\ line' = Line!Without(line, Line!ToHold) /\ ticketHeld' = line
             /\ UNCHANGED <<ticketTold, ticketFaults>>
    <3>1. line' \in Rows /\ Range(line') \subseteq Range(line)
      BY <1>0, <2>3, RowsWithout
    <3>2. Line!TypeOK'
      BY <1>0, <2>1, <2>3, <3>1, LineTypesNext
    <3>3. line = before /\ ticketHeld' = before /\ before' = before /\ pass' = pass
      BY <2>1, <2>3 DEF LineInv
    <3>4. Range(line) # {}
      BY <2>3, LineLists DEF Line!ToHold
    <3>5. ticketHeld' # <<>>
      BY <1>0, <1>1, <3>3, <3>4
    <3>6. InOrder(before, ticketHeld)'
      BY <3>3 DEF InOrder
    <3> QED
      BY <1>4, <2>1, <2>3, <3>1, <3>2, <3>3, <3>5, <3>6 DEF LineInv
  <2>4. ~ (ticketFaults < 0)
    BY <1>0
  <2> QED
    BY <1>6, <2>2, <2>3, <2>4 DEF Line!BuildsContext
<1>7. ASSUME Line!Lands PROVE LineInv'
  <2>1. /\ UNCHANGED <<ticketStatus, cut, reason, runner, compared, ticketTold, before, crashes>>
        /\ ~ pass /\ pass' = TRUE /\ ticketHeld' = <<>>
    BY <1>7 DEF Line!Lands, Line!record
  <2>2. CASE ticketHeld = <<>>
    <3>1. line' = line /\ ticketFaults' = ticketFaults
      BY <1>7, <2>2 DEF Line!Lands
    <3>2. Line!TypeOK'
      BY <1>0, <1>1, <2>1, <3>1, LineTypesNext
    <3>3. line = before
      BY <2>1, <2>2 DEF LineInv
    <3>4. InOrder(before, line)'
      BY <2>1, <3>1, <3>3 DEF InOrder
    <3> QED
      BY <1>4, <2>1, <3>1, <3>2, <3>3, <3>4 DEF LineInv
  <2>3. CASE ticketHeld # <<>>
    <3>1. Line!Wanted = Only(ticketHeld, Waiting)
      <4>1. Line!Without(line, Line!Range(ticketHeld)) = <<>>
        <5>1. /\ Line!Without(line, Range(ticketHeld)) \in Rows
              /\ Range(Line!Without(line, Range(ticketHeld))) = {}
          BY <1>0, <2>1, <2>3, RowsWithout DEF LineInv
        <5> QED
          BY <1>1, <5>1, LineLists
      <4>2. Line!Merged = ticketHeld
        BY <1>0, <4>1 DEF Line!Merged, Rows
      <4>3. Line!Queued = Waiting
        BY DEF Line!Queued, Waiting
      <4> QED
        BY <4>2, <4>3, LineLists DEF Line!Wanted
    <3> DEFINE w == Only(ticketHeld, Waiting)
    <3>2. /\ w \in Rows /\ Range(w) = Range(ticketHeld) \cap Waiting
          /\ \A a, b : Precedes(w, a, b) <=> Precedes(ticketHeld, a, b) /\ a \in Waiting
                                               /\ b \in Waiting
      BY <1>0, RowsFilter
    <3> HIDE DEF w
    <3>3. SubSeq(w, 1, Len(w)) = w
      BY <3>2 DEF Rows
    <3>4. line' = w /\ ticketFaults' = ticketFaults
      <4>1. ~ Line!ReleaseFails
        BY <1>0 DEF Line!ReleaseFails
      <4>2. PICK k \in 0 .. Len(w) : Line!Release(k)
        BY <1>7, <2>3, <3>1, <4>1 DEF Line!Lands, w
      <4>3. k = Len(w) /\ ticketFaults' = ticketFaults
        BY <1>0, <3>1, <4>2 DEF Line!Release, w
      <4> QED
        BY <3>1, <3>3, <4>2, <4>3 DEF Line!Release, w
    <3>5. Line!TypeOK'
      BY <1>0, <1>1, <2>1, <3>2, <3>4, LineTypesNext
    <3>6. /\ Range(before) = Waiting /\ Range(before) \subseteq Range(ticketHeld)
          /\ InOrder(before, ticketHeld)
      BY <2>1, <2>3 DEF LineInv
    <3>7. \A a, b \in Range(before) \cap Range(w) : Precedes(before, a, b) => Precedes(w, a, b)
      BY <3>2, <3>6 DEF InOrder
    <3>8. InOrder(before, line)'
      BY <2>1, <3>4, <3>7 DEF InOrder
    <3> QED
      BY <1>4, <2>1, <3>2, <3>4, <3>5, <3>6, <3>8 DEF LineInv
  <2> QED
    BY <2>2, <2>3
<1>8. ASSUME Line!Pump PROVE LineInv'
  <2>1. PICK k \in DOMAIN line :
          /\ ticketStatus' = [ticketStatus EXCEPT ![line[k]] = "running"]
          /\ cut' = [cut EXCEPT ![line[k]] = TRUE]
          /\ reason' = [reason EXCEPT ![line[k]] = "none"]
          /\ Line!Leaves(line[k])
    BY <1>8 DEF Line!Pump
  <2>2. UNCHANGED <<ticketHeld, runner, pass, compared, ticketTold, ticketFaults, crashes>>
    BY <1>8 DEF Line!Pump, Line!session, Line!limits
  <2>3. line[k] \in Line!Tasks
    BY <1>0, <1>1, <2>1 DEF Range
  <2>4. Line!TypeOK'
    BY <1>0, <1>2, <1>3, <2>1, <2>2, <2>3, LineTypesNext
  <2> QED
    BY <1>2, <2>1, <2>2, <2>3, <2>4, LineLeaves
<1>9. ASSUME NEW t \in Line!Tasks, Line!Settles(t) \/ Line!BeforeReview(t) PROVE LineInv'
  <2>1. UNCHANGED <<line, before, ticketHeld, runner, pass, compared, ticketTold, ticketFaults,
                    crashes>>
        /\ ticketStatus[t] = "running" /\ cut' = [cut EXCEPT ![t] = FALSE]
    BY <1>9 DEF Line!Settles, Line!BeforeReview, Line!session, Line!limits
  <2>2. PICK x \in {"waiting_for_you", "shipped", "review_ok"} :
          ticketStatus' = [ticketStatus EXCEPT ![t] = x]
    BY <1>9 DEF Line!Settles, Line!BeforeReview
  <2>3. reason' \in [Line!Tasks -> Reasons]
    <3>1. \A outcome : Line!Reason(t, outcome) \in Reasons
      BY <1>0 DEF Line!Reason
    <3> QED
      BY <1>0, <1>9, <3>1 DEF Line!Settles, Line!BeforeReview
  <2>4. Line!TypeOK'
    BY <1>0, <1>2, <2>1, <2>2, <2>3, LineTypesNext
  <2>5. Waiting' = Waiting
    BY <1>2, <2>1, <2>2 DEF Waiting
  <2> QED
    BY <2>1, <2>4, <2>5, LineStays
<1>10. ASSUME NEW t \in Line!Tasks, Line!Gesture(t) PROVE LineInv'
  <2>1. /\ UNCHANGED <<reason, before, ticketHeld, runner, pass, compared, ticketTold,
                       ticketFaults, crashes>>
        /\ pass /\ ticketStatus[t] # "queued"
        /\ ticketStatus' = [ticketStatus EXCEPT ![t] = "queued"]
        /\ cut' = [cut EXCEPT ![t] = TRUE]
        /\ line' = Line!Enqueued(line, t)
    BY <1>10 DEF Line!Gesture, Line!session, Line!limits
  <2>2. /\ line' \in Rows /\ Range(line') = Range(line) \cup {t}
        /\ \A a, b : Precedes(line, a, b) => Precedes(line', a, b)
    <3>1. CASE t \in Range(line)
      BY <1>0, <2>1, <3>1, LineLists DEF Line!Enqueued
    <3>2. CASE t \notin Range(line)
      BY <1>0, <2>1, <3>2, LineLists, RowsAppend DEF Line!Enqueued
    <3> QED
      BY <3>1, <3>2
  <2>3. Line!TypeOK'
    BY <1>0, <1>2, <2>1, <2>2, LineTypesNext
  <2>4. Waiting' = Waiting \cup {t}
    BY <1>0, <2>1 DEF Waiting
  <2>5. t \notin Range(before) /\ ticketHeld = <<>>
    BY <2>1 DEF LineInv, Waiting
  <2>6. \A a, b \in Range(before) \cap Range(line') : Precedes(before, a, b)
          => Precedes(line', a, b)
    BY <2>1, <2>2, <2>5 DEF LineInv, InOrder
  <2>7. InOrder(before, line)'
    BY <2>1, <2>6 DEF InOrder
  <2> QED
    BY <2>1, <2>2, <2>3, <2>4, <2>5, <2>7 DEF LineInv
<1>11. ASSUME NEW t \in Line!Tasks, Line!Abandon(t) PROVE LineInv'
  <2>1. /\ UNCHANGED <<cut, reason, ticketHeld, runner, pass, compared, ticketTold,
                       ticketFaults, crashes>>
        /\ ticketStatus' = [ticketStatus EXCEPT ![t] = "failed"] /\ Line!Leaves(t)
    BY <1>11 DEF Line!Abandon, Line!session, Line!limits
  <2>2. Line!TypeOK'
    BY <1>0, <1>2, <1>3, <2>1, LineTypesNext
  <2> QED
    BY <1>2, <2>1, <2>2, LineLeaves
<1>12. ~ Line!Crash
  BY <1>0 DEF Line!Crash
<1>13. ASSUME UNCHANGED Line!vars PROVE LineInv'
  <2>1. UNCHANGED <<ticketStatus, cut, reason, line, ticketHeld, runner, pass, compared,
                    ticketTold, before, ticketFaults, crashes>>
    BY <1>13 DEF Line!vars
  <2>2. Line!TypeOK'
    BY <1>0, <2>1, LineTypesNext
  <2> QED
    BY <1>4, <2>1, <2>2, LineStays
<1> QED
  BY <1>5, <1>6, <1>7, <1>8, <1>9, <1>10, <1>11, <1>12, <1>13 DEF Line!Next

\* It holds at the start.
LEMMA LineInit == Line!ParametersAreSound => (Line!Init => LineInv)
<1> SUFFICES ASSUME Line!ParametersAreSound, Line!Init PROVE LineInv
  OBVIOUS
<1>1. line \in Rows /\ Range(line) = Waiting /\ before = line
  BY LineLists DEF Line!Init, Line!Queued, Waiting
<1>2. <<>> \in Rows
  <2>1. <<>> \in Seq(Line!Tasks) /\ DOMAIN <<>> = {}
    OBVIOUS
  <2> QED
    BY <2>1 DEF Rows, IsInjective
<1>3. Line!TypeOK
  BY <1>1, <1>2, LineTypes DEF Line!Init
<1> QED
  BY <1>1, <1>3 DEF Line!Init, LineInv

\* And it says that the ranks are kept, and that nobody is stranded.
LEMMA LineSays ==
  Line!ParametersAreSound /\ LineInv => Line!TypeOK /\ Line!RanksKept /\ Line!NobodyStranded
<1> SUFFICES ASSUME Line!ParametersAreSound, LineInv
             PROVE  Line!TypeOK /\ Line!RanksKept /\ Line!NobodyStranded
  OBVIOUS
<1>1. line \in Rows /\ before \in Rows /\ Line!TypeOK
  BY LineTypes DEF LineInv
<1>2. ASSUME pass, NEW a \in Range(before) \cap Range(line),
             NEW b \in Range(before) \cap Range(line),
             Line!Rank(before, a) < Line!Rank(before, b)
      PROVE  Line!Rank(line, a) < Line!Rank(line, b)
  <2>1. Precedes(before, a, b)
    BY <1>1, <1>2, RanksTell
  <2>2. Precedes(line, a, b)
    BY <1>2, <2>1 DEF LineInv, InOrder
  <2> QED
    BY <1>1, <2>2, RanksTell
<1>3. Line!RanksKept
  <2>1. Line!Range(before) = Range(before) /\ Line!Range(line) = Range(line)
    BY LineLists
  <2> QED
    BY <1>2, <2>1 DEF Line!RanksKept
<1>4. ASSUME NEW t \in Line!Tasks, ticketStatus[t] = "queued"
      PROVE  t \in Range(line) \cup Range(ticketHeld)
  <2>1. t \in Waiting
    BY <1>4 DEF Waiting
  <2>2. CASE pass
    BY <2>1, <2>2 DEF LineInv
  <2>3. CASE ~ pass
    BY <2>1, <2>3 DEF LineInv
  <2> QED
    BY <2>2, <2>3
<1>5. Line!NobodyStranded
  BY <1>4, LineLists DEF Line!NobodyStranded
<1> QED
  BY <1>1, <1>3, <1>5

\* With writes that fail and crashes: what keeps an issue that was not compared from
\* a turn. While the pass runs, the line the runner looks at has none, unless it was
\* said; once it has landed, only what is over was not compared.
FaultyLineInv ==
  /\ line \in Seq(Line!Tasks)
  /\ FaultyLine!NoTurnBeforeCompare
  /\ runner /\ ~ pass /\ ~ ticketTold =>
       \A t \in LineTicketed : t \in Range(line) => ticketStatus[t] # "queued"
  /\ pass => \A t \in LineTicketed : FaultyLine!Active(t) => t \in compared
  /\ ticketHeld \in Seq(Line!Tasks)
  /\ ticketStatus \in [Line!Tasks -> {"queued", "running", "review_ok", "waiting_for_you",
                                      "interrupted", "shipped", "failed"}]

\* The faulty instance's lists are the same; a filter of a list is one, and has what the
\* list has of the set.
LEMMA FaultyLists ==
  /\ FaultyLine!Tasks = Line!Tasks
  /\ \A s : FaultyLine!Range(s) = Range(s)
  /\ \A s, S : FaultyLine!Only(s, S) = Only(s, S)
  /\ \A S : \A s \in Seq(Line!Tasks) :
       Only(s, S) \in Seq(Line!Tasks) /\ Range(Only(s, S)) = Range(s) \cap S
  /\ \A ids : \A s \in Seq(Line!Tasks) :
       /\ FaultyLine!Without(s, ids) \in Seq(Line!Tasks)
       /\ Range(FaultyLine!Without(s, ids)) = Range(s) \ ids
<1>1. FaultyLine!Tasks = Line!Tasks
  BY DEF FaultyLine!Tasks, Line!Tasks
<1>2. \A s : FaultyLine!Range(s) = Range(s)
  BY DEF FaultyLine!Range, Range
<1>3. \A s, S : FaultyLine!Only(s, S) = Only(s, S)
  BY DEF Only, FaultyLine!Only, Cardinality, FaultyLine!Cardinality
<1>4. ASSUME NEW s \in Seq(Line!Tasks), NEW S
      PROVE  Only(s, S) \in Seq(Line!Tasks) /\ Range(Only(s, S)) = Range(s) \cap S
  <2>1. Only(s, S) \in Seq(Line!Tasks)
    BY OnlyProperties
  <2>2. \A x : (\E i \in 1 .. Len(Only(s, S)) : Only(s, S)[i] = x)
                 <=> (\E i \in 1 .. Len(s) : s[i] = x) /\ x \in S
    BY OnlyProperties DEF Contains
  <2>3. DOMAIN s = 1 .. Len(s) /\ DOMAIN Only(s, S) = 1 .. Len(Only(s, S))
    BY <2>1, LenProperties
  <2> QED
    BY <2>1, <2>2, <2>3 DEF Range
<1>5. ASSUME NEW s \in Seq(Line!Tasks), NEW ids
      PROVE  /\ FaultyLine!Without(s, ids) \in Seq(Line!Tasks)
             /\ Range(FaultyLine!Without(s, ids)) = Range(s) \ ids
  <2>1. FaultyLine!Without(s, ids) = Only(s, Line!Tasks \ ids)
    BY <1>1, <1>3 DEF FaultyLine!Without
  <2>2. Range(s) \subseteq Line!Tasks
    <3>1. DOMAIN s = 1 .. Len(s) /\ \A i \in 1 .. Len(s) : s[i] \in Line!Tasks
      BY LenProperties, ElementOfSeq
    <3> QED
      BY <3>1 DEF Range
  <2> QED
    BY <1>4, <2>1, <2>2
<1> QED
  BY <1>1, <1>2, <1>3, <1>4, <1>5

\* Every step keeps it.
LEMMA FaultyLineStep ==
  ASSUME FaultyLine!ParametersAreSound, FaultyLineInv, [FaultyLine!Next]_(FaultyLine!vars)
  PROVE  FaultyLineInv'
<1> DEFINE Statuses == {"queued", "running", "review_ok", "waiting_for_you", "interrupted",
                        "shipped", "failed"}
<1>0. /\ line \in Seq(Line!Tasks) /\ ticketHeld \in Seq(Line!Tasks)
      /\ ticketStatus \in [Line!Tasks -> Statuses]
      /\ LineTicketed \subseteq Line!Tasks /\ LineTasks \in Nat
  BY DEF FaultyLineInv, FaultyLine!ParametersAreSound, Line!Tasks
<1> USE FaultyLists DEF FaultyLineInv, FaultyLine!NoTurnBeforeCompare, FaultyLine!Active,
        FaultyLine!limits, FaultyLine!session, FaultyLine!record, FaultyLine!Leaves
<1>1. ASSUME NEW t \in Line!Tasks, FaultyLine!Compare(t) PROVE FaultyLineInv'
  <2>1. /\ ~ pass /\ t \in LineTicketed
        /\ UNCHANGED <<ticketHeld, runner, pass, ticketTold>>
        /\ compared' = compared \cup {t}
        /\ \/ UNCHANGED <<ticketStatus, line>>
           \/ /\ ticketStatus' = [ticketStatus EXCEPT ![t] = "waiting_for_you"]
              /\ line' = FaultyLine!Without(line, {t})
    BY <1>1 DEF FaultyLine!Compare
  <2>2. line' \in Seq(Line!Tasks) /\ Range(line') \subseteq Range(line)
    BY <1>0, <2>1
  <2>3. ticketStatus' \in [Line!Tasks -> Statuses]
        /\ \A u \in Line!Tasks : ticketStatus'[u] = ticketStatus[u]
                                   \/ ticketStatus'[u] = "waiting_for_you"
    BY <1>0, <2>1
  <2> QED
    BY <1>0, <2>1, <2>2, <2>3
<1>2. ASSUME FaultyLine!BuildsContext PROVE FaultyLineInv'
  <2>1. UNCHANGED <<ticketStatus, pass, compared>>
    BY <1>2 DEF FaultyLine!BuildsContext
  <2>2. CASE UNCHANGED <<line, ticketHeld, ticketTold>> /\ (pass \/ FaultyLine!ToHold = {})
    <3>1. ~ pass => \A t \in LineTicketed : t \in Range(line) => ticketStatus[t] # "queued"
      BY <2>2 DEF FaultyLine!ToHold
    <3> QED
      BY <1>0, <2>1, <2>2, <3>1
  <2>3. CASE line' = FaultyLine!Without(line, FaultyLine!ToHold) /\ ticketHeld' = line
             /\ ticketTold' = ticketTold
    <3>1. line' \in Seq(Line!Tasks) /\ Range(line') = Range(line) \ FaultyLine!ToHold
      BY <1>0, <2>3
    <3>2. \A t \in LineTicketed : t \in Range(line') => ticketStatus[t] # "queued"
      BY <3>1 DEF FaultyLine!ToHold
    <3> QED
      BY <1>0, <2>1, <2>3, <3>1, <3>2
  <2>4. CASE ticketTold' = TRUE /\ UNCHANGED <<line, ticketHeld>>
    BY <1>0, <2>1, <2>4
  <2> QED
    BY <1>2, <2>2, <2>3, <2>4 DEF FaultyLine!BuildsContext
<1>3. ASSUME FaultyLine!Lands PROVE FaultyLineInv'
  <2>1. /\ UNCHANGED <<ticketStatus, compared, ticketTold>> /\ pass' = TRUE /\ ticketHeld' = <<>>
        /\ \A t \in LineTicketed : FaultyLine!Active(t) => t \in compared
    BY <1>3 DEF FaultyLine!Lands
  <2>2. line' \in Seq(Line!Tasks)
    <3>1. FaultyLine!Wanted \in Seq(Line!Tasks)
      <4>1. FaultyLine!Merged \in Seq(Line!Tasks)
        BY <1>0 DEF FaultyLine!Merged
      <4> QED
        BY <4>1 DEF FaultyLine!Wanted
    <3>2. \A k \in 0 .. Len(FaultyLine!Wanted) :
            SubSeq(FaultyLine!Wanted, 1, k) \in Seq(Line!Tasks)
      BY <3>1
    <3> QED
      BY <1>0, <1>3, <3>2 DEF FaultyLine!Lands, FaultyLine!Release, FaultyLine!ReleaseFails
  <2> QED
    BY <1>0, <2>1, <2>2
<1>4. ASSUME FaultyLine!Pump PROVE FaultyLineInv'
  <2>1. PICK k \in DOMAIN line :
          /\ ticketStatus[line[k]] = "queued"
          /\ ticketStatus' = [ticketStatus EXCEPT ![line[k]] = "running"]
          /\ line' = FaultyLine!Without(line, {line[k]})
    BY <1>4 DEF FaultyLine!Pump
  <2>2. UNCHANGED <<ticketHeld, runner, pass, compared, ticketTold>> /\ runner
    BY <1>4 DEF FaultyLine!Pump
  <2> DEFINE t == line[k]
  <2>3. t \in Line!Tasks /\ t \in Range(line)
    BY <1>0, <2>1, ElementOfSeq DEF Range
  <2>4. line' \in Seq(Line!Tasks) /\ Range(line') = Range(line) \ {t}
    BY <1>0, <2>1
  <2> HIDE DEF t
  <2>5. ticketStatus' \in [Line!Tasks -> Statuses] /\ ticketStatus[t] = "queued"
        /\ \A u \in Line!Tasks : ticketStatus'[u] = IF u = t THEN "running" ELSE ticketStatus[u]
    BY <1>0, <2>1, <2>3 DEF t
  <2>6. t \in LineTicketed => t \in compared \/ ticketTold
    BY <2>2, <2>3, <2>5
  <2> QED
    BY <1>0, <2>2, <2>4, <2>5, <2>6
<1>5. ASSUME NEW t \in Line!Tasks, FaultyLine!Settles(t) \/ FaultyLine!BeforeReview(t)
      PROVE  FaultyLineInv'
  <2>1. UNCHANGED <<line, ticketHeld, runner, pass, compared, ticketTold>>
        /\ ticketStatus[t] = "running"
    BY <1>5 DEF FaultyLine!Settles, FaultyLine!BeforeReview
  <2>2. PICK x \in {"waiting_for_you", "shipped", "review_ok"} :
          ticketStatus' = [ticketStatus EXCEPT ![t] = x]
    BY <1>5 DEF FaultyLine!Settles, FaultyLine!BeforeReview
  <2> QED
    BY <1>0, <2>1, <2>2
<1>6. ASSUME NEW t \in Line!Tasks, FaultyLine!Gesture(t) PROVE FaultyLineInv'
  <2>1. /\ UNCHANGED <<ticketHeld, runner, pass, compared, ticketTold>> /\ pass
        /\ ticketStatus[t] \in {"waiting_for_you", "interrupted"}
        /\ ticketStatus' = [ticketStatus EXCEPT ![t] = "queued"]
        /\ line' = FaultyLine!Enqueued(line, t)
    BY <1>6 DEF FaultyLine!Gesture
  <2>2. line' \in Seq(Line!Tasks)
    BY <1>0, <2>1 DEF FaultyLine!Enqueued
  <2> QED
    BY <1>0, <2>1, <2>2
<1>7. ASSUME NEW t \in Line!Tasks, FaultyLine!Abandon(t) PROVE FaultyLineInv'
  <2>1. /\ UNCHANGED <<ticketHeld, runner, pass, compared, ticketTold>>
        /\ ticketStatus' = [ticketStatus EXCEPT ![t] = "failed"]
        /\ line' = FaultyLine!Without(line, {t})
    BY <1>7 DEF FaultyLine!Abandon
  <2>2. line' \in Seq(Line!Tasks) /\ Range(line') \subseteq Range(line)
    BY <1>0, <2>1
  <2> QED
    BY <1>0, <2>1, <2>2
<1>8. ASSUME FaultyLine!Crash PROVE FaultyLineInv'
  <2>1. /\ line' = FaultyLine!Rebuilt /\ ticketHeld' = <<>> /\ runner' = FALSE /\ pass' = FALSE
        /\ ticketStatus' = [t \in Line!Tasks |-> IF ticketStatus[t] = "running"
                                                  THEN "interrupted" ELSE ticketStatus[t]]
    BY <1>8 DEF FaultyLine!Crash
  <2>2. line' \in Seq(Line!Tasks)
    <3>1. [t \in Line!Tasks |-> t] \in Seq(Line!Tasks)
      BY <1>0 DEF Line!Tasks
    <3> QED
      BY <1>0, <2>1, <3>1 DEF FaultyLine!Rebuilt
  <2> QED
    BY <1>0, <2>1, <2>2
<1>9. ASSUME UNCHANGED FaultyLine!vars PROVE FaultyLineInv'
  BY <1>9 DEF FaultyLine!vars
<1> QED
  BY <1>1, <1>2, <1>3, <1>4, <1>5, <1>6, <1>7, <1>8, <1>9 DEF FaultyLine!Next

\* It holds at the start.
LEMMA FaultyLineInit == Line!ParametersAreSound => (Line!Init => FaultyLineInv)
<1> SUFFICES ASSUME Line!ParametersAreSound, Line!Init PROVE FaultyLineInv
  OBVIOUS
<1>1. /\ line \in Seq(Line!Tasks) /\ ticketHeld \in Seq(Line!Tasks)
      /\ ticketStatus \in [Line!Tasks -> {"queued", "running", "review_ok",
                                          "waiting_for_you", "interrupted", "shipped",
                                          "failed"}]
  BY LineInit, LineTypes DEF LineInv, Rows
<1>2. LineTicketed \subseteq Line!Tasks
  BY DEF Line!ParametersAreSound, Line!Tasks
<1>3. runner = FALSE /\ pass = FALSE /\ \A t \in Line!Tasks : ticketStatus[t] # "running"
  BY DEF Line!Init
<1> QED
  BY <1>1, <1>2, <1>3 DEF FaultyLineInv, FaultyLine!NoTurnBeforeCompare

\* The hold leaves no trace: once the comparison has landed, the tasks that still wait
\* do so in the order they waited in when it began, and nobody who waits is left out
\* of it; and with writes that fail and crashes, no turn starts on an issue that was
\* not compared unless the workspace has said that it may: for any tasks and issues.
THEOREM HoldIsUndone == EngineSpec => []HoldLeavesNoTrace
<1> DEFINE Inv == (part = "tickets" => LineInv) /\ (part = "tickets faults" => FaultyLineInv)
<1>0. Line!ParametersAreSound /\ FaultyLine!ParametersAreSound
  BY PartsAreSound
<1>1. EngineInit => Inv
  <2> SUFFICES ASSUME EngineInit PROVE Inv
    OBVIOUS
  <2>1. Line!Init
    BY DEF EngineInit
  <2> QED
    BY <1>0, <2>1, LineInit, FaultyLineInit
<1>2. ASSUME Inv, [EngineNext]_engineVars PROVE Inv'
  <2>1. /\ part' = part
        /\ part = "tickets" => [Line!Next]_(Line!vars)
        /\ part = "tickets faults" => [FaultyLine!Next]_(FaultyLine!vars)
    BY <1>2 DEF EngineNext, engineVars, lineVars, Line!vars, FaultyLine!vars
  <2>2. CASE part = "tickets"
    BY <1>0, <1>2, <2>1, <2>2, LineStep
  <2>3. CASE part = "tickets faults"
    BY <1>0, <1>2, <2>1, <2>3, FaultyLineStep
  <2> QED
    BY <2>1, <2>2, <2>3
<1>3. Inv => HoldLeavesNoTrace
  BY <1>0, LineSays DEF HoldLeavesNoTrace, FaultyLineInv
<1> QED
  BY <1>1, <1>2, <1>3, PTL DEF EngineSpec

\* What a record gives as its reason.
Reasons == {"none", "forge_unreachable", "other"}

\* A record's reason is one of the three, where writes fail too.
LEMMA FaultyReasons ==
  ASSUME FaultyLine!ParametersAreSound, reason \in [Line!Tasks -> Reasons],
         [FaultyLine!Next]_(FaultyLine!vars)
  PROVE  reason' \in [Line!Tasks -> Reasons]
<1>1. FaultyLine!Tasks = Line!Tasks
  BY FaultyLists
<1>2. ASSUME NEW t \in Line!Tasks PROVE \A outcome : FaultyLine!Reason(t, outcome) \in Reasons
  BY DEF FaultyLine!Reason, Reasons
<1>3. ASSUME NEW t \in Line!Tasks,
             \/ FaultyLine!Compare(t) \/ FaultyLine!Settles(t) \/ FaultyLine!BeforeReview(t)
             \/ FaultyLine!Gesture(t) \/ FaultyLine!Abandon(t)
      PROVE  reason' \in [Line!Tasks -> Reasons]
  BY <1>2, <1>3 DEF FaultyLine!Compare, FaultyLine!Settles, FaultyLine!BeforeReview,
                    FaultyLine!Gesture, FaultyLine!Abandon, Reasons
<1>4. ASSUME FaultyLine!BuildsContext \/ FaultyLine!Lands \/ FaultyLine!Pump
             \/ FaultyLine!Crash \/ UNCHANGED FaultyLine!vars
      PROVE  reason' \in [Line!Tasks -> Reasons]
  BY <1>1, <1>4 DEF FaultyLine!BuildsContext, FaultyLine!Lands, FaultyLine!Pump,
                    FaultyLine!Crash, FaultyLine!record, FaultyLine!vars, Reasons
<1> QED
  BY <1>1, <1>3, <1>4 DEF FaultyLine!Next

\* What a step may do to the reasons and to the turns that were cut.
LEMMA LineKeeps ==
  ASSUME Line!ParametersAreSound, LineInv, [Line!Next]_(Line!vars)
  PROVE  Line!KeepsReasonsOfOthers /\ Line!KeepsResume
<1>0. /\ reason \in [Line!Tasks -> Reasons] /\ DOMAIN ticketStatus = Line!Tasks
      /\ ticketStatus \in [Line!Tasks -> {"queued", "running", "review_ok",
                                          "waiting_for_you", "interrupted", "shipped",
                                          "failed"}]
      /\ line \in Rows /\ LineTicketed \subseteq Line!Tasks /\ crashes = 0
  BY LineTypes DEF LineInv, Reasons, Line!ParametersAreSound, Line!Tasks
<1> USE DEF Line!KeepsReasonsOfOthers, Line!KeepsResume, Line!midFlight
<1>1. ASSUME NEW t \in Line!Tasks, Line!Compare(t)
      PROVE  Line!KeepsReasonsOfOthers /\ Line!KeepsResume
  <2>1. \A outcome : reason[t] = "other" => Line!Reason(t, outcome) = "other"
    BY DEF Line!Reason, Line!CanPoseReason
  <2>2. Line!KeepsReasonsOfOthers
    BY <1>0, <1>1, <2>1 DEF Line!Compare
  <2>3. Line!KeepsResume
    BY <1>0, <1>1 DEF Line!Compare, Line!Diverted
  <2> QED
    BY <2>2, <2>3
<1>2. ASSUME Line!Pump PROVE Line!KeepsReasonsOfOthers /\ Line!KeepsResume
  <2>1. PICK k \in DOMAIN line :
          /\ ticketStatus' = [ticketStatus EXCEPT ![line[k]] = "running"]
          /\ reason' = [reason EXCEPT ![line[k]] = "none"]
    BY <1>2 DEF Line!Pump
  <2>2. compared' = compared
    BY <1>2 DEF Line!Pump, Line!session
  <2> QED
    BY <1>0, <2>1, <2>2
<1>3. ASSUME NEW t \in Line!Tasks, Line!Settles(t) \/ Line!BeforeReview(t)
      PROVE  Line!KeepsReasonsOfOthers /\ Line!KeepsResume
  <2>1. compared' = compared
    BY <1>3 DEF Line!Settles, Line!BeforeReview, Line!session
  <2>2. \A outcome : reason[t] = "other" => Line!Reason(t, outcome) = "other"
    BY DEF Line!Reason, Line!CanPoseReason
  <2> QED
    BY <1>0, <1>3, <2>1, <2>2 DEF Line!Settles, Line!BeforeReview
<1>4. ASSUME NEW t \in Line!Tasks, Line!Gesture(t) \/ Line!Abandon(t)
      PROVE  Line!KeepsReasonsOfOthers /\ Line!KeepsResume
  BY <1>4 DEF Line!Gesture, Line!Abandon, Line!session
<1>5. ASSUME Line!BuildsContext \/ Line!Lands \/ UNCHANGED Line!vars
      PROVE  Line!KeepsReasonsOfOthers /\ Line!KeepsResume
  BY <1>5 DEF Line!BuildsContext, Line!Lands, Line!record, Line!vars
<1>6. ~ Line!Crash
  BY <1>0 DEF Line!Crash
<1> QED
  BY <1>1, <1>2, <1>3, <1>4, <1>5, <1>6 DEF Line!Next

\* And where writes fail and the process crashes.
LEMMA FaultyKeeps ==
  ASSUME FaultyLine!ParametersAreSound, FaultyLineInv, reason \in [Line!Tasks -> Reasons],
         [FaultyLine!Next]_(FaultyLine!vars)
  PROVE  Line!KeepsReasonsOfOthers /\ Line!KeepsResume
<1>0. /\ reason \in [FaultyLine!Tasks -> Reasons]
      /\ ticketStatus \in [FaultyLine!Tasks -> {"queued", "running", "review_ok",
                                                "waiting_for_you", "interrupted",
                                                "shipped", "failed"}]
      /\ LineTicketed \subseteq FaultyLine!Tasks /\ FaultyLine!Tasks = Line!Tasks
  BY FaultyLists DEF FaultyLineInv, FaultyLine!ParametersAreSound, Line!Tasks
<1> USE DEF Line!KeepsReasonsOfOthers, Line!KeepsResume, Line!midFlight
<1>1. ASSUME NEW t \in FaultyLine!Tasks, FaultyLine!Compare(t)
      PROVE  Line!KeepsReasonsOfOthers /\ Line!KeepsResume
  <2>1. \A outcome : reason[t] = "other" => FaultyLine!Reason(t, outcome) = "other"
    BY DEF FaultyLine!Reason, FaultyLine!CanPoseReason
  <2>2. Line!KeepsReasonsOfOthers
    BY <1>0, <1>1, <2>1 DEF FaultyLine!Compare
  <2>3. Line!KeepsResume
    BY <1>0, <1>1 DEF FaultyLine!Compare, FaultyLine!Diverted, FaultyLine!midFlight
  <2> QED
    BY <2>2, <2>3
<1>2. ASSUME FaultyLine!Pump PROVE Line!KeepsReasonsOfOthers /\ Line!KeepsResume
  <2>1. PICK k \in DOMAIN line :
          /\ ticketStatus' = [ticketStatus EXCEPT ![line[k]] = "running"]
          /\ reason' = [reason EXCEPT ![line[k]] = "none"]
    BY <1>2 DEF FaultyLine!Pump
  <2>2. compared' = compared
    BY <1>2 DEF FaultyLine!Pump, FaultyLine!session
  <2> QED
    BY <1>0, <2>1, <2>2
<1>3. ASSUME NEW t \in FaultyLine!Tasks, FaultyLine!Settles(t) \/ FaultyLine!BeforeReview(t)
      PROVE  Line!KeepsReasonsOfOthers /\ Line!KeepsResume
  <2>1. compared' = compared
    BY <1>3 DEF FaultyLine!Settles, FaultyLine!BeforeReview, FaultyLine!session
  <2>2. \A outcome : reason[t] = "other" => FaultyLine!Reason(t, outcome) = "other"
    BY DEF FaultyLine!Reason, FaultyLine!CanPoseReason
  <2> QED
    BY <1>0, <1>3, <2>1, <2>2 DEF FaultyLine!Settles, FaultyLine!BeforeReview
<1>4. ASSUME NEW t \in FaultyLine!Tasks, FaultyLine!Gesture(t) \/ FaultyLine!Abandon(t)
      PROVE  Line!KeepsReasonsOfOthers /\ Line!KeepsResume
  BY <1>4 DEF FaultyLine!Gesture, FaultyLine!Abandon, FaultyLine!session
<1>5. ASSUME FaultyLine!BuildsContext \/ FaultyLine!Lands \/ UNCHANGED FaultyLine!vars
      PROVE  Line!KeepsReasonsOfOthers /\ Line!KeepsResume
  BY <1>5 DEF FaultyLine!BuildsContext, FaultyLine!Lands, FaultyLine!record, FaultyLine!vars
<1>6. ASSUME FaultyLine!Crash PROVE Line!KeepsReasonsOfOthers /\ Line!KeepsResume
  BY <1>0, <1>6 DEF FaultyLine!Crash
<1> QED
  BY <1>1, <1>2, <1>3, <1>4, <1>5, <1>6 DEF FaultyLine!Next


\* The comparison takes away no reason it did not give, and leaves to Resume the turn
\* that Resume can take up, whatever the forge says, whatever fails or crashes.
THEOREM ComparisonStaysInItsLane == EngineSpec => CompareKeepsToItself
<1> DEFINE Inv == /\ part = "tickets" => LineInv
                  /\ part = "tickets faults" =>
                       FaultyLineInv /\ reason \in [Line!Tasks -> Reasons]
<1>0. Line!ParametersAreSound /\ FaultyLine!ParametersAreSound
  BY PartsAreSound
<1>1. EngineInit => Inv
  <2> SUFFICES ASSUME EngineInit PROVE Inv
    OBVIOUS
  <2>1. Line!Init
    BY DEF EngineInit
  <2>2. LineInv
    BY <1>0, <2>1, LineInit
  <2>3. reason \in [Line!Tasks -> Reasons]
    BY <2>1 DEF Line!Init, Reasons
  <2>4. FaultyLineInv
    BY <1>0, <2>1, FaultyLineInit
  <2> QED
    BY <2>2, <2>3, <2>4
<1>2. ASSUME Inv, [EngineNext]_engineVars
      PROVE  Inv' /\ Line!KeepsReasonsOfOthers /\ Line!KeepsResume
  <2>1. /\ part' = part
        /\ part = "tickets" => [Line!Next]_(Line!vars)
        /\ part = "tickets faults" => [FaultyLine!Next]_(FaultyLine!vars)
        /\ part \notin {"tickets", "tickets faults"} => UNCHANGED <<reason, compared>>
    BY <1>2 DEF EngineNext, engineVars, lineVars, Line!vars, FaultyLine!vars
  <2>2. CASE part = "tickets"
    BY <1>0, <1>2, <2>1, <2>2, LineStep, LineKeeps
  <2>3. CASE part = "tickets faults"
    BY <1>0, <1>2, <2>1, <2>3, FaultyLineStep, FaultyReasons, FaultyKeeps
  <2>4. CASE part \notin {"tickets", "tickets faults"}
    BY <2>1, <2>4 DEF Line!KeepsReasonsOfOthers, Line!KeepsResume
  <2> QED
    BY <2>2, <2>3, <2>4
<1> QED
  BY <1>1, <1>2, PTL DEF EngineSpec, CompareKeepsToItself

=============================================================================
