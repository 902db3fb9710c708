--------------------------- MODULE RunnerPidfile ---------------------------
(***************************************************************************)
(* The runner's pidfile (packages/cli/src/runner-pidfile.ts): the daemon    *)
(* that serves a repository writes it (workspace.ts), `runner stop` and     *)
(* `runner status`, other processes (runner-commands.ts), read it, and      *)
(* whoever finds the pid in it dead removes it.  Nothing is locked.         *)
(* The workspace lock lets one daemon run at a time (WorkspaceLock).        *)
(***************************************************************************)
EXTENDS FiniteSets

CONSTANTS
  Daemons,  \* one process each, a pid each
  Callers,  \* `runner stop` and `runner status`
  Gap,      \* other processes run between a look at the disk and what follows it
  Legacy    \* a pre-rename brain.pid is lying about

Absent == "absent"
Torn == "torn"      \* opened for writing, nothing in it yet
OldPid == "old pid" \* the dead daemon brain.pid names
Pids == Daemons \union {OldPid}

ParametersAreSound ==
  /\ Gap \in BOOLEAN /\ Legacy \in BOOLEAN
  /\ {Absent, Torn, OldPid} \intersect Daemons = {}

VARIABLES
  file, legacy,  \* runner.pid, whether brain.pid exists
  daemon,        \* daemon -> where it is
  signalled,     \* daemons a SIGTERM was sent to
  pc, op, seen,  \* caller -> where it is, stop or status, the pid it read
  said           \* caller -> what it answered

vars == <<file, legacy, daemon, signalled, pc, op, seen, said>>
caller == <<pc, op, seen, said>>
disk == <<file, legacy>>

\* From the lock it takes to the one it releases.
HoldsTheLock(d) == daemon[d] \in {"booting", "writing", "serving", "draining"}
isPidAlive(p) == p \in Daemons /\ daemon[p] \notin {"off", "gone"}

-----------------------------------------------------------------------------
(* The daemon *)

Boots(d) ==
  /\ daemon[d] = "off"
  /\ \A e \in Daemons : ~ HoldsTheLock(e)
  /\ daemon' = [daemon EXCEPT ![d] = "booting"]
  /\ UNCHANGED <<disk, signalled, caller>>

\* writeRunnerPidfile: whatever is there, brain.pid included, makes way.
Opens(d) ==
  /\ daemon[d] = "booting"
  /\ legacy' = (legacy /\ file # Absent)
  /\ file' = Torn
  /\ daemon' = [daemon EXCEPT ![d] = "writing"]
  /\ UNCHANGED <<signalled, caller>>

Writes(d) ==
  /\ daemon[d] = "writing"
  /\ file' = d
  /\ daemon' = [daemon EXCEPT ![d] = "serving"]
  /\ UNCHANGED <<legacy, signalled, caller>>

\* The handlers come after the file: until then a signal just kills.
Terminates(d) ==
  /\ d \in signalled
  /\ \/ /\ daemon[d] = "serving"
        /\ daemon' = [daemon EXCEPT ![d] = "draining"]
     \/ /\ daemon[d] \in {"booting", "writing"}
        /\ daemon' = [daemon EXCEPT ![d] = "gone"]
  /\ UNCHANGED <<disk, signalled, caller>>

Named(p) == file = p

\* installShutdownHandlers: the lock goes first, then the file that names us.
Releases(d) ==
  /\ daemon[d] = "draining"
  /\ IF Named(d)
     THEN IF Gap THEN daemon' = [daemon EXCEPT ![d] = "unlinking"] /\ UNCHANGED file
                 ELSE daemon' = [daemon EXCEPT ![d] = "gone"] /\ file' = Absent
     ELSE daemon' = [daemon EXCEPT ![d] = "gone"] /\ UNCHANGED file
  /\ UNCHANGED <<legacy, signalled, caller>>

UnlinksOwn(d) ==
  /\ daemon[d] = "unlinking"
  /\ file' = Absent
  /\ daemon' = [daemon EXCEPT ![d] = "gone"]
  /\ UNCHANGED <<legacy, signalled, caller>>

\* A crash, a SIGKILL, a second Ctrl-C.
Dies(d) ==
  /\ isPidAlive(d)
  /\ daemon' = [daemon EXCEPT ![d] = "gone"]
  /\ UNCHANGED <<disk, signalled, caller>>

-----------------------------------------------------------------------------
(* runner stop, runner status *)

At(c, where) == pc' = [pc EXCEPT ![c] = where]
Answers(c, what) == At(c, "done") /\ said' = [said EXCEPT ![c] = what]

\* readRunnerPidfile; a file that does not parse names nobody.
Learns(c, content) ==
  IF content \in Pids
  THEN At(c, "read") /\ seen' = [seen EXCEPT ![c] = content] /\ UNCHANGED said
  ELSE Answers(c, "not running") /\ UNCHANGED seen

\* migrateLegacyPidfile: seen missing, then renamed into place.
Reads(c) ==
  /\ pc[c] = "idle"
  /\ \E o \in {"stop", "status"} : op' = [op EXCEPT ![c] = o]
  /\ IF legacy /\ file = Absent
     THEN IF Gap THEN At(c, "renaming") /\ UNCHANGED <<disk, seen, said>>
                 ELSE file' = OldPid /\ legacy' = FALSE /\ Learns(c, OldPid)
     ELSE Learns(c, file) /\ UNCHANGED disk
  /\ UNCHANGED <<daemon, signalled>>

Renames(c) ==
  /\ pc[c] = "renaming"
  /\ IF legacy THEN file' = OldPid /\ legacy' = FALSE /\ Learns(c, OldPid)
               ELSE UNCHANGED disk /\ Learns(c, file)
  /\ UNCHANGED <<daemon, signalled, op>>

\* A dead pid has its file removed; a live one is shown, or told to stop.
Judges(c) ==
  /\ pc[c] = "read"
  /\ \/ /\ ~ isPidAlive(seen[c])
        /\ At(c, "removing") /\ UNCHANGED <<signalled, said>>
     \/ /\ isPidAlive(seen[c]) /\ op[c] = "status"
        /\ Answers(c, "running") /\ UNCHANGED signalled
     \/ /\ isPidAlive(seen[c]) /\ op[c] = "stop"
        /\ signalled' = signalled \union {seen[c]}
        /\ At(c, "waiting") /\ UNCHANGED said
  /\ UNCHANGED <<disk, daemon, op, seen>>

\* waitForPidDeath, which gives up after ten seconds.
Waits(c) ==
  /\ pc[c] = "waiting"
  /\ \/ ~ isPidAlive(seen[c]) /\ At(c, "removing") /\ UNCHANGED said
     \/ isPidAlive(seen[c]) /\ Answers(c, "timed out")
  /\ UNCHANGED <<disk, daemon, signalled, op, seen>>

Verdict(c) == IF seen[c] \in signalled /\ op[c] = "stop" THEN "stopped" ELSE "not running"

\* removeRunnerPidfile: read again, and removed if it is still that pid.
Confirms(c) ==
  /\ pc[c] = "removing"
  /\ IF Named(seen[c])
     THEN IF Gap THEN At(c, "unlinking") /\ UNCHANGED <<file, said>>
                 ELSE file' = Absent /\ Answers(c, Verdict(c))
     ELSE Answers(c, Verdict(c)) /\ UNCHANGED file
  /\ UNCHANGED <<legacy, daemon, signalled, op, seen>>

Unlinks(c) ==
  /\ pc[c] = "unlinking"
  /\ file' = Absent
  /\ Answers(c, Verdict(c))
  /\ UNCHANGED <<legacy, daemon, signalled, op, seen>>

-----------------------------------------------------------------------------

Init ==
  /\ file = Absent /\ legacy = Legacy
  /\ daemon = [d \in Daemons |-> "off"]
  /\ signalled = {}
  /\ pc = [c \in Callers |-> "idle"]
  /\ op = [c \in Callers |-> "status"]
  /\ seen = [c \in Callers |-> OldPid]
  /\ said = [c \in Callers |-> "nothing"]

Next ==
  \/ \E d \in Daemons :
       \/ Boots(d) \/ Opens(d) \/ Writes(d) \/ Terminates(d) \/ Releases(d)
       \/ UnlinksOwn(d) \/ Dies(d)
  \/ \E c \in Callers :
       \/ Reads(c) \/ Renames(c) \/ Judges(c) \/ Waits(c) \/ Confirms(c) \/ Unlinks(c)

Spec == Init /\ [][Next]_vars

-----------------------------------------------------------------------------
(* Properties *)

TypeOK ==
  /\ file \in {Absent, Torn} \union Pids /\ legacy \in BOOLEAN
  /\ daemon \in [Daemons -> {"off", "booting", "writing", "serving", "draining",
                             "unlinking", "gone"}]
  /\ signalled \subseteq Daemons
  /\ pc \in [Callers -> {"idle", "renaming", "read", "waiting", "removing",
                         "unlinking", "done"}]
  /\ op \in [Callers -> {"stop", "status"}] /\ seen \in [Callers -> Pids]
  /\ said \in [Callers -> {"nothing", "not running", "running", "stopped", "timed out"}]

\* Whatever is stopped, looked at, crashed or started around it, the daemon that
\* serves can be found: the file names it.
Findable == \A d \in Daemons : daemon[d] = "serving" => file = d

\* What a stop reports stopped is not named by the file any more.
StoppedIsForgotten ==
  \A c \in Callers : said[c] = "stopped" => file # seen[c]
=============================================================================
