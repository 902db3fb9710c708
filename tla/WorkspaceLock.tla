--------------------------- MODULE WorkspaceLock ---------------------------
(***************************************************************************)
(* The lock file that keeps one workspace per machine (workspace-lock.ts):  *)
(* read, judged by whether its process is alive, then written.  Pids are    *)
(* given again once their process has died.                                 *)
(***************************************************************************)
EXTENDS Naturals, FiniteSets

CONSTANTS Pids,
          MaxBoots,
          Window  \* two boots may overlap

ParametersAreSound == MaxBoots \in Nat /\ Window \in BOOLEAN /\ "none" \notin Pids

NoLock == [pid |-> "none", port |-> FALSE]

VARIABLES
  file,   \* <globalConfigDir>/workspace.lock
  doing,  \* what the process of each pid is at: not there, booting, up...
  boots

vars == <<file, doing, boots>>

HasListened(p) == doing[p] = "up"
isPidAlive(p) == doing[p] # "none"
Goes(p, stage) == doing' = [doing EXCEPT ![p] = stage]
Alone(p) == Window \/ \A q \in Pids \ {p} : doing[q] \notin {"reading", "writing", "leaving"}

-----------------------------------------------------------------------------

\* A workspace, or another program, starts under a free pid.
Starts(p, stage) ==
  /\ doing[p] = "none" /\ boots < MaxBoots /\ (stage = "reading" => Alone(p))
  /\ boots' = boots + 1
  /\ Goes(p, stage)
  /\ UNCHANGED file

\* acquireWorkspaceLock refuses while a live process holds the lock.
Judges(p) ==
  /\ doing[p] = "reading"
  /\ Goes(p, IF file.pid \notin {"none", p} /\ isPidAlive(file.pid) THEN "none" ELSE "writing")
  /\ UNCHANGED <<file, boots>>

Writes(p) ==
  /\ doing[p] = "writing"
  /\ file' = [pid |-> p, port |-> FALSE]
  /\ Goes(p, "listening")
  /\ UNCHANGED boots

\* setPort, once the server listens.
SetsPort(p) ==
  /\ doing[p] = "listening"
  /\ file' = [pid |-> p, port |-> TRUE]
  /\ Goes(p, "up")
  /\ UNCHANGED boots

\* release: read, then removed if it names this process.
Releases(p) ==
  /\ doing[p] \in {"listening", "up"} /\ Alone(p)
  /\ Goes(p, "leaving")
  /\ UNCHANGED <<file, boots>>

Removes(p) ==
  /\ doing[p] = "leaving"
  /\ file' = IF file.pid = p THEN NoLock ELSE file
  /\ Goes(p, "none")
  /\ UNCHANGED boots

Dies(p) ==
  /\ doing[p] # "none"
  /\ Goes(p, "none")
  /\ UNCHANGED <<file, boots>>

Init == file = NoLock /\ doing = [p \in Pids |-> "none"] /\ boots = 0

Next ==
  \E p \in Pids :
    \/ \E stage \in {"reading", "other"} : Starts(p, stage)
    \/ Judges(p) \/ Writes(p) \/ SetsPort(p) \/ Releases(p) \/ Removes(p) \/ Dies(p)

Spec == Init /\ [][Next]_vars

-----------------------------------------------------------------------------
(* Properties *)

Owns(p) == doing[p] \in {"listening", "up"}

\* One workspace per machine: two would take each other's running tasks for
\* orphans at boot (workspace-lock.ts:1-5).
OneWorkspace == \A p, q \in Pids : Owns(p) /\ Owns(q) => p = q

\* While a workspace is up the lock names it, with its port once it has one:
\* no other process, gone or leaving, takes that away.
LockNamesTheWorkspace ==
  \A p \in Pids : Owns(p) => file = [pid |-> p, port |-> doing[p] = "up"]
=============================================================================
