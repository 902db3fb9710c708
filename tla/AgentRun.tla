------------------------------ MODULE AgentRun ------------------------------
(***************************************************************************)
(* One agent process from its birth to the settlement of its turn: the     *)
(* kill escalation of a run on the host (packages/cli/src/agent.ts,        *)
(* runAgent) and of a run in a container (task-isolation.ts,               *)
(* spawnContainer), and what the turn makes of the outcome (failTurn in    *)
(* task-runner.ts).  When a budget expires is Watchdog's.                  *)
(*                                                                         *)
(* On the host the agent holds the pipes and may have started a helper     *)
(* that does not.  In a cage the agent is in a box, and the process that   *)
(* holds the pipes is the runtime's client.                                *)
(***************************************************************************)
EXTENDS Naturals

CONSTANTS
  Paths,       \* of "host" and "cage": where the run may be
  Helpers,     \* the agent may have started a process that outlives its pipes
  Races        \* a kill by name may come before the box, or not at all

ParametersAreSound ==
  Paths \subseteq {"host", "cage"} /\ {Helpers, Races} \subseteq BOOLEAN

VARIABLES
  path,        \* of this run
  child,       \* holds the pipes: "none", "works", "gone"
  code,        \* of its exit: "none", "zero", "other"
  box, helper, \* what else works for the run: "none", "starting", "works", "gone"
  stubborn, deathless,  \* who ignores SIGTERM, and whom SIGKILL does not take
  asked,       \* the last signal sent
  byName,      \* the kill of the box is on its way
  step,        \* of the escalation: "none", "box", "term", "kill"
  cut, aborted, capped, stopped,   \* who asked for the end; the human's Stop
  outcome,     \* of the promise
  status       \* what failTurn, or finishTurn, makes of it

vars == <<path, child, code, box, helper, stubborn, deathless, asked, byName, step,
          cut, aborted, capped, stopped, outcome, status>>
procs == <<child, code, box, helper>>
nature == <<path, stubborn, deathless>>
causes == <<cut, aborted, capped>>
end == <<outcome, status>>

killing == step # "none"
Going == child # "none" /\ outcome = "none"

-----------------------------------------------------------------------------
(* The escalation *)

\* escalateKill, once: the group on the host, the box by its name in a cage.
Escalate ==
  IF killing THEN UNCHANGED <<step, asked, byName>>
  ELSE IF path = "cage" THEN step' = "box" /\ byName' = TRUE /\ UNCHANGED asked
  ELSE step' = "term" /\ asked' = "term" /\ UNCHANGED byName

\* The budgets are counted in minutes: a box has started, or never will.
Ripe == Going /\ box # "starting"

\* The watchdog and the ceiling ask for the end of a run that nobody ends yet.
Expires ==
  /\ Ripe /\ ~ killing
  /\ cut' = TRUE /\ Escalate
  /\ UNCHANGED <<procs, nature, aborted, capped, stopped, end>>

CapFires ==
  /\ Ripe /\ ~ killing
  /\ capped' = TRUE /\ Escalate
  /\ UNCHANGED <<procs, nature, cut, aborted, stopped, end>>

\* The human's Stop: before the spawn, nobody listens yet.
Stop ==
  /\ outcome = "none" /\ ~ stopped /\ stopped' = TRUE
  /\ IF child = "none" THEN UNCHANGED <<aborted, step, asked, byName>>
     ELSE aborted' = TRUE /\ Escalate
  /\ UNCHANGED <<procs, nature, cut, capped, end>>

\* The container's name is killed, if there is a container by then.
KillLands ==
  /\ byName /\ byName' = FALSE
  /\ \/ /\ box = "works" /\ box' = "gone"
     \/ /\ Races /\ box # "gone" /\ UNCHANGED box
  /\ UNCHANGED <<child, code, helper, nature, asked, step, causes, stopped, end>>

\* The wait for the box ends: the client is asked to leave.
BoxGraceEnds ==
  /\ step = "box" /\ outcome = "none"
  /\ Races \/ ~ byName
  /\ step' = "term" /\ asked' = "term"
  /\ UNCHANGED <<procs, nature, byName, causes, stopped, end>>

TermGraceEnds ==
  /\ step = "term" /\ outcome = "none"
  /\ step' = "kill" /\ asked' = "kill"
  /\ UNCHANGED <<procs, nature, byName, causes, stopped, end>>

-----------------------------------------------------------------------------
(* The processes *)

Prepared == outcome = "none" /\ child = "none"

\* The image, the proxy and the home are there: the run begins, whatever was
\* asked meanwhile.
Spawns ==
  /\ Prepared
  /\ child' = "works"
  /\ box' = IF path = "cage" THEN IF Races THEN "starting" ELSE "works" ELSE "none"
  /\ helper' \in IF Helpers /\ path = "host" THEN {"none", "works"} ELSE {"none"}
  /\ aborted' = stopped
  /\ IF stopped THEN Escalate ELSE UNCHANGED <<step, asked, byName>>
  /\ UNCHANGED <<code, nature, cut, capped, stopped, end>>

BoxStarts ==
  /\ box = "starting" /\ box' = "works"
  /\ UNCHANGED <<child, code, helper, nature, asked, byName, step, causes, stopped, end>>

\* The agent ends by itself, and the box and the client with it.
Exits(c) ==
  /\ child = "works" /\ box # "starting"
  /\ child' = "gone" /\ code' = c
  /\ box' = IF box = "works" THEN "gone" ELSE box
  /\ UNCHANGED <<helper, nature, asked, byName, step, causes, stopped, end>>

Takes(p) ==
  \/ asked = "term" /\ p \notin stubborn
  \/ asked = "kill" /\ p \notin deathless

\* What a signal does to the one that holds the pipes ...
Dies ==
  /\ child = "works" /\ Takes("child")
  /\ child' = "gone" /\ code' = "other"
  /\ UNCHANGED <<box, helper, nature, asked, byName, step, causes, stopped, end>>

\* ... and to the helper, which is of the same group.
HelperDies ==
  /\ helper = "works" /\ Takes("helper")
  /\ helper' = "gone"
  /\ UNCHANGED <<child, code, box, nature, asked, byName, step, causes, stopped, end>>

-----------------------------------------------------------------------------
(* The settlement *)

\* settleFromState: a cut that has begun owns the outcome.
Settlement(c) ==
  CASE cut -> "watchdog"
    [] ~ cut /\ aborted -> "interrupted"
    [] ~ cut /\ ~ aborted /\ capped -> "timeout"
    [] ~ cut /\ ~ aborted /\ ~ capped /\ c = "zero" -> "reply"
    [] OTHER -> "exit"

\* failTurn: the watchdog's code first, then the human's Stop.
StatusOf(o) ==
  CASE o = "reply" -> "answered"
    [] o = "watchdog" -> "inactivity_timeout"
    [] o \notin {"reply", "watchdog"} /\ stopped -> "interrupted_by_user"
    [] OTHER -> "failed"

Settle(o) == outcome' = o /\ status' = StatusOf(o)

\* 'close': whatever the escalation still had to do is dropped.
Closes ==
  /\ Going /\ child = "gone"
  /\ Settle(Settlement(code))
  /\ UNCHANGED <<procs, nature, asked, byName, step, causes, stopped>>

NeverReports == FALSE
\* SIGKILL is not a promise either: the run reports anyway.  A process that it
\* does take is gone by then.
Reports == step = "kill" /\ (child = "works" => ~ Takes("child"))

SettleGraceEnds ==
  /\ Reports /\ outcome = "none"
  /\ Settle(Settlement("other"))
  /\ UNCHANGED <<procs, nature, asked, byName, step, causes, stopped>>

\* The image will not build, the proxy will not start, the shell is not there.
PreparationFails ==
  /\ Prepared
  /\ Settle("exit")
  /\ UNCHANGED <<procs, nature, asked, byName, step, causes, stopped>>

Init ==
  /\ path \in Paths
  /\ child = "none" /\ code = "none" /\ box = "none" /\ helper = "none"
  /\ stubborn \in SUBSET {"child", "helper"}
  /\ deathless \in SUBSET {"child"}
  /\ asked = "none" /\ byName = FALSE /\ step = "none"
  /\ cut = FALSE /\ aborted = FALSE /\ capped = FALSE /\ stopped = FALSE
  /\ outcome = "none" /\ status = "running"

Next ==
  \/ Spawns \/ PreparationFails \/ BoxStarts \/ Dies \/ HelperDies
  \/ \E c \in {"zero", "other"} : Exits(c)
  \/ Expires \/ CapFires \/ Stop
  \/ KillLands \/ BoxGraceEnds \/ TermGraceEnds \/ SettleGraceEnds \/ Closes

Spec == Init /\ [][Next]_vars

\* The timers of the escalation fire, signals are delivered, and a closed child
\* is heard of.
FairSpec ==
  /\ Spec /\ WF_vars(BoxGraceEnds) /\ WF_vars(TermGraceEnds)
  /\ WF_vars(SettleGraceEnds) /\ WF_vars(Closes) /\ WF_vars(KillLands)
  /\ WF_vars(Dies)

-----------------------------------------------------------------------------
(* Properties *)

TypeOK ==
  /\ path \in Paths
  /\ child \in {"none", "works", "gone"} /\ code \in {"none", "zero", "other"}
  /\ box \in {"none", "starting", "works", "gone"}
  /\ helper \in {"none", "works", "gone"}
  /\ asked \in {"none", "term", "kill"} /\ step \in {"none", "box", "term", "kill"}
  /\ {byName, cut, aborted, capped, stopped} \subseteq BOOLEAN
  /\ ~ (cut /\ capped)
  /\ outcome \in {"none", "reply", "exit", "watchdog", "interrupted", "timeout"}
  /\ status \in {"running", "answered", "failed", "inactivity_timeout",
                 "interrupted_by_user"}

\* "A watchdog cut that already started the escalation OWNS the outcome": a Stop
\* during the grace period takes neither its reason nor its resumable status.
CutOwnsTheOutcome == cut /\ outcome # "none" => status = "inactivity_timeout"

\* A turn a human stopped can always be taken up again: whatever else went wrong
\* meanwhile, it is never failed.
StopIsNeverAFailure == stopped => status # "failed"

\* Nobody works for a turn that has been settled, but one that no signal takes:
\* the worktree is the next turn's, or the human's.
NobodyWorksOn ==
  outcome # "none" =>
    /\ child # "works" \/ "child" \in deathless
    /\ box \notin {"starting", "works"}

\* "A kill actually kills": what ignored the first signal has been sent the second
\* one by the time the run is settled, the shell and everything it started.
KillReachesAll ==
  outcome # "none" /\ killing /\ helper = "works" => Takes("helper")

\* A run that is being killed settles, whatever its processes do: a graceful
\* shutdown waits for it.
KilledSettles == killing ~> outcome # "none"
=============================================================================
