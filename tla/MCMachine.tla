------------------------------ MODULE MCMachine ------------------------------
(****************************************************************************)
(* Small instances of the modules about what runs beside the tasks: the     *)
(* daemon and its pidfile, the worktrees and volumes, the watchdog, the     *)
(* processes of an agent and the egress proxies. They are checked in one    *)
(* run: `part' says which of them moves, and the others rest.               *)
(****************************************************************************)
EXTENDS Naturals, Housekeeping

CONSTANTS
  Parts,  \* those of the parts below that this run explores
  Daemons, Callers, PidfileGap, Legacy,  \* of the pidfile
  Dialects, Inactivity, ToolBudget, Heartbeat, Configured, Escalation, MaxTools,
  Losses,                                \* of the watchdog
  Paths, Helpers, RunRaces               \* of an agent run

VARIABLE part  \* the one that moves

\* The runner daemon over two tickets, down for longer than a lease, with
\* people.
VARIABLES hub, silence, order, records, daemonUp, daemonPc, entry, next, beat,
          handed, given, put, crashes, lost
runnerVars == <<hub, silence, order, records, daemonUp, daemonPc, entry, next,
                beat, handed, given, put, crashes, lost>>
Runner == INSTANCE Daemon WITH
  Tickets <- {1, 2}, Unfit <- {}, TurnCap <- 2, LeaseBeats <- 2,
  MaxRecords <- 3, MaxCrashes <- 1, MaxLost <- 0, MaxOrders <- 0,
  Outages <- TRUE, Refusals <- TRUE, Persons <- TRUE, Orders <- {},
  up <- daemonUp, pc <- daemonPc

\* Its pidfile, and one that is looked at before it is written.
VARIABLES file, legacy, daemon, signalled, pidPc, op, seen, said
pidfileVars == <<file, legacy, daemon, signalled, pidPc, op, seen, said>>
Pidfile == INSTANCE RunnerPidfile WITH
  Gap <- FALSE, pc <- pidPc
GapPidfile == INSTANCE RunnerPidfile WITH
  Gap <- PidfileGap, pc <- pidPc

\* The watchdog over streams that name their tools, late or not at all.
VARIABLES dialect, now, nextTick, lastActivityAt, lastBeatAt, inFlight,
          toolsSince, verdict, out, outSince, lossy
dogVars == <<dialect, now, nextTick, lastActivityAt, lastBeatAt, inFlight,
             toolsSince, verdict, out, outSince, lossy>>
Dog == INSTANCE Watchdog

\* The processes of one agent run, and those of a run whose box is there in
\* time.
VARIABLES path, child, code, box, helper, stubborn, deathless, asked, byName,
          step, cut, aborted, capped, stopped, outcome, status
runVars == <<path, child, code, box, helper, stubborn, deathless, asked,
             byName, step, cut, aborted, capped, stopped, outcome, status>>
Run == INSTANCE AgentRun WITH Races <- RunRaces
OrderlyRun == INSTANCE AgentRun WITH Races <- FALSE

\* The egress proxies of one workspace, for two allowlists.
VARIABLES inner, outer, container, proxyMemo, proxyPc, started, life, doomed,
          owing
proxiesVars == <<inner, outer, container, proxyMemo, proxyPc, started, life,
                 doomed, owing>>
Proxies == INSTANCE EgressProxy WITH
  Procs <- {"p1"}, Lists <- {"a", "b"}, JoinFails <- FALSE, Slow <- FALSE,
  memo <- proxyMemo, pc <- proxyPc

ASSUME PartsAreSound ==
  /\ Parts \subseteq {"house", "daemon", "pidfile", "pidfile gap", "watchdog",
                     "run", "orderly run", "proxies"}
  /\ Runner!ParametersAreSound /\ Pidfile!ParametersAreSound
  /\ GapPidfile!ParametersAreSound /\ Dog!ParametersAreSound
  /\ Run!ParametersAreSound /\ OrderlyRun!ParametersAreSound
  /\ Proxies!ParametersAreSound

machineVars == <<part, vars, runnerVars, pidfileVars, dogVars, runVars, proxiesVars>>

\* The parts that do not move rest where they start, each in one of its initial
\* states.
MachineInit ==
  /\ part \in Parts
  /\ Init /\ Runner!Init /\ Pidfile!Init /\ Dog!Init /\ Run!Init
  /\ Proxies!Init
  /\ part = "house" \/ record = [t \in Ids |-> "unborn"]
  /\ part = "watchdog" \/ dialect = "claude"
  /\ \/ part \in {"run", "orderly run"}
     \/ (path = "host" /\ stubborn = {} /\ deathless = {})

MachineNext ==
  /\ UNCHANGED part
  /\ \/ /\ part = "house" /\ Next
        /\ UNCHANGED <<runnerVars, pidfileVars, dogVars, runVars, proxiesVars>>
     \/ /\ part = "daemon" /\ Runner!Next
        /\ UNCHANGED <<vars, pidfileVars, dogVars, runVars, proxiesVars>>
     \/ /\ part = "pidfile" /\ Pidfile!Next
        /\ UNCHANGED <<vars, runnerVars, dogVars, runVars, proxiesVars>>
     \/ /\ part = "pidfile gap" /\ GapPidfile!Next
        /\ UNCHANGED <<vars, runnerVars, dogVars, runVars, proxiesVars>>
     \/ /\ part = "watchdog" /\ Dog!Next
        /\ UNCHANGED <<vars, runnerVars, pidfileVars, runVars, proxiesVars>>
     \/ /\ part = "run" /\ Run!Next
        /\ UNCHANGED <<vars, runnerVars, pidfileVars, dogVars, proxiesVars>>
     \/ /\ part = "orderly run" /\ OrderlyRun!Next
        /\ UNCHANGED <<vars, runnerVars, pidfileVars, dogVars, proxiesVars>>
     \/ /\ part = "proxies" /\ Proxies!Next
        /\ UNCHANGED <<vars, runnerVars, pidfileVars, dogVars, runVars>>

MachineSpec == MachineInit /\ [][MachineNext]_machineVars
------------------------------------------------------------------------------
(* Properties *)

\* What serves the tasks is there, once, and goes when it is told. One live task
\* at most is minted for a ticket, however often it is listed, leased, lost and
\* listed again; the daemon that serves can be found, and one that was reported
\* stopped is not named any more (runner-daemon.ts, runner-pidfile.ts). A proxy
\* that a caged turn is given answers on its network; when the last workspace has
\* gone no proxy is left, and the networks of one go with it (task-isolation.ts).
HelpersAreKnown ==
  /\ [](part = "daemon" => Runner!TypeOK /\ Runner!OneTaskPerTicket)
  /\ [](part = "pidfile" => Pidfile!TypeOK /\ Pidfile!Findable)
  /\ [](part = "pidfile gap" => GapPidfile!StoppedIsForgotten)
  /\ [](part = "proxies" => Proxies!TypeOK /\ Proxies!ReadyMeansReach)
  /\ [](part = "proxies" => Proxies!NothingLeftBehind)
  /\ [][Proxies!TakesTheNets]_machineVars

\* A run is cut with cause, and the cut owns the outcome.  Silence cuts no run
\* that waits for a tool it showed, each tool gets a fresh window, and no run stays
\* silent past its budgets, also where no tool can be seen; once a cut has begun
\* the outcome is its own, a turn a human stopped is never failed, and, as long as
\* its box is there before it is killed, nobody works for a turn that has been
\* settled (agent.ts, the watchdog; task-isolation.ts).
CutsHaveCause ==
  /\ part = "watchdog" =>
       /\ Dog!TypeOK
       /\ dialect = "claude" => Dog!WaitingIsNotDeath /\ Dog!WindowsAreFresh
                                /\ Dog!LongIsNotSilent /\ Dog!WatchdogComesFirst
       /\ Dog!SilenceIsBounded
       /\ dialect # "claude" => Dog!BlindSilenceIsShort
  /\ part = "run" => Run!TypeOK /\ Run!CutOwnsTheOutcome /\ Run!StopIsNeverAFailure
  /\ part = "orderly run" => OrderlyRun!NobodyWorksOn
==============================================================================
