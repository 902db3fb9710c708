---------------------------- MODULE EgressProxy -----------------------------
(***************************************************************************)
(* The proxies through which caged agents reach the network                *)
(* (ensureEgressProxy and teardownEgressProxy in                           *)
(* packages/cli/src/task-isolation.ts).  One allowlist is one proxy: its   *)
(* hash names a container and two networks of the machine, which every     *)
(* workspace of the machine shares.  Each process remembers the proxies it *)
(* has asked for and those it has started.  Every command to the runtime   *)
(* is a step of its own.                                                   *)
(***************************************************************************)
EXTENDS FiniteSets

CONSTANTS
  Procs,      \* workspaces on the machine
  Lists,      \* allowlists, each with its proxy
  JoinFails,  \* `network connect` may fail
  Slow        \* the drain's ceiling may pass while a proxy is being prepared

ParametersAreSound == {JoinFails, Slow} \subseteq BOOLEAN

VARIABLES
  inner, outer,  \* the internal networks, and the bridges, that exist
  container,     \* of each list: "none", "alone" on its bridge, "joined"
  memo,          \* of each process and list: "none", "pending", "ready"
  pc,            \* "idle", "nets", "creates", "inspects", "runs", "joins", "probes"
  started,       \* startedProxies: of each process, lists
  life,          \* of each process: "off", "up", "stopping"
  doomed,        \* what a stopping process still has to remove
  owing          \* and the lists whose networks it will try to remove

vars == <<inner, outer, container, memo, pc, started, life, doomed, owing>>
nets == <<inner, outer>>
stops == <<life, doomed, owing>>

Init ==
  /\ inner = {} /\ outer = {}
  /\ container = [l \in Lists |-> "none"]
  /\ memo = [p \in Procs |-> [l \in Lists |-> "none"]]
  /\ pc = [p \in Procs |-> [l \in Lists |-> "idle"]]
  /\ started = [p \in Procs |-> {}]
  /\ life = [p \in Procs |-> "off"]
  /\ doomed = [p \in Procs |-> {}]
  /\ owing = [p \in Procs |-> {}]

Goes(p, l, to) == pc' = [pc EXCEPT ![p][l] = to]

Remembered(p, l) == memo' = [memo EXCEPT ![p][l] = IF life[p] = "up" THEN "ready" ELSE @]

Ready(p, l) == Goes(p, l, "idle") /\ Remembered(p, l)

\* What fails is forgotten: the next turn tries again.
Fails(p, l) ==
  /\ Goes(p, l, "idle")
  /\ memo' = [memo EXCEPT ![p][l] = "none"]

-----------------------------------------------------------------------------
(* ensureEgressProxy *)

Ask(p, l) ==
  /\ life[p] = "up" /\ memo[p][l] = "none"
  /\ memo' = [memo EXCEPT ![p][l] = "pending"]
  /\ Goes(p, l, "nets")
  /\ UNCHANGED <<nets, container, started, stops>>

NetsInspected(p, l) ==
  /\ pc[p][l] = "nets"
  /\ Goes(p, l, IF l \in inner \cap outer THEN "inspects" ELSE "creates")
  /\ UNCHANGED <<nets, container, memo, started, stops>>

\* Two that create the same network: the second fails.
NetsCreated(p, l) ==
  /\ pc[p][l] = "creates"
  /\ inner' = inner \cup {l} /\ outer' = outer \cup {l}
  /\ IF l \in inner \cap outer
     THEN Fails(p, l)
     ELSE Goes(p, l, "inspects") /\ UNCHANGED memo
  /\ UNCHANGED <<container, started, stops>>

\* A container that is there is reused as it is.
Inspected(p, l) ==
  /\ pc[p][l] = "inspects"
  /\ IF container[l] # "none"
     THEN Ready(p, l)
     ELSE Goes(p, l, "runs") /\ UNCHANGED memo
  /\ UNCHANGED <<nets, container, started, stops>>

Runs(p, l) ==
  /\ pc[p][l] = "runs"
  /\ \/ /\ container[l] = "none" /\ l \in outer
        /\ container' = [container EXCEPT ![l] = "alone"]
        /\ Goes(p, l, "joins") /\ UNCHANGED memo
     \/ Fails(p, l) /\ UNCHANGED container
  /\ UNCHANGED <<nets, started, stops>>

\* Of the proxies this process has started, it knows those that have joined.
Joined(p, l) ==
  /\ container' = [container EXCEPT ![l] = "joined"]
  /\ started' = [started EXCEPT ![p] = @ \cup {l}]
  /\ Goes(p, l, "probes")
  /\ UNCHANGED memo

Joins(p, l) ==
  /\ pc[p][l] = "joins"
  /\ \/ /\ container[l] # "none" /\ l \in inner
        /\ Joined(p, l)
     \/ /\ JoinFails \/ container[l] = "none" \/ l \notin inner
        /\ Fails(p, l) /\ UNCHANGED <<container, started>>
  /\ UNCHANGED <<nets, stops>>

Alive(l) == container[l] # "none"

Probes(p, l) ==
  /\ pc[p][l] = "probes"
  /\ IF Alive(l) THEN Ready(p, l) ELSE Fails(p, l)
  /\ UNCHANGED <<nets, container, started, stops>>

\* A broken squid.conf kills the proxy right after its start, and --rm leaves
\* nothing of it.
SquidDies(l) ==
  /\ \E p \in Procs : pc[p][l] \in {"joins", "probes"}
  /\ container[l] # "none"
  /\ container' = [container EXCEPT ![l] = "none"]
  /\ UNCHANGED <<nets, memo, pc, started, stops>>

-----------------------------------------------------------------------------
(* A workspace starts, and stops *)

Start(p) ==
  /\ life[p] = "off"
  /\ life' = [life EXCEPT ![p] = "up"]
  /\ UNCHANGED <<nets, container, memo, pc, started, doomed, owing>>

\* teardownEgressProxy.  The drain has waited for the turns, and for what they
\* were preparing, unless its ceiling has passed.
Drained(p) == \A l \in Lists : pc[p][l] = "idle"
Stops(p) ==
  /\ life[p] = "up" /\ (Drained(p) \/ Slow)
  /\ life' = [life EXCEPT ![p] = "stopping"]
  /\ doomed' = [doomed EXCEPT ![p] = started[p]]
  /\ owing' = [owing EXCEPT ![p] = {l \in Lists : memo[p][l] # "none"}]
  /\ started' = [started EXCEPT ![p] = {}]
  /\ memo' = [memo EXCEPT ![p] = [l \in Lists |-> "none"]]
  /\ UNCHANGED <<nets, container, pc>>

RemovesProxy(p, l) ==
  /\ l \in doomed[p]
  /\ container' = [container EXCEPT ![l] = "none"]
  /\ doomed' = [doomed EXCEPT ![p] = @ \ {l}]
  /\ UNCHANGED <<nets, memo, pc, started, life, owing>>

ProxiesFirst(p) == doomed[p] = {}

\* A network with a container on it is not removed.  One whose preparation
\* failed while the process was stopping is left alone.
RemovesNets(p, l) ==
  /\ life[p] = "stopping" /\ ProxiesFirst(p)
  /\ l \in owing[p] /\ pc[p][l] = "idle"
  /\ owing' = [owing EXCEPT ![p] = @ \ {l}]
  /\ \E given \in {TRUE, ~ Slow} :
       /\ inner' = IF given /\ container[l] # "joined" THEN inner \ {l} ELSE inner
       /\ outer' = IF given /\ container[l] = "none" THEN outer \ {l} ELSE outer
  /\ UNCHANGED <<container, memo, pc, started, life, doomed>>

Exits(p) ==
  /\ life[p] = "stopping" /\ doomed[p] = {} /\ owing[p] = {}
  /\ life' = [life EXCEPT ![p] = "off"]
  /\ started' = [started EXCEPT ![p] = {}]
  /\ UNCHANGED <<nets, container, memo, pc, doomed, owing>>

Next ==
  \E p \in Procs :
    \/ Start(p) \/ Stops(p) \/ Exits(p)
    \/ \E l \in Lists :
         \/ Ask(p, l) \/ NetsInspected(p, l) \/ NetsCreated(p, l) \/ Inspected(p, l)
         \/ Runs(p, l) \/ Joins(p, l) \/ Probes(p, l) \/ SquidDies(l)
         \/ RemovesProxy(p, l) \/ RemovesNets(p, l)

Spec == Init /\ [][Next]_vars

-----------------------------------------------------------------------------
(* Properties *)

\* Every variable has its type; a list is being prepared exactly as long as it
\* is pending in a process that is not stopping.
TypeOK ==
  /\ inner \subseteq Lists /\ outer \subseteq Lists
  /\ container \in [Lists -> {"none", "alone", "joined"}]
  /\ memo \in [Procs -> [Lists -> {"none", "pending", "ready"}]]
  /\ pc \in [Procs -> [Lists -> {"idle", "nets", "creates", "inspects", "runs", "joins", "probes"}]]
  /\ started \in [Procs -> SUBSET Lists]
  /\ life \in [Procs -> {"off", "up", "stopping"}]
  /\ doomed \in [Procs -> SUBSET Lists] /\ owing \in [Procs -> SUBSET Lists]
  /\ \A p \in Procs : \A l \in Lists :
       life[p] = "up" => (pc[p][l] = "idle" <=> memo[p][l] # "pending")

\* A proxy that a turn is given answers on the network of that turn: whatever
\* was done before it was given (the inspect, the probe, the memo).
ReadyMeansReach ==
  \A p \in Procs : \A l \in Lists : memo[p][l] = "ready" => container[l] = "joined" /\ l \in inner

\* When the last workspace has gone, nothing of it is left on the machine but a
\* network whose preparation failed: a proxy dies with the workspace that
\* started it, "never before and never after".
NothingLeftBehind ==
  (\A p \in Procs : life[p] = "off") => \A l \in Lists : container[l] = "none"

\* The networks of a proxy that a workspace was given go with it.
TakesTheNets ==
  \A p \in Procs : \A l \in owing[p] : l \notin owing'[p] =>
    l \notin inner' /\ l \notin outer'
=============================================================================
