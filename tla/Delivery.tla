------------------------------ MODULE Delivery ------------------------------
(***************************************************************************)
(* The delivery of a task: ship (push and merge request), then merge.       *)
(* Three callers take the same two steps: the end-of-turn hook, a person's  *)
(* request, and the boot, which resumes the step `cycle_step' names in      *)
(* task.json.  A step holds a copy of the record across its await; the sets *)
(* `shipping' and `merging' keep the other writers off.                     *)
(*                                                                          *)
(* The forge is external: it keeps one merge request per branch and a merge *)
(* that landed stays landed.                                                *)
(***************************************************************************)
EXTENDS Naturals, FiniteSets

CONSTANTS MaxCrashes,
          PersonShips,  \* people ask for ships
          ChecksByHand, \* people start checks runs
          Others,       \* the boot has other tasks to resume before this one
          Throws,       \* the end-of-turn hook may fail unexpectedly
          BaseMoves,    \* the local copy of the target may advance
          MaxTurns

ParametersAreSound ==
  /\ MaxCrashes \in Nat /\ MaxTurns \in Nat
  /\ {PersonShips, ChecksByHand, Others, Throws, BaseMoves} \subseteq BOOLEAN

VARIABLES
  status,     \* record.status
  cycle_step, \* record.cycle_step
  opts,       \* the record's auto_ship and the merge policy: neither changes
  pc,         \* what each caller is at
  copy,       \* the record the caller loaded
  checking,   \* a checks run is in flight
  up,         \* the process runs
  mr,         \* the branch is on the forge with its merge request
  landed,     \* the forge has merged it
  behind,     \* the target, as the local repository knows it, is ahead of the branch
  merged,     \* the journal holds the 'merged' line of this branch
  published,  \* recap comment, label and closed issue
  turns, crashes

vars == <<status, cycle_step, opts, pc, copy, checking, up, mr, landed, behind, merged, published,
          turns, crashes>>

Callers == {"hook", "person", "boot"}
Steps == {"none", "ship", "merge"}
\* "turn" is a turn and its review: queued, running and reviewing.
Statuses == {"turn", "interrupted", "review_ok", "review_ko", "waiting_for_you", "shipped",
             "abandoned"}
Stages == {"idle", "ship", "push", "pushed", "merge", "call", "answered", "noted", "publish"}

forge == <<mr, landed, behind>>
rest == <<opts, checking, up, turns, crashes>>

shipping == \E w \in Callers : pc[w] \in {"push", "pushed"}
merging == \E w \in Callers : pc[w] \in {"call", "answered", "noted", "publish"}

\* A plausible bug: what resumes at boot gives way to requests.
AlwaysGivesWay == up /\ pc["hook"] # "merge"

\* A handler runs to its next await: a request does not come in between the
\* end of a ship and the merge chained to it, nor between the boot's listing
\* and the first step it resumes.
GivesWay == up /\ pc["hook"] # "merge" /\ (Others \/ pc["boot"] \notin {"ship", "merge"})

\* Where a caller goes after ship(), given the marker on disk.
AfterShip(w, step) ==
  CASE w = "hook" -> "merge"
    [] w = "boot" /\ step = "merge" -> "merge"
    [] OTHER -> "idle"

At(w, stage) == pc' = [pc EXCEPT ![w] = stage]

\* saveTask.
Saves(s, step) == status' = s /\ cycle_step' = step

-----------------------------------------------------------------------------
(* Ship *)

\* Refused before the record is read: nothing is written.
ShipBusy(w) ==
  /\ pc[w] = "ship" /\ (shipping \/ checking)
  /\ At(w, AfterShip(w, cycle_step))
  /\ UNCHANGED <<status, cycle_step, copy, merged, published, forge, rest>>

Shippable == status \in {"review_ok", "review_ko"}

\* shipRefusal: a marker does not survive it.
ShipRefused(w) ==
  /\ pc[w] = "ship" /\ ~shipping /\ ~checking /\ ~Shippable
  /\ Saves(status, "none")
  /\ At(w, AfterShip(w, "none"))
  /\ UNCHANGED <<copy, merged, published, forge, rest>>

ShipStarts(w) ==
  /\ pc[w] = "ship" /\ ~shipping /\ ~checking /\ Shippable
  /\ copy' = [copy EXCEPT ![w] = [status |-> status, step |-> cycle_step]]
  /\ At(w, "push")
  /\ UNCHANGED <<status, cycle_step, merged, published, forge, rest>>

\* The push lands; the merge request is opened or was there.
PushLands(w) ==
  /\ pc[w] = "push"
  /\ mr' = TRUE
  /\ At(w, "pushed")
  /\ UNCHANGED <<status, cycle_step, copy, landed, behind, merged, published, rest>>

PushFails(w) ==
  /\ pc[w] = "push"
  /\ IF copy[w].step # "none" THEN Saves(copy[w].status, "none")
                              ELSE UNCHANGED <<status, cycle_step>>
  /\ At(w, AfterShip(w, cycle_step'))
  /\ UNCHANGED <<copy, merged, published, forge, rest>>

ShipWrites(w) ==
  /\ pc[w] = "pushed"
  /\ Saves("shipped", IF opts.auto_merge THEN "merge" ELSE "none")
  /\ At(w, AfterShip(w, cycle_step'))
  /\ UNCHANGED <<copy, merged, published, forge, rest>>

-----------------------------------------------------------------------------
(* Merge *)

\* runMergeStep has nothing to do: a merge is in flight, or the task is not shipped.
MergeSkipped(w) ==
  /\ pc[w] = "merge" /\ (merging \/ status # "shipped")
  /\ At(w, "idle")
  /\ UNCHANGED <<status, cycle_step, copy, merged, published, forge, rest>>

\* The journal says that an earlier call landed.
MergeKnown(w) ==
  /\ pc[w] = "merge" /\ ~merging /\ status = "shipped" /\ merged
  /\ Saves(status, "none")
  /\ At(w, "idle")
  /\ UNCHANGED <<copy, merged, published, forge, rest>>

\* mergeTask up to its first await: held by policy, refused by a condition
\* (MergeGate has them all), or on to the forge.
MergeEvaluates(w) ==
  /\ pc[w] = "merge" /\ ~merging /\ status = "shipped" /\ ~merged
  /\ CASE ~opts.auto_merge ->
            Saves(status, "none") /\ At(w, "idle") /\ UNCHANGED copy
       [] opts.auto_merge /\ behind ->
            Saves("waiting_for_you", "none") /\ At(w, "idle") /\ UNCHANGED copy
       [] OTHER ->
            /\ copy' = [copy EXCEPT ![w] = [status |-> status, step |-> cycle_step]]
            /\ At(w, "call")
            /\ UNCHANGED <<status, cycle_step>>
  /\ UNCHANGED <<merged, published, forge, rest>>

\* The forge merges; or it refuses what it has merged already, and its list of
\* merged requests says so.
ForgeMerges(w) ==
  /\ pc[w] = "call" /\ mr
  /\ landed' = TRUE
  /\ At(w, "answered")
  /\ UNCHANGED <<status, cycle_step, copy, mr, behind, merged, published, rest>>

\* A conflict, no CLI, a refusal of its own; or a merge whose answer is lost,
\* or that had landed, and the list of merged requests fails as well.
ForgeRefuses(w) ==
  /\ pc[w] = "call"
  /\ landed' \in {landed, landed \/ mr}
  /\ Saves("waiting_for_you", "none")
  /\ At(w, "idle")
  /\ UNCHANGED <<copy, mr, behind, merged, published, rest>>

\* The outcome's lines go to the journal...
MergeJournaled(w) ==
  /\ pc[w] = "answered"
  /\ merged' = TRUE
  /\ At(w, "noted")
  /\ UNCHANGED <<status, cycle_step, copy, published, forge, rest>>

\* ... then the marker is cleared.
MergeCleared(w) ==
  /\ pc[w] = "noted"
  /\ IF copy[w].step # "none" THEN Saves(copy[w].status, "none")
                              ELSE UNCHANGED <<status, cycle_step>>
  /\ At(w, "publish")
  /\ UNCHANGED <<copy, merged, published, forge, rest>>

\* publishMergedOutcome: comment, label, close.
Publishes(w) ==
  /\ pc[w] = "publish"
  /\ published' = TRUE
  /\ At(w, "idle")
  /\ UNCHANGED <<status, cycle_step, copy, merged, forge, rest>>

-----------------------------------------------------------------------------
(* The turn and its hook *)

\* The review settles; an approved task that ships by itself carries the marker
\* in that same write.  The rounds are FixLoop's; the gates, their second fold
\* and the marker it leaves are MergeGate's.
Settles(s) ==
  /\ up /\ status = "turn" /\ pc["hook"] = "idle"
  /\ LET chained == opts.auto_ship /\ s = "review_ok"
     IN  /\ Saves(s, IF chained THEN "ship" ELSE cycle_step)
         /\ At("hook", IF chained THEN "ship" ELSE "idle")
  /\ UNCHANGED <<copy, merged, published, forge, rest>>

\* The hook throws and the runner writes the record it holds since the turn.
HookThrows ==
  /\ Throws /\ pc["hook"] # "idle"
  /\ Saves("review_ko", "ship")
  /\ At("hook", "idle")
  /\ UNCHANGED <<copy, merged, published, forge, rest>>

-----------------------------------------------------------------------------
(* People *)

PersonAsksToShip ==
  /\ PersonShips /\ GivesWay /\ pc["person"] = "idle" /\ status # "abandoned"
  /\ At("person", "ship")
  /\ UNCHANGED <<status, cycle_step, copy, merged, published, forge, rest>>

\* What reply, resume and abandon ask of the two sets, and of the turn's claim.
MayGesture == GivesWay /\ pc["hook"] = "idle" /\ ~shipping /\ ~merging

\* reply and resume purge the marker, then ask the runner, which may refuse.
Reply ==
  /\ MayGesture /\ status \notin {"turn", "abandoned"} /\ turns < MaxTurns
  /\ turns' = turns + 1
  /\ Saves(IF status = "shipped" THEN status ELSE "turn", "none")
  /\ \E rebased \in BOOLEAN : behind' = (behind /\ ~rebased)
  /\ UNCHANGED <<opts, pc, copy, checking, up, mr, landed, merged, published, crashes>>

Abandon ==
  /\ MayGesture /\ status \notin {"turn", "shipped", "abandoned"}
  /\ Saves("abandoned", "none")
  /\ UNCHANGED <<pc, copy, merged, published, forge, rest>>

\* A manual checks run comes and goes.
Checks ==
  /\ ChecksByHand /\ up /\ GivesWay
  /\ checking' = ~checking
  /\ UNCHANGED <<status, cycle_step, opts, pc, copy, up, forge, merged, published, turns, crashes>>

\* A fetch brings in what has landed on the target: others' work, or this one's.
TargetMoves ==
  /\ BaseMoves /\ ~behind
  /\ behind' = TRUE
  /\ UNCHANGED <<status, cycle_step, pc, copy, mr, landed, merged, published, rest>>

-----------------------------------------------------------------------------
(* Crash and boot *)

Crash ==
  /\ up /\ crashes < MaxCrashes
  /\ crashes' = crashes + 1
  /\ up' = FALSE /\ checking' = FALSE
  /\ pc' = [w \in Callers |-> "idle"]
  /\ status' \in IF status = "turn" THEN {"turn", "interrupted"} ELSE {status}
  /\ UNCHANGED <<cycle_step, opts, copy, forge, merged, published, turns>>

\* startPending: every record that carries a marker is listed and resumed.
Boot ==
  /\ ~up
  /\ up' = TRUE
  /\ At("boot", IF cycle_step = "none" THEN "idle" ELSE cycle_step)
  /\ UNCHANGED <<status, cycle_step, opts, copy, checking, forge, merged, published, turns, crashes>>

Init ==
  /\ status = "turn" /\ cycle_step = "none"
  /\ opts \in [auto_ship : BOOLEAN, auto_merge : BOOLEAN]
  /\ pc = [w \in Callers |-> "idle"]
  /\ copy = [w \in Callers |-> [status |-> "turn", step |-> "none"]]
  /\ checking = FALSE /\ up = TRUE
  /\ mr = FALSE /\ landed = FALSE /\ behind = FALSE /\ merged = FALSE /\ published = FALSE
  /\ turns = 0 /\ crashes = 0

Ship(w) ==
  \/ ShipBusy(w) \/ ShipRefused(w) \/ ShipStarts(w)
  \/ PushLands(w) \/ PushFails(w) \/ ShipWrites(w)

Merge(w) ==
  \/ MergeSkipped(w) \/ MergeKnown(w) \/ MergeEvaluates(w) \/ ForgeMerges(w)
  \/ ForgeRefuses(w) \/ MergeJournaled(w) \/ MergeCleared(w) \/ Publishes(w)

Next ==
  \/ \E w \in Callers : Ship(w) \/ Merge(w)
  \/ \E s \in {"review_ok", "review_ko", "waiting_for_you"} : Settles(s)
  \/ HookThrows \/ PersonAsksToShip \/ Reply \/ Abandon \/ Checks \/ TargetMoves
  \/ Crash \/ Boot

Spec == Init /\ [][Next]_vars

\* A step in flight ends (the push and the forge calls have time limits), and
\* somebody starts the workspace again.
FairSpec ==
  /\ Spec
  /\ \A w \in Callers : WF_vars(Ship(w)) /\ WF_vars(Merge(w))
  /\ WF_vars(Boot)

-----------------------------------------------------------------------------
(* Properties *)

\* Every variable holds a value of its kind.
TypeOK ==
  /\ status \in Statuses /\ cycle_step \in Steps
  /\ opts \in [auto_ship : BOOLEAN, auto_merge : BOOLEAN]
  /\ pc \in [Callers -> Stages]
  /\ copy \in [Callers -> [status : Statuses, step : Steps]]
  /\ {checking, up, mr, landed, behind, merged, published} \subseteq BOOLEAN
  /\ turns \in 0 .. MaxTurns /\ crashes \in 0 .. MaxCrashes
  /\ ~up => \A w \in Callers : pc[w] = "idle"

\* The copy a step holds across its await stays valid by exclusion
\* (task-server.ts:2069): nothing else writes the record meanwhile.
StepsOwnTheRecord ==
  \A w \in Callers :
    /\ pc[w] \in {"push", "pushed"} => status = copy[w].status
    /\ pc[w] \in {"call", "answered", "noted"} => status = copy[w].status

\* Only a finished review ships, or a refused one a person assumes
\* (task-server.ts shipRefusal): what nobody asked for pushes approved work.
UnattendedShipsAreApproved ==
  \A w \in {"hook", "boot"} : pc[w] \in {"push", "pushed"} => copy[w].status = "review_ok"

\* A merge that is in the journal is not asked of the forge again (D20).
MergedIsFinal == merged => \A w \in Callers : pc[w] # "call"

\* The types hold; what a step holds across its await is its own, unless the
\* hook throws; what nobody asked for is approved when it is pushed, unless the
\* hook throws or the boot is at other tasks meanwhile; and a merge in the
\* journal is final, always (ship and runMergeStep, task-server.ts).
DeliveryIsSound ==
  /\ TypeOK
  /\ ~Throws => StepsOwnTheRecord
  /\ ~Throws /\ ~Others => UnattendedShipsAreApproved
  /\ MergedIsFinal

\* A step named in task.json is being run, or the next boot resumes it: either
\* way the record stops saying so (D20).
StepsAreResumed == (cycle_step # "none") ~> (cycle_step = "none")

\* The record never claims to be mid-step when nothing is about to run
\* (task-server.ts:2163, :2514).
MarkerIsRun ==
  (up /\ cycle_step # "none") => \E w \in Callers : pc[w] # "idle"

\* What a landed merge owes the ticket is paid (publishMergedOutcome): once the
\* marker is gone, so is the debt.
NothingOwed ==
  (merged /\ cycle_step = "none" /\ \A w \in Callers : pc[w] = "idle" /\ up) => published

\* A merge that landed before a crash is recognised when the step resumes (D20):
\* the task is not handed to a person as refused.
LandedIsNotRefused == landed => status # "waiting_for_you"
=============================================================================
