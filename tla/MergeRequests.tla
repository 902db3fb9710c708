---------------------------- MODULE MergeRequests -----------------------------
(****************************************************************************)
(* The merge requests of one branch, which conversations may share one after *)
(* the other: a ship pushes and asks the forge's command line tools, in turn, *)
(* to open one; the merge asks them to merge it, and when they refuse, whether *)
(* they have merged it already.  A remote that names no forge is asked        *)
(* through both tools, and only one of them knows the repository.             *)
(****************************************************************************)
EXTENDS Naturals, Sequences

CONSTANTS
  Tasks,     \* the conversations, numbers from 1, in order
  Home,      \* the tool of the forge the repository is on
  Unnamed,   \* its remote does not say so, and both tools are candidates
  Installed, \* the tools there are
  Auto,      \* merges are automatic: mergePolicy, or the runner's for hub tickets
  Hands,     \* what persons do at the forge: "merges", "closes"
  Caged,     \* the push and the tools run in a micro-VM
  Landed,    \* a call whose answer is an error may have had its effect
  MaxCommits, MaxFaults, MaxCrashes  \* bounds

\* forgeCandidates and mergeCandidates.
Tools == IF Unnamed THEN <<"gh", "glab">> ELSE <<Home>>

ParametersAreSound ==
  /\ Tasks \subseteq Nat \ {0} /\ 1 \in Tasks
  /\ Home \in {"gh", "glab"} /\ Installed \subseteq {"gh", "glab"}
  /\ Hands \subseteq {"merges", "closes"} /\ {Unnamed, Auto, Caged, Landed} \subseteq BOOLEAN
  /\ {MaxCommits, MaxFaults, MaxCrashes} \subseteq Nat

VARIABLES
  task,     \* the conversation that has the branch
  status,   \* of its record, see Statuses
  step,     \* its cycle_step
  by,       \* who asked for the ship in flight: "hook", "person" or "boot"
  at,       \* where the ship or the merge stands
  tool,     \* the candidate that is asked
  failed,   \* one before it ran, and failed
  tip,      \* the commits on the branch, a number
  pushed,   \* those origin has
  base,     \* those that are on the target
  requests, \* of this branch at the forge, [state, commits], the last may be open;
            \* an open one has what is pushed
  shipped,  \* per conversation: the commits it pushed last
  url,      \* per conversation: the request its journal's last 'shipped' names, or 0
  link,     \* per conversation: the request its recap names, or 0
  short,    \* per conversation: its record says that it stopped short of one
  merged,   \* per conversation: the commits of the request that its journal
            \* calls merged, or 0
  told,     \* per conversation: what the hub was last told
  box,      \* the micro-VM of the ship is there
  older,    \* a request of the branch had been merged when the last ship began
  faults, crashes

vars == <<task, status, step, by, at, tool, failed, tip, pushed, base, requests, shipped,
          url, link, short, merged, told, box, older, faults, crashes>>
forge == <<pushed, base, requests>>
said == <<url, link, short, merged, told>>
chain == <<task, status, step, by, at, tool, failed, box, older>>

Statuses == {"turn", "review_ok", "shipped", "waiting_for_you"}
Stages == {"rest", "push", "create", "merge", "ask", "confirm", "proof"}

Newest == Len(requests)
IsOpen == Newest > 0 /\ requests[Newest].state = "open"
\* The list of merged requests of the branch, of which the newest is read.
MergedOnes == {i \in DOMAIN requests : requests[i].state = "merged"}
Proof == CHOOSE i \in MergedOnes : \A j \in MergedOnes : j <= i

Init ==
  /\ task = 1 /\ status = "turn" /\ step = "none" /\ by = "hook"
  /\ at = "rest" /\ tool = 1 /\ failed = FALSE
  /\ tip = 0 /\ pushed = 0 /\ base = 0 /\ requests = <<>>
  /\ shipped = [t \in Tasks |-> 0] /\ url = [t \in Tasks |-> 0] /\ link = url
  /\ short = [t \in Tasks |-> FALSE] /\ merged = [t \in Tasks |-> 0]
  /\ told = [t \in Tasks |-> "nothing"] /\ box = FALSE /\ older = FALSE
  /\ faults = 0 /\ crashes = 0

Fault == faults < MaxFaults /\ faults' = faults + 1
------------------------------------------------------------------------------
(* The conversation *)

\* A turn commits, and its review lets it through; with auto_ship the hook goes
\* on to the ship.
TurnEnds ==
  /\ at = "rest" /\ status = "turn" /\ tip < MaxCommits
  /\ tip' = tip + 1 /\ status' = "review_ok"
  /\ \/ step' = "ship" /\ by' = "hook" /\ at' = "push"
     \/ UNCHANGED <<step, by, at>>
  /\ UNCHANGED <<task, tool, failed, box, older, forge, shipped, said, faults, crashes>>

PersonShips ==
  /\ at = "rest" /\ status = "review_ok"
  /\ at' = "push" /\ by' = "person"
  /\ UNCHANGED <<task, status, step, tool, failed, tip, box, older, forge, shipped, said, faults, crashes>>

Reply ==
  /\ at = "rest" /\ status \in {"review_ok", "waiting_for_you"}
  /\ status' = "turn" /\ step' = "none"
  /\ UNCHANGED <<task, by, at, tool, failed, tip, box, older, forge, shipped, said, faults, crashes>>

\* A new conversation works on the branch of one that has shipped.
WorksOn ==
  /\ at = "rest" /\ status = "shipped" /\ task + 1 \in Tasks
  /\ task' = task + 1 /\ status' = "turn" /\ step' = "none"
  /\ UNCHANGED <<by, at, tool, failed, tip, box, older, forge, shipped, said, faults, crashes>>
------------------------------------------------------------------------------
(* shipTask *)

\* createGitopsSession: the push makes the box, the tools use it, and it goes when
\* the ship ends, however it does.
Session(ends) == box' = (Caged /\ ~ends)

\* The push is the gate: when it, or the box it runs in, fails, nothing is shipped.
Push ==
  /\ at = "push" /\ older' = (MergedOnes # {})
  /\ \/ /\ pushed' = tip /\ shipped' = [shipped EXCEPT ![task] = tip]
        /\ at' = "create" /\ tool' = 1 /\ failed' = FALSE /\ Session(FALSE)
        /\ UNCHANGED <<step, faults>>
     \/ /\ Fault /\ at' = "rest" /\ step' = "none" /\ Session(TRUE)
        /\ UNCHANGED <<pushed, shipped, tool, failed>>
  /\ UNCHANGED <<task, status, by, tip, base, requests, said, crashes>>

\* prepareRecap writes the recap with the request the journal names, attachMrUrl
\* the new one over it.
Linked(request) == IF request = 0 THEN url[task] ELSE request

\* What is told of a ship: a state needs its proof.
Report(request) == IF request = 0 THEN "failed" ELSE "mr_opened"

\* ship() once shipTask has answered; after the hook's and the boot's the merge
\* is the next thing.
Ships(request, degraded) ==
  /\ status' = "shipped" /\ step' = IF Auto THEN "merge" ELSE "none"
  /\ url' = [url EXCEPT ![task] = request] /\ short' = [short EXCEPT ![task] = degraded]
  /\ told' = [told EXCEPT ![task] = Report(request)]
  /\ at' = IF by = "hook" \/ (by = "boot" /\ Auto) THEN "merge" ELSE "rest"
  /\ link' = [link EXCEPT ![task] = Linked(request)]
  /\ Session(TRUE) /\ UNCHANGED <<tool, failed>>

Ask(next, ran) ==
  /\ tool' = next /\ failed' = ran
  /\ UNCHANGED <<status, step, url, link, short, told, at, box>>

\* createMr goes on to the next candidate; when there is none, the branch is
\* pushed and the request is missing.
NextToOpen(ran) ==
  IF tool = Len(Tools) THEN Ships(0, TRUE) ELSE Ask(tool + 1, ran)

Missing == Tools[tool] \notin Installed
\* Of an existing request gh prints the address, and glab does not.
Named == IF Home = "gh" THEN Newest ELSE 0

Opened == Append(requests, [state |-> "open", commits |-> pushed])

Create ==
  /\ at = "create"
  /\ \/ Missing /\ NextToOpen(failed) /\ UNCHANGED <<requests, faults>>
     \/ /\ ~Missing /\ (Tools[tool] # Home \/ (~IsOpen /\ pushed <= base))
        /\ NextToOpen(TRUE) /\ UNCHANGED <<requests, faults>>
     \/ /\ ~Missing /\ Tools[tool] = Home /\ IsOpen
        /\ Ships(Named, FALSE) /\ UNCHANGED <<requests, faults>>
     \/ /\ ~Missing /\ Tools[tool] = Home /\ ~IsOpen /\ pushed > base
        /\ \/ requests' = Opened /\ Ships(Newest + 1, FALSE) /\ UNCHANGED faults
           \/ Fault /\ NextToOpen(TRUE) /\ (UNCHANGED requests \/ (Landed /\ requests' = Opened))
           \/ Fault /\ Landed /\ requests' = Opened /\ Ships(0, FALSE)
  /\ UNCHANGED <<task, by, tip, pushed, base, shipped, merged, older, crashes>>
------------------------------------------------------------------------------
(* mergeTask *)

\* runMergeStep: in the journal already, held by the policy, refused by one of the
\* conditions, or on to the forge.
Merge ==
  /\ at = "merge"
  /\ \/ /\ merged[task] > 0 \/ ~Auto
        /\ at' = "rest" /\ step' = "none" /\ UNCHANGED <<status, tool, failed>>
     \/ /\ merged[task] = 0 /\ Auto
        /\ at' = "rest" /\ step' = "none" /\ status' = "waiting_for_you"
        /\ UNCHANGED <<tool, failed>>
     \/ /\ merged[task] = 0 /\ Auto
        /\ at' = "ask" /\ tool' = 1 /\ failed' = FALSE /\ UNCHANGED <<status, step>>
  /\ UNCHANGED <<task, by, tip, forge, shipped, said, box, older, faults, crashes>>

MergeFails ==
  /\ at' = "rest" /\ step' = "none" /\ status' = "waiting_for_you"
  /\ told' = [told EXCEPT ![task] = "failed"] /\ UNCHANGED <<tool, failed, merged>>

\* The journal has it, the hub is told the commit, the marker is cleared.
Merged(commits) ==
  /\ merged' = [merged EXCEPT ![task] = commits]
  /\ told' = [told EXCEPT ![task] = "merged"]
  /\ at' = "rest" /\ step' = "none" /\ UNCHANGED <<status, tool, failed>>

GoesOn(stage) == at' = stage /\ UNCHANGED <<status, step, tool, failed, merged, told>>

NextToMerge(ran) ==
  IF tool = Len(Tools) THEN MergeFails
  ELSE /\ at' = "ask" /\ tool' = tool + 1 /\ failed' = ran
       /\ UNCHANGED <<status, step, merged, told>>

Settled(state) == [requests EXCEPT ![Newest] = [state |-> state, commits |-> pushed]]
Lands == requests' = Settled("merged") /\ base' = pushed
Nothing == UNCHANGED <<requests, base>>

\* A conflict ends it at once; any other error is followed by the question
\* whether the branch is merged already.
AskToMerge ==
  /\ at = "ask"
  /\ \/ Missing /\ NextToMerge(failed) /\ Nothing /\ UNCHANGED faults
     \/ /\ ~Missing /\ (Tools[tool] # Home \/ ~IsOpen)
        /\ GoesOn("proof") /\ Nothing /\ UNCHANGED faults
     \/ /\ ~Missing /\ Tools[tool] = Home /\ IsOpen
        /\ \/ Lands /\ GoesOn("confirm") /\ UNCHANGED faults
           \/ MergeFails /\ Nothing /\ UNCHANGED faults
           \/ Fault /\ GoesOn("proof") /\ (Nothing \/ (Landed /\ Lands))
  /\ UNCHANGED <<task, by, tip, pushed, shipped, url, link, short, box, older, crashes>>

\* fetchMergedProof: the forge's own list of merged requests of the branch.
HasProof == Tools[tool] = Home /\ MergedOnes # {}

AskForProof ==
  /\ at = "proof"
  /\ \/ HasProof /\ Merged(requests[Proof].commits)
        /\ UNCHANGED faults
     \/ ~HasProof /\ NextToMerge(TRUE) /\ UNCHANGED faults
     \/ HasProof /\ Fault /\ NextToMerge(TRUE)
  /\ UNCHANGED <<task, by, tip, forge, shipped, url, link, short, box, older, crashes>>

\* After a merge the list is read for its commit; a merge whose commit is not
\* known is in the journal, and the hub is not told.
Confirm ==
  /\ at = "confirm"
  /\ \/ Merged(requests[Proof].commits) /\ UNCHANGED faults
     \/ /\ Fault /\ merged' = [merged EXCEPT ![task] = pushed] /\ UNCHANGED told
        /\ at' = "rest" /\ step' = "none" /\ UNCHANGED <<status, tool, failed>>
  /\ UNCHANGED <<task, by, tip, forge, shipped, url, link, short, box, older, crashes>>
------------------------------------------------------------------------------
(* Persons at the forge, and the process *)

MergesByHand ==
  /\ "merges" \in Hands /\ IsOpen /\ Lands
  /\ UNCHANGED <<chain, tip, pushed, shipped, said, faults, crashes>>

ClosesByHand ==
  /\ "closes" \in Hands /\ IsOpen
  /\ requests' = Settled("closed")
  /\ UNCHANGED <<chain, tip, pushed, base, shipped, said, faults, crashes>>

\* The process dies, and the boot resumes the step the record names.
Crash ==
  /\ crashes < MaxCrashes /\ crashes' = crashes + 1 /\ at # "rest"
  /\ at' = CASE step = "ship" -> "push" [] step = "merge" -> "merge" [] OTHER -> "rest"
  /\ by' = "boot" /\ box' = FALSE
  /\ UNCHANGED <<task, status, step, tool, failed, tip, older, forge, shipped, said, faults>>

Next ==
  \/ TurnEnds \/ PersonShips \/ Reply \/ WorksOn \/ Push \/ Create
  \/ Merge \/ AskToMerge \/ AskForProof \/ Confirm
  \/ MergesByHand \/ ClosesByHand \/ Crash

Spec == Init /\ [][Next]_vars
------------------------------------------------------------------------------
(* Properties *)

TypeOK ==
  /\ task \in Tasks /\ status \in Statuses /\ step \in {"none", "ship", "merge"}
  /\ at \in Stages /\ tool \in DOMAIN Tools /\ by \in {"hook", "person", "boot"}
  /\ {tip, pushed, base} \subseteq 0..MaxCommits
  /\ \A i \in DOMAIN requests :
       requests[i].state \in {"open", "merged", "closed"} /\ requests[i].commits \in 1..MaxCommits
  /\ \A t \in Tasks : /\ shipped[t] \in 0..MaxCommits /\ {url[t], link[t]} \subseteq 0..Newest
                      /\ told[t] \in {"nothing", "mr_opened", "failed", "merged"}
                      /\ short[t] \in BOOLEAN /\ merged[t] \in 0..MaxCommits
  /\ {failed, box, older} \subseteq BOOLEAN

\* What a journal calls merged is on the target, with all that was shipped
\* (runMergeStep, task-server.ts:2290).
MergedIsLanded == \A t \in Tasks : merged[t] > 0 => shipped[t] <= base

\* The same, unless a request of the branch had been merged before.
MergedForTheFirstTime == merged[task] > 0 /\ ~older => shipped[task] <= base

\* The hub is told of a request that the forge has, which carries what was pushed
\* (task-server.ts:2204, "a state requires its proof").
OpenedHasProof ==
  \A t \in Tasks : told[t] = "mr_opened" =>
    /\ url[t] \in DOMAIN requests
    /\ requests[url[t]].state = "open" => pushed >= shipped[t]

\* A record that does not say it stopped short has a request with its work
\* (ship, task-server.ts:2143).
CleanHasARequest ==
  status = "shipped" /\ ~short[task] =>
    \E i \in DOMAIN requests : requests[i].state = "open" \/ requests[i].commits = shipped[task]

\* The hub is told of a failure only when the branch has no request open, or its
\* merge did not go through (task-ship.ts:667, "a degraded success, not a failure").
FailedHasNone ==
  status = "shipped" /\ told[task] = "failed" => ~IsOpen

\* A merged task's recap links to no request but a merged one, unless a request
\* of the branch had been merged before (attachMrUrl, task-ship.ts:1004).
LinkIsMerged ==
  merged[task] > 0 /\ ~older /\ link[task] > 0 => requests[link[task]].state = "merged"

\* Nothing is left of a ship's micro-VM once it has ended (shipTask, task-ship.ts:1063).
NoBoxIsLeft == box => at = "create"

\* What stopped short of a request can be tried again (task-server.ts:2220).
ShortCanRetry == short[task] /\ at = "rest" => status # "shipped"

\* The merge is asked only for what has a request (task-server.ts:2362).
AskedOverARequest == at = "ask" => url[task] > 0
==============================================================================
