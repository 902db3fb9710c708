------------------------------ MODULE ForgeIssue ------------------------------
(****************************************************************************)
(* What the workspace writes on the forge issue its tasks are bound to: one *)
(* label that mirrors the task's status, and, after a merge, the recap as a *)
(* comment, the label `merged' and the closing.  The forge is asked through *)
(* command line tools, and a remote that names no forge is asked through    *)
(* two of them, each with an issue of that number.                          *)
(****************************************************************************)
EXTENDS Naturals, Sequences, SequencesExt

CONSTANTS
  Tasks,       \* the tasks bound to the issue
  Unnamed,     \* the remote names no forge, so both tools are candidates
  Hands,       \* persons put labels of their own on the issue
  Window,      \* also while a pose is between its read and its write
  Landed,      \* a write whose answer is an error may have landed
  Toggles,     \* the opt-in is written and revoked while the workspace runs
  Withheld,    \* a recap may be missing, or carry a secret
  Stops,       \* the process may be stopped, after its drain
  MaxMoves,    \* bounds: transitions and repeated writes of records,
  MaxWaiting,  \* poses in flight,
  MaxFaults,   \* calls to the forge that fail,
  MaxCrashes   \* crashes

\* forgeCandidates, in order.
Tools == IF Unnamed THEN <<"gh", "glab">> ELSE <<"gh">>
Forges == ToSet(Tools)

ParametersAreSound ==
  /\ {Unnamed, Hands, Window, Landed, Toggles, Withheld, Stops} \subseteq BOOLEAN
  /\ {MaxMoves, MaxWaiting, MaxFaults, MaxCrashes} \subseteq Nat

VARIABLES
  status,   \* of each task's record
  merged,   \* the tasks whose journal says that their merge landed
  memo,     \* cycleLabelPosed: the label a task's issue was last driven to
  chain,    \* the poses in flight, in order: [task, label, ends]
  pose,     \* the one at work: where it read the issue, and what it will write
  pub,      \* how far publishMergedOutcome has come, per task
  enabled,  \* the project's opt-in
  labels,   \* the labels of the issue, per forge
  recaps,   \* the tasks whose recap it carries as a comment, per forge
  open,     \* the forges where it is open
  theirs,   \* the labels that persons put on it
  moves, faults, crashes

vars == <<status, merged, memo, chain, pose, pub, enabled, labels, recaps, open,
          theirs, moves, faults, crashes>>
issue == <<labels, recaps, open, theirs>>
------------------------------------------------------------------------------
(* The labels *)

CycleLabels == {"queued", "in-progress", "reviewing", "blocked", "merged"}

LabelOf == [queued |-> "queued", running |-> "in-progress", waiting_for_you |-> "blocked",
            reviewing |-> "reviewing", review_ok |-> "reviewing", review_ko |-> "blocked",
            shipped |-> "reviewing", failed |-> "blocked", interrupted |-> "blocked"]
Statuses == DOMAIN LabelOf

\* Where a record goes by itself and by the person's gestures; an abandon fails
\* it, and writes a shipped one as it is.
Follows ==
  [queued |-> {"running", "interrupted"},
   running |-> {"waiting_for_you", "reviewing", "failed", "interrupted"},
   reviewing |-> {"review_ok", "review_ko", "waiting_for_you"},
   review_ok |-> {"shipped", "queued", "failed"}, review_ko |-> {"queued", "failed"},
   waiting_for_you |-> {"queued", "failed"}, interrupted |-> {"queued", "failed"},
   failed |-> {"queued"}, shipped |-> {}]

Ours(set) == set \intersect CycleLabels
Recomposed(set, label) == (set \ CycleLabels) \union {label}

\* A second tool's issue has labels of its own, by persons of its own.
Foreign == [f \in Forges |-> {"theirs on " \o f}]
Added == "added by hand"

NoPose == [on |-> "none", next |-> {}]

Init ==
  /\ status = [t \in Tasks |-> "queued"] /\ merged = {}
  /\ memo = [t \in Tasks |-> "none"] /\ chain = <<>> /\ pose = NoPose
  /\ pub = [t \in Tasks |-> "none"]
  /\ enabled \in (IF Toggles THEN BOOLEAN ELSE {TRUE})
  /\ labels = Foreign /\ theirs = Foreign
  /\ recaps = [f \in Forges |-> {}] /\ open = Forges
  /\ moves = 0 /\ faults = 0 /\ crashes = 0

Fail(n) == faults + n <= MaxFaults /\ faults' = faults + n

\* A call goes down the ladder and the n-th tool answers it; the ones before it
\* have run and failed.
Answers(n) == n \in 1..Len(Tools) /\ Fail(n - 1)
NobodyAnswers == Fail(Len(Tools))
------------------------------------------------------------------------------
(* Poses *)

\* writeCycleLabel up to its first await. The memo is staked at once; without the
\* opt-in nothing else is done, and that is no failure.
Write(t, label, ends) ==
  /\ memo' = [memo EXCEPT ![t] = label]
  /\ chain' = IF enabled THEN Append(chain, [task |-> t, label |-> label, ends |-> ends])
                         ELSE chain
  /\ Len(chain') <= MaxWaiting

\* mirrorCycleLabel, of a record that was just written: a repetition is no
\* transition, and no status is worth more than `merged'.
Mirror(t, s) ==
  IF memo[t] \in {LabelOf[s], "merged"} THEN UNCHANGED <<memo, chain>>
  ELSE Write(t, LabelOf[s], "none")

\* create: the first status of a record.
Creates(t) ==
  /\ moves = 0 /\ memo[t] = "none" /\ Mirror(t, status[t])
  /\ UNCHANGED <<status, merged, pose, pub, enabled, issue, moves, faults, crashes>>

\* onTask, and the end of a ship: the record has been written with its next
\* status, or with the one it has (a heartbeat, the clean-up of a shipped task).
Moves(t) ==
  /\ moves < MaxMoves /\ moves' = moves + 1
  /\ pub[t] \in {"none", "done", "lost"}
  /\ \/ \E s \in Follows[status[t]] : status' = [status EXCEPT ![t] = s]
     \/ status[t] \in {"running", "shipped"} /\ UNCHANGED status
  /\ Mirror(t, status'[t])
  /\ UNCHANGED <<merged, pose, pub, enabled, issue, faults, crashes>>

\* runMergeStep: the merge is refused, or failed.
MergeRefused(t) ==
  /\ moves < MaxMoves /\ moves' = moves + 1
  /\ status[t] = "shipped" /\ t \notin merged
  /\ status' = [status EXCEPT ![t] = "waiting_for_you"]
  /\ Mirror(t, "waiting_for_you")
  /\ UNCHANGED <<merged, pose, pub, enabled, issue, faults, crashes>>

Busy == chain # <<>>
Settled(failed) ==
  LET done == Head(chain) IN
  /\ chain' = Tail(chain) /\ pose' = NoPose
  /\ memo' = IF failed /\ memo[done.task] = done.label
             THEN [memo EXCEPT ![done.task] = "none"] ELSE memo
  /\ pub' = IF done.ends = "none" THEN pub ELSE [pub EXCEPT ![done.task] = done.ends]

\* poseCycleLabel: the issue is read, and if its label is the one and only there is
\* nothing to write.
PoseReads ==
  /\ Busy /\ pose = NoPose
  /\ \/ \E n \in 1..Len(Tools) :
          /\ Answers(n)
          /\ LET set == labels[Tools[n]]
                 label == Head(chain).label
             IN IF Ours(set) = {label} THEN Settled(FALSE)
                ELSE /\ pose' = [on |-> Tools[n], next |-> Recomposed(set, label)]
                     /\ UNCHANGED <<memo, chain, pub>>
     \/ NobodyAnswers /\ Settled(TRUE)
  /\ UNCHANGED <<status, merged, enabled, issue, moves, crashes>>

\* The forge a pose writes to is the one whose labels it read.
PinnedTo(on) == on

\* The catalog, the creation of the label if it is missing, and the replacement of
\* the whole set; any of the three may fail.
PoseWrites ==
  /\ Busy /\ pose # NoPose
  /\ LET landed == [labels EXCEPT ![PinnedTo(pose.on)] = pose.next]
     IN \/ labels' = landed /\ Settled(FALSE) /\ UNCHANGED faults
        \/ Fail(1) /\ Settled(TRUE) /\ labels' \in {labels} \union (IF Landed THEN {landed} ELSE {})
  /\ UNCHANGED <<status, merged, enabled, recaps, open, theirs, moves, crashes>>
------------------------------------------------------------------------------
(* What a landed merge owes the issue *)

PoseMerged(t, ends) ==
  /\ Write(t, "merged", ends)
  /\ pub' = [pub EXCEPT ![t] = IF enabled THEN "posing" ELSE ends]

\* runMergeStep after the journal has the merge and the record has lost its
\* marker; without a recap that may leave the machine only the label is left.
MergeLands(t) ==
  /\ moves < MaxMoves /\ moves' = moves + 1
  /\ status[t] = "shipped" /\ t \notin merged /\ merged' = merged \union {t}
  /\ \/ pub' = [pub EXCEPT ![t] = "listing"] /\ UNCHANGED <<memo, chain>>
     \/ Withheld /\ PoseMerged(t, "done")
  /\ UNCHANGED <<status, pose, enabled, issue, faults, crashes>>

\* The comments are read for the marker of an earlier recap.
Lists(t) ==
  /\ pub[t] = "listing"
  /\ \/ \E n \in 1..Len(Tools) :
          /\ Answers(n)
          /\ IF t \in recaps[Tools[n]] THEN PoseMerged(t, "closing")
             ELSE pub' = [pub EXCEPT ![t] = "commenting"] /\ UNCHANGED <<memo, chain>>
     \/ NobodyAnswers /\ PoseMerged(t, "done")
  /\ UNCHANGED <<status, merged, pose, enabled, issue, moves, crashes>>

\* A write stops at the first tool that ran, and is not tried again.
Comments(t) ==
  /\ pub[t] = "commenting"
  /\ LET landed == [recaps EXCEPT ![Tools[1]] = @ \union {t}]
     IN \/ recaps' = landed /\ PoseMerged(t, "closing") /\ UNCHANGED faults
        \/ /\ Fail(1) /\ PoseMerged(t, "done")
           /\ recaps' \in {recaps} \union (IF Landed THEN {landed} ELSE {})
  /\ UNCHANGED <<status, merged, pose, enabled, labels, open, theirs, moves, crashes>>

Closes(t) ==
  /\ pub[t] = "closing" /\ pub' = [pub EXCEPT ![t] = "done"]
  /\ \/ open' = open \ {Tools[1]} /\ UNCHANGED faults
     \/ Fail(1) /\ open' \in {open} \union (IF Landed THEN {open \ {Tools[1]}} ELSE {})
  /\ UNCHANGED <<status, merged, memo, chain, pose, enabled, labels, recaps, theirs, moves, crashes>>
------------------------------------------------------------------------------
(* Persons, and the process *)

Relabels ==
  /\ Hands /\ (Window \/ pose = NoPose)
  /\ \E f \in Forges :
       /\ Added \notin theirs[f]
       /\ theirs' = [theirs EXCEPT ![f] = @ \union {Added}]
       /\ labels' = [labels EXCEPT ![f] = @ \union {Added}]
  /\ UNCHANGED <<status, merged, memo, chain, pose, pub, enabled, recaps, open, moves, faults, crashes>>

Flips ==
  /\ Toggles /\ enabled' = ~enabled /\ moves < MaxMoves /\ moves' = moves + 1
  /\ UNCHANGED <<status, merged, memo, chain, pose, pub, issue, faults, crashes>>

Forgets == memo' = [t \in Tasks |-> "none"]

\* shutdown drains the poses and the hooks; the memo is not kept.
StopsAndStarts ==
  /\ Stops /\ ~Busy /\ moves < MaxMoves /\ moves' = moves + 1
  /\ \A t \in Tasks : pub[t] \in {"none", "done", "lost"} /\ status[t] \notin {"running", "reviewing"}
  /\ Forgets
  /\ UNCHANGED <<status, merged, chain, pose, pub, enabled, issue, faults, crashes>>

\* The boot writes `interrupted' where an agent was at work, and mirrors nothing;
\* a merge its journal tells of is not taken up again.
Crashes ==
  /\ crashes < MaxCrashes /\ crashes' = crashes + 1
  /\ status' = [t \in Tasks |-> IF status[t] \in {"running", "reviewing"} THEN "interrupted" ELSE status[t]]
  /\ Forgets /\ chain' = <<>> /\ pose' = NoPose
  /\ pub' = [t \in Tasks |-> IF pub[t] \in {"none", "done"} THEN pub[t] ELSE "lost"]
  /\ UNCHANGED <<merged, enabled, issue, moves, faults>>

Forge == PoseReads \/ PoseWrites \/ \E t \in Tasks : Lists(t) \/ Comments(t) \/ Closes(t)

Next ==
  \/ Forge
  \/ \E t \in Tasks : Creates(t) \/ Moves(t) \/ MergeRefused(t) \/ MergeLands(t)
  \/ Relabels \/ Flips \/ StopsAndStarts \/ Crashes

Spec == Init /\ [][Next]_vars
------------------------------------------------------------------------------
(* Properties *)

TypeOK ==
  /\ status \in [Tasks -> Statuses] /\ merged \subseteq Tasks
  /\ memo \in [Tasks -> CycleLabels \union {"none"}]
  /\ \A i \in 1..Len(chain) : chain[i] \in [task : Tasks, label : CycleLabels, ends : {"none", "closing", "done"}]
  /\ pub \in [Tasks -> {"none", "listing", "commenting", "posing", "closing", "done", "lost"}]
  /\ \A f \in Forges : labels[f] \subseteq CycleLabels \union Foreign[f] \union {Added}

\* When no pose is in flight, a label that the workspace remembers is the only one
\* of its own on an issue, and it is the label of the status the task has now,
\* however close together the transitions were (task-labels.ts:374).
LastTransitionShows ==
  ~Busy => \A t \in Tasks : memo[t] # "none" =>
    /\ memo[t] \in {LabelOf[status[t]], "merged"} /\ (memo[t] = "merged" => t \in merged)
    /\ \E f \in Forges : Ours(labels[f]) = {memo[t]}

\* `merged' is the last label: nothing walks the issue back from it
\* (mirrorCycleLabel, task-server.ts:1970).
MergedStays ==
  \A f \in Forges : Ours(labels[f]) = {"merged"} => Ours(labels'[f]) = {"merged"}

\* After a publication the issue says `merged' (task-server.ts:2247).
MergedIsShown ==
  \A t \in Tasks : pub[t] = "done" /\ ~Busy => \E f \in Forges : Ours(labels[f]) = {"merged"}

\* Labels outside `codesema:' are neither lost nor carried to another forge
\* (task-labels.ts, rule 2 and its pinned write).
ForeignKept == \A f \in Forges : labels[f] \ CycleLabels = theirs[f]

\* An issue is closed over the recap of a merge, whatever failed on the way, and
\* the label was sent before (task-recap-publish.ts, design decision 3).
ClosedHasItsRecap ==
  \A f \in Forges \ open : \E t \in merged \intersect recaps[f] : pub[t] \in {"closing", "done", "lost"}

\* A landed merge is published (task-server.ts:2258, "awaited, all of it").
NoneLost == \A t \in Tasks : pub[t] # "lost"
==============================================================================
