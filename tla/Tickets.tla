------------------------------ MODULE Tickets ------------------------------
(***************************************************************************)
(* A task bound to a forge issue is compared with it once a session, before *)
(* any turn starts on it (packages/cli/src/task-server.ts: the boot pass    *)
(* reconcileIssuesFor, holdTicketedTasks and releaseTicketedTasks around    *)
(* it), and again before the review of a turn.                              *)
(*                                                                          *)
(* One project, one session after another.  The forge is external: an issue *)
(* is unchanged, edited, or cannot be reached.  The rest of a task's life   *)
(* is TaskRunner's, the file of the line TaskQueue's.                       *)
(***************************************************************************)
EXTENDS Naturals, Sequences, FiniteSets, Functions, Selection

CONSTANTS
  N,            \* tasks 1..N, in the order they were created
  Ticketed,     \* those that carry an issue and its snapshot
  MaxFaults,    \* bound: queue writes that fail
  MaxCrashes,   \* bound: crashes
  Gestures      \* a human may reply to or resume a task while the pass runs

ParametersAreSound ==
  /\ N \in Nat /\ Ticketed \subseteq 1..N
  /\ MaxFaults \in Nat /\ MaxCrashes \in Nat /\ Gestures \in BOOLEAN

Tasks == 1..N

VARIABLES
  status, cut,   \* task -> its status, whether its last turn has no answer
  reason,        \* task -> what its record says is in its way
  line,          \* queue.json
  held,          \* heldTicketedOrder: the line before the hold, or <<>>
  runner,        \* the project's context is built
  pass,          \* issueReconciled: has this session's pass landed
  compared,      \* the tasks this session has compared, or said it could not
  told,          \* a notice said that a stale ticket may start
  before,        \* the line when the pass began, less those that have left it
  faults, crashes

vars == <<status, cut, reason, line, held, runner, pass, compared, told, before,
          faults, crashes>>
record == <<status, cut, reason>>
session == <<runner, pass, compared, told>>
limits == <<faults, crashes>>

Without(s, ids) == Only(s, Tasks \ ids)
Enqueued(s, t) == IF t \in Range(s) THEN s ELSE Append(s, t)
Leaves(t) == line' = Without(line, {t}) /\ before' = Without(before, {t})
Active(t) == status[t] \notin {"shipped", "failed"}
AtABoundary(t) == Active(t) /\ status[t] # "running"
midFlight(t) == status[t] = "interrupted" /\ cut[t]

-----------------------------------------------------------------------------
(* The comparison *)

\* applyIssueReconcile: a reason is posed where there is none, or its own.
CanPoseReason(t) == reason[t] \in {"none", "forge_unreachable"}

\* ... and taken back as soon as the forge has answered.
Reason(t, outcome) ==
  IF outcome = "unreachable"
  THEN IF CanPoseReason(t) THEN "forge_unreachable" ELSE reason[t]
  ELSE IF reason[t] = "forge_unreachable" THEN "none" ELSE reason[t]

Parked(t, outcome) == outcome = "edited"
\* An edit waits for a human; a turn that can be resumed is left to Resume.
Diverted(t, outcome) == outcome = "edited" /\ ~ midFlight(t)

Outcomes == {"unchanged", "edited", "unreachable"}

\* One task of the pass, its answer or the deadline's; a task that has left the
\* boundary meanwhile is not touched.
Compare(t) ==
  /\ ~ pass /\ t \in Ticketed \ compared
  /\ IF AtABoundary(t)
     THEN \E outcome \in Outcomes :
            /\ reason' = [reason EXCEPT ![t] = Reason(t, outcome)]
            /\ IF Diverted(t, outcome)
               THEN /\ status' = [status EXCEPT ![t] = "waiting_for_you"]
                    /\ Leaves(t)
               ELSE UNCHANGED <<status, line, before>>
     ELSE UNCHANGED <<status, reason, line, before>>
  /\ compared' = compared \union {t}
  /\ UNCHANGED <<cut, held, runner, pass, told, limits>>

HoldsNothing == {}
\* Those context() takes out of the line: queued, and carrying a ticket.
ToHold == {t \in Range(line) : t \in Ticketed /\ status[t] = "queued"}

\* context(): built while the pass runs, its runner must not see them.
BuildsContext ==
  /\ ~ runner /\ runner' = TRUE
  /\ IF pass \/ ToHold = {} THEN UNCHANGED <<line, held, told, faults>>
     ELSE \/ /\ line' = Without(line, ToHold) /\ held' = line
             /\ UNCHANGED <<told, faults>>
          \/ /\ faults < MaxFaults /\ faults' = faults + 1
             /\ told' = TRUE
             /\ UNCHANGED <<line, held>>
  /\ UNCHANGED <<record, pass, compared, before, crashes>>

\* Every id of the old line at its rank, what has come since behind them.
Merged == held \o Without(line, Range(held))
Queued == {t \in Tasks : status[t] = "queued"}
Wanted == Only(Merged, Queued)

\* releaseTicketedTasks: all out, then one write per task; k of them succeed.
Release(k) ==
  /\ line' = SubSeq(Wanted, 1, k)
  /\ IF k = Len(Wanted) THEN UNCHANGED faults
     ELSE faults < MaxFaults /\ faults' = faults + 1

\* ... or the first write fails, and the line stays as it is.
ReleaseFails == faults < MaxFaults /\ faults' = faults + 1 /\ UNCHANGED line

Lands ==
  /\ ~ pass /\ pass' = TRUE
  /\ \A t \in Ticketed : Active(t) => t \in compared
  /\ held' = <<>>
  /\ IF held = <<>> THEN UNCHANGED <<line, faults>>
     ELSE ReleaseFails \/ \E k \in 0..Len(Wanted) : Release(k)
  /\ UNCHANGED <<record, runner, compared, told, before, crashes>>

-----------------------------------------------------------------------------
(* The runner *)

\* pump: one task at a time.
Pump ==
  /\ runner /\ \A t \in Tasks : status[t] # "running"
  /\ \E k \in DOMAIN line :
       /\ \A j \in 1..(k - 1) : status[line[j]] # "queued"
       /\ status[line[k]] = "queued"
       /\ status' = [status EXCEPT ![line[k]] = "running"]
       /\ cut' = [cut EXCEPT ![line[k]] = TRUE]
       /\ reason' = [reason EXCEPT ![line[k]] = "none"]
       /\ Leaves(line[k])
  /\ UNCHANGED <<held, session, limits>>

\* A turn ends: for good, or back to a human for another reason.
Settles(t) ==
  /\ status[t] = "running"
  /\ cut' = [cut EXCEPT ![t] = FALSE]
  /\ \/ /\ status' = [status EXCEPT ![t] = "waiting_for_you"]
        /\ reason' = [reason EXCEPT ![t] = "other"]
     \/ /\ status' = [status EXCEPT ![t] = "shipped"]
        /\ UNCHANGED reason
  /\ UNCHANGED <<line, before, held, session, limits>>

\* The second point: the ticket is read again before the review of the turn.
BeforeReview(t) ==
  /\ status[t] = "running" /\ t \in Ticketed
  /\ cut' = [cut EXCEPT ![t] = FALSE]
  /\ \E outcome \in Outcomes :
       /\ reason' = [reason EXCEPT ![t] = Reason(t, outcome)]
       /\ status' = [status EXCEPT ![t] =
                       IF outcome = "edited" THEN "waiting_for_you" ELSE "review_ok"]
  /\ UNCHANGED <<line, before, held, session, limits>>

\* reply, resume: they build the context, and put the task in line.
Gesture(t) ==
  /\ runner /\ (Gestures \/ pass)
  /\ status[t] \in {"waiting_for_you", "interrupted"}
  /\ status' = [status EXCEPT ![t] = "queued"]
  /\ cut' = [cut EXCEPT ![t] = TRUE]
  /\ line' = Enqueued(line, t)
  /\ UNCHANGED <<reason, before, held, session, limits>>

Abandon(t) ==
  /\ runner /\ status[t] \in {"queued", "interrupted", "waiting_for_you"}
  /\ status' = [status EXCEPT ![t] = "failed"]
  /\ Leaves(t)
  /\ UNCHANGED <<cut, reason, held, session, limits>>

\* The process dies and boots: the line is what the file holds, then the queued
\* records it does not name, by age.
Rebuilt ==
  LET kept == Only(line, Queued)
      byAge == [t \in Tasks |-> t]
  IN  kept \o Only(byAge, Queued \ Range(kept))

Crash ==
  /\ crashes < MaxCrashes /\ crashes' = crashes + 1
  /\ line' = Rebuilt
  /\ before' = IF pass THEN Rebuilt ELSE before
  /\ status' = [t \in Tasks |-> IF status[t] = "running" THEN "interrupted" ELSE status[t]]
  /\ reason' = [t \in Tasks |-> IF status[t] = "running" THEN "other" ELSE reason[t]]
  /\ held' = <<>> /\ runner' = FALSE /\ pass' = FALSE /\ compared' = {} /\ told' = FALSE
  /\ UNCHANGED <<cut, faults>>

-----------------------------------------------------------------------------

Perms == {s \in UNION {[1..k -> Tasks] : k \in 0..N} : IsInjective(s)}

Init ==
  /\ status \in [Tasks -> {"queued", "interrupted"}]
  /\ cut = [t \in Tasks |-> TRUE]
  /\ reason \in [Tasks -> {"none", "forge_unreachable", "other"}]
  /\ \A t \in Tasks : status[t] = "interrupted" => reason[t] = "other"
  /\ \A t \in Tasks \ Ticketed : reason[t] # "forge_unreachable"
  /\ line \in {s \in Perms : Range(s) = Queued}
  /\ held = <<>> /\ runner = FALSE /\ pass = FALSE /\ compared = {} /\ told = FALSE
  /\ before = line
  /\ faults = 0 /\ crashes = 0

Next ==
  \/ BuildsContext \/ Lands \/ Pump \/ Crash
  \/ \E t \in Tasks :
       \/ Compare(t) \/ Settles(t) \/ BeforeReview(t) \/ Gesture(t) \/ Abandon(t)

Spec == Init /\ [][Next]_vars

-----------------------------------------------------------------------------
(* Properties *)

TypeOK ==
  /\ status \in [Tasks -> {"queued", "running", "review_ok", "waiting_for_you",
                           "interrupted", "shipped", "failed"}]
  /\ cut \in [Tasks -> BOOLEAN]
  /\ reason \in [Tasks -> {"none", "forge_unreachable", "other"}]
  /\ line \in Perms /\ held \in Perms /\ before \in Perms
  /\ {runner, pass, told} \subseteq BOOLEAN /\ compared \subseteq Ticketed
  /\ faults \in 0..MaxFaults /\ crashes \in 0..MaxCrashes

\* "No agent turn starts on a ticket this session never re-read", unless the
\* workspace has said that it may.
NoTurnBeforeCompare ==
  \A t \in Ticketed : status[t] = "running" => t \in compared \/ told

Rank(s, t) == CHOOSE k \in DOMAIN s : s[k] = t

\* The hold leaves no trace: once the pass has landed, the tasks that still wait
\* do so in the order they waited in when it began.
RanksKept ==
  pass => \A a, b \in Range(before) \intersect Range(line) :
            Rank(before, a) < Rank(before, b) => Rank(line, a) < Rank(line, b)

\* A queued task is in the line or held out of it: something will start it.
NobodyStranded ==
  \A t \in Tasks : status[t] = "queued" => t \in Range(line) \union Range(held)

\* The comparison never takes away a reason it did not give, and never leaves its
\* own once the forge has answered.
KeepsReasonsOfOthers ==
  \A t \in Tasks : reason[t] = "other" /\ reason'[t] # "other" => status'[t] = "running"

\* A turn that Resume can take up again stays Resume's, whatever the forge says.
KeepsResume ==
  \A t \in Tasks : midFlight(t) /\ compared' # compared => status'[t] = "interrupted"
=============================================================================
