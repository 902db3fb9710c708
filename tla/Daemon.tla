------------------------------ MODULE Daemon ------------------------------
(***************************************************************************)
(* The runner daemon (packages/cli/src/runner-daemon.ts): one loop claims   *)
(* the hub's tickets and turns them into local tasks, another keeps the     *)
(* claimed ticket alive and brings back what a human decided on the         *)
(* dashboard.  They share the task manager's records and nothing else.      *)
(*                                                                          *)
(* The hub is external: it lists the published tickets in a fixed order,    *)
(* leases the one it hands out, republishes it when the lease runs out, and *)
(* purges an order as it hands it back (task-hub.ts).  What happens inside  *)
(* a task is TaskRunner's and FixLoop's: here a task works, then settles.   *)
(***************************************************************************)
EXTENDS Naturals, Sequences, FiniteSets, FiniteSetsExt, SequencesExt, TicketState

CONSTANTS
  Tickets,     \* the hub's tickets, numbered in the order it lists them
  Unfit,       \* those whose body createHubTicketTask refuses
  TurnCap,     \* maxTaskTurns
  LeaseBeats,  \* beats a lease outlives
  MaxRecords, MaxCrashes, MaxLost, MaxOrders,   \* bounds
  Outages,     \* the daemon may stay down for longer than a lease
  Refusals,    \* a landed merge request may be refused, and its task parked
  Persons,     \* humans work here too: tasks of their own, replies, abandons
  Orders       \* what the dashboard may decide

ParametersAreSound ==
  /\ Tickets \subseteq Nat \ {0} /\ IsFiniteSet(Tickets)
  /\ TurnCap \in Nat \ {0} /\ LeaseBeats \in Nat \ {0}
  /\ MaxRecords \in Nat /\ MaxCrashes \in Nat /\ MaxLost \in Nat /\ MaxOrders \in Nat
  /\ {Outages, Refusals, Persons} \subseteq BOOLEAN
  /\ Orders \subseteq {"ship", "reply", "abandon"}

NoTicket == 0
None == "none"

VARIABLES
  hub,       \* ticket -> its status at the hub
  silence,   \* ticket -> beats gone by without one for it
  order,     \* ticket -> the decision waiting for the next beat
  records,   \* the project's tasks, most recently saved first (listTasks)
  up,        \* the daemon runs
  pc, entry, next,   \* claimNextTicket: where it is, its records, its pick
  beat, handed,      \* the task whose heartbeat is under way, the order it carries
  given, put,        \* orders decided so far, and put to the manager
  crashes, lost

vars == <<hub, silence, order, records, up, pc, entry, next, beat, handed,
          given, put, crashes, lost>>
theHub == <<hub, silence, order, given>>
claiming == <<pc, entry, next>>
beating == <<beat, handed, put>>
faults == <<crashes, lost>>

-----------------------------------------------------------------------------
(* The records *)

\* "busy" folds queued, running and reviewing; cut: the last turn has no answer.
Record == [id : 1..MaxRecords, ticket : Tickets \union {NoTicket}, cut : BOOLEAN,
           turns : 1..TurnCap,
           status : {"busy", "waiting_for_you", "review_ko", "interrupted",
                     "shipped", "failed"}]

isActiveTaskStatus(r) == r.status \notin {"shipped", "failed"}
IsHub(r) == r.ticket # NoTicket
Waits(r) == r.status \in {"waiting_for_you", "review_ko"}

\* Saving a record makes it the most recent.
Saved(rs, r) == <<r>> \o SelectSeq(rs, LAMBDA s : s.id # r.id)
First(rs, Test(_)) == SelectInSeq(rs, Test)

\* reply(): a turn more, on a task that waits or was interrupted.
CanReply(r) == (Waits(r) \/ r.status = "interrupted") /\ r.turns < TurnCap
Replied(r) == [r EXCEPT !.status = "busy", !.turns = @ + 1]
\* resume(): the same turn again.
CanResume(r) == r.status = "interrupted" /\ r.cut
Resumed(r) == [r EXCEPT !.status = "busy"]

\* A report moves the ticket when the table allows it.
Reported(h, r, to) ==
  IF IsHub(r) /\ isLegalTicketTransition(h[r.ticket], to)
  THEN [h EXCEPT ![r.ticket] = to] ELSE h

-----------------------------------------------------------------------------
(* claimNextTicket *)

Parks(p) == pc' = p

\* An interrupted ticket is taken up again before anything else is looked at.
ResumeOver(r) ==
  /\ records' = CASE CanResume(r) -> Saved(records, Resumed(r))
                  [] ~ CanResume(r) /\ CanReply(r) -> Saved(records, Replied(r))
                  [] OTHER -> records
  /\ UNCHANGED claiming

Interrupted(r) == IsHub(r) /\ r.status = "interrupted"

Looks ==
  /\ up /\ pc = "idle"
  /\ LET i == First(records, Interrupted)
     IN  IF i # 0 THEN ResumeOver(records[i])
         ELSE /\ \A k \in DOMAIN records : ~ isActiveTaskStatus(records[k])
              /\ entry' = records /\ Parks("listing")
              /\ UNCHANGED <<records, next>>
  /\ UNCHANGED <<theHub, up, beating, faults>>

\* Only the first published ticket is considered.
Published == {t \in Tickets : hub[t] = "published"}
NeverHere(t) == FALSE
EverHere(t) == \E k \in DOMAIN entry : entry[k].ticket = t
AlreadyHere(t) ==
  \E k \in DOMAIN entry : entry[k].ticket = t /\ entry[k].status # "failed"

Listed ==
  /\ up /\ pc = "listing"
  /\ IF Published = {} \/ AlreadyHere(Min(Published))
     THEN Parks("idle") /\ next' = NoTicket /\ entry' = <<>>
     ELSE Parks("claiming") /\ next' = Min(Published) /\ UNCHANGED entry
  /\ UNCHANGED <<theHub, records, up, beating, faults>>

\* The hub leases the ticket; its answer is still to come.
Leased ==
  /\ pc = "claiming"
  /\ IF hub[next] = "published"
     THEN /\ hub' = [hub EXCEPT ![next] = "in_progress"]
          /\ silence' = [silence EXCEPT ![next] = 0]
          /\ Parks("claimed")
     ELSE UNCHANGED <<hub, silence>> /\ Parks("idle")
  /\ UNCHANGED <<order, given, records, up, entry, next, beating, faults>>

NewRecord(t) ==
  [id |-> Len(records) + 1, ticket |-> t, cut |-> TRUE, turns |-> 1, status |-> "busy"]

createHubTicketTask ==
  /\ pc = "claimed"
  /\ next \notin Unfit => Len(records) < MaxRecords
  /\ records' = IF next \in Unfit THEN records ELSE Saved(records, NewRecord(next))
  /\ Parks("idle") /\ next' = NoTicket /\ entry' = <<>>
  /\ UNCHANGED <<theHub, up, beating, faults>>

\* A call or its answer is lost: the tick ends, retryable.
TickLost ==
  /\ pc # "idle" /\ lost < MaxLost
  /\ lost' = lost + 1
  /\ Parks("idle") /\ next' = NoTicket /\ entry' = <<>>
  /\ UNCHANGED <<theHub, records, up, beating, crashes>>

-----------------------------------------------------------------------------
(* heartbeatTick: the clock of the leases *)

BeatsAtWork(r) == IsHub(r) /\ r.status = "busy"
BeatsFor(r) == IsHub(r) /\ isActiveTaskStatus(r)

\* A lease does not run out while the answer that grants it is under way: a call
\* has a time limit, and the shortest lease is longer.
Ages(u) ==
  hub[u] = "in_progress" /\ silence[u] < LeaseBeats /\ ~ (pc = "claimed" /\ u = next)

\* The ticket that is beaten for is heard; every other leased one ages.
Heard(t) ==
  [u \in Tickets |-> IF u = t THEN 0 ELSE IF Ages(u) THEN silence[u] + 1 ELSE silence[u]]

\* The hub renews the lease and hands its order back, which it forgets.
Beats ==
  /\ up /\ beat = 0
  /\ LET i == First(records, BeatsFor)
         t == IF i = 0 THEN NoTicket ELSE records[i].ticket
     IN  /\ silence' = Heard(t)
         /\ IF i = 0 THEN UNCHANGED <<beat, handed, order>>
            ELSE /\ beat' = records[i].id
                 /\ handed' = order[t]
                 /\ order' = [order EXCEPT ![t] = None]
  /\ UNCHANGED <<hub, given, put, records, up, claiming, faults>>

ById(id) == records[CHOOSE k \in DOMAIN records : records[k].id = id]

\* ship(): only from a settled review.
Ships(r) ==
  IF r.status = "review_ko"
  THEN /\ records' = Saved(records, [r EXCEPT !.status = "shipped"])
       /\ hub' = Reported(hub, r, "mr_opened")
  ELSE UNCHANGED <<records, hub>>

Replies(r) ==
  /\ records' = IF CanReply(r) THEN Saved(records, Replied(r)) ELSE records
  /\ UNCHANGED hub

Abandons(r) ==
  IF isActiveTaskStatus(r)
  THEN /\ records' = Saved(records, [r EXCEPT !.status = "failed"])
       /\ hub' = Reported(hub, r, "failed")
  ELSE UNCHANGED <<records, hub>>

applyArmOrder(r, action) ==
  \/ action = "ship" /\ Ships(r)
  \/ action = "reply" /\ Replies(r)
  \/ action = "abandon" /\ Abandons(r)

BeatAnswered ==
  /\ beat # 0
  /\ IF handed = None THEN UNCHANGED <<records, hub, put>>
     ELSE applyArmOrder(ById(beat), handed) /\ put' = put + 1
  /\ beat' = 0 /\ handed' = None
  /\ UNCHANGED <<silence, order, given, up, claiming, faults>>

\* A request that the hub never hears: no lease is renewed, and no order leaves.
BeatUnheard ==
  /\ up /\ beat = 0 /\ lost < MaxLost
  /\ First(records, BeatsFor) # 0
  /\ lost' = lost + 1
  /\ silence' = Heard(NoTicket)
  /\ UNCHANGED <<hub, order, given, records, up, claiming, beating, crashes>>

\* An answer that is lost: the lease is renewed, what came with it is gone.
BeatLost ==
  /\ beat # 0 /\ lost < MaxLost
  /\ lost' = lost + 1
  /\ beat' = 0 /\ handed' = None
  /\ UNCHANGED <<theHub, put, records, up, claiming, crashes>>

-----------------------------------------------------------------------------
(* The tasks, the humans, the hub and the machine *)

\* A turn and its review end: shipped by itself, parked, or failed.
Settles(k) ==
  LET r == records[k] IN
  /\ up /\ r.status = "busy"
  /\ \/ /\ IsHub(r)
        /\ records' = Saved(records, [r EXCEPT !.status = "shipped", !.cut = FALSE])
        /\ hub' = Reported(hub, r, "mr_opened")
     \/ /\ \E s \in {"waiting_for_you", "review_ko"} :
             records' = Saved(records, [r EXCEPT !.status = s, !.cut = FALSE])
        /\ UNCHANGED hub
     \/ /\ records' = Saved(records, [r EXCEPT !.status = "failed"])
        /\ hub' = Reported(hub, r, "failed")
  /\ UNCHANGED <<silence, order, given, up, claiming, beating, faults>>

\* The turn is over, the review is not: what a crash now cuts is the review.
TurnEnds(k) ==
  /\ up /\ records[k].status = "busy" /\ records[k].cut
  /\ records' = Saved(records, [records[k] EXCEPT !.cut = FALSE])
  /\ UNCHANGED <<theHub, up, claiming, beating, faults>>

\* The merge of a shipped task lands, or is refused and parks it again.
Merges(k) ==
  LET r == records[k] IN
  /\ up /\ r.status = "shipped" /\ IsHub(r)
  /\ \/ /\ hub[r.ticket] \in {"mr_opened", "ready_to_merge"}
        /\ hub' = Reported(hub, r, "done")
        /\ UNCHANGED records
     \/ /\ Refusals
        /\ hub[r.ticket] # "done"
        /\ records' = Saved(records, [r EXCEPT !.status = "waiting_for_you"])
        /\ UNCHANGED hub
  /\ UNCHANGED <<silence, order, given, up, claiming, beating, faults>>

\* The bound on the records leaves room for every ticket still to be started.
Owed ==
  {t \in Tickets \ Unfit :
     /\ hub[t] \in {"published", "in_progress"}
     /\ \A k \in DOMAIN records : records[k].ticket = t => records[k].status = "failed"}
Room == Len(records) + Cardinality(Owed) < MaxRecords

Person ==
  /\ Persons /\ up
  /\ \/ /\ Room
        /\ records' = Saved(records, NewRecord(NoTicket))
        /\ UNCHANGED hub
     \/ \E k \in DOMAIN records :
          \/ CanReply(records[k]) /\ Replies(records[k])
          \/ isActiveTaskStatus(records[k]) /\ Abandons(records[k])
          \/ records[k].status = "review_ko" /\ Ships(records[k])
  /\ UNCHANGED <<silence, order, given, up, claiming, beating, faults>>

\* A decision about a ticket the daemon reported waiting.
Decides(t) ==
  /\ order[t] = None
  /\ \E k \in DOMAIN records : records[k].ticket = t /\ Waits(records[k])
  /\ \E action \in Orders : order' = [order EXCEPT ![t] = action]
  /\ given < MaxOrders /\ given' = given + 1
  /\ UNCHANGED <<hub, silence, records, up, claiming, beating, faults>>

Lapses(t) ==
  /\ hub[t] = "in_progress" /\ silence[t] >= LeaseBeats
  /\ hub' = [hub EXCEPT ![t] = "published"]
  /\ UNCHANGED <<silence, order, given, records, up, claiming, beating, faults>>

\* Somebody puts a failed ticket back on the market.
Republished(t) ==
  /\ hub[t] = "failed" /\ Room
  /\ hub' = [hub EXCEPT ![t] = "published"]
  /\ UNCHANGED <<silence, order, given, records, up, claiming, beating, faults>>

Down ==
  /\ up /\ crashes < MaxCrashes
  /\ crashes' = crashes + 1
  /\ up' = FALSE
  /\ Parks("idle") /\ next' = NoTicket /\ entry' = <<>>
  /\ beat' = 0 /\ handed' = None
  /\ UNCHANGED <<theHub, put, records, lost>>

\* The boot: what was at work is interrupted, and saved in that order.
Boots ==
  /\ ~ up
  /\ up' = TRUE
  /\ LET busy == SelectSeq(records, LAMBDA r : r.status = "busy")
         cut == [k \in DOMAIN busy |-> [busy[k] EXCEPT !.status = "interrupted"]]
     IN  records' = Reverse(cut) \o SelectSeq(records, LAMBDA r : r.status # "busy")
  /\ UNCHANGED <<theHub, claiming, beating, faults>>

StaysDown ==
  /\ Outages /\ ~ up
  /\ silence' = Heard(NoTicket)
  /\ silence' # silence
  /\ UNCHANGED <<hub, order, given, records, up, claiming, beating, faults>>

-----------------------------------------------------------------------------

Init ==
  /\ hub = [t \in Tickets |-> "published"]
  /\ silence = [t \in Tickets |-> 0]
  /\ order = [t \in Tickets |-> None]
  /\ records = <<>> /\ up = TRUE
  /\ pc = "idle" /\ entry = <<>> /\ next = NoTicket /\ beat = 0 /\ handed = None
  /\ given = 0 /\ put = 0
  /\ crashes = 0 /\ lost = 0

MainLoop == Looks \/ Listed \/ Leased \/ createHubTicketTask
HeartbeatLoop == Beats \/ BeatAnswered
Chains == \E k \in DOMAIN records : Settles(k) \/ TurnEnds(k) \/ Merges(k)
World ==
  \/ \E t \in Tickets : Decides(t) \/ Lapses(t) \/ Republished(t)
  \/ Person
  \/ TickLost \/ BeatUnheard \/ BeatLost \/ Down \/ StaysDown

Next == MainLoop \/ HeartbeatLoop \/ Chains \/ World \/ Boots

\* The loops' sleeps end, the hub answers what is not lost, leases run out, a
\* service manager restarts the daemon, and a turn has a time limit.
Fairness ==
  /\ WF_vars(Looks) /\ WF_vars(Listed) /\ WF_vars(Leased) /\ WF_vars(createHubTicketTask)
  /\ WF_vars(Beats) /\ WF_vars(BeatAnswered) /\ WF_vars(Boots)
  /\ WF_vars(\E k \in DOMAIN records : Settles(k))
  /\ \A t \in Tickets : WF_vars(Lapses(t))

Spec == Init /\ [][Next]_vars
FairSpec == Spec /\ Fairness

-----------------------------------------------------------------------------
(* Properties *)

TypeOK ==
  /\ hub \in [Tickets -> ARM_TICKET_STATUSES]
  /\ silence \in [Tickets -> 0..LeaseBeats]
  /\ order \in [Tickets -> {None} \union Orders] /\ handed \in {None} \union Orders
  /\ given \in 0..MaxOrders /\ put \in 0..given
  /\ Range(records) \subseteq Record /\ Len(records) <= MaxRecords
  /\ up \in BOOLEAN /\ pc \in {"idle", "listing", "claiming", "claimed"}
  /\ Range(entry) \subseteq Record /\ next \in Tickets \union {NoTicket}
  /\ beat \in 0..MaxRecords /\ crashes \in 0..MaxCrashes /\ lost \in 0..MaxLost

\* Only one live task is ever minted for a ticket, however often it is listed,
\* leased, lost and listed again: a claim is idempotent for this daemon, so the
\* records are all that stands in between.
OneTaskPerTicket ==
  \A j, k \in DOMAIN records :
    records[j].ticket = records[k].ticket /\ IsHub(records[j])
      /\ records[j].status # "failed" /\ records[k].status # "failed" => j = k

\* "A claimed hub-ticket task is kept alive with a heartbeat": the ticket of a
\* task that is still going on is not given away, whatever its task waits for,
\* before as many calls are lost as a lease outlives beats.
KeptAlive ==
  \A k \in DOMAIN records :
    IsHub(records[k]) /\ isActiveTaskStatus(records[k]) /\ lost < LeaseBeats =>
      hub[records[k].ticket] # "published"

\* With nothing going on here, a published ticket does not stay on the market.
TicketsAreClaimed ==
  \A t \in Tickets :
    []<>(hub[t] # "published" \/ \E k \in DOMAIN records : isActiveTaskStatus(records[k]))

\* A ticket leased for a task that was never made (the answer was lost, the
\* daemon died, the body was refused) goes back on the market.
NoLeaseWithoutTask ==
  \A t \in Tickets :
    (hub[t] = "in_progress" /\ \A k \in DOMAIN records : records[k].ticket # t) ~>
      (hub[t] # "in_progress" \/ \E k \in DOMAIN records : records[k].ticket = t)

\* A ticket's interrupted task does not freeze the loop: the daemon resumes it.
InterruptedGoesOn ==
  []<>(\A k \in DOMAIN records : ~ Interrupted(records[k]))

\* What a human decides on the dashboard about a waiting ticket is put to the
\* manager, which may refuse it, once at most; and one that is neither put nor on
\* its way went with an answer that was lost, or with a crash.
OrdersHere ==
  put + Cardinality({t \in Tickets : order[t] # None}) + (IF handed = None THEN 0 ELSE 1)
OrdersAddUp == OrdersHere <= given /\ given <= OrdersHere + lost + crashes

\* None is ever lost: a stale order is superseded by the next heartbeat, which
\* carries a fresh one or none (heartbeatHubTicket's comment).
OrderKept == given = OrdersHere

\* ... and it gets there, unless the task stops being active first.
OrderArrives ==
  \A t \in Tickets : order[t] # None ~>
    (order[t] = None \/ \A k \in DOMAIN records :
                          records[k].ticket = t => ~ isActiveTaskStatus(records[k]))
=============================================================================
