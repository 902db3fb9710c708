------------------------------ MODULE LoadCap ------------------------------
(***************************************************************************)
(* The machine-wide cap on heavy processes (createLoadCap, load-cap.ts).   *)
(* One instance is shared by every project: agent turns take a slot with   *)
(* tryAcquire and are told later, by onSlotFreed, to try again; reviews    *)
(* and checks take one with acquire(kind, signal) and wait in a FIFO their *)
(* signal can take them out of.                                            *)
(***************************************************************************)
EXTENDS Naturals, FiniteSets, Sequences, SequencesExt

CONSTANTS
  Pollers,   \* clients that call tryAcquire (agent turns)
  Waiters,   \* clients that call acquire (reviews, checks)
  Cap        \* maxConcurrentAgents

ASSUME PollersFinite == IsFiniteSet(Pollers)
ASSUME WaitersFinite == IsFiniteSet(Waiters)
ASSUME ClientsDisjoint == Pollers \intersect Waiters = {}
ASSUME MaxPositive == Cap \in Nat \ {0}

VARIABLES
  occupied,  \* the counter the slots are accounted with
  queue,     \* the FIFO of parked acquire calls
  req,       \* where each client's current request stands
  aborted,   \* the clients whose AbortSignal has fired
  woken      \* the refused pollers onSlotFreed has called since

vars == <<occupied, queue, req, aborted, woken>>

Clients == Pollers \union Waiters

\* idle: no request; refused: tryAcquire answered null; parked: in the FIFO;
\* held: owns a slot; noop: resolved with NOOP_RELEASE; spent: released.
ReqState == {"idle", "refused", "parked", "held", "noop", "spent"}

Holders == {c \in Clients : req[c] = "held"}
Refused == {c \in Clients : req[c] = "refused"}

-----------------------------------------------------------------------------
(* Variants of the actions a plausible bug would give, used to show that   *)
(* the properties tell them apart from the code.                           *)

\* The counter is given back even though the slot was handed over.
ReleaseForgetsHandOver(c) ==
  /\ req[c] = "held"
  /\ occupied' = occupied - 1
  /\ IF queue = <<>>
       THEN req' = [req EXCEPT ![c] = "spent"] /\ UNCHANGED queue
       ELSE /\ req' = [req EXCEPT ![c] = "spent", ![Head(queue)] = "held"]
            /\ queue' = Tail(queue)
  /\ woken' = woken \union Refused
  /\ UNCHANGED aborted

\* Listeners are called only when the counter went down... and it never does.
ReleaseSilently(c) ==
  /\ req[c] = "held"
  /\ IF queue = <<>>
       THEN /\ occupied' = occupied - 1
            /\ req' = [req EXCEPT ![c] = "spent"]
            /\ UNCHANGED queue
       ELSE /\ req' = [req EXCEPT ![c] = "spent", ![Head(queue)] = "held"]
            /\ queue' = Tail(queue)
            /\ UNCHANGED occupied
  /\ UNCHANGED <<aborted, woken>>

\* The slot is freed before the FIFO is looked at, and nobody is handed it.
ReleaseToNobody(c) ==
  /\ req[c] = "held"
  /\ occupied' = occupied - 1
  /\ req' = [req EXCEPT ![c] = "spent"]
  /\ woken' = woken \union Refused
  /\ UNCHANGED <<queue, aborted>>

\* The waiter is answered but left parked in the FIFO.
AbortLeavesParked(c) ==
  /\ c \notin aborted
  /\ aborted' = aborted \union {c}
  /\ req' = [req EXCEPT ![c] = IF @ = "parked" THEN "noop" ELSE @]
  /\ UNCHANGED <<occupied, queue, woken>>

\* The last waiter in, instead of the first, is handed the slot.
ReleaseToLast(c) ==
  /\ req[c] = "held"
  /\ IF queue = <<>>
       THEN /\ occupied' = occupied - 1
            /\ req' = [req EXCEPT ![c] = "spent"]
            /\ UNCHANGED queue
       ELSE /\ req' = [req EXCEPT ![c] = "spent", ![Last(queue)] = "held"]
            /\ queue' = Front(queue)
            /\ UNCHANGED occupied
  /\ woken' = woken \union Refused
  /\ UNCHANGED aborted

-----------------------------------------------------------------------------
Init ==
  /\ occupied = 0
  /\ queue = <<>>
  /\ req = [c \in Clients |-> "idle"]
  /\ aborted = {}
  /\ woken = {}

(***************************************************************************)
(* tryAcquire: synchronous, never waits. A refused poller asks again when  *)
(* onSlotFreed has called it.                                              *)
(***************************************************************************)
TryAcquire(c) ==
  /\ \/ req[c] = "idle"
     \/ req[c] = "refused" /\ c \in woken
  /\ IF occupied >= Cap
       THEN /\ req' = [req EXCEPT ![c] = "refused"]
            /\ UNCHANGED occupied
       ELSE /\ req' = [req EXCEPT ![c] = "held"]
            /\ occupied' = occupied + 1
  /\ woken' = woken \ {c}
  /\ UNCHANGED <<queue, aborted>>

(***************************************************************************)
(* acquire: a free slot is taken whatever the signal says; with none free, *)
(* an aborted caller never joins the FIFO.                                 *)
(***************************************************************************)
AcquireNow(c) ==
  /\ req[c] = "idle"
  /\ occupied < Cap
  /\ occupied' = occupied + 1
  /\ req' = [req EXCEPT ![c] = "held"]
  /\ UNCHANGED <<queue, aborted, woken>>

AcquireAborted(c) ==
  /\ req[c] = "idle"
  /\ occupied >= Cap
  /\ c \in aborted
  /\ req' = [req EXCEPT ![c] = "noop"]
  /\ UNCHANGED <<occupied, queue, aborted, woken>>

AcquirePark(c) ==
  /\ req[c] = "idle"
  /\ occupied >= Cap
  /\ c \notin aborted
  /\ queue' = Append(queue, c)
  /\ req' = [req EXCEPT ![c] = "parked"]
  /\ UNCHANGED <<occupied, aborted, woken>>

(***************************************************************************)
(* The signal fires. A parked waiter is spliced out of the FIFO and        *)
(* answered with the no-op release; one that already holds a slot keeps    *)
(* it, and releases it like any other.                                     *)
(***************************************************************************)
Abort(c) ==
  /\ c \notin aborted
  /\ aborted' = aborted \union {c}
  /\ IF req[c] = "parked"
       THEN /\ \E i \in 1..Len(queue) :
                 queue[i] = c /\ queue' = RemoveAt(queue, i)
            /\ req' = [req EXCEPT ![c] = "noop"]
       ELSE UNCHANGED <<queue, req>>
  /\ UNCHANGED <<occupied, woken>>

(***************************************************************************)
(* A release handle is called. The first call hands the slot to the head   *)
(* of the FIFO, or frees it when nobody waits, and then tells every        *)
(* listener; a second call, or the no-op handle, does nothing.             *)
(***************************************************************************)
Release(c) ==
  IF req[c] = "held"
    THEN /\ IF queue = <<>>
              THEN /\ occupied' = occupied - 1
                   /\ req' = [req EXCEPT ![c] = "spent"]
                   /\ UNCHANGED queue
              ELSE /\ req' = [req EXCEPT ![c] = "spent", ![Head(queue)] = "held"]
                   /\ queue' = Tail(queue)
                   /\ UNCHANGED occupied
         /\ woken' = woken \union Refused
         /\ UNCHANGED aborted
    ELSE /\ req[c] \in {"noop", "spent"}
         /\ req' = [req EXCEPT ![c] = "spent"]
         /\ UNCHANGED <<occupied, queue, aborted, woken>>

\* The client's next piece of work: a request of its own, with a fresh signal.
NewRequest(c) ==
  /\ req[c] = "spent"
  /\ req' = [req EXCEPT ![c] = "idle"]
  /\ aborted' = aborted \ {c}
  /\ UNCHANGED <<occupied, queue, woken>>

Next ==
  \/ \E c \in Pollers : TryAcquire(c)
  \/ \E c \in Waiters : AcquireNow(c)
  \/ \E c \in Waiters : AcquireAborted(c)
  \/ \E c \in Waiters : AcquirePark(c)
  \/ \E c \in Waiters : Abort(c)
  \/ \E c \in Clients : Release(c)
  \/ \E c \in Clients : NewRequest(c)

(***************************************************************************)
(* Every caller releases in a `finally`, whatever its work became, and the *)
(* agent's watchdogs bound that work: a held slot is eventually given      *)
(* back. Nothing else is assumed fair.                                     *)
(***************************************************************************)
Fairness == \A c \in Clients : WF_vars(Release(c))

Spec == Init /\ [][Next]_vars /\ Fairness

-----------------------------------------------------------------------------
\* The state stays in its types: the counter never goes below zero or above
\* the cap, only acquire callers are ever parked and only pollers refused.
TypeOK ==
  /\ occupied \in 0..Cap
  /\ queue \in Seq(Waiters)
  /\ req \in [Clients -> ReqState]
  /\ Refused \subseteq Pollers
  /\ aborted \subseteq Waiters
  /\ woken \subseteq Pollers

\* No slot leaks and none is granted twice: the counter is exactly the number
\* of callers that own a slot, across hand-overs, aborts and repeated releases.
SlotsAccounted == occupied = Cardinality(Holders)

\* The comment load-cap.ts reasons from: a non-empty FIFO means every slot is
\* taken, which is why tryAcquire need not look at the FIFO at all.
FullWhileParked == queue # <<>> => occupied = Cap

\* The FIFO and the requests agree: each parked request is in the FIFO exactly
\* once, so a release never hands a slot to a caller that already left.
FifoIsTheParked ==
  /\ \A i, j \in 1..Len(queue) : queue[i] = queue[j] => i = j
  /\ \A c \in Clients : req[c] = "parked" <=> \E i \in 1..Len(queue) : queue[i] = c

\* The accounts of the cap in one: types, no slot leaked or granted twice, a
\* full cap behind every parked request, a FIFO of exactly those who wait.
Accounted == TypeOK /\ SlotsAccounted /\ FullWhileParked /\ FifoIsTheParked

\* No lost wake-up: when a slot is free, every turn that was refused one has
\* been told to try again since.
NoLostWakeup == occupied < Cap => Refused \subseteq woken

\* First come, first served: a slot that is granted goes to the head of the
\* FIFO whenever anyone is parked; a poller never jumps the line.
NoOvertaking ==
  [][\A c \in Clients :
       req[c] # "held" /\ req'[c] = "held" /\ queue # <<>> => c = Head(queue)]_vars

\* Every parked acquire is answered: with a slot, or because its signal fired.
ParkedAnswered ==
  \A c \in Waiters : req[c] = "parked" ~> req[c] \in {"held", "noop"}

\* The load cap implements the abstract semaphore.
Abstract == INSTANCE Semaphore
              WITH holders <- Holders, waiting <- ToSet(queue)

ImplementsSemaphore == Abstract!SemSpec

=============================================================================
