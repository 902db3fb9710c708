--------------------------- MODULE LoadCapProofs ---------------------------
(***************************************************************************)
(* Proofs about LoadCap for any number of clients and any cap.             *)
(***************************************************************************)
EXTENDS LoadCap, FiniteSetTheorems, SequenceTheorems, TLAPS

\* What splicing one element out of a sequence leaves.
LEMMA RemoveAtProperties ==
  ASSUME NEW S, NEW s \in Seq(S), NEW i \in 1..Len(s)
  PROVE  /\ RemoveAt(s, i) \in Seq(S)
         /\ Len(RemoveAt(s, i)) = Len(s) - 1
         /\ \A j \in 1..(Len(s) - 1) :
              RemoveAt(s, i)[j] = IF j < i THEN s[j] ELSE s[j + 1]
<1> DEFINE a == SubSeq(s, 1, i - 1)
           b == SubSeq(s, i + 1, Len(s))
<1>1. /\ a \in Seq(S) /\ Len(a) = i - 1
      /\ \A j \in 1..(i - 1) : a[j] = s[j]
  <2>1. \A j \in 1..(i - 1) : s[j] \in S
    BY ElementOfSeq
  <2> QED
    BY <2>1, SubSeqProperties
<1>2. /\ b \in Seq(S) /\ Len(b) = Len(s) - i
      /\ \A j \in 1..(Len(s) - i) : b[j] = s[i + j]
  <2>1. \A j \in (i + 1)..Len(s) : s[j] \in S
    BY ElementOfSeq
  <2> QED
    BY <2>1, SubSeqProperties
<1> HIDE DEF a, b
<1>3. RemoveAt(s, i) = a \o b
  BY DEF RemoveAt, a, b
<1>4. Len(s) \in Nat
  BY LenProperties
<1>5. /\ a \o b \in Seq(S)
      /\ Len(a \o b) = Len(a) + Len(b)
      /\ \A j \in 1..(Len(a) + Len(b)) :
           (a \o b)[j] = IF j <= Len(a) THEN a[j] ELSE b[j - Len(a)]
  BY <1>1, <1>2, ConcatProperties, Zenon
<1>6. ASSUME NEW j \in 1..(Len(s) - 1)
      PROVE  (a \o b)[j] = IF j < i THEN s[j] ELSE s[j + 1]
  <2>1. CASE j < i
    BY <1>1, <1>2, <1>4, <1>5, <2>1
  <2>2. CASE ~(j < i)
    <3>1. j - (i - 1) \in 1..(Len(s) - i) /\ i + (j - (i - 1)) = j + 1
      BY <1>4, <2>2
    <3>2. (a \o b)[j] = b[j - (i - 1)]
      BY <1>1, <1>2, <1>4, <1>5, <2>2
    <3> QED
      BY <1>2, <2>2, <3>1, <3>2
  <2> QED
    BY <2>1, <2>2
<1> QED
  BY <1>1, <1>2, <1>3, <1>4, <1>5, <1>6

\* Clients are finitely many, so every set of them has a cardinality.
LEMMA ClientSetsFinite ==
  ASSUME NEW S \in SUBSET Clients
  PROVE  IsFiniteSet(S) /\ Cardinality(S) \in Nat
<1>1. IsFiniteSet(Clients)
  BY PollersFinite, WaitersFinite, FS_Union DEF Clients
<1> QED
  BY <1>1, FS_Subset, FS_CardinalityType

(***************************************************************************)
(* The inductive invariant. TypeOK needs the other parts: the counter      *)
(* stays at or above zero because it counts the holders, and a hand-over   *)
(* keeps it because the head of the FIFO held nothing.                     *)
(***************************************************************************)
IInv ==
  /\ TypeOK
  /\ SlotsAccounted
  /\ FullWhileParked
  /\ FifoIsTheParked
  /\ NoLostWakeup

LEMMA InitIInv == Init => IInv
<1> SUFFICES ASSUME Init PROVE IInv
  OBVIOUS
<1>1. Holders = {}
  BY DEF Init, Holders
<1>2. SlotsAccounted
  BY <1>1, FS_EmptySet DEF Init, SlotsAccounted
<1> QED
  BY <1>2, MaxPositive, EmptySeq
     DEF Init, IInv, TypeOK, ReqState, FullWhileParked, FifoIsTheParked,
         NoLostWakeup, Refused

\* The counter counts the holders, so a held slot means it is above zero.
LEMMA HolderMeansOccupied ==
  ASSUME IInv, NEW c \in Clients, req[c] = "held"
  PROVE  occupied \in 1..Cap /\ Cardinality(Holders \ {c}) = occupied - 1
<1>1. c \in Holders /\ Holders \in SUBSET Clients
  BY DEF Holders
<1>2. IsFiniteSet(Holders \ {c}) /\ Cardinality(Holders \ {c}) \in Nat
  BY <1>1, ClientSetsFinite
<1>3. Cardinality(Holders \ {c}) = Cardinality(Holders) - 1
  BY <1>1, ClientSetsFinite, FS_RemoveElement
<1> QED
  BY <1>2, <1>3, MaxPositive DEF IInv, TypeOK, SlotsAccounted

\* A request that is granted adds one holder.
LEMMA GrantAddsHolder ==
  ASSUME IInv, NEW c \in Clients, req[c] # "held", occupied < Cap,
         occupied' = occupied + 1, req' = [req EXCEPT ![c] = "held"]
  PROVE  occupied' \in 0..Cap /\ SlotsAccounted'
<1>1. Holders' = Holders \union {c} /\ c \notin Holders
  BY DEF Holders, IInv, TypeOK
<1>2. Cardinality(Holders') = Cardinality(Holders) + 1
  BY <1>1, ClientSetsFinite, FS_AddElement DEF Holders
<1> QED
  BY <1>2, MaxPositive DEF IInv, TypeOK, SlotsAccounted

\* A request that moves between two states that are not "held".
LEMMA SameHolders ==
  ASSUME IInv, NEW c \in Clients, req[c] # "held", NEW v, v # "held",
         occupied' = occupied, req' = [req EXCEPT ![c] = v]
  PROVE  SlotsAccounted'
<1>1. Holders' = Holders
  BY DEF Holders, IInv, TypeOK
<1> QED
  BY <1>1 DEF IInv, SlotsAccounted

LEMMA TryAcquireIInv ==
  ASSUME IInv, NEW c \in Pollers, TryAcquire(c)
  PROVE  IInv'
<1>1. c \in Clients /\ c \notin Waiters
  BY ClientsDisjoint DEF Clients
<1>2. CASE occupied >= Cap
  <2>1. req' = [req EXCEPT ![c] = "refused"] /\ occupied' = occupied
    BY <1>2 DEF TryAcquire
  <2>2. SlotsAccounted'
    BY <1>1, <2>1, SameHolders DEF TryAcquire
  <2>3. TypeOK' /\ FullWhileParked'
    BY <1>1, <2>1 DEF IInv, TypeOK, FullWhileParked, TryAcquire, Refused, ReqState
  <2>4. FifoIsTheParked'
    BY <1>1, <2>1 DEF IInv, TypeOK, FifoIsTheParked, TryAcquire
  <2>5. NoLostWakeup'
    BY <1>2, <2>1, MaxPositive DEF IInv, TypeOK, NoLostWakeup
  <2> QED
    BY <2>2, <2>3, <2>4, <2>5 DEF IInv
<1>3. CASE ~(occupied >= Cap)
  <2>0. occupied < Cap
    BY <1>3, MaxPositive DEF IInv, TypeOK
  <2>1. req' = [req EXCEPT ![c] = "held"] /\ occupied' = occupied + 1
    BY <1>3 DEF TryAcquire
  <2>2. SlotsAccounted' /\ occupied' \in 0..Cap
    BY <1>1, <2>0, <2>1, GrantAddsHolder DEF TryAcquire
  <2>3. queue = <<>>
    BY <2>0 DEF IInv, FullWhileParked, TypeOK
  <2>4. TypeOK' /\ FullWhileParked'
    BY <1>1, <2>1, <2>2, <2>3
       DEF IInv, TypeOK, FullWhileParked, TryAcquire, Refused, ReqState
  <2>5. FifoIsTheParked'
    BY <1>1, <2>1 DEF IInv, TypeOK, FifoIsTheParked, TryAcquire
  <2>6. NoLostWakeup'
    BY <1>1, <2>0, <2>1
       DEF IInv, TypeOK, NoLostWakeup, Refused, TryAcquire
  <2> QED
    BY <2>2, <2>4, <2>5, <2>6 DEF IInv
<1> QED
  BY <1>2, <1>3

LEMMA AcquireIInv ==
  ASSUME IInv, NEW c \in Waiters,
         AcquireNow(c) \/ AcquireAborted(c) \/ AcquirePark(c)
  PROVE  IInv'
<1>1. c \in Clients /\ c \notin Pollers
  BY ClientsDisjoint DEF Clients
<1>2. CASE AcquireNow(c)
  <2>1. SlotsAccounted' /\ occupied' \in 0..Cap
    BY <1>1, <1>2, GrantAddsHolder DEF AcquireNow
  <2>2. queue = <<>>
    BY <1>2 DEF AcquireNow, IInv, FullWhileParked, TypeOK
  <2>3. TypeOK' /\ FullWhileParked'
    BY <1>1, <1>2, <2>1, <2>2
       DEF IInv, TypeOK, FullWhileParked, AcquireNow, Refused, ReqState
  <2>4. FifoIsTheParked' /\ NoLostWakeup'
    BY <1>1, <1>2
       DEF IInv, TypeOK, FifoIsTheParked, NoLostWakeup, Refused, AcquireNow
  <2> QED
    BY <2>1, <2>3, <2>4 DEF IInv
<1>3. CASE AcquireAborted(c)
  <2>1. SlotsAccounted'
    BY <1>1, <1>3, SameHolders DEF AcquireAborted
  <2>2. TypeOK' /\ FullWhileParked'
    BY <1>1, <1>3 DEF IInv, TypeOK, FullWhileParked, AcquireAborted, Refused, ReqState
  <2>3. FifoIsTheParked' /\ NoLostWakeup'
    BY <1>1, <1>3
       DEF IInv, TypeOK, FifoIsTheParked, NoLostWakeup, Refused, AcquireAborted
  <2> QED
    BY <2>1, <2>2, <2>3 DEF IInv
<1>4. CASE AcquirePark(c)
  <2>1. SlotsAccounted'
    BY <1>1, <1>4, SameHolders DEF AcquirePark
  <2>2. /\ queue' \in Seq(Waiters)
        /\ Len(queue') = Len(queue) + 1
        /\ Len(queue) \in Nat
        /\ \A i \in 1..Len(queue) : queue'[i] = queue[i]
        /\ queue'[Len(queue) + 1] = c
    BY <1>4, AppendProperties, LenProperties DEF AcquirePark, IInv, TypeOK
  <2>3. TypeOK' /\ FullWhileParked'
    BY <1>1, <1>4, <2>2, MaxPositive
       DEF IInv, TypeOK, FullWhileParked, AcquirePark, Refused, ReqState
  <2>4. \A i \in 1..Len(queue) : queue[i] # c
    BY <1>1, <1>4 DEF IInv, FifoIsTheParked, AcquirePark
  <2>5. \A i, j \in 1..Len(queue') : queue'[i] = queue'[j] => i = j
    BY <2>2, <2>4 DEF IInv, FifoIsTheParked
  <2>6. \A d \in Clients :
          req'[d] = "parked" <=> \E i \in 1..Len(queue') : queue'[i] = d
    BY <1>1, <1>4, <2>2 DEF IInv, TypeOK, FifoIsTheParked, AcquirePark
  <2>7. NoLostWakeup'
    BY <1>4 DEF IInv, TypeOK, NoLostWakeup, Refused, AcquirePark
  <2> QED
    BY <2>1, <2>3, <2>5, <2>6, <2>7 DEF IInv, FifoIsTheParked
<1> QED
  BY <1>2, <1>3, <1>4
LEMMA AbortIInv ==
  ASSUME IInv, NEW c \in Waiters, Abort(c)
  PROVE  IInv'
<1>1. c \in Clients
  BY DEF Clients
<1>2. CASE req[c] # "parked"
  <2>1. req' = req /\ queue' = queue /\ occupied' = occupied /\ woken' = woken
    BY <1>2 DEF Abort
  <2> QED
    BY <2>1 DEF IInv, TypeOK, SlotsAccounted, Holders, FullWhileParked,
                FifoIsTheParked, NoLostWakeup, Refused, Abort
<1>3. CASE req[c] = "parked"
  <2>1. PICK i \in 1..Len(queue) :
          queue[i] = c /\ queue' = RemoveAt(queue, i)
    BY <1>3 DEF Abort
  <2>2. req' = [req EXCEPT ![c] = "noop"]
    BY <1>3 DEF Abort
  <2>3. /\ queue' \in Seq(Waiters)
        /\ Len(queue') = Len(queue) - 1
        /\ Len(queue) \in Nat
        /\ \A j \in 1..(Len(queue) - 1) :
             queue'[j] = IF j < i THEN queue[j] ELSE queue[j + 1]
    BY <2>1, RemoveAtProperties, LenProperties DEF IInv, TypeOK
  <2>4. SlotsAccounted'
    BY <1>1, <1>3, <2>2, SameHolders DEF Abort
  <2>5. queue # <<>>
    BY <2>1 DEF IInv, TypeOK
  <2>6. TypeOK' /\ FullWhileParked'
    BY <1>1, <2>2, <2>3, <2>5
       DEF IInv, TypeOK, FullWhileParked, Abort, Refused, ReqState
  <2>7. \A j, k \in 1..Len(queue) : queue[j] = queue[k] => j = k
    BY DEF IInv, FifoIsTheParked
  <2>8. \A j, k \in 1..Len(queue') : queue'[j] = queue'[k] => j = k
    BY <2>3, <2>7
  <2>9. ASSUME NEW d \in Clients
        PROVE  req'[d] = "parked" <=> \E j \in 1..Len(queue') : queue'[j] = d
    <3>1. req[d] = "parked" <=> \E j \in 1..Len(queue) : queue[j] = d
      BY DEF IInv, FifoIsTheParked
    <3>2. CASE d = c
      <4>1. \A j \in 1..Len(queue') : queue'[j] # c
        BY <2>1, <2>3, <2>7
      <4> QED
        BY <1>1, <2>2, <3>2, <4>1 DEF IInv, TypeOK
    <3>3. CASE d # c
      <4>1. req'[d] = req[d]
        BY <2>2, <3>3 DEF IInv, TypeOK
      <4>2. ASSUME NEW j \in 1..Len(queue), queue[j] = d
            PROVE  \E k \in 1..Len(queue') : queue'[k] = d
        <5>1. j # i
          BY <2>1, <3>3, <4>2
        <5>2. CASE j < i
          BY <2>3, <4>2, <5>2
        <5>3. CASE j > i
          <6>1. j - 1 \in 1..(Len(queue) - 1) /\ ~(j - 1 < i) /\ (j - 1) + 1 = j
            BY <2>3, <5>3
          <6> QED
            BY <2>3, <4>2, <6>1
        <5> QED
          BY <2>3, <5>1, <5>2, <5>3
      <4>3. ASSUME NEW k \in 1..Len(queue'), queue'[k] = d
            PROVE  \E j \in 1..Len(queue) : queue[j] = d
        BY <2>3, <4>3
      <4> QED
        BY <3>1, <4>1, <4>2, <4>3
    <3> QED
      BY <3>2, <3>3
  <2>10. NoLostWakeup'
    BY <1>1, <2>2 DEF IInv, TypeOK, NoLostWakeup, Refused, Abort
  <2> QED
    BY <2>4, <2>6, <2>8, <2>9, <2>10 DEF IInv, FifoIsTheParked
<1> QED
  BY <1>2, <1>3

LEMMA ReleaseIInv ==
  ASSUME IInv, NEW c \in Clients, Release(c)
  PROVE  IInv'
<1>1. CASE req[c] # "held"
  <2>1. SlotsAccounted'
    BY <1>1, SameHolders DEF Release
  <2>2. TypeOK' /\ FullWhileParked'
    BY <1>1 DEF IInv, TypeOK, FullWhileParked, Release, Refused, ReqState
  <2>3. FifoIsTheParked' /\ NoLostWakeup'
    BY <1>1
       DEF IInv, TypeOK, FifoIsTheParked, NoLostWakeup, Refused, Release
  <2> QED
    BY <2>1, <2>2, <2>3 DEF IInv
<1>2. CASE req[c] = "held" /\ queue = <<>>
  <2>1. /\ occupied' = occupied - 1 /\ queue' = queue
        /\ req' = [req EXCEPT ![c] = "spent"]
        /\ woken' = woken \union Refused /\ aborted' = aborted
    BY <1>2 DEF Release
  <2>2. Holders' = Holders \ {c}
    BY <2>1 DEF Holders, IInv, TypeOK
  <2>3. occupied \in 1..Cap /\ Cardinality(Holders \ {c}) = occupied - 1
    BY <1>2, HolderMeansOccupied
  <2>4. SlotsAccounted' /\ occupied' \in 0..Cap
    BY <2>1, <2>2, <2>3, MaxPositive DEF SlotsAccounted
  <2>5. Refused' \subseteq Refused
    BY <2>1 DEF Refused, IInv, TypeOK
  <2>6. TypeOK' /\ FullWhileParked'
    BY <1>2, <2>1, <2>4, <2>5 DEF IInv, TypeOK, FullWhileParked, Refused, ReqState
  <2>7. FifoIsTheParked' /\ NoLostWakeup'
    BY <1>2, <2>1, <2>5 DEF IInv, TypeOK, FifoIsTheParked, NoLostWakeup
  <2> QED
    BY <2>4, <2>6, <2>7 DEF IInv
<1>3. CASE req[c] = "held" /\ queue # <<>>
  <2> DEFINE h == Head(queue)
  <2>1. /\ occupied' = occupied /\ queue' = Tail(queue)
        /\ req' = [req EXCEPT ![c] = "spent", ![h] = "held"]
        /\ woken' = woken \union Refused /\ aborted' = aborted
    BY <1>3 DEF Release
  <2>2. /\ h \in Waiters /\ h = queue[1]
        /\ queue' \in Seq(Waiters)
        /\ Len(queue') = Len(queue) - 1
        /\ Len(queue) \in Nat \ {0}
        /\ \A i \in 1..Len(queue') : queue'[i] = queue[i + 1]
    BY <1>3, <2>1, HeadTailProperties, EmptySeq DEF IInv, TypeOK
  <2>3. h \in Clients /\ req[h] = "parked" /\ h # c
    BY <1>3, <2>2 DEF IInv, FifoIsTheParked, Clients
  <2> HIDE DEF h
  <2>4. \A d \in Clients :
          req'[d] = IF d = h THEN "held" ELSE IF d = c THEN "spent" ELSE req[d]
    BY <2>1, <2>3 DEF IInv, TypeOK
  <2>5. Holders' = (Holders \ {c}) \union {h} /\ h \notin Holders \ {c}
    BY <2>3, <2>4 DEF Holders
  <2>6. occupied \in 1..Cap /\ Cardinality(Holders \ {c}) = occupied - 1
    BY <1>3, HolderMeansOccupied
  <2>7. IsFiniteSet(Holders \ {c})
    BY ClientSetsFinite DEF Holders
  <2>8. Cardinality(Holders') = (occupied - 1) + 1
    BY <2>5, <2>6, <2>7, FS_AddElement
  <2>9. SlotsAccounted'
    BY <2>1, <2>6, <2>8 DEF SlotsAccounted
  <2>10. Refused' \subseteq Refused
    BY <2>4 DEF Refused
  <2>11. TypeOK' /\ FullWhileParked'
    BY <1>3, <2>1, <2>2, <2>3, <2>10
       DEF IInv, TypeOK, FullWhileParked, Refused, ReqState
  <2>12. \A i, j \in 1..Len(queue) : queue[i] = queue[j] => i = j
    BY DEF IInv, FifoIsTheParked
  <2>13. \A i, j \in 1..Len(queue') : queue'[i] = queue'[j] => i = j
    BY <2>2, <2>12
  <2>14. ASSUME NEW d \in Clients
         PROVE  req'[d] = "parked" <=> \E i \in 1..Len(queue') : queue'[i] = d
    <3>1. req[d] = "parked" <=> \E j \in 1..Len(queue) : queue[j] = d
      BY DEF IInv, FifoIsTheParked
    <3>2. CASE d = h
      <4>1. \A i \in 1..Len(queue') : queue'[i] # h
        BY <2>2, <2>12
      <4> QED
        BY <2>4, <3>2, <4>1
    <3>3. CASE d # h
      <4>1. ASSUME NEW j \in 1..Len(queue), queue[j] = d
            PROVE  \E i \in 1..Len(queue') : queue'[i] = d
        <5>1. j - 1 \in 1..Len(queue') /\ (j - 1) + 1 = j
          BY <2>2, <3>3, <4>1
        <5> QED
          BY <2>2, <4>1, <5>1
      <4>2. ASSUME NEW i \in 1..Len(queue'), queue'[i] = d
            PROVE  \E j \in 1..Len(queue) : queue[j] = d
        BY <2>2, <4>2
      <4>3. req'[d] = "parked" <=> req[d] = "parked"
        BY <1>3, <2>4, <3>3
      <4> QED
        BY <3>1, <4>1, <4>2, <4>3
    <3> QED
      BY <3>2, <3>3
  <2>15. NoLostWakeup'
    BY <2>1, <2>10 DEF NoLostWakeup
  <2> QED
    BY <2>9, <2>11, <2>13, <2>14, <2>15 DEF IInv, FifoIsTheParked
<1> QED
  BY <1>1, <1>2, <1>3

LEMMA NewRequestIInv ==
  ASSUME IInv, NEW c \in Clients, NewRequest(c)
  PROVE  IInv'
<1>1. SlotsAccounted'
  BY SameHolders DEF NewRequest
<1>2. TypeOK' /\ FullWhileParked'
  BY DEF IInv, TypeOK, FullWhileParked, Refused, NewRequest, ReqState
<1>3. FifoIsTheParked' /\ NoLostWakeup'
  BY DEF IInv, TypeOK, FifoIsTheParked, NoLostWakeup, Refused, NewRequest
<1> QED
  BY <1>1, <1>2, <1>3 DEF IInv

LEMMA NextIInv == IInv /\ [Next]_vars => IInv'
<1> SUFFICES ASSUME IInv, [Next]_vars PROVE IInv'
  OBVIOUS
<1>1. CASE \E c \in Pollers : TryAcquire(c)
  BY <1>1, TryAcquireIInv
<1>2. CASE \E c \in Waiters : AcquireNow(c) \/ AcquireAborted(c) \/ AcquirePark(c)
  BY <1>2, AcquireIInv
<1>3. CASE \E c \in Waiters : Abort(c)
  BY <1>3, AbortIInv
<1>4. CASE \E c \in Clients : Release(c)
  BY <1>4, ReleaseIInv
<1>5. CASE \E c \in Clients : NewRequest(c)
  BY <1>5, NewRequestIInv
<1>6. CASE UNCHANGED vars
  BY <1>6 DEF vars, IInv, TypeOK, SlotsAccounted, Holders, FullWhileParked,
              FifoIsTheParked, NoLostWakeup, Refused
<1> QED
  BY <1>1, <1>2, <1>3, <1>4, <1>5, <1>6 DEF Next

\* Each part of the invariant, and so everything it says of the load cap, is
\* true in every reachable state: the types, the accounting of the slots, the
\* full cap behind a non-empty FIFO, the FIFO's contents and the wake-ups.
THEOREM Invariance == Spec => []IInv
<1>1. Init => IInv
  BY InitIInv
<1>2. IInv /\ [Next]_vars => IInv'
  BY NextIInv
<1> QED
  BY <1>1, <1>2, PTL DEF Spec

\* The accounts of createLoadCap are right in every reachable state, for any
\* clients and any cap: counter, full cap and FIFO tell the same story.
THEOREM AccountsHold == Spec => []Accounted
<1>1. IInv => Accounted
  BY DEF IInv, Accounted
<1> QED
  BY <1>1, Invariance, PTL

\* createLoadCap never leaks or double-grants a slot, for any number of
\* clients: the counter is the number of callers that own one.
THEOREM NoSlotLeaks == Spec => []SlotsAccounted
<1>1. IInv => SlotsAccounted
  BY DEF IInv
<1> QED
  BY <1>1, Invariance, PTL

\* The comment tryAcquire relies on: whoever waits, waits behind a full cap.
THEOREM WaitingMeansFull == Spec => []FullWhileParked
<1>1. IInv => FullWhileParked
  BY DEF IInv
<1> QED
  BY <1>1, Invariance, PTL

\* A turn refused by tryAcquire is always told about a slot that is free.
THEOREM WakeupsAreNotLost == Spec => []NoLostWakeup
<1>1. IInv => NoLostWakeup
  BY DEF IInv
<1> QED
  BY <1>1, Invariance, PTL
-----------------------------------------------------------------------------
(***************************************************************************)
(* The load cap implements the abstract semaphore. By FifoIsTheParked the  *)
(* abstract waiting set is the set of parked requests, before and after    *)
(* the step, so each case compares sets of clients and never sequences.    *)
(***************************************************************************)
Parked == {c \in Clients : req[c] = "parked"}

LEMMA WaitingIsParked ==
  ASSUME IInv
  PROVE  ToSet(queue) = Parked /\ (queue = <<>> <=> Parked = {})
<1>1. ToSet(queue) = {queue[i] : i \in 1..Len(queue)}
  BY LenProperties DEF ToSet, IInv, TypeOK
<1>2. \A i \in 1..Len(queue) : queue[i] \in Clients
  BY ElementOfSeq DEF IInv, TypeOK, Clients
<1>3. ToSet(queue) = Parked
  BY <1>1, <1>2 DEF Parked, IInv, FifoIsTheParked
<1>4. queue # <<>> => 1 \in 1..Len(queue)
  BY EmptySeq DEF IInv, TypeOK
<1>5. queue # <<>> => Parked # {}
  BY <1>1, <1>3, <1>4
<1>6. queue = <<>> => Parked = {}
  BY DEF Parked, IInv, FifoIsTheParked
<1> QED
  BY <1>3, <1>5, <1>6

\* The same in the state after a step.
LEMMA WaitingIsParkedNext == IInv' => (ToSet(queue) = Parked)'
<1>1. IInv => ToSet(queue) = Parked
  BY WaitingIsParked
<1> QED
  BY <1>1, PTL

\* A step of the load cap is a step of the semaphore, or changes neither the
\* holders nor the waiters.
LEMMA StepImplements ==
  ASSUME IInv, IInv', [Next]_vars
  PROVE  [Abstract!SemNext]_(Abstract!semVars)
<1> DEFINE Same == Holders' = Holders /\ Parked' = Parked
<1>0. /\ ToSet(queue) = Parked /\ (queue = <<>> <=> Parked = {})
      /\ ToSet(queue)' = Parked'
  BY WaitingIsParked, WaitingIsParkedNext
<1>1. Same => [Abstract!SemNext]_(Abstract!semVars)
  BY <1>0 DEF Abstract!semVars
<1>2. ASSUME NEW c \in Pollers, TryAcquire(c)
      PROVE  [Abstract!SemNext]_(Abstract!semVars)
  <2>1. c \in Clients
    BY DEF Clients
  <2>2. CASE occupied >= Cap
    <3>1. Same
      BY <1>2, <2>1, <2>2 DEF TryAcquire, Holders, Parked, IInv, TypeOK
    <3> QED
      BY <1>1, <3>1
  <2>3. CASE ~(occupied >= Cap)
    <3>1. Holders' = Holders \union {c} /\ Parked' = Parked
          /\ c \notin Holders \union Parked
      BY <1>2, <2>1, <2>3 DEF TryAcquire, Holders, Parked, IInv, TypeOK
    <3>2. Cardinality(Holders) < Cap /\ Parked = {}
      BY <1>0, <2>3, MaxPositive
         DEF IInv, TypeOK, SlotsAccounted, FullWhileParked
    <3>3. Abstract!Take(c)
      BY <1>0, <3>1, <3>2 DEF Abstract!Take, Abstract!Cardinality, Cardinality
    <3> QED
      BY <2>1, <3>3 DEF Abstract!SemNext
  <2> QED
    BY <2>2, <2>3
<1>3. ASSUME NEW c \in Waiters, AcquireNow(c)
      PROVE  [Abstract!SemNext]_(Abstract!semVars)
  <2>1. c \in Clients
    BY DEF Clients
  <2>2. Holders' = Holders \union {c} /\ Parked' = Parked
        /\ c \notin Holders \union Parked
    BY <1>3, <2>1 DEF AcquireNow, Holders, Parked, IInv, TypeOK
  <2>3. Cardinality(Holders) < Cap /\ Parked = {}
    BY <1>0, <1>3, MaxPositive
       DEF AcquireNow, IInv, TypeOK, SlotsAccounted, FullWhileParked
  <2>4. Abstract!Take(c)
    BY <1>0, <2>2, <2>3 DEF Abstract!Take, Abstract!Cardinality, Cardinality
  <2> QED
    BY <2>1, <2>4 DEF Abstract!SemNext
<1>4. ASSUME NEW c \in Waiters, AcquireAborted(c)
      PROVE  [Abstract!SemNext]_(Abstract!semVars)
  <2>1. Same
    BY <1>4 DEF AcquireAborted, Holders, Parked, IInv, TypeOK, Clients
  <2> QED
    BY <1>1, <2>1
<1>5. ASSUME NEW c \in Waiters, AcquirePark(c)
      PROVE  [Abstract!SemNext]_(Abstract!semVars)
  <2>1. c \in Clients
    BY DEF Clients
  <2>2. Parked' = Parked \union {c} /\ Holders' = Holders
        /\ c \notin Holders \union Parked
    BY <1>5, <2>1 DEF AcquirePark, Holders, Parked, IInv, TypeOK
  <2>3. Cardinality(Holders) = Cap
    BY <1>5, MaxPositive DEF AcquirePark, IInv, TypeOK, SlotsAccounted
  <2>4. Abstract!Park(c)
    BY <1>0, <2>2, <2>3 DEF Abstract!Park, Abstract!Cardinality, Cardinality
  <2> QED
    BY <2>1, <2>4 DEF Abstract!SemNext
<1>6. ASSUME NEW c \in Waiters, Abort(c)
      PROVE  [Abstract!SemNext]_(Abstract!semVars)
  <2>1. c \in Clients
    BY DEF Clients
  <2>2. CASE req[c] # "parked"
    <3>1. Same
      BY <1>6, <2>2 DEF Abort, Holders, Parked
    <3> QED
      BY <1>1, <3>1
  <2>3. CASE req[c] = "parked"
    <3>1. Parked' = Parked \ {c} /\ Holders' = Holders /\ c \in Parked
      BY <1>6, <2>1, <2>3 DEF Abort, Holders, Parked, IInv, TypeOK
    <3>2. Abstract!Leave(c)
      BY <1>0, <3>1 DEF Abstract!Leave
    <3> QED
      BY <2>1, <3>2 DEF Abstract!SemNext
  <2> QED
    BY <2>2, <2>3
<1>7. ASSUME NEW c \in Clients, Release(c)
      PROVE  [Abstract!SemNext]_(Abstract!semVars)
  <2>1. CASE req[c] # "held"
    <3>1. Same
      BY <1>7, <2>1 DEF Release, Holders, Parked, IInv, TypeOK
    <3> QED
      BY <1>1, <3>1
  <2>2. CASE req[c] = "held" /\ queue = <<>>
    <3>1. Holders' = Holders \ {c} /\ Parked' = Parked /\ c \in Holders
      BY <1>7, <2>2 DEF Release, Holders, Parked, IInv, TypeOK
    <3>2. Abstract!GiveBack(c)
      BY <1>0, <2>2, <3>1 DEF Abstract!GiveBack
    <3> QED
      BY <3>2 DEF Abstract!SemNext
  <2>3. CASE req[c] = "held" /\ queue # <<>>
    <3> DEFINE h == Head(queue)
    <3>1. 1 \in 1..Len(queue) /\ h = queue[1] /\ h \in Waiters
      BY <2>3, EmptySeq, HeadTailProperties DEF IInv, TypeOK
    <3>2. h \in Clients /\ req[h] = "parked" /\ h # c
      BY <2>3, <3>1 DEF IInv, FifoIsTheParked, Clients
    <3>3. req' = [req EXCEPT ![c] = "spent", ![h] = "held"]
      BY <1>7, <2>3 DEF Release
    <3> HIDE DEF h
    <3>4. /\ Holders' = (Holders \ {c}) \union {h} /\ c \in Holders
          /\ Parked' = Parked \ {h} /\ h \in Parked
      BY <2>3, <3>2, <3>3 DEF Holders, Parked, IInv, TypeOK
    <3>5. Abstract!HandOver(c, h)
      BY <1>0, <3>4 DEF Abstract!HandOver
    <3> QED
      BY <3>2, <3>5 DEF Abstract!SemNext
  <2> QED
    BY <2>1, <2>2, <2>3
<1>8. ASSUME NEW c \in Clients, NewRequest(c)
      PROVE  [Abstract!SemNext]_(Abstract!semVars)
  <2>1. Same
    BY <1>8 DEF NewRequest, Holders, Parked, IInv, TypeOK
  <2> QED
    BY <1>1, <2>1
<1>9. CASE UNCHANGED vars
  <2>1. Same
    BY <1>9 DEF vars, Holders, Parked
  <2> QED
    BY <1>1, <2>1
<1> QED
  BY <1>2, <1>3, <1>4, <1>5, <1>6, <1>7, <1>8, <1>9 DEF Next

\* Every behaviour of the load cap is one of the abstract semaphore: at most
\* Cap holders, nobody parked while a slot is free, and a slot that is
\* released goes to a parked caller whenever there is one.
THEOREM Refinement == Spec => ImplementsSemaphore
<1>1. Init => Abstract!SemInit
  BY DEF Init, Abstract!SemInit, Holders, ToSet
<1>2. IInv /\ IInv' /\ [Next]_vars => [Abstract!SemNext]_(Abstract!semVars)
  BY StepImplements
<1> QED
  BY <1>1, <1>2, Invariance, PTL
     DEF Spec, ImplementsSemaphore, Abstract!SemSpec

\* No overtaking: a slot is granted to the head of the FIFO whenever there is
\* one, so neither a poller nor a later acquire jumps the line.
THEOREM FirstComeFirstServed == Spec => NoOvertaking
<1> DEFINE Fair == \A c \in Clients :
             req[c] # "held" /\ req'[c] = "held" /\ queue # <<>> => c = Head(queue)
<1>1. ASSUME IInv, [Next]_vars PROVE [Fair]_vars
  <2>1. ASSUME NEW c \in Pollers, TryAcquire(c) PROVE Fair
    BY <1>1, <2>1, MaxPositive DEF TryAcquire, IInv, TypeOK, FullWhileParked, Clients
  <2>2. ASSUME NEW c \in Waiters, AcquireNow(c) PROVE Fair
    BY <1>1, <2>2, MaxPositive DEF AcquireNow, IInv, TypeOK, FullWhileParked
  <2>3. ASSUME NEW c \in Waiters, AcquireAborted(c) \/ AcquirePark(c) \/ Abort(c)
        PROVE  Fair
    BY <1>1, <2>3 DEF AcquireAborted, AcquirePark, Abort, IInv, TypeOK
  <2>4. ASSUME NEW c \in Clients, Release(c) PROVE Fair
    BY <1>1, <2>4 DEF Release, IInv, TypeOK
  <2>5. ASSUME NEW c \in Clients, NewRequest(c) PROVE Fair
    BY <1>1, <2>5 DEF NewRequest, IInv, TypeOK
  <2> QED
    BY <1>1, <2>1, <2>2, <2>3, <2>4, <2>5 DEF Next
<1> QED
  BY <1>1, Invariance, PTL DEF Spec, NoOvertaking
=============================================================================
