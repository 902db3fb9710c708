-------------------------- MODULE SelectionProofs ---------------------------
(***************************************************************************)
(* What a filter of a list returns (Selection), for any list and any set:  *)
(* it keeps the type, drops what is not selected and nothing else, and     *)
(* repeats nothing.  And what a fold over a list is: the recursion it is   *)
(* defined by has its results.                                             *)
(***************************************************************************)
EXTENDS Selection, SequencesExt, FiniteSetTheorems, SequenceTheorems,
        WellFoundedInduction, TLAPS

\* A set of naturals that is not empty has a least element.
LEMMA LeastOfNats ==
  ASSUME NEW S \in SUBSET Nat, S # {}
  PROVE  \E m \in S : \A n \in S : m <= n
<1> DEFINE R == OpToRel(<, Nat)
<1>1. IsWellFoundedOn(R, Nat)
  BY NatLessThanWellFounded
<1>2. PICK m \in S : \A n \in S : ~ (<<n, m>> \in R)
  <2> HIDE DEF R
  <2> QED
    BY <1>1, WFMin
<1>3. ASSUME NEW n \in S PROVE m <= n
  <2>1. ~ (<<n, m>> \in R)
    BY <1>2
  <2>2. ~ (n < m)
    BY <2>1 DEF OpToRel
  <2> QED
    BY <2>2
<1> QED
  BY <1>3

\* In a finite set of naturals, every rank up to the cardinality is taken.
LEMMA RanksAreTaken ==
  ASSUME NEW n \in Nat, NEW A \in SUBSET (1..n), NEW k \in 1..Cardinality(A)
  PROVE  \E i \in A : Cardinality({j \in A : j <= i}) = k
<1> DEFINE Below(i) == {j \in A : j <= i}
           Ranks == {Cardinality(Below(i)) : i \in {0} \union A}
           Missing == {m \in 1..Cardinality(A) : m \notin Ranks}
<1>0. \A x \in A : x \in Nat /\ x > 0
  OBVIOUS
<1>1. IsFiniteSet(A) /\ Cardinality(A) \in Nat
  <2>1. IsFiniteSet(1..n)
    BY FS_Interval
  <2> QED
    BY <2>1, FS_Subset, FS_CardinalityType
<1>2. ASSUME NEW i PROVE IsFiniteSet(Below(i)) /\ Cardinality(Below(i)) \in Nat
  <2>1. Below(i) \in SUBSET A
    OBVIOUS
  <2> QED
    BY <1>1, <2>1, FS_Subset, FS_CardinalityType
<1>3. Cardinality(Below(0)) = 0
  <2>1. \A x \in A : ~ (x <= 0)
    BY <1>0
  <2>2. Below(0) = {}
    BY <2>1
  <2> QED
    BY <2>2, FS_EmptySet
<1>4. ASSUME Missing # {} PROVE FALSE
  <2>1. PICK m \in Missing : \A x \in Missing : m <= x
    <3>1. Missing \in SUBSET Nat
      OBVIOUS
    <3> HIDE DEF Missing
    <3> QED
      BY <1>4, <3>1, LeastOfNats
  <2>2. m - 1 \in Ranks
    <3>1. CASE m = 1
      BY <1>3, <3>1
    <3>2. CASE m # 1
      <4>1. m - 1 \in 1..Cardinality(A) /\ ~ (m <= m - 1)
        BY <1>1, <3>2
      <4> HIDE DEF Ranks
      <4> QED
        BY <2>1, <4>1
    <3> QED
      BY <3>1, <3>2
  <2>3. PICK i \in {0} \union A : Cardinality(Below(i)) = m - 1
    BY <2>2
  <2> DEFINE Above == {j \in A : j > i}
  <2>4. Above # {}
    <3>1. SUFFICES ASSUME Above = {} PROVE FALSE
      OBVIOUS
    <3>2. i \in Nat /\ \A j \in A : j \in Nat
      OBVIOUS
    <3>3. \A j \in A : j <= i
      BY <3>1, <3>2
    <3>4. Below(i) = A
      BY <3>3
    <3>5. Cardinality(A) = m - 1
      BY <2>3, <3>4
    <3> QED
      BY <1>1, <3>5
  <2>5. PICK j \in Above : \A x \in Above : j <= x
    <3>1. Above \in SUBSET Nat
      BY <1>0
    <3> HIDE DEF Above
    <3> QED
      BY <2>4, <3>1, LeastOfNats
  <2>6. Below(j) = Below(i) \union {j} /\ j \notin Below(i)
    <3>1. i \in Nat /\ j \in Nat /\ j > i /\ j \in A
      OBVIOUS
    <3>2. ASSUME NEW x \in A PROVE x <= j <=> x <= i \/ x = j
      <4>1. x \in Nat /\ (x > i => j <= x)
        BY <2>5
      <4> QED
        BY <3>1, <4>1
    <3>3. ~ (j <= i)
      BY <3>1
    <3> QED
      BY <3>1, <3>2, <3>3, Zenon
  <2>7. Cardinality(Below(j)) = m
    <3>1. Cardinality(Below(i) \union {j}) = Cardinality(Below(i)) + 1
      <4> HIDE DEF Below
      <4> QED
        BY <1>2, <2>6, FS_AddElement
    <3>2. (m - 1) + 1 = m
      OBVIOUS
    <3> HIDE DEF Below
    <3> QED
      BY <2>3, <2>6, <3>1, <3>2
  <2>8. m \in Ranks
    BY <2>7
  <2> QED
    BY <2>1, <2>8
<1>5. k \in Ranks
  BY <1>4
<1>6. PICK i \in {0} \union A : Cardinality(Below(i)) = k
  BY <1>5
<1>7. i # 0
  BY <1>3, <1>6
<1> QED
  BY <1>6, <1>7

\* The places of the list that a filter takes its entries from, in their order, and
\* all those of the set among them.
LEMMA OnlyPlaces ==
  ASSUME NEW T, NEW s \in Seq(T), NEW S
  PROVE  /\ Only(s, S) \in Seq(T)
         /\ Len(Only(s, S)) <= Len(s)
         /\ \E f \in [1..Len(Only(s, S)) -> 1..Len(s)] :
              /\ \A k \in 1..Len(Only(s, S)) : Only(s, S)[k] = s[f[k]] /\ s[f[k]] \in S
              /\ \A a, b \in 1..Len(Only(s, S)) : a < b => f[a] < f[b]
              /\ \A i \in 1..Len(s) : s[i] \in S => \E k \in 1..Len(Only(s, S)) : f[k] = i
<1> DEFINE at == {i \in 1..Len(s) : s[i] \in S}
           Rank(i) == Cardinality({j \in at : j <= i})
           Place(k) == CHOOSE i \in at : Rank(i) = k
           c == Cardinality(at)
<1>1. Len(s) \in Nat /\ \A i \in 1..Len(s) : s[i] \in T
  BY LenProperties, ElementOfSeq
<1>2. IsFiniteSet(at) /\ c \in Nat /\ c <= Len(s)
  <2>1. IsFiniteSet(1..Len(s)) /\ Cardinality(1..Len(s)) = Len(s)
    BY <1>1, FS_Interval
  <2> QED
    BY <2>1, FS_Subset, FS_CardinalityType
<1>3. ASSUME NEW k \in 1..c PROVE Place(k) \in at /\ Rank(Place(k)) = k
  <2>1. \E i \in at : Rank(i) = k
    BY <1>1, RanksAreTaken
  <2> QED
    BY <2>1
<1>4. ASSUME NEW i \in at PROVE Rank(i) \in 1..c
  <2>1. {j \in at : j <= i} \in SUBSET at /\ i \in {j \in at : j <= i}
    BY <1>1
  <2>2. Rank(i) \in Nat /\ Rank(i) <= c /\ Rank(i) # 0
    BY <1>2, <2>1, FS_Subset, FS_CardinalityType, FS_EmptySet
  <2> QED
    BY <1>2, <2>2
<1>5. ASSUME NEW i \in at, NEW j \in at, Rank(i) = Rank(j) PROVE i = j
  <2>1. ASSUME NEW a \in at, NEW b \in at, a < b PROVE Rank(a) # Rank(b)
    <3>1. {x \in at : x <= a} \in SUBSET {x \in at : x <= b}
      BY <1>1, <2>1
    <3>2. b \in {x \in at : x <= b} /\ b \notin {x \in at : x <= a}
      BY <1>1, <2>1
    <3>3. IsFiniteSet({x \in at : x <= b})
      BY <1>2, FS_Subset
    <3> QED
      BY <3>1, <3>2, <3>3, FS_Subset
  <2>2. i \in Nat /\ j \in Nat
    BY <1>1
  <2> QED
    BY <1>5, <2>1, <2>2
<1>6. Only(s, S) = [k \in 1..c |-> s[Place(k)]]
  BY DEF Only
<1>7. ASSUME NEW a \in 1..c, NEW b \in 1..c, a < b PROVE Place(a) < Place(b)
  <2>1. Place(a) \in at /\ Place(b) \in at /\ Rank(Place(a)) = a /\ Rank(Place(b)) = b
    BY <1>3
  <2>2. CASE Place(b) <= Place(a)
    <3>1. {x \in at : x <= Place(b)} \in SUBSET {x \in at : x <= Place(a)}
      <4>1. \A x, p, q \in at : x <= p /\ p <= q => x <= q
        BY <1>1
      <4> HIDE DEF Place, at
      <4> QED
        BY <2>1, <2>2, <4>1
    <3>2. Rank(Place(b)) <= Rank(Place(a))
      BY <1>2, <3>1, FS_Subset
    <3> QED
      BY <1>2, <1>7, <2>1, <3>2
  <2> QED
    BY <1>1, <2>1, <2>2
<1> HIDE DEF Rank, Place, c
<1>8. \A k \in 1..c : s[Place(k)] \in T
  BY <1>1, <1>3
<1>9. Only(s, S) \in Seq(T) /\ Len(Only(s, S)) = c
  BY <1>2, <1>6, <1>8
<1>10. \A k \in 1..c : Only(s, S)[k] = s[Place(k)]
  BY <1>6
<1> DEFINE f == [k \in 1..c |-> Place(k)]
<1>11. f \in [1..c -> 1..Len(s)] /\ \A k \in 1..c : f[k] = Place(k)
  BY <1>3
<1>12. \A k \in 1..c : s[f[k]] \in S /\ Only(s, S)[k] = s[f[k]]
  BY <1>3, <1>10, <1>11
<1>13. \A a, b \in 1..c : a < b => f[a] < f[b]
  BY <1>7, <1>11
<1>14. ASSUME NEW i \in 1..Len(s), s[i] \in S PROVE \E k \in 1..c : f[k] = i
  <2>1. i \in at
    BY <1>14
  <2>2. Rank(i) \in 1..c /\ Place(Rank(i)) = i
    BY <1>3, <1>4, <1>5, <2>1
  <2> QED
    BY <1>11, <2>2
<1> HIDE DEF f, at
<1> QED
  BY <1>2, <1>9, <1>11, <1>12, <1>13, <1>14

(***************************************************************************)
(* The entries of a sequence that are in a set: still a sequence, no       *)
(* longer, with the selected elements and no other, each from a place of   *)
(* its own: without repeats when the sequence had none.                    *)
(***************************************************************************)
LEMMA OnlyProperties ==
  ASSUME NEW T, NEW s \in Seq(T), NEW S
  PROVE  /\ Only(s, S) \in Seq(T)
         /\ Len(Only(s, S)) <= Len(s)
         /\ \A x : Contains(Only(s, S), x) <=> Contains(s, x) /\ x \in S
         /\ IsInjective(s) => IsInjective(Only(s, S))
         /\ \A a, b \in 1..Len(Only(s, S)) : a # b =>
              \E i, j \in 1..Len(s) : i # j /\ Only(s, S)[a] = s[i] /\ Only(s, S)[b] = s[j]
<1>1. PICK f \in [1..Len(Only(s, S)) -> 1..Len(s)] :
        /\ \A k \in 1..Len(Only(s, S)) : Only(s, S)[k] = s[f[k]] /\ s[f[k]] \in S
        /\ \A a, b \in 1..Len(Only(s, S)) : a < b => f[a] < f[b]
        /\ \A i \in 1..Len(s) : s[i] \in S => \E k \in 1..Len(Only(s, S)) : f[k] = i
  BY OnlyPlaces
<1> DEFINE c == Len(Only(s, S))
<1>2. Only(s, S) \in Seq(T) /\ c <= Len(s) /\ c \in Nat /\ Len(s) \in Nat
  BY OnlyPlaces, LenProperties
<1>3. ASSUME NEW a \in 1..c, NEW b \in 1..c, a # b
      PROVE  f[a] \in 1..Len(s) /\ f[b] \in 1..Len(s) /\ f[a] # f[b]
  BY <1>1, <1>2, <1>3
<1>4. DOMAIN Only(s, S) = 1..c /\ DOMAIN s = 1..Len(s)
  BY <1>2, LenProperties
<1>5. ASSUME NEW x PROVE Contains(Only(s, S), x) <=> Contains(s, x) /\ x \in S
  <2>1. ASSUME NEW k \in 1..c, Only(s, S)[k] = x PROVE Contains(s, x) /\ x \in S
    BY <1>1, <2>1 DEF Contains
  <2>2. ASSUME NEW i \in 1..Len(s), s[i] = x, x \in S PROVE Contains(Only(s, S), x)
    BY <1>1, <2>2 DEF Contains
  <2> QED
    BY <2>1, <2>2 DEF Contains
<1>6. IsInjective(s) => IsInjective(Only(s, S))
  <2> SUFFICES ASSUME IsInjective(s), NEW a \in 1..c, NEW b \in 1..c,
                      Only(s, S)[a] = Only(s, S)[b]
               PROVE  a = b
    BY <1>4 DEF IsInjective
  <2> QED
    BY <1>1, <1>3, <1>4 DEF IsInjective
<1>7. ASSUME NEW a \in 1..c, NEW b \in 1..c, a # b
      PROVE  \E i, j \in 1..Len(s) : i # j /\ Only(s, S)[a] = s[i] /\ Only(s, S)[b] = s[j]
  BY <1>1, <1>3, <1>7
<1> QED
  BY <1>2, <1>5, <1>6, <1>7

\* The one comes before the other in the list.
Precedes(s, a, b) == \E i, j \in 1..Len(s) : i < j /\ s[i] = a /\ s[j] = b

\* A filter keeps the order of what it keeps.
LEMMA OnlyKeepsOrder ==
  ASSUME NEW T, NEW s \in Seq(T), IsInjective(s), NEW S, NEW a, NEW b
  PROVE  Precedes(Only(s, S), a, b) <=> Precedes(s, a, b) /\ a \in S /\ b \in S
<1> DEFINE o == Only(s, S)
<1>1. PICK f \in [1..Len(o) -> 1..Len(s)] :
        /\ \A k \in 1..Len(o) : o[k] = s[f[k]] /\ s[f[k]] \in S
        /\ \A x, y \in 1..Len(o) : x < y => f[x] < f[y]
        /\ \A i \in 1..Len(s) : s[i] \in S => \E k \in 1..Len(o) : f[k] = i
  BY OnlyPlaces
<1>2. Len(o) \in Nat /\ Len(s) \in Nat
  BY OnlyPlaces, LenProperties
<1> HIDE DEF o
<1>3. ASSUME NEW x \in 1..Len(o), NEW y \in 1..Len(o), x < y, o[x] = a, o[y] = b
      PROVE  Precedes(s, a, b) /\ a \in S /\ b \in S
  BY <1>1, <1>3 DEF Precedes
<1>4. ASSUME NEW i \in 1..Len(s), NEW j \in 1..Len(s), i < j, s[i] = a, s[j] = b,
             a \in S, b \in S
      PROVE  Precedes(o, a, b)
  <2>1. PICK x \in 1..Len(o) : f[x] = i
    BY <1>1, <1>4
  <2>2. PICK y \in 1..Len(o) : f[y] = j
    BY <1>1, <1>4
  <2>3. x < y
    <3>1. x # y /\ ~ (y < x)
      BY <1>1, <1>2, <1>4, <2>1, <2>2
    <3> QED
      BY <1>2, <3>1
  <2>4. o[x] = a /\ o[y] = b
    BY <1>1, <1>4, <2>1, <2>2
  <2> QED
    BY <2>3, <2>4 DEF Precedes
<1> QED
  BY <1>3, <1>4 DEF Precedes, o

-----------------------------------------------------------------------------
(***************************************************************************)
(* Folds.                                                                  *)
(***************************************************************************)

\* Induction up to a bound, over a set: one that has 0 and with a number the next has
\* them all.
LEMMA Climb ==
  ASSUME NEW n \in Nat, NEW S, 0 \in S, \A k \in 0 .. n : k \in S /\ k < n => k + 1 \in S
  PROVE  0 .. n \subseteq S
<1> DEFINE Left == {k \in 0 .. n : k \notin S}
<1>1. CASE Left = {}
  BY <1>1
<1>2. CASE Left # {}
  <2>0. Left \in SUBSET Nat
    OBVIOUS
  <2>1. PICK m \in Left : \A k \in Left : m <= k
    <3> HIDE DEF Left
    <3> QED
      BY <1>2, <2>0, LeastOfNats
  <2>2. m # 0 /\ m \in 0 .. n
    BY <2>1
  <2>3. m - 1 \in 0 .. n /\ m - 1 < n /\ m - 1 \notin Left
    BY <2>1, <2>2
  <2>4. m \in S
    BY <2>2, <2>3
  <2> QED
    BY <2>1, <2>4
<1> QED
  BY <1>1, <1>2

\* The maximum of a set of naturals is in it, and nothing in it is above.
LEMMA MaxIs ==
  ASSUME NEW n \in Nat, NEW T \in SUBSET (1 .. n), T # {}
  PROVE  Max(T) \in T /\ \A y \in T : y <= Max(T)
<1> DEFINE D == {n - t : t \in T}
<1>1. D \in SUBSET Nat /\ D # {}
  <2>1. ASSUME NEW t \in T PROVE n - t \in Nat
    OBVIOUS
  <2>2. PICK t \in T : TRUE
    OBVIOUS
  <2>3. n - t \in D
    OBVIOUS
  <2> QED
    BY <2>1, <2>3
<1>2. PICK d \in D : \A e \in D : d <= e
  <2> HIDE DEF D
  <2> QED
    BY <1>1, LeastOfNats
<1>3. PICK t \in T : d = n - t
  BY <1>2
<1>4. \A y \in T : t >= y
  <2> TAKE y \in T
  <2>1. n - y \in D
    OBVIOUS
  <2> QED
    BY <1>2, <1>3, <2>1
<1> HIDE DEF D
<1> QED
  BY <1>3, <1>4 DEF Max

\* The last of an interval, and the rest of it.
LEMMA MaxOfSegment ==
  ASSUME NEW k \in Nat \ {0}
  PROVE  Max(1 .. k) = k /\ (1 .. k) \ {k} = 1 .. (k - 1)
<1>1. Max(1 .. k) \in 1 .. k /\ k <= Max(1 .. k)
  <2>1. k \in 1 .. k /\ 1 .. k \in SUBSET (1 .. k) /\ k \in Nat
    OBVIOUS
  <2>2. 1 .. k # {}
    BY <2>1
  <2> QED
    BY ONLY <2>1, <2>2, MaxIs
<1> QED
  BY <1>1

\* The results of a recursion over the subsets of an interval, which is how a fold
\* is defined.
IsFold(f, n, X, b, G) ==
  /\ f \in [SUBSET (1 .. n) -> X]
  /\ \A T \in SUBSET (1 .. n) :
       f[T] = IF T = {} THEN b ELSE G[<<f[T \ {Max(T)}], Max(T)>>]

\* The recursion has its results: the function that a fold chooses is there.
LEMMA FoldExists ==
  ASSUME NEW n \in Nat, NEW X, NEW b \in X, NEW G \in [X \X (1 .. n) -> X]
  PROVE  \E f : IsFold(f, n, X, b, G)
<1> DEFINE Sound(f, k) == \A T \in SUBSET (1 .. k) :
                            f[T] = IF T = {} THEN b ELSE G[<<f[T \ {Max(T)}], Max(T)>>]
           Has(k) == \E f \in [SUBSET (1 .. k) -> X] : Sound(f, k)
           S == {k \in 0 .. n : Has(k)}
<1>1. 0 \in S
  <2> DEFINE f == [T \in SUBSET (1 .. 0) |-> b]
  <2>1. f \in [SUBSET (1 .. 0) -> X] /\ \A T \in SUBSET (1 .. 0) : T = {} /\ f[T] = b
    OBVIOUS
  <2> HIDE DEF f
  <2>2. Sound(f, 0)
    BY <2>1
  <2> HIDE DEF Sound
  <2>3. Has(0)
    BY <2>1, <2>2
  <2> HIDE DEF Has
  <2> QED
    BY <2>3
<1>2. ASSUME NEW k \in 0 .. n, k \in S, k < n PROVE k + 1 \in S
  <2>0. Has(k)
    <3> HIDE DEF Has
    <3> QED
      BY <1>2
  <2>1. PICK f \in [SUBSET (1 .. k) -> X] : Sound(f, k)
    BY <2>0
  <2> DEFINE g == [T \in SUBSET (1 .. (k + 1)) |->
                     IF T \in SUBSET (1 .. k) THEN f[T]
                     ELSE G[<<f[T \ {Max(T)}], Max(T)>>]]
  <2>2. ASSUME NEW T \in SUBSET (1 .. (k + 1)), T \notin SUBSET (1 .. k)
        PROVE  Max(T) = k + 1 /\ T \ {Max(T)} \in SUBSET (1 .. k) /\ T # {}
    <3>1. k + 1 \in T /\ k + 1 \in Nat
      BY <2>2
    <3>2. Max(T) \in T /\ k + 1 <= Max(T)
      <4>1. T # {}
        BY <3>1
      <4>2. Max(T) \in T /\ \A y \in T : y <= Max(T)
        <5>1. T \in SUBSET (1 .. (k + 1))
          OBVIOUS
        <5> QED
          BY ONLY <3>1, <4>1, <5>1, MaxIs
      <4> QED
        BY <3>1, <4>2
    <3>3. Max(T) = k + 1
      <4>1. Max(T) \in 1 .. (k + 1)
        BY <3>2
      <4> QED
        BY <3>1, <3>2, <4>1
    <3>4. ASSUME NEW y \in T \ {Max(T)} PROVE y \in 1 .. k
      BY <3>3
    <3> QED
      BY <3>1, <3>3, <3>4
  <2>3. ASSUME NEW T \in SUBSET (1 .. (k + 1)) PROVE g[T] \in X
    <3>1. CASE T \in SUBSET (1 .. k)
      BY <3>1
    <3>2. CASE T \notin SUBSET (1 .. k)
      <4>1. f[T \ {Max(T)}] \in X /\ Max(T) \in 1 .. n
        BY <1>2, <2>2, <3>2
      <4>2. g[T] = G[<<f[T \ {Max(T)}], Max(T)>>]
        BY <3>2
      <4> QED
        BY <4>1, <4>2
    <3> QED
      BY <3>1, <3>2
  <2>4. ASSUME NEW T \in SUBSET (1 .. (k + 1))
        PROVE  g[T] = IF T = {} THEN b ELSE G[<<g[T \ {Max(T)}], Max(T)>>]
    <3>1. CASE T \in SUBSET (1 .. k)
      <4>1. T \ {Max(T)} \in SUBSET (1 .. k) /\ T \ {Max(T)} \in SUBSET (1 .. (k + 1))
        BY <3>1
      <4>2. g[T] = f[T] /\ g[T \ {Max(T)}] = f[T \ {Max(T)}]
        BY <3>1, <4>1
      <4> HIDE DEF g
      <4> QED
        BY <2>1, <3>1, <4>2
    <3>2. CASE T \notin SUBSET (1 .. k)
      <4>1. T \ {Max(T)} \in SUBSET (1 .. k) /\ T \ {Max(T)} \in SUBSET (1 .. (k + 1)) /\ T # {}
        BY <2>2, <3>2
      <4>2. g[T] = G[<<f[T \ {Max(T)}], Max(T)>>] /\ g[T \ {Max(T)}] = f[T \ {Max(T)}]
        BY <3>2, <4>1
      <4> HIDE DEF g
      <4> QED
        BY <4>1, <4>2
    <3> QED
      BY <3>1, <3>2
  <2>5. g \in [SUBSET (1 .. (k + 1)) -> X]
    BY <2>3
  <2> HIDE DEF g
  <2>6. Sound(g, k + 1)
    BY <2>4
  <2>7. k + 1 \in 0 .. n
    BY <1>2
  <2> HIDE DEF Sound
  <2>8. Has(k + 1)
    BY <2>5, <2>6
  <2> HIDE DEF Has
  <2> QED
    BY <2>7, <2>8
<1>3. n \in S
  <2> HIDE DEF S
  <2> QED
    BY <1>1, <1>2, Climb
<1>4. Has(n)
  <2> HIDE DEF Has
  <2> QED
    BY <1>3
<1> QED
  BY <1>4 DEF IsFold
=============================================================================
