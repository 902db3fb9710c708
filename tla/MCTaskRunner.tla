---------------------------- MODULE MCTaskRunner ----------------------------
(* Small instances of TaskRunner. Nobody but the liveness runs may tell     *)
(* the tasks apart, so their names are interchangeable everywhere else.     *)
EXTENDS TaskRunner, TLC

CONSTANTS t1, t2, t3, o1

\* Only, told by ranks, is the library's recursive SelectSeq.
ASSUME OnlySelects ==
  \A n \in 0..3 : \A s \in [1..n -> Tasks] : \A S \in SUBSET Tasks :
    Only(s, S) = SelectSeq(s, LAMBDA t : t \in S)

Symmetry == Permutations(Tasks)

=============================================================================
