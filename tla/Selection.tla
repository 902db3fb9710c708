----------------------------- MODULE Selection ------------------------------
(***************************************************************************)
(* What a filter leaves of a list: Array.prototype.filter, as removeMany,  *)
(* reconcile and the abort of the load cap's waiters use it.               *)
(***************************************************************************)
EXTENDS Naturals, FiniteSets, Sequences

\* The entries of the sequence s that are in S, in order: SelectSeq, told by the
\* ranks of the positions so that it can be reasoned about without recursion.
Only(s, S) ==
  LET at == {i \in 1..Len(s) : s[i] \in S}
      Rank(i) == Cardinality({j \in at : j <= i})
  IN  [k \in 1..Cardinality(at) |-> s[CHOOSE i \in at : Rank(i) = k]]

=============================================================================
