------------------------------- MODULE Lists -------------------------------
(***************************************************************************)
(* QList::removeAll, which the lists of views, of frame callbacks and of   *)
(* buffers have in common.                                                 *)
(***************************************************************************)
EXTENDS Naturals, Sequences, FiniteSets

\* Mutants: the elements are not removed, or only cleared.
LeftIn(seq, gone) == seq

ClearedIn(seq, gone) == [i \in DOMAIN seq |-> IF seq[i] \in gone THEN "cleared" ELSE seq[i]]

\* What is not in gone, in its order.  The k-th element left is the one with
\* k - 1 left before it; SelectSeq, which is recursive, without the recursion.
Without(seq, gone) ==
  LET left == {i \in DOMAIN seq : seq[i] \notin gone}
      before(i) == {j \in left : j < i}
  IN [k \in 1..Cardinality(left) |-> seq[CHOOSE i \in left : Cardinality(before(i)) = k - 1]]
=============================================================================
