------------------------------ MODULE Selection ------------------------------
(* Slices of Python, and what its comprehensions, [x for x in s if ...],    *)
(* keep of a list.                                                         *)
EXTENDS Integers, Sequences, FiniteSets

\* A slice, which ends where the sequence does.
Slice(s, first, last) == SubSeq(s, first, IF last > Len(s) THEN Len(s) ELSE last)

\* The k-th of a set of positions is the one with k positions up to it.
Rank(at) == [ i \in at |-> Cardinality({ j \in at : j <= i }) ]

\* The elements of s at the positions in keep, in their order.
Selected(s, keep) ==
  LET at == keep \cap DOMAIN s
      rank == Rank(at)
  IN [ k \in 1 .. Cardinality(at) |-> s[CHOOSE i \in at : rank[i] = k] ]
=============================================================================
