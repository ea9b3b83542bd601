-------------------------------- MODULE Lists --------------------------------
(***************************************************************************)
(* What the searches and removals in the vectors of the server need of     *)
(* sequences.                                                              *)
(***************************************************************************)
EXTENDS Naturals, Sequences, FiniteSets

Elements(seq) == {seq[k] : k \in DOMAIN seq}

\* The elements of seq that are in S, in their order: element i is the one
\* with i such elements up to it.
Filter(seq, S) ==
  LET kept    == {k \in DOMAIN seq : seq[k] \in S}
      Rank(k) == Cardinality({j \in kept : j <= k})
  IN [i \in 1..Cardinality(kept) |-> seq[CHOOSE k \in kept : Rank(k) = i]]
=============================================================================
