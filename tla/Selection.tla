------------------------------ MODULE Selection ------------------------------
(***************************************************************************)
(* What the code's loops and iterators keep of a sequence: filter, retain  *)
(* and flat_map keep members in the order in which they stand.             *)
(***************************************************************************)
EXTENDS Integers, FiniteSets, SequencesExt

\* The members of a set of numbers, from the least.
InOrder(places) ==
  [k \in 1..Cardinality(places) |->
     CHOOSE i \in places : Cardinality({j \in places : j <= i}) = k]

\* What stands in seq at these places.
At(seq, places) ==
  LET order == InOrder(places) IN [k \in DOMAIN order |-> seq[order[k]]]

\* The members of seq that are in a set.
Kept(seq, set) == At(seq, {i \in DOMAIN seq : seq[i] \in set})

\* The members of seq, each where it is first.
Distinct(seq) == At(seq, {i \in DOMAIN seq : \A j \in 1..(i - 1) : seq[j] # seq[i]})

\* Sets of one or none, in sequence.
Present(sets) ==
  LET full == At(sets, {i \in DOMAIN sets : sets[i] # {}})
  IN [k \in DOMAIN full |-> CHOOSE x \in full[k] : TRUE]

IsSequence(s) == s \in Seq(ToSet(s))

\* Sequences, one after the other.
Flat(seqs) == FoldLeft(LAMBDA all, s : all \o s, <<>>, seqs)
=============================================================================
