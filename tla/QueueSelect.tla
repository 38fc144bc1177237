----------------------------- MODULE QueueSelect -----------------------------
(* Taking elements out of an array or a queue without disturbing the others. *)
EXTENDS Naturals, Sequences, FiniteSets

InSeq(t, q) == \E i \in DOMAIN q : q[i] = t
Distinct(q) == \A i, j \in DOMAIN q : q[i] = q[j] => i = j

(* Definitions named Faulty... are never used: they are plausible mistakes  *)
(* in the definition that follows them, kept to see that the properties     *)
(* notice them.                                                             *)
FaultySelections_kept(q, K) == {q}
FaultySelections_reversed(q, K) ==
  LET n == Cardinality(K)
      Decreasing == {f \in [1 .. n -> K] : \A i, j \in 1 .. n : i < j => f[i] > f[j]}
  IN  {[i \in 1 .. n |-> q[f[i]]] : f \in Decreasing}

(* The elements of q at the indices K, in their order: the effect of       *)
(* draining a queue into saved_queue and back, and of moving the used part *)
(* of an array over the entries removed.  There is exactly one such        *)
(* sequence.                                                               *)
Selections(q, K) ==
  LET n == Cardinality(K)
      Increasing == {f \in [1 .. n -> K] :
                       /\ \A i, j \in 1 .. n : i < j => f[i] < f[j]
                       /\ \A k \in K : \E i \in 1 .. n : f[i] = k}
  IN  {[i \in 1 .. n |-> q[f[i]]] : f \in Increasing}

=============================================================================
