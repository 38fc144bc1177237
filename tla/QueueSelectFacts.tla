--------------------------- MODULE QueueSelectFacts ---------------------------
(* What Selections returns. *)
EXTENDS QueueSelect, TLAPS, FiniteSetTheorems

(* The selection holds exactly the elements at the indices chosen, and no   *)
(* element more often than the queue did.                                  *)
LEMMA SelectionFacts ==
  ASSUME NEW S, NEW q \in Seq(S), NEW K \in SUBSET (1 .. Len(q)),
         NEW r \in Selections(q, K)
  PROVE  /\ r \in Seq(S)
         /\ \A t : InSeq(t, r) <=> \E k \in K : q[k] = t
         /\ Distinct(q) => Distinct(r)
<1>1. Len(q) \in Nat /\ DOMAIN q = 1 .. Len(q) /\ \A i \in 1 .. Len(q) : q[i] \in S
  OBVIOUS
<1>2. IsFiniteSet(K) /\ Cardinality(K) \in Nat
  <2>1. IsFiniteSet(1 .. Len(q))
    BY <1>1, FS_Interval
  <2>2. IsFiniteSet(K)
    BY <2>1, FS_Subset
  <2> QED BY <2>2, FS_CardinalityType
<1> DEFINE n == Cardinality(K)
<1>3. PICK f \in [1 .. n -> K] :
        /\ \A i, j \in 1 .. n : i < j => f[i] < f[j]
        /\ \A k \in K : \E i \in 1 .. n : f[i] = k
        /\ r = [i \in 1 .. n |-> q[f[i]]]
  BY DEF Selections
<1>4. n \in Nat
  BY <1>2
<1> HIDE DEF n
<1>5. DOMAIN r = 1 .. n /\ \A i \in 1 .. n : r[i] = q[f[i]] /\ f[i] \in K
  BY <1>3
<1>6. r \in Seq(S)
  <2>1. \A i \in 1 .. n : r[i] \in S
    BY <1>1, <1>5
  <2>2. r \in [1 .. n -> S]
    BY <1>3, <2>1
  <2> QED BY <2>2, <1>4
<1>7. ASSUME NEW t PROVE InSeq(t, r) <=> \E k \in K : q[k] = t
  <2>1. InSeq(t, r) => \E k \in K : q[k] = t
    BY <1>5, Zenon DEF InSeq
  <2>2. ASSUME NEW k \in K, q[k] = t PROVE InSeq(t, r)
    <3>1. PICK i \in 1 .. n : f[i] = k
      BY <1>3
    <3> QED BY <1>5, <2>2, <3>1, Zenon DEF InSeq
  <2> QED BY <2>1, <2>2
<1>8. ASSUME Distinct(q) PROVE Distinct(r)
  <2> SUFFICES ASSUME NEW i \in 1 .. n, NEW j \in 1 .. n, r[i] = r[j], i < j PROVE FALSE
    BY <1>4, <1>5 DEF Distinct
  <2>1. f[i] \in 1 .. Len(q) /\ f[j] \in 1 .. Len(q) /\ q[f[i]] = q[f[j]]
    BY <1>5
  <2>2. f[i] < f[j]
    BY <1>3
  <2> QED BY <2>1, <2>2, <1>1, <1>8 DEF Distinct
<1> QED BY <1>6, <1>7, <1>8

(* The selection is the queue seen through an injection of its indices, and *)
(* shorter than the queue when one element is left out.                     *)
LEMMA SelectionIndices ==
  ASSUME NEW S, NEW q \in Seq(S), NEW K \in SUBSET (1 .. Len(q)),
         NEW r \in Selections(q, K)
  PROVE  /\ Len(r) \in Nat /\ Len(r) <= Len(q)
         /\ K # 1 .. Len(q) => Len(r) < Len(q)
         /\ \E f \in [1 .. Len(r) -> K] :
              /\ \A i \in 1 .. Len(r) : r[i] = q[f[i]]
              /\ \A i, j \in 1 .. Len(r) : f[i] = f[j] => i = j
<1>1. IsFiniteSet(1 .. Len(q)) /\ Cardinality(1 .. Len(q)) = Len(q) /\ Len(q) \in Nat
  <2> DEFINE m == Len(q)
  <2>1. m \in Nat
    OBVIOUS
  <2> HIDE DEF m
  <2>2. IsFiniteSet(1 .. m) /\ Cardinality(1 .. m) = IF 1 > m THEN 0 ELSE m - 1 + 1
    BY <2>1, FS_Interval
  <2>3. IsFiniteSet(1 .. m) /\ Cardinality(1 .. m) = m
    BY <2>1, <2>2
  <2> QED BY <2>1, <2>3 DEF m
<1>2. /\ IsFiniteSet(K) /\ Cardinality(K) \in Nat /\ Cardinality(K) <= Len(q)
      /\ K # 1 .. Len(q) => Cardinality(K) < Len(q)
  <2>1. IsFiniteSet(K) /\ Cardinality(K) <= Len(q)
    BY <1>1, FS_Subset
  <2>2. Cardinality(K) = Len(q) => K = 1 .. Len(q)
    BY <1>1, FS_Subset
  <2>3. Cardinality(K) \in Nat
    BY <2>1, FS_CardinalityType
  <2> QED BY <1>1, <2>1, <2>2, <2>3
<1> DEFINE n == Cardinality(K)
<1>3. PICK f \in [1 .. n -> K] :
        /\ \A i, j \in 1 .. n : i < j => f[i] < f[j]
        /\ r = [i \in 1 .. n |-> q[f[i]]]
  BY DEF Selections
<1>4. n \in Nat /\ n <= Len(q) /\ (K # 1 .. Len(q) => n < Len(q))
  BY <1>2
<1> HIDE DEF n
<1>5. Len(r) = n
  BY <1>3, <1>4
<1>6. \A i, j \in 1 .. n : f[i] = f[j] => i = j
  <2> SUFFICES ASSUME NEW i \in 1 .. n, NEW j \in 1 .. n, f[i] = f[j], i < j PROVE FALSE
    BY <1>4
  <2>1. f[i] \in 1 .. Len(q) /\ f[i] < f[j]
    BY <1>3
  <2> QED BY <2>1, <1>1
<1>7. \A i \in 1 .. n : r[i] = q[f[i]]
  BY <1>3
<1>8. \E g \in [1 .. n -> K] :
        /\ \A i \in 1 .. n : r[i] = q[g[i]]
        /\ \A i, j \in 1 .. n : g[i] = g[j] => i = j
  BY <1>3, <1>6, <1>7
<1> QED BY <1>4, <1>5, <1>8

=============================================================================
