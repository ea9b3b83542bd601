----------------------------- MODULE ListsProofs -----------------------------
(***************************************************************************)
(* Facts about Lists, for sequences of any length.                         *)
(***************************************************************************)
EXTENDS Lists, Integers, SequenceTheorems, FiniteSetTheorems, WellFoundedInduction, TLAPS

\* A set of numbers has a least element.
LEMMA LeastNumber ==
  ASSUME NEW T \in SUBSET Nat, T # {}
  PROVE  \E n \in T : \A m \in T : n <= m
<1> DEFINE R == {ss \in Nat \X Nat : ss[1] < ss[2]}
<1>1. IsWellFoundedOn(R, Nat)
  BY NatLessThanWellFounded DEF OpToRel
<1>2. \A x, y \in Nat : <<y, x>> \in R <=> y < x
  OBVIOUS
<1> HIDE DEF R
<1>3. PICK x \in T : \A y \in T : ~(<<y, x>> \in R)
  BY <1>1, WFMin
<1>4. \A y \in T : ~(y < x)
  BY <1>2, <1>3
<1>5. \A y \in T : x <= y
  BY <1>4
<1> QED
  BY <1>5

\* A bounded set of numbers has a greatest element.
LEMMA GreatestNumber ==
  ASSUME NEW T \in SUBSET Nat, T # {}, NEW n \in Nat, \A k \in T : k <= n
  PROVE  \E k \in T : \A j \in T : j <= k
<1> DEFINE U == {n - k : k \in T}
<1>1. U \in SUBSET Nat /\ U # {}
  <2>1. \A k \in T : n - k \in Nat /\ n - k \in U
    OBVIOUS
  <2>2. PICK k \in T : TRUE
    OBVIOUS
  <2> QED
    BY <2>1, <2>2
<1>2. PICK u \in U : \A v \in U : u <= v
  <2> HIDE DEF U
  <2> QED
    BY <1>1, LeastNumber
<1>3. PICK k \in T : u = n - k
  BY <1>2
<1>4. ASSUME NEW j \in T PROVE j <= k
  <2>1. n - k <= n - j
    BY <1>2, <1>3
  <2> QED
    BY <2>1
<1> QED
  BY <1>4

\* The positions of the elements in S have the ranks 1, 2, ... up to their
\* number, each once.
LEMMA Ranks ==
  ASSUME NEW n \in Nat, NEW K \in SUBSET (1..n)
  PROVE  /\ IsFiniteSet(K) /\ Cardinality(K) \in Nat
         /\ \A k \in K : Cardinality({j \in K : j <= k}) \in 1..Cardinality(K)
         /\ \A k, m \in K :
              k < m => Cardinality({j \in K : j <= k}) < Cardinality({j \in K : j <= m})
         /\ \A i \in 1..Cardinality(K) : \E k \in K : Cardinality({j \in K : j <= k}) = i
<1> DEFINE upto(k) == {j \in K : j <= k}
           c(k) == Cardinality(upto(k))
           N == Cardinality(K)
<1>1. IsFiniteSet(K) /\ N \in Nat
  <2>1. IsFiniteSet(1..n)
    BY FS_Interval
  <2> QED
    BY <2>1, FS_Subset, FS_CardinalityType
<1>2. ASSUME NEW k \in K PROVE IsFiniteSet(upto(k)) /\ c(k) \in Nat /\ c(k) <= N /\ c(k) >= 1
  <2>1. upto(k) \in SUBSET K /\ k \in upto(k)
    OBVIOUS
  <2> HIDE DEF upto
  <2>2. IsFiniteSet(upto(k)) /\ c(k) \in Nat /\ c(k) <= N
    BY <1>1, <2>1, FS_Subset, FS_CardinalityType
  <2>3. c(k) # 0
    BY <2>1, <2>2, FS_EmptySet
  <2> QED
    BY <2>2, <2>3
<1>3. ASSUME NEW k \in K, NEW m \in K, k < m PROVE c(k) < c(m)
  <2>0. \A j \in K : j \in Nat
    OBVIOUS
  <2>1. upto(k) \in SUBSET upto(m) /\ m \in upto(m) /\ m \notin upto(k)
    <3>1. \A j \in K : j <= k => j <= m
      BY <1>3, <2>0
    <3>2. m <= m /\ ~(m <= k)
      BY <1>3, <2>0
    <3> QED
      BY <3>1, <3>2
  <2>2. IsFiniteSet(upto(m)) /\ c(m) \in Nat /\ c(k) \in Nat
    BY <1>2
  <2> HIDE DEF upto
  <2>3. c(k) <= c(m) /\ (c(m) = c(k) => upto(m) = upto(k))
    BY <2>1, <2>2, FS_Subset
  <2>4. c(m) # c(k)
    BY <2>1, <2>3
  <2> HIDE DEF c
  <2> QED
    BY <2>2, <2>3, <2>4
<1>4. \A k \in K : c(k) \in 1..N
  <2>1. \A k \in K : c(k) \in Nat /\ c(k) <= N /\ c(k) >= 1
    BY <1>2
  <2> HIDE DEF c, N
  <2> QED
    BY <1>1, <2>1
<1> HIDE DEF c, N
<1>5. \A k, m \in K : c(k) = c(m) => k = m
  <2>1. \A k, m \in K : k < m \/ m < k \/ k = m
    OBVIOUS
  <2>2. \A k, m \in K : k < m => c(k) # c(m)
    BY <1>3, <1>4
  <2> QED
    BY <2>1, <2>2
<1>6. \A i \in 1..N : \E k \in K : c(k) = i
  <2> DEFINE f == [k \in K |-> c(k)]
             I == 1..N
  <2>1. f \in [K -> I] /\ \A k, m \in K : f[k] = f[m] => k = m
    BY <1>4, <1>5
  <2>2. f \in Injection(K, I)
    <3>1. \A k, m \in K : k # m => f[k] # f[m]
      BY <2>1
    <3> QED
      BY <2>1, <3>1 DEF Injection, IsInjective
  <2>3. IsFiniteSet(I) /\ Cardinality(I) = N
    <3>1. 1 \in Int /\ N \in Int
      BY <1>1
    <3>2. IsFiniteSet(1..N) /\ Cardinality(1..N) = IF 1 > N THEN 0 ELSE N - 1 + 1
      BY <3>1, FS_Interval
    <3> QED
      BY <1>1, <3>2
  <2>4. Cardinality(K) = Cardinality(I)
    BY <2>3 DEF N
  <2>5. f \in Surjection(K, I)
    <3> HIDE DEF f, I
    <3> QED
      BY <2>2, <2>3, <2>4, FS_Injection
  <2>6. \A i \in I : \E k \in K : f[k] = i
    BY <2>5 DEF Surjection
  <2> QED
    BY <2>6
<1> QED
  BY <1>1, <1>3, <1>4, <1>6 DEF c, N, upto

\* Filter yields the elements that are in S and no others.
LEMMA FilterProps ==
  ASSUME NEW T, NEW seq \in Seq(T), NEW S
  PROVE  /\ Filter(seq, S) \in Seq(T)
         /\ Elements(Filter(seq, S)) = Elements(seq) \cap S
<1> DEFINE K == {k \in DOMAIN seq : seq[k] \in S}
           c(k) == Cardinality({j \in K : j <= k})
           N == Cardinality(K)
           at(i) == CHOOSE k \in K : c(k) = i
           r == Filter(seq, S)
<1>1. Len(seq) \in Nat /\ DOMAIN seq = 1..Len(seq) /\ \A k \in 1..Len(seq) : seq[k] \in T
  OBVIOUS
<1>2. K \in SUBSET (1..Len(seq)) /\ \A k \in K : seq[k] \in T \cap S
  BY <1>1
<1>3. r = [i \in 1..N |-> seq[at(i)]]
  BY DEF Filter
<1>4. \A k \in 1..Len(seq) : seq[k] \in S => k \in K
  BY <1>1
<1> HIDE DEF K, r
<1>5. /\ N \in Nat /\ \A k \in K : c(k) \in 1..N
      /\ \A k, m \in K : k < m => c(k) < c(m)
      /\ \A i \in 1..N : \E k \in K : c(k) = i
  BY <1>1, <1>2, Ranks
<1> HIDE DEF c, N
<1>6. \A i \in 1..N : at(i) \in K
  BY <1>5
<1>7. ASSUME NEW k \in K PROVE at(c(k)) = k
  <2>1. at(c(k)) \in K /\ c(at(c(k))) = c(k)
    OBVIOUS
  <2>2. \A m \in K : m < k \/ k < m \/ m = k
    BY <1>2
  <2>3. \A m \in K : c(m) \in Nat
    BY <1>5
  <2> HIDE DEF at
  <2>4. ~(at(c(k)) < k) /\ ~(k < at(c(k)))
    BY <1>5, <2>1, <2>3
  <2> QED
    BY <2>1, <2>2, <2>4
<1> HIDE DEF at
<1>8. r \in Seq(T) /\ DOMAIN r = 1..N
  <2>1. \A i \in 1..N : seq[at(i)] \in T
    BY <1>2, <1>6
  <2> QED
    BY <1>3, <1>5, <2>1
<1>9. ASSUME NEW x \in Elements(r) PROVE x \in Elements(seq) \cap S
  <2>1. PICK i \in 1..N : x = seq[at(i)]
    BY <1>3, <1>8 DEF Elements
  <2> QED
    BY <1>1, <1>2, <1>6, <2>1 DEF Elements
<1>10. ASSUME NEW x \in Elements(seq) \cap S PROVE x \in Elements(r)
  <2>1. PICK k \in 1..Len(seq) : x = seq[k]
    BY <1>1 DEF Elements
  <2>2. k \in K
    BY <1>4, <2>1
  <2>3. c(k) \in 1..N /\ r[c(k)] = x
    BY <1>3, <1>5, <1>7, <2>1, <2>2
  <2> QED
    BY <1>8, <2>3 DEF Elements
<1>11. Elements(r) = Elements(seq) \cap S
  BY <1>9, <1>10
<1> QED
  BY <1>8, <1>11 DEF r
=============================================================================
