--------------------------- MODULE ProtocolProofs ---------------------------
(* What both sides' marking of GPUs keeps and changes, and the facts about *)
(* counting that the proofs need.                                          *)
EXTENDS Protocol, FiniteSetTheorems, SequenceTheorems, TLAPS

\* Setting Available of some GPUs, as the booking and the releasing loops do,
\* keeps the list, its ids and its memory sizes, and every other GPU's flag.
LEMMA MarkGPUsProps ==
    ASSUME NEW gpus \in Seq(GPU), NEW ids, NEW b \in BOOLEAN
    PROVE  /\ MarkGPUs(gpus, ids, b) \in Seq(GPU)
           /\ DOMAIN MarkGPUs(gpus, ids, b) = DOMAIN gpus
           /\ \A i \in DOMAIN gpus :
                 /\ MarkGPUs(gpus, ids, b)[i].id = gpus[i].id
                 /\ MarkGPUs(gpus, ids, b)[i].memoryMB = gpus[i].memoryMB
                 /\ gpus[i].id \in ids => MarkGPUs(gpus, ids, b)[i].available = b
                 /\ gpus[i].id \notin ids =>
                       MarkGPUs(gpus, ids, b)[i].available = gpus[i].available
<1>1. DOMAIN gpus = 1..Len(gpus) /\ Len(gpus) \in Nat /\ \A i \in 1..Len(gpus) : gpus[i] \in GPU
  OBVIOUS
<1>2. \A i \in 1..Len(gpus) : MarkGPUs(gpus, ids, b)[i] \in GPU
  BY <1>1 DEF MarkGPUs, GPU
<1>3. MarkGPUs(gpus, ids, b) \in Seq(GPU)
  <2>1. MarkGPUs(gpus, ids, b) = [i \in 1..Len(gpus) |-> MarkGPUs(gpus, ids, b)[i]]
    BY <1>1 DEF MarkGPUs
  <2>2. MarkGPUs(gpus, ids, b) \in [1..Len(gpus) -> GPU]
    BY <2>1, <1>2
  <2> QED  BY <2>2, <1>1, SeqDef
<1> QED  BY <1>1, <1>3 DEF MarkGPUs, GPU

\* Every set of naturals that is not empty has a least element.
LEMMA LeastNat ==
    ASSUME NEW S \in SUBSET Nat, S # {}
    PROVE  \E m \in S : \A n \in S : m <= n
<1> DEFINE R == OpToRel(<, Nat)
<1>1. IsWellFoundedOn(R, Nat)
  BY NatLessThanWellFounded, Zenon
<1>2. \A m, n \in Nat : <<n, m>> \in R <=> n < m
  BY DEF OpToRel
<1> HIDE DEF R
<1>3. PICK m \in S : \A n \in S : <<n, m>> \notin R
  BY <1>1, WFMin
<1>4. \A n \in S : m <= n
  <2> SUFFICES ASSUME NEW n \in S PROVE m <= n
    OBVIOUS
  <2>1. m \in Nat /\ n \in Nat /\ ~(n < m)
    BY <1>2, <1>3
  <2> QED  BY <2>1
<1> QED  BY <1>4

\* Induction over the naturals, with a set in the place of a predicate.
LEMMA NatSetInduction ==
    ASSUME NEW S, 0 \in S, \A n \in Nat : n \in S => n + 1 \in S
    PROVE  \A n \in Nat : n \in S
<1> SUFFICES ASSUME NEW k \in Nat, k \notin S PROVE FALSE
  OBVIOUS
<1>1. PICK m \in Nat \ S : \A n \in Nat \ S : m <= n
  <2>1. Nat \ S # {} /\ Nat \ S \in SUBSET Nat
    OBVIOUS
  <2> QED  BY <2>1, LeastNat
<1>2. m # 0 /\ m - 1 \in Nat
  BY <1>1
<1>3. m - 1 \in S
  BY <1>1, <1>2
<1> QED  BY <1>1, <1>2, <1>3

\* A slice [:k] of a list that is long enough has k elements: k elements of a
\* finite set of positions have fewer than k others before them.
LEMMA FirstOfSet ==
    ASSUME NEW F \in SUBSET Nat, IsFiniteSet(F), NEW k \in Nat, k <= Cardinality(F)
    PROVE  Cardinality({i \in F : Cardinality({j \in F : j < i}) < k}) = k
<1> DEFINE below == [i \in F |-> {j \in F : j < i}]
           rank == [i \in F |-> Cardinality(below[i])]
           First(n) == {i \in F : rank[i] < n}
           Good == {n \in Nat : n <= Cardinality(F) => Cardinality(First(n)) = n}
<1>1. \A T \in SUBSET F : IsFiniteSet(T) /\ Cardinality(T) \in Nat
  BY FS_Subset, FS_CardinalityType
<1>2. /\ \A i \in F : below[i] \in SUBSET F /\ rank[i] = Cardinality(below[i]) /\ rank[i] \in Nat
      /\ \A i, j \in F : j \in below[i] <=> j < i
  BY <1>1
<1>3. k \in Good => Cardinality({i \in F : Cardinality({j \in F : j < i}) < k}) = k
  <2>1. {i \in F : Cardinality({j \in F : j < i}) < k} = First(k)
    OBVIOUS
  <2> HIDE DEF First
  <2> QED  BY <2>1
<1> HIDE DEF below, rank
<1>4. 0 \in Good
  <2>1. First(0) = {}
    <3> SUFFICES ASSUME NEW i \in F PROVE ~(rank[i] < 0)
      OBVIOUS
    <3> QED  BY <1>2
  <2> QED  BY <2>1, FS_EmptySet
<1>5. ASSUME NEW n \in Nat, n \in Good PROVE n + 1 \in Good
  <2> SUFFICES ASSUME n + 1 <= Cardinality(F) PROVE Cardinality(First(n + 1)) = n + 1
    OBVIOUS
  <2>1. Cardinality(F) \in Nat
    BY FS_CardinalityType
  <2>2. First(n) \in SUBSET F /\ IsFiniteSet(First(n)) /\ Cardinality(First(n)) = n
    <3>1. First(n) \in SUBSET F
      OBVIOUS
    <3>2. Cardinality(First(n)) = n
      BY <1>5, <2>1
    <3> HIDE DEF First
    <3> QED  BY <3>1, <3>2, <1>1
  <2>3. F \ First(n) # {} /\ F \ First(n) \in SUBSET Nat
    <3> HIDE DEF First
    <3>1. First(n) # F
      BY <2>1, <2>2
    <3> QED  BY <3>1, <2>2
  <2>4. PICK m \in F \ First(n) : \A i \in F \ First(n) : m <= i
    BY <2>3, LeastNat
  <2>5. m \in F /\ m \in Nat /\ m \notin First(n) /\ \A i \in F : i \in Nat
    BY <2>4
  <2>6. \A i, j \in F : i <= j => rank[i] <= rank[j]
    <3> SUFFICES ASSUME NEW i \in F, NEW j \in F, i <= j PROVE rank[i] <= rank[j]
      OBVIOUS
    <3>1. ASSUME NEW x \in below[i] PROVE x \in below[j]
      <4>1. x \in F /\ x < i
        BY <1>2
      <4>2. x \in Nat /\ i \in Nat /\ j \in Nat
        BY <4>1, <2>5
      <4>3. x < j
        BY <4>1, <4>2
      <4> QED  BY <4>1, <4>3, <1>2
    <3>2. IsFiniteSet(below[j])
      BY <1>1, <1>2
    <3>3. Cardinality(below[i]) <= Cardinality(below[j])
      BY <3>1, <3>2, FS_Subset
    <3> QED  BY <3>3, <1>2
  <2>7. below[m] = First(n)
    <3>1. ASSUME NEW j \in F, j < m PROVE j \in First(n)
      <4>1. ~(m <= j)
        BY <3>1, <2>5
      <4> QED  BY <4>1, <2>4
    <3>2. ASSUME NEW j \in First(n) PROVE j \in F /\ j < m
      <4>1. j \in F /\ rank[j] < n /\ ~(rank[m] < n)
        BY <2>5
      <4>2. ~(rank[m] <= rank[j])
        <5>1. rank[m] \in Nat /\ rank[j] \in Nat
          BY <4>1, <2>5, <1>2
        <5> QED  BY <4>1, <5>1
      <4>3. ~(m <= j)
        BY <4>1, <4>2, <2>5, <2>6
      <4> QED  BY <4>1, <4>3, <2>5
    <3> HIDE DEF First
    <3> QED  BY <3>1, <3>2, <2>2, <2>5, <1>2
  <2>8. \A i \in F : rank[i] < n + 1 <=> i \in First(n) \/ i = m
    <3>1. rank[m] = n
      BY <2>2, <2>5, <2>7, <1>2
    <3>2. ASSUME NEW i \in F, i # m, i \notin First(n) PROVE ~(rank[i] < n + 1)
      <4>1. m <= i /\ m < i
        BY <3>2, <2>4, <2>5
      <4>2. ASSUME NEW x \in First(n) \cup {m} PROVE x \in below[i]
        <5>1. x \in F /\ (x < m \/ x = m)
          BY <2>5, <2>7, <1>2
        <5>2. x \in Nat /\ i \in Nat
          BY <5>1, <2>5
        <5>3. x < i
          BY <5>1, <5>2, <4>1, <2>5
        <5> QED  BY <5>1, <5>3, <1>2
      <4>3. First(n) \cup {m} \in SUBSET below[i]
        BY <4>2
      <4> HIDE DEF First
      <4>4. Cardinality(First(n) \cup {m}) = n + 1
        BY <2>2, <2>5, FS_AddElement
      <4>5. IsFiniteSet(below[i])
        BY <1>1, <1>2
      <4>6. n + 1 <= rank[i]
        BY <4>3, <4>4, <4>5, <1>2, FS_Subset
      <4> QED  BY <4>6, <1>2
    <3>3. \A i \in First(n) : rank[i] < n + 1
      BY <1>2
    <3> QED  BY <3>1, <3>2, <3>3
  <2>9. First(n + 1) = First(n) \cup {m}
    BY <2>5, <2>8
  <2> HIDE DEF First
  <2> QED  BY <2>2, <2>5, <2>9, FS_AddElement
<1>6. k \in Good
  <2> HIDE DEF Good
  <2> QED  BY <1>4, <1>5, NatSetInduction
<1> QED  BY <1>3, <1>6

\* As many values as there are arguments, where no two have the same value.
LEMMA ImageCount ==
    ASSUME NEW S, IsFiniteSet(S), NEW f, DOMAIN f = S,
           \A x, y \in S : f[x] = f[y] => x = y
    PROVE  /\ IsFiniteSet({f[x] : x \in S})
           /\ Cardinality({f[x] : x \in S}) = Cardinality(S)
<1> DEFINE g == [x \in S |-> f[x]]
           T == {f[x] : x \in S}
<1>1. g \in [S -> T] /\ \A x \in S : g[x] = f[x]
  OBVIOUS
<1>2. g \in Injection(S, T)
  BY <1>1 DEF Injection, IsInjective
<1>3. g \in Surjection(S, T)
  BY <1>1 DEF Surjection
<1>4. ExistsBijection(S, T)
  BY <1>2, <1>3 DEF ExistsBijection, Bijection
<1> QED  BY <1>4, FS_Bijection
=============================================================================
