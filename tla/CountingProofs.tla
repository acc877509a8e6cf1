--------------------------- MODULE CountingProofs ---------------------------
(***************************************************************************)
(* How the number of entries of a kind changes when an entry is appended   *)
(* to a queue or taken from it.                                            *)
(***************************************************************************)
EXTENDS Counting, Integers, FiniteSetTheorems, SequenceTheorems, TLAPS

\* Counting is defined for every queue, and an entry is found exactly when
\* the count is positive.
LEMMA BehindType ==
  ASSUME NEW A, NEW q \in Seq(A), NEW S, NEW r \in Nat
  PROVE  /\ IsFiniteSet(Places(q, r, S))
         /\ Behind(q, r, S) \in Nat
         /\ Behind(q, r, S) = 0 <=> Places(q, r, S) = {}
         /\ r >= Len(q) => Behind(q, r, S) = 0
<1>1. DOMAIN q = 1..Len(q) /\ Len(q) \in Nat
  OBVIOUS
<1>2. IsFiniteSet(DOMAIN q) /\ Places(q, r, S) \in SUBSET DOMAIN q
  BY <1>1, FS_Interval DEF Places
<1>3. IsFiniteSet(Places(q, r, S))
  BY ONLY <1>2, FS_Subset
<1>4. Behind(q, r, S) \in Nat /\ (Behind(q, r, S) = 0 <=> Places(q, r, S) = {})
  BY <1>3, FS_CardinalityType, FS_EmptySet DEF Behind
<1>5. r >= Len(q) => Places(q, r, S) = {}
  BY <1>1 DEF Places
<1> QED
  BY <1>3, <1>4, <1>5

LEMMA CountType ==
  ASSUME NEW A, NEW q \in Seq(A), NEW S
  PROVE  /\ Count(q, S) \in Nat
         /\ Count(q, S) > 0 <=> \E i \in DOMAIN q : q[i] \in S
<1>1. 0 \in Nat /\ \A i \in DOMAIN q : i > 0
  OBVIOUS
<1>2. Behind(q, 0, S) \in Nat /\ (Behind(q, 0, S) = 0 <=> Places(q, 0, S) = {})
  BY <1>1, BehindType
<1> QED
  BY <1>1, <1>2 DEF Count, Places

\* An empty queue has no entry of any kind.
LEMMA CountEmpty == \A S : Count(<<>>, S) = 0
<1>1. \A S : Places(<<>>, 0, S) = {}
  BY DEF Places
<1> QED
  BY <1>1, FS_EmptySet DEF Count, Behind

\* An entry that is appended counts if it is of the kind.
LEMMA BehindAppend ==
  ASSUME NEW A, NEW q \in Seq(A), NEW m \in A, NEW S, NEW r \in 0..Len(q)
  PROVE  Behind(Append(q, m), r, S) = Behind(q, r, S) + (IF m \in S THEN 1 ELSE 0)
<1> DEFINE T == Places(q, r, S)
           U == Places(Append(q, m), r, S)
           n == Len(q) + 1
<1>1. r \in Nat
  OBVIOUS
<1>2. IsFiniteSet(T) /\ Cardinality(T) \in Nat
  BY <1>1, BehindType DEF Behind
<1>3. DOMAIN Append(q, m) = (DOMAIN q) \cup {n} /\ n \notin DOMAIN q /\ n > r
  OBVIOUS
<1>4. Append(q, m)[n] = m /\ \A i \in DOMAIN q : Append(q, m)[i] = q[i]
  OBVIOUS
<1>5. n \notin T /\ U = IF m \in S THEN T \cup {n} ELSE T
  BY <1>3, <1>4 DEF Places
<1> HIDE DEF T, U, n
<1>6. Cardinality(T \cup {n}) = Cardinality(T) + 1
  BY <1>2, <1>5, FS_AddElement
<1>7. Cardinality(U) = Cardinality(T) + (IF m \in S THEN 1 ELSE 0)
  BY <1>2, <1>5, <1>6
<1> QED
  BY <1>7 DEF Behind, T, U

LEMMA CountAppend ==
  ASSUME NEW A, NEW q \in Seq(A), NEW m \in A, NEW S
  PROVE  Count(Append(q, m), S) = Count(q, S) + (IF m \in S THEN 1 ELSE 0)
<1>1. 0 \in 0..Len(q)
  OBVIOUS
<1> QED
  BY <1>1, BehindAppend DEF Count

\* When the head is taken, every entry moves up by one place.
LEMMA BehindTail ==
  ASSUME NEW A, NEW q \in Seq(A), q # <<>>, NEW S, NEW r \in Nat
  PROVE  Behind(Tail(q), r, S) = Behind(q, r + 1, S)
<1> DEFINE T == Places(Tail(q), r, S)
           V == Places(q, r + 1, S)
           f == [i \in T |-> i + 1]
<1>1. /\ Len(q) \in Nat \ {0} /\ DOMAIN q = 1..Len(q)
      /\ Tail(q) \in Seq(A) /\ DOMAIN Tail(q) = 1..(Len(q) - 1)
      /\ \A i \in 1..(Len(q) - 1) : Tail(q)[i] = q[i + 1]
  BY EmptySeq
<1>2. IsFiniteSet(T)
  BY <1>1, BehindType
<1>3. T \in SUBSET Nat /\ V \in SUBSET Nat
  BY <1>1 DEF Places
<1>4. \A i \in T : i + 1 \in V
  BY <1>1 DEF Places
<1>5. \A j \in V : j - 1 \in T /\ (j - 1) + 1 = j
  <2> SUFFICES ASSUME NEW j \in V PROVE j - 1 \in T /\ (j - 1) + 1 = j
    OBVIOUS
  <2>1. j \in 1..Len(q) /\ j > r + 1 /\ q[j] \in S
    BY <1>1 DEF Places
  <2>2. j - 1 \in 1..(Len(q) - 1) /\ j - 1 > r /\ (j - 1) + 1 = j
    BY <2>1, <1>1
  <2>3. Tail(q)[j - 1] = q[j]
    BY <2>2, <1>1
  <2> QED
    BY <2>1, <2>2, <2>3, <1>1 DEF Places
<1>6. f \in Bijection(T, V)
  <2>1. f \in [T -> V]
    BY <1>4
  <2>2. \A a, b \in T : f[a] = f[b] => a = b
    BY <1>3
  <2>3. \A j \in V : \E i \in T : f[i] = j
    BY <1>5
  <2> HIDE DEF f, T, V
  <2> QED
    BY <2>1, <2>2, <2>3 DEF Bijection, Injection, IsInjective, Surjection
<1>7. Cardinality(V) = Cardinality(T)
  <2> HIDE DEF f, T, V
  <2>1. ExistsBijection(T, V)
    BY <1>6 DEF ExistsBijection
  <2> QED
    BY <2>1, <1>2, FS_Bijection
<1> QED
  BY <1>7 DEF Behind

\* The entry that is taken counts no more.
LEMMA CountTail ==
  ASSUME NEW A, NEW q \in Seq(A), q # <<>>, NEW S
  PROVE  Count(q, S) = Count(Tail(q), S) + (IF Head(q) \in S THEN 1 ELSE 0)
<1> DEFINE V == Places(q, 1, S)
           U == Places(q, 0, S)
<1>1. /\ Len(q) \in Nat \ {0} /\ DOMAIN q = 1..Len(q) /\ Head(q) = q[1]
  BY EmptySeq
<1>2. IsFiniteSet(V) /\ Cardinality(V) \in Nat
  BY 1 \in Nat, BehindType DEF Behind
<1>3. 1 \notin V /\ U = IF Head(q) \in S THEN V \cup {1} ELSE V
  BY <1>1 DEF Places
<1>4. Behind(Tail(q), 0, S) = Behind(q, 1, S)
  BY 0 \in Nat, 0 + 1 = 1, BehindTail
<1> HIDE DEF U, V
<1>5. Cardinality(V \cup {1}) = Cardinality(V) + 1
  BY <1>2, <1>3, FS_AddElement
<1>6. Cardinality(U) = Cardinality(V) + (IF Head(q) \in S THEN 1 ELSE 0)
  BY <1>2, <1>3, <1>5
<1> QED
  BY <1>4, <1>6 DEF Count, Behind, U, V

=============================================================================
