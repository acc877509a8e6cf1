--------------------------- MODULE FramingProofs ----------------------------
(***************************************************************************)
(* Proofs about Framing.  The core is one fact about the parser: bytes     *)
(* that begin with the encoding of a frame, under any xor, decode to that  *)
(* frame (Decodes), although the xor is only guessed.  With it FramingInv  *)
(* is inductive: what is expected is what each turn of the loop delivers.  *)
(*                                                                         *)
(* Sum and Flat are defined step by step.  Induction over the naturals is  *)
(* taken from the well-foundedness of the subset relation on finite sets.  *)
(***************************************************************************)
EXTENDS Framing, FiniteSetTheorems, SequenceTheorems, TLAPS

-----------------------------------------------------------------------------
(* Induction over the naturals. *)

\* Induction over a set of naturals: intervals from 0 shrink to a smallest one.
LEMMA SetInduction ==
  ASSUME NEW S \in SUBSET Nat, 0 \in S, \A n \in S : n + 1 \in S
  PROVE  S = Nat
<1> DEFINE R == StrictSubsetOrdering(Nat)
           T == {0..n : n \in Nat \ S}
<1> SUFFICES ASSUME Nat \ S # {} PROVE FALSE
  OBVIOUS
<1>1. \A n \in Nat : 0..n \in FiniteSubsetsOf(Nat)
  BY FS_Interval DEF FiniteSubsetsOf
<1>2. T \subseteq FiniteSubsetsOf(Nat) /\ T # {}
  BY <1>1
<1>3. \E X \in T : \A Y \in T : ~ (<<Y, X>> \in R)
  <2> HIDE DEF T
  <2> QED BY <1>2, FS_StrictSubsetOrderingWellFounded, WFMin
<1>4. PICK x \in Nat \ S : \A y \in Nat \ S : ~ (<<0..y, 0..x>> \in R)
  BY <1>3
<1>5. x - 1 \in Nat \ S
  BY SMT
<1>6. 0..(x - 1) \in SUBSET Nat /\ 0..x \in SUBSET Nat /\ 0..(x - 1) \subseteq 0..x
      /\ x \in 0..x /\ x \notin 0..(x - 1)
  BY <1>5
<1>7. <<0..(x - 1), 0..x>> \in R
  <2> DEFINE A == 0..(x - 1)
             B == 0..x
  <2>1. A \in SUBSET Nat /\ B \in SUBSET Nat /\ A \subseteq B /\ A # B
    BY <1>6
  <2> HIDE DEF A, B
  <2>2. <<A, B>> \in R
    BY <2>1 DEF StrictSubsetOrdering
  <2> QED BY <2>2 DEF A, B
<1> QED BY <1>4, <1>5, <1>7

\* A function that is defined step by step on 0..n.
LEMMA StepwiseFunction ==
  ASSUME NEW A
  PROVE  \A a \in A : \A n \in Nat : \A g \in [1..n -> [A -> A]] :
           \E f \in [0..n -> A] : f[0] = a /\ \A i \in 1..n : f[i] = g[i][f[i - 1]]
<1> SUFFICES ASSUME NEW a \in A, NEW n \in Nat, NEW g \in [1..n -> [A -> A]]
             PROVE  \E f \in [0..n -> A] : f[0] = a /\ \A i \in 1..n : f[i] = g[i][f[i - 1]]
  OBVIOUS
<1> DEFINE Good(f, k) == f[0] = a /\ \A i \in 1..k : f[i] = g[i][f[i - 1]]
           S == {k \in Nat : k <= n => \E f \in [0..k -> A] : Good(f, k)}
<1>1. 0 \in S
  <2>1. [i \in 0..0 |-> a] \in [0..0 -> A] /\ Good([i \in 0..0 |-> a], 0)
    OBVIOUS
  <2> QED BY <2>1
<1>2. ASSUME NEW k \in S PROVE k + 1 \in S
  <2> SUFFICES ASSUME k + 1 <= n PROVE \E f \in [0..(k + 1) -> A] : Good(f, k + 1)
    OBVIOUS
  <2>1. PICK f \in [0..k -> A] : Good(f, k)
    OBVIOUS
  <2> DEFINE h == [i \in 0..(k + 1) |-> IF i = k + 1 THEN g[k + 1][f[k]] ELSE f[i]]
  <2>2. g[k + 1][f[k]] \in A
    BY <2>1
  <2>3. h \in [0..(k + 1) -> A]
    BY <2>1, <2>2
  <2>4. h[0] = a
    BY <2>1
  <2>5. ASSUME NEW i \in 1..(k + 1) PROVE h[i] = g[i][h[i - 1]]
    BY <2>1
  <2> QED BY <2>3, <2>4, <2>5
<1>3. S = Nat
  <2>1. S \in SUBSET Nat
    OBVIOUS
  <2> HIDE DEF S
  <2> QED BY <1>1, <1>2, <2>1, SetInduction
<1>4. n \in S
  BY <1>3
<1> QED BY <1>4

\* A set of naturals has a smallest element, and one with a bound a greatest.
LEMMA SmallestElement ==
  ASSUME NEW S \in SUBSET Nat, S # {}
  PROVE  \E o \in S : \A p \in S : o <= p
<1> DEFINE T == {n \in Nat : \A m \in 0..n : m \notin S}
<1> SUFFICES ASSUME \A o \in S : \E p \in S : p < o PROVE FALSE
  OBVIOUS
<1>1. T \in SUBSET Nat /\ 0 \in T
  <2>1. ASSUME 0 \in S PROVE FALSE
    <3>1. PICK p \in S : p < 0
      BY <2>1
    <3> QED BY <3>1
  <2> QED BY <2>1
<1>2. ASSUME NEW n \in T PROVE n + 1 \in T
  <2>1. ASSUME n + 1 \in S PROVE FALSE
    <3>1. PICK p \in S : p < n + 1
      BY <2>1
    <3>2. p \in 0..n
      BY <3>1
    <3> QED BY <3>2
  <2>2. \A m \in 0..(n + 1) : m = n + 1 \/ m \in 0..n
    OBVIOUS
  <2> QED BY <2>1, <2>2
<1>3. T = Nat
  <2> HIDE DEF T
  <2> QED BY <1>1, <1>2, SetInduction
<1>4. PICK o \in S : TRUE
  OBVIOUS
<1>5. o \in Nat /\ o \in T
  BY <1>3
<1> QED BY <1>5

LEMMA GreatestElement ==
  ASSUME NEW n \in Nat, NEW S \in SUBSET (0..n), S # {}
  PROVE  \E o \in S : \A p \in S : p <= o
<1> DEFINE T == {n - i : i \in S}
<1>1. T \in SUBSET Nat /\ T # {}
  <2>1. PICK k \in S : TRUE
    OBVIOUS
  <2>2. n - k \in T
    OBVIOUS
  <2>3. \A i \in S : n - i \in Nat
    OBVIOUS
  <2> QED BY <2>2, <2>3
<1>2. PICK o \in T : \A p \in T : o <= p
  <2> HIDE DEF T
  <2> QED BY <1>1, SmallestElement
<1>3. PICK i \in S : o = n - i
  OBVIOUS
<1>4. \A p \in S : p <= i
  BY <1>2, <1>3
<1> QED BY <1>4

-----------------------------------------------------------------------------
(* Exclusive or, bit by bit. *)

Bit(a, w) == (a \div w) % 2
Weights == {1, 2, 4, 8, 16, 32, 64, 128}

\* Eight bits are the digits of one byte.
LEMMA Digits ==
  ASSUME NEW a \in {0, 1}, NEW b \in {0, 1}, NEW c \in {0, 1}, NEW d \in {0, 1},
         NEW e \in {0, 1}, NEW f \in {0, 1}, NEW g \in {0, 1}, NEW h \in {0, 1}
  PROVE  LET s == a + 2 * b + 4 * c + 8 * d + 16 * e + 32 * f + 64 * g + 128 * h
         IN  /\ s \in Byte
             /\ Bit(s, 1) = a /\ Bit(s, 2) = b /\ Bit(s, 4) = c /\ Bit(s, 8) = d
             /\ Bit(s, 16) = e /\ Bit(s, 32) = f /\ Bit(s, 64) = g /\ Bit(s, 128) = h
BY SMTT(30) DEF Byte, Bit

\* A byte is the sum of its bits by weight.
LEMMA Value ==
  ASSUME NEW n \in Byte
  PROVE  /\ \A w \in Weights : Bit(n, w) \in {0, 1}
         /\ n = Bit(n, 1) + 2 * Bit(n, 2) + 4 * Bit(n, 4) + 8 * Bit(n, 8) + 16 * Bit(n, 16)
                + 32 * Bit(n, 32) + 64 * Bit(n, 64) + 128 * Bit(n, 128)
BY SMTT(30) DEF Byte, Bit, Weights
LEMMA SameBits ==
  ASSUME NEW m \in Byte, NEW n \in Byte, \A w \in Weights : Bit(m, w) = Bit(n, w)
  PROVE  m = n
<1>1. /\ Bit(m, 1) = Bit(n, 1) /\ Bit(m, 2) = Bit(n, 2) /\ Bit(m, 4) = Bit(n, 4)
      /\ Bit(m, 8) = Bit(n, 8) /\ Bit(m, 16) = Bit(n, 16) /\ Bit(m, 32) = Bit(n, 32)
      /\ Bit(m, 64) = Bit(n, 64) /\ Bit(m, 128) = Bit(n, 128)
  BY DEF Weights
<1> QED
  BY <1>1, Value

LEMMA XorBits ==
  ASSUME NEW m \in Byte, NEW n \in Byte
  PROVE  /\ Xor(m, n) \in Byte
         /\ \A w \in Weights : Bit(Xor(m, n), w) = IF Bit(m, w) = Bit(n, w) THEN 0 ELSE 1
<1> DEFINE D(w) == IF Bit(m, w) = Bit(n, w) THEN 0 ELSE 1
<1>1. \A w \in Weights : Differ(m, n, w) = w * D(w)
  BY DEF Differ, Bit, Weights
<1>2. Xor(m, n) = D(1) + 2 * D(2) + 4 * D(4) + 8 * D(8) + 16 * D(16) + 32 * D(32)
                    + 64 * D(64) + 128 * D(128)
  BY <1>1 DEF Xor, Weights
<1>3. \A w : D(w) \in {0, 1}
  OBVIOUS
<1> HIDE DEF D
<1>4. Xor(m, n) \in Byte /\ \A w \in Weights : Bit(Xor(m, n), w) = D(w)
  BY <1>2, <1>3, Digits DEF Weights
<1> QED
  BY <1>4 DEF D

\* What the decoding needs of exclusive or: every xor undoes itself, and the
\* xor that turns the third byte into a one is found by flipping its lowest bit.
LEMMA XorLaws ==
  ASSUME NEW m \in Byte, NEW x \in Byte
  PROVE  /\ Xor(m, x) \in Byte
         /\ Xor(Xor(m, x), x) = m
         /\ Xor(m, m) = 0 /\ Xor(m, 0) = m /\ Xor(0, x) = x
         /\ Xor(m, Xor(m, 1)) = 1 /\ Xor(Xor(1, x), 1) = x
         /\ Xor(Xor(m, x), Xor(1, x)) = Xor(m, 1)
<1>1. /\ 0 \in Byte /\ 1 \in Byte
      /\ Xor(m, x) \in Byte /\ Xor(m, m) \in Byte /\ Xor(m, 0) \in Byte
      /\ Xor(0, x) \in Byte /\ Xor(m, 1) \in Byte /\ Xor(1, x) \in Byte
  <2>1. 0 \in Byte /\ 1 \in Byte
    BY DEF Byte
  <2> QED BY <2>1, XorBits
<1>2. /\ Xor(Xor(m, x), x) \in Byte /\ Xor(m, Xor(m, 1)) \in Byte
      /\ Xor(Xor(1, x), 1) \in Byte /\ Xor(Xor(m, x), Xor(1, x)) \in Byte
  BY <1>1, XorBits
<1>3. \A w \in Weights : /\ Bit(m, w) \in {0, 1} /\ Bit(x, w) \in {0, 1}
                         /\ Bit(0, w) = 0 /\ Bit(1, w) \in {0, 1} /\ Bit(1, w) = IF w = 1 THEN 1 ELSE 0
  BY <1>1, Value DEF Bit, Weights
<1>4. \A w \in Weights : /\ Bit(Xor(m, x), w) = (IF Bit(m, w) = Bit(x, w) THEN 0 ELSE 1)
                         /\ Bit(Xor(m, m), w) = 0
                         /\ Bit(Xor(m, 0), w) = (IF Bit(m, w) = Bit(0, w) THEN 0 ELSE 1)
                         /\ Bit(Xor(0, x), w) = (IF Bit(0, w) = Bit(x, w) THEN 0 ELSE 1)
                         /\ Bit(Xor(m, 1), w) = (IF Bit(m, w) = Bit(1, w) THEN 0 ELSE 1)
                         /\ Bit(Xor(1, x), w) = (IF Bit(1, w) = Bit(x, w) THEN 0 ELSE 1)
  BY <1>1, XorBits
<1>5. \A w \in Weights :
        /\ Bit(Xor(Xor(m, x), x), w) = (IF Bit(Xor(m, x), w) = Bit(x, w) THEN 0 ELSE 1)
        /\ Bit(Xor(m, Xor(m, 1)), w) = (IF Bit(m, w) = Bit(Xor(m, 1), w) THEN 0 ELSE 1)
        /\ Bit(Xor(Xor(1, x), 1), w) = (IF Bit(Xor(1, x), w) = Bit(1, w) THEN 0 ELSE 1)
        /\ Bit(Xor(Xor(m, x), Xor(1, x)), w)
             = (IF Bit(Xor(m, x), w) = Bit(Xor(1, x), w) THEN 0 ELSE 1)
  BY <1>1, XorBits
<1>6. \A w \in Weights :
        /\ Bit(Xor(Xor(m, x), x), w) = Bit(m, w)
        /\ Bit(Xor(m, m), w) = Bit(0, w) /\ Bit(Xor(m, 0), w) = Bit(m, w)
        /\ Bit(Xor(0, x), w) = Bit(x, w)
        /\ Bit(Xor(m, Xor(m, 1)), w) = Bit(1, w) /\ Bit(Xor(Xor(1, x), 1), w) = Bit(x, w)
        /\ Bit(Xor(Xor(m, x), Xor(1, x)), w) = Bit(Xor(m, 1), w)
  BY ONLY <1>3, <1>4, <1>5
<1> QED
  BY <1>1, <1>2, <1>6, SameBits

\* The lowest bit is the one that makes a number odd.
LEMMA XorOdd ==
  ASSUME NEW m \in Byte, m % 2 = 0
  PROVE  Xor(m, 1) = m + 1
<1>1. /\ Differ(m, 1, 1) = 1 
      /\ \A w \in Weights \ {1} : Bit(1, w) = 0 /\ Differ(m, 1, w) = w * Bit(m, w)
  BY DEF Weights, Differ, Bit, Byte
<1>2. Bit(m, 1) = 0
  BY DEF Bit, Byte
<1> QED
  BY <1>1, <1>2, Value DEF Xor, Weights, Byte

-----------------------------------------------------------------------------
(* Checksums. *)

LEMMA SumByte ==
  ASSUME NEW x \in Byte, NEW y \in Byte
  PROVE  (x + y) % 256 \in Byte
BY DEF Byte

LEMMA StepwiseByte ==
  \A a \in Byte : \A n \in Nat : \A g \in [1..n -> [Byte -> Byte]] :
    \E f \in [0..n -> Byte] : f[0] = a /\ \A i \in 1..n : f[i] = g[i][f[i - 1]]
BY StepwiseFunction

\* Sum is the last value of the running sum.
LEMMA SumSteps ==
  ASSUME NEW m \in Seq(Byte), NEW n \in 0..Len(m)
  PROVE  \E s \in [0..n -> Byte] :
           /\ s[0] = 0 /\ \A i \in 1..n : s[i] = (s[i - 1] + m[i]) % 256
           /\ Sum(m, n) = s[n]
<1> DEFINE G == [i \in 1..n |-> [y \in Byte |-> (y + m[i]) % 256]]
           Def(s) == [i \in 0..n |-> IF i = 0 THEN 0 ELSE (s[i - 1] + m[i]) % 256]
<1>1. \A i \in 1..n : \A y \in Byte : (y + m[i]) % 256 \in Byte
  <2>1. \A i \in 1..n : m[i] \in Byte
    BY ElementOfSeq
  <2> QED BY <2>1, SumByte
<1>2. G \in [1..n -> [Byte -> Byte]] /\ 0 \in Byte
  <2>1. 0 \in Byte
    BY DEF Byte
  <2>2. ASSUME NEW i \in 1..n PROVE G[i] \in [Byte -> Byte]
    <3>1. G[i] = [y \in Byte |-> (y + m[i]) % 256]
      OBVIOUS
    <3>2. \A y \in Byte : (y + m[i]) % 256 \in Byte
      BY <1>1
    <3> HIDE DEF G
    <3> QED BY <3>1, <3>2
  <2>3. G \in [1..n -> [Byte -> Byte]]
    BY <2>2
  <2> HIDE DEF G
  <2> QED BY <2>1, <2>3
<1>3. PICK f \in [0..n -> Byte] : f[0] = 0 /\ \A i \in 1..n : f[i] = G[i][f[i - 1]]
  <2>1. n \in Nat
    OBVIOUS
  <2> HIDE DEF G
  <2>2. 0 \in Byte
    BY <1>2
  <2> QED BY ONLY <1>2, <2>1, <2>2, StepwiseByte
<1>4. \A i \in 1..n : f[i] = (f[i - 1] + m[i]) % 256
  BY <1>3
<1>5. f = Def(f)
  BY <1>3, <1>4
<1> DEFINE s == CHOOSE t : t = Def(t)
<1>6. s = Def(s)
  <2> HIDE DEF Def
  <2> QED BY <1>5
<1>7. Sum(m, n) = s[n]
  BY DEF Sum
<1> HIDE DEF s
<1>8. s[0] = 0 /\ \A i \in 1..n : s[i] = (s[i - 1] + m[i]) % 256
  BY <1>6
<1> DEFINE S == {k \in Nat : k <= n => s[k] \in Byte}
<1>9. S = Nat
  <2>1. S \in SUBSET Nat /\ 0 \in S
    BY <1>2, <1>8
  <2>2. ASSUME NEW k \in S PROVE k + 1 \in S
    <3> SUFFICES ASSUME k + 1 <= n PROVE s[k + 1] \in Byte
      OBVIOUS
    <3>1. k + 1 \in 1..n /\ (k + 1) - 1 = k /\ s[k] \in Byte
      OBVIOUS
    <3>2. s[k + 1] = (s[k] + m[k + 1]) % 256
      BY <1>8, <3>1
    <3>3. (s[k] + m[k + 1]) % 256 \in Byte
      <4> DEFINE j == k + 1
      <4>1. j \in 1..n /\ s[k] \in Byte
        BY <3>1
      <4> HIDE DEF j
      <4>2. (s[k] + m[j]) % 256 \in Byte
        BY <1>1, <4>1
      <4> QED BY <4>2 DEF j
    <3> QED BY <3>2, <3>3
  <2> HIDE DEF S
  <2> QED BY <2>1, <2>2, SetInduction
<1>10. s \in [0..n -> Byte]
  <2>1. \A k \in 0..n : s[k] \in Byte
    BY <1>9
  <2>2. s = [i \in 0..n |-> s[i]]
    BY <1>6
  <2> QED BY <2>1, <2>2
<1> QED BY <1>7, <1>8, <1>10

LEMMA SumType ==
  ASSUME NEW m \in Seq(Byte), NEW n \in 0..Len(m)
  PROVE  Sum(m, n) \in Byte
BY SumSteps

\* The sum of the first bytes depends on no others.
LEMMA SumPrefix ==
  ASSUME NEW m \in Seq(Byte), NEW p \in Seq(Byte), NEW n \in 0..Len(m), n <= Len(p),
         \A i \in 1..n : m[i] = p[i]
  PROVE  Sum(m, n) = Sum(p, n)
<1>1. PICK s \in [0..n -> Byte] :
        /\ s[0] = 0 /\ \A i \in 1..n : s[i] = (s[i - 1] + m[i]) % 256
        /\ Sum(m, n) = s[n]
  BY SumSteps
<1>2. n \in 0..Len(p)
  OBVIOUS
<1>3. PICK t \in [0..n -> Byte] :
        /\ t[0] = 0 /\ \A i \in 1..n : t[i] = (t[i - 1] + p[i]) % 256
        /\ Sum(p, n) = t[n]
  BY <1>2, SumSteps
<1> DEFINE S == {k \in Nat : k <= n => s[k] = t[k]}
<1>4. S = Nat
  <2>1. S \in SUBSET Nat /\ 0 \in S
    BY <1>1, <1>3
  <2>2. ASSUME NEW k \in S PROVE k + 1 \in S
    <3> SUFFICES ASSUME k + 1 <= n PROVE s[k + 1] = t[k + 1]
      OBVIOUS
    <3>1. k + 1 \in 1..n /\ (k + 1) - 1 = k
      OBVIOUS
    <3>2. s[k + 1] = (s[k] + m[k + 1]) % 256 /\ t[k + 1] = (t[k] + p[k + 1]) % 256
      BY <1>1, <1>3, <3>1
    <3> QED BY <3>1, <3>2
  <2> HIDE DEF S
  <2> QED BY <2>1, <2>2, SetInduction
<1>5. n \in S
  BY <1>4
<1> QED BY <1>1, <1>3, <1>5

-----------------------------------------------------------------------------
(* One frame: what is encoded is what is decoded. *)

\* The bytes of a frame before they are xored.
Body(f)  == <<f.type, Len(f.data) + 3, f.ack, f.register>> \o f.data
Plain(f) == Append(Body(f), Sum(Body(f), Len(Body(f))))

LEMMA FrameFields ==
  ASSUME NEW f \in CarFrames
  PROVE  /\ f = [type |-> f.type, ack |-> f.ack, register |-> f.register, data |-> f.data]
         /\ f \in Messages
         /\ f.type \in Byte /\ f.ack \in {0, 1} /\ f.register \in Byte /\ f.data \in Seq(Byte)
         /\ Len(f.data) \in Nat /\ Len(f.data) <= 250
         /\ f.ack = 1 => Len(f.data) % 2 = 1
         /\ f.type \in StartTypes => Len(f.data) >= 8
<1>1. f \in [type : Byte, ack : {0, 1}, register : Byte, data : Seq(Byte)]
  BY FrameAssumption
<1>2. /\ Len(f.data) <= 250
      /\ f.ack = 1 => Len(f.data) % 2 = 1
      /\ f.type \in StartTypes => Len(f.data) >= 8
  BY FrameAssumption
<1>3. f \in Messages
  BY <1>1 DEF Messages
<1>4. f = [type |-> f.type, ack |-> f.ack, register |-> f.register, data |-> f.data]
  BY <1>1
<1>5. /\ f.type \in Byte /\ f.ack \in {0, 1} /\ f.register \in Byte /\ f.data \in Seq(Byte)
      /\ Len(f.data) \in Nat
  BY <1>1
<1> QED
  BY <1>2, <1>3, <1>4, <1>5

LEMMA PlainBytes ==
  ASSUME NEW f \in CarFrames
  PROVE  LET L == Len(f.data)
         IN  /\ Plain(f) \in Seq(Byte) /\ Len(Plain(f)) = L + 5
             /\ Plain(f)[1] = f.type /\ Plain(f)[2] = L + 3
             /\ Plain(f)[3] = f.ack /\ Plain(f)[4] = f.register
             /\ \A i \in 1..L : Plain(f)[i + 4] = f.data[i]
             /\ Plain(f)[L + 5] = Sum(Plain(f), L + 4)
<1> DEFINE d == f.data
           L == Len(d)
           h == <<f.type, L + 3, f.ack, f.register>>
           b == Body(f)
           p == Plain(f)
<1>1. L \in Nat /\ L <= 250 /\ d \in Seq(Byte)
  BY FrameFields
<1> HIDE DEF L
<1>2. f.type \in Byte /\ L + 3 \in Byte /\ f.ack \in Byte /\ f.register \in Byte
  <2>1. f.type \in Byte /\ f.ack \in {0, 1} /\ f.register \in Byte
    BY FrameFields
  <2>2. L + 3 \in Byte /\ 0 \in Byte /\ 1 \in Byte
    BY <1>1 DEF Byte
  <2> QED BY <2>1, <2>2
<1>3. /\ h \in Seq(Byte) /\ Len(h) = 4
      /\ h[1] = f.type /\ h[2] = L + 3 /\ h[3] = f.ack /\ h[4] = f.register
  BY <1>2
<1>4. b = h \o d /\ L = Len(d)
  BY DEF Body, L
<1> HIDE DEF d, h
<1>5. /\ b \in Seq(Byte) /\ Len(b) = L + 4
      /\ \A i \in 1..4 : b[i] = h[i]
      /\ \A i \in 1..L : b[i + 4] = d[i]
  <2>0. /\ h \o d \in Seq(Byte) /\ Len(h \o d) = Len(h) + Len(d)
        /\ \A i \in 1..(Len(h) + Len(d)) :
             (h \o d)[i] = IF i <= Len(h) THEN h[i] ELSE d[i - Len(h)]
    <3>1. h \in Seq(Byte) /\ d \in Seq(Byte)
      BY <1>1, <1>3
    <3> QED BY ONLY <3>1, ConcatProperties
  <2>1. /\ b \in Seq(Byte) /\ Len(b) = Len(h) + L
        /\ \A i \in 1..(Len(h) + L) : b[i] = IF i <= Len(h) THEN h[i] ELSE d[i - Len(h)]
    BY <1>4, <2>0
  <2>2. \A i \in 1..4 : b[i] = h[i]
    BY <1>1, <1>3, <2>1
  <2>3. \A i \in 1..L : b[i + 4] = d[i]
    <3> SUFFICES ASSUME NEW i \in 1..L PROVE b[i + 4] = d[i]
      OBVIOUS
    <3>1. i + 4 \in 1..(Len(h) + L) /\ ~(i + 4 <= Len(h)) /\ (i + 4) - Len(h) = i
      BY <1>1, <1>3
    <3> QED BY <2>1, <3>1
  <2> QED BY <1>1, <1>3, <2>1, <2>2, <2>3
<1> HIDE DEF b
<1>6. Sum(b, L + 4) \in Byte
  BY <1>1, <1>5, SumType
<1>7. p = Append(b, Sum(b, L + 4))
  BY <1>5 DEF Plain, b
<1> HIDE DEF p
<1>8. /\ p \in Seq(Byte) /\ Len(p) = L + 5
      /\ \A i \in 1..(L + 4) : p[i] = b[i]
      /\ p[L + 5] = Sum(b, L + 4)
  <2>1. /\ p \in Seq(Byte) /\ Len(p) = Len(b) + 1
        /\ \A i \in 1..Len(b) : p[i] = b[i] /\ p[Len(b) + 1] = Sum(b, L + 4)
    BY <1>5, <1>6, <1>7, AppendProperties
  <2> QED BY <1>1, <1>5, <2>1
<1>9. Sum(b, L + 4) = Sum(p, L + 4)
  BY <1>1, <1>5, <1>8, SumPrefix
<1>10. p[1] = f.type /\ p[2] = L + 3 /\ p[3] = f.ack /\ p[4] = f.register
  BY <1>1, <1>3, <1>5, <1>8
<1>11. \A i \in 1..L : p[i + 4] = d[i]
  BY <1>1, <1>5, <1>8
<1> QED
  BY <1>8, <1>9, <1>10, <1>11 DEF L, d, p

LEMMA XorMessageBytes ==
  ASSUME NEW m \in Seq(Byte), NEW x \in Byte
  PROVE  /\ XorMessageWith(m, x) \in Seq(Byte)
         /\ Len(XorMessageWith(m, x)) = Len(m)
         /\ \A i \in 1..Len(m) : m[i] \in Byte /\ XorMessageWith(m, x)[i] = Xor(m[i], x)
<1>1. DOMAIN m = 1..Len(m) /\ Len(m) \in Nat /\ \A i \in 1..Len(m) : m[i] \in Byte
  BY LenProperties, ElementOfSeq
<1>2. \A b \in Byte : XorTable[b][x] = Xor(b, x) /\ Xor(b, x) \in Byte
  BY XorLaws DEF XorTable
<1>3. XorMessageWith(m, x) = [i \in 1..Len(m) |-> XorTable[m[i]][x]]
  BY <1>1 DEF XorMessageWith
<1> QED
  BY <1>1, <1>2, <1>3

LEMMA EncodedBytes ==
  ASSUME NEW f \in CarFrames, NEW x \in Byte
  PROVE  /\ EncodeToBytes(f, x) \in Seq(Byte)
         /\ Len(EncodeToBytes(f, x)) = Len(f.data) + 5
         /\ \A i \in 1..(Len(f.data) + 5) : EncodeToBytes(f, x)[i] = Xor(Plain(f)[i], x)
<1>1. EncodeToBytes(f, x) = XorMessageWith(Plain(f), x)
  BY DEF EncodeToBytes, Plain, Body
<1>2. Plain(f) \in Seq(Byte) /\ Len(Plain(f)) = Len(f.data) + 5
  BY PlainBytes
<1> QED
  BY <1>1, <1>2, XorMessageBytes

\* What begins with the plain bytes of a frame passes ValidateChecksum.
LEMMA ChecksumHolds ==
  ASSUME NEW f \in CarFrames, NEW m \in Seq(Byte), Len(m) >= Len(f.data) + 5,
         \A i \in 1..(Len(f.data) + 5) : m[i] = Plain(f)[i]
  PROVE  ValidateChecksum(m)
<1> DEFINE L == Len(f.data)
           p == Plain(f)
<1>1. L \in Nat
  BY FrameFields
<1>2. /\ p \in Seq(Byte) /\ Len(p) = L + 5 /\ p[2] = L + 3
      /\ p[L + 5] = Sum(p, L + 4)
  BY PlainBytes
<1>3. Len(m) \in Nat /\ Len(m) >= L + 5 /\ \A i \in 1..(L + 5) : m[i] = p[i]
  OBVIOUS
<1> HIDE DEF L, p
<1>4. Sum(m, L + 4) = Sum(p, L + 4)
  <2>1. L + 4 \in 0..Len(m) /\ L + 4 <= Len(p) /\ \A i \in 1..(L + 4) : m[i] = p[i]
    BY <1>1, <1>2, <1>3
  <2> QED BY <1>2, <2>1, SumPrefix
<1>5. m[2] = L + 3 /\ m[L + 5] = p[L + 5]
  BY <1>1, <1>2, <1>3
<1>6. m[2] + 2 = L + 5 /\ (m[2] + 2) - 1 = L + 4
  BY <1>1, <1>5
<1> QED
  BY <1>2, <1>3, <1>4, <1>5, <1>6 DEF ValidateChecksum

\* d begins with the encoding of f under x, and ends with it if f has ack set.
Carries(d, f, x) ==
  /\ d \in Seq(Byte) /\ Len(d) >= Len(f.data) + 5
  /\ \A i \in 1..(Len(f.data) + 5) : d[i] = Xor(Plain(f)[i], x)
  /\ f.ack = 0 \/ Len(d) = Len(f.data) + 5

\* With its own xor the frame has a valid sum, and decodes to its plain bytes.
LEMMA RightGuess ==
  ASSUME NEW f \in CarFrames, NEW x \in Byte, NEW d, Carries(d, f, x)
  PROVE  /\ ValidateChecksum(XorMessageWith(d, x))
         /\ SubSeq(XorMessageWith(d, x), 1, Len(f.data) + 5) = Plain(f)
         /\ XorMessageWith(d, x)[2] + 2 = Len(f.data) + 5
<1> DEFINE L == Len(f.data)
           p == Plain(f)
           m == XorMessageWith(d, x)
<1>1. L \in Nat /\ p \in Seq(Byte) /\ Len(p) = L + 5 /\ p[2] = L + 3
  BY FrameFields, PlainBytes
<1>2. /\ d \in Seq(Byte) /\ Len(d) \in Nat /\ Len(d) >= L + 5
      /\ \A i \in 1..(L + 5) : d[i] = Xor(p[i], x)
  BY DEF Carries
<1>3. /\ m \in Seq(Byte) /\ Len(m) = Len(d)
      /\ \A i \in 1..Len(d) : m[i] = Xor(d[i], x)
  BY <1>2, XorMessageBytes
<1> HIDE DEF L, p, m
<1>4. ASSUME NEW i \in 1..(L + 5) PROVE m[i] = p[i]
  <2>1. p[i] \in Byte /\ i \in 1..Len(d)
    BY <1>1, <1>2, ElementOfSeq
  <2> QED BY <1>2, <1>3, <2>1, XorLaws
<1>5. ValidateChecksum(m)
  BY <1>1, <1>2, <1>3, <1>4, ChecksumHolds DEF L, p
<1>6. SubSeq(m, 1, L + 5) = p
  <2>1. \A i \in 1..(L + 5) : m[i] \in Byte
    BY <1>1, <1>4, ElementOfSeq
  <2>2. /\ SubSeq(m, 1, L + 5) \in Seq(Byte) /\ Len(SubSeq(m, 1, L + 5)) = L + 5
        /\ \A i \in 1..(L + 5) : SubSeq(m, 1, L + 5)[i] = m[i]
    BY <1>1, <2>1, SubSeqProperties
  <2> QED BY <1>1, <1>4, <2>2, SeqEqual
<1>7. m[2] + 2 = L + 5
  BY <1>1, <1>4
<1> QED BY <1>5, <1>6, <1>7 DEF L, p, m

\* The other guess reads a length that is one too long, as the length of an
\* acknowledgement is even.
LEMMA WrongGuess ==
  ASSUME NEW f \in CarFrames, NEW x \in Byte, NEW d, Carries(d, f, x), f.ack = 1
  PROVE  ~ ValidateChecksum(XorMessageWith(d, Xor(1, x)))
<1> DEFINE L == Len(f.data)
           p == Plain(f)
           y == Xor(1, x)
           m == XorMessageWith(d, y)
<1>1. L \in Nat /\ L <= 250 /\ L % 2 = 1 /\ p[2] = L + 3
  BY FrameFields, PlainBytes
<1>2. /\ d \in Seq(Byte) /\ Len(d) = L + 5 /\ \A i \in 1..(L + 5) : d[i] = Xor(p[i], x)
  BY DEF Carries
<1> HIDE DEF L
<1>3. 1 \in Byte /\ L + 3 \in Byte
  BY <1>1 DEF Byte
<1>4. y \in Byte
  BY <1>3, XorLaws
<1>5. /\ Len(m) = L + 5 /\ \A i \in 1..(L + 5) : m[i] = Xor(d[i], y)
  BY <1>2, <1>4, XorMessageBytes
<1>6. m[2] = Xor(Xor(L + 3, x), y)
  BY <1>1, <1>2, <1>5
<1>7. m[2] = Xor(L + 3, 1)
  BY <1>3, <1>6, XorLaws
<1>8. m[2] = L + 4
  <2>1. (L + 3) % 2 = 0
    BY <1>1
  <2>2. Xor(L + 3, 1) = (L + 3) + 1
    BY <1>3, <2>1, XorOdd
  <2> QED BY <1>1, <1>7, <2>2
<1> HIDE DEF m
<1>9. ~ (Len(m) >= m[2] + 2)
  BY <1>1, <1>5, <1>8
<1> QED BY <1>9 DEF ValidateChecksum, m

\* The parser is sound: bytes that begin with the encoding of a frame decode to
\* that frame, whatever follows, unless it has ack set and is followed at all.
LEMMA Decodes ==
  ASSUME NEW f \in CarFrames, NEW x \in Byte, NEW d, Carries(d, f, x)
  PROVE  x \in Xors(d) /\ XorOf(d) = x /\ Decoded(d) = Plain(f)
<1> DEFINE L == Len(f.data)
<1>1. L \in Nat /\ f.ack \in {0, 1} /\ Plain(f)[3] = f.ack
  BY FrameFields, PlainBytes
<1>2. d[3] = Xor(f.ack, x) /\ Len(d) \in Nat /\ Len(d) >= 4
  BY <1>1 DEF Carries
<1>3. 0 \in Byte /\ 1 \in Byte
  BY DEF Byte
<1>4. XorTable[Xor(1, x)][1] = x /\ Xor(0, x) = x
  BY <1>3, XorLaws DEF XorTable
<1>5. ValidateChecksum(XorMessageWith(d, x))
  BY RightGuess
<1>6. x \in Xors(d) /\ XorOf(d) = x
  <2>1. CASE f.ack = 0
    BY <1>2, <1>4, <1>5, <2>1 DEF Xors, XorOf
  <2>2. CASE f.ack = 1
    <3>1. ~ ValidateChecksum(XorMessageWith(d, d[3]))
      BY <1>2, <2>2, WrongGuess
    <3>2. XorTable[d[3]][1] = x
      BY <1>2, <1>4, <2>2
    <3> QED BY <1>2, <1>5, <3>1, <3>2 DEF Xors, XorOf
  <2> QED BY <1>1, <2>1, <2>2
<1>7. Decoded(d) = SubSeq(XorMessageWith(d, x), 1, XorMessageWith(d, x)[2] + 2)
  BY <1>6 DEF Decoded
<1> QED BY <1>6, <1>7, RightGuess

LEMMA MessageOfPlain ==
  ASSUME NEW f \in CarFrames
  PROVE  Message(Plain(f)) = f
<1> DEFINE d == f.data
           L == Len(d)
           p == Plain(f)
<1>1. L \in Nat /\ d \in Seq(Byte)
  BY FrameFields
<1>2. /\ p \in Seq(Byte) /\ Len(p) = L + 5
      /\ p[1] = f.type /\ p[3] = f.ack /\ p[4] = f.register
      /\ \A i \in 1..L : p[i + 4] = d[i]
  BY PlainBytes
<1> HIDE DEF L, p
<1>3. L = Len(d)
  BY DEF L
<1> HIDE DEF d
<1>4. SubSeq(p, 5, Len(p) - 1) = d
  <2>1. Len(p) - 1 = L + 4
    BY <1>1, <1>2
  <2>2. \A i \in 5..(L + 4) : p[i] \in Byte
    BY <1>1, <1>2, ElementOfSeq
  <2>3. /\ SubSeq(p, 5, L + 4) \in Seq(Byte) /\ Len(SubSeq(p, 5, L + 4)) = L
        /\ \A i \in 1..L : SubSeq(p, 5, L + 4)[i] = p[i + 4]
    BY <1>1, <2>2, SubSeqProperties
  <2> QED BY <1>1, <1>2, <1>3, <2>1, <2>3, SeqEqual
<1>5. Message(p) = [type |-> f.type, ack |-> f.ack, register |-> f.register, data |-> d]
  BY <1>2, <1>4 DEF Message
<1> QED BY <1>5, FrameFields DEF d, p

\* The bytes of the frame alone, as NewFromBytes passes them on.
LEMMA CarriesAlone ==
  ASSUME NEW f \in CarFrames, NEW x \in Byte, NEW d, Carries(d, f, x)
  PROVE  LET raw == SubSeq(d, 1, Len(f.data) + 5)
         IN  Carries(raw, f, x) /\ Len(raw) = Len(f.data) + 5
<1> DEFINE L == Len(f.data)
           raw == SubSeq(d, 1, L + 5)
<1>1. L \in Nat /\ d \in Seq(Byte) /\ Len(d) \in Nat /\ Len(d) >= L + 5
  BY FrameFields DEF Carries
<1>2. \A i \in 1..(L + 5) : d[i] = Xor(Plain(f)[i], x)
  BY DEF Carries
<1> HIDE DEF L
<1>3. \A i \in 1..(L + 5) : d[i] \in Byte
  BY <1>1, ElementOfSeq
<1>4. raw \in Seq(Byte) /\ Len(raw) = L + 5 /\ \A i \in 1..(L + 5) : raw[i] = d[i]
  BY <1>1, <1>3, SubSeqProperties
<1> QED BY <1>1, <1>2, <1>4 DEF Carries, L

\* A start request sets the key to the one it carries.
LEMMA KeyOfStart ==
  ASSUME NEW f \in CarFrames, NEW d, Carries(d, f, 0), f.type \in StartTypes
  PROVE  Update(SubSeq(d, 1, Len(f.data) + 5)) = KeyOf(f)
<1> DEFINE e == f.data
           L == Len(e)
           p == Plain(f)
           raw == SubSeq(d, 1, L + 5)
<1>1. L \in Nat /\ L >= 8 /\ e \in Seq(Byte)
  BY FrameFields
<1>2. p \in Seq(Byte) /\ Len(p) = L + 5 /\ \A i \in 1..L : p[i + 4] = e[i]
  BY PlainBytes
<1>3. 0 \in Byte
  BY DEF Byte
<1>4. /\ raw \in Seq(Byte) /\ Len(raw) = L + 5
      /\ \A i \in 1..(L + 5) : raw[i] = Xor(p[i], 0)
  BY <1>3, CarriesAlone DEF Carries
<1>5. KeyOf(f) = SubSeq(e, 1, 8)
  BY DEF KeyOf
<1> HIDE DEF L, p, raw
<1>6. L = Len(e)
  BY DEF L
<1> HIDE DEF e
<1>7. ASSUME NEW i \in 1..8 PROVE raw[i + 4] = e[i] /\ e[i] \in Byte
  <2>1. i \in 1..L /\ i + 4 \in 1..(L + 5)
    BY <1>1
  <2>2. p[i + 4] \in Byte
    BY <1>2, <2>1, ElementOfSeq
  <2>3. Xor(p[i + 4], 0) = p[i + 4]
    BY <1>3, <2>2, XorLaws
  <2> QED BY <1>2, <1>4, <2>1, <2>2, <2>3
<1>8. \A i \in 5..12 : raw[i] \in Byte
  <2>1. \A i \in 5..12 : i \in 1..Len(raw)
    BY <1>1, <1>4
  <2> QED BY <1>4, <2>1, ElementOfSeq
<1>9. /\ SubSeq(raw, 5, 12) \in Seq(Byte) /\ Len(SubSeq(raw, 5, 12)) = 8
      /\ \A i \in 1..8 : SubSeq(raw, 5, 12)[i] = raw[i + 4]
  BY <1>8, SubSeqProperties
<1>10. /\ SubSeq(e, 1, 8) \in Seq(Byte) /\ Len(SubSeq(e, 1, 8)) = 8
       /\ \A i \in 1..8 : SubSeq(e, 1, 8)[i] = e[i]
  BY <1>7, SubSeqProperties
<1>11. SubSeq(raw, 5, 12) = SubSeq(e, 1, 8)
  BY <1>7, <1>9, <1>10, SeqEqual
<1>12. Update(raw) = SubSeq(raw, 5, 12)
  BY <1>1, <1>4 DEF Update
<1> QED BY <1>5, <1>11, <1>12 DEF raw, L, e

\* What NewFromBytes does when the data begin with a frame.
LEMMA FirstFrame ==
  ASSUME NEW f \in CarFrames, NEW x \in Byte, f.type \in StartTypes => x = 0,
         Carries(data, f, x)
  PROVE  LET L == Len(f.data) + 5
         IN  /\ Found(data) # {} /\ First = 0 /\ From(data, First) = data
             /\ Len(Frame) = L /\ Len(Frame) >= 5 /\ Len(Frame) \notin {4, 257}
             /\ Message(Frame) = f
             /\ KeyAfter(SubSeq(data, 1, L), First, live)
                  = IF f.type \in StartTypes THEN KeyOf(f) ELSE live
<1>1. data \in Seq(Byte) /\ Len(f.data) \in Nat /\ Len(f.data) <= 250
  BY FrameFields DEF Carries
<1>2. From(data, 0) = data
  BY <1>1, SubSeqFull DEF From
<1>3. 0 \in Found(data) /\ Found(data) \subseteq Nat
  <2>1. Xors(From(data, 0)) # {}
    BY <1>2, Decodes
  <2>2. 0 \in Offsets(data) /\ Offsets(data) \subseteq Nat
    BY DEF Offsets
  <2> QED BY <2>1, <2>2 DEF Found
<1>4. First = 0
  <2>1. \A o \in Found(data) : (\A p \in Found(data) : o <= p) <=> o = 0
    BY <1>3
  <2> QED BY <1>3, <2>1 DEF First
<1>5. Frame = Plain(f)
  BY <1>2, <1>4, Decodes DEF Frame
<1>6. Len(Frame) = Len(f.data) + 5
  BY <1>5, PlainBytes
<1>7. Message(Frame) = f
  BY <1>5, MessageOfPlain
<1>8. Decoded(SubSeq(data, 1, Len(f.data) + 5))[1] = f.type
  BY CarriesAlone, Decodes, PlainBytes
<1>9. KeyAfter(SubSeq(data, 1, Len(f.data) + 5), First, live)
        = IF f.type \in StartTypes THEN KeyOf(f) ELSE live
  BY <1>4, <1>8, KeyOfStart DEF KeyAfter
<1> QED BY <1>1, <1>2, <1>3, <1>4, <1>6, <1>7, <1>9

-----------------------------------------------------------------------------
(* Any bytes: the types of what is decoded. *)

LEMMA DecodedType ==
  ASSUME NEW d \in Seq(Byte), Xors(d) # {}
  PROVE  /\ Decoded(d) \in Seq(Byte) /\ Len(Decoded(d)) \in 2..Len(d)
         /\ Len(Decoded(d)) >= 3 => Decoded(d)[3] \in {0, 1}
<1> DEFINE x == XorOf(d)
           m == XorMessageWith(d, x)
           n == m[2] + 2
<1>1. Len(d) \in Nat /\ Len(d) >= 4
  BY DEF Xors
<1>2. d[3] \in Byte /\ 1 \in Byte
  <2>1. 3 \in 1..Len(d)
    BY <1>1
  <2> QED BY <2>1, ElementOfSeq DEF Byte
<1>3. XorTable[d[3]][1] = Xor(d[3], 1) /\ Xor(d[3], 1) \in Byte
  BY <1>2, XorLaws DEF XorTable
<1>4. x \in Xors(d) /\ x \in {d[3], Xor(d[3], 1)}
  BY <1>1, <1>3 DEF Xors, XorOf
<1>5. x \in Byte /\ Xor(d[3], x) \in {0, 1}
  BY <1>2, <1>3, <1>4, XorLaws
<1>6. ValidateChecksum(m)
  BY <1>4 DEF Xors
<1> HIDE DEF x
<1>7. m \in Seq(Byte) /\ Len(m) = Len(d) /\ m[3] \in {0, 1}
  <2>1. 3 \in 1..Len(d)
    BY <1>1
  <2> QED BY <1>5, <2>1, XorMessageBytes
<1> HIDE DEF m
<1>8. m[2] \in Byte
  <2>1. 2 \in 1..Len(m)
    BY <1>1, <1>7
  <2> QED BY <1>7, <2>1, ElementOfSeq
<1>9. n \in 2..Len(d)
  <2>1. Len(m) >= m[2] + 2
    BY <1>6 DEF ValidateChecksum
  <2>2. m[2] \in Nat
    <3>1. \A b \in Byte : b \in Nat
      BY DEF Byte
    <3> QED BY <1>8, <3>1
  <2>3. n \in Nat /\ n >= 2 /\ n <= Len(m)
    BY <1>1, <1>7, <2>1, <2>2
  <2> HIDE DEF n
  <2> QED BY <1>1, <1>7, <2>3
<1> HIDE DEF n
<1>10. \A i \in 1..n : m[i] \in Byte
  <2>1. \A i \in 1..n : i \in 1..Len(m)
    BY <1>1, <1>7, <1>9
  <2> QED BY <1>7, <2>1, ElementOfSeq
<1>11. /\ SubSeq(m, 1, n) \in Seq(Byte) /\ Len(SubSeq(m, 1, n)) = n
       /\ \A i \in 1..n : SubSeq(m, 1, n)[i] = m[i]
  BY <1>9, <1>10, SubSeqProperties
<1>12. Decoded(d) = SubSeq(m, 1, n)
  BY DEF Decoded, x, m, n
<1>13. n >= 3 => SubSeq(m, 1, n)[3] \in {0, 1}
  BY <1>7, <1>9, <1>11
<1> QED BY <1>9, <1>11, <1>12, <1>13

LEMMA FromType ==
  ASSUME NEW d \in Seq(Byte), NEW o \in Nat
  PROVE  /\ From(d, o) \in Seq(Byte)
         /\ Len(From(d, o)) = IF o <= Len(d) THEN Len(d) - o ELSE 0
         /\ \A i \in 1..(Len(d) - o) : From(d, o)[i] = d[o + i]
<1>1. Len(d) \in Nat
  OBVIOUS
<1>2. \A i \in (o + 1)..Len(d) : d[i] \in Byte
  BY ElementOfSeq
<1>3. /\ SubSeq(d, o + 1, Len(d)) \in Seq(Byte)
      /\ Len(SubSeq(d, o + 1, Len(d))) = IF o + 1 <= Len(d) THEN Len(d) - (o + 1) + 1 ELSE 0
      /\ \A i \in 1..(Len(d) - (o + 1) + 1) : SubSeq(d, o + 1, Len(d))[i] = d[(o + 1) + i - 1]
  BY <1>1, <1>2, SubSeqProperties
<1>4. From(d, o) = SubSeq(d, o + 1, Len(d))
  BY DEF From
<1>5. ASSUME NEW i \in 1..(Len(d) - o) PROVE From(d, o)[i] = d[o + i]
  <2>1. i \in 1..(Len(d) - (o + 1) + 1) /\ (o + 1) + i - 1 = o + i
    BY <1>1
  <2> QED BY <1>3, <1>4, <2>1
<1> QED BY <1>1, <1>3, <1>4, <1>5

\* Where a frame is found, at least two bytes are decoded, and not more than there are.
LEMMA FoundFrame ==
  ASSUME data \in Seq(Byte), Found(data) # {}
  PROVE  /\ First \in Nat /\ Frame \in Seq(Byte)
         /\ From(data, First) \in Seq(Byte)
         /\ Len(Frame) \in 2..Len(From(data, First))
         /\ Len(Frame) >= 3 => Frame[3] \in {0, 1}
<1>1. Found(data) \subseteq Nat
  BY DEF Found, Offsets
<1>2. \E o \in Found(data) : \A p \in Found(data) : o <= p
  BY <1>1, SmallestElement
<1>3. First \in Found(data)
  BY <1>2 DEF First
<1>4. First \in Nat /\ Xors(From(data, First)) # {}
  BY <1>1, <1>3 DEF Found
<1>5. From(data, First) \in Seq(Byte)
  BY <1>4, FromType
<1> QED BY <1>4, <1>5, DecodedType DEF Frame

LEMMA MessageType ==
  ASSUME NEW m \in Seq(Byte), Len(m) >= 5, m[3] \in {0, 1}
  PROVE  Message(m) \in Messages
<1>1. Len(m) \in Nat
  OBVIOUS
<1>2. m[1] \in Byte /\ m[4] \in Byte
  <2>1. 1 \in 1..Len(m) /\ 4 \in 1..Len(m)
    BY <1>1
  <2> QED BY <2>1, ElementOfSeq
<1>3. SubSeq(m, 5, Len(m) - 1) \in Seq(Byte)
  <2>1. \A i \in 5..(Len(m) - 1) : m[i] \in Byte
    BY <1>1, ElementOfSeq
  <2> QED BY <1>1, <2>1, SubSeqProperties
<1> QED BY <1>2, <1>3 DEF Message, Messages

LEMMA KeyAfterType ==
  ASSUME NEW raw \in Seq(Byte), NEW o, NEW key \in Seq(Byte), Len(key) \in {0, 8}
  PROVE  KeyAfter(raw, o, key) \in Seq(Byte) /\ Len(KeyAfter(raw, o, key)) \in {0, 8}
<1>1. Update(raw) \in Seq(Byte) /\ Len(Update(raw)) \in {0, 8}
  <2>1. CASE Len(raw) < 12
    BY <2>1 DEF Update
  <2>2. CASE ~(Len(raw) < 12)
    <3>1. Len(raw) \in Nat
      OBVIOUS
    <3>2. \A i \in 5..12 : raw[i] \in Byte
      <4>1. \A i \in 5..12 : i \in 1..Len(raw)
        BY <2>2, <3>1
      <4> QED BY <4>1, ElementOfSeq
    <3>3. SubSeq(raw, 5, 12) \in Seq(Byte) /\ Len(SubSeq(raw, 5, 12)) = 8
      BY <3>2, SubSeqProperties
    <3>4. Update(raw) = SubSeq(raw, 5, 12)
      BY <2>2 DEF Update
    <3> QED BY <3>3, <3>4
  <2> QED BY <2>1, <2>2
<1> QED BY <1>1 DEF KeyAfter

-----------------------------------------------------------------------------
(* The bytes of frames that follow each other. *)

LEMMA StepwiseBytes ==
  \A a \in Seq(Byte) : \A n \in Nat : \A g \in [1..n -> [Seq(Byte) -> Seq(Byte)]] :
    \E f \in [0..n -> Seq(Byte)] : f[0] = a /\ \A i \in 1..n : f[i] = g[i][f[i - 1]]
<1> DEFINE A == Seq(Byte)
<1> HIDE DEF A
<1>1. \A a \in A : \A n \in Nat : \A g \in [1..n -> [A -> A]] :
        \E f \in [0..n -> A] : f[0] = a /\ \A i \in 1..n : f[i] = g[i][f[i - 1]]
  BY StepwiseFunction
<1> QED BY <1>1 DEF A

LEMMA Joined ==
  ASSUME NEW a \in Seq(Byte), NEW b \in Seq(Byte)
  PROVE  a \o b \in Seq(Byte) /\ Len(a \o b) = Len(a) + Len(b)
BY ConcatProperties

LEMMA PacketBytes ==
  ASSUME NEW s \in Seq(Packets), NEW i \in 1..Len(s)
  PROVE  s[i] \in Packets /\ s[i].bytes \in Seq(Byte) /\ s[i].frame \in CarFrames
<1>1. s[i] \in Packets
  BY ElementOfSeq
<1> QED BY <1>1 DEF Packets

LEMMA FlatSteps ==
  ASSUME NEW s \in Seq(Packets)
  PROVE  \E f \in [0..Len(s) -> Seq(Byte)] :
           /\ f[0] = <<>> /\ \A i \in 1..Len(s) : f[i] = f[i - 1] \o s[i].bytes
           /\ Flat(s) = f[Len(s)]
<1> DEFINE n == Len(s)
           G == [i \in 1..n |-> [y \in Seq(Byte) |-> y \o s[i].bytes]]
           Def(f) == [i \in 0..n |-> IF i = 0 THEN <<>> ELSE f[i - 1] \o s[i].bytes]
<1>1. n \in Nat /\ <<>> \in Seq(Byte)
  OBVIOUS
<1>2. Flat(s) = (CHOOSE t : t = Def(t))[n]
  BY DEF Flat
<1>3. \A i \in 1..n : s[i].bytes \in Seq(Byte)
  BY PacketBytes
<1> HIDE DEF n
<1>4. \A i \in 1..n : \A y \in Seq(Byte) : y \o s[i].bytes \in Seq(Byte)
  BY <1>3, Joined
<1>5. G \in [1..n -> [Seq(Byte) -> Seq(Byte)]]
  <2>1. ASSUME NEW i \in 1..n PROVE G[i] \in [Seq(Byte) -> Seq(Byte)]
    <3>1. G[i] = [y \in Seq(Byte) |-> y \o s[i].bytes]
      OBVIOUS
    <3>2. \A y \in Seq(Byte) : y \o s[i].bytes \in Seq(Byte)
      BY <1>4
    <3> HIDE DEF G
    <3> QED BY <3>1, <3>2
  <2> QED BY <2>1
<1>6. PICK f \in [0..n -> Seq(Byte)] : f[0] = <<>> /\ \A i \in 1..n : f[i] = G[i][f[i - 1]]
  <2> HIDE DEF G
  <2> QED BY ONLY <1>1, <1>5, StepwiseBytes
<1>7. \A i \in 1..n : f[i] = f[i - 1] \o s[i].bytes
  <2>1. \A i \in 1..n : f[i - 1] \in Seq(Byte)
    BY <1>1, <1>6
  <2> QED BY <1>6, <2>1
<1>8. f = Def(f)
  <2>1. ASSUME NEW i \in 0..n PROVE f[i] = IF i = 0 THEN <<>> ELSE f[i - 1] \o s[i].bytes
    <3>1. i = 0 \/ i \in 1..n
      BY <1>1
    <3> QED BY <1>6, <1>7, <3>1
  <2>2. f = [i \in 0..n |-> f[i]]
    BY <1>6
  <2> QED BY <2>1, <2>2
<1> DEFINE t == CHOOSE u : u = Def(u)
<1>9. t = Def(t)
  <2> HIDE DEF Def
  <2> QED BY <1>8
<1>10. Flat(s) = t[n]
  BY <1>2
<1> HIDE DEF t
<1>11. t[0] = <<>> /\ \A i \in 1..n : t[i] = t[i - 1] \o s[i].bytes
  <2>1. \A i \in 0..n : t[i] = IF i = 0 THEN <<>> ELSE t[i - 1] \o s[i].bytes
    BY <1>9
  <2>2. \A i \in 1..n : i \in 0..n /\ i # 0
    BY <1>1
  <2>3. 0 \in 0..n
    BY <1>1
  <2> QED BY <2>1, <2>2, <2>3
<1> DEFINE S == {k \in Nat : k <= n => t[k] \in Seq(Byte)}
<1>12. S = Nat
  <2>1. S \in SUBSET Nat /\ 0 \in S
    BY <1>1, <1>11
  <2>2. ASSUME NEW k \in S PROVE k + 1 \in S
    <3> SUFFICES ASSUME k + 1 <= n PROVE t[k + 1] \in Seq(Byte)
      OBVIOUS
    <3>1. k + 1 \in 1..n /\ (k + 1) - 1 = k /\ t[k] \in Seq(Byte)
      BY <1>1
    <3>2. t[k + 1] = t[k] \o s[k + 1].bytes
      BY <1>11, <3>1
    <3> QED BY <1>4, <3>1, <3>2
  <2> HIDE DEF S
  <2> QED BY <2>1, <2>2, SetInduction
<1>13. t \in [0..n -> Seq(Byte)]
  <2>1. \A k \in 0..n : t[k] \in Seq(Byte)
    BY <1>12
  <2>2. t = [i \in 0..n |-> t[i]]
    BY <1>9
  <2> QED BY <2>1, <2>2
<1> QED BY <1>10, <1>11, <1>13 DEF n

LEMMA FlatType ==
  ASSUME NEW s \in Seq(Packets)
  PROVE  Flat(s) \in Seq(Byte)
<1>1. Len(s) \in Nat
  OBVIOUS
<1>2. PICK f \in [0..Len(s) -> Seq(Byte)] : Flat(s) = f[Len(s)]
  BY FlatSteps
<1> QED BY <1>1, <1>2

LEMMA FlatEmpty == Flat(<<>>) = <<>>
<1>1. <<>> \in Seq(Packets) /\ Len(<<>>) = 0
  OBVIOUS
<1>2. PICK f \in [0..0 -> Seq(Byte)] : f[0] = <<>> /\ Flat(<<>>) = f[0]
  BY <1>1, FlatSteps
<1> QED BY <1>2

\* The bytes of a sequence of packets are those of its head, then those of the rest.
LEMMA FlatHead ==
  ASSUME NEW s \in Seq(Packets), s # <<>>
  PROVE  Flat(s) = Head(s).bytes \o Flat(Tail(s))
<1> DEFINE h == Head(s).bytes
           r == Tail(s)
           n == Len(r)
<1>1. r \in Seq(Packets) /\ n \in Nat /\ Len(s) = n + 1 /\ \A i \in 1..n : r[i] = s[i + 1]
  BY HeadTailProperties
<1>2. h = s[1].bytes
  OBVIOUS
<1>3. PICK f \in [0..Len(s) -> Seq(Byte)] :
        /\ f[0] = <<>> /\ \A i \in 1..Len(s) : f[i] = f[i - 1] \o s[i].bytes
        /\ Flat(s) = f[Len(s)]
  BY FlatSteps
<1>4. PICK g \in [0..n -> Seq(Byte)] :
        /\ g[0] = <<>> /\ \A i \in 1..n : g[i] = g[i - 1] \o r[i].bytes
        /\ Flat(r) = g[n]
  BY <1>1, FlatSteps
<1> HIDE DEF h, r, n
<1>5. h \in Seq(Byte)
  <2>1. 1 \in 1..Len(s)
    BY <1>1
  <2> QED BY <1>2, <2>1, PacketBytes
<1> DEFINE S == {k \in Nat : k <= n => f[k + 1] = h \o g[k]}
<1>6. S = Nat
  <2>1. S \in SUBSET Nat
    OBVIOUS
  <2>2. 0 \in S
    <3>1. f[1] = f[0] \o s[1].bytes
      <4>1. 1 \in 1..Len(s) /\ 1 - 1 = 0
        BY <1>1
      <4> QED BY <1>3, <4>1
    <3>2. f[1] = h /\ h \o <<>> = h
      BY <1>2, <1>3, <1>5, <3>1, ConcatEmptySeq
    <3> QED BY <1>4, <3>2
  <2>3. ASSUME NEW k \in S PROVE k + 1 \in S
    <3> SUFFICES ASSUME k + 1 <= n PROVE f[(k + 1) + 1] = h \o g[k + 1]
      OBVIOUS
    <3>1. /\ k \in 0..n /\ k + 1 \in 1..n /\ (k + 1) - 1 = k
          /\ (k + 1) + 1 \in 1..Len(s) /\ ((k + 1) + 1) - 1 = k + 1
      BY <1>1
    <3>0. f[k + 1] = h \o g[k]
      BY <3>1
    <3>2. f[(k + 1) + 1] = f[k + 1] \o s[(k + 1) + 1].bytes
      BY <1>3, <3>1
    <3>3. g[k + 1] = g[k] \o r[k + 1].bytes
      BY <1>4, <3>1
    <3>4. r[k + 1] = s[(k + 1) + 1]
      BY <1>1, <3>1
    <3>5. g[k] \in Seq(Byte) /\ r[k + 1].bytes \in Seq(Byte)
      BY <1>1, <1>4, <3>1, PacketBytes DEF n
    <3>6. (h \o g[k]) \o r[k + 1].bytes = h \o (g[k] \o r[k + 1].bytes)
      <4> DEFINE a == g[k]
                 b == r[k + 1].bytes
      <4>1. a \in Seq(Byte) /\ b \in Seq(Byte)
        BY <3>5
      <4> HIDE DEF a, b
      <4>2. (h \o a) \o b = h \o (a \o b)
        BY ONLY <1>5, <4>1, ConcatAssociative
      <4> QED BY <4>2 DEF a, b
    <3> QED BY <3>0, <3>2, <3>3, <3>4, <3>6
  <2> HIDE DEF S
  <2> QED BY <2>1, <2>2, <2>3, SetInduction
<1>7. f[n + 1] = h \o g[n]
  <2>1. n \in S
    BY <1>1, <1>6
  <2> QED BY <1>1, <2>1
<1> QED BY <1>1, <1>3, <1>4, <1>7 DEF h, r

-----------------------------------------------------------------------------
(* Histories: the frames of packets, and the last key among messages. *)

LEMMA FramesOfType ==
  ASSUME NEW s \in Seq(Packets)
  PROVE  /\ FramesOf(s) \in Seq(Messages) /\ Len(FramesOf(s)) = Len(s)
         /\ \A i \in 1..Len(s) : FramesOf(s)[i] = s[i].frame
<1>1. Len(s) \in Nat /\ DOMAIN s = 1..Len(s)
  BY LenProperties
<1>2. FramesOf(s) = [i \in 1..Len(s) |-> s[i].frame]
  BY <1>1 DEF FramesOf
<1>3. \A i \in 1..Len(s) : s[i].frame \in Messages
  BY PacketBytes, FrameFields
<1> QED BY <1>1, <1>2, <1>3

LEMMA FramesOfHead ==
  ASSUME NEW s \in Seq(Packets), s # <<>>
  PROVE  FramesOf(s) = <<Head(s).frame>> \o FramesOf(Tail(s))
<1> DEFINE h == Head(s).frame
           t == FramesOf(Tail(s))
           u == FramesOf(s)
           v == <<h>> \o t
<1>1. /\ Tail(s) \in Seq(Packets) /\ Len(Tail(s)) \in Nat /\ Len(s) = Len(Tail(s)) + 1
      /\ \A i \in 1..Len(Tail(s)) : Tail(s)[i] = s[i + 1]
  BY HeadTailProperties
<1>2. h = s[1].frame /\ 1 \in 1..Len(s)
  BY <1>1
<1>3. h \in Messages
  BY <1>2, PacketBytes, FrameFields
<1>4. u \in Seq(Messages) /\ Len(u) = Len(s) /\ \A i \in 1..Len(s) : u[i] = s[i].frame
  BY FramesOfType
<1>5. /\ t \in Seq(Messages) /\ Len(t) = Len(Tail(s))
      /\ \A i \in 1..Len(t) : t[i] = Tail(s)[i].frame
  BY <1>1, FramesOfType
<1> HIDE DEF h, t, u
<1>6. <<h>> \in Seq(Messages) /\ Len(<<h>>) = 1 /\ <<h>>[1] = h
  BY <1>3
<1>7. /\ v \in Seq(Messages) /\ Len(v) = 1 + Len(t)
      /\ \A i \in 1..(1 + Len(t)) : v[i] = IF i <= 1 THEN <<h>>[i] ELSE t[i - 1]
  BY <1>5, <1>6, ConcatProperties
<1> HIDE DEF v
<1>8. ASSUME NEW i \in 1..Len(u) PROVE u[i] = v[i]
  <2>1. CASE i = 1
    BY <1>1, <1>2, <1>4, <1>5, <1>6, <1>7, <2>1
  <2>2. CASE i > 1
    <3>1. i - 1 \in 1..Len(t) /\ (i - 1) + 1 = i /\ i \in 1..Len(s) /\ i \in 1..(1 + Len(t))
      BY <1>1, <1>4, <1>5, <2>2
    <3>2. v[i] = Tail(s)[i - 1].frame
      BY <1>5, <1>7, <2>2, <3>1
    <3>3. Tail(s)[i - 1] = s[i]
      BY <1>1, <1>5, <3>1
    <3> QED BY <1>4, <3>1, <3>2, <3>3
  <2>3. i = 1 \/ i > 1
    BY <1>1, <1>4
  <2> QED BY <2>1, <2>2, <2>3
<1>9. Len(u) = Len(v)
  BY <1>1, <1>4, <1>5, <1>7
<1>10. u = v
  BY <1>4, <1>7, <1>8, <1>9, SeqEqual
<1> QED BY <1>10 DEF u, v, h, t

\* A part of a sequence of packets.
LEMMA Part ==
  ASSUME NEW s \in Seq(Packets), NEW m \in 1..(Len(s) + 1), NEW n \in (m - 1)..Len(s)
  PROVE  /\ SubSeq(s, m, n) \in Seq(Packets) /\ Len(SubSeq(s, m, n)) = n - m + 1
         /\ \A i \in 1..(n - m + 1) : SubSeq(s, m, n)[i] = s[m + i - 1]
<1>1. Len(s) \in Nat /\ m \in Nat /\ n \in Int
  OBVIOUS
<1>2. \A i \in m..n : i \in 1..Len(s)
  BY <1>1
<1>3. \A i \in m..n : s[i] \in Packets
  BY <1>2, ElementOfSeq
<1>4. /\ SubSeq(s, m, n) \in Seq(Packets)
      /\ Len(SubSeq(s, m, n)) = IF m <= n THEN n - m + 1 ELSE 0
      /\ \A i \in 1..(n - m + 1) : SubSeq(s, m, n)[i] = s[m + i - 1]
  BY <1>1, <1>3, SubSeqProperties
<1> QED BY <1>1, <1>4

\* The frames of a sequence are those of its first n packets, then the others'.
LEMMA FramesOfParts ==
  ASSUME NEW s \in Seq(Packets), NEW n \in 0..Len(s)
  PROVE  FramesOf(s) = FramesOf(SubSeq(s, 1, n)) \o FramesOf(SubSeq(s, n + 1, Len(s)))
<1> DEFINE a == SubSeq(s, 1, n)
           b == SubSeq(s, n + 1, Len(s))
           p == FramesOf(a)
           q == FramesOf(b)
           u == FramesOf(s)
           v == p \o q
<1>1. Len(s) \in Nat /\ n \in Nat /\ n <= Len(s)
  OBVIOUS
<1>2. a \in Seq(Packets) /\ Len(a) = n /\ \A i \in 1..n : a[i] = s[i]
  <2>1. 1 \in 1..(Len(s) + 1) /\ n \in (1 - 1)..Len(s)
    BY <1>1
  <2>2. /\ a \in Seq(Packets) /\ Len(a) = n - 1 + 1
        /\ \A i \in 1..(n - 1 + 1) : a[i] = s[1 + i - 1]
    BY <2>1, Part
  <2> QED BY <1>1, <2>2
<1>3. /\ b \in Seq(Packets) /\ Len(b) = Len(s) - n
      /\ \A i \in 1..(Len(s) - n) : b[i] = s[n + i]
  <2>1. n + 1 \in 1..(Len(s) + 1) /\ Len(s) \in ((n + 1) - 1)..Len(s)
    BY <1>1
  <2>2. /\ b \in Seq(Packets) /\ Len(b) = Len(s) - (n + 1) + 1
        /\ \A i \in 1..(Len(s) - (n + 1) + 1) : b[i] = s[(n + 1) + i - 1]
    BY <2>1, Part
  <2> HIDE DEF b
  <2>3. Len(s) - (n + 1) + 1 = Len(s) - n /\ \A i \in 1..(Len(s) - n) : (n + 1) + i - 1 = n + i
    BY <1>1
  <2> QED BY <2>2, <2>3
<1> HIDE DEF a, b
<1>4. p \in Seq(Messages) /\ Len(p) = n /\ \A i \in 1..n : p[i] = s[i].frame
  BY <1>2, FramesOfType
<1>5. /\ q \in Seq(Messages) /\ Len(q) = Len(s) - n
      /\ \A i \in 1..(Len(s) - n) : q[i] = s[n + i].frame
  BY <1>3, FramesOfType
<1>6. u \in Seq(Messages) /\ Len(u) = Len(s) /\ \A i \in 1..Len(s) : u[i] = s[i].frame
  BY FramesOfType
<1> HIDE DEF p, q, u
<1>7. /\ v \in Seq(Messages) /\ Len(v) = Len(p) + Len(q)
      /\ \A i \in 1..(Len(p) + Len(q)) : v[i] = IF i <= Len(p) THEN p[i] ELSE q[i - Len(p)]
  BY <1>4, <1>5, ConcatProperties
<1> HIDE DEF v
<1>8. ASSUME NEW i \in 1..Len(u) PROVE u[i] = v[i]
  <2>1. i \in 1..(Len(p) + Len(q)) /\ i \in 1..Len(s)
    BY <1>1, <1>4, <1>5, <1>6
  <2>2. CASE i <= n
    BY <1>1, <1>4, <1>6, <1>7, <2>1, <2>2
  <2>3. CASE ~(i <= n)
    <3>1. i - n \in 1..(Len(s) - n) /\ n + (i - n) = i
      BY <1>1, <2>1, <2>3
    <3>2. v[i] = q[i - n]
      BY <1>4, <1>7, <2>1, <2>3
    <3> QED BY <1>5, <1>6, <2>1, <3>1, <3>2
  <2> QED BY <2>2, <2>3
<1>9. Len(u) = Len(v)
  BY <1>1, <1>4, <1>5, <1>6, <1>7
<1>10. u = v
  BY <1>6, <1>7, <1>8, <1>9, SeqEqual
<1> QED BY <1>10 DEF u, v, p, q, a, b

LEMMA FramesOfAppend ==
  ASSUME NEW s \in Seq(Packets), NEW p \in Packets
  PROVE  FramesOf(Append(s, p)) = Append(FramesOf(s), p.frame)
<1> DEFINE a == Append(s, p)
           u == FramesOf(a)
           w == FramesOf(s)
           v == Append(w, p.frame)
<1>1. Len(s) \in Nat /\ p.frame \in Messages
  <2>1. p.frame \in CarFrames
    BY DEF Packets
  <2>2. p.frame \in Messages
    <3> DEFINE f == p.frame
    <3> HIDE DEF f
    <3>1. f \in Messages
      BY <2>1, FrameFields DEF f
    <3> QED BY <3>1 DEF f
  <2>3. Len(s) \in Nat
    OBVIOUS
  <2> QED BY <2>2, <2>3
<1>2. /\ a \in Seq(Packets) /\ Len(a) = Len(s) + 1
      /\ \A i \in 1..Len(s) : a[i] = s[i] /\ a[Len(s) + 1] = p
  BY AppendProperties
<1>3. a[Len(s) + 1] = p
  BY AppendProperties
<1> HIDE DEF a
<1>4. u \in Seq(Messages) /\ Len(u) = Len(a) /\ \A i \in 1..Len(a) : u[i] = a[i].frame
  BY <1>2, FramesOfType
<1>5. w \in Seq(Messages) /\ Len(w) = Len(s) /\ \A i \in 1..Len(s) : w[i] = s[i].frame
  BY FramesOfType
<1> HIDE DEF u, w
<1>6. /\ v \in Seq(Messages) /\ Len(v) = Len(w) + 1
      /\ \A i \in 1..Len(w) : v[i] = w[i]
      /\ v[Len(w) + 1] = p.frame
  BY <1>1, <1>5, AppendProperties
<1> HIDE DEF v
<1>7. ASSUME NEW i \in 1..Len(u) PROVE u[i] = v[i]
  <2>1. i \in 1..Len(s) \/ i = Len(s) + 1
    BY <1>1, <1>2, <1>4
  <2> QED BY <1>2, <1>3, <1>4, <1>5, <1>6, <2>1
<1>8. u = v
  BY <1>2, <1>4, <1>5, <1>6, <1>7, SeqEqual
<1> QED BY <1>8 DEF u, v, w, a

\* A message that is no start request leaves the last key; a start request is it.
LEMMA LastKeyAppend ==
  ASSUME NEW s \in Seq(Messages), NEW f \in Messages
  PROVE  LastKey(Append(s, f)) = IF f.type \in StartTypes THEN KeyOf(f) ELSE LastKey(s)
<1> DEFINE a == Append(s, f)
           n == Len(s)
<1>1. n \in Nat /\ DOMAIN s = 1..n
  BY LenProperties
<1>2. /\ a \in Seq(Messages) /\ Len(a) = n + 1 /\ \A i \in 1..n : a[i] = s[i]
      /\ a[n + 1] = f
  BY AppendProperties
<1>3. DOMAIN a = 1..(n + 1)
  BY <1>2, LenProperties
<1> HIDE DEF a, n
<1>4. Starts(s) = {i \in 1..n : s[i].type \in StartTypes}
  BY <1>1 DEF Starts
<1>5. Starts(a) = {i \in 1..(n + 1) : a[i].type \in StartTypes}
  BY <1>3 DEF Starts
<1>6. CASE f.type \in StartTypes
  <2>1. n + 1 \in Starts(a) /\ \A j \in Starts(a) : j <= n + 1
    BY <1>1, <1>2, <1>5, <1>6
  <2>2. \A i \in Starts(a) : (\A j \in Starts(a) : j <= i) => i = n + 1
    BY <1>1, <1>5, <2>1
  <2>3. (CHOOSE i \in Starts(a) : \A j \in Starts(a) : j <= i) = n + 1
    BY <2>1, <2>2
  <2>4. LastKey(a) = KeyOf(f)
    BY <1>2, <2>1, <2>3 DEF LastKey
  <2> QED BY <1>6, <2>4 DEF a
<1>7. CASE f.type \notin StartTypes
  <2>1. \A i \in 1..(n + 1) : i \in 1..n \/ i = n + 1
    BY <1>1
  <2>2. \A i \in 1..n : i \in 1..(n + 1)
    BY <1>1
  <2>3. Starts(a) = Starts(s)
    BY <1>2, <1>4, <1>5, <1>7, <2>1, <2>2
  <2>4. CASE Starts(s) = {}
    BY <1>7, <2>3, <2>4 DEF LastKey, a
  <2>5. CASE Starts(s) # {}
    <3> DEFINE k == CHOOSE i \in Starts(s) : \A j \in Starts(s) : j <= i
    <3>1. Starts(s) \in SUBSET (0..n)
      BY <1>1, <1>4
    <3>2. \E i \in Starts(s) : \A j \in Starts(s) : j <= i
      BY <1>1, <2>5, <3>1, GreatestElement
    <3>3. k \in Starts(s)
      BY <3>2
    <3>4. LastKey(a) = KeyOf(a[k])
      BY <2>3, <2>5 DEF LastKey
    <3>5. LastKey(s) = KeyOf(s[k])
      BY <2>5 DEF LastKey
    <3> HIDE DEF k
    <3>6. a[k] = s[k]
      BY <1>2, <1>4, <3>3
    <3> QED BY <1>7, <3>4, <3>5, <3>6 DEF a
  <2> QED BY <2>4, <2>5
<1> QED BY <1>6, <1>7

-----------------------------------------------------------------------------
(* The frames expected are those that the data begin with. *)

LEMMA EncodedPacket ==
  ASSUME NEW p \in Packets, Encoded(p)
  PROVE  /\ p.frame \in CarFrames /\ p.bytes \in Seq(Byte)
         /\ Len(p.frame.data) \in Nat /\ Len(p.bytes) = Len(p.frame.data) + 5
         /\ \E x \in Byte : /\ p.frame.type \in StartTypes => x = 0
                            /\ \A i \in 1..Len(p.bytes) : p.bytes[i] = Xor(Plain(p.frame)[i], x)
<1>1. p.frame \in CarFrames /\ p.bytes \in Seq(Byte)
  BY DEF Packets
<1>2. PICK x \in Byte : /\ p.frame.type \in StartTypes => x = 0
                        /\ p.bytes = EncodeToBytes(p.frame, x)
  BY DEF Encoded
<1> DEFINE f == p.frame
           e == p.bytes
<1>3. e = EncodeToBytes(f, x) /\ (f.type \in StartTypes => x = 0)
  BY <1>2
<1>4. f \in CarFrames /\ e \in Seq(Byte)
  BY <1>1
<1> HIDE DEF f, e
<1>5. Len(e) = Len(f.data) + 5 /\ \A i \in 1..(Len(f.data) + 5) : e[i] = Xor(Plain(f)[i], x)
  BY <1>3, <1>4, EncodedBytes
<1>6. Len(f.data) \in Nat
  BY <1>4, FrameFields
<1>7. \A i \in 1..Len(e) : e[i] = Xor(Plain(f)[i], x)
  BY <1>5
<1> QED BY <1>3, <1>4, <1>5, <1>6, <1>7 DEF f, e

\* The bytes of the first frame expected, and those of the others.
LEMMA FlatParts ==
  ASSUME NEW s \in Seq(Packets), s # <<>>, \A i \in DOMAIN s : Encoded(s[i])
  PROVE  LET f == Head(s).frame
             l == Len(f.data) + 5
             r == Flat(Tail(s))
             b == Flat(s)
         IN  /\ f \in CarFrames /\ l \in Nat /\ l >= 5
             /\ Tail(s) \in Seq(Packets) /\ Len(Tail(s)) \in Nat
             /\ Len(s) = Len(Tail(s)) + 1 /\ f = s[1].frame
             /\ \A i \in 1..Len(Tail(s)) : Tail(s)[i] = s[i + 1]
             /\ b \in Seq(Byte) /\ r \in Seq(Byte) /\ Len(b) = l + Len(r)
             /\ \A i \in 1..Len(r) : b[l + i] = r[i]
             /\ \E x \in Byte : /\ f.type \in StartTypes => x = 0
                                /\ \A i \in 1..l : b[i] = Xor(Plain(f)[i], x)
<1> DEFINE p == Head(s)
           f == p.frame
           e == p.bytes
           l == Len(f.data) + 5
           t == Tail(s)
           r == Flat(t)
           b == Flat(s)
<1>1. /\ t \in Seq(Packets) /\ Len(t) \in Nat /\ Len(s) = Len(t) + 1
      /\ \A i \in 1..Len(t) : t[i] = s[i + 1]
  BY HeadTailProperties
<1>2. p = s[1] /\ 1 \in 1..Len(s) /\ DOMAIN s = 1..Len(s)
  BY <1>1, LenProperties
<1>3. p \in Packets /\ Encoded(p)
  BY <1>2, PacketBytes
<1>4. /\ f \in CarFrames /\ e \in Seq(Byte) /\ Len(f.data) \in Nat /\ Len(e) = l
      /\ \E x \in Byte : /\ f.type \in StartTypes => x = 0
                         /\ \A i \in 1..Len(e) : e[i] = Xor(Plain(f)[i], x)
  BY <1>3, EncodedPacket
<1>5. b = e \o r
  BY FlatHead
<1>6. r \in Seq(Byte)
  BY <1>1, FlatType
<1>7. f = s[1].frame
  BY <1>2
<1>8. l \in Nat /\ l >= 5
  BY <1>4
<1> HIDE DEF l, r, t, e, p, f, b
<1>9. /\ b \in Seq(Byte) /\ Len(b) = Len(e) + Len(r)
      /\ \A i \in 1..(Len(e) + Len(r)) : b[i] = IF i <= Len(e) THEN e[i] ELSE r[i - Len(e)]
  BY <1>4, <1>5, <1>6, ConcatProperties
<1>10. Len(b) = l + Len(r) /\ Len(r) \in Nat
  BY <1>4, <1>6, <1>9
<1>11. ASSUME NEW i \in 1..Len(r) PROVE b[l + i] = r[i]
  <2>1. l + i \in 1..(Len(e) + Len(r)) /\ ~(l + i <= Len(e)) /\ (l + i) - Len(e) = i
    BY <1>4, <1>8, <1>10
  <2> QED BY <1>9, <2>1
<1>12. \A i \in 1..l : b[i] = e[i]
  BY <1>4, <1>8, <1>9, <1>10
<1>13. \E x \in Byte : /\ f.type \in StartTypes => x = 0
                       /\ \A i \in 1..l : b[i] = Xor(Plain(f)[i], x)
  BY <1>4, <1>12
<1> QED BY <1>1, <1>4, <1>6, <1>7, <1>8, <1>9, <1>10, <1>11, <1>13 DEF l, r, t, p, f, b

\* While a frame is expected the data carry it.
LEMMA ExpectedFirst ==
  ASSUME TypeOK, WireInv, TurnInv, expect # <<>>
  PROVE  LET f == Head(expect).frame
         IN  \E x \in Byte : (f.type \in StartTypes => x = 0) /\ Carries(data, f, x)
<1> DEFINE f == Head(expect).frame
           l == Len(f.data) + 5
           t == Tail(expect)
           r == Flat(t)
           b == Flat(expect)
<1>1. data \in Seq(Byte) /\ Len(data) \in Nat /\ expect \in Seq(Packets)
  BY DEF TypeOK
<1>2. DOMAIN expect = 1..Len(expect) /\ \A i \in DOMAIN expect : Encoded(expect[i])
  BY <1>1, LenProperties DEF WireInv
<1>3. /\ f \in CarFrames /\ l \in Nat /\ Len(t) \in Nat /\ Len(expect) = Len(t) + 1
      /\ f = expect[1].frame
      /\ t \in Seq(Packets)
      /\ b \in Seq(Byte) /\ r \in Seq(Byte) /\ Len(b) = l + Len(r)
  BY <1>1, <1>2, FlatParts
<1>4. PICK x \in Byte : /\ f.type \in StartTypes => x = 0
                        /\ \A i \in 1..l : b[i] = Xor(Plain(f)[i], x)
  BY <1>1, <1>2, FlatParts
<1>5. /\ Len(b) <= Len(data) /\ SubSeq(data, 1, Len(b)) = b
      /\ (1 < Len(expect) \/ Len(b) < Len(data)) => expect[1].frame.ack = 0
  <2>1. 1 \in DOMAIN expect
    BY <1>2, <1>3
  <2> QED BY <2>1 DEF TurnInv
<1>6. f.ack \in {0, 1}
  BY <1>3, FrameFields
<1> HIDE DEF t
<1>7. t = <<>> => Len(r) = 0
  BY FlatEmpty, EmptySeq
<1>8. Len(t) = 0 => t = <<>>
  BY <1>3, EmptySeq
<1> HIDE DEF b, l, r, t, f
<1>9. Len(r) \in Nat /\ Len(b) \in Nat
  BY <1>3
<1>10. \A i \in 1..Len(b) : data[i] = b[i]
  <2>1. \A i \in 1..Len(b) : i \in 1..Len(data)
    BY <1>1, <1>5, <1>9
  <2>2. \A i \in 1..Len(b) : data[i] \in Byte
    BY <1>1, <2>1, ElementOfSeq
  <2>3. \A i \in 1..(Len(b) - 1 + 1) : SubSeq(data, 1, Len(b))[i] = data[1 + i - 1]
    BY <1>9, <2>2, SubSeqProperties
  <2>4. \A i \in 1..Len(b) : i \in 1..(Len(b) - 1 + 1) /\ 1 + i - 1 = i
    BY <1>9
  <2> QED BY <1>5, <2>3, <2>4
<1>11. Len(data) >= l /\ \A i \in 1..l : data[i] = Xor(Plain(f)[i], x)
  BY <1>1, <1>3, <1>4, <1>5, <1>9, <1>10
<1>12. f.ack = 0 \/ Len(data) = l
  <2> SUFFICES ASSUME f.ack # 0 PROVE Len(data) = l
    OBVIOUS
  <2>1. ~(1 < Len(expect)) /\ ~(Len(b) < Len(data))
    BY <1>3, <1>5
  <2>2. Len(r) = 0
    BY <1>3, <1>7, <1>8, <2>1
  <2> QED BY <1>1, <1>3, <1>5, <1>9, <2>1, <2>2
<1> QED BY <1>1, <1>4, <1>11, <1>12 DEF Carries, l, f

-----------------------------------------------------------------------------
(* Type correctness. *)

\* The xor under which the car sends a frame.
XorFor(f) == IF f.type \in StartTypes THEN 0 ELSE CarKeys[1 + (rkey % Len(CarKeys))]

LEMMA SentXor ==
  ASSUME TypeOK, NEW f \in CarFrames
  PROVE  /\ XorFor(f) \in Byte
         /\ EncodeToBytes(f, XorFor(f)) \in Seq(Byte)
         /\ [frame |-> f, bytes |-> EncodeToBytes(f, XorFor(f))] \in Packets
         /\ Encoded([frame |-> f, bytes |-> EncodeToBytes(f, XorFor(f))])
<1>1. 0 \in Byte
  BY DEF Byte
<1>2. CarKeys[1 + (rkey % Len(CarKeys))] \in Byte
  <2>1. CarKeys \in Seq(Byte) /\ CarKeys # <<>>
    BY FrameAssumption
  <2>2. Len(CarKeys) \in Nat /\ Len(CarKeys) > 0
    BY <2>1, EmptySeq
  <2>3. rkey \in Nat
    BY DEF TypeOK
  <2>4. rkey % Len(CarKeys) \in 0..(Len(CarKeys) - 1)
    BY <2>2, <2>3
  <2>5. 1 + (rkey % Len(CarKeys)) \in 1..Len(CarKeys)
    BY <2>2, <2>4
  <2> QED BY <2>1, <2>5, ElementOfSeq
<1>3. XorFor(f) \in Byte
  BY <1>1, <1>2 DEF XorFor
<1>4. EncodeToBytes(f, XorFor(f)) \in Seq(Byte)
  BY <1>3, EncodedBytes
<1>5. [frame |-> f, bytes |-> EncodeToBytes(f, XorFor(f))] \in Packets
  BY <1>4 DEF Packets
<1>6. f.type \in StartTypes => XorFor(f) = 0
  BY DEF XorFor
<1>7. Encoded([frame |-> f, bytes |-> EncodeToBytes(f, XorFor(f))])
  BY <1>3, <1>6 DEF Encoded
<1> QED BY <1>3, <1>4, <1>5, <1>7

\* A Read of the first n frames on the way.
LEMMA ReadType ==
  ASSUME TypeOK, NEW n \in 0..Len(rest), NEW d \in Seq(Byte), NEW more, Read(d, n, more)
  PROVE  data' \in Seq(Byte) /\ expect' \in Seq(Packets) /\ skipped' \in BOOLEAN
         /\ clean' \in BOOLEAN
<1>1. rest \in Seq(Packets) /\ Len(rest) \in Nat
  BY DEF TypeOK
<1>2. SubSeq(rest, 1, n) \in Seq(Packets)
  <2>1. 1 \in 1..(Len(rest) + 1) /\ n \in (1 - 1)..Len(rest)
    BY <1>1
  <2> QED BY <1>1, <2>1, Part
<1>3. <<>> \in Seq(Packets) /\ clean \in BOOLEAN
  BY DEF TypeOK
<1> QED BY <1>2, <1>3 DEF Read

\* What is left of the frames on the way behind the first n.
LEMMA RestType ==
  ASSUME TypeOK, NEW n \in 0..Len(rest)
  PROVE  /\ SubSeq(rest, 1, n) \in Seq(Packets)
         /\ Len(SubSeq(rest, 1, n)) = n /\ \A i \in 1..n : SubSeq(rest, 1, n)[i] = rest[i]
         /\ SubSeq(rest, n + 1, Len(rest)) \in Seq(Packets)
         /\ Len(SubSeq(rest, n + 1, Len(rest))) = Len(rest) - n
         /\ \A i \in 1..(Len(rest) - n) : SubSeq(rest, n + 1, Len(rest))[i] = rest[n + i]
<1>1. rest \in Seq(Packets) /\ Len(rest) \in Nat /\ n \in Nat /\ n <= Len(rest)
  BY DEF TypeOK
<1>2. /\ 1 \in 1..(Len(rest) + 1) /\ n \in (1 - 1)..Len(rest)
      /\ n + 1 \in 1..(Len(rest) + 1) /\ Len(rest) \in ((n + 1) - 1)..Len(rest)
  BY <1>1
<1>3. /\ SubSeq(rest, 1, n) \in Seq(Packets) /\ Len(SubSeq(rest, 1, n)) = n - 1 + 1
      /\ \A i \in 1..(n - 1 + 1) : SubSeq(rest, 1, n)[i] = rest[1 + i - 1]
  BY <1>1, <1>2, Part
<1> DEFINE r == SubSeq(rest, n + 1, Len(rest))
<1>4. /\ r \in Seq(Packets) /\ Len(r) = Len(rest) - (n + 1) + 1
      /\ \A i \in 1..(Len(rest) - (n + 1) + 1) : r[i] = rest[(n + 1) + i - 1]
  BY <1>1, <1>2, Part
<1>5. Len(SubSeq(rest, 1, n)) = n /\ \A i \in 1..n : SubSeq(rest, 1, n)[i] = rest[i]
  BY <1>1, <1>3
<1> HIDE DEF r
<1>6. Len(rest) - (n + 1) + 1 = Len(rest) - n /\ \A i \in 1..(Len(rest) - n) : (n + 1) + i - 1 = n + i
  BY <1>1
<1>7. Len(r) = Len(rest) - n /\ \A i \in 1..(Len(rest) - n) : r[i] = rest[n + i]
  BY <1>4, <1>6
<1> QED BY <1>3, <1>4, <1>5, <1>7 DEF r

\* Every action keeps the types, whatever false frames the parser may find.
LEMMA TypeStep == TypeOK /\ [Next]_vars => TypeOK'
<1> SUFFICES ASSUME TypeOK, [Next]_vars PROVE TypeOK'
  OBVIOUS
<1> USE DEF wire, client
<1>0. rest \in Seq(Packets) /\ Len(rest) \in Nat /\ tail \in Seq(Byte)
  BY DEF TypeOK
<1>1. CASE CarSend
  <2>1. PICK f \in CarFrames :
          /\ Len(sent) < MaxFrames
          /\ sent' = Append(sent, f)
          /\ rest' = Append(rest, [frame |-> f, bytes |-> EncodeToBytes(f, XorFor(f))])
          /\ rkey' = IF f.type = CmdInResp THEN rkey + 1 ELSE rkey
          /\ UNCHANGED <<tail, data, client, cuts, expect, clean, skipped>>
    BY <1>1 DEF CarSend, XorFor
  <2>2. rest' \in Seq(Packets)
    BY <1>0, <2>1, SentXor, AppendProperties
  <2>3. sent' \in Seq(CarFrames) /\ Len(sent') = Len(sent) + 1 /\ Len(sent) \in Nat
    BY <2>1, AppendProperties DEF TypeOK
  <2>4. MaxFrames \in Nat
    BY FrameAssumption
  <2>5. /\ Len(sent') <= MaxFrames /\ rkey' \in Nat /\ rkey' <= Len(sent')
    BY <2>1, <2>3, <2>4 DEF TypeOK
  <2> QED BY <2>1, <2>2, <2>3, <2>5 DEF TypeOK
<1>2. CASE ReadWhole
  <2>1. PICK n \in 1..Len(rest) :
          /\ Read(tail \o Flat(SubSeq(rest, 1, n)), n, FALSE)
          /\ rest' = SubSeq(rest, n + 1, Len(rest)) /\ tail' = <<>>
          /\ UNCHANGED cuts
    BY <1>2 DEF ReadWhole
  <2>2. n \in 0..Len(rest)
    BY <1>0
  <2>3. tail \o Flat(SubSeq(rest, 1, n)) \in Seq(Byte)
    BY <1>0, <2>2, RestType, FlatType, Joined
  <2>4. data' \in Seq(Byte) /\ expect' \in Seq(Packets) /\ skipped' \in BOOLEAN
        /\ clean' \in BOOLEAN
    BY <2>1, <2>2, <2>3, ReadType
  <2>5. rest' \in Seq(Packets)
    BY <2>1, <2>2, RestType
  <2>6. UNCHANGED <<sent, rkey, client, cuts>> /\ tail' \in Seq(Byte)
    BY <2>1 DEF Read
  <2> QED BY <2>4, <2>5, <2>6 DEF TypeOK
<1>3. CASE ReadCut
  <2>0. PICK n \in 1..Len(rest) : \E c \in 1..(Len(rest[n].bytes) - 1) :
          /\ Read(tail \o Flat(SubSeq(rest, 1, n - 1)) \o SubSeq(rest[n].bytes, 1, c),
                  n - 1, TRUE)
          /\ tail' = From(rest[n].bytes, c) /\ rest' = SubSeq(rest, n + 1, Len(rest))
    BY <1>3 DEF ReadCut
  <2>1. PICK c \in 1..(Len(rest[n].bytes) - 1) :
          /\ Read(tail \o Flat(SubSeq(rest, 1, n - 1)) \o SubSeq(rest[n].bytes, 1, c),
                  n - 1, TRUE)
          /\ tail' = From(rest[n].bytes, c) /\ rest' = SubSeq(rest, n + 1, Len(rest))
    BY <2>0
  <2>2. n \in 0..Len(rest) /\ n - 1 \in 0..Len(rest)
    BY <1>0
  <2>3. rest[n].bytes \in Seq(Byte) /\ Len(rest[n].bytes) \in Nat
    BY <1>0, PacketBytes
  <2>4. tail \o Flat(SubSeq(rest, 1, n - 1)) \in Seq(Byte)
    BY <1>0, <2>2, RestType, FlatType, Joined
  <2>5. SubSeq(rest[n].bytes, 1, c) \in Seq(Byte)
    <3>1. \A i \in 1..c : i \in 1..Len(rest[n].bytes)
      BY <2>3
    <3>2. \A i \in 1..c : rest[n].bytes[i] \in Byte
      BY <2>3, <3>1, ElementOfSeq
    <3>3. c \in Int
      BY <2>3
    <3> QED BY <3>2, <3>3, SubSeqProperties
  <2>6. tail \o Flat(SubSeq(rest, 1, n - 1)) \o SubSeq(rest[n].bytes, 1, c) \in Seq(Byte)
    BY <2>4, <2>5, Joined
  <2>7. data' \in Seq(Byte) /\ expect' \in Seq(Packets) /\ skipped' \in BOOLEAN
        /\ clean' \in BOOLEAN
    BY <2>1, <2>2, <2>6, ReadType
  <2>8. rest' \in Seq(Packets) /\ tail' \in Seq(Byte)
    <3>1. c \in Nat
      BY <2>3
    <3> QED BY <2>1, <2>2, <2>3, <3>1, RestType, FromType
  <2>9. UNCHANGED <<sent, rkey, client>>
    BY <2>1 DEF Read
  <2>10. cuts' \in 0..MaxCuts
    BY <1>3, FrameAssumption DEF ReadCut, TypeOK
  <2> QED BY <2>7, <2>8, <2>9, <2>10 DEF TypeOK
<1>4. CASE ReadTail
  <2>1. Read(tail, 0, FALSE) /\ tail' = <<>> /\ UNCHANGED <<rest, cuts>>
    BY <1>4 DEF ReadTail
  <2>2. data' \in Seq(Byte) /\ expect' \in Seq(Packets) /\ skipped' \in BOOLEAN
        /\ clean' \in BOOLEAN
    <3>1. 0 \in 0..Len(rest)
      BY <1>0
    <3> QED BY <1>0, <2>1, <3>1, ReadType
  <2>3. UNCHANGED <<sent, rkey, client>>
    BY <2>1 DEF Read
  <2> QED BY <2>1, <2>2, <2>3 DEF TypeOK
<1>5. CASE Stop
  BY <1>5 DEF Stop, TypeOK
<1>6. CASE Panic
  BY <1>6 DEF Panic, TypeOK
<1>7. CASE Deliver
  <2> DEFINE d == From(data, First)
             l == Len(Frame)
  <2>1. data \in Seq(Byte) /\ Found(data) # {} /\ Len(Frame) >= 4 /\ Len(Frame) \notin {4, 257}
    BY <1>7 DEF Deliver, TypeOK
  <2>2. /\ First \in Nat /\ Frame \in Seq(Byte) /\ d \in Seq(Byte)
        /\ l \in 2..Len(d) /\ (l >= 3 => Frame[3] \in {0, 1})
    BY <2>1, FoundFrame
  <2>3. l \in Nat /\ l >= 5 /\ l <= Len(d)
    <3>1. Len(d) \in Nat
      BY <2>2, LenProperties
    <3>2. l >= 4 /\ l # 4
      BY <2>1
    <3> HIDE DEF d, l
    <3> QED BY <2>2, <3>1, <3>2
  <2>4. Message(Frame) \in Messages
    BY <2>2, <2>3, MessageType
  <2>5. SubSeq(d, 1, l) \in Seq(Byte)
    <3> HIDE DEF d, l
    <3>1. \A i \in 1..l : i \in 1..Len(d)
      BY <2>2, <2>3
    <3>2. \A i \in 1..l : d[i] \in Byte
      BY <2>2, <3>1, ElementOfSeq
    <3> QED BY <2>3, <3>2, SubSeqProperties
  <2>6. /\ KeyAfter(SubSeq(d, 1, l), First, live) \in Seq(Byte)
        /\ Len(KeyAfter(SubSeq(d, 1, l), First, live)) \in {0, 8}
    BY <2>5, KeyAfterType DEF TypeOK
  <2>7. From(d, l) \in Seq(Byte)
    BY <2>2, <2>3, FromType
  <2>8. expect' \in Seq(Packets)
    <3>1. expect \in Seq(Packets)
      BY DEF TypeOK
    <3>2. expect # <<>> => Tail(expect) \in Seq(Packets)
      BY <3>1, HeadTailProperties
    <3> QED BY <1>7, <3>1, <3>2 DEF Deliver
  <2>9. /\ got' = Append(got, Message(Frame)) /\ data' = From(d, l)
        /\ live' = KeyAfter(SubSeq(d, 1, l), First, live)
        /\ UNCHANGED <<sent, rkey, rest, tail, panic, cuts, clean, skipped>>
    BY <1>7 DEF Deliver
  <2>10. got' \in Seq(Messages)
    BY <2>4, <2>9, AppendProperties DEF TypeOK
  <2> HIDE DEF d, l
  <2> QED BY <2>6, <2>7, <2>8, <2>9, <2>10 DEF TypeOK
<1>8. CASE UNCHANGED vars
  BY <1>8 DEF vars, TypeOK
<1> QED
  BY <1>1, <1>2, <1>3, <1>4, <1>5, <1>6, <1>7, <1>8 DEF Next

-----------------------------------------------------------------------------
(* What is on the way and what is expected are encodings. *)

LEMMA EncodedRest ==
  ASSUME TypeOK, WireInv, NEW n \in 0..Len(rest)
  PROVE  /\ \A i \in DOMAIN SubSeq(rest, 1, n) : Encoded(SubSeq(rest, 1, n)[i])
         /\ \A i \in DOMAIN SubSeq(rest, n + 1, Len(rest)) :
              Encoded(SubSeq(rest, n + 1, Len(rest))[i])
<1> DEFINE a == SubSeq(rest, 1, n)
           b == SubSeq(rest, n + 1, Len(rest))
<1>1. rest \in Seq(Packets) /\ Len(rest) \in Nat
  BY DEF TypeOK
<1>2. DOMAIN rest = 1..Len(rest) /\ \A i \in 1..Len(rest) : Encoded(rest[i])
  BY <1>1, LenProperties DEF WireInv
<1>3. /\ a \in Seq(Packets) /\ Len(a) = n /\ \A i \in 1..n : a[i] = rest[i]
      /\ b \in Seq(Packets) /\ Len(b) = Len(rest) - n
      /\ \A i \in 1..(Len(rest) - n) : b[i] = rest[n + i]
  BY RestType
<1> HIDE DEF a, b
<1>4. DOMAIN a = 1..n /\ DOMAIN b = 1..(Len(rest) - n)
  BY <1>3, LenProperties
<1>5. \A i \in 1..n : i \in 1..Len(rest)
  BY <1>1
<1>6. \A i \in 1..(Len(rest) - n) : n + i \in 1..Len(rest)
  BY <1>1
<1>7. \A i \in DOMAIN a : Encoded(a[i])
  BY <1>2, <1>3, <1>4, <1>5
<1>8. \A i \in DOMAIN b : Encoded(b[i])
  BY <1>2, <1>3, <1>4, <1>6
<1> QED BY <1>7, <1>8 DEF a, b

LEMMA EncodedTail ==
  ASSUME NEW s \in Seq(Packets), s # <<>>, \A i \in DOMAIN s : Encoded(s[i])
  PROVE  \A i \in DOMAIN Tail(s) : Encoded(Tail(s)[i])
<1> DEFINE t == Tail(s)
<1>1. /\ t \in Seq(Packets) /\ Len(t) \in Nat /\ Len(s) = Len(t) + 1
      /\ \A i \in 1..Len(t) : t[i] = s[i + 1]
  BY HeadTailProperties
<1> HIDE DEF t
<1>2. DOMAIN s = 1..Len(s) /\ DOMAIN t = 1..Len(t)
  BY <1>1, LenProperties
<1>3. \A i \in 1..Len(t) : i + 1 \in 1..Len(s)
  BY <1>1
<1>4. \A i \in DOMAIN t : Encoded(t[i])
  BY <1>1, <1>2, <1>3
<1> QED BY <1>4 DEF t

\* Packets stay encodings of their frames: only CarSend makes one.
LEMMA WireStep == TypeOK /\ WireInv /\ [Next]_vars => WireInv'
<1> SUFFICES ASSUME TypeOK, WireInv, [Next]_vars PROVE WireInv'
  OBVIOUS
<1> DEFINE E(s) == \A i \in DOMAIN s : Encoded(s[i])
<1>0. /\ rest \in Seq(Packets) /\ Len(rest) \in Nat /\ expect \in Seq(Packets)
      /\ E(rest) /\ E(expect) /\ E(<<>>)
  BY DEF TypeOK, WireInv
<1>1. CASE CarSend
  <2>1. PICK f \in CarFrames :
          /\ rest' = Append(rest, [frame |-> f, bytes |-> EncodeToBytes(f, XorFor(f))])
          /\ UNCHANGED expect
    BY <1>1 DEF CarSend, XorFor
  <2> DEFINE p == [frame |-> f, bytes |-> EncodeToBytes(f, XorFor(f))]
             a == Append(rest, p)
  <2>2. p \in Packets /\ Encoded(p)
    BY SentXor
  <2> HIDE DEF p
  <2>3. /\ a \in Seq(Packets) /\ Len(a) = Len(rest) + 1
        /\ \A i \in 1..Len(rest) : a[i] = rest[i]
    BY <1>0, <2>2, AppendProperties
  <2>4. a[Len(rest) + 1] = p
    BY <1>0, <2>2, AppendProperties
  <2> HIDE DEF a
  <2>5. DOMAIN a = 1..(Len(rest) + 1) /\ DOMAIN rest = 1..Len(rest)
    BY <1>0, <2>3, LenProperties
  <2>6. \A i \in 1..(Len(rest) + 1) : i \in 1..Len(rest) \/ i = Len(rest) + 1
    BY <1>0
  <2>7. E(a)
    BY <1>0, <2>2, <2>3, <2>4, <2>5, <2>6
  <2>8. rest' = a
    BY <2>1 DEF a, p
  <2> HIDE DEF E
  <2>9. E(rest') /\ E(expect')
    BY <1>0, <2>1, <2>7, <2>8
  <2> QED BY <2>9 DEF WireInv, E
<1>2. ASSUME NEW n \in 0..Len(rest), NEW d, NEW more, Read(d, n, more)
      PROVE  E(expect')
  <2>1. E(SubSeq(rest, 1, n))
    BY <1>2, EncodedRest
  <2>2. expect' = SubSeq(rest, 1, n) \/ expect' = <<>>
    BY <1>2 DEF Read
  <2> HIDE DEF E
  <2> QED BY <1>0, <2>1, <2>2
<1>3. CASE ReadWhole
  <2>1. PICK n \in 1..Len(rest) :
          /\ Read(tail \o Flat(SubSeq(rest, 1, n)), n, FALSE)
          /\ rest' = SubSeq(rest, n + 1, Len(rest))
    BY <1>3 DEF ReadWhole
  <2>2. n \in 0..Len(rest)
    BY <1>0
  <2>3. E(SubSeq(rest, n + 1, Len(rest)))
    BY <2>2, EncodedRest
  <2> HIDE DEF E
  <2>4. E(rest') /\ E(expect')
    BY <1>2, <2>1, <2>2, <2>3
  <2> QED BY <2>4 DEF WireInv, E
<1>4. CASE ReadCut
  <2>0. PICK n \in 1..Len(rest) : \E c \in 1..(Len(rest[n].bytes) - 1) :
          /\ Read(tail \o Flat(SubSeq(rest, 1, n - 1)) \o SubSeq(rest[n].bytes, 1, c),
                  n - 1, TRUE)
          /\ rest' = SubSeq(rest, n + 1, Len(rest))
    BY <1>4 DEF ReadCut
  <2>1. PICK c :
          /\ Read(tail \o Flat(SubSeq(rest, 1, n - 1)) \o SubSeq(rest[n].bytes, 1, c),
                  n - 1, TRUE)
          /\ rest' = SubSeq(rest, n + 1, Len(rest))
    BY <2>0
  <2>2. n \in 0..Len(rest) /\ n - 1 \in 0..Len(rest)
    BY <1>0
  <2>3. E(SubSeq(rest, n + 1, Len(rest)))
    BY <2>2, EncodedRest
  <2> HIDE DEF E
  <2>4. E(rest') /\ E(expect')
    BY <1>2, <2>1, <2>2, <2>3
  <2> QED BY <2>4 DEF WireInv, E
<1>5. CASE ReadTail
  <2>1. Read(tail, 0, FALSE) /\ UNCHANGED rest
    BY <1>5 DEF ReadTail
  <2>2. 0 \in 0..Len(rest)
    BY <1>0
  <2> HIDE DEF E
  <2>3. E(rest') /\ E(expect')
    BY <1>0, <1>2, <2>1, <2>2
  <2> QED BY <2>3 DEF WireInv, E
<1>6. CASE Stop \/ Panic \/ UNCHANGED vars
  <2>1. UNCHANGED rest /\ (expect' = expect \/ expect' = <<>>)
    BY <1>6 DEF Stop, Panic, vars, wire
  <2> HIDE DEF E
  <2>2. E(rest') /\ E(expect')
    BY <1>0, <2>1
  <2> QED BY <2>2 DEF WireInv, E
<1>7. CASE Deliver
  <2>1. UNCHANGED rest /\ expect' = IF expect = <<>> THEN <<>> ELSE Tail(expect)
    BY <1>7 DEF Deliver, wire
  <2>2. expect # <<>> => E(Tail(expect))
    BY <1>0, EncodedTail
  <2> HIDE DEF E
  <2>3. E(rest') /\ E(expect')
    BY <1>0, <2>1, <2>2
  <2> QED BY <2>3 DEF WireInv, E
<1> QED
  BY <1>1, <1>3, <1>4, <1>5, <1>6, <1>7 DEF Next

-----------------------------------------------------------------------------
(* The turns of the parser. *)

\* Nothing is expected: nothing is claimed of the data.
LEMMA NothingExpected ==
  ASSUME data' \in Seq(Byte), expect' = <<>>
  PROVE  TurnInv'
<1>1. Len(data') \in Nat /\ SubSeq(data', 1, 0) = <<>>
  BY SubSeqEmpty
<1>2. Flat(expect') = <<>> /\ Len(<<>>) = 0 /\ DOMAIN expect' = {}
  BY FlatEmpty
<1> DEFINE d == data'
           b == Flat(expect')
<1>3. b = <<>> /\ Len(b) = 0
  BY <1>2
<1>4. Len(d) \in Nat /\ SubSeq(d, 1, 0) = <<>>
  BY <1>1
<1> HIDE DEF d, b
<1>5. Len(b) <= Len(d) /\ SubSeq(d, 1, Len(b)) = b
  BY <1>3, <1>4
<1> QED BY <1>2, <1>5 DEF TurnInv, d, b

\* A read of n whole frames and z.
LEMMA ReadTurn ==
  ASSUME TypeOK, NEW n \in 0..Len(rest), NEW more \in BOOLEAN, NEW d, NEW z \in Seq(Byte),
         d = tail \o Flat(SubSeq(rest, 1, n)) \o z, ~more => z = <<>>,
         Read(d, n, more)
  PROVE  /\ TurnInv'
         /\ expect' = <<>> \/ expect' = SubSeq(rest, 1, n)
         /\ clean' /\ tail = <<>> => clean /\ expect' = SubSeq(rest, 1, n)
         /\ data = <<>> /\ ~panic /\ ~panic' /\ UNCHANGED <<sent, got, live>>
         /\ data' = d
<1> DEFINE s == SubSeq(rest, 1, n)
           b == Flat(s)
           inTurn == \A i \in 1..n : (i < n \/ more) => rest[i].frame.ack = 0
<1>1. /\ s \in Seq(Packets) /\ Len(s) = n /\ \A i \in 1..n : s[i] = rest[i]
      /\ Len(rest) \in Nat /\ tail \in Seq(Byte)
  BY RestType DEF TypeOK
<1>2. DOMAIN s = 1..n
  BY <1>1, LenProperties
<1>3. b \in Seq(Byte)
  BY <1>1, FlatType
<1>4. /\ data = <<>> /\ ~panic /\ data' = d
      /\ expect' = IF tail = <<>> /\ inTurn THEN s ELSE <<>>
      /\ clean' = (clean /\ inTurn)
      /\ UNCHANGED <<sent, got, live, panic>>
  BY DEF Read, client
<1> HIDE DEF s, b
<1>5. tail \o b \in Seq(Byte)
  BY <1>1, <1>3, Joined
<1>6. d = (tail \o b) \o z
  BY DEF b, s
<1>7. d \in Seq(Byte)
  BY <1>5, <1>6, Joined
<1>8. CASE tail = <<>> /\ inTurn
  <2>1. d = b \o z
    BY <1>3, <1>6, <1>8, ConcatEmptySeq
  <2>2. /\ Len(d) = Len(b) + Len(z) /\ Len(b) \in Nat /\ Len(z) \in Nat
        /\ \A i \in 1..Len(b) : d[i] = b[i]
    <3>1. /\ Len(b \o z) = Len(b) + Len(z)
          /\ \A i \in 1..(Len(b) + Len(z)) : (b \o z)[i] = IF i <= Len(b) THEN b[i] ELSE z[i - Len(b)]
      BY <1>3, ConcatProperties
    <3>2. Len(b) \in Nat /\ Len(z) \in Nat
      BY <1>3
    <3>3. \A i \in 1..Len(b) : i \in 1..(Len(b) + Len(z)) /\ i <= Len(b)
      BY <3>2
    <3>4. \A i \in 1..Len(b) : (b \o z)[i] = b[i]
      BY <3>1, <3>3
    <3> QED BY <2>1, <3>1, <3>2, <3>4
  <2>3. SubSeq(d, 1, Len(b)) = b
    <3>1. \A i \in 1..Len(b) : d[i] \in Byte
      BY <1>3, <2>2, ElementOfSeq
    <3>2. /\ SubSeq(d, 1, Len(b)) \in Seq(Byte)
          /\ Len(SubSeq(d, 1, Len(b))) = IF 1 <= Len(b) THEN Len(b) - 1 + 1 ELSE 0
          /\ \A i \in 1..(Len(b) - 1 + 1) : SubSeq(d, 1, Len(b))[i] = d[1 + i - 1]
      BY <2>2, <3>1, SubSeqProperties
    <3>3. /\ Len(SubSeq(d, 1, Len(b))) = Len(b)
          /\ \A i \in 1..Len(b) : SubSeq(d, 1, Len(b))[i] = d[i]
      BY <2>2, <3>2
    <3> QED BY <1>3, <2>2, <3>2, <3>3, SeqEqual
  <2>4. Len(b) <= Len(d)
    BY <2>2
  <2>5. ASSUME NEW i \in DOMAIN s, i < n \/ Len(b) < Len(d) PROVE s[i].frame.ack = 0
    <3>1. i \in 1..n
      BY <1>2
    <3>2. ~more => Len(d) = Len(b)
      BY <2>1, <1>3, ConcatEmptySeq
    <3>3. i < n \/ more
      BY <2>2, <2>5, <3>2
    <3> QED BY <1>1, <1>8, <3>1, <3>3
  <2>6. expect' = s
    BY <1>4, <1>8
  <2>7. TurnInv'
    BY <1>1, <1>4, <2>3, <2>4, <2>5, <2>6 DEF TurnInv, b
  <2> QED BY <1>4, <1>8, <2>6, <2>7 DEF s
<1>9. CASE ~(tail = <<>> /\ inTurn)
  <2>1. expect' = <<>>
    BY <1>4, <1>9
  <2>2. TurnInv'
    BY <1>4, <1>7, <2>1, NothingExpected
  <2> QED BY <1>4, <1>9, <2>1, <2>2
<1> QED BY <1>8, <1>9

\* The turn that delivers the first frame expected.
LEMMA DeliverExpected ==
  ASSUME TypeOK, WireInv, TurnInv, expect # <<>>
  PROVE  LET f == Head(expect).frame
         IN  /\ ~Stop /\ ~Panic
             /\ Deliver => /\ got' = Append(got, f)
                           /\ live' = IF f.type \in StartTypes THEN KeyOf(f) ELSE live
                           /\ data' = From(data, Len(f.data) + 5)
<1> DEFINE f == Head(expect).frame
<1>1. f \in CarFrames
  <2>1. expect \in Seq(Packets) /\ DOMAIN expect = 1..Len(expect)
    BY LenProperties DEF TypeOK
  <2>2. \A i \in DOMAIN expect : Encoded(expect[i])
    BY DEF WireInv
  <2> QED BY <2>1, <2>2, FlatParts
<1>2. PICK x \in Byte : (f.type \in StartTypes => x = 0) /\ Carries(data, f, x)
  BY ExpectedFirst
<1> HIDE DEF f
<1>3. LET L == Len(f.data) + 5
      IN  /\ Found(data) # {} /\ First = 0 /\ From(data, First) = data
          /\ Len(Frame) = L /\ Len(Frame) >= 5 /\ Len(Frame) \notin {4, 257}
          /\ Message(Frame) = f
          /\ KeyAfter(SubSeq(data, 1, L), First, live)
               = IF f.type \in StartTypes THEN KeyOf(f) ELSE live
  BY <1>1, <1>2, FirstFrame
<1>4. Len(f.data) \in Nat
  BY <1>1, FrameFields
<1>5. ~Stop /\ ~Panic
  BY <1>3, <1>4 DEF Stop, Panic
<1>6. ASSUME Deliver
      PROVE  /\ got' = Append(got, f)
             /\ live' = IF f.type \in StartTypes THEN KeyOf(f) ELSE live
             /\ data' = From(data, Len(f.data) + 5)
  <2>1. /\ got' = Append(got, Message(Frame))
        /\ live' = KeyAfter(SubSeq(From(data, First), 1, Len(Frame)), First, live)
        /\ data' = From(From(data, First), Len(Frame))
    BY <1>6 DEF Deliver
  <2> QED BY <1>3, <2>1
<1> QED BY <1>5, <1>6 DEF f

\* What is left begins with the frames that are left.
LEMMA DeliverTurn ==
  ASSUME TypeOK, WireInv, TurnInv, Deliver
  PROVE  /\ TurnInv'
         /\ expect # <<>> /\ data = Flat(expect) => data' = Flat(expect')
<1>1. CASE expect = <<>>
  <2>1. expect' = <<>>
    BY <1>1 DEF Deliver
  <2>2. data' \in Seq(Byte)
    BY TypeStep DEF Next, TypeOK
  <2>3. TurnInv'
    BY <2>1, <2>2, NothingExpected
  <2> QED BY <1>1, <2>3
<1>2. CASE expect # <<>>
  <2> DEFINE f == Head(expect).frame
             l == Len(f.data) + 5
             t == Tail(expect)
             r == Flat(t)
             b == Flat(expect)
             e == From(data, l)
  <2>1. expect \in Seq(Packets) /\ DOMAIN expect = 1..Len(expect)
    BY LenProperties DEF TypeOK
  <2>2. data \in Seq(Byte) /\ Len(data) \in Nat
    BY DEF TypeOK
  <2>3. \A i \in DOMAIN expect : Encoded(expect[i])
    BY DEF WireInv
  <2>4. /\ f \in CarFrames /\ l \in Nat /\ l >= 5
        /\ t \in Seq(Packets) /\ Len(t) \in Nat
        /\ Len(expect) = Len(t) + 1
        /\ \A i \in 1..Len(t) : t[i] = expect[i + 1]
        /\ b \in Seq(Byte) /\ r \in Seq(Byte) /\ Len(b) = l + Len(r)
        /\ \A i \in 1..Len(r) : b[l + i] = r[i]
    BY <1>2, <2>1, <2>3, FlatParts
  <2>5. data' = e /\ expect' = t /\ UNCHANGED panic /\ ~panic
    <3>1. data' = e
      BY <1>2, DeliverExpected
    <3> QED BY <1>2, <3>1 DEF Deliver
  <2>6. /\ Len(b) <= Len(data) /\ SubSeq(data, 1, Len(b)) = b
        /\ \A i \in DOMAIN expect :
             (i < Len(expect) \/ Len(b) < Len(data)) => expect[i].frame.ack = 0
    BY DEF TurnInv
  <2>7. DOMAIN t = 1..Len(t)
    BY <2>4, LenProperties
  <2> HIDE DEF f, l, t, r, b
  <2>8. Len(r) \in Nat /\ Len(b) \in Nat
    BY <2>4
  <2>9. \A i \in 1..Len(b) : data[i] = b[i]
    <3>1. \A i \in 1..Len(b) : i \in 1..Len(data)
      BY <2>2, <2>6, <2>8
    <3>2. \A i \in 1..Len(b) : data[i] \in Byte
      BY <2>2, <3>1, ElementOfSeq
    <3>3. \A i \in 1..(Len(b) - 1 + 1) : SubSeq(data, 1, Len(b))[i] = data[1 + i - 1]
      BY <2>8, <3>2, SubSeqProperties
    <3>4. \A i \in 1..Len(b) : i \in 1..(Len(b) - 1 + 1) /\ 1 + i - 1 = i
      BY <2>8
    <3> QED BY <2>6, <3>3, <3>4
  <2>10. /\ e \in Seq(Byte)
         /\ Len(e) = IF l <= Len(data) THEN Len(data) - l ELSE 0
         /\ \A i \in 1..(Len(data) - l) : e[i] = data[l + i]
    BY <2>2, <2>4, FromType
  <2> HIDE DEF e
  <2>11. Len(e) = Len(data) - l /\ Len(r) <= Len(e) /\ Len(e) \in Nat
    BY <2>2, <2>4, <2>6, <2>8, <2>10
  <2>12. ASSUME NEW i \in 1..Len(r) PROVE e[i] = r[i]
    <3>1. i \in 1..(Len(data) - l) /\ l + i \in 1..Len(b)
      BY <2>2, <2>4, <2>8, <2>11
    <3> QED BY <2>4, <2>9, <2>10, <3>1
  <2>13. SubSeq(e, 1, Len(r)) = r
    <3>1. \A i \in 1..Len(r) : e[i] \in Byte
      BY <2>4, <2>12, ElementOfSeq
    <3>2. /\ SubSeq(e, 1, Len(r)) \in Seq(Byte)
          /\ Len(SubSeq(e, 1, Len(r))) = IF 1 <= Len(r) THEN Len(r) - 1 + 1 ELSE 0
          /\ \A i \in 1..(Len(r) - 1 + 1) : SubSeq(e, 1, Len(r))[i] = e[1 + i - 1]
      BY <2>8, <3>1, SubSeqProperties
    <3>3. /\ Len(SubSeq(e, 1, Len(r))) = Len(r)
          /\ \A i \in 1..Len(r) : SubSeq(e, 1, Len(r))[i] = e[i]
      BY <2>8, <3>2
    <3> QED BY <2>4, <2>12, <3>2, <3>3, SeqEqual
  <2>14. ASSUME NEW i \in DOMAIN t, i < Len(t) \/ Len(r) < Len(e)
         PROVE  t[i].frame.ack = 0
    <3>1. i \in 1..Len(t) /\ i + 1 \in DOMAIN expect
      BY <2>1, <2>4, <2>7
    <3>2. i + 1 < Len(expect) \/ Len(b) < Len(data)
      BY <2>2, <2>4, <2>8, <2>11, <2>14, <3>1
    <3> QED BY <2>4, <2>6, <3>1, <3>2
  <2>15. TurnInv'
    BY <2>5, <2>11, <2>13, <2>14 DEF TurnInv, r
  <2>16. data = b => e = r
    <3> SUFFICES ASSUME data = b PROVE e = r
      OBVIOUS
    <3>1. Len(e) = Len(r)
      BY <2>4, <2>8, <2>11
    <3> QED BY <2>4, <2>10, <2>12, <3>1, SeqEqual
  <2> QED BY <2>5, <2>15, <2>16 DEF b, r
<1> QED BY <1>1, <1>2

\* The reads, as reads of n whole frames and the bytes z.
LEMMA ReadCases ==
  ASSUME TypeOK, ReadWhole \/ ReadCut \/ ReadTail
  PROVE  \E n \in 0..Len(rest), more \in BOOLEAN, z \in Seq(Byte), d \in Seq(Byte) :
           /\ d = tail \o Flat(SubSeq(rest, 1, n)) \o z /\ (~more => z = <<>>)
           /\ Read(d, n, more)
           /\ cuts' = 0 /\ cuts = 0 /\ tail = <<>> =>
                z = <<>> /\ tail' = <<>> /\ rest' = SubSeq(rest, n + 1, Len(rest))
           /\ cuts' = 0 => cuts = 0
<1>0. rest \in Seq(Packets) /\ Len(rest) \in Nat /\ tail \in Seq(Byte) /\ cuts \in Nat
  BY FrameAssumption DEF TypeOK
<1>1. CASE ReadWhole
  <2>1. PICK n \in 1..Len(rest) :
          /\ Read(tail \o Flat(SubSeq(rest, 1, n)), n, FALSE)
          /\ rest' = SubSeq(rest, n + 1, Len(rest)) /\ tail' = <<>>
          /\ UNCHANGED cuts
    BY <1>1 DEF ReadWhole
  <2>2. n \in 0..Len(rest) /\ FALSE \in BOOLEAN /\ <<>> \in Seq(Byte)
    BY <1>0
  <2> DEFINE d == tail \o Flat(SubSeq(rest, 1, n))
  <2>3. d \in Seq(Byte)
    BY <1>0, <2>2, RestType, FlatType, Joined
  <2>4. d = d \o <<>>
    BY <2>3, ConcatEmptySeq
  <2> QED BY <2>1, <2>2, <2>3, <2>4
<1>2. CASE ReadCut
  <2>1. PICK n \in 1..Len(rest) : \E c \in 1..(Len(rest[n].bytes) - 1) :
          Read(tail \o Flat(SubSeq(rest, 1, n - 1)) \o SubSeq(rest[n].bytes, 1, c), n - 1, TRUE)
    BY <1>2 DEF ReadCut
  <2>2. PICK c \in 1..(Len(rest[n].bytes) - 1) :
          Read(tail \o Flat(SubSeq(rest, 1, n - 1)) \o SubSeq(rest[n].bytes, 1, c), n - 1, TRUE)
    BY <2>1
  <2>3. n - 1 \in 0..Len(rest) /\ TRUE \in BOOLEAN
    BY <1>0
  <2>4. rest[n].bytes \in Seq(Byte) /\ Len(rest[n].bytes) \in Nat
    BY <1>0, PacketBytes
  <2> DEFINE z == SubSeq(rest[n].bytes, 1, c)
             d == tail \o Flat(SubSeq(rest, 1, n - 1)) \o z
  <2>5. z \in Seq(Byte)
    <3>1. \A i \in 1..c : i \in 1..Len(rest[n].bytes)
      BY <2>4
    <3>2. \A i \in 1..c : rest[n].bytes[i] \in Byte
      BY <2>4, <3>1, ElementOfSeq
    <3>3. c \in Int
      BY <2>4
    <3> QED BY <3>2, <3>3, SubSeqProperties
  <2>6. tail \o Flat(SubSeq(rest, 1, n - 1)) \in Seq(Byte)
    BY <1>0, <2>3, RestType, FlatType, Joined
  <2> HIDE DEF z
  <2>7. d \in Seq(Byte)
    BY <2>5, <2>6, Joined
  <2>8. cuts' # 0
    BY <1>0, <1>2 DEF ReadCut
  <2>9. Read(d, n - 1, TRUE)
    BY <2>2 DEF z
  <2> QED BY <2>3, <2>5, <2>7, <2>8, <2>9
<1>3. CASE ReadTail
  <2>1. Read(tail, 0, FALSE) /\ tail # <<>> /\ UNCHANGED cuts
    BY <1>3 DEF ReadTail
  <2>2. 0 \in 0..Len(rest) /\ FALSE \in BOOLEAN /\ <<>> \in Seq(Byte)
    BY <1>0
  <2>3. SubSeq(rest, 1, 0) = <<>>
    BY SubSeqEmpty
  <2>4. tail = tail \o Flat(SubSeq(rest, 1, 0)) \o <<>>
    BY <1>0, <2>3, FlatEmpty, ConcatEmptySeq
  <2> QED BY <1>0, <2>1, <2>2, <2>4
<1> QED BY <1>1, <1>2, <1>3

\* A Read leaves data that begin with the frames expected; Deliver takes the first.
LEMMA TurnStep == TypeOK /\ WireInv /\ TurnInv /\ [Next]_vars => TurnInv'
<1> SUFFICES ASSUME TypeOK, WireInv, TurnInv, [Next]_vars PROVE TurnInv'
  OBVIOUS
<1>1. CASE CarSend
  BY <1>1 DEF CarSend, TurnInv, client
<1>2. CASE ReadWhole \/ ReadCut \/ ReadTail
  <2>1. PICK n \in 0..Len(rest), more \in BOOLEAN, z \in Seq(Byte), d \in Seq(Byte) :
          /\ d = tail \o Flat(SubSeq(rest, 1, n)) \o z /\ (~more => z = <<>>)
          /\ Read(d, n, more)
    BY <1>2, ReadCases
  <2> QED BY <2>1, ReadTurn
<1>3. CASE Stop
  <2>1. data' = <<>> /\ expect' = <<>>
    BY <1>3 DEF Stop
  <2> QED BY <2>1, NothingExpected
<1>4. CASE Panic
  <2>1. expect = <<>>
    BY <1>4, DeliverExpected
  <2>2. data' \in Seq(Byte) /\ expect' = <<>>
    BY <1>4, <2>1 DEF Panic, TypeOK
  <2> QED BY <2>2, NothingExpected
<1>5. CASE Deliver
  BY <1>5, DeliverTurn
<1>6. CASE UNCHANGED vars
  BY <1>6 DEF vars, client, TurnInv
<1> QED
  BY <1>1, <1>2, <1>3, <1>4, <1>5, <1>6 DEF Next

-----------------------------------------------------------------------------
(* As long as no read cuts a frame. *)

LEMMA FlatNonempty ==
  ASSUME TypeOK, WireInv, expect # <<>>
  PROVE  Flat(expect) # <<>>
<1>1. expect \in Seq(Packets) /\ \A i \in DOMAIN expect : Encoded(expect[i])
  BY DEF TypeOK, WireInv
<1> DEFINE l == Len(Head(expect).frame.data) + 5
           b == Flat(expect)
           r == Flat(Tail(expect))
<1>2. l \in Nat /\ l >= 5 /\ r \in Seq(Byte) /\ Len(b) = l + Len(r)
  BY <1>1, FlatParts
<1> HIDE DEF l, b, r
<1>3. Len(r) \in Nat
  BY <1>2
<1>4. Len(b) # 0
  BY <1>2, <1>3
<1> QED BY <1>4 DEF b

\* With no data to parse, what was sent was delivered or is on the way.
LEMMA NothingToParse ==
  ASSUME TypeOK, WireInv, ExactInv, clean, cuts = 0, data = <<>>
  PROVE  expect = <<>> /\ tail = <<>> /\ sent = got \o FramesOf(rest)
<1>1. /\ tail = <<>> /\ data = Flat(expect)
      /\ sent = (got \o FramesOf(expect)) \o FramesOf(rest)
  BY DEF ExactInv
<1>2. expect = <<>>
  BY <1>1, FlatNonempty
<1>3. FramesOf(<<>>) = <<>>
  <2>1. <<>> \in Seq(Packets) /\ Len(<<>>) = 0
    OBVIOUS
  <2>2. FramesOf(<<>>) \in Seq(Messages) /\ Len(FramesOf(<<>>)) = 0
    BY <2>1, FramesOfType
  <2> QED BY <2>2, EmptySeq
<1>4. got \o <<>> = got
  BY ConcatEmptySeq DEF TypeOK
<1> QED BY <1>1, <1>2, <1>3, <1>4

LEMMA JoinThree ==
  \A a, b, c \in Seq(Messages) : (a \o b) \o c = a \o (b \o c)
BY ConcatAssociative

\* While nothing is cut, each step moves frames from one part of the sum to the next.
LEMMA ExactStep == TypeOK /\ WireInv /\ TurnInv /\ ExactInv /\ [Next]_vars => ExactInv'
<1> SUFFICES ASSUME TypeOK, WireInv, TurnInv, ExactInv, [Next]_vars, clean', cuts' = 0
             PROVE  /\ tail' = <<>> /\ data' = Flat(expect')
                    /\ sent' = (got' \o FramesOf(expect')) \o FramesOf(rest')
                    /\ live' = LastKey(got') /\ ~panic'
  BY DEF ExactInv
<1> USE DEF wire, client
<1>0. /\ rest \in Seq(Packets) /\ Len(rest) \in Nat /\ expect \in Seq(Packets)
      /\ got \in Seq(Messages) /\ sent \in Seq(CarFrames)
  BY DEF TypeOK
<1>a. FramesOf(rest) \in Seq(Messages) /\ FramesOf(expect) \in Seq(Messages)
  BY <1>0, FramesOfType
<1>b. clean /\ cuts = 0 => /\ tail = <<>> /\ data = Flat(expect)
                           /\ sent = (got \o FramesOf(expect)) \o FramesOf(rest)
                           /\ live = LastKey(got) /\ ~panic
  BY DEF ExactInv
<1>1. CASE CarSend
  <2>1. PICK f \in CarFrames :
          /\ sent' = Append(sent, f)
          /\ rest' = Append(rest, [frame |-> f, bytes |-> EncodeToBytes(f, XorFor(f))])
          /\ UNCHANGED <<tail, data, got, live, panic, cuts, expect, clean>>
    BY <1>1 DEF CarSend, XorFor
  <2> DEFINE p == [frame |-> f, bytes |-> EncodeToBytes(f, XorFor(f))]
             a == got \o FramesOf(expect)
             r == FramesOf(rest)
  <2>2. p \in Packets /\ p.frame = f
    BY SentXor
  <2>3. f \in Messages
    BY FrameFields
  <2>4. FramesOf(Append(rest, p)) = Append(r, f)
    BY <1>0, <2>2, FramesOfAppend
  <2>5. a \in Seq(Messages) /\ r \in Seq(Messages)
    BY <1>0, <1>a, ConcatProperties
  <2>6. sent = a \o r
    BY <1>b, <2>1
  <2>7. FramesOf(rest') = Append(r, f)
    BY <2>1, <2>4
  <2> HIDE DEF p, a, r
  <2>8. Append(a \o r, f) = a \o Append(r, f)
    <3>1. a \o r \in Seq(Messages) /\ <<f>> \in Seq(Messages)
      BY <2>3, <2>5, ConcatProperties
    <3>2. Append(a \o r, f) = (a \o r) \o <<f>> /\ Append(r, f) = r \o <<f>>
      BY <2>3, <2>5, <3>1, AppendIsConcat
    <3> QED BY <2>5, <3>1, <3>2, ConcatAssociative
  <2>9. sent' = (got' \o FramesOf(expect')) \o FramesOf(rest')
    BY <2>1, <2>6, <2>7, <2>8 DEF a
  <2> QED BY <1>b, <2>1, <2>9
<1>2. CASE ReadWhole \/ ReadCut \/ ReadTail
  <2>1. PICK n \in 0..Len(rest), more \in BOOLEAN, z \in Seq(Byte), d \in Seq(Byte) :
          /\ d = tail \o Flat(SubSeq(rest, 1, n)) \o z /\ (~more => z = <<>>)
          /\ Read(d, n, more)
          /\ cuts' = 0 /\ cuts = 0 /\ tail = <<>> =>
               z = <<>> /\ tail' = <<>> /\ rest' = SubSeq(rest, n + 1, Len(rest))
          /\ cuts' = 0 => cuts = 0
    BY <1>2, ReadCases
  <2>2. cuts = 0 /\ clean /\ data = <<>>
    BY <2>1 DEF Read
  <2>3. expect = <<>> /\ tail = <<>> /\ sent = got \o FramesOf(rest)
    BY <2>2, NothingToParse
  <2>4. z = <<>> /\ tail' = <<>> /\ rest' = SubSeq(rest, n + 1, Len(rest))
    BY <2>1, <2>2, <2>3
  <2>5. /\ expect' = SubSeq(rest, 1, n) /\ ~panic' /\ UNCHANGED <<sent, got, live>>
        /\ data' = d
    BY <2>1, <2>3, ReadTurn
  <2>6. data' = Flat(expect')
    <3>1. Flat(SubSeq(rest, 1, n)) \in Seq(Byte)
      BY RestType, FlatType
    <3> QED BY <2>1, <2>3, <2>4, <2>5, <3>1, ConcatEmptySeq
  <2>7. FramesOf(rest) = FramesOf(expect') \o FramesOf(rest')
    BY <1>0, <2>4, <2>5, FramesOfParts
  <2>8. FramesOf(expect') \in Seq(Messages) /\ FramesOf(rest') \in Seq(Messages)
    BY <2>4, <2>5, RestType, FramesOfType
  <2>9. sent = (got \o FramesOf(expect')) \o FramesOf(rest')
    <3> DEFINE a == FramesOf(expect')
               b == FramesOf(rest')
    <3>1. sent = got \o (a \o b) /\ a \in Seq(Messages) /\ b \in Seq(Messages)
      BY <2>3, <2>7, <2>8
    <3> HIDE DEF a, b
    <3>2. (got \o a) \o b = got \o (a \o b)
      BY <1>0, <3>1, JoinThree
    <3> QED BY <3>1, <3>2 DEF a, b
  <2> QED BY <1>b, <2>2, <2>4, <2>5, <2>6, <2>9
<1>3. CASE Stop
  <2>1. clean /\ cuts = 0 /\ data # <<>>
    BY <1>3 DEF Stop
  <2>2. expect # <<>>
    BY <1>b, <2>1, FlatEmpty
  <2> QED BY <1>3, <2>2, DeliverExpected
<1>4. CASE Panic
  <2>1. clean /\ cuts = 0 /\ data # <<>>
    BY <1>4 DEF Panic
  <2>2. expect # <<>>
    BY <1>b, <2>1, FlatEmpty
  <2> QED BY <1>4, <2>2, DeliverExpected
<1>5. CASE Deliver
  <2>1. /\ clean /\ cuts = 0 /\ data # <<>> /\ UNCHANGED <<sent, rest, tail, panic>>
        /\ expect' = IF expect = <<>> THEN <<>> ELSE Tail(expect)
    BY <1>5 DEF Deliver
  <2>2. expect # <<>> /\ data = Flat(expect)
    BY <1>b, <2>1, FlatEmpty
  <2> DEFINE f == Head(expect).frame
             t == FramesOf(Tail(expect))
  <2>3. got' = Append(got, f) /\ live' = IF f.type \in StartTypes THEN KeyOf(f) ELSE live
    BY <1>5, <2>2, DeliverExpected
  <2>4. data' = Flat(expect')
    BY <1>5, <2>2, DeliverTurn
  <2>5. FramesOf(expect) = <<f>> \o t
    BY <1>0, <2>2, FramesOfHead
  <2>6. f \in Messages /\ t \in Seq(Messages)
    <3>1. Tail(expect) \in Seq(Packets) /\ f = expect[1].frame /\ 1 \in 1..Len(expect)
      BY <1>0, <2>2, HeadTailProperties, EmptySeq
    <3>2. f \in CarFrames
      BY <1>0, <3>1, PacketBytes
    <3> HIDE DEF f
    <3> QED BY <3>1, <3>2, FramesOfType, FrameFields
  <2>7. FramesOf(expect') = t
    BY <2>1, <2>2
  <2> HIDE DEF f, t
  <2>8. live' = LastKey(got')
    BY <1>0, <1>b, <2>1, <2>3, <2>6, LastKeyAppend
  <2>9. got \o FramesOf(expect) = got' \o t
    <3>1. <<f>> \in Seq(Messages) /\ Append(got, f) = got \o <<f>>
      BY <1>0, <2>6, AppendIsConcat
    <3>2. got \in Seq(Messages) /\ got' = got \o <<f>>
      BY <1>0, <2>3, <3>1
    <3>3. t \in Seq(Messages) /\ FramesOf(expect) = <<f>> \o t
      BY <2>5, <2>6
    <3>4. (got \o <<f>>) \o t = got \o (<<f>> \o t)
      BY <3>1, <3>2, <3>3, JoinThree
    <3> QED BY ONLY <3>2, <3>3, <3>4
  <2> QED BY <1>b, <2>1, <2>4, <2>7, <2>8, <2>9
<1>6. CASE UNCHANGED vars
  BY <1>6, <1>b DEF vars
<1> QED
  BY <1>1, <1>2, <1>3, <1>4, <1>5, <1>6 DEF Next

-----------------------------------------------------------------------------
LEMMA FramingInit == Init => FramingInv
<1> SUFFICES ASSUME Init PROVE FramingInv
  OBVIOUS
<1>1. TypeOK
  <2>1. /\ <<>> \in Seq(CarFrames) /\ <<>> \in Seq(Packets) /\ <<>> \in Seq(Byte)
        /\ <<>> \in Seq(Messages) /\ Len(<<>>) = 0
    OBVIOUS
  <2>2. /\ MaxFrames \in Nat /\ MaxCuts \in Nat
    BY FrameAssumption
  <2>3. 0 <= MaxFrames /\ 0 \in 0..MaxCuts
    BY <2>2
  <2>4. /\ sent = <<>> /\ rkey = 0 /\ rest = <<>> /\ tail = <<>> /\ data = <<>>
        /\ got = <<>> /\ live = <<>> /\ panic = FALSE
        /\ cuts = 0 /\ expect = <<>> /\ clean = TRUE /\ skipped = FALSE
    BY DEF Init
  <2>5. /\ Len(sent) <= MaxFrames /\ rkey \in Nat /\ rkey <= Len(sent) /\ cuts \in 0..MaxCuts
        /\ Len(live) \in {0, 8}
    BY <2>1, <2>3, <2>4
  <2> QED BY <2>1, <2>4, <2>5 DEF TypeOK
<1>2. WireInv
  BY DEF Init, WireInv
<1>3. TurnInv
  <2>1. data = <<>> /\ expect = <<>>
    BY DEF Init
  <2>2. SubSeq(<<>>, 1, 0) = <<>>
    BY SubSeqEmpty
  <2>3. Flat(expect) = <<>> /\ Len(<<>>) = 0 /\ DOMAIN expect = {}
    BY <2>1, FlatEmpty
  <2> DEFINE b == Flat(expect)
  <2>4. b = <<>> /\ Len(b) = 0
    BY <2>3
  <2> HIDE DEF b
  <2>5. Len(b) <= Len(data) /\ SubSeq(data, 1, Len(b)) = b
    BY <2>1, <2>2, <2>4
  <2> QED BY <2>1, <2>3, <2>5 DEF TurnInv, b
<1>4. ExactInv
  <2>1. FramesOf(<<>>) = <<>>
    <3>1. <<>> \in Seq(Packets) /\ Len(<<>>) = 0
      OBVIOUS
    <3>2. FramesOf(<<>>) \in Seq(Messages) /\ Len(FramesOf(<<>>)) = 0
      BY <3>1, FramesOfType
    <3> QED BY <3>2, EmptySeq
  <2>2. LastKey(<<>>) = <<>>
    BY DEF LastKey, Starts
  <2>3. <<>> \o <<>> = <<>>
    OBVIOUS
  <2> QED BY <2>1, <2>2, <2>3, FlatEmpty DEF Init, ExactInv
<1> QED BY <1>1, <1>2, <1>3, <1>4 DEF FramingInv

LEMMA FramingStep == FramingInv /\ [Next]_vars => FramingInv'
BY TypeStep, WireStep, TurnStep, ExactStep DEF FramingInv

\* The inductive invariant of Framing holds of every behaviour.
THEOREM FramingInvariant == Spec => []FramingInv
<1>1. Init => FramingInv
  BY FramingInit
<1>2. FramingInv /\ [Next]_vars => FramingInv'
  BY FramingStep
<1> QED BY <1>1, <1>2, PTL DEF Spec

\* Whatever the reads cut out of the stream, every variable keeps its type.
THEOREM FramingTypes == Spec => []TypeOK
<1>1. FramingInv => TypeOK
  BY DEF FramingInv
<1> QED BY <1>1, FramingInvariant, PTL

LEMMA InvariantExact == FramingInv => ExactWhenWhole
<1> SUFFICES ASSUME FramingInv, clean, cuts = 0
             PROVE  /\ Len(got) <= Len(sent) /\ got = SubSeq(sent, 1, Len(got))
                    /\ data = <<>> => Len(got) = Len(sent) - Len(rest)
                    /\ live = LastKey(got) /\ ~panic
  BY DEF ExactWhenWhole
<1> DEFINE e == FramesOf(expect)
           r == FramesOf(rest)
           a == e \o r
<1>1. /\ got \in Seq(Messages) /\ rest \in Seq(Packets) /\ expect \in Seq(Packets)
      /\ TypeOK /\ WireInv /\ ExactInv
  BY DEF FramingInv, TypeOK
<1>2. sent = (got \o e) \o r /\ live = LastKey(got) /\ ~panic
  BY <1>1 DEF ExactInv
<1>3. e \in Seq(Messages) /\ r \in Seq(Messages) /\ Len(r) = Len(rest)
  BY <1>1, FramesOfType
<1>4. data = <<>> => sent = got \o r
  BY <1>1, NothingToParse
<1> HIDE DEF e, r
<1>5. a \in Seq(Messages) /\ sent = got \o a
  BY <1>1, <1>2, <1>3, ConcatAssociative, ConcatProperties
<1> HIDE DEF a
<1>6. /\ Len(sent) = Len(got) + Len(a) /\ sent \in Seq(Messages)
      /\ \A i \in 1..(Len(got) + Len(a)) : sent[i] = IF i <= Len(got) THEN got[i] ELSE a[i - Len(got)]
  BY <1>1, <1>5, ConcatProperties
<1>7. Len(got) \in Nat /\ Len(a) \in Nat /\ Len(r) \in Nat
  BY <1>1, <1>3, <1>5
<1>8. \A i \in 1..Len(got) : sent[i] = got[i] /\ got[i] \in Messages
  BY <1>1, <1>6, <1>7, ElementOfSeq
<1>9. got = SubSeq(sent, 1, Len(got))
  <2> DEFINE p == SubSeq(sent, 1, Len(got))
  <2>1. /\ p \in Seq(Messages) /\ Len(p) = IF 1 <= Len(got) THEN Len(got) - 1 + 1 ELSE 0
        /\ \A i \in 1..(Len(got) - 1 + 1) : p[i] = sent[1 + i - 1]
    BY <1>7, <1>8, SubSeqProperties
  <2> HIDE DEF p
  <2>2. Len(p) = Len(got) /\ \A i \in 1..Len(got) : p[i] = sent[i]
    BY <1>7, <2>1
  <2>3. got = p
    BY <1>1, <1>8, <2>1, <2>2, SeqEqual
  <2> QED BY <2>3 DEF p
<1>10. data = <<>> => Len(sent) = Len(got) + Len(rest)
  <2>1. Len(got \o r) = Len(got) + Len(r)
    BY <1>1, <1>3, ConcatProperties
  <2> QED BY <1>3, <1>4, <2>1
<1>11. data = <<>> => Len(got) = Len(sent) - Len(rest)
  BY <1>3, <1>6, <1>7, <1>10
<1> QED BY <1>2, <1>6, <1>7, <1>9, <1>11

\* As long as no read cuts a frame, and an acknowledgement comes last in its
\* read, the client gets exactly what the car sent, with the key of the last
\* start request, for any frames, any keys of the car and any lengths.
THEOREM ExactDelivery == Spec => []ExactWhenWhole
BY InvariantExact, FramingInvariant, PTL

\* A turn of the loop on data that begin with an expected frame delivers that frame.
LEMMA StepBack ==
  ASSUME FramingInv, Next, expect # <<>>, data' # data \/ panic'
  PROVE  LET f == Head(expect).frame
         IN  /\ ~panic' /\ got' = Append(got, f)
             /\ live' = IF f.type \in StartTypes THEN KeyOf(f) ELSE live
<1>1. TypeOK /\ WireInv /\ TurnInv /\ ~panic
  BY DEF FramingInv, TurnInv
<1>2. ~Stop /\ ~Panic
  BY <1>1, DeliverExpected
<1>3. data # <<>>
  <2>1. Flat(expect) # <<>> /\ Flat(expect) \in Seq(Byte) /\ data \in Seq(Byte)
    BY <1>1, FlatNonempty, FlatType DEF TypeOK
  <2>2. Len(Flat(expect)) \in Nat \ {0} /\ Len(Flat(expect)) <= Len(data)
    BY <1>1, <2>1, EmptySeq DEF TurnInv
  <2> QED BY <2>1, <2>2, EmptySeq
<1>4. ~(ReadWhole \/ ReadCut \/ ReadTail)
  BY <1>3 DEF ReadWhole, ReadCut, ReadTail, Read
<1>5. ~CarSend
  BY <1>1 DEF CarSend, client
<1>6. Deliver
  BY <1>2, <1>4, <1>5 DEF Next
<1>7. ~panic'
  BY <1>1, <1>6 DEF Deliver
<1> QED BY <1>1, <1>6, <1>7, DeliverExpected

\* However much was lost or misread before, each turn on a read that begins with
\* a frame delivers the next frame of it, for any frames and keys.
THEOREM InStepAgain == Spec => BackInStep
<1>1. FramingInv /\ [Next]_vars =>
        [expect # <<>> /\ (data' # data \/ panic')
           => LET f == Head(expect).frame
              IN  /\ ~panic' /\ got' = Append(got, f)
                  /\ live' = IF f.type \in StartTypes THEN KeyOf(f) ELSE live]_vars
  BY StepBack
<1> QED BY <1>1, FramingInvariant, PTL DEF Spec, BackInStep
=============================================================================
