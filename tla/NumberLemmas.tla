---------------------------- MODULE NumberLemmas ----------------------------
(***************************************************************************)
(* Facts about remainders and sequences that the proofs about identifiers, *)
(* event numbers and queues share, and induction up to a number.           *)
(***************************************************************************)
EXTENDS Integers, Sequences, FiniteSetTheorems, TLAPS

-----------------------------------------------------------------------------
(* Division with remainder *)

\* A multiple of m that is greater than another one is so by m at least.
LEMMA MultiplesApart ==
    ASSUME NEW m \in Nat \ {0}, NEW p \in Int, NEW q \in Int, p < q
    PROVE  m * q \in Int /\ m * p \in Int /\ m * q >= m * p + m
<1>1. q >= p + 1
  OBVIOUS
<1>2. m * (q - (p + 1)) >= 0
  BY <1>1
<1>3. m * (q - (p + 1)) = m * q - m * p - m
  OBVIOUS
<1>4. m * q \in Int /\ m * p \in Int
  OBVIOUS
<1> QED
  BY <1>2, <1>3, <1>4

\* Division with remainder is unique.
LEMMA RemainderUnique ==
    ASSUME NEW m \in Nat \ {0}, NEW p \in Int, NEW q \in Int,
           NEW r \in 0..(m - 1), NEW s \in 0..(m - 1), m * p + r = m * q + s
    PROVE  p = q /\ r = s
<1>1. m * p \in Int /\ m * q \in Int
  OBVIOUS
<1>2. ~(p < q) /\ ~(q < p)
  BY <1>1, MultiplesApart
<1>3. p = q
  BY <1>2
<1> QED
  BY <1>1, <1>3

\* Division with remainder exists.
LEMMA DivMod ==
    ASSUME NEW a \in Nat, NEW m \in Nat \ {0}
    PROVE  a \div m \in Nat /\ a % m \in 0..(m - 1) /\ a = (m * (a \div m)) + (a % m)
OBVIOUS

\* Equal remainders have equal successors.
LEMMA SuccessorMod ==
    ASSUME NEW m \in Nat \ {0}, NEW a \in Nat, NEW b \in Nat, a % m = b % m
    PROVE  ((a % m) + 1) % m = (b + 1) % m
<1> DEFINE q == b \div m
           r == b % m
           p == (r + 1) \div m
           x == (r + 1) % m
           y == (b + 1) \div m
           z == (b + 1) % m
<1>1. q \in Nat /\ r \in 0..(m - 1) /\ b = (m * q) + r
  BY DivMod
<1>2. r + 1 \in Nat
  BY <1>1
<1>3. p \in Nat /\ x \in 0..(m - 1) /\ r + 1 = (m * p) + x
  <2> HIDE DEF r
  <2> QED
    BY <1>2, DivMod
<1>4. y \in Nat /\ z \in 0..(m - 1) /\ b + 1 = (m * y) + z
  <2>1. b + 1 \in Nat
    OBVIOUS
  <2> QED
    BY <2>1, DivMod
<1> HIDE DEF q, r, p, x, y, z
<1>5. m * (q + p) = m * q + m * p /\ m * q \in Int /\ m * p \in Int
  BY <1>1, <1>3
<1>6. (m * (q + p)) + x = (m * y) + z
  BY <1>1, <1>3, <1>4, <1>5
<1>7. x = z
  BY <1>1, <1>3, <1>4, <1>6, RemainderUnique
<1> QED
  BY <1>7 DEF x, z, r

\* Numbers of equal remainder are equal or at least a modulus apart.
LEMMA SameModApart ==
    ASSUME NEW m \in Nat \ {0}, NEW a \in Nat, NEW b \in Nat, a <= b, a % m = b % m
    PROVE  a = b \/ b - a >= m
<1> DEFINE p == a \div m
           q == b \div m
           r == a % m
<1>1. p \in Nat /\ r \in 0..(m - 1) /\ a = (m * p) + r
  BY DivMod
<1>2. q \in Nat /\ b = (m * q) + r
  BY DivMod
<1> HIDE DEF p, q, r
<1>3. CASE p < q
  <2>1. m * q \in Int /\ m * p \in Int /\ m * q >= m * p + m
    BY <1>1, <1>2, <1>3, MultiplesApart
  <2> QED
    BY <1>1, <1>2, <2>1
<1>4. CASE q < p
  <2>1. m * q \in Int /\ m * p \in Int /\ m * p >= m * q + m
    BY <1>1, <1>2, <1>4, MultiplesApart
  <2> QED
    BY <1>1, <1>2, <2>1
<1>5. CASE p = q
  BY <1>1, <1>2, <1>5
<1> QED
  BY <1>1, <1>2, <1>3, <1>4, <1>5

\* A multiple of the modulus does not change the remainder.
LEMMA AddMultiple ==
    ASSUME NEW m \in Nat \ {0}, NEW a \in Nat, NEW c \in Nat
    PROVE  (a + m * c) % m = a % m
<1> DEFINE p == a \div m
           r == a % m
           b == a + m * c
           q == b \div m
           z == b % m
<1>1. p \in Nat /\ r \in 0..(m - 1) /\ a = (m * p) + r
  BY DivMod
<1>2. b \in Nat
  OBVIOUS
<1>3. q \in Nat /\ z \in 0..(m - 1) /\ b = (m * q) + z
  <2> HIDE DEF b
  <2> QED
    BY <1>2, DivMod
<1> HIDE DEF p, r, q, z
<1>4. m * (p + c) = m * p + m * c /\ m * p \in Int /\ m * c \in Int /\ m * (p + c) \in Int
  BY <1>1
<1>5. (m * (p + c)) + r = (m * q) + z
  BY <1>1, <1>3, <1>4
<1>6. r = z
  BY <1>1, <1>3, <1>5, RemainderUnique
<1> QED
  BY <1>6 DEF r, z

-----------------------------------------------------------------------------
(* Facts about sequences *)

\* What taking the first element leaves.
LEMMA HeadTail ==
    ASSUME NEW S, NEW s \in Seq(S), s # <<>>
    PROVE  /\ Head(s) \in S /\ Head(s) = s[1] /\ 1 \in 1..Len(s)
           /\ Tail(s) \in Seq(S)
           /\ \A i \in 1..Len(Tail(s)) : i + 1 \in 2..Len(s) /\ Tail(s)[i] = s[i + 1]
OBVIOUS

\* What appending adds.
LEMMA AppendLast ==
    ASSUME NEW S, NEW s \in Seq(S), NEW x \in S
    PROVE  /\ Append(s, x) \in Seq(S)
           /\ \A i \in 1..Len(Append(s, x)) :
                 \/ i \in 1..Len(s) /\ Append(s, x)[i] = s[i]
                 \/ i = Len(s) + 1 /\ Append(s, x)[i] = x
OBVIOUS

-----------------------------------------------------------------------------
(* Induction *)

\* A set of numbers up to n that holds 0 and with each number below n the next
\* one holds n: otherwise the next numbers would be as many as all of them, and
\* 0 is not among them.
LEMMA CountUp ==
    ASSUME NEW n \in Nat, NEW A \in SUBSET (0..n), 0 \in A, \A i \in A : i < n => i + 1 \in A
    PROVE  n \in A
<1> SUFFICES ASSUME n \notin A PROVE FALSE
  OBVIOUS
<1> DEFINE B == A \ {0}
           f == [i \in A |-> i + 1]
<1>1. IsFiniteSet(0..n)
  BY FS_Interval
<1>2. IsFiniteSet(A) /\ Cardinality(A) \in Nat
  BY <1>1, FS_Subset, FS_CardinalityType
<1>3. IsFiniteSet(B) /\ Cardinality(B) < Cardinality(A)
  <2>1. IsFiniteSet(B) /\ Cardinality(B) = IF 0 \in A THEN Cardinality(A) - 1 ELSE Cardinality(A)
    BY <1>2, FS_RemoveElement, Zenon
  <2> QED
    BY <1>2, <2>1
<1>4. f \in [A -> B]
  <2> SUFFICES ASSUME NEW i \in A PROVE i + 1 \in B
    OBVIOUS
  <2>1. i \in 0..n /\ i # n
    OBVIOUS
  <2> QED
    BY <2>1
<1>5. \A i, j \in A : i # j => f[i] # f[j]
  OBVIOUS
<1> HIDE DEF B, f
<1> QED
  BY <1>2, <1>3, <1>4, <1>5, FS_PigeonHole
=============================================================================
