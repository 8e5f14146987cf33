----------------------------- MODULE DataLemmas -----------------------------
(* Facts about the data the specifications are built from: sequences used as
   stacks, whose top is their last element; induction on the naturals, for
   functions that are defined by recursion on a number, where the induction is
   over a set of numbers which a proof defines for the purpose; growing chains of
   subsets of a finite set; powers of two and division; bounds of finite sets; and
   odometers, which read a stack as a number that each step lowers. *)
EXTENDS Integers, Sequences, SequencesExt, SequenceTheorems, FiniteSetTheorems, WellFoundedInduction, TLAPS

(* The top of a stack and the stack below it. *)
LEMMA TopAndBelow ==
    ASSUME NEW S, NEW s \in Seq(S), s # <<>>
    PROVE  /\ Len(s) \in Nat \ {0}
           /\ Last(s) = s[Len(s)] /\ Last(s) \in S
           /\ Front(s) \in Seq(S)
           /\ Len(Front(s)) = Len(s) - 1
           /\ \A i \in 1 .. Len(s) - 1 : Front(s)[i] = s[i]
  <1> DEFINE n == Len(s) - 1
  <1>1. Len(s) \in Nat \ {0}
    OBVIOUS
  <1>2. n \in Int /\ 1 \in Int /\ \A i \in 1 .. n : s[i] \in S
    BY <1>1
  <1>3. n \in Nat
    BY <1>1
  <1>4. Front(s) = SubSeq(s, 1, n)
    BY DEF Front
  <1> HIDE DEF n
  <1>5. /\ SubSeq(s, 1, n) \in Seq(S)
        /\ Len(SubSeq(s, 1, n)) = IF 1 <= n THEN n - 1 + 1 ELSE 0
        /\ \A i \in 1 .. n - 1 + 1 : SubSeq(s, 1, n)[i] = s[1 + i - 1]
    BY <1>2, SubSeqProperties
  <1>6. Len(SubSeq(s, 1, n)) = n /\ \A i \in 1 .. n : SubSeq(s, 1, n)[i] = s[i]
    BY <1>3, <1>5
  <1> QED
    BY <1>1, <1>4, <1>5, <1>6 DEF Last, n

(* Pushing an element. *)
LEMMA Pushed ==
    ASSUME NEW S, NEW s \in Seq(S), NEW x \in S
    PROVE  /\ Append(s, x) \in Seq(S)
           /\ Append(s, x) # <<>>
           /\ Len(Append(s, x)) = Len(s) + 1
           /\ Append(s, x)[Len(s) + 1] = x
           /\ \A i \in 1 .. Len(s) : Append(s, x)[i] = s[i]
  OBVIOUS

(* Replacing the top. *)
LEMMA TopReplaced ==
    ASSUME NEW S, NEW s \in Seq(S), s # <<>>, NEW x \in S
    PROVE  /\ Append(Front(s), x) \in Seq(S)
           /\ Append(Front(s), x) # <<>>
           /\ Len(Append(Front(s), x)) = Len(s)
           /\ Append(Front(s), x)[Len(s)] = x
           /\ \A i \in 1 .. Len(s) - 1 : Append(Front(s), x)[i] = s[i]
  <1> DEFINE f == Front(s)
  <1>1. /\ Len(s) \in Nat \ {0} /\ f \in Seq(S)
        /\ Len(f) = Len(s) - 1 /\ \A i \in 1 .. Len(s) - 1 : f[i] = s[i]
    BY TopAndBelow
  <1> HIDE DEF f
  <1>2. /\ Append(f, x) \in Seq(S) /\ Append(f, x) # <<>>
        /\ Len(Append(f, x)) = Len(f) + 1 /\ Append(f, x)[Len(f) + 1] = x
        /\ \A i \in 1 .. Len(f) : Append(f, x)[i] = f[i]
    BY <1>1, Pushed
  <1>3. /\ Append(f, x) \in Seq(S) /\ Append(f, x) # <<>>
        /\ Len(Append(f, x)) = Len(s) /\ Append(f, x)[Len(s)] = x
        /\ \A i \in 1 .. Len(s) - 1 : Append(f, x)[i] = s[i]
    BY <1>1, <1>2
  <1> QED
    BY <1>3 DEF f

-----------------------------------------------------------------------------
(* The naturals below another. *)
NaturalOrder == OpToRel(<, Nat)

(* A set of naturals has a least one. *)
LEMMA LeastNatural ==
    ASSUME NEW T \in SUBSET Nat, T # {}
    PROVE  \E k \in T : \A j \in T : k <= j
  <1>1. IsWellFoundedOn(NaturalOrder, Nat)
    BY NatLessThanWellFounded, Zenon DEF NaturalOrder
  <1>2. PICK k \in T : \A j \in T : ~(<<j, k>> \in NaturalOrder)
    BY <1>1, WFMin
  <1>3. \A j \in T : ~(j < k)
    BY <1>2 DEF NaturalOrder, OpToRel
  <1> QED
    BY <1>2, <1>3

(* Induction, for a property given as the set of the numbers that have it. *)
LEMMA Induction ==
    ASSUME NEW T, 0 \in T, \A n \in Nat : n \in T => n + 1 \in T
    PROVE  \A n \in Nat : n \in T
  <1> DEFINE Not == {n \in Nat : n \notin T}
  <1> SUFFICES ASSUME Not # {} PROVE FALSE
    OBVIOUS
  <1>1. PICK k \in Not : \A j \in Not : k <= j
    BY LeastNatural
  <1>2. k # 0 /\ k \in Nat
    BY <1>1
  <1>3. k - 1 \in Nat /\ k - 1 + 1 = k
    BY <1>2
  <1>4. k - 1 \in T
    BY <1>1, <1>3
  <1> QED
    BY <1>1, <1>3, <1>4

(* A function on the naturals may be defined from its value one below. *)
LEMMA PrimitiveRecursion ==
    ASSUME NEW S, NEW a \in S, NEW step \in [Nat -> [S -> S]]
    PROVE  \E f \in [Nat -> S] : f[0] = a /\ \A n \in Nat : f[n + 1] = step[n + 1][f[n]]
  <1> DEFINE Upto(n) == {g \in [0 .. n -> S] : g[0] = a /\ \A i \in 1 .. n : g[i] = step[i][g[i - 1]]}
  <1>1. ASSUME NEW n \in Nat, NEW g \in Upto(n)
        PROVE  [i \in 0 .. n + 1 |-> IF i = n + 1 THEN step[n + 1][g[n]] ELSE g[i]] \in Upto(n + 1)
    <2> DEFINE h == [i \in 0 .. n + 1 |-> IF i = n + 1 THEN step[n + 1][g[n]] ELSE g[i]]
    <2>1. g \in [0 .. n -> S] /\ g[0] = a /\ \A i \in 1 .. n : g[i] = step[i][g[i - 1]]
      OBVIOUS
    <2>2. g[n] \in S
      BY <2>1
    <2>3. step[n + 1][g[n]] \in S
      BY <2>2
    <2>4. h[n + 1] = step[n + 1][g[n]] /\ \A i \in 0 .. n : h[i] = g[i]
      OBVIOUS
    <2>5. h \in [0 .. n + 1 -> S]
      BY <2>1, <2>3
    <2> HIDE DEF h
    <2>6. h[0] = a
      BY <2>1, <2>4
    <2>7. ASSUME NEW i \in 1 .. n + 1 PROVE h[i] = step[i][h[i - 1]]
      <3>1. CASE i = n + 1
        <4>1. h[i - 1] = g[n]
          BY <2>4, <3>1
        <4> QED
          BY <2>4, <3>1, <4>1
      <3>2. CASE i # n + 1
        <4>1. i \in 1 .. n /\ i \in 0 .. n /\ i - 1 \in 0 .. n
          BY <3>2
        <4> QED
          BY <2>1, <2>4, <4>1
      <3> QED
        BY <3>1, <3>2
    <2>8. h \in Upto(n + 1)
      BY <2>5, <2>6, <2>7
    <2> QED
      BY <2>8 DEF h
  <1>2. [i \in 0 .. 0 |-> a] \in Upto(0)
    OBVIOUS
  <1> DEFINE T == {n \in Nat : Upto(n) # {}}
  <1>3. \A n \in Nat : n \in T
    <2>1. 0 \in T
      BY <1>2
    <2>2. ASSUME NEW n \in Nat, n \in T PROVE n + 1 \in T
      <3> HIDE DEF Upto
      <3>1. PICK g \in Upto(n) : TRUE
        BY <2>2
      <3>2. \E h : h \in Upto(n + 1)
        BY <1>1, <3>1
      <3> QED
        BY <3>2
    <2> HIDE DEF T
    <2> QED
      BY <2>1, <2>2, Induction
  <1>4. ASSUME NEW m \in Nat, NEW n \in Nat, m <= n, NEW g \in Upto(m), NEW h \in Upto(n)
        PROVE  \A i \in Nat : i <= m => g[i] = h[i]
    <2> DEFINE A == {i \in Nat : i <= m => g[i] = h[i]}
    <2>1. 0 \in A
      OBVIOUS
    <2>2. ASSUME NEW i \in Nat, i \in A PROVE i + 1 \in A
      <3> SUFFICES ASSUME i + 1 <= m PROVE g[i + 1] = h[i + 1]
        OBVIOUS
      <3>1. i + 1 \in 1 .. m /\ i + 1 \in 1 .. n /\ i + 1 - 1 = i /\ i <= m
        BY <1>4
      <3>2. g[i] = h[i]
        BY <2>2, <3>1
      <3>3. \A k \in 1 .. m : g[k] = step[k][g[k - 1]]
        OBVIOUS
      <3>4. \A k \in 1 .. n : h[k] = step[k][h[k - 1]]
        OBVIOUS
      <3> QED
        BY <3>1, <3>2, <3>3, <3>4
    <2> HIDE DEF A
    <2>3. \A i \in Nat : i \in A
      BY <2>1, <2>2, Induction
    <2> QED
      BY <2>3 DEF A
  <1> DEFINE g(n) == CHOOSE x \in Upto(n) : TRUE
             f    == [n \in Nat |-> g(n)[n]]
  <1>5. \A n \in Nat : g(n) \in Upto(n)
    BY <1>3
  <1>6. ASSUME NEW n \in Nat PROVE g(n)[n] \in S
    <2>1. g(n) \in [0 .. n -> S]
      BY <1>5
    <2> QED
      BY <2>1
  <1>7. f \in [Nat -> S]
    BY <1>6
  <1>8. g(0)[0] = a
    BY <1>5
  <1>9. ASSUME NEW n \in Nat, n # 0 PROVE g(n)[n] = step[n][g(n - 1)[n - 1]]
    <2>1. n - 1 \in Nat /\ n - 1 <= n /\ n \in 1 .. n
      BY <1>9
    <2>2. g(n) \in Upto(n) /\ g(n - 1) \in Upto(n - 1)
      BY <1>5, <2>1
    <2>3. g(n)[n] = step[n][g(n)[n - 1]]
      BY <2>1, <2>2
    <2> HIDE DEF g, Upto
    <2>4. g(n - 1)[n - 1] = g(n)[n - 1]
      BY <1>4, <2>1, <2>2
    <2> QED
      BY <2>3, <2>4
  <1>10. \A n \in Nat : f[n] = g(n)[n]
    OBVIOUS
  <1> HIDE DEF g
  <1>11. ASSUME NEW n \in Nat PROVE f[n + 1] = step[n + 1][f[n]]
    <2>1. n + 1 \in Nat /\ n + 1 # 0 /\ n + 1 - 1 = n
      OBVIOUS
    <2> HIDE DEF f
    <2> QED
      BY <1>9, <1>10, <2>1
  <1> QED
    BY <1>7, <1>8, <1>10, <1>11

(* A growing chain of subsets of a finite set, once it stands still, stands still
   from then on; so it does at the latest after as many steps as there are elements. *)
LEMMA ChainStops ==
    ASSUME NEW S, IsFiniteSet(S), NEW f \in [Nat -> SUBSET S],
           \A n \in Nat : f[n] \subseteq f[n + 1],
           \A n \in Nat : f[n + 1] = f[n] => f[n + 1 + 1] = f[n + 1]
    PROVE  f[Cardinality(S) + 1] = f[Cardinality(S)]
  <1> DEFINE N == Cardinality(S)
             T == {n \in Nat : f[n + 1] = f[n] \/ n + 1 <= Cardinality(f[n + 1])}
  <1>1. N \in Nat
    BY FS_CardinalityType
  <1>2. ASSUME NEW n \in Nat
        PROVE  IsFiniteSet(f[n]) /\ Cardinality(f[n]) \in Nat /\ Cardinality(f[n]) <= N
    BY FS_Subset, FS_CardinalityType
  <1>3. ASSUME NEW n \in Nat, f[n + 1] # f[n]
        PROVE  Cardinality(f[n]) + 1 <= Cardinality(f[n + 1])
    <2> DEFINE small == f[n]
               large == f[n + 1]
    <2>1. IsFiniteSet(large) /\ Cardinality(large) \in Nat /\ Cardinality(small) \in Nat
          /\ small \in SUBSET large /\ small # large
      BY <1>2, <1>3
    <2> HIDE DEF small, large
    <2>2. Cardinality(small) <= Cardinality(large) /\ Cardinality(large) # Cardinality(small)
      BY <2>1, FS_Subset
    <2>3. Cardinality(small) + 1 <= Cardinality(large)
      BY <2>1, <2>2
    <2> QED
      BY <2>3 DEF small, large
  <1>4. 0 \in T
    <2>1. 0 \in Nat /\ 0 + 1 \in Nat
      OBVIOUS
    <2>2. Cardinality(f[0]) \in Nat /\ Cardinality(f[0 + 1]) \in Nat
      BY <1>2, <2>1
    <2> QED
      BY <1>3, <2>1, <2>2
  <1>5. ASSUME NEW n \in Nat, n \in T PROVE n + 1 \in T
    <2> SUFFICES ASSUME f[n + 1 + 1] # f[n + 1] PROVE n + 1 + 1 <= Cardinality(f[n + 1 + 1])
      OBVIOUS
    <2>1. n + 1 \in Nat /\ n + 1 + 1 \in Nat
      OBVIOUS
    <2>2. n + 1 <= Cardinality(f[n + 1])
      BY <1>5
    <2>3. Cardinality(f[n + 1]) + 1 <= Cardinality(f[n + 1 + 1])
      BY <1>3, <2>1
    <2>4. Cardinality(f[n + 1]) \in Nat /\ Cardinality(f[n + 1 + 1]) \in Nat
      BY <1>2, <2>1
    <2> QED
      BY <2>1, <2>2, <2>3, <2>4
  <1> HIDE DEF T
  <1>6. \A n \in Nat : n \in T
    BY <1>4, <1>5, Induction
  <1>7. f[N + 1] = f[N] \/ N + 1 <= Cardinality(f[N + 1])
    BY <1>1, <1>6 DEF T
  <1>8. Cardinality(f[N + 1]) \in Nat /\ Cardinality(f[N + 1]) <= N
    <2>1. N + 1 \in Nat
      BY <1>1
    <2> QED
      BY <1>2, <2>1
  <1> HIDE DEF N
  <1>9. f[N + 1] = f[N]
    BY <1>1, <1>7, <1>8
  <1> QED
    BY <1>9 DEF N
-----------------------------------------------------------------------------
(* 2 ^ (a + b) is the number of subsets of 1 .. a + b, each of which consists of a
   subset of the first a numbers and one of the b others. *)
LEMMA PowerOfSum ==
    ASSUME NEW a \in Nat, NEW b \in Nat
    PROVE  /\ 2 ^ a \in Nat \ {0}
           /\ 2 ^ (a + b) = 2 ^ a * 2 ^ b
  <1> DEFINE A == 1 .. a
             B == (a + 1) .. (a + b)
             C == 1 .. (a + b)
             f == [T \in SUBSET C |-> <<T \cap A, T \cap B>>]
  <1>1. /\ IsFiniteSet(A) /\ Cardinality(A) = a
        /\ IsFiniteSet(B) /\ Cardinality(B) = b
        /\ IsFiniteSet(C) /\ Cardinality(C) = a + b
    <2>1. /\ IsFiniteSet(A) /\ Cardinality(A) = IF 1 > a THEN 0 ELSE a - 1 + 1
      BY FS_Interval
    <2>2. /\ IsFiniteSet(C) /\ Cardinality(C) = IF 1 > a + b THEN 0 ELSE a + b - 1 + 1
      BY FS_Interval
    <2>3. /\ IsFiniteSet(B) /\ Cardinality(B) = IF a + 1 > a + b THEN 0 ELSE a + b - (a + 1) + 1
      BY FS_Interval
    <2> HIDE DEF A, B, C
    <2> QED
      BY <2>1, <2>2, <2>3
  <1>2. C = A \cup B /\ A \cap B = {}
    OBVIOUS
  <1> HIDE DEF A, B, C
  <1>3. f \in Bijection(SUBSET C, (SUBSET A) \X (SUBSET B))
    <2>1. f \in [SUBSET C -> (SUBSET A) \X (SUBSET B)]
      OBVIOUS
    <2>2. ASSUME NEW T \in SUBSET C, NEW U \in SUBSET C, f[T] = f[U] PROVE T = U
      <3>1. T \cap A = U \cap A /\ T \cap B = U \cap B
        BY <2>2
      <3> QED
        BY <1>2, <3>1
    <2>3. ASSUME NEW p \in (SUBSET A) \X (SUBSET B) PROVE \E T \in SUBSET C : f[T] = p
      <3>1. p[1] \cup p[2] \in SUBSET C
        BY <1>2
      <3>2. (p[1] \cup p[2]) \cap A = p[1] /\ (p[1] \cup p[2]) \cap B = p[2]
        BY <1>2
      <3>3. f[p[1] \cup p[2]] = p
        BY <3>1, <3>2
      <3> QED
        BY <3>1, <3>3
    <2> QED
      BY <2>1, <2>2, <2>3, Zenon DEF Bijection, Injection, Surjection, IsInjective
  <1>4. ExistsBijection(SUBSET C, (SUBSET A) \X (SUBSET B))
    BY <1>3 DEF ExistsBijection
  <1>5. /\ IsFiniteSet(SUBSET A) /\ Cardinality(SUBSET A) = 2 ^ a
        /\ IsFiniteSet(SUBSET B) /\ Cardinality(SUBSET B) = 2 ^ b
        /\ IsFiniteSet(SUBSET C) /\ Cardinality(SUBSET C) = 2 ^ (a + b)
    BY <1>1, FS_SUBSET
  <1>6. Cardinality((SUBSET A) \X (SUBSET B)) = Cardinality(SUBSET A) * Cardinality(SUBSET B)
    BY <1>5, FS_Product
  <1>7. Cardinality((SUBSET A) \X (SUBSET B)) = Cardinality(SUBSET C)
    BY <1>4, <1>5, FS_Bijection
  <1>8. Cardinality(SUBSET A) \in Nat
    BY <1>5, FS_CardinalityType
  <1>9. Cardinality(SUBSET A) # 0
    <2>1. SUBSET A # {}
      OBVIOUS
    <2> QED
      BY <1>5, <2>1, FS_EmptySet
  <1> QED
    BY <1>5, <1>6, <1>7, <1>8, <1>9

(* Powers of two: their values at the start, the next one, and their order. *)
LEMMA Powers ==
    ASSUME NEW n \in Nat
    PROVE  /\ 2 ^ n \in Nat \ {0}
           /\ 2 ^ 0 = 1 /\ 2 ^ 1 = 2
           /\ 2 ^ (n + 1) = 2 * 2 ^ n
  <1>1. 2 ^ 0 = 1 /\ 2 ^ 1 = 2
    OBVIOUS
  <1>2. 2 ^ n \in Nat \ {0} /\ 2 ^ (n + 1) = 2 ^ n * 2 ^ 1
    BY PowerOfSum
  <1> QED
    BY <1>1, <1>2

LEMMA PowersGrow ==
    ASSUME NEW m \in Nat, NEW n \in Nat, m <= n
    PROVE  /\ 2 ^ n = 2 ^ m * 2 ^ (n - m)
           /\ 2 ^ m <= 2 ^ n
           /\ 2 ^ (n - m) \in Nat \ {0}
  <1>1. n - m \in Nat /\ n = m + (n - m)
    OBVIOUS
  <1>2. 2 ^ (m + (n - m)) = 2 ^ m * 2 ^ (n - m)
    BY <1>1, PowerOfSum
  <1>3. 2 ^ m \in Nat \ {0} /\ 2 ^ (n - m) \in Nat \ {0}
    BY <1>1, Powers
  <1>4. ASSUME NEW a \in Nat \ {0}, NEW b \in Nat \ {0} PROVE a <= a * b
    OBVIOUS
  <1>5. 2 ^ n = 2 ^ m * 2 ^ (n - m)
    BY <1>1, <1>2
  <1> QED
    BY <1>3, <1>4, <1>5

(* Division by a positive number, and what is known of a remainder. *)
LEMMA Dividing ==
    ASSUME NEW m \in Nat \ {0}, NEW n \in Int
    PROVE  /\ n \div m \in Int /\ n % m \in 0 .. m - 1
           /\ n = m * (n \div m) + (n % m)
           /\ n \in 0 .. m - 1 => n % m = n
  OBVIOUS

LEMMA RemainderIs ==
    ASSUME NEW m \in Nat \ {0}, NEW q \in Int, NEW r \in 0 .. m - 1
    PROVE  (m * q + r) % m = r
  OBVIOUS

LEMMA RemainderOfRemainder ==
    ASSUME NEW m \in Nat \ {0}, NEW k \in Nat \ {0}, NEW n \in Int
    PROVE  (n % (m * k)) % m = n % m
  <1> DEFINE M == m * k
             r == n % M
             p == n \div M
             q == r \div m
             s == r % m
  <1>1. M \in Nat \ {0}
    OBVIOUS
  <1> HIDE DEF M
  <1>2. p \in Int /\ r \in Int /\ n = M * p + r
    BY <1>1, Dividing
  <1>3. q \in Int /\ s \in 0 .. m - 1 /\ r = m * q + s
    BY <1>2, Dividing
  <1> HIDE DEF p, q, r, s
  <1>4. M * p = m * (k * p)
    BY <1>2 DEF M
  <1>5. k * p + q \in Int /\ m * (k * p + q) = m * (k * p) + m * q
    BY <1>2, <1>3
  <1>6. n = m * (k * p + q) + s
    BY <1>2, <1>3, <1>4, <1>5
  <1>7. (m * (k * p + q) + s) % m = s
    BY <1>3, <1>5, RemainderIs
  <1> QED
    BY <1>6, <1>7 DEF M, r, s

(* The naturals that a function takes on a finite set have a bound. *)
LEMMA FiniteBound ==
    ASSUME NEW S, IsFiniteSet(S), NEW f \in [S -> Nat]
    PROVE  \E b \in Nat : \A x \in S : f[x] <= b
  <1>1. PICK n \in Nat : ExistsSurjection(1 .. n, S)
    BY FS_NatSurjection
  <1>2. PICK g \in Surjection(1 .. n, S) : TRUE
    BY <1>1 DEF ExistsSurjection
  <1>3. g \in [1 .. n -> S] /\ \A x \in S : \E i \in 1 .. n : g[i] = x
    BY <1>2 DEF Surjection
  <1> DEFINE T == {k \in Nat : k <= n => \E b \in Nat : \A i \in 1 .. k : f[g[i]] <= b}
  <1>4. 0 \in T
    OBVIOUS
  <1>5. ASSUME NEW k \in Nat, k \in T PROVE k + 1 \in T
    <2> SUFFICES ASSUME k + 1 <= n PROVE \E b \in Nat : \A i \in 1 .. k + 1 : f[g[i]] <= b
      OBVIOUS
    <2>1. PICK b \in Nat : \A i \in 1 .. k : f[g[i]] <= b
      BY <1>5
    <2>2. f[g[k + 1]] \in Nat
      BY <1>3
    <2>3. PICK c \in Nat : b <= c /\ f[g[k + 1]] <= c
      BY <2>2
    <2>4. \A i \in 1 .. k + 1 : f[g[i]] <= c
      <3> TAKE i \in 1 .. k + 1
      <3>1. CASE i \in 1 .. k
        <4>1. f[g[i]] <= b /\ f[g[i]] \in Nat
          BY <1>3, <2>1, <3>1
        <4> QED
          BY <2>3, <4>1
      <3>2. CASE i = k + 1
        BY <2>3, <3>2
      <3> QED
        BY <3>1, <3>2
    <2> QED
      BY <2>4
  <1>6. n \in T
    <2> HIDE DEF T
    <2> QED
      BY <1>4, <1>5, Induction
  <1>7. PICK b \in Nat : \A i \in 1 .. n : f[g[i]] <= b
    BY <1>6
  <1> QED
    BY <1>3, <1>7

LEMMA FourFinite ==
    ASSUME NEW a, NEW b, NEW c, NEW d
    PROVE  IsFiniteSet({a, b, c, d})
  <1>1. IsFiniteSet({a} \cup {b})
    BY FS_Singleton, FS_AddElement
  <1>2. IsFiniteSet({a} \cup {b} \cup {c})
    BY <1>1, FS_AddElement
  <1>3. IsFiniteSet({a} \cup {b} \cup {c} \cup {d})
    BY <1>2, FS_AddElement
  <1>4. {a} \cup {b} \cup {c} \cup {d} = {a, b, c, d}
    OBVIOUS
  <1> QED
    BY <1>3, <1>4

(* A part of a finite set that misses one of its elements is smaller. *)
LEMMA SmallerSubset ==
    ASSUME NEW S, IsFiniteSet(S), NEW T, T \subseteq S, NEW x \in S, x \notin T
    PROVE  Cardinality(T) \in Nat /\ Cardinality(S) \in Nat /\ Cardinality(T) < Cardinality(S)
  <1>1. IsFiniteSet(T) /\ Cardinality(T) <= Cardinality(S) /\ (Cardinality(S) = Cardinality(T) => S = T)
    BY FS_Subset
  <1>2. Cardinality(S) \in Nat /\ Cardinality(T) \in Nat
    BY <1>1, FS_CardinalityType
  <1> QED
    BY <1>1, <1>2

(***************************************************************************)
(* An odometer: n digits d[1], ..., d[n] below b, the first the highest.   *)
(***************************************************************************)
Reading(d, b, n) ==
    LET upTo[k \in Nat] == IF k = 0 THEN 0 ELSE upTo[k - 1] * b + d[k]
    IN  upTo[n]

LEMMA ReadingFollows ==
    ASSUME NEW b \in Nat, NEW d \in [Nat -> Nat]
    PROVE  /\ Reading(d, b, 0) = 0
           /\ \A n \in Nat : /\ Reading(d, b, n) \in Nat
                             /\ Reading(d, b, n + 1) = Reading(d, b, n) * b + d[n + 1]
  <1> DEFINE Is(f) == f = [k \in Nat |-> IF k = 0 THEN 0 ELSE f[k - 1] * b + d[k]]
             step == [k \in Nat |-> [x \in Nat |-> x * b + d[k]]]
  <1>1. step \in [Nat -> [Nat -> Nat]]
    OBVIOUS
  <1>2. PICK f \in [Nat -> Nat] : f[0] = 0 /\ \A n \in Nat : f[n + 1] = step[n + 1][f[n]]
    <2> DEFINE Recursion(U) == \A a \in U : \A next \in [Nat -> [U -> U]] :
                 \E f \in [Nat -> U] : f[0] = a /\ \A n \in Nat : f[n + 1] = next[n + 1][f[n]]
    <2>1. \A U : Recursion(U)
      BY PrimitiveRecursion
    <2> HIDE DEF Recursion
    <2>2. Recursion(Nat)
      BY <2>1
    <2> USE DEF Recursion
    <2> HIDE DEF step
    <2> QED
      BY <1>1, <2>2
  <1>3. ASSUME NEW n \in Nat PROVE f[n + 1] = f[n] * b + d[n + 1]
    <2>1. f[n] \in Nat /\ n + 1 \in Nat
      BY <1>2
    <2>2. step[n + 1][f[n]] = f[n] * b + d[n + 1]
      BY <2>1
    <2> HIDE DEF step
    <2> QED
      BY <1>2, <2>2
  <1>4. \A k \in Nat : f[k] = IF k = 0 THEN 0 ELSE f[k - 1] * b + d[k]
    <2> TAKE k \in Nat
    <2>1. CASE k = 0
      BY <1>2, <2>1
    <2>2. CASE k # 0
      <3>1. k - 1 \in Nat /\ k - 1 + 1 = k
        BY <2>2
      <3> QED
        BY <1>3, <2>2, <3>1
    <2> QED
      BY <2>1, <2>2
  <1>5. Is(f)
    BY <1>2, <1>4
  <1> DEFINE u == CHOOSE g : Is(g)
  <1>6. Is(u)
    <2> HIDE DEF Is
    <2> QED
      BY <1>5
  <1>7. \A n \in Nat : Reading(d, b, n) = u[n]
    BY DEF Reading
  <1>8. u[0] = 0 /\ \A k \in Nat : k # 0 => u[k] = u[k - 1] * b + d[k]
    <2>1. u = [k \in Nat |-> IF k = 0 THEN 0 ELSE u[k - 1] * b + d[k]]
      BY <1>6
    <2> HIDE DEF u
    <2> QED
      BY <2>1
  <1> HIDE DEF u, Is, step
  <1>9. \A n \in Nat : u[n + 1] = u[n] * b + d[n + 1]
    <2> TAKE n \in Nat
    <2>1. n + 1 \in Nat /\ n + 1 # 0 /\ n + 1 - 1 = n
      OBVIOUS
    <2> QED
      BY <1>8, <2>1
  <1>10. \A n \in Nat : u[n] \in Nat
    <2> DEFINE T == {n \in Nat : u[n] \in Nat}
    <2>1. 0 \in T
      BY <1>8
    <2>2. ASSUME NEW n \in Nat, n \in T PROVE n + 1 \in T
      <3>1. u[n] \in Nat /\ d[n + 1] \in Nat
        BY <2>2
      <3>2. u[n] * b + d[n + 1] \in Nat
        BY <3>1
      <3> QED
        BY <1>9, <3>2
    <2> HIDE DEF T
    <2>3. \A n \in Nat : n \in T
      BY <2>1, <2>2, Induction
    <2> QED
      BY <2>3 DEF T
  <1>11. \A n \in Nat : n + 1 \in Nat
    OBVIOUS
  <1> QED
    BY <1>7, <1>8, <1>9, <1>10, <1>11

(* When a digit falls and those above it stay, the reading falls. *)
LEMMA ReadingFalls ==
    ASSUME NEW b \in Nat, NEW n \in Nat, NEW c \in [Nat -> Nat], NEW d \in [Nat -> Nat],
           \A k \in 1 .. n : d[k] < b,
           NEW i \in 1 .. n, d[i] < c[i], \A k \in 1 .. i - 1 : d[k] = c[k]
    PROVE  Reading(d, b, n) < Reading(c, b, n)
  <1> DEFINE R(k) == Reading(c, b, k)
             S(k) == Reading(d, b, k)
  <1>1. /\ R(0) = 0 /\ S(0) = 0
        /\ \A k \in Nat : /\ R(k) \in Nat /\ S(k) \in Nat
                          /\ R(k + 1) = R(k) * b + c[k + 1]
                          /\ S(k + 1) = S(k) * b + d[k + 1]
    BY ReadingFollows
  <1>2. \A k \in Nat : c[k] \in Nat /\ d[k] \in Nat
    OBVIOUS
  <1> HIDE DEF R, S
  <1> DEFINE Same == {k \in Nat : k < i => S(k) = R(k)}
             Less == {k \in Nat : i + k <= n => S(i + k) < R(i + k)}
  <1>3. \A k \in Nat : k \in Same
    <2>1. 0 \in Same
      BY <1>1
    <2>2. ASSUME NEW k \in Nat, k \in Same PROVE k + 1 \in Same
      <3> SUFFICES ASSUME k + 1 < i PROVE S(k + 1) = R(k + 1)
        OBVIOUS
      <3>1. S(k) = R(k) /\ d[k + 1] = c[k + 1]
        BY <2>2
      <3> QED
        BY <1>1, <3>1
    <2> HIDE DEF Same
    <2> QED
      BY <2>1, <2>2, Induction
  <1>4. S(i) < R(i)
    <2>1. i - 1 \in Nat /\ i - 1 + 1 = i
      OBVIOUS
    <2>2. S(i - 1) = R(i - 1)
      BY <1>3, <2>1
    <2>3. R(i) = R(i - 1) * b + c[i] /\ S(i) = R(i - 1) * b + d[i] /\ R(i - 1) \in Nat
      BY <1>1, <2>1, <2>2
    <2>4. R(i - 1) * b \in Nat /\ c[i] \in Nat /\ d[i] \in Nat
      BY <1>2, <2>3
    <2> QED
      BY <2>3, <2>4
  <1>5. ASSUME NEW x \in Nat, NEW y \in Nat, x < y, NEW e \in Nat, e < b, NEW f \in Nat
        PROVE  x * b + e < y * b + f
    <2>1. PICK z \in Nat : y = x + 1 + z
      <3>1. y - x - 1 \in Nat
        BY <1>5
      <3> QED
        BY <3>1
    <2>2. (x + 1 + z) * b = x * b + b + z * b
      OBVIOUS
    <2>3. x * b \in Nat /\ z * b \in Nat
      OBVIOUS
    <2> QED
      BY <1>5, <2>1, <2>2, <2>3
  <1>6. \A k \in Nat : k \in Less
    <2>1. 0 \in Less
      BY <1>4
    <2>2. ASSUME NEW k \in Nat, k \in Less PROVE k + 1 \in Less
      <3> SUFFICES ASSUME i + (k + 1) <= n PROVE S(i + (k + 1)) < R(i + (k + 1))
        OBVIOUS
      <3>1. i + k \in Nat /\ i + (k + 1) = (i + k) + 1 /\ i + k <= n /\ (i + k) + 1 \in 1 .. n
        OBVIOUS
      <3>2. S(i + k) < R(i + k)
        BY <2>2, <3>1
      <3>3. /\ S(i + k) \in Nat /\ R(i + k) \in Nat
            /\ S((i + k) + 1) = S(i + k) * b + d[(i + k) + 1]
            /\ R((i + k) + 1) = R(i + k) * b + c[(i + k) + 1]
        BY <1>1, <3>1
      <3>4. d[(i + k) + 1] < b /\ d[(i + k) + 1] \in Nat /\ c[(i + k) + 1] \in Nat
        BY <1>2, <3>1
      <3>5. S(i + k) * b + d[(i + k) + 1] < R(i + k) * b + c[(i + k) + 1]
        BY <1>5, <3>2, <3>3, <3>4
      <3> QED
        BY <3>1, <3>3, <3>5
    <2> HIDE DEF Less
    <2> QED
      BY <2>1, <2>2, Induction
  <1>7. n - i \in Nat /\ i + (n - i) = n
    OBVIOUS
  <1>8. S(n) < R(n)
    <2>1. n - i \in Less
      BY <1>6, <1>7
    <2> QED
      BY <1>7, <2>1
  <1> QED
    BY <1>8 DEF R, S

(* A stack on which no two frames have the same key is no higher than there are keys. *)
LEMMA StackBounded ==
    ASSUME NEW K, IsFiniteSet(K), NEW n \in Nat, NEW key \in [1 .. n -> K],
           \A i, j \in 1 .. n : key[i] = key[j] => i = j
    PROVE  n <= Cardinality(K) /\ Cardinality(K) \in Nat
  <1>1. key \in Injection(1 .. n, K)
    BY DEF Injection, IsInjective
  <1>2. Cardinality(1 .. n) = n
    BY FS_Interval
  <1> QED
    BY <1>1, <1>2, FS_Injection, FS_CardinalityType
=============================================================================
