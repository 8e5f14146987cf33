--------------------------- MODULE PrimOpsProofs ---------------------------
(***************************************************************************)
(* The three passes agree on every call of a primitive operation, whatever *)
(* the widths of the integer types, the types of a program and the         *)
(* arguments: the cells that the analyzer's answer had allocated fit what  *)
(* the other two write (AssertionsHold), a call has one result at compile  *)
(* time and at run time (CompileTimeEqualsRunTime), and a checked integer  *)
(* operation is exact or reports overflow (CheckedIsExact).                *)
(*                                                                         *)
(* The first part is about integers of a width: their range, wrapping,     *)
(* division and shifts.  The second goes through the primitives as the     *)
(* switches of the passes do.                                              *)
(***************************************************************************)
EXTENDS PrimOps, DataLemmas

(* A type of integers; IntT and the wider types computed with need not be types of
   the program. *)
Integral(t) == t.bits \in Nat \ {0} /\ t.signed \in BOOLEAN

LEMMA RangeOfType ==
    ASSUME NEW t, Integral(t)
    PROVE  /\ 2 ^ t.bits \in Nat \ {0} /\ 2 ^ (t.bits - 1) \in Nat \ {0}
           /\ 2 ^ t.bits = 2 * 2 ^ (t.bits - 1)
           /\ MinOf(t) \in Int /\ MaxOf(t) \in Int
           /\ MinOf(t) <= 0 /\ 0 <= MaxOf(t)
           /\ MaxOf(t) = MinOf(t) + 2 ^ t.bits - 1
           /\ t.signed => MinOf(t) = -(2 ^ (t.bits - 1)) /\ MaxOf(t) = 2 ^ (t.bits - 1) - 1
           /\ ~t.signed => MinOf(t) = 0 /\ MaxOf(t) = 2 ^ t.bits - 1
  <1>1. t.bits \in Nat /\ t.bits - 1 \in Nat /\ t.bits - 1 + 1 = t.bits
    BY DEF Integral
  <1>2. /\ 2 ^ t.bits \in Nat \ {0} /\ 2 ^ (t.bits - 1) \in Nat \ {0}
        /\ 2 ^ (t.bits - 1 + 1) = 2 * 2 ^ (t.bits - 1)
    BY <1>1, Powers
  <1>3. 2 ^ t.bits = 2 * 2 ^ (t.bits - 1)
    BY <1>1, <1>2
  <1> DEFINE H == 2 ^ (t.bits - 1)
             M == 2 ^ t.bits
  <1>4. /\ t.signed => MinOf(t) = -H /\ MaxOf(t) = H - 1
        /\ ~t.signed => MinOf(t) = 0 /\ MaxOf(t) = M - 1
        /\ t.signed \in BOOLEAN
    BY DEF MinOf, MaxOf, Integral
  <1>5. H \in Nat \ {0} /\ M \in Nat \ {0} /\ M = 2 * H
    BY <1>2, <1>3
  <1> HIDE DEF H, M
  <1>6. /\ MinOf(t) \in Int /\ MaxOf(t) \in Int
        /\ MinOf(t) <= 0 /\ 0 <= MaxOf(t)
        /\ MaxOf(t) = MinOf(t) + M - 1
    BY <1>4, <1>5
  <1> QED
    BY <1>4, <1>5, <1>6 DEF H, M

(* Wrapping depends on the remainder only, gives a number of the type, and leaves
   the numbers of the type as they are. *)
LEMMA Wrapping ==
    ASSUME NEW t, Integral(t), NEW n \in Int
    PROVE  /\ Wrap(t, n) \in Int /\ Fits(t, Wrap(t, n))
           /\ Wrap(t, n) % 2 ^ t.bits = n % 2 ^ t.bits
           /\ Fits(t, n) => Wrap(t, n) = n
  <1> DEFINE M == 2 ^ t.bits
             q == n \div M
             r == n % M
  <1>1. /\ M \in Nat \ {0} /\ MinOf(t) \in Int /\ MaxOf(t) \in Int
        /\ MinOf(t) <= 0 /\ 0 <= MaxOf(t) /\ MaxOf(t) = MinOf(t) + M - 1
    BY RangeOfType
  <1>2. Wrap(t, n) = IF r > MaxOf(t) THEN r - M ELSE r
    BY DEF Wrap
  <1> HIDE DEF M
  <1>3. q \in Int /\ r \in 0 .. M - 1 /\ n = M * q + r
    BY <1>1, Dividing
  <1> HIDE DEF q, r
  <1>4. Wrap(t, n) \in Int /\ Fits(t, Wrap(t, n))
    BY <1>1, <1>2, <1>3 DEF Fits
  <1>5. Wrap(t, n) % M = r
    <2>1. CASE r > MaxOf(t)
      <3>1. (M * (-1) + r) % M = r
        BY <1>1, <1>3, RemainderIs
      <3>2. M * (-1) + r = r - M
        BY <1>1, <1>3
      <3> QED
        BY <1>2, <2>1, <3>1, <3>2
    <2>2. CASE ~(r > MaxOf(t))
      <3>1. M \in Nat \ {0} /\ r \in 0 .. M - 1 /\ r \in Int
        BY <1>1, <1>3
      <3>2. r % M = r
        BY <3>1, Dividing
      <3> QED
        BY <1>2, <2>2, <3>2
    <2> QED
      BY <2>1, <2>2
  <1>6. ASSUME Fits(t, n) PROVE Wrap(t, n) = n
    <2>1. MinOf(t) <= n /\ n <= MaxOf(t)
      BY <1>6 DEF Fits
    <2>2. CASE n >= 0
      <3>1. n \in 0 .. M - 1
        BY <1>1, <2>1, <2>2
      <3>2. n % M = n
        BY <1>1, <3>1, Dividing
      <3> QED
        BY <1>1, <1>2, <2>1, <3>2 DEF r
    <2>3. CASE n < 0
      <3>1. n + M \in 0 .. M - 1 /\ n + M > MaxOf(t)
        BY <1>1, <2>1, <2>3
      <3>2. (M * (-1) + (n + M)) % M = n + M
        BY <1>1, <3>1, RemainderIs
      <3>3. M * (-1) + (n + M) = n
        BY <1>1
      <3>4. r = n + M
        BY <3>2, <3>3 DEF r
      <3> QED
        BY <1>1, <1>2, <3>1, <3>4
    <2> QED
      BY <2>2, <2>3
  <1> QED
    BY <1>4, <1>5, <1>6 DEF M, r

LEMMA WrapOfRemainder ==
    ASSUME NEW t, NEW m, NEW n, m % 2 ^ t.bits = n % 2 ^ t.bits
    PROVE  Wrap(t, m) = Wrap(t, n)
  BY DEF Wrap

(* A number that is truncated twice has only the bits of the narrower type. *)
LEMMA WrapOfWider ==
    ASSUME NEW t, Integral(t), NEW u, Integral(u), u.bits <= t.bits, NEW n \in Int
    PROVE  Wrap(u, Wrap(t, n)) = Wrap(u, n)
  <1> DEFINE M == 2 ^ u.bits
             K == 2 ^ (t.bits - u.bits)
             w == Wrap(t, n)
  <1>1. u.bits \in Nat /\ t.bits \in Nat
    BY DEF Integral
  <1>2. M \in Nat \ {0} /\ K \in Nat \ {0} /\ 2 ^ t.bits = M * K
    BY <1>1, Powers, PowersGrow
  <1>3. w \in Int /\ w % 2 ^ t.bits = n % 2 ^ t.bits
    BY Wrapping
  <1> HIDE DEF M, K, w
  <1>4. (w % (M * K)) % M = w % M /\ (n % (M * K)) % M = n % M
    BY <1>2, <1>3, RemainderOfRemainder
  <1>5. w % M = n % M
    BY <1>2, <1>3, <1>4
  <1> QED
    BY <1>5, WrapOfRemainder DEF M, w

-----------------------------------------------------------------------------
(* Division rounds towards zero. *)
LEMMA QuotientBounds ==
    ASSUME NEW x \in Int, NEW y \in Int, y # 0
    PROVE  /\ Quot(x, y) \in Int
           /\ x >= 0 => -x <= Quot(x, y) /\ Quot(x, y) <= x
           /\ x <= 0 => x <= Quot(x, y) /\ Quot(x, y) <= -x
           /\ x >= 0 /\ y > 0 => Quot(x, y) >= 0
           /\ x < 0 /\ y < -1 => 2 * Quot(x, y) <= -x
           /\ x <= 0 /\ y > 0 => Quot(x, y) <= 0
  <1> DEFINE a == IF x < 0 THEN -x ELSE x
             b == IF y < 0 THEN -y ELSE y
             q == a \div b
  <1>1. a \in Nat /\ b \in Nat \ {0}
    OBVIOUS
  <1>2. Quot(x, y) = IF (x < 0) = (y < 0) THEN q ELSE -q
    BY DEF Quot
  <1>3. ASSUME NEW m \in Nat, NEW n \in Nat \ {0}
        PROVE  m \div n \in Nat /\ m \div n <= m /\ (n > 1 => 2 * (m \div n) <= m) /\ (m = 0 => m \div n = 0)
    <2>1. m \div n \in Int /\ m % n \in 0 .. n - 1 /\ m = n * (m \div n) + (m % n)
      BY <1>3, Dividing
    <2> DEFINE k == m \div n
               r == m % n
    <2> HIDE DEF k, r
    <2>2. k \in Int /\ r \in 0 .. n - 1 /\ m = n * k + r
      BY <2>1 DEF k, r
    <2>3. k \in Nat
      <3>1. ASSUME k < 0 PROVE FALSE
        <4>1. n * k <= n * (-1)
          BY <2>2, <3>1
        <4> QED
          BY <2>2, <4>1
      <3> QED
        BY <2>2, <3>1
    <2>4. k <= n * k /\ (n > 1 => 2 * k <= n * k)
      BY <2>3
    <2>5. k <= m /\ (n > 1 => 2 * k <= m)
      BY <2>2, <2>3, <2>4
    <2> QED
      BY <2>3, <2>5 DEF k
  <1> HIDE DEF q
  <1>4. q \in Nat /\ q <= a /\ (b > 1 => 2 * q <= a) /\ (a = 0 => q = 0)
    BY <1>1, <1>3 DEF q
  <1> QED
    BY <1>2, <1>4

(* The quotient of two numbers of a type is one, but for the least by -1. *)
LEMMA QuotientFits ==
    ASSUME NEW t, Integral(t), NEW x \in Int, NEW y \in Int, Fits(t, x), Fits(t, y), y # 0,
           ~(t.signed /\ x = MinOf(t) /\ y = -1)
    PROVE  Fits(t, Quot(x, y))
  <1> DEFINE H == 2 ^ (t.bits - 1)
             q == Quot(x, y)
  <1>1. /\ H \in Nat \ {0} /\ MinOf(t) \in Int /\ MaxOf(t) \in Int
        /\ t.signed => MinOf(t) = -H /\ MaxOf(t) = H - 1
        /\ ~t.signed => MinOf(t) = 0
    BY RangeOfType
  <1>2. MinOf(t) <= x /\ x <= MaxOf(t) /\ MinOf(t) <= y
    BY DEF Fits
  <1>3. /\ q \in Int
        /\ x >= 0 => -x <= q /\ q <= x
        /\ x <= 0 => x <= q /\ q <= -x
        /\ x >= 0 /\ y > 0 => q >= 0
        /\ x < 0 /\ y < -1 => 2 * q <= -x
        /\ x <= 0 /\ y > 0 => q <= 0
    BY QuotientBounds
  <1> HIDE DEF H, q
  <1>4. MinOf(t) <= q /\ q <= MaxOf(t)
    BY <1>1, <1>2, <1>3
  <1> QED
    BY <1>4 DEF Fits, q

(* The product of two numbers of a type is one of the type of twice the width. *)
LEMMA ProductFits ==
    ASSUME NEW t, Integral(t), NEW u, u.bits = 2 * t.bits, u.signed = t.signed,
           NEW x \in Int, NEW y \in Int, Fits(t, x), Fits(t, y)
    PROVE  Integral(u) /\ Fits(u, x * y)
  <1> DEFINE M == 2 ^ t.bits
             H == 2 ^ (t.bits - 1)
  <1>1. Integral(u)
    BY DEF Integral
  <1>2. /\ M \in Nat \ {0} /\ H \in Nat \ {0} /\ M = 2 * H
        /\ t.signed => MinOf(t) = -H /\ MaxOf(t) = H - 1
        /\ ~t.signed => MinOf(t) = 0 /\ MaxOf(t) = M - 1
    BY RangeOfType
  <1>3. 2 ^ u.bits = M * M
    <2>1. t.bits \in Nat /\ u.bits = t.bits + t.bits
      BY DEF Integral
    <2> QED
      BY <2>1, PowerOfSum
  <1>4. /\ 2 ^ (u.bits - 1) \in Int /\ 2 ^ u.bits = 2 * 2 ^ (u.bits - 1)
        /\ u.signed => MinOf(u) = -(2 ^ (u.bits - 1)) /\ MaxOf(u) = 2 ^ (u.bits - 1) - 1
        /\ ~u.signed => MinOf(u) = 0 /\ MaxOf(u) = 2 ^ u.bits - 1
    BY <1>1, RangeOfType
  <1> DEFINE G == 2 ^ (u.bits - 1)
  <1> HIDE DEF M, H, G
  <1>5. /\ G \in Int /\ M * M = 2 * G
        /\ u.signed => MinOf(u) = -G /\ MaxOf(u) = G - 1
        /\ ~u.signed => MinOf(u) = 0 /\ MaxOf(u) = M * M - 1
    BY <1>3, <1>4 DEF G
  <1>6. MinOf(t) <= x /\ x <= MaxOf(t) /\ MinOf(t) <= y /\ y <= MaxOf(t)
    BY DEF Fits
  <1>7. CASE t.signed
    <2>1. -H <= x /\ x <= H /\ -H <= y /\ y <= H
      BY <1>2, <1>6, <1>7
    <2>2. x * y <= H * H /\ -(H * H) <= x * y
      <3>1. 0 <= (H - x) * (H + y) + (H + x) * (H - y)
        <4>1. ASSUME NEW a \in Nat, NEW b \in Nat PROVE a * b \in Nat
          OBVIOUS
        <4>2. H - x \in Nat /\ H + x \in Nat /\ H - y \in Nat /\ H + y \in Nat
          BY <1>2, <2>1
        <4>3. (H - x) * (H + y) \in Nat /\ (H + x) * (H - y) \in Nat
          BY <4>1, <4>2
        <4> QED
          BY <4>3
      <3>2. 0 <= (H - x) * (H - y) + (H + x) * (H + y)
        <4>1. ASSUME NEW a \in Nat, NEW b \in Nat PROVE a * b \in Nat
          OBVIOUS
        <4>2. H - x \in Nat /\ H + x \in Nat /\ H - y \in Nat /\ H + y \in Nat
          BY <1>2, <2>1
        <4>3. (H - x) * (H - y) \in Nat /\ (H + x) * (H + y) \in Nat
          BY <4>1, <4>2
        <4> QED
          BY <4>3
      <3>3. (H - x) * (H + y) + (H + x) * (H - y) = 2 * (H * H) - 2 * (x * y)
        BY <1>2
      <3>4. (H - x) * (H - y) + (H + x) * (H + y) = 2 * (H * H) + 2 * (x * y)
        BY <1>2
      <3>5. H * H \in Int /\ x * y \in Int
        BY <1>2
      <3> QED
        BY <3>1, <3>2, <3>3, <3>4, <3>5
    <2>3. M * M = 4 * (H * H) /\ 1 <= H * H /\ H * H \in Int /\ x * y \in Int
      BY <1>2
    <2>4. MinOf(u) <= x * y /\ x * y <= MaxOf(u)
      BY <1>5, <1>7, <2>2, <2>3
    <2> QED
      BY <1>1, <2>4 DEF Fits
  <1>8. CASE ~t.signed
    <2>1. x \in 0 .. M - 1 /\ y \in 0 .. M - 1
      BY <1>2, <1>6, <1>8
    <2>2. 0 <= x * y /\ x * y <= (M - 1) * (M - 1) /\ x * y \in Int
      BY <1>2, <2>1
    <2>3. (M - 1) * (M - 1) <= M * M - 1 /\ M * M \in Int /\ (M - 1) * (M - 1) \in Int
      <3>1. (M - 1) * (M - 1) = M * M - 2 * M + 1
        BY <1>2
      <3>2. M * M \in Int
        BY <1>2
      <3> QED
        BY <1>2, <3>1, <3>2
    <2>4. MinOf(u) <= x * y /\ x * y <= MaxOf(u)
      BY <1>5, <1>8, <2>2, <2>3
    <2> QED
      BY <1>1, <2>4 DEF Fits
  <1> QED
    BY <1>7, <1>8
-----------------------------------------------------------------------------
(* A shift to the left loses nothing exactly if the bits above those that stay, of
   a negative number the complement's, are zero. *)
Room(t) == IF t.signed THEN t.bits - 1 ELSE t.bits
Magnitude(x) == IF x < 0 THEN -x - 1 ELSE x
LEMMA ShiftedFits ==
    ASSUME NEW t, Integral(t), NEW x \in Int, Fits(t, x), NEW y \in Nat, y <= Room(t)
    PROVE  /\ 2 ^ y \in Nat \ {0}
           /\ Magnitude(x) \div 2 ^ (Room(t) - y) = 0 <=> Fits(t, x * 2 ^ y)
  <1> DEFINE K == 2 ^ y
             R == 2 ^ (Room(t) - y)
             m == Magnitude(x)
  <1>1. Room(t) \in Nat
    BY DEF Room, Integral
  <1>2. K \in Nat \ {0} /\ R \in Nat \ {0} /\ 2 ^ Room(t) = K * R
    BY <1>1, Powers, PowersGrow
  <1>3. MaxOf(t) = K * R - 1 /\ MinOf(t) = IF t.signed THEN -(K * R) ELSE 0
    <2>1. 2 ^ Room(t) = IF t.signed THEN 2 ^ (t.bits - 1) ELSE 2 ^ t.bits
      BY DEF Room
    <2>2. /\ t.signed => MinOf(t) = -(2 ^ (t.bits - 1)) /\ MaxOf(t) = 2 ^ (t.bits - 1) - 1
          /\ ~t.signed => MinOf(t) = 0 /\ MaxOf(t) = 2 ^ t.bits - 1
      BY RangeOfType
    <2> HIDE DEF K, R
    <2> QED
      BY <1>2, <2>1, <2>2
  <1>4. m \in Nat /\ (x >= 0 => m = x) /\ (x < 0 => m = -x - 1)
    BY DEF Magnitude
  <1>5. x < 0 => t.signed
    BY <1>3 DEF Fits
  <1> HIDE DEF K, R, m
  <1>6. m \div R = 0 <=> m < R
    <2>1. m \div R \in Int /\ m % R \in 0 .. R - 1 /\ m = R * (m \div R) + (m % R)
      BY <1>2, <1>4, Dividing
    <2>2. m < R => m \div R = 0
      BY <1>2, <1>4
    <2> DEFINE d == m \div R
               r == m % R
    <2>3. d = 0 => m < R
      <3> SUFFICES ASSUME d = 0 PROVE m < R
        OBVIOUS
      <3>1. r \in 0 .. R - 1 /\ m = R * d + r
        BY <2>1
      <3> HIDE DEF r
      <3>2. R * d = 0
        BY <1>2
      <3> QED
        BY <1>2, <3>1, <3>2
    <2> QED
      BY <2>2, <2>3
  <1>7. ASSUME NEW a \in Int, NEW b \in Int PROVE a <= b <=> a * K <= b * K
    <2>1. a <= b => a * K <= b * K
      BY <1>2
    <2>2. b + 1 <= a => (b + 1) * K <= a * K
      BY <1>2
    <2>3. (b + 1) * K = b * K + K /\ b * K \in Int /\ a * K \in Int
      BY <1>2
    <2> QED
      BY <1>2, <2>1, <2>2, <2>3
  <1>8. m < R <=> Fits(t, x * K)
    <2>1. x * K \in Int /\ R * K \in Int /\ R * K = K * R /\ 0 * K = 0 /\ (-x) * K = -(x * K)
      BY <1>2
    <2>2. CASE x >= 0
      <3>1. R <= x <=> R * K <= x * K
        BY <1>2, <1>7
      <3>2. 0 <= x * K
        BY <1>2, <2>2
      <3>3. MinOf(t) <= x * K
        BY <1>2, <1>3, <2>1, <3>2
      <3>4. x * K <= MaxOf(t) <=> ~(R * K <= x * K)
        BY <1>3, <2>1
      <3>5. m < R <=> ~(R <= x)
        BY <1>2, <1>4, <2>2
      <3> QED
        BY <3>1, <3>3, <3>4, <3>5 DEF Fits
    <2>3. CASE x < 0
      <3>1. -x <= R <=> (-x) * K <= R * K
        BY <1>2, <1>7
      <3>2. x <= -1 <=> x * K <= (-1) * K
        BY <1>7
      <3>3. x * K <= MaxOf(t)
        BY <1>2, <1>3, <2>1, <2>3, <3>2
      <3>4. MinOf(t) <= x * K <=> (-x) * K <= R * K
        BY <1>3, <1>5, <2>1, <2>3
      <3>5. m < R <=> -x <= R
        BY <1>2, <1>4, <2>3
      <3> QED
        BY <3>1, <3>3, <3>4, <3>5 DEF Fits
    <2> QED
      BY <2>2, <2>3
  <1> QED
    BY <1>2, <1>6, <1>8 DEF K, R, m
-----------------------------------------------------------------------------
(* The checked operations.  Both passes give the exact result if it is of the type
   and report overflow otherwise. *)
ExactOrOverflow(t, n) == IF Fits(t, n) THEN Write(t, n) ELSE Overflow

LEMMA CheckedSum ==
    ASSUME NEW t, Integral(t), t.bits < MaxBits,
           NEW x \in Int, NEW y \in Int, Fits(t, x), Fits(t, y)
    PROVE  /\ AddChecked(t, x, y) = ExactOrOverflow(t, x + y)
           /\ IntegerAdd(t, x, y) = ExactOrOverflow(t, x + y)
           /\ SubtractChecked(t, x, y) = ExactOrOverflow(t, x - y)
           /\ IntegerSubtract(t, x, y) = ExactOrOverflow(t, x - y)
  <1>1. MinOf(t) \in Int /\ MaxOf(t) \in Int
    BY RangeOfType
  <1>2. MinOf(t) <= x /\ x <= MaxOf(t) /\ MinOf(t) <= y /\ y <= MaxOf(t)
    BY DEF Fits
  <1>3. ((y < 0 /\ x < MinOf(t) - y) \/ (y > 0 /\ x > MaxOf(t) - y)) <=> ~Fits(t, x + y)
    BY <1>1, <1>2 DEF Fits
  <1>4. ((y < 0 /\ x > MaxOf(t) + y) \/ (y > 0 /\ x < MinOf(t) + y)) <=> ~Fits(t, x - y)
    BY <1>1, <1>2 DEF Fits
  <1>5. ASSUME NEW n \in Int PROVE Exactly(t, n) = ExactOrOverflow(t, n)
    <2>1. Fits(t, n) => Wrap(t, n) = n
      BY Wrapping
    <2> QED
      BY <2>1 DEF Exactly, WithOverflow, ExactOrOverflow
  <1>6. x + y \in Int /\ x - y \in Int
    OBVIOUS
  <1> QED
    BY <1>3, <1>4, <1>5, <1>6
       DEF AddChecked, SubtractChecked, IntegerAdd, IntegerSubtract, ExactOrOverflow

LEMMA CheckedProduct ==
    ASSUME NEW t, Integral(t), t = IntegerT(t.bits, t.signed), t.bits < MaxBits,
           NEW x \in Int, NEW y \in Int, Fits(t, x), Fits(t, y)
    PROVE  /\ MultiplyChecked(t, x, y) = ExactOrOverflow(t, x * y)
           /\ ~MultipliesUnchecked(t) => IntegerMultiply(t, x, y) = ExactOrOverflow(t, x * y)
  <1> DEFINE u == [t EXCEPT !.bits = 2 * t.bits]
  <1>1. MaxBits \in Nat /\ t.bits \in Nat
    BY WidthAssumption DEF Integral
  <1>2. NextLarger(t) = u
    BY <1>1 DEF NextLarger
  <1>3. u.bits = 2 * t.bits /\ u.signed = t.signed
    BY DEF IntegerT
  <1> HIDE DEF u
  <1>4. Integral(u) /\ Fits(u, x * y) /\ x * y \in Int
    BY <1>3, ProductFits
  <1>5. Wrap(u, x * y) = x * y
    BY <1>4, Wrapping
  <1>6. Fits(t, x * y) => Wrap(t, x * y) = x * y
    BY <1>4, Wrapping
  <1>7. MultiplyChecked(t, x, y) = ExactOrOverflow(t, x * y)
    BY <1>2, <1>5, <1>6 DEF MultiplyChecked, ExactOrOverflow
  <1>8. ~MultipliesUnchecked(t) => IntegerMultiply(t, x, y) = ExactOrOverflow(t, x * y)
    BY <1>6 DEF IntegerMultiply, Exactly, WithOverflow, ExactOrOverflow
  <1> QED
    BY <1>7, <1>8

LEMMA CheckedQuotient ==
    ASSUME NEW t, Integral(t), NEW x \in Int, NEW y \in Int, Fits(t, x), Fits(t, y)
    PROVE  /\ y = 0 => QuotientChecked(t, x, y) = Overflow
           /\ y # 0 => QuotientChecked(t, x, y) = ExactOrOverflow(t, Quot(x, y))
           /\ IntegerQuotient(t, x, y) \in {QuotientChecked(t, x, y), Undefined}
  <1>1. IntegerQuotient(t, x, y) \in {QuotientChecked(t, x, y), Undefined}
    BY DEF IntegerQuotient, QuotientChecked, Divide
  <1>2. CASE y = 0
    BY <1>1, <1>2 DEF QuotientChecked
  <1>3. CASE y # 0 /\ t.signed /\ x = MinOf(t) /\ y = -1
    <2>1. /\ 2 ^ (t.bits - 1) \in Nat \ {0}
          /\ MinOf(t) = -(2 ^ (t.bits - 1)) /\ MaxOf(t) = 2 ^ (t.bits - 1) - 1
      BY <1>3, RangeOfType
    <2>2. Quot(x, -1) = -x
      <3>1. x < 0 /\ -x \in Nat
        BY <1>3, <2>1
      <3>2. (-x) \div 1 = -x
        BY <3>1
      <3> QED
        BY <3>1, <3>2 DEF Quot
    <2>3. ~Fits(t, Quot(x, y))
      BY <1>3, <2>1, <2>2 DEF Fits
    <2> QED
      BY <1>1, <1>3, <2>3 DEF QuotientChecked, ExactOrOverflow
  <1>4. CASE y # 0 /\ ~(t.signed /\ x = MinOf(t) /\ y = -1)
    <2>1. Fits(t, Quot(x, y))
      BY <1>4, QuotientFits
    <2> QED
      BY <1>1, <1>4, <2>1 DEF QuotientChecked, ExactOrOverflow
  <1> QED
    BY <1>2, <1>3, <1>4

LEMMA CheckedRemainder ==
    ASSUME NEW t, NEW x \in Int, NEW y \in Int
    PROVE  /\ RemainderChecked(t, x, y) \in
                IF y = 0 THEN {Overflow} ELSE {Write(t, Rem(x, y)), Undefined}
           /\ IntegerRemainder(t, x, y) \in
                IF y = 0 THEN {Undefined} ELSE {Write(t, Rem(x, y)), Undefined}
  BY DEF RemainderChecked, IntegerRemainder, Divide, HostDivides

LEMMA CheckedShift ==
    ASSUME NEW t, Integral(t), NEW x \in Int, NEW y \in Int, Fits(t, x)
    PROVE  /\ y \in 0 .. Room(t) =>
                /\ ShiftLeftChecked(t, x, y) \in {ExactOrOverflow(t, x * 2 ^ y), Undefined}
                /\ IntegerShiftLeft(t, x, y) \in {ExactOrOverflow(t, x * 2 ^ y), Undefined}
           /\ y \notin 0 .. Room(t) =>
                ShiftLeftChecked(t, x, y) = Overflow /\ IntegerShiftLeft(t, x, y) = Overflow
  <1>1. t.bits \in Nat \ {0} /\ t.signed \in BOOLEAN /\ Room(t) \in Nat
    BY DEF Integral, Room
  <1>2. CASE y \in 0 .. Room(t)
    <2>1. y \in Nat /\ y <= Room(t)
      BY <1>1, <1>2
    <2>2. 2 ^ y \in Nat \ {0} /\ (Magnitude(x) \div 2 ^ (Room(t) - y) = 0 <=> Fits(t, x * 2 ^ y))
      BY <2>1, ShiftedFits
    <2>3. x * 2 ^ y \in Int
      BY <2>2
    <2>4. Fits(t, x * 2 ^ y) => Wrap(t, x * 2 ^ y) = x * 2 ^ y
      BY <2>3, Wrapping
    <2>5. ShiftOverflows(t, x, y) <=> ~Fits(t, x * 2 ^ y)
      <3>1. ~(y > Room(t))
        BY <1>1, <2>1
      <3> QED
        BY <2>2, <3>1 DEF ShiftOverflows, Magnitude, Room
    <2>6. y = 0 => x * 2 ^ y = x
      <3>1. 2 ^ 0 = 1
        BY Powers
      <3> QED
        BY <3>1
    <2>7. IntegerShiftLeft(t, x, y) \in {ExactOrOverflow(t, x * 2 ^ y), Undefined}
      BY <2>1, <2>4, <2>5, <2>6 DEF IntegerShiftLeft, WithOverflow, ShiftLeft, Shift, ExactOrOverflow
    <2>8. ShiftLeftChecked(t, x, y) \in {ExactOrOverflow(t, x * 2 ^ y), Undefined}
      <3>1. CASE y = 0
        BY <2>6, <3>1 DEF ShiftLeftChecked, ExactOrOverflow
      <3>2. CASE y > 0
        <4>1. t.bits - y - 1 = t.bits - 1 - y
          BY <1>1
        <4>2. (IF t.signed THEN y > t.bits - 1 \/ Magnitude(x) \div 2 ^ (t.bits - y - 1) # 0
               ELSE y > t.bits \/ x \div 2 ^ (t.bits - y) # 0) <=> ~Fits(t, x * 2 ^ y)
          <5>1. CASE t.signed
            BY <1>1, <2>1, <2>2, <4>1, <5>1 DEF Room
          <5>2. CASE ~t.signed
            <6>1. x >= 0
              <7>1. MinOf(t) = 0
                BY <5>2 DEF MinOf
              <7> QED
                BY <7>1 DEF Fits
            <6>2. Magnitude(x) = x
              BY <6>1 DEF Magnitude
            <6> QED
              BY <1>1, <2>1, <2>2, <5>2, <6>2 DEF Room
          <5> QED
            BY <1>1, <5>1, <5>2
        <4> QED
          BY <2>4, <3>2, <4>2 DEF ShiftLeftChecked, Magnitude, ExactOrOverflow
      <3> QED
        BY <2>1, <3>1, <3>2
    <2> QED
      BY <1>2, <2>7, <2>8
  <1>3. CASE y \notin 0 .. Room(t)
    <2>1. y < 0 \/ y > Room(t)
      BY <1>1, <1>3
    <2>2. IntegerShiftLeft(t, x, y) = Overflow
      BY <1>1, <2>1 DEF IntegerShiftLeft, WithOverflow, ShiftOverflows, Room
    <2>3. ShiftLeftChecked(t, x, y) = Overflow
      BY <1>1, <2>1 DEF ShiftLeftChecked, Room
    <2> QED
      BY <1>3, <2>2, <2>3
  <1> QED
    BY <1>2, <1>3

LEMMA CheckedNegation ==
    ASSUME NEW t, Integral(t), NEW x \in Int, Fits(t, x)
    PROVE  /\ t.signed => /\ NegateChecked(t, x) = ExactOrOverflow(t, -x)
                          /\ IntegerNegate(t, x) = ExactOrOverflow(t, -x)
           /\ ~t.signed => IntegerNegate(t, x) = Refused
  <1>1. CASE t.signed
    <2>1. /\ MinOf(t) \in Int /\ MaxOf(t) = -MinOf(t) - 1
          /\ MinOf(t) <= x /\ x <= MaxOf(t)
      BY <1>1, RangeOfType DEF Fits
    <2>2. x = MinOf(t) <=> ~Fits(t, -x)
      BY <2>1 DEF Fits
    <2>3. Fits(t, -x) => Wrap(t, -x) = -x
      BY Wrapping
    <2> QED
      BY <1>1, <2>2, <2>3 DEF NegateChecked, IntegerNegate, WithOverflow, When, ExactOrOverflow
  <1>2. CASE ~t.signed
    BY <1>2 DEF IntegerNegate, When
  <1> QED
    BY <1>1, <1>2

(* The library tests a conversion to A of a number of the type B by the signs and the
   widths of the two types. *)
LEMMA ConversionTested ==
    ASSUME NEW A, Integral(A), NEW B, Integral(B), B.kind = "integer", NEW b \in Int, Fits(B, b)
    PROVE  ConvertOverflows(A, B, b) <=> ~Fits(A, b)
  <1>1. /\ MinOf(A) \in Int /\ MaxOf(A) \in Int /\ MinOf(A) <= 0 /\ 0 <= MaxOf(A)
        /\ 2 ^ A.bits \in Nat \ {0} /\ 2 ^ (A.bits - 1) \in Nat \ {0}
        /\ A.signed => MinOf(A) = -(2 ^ (A.bits - 1)) /\ MaxOf(A) = 2 ^ (A.bits - 1) - 1
        /\ ~A.signed => MinOf(A) = 0 /\ MaxOf(A) = 2 ^ A.bits - 1
    BY RangeOfType
  <1>2. /\ 2 ^ B.bits \in Nat \ {0} /\ 2 ^ (B.bits - 1) \in Nat \ {0}
        /\ B.signed => MinOf(B) = -(2 ^ (B.bits - 1)) /\ MaxOf(B) = 2 ^ (B.bits - 1) - 1
        /\ ~B.signed => MinOf(B) = 0 /\ MaxOf(B) = 2 ^ B.bits - 1
    BY RangeOfType
  <1>3. /\ A.bits \in Nat \ {0} /\ B.bits \in Nat \ {0}
        /\ A.signed \in BOOLEAN /\ B.signed \in BOOLEAN
    BY DEF Integral
  <1>4. MinOf(B) <= b /\ b <= MaxOf(B)
    BY DEF Fits
  <1>5. ASSUME NEW m \in Nat, NEW n \in Nat, m <= n PROVE 2 ^ m <= 2 ^ n
    BY <1>5, PowersGrow
  <1>6. A.bits - 1 \in Nat /\ B.bits - 1 \in Nat /\ A.bits \in Nat /\ B.bits \in Nat
    BY <1>3
  <1>7. /\ B.bits <= A.bits => 2 ^ B.bits <= 2 ^ A.bits /\ 2 ^ (B.bits - 1) <= 2 ^ (A.bits - 1)
        /\ B.bits < A.bits => 2 ^ B.bits <= 2 ^ (A.bits - 1)
        /\ B.bits <= A.bits => 2 ^ (B.bits - 1) <= 2 ^ A.bits
    BY <1>5, <1>6
  <1>8. CASE A.signed = B.signed
    <2>1. ConvertOverflows(A, B, b) <=> A.bits < B.bits /\ (b < MinOf(A) \/ b > MaxOf(A))
      BY <1>8 DEF ConvertOverflows
    <2>2. CASE A.signed
      BY <1>1, <1>2, <1>3, <1>4, <1>7, <1>8, <2>1, <2>2 DEF Fits
    <2>3. CASE ~A.signed
      BY <1>1, <1>2, <1>3, <1>4, <1>7, <1>8, <2>1, <2>3 DEF Fits
    <2> QED
      BY <2>2, <2>3
  <1>9. CASE A.signed /\ ~B.signed
    <2>1. ConvertOverflows(A, B, b) <=> A.bits <= B.bits /\ b > MaxOf(A)
      BY <1>3, <1>9 DEF ConvertOverflows
    <2> QED
      BY <1>1, <1>2, <1>3, <1>4, <1>7, <1>9, <2>1 DEF Fits
  <1>10. CASE ~A.signed /\ B.signed
    <2>1. ConvertOverflows(A, B, b) <=> b < 0 \/ (A.bits < B.bits /\ b > MaxOf(A))
      BY <1>3, <1>10 DEF ConvertOverflows
    <2> QED
      BY <1>1, <1>2, <1>3, <1>4, <1>7, <1>10, <2>1 DEF Fits
  <1> QED
    BY <1>3, <1>8, <1>9, <1>10

(* What the generator makes of a checked conversion, of any argument. *)
LEMMA CheckedConversion ==
    ASSUME NEW A, Integral(A), NEW B, NEW b \in Int, B.kind = "integer" => Integral(B) /\ Fits(B, b)
    PROVE  IntegerConvert(A, B, b) \in {ExactOrOverflow(A, b), Refused, Undefined}
  <1>1. CASE B.kind = "integer"
    <2>1. ConvertOverflows(A, B, b) <=> ~Fits(A, b)
      BY <1>1, ConversionTested
    <2>2. Fits(A, b) => Wrap(A, b) = b
      BY Wrapping
    <2> QED
      BY <1>1, <2>1, <2>2 DEF IntegerConvert, IsNumeric, When, WithOverflow, ExactOrOverflow
  <1>2. CASE B.kind = "float"
    <2>1. MinOf(A) \in Int /\ MaxOf(A) \in Int
      BY RangeOfType
    <2>2. ~(b < MinOf(A) \/ b > MaxOf(A)) => Fits(A, b)
      BY <2>1 DEF Fits
    <2> QED
      BY <1>2, <2>2 DEF IntegerConvert, IsNumeric, When, FloatToInt, ExactOrOverflow
  <1>3. CASE B.kind \notin {"integer", "float"}
    BY <1>3 DEF IntegerConvert, IsNumeric, When
  <1> QED
    BY <1>1, <1>2, <1>3
-----------------------------------------------------------------------------
(* Every checked operation on two numbers of one type is right at compile time, and
   at run time but for the products that are not checked. *)
Unreported(o, t) == o = "integerMultiplyChecked" /\ MultipliesUnchecked(t)
LEMMA CheckedBinaryRight ==
    ASSUME NEW t, Integral(t), t = IntegerT(t.bits, t.signed), t.bits < MaxBits,
           NEW x \in Int, NEW y \in Int, Fits(t, x), Fits(t, y), NEW o \in CheckedBinary
    PROVE  /\ Right(o, t, x, y, Checked(o, t, x, y))
           /\ ~Unreported(o, t) => Right(o, t, x, y, Reported(o, t, x, y))
  <1>1. ~Fits(t, MaxOf(t) + 1) /\ MaxOf(t) \in Int
    BY RangeOfType DEF Fits
  <1>2. ASSUME NEW n, Exact(o, t, x, y) = n,
               NEW answer \in {ExactOrOverflow(t, n), Undefined}
        PROVE  Right(o, t, x, y, answer)
    BY <1>2 DEF Right, ExactOrOverflow, Write, Writes, Arg, Overflow, Undefined
  <1>3. ASSUME Exact(o, t, x, y) = MaxOf(t) + 1, NEW answer \in {Overflow, Undefined}
        PROVE  Right(o, t, x, y, answer)
    BY <1>1, <1>3 DEF Right, Overflow, Undefined
  <1>4. CASE o = "integerAddChecked"
    <2>1. Exact(o, t, x, y) = x + y
      BY <1>4 DEF Exact
    <2>2. Checked(o, t, x, y) = AddChecked(t, x, y) /\ Reported(o, t, x, y) = IntegerAdd(t, x, y)
      BY <1>4 DEF Checked, Reported
    <2> QED
      BY <1>2, <2>1, <2>2, CheckedSum
  <1>5. CASE o = "integerSubtractChecked"
    <2>1. Exact(o, t, x, y) = x - y
      BY <1>5 DEF Exact
    <2>2. /\ Checked(o, t, x, y) = SubtractChecked(t, x, y)
          /\ Reported(o, t, x, y) = IntegerSubtract(t, x, y)
      BY <1>5 DEF Checked, Reported
    <2> QED
      BY <1>2, <2>1, <2>2, CheckedSum
  <1>6. CASE o = "integerMultiplyChecked"
    <2>1. Exact(o, t, x, y) = x * y
      BY <1>6 DEF Exact
    <2>2. /\ Checked(o, t, x, y) = MultiplyChecked(t, x, y)
          /\ Reported(o, t, x, y) = IntegerMultiply(t, x, y)
      BY <1>6 DEF Checked, Reported
    <2> QED
      BY <1>2, <1>6, <2>1, <2>2, CheckedProduct DEF Unreported
  <1>7. CASE o = "integerQuotientChecked"
    <2>1. Exact(o, t, x, y) = IF y = 0 THEN MaxOf(t) + 1 ELSE Quot(x, y)
      BY <1>7 DEF Exact
    <2>2. /\ Checked(o, t, x, y) = QuotientChecked(t, x, y)
          /\ Reported(o, t, x, y) = IntegerQuotient(t, x, y)
      BY <1>7 DEF Checked, Reported
    <2>3. CASE y = 0
      <3>1. QuotientChecked(t, x, y) = Overflow /\ IntegerQuotient(t, x, y) \in {Overflow, Undefined}
        BY <2>3, CheckedQuotient
      <3> QED
        BY <1>3, <2>1, <2>2, <2>3, <3>1
    <2>4. CASE y # 0
      <3>1. /\ QuotientChecked(t, x, y) = ExactOrOverflow(t, Quot(x, y))
            /\ IntegerQuotient(t, x, y) \in {ExactOrOverflow(t, Quot(x, y)), Undefined}
        BY <2>4, CheckedQuotient
      <3> QED
        BY <1>2, <2>1, <2>2, <2>4, <3>1
    <2> QED
      BY <2>3, <2>4
  <1>8. CASE o = "integerRemainderChecked"
    <2>1. Exact(o, t, x, y) = IF y = 0 THEN MaxOf(t) + 1 ELSE Rem(x, y)
      BY <1>8 DEF Exact
    <2>2. /\ Checked(o, t, x, y) = RemainderChecked(t, x, y)
          /\ Reported(o, t, x, y) = IntegerRemainder(t, x, y)
      BY <1>8 DEF Checked, Reported
    <2>3. CASE y = 0
      BY <1>3, <2>1, <2>2, <2>3, CheckedRemainder
    <2>4. CASE y # 0
      <3>1. /\ Checked(o, t, x, y) \in {Write(t, Rem(x, y)), Undefined}
            /\ Reported(o, t, x, y) \in {Write(t, Rem(x, y)), Undefined}
        BY <2>2, <2>4, CheckedRemainder
      <3> QED
        BY <2>1, <2>4, <3>1 DEF Right, Write, Writes, Arg, Undefined
    <2> QED
      BY <2>3, <2>4
  <1>9. CASE o = "integerShiftLeftChecked"
    <2>1. Exact(o, t, x, y) = IF y \notin 0 .. t.bits THEN MaxOf(t) + 1 ELSE x * 2 ^ y
      BY <1>9 DEF Exact
    <2>2. /\ Checked(o, t, x, y) = ShiftLeftChecked(t, x, y)
          /\ Reported(o, t, x, y) = IntegerShiftLeft(t, x, y)
      BY <1>9 DEF Checked, Reported
    <2>3. t.bits \in Nat \ {0} /\ Room(t) \in {t.bits - 1, t.bits}
      BY DEF Integral, Room
    <2>4. CASE y \in 0 .. Room(t)
      <3>1. Exact(o, t, x, y) = x * 2 ^ y
        BY <2>1, <2>3, <2>4
      <3> QED
        BY <1>2, <2>2, <2>4, <3>1, CheckedShift
    <2>5. CASE y \notin 0 .. Room(t)
      <3>1. Checked(o, t, x, y) = Overflow /\ Reported(o, t, x, y) = Overflow
        BY <2>2, <2>5, CheckedShift
      <3>2. CASE y < 0
        BY <1>3, <2>1, <2>3, <3>1, <3>2
      <3>3. CASE y >= t.bits
        BY <1>9, <3>1, <3>3 DEF Right, Overflow
      <3> QED
        BY <2>3, <2>5, <3>2, <3>3
    <2> QED
      BY <2>4, <2>5
  <1> QED
    BY <1>4, <1>5, <1>6, <1>7, <1>8, <1>9 DEF CheckedBinary
-----------------------------------------------------------------------------
(* What is known of the arguments of a call. *)
LEMMA TypeOfProgram ==
    ASSUME NEW t \in Types
    PROVE  /\ WellFormedType(t)
           /\ t.kind = "integer" => /\ Integral(t) /\ t = IntegerT(t.bits, t.signed)
                                    /\ t.bits \in Widths /\ t.bits <= MaxBits
  <1>1. WellFormedType(t)
    BY TypeAssumption
  <1> QED
    BY <1>1, WidthAssumption DEF WellFormedType, Integral

LEMMA ArgumentIs ==
    ASSUME NEW a \in Seq(Arguments), NEW i \in 1 .. Len(a)
    PROVE  /\ a[i].type \in Types /\ a[i].val \in Int /\ a[i].isRValue \in BOOLEAN
           /\ a[i].type.kind = "integer" => Fits(a[i].type, a[i].val)
           /\ IsPointerLike(a[i].type) => a[i].val \in 0 .. MaxSize - 1
           /\ Obj(a, i) \in Objects \union {Null} /\ WellFormedObject(Obj(a, i))
           /\ IsType(a, i) => TypeArg(a, i) \in Types
           /\ IsStaticCount(a, i) => Obj(a, i).val \in Int
  <1>1. a[i] \in Arguments
    OBVIOUS
  <1>2. IsArgument(a[i])
    BY <1>1, CallAssumption
  <1>3. WellFormedType(a[i].type)
    BY <1>2, TypeAssumption DEF IsArgument
  <1>4. Obj(a, i) \in Objects \union {Null}
    BY <1>3 DEF Obj, ObjOf, WellFormedType
  <1>5. Null.objKind = "null"
    BY DEF Null
  <1>6. WellFormedObject(Obj(a, i))
    BY <1>4, <1>5, TypeAssumption DEF WellFormedObject
  <1> QED
    BY <1>2, <1>4, <1>6 DEF IsArgument, IsType, TypeArg, IsStaticCount, WellFormedObject
-----------------------------------------------------------------------------
(* The case of each primitive in the switch of the analyzer, ... *)
LEMMA AnalysisOf ==
    ASSUME NEW o, NEW a
    PROVE  /\ o \in Unchecked => AnalyzePrimOp(o, a) = AnalyzeUnchecked(o)
           /\ o \in Comparisons => AnalyzePrimOp(o, a) = AnalyzeComparison(a)
           /\ o \in NumericBinary \union {"numericNegate"} => AnalyzePrimOp(o, a) = AnalyzeNumeric(o, a)
           /\ o \in IntegerBinary \union IntegerUnary => AnalyzePrimOp(o, a) = AnalyzeInteger(o, a)
           /\ o \in Conversions => AnalyzePrimOp(o, a) = AnalyzeConvert(o, a)
           /\ o \in Pointers => AnalyzePrimOp(o, a) = AnalyzePointer(o, a)
           /\ o = "StaticCallOutputTypes" => AnalyzePrimOp(o, a) = AnalyzeOutputTypes(a)
           /\ o = "StaticMonoInputTypes" => AnalyzePrimOp(o, a) = AnalyzeMonoInputs(a)
           /\ o = "makeCodePointer" => AnalyzePrimOp(o, a) = AnalyzeMakeCodePointer(a)
           /\ o = "GetOverload" => AnalyzePrimOp(o, a) = AnalyzeGetOverload(a)
           /\ o = "makeExternalCodePointer" => AnalyzePrimOp(o, a) = AnalyzeMakeExternal(a)
           /\ o = "callExternalCodePointer" => AnalyzePrimOp(o, a) = AnalyzeCallExternal(a)
           /\ o \in {"arrayRef", "arrayElements"} => AnalyzePrimOp(o, a) = AnalyzeArray(o, a)
           /\ o \in {"tupleRef", "tupleElements"} => AnalyzePrimOp(o, a) = AnalyzeTuple(o, a)
           /\ o \in {"recordFields", "recordVariadicField", "recordFieldRef", "recordFieldRefByName"} => AnalyzePrimOp(o, a) = AnalyzeRecord(o, a)
           /\ o = "RecordFieldName" => AnalyzePrimOp(o, a) = AnalyzeFieldName(a)
           /\ o = "VariantMembers" => AnalyzePrimOp(o, a) = AnalyzeVariantMembers(a)
           /\ o = "EnumMemberName" => AnalyzePrimOp(o, a) = AnalyzeEnumMemberName(a)
           /\ o = "BaseType" => AnalyzePrimOp(o, a) = AnalyzeBaseType(a)
           /\ o \in {"staticIntegers", "integers"} => AnalyzePrimOp(o, a) = AnalyzeIntegers(o, a)
           /\ o = "staticFieldRef" => AnalyzePrimOp(o, a) = AnalyzeStaticFieldRef(a)
           /\ o = "intToEnum" => AnalyzePrimOp(o, a) = AnalyzeIntToEnum(a)
           /\ o = "stringLiteralByteSlice" => AnalyzePrimOp(o, a) = AnalyzeSlice(a)
           /\ o = "stringLiteralConcat" => AnalyzePrimOp(o, a) = AnalyzeConcat(a)
           /\ o = "stringLiteralFromBytes" => AnalyzePrimOp(o, a) = AnalyzeFromBytes(a)
           /\ o = "stringLiteralBytes" => AnalyzePrimOp(o, a) = AnalyzeBytes(a)
           /\ o \in {"StaticName", "MainModule", "StaticModule", "ModuleName", "ModuleMemberNames"} => AnalyzePrimOp(o, a) = AnalyzeNames(o, a)
           /\ o = "Flag" => AnalyzePrimOp(o, a) = AnalyzeFlag(a)
           /\ o \in AtomicOps => AnalyzePrimOp(o, a) = AnalyzeAtomic(o, a)
           /\ o \in {"memcpy", "memmove"} => AnalyzePrimOp(o, a) = AnalyzeCopy(a)
           /\ o = "activeException" => AnalyzePrimOp(o, a) = AnalyzeActiveException(a)
           /\ o \in ValueLists => AnalyzePrimOp(o, a) = AnalyzeValueList(o, a)
           /\ o \in LambdaTests => AnalyzePrimOp(o, a) = AnalyzeLambdaTest(a)
           /\ o = "LambdaMonoInputTypes" => AnalyzePrimOp(o, a) = AnalyzeLambdaInputs(a)
           /\ o = "usuallyEquals" => AnalyzePrimOp(o, a) = AnalyzeUsuallyEquals(a)
           /\ o \in Constructors => AnalyzePrimOp(o, a) = Refused
  <1> USE DEF Predicates, Counts, IntCounts, Unchecked, FloatComparisons, Comparisons, NumericBinary,
          CheckedBinary, PlainIntegerBinary, IntegerBinary, IntegerUnary, Conversions, Pointers,
          Callables, Aggregates, StaticResults, AtomicOps, MemoryOps, ValueLists, LambdaTests,
          Constructors, OnlyAtRunTime
  <1>1. o \in Unchecked => AnalyzePrimOp(o, a) = AnalyzeUnchecked(o)
    BY DEF AnalyzePrimOp
  <1>2. o \in Comparisons => AnalyzePrimOp(o, a) = AnalyzeComparison(a)
    BY DEF AnalyzePrimOp
  <1>3. o \in NumericBinary \union {"numericNegate"} => AnalyzePrimOp(o, a) = AnalyzeNumeric(o, a)
    BY DEF AnalyzePrimOp
  <1>4. o \in IntegerBinary \union IntegerUnary => AnalyzePrimOp(o, a) = AnalyzeInteger(o, a)
    BY DEF AnalyzePrimOp
  <1>5. o \in Conversions => AnalyzePrimOp(o, a) = AnalyzeConvert(o, a)
    BY DEF AnalyzePrimOp
  <1>6. o \in Pointers => AnalyzePrimOp(o, a) = AnalyzePointer(o, a)
    BY DEF AnalyzePrimOp
  <1>7. o = "StaticCallOutputTypes" => AnalyzePrimOp(o, a) = AnalyzeOutputTypes(a)
    BY DEF AnalyzePrimOp
  <1>8. o = "StaticMonoInputTypes" => AnalyzePrimOp(o, a) = AnalyzeMonoInputs(a)
    BY DEF AnalyzePrimOp
  <1>9. o = "makeCodePointer" => AnalyzePrimOp(o, a) = AnalyzeMakeCodePointer(a)
    BY DEF AnalyzePrimOp
  <1>10. o = "GetOverload" => AnalyzePrimOp(o, a) = AnalyzeGetOverload(a)
    BY DEF AnalyzePrimOp
  <1>11. o = "makeExternalCodePointer" => AnalyzePrimOp(o, a) = AnalyzeMakeExternal(a)
    BY DEF AnalyzePrimOp
  <1>12. o = "callExternalCodePointer" => AnalyzePrimOp(o, a) = AnalyzeCallExternal(a)
    BY DEF AnalyzePrimOp
  <1>13. o \in {"arrayRef", "arrayElements"} => AnalyzePrimOp(o, a) = AnalyzeArray(o, a)
    BY DEF AnalyzePrimOp
  <1>14. o \in {"tupleRef", "tupleElements"} => AnalyzePrimOp(o, a) = AnalyzeTuple(o, a)
    BY DEF AnalyzePrimOp
  <1>15. o \in {"recordFields", "recordVariadicField", "recordFieldRef", "recordFieldRefByName"} => AnalyzePrimOp(o, a) = AnalyzeRecord(o, a)
    BY DEF AnalyzePrimOp
  <1>16. o = "RecordFieldName" => AnalyzePrimOp(o, a) = AnalyzeFieldName(a)
    BY DEF AnalyzePrimOp
  <1>17. o = "VariantMembers" => AnalyzePrimOp(o, a) = AnalyzeVariantMembers(a)
    BY DEF AnalyzePrimOp
  <1>18. o = "EnumMemberName" => AnalyzePrimOp(o, a) = AnalyzeEnumMemberName(a)
    BY DEF AnalyzePrimOp
  <1>19. o = "BaseType" => AnalyzePrimOp(o, a) = AnalyzeBaseType(a)
    BY DEF AnalyzePrimOp
  <1>20. o \in {"staticIntegers", "integers"} => AnalyzePrimOp(o, a) = AnalyzeIntegers(o, a)
    BY DEF AnalyzePrimOp
  <1>21. o = "staticFieldRef" => AnalyzePrimOp(o, a) = AnalyzeStaticFieldRef(a)
    BY DEF AnalyzePrimOp
  <1>22. o = "intToEnum" => AnalyzePrimOp(o, a) = AnalyzeIntToEnum(a)
    BY DEF AnalyzePrimOp
  <1>23. o = "stringLiteralByteSlice" => AnalyzePrimOp(o, a) = AnalyzeSlice(a)
    BY DEF AnalyzePrimOp
  <1>24. o = "stringLiteralConcat" => AnalyzePrimOp(o, a) = AnalyzeConcat(a)
    BY DEF AnalyzePrimOp
  <1>25. o = "stringLiteralFromBytes" => AnalyzePrimOp(o, a) = AnalyzeFromBytes(a)
    BY DEF AnalyzePrimOp
  <1>26. o = "stringLiteralBytes" => AnalyzePrimOp(o, a) = AnalyzeBytes(a)
    BY DEF AnalyzePrimOp
  <1>27. o \in {"StaticName", "MainModule", "StaticModule", "ModuleName", "ModuleMemberNames"} => AnalyzePrimOp(o, a) = AnalyzeNames(o, a)
    BY DEF AnalyzePrimOp
  <1>28. o = "Flag" => AnalyzePrimOp(o, a) = AnalyzeFlag(a)
    BY DEF AnalyzePrimOp
  <1>29. o \in AtomicOps => AnalyzePrimOp(o, a) = AnalyzeAtomic(o, a)
    BY DEF AnalyzePrimOp
  <1>30. o \in {"memcpy", "memmove"} => AnalyzePrimOp(o, a) = AnalyzeCopy(a)
    BY DEF AnalyzePrimOp
  <1>31. o = "activeException" => AnalyzePrimOp(o, a) = AnalyzeActiveException(a)
    BY DEF AnalyzePrimOp
  <1>32. o \in ValueLists => AnalyzePrimOp(o, a) = AnalyzeValueList(o, a)
    BY DEF AnalyzePrimOp
  <1>33. o \in LambdaTests => AnalyzePrimOp(o, a) = AnalyzeLambdaTest(a)
    BY DEF AnalyzePrimOp
  <1>34. o = "LambdaMonoInputTypes" => AnalyzePrimOp(o, a) = AnalyzeLambdaInputs(a)
    BY DEF AnalyzePrimOp
  <1>35. o = "usuallyEquals" => AnalyzePrimOp(o, a) = AnalyzeUsuallyEquals(a)
    BY DEF AnalyzePrimOp
  <1>36. o \in Constructors => AnalyzePrimOp(o, a) = Refused
    BY DEF AnalyzePrimOp
  <1> QED
    BY ONLY <1>1, <1>2, <1>3, <1>4, <1>5, <1>6, <1>7, <1>8, <1>9, <1>10, <1>11, <1>12, <1>13, <1>14, <1>15, <1>16, <1>17, <1>18, <1>19, <1>20, <1>21, <1>22, <1>23, <1>24, <1>25, <1>26, <1>27, <1>28, <1>29, <1>30, <1>31, <1>32, <1>33, <1>34, <1>35, <1>36

(* ... in that of the evaluator ... *)
LEMMA EvaluationOf ==
    ASSUME NEW o, NEW a, NEW c
    PROVE  /\ o = "TypeP" => EvalPrimOp(o, a, c) = EvalTypeP(a)
           /\ o \in {"OperatorP", "SymbolP"} => EvalPrimOp(o, a, c) = EvalSymbolTest(o, a)
           /\ o = "StaticMonoP" => EvalPrimOp(o, a, c) = EvalMonoP(a)
           /\ o = "RecordP" => EvalPrimOp(o, a, c) = EvalRecordP(a)
           /\ o = "VariantP" => EvalPrimOp(o, a, c) = EvalVariantP(a)
           /\ o = "EnumP" => EvalPrimOp(o, a, c) = EvalEnumP(a)
           /\ o \in {"TypeSize", "TypeAlignment"} => EvalPrimOp(o, a, c) = EvalSizes(o, a)
           /\ o = "StaticCallDefinedP" => EvalPrimOp(o, a, c) = EvalCallDefined(a)
           /\ o = "bitcopy" => EvalPrimOp(o, a, c) = EvalBitcopy(a)
           /\ o = "boolNot" => EvalPrimOp(o, a, c) = EvalBoolNot(a)
           /\ o \in FloatComparisons => EvalPrimOp(o, a, c) = EvalFloatComparison(o, a)
           /\ o \in {"integerEqualsP", "integerLesserP"} => EvalPrimOp(o, a, c) = EvalIntegerComparison(o, a)
           /\ o \in NumericBinary => EvalPrimOp(o, a, c) = EvalNumeric(o, a)
           /\ o = "numericNegate" => EvalPrimOp(o, a, c) = EvalNegate(a)
           /\ o \in {"integerQuotient", "integerRemainder"} => EvalPrimOp(o, a, c) = EvalDivision(o, a)
           /\ o \in PlainIntegerBinary \ {"integerQuotient", "integerRemainder"} => EvalPrimOp(o, a, c) = EvalBits(o, a)
           /\ o \in CheckedBinary => EvalPrimOp(o, a, c) = EvalChecked(o, a)
           /\ o = "integerNegateChecked" => EvalPrimOp(o, a, c) = EvalNegateChecked(a)
           /\ o = "integerBitwiseNot" => EvalPrimOp(o, a, c) = EvalBitwiseNot(a)
           /\ o \in Conversions => EvalPrimOp(o, a, c) = EvalConvert(o, a)
           /\ o \in {"addressOf", "pointerDereference", "pointerOffset"} => EvalPrimOp(o, a, c) = EvalPointer(o, a)
           /\ o = "nullPointer" => EvalPrimOp(o, a, c) = EvalNullPointer(a)
           /\ o = "pointerToInt" => EvalPrimOp(o, a, c) = EvalPointerToInt(a)
           /\ o = "intToPointer" => EvalPrimOp(o, a, c) = EvalIntToPointer(a)
           /\ o = "bitcast" => EvalPrimOp(o, a, c) = EvalBitcast(a)
           /\ o = "arrayRef" => EvalPrimOp(o, a, c) = EvalArrayRef(a)
           /\ o = "arrayElements" => EvalPrimOp(o, a, c) = EvalArrayElements(a)
           /\ o \in {"tupleRef", "tupleElements"} => EvalPrimOp(o, a, c) = EvalTuple(o, a)
           /\ o = "recordFieldRef" => EvalPrimOp(o, a, c) = EvalFieldRef(a)
           /\ o = "recordFieldRefByName" => EvalPrimOp(o, a, c) = EvalFieldRefByName(a)
           /\ o = "recordFields" => EvalPrimOp(o, a, c) = EvalRecordFields(a)
           /\ o = "recordVariadicField" => EvalPrimOp(o, a, c) = EvalVariadicField(a, c)
           /\ o \in {"TupleElementCount", "UnionMemberCount", "RecordFieldCount", "VariantMemberCount", "EnumMemberCount"} => EvalPrimOp(o, a, c) = EvalMemberCount(o, a)
           /\ o = "VariantMemberIndex" => EvalPrimOp(o, a, c) = EvalMemberIndex(a)
           /\ o = "RecordWithFieldP" => EvalPrimOp(o, a, c) = EvalWithField(a)
           /\ o = "RecordFieldName" => EvalPrimOp(o, a, c) = EvalFieldName(a)
           /\ o = "integers" => EvalPrimOp(o, a, c) = EvalIntegers(a)
           /\ o = "staticFieldRef" => EvalPrimOp(o, a, c) = EvalStaticFieldRef(a)
           /\ o \in {"enumToInt", "intToEnum"} => EvalPrimOp(o, a, c) = EvalEnum(o, a)
           /\ o \in {"StringLiteralP", "stringLiteralByteIndex", "stringLiteralBytes", "stringLiteralByteSize", "stringTableConstant"} => EvalPrimOp(o, a, c) = EvalString(o, a)
           /\ o = "FlagP" => EvalPrimOp(o, a, c) = EvalFlag(a)
           /\ o \in {"memcpy", "memmove"} => EvalPrimOp(o, a, c) = EvalMemory(o, a)
           /\ o \in ValueLists \union {"countValues"} => EvalPrimOp(o, a, c) = EvalValueList(o, a, c)
           /\ o \in LambdaTests => EvalPrimOp(o, a, c) = EvalLambdaTest(o, a)
           /\ o = "usuallyEquals" => EvalPrimOp(o, a, c) = EvalUsuallyEquals(a)
           /\ o \in OnlyAtRunTime => EvalPrimOp(o, a, c) = Refused
           /\ o \in (StaticResults \ {"RecordFieldName", "staticFieldRef"})
                   \union {"StaticCallOutputTypes", "StaticMonoInputTypes", "GetOverload"} => EvalPrimOp(o, a, c) = Untouched
  <1> USE DEF Predicates, Counts, IntCounts, Unchecked, FloatComparisons, Comparisons, NumericBinary,
          CheckedBinary, PlainIntegerBinary, IntegerBinary, IntegerUnary, Conversions, Pointers,
          Callables, Aggregates, StaticResults, AtomicOps, MemoryOps, ValueLists, LambdaTests,
          Constructors, OnlyAtRunTime
  <1>1. o = "TypeP" => EvalPrimOp(o, a, c) = EvalTypeP(a)
    BY DEF EvalPrimOp
  <1>2. o \in {"OperatorP", "SymbolP"} => EvalPrimOp(o, a, c) = EvalSymbolTest(o, a)
    BY DEF EvalPrimOp
  <1>3. o = "StaticMonoP" => EvalPrimOp(o, a, c) = EvalMonoP(a)
    BY DEF EvalPrimOp
  <1>4. o = "RecordP" => EvalPrimOp(o, a, c) = EvalRecordP(a)
    BY DEF EvalPrimOp
  <1>5. o = "VariantP" => EvalPrimOp(o, a, c) = EvalVariantP(a)
    BY DEF EvalPrimOp
  <1>6. o = "EnumP" => EvalPrimOp(o, a, c) = EvalEnumP(a)
    BY DEF EvalPrimOp
  <1>7. o \in {"TypeSize", "TypeAlignment"} => EvalPrimOp(o, a, c) = EvalSizes(o, a)
    BY DEF EvalPrimOp
  <1>8. o = "StaticCallDefinedP" => EvalPrimOp(o, a, c) = EvalCallDefined(a)
    BY DEF EvalPrimOp
  <1>9. o = "bitcopy" => EvalPrimOp(o, a, c) = EvalBitcopy(a)
    BY DEF EvalPrimOp
  <1>10. o = "boolNot" => EvalPrimOp(o, a, c) = EvalBoolNot(a)
    BY DEF EvalPrimOp
  <1>11. o \in FloatComparisons => EvalPrimOp(o, a, c) = EvalFloatComparison(o, a)
    BY DEF EvalPrimOp
  <1>12. o \in {"integerEqualsP", "integerLesserP"} => EvalPrimOp(o, a, c) = EvalIntegerComparison(o, a)
    BY DEF EvalPrimOp
  <1>13. o \in NumericBinary => EvalPrimOp(o, a, c) = EvalNumeric(o, a)
    BY DEF EvalPrimOp
  <1>14. o = "numericNegate" => EvalPrimOp(o, a, c) = EvalNegate(a)
    BY DEF EvalPrimOp
  <1>15. o \in {"integerQuotient", "integerRemainder"} => EvalPrimOp(o, a, c) = EvalDivision(o, a)
    BY DEF EvalPrimOp
  <1>16. o \in PlainIntegerBinary \ {"integerQuotient", "integerRemainder"} => EvalPrimOp(o, a, c) = EvalBits(o, a)
    BY DEF EvalPrimOp
  <1>17. o \in CheckedBinary => EvalPrimOp(o, a, c) = EvalChecked(o, a)
    BY DEF EvalPrimOp
  <1>18. o = "integerNegateChecked" => EvalPrimOp(o, a, c) = EvalNegateChecked(a)
    BY DEF EvalPrimOp
  <1>19. o = "integerBitwiseNot" => EvalPrimOp(o, a, c) = EvalBitwiseNot(a)
    BY DEF EvalPrimOp
  <1>20. o \in Conversions => EvalPrimOp(o, a, c) = EvalConvert(o, a)
    BY DEF EvalPrimOp
  <1>21. o \in {"addressOf", "pointerDereference", "pointerOffset"} => EvalPrimOp(o, a, c) = EvalPointer(o, a)
    BY DEF EvalPrimOp
  <1>22. o = "nullPointer" => EvalPrimOp(o, a, c) = EvalNullPointer(a)
    BY DEF EvalPrimOp
  <1>23. o = "pointerToInt" => EvalPrimOp(o, a, c) = EvalPointerToInt(a)
    BY DEF EvalPrimOp
  <1>24. o = "intToPointer" => EvalPrimOp(o, a, c) = EvalIntToPointer(a)
    BY DEF EvalPrimOp
  <1>25. o = "bitcast" => EvalPrimOp(o, a, c) = EvalBitcast(a)
    BY DEF EvalPrimOp
  <1>26. o = "arrayRef" => EvalPrimOp(o, a, c) = EvalArrayRef(a)
    BY DEF EvalPrimOp
  <1>27. o = "arrayElements" => EvalPrimOp(o, a, c) = EvalArrayElements(a)
    BY DEF EvalPrimOp
  <1>28. o \in {"tupleRef", "tupleElements"} => EvalPrimOp(o, a, c) = EvalTuple(o, a)
    BY DEF EvalPrimOp
  <1>29. o = "recordFieldRef" => EvalPrimOp(o, a, c) = EvalFieldRef(a)
    BY DEF EvalPrimOp
  <1>30. o = "recordFieldRefByName" => EvalPrimOp(o, a, c) = EvalFieldRefByName(a)
    BY DEF EvalPrimOp
  <1>31. o = "recordFields" => EvalPrimOp(o, a, c) = EvalRecordFields(a)
    BY DEF EvalPrimOp
  <1>32. o = "recordVariadicField" => EvalPrimOp(o, a, c) = EvalVariadicField(a, c)
    BY DEF EvalPrimOp
  <1>33. o \in {"TupleElementCount", "UnionMemberCount", "RecordFieldCount", "VariantMemberCount", "EnumMemberCount"} => EvalPrimOp(o, a, c) = EvalMemberCount(o, a)
    BY DEF EvalPrimOp
  <1>34. o = "VariantMemberIndex" => EvalPrimOp(o, a, c) = EvalMemberIndex(a)
    BY DEF EvalPrimOp
  <1>35. o = "RecordWithFieldP" => EvalPrimOp(o, a, c) = EvalWithField(a)
    BY DEF EvalPrimOp
  <1>36. o = "RecordFieldName" => EvalPrimOp(o, a, c) = EvalFieldName(a)
    BY DEF EvalPrimOp
  <1>37. o = "integers" => EvalPrimOp(o, a, c) = EvalIntegers(a)
    BY DEF EvalPrimOp
  <1>38. o = "staticFieldRef" => EvalPrimOp(o, a, c) = EvalStaticFieldRef(a)
    BY DEF EvalPrimOp
  <1>39. o \in {"enumToInt", "intToEnum"} => EvalPrimOp(o, a, c) = EvalEnum(o, a)
    BY DEF EvalPrimOp
  <1>40. o \in {"StringLiteralP", "stringLiteralByteIndex", "stringLiteralBytes", "stringLiteralByteSize", "stringTableConstant"} => EvalPrimOp(o, a, c) = EvalString(o, a)
    BY DEF EvalPrimOp
  <1>41. o = "FlagP" => EvalPrimOp(o, a, c) = EvalFlag(a)
    BY DEF EvalPrimOp
  <1>42. o \in {"memcpy", "memmove"} => EvalPrimOp(o, a, c) = EvalMemory(o, a)
    BY DEF EvalPrimOp
  <1>43. o \in ValueLists \union {"countValues"} => EvalPrimOp(o, a, c) = EvalValueList(o, a, c)
    BY DEF EvalPrimOp
  <1>44. o \in LambdaTests => EvalPrimOp(o, a, c) = EvalLambdaTest(o, a)
    BY DEF EvalPrimOp
  <1>45. o = "usuallyEquals" => EvalPrimOp(o, a, c) = EvalUsuallyEquals(a)
    BY DEF EvalPrimOp
  <1>46. o \in OnlyAtRunTime => EvalPrimOp(o, a, c) = Refused
    BY DEF EvalPrimOp
  <1>47. o \in (StaticResults \ {"RecordFieldName", "staticFieldRef"})
                   \union {"StaticCallOutputTypes", "StaticMonoInputTypes", "GetOverload"} => EvalPrimOp(o, a, c) = Untouched
    BY DEF EvalPrimOp
  <1> QED
    BY ONLY <1>1, <1>2, <1>3, <1>4, <1>5, <1>6, <1>7, <1>8, <1>9, <1>10, <1>11, <1>12, <1>13, <1>14, <1>15, <1>16, <1>17, <1>18, <1>19, <1>20, <1>21, <1>22, <1>23, <1>24, <1>25, <1>26, <1>27, <1>28, <1>29, <1>30, <1>31, <1>32, <1>33, <1>34, <1>35, <1>36, <1>37, <1>38, <1>39, <1>40, <1>41, <1>42, <1>43, <1>44, <1>45, <1>46, <1>47

(* ... and in that of the generator. *)
LEMMA GenerationOf ==
    ASSUME NEW o, NEW a, NEW c
    PROVE  /\ o = "TypeP" => CodegenPrimOp(o, a, c) = GenTypeP(a)
           /\ o \in {"OperatorP", "SymbolP"} => CodegenPrimOp(o, a, c) = GenSymbolTest(o, a)
           /\ o = "StaticMonoP" => CodegenPrimOp(o, a, c) = GenMonoP(a)
           /\ o = "RecordP" => CodegenPrimOp(o, a, c) = GenRecordP(a)
           /\ o = "VariantP" => CodegenPrimOp(o, a, c) = GenVariantP(a)
           /\ o = "EnumP" => CodegenPrimOp(o, a, c) = GenEnumP(a)
           /\ o \in {"TypeSize", "TypeAlignment"} => CodegenPrimOp(o, a, c) = GenSizes(o, a)
           /\ o = "StaticCallDefinedP" => CodegenPrimOp(o, a, c) = GenCallDefined(a)
           /\ o = "bitcopy" => CodegenPrimOp(o, a, c) = GenBitcopy(a)
           /\ o = "boolNot" => CodegenPrimOp(o, a, c) = GenBoolNot(a)
           /\ o \in {"integerEqualsP", "integerLesserP"} => CodegenPrimOp(o, a, c) = GenIntegerComparison(o, a)
           /\ o \in FloatComparisons => CodegenPrimOp(o, a, c) = GenFloatComparison(o, a)
           /\ o \in NumericBinary => CodegenPrimOp(o, a, c) = GenNumeric(o, a)
           /\ o = "numericNegate" => CodegenPrimOp(o, a, c) = GenNegate(a)
           /\ o \in PlainIntegerBinary => CodegenPrimOp(o, a, c) = GenInteger(o, a)
           /\ o = "integerBitwiseNot" => CodegenPrimOp(o, a, c) = GenBitwiseNot(a)
           /\ o = "numericConvert" => CodegenPrimOp(o, a, c) = GenConvert(a)
           /\ o \in CheckedBinary => CodegenPrimOp(o, a, c) = GenChecked(o, a)
           /\ o = "integerNegateChecked" => CodegenPrimOp(o, a, c) = GenNegateChecked(a)
           /\ o = "integerConvertChecked" => CodegenPrimOp(o, a, c) = GenConvertChecked(a)
           /\ o \in {"addressOf", "pointerDereference", "pointerOffset"} => CodegenPrimOp(o, a, c) = GenPointer(o, a)
           /\ o = "nullPointer" => CodegenPrimOp(o, a, c) = GenNullPointer(a)
           /\ o = "pointerToInt" => CodegenPrimOp(o, a, c) = GenPointerToInt(a)
           /\ o = "intToPointer" => CodegenPrimOp(o, a, c) = GenIntToPointer(a)
           /\ o = "bitcast" => CodegenPrimOp(o, a, c) = GenBitcast(a)
           /\ o = "makeCodePointer" => CodegenPrimOp(o, a, c) = GenMakeCodePointer(a)
           /\ o = "makeExternalCodePointer" => CodegenPrimOp(o, a, c) = GenMakeExternal(a)
           /\ o = "callExternalCodePointer" => CodegenPrimOp(o, a, c) = GenCallExternal(a)
           /\ o \in {"arrayRef", "arrayElements"} => CodegenPrimOp(o, a, c) = GenArray(o, a)
           /\ o \in {"tupleRef", "tupleElements"} => CodegenPrimOp(o, a, c) = GenTuple(o, a)
           /\ o = "recordFieldRef" => CodegenPrimOp(o, a, c) = GenFieldRef(a)
           /\ o = "recordFieldRefByName" => CodegenPrimOp(o, a, c) = GenFieldRefByName(a)
           /\ o = "recordFields" => CodegenPrimOp(o, a, c) = GenRecordFields(a)
           /\ o = "recordVariadicField" => CodegenPrimOp(o, a, c) = GenVariadicField(a)
           /\ o \in {"TupleElementCount", "UnionMemberCount", "RecordFieldCount", "VariantMemberCount", "EnumMemberCount"} => CodegenPrimOp(o, a, c) = GenMemberCount(o, a)
           /\ o = "VariantMemberIndex" => CodegenPrimOp(o, a, c) = GenMemberIndex(a)
           /\ o = "RecordWithFieldP" => CodegenPrimOp(o, a, c) = GenWithField(a)
           /\ o = "RecordFieldName" => CodegenPrimOp(o, a, c) = GenFieldName(a)
           /\ o = "integers" => CodegenPrimOp(o, a, c) = GenIntegers(a)
           /\ o = "staticFieldRef" => CodegenPrimOp(o, a, c) = GenStaticFieldRef(a)
           /\ o \in {"enumToInt", "intToEnum"} => CodegenPrimOp(o, a, c) = GenEnum(o, a)
           /\ o \in {"StringLiteralP", "stringLiteralByteIndex", "stringLiteralBytes", "stringLiteralByteSize", "stringTableConstant"} => CodegenPrimOp(o, a, c) = GenString(o, a)
           /\ o = "FlagP" => CodegenPrimOp(o, a, c) = GenFlag(a)
           /\ o \in AtomicOps => CodegenPrimOp(o, a, c) = GenAtomic(o, a)
           /\ o = "activeException" => CodegenPrimOp(o, a, c) = GenActiveException(a)
           /\ o \in {"memcpy", "memmove"} => CodegenPrimOp(o, a, c) = GenMemory(a)
           /\ o \in ValueLists \union {"countValues"} => CodegenPrimOp(o, a, c) = GenValueList(o, a, c)
           /\ o \in LambdaTests => CodegenPrimOp(o, a, c) = GenLambdaTest(o, a)
           /\ o = "usuallyEquals" => CodegenPrimOp(o, a, c) = GenUsuallyEquals(a)
           /\ o \in Constructors => CodegenPrimOp(o, a, c) = Refused
           /\ o \in (StaticResults \ {"RecordFieldName", "staticFieldRef"})
                   \union {"StaticCallOutputTypes", "StaticMonoInputTypes", "GetOverload"} => CodegenPrimOp(o, a, c) = Untouched
  <1> USE DEF Predicates, Counts, IntCounts, Unchecked, FloatComparisons, Comparisons, NumericBinary,
          CheckedBinary, PlainIntegerBinary, IntegerBinary, IntegerUnary, Conversions, Pointers,
          Callables, Aggregates, StaticResults, AtomicOps, MemoryOps, ValueLists, LambdaTests,
          Constructors, OnlyAtRunTime
  <1>1. o = "TypeP" => CodegenPrimOp(o, a, c) = GenTypeP(a)
    BY DEF CodegenPrimOp
  <1>2. o \in {"OperatorP", "SymbolP"} => CodegenPrimOp(o, a, c) = GenSymbolTest(o, a)
    BY DEF CodegenPrimOp
  <1>3. o = "StaticMonoP" => CodegenPrimOp(o, a, c) = GenMonoP(a)
    BY DEF CodegenPrimOp
  <1>4. o = "RecordP" => CodegenPrimOp(o, a, c) = GenRecordP(a)
    BY DEF CodegenPrimOp
  <1>5. o = "VariantP" => CodegenPrimOp(o, a, c) = GenVariantP(a)
    BY DEF CodegenPrimOp
  <1>6. o = "EnumP" => CodegenPrimOp(o, a, c) = GenEnumP(a)
    BY DEF CodegenPrimOp
  <1>7. o \in {"TypeSize", "TypeAlignment"} => CodegenPrimOp(o, a, c) = GenSizes(o, a)
    BY DEF CodegenPrimOp
  <1>8. o = "StaticCallDefinedP" => CodegenPrimOp(o, a, c) = GenCallDefined(a)
    BY DEF CodegenPrimOp
  <1>9. o = "bitcopy" => CodegenPrimOp(o, a, c) = GenBitcopy(a)
    BY DEF CodegenPrimOp
  <1>10. o = "boolNot" => CodegenPrimOp(o, a, c) = GenBoolNot(a)
    BY DEF CodegenPrimOp
  <1>11. o \in {"integerEqualsP", "integerLesserP"} => CodegenPrimOp(o, a, c) = GenIntegerComparison(o, a)
    BY DEF CodegenPrimOp
  <1>12. o \in FloatComparisons => CodegenPrimOp(o, a, c) = GenFloatComparison(o, a)
    BY DEF CodegenPrimOp
  <1>13. o \in NumericBinary => CodegenPrimOp(o, a, c) = GenNumeric(o, a)
    BY DEF CodegenPrimOp
  <1>14. o = "numericNegate" => CodegenPrimOp(o, a, c) = GenNegate(a)
    BY DEF CodegenPrimOp
  <1>15. o \in PlainIntegerBinary => CodegenPrimOp(o, a, c) = GenInteger(o, a)
    BY DEF CodegenPrimOp
  <1>16. o = "integerBitwiseNot" => CodegenPrimOp(o, a, c) = GenBitwiseNot(a)
    BY DEF CodegenPrimOp
  <1>17. o = "numericConvert" => CodegenPrimOp(o, a, c) = GenConvert(a)
    BY DEF CodegenPrimOp
  <1>18. o \in CheckedBinary => CodegenPrimOp(o, a, c) = GenChecked(o, a)
    BY DEF CodegenPrimOp
  <1>19. o = "integerNegateChecked" => CodegenPrimOp(o, a, c) = GenNegateChecked(a)
    BY DEF CodegenPrimOp
  <1>20. o = "integerConvertChecked" => CodegenPrimOp(o, a, c) = GenConvertChecked(a)
    BY DEF CodegenPrimOp
  <1>21. o \in {"addressOf", "pointerDereference", "pointerOffset"} => CodegenPrimOp(o, a, c) = GenPointer(o, a)
    BY DEF CodegenPrimOp
  <1>22. o = "nullPointer" => CodegenPrimOp(o, a, c) = GenNullPointer(a)
    BY DEF CodegenPrimOp
  <1>23. o = "pointerToInt" => CodegenPrimOp(o, a, c) = GenPointerToInt(a)
    BY DEF CodegenPrimOp
  <1>24. o = "intToPointer" => CodegenPrimOp(o, a, c) = GenIntToPointer(a)
    BY DEF CodegenPrimOp
  <1>25. o = "bitcast" => CodegenPrimOp(o, a, c) = GenBitcast(a)
    BY DEF CodegenPrimOp
  <1>26. o = "makeCodePointer" => CodegenPrimOp(o, a, c) = GenMakeCodePointer(a)
    BY DEF CodegenPrimOp
  <1>27. o = "makeExternalCodePointer" => CodegenPrimOp(o, a, c) = GenMakeExternal(a)
    BY DEF CodegenPrimOp
  <1>28. o = "callExternalCodePointer" => CodegenPrimOp(o, a, c) = GenCallExternal(a)
    BY DEF CodegenPrimOp
  <1>29. o \in {"arrayRef", "arrayElements"} => CodegenPrimOp(o, a, c) = GenArray(o, a)
    BY DEF CodegenPrimOp
  <1>30. o \in {"tupleRef", "tupleElements"} => CodegenPrimOp(o, a, c) = GenTuple(o, a)
    BY DEF CodegenPrimOp
  <1>31. o = "recordFieldRef" => CodegenPrimOp(o, a, c) = GenFieldRef(a)
    BY DEF CodegenPrimOp
  <1>32. o = "recordFieldRefByName" => CodegenPrimOp(o, a, c) = GenFieldRefByName(a)
    BY DEF CodegenPrimOp
  <1>33. o = "recordFields" => CodegenPrimOp(o, a, c) = GenRecordFields(a)
    BY DEF CodegenPrimOp
  <1>34. o = "recordVariadicField" => CodegenPrimOp(o, a, c) = GenVariadicField(a)
    BY DEF CodegenPrimOp
  <1>35. o \in {"TupleElementCount", "UnionMemberCount", "RecordFieldCount", "VariantMemberCount", "EnumMemberCount"} => CodegenPrimOp(o, a, c) = GenMemberCount(o, a)
    BY DEF CodegenPrimOp
  <1>36. o = "VariantMemberIndex" => CodegenPrimOp(o, a, c) = GenMemberIndex(a)
    BY DEF CodegenPrimOp
  <1>37. o = "RecordWithFieldP" => CodegenPrimOp(o, a, c) = GenWithField(a)
    BY DEF CodegenPrimOp
  <1>38. o = "RecordFieldName" => CodegenPrimOp(o, a, c) = GenFieldName(a)
    BY DEF CodegenPrimOp
  <1>39. o = "integers" => CodegenPrimOp(o, a, c) = GenIntegers(a)
    BY DEF CodegenPrimOp
  <1>40. o = "staticFieldRef" => CodegenPrimOp(o, a, c) = GenStaticFieldRef(a)
    BY DEF CodegenPrimOp
  <1>41. o \in {"enumToInt", "intToEnum"} => CodegenPrimOp(o, a, c) = GenEnum(o, a)
    BY DEF CodegenPrimOp
  <1>42. o \in {"StringLiteralP", "stringLiteralByteIndex", "stringLiteralBytes", "stringLiteralByteSize", "stringTableConstant"} => CodegenPrimOp(o, a, c) = GenString(o, a)
    BY DEF CodegenPrimOp
  <1>43. o = "FlagP" => CodegenPrimOp(o, a, c) = GenFlag(a)
    BY DEF CodegenPrimOp
  <1>44. o \in AtomicOps => CodegenPrimOp(o, a, c) = GenAtomic(o, a)
    BY DEF CodegenPrimOp
  <1>45. o = "activeException" => CodegenPrimOp(o, a, c) = GenActiveException(a)
    BY DEF CodegenPrimOp
  <1>46. o \in {"memcpy", "memmove"} => CodegenPrimOp(o, a, c) = GenMemory(a)
    BY DEF CodegenPrimOp
  <1>47. o \in ValueLists \union {"countValues"} => CodegenPrimOp(o, a, c) = GenValueList(o, a, c)
    BY DEF CodegenPrimOp
  <1>48. o \in LambdaTests => CodegenPrimOp(o, a, c) = GenLambdaTest(o, a)
    BY DEF CodegenPrimOp
  <1>49. o = "usuallyEquals" => CodegenPrimOp(o, a, c) = GenUsuallyEquals(a)
    BY DEF CodegenPrimOp
  <1>50. o \in Constructors => CodegenPrimOp(o, a, c) = Refused
    BY DEF CodegenPrimOp
  <1>51. o \in (StaticResults \ {"RecordFieldName", "staticFieldRef"})
                   \union {"StaticCallOutputTypes", "StaticMonoInputTypes", "GetOverload"} => CodegenPrimOp(o, a, c) = Untouched
    BY DEF CodegenPrimOp
  <1> QED
    BY ONLY <1>1, <1>2, <1>3, <1>4, <1>5, <1>6, <1>7, <1>8, <1>9, <1>10, <1>11, <1>12, <1>13, <1>14, <1>15, <1>16, <1>17, <1>18, <1>19, <1>20, <1>21, <1>22, <1>23, <1>24, <1>25, <1>26, <1>27, <1>28, <1>29, <1>30, <1>31, <1>32, <1>33, <1>34, <1>35, <1>36, <1>37, <1>38, <1>39, <1>40, <1>41, <1>42, <1>43, <1>44, <1>45, <1>46, <1>47, <1>48, <1>49, <1>50, <1>51
-----------------------------------------------------------------------------
(* An answer that passes the assertions on the cells c, and two answers that the
   program cannot tell apart. *)
Fitting(answer, c) ==
  /\ answer.out # "assert"
  /\ answer.out = "ok" => [i \in 1 .. Len(answer.writes) |-> answer.writes[i].type] = c
  /\ answer.out = "static" => \A i \in 1 .. Len(c) : c[i].kind = "static"
Agree(e, g) == e = g \/ Undefined \in {e, g}

(* An answer that writes as many values as the analyzer gives, each of the type of its
   cell. *)
LEMMA FittingWrites ==
    ASSUME NEW pvs, NEW ws, Len(pvs) \in Nat, Len(ws) = Len(pvs),
           \A i \in 1 .. Len(pvs) : ws[i].type = CellType(pvs[i])
    PROVE  Fitting(Writes(ws), CellsOf(Gives(pvs)))
  BY DEF Fitting, Writes, CellsOf, Gives

(* One value of the type t, or none. *)
OneResult(t, answer) ==
  \/ answer \in {Refused, Crash, Undefined, Overflow}
  \/ answer.out = "ok" /\ Len(answer.writes) = 1 /\ answer.writes[1].type = t

LEMMA OneWrite ==
    ASSUME NEW t, NEW n, NEW b
    PROVE  /\ OneResult(t, Write(t, n)) /\ OneResult(t, When(b, Write(t, n)))
           /\ OneResult(t, Refused) /\ OneResult(t, Crash)
           /\ OneResult(t, Undefined) /\ OneResult(t, Overflow)
  BY DEF OneResult, Write, Writes, Arg, When

LEMMA FittingOne ==
    ASSUME NEW t, NEW answer, OneResult(t, answer), NEW pv, CellType(pv) = t
    PROVE  Fitting(answer, CellsOf(Gives(<<pv>>)))
  <1>1. CASE answer \in {Refused, Crash, Undefined, Overflow}
    BY <1>1 DEF Fitting, Refused, Crash, Undefined, Overflow
  <1>2. CASE answer.out = "ok" /\ Len(answer.writes) = 1 /\ answer.writes[1].type = t
    <2>1. CellsOf(Gives(<<pv>>)) = [i \in 1 .. 1 |-> t]
      BY DEF CellsOf, Gives
    <2>2. [i \in 1 .. Len(answer.writes) |-> answer.writes[i].type] = [i \in 1 .. 1 |-> t]
      BY <1>2
    <2> QED
      BY <1>2, <2>1, <2>2 DEF Fitting
  <1> QED
    BY <1>1, <1>2 DEF OneResult

LEMMA FittingResult ==
    ASSUME NEW t, NEW answer, OneResult(t, answer)
    PROVE  Fitting(answer, CellsOf(Gives(<<Value(t)>>)))
  <1>1. CellType(Value(t)) = t
    BY DEF CellType, Value
  <1> QED
    BY <1>1, FittingOne

LEMMA FittingReference ==
    ASSUME NEW t, NEW answer, OneResult(PointerT(t), answer)
    PROVE  Fitting(answer, CellsOf(Gives(<<Reference(t)>>)))
  <1>1. CellType(Reference(t)) = PointerT(t)
    BY DEF CellType, Reference
  <1> QED
    BY <1>1, FittingOne

(* The questions about static objects and the tests of Bools. *)
LEMMA PredicatesAgree ==
    ASSUME NEW o \in Predicates, NEW a \in Seq(Arguments), NEW c
    PROVE  /\ EvalPrimOp(o, a, c) = CodegenPrimOp(o, a, c)
           /\ OneResult(BoolT, EvalPrimOp(o, a, c))
  <1> USE DEF Flag, Constant, Test
  <1>1. CASE o = "TypeP"
    <2>1. EvalPrimOp(o, a, c) = EvalTypeP(a) /\ CodegenPrimOp(o, a, c) = GenTypeP(a)
      BY <1>1, EvaluationOf, GenerationOf
    <2> QED
      BY <1>1, <2>1, OneWrite DEF EvalTypeP, GenTypeP
  <1>2. CASE o \in {"OperatorP", "SymbolP"}
    <2>1. EvalPrimOp(o, a, c) = EvalSymbolTest(o, a) /\ CodegenPrimOp(o, a, c) = GenSymbolTest(o, a)
      BY <1>2, EvaluationOf, GenerationOf
    <2> QED
      BY <1>2, <2>1, OneWrite DEF EvalSymbolTest, GenSymbolTest
  <1>3. CASE o = "StaticCallDefinedP"
    <2>1. EvalPrimOp(o, a, c) = EvalCallDefined(a) /\ CodegenPrimOp(o, a, c) = GenCallDefined(a)
      BY <1>3, EvaluationOf, GenerationOf
    <2>2. Len(a) >= 1 <=> Len(a) # 0
      OBVIOUS
    <2> QED
      BY <1>3, <2>1, <2>2, OneWrite DEF EvalCallDefined, GenCallDefined, When
  <1>4. CASE o = "StaticMonoP"
    <2>1. EvalPrimOp(o, a, c) = EvalMonoP(a) /\ CodegenPrimOp(o, a, c) = GenMonoP(a)
      BY <1>4, EvaluationOf, GenerationOf
    <2>2. ASSUME Len(a) = 1, Obj(a, 1).objKind = "PROCEDURE"
          PROVE  Obj(a, 1).mono # <<>> <=> Len(Obj(a, 1).mono) > 0
      <3>1. 1 \in 1 .. Len(a)
        BY <2>2
      <3>2. WellFormedObject(Obj(a, 1))
        BY <3>1, ArgumentIs
      <3>3. Obj(a, 1).mono \in Seq(Types)
        BY <2>2, <3>2 DEF Null, WellFormedObject
      <3> QED
        BY <3>3
    <2> QED
      BY <1>4, <2>1, <2>2, OneWrite DEF EvalMonoP, GenMonoP, When, Truth
  <1>5. CASE o = "boolNot"
    <2>1. EvalPrimOp(o, a, c) = EvalBoolNot(a) /\ CodegenPrimOp(o, a, c) = GenBoolNot(a)
      BY <1>5, EvaluationOf, GenerationOf
    <2> QED
      BY <1>5, <2>1, OneWrite DEF EvalBoolNot, GenBoolNot
  <1>6. CASE o = "RecordP"
    <2>1. EvalPrimOp(o, a, c) = EvalRecordP(a) /\ CodegenPrimOp(o, a, c) = GenRecordP(a)
      BY <1>6, EvaluationOf, GenerationOf
    <2> QED
      BY <1>6, <2>1, OneWrite DEF EvalRecordP, GenRecordP, IsTypeOfKind
  <1>7. CASE o = "VariantP"
    <2>1. EvalPrimOp(o, a, c) = EvalVariantP(a) /\ CodegenPrimOp(o, a, c) = GenVariantP(a)
      BY <1>7, EvaluationOf, GenerationOf
    <2> QED
      BY <1>7, <2>1, OneWrite DEF EvalVariantP, GenVariantP, IsTypeOfKind
  <1>8. CASE o = "EnumP"
    <2>1. EvalPrimOp(o, a, c) = EvalEnumP(a) /\ CodegenPrimOp(o, a, c) = GenEnumP(a)
      BY <1>8, EvaluationOf, GenerationOf
    <2> QED
      BY <1>8, <2>1, OneWrite DEF EvalEnumP, GenEnumP, IsTypeOfKind
  <1>9. CASE o = "RecordWithFieldP"
    <2>1. EvalPrimOp(o, a, c) = EvalWithField(a) /\ CodegenPrimOp(o, a, c) = GenWithField(a)
      BY <1>9, EvaluationOf, GenerationOf
    <2>2. ASSUME Len(a) = 2, IsTypeOfKind(a, 1, "record")
          PROVE  HasField(TypeArg(a, 1), Obj(a, 2)) <=>
                   \E i \in DOMAIN TypeArg(a, 1).names : TypeArg(a, 1).names[i] = Obj(a, 2)
      <3>1. 1 \in 1 .. Len(a)
        BY <2>2
      <3>2. TypeArg(a, 1) \in Types /\ TypeArg(a, 1).kind = "record"
        BY <2>2, <3>1, ArgumentIs DEF IsTypeOfKind
      <3>3. TypeArg(a, 1).names \in Seq(Objects)
        BY <3>2, TypeOfProgram DEF WellFormedType
      <3> QED
        BY <3>3 DEF HasField
    <2> QED
      BY <1>9, <2>1, <2>2, OneWrite DEF EvalWithField, GenWithField, When, Truth
  <1>10. CASE o = "StringLiteralP"
    <2>1. EvalPrimOp(o, a, c) = EvalString(o, a) /\ CodegenPrimOp(o, a, c) = GenString(o, a)
      BY <1>10, EvaluationOf, GenerationOf
    <2> QED
      BY <1>10, <2>1, OneWrite DEF EvalString, GenString
  <1>11. CASE o = "FlagP"
    <2>1. EvalPrimOp(o, a, c) = EvalFlag(a) /\ CodegenPrimOp(o, a, c) = GenFlag(a)
      BY <1>11, EvaluationOf, GenerationOf
    <2> QED
      BY <1>11, <2>1, OneWrite DEF EvalFlag, GenFlag
  <1> QED
    BY <1>1, <1>2, <1>3, <1>4, <1>5, <1>6, <1>7, <1>8, <1>9, <1>10, <1>11 DEF Predicates

LEMMA RangesGrow ==
    ASSUME NEW A, Integral(A), A.kind = "integer", NEW B, Integral(B), NEW n \in Int, Fits(A, n),
           \/ A.signed = B.signed /\ A.bits <= B.bits
           \/ ~A.signed /\ B.signed /\ A.bits < B.bits
    PROVE  Fits(B, n)
  <1>1. /\ A.bits \in Nat /\ B.bits \in Nat /\ A.signed \in BOOLEAN /\ B.signed \in BOOLEAN
    BY DEF Integral
  <1>2. CASE A.signed = B.signed
    <2>1. ConvertOverflows(B, A, n) <=> B.bits < A.bits /\ (n < MinOf(B) \/ n > MaxOf(B))
      BY <1>2 DEF ConvertOverflows
    <2>2. ~(B.bits < A.bits)
      BY <1>1, <1>2
    <2> QED
      BY <2>1, <2>2, ConversionTested
  <1>3. CASE ~A.signed /\ B.signed /\ A.bits < B.bits
    <2>1. ConvertOverflows(B, A, n) <=> B.bits <= A.bits /\ n > MaxOf(B)
      BY <1>1, <1>3 DEF ConvertOverflows
    <2>2. ~(B.bits <= A.bits)
      BY <1>1, <1>3
    <2> QED
      BY <2>1, <2>2, ConversionTested
  <1> QED
    BY <1>1, <1>2, <1>3

LEMMA Sizes ==
    /\ MaxSize \in Nat /\ MaxSize > 1
    /\ Integral(IntT) /\ Integral(SizeT) /\ Integral(ByteT) /\ Integral(IntegerT(ByteBits, TRUE))
    /\ ByteBits < PtrBits /\ PtrBits < MaxBits
    /\ ByteBits \in Nat \ {0} /\ PtrBits \in Nat \ {0} /\ MaxBits \in Nat
    /\ IntT.kind = "integer" /\ IntT.bits = PtrBits /\ IntT.signed = TRUE
    /\ SizeT.kind = "integer" /\ SizeT.bits = PtrBits /\ SizeT.signed = FALSE
  <1>1. ByteBits \in Nat \ {0} /\ PtrBits \in Nat \ {0} /\ MaxBits \in Nat /\ ByteBits < PtrBits /\ PtrBits < MaxBits
    BY WidthAssumption
  <1>2. 2 ^ 1 <= 2 ^ PtrBits /\ 2 ^ 1 = 2
    BY <1>1, Powers, PowersGrow
  <1>3. 2 ^ PtrBits \in Nat
    BY <1>1, Powers
  <1> QED
    BY <1>1, <1>2, <1>3 DEF MaxSize, Integral, IntT, SizeT, ByteT, IntegerT

LEMMA StaticCountIs ==
    ASSUME NEW a \in Seq(Arguments), NEW i \in 1 .. Len(a), IsStaticCount(a, i)
    PROVE  StaticCount(a, i) \in 0 .. MaxSize - 1
  <1>1. Obj(a, i).val \in Int /\ MaxSize \in Nat \ {0}
    BY ArgumentIs, Sizes
  <1> QED
    BY <1>1, Dividing DEF StaticCount

LEMMA SignedAs ==
    ASSUME NEW b, NEW s, NEW u
    PROVE  [IntegerT(b, s) EXCEPT !.signed = u] = IntegerT(b, u)
  BY DEF IntegerT

(* A byte of a literal is the same number to both passes. *)
LEMMA SameByte ==
    ASSUME NEW n \in Int
    PROVE  SignedByte(n) = Char(n)
  <1> DEFINE t == IntegerT(ByteBits, TRUE)
  <1>1. /\ t.kind = "integer" /\ t.signed = TRUE /\ t.bits = ByteBits /\ [t EXCEPT !.signed = TRUE] = t
        /\ Integral(t)
    <2>1. t.kind = "integer" /\ t.signed = TRUE /\ t.bits = ByteBits
      BY DEF IntegerT
    <2>2. [t EXCEPT !.signed = TRUE] = t
      BY SignedAs
    <2>3. Integral(t)
      BY Sizes
    <2> QED
      BY <2>1, <2>2, <2>3
  <1>2. IntT = IntegerT(PtrBits, TRUE)
    BY DEF IntT
  <1>3. SignedByte(n) = Wrap(IntT, Char(n))
    BY <1>1, <1>2 DEF SignedByte, SignExtended, AsSigned, Char
  <1>4. Char(n) \in Int /\ Fits(t, Char(n))
    BY <1>1, Wrapping DEF Char
  <1> HIDE DEF t
  <1>5. Fits(IntT, Char(n))
    <2>1. Integral(IntT) /\ IntT.signed = TRUE /\ t.bits <= IntT.bits
      BY <1>1, Sizes
    <2>2. t.signed = IntT.signed
      BY <1>1, <2>1
    <2> QED
      BY <1>1, <1>4, <2>1, <2>2, RangesGrow
  <1> QED
    BY <1>3, <1>4, <1>5, Sizes, Wrapping

LEMMA CountsAgree ==
    ASSUME NEW o \in Counts, NEW a \in Seq(Arguments), NEW c
    PROVE  /\ EvalPrimOp(o, a, c) = CodegenPrimOp(o, a, c)
           /\ OneResult(SizeT, EvalPrimOp(o, a, c))
  <1> USE DEF Constant
  <1>1. CASE o \in {"TypeSize", "TypeAlignment"}
    <2>1. EvalPrimOp(o, a, c) = EvalSizes(o, a) /\ CodegenPrimOp(o, a, c) = GenSizes(o, a)
      BY <1>1, EvaluationOf, GenerationOf
    <2>2. EvalSizes(o, a) = GenSizes(o, a)
      BY <1>1 DEF EvalSizes, GenSizes, When
    <2>3. OneResult(SizeT, EvalSizes(o, a))
      BY OneWrite DEF EvalSizes
    <2> QED
      BY <2>1, <2>2, <2>3
  <1>2. CASE o \in {"TupleElementCount", "UnionMemberCount", "RecordFieldCount", "VariantMemberCount", "EnumMemberCount"}
    <2>1. EvalPrimOp(o, a, c) = EvalMemberCount(o, a) /\ CodegenPrimOp(o, a, c) = GenMemberCount(o, a)
      BY <1>2, EvaluationOf, GenerationOf
    <2>2. EvalMemberCount(o, a) = GenMemberCount(o, a)
      BY <1>2 DEF EvalMemberCount, GenMemberCount
    <2>3. OneResult(SizeT, EvalMemberCount(o, a))
      BY <1>2, OneWrite DEF EvalMemberCount
    <2> QED
      BY <2>1, <2>2, <2>3
  <1>3. CASE o = "VariantMemberIndex"
    <2>1. EvalPrimOp(o, a, c) = EvalMemberIndex(a) /\ CodegenPrimOp(o, a, c) = GenMemberIndex(a)
      BY <1>3, EvaluationOf, GenerationOf
    <2> DEFINE ms == TypeArg(a, 1).members
               found == {i \in 1 .. Len(ms) : ms[i] = TypeArg(a, 2)}
               first == CHOOSE i \in found : \A j \in found : i <= j
    <2>2. ASSUME Len(a) = 2, IsTypeOfKind(a, 1, "variant")
          PROVE  ((IF found # {} THEN first ELSE 0) - 1) % MaxSize = IF found = {} THEN MaxSize - 1 ELSE first - 1
      <3>1. 1 \in 1 .. Len(a)
        BY <2>2
      <3>2. TypeArg(a, 1) \in Types /\ TypeArg(a, 1).kind = "variant"
        BY <2>2, <3>1, ArgumentIs DEF IsTypeOfKind
      <3>3. Len(ms) \in Nat /\ Len(ms) < MaxSize
        BY <3>2, TypeOfProgram DEF WellFormedType
      <3>4. CASE found = {}
        <4>1. (MaxSize * (-1) + (MaxSize - 1)) % MaxSize = MaxSize - 1
          BY Sizes, RemainderIs
        <4>2. MaxSize * (-1) + (MaxSize - 1) = 0 - 1
          BY Sizes
        <4> QED
          BY <3>4, <4>1, <4>2
      <3>5. CASE found # {}
        <4>1. found \in SUBSET Nat
          BY <3>3
        <4>2. \E i \in found : \A j \in found : i <= j
          BY <3>5, <4>1, LeastNatural
        <4>3. first \in found
          BY <4>2
        <4>4. first - 1 \in 0 .. MaxSize - 1
          BY <3>3, <4>3, Sizes
        <4> HIDE DEF first
        <4>5. (first - 1) % MaxSize = first - 1
          <5>1. MaxSize \in Nat \ {0} /\ first - 1 \in Int
            BY <4>4, Sizes
          <5> QED
            BY <4>4, <5>1, Dividing
        <4> QED
          BY <3>5, <4>5
      <3> QED
        BY <3>4, <3>5
    <2>3. SelectInSeq(ms, LAMBDA t : t = TypeArg(a, 2)) = IF found # {} THEN first ELSE 0
      BY DEF SelectInSeq, Min
    <2>4. EvalMemberIndex(a) = GenMemberIndex(a)
      BY <2>2, <2>3 DEF EvalMemberIndex, GenMemberIndex, When
    <2>5. OneResult(SizeT, EvalMemberIndex(a))
      BY OneWrite DEF EvalMemberIndex
    <2> QED
      BY <2>1, <2>4, <2>5
  <1>4. CASE o = "stringLiteralByteSize"
    <2>1. EvalPrimOp(o, a, c) = EvalString(o, a) /\ CodegenPrimOp(o, a, c) = GenString(o, a)
      BY <1>4, EvaluationOf, GenerationOf
    <2> QED
      BY <1>4, <2>1, OneWrite DEF EvalString, GenString
  <1> QED
    BY <1>1, <1>2, <1>3, <1>4 DEF Counts

LEMMA IntCountsAgree ==
    ASSUME NEW o \in IntCounts, NEW a \in Seq(Arguments), NEW c
    PROVE  /\ EvalPrimOp(o, a, c) = CodegenPrimOp(o, a, c)
           /\ OneResult(IntT, EvalPrimOp(o, a, c))
  <1> USE DEF Constant
  <1>1. CASE o = "enumToInt"
    <2>1. EvalPrimOp(o, a, c) = EvalEnum(o, a) /\ CodegenPrimOp(o, a, c) = GenEnum(o, a)
      BY <1>1, EvaluationOf, GenerationOf
    <2> QED
      BY <1>1, <2>1, OneWrite DEF EvalEnum, GenEnum
  <1>2. CASE o = "countValues"
    <2>1. EvalPrimOp(o, a, c) = EvalValueList(o, a, c) /\ CodegenPrimOp(o, a, c) = GenValueList(o, a, c)
      BY <1>2, EvaluationOf, GenerationOf
    <2> QED
      BY <1>2, <2>1, OneWrite DEF EvalValueList, GenValueList
  <1>3. CASE o = "stringLiteralByteIndex"
    <2>1. EvalPrimOp(o, a, c) = EvalString(o, a) /\ CodegenPrimOp(o, a, c) = GenString(o, a)
      BY <1>3, EvaluationOf, GenerationOf
    <2>2. ASSUME Len(a) = 2, IsName(a, 1), IsStaticCount(a, 2), StaticCount(a, 2) < Len(Obj(a, 1).str)
          PROVE  Obj(a, 1).str[StaticCount(a, 2) + 1] \in Int
      <3>1. 1 \in 1 .. Len(a) /\ 2 \in 1 .. Len(a)
        BY <2>2
      <3>2. Obj(a, 1).str \in Seq(Nat)
        BY <2>2, <3>1, ArgumentIs DEF IsName, Null, WellFormedObject
      <3>3. StaticCount(a, 2) \in 0 .. MaxSize - 1
        BY <2>2, <3>1, StaticCountIs
      <3> QED
        BY <2>2, <3>2, <3>3
    <2>3. EvalString(o, a) = GenString(o, a)
      BY <1>3, <2>2, SameByte DEF EvalString, GenString, When
    <2>4. OneResult(IntT, EvalString(o, a))
      BY <1>3, OneWrite DEF EvalString
    <2> QED
      BY <2>1, <2>3, <2>4
  <1> QED
    BY <1>1, <1>2, <1>3 DEF IntCounts

LEMMA OneWhen ==
    ASSUME NEW t, NEW answer, OneResult(t, answer), NEW b
    PROVE  OneResult(t, When(b, answer))
  BY DEF When, OneResult

(* The comparisons of the host and the predicates of the generated code. *)
LEMMA FloatTestIs ==
    ASSUME NEW o \in FloatComparisons, NEW x \in Int, NEW y \in Int
    PROVE  FloatTest(o, x, y) <=> FCmp(Predicate(o), x, y)
  <1>0. \A P : FCmp(P, x, y) <=> \/ NaN \in {x, y} /\ "unordered" \in P
                                 \/ NaN \notin {x, y} /\ x = y /\ "equal" \in P
                                 \/ NaN \notin {x, y} /\ x < y /\ "less" \in P
                                 \/ NaN \notin {x, y} /\ y < x /\ "greater" \in P
    <2> TAKE P
    <2> DEFINE outcome ==
          CASE NaN \in {x, y} -> "unordered"
            [] NaN \notin {x, y} -> IF x = y THEN "equal" ELSE IF x < y THEN "less" ELSE "greater"
    <2>1. NaN \in {x, y} => outcome = "unordered"
      OBVIOUS
    <2>2. NaN \notin {x, y} /\ x = y => outcome = "equal"
      OBVIOUS
    <2>3. NaN \notin {x, y} /\ x < y => outcome = "less"
      OBVIOUS
    <2>4. NaN \notin {x, y} /\ y < x => outcome = "greater"
      OBVIOUS
    <2>5. FCmp(P, x, y) <=> outcome \in P
      BY DEF FCmp
    <2> HIDE DEF outcome
    <2> QED
      BY <2>1, <2>2, <2>3, <2>4, <2>5
  <1>1. CASE o = "floatOrderedEqualsP"
    <2>1. FloatTest(o, x, y) <=> Same(x, y)
      BY <1>1 DEF FloatTest
    <2>2. Predicate(o) = {"equal"}
      BY <1>1 DEF Predicate
    <2> QED
      BY <1>0, <2>1, <2>2 DEF Same, Below, AtMost
  <1>2. CASE o = "floatOrderedLesserP"
    <2>1. FloatTest(o, x, y) <=> Below(x, y)
      BY <1>2 DEF FloatTest
    <2>2. Predicate(o) = {"less"}
      BY <1>2 DEF Predicate
    <2> QED
      BY <1>0, <2>1, <2>2 DEF Same, Below, AtMost
  <1>3. CASE o = "floatOrderedLesserEqualsP"
    <2>1. FloatTest(o, x, y) <=> AtMost(x, y)
      BY <1>3 DEF FloatTest
    <2>2. Predicate(o) = {"less", "equal"}
      BY <1>3 DEF Predicate
    <2> QED
      BY <1>0, <2>1, <2>2 DEF Same, Below, AtMost
  <1>4. CASE o = "floatOrderedGreaterP"
    <2>1. FloatTest(o, x, y) <=> Below(y, x)
      BY <1>4 DEF FloatTest
    <2>2. Predicate(o) = {"greater"}
      BY <1>4 DEF Predicate
    <2> QED
      BY <1>0, <2>1, <2>2 DEF Same, Below, AtMost
  <1>5. CASE o = "floatOrderedGreaterEqualsP"
    <2>1. FloatTest(o, x, y) <=> AtMost(y, x)
      BY <1>5 DEF FloatTest
    <2>2. Predicate(o) = {"greater", "equal"}
      BY <1>5 DEF Predicate
    <2> QED
      BY <1>0, <2>1, <2>2 DEF Same, Below, AtMost
  <1>6. CASE o = "floatOrderedNotEqualsP"
    <2>1. FloatTest(o, x, y) <=> (~Same(x, y) /\ Same(x, x) /\ Same(y, y))
      BY <1>6 DEF FloatTest
    <2>2. Predicate(o) = {"less", "greater"}
      BY <1>6 DEF Predicate
    <2> QED
      BY <1>0, <2>1, <2>2 DEF Same, Below, AtMost
  <1>7. CASE o = "floatOrderedP"
    <2>1. FloatTest(o, x, y) <=> (Same(x, x) /\ Same(y, y))
      BY <1>7 DEF FloatTest
    <2>2. Predicate(o) = {"less", "equal", "greater"}
      BY <1>7 DEF Predicate
    <2> QED
      BY <1>0, <2>1, <2>2 DEF Same, Below, AtMost
  <1>8. CASE o = "floatUnorderedEqualsP"
    <2>1. FloatTest(o, x, y) <=> (Same(x, y) \/ ~Same(x, x) \/ ~Same(y, y))
      BY <1>8 DEF FloatTest
    <2>2. Predicate(o) = {"unordered", "equal"}
      BY <1>8 DEF Predicate
    <2> QED
      BY <1>0, <2>1, <2>2 DEF Same, Below, AtMost
  <1>9. CASE o = "floatUnorderedLesserP"
    <2>1. FloatTest(o, x, y) <=> ~AtMost(y, x)
      BY <1>9 DEF FloatTest
    <2>2. Predicate(o) = {"unordered", "less"}
      BY <1>9 DEF Predicate
    <2> QED
      BY <1>0, <2>1, <2>2 DEF Same, Below, AtMost
  <1>10. CASE o = "floatUnorderedLesserEqualsP"
    <2>1. FloatTest(o, x, y) <=> ~Below(y, x)
      BY <1>10 DEF FloatTest
    <2>2. Predicate(o) = {"unordered", "less", "equal"}
      BY <1>10 DEF Predicate
    <2> QED
      BY <1>0, <2>1, <2>2 DEF Same, Below, AtMost
  <1>11. CASE o = "floatUnorderedGreaterP"
    <2>1. FloatTest(o, x, y) <=> ~AtMost(x, y)
      BY <1>11 DEF FloatTest
    <2>2. Predicate(o) = {"unordered", "greater"}
      BY <1>11 DEF Predicate
    <2> QED
      BY <1>0, <2>1, <2>2 DEF Same, Below, AtMost
  <1>12. CASE o = "floatUnorderedGreaterEqualsP"
    <2>1. FloatTest(o, x, y) <=> ~Below(x, y)
      BY <1>12 DEF FloatTest
    <2>2. Predicate(o) = {"unordered", "greater", "equal"}
      BY <1>12 DEF Predicate
    <2> QED
      BY <1>0, <2>1, <2>2 DEF Same, Below, AtMost
  <1>13. CASE o = "floatUnorderedNotEqualsP"
    <2>1. FloatTest(o, x, y) <=> ~Same(x, y)
      BY <1>13 DEF FloatTest
    <2>2. Predicate(o) = {"unordered", "less", "greater"}
      BY <1>13 DEF Predicate
    <2> QED
      BY <1>0, <2>1, <2>2 DEF Same, Below, AtMost
  <1>14. CASE o = "floatUnorderedP"
    <2>1. FloatTest(o, x, y) <=> (~Same(x, x) \/ ~Same(y, y))
      BY <1>14 DEF FloatTest
    <2>2. Predicate(o) = {"unordered"}
      BY <1>14 DEF Predicate
    <2> QED
      BY <1>0, <2>1, <2>2 DEF Same, Below, AtMost
  <1> QED
    BY <1>1, <1>2, <1>3, <1>4, <1>5, <1>6, <1>7, <1>8, <1>9, <1>10, <1>11, <1>12, <1>13, <1>14
       DEF FloatComparisons

LEMMA SmallRemainder ==
    ASSUME NEW t, Integral(t), ~t.signed, NEW x \in Int, Fits(t, x)
    PROVE  x % 2 ^ t.bits = x
  <1>1. 2 ^ t.bits \in Nat \ {0} /\ MinOf(t) = 0 /\ MaxOf(t) = 2 ^ t.bits - 1
    BY RangeOfType
  <1>2. x \in 0 .. 2 ^ t.bits - 1
    BY <1>1 DEF Fits
  <1> QED
    BY <1>1, <1>2, Dividing

LEMMA ComparisonsAgree ==
    ASSUME NEW o \in Comparisons, NEW a \in Seq(Arguments), NEW c
    PROVE  /\ EvalPrimOp(o, a, c) = CodegenPrimOp(o, a, c)
           /\ OneResult(BoolT, EvalPrimOp(o, a, c))
  <1>1. CASE o \in FloatComparisons
    <2>1. EvalPrimOp(o, a, c) = EvalFloatComparison(o, a) /\ CodegenPrimOp(o, a, c) = GenFloatComparison(o, a)
      BY <1>1, EvaluationOf, GenerationOf
    <2>2. ASSUME Len(a) = 2
          PROVE  FloatTest(o, a[1].val, a[2].val) <=> FCmp(Predicate(o), a[1].val, a[2].val)
      <3>1. a[1].val \in Int /\ a[2].val \in Int
        BY <2>2, ArgumentIs
      <3> QED
        BY <1>1, <3>1, FloatTestIs
    <2>3. EvalFloatComparison(o, a) = GenFloatComparison(o, a)
      BY <2>2 DEF EvalFloatComparison, GenFloatComparison, SameTypes, When, Test, Flag, Constant, Truth
    <2>4. OneResult(BoolT, EvalFloatComparison(o, a))
      BY OneWrite DEF EvalFloatComparison, Test
    <2> QED
      BY <2>1, <2>3, <2>4
  <1>2. CASE o \in {"integerEqualsP", "integerLesserP"}
    <2>1. EvalPrimOp(o, a, c) = EvalIntegerComparison(o, a) /\ CodegenPrimOp(o, a, c) = GenIntegerComparison(o, a)
      BY <1>2, EvaluationOf, GenerationOf
    <2> DEFINE t == a[1].type
               x == a[1].val
               y == a[2].val
    <2>2. ASSUME Len(a) = 2, a[2].type = t, t.kind = "integer"
          PROVE  x < y <=> ICmpLess(t.signed, t, x, y)
      <3>0. 1 \in 1 .. Len(a) /\ 2 \in 1 .. Len(a)
        BY <2>2
      <3>1. t \in Types /\ x \in Int /\ y \in Int /\ Fits(t, x) /\ Fits(t, y)
        BY <2>2, <3>0, ArgumentIs
      <3>2. Integral(t) /\ t = IntegerT(t.bits, t.signed)
        BY <2>2, <3>1, TypeOfProgram
      <3> HIDE DEF t, x, y
      <3>3. CASE t.signed
        <4>1. t.signed = TRUE
          BY <3>2, <3>3 DEF Integral
        <4>2. [IntegerT(t.bits, t.signed) EXCEPT !.signed = TRUE] = IntegerT(t.bits, TRUE)
          BY SignedAs
        <4>3. [t EXCEPT !.signed = TRUE] = t
          BY <3>2, <4>1, <4>2
        <4>4. Wrap(t, x) = x /\ Wrap(t, y) = y
          BY <3>1, <3>2, Wrapping
        <4>5. AsSigned(t, x) = x /\ AsSigned(t, y) = y
          BY <4>3, <4>4 DEF AsSigned
        <4> QED
          BY <3>3, <4>5 DEF ICmpLess
      <3>4. CASE ~t.signed
        <4>1. x % 2 ^ t.bits = x /\ y % 2 ^ t.bits = y
          BY <3>1, <3>2, <3>4, SmallRemainder
        <4> QED
          BY <3>4, <4>1 DEF ICmpLess
      <3> QED
        BY <3>3, <3>4
    <2>3. ASSUME Len(a) = 2, a[2].type = t, IsPointerLike(t)
          PROVE  x < y <=> ICmpLess(FALSE, IntegerT(PtrBits, FALSE), x, y)
      <3>0. 1 \in 1 .. Len(a) /\ 2 \in 1 .. Len(a)
        BY <2>3
      <3>1. x \in 0 .. MaxSize - 1 /\ y \in 0 .. MaxSize - 1
        BY <2>3, <3>0, ArgumentIs
      <3>4. MaxSize \in Nat \ {0}
        BY Sizes
      <3> HIDE DEF x, y
      <3>2. x % MaxSize = x /\ y % MaxSize = y
        BY <3>1, <3>4, Dividing
      <3>3. IntegerT(PtrBits, FALSE).bits = PtrBits
        BY DEF IntegerT
      <3> QED
        BY <3>2, <3>3 DEF ICmpLess, MaxSize
    <2>4. EvalIntegerComparison(o, a) = GenIntegerComparison(o, a)
      <3> HIDE DEF t, x, y
      <3>1. CASE o = "integerEqualsP"
        BY <3>1 DEF EvalIntegerComparison, GenIntegerComparison, SameTypes, When, Test, Flag, Constant
      <3>2. CASE o = "integerLesserP"
        <4>1. EvalIntegerComparison(o, a) =
                IF Len(a) = 2 /\ a[2].type = t /\ (t.kind = "integer" \/ IsPointerLike(t))
                THEN Write(BoolT, Truth(x < y)) ELSE Refused
          BY <3>2 DEF EvalIntegerComparison, HasKind, When, Test, t, x, y
        <4>2. GenIntegerComparison(o, a) =
                IF Len(a) = 2 /\ a[2].type = t /\ (t.kind = "integer" \/ IsPointerLike(t))
                THEN Write(BoolT, Truth(IF t.kind = "integer" THEN ICmpLess(t.signed, t, x, y)
                                        ELSE ICmpLess(FALSE, IntegerT(PtrBits, FALSE), x, y)))
                ELSE Refused
          BY <3>2 DEF GenIntegerComparison, SameTypes, HasKind, When, Flag, Constant, t, x, y
        <4>3. CASE Len(a) = 2 /\ a[2].type = t /\ (t.kind = "integer" \/ IsPointerLike(t))
          <5>1. x < y <=> IF t.kind = "integer" THEN ICmpLess(t.signed, t, x, y)
                          ELSE ICmpLess(FALSE, IntegerT(PtrBits, FALSE), x, y)
            BY <2>2, <2>3, <4>3 DEF t, x, y
          <5> DEFINE less == IF t.kind = "integer" THEN ICmpLess(t.signed, t, x, y)
                             ELSE ICmpLess(FALSE, IntegerT(PtrBits, FALSE), x, y)
          <5>2. x < y <=> less
            BY <5>1
          <5> HIDE DEF less
          <5>3. Truth(x < y) = Truth(less)
            BY <5>2 DEF Truth
          <5> QED
            BY <4>1, <4>2, <4>3, <5>3 DEF less
        <4> QED
          BY <4>1, <4>2, <4>3
      <3> QED
        BY <1>2, <3>1, <3>2
    <2>5. OneResult(BoolT, EvalIntegerComparison(o, a))
      BY OneWrite DEF EvalIntegerComparison, Test
    <2> QED
      BY <2>1, <2>4, <2>5
  <1> QED
    BY <1>1, <1>2 DEF Comparisons

LEMMA NumericAgree ==
    ASSUME NEW o \in NumericBinary \union {"numericNegate"}, NEW a \in Seq(Arguments), NEW c
    PROVE  /\ EvalPrimOp(o, a, c) = CodegenPrimOp(o, a, c)
           /\ OneResult(a[1].type, EvalPrimOp(o, a, c))
  <1>1. CASE o \in NumericBinary
    <2>1. EvalPrimOp(o, a, c) = EvalNumeric(o, a) /\ CodegenPrimOp(o, a, c) = GenNumeric(o, a)
      BY <1>1, EvaluationOf, GenerationOf
    <2>2. EvalNumeric(o, a) = GenNumeric(o, a)
      <3>1. CASE o = "numericAdd"
        BY <3>1 DEF EvalNumeric, GenNumeric, SameTypes, HasKind, When, FloatArithmetic, FAdd
      <3>2. CASE o = "numericSubtract"
        BY <3>2 DEF EvalNumeric, GenNumeric, SameTypes, HasKind, When, FloatArithmetic, FSub
      <3>3. CASE o = "numericMultiply"
        BY <3>3 DEF EvalNumeric, GenNumeric, SameTypes, HasKind, When, FloatArithmetic, FMul
      <3>4. CASE o = "floatDivide"
        BY <3>4 DEF EvalNumeric, GenNumeric, SameTypes, HasKind, When, FloatArithmetic, FDiv, IsNumeric
      <3> QED
        BY <1>1, <3>1, <3>2, <3>3, <3>4 DEF NumericBinary
    <2>3. OneResult(a[1].type, EvalNumeric(o, a))
      BY OneWrite DEF EvalNumeric
    <2> QED
      BY <2>1, <2>2, <2>3
  <1>2. CASE o = "numericNegate"
    <2>1. EvalPrimOp(o, a, c) = EvalNegate(a) /\ CodegenPrimOp(o, a, c) = GenNegate(a)
      BY <1>2, EvaluationOf, GenerationOf
    <2>2. ASSUME Len(a) = 1 PROVE a[1].val \in Int /\ 0 - a[1].val = -a[1].val /\ 0 # NaN
      <3>1. a[1].val \in Int
        BY <2>2, ArgumentIs
      <3> QED
        BY <3>1 DEF NaN
    <2>3. EvalNegate(a) = GenNegate(a)
      BY <2>2 DEF EvalNegate, GenNegate, Negated, When, IsNumeric, HasKind, FSub
    <2>4. OneResult(a[1].type, EvalNegate(a))
      BY OneWrite DEF EvalNegate
    <2> QED
      BY <2>1, <2>3, <2>4
  <1> QED
    BY <1>1, <1>2

(* Integers of one type: a division or a shift that the host computes in a wider type
   may have a result where the generated code has none. *)
LEMMA PlainIntegersAgree ==
    ASSUME NEW o \in PlainIntegerBinary, NEW a \in Seq(Arguments), NEW c
    PROVE  /\ Agree(EvalPrimOp(o, a, c), CodegenPrimOp(o, a, c))
           /\ OneResult(a[1].type, EvalPrimOp(o, a, c))
           /\ OneResult(a[1].type, CodegenPrimOp(o, a, c))
  <1> DEFINE t == a[1].type
             x == a[1].val
             y == a[2].val
             both == Len(a) = 2 /\ t.kind = "integer" /\ a[2].type = t
  <1>1. ASSUME both
        PROVE  /\ Integral(t) /\ x \in Int /\ y \in Int /\ Fits(t, x) /\ Fits(t, y)
    <2>1. 1 \in 1 .. Len(a) /\ 2 \in 1 .. Len(a)
      BY <1>1
    <2>2. t \in Types /\ x \in Int /\ y \in Int /\ Fits(t, x) /\ Fits(t, y)
      BY <1>1, <2>1, ArgumentIs
    <2> QED
      BY <1>1, <2>2, TypeOfProgram
  <1>2. CodegenPrimOp(o, a, c) = GenInteger(o, a)
    BY GenerationOf
  <1>3. CASE o \in {"integerQuotient", "integerRemainder"}
    <2>1. EvalPrimOp(o, a, c) = IF both THEN Division(o, t, x, y) ELSE Refused
      <3>1. EvalPrimOp(o, a, c) = EvalDivision(o, a)
        BY <1>3, EvaluationOf
      <3> QED
        BY <3>1 DEF EvalDivision, BothIntegers, HasKind, When
    <2>2. CodegenPrimOp(o, a, c) =
            IF both THEN Divide(t, x, y, IF o = "integerQuotient" THEN Quot(x, y) ELSE Rem(x, y)) ELSE Refused
      BY <1>2, <1>3 DEF GenInteger, SameTypes, When
    <2>3. ASSUME both, y # 0, ~(t.signed /\ x = MinOf(t) /\ y = -1)
          PROVE  Wrap(t, Quot(x, y)) = Quot(x, y)
      <3> HIDE DEF t, x, y
      <3>1. Fits(t, Quot(x, y)) /\ Quot(x, y) \in Int
        BY <1>1, <2>3, QuotientFits, QuotientBounds
      <3> QED
        BY <1>1, <2>3, <3>1, Wrapping
    <2> HIDE DEF t, x, y, both
    <2>4. Agree(EvalPrimOp(o, a, c), CodegenPrimOp(o, a, c))
      BY <1>3, <2>1, <2>2, <2>3 DEF Agree, Division, Divide, HostDivides
    <2>5. OneResult(t, EvalPrimOp(o, a, c))
      BY <2>1, OneWrite DEF Division, OneResult
    <2>6. OneResult(t, CodegenPrimOp(o, a, c))
      BY <2>2, OneWrite DEF Divide, OneResult
    <2> QED
      BY <2>4, <2>5, <2>6 DEF t
  <1>4. CASE o \in PlainIntegerBinary \ {"integerQuotient", "integerRemainder"}
    <2>1. EvalPrimOp(o, a, c) = IF both THEN BitOperation(o, t, x, y) ELSE Refused
      <3>1. EvalPrimOp(o, a, c) = EvalBits(o, a)
        BY <1>4, EvaluationOf
      <3> QED
        BY <3>1 DEF EvalBits, BothIntegers, HasKind, When
    <2>2. CASE o \in {"integerShiftLeft", "integerShiftRight"}
      <3> DEFINE result == IF o = "integerShiftLeft" THEN Wrap(t, x * 2 ^ y) ELSE x \div 2 ^ y
      <3>1. EvalPrimOp(o, a, c) =
              IF both THEN IF y \notin 0 .. (HostBits(t) - 1) THEN Undefined ELSE Write(t, result) ELSE Refused
        BY <2>1, <2>2 DEF BitOperation
      <3>2. CodegenPrimOp(o, a, c) =
              IF both THEN IF y \notin 0 .. (t.bits - 1) THEN Undefined ELSE Write(t, result) ELSE Refused
        BY <1>2, <2>2 DEF GenInteger, SameTypes, When, ShiftLeft, ShiftRight, Shift
      <3>3. ASSUME both, y \in 0 .. (t.bits - 1) PROVE y \in 0 .. (HostBits(t) - 1)
        <4>1. t.bits \in Nat /\ PtrBits \in Nat
          BY <1>1, <3>3, Sizes DEF Integral
        <4>2. HostBits(t) \in Nat /\ t.bits <= HostBits(t)
          BY <4>1 DEF HostBits
        <4> QED
          BY <3>3, <4>1, <4>2
      <3> HIDE DEF t, x, y, both, result
      <3>4. Agree(EvalPrimOp(o, a, c), CodegenPrimOp(o, a, c))
        BY <3>1, <3>2, <3>3 DEF Agree
      <3>5. OneResult(t, EvalPrimOp(o, a, c))
        BY <3>1, OneWrite DEF OneResult
      <3>6. OneResult(t, CodegenPrimOp(o, a, c))
        BY <3>2, OneWrite DEF OneResult
      <3> QED
        BY <3>4, <3>5, <3>6 DEF t
    <2>3. CASE o \in {"integerBitwiseAnd", "integerBitwiseOr", "integerBitwiseXor"}
      <3>1. EvalPrimOp(o, a, c) = CodegenPrimOp(o, a, c)
        <4>1. CASE o = "integerBitwiseAnd"
          BY <1>2, <2>1, <4>1 DEF GenInteger, SameTypes, When, BitOperation, Pattern
        <4>2. CASE o = "integerBitwiseOr"
          BY <1>2, <2>1, <4>2 DEF GenInteger, SameTypes, When, BitOperation, Pattern
        <4>3. CASE o = "integerBitwiseXor"
          BY <1>2, <2>1, <4>3 DEF GenInteger, SameTypes, When, BitOperation, Pattern
        <4> QED
          BY <2>3, <4>1, <4>2, <4>3
      <3> HIDE DEF t, x, y, both
      <3>2. OneResult(t, EvalPrimOp(o, a, c))
        BY <2>1, <2>3, OneWrite DEF BitOperation
      <3> QED
        BY <3>1, <3>2 DEF Agree, t
    <2> QED
      BY <1>4, <2>2, <2>3 DEF PlainIntegerBinary
  <1> QED
    BY <1>3, <1>4

LEMMA CheckedAgree ==
    ASSUME NEW o \in CheckedBinary, NEW a \in Seq(Arguments), NEW c
    PROVE  /\ ~(Len(a) >= 1 /\ HasKind(a, 1, "integer")
                  /\ (a[1].type.bits = MaxBits \/ Unreported(o, a[1].type))) =>
                Agree(EvalPrimOp(o, a, c), CodegenPrimOp(o, a, c))
           /\ OneResult(a[1].type, EvalPrimOp(o, a, c))
           /\ OneResult(a[1].type, CodegenPrimOp(o, a, c))
  <1> DEFINE t == a[1].type
             x == a[1].val
             y == a[2].val
             both == Len(a) = 2 /\ t.kind = "integer" /\ a[2].type = t
  <1>1. ASSUME both
        PROVE  /\ Integral(t) /\ x \in Int /\ y \in Int /\ Fits(t, x) /\ Fits(t, y)
               /\ t = IntegerT(t.bits, t.signed) /\ t.bits <= MaxBits
    <2>1. 1 \in 1 .. Len(a) /\ 2 \in 1 .. Len(a)
      BY <1>1
    <2>2. t \in Types /\ x \in Int /\ y \in Int /\ Fits(t, x) /\ Fits(t, y)
      BY <1>1, <2>1, ArgumentIs
    <2> QED
      BY <1>1, <2>2, TypeOfProgram
  <1>2. EvalPrimOp(o, a, c) = IF both THEN Checked(o, t, x, y) ELSE Refused
    <2>1. EvalPrimOp(o, a, c) = EvalChecked(o, a)
      BY EvaluationOf
    <2> QED
      BY <2>1 DEF EvalChecked, BothIntegers, HasKind, When
  <1>3. CodegenPrimOp(o, a, c) = IF both THEN Reported(o, t, x, y) ELSE Refused
    <2>1. CodegenPrimOp(o, a, c) = GenChecked(o, a)
      BY GenerationOf
    <2> QED
      BY <2>1 DEF GenChecked, SameTypes, HasKind, When
  <1>4. both /\ a[1].type.bits # MaxBits => t.bits < MaxBits
    <2>1. both => t.bits \in Nat
      BY <1>1 DEF Integral
    <2> QED
      BY <1>1, <2>1, Sizes
  <1>5. OneResult(t, Refused)
    BY DEF OneResult
  <1>6. HasKind(a, 1, "integer") <=> t.kind = "integer"
    BY DEF HasKind
  <1>7. both => Len(a) >= 1
    OBVIOUS
  <1> HIDE DEF t, x, y
  <1>8. ASSUME both, t.bits < MaxBits, ~Unreported(o, t)
        PROVE  Agree(Checked(o, t, x, y), Reported(o, t, x, y))
    <2>1. CASE o = "integerAddChecked"
      BY <1>1, <1>8, <2>1, CheckedSum DEF Agree, Checked, Reported
    <2>2. CASE o = "integerSubtractChecked"
      BY <1>1, <1>8, <2>2, CheckedSum DEF Agree, Checked, Reported
    <2>3. CASE o = "integerMultiplyChecked"
      BY <1>1, <1>8, <2>3, CheckedProduct DEF Agree, Checked, Reported, Unreported
    <2>4. CASE o = "integerQuotientChecked"
      BY <1>1, <1>8, <2>4, CheckedQuotient DEF Agree, Checked, Reported
    <2>5. CASE o = "integerRemainderChecked"
      BY <1>1, <1>8, <2>5, CheckedRemainder DEF Agree, Checked, Reported
    <2>6. CASE o = "integerShiftLeftChecked"
      BY <1>1, <1>8, <2>6, CheckedShift DEF Agree, Checked, Reported
    <2> QED
      BY <2>1, <2>2, <2>3, <2>4, <2>5, <2>6 DEF CheckedBinary
  <1>9. ASSUME both
        PROVE  OneResult(t, Checked(o, t, x, y)) /\ OneResult(t, Reported(o, t, x, y))
    <2>0. y < 0 \/ y = 0 \/ y > 0
      BY <1>1, <1>9
    <2>1. CASE o = "integerAddChecked"
      <3>1. Checked(o, t, x, y) = AddChecked(t, x, y) /\ Reported(o, t, x, y) = IntegerAdd(t, x, y)
        BY <2>1 DEF Checked, Reported
      <3> QED
        BY <2>0, <3>1, OneWrite DEF AddChecked, IntegerAdd, Exactly, WithOverflow
    <2>2. CASE o = "integerSubtractChecked"
      <3>1. Checked(o, t, x, y) = SubtractChecked(t, x, y) /\ Reported(o, t, x, y) = IntegerSubtract(t, x, y)
        BY <2>2 DEF Checked, Reported
      <3> QED
        BY <2>0, <3>1, OneWrite DEF SubtractChecked, IntegerSubtract, Exactly, WithOverflow
    <2>3. CASE o = "integerMultiplyChecked"
      <3>1. Checked(o, t, x, y) = MultiplyChecked(t, x, y) /\ Reported(o, t, x, y) = IntegerMultiply(t, x, y)
        BY <2>3 DEF Checked, Reported
      <3> QED
        BY <2>0, <3>1, OneWrite DEF MultiplyChecked, IntegerMultiply, Exactly, WithOverflow
    <2>4. CASE o = "integerQuotientChecked"
      <3>1. Checked(o, t, x, y) = QuotientChecked(t, x, y) /\ Reported(o, t, x, y) = IntegerQuotient(t, x, y)
        BY <2>4 DEF Checked, Reported
      <3> QED
        BY <2>0, <3>1, OneWrite DEF QuotientChecked, IntegerQuotient, Divide
    <2>5. CASE o = "integerRemainderChecked"
      <3>1. Checked(o, t, x, y) = RemainderChecked(t, x, y) /\ Reported(o, t, x, y) = IntegerRemainder(t, x, y)
        BY <2>5 DEF Checked, Reported
      <3> QED
        BY <2>0, <3>1, OneWrite DEF RemainderChecked, IntegerRemainder, Divide
    <2>6. CASE o = "integerShiftLeftChecked"
      <3>1. Checked(o, t, x, y) = ShiftLeftChecked(t, x, y) /\ Reported(o, t, x, y) = IntegerShiftLeft(t, x, y)
        BY <2>6 DEF Checked, Reported
      <3> QED
        BY <2>0, <3>1, OneWrite DEF ShiftLeftChecked, IntegerShiftLeft, ShiftLeft, Shift, WithOverflow
    <2> QED
      BY <2>1, <2>2, <2>3, <2>4, <2>5, <2>6 DEF CheckedBinary
  <1> QED
    BY <1>2, <1>3, <1>4, <1>5, <1>6, <1>7, <1>8, <1>9 DEF Agree, t

LEMMA UnaryAgree ==
    ASSUME NEW o \in IntegerUnary, NEW a \in Seq(Arguments), NEW c
    PROVE  /\ ~(o = "integerNegateChecked" /\ Len(a) >= 1 /\ HasKind(a, 1, "integer") /\ ~a[1].type.signed) =>
                Agree(EvalPrimOp(o, a, c), CodegenPrimOp(o, a, c))
           /\ OneResult(a[1].type, EvalPrimOp(o, a, c))
           /\ OneResult(a[1].type, CodegenPrimOp(o, a, c))
  <1> DEFINE t == a[1].type
             x == a[1].val
             one == Len(a) = 1 /\ t.kind = "integer"
  <1>1. ASSUME one PROVE Integral(t) /\ x \in Int /\ Fits(t, x)
    <2>1. 1 \in 1 .. Len(a)
      BY <1>1
    <2>2. t \in Types /\ x \in Int /\ Fits(t, x)
      BY <1>1, <2>1, ArgumentIs
    <2> QED
      BY <1>1, <2>2, TypeOfProgram
  <1>2. CASE o = "integerBitwiseNot"
    <2>1. EvalPrimOp(o, a, c) = EvalBitwiseNot(a) /\ CodegenPrimOp(o, a, c) = GenBitwiseNot(a)
      BY <1>2, EvaluationOf, GenerationOf
    <2>2. ASSUME one PROVE -x - 1 = -1 - x
      BY <1>1, <2>2
    <2>3. EvalBitwiseNot(a) = GenBitwiseNot(a)
      BY <2>2 DEF EvalBitwiseNot, GenBitwiseNot, Complement, HasKind, When
    <2>4. OneResult(a[1].type, EvalBitwiseNot(a))
      BY OneWrite DEF EvalBitwiseNot
    <2> QED
      BY <2>1, <2>3, <2>4 DEF Agree
  <1>3. CASE o = "integerNegateChecked"
    <2>1. EvalPrimOp(o, a, c) = IF one THEN NegateChecked(t, x) ELSE Refused
      <3>1. EvalPrimOp(o, a, c) = EvalNegateChecked(a)
        BY <1>3, EvaluationOf
      <3> QED
        BY <3>1 DEF EvalNegateChecked, HasKind, When
    <2>2. CodegenPrimOp(o, a, c) = IF one THEN IntegerNegate(t, x) ELSE Refused
      <3>1. CodegenPrimOp(o, a, c) = GenNegateChecked(a)
        BY <1>3, GenerationOf
      <3> QED
        BY <3>1 DEF GenNegateChecked, HasKind, When
    <2>3. one => Len(a) >= 1 /\ HasKind(a, 1, "integer")
      BY DEF HasKind
    <2>4. ASSUME one, t.signed PROVE NegateChecked(t, x) = IntegerNegate(t, x)
      BY <1>1, <2>4, CheckedNegation
    <2> HIDE DEF t, x, one
    <2>5. OneResult(t, EvalPrimOp(o, a, c)) /\ OneResult(t, CodegenPrimOp(o, a, c))
      BY <2>1, <2>2, OneWrite DEF NegateChecked, IntegerNegate, WithOverflow, When, OneResult
    <2> QED
      BY <1>3, <2>1, <2>2, <2>3, <2>4, <2>5 DEF Agree, t
  <1> QED
    BY <1>2, <1>3 DEF IntegerUnary

(* A conversion: of a number that is of the type already, of a float, to a float, or
   from one width to another. *)
LEMMA ConversionsAgree ==
    ASSUME NEW o \in Conversions, NEW a \in Seq(Arguments), NEW c
    PROVE  /\ o = "numericConvert" => Agree(EvalPrimOp(o, a, c), CodegenPrimOp(o, a, c))
           /\ OneResult(TypeArg(a, 1), EvalPrimOp(o, a, c))
           /\ OneResult(TypeArg(a, 1), CodegenPrimOp(o, a, c))
  <1> DEFINE dest == TypeArg(a, 1)
             src == a[2].type
             n == a[2].val
  <1>1. EvalPrimOp(o, a, c) = EvalConvert(o, a)
    BY EvaluationOf
  <1>2. OneResult(dest, EvalPrimOp(o, a, c))
    BY <1>1, OneWrite DEF EvalConvert, Convert, When, OneResult
  <1>3. CASE o = "numericConvert"
    <2> DEFINE ok == Len(a) = 2 /\ IsType(a, 1) /\ IsNumeric(dest) /\ IsNumeric(src)
    <2>1. EvalPrimOp(o, a, c) = IF ok THEN Convert(dest, src, n) ELSE Refused
      BY <1>1, <1>3 DEF EvalConvert, When
    <2>2. CodegenPrimOp(o, a, c) =
            IF ok THEN IF src = dest \/ dest.kind = "float" THEN Write(dest, n)
                       ELSE IF src.kind = "float" THEN FloatToInt(dest, n) ELSE Write(dest, Wrap(dest, n))
            ELSE Refused
      <3>1. CodegenPrimOp(o, a, c) = GenConvert(a)
        BY <1>3, GenerationOf
      <3> QED
        BY <3>1 DEF GenConvert, When
    <2>3. ASSUME ok, dest.kind # "float"
          PROVE  Integral(dest) /\ n \in Int /\ (src = dest => Fits(dest, n))
      <3>1. 1 \in 1 .. Len(a) /\ 2 \in 1 .. Len(a)
        BY <2>3
      <3>2. dest \in Types /\ dest.kind = "integer" /\ n \in Int
        BY <2>3, <3>1, ArgumentIs DEF IsNumeric
      <3>3. src = dest => Fits(dest, n)
        BY <3>1, <3>2, ArgumentIs
      <3> QED
        BY <3>2, <3>3, TypeOfProgram
    <2> HIDE DEF dest, src, n
    <2>4. ASSUME ok, dest.kind # "float"
          PROVE  /\ Fits(dest, n) <=> ~(n < MinOf(dest) \/ n > MaxOf(dest))
                 /\ Fits(dest, n) => Wrap(dest, n) = n
      <3>1. Integral(dest) /\ n \in Int /\ MinOf(dest) \in Int /\ MaxOf(dest) \in Int
        BY <2>3, <2>4, RangeOfType
      <3>2. Fits(dest, n) => Wrap(dest, n) = n
        BY <3>1, Wrapping
      <3> QED
        BY <3>1, <3>2 DEF Fits
    <2> HIDE DEF ok
    <2>5. Agree(EvalPrimOp(o, a, c), CodegenPrimOp(o, a, c))
      BY <2>1, <2>2, <2>3, <2>4 DEF Agree, Convert, FloatToInt
    <2>6. OneResult(dest, CodegenPrimOp(o, a, c))
      BY <2>2, OneWrite DEF FloatToInt, OneResult
    <2> QED
      BY <1>2, <2>5, <2>6 DEF dest
  <1>4. CASE o = "integerConvertChecked"
    <2>1. CodegenPrimOp(o, a, c) = GenConvertChecked(a)
      BY <1>4, GenerationOf
    <2>2. OneResult(dest, GenConvertChecked(a))
      BY OneWrite DEF GenConvertChecked, IntegerConvert, WithOverflow, FloatToInt, When, OneResult
    <2> QED
      BY <1>2, <1>4, <2>1, <2>2
  <1> QED
    BY <1>3, <1>4 DEF Conversions

-----------------------------------------------------------------------------
(* An integer as an offset: the host's conversion to ptrdiff_t and the extension or
   truncation in the generated code. *)
LEMMA SameOffset ==
    ASSUME NEW t \in Types, t.kind = "integer", NEW n \in Int, Fits(t, n)
    PROVE  Index(t, n) = Offset(n) /\ Offset(n) \in Int
  <1>1. Integral(t) /\ t = IntegerT(t.bits, t.signed)
    BY TypeOfProgram
  <1>2. Integral(IntT) /\ IntT.bits = PtrBits /\ IntT.signed = TRUE /\ IntT = IntegerT(PtrBits, TRUE)
    BY Sizes DEF IntT
  <1>3. PtrBits \in Nat /\ t.bits \in Nat /\ t.signed \in BOOLEAN
    BY <1>1, Sizes DEF Integral
  <1> DEFINE s == IntegerT(t.bits, TRUE)
  <1>4. Integral(s) /\ s.bits = t.bits
    <2>1. s.bits = t.bits /\ s.signed = TRUE
      BY DEF IntegerT
    <2> QED
      BY <1>1, <2>1 DEF Integral
  <1>5. [t EXCEPT !.signed = TRUE] = s
    <2>1. [IntegerT(t.bits, t.signed) EXCEPT !.signed = TRUE] = s
      BY SignedAs
    <2> QED
      BY <1>1, <2>1
  <1> HIDE DEF s
  <1>6. CASE ~t.signed /\ t.bits < PtrBits
    <2>1. Fits(IntT, n)
      BY <1>1, <1>2, <1>6, RangesGrow
    <2>2. Wrap(IntT, n) = n
      BY <1>2, <2>1, Wrapping
    <2> QED
      BY <1>6, <2>2 DEF Index, Offset
  <1>7. CASE t.signed
    <2>1. s = t
      <3>1. t.signed = TRUE
        BY <1>3, <1>7
      <3> QED
        BY <1>1, <3>1 DEF s
    <2>2. Wrap(s, n) = n
      BY <1>1, <2>1, Wrapping
    <2>3. Wrap(IntT, n) \in Int
      BY <1>2, Wrapping
    <2> QED
      BY <1>2, <1>5, <1>7, <2>2, <2>3 DEF Index, Offset, SignExtended, AsSigned
  <1>8. CASE ~t.signed /\ PtrBits <= t.bits
    <2>1. Wrap(IntT, Wrap(s, n)) = Wrap(IntT, n)
      BY <1>2, <1>4, <1>8, WrapOfWider
    <2>2. Wrap(IntT, n) \in Int
      BY <1>2, Wrapping
    <2>3. ~(~t.signed /\ t.bits < PtrBits)
      BY <1>3, <1>8
    <2> QED
      BY <1>2, <1>5, <2>1, <2>2, <2>3 DEF Index, Offset, SignExtended, AsSigned
  <1> QED
    BY <1>3, <1>6, <1>7, <1>8

(* Some of the pointer operations have other argument checks in the analyzer: the
   answers agree where it accepts the call. *)
LEMMA PointersAgree ==
    ASSUME NEW o \in Pointers, NEW a \in Seq(Arguments), AnalyzePrimOp(o, a).out = "ok", NEW c
    PROVE  /\ Agree(EvalPrimOp(o, a, c), CodegenPrimOp(o, a, c))
           /\ Fitting(EvalPrimOp(o, a, c), CellsOf(AnalyzePrimOp(o, a)))
           /\ Fitting(CodegenPrimOp(o, a, c), CellsOf(AnalyzePrimOp(o, a)))
  <1> DEFINE ans == AnalyzePrimOp(o, a)
  <1>1. ans = AnalyzePointer(o, a) /\ ans.out = "ok" /\ Refused.out # "ok"
    BY AnalysisOf DEF Refused
  <1>2. ASSUME NEW e, NEW g, NEW t, OneResult(t, e), OneResult(t, g), ans = Gives(<<Value(t)>>)
        PROVE  Fitting(e, CellsOf(ans)) /\ Fitting(g, CellsOf(ans))
    BY <1>2, FittingResult
  <1>3. ASSUME NEW e, NEW g, NEW t, OneResult(PointerT(t), e), OneResult(PointerT(t), g), ans = Gives(<<Reference(t)>>)
        PROVE  Fitting(e, CellsOf(ans)) /\ Fitting(g, CellsOf(ans))
    BY <1>3, FittingReference
  <1> HIDE DEF ans
  <1>4. CASE o = "addressOf"
    <2>1. ans = Gives(<<Value(PointerT(a[1].type))>>)
      BY <1>1, <1>4 DEF AnalyzePointer, When
    <2>2. EvalPrimOp(o, a, c) = EvalPointer(o, a) /\ CodegenPrimOp(o, a, c) = GenPointer(o, a)
      BY <1>4, EvaluationOf, GenerationOf
    <2>3. EvalPointer(o, a) = GenPointer(o, a)
      BY <1>4 DEF EvalPointer, GenPointer
    <2>4. OneResult(PointerT(a[1].type), EvalPointer(o, a))
      BY <1>4, OneWrite DEF EvalPointer
    <2> QED
      BY <1>2, <2>1, <2>2, <2>3, <2>4 DEF Agree, ans
  <1>5. CASE o = "pointerDereference"
    <2>1. ans = Gives(<<Reference(a[1].type.pointee)>>) /\ Len(a) = 1 /\ a[1].type.kind = "pointer"
      BY <1>1, <1>5 DEF AnalyzePointer, When, HasKind
    <2>2. EvalPrimOp(o, a, c) = EvalPointer(o, a) /\ CodegenPrimOp(o, a, c) = GenPointer(o, a)
      BY <1>5, EvaluationOf, GenerationOf
    <2>3. EvalPointer(o, a) = GenPointer(o, a)
      BY <1>5 DEF EvalPointer, GenPointer
    <2>4. OneResult(a[1].type, EvalPointer(o, a))
      BY <1>5, OneWrite DEF EvalPointer
    <2>5. a[1].type = PointerT(a[1].type.pointee)
      <3>1. 1 \in 1 .. Len(a)
        BY <2>1
      <3>2. a[1].type \in Types
        BY <3>1, ArgumentIs
      <3> QED
        BY <2>1, <3>2, TypeOfProgram DEF WellFormedType
    <2>6. OneResult(PointerT(a[1].type.pointee), EvalPointer(o, a))
      BY <2>4, <2>5
    <2> QED
      BY <1>3, <2>1, <2>2, <2>3, <2>6 DEF Agree, ans
  <1>6. CASE o = "pointerOffset"
    <2>1. ans = Gives(<<Value(a[1].type)>>)
      BY <1>1, <1>6 DEF AnalyzePointer, When
    <2>2. EvalPrimOp(o, a, c) = EvalPointer(o, a) /\ CodegenPrimOp(o, a, c) = GenPointer(o, a)
      BY <1>6, EvaluationOf, GenerationOf
    <2>3. ASSUME Len(a) = 2, HasKind(a, 1, "pointer"), HasKind(a, 2, "integer")
          PROVE  Offset(a[2].val) * SizeOf(a[1].type.pointee) = SizeOf(a[1].type.pointee) * Index(a[2].type, a[2].val)
      <3>1. 1 \in 1 .. Len(a) /\ 2 \in 1 .. Len(a)
        BY <2>3
      <3>2. a[1].type \in Types /\ a[2].type \in Types /\ a[2].val \in Int /\ Fits(a[2].type, a[2].val)
        BY <2>3, <3>1, ArgumentIs DEF HasKind
      <3>3. SizeOf(a[1].type.pointee) \in Nat
        <4>1. a[1].type.pointee \in Types
          BY <2>3, <3>2, TypeOfProgram DEF WellFormedType, HasKind
        <4> QED
          BY <4>1, LayoutAssumption
      <3>4. Index(a[2].type, a[2].val) = Offset(a[2].val) /\ Offset(a[2].val) \in Int
        BY <2>3, <3>2, SameOffset DEF HasKind
      <3> DEFINE m == Offset(a[2].val)
                 k == SizeOf(a[1].type.pointee)
      <3>5. m \in Int /\ k \in Int
        BY <3>3, <3>4
      <3> HIDE DEF m, k
      <3>6. m * k = k * m
        BY <3>5
      <3> QED
        BY <3>4, <3>6 DEF m, k
    <2>4. EvalPointer(o, a) = GenPointer(o, a)
      BY <1>6, <2>3 DEF EvalPointer, GenPointer, When, Address, ToPointer
    <2>5. OneResult(a[1].type, EvalPointer(o, a))
      BY <1>6, OneWrite DEF EvalPointer
    <2> QED
      BY <1>2, <2>1, <2>2, <2>4, <2>5 DEF Agree, ans
  <1>7. CASE o = "pointerToInt"
    <2>1. ans = Gives(<<Value(TypeArg(a, 1))>>)
      BY <1>1, <1>7 DEF AnalyzePointer, When
    <2>2. EvalPrimOp(o, a, c) = EvalPointerToInt(a) /\ CodegenPrimOp(o, a, c) = GenPointerToInt(a)
      BY <1>7, EvaluationOf, GenerationOf
    <2>3. Agree(EvalPointerToInt(a), GenPointerToInt(a))
      BY DEF Agree, EvalPointerToInt, GenPointerToInt, PointerBytes, When
    <2>4. OneResult(TypeArg(a, 1), EvalPointerToInt(a)) /\ OneResult(TypeArg(a, 1), GenPointerToInt(a))
      BY OneWrite DEF EvalPointerToInt, GenPointerToInt, PointerBytes, When
    <2> QED
      BY <1>2, <2>1, <2>2, <2>3, <2>4 DEF ans
  <1>8. CASE o = "intToPointer"
    <2>1. ans = Gives(<<Value(TypeArg(a, 1))>>)
      BY <1>1, <1>8 DEF AnalyzePointer, When
    <2>2. EvalPrimOp(o, a, c) = EvalIntToPointer(a) /\ CodegenPrimOp(o, a, c) = GenIntToPointer(a)
      BY <1>8, EvaluationOf, GenerationOf
    <2>3. ASSUME Len(a) = 2 PROVE Address(Offset(a[2].val)) = ToPointer(a[2].val)
      <3>1. 2 \in 1 .. Len(a)
        BY <2>3
      <3>2. a[2].val \in Int
        BY <3>1, ArgumentIs
      <3>3. Wrap(IntT, a[2].val) % 2 ^ IntT.bits = a[2].val % 2 ^ IntT.bits
        BY <3>2, Sizes, Wrapping
      <3>4. MaxSize = 2 ^ IntT.bits
        BY Sizes DEF MaxSize
      <3> QED
        BY <3>3, <3>4 DEF Address, Offset, ToPointer
    <2>4. EvalIntToPointer(a) = GenIntToPointer(a)
      BY <2>3 DEF EvalIntToPointer, GenIntToPointer, When
    <2>5. OneResult(TypeArg(a, 1), EvalIntToPointer(a))
      BY OneWrite DEF EvalIntToPointer
    <2> QED
      BY <1>2, <2>1, <2>2, <2>4, <2>5 DEF Agree, ans
  <1>9. CASE o = "nullPointer"
    <2>1. ans = Gives(<<Value(TypeArg(a, 1))>>)
      BY <1>1, <1>9 DEF AnalyzePointer, When
    <2>2. EvalPrimOp(o, a, c) = EvalNullPointer(a) /\ CodegenPrimOp(o, a, c) = GenNullPointer(a)
      BY <1>9, EvaluationOf, GenerationOf
    <2>3. EvalNullPointer(a) = GenNullPointer(a)
      BY DEF EvalNullPointer, GenNullPointer, Constant
    <2>4. OneResult(TypeArg(a, 1), EvalNullPointer(a))
      BY OneWrite DEF EvalNullPointer
    <2> QED
      BY <1>2, <2>1, <2>2, <2>3, <2>4 DEF Agree, ans
  <1>10. CASE o = "bitcast"
    <2>1. ans = Gives(<<Reference(TypeArg(a, 1))>>)
      BY <1>1, <1>10 DEF AnalyzePointer, When
    <2>2. EvalPrimOp(o, a, c) = EvalBitcast(a) /\ CodegenPrimOp(o, a, c) = GenBitcast(a)
      BY <1>10, EvaluationOf, GenerationOf
    <2>3. ASSUME Len(a) = 2, IsType(a, 1)
          PROVE  /\ SizeOf(TypeArg(a, 1)) <= SizeOf(a[2].type) <=> SizeOf(a[2].type) >= SizeOf(TypeArg(a, 1))
                 /\ AlignOf(TypeArg(a, 1)) <= AlignOf(a[2].type) <=> AlignOf(a[2].type) >= AlignOf(TypeArg(a, 1))
      OBVIOUS
    <2>4. EvalBitcast(a) = GenBitcast(a)
      BY <2>3 DEF EvalBitcast, GenBitcast, When
    <2>5. OneResult(PointerT(TypeArg(a, 1)), EvalBitcast(a))
      BY OneWrite DEF EvalBitcast
    <2> QED
      BY <1>3, <2>1, <2>2, <2>4, <2>5 DEF Agree, ans
  <1> QED
    BY <1>4, <1>5, <1>6, <1>7, <1>8, <1>9, <1>10 DEF Pointers


-----------------------------------------------------------------------------
(* The elements of an array. *)
LEMMA ArraysAgree ==
    ASSUME NEW o \in {"arrayRef", "arrayElements"}, NEW a \in Seq(Arguments),
           AnalyzePrimOp(o, a).out = "ok", NEW c
    PROVE  /\ Agree(EvalPrimOp(o, a, c), CodegenPrimOp(o, a, c))
           /\ Fitting(EvalPrimOp(o, a, c), CellsOf(AnalyzePrimOp(o, a)))
           /\ Fitting(CodegenPrimOp(o, a, c), CellsOf(AnalyzePrimOp(o, a)))
  <1> DEFINE ans == AnalyzePrimOp(o, a)
             t == a[1].type
  <1>1. ans = AnalyzeArray(o, a) /\ ans.out = "ok" /\ Refused.out # "ok"
    BY AnalysisOf DEF Refused
  <1> HIDE DEF ans, t
  <1>2. ASSUME 1 \in 1 .. Len(a), HasKind(a, 1, "array")
        PROVE  t.size \in Nat /\ SizeOf(t.elem) \in Nat
    <2>1. t.elem \in Types /\ t.size \in Nat
      BY <1>2, ArgumentIs, TypeOfProgram DEF WellFormedType, HasKind, t
    <2> QED
      BY <2>1, LayoutAssumption
  <1>3. CASE o = "arrayRef"
    <2>1. ans = Gives(<<Reference(t.elem)>>)
      BY <1>1, <1>3 DEF AnalyzeArray, When, t
    <2>2. EvalPrimOp(o, a, c) = EvalArrayRef(a) /\ CodegenPrimOp(o, a, c) = GenArray(o, a)
      BY <1>3, EvaluationOf, GenerationOf
    <2>3. ASSUME Len(a) = 2, HasKind(a, 1, "array"), HasKind(a, 2, "integer")
          PROVE  Offset(a[2].val) * SizeOf(t.elem) = SizeOf(t.elem) * Index(a[2].type, a[2].val)
      <3>1. 1 \in 1 .. Len(a) /\ 2 \in 1 .. Len(a)
        BY <2>3
      <3>2. a[2].type \in Types /\ a[2].val \in Int /\ Fits(a[2].type, a[2].val)
        BY <2>3, <3>1, ArgumentIs DEF HasKind
      <3>3. Index(a[2].type, a[2].val) = Offset(a[2].val) /\ Offset(a[2].val) \in Int
        BY <2>3, <3>2, SameOffset DEF HasKind
      <3> DEFINE m == Offset(a[2].val)
                 k == SizeOf(t.elem)
      <3>4. m \in Int /\ k \in Int
        BY <1>2, <2>3, <3>1, <3>3
      <3> HIDE DEF m, k
      <3>5. m * k = k * m
        BY <3>4
      <3> QED
        BY <3>3, <3>5 DEF m, k
    <2>4. EvalArrayRef(a) = GenArray(o, a)
      BY <1>3, <2>3 DEF EvalArrayRef, GenArray, When, Address, ToPointer, t
    <2>5. OneResult(PointerT(t.elem), EvalArrayRef(a))
      BY OneWrite DEF EvalArrayRef, t
    <2> QED
      BY <2>1, <2>2, <2>4, <2>5, FittingReference DEF Agree, ans
  <1>4. CASE o = "arrayElements"
    <2>1. ans = Gives(Rep(t.size, Reference(t.elem))) /\ Len(a) = 1 /\ HasKind(a, 1, "array")
      BY <1>1, <1>4 DEF AnalyzeArray, When, t
    <2> DEFINE es == [k \in 1 .. t.size |-> Arg(PointerT(t.elem), Place(1, 0) + (k - 1) * SizeOf(t.elem))]
               gs == [k \in 1 .. t.size |-> Arg(PointerT(t.elem), Place(1, 0) + SizeOf(t.elem) * (k - 1))]
    <2>2. EvalPrimOp(o, a, c) = EvalArrayElements(a) /\ CodegenPrimOp(o, a, c) = GenArray(o, a)
      BY <1>4, EvaluationOf, GenerationOf
    <2>3. EvalArrayElements(a) = Writes(es) /\ GenArray(o, a) = Writes(gs)
      BY <1>4, <2>1 DEF EvalArrayElements, GenArray, When, t
    <2>4. t.size \in Nat /\ SizeOf(t.elem) \in Nat
      BY <1>2, <2>1
    <2>5. es = gs
      <3>1. ASSUME NEW k \in 1 .. t.size PROVE (k - 1) * SizeOf(t.elem) = SizeOf(t.elem) * (k - 1)
        BY <2>4
      <3> QED
        BY <3>1
    <2>6. Fitting(Writes(es), CellsOf(Gives(Rep(t.size, Reference(t.elem)))))
      <3>1. Len(Rep(t.size, Reference(t.elem))) = t.size /\ Len(es) = t.size
        BY <2>4 DEF Rep
      <3>2. ASSUME NEW i \in 1 .. t.size
            PROVE  es[i].type = CellType(Rep(t.size, Reference(t.elem))[i])
        BY DEF Arg, Rep, CellType, Reference
      <3> QED
        BY <2>4, <3>1, <3>2, FittingWrites
    <2> QED
      BY <2>1, <2>2, <2>3, <2>5, <2>6 DEF Agree, ans
  <1> QED
    BY <1>3, <1>4

(* References to parts of an aggregate. *)
LEMMA PartsFit ==
    ASSUME NEW ts, NEW S, NEW pvs, Len(S) \in Nat, Len(pvs) = Len(S),
           \A k \in 1 .. Len(S) : pvs[k] = Reference(ts[S[k]])
    PROVE  /\ PointersTo(ts, S) = Parts(ts, S)
           /\ Fitting(Writes(Parts(ts, S)), CellsOf(Gives(pvs)))
  <1>1. PointersTo(ts, S) = Parts(ts, S)
    BY DEF PointersTo, Parts
  <1>2. Len(Parts(ts, S)) = Len(pvs)
    BY DEF Parts
  <1>3. ASSUME NEW i \in 1 .. Len(pvs) PROVE Parts(ts, S)[i].type = CellType(pvs[i])
    <2>1. pvs[i] = Reference(ts[S[i]]) /\ Parts(ts, S)[i] = Arg(PointerT(ts[S[i]]), Place(1, S[i]))
      BY DEF Parts
    <2> QED
      BY <2>1 DEF Arg, CellType, Reference
  <1> QED
    BY <1>1, <1>2, <1>3, FittingWrites

LEMMA OnePartFits ==
    ASSUME NEW ts, NEW i
    PROVE  /\ PointersTo(ts, <<i>>) = Parts(ts, <<i>>)
           /\ Fitting(Writes(Parts(ts, <<i>>)), CellsOf(Gives(<<Reference(ts[i])>>)))
  <1>1. Len(<<i>>) = 1 /\ Len(<<Reference(ts[i])>>) = 1
    OBVIOUS
  <1>2. \A k \in 1 .. Len(<<i>>) : <<Reference(ts[i])>>[k] = Reference(ts[<<i>>[k]])
    BY <1>1
  <1> QED
    BY <1>1, <1>2, PartsFit

LEMMA SpanIs ==
    ASSUME NEW m \in Int, NEW n \in Int, m <= n + 1
    PROVE  /\ Len(Span(m, n)) = n - m + 1
           /\ \A k \in 1 .. n - m + 1 : Span(m, n)[k] = m + k - 1
  BY DEF Span

LEMMA SpanFits ==
    ASSUME NEW ts \in Seq(Types), NEW m \in Nat \ {0}, NEW n \in Nat, m <= n + 1, n <= Len(ts)
    PROVE  /\ PointersTo(ts, Span(m, n)) = Parts(ts, Span(m, n))
           /\ Fitting(Writes(Parts(ts, Span(m, n))), CellsOf(Gives(References(SubSeq(ts, m, n)))))
  <1> DEFINE sub == SubSeq(ts, m, n)
  <1>1. Len(sub) = n - m + 1 /\ \A k \in 1 .. n - m + 1 : sub[k] = ts[m + k - 1]
    OBVIOUS
  <1> HIDE DEF sub
  <1>2. m \in Int /\ n \in Int
    OBVIOUS
  <1>3. Len(Span(m, n)) = n - m + 1 /\ \A k \in 1 .. n - m + 1 : Span(m, n)[k] = m + k - 1
    BY <1>2, SpanIs
  <1>4. Len(References(sub)) = n - m + 1 /\ \A k \in 1 .. n - m + 1 : References(sub)[k] = Reference(sub[k])
    BY <1>1 DEF References
  <1>5. Len(Span(m, n)) \in Nat /\ Len(References(sub)) = Len(Span(m, n))
    BY <1>3, <1>4
  <1>6. \A k \in 1 .. Len(Span(m, n)) : References(sub)[k] = Reference(ts[Span(m, n)[k]])
    BY <1>1, <1>3, <1>4
  <1>7. /\ PointersTo(ts, Span(m, n)) = Parts(ts, Span(m, n))
        /\ Fitting(Writes(Parts(ts, Span(m, n))), CellsOf(Gives(References(sub))))
    BY <1>5, <1>6, PartsFit
  <1> QED
    BY <1>7 DEF sub

LEMMA WholeFits ==
    ASSUME NEW ts \in Seq(Types)
    PROVE  /\ PointersTo(ts, Span(1, Len(ts))) = Parts(ts, Span(1, Len(ts)))
           /\ Fitting(Writes(Parts(ts, Span(1, Len(ts)))), CellsOf(Gives(References(ts))))
  <1>1. Len(ts) \in Nat
    OBVIOUS
  <1>2. Len(Span(1, Len(ts))) = Len(ts) /\ \A k \in 1 .. Len(ts) : Span(1, Len(ts))[k] = k
    BY <1>1 DEF Span
  <1>3. Len(References(ts)) = Len(ts) /\ \A k \in 1 .. Len(ts) : References(ts)[k] = Reference(ts[k])
    BY <1>1 DEF References
  <1> QED
    BY <1>1, <1>2, <1>3, PartsFit

LEMMA TuplesAgree ==
    ASSUME NEW o \in {"tupleRef", "tupleElements"}, NEW a \in Seq(Arguments),
           AnalyzePrimOp(o, a).out = "ok", NEW c
    PROVE  /\ Agree(EvalPrimOp(o, a, c), CodegenPrimOp(o, a, c))
           /\ Fitting(EvalPrimOp(o, a, c), CellsOf(AnalyzePrimOp(o, a)))
           /\ Fitting(CodegenPrimOp(o, a, c), CellsOf(AnalyzePrimOp(o, a)))
  <1> DEFINE ans == AnalyzePrimOp(o, a)
             ts == a[1].type.elems
  <1>1. ans = AnalyzeTuple(o, a) /\ ans.out = "ok" /\ Refused.out # "ok" /\ Crash.out # "ok"
    BY AnalysisOf DEF Refused, Crash
  <1>2. EvalPrimOp(o, a, c) = EvalTuple(o, a) /\ CodegenPrimOp(o, a, c) = GenTuple(o, a)
    BY EvaluationOf, GenerationOf
  <1> HIDE DEF ans, ts
  <1>3. CASE o = "tupleRef"
    <2>1. /\ Len(a) = 2 /\ HasKind(a, 1, "tuple") /\ IsStaticCount(a, 2)
          /\ StaticCount(a, 2) < Len(ts)
          /\ ans = Gives(<<Reference(ts[StaticCount(a, 2) + 1])>>)
      BY <1>1, <1>3 DEF AnalyzeTuple, When, WithIndex, ts
    <2>2. EvalTuple(o, a) = Writes(Parts(ts, <<StaticCount(a, 2) + 1>>))
      BY <1>3, <2>1 DEF EvalTuple, When, ts
    <2>3. GenTuple(o, a) = Writes(PointersTo(ts, <<StaticCount(a, 2) + 1>>))
      BY <1>3, <2>1 DEF GenTuple, When, ts
    <2> QED
      BY <1>2, <2>1, <2>2, <2>3, OnePartFits DEF Agree, ans
  <1>4. CASE o = "tupleElements"
    <2>1. Len(a) = 1 /\ HasKind(a, 1, "tuple") /\ ans = Gives(References(ts))
      BY <1>1, <1>4 DEF AnalyzeTuple, When, ts
    <2>2. EvalTuple(o, a) = Writes(Parts(ts, Span(1, Len(ts))))
      BY <1>4, <2>1 DEF EvalTuple, When, ts
    <2>3. GenTuple(o, a) = Writes(PointersTo(ts, Span(1, Len(ts))))
      BY <1>4, <2>1 DEF GenTuple, When, ts
    <2>4. ts \in Seq(Types)
      <3>1. 1 \in 1 .. Len(a)
        BY <2>1
      <3> QED
        BY <2>1, <3>1, ArgumentIs, TypeOfProgram DEF WellFormedType, HasKind, ts
    <2> QED
      BY <1>2, <2>1, <2>2, <2>3, <2>4, WholeFits DEF Agree, ans
  <1> QED
    BY <1>3, <1>4

(* The variadic field of a record, and the fields after it. *)
LEMMA FieldFits ==
    ASSUME NEW t \in Types, t.kind = "record", NEW i \in 1 .. Len(t.names)
    PROVE  /\ GenField(t, i) = Writes(Parts(t.types, Positions(t, i)))
           /\ Fitting(Writes(Parts(t.types, Positions(t, i))), CellsOf(Gives(FieldOutputs(t, i))))
           /\ t.var # 0 /\ i = t.var =>
                FieldOutputs(t, i) = References(SubSeq(t.types, t.var, t.var + VarFieldSize(t) - 1))
  <1>1. /\ t.names \in Seq(Objects) /\ t.types \in Seq(Types) /\ t.var \in 0 .. Len(t.names)
        /\ VarFieldSize(t) \in Nat /\ Len(t.names) \in Nat /\ Len(t.types) \in Nat
    BY TypeOfProgram DEF WellFormedType
  <1>2. VarFieldSize(t) = Len(t.types) - Len(t.names) + 1
    BY DEF VarFieldSize
  <1> DEFINE v == VarFieldSize(t)
             n == Len(t.names)
             k == t.var
  <1>3. n \in Nat /\ k \in 0 .. n /\ i \in 1 .. n /\ v \in Nat /\ Len(t.types) = n + v - 1
    BY <1>1, <1>2
  <1> HIDE DEF v, n, k
  <1>4. CASE k = 0 \/ i < k
    <2>1. ~(k # 0 /\ i >= k) /\ ~(k # 0 /\ i = k)
      BY <1>3, <1>4
    <2>2. Positions(t, i) = <<i>> /\ FieldOutputs(t, i) = <<Reference(t.types[i])>>
      BY <2>1 DEF Positions, FieldOutputs, k
    <2>3. GenField(t, i) = Writes(PointersTo(t.types, <<i>>))
      <3>1. ~(k # 0 /\ i > k)
        BY <1>3, <1>4
      <3> QED
        BY <1>4, <2>1, <3>1 DEF GenField, k
    <2> QED
      BY <2>1, <2>2, <2>3, OnePartFits DEF k
  <1>5. CASE k # 0 /\ i = k
    <2>1. Positions(t, i) = Span(i, i + v - 1) /\ FieldOutputs(t, i) = References(SubSeq(t.types, i, i + v - 1))
      BY <1>3, <1>5 DEF Positions, FieldOutputs, k, v
    <2>2. GenField(t, i) = Writes(PointersTo(t.types, Span(i, i + v - 1)))
      <3>1. ~(k = 0 \/ i < k) /\ ~(k # 0 /\ i > k)
        BY <1>3, <1>5
      <3> QED
        BY <1>5, <3>1 DEF GenField, k, v
    <2> DEFINE e == i + v - 1
    <2>3. e \in Nat /\ i \in Nat \ {0} /\ i <= e + 1 /\ e <= Len(t.types)
      BY <1>3
    <2> HIDE DEF e
    <2>4. /\ PointersTo(t.types, Span(i, e)) = Parts(t.types, Span(i, e))
          /\ Fitting(Writes(Parts(t.types, Span(i, e))), CellsOf(Gives(References(SubSeq(t.types, i, e)))))
      BY <1>1, <2>3, SpanFits
    <2> QED
      BY <1>5, <2>1, <2>2, <2>4 DEF e, v, k
  <1>6. CASE k # 0 /\ i > k
    <2>1. k # 0 /\ i >= k /\ i # k
      BY <1>3, <1>6
    <2>2. Positions(t, i) = <<i + v - 1>> /\ FieldOutputs(t, i) = <<Reference(t.types[i + v - 1])>>
      BY <2>1 DEF Positions, FieldOutputs, k, v
    <2>3. GenField(t, i) = Writes(PointersTo(t.types, <<i - 1 + v>>))
      <3>1. ~(k = 0 \/ i < k) /\ ~(k # 0 /\ i = k)
        BY <1>3, <1>6
      <3> QED
        BY <1>6, <3>1 DEF GenField, k, v
    <2>4. i - 1 + v = i + v - 1
      BY <1>3
    <2> QED
      BY <2>1, <2>2, <2>3, <2>4, OnePartFits DEF k
  <1> QED
    BY <1>3, <1>4, <1>5, <1>6

(* Only the generator is right of the variadic field of every record. *)
LEMMA RecordsAgree ==
    ASSUME NEW o \in {"recordFieldRef", "recordFieldRefByName", "recordFields", "recordVariadicField"},
           NEW a \in Seq(Arguments), AnalyzePrimOp(o, a).out = "ok", NEW c
    PROVE  /\ o # "recordVariadicField" =>
                /\ Agree(EvalPrimOp(o, a, c), CodegenPrimOp(o, a, c))
                /\ Fitting(EvalPrimOp(o, a, c), CellsOf(AnalyzePrimOp(o, a)))
           /\ Fitting(CodegenPrimOp(o, a, c), CellsOf(AnalyzePrimOp(o, a)))
  <1> DEFINE ans == AnalyzePrimOp(o, a)
             t == a[1].type
  <1>1. ans = AnalyzeRecord(o, a) /\ ans.out = "ok" /\ Refused.out # "ok" /\ Crash.out # "ok"
    BY AnalysisOf DEF Refused, Crash, Aggregates
  <1> HIDE DEF ans, t
  <1>2. ASSUME Len(a) = 1 \/ Len(a) = 2, HasKind(a, 1, "record")
        PROVE  /\ t \in Types /\ t.kind = "record" /\ t.types \in Seq(Types)
               /\ t.var \in 0 .. Len(t.names) /\ Len(t.names) \in Nat
    <2>1. 1 \in 1 .. Len(a)
      <3>1. CASE Len(a) = 1
        BY <3>1
      <3>2. CASE Len(a) = 2
        BY <3>2
      <3> QED
        BY <1>2, <3>1, <3>2
    <2>2. t \in Types /\ t.kind = "record"
      BY <1>2, <2>1, ArgumentIs DEF HasKind, t
    <2>3. t.types \in Seq(Types) /\ t.var \in 0 .. Len(t.names) /\ t.names \in Seq(Objects)
      BY <2>2, TypeOfProgram DEF WellFormedType
    <2> QED
      BY <2>2, <2>3
  <1>3. CASE o = "recordFieldRef"
    <2> DEFINE i == StaticCount(a, 2) + 1
    <2>1. /\ Len(a) = 2 /\ HasKind(a, 1, "record") /\ IsStaticCount(a, 2)
          /\ StaticCount(a, 2) < Len(t.names)
          /\ ans = Gives(FieldOutputs(t, i))
      BY <1>1, <1>3 DEF AnalyzeRecord, When, WithIndex, t
    <2>2. EvalPrimOp(o, a, c) = EvalFieldRef(a) /\ CodegenPrimOp(o, a, c) = GenFieldRef(a)
      BY <1>3, EvaluationOf, GenerationOf
    <2>3. EvalFieldRef(a) = Writes(Parts(t.types, Positions(t, i))) /\ GenFieldRef(a) = GenField(t, i)
      BY <2>1 DEF EvalFieldRef, GenFieldRef, When, t
    <2>4. i \in 1 .. Len(t.names)
      <3>1. 2 \in 1 .. Len(a)
        BY <2>1
      <3>2. StaticCount(a, 2) \in 0 .. MaxSize - 1
        BY <2>1, <3>1, StaticCountIs
      <3> QED
        BY <1>2, <2>1, <3>2, Sizes
    <2> QED
      BY <1>2, <2>1, <2>2, <2>3, <2>4, FieldFits DEF Agree, ans
  <1>4. CASE o = "recordFieldRefByName"
    <2> DEFINE i == FieldIndex(t, Obj(a, 2))
    <2>1. /\ Len(a) = 2 /\ HasKind(a, 1, "record") /\ IsName(a, 2) /\ HasField(t, Obj(a, 2))
          /\ ans = Gives(FieldOutputs(t, i))
      BY <1>1, <1>4 DEF AnalyzeRecord, When, t
    <2>2. EvalPrimOp(o, a, c) = EvalFieldRefByName(a) /\ CodegenPrimOp(o, a, c) = GenFieldRefByName(a)
      BY <1>4, EvaluationOf, GenerationOf
    <2>3. EvalFieldRefByName(a) = Writes(Parts(t.types, Positions(t, i))) /\ GenFieldRefByName(a) = GenField(t, i)
      BY <2>1 DEF EvalFieldRefByName, GenFieldRefByName, When, t
    <2>4. i \in 1 .. Len(t.names)
      BY <2>1 DEF HasField, FieldIndex
    <2> QED
      BY <1>2, <2>1, <2>2, <2>3, <2>4, FieldFits DEF Agree, ans
  <1>5. CASE o = "recordFields"
    <2>1. Len(a) = 1 /\ HasKind(a, 1, "record") /\ ans = Gives(References(t.types))
      BY <1>1, <1>5 DEF AnalyzeRecord, When, t
    <2>2. EvalPrimOp(o, a, c) = EvalRecordFields(a) /\ CodegenPrimOp(o, a, c) = GenRecordFields(a)
      BY <1>5, EvaluationOf, GenerationOf
    <2>3. /\ EvalRecordFields(a) = Writes(Parts(t.types, Span(1, Len(t.types))))
          /\ GenRecordFields(a) = Writes(PointersTo(t.types, Span(1, Len(t.types))))
      BY <2>1 DEF EvalRecordFields, GenRecordFields, When, t
    <2> QED
      BY <1>2, <2>1, <2>2, <2>3, WholeFits DEF Agree, ans
  <1>6. CASE o = "recordVariadicField"
    <2>1. /\ Len(a) = 1 /\ HasKind(a, 1, "record") /\ t.var # 0
          /\ ans = Gives(References(SubSeq(t.types, t.var, t.var + VarFieldSize(t) - 1)))
      BY <1>1, <1>6 DEF AnalyzeRecord, When, t
    <2>2. CodegenPrimOp(o, a, c) = GenVariadicField(a)
      BY <1>6, GenerationOf
    <2>3. GenVariadicField(a) = GenField(t, t.var)
      BY <2>1 DEF GenVariadicField, When, t
    <2>4. t.var \in 1 .. Len(t.names)
      BY <1>2, <2>1
    <2> QED
      BY <1>2, <1>6, <2>1, <2>2, <2>3, <2>4, FieldFits DEF ans
  <1> QED
    BY <1>3, <1>4, <1>5, <1>6

-----------------------------------------------------------------------------
(* Results that are static objects only: neither pass writes them. *)
AllStatic(answer) ==
  answer.out = "ok" =>
    /\ Len(answer.outs) \in Nat
    /\ \A i \in 1 .. Len(answer.outs) : answer.outs[i].isRValue /\ answer.outs[i].type.kind = "static"

LEMMA AllStaticBasics ==
    ASSUME NEW obj
    PROVE  /\ AllStatic(Gives(<<Static(obj)>>))
           /\ AllStatic(Refused) /\ AllStatic(Crash) /\ AllStatic(Pending)
  <1>1. Refused.out # "ok" /\ Crash.out # "ok" /\ Pending.out # "ok"
    BY DEF Refused, Crash, Pending
  <1>2. Static(obj).isRValue /\ Static(obj).type.kind = "static"
    BY DEF Static, Value, StaticT
  <1>3. Gives(<<Static(obj)>>).outs = <<Static(obj)>>
    BY DEF Gives
  <1>4. \A i \in 1 .. Len(<<Static(obj)>>) : <<Static(obj)>>[i] = Static(obj)
    OBVIOUS
  <1>5. Len(<<Static(obj)>>) \in Nat
    OBVIOUS
  <1>6. AllStatic(Gives(<<Static(obj)>>))
    BY <1>2, <1>3, <1>4, <1>5 DEF AllStatic
  <1> QED
    BY <1>1, <1>6 DEF AllStatic

LEMMA AllStaticOf ==
    ASSUME NEW pvs, NEW n \in Nat, Len(pvs) = n,
           \A i \in 1 .. n : pvs[i].isRValue /\ pvs[i].type.kind = "static"
    PROVE  AllStatic(Gives(pvs))
  BY DEF AllStatic, Gives

LEMMA AllStaticTypes ==
    ASSUME NEW ts \in Seq(Types)
    PROVE  AllStatic(StaticTypes(ts))
  <1> DEFINE pvs == [i \in 1 .. Len(ts) |-> Static(TypeObj(ts[i]))]
  <1>1. Len(ts) \in Nat
    OBVIOUS
  <1>2. Len(pvs) = Len(ts)
    BY <1>1
  <1>3. \A i \in 1 .. Len(ts) : pvs[i].isRValue /\ pvs[i].type.kind = "static"
    BY DEF Static, Value, StaticT
  <1> HIDE DEF pvs
  <1>4. AllStatic(Gives(pvs))
    BY <1>1, <1>2, <1>3, AllStaticOf
  <1> QED
    BY <1>4 DEF StaticTypes, pvs

LEMMA AllStaticWhen ==
    ASSUME NEW b, NEW answer, b => AllStatic(answer)
    PROVE  AllStatic(When(b, answer))
  <1>1. CASE b
    BY <1>1 DEF When
  <1>2. CASE ~b
    BY <1>2, AllStaticBasics DEF When
  <1> QED
    BY <1>1, <1>2

LEMMA AllStaticFits ==
    ASSUME NEW answer, answer.out = "ok", AllStatic(answer)
    PROVE  Fitting(Untouched, CellsOf(answer)) /\ Fitting(Refused, CellsOf(answer))
  <1> DEFINE pvs == answer.outs
             c == CellsOf(answer)
  <1>1. Len(pvs) \in Nat /\ \A i \in 1 .. Len(pvs) : pvs[i].isRValue /\ pvs[i].type.kind = "static"
    BY DEF AllStatic
  <1> HIDE DEF pvs
  <1>2. c = [i \in 1 .. Len(pvs) |-> CellType(pvs[i])]
    BY DEF CellsOf, pvs
  <1> HIDE DEF c
  <1>3. Len(c) = Len(pvs)
    BY <1>1, <1>2
  <1>4. ASSUME NEW i \in 1 .. Len(c) PROVE c[i].kind = "static"
    BY <1>1, <1>2, <1>3 DEF CellType
  <1> QED
    BY <1>4 DEF Fitting, Untouched, Refused, c

StaticOps == StaticResults \union {"StaticCallOutputTypes", "StaticMonoInputTypes", "GetOverload"}

LEMMA StaticOutputs ==
    ASSUME NEW o \in StaticOps, NEW a \in Seq(Arguments)
    PROVE  AllStatic(AnalyzePrimOp(o, a))
  <1>1. ASSUME NEW i \in 1 .. Len(a), IsType(a, i) PROVE TypeArg(a, i) \in Types
    BY <1>1, ArgumentIs
  <1>2. ASSUME NEW i, NEW answer, AllStatic(answer) PROVE AllStatic(WithIndex(a, i, answer))
    BY <1>2, AllStaticBasics, AllStaticWhen DEF WithIndex
  <1>3. ASSUME NEW n, Len(a) = n, n \in {1, 2, 3} PROVE 1 \in 1 .. Len(a)
    <2>1. n \in Nat /\ 1 <= n
      BY <1>3
    <2> QED
      BY <1>3, <2>1
  <1>4. CASE o = "RecordFieldName"
    <2>1. AnalyzePrimOp(o, a) = AnalyzeFieldName(a)
      BY <1>4, AnalysisOf
    <2> QED
      BY <1>2, <2>1, AllStaticBasics, AllStaticWhen DEF AnalyzeFieldName
  <1>5. CASE o = "VariantMembers"
    <2>1. AnalyzePrimOp(o, a) = AnalyzeVariantMembers(a)
      BY <1>5, AnalysisOf
    <2>2. ASSUME Len(a) = 1, IsTypeOfKind(a, 1, "variant") PROVE TypeArg(a, 1).members \in Seq(Types)
      BY <1>1, <1>3, <2>2, TypeOfProgram DEF IsTypeOfKind, WellFormedType
    <2> QED
      BY <2>1, <2>2, AllStaticTypes, AllStaticWhen DEF AnalyzeVariantMembers
  <1>6. CASE o = "BaseType"
    <2>1. AnalyzePrimOp(o, a) = AnalyzeBaseType(a)
      BY <1>6, AnalysisOf
    <2> QED
      BY <2>1, AllStaticBasics, AllStaticWhen DEF AnalyzeBaseType
  <1>7. CASE o = "staticIntegers"
    <2>1. AnalyzePrimOp(o, a) = AnalyzeIntegers(o, a)
      BY <1>7, AnalysisOf
    <2> DEFINE pvs == [i \in 1 .. Obj(a, 1).val |-> Static(ValueObj(Obj(a, 1).type, i - 1))]
    <2>2. AnalyzeIntegers(o, a) = When(Len(a) = 1 /\ IsStaticCount(a, 1) /\ Obj(a, 1).val >= 0, Gives(pvs))
      BY <1>7 DEF AnalyzeIntegers
    <2>3. ASSUME Len(a) = 1, IsStaticCount(a, 1), Obj(a, 1).val >= 0 PROVE AllStatic(Gives(pvs))
      <3>1. Obj(a, 1).val \in Nat
        <4>1. Obj(a, 1).val \in Int
          BY <1>3, <2>3, ArgumentIs
        <4> QED
          BY <2>3, <4>1
      <3>2. Len(pvs) = Obj(a, 1).val
        BY <3>1
      <3>3. \A i \in 1 .. Obj(a, 1).val : pvs[i].isRValue /\ pvs[i].type.kind = "static"
        BY DEF Static, Value, StaticT
      <3> HIDE DEF pvs
      <3> QED
        BY <3>1, <3>2, <3>3, AllStaticOf
    <2> QED
      BY <2>1, <2>2, <2>3, AllStaticWhen
  <1>8. CASE o = "staticFieldRef"
    <2>1. AnalyzePrimOp(o, a) = AnalyzeStaticFieldRef(a)
      BY <1>8, AnalysisOf
    <2> QED
      BY <2>1, AllStaticBasics, AllStaticWhen DEF AnalyzeStaticFieldRef
  <1>9. CASE o = "EnumMemberName"
    <2>1. AnalyzePrimOp(o, a) = AnalyzeEnumMemberName(a)
      BY <1>9, AnalysisOf
    <2> QED
      BY <1>2, <2>1, AllStaticBasics, AllStaticWhen DEF AnalyzeEnumMemberName
  <1>10. CASE o = "stringLiteralByteSlice"
    <2>1. AnalyzePrimOp(o, a) = AnalyzeSlice(a)
      BY <1>10, AnalysisOf
    <2> QED
      BY <1>2, <2>1, AllStaticBasics, AllStaticWhen DEF AnalyzeSlice
  <1>11. CASE o = "stringLiteralConcat"
    <2>1. AnalyzePrimOp(o, a) = AnalyzeConcat(a)
      BY <1>11, AnalysisOf
    <2> QED
      BY <2>1, AllStaticBasics, AllStaticWhen DEF AnalyzeConcat
  <1>12. CASE o = "stringLiteralFromBytes"
    <2>1. AnalyzePrimOp(o, a) = AnalyzeFromBytes(a)
      BY <1>12, AnalysisOf
    <2> QED
      BY <2>1, AllStaticBasics, AllStaticWhen DEF AnalyzeFromBytes
  <1>13. CASE o \in {"StaticName", "MainModule", "StaticModule", "ModuleName"}
    <2>1. AnalyzePrimOp(o, a) = AnalyzeNames(o, a)
      BY <1>13, AnalysisOf
    <2> QED
      BY <1>13, <2>1, AllStaticBasics, AllStaticWhen DEF AnalyzeNames
  <1>14. CASE o = "ModuleMemberNames"
    <2>1. AnalyzePrimOp(o, a) = AnalyzeNames(o, a)
      BY <1>14, AnalysisOf
    <2> DEFINE ps == Obj(a, 1).publics
               pvs == [i \in 1 .. Len(ps) |-> Static(ps[i].name)]
    <2>2. AnalyzeNames(o, a) = When(Len(a) = 1 /\ Obj(a, 1).objKind = "MODULE", Gives(pvs))
      BY <1>14 DEF AnalyzeNames
    <2>3. ASSUME Len(a) = 1, Obj(a, 1).objKind = "MODULE" PROVE AllStatic(Gives(pvs))
      <3>1. Len(ps) \in Nat
        <4>1. ps \in Seq([name : Objects, obj : Objects])
          BY <1>3, <2>3, ArgumentIs DEF WellFormedObject
        <4> QED
          BY <4>1
      <3>2. Len(pvs) = Len(ps)
        BY <3>1
      <3>3. \A i \in 1 .. Len(ps) : pvs[i].isRValue /\ pvs[i].type.kind = "static"
        BY DEF Static, Value, StaticT
      <3> HIDE DEF pvs
      <3> QED
        BY <3>1, <3>2, <3>3, AllStaticOf
    <2> QED
      BY <2>1, <2>2, <2>3, AllStaticWhen
  <1>15. CASE o = "Flag"
    <2>1. AnalyzePrimOp(o, a) = AnalyzeFlag(a)
      BY <1>15, AnalysisOf
    <2> QED
      BY <2>1, AllStaticBasics, AllStaticWhen DEF AnalyzeFlag
  <1>16. CASE o = "LambdaMonoInputTypes"
    <2>1. AnalyzePrimOp(o, a) = AnalyzeLambdaInputs(a)
      BY <1>16, AnalysisOf
    <2> QED
      BY <2>1, AllStaticBasics, AllStaticWhen DEF AnalyzeLambdaInputs
  <1>17. CASE o = "StaticCallOutputTypes"
    <2>1. AnalyzePrimOp(o, a) = AnalyzeOutputTypes(a)
      BY <1>17, AnalysisOf
    <2>2. ASSUME HasEntry(a, 2), Finds(a, 2) PROVE Entry(a).rets \in Seq(Types)
      <3>1. Len(a) >= 1 /\ Obj(a, 1).objKind = "PROCEDURE"
        BY <2>2 DEF HasEntry, Finds
      <3>2. 1 \in 1 .. Len(a)
        BY <3>1
      <3> QED
        BY <3>1, <3>2, ArgumentIs DEF WellFormedObject, Entry
    <2> QED
      BY <2>1, <2>2, AllStaticTypes, AllStaticWhen DEF AnalyzeOutputTypes
  <1>18. CASE o = "StaticMonoInputTypes"
    <2>1. AnalyzePrimOp(o, a) = AnalyzeMonoInputs(a)
      BY <1>18, AnalysisOf
    <2>2. ASSUME Len(a) = 1, Obj(a, 1).objKind = "PROCEDURE" PROVE Obj(a, 1).mono \in Seq(Types)
      BY <1>3, <2>2, ArgumentIs DEF WellFormedObject
    <2> QED
      BY <2>1, <2>2, AllStaticTypes, AllStaticWhen DEF AnalyzeMonoInputs
  <1>19. CASE o = "GetOverload"
    <2>1. AnalyzePrimOp(o, a) = AnalyzeGetOverload(a)
      BY <1>19, AnalysisOf
    <2> QED
      BY <2>1, AllStaticBasics, AllStaticWhen DEF AnalyzeGetOverload
  <1> QED
    BY <1>4, <1>5, <1>6, <1>7, <1>8, <1>9, <1>10, <1>11, <1>12, <1>13, <1>14, <1>15, <1>16, <1>17, <1>18, <1>19
       DEF StaticOps, StaticResults

LEMMA StaticsAgree ==
    ASSUME NEW o \in StaticOps, NEW a \in Seq(Arguments), AnalyzePrimOp(o, a).out = "ok", NEW c
    PROVE  /\ Agree(EvalPrimOp(o, a, c), CodegenPrimOp(o, a, c))
           /\ Fitting(EvalPrimOp(o, a, c), CellsOf(AnalyzePrimOp(o, a)))
           /\ Fitting(CodegenPrimOp(o, a, c), CellsOf(AnalyzePrimOp(o, a)))
  <1>1. /\ Fitting(Untouched, CellsOf(AnalyzePrimOp(o, a)))
        /\ Fitting(Refused, CellsOf(AnalyzePrimOp(o, a)))
    BY StaticOutputs, AllStaticFits
  <1>2. ASSUME NEW e, e \in {Untouched, Refused}, e = EvalPrimOp(o, a, c), e = CodegenPrimOp(o, a, c)
        PROVE  /\ Agree(EvalPrimOp(o, a, c), CodegenPrimOp(o, a, c))
               /\ Fitting(EvalPrimOp(o, a, c), CellsOf(AnalyzePrimOp(o, a)))
               /\ Fitting(CodegenPrimOp(o, a, c), CellsOf(AnalyzePrimOp(o, a)))
    BY <1>1, <1>2 DEF Agree
  <1>3. CASE o = "RecordFieldName"
    <2>1. EvalPrimOp(o, a, c) = EvalFieldName(a) /\ CodegenPrimOp(o, a, c) = GenFieldName(a)
      BY <1>3, EvaluationOf, GenerationOf
    <2>2. EvalFieldName(a) = GenFieldName(a) /\ EvalFieldName(a) \in {Untouched, Refused}
      BY DEF EvalFieldName, GenFieldName, When
    <2> QED
      BY <1>2, <2>1, <2>2
  <1>4. CASE o = "staticFieldRef"
    <2>1. EvalPrimOp(o, a, c) = EvalStaticFieldRef(a) /\ CodegenPrimOp(o, a, c) = GenStaticFieldRef(a)
      BY <1>4, EvaluationOf, GenerationOf
    <2>2. (\E m \in ToSet(Obj(a, 1).publics) : m.name = Obj(a, 2)) <=>
            Obj(a, 2) \in {m.name : m \in ToSet(Obj(a, 1).publics)}
      OBVIOUS
    <2>3. EvalStaticFieldRef(a) = GenStaticFieldRef(a) /\ EvalStaticFieldRef(a) \in {Untouched, Refused}
      BY <2>2 DEF EvalStaticFieldRef, GenStaticFieldRef, When
    <2> QED
      BY <1>2, <2>1, <2>3
  <1>5. CASE o \notin {"RecordFieldName", "staticFieldRef"}
    <2>1. EvalPrimOp(o, a, c) = Untouched /\ CodegenPrimOp(o, a, c) = Untouched
      BY <1>5, EvaluationOf, GenerationOf DEF StaticOps
    <2> QED
      BY <1>2, <2>1
  <1> QED
    BY <1>3, <1>4, <1>5

-----------------------------------------------------------------------------
(* What is not to be had at compile time: the evaluator refuses it. *)
LEMMA NothingFits == Fitting(Writes(<<>>), CellsOf(Gives(<<>>)))
  <1>1. Len(<<>>) = 0 /\ \A i \in 1 .. 0 : FALSE
    OBVIOUS
  <1> QED
    BY <1>1 DEF Fitting, Writes, CellsOf, Gives

LEMMA FittingWhen ==
    ASSUME NEW b, NEW answer, NEW c, b => Fitting(answer, c)
    PROVE  Fitting(When(b, answer), c) /\ Fitting(Refused, c)
  BY DEF Fitting, When, Refused

LEMMA RunTimeFits ==
    ASSUME NEW o \in OnlyAtRunTime \ Constructors, NEW a \in Seq(Arguments),
           AnalyzePrimOp(o, a).out = "ok", NEW c
    PROVE  /\ Fitting(EvalPrimOp(o, a, c), CellsOf(AnalyzePrimOp(o, a)))
           /\ Fitting(CodegenPrimOp(o, a, c), CellsOf(AnalyzePrimOp(o, a)))
  <1> DEFINE ans == AnalyzePrimOp(o, a)
  <1>1. Refused.out # "ok" /\ Crash.out # "ok" /\ Pending.out # "ok"
    BY DEF Refused, Crash, Pending
  <1>2. ans.out = "ok"
    OBVIOUS
  <1>3. EvalPrimOp(o, a, c) = Refused
    BY EvaluationOf
  <1>4. Fitting(Refused, CellsOf(ans))
    BY FittingWhen
  <1> SUFFICES Fitting(CodegenPrimOp(o, a, c), CellsOf(ans))
    BY <1>3, <1>4
  <1> HIDE DEF ans
  <1>5. CASE o = "makeCodePointer"
    <2> DEFINE t == CodePointerT(InputTypes(a, 2), Entry(a).refs, Entry(a).rets)
    <2>1. ans = AnalyzeMakeCodePointer(a) /\ CodegenPrimOp(o, a, c) = GenMakeCodePointer(a)
      BY <1>5, AnalysisOf, GenerationOf DEF ans
    <2>2. Entry(a).analyzed /\ ans = Gives(<<Value(t)>>)
      BY <1>1, <1>2, <2>1 DEF AnalyzeMakeCodePointer, When
    <2>3. OneResult(t, GenMakeCodePointer(a))
      BY <2>2, OneWrite DEF GenMakeCodePointer, CodeOf
    <2> QED
      BY <2>1, <2>2, <2>3, FittingResult
  <1>6. CASE o = "makeExternalCodePointer"
    <2> DEFINE t == CCodePointerT(InputTypes(a, 4), FALSE, Entry(a).rets)
    <2>1. ans = AnalyzeMakeExternal(a) /\ CodegenPrimOp(o, a, c) = GenMakeExternal(a)
      BY <1>6, AnalysisOf, GenerationOf DEF ans
    <2>2. Entry(a).analyzed /\ ans = Gives(<<Value(t)>>)
      BY <1>1, <1>2, <2>1 DEF AnalyzeMakeExternal, When
    <2>3. OneResult(t, GenMakeExternal(a))
      BY <2>2, OneWrite, OneWhen DEF GenMakeExternal
    <2> QED
      BY <2>1, <2>2, <2>3, FittingResult
  <1>7. CASE o = "callExternalCodePointer"
    <2> DEFINE ts == a[1].type.rets
               pvs == [i \in 1 .. Len(ts) |-> Value(ts[i])]
               ws == [i \in 1 .. Len(ts) |-> Arg(ts[i], 0)]
    <2>1. ans = AnalyzeCallExternal(a) /\ CodegenPrimOp(o, a, c) = GenCallExternal(a)
      BY <1>7, AnalysisOf, GenerationOf DEF ans
    <2>2. Len(a) >= 1 /\ HasKind(a, 1, "cCodePointer") /\ ans = Gives(pvs)
      BY <1>1, <1>2, <2>1 DEF AnalyzeCallExternal, When
    <2>3. Len(ts) \in Nat
      <3>1. 1 \in 1 .. Len(a)
        BY <2>2
      <3>2. ts \in Seq(Types)
        BY <2>2, <3>1, ArgumentIs, TypeOfProgram DEF WellFormedType, HasKind
      <3> QED
        BY <3>2
    <2>4. Len(pvs) = Len(ts) /\ Len(ws) = Len(ts)
      BY <2>3
    <2>5. \A i \in 1 .. Len(ts) : ws[i].type = CellType(pvs[i])
      BY DEF Arg, CellType, Value
    <2> HIDE DEF pvs, ws
    <2>6. Fitting(Writes(ws), CellsOf(Gives(pvs)))
      BY <2>3, <2>4, <2>5, FittingWrites
    <2>7. Fitting(GenCallExternal(a), CellsOf(ans))
      BY <2>2, <2>6, FittingWhen DEF GenCallExternal, ws
    <2> QED
      BY <2>1, <2>7
  <1>8. CASE o \in AtomicOps
    <2>1. ans = AnalyzeAtomic(o, a) /\ CodegenPrimOp(o, a, c) = GenAtomic(o, a)
      BY <1>8, AnalysisOf, GenerationOf DEF ans
    <2>2. CASE o \in {"atomicFence", "atomicStore"}
      <3>1. ans = Gives(<<>>)
        BY <1>1, <1>2, <2>1, <2>2 DEF AnalyzeAtomic, When
      <3>2. Fitting(GenAtomic(o, a), CellsOf(ans))
        BY <2>2, <3>1, NothingFits, FittingWhen DEF GenAtomic
      <3> QED
        BY <2>1, <3>2
    <2>3. CASE o = "atomicRMW"
      <3>1. ans = Gives(<<Value(a[4].type)>>)
        BY <1>1, <1>2, <2>1, <2>3 DEF AnalyzeAtomic, When
      <3>2. OneResult(a[4].type, GenAtomic(o, a))
        BY <2>3, OneWrite DEF GenAtomic
      <3> QED
        BY <2>1, <3>1, <3>2, FittingResult
    <2>4. CASE o = "atomicLoad"
      <3>1. ans = Gives(<<Value(a[2].type.pointee)>>)
        BY <1>1, <1>2, <2>1, <2>4 DEF AnalyzeAtomic, When
      <3>2. OneResult(a[2].type.pointee, GenAtomic(o, a))
        BY <2>4, OneWrite DEF GenAtomic
      <3> QED
        BY <2>1, <3>1, <3>2, FittingResult
    <2>5. CASE o = "atomicCompareExchange"
      <3>1. ans = Gives(<<Value(a[3].type)>>)
        BY <1>1, <1>2, <2>1, <2>5 DEF AnalyzeAtomic, When
      <3>2. OneResult(a[3].type, GenAtomic(o, a))
        BY <2>5, OneWrite DEF GenAtomic
      <3> QED
        BY <2>1, <3>1, <3>2, FittingResult
    <2> QED
      BY <1>8, <2>2, <2>3, <2>4, <2>5 DEF AtomicOps
  <1>9. CASE o = "activeException"
    <2>1. ans = AnalyzeActiveException(a) /\ CodegenPrimOp(o, a, c) = GenActiveException(a)
      BY <1>9, AnalysisOf, GenerationOf DEF ans
    <2>2. ans = Gives(<<Value(PointerT(ByteT))>>)
      BY <1>1, <1>2, <2>1 DEF AnalyzeActiveException, When
    <2>3. OneResult(PointerT(ByteT), GenActiveException(a))
      BY OneWrite DEF GenActiveException
    <2> QED
      BY <2>1, <2>2, <2>3, FittingResult
  <1> QED
    BY <1>5, <1>6, <1>7, <1>8, <1>9 DEF OnlyAtRunTime, AtomicOps

-----------------------------------------------------------------------------
(* The questions about lambdas. *)
LEMMA LambdaTestsAgree ==
    ASSUME NEW o \in LambdaTests, NEW a \in Seq(Arguments), NEW c
    PROVE  /\ EvalPrimOp(o, a, c) = CodegenPrimOp(o, a, c)
           /\ OneResult(BoolT, EvalPrimOp(o, a, c))
  <1>1. EvalPrimOp(o, a, c) = EvalLambdaTest(o, a) /\ CodegenPrimOp(o, a, c) = GenLambdaTest(o, a)
    BY EvaluationOf, GenerationOf
  <1>2. CASE o = "LambdaSymbolP"
    <2>1. EvalLambdaTest(o, a) = GenLambdaTest(o, a)
      BY <1>2 DEF EvalLambdaTest, GenLambdaTest, Flag, Constant, Test
    <2>2. OneResult(BoolT, EvalLambdaTest(o, a))
      BY <1>2, OneWrite DEF EvalLambdaTest, Test
    <2> QED
      BY <1>1, <2>1, <2>2
  <1>3. CASE o = "LambdaRecordP"
    <2>1. EvalLambdaTest(o, a) = GenLambdaTest(o, a)
      BY <1>3 DEF EvalLambdaTest, GenLambdaTest, Flag, Constant, Test
    <2>2. OneResult(BoolT, EvalLambdaTest(o, a))
      BY <1>3, OneWrite DEF EvalLambdaTest, Test
    <2> QED
      BY <1>1, <2>1, <2>2
  <1>4. CASE o = "LambdaMonoP"
    <2> DEFINE record == IsTypeOfKind(a, 1, "record")
               sort == TypeArg(a, 1).lambda
    <2>1. EvalLambdaTest(o, a) = When(Len(a) = 1, IF record /\ sort = "none" THEN Crash
                                                  ELSE Test(record /\ sort = "mono"))
      BY <1>4 DEF EvalLambdaTest
    <2>2. GenLambdaTest(o, a) = When(Len(a) = 1, IF ~record THEN Flag(FALSE)
                                                 ELSE IF sort = "none" THEN Crash ELSE Flag(sort = "mono"))
      BY <1>4 DEF GenLambdaTest
    <2> HIDE DEF record, sort
    <2>3. EvalLambdaTest(o, a) = GenLambdaTest(o, a)
      <3>1. CASE record
        BY <2>1, <2>2, <3>1 DEF Flag, Constant, Test, Truth
      <3>2. CASE ~record
        BY <2>1, <2>2, <3>2 DEF Flag, Constant, Test, Truth
      <3> QED
        BY <3>1, <3>2
    <2>4. OneResult(BoolT, EvalLambdaTest(o, a))
      BY <2>1, OneWrite, OneWhen DEF Test
    <2> QED
      BY <1>1, <2>3, <2>4
  <1> QED
    BY <1>2, <1>3, <1>4 DEF LambdaTests

(* Conversions of enums, literals and constants, and copies of memory: the passes
   differ about a count that is wider than a pointer, or narrower and negative. *)
Others == {"integers", "intToEnum", "stringLiteralBytes", "stringTableConstant", "bitcopy",
           "memcpy", "memmove", "usuallyEquals"}
OddCopy(o, a) ==
  /\ o \in {"memcpy", "memmove"} /\ Len(a) >= 3 /\ HasKind(a, 3, "integer")
  /\ a[3].type.bits > PtrBits \/ (a[3].type.bits < PtrBits /\ a[3].val < 0)

(* The count of every other copy is the same number to both. *)
LEMMA SameCount ==
    ASSUME NEW t, Integral(t), NEW n \in Int, Fits(t, n),
           t.bits = PtrBits \/ (t.bits < PtrBits /\ ~(n < 0))
    PROVE  Address(n) = Pattern(t, n)
  <1>1. PtrBits \in Nat /\ MaxSize \in Nat \ {0} /\ t.bits \in Nat
    BY Sizes DEF Integral
  <1>2. CASE t.bits = PtrBits
    BY <1>2 DEF Address, Pattern, MaxSize
  <1>3. CASE t.bits < PtrBits /\ ~(n < 0)
    <2>1. PICK p \in Nat : p = 2 ^ t.bits
      BY <1>1, Powers
    <2>2. p <= MaxSize /\ p # 0
      BY <1>1, <1>3, <2>1, Powers, PowersGrow DEF MaxSize
    <2>3. n \in 0 .. p - 1
      <3>1. MaxOf(t) <= p - 1 /\ MaxOf(t) \in Int
        BY <2>1, RangeOfType
      <3> QED
        BY <1>3, <2>1, <3>1 DEF Fits
    <2>4. n % p = n
      BY <2>2, <2>3, Dividing
    <2>5. n % MaxSize = n
      <3>1. n \in 0 .. MaxSize - 1
        BY <1>1, <2>2, <2>3
      <3> QED
        BY <1>1, <3>1, Dividing
    <2> QED
      BY <2>1, <2>4, <2>5 DEF Address, Pattern
  <1> QED
    BY <1>2, <1>3

LEMMA OthersAgree ==
    ASSUME NEW o \in Others, NEW a \in Seq(Arguments), AnalyzePrimOp(o, a).out = "ok", NEW c
    PROVE  /\ ~OddCopy(o, a) => Agree(EvalPrimOp(o, a, c), CodegenPrimOp(o, a, c))
           /\ Fitting(EvalPrimOp(o, a, c), CellsOf(AnalyzePrimOp(o, a)))
           /\ Fitting(CodegenPrimOp(o, a, c), CellsOf(AnalyzePrimOp(o, a)))
  <1> DEFINE ans == AnalyzePrimOp(o, a)
  <1>1. ans.out = "ok" /\ Refused.out # "ok"
    BY DEF Refused
  <1> HIDE DEF ans
  <1>2. ASSUME Len(a) = 1 PROVE 1 \in 1 .. Len(a)
    BY <1>2
  <1>3. CASE o = "integers"
    <2> DEFINE t == Obj(a, 1).type
               n == Obj(a, 1).val
               pvs == [i \in 1 .. n |-> Value(t)]
               ws == [i \in 1 .. n |-> Arg(t, i - 1)]
    <2>1. ans = AnalyzeIntegers(o, a)
      BY <1>3, AnalysisOf DEF ans
    <2>2. Len(a) = 1 /\ IsStaticCount(a, 1) /\ n >= 0 /\ ans = Gives(pvs)
      BY <1>1, <1>3, <2>1 DEF AnalyzeIntegers, When
    <2>3. EvalPrimOp(o, a, c) = EvalIntegers(a) /\ CodegenPrimOp(o, a, c) = GenIntegers(a)
      BY <1>3, EvaluationOf, GenerationOf
    <2>4. EvalIntegers(a) = Writes(ws) /\ GenIntegers(a) = Writes(ws)
      BY <2>2 DEF EvalIntegers, GenIntegers, When
    <2>5. n \in Nat
      <3>1. n \in Int
        BY <1>2, <2>2, ArgumentIs
      <3> QED
        BY <2>2, <3>1
    <2>6. Len(pvs) = n /\ Len(ws) = n
      BY <2>5
    <2>7. \A i \in 1 .. n : ws[i].type = CellType(pvs[i])
      BY DEF Arg, CellType, Value
    <2> HIDE DEF pvs, ws
    <2>8. Fitting(Writes(ws), CellsOf(Gives(pvs)))
      BY <2>5, <2>6, <2>7, FittingWrites
    <2> QED
      BY <2>2, <2>3, <2>4, <2>8 DEF Agree, ans
  <1>4. CASE o = "intToEnum"
    <2>1. ans = AnalyzeIntToEnum(a) /\ EvalPrimOp(o, a, c) = EvalEnum(o, a) /\ CodegenPrimOp(o, a, c) = GenEnum(o, a)
      BY <1>4, AnalysisOf, EvaluationOf, GenerationOf DEF ans
    <2>2. ans = Gives(<<Value(TypeArg(a, 1))>>)
      BY <1>1, <2>1 DEF AnalyzeIntToEnum, When
    <2>3. EvalEnum(o, a) = GenEnum(o, a)
      BY <1>4 DEF EvalEnum, GenEnum
    <2>4. OneResult(TypeArg(a, 1), EvalEnum(o, a))
      BY <1>4, OneWrite DEF EvalEnum
    <2> QED
      BY <2>1, <2>2, <2>3, <2>4, FittingResult DEF Agree, ans
  <1>5. CASE o = "stringLiteralBytes"
    <2> DEFINE str == Obj(a, 1).str
               n == Len(str)
               pvs == Rep(n, Value(IntT))
               es == [i \in 1 .. n |-> Arg(IntT, Char(str[i]))]
               gs == [i \in 1 .. n |-> Arg(IntT, SignedByte(str[i]))]
    <2>1. ans = AnalyzeBytes(a) /\ EvalPrimOp(o, a, c) = EvalString(o, a) /\ CodegenPrimOp(o, a, c) = GenString(o, a)
      BY <1>5, AnalysisOf, EvaluationOf, GenerationOf DEF ans
    <2>2. Len(a) = 1 /\ IsName(a, 1) /\ ans = Gives(pvs)
      BY <1>1, <2>1 DEF AnalyzeBytes, When
    <2>3. EvalString(o, a) = Writes(es) /\ GenString(o, a) = Writes(gs)
      BY <1>5, <2>2 DEF EvalString, GenString, When
    <2>4. str \in Seq(Nat)
      BY <1>2, <2>2, ArgumentIs DEF WellFormedObject, IsName
    <2> HIDE DEF str
    <2>5. n \in Nat /\ \A i \in 1 .. n : str[i] \in Int
      BY <2>4
    <2>6. es = gs
      <3>1. \A i \in 1 .. n : SignedByte(str[i]) = Char(str[i])
        BY <2>5, SameByte
      <3> QED
        BY <3>1
    <2>7. Len(pvs) = n /\ Len(es) = n
      BY <2>5 DEF Rep
    <2>8. \A i \in 1 .. n : es[i].type = CellType(pvs[i])
      BY DEF Arg, CellType, Value, Rep
    <2> HIDE DEF pvs, es, n
    <2>9. Fitting(Writes(es), CellsOf(Gives(pvs)))
      BY <2>5, <2>7, <2>8, FittingWrites
    <2> QED
      BY <2>1, <2>2, <2>3, <2>6, <2>9 DEF Agree, ans
  <1>6. CASE o = "stringTableConstant"
    <2>1. ans = AnalyzeUnchecked(o) /\ EvalPrimOp(o, a, c) = EvalString(o, a) /\ CodegenPrimOp(o, a, c) = GenString(o, a)
      BY <1>6, AnalysisOf, EvaluationOf, GenerationOf DEF ans, Unchecked
    <2>2. ans = Gives(<<Value(PointerT(SizeT))>>)
      BY <1>6, <2>1 DEF AnalyzeUnchecked, Predicates, Counts, IntCounts
    <2>3. EvalString(o, a) = GenString(o, a)
      BY <1>6 DEF EvalString, GenString, Constant
    <2>4. OneResult(PointerT(SizeT), EvalString(o, a))
      BY <1>6, OneWrite DEF EvalString
    <2> QED
      BY <2>1, <2>2, <2>3, <2>4, FittingResult DEF Agree, ans
  <1>7. CASE o = "bitcopy"
    <2>1. ans = AnalyzeUnchecked(o) /\ EvalPrimOp(o, a, c) = EvalBitcopy(a) /\ CodegenPrimOp(o, a, c) = GenBitcopy(a)
      BY <1>7, AnalysisOf, EvaluationOf, GenerationOf DEF ans, Unchecked
    <2>2. ans = Gives(<<>>)
      BY <1>7, <2>1 DEF AnalyzeUnchecked, Predicates, Counts, IntCounts
    <2>3. EvalBitcopy(a) = GenBitcopy(a)
      BY DEF EvalBitcopy, GenBitcopy
    <2>4. Fitting(EvalBitcopy(a), CellsOf(Gives(<<>>)))
      BY NothingFits, FittingWhen DEF EvalBitcopy
    <2> QED
      BY <2>1, <2>2, <2>3, <2>4 DEF Agree, ans
  <1>8. CASE o \in {"memcpy", "memmove"}
    <2>1. ans = AnalyzeCopy(a) /\ EvalPrimOp(o, a, c) = EvalMemory(o, a) /\ CodegenPrimOp(o, a, c) = GenMemory(a)
      BY <1>8, AnalysisOf, EvaluationOf, GenerationOf DEF ans
    <2>2. ans = Gives(<<>>) /\ Len(a) = 3 /\ HasKind(a, 3, "integer")
      BY <1>1, <2>1 DEF AnalyzeCopy, When
    <2>3. Fitting(EvalMemory(o, a), CellsOf(Gives(<<>>))) /\ Fitting(GenMemory(a), CellsOf(Gives(<<>>)))
      <3>1. ASSUME NEW n PROVE Fitting(Copies(n), CellsOf(Gives(<<>>)))
        BY NothingFits DEF Fitting, Copies, Writes
      <3>2. ASSUME NEW b, NEW n PROVE Fitting(When(b, Copies(n)), CellsOf(Gives(<<>>)))
        BY <3>1, FittingWhen
      <3> QED
        BY <3>2 DEF EvalMemory, GenMemory
    <2>4. ASSUME ~OddCopy(o, a)
          PROVE  a[3].type.bits <= PtrBits /\ Address(a[3].val) = Pattern(a[3].type, a[3].val)
      <3>1. 3 \in 1 .. Len(a)
        BY <2>2
      <3>2. /\ Integral(a[3].type) /\ PtrBits \in Nat
            /\ a[3].val \in Int /\ Fits(a[3].type, a[3].val)
        BY <2>2, <3>1, ArgumentIs, TypeOfProgram, Sizes DEF HasKind
      <3>3. a[3].type.bits = PtrBits \/ (a[3].type.bits < PtrBits /\ ~(a[3].val < 0))
        BY <1>8, <2>2, <2>4, <3>2 DEF OddCopy, Integral
      <3>4. a[3].type.bits <= PtrBits
        BY <3>2, <3>3 DEF Integral
      <3> QED
        BY <3>2, <3>3, <3>4, SameCount
    <2>5. ~OddCopy(o, a) => EvalMemory(o, a) = GenMemory(a)
      BY <1>8, <2>2, <2>4 DEF EvalMemory, GenMemory, When
    <2> QED
      BY <2>1, <2>2, <2>3, <2>5 DEF Agree, ans
  <1>9. CASE o = "usuallyEquals"
    <2>1. ans = AnalyzeUsuallyEquals(a) /\ EvalPrimOp(o, a, c) = EvalUsuallyEquals(a) /\ CodegenPrimOp(o, a, c) = GenUsuallyEquals(a)
      BY <1>9, AnalysisOf, EvaluationOf, GenerationOf DEF ans
    <2>2. /\ ans = Gives(<<Value(a[1].type)>>)
          /\ Len(a) = 2 /\ IsPrimitive(a[1].type)
          /\ Obj(a, 2).objKind = "VALUE_HOLDER" /\ Obj(a, 2).type = a[1].type
      BY <1>1, <2>1 DEF AnalyzeUsuallyEquals, When
    <2>3. EvalUsuallyEquals(a) = GenUsuallyEquals(a)
      BY <2>2 DEF EvalUsuallyEquals, GenUsuallyEquals, When
    <2>4. OneResult(a[1].type, EvalUsuallyEquals(a))
      BY OneWrite DEF EvalUsuallyEquals
    <2> QED
      BY <2>1, <2>2, <2>3, <2>4, FittingResult DEF Agree, ans
  <1> QED
    BY <1>3, <1>4, <1>5, <1>6, <1>7, <1>8, <1>9 DEF Others

-----------------------------------------------------------------------------
(* Lists of values: each value is forwarded to the cell of its own position. *)
Passed(a) == [n \in 1 .. Len(a) |-> [type |-> a[n].type, isRValue |-> a[n].isRValue]]

LEMMA SameForward ==
    ASSUME NEW a, NEW I, Len(I) \in Nat, NEW c
    PROVE  Forwarded(a, I, c) = GenForwarded(a, I, c)
  <1>1. ASSUME NEW k \in 1 .. Len(I) PROVE Forward(a, I[k], c[k]) = GenForward(a, I[k], c[k])
    <2>1. CASE a[I[k]].type = c[k]
      BY <2>1 DEF Forward, GenForward
    <2>2. CASE a[I[k]].type # c[k]
      BY <2>2 DEF Forward, GenForward
    <2> QED
      BY <2>1, <2>2
  <1> QED
    BY <1>1 DEF Forwarded, GenForwarded

LEMMA ForwardFits ==
    ASSUME NEW a \in Seq(Arguments), NEW I, NEW m \in Nat, Len(I) = m, NEW pvs, Len(pvs) = m,
           \A k \in 1 .. m : pvs[k] = [type |-> a[I[k]].type, isRValue |-> a[I[k]].isRValue]
    PROVE  /\ Fitting(Forwarded(a, I, CellsOf(Gives(pvs))), CellsOf(Gives(pvs)))
           /\ Len(CellsOf(Gives(pvs))) = m
  <1> DEFINE c == CellsOf(Gives(pvs))
             ws == [k \in 1 .. Len(I) |-> Forward(a, I[k], c[k])]
  <1>1. c = [k \in 1 .. m |-> CellType(pvs[k])]
    BY DEF CellsOf, Gives
  <1>2. Len(c) = m
    BY <1>1
  <1>3. Len(ws) = m
    OBVIOUS
  <1>4. ASSUME NEW k \in 1 .. m PROVE ws[k].type = CellType(pvs[k])
    <2>1. pvs[k] = [type |-> a[I[k]].type, isRValue |-> a[I[k]].isRValue] /\ c[k] = CellType(pvs[k])
      BY <1>1
    <2>2. c[k] \in {a[I[k]].type, PointerT(a[I[k]].type)}
      BY <2>1 DEF CellType
    <2> HIDE DEF c
    <2>3. Forward(a, I[k], c[k]).type = c[k]
      BY <2>2 DEF Forward, Arg
    <2> QED
      BY <2>1, <2>3
  <1>5. Forwarded(a, I, c) = Writes(ws)
    BY <1>2 DEF Forwarded
  <1> HIDE DEF ws
  <1>6. Fitting(Writes(ws), CellsOf(Gives(pvs)))
    BY <1>3, <1>4, FittingWrites
  <1> QED
    BY <1>2, <1>5, <1>6

LEMMA SpanForwardFits ==
    ASSUME NEW a \in Seq(Arguments), NEW m \in Nat \ {0}, NEW n \in Nat, m <= n + 1, n <= Len(a)
    PROVE  LET pvs == SubSeq(Passed(a), m, n) IN
           /\ Fitting(Forwarded(a, Span(m, n), CellsOf(Gives(pvs))), CellsOf(Gives(pvs)))
           /\ Len(CellsOf(Gives(pvs))) = n - m + 1
  <1> DEFINE pvs == SubSeq(Passed(a), m, n)
             k == n - m + 1
  <1>1. Passed(a) \in Seq([type : Types, isRValue : BOOLEAN]) /\ Len(Passed(a)) = Len(a)
    <2>1. \A i \in 1 .. Len(a) : a[i].type \in Types /\ a[i].isRValue \in BOOLEAN
      BY ArgumentIs
    <2>2. Len(a) \in Nat
      OBVIOUS
    <2> QED
      BY <2>1, <2>2 DEF Passed
  <1>2. Len(pvs) = k /\ \A i \in 1 .. k : pvs[i] = Passed(a)[m + i - 1]
    BY <1>1
  <1> HIDE DEF pvs
  <1>3. k \in Nat /\ m \in Int /\ n \in Int
    OBVIOUS
  <1>4. Len(Span(m, n)) = k /\ \A i \in 1 .. k : Span(m, n)[i] = m + i - 1
    BY <1>3, SpanIs
  <1>5. ASSUME NEW i \in 1 .. k
        PROVE  pvs[i] = [type |-> a[Span(m, n)[i]].type, isRValue |-> a[Span(m, n)[i]].isRValue]
    <2>1. Len(a) \in Nat
      OBVIOUS
    <2>2. m + i - 1 \in 1 .. Len(a)
      BY <2>1
    <2> QED
      BY <1>2, <1>4, <2>2 DEF Passed
  <1> DEFINE I == Span(m, n)
  <1> HIDE DEF k, I
  <1>6. /\ k \in Nat /\ Len(I) = k /\ Len(pvs) = k
        /\ \A i \in 1 .. k : pvs[i] = [type |-> a[I[i]].type, isRValue |-> a[I[i]].isRValue]
    BY <1>2, <1>3, <1>4, <1>5 DEF I
  <1>7. /\ Fitting(Forwarded(a, I, CellsOf(Gives(pvs))), CellsOf(Gives(pvs)))
        /\ Len(CellsOf(Gives(pvs))) = k
    BY <1>6, ForwardFits
  <1> QED
    BY <1>7 DEF pvs, k, I

LEMMA AllButFits ==
    ASSUME NEW a \in Seq(Arguments), NEW n \in Nat \ {0}, n < Len(a)
    PROVE  LET pvs == SubSeq(Passed(a), 2, n) \o SubSeq(Passed(a), n + 2, Len(a)) IN
           /\ Fitting(Forwarded(a, AllBut(a, n + 1), CellsOf(Gives(pvs))), CellsOf(Gives(pvs)))
           /\ Len(CellsOf(Gives(pvs))) = Len(a) - 2
  <1> DEFINE PV == [type : Types, isRValue : BOOLEAN]
             z == Len(a)
             p == Passed(a)
             f == SubSeq(p, 2, n)
             g == SubSeq(p, n + 2, z)
             F == Span(2, n)
             G == Span(n + 2, z)
             I == F \o G
  <1>1. p \in Seq(PV) /\ Len(p) = z /\ z \in Nat /\ n < z
    <2>1. \A i \in 1 .. Len(a) : a[i].type \in Types /\ a[i].isRValue \in BOOLEAN
      BY ArgumentIs
    <2>2. Len(a) \in Nat
      OBVIOUS
    <2> QED
      BY <2>1, <2>2 DEF Passed
  <1>2. AllBut(a, n + 1) = I
    <2>1. n + 1 - 1 = n /\ n + 1 + 1 = n + 2 /\ n + 1 # 1
      OBVIOUS
    <2> QED
      BY <2>1 DEF AllBut
  <1>3. F \in Seq(Int) /\ Len(F) = n - 1 /\ \A i \in 1 .. n - 1 : F[i] = i + 1
    <2>1. n - 2 + 1 = n - 1 /\ n - 1 \in Nat
      OBVIOUS
    <2>2. F = [k \in 1 .. n - 1 |-> 2 + k - 1]
      BY <2>1 DEF Span
    <2> QED
      BY <2>1, <2>2
  <1>4. G \in Seq(Int) /\ Len(G) = z - n - 1 /\ \A i \in 1 .. z - n - 1 : G[i] = i + n + 1
    <2> HIDE DEF z
    <2>1. z - (n + 2) + 1 = z - n - 1 /\ z - n - 1 \in Nat
      BY <1>1
    <2>2. G = [k \in 1 .. z - n - 1 |-> n + 2 + k - 1]
      BY <2>1 DEF Span
    <2> QED
      BY <2>1, <2>2
  <1> HIDE DEF z, p, PV
  <1>5. f \in Seq(PV) /\ Len(f) = n - 1 /\ \A i \in 1 .. n - 1 : f[i] = p[i + 1]
    BY <1>1
  <1>6. g \in Seq(PV) /\ Len(g) = z - n - 1 /\ \A i \in 1 .. z - n - 1 : g[i] = p[i + n + 1]
    BY <1>1
  <1> DEFINE pvs == f \o g
  <1> HIDE DEF f, g, F, G
  <1>7. Len(I) = z - 2 /\ \A i \in 1 .. z - 2 : I[i] = IF i <= n - 1 THEN i + 1 ELSE i + 2
    <2>1. Len(I) = z - 2
      <3>1. Len(I) = Len(F) + Len(G)
        BY <1>3, <1>4, ConcatProperties
      <3>2. n - 1 + (z - n - 1) = z - 2
        BY <1>1
      <3> QED
        BY <1>3, <1>4, <3>1, <3>2
    <2>2. ASSUME NEW i \in 1 .. z - 2, i <= n - 1 PROVE I[i] = i + 1
      BY <1>1, <1>3, <1>4, <2>2
    <2>3. ASSUME NEW i \in 1 .. z - 2, ~(i <= n - 1) PROVE I[i] = i + 2
      <3>1. I[i] = G[i - (n - 1)]
        BY <1>1, <1>3, <1>4, <2>3
      <3>2. i - (n - 1) \in 1 .. z - n - 1
        BY <1>1, <2>3
      <3> QED
        BY <1>4, <3>1, <3>2
    <2> QED
      BY <2>1, <2>2, <2>3
  <1>8. Len(pvs) = z - 2 /\ \A i \in 1 .. z - 2 : pvs[i] = p[IF i <= n - 1 THEN i + 1 ELSE i + 2]
    <2>1. Len(pvs) = z - 2
      <3>1. Len(pvs) = Len(f) + Len(g)
        BY <1>5, <1>6, ConcatProperties
      <3>2. n - 1 + (z - n - 1) = z - 2
        BY <1>1
      <3> QED
        BY <1>5, <1>6, <3>1, <3>2
    <2>2. ASSUME NEW i \in 1 .. z - 2, i <= n - 1 PROVE pvs[i] = p[i + 1]
      <3>1. pvs[i] = f[i] /\ i \in 1 .. n - 1
        BY <1>1, <1>5, <1>6, <2>2
      <3> QED
        BY <1>5, <3>1
    <2>3. ASSUME NEW i \in 1 .. z - 2, ~(i <= n - 1) PROVE pvs[i] = p[i + 2]
      <3>1. pvs[i] = g[i - (n - 1)]
        BY <1>1, <1>5, <1>6, <2>3
      <3>2. i - (n - 1) \in 1 .. z - n - 1 /\ i - (n - 1) + n + 1 = i + 2
        BY <1>1, <2>3
      <3> QED
        BY <1>6, <3>1, <3>2
    <2> QED
      BY <2>1, <2>2, <2>3
  <1>9. ASSUME NEW i \in 1 .. z PROVE p[i] = [type |-> a[i].type, isRValue |-> a[i].isRValue]
    BY DEF p, z, Passed
  <1>10. z - 2 \in Nat \/ z = 1
    BY <1>1
  <1>11. CASE z - 2 \in Nat
    <2> DEFINE m == z - 2
    <2> HIDE DEF I, pvs
    <2>1. ASSUME NEW i \in 1 .. m PROVE pvs[i] = [type |-> a[I[i]].type, isRValue |-> a[I[i]].isRValue]
      <3>1. I[i] \in 1 .. z
        BY <1>1, <1>7
      <3>2. pvs[i] = p[I[i]]
        BY <1>7, <1>8
      <3> QED
        BY <1>9, <3>1, <3>2
    <2>2. /\ m \in Nat /\ Len(I) = m /\ Len(pvs) = m
          /\ \A i \in 1 .. m : pvs[i] = [type |-> a[I[i]].type, isRValue |-> a[I[i]].isRValue]
      BY <1>7, <1>8, <1>11, <2>1
    <2> HIDE DEF m
    <2>3. /\ Fitting(Forwarded(a, I, CellsOf(Gives(pvs))), CellsOf(Gives(pvs)))
          /\ Len(CellsOf(Gives(pvs))) = m
      BY <2>2, ForwardFits
    <2> QED
      BY <1>2, <2>3 DEF m, pvs, f, g, z, p, I
  <1>12. z # 1
    BY <1>1
  <1> QED
    BY <1>10, <1>11, <1>12

LEMMA SpanIsSeq ==
    ASSUME NEW m \in Int, NEW n \in Int
    PROVE  Span(m, n) \in Seq(Int)
  <1>1. n - m + 1 \in Int
    OBVIOUS
  <1>2. CASE n - m + 1 >= 0
    <2>1. n - m + 1 \in Nat
      BY <1>2
    <2> QED
      BY <2>1 DEF Span
  <1>3. CASE n - m + 1 < 0
    <2>1. 1 .. (n - m + 1) = 1 .. 0
      BY <1>3
    <2>2. Span(m, n) = [k \in 1 .. 0 |-> m + k - 1]
      BY <2>1 DEF Span
    <2> QED
      BY <2>2
  <1> QED
    BY <1>1, <1>2, <1>3

(* An index that wraps round is refused by the assertions of both passes or by
   neither: they agree, though the cells need not fit. *)
LEMMA ValueListsAgree ==
    ASSUME NEW o \in ValueLists, NEW a \in Seq(Arguments), AnalyzePrimOp(o, a).out = "ok"
    PROVE  LET c == CellsOf(AnalyzePrimOp(o, a)) IN
           /\ EvalPrimOp(o, a, c) = CodegenPrimOp(o, a, c)
           /\ Len(a) >= 1 /\ IsStaticCount(a, 1)
           /\ Successor(StaticCount(a, 1)) # 0 => Fitting(EvalPrimOp(o, a, c), c)
  <1> DEFINE ans == AnalyzePrimOp(o, a)
             c == CellsOf(ans)
             z == Len(a)
             i == StaticCount(a, 1)
             next == Successor(i)
             last == IF next >= z THEN z ELSE next
             p == Passed(a)
  <1>1. ans = AnalyzeValueList(o, a) /\ ans.out = "ok" /\ Refused.out # "ok" /\ Crash.out # "ok"
    BY AnalysisOf DEF Refused, Crash
  <1>2. EvalPrimOp(o, a, c) = EvalValueList(o, a, c) /\ CodegenPrimOp(o, a, c) = GenValueList(o, a, c)
    BY EvaluationOf, GenerationOf
  <1> HIDE DEF ans
  <1>3. z >= 1 /\ IsStaticCount(a, 1) /\ z \in Nat
    BY <1>1 DEF AnalyzeValueList, When, WithIndex
  <1>4. i \in 0 .. MaxSize - 1 /\ next \in 0 .. MaxSize - 1 /\ MaxSize \in Nat \ {0, 1}
        /\ (next # 0 => next = i + 1) /\ (next = 0 => i = MaxSize - 1)
    <2>1. 1 \in 1 .. Len(a)
      BY <1>3
    <2>2. i \in 0 .. MaxSize - 1
      BY <1>3, <2>1, StaticCountIs
    <2>3. MaxSize \in Nat \ {0, 1}
      <3>1. PtrBits \in Nat \ {0}
        BY Sizes, WidthAssumption
      <3> QED
        BY <3>1, Powers, PowersGrow, Sizes DEF MaxSize
    <2>4. CASE i = MaxSize - 1
      <3>1. next = 0
        <4>1. i + 1 = MaxSize
          BY <2>3, <2>4
        <4>2. MaxSize % MaxSize = 0
          BY <2>3
        <4> QED
          BY <4>1, <4>2 DEF Successor
      <3> QED
        BY <2>2, <2>3, <2>4, <3>1
    <2>5. CASE i # MaxSize - 1
      <3>1. i + 1 \in 0 .. MaxSize - 1
        BY <2>2, <2>3, <2>5
      <3>2. next = i + 1
        BY <2>3, <3>1, SmallRemainder DEF Successor
      <3> QED
        BY <2>2, <2>3, <3>1, <3>2
    <2> QED
      BY <2>4, <2>5
  <1>5. last \in 0 .. z /\ (next # 0 => last >= 1)
    BY <1>3, <1>4
  <1> DEFINE Answer(pvs) == ans = Gives(pvs)
  <1>6. /\ o = "nthValue" => next < z /\ Answer(<<p[next + 1]>>)
        /\ o = "withoutNthValue" =>
             next < z /\ Answer(SubSeq(p, 2, next) \o SubSeq(p, (IF next = 0 THEN 2 ELSE next + 2), z))
        /\ o = "takeValues" => Answer(SubSeq(p, 2, last))
        /\ o = "dropValues" => Answer(SubSeq(p, last + 1, z))
    BY <1>1, <1>3 DEF AnalyzeValueList, When, WithIndex, Passed
  <1> HIDE DEF i, next, last, c, p
  <1>7. CASE o = "nthValue"
    <2> DEFINE I == <<next + 1>>
    <2>1. EvalValueList(o, a, c) = Forwarded(a, I, c) /\ GenValueList(o, a, c) = GenForwarded(a, I, c)
      BY <1>3, <1>6, <1>7 DEF EvalValueList, GenValueList, When, i, next
    <2>2. Len(I) = 1 /\ Len(<<p[next + 1]>>) = 1
      OBVIOUS
    <2>3. next + 1 \in 1 .. z
      BY <1>3, <1>4, <1>6, <1>7
    <2>4. ASSUME NEW k \in 1 .. 1
          PROVE  <<p[next + 1]>>[k] = [type |-> a[I[k]].type, isRValue |-> a[I[k]].isRValue]
      BY <2>3 DEF p, Passed
    <2>5. Fitting(Forwarded(a, I, CellsOf(Gives(<<p[next + 1]>>))), CellsOf(Gives(<<p[next + 1]>>)))
      BY <2>2, <2>4, ForwardFits
    <2>6. Forwarded(a, I, c) = GenForwarded(a, I, c)
      BY <2>2, SameForward
    <2> QED
      BY <1>2, <1>3, <1>6, <1>7, <2>1, <2>5, <2>6 DEF c, ans, next, i
  <1>8. CASE o = "withoutNthValue"
    <2> DEFINE I == AllBut(a, next + 1)
    <2>1. EvalValueList(o, a, c) = IF Len(c) # z - 2 THEN [out |-> "assert"] ELSE Forwarded(a, I, c)
      BY <1>3, <1>6, <1>8 DEF EvalValueList, When, i, next
    <2>2. GenValueList(o, a, c) = IF Len(c) # z - 2 THEN [out |-> "assert"] ELSE GenForwarded(a, I, c)
      <3>1. z # 0
        BY <1>3
      <3> QED
        BY <1>3, <1>6, <1>8, <3>1 DEF GenValueList, When, i, next
    <2>3. Len(I) \in Nat
      <3> DEFINE e == (next + 1) - 1
                 m == IF next + 1 = 1 THEN 2 ELSE next + 1 + 1
      <3>1. e \in Int /\ m \in Int /\ 2 \in Int /\ z \in Int
        BY <1>3, <1>4
      <3> HIDE DEF e, m, z
      <3>2. Span(2, e) \in Seq(Int) /\ Span(m, z) \in Seq(Int)
        BY <3>1, SpanIsSeq
      <3>3. Span(2, e) \o Span(m, z) \in Seq(Int)
        BY <3>2, ConcatProperties
      <3>4. I \in Seq(Int)
        BY <3>3 DEF AllBut, e, m, z
      <3> HIDE DEF I
      <3> QED
        BY <3>4
    <2>4. Forwarded(a, I, c) = GenForwarded(a, I, c)
      BY <2>3, SameForward
    <2>5. ASSUME next # 0 PROVE Fitting(EvalValueList(o, a, c), c)
      <3> DEFINE pvs == SubSeq(p, 2, next) \o SubSeq(p, next + 2, z)
      <3>1. next \in Nat \ {0} /\ next < z /\ c = CellsOf(Gives(pvs))
        BY <1>4, <1>6, <1>8, <2>5 DEF c
      <3>2. Fitting(Forwarded(a, I, c), c) /\ Len(c) = z - 2
        BY <3>1, AllButFits DEF p
      <3> QED
        BY <2>1, <3>2
    <2> QED
      BY <1>2, <1>3, <2>1, <2>2, <2>4, <2>5 DEF c, ans, next, i
  <1>9. CASE o = "takeValues"
    <2> DEFINE kept == IF next >= z THEN z - 1 ELSE i
               I == Span(2, last)
    <2>1. EvalValueList(o, a, c) = IF next = 0 THEN [out |-> "assert"] ELSE Forwarded(a, I, c)
      BY <1>3, <1>9 DEF EvalValueList, When, i, next, last
    <2>2. GenValueList(o, a, c) = IF Len(c) # kept THEN [out |-> "assert"] ELSE GenForwarded(a, I, c)
      BY <1>3, <1>9 DEF GenValueList, When, i, next, last
    <2>3. c = CellsOf(Gives(SubSeq(p, 2, last)))
      BY <1>6, <1>9 DEF c
    <2>4. CASE next = 0
      <3>1. last = 0 /\ kept = MaxSize - 1
        BY <1>3, <1>4, <2>4 DEF last
      <3>2. Len(c) = 0
        <4>1. p \in Seq([type : Types, isRValue : BOOLEAN])
          <5>1. \A k \in 1 .. z : a[k].type \in Types /\ a[k].isRValue \in BOOLEAN
            BY ArgumentIs
          <5> QED
            BY <1>3, <5>1 DEF p, Passed
        <4>2. SubSeq(p, 2, 0) = <<>>
          BY <4>1
        <4> QED
          BY <2>3, <3>1, <4>2 DEF CellsOf, Gives
      <3>3. Len(c) # kept
        BY <1>4, <3>1, <3>2
      <3> QED
        BY <1>2, <1>3, <2>1, <2>2, <2>4, <3>3 DEF c, ans, next, i
    <2>5. CASE next # 0
      <3>1. last \in Nat /\ 2 <= last + 1 /\ last <= Len(a) /\ kept = last - 1
        BY <1>3, <1>4, <1>5, <2>5 DEF last
      <3>2. Fitting(Forwarded(a, I, c), c) /\ Len(c) = last - 2 + 1
        BY <2>3, <3>1, SpanForwardFits DEF p
      <3>3. Len(c) = kept
        BY <3>1, <3>2
      <3>4. Len(I) \in Nat
        <4>1. last - 2 + 1 \in Nat /\ last \in Int
          BY <3>1
        <4> QED
          BY <4>1 DEF Span
      <3>5. Forwarded(a, I, c) = GenForwarded(a, I, c)
        BY <3>4, SameForward
      <3> QED
        BY <1>2, <1>3, <2>1, <2>2, <2>5, <3>2, <3>3, <3>5 DEF c, ans, next, i
    <2> QED
      BY <2>4, <2>5
  <1>10. CASE o = "dropValues"
    <2> DEFINE I == Span(last + 1, z)
    <2>1. EvalValueList(o, a, c) = Forwarded(a, I, c) /\ GenValueList(o, a, c) = GenForwarded(a, I, c)
      BY <1>3, <1>10 DEF EvalValueList, GenValueList, When, i, next, last
    <2>2. c = CellsOf(Gives(SubSeq(p, last + 1, z)))
      BY <1>6, <1>10 DEF c
    <2>3. last + 1 \in Nat \ {0} /\ last + 1 <= z + 1 /\ z \in Nat /\ z <= Len(a)
      BY <1>3, <1>5
    <2> DEFINE m == last + 1
    <2>4. Fitting(Forwarded(a, Span(m, z), c), c)
      <3> HIDE DEF m
      <3>1. m \in Nat \ {0} /\ m <= z + 1 /\ c = CellsOf(Gives(SubSeq(Passed(a), m, z)))
        BY <2>2, <2>3 DEF m, p
      <3> QED
        BY <1>3, <3>1, SpanForwardFits
    <2>5. Len(I) \in Nat
      <3>1. z - (last + 1) + 1 \in Nat
        BY <1>3, <1>5
      <3> QED
        BY <3>1 DEF Span
    <2>6. Forwarded(a, I, c) = GenForwarded(a, I, c)
      BY <2>5, SameForward
    <2> QED
      BY <1>2, <1>3, <2>1, <2>4, <2>6 DEF c, ans, next, i
  <1> QED
    BY <1>7, <1>8, <1>9, <1>10 DEF ValueLists

-----------------------------------------------------------------------------
(* Any call that the analyzer accepts.  The calls that are known to differ are those
   of KnownToDiffer, for any primitive and arguments. *)
Differs(o, a) ==
  \/ o \in OnlyAtRunTime \union {"recordVariadicField", "integerConvertChecked"}
  \/ /\ o \in CheckedBinary /\ Len(a) >= 1 /\ HasKind(a, 1, "integer")
     /\ a[1].type.bits = MaxBits \/ Unreported(o, a[1].type)
  \/ o = "integerNegateChecked" /\ Len(a) >= 1 /\ HasKind(a, 1, "integer") /\ ~a[1].type.signed
  \/ OddCopy(o, a)
Wraps(o, a) == o \in ValueLists /\ Len(a) >= 1 /\ IsStaticCount(a, 1) /\ Successor(StaticCount(a, 1)) = 0

LEMMA CallsAgree ==
    ASSUME NEW o \in Primitives, NEW a \in Seq(Arguments), AnalyzePrimOp(o, a).out = "ok"
    PROVE  LET c == CellsOf(AnalyzePrimOp(o, a)) IN
           /\ ~Differs(o, a) => Agree(EvalPrimOp(o, a, c), CodegenPrimOp(o, a, c))
           /\ ~Wraps(o, a) => Fitting(CodegenPrimOp(o, a, c), c)
           /\ ~Wraps(o, a) /\ o # "recordVariadicField" => Fitting(EvalPrimOp(o, a, c), c)
  <1> DEFINE ans == AnalyzePrimOp(o, a)
             c == CellsOf(ans)
             e == EvalPrimOp(o, a, c)
             g == CodegenPrimOp(o, a, c)
             Goal == /\ ~Differs(o, a) => Agree(e, g)
                     /\ ~Wraps(o, a) => Fitting(g, c)
                     /\ ~Wraps(o, a) /\ o # "recordVariadicField" => Fitting(e, c)
  <1>1. ans.out = "ok" /\ Refused.out # "ok"
    BY DEF Refused
  <1>2. ASSUME NEW t, OneResult(t, e), OneResult(t, g), ans = Gives(<<Value(t)>>)
        PROVE  Fitting(e, c) /\ Fitting(g, c)
    BY <1>2, FittingResult
  <1>3. ASSUME NEW t, e = g, OneResult(t, e), ans = Gives(<<Value(t)>>)
        PROVE  Goal
    BY <1>2, <1>3 DEF Agree
  <1> SUFFICES Goal
    OBVIOUS
  <1> HIDE DEF ans, c, e, g
  <1>4. CASE o \in Predicates \union Counts \union IntCounts
    <2>1. ans = AnalyzeUnchecked(o)
      BY <1>4, AnalysisOf DEF ans, Unchecked
    <2>2. CASE o \in Predicates
      <3>1. e = g /\ OneResult(BoolT, e)
        BY <2>2, PredicatesAgree DEF e, g
      <3>2. ans = Gives(<<Value(BoolT)>>)
        BY <2>1, <2>2 DEF AnalyzeUnchecked, Predicates, Counts, IntCounts
      <3> HIDE DEF Goal
      <3> QED
        BY <1>3, <3>1, <3>2
    <2>3. CASE o \in Counts
      <3>1. e = g /\ OneResult(SizeT, e)
        BY <2>3, CountsAgree DEF e, g
      <3>2. ans = Gives(<<Value(SizeT)>>)
        BY <2>1, <2>3 DEF AnalyzeUnchecked, Predicates, Counts, IntCounts
      <3> HIDE DEF Goal
      <3> QED
        BY <1>3, <3>1, <3>2
    <2>4. CASE o \in IntCounts
      <3>1. e = g /\ OneResult(IntT, e)
        BY <2>4, IntCountsAgree DEF e, g
      <3>2. ans = Gives(<<Value(IntT)>>)
        BY <2>1, <2>4 DEF AnalyzeUnchecked, Predicates, Counts, IntCounts
      <3> HIDE DEF Goal
      <3> QED
        BY <1>3, <3>1, <3>2
    <2> QED
      BY <1>4, <2>2, <2>3, <2>4
  <1>5. CASE o \in Others
    <2>1. /\ ~OddCopy(o, a) => Agree(e, g)
          /\ Fitting(e, c) /\ Fitting(g, c)
      BY <1>5, OthersAgree DEF e, g, c, ans
    <2> QED
      BY <2>1 DEF Differs
  <1>6. CASE o \in Comparisons
    <2>1. e = g /\ OneResult(BoolT, e)
      BY <1>6, ComparisonsAgree DEF e, g
    <2>2. ans = AnalyzeComparison(a)
      BY <1>6, AnalysisOf DEF ans
    <2>3. ans = Gives(<<Value(BoolT)>>)
      BY <1>1, <2>2 DEF AnalyzeComparison, When
    <2> HIDE DEF Goal
    <2> QED
      BY <1>3, <2>1, <2>3
  <1>7. CASE o \in NumericBinary \union {"numericNegate"}
    <2>1. e = g /\ OneResult(a[1].type, e)
      BY <1>7, NumericAgree DEF e, g
    <2>2. ans = AnalyzeNumeric(o, a)
      BY <1>7, AnalysisOf DEF ans
    <2>3. ans = Gives(<<Value(a[1].type)>>)
      BY <1>1, <2>2 DEF AnalyzeNumeric, When
    <2> HIDE DEF Goal
    <2> QED
      BY <1>3, <2>1, <2>3
  <1>8. CASE o \in IntegerBinary \union IntegerUnary
    <2>1. ans = AnalyzeInteger(o, a)
      BY <1>8, AnalysisOf DEF ans
    <2>2. ans = Gives(<<Value(a[1].type)>>)
      BY <1>1, <2>1 DEF AnalyzeInteger, When
    <2>3. CASE o \in PlainIntegerBinary
      <3>1. Agree(e, g) /\ OneResult(a[1].type, e) /\ OneResult(a[1].type, g)
        BY <2>3, PlainIntegersAgree DEF e, g
      <3> QED
        BY <1>2, <2>2, <3>1
    <2>4. CASE o \in CheckedBinary
      <3>1. /\ ~Differs(o, a) => Agree(e, g)
            /\ OneResult(a[1].type, e) /\ OneResult(a[1].type, g)
        BY <2>4, CheckedAgree DEF e, g, Differs
      <3> QED
        BY <1>2, <2>2, <3>1
    <2>5. CASE o \in IntegerUnary
      <3>1. /\ ~Differs(o, a) => Agree(e, g)
            /\ OneResult(a[1].type, e) /\ OneResult(a[1].type, g)
        BY <2>5, UnaryAgree DEF e, g, Differs
      <3> QED
        BY <1>2, <2>2, <3>1
    <2> QED
      BY <1>8, <2>3, <2>4, <2>5 DEF IntegerBinary
  <1>9. CASE o \in Conversions
    <2>1. /\ o = "numericConvert" => Agree(e, g)
          /\ OneResult(TypeArg(a, 1), e) /\ OneResult(TypeArg(a, 1), g)
      BY <1>9, ConversionsAgree DEF e, g
    <2>2. ans = AnalyzeConvert(o, a)
      BY <1>9, AnalysisOf DEF ans
    <2>3. ans = Gives(<<Value(TypeArg(a, 1))>>)
      BY <1>1, <2>2 DEF AnalyzeConvert, When
    <2>4. o = "numericConvert" \/ Differs(o, a)
      BY <1>9 DEF Conversions, Differs
    <2> QED
      BY <1>2, <2>1, <2>3, <2>4
  <1>10. CASE o \in Pointers
    BY <1>10, PointersAgree DEF e, g, c, ans
  <1>11. CASE o \in {"arrayRef", "arrayElements"}
    BY <1>11, ArraysAgree DEF e, g, c, ans
  <1>12. CASE o \in {"tupleRef", "tupleElements"}
    BY <1>12, TuplesAgree DEF e, g, c, ans
  <1>13. CASE o \in {"recordFieldRef", "recordFieldRefByName", "recordFields", "recordVariadicField"}
    <2>1. /\ o # "recordVariadicField" => Agree(e, g) /\ Fitting(e, c)
          /\ Fitting(g, c)
      BY <1>13, RecordsAgree DEF e, g, c, ans
    <2> QED
      BY <2>1 DEF Differs
  <1>14. CASE o \in StaticOps
    BY <1>14, StaticsAgree DEF e, g, c, ans
  <1>15. CASE o \in OnlyAtRunTime \ Constructors
    <2>1. Fitting(e, c) /\ Fitting(g, c)
      BY <1>15, RunTimeFits DEF e, g, c, ans
    <2> QED
      BY <1>15, <2>1 DEF Differs
  <1>16. CASE o \in LambdaTests
    <2>1. e = g /\ OneResult(BoolT, e)
      BY <1>16, LambdaTestsAgree DEF e, g
    <2>2. ans = AnalyzeLambdaTest(a)
      BY <1>16, AnalysisOf DEF ans
    <2>3. ans = Gives(<<Value(BoolT)>>)
      BY <1>1, <2>2 DEF AnalyzeLambdaTest, When
    <2> HIDE DEF Goal
    <2> QED
      BY <1>3, <2>1, <2>3
  <1>17. CASE o \in ValueLists
    <2>1. /\ e = g /\ Len(a) >= 1 /\ IsStaticCount(a, 1)
          /\ Successor(StaticCount(a, 1)) # 0 => Fitting(e, c)
      BY <1>17, ValueListsAgree DEF e, g, c, ans
    <2> QED
      BY <1>17, <2>1 DEF Agree, Wraps
  <1>18. CASE o \in Constructors
    <2>1. ans = Refused
      BY <1>18, AnalysisOf DEF ans
    <2> QED
      BY <1>1, <2>1
  <1>19. \/ o \in Predicates \union Counts \union IntCounts \/ o \in Others \/ o \in Comparisons
         \/ o \in NumericBinary \union {"numericNegate"} \/ o \in IntegerBinary \union IntegerUnary
         \/ o \in Conversions \/ o \in Pointers \/ o \in {"arrayRef", "arrayElements"}
         \/ o \in {"tupleRef", "tupleElements"}
         \/ o \in {"recordFieldRef", "recordFieldRefByName", "recordFields", "recordVariadicField"}
         \/ o \in StaticOps \/ o \in OnlyAtRunTime \ Constructors \/ o \in LambdaTests
         \/ o \in ValueLists \/ o \in Constructors
    <2>1. \/ o \in Unchecked \/ o \in Comparisons \/ o \in NumericBinary \/ o = "numericNegate"
          \/ o \in IntegerBinary \/ o \in IntegerUnary \/ o \in Conversions \/ o \in Pointers
          \/ o \in Callables \/ o \in Aggregates \/ o \in StaticResults \/ o \in MemoryOps
          \/ o \in ValueLists \/ o \in LambdaTests \/ o \in Constructors
          \/ o \in {"makeExternalCodePointer", "callExternalCodePointer", "integers", "intToEnum",
                    "stringLiteralBytes", "activeException", "usuallyEquals"}
      BY DEF Primitives
    <2>2. o \in Unchecked => o \in Predicates \union Counts \union IntCounts \/ o \in Others
      BY DEF Unchecked, Others
    <2>3. o \in Callables => o \in StaticOps \/ o = "makeCodePointer"
      BY DEF Callables, StaticOps
    <2>4. o \in MemoryOps => o \in AtomicOps \/ o \in Others
      BY DEF MemoryOps, Others
    <2>5. o \in AtomicOps \union {"makeCodePointer", "makeExternalCodePointer", "callExternalCodePointer", "activeException"}
            => o \in OnlyAtRunTime \ Constructors
      BY DEF OnlyAtRunTime, AtomicOps, Constructors
    <2>6. o \in {"integers", "intToEnum", "stringLiteralBytes", "usuallyEquals"} => o \in Others
      BY DEF Others
    <2>7. o \in Aggregates => \/ o \in {"arrayRef", "arrayElements"} \/ o \in {"tupleRef", "tupleElements"}
                              \/ o \in {"recordFieldRef", "recordFieldRefByName", "recordFields", "recordVariadicField"}
      BY DEF Aggregates
    <2>8. o \in StaticResults => o \in StaticOps
      BY DEF StaticOps
    <2> QED
      BY <2>1, <2>2, <2>3, <2>4, <2>5, <2>6, <2>7, <2>8
  <1> QED
    BY <1>4, <1>5, <1>6, <1>7, <1>8, <1>9, <1>10, <1>11, <1>12, <1>13, <1>14, <1>15, <1>16, <1>17, <1>18, <1>19
-----------------------------------------------------------------------------
(* The call stays as it is, and what the passes answer are their answers for it. *)
Inv ==
  /\ op \in Ops /\ args \in ArgLists(op)
  /\ analysis \in {NotDone, AnalyzePrimOp(op, args)}
  /\ cells = CellsOf(analysis)
  /\ evaluated # NotDone => analysis.out = "ok" /\ evaluated = EvalPrimOp(op, args, cells)
  /\ generated # NotDone => analysis.out = "ok" /\ generated = CodegenPrimOp(op, args, cells)

LEMMA InvInit == Init => Inv
  BY DEF Init, Inv, CellsOf, NotDone

LEMMA InvStep == Inv /\ [Next]_vars => Inv'
  <1> SUFFICES ASSUME Inv, [Next]_vars PROVE Inv'
    OBVIOUS
  <1>1. NotDone.out # "ok"
    BY DEF NotDone
  <1>2. CASE Analyze
    <2>1. op' = op /\ args' = args /\ analysis' = AnalyzePrimOp(op, args) /\ cells' = CellsOf(analysis')
          /\ evaluated' = evaluated /\ generated' = generated
      BY <1>2 DEF Analyze
    <2>2. evaluated = NotDone /\ generated = NotDone
      BY <1>1, <1>2 DEF Inv, Analyze
    <2> QED
      BY <2>1, <2>2 DEF Inv
  <1>3. CASE Evaluate
    BY <1>3 DEF Inv, Evaluate
  <1>4. CASE Generate
    BY <1>4 DEF Inv, Generate
  <1>5. CASE UNCHANGED vars
    BY <1>5 DEF Inv, vars
  <1> QED
    BY <1>2, <1>3, <1>4, <1>5 DEF Next

LEMMA InvAlways == Spec => []Inv
  BY InvInit, InvStep, PTL DEF Spec

(* A call that has been analysed. *)
LEMMA Analysed ==
    ASSUME Inv
    PROVE  /\ op \in Primitives /\ args \in Seq(Arguments) /\ Len(args) \in Nat
           /\ analysis.out = "ok" => analysis = AnalyzePrimOp(op, args)
  BY CallAssumption DEF Inv, NotDone

LEMMA CheckedIsExactNow ==
    ASSUME Inv
    PROVE  CheckedIsExact
  <1> SUFFICES ASSUME IsChecked, ResultType.bits < MaxBits
               PROVE  LET IsRight(answer) == Right(op, ResultType, args[1].val, args[Len(args)].val, answer) IN
                      /\ ~(op = "integerMultiplyChecked" /\ MultipliesUnchecked(ResultType)) => IsRight(generated)
                      /\ (op # "integerConvertChecked" /\ ~(op = "integerNegateChecked" /\ ~ResultType.signed)) =>
                           IsRight(evaluated)
    BY DEF CheckedIsExact
  <1> DEFINE IsRight(answer) == Right(op, ResultType, args[1].val, args[Len(args)].val, answer)
  <1>1. /\ op \in CheckedBinary \union {"integerNegateChecked", "integerConvertChecked"}
        /\ analysis = AnalyzePrimOp(op, args) /\ analysis.out = "ok"
        /\ args \in Seq(Arguments) /\ Len(args) \in Nat
    BY Analysed DEF IsChecked
  <1>2. IsRight(NotDone) /\ IsRight(Refused) /\ IsRight(Undefined) /\ Refused.out # "ok"
    BY DEF Right, NotDone, Refused, Undefined
  <1>3. ASSUME NEW answer, NEW n, answer \in {ExactOrOverflow(ResultType, n), Refused, Undefined},
               Exact(op, ResultType, args[1].val, args[Len(args)].val) = n
        PROVE  IsRight(answer)
    BY <1>3 DEF Right, ExactOrOverflow, Write, Writes, Arg, Overflow, Undefined, Refused
  <1>4. CASE op \in CheckedBinary
    <2>1. AnalyzePrimOp(op, args) = AnalyzeInteger(op, args)
      BY <1>4, AnalysisOf DEF IntegerBinary
    <2>2. Len(args) = 2 /\ HasKind(args, 1, "integer") /\ analysis = Gives(<<Value(args[1].type)>>)
      BY <1>1, <1>2, <1>4, <2>1 DEF AnalyzeInteger, When, CheckedBinary, IntegerUnary
    <2>3. ResultType = args[1].type
      BY <2>2 DEF ResultType, Gives, Value
    <2> DEFINE t == args[1].type
               x == args[1].val
               y == args[2].val
    <2>4. 1 \in 1 .. Len(args) /\ 2 \in 1 .. Len(args)
      BY <2>2
    <2>5. /\ t \in Types /\ t.kind = "integer" /\ x \in Int /\ Fits(t, x)
          /\ y \in Int /\ (args[2].type = t => Fits(t, y))
      BY <1>1, <2>2, <2>4, ArgumentIs DEF HasKind
    <2>6. Integral(t) /\ t = IntegerT(t.bits, t.signed) /\ t.bits < MaxBits
      BY <2>3, <2>5, TypeOfProgram
    <2>7. EvalPrimOp(op, args, cells) \in {Refused, Checked(op, t, x, y)}
          /\ (EvalPrimOp(op, args, cells) # Refused => args[2].type = t)
      <3>1. EvalPrimOp(op, args, cells) = EvalChecked(op, args)
        BY <1>4, EvaluationOf
      <3> QED
        BY <3>1 DEF EvalChecked, When, BothIntegers
    <2>8. CodegenPrimOp(op, args, cells) \in {Refused, Reported(op, t, x, y)}
          /\ (CodegenPrimOp(op, args, cells) # Refused => args[2].type = t)
      <3>1. CodegenPrimOp(op, args, cells) = GenChecked(op, args)
        BY <1>4, GenerationOf
      <3> QED
        BY <3>1 DEF GenChecked, When, SameTypes
    <2>9. ASSUME args[2].type = t
          PROVE  IsRight(Checked(op, t, x, y)) /\ (~Unreported(op, t) => IsRight(Reported(op, t, x, y)))
      BY <1>4, <2>2, <2>3, <2>5, <2>6, <2>9, CheckedBinaryRight
    <2>10. evaluated \in {NotDone, EvalPrimOp(op, args, cells)} /\ generated \in {NotDone, CodegenPrimOp(op, args, cells)}
      BY DEF Inv
    <2> HIDE DEF t, x, y, IsRight
    <2>11. IsRight(evaluated) /\ (~Unreported(op, t) => IsRight(generated))
      BY <1>2, <2>7, <2>8, <2>9, <2>10
    <2> QED
      BY <2>3, <2>11 DEF IsRight, Unreported, t
  <1>5. CASE op = "integerNegateChecked"
    <2>1. AnalyzePrimOp(op, args) = AnalyzeInteger(op, args)
      BY <1>5, AnalysisOf DEF IntegerUnary
    <2>2. Len(args) = 1 /\ HasKind(args, 1, "integer") /\ analysis = Gives(<<Value(args[1].type)>>)
      BY <1>1, <1>2, <1>5, <2>1 DEF AnalyzeInteger, When, IntegerUnary
    <2>3. ResultType = args[1].type
      BY <2>2 DEF ResultType, Gives, Value
    <2> DEFINE t == args[1].type
               x == args[1].val
    <2>4. 1 \in 1 .. Len(args)
      BY <2>2
    <2>5. t \in Types /\ t.kind = "integer" /\ x \in Int /\ Fits(t, x)
      BY <1>1, <2>2, <2>4, ArgumentIs DEF HasKind
    <2>6. Integral(t)
      BY <2>5, TypeOfProgram
    <2>7. EvalPrimOp(op, args, cells) \in {Refused, NegateChecked(t, x)}
      BY <1>5, EvaluationOf DEF EvalNegateChecked, When
    <2>8. CodegenPrimOp(op, args, cells) \in {Refused, IntegerNegate(t, x)}
      BY <1>5, GenerationOf DEF GenNegateChecked, When
    <2>9. evaluated \in {NotDone, EvalPrimOp(op, args, cells)} /\ generated \in {NotDone, CodegenPrimOp(op, args, cells)}
      BY DEF Inv
    <2>10. Exact(op, ResultType, args[1].val, args[Len(args)].val) = -x
      BY <1>5 DEF Exact
    <2>11. /\ t.signed => IsRight(NegateChecked(t, x))
           /\ IsRight(IntegerNegate(t, x))
      <3>1. IntegerNegate(t, x) \in {ExactOrOverflow(t, -x), Refused}
            /\ (t.signed => NegateChecked(t, x) = ExactOrOverflow(t, -x))
        BY <2>5, <2>6, CheckedNegation
      <3> HIDE DEF t, x, IsRight
      <3>2. ResultType = t
        BY <2>3 DEF t
      <3> QED
        BY <1>3, <2>10, <3>1, <3>2
    <2> HIDE DEF IsRight, x
    <2>12. IsRight(generated) /\ (ResultType.signed => IsRight(evaluated))
      BY <1>2, <2>3, <2>7, <2>8, <2>9, <2>11
    <2> QED
      BY <1>5, <2>12 DEF IsRight
  <1>6. CASE op = "integerConvertChecked"
    <2>1. AnalyzePrimOp(op, args) = AnalyzeConvert(op, args)
      BY <1>6, AnalysisOf DEF Conversions
    <2>2. /\ Len(args) = 2 /\ IsTypeOfKind(args, 1, "integer")
          /\ analysis = Gives(<<Value(TypeArg(args, 1))>>)
      BY <1>1, <1>2, <1>6, <2>1 DEF AnalyzeConvert, When
    <2>3. ResultType = TypeArg(args, 1)
      BY <2>2 DEF ResultType, Gives, Value
    <2> DEFINE A == TypeArg(args, 1)
               B == args[2].type
               b == args[2].val
    <2>4. 1 \in 1 .. Len(args) /\ 2 \in 1 .. Len(args)
      BY <2>2
    <2>5. A \in Types /\ A.kind = "integer"
      BY <1>1, <2>2, <2>4, ArgumentIs DEF IsTypeOfKind
    <2>6. B \in Types /\ b \in Int /\ (B.kind = "integer" => Fits(B, b))
      BY <1>1, <2>4, ArgumentIs
    <2>7. Integral(A) /\ (B.kind = "integer" => Integral(B) /\ Fits(B, b))
      BY <2>5, <2>6, TypeOfProgram
    <2>8. CodegenPrimOp(op, args, cells) \in {Refused, IntegerConvert(A, B, b)}
      BY <1>6, GenerationOf DEF GenConvertChecked, When
    <2>9. generated \in {NotDone, CodegenPrimOp(op, args, cells)}
      BY DEF Inv
    <2>10. Exact(op, ResultType, args[1].val, args[Len(args)].val) = b
      BY <1>6, <2>2 DEF Exact
    <2> HIDE DEF A, B, b, IsRight
    <2>11. IntegerConvert(A, B, b) \in {ExactOrOverflow(A, b), Refused, Undefined}
      BY <2>6, <2>7, CheckedConversion
    <2>12. IsRight(IntegerConvert(A, B, b))
      BY <1>3, <2>3, <2>10, <2>11 DEF A
    <2>13. IsRight(generated)
      BY <1>2, <2>8, <2>9, <2>12
    <2> QED
      BY <1>6, <2>13 DEF IsRight
  <1> QED
    BY <1>1, <1>4, <1>5, <1>6

(* A checked operation whose type is narrower than the widest integer type gives its
   exact result or reports overflow, whatever the widths and the operands: at run time
   but for the products of the second widest type where pointers are narrower, and at
   compile time but for unsigned negation and conversion (overflow.crm; the checked
   cases of evaluator_op.cpp and codegen_op.cpp). *)
THEOREM PrimCheckedIsExact == Spec => []CheckedIsExact
  <1>1. Inv => CheckedIsExact
    BY CheckedIsExactNow
  <1> QED
    BY <1>1, InvAlways, PTL

-----------------------------------------------------------------------------
LEMMA SameExceptions ==
    /\ KnownToDiffer <=> Differs(op, args)
    /\ WrapsIndex <=> Wraps(op, args)
  <1>1. KnownToDiffer <=> Differs(op, args)
    BY DEF KnownToDiffer, HasInteger, Differs, OddCopy, Unreported, CheckedBinary
  <1>2. WrapsIndex <=> Wraps(op, args)
    BY DEF WrapsIndex, Wraps
  <1> QED
    BY <1>1, <1>2

LEMMA NowAgree ==
    ASSUME Inv
    PROVE  AssertionsHold /\ CompileTimeEqualsRunTime
  <1>1. ASSUME NEW answer PROVE FitsCells(answer) <=> Fitting(answer, cells)
    BY DEF FitsCells, Fitting
  <1>2. Fitting(NotDone, cells)
    BY DEF Fitting, NotDone
  <1>3. CASE analysis.out # "ok"
    <2>1. evaluated = NotDone /\ generated = NotDone
      BY <1>3 DEF Inv
    <2> QED
      BY <1>1, <1>2, <2>1 DEF AssertionsHold, CompileTimeEqualsRunTime
  <1>4. CASE analysis.out = "ok"
    <2> DEFINE e == EvalPrimOp(op, args, cells)
               g == CodegenPrimOp(op, args, cells)
    <2>1. /\ op \in Primitives /\ args \in Seq(Arguments) /\ AnalyzePrimOp(op, args).out = "ok"
          /\ cells = CellsOf(AnalyzePrimOp(op, args))
      BY <1>4, Analysed DEF Inv
    <2>2. evaluated \in {NotDone, e} /\ generated \in {NotDone, g}
      BY DEF Inv
    <2>3. /\ ~Differs(op, args) => Agree(e, g)
          /\ ~Wraps(op, args) => Fitting(g, cells)
          /\ ~Wraps(op, args) /\ op # "recordVariadicField" => Fitting(e, cells)
      BY <2>1, CallsAgree
    <2> HIDE DEF e, g
    <2>4. AssertionsHold
      BY <1>1, <1>2, <2>2, <2>3, SameExceptions DEF AssertionsHold
    <2>5. CompileTimeEqualsRunTime
      BY <2>2, <2>3, SameExceptions DEF CompileTimeEqualsRunTime, Agree
    <2> QED
      BY <2>4, <2>5
  <1> QED
    BY <1>3, <1>4

(* The assertions of the generator and the evaluator on the cells that the analyzer's
   answer had allocated hold of every call of every primitive, but for the ones that
   AssertionsHold leaves out (codegenPrimOp, evalPrimOp and analyzePrimOp). *)
THEOREM PrimAssertionsHold == Spec => []AssertionsHold
  <1>1. Inv => AssertionsHold
    BY NowAgree
  <1> QED
    BY <1>1, InvAlways, PTL

(* A call that is evaluated by the compiler and also generated gives the same results
   both times, or the program is undefined, but for the calls of KnownToDiffer
   (evalPrimOp and codegenPrimOp). *)
THEOREM PrimCompileTimeEqualsRunTime == Spec => []CompileTimeEqualsRunTime
  <1>1. Inv => CompileTimeEqualsRunTime
    BY NowAgree
  <1> QED
    BY <1>1, InvAlways, PTL
=============================================================================
