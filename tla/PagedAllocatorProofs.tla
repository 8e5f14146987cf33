------------------------ MODULE PagedAllocatorProofs ------------------------
(***************************************************************************)
(* Theorems about PagedAllocator, for heaps, headers and requests of any   *)
(* size: the heap stays consistent through every sequence of calls, and    *)
(* the client gets what Regions promises.                                  *)
(*                                                                         *)
(* The proof goes up the way the code is layered: powers of two; what each *)
(* procedure writes, field by field; the lists (Chained); the blocks from  *)
(* end to end (Tiles); the procedures on a heap in which the free blocks   *)
(* are those of a set F (WellFormed); the two calls of the client.         *)
(***************************************************************************)
EXTENDS PagedAllocator, DataLemmas, FiniteSetTheorems

-----------------------------------------------------------------------------
(* Sizes and their lists. *)

(* pow2 is the function its recursive definition describes. *)
LEMMA SizesDouble ==
    /\ pow2 \in [Nat -> Nat \ {0}]
    /\ pow2[0] = 1
    /\ \A i \in Nat : pow2[i + 1] = 2 * pow2[i]
  <1> DEFINE Pos    == Nat \ {0}
             double == [n \in Nat |-> [x \in Pos |-> 2 * x]]
  <1>1. 1 \in Pos /\ double \in [Nat -> [Pos -> Pos]]
    OBVIOUS
  <1>2. PICK f \in [Nat -> Pos] : f[0] = 1 /\ \A n \in Nat : f[n + 1] = double[n + 1][f[n]]
    <2> DEFINE Recursion(S) == \A a \in S : \A step \in [Nat -> [S -> S]] :
                 \E f \in [Nat -> S] : f[0] = a /\ \A n \in Nat : f[n + 1] = step[n + 1][f[n]]
    <2>1. \A S : Recursion(S)
      BY PrimitiveRecursion
    <2> HIDE DEF Recursion
    <2>2. Recursion(Pos)
      BY <2>1
    <2> USE DEF Recursion
    <2> HIDE DEF double, Pos
    <2>3. \E f \in [Nat -> Pos] : f[0] = 1 /\ \A n \in Nat : f[n + 1] = double[n + 1][f[n]]
      BY <1>1, <2>2
    <2> QED
      BY <2>3
  <1>3. ASSUME NEW n \in Nat PROVE f[n] = IF n = 0 THEN 1 ELSE 2 * f[n - 1]
    <2>1. n # 0 => n - 1 \in Nat /\ n - 1 + 1 = n /\ f[n - 1] \in Pos
      OBVIOUS
    <2>2. n # 0 => f[n] = double[n][f[n - 1]]
      BY <1>2, <2>1
    <2> QED
      BY <1>2, <2>1, <2>2
  <1>4. f = [n \in Nat |-> IF n = 0 THEN 1 ELSE 2 * f[n - 1]]
    BY <1>3
  <1>5. pow2 = [n \in Nat |-> IF n = 0 THEN 1 ELSE 2 * pow2[n - 1]]
    BY <1>4, Zenon DEF pow2
  <1>6. pow2[0] = 1
    BY <1>5
  <1>7. ASSUME NEW i \in Nat PROVE pow2[i + 1] = 2 * pow2[i]
    <2>1. i + 1 \in Nat /\ i + 1 # 0 /\ i + 1 - 1 = i
      OBVIOUS
    <2> QED
      BY <1>5, <2>1
  <1>8. \A n \in Nat : pow2[n] \in Pos
    <2> DEFINE T == {n \in Nat : pow2[n] \in Pos}
    <2>1. 0 \in T
      BY <1>6
    <2>2. \A n \in Nat : n \in T => n + 1 \in T
      BY <1>7
    <2> HIDE DEF T
    <2>3. \A n \in Nat : n \in T
      BY <2>1, <2>2, Induction
    <2> QED
      BY <2>3 DEF T
  <1> QED
    BY <1>5, <1>6, <1>7, <1>8

(* The powers grow, each beyond its exponent. *)
LEMMA SizesGrow ==
    /\ \A i \in Nat : i < pow2[i]
    /\ \A i, j \in Nat : i < j => pow2[i + 1] <= pow2[j]
  <1>1. \A i \in Nat : pow2[i] \in Nat \ {0}
    BY SizesDouble
  <1>2. \A i \in Nat : i < pow2[i]
    <2> DEFINE T == {n \in Nat : n < pow2[n]}
    <2>1. 0 \in T
      BY SizesDouble
    <2>2. ASSUME NEW n \in Nat, n \in T PROVE n + 1 \in T
      BY <1>1, <2>2, SizesDouble
    <2> HIDE DEF T
    <2>3. \A n \in Nat : n \in T
      BY <2>1, <2>2, Induction
    <2> QED
      BY <2>3 DEF T
  <1>3. ASSUME NEW i \in Nat PROVE \A j \in Nat : i < j => pow2[i + 1] <= pow2[j]
    <2> DEFINE T == {n \in Nat : pow2[i + 1] <= pow2[i + 1 + n]}
    <2>1. 0 \in T
      BY <1>1
    <2>2. ASSUME NEW n \in Nat, n \in T PROVE n + 1 \in T
      <3>1. i + 1 + n \in Nat /\ i + 1 + (n + 1) = i + 1 + n + 1
        OBVIOUS
      <3>2. pow2[i + 1 + (n + 1)] = 2 * pow2[i + 1 + n]
        BY <3>1, SizesDouble
      <3>3. pow2[i + 1 + n] \in Nat /\ pow2[i + 1] \in Nat
        BY <1>1
      <3> QED
        BY <2>2, <3>2, <3>3
    <2> HIDE DEF T
    <2>3. \A n \in Nat : n \in T
      BY <2>1, <2>2, Induction
    <2>4. ASSUME NEW j \in Nat, i < j PROVE pow2[i + 1] <= pow2[j]
      <3>1. j - (i + 1) \in Nat /\ i + 1 + (j - (i + 1)) = j
        BY <2>4
      <3>2. j - (i + 1) \in T
        BY <2>3, <3>1
      <3> QED
        BY <3>1, <3>2 DEF T
    <2> QED
      BY <2>4
  <1> QED
    BY <1>2, <1>3

(* floorLog2(n) is the exponent of the last power of two that is not beyond n. *)
LEMMA FloorLog ==
    ASSUME NEW n \in Nat \ {0}
    PROVE  /\ floorLog2(n) \in Nat
           /\ pow2[floorLog2(n)] <= n
           /\ n < pow2[floorLog2(n) + 1]
  <1> DEFINE T == {i \in Nat : n < pow2[i]}
  <1>1. n \in T
    BY SizesGrow
  <1>2. PICK k \in T : \A j \in T : k <= j
    BY <1>1, LeastNatural
  <1>3. k # 0
    BY SizesDouble
  <1>4. k - 1 \in Nat /\ k - 1 + 1 = k /\ k <= n
    BY <1>1, <1>2, <1>3
  <1>5. k - 1 \notin T
    BY <1>2, <1>4
  <1>6. pow2[k - 1] <= n /\ n < pow2[k]
    BY <1>4, <1>5, SizesDouble
  <1>7. k - 1 \in 0 .. n
    BY <1>4
  <1>8. \E i \in 0 .. n : pow2[i] <= n /\ n < pow2[i + 1]
    BY <1>4, <1>6, <1>7
  <1>9. floorLog2(n) \in 0 .. n /\ pow2[floorLog2(n)] <= n /\ n < pow2[floorLog2(n) + 1]
    BY <1>8, Zenon DEF floorLog2
  <1> QED
    BY <1>9

(* A larger size belongs to a list no smaller. *)
LEMMA LogGrows ==
    ASSUME NEW m \in Nat \ {0}, NEW n \in Nat \ {0}, m <= n
    PROVE  floorLog2(m) <= floorLog2(n)
  <1> DEFINE i == floorLog2(m)
             j == floorLog2(n)
  <1>1. i \in Nat /\ pow2[i] <= m /\ j \in Nat /\ n < pow2[j + 1]
    BY FloorLog
  <1> HIDE DEF i, j
  <1>2. j < i => pow2[j + 1] <= pow2[i]
    BY <1>1, SizesGrow
  <1>3. pow2[i] \in Nat /\ pow2[j + 1] \in Nat
    BY <1>1, SizesDouble
  <1>4. i <= j
    BY <1>1, <1>2, <1>3
  <1> QED
    BY <1>4 DEF i, j

(* Blocks of size at least n are all that is found from the list of
   higherPower2(n) on, though a list holds sizes up to the next power. *)
LEMMA UsableIsLargeEnough ==
    ASSUME NEW n \in Nat \ {0}, NEW s \in Nat \ {0}, bucketId(s) >= bucketId(higherPower2(n))
    PROVE  s >= n
  <1>1. \E p \in {pow2[i] : i \in 0 .. n} : p >= n /\ (p = 1 \/ p \div 2 < n)
    <2> DEFINE T == {i \in Nat : n <= pow2[i]}
    <2>1. n \in T
      BY SizesGrow, SizesDouble
    <2>2. PICK k \in T : \A j \in T : k <= j
      BY <2>1, LeastNatural
    <2>3. k \in 0 .. n
      BY <2>1, <2>2
    <2>4. CASE k = 0
      BY <2>3, <2>4, SizesDouble
    <2>5. CASE k # 0
      <3>1. k - 1 \in Nat /\ k - 1 + 1 = k
        BY <2>5
      <3>2. ~(n <= pow2[k - 1])
        BY <2>2, <3>1
      <3>3. pow2[k] = 2 * pow2[k - 1] /\ pow2[k - 1] \in Nat
        BY <3>1, SizesDouble
      <3> QED
        BY <2>3, <3>2, <3>3
    <2> QED
      BY <2>4, <2>5
  <1> DEFINE p == higherPower2(n)
  <1>2. p \in {pow2[i] : i \in 0 .. n} /\ p >= n
    BY <1>1, Zenon DEF higherPower2
  <1>3. PICK k \in 0 .. n : p = pow2[k]
    BY <1>2
  <1>4. p \in Nat \ {0}
    BY <1>3, SizesDouble
  <1> DEFINE i == floorLog2(p)
             j == floorLog2(s)
  <1>5. i \in Nat /\ p < pow2[i + 1] /\ j \in Nat /\ pow2[j] <= s /\ i <= j
    BY <1>4, FloorLog DEF bucketId
  <1> HIDE DEF i, j, p
  <1>6. k <= i
    <2>1. i < k => pow2[i + 1] <= pow2[k]
      BY <1>5, SizesGrow
    <2>2. pow2[i + 1] \in Nat
      BY <1>5, SizesDouble
    <2> QED
      BY <1>3, <1>4, <1>5, <2>1, <2>2
  <1>7. k < j => pow2[k + 1] <= pow2[j]
    BY <1>5, SizesGrow
  <1>8. pow2[k] <= pow2[j]
    <2>1. pow2[k] \in Nat /\ pow2[j] \in Nat /\ pow2[k + 1] = 2 * pow2[k]
      BY <1>5, SizesDouble
    <2> QED
      BY <1>5, <1>6, <1>7, <2>1
  <1> QED
    BY <1>2, <1>3, <1>4, <1>5, <1>8, SizesDouble

(* Every block of the heap has a list. *)
LEMMA BlockHasBucket ==
    ASSUME NEW s \in 1 .. HeapSize
    PROVE  bucketId(s) \in BucketIds
  <1>1. HeapSize \in Nat \ {0} /\ s \in Nat \ {0} /\ s <= HeapSize
    BY SizesAssumption
  <1>2. floorLog2(s) \in Nat /\ floorLog2(HeapSize) \in Nat /\ floorLog2(s) <= floorLog2(HeapSize)
    BY <1>1, FloorLog, LogGrows
  <1> QED
    BY <1>2 DEF bucketId, BucketIds

-----------------------------------------------------------------------------
(* What each procedure writes, field by field. *)

Outcomes == {"none", "full"}

Headers == [size : 1 .. HeapSize, free : BOOLEAN, previous : Links,
            nextInBucket : Links, previousInBucket : Links]

Heaps == [blocks  : UNION {[D -> Headers] : D \in SUBSET Offsets},
          buckets : [BucketIds -> Links],
          failed  : Outcomes]

(* The parts of a heap. *)
LEMMA HeapShape ==
    ASSUME NEW h \in Heaps
    PROVE  /\ DOMAIN h.blocks \subseteq Offsets
           /\ \A b \in DOMAIN h.blocks : h.blocks[b] \in Headers
           /\ h.blocks \in [DOMAIN h.blocks -> Headers]
           /\ h.buckets \in [BucketIds -> Links]
           /\ nullBlock \notin DOMAIN h.blocks
           /\ nullBlock \in Links
  <1>1. PICK D \in SUBSET Offsets : h.blocks \in [D -> Headers]
    BY DEF Heaps
  <1>2. nullBlock \notin Offsets
    BY SizesAssumption DEF nullBlock, Offsets
  <1> QED
    BY <1>1, <1>2 DEF Links, Heaps

(* A heap from its parts. *)
LEMMA HeapBuilt ==
    ASSUME NEW D \in SUBSET Offsets, NEW f \in [D -> Headers],
           NEW k \in [BucketIds -> Links], NEW w \in Outcomes,
           NEW g, g = [blocks |-> f, buckets |-> k, failed |-> w]
    PROVE  /\ g \in Heaps /\ DOMAIN g.blocks = D
           /\ g.blocks = f /\ g.buckets = k /\ g.failed = w
  BY DEF Heaps

(* g is h with one link or size in the header of b written, and flags as they were. *)
Wrote(g, h, b, field, value) ==
    /\ g \in Heaps /\ DOMAIN g.blocks = DOMAIN h.blocks
    /\ g.buckets = h.buckets /\ g.failed = h.failed
    /\ \A o \in DOMAIN h.blocks :
          LET new(f) == o = b /\ f = field
          IN  /\ g.blocks[o].free <=> h.blocks[o].free
              /\ g.blocks[o].size = IF new("size") THEN value ELSE h.blocks[o].size
              /\ g.blocks[o].previous = IF new("previous") THEN value ELSE h.blocks[o].previous
              /\ g.blocks[o].nextInBucket =
                    IF new("nextInBucket") THEN value ELSE h.blocks[o].nextInBucket
              /\ g.blocks[o].previousInBucket =
                    IF new("previousInBucket") THEN value ELSE h.blocks[o].previousInBucket

(* g is h with the flag of b written. *)
Flagged(g, h, b, flag) ==
    /\ g \in Heaps /\ DOMAIN g.blocks = DOMAIN h.blocks
    /\ g.buckets = h.buckets /\ g.failed = h.failed
    /\ \A o \in DOMAIN h.blocks :
          /\ g.blocks[o].free <=> IF o = b THEN flag ELSE h.blocks[o].free
          /\ g.blocks[o].size = h.blocks[o].size
          /\ g.blocks[o].previous = h.blocks[o].previous
          /\ g.blocks[o].nextInBucket = h.blocks[o].nextInBucket
          /\ g.blocks[o].previousInBucket = h.blocks[o].previousInBucket

(* Another header for b in place of the one it has. *)
LEMMA HeaderWrite ==
    ASSUME NEW h \in Heaps, NEW b \in DOMAIN h.blocks, NEW x \in Headers,
           NEW g, g = [h EXCEPT !.blocks[b] = x]
    PROVE  /\ g \in Heaps /\ DOMAIN g.blocks = DOMAIN h.blocks
           /\ g.buckets = h.buckets /\ g.failed = h.failed
           /\ \A o \in DOMAIN h.blocks : g.blocks[o] = IF o = b THEN x ELSE h.blocks[o]
  <1> DEFINE D == DOMAIN h.blocks
             f == [h.blocks EXCEPT ![b] = x]
  <1>1. /\ D \in SUBSET Offsets /\ h.blocks \in [D -> Headers] /\ h.buckets \in [BucketIds -> Links]
    BY HeapShape
  <1>2. h = [blocks |-> h.blocks, buckets |-> h.buckets, failed |-> h.failed] /\ h.failed \in Outcomes
    BY DEF Heaps
  <1>3. f \in [D -> Headers] /\ g = [blocks |-> f, buckets |-> h.buckets, failed |-> h.failed]
    BY <1>1, <1>2
  <1>4. \A o \in D : f[o] = IF o = b THEN x ELSE h.blocks[o]
    BY <1>1
  <1> HIDE DEF f
  <1>5. g \in Heaps /\ DOMAIN g.blocks = D /\ g.blocks = f /\ g.buckets = h.buckets /\ g.failed = h.failed
    BY <1>1, <1>2, <1>3, HeapBuilt
  <1> QED
    BY <1>4, <1>5

(* Each setter of the source writes its field and nothing else. *)
LEMMA PreviousWrite ==
    ASSUME NEW h \in Heaps, NEW b \in DOMAIN h.blocks, NEW p \in Links
    PROVE  Wrote([h EXCEPT !.blocks[b].previous = p], h, b, "previous", p)
  <1> DEFINE x == [h.blocks[b] EXCEPT !.previous = p]
             g == [h EXCEPT !.blocks[b] = x]
  <1>1. h.blocks[b] \in Headers
    BY HeapShape
  <1>2. x \in Headers
    BY <1>1 DEF Headers
  <1> HIDE DEF x
  <1>3. /\ g \in Heaps /\ DOMAIN g.blocks = DOMAIN h.blocks
        /\ g.buckets = h.buckets /\ g.failed = h.failed
        /\ \A o \in DOMAIN h.blocks : g.blocks[o] = IF o = b THEN x ELSE h.blocks[o]
    BY <1>2, HeaderWrite
  <1>4. g = [h EXCEPT !.blocks[b].previous = p]
    BY DEF x
  <1> HIDE DEF g
  <1>5. Wrote(g, h, b, "previous", p)
    BY <1>1, <1>3 DEF Wrote, Headers, x
  <1> QED
    BY <1>4, <1>5

(* As above, for the next block in a list. *)
LEMMA NextInBucketWrite ==
    ASSUME NEW h \in Heaps, NEW b \in DOMAIN h.blocks, NEW p \in Links
    PROVE  Wrote([h EXCEPT !.blocks[b].nextInBucket = p], h, b, "nextInBucket", p)
  <1> DEFINE x == [h.blocks[b] EXCEPT !.nextInBucket = p]
             g == [h EXCEPT !.blocks[b] = x]
  <1>1. h.blocks[b] \in Headers
    BY HeapShape
  <1>2. x \in Headers
    BY <1>1 DEF Headers
  <1> HIDE DEF x
  <1>3. /\ g \in Heaps /\ DOMAIN g.blocks = DOMAIN h.blocks
        /\ g.buckets = h.buckets /\ g.failed = h.failed
        /\ \A o \in DOMAIN h.blocks : g.blocks[o] = IF o = b THEN x ELSE h.blocks[o]
    BY <1>2, HeaderWrite
  <1>4. g = [h EXCEPT !.blocks[b].nextInBucket = p]
    BY DEF x
  <1> HIDE DEF g
  <1>5. Wrote(g, h, b, "nextInBucket", p)
    BY <1>1, <1>3 DEF Wrote, Headers, x
  <1> QED
    BY <1>4, <1>5

(* As above, for the one before in a list. *)
LEMMA PreviousInBucketWrite ==
    ASSUME NEW h \in Heaps, NEW b \in DOMAIN h.blocks, NEW p \in Links
    PROVE  Wrote([h EXCEPT !.blocks[b].previousInBucket = p], h, b, "previousInBucket", p)
  <1> DEFINE x == [h.blocks[b] EXCEPT !.previousInBucket = p]
             g == [h EXCEPT !.blocks[b] = x]
  <1>1. h.blocks[b] \in Headers
    BY HeapShape
  <1>2. x \in Headers
    BY <1>1 DEF Headers
  <1> HIDE DEF x
  <1>3. /\ g \in Heaps /\ DOMAIN g.blocks = DOMAIN h.blocks
        /\ g.buckets = h.buckets /\ g.failed = h.failed
        /\ \A o \in DOMAIN h.blocks : g.blocks[o] = IF o = b THEN x ELSE h.blocks[o]
    BY <1>2, HeaderWrite
  <1>4. g = [h EXCEPT !.blocks[b].previousInBucket = p]
    BY DEF x
  <1> HIDE DEF g
  <1>5. Wrote(g, h, b, "previousInBucket", p)
    BY <1>1, <1>3 DEF Wrote, Headers, x
  <1> QED
    BY <1>4, <1>5

(* As above, for the size of a block. *)
LEMMA SizeWrite ==
    ASSUME NEW h \in Heaps, NEW b \in DOMAIN h.blocks, NEW p \in 1 .. HeapSize
    PROVE  Wrote([h EXCEPT !.blocks[b].size = p], h, b, "size", p)
  <1> DEFINE x == [h.blocks[b] EXCEPT !.size = p]
             g == [h EXCEPT !.blocks[b] = x]
  <1>1. h.blocks[b] \in Headers
    BY HeapShape
  <1>2. x \in Headers
    BY <1>1 DEF Headers
  <1> HIDE DEF x
  <1>3. /\ g \in Heaps /\ DOMAIN g.blocks = DOMAIN h.blocks
        /\ g.buckets = h.buckets /\ g.failed = h.failed
        /\ \A o \in DOMAIN h.blocks : g.blocks[o] = IF o = b THEN x ELSE h.blocks[o]
    BY <1>2, HeaderWrite
  <1>4. g = [h EXCEPT !.blocks[b].size = p]
    BY DEF x
  <1> HIDE DEF g
  <1>5. Wrote(g, h, b, "size", p)
    BY <1>1, <1>3 DEF Wrote, Headers, x
  <1> QED
    BY <1>4, <1>5

(* A block that is freed keeps its links and size. *)
LEMMA FreedFlag ==
    ASSUME NEW h \in Heaps, NEW b \in DOMAIN h.blocks
    PROVE  Flagged([h EXCEPT !.blocks[b].free = TRUE], h, b, TRUE)
  <1> DEFINE x == [h.blocks[b] EXCEPT !.free = TRUE]
             g == [h EXCEPT !.blocks[b] = x]
  <1>1. h.blocks[b] \in Headers
    BY HeapShape
  <1>2. x \in Headers
    BY <1>1 DEF Headers
  <1> HIDE DEF x
  <1>3. /\ g \in Heaps /\ DOMAIN g.blocks = DOMAIN h.blocks
        /\ g.buckets = h.buckets /\ g.failed = h.failed
        /\ \A o \in DOMAIN h.blocks : g.blocks[o] = IF o = b THEN x ELSE h.blocks[o]
    BY <1>2, HeaderWrite
  <1>4. g = [h EXCEPT !.blocks[b].free = TRUE]
    BY DEF x
  <1> HIDE DEF g
  <1>5. Flagged(g, h, b, TRUE)
    BY <1>1, <1>3 DEF Flagged, Headers, x
  <1> QED
    BY <1>4, <1>5

(* So does one that is taken. *)
LEMMA TakenFlag ==
    ASSUME NEW h \in Heaps, NEW b \in DOMAIN h.blocks
    PROVE  Flagged([h EXCEPT !.blocks[b].free = FALSE], h, b, FALSE)
  <1> DEFINE x == [h.blocks[b] EXCEPT !.free = FALSE]
             g == [h EXCEPT !.blocks[b] = x]
  <1>1. h.blocks[b] \in Headers
    BY HeapShape
  <1>2. x \in Headers
    BY <1>1 DEF Headers
  <1> HIDE DEF x
  <1>3. /\ g \in Heaps /\ DOMAIN g.blocks = DOMAIN h.blocks
        /\ g.buckets = h.buckets /\ g.failed = h.failed
        /\ \A o \in DOMAIN h.blocks : g.blocks[o] = IF o = b THEN x ELSE h.blocks[o]
    BY <1>2, HeaderWrite
  <1>4. g = [h EXCEPT !.blocks[b].free = FALSE]
    BY DEF x
  <1> HIDE DEF g
  <1>5. Flagged(g, h, b, FALSE)
    BY <1>1, <1>3 DEF Flagged, Headers, x
  <1> QED
    BY <1>4, <1>5

(* A write through a null link is none. *)
LEMMA BucketLinkWrites ==
    ASSUME NEW h \in Heaps, NEW b \in DOMAIN h.blocks \cup {nullBlock}, NEW p \in Links
    PROVE  /\ Wrote(blockSetNextInBucket(h, b, p), h, b, "nextInBucket", p)
           /\ Wrote(blockSetPreviousInBucket(h, b, p), h, b, "previousInBucket", p)
  <1>1. nullBlock \notin DOMAIN h.blocks
    BY HeapShape
  <1>2. CASE b = nullBlock
    BY <1>1, <1>2 DEF Wrote, blockSetNextInBucket, blockSetPreviousInBucket
  <1>3. CASE b # nullBlock
    BY <1>3, NextInBucketWrite, PreviousInBucketWrite DEF blockSetNextInBucket, blockSetPreviousInBucket
  <1> QED
    BY <1>2, <1>3

(* g is h with b for the head of the list i. *)
Headed(g, h, i, b) ==
    /\ g \in Heaps /\ g.blocks = h.blocks /\ g.failed = h.failed
    /\ \A j \in BucketIds : g.buckets[j] = IF j = i THEN b ELSE h.buckets[j]

(* A list gets another head, and the rest of the heap stays. *)
LEMMA HeadWrite ==
    ASSUME NEW h \in Heaps, NEW i \in BucketIds, NEW p \in Links
    PROVE  Headed([h EXCEPT !.buckets[i] = p], h, i, p)
  <1>1. /\ DOMAIN h.blocks \in SUBSET Offsets /\ h.blocks \in [DOMAIN h.blocks -> Headers]
        /\ h.buckets \in [BucketIds -> Links]
    BY HeapShape
  <1>2. h = [blocks |-> h.blocks, buckets |-> h.buckets, failed |-> h.failed] /\ h.failed \in Outcomes
    BY DEF Heaps
  <1> DEFINE k == [h.buckets EXCEPT ![i] = p]
             g == [h EXCEPT !.buckets[i] = p]
  <1>3. g = [blocks |-> h.blocks, buckets |-> k, failed |-> h.failed]
    BY <1>2
  <1>4. k \in [BucketIds -> Links] /\ \A j \in BucketIds : k[j] = IF j = i THEN p ELSE h.buckets[j]
    BY <1>1
  <1> HIDE DEF k, g
  <1>5. g \in Heaps /\ g.blocks = h.blocks /\ g.buckets = k /\ g.failed = h.failed
    BY <1>1, <1>2, <1>3, <1>4, HeapBuilt
  <1>6. Headed(g, h, i, p)
    BY <1>4, <1>5 DEF Headed
  <1> QED
    BY <1>6 DEF g

(* g is h with the block b put at the head of its free list. *)
PutOnList(g, h, b) ==
    LET i    == bucketId(h.blocks[b].size)
        head == h.buckets[i]
    IN  /\ DOMAIN g.blocks = DOMAIN h.blocks /\ g.failed = h.failed
        /\ \A o \in DOMAIN h.blocks :
              /\ g.blocks[o].size = h.blocks[o].size
              /\ g.blocks[o].previous = h.blocks[o].previous
              /\ g.blocks[o].free <=> o = b \/ h.blocks[o].free
              /\ g.blocks[o].nextInBucket = IF o = b THEN head ELSE h.blocks[o].nextInBucket
              /\ g.blocks[o].previousInBucket = IF o = head THEN b ELSE h.blocks[o].previousInBucket
        /\ \A j \in BucketIds : g.buckets[j] = IF j = i THEN b ELSE h.buckets[j]

(* pushFreeList is PutOnList, and its assertion holds. *)
LEMMA PushPuts ==
    ASSUME NEW h \in Heaps, NEW b \in DOMAIN h.blocks,
           h.blocks[b].previousInBucket = nullBlock,
           h.buckets[bucketId(h.blocks[b].size)] \in (DOMAIN h.blocks \cup {nullBlock}) \ {b}
    PROVE  pushFreeList(h, b) \in Heaps /\ PutOnList(pushFreeList(h, b), h, b)
  <1> DEFINE i    == bucketId(h.blocks[b].size)
             head == h.buckets[i]
             h1   == [h EXCEPT !.blocks[b].free = TRUE]
             h2   == blockSetPreviousInBucket(h1, head, b)
             h3   == blockSetNextInBucket(h2, b, head)
             h4   == [h3 EXCEPT !.buckets[i] = b]
  <1>1. /\ b \in Links /\ head \in DOMAIN h.blocks \cup {nullBlock} /\ head \in Links /\ head # b
        /\ h.blocks[b].size \in 1 .. HeapSize /\ h.blocks[b].previousInBucket = nullBlock
    BY HeapShape DEF Headers, Links
  <1>2. i \in BucketIds
    BY <1>1, BlockHasBucket
  <1>3. Flagged(h1, h, b, TRUE)
    BY FreedFlag
  <1>4. pushFreeList(h, b) =
           [blockSetNextInBucket(asserted(h2, h2.blocks[b].previousInBucket = nullBlock, "pushFreeList"),
                                 b, head) EXCEPT !.buckets[i] = b]
    BY DEF pushFreeList, blockSize
  <1> HIDE DEF i, head, h1
  <1>5. Wrote(h2, h1, head, "previousInBucket", b)
    BY <1>1, <1>3, BucketLinkWrites DEF Flagged
  <1> HIDE DEF h2
  <1>6. asserted(h2, h2.blocks[b].previousInBucket = nullBlock, "pushFreeList") = h2
    <2>1. h2.blocks[b].previousInBucket = nullBlock
      BY <1>1, <1>3, <1>5 DEF Wrote, Flagged
    <2> QED
      BY <2>1 DEF asserted
  <1>7. Wrote(h3, h2, b, "nextInBucket", head)
    BY <1>1, <1>3, <1>5, BucketLinkWrites DEF Wrote, Flagged
  <1>8. pushFreeList(h, b) = h4
    BY <1>4, <1>6
  <1> HIDE DEF h3
  <1>9. Headed(h4, h3, i, b)
    BY <1>1, <1>2, <1>7, HeadWrite DEF Wrote
  <1> HIDE DEF h4
  <1>10. PutOnList(h4, h, b)
    BY <1>1, <1>3, <1>5, <1>7, <1>9 DEF PutOnList, Wrote, Flagged, Headed, i, head
  <1> QED
    BY <1>8, <1>9, <1>10 DEF Headed

(* g is h with the block b taken out of its free list. *)
TakenOffList(g, h, b) ==
    LET next == h.blocks[b].nextInBucket
        prev == h.blocks[b].previousInBucket
    IN  /\ DOMAIN g.blocks = DOMAIN h.blocks /\ g.failed = h.failed
        /\ \A o \in DOMAIN h.blocks :
              /\ g.blocks[o].size = h.blocks[o].size
              /\ g.blocks[o].previous = h.blocks[o].previous
              /\ g.blocks[o].free <=> o # b /\ h.blocks[o].free
              /\ g.blocks[o].nextInBucket =
                    IF o = b THEN nullBlock ELSE IF o = prev THEN next ELSE h.blocks[o].nextInBucket
              /\ g.blocks[o].previousInBucket =
                    IF o = b THEN nullBlock ELSE IF o = next THEN prev ELSE h.blocks[o].previousInBucket
        /\ \A j \in BucketIds :
              g.buckets[j] = IF prev = nullBlock /\ j = bucketId(h.blocks[b].size)
                             THEN next ELSE h.buckets[j]

(* removeFromFreeList is TakenOffList, also at the head and at the end of a list. *)
LEMMA RemoveTakes ==
    ASSUME NEW h \in Heaps, NEW b \in DOMAIN h.blocks,
           h.blocks[b].nextInBucket \in (DOMAIN h.blocks \cup {nullBlock}) \ {b},
           h.blocks[b].previousInBucket \in (DOMAIN h.blocks \cup {nullBlock}) \ {b}
    PROVE  removeFromFreeList(h, b) \in Heaps /\ TakenOffList(removeFromFreeList(h, b), h, b)
  <1> DEFINE i    == bucketId(h.blocks[b].size)
             next == h.blocks[b].nextInBucket
             prev == h.blocks[b].previousInBucket
             h1   == IF prev = nullBlock THEN [h EXCEPT !.buckets[i] = next]
                     ELSE blockSetNextInBucket(h, prev, next)
             h2   == blockSetPreviousInBucket(h1, next, prev)
             h3   == blockSetNextInBucket(h2, b, nullBlock)
             h4   == blockSetPreviousInBucket(h3, b, nullBlock)
             h5   == [h4 EXCEPT !.blocks[b].free = FALSE]
  <1>1. /\ next \in Links /\ prev \in Links /\ h.blocks[b].size \in 1 .. HeapSize
        /\ b # nullBlock /\ nullBlock \in Links /\ nullBlock \notin DOMAIN h.blocks
        /\ next \in DOMAIN h.blocks \cup {nullBlock} /\ prev \in DOMAIN h.blocks \cup {nullBlock}
    BY HeapShape DEF Headers
  <1>2. i \in BucketIds
    BY <1>1, BlockHasBucket
  <1>3. removeFromFreeList(h, b) = h5
    <2>1. \A g : blockSetNextInBucket(g, b, nullBlock) = [g EXCEPT !.blocks[b].nextInBucket = nullBlock]
      BY <1>1 DEF blockSetNextInBucket
    <2>2. \A g : blockSetPreviousInBucket(g, b, nullBlock) = [g EXCEPT !.blocks[b].previousInBucket = nullBlock]
      BY <1>1 DEF blockSetPreviousInBucket
    <2>3. removeFromFreeList(h, b) = [h2 EXCEPT !.blocks[b].nextInBucket = nullBlock,
                                               !.blocks[b].previousInBucket = nullBlock,
                                               !.blocks[b].free = FALSE]
      BY DEF removeFromFreeList, blockSize
    <2>4. h5 = [h4 EXCEPT !.blocks[b].free = FALSE]
      OBVIOUS
    <2> HIDE DEF h2
    <2> QED
      BY <2>1, <2>2, <2>3, <2>4
  <1> HIDE DEF i, next, prev
  <1>4. /\ h1 \in Heaps /\ DOMAIN h1.blocks = DOMAIN h.blocks /\ h1.failed = h.failed
        /\ \A j \in BucketIds :
              h1.buckets[j] = IF prev = nullBlock /\ j = i THEN next ELSE h.buckets[j]
        /\ \A o \in DOMAIN h.blocks :
              /\ h1.blocks[o].size = h.blocks[o].size
              /\ h1.blocks[o].free <=> h.blocks[o].free
              /\ h1.blocks[o].previous = h.blocks[o].previous
              /\ h1.blocks[o].nextInBucket = IF o = prev THEN next ELSE h.blocks[o].nextInBucket
              /\ h1.blocks[o].previousInBucket = h.blocks[o].previousInBucket
    <2>1. CASE prev = nullBlock
      <3>1. Headed([h EXCEPT !.buckets[i] = next], h, i, next)
        BY <1>1, <1>2, HeadWrite
      <3>2. Headed(h1, h, i, next)
        BY <2>1, <3>1
      <3> HIDE DEF h1
      <3> QED
        BY <1>1, <2>1, <3>2 DEF Headed
    <2>2. CASE prev # nullBlock
      <3>1. Wrote(h1, h, prev, "nextInBucket", next)
        BY <1>1, <2>2, BucketLinkWrites
      <3> HIDE DEF h1
      <3> QED
        BY <2>2, <3>1 DEF Wrote
    <2> QED
      BY <2>1, <2>2
  <1> HIDE DEF h1
  <1>5. Wrote(h2, h1, next, "previousInBucket", prev)
    BY <1>1, <1>4, BucketLinkWrites
  <1> HIDE DEF h2
  <1>6. Wrote(h3, h2, b, "nextInBucket", nullBlock)
    BY <1>1, <1>4, <1>5, BucketLinkWrites DEF Wrote
  <1> HIDE DEF h3
  <1>7. Wrote(h4, h3, b, "previousInBucket", nullBlock)
    <2>1. h3 \in Heaps /\ b \in DOMAIN h3.blocks \cup {nullBlock}
      BY <1>4, <1>5, <1>6 DEF Wrote
    <2> QED
      BY <1>1, <2>1, BucketLinkWrites
  <1> HIDE DEF h4
  <1>8. Flagged(h5, h4, b, FALSE)
    BY <1>4, <1>5, <1>6, <1>7, TakenFlag DEF Wrote
  <1> HIDE DEF h5
  <1>9. /\ h5 \in Heaps /\ DOMAIN h5.blocks = DOMAIN h.blocks /\ h5.failed = h.failed
        /\ h5.buckets = h1.buckets
    BY <1>4, <1>5, <1>6, <1>7, <1>8 DEF Wrote, Flagged
  <1>10. ASSUME NEW o \in DOMAIN h.blocks
         PROVE  /\ h5.blocks[o].size = h.blocks[o].size
                /\ h5.blocks[o].previous = h.blocks[o].previous
                /\ h5.blocks[o].free <=> o # b /\ h.blocks[o].free
                /\ h5.blocks[o].nextInBucket =
                     IF o = b THEN nullBlock ELSE IF o = prev THEN next ELSE h.blocks[o].nextInBucket
                /\ h5.blocks[o].previousInBucket =
                     IF o = b THEN nullBlock ELSE IF o = next THEN prev ELSE h.blocks[o].previousInBucket
    BY <1>1, <1>4, <1>5, <1>6, <1>7, <1>8 DEF Wrote, Flagged
  <1>11. TakenOffList(h5, h, b)
    BY <1>4, <1>9, <1>10 DEF TakenOffList, i, next, prev
  <1> QED
    BY <1>3, <1>9, <1>11

(* popBucket of the first block of a list is TakenOffList, and its assertion holds. *)
LEMMA PopTakes ==
    ASSUME NEW h \in Heaps, NEW i \in BucketIds, NEW b \in DOMAIN h.blocks, h.buckets[i] = b,
           bucketId(h.blocks[b].size) = i, h.blocks[b].previousInBucket = nullBlock,
           h.blocks[b].nextInBucket \in (DOMAIN h.blocks \cup {nullBlock}) \ {b}
    PROVE  popBucket(h, i) \in Heaps /\ TakenOffList(popBucket(h, i), h, b)
  <1> DEFINE next == h.blocks[b].nextInBucket
             h1   == blockSetPreviousInBucket(h, next, nullBlock)
             h2   == blockSetNextInBucket(h1, b, nullBlock)
             h3   == [h2 EXCEPT !.blocks[b].free = FALSE]
             h4   == [h3 EXCEPT !.buckets[i] = next]
  <1>1. /\ next \in Links /\ nullBlock \in Links /\ nullBlock \notin DOMAIN h.blocks /\ b # nullBlock
        /\ next \in DOMAIN h.blocks \cup {nullBlock}
    BY HeapShape DEF Headers
  <1> DEFINE checked == asserted(h2, h2.blocks[b].previousInBucket = nullBlock, "popBucket")
  <1>2. popBucket(h, i) = [checked EXCEPT !.blocks[b].free = FALSE, !.buckets[i] = next]
    BY DEF popBucket
  <1> HIDE DEF next
  <1>3. Wrote(h1, h, next, "previousInBucket", nullBlock)
    BY <1>1, BucketLinkWrites
  <1> HIDE DEF h1
  <1>4. Wrote(h2, h1, b, "nextInBucket", nullBlock)
    BY <1>1, <1>3, BucketLinkWrites DEF Wrote
  <1> HIDE DEF h2
  <1>5. /\ h2 \in Heaps /\ b \in DOMAIN h2.blocks
        /\ h2.blocks[b].previousInBucket = nullBlock
    BY <1>1, <1>3, <1>4 DEF Wrote
  <1>6. checked = h2
    BY <1>5 DEF asserted
  <1>7. popBucket(h, i) = h4
    BY <1>2, <1>6
  <1> HIDE DEF checked
  <1>8. Flagged(h3, h2, b, FALSE)
    BY <1>5, TakenFlag
  <1> HIDE DEF h3
  <1>9. Headed(h4, h3, i, next)
    BY <1>1, <1>8, HeadWrite DEF Flagged
  <1> HIDE DEF h4
  <1>10. /\ h4 \in Heaps /\ DOMAIN h4.blocks = DOMAIN h.blocks /\ h4.failed = h.failed
         /\ \A j \in BucketIds : h4.buckets[j] = IF j = i THEN next ELSE h.buckets[j]
    BY <1>3, <1>4, <1>8, <1>9 DEF Wrote, Flagged, Headed
  <1>11. ASSUME NEW o \in DOMAIN h.blocks
         PROVE  /\ h4.blocks[o].size = h.blocks[o].size
                /\ h4.blocks[o].previous = h.blocks[o].previous
                /\ h4.blocks[o].free <=> o # b /\ h.blocks[o].free
                /\ h4.blocks[o].nextInBucket = IF o = b THEN nullBlock ELSE h.blocks[o].nextInBucket
                /\ h4.blocks[o].previousInBucket =
                      IF o = next THEN nullBlock ELSE h.blocks[o].previousInBucket
    BY <1>1, <1>3, <1>4, <1>8, <1>9 DEF Wrote, Flagged, Headed
  <1>12. TakenOffList(h4, h, b)
    BY <1>1, <1>10, <1>11 DEF TakenOffList, next
  <1> QED
    BY <1>7, <1>10, <1>12

-----------------------------------------------------------------------------
(* The free lists. *)

Class(h, b) == bucketId(h.blocks[b].size)

(* The blocks of F, and no others, are in the list of their class, linked in
   both directions; following the links backwards ends, as rank decreases: without
   it a ring of free blocks that no head leads to would do. *)
Chained(h, F) ==
    LET next(b) == h.blocks[b].nextInBucket
        prev(b) == h.blocks[b].previousInBucket
    IN  /\ F \subseteq DOMAIN h.blocks
        /\ \A b \in DOMAIN h.blocks \ F : prev(b) = nullBlock
        /\ \A i \in BucketIds : h.buckets[i] # nullBlock =>
              h.buckets[i] \in F /\ prev(h.buckets[i]) = nullBlock /\ Class(h, h.buckets[i]) = i
        /\ \A b \in F :
              /\ prev(b) = nullBlock => h.buckets[Class(h, b)] = b
              /\ prev(b) # nullBlock =>
                    prev(b) \in F /\ next(prev(b)) = b /\ Class(h, prev(b)) = Class(h, b)
              /\ next(b) # nullBlock => next(b) \in F /\ prev(next(b)) = b
        /\ \E rank \in [Offsets -> Nat] :
              \A b \in F : prev(b) # nullBlock => rank[prev(b)] < rank[b]

(* The neighbours of a block in its list are other blocks. *)
LEMMA Neighbours ==
    ASSUME NEW h \in Heaps, NEW F, Chained(h, F), NEW b \in F
    PROVE  /\ h.blocks[b].nextInBucket \in (F \cup {nullBlock}) \ {b}
           /\ h.blocks[b].previousInBucket \in (F \cup {nullBlock}) \ {b}
           /\ b \in DOMAIN h.blocks /\ Class(h, b) \in BucketIds /\ nullBlock \notin F
  <1>1. b \in DOMAIN h.blocks /\ h.blocks[b] \in Headers /\ nullBlock \notin DOMAIN h.blocks /\ b \in Offsets
    BY HeapShape DEF Chained
  <1>2. PICK rank \in [Offsets -> Nat] :
           \A x \in F : h.blocks[x].previousInBucket # nullBlock => rank[h.blocks[x].previousInBucket] < rank[x]
    BY DEF Chained
  <1>3. Class(h, b) \in BucketIds
    BY <1>1, BlockHasBucket DEF Headers, Class
  <1>4. rank[b] \in Nat /\ ~(rank[b] < rank[b])
    BY <1>1
  <1>5. /\ h.blocks[b].nextInBucket # nullBlock =>
              /\ h.blocks[b].nextInBucket \in F
              /\ h.blocks[h.blocks[b].nextInBucket].previousInBucket = b
        /\ h.blocks[b].previousInBucket # nullBlock => h.blocks[b].previousInBucket \in F
        /\ F \subseteq DOMAIN h.blocks
    BY DEF Chained
  <1>6. h.blocks[b].previousInBucket # b
    BY <1>1, <1>2, <1>4
  <1> QED
    BY <1>1, <1>3, <1>5, <1>6

(* A push makes the list of the block one longer. *)
LEMMA PutKeepsChains ==
    ASSUME NEW h \in Heaps, NEW F, Chained(h, F), NEW b \in DOMAIN h.blocks \ F,
           NEW g \in Heaps, PutOnList(g, h, b)
    PROVE  Chained(g, F \cup {b})
  <1> DEFINE i    == Class(h, b)
             head == h.buckets[i]
             next(x) == h.blocks[x].nextInBucket
             prev(x) == h.blocks[x].previousInBucket
  <1>1. /\ F \subseteq DOMAIN h.blocks /\ F \subseteq Offsets /\ b \in Offsets
        /\ nullBlock \notin DOMAIN h.blocks
        /\ i \in BucketIds
    BY HeapShape, BlockHasBucket DEF Chained, Class, Headers
  <1>2. /\ DOMAIN g.blocks = DOMAIN h.blocks
        /\ \A x \in DOMAIN h.blocks :
              /\ Class(g, x) = Class(h, x)
              /\ g.blocks[x].nextInBucket = IF x = b THEN head ELSE next(x)
              /\ g.blocks[x].previousInBucket = IF x = head THEN b ELSE prev(x)
        /\ \A j \in BucketIds : g.buckets[j] = IF j = i THEN b ELSE h.buckets[j]
    BY DEF PutOnList, Class
  <1>3. head # nullBlock => head \in F /\ prev(head) = nullBlock /\ Class(h, head) = i
    BY <1>1 DEF Chained
  <1>4. prev(b) = nullBlock
    BY DEF Chained
  <1>5. \A x \in F : x \in DOMAIN h.blocks /\ Class(h, x) \in BucketIds /\ next(x) # x /\ prev(x) # x
    BY Neighbours
  <1>6. \A x \in F :
              /\ prev(x) = nullBlock => h.buckets[Class(h, x)] = x
              /\ prev(x) # nullBlock =>
                    prev(x) \in F /\ next(prev(x)) = x /\ Class(h, prev(x)) = Class(h, x)
              /\ next(x) # nullBlock => next(x) \in F /\ prev(next(x)) = x
    BY DEF Chained
  <1>7. \A x \in DOMAIN h.blocks \ F : prev(x) = nullBlock
    BY DEF Chained
  <1>8. \A j \in BucketIds : h.buckets[j] # nullBlock =>
              h.buckets[j] \in F /\ prev(h.buckets[j]) = nullBlock /\ Class(h, h.buckets[j]) = j
    BY DEF Chained
  <1>9. PICK rank \in [Offsets -> Nat] : \A x \in F : prev(x) # nullBlock => rank[prev(x)] < rank[x]
    BY DEF Chained
  <1> HIDE DEF i, head
  <1> DEFINE G     == F \cup {b}
             newer == [x \in Offsets |-> IF x = b THEN 0 ELSE rank[x] + 1]
  <1>10. newer \in [Offsets -> Nat]
    BY <1>9
  <1>11. ASSUME NEW x \in G, g.blocks[x].previousInBucket # nullBlock
         PROVE  newer[g.blocks[x].previousInBucket] < newer[x]
    <2>1. CASE x = head
      BY <1>1, <1>2, <1>3, <2>1
    <2>2. CASE x # head
      <3>1. x \in F /\ g.blocks[x].previousInBucket = prev(x) /\ prev(x) \in F
        BY <1>1, <1>2, <1>4, <1>6, <1>11, <2>2
      <3>2. newer[prev(x)] = rank[prev(x)] + 1 /\ newer[x] = rank[x] + 1
        BY <1>1, <3>1
      <3>3. rank[prev(x)] \in Nat /\ rank[x] \in Nat /\ rank[prev(x)] < rank[x]
        BY <1>1, <1>2, <1>9, <1>11, <3>1
      <3> QED
        BY <3>1, <3>2, <3>3
    <2> QED
      BY <2>1, <2>2
  <1> HIDE DEF newer
  <1>12. G \subseteq DOMAIN g.blocks /\ \A x \in DOMAIN g.blocks \ G : g.blocks[x].previousInBucket = nullBlock
    BY <1>1, <1>2, <1>3, <1>7
  <1>13. ASSUME NEW j \in BucketIds, g.buckets[j] # nullBlock
         PROVE  /\ g.buckets[j] \in G /\ g.blocks[g.buckets[j]].previousInBucket = nullBlock
                /\ Class(g, g.buckets[j]) = j
    <2>1. CASE j = i
      BY <1>1, <1>2, <1>3, <1>4, <2>1 DEF i
    <2>2. CASE j # i
      BY <1>1, <1>2, <1>3, <1>8, <1>13, <2>2
    <2> QED
      BY <2>1, <2>2
  <1>14. ASSUME NEW x \in G
         PROVE  /\ g.blocks[x].previousInBucket = nullBlock => g.buckets[Class(g, x)] = x
                /\ g.blocks[x].previousInBucket # nullBlock =>
                      /\ g.blocks[x].previousInBucket \in G
                      /\ g.blocks[g.blocks[x].previousInBucket].nextInBucket = x
                      /\ Class(g, g.blocks[x].previousInBucket) = Class(g, x)
                /\ g.blocks[x].nextInBucket # nullBlock =>
                      /\ g.blocks[x].nextInBucket \in G
                      /\ g.blocks[g.blocks[x].nextInBucket].previousInBucket = x
    <2>1. CASE x = b
      BY <1>1, <1>2, <1>3, <1>4, <2>1 DEF i
    <2>2. CASE x # b /\ x = head
      BY <1>1, <1>2, <1>3, <1>4, <1>5, <1>6, <2>2 DEF i
    <2>3. CASE x # b /\ x # head
      BY <1>1, <1>2, <1>3, <1>4, <1>5, <1>6, <2>3 DEF head
    <2> QED
      BY <2>1, <2>2, <2>3
  <1> QED
    BY <1>10, <1>11, <1>12, <1>13, <1>14 DEF Chained

(* Taking a block out of its list leaves its neighbours linked to each other. *)
LEMMA TakingKeepsChains ==
    ASSUME NEW h \in Heaps, NEW F, Chained(h, F), NEW b \in F,
           NEW g \in Heaps, TakenOffList(g, h, b)
    PROVE  Chained(g, F \ {b})
  <1> DEFINE next(x) == h.blocks[x].nextInBucket
             prev(x) == h.blocks[x].previousInBucket
             n == next(b)
             p == prev(b)
             i == Class(h, b)
  <1>1. /\ F \subseteq DOMAIN h.blocks /\ F \subseteq Offsets
        /\ nullBlock \notin DOMAIN h.blocks
    BY HeapShape DEF Chained
  <1>2. /\ DOMAIN g.blocks = DOMAIN h.blocks
        /\ \A x \in DOMAIN h.blocks :
              /\ Class(g, x) = Class(h, x)
              /\ g.blocks[x].nextInBucket = IF x = b THEN nullBlock ELSE IF x = p THEN n ELSE next(x)
              /\ g.blocks[x].previousInBucket = IF x = b THEN nullBlock ELSE IF x = n THEN p ELSE prev(x)
        /\ \A j \in BucketIds : g.buckets[j] = IF p = nullBlock /\ j = i THEN n ELSE h.buckets[j]
    BY DEF TakenOffList, Class
  <1>3. \A x \in F : x \in DOMAIN h.blocks /\ Class(h, x) \in BucketIds /\ next(x) # x /\ prev(x) # x
    BY Neighbours
  <1>4. \A x \in F :
              /\ prev(x) = nullBlock => h.buckets[Class(h, x)] = x
              /\ prev(x) # nullBlock =>
                    prev(x) \in F /\ next(prev(x)) = x /\ Class(h, prev(x)) = Class(h, x)
              /\ next(x) # nullBlock => next(x) \in F /\ prev(next(x)) = x
    BY DEF Chained
  <1>5. \A x \in DOMAIN h.blocks \ F : prev(x) = nullBlock
    BY DEF Chained
  <1>6. \A j \in BucketIds : h.buckets[j] # nullBlock =>
              h.buckets[j] \in F /\ prev(h.buckets[j]) = nullBlock /\ Class(h, h.buckets[j]) = j
    BY DEF Chained
  <1>7. PICK rank \in [Offsets -> Nat] : \A x \in F : prev(x) # nullBlock => rank[prev(x)] < rank[x]
    BY DEF Chained
  <1>8. /\ n # nullBlock => n \in F /\ prev(n) = b /\ n # b /\ Class(h, n) = i
        /\ p # nullBlock => p \in F /\ next(p) = b /\ p # b /\ Class(h, p) = i
        /\ p = nullBlock => h.buckets[i] = b
        /\ i \in BucketIds
    BY <1>1, <1>3, <1>4
  <1> HIDE DEF i, n, p
  <1> DEFINE G == F \ {b}
  <1>9. G \subseteq DOMAIN g.blocks /\ \A x \in DOMAIN g.blocks \ G : g.blocks[x].previousInBucket = nullBlock
    BY <1>1, <1>2, <1>5, <1>8
  <1>10. ASSUME NEW x \in G, g.blocks[x].previousInBucket # nullBlock
         PROVE  rank[g.blocks[x].previousInBucket] < rank[x]
    <2>1. CASE x = n
      <3>1. g.blocks[x].previousInBucket = p /\ p # nullBlock /\ p \in F /\ prev(x) = b /\ b # nullBlock
        BY <1>1, <1>2, <1>8, <1>10, <2>1
      <3>2. rank[p] < rank[b] /\ rank[b] < rank[x]
        BY <1>7, <3>1 DEF p
      <3>3. rank[p] \in Nat /\ rank[b] \in Nat /\ rank[x] \in Nat
        BY <1>1, <3>1
      <3> QED
        BY <3>1, <3>2, <3>3
    <2>2. CASE x # n
      BY <1>1, <1>2, <1>7, <1>10, <2>2
    <2> QED
      BY <2>1, <2>2
  <1>11. ASSUME NEW j \in BucketIds, g.buckets[j] # nullBlock
         PROVE  /\ g.buckets[j] \in G /\ g.blocks[g.buckets[j]].previousInBucket = nullBlock
                /\ Class(g, g.buckets[j]) = j
    <2>1. CASE p = nullBlock /\ j = i
      BY <1>1, <1>2, <1>8, <1>11, <2>1
    <2>2. CASE ~(p = nullBlock /\ j = i)
      <3>1. g.buckets[j] = h.buckets[j]
        BY <1>2, <2>2
      <3> DEFINE x == h.buckets[j]
      <3>2. x \in F /\ prev(x) = nullBlock /\ Class(h, x) = j
        BY <1>6, <1>11, <3>1
      <3>3. x # b
        BY <2>2, <3>2 DEF i, p
      <3>4. x # n
        BY <1>1, <1>8, <3>2
      <3> QED
        BY <1>1, <1>2, <3>1, <3>2, <3>3, <3>4
    <2> QED
      BY <2>1, <2>2
  <1>12. ASSUME NEW x \in G
         PROVE  /\ g.blocks[x].previousInBucket = nullBlock => g.buckets[Class(g, x)] = x
                /\ g.blocks[x].previousInBucket # nullBlock =>
                      /\ g.blocks[x].previousInBucket \in G
                      /\ g.blocks[g.blocks[x].previousInBucket].nextInBucket = x
                      /\ Class(g, g.blocks[x].previousInBucket) = Class(g, x)
                /\ g.blocks[x].nextInBucket # nullBlock =>
                      /\ g.blocks[x].nextInBucket \in G
                      /\ g.blocks[g.blocks[x].nextInBucket].previousInBucket = x
    <2>1. g.blocks[x].previousInBucket = nullBlock => g.buckets[Class(g, x)] = x
      BY <1>1, <1>2, <1>3, <1>4, <1>8
    <2>2. ASSUME g.blocks[x].previousInBucket # nullBlock
          PROVE  /\ g.blocks[x].previousInBucket \in G
                 /\ g.blocks[g.blocks[x].previousInBucket].nextInBucket = x
                 /\ Class(g, g.blocks[x].previousInBucket) = Class(g, x)
      <3>1. CASE x = n
        BY <1>1, <1>2, <1>8, <2>2, <3>1
      <3>2. CASE x # n
        <4>1. /\ g.blocks[x].previousInBucket = prev(x) /\ prev(x) \in F /\ next(prev(x)) = x
              /\ Class(h, prev(x)) = Class(h, x)
          BY <1>1, <1>2, <1>4, <2>2, <3>2
        <4>2. prev(x) # b /\ prev(x) # p
          BY <1>1, <1>8, <3>2, <4>1 DEF n
        <4> QED
          BY <1>1, <1>2, <4>1, <4>2
      <3> QED
        BY <3>1, <3>2
    <2>3. ASSUME g.blocks[x].nextInBucket # nullBlock
          PROVE  /\ g.blocks[x].nextInBucket \in G
                 /\ g.blocks[g.blocks[x].nextInBucket].previousInBucket = x
      <3>1. CASE x = p
        BY <1>1, <1>2, <1>8, <2>3, <3>1
      <3>2. CASE x # p
        <4>1. g.blocks[x].nextInBucket = next(x) /\ next(x) \in F /\ prev(next(x)) = x
          BY <1>1, <1>2, <1>4, <2>3, <3>2
        <4>2. next(x) # b /\ next(x) # n
          BY <1>1, <1>8, <3>2, <4>1 DEF p
        <4> QED
          BY <1>1, <1>2, <4>1, <4>2
      <3> QED
        BY <3>1, <3>2
    <2> QED
      BY <2>1, <2>2, <2>3
  <1> QED
    BY <1>7, <1>9, <1>10, <1>11, <1>12 DEF Chained

(* A list that is not empty has a head. *)
LEMMA SomeBucketIsUsed ==
    ASSUME NEW h \in Heaps, NEW F, Chained(h, F), F # {}
    PROVE  \E i \in BucketIds : h.buckets[i] # nullBlock
  <1> DEFINE prev(x) == h.blocks[x].previousInBucket
  <1>1. PICK rank \in [Offsets -> Nat] : \A x \in F : prev(x) # nullBlock => rank[prev(x)] < rank[x]
    BY DEF Chained
  <1>2. F \subseteq Offsets /\ F \subseteq DOMAIN h.blocks /\ nullBlock \notin F
    BY HeapShape DEF Chained
  <1> DEFINE R == {rank[x] : x \in F}
  <1>3. R \in SUBSET Nat /\ R # {}
    BY <1>2
  <1>4. PICK k \in R : \A j \in R : k <= j
    BY <1>3, LeastNatural
  <1>5. PICK b \in F : rank[b] = k
    BY <1>4
  <1>6. prev(b) = nullBlock
    <2> SUFFICES ASSUME prev(b) # nullBlock PROVE FALSE
      OBVIOUS
    <2>1. prev(b) \in F /\ rank[prev(b)] < rank[b]
      BY <1>1 DEF Chained
    <2>2. rank[prev(b)] \in R /\ rank[prev(b)] \in Nat /\ rank[b] \in Nat
      BY <1>2, <2>1
    <2> DEFINE c == prev(b)
    <2> HIDE DEF R, c
    <2>3. k <= rank[c]
      BY <1>4, <2>2 DEF c
    <2> QED
      BY <1>3, <1>4, <1>5, <2>1, <2>2, <2>3 DEF c
  <1>7. h.buckets[Class(h, b)] = b /\ Class(h, b) \in BucketIds
    BY <1>6, Neighbours DEF Chained
  <1> QED
    BY <1>2, <1>7

-----------------------------------------------------------------------------
(* The blocks from end to end. *)

(* Every block reaches the next one, and the one before it reaches it. *)
Tiles(h) ==
    LET blocks == DOMAIN h.blocks
    IN  /\ 0 \in blocks /\ h.blocks[0].previous = nullBlock
        /\ \A b \in blocks : blockNext(h, b) = HeapSize \/ blockNext(h, b) \in blocks
        /\ \A b, c \in blocks : b < c => blockNext(h, b) <= c
        /\ \A b \in blocks : ~lastBlock(h, b) => h.blocks[blockNext(h, b)].previous = b
        /\ \A b \in blocks : b # 0 => /\ h.blocks[b].previous \in blocks
                                      /\ blockNext(h, h.blocks[b].previous) = b

(* The arithmetic of a block. *)
LEMMA BlockSpan ==
    ASSUME NEW h \in Heaps, Tiles(h), NEW b \in DOMAIN h.blocks
    PROVE  /\ b \in Nat /\ b < HeapSize /\ blockSize(h, b) \in 1 .. HeapSize
           /\ blockSize(h, b) = h.blocks[b].size
           /\ blockNext(h, b) \in Nat /\ blockNext(h, b) = b + blockSize(h, b)
           /\ blockNext(h, b) <= HeapSize
  <1>1. b \in Offsets /\ h.blocks[b] \in Headers /\ HeapSize \in Nat /\ DOMAIN h.blocks \subseteq Offsets
    BY HeapShape, SizesAssumption
  <1>2. blockNext(h, b) = HeapSize \/ blockNext(h, b) \in Offsets
    BY <1>1 DEF Tiles
  <1> QED
    BY <1>1, <1>2 DEF blockNext, blockSize, Offsets, Headers

(* g is h with the last units of b, all but n, made a block of their own. *)
Carved(g, h, b, n) ==
    /\ DOMAIN g.blocks = DOMAIN h.blocks \cup {b + n}
    /\ g.buckets = h.buckets /\ g.failed = h.failed
    /\ \A o \in DOMAIN h.blocks :
          /\ g.blocks[o].size = IF o = b THEN n ELSE h.blocks[o].size
          /\ g.blocks[o].previous = IF o = blockNext(h, b) THEN b + n ELSE h.blocks[o].previous
          /\ g.blocks[o].free <=> h.blocks[o].free
          /\ g.blocks[o].nextInBucket = h.blocks[o].nextInBucket
          /\ g.blocks[o].previousInBucket = h.blocks[o].previousInBucket
    /\ g.blocks[b + n].size = blockSize(h, b) - n /\ g.blocks[b + n].free
    /\ g.blocks[b + n].previous = b
    /\ g.blocks[b + n].nextInBucket = nullBlock /\ g.blocks[b + n].previousInBucket = nullBlock

(* Split carves a block, which it then pushes. *)
LEMMA SplitCarves ==
    ASSUME NEW h \in Heaps, Tiles(h), NEW b \in DOMAIN h.blocks,
           NEW n \in Nat, 0 < n, n < blockSize(h, b)
    PROVE  /\ b + n \notin DOMAIN h.blocks
           /\ \E g \in Heaps : Carved(g, h, b, n) /\ Split(h, b, n) = pushFreeList(g, b + n)
  <1> DEFINE c    == b + n
             s    == blockSize(h, b) - n
             next == blockNext(h, b)
             h1   == blockSetPrevious(h, next, c)
             h2   == blockInit(h1, c, s, b)
             h3   == [h2 EXCEPT !.blocks[b].size = n]
  <1>1. /\ b \in Nat /\ blockSize(h, b) \in 1 .. HeapSize /\ blockSize(h, b) = h.blocks[b].size
        /\ next = b + blockSize(h, b) /\ next <= HeapSize /\ HeapSize \in Nat
    BY BlockSpan, SizesAssumption
  <1>2. c \in Offsets /\ s \in 1 .. HeapSize /\ n \in 1 .. HeapSize /\ b < c /\ c < next
    BY <1>1 DEF Offsets
  <1>3. c \notin DOMAIN h.blocks
    <2> SUFFICES ASSUME c \in DOMAIN h.blocks PROVE FALSE
      OBVIOUS
    <2>1. next <= c
      BY <1>2 DEF Tiles
    <2> QED
      BY <1>1, <1>2, <2>1
  <1>4. Split(h, b, n) = pushFreeList(h3, c)
    BY DEF Split
  <1> HIDE DEF next, c, s
  <1>5. /\ h1 \in Heaps /\ DOMAIN h1.blocks = DOMAIN h.blocks
        /\ h1.buckets = h.buckets /\ h1.failed = h.failed
        /\ \A o \in DOMAIN h.blocks :
              /\ h1.blocks[o].size = h.blocks[o].size
              /\ h1.blocks[o].previous = IF o = next THEN c ELSE h.blocks[o].previous
              /\ h1.blocks[o].free <=> h.blocks[o].free
              /\ h1.blocks[o].nextInBucket = h.blocks[o].nextInBucket
              /\ h1.blocks[o].previousInBucket = h.blocks[o].previousInBucket
    <2>1. CASE next \in DOMAIN h.blocks
      <3>1. Wrote(h1, h, next, "previous", c)
        <4>1. c <= next
          BY <1>1, <1>2 DEF Offsets
        <4>2. h1 = [h EXCEPT !.blocks[next].previous = c]
          BY <2>1, <4>1 DEF blockSetPrevious, asserted
        <4> QED
          BY <1>2, <2>1, <4>2, PreviousWrite DEF Links
      <3> HIDE DEF h1
      <3> QED
        BY <3>1 DEF Wrote
    <2>2. CASE next \notin DOMAIN h.blocks
      BY <2>2 DEF blockSetPrevious
    <2> QED
      BY <2>1, <2>2
  <1> HIDE DEF h1
  <1> DEFINE new == [size |-> s, free |-> TRUE, previous |-> b,
                     nextInBucket |-> nullBlock, previousInBucket |-> nullBlock]
             D == DOMAIN h.blocks \cup {c}
             f == [o \in D |-> IF o # c THEN h1.blocks[o] ELSE new]
  <1>6. new \in Headers
    BY <1>2, HeapShape DEF Headers, Links
  <1>7. /\ h1 = [blocks |-> h1.blocks, buckets |-> h1.buckets, failed |-> h1.failed]
        /\ h1.failed \in Outcomes
    BY <1>5 DEF Heaps
  <1>8. h2 = [blocks |-> f, buckets |-> h1.buckets, failed |-> h1.failed]
    <2>1. h2 = [h1 EXCEPT !.blocks = [o \in DOMAIN h1.blocks \cup {c} |->
                                       IF o # c THEN h1.blocks[o] ELSE new]]
      <3>1. b <= c
        BY <1>1, <1>2 DEF Offsets
      <3> QED
        BY <3>1 DEF blockInit, asserted
    <2>2. [o \in DOMAIN h1.blocks \cup {c} |-> IF o # c THEN h1.blocks[o] ELSE new] = f
      BY <1>5
    <2> HIDE DEF f, h2, new
    <2>3. h2 = [h1 EXCEPT !.blocks = f]
      BY <2>1, <2>2
    <2> QED
      BY <1>7, <2>3
  <1>9. f \in [D -> Headers] /\ D \in SUBSET Offsets
    BY <1>2, <1>5, <1>6, HeapShape
  <1>10. \A o \in D : f[o] = IF o # c THEN h1.blocks[o] ELSE new
    OBVIOUS
  <1>11. h1.buckets \in [BucketIds -> Links]
    BY <1>5, HeapShape
  <1> HIDE DEF f, h2, new
  <1>12. /\ h2 \in Heaps /\ DOMAIN h2.blocks = D
         /\ h2.blocks = f /\ h2.buckets = h1.buckets /\ h2.failed = h1.failed
    BY <1>7, <1>8, <1>9, <1>11, HeapBuilt
  <1>13. Wrote(h3, h2, b, "size", n)
    BY <1>2, <1>12, SizeWrite
  <1> HIDE DEF h3
  <1>14. h3 \in Heaps /\ DOMAIN h3.blocks = D /\ h3.buckets = h.buckets /\ h3.failed = h.failed
    BY <1>5, <1>12, <1>13 DEF Wrote
  <1>15. ASSUME NEW o \in DOMAIN h.blocks
         PROVE  /\ h3.blocks[o].size = IF o = b THEN n ELSE h.blocks[o].size
                /\ h3.blocks[o].previous = IF o = next THEN c ELSE h.blocks[o].previous
                /\ h3.blocks[o].free <=> h.blocks[o].free
                /\ h3.blocks[o].nextInBucket = h.blocks[o].nextInBucket
                /\ h3.blocks[o].previousInBucket = h.blocks[o].previousInBucket
    BY <1>3, <1>5, <1>10, <1>12, <1>13 DEF Wrote
  <1>16. /\ h3.blocks[c].size = s /\ h3.blocks[c].free /\ h3.blocks[c].previous = b
         /\ h3.blocks[c].nextInBucket = nullBlock /\ h3.blocks[c].previousInBucket = nullBlock
    <2>1. h2.blocks[c] = new /\ c # b /\ c \in DOMAIN h2.blocks
      BY <1>2, <1>1, <1>10, <1>12
    <2> QED
      BY <1>13, <2>1 DEF Wrote, new
  <1>17. Carved(h3, h, b, n)
    BY <1>14, <1>15, <1>16 DEF Carved, c, s, next
  <1>18. Split(h, b, n) = pushFreeList(h3, b + n)
    BY <1>4 DEF c
  <1> QED
    BY <1>3, <1>14, <1>17, <1>18 DEF c

(* g is h with the block next joined to the block b before it. *)
Absorbed(g, h, b, next) ==
    /\ DOMAIN g.blocks = DOMAIN h.blocks \ {next}
    /\ g.buckets = h.buckets /\ g.failed = h.failed
    /\ \A o \in DOMAIN g.blocks :
          /\ g.blocks[o].size = IF o = b THEN blockSize(h, b) + blockSize(h, next) ELSE h.blocks[o].size
          /\ g.blocks[o].previous = IF o = blockNext(h, next) THEN b ELSE h.blocks[o].previous
          /\ g.blocks[o].free <=> h.blocks[o].free
          /\ g.blocks[o].nextInBucket = h.blocks[o].nextInBucket
          /\ g.blocks[o].previousInBucket = h.blocks[o].previousInBucket

(* Absorb joins two blocks that lie side by side. *)
LEMMA AbsorbJoins ==
    ASSUME NEW h \in Heaps, Tiles(h), NEW b \in DOMAIN h.blocks, NEW next \in DOMAIN h.blocks,
           blockNext(h, b) = next
    PROVE  Absorb(h, b, next) \in Heaps /\ Absorbed(Absorb(h, b, next), h, b, next)
  <1> DEFINE after == blockNext(h, next)
             s     == blockSize(h, b) + blockSize(h, next)
             h1    == blockSetPrevious(h, after, b)
             h2    == [h1 EXCEPT !.blocks[b].size = s]
             D     == DOMAIN h.blocks \ {next}
             g     == Absorb(h, b, next)
  <1>1. /\ b \in Nat /\ next \in Nat /\ blockSize(h, b) \in 1 .. HeapSize /\ next = b + blockSize(h, b)
        /\ blockSize(h, next) \in 1 .. HeapSize /\ next + blockSize(h, next) <= HeapSize
        /\ HeapSize \in Nat /\ blockSize(h, b) = h.blocks[b].size
    BY BlockSpan, SizesAssumption
  <1>2. s \in 1 .. HeapSize /\ b # next /\ b \in Links
    BY <1>1, HeapShape DEF Links
  <1>3. /\ h1 \in Heaps /\ DOMAIN h1.blocks = DOMAIN h.blocks
        /\ h1.buckets = h.buckets /\ h1.failed = h.failed
        /\ \A o \in DOMAIN h.blocks :
              /\ h1.blocks[o].size = h.blocks[o].size
              /\ h1.blocks[o].previous = IF o = after THEN b ELSE h.blocks[o].previous
              /\ h1.blocks[o].free <=> h.blocks[o].free
              /\ h1.blocks[o].nextInBucket = h.blocks[o].nextInBucket
              /\ h1.blocks[o].previousInBucket = h.blocks[o].previousInBucket
    <2> HIDE DEF after
    <2>1. CASE after \in DOMAIN h.blocks
      <3>1. Wrote(h1, h, after, "previous", b)
        <4>1. b <= after
          BY <1>1 DEF after, blockNext
        <4>2. h1 = [h EXCEPT !.blocks[after].previous = b]
          BY <2>1, <4>1 DEF blockSetPrevious, asserted
        <4> QED
          BY <1>2, <2>1, <4>2, PreviousWrite
      <3> HIDE DEF h1
      <3> QED
        BY <3>1 DEF Wrote
    <2>2. CASE after \notin DOMAIN h.blocks
      BY <2>2 DEF blockSetPrevious
    <2> QED
      BY <2>1, <2>2
  <1>4. h1 \in Heaps /\ b \in DOMAIN h1.blocks
    BY <1>3
  <1>5. g = [h2 EXCEPT !.blocks = Restrict(h2.blocks, DOMAIN h2.blocks \ {next})]
    BY DEF Absorb
  <1> HIDE DEF h1, g
  <1>6. Wrote(h2, h1, b, "size", s)
    BY <1>2, <1>4, SizeWrite
  <1> HIDE DEF h2, s
  <1>7. h2 \in Heaps /\ DOMAIN h2.blocks = DOMAIN h.blocks /\ h2.buckets = h.buckets /\ h2.failed = h.failed
    BY <1>3, <1>6 DEF Wrote
  <1>8. /\ h2 = [blocks |-> h2.blocks, buckets |-> h2.buckets, failed |-> h2.failed]
        /\ h2.failed \in Outcomes /\ h2.buckets \in [BucketIds -> Links]
    BY <1>7, HeapShape DEF Heaps
  <1> DEFINE f == [o \in D |-> h2.blocks[o]]
  <1>9. Restrict(h2.blocks, DOMAIN h2.blocks \ {next}) = f
    BY <1>7 DEF Restrict
  <1>10. f \in [D -> Headers] /\ D \in SUBSET Offsets /\ \A o \in D : f[o] = h2.blocks[o]
    BY <1>7, HeapShape
  <1> HIDE DEF f
  <1>11. g = [blocks |-> f, buckets |-> h2.buckets, failed |-> h2.failed]
    BY <1>5, <1>8, <1>9
  <1>12. /\ g \in Heaps /\ DOMAIN g.blocks = D
         /\ g.blocks = f /\ g.buckets = h.buckets /\ g.failed = h.failed
    BY <1>7, <1>8, <1>10, <1>11, HeapBuilt
  <1>13. ASSUME NEW o \in D
         PROVE  /\ g.blocks[o].size = IF o = b THEN s ELSE h.blocks[o].size
                /\ g.blocks[o].previous = IF o = after THEN b ELSE h.blocks[o].previous
                /\ g.blocks[o].free <=> h.blocks[o].free
                /\ g.blocks[o].nextInBucket = h.blocks[o].nextInBucket
                /\ g.blocks[o].previousInBucket = h.blocks[o].previousInBucket
    <2> HIDE DEF after
    <2>1. g.blocks[o] = h2.blocks[o] /\ o \in DOMAIN h.blocks /\ o \in DOMAIN h1.blocks
      BY <1>3, <1>10, <1>12
    <2> QED
      BY <1>3, <1>6, <2>1 DEF Wrote
  <1>14. Absorbed(g, h, b, next)
    BY <1>12, <1>13 DEF Absorbed, s
  <1> QED
    BY <1>12, <1>14 DEF g

(* How blocks lie depends on sizes and back links only. *)
LEMMA TilesOnlyOfSizes ==
    ASSUME NEW h, NEW g, Tiles(h), DOMAIN g.blocks = DOMAIN h.blocks,
           \A o \in DOMAIN h.blocks : /\ g.blocks[o].size = h.blocks[o].size
                                      /\ g.blocks[o].previous = h.blocks[o].previous
    PROVE  Tiles(g)
  <1>1. \A o \in DOMAIN h.blocks : blockNext(g, o) = blockNext(h, o)
    BY DEF blockNext, blockSize
  <1>2. \A o \in DOMAIN h.blocks : blockNext(h, o) = HeapSize \/ blockNext(h, o) \in DOMAIN h.blocks
    BY DEF Tiles
  <1>3. \A o \in DOMAIN h.blocks : o # 0 => h.blocks[o].previous \in DOMAIN h.blocks
    BY DEF Tiles
  <1> QED
    BY <1>1, <1>2, <1>3 DEF Tiles, lastBlock

(* A block carved out of another leaves no gap. *)
LEMMA CarvedTiles ==
    ASSUME NEW h \in Heaps, Tiles(h), NEW b \in DOMAIN h.blocks,
           NEW n \in Nat, 0 < n, n < blockSize(h, b), b + n \notin DOMAIN h.blocks,
           NEW g \in Heaps, Carved(g, h, b, n)
    PROVE  Tiles(g)
  <1> DEFINE c == b + n
             D == DOMAIN h.blocks
             next == blockNext(h, b)
  <1>1. /\ b \in Nat /\ next \in Nat /\ next = b + blockSize(h, b) /\ blockSize(h, b) \in Nat
        /\ c \in Nat /\ b < c /\ c < next /\ next <= HeapSize /\ HeapSize \in Nat
        /\ c + (blockSize(h, b) - n) = next
    BY BlockSpan, SizesAssumption
  <1>2. \A x \in D : x \in Nat /\ blockNext(h, x) \in Nat /\ x < blockNext(h, x) /\ x < HeapSize
    BY BlockSpan
  <1>3. /\ 0 \in D /\ h.blocks[0].previous = nullBlock
        /\ \A x \in D : blockNext(h, x) = HeapSize \/ blockNext(h, x) \in D
        /\ \A x, y \in D : x < y => blockNext(h, x) <= y
        /\ \A x \in D : blockNext(h, x) # HeapSize => h.blocks[blockNext(h, x)].previous = x
        /\ \A x \in D : x # 0 => h.blocks[x].previous \in D /\ blockNext(h, h.blocks[x].previous) = x
    BY DEF Tiles, lastBlock
  <1>4. /\ DOMAIN g.blocks = D \cup {c} /\ g.blocks[c].previous = b
        /\ \A x \in D : g.blocks[x].previous = IF x = next THEN c ELSE h.blocks[x].previous
    BY DEF Carved
  <1>5. blockNext(g, b) = c
    BY DEF Carved, blockNext, blockSize
  <1>6. blockNext(g, c) = next
    BY <1>1 DEF Carved, blockNext, blockSize
  <1>7. \A x \in D : x # b => blockNext(g, x) = blockNext(h, x)
    BY DEF Carved, blockNext, blockSize
  <1> HIDE DEF c, D, next
  <1>8. g.blocks[0].previous = nullBlock
    BY <1>1, <1>2, <1>3, <1>4
  <1>9. \A x \in D \cup {c} : blockNext(g, x) = HeapSize \/ blockNext(g, x) \in D \cup {c}
    BY <1>3, <1>5, <1>6, <1>7 DEF next, D
  <1>10. b \in D /\ c \notin D /\ next = blockNext(h, b)
    BY DEF c, D, next
  <1>11. ASSUME NEW x \in D \cup {c}, NEW y \in D \cup {c}, x < y PROVE blockNext(g, x) <= y
    <2>1. CASE x = c
      <3>1. y \in D /\ y \in Nat /\ b < y
        BY <1>1, <1>2, <1>11, <2>1
      <3> QED
        BY <1>3, <1>6, <1>10, <2>1, <3>1
    <2>2. CASE x \in D /\ y \in D
      <3>1. blockNext(h, x) <= y /\ y \in Nat
        BY <1>2, <1>3, <1>11, <2>2
      <3>2. CASE x = b
        BY <1>1, <1>5, <1>10, <3>1, <3>2
      <3>3. CASE x # b
        BY <1>7, <2>2, <3>1, <3>3
      <3> QED
        BY <3>2, <3>3
    <2>3. CASE x \in D /\ y = c
      <3>1. CASE x = b
        BY <1>1, <1>5, <2>3, <3>1
      <3>2. CASE x # b
        <4>1. x \in Nat
          BY <1>2, <2>3
        <4>2. ~(b < x)
          <5>1. b < x => next <= x
            BY <1>3, <1>10, <2>3
          <5> QED
            BY <1>1, <1>11, <2>3, <4>1, <5>1
        <4>3. x < b
          BY <1>1, <3>2, <4>1, <4>2
        <4>4. blockNext(h, x) <= b /\ blockNext(h, x) \in Nat
          BY <1>2, <1>3, <1>10, <2>3, <4>3
        <4> QED
          BY <1>1, <1>7, <2>3, <3>2, <4>4
      <3> QED
        BY <3>1, <3>2
    <2> QED
      BY <2>1, <2>2, <2>3
  <1>12. ASSUME NEW x \in D \cup {c}, blockNext(g, x) # HeapSize
         PROVE  g.blocks[blockNext(g, x)].previous = x
    <2>1. CASE x = c
      BY <1>3, <1>4, <1>6, <1>10, <1>12, <2>1
    <2>2. CASE x = b
      BY <1>4, <1>5, <2>2
    <2>3. CASE x \in D /\ x # b
      <3>1. blockNext(g, x) = blockNext(h, x) /\ blockNext(h, x) \in D /\ h.blocks[blockNext(h, x)].previous = x
        BY <1>3, <1>7, <1>12, <2>3
      <3>2. blockNext(h, x) # next
        BY <1>3, <1>10, <1>12, <2>3, <3>1
      <3> QED
        BY <1>4, <3>1, <3>2
    <2> QED
      BY <2>1, <2>2, <2>3
  <1>13. ASSUME NEW x \in D \cup {c}, x # 0
         PROVE  g.blocks[x].previous \in D \cup {c} /\ blockNext(g, g.blocks[x].previous) = x
    <2>1. CASE x = c
      BY <1>4, <1>5, <1>10, <2>1
    <2>2. CASE x = next /\ x \in D
      BY <1>4, <1>6, <2>2
    <2>3. CASE x # next /\ x \in D
      <3>1. g.blocks[x].previous = h.blocks[x].previous
        BY <1>4, <2>3
      <3>2. h.blocks[x].previous \in D /\ blockNext(h, h.blocks[x].previous) = x
        BY <1>3, <1>13, <2>3
      <3>3. h.blocks[x].previous # b
        BY <1>10, <2>3, <3>2
      <3> QED
        BY <1>7, <3>1, <3>2, <3>3
    <2> QED
      BY <2>1, <2>2, <2>3
  <1> QED
    BY <1>3, <1>4, <1>8, <1>9, <1>11, <1>12, <1>13 DEF Tiles, lastBlock

(* Nor does a block that disappears into the one before it. *)
LEMMA AbsorbedTiles ==
    ASSUME NEW h \in Heaps, Tiles(h), NEW b \in DOMAIN h.blocks, NEW next \in DOMAIN h.blocks,
           blockNext(h, b) = next,
           NEW g \in Heaps, Absorbed(g, h, b, next)
    PROVE  Tiles(g)
  <1> DEFINE D == DOMAIN h.blocks
             after == blockNext(h, next)
             G == D \ {next}
  <1>1. /\ b \in Nat /\ next \in Nat /\ after \in Nat
        /\ b < next /\ next < after /\ after <= HeapSize /\ HeapSize \in Nat
        /\ b + (blockSize(h, b) + blockSize(h, next)) = after
    BY BlockSpan, SizesAssumption
  <1>2. \A x \in D : x \in Nat /\ blockNext(h, x) \in Nat /\ x < blockNext(h, x) /\ x < HeapSize
    BY BlockSpan
  <1>3. /\ 0 \in D /\ h.blocks[0].previous = nullBlock
        /\ \A x \in D : blockNext(h, x) = HeapSize \/ blockNext(h, x) \in D
        /\ \A x, y \in D : x < y => blockNext(h, x) <= y
        /\ \A x \in D : blockNext(h, x) # HeapSize => h.blocks[blockNext(h, x)].previous = x
        /\ \A x \in D : x # 0 => h.blocks[x].previous \in D /\ blockNext(h, h.blocks[x].previous) = x
    BY DEF Tiles, lastBlock
  <1>4. /\ DOMAIN g.blocks = G /\ b \in G /\ b \in D /\ next \in D
        /\ \A x \in G : g.blocks[x].previous = IF x = after THEN b ELSE h.blocks[x].previous
    BY <1>1 DEF Absorbed
  <1>5. blockNext(g, b) = after
    BY <1>1, <1>4 DEF Absorbed, blockNext, blockSize
  <1>6. \A x \in G : x # b => blockNext(g, x) = blockNext(h, x)
    BY <1>4 DEF Absorbed, blockNext, blockSize
  <1>7. after = blockNext(h, next) /\ next = blockNext(h, b)
    OBVIOUS
  <1> HIDE DEF D, after
  <1>8. 0 \in G /\ g.blocks[0].previous = nullBlock
    BY <1>1, <1>2, <1>3, <1>4
  <1>9. ASSUME NEW x \in G, x # b PROVE blockNext(h, x) # next
    BY <1>1, <1>2, <1>3, <1>4, <1>7, <1>9
  <1>10. ASSUME NEW x \in G PROVE blockNext(g, x) = HeapSize \/ blockNext(g, x) \in G
    <2>1. CASE x = b
      BY <1>1, <1>3, <1>4, <1>5, <1>7, <2>1
    <2>2. CASE x # b
      BY <1>3, <1>6, <1>9, <2>2
    <2> QED
      BY <2>1, <2>2
  <1>11. ASSUME NEW x \in G, NEW y \in G, x < y PROVE blockNext(g, x) <= y
    <2>1. CASE x = b
      <3>1. next <= y /\ y \in Nat /\ y # next
        BY <1>2, <1>3, <1>4, <1>7, <1>11, <2>1
      <3>2. next < y
        BY <1>1, <3>1
      <3> QED
        BY <1>3, <1>4, <1>5, <1>7, <2>1, <3>2
    <2>2. CASE x # b
      BY <1>3, <1>6, <1>11, <2>2
    <2> QED
      BY <2>1, <2>2
  <1>12. ASSUME NEW x \in G, blockNext(g, x) # HeapSize
         PROVE  g.blocks[blockNext(g, x)].previous = x
    <2>1. CASE x = b
      BY <1>4, <1>5, <1>10, <1>12, <2>1
    <2>2. CASE x # b
      <3>1. blockNext(g, x) = blockNext(h, x) /\ blockNext(h, x) \in G /\ h.blocks[blockNext(h, x)].previous = x
        BY <1>3, <1>6, <1>9, <1>10, <1>12, <2>2
      <3>2. blockNext(h, x) # after
        BY <1>3, <1>4, <1>7, <1>12, <3>1
      <3> QED
        BY <1>4, <3>1, <3>2
    <2> QED
      BY <2>1, <2>2
  <1>13. ASSUME NEW x \in G, x # 0
         PROVE  g.blocks[x].previous \in G /\ blockNext(g, g.blocks[x].previous) = x
    <2>1. CASE x = after
      BY <1>4, <1>5, <2>1
    <2>2. CASE x # after
      <3>1. g.blocks[x].previous = h.blocks[x].previous
        BY <1>4, <2>2
      <3>2. h.blocks[x].previous \in D /\ blockNext(h, h.blocks[x].previous) = x
        BY <1>3, <1>13
      <3>3. h.blocks[x].previous # b /\ h.blocks[x].previous # next
        BY <1>7, <2>2, <3>2
      <3> QED
        BY <1>6, <3>1, <3>2, <3>3
    <2> QED
      BY <2>1, <2>2
  <1> QED
    BY <1>4, <1>8, <1>10, <1>11, <1>12, <1>13 DEF Tiles, lastBlock

(* The lists are what they were if no block in them was touched. *)
LEMMA ChainsUntouched ==
    ASSUME NEW h \in Heaps, NEW g \in Heaps, NEW F, Chained(h, F),
           F \subseteq DOMAIN g.blocks, g.buckets = h.buckets,
           \A x \in F : /\ g.blocks[x].size = h.blocks[x].size
                        /\ g.blocks[x].nextInBucket = h.blocks[x].nextInBucket
                        /\ g.blocks[x].previousInBucket = h.blocks[x].previousInBucket,
           \A x \in DOMAIN g.blocks \ F : g.blocks[x].previousInBucket = nullBlock
    PROVE  Chained(g, F)
  <1>1. \A x \in F : Class(g, x) = Class(h, x)
    BY DEF Class
  <1>2. \A i \in BucketIds : h.buckets[i] # nullBlock =>
              /\ h.buckets[i] \in F /\ h.blocks[h.buckets[i]].previousInBucket = nullBlock
              /\ Class(h, h.buckets[i]) = i
    BY DEF Chained
  <1>3. \A b \in F :
              /\ h.blocks[b].previousInBucket = nullBlock => h.buckets[Class(h, b)] = b
              /\ h.blocks[b].previousInBucket # nullBlock =>
                    /\ h.blocks[b].previousInBucket \in F
                    /\ h.blocks[h.blocks[b].previousInBucket].nextInBucket = b
                    /\ Class(h, h.blocks[b].previousInBucket) = Class(h, b)
              /\ h.blocks[b].nextInBucket # nullBlock =>
                    /\ h.blocks[b].nextInBucket \in F
                    /\ h.blocks[h.blocks[b].nextInBucket].previousInBucket = b
    BY DEF Chained
  <1>4. PICK rank \in [Offsets -> Nat] : \A x \in F :
           h.blocks[x].previousInBucket # nullBlock => rank[h.blocks[x].previousInBucket] < rank[x]
    BY DEF Chained
  <1>5. \A x \in F : g.blocks[x].previousInBucket # nullBlock => rank[g.blocks[x].previousInBucket] < rank[x]
    BY <1>4
  <1>6. \A i \in BucketIds : g.buckets[i] # nullBlock =>
              /\ g.buckets[i] \in F /\ g.blocks[g.buckets[i]].previousInBucket = nullBlock
              /\ Class(g, g.buckets[i]) = i
    BY <1>1, <1>2
  <1>7. \A b \in F :
              /\ g.blocks[b].previousInBucket = nullBlock => g.buckets[Class(g, b)] = b
              /\ g.blocks[b].previousInBucket # nullBlock =>
                    /\ g.blocks[b].previousInBucket \in F
                    /\ g.blocks[g.blocks[b].previousInBucket].nextInBucket = b
                    /\ Class(g, g.blocks[b].previousInBucket) = Class(g, b)
              /\ g.blocks[b].nextInBucket # nullBlock =>
                    /\ g.blocks[b].nextInBucket \in F
                    /\ g.blocks[g.blocks[b].nextInBucket].previousInBucket = b
    BY <1>1, <1>3
  <1> QED
    BY <1>5, <1>6, <1>7 DEF Chained

-----------------------------------------------------------------------------
(* The procedures on a whole heap. *)

(* The free blocks are those of F. *)
WellFormed(h, F) ==
    /\ h \in Heaps
    /\ Tiles(h)
    /\ Chained(h, F)
    /\ \A b \in DOMAIN h.blocks : h.blocks[b].free <=> b \in F

SameSizes(g, h, S) ==
    g.failed = h.failed /\ \A o \in S : g.blocks[o].size = h.blocks[o].size

(* A block is freed: it joins F. *)
LEMMA Pushing ==
    ASSUME NEW h \in Heaps, NEW F, NEW b \in DOMAIN h.blocks, b \notin F, Tiles(h), Chained(h, F),
           \A o \in DOMAIN h.blocks : o # b => (h.blocks[o].free <=> o \in F)
    PROVE  /\ WellFormed(pushFreeList(h, b), F \cup {b})
           /\ DOMAIN pushFreeList(h, b).blocks = DOMAIN h.blocks
           /\ SameSizes(pushFreeList(h, b), h, DOMAIN h.blocks)
  <1> DEFINE g == pushFreeList(h, b)
             head == h.buckets[bucketId(h.blocks[b].size)]
  <1>1. h.blocks[b].previousInBucket = nullBlock
    BY DEF Chained
  <1>2. head \in (DOMAIN h.blocks \cup {nullBlock}) \ {b}
    <2>1. bucketId(h.blocks[b].size) \in BucketIds /\ nullBlock \notin DOMAIN h.blocks
      BY HeapShape, BlockHasBucket DEF Headers
    <2>2. head # nullBlock => head \in F /\ head \in DOMAIN h.blocks
      BY <2>1 DEF Chained
    <2> QED
      BY <2>1, <2>2
  <1>3. g \in Heaps /\ PutOnList(g, h, b)
    BY <1>1, <1>2, PushPuts
  <1> HIDE DEF g, head
  <1>4. Chained(g, F \cup {b})
    BY <1>3, PutKeepsChains
  <1>5. /\ DOMAIN g.blocks = DOMAIN h.blocks /\ g.failed = h.failed
        /\ \A o \in DOMAIN h.blocks :
              /\ g.blocks[o].size = h.blocks[o].size
              /\ g.blocks[o].previous = h.blocks[o].previous
              /\ g.blocks[o].free <=> o = b \/ h.blocks[o].free
    BY <1>3 DEF PutOnList
  <1>6. Tiles(g)
    BY <1>5, TilesOnlyOfSizes
  <1>7. WellFormed(g, F \cup {b}) /\ SameSizes(g, h, DOMAIN h.blocks)
    BY <1>3, <1>4, <1>5, <1>6 DEF WellFormed, SameSizes
  <1> QED
    BY <1>5, <1>7 DEF g

(* A block is taken off its list: it leaves F. *)
LEMMA Taking ==
    ASSUME NEW h, NEW F, WellFormed(h, F), NEW b \in F, NEW g \in Heaps, TakenOffList(g, h, b)
    PROVE  /\ WellFormed(g, F \ {b})
           /\ DOMAIN g.blocks = DOMAIN h.blocks
           /\ SameSizes(g, h, DOMAIN h.blocks)
           /\ \A o \in DOMAIN h.blocks : blockNext(g, o) = blockNext(h, o)
  <1>1. Chained(g, F \ {b})
    BY TakingKeepsChains DEF WellFormed
  <1>2. /\ DOMAIN g.blocks = DOMAIN h.blocks /\ g.failed = h.failed
        /\ \A o \in DOMAIN h.blocks :
              /\ g.blocks[o].size = h.blocks[o].size
              /\ g.blocks[o].previous = h.blocks[o].previous
              /\ g.blocks[o].free <=> o # b /\ h.blocks[o].free
    BY DEF TakenOffList
  <1>3. Tiles(g)
    BY <1>2, TilesOnlyOfSizes DEF WellFormed
  <1> QED
    BY <1>1, <1>2, <1>3 DEF WellFormed, SameSizes, blockNext, blockSize

(* The head of a list that is not empty is a free block of its class, and popBucket takes it. *)
LEMMA Popping ==
    ASSUME NEW h, NEW F, WellFormed(h, F), NEW i \in BucketIds, h.buckets[i] # nullBlock
    PROVE  /\ h.buckets[i] \in F /\ Class(h, h.buckets[i]) = i
           /\ popBucket(h, i) \in Heaps /\ TakenOffList(popBucket(h, i), h, h.buckets[i])
  <1> DEFINE b == h.buckets[i]
  <1>1. h \in Heaps /\ Chained(h, F)
    BY DEF WellFormed
  <1>2. b \in F /\ Class(h, b) = i /\ h.blocks[b].previousInBucket = nullBlock /\ F \subseteq DOMAIN h.blocks
    BY <1>1 DEF Chained
  <1>3. h.blocks[b].nextInBucket \in (DOMAIN h.blocks \cup {nullBlock}) \ {b}
    BY <1>1, <1>2, Neighbours
  <1> QED
    BY <1>1, <1>2, <1>3, PopTakes DEF Class

(* removeFromFreeList takes any block of F. *)
LEMMA Removing ==
    ASSUME NEW h, NEW F, WellFormed(h, F), NEW b \in F
    PROVE  removeFromFreeList(h, b) \in Heaps /\ TakenOffList(removeFromFreeList(h, b), h, b)
  <1>1. h \in Heaps /\ Chained(h, F) /\ F \subseteq DOMAIN h.blocks
    BY DEF WellFormed, Chained
  <1>2. /\ h.blocks[b].nextInBucket \in (DOMAIN h.blocks \cup {nullBlock}) \ {b}
        /\ h.blocks[b].previousInBucket \in (DOMAIN h.blocks \cup {nullBlock}) \ {b}
    BY <1>1, Neighbours
  <1> QED
    BY <1>1, <1>2, RemoveTakes

(* The rest of a block that is split is a new block of F. *)
LEMMA Splitting ==
    ASSUME NEW h, NEW F, WellFormed(h, F), NEW b \in DOMAIN h.blocks, b \notin F,
           NEW n \in Nat, 0 < n, n < blockSize(h, b)
    PROVE  LET g == Split(h, b, n)
           IN  /\ b + n \notin DOMAIN h.blocks /\ b + n # HeapSize
               /\ WellFormed(g, F \cup {b + n})
               /\ DOMAIN g.blocks = DOMAIN h.blocks \cup {b + n}
               /\ SameSizes(g, h, DOMAIN h.blocks \ {b})
               /\ g.blocks[b].size = n
               /\ blockNext(g, b + n) = blockNext(h, b)
  <1> DEFINE c == b + n
             D == DOMAIN h.blocks
  <1>1. h \in Heaps /\ Tiles(h) /\ Chained(h, F) /\ F \subseteq D
    BY DEF WellFormed, Chained
  <1>2. c \notin D /\ \E g \in Heaps : Carved(g, h, b, n) /\ Split(h, b, n) = pushFreeList(g, c)
    BY <1>1, SplitCarves
  <1>3. PICK g \in Heaps : Carved(g, h, b, n) /\ Split(h, b, n) = pushFreeList(g, c)
    BY <1>2
  <1>4. Tiles(g)
    BY <1>1, <1>2, <1>3, CarvedTiles
  <1>5. /\ DOMAIN g.blocks = D \cup {c} /\ g.buckets = h.buckets /\ g.failed = h.failed
        /\ \A o \in D :
              /\ o # b => g.blocks[o].size = h.blocks[o].size
              /\ g.blocks[o].free <=> h.blocks[o].free
              /\ g.blocks[o].nextInBucket = h.blocks[o].nextInBucket
              /\ g.blocks[o].previousInBucket = h.blocks[o].previousInBucket
        /\ g.blocks[b].size = n /\ g.blocks[c].size = blockSize(h, b) - n
        /\ g.blocks[c].previousInBucket = nullBlock
    BY <1>3 DEF Carved
  <1>6. Chained(g, F)
    <2>1. F \subseteq DOMAIN g.blocks
      BY <1>1, <1>5
    <2>2. \A x \in F : /\ g.blocks[x].size = h.blocks[x].size
                       /\ g.blocks[x].nextInBucket = h.blocks[x].nextInBucket
                       /\ g.blocks[x].previousInBucket = h.blocks[x].previousInBucket
      BY <1>1, <1>5
    <2>3. \A x \in D \ F : h.blocks[x].previousInBucket = nullBlock
      BY <1>1 DEF Chained
    <2>4. \A x \in DOMAIN g.blocks \ F : g.blocks[x].previousInBucket = nullBlock
      BY <1>5, <2>3
    <2> QED
      BY <1>1, <1>5, <2>1, <2>2, <2>4, ChainsUntouched
  <1>7. \A o \in DOMAIN g.blocks : o # c => (g.blocks[o].free <=> o \in F)
    BY <1>5 DEF WellFormed
  <1>8. c \in DOMAIN g.blocks /\ c \notin F
    BY <1>1, <1>2, <1>5
  <1> DEFINE k == pushFreeList(g, c)
  <1>9. WellFormed(k, F \cup {c}) /\ DOMAIN k.blocks = DOMAIN g.blocks /\ SameSizes(k, g, DOMAIN g.blocks)
    BY <1>4, <1>6, <1>7, <1>8, Pushing
  <1>10. k.blocks[b].size = n /\ SameSizes(k, h, D \ {b}) /\ k.blocks[c].size = blockSize(h, b) - n
    BY <1>5, <1>9 DEF SameSizes
  <1>11. c + (blockSize(h, b) - n) = blockNext(h, b) /\ c # HeapSize
    BY <1>1, BlockSpan
  <1>12. blockNext(k, c) = blockNext(h, b)
    BY <1>10, <1>11 DEF blockNext, blockSize
  <1> HIDE DEF k
  <1>13. Split(h, b, n) = k
    BY <1>3 DEF k
  <1> QED
    BY <1>2, <1>5, <1>9, <1>10, <1>11, <1>12, <1>13

(* Two blocks outside F become one. *)
LEMMA Absorbing ==
    ASSUME NEW h, NEW F, WellFormed(h, F),
           NEW b \in DOMAIN h.blocks, NEW next \in DOMAIN h.blocks, b \notin F, next \notin F,
           blockNext(h, b) = next
    PROVE  LET g == Absorb(h, b, next)
           IN  /\ WellFormed(g, F)
               /\ b # next
               /\ DOMAIN g.blocks = DOMAIN h.blocks \ {next}
               /\ SameSizes(g, h, DOMAIN h.blocks \ {b, next})
               /\ blockNext(g, b) = blockNext(h, next)
  <1> DEFINE g == Absorb(h, b, next)
  <1>1. h \in Heaps /\ Tiles(h) /\ Chained(h, F) /\ F \subseteq DOMAIN h.blocks
    BY DEF WellFormed, Chained
  <1>2. g \in Heaps /\ Absorbed(g, h, b, next)
    BY <1>1, AbsorbJoins
  <1> HIDE DEF g
  <1>3. Tiles(g)
    BY <1>1, <1>2, AbsorbedTiles
  <1>4. /\ DOMAIN g.blocks = DOMAIN h.blocks \ {next} /\ g.buckets = h.buckets /\ g.failed = h.failed
        /\ \A o \in DOMAIN g.blocks :
              /\ g.blocks[o].size = IF o = b THEN blockSize(h, b) + blockSize(h, next) ELSE h.blocks[o].size
              /\ g.blocks[o].free <=> h.blocks[o].free
              /\ g.blocks[o].nextInBucket = h.blocks[o].nextInBucket
              /\ g.blocks[o].previousInBucket = h.blocks[o].previousInBucket
    BY <1>2 DEF Absorbed
  <1>5. Chained(g, F)
    <2>1. \A x \in DOMAIN h.blocks \ F : h.blocks[x].previousInBucket = nullBlock
      BY <1>1 DEF Chained
    <2>2. \A x \in DOMAIN g.blocks \ F : g.blocks[x].previousInBucket = nullBlock
      BY <1>4, <2>1
    <2>3. /\ F \subseteq DOMAIN g.blocks
          /\ \A x \in F : /\ g.blocks[x].size = h.blocks[x].size
                          /\ g.blocks[x].nextInBucket = h.blocks[x].nextInBucket
                          /\ g.blocks[x].previousInBucket = h.blocks[x].previousInBucket
      BY <1>1, <1>4
    <2> QED
      BY <1>1, <1>2, <1>4, <2>2, <2>3, ChainsUntouched
  <1>6. WellFormed(g, F)
    BY <1>2, <1>3, <1>4, <1>5 DEF WellFormed
  <1>7. SameSizes(g, h, DOMAIN h.blocks \ {b, next})
    BY <1>4 DEF SameSizes
  <1>8. /\ b \in Nat /\ blockSize(h, b) \in Nat /\ blockSize(h, next) \in Nat /\ blockSize(h, b) # 0
        /\ next = b + blockSize(h, b) /\ blockNext(h, next) = next + blockSize(h, next)
    BY <1>1, BlockSpan
  <1>9. b # next /\ b + (blockSize(h, b) + blockSize(h, next)) = blockNext(h, next)
    BY <1>8
  <1>10. blockNext(g, b) = blockNext(h, next)
    BY <1>4, <1>9 DEF blockNext, blockSize
  <1> QED
    BY <1>4, <1>6, <1>7, <1>9, <1>10 DEF g

(* What removeFromFreeList does to a heap. *)
LEMMA RemovedKeeps ==
    ASSUME NEW h, NEW F, WellFormed(h, F), NEW p \in F
    PROVE  LET k == removeFromFreeList(h, p)
           IN  /\ WellFormed(k, F \ {p})
               /\ DOMAIN k.blocks = DOMAIN h.blocks
               /\ SameSizes(k, h, DOMAIN h.blocks)
               /\ \A o \in DOMAIN h.blocks : blockNext(k, o) = blockNext(h, o)
  <1> DEFINE k == removeFromFreeList(h, p)
  <1>1. k \in Heaps /\ TakenOffList(k, h, p)
    BY Removing
  <1> HIDE DEF k
  <1>2. /\ WellFormed(k, F \ {p}) /\ DOMAIN k.blocks = DOMAIN h.blocks
        /\ SameSizes(k, h, DOMAIN h.blocks)
        /\ \A o \in DOMAIN h.blocks : blockNext(k, o) = blockNext(h, o)
    BY <1>1, Taking
  <1> QED
    BY <1>2 DEF k

(* No two blocks of F lie side by side. *)
Apart(h, F) == \A b \in F : blockNext(h, b) \notin F

(* While b is being freed: the blocks are those of F in the lists, the ones the
   client keeps, and b, which has no block of F before it. *)
Freeing(h, F, H, b) ==
    /\ WellFormed(h, F) /\ Apart(h, F)
    /\ DOMAIN h.blocks = F \cup H \cup {b}
    /\ F \cap H = {} /\ b \notin F /\ b \notin H
    /\ \A x \in F : blockNext(h, x) # b

(* mergePrevious leaves a block with no free one before it ... *)
LEMMA MergedPrevious ==
    ASSUME NEW h, NEW F, NEW H, NEW b, WellFormed(h, F), Apart(h, F),
           DOMAIN h.blocks = F \cup H \cup {b}, F \cap H = {}, b \notin F, b \notin H
    PROVE  LET r == mergePrevious(h, b)
           IN  /\ \E G \in SUBSET F : Freeing(r.heap, G, H, r.block)
               /\ SameSizes(r.heap, h, H)
  <1> DEFINE r == mergePrevious(h, b)
             p == h.blocks[b].previous
  <1>1. /\ h \in Heaps /\ Tiles(h) /\ b \in DOMAIN h.blocks /\ F \subseteq DOMAIN h.blocks
        /\ WellFormed(h, F)
    BY DEF WellFormed, Chained
  <1>2. \A x \in F : x \in Nat /\ x < blockNext(h, x) /\ blockNext(h, x) \in Nat
    BY <1>1, BlockSpan
  <1>3. b # 0 => p \in DOMAIN h.blocks /\ blockNext(h, p) = b
    BY <1>1 DEF Tiles
  <1>4. \A x \in F : blockNext(h, x) = b => b # 0 /\ x = p
    BY <1>1, <1>2, BlockSpan DEF Tiles, lastBlock
  <1>5. CASE b = 0 \/ ~h.blocks[p].free
    <2>1. r = [heap |-> h, block |-> b]
      BY <1>5 DEF mergePrevious
    <2>2. \A x \in F : blockNext(h, x) # b
      BY <1>1, <1>4, <1>5 DEF WellFormed
    <2>3. Freeing(h, F, H, b)
      BY <2>2 DEF Freeing
    <2> QED
      BY <2>1, <2>3 DEF SameSizes
  <1>6. CASE ~(b = 0 \/ ~h.blocks[p].free)
    <2> DEFINE k == removeFromFreeList(h, p)
               g == Absorb(k, p, b)
               G == F \ {p}
    <2>1. r = [heap |-> g, block |-> p]
      BY <1>6 DEF mergePrevious
    <2>2. p \in F /\ p \in DOMAIN h.blocks /\ blockNext(h, p) = b
      BY <1>3, <1>6 DEF WellFormed
    <2>4. /\ WellFormed(k, G) /\ DOMAIN k.blocks = DOMAIN h.blocks
          /\ SameSizes(k, h, DOMAIN h.blocks)
          /\ \A o \in DOMAIN h.blocks : blockNext(k, o) = blockNext(h, o)
      <3>1. \A x \in F : LET y == removeFromFreeList(h, x)
                         IN  /\ WellFormed(y, F \ {x}) /\ DOMAIN y.blocks = DOMAIN h.blocks
                             /\ SameSizes(y, h, DOMAIN h.blocks)
                             /\ \A o \in DOMAIN h.blocks : blockNext(y, o) = blockNext(h, o)
        BY RemovedKeeps
      <3> HIDE DEF p
      <3> QED
        BY <2>2, <3>1
    <2> HIDE DEF k
    <2>5. p \in DOMAIN k.blocks /\ b \in DOMAIN k.blocks /\ p \notin G /\ b \notin G /\ blockNext(k, p) = b
      BY <1>1, <2>2, <2>4
    <2>6. /\ WellFormed(g, G) /\ p # b
          /\ DOMAIN g.blocks = DOMAIN k.blocks \ {b}
          /\ SameSizes(g, k, DOMAIN k.blocks \ {p, b})
      <3> HIDE DEF G
      <3> QED
        BY <2>4, <2>5, Absorbing
    <2> HIDE DEF g
    <2>7. SameSizes(g, h, DOMAIN h.blocks \ {p, b})
      BY <2>4, <2>6 DEF SameSizes
    <2>8. \A x \in G : x \in DOMAIN h.blocks \ {p, b}
      BY <1>1
    <2>9. \A x \in G : blockNext(g, x) = blockNext(h, x)
      BY <2>7, <2>8 DEF SameSizes, blockNext, blockSize
    <2>10. Apart(g, G)
      BY <2>9 DEF Apart
    <2>11. \A x \in G : blockNext(g, x) # p
      BY <2>2, <2>9 DEF Apart
    <2>12. DOMAIN g.blocks = G \cup H \cup {p} /\ G \cap H = {} /\ p \notin G /\ p \notin H
      BY <2>2, <2>4, <2>6
    <2>13. Freeing(g, G, H, p)
      BY <2>6, <2>10, <2>11, <2>12 DEF Freeing
    <2>14. SameSizes(g, h, H)
      BY <2>2, <2>7 DEF SameSizes
    <2>15. G \in SUBSET F
      OBVIOUS
    <2> QED
      BY <2>1, <2>13, <2>14, <2>15
  <1> QED
    BY <1>5, <1>6

(* ... and mergeNext none after it. *)
LEMMA MergedNext ==
    ASSUME NEW h, NEW F, NEW H, NEW b, Freeing(h, F, H, b)
    PROVE  LET g == mergeNext(h, b)
           IN  /\ \E G \in SUBSET F : Freeing(g, G, H, b) /\ blockNext(g, b) \notin G
               /\ SameSizes(g, h, H)
  <1> DEFINE n == blockNext(h, b)
             m == mergeNext(h, b)
  <1>1. /\ h \in Heaps /\ Tiles(h) /\ b \in DOMAIN h.blocks /\ F \subseteq DOMAIN h.blocks
        /\ WellFormed(h, F) /\ Apart(h, F)
    BY DEF WellFormed, Chained, Freeing
  <1>2. n = HeapSize \/ n \in DOMAIN h.blocks
    BY <1>1 DEF Tiles
  <1>3. HeapSize \notin DOMAIN h.blocks
    BY <1>1, HeapShape DEF nullBlock
  <1>4. CASE lastBlock(h, b) \/ ~h.blocks[n].free
    <2>1. m = h
      BY <1>4 DEF mergeNext
    <2>2. n \notin F
      BY <1>1, <1>3, <1>4 DEF lastBlock, WellFormed
    <2> QED
      BY <2>1, <2>2 DEF SameSizes
  <1>5. CASE ~(lastBlock(h, b) \/ ~h.blocks[n].free)
    <2> DEFINE k == removeFromFreeList(h, n)
               g == Absorb(k, b, n)
               G == F \ {n}
    <2>1. m = g
      BY <1>5 DEF mergeNext
    <2>2. n \in F /\ n \in DOMAIN h.blocks
      BY <1>1, <1>2, <1>5 DEF WellFormed, lastBlock
    <2>3. k \in Heaps /\ TakenOffList(k, h, n)
      BY <1>1, <2>2, Removing
    <2> HIDE DEF k
    <2>4. /\ WellFormed(k, G) /\ DOMAIN k.blocks = DOMAIN h.blocks
          /\ SameSizes(k, h, DOMAIN h.blocks)
          /\ \A o \in DOMAIN h.blocks : blockNext(k, o) = blockNext(h, o)
      <3> HIDE DEF n
      <3> QED
        BY <1>1, <2>2, <2>3, Taking
    <2>5. n \in DOMAIN k.blocks /\ b \in DOMAIN k.blocks /\ n \notin G /\ b \notin G /\ blockNext(k, b) = n
      BY <1>1, <2>2, <2>4 DEF Freeing
    <2> HIDE DEF n
    <2>6. /\ WellFormed(g, G) /\ b # n
          /\ DOMAIN g.blocks = DOMAIN k.blocks \ {n}
          /\ SameSizes(g, k, DOMAIN k.blocks \ {b, n})
          /\ blockNext(g, b) = blockNext(k, n)
      <3> HIDE DEF G
      <3>1. \A x, y \in DOMAIN k.blocks : x \notin G /\ y \notin G /\ blockNext(k, x) = y =>
              /\ WellFormed(Absorb(k, x, y), G) /\ x # y
              /\ DOMAIN Absorb(k, x, y).blocks = DOMAIN k.blocks \ {y}
              /\ SameSizes(Absorb(k, x, y), k, DOMAIN k.blocks \ {x, y})
              /\ blockNext(Absorb(k, x, y), x) = blockNext(k, y)
        BY <2>4, Absorbing
      <3> QED
        BY <2>5, <3>1
    <2> HIDE DEF g
    <2>7. SameSizes(g, h, DOMAIN h.blocks \ {b, n})
      BY <2>4, <2>6 DEF SameSizes
    <2>8. \A x \in G : x \in DOMAIN h.blocks \ {b, n}
      BY <1>1 DEF Freeing
    <2>9. \A x \in G : blockNext(g, x) = blockNext(h, x)
      BY <2>7, <2>8 DEF SameSizes, blockNext, blockSize
    <2>10. Apart(g, G)
      BY <1>1, <2>9 DEF Apart
    <2>11. \A x \in G : blockNext(g, x) # b
      BY <2>9 DEF Freeing
    <2>12. blockNext(g, b) \notin G
      BY <1>1, <2>2, <2>4, <2>6 DEF Apart
    <2>13. DOMAIN g.blocks = G \cup H \cup {b} /\ G \cap H = {} /\ b \notin G /\ b \notin H /\ n \notin H
      BY <2>2, <2>4, <2>6 DEF Freeing
    <2>14. Freeing(g, G, H, b)
      BY <2>6, <2>10, <2>11, <2>13 DEF Freeing
    <2>15. SameSizes(g, h, H)
      <3>1. H \subseteq DOMAIN h.blocks \ {b, n}
        BY <2>13 DEF Freeing
      <3> QED
        BY <2>7, <3>1 DEF SameSizes
    <2>16. G \in SUBSET F
      OBVIOUS
    <2> QED
      BY <2>1, <2>12, <2>14, <2>15, <2>16
  <1> QED
    BY <1>4, <1>5

-----------------------------------------------------------------------------
(* The inductive invariant. *)

FreeBlocks == DOMAIN heap.blocks \ held

(* The blocks the client does not hold are the free ones, linked in their lists,
   no two of them side by side; and no assertion has failed but the one that says
   that the heap is full. *)
HeapInv ==
    /\ WellFormed(heap, FreeBlocks) /\ Apart(heap, FreeBlocks)
    /\ held \subseteq DOMAIN heap.blocks /\ asked \in [held -> Requests]
    /\ AssertionsHold

(* freePaged keeps the invariant, and the sizes of what the client still holds. *)
LEMMA FreeKeepsHeap ==
    ASSUME HeapInv, NEW b \in held, Free(b)
    PROVE  /\ HeapInv'
           /\ SameSizes(heap', heap, held \ {b})
           /\ held' = held \ {b} /\ \A o \in held' : asked'[o] = asked[o]
  <1> DEFINE H == held \ {b}
             F == DOMAIN heap.blocks \ held
             r == mergePrevious(heap, b)
             m == mergeNext(r.heap, r.block)
             g == pushFreeList(m, r.block)
  <1>1. /\ WellFormed(heap, F) /\ Apart(heap, F) /\ held \subseteq DOMAIN heap.blocks
        /\ heap.failed = "none"
    BY DEF HeapInv, FreeBlocks, Free, Running
  <1>2. ~heap.blocks[b].free
    BY <1>1 DEF WellFormed
  <1>3. heap' = g /\ asked' = Restrict(asked, H)
    BY <1>2 DEF Free, asserted
  <1>18. held' = H /\ asked' \in [held' -> Requests] /\ \A o \in held' : asked'[o] = asked[o]
    <2>1. asked \in [held -> Requests] /\ H \subseteq held
      BY DEF HeapInv
    <2>2. held' = DOMAIN asked'
      BY DEF held
    <2> HIDE DEF H
    <2> QED
      BY <1>3, <2>1, <2>2 DEF Restrict
  <1>4. DOMAIN heap.blocks = F \cup H \cup {b} /\ F \cap H = {} /\ b \notin F /\ b \notin H
    BY <1>1
  <1> HIDE DEF F, H
  <1>5. /\ \E G \in SUBSET F : Freeing(r.heap, G, H, r.block)
        /\ SameSizes(r.heap, heap, H)
    BY <1>1, <1>4, MergedPrevious
  <1> HIDE DEF r
  <1>6. PICK F1 : Freeing(r.heap, F1, H, r.block)
    BY <1>5
  <1>7. /\ \E G \in SUBSET F1 : Freeing(m, G, H, r.block) /\ blockNext(m, r.block) \notin G
        /\ SameSizes(m, r.heap, H)
    BY <1>6, MergedNext
  <1> HIDE DEF m
  <1>8. PICK F2 : Freeing(m, F2, H, r.block) /\ blockNext(m, r.block) \notin F2
    BY <1>7
  <1> DEFINE c == r.block
             F3 == F2 \cup {c}
  <1> HIDE DEF c
  <1>9. /\ m \in Heaps /\ c \in DOMAIN m.blocks /\ c \notin F2 /\ Tiles(m) /\ Chained(m, F2)
        /\ \A o \in DOMAIN m.blocks : m.blocks[o].free <=> o \in F2
        /\ DOMAIN m.blocks = F2 \cup H \cup {c} /\ F2 \cap H = {} /\ c \notin H
        /\ Apart(m, F2) /\ \A x \in F2 : blockNext(m, x) # c
    BY <1>8 DEF Freeing, WellFormed, c
  <1>10. /\ WellFormed(g, F3) /\ DOMAIN g.blocks = DOMAIN m.blocks
         /\ SameSizes(g, m, DOMAIN m.blocks)
    BY <1>9, Pushing DEF c
  <1> HIDE DEF g
  <1>11. \A o \in DOMAIN m.blocks : blockNext(g, o) = blockNext(m, o)
    BY <1>10 DEF SameSizes, blockNext, blockSize
  <1>12. blockNext(m, c) # c
    <2>1. c \in Nat /\ blockSize(m, c) \in 1 .. HeapSize /\ blockNext(m, c) = c + blockSize(m, c)
      BY <1>9, BlockSpan
    <2> QED
      BY <2>1
  <1>13. Apart(g, F3)
    BY <1>8, <1>9, <1>11, <1>12 DEF Apart, c
  <1>14. DOMAIN g.blocks \ H = F3 /\ H \subseteq DOMAIN g.blocks
    BY <1>9, <1>10
  <1>15. SameSizes(g, heap, H)
    BY <1>5, <1>7, <1>9, <1>10 DEF SameSizes
  <1>16. g.failed = "none"
    BY <1>1, <1>15 DEF SameSizes
  <1>17. HeapInv'
    BY <1>3, <1>10, <1>13, <1>14, <1>16, <1>18 DEF HeapInv, FreeBlocks, AssertionsHold
  <1> QED
    BY <1>3, <1>15, <1>17, <1>18 DEF H

(* An allocated block was not held, is as large as asked for, and no larger than
   what is not worth splitting off. *)
LEMMA AllocateKeepsHeap ==
    ASSUME HeapInv, NEW n \in Requests, Allocate(n)
    PROVE  /\ HeapInv'
           /\ SameSizes(heap', heap, held)
           /\ \E b \in DOMAIN heap.blocks \ held :
                 /\ held' = held \cup {b}
                 /\ asked'[b] = n /\ \A o \in held : asked'[o] = asked[o]
                 /\ n + HeaderSize <= heap'.blocks[b].size
                 /\ heap'.blocks[b].size <= n + HeaderSize + (HeaderSize + Slack)
  <1> DEFINE F      == DOMAIN heap.blocks \ held
             size   == n + HeaderSize
             usable == Usable(heap, size)
             i      == CHOOSE j \in usable : \A k \in usable : j <= k
             b      == heap.buckets[i]
             popped == popBucket(heap, i)
  <1>1. /\ WellFormed(heap, F) /\ Apart(heap, F) /\ held \subseteq DOMAIN heap.blocks
        /\ heap.failed = "none" /\ heap \in Heaps /\ Tiles(heap)
    BY DEF HeapInv, FreeBlocks, Allocate, Running, WellFormed
  <1>2. n \in Nat /\ size \in Nat \ {0} /\ HeaderSize \in Nat /\ Slack \in Nat
    BY RequestsAssumption, SizesAssumption
  <1>3. usable # {}
    BY DEF Allocate
  <1>4. usable \in SUBSET Nat
    <2>1. HeapSize \in Nat \ {0}
      BY SizesAssumption
    <2>2. BucketIds \subseteq Nat
      BY <2>1, FloorLog DEF BucketIds
    <2> QED
      BY <2>2 DEF Usable
  <1>5. i \in usable
    <2> HIDE DEF usable
    <2>1. \E j \in usable : \A k \in usable : j <= k
      BY <1>3, <1>4, LeastNatural
    <2> QED
      BY <2>1
  <1>6. i \in BucketIds /\ i >= bucketId(higherPower2(size)) /\ b # nullBlock
    BY <1>5 DEF Usable
  <1>7. /\ heap' = LET p == asserted(popped, blockSize(heap, b) >= size, "splitBlock?")
                       s == IF splitBlock(p, b, size) THEN Split(p, b, size) ELSE p
                   IN  asserted(s, ~s.blocks[b].free, "allocatePaged")
        /\ asked' = [o \in held \cup {b} |-> IF o = b THEN n ELSE asked[o]]
    BY DEF Allocate
  <1> HIDE DEF F, i, usable, size
  <1>8. b \in F /\ Class(heap, b) = i /\ popped \in Heaps /\ TakenOffList(popped, heap, b)
    BY <1>1, <1>6, Popping
  <1> HIDE DEF b, popped
  <1>9. b \in DOMAIN heap.blocks /\ b \notin held
    BY <1>8 DEF F
  <1>16. /\ held' = held \cup {b} /\ asked' \in [held' -> Requests]
         /\ asked'[b] = n /\ \A o \in held : asked'[o] = asked[o]
    <2>1. asked \in [held -> Requests]
      BY DEF HeapInv
    <2>2. held' = DOMAIN asked'
      BY DEF held
    <2> QED
      BY <1>7, <1>9, <2>1, <2>2
  <1>10. blockSize(heap, b) >= size /\ blockSize(heap, b) \in Nat /\ blockSize(heap, b) = heap.blocks[b].size
    <2>1. blockSize(heap, b) \in Nat \ {0} /\ blockSize(heap, b) = heap.blocks[b].size
      BY <1>1, <1>9, BlockSpan
    <2> QED
      BY <1>2, <1>6, <1>8, <2>1, UsableIsLargeEnough DEF Class
  <1>11. heap' = LET s == IF splitBlock(popped, b, size) THEN Split(popped, b, size) ELSE popped
                 IN  asserted(s, ~s.blocks[b].free, "allocatePaged")
    <2>1. asserted(popped, blockSize(heap, b) >= size, "splitBlock?") = popped
      BY <1>10 DEF asserted
    <2> QED
      BY <1>7, <2>1
  <1>12. /\ WellFormed(popped, F \ {b}) /\ DOMAIN popped.blocks = DOMAIN heap.blocks
         /\ SameSizes(popped, heap, DOMAIN heap.blocks)
         /\ \A o \in DOMAIN heap.blocks : blockNext(popped, o) = blockNext(heap, o)
    BY <1>1, <1>8, Taking
  <1>13. popped.blocks[b].size = heap.blocks[b].size /\ blockSize(popped, b) = blockSize(heap, b)
    BY <1>9, <1>12 DEF SameSizes, blockSize
  <1>14. CASE ~splitBlock(popped, b, size)
    <2>10. b \in DOMAIN popped.blocks /\ b \notin F \ {b}
      BY <1>9, <1>12
    <2>11. ~popped.blocks[b].free
      BY <1>12, <2>10 DEF WellFormed
    <2>1. heap' = popped
      BY <1>11, <1>14, <2>11 DEF asserted
    <2>2. ~(blockSize(heap, b) - size > HeaderSize + Slack)
      BY <1>13, <1>14 DEF splitBlock
    <2>3. heap'.blocks[b].size <= size + (HeaderSize + Slack) /\ size <= heap'.blocks[b].size
      BY <1>2, <1>10, <1>13, <2>1, <2>2
    <2>4. DOMAIN heap'.blocks \ held' = F \ {b} /\ held' \subseteq DOMAIN heap'.blocks
      BY <1>1, <1>16, <1>9, <1>12, <2>1 DEF F
    <2>5. Apart(heap', F \ {b})
      BY <1>1, <1>12, <2>1 DEF Apart, F
    <2>6. SameSizes(heap', heap, held) /\ heap'.failed = "none"
      BY <1>1, <1>12, <2>1 DEF SameSizes
    <2>7. HeapInv'
      BY <1>12, <1>16, <2>1, <2>4, <2>5, <2>6 DEF HeapInv, FreeBlocks, AssertionsHold
    <2> QED
      BY <1>16, <1>9, <2>3, <2>6, <2>7 DEF size
  <1>15. CASE splitBlock(popped, b, size)
    <2> DEFINE c == b + size
               E == F \ {b}
               G == E \cup {c}
               s == Split(popped, b, size)
    <2>1. heap' = asserted(Split(popped, b, size), ~Split(popped, b, size).blocks[b].free, "allocatePaged")
      BY <1>11, <1>15
    <2>2. size \in Nat /\ 0 < size /\ size < blockSize(popped, b)
      BY <1>2, <1>10, <1>13, <1>15 DEF splitBlock
    <2>3. b \in DOMAIN popped.blocks /\ b \notin F \ {b}
      BY <1>9, <1>12
    <2>10. WellFormed(popped, E) /\ b \notin E /\ b \in DOMAIN popped.blocks
      BY <1>12, <2>3
    <2>11. /\ b + size \notin DOMAIN popped.blocks /\ b + size # HeapSize
           /\ WellFormed(s, E \cup {b + size})
           /\ DOMAIN s.blocks = DOMAIN popped.blocks \cup {b + size}
           /\ SameSizes(s, popped, DOMAIN popped.blocks \ {b})
           /\ s.blocks[b].size = size
           /\ blockNext(s, b + size) = blockNext(popped, b)
      <3> HIDE DEF E
      <3>1. \A x \in DOMAIN popped.blocks \ E : \A z \in Nat : 0 < z /\ z < blockSize(popped, x) =>
              LET y == Split(popped, x, z)
              IN  /\ x + z \notin DOMAIN popped.blocks /\ x + z # HeapSize
                  /\ WellFormed(y, E \cup {x + z})
                  /\ DOMAIN y.blocks = DOMAIN popped.blocks \cup {x + z}
                  /\ SameSizes(y, popped, DOMAIN popped.blocks \ {x})
                  /\ y.blocks[x].size = z
                  /\ blockNext(y, x + z) = blockNext(popped, x)
        BY <2>10, Splitting
      <3> QED
        BY <2>2, <2>10, <3>1
    <2> HIDE DEF s
    <2>13. b \in DOMAIN s.blocks /\ b \notin E \cup {b + size}
      BY <2>10, <2>11
    <2>14. ~s.blocks[b].free
      BY <2>11, <2>13 DEF WellFormed
    <2>12. heap' = s
      BY <2>1, <2>14 DEF s, asserted
    <2>4. /\ c \notin DOMAIN heap.blocks /\ c # HeapSize
          /\ WellFormed(heap', G)
          /\ DOMAIN heap'.blocks = DOMAIN heap.blocks \cup {c}
          /\ SameSizes(heap', popped, DOMAIN heap.blocks \ {b})
          /\ heap'.blocks[b].size = size
          /\ blockNext(heap', c) = blockNext(heap, b)
      BY <1>9, <1>12, <2>11, <2>12
    <2> HIDE DEF c
    <2>5. DOMAIN heap'.blocks \ held' = G /\ held' \subseteq DOMAIN heap'.blocks
      BY <1>1, <1>16, <1>9, <2>4 DEF F
    <2>6. ASSUME NEW x \in G PROVE blockNext(heap', x) \notin G
      <3>1. \A y \in DOMAIN heap.blocks : blockNext(heap, y) = HeapSize \/ blockNext(heap, y) \in DOMAIN heap.blocks
        BY <1>1 DEF Tiles
      <3>2. \A y \in F : blockNext(heap, y) # c /\ blockNext(heap, y) \notin F
        BY <1>1, <2>4, <3>1 DEF Apart, F
      <3>3. CASE x = c
        BY <1>8, <2>4, <3>2, <3>3
      <3>4. CASE x # c
        <4>1. x \in F /\ x # b /\ x \in DOMAIN heap.blocks
          BY <3>4 DEF F
        <4>2. blockNext(heap', x) = blockNext(heap, x)
          BY <1>12, <2>4, <4>1 DEF SameSizes, blockNext, blockSize
        <4> QED
          BY <3>2, <4>1, <4>2
      <3> QED
        BY <3>3, <3>4
    <2>7. SameSizes(heap', heap, held) /\ heap'.failed = "none"
      BY <1>1, <1>9, <1>12, <2>4 DEF SameSizes
    <2>8. HeapInv'
      <3>1. Apart(heap', G)
        BY <2>6 DEF Apart
      <3> QED
        BY <1>16, <2>4, <2>5, <2>7, <3>1 DEF HeapInv, FreeBlocks, AssertionsHold
    <2>9. size <= heap'.blocks[b].size /\ heap'.blocks[b].size <= size + (HeaderSize + Slack)
      BY <1>2, <2>4
    <2> QED
      BY <1>16, <1>9, <2>7, <2>8, <2>9 DEF size
  <1> QED
    BY <1>14, <1>15

(* The assertion that fails, and the next process, leave the heap as it is. *)
LEMMA FailureKeepsHeap ==
    ASSUME HeapInv, (\E n \in Requests : AllocateFails(n)) \/ Reopen
    PROVE  HeapInv' /\ asked' = asked /\ held' = held /\ heap'.blocks = heap.blocks
  <1>1. /\ heap \in Heaps /\ Tiles(heap) /\ Chained(heap, FreeBlocks) /\ Apart(heap, FreeBlocks)
        /\ \A b \in DOMAIN heap.blocks : heap.blocks[b].free <=> b \in FreeBlocks
    BY DEF HeapInv, WellFormed
  <1>2. PICK w \in {"none", "full"} : heap' = [heap EXCEPT !.failed = w] /\ asked' = asked
    BY DEF AllocateFails, Reopen
  <1>11. held' = held /\ asked \in [held -> Requests] /\ held \subseteq DOMAIN heap.blocks
    BY <1>2 DEF HeapInv, held
  <1>3. /\ heap = [blocks |-> heap.blocks, buckets |-> heap.buckets, failed |-> heap.failed]
        /\ heap.blocks \in [DOMAIN heap.blocks -> Headers] /\ heap.buckets \in [BucketIds -> Links]
        /\ DOMAIN heap.blocks \in SUBSET Offsets
    BY <1>1, HeapShape DEF Heaps
  <1>4. heap' = [blocks |-> heap.blocks, buckets |-> heap.buckets, failed |-> w] /\ w \in Outcomes
    <2>1. w \in Outcomes
      BY <1>2 DEF Outcomes
    <2> HIDE DEF Heaps
    <2>2. [heap EXCEPT !.failed = w] = [blocks |-> heap.blocks, buckets |-> heap.buckets, failed |-> w]
      BY <1>3
    <2> QED
      BY <1>2, <2>1, <2>2
  <1>5. heap' \in Heaps /\ heap'.blocks = heap.blocks /\ heap'.buckets = heap.buckets /\ heap'.failed = w
    BY <1>3, <1>4, HeapBuilt
  <1>6. Tiles(heap')
    BY <1>1, <1>5, TilesOnlyOfSizes
  <1>7. Chained(heap', FreeBlocks)
    <2>1. FreeBlocks \subseteq DOMAIN heap'.blocks
      BY <1>5 DEF FreeBlocks
    <2>2. \A x \in DOMAIN heap.blocks \ FreeBlocks : heap.blocks[x].previousInBucket = nullBlock
      BY <1>1 DEF Chained
    <2> QED
      BY <1>1, <1>5, <2>1, <2>2, ChainsUntouched
  <1>8. Apart(heap', FreeBlocks)
    BY <1>1, <1>5 DEF Apart, blockNext, blockSize
  <1>9. FreeBlocks' = FreeBlocks
    BY <1>11, <1>5 DEF FreeBlocks
  <1>10. HeapInv'
    BY <1>1, <1>2, <1>5, <1>6, <1>7, <1>8, <1>9, <1>11 DEF HeapInv, WellFormed, AssertionsHold
  <1> QED
    BY <1>2, <1>5, <1>10, <1>11

(* A new file holds one free block. *)
LEMMA NewFileIsWellFormed ==
    Init => HeapInv
  <1> SUFFICES ASSUME Init PROVE HeapInv
    OBVIOUS
  <1> DEFINE header == [size |-> HeapSize, free |-> TRUE, previous |-> nullBlock,
                        nextInBucket |-> nullBlock, previousInBucket |-> nullBlock]
             lists  == [i \in BucketIds |-> nullBlock]
             empty  == [blocks |-> [o \in {} |-> nullBlock], buckets |-> lists, failed |-> "none"]
             h      == blockInit(empty, 0, HeapSize, nullBlock)
  <1>1. HeapSize \in Nat \ {0} /\ 0 \in Offsets /\ nullBlock = HeapSize
    BY SizesAssumption DEF Offsets, nullBlock
  <1>2. header \in Headers /\ lists \in [BucketIds -> Links] /\ "none" \in Outcomes
    BY <1>1 DEF Headers, Links, Outcomes
  <1>3. header.size = HeapSize /\ header.previous = nullBlock /\ header.previousInBucket = nullBlock
    OBVIOUS
  <1>4. \A i \in BucketIds : lists[i] = nullBlock
    OBVIOUS
  <1>5. h = [blocks |-> [o \in {0} |-> header], buckets |-> lists, failed |-> "none"]
    <2> DEFINE of(D) == [o \in D |-> IF o # 0 THEN empty.blocks[o] ELSE header]
    <2>1. h = [empty EXCEPT !.blocks = [o \in DOMAIN empty.blocks \cup {0} |->
                                          IF o # 0 THEN empty.blocks[o] ELSE header]]
      BY DEF blockInit, asserted
    <2>2. DOMAIN empty.blocks \cup {0} = {0} /\ empty.buckets = lists /\ empty.failed = "none"
      OBVIOUS
    <2>3. of({0}) = [o \in {0} |-> header]
      OBVIOUS
    <2>4. \A x : [empty EXCEPT !.blocks = x] = [blocks |-> x, buckets |-> lists, failed |-> "none"]
      <3> HIDE DEF header, lists
      <3> QED
        OBVIOUS
    <2> HIDE DEF h, header, lists, empty
    <2>5. h = [empty EXCEPT !.blocks = of({0})]
      BY <2>1, <2>2
    <2> HIDE DEF of
    <2> QED
      BY <2>3, <2>4, <2>5
  <1>6. heap = pushFreeList(h, 0) /\ held = {} /\ asked \in [held -> Requests]
    BY DEF Init, NewFile, held
  <1> DEFINE f == [o \in {0} |-> header]
  <1>7. f \in [{0} -> Headers] /\ f[0] = header /\ {0} \in SUBSET Offsets
    BY <1>1, <1>2
  <1> HIDE DEF header, lists, h
  <1>8. h \in Heaps /\ DOMAIN h.blocks = {0} /\ h.blocks = f /\ h.buckets = lists /\ h.failed = "none"
    <2> HIDE DEF f
    <2> QED
      BY <1>2, <1>5, <1>7, HeapBuilt DEF f
  <1>9. h.blocks[0] = header
    BY <1>7, <1>8
  <1>10. 0 + HeapSize = HeapSize /\ blockNext(h, 0) = HeapSize /\ lastBlock(h, 0)
    BY <1>1, <1>3, <1>9 DEF blockNext, blockSize, lastBlock
  <1>11. Tiles(h)
    BY <1>1, <1>3, <1>8, <1>9, <1>10 DEF Tiles
  <1>12. Chained(h, {})
    <2>1. [o \in Offsets |-> 0] \in [Offsets -> Nat]
      OBVIOUS
    <2> QED
      BY <1>3, <1>4, <1>8, <1>9, <2>1 DEF Chained
  <1>13. /\ WellFormed(heap, {} \cup {0}) /\ DOMAIN heap.blocks = {0}
         /\ SameSizes(heap, h, {0})
    BY <1>6, <1>8, <1>11, <1>12, Pushing
  <1>14. FreeBlocks = {0} /\ {} \cup {0} = {0}
    BY <1>6, <1>13 DEF FreeBlocks
  <1>15. blockNext(heap, 0) # 0 /\ heap.failed = "none"
    BY <1>1, <1>8, <1>10, <1>13 DEF SameSizes, blockNext, blockSize
  <1> QED
    BY <1>6, <1>13, <1>14, <1>15 DEF HeapInv, Apart, AssertionsHold

-----------------------------------------------------------------------------
(* What the invariant says. *)

(* The invariant gives the types, *)
LEMMA HeapIsTyped ==
    HeapInv => TypeOK
  <1> SUFFICES ASSUME HeapInv PROVE TypeOK
    OBVIOUS
  <1>1. heap \in Heaps /\ held \subseteq DOMAIN heap.blocks /\ asked \in [held -> Requests]
    BY DEF HeapInv, WellFormed
  <1> QED
    BY <1>1, HeapShape DEF TypeOK, Headers

(* and all that HeapIsConsistent says. *)
LEMMA HeapAgrees ==
    HeapInv => HeapIsConsistent
  <1> SUFFICES ASSUME HeapInv PROVE HeapIsConsistent
    OBVIOUS
  <1>1. /\ heap \in Heaps /\ Tiles(heap) /\ Chained(heap, FreeBlocks) /\ Apart(heap, FreeBlocks)
        /\ \A b \in DOMAIN heap.blocks : heap.blocks[b].free <=> b \in FreeBlocks
        /\ held \subseteq DOMAIN heap.blocks /\ AssertionsHold
    BY DEF HeapInv, WellFormed
  <1>2. BlocksTileTheHeap
    <2>1. ASSUME NEW b \in DOMAIN heap.blocks, NEW c \in DOMAIN heap.blocks,
                 b < c, c < blockNext(heap, b)
          PROVE  FALSE
      <3>1. b \in Nat /\ c \in Nat /\ blockNext(heap, b) \in Nat
        BY <1>1, BlockSpan
      <3>2. blockNext(heap, b) <= c
        BY <1>1, <2>1 DEF Tiles
      <3> QED
        BY <2>1, <3>1, <3>2
    <2> QED
      BY <1>1, <2>1 DEF BlocksTileTheHeap, Tiles
  <1>3. FreeListsAreExact
    <2> DEFINE blocks == DOMAIN heap.blocks
               free    == {b \in blocks : heap.blocks[b].free}
               next(b) == heap.blocks[b].nextInBucket
               prev(b) == heap.blocks[b].previousInBucket
    <2>1. free = FreeBlocks /\ FreeBlocks = blocks \ held
      BY <1>1 DEF FreeBlocks
    <2>2. \A b \in free : ~lastBlock(heap, b) => blockNext(heap, b) \notin free
      BY <1>1, <2>1 DEF Apart
    <2>3. \A i \in BucketIds : heap.buckets[i] # nullBlock =>
              heap.buckets[i] \in free /\ prev(heap.buckets[i]) = nullBlock
      BY <1>1, <2>1 DEF Chained
    <2>4. ASSUME NEW b \in free
          PROVE  LET i == bucketId(blockSize(heap, b))
                 IN  /\ prev(b) = nullBlock => heap.buckets[i] = b
                     /\ prev(b) # nullBlock => /\ prev(b) \in free
                                               /\ next(prev(b)) = b
                                               /\ bucketId(blockSize(heap, prev(b))) = i
                     /\ next(b) # nullBlock => next(b) \in free /\ prev(next(b)) = b
      BY <1>1, <2>1, <2>4 DEF Chained, Class, blockSize
    <2>5. Cardinality(free) > 0 => \E i \in BucketIds : heap.buckets[i] # nullBlock
      <3>1. Cardinality({}) = 0
        BY FS_EmptySet
      <3>2. Cardinality(free) > 0 => free # {}
        BY <3>1
      <3> HIDE DEF free
      <3> QED
        BY <1>1, <2>1, <3>2, SomeBucketIsUsed
    <2> QED
      BY <2>1, <2>2, <2>3, <2>4, <2>5 DEF FreeListsAreExact
  <1> QED
    BY <1>1, <1>2, <1>3 DEF HeapIsConsistent

(* Every step keeps the invariant. *)
LEMMA HeapInvHolds ==
    Spec => []HeapInv
  <1>1. HeapInv /\ [Next]_vars => HeapInv'
    <2> SUFFICES ASSUME HeapInv, [Next]_vars PROVE HeapInv'
      OBVIOUS
    <2>1. ASSUME NEW n \in Requests, Allocate(n) PROVE HeapInv'
      BY <2>1, AllocateKeepsHeap
    <2>2. ASSUME NEW n \in Requests, AllocateFails(n) PROVE HeapInv'
      BY <2>2, FailureKeepsHeap
    <2>3. ASSUME NEW b \in held, Free(b) PROVE HeapInv'
      BY <2>3, FreeKeepsHeap
    <2>4. CASE Reopen
      BY <2>4, FailureKeepsHeap
    <2>5. CASE UNCHANGED vars
      BY <2>5 DEF vars, HeapInv, FreeBlocks, AssertionsHold, held
    <2> QED
      BY <2>1, <2>2, <2>3, <2>4, <2>5 DEF Next
  <1> QED
    BY NewFileIsWellFormed, <1>1, PTL DEF Spec

(* Headers, heads of lists and the client's blocks keep their types through    *)
(* every call of allocatePaged and freePaged, in a heap of any size.           *)
THEOREM AllocatorTypeOK == Spec => []TypeOK
  BY HeapInvHolds, HeapIsTyped, PTL

(* Whatever the sizes of the heap, of a header and of the requests, and in     *)
(* whatever order blocks are allocated and freed: the blocks tile the heap,    *)
(* exactly the free ones are in the lists, each in the list of its size, no    *)
(* two of them lie side by side, and only the assertion that says the heap is  *)
(* full can fail.                                                              *)
THEOREM AllocatorHeapIsConsistent == Spec => []HeapIsConsistent
  BY HeapInvHolds, HeapAgrees, PTL

-----------------------------------------------------------------------------
(* The promise to the client. *)

(* The client begins with nothing. *)
LEMMA RegionsAtFirst == Init => Promise!Init
  BY DEF Init, Promise!Init, ClientRegions, held

(* Blocks the client holds do not overlap. *)
LEMMA BlocksDoNotOverlap ==
    ASSUME NEW h \in Heaps, Tiles(h), NEW b \in DOMAIN h.blocks, NEW c \in DOMAIN h.blocks, b # c
    PROVE  (b .. (b + blockSize(h, b) - 1)) \cap (c .. (c + blockSize(h, c) - 1)) = {}
  <1>1. /\ b \in Nat /\ c \in Nat /\ blockSize(h, b) \in Nat /\ blockSize(h, c) \in Nat
        /\ blockNext(h, b) = b + blockSize(h, b) /\ blockNext(h, c) = c + blockSize(h, c)
    BY BlockSpan
  <1>2. (b < c => blockNext(h, b) <= c) /\ (c < b => blockNext(h, c) <= b)
    BY DEF Tiles
  <1> QED
    BY <1>1, <1>2

(* The region of a block of heap h for which n[b] units were asked, and all those
   of the blocks in H. *)
Region(h, n, b)  == [at |-> b, length |-> h.blocks[b].size, asked |-> n[b]]
RegionsOf(h, n, H) == {Region(h, n, b) : b \in H}

(* A region is told from others by where it begins. *)
LEMMA RegionFields ==
    ASSUME NEW h, NEW n, NEW b
    PROVE  /\ Region(h, n, b).at = b /\ Region(h, n, b).length = h.blocks[b].size
           /\ Region(h, n, b).asked = n[b]
  BY DEF Region

(* Regions of the same blocks and sizes, asked for alike, are the same. *)
LEMMA RegionsStay ==
    ASSUME NEW h, NEW g, NEW n, NEW m, NEW H,
           SameSizes(g, h, H), \A b \in H : m[b] = n[b]
    PROVE  RegionsOf(g, m, H) = RegionsOf(h, n, H)
  <1>1. \A b \in H : Region(g, m, b) = Region(h, n, b)
    BY DEF SameSizes, Region
  <1> HIDE DEF Region
  <1> QED
    BY <1>1 DEF RegionsOf

(* allocatePaged is an Allocate of Regions, *)
LEMMA AllocateKeepsPromise ==
    ASSUME HeapInv, NEW n \in Requests, Allocate(n)
    PROVE  Promise!Allocate
  <1>1. HeapInv' /\ SameSizes(heap', heap, held)
    BY AllocateKeepsHeap
  <1>2. PICK b \in DOMAIN heap.blocks \ held :
              /\ held' = held \cup {b}
              /\ asked'[b] = n /\ \A o \in held : asked'[o] = asked[o]
              /\ n + HeaderSize <= heap'.blocks[b].size
              /\ heap'.blocks[b].size <= n + HeaderSize + (HeaderSize + Slack)
    BY AllocateKeepsHeap
  <1>3. heap' \in Heaps /\ Tiles(heap') /\ held' \subseteq DOMAIN heap'.blocks
    BY <1>1 DEF HeapInv, WellFormed
  <1> DEFINE r == Region(heap', asked', b)
  <1>4. /\ ClientRegions = RegionsOf(heap, asked, held)
        /\ ClientRegions' = RegionsOf(heap', asked', held')
    BY DEF ClientRegions, RegionsOf, Region, blockSize
  <1>5. ClientRegions' = ClientRegions \cup {r}
    <2>1. RegionsOf(heap', asked', held) = RegionsOf(heap, asked, held)
      BY <1>1, <1>2, RegionsStay
    <2>2. RegionsOf(heap', asked', held') = RegionsOf(heap', asked', held) \cup {r}
      BY <1>2 DEF RegionsOf
    <2> QED
      BY <1>4, <2>1, <2>2
  <1>6. r.at = b /\ r.length = heap'.blocks[b].size /\ r.asked = n
    BY <1>2, RegionFields
  <1>7. r \notin ClientRegions
    BY <1>2, <1>4, <1>6 DEF RegionsOf, Region
  <1>8. r.at + r.length <= HeapSize
    BY <1>2, <1>3, <1>6, BlockSpan
  <1>9. ASSUME NEW other \in ClientRegions PROVE Promise!Units(r) \cap Promise!Units(other) = {}
    <2>1. PICK c \in held : other = Region(heap, asked, c)
      BY <1>4 DEF RegionsOf
    <2>2. c # b /\ c \in DOMAIN heap'.blocks /\ b \in DOMAIN heap'.blocks
      BY <1>2, <1>3
    <2>3. other.at = c /\ other.length = heap'.blocks[c].size
      BY <1>1, <2>1, RegionFields DEF SameSizes
    <2>4. (b .. (b + blockSize(heap', b) - 1)) \cap (c .. (c + blockSize(heap', c) - 1)) = {}
      BY <1>3, <2>2, BlocksDoNotOverlap
    <2> QED
      BY <1>6, <2>3, <2>4 DEF Promise!Units, blockSize
  <1>10. /\ r.asked \in Requests /\ r.asked + HeaderSize <= r.length
         /\ r.length <= r.asked + HeaderSize + (HeaderSize + Slack)
    BY <1>2, <1>6
  <1> HIDE DEF r
  <1> QED
    BY <1>5, <1>7, <1>8, <1>9, <1>10 DEF Promise!Allocate

(* freePaged is its Free, *)
LEMMA FreeKeepsPromise ==
    ASSUME HeapInv, NEW b \in held, Free(b)
    PROVE  Promise!Free
  <1>1. /\ SameSizes(heap', heap, held \ {b})
        /\ held' = held \ {b} /\ \A o \in held' : asked'[o] = asked[o]
    BY FreeKeepsHeap
  <1> DEFINE r == Region(heap, asked, b)
  <1>2. /\ ClientRegions = RegionsOf(heap, asked, held)
        /\ ClientRegions' = RegionsOf(heap', asked', held')
    BY DEF ClientRegions, RegionsOf, Region, blockSize
  <1>3. RegionsOf(heap', asked', held') = RegionsOf(heap, asked, held \ {b})
    BY <1>1, RegionsStay
  <1>4. RegionsOf(heap, asked, held \ {b}) = RegionsOf(heap, asked, held) \ {r}
    <2>1. \A c \in held \ {b} : Region(heap, asked, c) # r
      <3>1. \A c : Region(heap, asked, c).at = c
        BY RegionFields
      <3> QED
        BY <3>1
    <2> HIDE DEF r
    <2>2. \A c \in held : Region(heap, asked, c) # r => c \in held \ {b}
      BY DEF r
    <2> QED
      BY <2>1, <2>2 DEF RegionsOf
  <1>5. r \in ClientRegions
    BY <1>2 DEF RegionsOf
  <1> HIDE DEF r
  <1> QED
    BY <1>2, <1>3, <1>4, <1>5 DEF Promise!Free

(* and every other step leaves the client's regions alone. *)
LEMMA StepsKeepPromise ==
    HeapInv /\ [Next]_vars => [Promise!Next]_ClientRegions
  <1> SUFFICES ASSUME HeapInv, [Next]_vars PROVE Promise!Next \/ UNCHANGED ClientRegions
    OBVIOUS
  <1>1. ASSUME NEW n \in Requests, Allocate(n) PROVE Promise!Next
    BY <1>1, AllocateKeepsPromise DEF Promise!Next
  <1>2. ASSUME NEW b \in held, Free(b) PROVE Promise!Next
    BY <1>2, FreeKeepsPromise DEF Promise!Next
  <1>3. CASE (\E n \in Requests : AllocateFails(n)) \/ Reopen
    BY <1>3, FailureKeepsHeap DEF ClientRegions, blockSize
  <1>4. CASE UNCHANGED vars
    BY <1>4 DEF vars, ClientRegions, held
  <1> QED
    BY <1>1, <1>2, <1>3, <1>4 DEF Next

(* The allocator implements Regions, in a heap of any size: a block handed out *)
(* overlaps no block the client holds, has room for what was asked and wastes  *)
(* no more than splitBlock? leaves, and no later call moves or shrinks it.     *)
THEOREM AllocatorImplementsRegions == Spec => ImplementsRegions
  BY HeapInvHolds, RegionsAtFirst, StepsKeepPromise, PTL DEF Spec, ImplementsRegions, Promise!Spec
=============================================================================
