--------------------------- MODULE PagedAllocator ---------------------------
(***************************************************************************)
(* The heap in a memory-mapped file of lib-ceramic/paged/allocator:        *)
(* blocks laid end to end, each with a header that knows its size, the     *)
(* block before it and, while it is free, its neighbours in a list of free *)
(* blocks of about its size.  Offsets and sizes are in units of 16 bytes,  *)
(* to which allocatePaged aligns every block.                              *)
(*                                                                         *)
(* A heap h is [blocks, buckets, failed]: the headers by offset, the heads *)
(* of the free lists, and the assertion that has failed, if any.  Each     *)
(* operator below is a procedure of the source and gives the heap after it.*)
(***************************************************************************)
EXTENDS Naturals, FiniteSets, Sequences, Functions

CONSTANTS
    HeapSize,   \* dataEnd - dataBegin
    HeaderSize, \* TypeSize(Header)
    Slack,      \* how much more than a header splitBlock? leaves behind
    Requests    \* the sizes a client asks for

ASSUME SizesAssumption == /\ HeapSize \in Nat /\ HeaderSize \in Nat /\ Slack \in Nat
                          /\ HeaderSize > 0 /\ HeapSize > HeaderSize + Slack
ASSUME RequestsAssumption == Requests \subseteq Nat

VARIABLES
    heap,
    asked   \* the units asked for, by the offset of a block not freed yet

vars == <<heap, asked>>

(* The blocks the client has.                                              *)
held == DOMAIN asked

nullBlock == HeapSize

Offsets == 0 .. (HeapSize - 1)

Links == Offsets \cup {nullBlock}

(* The powers of two, as the loops of paged.misc reach them by doubling.    *)
pow2[i \in Nat] == IF i = 0 THEN 1 ELSE 2 * pow2[i - 1]

floorLog2(n) == CHOOSE i \in 0 .. n : pow2[i] <= n /\ n < pow2[i + 1]

higherPower2(n) == CHOOSE p \in {pow2[i] : i \in 0 .. n} : p >= n /\ (p = 1 \/ p \div 2 < n)

BucketIds == 0 .. floorLog2(HeapSize)

-----------------------------------------------------------------------------
(* Headers.                                                                *)

blockSize(h, b) == h.blocks[b].size
blockNext(h, b) == b + blockSize(h, b)

lastBlock(h, b) == blockNext(h, b) = HeapSize

asserted(h, holds, what) == IF holds \/ h.failed # "none" THEN h ELSE [h EXCEPT !.failed = what]

(* The headers named by null links and by the end of the heap are not      *)
(* there: the source tests for both before it writes.                      *)
blockSetPrevious(h, b, previous) ==
    IF b \in DOMAIN h.blocks
    THEN [asserted(h, previous = nullBlock \/ previous <= b, "blockSetPrevious")
             EXCEPT !.blocks[b].previous = previous]
    ELSE h

blockSetNextInBucket(h, b, next) ==
    IF b = nullBlock THEN h ELSE [h EXCEPT !.blocks[b].nextInBucket = next]

blockSetPreviousInBucket(h, b, previous) ==
    IF b = nullBlock THEN h ELSE [h EXCEPT !.blocks[b].previousInBucket = previous]

(* Writes every field of a header, whatever the memory held before.        *)
blockInit(h, b, size, previous) ==
    [asserted(h, previous = nullBlock \/ previous <= b, "blockSetPrevious") EXCEPT !.blocks =
        [o \in DOMAIN @ \cup {b} |->
            IF o # b THEN @[o]
            ELSE [size |-> size, free |-> TRUE, previous |-> previous,
                  nextInBucket |-> nullBlock, previousInBucket |-> nullBlock]]]

-----------------------------------------------------------------------------
(* Free lists.                                                             *)

bucketId(size) == floorLog2(size)

pushFreeList(h, b) ==
    LET i       == bucketId(blockSize(h, b))
        head    == h.buckets[i]
        linked  == blockSetPreviousInBucket([h EXCEPT !.blocks[b].free = TRUE], head, b)
        checked == asserted(linked, linked.blocks[b].previousInBucket = nullBlock, "pushFreeList")
    IN  [blockSetNextInBucket(checked, b, head) EXCEPT !.buckets[i] = b]

popBucket(h, i) ==
    LET b        == h.buckets[i]
        newHead  == h.blocks[b].nextInBucket
        unlinked == blockSetNextInBucket(blockSetPreviousInBucket(h, newHead, nullBlock),
                                         b, nullBlock)
        checked  == asserted(unlinked, unlinked.blocks[b].previousInBucket = nullBlock, "popBucket")
    IN  [checked EXCEPT !.blocks[b].free = FALSE, !.buckets[i] = newHead]

(* Mutant: the search begins at the list the size itself belongs to.       *)
UsableFromOwnBucket(h, minSize) ==
    {i \in BucketIds : i >= bucketId(minSize) /\ h.buckets[i] # nullBlock}

(* The buckets popFreeList finds something in, searched from the first     *)
(* one whose blocks are all large enough.                                  *)
Usable(h, minSize) ==
    {i \in BucketIds : i >= bucketId(higherPower2(minSize)) /\ h.buckets[i] # nullBlock}

(* Mutant: the head of a list is not moved past the block that leaves it.  *)
removeFromFreeListKeepsHead(h, b) ==
    LET next == h.blocks[b].nextInBucket
        prev == h.blocks[b].previousInBucket
    IN  [blockSetPreviousInBucket(blockSetNextInBucket(h, prev, next), next, prev)
            EXCEPT !.blocks[b].nextInBucket = nullBlock,
                   !.blocks[b].previousInBucket = nullBlock,
                   !.blocks[b].free = FALSE]

removeFromFreeList(h, b) ==
    LET next     == h.blocks[b].nextInBucket
        prev     == h.blocks[b].previousInBucket
        unlinked == IF prev = nullBlock THEN [h EXCEPT !.buckets[bucketId(blockSize(h, b))] = next]
                    ELSE blockSetNextInBucket(h, prev, next)
        closed   == blockSetPreviousInBucket(unlinked, next, prev)
    IN  [closed EXCEPT !.blocks[b].nextInBucket = nullBlock,
                       !.blocks[b].previousInBucket = nullBlock,
                       !.blocks[b].free = FALSE]

-----------------------------------------------------------------------------
(* Splitting and merging.                                                  *)

(* The last n units of a block become a free block of their own.           *)
Split(h, b, n) ==
    LET next == blockSetPrevious(h, blockNext(h, b), b + n)
        rest == blockInit(next, b + n, blockSize(h, b) - n, b)
    IN  pushFreeList([rest EXCEPT !.blocks[b].size = n], b + n)

(* Mutant: a block is split only when more than half of it would be left.  *)
splitBlockInHalf(h, b, n) == blockSize(h, b) - n > n

splitBlock(h, b, n) == blockSize(h, b) - n > HeaderSize + Slack

(* A block disappears into the one before it.                              *)
Absorb(h, b, next) ==
    LET closed == blockSetPrevious(h, blockNext(h, next), b)
        joined == [closed EXCEPT !.blocks[b].size = blockSize(h, b) + blockSize(h, next)]
    IN  [joined EXCEPT !.blocks = Restrict(joined.blocks, DOMAIN joined.blocks \ {next})]

mergePrevious(h, b) ==
    LET prev == h.blocks[b].previous
    IN  IF b = 0 \/ ~h.blocks[prev].free THEN [heap |-> h, block |-> b]
        ELSE [heap |-> Absorb(removeFromFreeList(h, prev), prev, b), block |-> prev]

(* Mutant: the next block is taken whether it is free or not.              *)
mergeNextAlways(h, b) ==
    LET next == blockNext(h, b)
    IN  IF lastBlock(h, b) THEN h ELSE Absorb(removeFromFreeList(h, next), b, next)

mergeNext(h, b) ==
    LET next == blockNext(h, b)
    IN  IF lastBlock(h, b) \/ ~h.blocks[next].free THEN h
        ELSE Absorb(removeFromFreeList(h, next), b, next)

-----------------------------------------------------------------------------
(* initNewFile: the buckets are empty, one block spans the heap.           *)
NewFile == pushFreeList(blockInit([blocks  |-> [o \in {} |-> nullBlock],
                                   buckets |-> [i \in BucketIds |-> nullBlock],
                                   failed  |-> "none"],
                                  0, HeapSize, nullBlock),
                        0)

Init == heap = NewFile /\ asked = [b \in {} |-> 0]

Running == heap.failed = "none"

(* allocatePaged of n units; the client keeps the block's offset.          *)
Allocate(n) ==
    /\ Running
    /\ LET size   == n + HeaderSize
           usable == Usable(heap, size)
       IN  /\ usable # {}
           /\ LET i      == CHOOSE i \in usable : \A j \in usable : i <= j
                  b      == heap.buckets[i]
                  popped == asserted(popBucket(heap, i), blockSize(heap, b) >= size, "splitBlock?")
                  split  == IF splitBlock(popped, b, size) THEN Split(popped, b, size) ELSE popped
              IN  /\ heap' = asserted(split, ~split.blocks[b].free, "allocatePaged")
                  /\ asked' = [o \in held \cup {b} |-> IF o = b THEN n ELSE asked[o]]

(* No bucket has a block: an assertion in allocatePaged ends the program.  *)
AllocateFails(n) ==
    /\ Running
    /\ Usable(heap, n + HeaderSize) = {}
    /\ heap' = [heap EXCEPT !.failed = "full"]
    /\ UNCHANGED asked

(* freePaged of a block the client holds.                                  *)
Free(b) ==
    /\ Running
    /\ b \in held
    /\ LET checked == asserted(heap, ~heap.blocks[b].free, "freePaged")
           merged  == mergePrevious(checked, b)
       IN  heap' = pushFreeList(mergeNext(merged.heap, merged.block), merged.block)
    /\ asked' = Restrict(asked, held \ {b})

(* initializePaging by the next process finds the file as it was left.     *)
Reopen ==
    /\ heap.failed = "full"
    /\ heap' = [heap EXCEPT !.failed = "none"]
    /\ UNCHANGED asked

Next == \/ \E n \in Requests : Allocate(n) \/ AllocateFails(n)
        \/ \E b \in held : Free(b)
        \/ Reopen

Spec == Init /\ [][Next]_vars

-----------------------------------------------------------------------------
(* Headers and heads have their types, and the client holds blocks.        *)
TypeOK ==
    /\ DOMAIN heap.blocks \subseteq Offsets
    /\ \A b \in DOMAIN heap.blocks :
          heap.blocks[b] \in [size : 1 .. HeapSize, free : BOOLEAN, previous : Links,
                              nextInBucket : Links, previousInBucket : Links]
    /\ heap.buckets \in [BucketIds -> Links]
    /\ held \subseteq DOMAIN heap.blocks /\ asked \in [held -> Requests]

(* The blocks cover the heap without gap or overlap, every block is        *)
(* reached from the one before it, and its previous link leads back.       *)
BlocksTileTheHeap ==
    LET blocks == DOMAIN heap.blocks
    IN  /\ 0 \in blocks /\ heap.blocks[0].previous = nullBlock
        /\ \A b \in blocks :
              /\ blockNext(heap, b) = HeapSize \/ blockNext(heap, b) \in blocks
              /\ ~\E c \in blocks : b < c /\ c < blockNext(heap, b)
              /\ ~lastBlock(heap, b) => heap.blocks[blockNext(heap, b)].previous = b

(* A block is free exactly when the client does not hold it, two free      *)
(* blocks never lie side by side (freePaged has merged them), and each     *)
(* free block is in the list of its size class, linked in both directions. *)
FreeListsAreExact ==
    LET blocks  == DOMAIN heap.blocks
        free    == {b \in blocks : heap.blocks[b].free}
        next(b) == heap.blocks[b].nextInBucket
        prev(b) == heap.blocks[b].previousInBucket
    IN  /\ free = blocks \ held
        /\ \A b \in free : ~lastBlock(heap, b) => blockNext(heap, b) \notin free
        /\ \A i \in BucketIds : heap.buckets[i] # nullBlock =>
              heap.buckets[i] \in free /\ prev(heap.buckets[i]) = nullBlock
        /\ \A b \in free :
              LET i == bucketId(blockSize(heap, b))
              IN  /\ prev(b) = nullBlock => heap.buckets[i] = b
                  /\ prev(b) # nullBlock => /\ prev(b) \in free
                                            /\ next(prev(b)) = b
                                            /\ bucketId(blockSize(heap, prev(b))) = i
                  /\ next(b) # nullBlock => next(b) \in free /\ prev(next(b)) = b
        /\ Cardinality(free) > 0 => \E i \in BucketIds : heap.buckets[i] # nullBlock

(* The only assertion of the allocator that can fail is the one that says  *)
(* there is no block for a request.                                        *)
AssertionsHold == heap.failed \in {"none", "full"}

(* The headers, the lists and the assertions about them agree after every  *)
(* call.                                                                   *)
HeapIsConsistent == BlocksTileTheHeap /\ FreeListsAreExact /\ AssertionsHold

(* The client's view: what it holds are disjoint regions of the heap, each *)
(* with room for the units asked for it and its header, and not for much   *)
(* more (Regions).                                                         *)
ClientRegions == {[at |-> b, length |-> blockSize(heap, b), asked |-> asked[b]] : b \in held}

Promise == INSTANCE Regions WITH Size <- HeapSize,
                                 Overhead <- HeaderSize,
                                 Waste <- HeaderSize + Slack,
                                 regions <- ClientRegions

ImplementsRegions == Promise!Spec
=============================================================================
