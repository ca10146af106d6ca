-------------------------------- MODULE Heap5 --------------------------------
(***************************************************************************)
(* heap_5.c, an allocator that the Makefile can be given in the place of   *)
(* heap_4.c.  pvPortMalloc, pvPortCalloc, vPortFree and                    *)
(* prvInsertBlockIntoFreeList are those of heap_4.c: the operators of      *)
(* Heap4.  What differs is the heap: vPortDefineHeapRegions makes it of    *)
(* several regions.  Each has one free block and, at its end, a node of    *)
(* the size 0 that links it to the next; the node of the last region is    *)
(* *pxEnd.                                                                 *)
(***************************************************************************)
EXTENDS Naturals, Sequences, FiniteSets

CONSTANTS
    HeapRegions,  \* pxHeapRegions: [at, size] of each region
    Alignment, Header, SizeLimit, Tasks, Asked, Counts  \* as in Heap4

Count == Len(HeapRegions)
RegionEnd(i) == HeapRegions[i].at + HeapRegions[i].size

VARIABLES heap, asked, freeing  \* as in Heap4

vars == <<heap, asked, freeing>>

\* Heap4, between the beginning of the first region and the end of the last.
H == INSTANCE Heap4 WITH
    HeapAt <- HeapRegions[1].at,
    HeapSize <- RegionEnd(Count) - HeapRegions[1].at

\* Mutant: a region is not aligned.
FirstUnaligned(i) == HeapRegions[i].at

\* The addresses of the first block of region i and of the node at its end.
First(i) == H!AlignUp(HeapRegions[i].at)
End(i) == H!AlignDown(RegionEnd(i) - Header)

\* Regions are in the order of their addresses, which vPortDefineHeapRegions asserts
\* of each and the one before, and each has room for a block.  They span
\* no more than half of what a size_t counts, like all the memory of this chip, so
\* that no block's size has the allocated bit.
RegionsAssumption ==
    /\ HeapRegions \in Seq([at : Nat \ {0}, size : Nat])
    /\ Count > 0
    /\ \A i \in 1 .. Count :
          /\ HeapRegions[i].size >= Header
          /\ RegionEnd(i) < SizeLimit
          /\ First(i) < End(i)
    /\ \A i, j \in 1 .. Count : i < j => End(i) < First(j)
    /\ RegionEnd(Count) - HeapRegions[1].at <= SizeLimit \div 2

Init == H!Init

xTotalHeapSize ==
    Cardinality(UNION {First(i) .. End(i) - 1 : i \in 1 .. Count})

\* Mutant: a region is linked to the next without its node.
NextSkips(i) == IF i < Count THEN First(i + 1) ELSE End(i)

\* What the first block of region i is linked to.
NextOfFirst(i) == End(i)

vPortDefineHeapRegions ==
    LET firsts == {First(i) : i \in 1 .. Count}
        markers == {End(i) : i \in 1 .. Count - 1}
        region(x) == CHOOSE i \in 1 .. Count : x \in {First(i), End(i)}
    IN  /\ heap = H!NotInitialised
        /\ heap' =
             [size |-> [x \in firsts \union markers |->
                          IF x \in markers THEN 0 ELSE End(region(x)) - x],
              next |-> [x \in {H!heapStart} \union firsts \union markers |->
                          IF x = H!heapStart THEN First(1)
                          ELSE IF x \in markers THEN First(region(x) + 1)
                          ELSE NextOfFirst(region(x))],
              freeBytes |-> xTotalHeapSize,
              minimumEver |-> xTotalHeapSize]
        /\ UNCHANGED <<asked, freeing>>

\* Before vPortDefineHeapRegions no byte is free, and nothing is allocated.
Defined == heap # H!NotInitialised

pvPortMalloc(w) == Defined /\ H!pvPortMalloc(w)
pvPortCalloc(n, s) == Defined /\ H!pvPortCalloc(n, s)
vPortFree(t, b) == H!vPortFree(t, b)

\* A block that ends where a node of the size 0 is takes it out of the list, and is
\* itself linked to the next region.
prvInsertBlockIntoFreeList(h, b) == H!prvInsertBlockIntoFreeList(h, b)

ReturnToList(t) ==
    \E b \in freeing[t] :
        /\ heap' = [prvInsertBlockIntoFreeList(heap, b) EXCEPT
                      !.freeBytes = heap.freeBytes + heap.size[b]]
        /\ freeing' = [freeing EXCEPT ![t] = {}]
        /\ UNCHANGED asked

Next ==
    \/ vPortDefineHeapRegions
    \/ \E w \in Asked : pvPortMalloc(w)
    \/ \E n, s \in Counts : pvPortCalloc(n, s)
    \/ \E t \in Tasks, b \in DOMAIN asked : vPortFree(t, b)
    \/ \E t \in Tasks : ReturnToList(t)

Spec == Init /\ [][Next]_vars

(***************************************************************************)
(* Safety.                                                                 *)
(***************************************************************************)

\* The blocks, without the nodes at the ends of regions.
Blocks == {b \in DOMAIN heap.size : heap.size[b] > 0}

\* No split or merge, not even the one that takes the node at the end of a region
\* out of the list, makes a block that leaves its region: the blocks of a region
\* tile it.
BlocksTileRegions ==
    Defined =>
        /\ \A i \in 1 .. Count : First(i) \in Blocks
        /\ \A b \in Blocks : \E i \in 1 .. Count :
              /\ First(i) <= b
              /\ b + heap.size[b] \in Blocks \union {End(i)}
              /\ b + heap.size[b] <= End(i)
              /\ \A c \in Blocks : c <= b \/ c >= b + heap.size[b]

\* The list goes through the free blocks of all regions in the order of their
\* addresses and ends at *pxEnd, and no two blocks of it adjoin.
ListThroughRegions ==
    /\ H!ListInOrder
    /\ H!EachBlockInOnePlace
    /\ \A b, c \in Blocks \intersect H!Listed : b + heap.size[b] # c

\* When everything has been freed each region is one block again, and
\* xFreeBytesRemaining is what it was at first.
AllFreedIsWhole ==
    Defined /\ asked = [b \in {} |-> 0] /\ H!Returning = {} =>
        /\ Blocks = {First(i) : i \in 1 .. Count}
        /\ heap.freeBytes = xTotalHeapSize

\* xFreeBytesRemaining is the sum of the blocks in the list, over all regions.
FreeBytesExact == Defined => H!FreeBytesExact

A == INSTANCE Allocator WITH
    Areas <- {<<HeapRegions[i].at, RegionEnd(i)>> : i \in 1 .. Count},
    live <- H!Regions

\* What is allocated is aligned, inside one region, as long as was asked and
\* apart from everything else that is in use.
IsAllocator == A!Spec
=============================================================================
