-------------------------------- MODULE Heap4 --------------------------------
(***************************************************************************)
(* heap_4.c, the memory allocator of the firmware: pvPortMalloc,           *)
(* pvPortCalloc, vPortFree, prvHeapInit and prvInsertBlockIntoFreeList.    *)
(*                                                                         *)
(* Tasks call it concurrently.  pvPortMalloc works between vTaskSuspendAll *)
(* and xTaskResumeAll, which keep the other tasks out, and is one step.    *)
(* vPortFree clears the block's allocated bit before vTaskSuspendAll and   *)
(* is two.  No interrupt handler uses the heap.                            *)
(*                                                                         *)
(* Addresses and sizes are bytes.  A BlockLink_t is an address in the      *)
(* domain of heap.size; the free list is heap.next, whose domain is        *)
(* heapStart and the blocks in the list.  The list is searched in the      *)
(* order of addresses, which ListInOrder shows is its own order.  The      *)
(* counters of calls, which only vPortGetHeapStats reads, are left out.    *)
(***************************************************************************)
EXTENDS Naturals, FiniteSets

CONSTANTS
    HeapAt,     \* the address of ucHeap
    HeapSize,   \* configTOTAL_HEAP_SIZE
    Alignment,  \* portBYTE_ALIGNMENT
    Header,     \* xHeapStructSize
    SizeLimit,  \* 2^w for a size_t of w bits
    Tasks,      \* the tasks that use the heap
    Asked,      \* the xWantedSize that pvPortMalloc is called with
    Counts      \* the xNum and xSize that pvPortCalloc is called with

ASSUME AlignmentAssumption == Alignment \in Nat \ {0}
ASSUME HeaderAssumption == Header \in Nat \ {0} /\ Header % Alignment = 0
\* The highest bit of a size is its allocated bit, so that the heap is at most half
\* of what a size_t counts.
ASSUME HeapAssumption ==
    /\ HeapAt \in Nat \ {0}
    /\ HeapSize \in Nat
    /\ HeapSize >= Header
    /\ HeapAt + HeapSize < SizeLimit
    /\ HeapSize <= SizeLimit \div 2
ASSUME LimitAssumption == SizeLimit \in Nat
ASSUME AskedAssumption ==
    Asked \subseteq 0 .. SizeLimit - 1 /\ Counts \subseteq 0 .. SizeLimit - 1

VARIABLES
    heap,      \* the list of blocks and the counters of free bytes
    asked,     \* asked[b]: the size asked for block b, which is in use
    freeing    \* freeing[t]: the blocks task t frees, at most one

vars == <<heap, asked, freeing>>

heapStart == 0  \* &xStart, which is below every block

AlignDown(a) == a - (a % Alignment)

AlignUp(a) == AlignDown(a + (Alignment - 1))

\* The addresses of the first block and of *pxEnd.
First == AlignUp(HeapAt)
End == AlignDown(HeapAt + HeapSize - Header)

\* There is room for a block.
ASSUME RoomAssumption == First < End

heapMINIMUM_BLOCK_SIZE == 2 * Header

\* prvHeapInit: one free block, from the first aligned address to *pxEnd.
prvHeapInit ==
    [size |-> [b \in {First} |-> End - First],
     next |-> [b \in {heapStart, First} |-> IF b = heapStart THEN First ELSE End],
     freeBytes |-> End - First,
     minimumEver |-> End - First]

\* Before the first pvPortMalloc there are no blocks, and no list.
NotInitialised ==
    [size |-> [b \in {} |-> 0], next |-> [b \in {} |-> 0],
     freeBytes |-> 0, minimumEver |-> 0]

Init ==
    /\ heap = NotInitialised
    /\ asked = [b \in {} |-> 0]
    /\ freeing = [t \in Tasks |-> {}]

(***************************************************************************)
(* The list.                                                               *)
(***************************************************************************)
InList(h) == DOMAIN h.next \ {heapStart}

\* Mutant: a block is always put at the head of the list.
pxIteratorStart(h, b) == heapStart

\* Where the loop of prvInsertBlockIntoFreeList stops: the last node below b.
pxIterator(h, b) ==
    CHOOSE i \in DOMAIN h.next : i < b /\ ~ (h.next[i] < b)

\* Mutant: blocks are merged whether or not they adjoin.
AlwaysJoinsBefore(h, i, b) == i # heapStart

\* Mutant: a block is not merged with the one before it.
NeverJoinsBefore(h, i, b) == FALSE

\* The block i before b in the list ends where b begins.
JoinsBefore(h, i, b) == i # heapStart /\ i + h.size[i] = b

\* The block b ends where its successor n in the list begins.
JoinsAfter(h, b, n) == n # End /\ b + h.size[b] = n

\* The list with block b in its place and merged with its neighbours.
prvInsertBlockIntoFreeList(h, b) ==
    LET it == pxIterator(h, b)
        nx == h.next[it]
        before == JoinsBefore(h, it, b)
        after == JoinsAfter(h, b, nx)
        merged == IF before THEN it ELSE b
        gone == (IF before THEN {b} ELSE {}) \union (IF after THEN {nx} ELSE {})
        length == h.size[b] + (IF before THEN h.size[it] ELSE 0)
                    + (IF after THEN h.size[nx] ELSE 0)
    IN  [h EXCEPT
           !.size = [x \in DOMAIN h.size \ gone |->
                       IF x = merged THEN length ELSE h.size[x]],
           !.next = [x \in (DOMAIN h.next \union {merged}) \ gone |->
                       IF x = merged THEN (IF after THEN h.next[nx] ELSE nx)
                       ELSE IF x = it THEN merged
                       ELSE h.next[x]]]

(***************************************************************************)
(* pvPortMalloc and pvPortCalloc.                                          *)
(***************************************************************************)

\* The size of a block for w bytes: the header, and padding that is a whole
\* Alignment when w is aligned; zero when the sum does not fit a size_t.
BlockSize(w) ==
    LET additional == Header + Alignment - (w % Alignment)
    IN  IF w = 0 \/ w > SizeLimit - 1 - additional THEN 0 ELSE w + additional

\* heapBLOCK_SIZE_IS_VALID: the top bit is the allocated bit.
ValidSize(n) == n < SizeLimit \div 2

\* The blocks that the first-fit search can return for n bytes.
Fits(h, n) == {b \in InList(h) : h.size[b] >= n}

\* Mutant: the block stays in the list.
UnlinkedForgotten(h, b) == h.next

\* The list without block b.
Unlinked(h, b) ==
    [x \in DOMAIN h.next \ {b} |->
       IF h.next[x] = b THEN h.next[b] ELSE h.next[x]]

\* Block b is out of the list.
Without(h, b) == [h EXCEPT !.next = Unlinked(h, b)]

\* Block b is out of the list and has become two, the first of n bytes.
CutInTwo(h, b, n) ==
    [Without(h, b) EXCEPT
       !.size = [x \in DOMAIN h.size \union {b + n} |->
                   IF x = b THEN n
                   ELSE IF x = b + n THEN h.size[b] - n
                   ELSE h.size[x]]]

\* The bytes of block b are no longer free.
CountedOut(h, b) ==
    LET bytes == h.freeBytes - h.size[b]
    IN  [h EXCEPT
           !.freeBytes = bytes,
           !.minimumEver = IF bytes < h.minimumEver THEN bytes ELSE h.minimumEver]

\* Block b is taken from the list; what is left of it goes back to the list as a
\* block of its own, if it is long enough.
Taken(h, b, n) ==
    CountedOut(IF h.size[b] - n > heapMINIMUM_BLOCK_SIZE
               THEN prvInsertBlockIntoFreeList(CutInTwo(h, b, n), b + n)
               ELSE Without(h, b), b)

\* The first block of the list that fits.
FirstFit(h, n) == CHOOSE b \in Fits(h, n) : \A c \in Fits(h, n) : b <= c

\* Block b is in use, for user bytes.
InUse(b, user) ==
    [x \in DOMAIN asked \union {b} |-> IF x = b THEN user ELSE asked[x]]

\* The heap that pvPortMalloc finds once it has called prvHeapInit, if it must.
Current == IF heap = NotInitialised THEN prvHeapInit ELSE heap

\* pvPortMalloc(w), called for a user who wants user bytes.
Allocate(w, user) ==
    LET n == BlockSize(w)
        b == FirstFit(Current, n)
    IN  IF /\ ValidSize(n) /\ n > 0 /\ n <= Current.freeBytes
           /\ Fits(Current, n) # {}
        THEN heap' = Taken(Current, b, n) /\ asked' = InUse(b, user)
        ELSE heap' = Current /\ UNCHANGED asked

pvPortMalloc(w) ==
    /\ Allocate(w, w)
    /\ UNCHANGED freeing

\* Mutant: the product is not checked.
MultiplyUnchecked(n, s) == FALSE

\* heapMULTIPLY_WILL_OVERFLOW
MultiplyWillOverflow(n, s) == n > 0 /\ s > (SizeLimit - 1) \div n

\* pvPortCalloc allocates, and clears what it got, only if n * s fits a size_t.
pvPortCalloc(n, s) ==
    /\ ~MultiplyWillOverflow(n, s)
    /\ Allocate((n * s) % SizeLimit, n * s)
    /\ UNCHANGED freeing

(***************************************************************************)
(* vPortFree.                                                              *)
(***************************************************************************)

\* The block stops being allocated: the scheduler is still running.  Blocks that
\* are not in use are not freed: those vPortFree would leave alone.
vPortFree(t, b) ==
    /\ freeing[t] = {}
    /\ asked' = [x \in DOMAIN asked \ {b} |-> asked[x]]
    /\ freeing' = [freeing EXCEPT ![t] = {b}]
    /\ UNCHANGED heap

\* Mutant: the allocated bit is still set in the size that is counted.
ReturnToListAllocated(t) ==
    \E b \in freeing[t] :
        /\ heap' = [prvInsertBlockIntoFreeList(heap, b) EXCEPT
                      !.freeBytes = heap.freeBytes + heap.size[b]
                                      + SizeLimit \div 2]
        /\ freeing' = [freeing EXCEPT ![t] = {}]
        /\ UNCHANGED asked

\* Mutant: the size is counted when the block may have been merged.
ReturnToListMerged(t) ==
    \E b \in freeing[t] :
        LET list == prvInsertBlockIntoFreeList(heap, b)
        IN  /\ heap' = [list EXCEPT !.freeBytes = heap.freeBytes
                          + (IF b \in DOMAIN list.size THEN list.size ELSE heap.size)[b]]
            /\ freeing' = [freeing EXCEPT ![t] = {}]
            /\ UNCHANGED asked

\* The block goes back to the list with the scheduler suspended.
ReturnToList(t) ==
    \E b \in freeing[t] :
        /\ heap' = [prvInsertBlockIntoFreeList(heap, b) EXCEPT
                      !.freeBytes = heap.freeBytes + heap.size[b]]
        /\ freeing' = [freeing EXCEPT ![t] = {}]
        /\ UNCHANGED asked

Next ==
    \/ \E w \in Asked : pvPortMalloc(w)
    \/ \E n, s \in Counts : pvPortCalloc(n, s)
    \/ \E t \in Tasks, b \in DOMAIN asked : vPortFree(t, b)
    \/ \E t \in Tasks : ReturnToList(t)

Spec == Init /\ [][Next]_vars

(***************************************************************************)
(* Safety.                                                                 *)
(***************************************************************************)
Blocks == DOMAIN heap.size
Listed == InList(heap)
Returning == UNION {freeing[t] : t \in Tasks}
Initialised == heap # NotInitialised

\* Every variable has its type.
TypeOK ==
    /\ DOMAIN heap = {"size", "next", "freeBytes", "minimumEver"}
    /\ Blocks \subseteq First .. End - 1
    /\ heap.size \in [Blocks -> 1 .. End]
    /\ DOMAIN heap.next \subseteq Blocks \union {heapStart}
    /\ heap.next \in [DOMAIN heap.next -> Blocks \union {End}]
    /\ heap.freeBytes \in 0 .. End
    /\ heap.minimumEver \in 0 .. End
    /\ DOMAIN asked \subseteq Blocks
    /\ asked \in [DOMAIN asked -> Nat]
    /\ freeing \in [Tasks -> SUBSET Blocks]

\* The blocks tile the heap: the first is at its beginning, each one ends where
\* the next one or *pxEnd is, and none begins inside another, through every
\* split and merge and with blocks on their way back.  All are aligned, and so is
\* what pvPortMalloc returns.
BlocksTile ==
    Initialised =>
        /\ First \in Blocks
        /\ \A b \in Blocks :
              /\ b % Alignment = 0
              /\ b + heap.size[b] \in Blocks \union {End}
              /\ \A c \in Blocks : c <= b \/ c >= b + heap.size[b]

\* A block is in the list, or in use, or on its way back to the list, and never
\* two of these.  One in use has room for what was asked: neither the padding nor
\* the product of pvPortCalloc wraps round.
EachBlockInOnePlace ==
    /\ Blocks = Listed \union DOMAIN asked \union Returning
    /\ Listed \intersect (DOMAIN asked \union Returning) = {}
    /\ DOMAIN asked \intersect Returning = {}
    /\ \A b \in DOMAIN asked : Header + asked[b] <= heap.size[b]
    /\ \A t, u \in Tasks : t # u => freeing[t] \intersect freeing[u] = {}

\* The list goes through its blocks in the order of their addresses, leaves none
\* out and ends at *pxEnd.
ListInOrder ==
    Initialised =>
        /\ heapStart \in DOMAIN heap.next
        /\ \A i \in DOMAIN heap.next :
              /\ i < heap.next[i]
              /\ heap.next[i] \in Listed \union {End}
              /\ \A j \in Listed : j <= i \/ heap.next[i] <= j

\* Free memory is never left in two adjoining blocks of the list.
NoAdjoiningFree == \A b \in Listed : b + heap.size[b] \notin Listed

\* What a set of blocks amounts to, counted from the bytes they cover.
Covered(S) == UNION {b .. b + heap.size[b] - 1 : b \in S}

\* xFreeBytesRemaining is the sum of the blocks in the list, so that the check
\* against it in pvPortMalloc never refuses what a block could hold, and
\* xMinimumEverFreeBytesRemaining is not above it.
FreeBytesExact ==
    /\ heap.freeBytes = Cardinality(Covered(Listed))
    /\ heap.minimumEver <= heap.freeBytes

(***************************************************************************)
(* heap_4.c implements an allocator.                                       *)
(***************************************************************************)
Regions ==
    [p \in {b + Header : b \in DOMAIN asked} |-> asked[p - Header]]

A == INSTANCE Allocator WITH
    Areas <- {<<HeapAt, HeapAt + HeapSize>>}, live <- Regions

\* What is allocated is aligned, inside ucHeap, as long as was asked and apart
\* from everything else that is in use.
IsAllocator == A!Spec
=============================================================================
