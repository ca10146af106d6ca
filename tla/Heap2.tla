-------------------------------- MODULE Heap2 --------------------------------
(***************************************************************************)
(* heap_2.c, an allocator that the Makefile can be given in the place of   *)
(* heap_4.c.  Free blocks are never merged, and the free list is in the    *)
(* order of their sizes, so that the first block that fits is the smallest *)
(* one.  The steps are those of Heap4: pvPortMalloc is one, and vPortFree, *)
(* which clears the allocated bit before vTaskSuspendAll, is two.          *)
(***************************************************************************)
EXTENDS Naturals, FiniteSets, SequencesExt

CONSTANTS HeapAt, HeapSize, Alignment, Header, SizeLimit, Tasks, Asked, Counts

VARIABLES
    heap,      \* the sizes of the blocks, the free list and xFreeBytesRemaining
    asked,     \* asked[b]: the size asked for block b, which is in use
    freeing    \* freeing[t]: the blocks task t frees, at most one

vars == <<heap, asked, freeing>>

configADJUSTED_HEAP_SIZE == HeapSize - Alignment
First == ((HeapAt + Alignment - 1) \div Alignment) * Alignment
heapMINIMUM_BLOCK_SIZE == 2 * Header

\* prvHeapInit: one free block, of the size of the heap.
prvHeapInit ==
    [size |-> [b \in {First} |-> configADJUSTED_HEAP_SIZE],
     list |-> <<First>>,
     freeBytes |-> configADJUSTED_HEAP_SIZE]

\* Before the first pvPortMalloc there is no list, and all of the heap is free.
NotInitialised ==
    [size |-> [b \in {} |-> 0], list |-> <<>>,
     freeBytes |-> configADJUSTED_HEAP_SIZE]

Init ==
    /\ heap = NotInitialised
    /\ asked = [b \in {} |-> 0]
    /\ freeing = [t \in Tasks |-> {}]

\* The list with block b before the first block that is not smaller.  The loop
\* stops at xEnd at the latest, which no block exceeds.
prvInsertBlockIntoFreeList(h, b) ==
    LET smaller(i) == \A j \in 1 .. i : h.size[h.list[j]] < h.size[b]
        i == CHOOSE i \in 0 .. Len(h.list) :
               smaller(i) /\ (i = Len(h.list) \/ ~smaller(i + 1))
    IN  [h EXCEPT !.list = InsertAt(h.list, i + 1, b)]

\* Mutant: the sum may wrap round.
BlockSizeWraps(w) ==
    IF w = 0 THEN 0 ELSE (w + Header + Alignment - (w % Alignment)) % SizeLimit

\* The size of a block for w bytes, or zero when it does not fit a size_t.
BlockSize(w) ==
    LET additional == Header + Alignment - (w % Alignment)
    IN  IF w = 0 \/ w > SizeLimit - 1 - additional THEN 0 ELSE w + additional

\* The list without its i-th block.
Unlinked(list, i) == RemoveAt(list, i)

\* The i-th block of the list is taken for n bytes.
Taken(h, i, n) ==
    LET b == h.list[i]
        rest == h.size[b] - n
        out == [h EXCEPT !.list = Unlinked(h.list, i)]
        cut == [out EXCEPT !.size =
                  [x \in DOMAIN h.size \union {b + n} |->
                     IF x = b THEN n ELSE IF x = b + n THEN rest ELSE h.size[x]]]
        list == IF rest > heapMINIMUM_BLOCK_SIZE
                THEN prvInsertBlockIntoFreeList(cut, b + n)
                ELSE out
    IN  [list EXCEPT !.freeBytes = h.freeBytes - list.size[b]]

\* pvPortMalloc(w), called for a user who wants user bytes.
Allocate(w, user) ==
    LET h == IF heap = NotInitialised THEN prvHeapInit ELSE heap
        n == BlockSize(w)
        fits == {i \in 1 .. Len(h.list) : h.size[h.list[i]] >= n}
    IN  IF n < SizeLimit \div 2 /\ n > 0 /\ n <= h.freeBytes /\ fits # {}
        THEN LET i == CHOOSE i \in fits : \A j \in fits : i <= j
             IN  /\ heap' = Taken(h, i, n)
                 /\ asked' = [x \in DOMAIN asked \union {h.list[i]} |->
                                IF x = h.list[i] THEN user ELSE asked[x]]
        ELSE heap' = h /\ UNCHANGED asked

pvPortMalloc(w) ==
    /\ Allocate(w, w)
    /\ UNCHANGED freeing

\* The product is checked with heapMULTIPLY_WILL_OVERFLOW.
pvPortCalloc(n, s) ==
    /\ n = 0 \/ s <= (SizeLimit - 1) \div n
    /\ Allocate((n * s) % SizeLimit, n * s)
    /\ UNCHANGED freeing

\* The block stops being allocated: the scheduler is still running.
vPortFree(t, b) ==
    /\ freeing[t] = {}
    /\ asked' = [x \in DOMAIN asked \ {b} |-> asked[x]]
    /\ freeing' = [freeing EXCEPT ![t] = {b}]
    /\ UNCHANGED heap

\* Mutant: the bytes are not counted.
ReturnToListUncounted(t) ==
    \E b \in freeing[t] :
        /\ heap' = prvInsertBlockIntoFreeList(heap, b)
        /\ freeing' = [freeing EXCEPT ![t] = {}]
        /\ UNCHANGED asked

\* The block goes back to the list with the scheduler suspended.
ReturnToList(t) ==
    \E b \in freeing[t] :
        /\ heap' = [prvInsertBlockIntoFreeList(heap, b) EXCEPT
                      !.freeBytes = heap.freeBytes + heap.size[b]]
        /\ freeing' = [freeing EXCEPT ![t] = {}]
        /\ UNCHANGED asked

Next ==
    \/ \E w \in Asked : pvPortMalloc(w)
    \/ \E n, s \in Counts : pvPortCalloc(n, s)
    \/ \E t \in Tasks, b \in DOMAIN asked : vPortFree(t, b)
    \/ \E t \in Tasks : ReturnToList(t)

Spec == Init /\ [][Next]_vars

(***************************************************************************)
(* Safety.                                                                 *)
(***************************************************************************)
Listed == ToSet(heap.list)
Blocks == DOMAIN heap.size
Returning == UNION {freeing[t] : t \in Tasks}
Covered(S) == UNION {b .. b + heap.size[b] - 1 : b \in S}

\* However the heap has been cut up, its blocks cover it and do not overlap, and
\* each is in the list once, or in use, or on its way back to the list.
BlocksPartition ==
    heap # NotInitialised =>
        /\ Covered(Blocks) = First .. First + configADJUSTED_HEAP_SIZE - 1
        /\ \A b, c \in Blocks : b < c => b + heap.size[b] <= c
        /\ Blocks = Listed \union DOMAIN asked \union Returning
        /\ Len(heap.list) = Cardinality(Listed)
        /\ Listed \intersect (DOMAIN asked \union Returning) = {}
        /\ DOMAIN asked \intersect Returning = {}

\* The list is in the order of sizes, so that pvPortMalloc stops at the smallest
\* block that fits.
ListBySize ==
    \A i, j \in 1 .. Len(heap.list) :
        i <= j => heap.size[heap.list[i]] <= heap.size[heap.list[j]]

\* xFreeBytesRemaining is the sum of the blocks in the list.
FreeBytesExact ==
    heap # NotInitialised => heap.freeBytes = Cardinality(Covered(Listed))

Regions ==
    [p \in {b + Header : b \in DOMAIN asked} |-> asked[p - Header]]

A == INSTANCE Allocator WITH
    Areas <- {<<HeapAt, HeapAt + HeapSize>>}, live <- Regions

\* What is allocated is aligned, inside ucHeap, as long as was asked and apart
\* from everything else that is in use.
IsAllocator == A!Spec
=============================================================================
