-------------------------------- MODULE Heap1 --------------------------------
(***************************************************************************)
(* heap_1.c, an allocator that the Makefile can be given in the place of   *)
(* heap_4.c: nothing is ever freed, and vPortFree does nothing.            *)
(* pvPortMalloc works between vTaskSuspendAll and xTaskResumeAll.          *)
(***************************************************************************)
EXTENDS Naturals

CONSTANTS
    HeapAt,     \* the address of ucHeap
    HeapSize,   \* configTOTAL_HEAP_SIZE
    Alignment,  \* portBYTE_ALIGNMENT
    SizeLimit,  \* 2^w for a size_t of w bits
    Asked       \* the xWantedSize that pvPortMalloc is called with

VARIABLES
    xNextFreeByte,  \* the index into the aligned heap
    live            \* live[p]: what was asked for when p was returned

configADJUSTED_HEAP_SIZE == HeapSize - Alignment

\* Mutant: the heap is taken to begin at ucHeap.
UnalignedHeap == HeapAt

\* The first aligned address of ucHeap.
pucAlignedHeap == ((HeapAt + Alignment - 1) \div Alignment) * Alignment

Init ==
    /\ xNextFreeByte = 0
    /\ live = [p \in {} |-> 0]

\* xWantedSize rounded up, or zero when that does not fit a size_t.
Rounded(w) ==
    LET up == (w + (Alignment - (w % Alignment))) % SizeLimit
    IN  IF w % Alignment = 0 THEN w ELSE IF up > w THEN up ELSE 0

pvPortMalloc(w) ==
    LET next == (xNextFreeByte + Rounded(w)) % SizeLimit
        p == pucAlignedHeap + xNextFreeByte
    IN  IF next < configADJUSTED_HEAP_SIZE /\ next > xNextFreeByte
        THEN /\ xNextFreeByte' = next
             /\ live' = [q \in DOMAIN live \union {p} |->
                           IF q = p THEN w ELSE live[q]]
        ELSE UNCHANGED <<xNextFreeByte, live>>

Next == \E w \in Asked : pvPortMalloc(w)

Spec == Init /\ [][Next]_<<xNextFreeByte, live>>

A == INSTANCE Allocator WITH Areas <- {<<HeapAt, HeapAt + HeapSize>>}

\* What is allocated is aligned, inside ucHeap, as long as was asked, whatever
\* was asked, and apart from everything allocated before.
IsAllocator == A!Spec
=============================================================================
