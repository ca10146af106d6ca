-------------------------------- MODULE Heaps --------------------------------
(***************************************************************************)
(* The allocators side by side.  The Makefile builds one of them into the  *)
(* firmware: a behaviour is one of the variant that its initial state      *)
(* names, and the variables of the others do not change.  heap_4.c, the    *)
(* one that is built, comes twice: once alone, and once, on a heap of its  *)
(* own size, with calls of vPortGetHeapStats as well.                      *)
(***************************************************************************)
EXTENDS Heap4, Sequences

CONSTANTS
    HeapSize1, HeapSize2,  \* configTOTAL_HEAP_SIZE of heap_1.c and heap_2.c
    HeapRegions,           \* the regions of heap_5.c
    HeapSizeS              \* configTOTAL_HEAP_SIZE, with the statistics

VARIABLES
    variant,         \* the allocator that is built
    next1, live1,    \* heap_1.c
    heap2, asked2, freeing2,  \* heap_2.c
    heap5, asked5, freeing5,  \* heap_5.c
    heapS, askedS, freeingS,  \* heap_4.c, with the statistics
    report, done

vars1 == <<next1, live1>>
vars2 == <<heap2, asked2, freeing2>>
vars5 == <<heap5, asked5, freeing5>>
varsS == <<heapS, askedS, freeingS>>
varsR == <<report, done>>

H1 == INSTANCE Heap1 WITH
    HeapSize <- HeapSize1, xNextFreeByte <- next1, live <- live1
H2 == INSTANCE Heap2 WITH
    HeapSize <- HeapSize2, heap <- heap2, asked <- asked2, freeing <- freeing2
H5 == INSTANCE Heap5 WITH
    heap <- heap5, asked <- asked5, freeing <- freeing5
HS == INSTANCE Heap4 WITH
    HeapSize <- HeapSizeS, heap <- heapS, asked <- askedS, freeing <- freeingS
R == INSTANCE HeapStats WITH heap <- heapS, portMAX_DELAY <- SizeLimit - 1

ASSUME HeapSizesAssumption ==
    /\ HeapSize1 \in Nat /\ HeapSize1 >= Alignment
    /\ HeapSize2 \in Nat /\ HeapSize2 >= Alignment + Header
    /\ HeapAt + HeapSize1 < SizeLimit
    /\ HeapAt + HeapSize2 < SizeLimit
    /\ HeapSize2 <= SizeLimit \div 2
ASSUME StatisticsAssumption ==
    /\ HeapSizeS \in Nat /\ HeapSizeS >= Header
    /\ HeapAt + HeapSizeS < SizeLimit
    /\ HeapSizeS <= SizeLimit \div 2
    /\ HS!First < HS!End
ASSUME RegionsOrdered == H5!RegionsAssumption

HeapsInit ==
    /\ variant \in {"heap_1", "heap_2", "heap_4", "heap_5", "statistics"}
    /\ Init /\ H1!Init /\ H2!Init /\ H5!Init /\ HS!Init /\ R!Init

HeapsNext ==
    /\ UNCHANGED variant
    /\ \/ /\ variant = "heap_4"
          /\ Next
          /\ UNCHANGED <<vars1, vars2, vars5, varsS, varsR>>
       \/ /\ variant = "heap_1"
          /\ H1!Next
          /\ UNCHANGED <<vars, vars2, vars5, varsS, varsR>>
       \/ /\ variant = "heap_2"
          /\ H2!Next
          /\ UNCHANGED <<vars, vars1, vars5, varsS, varsR>>
       \/ /\ variant = "heap_5"
          /\ H5!Next
          /\ UNCHANGED <<vars, vars1, vars2, varsS, varsR>>
       \/ /\ variant = "statistics"
          /\ HS!Next
          /\ UNCHANGED <<vars, vars1, vars2, vars5, varsR>>
       \/ /\ variant = "statistics"
          /\ R!vPortGetHeapStats
          /\ UNCHANGED <<vars, vars1, vars2, vars5, varsS>>

HeapsSpec == HeapsInit /\ [][HeapsNext]_<<variant, vars, vars1, vars2, vars5, varsS, varsR>>

\* heap_1.c gives out aligned, disjoint regions as long as was asked
\* (Heap1!IsAllocator).
Heap1IsAllocator == H1!IsAllocator

\* In heap_2.c each block is in one place, the list is in the order of sizes, and
\* xFreeBytesRemaining is the sum of its blocks.
Heap2WellFormed == H2!BlocksPartition /\ H2!ListBySize /\ H2!FreeBytesExact

\* heap_2.c gives out aligned, disjoint regions as long as was asked
\* (Heap2!IsAllocator).
Heap2IsAllocator == H2!IsAllocator

\* In heap_5.c no block leaves its region, the list goes through all regions, the
\* counter is exact, and what has all been freed is one block for each region.
Heap5WellFormed ==
    /\ H5!BlocksTileRegions
    /\ H5!ListThroughRegions
    /\ H5!AllFreedIsWhole
    /\ H5!FreeBytesExact

\* heap_5.c gives out aligned, disjoint regions, each inside one of its own
\* (Heap5!IsAllocator).
Heap5IsAllocator == H5!IsAllocator

\* In a report of vPortGetHeapStats the minimum is not above what is free, although
\* tasks allocate and free while it is made (HeapStats!MinimumWithinFree).
MinimumWithinFree == R!MinimumWithinFree
=============================================================================
