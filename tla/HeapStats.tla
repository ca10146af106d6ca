------------------------------ MODULE HeapStats ------------------------------
(***************************************************************************)
(* vPortGetHeapStats, which heap_4.c and heap_5.c share, called by one     *)
(* task while the others use the heap.  The free list is walked between    *)
(* vTaskSuspendAll and xTaskResumeAll.  The counters are then read inside  *)
(* taskENTER_CRITICAL and taskEXIT_CRITICAL, which keep nobody out: every  *)
(* read is a step.  The counters of calls are left out.                    *)
(***************************************************************************)
EXTENDS Naturals, FiniteSets

CONSTANT portMAX_DELAY  \* the size reported as the smallest when there is none

VARIABLES
    heap,    \* the heap of Heap4 or Heap5
    report,  \* *pxHeapStats
    done     \* how many of the steps below were taken

NoReport ==
    [blocks |-> 0, largest |-> 0, smallest |-> 0, freeBytes |-> 0, minimumEver |-> 0]

Init == report = NoReport /\ done = 0

\* The nodes of the list between xStart and *pxEnd; the markers at the ends of
\* the regions of heap_5.c are nodes of the size 0.
Walked == DOMAIN heap.next \intersect DOMAIN heap.size
Sizes == {heap.size[b] : b \in Walked}

\* The stack of the task that calls is on the heap, which has been initialised.
WalkList ==
    /\ done = 0
    /\ DOMAIN heap.size # {}
    /\ report' = [report EXCEPT
         !.blocks = Cardinality(Walked),
         !.largest = IF Sizes \subseteq {0} THEN 0
                     ELSE CHOOSE n \in Sizes : \A m \in Sizes : m <= n,
         !.smallest = IF Sizes \subseteq {0} THEN portMAX_DELAY
                      ELSE CHOOSE n \in Sizes \ {0} : \A m \in Sizes \ {0} : n <= m]
    /\ done' = 1

\* Mutant: the counters are read in the opposite order.
CountersReversed == <<"minimumEver", "freeBytes">>

\* The counters, in the order in which they are read.
Counters == <<"freeBytes", "minimumEver">>

ReadCounter ==
    /\ done \in DOMAIN Counters
    /\ report' = [report EXCEPT ![Counters[done]] = heap[Counters[done]]]
    /\ done' = done + 1

Return ==
    /\ done = 3
    /\ report' = NoReport
    /\ done' = 0

vPortGetHeapStats == WalkList \/ ReadCounter \/ Return

\* The report is made of numbers of different moments, but never says that more
\* was free when least was free than is free now.
MinimumWithinFree == done = 3 => report.minimumEver <= report.freeBytes
=============================================================================
