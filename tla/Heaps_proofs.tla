------------------------------ MODULE Heaps_proofs ------------------------------
(***************************************************************************)
(* The allocators that the Makefile can be given in the place of heap_4.c, *)
(* and the report of vPortGetHeapStats: theorems of the composition, each  *)
(* from the invariant of the variant it is about.                          *)
(***************************************************************************)
EXTENDS Heaps, Heap4_proofs, SequenceTheorems

(***************************************************************************)
(* Numbers.                                                                *)
(***************************************************************************)

\* The first aligned address at or after a, as heap_1.c and heap_2.c compute it.
LEMMA RoundedUp ==
  ASSUME NEW a \in Nat
  PROVE  LET up == ((a + Alignment - 1) \div Alignment) * Alignment
         IN  up \in Nat /\ up % Alignment = 0 /\ a <= up /\ up < a + Alignment
<1> DEFINE b == a + (Alignment - 1)
           k == b \div Alignment
           up == k * Alignment
<1>1. b \in Nat
  BY AlignmentAssumption
<1>2. k \in Nat /\ b = Alignment * k + (b % Alignment) /\ b % Alignment \in 0 .. Alignment - 1
  BY <1>1, AlignmentAssumption
<1>3. a + Alignment - 1 = b
  BY AlignmentAssumption
<1> HIDE DEF b, k
<1>4. up = Alignment * k /\ up \in Nat
  BY <1>2, AlignmentAssumption
<1>5. up % Alignment = 0
  BY <1>2, <1>4, MultipleIs
<1>6. a <= up /\ up < a + Alignment
  BY <1>2, <1>4, AlignmentAssumption DEF b
<1> QED
  BY <1>3, <1>4, <1>5, <1>6 DEF k

\* A sum of two values of a size_t wraps round at most once.
LEMMA SumWraps ==
  ASSUME NEW a \in 0 .. SizeLimit - 1, NEW b \in 0 .. SizeLimit - 1
  PROVE  (a + b) % SizeLimit = IF a + b < SizeLimit THEN a + b ELSE a + b - SizeLimit
<1>1. CASE a + b < SizeLimit
  BY <1>1, LimitAssumption
<1>2. CASE a + b >= SizeLimit
  <2> DEFINE c == a + b - SizeLimit
  <2>1. c \in 0 .. SizeLimit - 1 /\ a + b = SizeLimit * 1 + c /\ SizeLimit > 0
    BY <1>2, LimitAssumption
  <2> HIDE DEF c
  <2>2. (a + b) % SizeLimit = c
    BY <2>1, LimitAssumption
  <2> QED
    BY <1>2, <2>2, LimitAssumption DEF c
<1> QED
  BY <1>1, <1>2, LimitAssumption

(***************************************************************************)
(* heap_1.c: everything that was given out lies, in order, below           *)
(* xNextFreeByte.                                                          *)
(***************************************************************************)
IInv1 ==
  /\ next1 \in Nat /\ next1 % Alignment = 0
  /\ next1 = 0 \/ next1 < HeapSize1 - Alignment
  /\ live1 \in [DOMAIN live1 -> Nat]
  /\ \A p \in DOMAIN live1 :
        /\ p \in Nat /\ live1[p] > 0
        /\ p + live1[p] <= H1!pucAlignedHeap + next1

\* The aligned start of the heap is in its first portBYTE_ALIGNMENT bytes.
LEMMA AlignedHeap1 ==
  /\ H1!pucAlignedHeap \in Nat /\ H1!pucAlignedHeap % Alignment = 0
  /\ HeapAt <= H1!pucAlignedHeap /\ H1!pucAlignedHeap < HeapAt + Alignment
<1>1. HeapAt \in Nat
  BY HeapAssumption
<1> QED
  BY <1>1, RoundedUp DEF H1!pucAlignedHeap

\* A size is rounded up to a multiple of the alignment, or to zero when it would not
\* fit a size_t.
LEMMA RoundedIs ==
  ASSUME NEW w \in 0 .. SizeLimit - 1
  PROVE  /\ H1!Rounded(w) \in 0 .. SizeLimit - 1
         /\ H1!Rounded(w) % Alignment = 0
         /\ H1!Rounded(w) # 0 => H1!Rounded(w) >= w /\ w > 0
<1> DEFINE k == w \div Alignment
           r == w % Alignment
           pad == Alignment - r
           up == (w + pad) % SizeLimit
<1>1. w \in Nat /\ Alignment \in Nat /\ Alignment > 0 /\ Alignment < SizeLimit
  BY LimitAssumption, AlignmentAssumption, HeapAssumption, HeaderAssumption
<1>2. k \in Nat /\ w = Alignment * k + r /\ r \in 0 .. Alignment - 1
  BY <1>1, AlignmentAssumption
<1>3. H1!Rounded(w) = IF r = 0 THEN w ELSE IF up > w THEN up ELSE 0
  BY DEF H1!Rounded
<1> HIDE DEF k, r
<1>4. pad \in 0 .. SizeLimit - 1 /\ pad > 0
  BY <1>1, <1>2, LimitAssumption
<1>5. up = IF w + pad < SizeLimit THEN w + pad ELSE w + pad - SizeLimit
  BY <1>4, SumWraps
<1>6. w + pad = Alignment * (k + 1)
  BY <1>1, <1>2
<1>7. (w + pad) % Alignment = 0 /\ 0 % Alignment = 0
  BY <1>2, <1>6, MultipleIs, AlignmentAssumption
<1>8. CASE r = 0
  BY <1>1, <1>3, <1>8, AlignmentAssumption DEF r
<1>9. CASE r # 0 /\ up > w
  <2>1. up = w + pad
    BY <1>1, <1>4, <1>5, <1>9, LimitAssumption
  <2>2. up \in 0 .. SizeLimit - 1
    BY <1>1, <1>4, <1>5, <2>1, LimitAssumption
  <2> QED
    BY <1>1, <1>2, <1>3, <1>4, <1>7, <1>9, <2>1, <2>2, AlignmentAssumption
<1>10. CASE r # 0 /\ ~(up > w)
  BY <1>1, <1>3, <1>7, <1>10, LimitAssumption
<1> QED
  BY <1>8, <1>9, <1>10

\* What a successful call changes: what it gives out begins where all else ends.
LEMMA Malloc1Does ==
  ASSUME IInv1, NEW w \in Asked, H1!pvPortMalloc(w)
  PROVE  \/ UNCHANGED vars1
         \/ LET p == H1!pucAlignedHeap + next1
            IN  /\ next1' \in Nat /\ next1' % Alignment = 0
                /\ next1' < HeapSize1 - Alignment
                /\ w \in Nat /\ w > 0 /\ next1 + w <= next1'
                /\ p \in Nat /\ p % Alignment = 0
                /\ p \notin DOMAIN live1
                /\ live1' = [q \in DOMAIN live1 \union {p} |->
                               IF q = p THEN w ELSE live1[q]]
<1> DEFINE r == H1!Rounded(w)
           next == (next1 + r) % SizeLimit
           p == H1!pucAlignedHeap + next1
<1>1. w \in 0 .. SizeLimit - 1
  BY AskedAssumption
<1>2. r \in 0 .. SizeLimit - 1 /\ r % Alignment = 0 /\ (r # 0 => r >= w /\ w > 0)
  BY <1>1, RoundedIs
<1>3. H1!configADJUSTED_HEAP_SIZE = HeapSize1 - Alignment
  BY DEF H1!configADJUSTED_HEAP_SIZE
<1>4. \/ UNCHANGED vars1
      \/ /\ next < HeapSize1 - Alignment /\ next > next1
         /\ next1' = next
         /\ live1' = [q \in DOMAIN live1 \union {p} |->
                        IF q = p THEN w ELSE live1[q]]
  BY <1>3 DEF H1!pvPortMalloc, vars1
<1>5. next1 \in 0 .. SizeLimit - 1 /\ next1 % Alignment = 0
  BY HeapSizesAssumption, HeapAssumption, AlignmentAssumption, LimitAssumption DEF IInv1
<1> HIDE DEF r
<1>6. next = IF next1 + r < SizeLimit THEN next1 + r ELSE next1 + r - SizeLimit
  BY <1>2, <1>5, SumWraps
<1>7. next \in Nat /\ (next > next1 => next = next1 + r /\ r # 0)
  BY <1>2, <1>5, <1>6, LimitAssumption
<1>8. (next1 + r) % Alignment = 0
  BY <1>2, <1>5, AlignedSum, LimitAssumption
<1>9. p \in Nat /\ p % Alignment = 0 /\ p \notin DOMAIN live1
  <2>1. p \in Nat /\ p % Alignment = 0
    BY <1>5, AlignedHeap1, AlignedSum
  <2> QED
    BY <2>1 DEF IInv1
<1> HIDE DEF next, p
<1>10. CASE next > next1 /\ next1' = next
  BY <1>1, <1>2, <1>4, <1>5, <1>7, <1>8, <1>9, <1>10, LimitAssumption DEF p
<1> QED
  BY <1>4, <1>10

\* An end that is within a size stays so behind an address.
LEMMA StaysBelow ==
  ASSUME NEW a \in Nat, NEW b \in Nat, NEW c \in Nat, NEW d \in Nat, b + c <= d
  PROVE  (a + b) + c <= a + d
OBVIOUS

\* pvPortMalloc of heap_1.c keeps the invariant.
LEMMA Malloc1Keeps ==
  ASSUME IInv1, NEW w \in Asked, H1!pvPortMalloc(w)
  PROVE  IInv1'
<1>1. CASE UNCHANGED vars1
  BY <1>1 DEF IInv1, vars1, H1!pucAlignedHeap
<1>2. CASE ~ UNCHANGED vars1
  <2> DEFINE base == H1!pucAlignedHeap
             p == base + next1
  <2>1. /\ next1' \in Nat /\ next1' % Alignment = 0
        /\ next1' < HeapSize1 - Alignment
        /\ w \in Nat /\ w > 0 /\ next1 + w <= next1'
        /\ p \in Nat
        /\ live1' = [q \in DOMAIN live1 \union {p} |->
                       IF q = p THEN w ELSE live1[q]]
    BY <1>2, Malloc1Does
  <2>2. next1 \in Nat /\ base \in Nat
    BY AlignedHeap1 DEF IInv1
  <2>3. DOMAIN live1' = DOMAIN live1 \union {p}
    BY <2>1
  <2>4. ASSUME NEW q \in DOMAIN live1'
        PROVE  q \in Nat /\ live1'[q] \in Nat /\ live1'[q] > 0
               /\ q + live1'[q] <= base + next1'
    <3>1. CASE q = p
      <4>1. live1'[q] = w
        BY <2>1, <3>1
      <4>2. /\ next1' \in Nat /\ w \in Nat /\ w > 0 /\ next1 + w <= next1'
            /\ p \in Nat /\ p = base + next1
        BY <2>1
      <4> HIDE DEF p, base
      <4>3. p + w <= base + next1'
        BY <2>2, <4>2, StaysBelow
      <4> QED
        BY <3>1, <4>1, <4>2, <4>3
    <3>2. CASE q # p
      <4>1. live1'[q] = live1[q] /\ q \in DOMAIN live1
        BY <2>1, <2>3, <3>2
      <4>2. q \in Nat /\ live1[q] \in Nat /\ live1[q] > 0
            /\ q + live1[q] <= H1!pucAlignedHeap + next1
        BY <4>1 DEF IInv1
      <4> QED
        BY <2>1, <2>2, <4>1, <4>2
    <3> QED
      BY <3>1, <3>2
  <2>5. live1' \in [DOMAIN live1' -> Nat]
    BY <2>1, <2>3, <2>4
  <2>6. H1!pucAlignedHeap' = H1!pucAlignedHeap
    BY DEF H1!pucAlignedHeap
  <2> QED
    BY <2>1, <2>4, <2>5, <2>6 DEF IInv1
<1> QED
  BY <1>1, <1>2

\* pvPortMalloc of heap_1.c gives out a new region or nothing.
LEMMA Malloc1Refines ==
  ASSUME IInv1, NEW w \in Asked, H1!pvPortMalloc(w)
  PROVE  H1!A!Next \/ UNCHANGED live1
<1>1. CASE UNCHANGED vars1
  BY <1>1 DEF vars1
<1>2. CASE ~ UNCHANGED vars1
  <2> DEFINE p == H1!pucAlignedHeap + next1
             a == <<HeapAt, HeapAt + HeapSize1>>
  <2>1. /\ next1' \in Nat /\ next1' < HeapSize1 - Alignment
        /\ w \in Nat /\ w > 0 /\ next1 + w <= next1'
        /\ p \in Nat /\ p % Alignment = 0 /\ p \notin DOMAIN live1
        /\ live1' = [q \in DOMAIN live1 \union {p} |->
                       IF q = p THEN w ELSE live1[q]]
    BY <1>2, Malloc1Does
  <2>2. next1 \in Nat
    BY DEF IInv1
  <2>3. HeapAt \in Nat /\ HeapSize1 \in Nat /\ Alignment \in Nat
    BY HeapAssumption, HeapSizesAssumption, AlignmentAssumption
  <2>4. p \in HeapAt .. (HeapAt + HeapSize1) - 1 /\ w \in 1 .. (HeapAt + HeapSize1) - p
    BY <2>1, <2>2, <2>3, AlignedHeap1
  <2>5. live1'[p] = w /\ \A q \in DOMAIN live1 : live1'[q] = live1[q]
    BY <2>1
  <2>6. \A q \in DOMAIN live1 : live1[q] \in Nat /\ q \in Nat /\ q + live1[q] <= p
    BY DEF IInv1
  <2>7. live1' \in [DOMAIN live1 \union {p} -> Nat]
    BY <2>1, <2>6
  <2> HIDE DEF p
  <2>8. \A q \in DOMAIN live1 : H1!A!Apart(p, w, q, live1[q])
    BY <2>6 DEF H1!A!Apart
  <2>9. a[1] = HeapAt /\ a[2] = HeapAt + HeapSize1
    OBVIOUS
  <2> HIDE DEF a
  <2>10. H1!A!Malloc(a, p)
    BY <2>1, <2>4, <2>5, <2>7, <2>8, <2>9 DEF H1!A!Malloc
  <2>11. a \in {<<HeapAt, HeapAt + HeapSize1>>} /\ p \in (a[1] .. a[2] - 1) \ DOMAIN live1
    BY <2>1, <2>4, <2>9 DEF a
  <2> QED
    BY <2>10, <2>11 DEF H1!A!Next
<1> QED
  BY <1>1, <1>2

\* heap_1.c implements the allocator that its callers expect.
THEOREM Heap1Correct == HeapsSpec => Heap1IsAllocator
<1>1. HeapsInit => IInv1 /\ H1!A!Init
  <2>1. ASSUME H1!Init PROVE IInv1 /\ H1!A!Init
    <3>1. next1 = 0 /\ live1 = [p \in {} |-> 0] /\ DOMAIN live1 = {}
      BY <2>1 DEF H1!Init
    <3>2. 0 % Alignment = 0
      BY AlignmentAssumption
    <3> QED
      BY <3>1, <3>2 DEF IInv1, H1!A!Init
  <2> QED
    BY <2>1 DEF HeapsInit
<1>2. ASSUME [HeapsNext]_<<variant, vars, vars1, vars2, vars5, varsS, varsR>>
      PROVE  H1!Next \/ UNCHANGED vars1
  BY <1>2, Zenon DEF HeapsNext
<1>3. IInv1 /\ [HeapsNext]_<<variant, vars, vars1, vars2, vars5, varsS, varsR>>
        => IInv1' /\ [H1!A!Next]_live1
  <2> SUFFICES ASSUME IInv1, H1!Next \/ UNCHANGED vars1
               PROVE  IInv1' /\ [H1!A!Next]_live1
    BY <1>2
  <2>1. CASE H1!Next
    <3>1. PICK w \in Asked : H1!pvPortMalloc(w)
      BY <2>1 DEF H1!Next
    <3> QED
      BY <3>1, Malloc1Keeps, Malloc1Refines
  <2>2. CASE UNCHANGED vars1
    BY <2>2 DEF IInv1, vars1, H1!pucAlignedHeap
  <2> QED
    BY <2>1, <2>2
<1> QED
  BY <1>1, <1>3, PTL DEF HeapsSpec, Heap1IsAllocator, H1!IsAllocator, H1!A!Spec

(***************************************************************************)
(* The report of vPortGetHeapStats.                                        *)
(***************************************************************************)

HP == INSTANCE Heap4_proofs WITH
    HeapSize <- HeapSizeS, heap <- heapS, asked <- askedS, freeing <- freeingS

\* The heap with the statistics has room for a block.
LEMMA StatisticsRoom == HP!First < HP!End
BY StatisticsAssumption
   DEF HS!First, HP!First, HS!End, HP!End, HS!AlignUp, HP!AlignUp,
       HS!AlignDown, HP!AlignDown

\* HS and HP have the same operators, HS in the specification and HP in the theorems
\* about it.
LEMMA SameBlocks ==
  /\ HS!NotInitialised = HP!NotInitialised /\ HS!prvHeapInit = HP!prvHeapInit
  /\ HS!heapMINIMUM_BLOCK_SIZE = HP!heapMINIMUM_BLOCK_SIZE
  /\ \A h, n : HS!Fits(h, n) = HP!Fits(h, n) /\ HS!FirstFit(h, n) = HP!FirstFit(h, n)
  /\ \A h, b : /\ HS!Without(h, b) = HP!Without(h, b)
               /\ HS!CountedOut(h, b) = HP!CountedOut(h, b)
  /\ \A h, b, n : HS!CutInTwo(h, b, n) = HP!CutInTwo(h, b, n)
<1>1. HS!NotInitialised = HP!NotInitialised /\ HS!prvHeapInit = HP!prvHeapInit
  BY Zenon DEF HS!NotInitialised, HP!NotInitialised, HS!prvHeapInit, HP!prvHeapInit,
      HS!heapStart, HP!heapStart, HS!First, HP!First, HS!End, HP!End,
      HS!AlignUp, HP!AlignUp, HS!AlignDown, HP!AlignDown
<1>2. HS!heapMINIMUM_BLOCK_SIZE = HP!heapMINIMUM_BLOCK_SIZE
  BY Zenon DEF HS!heapMINIMUM_BLOCK_SIZE, HP!heapMINIMUM_BLOCK_SIZE
<1>3. \A h, n : HS!Fits(h, n) = HP!Fits(h, n) /\ HS!FirstFit(h, n) = HP!FirstFit(h, n)
  BY Zenon DEF HS!FirstFit, HP!FirstFit, HS!Fits, HP!Fits, HS!InList, HP!InList,
      HS!heapStart, HP!heapStart
<1>4. \A h, b, n : /\ HS!Without(h, b) = HP!Without(h, b)
                  /\ HS!CutInTwo(h, b, n) = HP!CutInTwo(h, b, n)
                  /\ HS!CountedOut(h, b) = HP!CountedOut(h, b)
  BY Zenon DEF HS!Without, HP!Without, HS!CutInTwo, HP!CutInTwo,
      HS!CountedOut, HP!CountedOut, HS!Unlinked, HP!Unlinked
<1> QED
  BY <1>1, <1>2, <1>3, <1>4, Zenon

\* The heap with the statistics inserts blocks as Heap4_proofs proves about.
LEMMA SameInsert ==
  ASSUME NEW h, NEW b
  PROVE  HS!prvInsertBlockIntoFreeList(h, b) = HP!prvInsertBlockIntoFreeList(h, b)
<1>1. \A i, n : /\ HS!JoinsBefore(h, i, b) = HP!JoinsBefore(h, i, b)
               /\ HS!JoinsAfter(h, b, n) = HP!JoinsAfter(h, b, n)
  BY DEF HS!JoinsBefore, HP!JoinsBefore, HS!JoinsAfter, HP!JoinsAfter,
      HS!heapStart, HP!heapStart, HS!End, HP!End, HS!AlignDown, HP!AlignDown
<1>2. HS!pxIterator(h, b) = HP!pxIterator(h, b)
  BY DEF HS!pxIterator, HP!pxIterator
<1> DEFINE it == HS!pxIterator(h, b)
           before == HS!JoinsBefore(h, it, b)
           after == HS!JoinsAfter(h, b, h.next[it])
<1>3. /\ HP!pxIterator(h, b) = it
      /\ HP!JoinsBefore(h, it, b) = before
      /\ HP!JoinsAfter(h, b, h.next[it]) = after
  BY <1>1, <1>2
<1> HIDE DEF it, before, after
<1> QED
  BY <1>3, SMT DEF HS!prvInsertBlockIntoFreeList, HP!prvInsertBlockIntoFreeList,
      it, before, after

\* The steps of the heap with the statistics are those Heap4_proofs proves about.
LEMMA SameNext == HS!Next <=> HP!Next
<1>1. \A h, b, n : HS!Taken(h, b, n) = HP!Taken(h, b, n)
  BY SameBlocks, SameInsert, Zenon DEF HS!Taken, HP!Taken
<1>2. /\ \A w : HS!BlockSize(w) = HP!BlockSize(w)
      /\ \A n : HS!ValidSize(n) = HP!ValidSize(n)
      /\ \A n, s : HS!MultiplyWillOverflow(n, s) = HP!MultiplyWillOverflow(n, s)
  BY DEF HS!BlockSize, HP!BlockSize, HS!ValidSize, HP!ValidSize,
      HS!MultiplyWillOverflow, HP!MultiplyWillOverflow
<1>3. \A b, user : HS!InUse(b, user) = HP!InUse(b, user)
  BY Zenon DEF HS!InUse, HP!InUse
<1>4. HS!Current = HP!Current
  BY SameBlocks, Zenon DEF HS!Current, HP!Current
<1>5. \A w, user : HS!Allocate(w, user) <=> HP!Allocate(w, user)
  BY <1>1, <1>2, <1>3, <1>4, SameBlocks, Zenon DEF HS!Allocate, HP!Allocate
<1>6. \A w : HS!pvPortMalloc(w) <=> HP!pvPortMalloc(w)
  BY <1>5, Zenon DEF HS!pvPortMalloc, HP!pvPortMalloc
<1>7. \A n, s : HS!pvPortCalloc(n, s) <=> HP!pvPortCalloc(n, s)
  BY <1>2, <1>5, Zenon DEF HS!pvPortCalloc, HP!pvPortCalloc
<1>8. \A t, b : HS!vPortFree(t, b) <=> HP!vPortFree(t, b)
  BY Zenon DEF HS!vPortFree, HP!vPortFree
<1>9. \A t : HS!ReturnToList(t) <=> HP!ReturnToList(t)
  BY SameInsert, Zenon DEF HS!ReturnToList, HP!ReturnToList
<1> QED
  BY <1>6, <1>7, <1>8, <1>9, Zenon DEF HS!Next, HP!Next

\* The heap that is reported on is in order, and its minimum never rises.
LEMMA StatisticsHeap ==
  ASSUME HP!IInv, HS!Next \/ UNCHANGED varsS
  PROVE  /\ HP!IInv'
         /\ HP!Initialised => HP!Initialised' /\ heapS'.minimumEver <= heapS.minimumEver
<1>1. [HP!Next]_(HP!vars)
  BY SameNext DEF HP!vars, varsS
<1> QED
  BY <1>1, HP!StepIInv, HP!MinimumStep, AlignmentAssumption, HeaderAssumption,
     HeapAssumption, StatisticsAssumption, StatisticsRoom, LimitAssumption,
     AskedAssumption

CountersApart ==
  HP!Initialised =>
    /\ heapS.minimumEver \in Nat /\ heapS.freeBytes \in Nat
    /\ heapS.minimumEver <= heapS.freeBytes

\* The invariant of heap_4.c relates the two counters that a report reads.
LEMMA StatisticsMinimum == HP!IInv => CountersApart
BY HP!MinimumBelowFree, AlignmentAssumption, HeaderAssumption, HeapAssumption,
   StatisticsAssumption, StatisticsRoom, LimitAssumption, AskedAssumption
   DEF CountersApart

\* What has been read of the counters bounds what is still to be read.
Reported ==
  /\ done \in 0 .. 3
  /\ DOMAIN report = {"blocks", "largest", "smallest", "freeBytes", "minimumEver"}
  /\ done # 0 => HP!Initialised
  /\ done = 2 => report.freeBytes \in Nat /\ heapS.minimumEver <= report.freeBytes
  /\ R!MinimumWithinFree

\* Allocations and frees while a report is made keep what is known of it.
LEMMA HeapKeepsReported ==
  ASSUME HP!IInv, Reported, HS!Next \/ UNCHANGED varsS, UNCHANGED varsR
  PROVE  Reported'
<1>1. report' = report /\ done' = done /\ HP!IInv'
  BY StatisticsHeap DEF varsR
<1>2. done # 0 => HP!Initialised' /\ heapS'.minimumEver <= heapS.minimumEver
  BY StatisticsHeap DEF Reported
<1>3. ASSUME done = 2 PROVE heapS'.minimumEver <= report.freeBytes
  <2>1. HP!IInv' => CountersApart'
    BY StatisticsMinimum, PTL
  <2>2. /\ heapS.minimumEver \in Nat /\ heapS'.minimumEver \in Nat
        /\ report.freeBytes \in Nat /\ heapS.minimumEver <= report.freeBytes
    BY <1>1, <1>2, <1>3, <2>1, StatisticsMinimum DEF Reported, CountersApart
  <2> QED
    BY <1>2, <1>3, <2>2 DEF Reported
<1> QED
  BY <1>1, <1>2, <1>3 DEF Reported, R!MinimumWithinFree

\* The steps of a report keep what is known of it.
LEMMA ReportKeepsReported ==
  ASSUME HP!IInv, Reported, R!vPortGetHeapStats, UNCHANGED varsS
  PROVE  Reported'
<1>1. heapS' = heapS /\ HP!Initialised' = HP!Initialised
  BY DEF varsS, HP!Initialised, HP!NotInitialised
<1>2. CASE R!WalkList
  <2>1. HP!Initialised
    BY <1>2 DEF R!WalkList, HP!Initialised, HP!NotInitialised
  <2>2. done' = 1 /\ DOMAIN report' = DOMAIN report
    BY <1>2 DEF R!WalkList
  <2> QED
    BY <1>1, <2>1, <2>2 DEF Reported, R!MinimumWithinFree
<1>3. CASE R!ReadCounter
  <2>1. done \in {1, 2} /\ HP!Initialised
    BY <1>3 DEF R!ReadCounter, R!Counters, Reported
  <2>2. /\ heapS.minimumEver \in Nat /\ heapS.freeBytes \in Nat
        /\ heapS.minimumEver <= heapS.freeBytes
    BY <2>1, StatisticsMinimum DEF CountersApart
  <2>3. CASE done = 1
    <3>1. done' = 2 /\ report' = [report EXCEPT !["freeBytes"] = heapS["freeBytes"]]
      BY <1>3, <2>3 DEF R!ReadCounter, R!Counters
    <3> QED
      BY <1>1, <2>1, <2>2, <3>1 DEF Reported, R!MinimumWithinFree
  <2>4. CASE done = 2
    <3>1. done' = 3 /\ report' = [report EXCEPT !["minimumEver"] = heapS["minimumEver"]]
      BY <1>3, <2>4 DEF R!ReadCounter, R!Counters
    <3> QED
      BY <1>1, <2>1, <2>2, <2>4, <3>1 DEF Reported, R!MinimumWithinFree
  <2> QED
    BY <2>1, <2>3, <2>4
<1>4. CASE R!Return
  <2>1. done' = 0 /\ DOMAIN report' = DOMAIN report
    BY <1>4 DEF R!Return, R!NoReport, Reported
  <2> QED
    BY <1>1, <2>1 DEF Reported, R!MinimumWithinFree
<1> QED
  BY <1>2, <1>3, <1>4 DEF R!vPortGetHeapStats

\* vPortGetHeapStats reads its counters one by one while tasks change them, and still
\* never reports a minimum above what is free.
THEOREM ReportCorrect == HeapsSpec => []MinimumWithinFree
<1>1. HeapsInit => HP!IInv /\ Reported
  <2>1. HS!Init => HP!Init
    BY SameBlocks DEF HS!Init, HP!Init
  <2>2. HP!Init => HP!IInv
    BY HP!InitIInv, AlignmentAssumption, HeaderAssumption, HeapAssumption,
       StatisticsAssumption, StatisticsRoom, LimitAssumption, AskedAssumption
  <2>3. R!Init => Reported
    BY DEF R!Init, R!NoReport, Reported, R!MinimumWithinFree
  <2> QED
    BY <2>1, <2>2, <2>3 DEF HeapsInit
<1>2. ASSUME HP!IInv, Reported,
             [HeapsNext]_<<variant, vars, vars1, vars2, vars5, varsS, varsR>>
      PROVE  HP!IInv' /\ Reported'
  <2>1. \/ (HS!Next \/ UNCHANGED varsS) /\ UNCHANGED varsR
        \/ R!vPortGetHeapStats /\ UNCHANGED varsS
    BY <1>2, Zenon DEF HeapsNext
  <2> QED
    BY <1>2, <2>1, StatisticsHeap, HeapKeepsReported, ReportKeepsReported
<1>3. Reported => MinimumWithinFree
  BY DEF Reported, MinimumWithinFree
<1> QED
  BY <1>1, <1>2, <1>3, PTL DEF HeapsSpec

(***************************************************************************)
(* The free list of heap_2.c: blocks, each once, in the order of their     *)
(* sizes.                                                                  *)
(***************************************************************************)
BySize(size, list) ==
  /\ list \in Seq(DOMAIN size)
  /\ \A i, j \in 1 .. Len(list) :
        i < j => list[i] # list[j] /\ size[list[i]] <= size[list[j]]

Elements(list) == {list[i] : i \in 1 .. Len(list)}

\* A part of a sequence, from its beginning or to its end.
LEMMA PartIs ==
  ASSUME NEW S, NEW s \in Seq(S), NEW m \in Nat, m >= 1, NEW n \in Nat, n <= Len(s), m <= n + 1
  PROVE  /\ SubSeq(s, m, n) \in Seq(S)
         /\ Len(SubSeq(s, m, n)) = n - m + 1
         /\ \A i \in 1 .. n - m + 1 : SubSeq(s, m, n)[i] = s[m + i - 1]
<1>1. \A i \in m .. n : s[i] \in S
  BY ElementOfSeq
<1> QED
  BY <1>1, SubSeqProperties

\* A sequence without its i-th element, element by element.
LEMMA RemovedIs ==
  ASSUME NEW S, NEW s \in Seq(S), NEW i \in 1 .. Len(s)
  PROVE  LET r == H2!Unlinked(s, i)
         IN  /\ r \in Seq(S)
             /\ Len(r) = Len(s) - 1
             /\ \A j \in 1 .. Len(r) : r[j] = IF j < i THEN s[j] ELSE s[j + 1]
<1> DEFINE a == SubSeq(s, 1, i - 1)
           b == SubSeq(s, i + 1, Len(s))
<1>1. a \in Seq(S) /\ Len(a) = i - 1 /\ \A j \in 1 .. i - 1 : a[j] = s[j]
  BY PartIs
<1>2. /\ b \in Seq(S) /\ Len(b) = Len(s) - i
      /\ \A j \in 1 .. Len(s) - i : b[j] = s[i + j]
  BY PartIs
<1>3. H2!Unlinked(s, i) = a \o b
  BY DEF H2!Unlinked, H2!RemoveAt
<1> HIDE DEF a, b
<1>4. /\ a \o b \in Seq(S) /\ Len(a \o b) = Len(s) - 1
      /\ \A j \in 1 .. Len(s) - 1 : (a \o b)[j] = IF j <= i - 1 THEN a[j] ELSE b[j - (i - 1)]
  <2>1. Len(a) + Len(b) = Len(s) - 1
    BY <1>1, <1>2, LenProperties
  <2>2. /\ a \o b \in Seq(S) /\ Len(a \o b) = Len(a) + Len(b)
        /\ \A j \in 1 .. Len(a) + Len(b) :
              (a \o b)[j] = IF j <= Len(a) THEN a[j] ELSE b[j - Len(a)]
    BY <1>1, <1>2, ConcatProperties
  <2> QED
    BY <1>1, <2>1, <2>2
<1>5. ASSUME NEW j \in 1 .. Len(s) - 1
      PROVE  (a \o b)[j] = IF j < i THEN s[j] ELSE s[j + 1]
  <2>0. Len(s) \in Nat /\ i \in Nat /\ j \in Nat
    BY LenProperties
  <2>1. CASE j < i
    BY <1>1, <1>4, <2>1
  <2>2. CASE j >= i
    <3>1. j - (i - 1) \in 1 .. Len(s) - i /\ i + (j - (i - 1)) = j + 1
      BY <2>2
    <3> QED
      BY <1>2, <1>4, <2>2, <3>1
  <2>3. j < i \/ j >= i
    BY <2>0
  <2> QED
    BY <2>1, <2>2, <2>3
<1> QED
  BY <1>3, <1>4, <1>5

\* r is s with e in the place i.
HasInserted(r, s, i, e) ==
  /\ Len(r) = Len(s) + 1
  /\ \A j \in 1 .. Len(r) :
        r[j] = IF j < i THEN s[j] ELSE IF j = i THEN e ELSE s[j - 1]

\* A sequence with an element put before its i-th, element by element.
LEMMA InsertedIs ==
  ASSUME NEW S, NEW s \in Seq(S), NEW i \in 1 .. Len(s) + 1, NEW e \in S,
         NEW r, r = H2!InsertAt(s, i, e)
  PROVE  r \in Seq(S) /\ HasInserted(r, s, i, e)
<1> DEFINE a == SubSeq(s, 1, i - 1)
           b == SubSeq(s, i, Len(s))
           ae == a \o <<e>>
           q == ae \o b
<1>1. a \in Seq(S) /\ Len(a) = i - 1 /\ \A j \in 1 .. i - 1 : a[j] = s[j]
  BY PartIs
<1>2. /\ b \in Seq(S) /\ Len(b) = Len(s) - i + 1
      /\ \A j \in 1 .. Len(s) - i + 1 : b[j] = s[i + j - 1]
  BY PartIs
<1>3. r = q
  BY DEF H2!InsertAt
<1>4. <<e>> \in Seq(S) /\ Len(<<e>>) = 1 /\ <<e>>[1] = e
  OBVIOUS
<1> HIDE DEF a, b
<1>5. /\ ae \in Seq(S) /\ Len(ae) = i
      /\ \A j \in 1 .. i : ae[j] = IF j <= i - 1 THEN a[j] ELSE <<e>>[j - (i - 1)]
  BY <1>1, <1>4, ConcatProperties
<1> HIDE DEF ae
<1>6. /\ q \in Seq(S) /\ Len(q) = Len(s) + 1
      /\ \A j \in 1 .. Len(s) + 1 : q[j] = IF j <= i THEN ae[j] ELSE b[j - i]
  <2>1. Len(ae) + Len(b) = Len(s) + 1
    BY <1>2, <1>5, LenProperties
  <2>2. /\ q \in Seq(S) /\ Len(q) = Len(ae) + Len(b)
        /\ \A j \in 1 .. Len(ae) + Len(b) :
              q[j] = IF j <= Len(ae) THEN ae[j] ELSE b[j - Len(ae)]
    BY <1>2, <1>5, ConcatProperties
  <2> QED
    BY <1>5, <2>1, <2>2
<1> HIDE DEF q
<1>7. ASSUME NEW j \in 1 .. Len(s) + 1
      PROVE  q[j] = IF j < i THEN s[j] ELSE IF j = i THEN e ELSE s[j - 1]
  <2>1. CASE j < i
    BY <1>1, <1>5, <1>6, <2>1
  <2>2. CASE j = i
    BY <1>4, <1>5, <1>6, <2>2
  <2>3. CASE j > i
    <3>1. j - i \in 1 .. Len(s) - i + 1 /\ i + (j - i) - 1 = j - 1
      BY <2>3
    <3>2. q[j] = b[j - i] /\ b[j - i] = s[i + (j - i) - 1]
      BY <1>2, <1>6, <2>3, <3>1
    <3> QED
      BY <2>3, <3>1, <3>2
  <2> QED
    BY <2>1, <2>2, <2>3
<1> QED
  BY <1>3, <1>6, <1>7 DEF HasInserted

\* A list by size has blocks as its elements, each once.
LEMMA ElementsTypes ==
  ASSUME NEW size, NEW list, BySize(size, list)
  PROVE  /\ Len(list) \in Nat /\ DOMAIN list = 1 .. Len(list)
         /\ \A i \in 1 .. Len(list) : list[i] \in DOMAIN size
         /\ Elements(list) \subseteq DOMAIN size
         /\ \A i, j \in 1 .. Len(list) : list[i] = list[j] => i = j
<1>1. list \in Seq(DOMAIN size)
  BY DEF BySize
<1>2. Len(list) \in Nat /\ DOMAIN list = 1 .. Len(list)
  BY <1>1, LenProperties
<1>3. \A i \in 1 .. Len(list) : list[i] \in DOMAIN size
  BY <1>1, ElementOfSeq
<1>4. \A i, j \in 1 .. Len(list) : list[i] = list[j] => i = j
  <2> SUFFICES ASSUME NEW i \in 1 .. Len(list), NEW j \in 1 .. Len(list), i # j
               PROVE  list[i] # list[j]
    OBVIOUS
  <2>1. i < j \/ j < i
    BY <1>2
  <2> QED
    BY <2>1 DEF BySize
<1> QED
  BY <1>2, <1>3, <1>4 DEF Elements

\* Each block is in the list once.
LEMMA LengthIs ==
  ASSUME NEW size, NEW list, BySize(size, list)
  PROVE  IsFiniteSet(Elements(list)) /\ Len(list) = Cardinality(Elements(list))
<1> DEFINE n == Len(list)
           S == 1 .. n
           T == Elements(list)
<1>1. n \in Nat /\ DOMAIN list = S /\ \A i, j \in S : list[i] = list[j] => i = j
  BY ElementsTypes
<1>2. list \in [S -> T]
  <2>1. list \in Seq(DOMAIN size)
    BY DEF BySize
  <2>2. list \in [S -> DOMAIN size]
    BY <2>1, LenProperties
  <2> QED
    BY <2>2 DEF Elements
<1>3. \A t \in T : \E i \in S : list[i] = t
  BY DEF Elements
<1> HIDE DEF S, T
<1>4. list \in Bijection(S, T)
  BY <1>1, <1>2, <1>3 DEF Bijection, Injection, Surjection, IsInjective
<1>5. ExistsBijection(S, T)
  BY <1>4 DEF ExistsBijection
<1>6. IsFiniteSet(S) /\ Cardinality(S) = n
  <2>1. 1 \in Int /\ n \in Int /\ (1 > n => n = 0)
    BY <1>1
  <2> HIDE DEF n
  <2> QED
    BY <2>1, FS_Interval DEF S
<1> QED
  BY <1>5, <1>6, FS_Bijection DEF T

\* Only the sizes of its blocks matter to the list.
LEMMA SameSizes ==
  ASSUME NEW size, NEW list, BySize(size, list), NEW other,
         \A b \in Elements(list) : b \in DOMAIN other /\ other[b] = size[b]
  PROVE  BySize(other, list)
<1>1. list \in Seq(DOMAIN size) /\ \A i \in 1 .. Len(list) : list[i] \in Elements(list)
  BY DEF BySize, Elements
<1>2. list \in Seq(DOMAIN other)
  <2>1. Len(list) \in Nat /\ DOMAIN list = 1 .. Len(list)
    BY ElementsTypes
  <2>2. list \in [1 .. Len(list) -> DOMAIN size]
    BY <1>1, LenProperties
  <2>3. list \in [1 .. Len(list) -> DOMAIN other]
    BY <1>1, <2>1, <2>2
  <2> QED
    BY <2>1, <2>3
<1> QED
  BY <1>1, <1>2 DEF BySize

\* A list by size is one without any one of its blocks.
LEMMA RemovedBySize ==
  ASSUME NEW size, NEW list, BySize(size, list), NEW i \in 1 .. Len(list)
  PROVE  /\ BySize(size, H2!Unlinked(list, i))
         /\ Elements(H2!Unlinked(list, i)) = Elements(list) \ {list[i]}
<1> DEFINE r == H2!Unlinked(list, i)
           at(j) == IF j < i THEN j ELSE j + 1
<1>1. list \in Seq(DOMAIN size)
  BY DEF BySize
<1>2. Len(list) \in Nat /\ \A j, k \in 1 .. Len(list) : list[j] = list[k] => j = k
  BY ElementsTypes
<1>3. /\ r \in Seq(DOMAIN size) /\ Len(r) = Len(list) - 1
      /\ \A j \in 1 .. Len(r) : r[j] = IF j < i THEN list[j] ELSE list[j + 1]
  BY <1>1, RemovedIs
<1> HIDE DEF r
<1>4. \A j \in 1 .. Len(r) : at(j) \in 1 .. Len(list) /\ at(j) # i /\ r[j] = list[at(j)]
  BY <1>2, <1>3
<1>5. \A j, k \in 1 .. Len(r) : j < k => at(j) < at(k)
  BY <1>2, <1>3
<1>6. \A k \in 1 .. Len(list) : k # i => \E j \in 1 .. Len(r) : at(j) = k
  <2> TAKE k \in 1 .. Len(list)
  <2> HAVE k # i
  <2>1. CASE k < i
    <3>1. k \in 1 .. Len(r) /\ at(k) = k
      BY <1>2, <1>3, <2>1
    <3> QED
      BY <3>1
  <2>2. CASE k > i
    <3>1. k - 1 \in 1 .. Len(r) /\ at(k - 1) = k
      BY <1>2, <1>3, <2>2
    <3> QED
      BY <3>1
  <2> QED
    BY <1>2, <2>1, <2>2
<1> HIDE DEF at
<1>7. BySize(size, r)
  <2>1. ASSUME NEW j \in 1 .. Len(r), NEW k \in 1 .. Len(r), j < k
        PROVE  r[j] # r[k] /\ size[r[j]] <= size[r[k]]
    <3>1. at(j) \in 1 .. Len(list) /\ at(k) \in 1 .. Len(list) /\ at(j) < at(k)
      BY <1>4, <1>5, <2>1
    <3>2. list[at(j)] # list[at(k)] /\ size[list[at(j)]] <= size[list[at(k)]]
      BY <3>1 DEF BySize
    <3> QED
      BY <1>4, <3>2
  <2> QED
    BY <1>3, <2>1 DEF BySize
<1>8. Elements(r) = Elements(list) \ {list[i]}
  <2>1. \A j \in 1 .. Len(r) : r[j] \in Elements(list) /\ r[j] # list[i]
    BY <1>2, <1>4 DEF Elements
  <2>2. \A k \in 1 .. Len(list) : list[k] # list[i] => list[k] \in Elements(r)
    BY <1>4, <1>6 DEF Elements
  <2> QED
    BY <2>1, <2>2 DEF Elements
<1> QED
  BY <1>7, <1>8 DEF r

Fields2 == {"size", "list", "freeBytes"}

\* The loop of prvInsertBlockIntoFreeList stops before the first block that is not
\* smaller, or at the end.
LEMMA IteratorIs ==
  ASSUME NEW size, NEW list, BySize(size, list), NEW b
  PROVE  \E i \in 0 .. Len(list) :
            /\ \A j \in 1 .. i : size[list[j]] < size[b]
            /\ i = Len(list) \/ ~ (\A j \in 1 .. i + 1 : size[list[j]] < size[b])
<1> DEFINE smaller(i) == \A j \in 1 .. i : size[list[j]] < size[b]
           S == {i \in 0 .. Len(list) : smaller(i)}
<1>1. Len(list) \in Nat
  BY ElementsTypes
<1>2. smaller(0)
  OBVIOUS
<1> HIDE DEF smaller
<1>3. S \in SUBSET Nat /\ S # {} /\ \A n \in S : n <= Len(list)
  BY <1>1, <1>2
<1>4. PICK m \in S : \A n \in S : n <= m
  BY <1>1, <1>3, Highest
<1>5. m \in 0 .. Len(list) /\ smaller(m)
  BY <1>4
<1>6. m = Len(list) \/ ~smaller(m + 1)
  BY <1>1, <1>4, <1>5
<1> QED
  BY <1>5, <1>6 DEF smaller

\* A block before all that are larger and after all that are smaller.
LEMMA InsertedOrdered ==
  ASSUME NEW size, NEW list, NEW b \in DOMAIN size, b \notin Elements(list),
         NEW i \in Nat, NEW r, r = H2!InsertAt(list, i + 1, b),
         BySize(size, list), i <= Len(list),
         \A j \in 1 .. Len(list) :
            IF j <= i THEN size[list[j]] <= size[b] ELSE size[b] <= size[list[j]]
  PROVE  BySize(size, r) /\ Elements(r) = Elements(list) \union {b}
<1> DEFINE S == DOMAIN size
           place == i + 1
<1>1. list \in Seq(S)
  BY DEF BySize
<1>2. Len(list) \in Nat /\ i \in 0 .. Len(list)
  BY ElementsTypes
<1>3. place \in 1 .. Len(list) + 1 /\ b \in S /\ r = H2!InsertAt(list, place, b)
  BY <1>2
<1> HIDE DEF S, place
<1>4. r \in Seq(S) /\ HasInserted(r, list, place, b)
  BY <1>1, <1>3, InsertedIs
<1>5. Len(r) = Len(list) + 1
  BY <1>4 DEF HasInserted
<1>6. \A j \in 1 .. Len(r) :
         r[j] = IF j < i + 1 THEN list[j] ELSE IF j = i + 1 THEN b ELSE list[j - 1]
  BY <1>4 DEF HasInserted, place
<1>7. BySize(size, r)
  <2> SUFFICES ASSUME NEW j \in 1 .. Len(r), NEW k \in 1 .. Len(r), j < k
               PROVE  r[j] # r[k] /\ size[r[j]] <= size[r[k]]
    BY <1>4, <1>5, <1>6 DEF BySize, S
  <2>1. BySize(size, list) /\ \A n \in 1 .. Len(list) : list[n] # b
    BY DEF Elements
  <2>2. \A m, n \in 1 .. Len(list) :
           m < n => list[m] # list[n] /\ size[list[m]] <= size[list[n]]
    BY <2>1 DEF BySize
  <2>3. CASE k < i + 1
    <3>1. j \in 1 .. Len(list) /\ k \in 1 .. Len(list) /\ r[j] = list[j] /\ r[k] = list[k]
      BY <1>2, <1>5, <1>6, <2>3
    <3> QED
      BY <2>2, <3>1
  <2>4. CASE k = i + 1
    <3>1. j \in 1 .. Len(list) /\ j <= i /\ r[j] = list[j] /\ r[k] = b
      BY <1>2, <1>5, <1>6, <2>4
    <3> QED
      BY <2>1, <3>1
  <2>5. CASE k > i + 1 /\ j < i + 1
    <3>1. /\ j \in 1 .. Len(list) /\ k - 1 \in 1 .. Len(list) /\ j < k - 1
          /\ r[j] = list[j] /\ r[k] = list[k - 1]
      BY <1>2, <1>5, <1>6, <2>5
    <3> QED
      BY <2>2, <3>1
  <2>6. CASE k > i + 1 /\ j = i + 1
    <3>1. /\ k - 1 \in 1 .. Len(list) /\ k - 1 > i
          /\ r[j] = b /\ r[k] = list[k - 1]
      BY <1>2, <1>5, <1>6, <2>6
    <3>2. ~(k - 1 <= i)
      BY <1>2, <3>1
    <3> QED
      BY <2>1, <3>1, <3>2
  <2>7. CASE k > i + 1 /\ j > i + 1
    <3>1. /\ j - 1 \in 1 .. Len(list) /\ k - 1 \in 1 .. Len(list) /\ j - 1 < k - 1
          /\ r[j] = list[j - 1] /\ r[k] = list[k - 1]
      BY <1>2, <1>5, <1>6, <2>7
    <3> QED
      BY <2>2, <3>1
  <2>8. \/ k < i + 1
        \/ k = i + 1
        \/ k > i + 1 /\ j < i + 1
        \/ k > i + 1 /\ j = i + 1
        \/ k > i + 1 /\ j > i + 1
    BY <1>2, <1>5, <1>6
  <2> QED
    BY <2>3, <2>4, <2>5, <2>6, <2>7, <2>8
<1>8. Elements(r) = Elements(list) \union {b}
  <2>1. \A j \in 1 .. Len(r) : r[j] \in Elements(list) \union {b}
    BY <1>2, <1>5, <1>6 DEF Elements
  <2>2. i + 1 \in 1 .. Len(r) /\ r[i + 1] = b
    BY <1>2, <1>5, <1>6
  <2>3. ASSUME NEW j \in 1 .. Len(list)
        PROVE  list[j] \in Elements(r)
    <3>1. CASE j < i + 1
      <4>1. j \in 1 .. Len(r) /\ r[j] = list[j]
        BY <1>2, <1>5, <1>6, <3>1
      <4> QED
        BY <4>1 DEF Elements
    <3>2. CASE j >= i + 1
      <4>1. j + 1 \in 1 .. Len(r) /\ r[j + 1] = list[j]
        BY <1>2, <1>5, <1>6, <3>2
      <4> QED
        BY <4>1 DEF Elements
    <3>3. j < i + 1 \/ j >= i + 1
      BY <1>2
    <3> QED
      BY <3>1, <3>2, <3>3
  <2> QED
    BY <2>1, <2>2, <2>3 DEF Elements
<1> QED
  BY <1>7, <1>8

\* prvInsertBlockIntoFreeList adds the block and keeps the list in order of size.
LEMMA InsertedBySize ==
  ASSUME NEW h, DOMAIN h = Fields2, BySize(h.size, h.list), h.size \in [DOMAIN h.size -> Nat],
         NEW b \in DOMAIN h.size, b \notin Elements(h.list)
  PROVE  LET r == H2!prvInsertBlockIntoFreeList(h, b)
         IN  /\ DOMAIN r = Fields2 /\ r.size = h.size /\ r.freeBytes = h.freeBytes
             /\ BySize(h.size, r.list)
             /\ Elements(r.list) = Elements(h.list) \union {b}
<1> DEFINE size == h.size
           list == h.list
           smaller(i) == \A j \in 1 .. i : size[list[j]] < size[b]
           i == CHOOSE i \in 0 .. Len(list) :
                  smaller(i) /\ (i = Len(list) \/ ~smaller(i + 1))
           r == H2!InsertAt(list, i + 1, b)
<1>1. H2!prvInsertBlockIntoFreeList(h, b) = [h EXCEPT !.list = r]
  BY DEF H2!prvInsertBlockIntoFreeList
<1>2. Len(list) \in Nat /\ \A j \in 1 .. Len(list) : list[j] \in DOMAIN size
  BY ElementsTypes
<1>3. \E k \in 0 .. Len(list) : smaller(k) /\ (k = Len(list) \/ ~smaller(k + 1))
  BY IteratorIs
<1>4. i \in 0 .. Len(list) /\ smaller(i) /\ (i = Len(list) \/ ~smaller(i + 1))
  BY <1>3, Zenon
<1> HIDE DEF i
<1>5. \A j \in 1 .. Len(list) :
         IF j <= i THEN size[list[j]] <= size[b] ELSE size[b] <= size[list[j]]
  <2>1. \A j \in 1 .. Len(list) : size[list[j]] \in Nat /\ size[b] \in Nat
    BY <1>2
  <2>2. ASSUME NEW j \in 1 .. Len(list), j <= i
        PROVE  size[list[j]] <= size[b]
    BY <1>2, <1>4, <2>1, <2>2
  <2>3. ASSUME NEW j \in 1 .. Len(list), j > i
        PROVE  size[b] <= size[list[j]]
    <3>1. i + 1 \in 1 .. Len(list) /\ ~smaller(i + 1)
      BY <1>2, <1>4, <2>3
    <3>2. ~ (size[list[i + 1]] < size[b])
      BY <1>2, <1>4, <3>1
    <3>3. size[list[i + 1]] <= size[list[j]]
      <4>1. i + 1 = j \/ i + 1 < j
        BY <1>2, <1>4, <2>3
      <4> QED
        BY <2>1, <3>1, <4>1 DEF BySize
    <3> QED
      BY <2>1, <3>1, <3>2, <3>3
  <2> QED
    BY <1>2, <1>4, <2>2, <2>3
<1> HIDE DEF r, smaller
<1>6. BySize(size, r) /\ Elements(r) = Elements(list) \union {b}
  <2>1. /\ i \in Nat /\ i <= Len(list) /\ BySize(size, list)
        /\ b \in DOMAIN size /\ b \notin Elements(list)
    BY <1>2, <1>4
  <2>2. r = H2!InsertAt(list, i + 1, b)
    BY DEF r
  <2> HIDE DEF size, list
  <2> QED
    BY <1>5, <2>1, <2>2, InsertedOrdered
<1> QED
  BY <1>1, <1>6 DEF Fields2


(***************************************************************************)
(* The blocks of heap_2.c.                                                 *)
(***************************************************************************)
End2 == H2!First + H2!configADJUSTED_HEAP_SIZE

\* What BlocksPartition says of the blocks, of any function from blocks to sizes.
Parts(size) ==
  /\ DOMAIN size # {}
  /\ DOMAIN size \subseteq H2!First .. End2 - 1
  /\ size \in [DOMAIN size -> Nat \ {0}]
  /\ \A b \in DOMAIN size : b % Alignment = 0 /\ b + size[b] <= End2
  /\ \A b, c \in DOMAIN size : b < c => b + size[b] <= c
  /\ Bytes(size, DOMAIN size) = H2!First .. End2 - 1

\* The heap of heap_2.c begins at an aligned address and lies inside ucHeap.
LEMMA Ends2 ==
  /\ H2!First \in Nat /\ H2!First % Alignment = 0 /\ HeapAt <= H2!First
  /\ H2!configADJUSTED_HEAP_SIZE \in Nat /\ H2!configADJUSTED_HEAP_SIZE > 0
  /\ End2 \in Nat /\ H2!First < End2 /\ End2 <= HeapAt + HeapSize2
<1>1. HeapAt \in Nat /\ HeapSize2 \in Nat /\ Alignment \in Nat /\ Alignment > 0
      /\ HeapSize2 - Alignment \in Nat /\ HeapSize2 - Alignment > 0
  BY HeapAssumption, HeapSizesAssumption, AlignmentAssumption, HeaderAssumption
<1>2. /\ H2!First \in Nat /\ H2!First % Alignment = 0
      /\ HeapAt <= H2!First /\ H2!First < HeapAt + Alignment
  BY <1>1, RoundedUp DEF H2!First
<1> QED
  BY <1>1, <1>2 DEF End2, H2!configADJUSTED_HEAP_SIZE

\* Parts of the heap lie inside it and are not empty.
LEMMA PartsTypes ==
  ASSUME NEW size, Parts(size)
  PROVE  /\ DOMAIN size \subseteq Nat /\ size \in [DOMAIN size -> Nat]
         /\ \A b \in DOMAIN size :
               b \in Nat /\ size[b] \in Nat /\ size[b] >= 1 /\ H2!First <= b /\ b + size[b] <= End2
BY Ends2 DEF Parts

\* Two parts of the heap do not overlap.
LEMMA PartsApart ==
  ASSUME NEW size, Parts(size), NEW b \in DOMAIN size, NEW c \in DOMAIN size, b # c
  PROVE  b + size[b] <= c \/ c + size[c] <= b
BY PartsTypes DEF Parts

\* Blocks are still parts of the heap when one is cut in two.
LEMMA CutParts ==
  ASSUME NEW size, Parts(size), NEW b \in DOMAIN size,
         NEW n \in Nat, n > 0, n < size[b], n % Alignment = 0
  PROVE  Parts(Cut(size, b, n)) /\ b + n \notin DOMAIN size
<1> DEFINE new == Cut(size, b, n)
           r == b + n
<1>1. /\ b \in Nat /\ H2!First <= b /\ size[b] \in Nat /\ b + size[b] <= End2
      /\ b % Alignment = 0
      /\ \A c \in DOMAIN size : c \in Nat /\ size[c] \in Nat /\ size[c] >= 1
                                /\ H2!First <= c /\ c + size[c] <= End2
      /\ \A c, d \in DOMAIN size : c # d => c + size[c] <= d \/ d + size[d] <= c
  BY PartsTypes, PartsApart DEF Parts
<1>2. /\ DOMAIN new = DOMAIN size \union {r}
      /\ \A x \in DOMAIN new :
            new[x] = IF x = b THEN n ELSE IF x = r THEN size[b] - n ELSE size[x]
  BY DEF Cut
<1> HIDE DEF new
<1>3. r \in Nat /\ b < r /\ r < b + size[b] /\ End2 \in Nat /\ H2!First \in Nat
  BY <1>1, Ends2
<1>4. r \notin DOMAIN size
  <2> SUFFICES ASSUME r \in DOMAIN size PROVE FALSE
    OBVIOUS
  <2>1. r # b /\ size[r] >= 1 /\ size[r] \in Nat
    BY <1>1, <1>3
  <2>2. b + size[b] <= r \/ r + size[r] <= b
    BY <1>1, <2>1
  <2> QED
    BY <1>1, <1>3, <2>1, <2>2
<1>5. r % Alignment = 0
  BY <1>1, AlignedSum
<1>6. new[b] = n /\ new[r] = size[b] - n /\ r + new[r] = b + size[b] /\ b + new[b] = r
  BY <1>1, <1>2, <1>3
<1> HIDE DEF r
<1>7. \A x \in DOMAIN size : x # b => new[x] = size[x]
  BY <1>2, <1>4
<1>8. ASSUME NEW x \in DOMAIN new
      PROVE  /\ x \in H2!First .. End2 - 1 /\ new[x] \in Nat \ {0}
             /\ x % Alignment = 0 /\ x + new[x] <= End2
  <2>1. CASE x = b
    BY <1>1, <1>3, <1>6, <2>1
  <2>2. CASE x = r
    BY <1>1, <1>3, <1>5, <1>6, <2>2
  <2>3. CASE x # b /\ x # r
    <3>1. x \in DOMAIN size /\ new[x] = size[x]
      BY <1>2, <1>7, <2>3
    <3> QED
      BY <1>1, <1>3, <3>1 DEF Parts
  <2> QED
    BY <2>1, <2>2, <2>3
<1>9. ASSUME NEW x \in DOMAIN new, NEW y \in DOMAIN new, x < y
      PROVE  x + new[x] <= y
  <2>1. CASE x = r
    <3>1. y \in DOMAIN size /\ y # b
      BY <1>1, <1>2, <1>3, <1>9, <2>1
    <3>2. b + size[b] <= y \/ y + size[y] <= b
      BY <1>1, <3>1
    <3> QED
      BY <1>1, <1>3, <1>6, <1>9, <2>1, <3>1, <3>2
  <2>2. CASE x = b
    <3>1. CASE y = r
      BY <1>3, <1>6, <2>2, <3>1
    <3>2. CASE y # r
      <4>1. y \in DOMAIN size /\ y # b
        BY <1>1, <1>2, <1>9, <2>2, <3>2
      <4>2. b + size[b] <= y
        BY <1>1, <1>9, <2>2, <4>1
      <4> QED
        BY <1>1, <1>3, <1>6, <2>2, <4>1, <4>2
    <3> QED
      BY <3>1, <3>2
  <2>3. CASE x # b /\ x # r
    <3>1. x \in DOMAIN size /\ new[x] = size[x]
      BY <1>2, <1>7, <2>3
    <3>2. CASE y = r
      <4>1. x + size[x] <= b \/ b + size[b] <= x
        BY <1>1, <2>3, <3>1
      <4> QED
        BY <1>1, <1>3, <1>9, <3>1, <3>2, <4>1
    <3>3. CASE y # r
      BY <1>1, <1>2, <1>9, <3>1, <3>3
    <3> QED
      BY <3>2, <3>3
  <2> QED
    BY <2>1, <2>2, <2>3
<1>10. Bytes(new, DOMAIN new) = Bytes(size, DOMAIN size)
  <2>1. b .. b + size[b] - 1 = (b .. b + new[b] - 1) \union (r .. r + new[r] - 1)
    BY <1>1, <1>3, <1>6
  <2>2. Bytes(size, DOMAIN size)
          = Bytes(size, DOMAIN size \ {b}) \union (b .. b + size[b] - 1)
    BY DEF Bytes
  <2>3. Bytes(new, DOMAIN new)
          = Bytes(new, DOMAIN size \ {b}) \union (b .. b + new[b] - 1) \union (r .. r + new[r] - 1)
    BY <1>2 DEF Bytes
  <2>4. Bytes(new, DOMAIN size \ {b}) = Bytes(size, DOMAIN size \ {b})
    BY <1>7 DEF Bytes
  <2> HIDE DEF new
  <2> QED
    BY <2>1, <2>2, <2>3, <2>4
<1>11. Parts(new)
  <2>1. DOMAIN new # {} /\ DOMAIN new \subseteq H2!First .. End2 - 1
    BY <1>2, <1>8
  <2>2. new \in [DOMAIN new -> Nat \ {0}]
    <3>1. new = [x \in DOMAIN new |-> new[x]]
      BY DEF new, Cut
    <3> QED
      BY <1>8, <3>1
  <2> QED
    BY <1>8, <1>9, <1>10, <2>1, <2>2 DEF Parts
<1> QED
  BY <1>4, <1>11 DEF new, r

\* The bytes of some parts can be counted.
LEMMA PartsBounded ==
  ASSUME NEW size, Parts(size), NEW S \in SUBSET DOMAIN size
  PROVE  /\ IsFiniteSet(Bytes(size, S)) /\ Cardinality(Bytes(size, S)) \in Nat
<1> DEFINE all == H2!First .. End2 - 1
           some == Bytes(size, S)
<1>1. some \in SUBSET all
  BY DEF Bytes, Parts
<1>2. IsFiniteSet(all)
  <2>1. H2!First \in Int /\ End2 - 1 \in Int
    BY Ends2
  <2> QED
    BY <2>1, FS_Interval
<1> HIDE DEF all, some
<1>3. IsFiniteSet(some) /\ Cardinality(some) \in Nat
  BY <1>1, <1>2, FS_Subset, FS_CardinalityType
<1> QED
  BY <1>3 DEF some

\* The bytes of one part more are its size more.
LEMMA PartsCounted ==
  ASSUME NEW size, Parts(size), NEW S \in SUBSET DOMAIN size,
         NEW b \in DOMAIN size, b \notin S
  PROVE  Cardinality(Bytes(size, S) \union (b .. b + size[b] - 1))
           = Cardinality(Bytes(size, S)) + size[b]
<1>1. DOMAIN size \subseteq Nat /\ size \in [DOMAIN size -> Nat]
  BY PartsTypes
<1>2. \A x, y \in DOMAIN size : x < y => x + size[x] <= y
  BY DEF Parts
<1>3. IsFiniteSet(Bytes(size, S))
  BY PartsBounded
<1> QED
  BY <1>1, <1>2, <1>3, BytesCounted

Ordered2(h) ==
  /\ DOMAIN h = Fields2
  /\ Parts(h.size)
  /\ BySize(h.size, h.list)

Exact2(h) == h.freeBytes = Cardinality(Bytes(h.size, Elements(h.list)))

Unlisted2(h) == DOMAIN h.size \ Elements(h.list)

\* The step of vPortFree that puts block b into the list.
LEMMA ReturnKeeps2 ==
  ASSUME NEW h, Ordered2(h), Exact2(h), NEW b \in Unlisted2(h)
  PROVE  LET r == [H2!prvInsertBlockIntoFreeList(h, b) EXCEPT
                     !.freeBytes = h.freeBytes + h.size[b]]
         IN  /\ Ordered2(r) /\ Exact2(r)
             /\ Unlisted2(r) = Unlisted2(h) \ {b}
             /\ r.size = h.size
<1> DEFINE list == H2!prvInsertBlockIntoFreeList(h, b)
           r == [list EXCEPT !.freeBytes = h.freeBytes + h.size[b]]
           old == Elements(h.list)
<1>1. /\ DOMAIN h = Fields2 /\ Parts(h.size) /\ BySize(h.size, h.list)
      /\ b \in DOMAIN h.size /\ b \notin old /\ h.size \in [DOMAIN h.size -> Nat]
  BY PartsTypes DEF Unlisted2, Ordered2
<1>2. old \in SUBSET DOMAIN h.size
  BY <1>1, ElementsTypes
<1>3. /\ DOMAIN list = Fields2 /\ list.size = h.size /\ list.freeBytes = h.freeBytes
      /\ BySize(h.size, list.list) /\ Elements(list.list) = old \union {b}
  BY <1>1, InsertedBySize
<1> HIDE DEF list
<1>4. /\ DOMAIN r = Fields2 /\ r.size = h.size /\ r.list = list.list
      /\ r.freeBytes = h.freeBytes + h.size[b]
  BY <1>3 DEF Fields2
<1> HIDE DEF r
<1>5. Ordered2(r)
  BY <1>1, <1>3, <1>4 DEF Ordered2
<1>6. Unlisted2(r) = Unlisted2(h) \ {b}
  BY <1>3, <1>4 DEF Unlisted2
<1>7. Exact2(r)
  <2>1. Bytes(h.size, old \union {b}) = Bytes(h.size, old) \union (b .. b + h.size[b] - 1)
    BY DEF Bytes
  <2>2. Cardinality(Bytes(h.size, old \union {b})) = Cardinality(Bytes(h.size, old)) + h.size[b]
    BY <1>1, <1>2, <2>1, PartsCounted
  <2> QED
    BY <1>3, <1>4, <2>2 DEF Exact2
<1> QED
  BY <1>4, <1>5, <1>6, <1>7 DEF r, list

\* What pvPortMalloc of heap_2.c makes of the heap is in order and counted, the block
\* it took is out of the list and long enough, and no other such block has changed.
LEMMA TakenKeeps2 ==
  ASSUME NEW h, Ordered2(h), Exact2(h), NEW i \in 1 .. Len(h.list), NEW b, b = h.list[i],
         NEW n \in Nat, n > 0, n % Alignment = 0, n <= h.size[b]
  PROVE  LET r == H2!Taken(h, i, n)
         IN  /\ Ordered2(r) /\ Exact2(r)
             /\ Unlisted2(r) = Unlisted2(h) \union {b}
             /\ n <= r.size[b]
             /\ \A x \in Unlisted2(h) : r.size[x] = h.size[x]
<1> DEFINE old == Elements(h.list)
           split == h.size[b] - n > H2!heapMINIMUM_BLOCK_SIZE
           cut == Cut(h.size, b, n)
           rest == H2!Unlinked(h.list, i)
           h0 == [h EXCEPT !.list = rest]
           h1 == [h0 EXCEPT !.size = cut]
           list == IF split THEN H2!prvInsertBlockIntoFreeList(h1, b + n) ELSE h0
           r == [list EXCEPT !.freeBytes = h.freeBytes - list.size[b]]
<1>1. DOMAIN h = Fields2 /\ Parts(h.size) /\ BySize(h.size, h.list)
  BY DEF Ordered2
<1>2. /\ b \in old /\ old \in SUBSET DOMAIN h.size /\ b \in DOMAIN h.size
      /\ h.size[b] \in Nat /\ b \in Nat
  <2>1. b \in old /\ old \subseteq DOMAIN h.size
    BY <1>1, ElementsTypes DEF Elements
  <2> QED
    BY <1>1, <2>1, PartsTypes
<1>3. H2!Taken(h, i, n) = r
  BY DEF H2!Taken, Cut
<1>4. BySize(h.size, rest) /\ Elements(rest) = old \ {b}
  BY <1>1, RemovedBySize
\* Without b, the list has its bytes less.
<1>5. Cardinality(Bytes(h.size, old)) = Cardinality(Bytes(h.size, old \ {b})) + h.size[b]
  <2>1. Bytes(h.size, old) = Bytes(h.size, old \ {b}) \union (b .. b + h.size[b] - 1)
    BY <1>2 DEF Bytes
  <2> QED
    BY <1>1, <1>2, <2>1, PartsCounted
<1>6. Cardinality(Bytes(h.size, old \ {b})) \in Nat
  BY <1>1, <1>2, PartsBounded
<1> HIDE DEF cut, rest
<1>7. /\ DOMAIN h0 = Fields2 /\ h0.size = h.size /\ h0.list = rest
      /\ DOMAIN h1 = Fields2 /\ h1.size = cut /\ h1.list = rest
  BY <1>1 DEF Fields2
<1> HIDE DEF h0, h1
\* What is left of b, or nothing, is in the list.
<1>8. /\ Ordered2(list)
      /\ Unlisted2(list) = Unlisted2(h) \union {b}
      /\ list.size[b] \in Nat /\ n <= list.size[b]
      /\ \A x \in Unlisted2(h) : list.size[x] = h.size[x]
      /\ Cardinality(Bytes(list.size, Elements(list.list)))
           = Cardinality(Bytes(h.size, old)) - list.size[b]
  <2>1. CASE ~split
    <3>1. list = h0
      BY <2>1
    <3>2. Ordered2(h0)
      BY <1>1, <1>4, <1>7 DEF Ordered2
    <3>3. Unlisted2(h0) = Unlisted2(h) \union {b}
      BY <1>2, <1>4, <1>7 DEF Unlisted2
    <3>4. Cardinality(Bytes(h.size, old \ {b})) = Cardinality(Bytes(h.size, old)) - h.size[b]
      BY <1>2, <1>5, <1>6
    <3> QED
      BY <1>2, <1>4, <1>7, <3>1, <3>2, <3>3, <3>4
  <2>2. CASE split
    <3> DEFINE e == b + n
    <3>1. n < h.size[b] /\ e # b
      BY <1>2, <2>2, HeaderAssumption DEF H2!heapMINIMUM_BLOCK_SIZE
    <3>2. Parts(cut) /\ e \notin DOMAIN h.size
      BY <1>1, <1>2, <3>1, CutParts DEF cut
    <3>3. /\ DOMAIN cut = DOMAIN h.size \union {e}
          /\ cut[b] = n /\ cut[e] = h.size[b] - n
          /\ \A x \in DOMAIN h.size : x # b => cut[x] = h.size[x]
      BY <1>2, <3>1, <3>2 DEF cut, Cut
    <3>4. list = H2!prvInsertBlockIntoFreeList(h1, e)
      BY <2>2
    <3> HIDE DEF list, e
    <3>5. BySize(cut, rest)
      BY <1>2, <1>4, <3>3, SameSizes
    <3>6. /\ e \in DOMAIN cut /\ e \notin Elements(rest) /\ cut \in [DOMAIN cut -> Nat]
      BY <1>2, <1>4, <3>2, <3>3, PartsTypes
    <3>7. /\ DOMAIN list = Fields2 /\ list.size = cut
          /\ BySize(cut, list.list) /\ Elements(list.list) = (old \ {b}) \union {e}
      <4>1. list.size = h1.size /\ DOMAIN list = Fields2 /\ BySize(h1.size, list.list)
            /\ Elements(list.list) = Elements(h1.list) \union {e}
        BY <1>7, <3>4, <3>5, <3>6, InsertedBySize
      <4> QED
        BY <1>4, <1>7, <4>1
    <3>8. Ordered2(list)
      BY <3>2, <3>7 DEF Ordered2
    <3>9. Unlisted2(list) = Unlisted2(h) \union {b}
      BY <1>2, <3>1, <3>2, <3>3, <3>7 DEF Unlisted2
    <3>10. list.size[b] = n /\ \A x \in Unlisted2(h) : list.size[x] = h.size[x]
      BY <1>2, <3>3, <3>7 DEF Unlisted2
    <3>11. Bytes(cut, old \ {b}) = Bytes(h.size, old \ {b})
      BY <1>2, <3>3 DEF Bytes
    <3>12. Cardinality(Bytes(list.size, Elements(list.list)))
             = Cardinality(Bytes(cut, old \ {b})) + cut[e]
      <4> DEFINE S == old \ {b}
      <4>1. S \in SUBSET DOMAIN cut /\ e \notin S
        BY <1>2, <3>2, <3>3
      <4>2. Elements(list.list) = S \union {e} /\ list.size = cut
        BY <3>7
      <4> HIDE DEF S
      <4>3. Cardinality(Bytes(cut, S) \union (e .. e + cut[e] - 1))
              = Cardinality(Bytes(cut, S)) + cut[e]
        BY <3>2, <3>6, <4>1, PartsCounted
      <4>4. Bytes(cut, S \union {e}) = Bytes(cut, S) \union (e .. e + cut[e] - 1)
        BY DEF Bytes
      <4> QED
        BY <4>2, <4>3, <4>4 DEF S
    <3>13. Cardinality(Bytes(list.size, Elements(list.list)))
             = Cardinality(Bytes(h.size, old)) - list.size[b]
      BY <1>2, <1>5, <1>6, <3>3, <3>10, <3>11, <3>12
    <3>14. n <= list.size[b]
      BY <3>10
    <3> QED
      BY <3>8, <3>9, <3>10, <3>13, <3>14
  <2> QED
    BY <2>1, <2>2
<1> HIDE DEF list
<1>9. /\ DOMAIN r = Fields2 /\ r.size = list.size /\ r.list = list.list
      /\ r.freeBytes = h.freeBytes - list.size[b]
  BY <1>8 DEF Ordered2, Fields2
<1> HIDE DEF r
<1>10. Ordered2(r) /\ Unlisted2(r) = Unlisted2(list) /\ Exact2(r)
  BY <1>8, <1>9 DEF Ordered2, Unlisted2, Exact2
<1> QED
  BY <1>3, <1>8, <1>9, <1>10

(***************************************************************************)
(* The inductive invariant of heap_2.c.                                    *)
(***************************************************************************)
Current2 == IF heap2 = H2!NotInitialised THEN H2!prvHeapInit ELSE heap2

\* What is in use, or on its way back to the list, for the blocks of heap h.
Placed2(h) ==
  /\ Ordered2(h)
  /\ Exact2(h)
  /\ DOMAIN asked2 \union H2!Returning = Unlisted2(h)
  /\ \A b \in DOMAIN asked2 : Header + asked2[b] <= h.size[b]

\* As IInv of heap_4.c.
IInv2 ==
  /\ asked2 \in [DOMAIN asked2 -> Nat \ {0}]
  /\ freeing2 \in [Tasks -> SUBSET Nat]
  /\ \A t \in Tasks : \A b, c \in freeing2[t] : b = c
  /\ \A t, u \in Tasks : t # u => freeing2[t] \intersect freeing2[u] = {}
  /\ DOMAIN asked2 \intersect H2!Returning = {}
  /\ \/ heap2 = H2!NotInitialised /\ DOMAIN asked2 = {} /\ H2!Returning = {}
     \/ Placed2(heap2)

\* A heap in order is one that prvHeapInit has made.
LEMMA OrderedInitialised2 ==
  ASSUME NEW h, Ordered2(h)
  PROVE  h # H2!NotInitialised
BY DEF Ordered2, Parts, H2!NotInitialised

\* prvHeapInit makes a heap in order, all of it free.
LEMMA HeapInitOrdered2 ==
  Ordered2(H2!prvHeapInit) /\ Exact2(H2!prvHeapInit) /\ Unlisted2(H2!prvHeapInit) = {}
<1> DEFINE h == H2!prvHeapInit
           f == H2!First
           n == H2!configADJUSTED_HEAP_SIZE
<1>1. /\ DOMAIN h = Fields2
      /\ h.size = [b \in {f} |-> n] /\ h.list = <<f>> /\ h.freeBytes = n
  BY DEF H2!prvHeapInit, Fields2
<1>2. f \in Nat /\ f % Alignment = 0 /\ n \in Nat /\ n > 0 /\ End2 = f + n /\ End2 \in Nat
  BY Ends2 DEF End2
<1> HIDE DEF h, f, n
<1>3. DOMAIN h.size = {f} /\ h.size[f] = n
  BY <1>1
<1>4. Bytes(h.size, {f}) = f .. End2 - 1
  <2>1. Bytes(h.size, {f}) = f .. f + h.size[f] - 1
    BY DEF Bytes
  <2> QED
    BY <1>2, <1>3, <2>1
<1>5. Parts(h.size)
  <2>1. f \in f .. End2 - 1 /\ f + n <= End2
    BY <1>2
  <2> QED
    BY <1>1, <1>2, <1>3, <1>4, <2>1 DEF Parts, f
<1>6. BySize(h.size, h.list) /\ Elements(h.list) = {f}
  <2>1. Len(h.list) = 1 /\ h.list[1] = f /\ h.list \in Seq({f})
    BY <1>1
  <2> QED
    BY <1>3, <2>1 DEF BySize, Elements
<1>7. Cardinality(f .. End2 - 1) = n
  <2> DEFINE e == End2 - 1
  <2>1. f \in Int /\ e \in Int /\ ~(f > e) /\ e - f + 1 = n
    BY <1>2
  <2> HIDE DEF e
  <2>2. Cardinality(f .. e) = n
    BY <2>1, FS_Interval
  <2> QED
    BY <2>2 DEF e
<1> QED
  BY <1>1, <1>3, <1>4, <1>5, <1>6, <1>7 DEF Ordered2, Exact2, Unlisted2, h

\* The heap pvPortMalloc works on, initialised if it was not, is in order.
LEMMA CurrentPlaced2 ==
  ASSUME IInv2
  PROVE  Placed2(Current2)
<1>1. CASE heap2 = H2!NotInitialised
  <2>1. DOMAIN asked2 = {} /\ H2!Returning = {}
    BY <1>1, OrderedInitialised2 DEF IInv2, Placed2
  <2> QED
    BY <1>1, <2>1, HeapInitOrdered2 DEF Placed2, Current2
<1>2. CASE heap2 # H2!NotInitialised
  BY <1>2 DEF IInv2, Current2
<1> QED
  BY <1>1, <1>2

\* pvPortMalloc changes nothing that is in use, or puts one block more in use, with
\* room for its header and what was asked for.
LEMMA AllocateDoes2 ==
  ASSUME IInv2, NEW w \in Nat, H2!Allocate(w, w)
  PROVE  \/ heap2' = Current2 /\ UNCHANGED asked2
         \/ \E b \in Elements(Current2.list) :
              /\ w > 0
              /\ b \notin DOMAIN asked2
              /\ Ordered2(heap2') /\ Exact2(heap2')
              /\ Unlisted2(heap2') = Unlisted2(Current2) \union {b}
              /\ Header + w <= heap2'.size[b]
              /\ \A x \in Unlisted2(Current2) : heap2'.size[x] = Current2.size[x]
              /\ asked2' = [x \in DOMAIN asked2 \union {b} |-> IF x = b THEN w ELSE asked2[x]]
<1> DEFINE h == Current2
           n == H2!BlockSize(w)
           fits == {i \in 1 .. Len(h.list) : h.size[h.list[i]] >= n}
           i == CHOOSE i \in fits : \A j \in fits : i <= j
           b == h.list[i]
           taken == n < SizeLimit \div 2 /\ n > 0 /\ n <= h.freeBytes /\ fits # {}
<1>1. Placed2(h)
  BY CurrentPlaced2
<1>2. IF taken
      THEN /\ heap2' = H2!Taken(h, i, n)
           /\ asked2' = [x \in DOMAIN asked2 \union {b} |-> IF x = b THEN w ELSE asked2[x]]
      ELSE heap2' = h /\ UNCHANGED asked2
  BY Zenon DEF H2!Allocate, Current2
<1>3. n = BlockSize(w)
  BY DEF H2!BlockSize, BlockSize
<1> HIDE DEF h
<1>4. CASE ~taken
  BY <1>2, <1>4 DEF h
<1>5. CASE taken
  <2>1. Len(h.list) \in Nat /\ \A j \in 1 .. Len(h.list) : h.list[j] \in DOMAIN h.size
    BY <1>1, ElementsTypes DEF Placed2, Ordered2
  <2>2. fits \in SUBSET Nat
    BY <2>1
  <2>3. \E m \in fits : \A c \in fits : m <= c
    BY <1>5, <2>2, Lowest
  <2>4. i \in fits
    BY <2>3
  <2>5. n \in Nat /\ n > 0 /\ n % Alignment = 0 /\ n >= Header + w /\ w > 0
    BY <1>3, <1>5, BlockSizeIs
  <2>6. i \in 1 .. Len(h.list) /\ h.size[h.list[i]] >= n
    BY <2>4
  <2> HIDE DEF i, n
  <2>7. b \in Elements(h.list) /\ b \in DOMAIN h.size /\ h.size[b] \in Nat /\ n <= h.size[b]
    <3>1. b \in Elements(h.list) /\ b \in DOMAIN h.size
      BY <2>1, <2>6 DEF Elements
    <3>2. h.size[b] \in Nat
      BY <1>1, <3>1, PartsTypes DEF Placed2, Ordered2
    <3> QED
      BY <2>5, <2>6, <3>1, <3>2
  <2>8. Ordered2(h) /\ Exact2(h) /\ b = h.list[i]
    BY <1>1 DEF Placed2
  <2> HIDE DEF b
  <2>9. /\ Ordered2(heap2') /\ Exact2(heap2')
        /\ Unlisted2(heap2') = Unlisted2(h) \union {b}
        /\ n <= heap2'.size[b]
        /\ \A x \in Unlisted2(h) : heap2'.size[x] = h.size[x]
    BY <1>2, <1>5, <2>5, <2>6, <2>7, <2>8, TakenKeeps2
  <2>10. b \notin DOMAIN asked2
    BY <1>1, <2>7 DEF Placed2, Unlisted2
  <2>11. heap2'.size[b] \in Nat
    <3>1. b \in DOMAIN heap2'.size
      BY <2>9 DEF Unlisted2
    <3> QED
      BY <2>9, <3>1, PartsTypes DEF Ordered2
  <2>12. Header + w <= heap2'.size[b]
    BY <2>5, <2>9, <2>11, HeaderAssumption
  <2> QED
    BY <1>2, <1>5, <2>5, <2>7, <2>9, <2>10, <2>12 DEF h
<1> QED
  BY <1>4, <1>5

\* The step of pvPortMalloc and pvPortCalloc keeps the invariant.
LEMMA AllocateKeeps2 ==
  ASSUME IInv2, NEW w \in Nat, H2!Allocate(w, w), UNCHANGED freeing2
  PROVE  IInv2'
<1>1. Placed2(Current2)
  BY CurrentPlaced2
<1>2. H2!Returning' = H2!Returning
  BY DEF H2!Returning
<1>3. CASE heap2' = Current2 /\ UNCHANGED asked2
  BY <1>1, <1>2, <1>3 DEF IInv2, Placed2
<1>4. ASSUME NEW b \in Elements(Current2.list),
             w > 0, b \notin DOMAIN asked2, Ordered2(heap2'), Exact2(heap2'),
             Unlisted2(heap2') = Unlisted2(Current2) \union {b},
             Header + w <= heap2'.size[b],
             \A x \in Unlisted2(Current2) : heap2'.size[x] = Current2.size[x],
             asked2' = [x \in DOMAIN asked2 \union {b} |-> IF x = b THEN w ELSE asked2[x]]
      PROVE  IInv2'
  <2>1. asked2' \in [DOMAIN asked2' -> Nat \ {0}]
    BY <1>4 DEF IInv2
  <2>2. b \notin H2!Returning
    BY <1>1, <1>4 DEF Placed2, Unlisted2
  <2>3. DOMAIN asked2' = DOMAIN asked2 \union {b}
    BY <1>4
  <2>4. DOMAIN asked2' \intersect H2!Returning' = {}
    BY <1>2, <2>2, <2>3 DEF IInv2
  <2>5. \A x \in DOMAIN asked2' : Header + asked2'[x] <= heap2'.size[x]
    BY <1>1, <1>4, <2>3 DEF Placed2
  <2>6. DOMAIN asked2' \union H2!Returning' = Unlisted2(heap2')
    BY <1>1, <1>2, <1>4, <2>3 DEF Placed2
  <2> QED
    BY <1>4, <2>1, <2>4, <2>5, <2>6 DEF IInv2, Placed2
<1> QED
  BY <1>3, <1>4, AllocateDoes2

\* The first half of vPortFree keeps the invariant.
LEMMA FreeKeeps2 ==
  ASSUME IInv2, NEW t \in Tasks, NEW b \in DOMAIN asked2, H2!vPortFree(t, b)
  PROVE  IInv2'
<1>1. /\ freeing2[t] = {} /\ heap2' = heap2
      /\ asked2' = [x \in DOMAIN asked2 \ {b} |-> asked2[x]]
      /\ freeing2' = [freeing2 EXCEPT ![t] = {b}]
  BY DEF H2!vPortFree
<1>2. Placed2(heap2) /\ b \in Nat
  <2>1. Placed2(heap2)
    BY DEF IInv2
  <2> QED
    BY <2>1, PartsTypes DEF Placed2, Unlisted2, Ordered2
<1>3. \A u \in Tasks : freeing2'[u] = IF u = t THEN {b} ELSE freeing2[u]
  BY <1>1 DEF IInv2
<1>4. H2!Returning' = H2!Returning \union {b}
  BY <1>1, <1>3 DEF H2!Returning
<1>5. b \notin H2!Returning
  BY DEF IInv2
<1>6. DOMAIN asked2' = DOMAIN asked2 \ {b} /\ \A x \in DOMAIN asked2' : asked2'[x] = asked2[x]
  BY <1>1
<1>7. Placed2(heap2)'
  BY <1>1, <1>2, <1>4, <1>6 DEF Placed2
<1>8. asked2' \in [DOMAIN asked2' -> Nat \ {0}]
  BY <1>1, <1>6 DEF IInv2
<1>9. freeing2' \in [Tasks -> SUBSET Nat]
  BY <1>1, <1>2 DEF IInv2
<1>10. /\ \A u \in Tasks : \A c, d \in freeing2'[u] : c = d
       /\ \A u, v \in Tasks : u # v => freeing2'[u] \intersect freeing2'[v] = {}
  BY <1>3, <1>5 DEF IInv2, H2!Returning
<1>11. DOMAIN asked2' \intersect H2!Returning' = {}
  BY <1>4, <1>6 DEF IInv2
<1> QED
  BY <1>7, <1>8, <1>9, <1>10, <1>11 DEF IInv2

\* The second half of vPortFree keeps the invariant.
LEMMA ReturnToListKeeps2 ==
  ASSUME IInv2, NEW t \in Tasks, H2!ReturnToList(t)
  PROVE  IInv2'
<1>1. PICK b \in freeing2[t] :
         /\ heap2' = [H2!prvInsertBlockIntoFreeList(heap2, b) EXCEPT
                        !.freeBytes = heap2.freeBytes + heap2.size[b]]
         /\ freeing2' = [freeing2 EXCEPT ![t] = {}]
         /\ asked2' = asked2
  BY DEF H2!ReturnToList
<1>2. freeing2[t] = {b} /\ b \in H2!Returning
  BY DEF IInv2, H2!Returning
<1>3. Placed2(heap2)
  BY <1>2 DEF IInv2
<1>4. b \in Unlisted2(heap2)
  BY <1>2, <1>3 DEF Placed2
<1>5. /\ Ordered2(heap2') /\ Exact2(heap2')
      /\ Unlisted2(heap2') = Unlisted2(heap2) \ {b}
      /\ heap2'.size = heap2.size
  BY <1>1, <1>3, <1>4, ReturnKeeps2 DEF Placed2
<1>6. \A u \in Tasks : freeing2'[u] = IF u = t THEN {} ELSE freeing2[u]
  BY <1>1 DEF IInv2
<1>7. H2!Returning' = H2!Returning \ {b}
  BY <1>2, <1>6 DEF IInv2, H2!Returning
<1>8. b \notin DOMAIN asked2
  BY <1>2 DEF IInv2
<1>9. Placed2(heap2)'
  BY <1>1, <1>3, <1>5, <1>7, <1>8 DEF Placed2
<1>10. freeing2' \in [Tasks -> SUBSET Nat]
  BY <1>1 DEF IInv2
<1>11. /\ \A u \in Tasks : \A c, d \in freeing2'[u] : c = d
       /\ \A u, v \in Tasks : u # v => freeing2'[u] \intersect freeing2'[v] = {}
  BY <1>6 DEF IInv2
<1>12. DOMAIN asked2' \intersect H2!Returning' = {}
  BY <1>1, <1>7 DEF IInv2
<1> QED
  BY <1>1, <1>9, <1>10, <1>11, <1>12 DEF IInv2

\* Every step of heap_2.c is an allocation or one of the halves of vPortFree.
LEMMA NextDoes2 ==
  ASSUME H2!Next
  PROVE  \/ \E w \in Nat : H2!Allocate(w, w) /\ UNCHANGED freeing2
         \/ \E t \in Tasks, b \in DOMAIN asked2 : H2!vPortFree(t, b)
         \/ \E t \in Tasks : H2!ReturnToList(t)
<1>1. ASSUME NEW w \in Asked, H2!pvPortMalloc(w)
      PROVE  \E m \in Nat : H2!Allocate(m, m) /\ UNCHANGED freeing2
  <2>1. w \in Nat
    BY AskedAssumption
  <2> QED
    BY <1>1, <2>1 DEF H2!pvPortMalloc
<1>2. ASSUME NEW n \in Counts, NEW s \in Counts, H2!pvPortCalloc(n, s)
      PROVE  \E m \in Nat : H2!Allocate(m, m) /\ UNCHANGED freeing2
  <2>1. n \in Nat /\ s \in Nat
    BY AskedAssumption
  <2>2. ~MultiplyWillOverflow(n, s)
    <3> DEFINE q == (SizeLimit - 1) \div n
    <3>1. n = 0 \/ (n > 0 /\ s <= q)
      BY <1>2, <2>1 DEF H2!pvPortCalloc
    <3>2. n > 0 => q \in Nat
      BY <2>1, LimitAssumption, HeapAssumption
    <3> HIDE DEF q
    <3>3. n = 0 \/ ~(s > q)
      BY <2>1, <3>1, <3>2
    <3> QED
      BY <2>1, <3>3 DEF MultiplyWillOverflow, q
  <2>3. n * s \in Nat /\ (n * s) % SizeLimit = n * s
    BY <2>1, <2>2, ProductFits
  <2> QED
    BY <1>2, <2>3 DEF H2!pvPortCalloc
<1> QED
  BY <1>1, <1>2 DEF H2!Next

\* An allocation gives out a region or nothing.
LEMMA AllocateRefines2 ==
  ASSUME IInv2, IInv2', NEW w \in Nat, H2!Allocate(w, w), UNCHANGED freeing2
  PROVE  \/ GivenOut(H2!Regions, H2!Regions', HeapAt, HeapAt + HeapSize2)
         \/ UNCHANGED asked2
<1>1. ASSUME NEW b \in Elements(Current2.list),
             w > 0, b \notin DOMAIN asked2,
             Unlisted2(heap2') = Unlisted2(Current2) \union {b},
             asked2' = [x \in DOMAIN asked2 \union {b} |-> IF x = b THEN w ELSE asked2[x]]
      PROVE  GivenOut(H2!Regions, H2!Regions', HeapAt, HeapAt + HeapSize2)
  <2> DEFINE new == asked2'
             size == heap2'.size
  <2>1. /\ DOMAIN new = DOMAIN asked2 \union {b} /\ new[b] > 0
        /\ \A x \in DOMAIN asked2 : new[x] = asked2[x]
    BY <1>1
  <2>2. Placed2(heap2)'
    BY <2>1 DEF IInv2
  <2>3. \A x \in DOMAIN new : x \in DOMAIN size /\ Header + new[x] <= size[x] /\ new[x] \in Nat
    BY <2>2 DEF Placed2, Unlisted2, IInv2
  <2>4. Parts(size)
    BY <2>2 DEF Placed2, Ordered2
  <2> HIDE DEF new, size
  <2>5. \A x \in DOMAIN new : x \in Nat /\ size[x] \in Nat
    BY <2>3, <2>4, PartsTypes
  <2>6. \A x \in DOMAIN asked2 : b + size[b] <= x \/ x + size[x] <= b
    BY <1>1, <2>1, <2>3, <2>4, PartsApart
  <2>7. b % Alignment = 0 /\ HeapAt <= b /\ b + size[b] <= HeapAt + HeapSize2
    <3>1. b \in DOMAIN size /\ b \in Nat /\ size[b] \in Nat
      BY <2>1, <2>3, <2>5
    <3>2. H2!First <= b /\ b + size[b] <= End2 /\ b % Alignment = 0
      BY <2>4, <3>1, PartsTypes DEF Parts
    <3> QED
      BY <3>1, <3>2, Ends2, HeapAssumption, HeapSizesAssumption
  <2>8. HeapAt \in Nat /\ HeapAt + HeapSize2 \in Nat
    BY HeapAssumption, HeapSizesAssumption
  <2>9. GivenOut(RegionsOf(asked2), RegionsOf(new), HeapAt, HeapAt + HeapSize2)
    BY <1>1, <2>1, <2>3, <2>5, <2>6, <2>7, <2>8, RegionAdded
  <2> QED
    BY <2>9 DEF new, H2!Regions, RegionsOf
<1> QED
  BY <1>1, AllocateDoes2

\* The first half of vPortFree gives a region back.
LEMMA FreeRefines2 ==
  ASSUME IInv2, NEW t \in Tasks, NEW b \in DOMAIN asked2, H2!vPortFree(t, b)
  PROVE  GivenBack(H2!Regions, H2!Regions')
<1>1. asked2' = [x \in DOMAIN asked2 \ {b} |-> asked2[x]]
  BY DEF H2!vPortFree
<1>2. DOMAIN asked2 \subseteq Nat
  BY PartsTypes DEF IInv2, Placed2, Unlisted2, Ordered2
<1>3. GivenBack(RegionsOf(asked2), RegionsOf(asked2'))
  BY <1>1, <1>2, RegionRemoved
<1> QED
  BY <1>3 DEF H2!Regions, RegionsOf

\* A region that is given out or back is a step of Allocator.
LEMMA Refines2 ==
  \/ GivenOut(H2!Regions, H2!Regions', HeapAt, HeapAt + HeapSize2)
  \/ GivenBack(H2!Regions, H2!Regions')
  \/ UNCHANGED asked2
  => [H2!A!Next]_(H2!Regions)
<1> DEFINE r == RegionsOf(asked2)
           s == RegionsOf(asked2')
<1>1. H2!A!Next <=>
         \/ \E a \in {<<HeapAt, HeapAt + HeapSize2>>} :
               \E p \in (a[1] .. a[2] - 1) \ DOMAIN r :
                  /\ p % Alignment = 0
                  /\ s \in [DOMAIN r \union {p} -> Nat]
                  /\ s[p] \in 1 .. a[2] - p
                  /\ \A q \in DOMAIN r :
                        s[q] = r[q] /\ (p + s[p] <= q \/ q + r[q] <= p)
         \/ \E p \in DOMAIN r : s = [q \in DOMAIN r \ {p} |-> r[q]]
  BY Zenon DEF RegionsOf, H2!Regions, H2!A!Next, H2!A!Malloc, H2!A!Free, H2!A!Apart
<1>2. UNCHANGED asked2 => s = r
  BY DEF RegionsOf
<1>0. r = H2!Regions /\ s = H2!Regions'
  BY DEF H2!Regions, RegionsOf
<1> HIDE DEF r, s
<1>3. ASSUME GivenBack(r, s) PROVE H2!A!Next
  BY <1>1, <1>3 DEF GivenBack
<1>4. ASSUME GivenOut(r, s, HeapAt, HeapAt + HeapSize2) PROVE H2!A!Next
  <2> DEFINE a == <<HeapAt, HeapAt + HeapSize2>>
  <2>1. a[1] = HeapAt /\ a[2] = HeapAt + HeapSize2
    OBVIOUS
  <2> HIDE DEF a
  <2>2. \E p \in (a[1] .. a[2] - 1) \ DOMAIN r :
           /\ p % Alignment = 0
           /\ s \in [DOMAIN r \union {p} -> Nat]
           /\ s[p] \in 1 .. a[2] - p
           /\ \A q \in DOMAIN r :
                 s[q] = r[q] /\ (p + s[p] <= q \/ q + r[q] <= p)
    BY <1>4, <2>1, Zenon DEF GivenOut
  <2> QED
    BY <1>1, <2>2, Zenon DEF a
<1> QED
  BY <1>0, <1>2, <1>3, <1>4

\* What a step of the composition is for heap_2.c.
LEMMA StepHeap2 ==
  ASSUME IInv2, H2!Next \/ UNCHANGED vars2
  PROVE  IInv2' /\ [H2!A!Next]_(H2!Regions)
<1>1. CASE UNCHANGED vars2
  <2>1. UNCHANGED <<heap2, asked2, freeing2>>
    BY <1>1 DEF vars2
  <2>2. H2!Returning' = H2!Returning
    BY <2>1 DEF H2!Returning
  <2>3. IInv2'
    BY <2>1, <2>2 DEF IInv2, Placed2
  <2> QED
    BY <2>1, <2>3, Refines2
<1>2. ASSUME NEW w \in Nat, H2!Allocate(w, w), UNCHANGED freeing2
      PROVE  IInv2' /\ [H2!A!Next]_(H2!Regions)
  <2>1. IInv2'
    BY <1>2, AllocateKeeps2
  <2> QED
    BY <1>2, <2>1, AllocateRefines2, Refines2
<1>3. ASSUME NEW t \in Tasks, NEW b \in DOMAIN asked2, H2!vPortFree(t, b)
      PROVE  IInv2' /\ [H2!A!Next]_(H2!Regions)
  BY <1>3, FreeKeeps2, FreeRefines2, Refines2
<1>4. ASSUME NEW t \in Tasks, H2!ReturnToList(t)
      PROVE  IInv2' /\ [H2!A!Next]_(H2!Regions)
  <2>1. UNCHANGED asked2
    BY <1>4 DEF H2!ReturnToList
  <2> QED
    BY <1>4, <2>1, ReturnToListKeeps2, Refines2
<1> QED
  BY <1>1, <1>2, <1>3, <1>4, NextDoes2

\* The invariant holds in every reachable state, and every step is one of Allocator.
LEMMA Inductive2 ==
  HeapsSpec => []IInv2 /\ H2!A!Init /\ [][H2!A!Next]_(H2!Regions)
<1>1. HeapsInit => IInv2 /\ H2!A!Init
  <2> SUFFICES ASSUME H2!Init PROVE IInv2 /\ H2!A!Init
    BY DEF HeapsInit
  <2>1. H2!Returning = {} /\ DOMAIN asked2 = {}
    BY DEF H2!Init, H2!Returning
  <2>2. IInv2
    BY <2>1 DEF H2!Init, IInv2
  <2> QED
    BY <2>2 DEF H2!Init, H2!A!Init, H2!Regions
<1>2. ASSUME [HeapsNext]_<<variant, vars, vars1, vars2, vars5, varsS, varsR>>
      PROVE  H2!Next \/ UNCHANGED vars2
  BY <1>2, Zenon DEF HeapsNext
<1>3. IInv2 /\ [HeapsNext]_<<variant, vars, vars1, vars2, vars5, varsS, varsR>>
        => IInv2' /\ [H2!A!Next]_(H2!Regions)
  BY <1>2, StepHeap2
<1> QED
  BY <1>1, <1>3, PTL DEF HeapsSpec

\* The instance has operators of the standard modules as its own.
LEMMA SameCardinality == \A S : H2!Cardinality(S) = Cardinality(S)
BY DEF H2!Cardinality, Cardinality

\* However heap_2.c cuts up the heap, its blocks cover it, each is in one place, the
\* list is in the order of sizes, and the counter is exact.
THEOREM Heap2FormCorrect == HeapsSpec => []Heap2WellFormed
<1>1. IInv2 => Heap2WellFormed
  <2> SUFFICES ASSUME IInv2 PROVE Heap2WellFormed
    OBVIOUS
  <2>1. CASE heap2 = H2!NotInitialised
    <3>1. heap2.list = <<>>
      BY <2>1 DEF H2!NotInitialised
    <3>2. Len(heap2.list) = 0
      BY <3>1
    <3> QED
      BY <2>1, <3>2
        DEF Heap2WellFormed, H2!BlocksPartition, H2!ListBySize, H2!FreeBytesExact
  <2>2. CASE Placed2(heap2)
    <3> DEFINE size == heap2.size
               list == heap2.list
    <3>1. Parts(size) /\ BySize(size, list)
      BY <2>2 DEF Placed2, Ordered2
    <3>2. H2!Listed = Elements(list)
      BY <3>1, ElementsTypes DEF H2!Listed, H2!ToSet, Elements
    <3>3. \A S : H2!Covered(S) = Bytes(size, S)
      BY DEF H2!Covered, Bytes
    <3>4. Len(list) = Cardinality(H2!Listed)
      BY <3>1, <3>2, LengthIs
    <3>5. H2!Listed \subseteq H2!Blocks /\ H2!Blocks = DOMAIN size
          /\ DOMAIN asked2 \union H2!Returning = H2!Blocks \ H2!Listed
      BY <2>2, <3>1, <3>2, ElementsTypes DEF H2!Blocks, Placed2, Unlisted2
    <3>6. /\ H2!Covered(H2!Blocks) = H2!First .. End2 - 1
          /\ \A b, c \in H2!Blocks : b < c => b + size[b] <= c
      BY <3>1, <3>3, <3>5 DEF Parts
    <3>7. H2!BlocksPartition
      <4>1. H2!Covered(H2!Blocks) = H2!First .. H2!First + H2!configADJUSTED_HEAP_SIZE - 1
        BY <3>6, Ends2 DEF End2
      <4>2. \A b, c \in H2!Blocks : b < c => b + heap2.size[b] <= c
        BY <3>6
      <4>3. DOMAIN asked2 \intersect H2!Returning = {}
        BY DEF IInv2
      <4>4. /\ H2!Blocks = H2!Listed \union DOMAIN asked2 \union H2!Returning
            /\ H2!Listed \intersect (DOMAIN asked2 \union H2!Returning) = {}
        BY <3>5
      <4> QED
        BY <3>4, <4>1, <4>2, <4>3, <4>4, SameCardinality, Zenon DEF H2!BlocksPartition
    <3>8. H2!ListBySize
      <4>1. ASSUME NEW i \in 1 .. Len(list), NEW j \in 1 .. Len(list), i <= j
            PROVE  size[list[i]] <= size[list[j]]
        <5>1. list[i] \in DOMAIN size /\ size[list[i]] \in Nat /\ Len(list) \in Nat
          BY <3>1, ElementsTypes, PartsTypes
        <5>2. i = j \/ i < j
          BY <4>1, <5>1
        <5> QED
          BY <3>1, <5>1, <5>2 DEF BySize
      <4> QED
        BY <4>1 DEF H2!ListBySize
    <3>9. H2!FreeBytesExact
      <4>1. H2!Covered(H2!Listed) = Bytes(size, Elements(list))
        BY <3>2, <3>3
      <4>2. heap2.freeBytes = Cardinality(Bytes(size, Elements(list)))
        BY <2>2 DEF Placed2, Exact2
      <4> QED
        BY <4>1, <4>2, SameCardinality DEF H2!FreeBytesExact
    <3> QED
      BY <3>7, <3>8, <3>9 DEF Heap2WellFormed
  <2> QED
    BY <2>1, <2>2 DEF IInv2
<1> QED
  BY <1>1, Inductive2, PTL

\* heap_2.c implements the allocator that its callers expect.
THEOREM Heap2Correct == HeapsSpec => Heap2IsAllocator
  BY Inductive2, PTL DEF Heap2IsAllocator, H2!IsAllocator, H2!A!Spec

(***************************************************************************)
(* The regions of heap_5.c.                                                *)
(***************************************************************************)

\* A region begins and ends at aligned addresses inside the memory it is given.
LEMMA RegionEnds ==
  ASSUME NEW i \in 1 .. H5!Count
  PROVE  /\ HeapRegions[i].at \in Nat \ {0} /\ H5!RegionEnd(i) \in Nat
         /\ H5!First(i) \in Nat /\ H5!First(i) % Alignment = 0
         /\ H5!End(i) \in Nat /\ H5!End(i) % Alignment = 0
         /\ HeapRegions[i].at <= H5!First(i) /\ H5!First(i) < H5!End(i)
         /\ H5!End(i) + Header <= H5!RegionEnd(i) /\ H5!RegionEnd(i) < SizeLimit
<1> DEFINE at == HeapRegions[i].at
           size == HeapRegions[i].size
<1>1. HeapRegions[i] \in [at : Nat \ {0}, size : Nat]
  <2>1. HeapRegions \in Seq([at : Nat \ {0}, size : Nat]) /\ i \in 1 .. Len(HeapRegions)
    BY RegionsOrdered DEF H5!RegionsAssumption, H5!Count
  <2> QED
    BY <2>1, ElementOfSeq
<1>2. at \in Nat \ {0} /\ size \in Nat /\ H5!RegionEnd(i) = at + size
  BY <1>1 DEF H5!RegionEnd
<1>3. size >= Header /\ H5!RegionEnd(i) < SizeLimit /\ H5!First(i) < H5!End(i)
  BY RegionsOrdered DEF H5!RegionsAssumption
<1> HIDE DEF at, size
<1>4. H5!First(i) = AlignDown(at + (Alignment - 1)) /\ H5!End(i) = AlignDown(at + size - Header)
  <2>1. H5!First(i) = AlignDown(at + (Alignment - 1))
    BY Zenon DEF H5!First, H5!H!AlignUp, H5!H!AlignDown, AlignDown, at
  <2>2. H5!End(i) = AlignDown(H5!RegionEnd(i) - Header)
    BY Zenon DEF H5!End, H5!H!AlignDown, AlignDown
  <2>3. H5!RegionEnd(i) - Header = at + size - Header
    BY <1>2, HeaderAssumption
  <2> QED
    BY <2>1, <2>2, <2>3
<1>5. at + (Alignment - 1) \in Nat /\ at + size - Header \in Nat
  BY <1>2, <1>3, AlignmentAssumption, HeaderAssumption
<1>6. /\ H5!First(i) \in Nat /\ H5!First(i) % Alignment = 0
      /\ at + (Alignment - 1) < H5!First(i) + Alignment
  BY <1>4, <1>5, AlignDownIs
<1>7. /\ H5!End(i) \in Nat /\ H5!End(i) % Alignment = 0 /\ H5!End(i) <= at + size - Header
  BY <1>4, <1>5, AlignDownIs
<1>8. at <= H5!First(i)
  BY <1>2, <1>6, AlignmentAssumption
<1>9. H5!End(i) + Header <= H5!RegionEnd(i)
  BY <1>2, <1>7, HeaderAssumption
<1> QED
  BY <1>2, <1>3, <1>6, <1>7, <1>8, <1>9 DEF at

\* A region ends before the next one begins.
LEMMA RegionOrder ==
  ASSUME NEW i \in 1 .. H5!Count, NEW j \in 1 .. H5!Count, i < j
  PROVE  H5!End(i) < H5!First(j)
BY RegionsOrdered DEF H5!RegionsAssumption

\* The number of regions.
LEMMA RegionCount == H5!Count \in Nat /\ 1 \in 1 .. H5!Count /\ H5!Count \in 1 .. H5!Count
<1>1. H5!Count \in Nat /\ H5!Count > 0
  BY RegionsOrdered DEF H5!RegionsAssumption, H5!Count
<1> QED
  BY <1>1

\* Two regions begin and end at four different addresses.
LEMMA RegionsApart ==
  ASSUME NEW i \in 1 .. H5!Count, NEW j \in 1 .. H5!Count
  PROVE  /\ i # j => H5!First(i) # H5!First(j) /\ H5!End(i) # H5!End(j)
         /\ H5!First(i) # H5!End(j)
         /\ H5!First(i) <= H5!First(j) <=> i <= j
<1>1. i \in Nat /\ j \in Nat
  BY RegionCount
<1>2. CASE i < j
  BY <1>1, <1>2, RegionEnds, RegionOrder
<1>3. CASE j < i
  BY <1>1, <1>3, RegionEnds, RegionOrder
<1>4. CASE i = j
  BY <1>1, <1>4, RegionEnds
<1> QED
  BY <1>1, <1>2, <1>3, <1>4

HP5 == INSTANCE Heap4_proofs WITH
    HeapAt <- HeapRegions[1].at,
    HeapSize <- H5!RegionEnd(H5!Count) - HeapRegions[1].at,
    heap <- heap5, asked <- asked5, freeing <- freeing5

\* From the first region to the last, the heap is one as heap_4.c has it.
LEMMA RegionsSpan ==
  /\ HeapRegions[1].at \in Nat \ {0}
  /\ H5!RegionEnd(H5!Count) - HeapRegions[1].at \in Nat
  /\ H5!RegionEnd(H5!Count) - HeapRegions[1].at >= Header
  /\ HeapRegions[1].at + (H5!RegionEnd(H5!Count) - HeapRegions[1].at) < SizeLimit
  /\ H5!RegionEnd(H5!Count) - HeapRegions[1].at <= SizeLimit \div 2
  /\ HP5!First = H5!First(1) /\ HP5!End = H5!End(H5!Count) /\ HP5!First < HP5!End
<1> DEFINE at == HeapRegions[1].at
           end == H5!RegionEnd(H5!Count)
<1>1. /\ at \in Nat \ {0} /\ end \in Nat /\ end < SizeLimit
      /\ H5!First(1) \in Nat /\ H5!End(H5!Count) \in Nat
      /\ at <= H5!First(1) /\ H5!End(H5!Count) + Header <= end
  BY RegionCount, RegionEnds
<1>2. H5!First(1) < H5!End(H5!Count)
  <2>1. 1 = H5!Count \/ 1 < H5!Count
    BY RegionCount
  <2> QED
    BY <2>1, RegionCount, RegionEnds, RegionOrder
<1>3. HP5!First = H5!First(1)
  BY DEF HP5!First, HP5!AlignUp, HP5!AlignDown, H5!First, H5!H!AlignUp, H5!H!AlignDown
<1> HIDE DEF at, end
<1>4. at + (end - at) = end /\ end - at \in Nat /\ end - at >= Header
  BY <1>1, <1>2, HeaderAssumption
<1>5. HP5!End = H5!End(H5!Count)
  <2>1. HP5!End = AlignDown(at + (end - at) - Header)
    BY Zenon DEF HP5!End, HP5!AlignDown, AlignDown, at, end
  <2>2. H5!End(H5!Count) = AlignDown(end - Header)
    BY Zenon DEF H5!End, H5!H!AlignDown, AlignDown, end
  <2>3. at + (end - at) - Header = end - Header
    BY <1>1, HeaderAssumption
  <2> QED
    BY <2>1, <2>2, <2>3
<1>6. end - at <= SizeLimit \div 2
  BY RegionsOrdered DEF H5!RegionsAssumption, at, end
<1> QED
  BY <1>1, <1>2, <1>3, <1>4, <1>5, <1>6 DEF at, end

\* The layout of the heap: where the region that begins at f ends.
Layout5 ==
  [f \in {H5!First(i) : i \in 1 .. H5!Count} |->
     H5!End(CHOOSE i \in 1 .. H5!Count : H5!First(i) = f)]

\* A region of the layout is one of the regions that were given.
LEMMA LayoutIs ==
  /\ DOMAIN Layout5 = {H5!First(i) : i \in 1 .. H5!Count}
  /\ \A i \in 1 .. H5!Count : Layout5[H5!First(i)] = H5!End(i)
<1>1. ASSUME NEW i \in 1 .. H5!Count
      PROVE  (CHOOSE j \in 1 .. H5!Count : H5!First(j) = H5!First(i)) = i
  BY RegionsApart
<1> QED
  BY <1>1 DEF Layout5

\* The regions do not overlap.
LEMMA LayoutHolds == HP5!Layout(Layout5)
<1>1. HP5!First \in DOMAIN Layout5
  BY RegionsSpan, RegionCount, LayoutIs
<1>2. ASSUME NEW i \in 1 .. H5!Count
      PROVE  HP5!First <= H5!First(i) /\ H5!End(i) <= HP5!End
  <2>1. i \in Nat /\ (i = 1 \/ 1 < i) /\ (i = H5!Count \/ i < H5!Count)
    BY RegionCount
  <2>2. H5!First(1) <= H5!First(i)
    BY <2>1, RegionCount, RegionEnds, RegionOrder
  <2>3. H5!End(i) <= H5!End(H5!Count)
    BY <2>1, RegionCount, RegionEnds, RegionOrder
  <2> QED
    BY <2>2, <2>3, RegionsSpan
<1>3. ASSUME NEW f \in DOMAIN Layout5
      PROVE  /\ f \in Nat /\ Layout5[f] \in Nat
             /\ HP5!First <= f /\ f < Layout5[f] /\ Layout5[f] <= HP5!End
  BY <1>2, LayoutIs, RegionEnds
<1>4. ASSUME NEW i \in 1 .. H5!Count, NEW j \in 1 .. H5!Count, H5!First(i) < H5!First(j)
      PROVE  H5!End(i) < H5!First(j)
  <2>1. i < j
    <3>1. i \in Nat /\ j \in Nat
      BY RegionCount
    <3>2. ~ (j <= i)
      BY <1>4, RegionsApart, RegionEnds
    <3> QED
      BY <3>1, <3>2
  <2> QED
    BY <2>1, RegionOrder
<1> QED
  BY <1>1, <1>3, <1>4, LayoutIs DEF HP5!Layout

(***************************************************************************)
(* The heap that vPortDefineHeapRegions makes.                             *)
(***************************************************************************)

\* The instances have operators of the standard modules as their own.
LEMMA SameCardinality5 ==
  \A S : /\ H5!Cardinality(S) = Cardinality(S) /\ H5!H!Cardinality(S) = Cardinality(S)
         /\ HP5!Cardinality(S) = Cardinality(S)
BY DEF H5!Cardinality, H5!H!Cardinality, HP5!Cardinality, Cardinality

\* The bytes of all regions, between the node before each and the one at its end.
RegionBytes == UNION {H5!First(i) .. H5!End(i) - 1 : i \in 1 .. H5!Count}

\* A heap of one block for each region, and the nodes at the ends of all but the last.
Fresh(h) ==
  /\ DOMAIN h = HP5!Fields
  /\ DOMAIN h.size = {H5!First(i) : i \in 1 .. H5!Count}
                       \union {H5!End(i) : i \in 1 .. H5!Count - 1}
  /\ DOMAIN h.next = {HP5!heapStart} \union DOMAIN h.size
  /\ h.size = [b \in DOMAIN h.size |-> h.size[b]]
  /\ h.next = [b \in DOMAIN h.next |-> h.next[b]]
  /\ h.next[HP5!heapStart] = H5!First(1)
  /\ \A i \in 1 .. H5!Count :
        h.size[H5!First(i)] = H5!End(i) - H5!First(i) /\ h.next[H5!First(i)] = H5!End(i)
  /\ \A i \in 1 .. H5!Count - 1 :
        h.size[H5!End(i)] = 0 /\ h.next[H5!End(i)] = H5!First(i + 1)
  /\ h.freeBytes = Cardinality(RegionBytes)
  /\ h.minimumEver = Cardinality(RegionBytes)

\* What vPortDefineHeapRegions computes, region by region.
LEMMA DefinesFresh ==
  ASSUME H5!vPortDefineHeapRegions
  PROVE  heap5 = HP5!NotInitialised /\ Fresh(heap5') /\ UNCHANGED <<asked5, freeing5>>
<1> DEFINE h == heap5'
           firsts == {H5!First(i) : i \in 1 .. H5!Count}
           markers == {H5!End(i) : i \in 1 .. H5!Count - 1}
           region(x) == CHOOSE i \in 1 .. H5!Count : x \in {H5!First(i), H5!End(i)}
           size == [x \in firsts \union markers |->
                      IF x \in markers THEN 0 ELSE H5!End(region(x)) - x]
           next == [x \in {0} \union firsts \union markers |->
                      IF x = 0 THEN H5!First(1)
                      ELSE IF x \in markers THEN H5!First(region(x) + 1)
                      ELSE H5!End(region(x))]
<1>1. h = [size |-> size, next |-> next, freeBytes |-> H5!xTotalHeapSize,
           minimumEver |-> H5!xTotalHeapSize]
  BY Zenon DEF H5!vPortDefineHeapRegions, H5!H!heapStart, H5!NextOfFirst
<1>2. DOMAIN h = HP5!Fields
  BY <1>1 DEF HP5!Fields
<1>3. h.size = size /\ h.next = next /\ h.freeBytes = H5!xTotalHeapSize
      /\ h.minimumEver = H5!xTotalHeapSize
  BY <1>1
<1>4. ASSUME NEW i \in 1 .. H5!Count
      PROVE  region(H5!First(i)) = i /\ region(H5!End(i)) = i
  BY RegionsApart
<1>5. ASSUME NEW i \in 1 .. H5!Count
      PROVE  H5!First(i) \notin markers /\ H5!First(i) # 0 /\ H5!End(i) # 0
  <2>1. \A j \in 1 .. H5!Count - 1 : j \in 1 .. H5!Count
    BY RegionCount
  <2>2. H5!First(i) \notin markers
    BY <2>1, RegionsApart
  <2>3. H5!First(i) # 0 /\ H5!End(i) # 0
    BY RegionEnds
  <2> QED
    BY <2>2, <2>3
<1>6. ASSUME NEW i \in 1 .. H5!Count - 1 PROVE i \in 1 .. H5!Count
  BY RegionCount
<1>7. H5!xTotalHeapSize = Cardinality(RegionBytes)
  BY SameCardinality5 DEF H5!xTotalHeapSize, RegionBytes
<1> HIDE DEF h, region
<1>8. /\ DOMAIN h.size = firsts \union markers
      /\ DOMAIN h.next = {0} \union DOMAIN h.size
      /\ h.size = [b \in DOMAIN h.size |-> h.size[b]]
      /\ h.next = [b \in DOMAIN h.next |-> h.next[b]]
      /\ h.next[0] = H5!First(1)
  BY <1>3
<1>9. ASSUME NEW i \in 1 .. H5!Count
      PROVE  h.size[H5!First(i)] = H5!End(i) - H5!First(i) /\ h.next[H5!First(i)] = H5!End(i)
  BY <1>3, <1>4, <1>5
<1>10. ASSUME NEW i \in 1 .. H5!Count - 1
       PROVE  h.size[H5!End(i)] = 0 /\ h.next[H5!End(i)] = H5!First(i + 1)
  BY <1>3, <1>4, <1>5, <1>6
<1>11. heap5 = HP5!NotInitialised /\ UNCHANGED <<asked5, freeing5>>
  BY Zenon DEF H5!vPortDefineHeapRegions, H5!H!NotInitialised, HP5!NotInitialised
<1> QED
  BY <1>2, <1>3, <1>7, <1>8, <1>9, <1>10, <1>11 DEF Fresh, h, HP5!heapStart

\* Where the blocks and nodes of a new heap are.
LEMMA FreshBlocks ==
  ASSUME NEW h, Fresh(h), NEW b \in DOMAIN h.size
  PROVE  \E i \in 1 .. H5!Count :
            \/ b = H5!First(i) /\ h.size[b] = H5!End(i) - b /\ h.next[b] = H5!End(i)
            \/ /\ i + 1 \in 1 .. H5!Count
               /\ b = H5!End(i) /\ h.size[b] = 0 /\ h.next[b] = H5!First(i + 1)
<1>1. CASE b \in {H5!First(i) : i \in 1 .. H5!Count}
  BY <1>1 DEF Fresh
<1>2. CASE b \in {H5!End(i) : i \in 1 .. H5!Count - 1}
  <2>1. PICK i \in 1 .. H5!Count - 1 : b = H5!End(i)
    BY <1>2
  <2>2. i \in 1 .. H5!Count /\ i + 1 \in 1 .. H5!Count
    BY RegionCount
  <2> QED
    BY <2>1, <2>2 DEF Fresh
<1> QED
  BY <1>1, <1>2 DEF Fresh

\* The blocks of a new heap tile its regions.
LEMMA FreshTiles ==
  ASSUME NEW h, Fresh(h)
  PROVE  HP5!Tiles(h.size, Layout5)
<1> DEFINE size == h.size
<1>1. DOMAIN Layout5 \subseteq DOMAIN size
  BY LayoutIs DEF Fresh
<1>2. \A i \in 1 .. H5!Count :
         /\ HP5!First <= H5!First(i) /\ H5!End(i) <= HP5!End
         /\ H5!First(i) \in DOMAIN Layout5 /\ Layout5[H5!First(i)] = H5!End(i)
  BY LayoutIs, LayoutHolds DEF HP5!Layout
<1>3. HP5!First \in Nat /\ HP5!End \in Nat
  BY RegionsSpan, RegionCount, RegionEnds
<1>4. ASSUME NEW b \in DOMAIN size
      PROVE  /\ b \in HP5!First .. HP5!End - 1 /\ size[b] \in 0 .. HP5!End
             /\ b % Alignment = 0
             /\ \E f \in DOMAIN Layout5 : HP5!InRegion(size, Layout5, b, f)
             /\ \A c \in DOMAIN size : c <= b \/ c >= b + size[b]
  <2>1. PICK i \in 1 .. H5!Count :
           \/ b = H5!First(i) /\ size[b] = H5!End(i) - b
           \/ i + 1 \in 1 .. H5!Count /\ b = H5!End(i) /\ size[b] = 0
    BY FreshBlocks
  <2>2. /\ H5!First(i) \in Nat /\ H5!End(i) \in Nat /\ H5!First(i) < H5!End(i)
        /\ H5!First(i) % Alignment = 0 /\ H5!End(i) % Alignment = 0
    BY RegionEnds
  <2>3. CASE b = H5!First(i) /\ size[b] = H5!End(i) - b
    <3>1. b + size[b] = H5!End(i) /\ size[b] \in Nat /\ size[b] > 0
      BY <2>2, <2>3
    <3>2. HP5!InRegion(size, Layout5, b, b)
      BY <1>2, <2>2, <2>3, <3>1 DEF HP5!InRegion
    <3>3. ASSUME NEW c \in DOMAIN size PROVE c <= b \/ c >= b + size[b]
      <4>1. PICK j \in 1 .. H5!Count : c = H5!First(j) \/ c = H5!End(j)
        BY FreshBlocks
      <4>2. i \in Nat /\ j \in Nat /\ (i < j \/ i = j \/ j < i)
        BY RegionCount
      <4> QED
        BY <2>2, <2>3, <3>1, <4>1, <4>2, RegionEnds, RegionOrder
    <3>4. b \in HP5!First .. HP5!End - 1 /\ size[b] \in 0 .. HP5!End
      BY <1>2, <1>3, <2>2, <2>3
    <3> QED
      BY <1>2, <2>2, <2>3, <3>2, <3>3, <3>4
  <2>4. CASE i + 1 \in 1 .. H5!Count /\ b = H5!End(i) /\ size[b] = 0
    <3>1. HP5!InRegion(size, Layout5, b, H5!First(i))
      BY <1>2, <2>2, <2>4 DEF HP5!InRegion
    <3>2. H5!End(i) < H5!First(i + 1) /\ H5!First(i + 1) < H5!End(i + 1)
          /\ H5!First(i + 1) \in Nat /\ H5!End(i + 1) \in Nat
      BY <2>4, RegionCount, RegionEnds, RegionOrder
    <3>3. b \in HP5!First .. HP5!End - 1 /\ size[b] \in 0 .. HP5!End
      BY <1>2, <1>3, <2>2, <2>4, <3>2
    <3>4. ASSUME NEW c \in DOMAIN size PROVE c <= b \/ c >= b + size[b]
      <4>1. c \in Nat
        BY FreshBlocks, RegionEnds
      <4> QED
        BY <2>2, <2>4, <4>1
    <3> QED
      BY <1>2, <2>2, <2>4, <3>1, <3>3, <3>4
  <2> QED
    BY <2>1, <2>3, <2>4
<1>5. size \in [DOMAIN size -> 0 .. HP5!End]
  BY <1>4 DEF Fresh
<1>6. DOMAIN size \subseteq HP5!First .. HP5!End - 1
  BY <1>4
<1> QED
  BY <1>1, <1>4, <1>5, <1>6, LayoutHolds DEF HP5!Tiles

\* The list of a new heap goes through its blocks and nodes in their order.
LEMMA FreshChain ==
  ASSUME NEW h, Fresh(h)
  PROVE  HP5!Chain(h.next) /\ HP5!Nodes(h.next) = DOMAIN h.size
<1> DEFINE next == h.next
<1>1. DOMAIN h.size \subseteq HP5!First .. HP5!End - 1 /\ HP5!First \in Nat /\ HP5!First > 0
  BY FreshTiles, RegionsSpan, RegionCount, RegionEnds DEF HP5!Tiles
<1>2. HP5!heapStart = 0 /\ 0 \notin DOMAIN h.size
  BY <1>1 DEF HP5!heapStart
<1>3. HP5!Nodes(next) = DOMAIN h.size /\ DOMAIN next = {0} \union DOMAIN h.size
      /\ next[0] = H5!First(1)
  BY <1>2 DEF Fresh, HP5!Nodes
<1>4. \A j \in DOMAIN h.size : j \in Nat
  BY <1>1
<1>5. ASSUME NEW x \in DOMAIN next
      PROVE  /\ next[x] \in DOMAIN h.size \union {HP5!End}
             /\ x < next[x]
             /\ \A j \in DOMAIN h.size : j <= x \/ next[x] <= j
  <2>1. CASE x = 0
    <3>1. H5!First(1) \in DOMAIN h.size /\ H5!First(1) = HP5!First
      BY RegionsSpan, RegionCount DEF Fresh
    <3> QED
      BY <1>1, <1>3, <2>1, <3>1
  <2>2. CASE x \in DOMAIN h.size
    <3>1. PICK i \in 1 .. H5!Count :
             \/ x = H5!First(i) /\ next[x] = H5!End(i)
             \/ i + 1 \in 1 .. H5!Count /\ x = H5!End(i) /\ next[x] = H5!First(i + 1)
      BY <2>2, FreshBlocks
    <3>2. /\ H5!First(i) \in Nat /\ H5!End(i) \in Nat /\ H5!First(i) < H5!End(i) /\ i \in Nat
      BY RegionEnds, RegionCount
    <3>3. ASSUME NEW j \in DOMAIN h.size PROVE j <= x \/ next[x] <= j
      <4>1. PICK k \in 1 .. H5!Count : j = H5!First(k) \/ j = H5!End(k)
        BY FreshBlocks
      <4>2. /\ H5!First(k) \in Nat /\ H5!End(k) \in Nat /\ H5!First(k) < H5!End(k) /\ k \in Nat
        BY RegionEnds, RegionCount
      <4>3. CASE x = H5!First(i) /\ next[x] = H5!End(i)
        <5>1. k < i \/ k = i \/ i < k
          BY <3>2, <4>2
        <5> QED
          BY <3>2, <4>1, <4>2, <4>3, <5>1, RegionOrder
      <4>4. CASE i + 1 \in 1 .. H5!Count /\ x = H5!End(i) /\ next[x] = H5!First(i + 1)
        <5>1. k < i \/ k = i \/ k = i + 1 \/ i + 1 < k
          BY <3>2, <4>2
        <5>2. H5!First(i + 1) \in Nat /\ H5!End(i + 1) \in Nat
              /\ H5!First(i + 1) < H5!End(i + 1)
          BY <4>4, RegionEnds
        <5> QED
          BY <3>2, <4>1, <4>2, <4>4, <5>1, <5>2, RegionOrder
      <4> QED
        BY <3>1, <4>3, <4>4
    <3>4. CASE x = H5!First(i) /\ next[x] = H5!End(i)
      <4>1. H5!End(i) \in DOMAIN h.size \union {HP5!End}
        <5>1. i = H5!Count \/ i \in 1 .. H5!Count - 1
          BY RegionCount
        <5> QED
          BY <5>1, RegionsSpan DEF Fresh
      <4> QED
        BY <3>2, <3>3, <3>4, <4>1
    <3>5. CASE i + 1 \in 1 .. H5!Count /\ x = H5!End(i) /\ next[x] = H5!First(i + 1)
      <4>1. H5!First(i + 1) \in DOMAIN h.size
        BY <3>5 DEF Fresh
      <4>2. H5!End(i) < H5!First(i + 1)
        BY <3>2, <3>5, RegionOrder
      <4> QED
        BY <3>3, <3>5, <4>1, <4>2
    <3> QED
      BY <3>1, <3>4, <3>5
  <2> QED
    BY <1>3, <2>1, <2>2
<1>6. next \in [DOMAIN next -> DOMAIN h.size \union {HP5!End}]
  BY <1>5 DEF Fresh
<1> HIDE DEF next
<1>7. HP5!Chain(next)
  BY <1>1, <1>2, <1>3, <1>5, <1>6 DEF HP5!Chain
<1> QED
  BY <1>3, <1>7 DEF next

\* A new heap is in order and counted, and all of it is free.
LEMMA FreshOrdered ==
  ASSUME NEW h, Fresh(h)
  PROVE  HP5!Ordered(h, Layout5) /\ HP5!Exact(h) /\ HP5!Unlisted(h) = {}
<1>1. HP5!Tiles(h.size, Layout5) /\ HP5!Chain(h.next) /\ HP5!Nodes(h.next) = DOMAIN h.size
  BY FreshTiles, FreshChain
<1>2. ASSUME NEW c, HP5!Adjoins(h.size, h.next, c) PROVE FALSE
  <2>1. /\ c \in DOMAIN h.size /\ h.size[c] > 0
        /\ c + h.size[c] \in DOMAIN h.size /\ h.size[c + h.size[c]] > 0
    BY <1>1, <1>2 DEF HP5!Adjoins
  <2>2. PICK i \in 1 .. H5!Count : c = H5!First(i) /\ h.size[c] = H5!End(i) - c
    BY <2>1, FreshBlocks
  <2>3. PICK j \in 1 .. H5!Count : c + h.size[c] = H5!First(j)
    BY <2>1, FreshBlocks
  <2>4. H5!End(i) = H5!First(j)
    BY <2>2, <2>3, RegionEnds
  <2> QED
    BY <2>4, RegionsApart
<1>3. HP5!Bytes(h.size, DOMAIN h.size) = RegionBytes
  <2>1. ASSUME NEW b \in DOMAIN h.size, NEW z \in b .. b + h.size[b] - 1
        PROVE  z \in RegionBytes
    <3>1. PICK i \in 1 .. H5!Count :
             \/ b = H5!First(i) /\ h.size[b] = H5!End(i) - b
             \/ b = H5!End(i) /\ h.size[b] = 0
      BY FreshBlocks
    <3>2. H5!First(i) \in Nat /\ H5!End(i) \in Nat
      BY RegionEnds
    <3>3. z \in H5!First(i) .. H5!End(i) - 1
      BY <3>1, <3>2
    <3> QED
      BY <3>3 DEF RegionBytes
  <2>2. ASSUME NEW i \in 1 .. H5!Count, NEW z \in H5!First(i) .. H5!End(i) - 1
        PROVE  z \in HP5!Bytes(h.size, DOMAIN h.size)
    <3> DEFINE b == H5!First(i)
    <3>1. b \in DOMAIN h.size /\ h.size[b] = H5!End(i) - b
      BY DEF Fresh
    <3>2. b \in Nat /\ H5!End(i) \in Nat
      BY RegionEnds
    <3> HIDE DEF b
    <3>3. b + h.size[b] - 1 = H5!End(i) - 1
      BY <3>1, <3>2
    <3>4. z \in b .. b + h.size[b] - 1
      BY <3>3 DEF b
    <3> QED
      BY <3>1, <3>4 DEF HP5!Bytes
  <2> QED
    BY <2>1, <2>2 DEF HP5!Bytes, RegionBytes
<1>4. Cardinality(RegionBytes) \in Nat
  <2>1. DOMAIN h.size \in SUBSET DOMAIN h.size
    OBVIOUS
  <2>2. HP5!Cardinality(HP5!Bytes(h.size, DOMAIN h.size)) \in 0 .. HP5!End
    BY <1>1, <2>1, HP5!BytesBounded, AlignmentAssumption, HeaderAssumption, RegionsSpan,
       LimitAssumption, AskedAssumption
  <2> QED
    BY <1>3, <2>2, RegionsSpan, SameCardinality5
<1>5. HP5!Exact(h)
  BY <1>1, <1>3, <1>4, SameCardinality5 DEF HP5!Exact, Fresh
<1> QED
  BY <1>1, <1>2, <1>5 DEF HP5!Ordered, HP5!Unlisted, Fresh

(***************************************************************************)
(* The calls of heap_5.c, which are those of heap_4.c.                     *)
(***************************************************************************)

\* H5!H and HP5 have the same operators, H5!H in the specification and HP5 in the
\* theorems about it.
LEMMA SameBlocks5 ==
  /\ H5!H!NotInitialised = HP5!NotInitialised /\ H5!H!prvHeapInit = HP5!prvHeapInit
  /\ H5!H!heapMINIMUM_BLOCK_SIZE = HP5!heapMINIMUM_BLOCK_SIZE
  /\ \A h, n : /\ H5!H!Fits(h, n) = HP5!Fits(h, n)
               /\ H5!H!FirstFit(h, n) = HP5!FirstFit(h, n)
  /\ \A h, b : /\ H5!H!Without(h, b) = HP5!Without(h, b)
               /\ H5!H!CountedOut(h, b) = HP5!CountedOut(h, b)
  /\ \A h, b, n : H5!H!CutInTwo(h, b, n) = HP5!CutInTwo(h, b, n)
<1>1. H5!H!NotInitialised = HP5!NotInitialised /\ H5!H!prvHeapInit = HP5!prvHeapInit
  BY Zenon DEF H5!H!NotInitialised, HP5!NotInitialised, H5!H!prvHeapInit,
      HP5!prvHeapInit, H5!H!heapStart, HP5!heapStart, H5!H!First, HP5!First,
      H5!H!End, HP5!End, H5!H!AlignUp, HP5!AlignUp, H5!H!AlignDown, HP5!AlignDown
<1>2. H5!H!heapMINIMUM_BLOCK_SIZE = HP5!heapMINIMUM_BLOCK_SIZE
  BY Zenon DEF H5!H!heapMINIMUM_BLOCK_SIZE, HP5!heapMINIMUM_BLOCK_SIZE
<1>3. \A h, n : /\ H5!H!Fits(h, n) = HP5!Fits(h, n)
                /\ H5!H!FirstFit(h, n) = HP5!FirstFit(h, n)
  BY Zenon DEF H5!H!FirstFit, HP5!FirstFit, H5!H!Fits, HP5!Fits, H5!H!InList,
      HP5!InList, H5!H!heapStart, HP5!heapStart
<1>4. \A h, b, n : /\ H5!H!Without(h, b) = HP5!Without(h, b)
                   /\ H5!H!CutInTwo(h, b, n) = HP5!CutInTwo(h, b, n)
                   /\ H5!H!CountedOut(h, b) = HP5!CountedOut(h, b)
  BY Zenon DEF H5!H!Without, HP5!Without, H5!H!CutInTwo, HP5!CutInTwo,
      H5!H!CountedOut, HP5!CountedOut, H5!H!Unlinked, HP5!Unlinked
<1> QED
  BY <1>1, <1>2, <1>3, <1>4, Zenon

\* heap_5.c inserts blocks as Heap4_proofs proves about.
LEMMA SameInsert5 ==
  ASSUME NEW h, NEW b
  PROVE  H5!prvInsertBlockIntoFreeList(h, b) = HP5!prvInsertBlockIntoFreeList(h, b)
         /\ H5!H!prvInsertBlockIntoFreeList(h, b) = HP5!prvInsertBlockIntoFreeList(h, b)
<1>1. \A i, n : /\ H5!H!JoinsBefore(h, i, b) = HP5!JoinsBefore(h, i, b)
                /\ H5!H!JoinsAfter(h, b, n) = HP5!JoinsAfter(h, b, n)
  BY Zenon DEF H5!H!JoinsBefore, HP5!JoinsBefore, H5!H!JoinsAfter, HP5!JoinsAfter,
      H5!H!heapStart, HP5!heapStart, H5!H!End, HP5!End, H5!H!AlignDown, HP5!AlignDown
<1>2. H5!H!pxIterator(h, b) = HP5!pxIterator(h, b)
  BY DEF H5!H!pxIterator, HP5!pxIterator
<1> DEFINE it == H5!H!pxIterator(h, b)
           before == H5!H!JoinsBefore(h, it, b)
           after == H5!H!JoinsAfter(h, b, h.next[it])
<1>3. /\ HP5!pxIterator(h, b) = it
      /\ HP5!JoinsBefore(h, it, b) = before
      /\ HP5!JoinsAfter(h, b, h.next[it]) = after
  BY <1>1, <1>2
<1> HIDE DEF it, before, after
<1>4. H5!H!prvInsertBlockIntoFreeList(h, b) = HP5!prvInsertBlockIntoFreeList(h, b)
  BY <1>3, SMT DEF H5!H!prvInsertBlockIntoFreeList, HP5!prvInsertBlockIntoFreeList,
      it, before, after
<1> QED
  BY <1>4 DEF H5!prvInsertBlockIntoFreeList

\* pvPortMalloc and pvPortCalloc take blocks as Heap4_proofs proves about.
LEMMA SameAllocate5 ==
  /\ H5!H!Current = HP5!Current
  /\ \A w, user : H5!H!Allocate(w, user) <=> HP5!Allocate(w, user)
  /\ \A n, s : H5!H!MultiplyWillOverflow(n, s) = HP5!MultiplyWillOverflow(n, s)
<1>1. \A h, b, n : H5!H!Taken(h, b, n) = HP5!Taken(h, b, n)
  BY SameBlocks5, SameInsert5, Zenon DEF H5!H!Taken, HP5!Taken
<1>2. /\ \A w : H5!H!BlockSize(w) = HP5!BlockSize(w)
      /\ \A n : H5!H!ValidSize(n) = HP5!ValidSize(n)
      /\ \A n, s : H5!H!MultiplyWillOverflow(n, s) = HP5!MultiplyWillOverflow(n, s)
  BY DEF H5!H!BlockSize, HP5!BlockSize, H5!H!ValidSize, HP5!ValidSize,
      H5!H!MultiplyWillOverflow, HP5!MultiplyWillOverflow
<1>3. \A b, user : H5!H!InUse(b, user) = HP5!InUse(b, user)
  BY Zenon DEF H5!H!InUse, HP5!InUse
<1>4. H5!H!Current = HP5!Current
  BY SameBlocks5, Zenon DEF H5!H!Current, HP5!Current
<1>5. \A w, user : H5!H!Allocate(w, user) <=> HP5!Allocate(w, user)
  BY <1>1, <1>2, <1>3, <1>4, SameBlocks5, Zenon DEF H5!H!Allocate, HP5!Allocate
<1> QED
  BY <1>2, <1>4, <1>5, Zenon

\* What a step is: the definition of the regions, an allocation, or one of the two
\* steps of vPortFree.
LEMMA NextDoes5 ==
  ASSUME H5!Next
  PROVE  \/ H5!vPortDefineHeapRegions
         \/ \E w \in Nat :
               H5!Defined /\ HP5!Allocate(w, w) /\ UNCHANGED freeing5
         \/ \E t \in Tasks, b \in DOMAIN asked5 : HP5!vPortFree(t, b)
         \/ \E t \in Tasks : HP5!ReturnToList(t)
<1>1. ASSUME NEW w \in Asked, H5!pvPortMalloc(w)
      PROVE  \E m \in Nat : H5!Defined /\ HP5!Allocate(m, m) /\ UNCHANGED freeing5
  <2>1. w \in Nat
    BY AskedAssumption
  <2> QED
    BY <1>1, <2>1, SameAllocate5 DEF H5!pvPortMalloc, H5!H!pvPortMalloc
<1>2. ASSUME NEW n \in Counts, NEW s \in Counts, H5!pvPortCalloc(n, s)
      PROVE  \E m \in Nat : H5!Defined /\ HP5!Allocate(m, m) /\ UNCHANGED freeing5
  <2>1. n \in Nat /\ s \in Nat
    BY AskedAssumption
  <2>2. ~HP5!MultiplyWillOverflow(n, s) /\ H5!Defined /\ UNCHANGED freeing5
        /\ HP5!Allocate((n * s) % SizeLimit, n * s)
    BY <1>2, SameAllocate5 DEF H5!pvPortCalloc, H5!H!pvPortCalloc
  <2>3. n * s \in Nat /\ (n * s) % SizeLimit = n * s
    BY <2>1, <2>2, HP5!ProductFits, AlignmentAssumption, HeaderAssumption, RegionsSpan,
       LimitAssumption, AskedAssumption
  <2> QED
    BY <2>2, <2>3
<1>3. ASSUME NEW t \in Tasks, NEW b \in DOMAIN asked5, H5!vPortFree(t, b)
      PROVE  HP5!vPortFree(t, b)
  BY <1>3, Zenon DEF H5!vPortFree, H5!H!vPortFree, HP5!vPortFree
<1>4. ASSUME NEW t \in Tasks, H5!ReturnToList(t) PROVE HP5!ReturnToList(t)
  BY <1>4, SameInsert5, Zenon DEF H5!ReturnToList, HP5!ReturnToList
<1> QED
  BY <1>1, <1>2, <1>3, <1>4 DEF H5!Next

(***************************************************************************)
(* The invariant of heap_5.c, and the allocator that it implements.        *)
(***************************************************************************)
IInv5 == HP5!Invariant(Layout5)

\* A heap whose regions have been defined is in order.
LEMMA HeapShape5 ==
  ASSUME IInv5
  PROVE  IF H5!Defined THEN HP5!Placed(heap5, Layout5)
         ELSE heap5 = HP5!NotInitialised /\ DOMAIN asked5 = {} /\ HP5!Returning = {}
<1>1. HP5!Placed(heap5, Layout5) => heap5 # HP5!NotInitialised
  BY HP5!OrderedInitialised, AlignmentAssumption, HeaderAssumption, RegionsSpan,
     LimitAssumption, AskedAssumption DEF HP5!Placed
<1>2. H5!Defined <=> heap5 # HP5!NotInitialised
  BY SameBlocks5 DEF H5!Defined
<1> QED
  BY <1>1, <1>2 DEF IInv5, HP5!Invariant

\* vPortDefineHeapRegions makes the invariant one about blocks.
LEMMA DefineKeeps5 ==
  ASSUME IInv5, H5!vPortDefineHeapRegions
  PROVE  IInv5'
<1>1. heap5 = HP5!NotInitialised /\ Fresh(heap5') /\ UNCHANGED <<asked5, freeing5>>
  BY DefinesFresh
<1>2. DOMAIN asked5 = {} /\ HP5!Returning = {}
  BY <1>1, HeapShape5, SameBlocks5 DEF H5!Defined
<1>3. HP5!Returning' = HP5!Returning
  BY <1>1 DEF HP5!Returning
<1>4. /\ HP5!Ordered(heap5', Layout5) /\ HP5!Exact(heap5') /\ HP5!Unlisted(heap5') = {}
  BY <1>1, FreshOrdered
<1>5. HP5!Placed(heap5, Layout5)'
  BY <1>1, <1>2, <1>3, <1>4 DEF HP5!Placed
<1> QED
  BY <1>1, <1>3, <1>5 DEF IInv5, HP5!Invariant

\* A region that is given out or back is a step of Allocator.
LEMMA Refines5 ==
  ASSUME \/ \E i \in 1 .. H5!Count :
               GivenOut(H5!H!Regions, H5!H!Regions', HeapRegions[i].at, H5!RegionEnd(i))
         \/ GivenBack(H5!H!Regions, H5!H!Regions')
         \/ UNCHANGED asked5
  PROVE  [H5!A!Next]_(H5!H!Regions)
<1> DEFINE r == RegionsOf(asked5)
           s == RegionsOf(asked5')
           areas == {<<HeapRegions[i].at, H5!RegionEnd(i)>> : i \in 1 .. H5!Count}
<1>1. H5!A!Next <=>
         \/ \E a \in areas :
               \E p \in (a[1] .. a[2] - 1) \ DOMAIN r :
                  /\ p % Alignment = 0
                  /\ s \in [DOMAIN r \union {p} -> Nat]
                  /\ s[p] \in 1 .. a[2] - p
                  /\ \A q \in DOMAIN r :
                        s[q] = r[q] /\ (p + s[p] <= q \/ q + r[q] <= p)
         \/ \E p \in DOMAIN r : s = [q \in DOMAIN r \ {p} |-> r[q]]
  BY Zenon DEF RegionsOf, H5!H!Regions, H5!A!Next, H5!A!Malloc, H5!A!Free, H5!A!Apart
<1>2. UNCHANGED asked5 => s = r
  BY DEF RegionsOf
<1>3. r = H5!H!Regions /\ s = H5!H!Regions'
  BY DEF H5!H!Regions, RegionsOf
<1> HIDE DEF r, s
<1>4. ASSUME GivenBack(r, s) PROVE H5!A!Next
  BY <1>1, <1>4 DEF GivenBack
<1>5. ASSUME NEW i \in 1 .. H5!Count,
             GivenOut(r, s, HeapRegions[i].at, H5!RegionEnd(i))
      PROVE  H5!A!Next
  <2> DEFINE a == <<HeapRegions[i].at, H5!RegionEnd(i)>>
  <2>1. a[1] = HeapRegions[i].at /\ a[2] = H5!RegionEnd(i) /\ a \in areas
    OBVIOUS
  <2> HIDE DEF a, areas
  <2>2. \E p \in (a[1] .. a[2] - 1) \ DOMAIN r :
           /\ p % Alignment = 0
           /\ s \in [DOMAIN r \union {p} -> Nat]
           /\ s[p] \in 1 .. a[2] - p
           /\ \A q \in DOMAIN r :
                 s[q] = r[q] /\ (p + s[p] <= q \/ q + r[q] <= p)
    BY <1>5, <2>1, Zenon DEF GivenOut
  <2> QED
    BY <1>1, <2>1, <2>2, Zenon
<1> QED
  BY <1>2, <1>3, <1>4, <1>5

\* What is given out and back in the theorems is so in the specification.
LEMMA SameRegions5 ==
  /\ HP5!Regions = H5!H!Regions /\ HP5!Regions' = H5!H!Regions'
  /\ \A r, s, low, high : HP5!GivenOut(r, s, low, high) <=> GivenOut(r, s, low, high)
  /\ \A r, s : HP5!GivenBack(r, s) <=> GivenBack(r, s)
<1>1. HP5!Regions = H5!H!Regions /\ HP5!Regions' = H5!H!Regions'
  BY DEF HP5!Regions, H5!H!Regions
<1>2. \A r, s, low, high : HP5!GivenOut(r, s, low, high) <=> GivenOut(r, s, low, high)
  BY Zenon DEF HP5!GivenOut, GivenOut
<1>3. \A r, s : HP5!GivenBack(r, s) <=> GivenBack(r, s)
  BY Zenon DEF HP5!GivenBack, GivenBack
<1> QED
  BY <1>1, <1>2, <1>3

\* An allocation keeps the invariant, and gives out a region inside one of the heap's.
LEMMA AllocateStep5 ==
  ASSUME IInv5, NEW w \in Nat, H5!Defined, HP5!Allocate(w, w), UNCHANGED freeing5
  PROVE  IInv5' /\ [H5!A!Next]_(H5!H!Regions)
<1>1. HP5!Placed(HP5!Current, Layout5)
  BY HeapShape5, SameBlocks5 DEF H5!Defined, HP5!Current
<1>2. IInv5'
  BY <1>1, HP5!AllocateKeeps, AlignmentAssumption, HeaderAssumption, RegionsSpan,
     LimitAssumption, AskedAssumption DEF IInv5
<1>3. \/ UNCHANGED asked5
      \/ \E f \in DOMAIN Layout5 : \A low, high \in Nat :
            low <= f /\ Layout5[f] <= high
              => HP5!GivenOut(HP5!Regions, HP5!Regions', low, high)
  BY <1>1, HP5!AllocateRefines, AlignmentAssumption, HeaderAssumption, RegionsSpan,
     LimitAssumption, AskedAssumption DEF IInv5
<1>4. ASSUME NEW f \in DOMAIN Layout5,
             \A low, high \in Nat :
               low <= f /\ Layout5[f] <= high
                 => HP5!GivenOut(HP5!Regions, HP5!Regions', low, high)
      PROVE  \E i \in 1 .. H5!Count :
               GivenOut(H5!H!Regions, H5!H!Regions', HeapRegions[i].at, H5!RegionEnd(i))
  <2>1. PICK i \in 1 .. H5!Count : f = H5!First(i) /\ Layout5[f] = H5!End(i)
    BY LayoutIs
  <2>2. /\ HeapRegions[i].at \in Nat /\ H5!RegionEnd(i) \in Nat
        /\ HeapRegions[i].at <= f /\ Layout5[f] <= H5!RegionEnd(i)
    BY <2>1, RegionEnds, HeaderAssumption
  <2>3. HP5!GivenOut(HP5!Regions, HP5!Regions', HeapRegions[i].at, H5!RegionEnd(i))
    BY <1>4, <2>2
  <2> QED
    BY <2>3, SameRegions5
<1> QED
  BY <1>2, <1>3, <1>4, Refines5

\* What a step of the composition is for heap_5.c.
LEMMA StepHeap5 ==
  ASSUME IInv5, H5!Next \/ UNCHANGED vars5
  PROVE  IInv5' /\ [H5!A!Next]_(H5!H!Regions)
<1>1. CASE UNCHANGED vars5
  <2>1. IInv5'
    BY <1>1, HP5!StutterKeeps, AlignmentAssumption, HeaderAssumption, RegionsSpan,
       LimitAssumption, AskedAssumption DEF IInv5, vars5
  <2> QED
    BY <1>1, <2>1, Refines5 DEF vars5
<1>2. CASE H5!vPortDefineHeapRegions
  BY <1>2, DefineKeeps5, DefinesFresh, Refines5
<1>3. ASSUME NEW t \in Tasks, NEW b \in DOMAIN asked5, HP5!vPortFree(t, b)
      PROVE  IInv5' /\ [H5!A!Next]_(H5!H!Regions)
  <2>1. IInv5' /\ HP5!GivenBack(HP5!Regions, HP5!Regions')
    BY <1>3, HP5!FreeKeeps, HP5!FreeRefines, AlignmentAssumption, HeaderAssumption,
       RegionsSpan, LimitAssumption, AskedAssumption DEF IInv5
  <2> QED
    BY <2>1, SameRegions5, Refines5
<1>4. ASSUME NEW t \in Tasks, HP5!ReturnToList(t)
      PROVE  IInv5' /\ [H5!A!Next]_(H5!H!Regions)
  <2>1. IInv5'
    BY <1>4, HP5!ReturnToListKeeps, AlignmentAssumption, HeaderAssumption,
       RegionsSpan, LimitAssumption, AskedAssumption DEF IInv5
  <2>2. UNCHANGED asked5
    BY <1>4 DEF HP5!ReturnToList
  <2> QED
    BY <2>1, <2>2, Refines5
<1> QED
  BY <1>1, <1>2, <1>3, <1>4, NextDoes5, AllocateStep5

\* The invariant holds in every reachable state, and every step is one of Allocator.
LEMMA Inductive5 ==
  HeapsSpec => []IInv5 /\ H5!A!Init /\ [][H5!A!Next]_(H5!H!Regions)
<1>1. HeapsInit => IInv5 /\ H5!A!Init
  <2> SUFFICES ASSUME H5!Init PROVE IInv5 /\ H5!A!Init
    BY DEF HeapsInit
  <2>1. HP5!Init
    BY SameBlocks5 DEF H5!Init, H5!H!Init, HP5!Init
  <2>2. IInv5
    BY <2>1, HP5!InitKeeps, AlignmentAssumption, HeaderAssumption, RegionsSpan,
       LimitAssumption, AskedAssumption DEF IInv5
  <2> QED
    BY <2>2 DEF H5!Init, H5!H!Init, H5!A!Init, H5!H!Regions
<1>2. ASSUME [HeapsNext]_<<variant, vars, vars1, vars2, vars5, varsS, varsR>>
      PROVE  H5!Next \/ UNCHANGED vars5
  BY <1>2, Zenon DEF HeapsNext
<1>3. IInv5 /\ [HeapsNext]_<<variant, vars, vars1, vars2, vars5, varsS, varsR>>
        => IInv5' /\ [H5!A!Next]_(H5!H!Regions)
  BY <1>2, StepHeap5
<1> QED
  BY <1>1, <1>3, PTL DEF HeapsSpec

\* heap_5.c implements the allocator that its callers expect, each region of the user's
\* inside one of the heap's.
THEOREM Heap5Correct == HeapsSpec => Heap5IsAllocator
  BY Inductive5, PTL DEF Heap5IsAllocator, H5!IsAllocator, H5!A!Spec

(***************************************************************************)
(* What the invariant says of the regions.                                 *)
(***************************************************************************)

\* A block is inside one region, and what follows it is a block or the region's end.
LEMMA BlockInRegion5 ==
  ASSUME HP5!Ordered(heap5, Layout5), NEW b \in H5!Blocks
  PROVE  \E i \in 1 .. H5!Count :
            /\ H5!First(i) <= b
            /\ b + heap5.size[b] \in H5!Blocks \union {H5!End(i)}
            /\ b + heap5.size[b] <= H5!End(i)
<1> DEFINE size == heap5.size
           c == b + size[b]
<1>1. HP5!Tiles(size, Layout5) /\ HP5!Layout(Layout5)
  BY LayoutHolds DEF HP5!Ordered
<1>2. b \in DOMAIN size /\ b \in Nat /\ size[b] \in Nat
  BY <1>1, HP5!TilesTypes, AlignmentAssumption, HeaderAssumption, RegionsSpan,
     LimitAssumption, AskedAssumption DEF H5!Blocks
<1>3. PICK f \in DOMAIN Layout5 : HP5!InRegion(size, Layout5, b, f)
  BY <1>1, <1>2 DEF HP5!Tiles
<1>4. PICK i \in 1 .. H5!Count : f = H5!First(i) /\ Layout5[f] = H5!End(i)
  BY LayoutIs
<1>5. H5!First(i) <= b /\ c <= H5!End(i) /\ c \in DOMAIN size \union {H5!End(i)}
  BY <1>3, <1>4 DEF HP5!InRegion
<1>6. ASSUME c \in DOMAIN size, size[c] = 0 PROVE c = H5!End(i)
  <2>1. PICK g \in DOMAIN Layout5 : HP5!InRegion(size, Layout5, c, g)
    BY <1>1, <1>6 DEF HP5!Tiles
  <2>2. c \in Nat /\ c = Layout5[g] /\ g <= c /\ f <= c /\ c <= Layout5[f] /\ c <= Layout5[g]
    <3>1. c \in Nat /\ f \in Nat
      BY <1>2, <1>1 DEF HP5!Layout
    <3>2. c = Layout5[g] /\ g <= c /\ f <= b /\ c <= Layout5[f]
      BY <1>3, <1>6, <2>1 DEF HP5!InRegion
    <3> HIDE DEF c
    <3>3. b <= c
      BY <1>2 DEF c
    <3> QED
      BY <1>2, <3>1, <3>2, <3>3
  <2>3. f = g
    BY <1>1, <2>2, HP5!OneRegion, AlignmentAssumption, HeaderAssumption, RegionsSpan,
       LimitAssumption, AskedAssumption
  <2> QED
    BY <1>4, <2>2, <2>3
<1>7. c \in H5!Blocks \union {H5!End(i)}
  <2>1. CASE c \in DOMAIN size /\ size[c] # 0
    <3>1. size[c] \in Nat
      BY <1>1, <2>1, HP5!TilesTypes, AlignmentAssumption, HeaderAssumption, RegionsSpan,
         LimitAssumption, AskedAssumption
    <3> QED
      BY <2>1, <3>1 DEF H5!Blocks
  <2> QED
    BY <1>5, <1>6, <2>1
<1> QED
  BY <1>5, <1>7

\* A region begins with a block.
LEMMA RegionBegins5 ==
  ASSUME HP5!Ordered(heap5, Layout5), NEW i \in 1 .. H5!Count
  PROVE  H5!First(i) \in H5!Blocks
<1> DEFINE size == heap5.size
           b == H5!First(i)
<1>1. HP5!Tiles(size, Layout5)
  BY DEF HP5!Ordered
<1>2. b \in DOMAIN size
  BY <1>1, LayoutIs DEF HP5!Tiles
<1>3. size[b] \in Nat
  BY <1>1, <1>2, HP5!TilesTypes, AlignmentAssumption, HeaderAssumption, RegionsSpan,
     LimitAssumption, AskedAssumption
<1>4. ASSUME size[b] = 0 PROVE FALSE
  <2>1. PICK f \in DOMAIN Layout5 : HP5!InRegion(size, Layout5, b, f)
    BY <1>1, <1>2 DEF HP5!Tiles
  <2>2. PICK j \in 1 .. H5!Count : Layout5[f] = H5!End(j)
    BY LayoutIs
  <2>3. b = H5!End(j)
    BY <1>4, <2>1, <2>2 DEF HP5!InRegion
  <2> QED
    BY <2>3, RegionsApart
<1> QED
  BY <1>2, <1>3, <1>4 DEF H5!Blocks

\* The blocks of a region tile it.
LEMMA TilesRegions5 ==
  ASSUME HP5!Ordered(heap5, Layout5)
  PROVE  H5!BlocksTileRegions
<1>1. ASSUME NEW b \in H5!Blocks
      PROVE  \A c \in H5!Blocks : c <= b \/ c >= b + heap5.size[b]
  BY DEF HP5!Ordered, HP5!Tiles, H5!Blocks
<1>2. ASSUME NEW b \in H5!Blocks
      PROVE  \E i \in 1 .. H5!Count :
                /\ H5!First(i) <= b
                /\ b + heap5.size[b] \in H5!Blocks \union {H5!End(i)}
                /\ b + heap5.size[b] <= H5!End(i)
                /\ \A c \in H5!Blocks : c <= b \/ c >= b + heap5.size[b]
  BY <1>1, BlockInRegion5, Zenon
<1> QED
  BY <1>2, RegionBegins5, Zenon DEF H5!BlocksTileRegions

\* The list of heap_5.c is in the order of addresses, its blocks are what is neither in
\* use nor on its way back, and no two of them adjoin.
LEMMA ListThrough5 ==
  ASSUME IInv5, HP5!Placed(heap5, Layout5)
  PROVE  H5!ListThroughRegions
<1>1. /\ H5!H!Listed = HP5!Nodes(heap5.next) /\ H5!H!heapStart = HP5!heapStart
      /\ H5!H!Blocks = DOMAIN heap5.size /\ H5!H!Returning = HP5!Returning
  BY DEF H5!H!Listed, H5!H!InList, HP5!Nodes, H5!H!heapStart, HP5!heapStart, H5!H!Blocks,
         H5!H!Returning, HP5!Returning
<1>2. H5!H!End = HP5!End
  BY Zenon DEF H5!H!End, HP5!End, H5!H!AlignDown, HP5!AlignDown
<1>3. H5!H!ListInOrder
  <2>1. HP5!Chain(heap5.next)
    BY DEF HP5!Placed, HP5!Ordered
  <2> QED
    BY <1>1, <1>2, <2>1 DEF HP5!Chain, H5!H!ListInOrder
<1>4. H5!H!EachBlockInOnePlace
  <2>1. H5!H!Blocks = H5!H!Listed \union DOMAIN asked5 \union H5!H!Returning
        /\ H5!H!Listed \intersect (DOMAIN asked5 \union H5!H!Returning) = {}
    BY <1>1 DEF HP5!Placed, HP5!Ordered, HP5!Unlisted
  <2>2. \A b \in DOMAIN asked5 : Header + asked5[b] <= heap5.size[b]
    BY DEF HP5!Placed
  <2>3. /\ DOMAIN asked5 \intersect H5!H!Returning = {}
        /\ \A t, u \in Tasks : t # u => freeing5[t] \intersect freeing5[u] = {}
    BY <1>1 DEF IInv5, HP5!Invariant
  <2> QED
    BY <2>1, <2>2, <2>3 DEF H5!H!EachBlockInOnePlace
<1>5. \A b, c \in H5!Blocks \intersect H5!H!Listed : b + heap5.size[b] # c
  BY <1>1 DEF HP5!Placed, HP5!Ordered, HP5!Adjoins, H5!Blocks
<1> QED
  BY <1>3, <1>4, <1>5 DEF H5!ListThroughRegions

\* Without a region defined there is no list.
LEMMA NoList5 ==
  ASSUME IInv5, ~H5!Defined
  PROVE  H5!ListThroughRegions
<1>1. heap5 = H5!H!NotInitialised /\ DOMAIN asked5 = {} /\ HP5!Returning = {}
  BY HeapShape5 DEF H5!Defined
<1>2. H5!H!Returning = {}
  BY <1>1 DEF H5!H!Returning, HP5!Returning
<1>3. DOMAIN heap5.size = {} /\ DOMAIN heap5.next = {}
  BY <1>1 DEF H5!H!NotInitialised
<1>4. H5!H!Blocks = {} /\ H5!H!Listed = {} /\ H5!Blocks = {}
  BY <1>3 DEF H5!H!Blocks, H5!H!Listed, H5!H!InList, H5!Blocks
<1>5. H5!H!ListInOrder
  BY <1>1 DEF H5!H!ListInOrder, H5!H!Initialised
<1>6. H5!H!EachBlockInOnePlace
  BY <1>1, <1>2, <1>4 DEF H5!H!EachBlockInOnePlace, IInv5, HP5!Invariant
<1> QED
  BY <1>4, <1>5, <1>6 DEF H5!ListThroughRegions

\* When all blocks are in the list, each region is one.
LEMMA WholeRegions5 ==
  ASSUME HP5!Ordered(heap5, Layout5), HP5!Unlisted(heap5) = {}
  PROVE  /\ H5!Blocks = {H5!First(i) : i \in 1 .. H5!Count}
         /\ \A i \in 1 .. H5!Count :
               H5!First(i) + heap5.size[H5!First(i)] = H5!End(i)
<1> DEFINE size == heap5.size
<1>1. /\ HP5!Tiles(size, Layout5) /\ HP5!Nodes(heap5.next) = DOMAIN size
      /\ \A c : ~HP5!Adjoins(size, heap5.next, c)
  BY DEF HP5!Ordered, HP5!Unlisted
<1>2. ASSUME NEW b \in H5!Blocks
      PROVE  b \in DOMAIN size /\ b \in Nat /\ size[b] \in Nat /\ size[b] > 0
  BY <1>1, HP5!TilesTypes, AlignmentAssumption, HeaderAssumption, RegionsSpan,
     LimitAssumption, AskedAssumption DEF H5!Blocks
<1>3. ASSUME NEW b \in H5!Blocks
      PROVE  b + size[b] \notin H5!Blocks
  BY <1>1 DEF HP5!Adjoins, H5!Blocks
<1>4. ASSUME NEW i \in 1 .. H5!Count
      PROVE  H5!First(i) + size[H5!First(i)] = H5!End(i)
  <2> DEFINE b == H5!First(i)
  <2>1. b \in H5!Blocks
    BY RegionBegins5
  <2>2. PICK j \in 1 .. H5!Count :
           /\ H5!First(j) <= b /\ b + size[b] = H5!End(j) /\ b + size[b] <= H5!End(j)
    BY <1>3, <2>1, BlockInRegion5
  <2>3. i = j
    <3>1. i \in Nat /\ j \in Nat /\ j <= i
      BY <2>2, RegionCount, RegionsApart
    <3>2. b \in Nat /\ size[b] \in Nat /\ size[b] > 0 /\ H5!End(j) \in Nat
      BY <1>2, <2>1, RegionEnds
    <3>3. j < i => H5!End(j) < b
      BY RegionOrder
    <3> HIDE DEF b, size
    <3> QED
      BY <2>2, <3>1, <3>2, <3>3
  <2> QED
    BY <2>2, <2>3
<1>5. ASSUME NEW b \in H5!Blocks
      PROVE  \E i \in 1 .. H5!Count : b = H5!First(i)
  <2>1. PICK i \in 1 .. H5!Count : H5!First(i) <= b /\ b + size[b] <= H5!End(i)
    BY BlockInRegion5
  <2> DEFINE f == H5!First(i)
             e == H5!End(i)
  <2>2. f \in H5!Blocks /\ f + size[f] = e
    BY <1>4, RegionBegins5
  <2>3. f \in Nat /\ size[f] \in Nat /\ b \in Nat /\ size[b] \in Nat /\ size[b] > 0 /\ e \in Nat
    BY <1>2, <2>2, RegionEnds
  <2>4. b <= f \/ b >= f + size[f]
    BY <1>1, <1>2, <2>2 DEF HP5!Tiles
  <2> HIDE DEF f, e, size
  <2>5. f <= b /\ b + size[b] <= e
    BY <2>1 DEF f, e, size
  <2>6. b = f
    BY <2>2, <2>3, <2>4, <2>5
  <2> QED
    BY <2>6 DEF f
<1> QED
  BY <1>4, <1>5, RegionBegins5

\* When all has been freed, the bytes of all regions are counted as free.
LEMMA AllFreed5 ==
  ASSUME HP5!Placed(heap5, Layout5), DOMAIN asked5 = {}, HP5!Returning = {}
  PROVE  /\ H5!Blocks = {H5!First(i) : i \in 1 .. H5!Count}
         /\ heap5.freeBytes = H5!xTotalHeapSize
<1> DEFINE size == heap5.size
<1>1. HP5!Ordered(heap5, Layout5) /\ HP5!Exact(heap5) /\ HP5!Unlisted(heap5) = {}
  BY DEF HP5!Placed
<1>2. HP5!Nodes(heap5.next) = DOMAIN size /\ HP5!Tiles(size, Layout5)
  BY <1>1 DEF HP5!Ordered, HP5!Unlisted
<1>3. /\ H5!Blocks = {H5!First(i) : i \in 1 .. H5!Count}
      /\ \A i \in 1 .. H5!Count :
            H5!First(i) + size[H5!First(i)] = H5!End(i)
  BY <1>1, WholeRegions5
<1>4. HP5!Bytes(size, DOMAIN size) = RegionBytes
  <2>1. ASSUME NEW b \in DOMAIN size, NEW z \in b .. b + size[b] - 1
        PROVE  z \in RegionBytes
    <3>1. b \in Nat /\ size[b] \in Nat
      BY <1>2, HP5!TilesTypes, AlignmentAssumption, HeaderAssumption, RegionsSpan,
         LimitAssumption, AskedAssumption
    <3>2. size[b] > 0
      BY <3>1
    <3>3. b \in H5!Blocks
      BY <3>2 DEF H5!Blocks
    <3>4. PICK i \in 1 .. H5!Count : b = H5!First(i)
      BY <1>3, <3>3
    <3>5. b + size[b] = H5!End(i)
      BY <1>3, <3>4
    <3> HIDE DEF size
    <3>6. b + size[b] - 1 = H5!End(i) - 1
      BY <3>1, <3>5
    <3> QED
      BY <3>4, <3>6 DEF RegionBytes
  <2>2. ASSUME NEW i \in 1 .. H5!Count, NEW z \in H5!First(i) .. H5!End(i) - 1
        PROVE  z \in HP5!Bytes(size, DOMAIN size)
    <3> DEFINE b == H5!First(i)
    <3>1. b \in DOMAIN size /\ b + size[b] = H5!End(i)
      BY <1>3 DEF H5!Blocks
    <3>2. b \in Nat /\ size[b] \in Nat
      BY <1>2, <3>1, HP5!TilesTypes, AlignmentAssumption, HeaderAssumption, RegionsSpan,
         LimitAssumption, AskedAssumption
    <3> HIDE DEF b, size
    <3>3. b + size[b] - 1 = H5!End(i) - 1
      BY <3>1, <3>2
    <3>4. z \in b .. b + size[b] - 1
      BY <3>3 DEF b
    <3> QED
      BY <3>1, <3>4 DEF HP5!Bytes
  <2> QED
    BY <2>1, <2>2 DEF HP5!Bytes, RegionBytes
<1>5. heap5.freeBytes = H5!xTotalHeapSize
  BY <1>1, <1>2, <1>4, SameCardinality5 DEF HP5!Exact, H5!xTotalHeapSize, RegionBytes
<1> QED
  BY <1>3, <1>5

\* However heap_5.c splits, merges and takes the nodes between regions out of the list,
\* no block leaves its region, the list goes through all regions, the counter is exact,
\* and what has all been freed is one block for each region.
THEOREM Heap5FormCorrect == HeapsSpec => []Heap5WellFormed
<1>1. IInv5 => Heap5WellFormed
  <2> SUFFICES ASSUME IInv5 PROVE Heap5WellFormed
    OBVIOUS
  <2>1. CASE H5!Defined
    <3>1. HP5!Placed(heap5, Layout5) /\ HP5!Ordered(heap5, Layout5)
      BY <2>1, HeapShape5 DEF HP5!Placed
    <3>2. H5!BlocksTileRegions /\ H5!ListThroughRegions
      BY <3>1, TilesRegions5, ListThrough5
    <3>3. H5!AllFreedIsWhole
      <4> SUFFICES ASSUME asked5 = [b \in {} |-> 0], H5!H!Returning = {}
                   PROVE  /\ H5!Blocks = {H5!First(i) : i \in 1 .. H5!Count}
                          /\ heap5.freeBytes = H5!xTotalHeapSize
        BY DEF H5!AllFreedIsWhole
      <4>1. DOMAIN asked5 = {} /\ HP5!Returning = {}
        BY DEF H5!H!Returning, HP5!Returning
      <4> QED
        BY <3>1, <4>1, AllFreed5
    <3>4. H5!FreeBytesExact
      <4>1. H5!H!Covered(H5!H!Listed) = HP5!Bytes(heap5.size, HP5!Nodes(heap5.next))
        BY DEF H5!H!Covered, HP5!Bytes, H5!H!Listed, H5!H!InList, HP5!Nodes,
               H5!H!heapStart, HP5!heapStart
      <4> QED
        BY <3>1, <4>1, SameCardinality5
          DEF HP5!Placed, HP5!Exact, H5!H!FreeBytesExact, H5!FreeBytesExact
    <3> QED
      BY <3>2, <3>3, <3>4 DEF Heap5WellFormed
  <2>2. CASE ~H5!Defined
    <3>1. H5!BlocksTileRegions /\ H5!AllFreedIsWhole /\ H5!FreeBytesExact
      BY <2>2, Zenon DEF H5!BlocksTileRegions, H5!AllFreedIsWhole, H5!FreeBytesExact
    <3> QED
      BY <2>2, <3>1, NoList5 DEF Heap5WellFormed
  <2> QED
    BY <2>1, <2>2
<1> QED
  BY <1>1, Inductive5, PTL

\* A step of heap_5.c never raises the least that was ever free.
LEMMA MinimumStep5 ==
  ASSUME IInv5, H5!Defined, H5!Next \/ UNCHANGED vars5
  PROVE  heap5'.minimumEver <= heap5.minimumEver
<1>1. HP5!Initialised
  BY SameBlocks5 DEF H5!Defined, HP5!Initialised
<1>2. ~H5!vPortDefineHeapRegions
  BY DEF H5!vPortDefineHeapRegions, H5!Defined
<1>3. UNCHANGED vars5 => UNCHANGED HP5!vars
  BY DEF vars5, HP5!vars
<1>4. \/ \E w \in Nat : HP5!Allocate(w, w)
      \/ \E t \in Tasks, b \in DOMAIN asked5 : HP5!vPortFree(t, b)
      \/ \E t \in Tasks : HP5!ReturnToList(t)
      \/ UNCHANGED HP5!vars
  BY <1>2, <1>3, NextDoes5
<1> QED
  BY <1>1, <1>4, HP5!MinimumKeeps, AlignmentAssumption, HeaderAssumption, RegionsSpan,
     LimitAssumption, AskedAssumption DEF IInv5

\* xMinimumEverFreeBytesRemaining of heap_5.c never rises once the regions are defined.
THEOREM Heap5MinimumFalls ==
  HeapsSpec => [][H5!Defined => heap5'.minimumEver <= heap5.minimumEver]_vars5
<1>1. ASSUME IInv5, [HeapsNext]_<<variant, vars, vars1, vars2, vars5, varsS, varsR>>
      PROVE  [H5!Defined => heap5'.minimumEver <= heap5.minimumEver]_vars5
  <2>1. H5!Next \/ UNCHANGED vars5
    BY <1>1, Zenon DEF HeapsNext
  <2> QED
    BY <1>1, <2>1, MinimumStep5
<1> QED
  BY <1>1, Inductive5, PTL DEF HeapsSpec
=============================================================================
