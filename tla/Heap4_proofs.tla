----------------------------- MODULE Heap4_proofs -----------------------------
(***************************************************************************)
(* heap_4.c keeps its heap in order: for every place and length of         *)
(* ucHeap, alignment, length of the header, width of size_t and set of     *)
(* tasks, through every split, merge and interleaving of pvPortMalloc,     *)
(* pvPortCalloc and vPortFree.  From this it implements Allocator.         *)
(*                                                                         *)
(* The lemmas are about a heap of any number of regions, as heap_5.c       *)
(* divides it: L is the layout, which gives for the first address of each  *)
(* region the address where it ends.  The heap of heap_4.c is one region.  *)
(***************************************************************************)
EXTENDS Heap4, FiniteSetTheorems, TLAPS

(***************************************************************************)
(* Bounded sets of numbers, and multiples of the alignment.                *)
(***************************************************************************)

LEMMA Lowest ==
  ASSUME NEW S \in SUBSET Nat, S # {}
  PROVE  \E m \in S : \A n \in S : m <= n
<1> DEFINE R == OpToRel(<, Nat)
<1>1. IsWellFoundedOn(R, Nat)
  BY NatLessThanWellFounded
<1> HIDE DEF R
<1>2. PICK m \in S : \A n \in S : ~ (<<n, m>> \in R)
  BY <1>1, WFMin
<1>3. \A n \in S : ~ (n < m)
  BY <1>2 DEF OpToRel, R
<1> QED
  BY <1>3

\* A bounded set of numbers that is not empty has a highest member.
LEMMA Highest ==
  ASSUME NEW S \in SUBSET Nat, S # {}, NEW u \in Nat, \A n \in S : n <= u
  PROVE  \E m \in S : \A n \in S : n <= m
<1> DEFINE T == {u - n : n \in S}
<1>1. \A n \in S : u - n \in Nat
  OBVIOUS
<1>2. T \in SUBSET Nat
  BY <1>1
<1>3. T # {}
  OBVIOUS
<1>4. PICK k \in T : \A n \in T : k <= n
  BY <1>2, <1>3, Lowest
<1>5. PICK m \in S : k = u - m
  OBVIOUS
<1>6. \A n \in S : u - m <= u - n
  BY <1>4, <1>5
<1> QED
  BY <1>6

\* A multiple of the alignment is the alignment times its quotient.
LEMMA MultipleOf ==
  ASSUME NEW a \in Nat, a % Alignment = 0
  PROVE  a \div Alignment \in Nat /\ a = Alignment * (a \div Alignment)
BY AlignmentAssumption

\* The alignment times a number is a multiple of the alignment.
LEMMA MultipleIs ==
  ASSUME NEW k \in Nat
  PROVE  (Alignment * k) % Alignment = 0
BY AlignmentAssumption

\* The sum of two multiples of the alignment is one.
LEMMA AlignedSum ==
  ASSUME NEW a \in Nat, NEW b \in Nat, a % Alignment = 0, b % Alignment = 0
  PROVE  (a + b) % Alignment = 0
<1> DEFINE k == a \div Alignment
           l == b \div Alignment
<1>1. k \in Nat /\ a = Alignment * k /\ l \in Nat /\ b = Alignment * l
  BY MultipleOf
<1> HIDE DEF k, l
<1>2. a + b = Alignment * (k + l)
  BY <1>1, AlignmentAssumption
<1> QED
  BY <1>1, <1>2, MultipleIs

\* AlignDown gives the highest aligned address that is not above a.
LEMMA AlignDownIs ==
  ASSUME NEW a \in Nat
  PROVE  /\ AlignDown(a) \in Nat
         /\ AlignDown(a) % Alignment = 0
         /\ AlignDown(a) <= a
         /\ a < AlignDown(a) + Alignment
<1> DEFINE k == a \div Alignment
<1>1. k \in Nat /\ a = Alignment * k + (a % Alignment) /\ a % Alignment \in 0 .. Alignment - 1
  BY AlignmentAssumption
<1> HIDE DEF k
<1>2. Alignment * k \in Nat
  BY <1>1, AlignmentAssumption
<1>3. AlignDown(a) = Alignment * k
  BY <1>1, <1>2, AlignmentAssumption DEF AlignDown
<1> QED
  BY <1>1, <1>2, <1>3, MultipleIs, AlignmentAssumption

\* The heap begins and ends at aligned addresses inside ucHeap, in that order.
LEMMA Ends ==
  /\ First \in Nat /\ First % Alignment = 0 /\ First >= HeapAt /\ First > heapStart
  /\ End \in Nat /\ End % Alignment = 0 /\ End + Header <= HeapAt + HeapSize
  /\ First < End
<1> USE HeapAssumption, HeaderAssumption, AlignmentAssumption
<1>1. HeapAt + (Alignment - 1) \in Nat /\ HeapAt + HeapSize - Header \in Nat
  OBVIOUS
<1>2. /\ First \in Nat /\ First % Alignment = 0
      /\ First <= HeapAt + (Alignment - 1) /\ HeapAt + (Alignment - 1) < First + Alignment
  BY <1>1, AlignDownIs DEF First, AlignUp
<1>3. /\ End \in Nat /\ End % Alignment = 0
      /\ End <= HeapAt + HeapSize - Header /\ HeapAt + HeapSize - Header < End + Alignment
  BY <1>1, AlignDownIs DEF End
<1> QED
  BY <1>2, <1>3, RoomAssumption DEF heapStart

(***************************************************************************)
(* The blocks.                                                             *)
(***************************************************************************)

\* Regions do not overlap, and the first one begins where the heap does.
Layout(L) ==
  /\ First \in DOMAIN L
  /\ \A f \in DOMAIN L : f \in Nat /\ L[f] \in Nat /\ First <= f /\ f < L[f] /\ L[f] <= End
  /\ \A f, g \in DOMAIN L : f < g => L[f] < g

\* The layout of a heap that is one region.
Whole == [f \in {First} |-> End]

\* The block b is in the region that begins at f, and ends where the next one or
\* the region does.  A node of the size 0 is at the end of its region.
InRegion(size, L, b, f) ==
  /\ f <= b
  /\ b + size[b] <= L[f]
  /\ b + size[b] \in DOMAIN size \union {L[f]}
  /\ size[b] = 0 => b = L[f]

\* What BlocksTile and BlocksTileRegions say, of any function from blocks to sizes.
Tiles(size, L) ==
  /\ Layout(L)
  /\ DOMAIN size \subseteq First .. End - 1
  /\ size \in [DOMAIN size -> 0 .. End]
  /\ DOMAIN L \subseteq DOMAIN size
  /\ \A b \in DOMAIN size :
        /\ b % Alignment = 0
        /\ \E f \in DOMAIN L : InRegion(size, L, b, f)
        /\ \A c \in DOMAIN size : c <= b \/ c >= b + size[b]

\* Block x with its neighbour y.
Merge(size, x, y) ==
  [z \in DOMAIN size \ {y} |-> IF z = x THEN size[x] + size[y] ELSE size[z]]

\* Block b in two.
Cut(size, b, n) ==
  [x \in DOMAIN size \union {b + n} |->
     IF x = b THEN n ELSE IF x = b + n THEN size[b] - n ELSE size[x]]

\* Blocks that tile the heap lie inside it.
LEMMA TilesTypes ==
  ASSUME NEW size, NEW L, Tiles(size, L), NEW b \in DOMAIN size
  PROVE  /\ b \in Nat /\ First <= b /\ b < End
         /\ size[b] \in Nat
         /\ b + size[b] <= End
<1>1. b \in First .. End - 1 /\ size[b] \in 0 .. End
  BY DEF Tiles
<1>2. PICK f \in DOMAIN L : b + size[b] <= L[f]
  BY DEF Tiles, InRegion
<1>3. L[f] \in Nat /\ L[f] <= End
  BY DEF Tiles, Layout
<1> QED
  BY <1>1, <1>2, <1>3, Ends

\* Two regions with an address in common, their ends included, are one.
LEMMA OneRegion ==
  ASSUME NEW L, Layout(L), NEW f \in DOMAIN L, NEW g \in DOMAIN L, NEW a \in Nat,
         f <= a, a <= L[f], g <= a, a <= L[g]
  PROVE  f = g
BY DEF Layout

\* In a heap of one region no block is empty, and the last ends where the heap does.
LEMMA WholeTiles ==
  ASSUME NEW size, Tiles(size, Whole)
  PROVE  /\ First \in DOMAIN size
         /\ \A b \in DOMAIN size : size[b] >= 1 /\ b + size[b] \in DOMAIN size \union {End}
<1>1. DOMAIN Whole = {First} /\ Whole[First] = End
  BY DEF Whole
<1>2. ASSUME NEW b \in DOMAIN size
      PROVE  size[b] >= 1 /\ b + size[b] \in DOMAIN size \union {End}
  BY <1>1, TilesTypes, Ends DEF Tiles, InRegion
<1> QED
  BY <1>1, <1>2 DEF Tiles

\* No block begins inside another: of two blocks one ends before the other begins.
LEMMA TilesApart ==
  ASSUME NEW size, NEW L, Tiles(size, L), NEW b \in DOMAIN size, NEW c \in DOMAIN size,
         b # c
  PROVE  b + size[b] <= c \/ c + size[c] <= b
BY TilesTypes DEF Tiles

\* Blocks still tile the heap when two that adjoin become one.
LEMMA MergeTiles ==
  ASSUME NEW size, NEW L, Tiles(size, L), NEW x \in DOMAIN size, NEW y \in DOMAIN size,
         size[x] > 0, x + size[x] = y
  PROVE  Tiles(Merge(size, x, y), L)
<1> DEFINE new == Merge(size, x, y)
<1>1. DOMAIN new = DOMAIN size \ {y} /\ x # y
  BY TilesTypes DEF Merge
<1>2. \A z \in DOMAIN new : new[z] = IF z = x THEN size[x] + size[y] ELSE size[z]
  BY DEF Merge
<1>3. /\ x \in Nat /\ size[x] \in Nat /\ y \in Nat /\ size[y] \in Nat /\ x < y
      /\ y + size[y] \in Nat /\ y + size[y] <= End
  BY TilesTypes, Ends
\* The two are in one region, and it does not begin at the second.
<1>4. PICK f \in DOMAIN L : InRegion(size, L, x, f)
  BY DEF Tiles
<1>5. PICK g \in DOMAIN L : InRegion(size, L, y, g)
  BY DEF Tiles
<1>6. /\ Layout(L) /\ f \in Nat /\ L[f] \in Nat /\ g \in Nat /\ L[g] \in Nat
      /\ f <= x /\ y <= L[f] /\ g <= y /\ y + size[y] <= L[g]
  BY <1>4, <1>5 DEF Tiles, Layout, InRegion
<1>7. f = g
  BY <1>3, <1>6, OneRegion
<1>8. y \notin DOMAIN L
  <2> SUFFICES ASSUME y \in DOMAIN L PROVE FALSE
    OBVIOUS
  <2>1. y < L[y]
    BY <1>6 DEF Layout
  <2>2. f <= y /\ y <= L[f] /\ y <= y /\ y <= L[y]
    BY <1>3, <1>6, <2>1 DEF Layout
  <2>3. f = y
    BY <1>3, <1>6, <2>2, OneRegion
  <2> QED
    BY <1>3, <1>6, <2>3
<1>9. InRegion(new, L, x, f)
  <2>1. new[x] = size[x] + size[y] /\ x + new[x] = y + size[y] /\ new[x] > 0
    BY <1>1, <1>2, <1>3
  <2>2. y + size[y] \in (DOMAIN size \ {y}) \union {L[f]}
    BY <1>3, <1>5, <1>7 DEF InRegion
  <2> QED
    BY <1>1, <1>6, <1>7, <2>1, <2>2 DEF InRegion
<1>10. ASSUME NEW z \in DOMAIN new
       PROVE  /\ new[z] \in 0 .. End
              /\ \E r \in DOMAIN L : InRegion(new, L, z, r)
              /\ \A c \in DOMAIN new : c <= z \/ c >= z + new[z]
  <2>1. CASE z = x
    <3>1. new[z] = size[x] + size[y] /\ z + new[z] = y + size[y]
      BY <1>2, <1>3, <2>1
    <3>2. ASSUME NEW c \in DOMAIN new PROVE c <= z \/ c >= z + new[z]
      <4>1. c \in DOMAIN size /\ c # y /\ c \in Nat
        BY <1>1, TilesTypes
      <4>2. (c <= x \/ c >= x + size[x]) /\ (c <= y \/ c >= y + size[y])
        BY <4>1 DEF Tiles
      <4> QED
        BY <1>3, <2>1, <3>1, <4>1, <4>2
    <3>3. new[z] \in 0 .. End
      BY <1>3, <3>1, Ends
    <3> QED
      BY <1>9, <2>1, <3>2, <3>3
  <2>2. CASE z # x
    <3>1. new[z] = size[z] /\ z \in DOMAIN size /\ z # y
      BY <1>1, <1>2, <2>2
    <3>2. z + size[z] # y
      BY <1>3, <2>2, <3>1, TilesApart, TilesTypes
    <3>3. PICK r \in DOMAIN L : InRegion(size, L, z, r)
      BY <3>1 DEF Tiles
    <3>4. InRegion(new, L, z, r)
      BY <1>1, <3>1, <3>2, <3>3 DEF InRegion
    <3>5. new[z] \in 0 .. End /\ \A c \in DOMAIN new : c <= z \/ c >= z + new[z]
      BY <1>1, <3>1 DEF Tiles
    <3> QED
      BY <3>4, <3>5
  <2> QED
    BY <2>1, <2>2
<1>11. new \in [DOMAIN new -> 0 .. End]
  BY <1>10 DEF Merge
<1>12. /\ Layout(L) /\ DOMAIN new \subseteq First .. End - 1 /\ DOMAIN L \subseteq DOMAIN new
       /\ \A b \in DOMAIN new : b % Alignment = 0
  BY <1>1, <1>8 DEF Tiles
<1> HIDE DEF new
<1>13. Tiles(new, L)
  BY <1>10, <1>11, <1>12 DEF Tiles
<1> QED
  BY <1>13 DEF new

\* Blocks still tile the heap when one is cut in two.
LEMMA CutTiles ==
  ASSUME NEW size, NEW L, Tiles(size, L), NEW b \in DOMAIN size,
         NEW n \in Nat, n > 0, n < size[b], n % Alignment = 0
  PROVE  Tiles(Cut(size, b, n), L) /\ b + n \notin DOMAIN size
<1> DEFINE new == Cut(size, b, n)
           r == b + n
<1>1. /\ b \in Nat /\ First <= b /\ b < End /\ size[b] \in Nat /\ b + size[b] <= End
      /\ b % Alignment = 0
      /\ \A c \in DOMAIN size : c \in Nat /\ (c <= b \/ c >= b + size[b])
  BY TilesTypes DEF Tiles
<1>2. DOMAIN new = DOMAIN size \union {r} /\ new[b] = n /\ new[r] = size[b] - n
  BY <1>1 DEF Cut
<1>3. \A x \in DOMAIN size : x # b /\ x # r => new[x] = size[x]
  BY DEF Cut
<1>4. r \in Nat /\ r \in First .. End - 1 /\ r \notin DOMAIN size /\ b < r
  BY <1>1, Ends
<1>5. r % Alignment = 0
  BY <1>1, AlignedSum
<1>6. PICK f \in DOMAIN L : InRegion(size, L, b, f)
  BY DEF Tiles
<1>7. f \in Nat /\ L[f] \in Nat
  BY DEF Tiles, Layout
<1> HIDE DEF r
<1>8. /\ b + new[b] = r /\ new[b] \in 0 .. End /\ new[b] > 0
      /\ r + new[r] = b + size[b] /\ new[r] \in 0 .. End /\ new[r] > 0
  BY <1>1, <1>2, Ends DEF r
<1>9. ASSUME NEW x \in DOMAIN new
      PROVE  /\ x % Alignment = 0
             /\ new[x] \in 0 .. End
             /\ \E g \in DOMAIN L : InRegion(new, L, x, g)
             /\ \A c \in DOMAIN new : c <= x \/ c >= x + new[x]
  <2>1. CASE x = b
    <3>1. InRegion(new, L, b, f)
      BY <1>1, <1>2, <1>4, <1>6, <1>7, <1>8 DEF InRegion, r
    <3> QED
      BY <1>1, <1>2, <1>4, <1>8, <2>1, <3>1
  <2>2. CASE x = r
    <3>1. InRegion(new, L, r, f)
      BY <1>1, <1>2, <1>4, <1>6, <1>7, <1>8 DEF InRegion
    <3>2. \A c \in DOMAIN size : c <= r \/ c >= b + size[b]
      BY <1>1, <1>4
    <3> QED
      BY <1>2, <1>4, <1>5, <1>8, <2>2, <3>1, <3>2
  <2>3. CASE x # b /\ x # r
    <3>1. x \in DOMAIN size /\ new[x] = size[x]
      BY <1>2, <1>3, <2>3
    <3>2. r <= x \/ r >= x + size[x]
      BY <1>1, <1>4, <2>3, <3>1, TilesApart, TilesTypes DEF r
    <3>3. PICK g \in DOMAIN L : InRegion(size, L, x, g)
      BY <3>1 DEF Tiles
    <3>4. InRegion(new, L, x, g)
      BY <1>2, <3>1, <3>3 DEF InRegion
    <3> QED
      BY <1>2, <3>1, <3>2, <3>4 DEF Tiles
  <2> QED
    BY <2>1, <2>2, <2>3
<1>10. new \in [DOMAIN new -> 0 .. End]
  BY <1>9 DEF Cut
<1>11. Layout(L) /\ DOMAIN new \subseteq First .. End - 1 /\ DOMAIN L \subseteq DOMAIN new
  BY <1>2, <1>4 DEF Tiles
<1> HIDE DEF new
<1>12. Tiles(new, L)
  BY <1>9, <1>10, <1>11 DEF Tiles
<1> QED
  BY <1>4, <1>12 DEF new, r

(***************************************************************************)
(* The list.                                                               *)
(***************************************************************************)
Nodes(next) == DOMAIN next \ {heapStart}

\* What ListInOrder says, of any function from nodes to their successors.
Chain(next) ==
  /\ heapStart \in DOMAIN next
  /\ Nodes(next) \subseteq First .. End - 1
  /\ next \in [DOMAIN next -> Nodes(next) \union {End}]
  /\ \A i \in DOMAIN next :
        /\ i < next[i]
        /\ \A j \in Nodes(next) : j <= i \/ next[i] <= j

\* Block b after node i.
Link(next, i, b) ==
  [x \in DOMAIN next \union {b} |->
     IF x = b THEN next[i] ELSE IF x = i THEN b ELSE next[x]]

\* The list without b.
Drop(next, b) ==
  [x \in DOMAIN next \ {b} |-> IF next[x] = b THEN next[b] ELSE next[x]]

\* Each node of a chain leads to a later one, and the last to pxEnd.
LEMMA ChainTypes ==
  ASSUME NEW next, Chain(next), NEW i \in DOMAIN next
  PROVE  /\ i \in Nat /\ i < End /\ next[i] \in Nat /\ i < next[i] /\ next[i] <= End
         /\ i # heapStart => i \in Nodes(next) /\ First <= i
         /\ next[i] # End => next[i] \in Nodes(next)
BY Ends DEF Chain, Nodes, heapStart

\* A node put between two neighbours of a chain makes a chain with one node more.
LEMMA LinkChain ==
  ASSUME NEW next, Chain(next), NEW i \in DOMAIN next,
         NEW b \in First .. End - 1, b \notin Nodes(next), i < b, b < next[i]
  PROVE  /\ Chain(Link(next, i, b))
         /\ Nodes(Link(next, i, b)) = Nodes(next) \union {b}
<1> DEFINE new == Link(next, i, b)
<1>1. b \in Nat /\ b < End /\ b # heapStart /\ b \notin DOMAIN next
  BY Ends DEF Nodes
<1>2. DOMAIN new = DOMAIN next \union {b} /\ Nodes(new) = Nodes(next) \union {b}
  BY <1>1 DEF Link, Nodes
<1>3. \A x \in DOMAIN new :
         new[x] = IF x = b THEN next[i] ELSE IF x = i THEN b ELSE next[x]
  BY DEF Link
<1>4. ASSUME NEW x \in DOMAIN new
      PROVE  /\ new[x] \in Nodes(new) \union {End}
             /\ x < new[x]
             /\ \A j \in Nodes(new) : j <= x \/ new[x] <= j
  <2>1. CASE x = b
    BY <1>1, <1>2, <1>3, <2>1, ChainTypes DEF Chain, Nodes
  <2>2. CASE x = i
    BY <1>1, <1>2, <1>3, <2>2, ChainTypes DEF Chain, Nodes
  <2>3. CASE x # b /\ x # i
    <3>1. x \in DOMAIN next /\ new[x] = next[x]
      BY <1>2, <1>3, <2>3
    <3>2. x < i \/ next[i] <= x
      BY <2>3, <3>1, ChainTypes DEF Chain, Nodes, heapStart
    <3>3. x < i => next[x] <= i
      BY <3>1, ChainTypes DEF Chain, Nodes, heapStart
    <3>4. b <= x \/ next[x] <= b
      BY <1>1, <3>1, <3>2, <3>3, ChainTypes
    <3> QED
      BY <1>2, <3>1, <3>4 DEF Chain
  <2> QED
    BY <2>1, <2>2, <2>3
<1>5. new \in [DOMAIN new -> Nodes(new) \union {End}]
  BY <1>4 DEF Link
<1> QED
  BY <1>2, <1>4, <1>5 DEF Chain

\* A chain is one without any one of its nodes.
LEMMA DropChain ==
  ASSUME NEW next, Chain(next), NEW b \in Nodes(next)
  PROVE  Chain(Drop(next, b)) /\ Nodes(Drop(next, b)) = Nodes(next) \ {b}
<1> DEFINE new == Drop(next, b)
<1>1. DOMAIN new = DOMAIN next \ {b} /\ Nodes(new) = Nodes(next) \ {b}
  BY DEF Drop, Nodes
<1>2. b \in DOMAIN next /\ b # heapStart
  BY DEF Nodes
<1>3. ASSUME NEW x \in DOMAIN new
      PROVE  /\ new[x] \in Nodes(new) \union {End}
             /\ x < new[x]
             /\ \A j \in Nodes(new) : j <= x \/ new[x] <= j
  <2>1. new[x] = IF next[x] = b THEN next[b] ELSE next[x]
    BY DEF Drop
  <2>2. CASE next[x] = b
    <3>1. x < b /\ b < next[b] /\ next[b] \in Nodes(new) \union {End}
      BY <1>1, <1>2, <2>2, ChainTypes DEF Chain
    <3>2. \A j \in Nodes(new) : (j <= x \/ b <= j) /\ (j <= b \/ next[b] <= j) /\ j # b
      BY <1>1, <1>2, <2>2 DEF Chain
    <3>3. \A j \in Nodes(new) : j \in Nat
      BY <1>1, ChainTypes DEF Nodes
    <3> QED
      BY <1>1, <1>2, <2>1, <2>2, <3>1, <3>2, <3>3, ChainTypes
  <2>3. CASE next[x] # b
    BY <1>1, <2>1, <2>3 DEF Chain
  <2> QED
    BY <2>2, <2>3
<1>4. new \in [DOMAIN new -> Nodes(new) \union {End}]
  BY <1>3 DEF Drop
<1> QED
  BY <1>1, <1>2, <1>3, <1>4 DEF Chain

\* No two nodes have the same successor.
LEMMA OnePredecessor ==
  ASSUME NEW next, Chain(next), NEW i \in DOMAIN next, NEW x \in DOMAIN next,
         next[i] = next[x]
  PROVE  i = x
<1>1. ASSUME NEW k \in DOMAIN next, NEW l \in DOMAIN next, k < l
      PROVE  next[k] # next[l]
  <2>1. l \in Nodes(next)
    BY <1>1, ChainTypes DEF heapStart
  <2>2. next[k] <= l
    BY <1>1, <2>1, ChainTypes DEF Chain
  <2> QED
    BY <2>2, ChainTypes
<1> QED
  BY <1>1, ChainTypes

\* The loop of prvInsertBlockIntoFreeList stops at a node, between which and its
\* successor is the place of b.
LEMMA IteratorStops ==
  ASSUME NEW h, Chain(h.next), NEW b \in First .. End - 1, b \notin Nodes(h.next)
  PROVE  /\ pxIterator(h, b) \in DOMAIN h.next
         /\ pxIterator(h, b) < b
         /\ b < h.next[pxIterator(h, b)]
<1> DEFINE next == h.next
           S == {i \in DOMAIN next : i < b}
<1>1. b \in Nat /\ b < End /\ b > heapStart
  BY Ends DEF heapStart
<1>2. S \in SUBSET Nat /\ heapStart \in S
  BY <1>1, ChainTypes DEF Chain
<1>3. \A n \in S : n <= b
  BY <1>1, <1>2
<1>4. PICK m \in S : \A n \in S : n <= m
  BY <1>1, <1>2, <1>3, Highest
<1>5. ~ (next[m] < b)
  BY <1>1, <1>4, ChainTypes DEF Nodes
<1>6. \E i \in DOMAIN next : i < b /\ ~ (next[i] < b)
  BY <1>4, <1>5
<1>7. /\ pxIterator(h, b) \in DOMAIN next
      /\ pxIterator(h, b) < b
      /\ ~ (next[pxIterator(h, b)] < b)
  BY <1>6 DEF pxIterator
<1> QED
  BY <1>1, <1>7, ChainTypes

(***************************************************************************)
(* Blocks of the list that adjoin are merged.                              *)
(***************************************************************************)

\* The bytes of a set of blocks.
Bytes(size, S) == UNION {b .. b + size[b] - 1 : b \in S}

\* Two blocks of the list adjoin.  A node of the size 0 is no block.
Adjoins(size, next, c) ==
  /\ c \in Nodes(next) /\ size[c] > 0
  /\ c + size[c] \in Nodes(next) /\ size[c + size[c]] > 0

\* Merging two blocks of the list loses no byte, moves no other block, and leaves of
\* the pairs that adjoin all but this one.
LEMMA JoinKeeps ==
  ASSUME NEW size, NEW L, Tiles(size, L), NEW next, Chain(next), Nodes(next) \subseteq DOMAIN size,
         NEW x \in Nodes(next), NEW y \in Nodes(next), size[x] > 0, x + size[x] = y
  PROVE  LET size2 == Merge(size, x, y)
             next2 == Drop(next, y)
         IN  /\ Tiles(size2, L) /\ Chain(next2)
             /\ DOMAIN size2 = DOMAIN size \ {y}
             /\ Nodes(next2) = Nodes(next) \ {y}
             /\ \A z \in DOMAIN size2 : z # x => size2[z] = size[z]
             /\ Bytes(size2, Nodes(next2)) = Bytes(size, Nodes(next))
             /\ \A c : Adjoins(size2, next2, c) =>
                         IF c = x THEN Adjoins(size, next, y)
                         ELSE Adjoins(size, next, c) /\ c + size[c] # y
<1> DEFINE size2 == Merge(size, x, y)
           next2 == Drop(next, y)
<1>1. Tiles(size2, L)
  BY MergeTiles
<1>2. Chain(next2) /\ Nodes(next2) = Nodes(next) \ {y}
  BY DropChain
<1>3. DOMAIN size2 = DOMAIN size \ {y}
  BY DEF Merge
<1>4. \A z \in DOMAIN size2 : size2[z] = IF z = x THEN size[x] + size[y] ELSE size[z]
  BY DEF Merge
<1>5. /\ x \in Nat /\ size[x] \in Nat /\ y \in Nat /\ size[y] \in Nat /\ x # y
      /\ x \in DOMAIN size2 /\ x \in Nodes(next2)
      /\ size2[x] = size[x] + size[y] /\ x + size2[x] = y + size[y]
  BY <1>2, <1>3, <1>4, TilesTypes
<1> HIDE DEF size2, next2
<1>6. Bytes(size2, Nodes(next2)) = Bytes(size, Nodes(next))
  <2>1. x .. x + size2[x] - 1 = (x .. x + size[x] - 1) \union (y .. y + size[y] - 1)
    BY <1>5, TilesTypes
  <2>2. ASSUME NEW z, z \in Bytes(size2, Nodes(next2))
        PROVE  z \in Bytes(size, Nodes(next))
    <3>1. PICK c \in Nodes(next2) : z \in c .. c + size2[c] - 1
      BY <2>2 DEF Bytes
    <3>2. CASE c = x
      BY <2>1, <3>1, <3>2 DEF Bytes
    <3>3. CASE c # x
      BY <1>2, <1>3, <1>4, <3>1, <3>3 DEF Bytes
    <3> QED
      BY <3>2, <3>3
  <2>3. ASSUME NEW z, z \in Bytes(size, Nodes(next))
        PROVE  z \in Bytes(size2, Nodes(next2))
    <3>1. PICK c \in Nodes(next) : z \in c .. c + size[c] - 1
      BY <2>3 DEF Bytes
    <3>2. CASE c = x \/ c = y
      <4>1. z \in x .. x + size2[x] - 1
        BY <2>1, <3>1, <3>2
      <4> QED
        BY <1>5, <4>1 DEF Bytes
    <3>3. CASE c # x /\ c # y
      <4>1. c \in Nodes(next2) /\ size2[c] = size[c]
        BY <1>2, <1>3, <1>4, <3>3
      <4> QED
        BY <3>1, <4>1 DEF Bytes
    <3> QED
      BY <3>2, <3>3
  <2> QED
    BY <2>2, <2>3
<1>7. ASSUME NEW c, Adjoins(size2, next2, c)
      PROVE  IF c = x THEN Adjoins(size, next, y)
             ELSE Adjoins(size, next, c) /\ c + size[c] # y
  <2>1. /\ c \in Nodes(next) \ {y} /\ size2[c] > 0
        /\ c + size2[c] \in Nodes(next) \ {y} /\ size2[c + size2[c]] > 0
    BY <1>2, <1>7 DEF Adjoins
  <2>2. CASE c = x
    <3>1. y + size[y] \in Nodes(next) /\ y + size[y] # y /\ y + size[y] # x
      BY <1>5, <2>1, <2>2
    <3>2. size2[y + size[y]] = size[y + size[y]]
      BY <1>3, <1>4, <3>1
    <3>3. size[y] > 0 /\ size[y + size[y]] > 0
      BY <1>5, <2>1, <2>2, <3>1, <3>2
    <3> QED
      BY <2>2, <3>1, <3>3 DEF Adjoins
  <2>3. CASE c # x
    <3>1. size2[c] = size[c]
      BY <1>3, <1>4, <2>1, <2>3
    <3>2. size[c + size[c]] > 0
      BY <1>3, <1>4, <2>1, <3>1
    <3> QED
      BY <2>1, <2>3, <3>1, <3>2 DEF Adjoins
  <2> QED
    BY <2>2, <2>3
<1> QED
  BY <1>1, <1>2, <1>3, <1>4, <1>6, <1>7 DEF size2, next2

Fields == {"size", "next", "freeBytes", "minimumEver"}

\* The heap between two calls: BlocksTile, ListInOrder and NoAdjoiningFree, of any
\* heap that has blocks, in the regions of L.  A node of the size 0 is in the list.
Ordered(h, L) ==
  /\ DOMAIN h = Fields
  /\ Tiles(h.size, L)
  /\ Chain(h.next)
  /\ Nodes(h.next) \subseteq DOMAIN h.size
  /\ \A b \in DOMAIN h.size : h.size[b] = 0 => b \in Nodes(h.next)
  /\ \A c : ~Adjoins(h.size, h.next, c)

\* prvInsertBlockIntoFreeList links b, and then merges it with the block after it,
\* and what this gives with the block before.
LinkedIn(h, b) == Link(h.next, pxIterator(h, b), b)

MergesBefore(h, b) == JoinsBefore(h, pxIterator(h, b), b)
MergesAfter(h, b) == JoinsAfter(h, b, h.next[pxIterator(h, b)])

SizeJoinedAfter(h, b) ==
  IF MergesAfter(h, b) THEN Merge(h.size, b, h.next[pxIterator(h, b)]) ELSE h.size
NextJoinedAfter(h, b) ==
  IF MergesAfter(h, b) THEN Drop(LinkedIn(h, b), h.next[pxIterator(h, b)])
  ELSE LinkedIn(h, b)

SizeJoined(h, b) ==
  IF MergesBefore(h, b) THEN Merge(SizeJoinedAfter(h, b), pxIterator(h, b), b)
  ELSE SizeJoinedAfter(h, b)
NextJoined(h, b) ==
  IF MergesBefore(h, b) THEN Drop(NextJoinedAfter(h, b), b) ELSE NextJoinedAfter(h, b)

\* What prvInsertBlockIntoFreeList returns: the block is linked in, and merged with
\* the block after it and with the block before it where they adjoin.
LEMMA InsertIs ==
  ASSUME NEW h, NEW L, Ordered(h, L), NEW b \in DOMAIN h.size, b \notin Nodes(h.next)
  PROVE  LET r == prvInsertBlockIntoFreeList(h, b)
         IN  /\ DOMAIN r = Fields
             /\ r.freeBytes = h.freeBytes /\ r.minimumEver = h.minimumEver
             /\ r.size = SizeJoined(h, b)
             /\ r.next = NextJoined(h, b)
<1> DEFINE r == prvInsertBlockIntoFreeList(h, b)
           it == pxIterator(h, b)
           nx == h.next[it]
           before == JoinsBefore(h, it, b)
           after == JoinsAfter(h, b, nx)
           merged == IF before THEN it ELSE b
           gone == (IF before THEN {b} ELSE {}) \union (IF after THEN {nx} ELSE {})
           length == h.size[b] + (IF before THEN h.size[it] ELSE 0)
                       + (IF after THEN h.size[nx] ELSE 0)
           size == [x \in DOMAIN h.size \ gone |->
                      IF x = merged THEN length ELSE h.size[x]]
           next == [x \in (DOMAIN h.next \union {merged}) \ gone |->
                      IF x = merged THEN (IF after THEN h.next[nx] ELSE nx)
                      ELSE IF x = it THEN merged
                      ELSE h.next[x]]
<1>1. r = [h EXCEPT !.size = size, !.next = next]
  BY DEF prvInsertBlockIntoFreeList
<1>2. /\ DOMAIN r = Fields /\ r.size = size /\ r.next = next
      /\ r.freeBytes = h.freeBytes /\ r.minimumEver = h.minimumEver
  BY <1>1 DEF Ordered, Fields
<1>3. /\ it \in DOMAIN h.next /\ it < b /\ b < nx
      /\ b \in Nat /\ b < End /\ b # heapStart /\ it \in Nat /\ nx \in Nat
      /\ b \notin DOMAIN h.next
  BY IteratorStops, TilesTypes, ChainTypes, Ends DEF Ordered, Tiles, Nodes
<1>4. before => it \in Nodes(h.next) /\ it \in DOMAIN h.size
  BY <1>3 DEF JoinsBefore, Ordered, Nodes
<1>5. after => nx \in Nodes(h.next) /\ nx \in DOMAIN h.size /\ nx \in DOMAIN h.next
  BY <1>3, ChainTypes DEF JoinsAfter, Ordered, Nodes
<1>6. \A x \in DOMAIN h.next : h.next[x] = nx => x = it
  BY <1>3, OnePredecessor DEF Ordered
<1>7. \A x \in DOMAIN h.next : h.next[x] # b
  BY <1>3 DEF Ordered, Chain
<1>8. h.size[b] \in Nat /\ (before => h.size[it] \in Nat) /\ (after => h.size[nx] \in Nat)
  BY <1>4, <1>5, TilesTypes DEF Ordered
<1> HIDE DEF it, nx, before, after
<1>9. size = IF before
             THEN Merge(IF after THEN Merge(h.size, b, nx) ELSE h.size, it, b)
             ELSE IF after THEN Merge(h.size, b, nx) ELSE h.size
  <2>1. CASE before /\ after
    BY <2>1, <1>3, <1>4, <1>5, <1>8 DEF Merge
  <2>2. CASE before /\ ~after
    BY <2>2, <1>3, <1>4, <1>8 DEF Merge
  <2>3. CASE ~before /\ after
    BY <2>3, <1>3, <1>5, <1>8 DEF Merge
  <2>4. CASE ~before /\ ~after
    BY <2>4, <1>3, <1>8 DEF Ordered, Tiles
  <2> QED
    BY <2>1, <2>2, <2>3, <2>4
<1> DEFINE one == Link(h.next, it, b)
           two == IF after THEN Drop(one, nx) ELSE one
           three == IF before THEN Drop(two, b) ELSE two
<1>10. /\ DOMAIN one = DOMAIN h.next \union {b}
       /\ \A x \in DOMAIN one :
             one[x] = IF x = b THEN nx ELSE IF x = it THEN b ELSE h.next[x]
  BY DEF Link, nx
<1>11. /\ DOMAIN two = DOMAIN one \ (IF after THEN {nx} ELSE {})
       /\ \A x \in DOMAIN two :
             two[x] = IF x = b THEN (IF after THEN h.next[nx] ELSE nx)
                      ELSE IF x = it THEN b ELSE h.next[x]
  <2>1. CASE after
    <3>1. two = [x \in DOMAIN one \ {nx} |-> IF one[x] = nx THEN one[nx] ELSE one[x]]
      BY <2>1 DEF Drop
    <3>2. one[nx] = h.next[nx] /\ b # nx
      BY <1>3, <1>5, <1>10, <2>1
    <3> QED
      BY <1>3, <1>6, <1>10, <2>1, <3>1, <3>2
  <2>2. CASE ~after
    BY <1>10, <2>2
  <2> QED
    BY <2>1, <2>2
<1> HIDE DEF one
<1>12. /\ DOMAIN three = DOMAIN two \ (IF before THEN {b} ELSE {})
       /\ \A x \in DOMAIN three : three[x] = next[x]
       /\ DOMAIN three = DOMAIN next
  <2>1. DOMAIN next = (DOMAIN h.next \union {b}) \ gone
    BY <1>3, <1>4 DEF Nodes
  <2>2. CASE before
    <3>1. three = [x \in DOMAIN two \ {b} |-> IF two[x] = b THEN two[b] ELSE two[x]]
      BY <2>2 DEF Drop
    <3>2. b \in DOMAIN two /\ two[b] = IF after THEN h.next[nx] ELSE nx
      BY <1>3, <1>10, <1>11
    <3>3. DOMAIN three = DOMAIN two \ {b} /\ DOMAIN three = DOMAIN next
      BY <1>10, <1>11, <2>1, <2>2, <3>1
    <3>4. ASSUME NEW x \in DOMAIN three PROVE three[x] = next[x]
      <4>1. x \in DOMAIN two /\ x # b /\ x \in DOMAIN next
        BY <3>3
      <4>2. three[x] = IF two[x] = b THEN two[b] ELSE two[x]
        BY <3>1, <4>1
      <4>3. two[x] = IF x = it THEN b ELSE h.next[x]
        BY <1>11, <4>1
      <4>4. x # it => x \in DOMAIN h.next /\ h.next[x] # b
        BY <1>7, <1>10, <1>11, <4>1
      <4>5. next[x] = IF x = it THEN (IF after THEN h.next[nx] ELSE nx) ELSE h.next[x]
        BY <2>2, <4>1
      <4> QED
        BY <3>2, <4>2, <4>3, <4>4, <4>5
    <3> QED
      BY <2>2, <3>3, <3>4
  <2>3. CASE ~before
    <3>1. three = two
      BY <2>3
    <3>2. DOMAIN three = DOMAIN next
      BY <1>10, <1>11, <2>1, <2>3
    <3>3. \A x \in DOMAIN next :
            next[x] = IF x = b THEN (IF after THEN h.next[nx] ELSE nx)
                      ELSE IF x = it THEN b ELSE h.next[x]
      BY <2>3
    <3> QED
      BY <1>11, <2>3, <3>1, <3>2, <3>3
  <2> QED
    BY <2>2, <2>3
<1>13. next = three
  <2>1. three = [x \in DOMAIN three |-> three[x]]
    <3>1. \A f, y : Drop(f, y) = [x \in DOMAIN Drop(f, y) |-> Drop(f, y)[x]]
      BY DEF Drop
    <3>2. one = [x \in DOMAIN one |-> one[x]]
      BY DEF Link, one
    <3>3. three \in {Drop(two, b), Drop(one, nx), one}
      OBVIOUS
    <3> HIDE DEF three, two
    <3> QED
      BY <3>1, <3>2, <3>3
  <2>2. next = [x \in DOMAIN next |-> next[x]]
    OBVIOUS
  <2> HIDE DEF next, three
  <2> QED
    BY <1>12, <2>1, <2>2
<1> QED
  BY <1>2, <1>9, <1>13
     DEF SizeJoined, NextJoined, SizeJoinedAfter, NextJoinedAfter, MergesBefore,
         MergesAfter, LinkedIn, one, it, nx, before, after

\* prvInsertBlockIntoFreeList adds the bytes of b to the list, keeps it in order and
\* leaves no two blocks of it adjoining; blocks disappear only into their neighbours.
LEMMA InsertKeeps ==
  ASSUME NEW h, NEW L, Ordered(h, L), NEW b \in DOMAIN h.size, b \notin Nodes(h.next)
  PROVE  LET r == prvInsertBlockIntoFreeList(h, b)
             old == Nodes(h.next)
         IN  /\ Ordered(r, L)
             /\ r.freeBytes = h.freeBytes /\ r.minimumEver = h.minimumEver
             /\ \E gone \in SUBSET (old \union {b}) :
                   /\ DOMAIN r.size = DOMAIN h.size \ gone
                   /\ Nodes(r.next) = (old \union {b}) \ gone
             /\ \A x \in DOMAIN h.size \ (old \union {b}) : r.size[x] = h.size[x]
             /\ Bytes(r.size, Nodes(r.next)) =
                  Bytes(h.size, old) \union (b .. b + h.size[b] - 1)
<1> DEFINE r == prvInsertBlockIntoFreeList(h, b)
           it == pxIterator(h, b)
           nx == h.next[it]
           old == Nodes(h.next)
           bytes == Bytes(h.size, old) \union (b .. b + h.size[b] - 1)
           before == MergesBefore(h, b)
           after == MergesAfter(h, b)
           one == LinkedIn(h, b)
           size2 == SizeJoinedAfter(h, b)
           two == NextJoinedAfter(h, b)
           gone2 == IF after THEN {nx} ELSE {}
           gone3 == IF before THEN {b} ELSE {}
<1>1. /\ it \in DOMAIN h.next /\ it < b /\ b < nx /\ b \in First .. End - 1
      /\ b \in Nat /\ it \in Nat /\ nx \in Nat /\ b # heapStart
      /\ Tiles(h.size, L) /\ Chain(h.next) /\ old \subseteq DOMAIN h.size
      /\ h.size[b] \in Nat /\ h.size[b] >= 1
  <2>1. b \in First .. End - 1 /\ Tiles(h.size, L) /\ Chain(h.next) /\ old \subseteq DOMAIN h.size
    BY DEF Ordered, Tiles
  <2>2. h.size[b] \in Nat /\ h.size[b] # 0
    BY <2>1, TilesTypes DEF Ordered
  <2>3. it \in DOMAIN h.next /\ it < b /\ b < nx /\ it \in Nat /\ nx \in Nat
    BY <2>1, IteratorStops, ChainTypes
  <2> QED
    BY <2>1, <2>2, <2>3, Ends DEF heapStart
<1>2. before => it \in old /\ it + h.size[it] = b
  BY <1>1 DEF MergesBefore, JoinsBefore, Nodes
<1>3. after => nx \in old /\ b + h.size[b] = nx
  BY <1>1, ChainTypes DEF MergesAfter, JoinsAfter
<1>4. /\ Chain(one) /\ Nodes(one) = old \union {b}
      /\ Nodes(one) \subseteq DOMAIN h.size
  BY <1>1, LinkChain DEF LinkedIn
<1>5. Bytes(h.size, Nodes(one)) = bytes
  BY <1>4 DEF Bytes
<1>6. ASSUME NEW c, Adjoins(h.size, one, c)
      PROVE  (after /\ c = b) \/ (before /\ c = it)
  <2>1. /\ c \in old \union {b} /\ c + h.size[c] \in old \union {b}
        /\ h.size[c] > 0 /\ h.size[c + h.size[c]] > 0
    BY <1>4, <1>6 DEF Adjoins
  <2>2. CASE c = b
    <3>1. b + h.size[b] \in old
      BY <1>1, <2>1, <2>2
    <3>2. nx <= b + h.size[b]
      BY <1>1, <3>1 DEF Chain
    <3>3. nx # End /\ nx \in old
      BY <1>1, <3>1, <3>2, ChainTypes, TilesTypes
    <3>4. nx = b + h.size[b]
      BY <1>1, <3>2, <3>3 DEF Tiles
    <3> QED
      BY <2>2, <3>3, <3>4 DEF MergesAfter, JoinsAfter
  <2>3. CASE c # b
    <3>1. c \in old /\ c + h.size[c] = b
      BY <2>1, <2>3 DEF Ordered, Adjoins
    <3>2. c < b /\ c \in Nat /\ h.size[c] \in Nat
      BY <1>1, <2>1, <3>1, TilesTypes
    <3>3. c <= it
      BY <1>1, <3>1, <3>2 DEF Chain
    <3>4. it \in old
      BY <1>1, <3>1, <3>2, <3>3, TilesTypes, Ends DEF Nodes, heapStart
    <3>5. c = it
      BY <1>1, <3>1, <3>2, <3>3, <3>4, TilesTypes DEF Tiles
    <3> QED
      BY <3>1, <3>4, <3>5 DEF MergesBefore, JoinsBefore, Nodes
  <2> QED
    BY <2>2, <2>3
<1> HIDE DEF it, nx, before, after, one, size2, two, r, old, bytes
\* The merge with the block after b.
<1>7. /\ Tiles(size2, L) /\ Chain(two)
      /\ DOMAIN size2 = DOMAIN h.size \ gone2
      /\ Nodes(two) = (old \union {b}) \ gone2
      /\ \A x \in DOMAIN size2 : x # b => size2[x] = h.size[x]
      /\ Bytes(size2, Nodes(two)) = bytes
      /\ \A c : Adjoins(size2, two, c) => before /\ c = it
  <2>1. CASE after
    <3>1. /\ nx \in Nodes(one) /\ b \in Nodes(one) /\ b + h.size[b] = nx /\ h.size[b] > 0
          /\ Tiles(h.size, L) /\ Chain(one) /\ Nodes(one) \subseteq DOMAIN h.size
      BY <1>1, <1>3, <1>4, <2>1
    <3>2. size2 = Merge(h.size, b, nx) /\ two = Drop(one, nx)
      BY <2>1 DEF size2, two, one, SizeJoinedAfter, NextJoinedAfter, nx, it, after
    <3>3. /\ Tiles(size2, L) /\ Chain(two)
          /\ DOMAIN size2 = DOMAIN h.size \ {nx}
          /\ Nodes(two) = Nodes(one) \ {nx}
          /\ \A x \in DOMAIN size2 : x # b => size2[x] = h.size[x]
          /\ Bytes(size2, Nodes(two)) = Bytes(h.size, Nodes(one))
          /\ \A c : Adjoins(size2, two, c) =>
                      IF c = b THEN Adjoins(h.size, one, nx)
                      ELSE Adjoins(h.size, one, c) /\ c + h.size[c] # nx
      BY <3>1, <3>2, JoinKeeps
    <3>4. ~Adjoins(h.size, one, nx)
      BY <1>1, <1>6
    <3>5. \A c : Adjoins(size2, two, c) => before /\ c = it
      BY <1>6, <3>3, <3>4
    <3> QED
      BY <1>4, <1>5, <2>1, <3>3, <3>5
  <2>2. CASE ~after
    <3>1. size2 = h.size /\ two = one
      BY <2>2 DEF size2, two, one, SizeJoinedAfter, NextJoinedAfter, after
    <3> QED
      BY <1>1, <1>4, <1>5, <1>6, <2>2, <3>1
  <2> QED
    BY <2>1, <2>2
\* The merge of this with the block before b.
<1>8. /\ DOMAIN r = Fields /\ Tiles(r.size, L) /\ Chain(r.next)
      /\ DOMAIN r.size = DOMAIN size2 \ gone3
      /\ Nodes(r.next) = Nodes(two) \ gone3
      /\ \A x \in DOMAIN r.size : x # it \/ ~before => r.size[x] = size2[x]
      /\ Bytes(r.size, Nodes(r.next)) = bytes
      /\ \A c : ~Adjoins(r.size, r.next, c)
      /\ r.freeBytes = h.freeBytes /\ r.minimumEver = h.minimumEver
  <2>1. /\ DOMAIN r = Fields /\ r.size = SizeJoined(h, b) /\ r.next = NextJoined(h, b)
        /\ r.freeBytes = h.freeBytes /\ r.minimumEver = h.minimumEver
    BY InsertIs DEF r
  <2>2. CASE before
    <3>1. r.size = Merge(size2, it, b) /\ r.next = Drop(two, b)
      BY <2>1, <2>2 DEF size2, two, SizeJoined, NextJoined, it, before
    <3>2. it # nx /\ it # b
      BY <1>1
    <3>3. it \in Nodes(two) /\ b \in Nodes(two) /\ it + size2[it] = b /\ size2[it] > 0
      <4>1. it \in old /\ it + h.size[it] = b /\ h.size[it] \in Nat /\ h.size[it] > 0
        BY <1>1, <1>2, <2>2, TilesTypes
      <4>2. it \in DOMAIN size2 /\ size2[it] = h.size[it]
        BY <1>1, <1>7, <3>2, <4>1
      <4> QED
        BY <1>1, <1>7, <3>2, <4>1, <4>2
    <3>4. Tiles(size2, L) /\ Chain(two) /\ Nodes(two) \subseteq DOMAIN size2
      BY <1>1, <1>7
    <3>5. /\ Tiles(r.size, L) /\ Chain(r.next)
          /\ DOMAIN r.size = DOMAIN size2 \ {b}
          /\ Nodes(r.next) = Nodes(two) \ {b}
          /\ \A x \in DOMAIN r.size : x # it => r.size[x] = size2[x]
          /\ Bytes(r.size, Nodes(r.next)) = Bytes(size2, Nodes(two))
          /\ \A c : Adjoins(r.size, r.next, c) =>
                      IF c = it THEN Adjoins(size2, two, b)
                      ELSE Adjoins(size2, two, c) /\ c + size2[c] # b
      BY <3>1, <3>3, <3>4, JoinKeeps
    <3>6. \A c : ~Adjoins(r.size, r.next, c)
      BY <1>7, <3>2, <3>5
    <3> QED
      BY <1>7, <2>1, <2>2, <3>5, <3>6
  <2>3. CASE ~before
    <3>1. r.size = size2 /\ r.next = two
      BY <2>1, <2>3 DEF size2, two, SizeJoined, NextJoined, before
    <3> QED
      BY <1>7, <2>1, <2>3, <3>1
  <2> QED
    BY <2>2, <2>3
<1>9. gone2 \union gone3 \in SUBSET (old \union {b})
  BY <1>3
<1>10. /\ DOMAIN r.size = DOMAIN h.size \ (gone2 \union gone3)
       /\ Nodes(r.next) = (old \union {b}) \ (gone2 \union gone3)
  BY <1>7, <1>8
<1>11. Nodes(r.next) \subseteq DOMAIN r.size
  BY <1>1, <1>10
<1>12. ASSUME NEW x \in DOMAIN h.size \ (old \union {b}) PROVE r.size[x] = h.size[x]
  <2>1. x # b /\ x \in DOMAIN size2 /\ x \in DOMAIN r.size
    BY <1>3, <1>7, <1>8
  <2>2. x # it \/ ~before
    BY <1>2
  <2> QED
    BY <1>7, <1>8, <2>1, <2>2
<1>13. ASSUME NEW x \in DOMAIN r.size, r.size[x] = 0 PROVE x \in Nodes(r.next)
  <2>1. x \in DOMAIN h.size /\ (x \in old \union {b} => x \in Nodes(r.next))
    BY <1>10
  <2>2. x \in old \union {b}
    BY <1>12, <1>13, <2>1 DEF Ordered, old
  <2> QED
    BY <2>1, <2>2
<1> HIDE DEF gone2, gone3
<1>14. Ordered(r, L)
  BY <1>8, <1>11, <1>13 DEF Ordered
<1> QED
  BY <1>8, <1>9, <1>10, <1>12, <1>14 DEF r, old, bytes

(***************************************************************************)
(* The count of the free bytes.                                            *)
(***************************************************************************)
LEMMA BytesBounded ==
  ASSUME NEW size, NEW L, Tiles(size, L), NEW S \in SUBSET DOMAIN size
  PROVE  /\ IsFiniteSet(Bytes(size, S))
         /\ Cardinality(Bytes(size, S)) \in 0 .. End
<1>1. Bytes(size, S) \in SUBSET (First .. End - 1)
  <2>1. ASSUME NEW z \in Bytes(size, S) PROVE z \in First .. End - 1
    <3>1. PICK b \in S : z \in b .. b + size[b] - 1
      BY DEF Bytes
    <3> QED
      BY <3>1, TilesTypes, Ends
  <2> QED
    BY <2>1
<1>2. IsFiniteSet(First .. End - 1) /\ Cardinality(First .. End - 1) = End - First
  <2>1. First \in Int /\ End - 1 \in Int /\ ~(First > End - 1) /\ End - 1 - First + 1 = End - First
    BY Ends
  <2> QED
    BY <2>1, FS_Interval
<1>3. IsFiniteSet(Bytes(size, S)) /\ Cardinality(Bytes(size, S)) <= End - First
  <2> DEFINE all == First .. End - 1
             some == Bytes(size, S)
  <2>1. IsFiniteSet(all) /\ some \in SUBSET all /\ Cardinality(all) = End - First
    BY <1>1, <1>2
  <2> HIDE DEF all, some
  <2>2. IsFiniteSet(some) /\ Cardinality(some) <= Cardinality(all)
    BY <2>1, FS_Subset
  <2> QED
    BY <2>1, <2>2 DEF some
<1>4. Cardinality(Bytes(size, S)) \in Nat
  BY <1>3, FS_CardinalityType
<1> QED
  BY <1>3, <1>4, Ends

\* The bytes of blocks that do not overlap are counted block by block.
LEMMA BytesCounted ==
  ASSUME NEW size, DOMAIN size \subseteq Nat, size \in [DOMAIN size -> Nat],
         \A x, y \in DOMAIN size : x < y => x + size[x] <= y,
         NEW S \in SUBSET DOMAIN size, IsFiniteSet(Bytes(size, S)),
         NEW b \in DOMAIN size, b \notin S
  PROVE  Cardinality(Bytes(size, S) \union (b .. b + size[b] - 1))
           = Cardinality(Bytes(size, S)) + size[b]
<1> DEFINE own == b .. b + size[b] - 1
<1>1. b \in Nat /\ size[b] \in Nat
  OBVIOUS
<1>2. IsFiniteSet(own) /\ Cardinality(own) = size[b]
  <2> DEFINE e == b + size[b] - 1
  <2>1. b \in Int /\ e \in Int /\ size[b] = IF b > e THEN 0 ELSE e - b + 1
    BY <1>1
  <2> HIDE DEF e
  <2>2. IsFiniteSet(b .. e) /\ Cardinality(b .. e) = size[b]
    BY <2>1, FS_Interval
  <2> QED
    BY <2>2 DEF e
<1>3. Cardinality(Bytes(size, S)) \in Nat
  BY FS_CardinalityType
<1>4. Bytes(size, S) \cap own = {}
  <2> SUFFICES ASSUME NEW z \in own, z \in Bytes(size, S) PROVE FALSE
    OBVIOUS
  <2>1. PICK c \in S : z \in c .. c + size[c] - 1
    BY DEF Bytes
  <2>2. c \in DOMAIN size /\ c # b /\ c \in Nat /\ size[c] \in Nat
    OBVIOUS
  <2>3. c + size[c] <= b \/ b + size[b] <= c
    <3>1. c < b \/ b < c
      BY <1>1, <2>2
    <3> QED
      BY <2>2, <3>1
  <2> QED
    BY <1>1, <2>1, <2>2, <2>3
<1>5. Cardinality(Bytes(size, S) \cap own) = 0
  BY <1>4, FS_EmptySet
<1> HIDE DEF own
<1>6. Cardinality(Bytes(size, S) \cup own)
        = Cardinality(Bytes(size, S)) + Cardinality(own) - Cardinality(Bytes(size, S) \cap own)
  BY <1>2, FS_Union
<1>7. Cardinality(Bytes(size, S) \cup own) = Cardinality(Bytes(size, S)) + size[b]
  BY <1>1, <1>2, <1>3, <1>5, <1>6
<1> QED
  BY <1>7 DEF own

\* The bytes of one block more are its size more.
LEMMA BytesAdded ==
  ASSUME NEW size, NEW L, Tiles(size, L), NEW S \in SUBSET DOMAIN size,
         NEW b \in DOMAIN size, b \notin S
  PROVE  Cardinality(Bytes(size, S) \union (b .. b + size[b] - 1))
           = Cardinality(Bytes(size, S)) + size[b]
<1>1. DOMAIN size \subseteq Nat /\ size \in [DOMAIN size -> Nat]
  BY TilesTypes DEF Tiles
<1>2. \A x, y \in DOMAIN size : x < y => x + size[x] <= y
  BY TilesTypes, TilesApart
<1>3. IsFiniteSet(Bytes(size, S))
  BY BytesBounded
<1> QED
  BY <1>1, <1>2, <1>3, BytesCounted

\* What FreeBytesExact says, of any heap.
Exact(h) ==
  /\ h.freeBytes = Cardinality(Bytes(h.size, Nodes(h.next)))
  /\ h.minimumEver \in Nat
  /\ h.minimumEver <= h.freeBytes

Unlisted(h) == DOMAIN h.size \ Nodes(h.next)

(***************************************************************************)
(* A block is taken from the list, and a block is put back.                *)
(***************************************************************************)

\* The step of vPortFree that puts block b into the list.
LEMMA ReturnKeeps ==
  ASSUME NEW h, NEW L, Ordered(h, L), Exact(h), NEW b \in Unlisted(h)
  PROVE  LET r == [prvInsertBlockIntoFreeList(h, b) EXCEPT
                     !.freeBytes = h.freeBytes + h.size[b]]
         IN  /\ Ordered(r, L) /\ Exact(r)
             /\ Unlisted(r) = Unlisted(h) \ {b}
             /\ \A x \in Unlisted(r) : r.size[x] = h.size[x]
<1> DEFINE list == prvInsertBlockIntoFreeList(h, b)
           r == [list EXCEPT !.freeBytes = h.freeBytes + h.size[b]]
           old == Nodes(h.next)
<1>1. b \in DOMAIN h.size /\ b \notin old /\ old \subseteq DOMAIN h.size /\ Tiles(h.size, L)
  BY DEF Unlisted, Ordered
<1>2. /\ Ordered(list, L)
      /\ list.freeBytes = h.freeBytes /\ list.minimumEver = h.minimumEver
      /\ \A x \in DOMAIN h.size \ (old \union {b}) : list.size[x] = h.size[x]
      /\ Bytes(list.size, Nodes(list.next)) =
           Bytes(h.size, old) \union (b .. b + h.size[b] - 1)
  BY <1>1, InsertKeeps
<1>3. PICK gone \in SUBSET (old \union {b}) :
         /\ DOMAIN list.size = DOMAIN h.size \ gone
         /\ Nodes(list.next) = (old \union {b}) \ gone
  BY <1>1, InsertKeeps
<1> HIDE DEF list
<1>4. /\ DOMAIN r = Fields /\ r.size = list.size /\ r.next = list.next
      /\ r.freeBytes = h.freeBytes + h.size[b] /\ r.minimumEver = h.minimumEver
  BY <1>2 DEF Ordered, Fields
<1> HIDE DEF r
<1>5. Ordered(r, L)
  BY <1>2, <1>4 DEF Ordered
<1>6. Unlisted(r) = Unlisted(h) \ {b}
  BY <1>3, <1>4 DEF Unlisted
<1>7. \A x \in Unlisted(r) : r.size[x] = h.size[x]
  BY <1>2, <1>4, <1>6 DEF Unlisted
<1>8. Exact(r)
  <2>1. Cardinality(Bytes(r.size, Nodes(r.next)))
          = Cardinality(Bytes(h.size, old)) + h.size[b]
    BY <1>1, <1>2, <1>4, BytesAdded
  <2>2. h.size[b] \in Nat /\ Cardinality(Bytes(h.size, old)) \in Nat
    BY <1>1, TilesTypes, BytesBounded
  <2> QED
    BY <1>4, <2>1, <2>2 DEF Exact
<1> QED
  BY <1>5, <1>6, <1>7, <1>8 DEF r, list

\* What pvPortMalloc makes of the heap is in order and counted, the block it took is
\* out of the list and long enough, and no other block that is out of it has changed.
LEMMA TakenKeeps ==
  ASSUME NEW h, NEW L, Ordered(h, L), Exact(h), NEW b \in Nodes(h.next),
         NEW n \in Nat, n > 0, n % Alignment = 0, n <= h.size[b]
  PROVE  LET r == Taken(h, b, n)
         IN  /\ Ordered(r, L) /\ Exact(r)
             /\ Unlisted(r) = Unlisted(h) \union {b}
             /\ n <= r.size[b]
             /\ \A x \in Unlisted(h) : r.size[x] = h.size[x]
             /\ r.minimumEver <= h.minimumEver
<1> DEFINE old == Nodes(h.next)
           split == h.size[b] - n > heapMINIMUM_BLOCK_SIZE
           cut == Cut(h.size, b, n)
           rest == Drop(h.next, b)
           h1 == [h EXCEPT !.size = cut, !.next = rest]
           h0 == [h EXCEPT !.next = rest]
           list == IF split THEN prvInsertBlockIntoFreeList(h1, b + n) ELSE h0
           bytes == list.freeBytes - list.size[b]
           r == [list EXCEPT
                   !.freeBytes = bytes,
                   !.minimumEver = IF bytes < list.minimumEver THEN bytes
                                   ELSE list.minimumEver]
<1>1. /\ b \in DOMAIN h.size /\ old \subseteq DOMAIN h.size /\ Tiles(h.size, L)
      /\ Chain(h.next) /\ DOMAIN h = Fields /\ \A c : ~Adjoins(h.size, h.next, c)
      /\ h.size[b] \in Nat /\ b \in Nat
  BY TilesTypes DEF Ordered
<1>2. Taken(h, b, n) = r
  <2>1. Without(h, b) = h0
    BY DEF Without, Drop, Unlinked
  <2>2. CutInTwo(h, b, n) = h1
    BY <1>1, <2>1 DEF CutInTwo, Cut, Fields
  <2> HIDE DEF h0, h1
  <2>3. CountedOut(list, b) = r
    BY DEF CountedOut
  <2> QED
    BY <2>1, <2>2, <2>3 DEF Taken
<1>3. Chain(rest) /\ Nodes(rest) = old \ {b}
  BY <1>1, DropChain
\* Without b, the list has its bytes less.
<1>4. Cardinality(Bytes(h.size, old)) = Cardinality(Bytes(h.size, old \ {b})) + h.size[b]
  <2>1. Bytes(h.size, old) = Bytes(h.size, old \ {b}) \union (b .. b + h.size[b] - 1)
    BY DEF Bytes
  <2> QED
    BY <1>1, <2>1, BytesAdded
<1>5. Cardinality(Bytes(h.size, old \ {b})) \in Nat
  BY <1>1, BytesBounded
<1> HIDE DEF cut, rest
<1>6. /\ DOMAIN h0 = Fields /\ h0.size = h.size /\ h0.next = rest
      /\ DOMAIN h1 = Fields /\ h1.size = cut /\ h1.next = rest
      /\ h0.freeBytes = h.freeBytes /\ h0.minimumEver = h.minimumEver
      /\ h1.freeBytes = h.freeBytes /\ h1.minimumEver = h.minimumEver
  BY <1>1 DEF Fields
<1> HIDE DEF h0, h1
\* What is left of b, or nothing, is in the list.
<1>7. /\ Ordered(list, L)
      /\ Unlisted(list) = Unlisted(h) \union {b}
      /\ list.size[b] \in Nat /\ n <= list.size[b]
      /\ \A x \in Unlisted(h) : list.size[x] = h.size[x]
      /\ Cardinality(Bytes(list.size, Nodes(list.next)))
           = Cardinality(Bytes(h.size, old)) - list.size[b]
      /\ list.freeBytes = h.freeBytes /\ list.minimumEver = h.minimumEver
  <2>1. CASE ~split
    <3>1. list = h0
      BY <2>1
    <3>2. \A c : ~Adjoins(h.size, rest, c)
      BY <1>1, <1>3 DEF Adjoins
    <3>3. Ordered(h0, L)
      BY <1>1, <1>3, <1>6, <3>2 DEF Ordered
    <3>4. Unlisted(h0) = Unlisted(h) \union {b}
      BY <1>1, <1>3, <1>6 DEF Unlisted
    <3>5. Cardinality(Bytes(h.size, old \ {b}))
            = Cardinality(Bytes(h.size, old)) - h.size[b]
      BY <1>1, <1>4, <1>5
    <3> QED
      BY <1>1, <1>3, <1>6, <3>1, <3>3, <3>4, <3>5
  <2>2. CASE split
    <3> DEFINE e == b + n
    <3>1. n < h.size[b] /\ e # b
      BY <1>1, <2>2, HeaderAssumption DEF heapMINIMUM_BLOCK_SIZE
    <3>2. Tiles(cut, L) /\ e \notin DOMAIN h.size
      BY <1>1, <3>1, CutTiles DEF cut
    <3>3. /\ DOMAIN cut = DOMAIN h.size \union {e}
          /\ cut[b] = n /\ cut[e] = h.size[b] - n
          /\ \A x \in DOMAIN h.size : x # b => cut[x] = h.size[x]
      BY <1>1, <3>1, <3>2 DEF cut, Cut
    <3>4. list = prvInsertBlockIntoFreeList(h1, e)
      BY <2>2
    <3> HIDE DEF list, e
    <3>5. \A c : ~Adjoins(cut, rest, c)
      BY <1>1, <1>3, <3>2, <3>3 DEF Adjoins
    <3>6. Ordered(h1, L) /\ e \in DOMAIN h1.size /\ e \notin Nodes(h1.next)
      <4>1. \A x \in DOMAIN cut : cut[x] = 0 => x \in Nodes(rest)
        BY <1>1, <1>3, <3>1, <3>3 DEF Ordered
      <4> QED
        BY <1>1, <1>3, <1>6, <3>2, <3>3, <3>5, <4>1 DEF Ordered
    <3>7. /\ Ordered(list, L)
          /\ list.freeBytes = h1.freeBytes /\ list.minimumEver = h1.minimumEver
          /\ \A x \in DOMAIN h1.size \ (Nodes(h1.next) \union {e}) : list.size[x] = h1.size[x]
          /\ Bytes(list.size, Nodes(list.next)) =
               Bytes(h1.size, Nodes(h1.next)) \union (e .. e + h1.size[e] - 1)
      BY <3>4, <3>6, InsertKeeps
    <3>8. PICK gone \in SUBSET (Nodes(h1.next) \union {e}) :
             /\ DOMAIN list.size = DOMAIN h1.size \ gone
             /\ Nodes(list.next) = (Nodes(h1.next) \union {e}) \ gone
      BY <3>4, <3>6, InsertKeeps
    <3>9. Unlisted(list) = Unlisted(h) \union {b}
      BY <1>1, <1>3, <1>6, <3>1, <3>2, <3>3, <3>8 DEF Unlisted
    <3>10. list.size[b] = n /\ \A x \in Unlisted(h) : list.size[x] = h.size[x]
      BY <1>1, <1>3, <1>6, <3>1, <3>2, <3>3, <3>7 DEF Unlisted
    <3>11. Bytes(cut, old \ {b}) = Bytes(h.size, old \ {b})
      BY <1>1, <3>3 DEF Bytes
    <3>12. Cardinality(Bytes(list.size, Nodes(list.next)))
             = Cardinality(Bytes(cut, old \ {b})) + cut[e]
      <4>1. old \ {b} \in SUBSET DOMAIN cut /\ e \in DOMAIN cut /\ e \notin old \ {b}
        BY <1>1, <3>2, <3>3
      <4>2. Bytes(list.size, Nodes(list.next)) = Bytes(cut, old \ {b}) \union (e .. e + cut[e] - 1)
        BY <1>3, <1>6, <3>7
      <4> QED
        BY <3>2, <4>1, <4>2, BytesAdded
    <3>13. Cardinality(Bytes(list.size, Nodes(list.next)))
             = Cardinality(Bytes(h.size, old)) - list.size[b]
      BY <1>1, <1>4, <1>5, <3>3, <3>10, <3>11, <3>12
    <3> QED
      BY <1>6, <3>7, <3>9, <3>10, <3>13
  <2> QED
    BY <2>1, <2>2
<1> HIDE DEF list
<1>8. /\ DOMAIN r = Fields /\ r.size = list.size /\ r.next = list.next
      /\ r.freeBytes = bytes
      /\ r.minimumEver = IF bytes < list.minimumEver THEN bytes ELSE list.minimumEver
  BY <1>7 DEF Ordered, Fields
<1> HIDE DEF r
<1>9. Ordered(r, L) /\ Unlisted(r) = Unlisted(list)
  BY <1>7, <1>8 DEF Ordered, Unlisted
<1>10. Exact(r) /\ r.minimumEver <= h.minimumEver
  <2>1. bytes = Cardinality(Bytes(list.size, Nodes(list.next)))
    BY <1>7 DEF Exact
  <2>2. bytes \in Nat
    BY <1>7, <2>1, BytesBounded DEF Ordered
  <2>3. list.minimumEver \in Nat
    BY <1>7 DEF Exact
  <2> QED
    BY <1>7, <1>8, <2>1, <2>2, <2>3 DEF Exact
<1> QED
  BY <1>2, <1>7, <1>8, <1>9, <1>10

(***************************************************************************)
(* The inductive invariant.                                                *)
(***************************************************************************)

\* The size of a block is a multiple of the alignment with room for the header and
\* for what was asked: the padding does not wrap round.
LEMMA BlockSizeIs ==
  ASSUME NEW w \in Nat, BlockSize(w) > 0
  PROVE  /\ w > 0
         /\ BlockSize(w) \in Nat /\ BlockSize(w) % Alignment = 0
         /\ BlockSize(w) >= Header + w
<1> USE AlignmentAssumption, HeaderAssumption, LimitAssumption
<1>1. w > 0 /\ BlockSize(w) = w + (Header + Alignment - (w % Alignment))
  BY DEF BlockSize
<1>2. w % Alignment \in 0 .. Alignment - 1
  OBVIOUS
<1>3. /\ AlignDown(w) \in Nat /\ AlignDown(w) % Alignment = 0
      /\ AlignDown(w) = w - (w % Alignment)
  BY AlignDownIs DEF AlignDown
<1>4. BlockSize(w) = AlignDown(w) + (Header + Alignment)
  BY <1>1, <1>2, <1>3
<1>5. Alignment % Alignment = 0
  OBVIOUS
<1>6. (Header + Alignment) % Alignment = 0 /\ Header + Alignment \in Nat
  <2>1. ASSUME NEW a \in Nat, a % Alignment = 0 PROVE (Header + a) % Alignment = 0
    BY <2>1, AlignedSum
  <2>2. Alignment \in Nat
    OBVIOUS
  <2>3. (Header + Alignment) % Alignment = 0
    BY <1>5, <2>1, <2>2, Zenon
  <2> QED
    BY <2>3
<1>7. (AlignDown(w) + (Header + Alignment)) % Alignment = 0
  BY <1>3, <1>6, AlignedSum
<1> QED
  BY <1>1, <1>2, <1>3, <1>4, <1>7

\* heapMULTIPLY_WILL_OVERFLOW lets no product pass that does not fit a size_t.
LEMMA ProductFits ==
  ASSUME NEW n \in Nat, NEW s \in Nat, ~MultiplyWillOverflow(n, s)
  PROVE  n * s \in Nat /\ (n * s) % SizeLimit = n * s
<1> DEFINE limit == SizeLimit - 1
           q == limit \div n
<1>1. limit \in Nat /\ n * s \in Nat
  BY HeapAssumption, LimitAssumption
<1>2. n * s <= limit
  <2>1. CASE n = 0
    BY <1>1, <2>1
  <2>2. CASE n > 0
    <3>1. q \in Nat /\ n * q <= limit
      BY <1>1, <2>2
    <3>2. s <= q
      BY <2>2, <3>1 DEF MultiplyWillOverflow
    <3> HIDE DEF q
    <3>3. n * s <= n * q
      BY <2>2, <3>1, <3>2
    <3> QED
      BY <1>1, <3>1, <3>3
  <2> QED
    BY <2>1, <2>2
<1> QED
  BY <1>1, <1>2, LimitAssumption

\* What is in use, or on its way back to the list, for the blocks of heap h.
Placed(h, L) ==
  /\ Ordered(h, L)
  /\ Exact(h)
  /\ DOMAIN asked \union Returning = Unlisted(h)
  /\ \A b \in DOMAIN asked : Header + asked[b] <= h.size[b]

\* The invariant: a task frees one block at a time, nothing that is in use is on its
\* way back, and the blocks that are neither are those of the list.
Invariant(L) ==
  /\ asked \in [DOMAIN asked -> Nat \ {0}]
  /\ freeing \in [Tasks -> SUBSET Nat]
  /\ \A t \in Tasks : \A b, c \in freeing[t] : b = c
  /\ \A t, u \in Tasks : t # u => freeing[t] \intersect freeing[u] = {}
  /\ DOMAIN asked \intersect Returning = {}
  /\ \/ heap = NotInitialised /\ DOMAIN asked = {} /\ Returning = {}
     \/ Placed(heap, L)

\* The invariant of heap_4.c.
IInv == Invariant(Whole)

\* A heap in order is one that prvHeapInit has made.
LEMMA OrderedInitialised ==
  ASSUME NEW h, NEW L, Ordered(h, L)
  PROVE  h # NotInitialised
BY DEF Ordered, Tiles, Layout, NotInitialised

\* prvHeapInit makes a heap in order, all of it free.
LEMMA HeapInitOrdered ==
  Ordered(prvHeapInit, Whole) /\ Exact(prvHeapInit) /\ Unlisted(prvHeapInit) = {}
<1> DEFINE h == prvHeapInit
<1>1. /\ DOMAIN h = Fields
      /\ h.size = [b \in {First} |-> End - First]
      /\ h.next = [b \in {heapStart, First} |-> IF b = heapStart THEN First ELSE End]
      /\ h.freeBytes = End - First /\ h.minimumEver = End - First
  BY DEF prvHeapInit, Fields
<1> HIDE DEF h
<1>2. /\ DOMAIN h.size = {First} /\ h.size[First] = End - First
      /\ DOMAIN h.next = {heapStart, First} /\ Nodes(h.next) = {First}
      /\ h.next[heapStart] = First /\ h.next[First] = End
  BY <1>1, Ends DEF Nodes
<1>3. Tiles(h.size, Whole)
  <2>1. DOMAIN Whole = {First} /\ Whole[First] = End
    BY DEF Whole
  <2>2. Layout(Whole)
    BY <2>1, Ends DEF Layout
  <2>3. InRegion(h.size, Whole, First, First)
    BY <1>2, <2>1, Ends DEF InRegion
  <2> QED
    BY <1>1, <1>2, <2>1, <2>2, <2>3, Ends DEF Tiles
<1>4. Chain(h.next)
  <2>1. heapStart \in Nat /\ First \in First .. End - 1 /\ heapStart < First /\ First < End
    BY Ends DEF heapStart
  <2>2. h.next \in [DOMAIN h.next -> Nodes(h.next) \union {End}]
    BY <1>1, <1>2
  <2>3. \A i \in DOMAIN h.next :
           i < h.next[i] /\ \A j \in Nodes(h.next) : j <= i \/ h.next[i] <= j
    BY <1>2, <2>1, Ends
  <2> QED
    BY <1>2, <2>1, <2>2, <2>3 DEF Chain
<1>5. \A c : ~Adjoins(h.size, h.next, c)
  BY <1>2, Ends DEF Adjoins
<1>6. Exact(h)
  <2>1. Bytes(h.size, {}) = {}
    BY DEF Bytes
  <2>2. Bytes(h.size, Nodes(h.next))
          = Bytes(h.size, {}) \union (First .. First + h.size[First] - 1)
    BY <1>2 DEF Bytes
  <2>3. Cardinality(Bytes(h.size, Nodes(h.next)))
          = Cardinality(Bytes(h.size, {})) + h.size[First]
    <3>1. {} \in SUBSET DOMAIN h.size /\ First \in DOMAIN h.size /\ First \notin {}
      BY <1>2
    <3> QED
      BY <1>3, <2>2, <3>1, BytesAdded
  <2>4. Cardinality(Bytes(h.size, {})) = 0
    BY <2>1, FS_EmptySet
  <2> QED
    BY <1>1, <1>2, <2>3, <2>4, Ends DEF Exact
<1> QED
  BY <1>1, <1>2, <1>3, <1>4, <1>5, <1>6 DEF Ordered, Unlisted, h

\* The heap pvPortMalloc works on, initialised if it was not, is in order.
LEMMA CurrentPlaced ==
  ASSUME IInv
  PROVE  Placed(Current, Whole)
<1>1. CASE heap = NotInitialised
  <2>1. DOMAIN asked = {} /\ Returning = {}
    BY <1>1, OrderedInitialised DEF IInv, Invariant, Placed
  <2> QED
    BY <1>1, <2>1, HeapInitOrdered DEF Placed, Current
<1>2. CASE heap # NotInitialised
  BY <1>2 DEF IInv, Invariant, Current
<1> QED
  BY <1>1, <1>2

\* What Allocate does, whatever is asked: it fails, or it takes a block of the list
\* that has room.
LEMMA AllocateDoes ==
  ASSUME NEW L, Invariant(L), Placed(Current, L), NEW w \in Nat, Allocate(w, w)
  PROVE  \/ heap' = Current /\ UNCHANGED asked
         \/ \E b \in Nodes(Current.next) :
              /\ w > 0
              /\ b \notin DOMAIN asked
              /\ Ordered(heap', L) /\ Exact(heap')
              /\ Unlisted(heap') = Unlisted(Current) \union {b}
              /\ Header + w <= heap'.size[b]
              /\ heap'.minimumEver <= Current.minimumEver
              /\ \A x \in Unlisted(Current) : heap'.size[x] = Current.size[x]
              /\ asked' = [x \in DOMAIN asked \union {b} |-> IF x = b THEN w ELSE asked[x]]
<1> DEFINE h == Current
           n == BlockSize(w)
           b == FirstFit(h, n)
           taken == ValidSize(n) /\ n > 0 /\ n <= h.freeBytes /\ Fits(h, n) # {}
<1>1. Placed(h, L)
  OBVIOUS
<1>2. IF taken
      THEN /\ heap' = Taken(h, b, n)
           /\ asked' = [x \in DOMAIN asked \union {b} |-> IF x = b THEN w ELSE asked[x]]
      ELSE heap' = h /\ UNCHANGED asked
  BY Zenon DEF Allocate, InUse
<1> HIDE DEF h
<1>3. CASE ~taken
  BY <1>2, <1>3 DEF h
<1>4. CASE taken
  <2>1. Fits(h, n) = {c \in Nodes(h.next) : h.size[c] >= n}
    BY DEF Fits, InList, Nodes
  <2>2. Nodes(h.next) \subseteq Nat
    BY <1>1, ChainTypes DEF Placed, Ordered, Nodes
  <2>3. \E m \in Fits(h, n) : \A c \in Fits(h, n) : m <= c
    BY <1>4, <2>1, <2>2, Lowest
  <2>4. b \in Fits(h, n)
    BY <2>3 DEF FirstFit
  <2>5. n \in Nat /\ n > 0 /\ n % Alignment = 0 /\ n >= Header + w /\ w > 0
    BY <1>4, BlockSizeIs
  <2> HIDE DEF b, n
  <2>6. b \in Nodes(h.next) /\ n <= h.size[b] /\ h.size[b] \in Nat
    BY <1>1, <2>1, <2>2, <2>4, <2>5, TilesTypes DEF Placed, Ordered
  <2>7. /\ Ordered(heap', L) /\ Exact(heap')
        /\ Unlisted(heap') = Unlisted(h) \union {b}
        /\ n <= heap'.size[b]
        /\ \A x \in Unlisted(h) : heap'.size[x] = h.size[x]
        /\ heap'.minimumEver <= h.minimumEver
    BY <1>1, <1>2, <1>4, <2>5, <2>6, TakenKeeps DEF Placed
  <2>8. b \notin DOMAIN asked
    BY <1>1, <2>6 DEF Placed, Unlisted
  <2>9. heap'.size[b] \in Nat
    <3>1. b \in DOMAIN heap'.size
      BY <2>7 DEF Unlisted
    <3> QED
      BY <2>7, <3>1, TilesTypes DEF Ordered
  <2>10. Header + w <= heap'.size[b]
    BY <2>5, <2>7, <2>9, HeaderAssumption
  <2> QED
    BY <1>2, <1>4, <2>5, <2>6, <2>7, <2>8, <2>10 DEF h
<1> QED
  BY <1>3, <1>4

\* The step of pvPortMalloc and pvPortCalloc keeps the invariant.
LEMMA AllocateKeeps ==
  ASSUME NEW L, Invariant(L), Placed(Current, L), NEW w \in Nat, Allocate(w, w), UNCHANGED freeing
  PROVE  Invariant(L)'
<1>1. Placed(Current, L)
  OBVIOUS
<1>2. Returning' = Returning
  BY DEF Returning
<1>3. CASE heap' = Current /\ UNCHANGED asked
  BY <1>1, <1>2, <1>3 DEF Invariant, Placed
<1>4. ASSUME NEW b \in Nodes(Current.next),
             w > 0, b \notin DOMAIN asked, Ordered(heap', L), Exact(heap'),
             Unlisted(heap') = Unlisted(Current) \union {b},
             Header + w <= heap'.size[b],
             \A x \in Unlisted(Current) : heap'.size[x] = Current.size[x],
             asked' = [x \in DOMAIN asked \union {b} |-> IF x = b THEN w ELSE asked[x]]
      PROVE  Invariant(L)'
  <2>1. asked' \in [DOMAIN asked' -> Nat \ {0}]
    BY <1>4 DEF Invariant
  <2>2. b \notin Returning
    BY <1>1, <1>4 DEF Placed, Unlisted
  <2>3. DOMAIN asked' = DOMAIN asked \union {b}
    BY <1>4
  <2>4. DOMAIN asked' \intersect Returning' = {}
    BY <1>2, <2>2, <2>3 DEF Invariant
  <2>5. \A x \in DOMAIN asked' : Header + asked'[x] <= heap'.size[x]
    BY <1>1, <1>4, <2>3 DEF Placed
  <2>6. DOMAIN asked' \union Returning' = Unlisted(heap')
    BY <1>1, <1>2, <1>4, <2>3 DEF Placed
  <2> QED
    BY <1>4, <2>1, <2>4, <2>5, <2>6 DEF Invariant, Placed
<1> QED
  BY <1>3, <1>4, AllocateDoes

\* The invariant holds before the first call.
LEMMA InitKeeps ==
  ASSUME NEW L, Init
  PROVE  Invariant(L)
<1>1. Returning = {}
  BY DEF Init, Returning
<1> QED
  BY <1>1 DEF Init, Invariant

\* It holds as long as nothing changes.
LEMMA StutterKeeps ==
  ASSUME NEW L, Invariant(L), UNCHANGED <<heap, asked, freeing>>
  PROVE  Invariant(L)'
<1>1. Returning' = Returning
  BY DEF Returning
<1> QED
  BY <1>1 DEF Invariant, Placed

\* The first half of vPortFree keeps the invariant.
LEMMA FreeKeeps ==
  ASSUME NEW L, Invariant(L), NEW t \in Tasks, NEW b \in DOMAIN asked, vPortFree(t, b)
  PROVE  Invariant(L)'
<1>1. /\ freeing[t] = {} /\ heap' = heap
      /\ asked' = [x \in DOMAIN asked \ {b} |-> asked[x]]
      /\ freeing' = [freeing EXCEPT ![t] = {b}]
  BY DEF vPortFree
<1>2. Placed(heap, L) /\ b \in Nat
  <2>1. Placed(heap, L)
    BY DEF Invariant
  <2> QED
    BY <2>1, TilesTypes DEF Placed, Unlisted, Ordered
<1>3. \A u \in Tasks : freeing'[u] = IF u = t THEN {b} ELSE freeing[u]
  BY <1>1 DEF Invariant
<1>4. Returning' = Returning \union {b}
  BY <1>1, <1>3 DEF Returning
<1>5. b \notin Returning /\ \A u \in Tasks : b \notin freeing[u]
  BY DEF Invariant, Returning
<1>6. asked' \in [DOMAIN asked' -> Nat \ {0}] /\ DOMAIN asked' = DOMAIN asked \ {b}
  BY <1>1 DEF Invariant
<1>7. freeing' \in [Tasks -> SUBSET Nat]
  BY <1>1, <1>2 DEF Invariant
<1>8. \A u \in Tasks : \A c, d \in freeing'[u] : c = d
  BY <1>3 DEF Invariant
<1>9. \A u, v \in Tasks : u # v => freeing'[u] \intersect freeing'[v] = {}
  BY <1>3, <1>5 DEF Invariant
<1>10. Placed(heap, L)'
  BY <1>1, <1>2, <1>4, <1>6 DEF Placed
<1>11. DOMAIN asked' \intersect Returning' = {}
  BY <1>4, <1>6 DEF Invariant
<1> QED
  BY <1>6, <1>7, <1>8, <1>9, <1>10, <1>11 DEF Invariant

\* The second half of vPortFree keeps the invariant.
LEMMA ReturnToListKeeps ==
  ASSUME NEW L, Invariant(L), NEW t \in Tasks, ReturnToList(t)
  PROVE  Invariant(L)'
<1>1. PICK b \in freeing[t] :
         /\ heap' = [prvInsertBlockIntoFreeList(heap, b) EXCEPT
                       !.freeBytes = heap.freeBytes + heap.size[b]]
         /\ freeing' = [freeing EXCEPT ![t] = {}]
         /\ asked' = asked
  BY DEF ReturnToList
<1>2. freeing[t] = {b} /\ b \in Returning
  BY DEF Invariant, Returning
<1>3. Placed(heap, L)
  BY <1>2 DEF Invariant
<1>4. b \in Unlisted(heap)
  BY <1>2, <1>3 DEF Placed
<1>5. /\ Ordered(heap', L) /\ Exact(heap')
      /\ Unlisted(heap') = Unlisted(heap) \ {b}
      /\ \A x \in Unlisted(heap') : heap'.size[x] = heap.size[x]
  BY <1>1, <1>3, <1>4, ReturnKeeps DEF Placed
<1>6. \A u \in Tasks : freeing'[u] = IF u = t THEN {} ELSE freeing[u]
  BY <1>1 DEF Invariant
<1>7. Returning' = Returning \ {b}
  BY <1>2, <1>6 DEF Invariant, Returning
<1>8. b \notin DOMAIN asked
  BY <1>2 DEF Invariant
<1>9. Placed(heap, L)'
  BY <1>1, <1>3, <1>5, <1>7, <1>8 DEF Placed
<1>10. freeing' \in [Tasks -> SUBSET Nat]
  BY <1>1 DEF Invariant
<1>11. /\ \A u \in Tasks : \A c, d \in freeing'[u] : c = d
       /\ \A u, v \in Tasks : u # v => freeing'[u] \intersect freeing'[v] = {}
  BY <1>6 DEF Invariant
<1>12. DOMAIN asked' \intersect Returning' = {}
  BY <1>1, <1>7 DEF Invariant
<1> QED
  BY <1>1, <1>9, <1>10, <1>11, <1>12 DEF Invariant

\* pvPortCalloc asks for a product that has not wrapped round.
LEMMA CallocAllocates ==
  ASSUME NEW n \in Counts, NEW s \in Counts, pvPortCalloc(n, s)
  PROVE  \E w \in Nat : Allocate(w, w) /\ UNCHANGED freeing
<1>1. n \in Nat /\ s \in Nat
  BY AskedAssumption
<1>2. n * s \in Nat /\ (n * s) % SizeLimit = n * s
  BY <1>1, ProductFits DEF pvPortCalloc
<1> QED
  BY <1>2 DEF pvPortCalloc

\* What a step is: an allocation, or one of the two steps of vPortFree.
LEMMA NextDoes ==
  ASSUME Next
  PROVE  \/ \E w \in Nat : Allocate(w, w) /\ UNCHANGED freeing
         \/ \E t \in Tasks, b \in DOMAIN asked : vPortFree(t, b)
         \/ \E t \in Tasks : ReturnToList(t)
<1>1. ASSUME NEW w \in Asked, pvPortMalloc(w)
      PROVE  \E m \in Nat : Allocate(m, m) /\ UNCHANGED freeing
  <2>1. w \in Nat
    BY AskedAssumption
  <2> QED
    BY <1>1, <2>1 DEF pvPortMalloc
<1> QED
  BY <1>1, CallocAllocates DEF Next

\* Every step keeps the invariant.
LEMMA StepIInv ==
  ASSUME IInv, [Next]_vars
  PROVE  IInv'
<1>1. CASE UNCHANGED vars
  BY <1>1, StutterKeeps DEF vars, IInv
<1>2. ASSUME NEW w \in Nat, Allocate(w, w), UNCHANGED freeing PROVE IInv'
  BY <1>2, CurrentPlaced, AllocateKeeps DEF IInv
<1>3. ASSUME NEW t \in Tasks, NEW b \in DOMAIN asked, vPortFree(t, b) PROVE IInv'
  BY <1>3, FreeKeeps DEF IInv
<1>4. ASSUME NEW t \in Tasks, ReturnToList(t) PROVE IInv'
  BY <1>4, ReturnToListKeeps DEF IInv
<1> QED
  BY <1>1, <1>2, <1>3, <1>4, NextDoes

\* It holds before the first call of heap_4.c.
LEMMA InitIInv == Init => IInv
  BY InitKeeps DEF IInv

\* The invariant holds in every reachable state.
LEMMA Inductive == Spec => []IInv
  BY InitIInv, StepIInv, PTL DEF Spec

(***************************************************************************)
(* The theorems.                                                           *)
(***************************************************************************)

\* A heap without blocks, or one that is in order.
LEMMA HeapShape ==
  ASSUME IInv
  PROVE  \/ /\ Blocks = {} /\ Listed = {} /\ DOMAIN asked = {} /\ Returning = {}
            /\ heap = NotInitialised
         \/ Placed(heap, Whole) /\ Initialised
BY OrderedInitialised
   DEF IInv, Invariant, Placed, Blocks, Listed, InList, NotInitialised, Initialised

\* The minimum is never above what is free.
LEMMA MinimumBelowFree ==
  ASSUME IInv, Initialised
  PROVE  /\ heap.minimumEver \in Nat /\ heap.freeBytes \in Nat
         /\ heap.minimumEver <= heap.freeBytes
<1>1. Placed(heap, Whole)
  BY DEF IInv, Invariant, Initialised
<1>2. Tiles(heap.size, Whole) /\ Nodes(heap.next) \in SUBSET DOMAIN heap.size
  BY <1>1 DEF Placed, Ordered
<1>3. heap.freeBytes \in 0 .. End
  BY <1>1, <1>2, BytesBounded DEF Placed, Exact
<1> QED
  BY <1>1, <1>3, Ends DEF Placed, Exact

\* The least that was ever free is never more than it was, in any layout.
LEMMA MinimumKeeps ==
  ASSUME NEW L, Invariant(L), Initialised,
         \/ \E w \in Nat : Allocate(w, w)
         \/ \E t \in Tasks, b \in DOMAIN asked : vPortFree(t, b)
         \/ \E t \in Tasks : ReturnToList(t)
         \/ UNCHANGED vars
  PROVE  Initialised' /\ heap'.minimumEver <= heap.minimumEver
<1>1. Placed(heap, L)
  BY DEF Invariant, Initialised
<1>2. heap.minimumEver \in Nat
  BY <1>1 DEF Placed, Exact
<1>3. Current = heap
  BY DEF Current, Initialised
<1>4. ASSUME NEW w \in Nat, Allocate(w, w)
      PROVE  Initialised' /\ heap'.minimumEver <= heap.minimumEver
  <2>1. CASE heap' = heap
    BY <1>2, <2>1 DEF Initialised, NotInitialised
  <2>2. CASE Ordered(heap', L) /\ heap'.minimumEver <= heap.minimumEver
    BY <2>2, OrderedInitialised DEF Initialised, NotInitialised
  <2> QED
    BY <1>1, <1>3, <1>4, <2>1, <2>2, AllocateDoes
<1>5. ASSUME UNCHANGED heap
      PROVE  Initialised' /\ heap'.minimumEver <= heap.minimumEver
  BY <1>2, <1>5 DEF Initialised, NotInitialised
<1>6. ASSUME NEW t \in Tasks, ReturnToList(t)
      PROVE  Initialised' /\ heap'.minimumEver <= heap.minimumEver
  <2>1. PICK b \in freeing[t] :
           heap' = [prvInsertBlockIntoFreeList(heap, b) EXCEPT
                      !.freeBytes = heap.freeBytes + heap.size[b]]
    BY <1>6 DEF ReturnToList
  <2>2. b \in Unlisted(heap)
    BY <1>1 DEF Placed, Returning
  <2>3. Ordered(heap', L)
    BY <1>1, <2>1, <2>2, ReturnKeeps DEF Placed
  <2>4. prvInsertBlockIntoFreeList(heap, b).minimumEver = heap.minimumEver
    BY <1>1, <2>2, InsertKeeps DEF Placed, Unlisted
  <2>5. heap'.minimumEver = heap.minimumEver
    BY <2>1, <2>3, <2>4 DEF Ordered, Fields
  <2> QED
    BY <1>2, <2>3, <2>5, OrderedInitialised DEF Initialised, NotInitialised
<1>7. CASE UNCHANGED vars
  BY <1>5, <1>7 DEF vars
<1> QED
  BY <1>4, <1>5, <1>6, <1>7 DEF vPortFree

\* So it is in every step of heap_4.c.
LEMMA MinimumStep ==
  ASSUME IInv, Initialised, [Next]_vars
  PROVE  Initialised' /\ heap'.minimumEver <= heap.minimumEver
BY MinimumKeeps, NextDoes DEF IInv

\* xMinimumEverFreeBytesRemaining never rises once the heap is initialised.
THEOREM MinimumFalls ==
  Spec => [][Initialised => heap'.minimumEver <= heap.minimumEver]_vars
<1>1. ASSUME IInv, [Next]_vars
      PROVE  [Initialised => heap'.minimumEver <= heap.minimumEver]_vars
  BY <1>1, MinimumStep
<1> QED
  BY <1>1, Inductive, PTL DEF Spec

\* The list of the model is the nodes of the chain.
LEMMA InListIsNodes == Listed = Nodes(heap.next)
BY DEF Listed, InList, Nodes

\* Blocks tile the heap: no split or merge loses a byte or makes blocks overlap, and
\* every block is aligned.
THEOREM TilesCorrect == Spec => []BlocksTile
<1>1. IInv => BlocksTile
  <2> SUFFICES ASSUME IInv, Initialised
               PROVE  /\ First \in Blocks
                      /\ \A b \in Blocks :
                            /\ b % Alignment = 0
                            /\ b + heap.size[b] \in Blocks \union {End}
                            /\ \A c \in Blocks : c <= b \/ c >= b + heap.size[b]
    BY DEF BlocksTile
  <2>1. Tiles(heap.size, Whole)
    BY DEF IInv, Invariant, Initialised, Placed, Ordered
  <2> QED
    BY <2>1, WholeTiles DEF Tiles, Blocks
<1> QED
  BY <1>1, Inductive, PTL

\* A block is free, in use or on its way back, and has room for what was asked,
\* although vPortFree gives it up before it suspends the scheduler.
THEOREM PlaceCorrect == Spec => []EachBlockInOnePlace
<1>1. IInv => EachBlockInOnePlace
  <2> SUFFICES ASSUME IInv PROVE EachBlockInOnePlace
    OBVIOUS
  <2>1. Blocks = Listed \union DOMAIN asked \union Returning
        /\ Listed \intersect (DOMAIN asked \union Returning) = {}
    BY HeapShape, InListIsNodes DEF Placed, Ordered, Unlisted, Blocks
  <2>2. \A b \in DOMAIN asked : Header + asked[b] <= heap.size[b]
    BY HeapShape DEF Placed
  <2> QED
    BY <2>1, <2>2 DEF IInv, Invariant, EachBlockInOnePlace
<1> QED
  BY <1>1, Inductive, PTL

\* The list is in the order of addresses and leaves no free block out.
THEOREM ListCorrect == Spec => []ListInOrder
<1>1. IInv => ListInOrder
  BY InListIsNodes DEF IInv, Invariant, ListInOrder, Initialised, Placed, Ordered, Chain
<1> QED
  BY <1>1, Inductive, PTL

\* Free blocks never adjoin: prvInsertBlockIntoFreeList merges on both sides.
THEOREM AdjoiningCorrect == Spec => []NoAdjoiningFree
<1>1. IInv => NoAdjoiningFree
  <2> SUFFICES ASSUME IInv, NEW b \in Listed PROVE b + heap.size[b] \notin Listed
    BY DEF NoAdjoiningFree
  <2>1. Placed(heap, Whole)
    BY HeapShape
  <2>2. \A c \in Listed : heap.size[c] > 0
    <3>1. Tiles(heap.size, Whole) /\ Listed \subseteq DOMAIN heap.size
      BY <2>1, InListIsNodes DEF Placed, Ordered
    <3>2. \A c \in DOMAIN heap.size : heap.size[c] \in Nat /\ heap.size[c] >= 1
      BY <3>1, WholeTiles, TilesTypes
    <3> QED
      BY <3>1, <3>2
  <2> QED
    BY <2>1, <2>2, InListIsNodes DEF Placed, Ordered, Adjoins
<1> QED
  BY <1>1, Inductive, PTL

\* xFreeBytesRemaining counts the free bytes exactly, through every split and merge.
THEOREM CountCorrect == Spec => []FreeBytesExact
<1>1. IInv => FreeBytesExact
  <2> SUFFICES ASSUME IInv PROVE FreeBytesExact
    OBVIOUS
  <2>1. Covered(Listed) = Bytes(heap.size, Nodes(heap.next))
    BY InListIsNodes DEF Covered, Bytes
  <2>2. CASE Placed(heap, Whole)
    BY <2>1, <2>2 DEF Placed, Exact, FreeBytesExact
  <2>3. CASE heap = NotInitialised /\ Listed = {}
    <3>1. Covered(Listed) = {} /\ heap.freeBytes = 0 /\ heap.minimumEver = 0
      BY <2>3 DEF Covered, NotInitialised
    <3> QED
      BY <3>1, FS_EmptySet DEF FreeBytesExact
  <2> QED
    BY <2>2, <2>3, HeapShape
<1> QED
  BY <1>1, Inductive, PTL

\* Every variable keeps its type.
THEOREM TypeCorrect == Spec => []TypeOK
<1>1. IInv => TypeOK
  <2> SUFFICES ASSUME IInv PROVE TypeOK
    OBVIOUS
  <2>1. freeing \in [Tasks -> SUBSET Returning] /\ asked \in [DOMAIN asked -> Nat]
    BY DEF IInv, Invariant, Returning
  <2>2. CASE heap = NotInitialised /\ Blocks = {} /\ DOMAIN asked = {} /\ Returning = {}
    <3>1. /\ DOMAIN heap = {"size", "next", "freeBytes", "minimumEver"}
          /\ heap.size = [b \in {} |-> 0] /\ heap.next = [b \in {} |-> 0]
          /\ heap.freeBytes = 0 /\ heap.minimumEver = 0
      BY <2>2 DEF NotInitialised
    <3> QED
      BY <2>1, <2>2, <3>1, Ends DEF TypeOK, Blocks
  <2>3. CASE Placed(heap, Whole)
    <3>1. /\ DOMAIN heap = {"size", "next", "freeBytes", "minimumEver"}
          /\ Blocks \subseteq First .. End - 1
          /\ DOMAIN heap.next \subseteq Blocks \union {heapStart}
          /\ heap.next \in [DOMAIN heap.next -> Blocks \union {End}]
      BY <2>3 DEF Placed, Ordered, Tiles, Chain, Nodes, Blocks, Fields
    <3>5. heap.size \in [Blocks -> 1 .. End]
      <4>1. heap.size \in [Blocks -> 0 .. End] /\ \A b \in Blocks : heap.size[b] >= 1
        BY <2>3, WholeTiles DEF Placed, Ordered, Tiles, Blocks
      <4> QED
        BY <4>1
    <3>2. heap.freeBytes \in 0 .. End
      BY <2>3, BytesBounded DEF Placed, Ordered, Exact
    <3>3. heap.minimumEver \in 0 .. End
      BY <2>3, <3>2, Ends DEF Placed, Exact
    <3>4. DOMAIN asked \subseteq Blocks /\ Returning \subseteq Blocks
      BY <2>3 DEF Placed, Unlisted, Blocks
    <3> QED
      BY <2>1, <3>1, <3>2, <3>3, <3>4, <3>5 DEF TypeOK
  <2> QED
    BY <2>2, <2>3, HeapShape
<1> QED
  BY <1>1, Inductive, PTL

(***************************************************************************)
(* The refinement.                                                         *)
(***************************************************************************)
\* The regions of blocks that are in use for what g says.
RegionsOf(g) == [p \in {x + Header : x \in DOMAIN g} |-> g[p - Header]]

\* A region is given out between low and high: Malloc of Allocator, from the
\* regions r to the regions new.
GivenOut(r, new, low, high) ==
  \E p \in (low .. high - 1) \ DOMAIN r :
     /\ p % Alignment = 0
     /\ new \in [DOMAIN r \union {p} -> Nat]
     /\ new[p] \in 1 .. high - p
     /\ \A q \in DOMAIN r :
           new[q] = r[q] /\ (p + new[p] <= q \/ q + r[q] <= p)

GivenBack(r, new) == \E p \in DOMAIN r : new = [q \in DOMAIN r \ {p} |-> r[q]]

\* The region of a block begins after its header and is as long as was asked.
LEMMA Shifted ==
  ASSUME NEW g, DOMAIN g \subseteq Nat, NEW b \in DOMAIN g
  PROVE  b + Header \in DOMAIN RegionsOf(g) /\ RegionsOf(g)[b + Header] = g[b]
<1> DEFINE p == b + Header
           S == {x + Header : x \in DOMAIN g}
           r == RegionsOf(g)
<1>1. p - Header = b
  BY HeaderAssumption
<1>2. p \in S
  OBVIOUS
<1>3. r = [q \in S |-> g[q - Header]]
  BY DEF RegionsOf
<1> HIDE DEF p, S, r
<1>4. p \in DOMAIN r /\ r[p] = g[p - Header]
  BY <1>2, <1>3
<1>5. p \in DOMAIN r /\ r[p] = g[b]
  BY <1>1, <1>4
<1> QED
  BY <1>5 DEF p, r

\* A block that is taken becomes a region that is aligned and apart from all others,
\* because the blocks are apart.
LEMMA RegionAdded ==
  ASSUME NEW g, NEW new, NEW size, NEW b, b \notin DOMAIN g,
         DOMAIN new = DOMAIN g \union {b}, new[b] > 0,
         \A x \in DOMAIN g : new[x] = g[x],
         \A x \in DOMAIN new :
            /\ x \in Nat /\ size[x] \in Nat /\ new[x] \in Nat
            /\ Header + new[x] <= size[x],
         \A x \in DOMAIN g : b + size[b] <= x \/ x + size[x] <= b,
         NEW low \in Nat, NEW high \in Nat, low <= b, b + size[b] <= high,
         b % Alignment = 0
  PROVE  GivenOut(RegionsOf(g), RegionsOf(new), low, high)
<1> DEFINE p == b + Header
           r == RegionsOf(g)
           s == RegionsOf(new)
<1>1. DOMAIN r = {x + Header : x \in DOMAIN g} /\ DOMAIN s = {x + Header : x \in DOMAIN new}
  BY DEF RegionsOf
<1>2. DOMAIN s = DOMAIN r \union {p}
  BY <1>1
<1>3. DOMAIN g \subseteq Nat /\ DOMAIN new \subseteq Nat
  OBVIOUS
<1>4. \A x \in DOMAIN g : r[x + Header] = g[x]
  BY <1>3, Shifted
<1>5. \A x \in DOMAIN new : s[x + Header] = new[x]
  BY <1>3, Shifted
<1>6. s = [q \in DOMAIN s |-> s[q]]
  BY DEF RegionsOf
<1> HIDE DEF r, s
<1>7. /\ b \in Nat /\ Header \in Nat /\ size[b] \in Nat /\ new[b] \in Nat /\ new[b] > 0
      /\ Header + new[b] <= size[b] /\ b + size[b] <= high /\ low <= b
  BY HeaderAssumption
<1>8. s[p] = new[b]
  BY <1>5
<1>9. p % Alignment = 0
  BY <1>7, HeaderAssumption, AlignedSum
<1>10. new[b] \in 1 .. high - p /\ p \in low .. high - 1
  BY <1>7
<1>11. p \notin DOMAIN r
  BY <1>1, <1>3, <1>7
<1>12. s \in [DOMAIN r \union {p} -> Nat]
  <2>1. \A q \in DOMAIN s : s[q] \in Nat
    BY <1>1, <1>5
  <2> QED
    BY <1>2, <1>6, <2>1
<1>13. ASSUME NEW q \in DOMAIN r
       PROVE  s[q] = r[q] /\ (p + new[b] <= q \/ q + r[q] <= p)
  <2>1. PICK x \in DOMAIN g : q = x + Header
    BY <1>1
  <2>2. s[q] = g[x] /\ r[q] = g[x]
    BY <1>4, <1>5, <2>1
  <2>3. /\ x \in Nat /\ size[x] \in Nat /\ g[x] \in Nat /\ Header + g[x] <= size[x]
        /\ b + size[b] <= x \/ x + size[x] <= b
    OBVIOUS
  <2>4. p + new[b] <= q \/ q + g[x] <= p
    BY <1>7, <2>1, <2>3
  <2> QED
    BY <2>2, <2>4
<1> HIDE DEF p
<1>14. GivenOut(r, s, low, high)
  <2>1. p \in (low .. high - 1) \ DOMAIN r
    BY <1>10, <1>11
  <2>2. s[p] \in 1 .. high - p
    BY <1>8, <1>10
  <2>3. \A q \in DOMAIN r : s[q] = r[q] /\ (p + s[p] <= q \/ q + r[q] <= p)
    BY <1>8, <1>13
  <2> QED
    BY <1>9, <1>12, <2>1, <2>2, <2>3 DEF GivenOut
<1> QED
  BY <1>14 DEF r, s

\* A block that is given up ends its region.
LEMMA RegionRemoved ==
  ASSUME NEW g, DOMAIN g \subseteq Nat, NEW b \in DOMAIN g
  PROVE  GivenBack(RegionsOf(g), RegionsOf([x \in DOMAIN g \ {b} |-> g[x]]))
<1> DEFINE new == [x \in DOMAIN g \ {b} |-> g[x]]
           r == RegionsOf(g)
           s == RegionsOf(new)
           p == b + Header
<1>1. DOMAIN r = {x + Header : x \in DOMAIN g} /\ DOMAIN s = {x + Header : x \in DOMAIN new}
  BY DEF RegionsOf
<1>2. DOMAIN new = DOMAIN g \ {b} /\ \A x \in DOMAIN new : new[x] = g[x]
  OBVIOUS
<1>3. \A x \in DOMAIN g : r[x + Header] = g[x]
  BY Shifted
<1>4. \A x \in DOMAIN new : s[x + Header] = new[x]
  <2> HIDE DEF new
  <2> QED
    BY <1>2, Shifted
<1>5. s = [q \in DOMAIN s |-> s[q]]
  BY DEF RegionsOf
<1> HIDE DEF new, r, s
<1>6. p \in DOMAIN r /\ DOMAIN s = DOMAIN r \ {p}
  BY <1>1, <1>2, HeaderAssumption
<1>7. \A q \in DOMAIN s : s[q] = r[q]
  BY <1>1, <1>2, <1>3, <1>4
<1> HIDE DEF p
<1>8. s = [q \in DOMAIN r \ {p} |-> r[q]]
  BY <1>5, <1>6, <1>7
<1> QED
  BY <1>6, <1>8 DEF GivenBack, new, r, s

\* A region that is given out or back is a step of Allocator.
LEMMA Refines ==
  \/ GivenOut(Regions, Regions', HeapAt, HeapAt + HeapSize)
  \/ GivenBack(Regions, Regions')
  => A!Next
<1>1. ASSUME GivenBack(Regions, Regions') PROVE A!Next
  BY <1>1 DEF GivenBack, A!Next, A!Free
<1>2. ASSUME GivenOut(Regions, Regions', HeapAt, HeapAt + HeapSize) PROVE A!Next
  <2> DEFINE a == <<HeapAt, HeapAt + HeapSize>>
  <2>1. a[1] = HeapAt /\ a[2] = HeapAt + HeapSize
    OBVIOUS
  <2> HIDE DEF a
  <2>2. \E p \in (a[1] .. a[2] - 1) \ DOMAIN Regions : A!Malloc(a, p)
    BY <1>2, <2>1, Zenon DEF GivenOut, A!Malloc, A!Apart
  <2> QED
    BY <2>2 DEF A!Next, a
<1> QED
  BY <1>1, <1>2

\* What pvPortMalloc takes becomes a region of the user's, inside one of the layout.
LEMMA AllocateRefines ==
  ASSUME NEW L, Invariant(L), Placed(Current, L),
         NEW w \in Nat, Allocate(w, w), UNCHANGED freeing
  PROVE  \/ UNCHANGED asked
         \/ \E f \in DOMAIN L : \A low, high \in Nat :
               low <= f /\ L[f] <= high => GivenOut(Regions, Regions', low, high)
<1>1. ASSUME NEW b \in Nodes(Current.next),
             w > 0, b \notin DOMAIN asked,
             Unlisted(heap') = Unlisted(Current) \union {b},
             asked' = [x \in DOMAIN asked \union {b} |-> IF x = b THEN w ELSE asked[x]]
      PROVE  \E f \in DOMAIN L : \A low, high \in Nat :
               low <= f /\ L[f] <= high => GivenOut(Regions, Regions', low, high)
  <2> DEFINE new == asked'
             size == heap'.size
  <2>1. /\ DOMAIN new = DOMAIN asked \union {b} /\ new[b] > 0
        /\ \A x \in DOMAIN asked : new[x] = asked[x]
    BY <1>1
  <2>2. Placed(heap, L)' /\ asked' \in [DOMAIN asked' -> Nat \ {0}]
    BY <2>1, AllocateKeeps DEF Invariant
  <2>3. \A x \in DOMAIN new : x \in DOMAIN size /\ Header + new[x] <= size[x] /\ new[x] \in Nat
    BY <2>2 DEF Placed, Unlisted
  <2>4. Tiles(size, L)
    BY <2>2 DEF Placed, Ordered
  <2> HIDE DEF new, size
  <2>5. \A x \in DOMAIN new : x \in Nat /\ size[x] \in Nat
    BY <2>3, <2>4, TilesTypes
  <2>6. \A x \in DOMAIN asked : b + size[b] <= x \/ x + size[x] <= b
    BY <1>1, <2>1, <2>3, <2>4, TilesApart
  <2>7. PICK f \in DOMAIN L : f <= b /\ b + size[b] <= L[f]
    BY <2>1, <2>3, <2>4 DEF Tiles, InRegion
  <2>8. b % Alignment = 0 /\ b \in Nat /\ size[b] \in Nat /\ f \in Nat /\ L[f] \in Nat
    BY <2>1, <2>3, <2>4, <2>5 DEF Tiles, Layout
  <2>9. ASSUME NEW low \in Nat, NEW high \in Nat, low <= f, L[f] <= high
        PROVE  GivenOut(Regions, Regions', low, high)
    <3>1. low <= b /\ b + size[b] <= high
      BY <2>7, <2>8, <2>9
    <3>2. GivenOut(RegionsOf(asked), RegionsOf(new), low, high)
      BY <1>1, <2>1, <2>3, <2>5, <2>6, <2>8, <3>1, RegionAdded
    <3> QED
      BY <3>2 DEF Regions, RegionsOf, new
  <2> QED
    BY <2>9
<1> QED
  BY <1>1, AllocateDoes

\* vPortFree ends a region when it gives up the block.
LEMMA FreeRefines ==
  ASSUME NEW L, Invariant(L), NEW t \in Tasks, NEW b \in DOMAIN asked, vPortFree(t, b)
  PROVE  GivenBack(Regions, Regions')
<1>1. asked' = [x \in DOMAIN asked \ {b} |-> asked[x]]
  BY DEF vPortFree
<1>2. DOMAIN asked \subseteq Nat
  BY TilesTypes DEF Invariant, Placed, Unlisted, Ordered
<1>3. GivenBack(RegionsOf(asked), RegionsOf(asked'))
  BY <1>1, <1>2, RegionRemoved
<1> QED
  BY <1>3 DEF Regions, RegionsOf

\* heap_4.c implements the allocator that its callers expect.
THEOREM AllocatorCorrect == Spec => IsAllocator
<1>1. Init => A!Init
  BY DEF Init, A!Init, Regions
<1>2. IInv /\ [Next]_vars => [A!Next]_Regions
  <2> SUFFICES ASSUME IInv, [Next]_vars PROVE A!Next \/ UNCHANGED Regions
    OBVIOUS
  <2>1. ASSUME NEW w \in Nat, Allocate(w, w), UNCHANGED freeing, ~ UNCHANGED asked
        PROVE  A!Next
    <3>1. PICK f \in DOMAIN Whole : \A low, high \in Nat :
             low <= f /\ Whole[f] <= high => GivenOut(Regions, Regions', low, high)
      BY <2>1, CurrentPlaced, AllocateRefines DEF IInv
    <3>2. HeapAt \in Nat /\ HeapAt + HeapSize \in Nat
          /\ HeapAt <= f /\ Whole[f] <= HeapAt + HeapSize
      BY Ends, HeapAssumption, HeaderAssumption DEF Whole
    <3> QED
      BY <3>1, <3>2, Refines
  <2>2. ASSUME NEW t \in Tasks, NEW b \in DOMAIN asked, vPortFree(t, b) PROVE A!Next
    BY <2>2, FreeRefines, Refines DEF IInv
  <2>3. ASSUME NEW t \in Tasks, ReturnToList(t) PROVE UNCHANGED Regions
    BY <2>3 DEF ReturnToList, Regions
  <2>4. ASSUME UNCHANGED asked PROVE UNCHANGED Regions
    BY <2>4 DEF Regions
  <2> QED
    BY <2>1, <2>2, <2>3, <2>4, NextDoes DEF vars
<1> QED
  BY <1>1, <1>2, Inductive, PTL DEF Spec, IsAllocator, A!Spec
=============================================================================
