------------------------------ MODULE Allocator ------------------------------
(***************************************************************************)
(* What pvPortMalloc, pvPortCalloc and vPortFree promise to their callers: *)
(* a region of the heap that is as long as was asked, starts at an aligned *)
(* address and has no byte in common with any other region in use.         *)
(* Nothing is promised about when an allocation fails.  Heap1, Heap2,      *)
(* Heap4 and Heap5 refine this specification.                              *)
(***************************************************************************)
EXTENDS Naturals

CONSTANTS
    Areas,     \* the heap is the bytes low .. high - 1 of each <<low, high>>
    Alignment

VARIABLE live   \* live[p]: the length of the region at p that is in use

Apart(p, n, q, m) == p + n <= q \/ q + m <= p

Init == live = [p \in {} |-> 0]

\* A region that begins at p, in the area a, is given out.
Malloc(a, p) ==
    /\ p % Alignment = 0
    /\ live' \in [DOMAIN live \union {p} -> Nat]
    /\ live'[p] \in 1 .. a[2] - p
    /\ \A q \in DOMAIN live :
          live'[q] = live[q] /\ Apart(p, live'[p], q, live[q])

Free(p) == live' = [q \in DOMAIN live \ {p} |-> live[q]]

Next ==
    \/ \E a \in Areas : \E p \in (a[1] .. a[2] - 1) \ DOMAIN live : Malloc(a, p)
    \/ \E p \in DOMAIN live : Free(p)

Spec == Init /\ [][Next]_live
=============================================================================
