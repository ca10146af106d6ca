------------------------------- MODULE RxQueue -------------------------------
(***************************************************************************)
(* What the receive ring promises to the code above it: a bounded FIFO of  *)
(* closed receive segments.  The MAC's DMA puts a segment at the tail when *)
(* there is room and the driver takes the segment at the head, one at a    *)
(* time.  Segments are never lost, duplicated, changed or reordered while  *)
(* they wait.  EthRxRing refines this specification.                       *)
(***************************************************************************)
EXTENDS Naturals, Sequences

CONSTANTS
    Segment,   \* the segments the DMA may close
    Capacity   \* ETH_RXBUFNB, the number of descriptors

VARIABLE queue

Init == queue = << >>

Put(s) ==
    /\ Len(queue) < Capacity
    /\ queue' = Append(queue, s)

Take ==
    /\ queue # << >>
    /\ queue' = Tail(queue)

Next ==
    \/ \E s \in Segment : Put(s)
    \/ Take

Spec == Init /\ [][Next]_queue
=============================================================================
