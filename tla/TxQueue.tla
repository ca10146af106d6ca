------------------------------- MODULE TxQueue -------------------------------
(***************************************************************************)
(* What the transmit ring does with the packets lwIP sends: a bounded FIFO *)
(* that is not quite one.  A call of low_level_output queues its packet    *)
(* when there is room.  When there is none the packet is lost, lwIP is     *)
(* told otherwise, and it can replace the packet at the head of the queue. *)
(* EthTxRing refines this specification: a packet is lost or replaced only *)
(* when the queue is full, only the head is replaced and only by the       *)
(* packet of the call, and what goes to the wire is the head.              *)
(***************************************************************************)
EXTENDS Naturals, Sequences

CONSTANTS
    Packet,    \* the packets
    Capacity   \* ETH_TXBUFNB, the number of descriptors

VARIABLES
    queue,  \* the contents that wait to be sent
    line,   \* the content that is being sent, at most one
    call    \* the packet lwIP has asked to send and that is not yet queued

vars == <<queue, line, call>>

Room == Len(queue) < Capacity

Init == queue = << >> /\ line = << >> /\ call = << >>

Call(p) ==
    /\ call = << >>
    /\ call' = <<p>>
    /\ UNCHANGED <<queue, line>>

Send ==
    /\ call # << >>
    /\ Room
    /\ queue' = queue \o call
    /\ call' = << >>
    /\ UNCHANGED line

\* The packet of the call takes the place of the one that is to be sent next.  It
\* can still be queued itself when there is room by then, and leaves twice.
Replace ==
    /\ call # << >>
    /\ ~Room
    /\ queue' = call \o Tail(queue)
    /\ UNCHANGED <<line, call>>

\* The call returns ERR_OK and its packet is not queued.
Lose ==
    /\ call # << >>
    /\ ~Room
    /\ call' = << >>
    /\ UNCHANGED <<queue, line>>

Begin ==
    /\ line = << >>
    /\ queue # << >>
    /\ line' = <<Head(queue)>>
    /\ UNCHANGED <<queue, call>>

Sent ==
    /\ line # << >>
    /\ line' = << >>
    /\ queue' = Tail(queue)
    /\ UNCHANGED call

Next ==
    \/ \E p \in Packet : Call(p)
    \/ Send \/ Replace \/ Lose
    \/ Begin \/ Sent

Spec == Init /\ [][Next]_vars
=============================================================================
