------------------------------ MODULE EthRxRing ------------------------------
(***************************************************************************)
(* The receive path of the CH32V307 firmware: the MAC's receive DMA, the   *)
(* ring of ETH_RXBUFNB descriptors, ETH_IRQHandler, ETH_RxPkt_ChainMode,   *)
(* low_level_input, ethernetif_input, the pbuf pool, the mailbox of        *)
(* tcpip_thread and tcpip_thread itself.                                   *)
(*                                                                         *)
(* The interrupt handler runs above every task, so task steps need         *)
(* irq = "idle"; the DMA runs beside everything.  A step of the handler is *)
(* one access to state the DMA also touches.  The DMA, the interrupt lines *)
(* and lwIP are not under the driver's control and are modelled from how   *)
(* the driver uses them.                                                   *)
(*                                                                         *)
(* A frame's bytes are a member of Frames.  A pbuf is always one element   *)
(* of the pool: PBUF_POOL_BUFSIZE (1516) is at least the longest frame a   *)
(* descriptor's buffer of ETH_MAX_PACKET_SIZE (1520) bytes can hold less   *)
(* its CRC.                                                                *)
(***************************************************************************)
EXTENDS Naturals, Sequences

CONSTANTS
    N,           \* ETH_RXBUFNB
    Frames,      \* the contents a frame can have
    NoFrame,     \* no content: nothing was copied
    PoolSize,    \* PBUF_POOL_SIZE
    MboxSize,    \* TCPIP_MBOX_SIZE
    AutoResume,  \* a suspended receive DMA looks again when a frame arrives
    NisLevel     \* the interrupt line also follows R and T themselves

ASSUME RingAssumption == N \in Nat /\ N >= 2
ASSUME PoolAssumption == PoolSize \in Nat
ASSUME MboxAssumption == MboxSize \in Nat
ASSUME FrameAssumption == NoFrame \notin Frames
ASSUME HardwareAssumption == AutoResume \in BOOLEAN /\ NisLevel \in BOOLEAN

VARIABLES
    status, \* status[i]: the Status word of descriptor i
    buf,    \* buf[i]: the content of Rx_Buff[i]
    cur,    \* the DMA's current descriptor
    dma,    \* what the receive DMA is doing
    r, t, nis, rbus,  \* the bits R, T, NIS, RBUS of ETH->DMASR
    get,    \* DMARxDescToGet
    irq,    \* where ETH_IRQHandler is
    frame,  \* the FrameTypeDef that ETH_RxPkt_ChainMode returned
    pb,     \* the pbuf low_level_input and ethernetif_input hold
    pool,   \* free elements of the pbuf pool
    mbox,   \* the pbufs in the mailbox of tcpip_thread
    hand    \* the pbufs tcpip_thread is processing, at most one

ring == <<status, buf, get>>
mac  == <<cur, dma>>
bits == <<r, t, nis, rbus>>
lwip == <<pb, pool, mbox, hand>>
vars == <<status, buf, cur, dma, r, t, nis, rbus, get, irq, frame, pb, pool,
          mbox, hand>>

(***************************************************************************)
(* The data of the model.                                                  *)
(***************************************************************************)
Idx == 0 .. N - 1

\* Mutant: the last descriptor is not chained to the first.
NxtNotClosed(i) == i + 1

\* Buffer2NextDescAddr: the chain is closed on itself.
Nxt(i) == IF i = N - 1 THEN 0 ELSE i + 1

\* A closed descriptor (OWN clear) says with FS, LS and ES what it holds: "whole"
\* has FS and LS and not ES, "first" has FS only, "last" LS only, "bad" has ES.
\* While OWN is set nobody reads these bits: the Status word is then "own".
Closed == {"whole", "first", "last", "bad"}
Status == Closed \union {"own"}
Own(i) == status[i] = "own"

\* How the receiver finds a frame: it fits one buffer, or it has an error, or
\* it is longer than one buffer and takes two descriptors.
Kinds == {"good", "error", "giant"}

DmaStates == {"wait", "good", "error", "giant", "rest", "suspended"}

\* len is u16_t len in low_level_input: all of the frame, or ETH_ERROR (zero).
\* want is what the buffer held when the descriptor was taken.
FrameTypeDef == [len : {"full", "zero"}, buffer : Idx, want : Frames \union {NoFrame}]

\* want goes with the pbuf so that data can be compared with it.
Pbuf == [data : Frames \union {NoFrame}, want : Frames \union {NoFrame}]

IrqStates == {"idle", "readR", "clearR", "rxPkt", "alloc", "copy", "input",
              "readT", "clearNis"}

\* The number of closed descriptors that ETH_RxPkt_ChainMode has not taken.
Waiting ==
    IF get < cur THEN cur - get
    ELSE IF get > cur THEN N - get + cur
    ELSE IF Own(get) THEN 0 ELSE N

NoneTaken == [len |-> "zero", buffer |-> 0, want |-> NoFrame]

(***************************************************************************)
(* ETH_DMARxDescChainInit, ETH_Start and the state of lwIP after           *)
(* tcpip_init.                                                             *)
(***************************************************************************)
Init ==
    /\ status = [i \in Idx |-> "own"]
    /\ buf = [i \in Idx |-> NoFrame]
    /\ cur = 0 /\ get = 0
    /\ dma = "wait"
    /\ r = FALSE /\ t = FALSE /\ nis = FALSE /\ rbus = FALSE
    /\ irq = "idle"
    /\ frame = NoneTaken
    /\ pb = << >> /\ mbox = << >> /\ hand = << >>
    /\ pool = PoolSize

(***************************************************************************)
(* The receive DMA (external).  It writes a frame only into the buffer of  *)
(* a descriptor it owns.  When the frame is complete it writes the status, *)
(* clears OWN and raises R; it suspends with RBUS when it finds no         *)
(* descriptor of its own.                                                  *)
(***************************************************************************)

\* A frame f of kind k begins to arrive and goes to the current buffer.
Arrive(f, k) ==
    /\ dma = "wait" \/ (dma = "suspended" /\ AutoResume)
    /\ Own(cur)
    /\ buf' = [buf EXCEPT ![cur] = f]
    /\ dma' = k
    /\ UNCHANGED <<status, get, cur, bits, irq, frame, lwip>>

\* The DMA finds that the current descriptor is not its own.
NoDescriptor ==
    /\ dma \in {"wait", "suspended"}
    /\ ~Own(cur)
    /\ rbus' = TRUE
    /\ dma' = "suspended"
    /\ UNCHANGED <<ring, cur, r, t, nis, irq, frame, lwip>>

\* The current descriptor is closed with status s; at the end of a frame R is
\* raised, and NIS with it.
Close(s) ==
    /\ status' = [status EXCEPT ![cur] = s]
    /\ cur' = Nxt(cur)
    /\ UNCHANGED <<get, t, irq, frame, lwip>>

EndOfFrame ==
    /\ \/ dma = "good" /\ Close("whole")
       \/ dma = "error" /\ Close("bad")
       \/ dma = "rest" /\ Close("last")
    /\ dma' = "wait"
    /\ r' = TRUE /\ nis' = TRUE
    /\ UNCHANGED <<buf, rbus>>

\* The first buffer of a giant frame is full and the DMA goes on in the next.
FirstBufferFull(f) ==
    /\ dma = "giant"
    /\ Own(Nxt(cur))
    /\ Close("first")
    /\ buf' = [buf EXCEPT ![Nxt(cur)] = f]
    /\ dma' = "rest"
    /\ UNCHANGED <<r, nis, rbus>>

\* There is no next buffer: the frame ends here, truncated.
Truncated ==
    /\ dma = "giant"
    /\ ~Own(Nxt(cur))
    /\ Close("bad")
    /\ dma' = "suspended"
    /\ r' = TRUE /\ nis' = TRUE /\ rbus' = TRUE
    /\ UNCHANGED buf

\* The transmitter, which shares the interrupt, has sent a frame.
TransmitInterrupt ==
    /\ t' = TRUE /\ nis' = TRUE
    /\ UNCHANGED <<ring, mac, r, rbus, irq, frame, lwip>>

(***************************************************************************)
(* ETH_IRQHandler and what it calls.                                       *)
(***************************************************************************)

\* The interrupt line of the MAC is raised (external): by NIS, and where the line
\* is a level of the enabled bits themselves by R and T too.
IrqRaised == nis \/ (NisLevel /\ (r \/ t))

\* The interrupt is taken: nothing in the firmware masks it.
IrqEnter ==
    /\ irq = "idle"
    /\ IrqRaised
    /\ irq' = "readR"
    /\ UNCHANGED <<ring, mac, bits, frame, lwip>>

ReadR ==
    /\ irq = "readR"
    /\ irq' = IF r THEN "clearR" ELSE "readT"
    /\ UNCHANGED <<ring, mac, bits, frame, lwip>>

\* Mutant: R is not cleared before the frame is taken.
ClearRForgotten ==
    /\ irq = "clearR"
    /\ irq' = "rxPkt"
    /\ UNCHANGED <<ring, mac, bits, frame, lwip>>

\* ETH_DMAClearITPendingBit(ETH_DMA_IT_R): the bit is cleared by writing 1, so
\* an R raised since the read is cleared as well.
ClearR ==
    /\ irq = "clearR"
    /\ r' = FALSE
    /\ irq' = "rxPkt"
    /\ UNCHANGED <<ring, mac, t, nis, rbus, frame, lwip>>

\* ETH_RxPkt_ChainMode finds the OWN bit set: it resumes the DMA when that is
\* suspended, takes nothing and returns a frame of length ETH_ERROR.
OwnError ==
    /\ rbus' = FALSE
    /\ dma' = IF rbus /\ dma = "suspended" THEN "wait" ELSE dma
    /\ frame' = NoneTaken
    /\ UNCHANGED <<status, get>>

\* Mutant: OWN is not given back.
TakeDescriptorKept ==
    /\ frame' = IF status[get] = "whole"
                THEN [len |-> "full", buffer |-> get, want |-> buf[get]]
                ELSE NoneTaken
    /\ get' = Nxt(get)
    /\ UNCHANGED <<status, rbus, dma>>

\* Mutant: the buffer's address is read after DMARxDescToGet moved on.
TakeDescriptorNextBuffer ==
    /\ frame' = IF status[get] = "whole"
                THEN [len |-> "full", buffer |-> Nxt(get), want |-> buf[get]]
                ELSE NoneTaken
    /\ status' = [status EXCEPT ![get] = "own"]
    /\ get' = Nxt(get)
    /\ UNCHANGED <<rbus, dma>>

\* Mutant: an error frame returns before DMARxDescToGet moves on.
TakeDescriptorStays ==
    /\ frame' = IF status[get] = "whole"
                THEN [len |-> "full", buffer |-> get, want |-> buf[get]]
                ELSE NoneTaken
    /\ status' = [status EXCEPT ![get] = "own"]
    /\ get' = IF status[get] = "whole" THEN Nxt(get) ELSE get
    /\ UNCHANGED <<rbus, dma>>

\* ETH_RxPkt_ChainMode takes the descriptor: it returns a length for a whole
\* frame and ETH_ERROR for any other, and gives the descriptor back to the DMA.
TakeDescriptor ==
    /\ frame' = IF status[get] = "whole"
                THEN [len |-> "full", buffer |-> get, want |-> buf[get]]
                ELSE NoneTaken
    /\ status' = [status EXCEPT ![get] = "own"]
    /\ get' = Nxt(get)
    /\ UNCHANGED <<rbus, dma>>

RxPkt ==
    /\ irq = "rxPkt"
    /\ IF Own(get) THEN OwnError ELSE TakeDescriptor
    /\ irq' = "alloc"
    /\ UNCHANGED <<buf, cur, r, t, nis, lwip>>

\* pbuf_alloc(PBUF_RAW, len, PBUF_POOL) returns a pbuf: also for a length of
\* zero, when there is nothing to copy.
Alloc ==
    /\ irq = "alloc"
    /\ pool > 0
    /\ pool' = pool - 1
    /\ pb' = <<[data |-> NoFrame, want |-> frame.want]>>
    /\ irq' = IF frame.len = "full" THEN "copy" ELSE "input"
    /\ UNCHANGED <<ring, mac, bits, frame, mbox, hand>>

\* pbuf_alloc returns NULL: the frame is dropped.
AllocFails ==
    /\ irq = "alloc"
    /\ pool = 0
    /\ frame' = NoneTaken
    /\ irq' = "readT"
    /\ UNCHANGED <<ring, mac, bits, lwip>>

\* memcpy(q->payload, buffer, q->len): what the buffer holds now.
Copy ==
    /\ irq = "copy"
    /\ pb' = <<[data |-> buf[frame.buffer], want |-> frame.want]>>
    /\ irq' = "input"
    /\ UNCHANGED <<ring, mac, bits, frame, pool, mbox, hand>>

\* netif->input is tcpip_input, which posts the pbuf in a message and does not
\* wait.  There are as many messages as places in the mailbox, and tcpip_thread
\* frees its message when it has processed it.
Input ==
    /\ irq = "input"
    /\ Len(mbox) + Len(hand) < MboxSize
    /\ mbox' = mbox \o pb
    /\ pb' = << >>
    /\ frame' = NoneTaken
    /\ irq' = "readT"
    /\ UNCHANGED <<ring, mac, bits, pool, hand>>

\* Mutant: the pbuf is not freed when tcpip_input fails.
InputFailsLeaks ==
    /\ irq = "input"
    /\ Len(mbox) + Len(hand) >= MboxSize
    /\ pb' = << >>
    /\ frame' = NoneTaken
    /\ irq' = "readT"
    /\ UNCHANGED <<ring, mac, bits, pool, mbox, hand>>

\* tcpip_input returns ERR_MEM (no message is free): the
\* pbuf is freed.
InputFails ==
    /\ irq = "input"
    /\ Len(mbox) + Len(hand) >= MboxSize
    /\ pool' = pool + Len(pb)
    /\ pb' = << >>
    /\ frame' = NoneTaken
    /\ irq' = "readT"
    /\ UNCHANGED <<ring, mac, bits, mbox, hand>>

ReadAndClearT ==
    /\ irq = "readT"
    /\ t' = FALSE
    /\ irq' = "clearNis"
    /\ UNCHANGED <<ring, mac, r, nis, rbus, frame, lwip>>

\* Mutant: the handler clears R again when it clears NIS.
ClearNisAndR ==
    /\ irq = "clearNis"
    /\ nis' = FALSE /\ r' = FALSE
    /\ irq' = "idle"
    /\ UNCHANGED <<ring, mac, t, rbus, frame, lwip>>

ClearNis ==
    /\ irq = "clearNis"
    /\ nis' = FALSE
    /\ irq' = "idle"
    /\ UNCHANGED <<ring, mac, r, t, rbus, frame, lwip>>

(***************************************************************************)
(* tcpip_thread (external), which runs when the handler does not.          *)
(***************************************************************************)
Fetch ==
    /\ irq = "idle"
    /\ hand = << >> /\ mbox # << >>
    /\ hand' = <<Head(mbox)>>
    /\ mbox' = Tail(mbox)
    /\ UNCHANGED <<ring, mac, bits, irq, frame, pb, pool>>

Free ==
    /\ irq = "idle"
    /\ hand # << >>
    /\ pool' = pool + Len(hand)
    /\ hand' = << >>
    /\ UNCHANGED <<ring, mac, bits, irq, frame, pb, mbox>>

Dma ==
    \/ NoDescriptor
    \/ EndOfFrame
    \/ \E f \in Frames : FirstBufferFull(f)
    \/ Truncated

Irq ==
    \/ IrqEnter \/ ReadR \/ ClearR \/ RxPkt
    \/ Alloc \/ AllocFails \/ Copy \/ Input \/ InputFails
    \/ ReadAndClearT \/ ClearNis

Thread == Fetch \/ Free

Next ==
    \/ \E f \in Frames, k \in Kinds : Arrive(f, k)
    \/ TransmitInterrupt
    \/ Dma
    \/ Irq
    \/ Thread

Spec == Init /\ [][Next]_vars

(***************************************************************************)
(* Fairness.  The DMA finishes what it began, a raised interrupt is taken  *)
(* and its handler, which never waits, runs to its end, and tcpip_thread,  *)
(* which waits only for its mailbox, is scheduled.                         *)
(***************************************************************************)
Traffic == \E f \in Frames, k \in Kinds : Arrive(f, k)

FairSpec == Spec /\ WF_vars(Dma) /\ WF_vars(Irq) /\ WF_vars(Thread)

\* The peers on the network keep sending.
TrafficSpec == FairSpec /\ WF_vars(Traffic)

(***************************************************************************)
(* Safety.                                                                 *)
(***************************************************************************)

\* Every variable has its type; lists that hold at most one pbuf do.
TypeOK ==
    /\ status \in [Idx -> Status]
    /\ buf \in [Idx -> Frames \union {NoFrame}]
    /\ cur \in Idx /\ get \in Idx
    /\ dma \in DmaStates
    /\ r \in BOOLEAN /\ t \in BOOLEAN /\ nis \in BOOLEAN /\ rbus \in BOOLEAN
    /\ irq \in IrqStates
    /\ frame \in FrameTypeDef
    /\ pb \in Seq(Pbuf) /\ mbox \in Seq(Pbuf) /\ hand \in Seq(Pbuf)
    /\ Len(pb) <= 1 /\ Len(hand) <= 1
    /\ pool \in Nat

\* Descriptor i is among those from DMARxDescToGet up to the DMA's own.
InWindow(i) ==
    IF get < cur THEN get <= i /\ i < cur
    ELSE IF get > cur THEN get <= i \/ i < cur
    ELSE ~Own(get)

\* The closed descriptors are exactly those between DMARxDescToGet and the
\* DMA's current descriptor: the driver's pointer and the DMA's, which never
\* see each other, agree on who owns what.
RingWindow == \A i \in Idx : ~Own(i) <=> InWindow(i)

\* When ETH_IRQHandler calls ETH_RxPkt_ChainMode there is a frame to take, even
\* though R was read, cleared and perhaps raised again before: its "OWN bit
\* set" branch, the only code that resumes a suspended DMA, is never executed.
TakeFindsFrame == irq = "rxPkt" => ~Own(get)

\* A ring that is full is about to have a frame taken: R is set and the interrupt
\* line raised, or the handler has seen R and not yet taken the frame.  The
\* handler takes one frame for each interrupt, however many frames raised it; were
\* all of a full ring left behind, no frame could arrive to raise R again.  This
\* needs a line that follows R (NisLevel).  With a line that follows NIS alone,
\* frames that fill the ring between the handler's read of R and its write to NIS
\* leave R set and the line low, until the transmitter raises NIS again.
FullIsSignalled == Waiting = N => irq = "rxPkt" \/ (r /\ IrqRaised)

\* low_level_input copies a frame after its descriptor went back to the DMA.
\* The copy is what was received unless all the other buffers are full or being
\* filled: only then has the DMA come round to this one.
CopyIntactUnlessFull ==
    irq = "copy" /\ Waiting < N - 1 => buf[frame.buffer] = frame.want

\* No pbuf is lost or freed twice between pbuf_alloc in the handler, the
\* mailbox, pbuf_free after a failed post and pbuf_free in tcpip_thread.
PbufsConserved == pool + Len(pb) + Len(mbox) + Len(hand) = PoolSize

(***************************************************************************)
(* The ring implements a queue of segments.                                *)
(***************************************************************************)

\* The k-th descriptor that waits to be taken.
WaitingAt(k) == IF get + k - 1 < N THEN get + k - 1 ELSE get + k - 1 - N

Segments == [status : Closed, content : Frames \union {NoFrame}]

WaitingSegments ==
    [k \in 1 .. Waiting |->
        [status |-> status[WaitingAt(k)], content |-> buf[WaitingAt(k)]]]

RxQ == INSTANCE RxQueue WITH
    Segment <- Segments, Capacity <- N, queue <- WaitingSegments

\* The DMA and ETH_RxPkt_ChainMode use the descriptors as a bounded FIFO: frames
\* are taken once each, unchanged and in the order of their arrival.
RingIsQueue == RxQ!Spec

(***************************************************************************)
(* What the comments say and the code does not do.                         *)
(***************************************************************************)

\* ethernetif.c:129 "Should allocate a pbuf and transfer the bytes of the
\* incoming packet from the interface into the pbuf": a pbuf that is passed up
\* holds the frame its descriptor held when it was taken.
CopyIsTheFrame ==
    \A k \in DOMAIN mbox : mbox[k].data # NoFrame => mbox[k].data = mbox[k].want

(***************************************************************************)
(* Liveness.                                                               *)
(***************************************************************************)

\* A closed descriptor is taken sooner or later by ETH_RxPkt_ChainMode and goes
\* back to the DMA.
FrameTaken == \A i \in Idx : ~Own(i) ~> Own(i)
=============================================================================
