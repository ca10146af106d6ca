------------------------------ MODULE EthTxRing ------------------------------
(***************************************************************************)
(* The transmit path of the CH32V307 firmware: low_level_output and        *)
(* ETH_TxPkt_ChainMode, which run in tcpip_thread, and the transmit DMA of *)
(* the MAC (external), which shares the ring of ETH_TXBUFNB descriptors    *)
(* and the TBUS flag with them.                                            *)
(*                                                                         *)
(* One thread sends: tcpip_thread, or main before the scheduler starts.  A *)
(* step of it is one access to state that the DMA also touches.            *)
(***************************************************************************)
EXTENDS Naturals, Sequences

CONSTANTS
    N,           \* ETH_TXBUFNB
    Packets,     \* the contents a packet can have
    NoPacket,    \* no content: the buffer was never written
    SplitFetch   \* the DMA reads OWN and suspends in two steps, not in one

ASSUME RingAssumption == N \in Nat /\ N >= 2
ASSUME PacketAssumption == NoPacket \notin Packets
ASSUME HardwareAssumption == SplitFetch \in BOOLEAN

VARIABLES
    own,     \* own[i]: descriptor i has its OWN bit set, it is the DMA's
    buf,     \* buf[i]: the content of Tx_Buff[i]
    queued,  \* queued[i]: the packet that was handed over with descriptor i
    cur,     \* the DMA's current descriptor
    dma,     \* what the transmit DMA is doing
    wire,    \* the content the DMA has read from the buffer
    tbus,    \* the bit TBUS of ETH->DMASR
    set,     \* DMATxDescToSet
    pc,      \* where the sending thread is
    p        \* the pbuf it sends

ring   == <<own, queued, cur, set>>
sender == <<pc, p>>
vars == <<own, buf, queued, cur, dma, wire, tbus, set, pc, p>>

Idx == 0 .. N - 1

\* Mutant: the last descriptor is not chained to the first.
NxtNotClosed(i) == i + 1

\* Buffer2NextDescAddr: the chain is closed on itself.
Nxt(i) == IF i = N - 1 THEN 0 ELSE i + 1

DmaStates == {"fetch", "unavailable", "suspended", "read", "sent"}
SenderStates == {"idle", "copy", "txPkt", "readTbus", "clearTbus", "resume"}

\* The number of descriptors handed over and not yet sent.
Pending ==
    IF cur < set THEN set - cur
    ELSE IF cur > set THEN N - cur + set
    ELSE IF own[cur] THEN N ELSE 0

(***************************************************************************)
(* ETH_DMATxDescChainInit and ETH_Start: every descriptor is the driver's, *)
(* and the DMA goes to look at the first one.                              *)
(***************************************************************************)
Init ==
    /\ own = [i \in Idx |-> FALSE]
    /\ buf = [i \in Idx |-> NoPacket]
    /\ queued = [i \in Idx |-> NoPacket]
    /\ cur = 0 /\ set = 0
    /\ dma = "fetch"
    /\ wire = NoPacket
    /\ tbus = FALSE
    /\ pc = "idle"
    /\ p = NoPacket

(***************************************************************************)
(* low_level_output.                                                       *)
(***************************************************************************)

\* tcpip_thread calls low_level_output, which takes the address of the buffer
\* of DMATxDescToSet.  A call takes thousands of cycles and the DMA a few from
\* its look at OWN to its suspension: these do not stretch from one call into
\* the next.
Output(packet) ==
    /\ pc = "idle"
    /\ dma # "unavailable"
    /\ p' = packet
    /\ pc' = "copy"
    /\ UNCHANGED <<ring, buf, dma, wire, tbus>>

\* Mutant: the buffer is the next descriptor's.
CopyToNextBuffer ==
    /\ pc = "copy"
    /\ buf' = [buf EXCEPT ![Nxt(set)] = p]
    /\ pc' = "txPkt"
    /\ UNCHANGED <<ring, dma, wire, tbus, p>>

\* The memcpy of the pbuf to that buffer, whoever the descriptor belongs to.
CopyToBuffer ==
    /\ pc = "copy"
    /\ buf' = [buf EXCEPT ![set] = p]
    /\ pc' = "txPkt"
    /\ UNCHANGED <<ring, dma, wire, tbus, p>>

\* Mutant: the packet is refused while one descriptor is still the driver's.
TxPktRefusedEarly ==
    /\ pc = "txPkt"
    /\ own[set] \/ own[Nxt(set)]
    /\ pc' = "idle"
    /\ p' = NoPacket
    /\ UNCHANGED <<ring, buf, dma, wire, tbus>>

\* ETH_TxPkt_ChainMode finds the OWN bit set and returns ETH_ERROR, which
\* low_level_output does not look at: it returns ERR_OK.
TxPktRefused ==
    /\ pc = "txPkt"
    /\ own[set]
    /\ pc' = "idle"
    /\ p' = NoPacket
    /\ UNCHANGED <<ring, buf, dma, wire, tbus>>

\* Mutant: OWN is not set.
HandOverKept ==
    /\ pc = "txPkt"
    /\ ~own[set]
    /\ queued' = [queued EXCEPT ![set] = p]
    /\ set' = Nxt(set)
    /\ pc' = "readTbus"
    /\ p' = NoPacket
    /\ UNCHANGED <<own, buf, cur, dma, wire, tbus>>

\* ETH_TxPkt_ChainMode sets size, LS, FS and OWN.  DMATxDescToSet moves on at
\* the end of the function; only the sender looks at it, so here is as good.
HandOver ==
    /\ pc = "txPkt"
    /\ ~own[set]
    /\ own' = [own EXCEPT ![set] = TRUE]
    /\ queued' = [queued EXCEPT ![set] = p]
    /\ set' = Nxt(set)
    /\ pc' = "readTbus"
    /\ p' = NoPacket
    /\ UNCHANGED <<buf, cur, dma, wire, tbus>>

\* Mutant: TBUS is not looked at.
ReadTbusSkipped ==
    /\ pc = "readTbus"
    /\ pc' = "idle"
    /\ UNCHANGED <<ring, buf, dma, wire, tbus, p>>

ReadTbus ==
    /\ pc = "readTbus"
    /\ pc' = IF tbus THEN "clearTbus" ELSE "idle"
    /\ UNCHANGED <<ring, buf, dma, wire, tbus, p>>

\* Mutant: TBUS is cleared and the DMA not resumed.
ClearTbusOnly ==
    /\ pc = "clearTbus"
    /\ tbus' = FALSE
    /\ pc' = "idle"
    /\ UNCHANGED <<ring, buf, dma, wire, p>>

ClearTbus ==
    /\ pc = "clearTbus"
    /\ tbus' = FALSE
    /\ pc' = "resume"
    /\ UNCHANGED <<ring, buf, dma, wire, p>>

\* ETH->DMATPDR = 0: the DMA, if it is suspended, looks at its descriptor again.
Resume ==
    /\ pc = "resume"
    /\ dma' = IF dma = "suspended" THEN "fetch" ELSE dma
    /\ pc' = "idle"
    /\ UNCHANGED <<ring, buf, wire, tbus, p>>

(***************************************************************************)
(* The transmit DMA (external).                                            *)
(***************************************************************************)
FetchOwned ==
    /\ dma = "fetch"
    /\ own[cur]
    /\ dma' = "read"
    /\ UNCHANGED <<ring, buf, wire, tbus, sender>>

FetchNotOwned ==
    /\ dma = "fetch"
    /\ ~own[cur]
    /\ IF SplitFetch
       THEN dma' = "unavailable" /\ tbus' = tbus
       ELSE dma' = "suspended" /\ tbus' = TRUE
    /\ UNCHANGED <<ring, buf, wire, sender>>

Suspend ==
    /\ dma = "unavailable"
    /\ dma' = "suspended"
    /\ tbus' = TRUE
    /\ UNCHANGED <<ring, buf, wire, sender>>

ReadBuffer ==
    /\ dma = "read"
    /\ wire' = buf[cur]
    /\ dma' = "sent"
    /\ UNCHANGED <<ring, buf, tbus, sender>>

\* The packet is on the wire: the descriptor goes back to the driver.
CloseDescriptor ==
    /\ dma = "sent"
    /\ own' = [own EXCEPT ![cur] = FALSE]
    /\ queued' = [queued EXCEPT ![cur] = NoPacket]
    /\ cur' = Nxt(cur)
    /\ wire' = NoPacket
    /\ dma' = "fetch"
    /\ UNCHANGED <<buf, set, tbus, sender>>

Call == \E packet \in Packets : Output(packet)

InCall ==
    \/ CopyToBuffer \/ TxPktRefused \/ HandOver
    \/ ReadTbus \/ ClearTbus \/ Resume

Dma ==
    \/ FetchOwned \/ FetchNotOwned \/ Suspend
    \/ ReadBuffer \/ CloseDescriptor

Next == Call \/ InCall \/ Dma

Spec == Init /\ [][Next]_vars

(***************************************************************************)
(* Fairness: the DMA works, and low_level_output, which never waits, runs  *)
(* to its end.                                                             *)
(***************************************************************************)
FairSpec == Spec /\ WF_vars(Dma) /\ WF_vars(InCall)

\* lwIP goes on sending.
TrafficSpec == FairSpec /\ WF_vars(Call)

(***************************************************************************)
(* Safety.                                                                 *)
(***************************************************************************)

\* Every variable has its type.
TypeOK ==
    /\ own \in [Idx -> BOOLEAN]
    /\ buf \in [Idx -> Packets \union {NoPacket}]
    /\ queued \in [Idx -> Packets \union {NoPacket}]
    /\ cur \in Idx /\ set \in Idx
    /\ dma \in DmaStates
    /\ wire \in Packets \union {NoPacket}
    /\ tbus \in BOOLEAN
    /\ pc \in SenderStates
    /\ p \in Packets \union {NoPacket}

\* Descriptor i is among those from the DMA's own up to DMATxDescToSet.
InWindow(i) ==
    IF cur < set THEN cur <= i /\ i < set
    ELSE IF cur > set THEN cur <= i \/ i < set
    ELSE own[cur]

\* The descriptors of the DMA are exactly those between its current one and
\* DMATxDescToSet: the two pointers agree on what is to be sent.
RingWindow == \A i \in Idx : own[i] <=> InWindow(i)

\* While the DMA is suspended TBUS tells so, until ETH_TxPkt_ChainMode is about
\* to resume it: the next packet that is handed over resumes the DMA.
SuspendedShowsTbus == dma = "suspended" => tbus \/ pc = "resume"

\* When no call is under way a suspended DMA has left at most one packet behind
\* (the one handed over between its look at OWN and its suspension).  With more
\* than one descriptor the ring is not full, so that a call comes that resumes
\* the DMA: the transmitter cannot die of a lost wake-up.
SuspendedLeavesOne == dma = "suspended" /\ pc = "idle" => Pending <= 1

\* low_level_output copies before ETH_TxPkt_ChainMode checks OWN, but it can
\* damage no other packet than the oldest that is queued.
DamageOnlyToOldest == \A i \in Idx : own[i] /\ buf[i] # queued[i] => i = cur

(***************************************************************************)
(* The ring implements TxQueue.  What it queues is what the buffers hold,  *)
(* not what was handed over with them.                                     *)
(***************************************************************************)

\* The k-th descriptor that waits to be sent.
PendingAt(k) == IF cur + k - 1 < N THEN cur + k - 1 ELSE cur + k - 1 - N

PendingPackets == [k \in 1 .. Pending |-> buf[PendingAt(k)]]

OnWire == IF dma = "sent" THEN <<wire>> ELSE << >>

InHand == IF pc \in {"copy", "txPkt"} THEN <<p>> ELSE << >>

TxQ == INSTANCE TxQueue WITH
    Packet <- Packets, Capacity <- N,
    queue <- PendingPackets, line <- OnWire, call <- InHand

\* Packets leave in the order in which they were queued, each with what its
\* buffer holds when it is its turn.  Only while all descriptors wait can a packet
\* be lost, and can a buffer that waits change: that of the oldest packet, to the
\* packet low_level_output is called with.
RingIsQueue == TxQ!Spec

(***************************************************************************)
(* What a comment says and the code does not do.                           *)
(***************************************************************************)

\* eth_driver.c:481 "Set Own bit of the Tx descriptor Status: gives the buffer
\* back to ETHERNET DMA": a buffer that was given to the DMA is the DMA's, so
\* that what it reads there is the packet that was handed over.
WireIsQueued == dma = "sent" => wire = queued[cur]

(***************************************************************************)
(* Liveness.                                                               *)
(***************************************************************************)

\* A packet that was handed over is sent.
PacketSent == \A i \in Idx : own[i] ~> ~own[i]
=============================================================================
