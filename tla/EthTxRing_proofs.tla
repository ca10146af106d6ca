--------------------------- MODULE EthTxRing_proofs ---------------------------
(***************************************************************************)
(* Safety of the transmit path for every number of descriptors, every set  *)
(* of packets, and a DMA that suspends at once or in two steps.            *)
(***************************************************************************)
EXTENDS EthTxRing, TLAPS

(***************************************************************************)
(* The strengthening of the safety invariants that every step preserves.   *)
(***************************************************************************)

\* The DMA sends from a descriptor of its own.
SendsOwn == dma \in {"read", "sent"} => own[cur]

\* TBUS is set only while the DMA is suspended, and the sender sees it there.
TbusMeansSuspended ==
    /\ tbus => dma = "suspended"
    /\ pc = "clearTbus" => tbus
    /\ pc = "resume" => dma = "suspended" /\ ~tbus

\* What is pending when the DMA has found nothing to send: nothing when it
\* looked, and one packet if it was handed over before the suspension.
LateHandOver ==
    /\ dma = "unavailable" =>
          Pending <= 1 /\ (pc \in {"copy", "txPkt"} => Pending = 0)
    /\ dma = "suspended" /\ pc \in {"idle", "copy", "txPkt"} => Pending <= 1

\* The sender's buffer holds the packet it hands over, and the buffers of the
\* DMA's descriptors hold packets.
PacketsQueued ==
    /\ pc \in {"copy", "txPkt"} => p \in Packets
    /\ pc = "txPkt" => buf[set] = p
    /\ \A i \in Idx : own[i] => buf[i] \in Packets

WakeInv == SendsOwn /\ SuspendedShowsTbus /\ TbusMeansSuspended /\ LateHandOver
DataInv == PacketsQueued /\ DamageOnlyToOldest

IInv == TypeOK /\ RingWindow /\ WakeInv /\ DataInv

(***************************************************************************)
(* The ring's arithmetic.                                                  *)
(***************************************************************************)

\* Buffer2NextDescAddr stays in the table and has one predecessor.
LEMMA NxtInIdx ==
    ASSUME NEW i \in Idx
    PROVE  Nxt(i) \in Idx /\ Nxt(i) # i /\ \A j \in Idx : Nxt(j) = Nxt(i) => j = i
  BY RingAssumption DEF Nxt, Idx

\* The number of pending descriptors is a number of descriptors.
LEMMA PendingInRange ==
    ASSUME TypeOK PROVE Pending \in 0 .. N
  BY RingAssumption DEF Pending, TypeOK, Idx

\* The ring is empty when the DMA does not own its descriptor, and full when it
\* owns the sender's.
LEMMA PendingEnds ==
    ASSUME TypeOK, RingWindow
    PROVE  (Pending = 0 <=> ~own[cur]) /\ (own[set] => set = cur)
           /\ (Pending < N <=> ~own[set])
  BY RingAssumption DEF TypeOK, RingWindow, InWindow, Pending, Idx

\* A packet handed over joins the window at its end.
LEMMA HandOverStep ==
    ASSUME TypeOK, RingWindow, ~own[set],
           own' = [own EXCEPT ![set] = TRUE], set' = Nxt(set), cur' = cur
    PROVE  RingWindow' /\ Pending' = Pending + 1
<1> USE RingAssumption DEF TypeOK, Idx
<1>1. \A i \in Idx : own'[i] <=> i = set \/ own[i]
  OBVIOUS
<1>2. RingWindow'
  BY <1>1 DEF RingWindow, InWindow, Nxt
<1>3. Pending' = Pending + 1
  BY <1>1 DEF RingWindow, InWindow, Pending, Nxt
<1> QED
  BY <1>2, <1>3

\* A packet sent leaves the window at its start.
LEMMA CloseStep ==
    ASSUME TypeOK, RingWindow, own[cur],
           own' = [own EXCEPT ![cur] = FALSE], cur' = Nxt(cur), set' = set
    PROVE  RingWindow' /\ Pending' = Pending - 1
<1> USE RingAssumption DEF TypeOK, Idx
<1>1. \A i \in Idx : own'[i] <=> i # cur /\ own[i]
  OBVIOUS
<1>2. RingWindow'
  BY <1>1 DEF RingWindow, InWindow, Nxt
<1>3. Pending' = Pending - 1
  BY <1>1 DEF RingWindow, InWindow, Pending, Nxt
<1> QED
  BY <1>2, <1>3

\* Every other step leaves the window alone.
LEMMA WindowKept ==
    ASSUME own' = own, cur' = cur, set' = set
    PROVE  RingWindow' = RingWindow /\ Pending' = Pending
  BY DEF RingWindow, InWindow, Pending

(***************************************************************************)
(* Types.                                                                  *)
(***************************************************************************)

\* The initial state has its types.
LEMMA InitType == Init => TypeOK
<1> SUFFICES ASSUME Init PROVE TypeOK
  OBVIOUS
<1>1. own \in [Idx -> BOOLEAN] /\ tbus \in BOOLEAN
  BY Zenon DEF Init
<1>2. cur \in Idx /\ set \in Idx
  BY RingAssumption DEF Init, Idx
<1> QED
  BY <1>1, <1>2 DEF Init, TypeOK, DmaStates, SenderStates

\* Every variable has its type in every reachable state.
THEOREM TypeCorrect == Spec => []TypeOK
<1>1. Init => TypeOK
  BY InitType
<1>2. TypeOK /\ [Next]_vars => TypeOK'
  <2> SUFFICES ASSUME TypeOK, [Next]_vars PROVE TypeOK'
    OBVIOUS
  <2> USE DEF TypeOK, ring, sender, SenderStates, DmaStates
  <2>1. ASSUME NEW packet \in Packets, Output(packet) PROVE TypeOK'
    BY <2>1 DEF Output
  <2>2. CASE CopyToBuffer
    BY <2>2 DEF CopyToBuffer
  <2>3. CASE TxPktRefused
    BY <2>3 DEF TxPktRefused
  <2>4. CASE HandOver
    BY <2>4, NxtInIdx DEF HandOver
  <2>5. CASE ReadTbus
    BY <2>5 DEF ReadTbus
  <2>6. CASE ClearTbus
    BY <2>6 DEF ClearTbus
  <2>7. CASE Resume
    BY <2>7 DEF Resume
  <2>8. CASE FetchOwned
    BY <2>8 DEF FetchOwned
  <2>9. CASE FetchNotOwned
    BY <2>9, HardwareAssumption DEF FetchNotOwned
  <2>10. CASE Suspend
    BY <2>10 DEF Suspend
  <2>11. CASE ReadBuffer
    BY <2>11 DEF ReadBuffer
  <2>12. CASE CloseDescriptor
    BY <2>12, NxtInIdx DEF CloseDescriptor
  <2>13. CASE UNCHANGED vars
    BY <2>13 DEF vars
  <2> QED
    BY <2>1, <2>2, <2>3, <2>4, <2>5, <2>6, <2>7, <2>8, <2>9, <2>10, <2>11,
       <2>12, <2>13 DEF Next, Call, InCall, Dma
<1> QED
  BY <1>1, <1>2, PTL DEF Spec

(***************************************************************************)
(* The inductive invariant.                                                *)
(***************************************************************************)

LEMMA InitInv == Init => IInv
<1> SUFFICES ASSUME Init PROVE IInv
  OBVIOUS
<1> USE RingAssumption DEF Init
<1>1. TypeOK
  BY InitType
<1>2. RingWindow
  BY DEF RingWindow, InWindow, Idx
<1>3. WakeInv
  BY DEF WakeInv, SendsOwn, SuspendedShowsTbus, TbusMeansSuspended, LateHandOver
<1>4. DataInv
  BY DEF DataInv, PacketsQueued, DamageOnlyToOldest
<1> QED
  BY <1>1, <1>2, <1>3, <1>4 DEF IInv

\* The pointers of the sender and of the DMA keep agreeing on the window.
LEMMA WindowStep ==
    ASSUME TypeOK, RingWindow, SendsOwn, [Next]_vars
    PROVE  RingWindow'
<1> USE DEF ring, sender
<1>1. CASE HandOver
  BY <1>1, HandOverStep DEF HandOver
<1>2. CASE CloseDescriptor
  BY <1>2, CloseStep DEF CloseDescriptor, SendsOwn
<1>3. ASSUME UNCHANGED <<own, cur, set>> PROVE RingWindow'
  BY <1>3, WindowKept
<1>4. CASE Call \/ CopyToBuffer \/ TxPktRefused \/ ReadTbus \/ ClearTbus \/ Resume
  BY <1>3, <1>4
     DEF Call, Output, CopyToBuffer, TxPktRefused, ReadTbus, ClearTbus, Resume
<1>5. CASE FetchOwned \/ FetchNotOwned \/ Suspend \/ ReadBuffer
  BY <1>3, <1>5 DEF FetchOwned, FetchNotOwned, Suspend, ReadBuffer
<1> QED
  BY <1>1, <1>2, <1>3, <1>4, <1>5 DEF Next, InCall, Dma, vars

\* A suspended DMA is seen by the next packet that is handed over.
LEMMA WakeStep ==
    ASSUME TypeOK, RingWindow, WakeInv, [Next]_vars
    PROVE  WakeInv'
<1> USE DEF WakeInv, SendsOwn, SuspendedShowsTbus, TbusMeansSuspended,
            LateHandOver, ring, sender
<1>0. Pending \in 0 .. N
  BY PendingInRange
<1>1. ASSUME NEW packet \in Packets, Output(packet) PROVE WakeInv'
  <2>1. UNCHANGED <<own, cur, set, dma, tbus>> /\ pc = "idle" /\ pc' = "copy"
        /\ dma # "unavailable"
    BY <1>1 DEF Output
  <2>2. Pending' = Pending
    BY <2>1, WindowKept
  <2> QED
    BY <2>1, <2>2
<1>2. CASE CopyToBuffer \/ TxPktRefused
  <2>1. UNCHANGED <<own, cur, set, dma, tbus>> /\ pc \in {"copy", "txPkt"}
        /\ pc' \in {"idle", "txPkt"}
    BY <1>2 DEF CopyToBuffer, TxPktRefused
  <2>2. Pending' = Pending
    BY <2>1, WindowKept
  <2> QED
    BY <1>0, <2>1, <2>2
<1>3. CASE HandOver
  <2>1. Pending' = Pending + 1
    BY <1>3, HandOverStep DEF HandOver
  <2>2. pc = "txPkt" /\ pc' = "readTbus" /\ UNCHANGED <<cur, dma, tbus>>
    BY <1>3 DEF HandOver
  <2>3. dma = "unavailable" => Pending = 0
    BY <2>2
  <2>4. own[cur] => own'[cur]
    BY <1>3 DEF HandOver, TypeOK
  <2> QED
    BY <1>0, <2>1, <2>2, <2>3, <2>4
<1>4. CASE ReadTbus
  BY <1>4, WindowKept DEF ReadTbus
<1>5. CASE ClearTbus
  BY <1>5, WindowKept DEF ClearTbus
<1>6. CASE Resume
  BY <1>6, WindowKept DEF Resume
<1>7. CASE FetchOwned
  BY <1>7, WindowKept DEF FetchOwned
<1>8. CASE FetchNotOwned
  <2>1. Pending' = 0 /\ UNCHANGED <<own, cur, pc>> /\ dma = "fetch"
    BY <1>8, WindowKept, PendingEnds DEF FetchNotOwned
  <2>2. \/ dma' = "unavailable" /\ tbus' = tbus
        \/ dma' = "suspended" /\ tbus'
    BY <1>8 DEF FetchNotOwned
  <2> QED
    BY <2>1, <2>2
<1>9. CASE Suspend
  BY <1>9, WindowKept DEF Suspend
<1>10. CASE ReadBuffer
  BY <1>10, WindowKept DEF ReadBuffer
<1>11. CASE CloseDescriptor
  BY <1>11 DEF CloseDescriptor
<1>12. CASE UNCHANGED vars
  BY <1>12, WindowKept DEF vars
<1> QED
  BY <1>1, <1>2, <1>3, <1>4, <1>5, <1>6, <1>7, <1>8, <1>9, <1>10, <1>11, <1>12
     DEF Next, Call, InCall, Dma

\* low_level_output overwrites no queued packet but the oldest.
LEMMA DataStep ==
    ASSUME TypeOK, RingWindow, DataInv, [Next]_vars
    PROVE  DataInv'
<1> USE DEF DataInv, PacketsQueued, DamageOnlyToOldest, ring, sender, TypeOK
<1>1. ASSUME NEW packet \in Packets, Output(packet) PROVE DataInv'
  BY <1>1 DEF Output
<1>2. CASE CopyToBuffer
  BY <1>2, PendingEnds DEF CopyToBuffer
<1>3. CASE HandOver
  BY <1>3 DEF HandOver
<1>4. CASE CloseDescriptor
  BY <1>4 DEF CloseDescriptor
<1>5. ASSUME UNCHANGED <<own, buf, queued, cur, set>>, pc' \notin {"copy", "txPkt"}
      PROVE  DataInv'
  BY <1>5
<1>6. ASSUME UNCHANGED <<own, buf, queued, cur, set, pc, p>> PROVE DataInv'
  BY <1>6
<1>7. CASE TxPktRefused \/ ReadTbus \/ ClearTbus \/ Resume
  BY <1>5, <1>7 DEF TxPktRefused, ReadTbus, ClearTbus, Resume
<1>8. CASE FetchOwned \/ FetchNotOwned \/ Suspend \/ ReadBuffer
  BY <1>6, <1>8 DEF FetchOwned, FetchNotOwned, Suspend, ReadBuffer
<1> QED
  BY <1>1, <1>2, <1>3, <1>4, <1>6, <1>7, <1>8
     DEF Next, Call, InCall, Dma, vars

\* The inductive invariant holds in every reachable state.
THEOREM Inductive == Spec => []IInv
<1>1. TypeOK /\ TypeOK' /\ IInv /\ [Next]_vars => IInv'
  BY WindowStep, WakeStep, DataStep DEF IInv, WakeInv
<1> QED
  BY <1>1, InitInv, TypeCorrect, PTL DEF Spec

\* The sender's pointer and the DMA's agree on what is to be sent.
THEOREM WindowCorrect == Spec => []RingWindow
<1>1. IInv => RingWindow
  BY DEF IInv
<1> QED
  BY <1>1, Inductive, PTL

\* A suspended DMA always shows TBUS to the next packet that is handed over.
THEOREM TbusCorrect == Spec => []SuspendedShowsTbus
<1>1. IInv => SuspendedShowsTbus
  BY DEF IInv, WakeInv
<1> QED
  BY <1>1, Inductive, PTL

\* A suspended DMA has left at most one packet behind.
THEOREM LeavesOneCorrect == Spec => []SuspendedLeavesOne
<1>1. IInv => SuspendedLeavesOne
  BY DEF IInv, WakeInv, LateHandOver, SuspendedLeavesOne
<1> QED
  BY <1>1, Inductive, PTL

\* low_level_output can damage only the oldest queued packet.
THEOREM DamageCorrect == Spec => []DamageOnlyToOldest
<1>1. IInv => DamageOnlyToOldest
  BY DEF IInv, DataInv
<1> QED
  BY <1>1, Inductive, PTL

(***************************************************************************)
(* The ring implements TxQueue.                                            *)
(***************************************************************************)

\* The pending descriptors are the DMA's.
LEMMA PendingAtOwned ==
    ASSUME TypeOK, RingWindow, NEW k \in 1 .. Pending
    PROVE  PendingAt(k) \in Idx /\ own[PendingAt(k)]
  BY RingAssumption DEF TypeOK, RingWindow, InWindow, Pending, PendingAt, Idx

\* The pending packets form a sequence as long as there are pending descriptors.
LEMMA QueueType ==
    TypeOK /\ RingWindow /\ PacketsQueued =>
        PendingPackets \in Seq(Packets) /\ Len(PendingPackets) = Pending
<1> SUFFICES ASSUME TypeOK, RingWindow, PacketsQueued
             PROVE  /\ PendingPackets \in Seq(Packets)
                    /\ Len(PendingPackets) = Pending
  OBVIOUS
<1>1. Pending \in Nat
  BY PendingInRange, RingAssumption
<1>2. \A k \in 1 .. Pending : PendingPackets[k] \in Packets
  BY PendingAtOwned DEF PendingPackets, PacketsQueued
<1>3. PendingPackets \in [1 .. Pending -> Packets]
  BY <1>2 DEF PendingPackets
<1> QED
  BY <1>1, <1>3

\* The pending packets stay when the window and its buffers do.
LEMMA QueueKept ==
    ASSUME TypeOK, RingWindow, UNCHANGED <<own, cur, set>>,
           \A i \in Idx : own[i] => buf'[i] = buf[i]
    PROVE  PendingPackets' = PendingPackets
<1>1. Pending' = Pending /\ \A k \in 1 .. Pending : PendingAt(k)' = PendingAt(k)
  BY WindowKept DEF PendingAt
<1>2. \A k \in 1 .. Pending : buf'[PendingAt(k)] = buf[PendingAt(k)]
  BY PendingAtOwned
<1> QED
  BY <1>1, <1>2 DEF PendingPackets

\* There is room in the queue exactly when the sender owns its descriptor.
LEMMA RoomIsOwned == IInv => (TxQ!Room <=> ~own[set])
  BY QueueType, PendingEnds DEF IInv, DataInv, TxQ!Room

\* low_level_output copies into a buffer that does not wait to be sent, or into
\* that of the oldest packet when all descriptors wait.
LEMMA CopyReplaces ==
    ASSUME IInv, IInv', CopyToBuffer
    PROVE  TxQ!Replace \/ UNCHANGED TxQ!vars
<1> USE RingAssumption DEF IInv
<1>1. UNCHANGED <<own, cur, set, dma, wire, p>> /\ pc = "copy" /\ pc' = "txPkt"
      /\ buf' = [buf EXCEPT ![set] = p]
  BY DEF CopyToBuffer, ring
<1>2. InHand = <<p>> /\ InHand' = <<p>> /\ OnWire' = OnWire
  BY <1>1 DEF InHand, OnWire
<1>3. CASE ~own[set]
  <2>1. PendingPackets' = PendingPackets
    BY <1>1, <1>3, QueueKept DEF TypeOK
  <2> QED
    BY <1>2, <2>1 DEF TxQ!vars
<1>4. CASE own[set]
  <2>1. set = cur /\ Pending = N /\ Pending' = Pending
    BY <1>1, <1>4, PendingEnds, PendingInRange, WindowKept
  <2>2. PendingPackets \in Seq(Packets) /\ Len(PendingPackets) = N
    BY <2>1, QueueType DEF DataInv
  <2>3. (TypeOK /\ RingWindow /\ PacketsQueued =>
            PendingPackets \in Seq(Packets) /\ Len(PendingPackets) = Pending)'
    BY QueueType, PTL
  <2>4. PendingPackets' \in Seq(Packets) /\ Len(PendingPackets') = N
    BY <2>1, <2>3 DEF DataInv
  <2>5. PendingPackets'[1] = p
    BY <1>1, <2>1 DEF PendingPackets, PendingAt, TypeOK, Idx
  <2>6. ASSUME NEW k \in 2 .. N PROVE PendingPackets'[k] = PendingPackets[k]
    <3>1. PendingAt(k)' = PendingAt(k) /\ PendingAt(k) # set
      BY <1>1, <2>1 DEF PendingAt, TypeOK, Idx
    <3> QED
      BY <1>1, <2>1, <3>1 DEF PendingPackets, TypeOK
  <2>7. p \in Packets
    BY <1>1 DEF DataInv, PacketsQueued
  <2>8. PendingPackets' = <<p>> \o Tail(PendingPackets)
    BY <2>2, <2>4, <2>5, <2>6, <2>7
  <2> QED
    BY <1>2, <1>4, <2>8, RoomIsOwned DEF TxQ!Replace, IInv
<1> QED
  BY <1>3, <1>4

\* ETH_TxPkt_ChainMode appends its packet.
LEMMA HandOverSends ==
    ASSUME IInv, IInv', HandOver PROVE TxQ!Send
<1> USE RingAssumption DEF IInv
<1>1. ~own[set] /\ pc = "txPkt" /\ pc' = "readTbus"
      /\ UNCHANGED <<cur, buf, dma, wire>>
  BY DEF HandOver
<1>2. Pending \in Nat /\ Pending < N /\ Pending' = Pending + 1
  BY PendingInRange, PendingEnds, HandOverStep DEF HandOver
<1>3. PendingAt(Pending + 1) = set
  BY <1>1, <1>2 DEF PendingAt, Pending, TypeOK, Idx
<1>4. ASSUME NEW k \in 1 .. Pending + 1 PROVE PendingAt(k)' = PendingAt(k)
  BY <1>1 DEF PendingAt
<1>5. ASSUME NEW k \in 1 .. Pending PROVE PendingPackets'[k] = PendingPackets[k]
  BY <1>1, <1>2, <1>4 DEF PendingPackets
<1>6. PendingPackets'[Pending + 1] = p
  BY <1>1, <1>2, <1>3, <1>4 DEF PendingPackets, DataInv, PacketsQueued
<1>7. PendingPackets' = PendingPackets \o <<p>>
  <2>1. (TypeOK /\ RingWindow /\ PacketsQueued =>
            PendingPackets \in Seq(Packets) /\ Len(PendingPackets) = Pending)'
    BY QueueType, PTL
  <2>2. PendingPackets' \in Seq(Packets) /\ Len(PendingPackets') = Pending + 1
    BY <1>2, <2>1 DEF DataInv
  <2>3. PendingPackets \in Seq(Packets) /\ Len(PendingPackets) = Pending
    BY QueueType DEF DataInv
  <2>4. p \in Packets
    BY <1>1 DEF DataInv, PacketsQueued
  <2> QED
    BY <1>2, <1>5, <1>6, <2>2, <2>3, <2>4
<1>8. InHand = <<p>> /\ InHand' = << >> /\ OnWire' = OnWire
  BY <1>1 DEF InHand, OnWire
<1> QED
  BY <1>1, <1>7, <1>8, RoomIsOwned DEF TxQ!Send, IInv

\* A packet that is refused finds no room.
LEMMA RefusedLoses ==
    ASSUME IInv, TxPktRefused PROVE TxQ!Lose
<1>1. own[set] /\ pc = "txPkt" /\ pc' = "idle"
      /\ UNCHANGED <<own, cur, set, buf, dma, wire>>
  BY DEF TxPktRefused, ring
<1>2. PendingPackets' = PendingPackets
  BY <1>1, QueueKept DEF IInv
<1>3. InHand = <<p>> /\ InHand' = << >> /\ OnWire' = OnWire
  BY <1>1 DEF InHand, OnWire
<1> QED
  BY <1>1, <1>2, <1>3, RoomIsOwned DEF TxQ!Lose

\* The DMA reads the first packet as it is in its buffer.
LEMMA ReadBegins ==
    ASSUME IInv, ReadBuffer PROVE TxQ!Begin
<1> USE RingAssumption DEF IInv
<1>1. dma = "read" /\ dma' = "sent" /\ wire' = buf[cur] /\ own[cur]
      /\ UNCHANGED <<own, cur, set, buf, pc, p>>
  BY DEF ReadBuffer, ring, sender, WakeInv, SendsOwn
<1>2. PendingPackets' = PendingPackets
  BY <1>1, QueueKept
<1>3. Pending \in Nat /\ Pending # 0
  BY <1>1, PendingInRange, PendingEnds
<1>4. PendingPackets \in Seq(Packets) /\ Len(PendingPackets) = Pending
  BY QueueType DEF DataInv
<1>5. PendingPackets[1] = buf[cur]
  BY <1>3 DEF PendingPackets, PendingAt, TypeOK, Idx
<1>6. PendingPackets # << >> /\ Head(PendingPackets) = buf[cur]
  BY <1>3, <1>4, <1>5
<1>7. OnWire = << >> /\ OnWire' = <<buf[cur]>> /\ InHand' = InHand
  BY <1>1 DEF InHand, OnWire
<1> QED
  BY <1>2, <1>6, <1>7 DEF TxQ!Begin

\* The first packet leaves the queue when it is on the wire.
LEMMA CloseSent ==
    ASSUME IInv, IInv', CloseDescriptor PROVE TxQ!Sent
<1> USE RingAssumption DEF IInv
<1>1. own[cur] /\ cur' = Nxt(cur) /\ dma = "sent" /\ dma' = "fetch"
      /\ UNCHANGED <<set, buf, pc, p>>
  BY DEF CloseDescriptor, WakeInv, SendsOwn, sender
<1>2. Pending \in Nat /\ Pending # 0 /\ Pending' = Pending - 1
  BY <1>1, PendingInRange, PendingEnds, CloseStep DEF CloseDescriptor
<1>3. ASSUME NEW k \in 1 .. Pending - 1
      PROVE  PendingPackets'[k] = PendingPackets[k + 1]
  <2>1. PendingAt(k)' = PendingAt(k + 1)
    BY <1>1, <1>2, PendingInRange DEF PendingAt, Nxt, TypeOK, Idx
  <2> QED
    BY <1>1, <1>2, <2>1 DEF PendingPackets
<1>4. (TypeOK /\ RingWindow /\ PacketsQueued =>
          PendingPackets \in Seq(Packets) /\ Len(PendingPackets) = Pending)'
  BY QueueType, PTL
<1>5. PendingPackets' \in Seq(Packets) /\ Len(PendingPackets') = Pending - 1
  BY <1>2, <1>4 DEF DataInv
<1>6. PendingPackets \in Seq(Packets) /\ Len(PendingPackets) = Pending
  BY QueueType DEF DataInv
<1>7. PendingPackets' = Tail(PendingPackets)
  BY <1>2, <1>3, <1>5, <1>6
<1>8. OnWire # << >> /\ OnWire' = << >> /\ InHand' = InHand
  BY <1>1 DEF OnWire, InHand
<1> QED
  BY <1>7, <1>8 DEF TxQ!Sent

\* A call begins with its packet.
LEMMA OutputCalls ==
    ASSUME IInv, NEW packet \in Packets, Output(packet) PROVE TxQ!Call(packet)
<1>1. pc = "idle" /\ pc' = "copy" /\ p' = packet
      /\ UNCHANGED <<own, cur, set, buf, dma, wire>>
  BY DEF Output, ring
<1>2. PendingPackets' = PendingPackets
  BY <1>1, QueueKept DEF IInv
<1>3. InHand = << >> /\ InHand' = <<packet>> /\ OnWire' = OnWire
  BY <1>1 DEF InHand, OnWire
<1> QED
  BY <1>2, <1>3 DEF TxQ!Call

\* The transmit ring implements TxQueue with the contents of its buffers: packets
\* leave in order, a packet is lost or damaged only when the ring is full, and the
\* one damaged is the oldest, for every number of descriptors.
THEOREM QueueCorrect == Spec => RingIsQueue
<1>1. Init => TxQ!Init
  <2> SUFFICES ASSUME Init PROVE TxQ!Init
    OBVIOUS
  <2>1. IInv /\ Pending = 0
    BY InitInv, RingAssumption DEF Init, Pending, Idx
  <2>2. PendingPackets \in Seq(Packets) /\ Len(PendingPackets) = 0
    BY <2>1, QueueType DEF IInv, DataInv
  <2>3. OnWire = << >> /\ InHand = << >>
    BY DEF Init, OnWire, InHand
  <2> QED
    BY <2>2, <2>3 DEF TxQ!Init
<1>2. IInv /\ IInv' /\ [Next]_vars => [TxQ!Next]_(TxQ!vars)
  <2> SUFFICES ASSUME IInv, IInv', [Next]_vars
               PROVE  TxQ!Next \/ UNCHANGED TxQ!vars
    OBVIOUS
  <2>1. ASSUME NEW packet \in Packets, Output(packet) PROVE TxQ!Next
    BY <2>1, OutputCalls DEF TxQ!Next
  <2>2. CASE CopyToBuffer
    BY <2>2, CopyReplaces DEF TxQ!Next
  <2>3. CASE TxPktRefused
    BY <2>3, RefusedLoses DEF TxQ!Next
  <2>4. CASE HandOver
    BY <2>4, HandOverSends DEF TxQ!Next
  <2>5. CASE ReadBuffer
    BY <2>5, ReadBegins DEF TxQ!Next
  <2>6. CASE CloseDescriptor
    BY <2>6, CloseSent DEF TxQ!Next
  <2>7. ASSUME UNCHANGED <<ring, buf>>, OnWire' = OnWire, InHand' = InHand
        PROVE  UNCHANGED TxQ!vars
    <3>1. PendingPackets' = PendingPackets
      BY <2>7, QueueKept DEF IInv, ring
    <3> QED
      BY <2>7, <3>1 DEF TxQ!vars
  <2>8. CASE ReadTbus \/ ClearTbus \/ Resume
    BY <2>7, <2>8 DEF ReadTbus, ClearTbus, Resume, OnWire, InHand
  <2>9. CASE FetchOwned \/ FetchNotOwned \/ Suspend
    BY <2>7, <2>9 DEF FetchOwned, FetchNotOwned, Suspend, OnWire, InHand, sender
  <2>10. CASE UNCHANGED vars
    BY <2>7, <2>10 DEF vars, ring, OnWire, InHand
  <2> QED
    BY <2>1, <2>2, <2>3, <2>4, <2>5, <2>6, <2>8, <2>9, <2>10
       DEF Next, Call, InCall, Dma
<1> QED
  BY <1>1, <1>2, Inductive, PTL DEF Spec, RingIsQueue, TxQ!Spec
=============================================================================
