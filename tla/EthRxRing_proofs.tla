--------------------------- MODULE EthRxRing_proofs ---------------------------
(***************************************************************************)
(* Safety of the receive path for every number of descriptors, every size  *)
(* of the pbuf pool and of the mailbox, and both behaviours of the         *)
(* hardware that EthRxRing leaves open.                                    *)
(***************************************************************************)
EXTENDS EthRxRing, SequenceTheorems, TLAPS

One(b) == IF b THEN 1 ELSE 0

(***************************************************************************)
(* The strengthening of the safety invariants that every step preserves.   *)
(***************************************************************************)

\* The DMA writes only into the buffer of a descriptor that it owns, never into
\* a frame that ETH_RxPkt_ChainMode has yet to take.
DmaWritesOwnBuffer ==
    dma \in {"good", "error", "giant", "rest"} => Own(cur)

\* Every R that is pending, and every call of ETH_RxPkt_ChainMode that is about
\* to look, has a closed descriptor of its own.
SignalsCovered == Waiting >= One(r) + One(irq = "rxPkt")

\* Nobody but the handler clears R, so that it is still set when it is cleared.
ClearedIsSet == irq = "clearR" => r

\* Frames of a full ring are never all unannounced: R is set, or the handler is
\* about to take one.  Whether R also raises the interrupt line is not said here.
FullIsNoticed == Waiting = N => r \/ irq = "rxPkt"

\* Between ETH_RxPkt_ChainMode and memcpy the frame is in the descriptor just
\* behind DMARxDescToGet.
TakenBehindGet ==
    irq \in {"alloc", "copy"} /\ frame.len = "full" =>
        /\ Nxt(frame.buffer) = get
        /\ Waiting < N - 1 => buf[frame.buffer] = frame.want

\* Only a frame with a length is copied.
CopyHasLength == irq = "copy" => frame.len = "full"

\* The handler holds one pbuf between pbuf_alloc and tcpip_input, and no other
\* time.
HandlerHoldsPbuf == Len(pb) = One(irq \in {"copy", "input"})

RingInv ==
    RingWindow /\ DmaWritesOwnBuffer /\ SignalsCovered /\ ClearedIsSet
    /\ FullIsNoticed
FrameInv == TakenBehindGet /\ CopyHasLength
PbufInv == PbufsConserved /\ HandlerHoldsPbuf

IInv == TypeOK /\ RingInv /\ FrameInv /\ PbufInv

(***************************************************************************)
(* The ring's arithmetic.                                                  *)
(***************************************************************************)

\* Buffer2NextDescAddr stays in the table and has one predecessor.
LEMMA NxtInIdx ==
    ASSUME NEW i \in Idx
    PROVE  Nxt(i) \in Idx /\ Nxt(i) # i /\ \A j \in Idx : Nxt(j) = Nxt(i) => j = i
  BY RingAssumption DEF Nxt, Idx

\* The number of waiting descriptors is a number of descriptors.
LEMMA WaitingInRange ==
    ASSUME get \in Idx, cur \in Idx
    PROVE  Waiting \in 0 .. N
  BY RingAssumption DEF Waiting, Idx

\* A closed descriptor joins the window at its end.
LEMMA CloseStep ==
    ASSUME TypeOK, RingWindow, Own(cur), NEW s \in Closed,
           status' = [status EXCEPT ![cur] = s], cur' = Nxt(cur), get' = get
    PROVE  RingWindow' /\ Waiting' = Waiting + 1
<1> USE RingAssumption DEF TypeOK, Idx
<1>1. s # "own"
  BY DEF Closed
<1>2. \A i \in Idx : Own(i)' <=> i # cur /\ Own(i)
  BY <1>1 DEF Own
<1>3. RingWindow'
  BY <1>2 DEF RingWindow, InWindow, Nxt
<1>4. Waiting' = Waiting + 1
  BY <1>2 DEF RingWindow, InWindow, Waiting, Nxt
<1> QED
  BY <1>3, <1>4

\* A taken descriptor leaves the window at its start.
LEMMA TakeStep ==
    ASSUME TypeOK, RingWindow, ~Own(get),
           status' = [status EXCEPT ![get] = "own"], get' = Nxt(get), cur' = cur
    PROVE  RingWindow' /\ Waiting' = Waiting - 1
<1> USE RingAssumption DEF TypeOK, Idx
<1>1. \A i \in Idx : Own(i)' <=> i = get \/ Own(i)
  BY DEF Own
<1>2. RingWindow'
  BY <1>1 DEF RingWindow, InWindow, Nxt
<1>3. Waiting' = Waiting - 1
  BY <1>1 DEF RingWindow, InWindow, Waiting, Nxt
<1> QED
  BY <1>2, <1>3

\* Every other step leaves the window alone.
LEMMA WindowKept ==
    ASSUME status' = status, cur' = cur, get' = get
    PROVE  RingWindow' = RingWindow /\ Waiting' = Waiting
  BY DEF RingWindow, InWindow, Waiting, Own

\* A descriptor waits exactly when the one at DMARxDescToGet is closed.
LEMMA WaitingClosed ==
    ASSUME TypeOK, RingWindow
    PROVE  Waiting >= 1 <=> ~Own(get)
  BY RingAssumption DEF TypeOK, RingWindow, InWindow, Waiting, Idx

\* The ring is full exactly when the DMA's current descriptor is closed, and all
\* but full when that is the DMA's and the next one is not.
LEMMA WaitingFull ==
    ASSUME TypeOK, RingWindow
    PROVE  /\ Waiting = N <=> ~Own(cur)
           /\ Own(cur) => (Waiting = N - 1 <=> Nxt(cur) = get)
           /\ Own(cur) /\ Own(Nxt(cur)) => Waiting < N - 1
  BY RingAssumption DEF TypeOK, RingWindow, InWindow, Waiting, Idx, Nxt

\* The initial state has its types.
LEMMA InitType == Init => TypeOK
  BY RingAssumption, PoolAssumption
     DEF Init, TypeOK, Idx, Status, DmaStates, IrqStates, FrameTypeDef,
         NoneTaken

\* Every variable has its type in every reachable state.
THEOREM TypeCorrect == Spec => []TypeOK
<1>1. Init => TypeOK
  BY InitType
<1>2. TypeOK /\ [Next]_vars => TypeOK'
  <2> SUFFICES ASSUME TypeOK, [Next]_vars PROVE TypeOK'
    OBVIOUS
  <2> USE DEF TypeOK, bits, mac, ring, lwip
  <2>1. ASSUME NEW f \in Frames, NEW k \in Kinds, Arrive(f, k) PROVE TypeOK'
    BY <2>1 DEF Arrive, Kinds, DmaStates
  <2>2. CASE TransmitInterrupt
    BY <2>2 DEF TransmitInterrupt
  <2>3. CASE NoDescriptor
    BY <2>3 DEF NoDescriptor, DmaStates
  <2>4. CASE EndOfFrame
    BY <2>4, NxtInIdx DEF EndOfFrame, Close, Status, Closed, DmaStates
  <2>5. ASSUME NEW f \in Frames, FirstBufferFull(f) PROVE TypeOK'
    BY <2>5, NxtInIdx DEF FirstBufferFull, Close, Status, Closed, DmaStates
  <2>6. CASE Truncated
    BY <2>6, NxtInIdx DEF Truncated, Close, Status, Closed, DmaStates
  <2>7. CASE IrqEnter
    BY <2>7 DEF IrqEnter, IrqStates
  <2>8. CASE ReadR
    BY <2>8 DEF ReadR, IrqStates
  <2>9. CASE ClearR
    BY <2>9 DEF ClearR, IrqStates
  <2>10. CASE RxPkt
    <3>1. NoneTaken \in FrameTypeDef
      BY RingAssumption DEF NoneTaken, FrameTypeDef, Idx
    <3>2. CASE Own(get)
      BY <2>10, <3>1, <3>2 DEF RxPkt, OwnError, IrqStates, DmaStates
    <3>3. CASE ~Own(get)
      <4>1. frame' \in FrameTypeDef
        BY <2>10, <3>1, <3>3 DEF RxPkt, TakeDescriptor, FrameTypeDef
      <4> QED
        BY <2>10, <3>3, <4>1, NxtInIdx
           DEF RxPkt, TakeDescriptor, IrqStates, Status
    <3> QED
      BY <3>2, <3>3
  <2>11. CASE Alloc
    <3>1. frame.want \in Frames \union {NoFrame}
      BY DEF FrameTypeDef
    <3> QED
      BY <2>11, <3>1 DEF Alloc, Pbuf, IrqStates
  <2>12. CASE AllocFails
    BY <2>12, RingAssumption
       DEF AllocFails, NoneTaken, FrameTypeDef, Idx, IrqStates
  <2>13. CASE Copy
    <3>1. frame.buffer \in Idx
      BY DEF FrameTypeDef
    <3>2. buf[frame.buffer] \in Frames \union {NoFrame}
      BY <3>1
    <3>3. pb' \in Seq(Pbuf) /\ Len(pb') = 1
      BY <2>13, <3>2 DEF Copy, Pbuf, FrameTypeDef
    <3> QED
      BY <2>13, <3>3 DEF Copy, IrqStates
  <2>14. CASE Input
    <3>1. mbox' \in Seq(Pbuf)
      BY <2>14, ConcatProperties DEF Input
    <3> QED
      BY <2>14, <3>1, RingAssumption
         DEF Input, NoneTaken, FrameTypeDef, Idx, IrqStates
  <2>15. CASE InputFails
    BY <2>15, RingAssumption
       DEF InputFails, NoneTaken, FrameTypeDef, Idx, IrqStates
  <2>16. CASE ReadAndClearT
    BY <2>16 DEF ReadAndClearT, IrqStates
  <2>17. CASE ClearNis
    BY <2>17 DEF ClearNis, IrqStates
  <2>18. CASE Fetch
    BY <2>18 DEF Fetch
  <2>19. CASE Free
    BY <2>19 DEF Free
  <2>20. CASE UNCHANGED vars
    BY <2>20 DEF vars
  <2> QED
    BY <2>1, <2>2, <2>3, <2>4, <2>5, <2>6, <2>7, <2>8, <2>9, <2>10, <2>11,
       <2>12, <2>13, <2>14, <2>15, <2>16, <2>17, <2>18, <2>19, <2>20
       DEF Next, Dma, Irq, Thread
<1> QED
  BY <1>1, <1>2, PTL DEF Spec

(***************************************************************************)
(* The inductive invariant.                                                *)
(***************************************************************************)

LEMMA InitInv == Init => IInv
<1> SUFFICES ASSUME Init PROVE IInv
  OBVIOUS
<1> USE RingAssumption, PoolAssumption DEF Init
<1>1. TypeOK
  BY InitType
<1>2. Waiting = 0 /\ RingWindow
  BY DEF Waiting, RingWindow, InWindow, Own, Idx
<1>3. RingInv
  BY <1>2 DEF RingInv, DmaWritesOwnBuffer, SignalsCovered, ClearedIsSet,
                FullIsNoticed, One
<1>4. FrameInv /\ PbufInv
  BY DEF FrameInv, TakenBehindGet, CopyHasLength, PbufInv, PbufsConserved,
         HandlerHoldsPbuf, One
<1> QED
  BY <1>1, <1>3, <1>4 DEF IInv

\* No step breaks the window, the DMA's ownership of its buffer, or the link
\* between waiting descriptors and the interrupts that announce them.
LEMMA RingStep ==
    ASSUME TypeOK, TypeOK', RingInv, [Next]_vars
    PROVE  RingInv'
<1> USE DEF RingInv, ClearedIsSet, bits, mac, ring, lwip
<1>0. Waiting \in 0 .. N
  BY WaitingInRange DEF TypeOK
<1>1. ASSUME NEW f \in Frames, NEW k \in Kinds, Arrive(f, k) PROVE RingInv'
  <2>1. UNCHANGED <<status, cur, get, r, irq>>
    BY <1>1 DEF Arrive
  <2>2. RingWindow' /\ SignalsCovered' /\ ClearedIsSet' /\ FullIsNoticed'
    BY <2>1, WindowKept DEF SignalsCovered, FullIsNoticed, One
  <2>3. DmaWritesOwnBuffer'
    BY <1>1, <2>1 DEF Arrive, DmaWritesOwnBuffer, Own
  <2> QED
    BY <2>2, <2>3
<1>2. CASE NoDescriptor
  <2>1. UNCHANGED <<status, cur, get, r, irq>>
    BY <1>2 DEF NoDescriptor
  <2>2. RingWindow' /\ SignalsCovered' /\ ClearedIsSet' /\ FullIsNoticed'
    BY <2>1, WindowKept DEF SignalsCovered, FullIsNoticed, One
  <2>3. DmaWritesOwnBuffer'
    BY <1>2 DEF NoDescriptor, DmaWritesOwnBuffer
  <2> QED
    BY <2>2, <2>3
<1>3. CASE EndOfFrame
  <2>1. Own(cur)
    BY <1>3 DEF EndOfFrame, DmaWritesOwnBuffer
  <2>2. RingWindow' /\ Waiting' = Waiting + 1
    BY <1>3, <2>1, CloseStep DEF EndOfFrame, Close, Closed
  <2>3. r' /\ irq' = irq /\ dma' = "wait"
    BY <1>3 DEF EndOfFrame, Close
  <2>4. SignalsCovered' /\ ClearedIsSet' /\ FullIsNoticed' /\ DmaWritesOwnBuffer'
    BY <1>0, <2>2, <2>3
       DEF SignalsCovered, FullIsNoticed, DmaWritesOwnBuffer, One
  <2> QED
    BY <2>2, <2>4
<1>4. ASSUME NEW f \in Frames, FirstBufferFull(f) PROVE RingInv'
  <2>1. Own(cur) /\ Own(Nxt(cur))
    BY <1>4 DEF FirstBufferFull, DmaWritesOwnBuffer
  <2>2. RingWindow' /\ Waiting' = Waiting + 1 /\ Waiting' < N
    BY <1>0, <1>4, <2>1, CloseStep, WaitingFull, RingAssumption
       DEF FirstBufferFull, Close, Closed
  <2>3. UNCHANGED <<r, irq>>
    BY <1>4 DEF FirstBufferFull, Close
  <2>4. SignalsCovered' /\ ClearedIsSet' /\ FullIsNoticed'
    BY <1>0, <2>2, <2>3, RingAssumption DEF SignalsCovered, FullIsNoticed, One
  <2>5. Own(cur)'
    BY <1>4, <2>1, NxtInIdx DEF FirstBufferFull, Close, Own, TypeOK
  <2> QED
    BY <2>2, <2>4, <2>5 DEF DmaWritesOwnBuffer
<1>5. CASE Truncated
  <2>1. Own(cur)
    BY <1>5 DEF Truncated, DmaWritesOwnBuffer
  <2>2. RingWindow' /\ Waiting' = Waiting + 1
    BY <1>5, <2>1, CloseStep DEF Truncated, Close, Closed
  <2>3. r' /\ irq' = irq /\ dma' = "suspended"
    BY <1>5 DEF Truncated, Close
  <2>4. SignalsCovered' /\ ClearedIsSet' /\ FullIsNoticed' /\ DmaWritesOwnBuffer'
    BY <1>0, <2>2, <2>3
       DEF SignalsCovered, FullIsNoticed, DmaWritesOwnBuffer, One
  <2> QED
    BY <2>2, <2>4
<1>6. CASE ClearR
  <2>1. UNCHANGED <<status, cur, get, dma>> /\ r /\ ~r' /\ irq' = "rxPkt"
    BY <1>6 DEF ClearR
  <2>2. Waiting >= 1
    BY <1>0, <1>6, <2>1 DEF SignalsCovered, One, ClearR
  <2> QED
    BY <2>1, <2>2, WindowKept
       DEF SignalsCovered, FullIsNoticed, DmaWritesOwnBuffer, One, Own
<1>7. CASE RxPkt
  <2>1. ~Own(get)
    BY <1>0, <1>7, WaitingClosed DEF RxPkt, SignalsCovered, One, TypeOK
  <2>2. RingWindow' /\ Waiting' = Waiting - 1
    BY <1>7, <2>1, TakeStep DEF RxPkt, TakeDescriptor
  <2>3. irq = "rxPkt" /\ irq' = "alloc" /\ UNCHANGED <<r, dma, cur>>
    BY <1>7, <2>1 DEF RxPkt, TakeDescriptor
  <2>4. SignalsCovered' /\ ClearedIsSet' /\ FullIsNoticed'
    BY <1>0, <2>2, <2>3, RingAssumption DEF SignalsCovered, FullIsNoticed, One, TypeOK
  <2>5. Own(cur) => Own(cur)'
    BY <1>7, <2>1 DEF RxPkt, TakeDescriptor, Own, TypeOK
  <2> QED
    BY <2>2, <2>3, <2>4, <2>5 DEF DmaWritesOwnBuffer
<1>8. ASSUME UNCHANGED <<status, cur, get, r, dma>>,
             irq' # "rxPkt", irq # "rxPkt", irq' = "clearR" => r
      PROVE  RingInv'
  BY <1>8, WindowKept
     DEF SignalsCovered, FullIsNoticed, DmaWritesOwnBuffer, One, Own
<1>9. CASE UNCHANGED vars
  BY <1>9, WindowKept
     DEF SignalsCovered, FullIsNoticed, DmaWritesOwnBuffer, One, Own, vars
<1> QED
  <2>1. CASE TransmitInterrupt
    BY <2>1, WindowKept
       DEF SignalsCovered, FullIsNoticed, DmaWritesOwnBuffer, One, Own,
           TransmitInterrupt
  <2>2. CASE IrqEnter \/ ReadR
    BY <1>8, <2>2 DEF IrqEnter, ReadR
  <2>3. CASE Alloc \/ AllocFails \/ Copy
    BY <1>8, <2>3 DEF Alloc, AllocFails, Copy
  <2>4. CASE Input \/ InputFails
    BY <1>8, <2>4 DEF Input, InputFails
  <2>5. CASE ReadAndClearT \/ ClearNis
    BY <1>8, <2>5 DEF ReadAndClearT, ClearNis
  <2>6. CASE Fetch \/ Free
    BY <1>8, <2>6 DEF Fetch, Free
  <2> QED
    BY <1>1, <1>2, <1>3, <1>4, <1>5, <1>6, <1>7, <1>9,
       <2>1, <2>2, <2>3, <2>4, <2>5, <2>6
       DEF Next, Dma, Irq, Thread

\* From ETH_RxPkt_ChainMode to memcpy the frame keeps its content, unless the
\* DMA comes round to its buffer.
LEMMA FrameStep ==
    ASSUME TypeOK, RingInv, FrameInv, [Next]_vars
    PROVE  FrameInv'
<1> USE DEF FrameInv, CopyHasLength, bits, mac, ring, lwip
<1>0. frame.buffer \in Idx /\ Waiting \in 0 .. N
  BY WaitingInRange DEF TypeOK, FrameTypeDef
<1>1. ASSUME NEW f \in Frames, NEW k \in Kinds, Arrive(f, k) PROVE FrameInv'
  <2>1. UNCHANGED <<status, cur, get, irq, frame>> /\ Own(cur)
        /\ buf' = [buf EXCEPT ![cur] = f]
    BY <1>1 DEF Arrive
  <2>2. cur = frame.buffer /\ Nxt(frame.buffer) = get => Waiting >= N - 1
    BY <2>1, WaitingFull, RingAssumption DEF RingInv
  <2> QED
    BY <1>0, <2>1, <2>2, WindowKept, RingAssumption DEF TakenBehindGet, TypeOK
<1>2. ASSUME UNCHANGED <<buf, get, irq, frame>>, Waiting' = Waiting + 1
      PROVE  FrameInv'
  BY <1>0, <1>2, RingAssumption DEF TakenBehindGet
<1>3. ASSUME UNCHANGED <<buf, get, irq, frame, cur, status>>
      PROVE  FrameInv'
  BY <1>3, WindowKept DEF TakenBehindGet
<1>4. CASE EndOfFrame \/ Truncated
  <2>1. Own(cur)
    BY <1>4 DEF EndOfFrame, Truncated, RingInv, DmaWritesOwnBuffer
  <2>2. Waiting' = Waiting + 1 /\ UNCHANGED <<buf, get, irq, frame>>
    BY <1>4, <2>1, CloseStep DEF EndOfFrame, Truncated, Close, Closed, RingInv
  <2> QED
    BY <1>0, <1>2, <2>2
<1>5. ASSUME NEW f \in Frames, FirstBufferFull(f) PROVE FrameInv'
  <2>1. Own(cur) /\ Own(Nxt(cur))
    BY <1>5 DEF FirstBufferFull, RingInv, DmaWritesOwnBuffer
  <2>2. RingWindow' /\ Waiting' = Waiting + 1
    BY <1>5, <2>1, CloseStep DEF FirstBufferFull, Close, Closed, RingInv
  <2>3. UNCHANGED <<get, irq, frame>> /\ buf' = [buf EXCEPT ![Nxt(cur)] = f]
        /\ cur' = Nxt(cur)
    BY <1>5 DEF FirstBufferFull, Close
  <2>4. Nxt(cur) = frame.buffer /\ Nxt(frame.buffer) = get
          => Waiting + 1 >= N - 1
    BY <1>0, <2>1, RingAssumption
       DEF RingInv, RingWindow, InWindow, Waiting, TypeOK, Nxt, Idx
  <2> QED
    BY <1>0, <2>2, <2>3, <2>4, NxtInIdx, RingAssumption DEF TakenBehindGet, TypeOK
<1>6. CASE RxPkt
  <2>1. ~Own(get)
    BY <1>0, <1>6, WaitingClosed DEF RxPkt, RingInv, SignalsCovered, One, TypeOK
  <2>2. frame'.len = "full" => frame'.buffer = get /\ frame'.want = buf[get]
    BY <1>6, <2>1 DEF RxPkt, TakeDescriptor, NoneTaken
  <2>3. get' = Nxt(get) /\ buf' = buf /\ irq' = "alloc"
    BY <1>6, <2>1 DEF RxPkt, TakeDescriptor
  <2> QED
    BY <2>2, <2>3 DEF TakenBehindGet
<1>7. CASE Alloc
  <2>1. UNCHANGED <<buf, get, frame, cur, status>> /\ irq = "alloc"
        /\ irq' \in {"copy", "input"} /\ (irq' = "copy" => frame.len = "full")
    BY <1>7 DEF Alloc
  <2> QED
    BY <2>1, WindowKept DEF TakenBehindGet
<1>8. ASSUME irq' \notin {"alloc", "copy"} PROVE FrameInv'
  BY <1>8 DEF TakenBehindGet
<1> QED
  <2>1. CASE TransmitInterrupt \/ NoDescriptor
    BY <1>3, <2>1 DEF TransmitInterrupt, NoDescriptor
  <2>2. CASE IrqEnter \/ ReadR \/ ClearR
    BY <1>8, <2>2 DEF IrqEnter, ReadR, ClearR
  <2>3. CASE AllocFails \/ Copy \/ Input \/ InputFails
    BY <1>8, <2>3 DEF AllocFails, Copy, Input, InputFails
  <2>4. CASE ReadAndClearT \/ ClearNis
    BY <1>8, <2>4 DEF ReadAndClearT, ClearNis
  <2>5. CASE Fetch \/ Free
    BY <1>3, <2>5 DEF Fetch, Free
  <2>6. CASE UNCHANGED vars
    BY <1>3, <2>6 DEF vars
  <2> QED
    BY <1>1, <1>4, <1>5, <1>6, <1>7, <2>1, <2>2, <2>3, <2>4, <2>5, <2>6
       DEF Next, Dma, Irq, Thread

\* Every step that moves a pbuf takes it from one place and puts it in another.
LEMMA PbufStep ==
    ASSUME TypeOK, PbufInv, [Next]_vars
    PROVE  PbufInv'
<1> USE DEF PbufInv, PbufsConserved, HandlerHoldsPbuf, One, TypeOK, lwip
<1>1. CASE Alloc
  <2>1. Len(pb) = 0 /\ Len(pb') = 1 /\ pool' = pool - 1
    BY <1>1 DEF Alloc
  <2>2. irq' \in {"copy", "input"} /\ UNCHANGED <<mbox, hand>>
    BY <1>1 DEF Alloc
  <2> QED
    BY <2>1, <2>2
<1>2. CASE Copy
  <2>1. Len(pb) = 1 /\ Len(pb') = 1 /\ irq' = "input" /\ UNCHANGED <<pool, mbox, hand>>
    BY <1>2 DEF Copy
  <2> QED
    BY <2>1
<1>3. CASE Input
  <2>1. Len(pb) = 1 /\ Len(pb') = 0
    BY <1>3 DEF Input
  <2>2. mbox \in Seq(Pbuf) /\ pb \in Seq(Pbuf)
    OBVIOUS
  <2>3. Len(mbox \o pb) = Len(mbox) + Len(pb)
    BY ONLY <2>2, ConcatProperties
  <2> QED
    BY <1>3, <2>1, <2>3 DEF Input
<1>4. CASE InputFails
  <2>1. Len(pb) = 1 /\ pool' = pool + 1 /\ Len(pb') = 0
    BY <1>4 DEF InputFails
  <2> QED
    BY <1>4, <2>1 DEF InputFails
<1>5. CASE Fetch
  <2>1. Len(mbox') = Len(mbox) - 1 /\ Len(hand) = 0 /\ Len(hand') = 1
    BY <1>5 DEF Fetch
  <2> QED
    BY <1>5, <2>1 DEF Fetch
<1>6. CASE Free
  <2>1. pool' = pool + Len(hand) /\ Len(hand') = 0
    BY <1>6 DEF Free
  <2> QED
    BY <1>6, <2>1 DEF Free
<1>7. ASSUME UNCHANGED lwip,
             irq' \in {"copy", "input"} <=> irq \in {"copy", "input"}
      PROVE  PbufInv'
  BY <1>7
<1> QED
  <2>1. ASSUME NEW f \in Frames, NEW k \in Kinds, Arrive(f, k) PROVE PbufInv'
    BY <1>7, <2>1 DEF Arrive
  <2>2. ASSUME NEW f \in Frames, FirstBufferFull(f) PROVE PbufInv'
    BY <1>7, <2>2 DEF FirstBufferFull, Close
  <2>3. CASE TransmitInterrupt \/ NoDescriptor \/ EndOfFrame \/ Truncated
    BY <1>7, <2>3 DEF TransmitInterrupt, NoDescriptor, EndOfFrame, Truncated, Close
  <2>4. CASE IrqEnter \/ ReadR \/ ClearR \/ RxPkt
    BY <1>7, <2>4 DEF IrqEnter, ReadR, ClearR, RxPkt
  <2>5. CASE AllocFails \/ ReadAndClearT \/ ClearNis
    BY <1>7, <2>5 DEF AllocFails, ReadAndClearT, ClearNis
  <2>6. CASE UNCHANGED vars
    BY <1>7, <2>6 DEF vars
  <2> QED
    BY <1>1, <1>2, <1>3, <1>4, <1>5, <1>6, <2>1, <2>2, <2>3, <2>4, <2>5, <2>6
       DEF Next, Dma, Irq, Thread

\* The inductive invariant holds in every reachable state.
THEOREM Inductive == Spec => []IInv
<1>1. TypeOK /\ TypeOK' /\ IInv /\ [Next]_vars => IInv'
  BY RingStep, FrameStep, PbufStep DEF IInv
<1> QED
  BY <1>1, InitInv, TypeCorrect, PTL DEF Spec

\* The driver's pointer and the DMA's agree on who owns which descriptor.
THEOREM WindowCorrect == Spec => []RingWindow
<1>1. IInv => RingWindow
  BY DEF IInv, RingInv
<1> QED
  BY <1>1, Inductive, PTL

\* ETH_RxPkt_ChainMode always finds a frame: its branch for a set OWN bit, and
\* with it the code that resumes a suspended DMA, is dead.
THEOREM TakeCorrect == Spec => []TakeFindsFrame
<1>1. IInv => TakeFindsFrame
  BY WaitingInRange, WaitingClosed
     DEF IInv, RingInv, SignalsCovered, TakeFindsFrame, One, TypeOK
<1> QED
  BY <1>1, Inductive, PTL

\* Where the interrupt line follows R, a full ring has its interrupt raised or its
\* handler about to take a frame.
THEOREM FullCorrect == NisLevel => (Spec => []FullIsSignalled)
<1> SUFFICES ASSUME NisLevel PROVE Spec => []FullIsSignalled
  OBVIOUS
<1>1. IInv => FullIsSignalled
  BY DEF IInv, RingInv, FullIsNoticed, FullIsSignalled, IrqRaised
<1> QED
  BY <1>1, Inductive, PTL

\* A copy can differ from the frame received only when all other buffers are
\* full or being filled.
THEOREM CopyCorrect == Spec => []CopyIntactUnlessFull
<1>1. IInv => CopyIntactUnlessFull
  BY DEF IInv, FrameInv, TakenBehindGet, CopyHasLength, CopyIntactUnlessFull
<1> QED
  BY <1>1, Inductive, PTL

\* No pbuf is lost and none is freed twice.
THEOREM PbufsCorrect == Spec => []PbufsConserved
<1>1. IInv => PbufsConserved
  BY DEF IInv, PbufInv
<1> QED
  BY <1>1, Inductive, PTL

(***************************************************************************)
(* The ring implements RxQueue.                                            *)
(***************************************************************************)

\* The waiting descriptors are the closed ones, each at one place of the queue.
LEMMA WaitingAtClosed ==
    ASSUME TypeOK, RingWindow, NEW k \in 1 .. Waiting
    PROVE  WaitingAt(k) \in Idx /\ ~Own(WaitingAt(k))
  BY RingAssumption DEF TypeOK, RingWindow, InWindow, Waiting, WaitingAt, Idx

\* The segments that wait form a sequence as long as there are descriptors that
\* wait.
LEMMA QueueType ==
    TypeOK /\ RingWindow =>
        WaitingSegments \in Seq(Segments) /\ Len(WaitingSegments) = Waiting
<1> SUFFICES ASSUME TypeOK, RingWindow
             PROVE  /\ WaitingSegments \in Seq(Segments)
                    /\ Len(WaitingSegments) = Waiting
  OBVIOUS
<1>1. Waiting \in Nat
  BY WaitingInRange, RingAssumption DEF TypeOK
<1>2. \A k \in 1 .. Waiting : WaitingSegments[k] \in Segments
  BY WaitingAtClosed DEF WaitingSegments, Segments, TypeOK, Status, Own
<1>3. WaitingSegments \in [1 .. Waiting -> Segments]
  BY <1>2 DEF WaitingSegments
<1> QED
  BY <1>1, <1>3

\* A step that closes the current descriptor appends one segment.
LEMMA ClosePuts ==
    ASSUME TypeOK, TypeOK', RingWindow, Own(cur), NEW s \in Closed,
           status' = [status EXCEPT ![cur] = s], cur' = Nxt(cur), get' = get,
           \A i \in Idx : ~Own(i) \/ i = cur => buf'[i] = buf[i]
    PROVE  \E x \in Segments : RxQ!Put(x)
<1> DEFINE x == [status |-> s, content |-> buf[cur]]
<1> USE RingAssumption
<1>1. x \in Segments
  BY DEF Segments, TypeOK
<1>2. Waiting \in Nat /\ Waiting < N /\ Waiting' = Waiting + 1 /\ RingWindow'
  <2>1. Waiting \in 0 .. N
    BY WaitingInRange DEF TypeOK
  <2>2. Waiting # N
    BY WaitingFull
  <2>3. Waiting' = Waiting + 1 /\ RingWindow'
    BY CloseStep
  <2> QED
    BY <2>1, <2>2, <2>3
<1>3. WaitingAt(Waiting + 1) = cur
  BY <1>2 DEF WaitingAt, Waiting, TypeOK, Idx
<1>4. ASSUME NEW k \in 1 .. Waiting + 1 PROVE WaitingAt(k)' = WaitingAt(k)
  BY DEF WaitingAt
<1>5. ASSUME NEW k \in 1 .. Waiting
      PROVE  WaitingSegments'[k] = WaitingSegments[k]
  <2>1. WaitingAt(k) \in Idx /\ ~Own(WaitingAt(k)) /\ WaitingAt(k) # cur
    BY WaitingAtClosed
  <2>2. status'[WaitingAt(k)] = status[WaitingAt(k)]
        /\ buf'[WaitingAt(k)] = buf[WaitingAt(k)]
    BY <2>1 DEF TypeOK
  <2> QED
    BY <1>2, <1>4, <2>2 DEF WaitingSegments
<1>6. WaitingSegments'[Waiting + 1] = x
  BY <1>2, <1>3, <1>4 DEF WaitingSegments, TypeOK
<1>7. WaitingSegments' = Append(WaitingSegments, x)
  <2>1. (TypeOK /\ RingWindow =>
            WaitingSegments \in Seq(Segments) /\ Len(WaitingSegments) = Waiting)'
    BY QueueType, PTL
  <2>2. WaitingSegments \in Seq(Segments) /\ Len(WaitingSegments) = Waiting
    BY QueueType
  <2> QED
    BY <1>1, <1>2, <1>5, <1>6, <2>1, <2>2 DEF Segments
<1> QED
  BY <1>1, <1>2, <1>7, QueueType DEF RxQ!Put

\* ETH_RxPkt_ChainMode takes the first segment.
LEMMA TakeTakes ==
    ASSUME TypeOK, TypeOK', RingWindow, ~Own(get),
           status' = [status EXCEPT ![get] = "own"], get' = Nxt(get),
           cur' = cur, buf' = buf
    PROVE  RxQ!Take
<1> USE RingAssumption
<1>1. Waiting \in Nat /\ Waiting >= 1 /\ Waiting' = Waiting - 1 /\ RingWindow'
  BY WaitingInRange, WaitingClosed, TakeStep DEF TypeOK
<1>2. ASSUME NEW k \in 1 .. Waiting - 1
      PROVE  WaitingSegments'[k] = WaitingSegments[k + 1]
  <2>1. WaitingAt(k)' = WaitingAt(k + 1)
    BY <1>1, WaitingInRange DEF WaitingAt, Nxt, TypeOK, Idx
  <2>2. WaitingAt(k + 1) \in Idx /\ WaitingAt(k + 1) # get
    BY <1>1, WaitingInRange DEF WaitingAt, TypeOK, Idx
  <2> QED
    BY <1>1, <2>1, <2>2 DEF WaitingSegments, TypeOK
<1>3. WaitingSegments' \in Seq(Segments) /\ Len(WaitingSegments') = Waiting - 1
  <2>1. (TypeOK /\ RingWindow =>
            WaitingSegments \in Seq(Segments) /\ Len(WaitingSegments) = Waiting)'
    BY QueueType, PTL
  <2> QED
    BY <1>1, <2>1
<1>4. WaitingSegments \in Seq(Segments) /\ Len(WaitingSegments) = Waiting
  BY QueueType
<1>5. WaitingSegments' = Tail(WaitingSegments)
  BY <1>1, <1>2, <1>3, <1>4
<1> QED
  BY <1>1, <1>4, <1>5 DEF RxQ!Take

\* The DMA writes to buffers of its own, and these do not wait.
LEMMA QueueKept ==
    ASSUME TypeOK, RingWindow, UNCHANGED <<status, cur, get>>,
           \A i \in Idx : ~Own(i) => buf'[i] = buf[i]
    PROVE  WaitingSegments' = WaitingSegments
<1>1. Waiting' = Waiting /\ \A k \in 1 .. Waiting : WaitingAt(k)' = WaitingAt(k)
  BY WindowKept DEF WaitingAt
<1>2. \A k \in 1 .. Waiting : buf'[WaitingAt(k)] = buf[WaitingAt(k)]
  BY WaitingAtClosed
<1> QED
  BY <1>1, <1>2 DEF WaitingSegments

\* The receive ring is a bounded FIFO: every segment is taken once, unchanged and
\* in the order of arrival, for every number of descriptors.
THEOREM QueueCorrect == Spec => RingIsQueue
<1>1. Init => RxQ!Init
  <2> SUFFICES ASSUME Init PROVE RxQ!Init
    OBVIOUS
  <2>1. TypeOK /\ RingWindow /\ Waiting = 0
    BY InitInv, RingAssumption DEF IInv, RingInv, Init, Waiting, Own, Idx
  <2>2. WaitingSegments \in Seq(Segments) /\ Len(WaitingSegments) = 0
    BY <2>1, QueueType
  <2> QED
    BY <2>2 DEF RxQ!Init
<1>2. IInv /\ TypeOK' /\ [Next]_vars => [RxQ!Next]_WaitingSegments
  <2> SUFFICES ASSUME IInv, TypeOK', [Next]_vars
               PROVE  RxQ!Next \/ UNCHANGED WaitingSegments
    OBVIOUS
  <2> USE DEF IInv, RingInv, bits, mac, ring, lwip
  <2>1. CASE EndOfFrame \/ Truncated
    <3>1. Own(cur)
      BY <2>1 DEF EndOfFrame, Truncated, DmaWritesOwnBuffer
    <3> QED
      BY <2>1, <3>1, ClosePuts DEF EndOfFrame, Truncated, Close, Closed, RxQ!Next
  <2>2. ASSUME NEW f \in Frames, FirstBufferFull(f) PROVE RxQ!Next
    <3>1. Own(cur) /\ Own(Nxt(cur)) /\ Nxt(cur) # cur
      BY <2>2, NxtInIdx DEF FirstBufferFull, DmaWritesOwnBuffer, TypeOK
    <3>2. \A i \in Idx : ~Own(i) \/ i = cur => buf'[i] = buf[i]
      BY <2>2, <3>1 DEF FirstBufferFull, TypeOK
    <3> QED
      BY <2>2, <3>1, <3>2, ClosePuts DEF FirstBufferFull, Close, Closed, RxQ!Next
  <2>3. CASE RxPkt
    <3>1. ~Own(get)
      BY <2>3, WaitingInRange, WaitingClosed DEF RxPkt, SignalsCovered, One, TypeOK
    <3> QED
      BY <2>3, <3>1, TakeTakes DEF RxPkt, TakeDescriptor, RxQ!Next
  <2>4. ASSUME NEW f \in Frames, NEW k \in Kinds, Arrive(f, k)
        PROVE  UNCHANGED WaitingSegments
    <3>1. \A i \in Idx : ~Own(i) => buf'[i] = buf[i]
      BY <2>4 DEF Arrive, TypeOK
    <3> QED
      BY <2>4, <3>1, QueueKept DEF Arrive
  <2>5. CASE TransmitInterrupt \/ NoDescriptor \/ Fetch \/ Free
    BY <2>5, QueueKept DEF TransmitInterrupt, NoDescriptor, Fetch, Free
  <2>6. CASE IrqEnter \/ ReadR \/ ClearR \/ ReadAndClearT \/ ClearNis
    BY <2>6, QueueKept DEF IrqEnter, ReadR, ClearR, ReadAndClearT, ClearNis
  <2>7. CASE Alloc \/ AllocFails \/ Copy \/ Input \/ InputFails
    BY <2>7, QueueKept DEF Alloc, AllocFails, Copy, Input, InputFails
  <2>8. CASE UNCHANGED vars
    BY <2>8, QueueKept DEF vars
  <2> QED
    BY <2>1, <2>2, <2>3, <2>4, <2>5, <2>6, <2>7, <2>8
       DEF Next, Dma, Irq, Thread
<1> QED
  BY <1>1, <1>2, Inductive, TypeCorrect, PTL DEF Spec, RingIsQueue, RxQ!Spec
=============================================================================
