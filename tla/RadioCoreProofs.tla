-------------------------- MODULE RadioCoreProofs --------------------------
(***************************************************************************)
(* Theorems about RadioCore, for every ring and queue depth and with or    *)
(* without radio events inside timer_isr.                                  *)
(***************************************************************************)
EXTENDS RadioCore, TLAPS

-----------------------------------------------------------------------------
(* Index arithmetic *)

\* Advancing an index of a ring of depth N stays in the ring: it is the
\* successor, or 0 from the last slot.
LEMMA NextIdx ==
  ASSUME NEW N \in Nat, N > 1, NEW i \in 0 .. N - 1
  PROVE  /\ (i + 1) % N = IF i = N - 1 THEN 0 ELSE i + 1
         /\ (i + 1) % N \in 0 .. N - 1
  <1>1. CASE i = N - 1
    <2>1. i + 1 = N BY <1>1
    <2>2. N % N = 0 BY SMT
    <2> QED BY <1>1, <2>1, <2>2
  <1>2. CASE i # N - 1
    <2>1. i + 1 \in 0 .. N - 1 BY <1>2
    <2>2. (i + 1) % N = i + 1 BY <2>1, SMT
    <2> QED BY <1>2, <2>1, <2>2
  <1> QED BY <1>1, <1>2

\* The driver's index helpers keep an index inside its ring.
LEMMA NextInRing ==
  /\ \A i \in TxSlots : next_tx_idx(i) \in TxSlots
  /\ \A i \in RxSlots : next_rx_idx(i) \in RxSlots
  BY DepthAssumption, NextIdx DEF TxSlots, RxSlots, next_tx_idx, next_rx_idx

-----------------------------------------------------------------------------
(* Type correctness *)

\* The initial state is well typed.
LEMMA InitType == Init => TypeOK
  <1> SUFFICES ASSUME Init PROVE TypeOK OBVIOUS
  <1>1. 0 \in TxSlots /\ 0 \in RxSlots
    BY DepthAssumption DEF TxSlots, RxSlots
  <1>2. RxBuffer(0) \in Buffers
    BY <1>1 DEF Buffers, RxBuffers
  <1> QED
    BY <1>1, <1>2, DepthAssumption
    DEF Init, TypeOK, HwStates, TimerPCs, TurnStates, TxContents, RxContents,
        ThreadPCs

\* Putting an event keeps the queue well typed and within its depth.
LEMMA PutType ==
  ASSUME TypeOK, NEW e \in Events
  PROVE  /\ CanQueue => /\ Append(queue, e) \in Seq(Events)
                        /\ Len(Append(queue, e)) <= EVENT_QUEUE_DEPTH
         /\ queue_session_event(e) =>
              /\ queue' \in Seq(Events) /\ Len(queue') <= EVENT_QUEUE_DEPTH
  BY DepthAssumption DEF TypeOK, CanQueue, queue_session_event

\* Every event the two interrupt handlers put is well typed.
LEMMA EventType ==
  /\ \A type \in EventTypes : Event(type, NoSlot) \in Events
  /\ \A type \in RxEventTypes, s \in RxSlots : Event(type, s) \in Events
  BY DEF Event, Events, EventTypes, RxEventTypes

\* The pointers the handlers program are buffers.
LEMMA PointerType ==
  ASSUME TypeOK
  PROVE  /\ RxBuffer(rx_wr_idx) \in Buffers
         /\ NextTxBuffer \in Buffers
         /\ tx_ring_empty \in BOOLEAN
  BY DEF TypeOK, Buffers, RxBuffers, TxBuffers, NextTxBuffer, tx_ring_empty

\* What the radio and the timer do keeps the state well typed.
LEMMA HwType == TypeOK /\ (HwProgress \/ HwRxAddress \/ HwCompare) => TypeOK'
  <1> SUFFICES ASSUME TypeOK, HwProgress \/ HwRxAddress \/ HwCompare
               PROVE  TypeOK'
    OBVIOUS
  <1> USE DEF TypeOK, HwStates, TxContents, RxContents
  <1>1. CASE HwReady BY <1>1 DEF HwReady, timerVars, stateVars, txVars, rxVars
  <1>2. CASE HwCrc BY <1>2 DEF HwCrc, timerVars, stateVars, txVars, rxVars
  <1>3. CASE HwTxAddress BY <1>3 DEF HwTxAddress, timerVars, stateVars, txVars, rxVars
  <1>4. CASE HwPhyEnd BY <1>4 DEF HwPhyEnd, timerVars, stateVars, txVars, rxVars
  <1>5. CASE HwDisabled BY <1>5 DEF HwDisabled, timerVars, stateVars, txVars, rxVars
  <1>6. CASE HwRxAddress BY <1>6 DEF HwRxAddress, timerVars, stateVars, txVars, rxVars
  <1>7. CASE HwCompare BY <1>7 DEF HwCompare, hwVars, stateVars, txVars, rxVars
  <1> QED BY <1>1, <1>2, <1>3, <1>4, <1>5, <1>6, <1>7 DEF HwProgress

\* radio_isr keeps the state well typed.
LEMMA RadioIsrType == TypeOK /\ RadioIsr => TypeOK'
  <1> SUFFICES ASSUME TypeOK, RadioIsr PROVE TypeOK' OBVIOUS
  <1> USE DEF TypeOK, timerVars, txVars, rxVars
  <1>1. CASE IsrAddress
    <2>1. packetptr' \in Buffers /\ tx_packet_from_ring' \in BOOLEAN
      BY <1>1, PointerType
      DEF IsrAddress, program_rx_packetptr, program_tx_packetptr, stateVars
    <2>2. /\ short' \in {"RXEN", "TXEN", "none"} /\ turn_state' \in TurnStates
          /\ deadline' \in {"none", "running", "hit"}
          /\ deadline_int' \in BOOLEAN /\ deadline_armed' \in BOOLEAN
      BY <1>1 DEF IsrAddress, program_rx_packetptr, program_tx_packetptr,
                  set_deadline, stateVars, TurnStates
    <2> QED BY <1>1, <2>1, <2>2 DEF IsrAddress
  <1>2. ASSUME NEW event \in {"CRCOK", "CRCERROR"}, NEW type \in RxEventTypes,
               IsrCrc(event, type)
        PROVE  TypeOK'
    <2>1. queue' \in Seq(Events) /\ Len(queue') <= EVENT_QUEUE_DEPTH
      BY <1>2, PutType, EventType DEF IsrCrc
    <2>2. rx_wr_idx' \in RxSlots
      BY <1>2, NextInRing DEF IsrCrc
    <2>3. rx_ring' \in [RxSlots -> RxContents]
      BY <1>2 DEF IsrCrc, RxContents
    <2> QED BY <1>2, <2>1, <2>2, <2>3 DEF IsrCrc, clear_deadline
  <1>3. CASE IsrPhyEnd
    <2>1. queue' \in Seq(Events) /\ Len(queue') <= EVENT_QUEUE_DEPTH
      BY <1>3, PutType, EventType DEF IsrPhyEnd, EventTypes
    <2>2. tx_rd_idx' \in TxSlots
      BY <1>3, NextInRing DEF IsrPhyEnd
    <2>3. tx_ring' \in [TxSlots -> TxContents]
      BY <1>3 DEF IsrPhyEnd, TxContents
    <2> QED BY <1>3, <2>1, <2>2, <2>3 DEF IsrPhyEnd, set_deadline, TurnStates
  <1> QED BY <1>1, <1>2, <1>3 DEF RadioIsr, RxEventTypes

\* timer_isr keeps the state well typed.
LEMMA TimerIsrType == TypeOK /\ TimerIsr => TypeOK'
  <1> SUFFICES ASSUME TypeOK, TimerIsr PROVE TypeOK' OBVIOUS
  <1> USE DEF TypeOK, hwVars, timerVars, stateVars, txVars, rxVars
  <1>1. CASE TimerEnter BY <1>1 DEF TimerEnter, TimerPCs
  <1>2. ASSUME NEW pc, NEW next \in TimerPCs, TimerTest(pc, next)
        PROVE  TypeOK'
    BY <1>2 DEF TimerTest
  <1>3. CASE TimerArmed BY <1>2, <1>3 DEF TimerArmed, TimerPCs
  <1>4. CASE TimerIfRx BY <1>2, <1>4 DEF TimerIfRx, TimerPCs
  <1>5. CASE TimerIfListen BY <1>2, <1>5 DEF TimerIfListen, TimerPCs
  <1>6. CASE TimerTrigTurn BY <1>2, <1>6 DEF TimerTrigTurn, TimerPCs
  <1>7. CASE TimerTrigHw BY <1>2, <1>7 DEF TimerTrigHw, TimerPCs
  <1>8. CASE TimerUnarm BY <1>8 DEF TimerUnarm, TimerPCs
  <1>9. CASE TimerMask BY <1>9 DEF TimerMask, TimerPCs
  <1>10. ASSUME NEW pc, NEW type \in EventTypes, NEW next \in TimerPCs,
                TimerPut(pc, type, next)
         PROVE  TypeOK'
    <2>1. queue' \in Seq(Events) /\ Len(queue') <= EVENT_QUEUE_DEPTH
      BY <1>10, PutType, EventType DEF TimerPut
    <2> QED BY <1>10, <2>1 DEF TimerPut
  <1>11. CASE TimerPuts
    BY <1>10, <1>11 DEF TimerPuts, EventTypes, TimerPCs
  <1>12. CASE TimerTrigPtr BY <1>12, PointerType DEF TimerTrigPtr, TimerPCs
  <1>13. CASE TimerTrigShort BY <1>13 DEF TimerTrigShort, TimerPCs
  <1>14. CASE TimerTrigClear BY <1>14 DEF TimerTrigClear, TimerPCs
  <1>15. CASE TimerTrigCommit BY <1>15 DEF TimerTrigCommit, TimerPCs, TurnStates
  <1>16. CASE TimerTrigDisable BY <1>16 DEF TimerTrigDisable, TimerPCs, HwStates
  <1> QED
    BY <1>1, <1>3, <1>4, <1>5, <1>6, <1>7, <1>8, <1>9, <1>11, <1>12, <1>13, <1>14,
       <1>15, <1>16 DEF TimerIsr

\* The session thread's calls keep the state well typed.
LEMMA ThreadType == TypeOK /\ Thread => TypeOK'
  <1> SUFFICES ASSUME TypeOK, Thread PROVE TypeOK' OBVIOUS
  <1> USE DEF TypeOK, hwVars, timerVars, stateVars, txVars, rxVars
  <1>1. CASE prop_radio_start
    <2>1. 0 \in TxSlots /\ 0 \in RxSlots
      BY DepthAssumption DEF TxSlots, RxSlots
    <2>2. RxBuffer(0) \in Buffers
      BY <2>1 DEF Buffers, RxBuffers
    <2>3. << >> \in Seq(Events) /\ Len(<< >>) <= EVENT_QUEUE_DEPTH
      BY DepthAssumption
    <2> QED
      BY <1>1, <2>1, <2>2, <2>3
      DEF prop_radio_start, set_deadline, HwStates, TurnStates, ThreadPCs
  <1>2. CASE prop_radio_stop
    <2>1. << >> \in Seq(Events) /\ Len(<< >>) <= EVENT_QUEUE_DEPTH
      BY DepthAssumption
    <2> QED BY <1>2, <2>1 DEF prop_radio_stop, HwStates, TurnStates, ThreadPCs
  <1>3. CASE prop_radio_dequeue_session_event
    <2>1. queue' \in Seq(Events) /\ Len(queue') <= EVENT_QUEUE_DEPTH
      BY <1>3, DepthAssumption DEF prop_radio_dequeue_session_event
    <2>2. Head(queue).type \in EventTypes
      <3>1. queue \in Seq(Events) /\ queue # << >>
        BY <1>3 DEF prop_radio_dequeue_session_event
      <3>2. Head(queue) \in Events
        BY <3>1
      <3> QED BY <3>2 DEF Events
    <2>3. thr' \in ThreadPCs
      BY <1>3, <2>2
      DEF prop_radio_dequeue_session_event, Handler, EventTypes, RxEventTypes,
          ThreadPCs
    <2> QED BY <1>3, <2>1, <2>3 DEF prop_radio_dequeue_session_event
  <1>4. CASE prop_radio_rx_get_rd_ptr
    BY <1>4 DEF prop_radio_rx_get_rd_ptr, ThreadPCs
  <1>5. CASE prop_radio_rx_advance_rd_idx
    BY <1>5, NextInRing DEF prop_radio_rx_advance_rd_idx, ThreadPCs, RxContents
  <1>6. CASE prop_radio_tx_get_wr_ptr
    BY <1>6 DEF prop_radio_tx_get_wr_ptr, ThreadPCs, TxContents
  <1>7. CASE prop_radio_tx_advance_wr_idx
    BY <1>7, NextInRing DEF prop_radio_tx_advance_wr_idx, ThreadPCs, TxContents
  <1> QED BY <1>1, <1>2, <1>3, <1>4, <1>5, <1>6, <1>7 DEF Thread

\* Every step keeps the state well typed: every index stays in its ring, the
\* event queue within its depth, and every pointer names a buffer.
LEMMA NextType == TypeOK /\ [Next]_vars => TypeOK'
  <1> SUFFICES ASSUME TypeOK, [Next]_vars PROVE TypeOK' OBVIOUS
  <1>1. CASE UNCHANGED vars
    BY <1>1 DEF TypeOK, vars, hwVars, timerVars, stateVars, txVars, rxVars
  <1>2. CASE Next
    BY <1>1, <1>2, HwType, RadioIsrType, TimerIsrType, ThreadType DEF Next, Parked
  <1> QED BY <1>1, <1>2

\* The driver's state is well typed in every reachable state, for every depth.
THEOREM TypeCorrect == Spec => []TypeOK
  BY InitType, NextType, PTL DEF Spec

-----------------------------------------------------------------------------
(* The inductive invariant of the pointer, the pending events and the turn *)

\* The three kinds of buffers are apart, and an RX buffer names one slot.
LEMMA BuffersApart ==
  /\ NextTxBuffer \notin RxBuffers
  /\ \A s \in RxSlots : RxBuffer(s) \in RxBuffers
  /\ \A s, t \in RxSlots : RxBuffer(s) = RxBuffer(t) => s = t
  BY DEF NextTxBuffer, RxBuffers, RxBuffer, TxBuffer, Keepalive

\* Before the start the radio is off and nothing is pending.
LEMMA InitRadioInv == Init => RadioInv
  <1> SUFFICES ASSUME Init PROVE RadioInv OBVIOUS
  <1>1. 0 \in RxSlots BY DepthAssumption DEF RxSlots
  <1> QED
    BY <1>1, BuffersApart
    DEF Init, RadioInv, PointerInv, PendingInv, TurnInv, PointsToRx, Programmed,
        OnAir, CrcPending

\* The peripheral raises only the events its state allows.
LEMMA HwRadioInv ==
  ASSUME TypeOK, RadioInv, HwProgress \/ HwRxAddress \/ HwCompare
  PROVE  RadioInv'
  <1> USE DEF TypeOK, RadioInv, PointerInv, PendingInv, TurnInv, PointsToRx,
              Programmed, OnAir, CrcPending, timerVars, stateVars, txVars, rxVars
  <1>1. CASE HwReady BY <1>1 DEF HwReady, TimerIdle
  <1>2. CASE HwCrc BY <1>2 DEF HwCrc
  <1>3. CASE HwTxAddress BY <1>3 DEF HwTxAddress
  <1>4. CASE HwPhyEnd BY <1>4 DEF HwPhyEnd
  <1>5. CASE HwDisabled BY <1>5 DEF HwDisabled
  <1>6. CASE HwRxAddress BY <1>6 DEF HwRxAddress
  <1>7. CASE HwCompare BY <1>7 DEF HwCompare, hwVars
  <1> QED BY <1>1, <1>2, <1>3, <1>4, <1>5, <1>6, <1>7 DEF HwProgress

\* Each event radio_isr serves leaves pointer, shortcut and turn in agreement.
LEMMA RadioIsrRadioInv ==
  ASSUME TypeOK, RadioInv, RadioIsr
  PROVE  RadioInv'
  <1> USE DEF TypeOK, RadioInv, PointerInv, PendingInv, TurnInv, PointsToRx,
              Programmed, OnAir, CrcPending, timerVars, stateVars, txVars, rxVars
  <1>1. CASE IsrAddress
    BY <1>1, BuffersApart
    DEF IsrAddress, program_rx_packetptr, program_tx_packetptr
  <1>2. ASSUME NEW event \in {"CRCOK", "CRCERROR"}, NEW type \in RxEventTypes,
               IsrCrc(event, type)
        PROVE  RadioInv'
    BY <1>2 DEF IsrCrc
  <1>3. CASE IsrPhyEnd BY <1>3 DEF IsrPhyEnd
  <1> QED BY <1>1, <1>2, <1>3 DEF RadioIsr, RxEventTypes

\* So does each step of timer_isr, although radio_isr may run in between.
LEMMA TimerIsrRadioInv ==
  ASSUME TypeOK, RadioInv, TimerIsr
  PROVE  RadioInv'
  <1> USE DEF TypeOK, RadioInv, PointerInv, PendingInv, TurnInv, PointsToRx,
              Programmed, OnAir, CrcPending, hwVars, timerVars, stateVars, txVars,
              rxVars
  <1>1. CASE TimerEnter BY <1>1 DEF TimerEnter
  <1>2. CASE TimerArmed BY <1>2 DEF TimerArmed, TimerTest
  <1>3. CASE TimerIfRx BY <1>3 DEF TimerIfRx, TimerTest
  <1>4. CASE TimerIfListen BY <1>4 DEF TimerIfListen, TimerTest
  <1>5. CASE TimerTrigTurn BY <1>5 DEF TimerTrigTurn, TimerTest
  <1>6. CASE TimerTrigHw BY <1>6 DEF TimerTrigHw, TimerTest
  <1>7. CASE TimerUnarm BY <1>7 DEF TimerUnarm
  <1>8. CASE TimerMask BY <1>8 DEF TimerMask
  <1>9. CASE TimerPuts BY <1>9 DEF TimerPuts, TimerPut
  <1>10. CASE TimerTrigPtr BY <1>10, BuffersApart DEF TimerTrigPtr
  <1>11. CASE TimerTrigShort BY <1>11 DEF TimerTrigShort
  <1>12. CASE TimerTrigClear BY <1>12 DEF TimerTrigClear
  <1>13. CASE TimerTrigCommit BY <1>13 DEF TimerTrigCommit
  <1>14. CASE TimerTrigDisable BY <1>14 DEF TimerTrigDisable
  <1> QED
    BY <1>1, <1>2, <1>3, <1>4, <1>5, <1>6, <1>7, <1>8, <1>9, <1>10, <1>11, <1>12,
       <1>13, <1>14 DEF TimerIsr

\* Starting and stopping the radio establish it; the ring calls leave it alone.
LEMMA ThreadRadioInv ==
  ASSUME TypeOK, RadioInv, Thread
  PROVE  RadioInv'
  <1> USE DEF TypeOK, RadioInv, PointerInv, PendingInv, TurnInv, PointsToRx,
              Programmed, OnAir, CrcPending, hwVars, timerVars, stateVars, txVars,
              rxVars, CpuFree, TimerIdle
  <1>1. CASE prop_radio_start
    <2>1. 0 \in RxSlots BY DepthAssumption DEF RxSlots
    <2> QED BY <1>1, <2>1, BuffersApart DEF prop_radio_start
  <1>2. CASE prop_radio_stop BY <1>2 DEF prop_radio_stop
  <1>3. CASE prop_radio_dequeue_session_event
    BY <1>3 DEF prop_radio_dequeue_session_event
  <1>4. CASE prop_radio_rx_get_rd_ptr BY <1>4 DEF prop_radio_rx_get_rd_ptr
  <1>5. CASE prop_radio_rx_advance_rd_idx BY <1>5 DEF prop_radio_rx_advance_rd_idx
  <1>6. CASE prop_radio_tx_get_wr_ptr BY <1>6 DEF prop_radio_tx_get_wr_ptr
  <1>7. CASE prop_radio_tx_advance_wr_idx BY <1>7 DEF prop_radio_tx_advance_wr_idx
  <1> QED BY <1>1, <1>2, <1>3, <1>4, <1>5, <1>6, <1>7 DEF Thread

\* RadioInv is inductive, relative to the types.
LEMMA NextRadioInv == TypeOK /\ RadioInv /\ [Next]_vars => RadioInv'
  <1> SUFFICES ASSUME TypeOK, RadioInv, [Next]_vars PROVE RadioInv' OBVIOUS
  <1>1. CASE UNCHANGED vars
    BY <1>1
    DEF RadioInv, PointerInv, PendingInv, TurnInv, PointsToRx, Programmed, OnAir,
        CrcPending, vars, hwVars, timerVars, stateVars, txVars, rxVars
  <1>2. CASE Next
    BY <1>1, <1>2, HwRadioInv, RadioIsrRadioInv, TimerIsrRadioInv, ThreadRadioInv
    DEF Next, Parked
  <1> QED BY <1>1, <1>2

\* The pointer, the pending events and the turn agree in every reachable state,
\* wherever radio_isr preempts timer_isr.
THEOREM RadioInvariant == Spec => []RadioInv
  <1>1. TypeOK /\ RadioInv /\ [Next]_vars => RadioInv' BY NextRadioInv
  <1> QED BY <1>1, TypeCorrect, InitRadioInv, PTL DEF Spec

\* The receiver's DMA never writes a slot the session has still to read, for
\* every ring depth and wherever radio interrupts fall.
THEOREM RxDmaIsSafe == Spec => []RxDmaSafe
  <1>1. TypeOK /\ RadioInv => RxDmaSafe
    <2> SUFFICES ASSUME TypeOK, RadioInv, hw \in {"rx", "rxpkt"}
                 PROVE  \E s \in RxSlots : dma = RxBuffer(s) /\ Dist(s) >= Unread
      BY DEF RxDmaSafe
    <2>1. dma = RxBuffer(rx_wr_idx) /\ rx_wr_idx \in RxSlots
      BY DEF TypeOK, RadioInv, PointerInv
    <2>2. Dist(rx_wr_idx) >= Unread
      BY DepthAssumption DEF Dist, Unread, TypeOK, RxSlots
    <2> QED BY <2>1, <2>2
  <1> QED BY <1>1, TypeCorrect, RadioInvariant, PTL

-----------------------------------------------------------------------------
(* The event stream and the RX ring *)

\* The distance from r to s around a ring of depth N.
LEMMA RingDist ==
  ASSUME NEW N \in Nat, N > 1, NEW s \in 0 .. N - 1, NEW r \in 0 .. N - 1
  PROVE  (s - r) % N = IF s >= r THEN s - r ELSE s - r + N
  <1>1. CASE s >= r
    <2>1. s - r \in 0 .. N - 1 BY <1>1
    <2> QED BY <1>1, <2>1, SMT
  <1>2. CASE ~(s >= r)
    <2>1. s - r + N \in 0 .. N - 1 BY <1>2
    <2>2. (s - r) % N = s - r + N
      BY <2>1, SMT
    <2> QED BY <1>2, <2>2
  <1> QED BY <1>1, <1>2

\* Dist is a numbering of the slots, from 0 at the read index.
LEMMA DistFacts ==
  ASSUME TypeOK
  PROVE  /\ \A s \in RxSlots : Dist(s) \in 0 .. RX_RING_DEPTH - 1
         /\ \A s, t \in RxSlots : Dist(s) = Dist(t) => s = t
         /\ Dist(rx_rd_idx) = 0
         /\ Unread \in 0 .. RX_RING_DEPTH - 1
  <1>1. /\ rx_rd_idx \in 0 .. RX_RING_DEPTH - 1
        /\ rx_wr_idx \in 0 .. RX_RING_DEPTH - 1
        /\ RX_RING_DEPTH \in Nat /\ RX_RING_DEPTH > 1
    BY DepthAssumption DEF TypeOK, RxSlots
  <1>2. \A s \in 0 .. RX_RING_DEPTH - 1 :
          Dist(s) = IF s >= rx_rd_idx THEN s - rx_rd_idx
                                      ELSE s - rx_rd_idx + RX_RING_DEPTH
    BY <1>1, RingDist DEF Dist
  <1> HIDE DEF Dist
  <1> QED BY <1>1, <1>2 DEF RxSlots, Unread

\* Advancing the write index of a ring that is not full adds one unread slot.
LEMMA AdvanceWrite ==
  ASSUME TypeOK, ~rx_ring_write_would_fill
  PROVE  Dist(next_rx_idx(rx_wr_idx)) = Unread + 1
  <1> DEFINE w == next_rx_idx(rx_wr_idx)
  <1>1. /\ w = IF rx_wr_idx = RX_RING_DEPTH - 1 THEN 0 ELSE rx_wr_idx + 1
        /\ w \in 0 .. RX_RING_DEPTH - 1
    BY NextIdx, DepthAssumption DEF TypeOK, RxSlots, next_rx_idx
  <1>2. w # rx_rd_idx BY DEF rx_ring_write_would_fill
  <1>3. /\ Dist(w) = IF w >= rx_rd_idx THEN w - rx_rd_idx
                                       ELSE w - rx_rd_idx + RX_RING_DEPTH
        /\ Unread = IF rx_wr_idx >= rx_rd_idx
                      THEN rx_wr_idx - rx_rd_idx
                      ELSE rx_wr_idx - rx_rd_idx + RX_RING_DEPTH
    BY <1>1, RingDist, DepthAssumption DEF TypeOK, RxSlots, Dist, Unread
  <1> QED BY <1>1, <1>2, <1>3, DepthAssumption DEF TypeOK, RxSlots

\* Advancing the read index brings every other slot one step nearer.
LEMMA AdvanceRead ==
  ASSUME TypeOK, rx_rd_idx' = next_rx_idx(rx_rd_idx), UNCHANGED rx_wr_idx,
         NEW s \in RxSlots, s # rx_rd_idx
  PROVE  Dist(s)' = Dist(s) - 1
  <1> DEFINE r == next_rx_idx(rx_rd_idx)
  <1>1. /\ r = IF rx_rd_idx = RX_RING_DEPTH - 1 THEN 0 ELSE rx_rd_idx + 1
        /\ r \in 0 .. RX_RING_DEPTH - 1
    BY NextIdx, DepthAssumption DEF TypeOK, RxSlots, next_rx_idx
  <1>2. /\ Dist(s) = IF s >= rx_rd_idx THEN s - rx_rd_idx
                                       ELSE s - rx_rd_idx + RX_RING_DEPTH
        /\ Dist(s)' = IF s >= r THEN s - r ELSE s - r + RX_RING_DEPTH
    BY <1>1, RingDist, DepthAssumption DEF TypeOK, RxSlots, Dist
  <1> QED BY <1>1, <1>2, DepthAssumption DEF TypeOK, RxSlots

\* A step that leaves the indices and the unread slots alone, and at most adds
\* an event that is not an RX event, keeps ring and stream matched.
LEMMA MatchFrame ==
  ASSUME TypeOK, EventSlotMatch,
         turn_state' # "DISABLED" => turn_state # "DISABLED",
         UNCHANGED <<rx_wr_idx, rx_rd_idx>>,
         \/ UNCHANGED thr
         \/ /\ thr \notin {"rx_ok", "rx_reading", "rx_bad"}
            /\ thr' \notin {"rx_ok", "rx_reading", "rx_bad"},
         \A s \in RxSlots : s # rx_wr_idx => rx_ring'[s] = rx_ring[s],
         \/ UNCHANGED queue
         \/ \E type \in EventTypes \ RxEventTypes :
              queue' = Append(queue, Event(type, NoSlot))
  PROVE  EventSlotMatch'
  <1> SUFFICES ASSUME turn_state' # "DISABLED"
               PROVE  EventSlotMatch'
    BY DEF EventSlotMatch
  <1>1. Held' = Held /\ Unread' = Unread
    BY DEF Held, Unread, Dist
  <1>2. /\ DOMAIN queue \subseteq DOMAIN queue'
        /\ \A i \in DOMAIN queue : queue'[i] = queue[i]
        /\ \A i \in DOMAIN queue' \ DOMAIN queue : queue'[i].type \notin RxEventTypes
    <2>1. CASE UNCHANGED queue BY <2>1
    <2>2. ASSUME NEW type \in EventTypes \ RxEventTypes,
                 queue' = Append(queue, Event(type, NoSlot))
          PROVE  <1>2
      <3>1. queue \in Seq(Events) /\ Event(type, NoSlot) \in Events
        BY EventType DEF TypeOK
      <3>2. /\ DOMAIN queue = 1 .. Len(queue)
            /\ DOMAIN queue' = 1 .. Len(queue) + 1
            /\ \A i \in 1 .. Len(queue) : queue'[i] = queue[i]
            /\ queue'[Len(queue) + 1] = Event(type, NoSlot)
        BY <2>2, <3>1
      <3>3. Len(queue) \in Nat BY <3>1
      <3> QED BY <3>2, <3>3 DEF Event
    <2> QED BY <2>1, <2>2
  <1>3. \A i \in DOMAIN queue' : queue'[i].type \in RxEventTypes =>
          i \in DOMAIN queue /\ queue'[i] = queue[i]
    BY <1>2
  <1>4. \A i \in DOMAIN queue : queue[i].type \in RxEventTypes =>
          /\ queue[i].slot \in RxSlots
          /\ queue[i].slot # rx_wr_idx
          /\ rx_ring'[queue[i].slot] = rx_ring[queue[i].slot]
    <2> SUFFICES ASSUME NEW i \in DOMAIN queue, RxAt(i)
                 PROVE  queue[i].slot \in RxSlots /\ queue[i].slot # rx_wr_idx
      BY DEF RxAt
    <2>1. queue[i].slot \in RxSlots /\ Dist(queue[i].slot) \in Held .. Unread - 1
      BY DEF EventSlotMatch
    <2> QED BY <2>1, DistFacts DEF Unread, Held
  <1>5. Held = 1 => rx_ring'[rx_rd_idx] = rx_ring[rx_rd_idx]
    <2> SUFFICES ASSUME Held = 1 PROVE rx_rd_idx # rx_wr_idx
      BY DEF TypeOK
    <2>1. 1 <= Dist(rx_wr_idx) BY DEF EventSlotMatch, Unread
    <2>2. Dist(rx_rd_idx) = 0 BY DistFacts
    <2> QED BY <2>1, <2>2
  <1> QED
    BY <1>1, <1>2, <1>3, <1>4, <1>5 DEF EventSlotMatch, Held, Unread, RxAt, Dist

\* radio_isr reports a received packet: the write slot becomes the last unread
\* slot and its event the last RX event of the queue, or neither happens.
LEMMA MatchCrc ==
  ASSUME TypeOK, EventInv,
         NEW event \in {"CRCOK", "CRCERROR"}, NEW type \in RxEventTypes,
         event = "CRCOK" <=> type = "RX_OK",
         IsrCrc(event, type)
  PROVE  EventSlotMatch'
  <1>1. CASE UNCHANGED queue
    <2>1. UNCHANGED <<rx_wr_idx, rx_rd_idx>>
      <3>1. queue \in Seq(Events) BY DEF TypeOK
      <3>2. queue # Append(queue, Event(type, rx_wr_idx)) BY <3>1
      <3> QED BY <1>1, <3>2 DEF IsrCrc
    <2> QED BY <1>1, <2>1, MatchFrame DEF EventInv, IsrCrc, TypeOK
  <1>2. CASE ~ UNCHANGED queue
    <2> DEFINE e == Event(type, rx_wr_idx)
               n == Len(queue)
    <2>1. /\ turn_state # "DISABLED"
          /\ ~rx_ring_write_would_fill
          /\ queue' = Append(queue, e)
          /\ rx_wr_idx' = next_rx_idx(rx_wr_idx)
          /\ UNCHANGED <<turn_state, rx_rd_idx, rx_ring, thr>>
      BY <1>2 DEF IsrCrc
    <2>2. /\ n \in Nat /\ DOMAIN queue = 1 .. n /\ DOMAIN queue' = 1 .. n + 1
          /\ \A i \in 1 .. n : queue'[i] = queue[i]
          /\ queue'[n + 1] = e
      <3>1. queue \in Seq(Events) BY DEF TypeOK
      <3> QED BY <2>1, <3>1
    <2>3. /\ Unread' = Unread + 1
          /\ \A s \in RxSlots : Dist(s)' = Dist(s)
          /\ Held' = Held
      BY <2>1, AdvanceWrite DEF Unread, Dist, Held
    <2>4. /\ e.type = type /\ e.slot = rx_wr_idx
          /\ rx_wr_idx \in RxSlots /\ rx_ring[rx_wr_idx] = type
      BY DEF IsrCrc, EventInv, CrcInv, Event, TypeOK, RxEventTypes
    <2>5. Unread \in Nat /\ Held \in {0, 1}
      BY DistFacts DEF Held
    <2>6. /\ Held <= Unread
          /\ \A i \in 1 .. n : queue[i].type \in RxEventTypes =>
               /\ queue[i].slot \in RxSlots
               /\ Dist(queue[i].slot) \in Held .. Unread - 1
               /\ rx_ring[queue[i].slot] = queue[i].type
          /\ \A i, j \in 1 .. n :
               /\ i < j
               /\ queue[i].type \in RxEventTypes /\ queue[j].type \in RxEventTypes
               => Dist(queue[i].slot) < Dist(queue[j].slot)
          /\ \A d \in Held .. Unread - 1 :
               \E i \in 1 .. n :
                 queue[i].type \in RxEventTypes /\ Dist(queue[i].slot) = d
      BY <2>1, <2>2 DEF EventInv, EventSlotMatch, RxAt
    <2>7. Dist(rx_wr_idx) = Unread BY DEF Unread
    <2>8. \A i \in 1 .. n + 1 : queue'[i].type \in RxEventTypes =>
            /\ queue'[i].slot \in RxSlots
            /\ Dist(queue'[i].slot) \in Held .. Unread
            /\ rx_ring[queue'[i].slot] = queue'[i].type
      BY <2>2, <2>4, <2>5, <2>6, <2>7
    <2>9. \A i, j \in 1 .. n + 1 :
            /\ i < j
            /\ queue'[i].type \in RxEventTypes /\ queue'[j].type \in RxEventTypes
            => Dist(queue'[i].slot) < Dist(queue'[j].slot)
      <3> SUFFICES ASSUME NEW i \in 1 .. n + 1, NEW j \in 1 .. n + 1, i < j,
                          queue'[i].type \in RxEventTypes,
                          queue'[j].type \in RxEventTypes
                   PROVE  Dist(queue'[i].slot) < Dist(queue'[j].slot)
        OBVIOUS
      <3>1. i \in 1 .. n /\ queue'[i] = queue[i] BY <2>2
      <3>2. CASE j = n + 1
        <4>1. Dist(queue[i].slot) \in Held .. Unread - 1 BY <2>6, <3>1
        <4> QED BY <2>2, <2>4, <2>5, <2>7, <3>1, <3>2, <4>1
      <3>3. CASE j # n + 1
        <4>1. j \in 1 .. n /\ queue'[j] = queue[j] BY <2>2, <3>3
        <4> QED BY <2>6, <3>1, <4>1
      <3> QED BY <3>2, <3>3
    <2>10. \A d \in Held .. Unread :
             \E i \in 1 .. n + 1 :
               queue'[i].type \in RxEventTypes /\ Dist(queue'[i].slot) = d
      <3> SUFFICES ASSUME NEW d \in Held .. Unread
                   PROVE  \E i \in 1 .. n + 1 :
                            /\ queue'[i].type \in RxEventTypes
                            /\ Dist(queue'[i].slot) = d
        OBVIOUS
      <3>1. CASE d = Unread BY <2>2, <2>4, <2>7, <3>1
      <3>2. CASE d # Unread
        <4>1. d \in Held .. Unread - 1 BY <2>5, <3>2
        <4>2. PICK i \in 1 .. n :
                queue[i].type \in RxEventTypes /\ Dist(queue[i].slot) = d
          BY <2>6, <4>1
        <4> QED BY <2>2, <4>2
      <3> QED BY <3>1, <3>2
    <2>11. Unread + 1 - 1 = Unread /\ Held <= Unread + 1
      BY <2>5, <2>6
    <2>12. /\ thr \in {"rx_ok", "rx_reading"} => rx_ring[rx_rd_idx] = "RX_OK"
           /\ thr = "rx_bad" => rx_ring[rx_rd_idx] = "RX_BAD"
      BY <2>1 DEF EventInv, EventSlotMatch
    <2>17. \A i : Dist(queue[i].slot)' = Dist(queue'[i].slot)
      BY <2>1 DEF Dist
    <2>18. (Held .. Unread - 1)' = Held .. Unread
      BY <2>3, <2>5
    <2>13. (Held <= Unread)' BY <2>3, <2>5, <2>11
    <2>14. (\A i \in DOMAIN queue : RxAt(i) =>
              /\ queue[i].slot \in RxSlots
              /\ Dist(queue[i].slot) \in Held .. Unread - 1
              /\ rx_ring[queue[i].slot] = queue[i].type)'
      BY <2>1, <2>2, <2>8, <2>17, <2>18 DEF RxAt
    <2>15. (\A i, j \in DOMAIN queue : i < j /\ RxAt(i) /\ RxAt(j) =>
              Dist(queue[i].slot) < Dist(queue[j].slot))'
      BY <2>2, <2>9, <2>17 DEF RxAt
    <2>16. (\A d \in Held .. Unread - 1 :
              \E i \in DOMAIN queue : RxAt(i) /\ Dist(queue[i].slot) = d)'
      BY <2>2, <2>10, <2>17, <2>18 DEF RxAt
    <2> QED BY <2>1, <2>12, <2>13, <2>14, <2>15, <2>16 DEF EventSlotMatch
  <1> QED BY <1>1, <1>2

\* The thread takes the head of the queue.  When it is an RX event it is the
\* oldest one, so its slot is the one at the read index.
LEMMA MatchDequeue ==
  ASSUME TypeOK, EventSlotMatch, prop_radio_dequeue_session_event
  PROVE  EventSlotMatch'
  <1> DEFINE n == Len(queue)
  <1>1. /\ queue # << >> /\ queue' = Tail(queue) /\ thr = "idle"
        /\ thr' = Handler[Head(queue).type]
        /\ UNCHANGED <<turn_state, rx_ring, rx_wr_idx, rx_rd_idx>>
    BY DEF prop_radio_dequeue_session_event, stateVars, rxVars
  <1> SUFFICES ASSUME turn_state # "DISABLED" PROVE EventSlotMatch'
    BY <1>1 DEF EventSlotMatch
  <1>2. /\ n \in Nat /\ n > 0 /\ DOMAIN queue = 1 .. n /\ DOMAIN queue' = 1 .. n - 1
        /\ \A i \in 1 .. n - 1 : queue'[i] = queue[i + 1]
        /\ Head(queue) = queue[1]
    <2>1. queue \in Seq(Events) BY DEF TypeOK
    <2> QED BY <1>1, <2>1
  <1>3. queue[1].type \in EventTypes
    <2>1. queue[1] \in Events BY <1>2 DEF TypeOK
    <2> QED BY <2>1 DEF Events
  <1>4. /\ Held = 0 /\ Unread \in Nat /\ Unread' = Unread
        /\ \A i : Dist(queue[i].slot)' = Dist(queue'[i].slot)
        /\ rx_rd_idx \in RxSlots /\ Dist(rx_rd_idx) = 0
        /\ \A s \in RxSlots : Dist(s) = 0 => s = rx_rd_idx
    BY <1>1, DistFacts DEF Held, Unread, Dist, TypeOK
  <1>5. /\ \A i \in 1 .. n : queue[i].type \in RxEventTypes =>
             /\ queue[i].slot \in RxSlots
             /\ Dist(queue[i].slot) \in 0 .. Unread - 1
             /\ rx_ring[queue[i].slot] = queue[i].type
        /\ \A i, j \in 1 .. n :
             /\ i < j
             /\ queue[i].type \in RxEventTypes /\ queue[j].type \in RxEventTypes
             => Dist(queue[i].slot) < Dist(queue[j].slot)
        /\ \A d \in 0 .. Unread - 1 :
             \E i \in 1 .. n :
               queue[i].type \in RxEventTypes /\ Dist(queue[i].slot) = d
    BY <1>2, <1>4 DEF EventSlotMatch, RxAt
  <1>9. /\ (DOMAIN queue)' = 1 .. n - 1
        /\ \A i : RxAt(i)' = (queue'[i].type \in RxEventTypes)
        /\ rx_ring' = rx_ring
    BY <1>1, <1>2 DEF RxAt
  <1>10. \A i \in 1 .. n - 1 : i + 1 \in 1 .. n /\ 1 < i + 1 /\ queue'[i] = queue[i + 1]
    BY <1>2
  <1>6. (\A i, j \in DOMAIN queue : i < j /\ RxAt(i) /\ RxAt(j) =>
            Dist(queue[i].slot) < Dist(queue[j].slot))'
    <2>1. \A i, j \in 1 .. n - 1 :
            /\ i < j
            /\ queue'[i].type \in RxEventTypes /\ queue'[j].type \in RxEventTypes
            => Dist(queue'[i].slot) < Dist(queue'[j].slot)
      <3> SUFFICES ASSUME NEW i \in 1 .. n - 1, NEW j \in 1 .. n - 1, i < j,
                          queue'[i].type \in RxEventTypes,
                          queue'[j].type \in RxEventTypes
                   PROVE  Dist(queue'[i].slot) < Dist(queue'[j].slot)
        OBVIOUS
      <3>1. /\ i + 1 \in 1 .. n /\ queue'[i] = queue[i + 1]
            /\ j + 1 \in 1 .. n /\ queue'[j] = queue[j + 1]
        BY <1>10
      <3>2. i + 1 < j + 1 OBVIOUS
      <3> QED BY <1>5, <3>1, <3>2
    <2> QED BY <1>4, <1>9, <2>1
  <1>7. CASE queue[1].type \in RxEventTypes
    <2>1. Unread > 0 BY <1>2, <1>4, <1>5, <1>7
    <2>2. Dist(queue[1].slot) = 0
      <3>1. PICK i \in 1 .. n :
              queue[i].type \in RxEventTypes /\ Dist(queue[i].slot) = 0
        BY <1>4, <1>5, <2>1
      <3>2. Dist(queue[1].slot) \in 0 .. Unread - 1 BY <1>2, <1>5, <1>7
      <3> QED BY <1>2, <1>5, <1>7, <3>1, <3>2
    <2>3. queue[1].slot = rx_rd_idx /\ rx_ring[rx_rd_idx] = queue[1].type
      BY <1>2, <1>4, <1>5, <1>7, <2>2
    <2>4. \/ thr' = "rx_ok" /\ queue[1].type = "RX_OK"
          \/ thr' = "rx_bad" /\ queue[1].type = "RX_BAD"
      BY <1>1, <1>2, <1>7 DEF Handler, RxEventTypes
    <2>5. Held' = 1 BY <2>4 DEF Held
    <2>6. (Held .. Unread - 1)' = 1 .. Unread - 1 BY <1>4, <2>5
    <2>7. (\A i \in DOMAIN queue : RxAt(i) =>
              /\ queue[i].slot \in RxSlots
              /\ Dist(queue[i].slot) \in Held .. Unread - 1
              /\ rx_ring[queue[i].slot] = queue[i].type)'
      <3> SUFFICES ASSUME NEW i \in 1 .. n - 1, queue'[i].type \in RxEventTypes
                   PROVE  /\ queue'[i].slot \in RxSlots
                          /\ Dist(queue'[i].slot) \in 1 .. Unread - 1
                          /\ rx_ring[queue'[i].slot] = queue'[i].type
        BY <1>4, <1>9, <2>6
      <3>1. i + 1 \in 1 .. n /\ 1 \in 1 .. n /\ 1 < i + 1 BY <1>2
      <3>2. /\ queue[i + 1].slot \in RxSlots
            /\ Dist(queue[i + 1].slot) \in 0 .. Unread - 1
            /\ rx_ring[queue[i + 1].slot] = queue[i + 1].type
            /\ Dist(queue[1].slot) < Dist(queue[i + 1].slot)
        BY <1>2, <1>5, <1>7, <3>1
      <3> QED BY <1>2, <1>4, <2>2, <3>2
    <2>8. (\A d \in Held .. Unread - 1 :
              \E i \in DOMAIN queue : RxAt(i) /\ Dist(queue[i].slot) = d)'
      <3>1. \A d \in 1 .. Unread - 1 :
              \E i \in 1 .. n - 1 :
                queue'[i].type \in RxEventTypes /\ Dist(queue'[i].slot) = d
        <4> SUFFICES ASSUME NEW d \in 1 .. Unread - 1
                     PROVE  \E i \in 1 .. n - 1 :
                              /\ queue'[i].type \in RxEventTypes
                              /\ Dist(queue'[i].slot) = d
          OBVIOUS
        <4>1. PICK i \in 1 .. n :
                queue[i].type \in RxEventTypes /\ Dist(queue[i].slot) = d
          BY <1>4, <1>5
        <4>2. i # 1 BY <2>2, <4>1
        <4>3. i - 1 \in 1 .. n - 1 /\ queue'[i - 1] = queue[i] BY <1>2, <4>2
        <4> QED BY <4>1, <4>3
      <3>2. DOMAIN queue' = 1 .. n - 1 BY <1>2
      <3>3. \A i : Dist(queue[i].slot)' = Dist(queue'[i].slot) BY <1>4
      <3> QED BY <2>6, <3>1, <3>2, <3>3 DEF RxAt
    <2>9. (Held <= Unread)' BY <1>4, <2>1, <2>5
    <2> QED BY <1>1, <1>6, <2>3, <2>4, <2>7, <2>8, <2>9 DEF EventSlotMatch
  <1>8. CASE queue[1].type \notin RxEventTypes
    <2>1. thr' \notin {"rx_ok", "rx_reading", "rx_bad"}
      BY <1>1, <1>2, <1>3, <1>8 DEF Handler, EventTypes, RxEventTypes
    <2>2. Held' = 0 BY <2>1 DEF Held
    <2>3. (Held .. Unread - 1)' = 0 .. Unread - 1 BY <1>4, <2>2
    <2>4. (\A i \in DOMAIN queue : RxAt(i) =>
              /\ queue[i].slot \in RxSlots
              /\ Dist(queue[i].slot) \in Held .. Unread - 1
              /\ rx_ring[queue[i].slot] = queue[i].type)'
      <3>1. \A i \in 1 .. n - 1 : queue'[i].type \in RxEventTypes =>
              /\ queue'[i].slot \in RxSlots
              /\ Dist(queue'[i].slot) \in 0 .. Unread - 1
              /\ rx_ring[queue'[i].slot] = queue'[i].type
        BY <1>5, <1>10
      <3> QED BY <1>4, <1>9, <2>3, <3>1
    <2>5. (\A d \in Held .. Unread - 1 :
              \E i \in DOMAIN queue : RxAt(i) /\ Dist(queue[i].slot) = d)'
      <3>1. \A d \in 0 .. Unread - 1 :
              \E i \in 1 .. n - 1 :
                queue'[i].type \in RxEventTypes /\ Dist(queue'[i].slot) = d
        <4> SUFFICES ASSUME NEW d \in 0 .. Unread - 1
                     PROVE  \E i \in 1 .. n - 1 :
                              /\ queue'[i].type \in RxEventTypes
                              /\ Dist(queue'[i].slot) = d
          OBVIOUS
        <4>1. PICK i \in 1 .. n :
                queue[i].type \in RxEventTypes /\ Dist(queue[i].slot) = d
          BY <1>5
        <4>2. i # 1 BY <1>8, <4>1
        <4>3. i - 1 \in 1 .. n - 1 /\ queue'[i - 1] = queue[i] BY <1>2, <4>2
        <4> QED BY <4>1, <4>3
      <3>2. DOMAIN queue' = 1 .. n - 1 BY <1>2
      <3>3. \A i : Dist(queue[i].slot)' = Dist(queue'[i].slot) BY <1>4
      <3> QED BY <2>3, <3>1, <3>2, <3>3 DEF RxAt
    <2>6. (Held <= Unread)' BY <1>4, <2>2
    <2> QED BY <1>1, <1>6, <2>1, <2>4, <2>5, <2>6 DEF EventSlotMatch
  <1> QED BY <1>7, <1>8

\* The thread releases the slot whose event it has handled: every other unread
\* slot comes one step nearer the read index.
LEMMA MatchRelease ==
  ASSUME TypeOK, EventSlotMatch, prop_radio_rx_advance_rd_idx
  PROVE  EventSlotMatch'
  <1>1. /\ thr \in {"rx_reading", "rx_bad"} /\ thr' = "idle"
        /\ UNCHANGED <<turn_state, rx_wr_idx, queue>>
    BY DEF prop_radio_rx_advance_rd_idx, stateVars
  <1> SUFFICES ASSUME turn_state # "DISABLED" PROVE EventSlotMatch'
    BY <1>1 DEF EventSlotMatch
  <1>2. Held = 1 /\ Held' = 0 BY <1>1 DEF Held
  <1>3. Unread \in Nat /\ Unread > 0 /\ rx_rd_idx # rx_wr_idx
    BY <1>2, DistFacts DEF EventSlotMatch, Unread
  <1>4. /\ rx_rd_idx' = next_rx_idx(rx_rd_idx)
        /\ rx_ring' = [rx_ring EXCEPT ![rx_rd_idx] = "none"]
    BY <1>3 DEF prop_radio_rx_advance_rd_idx
  <1>5. \A s \in RxSlots : s # rx_rd_idx => Dist(s)' = Dist(s) - 1
    BY <1>1, <1>4, AdvanceRead
  <1>6. Unread' = Unread - 1
    BY <1>1, <1>3, <1>5 DEF Unread, TypeOK, Dist
  <1>7. (Held .. Unread - 1)' = 0 .. Unread - 2
    BY <1>2, <1>3, <1>6
  <1>8. \A i \in DOMAIN queue : RxAt(i) =>
          /\ queue[i].slot \in RxSlots /\ queue[i].slot # rx_rd_idx
          /\ Dist(queue[i].slot) \in 1 .. Unread - 1
          /\ Dist(queue[i].slot)' = Dist(queue[i].slot) - 1
          /\ rx_ring'[queue[i].slot] = queue[i].type
    <2> SUFFICES ASSUME NEW i \in DOMAIN queue, RxAt(i)
                 PROVE  /\ queue[i].slot \in RxSlots /\ queue[i].slot # rx_rd_idx
                        /\ Dist(queue[i].slot) \in 1 .. Unread - 1
                        /\ Dist(queue[i].slot)' = Dist(queue[i].slot) - 1
                        /\ rx_ring'[queue[i].slot] = queue[i].type
      OBVIOUS
    <2>1. /\ queue[i].slot \in RxSlots
          /\ Dist(queue[i].slot) \in 1 .. Unread - 1
          /\ rx_ring[queue[i].slot] = queue[i].type
      BY <1>2 DEF EventSlotMatch
    <2>2. queue[i].slot # rx_rd_idx BY <2>1, DistFacts
    <2>3. rx_ring'[queue[i].slot] = queue[i].type
      BY <1>4, <2>1, <2>2 DEF TypeOK
    <2>4. Dist(queue[i].slot)' = Dist(queue[i].slot) - 1
      BY <1>1, <1>5, <2>1, <2>2 DEF Dist
    <2> QED BY <2>1, <2>2, <2>3, <2>4
  <1>9. \A i : RxAt(i)' = RxAt(i) BY <1>1 DEF RxAt
  <1>10. (\A i \in DOMAIN queue : RxAt(i) =>
             /\ queue[i].slot \in RxSlots
             /\ Dist(queue[i].slot) \in Held .. Unread - 1
             /\ rx_ring[queue[i].slot] = queue[i].type)'
    <2>1. \A d \in 1 .. Unread - 1 : d - 1 \in 0 .. Unread - 2
      BY <1>3
    <2> QED BY <1>1, <1>7, <1>8, <1>9, <2>1
  <1>11. (\A i, j \in DOMAIN queue : i < j /\ RxAt(i) /\ RxAt(j) =>
              Dist(queue[i].slot) < Dist(queue[j].slot))'
    BY <1>1, <1>3, <1>8, <1>9 DEF EventSlotMatch
  <1>12. (\A d \in Held .. Unread - 1 :
             \E i \in DOMAIN queue : RxAt(i) /\ Dist(queue[i].slot) = d)'
    <2> SUFFICES ASSUME NEW d \in 0 .. Unread - 2
                 PROVE  \E i \in DOMAIN queue :
                          RxAt(i) /\ Dist(queue[i].slot)' = d
      BY <1>1, <1>7, <1>9
    <2>1. d + 1 \in Held .. Unread - 1 BY <1>2, <1>3
    <2>2. PICK i \in DOMAIN queue : RxAt(i) /\ Dist(queue[i].slot) = d + 1
      BY <2>1 DEF EventSlotMatch
    <2> QED BY <1>8, <2>2
  <1>13. (Held <= Unread)' BY <1>2, <1>3, <1>6
  <1> QED BY <1>1, <1>10, <1>11, <1>12, <1>13 DEF EventSlotMatch

\* handle_rx_ok finds the slot of the event it has dequeued.
LEMMA MatchRead ==
  ASSUME TypeOK, EventSlotMatch, prop_radio_rx_get_rd_ptr
  PROVE  EventSlotMatch'
  <1>1. thr = "rx_ok" /\ UNCHANGED <<turn_state, rx_ring, rx_wr_idx, rx_rd_idx, queue>>
    BY DEF prop_radio_rx_get_rd_ptr, stateVars, rxVars
  <1> SUFFICES ASSUME turn_state # "DISABLED" PROVE EventSlotMatch'
    BY <1>1 DEF EventSlotMatch
  <1>2. Held = 1 BY <1>1 DEF Held
  <1>3. rx_rd_idx # rx_wr_idx
    BY <1>2, DistFacts DEF EventSlotMatch, Unread
  <1>4. thr' = "rx_reading"
    BY <1>3 DEF prop_radio_rx_get_rd_ptr
  <1>5. Held' = Held /\ Unread' = Unread
    BY <1>1, <1>4 DEF Held, Unread, Dist
  <1> QED BY <1>1, <1>4, <1>5 DEF EventSlotMatch, RxAt, Dist

\* The ring and the queue start empty.
LEMMA MatchStart ==
  ASSUME prop_radio_start
  PROVE  EventSlotMatch'
  <1>1. /\ queue' = << >> /\ rx_wr_idx' = 0 /\ rx_rd_idx' = 0 /\ thr' = "refill"
    BY DEF prop_radio_start
  <1>2. Held' = 0 /\ Unread' = 0
    BY <1>1, RingDist, DepthAssumption DEF Held, Unread, Dist
  <1>3. DOMAIN queue' = {} BY <1>1
  <1>4. (Held .. Unread - 1)' = {} BY <1>2
  <1> QED BY <1>1, <1>2, <1>3, <1>4 DEF EventSlotMatch

\* The peripherals never write an unread slot.
LEMMA MatchHw ==
  ASSUME TypeOK, RadioInv, EventInv, HwProgress \/ HwRxAddress \/ HwCompare
  PROVE  EventInv'
  <1>1. EventSlotMatch BY DEF EventInv
  <1>2. /\ UNCHANGED <<turn_state, rx_wr_idx, rx_rd_idx, thr, queue>>
    BY DEF HwProgress, HwReady, HwCrc, HwTxAddress, HwPhyEnd, HwDisabled, HwRxAddress,
           HwCompare, stateVars, rxVars
  <1>3. /\ rx_wr_idx \in RxSlots
        /\ \A s, t \in RxSlots : RxBuffer(s) = RxBuffer(t) => s = t
    BY BuffersApart DEF TypeOK, RxBuffer
  <1>4. CASE HwRxAddress
    <2>1. /\ dma = RxBuffer(rx_wr_idx) /\ ~CrcPending
      BY <1>4 DEF HwRxAddress, RadioInv, PointerInv, PendingInv
    <2>2. \A s \in RxSlots : s # rx_wr_idx => rx_ring'[s] = rx_ring[s]
      BY <1>3, <1>4, <2>1 DEF HwRxAddress, TypeOK
    <2>3. EventSlotMatch' BY <1>1, <1>2, <2>2, MatchFrame
    <2>4. CrcInv' BY <1>4, <2>1 DEF HwRxAddress, CrcInv, CrcPending
    <2> QED BY <2>3, <2>4 DEF EventInv
  <1>5. CASE HwCrc
    <2>1. /\ dma = RxBuffer(rx_wr_idx) /\ ~CrcPending
      BY <1>5 DEF HwCrc, RadioInv, PointerInv, PendingInv
    <2>2. PICK ok \in BOOLEAN :
            /\ pend' = pend \cup {IF ok THEN "CRCOK" ELSE "CRCERROR"}
            /\ rx_ring' = [i \in RxSlots |->
                             IF dma = RxBuffer(i)
                               THEN IF ok THEN "RX_OK" ELSE "RX_BAD"
                               ELSE rx_ring[i]]
      BY <1>5 DEF HwCrc
    <2>3. \A s \in RxSlots : s # rx_wr_idx => rx_ring'[s] = rx_ring[s]
      BY <1>3, <2>1, <2>2
    <2>4. EventSlotMatch' BY <1>1, <1>2, <2>3, MatchFrame
    <2>5. CrcInv' BY <1>2, <1>3, <2>1, <2>2 DEF CrcInv, CrcPending
    <2> QED BY <2>4, <2>5 DEF EventInv
  <1>6. CASE HwReady \/ HwTxAddress \/ HwPhyEnd \/ HwDisabled \/ HwCompare
    <2>1. /\ UNCHANGED rx_ring
          /\ pend' \subseteq pend \cup {"ADDRESS", "PHYEND"}
      BY <1>6 DEF HwReady, HwTxAddress, HwPhyEnd, HwDisabled, HwCompare, rxVars, hwVars
    <2>2. EventSlotMatch' BY <1>1, <1>2, <2>1, MatchFrame
    <2>3. CrcInv' BY <1>2, <2>1 DEF EventInv, CrcInv
    <2> QED BY <2>2, <2>3 DEF EventInv
  <1> QED BY <1>4, <1>5, <1>6 DEF HwProgress

\* radio_isr: only a CRC event touches the ring or puts an RX event.
LEMMA MatchRadioIsr ==
  ASSUME TypeOK, RadioInv, EventInv, RadioIsr
  PROVE  EventInv'
  <1>1. EventSlotMatch BY DEF EventInv
  <1>2. CASE IsrAddress
    <2>1. /\ UNCHANGED <<rx_ring, rx_wr_idx, rx_rd_idx, thr, queue>>
          /\ turn_state' # "DISABLED" => turn_state # "DISABLED"
          /\ pend' \subseteq pend
      BY <1>2 DEF IsrAddress, rxVars, stateVars
    <2>2. EventSlotMatch' BY <1>1, <2>1, MatchFrame
    <2>3. CrcInv' BY <2>1 DEF EventInv, CrcInv
    <2> QED BY <2>2, <2>3 DEF EventInv
  <1>3. ASSUME NEW event \in {"CRCOK", "CRCERROR"}, NEW type \in RxEventTypes,
               event = "CRCOK" <=> type = "RX_OK", IsrCrc(event, type)
        PROVE  EventInv'
    <2>1. EventSlotMatch' BY <1>3, MatchCrc
    <2>2. ~("CRCOK" \in pend' \/ "CRCERROR" \in pend')
      BY <1>3 DEF IsrCrc, EventInv, CrcInv
    <2> QED BY <2>1, <2>2 DEF EventInv, CrcInv
  <1>4. CASE IsrPhyEnd
    <2>1. /\ UNCHANGED <<rx_ring, rx_wr_idx, rx_rd_idx, thr>>
          /\ turn_state' # "DISABLED" => turn_state # "DISABLED"
          /\ pend' \subseteq pend
          /\ \/ UNCHANGED queue
             \/ queue' = Append(queue, Event("TX_END", NoSlot))
      BY <1>4 DEF IsrPhyEnd, rxVars, queue_session_event
    <2>2. EventSlotMatch'
      BY <1>1, <2>1, MatchFrame DEF EventTypes, RxEventTypes
    <2>3. CrcInv' BY <2>1 DEF EventInv, CrcInv
    <2> QED BY <2>2, <2>3 DEF EventInv
  <1> QED BY <1>2, <1>3, <1>4 DEF RadioIsr, RxEventTypes

\* timer_isr puts no RX event and leaves the ring alone.
LEMMA MatchTimerIsr ==
  ASSUME TypeOK, RadioInv, EventInv, TimerIsr
  PROVE  EventInv'
  <1> USE DEF hwVars, timerVars, stateVars, rxVars
  <1>1. /\ UNCHANGED <<rx_ring, rx_wr_idx, rx_rd_idx, thr>>
        /\ pend' \subseteq pend
    BY DEF TimerIsr, TimerEnter, TimerArmed, TimerIfRx, TimerIfListen, TimerTrigTurn,
           TimerTrigHw, TimerTest, TimerUnarm, TimerMask, TimerPuts, TimerPut,
           TimerTrigPtr, TimerTrigShort, TimerTrigClear, TimerTrigCommit,
           TimerTrigDisable
  <1>2. turn_state' # "DISABLED" => turn_state # "DISABLED"
    <2>1. CASE TimerTrigCommit
      BY <2>1 DEF TimerTrigCommit, RadioInv, TurnInv, Programmed
    <2>2. CASE ~TimerTrigCommit
      BY <2>2
      DEF TimerIsr, TimerEnter, TimerArmed, TimerIfRx, TimerIfListen, TimerTrigTurn,
          TimerTrigHw, TimerTest, TimerUnarm, TimerMask, TimerPuts, TimerPut,
          TimerTrigPtr, TimerTrigShort, TimerTrigClear, TimerTrigDisable
    <2> QED BY <2>1, <2>2
  <1>3. \/ UNCHANGED queue
        \/ \E type \in EventTypes \ RxEventTypes :
             queue' = Append(queue, Event(type, NoSlot))
    <2>1. CASE TimerPuts
      BY <2>1
      DEF TimerPuts, TimerPut, queue_session_event, EventTypes, RxEventTypes
    <2>2. CASE ~TimerPuts
      BY <2>2
      DEF TimerIsr, TimerEnter, TimerArmed, TimerIfRx, TimerIfListen, TimerTrigTurn,
          TimerTrigHw, TimerTest, TimerUnarm, TimerMask,
          TimerTrigPtr, TimerTrigShort, TimerTrigClear, TimerTrigCommit,
          TimerTrigDisable
    <2> QED BY <2>1, <2>2
  <1>4. EventSlotMatch' BY <1>1, <1>2, <1>3, MatchFrame DEF EventInv
  <1>5. CrcInv' BY <1>1 DEF EventInv, CrcInv
  <1> QED BY <1>4, <1>5 DEF EventInv

\* The session thread consumes in step with the ring.
LEMMA MatchThread ==
  ASSUME TypeOK, EventInv, Thread
  PROVE  EventInv'
  <1>1. EventSlotMatch BY DEF EventInv
  <1>2. CrcInv'
    <2>1. pend' = {}
      BY DEF Thread, prop_radio_start, prop_radio_stop,
             prop_radio_dequeue_session_event, prop_radio_rx_get_rd_ptr,
             prop_radio_rx_advance_rd_idx, prop_radio_tx_get_wr_ptr,
             prop_radio_tx_advance_wr_idx, CpuFree, NothingPending, hwVars
    <2> QED BY <2>1 DEF CrcInv
  <1> SUFFICES EventSlotMatch' BY <1>2 DEF EventInv
  <1>3. CASE prop_radio_start BY <1>3, MatchStart
  <1>4. CASE prop_radio_stop BY <1>4 DEF prop_radio_stop, EventSlotMatch
  <1>5. CASE prop_radio_dequeue_session_event BY <1>1, <1>5, MatchDequeue
  <1>6. CASE prop_radio_rx_get_rd_ptr BY <1>1, <1>6, MatchRead
  <1>7. CASE prop_radio_rx_advance_rd_idx BY <1>1, <1>7, MatchRelease
  <1>8. CASE prop_radio_tx_get_wr_ptr \/ prop_radio_tx_advance_wr_idx
    <2>1. /\ UNCHANGED <<turn_state, rx_ring, rx_wr_idx, rx_rd_idx, queue>>
          /\ thr \notin {"rx_ok", "rx_reading", "rx_bad"}
          /\ thr' \notin {"rx_ok", "rx_reading", "rx_bad"}
      BY <1>8
      DEF prop_radio_tx_get_wr_ptr, prop_radio_tx_advance_wr_idx, stateVars, rxVars
    <2> QED BY <1>1, <2>1, MatchFrame
  <1> QED BY <1>3, <1>4, <1>5, <1>6, <1>7, <1>8 DEF Thread

\* EventInv is inductive, relative to the types and RadioInv.
LEMMA NextEventInv == TypeOK /\ RadioInv /\ EventInv /\ [Next]_vars => EventInv'
  <1> SUFFICES ASSUME TypeOK, RadioInv, EventInv, [Next]_vars PROVE EventInv'
    OBVIOUS
  <1>1. CASE UNCHANGED vars
    <2>1. UNCHANGED <<pend, turn_state, rx_ring, rx_wr_idx, rx_rd_idx, queue, thr>>
      BY <1>1 DEF vars, hwVars, stateVars, rxVars
    <2>2. EventSlotMatch' BY <2>1, MatchFrame DEF EventInv
    <2>3. CrcInv' BY <2>1 DEF EventInv, CrcInv
    <2> QED BY <2>2, <2>3 DEF EventInv
  <1>2. CASE Next
    BY <1>1, <1>2, MatchHw, MatchRadioIsr, MatchTimerIsr, MatchThread DEF Next, Parked
  <1> QED BY <1>1, <1>2

\* The event stream and the RX ring never disagree, for every ring and queue
\* depth and wherever radio interrupts fall: handle_rx_ok's assertion
\* that an RX_OK event finds its packet (session.c:236) cannot fire.
THEOREM EventsMatchSlots == Spec => []EventSlotMatch
  <1>1. Init => EventInv BY DEF Init, EventInv, CrcInv, EventSlotMatch
  <1>2. TypeOK /\ RadioInv /\ EventInv /\ [Next]_vars => EventInv'
    BY NextEventInv
  <1>3. EventInv => EventSlotMatch BY DEF EventInv
  <1> QED BY <1>1, <1>2, <1>3, TypeCorrect, RadioInvariant, PTL DEF Spec
=============================================================================
