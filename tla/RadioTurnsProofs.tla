-------------------------- MODULE RadioTurnsProofs --------------------------
(***************************************************************************)
(* The stop, the TX ring and the turns: theorems about RadioCore, for      *)
(* every ring and queue depth.  All about the turns and what is on air     *)
(* assumes that no radio event falls inside timer_isr; RadioLateAddress    *)
(* shows that it has to.                                                   *)
(***************************************************************************)
EXTENDS RadioCoreProofs

-----------------------------------------------------------------------------
(* The stop *)

\* SilentInv is inductive: only the start leaves the stopped state.
LEMMA NextSilent == TypeOK /\ SilentInv /\ [Next]_vars => SilentInv'
  <1> SUFFICES ASSUME TypeOK, SilentInv, [Next]_vars PROVE SilentInv' OBVIOUS
  <1> USE DEF SilentInv, TypeOK, hwVars, timerVars, stateVars, txVars, rxVars
  <1>1. CASE UNCHANGED vars BY <1>1 DEF vars
  <1>2. CASE HwProgress \/ HwRxAddress \/ HwCompare
    BY <1>2
    DEF HwProgress, HwReady, HwCrc, HwTxAddress, HwPhyEnd, HwDisabled, HwRxAddress,
        HwCompare
  <1>3. CASE RadioIsr
    BY <1>3
    DEF RadioIsr, IsrAddress, IsrCrc, IsrPhyEnd
  <1>4. CASE TimerIsr
    BY <1>4
    DEF TimerIsr, TimerEnter, TimerArmed, TimerUnarm, TimerMask, TimerIfRx,
        TimerIfListen, TimerPuts, TimerPut, TimerTrigTurn, TimerTrigHw, TimerTrigPtr,
        TimerTrigShort, TimerTrigClear, TimerTrigCommit, TimerTrigDisable, TimerTest
  <1>5. CASE Thread
    BY <1>5
    DEF Thread, prop_radio_start, prop_radio_stop, prop_radio_dequeue_session_event,
        prop_radio_rx_get_rd_ptr, prop_radio_rx_advance_rd_idx,
        prop_radio_tx_get_wr_ptr, prop_radio_tx_advance_wr_idx, TimerIdle
  <1> QED BY <1>1, <1>2, <1>3, <1>4, <1>5 DEF Next, Parked

\* A stopped radio stays quiet: no event, no packet, no turn, although its
\* deadline interrupt is left enabled (radio_core.c, prop_radio_stop).
THEOREM StopsQuietly == Spec => []StoppedIsQuiet
  <1>1. Init => SilentInv BY DEF Init, SilentInv
  <1>2. SilentInv => StoppedIsQuiet BY DEF SilentInv, StoppedIsQuiet, Stopped
  <1> QED BY <1>1, <1>2, NextSilent, TypeCorrect, PTL DEF Spec

-----------------------------------------------------------------------------
(* The TX ring *)

\* TxDist is a numbering of the slots, from 0 at the read index.
LEMMA TxDistFacts ==
  ASSUME TypeOK
  PROVE  /\ \A s \in TxSlots : TxDist(s) \in 0 .. TX_RING_DEPTH - 1
         /\ \A s, t \in TxSlots : TxDist(s) = TxDist(t) => s = t
         /\ TxDist(tx_rd_idx) = 0
         /\ Unsent \in 0 .. TX_RING_DEPTH - 1
         /\ Unsent > 0 <=> ~tx_ring_empty
  <1>1. /\ tx_rd_idx \in 0 .. TX_RING_DEPTH - 1
        /\ tx_wr_idx \in 0 .. TX_RING_DEPTH - 1
        /\ TX_RING_DEPTH \in Nat /\ TX_RING_DEPTH > 1
    BY DepthAssumption DEF TypeOK, TxSlots
  <1>2. \A s \in 0 .. TX_RING_DEPTH - 1 :
          TxDist(s) = IF s >= tx_rd_idx THEN s - tx_rd_idx
                                        ELSE s - tx_rd_idx + TX_RING_DEPTH
    BY <1>1, RingDist DEF TxDist
  <1> HIDE DEF TxDist
  <1> QED BY <1>1, <1>2 DEF TxSlots, Unsent, tx_ring_empty

\* Committing to a ring that is not full adds one unsent slot.
LEMMA AdvanceTxWrite ==
  ASSUME TypeOK, ~tx_ring_full, tx_wr_idx' = next_tx_idx(tx_wr_idx),
         UNCHANGED tx_rd_idx
  PROVE  /\ \A s \in TxSlots : TxDist(s)' = TxDist(s)
         /\ Unsent' = Unsent + 1 /\ Unsent = TxDist(tx_wr_idx)
         /\ ~tx_ring_empty'
  <1> DEFINE w == next_tx_idx(tx_wr_idx)
  <1>1. /\ w = IF tx_wr_idx = TX_RING_DEPTH - 1 THEN 0 ELSE tx_wr_idx + 1
        /\ w \in 0 .. TX_RING_DEPTH - 1
    BY NextIdx, DepthAssumption DEF TypeOK, TxSlots, next_tx_idx
  <1>2. w # tx_rd_idx BY DEF tx_ring_full
  <1>3. /\ TxDist(w) = IF w >= tx_rd_idx THEN w - tx_rd_idx
                                         ELSE w - tx_rd_idx + TX_RING_DEPTH
        /\ Unsent = IF tx_wr_idx >= tx_rd_idx
                      THEN tx_wr_idx - tx_rd_idx
                      ELSE tx_wr_idx - tx_rd_idx + TX_RING_DEPTH
    BY <1>1, RingDist, DepthAssumption DEF TypeOK, TxSlots, TxDist, Unsent
  <1>4. TxDist(w) = Unsent + 1
    BY <1>1, <1>2, <1>3, DepthAssumption DEF TypeOK, TxSlots
  <1>5. Unsent' = TxDist(w) BY DEF Unsent, TxDist
  <1>6. ~tx_ring_empty' BY <1>2 DEF tx_ring_empty
  <1> QED BY <1>4, <1>5, <1>6 DEF TxDist, Unsent

\* Releasing the head brings every other slot, and the write index, one step
\* nearer, and puts the head furthest behind.
LEMMA AdvanceTxRead ==
  ASSUME TypeOK, ~tx_ring_empty, tx_rd_idx' = next_tx_idx(tx_rd_idx),
         UNCHANGED tx_wr_idx
  PROVE  /\ \A s \in TxSlots : TxDist(s)' = IF s = tx_rd_idx THEN TX_RING_DEPTH - 1
                                                            ELSE TxDist(s) - 1
         /\ Unsent' = Unsent - 1
         /\ tx_rd_idx' \in TxSlots
         /\ \A i \in TxSlots : next_tx_idx(i) = tx_rd_idx' => i = tx_rd_idx
  <1> DEFINE r == next_tx_idx(tx_rd_idx)
  <1>1. /\ r = IF tx_rd_idx = TX_RING_DEPTH - 1 THEN 0 ELSE tx_rd_idx + 1
        /\ r \in 0 .. TX_RING_DEPTH - 1
        /\ \A i \in TxSlots : next_tx_idx(i) = IF i = TX_RING_DEPTH - 1 THEN 0 ELSE i + 1
    BY NextIdx, DepthAssumption DEF TypeOK, TxSlots, next_tx_idx
  <1>2. \A s \in TxSlots :
          /\ TxDist(s) = IF s >= tx_rd_idx THEN s - tx_rd_idx
                                           ELSE s - tx_rd_idx + TX_RING_DEPTH
          /\ TxDist(s)' = IF s >= r THEN s - r ELSE s - r + TX_RING_DEPTH
    BY <1>1, RingDist, DepthAssumption DEF TypeOK, TxSlots, TxDist
  <1>3. tx_wr_idx \in TxSlots /\ tx_wr_idx # tx_rd_idx /\ tx_rd_idx \in TxSlots
    BY DEF TypeOK, tx_ring_empty
  <1>4. Unsent = TxDist(tx_wr_idx) /\ Unsent' = TxDist(tx_wr_idx)'
    BY DEF Unsent, TxDist
  <1>5. TX_RING_DEPTH \in Nat /\ TX_RING_DEPTH > 1 /\ TxSlots = 0 .. TX_RING_DEPTH - 1
    BY DepthAssumption DEF TxSlots
  <1> HIDE DEF TxDist, Unsent
  <1>6. \A s \in TxSlots : TxDist(s)' = IF s = tx_rd_idx THEN TX_RING_DEPTH - 1
                                                         ELSE TxDist(s) - 1
    <2> SUFFICES ASSUME NEW s \in TxSlots
                 PROVE  TxDist(s)' = IF s = tx_rd_idx THEN TX_RING_DEPTH - 1
                                                      ELSE TxDist(s) - 1
      OBVIOUS
    <2>1. PICK n \in Nat, k \in Nat :
            n = TX_RING_DEPTH /\ k = tx_rd_idx /\ n > 1 /\ k \in 0 .. n - 1
      BY <1>3, <1>5
    <2>2. /\ TxDist(s) = IF s >= k THEN s - k ELSE s - k + n
          /\ TxDist(s)' = IF s >= r THEN s - r ELSE s - r + n
      BY <1>2, <2>1
    <2>3. r = IF k = n - 1 THEN 0 ELSE k + 1 BY <1>1, <2>1
    <2>4. s \in 0 .. n - 1 BY <1>5, <2>1
    <2> HIDE DEF r
    <2>5. TxDist(s)' = IF s = k THEN n - 1 ELSE TxDist(s) - 1 BY <2>1, <2>2, <2>3, <2>4
    <2> QED BY <2>1, <2>5
  <1>7. \A i \in TxSlots : next_tx_idx(i) = r => i = tx_rd_idx
    BY <1>1, <1>3, <1>5
  <1> QED BY <1>1, <1>3, <1>4, <1>5, <1>6, <1>7

\* TX buffers name their slots, and no other buffer is one.
LEMMA TxBuffersApart ==
  /\ \A s, t : TxBuffer(s) = TxBuffer(t) => s = t
  /\ \A s, t : TxBuffer(s) # RxBuffer(t) /\ TxBuffer(s) # Keepalive
  /\ \A s : NextTxBuffer = TxBuffer(s) => s = tx_rd_idx /\ ~tx_ring_empty
  BY DEF TxBuffer, RxBuffer, Keepalive, NextTxBuffer

\* The next packet is the head of the ring, if it has one.
LEMMA ChoosesHead ==
  ASSUME TypeOK, packetptr' = NextTxBuffer, tx_packet_from_ring' = ~tx_ring_empty
  PROVE  /\ \A s \in TxSlots : packetptr' = TxBuffer(s) =>
              s = tx_rd_idx /\ tx_packet_from_ring' /\ TxDist(s) < Unsent
         /\ tx_packet_from_ring' => ~tx_ring_empty
  BY TxBuffersApart, TxDistFacts

\* While the indices stay, so do the distances.
LEMMA TxDistKept ==
  ASSUME UNCHANGED <<tx_rd_idx, tx_wr_idx>>
  PROVE  /\ \A s : TxDist(s)' = TxDist(s)
         /\ Unsent' = Unsent
         /\ tx_ring_empty' = tx_ring_empty /\ tx_ring_full' = tx_ring_full
  BY DEF TxDist, Unsent, tx_ring_empty, tx_ring_full

\* What the radio does leaves the choice and the ring's indices alone.
LEMMA HwFill ==
  ASSUME TypeOK, RadioInv, FillInv, HwProgress \/ HwRxAddress \/ HwCompare
  PROVE  FillInv'
  <1> USE DEF FillInv, Chosen, Programmed, timerVars, stateVars, txVars
  <1>1. UNCHANGED <<packetptr, tx_rd_idx, tx_wr_idx, tx_packet_from_ring, turn_state,
                    tmr, thr>>
    BY DEF HwProgress, HwReady, HwCrc, HwTxAddress, HwPhyEnd, HwDisabled, HwRxAddress,
           HwCompare, hwVars
  <1>2. \A s \in TxSlots : tx_ring'[s] = "filling" => tx_ring[s] = "filling"
    BY DEF HwProgress, HwReady, HwCrc, HwTxAddress, HwPhyEnd, HwDisabled, HwRxAddress,
           HwCompare, TypeOK
  <1>3. hw' \in {"tx", "txpkt"} =>
          \/ dma' = packetptr
          \/ hw \in {"tx", "txpkt"} /\ dma' = dma
    BY DEF HwProgress, HwReady, HwCrc, HwTxAddress, HwPhyEnd, HwDisabled, HwRxAddress,
           HwCompare, hwVars
  <1>4. pend' = pend \/ OnAir
    BY DEF HwProgress, HwReady, HwCrc, HwTxAddress, HwPhyEnd, HwDisabled, HwRxAddress,
           HwCompare, hwVars, OnAir
  <1>5. /\ tmr \in {"trig_hw", "trig_ptr"} \/ Programmed
        /\ turn_state = "IN_TX"
        => ~OnAir
    BY DEF RadioInv, TurnInv
  <1> QED BY <1>1, <1>2, <1>3, <1>4, <1>5, TxDistKept

\* radio_isr chooses the head, and releases the head it chose.
LEMMA RadioIsrFill ==
  ASSUME TypeOK, RadioInv, FillInv, RadioIsr
  PROVE  FillInv'
  <1> USE DEF FillInv, Chosen, Programmed, timerVars, stateVars, txVars, rxVars
  <1>1. CASE IsrAddress
    <2>1. UNCHANGED <<hw, dma, tmr, tx_ring, tx_rd_idx, tx_wr_idx, thr>>
      BY <1>1 DEF IsrAddress
    <2>2. CASE turn_state = "LISTEN"
      <3>1. /\ packetptr' = NextTxBuffer /\ tx_packet_from_ring' = ~tx_ring_empty
            /\ turn_state' = "IN_RX"
        BY <1>1, <2>2 DEF IsrAddress, program_tx_packetptr
      <3>2. /\ \A s \in TxSlots : packetptr' = TxBuffer(s) =>
                 s = tx_rd_idx /\ tx_packet_from_ring' /\ TxDist(s) < Unsent
            /\ tx_packet_from_ring' => ~tx_ring_empty
        BY <3>1, ChoosesHead
      <3> QED BY <2>1, <3>1, <3>2, TxDistKept
    <2>3. CASE turn_state = "IN_TX"
      <3>1. /\ packetptr' = RxBuffer(rx_wr_idx)
            /\ UNCHANGED <<turn_state, tx_packet_from_ring>>
            /\ pend' \subseteq pend
        BY <1>1, <2>3 DEF IsrAddress, program_rx_packetptr
      <3> QED BY <2>1, <3>1, TxDistKept, TxBuffersApart
    <2>4. CASE turn_state \in {"IN_RX", "DISABLED"}
      <3>1. UNCHANGED <<turn_state, tx_packet_from_ring, packetptr>> /\ pend' \subseteq pend
        BY <1>1, <2>4 DEF IsrAddress
      <3> QED BY <2>1, <3>1, TxDistKept
    <2> QED BY <2>2, <2>3, <2>4 DEF TypeOK, TurnStates
  <1>2. ASSUME NEW event \in {"CRCOK", "CRCERROR"}, NEW type \in RxEventTypes,
               IsrCrc(event, type)
        PROVE  FillInv'
    <2>1. /\ UNCHANGED <<packetptr, hw, dma, tmr, turn_state, tx_packet_from_ring, tx_ring,
                         tx_rd_idx, tx_wr_idx, thr>>
          /\ pend' \subseteq pend
      BY <1>2 DEF IsrCrc, clear_deadline
    <2> QED BY <2>1, TxDistKept
  <1>3. CASE IsrPhyEnd
    <2>1. /\ UNCHANGED <<packetptr, hw, dma, tmr, tx_packet_from_ring, tx_wr_idx, thr>>
          /\ pend' = pend \ {"PHYEND"} /\ ~OnAir /\ ~CrcPending /\ "PHYEND" \in pend
      BY <1>3 DEF IsrPhyEnd, RadioInv, PendingInv, CrcPending
    <2>2. CASE turn_state = "IN_RX"
      <3>1. turn_state' = "IN_TX" /\ UNCHANGED <<tx_ring, tx_rd_idx>>
        BY <1>3, <2>2 DEF IsrPhyEnd
      <3>2. pend' = {} BY <2>1 DEF RadioInv, PendingInv, CrcPending, TypeOK
      <3> QED BY <2>1, <2>2, <3>1, <3>2, TxDistKept
    <2>3. CASE turn_state = "IN_TX" /\ ~tx_packet_from_ring
      <3>1. turn_state' = "LISTEN" /\ UNCHANGED <<tx_ring, tx_rd_idx>>
        BY <1>3, <2>3 DEF IsrPhyEnd
      <3> QED BY <2>1, <2>3, <3>1, TxDistKept
    <2>4. CASE turn_state = "IN_TX" /\ tx_packet_from_ring
      <3>1. /\ turn_state' = "LISTEN" /\ tx_rd_idx' = next_tx_idx(tx_rd_idx)
            /\ tx_ring' = [tx_ring EXCEPT ![tx_rd_idx] = "free"]
        BY <1>3, <2>4 DEF IsrPhyEnd
      <3>2. ~tx_ring_empty /\ ~Programmed BY <2>1, <2>4
      <3>3. ~Chosen' BY <2>1, <3>1, <3>2
      <3>4. \A s \in TxSlots : packetptr' = TxBuffer(s) => TxDist(s)' = TX_RING_DEPTH - 1
        BY <2>1, <2>4, <3>1, <3>2, AdvanceTxRead
      <3>5. ~(hw' \in {"tx", "txpkt"}) BY <2>1 DEF OnAir
      <3>6. thr' = "filling" => ~tx_ring_full'
        BY <2>1, <3>1, <3>2, AdvanceTxRead DEF tx_ring_full, TypeOK, tx_ring_empty
      <3>7. \A s \in TxSlots : tx_ring'[s] = "filling" => tx_ring[s] = "filling"
        BY <3>1 DEF TypeOK
      <3>8. ~(tmr' \in {"trig_hw", "trig_ptr"} \/ Programmed') \/ turn_state' # "IN_TX"
        BY <3>1
      <3> QED BY <2>1, <3>3, <3>4, <3>5, <3>6, <3>7, <3>8
    <2>5. CASE turn_state \in {"LISTEN", "DISABLED"}
      <3>1. UNCHANGED <<turn_state, tx_ring, tx_rd_idx>> BY <1>3, <2>5 DEF IsrPhyEnd
      <3> QED BY <2>1, <2>5, <3>1, TxDistKept
    <2> QED BY <2>2, <2>3, <2>4, <2>5 DEF TypeOK, TurnStates
  <1> QED BY <1>1, <1>2, <1>3 DEF RadioIsr, RxEventTypes

\* timer_isr chooses the head.
LEMMA TimerIsrFill ==
  ASSUME TypeOK, RadioInv, FillInv, TimerIsr
  PROVE  FillInv'
  <1> USE DEF FillInv, Chosen, Programmed, hwVars, timerVars, stateVars, txVars
  <1>1. /\ UNCHANGED <<dma, tx_ring, tx_rd_idx, tx_wr_idx, thr>>
        /\ pend' \subseteq pend
        /\ hw' \in {"tx", "txpkt"} => hw' = hw
    BY DEF TimerIsr, TimerEnter, TimerArmed, TimerUnarm, TimerMask, TimerIfRx,
           TimerIfListen, TimerPuts, TimerPut, TimerTrigTurn, TimerTrigHw, TimerTrigPtr,
           TimerTrigShort, TimerTrigClear, TimerTrigCommit, TimerTrigDisable, TimerTest
  <1>2. CASE TimerTrigPtr
    <2>1. /\ packetptr' = NextTxBuffer /\ tx_packet_from_ring' = ~tx_ring_empty
          /\ turn_state' = turn_state /\ tmr = "trig_ptr" /\ tmr' = "trig_short"
      BY <1>2 DEF TimerTrigPtr
    <2>2. /\ \A s \in TxSlots : packetptr' = TxBuffer(s) =>
               s = tx_rd_idx /\ tx_packet_from_ring' /\ TxDist(s) < Unsent
          /\ tx_packet_from_ring' => ~tx_ring_empty
      BY <2>1, ChoosesHead
    <2>3. turn_state' = "IN_TX" => pend' = {} BY <1>1, <2>1
    <2> QED BY <1>1, <2>1, <2>2, <2>3, TxDistKept
  <1>3. CASE TimerTrigCommit
    <2>1. /\ UNCHANGED <<packetptr, tx_packet_from_ring>>
          /\ tmr = "trig_commit" /\ tmr' = "trig_disable"
      BY <1>3 DEF TimerTrigCommit
    <2> QED BY <1>1, <2>1, TxDistKept
  <1>4. CASE TimerTrigTurn
    <2>1. /\ UNCHANGED <<packetptr, tx_packet_from_ring, turn_state>>
          /\ tmr = "trig_turn" /\ tmr' \in {"trig_hw", "put_failed"}
          /\ tmr' = "trig_hw" => turn_state # "IN_TX"
      BY <1>4 DEF TimerTrigTurn, TimerTest
    <2> QED BY <1>1, <2>1, TxDistKept
  <1>5. CASE ~TimerTrigPtr /\ ~TimerTrigCommit /\ ~TimerTrigTurn
    <2>1. /\ UNCHANGED <<packetptr, tx_packet_from_ring, turn_state>>
          /\ Programmed' => Programmed
          /\ tmr' \in {"trig_hw", "trig_ptr"} => tmr \in {"trig_hw", "trig_ptr"}
      BY <1>5
      DEF TimerIsr, TimerEnter, TimerArmed, TimerUnarm, TimerMask, TimerIfRx,
          TimerIfListen, TimerPuts, TimerPut, TimerTrigHw, TimerTrigShort,
          TimerTrigClear, TimerTrigDisable, TimerTest
    <2> QED BY <1>1, <2>1, TxDistKept
  <1> QED BY <1>2, <1>3, <1>4, <1>5

\* The thread fills the one slot that is free, and commits it.
LEMMA ThreadFill ==
  ASSUME TypeOK, FillInv, Thread
  PROVE  FillInv'
  <1> USE DEF FillInv, Chosen, Programmed, hwVars, timerVars, stateVars, txVars
  <1>1. CASE prop_radio_start
    <2>1. /\ packetptr' = RxBuffer(0) /\ hw' = "rxru" /\ thr' = "refill"
          /\ tx_packet_from_ring' = FALSE /\ UNCHANGED tx_ring /\ thr = "boot"
          /\ turn_state' = "LISTEN"
      BY <1>1 DEF prop_radio_start
    <2> QED BY <2>1, TxBuffersApart
  <1>2. CASE prop_radio_stop
    <2>1. /\ hw' = "disable" /\ thr = "stop" /\ thr' = "idle" /\ turn_state' = "DISABLED"
          /\ tx_packet_from_ring' = FALSE /\ tmr = "idle" /\ tmr' = "idle"
          /\ UNCHANGED <<packetptr, tx_ring, tx_rd_idx, tx_wr_idx>>
      BY <1>2 DEF prop_radio_stop, TimerIdle
    <2> QED BY <2>1, TxDistKept
  <1>3. CASE prop_radio_tx_get_wr_ptr
    <2>1. /\ UNCHANGED <<packetptr, hw, dma, tmr, pend, turn_state, tx_packet_from_ring,
                         tx_rd_idx, tx_wr_idx>>
          /\ thr = "refill"
          /\ \/ thr' = "idle" /\ UNCHANGED tx_ring
             \/ /\ ~tx_ring_full /\ thr' = "filling"
                /\ tx_ring' = [tx_ring EXCEPT ![tx_wr_idx] = "filling"]
      BY <1>3 DEF prop_radio_tx_get_wr_ptr
    <2>2. \A s \in TxSlots : tx_ring'[s] = "filling" => thr' = "filling" /\ s = tx_wr_idx'
      BY <2>1 DEF TypeOK
    <2> QED BY <2>1, <2>2, TxDistKept
  <1>4. CASE prop_radio_tx_advance_wr_idx
    <2>1. /\ UNCHANGED <<packetptr, hw, dma, tmr, pend, turn_state, tx_packet_from_ring,
                         tx_rd_idx>>
          /\ thr = "filling" /\ thr' = "refill"
          /\ tx_wr_idx' = next_tx_idx(tx_wr_idx)
          /\ tx_ring' = [tx_ring EXCEPT ![tx_wr_idx] = "ready"]
      BY <1>4 DEF prop_radio_tx_advance_wr_idx
    <2>2. /\ \A s \in TxSlots : TxDist(s)' = TxDist(s)
          /\ Unsent' = Unsent + 1 /\ ~tx_ring_empty'
      BY <2>1, AdvanceTxWrite
    <2>3. \A s \in TxSlots : tx_ring'[s] # "filling" BY <2>1 DEF TypeOK
    <2>4. /\ Unsent \in Nat /\ TX_RING_DEPTH \in Nat
          /\ \A s \in TxSlots : TxDist(s) \in Nat
      BY TxDistFacts, DepthAssumption
    <2>5. \A s \in TxSlots : TxDist(s) < Unsent \/ TxDist(s) = TX_RING_DEPTH - 1
            => TxDist(s)' < Unsent' \/ TxDist(s)' = TX_RING_DEPTH - 1
      BY <2>2, <2>4
    <2> QED BY <2>1, <2>2, <2>3, <2>5
  <1>5. CASE \/ prop_radio_dequeue_session_event \/ prop_radio_rx_get_rd_ptr
             \/ prop_radio_rx_advance_rd_idx
    <2>1. /\ UNCHANGED <<packetptr, hw, dma, tmr, pend, turn_state, tx_packet_from_ring,
                         tx_rd_idx, tx_wr_idx, tx_ring>>
          /\ thr # "filling"
      BY <1>5 DEF prop_radio_dequeue_session_event, prop_radio_rx_get_rd_ptr,
                  prop_radio_rx_advance_rd_idx
    <2>2. thr' # "filling"
      <3>1. CASE prop_radio_dequeue_session_event
        <4>1. queue \in Seq(Events) /\ queue # << >> /\ thr' = Handler[Head(queue).type]
          BY <3>1 DEF prop_radio_dequeue_session_event, TypeOK
        <4>2. Head(queue) \in Events BY <4>1
        <4>3. Head(queue).type \in EventTypes BY <4>2 DEF Events
        <4> QED BY <4>1, <4>3 DEF Handler, EventTypes, RxEventTypes
      <3> QED BY <1>5, <3>1 DEF prop_radio_rx_get_rd_ptr, prop_radio_rx_advance_rd_idx
    <2> QED BY <2>1, <2>2, TxDistKept
  <1> QED BY <1>1, <1>2, <1>3, <1>4, <1>5 DEF Thread

\* FillInv is inductive, relative to the types and RadioInv.
LEMMA NextFill == TypeOK /\ RadioInv /\ FillInv /\ [Next]_vars => FillInv'
  <1> SUFFICES ASSUME TypeOK, RadioInv, FillInv, [Next]_vars PROVE FillInv' OBVIOUS
  <1>1. CASE UNCHANGED vars
    <2>1. UNCHANGED <<packetptr, hw, dma, tmr, pend, turn_state, tx_packet_from_ring,
                      tx_rd_idx, tx_wr_idx, tx_ring, thr>>
      BY <1>1 DEF vars, hwVars, stateVars, txVars
    <2> QED BY <2>1, TxDistKept DEF FillInv, Chosen, Programmed
  <1>2. CASE Next
    BY <1>1, <1>2, HwFill, RadioIsrFill, TimerIsrFill, ThreadFill DEF Next, Parked
  <1> QED BY <1>1, <1>2

\* The radio starts pointed at no TX slot, and no slot is being filled.
LEMMA InitFill == Init => FillInv
  BY TxBuffersApart DEF Init, FillInv, Chosen, Programmed

\* The session never fills the slot the radio is sending, for every ring depth,
\* not even when a preempted timer_isr has released it early.
THEOREM TxFillIsPrivate == Spec => []TxFillPrivate
  <1>1. TypeOK /\ FillInv => TxFillPrivate
    <2> SUFFICES ASSUME TypeOK, FillInv, hw \in {"tx", "txpkt"}, NEW s \in TxSlots,
                        dma = TxBuffer(s), tx_ring[s] = "filling"
                 PROVE  FALSE
      BY DEF TxFillPrivate
    <2>1. thr = "filling" /\ s = tx_wr_idx /\ ~tx_ring_full BY DEF FillInv
    <2>2. Unsent < Unsent \/ Unsent = TX_RING_DEPTH - 1
      BY <2>1 DEF FillInv, Unsent
    <2>3. next_tx_idx(tx_wr_idx) \in TxSlots /\ next_tx_idx(tx_wr_idx) # tx_rd_idx
      BY <2>1, NextInRing DEF TypeOK, tx_ring_full
    <2>4. Unsent < TX_RING_DEPTH - 1
      <3>1. PICK n \in Nat, r \in Nat, w \in Nat :
              /\ n = TX_RING_DEPTH /\ r = tx_rd_idx /\ w = tx_wr_idx /\ n > 1
              /\ r \in 0 .. n - 1 /\ w \in 0 .. n - 1
        BY DepthAssumption DEF TypeOK, TxSlots
      <3>2. Unsent = IF w >= r THEN w - r ELSE w - r + n
        BY <3>1, RingDist DEF Unsent, TxDist
      <3>3. (IF w = n - 1 THEN 0 ELSE w + 1) # r
        BY <2>3, <3>1, NextIdx DEF next_tx_idx
      <3> QED BY <3>1, <3>2, <3>3
    <2>5. Unsent \in Nat /\ TX_RING_DEPTH \in Nat BY TxDistFacts, DepthAssumption
    <2> QED BY <2>2, <2>4, <2>5
  <1> QED
    BY <1>1, InitFill, NextFill, TypeCorrect, RadioInvariant, PTL DEF Spec

-----------------------------------------------------------------------------
(* The turns, when no radio event falls inside timer_isr *)

\* What the queue gains, other than TX_TRIGGER_FAILED, and what it loses keep
\* TriggerNeverFails.
LEMMA QueueTriggers ==
  ASSUME TypeOK, TriggerNeverFails, tmr' # "put_failed",
         \/ UNCHANGED queue
         \/ queue' = << >>
         \/ queue # << >> /\ queue' = Tail(queue)
         \/ \E type \in EventTypes \ {"TX_TRIGGER_FAILED"} : \E slot :
              queue' = Append(queue, Event(type, slot))
  PROVE  TriggerNeverFails'
  <1>1. queue \in Seq(Events) BY DEF TypeOK
  <1>2. CASE UNCHANGED queue BY <1>2 DEF TriggerNeverFails
  <1>3. CASE queue' = << >> BY <1>3 DEF TriggerNeverFails
  <1>4. CASE queue # << >> /\ queue' = Tail(queue)
    <2>1. \A i \in DOMAIN queue' : i + 1 \in DOMAIN queue /\ queue'[i] = queue[i + 1]
      BY <1>1, <1>4
    <2> QED BY <2>1 DEF TriggerNeverFails
  <1>5. ASSUME NEW type \in EventTypes \ {"TX_TRIGGER_FAILED"}, NEW slot,
               queue' = Append(queue, Event(type, slot))
        PROVE  TriggerNeverFails'
    <2>1. \A i \in DOMAIN queue' :
            \/ i \in DOMAIN queue /\ queue'[i] = queue[i]
            \/ queue'[i] = Event(type, slot)
      BY <1>1, <1>5
    <2>2. Event(type, slot).type # "TX_TRIGGER_FAILED" BY DEF Event
    <2> QED BY <2>1, <2>2 DEF TriggerNeverFails
  <1> QED BY <1>2, <1>3, <1>4, <1>5

\* The radio goes through its turn only while timer_isr does not run.
LEMMA HwTurns ==
  ASSUME ~RadioInTimerIsr, TypeOK, TurnsInv, HwProgress \/ HwRxAddress \/ HwCompare
  PROVE  TurnsInv'
  <1> USE DEF timerVars, stateVars, txVars, rxVars
  <1>1. TimerIdle' = TimerIdle /\ UNCHANGED <<tmr, turn_state, thr, queue, short>>
    BY DEF HwProgress, HwReady, HwCrc, HwTxAddress, HwPhyEnd, HwDisabled, HwRxAddress,
           HwCompare, hwVars, TimerIdle
  <1>2. thr' # "stop" /\ TriggerNeverFails'
    BY <1>1 DEF TurnsInv, TriggerNeverFails
  <1>3. CASE TimerIdle
    <2>1. TurnOfRadio BY <1>3 DEF TurnsInv
    <2>2. TurnOfRadio'
      <3>1. CASE HwReady BY <1>1, <2>1, <3>1 DEF HwReady, TurnOfRadio
      <3>2. CASE HwCrc BY <1>1, <2>1, <3>2 DEF HwCrc, TurnOfRadio
      <3>3. CASE HwTxAddress BY <1>1, <2>1, <3>3 DEF HwTxAddress, TurnOfRadio
      <3>4. CASE HwPhyEnd BY <1>1, <2>1, <3>4 DEF HwPhyEnd, TurnOfRadio
      <3>5. CASE HwDisabled BY <1>1, <2>1, <3>5 DEF HwDisabled, TurnOfRadio
      <3>6. CASE HwRxAddress BY <1>1, <2>1, <3>6 DEF HwRxAddress, TurnOfRadio
      <3>7. CASE HwCompare BY <1>1, <2>1, <3>7 DEF HwCompare, TurnOfRadio, hwVars
      <3> QED BY <3>1, <3>2, <3>3, <3>4, <3>5, <3>6, <3>7 DEF HwProgress
    <2>3. DeadlineInv'
      BY <1>1, <2>1
      DEF HwProgress, HwReady, HwCrc, HwTxAddress, HwPhyEnd, HwDisabled, HwRxAddress,
          HwCompare, hwVars, TurnOfRadio, TurnsInv, DeadlineInv, CrcPending, TurningToRx
    <2> QED BY <1>1, <1>2, <1>3, <2>2, <2>3 DEF TurnsInv
  <1>4. CASE ~TimerIdle
    <2>1. TurnOfTimer BY <1>4 DEF TurnsInv
    <2>2. HwCompare
      BY <1>4, <2>1
      DEF HwProgress, HwReady, HwCrc, HwTxAddress, HwPhyEnd, HwDisabled, HwRxAddress,
          TurnOfTimer, EventMayArise
    <2>3. TurnOfTimer' BY <1>1, <2>1, <2>2 DEF TurnOfTimer, HwCompare, hwVars
    <2>4. DeadlineInv'
      BY <2>1, <2>2
      DEF HwCompare, hwVars, TurnsInv, DeadlineInv, CrcPending, TurnOfTimer
    <2> QED BY <1>1, <1>2, <1>4, <2>3, <2>4 DEF TurnsInv
  <1> QED BY <1>3, <1>4

\* Each event radio_isr serves hands the turn over as the radio does.
LEMMA RadioIsrTurns ==
  ASSUME TypeOK, TurnsInv, RadioIsr
  PROVE  TurnsInv'
  <1> USE DEF timerVars, stateVars, txVars, rxVars
  <1>1. UNCHANGED <<hw, tmr, thr>> /\ pend # {} /\ TimerIdle' = TimerIdle
    BY DEF RadioIsr, IsrAddress, IsrCrc, IsrPhyEnd, TimerIdle
  <1>2. TimerIdle /\ TurnOfRadio BY <1>1 DEF TurnsInv, TurnOfTimer
  <1>3. CASE IsrAddress
    <2>1. \/ turn_state = "LISTEN" /\ hw = "rxpkt" /\ pend = {"ADDRESS"}
          \/ turn_state = "IN_TX" /\ hw = "txpkt" /\ pend = {"ADDRESS"} /\ short = "TXEN"
      BY <1>2, <1>3 DEF IsrAddress, TurnOfRadio
    <2>2. TurnOfRadio'
      BY <1>1, <1>3, <2>1
      DEF IsrAddress, TurnOfRadio, program_tx_packetptr, program_rx_packetptr
    <2>3. DeadlineInv'
      BY <1>1, <1>2, <1>3, <2>1
      DEF IsrAddress, TurnsInv, DeadlineInv, set_deadline, TimerIdle
    <2>4. TriggerNeverFails'
      BY <1>1, <1>2, <1>3, QueueTriggers DEF IsrAddress, TurnsInv, TimerIdle
    <2> QED BY <1>1, <1>2, <2>2, <2>3, <2>4 DEF TurnsInv
  <1>4. ASSUME NEW event \in {"CRCOK", "CRCERROR"}, NEW type \in RxEventTypes,
               IsrCrc(event, type)
        PROVE  TurnsInv'
    <2>1. /\ turn_state = "IN_RX" /\ short = "TXEN" /\ event \in pend
          /\ \/ hw = "rxend" /\ pend \subseteq {"CRCOK", "CRCERROR"}
             \/ hw \in {"disable", "txru"} /\ "PHYEND" \in pend /\ "ADDRESS" \notin pend
      BY <1>2, <1>4 DEF IsrCrc, TurnOfRadio
    <2>2. /\ pend' = pend \ {event} /\ UNCHANGED <<turn_state, short>>
          /\ deadline_int' = FALSE
      BY <1>4, <2>1 DEF IsrCrc, clear_deadline
    <2>3. TurnOfRadio' BY <1>1, <2>1, <2>2 DEF TurnOfRadio
    <2>4. DeadlineInv' BY <2>2 DEF DeadlineInv
    <2>5. TriggerNeverFails'
      <3>1. type \in EventTypes \ {"TX_TRIGGER_FAILED"} BY DEF EventTypes, RxEventTypes
      <3> QED BY <1>1, <1>2, <1>4, <3>1, QueueTriggers DEF IsrCrc, TurnsInv, TimerIdle
    <2> QED BY <1>1, <1>2, <2>3, <2>4, <2>5 DEF TurnsInv
  <1>5. CASE IsrPhyEnd
    <2>1. \/ /\ turn_state = "IN_RX" /\ short = "TXEN" /\ hw \in {"disable", "txru"}
             /\ pend = {"PHYEND"}
          \/ /\ turn_state = "IN_TX" /\ short = "RXEN" /\ hw \in {"disable", "rxru"}
             /\ pend = {"PHYEND"}
      BY <1>2, <1>5 DEF IsrPhyEnd, TurnOfRadio, TypeOK
    <2>2. /\ pend' = {} /\ UNCHANGED short
          /\ turn_state = "IN_RX" => turn_state' = "IN_TX"
          /\ turn_state = "IN_TX" => turn_state' = "LISTEN"
      BY <1>5, <2>1 DEF IsrPhyEnd
    <2>3. TurnOfRadio' BY <1>1, <2>1, <2>2 DEF TurnOfRadio
    <2>4. DeadlineInv'
      BY <1>1, <1>2, <1>5, <2>1
      DEF IsrPhyEnd, TurnsInv, DeadlineInv, set_deadline, TimerIdle, CrcPending
    <2>5. TriggerNeverFails'
      <3>1. "TX_END" \in EventTypes \ {"TX_TRIGGER_FAILED"} BY DEF EventTypes
      <3> QED
        BY <1>1, <1>2, <1>5, <3>1, QueueTriggers
        DEF IsrPhyEnd, TurnsInv, TimerIdle, queue_session_event
    <2> QED BY <1>1, <1>2, <2>3, <2>4, <2>5 DEF TurnsInv
  <1> QED BY <1>3, <1>4, <1>5 DEF RadioIsr, RxEventTypes

\* timer_isr enters only while the radio listens, or waits for a packet to go on
\* arriving, and finds it so at every step until it triggers the turn.
LEMMA TimerIsrTurns ==
  ASSUME TypeOK, TurnsInv, TimerIsr
  PROVE  TurnsInv'
  <1> USE DEF hwVars, timerVars, stateVars, txVars, rxVars, TimerIdle
  <1>1. UNCHANGED thr
    BY DEF TimerIsr, TimerEnter, TimerArmed, TimerUnarm, TimerMask, TimerIfRx,
           TimerIfListen, TimerPuts, TimerPut, TimerTrigTurn, TimerTrigHw, TimerTrigPtr,
           TimerTrigShort, TimerTrigClear, TimerTrigCommit, TimerTrigDisable, TimerTest
  <1>2. CASE TimerEnter
    <2>1. TurnOfRadio /\ deadline = "hit" /\ deadline_int /\ pend = {} /\ tmr = "idle"
      BY <1>2 DEF TurnsInv, TimerEnter, NothingPending
    <2>2. \/ turn_state = "LISTEN" /\ hw = "rx" /\ short = "RXEN"
          \/ turn_state = "IN_RX" /\ hw = "rxpkt" /\ short = "TXEN"
      BY <2>1 DEF TurnsInv, DeadlineInv, TurnOfRadio, CrcPending
    <2>3. TurnOfTimer' BY <1>2, <2>1, <2>2 DEF TimerEnter, TurnOfTimer
    <2>4. DeadlineInv' BY <1>2, <2>1, <2>2 DEF TimerEnter, DeadlineInv
    <2>5. TriggerNeverFails' BY <1>2 DEF TimerEnter, TurnsInv, TriggerNeverFails
    <2> QED BY <1>1, <1>2, <2>3, <2>4, <2>5 DEF TurnsInv, TimerEnter
  <1>3. ASSUME tmr # "idle"
        PROVE  TurnOfTimer /\ pend = {}
    BY <1>3 DEF TurnsInv, TurnOfTimer
  <1>4. CASE TimerArmed
    <2>1. /\ tmr = "armed" /\ tmr' \in {"unarm", "idle"}
          /\ UNCHANGED <<hw, short, pend, turn_state, deadline, deadline_int, queue>>
      BY <1>4 DEF TimerArmed, TimerTest
    <2>2. TurnOfTimer BY <1>3, <2>1
    <2>3. IF TimerIdle' THEN TurnOfRadio' ELSE TurnOfTimer'
      BY <2>1, <2>2 DEF TurnOfTimer, TurnOfRadio
    <2>4. DeadlineInv' BY <2>1 DEF TurnsInv, DeadlineInv, CrcPending
    <2>5. TriggerNeverFails' BY <2>1 DEF TurnsInv, TriggerNeverFails
    <2> QED BY <1>1, <2>3, <2>4, <2>5 DEF TurnsInv
  <1>5. CASE TimerUnarm \/ TimerMask
    <2>1. /\ tmr \in {"unarm", "mask"} /\ tmr' \in {"mask", "if_rx"}
          /\ tmr' = "if_rx" => ~deadline_int'
          /\ deadline_int' => deadline_int
          /\ UNCHANGED <<hw, short, pend, turn_state, deadline, queue>>
      BY <1>5 DEF TimerUnarm, TimerMask
    <2>2. TurnOfTimer' BY <1>3, <2>1 DEF TurnOfTimer
    <2>3. DeadlineInv' BY <2>1 DEF TurnsInv, DeadlineInv, CrcPending
    <2>4. TriggerNeverFails' BY <2>1 DEF TurnsInv, TriggerNeverFails
    <2> QED BY <1>1, <2>1, <2>2, <2>3, <2>4 DEF TurnsInv
  <1>6. CASE TimerIfRx \/ TimerIfListen
    <2>1. /\ tmr \in {"if_rx", "if_listen"}
          /\ tmr' \in {"put_incomplete", "if_listen", "put_timeout", "idle"}
          /\ tmr' = "idle" => turn_state # "LISTEN"
          /\ UNCHANGED <<hw, short, pend, turn_state, deadline, deadline_int, queue>>
      BY <1>6 DEF TimerIfRx, TimerIfListen, TimerTest
    <2>2. TurnOfTimer BY <1>3, <2>1
    <2>3. IF TimerIdle' THEN TurnOfRadio' ELSE TurnOfTimer'
      BY <2>1, <2>2 DEF TurnOfTimer, TurnOfRadio
    <2>4. DeadlineInv' BY <2>1 DEF TurnsInv, DeadlineInv, CrcPending
    <2>5. TriggerNeverFails' BY <2>1 DEF TurnsInv, TriggerNeverFails
    <2> QED BY <1>1, <2>3, <2>4, <2>5 DEF TurnsInv
  <1>7. CASE TimerPuts
    <2>1. tmr # "put_failed" BY DEF TurnsInv, TriggerNeverFails
    <2>2. /\ tmr \in {"put_incomplete", "put_timeout"} /\ tmr' = "trig_turn"
          /\ UNCHANGED <<hw, short, pend, turn_state, deadline, deadline_int>>
          /\ \E type \in EventTypes \ {"TX_TRIGGER_FAILED"} :
               queue_session_event(Event(type, NoSlot))
      BY <1>7, <2>1 DEF TimerPuts, TimerPut, EventTypes
    <2>3. TurnOfTimer' BY <1>3, <2>2 DEF TurnOfTimer
    <2>4. DeadlineInv' BY <2>2 DEF TurnsInv, DeadlineInv, CrcPending
    <2>5. TriggerNeverFails'
      BY <2>2, QueueTriggers DEF queue_session_event, TurnsInv
    <2> QED BY <1>1, <2>2, <2>3, <2>4, <2>5 DEF TurnsInv
  <1>8. CASE TimerTrigTurn \/ TimerTrigHw \/ TimerTrigPtr
    <2>1. /\ tmr \in {"trig_turn", "trig_hw", "trig_ptr"}
          /\ UNCHANGED <<hw, short, pend, turn_state, deadline, deadline_int, queue>>
      BY <1>8 DEF TimerTrigTurn, TimerTrigHw, TimerTrigPtr, TimerTest
    <2>2. TurnOfTimer BY <1>3, <2>1
    <2>3. turn_state \in {"LISTEN", "IN_RX"} /\ hw \in Receiving
      BY <2>1, <2>2 DEF TurnOfTimer, Receiving
    <2>4. tmr' \in {"trig_hw", "trig_ptr", "trig_short"}
      BY <1>8, <2>3 DEF TimerTrigTurn, TimerTrigHw, TimerTrigPtr, TimerTest
    <2>5. TurnOfTimer' BY <2>1, <2>2, <2>4 DEF TurnOfTimer
    <2>6. DeadlineInv' BY <2>1 DEF TurnsInv, DeadlineInv, CrcPending
    <2>7. TriggerNeverFails' BY <2>1, <2>4 DEF TurnsInv, TriggerNeverFails
    <2> QED BY <1>1, <2>4, <2>5, <2>6, <2>7 DEF TurnsInv
  <1>9. CASE TimerTrigShort
    <2>1. /\ tmr = "trig_short" /\ tmr' = "trig_clear" /\ short' = "TXEN"
          /\ UNCHANGED <<hw, pend, turn_state, deadline, deadline_int, queue>>
      BY <1>9 DEF TimerTrigShort
    <2>2. TurnOfTimer' BY <1>3, <2>1 DEF TurnOfTimer
    <2>3. DeadlineInv' BY <2>1 DEF TurnsInv, DeadlineInv, CrcPending
    <2>4. TriggerNeverFails' BY <2>1 DEF TurnsInv, TriggerNeverFails
    <2> QED BY <1>1, <2>1, <2>2, <2>3, <2>4 DEF TurnsInv
  <1>10. CASE TimerTrigClear
    <2>1. /\ tmr = "trig_clear" /\ tmr' = "trig_commit" /\ pend' = pend \ {"ADDRESS"}
          /\ UNCHANGED <<hw, short, turn_state, deadline, deadline_int, queue>>
      BY <1>10 DEF TimerTrigClear
    <2>2. TurnOfTimer' /\ pend' = {} BY <1>3, <2>1 DEF TurnOfTimer
    <2>3. DeadlineInv' BY <2>1 DEF TurnsInv, DeadlineInv, CrcPending
    <2>4. TriggerNeverFails' BY <2>1 DEF TurnsInv, TriggerNeverFails
    <2> QED BY <1>1, <2>1, <2>2, <2>3, <2>4 DEF TurnsInv
  <1>11. CASE TimerTrigCommit
    <2>1. /\ tmr = "trig_commit" /\ tmr' = "trig_disable" /\ turn_state' = "IN_TX"
          /\ UNCHANGED <<hw, short, pend, deadline, deadline_int, queue>>
      BY <1>11 DEF TimerTrigCommit
    <2>2. TurnOfTimer' BY <1>3, <2>1 DEF TurnOfTimer
    <2>3. DeadlineInv' BY <2>1 DEF TurnsInv, DeadlineInv
    <2>4. TriggerNeverFails' BY <2>1 DEF TurnsInv, TriggerNeverFails
    <2> QED BY <1>1, <2>1, <2>2, <2>3, <2>4 DEF TurnsInv
  <1>12. CASE TimerTrigDisable
    <2>1. /\ tmr = "trig_disable" /\ tmr' = "idle" /\ hw' = "disable"
          /\ UNCHANGED <<short, pend, turn_state, deadline, deadline_int, queue>>
      BY <1>12 DEF TimerTrigDisable
    <2>2. TurnOfTimer BY <1>3, <2>1
    <2>3. TurnOfRadio' BY <2>1, <2>2 DEF TurnOfTimer, TurnOfRadio
    <2>4. DeadlineInv' BY <2>1 DEF TurnsInv, DeadlineInv
    <2>5. TriggerNeverFails' BY <2>1 DEF TurnsInv, TriggerNeverFails
    <2> QED BY <1>1, <2>1, <2>3, <2>4, <2>5 DEF TurnsInv
  <1> QED
    BY <1>2, <1>4, <1>5, <1>6, <1>7, <1>8, <1>9, <1>10, <1>11, <1>12 DEF TimerIsr

\* The thread starts the first turn; it is never told to stop the radio.
LEMMA ThreadTurns ==
  ASSUME TypeOK, TurnsInv, Thread
  PROVE  TurnsInv'
  <1> USE DEF hwVars, timerVars, stateVars, txVars, rxVars, CpuFree, TimerIdle,
              NothingPending
  <1>1. CASE prop_radio_start
    <2>1. /\ turn_state' = "LISTEN" /\ short' = "RXEN" /\ hw' = "rxru" /\ pend' = {}
          /\ deadline' = "running" /\ tmr = "idle" /\ tmr' = "idle" /\ thr' = "refill"
          /\ queue' = << >>
      BY <1>1 DEF prop_radio_start, set_deadline
    <2>2. TurnOfRadio' BY <2>1 DEF TurnOfRadio
    <2>3. DeadlineInv' BY <2>1 DEF DeadlineInv
    <2>4. TriggerNeverFails' BY <2>1 DEF TriggerNeverFails
    <2> QED BY <2>1, <2>2, <2>3, <2>4 DEF TurnsInv
  <1>2. ~prop_radio_stop BY DEF prop_radio_stop, TurnsInv
  <1>3. CASE ~prop_radio_start
    <2>1. /\ UNCHANGED <<hw, short, pend, turn_state, tmr, deadline, deadline_int>>
          /\ tmr = "idle" /\ thr # "boot"
      BY <1>2, <1>3
      DEF Thread, prop_radio_dequeue_session_event, prop_radio_rx_get_rd_ptr,
          prop_radio_rx_advance_rd_idx, prop_radio_tx_get_wr_ptr,
          prop_radio_tx_advance_wr_idx
    <2>2. TurnOfRadio' BY <2>1 DEF TurnsInv, TurnOfRadio
    <2>3. DeadlineInv' BY <2>1 DEF TurnsInv, DeadlineInv, CrcPending
    <2>4. CASE prop_radio_dequeue_session_event
      <3>1. /\ queue \in Seq(Events) /\ queue # << >> /\ queue' = Tail(queue)
            /\ thr' = Handler[Head(queue).type]
        BY <2>4 DEF prop_radio_dequeue_session_event, TypeOK
      <3>2. Head(queue) \in Events /\ 1 \in DOMAIN queue /\ Head(queue) = queue[1]
        BY <3>1
      <3>3. Head(queue).type \in EventTypes \ {"TX_TRIGGER_FAILED"}
        BY <3>2 DEF Events, TurnsInv, TriggerNeverFails
      <3>4. thr' # "stop" BY <3>1, <3>3 DEF Handler, EventTypes, RxEventTypes
      <3>5. TriggerNeverFails' BY <2>1, <3>1, QueueTriggers DEF TurnsInv
      <3> QED BY <2>1, <2>2, <2>3, <3>4, <3>5 DEF TurnsInv
    <2>5. CASE ~prop_radio_dequeue_session_event
      <3>1. thr' # "stop" /\ UNCHANGED queue
        BY <1>2, <1>3, <2>5
        DEF Thread, prop_radio_rx_get_rd_ptr, prop_radio_rx_advance_rd_idx,
            prop_radio_tx_get_wr_ptr, prop_radio_tx_advance_wr_idx
      <3>2. TriggerNeverFails' BY <2>1, <3>1 DEF TurnsInv, TriggerNeverFails
      <3> QED BY <2>1, <2>2, <2>3, <3>1, <3>2 DEF TurnsInv
    <2> QED BY <2>4, <2>5
  <1> QED BY <1>1, <1>3

\* TurnsInv is inductive, relative to the types.
LEMMA NextTurns ==
  ASSUME ~RadioInTimerIsr
  PROVE  TypeOK /\ TurnsInv /\ [Next]_vars => TurnsInv'
  <1> SUFFICES ASSUME TypeOK, TurnsInv, [Next]_vars PROVE TurnsInv' OBVIOUS
  <1>1. CASE UNCHANGED vars
    BY <1>1
    DEF TurnsInv, TimerIdle, TurnOfRadio, TurnOfTimer, DeadlineInv, CrcPending,
        TriggerNeverFails, vars, hwVars, timerVars, stateVars
  <1>2. CASE Next
    BY <1>1, <1>2, HwTurns, RadioIsrTurns, TimerIsrTurns, ThreadTurns DEF Next, Parked
  <1> QED BY <1>1, <1>2

\* The boot state is the turn before the first.
LEMMA InitTurns == Init => TurnsInv
  BY DEF Init, TurnsInv, TimerIdle, TurnOfRadio, DeadlineInv, TriggerNeverFails

\* The deadline finds only the wait it was set for, so a prepared TX can always
\* be triggered and the session never stops the radio for good, for every
\* depth of the rings and of the event queue (radio_core.c, timer_isr).
THEOREM TriggersNeverFail ==
  ASSUME ~RadioInTimerIsr
  PROVE  Spec => []TriggerNeverFails
  <1>1. TurnsInv => TriggerNeverFails BY DEF TurnsInv
  <1> QED BY <1>1, InitTurns, NextTurns, TypeCorrect, PTL DEF Spec

\* The software's turn and the hardware's direction agree.
THEOREM TurnsMatchRadio ==
  ASSUME ~RadioInTimerIsr
  PROVE  Spec => []TurnMatchesRadio
  <1>1. RadioInv /\ TurnsInv => TurnMatchesRadio
    <2> SUFFICES ASSUME RadioInv, TurnsInv PROVE TurnMatchesRadio OBVIOUS
    <2>1. hw \in {"rxru", "rx"} =>
            turn_state = "LISTEN" \/ "PHYEND" \in pend \/ tmr = "trig_disable"
      BY DEF TurnsInv, TurnOfRadio, TurnOfTimer
    <2>2. hw \in {"txru", "tx", "txpkt"} => turn_state = "IN_TX" \/ "PHYEND" \in pend
      BY DEF TurnsInv, TurnOfRadio, TurnOfTimer
    <2>3. hw = "rxru" => PointsToRx
      BY DEF TurnsInv, TurnOfRadio, TurnOfTimer, TimerIdle, RadioInv, PointerInv
    <2>4. hw = "txru" => ~PointsToRx
      BY DEF TurnsInv, TurnOfRadio, TurnOfTimer, RadioInv, PointerInv
    <2> QED BY <2>1, <2>2, <2>3, <2>4 DEF TurnMatchesRadio, PointsToRx
  <1> QED BY <1>1, InitTurns, NextTurns, TypeCorrect, RadioInvariant, PTL DEF Spec

-----------------------------------------------------------------------------
(* The packet on air *)

\* The head is the chosen packet, once it has been programmed.
LEMMA ChoiceProgrammed ==
  ASSUME packetptr' = NextTxBuffer, tx_packet_from_ring' = ~tx_ring_empty,
         UNCHANGED tx_rd_idx
  PROVE  packetptr' = Choice'
  <1>1. CASE tx_ring_empty BY <1>1 DEF NextTxBuffer, Choice
  <1>2. CASE ~tx_ring_empty BY <1>2 DEF NextTxBuffer, Choice
  <1> QED BY <1>1, <1>2

\* The radio sends what it was pointed at, and the head has then been aired.
LEMMA HwAir ==
  ASSUME ~RadioInTimerIsr, TypeOK, RadioInv, FillInv, TurnsInv, AirInv,
         HwProgress \/ HwRxAddress \/ HwCompare
  PROVE  AirInv'
  <1> USE DEF timerVars, stateVars, txVars, rxVars
  <1>1. /\ UNCHANGED <<packetptr, tx_rd_idx, tx_wr_idx, tx_packet_from_ring, turn_state,
                       tmr>>
        /\ Choice' = Choice /\ Chosen' = Chosen /\ PointsToRx' = PointsToRx
    BY DEF HwProgress, HwReady, HwCrc, HwTxAddress, HwPhyEnd, HwDisabled, HwRxAddress,
           HwCompare, hwVars, Choice, Chosen, Programmed, PointsToRx
  <1>2. Chosen' /\ ~PointsToRx' => packetptr' = Choice' BY <1>1 DEF AirInv
  <1>3. CASE HwPhyEnd
    <2>1. /\ TurnOfRadio /\ hw \in {"rxend", "txpkt"} /\ hw' = "disable"
          /\ "PHYEND" \in pend' /\ "ADDRESS" \notin pend
          /\ tx_ring' = [i \in TxSlots |->
               IF hw = "txpkt" /\ dma = TxBuffer(i) /\ tx_ring[i] = "ready"
                 THEN "aired" ELSE tx_ring[i]]
      BY <1>3 DEF HwPhyEnd, EventMayArise, TurnsInv
    <2>2. /\ "PHYEND" \notin pend /\ (turn_state = "IN_TX" <=> hw = "txpkt")
          /\ turn_state \in {"IN_RX", "IN_TX"}
      BY <2>1 DEF TurnOfRadio
    <2>3. hw = "txpkt" => dma = Choice BY DEF AirInv
    <2>4. \A s \in TxSlots : TxDist(s) < Unsent => tx_ring[s] = "ready"
      BY <2>2 DEF AirInv
    <2>5. ASSUME NEW s \in TxSlots, TxDist(s) < Unsent
          PROVE  tx_ring'[s] = IF /\ s = tx_rd_idx /\ turn_state' = "IN_TX"
                                  /\ tx_packet_from_ring' /\ "PHYEND" \in pend'
                                 THEN "aired" ELSE "ready"
      <3>1. hw = "txpkt" /\ dma = TxBuffer(s) <=>
              s = tx_rd_idx /\ turn_state = "IN_TX" /\ tx_packet_from_ring
        BY <2>2, <2>3, TxBuffersApart DEF Choice
      <3> QED BY <1>1, <2>1, <2>4, <2>5, <3>1
    <2> QED BY <1>1, <1>2, <2>1, <2>5, TxDistKept DEF AirInv
  <1>4. CASE ~HwPhyEnd
    <2>1. /\ UNCHANGED tx_ring
          /\ "PHYEND" \in pend' <=> "PHYEND" \in pend
      BY <1>4
      DEF HwProgress, HwReady, HwCrc, HwTxAddress, HwDisabled, HwRxAddress, HwCompare,
          hwVars
    <2>2. hw' \in {"tx", "txpkt"} => dma' = Choice'
      <3>1. CASE HwReady
        <4>1. TurnOfRadio /\ pend = {} /\ hw \in {"rxru", "txru"} /\ dma' = packetptr
          BY <3>1 DEF HwReady, TurnsInv, TimerIdle
        <4>2. hw' \in {"tx", "txpkt"} => turn_state = "IN_TX" /\ short = "TXEN"
          BY <3>1, <4>1 DEF HwReady, TurnOfRadio
        <4>3. turn_state = "IN_TX" /\ short = "TXEN" => packetptr = Choice
          BY DEF AirInv, Chosen, RadioInv, PointerInv
        <4> QED BY <1>1, <4>1, <4>2, <4>3
      <3>2. CASE ~HwReady
        <4>1. hw' \in {"tx", "txpkt"} => hw \in {"tx", "txpkt"} /\ dma' = dma
          BY <1>4, <3>2
          DEF HwProgress, HwCrc, HwTxAddress, HwDisabled, HwRxAddress, HwCompare, hwVars
        <4> QED BY <1>1, <4>1 DEF AirInv
      <3> QED BY <3>1, <3>2
    <2> QED BY <1>1, <1>2, <2>1, <2>2, TxDistKept DEF AirInv
  <1> QED BY <1>3, <1>4

\* A turn of radio_isr releases what has been aired, and nothing else.
LEMMA RadioIsrAir ==
  ASSUME TypeOK, RadioInv, FillInv, TurnsInv, AirInv, RadioIsr
  PROVE  AirInv'
  <1> USE DEF timerVars, stateVars, txVars, rxVars
  <1>1. TurnOfRadio /\ tmr = "idle" /\ tmr' = "idle"
    <2>1. pend # {} /\ tmr' = tmr BY DEF RadioIsr, IsrAddress, IsrCrc, IsrPhyEnd
    <2> QED BY <2>1 DEF TurnsInv, TurnOfTimer, TimerIdle
  <1>2. ~Programmed /\ ~Programmed' BY <1>1 DEF Programmed
  <1>3. CASE IsrAddress
    <2>1. UNCHANGED <<hw, dma, tx_ring, tx_rd_idx, tx_wr_idx>> /\ pend' = pend \ {"ADDRESS"}
      BY <1>3 DEF IsrAddress
    <2>2. CASE turn_state = "LISTEN"
      <3>1. /\ packetptr' = NextTxBuffer /\ tx_packet_from_ring' = ~tx_ring_empty
            /\ turn_state' = "IN_RX" /\ hw = "rxpkt"
        BY <1>1, <1>3, <2>2 DEF IsrAddress, program_tx_packetptr, TurnOfRadio
      <3>2. packetptr' = Choice' BY <2>1, <3>1, ChoiceProgrammed
      <3> QED BY <2>1, <2>2, <3>1, <3>2, TxDistKept DEF AirInv
    <2>3. CASE turn_state = "IN_TX"
      <3>1. /\ packetptr' = RxBuffer(rx_wr_idx)
            /\ UNCHANGED <<turn_state, tx_packet_from_ring>>
        BY <1>3, <2>3 DEF IsrAddress, program_rx_packetptr
      <3>2. PointsToRx' BY <3>1, BuffersApart DEF PointsToRx, TypeOK
      <3>3. Choice' = Choice BY <2>1, <3>1 DEF Choice
      <3> QED BY <2>1, <3>1, <3>2, <3>3, TxDistKept DEF AirInv
    <2> QED BY <1>1, <1>3, <2>2, <2>3 DEF IsrAddress, TurnOfRadio
  <1>4. ASSUME NEW event \in {"CRCOK", "CRCERROR"}, NEW type \in RxEventTypes,
               IsrCrc(event, type)
        PROVE  AirInv'
    <2>1. /\ UNCHANGED <<packetptr, hw, dma, turn_state, tx_packet_from_ring, tx_ring,
                         tx_rd_idx, tx_wr_idx>>
          /\ pend' = pend \ {event}
      BY <1>4 DEF IsrCrc, clear_deadline
    <2>2. Choice' = Choice /\ (Chosen' <=> Chosen) /\ PointsToRx' = PointsToRx
      BY <1>2, <2>1 DEF Choice, Chosen, PointsToRx
    <2> QED BY <2>1, <2>2, TxDistKept DEF AirInv
  <1>5. CASE IsrPhyEnd
    <2>1. /\ UNCHANGED <<packetptr, hw, dma, tx_packet_from_ring, tx_wr_idx>>
          /\ pend = {"PHYEND"} /\ pend' = {} /\ ~(hw \in {"tx", "txpkt"})
          /\ turn_state \in {"IN_RX", "IN_TX"}
      BY <1>1, <1>5 DEF IsrPhyEnd, TurnOfRadio, TypeOK
    <2>2. CASE turn_state = "IN_RX"
      <3>1. turn_state' = "IN_TX" /\ UNCHANGED <<tx_ring, tx_rd_idx>>
        BY <1>5, <2>2 DEF IsrPhyEnd
      <3>2. Choice' = Choice /\ PointsToRx' = PointsToRx /\ Chosen
        BY <2>1, <2>2, <3>1 DEF Choice, PointsToRx, Chosen
      <3> QED BY <2>1, <2>2, <3>1, <3>2, TxDistKept DEF AirInv
    <2>3. CASE turn_state = "IN_TX" /\ ~tx_packet_from_ring
      <3>1. turn_state' = "LISTEN" /\ UNCHANGED <<tx_ring, tx_rd_idx>>
        BY <1>5, <2>3 DEF IsrPhyEnd
      <3>2. ~Chosen' BY <1>2, <3>1 DEF Chosen
      <3> QED BY <2>1, <2>3, <3>1, <3>2, TxDistKept DEF AirInv
    <2>4. CASE turn_state = "IN_TX" /\ tx_packet_from_ring
      <3>1. /\ turn_state' = "LISTEN" /\ tx_rd_idx' = next_tx_idx(tx_rd_idx)
            /\ tx_ring' = [tx_ring EXCEPT ![tx_rd_idx] = "free"]
        BY <1>5, <2>4 DEF IsrPhyEnd
      <3>2. ~Chosen' BY <1>2, <3>1 DEF Chosen
      <3>3. ~tx_ring_empty BY <2>4 DEF FillInv, Chosen
      <3>4. ASSUME NEW s \in TxSlots, TxDist(s)' < Unsent'
            PROVE  s # tx_rd_idx /\ TxDist(s) < Unsent
        <4>1. /\ TxDist(s)' = IF s = tx_rd_idx THEN TX_RING_DEPTH - 1 ELSE TxDist(s) - 1
              /\ Unsent' = Unsent - 1
          BY <2>1, <3>1, <3>3, AdvanceTxRead
        <4>2. /\ TxDist(s) \in Nat /\ Unsent \in 0 .. TX_RING_DEPTH - 1
              /\ TX_RING_DEPTH \in Nat
          BY TxDistFacts, DepthAssumption
        <4> QED BY <3>4, <4>1, <4>2
      <3>5. \A s \in TxSlots : TxDist(s)' < Unsent' => tx_ring'[s] = "ready"
        BY <3>1, <3>4 DEF AirInv, TypeOK
      <3> QED BY <2>1, <3>1, <3>2, <3>5 DEF AirInv
    <2> QED BY <2>1, <2>2, <2>3, <2>4
  <1> QED BY <1>3, <1>4, <1>5 DEF RadioIsr, RxEventTypes

\* timer_isr chooses as radio_isr does, and releases nothing.
LEMMA TimerIsrAir ==
  ASSUME TypeOK, RadioInv, TurnsInv, AirInv, TimerIsr
  PROVE  AirInv'
  <1> USE DEF hwVars, timerVars, stateVars, txVars
  <1>1. /\ UNCHANGED <<dma, tx_ring, tx_rd_idx, tx_wr_idx>>
        /\ hw' \in {"tx", "txpkt"} => hw' = hw
    BY DEF TimerIsr, TimerEnter, TimerArmed, TimerUnarm, TimerMask, TimerIfRx,
           TimerIfListen, TimerPuts, TimerPut, TimerTrigTurn, TimerTrigHw, TimerTrigPtr,
           TimerTrigShort, TimerTrigClear, TimerTrigCommit, TimerTrigDisable, TimerTest
  <1>2. pend = {} /\ pend' = {}
    BY DEF TimerIsr, TimerEnter, TimerArmed, TimerUnarm, TimerMask, TimerIfRx,
           TimerIfListen, TimerPuts, TimerPut, TimerTrigTurn, TimerTrigHw, TimerTrigPtr,
           TimerTrigShort, TimerTrigClear, TimerTrigCommit, TimerTrigDisable, TimerTest,
           NothingPending, TurnsInv, TimerIdle, TurnOfTimer
  <1>3. CASE TimerTrigPtr
    <2>1. /\ packetptr' = NextTxBuffer /\ tx_packet_from_ring' = ~tx_ring_empty
          /\ UNCHANGED hw /\ tmr = "trig_ptr"
      BY <1>3 DEF TimerTrigPtr
    <2>2. hw \notin {"tx", "txpkt"} BY <2>1 DEF TurnsInv, TimerIdle, TurnOfTimer
    <2>3. packetptr' = Choice' BY <1>1, <2>1, ChoiceProgrammed
    <2> QED BY <1>1, <1>2, <2>1, <2>2, <2>3, TxDistKept DEF AirInv
  <1>4. CASE ~TimerTrigPtr
    <2>1. /\ UNCHANGED <<packetptr, tx_packet_from_ring>>
          /\ Chosen' => Chosen
      BY <1>4
      DEF TimerIsr, TimerEnter, TimerArmed, TimerUnarm, TimerMask, TimerIfRx,
          TimerIfListen, TimerPuts, TimerPut, TimerTrigTurn, TimerTrigHw,
          TimerTrigShort, TimerTrigClear, TimerTrigCommit, TimerTrigDisable, TimerTest,
          Chosen, Programmed
    <2>2. Choice' = Choice /\ PointsToRx' = PointsToRx
      BY <1>1, <2>1 DEF Choice, PointsToRx
    <2> QED BY <1>1, <1>2, <2>1, <2>2, TxDistKept DEF AirInv
  <1> QED BY <1>3, <1>4

\* A slot is committed when it is ready.
LEMMA ThreadAir ==
  ASSUME TypeOK, RadioInv, FillInv, TurnsInv, AirInv, Thread
  PROVE  AirInv'
  <1> USE DEF hwVars, timerVars, stateVars, txVars, CpuFree, TimerIdle, NothingPending
  <1>1. CASE prop_radio_start
    <2>1. /\ hw' = "rxru" /\ turn_state' = "LISTEN" /\ tmr' = "idle"
          /\ tx_wr_idx' = 0 /\ tx_rd_idx' = 0
      BY <1>1 DEF prop_radio_start
    <2>2. TypeOK' BY <1>1, ThreadType DEF Thread
    <2>3. \A s \in TxSlots : ~(TxDist(s)' < Unsent')
      <3>1. PICK d : d = TX_RING_DEPTH OBVIOUS
      <3>2. /\ \A s \in TxSlots : TxDist(s)' = s % TX_RING_DEPTH
            /\ Unsent' = 0 % TX_RING_DEPTH
        BY <2>1, DepthAssumption DEF TxDist, Unsent, TxSlots
      <3>3. 0 % TX_RING_DEPTH = 0 BY DepthAssumption, SMT
      <3>4. \A s \in TxSlots : s % TX_RING_DEPTH = s
        BY DepthAssumption, SMT DEF TxSlots
      <3>5. \A s \in TxSlots : TxDist(s)' = s /\ s >= 0
        BY <3>2, <3>4 DEF TxSlots
      <3> QED BY <3>2, <3>3, <3>5 DEF TxSlots
    <2>4. ~Chosen' BY <2>1 DEF Chosen, Programmed
    <2> QED BY <2>1, <2>3, <2>4 DEF AirInv
  <1>2. ~prop_radio_stop BY DEF prop_radio_stop, TurnsInv
  <1>3. CASE prop_radio_tx_get_wr_ptr
    <2>1. /\ UNCHANGED <<packetptr, hw, dma, tmr, pend, turn_state, tx_packet_from_ring,
                         tx_rd_idx, tx_wr_idx>>
          /\ \/ UNCHANGED tx_ring
             \/ tx_ring' = [tx_ring EXCEPT ![tx_wr_idx] = "filling"]
      BY <1>3 DEF prop_radio_tx_get_wr_ptr
    <2>2. \A s \in TxSlots : TxDist(s) < Unsent => tx_ring'[s] = tx_ring[s]
      <3>1. ~(TxDist(tx_wr_idx) < Unsent)
        <4>1. Unsent \in Nat /\ TxDist(tx_wr_idx) = Unsent BY TxDistFacts DEF Unsent
        <4> QED BY <4>1
      <3> QED BY <2>1, <3>1 DEF TypeOK
    <2>3. /\ Choice' = Choice /\ PointsToRx' = PointsToRx /\ (Chosen' <=> Chosen)
      BY <2>1 DEF Choice, PointsToRx, Chosen, Programmed
    <2> QED BY <2>1, <2>2, <2>3, TxDistKept DEF AirInv
  <1>4. CASE prop_radio_tx_advance_wr_idx
    <2>1. /\ UNCHANGED <<packetptr, hw, dma, tmr, pend, turn_state, tx_packet_from_ring,
                         tx_rd_idx>>
          /\ thr = "filling" /\ pend = {}
          /\ tx_wr_idx' = next_tx_idx(tx_wr_idx)
          /\ tx_ring' = [tx_ring EXCEPT ![tx_wr_idx] = "ready"]
      BY <1>4 DEF prop_radio_tx_advance_wr_idx
    <2>2. /\ \A s \in TxSlots : TxDist(s)' = TxDist(s)
          /\ Unsent' = Unsent + 1 /\ Unsent = TxDist(tx_wr_idx)
      BY <2>1, AdvanceTxWrite DEF FillInv
    <2>3. \A s \in TxSlots : TxDist(s)' < Unsent' => TxDist(s) < Unsent \/ s = tx_wr_idx
      <3>1. /\ Unsent \in Nat /\ \A s \in TxSlots : TxDist(s) \in Nat
            /\ \A s \in TxSlots : TxDist(s) = Unsent => s = tx_wr_idx
        BY <2>2, TxDistFacts DEF TypeOK
      <3> QED BY <2>2, <3>1
    <2>4. \A s \in TxSlots : TxDist(s)' < Unsent' => tx_ring'[s] = "ready"
      BY <2>1, <2>3 DEF AirInv, TypeOK
    <2>5. /\ Choice' = Choice /\ PointsToRx' = PointsToRx /\ (Chosen' <=> Chosen)
      BY <2>1 DEF Choice, PointsToRx, Chosen, Programmed
    <2> QED BY <2>1, <2>4, <2>5 DEF AirInv
  <1>5. CASE \/ prop_radio_dequeue_session_event \/ prop_radio_rx_get_rd_ptr
             \/ prop_radio_rx_advance_rd_idx
    <2>1. UNCHANGED <<packetptr, hw, dma, tmr, pend, turn_state, tx_packet_from_ring,
                      tx_rd_idx, tx_wr_idx, tx_ring>>
      BY <1>5 DEF prop_radio_dequeue_session_event, prop_radio_rx_get_rd_ptr,
                  prop_radio_rx_advance_rd_idx
    <2>2. /\ Choice' = Choice /\ PointsToRx' = PointsToRx /\ (Chosen' <=> Chosen)
      BY <2>1 DEF Choice, PointsToRx, Chosen, Programmed
    <2> QED BY <2>1, <2>2, TxDistKept DEF AirInv
  <1> QED BY <1>1, <1>2, <1>3, <1>4, <1>5 DEF Thread

\* AirInv is inductive, relative to the other invariants.
LEMMA NextAir ==
  ASSUME ~RadioInTimerIsr
  PROVE  TypeOK /\ RadioInv /\ FillInv /\ TurnsInv /\ AirInv /\ [Next]_vars => AirInv'
  <1> SUFFICES ASSUME TypeOK, RadioInv, FillInv, TurnsInv, AirInv, [Next]_vars
               PROVE  AirInv'
    OBVIOUS
  <1>1. CASE UNCHANGED vars
    <2>1. UNCHANGED <<packetptr, hw, dma, tmr, pend, turn_state, tx_packet_from_ring,
                      tx_rd_idx, tx_wr_idx, tx_ring>>
      BY <1>1 DEF vars, hwVars, stateVars, txVars
    <2>2. /\ Choice' = Choice /\ PointsToRx' = PointsToRx /\ (Chosen' <=> Chosen)
      BY <2>1 DEF Choice, PointsToRx, Chosen, Programmed
    <2> QED BY <2>1, <2>2, TxDistKept DEF AirInv
  <1>2. CASE Next
    BY <1>1, <1>2, HwAir, RadioIsrAir, TimerIsrAir, ThreadAir DEF Next, Parked
  <1> QED BY <1>1, <1>2

\* Nothing is committed at boot.
LEMMA InitAir == Init => AirInv
  <1> SUFFICES ASSUME Init PROVE AirInv OBVIOUS
  <1>1. TypeOK BY InitType
  <1>2. tx_ring_empty BY DEF Init, tx_ring_empty
  <1>3. \A s \in TxSlots : ~(TxDist(s) < Unsent)
    <2>1. Unsent = 0 /\ \A s \in TxSlots : TxDist(s) \in Nat BY <1>1, <1>2, TxDistFacts
    <2> QED BY <2>1
  <1> QED BY <1>3 DEF Init, AirInv, Chosen, Programmed

\* All the invariants of the turns together.
LEMMA TurnInvariants ==
  ASSUME ~RadioInTimerIsr
  PROVE  Spec => [](TypeOK /\ RadioInv /\ FillInv /\ TurnsInv /\ AirInv)
  BY TypeCorrect, RadioInvariant, InitFill, NextFill, InitTurns, NextTurns, InitAir,
     NextAir, PTL DEF Spec

\* The transmitter reads the keepalive or a committed payload not aired before,
\* for every ring depth (radio_core.c, program_tx_packetptr and radio_isr).
THEOREM TxDmaIsSafe ==
  ASSUME ~RadioInTimerIsr
  PROVE  Spec => []TxDmaSafe
  <1>1. TypeOK /\ FillInv /\ TurnsInv /\ AirInv => TxDmaSafe
    <2> SUFFICES ASSUME TypeOK, FillInv, TurnsInv, AirInv, hw \in {"tx", "txpkt"},
                        dma # Keepalive
                 PROVE  \E s \in TxSlots : dma = TxBuffer(s) /\ tx_ring[s] = "ready"
      BY DEF TxDmaSafe
    <2>1. dma = TxBuffer(tx_rd_idx) /\ tx_packet_from_ring BY DEF AirInv, Choice
    <2>2. turn_state = "IN_TX" /\ "PHYEND" \notin pend
      BY DEF TurnsInv, TurnOfRadio, TurnOfTimer
    <2>3. ~tx_ring_empty BY <2>1, <2>2 DEF FillInv, Chosen
    <2>4. TxDist(tx_rd_idx) < Unsent /\ tx_rd_idx \in TxSlots
      BY <2>3, TxDistFacts DEF TypeOK
    <2>5. tx_ring[tx_rd_idx] = "ready" BY <2>2, <2>4 DEF AirInv
    <2> QED BY <2>1, <2>4, <2>5
  <1> QED BY <1>1, TurnInvariants, PTL

\* A payload leaves the TX ring only after it has been on air, whatever order the
\* peer's packets and the deadlines come in.
THEOREM ReleasesAfterAir ==
  ASSUME ~RadioInTimerIsr
  PROVE  Spec => ReleasedAfterAir
  <1>1. /\ TypeOK /\ FillInv /\ TurnsInv /\ AirInv /\ [Next]_vars
        => [thr # "boot" /\ tx_rd_idx' # tx_rd_idx => tx_ring[tx_rd_idx] = "aired"]_vars
    <2> SUFFICES ASSUME TypeOK, FillInv, TurnsInv, AirInv, Next, thr # "boot",
                        tx_rd_idx' # tx_rd_idx
                 PROVE  tx_ring[tx_rd_idx] = "aired"
      OBVIOUS
    <2>1. IsrPhyEnd
      BY DEF Next, HwProgress, HwReady, HwCrc, HwTxAddress, HwPhyEnd, HwDisabled,
             HwRxAddress, HwCompare, RadioIsr, IsrAddress, IsrCrc, TimerIsr, TimerEnter,
             TimerArmed, TimerUnarm, TimerMask, TimerIfRx, TimerIfListen, TimerPuts,
             TimerPut, TimerTrigTurn, TimerTrigHw, TimerTrigPtr, TimerTrigShort,
             TimerTrigClear, TimerTrigCommit, TimerTrigDisable, TimerTest, Thread,
             prop_radio_start, prop_radio_stop, prop_radio_dequeue_session_event,
             prop_radio_rx_get_rd_ptr, prop_radio_rx_advance_rd_idx,
             prop_radio_tx_get_wr_ptr, prop_radio_tx_advance_wr_idx, Parked, vars, txVars
    <2>2. turn_state = "IN_TX" /\ tx_packet_from_ring /\ "PHYEND" \in pend
      BY <2>1 DEF IsrPhyEnd
    <2>3. ~tx_ring_empty BY <2>2 DEF FillInv, Chosen
    <2>4. TxDist(tx_rd_idx) < Unsent /\ tx_rd_idx \in TxSlots
      BY <2>3, TxDistFacts DEF TypeOK
    <2> QED BY <2>2, <2>4 DEF AirInv
  <1> QED BY <1>1, TurnInvariants, PTL DEF Spec, ReleasedAfterAir

-----------------------------------------------------------------------------
(* The progress of a turn *)

\* ArmedInv is inductive.
LEMMA NextArmed ==
  ASSUME ~RadioInTimerIsr
  PROVE  TypeOK /\ TurnsInv /\ ArmedInv /\ [Next]_vars => ArmedInv'
  <1> SUFFICES ASSUME TypeOK, TurnsInv, ArmedInv, [Next]_vars PROVE ArmedInv' OBVIOUS
  <1> USE DEF ArmedInv, TimerIdle, hwVars, timerVars, stateVars, txVars, rxVars
  <1>1. CASE UNCHANGED vars BY <1>1 DEF vars
  <1>2. CASE HwProgress \/ HwRxAddress \/ HwCompare
    BY <1>2
    DEF HwProgress, HwReady, HwCrc, HwTxAddress, HwPhyEnd, HwDisabled, HwRxAddress,
        HwCompare
  <1>3. CASE RadioIsr
    <2>1. tmr = "idle" /\ TurnOfRadio /\ UNCHANGED tmr
      BY <1>3 DEF RadioIsr, IsrAddress, IsrCrc, IsrPhyEnd, TurnsInv, TurnOfTimer
    <2>2. CASE IsrAddress
      BY <2>1, <2>2 DEF IsrAddress, set_deadline
    <2>3. ASSUME NEW event \in {"CRCOK", "CRCERROR"}, NEW type, IsrCrc(event, type)
          PROVE  ArmedInv'
      <3>1. turn_state = "IN_RX" BY <2>1, <2>3 DEF IsrCrc, TurnOfRadio
      <3>2. deadline_armed' = FALSE /\ deadline_int' = FALSE /\ UNCHANGED turn_state
        BY <2>3, <3>1 DEF IsrCrc, clear_deadline
      <3> QED BY <2>1, <3>1, <3>2
    <2>4. CASE IsrPhyEnd
      BY <2>1, <2>4 DEF IsrPhyEnd, set_deadline
    <2> QED BY <1>3, <2>2, <2>3, <2>4 DEF RadioIsr
  <1>4. CASE TimerIsr
    <2>1. CASE TimerEnter BY <2>1 DEF TimerEnter
    <2>2. CASE TimerArmed BY <2>2 DEF TimerArmed, TimerTest
    <2>3. CASE TimerUnarm BY <2>3 DEF TimerUnarm
    <2>4. CASE TimerMask
      <3>1. ~deadline_armed' /\ ~deadline_int' /\ tmr' = "if_rx" BY <2>4 DEF TimerMask
      <3> QED BY <3>1
    <2>5. CASE TimerIfRx \/ TimerIfListen
      <3>1. turn_state \in {"LISTEN", "IN_RX"}
        BY <2>5 DEF TimerIfRx, TimerIfListen, TimerTest, TurnsInv, TurnOfTimer
      <3>2. /\ tmr # "mask" /\ UNCHANGED <<deadline_armed, deadline_int, turn_state>>
            /\ tmr' \in {"put_incomplete", "if_listen", "put_timeout"}
            /\ tmr' = "if_listen" => turn_state = "LISTEN"
        BY <2>5, <3>1 DEF TimerIfRx, TimerIfListen, TimerTest
      <3> QED BY <3>2
    <2>6. CASE TimerPuts
      <3>1. /\ tmr # "mask" /\ UNCHANGED <<deadline_armed, deadline_int, turn_state>>
            /\ tmr' = "trig_turn"
        BY <2>6 DEF TimerPuts, TimerPut, TurnsInv, TriggerNeverFails
      <3> QED BY <3>1
    <2>7. CASE \/ TimerTrigTurn \/ TimerTrigHw \/ TimerTrigPtr \/ TimerTrigShort
               \/ TimerTrigClear \/ TimerTrigCommit
      <3>1. /\ tmr # "mask" /\ UNCHANGED <<deadline_armed, deadline_int>>
            /\ tmr' \in {"put_failed", "trig_hw", "trig_ptr", "trig_short", "trig_clear",
                          "trig_commit", "trig_disable"}
        BY <2>7
        DEF TimerTrigTurn, TimerTrigHw, TimerTrigPtr, TimerTrigShort, TimerTrigClear,
            TimerTrigCommit, TimerTest
      <3> QED BY <3>1
    <2>8. CASE TimerTrigDisable
      <3>1. /\ tmr # "mask" /\ UNCHANGED <<deadline_armed, deadline_int, turn_state>>
            /\ tmr' = "idle" /\ turn_state = "IN_TX"
        BY <2>8 DEF TimerTrigDisable, TurnsInv, TurnOfTimer
      <3> QED BY <3>1
    <2> QED BY <1>4, <2>1, <2>2, <2>3, <2>4, <2>5, <2>6, <2>7, <2>8 DEF TimerIsr
  <1>5. CASE Thread
    <2>1. CASE prop_radio_start
      BY <2>1 DEF prop_radio_start, CpuFree, set_deadline
    <2>2. CASE ~prop_radio_start
      <3>1. UNCHANGED <<tmr, turn_state, deadline, deadline_int, deadline_armed>>
        BY <1>5, <2>2
        DEF Thread, prop_radio_stop, prop_radio_dequeue_session_event,
            prop_radio_rx_get_rd_ptr, prop_radio_rx_advance_rd_idx,
            prop_radio_tx_get_wr_ptr, prop_radio_tx_advance_wr_idx, TurnsInv
      <3> QED BY <3>1
    <2> QED BY <2>1, <2>2
  <1> QED BY <1>1, <1>2, <1>3, <1>4, <1>5 DEF Next, Parked

\* Which places of the three courses follow each other: of a turn's phases,
LEMMA CourseOrder ==
  /\ Before(PhaseCourse, "LISTEN", "IN_RX") /\ Before(PhaseCourse, "LISTEN", "IN_TX")
  /\ Before(PhaseCourse, "IN_RX", "IN_TX") /\ Before(PhaseCourse, "IN_TX", "SENT")
  BY DEF Before, PhaseCourse

\* of the radio in each phase,
LEMMA HwOrder ==
  /\ Before(HwCourse["LISTEN"], "disable", "rxru") /\ Before(HwCourse["LISTEN"], "rxru", "rx")
  /\ Before(HwCourse["LISTEN"], "rx", "rxpkt")
  /\ Before(HwCourse["IN_RX"], "rxpkt", "rxend") /\ Before(HwCourse["IN_RX"], "rxend", "disable")
  /\ Before(HwCourse["IN_RX"], "disable", "txru")
  /\ Before(HwCourse["IN_TX"], "rx", "disable") /\ Before(HwCourse["IN_TX"], "rxpkt", "disable")
  /\ Before(HwCourse["IN_TX"], "disable", "txru") /\ Before(HwCourse["IN_TX"], "txru", "tx")
  /\ Before(HwCourse["IN_TX"], "tx", "txpkt")
  /\ Before(HwCourse["SENT"], "disable", "rxru")
  BY DEF Before, HwCourse

\* and of timer_isr.
LEMMA TimerOrder ==
  /\ Before(TimerCourse, "idle", "armed") /\ Before(TimerCourse, "armed", "unarm")
  /\ Before(TimerCourse, "unarm", "mask") /\ Before(TimerCourse, "mask", "if_rx")
  /\ Before(TimerCourse, "if_rx", "put_incomplete") /\ Before(TimerCourse, "if_rx", "if_listen")
  /\ Before(TimerCourse, "if_listen", "put_timeout")
  /\ Before(TimerCourse, "put_incomplete", "trig_turn")
  /\ Before(TimerCourse, "put_timeout", "trig_turn")
  /\ Before(TimerCourse, "trig_turn", "trig_hw") /\ Before(TimerCourse, "trig_hw", "trig_ptr")
  /\ Before(TimerCourse, "trig_ptr", "trig_short")
  /\ Before(TimerCourse, "trig_short", "trig_clear")
  /\ Before(TimerCourse, "trig_clear", "trig_commit")
  BY DEF Before, TimerCourse

\* The radio never waits for its peer alone: where only an ADDRESS could go on
\* with the turn, a deadline that radio_isr or the start has set is to come.
THEOREM WaitsHaveDeadlines ==
  ASSUME ~RadioInTimerIsr
  PROVE  Spec => []WaitsAreTimed
  <1>1. Init => ArmedInv BY DEF Init, ArmedInv
  <1>2. TurnsInv /\ ArmedInv => WaitsAreTimed
    <2> SUFFICES ASSUME TurnsInv, ArmedInv, thr # "boot", TimerIdle, pend = {},
                        hw \in {"rx", "off"}
                 PROVE  hw = "rx" /\ deadline_armed /\ deadline_int /\ deadline # "none"
      BY DEF WaitsAreTimed
    <2>1. turn_state = "LISTEN" /\ hw = "rx" BY DEF TurnsInv, TurnOfRadio
    <2> QED BY <2>1 DEF ArmedInv, TimerIdle
  <1> QED BY <1>1, <1>2, InitTurns, NextTurns, NextArmed, TypeCorrect, PTL DEF Spec

\* The radio goes on in its phase, but for the end of its own packet.
LEMMA HwNearer ==
  ASSUME ~RadioInTimerIsr, TypeOK, TurnsInv, thr # "boot",
         HwProgress \/ HwRxAddress \/ HwCompare
  PROVE  Nearer
  <1> USE DEF timerVars, stateVars, txVars, rxVars
  <1>1. UNCHANGED <<tmr, turn_state>>
    BY DEF HwProgress, HwReady, HwCrc, HwTxAddress, HwPhyEnd, HwDisabled, HwRxAddress,
           HwCompare, hwVars
  <1>2. CASE HwCompare
    <2>1. UNCHANGED <<hw, pend>> /\ deadline = "running" /\ deadline' = "hit"
      BY <1>2 DEF HwCompare, hwVars
    <2>2. Phase' = Phase BY <1>1, <2>1 DEF Phase
    <2> QED BY <1>1, <2>1, <2>2 DEF Nearer
  <1>3. CASE HwProgress \/ HwRxAddress
    <2>1. TurnOfRadio
      BY <1>3
      DEF HwProgress, HwReady, HwCrc, HwTxAddress, HwPhyEnd, HwDisabled, HwRxAddress,
          EventMayArise, TurnsInv, TurnOfTimer
    <2>2. CASE HwReady
      <3>1. \/ Phase = "LISTEN" /\ hw = "rxru" /\ hw' = "rx"
            \/ Phase = "IN_TX" /\ hw = "txru" /\ hw' = "tx"
        BY <2>1, <2>2 DEF HwReady, TurnOfRadio, Phase
      <3>2. Phase' = Phase BY <1>1, <2>2 DEF HwReady, Phase
      <3> QED BY <3>1, <3>2, HwOrder DEF Nearer
    <2>3. CASE HwRxAddress
      <3>1. turn_state = "LISTEN" /\ hw = "rx" /\ hw' = "rxpkt"
        BY <2>1, <2>3 DEF HwRxAddress, TurnOfRadio
      <3>2. Phase = "LISTEN" /\ Phase' = "LISTEN" BY <1>1, <3>1 DEF Phase
      <3> QED BY <3>1, <3>2, HwOrder DEF Nearer
    <2>4. CASE HwCrc
      <3>1. turn_state = "IN_RX" /\ hw = "rxpkt" /\ hw' = "rxend"
        BY <2>1, <2>4 DEF HwCrc, TurnOfRadio
      <3>2. Phase = "IN_RX" /\ Phase' = "IN_RX" BY <1>1, <3>1 DEF Phase
      <3> QED BY <3>1, <3>2, HwOrder DEF Nearer
    <2>5. CASE HwTxAddress
      <3>1. turn_state = "IN_TX" /\ hw = "tx" /\ hw' = "txpkt" /\ pend = {}
            /\ pend' = {"ADDRESS"}
        BY <2>1, <2>5 DEF HwTxAddress, TurnOfRadio
      <3>2. Phase = "IN_TX" /\ Phase' = "IN_TX" BY <1>1, <3>1 DEF Phase
      <3> QED BY <3>1, <3>2, HwOrder DEF Nearer
    <2>6. CASE HwPhyEnd
      <3>1. CASE hw = "rxend"
        <4>1. turn_state = "IN_RX" /\ hw' = "disable"
          BY <2>1, <2>6, <3>1 DEF HwPhyEnd, TurnOfRadio
        <4>2. Phase = "IN_RX" /\ Phase' = "IN_RX" BY <1>1, <4>1 DEF Phase
        <4> QED BY <3>1, <4>1, <4>2, HwOrder DEF Nearer
      <3>2. CASE hw = "txpkt"
        <4>1. turn_state = "IN_TX" /\ "PHYEND" \notin pend /\ "PHYEND" \in pend'
          BY <2>1, <2>6, <3>2 DEF HwPhyEnd, TurnOfRadio
        <4>2. Phase = "IN_TX" /\ Phase' = "SENT" BY <1>1, <4>1 DEF Phase
        <4> QED BY <4>2, CourseOrder DEF Nearer
      <3> QED BY <2>6, <3>1, <3>2 DEF HwPhyEnd
    <2>7. CASE HwDisabled
      <3>1. \/ Phase \in {"LISTEN", "SENT"} /\ hw = "disable" /\ hw' = "rxru"
            \/ Phase \in {"IN_RX", "IN_TX"} /\ hw = "disable" /\ hw' = "txru"
        BY <2>1, <2>7 DEF HwDisabled, TurnOfRadio, Phase
      <3>2. Phase' = Phase BY <1>1, <2>7 DEF HwDisabled, Phase
      <3> QED BY <3>1, <3>2, HwOrder DEF Nearer
    <2> QED BY <1>3, <2>2, <2>3, <2>4, <2>5, <2>6, <2>7 DEF HwProgress
  <1> QED BY <1>2, <1>3

\* radio_isr serves one event, and with it may open the next phase.
LEMMA RadioIsrNearer ==
  ASSUME TypeOK, TurnsInv, RadioIsr
  PROVE  Nearer \/ NextListen
  <1> USE DEF timerVars, stateVars, txVars, rxVars
  <1>1. TurnOfRadio /\ UNCHANGED hw
    BY DEF RadioIsr, IsrAddress, IsrCrc, IsrPhyEnd, TurnsInv, TurnOfTimer
  <1>2. CASE IsrAddress
    <2>1. \/ turn_state = "LISTEN" /\ turn_state' = "IN_RX"
          \/ /\ turn_state = "IN_TX" /\ turn_state' = "IN_TX" /\ pend = {"ADDRESS"}
             /\ pend' = {}
      BY <1>1, <1>2 DEF IsrAddress, TurnOfRadio
    <2>2. CASE turn_state = "LISTEN" /\ turn_state' = "IN_RX"
      <3>1. Phase = "LISTEN" /\ Phase' = "IN_RX" BY <2>2 DEF Phase
      <3> QED BY <3>1, CourseOrder DEF Nearer
    <2>3. CASE /\ turn_state = "IN_TX" /\ turn_state' = "IN_TX" /\ pend = {"ADDRESS"}
               /\ pend' = {}
      <3>1. Phase' = Phase BY <2>3 DEF Phase
      <3> QED BY <1>1, <2>3, <3>1 DEF Nearer
    <2> QED BY <2>1, <2>2, <2>3
  <1>3. ASSUME NEW event \in {"CRCOK", "CRCERROR"}, NEW type, IsrCrc(event, type)
        PROVE  Nearer
    <2>1. turn_state = "IN_RX" /\ turn_state' = "IN_RX"
      BY <1>1, <1>3 DEF IsrCrc, TurnOfRadio
    <2>2. pend' \subseteq pend /\ pend' # pend BY <1>3 DEF IsrCrc
    <2>3. Phase' = Phase BY <2>1 DEF Phase
    <2> QED BY <1>1, <2>2, <2>3 DEF Nearer
  <1>4. CASE IsrPhyEnd
    <2>1. \/ turn_state = "IN_RX" /\ turn_state' = "IN_TX" /\ "PHYEND" \notin pend'
          \/ NextListen
      BY <1>1, <1>4 DEF IsrPhyEnd, TurnOfRadio, NextListen
    <2>2. CASE turn_state = "IN_RX" /\ turn_state' = "IN_TX" /\ "PHYEND" \notin pend'
      <3>1. Phase = "IN_RX" /\ Phase' = "IN_TX" BY <2>2 DEF Phase
      <3> QED BY <3>1, CourseOrder DEF Nearer
    <2> QED BY <2>1, <2>2
  <1> QED BY <1>2, <1>3, <1>4 DEF RadioIsr

\* timer_isr goes on to the trigger: it leaves no turn half done.
LEMMA TimerIsrNearer ==
  ASSUME TypeOK, TurnsInv, ArmedInv, TimerIsr
  PROVE  Nearer
  <1> USE DEF timerVars, stateVars, txVars, rxVars, hwVars
  <1>1. tmr # "idle" => TurnOfTimer BY DEF TurnsInv, TimerIdle
  <1>2. CASE TimerTrigCommit
    <2>1. turn_state \in {"LISTEN", "IN_RX"} /\ turn_state' = "IN_TX" /\ pend' = {}
      BY <1>1, <1>2 DEF TimerTrigCommit, TurnOfTimer
    <2>2. Phase \in {"LISTEN", "IN_RX"} /\ Phase' = "IN_TX" BY <2>1 DEF Phase
    <2> QED BY <2>2, CourseOrder DEF Nearer
  <1>3. CASE TimerTrigDisable
    <2>1. /\ turn_state = "IN_TX" /\ hw \in {"rx", "rxpkt"} /\ hw' = "disable" /\ pend = {}
          /\ UNCHANGED <<turn_state, pend>>
      BY <1>1, <1>3 DEF TimerTrigDisable, TurnOfTimer
    <2>2. Phase = "IN_TX" /\ Phase' = "IN_TX" BY <2>1 DEF Phase
    <2> QED BY <2>1, <2>2, HwOrder DEF Nearer
  <1>4. CASE ~TimerTrigCommit /\ ~TimerTrigDisable
    <2>1. UNCHANGED <<turn_state, hw, pend>>
      BY <1>1, <1>4
      DEF TimerIsr, TimerEnter, TimerArmed, TimerUnarm, TimerMask, TimerIfRx,
          TimerIfListen, TimerPuts, TimerPut, TimerTrigTurn, TimerTrigHw, TimerTrigPtr,
          TimerTrigShort, TimerTrigClear, TimerTest, TurnOfTimer
    <2>2. Phase' = Phase BY <2>1 DEF Phase
    <2>3. Before(TimerCourse, tmr, tmr')
      <3>1. CASE TimerEnter \/ TimerArmed \/ TimerUnarm \/ TimerMask
        BY <3>1, TimerOrder DEF TimerEnter, TimerArmed, TimerUnarm, TimerMask, TimerTest, ArmedInv
      <3>2. CASE TimerIfRx \/ TimerIfListen
        BY <3>2, TimerOrder DEF TimerIfRx, TimerIfListen, TimerTest, ArmedInv
      <3>3. CASE TimerPuts
        BY <3>3, TimerOrder DEF TimerPuts, TimerPut, TurnsInv, TriggerNeverFails
      <3>4. CASE TimerTrigTurn \/ TimerTrigHw
        <4>1. tmr \in {"trig_turn", "trig_hw"} BY <3>4 DEF TimerTrigTurn, TimerTrigHw, TimerTest
        <4>2. turn_state \in {"LISTEN", "IN_RX"} /\ hw \in Receiving
          BY <1>1, <4>1 DEF TurnOfTimer, Receiving
        <4> QED BY <3>4, <4>2, TimerOrder DEF TimerTrigTurn, TimerTrigHw, TimerTest
      <3>5. CASE TimerTrigPtr \/ TimerTrigShort \/ TimerTrigClear
        BY <3>5, TimerOrder DEF TimerTrigPtr, TimerTrigShort, TimerTrigClear
      <3> QED BY <1>4, <3>1, <3>2, <3>3, <3>4, <3>5 DEF TimerIsr
    <2> QED BY <2>1, <2>2, <2>3 DEF Nearer
  <1> QED BY <1>2, <1>3, <1>4

\* Every turn goes on until its end (radio_core.c, radio_isr and timer_isr):
\* together with WaitsHaveDeadlines the part of TurnsAlternate that needs no
\* fairness.
THEOREM TurnsAdvance ==
  ASSUME ~RadioInTimerIsr
  PROVE  Spec => TurnAdvances
  <1>1. Init => ArmedInv BY DEF Init, ArmedInv
  <1>2. TypeOK /\ TurnsInv /\ ArmedInv /\ [Next]_vars
          => [thr # "boot" => Nearer \/ NextListen]_turnVars
    <2> SUFFICES ASSUME TypeOK, TurnsInv, ArmedInv, Next, thr # "boot"
                 PROVE  Nearer \/ NextListen \/ UNCHANGED turnVars
      BY DEF vars, turnVars, hwVars, timerVars, stateVars
    <2>1. CASE HwProgress \/ HwRxAddress \/ HwCompare BY <2>1, HwNearer
    <2>2. CASE RadioIsr BY <2>2, RadioIsrNearer
    <2>3. CASE TimerIsr BY <2>3, TimerIsrNearer
    <2>4. CASE Thread
      BY <2>4
      DEF Thread, prop_radio_start, prop_radio_stop, prop_radio_dequeue_session_event,
          prop_radio_rx_get_rd_ptr, prop_radio_rx_advance_rd_idx,
          prop_radio_tx_get_wr_ptr, prop_radio_tx_advance_wr_idx, TurnsInv, turnVars,
          hwVars, timerVars, stateVars
    <2>5. CASE Parked BY <2>5 DEF Parked, vars, turnVars, hwVars, timerVars, stateVars
    <2> QED BY <2>1, <2>2, <2>3, <2>4, <2>5 DEF Next
  <1> QED
    BY <1>1, <1>2, InitTurns, NextTurns, NextArmed, TypeCorrect, PTL
    DEF Spec, TurnAdvances
=============================================================================
