----------------------------- MODULE RadioCore -----------------------------
(***************************************************************************)
(* The PROP half-duplex radio driver, firmware/src/prop/radio_core.c, with *)
(* the RADIO and TIMER10 peripherals it programs and the session thread    *)
(* that consumes its events.  Four agents share its state:                 *)
(*                                                                         *)
(*   - the RADIO peripheral: ramp-up, reception, transmission, and the     *)
(*     hardware shortcuts that chain one packet to the next turn;          *)
(*   - radio_isr, interrupt priority 0: one action per event it serves;    *)
(*   - timer_isr, priority 1: radio_isr may preempt it, so it is cut into  *)
(*     one step per access to shared state, tmr being its program counter; *)
(*   - the session thread of session.c, which runs only while no interrupt *)
(*     handler is active, thr being its program counter.                   *)
(*                                                                         *)
(* The peer is the environment: it may start a packet, good or corrupted,  *)
(* whenever the receiver listens.                                          *)
(*                                                                         *)
(* Hardware timing the model assumes, none of which the driver checks:     *)
(*   A1  radio_isr serves ADDRESS before the packet ends and PHYEND before *)
(*       the next ramp-up ends (prop-tdd.md, invariant 13);                *)
(*   A2  a deadline, 550 us or more, outlasts a turnaround into RX;        *)
(*   A3  a ramp-up, 40 us, outlasts a run of timer_isr.                    *)
(* Whether radio events can fall inside timer_isr is a parameter.          *)
(***************************************************************************)
EXTENDS Integers, Sequences

CONSTANTS
  TX_RING_DEPTH,     \* PROP_RADIO_TX_RING_DEPTH
  RX_RING_DEPTH,     \* PROP_RADIO_RX_RING_DEPTH
  EVENT_QUEUE_DEPTH, \* PROP_RADIO_SESSION_EVENT_QUEUE_DEPTH
  RadioInTimerIsr    \* may radio events arrive while timer_isr runs?

\* The BUILD_ASSERTs of radio_core.c: each ring leaves one slot unused.
ASSUME DepthAssumption ==
  /\ TX_RING_DEPTH \in Nat /\ TX_RING_DEPTH > 1
  /\ RX_RING_DEPTH \in Nat /\ RX_RING_DEPTH > 1
  /\ EVENT_QUEUE_DEPTH \in Nat /\ EVENT_QUEUE_DEPTH > 0
  /\ RadioInTimerIsr \in BOOLEAN

VARIABLES
  \* the RADIO peripheral
  hw,        \* its state machine
  packetptr, \* the PACKETPTR register
  short,     \* the turn-selection shortcut: what DISABLED chains to
  dma,       \* the pointer latched at START: the buffer on air
  pend,      \* event registers set and not yet served by radio_isr
  \* TIMER10 and timer_isr
  deadline,     \* CC[3] / COMPARE3: none, running, or hit
  deadline_int, \* the COMPARE3 interrupt enable
  tmr,          \* where timer_isr is
  \* struct radio_core_state
  turn_state,
  deadline_armed,
  tx_packet_from_ring,
  \* the rings and their indices
  tx_ring, tx_wr_idx, tx_rd_idx,
  rx_ring, rx_wr_idx, rx_rd_idx,
  \* session_event_queue and the session thread
  queue,
  thr

hwVars    == <<hw, packetptr, short, dma, pend>>
timerVars == <<deadline, deadline_int>>
stateVars == <<turn_state, deadline_armed, tx_packet_from_ring>>
txVars    == <<tx_ring, tx_wr_idx, tx_rd_idx>>
rxVars    == <<rx_ring, rx_wr_idx, rx_rd_idx>>
vars == <<hwVars, timerVars, tmr, stateVars, txVars, rxVars, queue, thr>>

TxSlots == 0 .. TX_RING_DEPTH - 1
RxSlots == 0 .. RX_RING_DEPTH - 1

\* A buffer the radio can be pointed at.
RxBuffer(i) == <<"rx", i>>
TxBuffer(i) == <<"tx", i>>
Keepalive   == <<"keepalive", 0>>
RxBuffers == {RxBuffer(i) : i \in RxSlots}
TxBuffers == {TxBuffer(i) : i \in TxSlots} \cup {Keepalive}
Buffers   == RxBuffers \cup TxBuffers

\* What a ring slot holds.  A TX slot is free, being filled by the thread,
\* ready to send, or aired and not yet released.  An RX slot is what the last
\* reception left: nothing, a packet still arriving, a good or a bad packet.
TxContents == {"free", "filling", "ready", "aired"}
RxContents == {"none", "arriving", "RX_OK", "RX_BAD"}

RxEventTypes == {"RX_OK", "RX_BAD"}
EventTypes == RxEventTypes \cup
  {"TX_END", "RX_INCOMPLETE", "LISTEN_TIMEOUT", "TX_TRIGGER_FAILED"}

\* struct prop_session_event.  The tick of an RX event identifies the packet
\* it reports; slot is that identity here.  No code reads it.
NoSlot == -1
Event(type, slot) == [type |-> type, slot |-> slot]
Events == [type : EventTypes, slot : RxSlots \cup {NoSlot}]

\* Where the receiver is on, as nrf_radio_state_get reports it (RX, RXIDLE).
Receiving == {"rx", "rxpkt", "rxend"}
HwStates  == {"off", "rxru", "rx", "rxpkt", "rxend",
              "txru", "tx", "txpkt", "disable"}
TurnStates == {"DISABLED", "LISTEN", "IN_RX", "IN_TX"}
TimerPCs == {"idle", "armed", "unarm", "mask", "if_rx", "put_incomplete",
             "if_listen", "put_timeout", "trig_turn", "trig_hw", "trig_ptr",
             "trig_short", "trig_clear", "trig_commit", "trig_disable",
             "put_failed"}
ThreadPCs == {"boot", "idle", "rx_ok", "rx_reading", "rx_bad",
              "refill", "filling", "stop"}

-----------------------------------------------------------------------------
(* Indices *)

\* Mutants, here and below: each is a wrong variant of the definition that follows
\* it, with which a run must find its property violated.
next_rx_idx_unwrapped(i) == i + 1

next_tx_idx(i) == (i + 1) % TX_RING_DEPTH
next_rx_idx(i) == (i + 1) % RX_RING_DEPTH

tx_ring_empty == tx_rd_idx = tx_wr_idx
tx_ring_never_full == FALSE
tx_ring_full  == next_tx_idx(tx_wr_idx) = tx_rd_idx
rx_ring_write_never_fills == FALSE
rx_ring_write_would_fill == next_rx_idx(rx_wr_idx) = rx_rd_idx

(* What radio_isr and timer_isr do to the shared state *)

program_rx_packetptr_at_read ==
  /\ packetptr' = RxBuffer(rx_rd_idx)
  /\ short' = "RXEN"

program_rx_packetptr ==
  /\ packetptr' = RxBuffer(rx_wr_idx)
  /\ short' = "RXEN"

NextTxBuffer_no_keepalive == TxBuffer(tx_rd_idx)
NextTxBuffer == IF tx_ring_empty THEN Keepalive ELSE TxBuffer(tx_rd_idx)

program_tx_packetptr_keeps_short ==
  /\ packetptr' = NextTxBuffer
  /\ tx_packet_from_ring' = ~tx_ring_empty
  /\ UNCHANGED short

program_tx_packetptr_stale_flag ==
  /\ packetptr' = NextTxBuffer
  /\ UNCHANGED tx_packet_from_ring
  /\ short' = "TXEN"

program_tx_packetptr ==
  /\ packetptr' = NextTxBuffer
  /\ tx_packet_from_ring' = ~tx_ring_empty
  /\ short' = "TXEN"

set_deadline_stale_event ==
  /\ deadline' = IF deadline = "hit" THEN "hit" ELSE "running"
  /\ deadline_armed' = TRUE
  /\ deadline_int' = TRUE

set_deadline_masked ==
  /\ deadline' = "running"
  /\ deadline_armed' = TRUE
  /\ UNCHANGED deadline_int

\* The late-deadline clamp only moves the compare value, which is untimed here.
set_deadline ==
  /\ deadline' = "running"
  /\ deadline_armed' = TRUE
  /\ deadline_int' = TRUE

clear_deadline ==
  /\ deadline_armed' = FALSE
  /\ deadline_int' = FALSE
  /\ UNCHANGED deadline

CanQueue == Len(queue) < EVENT_QUEUE_DEPTH

\* A full queue drops the event.
queue_session_event(e) ==
  queue' = IF CanQueue THEN Append(queue, e) ELSE queue

-----------------------------------------------------------------------------
(* The RADIO peripheral *)

TimerIdle == tmr = "idle"
EventMayArise == TimerIdle \/ RadioInTimerIsr

\* READY_START: the ramp-up ends and the radio latches PACKETPTR.
HwReady ==
  /\ hw \in {"rxru", "txru"}
  /\ pend = {}               \* A1
  /\ TimerIdle               \* A3
  /\ hw' = IF hw = "rxru" THEN "rx" ELSE "tx"
  /\ dma' = packetptr
  /\ UNCHANGED <<packetptr, short, pend, timerVars, tmr, stateVars, txVars,
                 rxVars, queue, thr>>

\* A peer's packet matches the address: DMA starts to fill the latched slot.
HwRxAddress ==
  /\ hw = "rx"
  /\ EventMayArise
  /\ hw' = "rxpkt"
  /\ pend' = pend \cup {"ADDRESS"}
  /\ rx_ring' = [i \in RxSlots |->
                   IF dma = RxBuffer(i) THEN "arriving" ELSE rx_ring[i]]
  /\ UNCHANGED <<packetptr, short, dma, timerVars, tmr, stateVars, txVars,
                 rx_wr_idx, rx_rd_idx, queue, thr>>

\* The packet and its CRC are in the slot.
HwCrc ==
  /\ hw = "rxpkt"
  /\ "ADDRESS" \notin pend   \* A1
  /\ EventMayArise
  /\ hw' = "rxend"
  /\ \E ok \in BOOLEAN :
       /\ pend' = pend \cup {IF ok THEN "CRCOK" ELSE "CRCERROR"}
       /\ rx_ring' = [i \in RxSlots |->
                        IF dma = RxBuffer(i)
                          THEN IF ok THEN "RX_OK" ELSE "RX_BAD"
                          ELSE rx_ring[i]]
  /\ UNCHANGED <<packetptr, short, dma, timerVars, tmr, stateVars, txVars,
                 rx_wr_idx, rx_rd_idx, queue, thr>>

\* The local packet's address is on air.
HwTxAddress ==
  /\ hw = "tx"
  /\ EventMayArise
  /\ hw' = "txpkt"
  /\ pend' = pend \cup {"ADDRESS"}
  /\ UNCHANGED <<packetptr, short, dma, timerVars, tmr, stateVars, txVars,
                 rxVars, queue, thr>>

\* PHYEND_DISABLE: a packet ends in either direction and the radio ramps down.
HwPhyEnd ==
  /\ hw \in {"rxend", "txpkt"}
  /\ "ADDRESS" \notin pend   \* A1
  /\ EventMayArise
  /\ hw' = "disable"
  /\ pend' = pend \cup {"PHYEND"}
  /\ tx_ring' = [i \in TxSlots |->
                   IF hw = "txpkt" /\ dma = TxBuffer(i) /\ tx_ring[i] = "ready"
                     THEN "aired" ELSE tx_ring[i]]
  /\ UNCHANGED <<packetptr, short, dma, timerVars, tmr, stateVars, tx_wr_idx,
                 tx_rd_idx, rxVars, queue, thr>>

\* DISABLED_RXEN or DISABLED_TXEN starts the next turn; with neither, the
\* radio stays off.
HwDisabled ==
  /\ hw = "disable"
  /\ \/ short = "RXEN" /\ hw' = "rxru"
     \/ short = "TXEN" /\ hw' = "txru"
     \/ short = "none" /\ hw' = "off"
  /\ UNCHANGED <<packetptr, short, dma, pend, timerVars, tmr, stateVars, txVars,
                 rxVars, queue, thr>>

TurningToRx == hw = "rxru" \/ (hw = "disable" /\ short = "RXEN")

\* TIMER10 reaches CC[3].
HwCompare ==
  /\ deadline = "running"
  /\ ~TurningToRx            \* A2
  /\ deadline' = "hit"
  /\ UNCHANGED <<hwVars, deadline_int, tmr, stateVars, txVars, rxVars, queue, thr>>

-----------------------------------------------------------------------------
(* radio_isr: one action per event.  CRCOK or CRCERROR comes before PHYEND *)
(* in the handler, and in the hardware.                                    *)

IsrAddress ==
  /\ "ADDRESS" \in pend
  /\ pend' = pend \ {"ADDRESS"}
  /\ \/ /\ turn_state = "LISTEN"
        /\ turn_state' = "IN_RX"
        /\ set_deadline
        /\ program_tx_packetptr
     \/ /\ turn_state = "IN_TX"
        /\ program_rx_packetptr
        /\ UNCHANGED <<stateVars, timerVars>>
     \/ /\ turn_state \in {"IN_RX", "DISABLED"}
        /\ UNCHANGED <<packetptr, short, stateVars, timerVars>>
  /\ UNCHANGED <<hw, dma, tmr, txVars, rxVars, queue, thr>>

\* The slot is kept only if the ring has room and its event is queued.
IsrCrc(event, type) ==
  /\ event \in pend
  /\ pend' = pend \ {event}
  /\ \/ /\ turn_state \in {"LISTEN", "IN_RX"}
        /\ clear_deadline
        /\ IF ~rx_ring_write_would_fill /\ CanQueue
             THEN /\ queue' = Append(queue, Event(type, rx_wr_idx))
                  /\ rx_wr_idx' = next_rx_idx(rx_wr_idx)
                  /\ UNCHANGED rx_ring
             ELSE /\ rx_ring' = [rx_ring EXCEPT ![rx_wr_idx] = "none"]
                  /\ UNCHANGED <<queue, rx_wr_idx>>
     \/ /\ turn_state \in {"IN_TX", "DISABLED"}
        /\ UNCHANGED <<timerVars, deadline_armed, queue, rx_wr_idx, rx_ring>>
  /\ UNCHANGED <<hw, packetptr, short, dma, tmr, turn_state, tx_packet_from_ring,
                 txVars, rx_rd_idx, thr>>

IsrPhyEnd ==
  /\ "PHYEND" \in pend
  /\ pend \cap {"CRCOK", "CRCERROR"} = {}
  /\ pend' = pend \ {"PHYEND"}
  /\ \/ /\ turn_state = "IN_RX"
        /\ turn_state' = "IN_TX"
        /\ UNCHANGED <<timerVars, deadline_armed, tx_ring, tx_rd_idx, queue>>
     \/ /\ turn_state = "IN_TX"
        /\ IF tx_packet_from_ring
             THEN /\ tx_rd_idx' = next_tx_idx(tx_rd_idx)
                  /\ tx_ring' = [tx_ring EXCEPT ![tx_rd_idx] = "free"]
             ELSE UNCHANGED <<tx_rd_idx, tx_ring>>
        /\ turn_state' = "LISTEN"
        /\ set_deadline
        /\ queue_session_event(Event("TX_END", NoSlot))
     \/ /\ turn_state \in {"LISTEN", "DISABLED"}
        /\ UNCHANGED <<turn_state, timerVars, deadline_armed, tx_ring, tx_rd_idx,
                       queue>>
  /\ UNCHANGED <<hw, packetptr, short, dma, tmr, tx_packet_from_ring, tx_wr_idx,
                 rxVars, thr>>

RadioIsr ==
  \/ IsrAddress
  \/ IsrCrc("CRCOK", "RX_OK")
  \/ IsrCrc("CRCERROR", "RX_BAD")
  \/ IsrPhyEnd

-----------------------------------------------------------------------------
(* timer_isr: radio events may land between any two of these steps, and    *)
(* radio_isr then runs before the next one.  The two steps that touch what *)
(* an event touches, clearing ADDRESS and triggering DISABLE, may also win *)
(* against an event raised and not yet taken.                              *)

NothingPending == pend = {}

\* NVIC takes radio_isr first when both are pending.  Entry checks and clears
\* COMPARE3.
TimerEnter ==
  /\ tmr = "idle"
  /\ deadline = "hit" /\ deadline_int
  /\ NothingPending
  /\ deadline' = "none"
  /\ tmr' = "armed"
  /\ UNCHANGED <<hwVars, deadline_int, stateVars, txVars, rxVars, queue, thr>>

\* A step that only reads, and decides where timer_isr goes.
TimerTest(pc, next) ==
  /\ tmr = pc
  /\ tmr' = next
  /\ NothingPending
  /\ UNCHANGED <<hwVars, timerVars, stateVars, txVars, rxVars, queue, thr>>

TimerArmed_unchecked == TimerTest("armed", "unarm")
TimerArmed    == TimerTest("armed", IF deadline_armed THEN "unarm" ELSE "idle")
TimerIfRx     == TimerTest("if_rx",
                   IF turn_state = "IN_RX" THEN "put_incomplete" ELSE "if_listen")
TimerIfListen == TimerTest("if_listen",
                   IF turn_state = "LISTEN" THEN "put_timeout" ELSE "idle")
TimerTrigTurn == TimerTest("trig_turn",
                   IF turn_state \in {"DISABLED", "IN_TX"} THEN "put_failed"
                                                           ELSE "trig_hw")
TimerTrigHw   == TimerTest("trig_hw",
                   IF hw \in Receiving THEN "trig_ptr" ELSE "put_failed")

\* clear_deadline, in its two writes.
TimerUnarm ==
  /\ tmr = "unarm" /\ tmr' = "mask"
  /\ NothingPending
  /\ deadline_armed' = FALSE
  /\ UNCHANGED <<hwVars, timerVars, turn_state, tx_packet_from_ring, txVars,
                 rxVars, queue, thr>>

TimerMask ==
  /\ tmr = "mask" /\ tmr' = "if_rx"
  /\ NothingPending
  /\ deadline_int' = FALSE
  /\ UNCHANGED <<hwVars, deadline, stateVars, txVars, rxVars, queue, thr>>

TimerPut(pc, type, next) ==
  /\ tmr = pc /\ tmr' = next
  /\ NothingPending
  /\ queue_session_event(Event(type, NoSlot))
  /\ UNCHANGED <<hwVars, timerVars, stateVars, txVars, rxVars, thr>>

TimerPuts ==
  \/ TimerPut("put_incomplete", "RX_INCOMPLETE", "trig_turn")
  \/ TimerPut("put_timeout", "LISTEN_TIMEOUT", "trig_turn")
  \/ TimerPut("put_failed", "TX_TRIGGER_FAILED", "idle")

\* trigger_prepared_tx: program_tx_packetptr in its two register writes,
\* clear ADDRESS, commit to IN_TX, trigger DISABLE.
TimerTrigPtr ==
  /\ tmr = "trig_ptr" /\ tmr' = "trig_short"
  /\ NothingPending
  /\ packetptr' = NextTxBuffer
  /\ tx_packet_from_ring' = ~tx_ring_empty
  /\ UNCHANGED <<hw, short, dma, pend, timerVars, turn_state, deadline_armed,
                 txVars, rxVars, queue, thr>>

TimerTrigShort ==
  /\ tmr = "trig_short" /\ tmr' = "trig_clear"
  /\ NothingPending
  /\ short' = "TXEN"
  /\ UNCHANGED <<hw, packetptr, dma, pend, timerVars, stateVars, txVars, rxVars,
                 queue, thr>>

TimerTrigClear ==
  /\ tmr = "trig_clear" /\ tmr' = "trig_commit"
  /\ pend' = pend \ {"ADDRESS"}
  /\ UNCHANGED <<hw, packetptr, short, dma, timerVars, stateVars, txVars, rxVars,
                 queue, thr>>

TimerTrigCommit ==
  /\ tmr = "trig_commit" /\ tmr' = "trig_disable"
  /\ NothingPending
  /\ turn_state' = "IN_TX"
  /\ UNCHANGED <<hwVars, timerVars, deadline_armed, tx_packet_from_ring, txVars,
                 rxVars, queue, thr>>

TimerTrigDisable ==
  /\ tmr = "trig_disable" /\ tmr' = "idle"
  /\ hw' = "disable"
  /\ UNCHANGED <<packetptr, short, dma, pend, timerVars, stateVars, txVars,
                 rxVars, queue, thr>>

TimerIsr ==
  \/ TimerEnter \/ TimerArmed \/ TimerUnarm \/ TimerMask
  \/ TimerIfRx \/ TimerIfListen \/ TimerPuts
  \/ TimerTrigTurn \/ TimerTrigHw \/ TimerTrigPtr \/ TimerTrigShort
  \/ TimerTrigClear \/ TimerTrigCommit \/ TimerTrigDisable

-----------------------------------------------------------------------------
(* The session thread's calls, in the order session.c makes them.  The     *)
(* thread has the CPU only while no interrupt is pending or served.        *)

CpuFree == TimerIdle /\ NothingPending

\* prop_radio_start, once at boot, then the refill of prop_session_start_radio.
prop_radio_start ==
  /\ thr = "boot" /\ thr' = "refill"
  /\ CpuFree
  /\ turn_state' = "LISTEN"
  /\ tx_packet_from_ring' = FALSE
  /\ tx_wr_idx' = 0 /\ tx_rd_idx' = 0
  /\ rx_wr_idx' = 0 /\ rx_rd_idx' = 0
  /\ packetptr' = RxBuffer(0) /\ short' = "RXEN"
  /\ pend' = {}
  /\ hw' = "rxru"
  /\ set_deadline
  /\ queue' = << >>
  /\ UNCHANGED <<dma, tmr, tx_ring, rx_ring>>

\* prop_radio_stop, under irq_lock, then the purge.  The COMPARE3 interrupt
\* stays enabled; TIMER10 stops, so a running deadline no longer hits.
prop_radio_stop ==
  /\ thr = "stop" /\ thr' = "idle"
  /\ TimerIdle
  /\ turn_state' = "DISABLED"
  /\ deadline_armed' = FALSE
  /\ tx_packet_from_ring' = FALSE
  /\ deadline' = IF deadline = "running" THEN "none" ELSE deadline
  /\ short' = "none"
  /\ pend' = {}
  /\ hw' = "disable"
  /\ queue' = << >>
  /\ UNCHANGED <<packetptr, dma, deadline_int, tmr, txVars, rxVars>>

\* prop_radio_dequeue_session_event, and the case of prop_session_thread.
Handler_keeps_bad_slot ==
  [RX_OK |-> "rx_ok", RX_BAD |-> "idle", TX_END |-> "refill",
   RX_INCOMPLETE |-> "idle", LISTEN_TIMEOUT |-> "idle",
   TX_TRIGGER_FAILED |-> "stop"]

Handler == [RX_OK |-> "rx_ok", RX_BAD |-> "rx_bad", TX_END |-> "refill",
            RX_INCOMPLETE |-> "idle", LISTEN_TIMEOUT |-> "idle",
            TX_TRIGGER_FAILED |-> "stop"]

prop_radio_dequeue_session_event ==
  /\ thr = "idle"
  /\ CpuFree
  /\ queue # << >>
  /\ queue' = Tail(queue)
  /\ thr' = Handler[Head(queue).type]
  /\ UNCHANGED <<hwVars, timerVars, tmr, stateVars, txVars, rxVars>>

\* handle_rx_ok asks for the slot at the read index and, if there is one, reads
\* it; with none it only asserts and leaves.
prop_radio_rx_get_rd_ptr ==
  /\ thr = "rx_ok"
  /\ CpuFree
  /\ thr' = IF turn_state # "DISABLED" /\ rx_rd_idx # rx_wr_idx
              THEN "rx_reading" ELSE "idle"
  /\ UNCHANGED <<hwVars, timerVars, tmr, stateVars, txVars, rxVars, queue>>

prop_radio_rx_advance_rd_idx ==
  /\ thr \in {"rx_reading", "rx_bad"} /\ thr' = "idle"
  /\ CpuFree
  /\ IF rx_rd_idx # rx_wr_idx
       THEN /\ rx_rd_idx' = next_rx_idx(rx_rd_idx)
            /\ rx_ring' = [rx_ring EXCEPT ![rx_rd_idx] = "none"]
       ELSE UNCHANGED <<rx_rd_idx, rx_ring>>
  /\ UNCHANGED <<hwVars, timerVars, tmr, stateVars, txVars, rx_wr_idx, queue>>

\* prop_session_copy_to_radio_rb: no free slot or no queued packet ends the
\* refill; otherwise the thread fills the slot at the write index.
prop_radio_tx_get_wr_ptr ==
  /\ thr = "refill"
  /\ CpuFree
  /\ \/ thr' = "idle" /\ UNCHANGED tx_ring
     \/ /\ ~tx_ring_full
        /\ thr' = "filling"
        /\ tx_ring' = [tx_ring EXCEPT ![tx_wr_idx] = "filling"]
  /\ UNCHANGED <<hwVars, timerVars, tmr, stateVars, tx_wr_idx, tx_rd_idx, rxVars,
                 queue>>

prop_radio_tx_advance_wr_idx ==
  /\ thr = "filling" /\ thr' = "refill"
  /\ CpuFree
  /\ tx_ring' = [tx_ring EXCEPT ![tx_wr_idx] = "ready"]
  /\ tx_wr_idx' = next_tx_idx(tx_wr_idx)
  /\ UNCHANGED <<hwVars, timerVars, tmr, stateVars, tx_rd_idx, rxVars, queue>>

\* After a stop the thread waits for an event forever.
Parked ==
  /\ thr = "idle" /\ turn_state = "DISABLED" /\ queue = << >>
  /\ UNCHANGED vars

Thread ==
  \/ prop_radio_start \/ prop_radio_stop
  \/ prop_radio_dequeue_session_event
  \/ prop_radio_rx_get_rd_ptr \/ prop_radio_rx_advance_rd_idx
  \/ prop_radio_tx_get_wr_ptr \/ prop_radio_tx_advance_wr_idx

-----------------------------------------------------------------------------
Init ==
  /\ hw = "off" /\ packetptr = RxBuffer(0) /\ short = "none"
  /\ dma = RxBuffer(0) /\ pend = {}
  /\ deadline = "none" /\ deadline_int = FALSE /\ tmr = "idle"
  /\ turn_state = "DISABLED" /\ deadline_armed = FALSE
  /\ tx_packet_from_ring = FALSE
  /\ tx_ring = [i \in TxSlots |-> "free"] /\ tx_wr_idx = 0 /\ tx_rd_idx = 0
  /\ rx_ring = [i \in RxSlots |-> "none"] /\ rx_wr_idx = 0 /\ rx_rd_idx = 0
  /\ queue = << >>
  /\ thr = "boot"

\* What the radio and the timer do without a peer.
HwProgress ==
  HwReady \/ HwCrc \/ HwTxAddress \/ HwPhyEnd \/ HwDisabled

Next ==
  \/ HwProgress \/ HwRxAddress \/ HwCompare
  \/ RadioIsr \/ TimerIsr \/ Thread \/ Parked

Spec == Init /\ [][Next]_vars

\* The hardware runs, interrupts are served and the thread is scheduled;
\* nothing obliges a peer to send.
Fairness ==
  /\ WF_vars(HwProgress) /\ WF_vars(HwCompare)
  /\ WF_vars(RadioIsr) /\ WF_vars(TimerIsr) /\ WF_vars(Thread)

FairSpec == Spec /\ Fairness

-----------------------------------------------------------------------------
\* Every index stays inside its ring, the event queue within its depth, and the
\* turn, the registers and the two program counters take known values only.
TypeOK ==
  /\ hw \in HwStates
  /\ packetptr \in Buffers
  /\ short \in {"RXEN", "TXEN", "none"}
  /\ dma \in Buffers
  /\ pend \subseteq {"ADDRESS", "CRCOK", "CRCERROR", "PHYEND"}
  /\ deadline \in {"none", "running", "hit"}
  /\ deadline_int \in BOOLEAN
  /\ tmr \in TimerPCs
  /\ turn_state \in TurnStates
  /\ deadline_armed \in BOOLEAN
  /\ tx_packet_from_ring \in BOOLEAN
  /\ tx_ring \in [TxSlots -> TxContents]
  /\ tx_wr_idx \in TxSlots /\ tx_rd_idx \in TxSlots
  /\ rx_ring \in [RxSlots -> RxContents]
  /\ rx_wr_idx \in RxSlots /\ rx_rd_idx \in RxSlots
  /\ queue \in Seq(Events) /\ Len(queue) <= EVENT_QUEUE_DEPTH
  /\ thr \in ThreadPCs

(***************************************************************************)
(* RX ring and event stream (rx_ring, session_event_queue).                *)
(***************************************************************************)

\* How far a slot is behind the read index, and how many slots are unread.
Dist(s) == (s - rx_rd_idx) % RX_RING_DEPTH
Unread  == Dist(rx_wr_idx)

\* The thread has dequeued an RX event and not yet released its slot.
Held == IF thr \in {"rx_ok", "rx_reading", "rx_bad"} THEN 1 ELSE 0

RxAt(i) == queue[i].type \in RxEventTypes

\* The RX events in the queue and the unread ring slots are the same packets in
\* the same order, although they live in two structures that fill and drop
\* independently: no event without its slot, no slot without its event, and
\* the slot still holds what the event reports.  handle_rx_ok asserts
\* a consequence of it (session.c:236).
EventSlotMatch ==
  turn_state # "DISABLED" =>
    /\ Held <= Unread
    /\ \A i \in DOMAIN queue : RxAt(i) =>
         /\ queue[i].slot \in RxSlots
         /\ Dist(queue[i].slot) \in Held .. Unread - 1
         /\ rx_ring[queue[i].slot] = queue[i].type
    /\ \A i, j \in DOMAIN queue : i < j /\ RxAt(i) /\ RxAt(j) =>
         Dist(queue[i].slot) < Dist(queue[j].slot)
    /\ \A d \in Held .. Unread - 1 :
         \E i \in DOMAIN queue : RxAt(i) /\ Dist(queue[i].slot) = d
    /\ thr \in {"rx_ok", "rx_reading"} => rx_ring[rx_rd_idx] = "RX_OK"
    /\ thr = "rx_bad" => rx_ring[rx_rd_idx] = "RX_BAD"

\* While the receiver may write memory, it writes a slot of the RX ring that
\* is not waiting to be read, whatever the interrupts did in between: the
\* pointer was latched a whole ramp-up ago and cannot be recalled.
RxDmaSafe ==
  hw \in {"rx", "rxpkt"} =>
    \E s \in RxSlots : dma = RxBuffer(s) /\ Dist(s) >= Unread

\* While the transmitter reads memory, it reads the keepalive or a payload that
\* the thread has committed and that has not been aired before: never a slot
\* being filled, already released, or already sent, and never an RX slot.
TxDmaSafe ==
  hw \in {"tx", "txpkt"} =>
    \/ dma = Keepalive
    \/ \E s \in TxSlots : dma = TxBuffer(s) /\ tx_ring[s] = "ready"

\* A payload leaves the TX ring only after the radio has put it on air.
ReleasedAfterAir ==
  [][thr # "boot" /\ tx_rd_idx' # tx_rd_idx => tx_ring[tx_rd_idx] = "aired"]_vars

\* The TX slot the session is filling is never the one on air, not even when
\* an interrupt steals the turn: the read index may move while the radio still
\* sends from the old slot, and only the ring's unused slot keeps them apart.
TxFillPrivate ==
  hw \in {"tx", "txpkt"} =>
    \A s \in TxSlots : dma = TxBuffer(s) => tx_ring[s] # "filling"

\* The software's turn and the hardware's direction agree: what the turn says
\* is what the radio is doing, or what its shortcut and pointer are about to do.
TurnMatchesRadio ==
  /\ hw \in {"rxru", "rx"} =>
       \/ turn_state = "LISTEN"
       \/ "PHYEND" \in pend
       \/ tmr = "trig_disable"
  /\ hw \in {"txru", "tx", "txpkt"} => turn_state = "IN_TX" \/ "PHYEND" \in pend
  /\ hw \in {"rxru", "txru"} =>
       (packetptr \in RxBuffers) = (hw = "rxru")

\* The deadline timer finds nothing but the turn it was armed for, so the
\* prepared TX can always be triggered (session.c stops the radio for good
\* when it cannot).
TriggerNeverFails ==
  /\ tmr # "put_failed"
  /\ \A i \in DOMAIN queue : queue[i].type # "TX_TRIGGER_FAILED"

Stopped == turn_state = "DISABLED" /\ thr # "boot"

\* "Stop purges stale session events and leaves radio state disabled"
\* (prop-tdd.md, invariant 16), although the COMPARE3 interrupt stays enabled
\* and may still be pending.
StoppedIsQuiet ==
  Stopped => /\ queue = << >> /\ pend = {} /\ ~deadline_armed
             /\ hw \in {"disable", "off"} /\ thr = "idle"
             /\ tmr \in {"idle", "armed"}

\* IN_TX: "late peer ADDRESS is ignored" (prop-tdd.md, Radio Turn State): a
\* peer's ADDRESS, served once the turn is committed to TX, does not disturb the
\* pointer and the shortcut prepared for it.
LateAddressIgnored ==
  [][turn_state = "IN_TX" /\ hw = "rxpkt" /\ IsrAddress =>
       packetptr' = packetptr /\ short' = short]_vars

\* Every turn ends, with or without a peer: the link transmits again and again,
\* and listens again and again.
TurnsAlternate ==
  /\ []<>(turn_state \in {"IN_TX", "DISABLED"})
  /\ []<>(turn_state \in {"LISTEN", "DISABLED"})

\* Why they end.  The radio is never left to a peer alone: where only an ADDRESS
\* could go on with the turn, a deadline is armed, unmasked and still to come.
WaitsAreTimed ==
  thr # "boot" /\ TimerIdle /\ pend = {} /\ hw \in {"rx", "off"} =>
    hw = "rx" /\ deadline_armed /\ deadline_int /\ deadline # "none"

turnVars == <<turn_state, hw, pend, tmr, deadline>>

\* The order in which a turn is gone through, by the software and in it by the
\* radio, by timer_isr and by the deadline.
Phase == IF turn_state = "IN_TX" /\ "PHYEND" \in pend THEN "SENT" ELSE turn_state
PhaseCourse == <<"LISTEN", "IN_RX", "IN_TX", "SENT">>
HwCourse == [LISTEN   |-> <<"disable", "rxru", "rx", "rxpkt">>,
             IN_RX    |-> <<"rxpkt", "rxend", "disable", "txru">>,
             IN_TX    |-> <<"rx", "rxpkt", "disable", "txru", "tx", "txpkt">>,
             SENT     |-> <<"disable", "rxru">>,
             DISABLED |-> <<"disable", "off">>]
TimerCourse == <<"idle", "armed", "unarm", "mask", "if_rx", "put_incomplete",
                 "if_listen", "put_timeout", "trig_turn", "trig_hw", "trig_ptr",
                 "trig_short", "trig_clear", "trig_commit", "trig_disable">>

Before(course, a, b) ==
  \E i, j \in DOMAIN course : i < j /\ course[i] = a /\ course[j] = b

\* Nearer to the end of the turn: the first of phase, radio, pending events,
\* timer_isr and deadline that changes goes on.
Nearer ==
  \/ Before(PhaseCourse, Phase, Phase')
  \/ /\ Phase' = Phase
     /\ \/ Before(HwCourse[Phase], hw, hw')
        \/ /\ hw' = hw
           /\ \/ pend' \subseteq pend /\ pend' # pend
              \/ /\ pend' = pend
                 /\ \/ Before(TimerCourse, tmr, tmr')
                    \/ tmr' = tmr /\ deadline = "running" /\ deadline' = "hit"

\* The own packet has been sent, and the radio listens again.
NextListen == turn_state = "IN_TX" /\ turn_state' = "LISTEN"

\* No step of radio, interrupts or peer goes back in a turn, or round in it: it
\* brings the turn nearer to its end, or ends the TX and begins the next LISTEN.
\* So the courses bound the number of steps that a turn can take.
TurnAdvances ==
  [][thr # "boot" => Nearer \/ NextListen]_turnVars

(***************************************************************************)
(* Why these hold, for every depth: the inductive invariants.  RadioInv    *)
(* and EventInv carry the RX ring (RadioCoreProofs), SilentInv the stop    *)
(* and FillInv the TX ring, whatever RadioInTimerIsr is; TurnsInv, ArmedInv*)
(* and AirInv carry the turns, their deadlines and what is on air when no  *)
(* radio event falls inside timer_isr (RadioTurnsProofs).                  *)
(***************************************************************************)

PointsToRx == packetptr \in RxBuffers

\* timer_isr has programmed TX and not yet committed to it.
Programmed == tmr \in {"trig_short", "trig_clear", "trig_commit"}

\* The radio is on: it can still raise events for the turn it is in.
OnAir == hw \in {"rx", "rxpkt", "rxend", "tx", "txpkt"}

CrcPending == "CRCOK" \in pend \/ "CRCERROR" \in pend

\* An RX pointer is the current write slot, and it comes with DISABLED_RXEN, a
\* TX pointer with DISABLED_TXEN; the receiver ramps up on an RX pointer.
PointerInv ==
  /\ PointsToRx => packetptr = RxBuffer(rx_wr_idx)
  /\ short = "RXEN" /\ tmr # "trig_short" => PointsToRx
  /\ short = "TXEN" => ~PointsToRx
  /\ hw = "rxru" => PointsToRx \/ Programmed \/ tmr = "trig_disable"
  /\ hw \in {"rx", "rxpkt"} => dma = RxBuffer(rx_wr_idx)

\* Which events can be pending together, and in which hardware state.
PendingInv ==
  /\ "ADDRESS" \in pend => /\ pend = {"ADDRESS"}
                           /\ hw \in {"rxpkt", "txpkt"} \/ turn_state = "IN_TX"
  /\ "PHYEND" \in pend => ~OnAir
  /\ CrcPending => hw \notin {"rx", "rxpkt", "tx", "txpkt"}

\* When a CRC event can advance the write index, the pointer has already moved
\* on to the TX packet.
TurnInv ==
  /\ turn_state = "IN_RX" => ~PointsToRx
  /\ Programmed => ~PointsToRx
  /\ /\ CrcPending \/ (hw = "rxpkt" /\ "ADDRESS" \notin pend)
     /\ turn_state \in {"LISTEN", "IN_RX"}
     => ~PointsToRx
  /\ /\ tmr \in {"trig_hw", "trig_ptr"} \/ Programmed
     /\ turn_state = "IN_TX"
     => ~OnAir /\ "ADDRESS" \notin pend
  /\ tmr \in {"trig_hw", "trig_ptr"} \/ Programmed => turn_state # "DISABLED"
  /\ tmr = "trig_disable" /\ OnAir => turn_state = "IN_TX"

\* The hardware pointer, the pending events and the software's turn agree, also
\* in the middle of a timer_isr that radio_isr has preempted.
RadioInv == PointerInv /\ PendingInv /\ TurnInv

\* A pending CRC event speaks of the write slot.
CrcInv ==
  /\ "CRCOK" \in pend => rx_ring[rx_wr_idx] = "RX_OK"
  /\ "CRCERROR" \in pend => rx_ring[rx_wr_idx] = "RX_BAD"

\* The inductive form of EventSlotMatch: a slot reported but not yet queued is
\* also right.
EventInv == CrcInv /\ EventSlotMatch

\* The inductive form of StoppedIsQuiet: the shortcut is off too, so nothing the
\* hardware still does can raise an event.
SilentInv ==
  turn_state = "DISABLED" =>
    /\ queue = << >> /\ pend = {} /\ ~deadline_armed
    /\ hw \in {"disable", "off"} /\ short = "none"
    /\ thr \in {"boot", "idle"} /\ tmr \in {"idle", "armed"}

\* How far a TX slot is behind the read index, and how many slots are committed.
TxDist(s) == (s - tx_rd_idx) % TX_RING_DEPTH
Unsent == TxDist(tx_wr_idx)

\* The next packet has been chosen, and is not yet counted as sent.
Chosen == turn_state \in {"IN_RX", "IN_TX"} \/ Programmed

\* A slot the radio is pointed at is committed, or is the one released last;
\* once chosen, it is the head.  The index moves past a committed slot only.
FillInv ==
  /\ \A s \in TxSlots : packetptr = TxBuffer(s) =>
       /\ TxDist(s) < Unsent \/ TxDist(s) = TX_RING_DEPTH - 1
       /\ Chosen => s = tx_rd_idx /\ tx_packet_from_ring
  /\ \A s \in TxSlots : hw \in {"tx", "txpkt"} /\ dma = TxBuffer(s) =>
       TxDist(s) < Unsent \/ TxDist(s) = TX_RING_DEPTH - 1
  /\ Chosen /\ tx_packet_from_ring => ~tx_ring_empty
  /\ thr = "filling" => ~tx_ring_full
  /\ \A s \in TxSlots : tx_ring[s] = "filling" => thr = "filling" /\ s = tx_wr_idx
  /\ tmr \in {"trig_hw", "trig_ptr"} \/ Programmed =>
       (turn_state = "IN_TX" => pend = {})

\* What each turn finds the radio doing, while timer_isr is not running.
TurnOfRadio ==
  \/ /\ turn_state = "DISABLED" /\ thr = "boot"
     /\ hw = "off" /\ pend = {}
  \/ /\ turn_state = "LISTEN" /\ short = "RXEN"
     /\ \/ hw \in {"disable", "rxru", "rx"} /\ pend = {}
        \/ hw = "rxpkt" /\ pend = {"ADDRESS"}
  \/ /\ turn_state = "IN_RX" /\ short = "TXEN"
     /\ \/ hw = "rxpkt" /\ pend = {}
        \/ hw = "rxend" /\ pend \subseteq {"CRCOK", "CRCERROR"}
        \/ hw \in {"disable", "txru"} /\ "PHYEND" \in pend /\ "ADDRESS" \notin pend
  \/ /\ turn_state = "IN_TX" /\ short = "TXEN"
     /\ \/ hw \in {"disable", "txru", "tx"} /\ pend = {}
        \/ hw = "txpkt" /\ pend = {"ADDRESS"}
  \/ /\ turn_state = "IN_TX" /\ short = "RXEN"
     /\ \/ hw = "txpkt" /\ pend = {}
        \/ hw \in {"disable", "rxru"} /\ pend = {"PHYEND"}

\* What timer_isr finds it doing: it listens, or a packet has stopped arriving.
TurnOfTimer ==
  /\ pend = {}
  /\ \/ /\ turn_state = "LISTEN" /\ hw = "rx"
        /\ short = IF tmr \in {"trig_clear", "trig_commit"} THEN "TXEN" ELSE "RXEN"
        /\ tmr # "trig_disable"
     \/ /\ turn_state = "IN_RX" /\ hw = "rxpkt" /\ short = "TXEN"
        /\ tmr # "trig_disable"
     \/ /\ turn_state = "IN_TX" /\ hw \in {"rx", "rxpkt"} /\ short = "TXEN"
        /\ tmr = "trig_disable"

\* The deadline interrupts only the wait it was set for.
DeadlineInv ==
  /\ deadline_int => /\ turn_state \in {"LISTEN", "IN_RX"}
                     /\ tmr \in {"idle", "armed", "unarm", "mask"}
                     /\ turn_state = "IN_RX" => hw = "rxpkt" \/ CrcPending
  /\ deadline_int /\ deadline = "hit" /\ turn_state = "LISTEN" => hw \in {"rx", "rxpkt"}

\* Turn, radio, timer and deadline agree, and nothing ever stops the radio.
TurnsInv ==
  /\ IF TimerIdle THEN TurnOfRadio ELSE TurnOfTimer
  /\ DeadlineInv
  /\ thr # "stop"
  /\ TriggerNeverFails

\* While the radio listens its deadline is armed and unmasked, until timer_isr
\* takes both back for the turn it found.
ArmedInv ==
  /\ tmr # "mask" => (deadline_armed <=> deadline_int)
  /\ tmr = "mask" => ~deadline_armed
  /\ tmr \in {"armed", "unarm"} => deadline_armed
  /\ turn_state = "LISTEN" /\ TimerIdle => deadline_armed /\ deadline # "none"
  /\ tmr = "if_listen" => turn_state = "LISTEN"

\* The packet chosen: the head of the ring, or the keepalive.
Choice == IF tx_packet_from_ring THEN TxBuffer(tx_rd_idx) ELSE Keepalive

\* The chosen packet is the one the radio sends; the committed slots are ready,
\* but for the head between the end of its packet and its release.
AirInv ==
  /\ hw \in {"tx", "txpkt"} => dma = Choice
  /\ Chosen /\ ~PointsToRx => packetptr = Choice
  /\ \A s \in TxSlots : TxDist(s) < Unsent =>
       tx_ring[s] = IF /\ s = tx_rd_idx /\ turn_state = "IN_TX"
                       /\ tx_packet_from_ring /\ "PHYEND" \in pend
                      THEN "aired" ELSE "ready"
=============================================================================
