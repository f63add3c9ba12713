------------------------- MODULE RadioStreamProofs -------------------------
(***************************************************************************)
(* RadioCore implements EventStream, for every ring and queue depth and    *)
(* wherever radio_isr preempts timer_isr: the theorem behind RadioStream.  *)
(* The count by which the session finds its packet is turned into the slot *)
(* that EventSlotMatch names; the steps are then those of a FIFO.          *)
(***************************************************************************)
EXTENDS RadioTurnsProofs, RadioStream, FiniteSetTheorems

-----------------------------------------------------------------------------
(* The slot found by counting *)

\* Before an RX event of the queue come as many RX events as there are unread
\* slots before its slot, less the one the session holds.
LEMMA CountBefore ==
  ASSUME TypeOK, EventSlotMatch, turn_state # "DISABLED",
         NEW i \in DOMAIN queue, RxAt(i)
  PROVE  RxBefore(i) = Dist(queue[i].slot) - Held
  <1> DEFINE J == {j \in 1 .. i - 1 : RxAt(j)}
             d == Dist(queue[i].slot)
             D == Held .. d - 1
             f == [j \in J |-> Dist(queue[j].slot)]
  <1>1. queue \in Seq(Events) BY DEF TypeOK
  <1>2. i \in Nat /\ J \subseteq DOMAIN queue /\ DOMAIN queue \subseteq Nat BY <1>1
  <1>3. Held \in Nat /\ Unread \in Nat BY DistFacts DEF Held
  <1>4. /\ \A j \in DOMAIN queue : RxAt(j) => Dist(queue[j].slot) \in Held .. Unread - 1
        /\ \A j, k \in DOMAIN queue : j < k /\ RxAt(j) /\ RxAt(k) =>
             Dist(queue[j].slot) < Dist(queue[k].slot)
        /\ \A e \in Held .. Unread - 1 :
             \E k \in DOMAIN queue : RxAt(k) /\ Dist(queue[k].slot) = e
    BY DEF EventSlotMatch
  <1> HIDE DEF Dist, Held, Unread, RxAt
  <1>5. d \in Nat /\ d >= Held /\ d < Unread BY <1>3, <1>4
  <1>6. f \in [J -> D]
    <2> SUFFICES ASSUME NEW j \in J PROVE Dist(queue[j].slot) \in D OBVIOUS
    <2>1. j \in DOMAIN queue /\ RxAt(j) /\ j < i BY <1>2
    <2>2. Dist(queue[j].slot) \in Held .. Unread - 1 /\ Dist(queue[j].slot) < d
      BY <2>1, <1>4
    <2> QED BY <2>2, <1>3, <1>5
  <1>7. \A j, k \in J : f[j] = f[k] => j = k
    <2> SUFFICES ASSUME NEW j \in J, NEW k \in J, j < k PROVE f[j] # f[k]
      BY <1>2
    <2>1. /\ j \in DOMAIN queue /\ k \in DOMAIN queue
          /\ RxAt(j) /\ RxAt(k)
      BY <1>2
    <2>2. Dist(queue[j].slot) < Dist(queue[k].slot) BY <2>1, <1>4
    <2>3. Dist(queue[j].slot) \in Int /\ Dist(queue[k].slot) \in Int
      BY <2>1, <1>4, <1>3
    <2> QED BY <2>2, <2>3
  <1>8. \A e \in D : \E j \in J : f[j] = e
    <2> SUFFICES ASSUME NEW e \in D PROVE \E j \in J : f[j] = e OBVIOUS
    <2>1. e \in Held .. Unread - 1 /\ e < d BY <1>3, <1>5
    <2>2. PICK k \in DOMAIN queue : RxAt(k) /\ Dist(queue[k].slot) = e BY <2>1, <1>4
    <2>3. ~(i < k) /\ i # k
      <3>1. i < k => d < Dist(queue[k].slot) BY <2>2, <1>4
      <3> QED BY <3>1, <2>1, <2>2, <1>3, <1>5
    <2>4. k \in J BY <2>2, <2>3, <1>1, <1>2
    <2> QED BY <2>2, <2>4
  <1> HIDE DEF f
  <1>9. ExistsBijection(J, D)
    <2>1. f \in Injection(J, D) BY <1>6, <1>7 DEF Injection, IsInjective
    <2>2. f \in Surjection(J, D) BY <1>6, <1>8 DEF Surjection
    <2> QED BY <2>1, <2>2 DEF ExistsBijection, Bijection
  <1>10. IsFiniteSet(J)
    <2>1. IsFiniteSet(1 .. i - 1) BY <1>2, FS_Interval
    <2> QED BY <2>1, FS_Subset
  <1>11. Cardinality(J) = Cardinality(D) BY <1>9, <1>10, FS_Bijection
  <1>12. Cardinality(D) = d - Held
    <2>1. Held \in Int /\ d - 1 \in Int BY <1>3, <1>5
    <2>2. Cardinality(D) = IF Held > d - 1 THEN 0 ELSE (d - 1) - Held + 1
      BY <2>1, FS_Interval
    <2> QED BY <2>2, <1>3, <1>5
  <1> QED BY <1>11, <1>12 DEF RxBefore

\* A slot is as far from the read index as its distance says.
LEMMA SlotAtDist ==
  ASSUME TypeOK, NEW s \in RxSlots
  PROVE  (rx_rd_idx + Dist(s)) % RX_RING_DEPTH = s
  <1>1. PICK n \in Nat, r \in Nat :
          n = RX_RING_DEPTH /\ r = rx_rd_idx /\ n > 1 /\ r \in 0 .. n - 1 /\ s \in 0 .. n - 1
    BY DepthAssumption DEF TypeOK, RxSlots
  <1>2. Dist(s) = IF s >= r THEN s - r ELSE (s - r) + n
    BY <1>1, RingDist DEF Dist
  <1>3. CASE s >= r
    <2>1. r + Dist(s) = s BY <1>1, <1>2, <1>3
    <2>2. s % n = s BY <1>1, SMT
    <2> QED BY <1>1, <2>1, <2>2
  <1>4. CASE ~(s >= r)
    <2>1. r + Dist(s) = s + n BY <1>1, <1>2, <1>4
    <2>2. (s + n) % n = s BY <1>1, SMT
    <2> QED BY <1>1, <2>1, <2>2
  <1> QED BY <1>3, <1>4

\* By counting, the session finds the slot of every RX event that waits, and
\* the packet the event reports in it.
LEMMA ReadsItsSlot ==
  ASSUME TypeOK, EventSlotMatch, turn_state # "DISABLED",
         NEW i \in DOMAIN queue, RxAt(i)
  PROVE  SlotRead(i) = queue[i].slot /\ PacketAt(i) = queue[i].type
  <1>1. queue[i].slot \in RxSlots /\ rx_ring[queue[i].slot] = queue[i].type
    BY DEF EventSlotMatch
  <1>2. Held \in Int /\ Dist(queue[i].slot) \in Int /\ rx_rd_idx \in Int
    BY <1>1, DistFacts DEF Held, TypeOK, RxSlots
  <1>3. RxBefore(i) = Dist(queue[i].slot) - Held BY CountBefore
  <1>4. rx_rd_idx + Held + RxBefore(i) = rx_rd_idx + Dist(queue[i].slot)
    BY <1>2, <1>3
  <1>5. SlotRead(i) = queue[i].slot BY <1>1, <1>4, SlotAtDist DEF SlotRead
  <1> QED BY <1>1, <1>5 DEF PacketAt

-----------------------------------------------------------------------------
(* The mapped state *)

\* What the events of a queue are in EventStream, and the packet the session
\* holds: neither looks at the ring.
Entries(q) == [i \in DOMAIN q |-> Stream!Entry(q[i].type)]
Reading ==
  CASE thr \in {"rx_ok", "rx_reading"} -> "RX_OK"
    [] thr = "rx_bad" -> "RX_BAD"
    [] OTHER -> "none"

\* The mapping of RadioStream.
MappedStream ==
  [i \in DOMAIN queue |-> [type |-> queue[i].type, packet |-> PacketAt(i)]]
MappedReading == IF Held = 1 THEN rx_ring[rx_rd_idx] ELSE "none"

\* The three invariants the mapping needs.
StreamInv == TypeOK /\ EventInv /\ SilentInv

\* The mapping, which reads the ring at a counted place, yields these entries.
LEMMA MappedState ==
  StreamInv => MappedStream = Entries(queue) /\ MappedReading = Reading
  <1> SUFFICES ASSUME StreamInv
               PROVE  MappedStream = Entries(queue) /\ MappedReading = Reading
    OBVIOUS
  <1> USE DEF StreamInv
  <1>1. EventSlotMatch BY DEF EventInv
  <1>2. ASSUME NEW i \in DOMAIN queue
        PROVE  [type |-> queue[i].type, packet |-> PacketAt(i)]
                 = Stream!Entry(queue[i].type)
    <2>1. turn_state # "DISABLED" BY <1>2 DEF SilentInv
    <2>2. CASE RxAt(i)
      <3>1. PacketAt(i) = queue[i].type BY <1>1, <2>1, <2>2, ReadsItsSlot
      <3> QED BY <2>2, <3>1 DEF Stream!Entry, RxAt
    <2>3. CASE ~RxAt(i)
      BY <2>3 DEF Stream!Entry, RxAt, PacketAt
    <2> QED BY <2>2, <2>3
  <1>3. MappedReading = Reading
    <2>1. Held = 1 => turn_state # "DISABLED" BY DEF Held, SilentInv
    <2> QED BY <1>1, <2>1 DEF EventSlotMatch, Held, Reading, MappedReading
  <1> QED BY <1>2, <1>3 DEF Entries, MappedStream

\* So it does after a step.
LEMMA MappedStateNext ==
  StreamInv' => (MappedStream = Entries(queue) /\ MappedReading = Reading)'
  BY MappedState, PTL

-----------------------------------------------------------------------------
(* The steps *)

\* What a step does to the queue and to the packet in hand: nothing, or one of
\* the four steps of EventStream.
FifoStep ==
  \/ UNCHANGED <<queue, Reading>>
  \/ /\ CanQueue /\ UNCHANGED Reading
     /\ \E e \in Events : queue' = Append(queue, e)
  \/ /\ queue # << >> /\ queue' = Tail(queue)
     /\ Reading' = IF RxAt(1) THEN queue[1].type ELSE "none"
  \/ UNCHANGED queue /\ Reading' = "none"
  \/ queue' = << >> /\ Reading' = "none"

\* The interrupt handlers and the hardware put events or leave the queue alone.
LEMMA InterruptFifo ==
  ASSUME TypeOK, HwProgress \/ HwRxAddress \/ HwCompare \/ RadioIsr \/ TimerIsr
  PROVE  FifoStep
  <1>1. UNCHANGED thr
    BY DEF HwProgress, HwReady, HwCrc, HwTxAddress, HwPhyEnd, HwDisabled, HwRxAddress,
           HwCompare, RadioIsr, IsrAddress, IsrCrc, IsrPhyEnd, TimerIsr, TimerEnter,
           TimerArmed, TimerUnarm, TimerMask, TimerIfRx, TimerIfListen, TimerPuts,
           TimerPut, TimerTrigTurn, TimerTrigHw, TimerTrigPtr, TimerTrigShort,
           TimerTrigClear, TimerTrigCommit, TimerTrigDisable, TimerTest
  <1>2. UNCHANGED Reading BY <1>1 DEF Reading
  <1>3. ASSUME NEW e \in Events, queue_session_event(e) PROVE FifoStep
    BY <1>2, <1>3 DEF FifoStep, queue_session_event
  <1>4. CASE UNCHANGED queue BY <1>2, <1>4 DEF FifoStep
  <1>5. CASE HwProgress \/ HwRxAddress \/ HwCompare
    BY <1>4, <1>5
    DEF HwProgress, HwReady, HwCrc, HwTxAddress, HwPhyEnd, HwDisabled, HwRxAddress,
        HwCompare
  <1>6. CASE RadioIsr
    <2>1. CASE IsrAddress BY <1>4, <2>1 DEF IsrAddress
    <2>2. ASSUME NEW event, NEW type \in RxEventTypes, IsrCrc(event, type)
          PROVE  FifoStep
      <3>1. Event(type, rx_wr_idx) \in Events BY EventType DEF TypeOK
      <3> QED BY <1>2, <1>4, <2>2, <3>1 DEF IsrCrc, FifoStep
    <2>3. CASE IsrPhyEnd
      <3>1. Event("TX_END", NoSlot) \in Events BY EventType DEF EventTypes
      <3> QED BY <1>3, <1>4, <2>3, <3>1 DEF IsrPhyEnd
    <2> QED BY <1>6, <2>1, <2>2, <2>3 DEF RadioIsr, RxEventTypes
  <1>7. CASE TimerIsr
    <2>1. CASE TimerPuts
      <3>1. \A type \in {"RX_INCOMPLETE", "LISTEN_TIMEOUT", "TX_TRIGGER_FAILED"} :
              Event(type, NoSlot) \in Events
        BY EventType DEF EventTypes
      <3> QED BY <1>3, <2>1, <3>1 DEF TimerPuts, TimerPut
    <2>2. CASE ~TimerPuts
      BY <1>4, <1>7, <2>2
      DEF TimerIsr, TimerEnter, TimerArmed, TimerUnarm, TimerMask, TimerIfRx,
          TimerIfListen, TimerTrigTurn, TimerTrigHw, TimerTrigPtr, TimerTrigShort,
          TimerTrigClear, TimerTrigCommit, TimerTrigDisable, TimerTest
    <2> QED BY <2>1, <2>2
  <1> QED BY <1>5, <1>6, <1>7

\* The thread takes the head, hands back its packet, or purges the stream.
LEMMA ThreadFifo ==
  ASSUME TypeOK, Thread
  PROVE  FifoStep
  <1> USE DEF FifoStep, Reading
  <1>1. CASE prop_radio_start \/ prop_radio_stop
    BY <1>1 DEF prop_radio_start, prop_radio_stop
  <1>2. CASE prop_radio_dequeue_session_event
    <2>1. /\ queue # << >> /\ queue' = Tail(queue)
          /\ thr' = Handler[Head(queue).type]
      BY <1>2 DEF prop_radio_dequeue_session_event
    <2>2. queue \in Seq(Events) BY DEF TypeOK
    <2>3. Head(queue) = queue[1] /\ Head(queue) \in Events BY <2>1, <2>2
    <2>4. queue[1].type \in EventTypes BY <2>3 DEF Events
    <2>5. Reading' = IF RxAt(1) THEN queue[1].type ELSE "none"
      BY <2>1, <2>3, <2>4 DEF Handler, EventTypes, RxEventTypes, RxAt
    <2> QED BY <2>1, <2>5
  <1>3. CASE prop_radio_rx_get_rd_ptr BY <1>3 DEF prop_radio_rx_get_rd_ptr
  <1>4. CASE prop_radio_rx_advance_rd_idx BY <1>4 DEF prop_radio_rx_advance_rd_idx
  <1>5. CASE prop_radio_tx_get_wr_ptr BY <1>5 DEF prop_radio_tx_get_wr_ptr
  <1>6. CASE prop_radio_tx_advance_wr_idx BY <1>6 DEF prop_radio_tx_advance_wr_idx
  <1> QED BY <1>1, <1>2, <1>3, <1>4, <1>5, <1>6 DEF Thread

\* Every step of the driver is a step on the FIFO.
LEMMA NextFifo == TypeOK /\ [Next]_vars => FifoStep
  <1> SUFFICES ASSUME TypeOK, [Next]_vars PROVE FifoStep OBVIOUS
  <1>1. CASE UNCHANGED vars BY <1>1 DEF vars, FifoStep, Reading
  <1>2. CASE Next BY <1>1, <1>2, InterruptFifo, ThreadFifo DEF Next, Parked
  <1> QED BY <1>1, <1>2

-----------------------------------------------------------------------------
(* The refinement *)

\* Appending to the queue, taking its head and purging it are the same steps on
\* the entries.
LEMMA EntriesSteps ==
  ASSUME NEW q \in Seq(Events)
  PROVE  /\ Entries(q) \in Seq({Stream!Entry(type) : type \in EventTypes})
         /\ Len(Entries(q)) = Len(q)
         /\ \A e \in Events :
              Entries(Append(q, e)) = Append(Entries(q), Stream!Entry(e.type))
         /\ q # << >> => /\ Entries(q) # << >>
                         /\ Entries(Tail(q)) = Tail(Entries(q))
                         /\ Head(Entries(q)) = Stream!Entry(q[1].type)
         /\ Entries(<< >>) = << >>
  <1> DEFINE T == {Stream!Entry(type) : type \in EventTypes}
  <1>1. \A i \in DOMAIN q : q[i] \in Events /\ q[i].type \in EventTypes
    <2>1. \A i \in DOMAIN q : q[i] \in Events OBVIOUS
    <2> QED BY <2>1 DEF Events
  <1>2. DOMAIN q = 1 .. Len(q) /\ Len(q) \in Nat OBVIOUS
  <1>3. Entries(q) \in Seq(T)
    <2>1. Entries(q) \in [1 .. Len(q) -> T] BY <1>1, <1>2 DEF Entries
    <2> QED BY <1>2, <2>1
  <1>4. Len(Entries(q)) = Len(q) BY <1>2, <1>3 DEF Entries, MappedStream
  <1>5. ASSUME NEW e \in Events
        PROVE  Entries(Append(q, e)) = Append(Entries(q), Stream!Entry(e.type))
    <2>1. Append(q, e) \in Seq(Events) /\ Len(Append(q, e)) = Len(q) + 1 BY <1>2
    <2>2. DOMAIN Append(q, e) = 1 .. Len(q) + 1 BY <2>1
    <2>3. DOMAIN Entries(q) = 1 .. Len(q) BY <1>2 DEF Entries
    <2> QED BY <1>2, <1>3, <1>4, <2>2, <2>3 DEF Entries
  <1>6. ASSUME q # << >>
        PROVE  /\ Entries(q) # << >>
               /\ Entries(Tail(q)) = Tail(Entries(q))
               /\ Head(Entries(q)) = Stream!Entry(q[1].type)
    <2>1. Len(q) >= 1 BY <1>2, <1>6
    <2>2. Entries(q) # << >> BY <1>3, <1>4, <2>1
    <2>3. Head(Entries(q)) = Stream!Entry(q[1].type)
      BY <1>2, <1>3, <2>1, <2>2 DEF Entries
    <2>4. Tail(q) \in Seq(Events) /\ Len(Tail(q)) = Len(q) - 1 BY <1>6
    <2>5. DOMAIN Tail(q) = 1 .. Len(q) - 1 BY <2>4
    <2>6. DOMAIN Tail(Entries(q)) = 1 .. Len(q) - 1 BY <1>3, <1>4, <2>2
    <2>7. \A i \in 1 .. Len(q) - 1 :
            /\ Tail(q)[i] = q[i + 1]
            /\ Tail(Entries(q))[i] = Entries(q)[i + 1]
      BY <1>2, <1>3, <1>4, <1>6, <2>2
    <2>8. \A i \in 1 .. Len(q) - 1 : i + 1 \in DOMAIN q BY <1>2
    <2>9. Entries(Tail(q)) = Tail(Entries(q))
      BY <2>5, <2>6, <2>7, <2>8 DEF Entries
    <2> QED BY <2>2, <2>3, <2>9
  <1>7. Entries(<< >>) = << >> BY DEF Entries
  <1> QED BY <1>3, <1>4, <1>5, <1>6, <1>7

\* The driver keeps the three invariants.
LEMMA StreamInvariant == Spec => []StreamInv
  <1>1. Init => EventInv /\ SilentInv
    BY DEF Init, EventInv, CrcInv, EventSlotMatch, SilentInv
  <1> QED
    BY <1>1, TypeCorrect, RadioInvariant, NextEventInv, NextSilent, PTL
    DEF Spec, StreamInv

\* A step on the FIFO of events is a step of EventStream, or leaves it alone.
LEMMA StreamStep ==
  ASSUME StreamInv, StreamInv', FifoStep
  PROVE  [Stream!Next]_(Stream!vars)
  <1>1. MappedStream = Entries(queue) /\ MappedReading = Reading BY MappedState
  <1>2. MappedStream' = Entries(queue)' /\ MappedReading' = Reading'
    BY MappedStateNext
  <1>3. Entries(queue)' = Entries(queue') BY DEF Entries
  <1>4. queue \in Seq(Events) BY DEF StreamInv, TypeOK
  <1> SUFFICES \/ Stream!Next
               \/ UNCHANGED <<MappedStream, MappedReading>>
    BY DEF Stream!vars, MappedStream, MappedReading
  <1>5. CASE UNCHANGED <<queue, Reading>> BY <1>1, <1>2, <1>3, <1>5
  <1>6. ASSUME CanQueue, UNCHANGED Reading, NEW e \in Events,
               queue' = Append(queue, e)
        PROVE  Stream!Next
    <2>1. MappedStream' = Append(MappedStream, Stream!Entry(e.type))
      BY <1>1, <1>2, <1>3, <1>4, <1>6, EntriesSteps
    <2>2. Len(MappedStream) < EVENT_QUEUE_DEPTH
      BY <1>1, <1>4, <1>6, EntriesSteps DEF CanQueue
    <2>3. e.type \in EventTypes BY DEF Events
    <2>4. UNCHANGED MappedReading BY <1>1, <1>2, <1>6
    <2>5. Stream!Put
      BY <2>1, <2>2, <2>3, <2>4 DEF Stream!Put, MappedStream, MappedReading
    <2> QED BY <2>5 DEF Stream!Next
  <1>7. CASE /\ queue # << >> /\ queue' = Tail(queue)
             /\ Reading' = IF RxAt(1) THEN queue[1].type ELSE "none"
    <2>1. MappedReading' = Head(MappedStream).packet
      <3>1. Head(MappedStream) = Stream!Entry(queue[1].type)
        BY <1>1, <1>4, <1>7, EntriesSteps
      <3> QED BY <1>2, <1>7, <3>1 DEF Stream!Entry, RxAt
    <2>2. MappedStream # << >> /\ MappedStream' = Tail(MappedStream)
      BY <1>1, <1>2, <1>3, <1>4, <1>7, EntriesSteps
    <2>3. Stream!Take BY <2>1, <2>2 DEF Stream!Take, MappedStream, MappedReading
    <2> QED BY <2>3 DEF Stream!Next
  <1>8. CASE UNCHANGED queue /\ Reading' = "none"
    <2>1. UNCHANGED MappedStream /\ MappedReading' = "none"
      BY <1>1, <1>2, <1>3, <1>8
    <2>2. Stream!Release BY <2>1 DEF Stream!Release, MappedStream, MappedReading
    <2> QED BY <2>2 DEF Stream!Next
  <1>9. CASE queue' = << >> /\ Reading' = "none"
    <2>1. MappedStream' = << >> /\ MappedReading' = "none"
      BY <1>2, <1>3, <1>4, <1>9, EntriesSteps
    <2>2. Stream!Reset BY <2>1 DEF Stream!Reset, MappedStream, MappedReading
    <2> QED BY <2>2 DEF Stream!Next
  <1> QED BY <1>5, <1>6, <1>7, <1>8, <1>9 DEF FifoStep

\* Queue, ring and the session's counting implement one bounded FIFO of events
\* that carry their packets: an event and its packet come or are dropped
\* together, in order, and the handler reads the packet of its own event.
THEOREM RadioImplementsStream == Spec => ImplementsEventStream
  <1>1. Init => Stream!Init
    <2> SUFFICES ASSUME Init PROVE Stream!Init OBVIOUS
    <2>1. queue = << >> /\ Held = 0 BY DEF Init, Held
    <2> QED BY <2>1 DEF Stream!Init
  <1>2. StreamInv /\ StreamInv' /\ [Next]_vars => [Stream!Next]_(Stream!vars)
    BY NextFifo, StreamStep DEF StreamInv
  <1> QED BY <1>1, <1>2, StreamInvariant, PTL DEF Spec, ImplementsEventStream, Stream!Spec
=============================================================================
