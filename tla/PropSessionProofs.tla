------------------------- MODULE PropSessionProofs -------------------------
(***************************************************************************)
(* Theorems about PropSession, for every width of the sequence numbers and *)
(* every threshold, depth and bound.                                       *)
(***************************************************************************)
EXTENDS PropSession, TLAPS

\* Payload numbers stay in range and never hit the keepalive's.
LEMMA NextSeq ==
  ASSUME NEW seq \in SeqNumbers
  PROVE  /\ prop_session_next_payload_seq(seq) \in SeqNumbers
         /\ prop_session_next_payload_seq(seq) # PROP_KEEPALIVE_SEQ
  <1> DEFINE next == (seq + 1) % SEQ_MOD
  <1>1. SEQ_MOD \in Nat /\ SEQ_MOD > 2 /\ seq \in 0 .. SEQ_MOD - 1
    BY SessionAssumption DEF SeqNumbers
  <1>2. next \in 0 .. SEQ_MOD - 1 BY <1>1, SMT
  <1>3. CASE next # PROP_KEEPALIVE_SEQ
    BY <1>2, <1>3 DEF prop_session_next_payload_seq, SeqNumbers
  <1>4. CASE next = PROP_KEEPALIVE_SEQ
    <2>1. next + 1 = SEQ_MOD BY <1>1, <1>4 DEF PROP_KEEPALIVE_SEQ
    <2>2. SEQ_MOD % SEQ_MOD = 0 BY <1>1, SMT
    <2>3. prop_session_next_payload_seq(seq) = 0
      BY <1>4, <2>1, <2>2 DEF prop_session_next_payload_seq
    <2> QED BY <1>1, <2>3 DEF SeqNumbers, PROP_KEEPALIVE_SEQ
  <1> QED BY <1>3, <1>4

\* A counted gap is a number of payloads.
LEMMA GapType ==
  ASSUME NEW expected \in SeqNumbers, NEW seq \in SeqNumbers
  PROVE  prop_session_seq_gap_from_expected(expected, seq) \in Nat
  <1>1. SEQ_MOD \in Nat /\ SEQ_MOD > 0 /\ seq - expected \in Int
    BY SessionAssumption DEF SeqNumbers
  <1>2. (seq - expected) % SEQ_MOD \in Nat BY <1>1, SMT
  <1> QED BY <1>2 DEF prop_session_seq_gap_from_expected

-----------------------------------------------------------------------------
(* Type correctness *)

\* The session boots well typed.
LEMMA InitType == Init => TypeOK
  <1> SUFFICES ASSUME Init PROVE TypeOK OBVIOUS
  <1>1. NoLoss \in [StatFields -> Nat] BY DEF NoLoss
  <1>2. 0 \in SeqNumbers BY SessionAssumption DEF SeqNumbers
  <1>3. /\ << >> \in Seq(AppLengths) /\ << >> \in Seq(0 .. MaxPayloads)
        /\ << >> \in Seq(Events) /\ << >> \in Seq(Packets)
        /\ Len(<< >>) = 0
    OBVIOUS
  <1>4. /\ 0 \in 0 .. SYNC_LOSS_TURNS - 1 /\ 0 \in 0 .. MaxPayloads
        /\ 0 \in 0 .. MaxLostRun
        /\ 0 <= QUEUE_DEPTH /\ 0 <= EVENT_QUEUE_DEPTH /\ 0 < TX_RING_DEPTH
    BY SessionAssumption
  <1>5. /\ service_state \in {"NO_SERVICE", "IN_SERVICE"}
        /\ have_last_rx_seq \in BOOLEAN /\ thr \in {"boot", "idle", "refill"}
        /\ TurnTypeOK
    BY DEF Init, TurnTypeOK
  <1>6. /\ prop_tx_queue \in Seq(AppLengths) /\ Len(prop_tx_queue) <= QUEUE_DEPTH
        /\ prop_rx_queue \in Seq(0 .. MaxPayloads) /\ Len(prop_rx_queue) <= QUEUE_DEPTH
        /\ events \in Seq(Events) /\ Len(events) <= EVENT_QUEUE_DEPTH
        /\ tx_ring \in Seq(Packets) /\ Len(tx_ring) < TX_RING_DEPTH
    BY <1>3, <1>4 DEF Init
  <1> QED BY <1>1, <1>2, <1>4, <1>5, <1>6 DEF Init, TypeOK

\* Every event the radio queues is well typed.
LEMMA EventType ==
  /\ NoPacket \in Packets /\ Keepalive \in Packets
  /\ \A type \in EventTypes, packet \in Packets : Event(type, packet) \in Events
  BY SessionAssumption
  DEF NoPacket, Keepalive, Packet, Packets, Lengths, KeepaliveLen, SeqNumbers,
      PROP_KEEPALIVE_SEQ, Event, Events

\* Queueing an event, or dropping it, keeps the queue well typed.
LEMMA QueueType ==
  ASSUME TypeOK
  PROVE  /\ \A type \in EventTypes : Queue(type) =>
              events' \in Seq(Events) /\ Len(events') <= EVENT_QUEUE_DEPTH
         /\ \A type \in EventTypes, packet \in Packets : Receives(type, packet) =>
              events' \in Seq(Events) /\ Len(events') <= EVENT_QUEUE_DEPTH
  <1>1. ASSUME NEW event \in Events, CanQueue
        PROVE  /\ Append(events, event) \in Seq(Events)
               /\ Len(Append(events, event)) <= EVENT_QUEUE_DEPTH
    BY <1>1, SessionAssumption DEF TypeOK, CanQueue
  <1>2. events \in Seq(Events) /\ Len(events) <= EVENT_QUEUE_DEPTH BY DEF TypeOK
  <1> QED
    BY <1>1, <1>2, EventType DEF Queue, Receives, EventTypes, RxEventTypes

\* So does whatever becomes of a packet on its way.
LEMMA ArrivesType ==
  ASSUME TypeOK, NEW fate \in Fates, NEW packet \in Packets, Arrives(fate, packet),
         UNCHANGED tx_ring
  PROVE  events' \in Seq(Events) /\ Len(events') <= EVENT_QUEUE_DEPTH /\ TurnTypeOK'
  <1>1. events' \in Seq(Events) /\ Len(events') <= EVENT_QUEUE_DEPTH
    BY QueueType, EventType DEF Arrives, TypeOK, EventTypes, RxEventTypes
  <1>2. TurnTypeOK' BY DEF Arrives, TypeOK, TurnTypeOK, turnVars
  <1> QED BY <1>1, <1>2

\* A packet is prepared from the ring only if there is one.
LEMMA PreparedType ==
  ASSUME program_tx_packetptr
  PROVE  /\ tx_packet_from_ring' \in BOOLEAN
         /\ tx_packet_from_ring' => tx_ring # << >>
  BY DEF program_tx_packetptr

\* The peer, the radio and the application keep the state well typed.
LEMMA EnvironmentType ==
  ASSUME TypeOK, Environment \/ TxEnd
  PROVE  TypeOK'
  <1> USE DEF serviceVars, rxSeqVars, appVars, radioVars, turnVars, peerVars, history
  <1>1. CASE PeerSendsPayload
    <2>1. PICK fate \in Fates :
            /\ Arrives(fate, Packet("other", peer_seq, peer_count + 1))
            /\ lost_run' = IF fate = "RX_OK" /\ events' # events THEN 0 ELSE lost_run + 1
            /\ lost_run' <= MaxLostRun
      BY <1>1 DEF PeerSendsPayload
    <2>2. peer_count' \in 0 .. MaxPayloads /\ peer_count' = peer_count + 1
      BY <1>1, SessionAssumption DEF PeerSendsPayload, TypeOK
    <2>3. Packet("other", peer_seq, peer_count + 1) \in Packets
      BY <2>2 DEF Packet, Packets, Lengths, TypeOK
    <2>4. events' \in Seq(Events) /\ Len(events') <= EVENT_QUEUE_DEPTH /\ TurnTypeOK'
      BY <1>1, <2>1, <2>3, ArrivesType DEF PeerSendsPayload
    <2>5. lost_run' \in 0 .. MaxLostRun
      BY <2>1, SessionAssumption DEF TypeOK
    <2>6. peer_seq' \in SeqNumbers
      BY <1>1, NextSeq DEF PeerSendsPayload, TypeOK
    <2> QED BY <1>1, <2>2, <2>4, <2>5, <2>6 DEF PeerSendsPayload, TypeOK
  <1>2. CASE PeerSendsOther
    <2>1. events' \in Seq(Events) /\ Len(events') <= EVENT_QUEUE_DEPTH /\ TurnTypeOK'
      BY <1>2, EventType, ArrivesType DEF PeerSendsOther
    <2> QED BY <1>2, <2>1 DEF PeerSendsOther, TypeOK
  <1>3. CASE PeerRestarts
    BY <1>3, SessionAssumption DEF PeerRestarts, TypeOK, TurnTypeOK, SeqNumbers
  <1>4. CASE ListenTimeout \/ RxIncomplete
    <2>1. PICK turn \in {"LISTEN", "IN_RX"}, type \in EventTypes : Deadline(turn, type)
      <3>1. {"LISTEN_TIMEOUT", "RX_INCOMPLETE"} \subseteq EventTypes BY DEF EventTypes
      <3> QED BY <1>4, <3>1 DEF ListenTimeout, RxIncomplete
    <2>2. TurnTypeOK'
      <3>1. turn_state' = turn_state \/ turn_state' = "IN_TX" BY <2>1 DEF Deadline
      <3>2. UNCHANGED turnVars \/ program_tx_packetptr BY <2>1 DEF Deadline
      <3>3. UNCHANGED tx_ring BY <2>1 DEF Deadline
      <3> QED BY <3>1, <3>2, <3>3, PreparedType DEF TypeOK, TurnTypeOK
    <2> QED BY <2>1, <2>2, QueueType DEF Deadline, TypeOK
  <1>5. CASE TxTriggerFailed
    BY <1>5, QueueType DEF TxTriggerFailed, TypeOK, TurnTypeOK, EventTypes
  <1>6. CASE prop_session_tx_enqueue
    BY <1>6, SessionAssumption DEF prop_session_tx_enqueue, TypeOK, TurnTypeOK
  <1>7. CASE prop_session_rx_dequeue
    <2>1. prop_rx_queue # << >> /\ prop_rx_queue' = Tail(prop_rx_queue)
      BY <1>7 DEF prop_session_rx_dequeue
    <2>2. /\ prop_rx_queue' \in Seq(0 .. MaxPayloads)
          /\ Len(prop_rx_queue') <= QUEUE_DEPTH
      BY <2>1, SessionAssumption DEF TypeOK
    <2> QED BY <1>7, <2>2 DEF prop_session_rx_dequeue, TypeOK, TurnTypeOK
  <1>8. CASE TxEnd
    <2>1. tx_packet_from_ring => tx_ring # << >>
      BY <1>8 DEF TxEnd, TypeOK, TurnTypeOK
    <2>2. tx_ring' \in Seq(Packets) /\ Len(tx_ring') < TX_RING_DEPTH
      BY <1>8, <2>1, SessionAssumption DEF TxEnd, TypeOK
    <2>3. events' \in Seq(Events) /\ Len(events') <= EVENT_QUEUE_DEPTH
      BY <1>8, QueueType DEF TxEnd, EventTypes
    <2> QED BY <1>8, <2>2, <2>3 DEF TxEnd, TypeOK, TurnTypeOK
  <1>9. CASE Address
    <2>1. TurnTypeOK' BY <1>9, PreparedType DEF Address, TurnTypeOK
    <2> QED BY <1>9, <2>1 DEF Address, TypeOK
  <1> QED
    BY <1>1, <1>2, <1>3, <1>4, <1>5, <1>6, <1>7, <1>8, <1>9 DEF Environment

\* Recording a received payload keeps the session's RX state well typed.
LEMMA RecordType ==
  ASSUME TypeOK, NEW packet \in Packets, prop_session_record_in_service_rx(packet)
  PROVE  /\ stats' \in [StatFields -> Nat]
         /\ last_rx_seq' \in SeqNumbers /\ have_last_rx_seq' \in BOOLEAN
         /\ truly_lost' \in Int /\ last_payload' \in 0 .. MaxPayloads
  <1> DEFINE gap == IF have_last_rx_seq
                      THEN prop_session_seq_gap_from_expected(
                             prop_session_next_payload_seq(last_rx_seq), packet.seq)
                      ELSE 0
  <1>1. packet.seq \in SeqNumbers /\ packet.payload \in 0 .. MaxPayloads
    BY DEF Packets
  <1>2. gap \in Nat BY <1>1, NextSeq, GapType DEF TypeOK
  <1> HIDE DEF gap
  <1>3. stats \in [StatFields -> Nat] BY DEF TypeOK
  <1>4. prop_session_record_loss_burst(stats, gap) \in [StatFields -> Nat]
    <2>1. ASSUME NEW s \in [StatFields -> Nat], NEW len \in Nat
          PROVE  prop_session_record_loss_burst(s, len) \in [StatFields -> Nat]
      BY <2>1 DEF prop_session_record_loss_burst, BurstOf, StatFields
    <2> QED BY <1>2, <1>3, <2>1
  <1>6. stats' \in [StatFields -> Nat]
    BY <1>3, <1>4 DEF prop_session_record_in_service_rx, gap
  <1>7. truly_lost' \in Int
    <2>1. truly_lost \in Int /\ packet.payload \in Int /\ last_payload \in Int
      BY <1>1, SessionAssumption DEF TypeOK
    <2> QED BY <2>1 DEF prop_session_record_in_service_rx
  <1> QED BY <1>1, <1>6, <1>7 DEF prop_session_record_in_service_rx

\* Taking an event from the queue leaves a well-typed queue and a well-typed event.
LEMMA DequeueType ==
  ASSUME TypeOK, events # << >>
  PROVE  /\ Head(events) \in Events /\ Head(events).packet \in Packets
         /\ Tail(events) \in Seq(Events) /\ Len(Tail(events)) <= EVENT_QUEUE_DEPTH
  <1>1. Head(events) \in Events BY DEF TypeOK
  <1>2. Tail(events) \in Seq(Events) /\ Len(Tail(events)) <= EVENT_QUEUE_DEPTH
    BY SessionAssumption DEF TypeOK
  <1> QED BY <1>1, <1>2 DEF Events

\* Each event the session thread handles keeps the state well typed.
LEMMA ThreadType ==
  ASSUME TypeOK, Thread
  PROVE  TypeOK'
  <1> USE DEF serviceVars, rxSeqVars, appVars, radioVars, turnVars, peerVars, history
  <1>1. CASE prop_session_start
    <2>1. NoLoss \in [StatFields -> Nat] BY DEF NoLoss
    <2>2. 0 \in SeqNumbers BY SessionAssumption DEF SeqNumbers
    <2>3. << >> \in Seq(Events) /\ << >> \in Seq(Packets) /\ Len(<< >>) = 0
      OBVIOUS
    <2>4. /\ 0 \in 0 .. SYNC_LOSS_TURNS - 1
          /\ 0 <= EVENT_QUEUE_DEPTH /\ 0 < TX_RING_DEPTH
      BY SessionAssumption
    <2> QED BY <1>1, <2>1, <2>2, <2>3, <2>4 DEF prop_session_start, TypeOK, TurnTypeOK
  <1>2. CASE prop_session_handle_rx_ok
    <2> DEFINE packet == Head(events).packet
    <2>1. /\ packet \in Packets
          /\ events' \in Seq(Events) /\ Len(events') <= EVENT_QUEUE_DEPTH
      BY <1>2, DequeueType DEF prop_session_handle_rx_ok, Dequeues
    <2>2. /\ service_state' \in {"NO_SERVICE", "IN_SERVICE"}
          /\ consecutive_rx_misses' \in 0 .. SYNC_LOSS_TURNS - 1
      <3>1. 0 \in 0 .. SYNC_LOSS_TURNS - 1 BY SessionAssumption
      <3>2. \/ service_state' = "IN_SERVICE" /\ consecutive_rx_misses' = 0
            \/ UNCHANGED serviceVars
        BY <1>2 DEF prop_session_handle_rx_ok
      <3> QED BY <3>1, <3>2 DEF TypeOK
    <2>3. \/ UNCHANGED <<prop_rx_queue, rxSeqVars, history>>
          \/ /\ prop_rx_queue' = IF Len(prop_rx_queue) < QUEUE_DEPTH
                                   THEN Append(prop_rx_queue, packet.payload)
                                   ELSE prop_rx_queue
             /\ prop_session_record_in_service_rx(packet)
      BY <1>2 DEF prop_session_handle_rx_ok
    <2>4. /\ prop_rx_queue' \in Seq(0 .. MaxPayloads)
          /\ Len(prop_rx_queue') <= QUEUE_DEPTH
      <3>1. packet.payload \in 0 .. MaxPayloads BY <2>1 DEF Packets
      <3> HIDE DEF packet
      <3>2. /\ prop_rx_queue \in Seq(0 .. MaxPayloads)
            /\ Len(prop_rx_queue) <= QUEUE_DEPTH /\ QUEUE_DEPTH \in Nat
        BY SessionAssumption DEF TypeOK
      <3>3. CASE UNCHANGED prop_rx_queue BY <3>2, <3>3
      <3>4. CASE /\ Len(prop_rx_queue) < QUEUE_DEPTH
                 /\ prop_rx_queue' = Append(prop_rx_queue, packet.payload)
        BY <3>1, <3>2, <3>4
      <3> QED BY <2>3, <3>3, <3>4
    <2>5. /\ stats' \in [StatFields -> Nat]
          /\ last_rx_seq' \in SeqNumbers /\ have_last_rx_seq' \in BOOLEAN
          /\ truly_lost' \in Int /\ last_payload' \in 0 .. MaxPayloads
      BY <2>1, <2>3, RecordType DEF TypeOK
    <2> QED
      BY <1>2, <2>1, <2>2, <2>4, <2>5 DEF prop_session_handle_rx_ok, TypeOK, TurnTypeOK
  <1>3. CASE prop_session_handle_rx_bad
    <2>1. events' \in Seq(Events) /\ Len(events') <= EVENT_QUEUE_DEPTH
      BY <1>3, DequeueType DEF prop_session_handle_rx_bad, Dequeues
    <2> QED BY <1>3, <2>1, SessionAssumption DEF prop_session_handle_rx_bad, TypeOK, TurnTypeOK
  <1>4. CASE prop_session_handle_listen_timeout
    <2>1. events' \in Seq(Events) /\ Len(events') <= EVENT_QUEUE_DEPTH
      BY <1>4, DequeueType DEF prop_session_handle_listen_timeout, Dequeues
    <2>2. /\ service_state' \in {"NO_SERVICE", "IN_SERVICE"}
          /\ have_last_rx_seq' \in BOOLEAN
      BY <1>4
      DEF prop_session_handle_listen_timeout, prop_session_mark_no_service, TypeOK
    <2>3. consecutive_rx_misses' \in 0 .. SYNC_LOSS_TURNS - 1
      <3>1. /\ consecutive_rx_misses \in 0 .. SYNC_LOSS_TURNS - 1
            /\ SYNC_LOSS_TURNS \in Nat /\ SYNC_LOSS_TURNS > 0
        BY SessionAssumption DEF TypeOK
      <3>2. \/ consecutive_rx_misses' = 0
            \/ /\ consecutive_rx_misses + 1 < SYNC_LOSS_TURNS
               /\ consecutive_rx_misses' = consecutive_rx_misses + 1
            \/ consecutive_rx_misses' = consecutive_rx_misses
        BY <1>4 DEF prop_session_handle_listen_timeout, prop_session_mark_no_service
      <3> QED BY <3>1, <3>2
    <2> QED BY <1>4, <2>1, <2>2, <2>3 DEF prop_session_handle_listen_timeout, TypeOK, TurnTypeOK
  <1>5. CASE TX_TRIGGER_FAILED
    <2>1. events' \in Seq(Events) /\ Len(events') <= EVENT_QUEUE_DEPTH
      BY <1>5, SessionAssumption DEF TX_TRIGGER_FAILED
    <2>2. 0 \in 0 .. SYNC_LOSS_TURNS - 1 BY SessionAssumption
    <2> QED
      BY <1>5, <2>1, <2>2
      DEF TX_TRIGGER_FAILED, prop_session_mark_no_service, TypeOK, TurnTypeOK
  <1>6. CASE prop_session_handle_tx_end
    <2>1. events' \in Seq(Events) /\ Len(events') <= EVENT_QUEUE_DEPTH
      BY <1>6, DequeueType DEF prop_session_handle_tx_end, Dequeues
    <2> QED BY <1>6, <2>1 DEF prop_session_handle_tx_end, TypeOK, TurnTypeOK
  <1>7. CASE prop_session_copy_to_radio_rb
    <2> DEFINE packet == Packet(Head(prop_tx_queue), next_tx_seq, 0)
    <2>1. /\ prop_tx_queue # << >> /\ prop_tx_queue' = Tail(prop_tx_queue)
          /\ Len(tx_ring) < TX_RING_DEPTH - 1 /\ tx_ring' = Append(tx_ring, packet)
          /\ UNCHANGED turnVars
      BY <1>7 DEF prop_session_copy_to_radio_rb, TxRingHasRoom
    <2>2. /\ Head(prop_tx_queue) \in AppLengths
          /\ prop_tx_queue' \in Seq(AppLengths) /\ Len(prop_tx_queue') <= QUEUE_DEPTH
      BY <2>1, SessionAssumption DEF TypeOK
    <2>3. packet \in Packets
      BY <2>2, SessionAssumption DEF Packet, Packets, TypeOK
    <2> HIDE DEF packet
    <2>4. tx_ring' \in Seq(Packets) /\ Len(tx_ring') < TX_RING_DEPTH
      BY <2>1, <2>3, SessionAssumption DEF TypeOK
    <2>5. next_tx_seq' \in SeqNumbers
      BY <1>7, NextSeq DEF prop_session_copy_to_radio_rb, TypeOK
    <2>6. TurnTypeOK'
      <3>1. tx_ring \in Seq(Packets) BY DEF TypeOK
      <3>2. tx_ring' # << >> BY <2>1, <3>1
      <3> QED BY <2>1, <3>2 DEF TypeOK, TurnTypeOK
    <2> QED
      BY <1>7, <2>2, <2>4, <2>5, <2>6 DEF prop_session_copy_to_radio_rb, TypeOK
  <1>8. CASE RefillEnds BY <1>8 DEF RefillEnds, TypeOK, TurnTypeOK
  <1> QED
    BY <1>1, <1>2, <1>3, <1>4, <1>5, <1>6, <1>7, <1>8 DEF Thread

\* TypeOK is inductive.
LEMMA NextType == TypeOK /\ [Next]_vars => TypeOK'
  <1> SUFFICES ASSUME TypeOK, [Next]_vars PROVE TypeOK' OBVIOUS
  <1>1. CASE Next BY <1>1, EnvironmentType, ThreadType DEF Next
  <1>2. CASE UNCHANGED vars
    BY <1>2
    DEF TypeOK, TurnTypeOK, vars, serviceVars, rxSeqVars, appVars, radioVars, turnVars,
        peerVars, history
  <1> QED BY <1>1, <1>2

\* The session's state is well typed: in particular the queues and the
\* ring never exceed their depth, and a sequence number its width.
THEOREM TypeCorrect == Spec => []TypeOK
  BY InitType, NextType, PTL DEF Spec

-----------------------------------------------------------------------------
(* Service state *)

\* NoServiceForgets is inductive: each way out of service clears the miss count
\* and the sequence continuity, and acquiring either means being in service.
LEMMA NextForgets == NoServiceForgets /\ [Next]_vars => NoServiceForgets'
  <1> SUFFICES ASSUME NoServiceForgets, [Next]_vars PROVE NoServiceForgets' OBVIOUS
  <1> USE DEF NoServiceForgets, radio_on, serviceVars, rxSeqVars, appVars, radioVars,
              turnVars, peerVars, history
  <1>1. CASE Environment \/ TxEnd
    BY <1>1
    DEF Environment, Address, PeerSendsPayload, PeerSendsOther, PeerRestarts, Arrives,
        ListenTimeout, RxIncomplete, Deadline, TxTriggerFailed, prop_session_tx_enqueue,
        prop_session_rx_dequeue, TxEnd
  <1>2. CASE Thread
    <2>1. CASE prop_session_start BY <2>1 DEF prop_session_start
    <2>2. CASE prop_session_handle_rx_ok
      <3>1. radio_on /\ radio_on'
        BY <2>2 DEF prop_session_handle_rx_ok, Dequeues
      <3>2. CASE UNCHANGED <<serviceVars, have_last_rx_seq>> BY <3>1, <3>2
      <3>3. CASE service_state' = "IN_SERVICE" BY <3>1, <3>3
      <3> QED BY <2>2, <3>2, <3>3 DEF prop_session_handle_rx_ok
    <2>3. CASE prop_session_handle_rx_bad
      BY <2>3 DEF prop_session_handle_rx_bad, Dequeues
    <2>4. CASE prop_session_handle_listen_timeout
      BY <2>4
      DEF prop_session_handle_listen_timeout, Dequeues, prop_session_mark_no_service
    <2>5. CASE TX_TRIGGER_FAILED
      BY <2>5 DEF TX_TRIGGER_FAILED, prop_session_mark_no_service
    <2>6. CASE prop_session_handle_tx_end
      BY <2>6 DEF prop_session_handle_tx_end, Dequeues
    <2>7. CASE prop_session_copy_to_radio_rb
      BY <2>7 DEF prop_session_copy_to_radio_rb
    <2>8. CASE RefillEnds BY <2>8 DEF RefillEnds
    <2> QED
      BY <1>2, <2>1, <2>2, <2>3, <2>4, <2>5, <2>6, <2>7, <2>8 DEF Thread
  <1>3. CASE UNCHANGED vars BY <1>3 DEF vars
  <1> QED BY <1>1, <1>2, <1>3 DEF Next

\* An outage, a restarted peer or a stopped radio never reaches the loss
\* accounting, for every threshold, depth and number width.
THEOREM OutOfServiceForgets == Spec => []NoServiceForgets
  <1>1. Init => NoServiceForgets BY DEF Init, NoServiceForgets, radio_on
  <1> QED BY <1>1, NextForgets, PTL DEF Spec

-----------------------------------------------------------------------------
(* Numbers *)

\* Payload numbers go round 0 .. Round - 1.
LEMMA NextInRound ==
  ASSUME NEW seq \in Nat, seq < Round
  PROVE  prop_session_next_payload_seq(seq) = IF seq + 1 = Round THEN 0 ELSE seq + 1
  <1>1. SEQ_MOD \in Nat /\ SEQ_MOD > 2 /\ Round = SEQ_MOD - 1 /\ PROP_KEEPALIVE_SEQ = Round
    BY SessionAssumption DEF Round, PROP_KEEPALIVE_SEQ
  <1>2. (seq + 1) % SEQ_MOD = seq + 1
    <2>1. seq + 1 \in 0 .. SEQ_MOD - 1 BY <1>1
    <2> QED BY <1>1, <2>1, SMT
  <1>3. (Round + 1) % SEQ_MOD = 0
    <2>1. Round + 1 = SEQ_MOD BY <1>1
    <2>2. SEQ_MOD % SEQ_MOD = 0 BY <1>1, SMT
    <2> QED BY <2>1, <2>2
  <1> QED BY <1>1, <1>2, <1>3 DEF prop_session_next_payload_seq

\* Between two payloads d apart the session counts the d - 1 in between, and
\* one more only if the numbers passed the reserved one.
LEMMA GapCounts ==
  ASSUME MaxLostRun + 1 < HALF,
         NEW s \in Nat, NEW t \in Nat, s < Round, t < Round,
         NEW d \in 1 .. MaxLostRun + 1, d \in {t - s, t - s + Round}
  PROVE  LET gap == prop_session_seq_gap_from_expected(
                      prop_session_next_payload_seq(s), t)
         IN  /\ gap \in {d - 1, d}
             /\ gap = d => d = t - s + Round
  <1> DEFINE expected == prop_session_next_payload_seq(s)
  <1>1. /\ SEQ_MOD \in Nat /\ SEQ_MOD > 2 /\ Round = SEQ_MOD - 1
        /\ HALF \in Nat /\ 2 * HALF <= SEQ_MOD /\ MaxLostRun \in Nat
    BY SessionAssumption, SMT DEF Round, HALF
  <1>2. expected = IF s + 1 = Round THEN 0 ELSE s + 1 BY NextInRound
  <1> HIDE DEF expected
  <1>3. CASE t - expected = d - 1
    <2>1. (t - expected) % SEQ_MOD = d - 1
      <3>1. d - 1 \in 0 .. SEQ_MOD - 1 BY <1>1
      <3> QED BY <1>1, <1>3, <3>1, SMT
    <2>2. d - 1 < HALF BY <1>1
    <2> QED BY <2>1, <2>2, <1>1 DEF prop_session_seq_gap_from_expected, expected
  <1>4. CASE t - expected = d - SEQ_MOD /\ d = t - s + Round
    <2>1. (t - expected) % SEQ_MOD = d
      <3>1. d \in 0 .. SEQ_MOD - 1 BY <1>1
      <3>2. d % SEQ_MOD = d BY <1>1, <3>1, SMT
      <3>3. (d - SEQ_MOD) % SEQ_MOD = d BY <1>1, <3>1, SMT
      <3> QED BY <1>4, <3>3
    <2>2. d < HALF BY <1>1
    <2> QED BY <1>4, <2>1, <2>2 DEF prop_session_seq_gap_from_expected, expected
  <1>5. t - expected = d - 1 \/ (t - expected = d - SEQ_MOD /\ d = t - s + Round)
    BY <1>1, <1>2
  <1> QED BY <1>3, <1>4, <1>5

-----------------------------------------------------------------------------
(* The numbers in the TX ring *)

\* NumberedInv is inductive: only the refill numbers a packet, and packets leave
\* the ring from its head.
LEMMA NextNumbered == TypeOK /\ NumberedInv /\ [Next]_vars => NumberedInv'
  <1> SUFFICES ASSUME TypeOK, NumberedInv, [Next]_vars PROVE NumberedInv' OBVIOUS
  <1>1. /\ tx_ring \in Seq(Packets) /\ DOMAIN tx_ring = 1 .. Len(tx_ring)
        /\ Len(tx_ring) \in Nat /\ next_tx_seq \in SeqNumbers
    BY DEF TypeOK
  <1>2. CASE UNCHANGED <<next_tx_seq, tx_ring>> BY <1>2 DEF NumberedInv
  <1>3. CASE prop_session_start
    <2>1. 0 # PROP_KEEPALIVE_SEQ BY SessionAssumption DEF PROP_KEEPALIVE_SEQ
    <2> QED BY <1>3, <2>1 DEF prop_session_start, NumberedInv
  <1>4. CASE TxEnd
    <2>1. CASE ~tx_packet_from_ring BY <1>2, <1>4, <2>1 DEF TxEnd
    <2>2. CASE tx_packet_from_ring
      <3>1. /\ tx_ring' = Tail(tx_ring) /\ next_tx_seq' = next_tx_seq /\ tx_ring # << >>
        BY <1>4, <2>2 DEF TxEnd, TypeOK, TurnTypeOK
      <3>2. /\ DOMAIN tx_ring' = 1 .. Len(tx_ring) - 1 /\ Len(tx_ring') = Len(tx_ring) - 1
            /\ \A i \in 1 .. Len(tx_ring) - 1 : tx_ring'[i] = tx_ring[i + 1]
        BY <1>1, <3>1
      <3>3. \A i \in 1 .. Len(tx_ring) - 1 : i + 1 \in 1 .. Len(tx_ring) BY <1>1
      <3>4. \A i \in DOMAIN tx_ring' : i = Len(tx_ring') <=> i + 1 = Len(tx_ring)
        BY <1>1, <3>2
      <3>5. \A i \in DOMAIN tx_ring' : i # Len(tx_ring') => i + 1 \in 1 .. Len(tx_ring) - 1
        BY <1>1, <3>2
      <3> QED BY <1>1, <3>1, <3>2, <3>3, <3>4, <3>5 DEF NumberedInv
    <2> QED BY <2>1, <2>2
  <1>5. CASE prop_session_copy_to_radio_rb
    <2> DEFINE packet == Packet(Head(prop_tx_queue), next_tx_seq, 0)
    <2>1. /\ tx_ring' = Append(tx_ring, packet) /\ packet.seq = next_tx_seq
          /\ next_tx_seq' = prop_session_next_payload_seq(next_tx_seq)
      BY <1>5 DEF prop_session_copy_to_radio_rb, Packet
    <2> HIDE DEF packet
    <2>2. /\ DOMAIN tx_ring' = 1 .. Len(tx_ring) + 1 /\ Len(tx_ring') = Len(tx_ring) + 1
          /\ \A i \in 1 .. Len(tx_ring) : tx_ring'[i] = tx_ring[i]
          /\ tx_ring'[Len(tx_ring) + 1] = packet
      BY <1>1, <2>1
    <2>3. next_tx_seq' # PROP_KEEPALIVE_SEQ BY <1>1, <2>1, NextSeq
    <2>4. ASSUME NEW i \in 1 .. Len(tx_ring) + 1
          PROVE  /\ tx_ring'[i].seq # PROP_KEEPALIVE_SEQ
                 /\ prop_session_next_payload_seq(tx_ring'[i].seq) =
                      IF i = Len(tx_ring') THEN next_tx_seq' ELSE tx_ring'[i + 1].seq
      <3>1. CASE i \in 1 .. Len(tx_ring) - 1
        <4>1. i + 1 \in 1 .. Len(tx_ring) BY <1>1, <3>1
        <4> QED BY <1>1, <2>2, <3>1, <4>1 DEF NumberedInv
      <3>2. CASE i = Len(tx_ring)
        <4>1. i \in 1 .. Len(tx_ring) /\ i # Len(tx_ring')
          <5>1. Len(tx_ring) \in Nat /\ Len(tx_ring') = Len(tx_ring) + 1 BY <1>1, <2>2
          <5> QED BY <2>4, <3>2, <5>1
        <4>2. /\ tx_ring[i].seq # PROP_KEEPALIVE_SEQ
              /\ prop_session_next_payload_seq(tx_ring[i].seq) = next_tx_seq
          BY <1>1, <3>2, <4>1 DEF NumberedInv
        <4>3. tx_ring'[i] = tx_ring[i] /\ tx_ring'[i + 1] = packet BY <2>2, <3>2, <4>1
        <4> QED BY <2>1, <4>1, <4>2, <4>3
      <3>3. CASE i = Len(tx_ring) + 1 BY <1>1, <2>1, <2>2, <3>3 DEF NumberedInv
      <3>4. Len(tx_ring) \in Nat BY <1>1
      <3>5. i \in 1 .. Len(tx_ring) - 1 \/ i = Len(tx_ring) \/ i = Len(tx_ring) + 1
        BY <2>4, <3>4
      <3> QED BY <3>1, <3>2, <3>3, <3>5
    <2> QED BY <2>2, <2>3, <2>4 DEF NumberedInv
  <1>6. \/ UNCHANGED <<next_tx_seq, tx_ring>>
        \/ prop_session_start \/ TxEnd \/ prop_session_copy_to_radio_rb
    BY DEF Next, Environment, Thread, PeerSendsPayload, PeerSendsOther, PeerRestarts,
           Address, ListenTimeout, RxIncomplete, Deadline, TxTriggerFailed,
           prop_session_tx_enqueue, prop_session_rx_dequeue, prop_session_handle_rx_ok,
           prop_session_handle_rx_bad, prop_session_handle_listen_timeout,
           TX_TRIGGER_FAILED, prop_session_handle_tx_end, RefillEnds, vars, radioVars
  <1> QED BY <1>2, <1>3, <1>4, <1>5, <1>6

\* Read over the ring and the next number, NumberedInv is PayloadsNumbered.
LEMMA NumberedImplies == TypeOK /\ NumberedInv => PayloadsNumbered
  <1> SUFFICES ASSUME TypeOK, NumberedInv PROVE PayloadsNumbered OBVIOUS
  <1> DEFINE n == Len(tx_ring)
             seqs == [i \in DOMAIN tx_ring |-> tx_ring[i].seq]
             all == Append(seqs, next_tx_seq)
  <1>1. /\ tx_ring \in Seq(Packets) /\ DOMAIN tx_ring = 1 .. n /\ n \in Nat
        /\ \A i \in 1 .. n : tx_ring[i] \in Packets
    BY DEF TypeOK
  <1>2. seqs \in Seq(SeqNumbers) /\ Len(seqs) = n /\ DOMAIN seqs = 1 .. n
    <2>1. \A i \in 1 .. n : tx_ring[i].seq \in SeqNumbers BY <1>1 DEF Packets
    <2>2. seqs \in [1 .. n -> SeqNumbers] BY <1>1, <2>1
    <2> QED BY <1>1, <2>2
  <1>3. \A i \in 1 .. n : seqs[i] = tx_ring[i].seq BY <1>1
  <1> HIDE DEF seqs
  <1>4. /\ \A i \in 1 .. n : all[i] = tx_ring[i].seq
        /\ all[n + 1] = next_tx_seq
    <2>1. next_tx_seq \in SeqNumbers /\ n \in Nat BY <1>1 DEF TypeOK
    <2> HIDE DEF n
    <2> QED BY <1>2, <1>3, <2>1
  <1> HIDE DEF all
  <1>5. \A i \in 1 .. n : all[i + 1] = prop_session_next_payload_seq(all[i])
    <2> SUFFICES ASSUME NEW i \in 1 .. n
                 PROVE  all[i + 1] = prop_session_next_payload_seq(all[i])
      OBVIOUS
    <2>1. n \in Nat BY <1>1
    <2> HIDE DEF n
    <2>2. i # n => i + 1 \in 1 .. n BY <2>1
    <2> QED BY <1>1, <1>4, <2>2 DEF NumberedInv, n
  <1>6. \A i \in DOMAIN tx_ring : ~prop_session_is_keepalive_packet(tx_ring[i])
    BY DEF NumberedInv, prop_session_is_keepalive_packet
  <1> QED BY <1>2, <1>5, <1>6 DEF PayloadsNumbered, seqs, all

\* No payload on its way to the peer carries the keepalive's number, and the
\* ring continues with the next number to be given, however the queue, the
\* ring and the events fill and drain (session.c:296-320).
THEOREM PayloadNumbers == Spec => []PayloadsNumbered
  <1>1. Init => NumberedInv
    BY SessionAssumption DEF Init, NumberedInv, PROP_KEEPALIVE_SEQ
  <1> QED BY <1>1, NextNumbered, NumberedImplies, TypeCorrect, PTL DEF Spec

-----------------------------------------------------------------------------
(* Loss bursts *)

\* What the burst counters of s say at least, and at most, of the payloads lost.
Least(s) == s.burst_1 + 2 * s.burst_2 + 3 * s.burst_3_4 + 5 * s.burst_5_plus
Most(s)  == s.burst_1 + 2 * s.burst_2 + 4 * s.burst_3_4 + s.max_burst * s.burst_5_plus

\* A longer maximum, or one more long burst, only adds to the upper bound.
LEMMA LongBursts ==
  ASSUME NEW max \in Nat, NEW n \in Nat, NEW len \in Nat,
         NEW max1 \in Nat, max1 >= max, max1 >= len
  PROVE  /\ max1 * n >= max * n
         /\ max1 * (n + 1) >= max * n + len
         /\ max1 * n \in Nat /\ max * n \in Nat /\ max1 * (n + 1) \in Nat
  <1>1. max1 * n \in Nat /\ max * n \in Nat BY SMT
  <1>2. max1 * n >= max * n
    <2>1. PICK k \in Nat : max1 = max + k
      <3>1. max1 - max \in Nat /\ max1 = max + (max1 - max) OBVIOUS
      <3> QED BY <3>1
    <2>2. (max + k) * n = max * n + k * n BY SMT
    <2>3. k * n \in Nat BY SMT
    <2> QED BY <1>1, <2>1, <2>2, <2>3
  <1>3. max1 * (n + 1) = max1 * n + max1 BY SMT
  <1> QED BY <1>1, <1>2, <1>3

\* Recording a burst keeps the counters on both sides of the count.
LEMMA RecordBrackets ==
  ASSUME NEW s \in [StatFields -> Nat], NEW gap \in Nat \ {0},
         Least(s) <= s.lost, s.lost <= Most(s)
  PROVE  LET t == prop_session_record_loss_burst(s, gap)
         IN  Least(t) <= t.lost /\ t.lost <= Most(t)
  <1> DEFINE t == prop_session_record_loss_burst(s, gap)
  <1>1. /\ s.lost \in Nat /\ s.burst_1 \in Nat /\ s.burst_2 \in Nat
        /\ s.burst_3_4 \in Nat /\ s.burst_5_plus \in Nat /\ s.max_burst \in Nat
    BY DEF StatFields
  <1>2. /\ BurstOf(gap) \in StatFields \ {"lost", "max_burst"}
        /\ BurstOf(gap) = "burst_1" => gap = 1
        /\ BurstOf(gap) = "burst_2" => gap = 2
        /\ BurstOf(gap) = "burst_3_4" => gap \in 3 .. 4
        /\ BurstOf(gap) = "burst_5_plus" => gap >= 5
    BY DEF BurstOf, StatFields
  <1>3. /\ t.lost = s.lost + gap
        /\ t.max_burst = IF gap > s.max_burst THEN gap ELSE s.max_burst
        /\ t.burst_1 = s.burst_1 + (IF BurstOf(gap) = "burst_1" THEN 1 ELSE 0)
        /\ t.burst_2 = s.burst_2 + (IF BurstOf(gap) = "burst_2" THEN 1 ELSE 0)
        /\ t.burst_3_4 = s.burst_3_4 + (IF BurstOf(gap) = "burst_3_4" THEN 1 ELSE 0)
        /\ t.burst_5_plus = s.burst_5_plus + (IF BurstOf(gap) = "burst_5_plus" THEN 1 ELSE 0)
    BY <1>1, <1>2 DEF prop_session_record_loss_burst, StatFields
  <1> HIDE DEF t
  <1>4. t.max_burst \in Nat /\ t.max_burst >= s.max_burst /\ t.max_burst >= gap
    BY <1>1, <1>3
  <1> DEFINE longs == s.max_burst * s.burst_5_plus
             longs1 == t.max_burst * t.burst_5_plus
  <1>5. /\ longs \in Nat /\ longs1 \in Nat
        /\ BurstOf(gap) # "burst_5_plus" => longs1 >= longs
        /\ BurstOf(gap) = "burst_5_plus" => longs1 >= longs + gap
    <2>1. CASE BurstOf(gap) # "burst_5_plus"
      <3>1. t.burst_5_plus = s.burst_5_plus BY <1>1, <1>3, <2>1
      <3> QED BY <1>1, <1>4, <2>1, <3>1, LongBursts
    <2>2. CASE BurstOf(gap) = "burst_5_plus"
      <3>1. t.burst_5_plus = s.burst_5_plus + 1 BY <1>1, <1>3, <2>2
      <3> QED BY <1>1, <1>4, <2>2, <3>1, LongBursts
    <2> QED BY <2>1, <2>2
  <1>6. Least(s) <= s.lost /\ s.lost <= s.burst_1 + 2 * s.burst_2 + 4 * s.burst_3_4 + longs
    BY DEF Most
  <1> HIDE DEF longs, longs1
  <1>7. t.lost <= t.burst_1 + 2 * t.burst_2 + 4 * t.burst_3_4 + longs1
    BY <1>1, <1>2, <1>3, <1>5, <1>6 DEF StatFields
  <1>8. Least(t) <= t.lost
    BY <1>1, <1>2, <1>3, <1>6 DEF Least, StatFields
  <1> QED BY <1>7, <1>8 DEF Most, longs1, t

\* Nothing but a received payload changes the statistics, once started.
LEMMA StatsChange ==
  ASSUME TypeOK, [Next]_vars
  PROVE  \/ UNCHANGED stats
         \/ stats' = NoLoss
         \/ \E gap \in Nat \ {0} : stats' = prop_session_record_loss_burst(stats, gap)
  <1>1. CASE prop_session_start BY <1>1 DEF prop_session_start
  <1>2. CASE prop_session_handle_rx_ok
    <2> DEFINE packet == Head(events).packet
               gap == IF have_last_rx_seq
                        THEN prop_session_seq_gap_from_expected(
                               prop_session_next_payload_seq(last_rx_seq), packet.seq)
                        ELSE 0
    <2>1. packet.seq \in SeqNumbers
      BY <1>2, DequeueType DEF prop_session_handle_rx_ok, Dequeues, Packets
    <2>2. gap \in Nat BY <2>1, NextSeq, GapType DEF TypeOK
    <2>3. UNCHANGED stats
            \/ stats' = IF gap > 0 THEN prop_session_record_loss_burst(stats, gap) ELSE stats
      BY <1>2 DEF prop_session_handle_rx_ok, prop_session_record_in_service_rx, rxSeqVars
    <2> HIDE DEF gap
    <2>4. gap > 0 => gap \in Nat \ {0} BY <2>2
    <2> QED BY <2>3, <2>4
  <1>3. ~prop_session_start /\ ~prop_session_handle_rx_ok => UNCHANGED stats
    BY DEF Next, Environment, Thread, PeerSendsPayload, PeerSendsOther, PeerRestarts,
           Address, ListenTimeout, RxIncomplete, Deadline, TxTriggerFailed, TxEnd,
           prop_session_tx_enqueue, prop_session_rx_dequeue,
           prop_session_handle_rx_bad, prop_session_handle_listen_timeout,
           TX_TRIGGER_FAILED, prop_session_handle_tx_end,
           prop_session_copy_to_radio_rb, RefillEnds, vars, rxSeqVars
  <1> QED BY <1>1, <1>2, <1>3

\* The burst counters and the longest burst account for every payload counted
\* as lost, for every number width and threshold (session.c:117-145).
THEOREM BurstsAddUp == Spec => []BurstsBracketLoss
  <1>1. ASSUME NEW s \in [StatFields -> Nat], s = NoLoss
        PROVE  Least(s) <= s.lost /\ s.lost <= Most(s)
    BY <1>1 DEF NoLoss, StatFields, Least, Most
  <1>2. NoLoss \in [StatFields -> Nat] BY DEF NoLoss
  <1>3. Init => BurstsBracketLoss
    BY <1>1, <1>2 DEF Init, BurstsBracketLoss, Least, Most
  <1>4. TypeOK /\ BurstsBracketLoss /\ [Next]_vars => BurstsBracketLoss'
    <2> SUFFICES ASSUME TypeOK, BurstsBracketLoss, [Next]_vars
                 PROVE  Least(stats') <= stats'.lost /\ stats'.lost <= Most(stats')
      BY DEF BurstsBracketLoss, Least, Most
    <2>1. Least(stats) <= stats.lost /\ stats.lost <= Most(stats)
      BY DEF BurstsBracketLoss, Least, Most
    <2>2. stats \in [StatFields -> Nat] BY DEF TypeOK
    <2> QED BY <1>1, <1>2, <2>1, <2>2, StatsChange, RecordBrackets
  <1> QED BY <1>3, <1>4, TypeCorrect, PTL DEF Spec

-----------------------------------------------------------------------------
(* The loss count *)

\* Every place holds numbers.
LEMMA PlaceTypes ==
  ASSUME TypeOK
  PROVE  /\ Len(events) \in Nat /\ NextPlace = Len(events) + 1
         /\ Places = 0 .. Len(events) + 1 /\ 0 \in Places /\ NextPlace \in Places
         /\ \A i \in Places : SeqAt(i) \in Nat /\ PayloadAt(i) \in Nat
         /\ Round \in Nat /\ Round > 1 /\ Excess \in Int /\ Excess * Round \in Int
         /\ Known(NextPlace) /\ NextPlace # 0
         /\ SeqAt(NextPlace) = peer_seq /\ PayloadAt(NextPlace) = peer_count + 1
  <1>1. /\ Len(events) \in Nat /\ DOMAIN events = 1 .. Len(events)
        /\ events \in Seq(Events)
    BY DEF TypeOK
  <1>2. Places = 0 .. Len(events) + 1 /\ 0 \in Places /\ NextPlace \in Places /\ NextPlace # 0
    BY <1>1 DEF Places, NextPlace
  <1>3. SEQ_MOD \in Nat /\ SEQ_MOD > 2 /\ MaxPayloads \in Nat BY SessionAssumption
  <1>4. /\ last_rx_seq \in Nat /\ peer_seq \in Nat
        /\ last_payload \in Nat /\ peer_count + 1 \in Nat
    BY <1>3 DEF TypeOK, SeqNumbers
  <1>5. \A i \in 1 .. Len(events) : /\ events[i].packet.seq \in Nat
                                    /\ events[i].packet.payload \in Nat
    <2> SUFFICES ASSUME NEW i \in 1 .. Len(events)
                 PROVE  events[i].packet.seq \in Nat /\ events[i].packet.payload \in Nat
      OBVIOUS
    <2>1. events[i] \in Events BY <1>1
    <2>2. events[i].packet \in Packets BY <2>1 DEF Events
    <2> QED BY <1>3, <2>2 DEF Packets, SeqNumbers
  <1>6. \A i \in Places : i = 0 \/ i = NextPlace \/ i \in 1 .. Len(events)
    BY <1>1 DEF Places, NextPlace
  <1>7. \A i \in Places : SeqAt(i) \in Nat /\ PayloadAt(i) \in Nat
    BY <1>4, <1>5, <1>6 DEF SeqAt, PayloadAt
  <1>8. Round \in Nat /\ Round > 1 BY <1>3 DEF Round
  <1>9. Excess \in Int
    <2>1. stats.lost \in Nat BY DEF TypeOK, StatFields
    <2> QED BY <2>1 DEF Excess, TypeOK
  <1>10. Excess * Round \in Int BY <1>8, <1>9, SMT
  <1> QED
    BY <1>1, <1>2, <1>7, <1>8, <1>9, <1>10 DEF Known, SeqAt, PayloadAt, NextPlace

\* The payloads keep their order, and which of them are adjacent: the one at
\* place i was at place f[i].
Moved(f) ==
  /\ \A i \in Places' : Known(i)' =>
       /\ f[i] \in Places /\ Known(f[i])
       /\ i = NextPlace' <=> f[i] = NextPlace
       /\ i # NextPlace' => SeqAt(i)' = SeqAt(f[i]) /\ PayloadAt(i)' = PayloadAt(f[i])
  /\ \A i, j \in Places' : i < j /\ Known(i)' /\ Known(j)' => f[i] < f[j]
  /\ \A i, j \in Places' : Adjacent(i, j)' => Adjacent(f[i], f[j])

\* The places stay apart as they were when payloads only move.
LEMMA MovedPlaces ==
  ASSUME TypeOK, TypeOK', PlacesInv, UNCHANGED peerVars, NEW f, Moved(f)
  PROVE  /\ PlacesInv'
         /\ \A i \in Places' : Known(i)' =>
              /\ f[i] \in Places /\ Known(f[i])
              /\ SeqAt(i)' = SeqAt(f[i]) /\ PayloadAt(i)' = PayloadAt(f[i])
  <1>1. /\ SeqAt(NextPlace)' = SeqAt(NextPlace) /\ PayloadAt(NextPlace)' = PayloadAt(NextPlace)
    <2>1. events \in Seq(Events) /\ events' \in Seq(Events) BY DEF TypeOK
    <2>2. NextPlace # 0 /\ NextPlace' # 0 BY <2>1 DEF NextPlace
    <2>3. peer_seq' = peer_seq /\ peer_count' = peer_count BY DEF peerVars
    <2> QED BY <2>2, <2>3 DEF SeqAt, PayloadAt
  <1>2. \A i \in Places' : Known(i)' =>
           /\ f[i] \in Places /\ Known(f[i])
           /\ SeqAt(i)' = SeqAt(f[i]) /\ PayloadAt(i)' = PayloadAt(f[i])
           /\ i = NextPlace' <=> f[i] = NextPlace
    BY <1>1 DEF Moved
  <1>3. ASSUME NEW i \in Places', Known(i)'
        PROVE  (SeqAt(i) < Round)'
    BY <1>2, <1>3 DEF PlacesInv, Round
  <1>4. ASSUME NEW i \in Places', NEW j \in Places', i < j, Known(i)', Known(j)'
        PROVE  /\ PayloadAt(i)' < PayloadAt(j)'
               /\ \/ PayloadAt(j)' - PayloadAt(i)' = SeqAt(j)' - SeqAt(i)'
                  \/ PayloadAt(j)' - PayloadAt(i)' >= SeqAt(j)' - SeqAt(i)' + Round
    BY <1>2, <1>4 DEF PlacesInv, Moved
  <1>5. ASSUME NEW i \in Places', NEW j \in Places', Adjacent(i, j)'
        PROVE  /\ PayloadAt(j)' - PayloadAt(i)' <= MaxLostRun + 1
               /\ PayloadAt(j)' - PayloadAt(i)' \in
                    {SeqAt(j)' - SeqAt(i)', SeqAt(j)' - SeqAt(i)' + Round}
               /\ j = NextPlace' => PayloadAt(j)' - PayloadAt(i)' = lost_run' + 1
    <2>1. Known(i)' /\ Known(j)' BY <1>5 DEF Adjacent
    <2>2. /\ SeqAt(i)' = SeqAt(f[i]) /\ PayloadAt(i)' = PayloadAt(f[i])
          /\ SeqAt(j)' = SeqAt(f[j]) /\ PayloadAt(j)' = PayloadAt(f[j])
          /\ f[i] \in Places /\ f[j] \in Places
          /\ j = NextPlace' => f[j] = NextPlace
          /\ Adjacent(f[i], f[j]) /\ lost_run' = lost_run
      BY <1>2, <1>5, <2>1 DEF Moved, peerVars
    <2> QED BY <2>2 DEF PlacesInv
  <1>6. PlacesInv' BY <1>3, <1>4, <1>5 DEF PlacesInv, Round
  <1> QED BY <1>2, <1>6

\* A step that only moves payloads keeps the invariant.
LEMMA MovedLoss ==
  ASSUME TypeOK, TypeOK', LossInv, UNCHANGED <<stats, truly_lost, peerVars>>,
         NEW f, Moved(f)
  PROVE  LossInv'
  <1>1. PlacesInv' BY MovedPlaces DEF LossInv
  <1>2. \A i \in Places' : Known(i)' =>
           /\ f[i] \in Places /\ Known(f[i])
           /\ SeqAt(i)' = SeqAt(f[i]) /\ PayloadAt(i)' = PayloadAt(f[i])
    BY MovedPlaces DEF LossInv
  <1>3. CountInv' BY <1>2 DEF LossInv, CountInv, Excess, Round
  <1> QED BY <1>1, <1>3 DEF LossInv

\* So does a payload of the peer that is lost: the next one is one further away.
LEMMA LostLoss ==
  ASSUME MaxLostRun + 1 < HALF, TypeOK, TypeOK', LossInv, NEW f, Moved(f),
         peer_count' = peer_count + 1,
         peer_seq' = prop_session_next_payload_seq(peer_seq),
         lost_run' = lost_run + 1,
         UNCHANGED <<stats, truly_lost>>
  PROVE  LossInv'
  <1> DEFINE s == peer_seq  p == peer_count + 1
  <1>1. /\ SeqAt(NextPlace) = s /\ PayloadAt(NextPlace) = p /\ Known(NextPlace)
        /\ s \in Nat /\ p \in Nat /\ NextPlace \in Places
        /\ \A i \in Places : SeqAt(i) \in Nat /\ PayloadAt(i) \in Nat
        /\ Round \in Nat /\ Round > 1 /\ Excess * Round \in Int
    BY PlaceTypes
  <1>2. /\ SeqAt(NextPlace)' = peer_seq' /\ PayloadAt(NextPlace)' = p + 1
    <2>1. Len(events') \in Nat BY DEF TypeOK
    <2>2. NextPlace' # 0 BY <2>1 DEF NextPlace
    <2>3. peer_count' + 1 = p + 1 OBVIOUS
    <2> QED BY <2>2, <2>3 DEF SeqAt, PayloadAt
  <1>3. s < Round /\ Excess * Round + s < p
    BY <1>1 DEF LossInv, PlacesInv, CountInv
  <1>4. peer_seq' = IF s + 1 = Round THEN 0 ELSE s + 1
    BY <1>1, <1>3, NextInRound
  <1>5. /\ lost_run \in Nat /\ lost_run + 1 <= MaxLostRun /\ MaxLostRun \in Nat
        /\ MaxLostRun + 1 < Round
    BY SessionAssumption, SMT DEF TypeOK, HALF, Round
  <1>6. Excess' = Excess /\ Round' = Round BY DEF Excess, Round
  <1> HIDE DEF s, p
  <1>7. ASSUME NEW i \in Places', Known(i)'
        PROVE  /\ f[i] \in Places /\ Known(f[i])
               /\ i = NextPlace' => /\ f[i] = NextPlace /\ SeqAt(i)' = peer_seq'
                                    /\ PayloadAt(i)' = p + 1
               /\ i # NextPlace' => /\ f[i] # NextPlace /\ SeqAt(i)' = SeqAt(f[i])
                                    /\ PayloadAt(i)' = PayloadAt(f[i])
    BY <1>2, <1>7 DEF Moved
  <1>8. ASSUME NEW i \in Places', Known(i)'
        PROVE  SeqAt(i)' < Round /\ Excess * Round + SeqAt(i)' < PayloadAt(i)'
    <2>1. CASE i = NextPlace' BY <1>1, <1>3, <1>4, <1>7, <1>8, <2>1
    <2>2. CASE i # NextPlace' BY <1>7, <1>8, <2>2 DEF LossInv, PlacesInv, CountInv
    <2> QED BY <2>1, <2>2
  <1>9. ASSUME NEW i \in Places', NEW j \in Places', i < j, Known(i)', Known(j)'
        PROVE  /\ i # NextPlace'
               /\ PayloadAt(i)' < PayloadAt(j)'
               /\ \/ PayloadAt(j)' - PayloadAt(i)' = SeqAt(j)' - SeqAt(i)'
                  \/ PayloadAt(j)' - PayloadAt(i)' >= SeqAt(j)' - SeqAt(i)' + Round
    <2>1. f[i] < f[j] /\ f[i] \in Places /\ f[j] \in Places /\ Known(f[i]) /\ Known(f[j])
      BY <1>7, <1>9 DEF Moved
    <2>2. i # NextPlace'
      BY <1>9, PlaceTypes
      DEF Places, NextPlace, TypeOK
    <2>3. /\ PayloadAt(f[i]) < PayloadAt(f[j])
          /\ \/ PayloadAt(f[j]) - PayloadAt(f[i]) = SeqAt(f[j]) - SeqAt(f[i])
             \/ PayloadAt(f[j]) - PayloadAt(f[i]) >= SeqAt(f[j]) - SeqAt(f[i]) + Round
      BY <2>1 DEF LossInv, PlacesInv
    <2>4. CASE j # NextPlace' BY <1>7, <1>9, <2>2, <2>3, <2>4
    <2>5. CASE j = NextPlace'
      <3>1. /\ f[j] = NextPlace /\ SeqAt(j)' = peer_seq' /\ PayloadAt(j)' = p + 1
            /\ SeqAt(i)' = SeqAt(f[i]) /\ PayloadAt(i)' = PayloadAt(f[i])
        BY <1>7, <1>9, <2>2, <2>5
      <3>2. SeqAt(f[i]) \in Nat /\ PayloadAt(f[i]) \in Nat BY <1>1, <2>1
      <3>3. /\ PayloadAt(f[i]) < p
            /\ \/ p - PayloadAt(f[i]) = s - SeqAt(f[i])
               \/ p - PayloadAt(f[i]) >= s - SeqAt(f[i]) + Round
        BY <1>1, <2>3, <3>1
      <3>4. /\ PayloadAt(f[i]) < p + 1
            /\ \/ p + 1 - PayloadAt(f[i]) = peer_seq' - SeqAt(f[i])
               \/ p + 1 - PayloadAt(f[i]) >= peer_seq' - SeqAt(f[i]) + Round
        BY <1>1, <1>3, <1>4, <3>2, <3>3
      <3>5. peer_seq' \in Nat BY <1>1, <1>4
      <3> QED BY <1>1, <2>2, <3>1, <3>2, <3>4, <3>5
    <2> QED BY <2>4, <2>5
  <1>10. ASSUME NEW i \in Places', NEW j \in Places', Adjacent(i, j)'
        PROVE  /\ PayloadAt(j)' - PayloadAt(i)' <= MaxLostRun + 1
               /\ PayloadAt(j)' - PayloadAt(i)' \in
                    {SeqAt(j)' - SeqAt(i)', SeqAt(j)' - SeqAt(i)' + Round}
               /\ j = NextPlace' => PayloadAt(j)' - PayloadAt(i)' = lost_run' + 1
    <2>1. i < j /\ Known(i)' /\ Known(j)' BY <1>10 DEF Adjacent
    <2>2. i # NextPlace' /\ f[i] \in Places /\ f[j] \in Places
      BY <1>7, <1>9, <1>10, <2>1
    <2>3. /\ PayloadAt(f[j]) - PayloadAt(f[i]) <= MaxLostRun + 1
          /\ PayloadAt(f[j]) - PayloadAt(f[i]) \in
               {SeqAt(f[j]) - SeqAt(f[i]), SeqAt(f[j]) - SeqAt(f[i]) + Round}
          /\ f[j] = NextPlace => PayloadAt(f[j]) - PayloadAt(f[i]) = lost_run + 1
      BY <1>10, <2>2 DEF LossInv, PlacesInv, Moved
    <2>4. CASE j # NextPlace' BY <1>7, <1>10, <2>1, <2>2, <2>3, <2>4
    <2>5. CASE j = NextPlace'
      <3>1. /\ f[j] = NextPlace /\ SeqAt(j)' = peer_seq' /\ PayloadAt(j)' = p + 1
            /\ SeqAt(i)' = SeqAt(f[i]) /\ PayloadAt(i)' = PayloadAt(f[i])
        BY <1>7, <1>10, <2>1, <2>2, <2>5
      <3>2. SeqAt(f[i]) \in Nat /\ PayloadAt(f[i]) \in Nat /\ SeqAt(f[i]) < Round
        BY <1>1, <1>7, <1>10, <2>1, <2>2 DEF LossInv, PlacesInv
      <3>3. p - PayloadAt(f[i]) = lost_run + 1
        BY <1>1, <2>3, <3>1
      <3>4. p - PayloadAt(f[i]) \in {s - SeqAt(f[i]), s - SeqAt(f[i]) + Round}
        BY <1>1, <2>3, <3>1
      <3> QED BY <1>1, <1>3, <1>4, <1>5, <3>1, <3>2, <3>3, <3>4
    <2> QED BY <2>4, <2>5
  <1>11. PlacesInv' BY <1>6, <1>8, <1>9, <1>10 DEF PlacesInv
  <1>12. CountInv' BY <1>6, <1>8 DEF LossInv, CountInv
  <1> QED BY <1>11, <1>12 DEF LossInv

\* An event that carries no payload joins the queue.
LEMMA AppendMoves ==
  ASSUME TypeOK, NEW event, ~CarriesPayload(event),
         events' = Append(events, event),
         UNCHANGED <<rxSeqVars, history>>
  PROVE  \E f : Moved(f)
  <1>1. PICK n \in Nat :
          /\ n = Len(events) /\ Len(events') = n + 1 /\ events'[n + 1] = event
          /\ \A i \in 1 .. n : events'[i] = events[i]
    <2>1. events \in Seq(Events) /\ Len(events) \in Nat BY DEF TypeOK
    <2>2. /\ Len(events') = Len(events) + 1 /\ events'[Len(events) + 1] = event
          /\ \A i \in 1 .. Len(events) : events'[i] = events[i]
      BY <2>1
    <2> QED BY <2>1, <2>2
  <1> DEFINE f == [i \in 0 .. n + 2 |-> IF i = n + 2 THEN n + 1 ELSE i]
  <1>2. Places = 0 .. n + 1 /\ NextPlace = n + 1 BY <1>1, PlaceTypes
  <1>3. Places' = 0 .. n + 2 /\ NextPlace' = n + 2 BY <1>1 DEF Places, NextPlace
  <1>4. ASSUME NEW i \in 0 .. n
        PROVE  /\ Known(i)' = Known(i)
               /\ SeqAt(i)' = SeqAt(i) /\ PayloadAt(i)' = PayloadAt(i)
    BY <1>1, <1>2, <1>3, <1>4
    DEF Known, SeqAt, PayloadAt, rxSeqVars, history, CarriesPayload
  <1>5. Known(n + 1) /\ ~Known(n + 1)'
    <2>1. n + 1 # 0 /\ n + 2 # 0 /\ n + 1 # n + 2 BY <1>1
    <2>2. ~CarriesPayload(events'[n + 1]) BY <1>1
    <2>3. Known(n + 1) BY <1>2, <2>1 DEF Known
    <2>4. ~Known(n + 1)' BY <1>3, <2>1, <2>2 DEF Known, CarriesPayload
    <2> QED BY <2>3, <2>4
  <1>6. \A i \in 0 .. n : f[i] = i BY <1>1
  <1>7. f[n + 2] = n + 1 BY <1>1
  <1> HIDE DEF f
  <1>8. \A i \in 0 .. n + 2 : Known(i)' => i \in 0 .. n \/ i = n + 2
    <2>1. \A i \in 0 .. n + 2 : i \in 0 .. n \/ i = n + 1 \/ i = n + 2 BY <1>1
    <2> QED BY <1>5, <2>1
  <1>9. \A i \in Places' : Known(i)' =>
           /\ f[i] \in Places /\ Known(f[i])
           /\ i = NextPlace' <=> f[i] = NextPlace
           /\ i # NextPlace' => SeqAt(i)' = SeqAt(f[i]) /\ PayloadAt(i)' = PayloadAt(f[i])
    <2> SUFFICES ASSUME NEW i \in Places', Known(i)'
                 PROVE  /\ f[i] \in Places /\ Known(f[i])
                        /\ i = NextPlace' <=> f[i] = NextPlace
                        /\ i # NextPlace' => /\ SeqAt(i)' = SeqAt(f[i])
                                             /\ PayloadAt(i)' = PayloadAt(f[i])
      OBVIOUS
    <2>1. CASE i \in 0 .. n BY <1>1, <1>2, <1>3, <1>4, <1>6, <2>1
    <2>2. CASE i = n + 2 BY <1>1, <1>2, <1>3, <1>5, <1>7, <2>2
    <2> QED BY <1>3, <1>8, <2>1, <2>2
  <1>10. \A i, j \in Places' : i < j /\ Known(i)' /\ Known(j)' => f[i] < f[j]
    BY <1>1, <1>3, <1>6, <1>7, <1>8
  <1>11. ASSUME NEW i \in Places', NEW j \in Places', Adjacent(i, j)'
         PROVE  Adjacent(f[i], f[j])
    <2>1. i < j /\ Known(i)' /\ Known(j)' /\ \A k \in i + 1 .. j - 1 : ~Known(k)'
      BY <1>11 DEF Adjacent
    <2>2. /\ Known(f[i]) /\ Known(f[j]) /\ f[i] < f[j]
          /\ i \in 0 .. n /\ f[i] = i
      BY <1>1, <1>3, <1>6, <1>8, <1>9, <1>10, <1>11, <2>1
    <2>3. \A k \in i + 1 .. f[j] - 1 : k \in i + 1 .. j - 1 /\ k \in 0 .. n
      <3>1. f[j] <= j /\ f[j] <= n + 1 /\ f[j] \in Int /\ j \in Int
        BY <1>1, <1>3, <1>6, <1>7, <1>8, <1>11, <2>1
      <3> QED BY <1>1, <2>2, <3>1
    <2> QED BY <1>4, <2>1, <2>2, <2>3 DEF Adjacent
  <1>12. Moved(f) BY <1>9, <1>10, <1>11 DEF Moved
  <1> QED BY <1>12

\* An event without a payload leaves the queue; the session may forget the last
\* payload at the same time.
LEMMA DequeueMoves ==
  ASSUME TypeOK, events # << >>, ~CarriesPayload(Head(events)),
         events' = Tail(events), have_last_rx_seq' => have_last_rx_seq,
         UNCHANGED <<last_rx_seq, history>>
  PROVE  \E f : Moved(f)
  <1> DEFINE n == Len(events)
             f == [i \in 0 .. n |-> IF i = 0 THEN 0 ELSE i + 1]
  <1>1. n \in Nat /\ n > 0 /\ Len(events') = n - 1 /\ ~CarriesPayload(events[1])
        /\ \A i \in 1 .. n - 1 : events'[i] = events[i + 1]
    BY DEF TypeOK
  <1>2. Places = 0 .. n + 1 /\ NextPlace = n + 1 BY PlaceTypes
  <1>3. Places' = 0 .. n /\ NextPlace' = n BY <1>1 DEF Places, NextPlace
  <1> HIDE DEF n
  <1>4. ASSUME NEW i \in 1 .. n
        PROVE  /\ Known(i)' = Known(i + 1)
               /\ i # n => SeqAt(i)' = SeqAt(i + 1) /\ PayloadAt(i)' = PayloadAt(i + 1)
    <2>1. CASE i = n
      BY <1>1, <1>2, <1>3, <2>1 DEF Known
    <2>2. CASE i # n
      <3>1. i \in 1 .. n - 1 /\ i + 1 # 0 /\ i + 1 # n + 1 /\ i # 0 BY <1>1, <1>4, <2>2
      <3> QED
        BY <1>1, <1>2, <1>3, <2>2, <3>1 DEF Known, SeqAt, PayloadAt, CarriesPayload
    <2> QED BY <2>1, <2>2
  <1>5. /\ Known(0)' => Known(0)
        /\ SeqAt(0)' = SeqAt(0) /\ PayloadAt(0)' = PayloadAt(0)
    BY DEF Known, SeqAt, PayloadAt, history
  <1>6. ~Known(1) BY <1>1, <1>2 DEF Known
  <1>7. f[0] = 0 /\ \A i \in 1 .. n : f[i] = i + 1 BY <1>1
  <1> HIDE DEF f
  <1>8. \A i \in 0 .. n : i = 0 \/ i \in 1 .. n BY <1>1
  <1>9. \A i \in Places' : Known(i)' =>
           /\ f[i] \in Places /\ Known(f[i])
           /\ i = NextPlace' <=> f[i] = NextPlace
           /\ i # NextPlace' => SeqAt(i)' = SeqAt(f[i]) /\ PayloadAt(i)' = PayloadAt(f[i])
    BY <1>1, <1>2, <1>3, <1>4, <1>5, <1>7, <1>8
  <1>10. \A i, j \in Places' : i < j => f[i] < f[j]
    BY <1>1, <1>3, <1>7, <1>8
  <1>11. ASSUME NEW i \in Places', NEW j \in Places', Adjacent(i, j)'
         PROVE  Adjacent(f[i], f[j])
    <2>1. i < j /\ Known(i)' /\ Known(j)' /\ \A k \in i + 1 .. j - 1 : ~Known(k)'
      BY <1>11 DEF Adjacent
    <2>2. Known(f[i]) /\ Known(f[j]) /\ f[i] < f[j] /\ f[j] = j + 1 /\ j \in 1 .. n
      BY <1>1, <1>3, <1>7, <1>8, <1>9, <1>10, <1>11, <2>1
    <2>3. ASSUME NEW k \in f[i] + 1 .. f[j] - 1
          PROVE  ~Known(k)
      <3>1. f[i] \in Nat /\ f[i] >= i BY <1>3, <1>7, <1>8, <1>11
      <3>2. CASE k = 1 BY <1>6, <3>2
      <3>3. CASE k # 1
        <4>1. k - 1 \in i + 1 .. j - 1 /\ k - 1 \in 1 .. n
          <5>1. i \in 0 .. n /\ (i = 0 => f[i] = 0) /\ (i # 0 => f[i] = i + 1)
            BY <1>3, <1>7, <1>8, <1>11
          <5> QED BY <1>1, <2>2, <2>3, <3>3, <5>1
        <4>2. (k - 1) + 1 = k BY <2>2, <2>3, <3>1
        <4>3. Known(k - 1)' = Known(k) BY <1>4, <4>1, <4>2
        <4> QED BY <2>1, <4>1, <4>3
      <3> QED BY <3>2, <3>3
    <2> QED BY <2>2, <2>3 DEF Adjacent
  <1>12. Moved(f) BY <1>9, <1>10, <1>11 DEF Moved
  <1> QED BY <1>12

\* Nothing is left but the peer's next payload.
LEMMA ForgetMoves ==
  ASSUME TypeOK, events' = << >>, ~have_last_rx_seq'
  PROVE  \E f : Moved(f)
  <1> DEFINE f == [i \in 0 .. 1 |-> Len(events) + 1]
  <1>1. Len(events) \in Nat BY DEF TypeOK
  <1>2. PICK n \in Nat : n = Len(events) + 1 /\ n = NextPlace /\ n \in Places /\ Known(n)
    BY <1>1, PlaceTypes
  <1>3. Places' = 0 .. 1 /\ NextPlace' = 1 BY DEF Places, NextPlace
  <1>4. ~Known(0)' BY DEF Known
  <1>5. \A i \in Places' : Known(i)' => i = 1 /\ f[i] = n BY <1>2, <1>3, <1>4
  <1> HIDE DEF f
  <1>6. Moved(f) BY <1>2, <1>3, <1>5 DEF Moved, Adjacent
  <1> QED BY <1>6

\* Nothing moves.
LEMMA StayMoves ==
  ASSUME TypeOK, UNCHANGED <<events, rxSeqVars, history>>
  PROVE  \E f : Moved(f)
  <1> DEFINE f == [i \in Places |-> i]
  <1>1. Places' = Places /\ NextPlace' = NextPlace BY DEF Places, NextPlace
  <1>2. \A i \in Places :
          /\ Known(i)' = Known(i)
          /\ i # NextPlace => SeqAt(i)' = SeqAt(i) /\ PayloadAt(i)' = PayloadAt(i)
    BY <1>1 DEF Known, SeqAt, PayloadAt, rxSeqVars, history
  <1>3. \A i \in Places : f[i] = i OBVIOUS
  <1> HIDE DEF f
  <1>4. \A i, j \in Places : Adjacent(i, j)' => Adjacent(i, j)
    <2> SUFFICES ASSUME NEW i \in Places, NEW j \in Places, Adjacent(i, j)'
                 PROVE  Adjacent(i, j)
      OBVIOUS
    <2>1. i \in Nat /\ j \in Nat /\ i <= Len(events) + 1 /\ j <= Len(events) + 1
          /\ Len(events) \in Nat /\ Places = 0 .. Len(events) + 1
      BY PlaceTypes
    <2>2. \A k \in i + 1 .. j - 1 : k \in Places BY <2>1
    <2> QED BY <1>2, <2>2 DEF Adjacent
  <1>5. Moved(f) BY <1>1, <1>2, <1>3, <1>4 DEF Moved
  <1> QED BY <1>5

\* The number and the place that follow those of a payload keep the number in its
\* round, and come no closer to the bound on the excess.
LEMMA NextApart ==
  ASSUME NEW s \in Nat, NEW p \in Nat, NEW s1 \in Nat, NEW p1 \in Nat,
         Round \in Nat, Round > 1, s < Round, p1 = p + 1,
         s1 = IF s + 1 = Round THEN 0 ELSE s + 1
  PROVE  /\ s1 < Round
         /\ \A e \in Int : e + s < p => e + s1 < p1
  <1>1. PICK r \in Nat : r = Round OBVIOUS
  <1> QED BY <1>1

\* And as far apart from it as the numbers say, or at least a round more.
LEMMA NextFurther ==
  ASSUME NEW s \in Nat, NEW p \in Nat, NEW s1 \in Nat, NEW p1 \in Nat,
         Round \in Nat, Round > 1, s < Round, p1 = p + 1,
         s1 = IF s + 1 = Round THEN 0 ELSE s + 1,
         NEW a \in Nat, NEW b \in Nat,
         b < p, p - b = s - a \/ p - b >= s - a + Round
  PROVE  b < p1 /\ (p1 - b = s1 - a \/ p1 - b >= s1 - a + Round)
  <1>1. PICK r \in Nat : r = Round OBVIOUS
  <1> QED BY <1>1

\* A payload arrives and is queued: it takes the place of the next one.
LEMMA KeptLoss ==
  ASSUME MaxLostRun + 1 < HALF, TypeOK, TypeOK', LossInv,
         NEW event, CarriesPayload(event),
         event.packet.seq = peer_seq, event.packet.payload = peer_count + 1,
         events' = Append(events, event),
         peer_count' = peer_count + 1,
         peer_seq' = prop_session_next_payload_seq(peer_seq),
         lost_run' = 0,
         UNCHANGED <<rxSeqVars, history>>
  PROVE  LossInv'
  <1>1. PICK n \in Nat :
          /\ n = Len(events) /\ Len(events') = n + 1 /\ events'[n + 1] = event
          /\ \A i \in 1 .. n : events'[i] = events[i]
    <2>1. events \in Seq(Events) /\ Len(events) \in Nat BY DEF TypeOK
    <2>2. /\ Len(events') = Len(events) + 1 /\ events'[Len(events) + 1] = event
          /\ \A i \in 1 .. Len(events) : events'[i] = events[i]
      BY <2>1
    <2> QED BY <2>1, <2>2
  <1>2. PICK s \in Nat, p \in Nat : s = peer_seq /\ p = peer_count + 1 BY PlaceTypes
  <1>3. PICK s1 \in Nat, p1 \in Nat : s1 = peer_seq' /\ p1 = peer_count' + 1 /\ p1 = p + 1
    <2>1. peer_seq' \in Nat /\ peer_count' \in Nat
      BY SessionAssumption DEF TypeOK, SeqNumbers
    <2> QED BY <1>2, <2>1
  <1>4. Places = 0 .. n + 1 /\ NextPlace = n + 1 BY <1>1, PlaceTypes
  <1>5. Places' = 0 .. n + 2 /\ NextPlace' = n + 2 BY <1>1 DEF Places, NextPlace
  <1>6. /\ Known(n + 1) /\ SeqAt(n + 1) = s /\ PayloadAt(n + 1) = p
        /\ \A i \in 0 .. n + 1 : SeqAt(i) \in Nat /\ PayloadAt(i) \in Nat
        /\ Round \in Nat /\ Round > 1 /\ Excess * Round \in Int
        /\ Excess' = Excess /\ Round' = Round
    BY <1>2, <1>4, PlaceTypes DEF rxSeqVars, history, Excess, Round
  <1>7. /\ Known(n + 2)' /\ SeqAt(n + 2)' = s1 /\ PayloadAt(n + 2)' = p1
    <2>1. n + 2 # 0 BY <1>1
    <2> QED BY <1>3, <1>5, <2>1 DEF Known, SeqAt, PayloadAt
  <1>8. Known(n + 1)' /\ SeqAt(n + 1)' = s /\ PayloadAt(n + 1)' = p
    <2>1. n + 1 # 0 /\ n + 1 # n + 2 BY <1>1
    <2> QED BY <1>1, <1>2, <1>5, <2>1 DEF Known, SeqAt, PayloadAt, CarriesPayload
  <1>9. ASSUME NEW i \in 0 .. n + 1
        PROVE  /\ Known(i)' <=> Known(i)
               /\ SeqAt(i)' = SeqAt(i) /\ PayloadAt(i)' = PayloadAt(i)
    <2>1. CASE i = n + 1 BY <1>6, <1>8, <2>1
    <2>2. CASE i \in 0 .. n
      BY <1>1, <1>4, <1>5, <2>2
      DEF Known, SeqAt, PayloadAt, rxSeqVars, history, CarriesPayload
    <2>3. i = n + 1 \/ i \in 0 .. n BY <1>1
    <2> QED BY <2>1, <2>2, <2>3
  <1>10. s < Round /\ Excess * Round + s < p
    BY <1>4, <1>6 DEF LossInv, PlacesInv, CountInv
  <1>11. s1 = IF s + 1 = Round THEN 0 ELSE s + 1
    BY <1>2, <1>3, <1>10, NextInRound
  <1>12. \A i \in 0 .. n + 2 : i \in 0 .. n + 1 \/ i = n + 2 BY <1>1
  <1>13. ASSUME NEW i \in 0 .. n + 2, Known(i)'
         PROVE  SeqAt(i)' < Round /\ Excess * Round + SeqAt(i)' < PayloadAt(i)'
    <2>1. CASE i = n + 2
      <3>1. Round \in Nat /\ Round > 1 /\ s < Round /\ p1 = p + 1 BY <1>3, <1>6, <1>10
      <3>2. s1 < Round /\ \A e \in Int : e + s < p => e + s1 < p1
        BY <1>11, <3>1, NextApart
      <3>3. PICK e \in Int : e = Excess * Round BY <1>6
      <3>4. e + s < p BY <1>10, <3>3
      <3>5. s1 < Round /\ Excess * Round + s1 < p1 BY <3>2, <3>3, <3>4
      <3> QED BY <1>7, <2>1, <3>5
    <2>2. CASE i \in 0 .. n + 1
      BY <1>4, <1>9, <1>13, <2>2 DEF LossInv, PlacesInv, CountInv
    <2> QED BY <1>12, <2>1, <2>2
  <1>14. ASSUME NEW i \in 0 .. n + 2, NEW j \in 0 .. n + 2, i < j, Known(i)', Known(j)'
         PROVE  /\ PayloadAt(i)' < PayloadAt(j)'
                /\ \/ PayloadAt(j)' - PayloadAt(i)' = SeqAt(j)' - SeqAt(i)'
                   \/ PayloadAt(j)' - PayloadAt(i)' >= SeqAt(j)' - SeqAt(i)' + Round
    <2>1. i \in 0 .. n + 1 BY <1>1, <1>14
    <2>2. CASE j \in 0 .. n + 1
      BY <1>4, <1>9, <1>14, <2>1, <2>2 DEF LossInv, PlacesInv
    <2>3. CASE j = n + 2 /\ i = n + 1
      <3>1. p < p1 /\ (p1 - p = s1 - s \/ p1 - p >= s1 - s + Round)
        BY <1>3, <1>6, <1>11
      <3> QED BY <1>7, <1>8, <2>3, <3>1
    <2>4. CASE j = n + 2 /\ i # n + 1
      <3>1. PICK a \in Nat, b \in Nat :
              /\ a = SeqAt(i) /\ b = PayloadAt(i) /\ a = SeqAt(i)' /\ b = PayloadAt(i)'
        BY <1>6, <1>9, <2>1
      <3>2. b < p /\ (p - b = s - a \/ p - b >= s - a + Round)
        <4>1. i < n + 1 /\ n + 1 \in 0 .. n + 1 BY <1>1, <2>1, <2>4
        <4> QED BY <1>4, <1>6, <1>9, <1>14, <2>1, <3>1, <4>1 DEF LossInv, PlacesInv
      <3>3. b < p1 /\ (p1 - b = s1 - a \/ p1 - b >= s1 - a + Round)
        <4>1. /\ Round \in Nat /\ Round > 1 /\ s < Round /\ p1 = p + 1
              /\ s1 = IF s + 1 = Round THEN 0 ELSE s + 1
          BY <1>3, <1>6, <1>10, <1>11
        <4> QED BY <3>2, <4>1, NextFurther
      <3> QED BY <1>7, <2>4, <3>1, <3>3
    <2> QED BY <1>12, <2>2, <2>3, <2>4
  <1>15. ASSUME NEW i \in 0 .. n + 2, NEW j \in 0 .. n + 2, Adjacent(i, j)'
         PROVE  /\ PayloadAt(j)' - PayloadAt(i)' <= MaxLostRun + 1
                /\ PayloadAt(j)' - PayloadAt(i)' \in
                     {SeqAt(j)' - SeqAt(i)', SeqAt(j)' - SeqAt(i)' + Round}
                /\ j = n + 2 => PayloadAt(j)' - PayloadAt(i)' = lost_run' + 1
    <2>1. i < j /\ Known(i)' /\ Known(j)' /\ \A k \in i + 1 .. j - 1 : ~Known(k)'
      BY <1>15 DEF Adjacent
    <2>2. i \in 0 .. n + 1 BY <1>1, <1>15, <2>1
    <2>3. CASE j \in 0 .. n + 1
      <3>1. \A k \in i + 1 .. j - 1 : k \in 0 .. n + 1 BY <1>1, <2>2, <2>3
      <3>2. Adjacent(i, j) BY <1>9, <2>1, <2>2, <2>3, <3>1 DEF Adjacent
      <3>3. j # n + 2 BY <1>1, <2>3
      <3> QED BY <1>4, <1>9, <2>2, <2>3, <3>2, <3>3 DEF LossInv, PlacesInv
    <2>4. CASE j = n + 2
      <3>1. i = n + 1
        <4>1. n + 1 \in i + 1 .. j - 1 \/ i = n + 1 BY <1>1, <2>2, <2>4
        <4> QED BY <1>8, <2>1, <4>1
      <3>2. MaxLostRun \in Nat BY SessionAssumption
      <3>3. /\ p1 - p <= MaxLostRun + 1 /\ p1 - p \in {s1 - s, s1 - s + Round}
            /\ p1 - p = lost_run' + 1
        <4>1. p1 - p = 1 BY <1>3
        <4>2. s1 - s = 1 \/ s1 - s + Round = 1
          <5>1. CASE s + 1 = Round BY <1>6, <1>11, <5>1
          <5>2. CASE s + 1 # Round BY <1>11, <5>2
          <5> QED BY <5>1, <5>2
        <4>3. lost_run' = 0 OBVIOUS
        <4>4. p1 - p <= MaxLostRun + 1 /\ p1 - p = lost_run' + 1 BY <3>2, <4>1, <4>3
        <4> HIDE DEF Round
        <4> QED BY <4>1, <4>2, <4>4
      <3> QED BY <1>7, <1>8, <2>4, <3>1, <3>3
    <2> QED BY <1>12, <2>3, <2>4
  <1>16. PlacesInv' BY <1>5, <1>6, <1>13, <1>14, <1>15 DEF PlacesInv
  <1>17. CountInv' BY <1>5, <1>6, <1>13 DEF LossInv, CountInv, rxSeqVars, history
  <1> QED BY <1>16, <1>17 DEF LossInv

\* A peer that restarts is known by no payload but the one it sends next.
LEMMA RestartLoss ==
  ASSUME TypeOK, TypeOK', LossInv, events = << >>, ~have_last_rx_seq, peer_seq' = 0,
         UNCHANGED <<rxSeqVars, history, events, peer_count>>
  PROVE  LossInv'
  <1>1. NextPlace = 1 /\ Places = 0 .. 1 /\ NextPlace' = 1 /\ Places' = 0 .. 1
    BY DEF NextPlace, Places
  <1>2. ~Known(0)' BY DEF Known, rxSeqVars
  <1>3. /\ SeqAt(1)' = 0 /\ PayloadAt(1)' = PayloadAt(1)
        /\ Known(1) /\ SeqAt(1) \in Nat /\ PayloadAt(1) \in Nat
        /\ Round \in Nat /\ Round > 1 /\ Excess * Round \in Int
        /\ Excess' = Excess /\ Round' = Round
    BY <1>1, PlaceTypes DEF SeqAt, PayloadAt, Excess, Round, rxSeqVars, history
  <1>4. \A i \in Places' : Known(i)' => i = 1 BY <1>1, <1>2
  <1>5. PlacesInv' BY <1>3, <1>4 DEF PlacesInv, Adjacent
  <1>6. Excess * Round + SeqAt(1) < PayloadAt(1) BY <1>1, <1>3 DEF LossInv, CountInv
  <1>7. Excess * Round + 0 < PayloadAt(1) BY <1>3, <1>6
  <1>8. CountInv' BY <1>3, <1>4, <1>7 DEF LossInv, CountInv, rxSeqVars, history
  <1> QED BY <1>5, <1>8 DEF LossInv

\* The payload at the head of the queue becomes the last one accounted for.
LEMMA ReceivedMoves ==
  ASSUME TypeOK, events # << >>, CarriesPayload(Head(events)), events' = Tail(events),
         have_last_rx_seq', last_rx_seq' = Head(events).packet.seq,
         last_payload' = Head(events).packet.payload,
         NEW n, n = Len(events), NEW f, f = [i \in 0 .. n |-> i + 1]
  PROVE  Moved(f) /\ Places' = 0 .. n
  <1>1. n \in Nat /\ n > 0 /\ Len(events') = n - 1 /\ Head(events) = events[1]
        /\ \A i \in 1 .. n - 1 : events'[i] = events[i + 1]
    BY DEF TypeOK
  <1>2. Places = 0 .. n + 1 /\ NextPlace = n + 1 BY PlaceTypes
  <1>3. Places' = 0 .. n /\ NextPlace' = n BY <1>1 DEF Places, NextPlace
  <1>4. \A i \in 0 .. n : f[i] = i + 1 BY <1>1
  <1>5. /\ Known(0)' /\ Known(1) /\ 1 \in Places /\ 1 # NextPlace
        /\ SeqAt(0)' = SeqAt(1) /\ PayloadAt(0)' = PayloadAt(1)
    BY <1>1, <1>2 DEF Known, SeqAt, PayloadAt
  <1>6. ASSUME NEW i \in 1 .. n
        PROVE  /\ Known(i)' <=> Known(i + 1)
               /\ i # n => SeqAt(i)' = SeqAt(i + 1) /\ PayloadAt(i)' = PayloadAt(i + 1)
    <2>1. CASE i = n
      <3>1. n # 0 /\ n + 1 # 0 BY <1>1
      <3> QED BY <1>2, <1>3, <2>1, <3>1 DEF Known
    <2>2. CASE i # n
      <3>1. i \in 1 .. n - 1 /\ i + 1 # 0 /\ i + 1 # n + 1 /\ i # 0 BY <1>1, <1>6, <2>2
      <3> QED
        BY <1>1, <1>2, <1>3, <2>2, <3>1 DEF Known, SeqAt, PayloadAt, CarriesPayload
    <2> QED BY <2>1, <2>2
  <1>7. \A i \in 0 .. n : i = 0 \/ i \in 1 .. n BY <1>1
  <1>8. \A i \in 0 .. n : Known(i)' <=> Known(i + 1)
    <2> SUFFICES ASSUME NEW i \in 0 .. n PROVE Known(i)' <=> Known(i + 1) OBVIOUS
    <2>1. CASE i = 0
      <3>1. i + 1 = 1 BY <2>1
      <3> QED BY <1>5, <2>1, <3>1
    <2>2. CASE i \in 1 .. n BY <1>6, <2>2
    <2> QED BY <1>7, <2>1, <2>2
  <1>9. ASSUME NEW i \in Places', Known(i)'
        PROVE  /\ f[i] \in Places /\ Known(f[i])
               /\ i = NextPlace' <=> f[i] = NextPlace
               /\ i # NextPlace' => SeqAt(i)' = SeqAt(f[i]) /\ PayloadAt(i)' = PayloadAt(f[i])
    <2>1. f[i] = i + 1 /\ i + 1 \in Places /\ (i = n <=> i + 1 = n + 1)
      BY <1>1, <1>2, <1>3, <1>4
    <2>2. i # n => SeqAt(i)' = SeqAt(i + 1) /\ PayloadAt(i)' = PayloadAt(i + 1)
      <3>1. CASE i = 0
        <4>1. i + 1 = 1 BY <3>1
        <4> QED BY <1>5, <3>1, <4>1
      <3>2. CASE i \in 1 .. n BY <1>6, <3>2
      <3> QED BY <1>3, <1>7, <3>1, <3>2
    <2> QED BY <1>2, <1>3, <1>8, <1>9, <2>1, <2>2
  <1>10. \A i, j \in Places' : i < j => f[i] < f[j] BY <1>1, <1>3, <1>4
  <1>11. ASSUME NEW i \in Places', NEW j \in Places', Adjacent(i, j)'
         PROVE  Adjacent(f[i], f[j])
    <2>1. i < j /\ Known(i)' /\ Known(j)' /\ \A k \in i + 1 .. j - 1 : ~Known(k)'
      BY <1>11 DEF Adjacent
    <2>2. Known(f[i]) /\ Known(f[j]) /\ f[i] < f[j] /\ f[i] = i + 1 /\ f[j] = j + 1
      BY <1>3, <1>4, <1>9, <1>10, <1>11, <2>1
    <2>3. ASSUME NEW k \in f[i] + 1 .. f[j] - 1
          PROVE  ~Known(k)
      <3>1. k - 1 \in i + 1 .. j - 1 /\ k - 1 \in 0 .. n /\ (k - 1) + 1 = k
        BY <1>1, <1>3, <2>2, <2>3
      <3> QED BY <1>8, <2>1, <3>1
    <2> QED BY <2>2, <2>3 DEF Adjacent
  <1> QED BY <1>3, <1>9, <1>10, <1>11 DEF Moved

\* A received payload is counted once, with the losses before it: a gap counts
\* one too many only if it completes a round of numbers.
LEMMA ReceivedLoss ==
  ASSUME MaxLostRun + 1 < HALF, TypeOK, TypeOK', LossInv, events # << >>,
         CarriesPayload(Head(events)), events' = Tail(events),
         prop_session_record_in_service_rx(Head(events).packet),
         UNCHANGED peerVars
  PROVE  LossInv'
  <1>1. PICK n \in Nat :
          n = Len(events) /\ n > 0 /\ Head(events) = events[1] /\ Places = 0 .. n + 1
          /\ NextPlace = n + 1
    <2>1. events \in Seq(Events) BY DEF TypeOK
    <2>2. Len(events) \in Nat /\ Len(events) > 0 /\ Head(events) = events[1] BY <2>1
    <2> QED BY <2>2, PlaceTypes
  <1>2. PICK f : f = [i \in 0 .. n |-> i + 1] OBVIOUS
  <1>3. Moved(f) /\ Places' = 0 .. n
    BY <1>1, <1>2, ReceivedMoves DEF prop_session_record_in_service_rx
  <1>4. \A i \in 0 .. n : f[i] = i + 1 BY <1>2
  <1>5. PlacesInv' /\ \A i \in 0 .. n : Known(i)' =>
           /\ i + 1 \in Places /\ Known(i + 1)
           /\ SeqAt(i)' = SeqAt(i + 1) /\ PayloadAt(i)' = PayloadAt(i + 1)
    BY <1>3, <1>4, MovedPlaces DEF LossInv
  <1>6. PICK s \in Nat, t \in Nat, p \in Nat, q \in Nat :
          /\ s = last_rx_seq /\ p = last_payload
          /\ t = Head(events).packet.seq /\ q = Head(events).packet.payload
          /\ SeqAt(0) = s /\ PayloadAt(0) = p /\ SeqAt(1) = t /\ PayloadAt(1) = q
    <2>1. 0 \in Places /\ 1 \in Places /\ 1 # NextPlace BY <1>1
    <2>2. /\ SeqAt(0) = last_rx_seq /\ PayloadAt(0) = last_payload
          /\ SeqAt(1) = Head(events).packet.seq /\ PayloadAt(1) = Head(events).packet.payload
      BY <1>1, <2>1 DEF SeqAt, PayloadAt
    <2> QED BY <2>1, <2>2, PlaceTypes
  <1>7. Known(1) /\ (have_last_rx_seq <=> Known(0))
    BY <1>1 DEF Known
  <1>8. /\ Round \in Nat /\ Round > 1 /\ Excess \in Int /\ stats.lost \in Nat
        /\ truly_lost \in Int /\ Excess = stats.lost - truly_lost /\ Round' = Round
        /\ \A i \in Places : SeqAt(i) \in Nat /\ PayloadAt(i) \in Nat
    <2>1. stats.lost \in Nat /\ truly_lost \in Int BY DEF TypeOK, StatFields
    <2> QED BY <2>1, PlaceTypes DEF Excess, Round
  <1>9. CASE ~have_last_rx_seq
    <2>1. stats' = stats /\ truly_lost' = truly_lost
      BY <1>9 DEF prop_session_record_in_service_rx
    <2>2. CountInv' BY <1>3, <1>5, <2>1 DEF LossInv, CountInv, Excess, Round
    <2> QED BY <1>5, <2>2 DEF LossInv
  <1>10. CASE have_last_rx_seq
    <2> DEFINE gap == prop_session_seq_gap_from_expected(
                        prop_session_next_payload_seq(s), t)
    <2>1. /\ stats' = IF gap > 0 THEN prop_session_record_loss_burst(stats, gap) ELSE stats
          /\ truly_lost' = truly_lost + q - p - 1
      BY <1>6, <1>10 DEF prop_session_record_in_service_rx
    <2>2. Adjacent(0, 1) BY <1>7, <1>10 DEF Adjacent
    <2>3. /\ s < Round /\ t < Round /\ p < q
          /\ q - p <= MaxLostRun + 1 /\ q - p \in {t - s, t - s + Round}
      BY <1>1, <1>6, <1>7, <1>10, <2>2 DEF LossInv, PlacesInv
    <2>4. PICK d \in 1 .. MaxLostRun + 1 : d = q - p
      <3>1. MaxLostRun \in Nat BY SessionAssumption
      <3>2. q - p \in 1 .. MaxLostRun + 1 BY <2>3, <3>1
      <3> QED BY <3>2
    <2>5. gap \in {d - 1, d} /\ (gap = d => d = t - s + Round)
      BY <2>3, <2>4, GapCounts
    <2> HIDE DEF gap
    <2>6. gap \in Nat /\ stats'.lost = stats.lost + gap
      <3>1. MaxLostRun \in Nat BY SessionAssumption
      <3>2. gap \in Nat BY <2>5, <3>1
      <3>3. CASE gap > 0
        <4>1. stats' = [stats EXCEPT !["lost"] = @ + gap, ![BurstOf(gap)] = @ + 1,
                          !["max_burst"] = IF gap > @ THEN gap ELSE @]
          BY <2>1, <3>3 DEF prop_session_record_loss_burst
        <4>2. BurstOf(gap) # "lost" BY DEF BurstOf
        <4>3. stats \in [StatFields -> Nat] /\ "lost" \in StatFields
          BY DEF TypeOK, StatFields
        <4> QED BY <3>2, <4>1, <4>2, <4>3
      <3>4. CASE gap = 0
        <4>1. stats' = stats BY <2>1, <3>4
        <4> QED BY <1>8, <3>2, <3>4, <4>1
      <3> QED BY <3>2, <3>3, <3>4
    <2>7. truly_lost' = truly_lost + d - 1 BY <1>8, <2>1, <2>4
    <2>8. PICK e \in Int, e1 \in Int :
            /\ e = Excess /\ e1 = Excess'
            /\ e1 = e + gap - (d - 1)
            /\ stats'.lost - truly_lost' = e1
      <3>1. Excess' = stats'.lost - truly_lost' BY DEF Excess
      <3>2. Excess' = Excess + gap - (d - 1) /\ Excess' \in Int
        BY <1>8, <2>4, <2>6, <2>7, <3>1
      <3> QED BY <1>8, <3>1, <3>2
    <2>9. e1 = e \/ (e1 = e + 1 /\ q - p = t - s + Round)
      BY <2>4, <2>5, <2>6, <2>8
    <2>10. PICK m \in Int : m = e * Round
      <3>1. e * Round \in Int BY <1>8, <2>8, SMT
      <3> QED BY <3>1
    <2>11. e1 * Round = m \/ (e1 * Round = m + Round /\ q - p = t - s + Round)
      <3>1. (e + 1) * Round = e * Round + Round BY <1>8, <2>8, SMT
      <3> QED BY <2>9, <2>10, <3>1
    <2>12. m + s < p BY <1>1, <1>6, <1>7, <1>10, <2>8, <2>10 DEF LossInv, CountInv
    <2>13. m + t < q
      <3>1. 1 \in Places BY <1>1
      <3> QED BY <1>6, <1>7, <2>8, <2>10, <3>1 DEF LossInv, CountInv
    <2>14. PICK m1 \in Int : m1 = e1 * Round /\ m1 + t < q
      <3>1. e1 * Round \in Int BY <1>8, <2>8, SMT
      <3>2. PICK m1 \in Int, r \in Nat : m1 = e1 * Round /\ r = Round BY <1>8, <3>1
      <3>3. m1 = m \/ (m1 = m + r /\ q - p = t - s + r) BY <2>11, <3>2
      <3>4. m1 + t < q BY <2>12, <2>13, <3>3
      <3> QED BY <3>2, <3>4
    <2>15. ASSUME NEW i \in 0 .. n, Known(i)'
           PROVE  m1 + SeqAt(i)' < PayloadAt(i)'
      <3>1. PICK a \in Nat, b \in Nat :
              /\ a = SeqAt(i + 1) /\ b = PayloadAt(i + 1)
              /\ a = SeqAt(i)' /\ b = PayloadAt(i)'
        BY <1>5, <1>8, <2>15
      <3>2. CASE i = 0
        <4>1. i + 1 = 1 BY <3>2
        <4> QED BY <1>6, <2>14, <3>1, <4>1
      <3>3. CASE i > 0
        <4>1. i + 1 \in Places /\ Known(i + 1) /\ 1 \in Places /\ 1 < i + 1
          BY <1>1, <1>5, <2>15, <3>3
        <4>2. q < b /\ (b - q = a - t \/ b - q >= a - t + Round)
          BY <1>6, <1>7, <3>1, <4>1 DEF LossInv, PlacesInv
        <4>3. m1 + a < b BY <1>8, <2>14, <4>2
        <4> QED BY <3>1, <4>3
      <3> QED BY <3>2, <3>3
    <2>16. truly_lost' <= stats'.lost
      <3>1. truly_lost <= stats.lost BY DEF LossInv, CountInv
      <3> QED BY <1>8, <2>4, <2>5, <2>6, <2>7, <3>1
    <2>17. CountInv' BY <1>3, <1>8, <2>8, <2>14, <2>15, <2>16 DEF CountInv
    <2> QED BY <1>5, <2>17 DEF LossInv
  <1> QED BY <1>9, <1>10

\* An event added to the queue is the payload just sent, or carries none, and a
\* packet of the keepalive's length in it is the keepalive.
LEMMA QueuedEvent ==
  ASSUME TypeOK
  PROVE  /\ \A type \in EventTypes : Queue(type) =>
              events' = events \/ events' = Append(events, Event(type, NoPacket))
         /\ \A fate \in Fates : \A packet : Arrives(fate, packet) =>
              \/ events' = events
              \/ fate = "RX_OK" /\ events' = Append(events, Event("RX_OK", packet))
              \/ \E type \in EventTypes \ {"RX_OK"} :
                   events' = Append(events, Event(type, NoPacket))
  BY DEF Queue, Receives, Arrives, EventTypes, RxEventTypes, Fates

\* Events keep their packets on the way through the queue.
LEMMA NextQuiet == TypeOK /\ QuietInv /\ [Next]_vars => QuietInv'
  <1> SUFFICES ASSUME TypeOK, QuietInv, [Next]_vars PROVE QuietInv' OBVIOUS
  <1> DEFINE Marked(event) ==
               event.packet.length = KeepaliveLen => event.packet = Keepalive
             AllMarked == \A i \in DOMAIN events : Marked(events[i])
  <1>1. events \in Seq(Events) /\ AllMarked BY DEF TypeOK, QuietInv
  <1>2. thr' = "boot" => thr = "boot" /\ UNCHANGED stats
    BY DEF Next, Environment, Thread, PeerSendsPayload, PeerSendsOther, PeerRestarts,
           Address, ListenTimeout, RxIncomplete, Deadline, TxTriggerFailed, TxEnd,
           prop_session_tx_enqueue, prop_session_rx_dequeue, prop_session_start,
           prop_session_handle_rx_ok, prop_session_handle_rx_bad, Dequeues,
           prop_session_handle_listen_timeout, TX_TRIGGER_FAILED,
           prop_session_handle_tx_end, prop_session_copy_to_radio_rb, RefillEnds,
           vars, rxSeqVars
  <1>3. \/ events' = events
        \/ events' = << >>
        \/ events # << >> /\ events' = Tail(events)
        \/ \E type \in EventTypes : Queue(type)
        \/ \E fate \in Fates : \E packet :
             Arrives(fate, packet) /\ (packet.length = KeepaliveLen => packet = Keepalive)
    <2>1. \A packet :
             packet \in {Keepalive, NoPacket, Packet("other", peer_seq, peer_count + 1)} =>
               (packet.length = KeepaliveLen => packet = Keepalive)
      BY DEF Packet, NoPacket, KeepaliveLen
    <2>2. CASE PeerSendsPayload
      <3>1. PICK fate \in Fates :
              Arrives(fate, Packet("other", peer_seq, peer_count + 1))
        BY <2>2 DEF PeerSendsPayload
      <3> QED BY <2>1, <3>1
    <2>3. CASE PeerSendsOther
      <3>1. PICK fate \in Fates, packet \in {Keepalive, NoPacket} : Arrives(fate, packet)
        BY <2>3 DEF PeerSendsOther
      <3> QED BY <2>1, <3>1
    <2>4. CASE ListenTimeout \/ RxIncomplete
      BY <2>4 DEF ListenTimeout, RxIncomplete, Deadline, EventTypes
    <2>5. CASE TxTriggerFailed BY <2>5 DEF TxTriggerFailed, EventTypes
    <2>6. CASE TxEnd BY <2>6 DEF TxEnd, EventTypes
    <2> QED
      BY <2>2, <2>3, <2>4, <2>5, <2>6
      DEF Next, Environment, Thread, Address, PeerRestarts, prop_session_tx_enqueue,
          prop_session_rx_dequeue, prop_session_start, prop_session_handle_rx_ok,
          prop_session_handle_rx_bad, Dequeues, prop_session_handle_listen_timeout,
          TX_TRIGGER_FAILED, prop_session_handle_tx_end,
          prop_session_copy_to_radio_rb, RefillEnds, vars
  <1>4. \/ events' = events
        \/ events' = << >>
        \/ events # << >> /\ events' = Tail(events)
        \/ \E event : Marked(event) /\ events' = Append(events, event)
    <2>1. \A type, packet : Event(type, packet).packet = packet BY DEF Event
    <2>2. NoPacket.length # KeepaliveLen BY DEF NoPacket, Packet, KeepaliveLen
    <2> QED BY <1>3, <2>1, <2>2, QueuedEvent
  <1>5. AllMarked'
    <2>1. CASE events' = events BY <1>1, <2>1
    <2>2. CASE events' = << >> BY <2>2
    <2>3. CASE events # << >> /\ events' = Tail(events)
      <3>1. \A i \in DOMAIN events' : i + 1 \in DOMAIN events /\ events'[i] = events[i + 1]
        BY <1>1, <2>3
      <3> QED BY <1>1, <3>1
    <2>4. ASSUME NEW event, Marked(event), events' = Append(events, event)
          PROVE  AllMarked'
      <3>1. \A i \in DOMAIN events' :
              \/ events'[i] = event
              \/ i \in DOMAIN events /\ events'[i] = events[i]
        BY <1>1, <2>4
      <3> QED BY <1>1, <2>4, <3>1
    <2> QED BY <1>4, <2>1, <2>2, <2>3, <2>4
  <1> QED BY <1>2, <1>5 DEF QuietInv

\* An event is appended: a payload has been lost, or none was sent.
LEMMA ArrivalLoss ==
  ASSUME MaxLostRun + 1 < HALF, TypeOK, TypeOK', LossInv,
         UNCHANGED <<rxSeqVars, history>>,
         UNCHANGED events \/ \E event : /\ ~CarriesPayload(event)
                                        /\ events' = Append(events, event),
         \/ UNCHANGED peerVars
         \/ /\ peer_count' = peer_count + 1
            /\ peer_seq' = prop_session_next_payload_seq(peer_seq)
            /\ lost_run' = lost_run + 1
  PROVE  LossInv'
  <1>1. PICK f : Moved(f) BY AppendMoves, StayMoves
  <1> QED BY <1>1, MovedLoss, LostLoss DEF rxSeqVars, history

\* LossInv is inductive, as long as fewer than half the numbers are lost in a row.
LEMMA NextLoss ==
  ASSUME MaxLostRun + 1 < HALF, TypeOK, TypeOK', NoServiceForgets, QuietInv, LossInv,
         [Next]_vars
  PROVE  LossInv'
  <1>1. \A type \in EventTypes \ {"RX_OK"} : \A packet : ~CarriesPayload(Event(type, packet))
    BY DEF CarriesPayload, Event
  <1>2. CASE PeerSendsPayload
    <2> DEFINE packet == Packet("other", peer_seq, peer_count + 1)
    <2>1. PICK fate \in Fates :
            /\ Arrives(fate, packet)
            /\ lost_run' = IF fate = "RX_OK" /\ events' # events THEN 0 ELSE lost_run + 1
      BY <1>2 DEF PeerSendsPayload
    <2>2. /\ peer_count' = peer_count + 1
          /\ peer_seq' = prop_session_next_payload_seq(peer_seq)
          /\ UNCHANGED <<rxSeqVars, history>>
      BY <1>2 DEF PeerSendsPayload
    <2>3. CASE events' = events BY <2>1, <2>2, <2>3, ArrivalLoss
    <2>4. CASE fate = "RX_OK" /\ events' = Append(events, Event("RX_OK", packet))
      <3> DEFINE event == Event("RX_OK", packet)
      <3>1. /\ CarriesPayload(event) /\ event.packet.seq = peer_seq
            /\ event.packet.payload = peer_count + 1
        BY DEF CarriesPayload, Event, Packet
      <3>2. events' # events
        <4>1. events \in Seq(Events) BY DEF TypeOK
        <4>2. Len(events') = Len(events) + 1 /\ Len(events) \in Nat BY <2>4, <4>1
        <4> QED BY <4>2
      <3>3. lost_run' = 0 BY <2>1, <2>4, <3>2
      <3>4. events' = Append(events, event) BY <2>4
      <3> HIDE DEF event
      <3> QED BY <2>2, <3>1, <3>3, <3>4, KeptLoss
    <2>5. CASE \E type \in EventTypes \ {"RX_OK"} :
                 events' = Append(events, Event(type, NoPacket))
      <3>1. fate # "RX_OK"
        BY <2>1, <2>5 DEF Arrives, Receives, Event
      <3> QED BY <1>1, <2>1, <2>2, <2>5, <3>1, ArrivalLoss
    <2> QED BY <2>1, <2>3, <2>4, <2>5, QueuedEvent
  <1>3. CASE PeerSendsOther
    <2>1. PICK fate \in Fates, packet \in {Keepalive, NoPacket} : Arrives(fate, packet)
      BY <1>3 DEF PeerSendsOther
    <2>2. ~CarriesPayload(Event("RX_OK", packet))
      BY DEF CarriesPayload, Event, Keepalive, NoPacket, Packet, KeepaliveLen
    <2>3. UNCHANGED events \/ \E event : /\ ~CarriesPayload(event)
                                         /\ events' = Append(events, event)
      BY <1>1, <2>1, <2>2, QueuedEvent
    <2> QED BY <1>3, <2>3, ArrivalLoss DEF PeerSendsOther
  <1>4. CASE PeerRestarts
    BY <1>4, RestartLoss DEF PeerRestarts, NoServiceForgets
  <1>5. CASE ListenTimeout \/ RxIncomplete \/ TxTriggerFailed \/ TxEnd
    <2>1. \E type \in EventTypes \ {"RX_OK"} : Queue(type)
      BY <1>5
      DEF ListenTimeout, RxIncomplete, Deadline, TxTriggerFailed, TxEnd, EventTypes,
          RxEventTypes
    <2>2. UNCHANGED events \/ \E event : /\ ~CarriesPayload(event)
                                         /\ events' = Append(events, event)
      BY <1>1, <2>1, QueuedEvent
    <2>3. UNCHANGED <<rxSeqVars, history, peerVars>>
      BY <1>5 DEF ListenTimeout, RxIncomplete, Deadline, TxTriggerFailed, TxEnd
    <2> QED BY <2>2, <2>3, ArrivalLoss
  <1>6. CASE UNCHANGED <<events, rxSeqVars, history, peerVars>>
    BY <1>6, ArrivalLoss
  <1>7. CASE prop_session_start \/ TX_TRIGGER_FAILED
    <2>1. /\ events' = << >> /\ ~have_last_rx_seq'
          /\ UNCHANGED <<stats, history, peerVars>>
      BY <1>7
      DEF prop_session_start, TX_TRIGGER_FAILED, prop_session_mark_no_service, QuietInv
    <2>2. PICK f : Moved(f) BY <2>1, ForgetMoves
    <2> QED BY <2>1, <2>2, MovedLoss DEF history
  <1>8. CASE prop_session_handle_rx_ok
    <2> DEFINE packet == Head(events).packet
    <2>1. /\ events # << >> /\ events' = Tail(events) /\ Head(events).type = "RX_OK"
          /\ UNCHANGED peerVars
      BY <1>8 DEF prop_session_handle_rx_ok, Dequeues
    <2>2. /\ packet.length = KeepaliveLen => packet.seq = PROP_KEEPALIVE_SEQ
      <3>1. events \in Seq(Events) BY DEF TypeOK
      <3>2. 1 \in DOMAIN events /\ Head(events) = events[1] BY <2>1, <3>1
      <3> QED BY <3>2 DEF QuietInv, Keepalive, Packet
    <2>3. CASE packet.length = "other"
      <3>1. CarriesPayload(Head(events)) BY <2>1, <2>3 DEF CarriesPayload
      <3>2. prop_session_record_in_service_rx(packet)
        BY <1>8, <2>3
        DEF prop_session_handle_rx_ok, prop_session_is_keepalive_packet, Lengths,
            KeepaliveLen
      <3> QED BY <2>1, <3>1, <3>2, ReceivedLoss
    <2>4. CASE packet.length # "other"
      <3>1. ~CarriesPayload(Head(events)) BY <2>4 DEF CarriesPayload
      <3>2. UNCHANGED <<rxSeqVars, history>>
        BY <1>8, <2>2, <2>4
        DEF prop_session_handle_rx_ok, prop_session_is_keepalive_packet, Lengths
      <3>3. PICK f : Moved(f) BY <2>1, <3>1, <3>2, DequeueMoves DEF rxSeqVars
      <3> QED BY <2>1, <3>2, <3>3, MovedLoss DEF rxSeqVars, history
    <2> QED BY <2>3, <2>4
  <1>9. CASE \/ prop_session_handle_rx_bad \/ prop_session_handle_listen_timeout
             \/ prop_session_handle_tx_end
    <2>1. /\ events # << >> /\ events' = Tail(events) /\ Head(events).type # "RX_OK"
          /\ UNCHANGED <<last_rx_seq, stats, history, peerVars>>
          /\ have_last_rx_seq' => have_last_rx_seq
      BY <1>9
      DEF prop_session_handle_rx_bad, prop_session_handle_listen_timeout,
          prop_session_handle_tx_end, Dequeues, prop_session_mark_no_service, rxSeqVars
    <2>2. ~CarriesPayload(Head(events)) BY <2>1 DEF CarriesPayload
    <2>3. PICK f : Moved(f) BY <2>1, <2>2, DequeueMoves
    <2> QED BY <2>1, <2>3, MovedLoss DEF history
  <1>10. \/ PeerSendsPayload \/ PeerSendsOther \/ PeerRestarts
         \/ ListenTimeout \/ RxIncomplete \/ TxTriggerFailed \/ TxEnd
         \/ UNCHANGED <<events, rxSeqVars, history, peerVars>>
         \/ prop_session_start \/ TX_TRIGGER_FAILED
         \/ prop_session_handle_rx_ok \/ prop_session_handle_rx_bad
         \/ prop_session_handle_listen_timeout \/ prop_session_handle_tx_end
    BY DEF Next, Environment, Thread, Address, prop_session_tx_enqueue,
           prop_session_rx_dequeue, prop_session_copy_to_radio_rb, RefillEnds, vars
  <1> QED BY <1>2, <1>3, <1>4, <1>5, <1>6, <1>7, <1>8, <1>9, <1>10

\* One payload too many per round of numbers, and the peer has sent a round for
\* each: the count stays within the wraps.
LEMMA LossImplies == TypeOK /\ LossInv => LossWithinWraps
  <1> SUFFICES ASSUME TypeOK, LossInv PROVE LossWithinWraps OBVIOUS
  <1>1. /\ Round \in Nat /\ Round > 1 /\ Excess \in Int /\ Excess * Round \in Int
        /\ peer_seq \in Nat /\ peer_count \in Nat /\ stats.lost \in Nat
        /\ truly_lost \in Int /\ Round = SEQ_MOD - 1
    <2>1. stats.lost \in Nat BY DEF TypeOK, StatFields
    <2>2. SEQ_MOD \in Nat /\ MaxPayloads \in Nat BY SessionAssumption
    <2> QED BY <2>1, <2>2, PlaceTypes DEF TypeOK, Round, SeqNumbers
  <1>2. Excess * Round + peer_seq < peer_count + 1
    BY PlaceTypes DEF LossInv, CountInv
  <1>3. Excess * Round <= peer_count BY <1>1, <1>2
  <1>4. PICK e \in Int, r \in Nat, c \in Nat :
          e = Excess /\ r = Round /\ c = peer_count /\ r > 1 /\ e * r <= c
    BY <1>1, <1>3
  <1>5. e <= c \div r
    <2>1. /\ c \div r \in Nat /\ c < (c \div r + 1) * r
      <3>1. c = (c \div r) * r + (c % r) /\ c % r < r /\ c \div r \in Nat BY <1>4, SMT
      <3>2. (c \div r + 1) * r = (c \div r) * r + r BY <1>4, <3>1, SMT
      <3>3. (c \div r) * r \in Nat /\ c % r \in Nat BY <1>4, <3>1, SMT
      <3> QED BY <3>1, <3>2, <3>3
    <2>2. PICK k \in Nat : k = c \div r + 1 BY <2>1
    <2>3. e * r < k * r BY <1>4, <2>1, <2>2, SMT
    <2>4. e < k
      <3>1. SUFFICES ASSUME e >= k PROVE FALSE BY <2>2
      <3>2. PICK m \in Nat : e = k + m
        <4>1. e - k \in Nat /\ e = k + (e - k) BY <2>2, <3>1
        <4> QED BY <4>1
      <3>3. (k + m) * r = k * r + m * r /\ m * r \in Nat /\ k * r \in Nat BY SMT
      <3> QED BY <2>3, <3>2, <3>3
    <2> QED BY <2>1, <2>2, <2>4
  <1>6. Excess <= Wraps BY <1>1, <1>4, <1>5 DEF Wraps
  <1>7. Wraps \in Int BY <1>1, SMT DEF Wraps
  <1>8. Excess = stats.lost - truly_lost BY DEF Excess
  <1>9. truly_lost <= stats.lost BY DEF LossInv, CountInv
  <1> QED BY <1>1, <1>6, <1>7, <1>8, <1>9 DEF LossWithinWraps

\* packets_lost_in_service misses no loss and is too high by at most one for each
\* round of the peer's numbers, for every width of the numbers, as long as fewer
\* than half of them, less one, are lost in a row (session.c:52-57, 117-168).
THEOREM LossCounted ==
  ASSUME MaxLostRun + 1 < HALF
  PROVE  Spec => []LossWithinWraps
  <1>1. Init => LossInv
    <2> SUFFICES ASSUME Init PROVE LossInv OBVIOUS
    <2>1. TypeOK BY InitType
    <2>2. Places = 0 .. 1 /\ NextPlace = 1 BY DEF Init, Places, NextPlace
    <2>3. \A i \in Places : Known(i) => i = 1 BY <2>2 DEF Known, Init
    <2>4. SeqAt(1) = 0 /\ PayloadAt(1) = 1 BY <2>2 DEF SeqAt, PayloadAt, Init
    <2>5. Excess = 0 /\ truly_lost = 0 /\ stats.lost = 0
      BY DEF Excess, Init, NoLoss, StatFields
    <2>6. Excess * Round = 0 /\ Round > 1 /\ Round \in Nat BY <2>1, <2>5, PlaceTypes, SMT
    <2>7. PlacesInv BY <2>3, <2>4, <2>6 DEF PlacesInv, Adjacent
    <2>8. CountInv BY <2>3, <2>4, <2>5, <2>6 DEF CountInv
    <2> QED BY <2>7, <2>8 DEF LossInv
  <1>2. Init => QuietInv BY DEF Init, QuietInv
  <1>3. TypeOK /\ TypeOK' /\ NoServiceForgets /\ QuietInv /\ LossInv /\ [Next]_vars
          => LossInv'
    BY NextLoss
  <1> QED
    BY <1>1, <1>2, <1>3, NextQuiet, LossImplies, TypeCorrect, OutOfServiceForgets, PTL
    DEF Spec
=============================================================================
