---------------------------- MODULE PropSession ----------------------------
(***************************************************************************)
(* The PROP session, firmware/src/prop/session.c: service state, payload   *)
(* sequence numbers, loss accounting, the application queues, and the      *)
(* refill of the radio's TX ring.                                          *)
(*                                                                         *)
(* The radio below is seen as EventStream shows it: one FIFO of events     *)
(* that carry their packets (RadioCore implements it), and a FIFO of       *)
(* committed TX packets.  Which of them the next TX sends is decided when  *)
(* it is prepared, before or while the session refills.  The peer, the     *)
(* channel and the application are the environment.  The peer numbers its  *)
(* payloads with the same code.                                            *)
(***************************************************************************)
EXTENDS Integers, Sequences

CONSTANTS
  SEQ_MOD,           \* 2^16: sequence numbers are uint16_t
  SYNC_LOSS_TURNS,   \* PROP_SESSION_SYNC_LOSS_TURNS
  QUEUE_DEPTH,       \* PROP_SESSION_QUEUE_DEPTH, of each application queue
  EVENT_QUEUE_DEPTH, \* PROP_RADIO_SESSION_EVENT_QUEUE_DEPTH
  TX_RING_DEPTH, RX_RING_DEPTH,
  AppLengths,        \* the packet lengths the application sends
  MaxPayloads,       \* bound: payloads the peer sends
  MaxLostRun         \* bound: payloads of the peer lost in a row

\* A packet length is the keepalive's, another valid one, or an invalid one.
KeepaliveLen == "keepalive"
Lengths == {KeepaliveLen, "other"}

HALF == SEQ_MOD \div 2

ASSUME SessionAssumption ==
  /\ SEQ_MOD \in Nat /\ SEQ_MOD > 2
  /\ SYNC_LOSS_TURNS \in Nat /\ SYNC_LOSS_TURNS > 0
  /\ QUEUE_DEPTH \in Nat /\ QUEUE_DEPTH > 0
  /\ EVENT_QUEUE_DEPTH \in Nat /\ EVENT_QUEUE_DEPTH > 0
  /\ TX_RING_DEPTH \in Nat /\ TX_RING_DEPTH > 1
  /\ RX_RING_DEPTH \in Nat /\ RX_RING_DEPTH > 1
  /\ AppLengths \subseteq Lengths
  /\ MaxPayloads \in Nat
  /\ MaxLostRun \in Nat

VARIABLES
  \* struct prop_session_runtime
  service_state,
  consecutive_rx_misses,
  next_tx_seq,
  last_rx_seq,
  have_last_rx_seq,
  stats,
  \* the queues between the application and the session
  prop_tx_queue,
  prop_rx_queue,
  \* radio_core, as the session sees it
  turn_state,
  tx_packet_from_ring, \* the TX prepared sends the head of the ring
  events,    \* session_event_queue, each RX event with its ring slot
  tx_ring,   \* committed packets not yet released
  \* the session thread
  thr,
  \* the peer: payloads it has sent, the number of the next, and how many in a
  \* row have not reached this session
  peer_count,
  peer_seq,
  lost_run,
  \* history: the last payload accounted for, and the payloads truly lost
  last_payload,
  truly_lost

serviceVars == <<service_state, consecutive_rx_misses>>
rxSeqVars   == <<last_rx_seq, have_last_rx_seq, stats>>
appVars     == <<prop_tx_queue, prop_rx_queue>>
turnVars    == <<turn_state, tx_packet_from_ring>>
radioVars   == <<turnVars, tx_ring>>
peerVars    == <<peer_count, peer_seq, lost_run>>
history     == <<last_payload, truly_lost>>
vars == <<serviceVars, next_tx_seq, rxSeqVars, appVars, radioVars, events, thr,
          peerVars, history>>

SeqNumbers == 0 .. SEQ_MOD - 1
PROP_KEEPALIVE_SEQ == SEQ_MOD - 1

\* payload identifies a payload of the peer: its place in the peer's stream.
Packet(length, seq, payload) == [length |-> length, seq |-> seq, payload |-> payload]
NoPacket  == Packet("invalid", 0, 0)
Keepalive == Packet(KeepaliveLen, PROP_KEEPALIVE_SEQ, 0)

RxEventTypes == {"RX_OK", "RX_BAD"}
EventTypes == RxEventTypes \cup
  {"TX_END", "RX_INCOMPLETE", "LISTEN_TIMEOUT", "TX_TRIGGER_FAILED"}
Event(type, packet) == [type |-> type, packet |-> packet]

\* The part of struct session_stats that later accounting depends on.
StatFields ==
  {"lost", "burst_1", "burst_2", "burst_3_4", "burst_5_plus", "max_burst"}
NoLoss == [f \in StatFields |-> 0]

-----------------------------------------------------------------------------
(* Sequence numbers and loss accounting *)

\* Mutants, here and below: each is a wrong variant of the definition that
\* follows it, with which a run must find its property violated.
next_payload_seq_no_skip(seq) == (seq + 1) % SEQ_MOD
next_payload_seq_unwrapped(seq) == seq + 1

prop_session_next_payload_seq(seq) ==
  LET next == (seq + 1) % SEQ_MOD
  IN  IF next = PROP_KEEPALIVE_SEQ THEN (next + 1) % SEQ_MOD ELSE next

\* A distance of half the number space or more is a step back, and no gap.
prop_session_seq_gap_from_expected(expected, seq) ==
  LET delta == (seq - expected) % SEQ_MOD
  IN  IF delta < HALF THEN delta ELSE 0

BurstOf_up_to_3(len) ==
  IF len = 1 THEN "burst_1"
  ELSE IF len = 2 THEN "burst_2"
  ELSE IF len <= 3 THEN "burst_3_4" ELSE "burst_5_plus"

BurstOf(len) ==
  IF len = 1 THEN "burst_1"
  ELSE IF len = 2 THEN "burst_2"
  ELSE IF len <= 4 THEN "burst_3_4" ELSE "burst_5_plus"

\* With the caller's packets_lost_in_service += gap.
prop_session_record_loss_burst(s, gap) ==
  [s EXCEPT !["lost"] = @ + gap,
            ![BurstOf(gap)] = @ + 1,
            !["max_burst"] = IF gap > @ THEN gap ELSE @]

prop_session_record_in_service_rx(packet) ==
  LET expected == prop_session_next_payload_seq(last_rx_seq)
      gap == IF have_last_rx_seq
               THEN prop_session_seq_gap_from_expected(expected, packet.seq) ELSE 0
  IN  /\ stats' = IF gap > 0
                    THEN prop_session_record_loss_burst(stats, gap) ELSE stats
      /\ last_rx_seq' = packet.seq
      /\ have_last_rx_seq' = TRUE
      /\ truly_lost' = IF have_last_rx_seq
                         THEN truly_lost + packet.payload - last_payload - 1
                         ELSE truly_lost
      /\ last_payload' = packet.payload

prop_session_is_keepalive_packet(packet) ==
  packet.length = KeepaliveLen /\ packet.seq = PROP_KEEPALIVE_SEQ

-----------------------------------------------------------------------------
(* The radio's queues (EventStream, and the TX ring's one unused slot) *)

CanQueue == Len(events) < EVENT_QUEUE_DEPTH
Queue(type) == events' = IF CanQueue THEN Append(events, Event(type, NoPacket))
                                     ELSE events

IsRxEvent(event) == event.type \in RxEventTypes
RxRingHasRoom == Len(SelectSeq(events, IsRxEvent)) < RX_RING_DEPTH - 1
TxRingHasRoom == Len(tx_ring) < TX_RING_DEPTH - 1

radio_on == turn_state # "DISABLED"

\* A TX is prepared: it sends the head of the ring, or the keepalive if there is
\* none, whatever the session adds before it is on air.
program_tx_packetptr == tx_packet_from_ring' = (tx_ring # << >>)

\* A packet is kept, with its event, if both structures have room.
Receives(type, packet) ==
  events' = IF CanQueue /\ RxRingHasRoom THEN Append(events, Event(type, packet))
                                          ELSE events

-----------------------------------------------------------------------------
(* The peer and the channel *)

\* ADDRESS: a packet begins to arrive.
Address ==
  /\ turn_state = "LISTEN" /\ turn_state' = "IN_RX"
  /\ program_tx_packetptr
  /\ UNCHANGED <<serviceVars, next_tx_seq, rxSeqVars, appVars, events, tx_ring, thr,
                 peerVars, history>>

\* What becomes of a packet on its way here: it arrives, it arrives damaged, or
\* it breaks off or its address is never matched.
Fates == {"RX_OK", "RX_BAD", "lost"}

\* The end of a packet, CRC and PHYEND, begins the TX.
Arrives(fate, packet) ==
  \/ /\ turn_state = "IN_RX" /\ turn_state' = "IN_TX"
     /\ \/ fate = "RX_OK" /\ Receives("RX_OK", packet)
        \/ fate = "RX_BAD" /\ Receives("RX_BAD", NoPacket)
     /\ UNCHANGED tx_packet_from_ring
  \/ fate = "lost" /\ UNCHANGED <<events, turnVars>>

PeerSendsPayload ==
  /\ radio_on
  /\ peer_count < MaxPayloads
  /\ peer_count' = peer_count + 1
  /\ peer_seq' = prop_session_next_payload_seq(peer_seq)
  /\ \E fate \in Fates :
       /\ Arrives(fate, Packet("other", peer_seq, peer_count + 1))
       /\ lost_run' = IF fate = "RX_OK" /\ events' # events THEN 0 ELSE lost_run + 1
       /\ lost_run' <= MaxLostRun
  /\ UNCHANGED <<serviceVars, next_tx_seq, rxSeqVars, appVars, tx_ring, thr, history>>

\* A keepalive, or a packet of invalid length, which no peer sends but the
\* session checks for.
PeerSendsOther ==
  /\ radio_on
  /\ \E fate \in Fates, packet \in {Keepalive, NoPacket} : Arrives(fate, packet)
  /\ UNCHANGED <<serviceVars, next_tx_seq, rxSeqVars, appVars, tx_ring, thr,
                 peerVars, history>>

\* A reboot takes longer than the listen timeouts that end the service, so
\* the session has lost the service, and handled what it had received, before
\* the peer numbers its payloads from 0 again.
PeerRestarts ==
  /\ service_state = "NO_SERVICE"
  /\ events = << >>
  /\ peer_seq # 0
  /\ peer_seq' = 0
  /\ UNCHANGED <<serviceVars, next_tx_seq, rxSeqVars, appVars, radioVars, events, thr,
                 peer_count, lost_run, history>>

-----------------------------------------------------------------------------
(* The local radio *)

\* timer_isr, at the deadline of a turn: it triggers the TX, or finds that
\* radio_isr has gone on with the turn and cannot (TxTriggerFailed).
Deadline(turn, type) ==
  /\ turn_state = turn
  /\ Queue(type)
  /\ \/ turn_state' = "IN_TX" /\ program_tx_packetptr
     \/ UNCHANGED turnVars
  /\ UNCHANGED <<serviceVars, next_tx_seq, rxSeqVars, appVars, tx_ring, thr, peerVars,
                 history>>

ListenTimeout == Deadline("LISTEN", "LISTEN_TIMEOUT")
RxIncomplete  == Deadline("IN_RX", "RX_INCOMPLETE")

\* A TX turn ends: what was prepared has been on air, the head of the TX ring or
\* a keepalive.  A ring filled after a keepalive was prepared keeps its head.
TxEnd ==
  /\ turn_state = "IN_TX" /\ turn_state' = "LISTEN"
  /\ tx_ring' = IF tx_packet_from_ring THEN Tail(tx_ring) ELSE tx_ring
  /\ Queue("TX_END")
  /\ UNCHANGED <<serviceVars, next_tx_seq, rxSeqVars, appVars, tx_packet_from_ring, thr,
                 peerVars, history>>

TxTriggerFailed ==
  /\ radio_on
  /\ Queue("TX_TRIGGER_FAILED")
  /\ UNCHANGED <<serviceVars, next_tx_seq, rxSeqVars, appVars, radioVars, thr, peerVars,
                 history>>

-----------------------------------------------------------------------------
(* The application: any number of threads, serialised by the queues *)

\* The keepalive's length is also that of a payload of 16 bytes.
prop_session_tx_enqueue ==
  /\ Len(prop_tx_queue) < QUEUE_DEPTH
  /\ \E length \in AppLengths : prop_tx_queue' = Append(prop_tx_queue, length)
  /\ UNCHANGED <<serviceVars, next_tx_seq, rxSeqVars, prop_rx_queue, radioVars, events,
                 thr, peerVars, history>>

prop_session_rx_dequeue ==
  /\ prop_rx_queue # << >>
  /\ prop_rx_queue' = Tail(prop_rx_queue)
  /\ UNCHANGED <<serviceVars, next_tx_seq, rxSeqVars, prop_tx_queue, radioVars, events,
                 thr, peerVars, history>>

-----------------------------------------------------------------------------
(* prop_session_thread: one action per event, under the session mutex *)

\* prop_session_start_with_role: reset_runtime, start the radio, refill.
prop_session_start ==
  /\ thr = "boot" /\ thr' = "refill"
  /\ service_state' = "NO_SERVICE" /\ consecutive_rx_misses' = 0
  /\ next_tx_seq' = 0
  /\ last_rx_seq' = 0 /\ have_last_rx_seq' = FALSE
  /\ stats' = NoLoss
  /\ turn_state' = "LISTEN" /\ tx_packet_from_ring' = FALSE
  /\ tx_ring' = << >> /\ events' = << >>
  /\ UNCHANGED <<appVars, peerVars, history>>

Dequeues(type) ==
  /\ thr = "idle"
  /\ events # << >>
  /\ Head(events).type = type
  /\ events' = Tail(events)

\* The application queue drops what it has no room for; the payload still
\* counts as received.
prop_session_handle_rx_ok ==
  /\ Dequeues("RX_OK")
  /\ LET packet == Head(events).packet
         valid  == packet.length \in Lengths
         payload == valid /\ ~prop_session_is_keepalive_packet(packet)
     IN  /\ IF valid
              THEN service_state' = "IN_SERVICE" /\ consecutive_rx_misses' = 0
              ELSE UNCHANGED serviceVars
         /\ IF payload
              THEN /\ prop_rx_queue' = IF Len(prop_rx_queue) < QUEUE_DEPTH
                                         THEN Append(prop_rx_queue, packet.payload)
                                         ELSE prop_rx_queue
                   /\ prop_session_record_in_service_rx(packet)
              ELSE UNCHANGED <<prop_rx_queue, rxSeqVars, history>>
  /\ UNCHANGED <<next_tx_seq, prop_tx_queue, radioVars, thr, peerVars>>

\* RX_BAD, and RX_INCOMPLETE: a peer is there, though nothing was understood.
prop_session_handle_rx_bad ==
  /\ Dequeues("RX_BAD") \/ Dequeues("RX_INCOMPLETE")
  /\ consecutive_rx_misses' = 0
  /\ UNCHANGED <<service_state, next_tx_seq, rxSeqVars, appVars, radioVars, thr, peerVars,
                 history>>

prop_session_mark_no_service_keeps_seq ==
  /\ service_state' = "NO_SERVICE"
  /\ consecutive_rx_misses' = 0
  /\ UNCHANGED have_last_rx_seq

prop_session_mark_no_service ==
  /\ service_state' = "NO_SERVICE"
  /\ consecutive_rx_misses' = 0
  /\ have_last_rx_seq' = FALSE

prop_session_handle_listen_timeout ==
  /\ Dequeues("LISTEN_TIMEOUT")
  /\ \/ /\ service_state = "IN_SERVICE"
        /\ consecutive_rx_misses + 1 >= SYNC_LOSS_TURNS
        /\ prop_session_mark_no_service
     \/ /\ service_state = "IN_SERVICE"
        /\ consecutive_rx_misses + 1 < SYNC_LOSS_TURNS
        /\ consecutive_rx_misses' = consecutive_rx_misses + 1
        /\ UNCHANGED <<service_state, have_last_rx_seq>>
     \/ /\ service_state = "NO_SERVICE"
        /\ UNCHANGED <<serviceVars, have_last_rx_seq>>
  /\ UNCHANGED <<next_tx_seq, last_rx_seq, stats, appVars, radioVars, thr, peerVars,
                 history>>

\* The radio is stopped, its queue purged, and nothing starts it again.
TX_TRIGGER_FAILED ==
  /\ thr = "idle"
  /\ events # << >>
  /\ Head(events).type = "TX_TRIGGER_FAILED"
  /\ events' = << >>
  /\ turn_state' = "DISABLED" /\ tx_packet_from_ring' = FALSE
  /\ prop_session_mark_no_service
  /\ UNCHANGED <<next_tx_seq, last_rx_seq, stats, appVars, tx_ring, thr, peerVars, history>>

prop_session_handle_tx_end_ignored ==
  /\ Dequeues("TX_END")
  /\ UNCHANGED <<serviceVars, next_tx_seq, rxSeqVars, appVars, radioVars, thr, peerVars,
                 history>>

prop_session_handle_tx_end ==
  /\ Dequeues("TX_END")
  /\ thr' = "refill"
  /\ UNCHANGED <<serviceVars, next_tx_seq, rxSeqVars, appVars, radioVars, peerVars, history>>

\* One round of the refill loop; the application and the radio may come in
\* between two rounds.
prop_session_copy_to_radio_rb ==
  /\ thr = "refill"
  /\ TxRingHasRoom /\ prop_tx_queue # << >>
  /\ prop_tx_queue' = Tail(prop_tx_queue)
  /\ tx_ring' = Append(tx_ring, Packet(Head(prop_tx_queue), next_tx_seq, 0))
  /\ next_tx_seq' = prop_session_next_payload_seq(next_tx_seq)
  /\ UNCHANGED <<serviceVars, rxSeqVars, prop_rx_queue, turnVars, events, thr, peerVars,
                 history>>

RefillEnds ==
  /\ thr = "refill" /\ thr' = "idle"
  /\ ~TxRingHasRoom \/ prop_tx_queue = << >>
  /\ UNCHANGED <<serviceVars, next_tx_seq, rxSeqVars, appVars, radioVars, events,
                 peerVars, history>>

-----------------------------------------------------------------------------
Init ==
  /\ service_state = "NO_SERVICE" /\ consecutive_rx_misses = 0
  /\ next_tx_seq = 0
  /\ last_rx_seq = 0 /\ have_last_rx_seq = FALSE
  /\ stats = NoLoss
  /\ prop_tx_queue = << >> /\ prop_rx_queue = << >>
  /\ turn_state = "DISABLED" /\ tx_packet_from_ring = FALSE
  /\ events = << >> /\ tx_ring = << >>
  /\ thr = "boot"
  /\ peer_count = 0 /\ peer_seq = 0 /\ lost_run = 0
  /\ last_payload = 0 /\ truly_lost = 0

Environment ==
  \/ Address \/ PeerSendsPayload \/ PeerSendsOther \/ PeerRestarts
  \/ ListenTimeout \/ RxIncomplete \/ TxTriggerFailed
  \/ prop_session_tx_enqueue \/ prop_session_rx_dequeue

Thread ==
  \/ prop_session_start
  \/ prop_session_handle_rx_ok \/ prop_session_handle_rx_bad
  \/ prop_session_handle_listen_timeout \/ TX_TRIGGER_FAILED
  \/ prop_session_handle_tx_end
  \/ prop_session_copy_to_radio_rb \/ RefillEnds

Next == Environment \/ TxEnd \/ Thread

Spec == Init /\ [][Next]_vars

\* A turn with a deadline or a packet goes over to TX.
BeginTx == Environment /\ turn_state # "IN_TX" /\ turn_state' = "IN_TX"

\* TX turns begin and end, and the thread is scheduled, at times while a packet
\* is on air.  That a TX_END finds room, or a turn sends what is in the ring,
\* is nowhere assumed.
Fairness ==
  /\ WF_vars(BeginTx) /\ WF_vars(TxEnd)
  /\ WF_vars(Thread) /\ SF_vars(Thread /\ turn_state = "IN_TX")

FairSpec == Spec /\ Fairness

-----------------------------------------------------------------------------
Packets == [length : Lengths \cup {"invalid"}, seq : SeqNumbers, payload : 0 .. MaxPayloads]
Events  == [type : EventTypes, packet : Packets]

TurnTypeOK ==
  /\ turn_state \in {"DISABLED", "LISTEN", "IN_RX", "IN_TX"}
  /\ tx_packet_from_ring \in BOOLEAN
  /\ turn_state \in {"IN_RX", "IN_TX"} /\ tx_packet_from_ring => tx_ring # << >>

\* Sequence numbers stay within uint16_t, the miss counter below the outage
\* threshold, and every queue within its depth; a packet prepared from the ring
\* is there until its TX ends.
TypeOK ==
  /\ service_state \in {"NO_SERVICE", "IN_SERVICE"}
  /\ consecutive_rx_misses \in 0 .. SYNC_LOSS_TURNS - 1
  /\ next_tx_seq \in SeqNumbers
  /\ last_rx_seq \in SeqNumbers
  /\ have_last_rx_seq \in BOOLEAN
  /\ stats \in [StatFields -> Nat]
  /\ prop_tx_queue \in Seq(AppLengths) /\ Len(prop_tx_queue) <= QUEUE_DEPTH
  /\ prop_rx_queue \in Seq(0 .. MaxPayloads) /\ Len(prop_rx_queue) <= QUEUE_DEPTH
  /\ TurnTypeOK
  /\ events \in Seq(Events) /\ Len(events) <= EVENT_QUEUE_DEPTH
  /\ tx_ring \in Seq(Packets) /\ Len(tx_ring) < TX_RING_DEPTH
  /\ thr \in {"boot", "idle", "refill"}
  /\ peer_count \in 0 .. MaxPayloads
  /\ peer_seq \in SeqNumbers
  /\ lost_run \in 0 .. MaxLostRun
  /\ last_payload \in 0 .. MaxPayloads
  /\ truly_lost \in Int

\* Out of service the session remembers nothing that a later peer could be
\* measured against, so an outage, a restarted peer or a stopped radio
\* never shows up as lost payloads.
NoServiceForgets ==
  /\ service_state = "NO_SERVICE" => ~have_last_rx_seq /\ consecutive_rx_misses = 0
  /\ ~radio_on => service_state = "NO_SERVICE" /\ events = << >>

\* How often the peer's numbers can have passed the reserved one: the number space
\* is passed once for every SEQ_MOD - 1 payloads.
Wraps == peer_count \div (SEQ_MOD - 1)

\* packets_lost_in_service misses no loss, whatever was dropped on the way, and
\* counts at most one payload too many each time the peer's numbers pass the
\* reserved one.
LossWithinWraps ==
  /\ truly_lost <= stats.lost
  /\ stats.lost <= truly_lost + Wraps

\* The burst counters and the longest burst account for packets_lost_in_service.
BurstsBracketLoss ==
  LET least == stats.burst_1 + 2 * stats.burst_2 + 3 * stats.burst_3_4
                 + 5 * stats.burst_5_plus
      most  == stats.burst_1 + 2 * stats.burst_2 + 4 * stats.burst_3_4
                 + stats.max_burst * stats.burst_5_plus
  IN  least <= stats.lost /\ stats.lost <= most

\* No payload looks like a keepalive to the peer, not even one of the same
\* length, and the ring holds consecutive numbers up to the next one: whatever
\* order the queue, the ring and the events fill and drain in, no number
\* is skipped or reused.
PayloadsNumbered ==
  LET seqs == [i \in DOMAIN tx_ring |-> tx_ring[i].seq]
      all  == Append(seqs, next_tx_seq)
  IN  /\ \A i \in DOMAIN tx_ring : ~prop_session_is_keepalive_packet(tx_ring[i])
      /\ \A i \in DOMAIN seqs : all[i + 1] = prop_session_next_payload_seq(all[i])

\* "Packets lost (cumulative)" (webui/spec.md:371): a number that no payload
\* carries, the reserved one, is not a lost payload.
LostWereLost == stats.lost <= truly_lost

\* While the radio runs, a full application queue always drains: a dropped
\* TX_END only delays the refill, and so does one whose turn sent a keepalive
\* over a ring filled since.
TxQueueDrains == []<>(Len(prop_tx_queue) < QUEUE_DEPTH \/ ~radio_on)

(***************************************************************************)
(* Why LossWithinWraps and PayloadsNumbered hold: the inductive            *)
(* invariants, proved in PropSessionProofs.                                *)
(***************************************************************************)

\* The payloads on their way through the session, oldest first: place 0 is the
\* last one accounted for, places 1 .. Len(events) are the queued events,
\* and the last place is the payload the peer sends next.
NextPlace == Len(events) + 1
Places == 0 .. NextPlace

CarriesPayload(event) == event.type = "RX_OK" /\ event.packet.length = "other"

Known(i) == IF i = 0 THEN have_last_rx_seq
            ELSE i = NextPlace \/ CarriesPayload(events[i])
SeqAt(i) == IF i = 0 THEN last_rx_seq
            ELSE IF i = NextPlace THEN peer_seq ELSE events[i].packet.seq
PayloadAt(i) == IF i = 0 THEN last_payload
                ELSE IF i = NextPlace THEN peer_count + 1 ELSE events[i].packet.payload

Adjacent(i, j) == i < j /\ Known(i) /\ Known(j) /\ \A k \in i + 1 .. j - 1 : ~Known(k)

\* How many numbers a round has, and how many of them were counted as
\* payloads without being one.
Round  == SEQ_MOD - 1
Excess == stats.lost - truly_lost

\* A number is its payload's place in the stream, less whole rounds, and the
\* rounds never decrease.  Two payloads with none known between them are no
\* further apart than the losses in a row between them.
PlacesInv ==
  /\ \A i \in Places : Known(i) => SeqAt(i) < Round
  /\ \A i, j \in Places : i < j /\ Known(i) /\ Known(j) =>
       /\ PayloadAt(i) < PayloadAt(j)
       /\ \/ PayloadAt(j) - PayloadAt(i) = SeqAt(j) - SeqAt(i)
          \/ PayloadAt(j) - PayloadAt(i) >= SeqAt(j) - SeqAt(i) + Round
  /\ \A i, j \in Places : Adjacent(i, j) =>
       /\ PayloadAt(j) - PayloadAt(i) <= MaxLostRun + 1
       /\ PayloadAt(j) - PayloadAt(i) \in
            {SeqAt(j) - SeqAt(i), SeqAt(j) - SeqAt(i) + Round}
       /\ j = NextPlace => PayloadAt(j) - PayloadAt(i) = lost_run + 1

\* No loss was missed, and each payload counted too many stands for a round of
\* numbers completed before every payload still known.
CountInv ==
  /\ truly_lost <= stats.lost
  /\ \A i \in Places : Known(i) => Excess * Round + SeqAt(i) < PayloadAt(i)

LossInv == PlacesInv /\ CountInv

\* Nothing is counted before the start, and no payload waits in the queue with
\* the keepalive's length.
QuietInv ==
  /\ thr = "boot" => stats = NoLoss
  /\ \A i \in DOMAIN events :
       events[i].packet.length = KeepaliveLen => events[i].packet = Keepalive

\* The ring's numbers run up to the next one and skip the reserved one.
NumberedInv ==
  /\ next_tx_seq # PROP_KEEPALIVE_SEQ
  /\ \A i \in DOMAIN tx_ring :
       /\ tx_ring[i].seq # PROP_KEEPALIVE_SEQ
       /\ prop_session_next_payload_seq(tx_ring[i].seq) =
            IF i = Len(tx_ring) THEN next_tx_seq ELSE tx_ring[i + 1].seq
=============================================================================
