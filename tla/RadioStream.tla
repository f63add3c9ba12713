---------------------------- MODULE RadioStream ----------------------------
(***************************************************************************)
(* RadioCore implements EventStream: the session, which pairs the events   *)
(* it dequeues with ring slots only by counting, always reads the packet   *)
(* the event speaks of.                                                    *)
(***************************************************************************)
EXTENDS RadioCore, FiniteSets

\* The ring slot the session will read for the event at place i: it releases
\* one slot for each RX event it handles.
RxBefore(i) == Cardinality({j \in 1 .. i - 1 : RxAt(j)})
SlotRead(i) == (rx_rd_idx + Held + RxBefore(i)) % RX_RING_DEPTH

PacketAt(i) == IF RxAt(i) THEN rx_ring[SlotRead(i)] ELSE "none"

Stream == INSTANCE EventStream WITH
  Types   <- EventTypes,
  RxTypes <- RxEventTypes,
  Depth   <- EVENT_QUEUE_DEPTH,
  None    <- "none",
  stream  <- [i \in DOMAIN queue |->
                [type |-> queue[i].type, packet |-> PacketAt(i)]],
  reading <- IF Held = 1 THEN rx_ring[rx_rd_idx] ELSE "none"

\* The event queue and the RX ring together are one FIFO of events that carry
\* their packets: each drop is a drop of both, an unread packet is never
\* overwritten, and the handler reads the packet of its own event.
ImplementsEventStream == Stream!Spec
=============================================================================
