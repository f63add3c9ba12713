---------------------------- MODULE EventStream ----------------------------
(***************************************************************************)
(* What radio_core promises its only consumer, the session thread: "one    *)
(* ordered event stream" (prop-tdd.md, Session Events) in which an RX      *)
(* event comes with its packet.  A bounded FIFO whose entries carry the    *)
(* packet; there is no separate packet ring to keep in step with it.       *)
(***************************************************************************)
EXTENDS Naturals, Sequences

CONSTANTS
  Types,   \* the event types
  RxTypes, \* those that come with a packet
  Depth,   \* how many events the stream holds
  None     \* no packet

VARIABLES
  stream, \* the events not yet taken
  reading \* the packet of the event being handled

vars == <<stream, reading>>

\* A packet is known by the event that reported it.
Entry(type) == [type |-> type, packet |-> IF type \in RxTypes THEN type ELSE None]

Init == stream = << >> /\ reading = None

\* An event that finds no room is dropped, packet and all: a stuttering step.
Put ==
  /\ Len(stream) < Depth
  /\ \E type \in Types : stream' = Append(stream, Entry(type))
  /\ UNCHANGED reading

Take ==
  /\ stream # << >>
  /\ reading' = Head(stream).packet
  /\ stream' = Tail(stream)

Release == reading' = None /\ UNCHANGED stream

Reset == stream' = << >> /\ reading' = None

Next == Put \/ Take \/ Release \/ Reset

Spec == Init /\ [][Next]_vars
=============================================================================
