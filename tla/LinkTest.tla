-------------------------------- MODULE LinkTest ------------------------------
(***************************************************************************)
(* The link test mode (test_mode.c) next to the dongle's audio path         *)
(* (path_dongle.c): the CLI thread starts and stops the test, two test      *)
(* threads send and swallow packets, and the audio path of the dongle uses  *)
(* the same two session queues.  The session (PropSession) stands at their  *)
(* far ends.  The three threads have priority 6, the CLI has 10 and runs    *)
(* only while they wait.                                                    *)
(*                                                                          *)
(* The queue towards the radio and the USB FIFOs are counts of packets; a   *)
(* received packet is microphone audio or has any other length.             *)
(***************************************************************************)
EXTENDS Integers, Sequences

CONSTANTS DEPTH,        \* PROP_SESSION_QUEUE_DEPTH
          OUT_CAP,      \* packets in the USB speaker FIFO
          IN_CAP        \* packets in the USB microphone FIFO

ASSUME LinkTestAssumption == {DEPTH, OUT_CAP, IN_CAP} \subseteq Nat \ {0}

VARIABLES
    prop_tx_queue, prop_rx_queue,       \* packets waiting; lengths waiting
    test_mode_running, test_event,      \* the flag, and PROP_TEST_EVENT_RUNNING
    tpc, rpc,                           \* test TX and test RX thread
    lpc,                                \* CLI thread in prop_test_mode_start
    dpc, usb_out, usb_in,               \* dongle thread, USB FIFOs
    paced,                              \* USB has sent during this loop of it
    late_tx, late_rx                    \* history: test packets since "off"

dongle == <<dpc, usb_out, usb_in, paced>>
testmode == <<test_mode_running, test_event, lpc>>
link_vars == <<prop_tx_queue, prop_rx_queue, testmode, tpc, rpc, dongle, late_tx, late_rx>>
SendSide == <<prop_tx_queue, tpc, late_tx>>
ReceiveSide == <<prop_rx_queue, rpc, late_rx>>

LinkInit ==
    /\ prop_tx_queue = 0 /\ prop_rx_queue = <<>>
    /\ test_mode_running = FALSE /\ test_event = FALSE /\ lpc = "idle"
    /\ tpc = "none" /\ rpc = "none"
    /\ dpc = "rx" /\ usb_out = 0 /\ usb_in = 0 /\ paced = FALSE
    /\ late_tx = 0 /\ late_rx = 0

TestOff == ~test_mode_running
Late(n) == IF TestOff /\ n < 2 THEN n + 1 ELSE n

-------------------------------------------------------------------------------
(* The session's ends of the queues.  A thread that waits on a queue is       *)
(* served before the call that serves it returns (K_MSGQ).                    *)

SessionTakes ==
    /\ prop_tx_queue > 0
    /\ \/ tpc = "blocked" /\ tpc' = "wait" /\ late_tx' = Late(late_tx) /\ UNCHANGED prop_tx_queue
       \/ tpc # "blocked" /\ prop_tx_queue' = prop_tx_queue - 1 /\ UNCHANGED <<tpc, late_tx>>
    /\ UNCHANGED <<ReceiveSide, testmode, dongle>>

\* Mutant of SessionDelivers: the queue has no end.
SessionDeliversAll ==
    /\ \E len \in {"mic", "other"} : prop_rx_queue' = Append(prop_rx_queue, len)
    /\ UNCHANGED <<rpc, late_rx, SendSide, testmode, dongle>>

\* prop_session_rx_enqueue: K_NO_WAIT, a full queue drops.
SessionDelivers ==
    /\ \/ rpc = "blocked" /\ rpc' = "wait" /\ late_rx' = Late(late_rx) /\ UNCHANGED prop_rx_queue
       \/ /\ rpc # "blocked" /\ Len(prop_rx_queue) < DEPTH
          /\ \E len \in {"mic", "other"} : prop_rx_queue' = Append(prop_rx_queue, len)
          /\ UNCHANGED <<rpc, late_rx>>
    /\ UNCHANGED <<SendSide, testmode, dongle>>

-------------------------------------------------------------------------------
(* The test threads.                                                          *)

\* Mutant of TxOffers: the event is not waited for again.
TxOffersOnce ==
    /\ tpc = "wait"
    /\ \/ prop_tx_queue < DEPTH /\ prop_tx_queue' = prop_tx_queue + 1
          /\ late_tx' = Late(late_tx) /\ UNCHANGED tpc
       \/ prop_tx_queue = DEPTH /\ tpc' = "blocked" /\ UNCHANGED <<prop_tx_queue, late_tx>>
    /\ UNCHANGED <<ReceiveSide, testmode, dongle>>

\* Past k_event_wait: prepare a packet and offer it to the session's queue.
TxOffers ==
    /\ tpc = "wait" /\ test_event
    /\ \/ prop_tx_queue < DEPTH /\ prop_tx_queue' = prop_tx_queue + 1
          /\ late_tx' = Late(late_tx) /\ UNCHANGED tpc
       \/ prop_tx_queue = DEPTH /\ tpc' = "blocked" /\ UNCHANGED <<prop_tx_queue, late_tx>>
    /\ UNCHANGED <<ReceiveSide, testmode, dongle>>

\* The queue stays full for 10 ms: give the packet up and sleep.
TxGivesUp ==
    /\ tpc = "blocked" /\ tpc' = "sleep"
    /\ UNCHANGED <<prop_tx_queue, late_tx, ReceiveSide, testmode, dongle>>

TxWakes ==
    /\ tpc = "sleep" /\ tpc' = "wait"
    /\ UNCHANGED <<prop_tx_queue, late_tx, ReceiveSide, testmode, dongle>>

\* Past k_event_wait: take a packet and drop it.
RxSwallows ==
    /\ rpc = "wait" /\ test_event
    /\ \/ prop_rx_queue # <<>> /\ prop_rx_queue' = Tail(prop_rx_queue)
          /\ late_rx' = Late(late_rx) /\ UNCHANGED rpc
       \/ prop_rx_queue = <<>> /\ rpc' = "blocked" /\ UNCHANGED <<prop_rx_queue, late_rx>>
    /\ UNCHANGED <<SendSide, testmode, dongle>>

\* 100 ms without a packet.
RxTimesOut ==
    /\ rpc = "blocked" /\ rpc' = "wait"
    /\ UNCHANGED <<prop_rx_queue, late_rx, SendSide, testmode, dongle>>

TestTx == TxOffers \/ TxGivesUp \/ TxWakes
TestRx == RxSwallows \/ RxTimesOut

-------------------------------------------------------------------------------
(* The dongle thread: one packet for each step.                               *)

\* Mutant of DongleRx: a packet of the wrong length ends the loop and stays.
DongleRxPeeks ==
    /\ dpc = "rx"
    /\ \/ /\ usb_in < IN_CAP /\ prop_rx_queue # <<>> /\ Head(prop_rx_queue) = "mic"
          /\ prop_rx_queue' = Tail(prop_rx_queue)
          /\ usb_in' = usb_in + 1 /\ UNCHANGED dpc
       \/ /\ ~(usb_in < IN_CAP /\ prop_rx_queue # <<>> /\ Head(prop_rx_queue) = "mic")
          /\ dpc' = "tx" /\ UNCHANGED <<prop_rx_queue, usb_in>>
    /\ UNCHANGED <<SendSide, rpc, late_rx, testmode, usb_out, paced>>

\* PROP RX -> USB microphone, while a packet fits and one is there; one that
\* is not microphone audio is dropped and ends the loop.
DongleRx ==
    /\ dpc = "rx"
    /\ \/ /\ usb_in < IN_CAP /\ prop_rx_queue # <<>>
          /\ prop_rx_queue' = Tail(prop_rx_queue)
          /\ IF Head(prop_rx_queue) = "mic"
             THEN usb_in' = usb_in + 1 /\ UNCHANGED dpc
             ELSE dpc' = "tx" /\ UNCHANGED usb_in
       \/ /\ usb_in = IN_CAP \/ prop_rx_queue = <<>>
          /\ dpc' = "tx" /\ UNCHANGED <<prop_rx_queue, usb_in>>
    /\ UNCHANGED <<SendSide, rpc, late_rx, testmode, usb_out, paced>>

\* USB speaker -> PROP TX, while a packet is there; one that the full queue
\* refuses is lost (overflow_bytes) and ends the loop.
DongleTx ==
    /\ dpc = "tx"
    /\ usb_out' = IF usb_out > 0 THEN usb_out - 1 ELSE 0
    /\ \/ usb_out > 0 /\ prop_tx_queue < DEPTH
          /\ prop_tx_queue' = prop_tx_queue + 1 /\ UNCHANGED dpc
       \/ (usb_out = 0 \/ prop_tx_queue = DEPTH) /\ dpc' = "sleep" /\ UNCHANGED prop_tx_queue
    /\ UNCHANGED <<tpc, late_tx, ReceiveSide, testmode, usb_in, paced>>

\* path_dongle_wake_thread, or 1 ms.
DongleWakes ==
    /\ dpc = "sleep" /\ dpc' = "rx" /\ paced' = FALSE
    /\ UNCHANGED <<SendSide, ReceiveSide, testmode, usb_out, usb_in>>

Dongle == DongleRx \/ DongleTx \/ DongleWakes

\* USB moves a packet in 1 ms, far longer than a loop of the thread takes:
\* while it runs at most one arrives.
UsbSpeaker ==
    /\ usb_out < OUT_CAP /\ ~paced
    /\ usb_out' = usb_out + 1 /\ paced' = (dpc # "sleep")
    /\ UNCHANGED <<SendSide, ReceiveSide, testmode, dpc, usb_in>>

UsbMicrophone ==
    /\ usb_in > 0 /\ usb_in' = usb_in - 1
    /\ UNCHANGED <<SendSide, ReceiveSide, testmode, dpc, usb_out, paced>>

-------------------------------------------------------------------------------
(* "linktest on" and "linktest off", in the CLI thread.                       *)

\* Nobody of priority 6 is ready to run.
CliRuns ==
    /\ tpc \in {"none", "blocked", "sleep"} \/ (tpc = "wait" /\ ~test_event)
    /\ rpc \in {"none", "blocked"} \/ (rpc = "wait" /\ ~test_event)
    /\ dpc = "sleep"

\* prop_test_mode_start: a test that runs is left alone; the threads are
\* created once, run up to the event and wait for it.
TestOn ==
    /\ CliRuns /\ lpc = "idle" /\ ~test_mode_running
    /\ test_mode_running' = TRUE /\ lpc' = "on"
    /\ tpc' = (IF tpc = "none" THEN "wait" ELSE tpc)
    /\ rpc' = (IF rpc = "none" THEN "wait" ELSE rpc)
    /\ UNCHANGED <<prop_tx_queue, prop_rx_queue, test_event, dongle, late_tx, late_rx>>

StartTraffic ==
    /\ CliRuns /\ lpc = "on" /\ lpc' = "idle" /\ test_event' = TRUE
    /\ UNCHANGED <<test_mode_running, SendSide, ReceiveSide, dongle>>

\* Mutant of StopTraffic: the flag alone is cleared.
StopFlagOnly ==
    /\ CliRuns /\ lpc = "idle" /\ test_mode_running' = FALSE
    /\ late_tx' = 0 /\ late_rx' = 0
    /\ UNCHANGED <<prop_tx_queue, prop_rx_queue, test_event, lpc, tpc, rpc, dongle>>

\* prop_test_mode_stop, which asks nobody whether a test runs.
StopTraffic ==
    /\ CliRuns /\ lpc = "idle"
    /\ test_event' = FALSE /\ test_mode_running' = FALSE
    /\ late_tx' = 0 /\ late_rx' = 0
    /\ UNCHANGED <<prop_tx_queue, prop_rx_queue, lpc, tpc, rpc, dongle>>

LinkNext == \/ SessionTakes \/ SessionDelivers \/ TestTx \/ TestRx \/ Dongle
            \/ UsbSpeaker \/ UsbMicrophone \/ TestOn \/ StartTraffic \/ StopTraffic

-------------------------------------------------------------------------------
(* Properties.                                                               *)

LinkTypeOK ==
    /\ prop_tx_queue \in 0 .. DEPTH /\ Len(prop_rx_queue) <= DEPTH
    /\ \A i \in DOMAIN prop_rx_queue : prop_rx_queue[i] \in {"mic", "other"}
    /\ tpc \in {"none", "wait", "blocked", "sleep"} /\ rpc \in {"none", "wait", "blocked"}
    /\ dpc \in {"rx", "tx", "sleep"} /\ lpc \in {"idle", "on"}
    /\ usb_out \in 0 .. OUT_CAP /\ usb_in \in 0 .. IN_CAP /\ paced \in BOOLEAN

\* After "linktest off" each test thread does at most one more thing: the
\* packet that waits for room may still be queued, the wait for a packet may
\* still take one from the audio path.
OneLateEach == TestOff => late_tx <= 1 /\ late_rx <= 1

\* The test threads come to rest after "linktest off", wherever the command
\* found them, unless a new test is started.
ComesToRest ==
    TestOff ~> (~TestOff \/ (tpc \in {"none", "wait"} /\ rpc \in {"none", "wait"}))

\* While no test runs, received packets reach the audio path and leave the
\* queue, whatever their length, unless USB does not fetch the microphone data.
ReceiveDrains ==
    (TestOff /\ Len(prop_rx_queue) = DEPTH)
        ~> (~TestOff \/ Len(prop_rx_queue) < DEPTH \/ usb_in = IN_CAP)
===============================================================================
