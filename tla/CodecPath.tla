------------------------------- MODULE CodecPath ------------------------------
(***************************************************************************)
(* The speaker and microphone path through the codec: the audio path thread *)
(* (path_wired.c in mode "usb", path_headset.c in mode "prop_headset"), the *)
(* I2S thread (i2s.c), the one-slot command queue between them, and the     *)
(* FIFOs they share.  The clock control of the same threads is in           *)
(* CodecClock.  The I2S thread has the higher priority (4 against 6 and 7), *)
(* so the path thread runs only while the I2S thread waits.                 *)
(*                                                                          *)
(* Sizes are in an arbitrary unit; BLOCK, TARGET, SPK_BUFFER and SPK_PACKET *)
(* stand for AUDIO_I2S_BLOCK_BYTES, AUDIO_SPK_TARGET_BYTES,                 *)
(* AUDIO_SPK_BUFFER_BYTES and PROP_SPK_PACKET_BYTES.  Pending bytes and the *)
(* microphone FIFO are counted in I2S blocks.                               *)
(***************************************************************************)
EXTENDS Integers, Sequences

CONSTANTS Modes,        \* boot modes that use the codec
          BLOCK, TARGET, SPK_BUFFER, SPK_PACKET,
          UsbSizes,     \* sizes of a USB audio packet
          MIC_BUFFER, MIC_PACKET,
          TX_BLOCKS, RX_BLOCKS,  \* slabs of the TDM driver
          MaxFaults     \* bound: failures of the codec, the driver, the bus

ASSUME SizesAssumption ==
    /\ Modes \subseteq {"usb", "prop_headset"}
    /\ {BLOCK, SPK_PACKET, MIC_PACKET, TX_BLOCKS, RX_BLOCKS} \subseteq Nat \ {0}
    /\ UsbSizes \subseteq Nat
    /\ {TARGET, SPK_BUFFER, MIC_BUFFER, MaxFaults} \subseteq Nat
    /\ BLOCK <= TARGET /\ TARGET <= SPK_BUFFER

VARIABLES
    mode,          \* app_control's current_mode
    spk, mic,      \* levels of the speaker and the microphone FIFO
    i2s_cmdq,      \* K_MSGQ of one command
    ipc,           \* where the I2S thread is
    running,       \* audio_i2s_running
    pending,       \* audio_i2s_tx_pending_bytes, in blocks
    drv, air, done,\* TDM driver: state, blocks given to it, blocks it returned
    ppc,           \* where the path thread is
    stream_state, spk_ff_bytes,
    faults

i2s == <<i2s_cmdq, ipc, running, pending, drv, air, done>>
path == <<ppc, stream_state, spk_ff_bytes>>
vars == <<mode, spk, mic, i2s, path, faults>>

IPcs == {"boot", "idle", "prefill", "start", "poll", "read", "submit", "dead"}
PPcs == {"sample", "decide", "put", "spk", "mic"}
Commands == {"ACTIVATE", "DEACTIVATE"}

Init ==
    /\ mode \in Modes
    /\ spk = 0 /\ mic = 0
    /\ i2s_cmdq = <<>> /\ ipc = "boot" /\ running = FALSE /\ pending = 0
    /\ drv = "ready" /\ air = 0 /\ done = 0
    /\ ppc = "sample" /\ stream_state = "BUFFERING" /\ spk_ff_bytes = 0
    /\ faults = 0

Fault == faults < MaxFaults /\ faults' = faults + 1
NoFault == UNCHANGED faults

AtMost(n, cap) == IF n <= cap THEN n ELSE cap

-------------------------------------------------------------------------------
(* The TDM driver, as i2s.c uses it: a block given while it runs comes back  *)
(* as a received block; with nothing left to send, or nowhere to put what it *)
(* receives, the stream ends in an error.                                    *)

DriverComplete ==
    /\ drv = "run" /\ air > 0
    /\ air' = air - 1 /\ done' = done + 1
    /\ drv' = IF air = 1 \/ done' = RX_BLOCKS THEN "error" ELSE "run"
    /\ UNCHANGED <<mode, spk, mic, i2s_cmdq, ipc, running, pending, path, faults>>

\* DROP: the driver gives up every block, both ways.
Drop == drv' = "ready" /\ air' = 0 /\ done' = 0

-------------------------------------------------------------------------------
(* The I2S thread.                                                           *)

\* audio_i2s_thread up to its loop: device checks, nau88l21_init and
\* audio_i2s_configure; a failure ends the thread.
I2sInit ==
    /\ ipc = "boot"
    /\ \/ ipc' = "idle" /\ NoFault
       \/ ipc' = "dead" /\ Fault
    /\ UNCHANGED <<mode, spk, mic, i2s_cmdq, running, pending, drv, air, done, path>>

\* Mutant of GetCommand: a DEACTIVATE found while inactive stays in its slot.
GetCommandKeeps ==
    /\ ipc = "idle" /\ i2s_cmdq = <<"ACTIVATE">>
    /\ i2s_cmdq' = <<>> /\ ipc' = "prefill"
    /\ UNCHANGED <<mode, spk, mic, running, pending, drv, air, done, path, faults>>

\* Inactive loop: wait for a command, drop every DEACTIVATE.
GetCommand ==
    /\ ipc = "idle" /\ i2s_cmdq # <<>>
    /\ i2s_cmdq' = Tail(i2s_cmdq)
    /\ ipc' = IF Head(i2s_cmdq) = "ACTIVATE" THEN "prefill" ELSE "idle"
    /\ UNCHANGED <<mode, spk, mic, running, pending, drv, air, done, path, faults>>

\* Mutant of TxBlock: the block is counted as pending before i2s_write answers.
TxBlockCountsEarly(next) ==
    /\ spk >= BLOCK /\ air < TX_BLOCKS
    /\ spk' = spk - BLOCK /\ pending' = pending + 1
    /\ \/ drv # "error" /\ air' = air + 1 /\ NoFault /\ UNCHANGED ipc
       \/ (IF drv = "error" THEN NoFault ELSE Fault) /\ ipc' = next /\ UNCHANGED air
    /\ UNCHANGED <<mode, mic, i2s_cmdq, running, drv, done, path>>

\* audio_i2s_tx_block: a block read from the FIFO is lost if i2s_write refuses it.
TxBlock(next) ==
    /\ spk >= BLOCK /\ air < TX_BLOCKS
    /\ spk' = spk - BLOCK
    /\ \/ /\ drv # "error"
          /\ air' = air + 1 /\ pending' = pending + 1 /\ NoFault
          /\ UNCHANGED ipc
       \/ /\ IF drv = "error" THEN NoFault ELSE Fault
          /\ ipc' = next
          /\ UNCHANGED <<air, pending>>
    /\ UNCHANGED <<mode, mic, i2s_cmdq, running, drv, done, path>>

\* No full block in the FIFO, or no free block in the slab (-ENOMEM).
TxLoopEnds(next) ==
    /\ spk < BLOCK \/ air = TX_BLOCKS
    /\ ipc' = next
    /\ UNCHANGED <<mode, spk, mic, i2s_cmdq, running, pending, drv, air, done, path, faults>>

Prefill == ipc = "prefill" /\ (TxBlock("start") \/ TxLoopEnds("start"))

Submit == ipc = "submit" /\ (TxBlock("poll") \/ TxLoopEnds("poll"))

\* Mutant of Stop: the driver is not told to drop.
StopNoDrop ==
    /\ UNCHANGED <<drv, air, done>>
    /\ IF running THEN running' = FALSE /\ pending' = 0 ELSE UNCHANGED <<running, pending>>

\* audio_i2s_stop.
Stop ==
    IF running THEN Drop /\ running' = FALSE /\ pending' = 0
               ELSE UNCHANGED <<drv, air, done, running, pending>>

\* audio_i2s_start: up to ten tries, with a sleep after each; a stream without
\* a block to send does not start.  When all fail the blocks are dropped, and
\* the audio_i2s_stop that follows finds nothing running.
Start ==
    /\ ipc = "start"
    /\ \/ /\ air > 0
          /\ running' = TRUE /\ ipc' = "poll" /\ drv' = "run" /\ NoFault
          /\ UNCHANGED <<air, done>>
       \/ /\ IF air > 0 THEN Fault ELSE NoFault
          /\ Drop /\ ipc' = "idle"
          /\ UNCHANGED running
    /\ UNCHANGED <<mode, spk, mic, i2s_cmdq, pending, path>>

\* Top of the active loop: only a DEACTIVATE leaves it.
PollCommand ==
    /\ ipc = "poll"
    /\ i2s_cmdq' = IF i2s_cmdq = <<>> THEN <<>> ELSE Tail(i2s_cmdq)
    /\ IF i2s_cmdq # <<>> /\ Head(i2s_cmdq) = "DEACTIVATE"
       THEN Stop /\ ipc' = "idle"
       ELSE ipc' = "read" /\ UNCHANGED <<drv, air, done, running, pending>>
    /\ UNCHANGED <<mode, spk, mic, path, faults>>

\* audio_i2s_rx_block: wait for a received block, take it off the pending
\* count and pass its left channel on; the microphone FIFO of the headset
\* overwrites its oldest data, USB's drops the surplus.
RxBlock ==
    /\ ipc = "read" /\ done > 0
    /\ done' = done - 1 /\ pending' = pending - 1
    /\ mic' = AtMost(mic + 1, MIC_BUFFER)
    /\ ipc' = "submit"
    /\ UNCHANGED <<mode, spk, i2s_cmdq, running, drv, air, path, faults>>

\* Mutant of RxError: the thread starts over by itself.
RxErrorRestarts ==
    /\ ipc = "read"
    /\ IF done = 0 /\ drv = "error" THEN NoFault ELSE Fault
    /\ Stop /\ ipc' = "prefill"
    /\ UNCHANGED <<mode, spk, mic, i2s_cmdq, path>>

\* i2s_read fails: the stream is in error and drained, or another fault.
RxError ==
    /\ ipc = "read"
    /\ IF done = 0 /\ drv = "error" THEN NoFault ELSE Fault
    /\ Stop /\ ipc' = "idle"
    /\ UNCHANGED <<mode, spk, mic, i2s_cmdq, path>>

I2sThread == \/ I2sInit \/ GetCommand \/ Prefill \/ Start
             \/ PollCommand \/ RxBlock \/ RxError \/ Submit

\* The I2S thread sleeps or waits: codec bring-up and start retries sleep, the
\* queue is empty, no block has been received, or the thread has ended.
I2sWaits ==
    \/ ipc \in {"boot", "start", "dead"}
    \/ ipc = "idle" /\ i2s_cmdq = <<>>
    \/ ipc = "read" /\ done = 0 /\ drv = "run"

-------------------------------------------------------------------------------
(* The path thread: headset_thread and wired_thread.                         *)

\* The FIFO level first ...
Sample ==
    /\ ppc = "sample" /\ ppc' = "decide"
    /\ spk_ff_bytes' = spk
    /\ UNCHANGED <<mode, spk, mic, i2s, stream_state, faults>>

\* ... the pending bytes at a later instant, and the state change on both.
Level == spk_ff_bytes + BLOCK * pending
\* Mutants of Refilled: asked for again while playing; off by one.
RefilledAgain == stream_state \in {"BUFFERING", "PLAYING"} /\ Level >= TARGET
RefilledAbove == stream_state = "BUFFERING" /\ Level > TARGET
Refilled == stream_state = "BUFFERING" /\ Level >= TARGET
\* Mutant of Underrun: the pending bytes are forgotten.
UnderrunNoPending == stream_state = "PLAYING" /\ spk_ff_bytes < BLOCK
Underrun == stream_state = "PLAYING" /\ pending = 0 /\ spk_ff_bytes < BLOCK

AfterPut == IF mode = "prop_headset" THEN "spk" ELSE "sample"

Decide ==
    /\ ppc = "decide"
    /\ spk_ff_bytes' = 0   \* a local, dead from here on
    /\ \/ Refilled /\ stream_state' = "PLAYING" /\ ppc' = "put"
       \/ Underrun /\ stream_state' = "BUFFERING" /\ ppc' = "put"
       \/ ~Refilled /\ ~Underrun /\ ppc' = AfterPut /\ UNCHANGED stream_state
    /\ UNCHANGED <<mode, spk, mic, i2s, faults>>

\* audio_i2s_activate, audio_i2s_deactivate: K_FOREVER on the one-slot queue.
PutCommand ==
    /\ ppc = "put" /\ i2s_cmdq = <<>>
    /\ i2s_cmdq' = << IF stream_state = "PLAYING" THEN "ACTIVATE" ELSE "DEACTIVATE" >>
    /\ ppc' = AfterPut
    /\ UNCHANGED <<mode, spk, mic, ipc, running, pending, drv, air, done,
                   stream_state, spk_ff_bytes, faults>>

\* Mutant of FillSpeaker: any room will do.
FillSpeakerTight ==
    /\ ppc = "spk"
    /\ \/ SPK_BUFFER > spk /\ spk' = spk + SPK_PACKET /\ UNCHANGED ppc
       \/ ppc' = "mic" /\ UNCHANGED spk
    /\ UNCHANGED <<mode, mic, i2s, stream_state, spk_ff_bytes, faults>>

\* PROP RX -> speaker FIFO, one packet at a time while a whole one fits; an
\* empty session queue or a payload of another size ends the loop.
FillSpeaker ==
    /\ ppc = "spk"
    /\ \/ /\ SPK_BUFFER - spk >= SPK_PACKET
          /\ spk' = spk + SPK_PACKET /\ UNCHANGED ppc
       \/ ppc' = "mic" /\ UNCHANGED spk
    /\ UNCHANGED <<mode, mic, i2s, stream_state, spk_ff_bytes, faults>>

\* Microphone FIFO -> PROP TX; a packet the session queue refuses is lost and
\* ends the loop.
DrainMic ==
    /\ ppc = "mic"
    /\ \/ mic >= MIC_PACKET /\ mic' = mic - MIC_PACKET /\ ppc' \in {"mic", "sample"}
       \/ mic < MIC_PACKET /\ ppc' = "sample" /\ UNCHANGED mic
    /\ UNCHANGED <<mode, spk, i2s, stream_state, spk_ff_bytes, faults>>

PathStep == Sample \/ Decide \/ PutCommand \/ FillSpeaker \/ DrainMic
PathThread == I2sWaits /\ PathStep

-------------------------------------------------------------------------------
(* USB audio, in mode "usb": the stack fills the speaker FIFO from its        *)
(* interrupt and empties the microphone FIFO.                                 *)

UsbOut ==
    /\ mode = "usb"
    /\ \E n \in UsbSizes : spk' = AtMost(spk + n, SPK_BUFFER)
    /\ UNCHANGED <<mode, mic, i2s, path, faults>>

UsbIn ==
    /\ mode = "usb" /\ mic > 0
    /\ mic' = mic - 1
    /\ UNCHANGED <<mode, spk, i2s, path, faults>>

Next == I2sThread \/ PathThread \/ DriverComplete \/ UsbOut \/ UsbIn

Spec == Init /\ [][Next]_vars

\* The I2S thread runs whenever it can and a running driver completes its
\* blocks; the path thread runs whenever the I2S thread waits, again and again.
Fairness == /\ WF_vars(I2sThread) /\ WF_vars(DriverComplete)
            /\ SF_vars(PathThread)

FairSpec == Spec /\ Fairness

-------------------------------------------------------------------------------
(* Properties.                                                               *)

TypeOK ==
    /\ mode \in Modes
    /\ spk \in 0 .. SPK_BUFFER /\ mic \in 0 .. MIC_BUFFER
    /\ i2s_cmdq = <<>> \/ \E c \in Commands : i2s_cmdq = <<c>>
    /\ ipc \in IPcs /\ running \in BOOLEAN /\ pending \in Nat
    /\ drv \in {"ready", "run", "error"}
    /\ air \in 0 .. TX_BLOCKS /\ done \in Nat
    /\ ppc \in PPcs /\ stream_state \in {"BUFFERING", "PLAYING"}
    /\ spk_ff_bytes \in 0 .. SPK_BUFFER
    /\ faults \in 0 .. MaxFaults

\* While the stream runs the pending count is exact: what the driver still has
\* to send plus what it has returned and nobody has read (i2s.c:143 asserts
\* that a received block always has a pending one to pay for it).
PendingExact == running => pending = air + done

\* The active loop throws an ACTIVATE away (i2s.c:244).  None is ever there
\* to throw away: the one-slot queue makes the path thread wait until its last
\* DEACTIVATE is taken.
ActivateNotSwallowed == ipc = "poll" => i2s_cmdq # <<"ACTIVATE">>

\* Two threads agree on playing: while the driver is sending, the path thread
\* is in PLAYING and no command is on its way, so that an underrun is never
\* declared, nor the stream dropped, over audio still being sent, although
\* FIFO level and pending bytes are read at two instants.
AgreeOnPlaying == drv = "run" => stream_state = "PLAYING" /\ ppc # "put" /\ i2s_cmdq = <<>>

\* What makes these hold, step after step.  The I2S thread is committed
\* from the moment it takes an ACTIVATE until no block is pending, and all that
\* time the path thread stays in PLAYING and sends nothing.
Committed == ipc \in {"prefill", "poll", "read", "submit"} \/ pending > 0

\* What the I2S thread and the driver keep between them.
I2sInv ==
    /\ running <=> ipc \in {"poll", "read", "submit"}
    /\ running => pending = air + done /\ drv \in {"run", "error"}
    /\ drv = "run" => air > 0
    /\ ~running => drv = "ready" /\ done = 0
    /\ ipc \in {"boot", "dead"} => pending = 0
    /\ ipc \in {"boot", "idle", "dead"} => air = 0
    /\ ipc \in {"prefill", "start"} => pending = air

\* What the two threads and the queue keep: an ACTIVATE on its way has data
\* waiting for it, a DEACTIVATE is the last word of a path in BUFFERING.
QueueInv ==
    /\ Committed => stream_state = "PLAYING" /\ ppc # "put" /\ i2s_cmdq = <<>>
    /\ i2s_cmdq = <<"ACTIVATE">> =>
          /\ stream_state = "PLAYING" /\ ppc # "put" /\ spk >= BLOCK
          /\ ppc = "decide" => spk_ff_bytes >= BLOCK
    /\ i2s_cmdq = <<"DEACTIVATE">> => stream_state = "BUFFERING" \/ ppc = "put"
    /\ stream_state = "PLAYING" /\ ppc = "put" => spk >= BLOCK
    /\ stream_state = "BUFFERING" /\ ppc = "decide" => spk_ff_bytes <= spk

PathInv == TypeOK /\ I2sInv /\ QueueInv

\* Through threads, queue and buffers the code keeps the contract of
\* PlaybackContract: one start for each activation, an end only in silence.
Armed == \/ stream_state = "PLAYING" /\ ppc = "put"
         \/ i2s_cmdq = <<"ACTIVATE">>
         \/ ipc \in {"prefill", "start"}

Contract == INSTANCE PlaybackContract
              WITH want <- stream_state = "PLAYING", armed <- Armed, sound <- drv = "run"

ImplementsContract == Contract!Spec

\* While nothing plays the path thread goes on: it is never left waiting for the
\* command queue (K_FOREVER, i2s.c:267, 274), nor for the CPU behind an I2S
\* thread that keeps finding a command it does not take, unless that thread
\* has ended.
PathGoesOn ==
    \A pc \in {"sample", "decide", "put"} :
        (ppc = pc /\ ~running) ~> (ppc # pc \/ running \/ ipc = "dead")

\* Without a failure a buffer filled to its target is played: the commands of
\* the two threads never end in a wait on each other.
TargetStartsPlayback ==
    (stream_state = "BUFFERING" /\ spk >= TARGET) ~> (running \/ faults > 0)

\* docs/firmware/audio-path.md says of PATH_STATE_PLAYING: "Path has activated
\* I2S and is feeding speaker blocks."  A path in PLAYING over an idle I2S
\* thread with no command to come should then not stay so.
PlayingMeansFeeding ==
    (stream_state = "PLAYING" /\ ipc = "idle" /\ i2s_cmdq = <<>> /\ ppc # "put")
        ~> (stream_state = "BUFFERING" \/ running)
===============================================================================
