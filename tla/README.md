# A TLA+ development of the FlexAudioLink firmware

FlexAudioLink is a wireless audio link between a USB dongle and a headset, two
nRF54L boards that speak PROP, a proprietary half-duplex protocol. This
directory specifies the parts of it that decide whether the link works, checks
them with TLC, and proves the central properties with TLAPS. Paths below are
relative to `src/`; `radio_core.c`, `session.c` and so on are under
`firmware/src/`, `prop-tdd.md` under `docs/firmware/`.

    tlc -config RadioPreempted.cfg RadioCore     # a model-checking run
    tlapm RadioCoreProofs.tla                    # the proofs of one module

## 1. Inventory

| Component | State | Operations | Interacts with | Hard behaviour | What makes it correct |
|---|---|---|---|---|---|
| PROP radio driver, `prop/radio_core.c` | turn state, deadline, two rings with four indices, event queue, RADIO and TIMER10 registers | `radio_isr` (priority 0), `timer_isr` (priority 1), start, stop, ring and queue calls | session thread through the rings and the event queue; the peer over the air | an interrupt handler preempted by another; hardware shortcuts that act before software can; DMA pointers programmed one packet ahead; queue and ring that drop independently | events and slots match; DMA only touches buffers it may; a payload is released only after it was aired; turns go on without a peer; stop is final and quiet |
| PROP session, `prop/session.c` | service state, miss counter, sequence numbers, loss statistics, two application queues | one handler per radio event, the TX refill, start, enqueue, dequeue, report | radio driver below, audio path, test mode and CLI above | 16-bit numbers with a hole at 0xFFFF; outages and peer restarts; dropped events; full queues | numbers are consecutive and never the keepalive's; loss is counted once; outages are not loss; the application is not blocked for good |
| I2S thread, `audio/i2s.c` | command queue of depth 1, running flag, pending bytes, DMA slabs | activate, deactivate, active loop | path threads by FIFOs and commands; TDM driver | start and read failures; commands during a blocking read | pending bytes are bytes in flight; an error ends in a state from which play resumes |
| Audio paths, `audio/path_*.c` | BUFFERING or PLAYING, FIFO levels, clock controller, fixed rate | one loop per millisecond, a controller period of 100 ms | I2S thread, session, USB, codec driver, CLI | levels sampled while the other thread moves the bytes; a rate fixed from another thread | an underrun leads back to BUFFERING and to playing again; the level is held and regained |
| USB audio, device and CDC, `usb/*.c` | FIFOs, CLI line buffer, the start of USB | TinyUSB callbacks, device thread | paths, CLI | callback in ISR against thread; lines over several chunks | no line loses its head in silence; USB waits for the boot mode |
| CLI, `cli.c` | two queues, connection and push flags | line dispatch, pushes | every component's getters and setters | queue full; commands that reach into running threads | commands take effect as they answer |
| Link test, `prop/test_mode.c` | running flags, two threads | start, stop | session queues | competes with the audio path for received payloads | stop ends both threads' traffic |
| Application control, `app_control.c`, `main.c` | boot mode in settings | boot, save mode | starts one path and one session; gates USB | power failure and flash errors between save, answer and reboot | boots the mode it confirmed |
| Codec driver, `audio/nau88l21.c` | registers, among them the FLL fraction | bring-up, rate update | I2C; called by I2S, path and CLI thread | two transfers for one fraction, two callers, no lock; failed transfers | the fraction is one rate, or soon is again |
| Web store and transport, `webui/app/src/lib/` | pending acknowledgements, settings | send command, handle line | bridge or Web Serial | answers racing requests, timeouts | an answer settles the request it answers |
| Serial bridge, `webui/websocket_serial_bridge.py` | serial port, one client slot, two queues | pumps, reconnect | CLI, web client | reconnection | one client at a time; no stale line |
| Host scripts, `python/*.py` | - | - | USB or serial | none | (measurement) |

`PROJECT.json` lists each of them with its status, and under `hazards` the
places where the code is exposed, with the properties that watch them.

## 2. Modules

| Module | What it is |
|---|---|
| `RadioCore` | the radio driver with both interrupt handlers, the two peripherals and the thread that consumes its events |
| `RadioCoreProofs` | theorems about its reception: types, `RadioInv`, RX DMA, events and slots |
| `RadioTurnsProofs` | theorems about its stop, its turns, their progress and its transmission |
| `EventStream` | the driver's promise to the session: one FIFO of events that carry their packets |
| `RadioStream` | `RadioCore` implements `EventStream` (refinement mapping) |
| `RadioStreamProofs` | the proof that it does |
| `PropSession` | the session on top of such a stream, with peer, channel and application |
| `PropSessionProofs` | its theorems |
| `CodecPath` | path thread, I2S thread, their command queue, FIFOs and the TDM driver |
| `PlaybackContract` | what they promise together: wish, start, sound, end |
| `CodecPathProofs` | theorems about `CodecPath`, among them the refinement |
| `CodecClock` | codec bring-up, clock controller, `fll` command |
| `LinkTest` | link test threads, dongle path, `linktest` command |
| `DeviceControl` | composition of the two: commands against running threads, by boot mode |
| `DeviceControlProofs` | its theorems |
| `Console` | CDC line input, CLI thread, `set mode`, boot and power failures |
| `ConsoleProofs` | its theorems |
| `Induction` | induction over an interval, for the proofs about recursive functions |

### RadioCore

Four agents share the state. Each variable is one of the code's (`turn_state`,
`deadline_armed`, `tx_packet_from_ring`, the rings, the four indices, `queue`
for `session_event_queue`), a register (`packetptr`, `short`, `pend` for the
event registers, `deadline` and `deadline_int` for COMPARE3 and its enable), the
state of the hardware (`hw`, `dma`) or a program counter (`tmr`, `thr`).

* **RADIO**: `HwReady` to `HwDisabled` follow the radio's state machine with the
  shortcuts the driver enables. `dma` is the pointer latched at START: writing
  PACKETPTR later does not change the buffer on air. TIMER10: `HwCompare`.
* **`radio_isr`**, one action per event (`IsrAddress`, `IsrCrc` for CRCOK and for
  CRCERROR, `IsrPhyEnd`). It has the highest priority, so each is atomic.
* **`timer_isr`**, cut into a step for each access to state `radio_isr` or the
  radio shares: `TimerEnter` ... `TimerTrigDisable`. After an event `radio_isr`
  runs before the next step, except that the steps that clear ADDRESS or trigger
  DISABLE may come just before an event already raised is taken.
* **the session thread**: the driver's calls in the order `session.c` makes them,
  when no interrupt is pending or served. `prop_radio_rx_get_rd_ptr`,
  reading and `prop_radio_rx_advance_rd_idx` are separate, and so are filling
  a TX slot and publishing it.

A ring slot holds what matters of its content: an RX slot the outcome of the
last reception, a TX slot whether it is free, being filled, ready or aired.

*Assumptions about time*, which the driver does not check, named in the module:
A1 `radio_isr` serves ADDRESS before the packet ends, and everything before the next
ramp-up ends; A2 a deadline outlasts the turnaround into RX; A3 a ramp-up
outlasts a run of `timer_isr`.

*`RadioInTimerIsr`* decides whether radio events may fall inside
`timer_isr`. The code allows it, and the window is a few microseconds each
listen timeout. What holds only without it:

* ADDRESS between the commit to IN_TX and DISABLE (`radio_core.c:285-286`) is taken
  for the local packet's own: the RX pointer and DISABLED_RXEN replace
  the prepared TX. The turn goes to RX with `turn_state` IN_TX
  (`TurnMatchesRadio`), a payload can be released that was never on air
  (`ReleasedAfterAir`), and the slot read on air can be one already released
  (`TxDmaSafe`).
* In that state no deadline is armed: the link waits for the peer
  (`TurnsAlternate`).
* A packet that ends inside `timer_isr` makes `trigger_prepared_tx` fail
  (`TriggerNeverFails`), and the session then stops the radio for good.

Everything else is checked, and proved, with preemption allowed.

### EventStream and RadioStream

The session takes an event from one queue and its packet from a ring, and
relates them only by counting. `EventStream` has no ring: an entry carries its
packet. `RadioStream` maps each queued event to the slot the session will read
for it: TLC checks that every step of the driver is a step of the FIFO, and
`RadioStreamProofs` proves it for all depths.

### PropSession

One action per radio event handled, since handlers run under the session mutex
and share with other threads only message queues; the refill loop is one action
per round, since radio and application can come in between rounds. `peer_count`,
`lost_run`, `last_payload` and `truly_lost` are history: which payloads the peer sent,
and which of them were lost, as the code cannot know.

Of the radio the session's model keeps `events`, the queue as `EventStream` shows it,
`tx_ring`, and what decides when a slot leaves that ring: `turn_state` and
`tx_packet_from_ring`. A TX is prepared at ADDRESS (`Address`) or at a deadline
(`Deadline`), from the ring if there is a packet in it, else with the keepalive
(`program_tx_packetptr`); only at its end (`TxEnd`) is the slot released, and
none if a keepalive was prepared, even if the session has filled the ring since.
A deadline may also leave the turn as it was (the trigger failed), and
TX_TRIGGER_FAILED may come at any time: both allow more than the driver does.

The peer numbers payloads with the code's own function; any packet may arrive,
be damaged, break off or be missed, and may find the queue or the ring full. A
packet that breaks off ends its turn by the deadline (`RxIncomplete`).
Two assumptions bound it: a peer's reboot outlasts the listen timeouts that end
the service (`PeerRestarts`), and fewer than half the number space is lost in a row
(`MaxLostRun`); beyond that the 16-bit difference is ambiguous and
the code counts nothing.

Abstracted: packet contents (a length is the keepalive's, another valid one, or
invalid), the role, the `rx_incomplete`, `tx_trigger_fail` and `outage` counters,
timestamps and RSSI, which only the report reads.

### CodecPath and PlaybackContract

Actors: the I2S thread (`ipc` is where it is: `boot`, `idle`, `prefill`, `start`,
`poll`, `read`, `submit`, or `dead` after a failed bring-up), the path thread (`ppc`), the
TDM driver (`drv`, blocks given to it in `air`, received ones in `done`) and USB. Each
iteration of a loop of `i2s.c` is a step, because USB's interrupt and the driver's
come in between. The I2S thread has priority 4 and the paths 6 and 7, so a
path step is taken only while the I2S thread waits (`I2sWaits`): in a sleep, in
`k_msgq_get`, in `i2s_read`, or for good.

* `path_headset.c` and `path_wired.c` share `Sample`, `Decide`, `PutCommand`, and the
  headset goes on with `FillSpeaker` and `DrainMic`; in mode `usb` the FIFOs are USB's
  (`UsbOut`, `UsbIn`). `Sample` reads the FIFO level, `Decide` the pending
  bytes, at different instants, as the code does.
* The driver is external: a block comes back for each one sent; with nothing left to
  send, or no slab for what it receives, it stops in an error that the
  next read or write returns. Any call of it may also fail.
* Sizes are in a unit of 96 bytes or so; only their order matters.

`PlaybackContract` has no threads: a wish (`want`), one start armed by it, sound. In
the mapping `want` is PLAYING, `armed` an ACTIVATE between decision and start,
`sound` the running driver. The contract includes what the code does not do: a
wish used up is not armed again, see `PathStall`.

In this model the active loop never receives a DEACTIVATE (a consequence of
`AgreeOnPlaying`): the loop ends by the driver's error when audio runs out. The branch of
`i2s.c:244-247` is kept in `PollCommand` all the same.

### CodecClock

The numbers are the program's: bytes, Hz, register values, integer or fixed-point
arithmetic with C's truncation. The float integral is kept in 1/200 Hz (`P_KI`), the
filtered level in 1/100 byte, the level in 1/5 byte, so that nothing is
rounded that the code does not round by much less.

* Bring-up: `nau88l21_init` in four stages (`InitReset`, `InitFraction`, `InitLock`,
  `InitOutput`); a failed transfer ends it and the I2S thread.
* `Period`: 100 ms of the path thread. The level moves by the difference
  between the source and the rate that the registers make (`LevelAfter`, external),
  is filtered ten times, and the controller runs unless a rate is fixed. The level's
  drift within the period is applied before the ten filter updates.
* `PathHigh`, `PathLow`, `CliHigh`, `CliLow`: the two transfers of
  `nau88l21_set_fll_target_rate_hz`, by two threads. The CLI waits for its
  transfers, and meanwhile the path thread may start, finish or be between its own.
* `CliFixed` sets the flag, after the driver has returned.

The anti-windup of `path_common.c:77-89` is in the model and is never taken: both terms
saturate at 400 Hz and the sum at 800.

### LinkTest

The two test threads with the places where they can be when "linktest off" comes:
waiting for the event, in a queue call with a timeout, asleep. They compete with the
dongle's loop for the session's two queues; the session stands at the other ends.
All of them have priority 6; the CLI has 10 and runs only while they wait
(`CliRuns`). `TestOn` and `StartTraffic` are two steps, since the threads just
created run in between. `late_tx` and `late_rx` are history: what each thread
has done since the last "off".

`paced`: USB delivers one packet per millisecond and a loop of the dongle thread
takes microseconds, so at most one arrives during a loop. Without this the speaker
loop could go on for ever and the microphone loop starve, in the model only.

### DeviceControl

One mode of the device at a time. `fll` is refused on the dongle
(`cli.c:474`), `linktest` without a radio (`test_mode.c:89-96`), so each half has the
device to itself. In `prop_headset` both exist; they share only the CLI thread,
which runs one command at a time, so every behaviour there is an interleaving of
the two halves that neither can observe.

### Console

The USB thread's callbacks are atomic actions over a packet: `Wanted` if the packet holds
the wanted character `\n`, else `Received`. A character is the first of a host's line, a
later one, or an end; what a command says is chosen when it is executed, so any
line may be any command. A queued line is represented by its fate, as the host
sees it: whole, merged with one it never ended, or the rest of a line whose head
was thrown away ("told" if the report was queued, "crowded" if the report queue
was full, "no" if nobody was told).

`set mode` is three steps (`SaveMode`, `ConfirmMode`, `Reboot`), boot three
(`LoadMode`, `StartPath`, `UsbStart`), with power failures between any two. Flash
keeps its value over them; `settings_save_one` is taken to be atomic. TinyUSB is taken to
accept a packet whenever it fits, as the comment at `usb_cdc.c:44-50` does.

## 3. Runs

| Run | Module | Bounds | Shows |
|---|---|---|---|
| `RadioPreempted` | `RadioCore` | rings 2 and 2, queue 2, preemption | `TypeOK`, `RadioInv`, `EventSlotMatch`, `RxDmaSafe`, `TxFillPrivate`, `StoppedIsQuiet` |
| `RadioTurns` | `RadioStream` | rings 3 and 3, queue 2, no preemption | `TxDmaSafe`, `TurnMatchesRadio`, `TriggerNeverFails`, `WaitsAreTimed`, `ReleasedAfterAir`, `ImplementsEventStream`, `TurnAdvances`, `TurnsAlternate` |
| `SessionRx` | `PropSession` | numbers mod 8, 8 payloads, 2 lost in a row, outage after 2 timeouts | `TypeOK`, `NoServiceForgets`, `LossWithinWraps` |
| `SessionBursts` | `PropSession` | numbers mod 16, 10 payloads, 5 lost in a row | `BurstsBracketLoss` |
| `SessionTx` | `PropSession` | numbers mod 5, two-packet queue and ring | `PayloadsNumbered`, `TxQueueDrains` |
| `RadioLateAddress` | `RadioCore` | as `RadioPreempted` | finding: `LateAddressIgnored` fails |
| `SessionLoss` | `PropSession` | as `SessionRx` | finding: `LostWereLost` fails |
| `PathPlayback` | `CodecPath` | both codec modes, block 2, target 6, buffer 12, slabs of 3, 2 failures | `TypeOK`, `PathInv`, `PendingExact`, `ActivateNotSwallowed`, `AgreeOnPlaying`, `ImplementsContract`, `PathGoesOn`, `TargetStartsPlayback` |
| `PathStall` | `CodecPath` | headset, no failure | finding: `PlayingMeansFeeding` fails |
| `DeviceControl` | `DeviceControl` | program's numbers, source off by 300 Hz either way, 2 `fll` commands, 1 failed transfer, window of 2 periods; queues and FIFOs of 2 | `TypeOK`, `LevelHeld`, `Converges`, `TornHeals`, `PausedIsSilent`, `OneLateEach`, `ComesToRest`, `ReceiveDrains` |
| `FixedRate` | `CodecClock` | one `fll` command, no failure | finding: `FixedTargetApplied` fails |
| `ConsoleLines` | `Console` | lines of 2, packets of 4, queues of 1, 2 modes, 2 power cycles, 1 flash error | `TypeOK`, `NoSilentTail`, `AckedModeBoots`, `ModeFixedOnceUp` |

**Why the bounds are enough.** The driver's loops have no end, and the rings
wrap in every run; nothing is bounded but the depths. A ring of 2 is the smallest the
driver admits and the most contended: one usable slot, so empty, full and the wrap
meet at every packet. Rings of 3 with a queue of 2 add two payloads in flight,
a full queue with room in the ring and a full ring with room in the queue
(a held slot counts against the ring only). What depends on the depth is proved
for all depths (section 4). In the session, 8 payloads over numbers mod 8 pass
the hole once and start the second lap; a run of 2 lost straddles it in every
position, and is below half the space. Mod 16 and 5 lost reach every burst
class. The real numbers are 2^16, 4, 8 and a threshold of 8 timeouts.

`PathPlayback`: USB packets of 3 and 5 do not divide into blocks of 2, so remainders
below a block occur; the prefill meets both its ends (slab empty, FIFO empty); two
failures reach a failed start, a failed restart after it and a dead bring-up. All
sizes are general in the proofs. `DeviceControl`: commands and failed transfers come in the first
`Window` periods, then the controller is left to itself, for as long as it takes
(thousands of steps): what `Converges` says is about all time after. Beginning,
middle and end of an update, the other thread's or its own, fall in two
periods; two commands are a fixed rate followed by another or by `auto`. 300 Hz is the
deviation the driver's comment expects of a board (`nau88l21.c:127`). Of the test threads
everything is reachable with queues of 2: full, empty and in between.
`ConsoleLines`: a packet of 4 over lines of 2 is twice a line, so an overlong
line fits in one packet, spans two, and follows a complete one; at most two ends of
line and one carriage return a packet keep the number of packets down. Two power cycles are a
reboot with a power failure before or after it.

**Deadlock.** All runs but the session's check it; a stopped session is a state of
the driver's own (`Parked`), and in the other models USB or the next period goes
on. The session's runs do not: once the radio has stopped and the application
queues are full, nothing ever happens again.

**Fairness.** Weak fairness of the hardware (packets end, ramp-ups end, TIMER10
counts), of both handlers and of the thread, which has the CPU between
interrupts; a peer is never obliged to send. For the session: weak fairness of
turns going over to TX and of TX turns ending, which is what `TurnsAlternate` says of
the driver (outside the window above); weak fairness of the session thread, and strong
fairness of a step of it while a packet is on air, since air time needs no CPU
and a turn takes a millisecond or so while the thread handles eight events in
far less. That a TX_END finds room in the event queue, or that a turn sends what is in the
ring, is not assumed: `TxQueueDrains` follows although a TX_END may be
dropped and a keepalive sent over a full ring. The last part of the
assumption is needed: a thread that runs only between TX turns leaves the queue full at every
TX_END, and the application's queue stays full. For the codec path: weak fairness of the I2S thread,
which nothing of lower priority can delay, and of the driver; strong fairness of the path thread,
which gets the CPU whenever the I2S thread waits. No fairness for USB and
the radio: nobody has to send audio. `DeviceControl`: weak fairness of every thread,
transfer and timeout, and strong fairness of `StartTraffic`, the rest of a command
whose thread runs between those of higher priority; the user, the radio and USB owe nothing. `Console` has
safety properties only.

**Findings.**

1. `RadioLateAddress`: `prop-tdd.md:31` says that in IN_TX a "late peer ADDRESS is
   ignored"; `radio_isr` programs the RX pointer (`radio_core.c:442-446`). The
   trace is the window described above.
2. `SessionLoss`: a loss that straddles the wrap counts the reserved 0xFFFF as
   a lost payload (`session.c:54-69`, `161-175`; `webui/spec.md:371`,
   `prop-tdd.md:379`). `LossWithinWraps` says how wrong the counter can be: never
   too low, and at most one too high for each lap.
3. `PathStall`: a stream that ends in an error while audio is buffered leaves
   the path PLAYING over an idle I2S thread, for good. The path leaves PLAYING
   only when FIFO and pending bytes are both empty (`path_headset.c:94`), and the next
   packets fill the FIFO first. `audio-path.md:58` says what PLAYING means. The
   same happens when the stream cannot be started, where besides the pending count keeps
   the dropped blocks (`i2s.c:182-191` against `i2s-tdm.md:132`). No fault is needed: the
   ordinary end of audio is an error of the driver.
4. `FixedRate`: `fll <rate>` programs the codec and then pauses the controller. An
   update in between wins, and the codec stays at its rate, or at one half of each
   (`path_common.c:144-146`; `nau88l21-codec.md:112`). `PausedIsSilent` holds and makes it
   last.

A remark without a run: `prop-tdd.md:158` pairs RX and TX pointers with the opposite shortcuts
from those of `radio_core.c:198-217`. The code is consistent (`PointerInv`, part of
the proved `RadioInv`); the sentence is not.

**Mutants.** Beside many definitions stands a wrong variant of it
(`set_deadline_masked`, `next_payload_seq_no_skip`, ...), a slip one could make in
that code. `PROJECT.json` pairs each property of each passing run with a
variant under which that run finds the property violated.

## 4. Proofs

Each theorem holds for every value of the constants that its module's named
assumption admits, and each assumption is no more than the code says:

* `DepthAssumption`: each ring has at least two slots, as the BUILD_ASSERTs of
  `radio_core.c` demand, the queue at least one place.
* `SessionAssumption`, `LinkTestAssumption`, `ConsoleAssumption`: sizes are positive.
* `SizesAssumption`: a block fits in the target and the target in the buffer.
* `ClockAssumption`: besides sizes, every rate within the limit of adjustment lies
  between 46875 and 48828 Hz, the range that `nau88l21.c:80-87` derives from the FLL
  (the code's own are 47200 and 48800).

Three further hypotheses are written into the theorems that need them:
`~RadioInTimerIsr`, `MaxLostRun + 1 < HALF` and `ProgramNumbers`, explained below.

| Theorem | States | Hypothesis |
|---|---|---|
| `RadioCoreProofs!TypeCorrect`, `RadioInvariant`, `RxDmaIsSafe`, `EventsMatchSlots` | `[]TypeOK`, `[]RadioInv`, `[]RxDmaSafe`, `[]EventSlotMatch` | |
| `RadioTurnsProofs!StopsQuietly`, `TxFillIsPrivate` | `[]StoppedIsQuiet`, `[]TxFillPrivate` | |
| `RadioTurnsProofs!TriggersNeverFail`, `TurnsMatchRadio`, `TxDmaIsSafe`, `ReleasesAfterAir` | `[]TriggerNeverFails`, `[]TurnMatchesRadio`, `[]TxDmaSafe`, `ReleasedAfterAir` | `~RadioInTimerIsr` |
| `RadioTurnsProofs!WaitsHaveDeadlines`, `TurnsAdvance` | `[]WaitsAreTimed`, `TurnAdvances` | `~RadioInTimerIsr` |
| `RadioStreamProofs!RadioImplementsStream` | `ImplementsEventStream` | |
| `PropSessionProofs!TypeCorrect`, `OutOfServiceForgets`, `PayloadNumbers`, `BurstsAddUp` | `[]TypeOK`, `[]NoServiceForgets`, `[]PayloadsNumbered`, `[]BurstsBracketLoss` | |
| `PropSessionProofs!LossCounted` | `[]LossWithinWraps` | `MaxLostRun + 1 < HALF` |
| `CodecPathProofs!PathSafe`, `TypeCorrect`, `PendingIsExact`, `NoActivateSwallowed`, `ThreadsAgree` | `[]PathInv`, `[]TypeOK`, `[]PendingExact`, `[]ActivateNotSwallowed`, `[]AgreeOnPlaying` | |
| `CodecPathProofs!PathImplementsContract` | `ImplementsContract` | |
| `DeviceControlProofs!TypeCorrect`, `AtMostOneLate`, `PauseHolds` | `[]TypeOK`, `[]OneLateEach`, `PausedIsSilent` | |
| `DeviceControlProofs!LevelIsHeld` | `[]LevelHeld` | `ProgramNumbers` |
| `ConsoleProofs!TypeCorrect`, `TailsAreReported`, `ConfirmedModeBoots`, `ModeStaysOnceUp` | `[]TypeOK`, `[]NoSilentTail`, `[]AckedModeBoots`, `ModeFixedOnceUp` | |

With them every safety property of a passing run is a theorem; only liveness is left
to TLC alone. The inductive invariants stand at the end of the component's module or
beside their proof; TLC has checked each of them on the bounds of section 3.

### The radio driver

**Why `RxDmaSafe` holds.** It is not inductive: it does not say why the pointer that
was programmed for a reception is still the write slot when the reception
starts. `RadioInv` does, in three parts. `PointerInv`: an RX pointer is the
*current* write slot, and shortcut and direction follow the pointer, except
between the two writes of `timer_isr`. `PendingInv`: which events can be pending in
which state of the radio. `TurnInv`: whenever a CRC event may advance the write
index, the pointer has already moved on to TX, and while
`timer_isr` prepares a TX no event can undo it. TLC checks `RadioInv` in
`RadioPreempted`; the proof takes one lemma per agent.

**Why `EventSlotMatch` holds.** `EventInv` adds `CrcInv`: a pending CRC event
speaks of the write slot, which follows from `RadioInv` at the moment of the
event. The cases are the two drops (neither queue nor ring takes the packet),
the append, the dequeue (an event becomes the held slot) and the release. The
distances are differences modulo the depth, for which the module has its own
lemmas. A consequence: the assertion of `session.c:236` never fires, and the
`rx_rd_idx != rx_wr_idx` tests never fail while the radio runs.

**Why the driver implements `EventStream`.** The mapping counts: the packet of a
queued event is in the slot as many places behind the read index as there are
RX events before it (`RxBefore`, plus the held slot). By `EventSlotMatch`
that count is a distance (`CountBefore`): before an RX event come as many RX events as
there are unread slots before its own, less the held one, so the slot so found is the
event's own and holds a packet of its type (`ReadsItsSlot`). Every step changes the queue in one
of five ways (`FifoStep`: not at all, append, take the head, purge, hand back the held slot),
and each changes the mapped queue as one action of `EventStream` does (`EntriesSteps`). So packets and
events move together, although the code never relates them.

**Why a stop is quiet.** `SilentInv` adds to `StoppedIsQuiet` that the shortcut is
off: the ramp-down under way can then start nothing.

**Why the transmit buffers are safe.** `FillInv`, with and without preemption: a slot the
radio points at is committed or the one released last, and the slot being filled is
neither, as the ring keeps one slot free. That suffices for `TxFillPrivate`, even in
the window where `timer_isr` is preempted.

`TxDmaSafe`, `ReleasedAfterAir`, `TurnMatchesRadio` and `TriggerNeverFails` are false in
that window (section 2; the run `RadioLateAddress` shows it), so their theorems
assume `~RadioInTimerIsr`. `TurnsInv` lists what each turn finds the radio doing,
outside `timer_isr` (`TurnOfRadio`) and inside (`TurnOfTimer`), and that the deadline
interrupts only the wait it was set for (`DeadlineInv`): then `timer_isr` never finds a
radio that it cannot trigger. `AirInv`: the packet chosen is the one on air, and every
committed slot is ready until its own packet has ended.

**Why turns go on.** `TurnsAlternate` is a liveness property. `WaitsAreTimed` and
`TurnAdvances` are what it rests on besides fairness, and they are proved for all depths.
The first: the radio never waits for its peer without a deadline armed, unmasked and still
to come. It needs `ArmedInv`, which says that armed and unmasked go together but for one
step of `timer_isr`, and that `timer_isr` has taken both back only for a turn it is about to
end. The second orders the states of a turn by phase, radio, pending events, place in
`timer_isr` and deadline, lexicographically (`Nearer`): each step of handlers and hardware
goes on in that order, unless it ends the TX and begins the next LISTEN. So no turn goes
back or round in itself, whatever the peer sends and whenever the deadline comes, and its
length has a bound that the courses show. The proof has a lemma per agent; each needs what
`TurnsInv` says of the states it can find. What remains to TLC is that the steps are taken
at all.

### The session

**Why the numbers add up.** `PayloadsNumbered` needs that the next number is not the
reserved one and that the last slot's successor is the next number (`NumberedInv`).
`BurstsBracketLoss` needs only that nothing is counted before the start and that no
payload in the queue has the keepalive's length (`QuietInv`).

**Why `LossWithinWraps` holds.** The counter subtracts numbers; losses are payloads.
`LossInv` relates them for all payloads under way at once: the last one accounted for, the
queued ones and the one the peer sends next (`Places`). `PlacesInv`: going from one to a
later one, the payloads between them are the difference of the numbers, or at least a round
(`SEQ_MOD - 1` payloads) more; between neighbours they are at most `MaxLostRun + 1`, so
that, below half the number space, the 16-bit difference tells which. `CountInv`: no
loss is missed, and each payload counted too many stands for a round of numbers
completed before every payload still known. `Wraps` follows. The hypothesis
`MaxLostRun + 1 < HALF` is the code's own limit: from half the number space on, the
difference counts as negative and the code counts nothing. A service that ends
forgets the last number, which is where `NoServiceForgets` comes in.

### Path, clock and link test

**Why the path and the I2S thread agree.** `AgreeOnPlaying` alone says nothing of
commands under way. `PathInv` adds it in two parts. `I2sInv`: where the I2S thread is
decides what the driver and the pending count can be. `QueueInv`: from the moment it takes an
ACTIVATE until no byte is pending (`Committed`) the path is PLAYING, sends nothing and the
queue is empty; an ACTIVATE on its way has a block waiting for it; a DEACTIVATE is sent only out of
that state. The crux is the two readings: the level is read first and can only have grown
in BUFFERING; in PLAYING, pending bytes that are zero at the later reading mean that
nothing was committed. From `PathInv` the other invariants follow at once, and the refinement
takes one step of the contract per action.

**Why the controller's numbers stay in range.** The rates are guarded (`InRange`) at every
way into the driver, so each reaches the registers as a fraction of at most 2^23
(`FractionFits`, the bound the comment of `nau88l21.c:84` states), whose parts fit FLL7 and
FLL8 (`PartsFit`). The integral: clamped, or wound back only where the clamped value is
further out (`IntegralBounded`), whatever the gains and limits. The filtered level follows ten
weighted means, each between its two arguments (`FilterInBuffer`).

**Why `LevelHeld` holds.** Gains, period and limits decide it together with the offset, so
the theorem is about the program's own numbers (`ProgramNumbers`: target, buffer, nominal
rate and limits of the controller), with every one of the 601 offsets up to the 300 Hz of
`nau88l21.c:127`, where the run checks two. The level alone is not inductive, nor is any box
around level, filter and integral. `LevelInv` takes a band (`InBand`), in the level *x* and
what the integral has still to make up, *s*, the offset plus the integral: besides bounds on
each, 40*x* − *s* is bounded, that is, the level is never much further out than what is
missing accounts for. One period keeps it (`LevelStaysInBand`, `BandKept`): the level closes
on the balance, the filter on the level (`FilterCloses`: of an error of the filter a little
over a tenth is left), and where most is missing, the level is on the side from which the
integral goes back, so *s* cannot leave its bounds. In the band the proportional term does
not saturate and the rate asked for is within the limit (`AskedInRange`), and a clamp of the
integral would only make it move less (`IntegralMoves`). The rest follows the update through
its two transfers: the registers hold the rate asked for, unrounded (`RateKept`), before the
next period. The hypotheses `fll_cmds = 0` and `i2c_faults = 0` are `LevelHeld`'s own: the
level after commands and failures is `Converges`, which only TLC checks.

**Why `OneLateEach` holds.** `LateInv`: with the test off the event is clear, and a thread
still inside a queue call has done nothing since "off"; leaving the call brings it to the
event. **Why `PausedIsSilent` holds.** `BringUpInv`: no rate is fixed and no
command under way before the bring-up has ended; every other write needs an update begun
before the flag was set.

### The console

**Why `AckedModeBoots` holds.** `ModeInv`: a mode is confirmed only
after it is in flash, commands come only from a device that has booted, and one whose load
worked runs what is in flash until a save.

**Why `NoSilentTail` holds.** `LineInv`: a character that is not the first of its line
is in the FIFO only where its line can continue (`Continues`): after a character of the line,
in the buffer or in the FIFO, or after a head that was dropped with its report. Every character
the callback takes keeps this (`AssembleOK`), so what it queues is whole, merged
or reported.

### Induction over data

`Assembled` (the characters of a packet) and `Filtered` (the ten filter updates) are recursive
functions. That such a function exists, and what its values have in common, is
proved with `Induction!IntervalInduction`, which takes the property as a set: the
provers cannot instantiate the library's theorems, whose property is an operator. It rests on
the well-foundedness of `<` on the naturals.

### Only model-checked

* Liveness: `TurnsAlternate` (what it rests on besides fairness is proved), `TxQueueDrains`,
  `PathGoesOn`, `TargetStartsPlayback`, `Converges`,
  `TornHeals`, `ComesToRest`, `ReceiveDrains`. The prover has no ENABLED.

## 5. Not modelled

* **Radio and session**: register set-up in `prop_radio_init`, tick arithmetic and the
  late-deadline clamp (time is untimed here), the report and the counters it alone reads.
* **Codec driver**: register values that no code reads back or depends on.
* **Audio paths**: controller periods that fall into the codec's bring-up, of a
  tenth of a second or so, before any audio can play; the latency marker; status and warnings.
* **USB**: descriptors (tables), volume, mute and clock requests (they answer from
  fields nothing else reads), `set_itf` and `usb_audio_reset` (before audio flows), the USB core.
* **CLI**: parsing, `get` and `help`, the status subscriptions, and the writing
  of output, which is cut off when TinyUSB's FIFO is full.
* **Web client, serial bridge, host scripts**: programs outside the device. Their
  side of the command line is the host of `Console`.
* **Two ends of a link at once**: each end is modelled against an arbitrary peer,
  which contains the other end's behaviour; what two correct ends cause together (both
  transmitting in step) is not.

Exposed places that no property covers are in `PROJECT.json` under `hazards`, each with the
reason: mostly that no text says what should happen there.
