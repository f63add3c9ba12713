--------------------------------- MODULE Console ------------------------------
(***************************************************************************)
(* The command line and the boot mode: the USB thread assembles lines from  *)
(* CDC packets (usb_cdc.c) and queues them, the CLI thread takes and        *)
(* executes them (cli.c), "set mode" saves the mode and reboots, and        *)
(* app_control.c loads it before it lets the USB thread start.  Power may   *)
(* fail at any step.                                                        *)
(*                                                                          *)
(* A character is "b", the first that the host types of a line, "m", any    *)
(* later one, or an end of line, "n" or "r".  What a line says is left to   *)
(* the thread that executes it: any line may be any command.                *)
(***************************************************************************)
EXTENDS Integers, Sequences, FiniteSets, SequencesExt

CONSTANTS MAX,          \* CLI_MAX_CMD_LEN - 1
          PACKET,       \* bound: characters in a CDC packet
          DEPTH,        \* CLI_QUEUE_DEPTH
          Modes,        \* enum app_mode, APP_MODE_USB among them
          MaxPowerCycles, MaxFlashFaults    \* bounds

ASSUME ConsoleAssumption ==
    /\ {MAX, PACKET, DEPTH} \subseteq Nat \ {0}
    /\ {MaxPowerCycles, MaxFlashFaults} \subseteq Nat
    /\ "usb" \in Modes /\ "none" \notin Modes

VARIABLES
    nv_mode, current_mode,              \* settings key "mode/active"; the mode
    boot, usb,                          \* main thread, USB device
    typing, rx_ff,                      \* host within a line; CDC receive FIFO
    s_cli_line,
    cli_msgq, cli_output_msgq,          \* lines by their history; a count
    cpc, target,                        \* CLI thread, and the mode it saved
    cut,                                \* history: what became of the head of the line
    acked, misread,                     \* history: mode last confirmed; a load failed
    cycles, faults

flash == <<nv_mode, faults>>
mode == <<current_mode, boot>>
assembler == <<typing, rx_ff, s_cli_line, cut>>
console == <<cli_msgq, cli_output_msgq>>
thread == <<cpc, target>>
promise == <<acked, misread>>
vars == <<flash, mode, usb, assembler, console, thread, promise, cycles>>

\* RAM after power on; current_mode is initialised to APP_MODE_USB.
PowerUp ==
    /\ current_mode' = "usb" /\ boot' = "off" /\ usb' = "off"
    /\ typing' = FALSE /\ rx_ff' = <<>> /\ s_cli_line' = <<>> /\ cut' = "no"
    /\ cli_msgq' = <<>> /\ cli_output_msgq' = 0 /\ cpc' = "off" /\ target' = "usb"

\* A new device has no setting.
Init ==
    /\ nv_mode = "none" /\ faults = 0 /\ cycles = 0
    /\ current_mode = "usb" /\ boot = "off" /\ usb = "off"
    /\ typing = FALSE /\ rx_ff = <<>> /\ s_cli_line = <<>> /\ cut = "no"
    /\ cli_msgq = <<>> /\ cli_output_msgq = 0
    /\ cpc = "off" /\ target = "usb"
    /\ acked = "none" /\ misread = FALSE

FlashFault == faults < MaxFlashFaults /\ faults' = faults + 1

-------------------------------------------------------------------------------
(* Boot: app_control_boot in the main thread, then the USB device thread.     *)

\* No setting, a failed load or a value out of range: APP_MODE_USB.
Loaded(setting) == IF setting \in Modes THEN setting ELSE "usb"
LoadMode ==
    /\ boot = "off" /\ boot' = "loaded"
    /\ \/ /\ current_mode' = Loaded(nv_mode) /\ UNCHANGED <<faults, misread>>
       \/ current_mode' = "usb" /\ misread' = TRUE /\ FlashFault
    /\ UNCHANGED <<nv_mode, usb, assembler, console, thread, acked, cycles>>

\* Session and path of the mode, then k_sem_give(&boot_sem).
StartPath ==
    /\ boot = "loaded" /\ boot' = "done"
    /\ UNCHANGED <<flash, current_mode, usb, assembler, console, thread,
                   promise, cycles>>

\* Mutant of UsbStart: USB does not wait.
UsbStartEarly ==
    /\ usb = "off" /\ usb' = "up"
    /\ s_cli_line' = <<>>
    /\ UNCHANGED <<flash, mode, typing, rx_ff, cut, console, thread, promise, cycles>>

\* app_control_await_boot, low-level init (tried until it works),
\* usb_device_start.
UsbStart ==
    /\ boot = "done" /\ usb = "off" /\ usb' = "up"
    /\ s_cli_line' = <<>>
    /\ UNCHANGED <<flash, mode, typing, rx_ff, cut, console, thread, promise, cycles>>

-------------------------------------------------------------------------------
(* The USB thread: lines from packets.                                        *)

\* cli_enqueue_command_line and cli_enqueue_print_msg: K_NO_WAIT, a full queue
\* drops.
PutLine(lines, line) == IF Len(lines) < DEPTH THEN Append(lines, line) ELSE lines
PutReport(reports) == IF reports < DEPTH THEN reports + 1 ELSE reports
Reported(reports) == IF reports < DEPTH THEN "told" ELSE "crowded"

\* What the host knows of a line that ends here: "whole", "merged" with one it
\* never ended, or the rest of one whose head is gone.
Fate(line, head) ==
    IF Head(line) # "b" THEN head
    ELSE IF \E i \in 2 .. Len(line) : line[i] = "b" THEN "merged" ELSE "whole"

\* One character in tud_cdc_rx_wanted_cb.
\* Mutant of Assemble: an overlong line is dropped without a report.
AssembleQuietly(s, c) ==
    IF c \in {"n", "r"}
    THEN [s EXCEPT !.lines = IF s.overflowed \/ s.line = <<>> THEN s.lines
                             ELSE PutLine(s.lines, Fate(s.line, s.head)),
                   !.line = <<>>, !.overflowed = FALSE, !.head = "no"]
    ELSE IF s.overflowed THEN s
    ELSE IF Len(s.line) < MAX THEN [s EXCEPT !.line = Append(s.line, c)]
    ELSE [s EXCEPT !.line = <<>>, !.overflowed = TRUE]

Assemble(s, c) ==
    IF c \in {"n", "r"}
    THEN [s EXCEPT !.lines = IF s.overflowed \/ s.line = <<>> THEN s.lines
                             ELSE PutLine(s.lines, Fate(s.line, s.head)),
                   !.line = <<>>, !.overflowed = FALSE, !.head = "no"]
    ELSE IF s.overflowed THEN s
    ELSE IF Len(s.line) < MAX THEN [s EXCEPT !.line = Append(s.line, c)]
    ELSE [s EXCEPT !.line = <<>>, !.overflowed = TRUE,
                   !.reports = PutReport(s.reports), !.head = Reported(s.reports)]

\* tud_cdc_rx_wanted_cb: the whole FIFO; "overflowed" is local to the call.
Entered == [line |-> s_cli_line, overflowed |-> FALSE, head |-> cut,
            lines |-> cli_msgq, reports |-> cli_output_msgq]
Assembled(ff) ==
    LET s[k \in 0 .. Len(ff)] == IF k = 0 THEN Entered ELSE Assemble(s[k - 1], ff[k])
    IN  s[Len(ff)]
Wanted(ff) ==
    LET s == Assembled(ff)
    IN  /\ rx_ff' = <<>> /\ s_cli_line' = s.line /\ cut' = s.head
        /\ cli_msgq' = s.lines /\ cli_output_msgq' = s.reports

\* Mutant of Received: the terminator is forgotten in the count.
ReceivedTight(ff) ==
    IF Len(ff) <= MAX
    THEN rx_ff' = ff /\ UNCHANGED <<s_cli_line, cut, console>>
    ELSE /\ rx_ff' = <<>> /\ s_cli_line' = <<>>
         /\ cli_output_msgq' = PutReport(cli_output_msgq)
         /\ cut' = Reported(cli_output_msgq) /\ UNCHANGED cli_msgq

\* tud_cdc_rx_cb: a FIFO without an end of line is thrown away at full length.
Received(ff) ==
    IF Len(ff) < MAX
    THEN rx_ff' = ff /\ UNCHANGED <<s_cli_line, cut, console>>
    ELSE /\ rx_ff' = <<>> /\ s_cli_line' = <<>>
         /\ cli_output_msgq' = PutReport(cli_output_msgq)
         /\ cut' = Reported(cli_output_msgq) /\ UNCHANGED cli_msgq

\* The keys of a packet as the characters of lines.
Typed(keys) ==
    [i \in DOMAIN keys |->
        IF keys[i] # "x" THEN keys[i]
        ELSE IF i = 1 THEN IF typing THEN "m" ELSE "b"
        ELSE IF keys[i - 1] = "x" THEN "m" ELSE "b"]

\* A packet: the wanted callback if a newline is in it, else the plain one.
Packet(keys) ==
    /\ usb = "up"
    /\ typing' = (Last(keys) = "x")
    /\ LET ff == rx_ff \o Typed(keys)
       IN  IF "n" \in ToSet(keys) THEN Wanted(ff) ELSE Received(ff)
    /\ UNCHANGED <<flash, mode, usb, thread, promise, cycles>>

\* tud_cdc_line_state_cb: the terminal opens or closes; the host's line ends
\* with its terminal, the firmware's does not.
LineState ==
    /\ usb = "up" /\ typing' = FALSE
    /\ UNCHANGED <<flash, mode, usb, rx_ff, s_cli_line, cut, console, thread, promise, cycles>>

\* usb_cdc_on_unmount; TinyUSB empties its FIFO.
Unmount ==
    /\ usb = "up" /\ typing' = FALSE /\ rx_ff' = <<>> /\ s_cli_line' = <<>> /\ cut' = "no"
    /\ UNCHANGED <<flash, mode, usb, console, thread, promise, cycles>>

-------------------------------------------------------------------------------
(* The CLI thread.                                                            *)

\* cli_init.
CliInit ==
    /\ cpc = "off" /\ cpc' = "get" /\ cli_msgq' = <<>> /\ cli_output_msgq' = 0
    /\ UNCHANGED <<flash, mode, usb, assembler, target, promise, cycles>>

\* k_msgq_get for 10 ms.
GetLine ==
    /\ cpc = "get"
    /\ \/ cli_msgq # <<>> /\ cli_msgq' = Tail(cli_msgq) /\ cpc' = "line"
       \/ cli_msgq = <<>> /\ cpc' = "out" /\ UNCHANGED cli_msgq
    /\ UNCHANGED <<flash, mode, usb, assembler, cli_output_msgq, target,
                   promise, cycles>>

\* A command that only answers, or that DeviceControl models.
Answer ==
    /\ cpc = "line" /\ cpc' = "out"
    /\ UNCHANGED <<flash, mode, usb, assembler, console, target, promise, cycles>>

\* One report is written, then the status pushes that are due.
WriteReport ==
    /\ cpc = "out" /\ cpc' = "get"
    /\ cli_output_msgq' = IF cli_output_msgq > 0 THEN cli_output_msgq - 1 ELSE 0
    /\ UNCHANGED <<flash, mode, usb, assembler, cli_msgq, target, promise, cycles>>

\* "set mode" with the mode that runs: OK, and nothing is saved.
KeepMode ==
    /\ cpc = "line" /\ cpc' = "out" /\ acked' = current_mode
    /\ UNCHANGED <<flash, mode, usb, assembler, console, target, misread, cycles>>

\* "set mode" with another: app_control_save_boot_mode; "persist_failed" if
\* the settings refuse.
\* Mutant of SaveMode: the result of settings_save_one is not looked at.
SaveModeBlindly(m) ==
    /\ cpc = "line" /\ m # current_mode
    /\ \/ nv_mode' = m /\ UNCHANGED faults
       \/ FlashFault /\ UNCHANGED nv_mode
    /\ cpc' = "saved" /\ target' = m /\ acked' = "none" /\ misread' = FALSE
    /\ UNCHANGED <<mode, usb, assembler, console, cycles>>

SaveMode(m) ==
    /\ cpc = "line" /\ m # current_mode
    /\ \/ /\ nv_mode' = m /\ cpc' = "saved" /\ target' = m
          /\ acked' = "none" /\ misread' = FALSE /\ UNCHANGED faults
       \/ /\ FlashFault /\ cpc' = "out"
          /\ UNCHANGED <<nv_mode, target, promise>>
    /\ UNCHANGED <<mode, usb, assembler, console, cycles>>

\* "OK mode=... rebooting...", flush, 50 ms.
ConfirmMode ==
    /\ cpc = "saved" /\ cpc' = "rebooting" /\ acked' = target
    /\ UNCHANGED <<flash, mode, usb, assembler, console, target, misread, cycles>>

\* sys_reboot, for the new mode or by "reset".
Reboot ==
    /\ cpc \in {"rebooting", "line"} /\ cycles < MaxPowerCycles /\ cycles' = cycles + 1
    /\ PowerUp /\ UNCHANGED <<flash, promise>>

PowerLoss ==
    /\ boot # "off" /\ cycles < MaxPowerCycles /\ cycles' = cycles + 1
    /\ PowerUp /\ UNCHANGED <<flash, promise>>

CliThread == \/ CliInit \/ GetLine \/ Answer \/ WriteReport
             \/ KeepMode \/ (\E m \in Modes : SaveMode(m)) \/ ConfirmMode \/ Reboot

\* At most two line ends in a packet, one of them a carriage return.
Ends(keys, ends) == {i \in DOMAIN keys : keys[i] \in ends}
Keys == {keys \in UNION {[1 .. n -> {"x", "n", "r"}] : n \in 1 .. PACKET} :
            Cardinality(Ends(keys, {"n", "r"})) <= 2 /\ Cardinality(Ends(keys, {"r"})) <= 1}

Next == \/ LoadMode \/ StartPath \/ UsbStart
        \/ (\E keys \in Keys : Packet(keys)) \/ LineState
        \/ Unmount \/ CliThread \/ PowerLoss

Spec == Init /\ [][Next]_vars

-------------------------------------------------------------------------------
(* Properties.                                                               *)

\* Between two callbacks no newline waits, and the room for one is there.
TypeOK ==
    /\ nv_mode \in Modes \cup {"none"} /\ current_mode \in Modes /\ target \in Modes
    /\ boot \in {"off", "loaded", "done"} /\ usb \in {"off", "up"}
    /\ ToSet(rx_ff) \subseteq {"b", "m", "r"} /\ Len(rx_ff) < MAX
    /\ ToSet(s_cli_line) \subseteq {"b", "m"} /\ Len(s_cli_line) <= MAX
    /\ Len(cli_msgq) <= DEPTH /\ cli_output_msgq \in 0 .. DEPTH
    /\ cpc \in {"off", "get", "line", "out", "saved", "rebooting"}
    /\ acked \in Modes \cup {"none"} /\ {typing, misread} \subseteq BOOLEAN

\* A line never loses its head in silence: the tail of an overlong line, which
\* a later callback takes for a line of its own and queues, has the report
\* "Command doesn't end with a newline" before it (or found the report queue
\* full).
NoSilentTail == "no" \notin ToSet(cli_msgq)

\* What keeps the promise: commands come only from a device that has booted;
\* a saved mode is confirmed only after it is in the setting; and a device whose
\* load worked runs the setting, until a new one is saved.
ModeInv ==
    /\ {acked, nv_mode} \subseteq Modes \cup {"none"} /\ current_mode \in Modes
    /\ usb \in {"off", "up"} /\ (usb = "up" => boot = "done")
    /\ (cpc \in {"line", "saved", "rebooting"} \/ cli_msgq # <<>>) => usb = "up"
    /\ cpc = "saved" => target = nv_mode /\ target \in Modes /\ acked = "none"
    /\ ~misread => /\ acked # "none" => acked = Loaded(nv_mode)
                   /\ boot # "off" /\ cpc \notin {"saved", "rebooting"}
                        => current_mode = Loaded(nv_mode)

\* A mode that "set mode" has confirmed is the mode of every later boot, over
\* reboots and power failures at any step, as long as no load of the setting
\* has failed since the last save.
AckedModeBoots ==
    (boot # "off" /\ cpc # "rebooting" /\ acked # "none" /\ ~misread) => current_mode = acked

\* Once the host can see the device its mode, and with it the descriptors and
\* the path, stays until power goes: the semaphore holds USB back.
ModeFixedOnceUp == [][usb = "up" => mode' = mode \/ usb' = "off"]_vars

\* Why no tail is silent: what carries TypeOK and NoSilentTail.

\* What is known of a line's head, or of a whole line.
Heads == {"no", "told", "crowded"}
Histories == Heads \cup {"merged", "whole"}

\* A character that is not the first of its line may come now: its line has
\* begun in s_cli_line, or its head has been dropped, with a report.
Continues(line, head) == line # <<>> \/ head # "no"

\* What the USB thread holds of lines, before and after each character.
AssemblerOK(line, head, lines, reports) ==
    /\ line \in Seq({"b", "m"}) /\ Len(line) <= MAX
    /\ head \in Heads
    /\ line # <<>> => Head(line) = "b" \/ head # "no"
    /\ lines \in Seq(Histories \ {"no"}) /\ Len(lines) <= DEPTH
    /\ reports \in 0 .. DEPTH

\* The FIFO holds an end of line or the continuation of what came before it, and
\* a host that is within a line has sent its beginning.
LineInv ==
    /\ AssemblerOK(s_cli_line, cut, cli_msgq, cli_output_msgq)
    /\ rx_ff \in Seq({"b", "m", "r"}) /\ Len(rx_ff) < MAX
    /\ \A i \in DOMAIN rx_ff : rx_ff[i] = "m" =>
          IF i = 1 THEN Continues(s_cli_line, cut) ELSE rx_ff[i - 1] # "r"
    /\ typing \in BOOLEAN
    /\ typing => IF rx_ff = <<>> THEN Continues(s_cli_line, cut) ELSE Last(rx_ff) # "r"
    /\ usb = "off" => s_cli_line = <<>> /\ cut = "no" /\ rx_ff = <<>> /\ ~typing
===============================================================================
