------------------------------ MODULE DeviceControl ---------------------------
(***************************************************************************)
(* The CLI's commands that reach into running threads, by boot mode         *)
(* (cli_cmd_fll, cli_cmd_linktest, app_control_get_current_mode): "fll"     *)
(* drives the codec's clock where there is a codec, "linktest" the test     *)
(* threads where there is a radio.  In mode "prop_headset" both exist, share *)
(* nothing but the CLI thread, and add no behaviour to the two modes here.  *)
(***************************************************************************)
EXTENDS CodecClock, LinkTest

CONSTANT ControlModes

ASSUME ControlModesAssumption == ControlModes \subseteq {"usb", "prop_dongle"}

VARIABLE current_mode

vars == <<current_mode, clock_vars, link_vars>>

Init == current_mode \in ControlModes /\ ClockInit /\ LinkInit

\* "fll not available for dongle mode".
CodecControl == current_mode # "prop_dongle" /\ ClockNext /\ UNCHANGED <<current_mode, link_vars>>

\* "linktest requires a PROP mode".
RadioControl == current_mode = "prop_dongle" /\ LinkNext /\ UNCHANGED <<current_mode, clock_vars>>

Next == CodecControl \/ RadioControl

\* Every thread that can run does, every transfer and every wait ends; nothing
\* makes the user type a command, the radio take a packet or USB move data.
Fairness ==
    LET Codec(A) == current_mode # "prop_dongle" /\ A /\ UNCHANGED <<current_mode, link_vars>>
        Radio(A) == current_mode = "prop_dongle" /\ A /\ UNCHANGED <<current_mode, clock_vars>>
    IN  /\ WF_vars(Codec(BringUp)) /\ WF_vars(Codec(Updater)) /\ WF_vars(Codec(CliWrites))
        /\ WF_vars(Radio(TestTx)) /\ WF_vars(Radio(TestRx)) /\ WF_vars(Radio(Dongle))
        /\ SF_vars(Radio(StartTraffic))

Spec == Init /\ [][Next]_vars /\ Fairness

TypeOK == ClockTypeOK /\ LinkTypeOK

\* The values of the checked instance: a source up to 300 Hz off, two rates
\* the driver takes and one it refuses.
Offsets == {-300, 300}
Rates == {48200, 49000}
===============================================================================
