\* The commands "fll" and "linktest" against the threads they reach into, with
\* the program's own numbers.  CHECK_DEADLOCK stays on: nothing here may stop.
SPECIFICATION Spec
CONSTANTS
    ControlModes = {"usb", "prop_dongle"}
    TARGET = 960
    BUFFER = 1920
    NOMINAL = 48000
    FLL_ADJUST_MAX_HZ = 800
    P_TERM_MAX_HZ = 400
    I_MAX_HZ = 400
    SourceOffsets <- Offsets
    CliRates <- Rates
    MaxFaults = 1
    MaxFll = 2
    Window = 2
    DEPTH = 2
    OUT_CAP = 2
    IN_CAP = 2
INVARIANTS TypeOK LevelHeld OneLateEach
PROPERTIES Converges TornHeals PausedIsSilent ComesToRest ReceiveDrains
