\* Lines, commands, reboots and power failures.
SPECIFICATION Spec
CONSTANTS
    MAX = 2
    PACKET = 4
    DEPTH = 1
    Modes = {"usb", "prop_headset"}
    MaxPowerCycles = 2
    MaxFlashFaults = 1
INVARIANTS TypeOK NoSilentTail AckedModeBoots
PROPERTY ModeFixedOnceUp
