\* The documented promise of fll_set_fixed, without any failure.
SPECIFICATION ClockSpec
CONSTANTS
    TARGET = 960
    BUFFER = 1920
    NOMINAL = 48000
    FLL_ADJUST_MAX_HZ = 800
    P_TERM_MAX_HZ = 400
    I_MAX_HZ = 400
    SourceOffsets = {300}
    CliRates = {48200}
    MaxFaults = 0
    MaxFll = 1
    Window = 3
INVARIANT FixedTargetApplied
