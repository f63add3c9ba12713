SPECIFICATION FairSpec
CONSTANTS
    Modes = {"usb", "prop_headset"}
    BLOCK = 2
    TARGET = 6
    SPK_BUFFER = 12
    SPK_PACKET = 4
    UsbSizes = {3, 5}
    MIC_BUFFER = 3
    MIC_PACKET = 2
    TX_BLOCKS = 3
    RX_BLOCKS = 3
    MaxFaults = 2
INVARIANT TypeOK
INVARIANT PathInv
INVARIANT PendingExact
INVARIANT ActivateNotSwallowed
INVARIANT AgreeOnPlaying
PROPERTY ImplementsContract
PROPERTY PathGoesOn
PROPERTY TargetStartsPlayback
