SPECIFICATION FairSpec
CONSTANTS
    Modes = {"prop_headset"}
    BLOCK = 2
    TARGET = 6
    SPK_BUFFER = 12
    SPK_PACKET = 4
    UsbSizes = {3, 5}
    MIC_BUFFER = 3
    MIC_PACKET = 2
    TX_BLOCKS = 3
    RX_BLOCKS = 3
    MaxFaults = 0
PROPERTY PlayingMeansFeeding
