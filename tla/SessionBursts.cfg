SPECIFICATION Spec
CONSTANTS
  SEQ_MOD = 16
  SYNC_LOSS_TURNS = 2
  QUEUE_DEPTH = 1
  EVENT_QUEUE_DEPTH = 1
  TX_RING_DEPTH = 2
  RX_RING_DEPTH = 2
  AppLengths = {}
  MaxPayloads = 10
  MaxLostRun = 5
CHECK_DEADLOCK FALSE
INVARIANT BurstsBracketLoss
