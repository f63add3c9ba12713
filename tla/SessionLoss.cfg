SPECIFICATION Spec
CONSTANTS
  SEQ_MOD = 8
  SYNC_LOSS_TURNS = 2
  QUEUE_DEPTH = 1
  EVENT_QUEUE_DEPTH = 2
  TX_RING_DEPTH = 2
  RX_RING_DEPTH = 2
  AppLengths = {}
  MaxPayloads = 8
  MaxLostRun = 2
CHECK_DEADLOCK FALSE
INVARIANT LostWereLost
