SPECIFICATION FairSpec
CONSTANTS
  SEQ_MOD = 5
  SYNC_LOSS_TURNS = 2
  QUEUE_DEPTH = 2
  EVENT_QUEUE_DEPTH = 2
  TX_RING_DEPTH = 3
  RX_RING_DEPTH = 2
  AppLengths = {"keepalive", "other"}
  MaxPayloads = 0
  MaxLostRun = 0
CHECK_DEADLOCK FALSE
INVARIANT PayloadsNumbered
PROPERTY TxQueueDrains
