SPECIFICATION Spec
CONSTANTS
  TX_RING_DEPTH = 2
  RX_RING_DEPTH = 2
  EVENT_QUEUE_DEPTH = 2
  RadioInTimerIsr = TRUE
INVARIANT TypeOK
INVARIANT RadioInv
INVARIANT EventSlotMatch
INVARIANT RxDmaSafe
INVARIANT TxFillPrivate
INVARIANT StoppedIsQuiet
