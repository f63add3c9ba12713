SPECIFICATION Spec
CONSTANTS
  TX_RING_DEPTH = 2
  RX_RING_DEPTH = 2
  EVENT_QUEUE_DEPTH = 2
  RadioInTimerIsr = TRUE
PROPERTY LateAddressIgnored
