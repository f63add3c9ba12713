SPECIFICATION FairSpec
CONSTANTS
  TX_RING_DEPTH = 3
  RX_RING_DEPTH = 3
  EVENT_QUEUE_DEPTH = 2
  RadioInTimerIsr = FALSE
INVARIANT TxDmaSafe
INVARIANT TurnMatchesRadio
INVARIANT TriggerNeverFails
INVARIANT WaitsAreTimed
PROPERTY ReleasedAfterAir
PROPERTY ImplementsEventStream
PROPERTY TurnAdvances
PROPERTY TurnsAlternate
