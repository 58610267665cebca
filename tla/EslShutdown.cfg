\* Channels and a buffer of one event each, so that a third event already
\* meets every full queue, and few enough attempts to give up.
CONSTANTS
  MaxSize = 1
  BatchCap = 1
  EventCap = 1
  MaxRetries = 3
  InitialBackoff = 1
  MaxBackoff = 3
  Threshold = 1
  MaxEvents = 3
  MaxLosses = 1
SPECIFICATION Spec
INVARIANT GracefulShutdown
CHECK_DEADLOCK FALSE
