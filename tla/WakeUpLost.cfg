\* The wake-up that comes before the sleep.
SPECIFICATION WakeSpec
CONSTANTS
  Timeout = 3
  Latency = 2
CHECK_DEADLOCK FALSE
INVARIANTS WokenBeforeTimeout
