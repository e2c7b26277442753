\* A thread of wake_up may be scheduled at any jiffy before the timeout.
SPECIFICATION MCSpec
CONSTANTS
  Timeout = 16
  Latency = 15
CHECK_DEADLOCK FALSE
INVARIANTS NoDanglingWalk NoStrayWork WorkDone SenderCleansUp
PROPERTIES WaitsEnd
