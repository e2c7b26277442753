\* Two of every kind of caller; the mutex device with short and whole transfers.
SPECIFICATION MCSpec
CONSTANTS
  Threads = {t1, t2}
  NoThread = NoThread
  Values = {"2", "3"}
  BuffSize = 3
  Sizes = {1, 3}
  Erased = "0"
  Procs = {p1, p2}
  Cells = 2
  Touched = 1
  Increment = 200
  MaxMaps = 2
  Users = {u1, u2}
  Subscribers = {s1, s2}
  Writers = {w1, w2}
CHECK_DEADLOCK FALSE
INVARIANTS  TestShows OwnAnswer CallsLoaded EachOnce
PROPERTIES AtomicDevice CallersReturn
