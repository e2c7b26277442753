\* Two rounds per thread, as in the code.
SPECIFICATION FairSpec
CONSTANTS
  NULL = NULL
  Rounds = 2
CHECK_DEADLOCK FALSE
INVARIANTS ReadsSafe RetiredOnce NoLeak
PROPERTIES Finishes
