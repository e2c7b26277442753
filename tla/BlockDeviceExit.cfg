\* What is left of the module after its exit.
SPECIFICATION DiskSpec
CONSTANTS
  Tags = {r1}
  NoRequest = NoRequest
  Capacity = 1
  Shapes <- SmallShapes
  Values = {"x"}
CHECK_DEADLOCK FALSE
INVARIANTS CleanedUp
