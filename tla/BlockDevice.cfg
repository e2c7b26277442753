\* Two requests in flight on a device of three sectors.
SPECIFICATION DiskSpec
CONSTANTS
  Tags = {r1, r2}
  NoRequest = NoRequest
  Capacity = 3
  Shapes <- SmallShapes
  Values = {"x", "y"}
SYMMETRY TagSymmetry
CHECK_DEADLOCK FALSE
INVARIANTS NeverBug Transferred ServedWhileHeld 
