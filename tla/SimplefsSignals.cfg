SPECIFICATION Spec
CONSTANTS
  t1 = t1
  t2 = t2
  NoTask = NoTask
  Tasks = {t1, t2}
  Signalled = {t1, t2}
  Names <- NewNames
  Ranges <- TwoCells
  MaxDepth = 2
  IntBits = 7
  MaxObjects = 8
  BlockCells = 4
  Image <- MkfsNearlyFull
INVARIANTS NoLockLeak DistinctInodes BlocksOwned
SYMMETRY TaskSymmetry
