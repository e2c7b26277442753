SPECIFICATION FairSpec
CONSTANTS
  t1 = t1
  t2 = t2
  NoTask = NoTask
  Tasks = {t1, t2}
  Signalled = {}
  Names <- NewNames
  Ranges <- TwoCells
  MaxDepth = 2
  IntBits = 8
  MaxObjects = 8
  BlockCells = 4
  Image <- FormattedWithDirectory
PROPERTY CallsReturn
