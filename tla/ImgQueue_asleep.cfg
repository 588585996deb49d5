SPECIFICATION Spec
CONSTANTS
  p1 = p1  p2 = p2  p3 = p3  c1 = c1  c2 = c2
  i1 = i1  i2 = i2  i3 = i3  i4 = i4
  NoImg = NoImg
  Producer <- MCProducer
  Consumer <- MCConsumer
  Img <- MCImg
  Mem <- MixedMem
  Capacity = 3
  MaxMem = 4
INVARIANTS
  BlockedOnlyWhileFull
