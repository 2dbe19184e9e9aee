CONSTANTS
  Leader = L
  Workers = {W1}
  r1 = r1
  r2 = r2
  r3 = r3
  r4 = r4
  a = a
  b = b
  Rows = {r1, r2, r3}
  ValueOf <- TwoEqual
  NullValue = null
  Nobody = nobody
  MaxLevel = 1
  M = 1
  HeapTidsMax = 2
  WorkMem = 7
  EstOther = 6
  Reserve = 2
  SizeMod = 64
SPECIFICATION Spec
INVARIANT MemoryInArea
