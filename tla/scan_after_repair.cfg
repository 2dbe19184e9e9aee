SPECIFICATION MCSpec
CONSTANTS
  Inserters = {i1}
  Scanners = {s1}
  Vac = vac
  SlotCount = 2
  PerPage = 1
  Slots <- SlotsDef
  PageOf <- PageOfDef
  HeapTids = {t1, t2}
  Values = {v1}
  Cleared = cleared
  MaxLevel = 1
  M = 1
  EfConstruction = 4
  EfSearch = 4
  HeapTidsMax = 1
  VersionMax = 2
  Workloads <- Finishing
SYMMETRY Symmetry
CHECK_DEADLOCK FALSE
INVARIANT
  ScansLoadIntactElements
