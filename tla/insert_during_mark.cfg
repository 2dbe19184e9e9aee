SPECIFICATION MCSpec
CONSTANTS
  Inserters = {i1}
  Scanners = {}
  Vac = vac
  SlotCount = 4
  PerPage = 1
  Slots <- SlotsDef
  PageOf <- PageOfDef
  HeapTids = {t1, t2, t3, t4}
  Values = {v1}
  Cleared = cleared
  MaxLevel = 0
  M = 1
  EfConstruction = 4
  EfSearch = 4
  HeapTidsMax = 1
  VersionMax = 2
  Workloads <- Filling
SYMMETRY Symmetry
CHECK_DEADLOCK FALSE
INVARIANT
  InsertsLoadIntactElements
