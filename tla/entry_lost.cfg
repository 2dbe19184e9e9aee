SPECIFICATION CrowdedSpec
CONSTANTS
  Inserters = {i1}
  Scanners = {}
  Vac = vac
  SlotCount = 6
  PerPage = 6
  Slots <- SlotsDef
  PageOf <- PageOfDef
  HeapTids = {t1, t2, t3, t4, t5, t6}
  Values = {v1}
  Cleared = cleared
  MaxLevel = 0
  M = 2
  EfConstruction = 6
  EfSearch = 6
  HeapTidsMax = 1
  VersionMax = 15
  Workloads <- Crowding
SYMMETRY Symmetry
CHECK_DEADLOCK FALSE
INVARIANT
  EntryRestored
