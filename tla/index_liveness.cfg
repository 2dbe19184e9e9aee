SPECIFICATION MCFairSpec
CONSTANTS
  Inserters = {i1, i2}
  Scanners = {s1}
  Vac = vac
  SlotCount = 2
  PerPage = 1
  Slots <- SlotsDef
  PageOf <- PageOfDef
  HeapTids = {t1, t2}
  Values = {v1}
  Cleared = cleared
  MaxLevel = 0
  M = 1
  EfConstruction = 4
  EfSearch = 4
  HeapTidsMax = 1
  VersionMax = 2
  Workloads <- Finishing
CHECK_DEADLOCK FALSE
PROPERTIES
  VacuumTerminates
  InsertTerminates
