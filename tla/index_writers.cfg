SPECIFICATION MCSpec
CONSTANTS
  Inserters = {i1, i2}
  Scanners = {}
  Vac = vac
  SlotCount = 3
  PerPage = 1
  Slots <- SlotsDef
  PageOf <- PageOfDef
  HeapTids = {t1, t2, t3}
  Values = {v1, v2, v3}
  Cleared = cleared
  MaxLevel = 1
  M = 1
  EfConstruction = 4
  EfSearch = 4
  HeapTidsMax = 2
  VersionMax = 2
  Workloads <- Writing
SYMMETRY Symmetry
CHECK_DEADLOCK FALSE
INVARIANTS
  TypeOK
  FreedRowsNotIndexed
  EntryPointValid
  IndexInv
  EntriesInv
  RowsUnderTheirValue
  LiveRowsIndexed
  TargetsNotReclaimed
PROPERTIES
  EntryChangesAlone
  ImplementsRowIndex
