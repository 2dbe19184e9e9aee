SPECIFICATION FairSpec
CONSTANTS
  Inserters = {"a", "b"}
  Vacuum = "v"
  Levels = {0, 1, 2}
  EtupSize = 3
  NtupSize <- SmallNtup
  ItemIdSize = 1
  MaxSize = 13
  MaxBuilt = 1
  MaxInserts = 2
  MaxVacuums = 2
  MaxCrashes = 1
INVARIANTS PagesTypeOK LocksAscend PagesLinked TuplesPaired NoInsertFails PlacesFound
PROPERTY AllFinish
