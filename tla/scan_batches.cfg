SPECIFICATION FairSpec
CONSTANTS
  Places = {1, 2, 3, 4}
  Distances = {0, 1}
  Setups <- AllSetups
  VersionMax = 15
INVARIANTS
  ScanTypeOK
  RowsOnce
  OrderedOutput
  FirstBatchOptimal
  NothingLost
  VersionsTell
PROPERTY ScanTerminates
