CONSTANTS
  MaxNofAls = 5
  RamPages = 7
  BootRegions <- BootSmall
  PagingPages = 1
  MaxRequest = 2
  TaskIds = {t1, t2}
  Kernel = Kernel
  NoTask = NoTask
SYMMETRY TaskSymmetry
SPECIFICATION Spec
INVARIANTS Partition Coalesced LookupFindsLive FreeNeverFails
PROPERTIES SweepReleasesAll BootBlocksKept ImplementsStore
CHECK_DEADLOCK FALSE
