SPECIFICATION Spec
CONSTANTS
  h1 = h1
  h2 = h2
  sdb = sdb
  sdc = sdc
  Host = {h1, h2}
  Dev = {sdb, sdc}
  OSDDevs <- OSDDisk
  JNLDevs <- JnlDisk
  JnlParts <- TwoParts
  OSDNum = 2
  Batches <- Pairs
  Instances = {1}
  Faults = {"repeatUpdate", "diskDies", "badDisk", "launchFails", "executorFails"}
  FaultyType = {"MON", "OSD", "RADOSGW"}
  MaxFaults = 1
  MaxToken <- Tokens
  MaxRequested = 1
INVARIANTS
  OnlyFirstMonInitial
  PartitionExclusive
  DisksBeforeSystemDisk
PROPERTIES
  OneTaskPerOffer
