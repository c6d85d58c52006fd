SPECIFICATION Spec
CONSTANTS
  h1 = h1
  h2 = h2
  sdb = sdb
  sdc = sdc
  Host = {h1}
  Dev = {sdb, sdc}
  OSDDevs <- OSDDisk
  JNLDevs <- JnlDisk
  JnlParts <- TwoParts
  OSDNum = 3
  Batches <- OneByOne
  Instances = {1}
  Faults = {"badDisk"}
  FaultyType = {"MON", "OSD", "RADOSGW"}
  MaxFaults = 1
  MaxToken <- Tokens
  MaxRequested = 0
INVARIANTS
  FailedDiskUnused
