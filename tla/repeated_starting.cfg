SPECIFICATION Spec
CONSTANTS
  h1 = h1
  h2 = h2
  sdb = sdb
  sdc = sdc
  Host = {h1}
  Dev = {sdb}
  OSDDevs <- NoDisks
  JNLDevs <- NoDisks
  JnlParts <- NoParts
  OSDNum = 3
  Batches <- GoodOnly
  Instances = {1}
  Faults = {"repeatUpdate"}
  FaultyType = {"MON", "OSD", "RADOSGW"}
  MaxFaults = 1
  MaxToken <- Tokens
  MaxRequested = 0
INVARIANTS
  OneIdPerTask
