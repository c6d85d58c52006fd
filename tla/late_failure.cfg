SPECIFICATION FairSpec
CONSTANTS
  h1 = h1
  h2 = h2
  sdb = sdb
  sdc = sdc
  Host = {h1}
  Dev = {sdb}
  OSDDevs <- NoDisks
  JNLDevs <- NoDisks
  JnlParts <- NoParts
  OSDNum = 3
  Batches <- OneByOne
  Instances = {1}
  Faults = {"startFails"}
  FaultyType = {"MON", "OSD", "RADOSGW"}
  MaxFaults = 1
  MaxToken <- Tokens
  MaxRequested = 0
PROPERTIES
  Bootstrapped
