SPECIFICATION Spec
CONSTANTS
  h1 = h1
  h2 = h2
  sdb = sdb
  sdc = sdc
  Host = {h1}
  Dev = {sdb}
  OSDDevs <- NoDisks
  JNLDevs <- NoDisks
  JnlParts <- NoParts
  OSDNum = 2
  Batches <- OneByOne
  Instances = {1}
  Faults = {"launchFails", "startFails", "executorFails", "executorLost"}
  FaultyType = {"MON", "OSD", "RADOSGW"}
  MaxFaults = 2
  MaxToken <- Tokens
  MaxRequested = 0
INVARIANTS
  TypeOK
  ClusterBounded
  PhaseHonest
  OneIdPerTask
