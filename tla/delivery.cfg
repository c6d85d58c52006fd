SPECIFICATION Spec
CONSTANTS
  h1 = h1
  h2 = h2
  sdb = sdb
  sdc = sdc
  Host = {h1}
  Dev = {sdb}
  OSDDevs <- NoDisks
  JNLDevs <- NoDisks
  JnlParts <- NoParts
  OSDNum = 1
  Batches <- WithSmall
  Instances = {1, 2}
  Faults = {"repeatUpdate", "loseMessage", "containerDies", "executorFails"}
  FaultyType = {"MON", "OSD", "RADOSGW"}
  MaxFaults = 2
  MaxToken <- Tokens
  MaxRequested = 2
INVARIANTS
  ClusterBounded
  PhaseHonest
  OSDIdUnique
  RegisterGoesToInitialMon
  
  TokenUnique
CHECK_DEADLOCK FALSE
PROPERTIES
  GrantOnlyWhenComplete
  ImplementsClusterService
  ImplementsFlexUpService
