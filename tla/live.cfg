SPECIFICATION FairSpec
CONSTANTS
  h1 = h1
  h2 = h2
  sdb = sdb
  sdc = sdc
  Host = {h1}
  Dev = {sdb}
  OSDDevs <- NoDisks
  JNLDevs <- NoDisks
  JnlParts <- NoParts
  OSDNum = 2
  Batches <- OneByOne
  Instances = {1, 2}
  Faults = {"launchFails"}
  FaultyType = {"OSD", "RADOSGW"}
  MaxFaults = 1
  MaxToken <- Tokens
  MaxRequested = 2
INVARIANTS
  RequestsConserved
PROPERTIES
  Bootstrapped
  FlexUpServed
