SPECIFICATION Spec
CONSTANTS
  EditValues = {2}
  MaxEdits = 1
  Disks <- MCDisks
  OctetBits = 2
  Octets = 2
  Cases <- MCCases
  DiskLists <- MCDiskLists
  PartCounts <- MCPartCounts
  Networks <- MCNetworks
INVARIANTS
  HostSettingsWin
  PartitionsFit
  ReportRead
  MonInPublicNetwork
CHECK_DEADLOCK FALSE
