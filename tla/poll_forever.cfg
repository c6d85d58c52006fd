SPECIFICATION FairSpec
CONSTANTS
  m0 = m0
  o1 = o1
  o10 = o10
  NoExec = NoExec
  Exec = {m0, o1, o10}
  Task <- Tasks
  Grep <- Prefix
  HasDisk = {o1}
  Faults = {"noContainer"}
  MaxFaults = 1
  MaxRun = 0
PROPERTY HandlerReturns
CHECK_DEADLOCK FALSE
