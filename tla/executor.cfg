SPECIFICATION Spec
CONSTANTS
  m0 = m0
  o1 = o1
  o10 = o10
  NoExec = NoExec
  Exec = {m0, o1, o10}
  Task <- Tasks
  Grep <- Prefix
  HasDisk = {o1}
  Faults = {"noContainer", "exits", "noAnswer", "mountFails", "dies",
            "repeatUpdate"}
  MaxFaults = 2
  MaxRun = 1
INVARIANTS
  TypeOK
  ShutdownRemoves
  NoFaultNoFailure
PROPERTIES
  RunningHasContainer
  DataCleared
  ImplementsCephExecutor
CHECK_DEADLOCK FALSE
