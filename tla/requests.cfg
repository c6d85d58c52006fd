SPECIFICATION FairSpec
CONSTANTS
  Conn = {c1, c2, c3}
  Request <- Requests
  Leftover <- AnyLeftover
  maxInstances = 2
  MaxMsgs = 1
  MaxMsgSize = 256
  MaxKills = 1
INVARIANTS
  TypeOK
PROPERTIES
  ImplementsFlexUpService
  EveryPostAnswered
  InFlightDrains
CHECK_DEADLOCK FALSE
