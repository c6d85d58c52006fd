SPECIFICATION Spec
CONSTANTS
  Instances = {1, 2}
  MaxPushes = 3
INVARIANTS
  NoUnaskedOSD
CHECK_DEADLOCK FALSE
