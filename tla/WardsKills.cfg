SPECIFICATION Spec
CONSTANTS
  Epoch = 100
  Band = 50
  Placers = {1}
  Light = {1}
  Owners = {1}
  Slots = {1, 2, 3}
  HornAt = 1
  Decay = {8}
  WardPlans <- TheWards
  LastTick = 10
INVARIANTS AllKillsFlagged
CHECK_DEADLOCK FALSE
