SPECIFICATION Spec
CONSTANTS
  Epoch = 100
  Band = 50
  Grounds = {1, 2}
  Farmers = {1, 2}
  Ents = {1, 2, 3, 4}
  Far <- Distances
  Minute = 3
  CorpseLag = 1
  Bounty = 5
  Scenarios <- Replays
INVARIANTS OneStackPerCamp
CHECK_DEADLOCK FALSE
