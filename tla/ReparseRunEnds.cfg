SPECIFICATION FairSpec
CONSTANTS
  w1 = w1
  w2 = w2
  w3 = w3
  planner = planner
  Items = {1, 2}
  Hash <- Hashes
  AtFirst = {1}
  Rejected = {2}
  Flagged = {}
  Workers = {w1}
  Planner = planner
  PerMachine = 1
  MaxMachines = 2
  Parallel = 1
  MaxFailures = 1
  Options = {TRUE}
  MaxChanges = 1
  MaxFaults = 1
PROPERTIES RefreshAfterAll NothingForgotten RunEnds
