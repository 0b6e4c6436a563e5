SPECIFICATION FairSpec
CONSTANTS
  w1 = w1
  w2 = w2
  w3 = w3
  planner = planner
  Items = {1}
  Hash <- Hashes
  AtFirst = {1}
  Rejected = {}
  Flagged = {1}
  Workers = {w1, w2}
  Planner = planner
  PerMachine = 1
  MaxMachines = 2
  Parallel = 1
  MaxFailures = 1
  Options = {FALSE}
  MaxChanges = 0
  MaxFaults = 1
PROPERTIES RunIsRefreshed
