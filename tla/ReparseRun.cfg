SPECIFICATION Spec
CONSTANTS
  w1 = w1
  w2 = w2
  w3 = w3
  planner = planner
  Items = {1, 2, 3}
  Hash <- Hashes
  AtFirst = {1, 2, 3}
  Rejected = {2}
  Flagged = {1}
  Workers = {w1, w2}
  Planner = planner
  PerMachine = 1
  MaxMachines = 3
  Parallel = 1
  MaxFailures = 1
  Options = {FALSE}
  MaxChanges = 0
  MaxFaults = 0
SYMMETRY Symm
INVARIANTS TypeOK SharedOnce OneDispatcher LastOneDispatches
PROPERTIES RefreshAfterAll
