SPECIFICATION Spec
CONSTANTS
  a1 = a1
  a2 = a2
  b1 = b1
  b2 = b2
  junk = junk
  None = None
  Accounts = {a1, a2}
  Versions = {}
  CleanVersions = {}
  Patches = {1, 2, 3}
  Sources = {}
  Bodies = {b1, b2, junk}
  Demos = {b1, b2}
  Ops <- Requests
  Ids = {1, 2}
  Played <- GamesPlayed
  PatchDate <- Dates
  Now = 35
  Shelves <- SomeShelves
  MaxCalls = 1
  Pinned = {1}
  PurgeLists <- NamedGames
  DoneStart <- Markers
  MaxPercent = 50
  PrefetchMax = 1
  MaxPasses = 1
  Account = a1
  MaxPurges = 1
  Manifest <- Files
  Size <- Sizes
  Conc = 1
INVARIANTS TypeOK SweepBounded SweepSpares OnlyDemos
PROPERTIES OthersKeep
CHECK_DEADLOCK FALSE
