SPECIFICATION Spec
CONSTANTS
  snowball = snowball
  launch = launch
  tag = tag
  shard = shard
  talent = talent
  attributes = attributes
  None = None
  Basics = {snowball, tag}
  Cap <- TuskCap
  Hidden = {launch}
  TwinOf <- TuskTwin
  Granted = {shard}
  Talents = {talent}
  Attributes = attributes
  SlotOrder <- TuskSlots
  Window = 2
  Settle = 1
  PointLag = 2
  UpgradeGap = 5
  MaxPoints = 3
  MaxTime = 10
  Heroes = {1, 2, 3, 4}
  Radiant = {1, 2}
  Meepo = 3
  Deaths <- TheDeaths
  Lag = 1
  FightGap = 2
  MinDeaths = 2
  LaneEnd = 3
  DeathsBound = 3
  EndTick = 5
  Items = {1, 2}
  MaxBought = 3
  ShopTicks = 3
  Placers = {1, 2}
  Light = {1}
  Owners = {1}
  Slots = {1, 2, 3}
  HornAt = 1
  Epoch = 100
  Band = 50
  Decay = {6, 7, 8}
  WardPlans <- TheWards
  LastTick = 10
  Smokers = {1, 2, 3}
  FirstSide = {1, 2}
  SmokeGap = 1
  RemoveCap = 2
  MinSmokers = 2
  MaxSmoked = 3
  SmokeTicks = 4
  Grounds = {1, 2}
  Farmers = {1, 2}
  Ents = {1, 2, 3, 4}
  Far <- Distances
  Minute = 3
  CorpseLag = 1
  Bounty = 5
  Scenarios <- Replays
  Team = {1, 2, 3, 4, 5}
  Trio = {1, 2, 3}
  Walks <- TheWalks
  Seats <- TheSeats
  HornTime = 2
  SeenLate = 2
  SpanBefore = 1
  SpanAfter = 4
  MinDead = 2
  MaxStops = 2
  NetTicks = 9
INVARIANTS
  PaidOnce
  BuildIsWhatWasChosen
  DeathsListedOnce
  AssistsAddUp
  TeamfightsAreStretches
  BoughtOnce
  WardsEndAsTheyDid
  BountiesPaidOnce
  SmokesAreStretches
  RoutesEndWithTheSmoke
  BansAreMissedSpawns
  StacksOnTheirCamps
  ClearedOnce
  PositionsPermute
  LaneStoodIsReported
  ClockFollowsTheGame
  DeadTimesAreReal
CHECK_DEADLOCK FALSE
