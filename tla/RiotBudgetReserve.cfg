\* What is left to a player's request when the worker has had the usable part
\* of its route.
CONSTANTS
  worker = worker
  api = api
  AMERICAS = AMERICAS
  Callers = {worker, api}
  Interactive = {api}
  Routes = {AMERICAS}
  Bucket = 4
  Reserve = 1
  Interval = 2
  Window = 2
  MaxDesired = 2
  MaxNow = 4
  Regions <- MCRegions
  Order <- MCOrder
  RegionOf <- MCRegionOf
  AccountOf <- MCAccountOf
  RankMax = 1
  AliasMax = 1
  MatchMax = 0
  IdleSleep = 1
  Retries = 1
  MaxSleep = 1
  MaxRanks = 1
SPECIFICATION LimitsSpec
INVARIANT ReserveServesPlayers
CHECK_DEADLOCK FALSE
