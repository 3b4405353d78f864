\* Enough rank calls in a window to matter.
CONSTANTS
  worker = worker
  api = api
  AMERICAS = AMERICAS
  Callers = {worker, api}
  Interactive = {api}
  Routes = {AMERICAS}
  Bucket = 4
  Reserve = 1
  Interval = 2
  Window = 2
  MaxDesired = 2
  MaxNow = 3
  Regions <- MCRegions
  Order <- MCOrder
  RegionOf <- MCRegionOf
  AccountOf <- MCAccountOf
  RankMax = 1
  AliasMax = 1
  MatchMax = 0
  IdleSleep = 1
  Retries = 1
  MaxSleep = 1
  MaxRanks = 3
SPECIFICATION LimitsSpec
INVARIANT RanksShareRegionBudget
CHECK_DEADLOCK FALSE
