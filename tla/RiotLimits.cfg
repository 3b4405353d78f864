\* A bucket of four less a reserve of one leaves three usable requests per
\* window of two ticks: one for each lane of a platform.
CONSTANTS
  worker = worker
  api = api
  AMERICAS = AMERICAS
  Callers = {worker, api}
  Interactive = {api}
  Routes = {AMERICAS}
  Bucket = 4
  Reserve = 1
  Interval = 2
  Window = 2
  MaxDesired = 2
  MaxNow = 3
  Regions <- MCRegions
  Order <- MCOrder
  RegionOf <- MCRegionOf
  AccountOf <- MCAccountOf
  RankMax = 1
  AliasMax = 1
  MatchMax = 0
  IdleSleep = 1
  Retries = 1
  MaxSleep = 1
  MaxRanks = 1
SPECIFICATION LimitsSpec
INVARIANT TypeOK
INVARIANT TableTypeOK
INVARIANT OwnGrantBound
INVARIANT RegionWindowBound
PROPERTY OverGrantNeedsRace
PROPERTY DeferredOnlyWhenShort
PROPERTY RestsAfterRateLimit
PROPERTY NeverOversleeps
CHECK_DEADLOCK FALSE
