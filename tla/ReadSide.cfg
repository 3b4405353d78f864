\* The compiled read models, their scheduling and the pages made from them.
CONSTANTS
  Games <- MCGames
  WinGames <- MCWinGames
  Platforms <- MCPlatforms
  PlatformOf <- MCPlatformOf
  Refreshers <- MCRefreshers
  BatchSize = 1
  MaxRuns = 2
  Layouts <- MCLayouts
  Won <- MCWon
  Bought <- MCBought
  Cost <- MCCost
  CompletionItems = {3, 4}
  StartingItems = {1}
  StartWindow = 50
  FirstWindow = 45
  BurstWindow = 20
  GoldCap = 500
  Skilled = {"m1"}
  Banned = {"m2"}
  Matched <- MCGames
  Runed <- MCGames
  Cored <- MCGames
  Second = 2
  Margin = 3
  Pause = 5
  Sides = {"blue", "red"}
  Players = {"p", "q"}
  StartRank <- MCStartRank
  Roster <- MCRoster
  Full <- MCFull
  Conditions = {"pick"}
  Primary <- MCPrimary
  Length <- MCLength
  Archived = {"m1"}
  ChampionOf <- MCChampionOf
  Placed <- MCGames
  Built = {"m1"}
  Icons = {1}
  Eventful <- MCGames
  MaxCrashes = 1
  Intervals <- MCIntervals
  Configurations <- MCConfigurations
  Seasons <- MCSeasons
  Archive = 1
  Retention = 2
  Mature = 2
  Patch <- MCPatch
  Currents <- MCCurrents
  PageRetention = 1
  CurrentTTL = 1
  ArchivedTTL = 2
  Requests = {"r1", "r2"}
SPECIFICATION Spec
INVARIANT TypeOK
PROPERTY ItemsStayReadable
PROPERTY ItemsCountedOncePerLevel
PROPERTY GuideStaysReadable
PROPERTY GuideRefreshIsExact
PROPERTY AllIsTheSum
PROPERTY ValidationAgrees
PROPERTY ReadersLoseNothing
PROPERTY RecentMatchOnce
PROPERTY EventsBackfilledOnce
INVARIANT NoLaneIsStarved
INVARIANT HydratedPatchesArePrewarmed
INVARIANT PagesAreRecent
INVARIANT NobodyWaitsInVain
CONSTRAINT Worth
CHECK_DEADLOCK FALSE
