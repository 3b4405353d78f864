\* Two requests of the API, two refreshes of the key, two crashes; three
\* matches of two departing patches, two attempts of patchctl that fail, one
\* rollover that the operator stops.
CONSTANTS
  Handlers = {h1, h2}
  RestartLimit = 1
  MaxAttempts = 2
  MaxKeys = 2
  MaxCrashes = 2
  Departing <- MCDeparting
  Matches <- MCMatches
  PatchOf <- MCPatchOf
  PlatformOf <- MCPlatformOf
  MaxFailures = 2
  MaxStops = 1
SPECIFICATION ScriptSpec
INVARIANT TypeOK
INVARIANT RolloverTypeOK
INVARIANT OneLateRequest
INVARIANT ExpiredKeyDoesNotLoop
INVARIANT RefreshRestores
INVARIANT MovesPastArchived
PROPERTY DeadKeyStopsWorker
PROPERTY PrunedWhenCompiled
PROPERTY RolloverEnds
CHECK_DEADLOCK FALSE
