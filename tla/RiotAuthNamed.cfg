\* Two requests of the API and one key that expires.
CONSTANTS
  Handlers = {h1, h2}
  RestartLimit = 1
  MaxAttempts = 2
  MaxKeys = 1
  MaxCrashes = 0
  Departing <- MCDeparting
  Matches <- MCMatches
  PatchOf <- MCPatchOf
  PlatformOf <- MCPlatformOf
  MaxFailures = 0
  MaxStops = 0
SPECIFICATION ScriptSpec
INVARIANT KeyFailureIsNamed
CHECK_DEADLOCK FALSE
