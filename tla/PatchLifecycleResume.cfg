\* One failed attempt, after the first patch was pruned, is enough.
CONSTANTS
  Handlers = {h1, h2}
  RestartLimit = 1
  MaxAttempts = 2
  MaxKeys = 1
  MaxCrashes = 0
  Departing <- MCDeparting
  Matches <- MCMatches
  PatchOf <- MCPatchOf
  PlatformOf <- MCPlatformOf
  MaxFailures = 1
  MaxStops = 0
SPECIFICATION ScriptSpec
INVARIANT ResumeKeepsArchive
CHECK_DEADLOCK FALSE
