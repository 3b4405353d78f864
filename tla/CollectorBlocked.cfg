\* The same two players; the first is on the frontier as a challenger seed,
\* which is not forced again when the worker starts.
CONSTANTS
  seeded = seeded
  found = found
  current = current
  casual = casual
  older = older
  Players <- MCPlayers
  Matches <- MCMatches
  Recent <- MCRecent
  Participants <- MCParticipants
  Ranked = {current, older}
  Retained = {current, casual}
  Seeds = {seeded}
  EnvSeeds = {}
  BatchSize = 2
  LivePriority = 95
  MaxFailures = 1
  MaxCrashes = 1
  MaxExpiries = 1
  MaxForced = 1
SPECIFICATION Spec
CHECK_DEADLOCK FALSE
PROPERTY BlockedUntilFixed
