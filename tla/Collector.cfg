\* Two players who share one current match, one failed insert, one crash, one
\* expired key and one forced seed, for the seed of the environment, which keeps
\* its priority, or for the other player, which that one can overtake.
CONSTANTS
  seeded = seeded
  found = found
  current = current
  casual = casual
  older = older
  Players <- MCPlayers
  Matches <- MCMatches
  Recent <- MCRecent
  Participants <- MCParticipants
  Ranked = {current, older}
  Retained = {current, casual}
  Seeds = {}
  EnvSeeds = {seeded}
  BatchSize = 2
  LivePriority = 95
  MaxFailures = 1
  MaxCrashes = 1
  MaxExpiries = 1
  MaxForced = 1
SPECIFICATION Spec
INVARIANT TypeOK
INVARIANT CountedOnce
INVARIANT TakenInWhole
PROPERTY ForcedSeedVisited
