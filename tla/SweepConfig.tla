----------------------------- MODULE SweepConfig -----------------------------
(* The configuration of the collector's sweep.                             *)
EXTENDS UsableBudget, Sequences

CONSTANTS
  Regions,    \* regional routing values
  Order,      \* the configured platforms, in sweep order
  RegionOf,   \* RegionForPlatform
  AccountOf,  \* AccountRegionForPlatform
  RankMax,    \* RANK_ENRICHMENT_MAX_REQUESTS, 0 when disabled
  AliasMax,   \* ACCOUNT_ALIAS_MAX_REQUESTS, 0 when disabled
  MatchMax,   \* COLLECTOR_MAX_REQUESTS, 0 for no cap
  IdleSleep,  \* COLLECTOR_IDLE_SLEEP_SECONDS in ticks
  Retries,    \* RIOT_RATE_LIMIT_MAX_RETRIES
  MaxSleep,   \* RIOT_RATE_LIMIT_MAX_SLEEP_SECONDS in ticks
  MaxRanks    \* bound: rank calls on a region's platforms in one window

ASSUME SweepAssumption ==
  /\ Order \in Seq(STRING) \ {<<>>}
  /\ \A i \in DOMAIN Order : /\ RegionOf[Order[i]] \in Regions
                             /\ AccountOf[Order[i]] \in Regions
  /\ {IdleSleep, MaxSleep} \subseteq Nat \ {0}
  /\ {RankMax, AliasMax, MatchMax, Retries, MaxRanks} \subseteq Nat

(* What a region may be sent in a window.                                  *)
Limit == UsableRequests
=============================================================================
