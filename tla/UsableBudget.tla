---------------------------- MODULE UsableBudget ----------------------------
(* The part of the configuration that limits Riot requests: the collector  *)
(* may use so many of a route in every window, the reserve is the rest.    *)
EXTENDS Integers

CONSTANTS
  Bucket,    \* COLLECTOR_RATE_LIMIT_REQUESTS
  Reserve,   \* COLLECTOR_RATE_LIMIT_RESERVE
  Interval,  \* COLLECTOR_INTERVAL_SECONDS, in ticks
  Window     \* COLLECTOR_RATE_LIMIT_WINDOW_SECONDS, in ticks

ASSUME UsableAssumption ==
  /\ Bucket \in Nat \ {0}
  /\ Reserve \in Nat
  /\ Interval \in Nat \ {0}
  /\ Window \in Nat \ {0}

AtLeastOne(n) == IF n < 1 THEN 1 ELSE n

(* Config.CollectorUsableRequestsPerRegion: what a cycle may spend, less   *)
(* the reserve, and never less than one request.                           *)
UsableRequests ==
  AtLeastOne(AtLeastOne(IF Interval < Window
                        THEN (Bucket * Interval) \div Window
                        ELSE Bucket) - Reserve)
=============================================================================
