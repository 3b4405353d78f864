---------------------------- MODULE MCRiotLimits ----------------------------
(* One worker lane and one API handler on one route of the table; three    *)
(* platforms of SEA, whose account lookups go to ASIA, then KR on ASIA     *)
(* itself, for the sweep.                                                  *)
EXTENDS RiotLimits

MCOrder == <<"OC1", "PH2", "SG2", "KR">>
MCRegions == {"ASIA", "SEA"}
MCRegionOf == [p \in {"OC1", "PH2", "SG2", "KR"} |->
                 IF p = "KR" THEN "ASIA" ELSE "SEA"]
MCAccountOf == [p \in {"OC1", "PH2", "SG2", "KR"} |-> "ASIA"]
=============================================================================
