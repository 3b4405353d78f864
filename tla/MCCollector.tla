---------------------------- MODULE MCCollector -----------------------------
(* A seeded player with a current match, one of another queue and an older *)
(* one, and a player who is discovered through the current match.          *)
EXTENDS Collector

CONSTANTS seeded, found, current, casual, older

MCPlayers == {seeded, found}
MCMatches == {current, casual, older}
MCRecent == [p \in MCPlayers |-> IF p = seeded THEN <<current, casual, older>>
                                 ELSE <<current>>]
MCParticipants == [m \in MCMatches |-> MCPlayers]
=============================================================================
