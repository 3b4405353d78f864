----------------------------- MODULE MCReadSide -----------------------------
(* The read side for TLC: two games and two processes, on small clocks.    *)

EXTENDS ReadSide, TLC

MCGames == {"m1", "m2"}
MCRefreshers == {"worker", "patchctl"}
MCPlatforms == {"euw", "na"}
MCPlatformOf == "m1" :> "euw" @@ "m2" :> "na" @@ "m3" :> "na"

\* Items: both games on one platform, or on two.
MCLayouts == {[g \in MCGames |-> "euw"], [g \in MCGames |-> MCPlatformOf[g]]}
MCWon == [g \in MCGames |-> g = "m1"]
MCBought == [g \in MCGames |->
    IF g = "m1"
    THEN {[item |-> 1, at |-> 10], [item |-> 3, at |-> 90], [item |-> 4, at |-> 70]}
    ELSE {[item |-> 1, at |-> 20], [item |-> 2, at |-> 25], [item |-> 3, at |-> 80]}]
MCCost == 1 :> 400 @@ 2 :> 50

\* Win conditions: in m1 one ranked player a side, in m2 both on one side; in
\* m3 one side has not five champions.
MCWinGames == MCGames \union {"m3"}
MCFull == (MCWinGames \X {"blue", "red"}) \ {<<"m3", "red">>}
MCStartRank == "p" :> 2 @@ "q" :> 3
MCRoster == "m1" :> ("blue" :> {"p"} @@ "red" :> {"q"})
         @@ "m2" :> ("blue" :> {"p", "q"} @@ "red" :> {})
         @@ "m3" :> ("blue" :> {"q"} @@ "red" :> {"p"})
MCPrimary == "m1" :> ("blue" :> "pick" @@ "red" :> "siege")
          @@ "m2" :> ("blue" :> "pick" @@ "red" :> "pick")
          @@ "m3" :> ("blue" :> "pick" @@ "red" :> "siege")
MCLength == "m1" :> 1 @@ "m2" :> 2 @@ "m3" :> 1

MCChampionOf == [m \in MCGames |-> "ahri"]

\* All the lanes, or all but the win conditions.
MCIntervals == "item-slot-analytics" :> 2 @@ "champion-guide-analytics" :> 3
            @@ "win-condition-analytics" :> 2 @@ "summoner-profile-analytics" :> 1
MCConfigurations == {DOMAIN MCIntervals, DOMAIN MCIntervals \ {"win-condition-analytics"}}

MCSeasons == << <<15, 24>>, <<16, 9>>, <<16, 10>> >>
MCPatch == <<16, 10>>
MCCurrents == << <<16, 10>>, <<16, 11>> >>

\* Bounds.  Items: when the promise is void and no refresh is left to renew
\* it, nothing more is at stake.  Guide: refreshes overlap in two tables, one
\* whose rows have both kinds of key, and the one with a row a statement; the
\* others differ from the first only in what they compile.  Wins: the match with
\* one full team is stored after m2.  Profile: the player is named before he
\* has matches.
Worth ==
    CASE scene = "items"   -> itemTrusted \/ itemRuns < 2
      [] scene = "guide"   -> \/ guideWatched \in {"champion_guide_scope_analytics", Guide!Variants}
                              \/ Cardinality(Guide!Active) <= 1
      [] scene = "wins"    -> "m3" \in winStored => "m2" \in winStored
      [] scene = "profile" -> profileNamed \/ profileStored = {}
      [] OTHER             -> TRUE

=============================================================================
