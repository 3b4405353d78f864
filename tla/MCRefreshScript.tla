-------------------------- MODULE MCRefreshScript --------------------------
(* The patch moved by two: 16.17 leaves the window with 16.16.  16.17 was  *)
(* played on two platforms, 16.16 on one.                                  *)
EXTENDS RefreshScript

MCDeparting == <<"16.17", "16.16">>
MCMatches == {"NA1_17", "KR_17", "NA1_16"}
MCPatchOf == [m \in MCMatches |-> IF m = "NA1_16" THEN "16.16" ELSE "16.17"]
MCPlatformOf == [m \in MCMatches |-> IF m = "KR_17" THEN "KR" ELSE "NA1"]
=============================================================================
