---------------------------- MODULE RefreshScript ----------------------------
(***************************************************************************)
(* The two things refresh-riot-key.sh does: it gives the processes a new   *)
(* Riot key (RiotAuth), and it rolls departing patches over with patchctl  *)
(* (PatchLifecycle).  The rollover makes no Riot request and touches no    *)
(* marker, so a behaviour runs one of the two, its scene, and the          *)
(* variables of the other keep one value.                                  *)
(***************************************************************************)
EXTENDS RiotAuth, PatchLifecycle

VARIABLE scene  \* the part that runs

scriptVars == <<scene, vars, rolloverVars>>

ScriptInit ==
  /\ scene \in {"key", "rollover"}
  /\ Init
  /\ RolloverInit

OnlyKey == scene = "key" /\ UNCHANGED <<scene, rolloverVars>>
OnlyRollover == scene = "rollover" /\ UNCHANGED <<scene, vars>>

KeyStep == OnlyKey /\ Next
RolloverStep == OnlyRollover /\ RolloverNext

ScriptNext == KeyStep \/ RolloverStep

(* The fairness of the two parts.                                          *)
ScriptFairness ==
  /\ \A c \in Callers : WF_scriptVars(OnlyKey /\ Call(c))
  /\ WF_scriptVars(OnlyKey /\ Watch)
  /\ SF_scriptVars(OnlyKey /\ Unauthorized("worker"))
  /\ WF_scriptVars(OnlyRollover /\ Rollover)

ScriptSpec == ScriptInit /\ [][ScriptNext]_scriptVars /\ ScriptFairness
=============================================================================
