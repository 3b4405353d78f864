----------------------------- MODULE RiotLimits -----------------------------
(***************************************************************************)
(* The two counts of Riot requests side by side: the shared table that the *)
(* worker and the API reserve from (RiotBudget), and the worker's own      *)
(* ledger of each region (WorkerSweep).  Both are limited by the usable    *)
(* requests of one configuration and forget after the same window.  They   *)
(* share no variable: what the table grants, the sweep takes as any number *)
(* up to what it asks.  So a behaviour runs one of them, its scene, and    *)
(* the variables of the other keep one value.                              *)
(***************************************************************************)
EXTENDS RiotBudget, WorkerSweep

VARIABLE scene  \* the part that runs

LimitsInit ==
  /\ scene \in {"table", "sweep"}
  /\ TableInit
  /\ Init
  /\ scene = "table" => calls = NoCalls /\ ledger = NoCalls

TableStep == scene = "table" /\ TableNext /\ UNCHANGED <<scene, vars>>
SweepStep == scene = "sweep" /\ Next /\ UNCHANGED <<scene, tableVars>>

LimitsNext == TableStep \/ SweepStep

LimitsSpec == LimitsInit /\ [][LimitsNext]_<<scene, vars, tableVars>>
=============================================================================
