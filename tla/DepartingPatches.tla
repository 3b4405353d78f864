-------------------------- MODULE DepartingPatches --------------------------
(* The patches a rollover moves out of the collector's window, with their  *)
(* matches, and the bounds of the model of the rollover.                   *)
EXTENDS Integers, Sequences

CONSTANTS
  Departing,   \* ArchivePatches: what leaves the window, newest first
  Matches,     \* the ranked matches of these patches
  PatchOf,     \* their patch bucket
  PlatformOf,  \* their platform
  MaxFailures, \* bound: attempts of patchctl that fail
  MaxStops     \* bound: times the operator stops the script

ASSUME LifecycleAssumption ==
  /\ Departing \in Seq(STRING) \ {<<>>}
  /\ \A i, j \in DOMAIN Departing : Departing[i] = Departing[j] => i = j
  /\ \A m \in Matches : \E i \in DOMAIN Departing : PatchOf[m] = Departing[i]
  /\ {MaxFailures, MaxStops} \subseteq Nat
=============================================================================
