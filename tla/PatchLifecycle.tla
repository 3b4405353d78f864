--------------------------- MODULE PatchLifecycle ---------------------------
(***************************************************************************)
(* The rollover of departing patches: refresh-riot-key stops the worker    *)
(* and runs patchctl until it succeeds; patchctl summarises each departing *)
(* patch, compiles and closes it platform by platform, and prunes its raw  *)
(* rows; only then does COLLECTOR_CURRENT_PATCH move and the worker start. *)
(* Any statement can fail, the operator can stop the script at any point,  *)
(* and a key-only refresh can set the worker to work in between.           *)
(*                                                                         *)
(* A table is the set of matches its rows stand for.  Ingestion is one     *)
(* step here; Collector opens it up.  The six normalised timeline and ban  *)
(* tables are "events"; the read models compiled from the participants,    *)
(* which pruning keeps, are left out.                                      *)
(***************************************************************************)
EXTENDS DepartingPatches, FiniteSets

VARIABLES
  stored,    \* the raw tables
  index,     \* participants and participant_matchups
  compiled,  \* the summaries that need raw rows
  status,    \* patch_snapshots.status
  moved,     \* COLLECTOR_CURRENT_PATCH has the new patch
  collecting, \* the worker runs
  pc,        \* what the script does next
  pos,       \* the departing patch it is at
  todo,      \* platforms still to compile
  step,      \* the next table of the current list
  pruned,    \* history: matches whose raw row was ever pruned
  budget     \* failures and stops still allowed

data == <<stored, index, compiled, status, pruned>>
progress == <<pc, pos, todo, step>>
rolloverVars == <<data, moved, collecting, progress, budget>>

Patches == {Departing[i] : i \in DOMAIN Departing}
Platforms == {PlatformOf[m] : m \in Matches}

EventsFirst == <<"raw_timelines", "events", "raw_matches">>

(* DeleteRawPatchDataForPatch: the tables, in the order it empties them.   *)
DropOrder == <<"raw_timelines", "raw_matches", "events">>

(* CompilePatchMetrics: build, item timing and power curve metrics.        *)
CompileOrder == <<"build", "timing", "curve">>

RawTables == {DropOrder[i] : i \in DOMAIN DropOrder}
PatchMetrics == {CompileOrder[i] : i \in DOMAIN CompileOrder}
Summaries == PatchMetrics \cup {"slots"}

MatchesOf(p) == {m \in Matches : PatchOf[m] = p}
MatchesOn(p, platform) == {m \in MatchesOf(p) : PlatformOf[m] = platform}
-----------------------------------------------------------------------------
(* PatchPlatforms: any table that names the patch counts, the snapshot too.*)
PatchPlatforms(p) ==
  {PlatformOf[m] : m \in MatchesOf(p) \cap
     (stored["raw_matches"] \cup index \cup compiled["build"])}
  \cup {platform \in Platforms : status[<<p, platform>>] # "none"}

(* What a summary can be computed from: every query starts from the ids in *)
(* raw_matches, and all but the build metrics join the timeline rows.      *)
Source(table) ==
  IF table = "build" THEN stored["raw_matches"] \cap index
  ELSE stored["raw_matches"] \cap index \cap stored["events"]

Patch == Departing[pos]
Platform == CHOOSE platform \in todo : TRUE

RolloverInit ==
  /\ stored = [t \in RawTables |-> {}]
  /\ index = {}
  /\ compiled = [t \in Summaries |-> {}]
  /\ status = [x \in Patches \X Platforms |-> "none"]
  /\ moved = FALSE
  /\ collecting = TRUE
  /\ pc = "off" /\ pos = 1 /\ todo = {} /\ step = 1
  /\ pruned = {}
  /\ budget = [failures |-> MaxFailures, stops |-> MaxStops]
-----------------------------------------------------------------------------
(* The worker collects a match of a patch still inside its window; only    *)
(* raw_matches is asked whether it is new.                                 *)
Ingest(m) ==
  /\ collecting /\ ~moved
  /\ m \notin stored["raw_matches"]
  /\ stored' = [t \in RawTables |-> stored[t] \cup {m}]
  /\ index' = index \cup {m}
  /\ UNCHANGED <<compiled, status, pruned, moved, collecting, progress, budget>>

KeepsCollecting ==
  /\ pc = "off" /\ ~moved
  /\ pc' = "plan" /\ pos' = 1
  /\ UNCHANGED <<data, moved, collecting, todo, step, budget>>

(* refresh-riot-key, when Data Dragon has a newer patch than the env file. *)
StartRollover ==
  /\ pc = "off" /\ ~moved
  /\ collecting' = FALSE
  /\ pc' = "plan" /\ pos' = 1
  /\ UNCHANGED <<data, moved, todo, step, budget>>

(* A refresh that does not roll over: --no-patch-rollover, or the patch is *)
(* already current.                                                        *)
RefreshKeyOnly ==
  /\ pc = "off" /\ ~collecting
  /\ collecting' = TRUE
  /\ UNCHANGED <<data, moved, progress, budget>>

(* archivePatchIfStored.                                                   *)
SkipPatch ==
  /\ pc = "plan" /\ pos \in DOMAIN Departing
  /\ PatchPlatforms(Patch) = {}
  /\ pos' = pos + 1
  /\ UNCHANGED <<data, moved, collecting, pc, todo, step, budget>>

StartPatch ==
  /\ pc = "plan" /\ pos \in DOMAIN Departing
  /\ PatchPlatforms(Patch) # {}
  /\ todo' = PatchPlatforms(Patch)
  /\ pc' = "slots"
  /\ UNCHANGED <<data, moved, collecting, pos, step, budget>>

(* RefreshItemSlotAnalytics and RefreshStartingLoadoutAnalytics: the new   *)
(* rows go in first, then those of an earlier run come out.                *)
InsertSlots ==
  /\ pc = "slots"
  /\ compiled' = [compiled EXCEPT !["slots"] = @ \cup (MatchesOf(Patch) \cap Source("slots"))]
  /\ pc' = "oldSlots"
  /\ UNCHANGED <<stored, index, status, pruned, moved, collecting, pos, todo, step, budget>>

DeleteOldSlots ==
  /\ pc = "oldSlots"
  /\ compiled' = [compiled EXCEPT !["slots"] = @ \ (MatchesOf(Patch) \ Source("slots"))]
  /\ pc' = "delete"
  /\ UNCHANGED <<stored, index, status, pruned, moved, collecting, pos, todo, step, budget>>

(* CompilePatchMetrics for one platform: deleteCompiledPatchMetrics, then  *)
(* markPatchCompiling, the metrics one by one, and markPatchClosed.        *)
DeleteCompiled ==
  /\ pc = "delete"
  /\ compiled' = [t \in Summaries |->
       IF t \in PatchMetrics THEN compiled[t] \ MatchesOn(Patch, Platform) ELSE compiled[t]]
  /\ pc' = "mark"
  /\ UNCHANGED <<stored, index, status, pruned, moved, collecting, pos, todo, step, budget>>

MarkCompiling ==
  /\ pc = "mark"
  /\ status' = [status EXCEPT ![<<Patch, Platform>>] = "compiling"]
  /\ pc' = "compile" /\ step' = 1
  /\ UNCHANGED <<stored, index, compiled, pruned, moved, collecting, pos, todo, budget>>

CompileMetrics ==
  /\ pc = "compile"
  /\ LET t == CompileOrder[step]
     IN  compiled' = [compiled EXCEPT ![t] = @ \cup (MatchesOn(Patch, Platform) \cap Source(t))]
  /\ step' = step + 1
  /\ pc' = IF step = Len(CompileOrder) THEN "close" ELSE pc
  /\ UNCHANGED <<stored, index, status, pruned, moved, collecting, pos, todo, budget>>

ForgetsStatus ==
  /\ pc = "close"
  /\ todo' = todo \ {Platform}
  /\ pc' = IF todo' = {} THEN "check" ELSE "delete"
  /\ UNCHANGED <<data, moved, collecting, pos, step, budget>>

MarkClosed ==
  /\ pc = "close"
  /\ status' = [status EXCEPT ![<<Patch, Platform>>] = "closed"]
  /\ todo' = todo \ {Platform}
  /\ pc' = IF todo' = {} THEN "check" ELSE "delete"
  /\ UNCHANGED <<stored, index, compiled, pruned, moved, collecting, pos, step, budget>>

(* requirePatchClosed on every platform; a patch that is not is an error,  *)
(* and the script tries the whole rollover again.                          *)
RequireClosed ==
  /\ pc = "check"
  /\ IF \A platform \in PatchPlatforms(Patch) : status[<<Patch, platform>>] = "closed"
       THEN pc' = "drop" /\ pos' = pos
       ELSE pc' = "plan" /\ pos' = 1
  /\ step' = 1
  /\ UNCHANGED <<data, moved, collecting, todo, budget>>

(* One table of DeleteRawPatchDataForPatch; after the last, the next patch.*)
DropTable ==
  /\ pc = "drop"
  /\ LET t == DropOrder[step]
     IN  /\ stored' = [stored EXCEPT ![t] = @ \ MatchesOf(Patch)]
         /\ pruned' = IF t = "raw_matches"
                        THEN pruned \cup (stored[t] \cap MatchesOf(Patch)) ELSE pruned
  /\ step' = step + 1
  /\ IF step = Len(DropOrder)
       THEN pc' = "plan" /\ pos' = pos + 1
       ELSE UNCHANGED <<pc, pos>>
  /\ UNCHANGED <<index, compiled, status, moved, collecting, todo, budget>>

(* patchctl succeeded: the env file gets the new patch, and the worker is  *)
(* started unless --no-worker was given or it does not stay up.            *)
MoveBoundary ==
  /\ pc = "plan" /\ pos > Len(Departing)
  /\ moved' = TRUE
  /\ collecting' \in BOOLEAN
  /\ pc' = "off"
  /\ UNCHANGED <<data, pos, todo, step, budget>>

(* A statement fails, applied or not, or the host stays under pressure:    *)
(* patchctl exits, and the script starts the rollover again.               *)
ResumesAfter ==
  /\ pc # "off"
  /\ budget.failures > 0
  /\ budget' = [budget EXCEPT !.failures = @ - 1]
  /\ pc' = "plan" /\ pos' = pos + 1
  /\ UNCHANGED <<data, moved, collecting, todo, step>>

AttemptFails ==
  /\ pc # "off"
  /\ budget.failures > 0
  /\ budget' = [budget EXCEPT !.failures = @ - 1]
  /\ pc' = "plan" /\ pos' = 1
  /\ UNCHANGED <<data, moved, collecting, todo, step>>

(* Ctrl+C or a crash of the host: the worker stays stopped.                *)
Stop ==
  /\ pc # "off"
  /\ budget.stops > 0
  /\ budget' = [budget EXCEPT !.stops = @ - 1]
  /\ pc' = "off"
  /\ UNCHANGED <<data, moved, collecting, pos, todo, step>>

Rollover ==
  \/ SkipPatch \/ StartPatch
  \/ InsertSlots \/ DeleteOldSlots
  \/ DeleteCompiled \/ MarkCompiling \/ CompileMetrics \/ MarkClosed
  \/ RequireClosed \/ DropTable \/ MoveBoundary

RolloverNext ==
  \/ \E m \in Matches : Ingest(m)
  \/ StartRollover \/ RefreshKeyOnly
  \/ Rollover
  \/ AttemptFails \/ Stop

(* The script runs on until it ends or is stopped.  Nothing makes Riot     *)
(* offer a match or the operator run the script.                           *)
RolloverSpec ==
  RolloverInit /\ [][RolloverNext]_rolloverVars /\ WF_rolloverVars(Rollover)
-----------------------------------------------------------------------------
(* Every variable has the shape of the code's data, and the worker never   *)
(* collects while the script runs.                                         *)
RolloverTypeOK ==
  /\ stored \in [RawTables -> SUBSET Matches]
  /\ index \subseteq Matches
  /\ compiled \in [Summaries -> SUBSET Matches]
  /\ status \in [Patches \X Platforms -> {"none", "compiling", "closed"}]
  /\ moved \in BOOLEAN
  /\ collecting \in BOOLEAN
  /\ pc \in {"off", "plan", "slots", "oldSlots", "delete", "mark", "compile",
             "close", "check", "drop"}
  /\ pos \in 1..(Len(Departing) + 1)
  /\ todo \subseteq Platforms
  /\ step \in 1..(Len(DropOrder) + 1)
  /\ pruned \subseteq Matches
  /\ budget \in [failures : 0..MaxFailures, stops : 0..MaxStops]
  /\ pc # "off" => ~collecting

(* A match's raw row is pruned only after it reached every summary that is *)
(* computed from raw rows, whatever attempts failed, were stopped, or had  *)
(* the worker collect in between (archivePatch, DeleteRawPatchDataForPatch).*)
PrunedWhenCompiled ==
  [][\A m \in stored["raw_matches"] \ stored'["raw_matches"] :
       \A t \in Summaries : m \in compiled[t]]_rolloverVars

(* The collector's window moves only past patches that are archived: none  *)
(* of their raw rows is left, and every platform they have is closed       *)
(* (refresh-riot-key writes COLLECTOR_CURRENT_PATCH after patchctl).       *)
MovesPastArchived ==
  moved => /\ \A t \in RawTables : stored[t] = {}
           /\ \A m \in index : status[<<PatchOf[m], PlatformOf[m]>>] = "closed"

(* The script ends: with finitely many failures every rollover completes   *)
(* or is stopped, never retrying for ever (run_patch_rollover_until_complete).*)
RolloverEnds == pc # "off" ~> pc = "off"

(* A rollover is resumable, what an earlier attempt completed is skipped   *)
(* (docs/collector-runbook.md:95): when it is done, every match it pruned  *)
(* is still in the patch's compiled summaries.                             *)
ResumeKeepsArchive ==
  moved => \A m \in pruned, t \in Summaries : m \in compiled[t]
=============================================================================
