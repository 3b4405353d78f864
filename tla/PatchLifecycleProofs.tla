------------------------- MODULE PatchLifecycleProofs -------------------------
(***************************************************************************)
(* Theorems about PatchLifecycle for any departing patches, any matches on *)
(* any platforms, and any number of failures and stops.                    *)
(***************************************************************************)
EXTENDS PatchLifecycle, TLAPS

(* The script is at a departing patch.                                     *)
Working == {"slots", "oldSlots", "delete", "mark", "compile", "close", "check", "drop"}

OnCourse ==
  /\ pc \in Working => pos \in 1..Len(Departing)
  /\ pc \in Working \ {"check", "drop"} => todo # {}
  /\ pc \in {"check", "drop"} => todo = {}
  /\ pc \in {"compile", "drop"} => step \in 1..3
  /\ pc = "close" => step = 4

(* What pruning has left of a match can still be compiled: its rows go     *)
(* after its raw row, and the index keeps it.                              *)
RawIndexed ==
  /\ \A t \in RawTables : stored[t] \subseteq index
  /\ stored["raw_matches"] \subseteq stored["events"]

DroppedSoFar ==
  pc = "drop" => \A i \in 1..3 : i < step => stored[DropOrder[i]] \cap MatchesOf(Patch) = {}

(* The raw matches of the patch the script is at.                          *)
RawHere == stored["raw_matches"] \cap MatchesOf(Patch)

SlotsDone == pc \in Working \ {"slots"} => RawHere \subseteq compiled["slots"]

(* Each of them is compiled, or of a platform still to do.                 *)
MetricsDone ==
  pc \in Working => \A m \in RawHere :
    PlatformOf[m] \in todo \/ \A t \in PatchMetrics : m \in compiled[t]

(* Those of the current platform are in the metrics already compiled.      *)
PlatformSoFar ==
  pc \in {"compile", "close"} => \A m \in RawHere : PlatformOf[m] = Platform =>
    \A i \in 1..3 : i < step => m \in compiled[CompileOrder[i]]

(* A patch with no raw rows and all its platforms closed.                  *)
Archived(p) ==
  /\ \A t \in RawTables : stored[t] \cap MatchesOf(p) = {}
  /\ \A m \in index \cap MatchesOf(p) : status[<<p, PlatformOf[m]>>] = "closed"

ClosedHere ==
  pc = "drop" => \A m \in index \cap MatchesOf(Patch) : status[<<Patch, PlatformOf[m]>>] = "closed"

(* The patches behind the script are archived, and all are once the window *)
(* has moved.                                                              *)
BehindArchived == pc # "off" => \A i \in 1..Len(Departing) : i < pos => Archived(Departing[i])

AllArchived == moved => pc = "off" /\ \A i \in 1..Len(Departing) : Archived(Departing[i])

Shape == RolloverTypeOK /\ OnCourse
Rows == RawIndexed /\ DroppedSoFar
Summarised == SlotsDone /\ MetricsDone /\ PlatformSoFar
Behind == ClosedHere /\ BehindArchived /\ AllArchived

IInv == Shape /\ Rows /\ Summarised /\ Behind
-----------------------------------------------------------------------------
LEMMA DepartingFacts ==
  /\ Len(Departing) \in Nat \ {0} /\ DOMAIN Departing = 1..Len(Departing)
  /\ \A i, j \in 1..Len(Departing) : Departing[i] = Departing[j] => i = j
  /\ \A i \in 1..Len(Departing) : Departing[i] \in Patches
<1>1. Departing \in Seq(STRING) /\ Departing # <<>>
  BY LifecycleAssumption
<1>2. Len(Departing) \in Nat \ {0} /\ DOMAIN Departing = 1..Len(Departing)
  BY <1>1, SMT
<1>3. QED
  BY <1>2, LifecycleAssumption DEF Patches

LEMMA TableNames ==
  /\ RawTables = {"raw_timelines", "raw_matches", "events"}
  /\ PatchMetrics = {"build", "timing", "curve"}
  /\ Summaries = {"build", "timing", "curve", "slots"}
<1>1. DOMAIN DropOrder = 1..3 /\ DOMAIN CompileOrder = 1..3
  BY SMT DEF DropOrder, CompileOrder
<1>2. 1..3 = {1, 2, 3}
  BY SMT
<1>3. RawTables = {DropOrder[1], DropOrder[2], DropOrder[3]}
  BY <1>1, <1>2 DEF RawTables
<1>4. PatchMetrics = {CompileOrder[1], CompileOrder[2], CompileOrder[3]}
  BY <1>1, <1>2 DEF PatchMetrics
<1>5. RawTables = {"raw_timelines", "raw_matches", "events"}
  BY <1>3, SMT DEF DropOrder
<1>6. PatchMetrics = {"build", "timing", "curve"}
  BY <1>4, SMT DEF CompileOrder
<1>7. QED
  BY <1>5, <1>6 DEF Summaries

LEMMA PlatformsHere ==
  ASSUME Shape, NEW p
  PROVE  PatchPlatforms(p) \subseteq Platforms
BY SMT DEF PatchPlatforms, Platforms, MatchesOf

LEMMA PlatformToDo ==
  ASSUME Shape, pc \in Working \ {"check", "drop"}
  PROVE  Platform \in todo /\ Platform \in Platforms /\ Patch \in Patches
<1>1. todo # {} /\ todo \subseteq Platforms /\ pos \in 1..Len(Departing)
  BY DEF Shape, RolloverTypeOK, OnCourse
<1>2. Platform \in todo
  BY <1>1 DEF Platform
<1>3. QED
  BY <1>1, <1>2, DepartingFacts DEF Patch
-----------------------------------------------------------------------------
(* Shape: one step per action.                                             *)
LEMMA ShapeStep ==
  ASSUME Shape, [RolloverNext]_rolloverVars
  PROVE  Shape'
<1> USE DepartingFacts DEF Shape, OnCourse, Working
<1>1. ASSUME NEW m \in Matches, Ingest(m)
      PROVE  Shape'
  <2>1. stored' \in [RawTables -> SUBSET Matches] /\ index' \subseteq Matches
    BY <1>1 DEF Ingest, RolloverTypeOK
  <2>2. QED
    BY <1>1, <2>1 DEF Ingest, RolloverTypeOK, progress, rolloverVars
<1>2. CASE StartRollover
  <2>1. pc' = "plan" /\ pos' = 1 /\ 1 \in 1..(Len(Departing) + 1) /\ collecting' = FALSE
    BY <1>2, SMT DEF StartRollover
  <2>2. UNCHANGED <<stored, index, compiled, status, pruned, moved, todo, step, budget>>
    BY <1>2 DEF StartRollover, data
  <2>3. QED
    BY <2>1, <2>2 DEF RolloverTypeOK
<1>3. CASE RefreshKeyOnly
  BY <1>3, SMT DEF RefreshKeyOnly, RolloverTypeOK, data, progress
<1>4. CASE SkipPatch
  BY <1>4, SMT DEF SkipPatch, RolloverTypeOK, data
<1>5. CASE StartPatch
  <2>1. todo' \subseteq Platforms /\ todo' # {}
    BY <1>5, PlatformsHere DEF StartPatch
  <2>2. QED
    BY <1>5, <2>1, SMT DEF StartPatch, RolloverTypeOK, data
<1>6. CASE InsertSlots
  <2>1. Source("slots") \subseteq Matches
    BY TableNames, SMT DEF Source, RolloverTypeOK
  <2>2. compiled' \in [Summaries -> SUBSET Matches]
    BY <1>6, <2>1, TableNames DEF InsertSlots, RolloverTypeOK
  <2>3. QED
    BY <1>6, <2>2, SMT DEF InsertSlots, RolloverTypeOK
<1>7. CASE DeleteOldSlots
  <2>1. compiled' \in [Summaries -> SUBSET Matches]
    BY <1>7, TableNames DEF DeleteOldSlots, RolloverTypeOK
  <2>2. QED
    BY <1>7, <2>1, SMT DEF DeleteOldSlots, RolloverTypeOK
<1>8. CASE DeleteCompiled
  <2>1. compiled' \in [Summaries -> SUBSET Matches]
    BY <1>8, TableNames DEF DeleteCompiled, RolloverTypeOK
  <2>2. QED
    BY <1>8, <2>1, SMT DEF DeleteCompiled, RolloverTypeOK
<1>9. CASE MarkCompiling
  <2>1. <<Patch, Platform>> \in Patches \X Platforms
    BY <1>9, PlatformToDo DEF MarkCompiling
  <2>2. status' \in [Patches \X Platforms -> {"none", "compiling", "closed"}]
    BY <1>9, <2>1 DEF MarkCompiling, RolloverTypeOK
  <2>3. QED
    BY <1>9, <2>2, SMT DEF MarkCompiling, RolloverTypeOK, DropOrder
<1>10. CASE CompileMetrics
  <2>1. \A t \in Summaries : Source(t) \subseteq Matches
    BY TableNames, SMT DEF Source, RolloverTypeOK
  <2>2. CompileOrder[step] \in Summaries /\ Len(CompileOrder) = 3 /\ Len(DropOrder) = 3
    BY <1>10, TableNames, SMT DEF CompileMetrics, CompileOrder, DropOrder
  <2>3. compiled' \in [Summaries -> SUBSET Matches]
    <3> DEFINE t == CompileOrder[step]
               more == MatchesOn(Patch, Platform) \cap Source(t)
    <3>1. t \in Summaries /\ more \subseteq Matches
      BY <2>1, <2>2
    <3>2. compiled' = [compiled EXCEPT ![t] = @ \cup more]
      BY <1>10 DEF CompileMetrics
    <3> HIDE DEF t, more
    <3>3. QED
      BY <3>1, <3>2 DEF RolloverTypeOK
  <2>4. QED
    BY <1>10, <2>2, <2>3, SMT DEF CompileMetrics, RolloverTypeOK
<1>11. CASE MarkClosed
  <2>1. <<Patch, Platform>> \in Patches \X Platforms
    BY <1>11, PlatformToDo DEF MarkClosed
  <2>2. status' \in [Patches \X Platforms -> {"none", "compiling", "closed"}]
    BY <1>11, <2>1 DEF MarkClosed, RolloverTypeOK
  <2>3. todo' \subseteq Platforms
    BY <1>11 DEF MarkClosed, RolloverTypeOK
  <2>4. pc' = IF todo' = {} THEN "check" ELSE "delete"
    BY <1>11 DEF MarkClosed
  <2>5. QED
    BY <1>11, <2>2, <2>3, <2>4, SMT DEF MarkClosed, RolloverTypeOK
<1>12. CASE RequireClosed
  <2>1. \/ pc' = "drop" /\ pos' = pos
        \/ pc' = "plan" /\ pos' = 1
    BY <1>12 DEF RequireClosed
  <2>2. QED
    BY <1>12, <2>1, SMT DEF RequireClosed, RolloverTypeOK, data, DropOrder
<1>13. CASE DropTable
  <2>1. DropOrder[step] \in RawTables /\ Len(DropOrder) = 3
    BY <1>13, TableNames, SMT DEF DropTable, DropOrder
  <2>2. stored' \in [RawTables -> SUBSET Matches]
    BY <1>13, <2>1 DEF DropTable, RolloverTypeOK
  <2>3. pruned' \subseteq Matches
    BY <1>13, TableNames DEF DropTable, RolloverTypeOK, MatchesOf
  <2>4. QED
    BY <1>13, <2>1, <2>2, <2>3, SMT DEF DropTable, RolloverTypeOK
<1>14. CASE MoveBoundary
  BY <1>14, SMT DEF MoveBoundary, RolloverTypeOK, data
<1>15. CASE AttemptFails
  <2>1. budget' \in [failures : 0..MaxFailures, stops : 0..MaxStops]
    BY <1>15, LifecycleAssumption, SMT DEF AttemptFails, RolloverTypeOK
  <2>2. QED
    BY <1>15, <2>1, SMT DEF AttemptFails, RolloverTypeOK, data
<1>16. CASE Stop
  <2>1. budget' \in [failures : 0..MaxFailures, stops : 0..MaxStops]
    BY <1>16, LifecycleAssumption, SMT DEF Stop, RolloverTypeOK
  <2>2. QED
    BY <1>16, <2>1, SMT DEF Stop, RolloverTypeOK, data
<1>17. CASE UNCHANGED rolloverVars
  BY <1>17 DEF rolloverVars, data, progress, RolloverTypeOK
<1>18. QED
  BY <1>1, <1>2, <1>3, <1>4, <1>5, <1>6, <1>7, <1>8, <1>9, <1>10, <1>11, <1>12,
     <1>13, <1>14, <1>15, <1>16, <1>17 DEF RolloverNext, Rollover
-----------------------------------------------------------------------------
(* Which actions touch what.                                               *)
IngestStep == \E m \in Matches : Ingest(m)

LEMMA OtherActions ==
  ASSUME [RolloverNext]_rolloverVars, ~IngestStep, ~DropTable
  PROVE  /\ UNCHANGED <<stored, index, pruned>>
         /\ pc' = "drop" => RequireClosed \/ UNCHANGED <<pc, pos, step>>
<1>1. UNCHANGED <<stored, index, pruned>>
  BY DEF RolloverNext, Rollover, IngestStep, StartRollover, RefreshKeyOnly, SkipPatch, StartPatch,
     InsertSlots, DeleteOldSlots, DeleteCompiled, MarkCompiling, CompileMetrics, MarkClosed,
     RequireClosed, MoveBoundary, AttemptFails, Stop, rolloverVars, data, progress
<1>2. ASSUME pc' = "drop", ~RequireClosed
      PROVE  UNCHANGED <<pc, pos, step>>
  BY <1>2 DEF RolloverNext, Rollover, IngestStep, StartRollover, RefreshKeyOnly, SkipPatch, StartPatch,
     InsertSlots, DeleteOldSlots, DeleteCompiled, MarkCompiling, CompileMetrics, MarkClosed,
     MoveBoundary, AttemptFails, Stop, rolloverVars, data, progress
<1>3. QED
  BY <1>1, <1>2

(* The worker collects only while the script does not run.                 *)
LEMMA IngestsAlone ==
  ASSUME Shape, NEW m \in Matches, Ingest(m)
  PROVE  pc = "off" /\ pc' = "off" /\ ~moved /\ UNCHANGED <<compiled, status, moved, progress>>
BY DEF Shape, RolloverTypeOK, Ingest, progress

(* Pruning takes one table's rows of the patch.                            *)
LEMMA Drops ==
  ASSUME Shape, DropTable
  PROVE  /\ pc = "drop" /\ step \in 1..3 /\ pos \in 1..Len(Departing) /\ todo = {}
         /\ DropOrder[step] \in RawTables
         /\ \A t \in RawTables : stored'[t] =
              IF t = DropOrder[step] THEN stored[t] \ MatchesOf(Patch) ELSE stored[t]
         /\ step' = step + 1
         /\ IF step = 3 THEN pc' = "plan" /\ pos' = pos + 1 ELSE UNCHANGED <<pc, pos>>
         /\ UNCHANGED <<index, compiled, status, moved, todo>>
<1>1. pc = "drop" /\ step \in 1..3 /\ pos \in 1..Len(Departing) /\ todo = {}
  BY DEF Shape, OnCourse, Working, DropTable
<1>2. DropOrder[step] \in RawTables /\ Len(DropOrder) = 3
  BY <1>1, TableNames, SMT DEF DropOrder
<1>3. QED
  BY <1>1, <1>2 DEF Shape, RolloverTypeOK, DropTable

LEMMA RowsStep ==
  ASSUME Shape, Rows, [RolloverNext]_rolloverVars
  PROVE  Rows'
<1>1. CASE ~IngestStep /\ ~DropTable
  <2>1. UNCHANGED <<stored, index>> /\ (pc' = "drop" => RequireClosed \/ UNCHANGED <<pc, pos, step>>)
    BY <1>1, OtherActions
  <2>2. CASE RequireClosed
    BY <2>1, <2>2, SMT DEF Rows, RawIndexed, DroppedSoFar, RequireClosed
  <2>3. QED
    BY <2>1, <2>2 DEF Rows, RawIndexed, DroppedSoFar, Patch
<1>2. ASSUME NEW m \in Matches, Ingest(m)
      PROVE  Rows'
  <2>1. pc' = "off"
    BY <1>2, IngestsAlone
  <2>2. \A t \in RawTables : stored'[t] = stored[t] \cup {m}
    BY <1>2 DEF Ingest
  <2>3. index' = index \cup {m} /\ "raw_matches" \in RawTables /\ "events" \in RawTables
    BY <1>2, TableNames DEF Ingest
  <2>4. QED
    BY <2>1, <2>2, <2>3 DEF Rows, RawIndexed, DroppedSoFar
<1>3. CASE DropTable
  <2> DEFINE gone == MatchesOf(Patch)
  <2>1. /\ pc = "drop" /\ step \in 1..3 /\ step' = step + 1 /\ UNCHANGED index
        /\ \A t \in RawTables : stored'[t] =
              IF t = DropOrder[step] THEN stored[t] \ gone ELSE stored[t]
        /\ pc' = "drop" => UNCHANGED pos
    BY <1>3, Drops
  <2>2. /\ DropOrder[1] = "raw_timelines" /\ DropOrder[2] = "raw_matches" /\ DropOrder[3] = "events"
        /\ {"raw_timelines", "raw_matches", "events"} \subseteq RawTables
    BY TableNames DEF DropOrder
  <2>3. \A i \in 1..3 : i < step => stored[DropOrder[i]] \cap gone = {}
    BY <2>1 DEF Rows, DroppedSoFar
  <2>4. pc' = "drop" => MatchesOf(Patch)' = gone
    BY <2>1 DEF MatchesOf, Patch
  <2> HIDE DEF gone
  <2>5. RawIndexed'
    <3>1. \A t \in RawTables : stored'[t] \subseteq index'
      BY <2>1 DEF Rows, RawIndexed
    <3>2. /\ stored'["raw_matches"] =
                IF step = 2 THEN stored["raw_matches"] \ gone ELSE stored["raw_matches"]
          /\ stored'["events"] = IF step = 3 THEN stored["events"] \ gone ELSE stored["events"]
      <4>1. CASE step = 1
        BY <2>1, <2>2, <4>1
      <4>2. CASE step = 2
        BY <2>1, <2>2, <4>2
      <4>3. CASE step = 3
        BY <2>1, <2>2, <4>3
      <4>4. QED
        BY <2>1, <4>1, <4>2, <4>3, SMT
    <3>3. step = 3 => stored["raw_matches"] \cap gone = {}
      BY <2>2, <2>3, SMT
    <3>4. stored'["raw_matches"] \subseteq stored'["events"]
      BY <3>2, <3>3 DEF Rows, RawIndexed
    <3>5. QED
      BY <3>1, <3>4 DEF RawIndexed
  <2>6. \A i \in 1..3 : i < step' => stored'[DropOrder[i]] \cap gone = {}
    <3> SUFFICES ASSUME NEW i \in 1..3, i < step'
                 PROVE  stored'[DropOrder[i]] \cap gone = {}
      OBVIOUS
    <3>1. DropOrder[i] \in RawTables
      BY <2>2, SMT
    <3>2. i < step \/ i = step
      BY <2>1, SMT
    <3>3. QED
      BY <2>1, <2>3, <3>1, <3>2
  <2>7. DroppedSoFar'
    BY <2>4, <2>6 DEF DroppedSoFar
  <2>8. QED
    BY <2>5, <2>7 DEF Rows
<1>4. QED
  BY <1>1, <1>2, <1>3 DEF IngestStep
-----------------------------------------------------------------------------
(* What the summaries are computed from is all there is to prune.          *)
LEMMA SourcesComplete ==
  ASSUME Rows, NEW t \in Summaries
  PROVE  stored["raw_matches"] \subseteq Source(t)
BY TableNames DEF Rows, RawIndexed, Source

LEMMA RawPlatforms ==
  ASSUME Shape, NEW p
  PROVE  \A m \in stored["raw_matches"] \cup index :
           m \in MatchesOf(p) => PlatformOf[m] \in PatchPlatforms(p)
BY TableNames DEF Shape, RolloverTypeOK, PatchPlatforms

LEMMA StartPatchSummarises ==
  ASSUME Shape, Summarised, StartPatch
  PROVE  Summarised'
<1>1. pc' = "slots" /\ UNCHANGED <<stored, pos>> /\ todo' = PatchPlatforms(Patch)
  BY DEF StartPatch, data
<1>2. RawHere' = RawHere
  BY <1>1 DEF RawHere, Patch, MatchesOf
<1>3. \A m \in RawHere : PlatformOf[m] \in todo'
  BY <1>1, RawPlatforms DEF RawHere
<1>4. QED
  BY <1>1, <1>2, <1>3 DEF Summarised, SlotsDone, MetricsDone, PlatformSoFar, Working

LEMMA SlotsSummarise ==
  ASSUME Shape, Rows, Summarised, InsertSlots \/ DeleteOldSlots
  PROVE  Summarised'
<1>1. /\ pc \in {"slots", "oldSlots"} /\ pc' \in {"oldSlots", "delete"}
      /\ UNCHANGED <<stored, pos, todo>>
  BY DEF InsertSlots, DeleteOldSlots
<1>2. RawHere' = RawHere
  BY <1>1 DEF RawHere, Patch, MatchesOf
<1>3. RawHere \subseteq MatchesOf(Patch) \cap Source("slots")
  BY SourcesComplete, TableNames DEF RawHere
<1>4. "slots" \in Summaries /\ "slots" \notin PatchMetrics /\ PatchMetrics \subseteq Summaries
  BY TableNames
<1>5. RawHere \subseteq compiled'["slots"] /\ \A t \in PatchMetrics : compiled'[t] = compiled[t]
  <2>1. CASE InsertSlots
    BY <1>3, <1>4, <2>1 DEF InsertSlots, Shape, RolloverTypeOK
  <2>2. CASE DeleteOldSlots
    <3>1. RawHere \subseteq compiled["slots"]
      BY <2>2 DEF DeleteOldSlots, Summarised, SlotsDone, Working
    <3>2. QED
      BY <1>3, <1>4, <2>2, <3>1 DEF DeleteOldSlots, Shape, RolloverTypeOK
  <2>3. QED
    BY <2>1, <2>2
<1>6. MetricsDone'
  BY <1>1, <1>2, <1>5 DEF Summarised, MetricsDone, Working
<1>7. QED
  BY <1>1, <1>2, <1>5, <1>6 DEF Summarised, SlotsDone, PlatformSoFar

LEMMA DeleteCompiledSummarises ==
  ASSUME Shape, Summarised, DeleteCompiled
  PROVE  Summarised'
<1>1. pc = "delete" /\ pc' = "mark" /\ UNCHANGED <<stored, pos, todo>>
  BY DEF DeleteCompiled
<1>2. RawHere' = RawHere
  BY <1>1 DEF RawHere, Patch, MatchesOf
<1>3. Platform \in todo
  BY <1>1, PlatformToDo DEF Working
<1>4. /\ compiled'["slots"] = compiled["slots"]
      /\ \A t \in PatchMetrics : compiled'[t] = compiled[t] \ MatchesOn(Patch, Platform)
  BY TableNames DEF DeleteCompiled
<1>5. MetricsDone'
  <2> SUFFICES ASSUME NEW m \in RawHere, PlatformOf[m] \notin todo, NEW t \in PatchMetrics
               PROVE  m \in compiled'[t]
    BY <1>1, <1>2 DEF MetricsDone
  <2>1. m \in compiled[t]
    BY <1>1 DEF Summarised, MetricsDone, Working
  <2>2. m \notin MatchesOn(Patch, Platform)
    BY <1>3 DEF MatchesOn
  <2>3. QED
    BY <1>4, <2>1, <2>2
<1>6. QED
  BY <1>1, <1>2, <1>4, <1>5 DEF Summarised, SlotsDone, PlatformSoFar, Working

LEMMA MarkCompilingSummarises ==
  ASSUME Shape, Summarised, MarkCompiling
  PROVE  Summarised'
<1>1. /\ pc = "mark" /\ pc' = "compile" /\ step' = 1
      /\ UNCHANGED <<stored, compiled, pos, todo>>
  BY DEF MarkCompiling
<1>2. RawHere' = RawHere
  BY <1>1 DEF RawHere, Patch, MatchesOf
<1>3. SlotsDone' /\ MetricsDone'
  BY <1>1, <1>2 DEF Summarised, SlotsDone, MetricsDone, Working
<1>4. \A i \in 1..3 : ~(i < step')
  BY <1>1, SMT
<1>5. PlatformSoFar'
  BY <1>4 DEF PlatformSoFar
<1>6. QED
  BY <1>3, <1>5 DEF Summarised

(* One more metric holds every raw match of the platform.                  *)
LEMMA CompileSummarises ==
  ASSUME Shape, Rows, Summarised, CompileMetrics
  PROVE  Summarised'
<1> DEFINE t == CompileOrder[step]
<1>1. pc = "compile" /\ pc' \in {"compile", "close"} /\ UNCHANGED <<stored, pos, todo>>
  BY DEF CompileMetrics
<1>2. RawHere' = RawHere /\ Platform' = Platform
  BY <1>1 DEF RawHere, Patch, MatchesOf, Platform
<1>3. step \in 1..3 /\ step' = step + 1
  BY <1>1 DEF Shape, OnCourse, CompileMetrics
<1>4. DOMAIN CompileOrder = 1..3
  BY SMT DEF CompileOrder
<1>5. t \in PatchMetrics /\ PatchMetrics \subseteq Summaries /\ "slots" \in Summaries
      /\ \A i \in 1..3 : CompileOrder[i] \in Summaries
  BY <1>3, <1>4, TableNames DEF PatchMetrics
<1>6. compiled' = [compiled EXCEPT ![t] = @ \cup (MatchesOn(Patch, Platform) \cap Source(t))]
  BY DEF CompileMetrics
<1>7. \A u \in Summaries : compiled[u] \subseteq compiled'[u]
  BY <1>5, <1>6 DEF Shape, RolloverTypeOK
<1>8. SlotsDone' /\ MetricsDone'
  BY <1>1, <1>2, <1>5, <1>7 DEF Summarised, SlotsDone, MetricsDone, Working
<1>9. ASSUME NEW m \in RawHere, PlatformOf[m] = Platform
      PROVE  m \in compiled'[t]
  <2>1. m \in MatchesOn(Patch, Platform)
    BY <1>9 DEF RawHere, MatchesOn
  <2>2. m \in Source(t)
    BY <1>5, SourcesComplete DEF RawHere
  <2>3. QED
    BY <1>5, <1>6, <2>1, <2>2 DEF Shape, RolloverTypeOK
<1>10. PlatformSoFar'
  <2> SUFFICES ASSUME NEW m \in RawHere, PlatformOf[m] = Platform, NEW i \in 1..3, i < step'
               PROVE  m \in compiled'[CompileOrder[i]]
    BY <1>2 DEF PlatformSoFar
  <2>1. i < step \/ i = step
    BY <1>3, SMT
  <2>2. CASE i = step
    BY <1>9, <2>2
  <2>3. CASE i < step
    BY <1>1, <1>5, <1>7, <2>3 DEF Summarised, PlatformSoFar
  <2>4. QED
    BY <2>1, <2>2, <2>3
<1>11. QED
  BY <1>8, <1>10 DEF Summarised

LEMMA MarkClosedSummarises ==
  ASSUME Shape, Summarised, MarkClosed
  PROVE  Summarised'
<1>1. /\ pc = "close" /\ pc' \in {"check", "delete"} /\ todo' = todo \ {Platform}
      /\ step = 4 /\ UNCHANGED <<stored, compiled, pos>>
  BY DEF MarkClosed, Shape, OnCourse
<1>2. RawHere' = RawHere
  BY <1>1 DEF RawHere, Patch, MatchesOf
<1>3. MetricsDone'
  <2> SUFFICES ASSUME NEW m \in RawHere, PlatformOf[m] \notin todo', NEW t \in PatchMetrics
               PROVE  m \in compiled[t]
    BY <1>1, <1>2 DEF MetricsDone
  <2>1. CASE PlatformOf[m] = Platform
    <3>1. PICK i \in DOMAIN CompileOrder : t = CompileOrder[i]
      BY DEF PatchMetrics
    <3>2. i \in 1..3 /\ i < step
      BY <1>1, <3>1, SMT DEF CompileOrder
    <3>3. QED
      BY <1>1, <2>1, <3>1, <3>2 DEF Summarised, PlatformSoFar
  <2>2. CASE PlatformOf[m] # Platform
    BY <1>1, <2>2 DEF Summarised, MetricsDone, Working
  <2>3. QED
    BY <2>1, <2>2
<1>4. QED
  BY <1>1, <1>2, <1>3 DEF Summarised, SlotsDone, PlatformSoFar, Working

LEMMA DropSummarises ==
  ASSUME Shape, Summarised, DropTable
  PROVE  Summarised'
<1>1. /\ pc = "drop" /\ pc' \in {"drop", "plan"} /\ (pc' = "drop" => UNCHANGED pos)
      /\ UNCHANGED <<compiled, todo>>
  BY Drops
<1>2. stored'["raw_matches"] \subseteq stored["raw_matches"]
  BY Drops, TableNames
<1>3. pc' = "drop" => RawHere' \subseteq RawHere
  BY <1>1, <1>2 DEF RawHere, Patch, MatchesOf
<1>4. QED
  BY <1>1, <1>3 DEF Summarised, SlotsDone, MetricsDone, PlatformSoFar, Working

LEMMA SummarisedStep ==
  ASSUME Shape, Rows, Summarised, [RolloverNext]_rolloverVars
  PROVE  Summarised'
<1>1. CASE pc' \notin Working
  BY <1>1 DEF Summarised, SlotsDone, MetricsDone, PlatformSoFar, Working
<1>2. ASSUME NEW m \in Matches, Ingest(m)
      PROVE  pc' \notin Working
  BY <1>2, IngestsAlone DEF Working
<1>3. CASE StartRollover \/ RefreshKeyOnly \/ SkipPatch \/ MoveBoundary \/ AttemptFails \/ Stop
  <2>1. pc' \in {"off", "plan"}
    BY <1>3 DEF StartRollover, RefreshKeyOnly, SkipPatch, MoveBoundary, AttemptFails, Stop, progress
  <2>2. QED
    BY <1>1, <2>1 DEF Working
<1>4. CASE RequireClosed \/ UNCHANGED rolloverVars
  <2>1. UNCHANGED <<stored, compiled, todo>>
    BY <1>4 DEF RequireClosed, rolloverVars, data, progress
  <2>2. CASE pc' \in Working
    <3>1. pc \in Working \ {"slots"} \/ UNCHANGED pc
      BY <1>4 DEF RequireClosed, Working, rolloverVars, progress
    <3>2. UNCHANGED pos
      BY <1>4, <2>2 DEF RequireClosed, Working, rolloverVars, progress
    <3>3. RawHere' = RawHere /\ Platform' = Platform
      BY <2>1, <3>2 DEF RawHere, Patch, MatchesOf, Platform
    <3>4. pc' \in {"compile", "close"} => UNCHANGED <<pc, step>>
      BY <1>4 DEF RequireClosed, rolloverVars, progress
    <3>5. pc \in Working /\ (pc' # "slots" => pc # "slots")
      BY <2>2, <3>1 DEF Working
    <3>6. QED
      BY <2>1, <2>2, <3>3, <3>4, <3>5 DEF Summarised, SlotsDone, MetricsDone, PlatformSoFar
  <2>3. QED
    BY <1>1, <2>2
<1>5. QED
  BY <1>1, <1>2, <1>3, <1>4, StartPatchSummarises, SlotsSummarise, DeleteCompiledSummarises,
     MarkCompilingSummarises, CompileSummarises, MarkClosedSummarises, DropSummarises
     DEF RolloverNext, Rollover
-----------------------------------------------------------------------------
(* Collecting and pruning: the collected match is of a patch that is still *)
(* inside the window, the pruned ones of the patch the script is at.       *)
LEMMA IngestBehind ==
  ASSUME Shape, Behind, NEW m \in Matches, Ingest(m)
  PROVE  Behind'
<1>1. pc' = "off" /\ ~moved /\ UNCHANGED moved
  BY IngestsAlone
<1>2. QED
  BY <1>1 DEF Behind, ClosedHere, BehindArchived, AllArchived

LEMMA DropBehind ==
  ASSUME Shape, Rows, Behind, DropTable
  PROVE  Behind'
<1>1. /\ pc = "drop" /\ step \in 1..3 /\ pos \in 1..Len(Departing)
      /\ \A t \in RawTables : stored'[t] =
            IF t = DropOrder[step] THEN stored[t] \ MatchesOf(Patch) ELSE stored[t]
      /\ IF step = 3 THEN pc' = "plan" /\ pos' = pos + 1 ELSE UNCHANGED <<pc, pos>>
      /\ UNCHANGED <<index, status, moved>>
  BY Drops
<1>2. \A t \in RawTables : stored'[t] \subseteq stored[t]
  BY <1>1
<1>3. \A i \in 1..Len(Departing) : Archived(Departing[i]) => Archived(Departing[i])'
  BY <1>1, <1>2 DEF Archived, MatchesOf
<1>4. pc # "off" /\ ~moved
  BY <1>1 DEF Behind, AllArchived
<1>5. CASE step # 3
  BY <1>1, <1>3, <1>4, <1>5 DEF Behind, ClosedHere, BehindArchived, AllArchived, Patch, MatchesOf
<1>6. CASE step = 3
  <2>1. ASSUME NEW t \in RawTables
        PROVE  stored'[t] \cap MatchesOf(Patch) = {}
    <3>1. PICK i \in DOMAIN DropOrder : t = DropOrder[i]
      BY DEF RawTables
    <3>2. i \in 1..3 /\ (i < step \/ i = step)
      BY <1>6, <3>1, SMT DEF DropOrder
    <3>3. CASE i = step
      BY <1>1, <3>1, <3>3
    <3>4. CASE i < step
      BY <1>1, <1>2, <3>1, <3>2, <3>4 DEF Rows, DroppedSoFar
    <3>5. QED
      BY <3>2, <3>3, <3>4
  <2>2. ASSUME NEW i \in 1..Len(Departing), i = pos
        PROVE  Archived(Departing[i])'
    <3>1. Departing[i] = Patch
      BY <2>2 DEF Patch
    <3>2. \A m \in index \cap MatchesOf(Departing[i]) : status[<<Departing[i], PlatformOf[m]>>] = "closed"
      BY <1>1, <3>1 DEF Behind, ClosedHere
    <3>3. \A t \in RawTables : stored'[t] \cap MatchesOf(Departing[i]) = {}
      BY <2>1, <3>1
    <3>4. QED
      BY <1>1, <3>2, <3>3 DEF Archived, MatchesOf
  <2>3. pc' = "plan" /\ pos' = pos + 1
    BY <1>1, <1>6
  <2>4. \A i \in 1..Len(Departing) : i < pos' => i < pos \/ i = pos
    BY <1>1, <2>3, DepartingFacts, SMT
  <2>5. BehindArchived'
    BY <1>3, <1>4, <2>2, <2>4 DEF Behind, BehindArchived
  <2>6. QED
    BY <1>1, <1>4, <2>3, <2>5 DEF Behind, ClosedHere, AllArchived
<1>7. QED
  BY <1>5, <1>6

(* Compiling reopens only the patch the script is at.                      *)
LEMMA MarkBehind ==
  ASSUME Shape, Behind, MarkCompiling \/ MarkClosed
  PROVE  Behind'
<1>1. /\ pc \in {"mark", "close"} /\ pc' \notin {"off", "drop"} /\ UNCHANGED <<stored, index, pos, moved>>
      /\ \E s \in {"compiling", "closed"} : status' = [status EXCEPT ![<<Patch, Platform>>] = s]
  BY DEF MarkCompiling, MarkClosed
<1>2. pos \in 1..Len(Departing)
  BY <1>1 DEF Shape, OnCourse, Working
<1>3. ASSUME NEW i \in 1..Len(Departing), i < pos
      PROVE  Archived(Departing[i])'
  <2>1. Archived(Departing[i])
    BY <1>1, <1>3 DEF Behind, BehindArchived
  <2>2. i # pos
    BY <1>2, <1>3, DepartingFacts, SMT
  <2>3. Departing[i] # Patch
    BY <1>2, <2>2, DepartingFacts DEF Patch
  <2>4. ASSUME NEW platform
        PROVE  status'[<<Departing[i], platform>>] = status[<<Departing[i], platform>>]
               \/ <<Departing[i], platform>> \notin Patches \X Platforms
    BY <1>1, <2>3 DEF Shape, RolloverTypeOK
  <2>5. \A m \in index \cap MatchesOf(Departing[i]) :
           <<Departing[i], PlatformOf[m]>> \in Patches \X Platforms
    BY DepartingFacts DEF Shape, RolloverTypeOK, Platforms
  <2>6. QED
    BY <1>1, <2>1, <2>4, <2>5 DEF Archived, MatchesOf
<1>4. ~moved
  BY <1>1 DEF Behind, AllArchived
<1>5. QED
  BY <1>1, <1>3, <1>4 DEF Behind, ClosedHere, BehindArchived, AllArchived

(* A patch nothing names has no rows and nothing to close.                 *)
LEMMA SkipBehind ==
  ASSUME Shape, Rows, Behind, SkipPatch
  PROVE  Behind'
<1>1. /\ pc = "plan" /\ pc' = "plan" /\ pos' = pos + 1 /\ pos \in 1..Len(Departing)
      /\ UNCHANGED <<stored, index, status, moved>> /\ PatchPlatforms(Departing[pos]) = {}
  BY DepartingFacts DEF SkipPatch, data, Patch
<1>2. \A m \in index : m \notin MatchesOf(Departing[pos])
  BY <1>1, RawPlatforms
<1>3. Archived(Departing[pos])
  BY <1>2 DEF Archived, Rows, RawIndexed
<1>4. \A i \in 1..Len(Departing) : i < pos' => i < pos \/ i = pos
  BY <1>1, DepartingFacts, SMT
<1>5. \A i \in 1..Len(Departing) : i < pos' => Archived(Departing[i])
  BY <1>1, <1>3, <1>4 DEF Behind, BehindArchived
<1>6. \A i \in 1..Len(Departing) : i < pos' => Archived(Departing[i])'
  BY <1>1, <1>5 DEF Archived, MatchesOf
<1>7. ~moved
  BY <1>1 DEF Behind, AllArchived
<1>8. QED
  BY <1>1, <1>6, <1>7 DEF Behind, ClosedHere, BehindArchived, AllArchived

(* Pruning starts when every platform the patch has is closed.             *)
LEMMA RequireBehind ==
  ASSUME Shape, Behind, RequireClosed
  PROVE  Behind'
<1>1. /\ pc = "check" /\ UNCHANGED <<stored, index, status, moved>>
      /\ \/ /\ \A platform \in PatchPlatforms(Patch) : status[<<Patch, platform>>] = "closed"
            /\ pc' = "drop" /\ pos' = pos
         \/ pc' = "plan" /\ pos' = 1
  BY DEF RequireClosed, data
<1>2. ~moved
  BY <1>1 DEF Behind, AllArchived
<1>3. \A i \in 1..Len(Departing) : Archived(Departing[i]) => Archived(Departing[i])'
  BY <1>1 DEF Archived, MatchesOf
<1>4. CASE pc' = "drop"
  <2>1. pos' = pos /\ \A platform \in PatchPlatforms(Patch) : status[<<Patch, platform>>] = "closed"
    BY <1>1, <1>4
  <2>2. ClosedHere'
    BY <1>1, <2>1, RawPlatforms DEF ClosedHere, Patch, MatchesOf
  <2>3. QED
    BY <1>1, <1>2, <1>3, <2>1, <2>2 DEF Behind, BehindArchived, AllArchived
<1>5. CASE pc' = "plan" /\ pos' = 1
  <2>1. \A i \in 1..Len(Departing) : ~(i < pos')
    BY <1>5, SMT
  <2>2. QED
    BY <1>1, <1>2, <1>5, <2>1 DEF Behind, ClosedHere, BehindArchived, AllArchived
<1>6. QED
  BY <1>1, <1>4, <1>5

(* The window moves when all are behind the script.                        *)
LEMMA MoveBehind ==
  ASSUME Shape, Behind, MoveBoundary
  PROVE  Behind'
<1>1. /\ pc = "plan" /\ pc' = "off" /\ pos > Len(Departing)
      /\ UNCHANGED <<stored, index, status>>
  BY DEF MoveBoundary, data
<1>2. \A i \in 1..Len(Departing) : i < pos
  BY <1>1, DepartingFacts, SMT DEF Shape, RolloverTypeOK
<1>3. \A i \in 1..Len(Departing) : Archived(Departing[i])'
  BY <1>1, <1>2 DEF Behind, BehindArchived, Archived, MatchesOf
<1>4. QED
  BY <1>1, <1>3 DEF Behind, ClosedHere, BehindArchived, AllArchived

LEMMA BehindStep ==
  ASSUME Shape, Rows, Behind, [RolloverNext]_rolloverVars
  PROVE  Behind'
<1>1. CASE StartRollover \/ AttemptFails
  <2>1. /\ ~moved /\ UNCHANGED moved /\ pc' = "plan" /\ pos' = 1
    BY <1>1 DEF StartRollover, AttemptFails, Behind, AllArchived
  <2>2. \A i \in 1..Len(Departing) : ~(i < pos')
    BY <2>1, SMT
  <2>3. QED
    BY <2>1, <2>2 DEF Behind, ClosedHere, BehindArchived, AllArchived
<1>2. CASE Stop
  BY <1>2 DEF Stop, Behind, ClosedHere, BehindArchived, AllArchived
<1>3. CASE \/ RefreshKeyOnly \/ StartPatch \/ InsertSlots \/ DeleteOldSlots \/ DeleteCompiled
           \/ CompileMetrics \/ UNCHANGED rolloverVars
  <2>1. UNCHANGED <<stored, index, status, moved, pos>> /\ (pc' = "off" <=> pc = "off")
        /\ (pc' = "drop" => pc = "drop")
    BY <1>3 DEF RefreshKeyOnly, StartPatch, InsertSlots, DeleteOldSlots, DeleteCompiled,
       CompileMetrics, rolloverVars, data, progress
  <2>2. QED
    BY <2>1 DEF Behind, ClosedHere, BehindArchived, AllArchived, Archived, Patch, MatchesOf
<1>4. QED
  BY <1>1, <1>2, <1>3, IngestBehind, DropBehind, MarkBehind, SkipBehind, RequireBehind,
     MoveBehind DEF RolloverNext, Rollover
-----------------------------------------------------------------------------
(* IInv holds of every behaviour.                                          *)
THEOREM Invariance == RolloverSpec => []IInv
<1>1. RolloverInit => IInv
  <2> SUFFICES ASSUME RolloverInit PROVE IInv
    OBVIOUS
  <2>1. pc = "off" /\ ~moved
    BY DEF RolloverInit
  <2>2. OnCourse /\ DroppedSoFar /\ Summarised /\ Behind
    BY <2>1 DEF OnCourse, Working, DroppedSoFar, Summarised, SlotsDone, MetricsDone,
       PlatformSoFar, Behind, ClosedHere, BehindArchived, AllArchived
  <2>3. RawIndexed
    BY TableNames DEF RolloverInit, RawIndexed
  <2>4. /\ stored \in [RawTables -> SUBSET Matches]
        /\ compiled \in [Summaries -> SUBSET Matches]
        /\ status \in [Patches \X Platforms -> {"none", "compiling", "closed"}]
    BY DEF RolloverInit
  <2>5. budget \in [failures : 0..MaxFailures, stops : 0..MaxStops]
    BY LifecycleAssumption, SMT DEF RolloverInit
  <2>6. pos \in 1..(Len(Departing) + 1) /\ step \in 1..(Len(DropOrder) + 1)
    BY DepartingFacts, SMT DEF RolloverInit, DropOrder
  <2>7. RolloverTypeOK
    BY <2>1, <2>4, <2>5, <2>6 DEF RolloverInit, RolloverTypeOK
  <2>8. QED
    BY <2>2, <2>3, <2>7 DEF IInv, Shape, Rows
<1>2. IInv /\ [RolloverNext]_rolloverVars => IInv'
  BY ShapeStep, RowsStep, SummarisedStep, BehindStep DEF IInv
<1>3. QED
  BY <1>1, <1>2, PTL DEF RolloverSpec

(* Type correctness, and that the worker never collects while the script   *)
(* runs (refresh-riot-key).                                                *)
THEOREM TypeCorrect == RolloverSpec => []RolloverTypeOK
<1>1. IInv => RolloverTypeOK
  BY DEF IInv, Shape
<1>2. QED
  BY <1>1, Invariance, PTL

(* No raw row is pruned before the match is in every summary, for any      *)
(* patches, platforms and matches, however many attempts fail or are       *)
(* stopped and whatever the worker collects in between (archivePatch,      *)
(* DeleteRawPatchDataForPatch).                                            *)
THEOREM ArchivedBeforePruned == RolloverSpec => PrunedWhenCompiled
<1>1. IInv /\ [RolloverNext]_rolloverVars =>
        [\A m \in stored["raw_matches"] \ stored'["raw_matches"] :
            \A t \in Summaries : m \in compiled[t]]_rolloverVars
  <2> SUFFICES ASSUME IInv, [RolloverNext]_rolloverVars, NEW m \in stored["raw_matches"] \ stored'["raw_matches"],
                      NEW t \in Summaries
               PROVE  m \in compiled[t]
    OBVIOUS
  <2>1. "raw_matches" \in RawTables
    BY TableNames
  <2>2. ~IngestStep
    BY <2>1 DEF IngestStep, Ingest
  <2>3. DropTable
    BY <2>2, OtherActions
  <2>4. pc = "drop" /\ todo = {} /\ m \in MatchesOf(Patch)
    BY <2>1, <2>3, Drops DEF IInv
  <2>5. m \in RawHere
    BY <2>4 DEF RawHere
  <2>6. m \in compiled["slots"] /\ \A u \in PatchMetrics : m \in compiled[u]
    BY <2>4, <2>5 DEF IInv, Summarised, SlotsDone, MetricsDone, Working
  <2>7. QED
    BY <2>6 DEF Summaries
<1>2. QED
  BY <1>1, Invariance, PTL DEF RolloverSpec, PrunedWhenCompiled

(* When the collector's window moves, no raw row of a departing patch is   *)
(* left and every platform of it is closed, and so it stays                *)
(* (refresh-riot-key, archivePatchIfStored).                               *)
THEOREM BoundaryMovesPastArchived == RolloverSpec => []MovesPastArchived
<1>1. IInv => MovesPastArchived
  <2> SUFFICES ASSUME IInv, moved
               PROVE  /\ \A t \in RawTables : stored[t] = {}
                      /\ \A m \in index : status[<<PatchOf[m], PlatformOf[m]>>] = "closed"
    BY DEF MovesPastArchived
  <2>1. \A i \in 1..Len(Departing) : Archived(Departing[i])
    BY DEF IInv, Behind, AllArchived
  <2>2. \A m \in Matches : \E i \in 1..Len(Departing) : m \in MatchesOf(Departing[i])
    BY LifecycleAssumption, DepartingFacts DEF MatchesOf
  <2>3. \A t \in RawTables : stored[t] \subseteq Matches
    BY DEF IInv, Shape, RolloverTypeOK
  <2>4. \A t \in RawTables : stored[t] = {}
    BY <2>1, <2>2, <2>3 DEF Archived
  <2>5. ASSUME NEW m \in index
        PROVE  status[<<PatchOf[m], PlatformOf[m]>>] = "closed"
    <3>1. PICK i \in 1..Len(Departing) : m \in MatchesOf(Departing[i])
      BY <2>2 DEF IInv, Shape, RolloverTypeOK
    <3>2. QED
      BY <2>1, <3>1 DEF Archived, MatchesOf
  <2>6. QED
    BY <2>4, <2>5
<1>2. QED
  BY <1>1, Invariance, PTL
=============================================================================
