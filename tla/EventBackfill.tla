---------------------------- MODULE EventBackfill ----------------------------
(* The backfill of the guide's events: skill events from the stored        *)
(* timelines and bans from the stored matches, for matches that have none  *)
(* (src/core/internal/clickhouse/raw_payload_batches.go and the first      *)
(* functions of champion_guide_derived.go).                                *)
(*                                                                         *)
(* The collector stores a match table after table and may stop in between. *)
(* A backfill lists the source's matches of a platform once and goes       *)
(* through them in batches: it asks which of a batch have no destination   *)
(* row and inserts those, in another statement.  A match that the          *)
(* collector is still storing then gets its rows twice; the tables replace *)
(* duplicates when they merge, and the guide reads them unmerged.          *)

EXTENDS Naturals, Sequences, FiniteSets, SequencesExt

CONSTANTS
    Matches,                \* matches of the patch
    PlatformOf,             \* the platform of a match
    Eventful,               \* matches whose payloads hold events
    BatchSize,              \* rawPayloadBackfillBatchSize
    MaxRuns,                \* bound: backfills started
    MaxCrashes              \* bound: ingestions cut short

BackfillAssumption ==
    /\ IsFiniteSet(Matches)
    /\ BatchSize \in Nat \ {0}
    /\ {MaxRuns, MaxCrashes} \subseteq Nat

Sources == <<"raw_timelines", "raw_matches">>
Destination(s) == IF s = "raw_timelines" THEN "timeline_skill_events" ELSE "champion_bans"

\* The tables a match is stored in, in the collector's order.
IngestOrder == <<"raw_matches", "raw_timelines", "timeline_skill_events", "champion_bans">>
Tables == ToSet(IngestOrder)

VARIABLES
    copies,                 \* copies of each match's rows in each table
    ingest,                 \* the match being stored, and the tables left
    crashes,                \* ingestions cut short
    runs,                   \* backfills started
    job,                    \* the backfill under way
    raced                   \* matches stored while a backfill was under way

vars == <<copies, ingest, crashes, runs, job, raced>>

NoMatch == <<"none", <<>>>>
Idle == [step |-> "idle"]

Stored(t) == {m \in Matches : copies[t][m] > 0}
StoredPlatforms == {PlatformOf[m] : m \in Stored("raw_matches")}

\* An insert of a table that holds no row for a match without events.
Add(t, games) ==
    [copies EXCEPT ![t] = [m \in Matches |->
        IF m \in games /\ (t \in {"raw_matches", "raw_timelines"} \/ m \in Eventful)
        THEN copies[t][m] + 1 ELSE copies[t][m]]]

Init ==
    /\ copies = [t \in Tables |-> [m \in Matches |-> 0]]
    /\ ingest = NoMatch
    /\ crashes = 0
    /\ runs = 0
    /\ job = Idle
    /\ raced = {}

\* The collector begins a match it has not stored, and stores it table after
\* table.
BeginMatch(m) ==
    /\ ingest = NoMatch
    /\ m \notin Stored("raw_matches")
    /\ ingest' = <<m, IngestOrder>>
    /\ raced' = IF job = Idle THEN raced ELSE raced \union {m}
    /\ UNCHANGED <<copies, crashes, runs, job>>

InsertTable ==
    /\ ingest # NoMatch
    /\ copies' = Add(Head(ingest[2]), {ingest[1]})
    /\ ingest' = IF Len(ingest[2]) = 1 THEN NoMatch ELSE <<ingest[1], Tail(ingest[2])>>
    /\ UNCHANGED <<crashes, runs, job, raced>>

\* An error or a restart leaves the match as far as it is.
CutShort ==
    /\ ingest # NoMatch
    /\ crashes < MaxCrashes
    /\ crashes' = crashes + 1
    /\ ingest' = NoMatch
    /\ UNCHANGED <<copies, runs, job, raced>>

\* Merging parts drops the replaced duplicates.
Merge(t) ==
    /\ \E m \in Matches : copies[t][m] > 1
    /\ copies' = [copies EXCEPT ![t] = [m \in Matches |-> IF @[m] > 1 THEN 1 ELSE @[m]]]
    /\ UNCHANGED <<ingest, crashes, runs, job, raced>>

\* The platforms are those of the raw matches at the start, in order.
BackfillChampionGuideEvents ==
    /\ job = Idle
    /\ runs < MaxRuns
    /\ runs' = runs + 1
    /\ job' = [step |-> "list", platforms |-> SetToSeq(StoredPlatforms), sources |-> Sources,
               left |-> {}, missing |-> {},
               timelines |-> Stored("raw_timelines"), matches |-> Stored("raw_matches")]
    /\ raced' = IF ingest = NoMatch THEN raced ELSE raced \union {ingest[1]}
    /\ UNCHANGED <<copies, ingest, crashes>>

\* The source's matches of the platform are listed once; then the next source
\* or platform, and at the end nothing.
ListSource ==
    /\ job.step = "list"
    /\ job' = IF job.platforms = <<>> THEN Idle
              ELSE IF job.sources = <<>>
              THEN [job EXCEPT !.platforms = Tail(@), !.sources = Sources]
              ELSE [job EXCEPT !.step = "missing",
                        !.left = {m \in Stored(Head(job.sources)) :
                                      PlatformOf[m] = Head(job.platforms)}]
    /\ UNCHANGED <<copies, ingest, crashes, runs, raced>>

Batch(ids) == CHOOSE b \in SUBSET ids :
    Cardinality(b) = IF Cardinality(ids) < BatchSize THEN Cardinality(ids) ELSE BatchSize

\* A bug: every match of the batch is taken to be missing.
AllOfBatch(ids, t) == ids
MissingDestinationMatches(ids, t) == ids \ Stored(t)

ForEachMissingBatch ==
    LET missing == MissingDestinationMatches(Batch(job.left), Destination(Head(job.sources)))
    IN  /\ job.step = "missing"
        /\ job' = IF job.left = {} THEN [job EXCEPT !.step = "list", !.sources = Tail(@)]
                  ELSE [job EXCEPT !.left = @ \ Batch(@), !.missing = missing,
                                   !.step = IF missing = {} THEN "missing" ELSE "process"]
        /\ UNCHANGED <<copies, ingest, crashes, runs, raced>>

\* The rows are extracted from the payloads as they are now.
SkillEventsBatch ==
    /\ job.step = "process" /\ Head(job.sources) = "raw_timelines"
    /\ copies' = Add("timeline_skill_events", job.missing \intersect Stored("raw_timelines"))
    /\ job' = [job EXCEPT !.step = "missing", !.missing = {}]
    /\ UNCHANGED <<ingest, crashes, runs, raced>>

BansBatch ==
    /\ job.step = "process" /\ Head(job.sources) = "raw_matches"
    /\ copies' = Add("champion_bans", job.missing \intersect Stored("raw_matches"))
    /\ job' = [job EXCEPT !.step = "missing", !.missing = {}]
    /\ UNCHANGED <<ingest, crashes, runs, raced>>

Abort ==
    /\ job # Idle
    /\ job' = Idle
    /\ UNCHANGED <<copies, ingest, crashes, runs, raced>>

Next ==
    \/ \E m \in Matches : BeginMatch(m)
    \/ InsertTable
    \/ CutShort
    \/ \E t \in Tables : Merge(t)
    \/ BackfillChampionGuideEvents
    \/ ListSource
    \/ ForEachMissingBatch
    \/ SkillEventsBatch
    \/ BansBatch
    \/ Abort

Spec == Init /\ [][Next]_vars

-----------------------------------------------------------------------------
(* Properties *)

TypeOK ==
    /\ \A t \in Tables, m \in Matches : copies[t][m] \in 0..(1 + MaxRuns)
    /\ \A m \in Matches : copies["raw_matches"][m] <= 1 /\ copies["raw_timelines"][m] <= 1
    /\ crashes \in 0..MaxCrashes
    /\ runs \in 0..MaxRuns
    /\ raced \subseteq Matches

Done == job # Idle /\ job.platforms = <<>> /\ ListSource

\* A finished backfill has given events to every match whose payload was
\* stored when it began, however the match was cut short, and no sequence of
\* aborted and repeated backfills gives a match its events twice, unless the
\* collector was storing that very match meanwhile
\* (forEachMissingRawPayloadMatchBatch, raw_payload_batches.go:20).
EventsBackfilledOnce ==
    /\ [][Done =>
            /\ job.timelines \intersect Eventful \subseteq Stored("timeline_skill_events")
            /\ job.matches \intersect Eventful \subseteq Stored("champion_bans")]_vars
    /\ [][\A t \in Tables, m \in Matches : (copies[t][m] <= 1 /\ copies'[t][m] > 1) => m \in raced]_vars

=============================================================================
