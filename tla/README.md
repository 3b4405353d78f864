# A verification project for WinRift

WinRift collects ranked League of Legends matches from the Riot API into
ClickHouse and serves statistics about them. This directory holds TLA+ modules
that model the parts of its Go backend and of its operating scripts where
processes, failures and retries meet, the TLC configurations that check them on
small instances, and theorems about them that TLAPS has checked.
`PROJECT.json` lists the components, the runs, the source lines behind every
definition, the hazards and the theorems.

Run `tlc -workers 2 -config X.cfg M` for a run of the table below and
`tlapm M.tla` for the proofs of each module `M` named `...Proofs`.

## 1. The system

| component | state it keeps | operations | what is hard |
|---|---|---|---|
| shared request budget (`internal/clickhouse/rate_limits.go`) | table `riot_request_events` | `ReserveRiotRequests`: count, insert, read the wait | two processes, three queries, no transaction |
| worker sweep and region ledger (`cmd/worker/main.go`, `request_budget.go`) | `regionRequestLedger`, the sweep's maps | allocate, match / rank / alias lane, `Record`, `MarkFull`, sleep | three lanes on two kinds of route, charged late; 429 |
| collector pass (`internal/collector`, `cmd/worker/main.go` `runPlatformPass`) | the visit's `Result` | match ids, match, timeline, ingest, discover | every call can fail, be limited, or find the key dead |
| crawl frontier (`internal/clickhouse/frontier.go`) | `collector_frontier`, one row per player | `FetchDueFrontier`, `MarkFrontierChecked`, `InsertFrontierSeed` | read-then-write from two processes; starvation |
| ingestion (`internal/clickhouse/ingestion.go`) | eleven tables and `build_analytics_mv` | `InsertNormalized` | no transaction; a match is never ingested twice, so never completed |
| patch rollover (`refresh-riot-key.sh`, `cmd/patchctl`, `patch_lifecycle.go`) | raw tables, summaries, `patch_snapshots`, `COLLECTOR_CURRENT_PATCH` | compile, close, prune, move the boundary | a long script of statements, retried from the start |
| alert monitor (`internal/monitor`) | the alert state file | check, mail, write | mail before write; restarts; grace, retry, cooldown |
| Riot client and key refresh (`internal/riot/client.go`, `refresh-riot-key.sh`) | marker file, `.env`, the containers' keys | look, wait, request, 429 retries, mark; watch; refresh | two processes and a script share the marker; restarts keep an old key |
| item-slot / loadout read models (`item_slot_analytics.go`) | two tables with platform, ALL and temporary rows | refresh in batches, roll up, query | dozens of statements, no transaction, repeated when memory is short; the worker and `patchctl` |
| champion guides (`champion_guide_derived.go`) | ten derived tables | insert stamped rows, delete older ones | one cutoff for all tables; whole-second stamps; tables that join tables |
| win conditions (`winconditions.go`, `wincondition_validation.go`) | team records, metrics per platform and ALL | refresh platform by platform, add up, diagnose, validate | half-done refreshes; two routes to one number |
| summoner profiles (`summoner_profile.go`) | identity and five summary tables | refresh all, then delete; read a page in parts | readers in between; keys that change when raw rows are pruned |
| event backfill (`raw_payload_batches.go`) | skill events, bans | list, look for missing, insert | a collector storing the same match |
| refresh scheduler (`cmd/worker/refresh_lanes.go`) | lane due times | round robin of four lanes | a slow lane delays the others |
| champion pages (`internal/api`, `champion_page_bundle_cache`) | flight group, response cache, stored bundles and aliases | coalesce, cache, prewarm, hydrate | failing leaders, stacked times to live, lists of patches made by two processes |
| normalisation, patch arithmetic (`internal/analytics`) | none | `NormalizeMatch`, `PatchWindow` | numeric edges |
| rank and account lookups, scores, static data, frontend | caches | queries | arithmetic and layout, no protocol |

The worker and the API are separate processes. They share ClickHouse (the
budget table, the frontier, the match tables), the marker file and the key in
the environment file. The monitor reads the marker, the worker's heartbeat, the
API's health answer and Docker. The operator's script stops the worker and the
monitor, runs `patchctl` in a container of its own, edits the environment file
and starts the services again. The worker compiles the read models from the match
tables, one lane after another, and stores the champion pages; the API reads
the models, and keeps in memory the pages the worker has stored. `patchctl`
compiles the same models once more when it archives a patch.

What makes each part correct:

* budget: a caller, and on up-to-date counts all callers together, stay within
  the usable budget of a route in every window;
* sweep: the calls on a region keep its budget over sliding windows, no platform
  is starved by rounding, a region rests once a call there has ended with a 429,
  and the loop never sleeps past budget;
* ingestion: statistics count a match once; an undisturbed match is complete;
* frontier: what a player asks for is visited, unless one of three named races
  loses it; a blocked player comes back;
* rollover: nothing is pruned before it is summarised, the window moves only
  past archived patches, and the script ends;
* key: a dead key stops the worker and is not asked with again and again, and a
  refresh brings both processes back;
* read models: no step of a refresh, failed or not, takes from a reader what
  the last complete refresh gave him (finding 6 below is the exception), and a
  complete one counts each game once;
* pages: a reader gets a page of bounded age, nobody waits for a build that is
  over, and the API waits for no patch that nobody builds;
* monitor: a new issue is mailed at once, a lasting one is mailed and reminded
  of without flooding, a recovery resets it.

## 2. Modules

| module | models | composed with |
|---|---|---|
| `UsableBudget` | the limits' configuration and `CollectorUsableRequestsPerRegion` | `RiotBudget`, `SweepConfig` |
| `SweepConfig` | the sweep's configuration | `WorkerSweep` |
| `RiotBudget` | `ReserveRiotRequests` and its callers | `RiotLimits`, `RiotBudgetProofs` (theorems) |
| `WorkerSweep` | the worker's loop, lanes and ledger | `RiotLimits`, `WorkerSweepProofs` (theorems) |
| `RiotLimits` | the two counts of requests as one specification | `MCRiotLimits` (values for TLC) |
| `Collector` | frontier, pass, visit, ingestion | `MCCollector`, `CollectorProofs` (theorems) |
| `AlertMonitor` | the monitor | checked directly, `AlertMonitorProofs` (theorems) |
| `DepartingPatches` | the patches a rollover moves out, and their matches | `PatchLifecycle` |
| `PatchLifecycle` | script, `patchctl`, lifecycle statements | `RefreshScript`, `PatchLifecycleProofs` (theorems) |
| `RiotAuth` | Riot client, marker, watcher, Docker's restarts, key refresh | `RefreshScript`, `RiotAuthProofs` (theorems) |
| `RefreshScript` | the two things `refresh-riot-key.sh` does as one specification | `MCRefreshScript` (values for TLC) |
| `ReadModel` | abstract: what a compiled read model owes its readers | implemented by `ItemSlots` and `GuideModels` |
| `ItemSlots` | the item-slot and starting-loadout tables | `ReadSide` |
| `GuideModels` | the ten derived tables of the guides | `ReadSide` |
| `WinConditions` | team records, metrics, diagnostics, validation | `ReadSide` |
| `SummonerPages` | profile tables, identity, the page, the leaderboard's icon | `ReadSide` |
| `EventBackfill` | backfill of skill events and bans beside the collector | `ReadSide` |
| `RefreshScheduler` | the worker's four refresh lanes | `ReadSide` |
| `PatchWindows` | patch arithmetic and the lists of patches derived from it | `PagePrewarm`, `PageCache` |
| `PagePrewarm` | which patches the worker prewarms and the API waits for | `ReadSide` |
| `PageCache` | memory, stored bundles, coalesced builds, prewarm, hydration | `ReadSide` |
| `ReadSide` | the eight components above as one specification | `MCReadSide` (values for TLC), `CompiledModelsProofs` (guides, items, win conditions), `ReadSideProofs` (the other five, and the theorems about the composition) |

`RiotLimits`, `RefreshScript` and `ReadSide` put parts side by side that share no
variable of the model. Their product would show nothing that each part alone
does not, so the variable `scene`, chosen in the initial state, says which part
runs, and the variables of the others keep their initial value; the state count
is the sum, and the fairness of a part is stated for its scene. What one part
means to another is in the other as a choice: the sweep takes any number of
permits the shared table might grant, and the key refresh takes the rollover as
a step of the script.

### RiotBudget

`events` is the table: a row with `request_count = k` is `k` permits, so a sum
is a cardinality. `call[c]` holds the arguments and locals of the caller `c`,
`pc[c]` the query it is about to make. `Begin` is the call with `time.Now()`;
`CountUsed`, `Insert` and `ReadWait` are the three queries in their order, and
each has a failing twin. `InsertFails` may leave the row in the table, as an
error after the server has applied the insert does. The stored times and the
cutoff have one resolution, which is the model's tick.

### WorkerSweep

`pc` follows one iteration: `choose` (skip, defer or allocate), the lanes
`match`, `rank`, `alias`, then `EndPlatform`, and `EndSweep` / `Wake` between
sweeps. A lane's permits `left` are any number up to what it asks for, because
the shared table may grant less and the lane may have nothing to do. A call is
one request, which succeeds, finds the key dead and stops the process, or is
answered 429. A 429 with a `Retry-After` the client is ready to sleep puts the
call off: `tries` counts these answers, `pause` is what is left of the sleep,
and `Retry` is the next request, up to `Retries` of them. They take no permit
and neither `RequestsUsed` nor the ledger counts them (`client.go:279`); the
lane goes on when one succeeds. Only a longer `Retry-After`, or a 429 after the
last retry, is a 429 the sweep sees (`refused`, `limited`).
Times are ages: for every age below the window, `ledger`, `calls` and
`rankCalls` say how many entries are at most that old, so that the count of the
highest age is the window's total, and `Tick` shifts them. `calls` and
`rankCalls` are the calls that were made, `retried` the requests after the first
of each, kept apart from what `ledger` was told. So the bound on a region has
two halves: the calls are within the budget, and the retries, which nothing
limits together, are at most `Retries` for each call of a full budget. What Riot
is sent may exceed the budget by these.

### Collector

One platform. `status`, `priority` and `agenda` are the frontier: the status of
a row, its numeric priority, and the due rows in the order of `next_check_at`.
The priorities are the code's: 100 for the environment's seeds, 95 for a live
backfill (`LivePriority`), 90 for challengers, 0 for discovered players, and a
forced seed never lowers one. Rows written in the same step may be in any order.
A pass fetches a `batch`; a visit asks for match ids, then for
each new match the match and its timeline, writes four groups of tables one at
a time, and looks at and writes each participant's frontier row in two steps.
The grouping keeps what differs between the tables: `raw_matches` (decides
whether a match is known), `participant_matchups` (feeds the summing view) and
those before and after it. Any insert fails, the worker crashes anywhere and
seeds again when it starts, the key expires and is rotated, the API forces
seeds.

### AlertMonitor

The four sources are read in one step, in the order of `Check`: they change
freely, so every combination a slow round could read is one the model reads.
`alert` is the file, `draft` the state a round is about to write. Ages replace
times and are cut off at the longest interval.

### PatchLifecycle

A table is the set of matches it has rows of. The script is `pc` and `pos`; a
failing statement ends the attempt and the script starts again with the first
departing patch, as `run_patch_rollover_until_complete` does. A failure after
the statement was applied is the statement followed by `AttemptFails`. The
summaries are kept by what they are computed from: raw ids joined with
participants (build metrics), and the normalised timeline rows as well (timing,
curve, item slots). `Ingest` is the worker, before the script and in between
when it was stopped and only the key was refreshed.

### RiotAuth

`call[c]` is the place of a caller in `getBytesWithRetries`: it looked at the
marker and waits for its `turn`, has `sent` its request, sleeps after a 429,
holds a 401 it has not marked yet (`rejected`), or has an error to return
(`refused` for a marker it found, `unauthorized` for a 401). The callers are
handlers of the API and the worker's main loop. `key` is what a container was
created with: `.env` is read at creation only, so a restart keeps the key and
`RecreateApi` and `StartWorker` change it. `Watch` is the worker's ticker; the
exit with status 0 is why Docker does not start the worker again, and
`WorkerCrash` is the other kind of exit. The steps of the script are those of
`refresh-riot-key.sh` in their order; its rollover is `PatchLifecycle`, its
docker commands succeed, and its waits may be as long as they like. A process
start and the clearing of the marker in its `main` are one step.

### ReadModel

The promise of `docs/product/performance-guardrails.md:11` ("A failed refresh
leaves the previous compiled snapshot readable") without tables: `shown` is what
a reader counts, `complete` what the last refresh that ran alone compiled, and
no step but `Publish` may take a game of `complete` out of `shown`, and none may
show a game that is not stored. `trusted` is FALSE while the promise is void,
from the moment two refreshers overlap or the raw rows are retired under a
running refresh until a refresh alone completes. In `GuideModels` nothing ever
sets it to FALSE: nine of its tables keep the promise even then, because each
insert is compiled from everything stored and old rows are deleted by the cutoff
alone. `moved` are games the promise leaves out: the build variants do not keep
it for a game whose row has become another one since the last complete refresh
(`Move`), and the run `GuideSnapshot` shows a reader losing one. The two modules
are shown to implement `ReadModel` (`INSTANCE ReadModel WITH played <- ...,
shown <- ...`), `shown` being computed from the detailed tables by the queries
of the code. `Live` says that an empty model is answered by a scan of the stored
games, so that a refresh that compiled to nothing still shows something.

### ItemSlots

`rows` is one of the two tables, chosen by `table`: they share no row, so each
is looked at alone. The counter of a row is kept as the set of its games, which
makes a lost and a doubled game visible. `platform` is `<<p, 0, 0>>` for a
platform or ALL, `<<p, run, n>>` for the n-th batch of a run, as in the code's
generated platform names. `job[r].step` is the statement a refresher is at;
`Repeat` is a statement that took effect and was reported out of memory,
`Abort` any other error or a restart. The closed patch makes its empty model
authoritative (`HasData`); the live scans are there for the other case
(`SummaryOnly` FALSE, a development set-up: production always has it TRUE).
What the readers are promised is an `Entry`: that a game counts under a key, and
for a starting item only that it was bought in a game won or lost, because
starting items are grouped without the match and of the games of a batch with
one result a row counts one.

### GuideModels

`watched` is the table whose readers are looked at; only the guide summary reads
another one (team kills). Nine tables are filled by one `INSERT ... SELECT`
(`InsertRows`). The build variants are read and grouped in memory
(`ReadVariants`) and then inserted row by row (`InsertRow`), in any order, each
row with a stamp of its own, between which the collector stores games, ranks
change, the other process inserts and deletes, and an error or restart ends the
refresh: what it has inserted by then stays, what is still `pending` does not
come. A row replaces one of its key and second. `Cutoff` is taken once, `Margin`
before the start; `Now` cuts the stamp to a whole second, which here is two
units of the clock. `Promote` moves a game to another rank bucket, so that a
refresh may leave a key without a row. `quiet` records whether a refresh was
undisturbed, `spaced` whether it began later than the margin after the rows it
replaces.

### WinConditions

A team is recorded when it has five champions itself (`Full` names match and
side), so a match can have one recorded team: `m3` has. Such a team counts for
the diagnostics; only the metrics and the validation's pairs leave it out.
`ValidationAgrees` says how the three numbers hang together: the pairs are the
games of the metrics, every bucket of the metrics counts each team with a
recorded opponent, and the difference to the diagnostics' teams are the matches
with one. `WinGames` are this module's matches, so that the third one does not
burden the other models.

A cell is a row by its key, a table maps a platform and a second to cells. The
numbers of a refresh are its locals: the teams' records and the ranks as they
were read. An insert is two chunks. `Start` covers the worker (all platforms),
`patchctl` for one platform, and the archive (only the roll-up).

### SummonerPages

One player. Every table is refreshed from what is stored when its statement
runs; deletes follow all inserts. `raw` is apart from `stored` because pruning
takes the raw row with the start time and leaves the participants. A page owes
what the last complete refresh had when it was asked for and reads it later.

### EventBackfill

`copies` counts the rows of a match in each table; `Merge` is the replacing of
duplicates. The collector stores its tables one by one and may stop for good in
between.

### ReadSide

The eight components share no variable: `scene` says which of them runs, and the
variables of the others keep one initial value. Its constants are theirs, and
the assumption `Configured` is the conjunction of theirs.

### RefreshScheduler

`since` is the time since a lane's run ended. A run lasts any number of ticks.
`passed` counts the runs of other lanes begun while a lane was due.

### PagePrewarm and PatchWindows

The lists of patches are computed as the code does, from statistics that may
fail to load, at the start of each process. What becomes of a patch's pages is
one step. A new current patch restarts both processes.

### PageCache

One page under its two keys. An entry is its age and the time it has left; each
place that takes a page over gives it the whole time to live again (`Taken`).
The unit is the time to live of a current page: everything a request, the
worker or the hydration does between two looks at the clock ends by a timeout
far shorter, so `Tick` happens between such spells. This is an assumption of
the model. `PagesAreRecent` is therefore a bound in whole units: the minutes a
page is under way between two places come on top of it, and the module says so.
The run `PageExpiry` needs no such spell: it refutes `RetainedBundlesExpire`
with pages that lie where they are.

## 3. Runs

| run | bounds | shows |
|---|---|---|
| `RiotLimits` | table: 2 callers, 1 route, bucket 4, reserve 1, window 2 ticks, 4 instants; sweep: 4 platforms on 2 regions, the same 3 usable requests per 2 ticks, 1 retry after 1 tick, 1 rank call per window | `OwnGrantBound`, `OverGrantNeedsRace`; `RegionWindowBound`, `DeferredOnlyWhenShort`, `RestsAfterRateLimit`, `NeverOversleeps` |
| `RiotBudgetReserve` | the same, 5 instants | violated: `ReserveServesPlayers` |
| `WorkerSweepRanks` | the same, 3 rank calls per window | violated: `RanksShareRegionBudget` |
| `Collector` | 2 players, 3 matches, 1 failed insert, crash, expiry, forced seed of either priority | `CountedOnce`, `TakenInWhole`, `ForcedSeedVisited` |
| `CollectorBlocked` | the same with a challenger seed | violated: `BlockedUntilFixed` |
| `AlertMonitor` | grace 2, retry 1, cooldown 2 rounds; 1 refused mail, lost write, restart; 4 kinds of trouble | `MailIsSpaced`, `NewIssueIsMailed`, `IssueIsMailed`, `RecoveryIsNoted` |
| `RefreshScript` | key: 2 handlers, 2 keys, 2 crashes, 2 attempts, 1 restart; rollover: 2 patches, 2 platforms, 3 matches, 2 failed attempts, 1 stop | `OneLateRequest`, `ExpiredKeyDoesNotLoop`, `RefreshRestores`, `DeadKeyStopsWorker`; `PrunedWhenCompiled`, `MovesPastArchived`, `RolloverEnds` |
| `PatchLifecycleResume` | the same, 1 failed attempt, no stop | violated: `ResumeKeepsArchive` |
| `RiotAuthNamed` | 2 handlers, 1 key, no crash | violated: `KeyFailureIsNamed` |
| `GuideSnapshot` | as `ReadSide` | violated: `FailedRefreshKeepsSnapshot` |
| `PageExpiry` | as `ReadSide`, with a time to live of 2 | violated: `RetainedBundlesExpire` |
| `ReadSide` | 2 matches (3 for the win conditions), 2 platforms, 2 refreshers and 2 refreshes of each model; 2 backfills, 1 match cut short; 4 lanes with intervals 1 to 3; 3 patches, mature at 2 matches; 2 requests, 2 current patches | the thirteen properties below |

Each passing run also checks the type invariants of what it runs. TLC finds 3.7
million distinct states in `RiotLimits`, nearly all of them the sweep's, 450
thousand in `RefreshScript` and 500 thousand in `ReadSide`, 240 thousand in
`Collector`.

`ReadSide` checks eight components. `ItemsStayReadable` and `GuideStaysReadable`
are the refinements of `ReadModel`; `ItemsCountedOncePerLevel`,
`GuideRefreshIsExact`, `AllIsTheSum` and `RecentMatchOnce` say what a complete
refresh leaves; `ValidationAgrees` that metrics and validation, two computations
over the same games, agree; `ReadersLoseNothing` that a page read during all
this lacks nothing; `EventsBackfilledOnce`, `NoLaneIsStarved`,
`HydratedPatchesArePrewarmed`, `PagesAreRecent` and `NobodyWaitsInVain` are as
named. The constraint `Worth` keeps the run short by cutting what adds no case:
item states in which the promise is void and no refresh is left to renew it
(nothing is claimed of them), overlapping refreshes of the guide tables other
than the one with both kinds of key (they differ from it only in what they
compile), and profiles whose matches come before the name (the two are
independent).

Why these bounds reach the interesting cases. Two callers are enough for a race,
and a window shorter than the clock makes permits leave it while a caller is
between its queries. One retry of one tick outlasts half the window, so requests
of one call fall into two windows. Three SEA platforms and one of ASIA whose
budget they also spend, with three requests, give rounding, a platform that gets
nothing, and a sweep longer than the window. Two players who share a match give
a discovery, a match met twice, and a forced seed during a visit; one of them is
the environment's seed of 100 and can overtake the other's 95; the three matches
are one to ingest, one of another queue and one past the retention. Four
troubles cover the kinds that differ: immediate, graced as transient, from the
heartbeat, graced by the container check. Two platforms of one patch and a
second patch give partly compiled patches and a patch that is pruned when a
later one fails. Two handlers and the worker give a marker written before a
caller's look, between its look and its request, and after its answer; two keys
give one refresh with requests of the old key under way; two crashes reach the
restart limit of 1. Two games with a batch size of one give two batches on one
platform or two platforms, so every statement has something to lose; two
refreshes give an old snapshot and a new one, a failed run with leftovers and
its successor, and two that overlap. Lanes of intervals 1, 2, 2 and 3 with runs
of any length make every lane due when any run ends.

The seven violated properties are sentences of the documentation that the code
does not keep; `PROJECT.json` quotes them under `findings`:

1. interactive requests cannot use the reserve that is said to protect them;
2. rank calls are not charged to the regional budget they are said to share;
3. a `blocked` player is not retried once the credentials are fixed;
4. a resumed rollover compiles an already pruned patch again from nothing and
   loses its compiled summaries;
5. a request refused because of the marker is answered by a plain 503 without
   the code `RIOT_API_KEY_UNAVAILABLE`;
6. a guide refresh that fails between two rows of the build variants leaves a
   snapshot that lacks games the previous one had: a row with fewer games has
   replaced its key's older row, and the row that took the others over has not
   been inserted;
7. the page of a retained patch does not expire after two hours: the store, its
   alias and the API's memory each keep it for two.

Deadlock is checked in `AlertMonitor` and `Collector`. In the others the system
may really stop: `ReadSide` uses up its refreshes, the callers of `RiotLimits`
run out of their clock, its worker exits for good when the key is dead, and the
rollover of `RefreshScript` runs out of work.

### Fairness

`Collector`: the worker's steps together are weakly fair (its loop never ends),
Riot's answer to a player's match ids is strongly fair (a lookup that fails is
repeated at the next visit, and Riot does not fail it for ever), `BecomesDue`
because clocks advance, `RotateKey` and `StartWorker` because the runbook has
the operator rotate an expired key; failures, crashes and forced seeds have
none. `AlertMonitor`: rounds and the ticker. The rollover of `RefreshScript`:
the script's own steps; nothing obliges the operator to start it or Riot to
offer a match. Its key refresh: every call goes on, the watcher's ticker ticks,
and Riot does not fail for ever to answer the worker's calls with a dead key
(strong fairness of that answer: between two requests it is not enabled); the
script, crashes and the key's changes have none. Failures and crashes are finite
in number, each by a named bound, so a liveness property says what happens once
they are over. `ForcedSeedVisited` names the three races in which a forced seed
is lost or kept waiting, rather than assuming them away: a failed authentication
writes `blocked` over it, a discovery writes its own row over it, and a seed of
a higher priority that has been visited since is due again before it
(`Overtaken`).

## 4. Theorems

`RiotBudgetProofs` proves, for every set of callers and routes, every bucket,
reserve, interval and window that `BudgetAssumption` and `UsableAssumption`
allow:

* `TypeCorrect`: `TableSpec => []TableTypeOK`;
* `OwnGrantBounded`: `TableSpec => []OwnGrantBound`;
* `OverGrantNeedsARace`: `TableSpec => OverGrantNeedsRace`.

`OwnGrantBound` is not inductive. The invariant `IInv` adds that no row lies in
the future of the clock or of a call under way (`RowsBeforeNow`,
`RowsBeforeCall`), that a call about to insert holds the grant its count allowed
(`GrantFollowsCount`), and that what the caller itself has in the window of its
call, plus its grant, is within the budget (`GrantFits`). The last follows
because the count of all callers' rows is at least the count of the caller's
own, and no other caller inserts rows in its name. A window that ends before
the call is bounded by what held earlier, one that ends after it holds no row
newer than the call, so `AllWindows` is preserved when the rows go in. The
proof has a lemma per action and cites the finite-set theorems of the library.

`RiotAuthProofs` proves, for every set of handlers, every restart limit and any
number of start attempts, keys and crashes:

* `TypeCorrect`: `Spec => []TypeOK`;
* `TripwireHolds`: `Spec => []OneLateRequest`;
* `NoLoopOnAnExpiredKey`: `Spec => []ExpiredKeyDoesNotLoop`;
* `RefreshEndsWell`: `Spec => []RefreshRestores`.

The strengthening has one part per property. A caller that sent its late
request is past the look at a marker that is still there
(`LateCallersMeetTheMarker`), since whatever removes the marker gives every
caller a new look. A 401 that no crash accounts for is in the worker's hands or
has stopped it (`HitsAreSpent`). While Riot has not rejected the newest key,
each step of the script finds what the earlier ones were to bring about, and no
process with the newest key holds a 401 (`ScriptOnCourse`). Each part is
preserved by a lemma with one step per action.

`PatchLifecycleProofs` proves, for any departing patches (each named once, in
`LifecycleAssumption`), platforms, matches and number of failed attempts:

* `TypeCorrect`: `RolloverSpec => []RolloverTypeOK`;
* `ArchivedBeforePruned`: `RolloverSpec => PrunedWhenCompiled`;
* `BoundaryMovesPastArchived`: `RolloverSpec => []MovesPastArchived`.

What makes a deletion safe is spread over the script. The invariant says where
it is (`OnCourse`), that every raw match of its patch is in the item model and
either in all metrics or of a platform still to do (`SlotsDone`, `MetricsDone`,
`PlatformSoFar`), what the deletion order has left behind (`RawIndexed`,
`DroppedSoFar`), and that every patch before it is archived (`BehindArchived`).

`AlertMonitorProofs` proves, for any grace, retry interval and cooldown:

* `TypeCorrect`: `Spec => []TypeOK`;
* `MailsAreSpaced`: `Spec => []MailIsSpaced`;
* `NewIssuesAreMailed`: `Spec => NewIssueIsMailed`.

The file may lack the last mail, because it is sent before it is written down.
`FileTracks` says that a file about the issue of the last mail either knows of
that mail or asks for another, and `SeenIsFiled` that it knows of it whenever
the previous round left its trace in the file, which is the case in which
spacing is promised.

`CollectorProofs` proves, for any players, matches and participants:

* `TypeCorrect`: `Spec => []TypeOK`;
* `NeverCountedTwice`: `Spec => []CountedOnce`;
* `UncutIsWhole`: `Spec => []TakenInWhole`.

The last two rest on the order of the tables. `raw_matches` comes first, so that
a match with any row is never fetched again (`RawFirst`, `FetchedIsNew`), and a
match under way has the rows of exactly the groups before the current one
(`InsertedSoFar`, `SeededSoFar`). The type of the frontier is not a matter of
shapes: a due player is queued once and has a row (`FrontierOK`), which must
survive every rewriting of the queue, and whoever is in the middle of a visit
visits somebody (`WorkerOK`).

`WorkerSweepProofs` proves, for any platforms, regions, budgets, windows, lane
maxima, retries and sleeps that `UsableAssumption` and `SweepAssumption` allow:

* `TypeCorrect`: `Spec => []TypeOK`;
* `RegionIsBounded`: `Spec => []RegionWindowBound`;
* `DeferralIsJustified`: `Spec => DeferredOnlyWhenShort`;
* `LimitedRegionRests`: `Spec => RestsAfterRateLimit`;
* `SleepIsNotTooLong`: `Spec => NeverOversleeps`.

None of them is inductive. The ledger is charged when a lane ends, so the bound
on what was sent needs that it lags behind by the running lane's calls only
(`CallsAreCharged`) and that the lane's share has room (`ShareFits`). Retries are
charged to nothing, so `RetriesAreFew` compares them with the calls they belong
to: at every age at most `Retries` for each call that is charged or will be,
less those the call under way can still send (`Spare`, `Unsent`). That nobody
is deferred without cause needs that the sweep counts the platforms still to
come (`RemainingIsAhead`) and that a region which began with enough has a
request left for each of them, and for the running lanes (`RoomAhead`): the
share is divided with rounding up, and `RoomAhead` says that the rounding leaves
enough. A region rests because the sweep remembers it (`RefusedIsRemembered`),
and because no lane there is left with a call to make or a retry to send.
The sleep ends before the oldest entries of a full region are out
(`SleepEndsInTime`), which is preserved because a tick ages both alike. The
least age that holds everything exists because every set of ages has a least
one.

`CompiledModelsProofs` and `ReadSideProofs` prove, for every value of the
constants that `Configured` allows, about `ReadSide`:

* `TypeCorrect`: `Spec => []TypeOK`, of whichever component runs;
* `GuideRefines`: `Spec => GuideStaysReadable`, the refinement of `ReadModel`;
* `ItemsKeepTheirReaders`: `Spec => ItemsStayReadable`, the other refinement of
  it;
* `AllRowsAddUp`: `Spec => AllIsTheSum`;
* `ReadersKeepTheirMatches`: `Spec => ReadersLoseNothing`;
* `MatchesAreListedOnce`: `Spec => RecentMatchOnce`;
* `EventsAreBackfilledOnce`: `Spec => EventsBackfilledOnce`;
* `EveryLaneGetsItsTurn`: `Spec => []NoLaneIsStarved`;
* `EveryListedPatchIsBuilt`: `Spec => []HydratedPatchesArePrewarmed`;
* `PagesStayRecent`: `Spec => []PagesAreRecent`;
* `NobodyIsStranded`: `Spec => []NobodyWaitsInVain`.

A behaviour of `ReadSide` is one of each component (`ComponentsRun`), so each is
proved of its component and carried over.

*Guide.* The invariant `GuideIInv` says what protects a reader from the next
deletion. For the tables filled by one statement: while a refresh is between the
insert and the delete of a table, the games promised to readers are in rows that
are final for their key and no older than its cutoff (`TablesServed`). An insert
by anyone establishes this for every refresh under way, because its stamp is at
least each of their cutoffs; a deletion by anyone preserves it, since whichever
of two cutoffs is later, the rows it spares suffice for the other. This is where
the margin of `GuideAssumption` is needed, which covers the fraction of a second
a stamp loses. For the build variants no game is in a row of its key by the
shape of one insert: it is there row by row (`VariantsServed`). Every promised
game that has kept its key is in the final row of that key, and, from the read
of a refresh to its deletion, that row is one the deletion spares or the refresh
has it still to insert, with the game in it (`NotLost`). An inserted row
replaces the row of its own key only, and a game that kept its key loses nothing
by that; one that moved does, and is in `moved`. A quiet refresh is the only one
(`GuideQuietIsAlone`), so that at its end the table counts exactly the stored
games. Each step maps to `Store`, `Move`, `Compile` or `Publish` of `ReadModel`
or stutters.

*Win conditions.* `WinIInv` follows the roll-up through its two chunks
(`AllRows`): nothing under its second yet, the first chunk of the sum, the sum.
That the sum it carries is still the platforms' when it is done needs that only
rows of platforms enter it and that ALL is not one of them, which `WinAssumption`
says, and that its second is its own (`later`).

*Profiles.* A later row of a key holds what the earlier ones hold (`RowsGrow`),
because participants are never deleted; after the inserts of a refresh its own
rows hold every match any row holds (`RefreshCovers`), so deleting the others
takes nothing. For the recent matches the keys of a refresh alone are those of
the raw rows at its end (`KeysAreCurrent`), so that none is listed under two.

*Backfill.* What a backfill lists and the collector has not cut short is either
in its table or still ahead of it (`NoneIsSkipped`); a match is written twice only
if both were at it at once, which `eventsRaced` records (`NotThereYet`,
`CopiesFew`).

*Lanes.* A lane has been passed at most as often as there are lanes switched on
behind it in the round that begins at the next lane (`WaitBounded`). Running the
first due lane moves that lane to the end, behind every waiting one.

*Prewarm.* The API's list holds the window and older patches that have games
(`ListIsOlder`), the worker's holds at least those, and what has left its list
without a failure is built (`WorkerCovers`). Both rest on the order of patches,
whose lemmas (`PatchWindows`' comparison is a strict order, sorting and cutting
keep the entries) come first.

*Pages.* A bound on an entry's age says nothing about the next step, since its
time to live counts from when it was taken over. `Within` bounds age and time
left together: an entry that `n` places have taken over has at most `n` times to
live between them. The stored page is one such place, the alias made from it a
second, memory a third, and `Tick` keeps the sum. Expiry then gives the bound of
three.

*Items.* What a run that is alone has compiled so far is in rows of its own
second: in its batches, or in the platform's row once they are added up
(`CompiledIsThere`). Every row and the last snapshot are of games such a run has
compiled or will (`NothingIsOlder`), since the stored games only grow until they
are pruned, which ends its being alone. So the roll-up and the deletion of older
rows, which come when nothing is left to compile, take nothing that is not in
the run's own rows. The statements before them take only batches
(`ItemReadersServed`: the promised entries are in rows of whole platforms).
`ItemRowsFit` and `RunsFit` say that a row holds games of its key and platform,
whose batch it is, and how far a run has come. Each step maps to `Store`,
`Retire`, `Compile` or `Publish` of `ReadModel` or stutters.

Proving it changed the model twice. The type invariant showed that the cases of
`Advance` overlapped, which leaves the value of a `CASE` open; they are disjoint
now. And the promise was first stated on games: with three games of one result
that buy the same starting item and complete none, in batches of two, it is
false, because which of the games a row counts depends on the batch. The promise
is on entries now (section 2).

The theorems assume what the modules state on their constants. The runs evaluate
all of it: `RiotLimits` extends `RiotBudget` and `WorkerSweep` (and with them
`UsableBudget` and `SweepConfig`), `RefreshScript` extends `PatchLifecycle` (and
with it `DepartingPatches`), and `ReadSide` states its components' assumptions
as `Configured`, which `MCReadSide`'s values satisfy.

Model-checked only:

* `ForcedSeedVisited`, `IssueIsMailed`, `RecoveryIsNoted`, `RolloverEnds` and
  `DeadKeyStopsWorker` are liveness under fairness, outside the prover's reach;
* `GuideRefreshIsExact` is not proved yet;
* `ItemsCountedOncePerLevel` adds up counters over a set of rows, and that two
  such sums agree needs induction over the set;
* `ValidationAgrees` compares two sums over sets, which are folds: that a sum
  over teams taken game by game is the sum taken key by key needs induction over
  the set that is summed.

## 5. Observations

What the modelling of the read side showed that is not a property of a run:

* Item-slot summaries do not filter the platform, so a query adds a game's
  platform row and its ALL row: every game counts twice
  (`queryItemSlotsSummary`, item_slot_analytics.go:341). `CountedOncePerLevel`
  states this factor. Rates are unaffected; confidence intervals and minimum
  games are.
* The starting items of slot 0 are grouped without the match
  (item_slot_analytics.go:841), so a batch counts at most one win and one loss
  per item, where the live scan counts each game. Which game it counts, and how
  many a patch counts, depends on how its games fall into batches.
* A worker that survives `compose stop worker || true`
  (refresh-riot-key.sh:698) and is refreshing while its patch is pruned empties
  the archived item model: `ItemSlots` reaches this, and the promise is void.
* After pruning, the next profile refresh rewrites an archived match's recent
  row with start time and duration 0 (the raw row is left-joined).
* The validation with a rank filter pairs only teams of which both are in that
  bucket, the metrics bucket a game by one team; their matchups agree only
  without a filter, which is how `ValidationAgrees` compares them.
* The diagnostics count the team of a match whose other team has not five
  champions (winconditions.go:203), the metrics do not (winconditions.go:659):
  the diagnostics' teams are twice the metrics' games only without such matches.
* A `Retry-After` within `RIOT_RATE_LIMIT_MAX_SLEEP_SECONDS` is slept off inside
  a call, and the retries are in no count: neither the shared table's nor the
  ledger's. A region's budget bounds calls, not requests, and a region rests
  only after a call that *ended* with a 429.
* How old a retained patch's page becomes is bounded by three times two hours,
  give or take the minutes it is under way (`PagesAreRecent`); the documented two
  hours are refuted by the run `PageExpiry`. After a rollover, a page built while
  its patch was retained is kept with the archived patch's thirty days.
* An archived patch whose prewarm fails, and archived pages that expire, wait
  for the next start of the worker.
* A crash-looping worker begins every round with the first lane: `Restart`
  resets `passed`, and a lane is only promised its turn between restarts.

## 6. Not modelled

See the components with status `not_modelled`. The scores of champions and
compositions, the ranking of guide rows and the texts are arithmetic over
floating-point data with no state between calls; the frontend renders; the
normaliser converts data; static data is a read-through cache of files. Of the
modelled parts: the rank lookups of a visit, the manual seed endpoint as a
second collector, the worker's own prune at start-up, the live aggregate, the
cached rank and account lookups, endpoints other than the champion page that
use the response cache, and leaders that panic.

## 7. Plan

1. The manual seed endpoint as a second collector in `Collector`; the pacing of
   the Riot client between reservation and request in `RiotAuth`.
2. `planPatchRollover` as an operator over `PatchWindows`, used by
   `PatchLifecycle` to derive the departing patches.
3. An abstract ledger that `WorkerSweep` implements, and an abstract ingestion
   (absent, partial, complete) that `Collector` implements.
4. `GuideRefreshIsExact` as a theorem.
