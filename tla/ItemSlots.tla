---------------------------- MODULE ItemSlots ----------------------------
(* The two item read models of one patch, queue and item context:          *)
(* item_slot_analytics and starting_loadout_analytics                      *)
(* (src/core/internal/clickhouse/item_slot_analytics.go), with the         *)
(* refreshers that rebuild them and the queries that read them.            *)
(*                                                                         *)
(* A refresh is a sequence of ClickHouse statements.  It drops what an     *)
(* earlier run left behind, inserts the games of every platform in batches *)
(* under partial platform names, adds the batches up into the platform's   *)
(* rows, deletes the batches, rolls the platforms up into ALL, and deletes *)
(* the rows of older runs.  Readers query between any two statements.  A   *)
(* statement may fail for memory (it is repeated after a delay, with or    *)
(* without having taken effect) or otherwise (the refresh ends there).     *)
(*                                                                         *)
(* A row is [platform, at, key, games]: the games are kept as a set, and   *)
(* the code's counter is its cardinality.  The tables are                  *)
(* ReplacingMergeTrees on compiled_at: of the rows of one platform and key *)
(* a FINAL query sees the newest.                                          *)

EXTENDS Naturals, Sequences, FiniteSets, FiniteSetsExt

CONSTANTS
    Games,                  \* the games of the patch
    Layouts,                \* where games may have been played: the choices
                            \* of a platform for every game
    Won,                    \* whether the participant won the game
    Bought,                 \* per game: the item purchases [item, at]
    Cost,                   \* gold cost of an opening item, per item id
    CompletionItems,        \* item ids that fill slots 1 to 6
    StartingItems,          \* item ids that fill slot 0
    StartWindow,            \* startingItemWindowMS
    FirstWindow,            \* openingPurchaseFirstWindowMS
    BurstWindow,            \* openingPurchaseBurstWindowMS
    GoldCap,                \* openingPurchaseGoldCap
    BatchSize,              \* itemAnalyticsMatchBatchSize
    Refreshers,             \* processes that may refresh
    SummaryOnly,            \* repository.summaryOnly: no live scans
    MaxRuns                 \* bound: refreshes started

\* ALL is the name of the roll-up, and of no platform.
ItemAssumption ==
    /\ IsFiniteSet(Games)
    /\ \A g \in Games : /\ Bought[g] \subseteq [item : Nat, at : Nat]
                       /\ IsFiniteSet(Bought[g])
                       /\ \A l \in Layouts : l[g] # "ALL"
    /\ BatchSize \in Nat \ {0}
    /\ MaxRuns \in Nat

Tables == {"item_slot_analytics", "starting_loadout_analytics"}

VARIABLES
    table,                  \* the table looked at (neither touches the other)
    platformOf,             \* the platform a game was played on
    stored,                 \* games with raw rows
    closed,                 \* patch_snapshots says closed
    rows,                   \* rows of the table
    clock,                  \* seconds
    runs,                   \* refreshes started, the source of run nonces
    job,                    \* per refresher: the refresh it is in
    complete,               \* what the last complete refresh run alone compiled
    trusted                 \* no overlap or retirement since that refresh

vars == <<table, platformOf, stored, closed, rows, clock, runs, job, complete, trusted>>

PlatformsOf(games) == {platformOf[g] : g \in games}

-----------------------------------------------------------------------------
(* What one batch compiles *)

First(purchases) == CHOOSE p \in purchases : \A q \in purchases : p.at <= q.at

\* The n-th completed item of a game, in order of first purchase; slots 1 to 6.
SlotRows ==
    LET built(g) == {p \in Bought[g] : p.item \in CompletionItems}
        slots(g) == {s \in {<<Cardinality({q \in built(g) : q.at <= p.at}), p.item>> :
                             p \in built(g)} : s[1] <= 6}
    IN  [games \in SUBSET Games |->
            {[key |-> k, games |-> {g \in games : k \in slots(g)}] :
                k \in UNION {slots(g) : g \in games}}]

\* The games whose player bought starting item i.
Started(games, i) ==
    {g \in games : \E p \in Bought[g] : p.item = i /\ p.at <= StartWindow}

\* Starting items are grouped without the match id, so that a batch holds one
\* game per result and item (the live scan groups by match).
StartingRows ==
    LET one(games, i, w) == CHOOSE g \in Started(games, i) : Won[g] = w
    IN  [games \in SUBSET Games |->
            {[key |-> <<0, i>>,
              games |-> {one(games, i, w) : w \in {Won[g] : g \in Started(games, i)}}] :
                i \in {i \in StartingItems : Started(games, i) # {}}}]

\* A loadout is what was bought within the burst after the first purchase,
\* if that came early and the gold does not exceed the cap.
Loadout(g) ==
    LET opening == {p \in Bought[g] : p.at <= FirstWindow /\ p.item \in DOMAIN Cost}
    IN  {p \in opening : p.at <= First(opening).at + BurstWindow}

Gold(g) == MapThenSumSet(LAMBDA p : Cost[p.item], Loadout(g))
Valid(games) == {g \in games : Loadout(g) # {} /\ Gold(g) <= GoldCap}
Signature(g) == {p.item : p \in Loadout(g)}

LoadoutRows ==
    [games \in SUBSET Games |->
        {[key |-> s, games |-> {g \in Valid(games) : Signature(g) = s}] :
            s \in {Signature(g) : g \in Valid(games)}}]

BatchRows(games) ==
    IF table = "item_slot_analytics"
    THEN SlotRows[games] \union StartingRows[games]
    ELSE LoadoutRows[games]

\* What readers learn from a row that counts game g under k: that g was one, or
\* of a starting item, that it was bought in a game won or lost.
Entry(k, g) == <<k, IF table = "item_slot_analytics" /\ k[1] = 0 THEN Won[g] ELSE g>>

Entries(compiled) == UNION {{Entry(c.key, g) : g \in c.games} : c \in compiled}

-----------------------------------------------------------------------------
(* The table *)

Stamp(compiled, platform, at) ==
    {[platform |-> platform, at |-> at, key |-> c.key, games |-> c.games] :
        c \in compiled}

\* FINAL: the newest row of a platform and key.
Final(rs) ==
    {r \in rs : \A s \in rs :
        (s.platform = r.platform /\ s.key = r.key) => s.at <= r.at}

\* An insert replaces the row of the same platform, key and second.
Insert(rs, new) ==
    {r \in rs : ~ \E n \in new :
        n.platform = r.platform /\ n.key = r.key /\ n.at = r.at} \union new

SumRows(rs) ==
    {[key |-> k, games |-> UNION {r.games : r \in {r \in rs : r.key = k}}] :
        k \in {r.key : r \in rs}}

\* A platform column holds a platform, ALL, or a batch of one run.
Whole(p) == <<p, 0, 0>>
Partial(j, n) == <<j.platform, j.nonce, n>>
IsPartial(r) == r.platform[2] # 0

-----------------------------------------------------------------------------
(* The queries *)

\* The games a query adds up, over every row of the key: platforms, ALL and
\* partial batches.
Summed(seen, k) == UNION {r.games : r \in {r \in seen : r.key = k}}
SlotGames(k) == MapThenSumSet(LAMBDA r : Cardinality(r.games),
                              {r \in Final(rows) : r.key = k})
SlotSummary(seen, k) == Summed(seen, k)
LoadoutSummary(seen, k) == Summed(seen, k)

\* A closed patch is authoritative even when it compiled to nothing.
PatchIsClosed == closed
HasData == rows # {} \/ PatchIsClosed

LiveScanSlots(k) ==
    IF k[1] = 0 THEN Started(stored, k[2])
    ELSE UNION {r.games : r \in {r \in SlotRows[stored] : r.key = k}}

LiveScanLoadouts(k) ==
    UNION {r.games : r \in {r \in LoadoutRows[stored] : r.key = k}}

QueryItemSlots(seen, k) ==
    IF SlotSummary(seen, k) # {} \/ SummaryOnly \/ HasData
    THEN SlotSummary(seen, k) ELSE LiveScanSlots(k)

QueryStartingItemLoadouts(seen, k) ==
    IF LoadoutSummary(seen, k) # {} \/ SummaryOnly \/ HasData
    THEN LoadoutSummary(seen, k) ELSE LiveScanLoadouts(k)

SlotKeys == {r.key : r \in SlotRows[Games] \union StartingRows[Games]}
LoadoutKeys == {r.key : r \in LoadoutRows[Games]}

TableKeys == IF table = "item_slot_analytics" THEN SlotKeys ELSE LoadoutKeys

Countable == Entries({[key |-> k, games |-> Games] : k \in TableKeys})

\* What the queries of the table show.  When there is a snapshot only its keys
\* yield anything.
Shown ==
    LET seen == Final(rows)
        keys == IF HasData THEN {r.key : r \in seen} ELSE TableKeys
        query(k) == IF table = "item_slot_analytics" THEN QueryItemSlots(seen, k)
                    ELSE QueryStartingItemLoadouts(seen, k)
    IN  IF stored = {} /\ rows = {} THEN {}
        ELSE Entries({[key |-> k, games |-> query(k)] : k \in keys})

-----------------------------------------------------------------------------
(* A refresh *)

Idle == [step |-> "idle"]

Active == {r \in Refreshers : job[r].step # "idle"}

\* The platforms are listed first, once.
RefreshItemSlots(r) ==
    [step |-> "orphans", at |-> 0, nonce |-> runs + 1, alone |-> Active = {},
     all |-> PlatformsOf(stored), todo |-> PlatformsOf(stored),
     platform |-> "none", ids |-> {}, batch |-> 0, compiled |-> {}]

RefreshLoadouts(r) == RefreshItemSlots(r)

\* The games of one platform, in batches of BatchSize.
MatchIDs(p) == {g \in stored : platformOf[g] = p}
NextBatch(ids) == CHOOSE b \in SUBSET ids : Cardinality(b) = IF Cardinality(ids) < BatchSize
                                                            THEN Cardinality(ids) ELSE BatchSize

Partials(j) == {Partial(j, n) : n \in 1..j.batch}

Own(j, platforms) == {r \in Final(rows) : r.at = j.at /\ r.platform \in platforms}

\* A bug: the batches of failed runs stay.
KeepOrphans(rs) == rs
DropOrphans(rs) == {r \in rs : ~IsPartial(r)}
AggregateBatches(j) == Insert(rows, Stamp(SumRows(Own(j, Partials(j))), Whole(j.platform), j.at))
DropBatches(j) == {r \in rows : ~(r.at = j.at /\ r.platform \in Partials(j))}
AggregatePlatforms(j) == Insert(rows, Stamp(SumRows(Own(j, {Whole(p) : p \in j.all})), Whole("ALL"), j.at))

\* A bug: a run deletes what it has compiled as well.
DropOldAndOwn(j) == {r \in rows : ~(r.at <= j.at)}
DropOld(j) == {r \in rows : ~(r.at < j.at)}

\* The rows after the statement a refresh is at.
Effect(j) ==
    CASE j.step = "orphans"   -> DropOrphans(rows)
      [] j.step = "batch"     ->
            Insert(rows, Stamp(BatchRows(NextBatch(j.ids) \intersect stored),
                               Partial(j, j.batch + 1), j.at))
      [] j.step = "aggregate" -> AggregateBatches(j)
      [] j.step = "clean"     -> DropBatches(j)
      [] j.step = "rollup"    -> AggregatePlatforms(j)
      [] j.step = "old"       -> DropOld(j)
      [] OTHER                -> rows

\* Where the refresh goes next: the next batch, platform or statement.
Advance(j) ==
    CASE j.step = "platform" /\ j.todo = {} -> [j EXCEPT !.step = "rollup"]
      [] j.step = "platform" /\ j.todo # {} ->
            LET p == CHOOSE p \in j.todo : TRUE
            IN  [j EXCEPT !.platform = p, !.todo = @ \ {p}, !.batch = 0,
                          !.ids = MatchIDs(p),
                          !.step = IF MatchIDs(p) = {} THEN "aggregate" ELSE "batch"]
      [] j.step = "batch" ->
            LET rest == j.ids \ NextBatch(j.ids)
            IN  [j EXCEPT !.ids = rest, !.batch = @ + 1,
                          !.compiled = @ \union NextBatch(j.ids),
                          !.step = IF rest = {} THEN "aggregate" ELSE "batch"]
      [] j.step = "aggregate" -> [j EXCEPT !.step = "clean"]
      [] j.step = "clean"     -> [j EXCEPT !.step = "platform"]
      [] j.step = "rollup"    -> [j EXCEPT !.step = "old"]
      [] OTHER                -> Idle

Init ==
    /\ table \in Tables
    /\ platformOf \in Layouts
    /\ stored = {}
    /\ closed = FALSE
    /\ rows = {}
    /\ clock = 1
    /\ runs = 0
    /\ job = [r \in Refreshers |-> Idle]
    /\ complete = {}
    /\ trusted = TRUE

\* The collector stores a game.
Store(g) ==
    /\ ~closed
    /\ g \notin stored
    /\ stored' = stored \union {g}
    /\ UNCHANGED <<table, platformOf, closed, rows, clock, runs, job, complete, trusted>>

\* A second refresher spoils the run of the first one too.
StartRefresh(r) ==
    /\ ~closed
    /\ job[r] = Idle
    /\ runs < MaxRuns
    /\ job' = [s \in Refreshers |->
                  IF s = r THEN IF table = "item_slot_analytics"
                                THEN RefreshItemSlots(r) ELSE RefreshLoadouts(r)
                  ELSE IF s \in Active THEN [job[s] EXCEPT !.alone = FALSE]
                  ELSE job[s]]
    /\ runs' = runs + 1
    /\ trusted' = (trusted /\ Active = {})
    /\ UNCHANGED <<table, platformOf, stored, closed, rows, clock, complete>>

\* The run is stamped after the orphans are gone, in the same second as an
\* earlier run or in a later one.
StampRun(r) ==
    /\ job[r].step = "orphans"
    /\ rows' = Effect(job[r])
    /\ \E at \in {clock, clock + 1} :
          /\ clock' = at
          /\ job' = [job EXCEPT ![r] = [@ EXCEPT !.at = at, !.step = "platform"]]
    /\ UNCHANGED <<table, platformOf, stored, closed, runs, complete, trusted>>

Statement(r) ==
    /\ job[r].step \in {"platform", "batch", "aggregate", "clean", "rollup"}
    /\ rows' = Effect(job[r])
    /\ job' = [job EXCEPT ![r] = Advance(@)]
    /\ UNCHANGED <<table, platformOf, stored, closed, clock, runs, complete, trusted>>

\* The last statement.  What the readers were promised from now on is what
\* the run compiled, if it ran alone.
FinishRefresh(r) ==
    /\ job[r].step = "old"
    /\ rows' = Effect(job[r])
    /\ job' = [job EXCEPT ![r] = Idle]
    /\ IF job[r].alone
       THEN complete' = Entries(BatchRows(job[r].compiled)) /\ trusted' = TRUE
       ELSE UNCHANGED <<complete, trusted>>
    /\ UNCHANGED <<table, platformOf, stored, closed, clock, runs>>

\* A statement took effect and was reported as out of memory: it is repeated.
Repeat(r) ==
    /\ job[r].step \notin {"idle", "platform"}
    /\ rows' = Effect(job[r])
    /\ UNCHANGED <<table, platformOf, stored, closed, clock, runs, job, complete, trusted>>

\* Any other error, a cancelled context or a restart ends the run where it is.
Abort(r) ==
    /\ job[r] # Idle
    /\ job' = [job EXCEPT ![r] = Idle]
    /\ UNCHANGED <<table, platformOf, stored, closed, rows, clock, runs, complete, trusted>>

\* patchctl closes the snapshot of an archived patch ...
ClosePatch ==
    /\ ~closed
    /\ closed' = TRUE
    /\ UNCHANGED <<table, platformOf, stored, rows, clock, runs, job, complete, trusted>>

\* ... and prunes its raw rows.  A worker that was not stopped may still be
\* refreshing the patch.
PrunePatch ==
    /\ closed
    /\ stored # {}
    /\ stored' = {}
    /\ job' = [r \in Refreshers |->
                  IF r \in Active THEN [job[r] EXCEPT !.alone = FALSE] ELSE job[r]]
    /\ trusted' = (trusted /\ Active = {})
    /\ UNCHANGED <<table, platformOf, closed, rows, clock, runs, complete>>

Next ==
    \/ \E g \in Games : Store(g)
    \/ \E r \in Refreshers :
          \/ StartRefresh(r)
          \/ StampRun(r)
          \/ Statement(r)
          \/ FinishRefresh(r)
          \/ Repeat(r)
          \/ Abort(r)
    \/ ClosePatch
    \/ PrunePatch

Spec == Init /\ [][Next]_vars

-----------------------------------------------------------------------------
(* Properties *)

TypeOK ==
    /\ table \in Tables
    /\ platformOf \in Layouts
    /\ stored \subseteq Games
    /\ closed \in BOOLEAN
    /\ \A r \in rows : r.games \subseteq Games /\ r.at <= clock
    /\ runs \in 0..MaxRuns
    /\ \A r \in Active : job[r].compiled \subseteq Games /\ job[r].at <= clock
    /\ complete \subseteq Countable
    /\ trusted \in BOOLEAN

\* Both tables keep the abstract promise of ReadModel: no statement of a
\* refresh, failed or not, takes a game of the last complete snapshot away from
\* the readers, and an archived patch keeps its snapshot when its raw rows go
\* (RefreshItemSlotAnalytics, item_slot_analytics.go:705).
Abstract == INSTANCE ReadModel WITH Live <- ~SummaryOnly,
    played <- Entries(BatchRows(stored)), shown <- Shown, moved <- {}

\* A refresh that ran alone leaves each game counted once in its platform's
\* row and once in ALL, whatever failed runs left behind: a query, which adds
\* up every row (queryItemSlotsSummary, item_slot_analytics.go:341), counts it
\* twice and never a third time.
CountedOncePerLevel ==
    [][\A r \in Refreshers : (job[r] # Idle /\ job[r].alone /\ FinishRefresh(r)) =>
          \A k \in TableKeys : SlotGames(k)' = 2 * Cardinality(Summed(Final(rows'), k))]_vars

=============================================================================
