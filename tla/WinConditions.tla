---------------------------- MODULE WinConditions ----------------------------
(* The win-condition read model of one patch and queue                     *)
(* (src/core/internal/clickhouse/winconditions.go): team records per match *)
(* (match_team_win_conditions), matchup metrics per platform, and their    *)
(* roll-up into ALL (patch_win_condition_metrics); the diagnostics and the *)
(* validation that read the team records                                   *)
(* (wincondition_validation.go).                                           *)
(*                                                                         *)
(* A refresh reads the teams of one platform into memory, inserts their    *)
(* records and the metrics counted from them, deletes what is older, and   *)
(* goes on to the next platform; at the end it adds up whatever the        *)
(* platforms' rows are then.  No statement is repeated: any error ends the *)
(* refresh where it is.  Every row carries the second it was compiled in,  *)
(* taken once per refresh.  The worker's lanes run one after the other and *)
(* patchctl runs while the worker is stopped: one refresh at a time.       *)
(*                                                                         *)
(* A table is, per platform, a function from compiled_at to cells, a cell  *)
(* being what one row holds under its key.                                 *)

EXTENDS Naturals, Sequences, FiniteSets, FiniteSetsExt, Functions

CONSTANTS
    Games,                  \* matches of the patch
    Platforms,              \* configured platforms
    PlatformOf,             \* the platform of a match
    Sides,                  \* the two teams of a match
    Players,                \* players with a rank snapshot
    StartRank,              \* their first one
    Roster,                 \* per match and side: the team's ranked players
    Full,                   \* the <<match, side>> with five champions
    Conditions,             \* the win conditions (axes with their rating)
    Primary,                \* per match and side: its primary condition
    Length,                 \* per match: its game length bucket
    MaxRuns                 \* bound: refreshes started

VARIABLES
    stored,                 \* matches with raw rows
    rankOf,                 \* newest rank snapshot of each player
    teams,                  \* match_team_win_conditions
    metrics,                \* patch_win_condition_metrics
    clock,                  \* seconds
    runs,                   \* refreshes started
    job                     \* the refresh under way

vars == <<stored, rankOf, teams, metrics, clock, runs, job>>

\* Rank buckets and length buckets are numbers; All is the bucket of every
\* match, Unknown the bucket of a team none of whose players is ranked.
All == 0
Unknown == 1
Ladder == 2..3

WinAssumption ==
    /\ StartRank \in [Players -> Ladder]
    /\ "ALL" \notin Platforms
    /\ MaxRuns \in Nat

-----------------------------------------------------------------------------
(* What a refresh compiles *)

\* The bucket most of a team's ranked players are in, the higher one on a tie.
TeamRankBucket(team, ranks) ==
    LET count(b) == Cardinality({p \in team : ranks[p] = b})
        held == {b \in Ladder : count(b) > 0}
    IN  IF held = {} THEN Unknown
        ELSE CHOOSE b \in held : \A c \in held :
                 count(b) > count(c) \/ (count(b) = count(c) /\ b >= c)

\* The team records of a set of matches: the team's rank bucket under its
\* match and side.  A team without five champions is left out, its opponent
\* is not.
TeamRecords(games, ranks) ==
    [t \in (games \X Sides) \intersect Full |-> TeamRankBucket(Roster[t[1]][t[2]], ranks)]

\* 1 when the condition is the team's primary one, and 2 in any case.
Modes(g, s, c) == IF Primary[g][s] = c THEN {1, 2} ELSE {2}

\* A bug: a match is not counted under every rank as well.
KeysOfRankOnly(g, s, o, rank) ==
    UNION {{<<rank, c, d, 10 * m + n, l>> :
                m \in Modes(g, s, c), n \in Modes(g, o, d), l \in {Length[g], All}} :
            c \in Conditions, d \in Conditions}

\* The keys a team's match is counted under: rank, both conditions, both
\* modes, and game length.
KeysOf(g, s, o, rank) ==
    UNION {{<<b, c, d, 10 * m + n, l>> :
                b \in {rank, All}, m \in Modes(g, s, c), n \in Modes(g, o, d), l \in {Length[g], All}} :
            c \in Conditions, d \in Conditions}

\* Both teams of every match that has two, each counted from its own side.
Aggregate(records) ==
    LET pairs == {p \in (DOMAIN records) \X (DOMAIN records) :
                    p[1][1] = p[2][1] /\ p[1][2] # p[2][2]}
        keys(p) == KeysOf(p[1][1], p[1][2], p[2][2], records[p[1]])
    IN  [k \in UNION {keys(p) : p \in pairs} |-> Cardinality({p \in pairs : k \in keys(p)})]

Compiled == [games \in SUBSET Games |-> [ranks \in [Players -> Ladder \union {Unknown}] |->
                [records |-> TeamRecords(games, ranks),
                 metrics |-> Aggregate(TeamRecords(games, ranks))]]]

-----------------------------------------------------------------------------
(* The tables *)

\* FINAL: under each key the newest row.
Final(table) ==
    [k \in UNION {DOMAIN table[at] : at \in DOMAIN table} |->
        table[Max({at \in DOMAIN table : k \in DOMAIN table[at]})][k]]

\* The rows of a platform and second, new ones over those of the same key.
Insert(table, at, cells) ==
    LET old == IF at \in DOMAIN table THEN table[at] ELSE [k \in {} |-> 0]
        new == [k \in DOMAIN old \union DOMAIN cells |->
                    IF k \in DOMAIN cells THEN cells[k] ELSE old[k]]
    IN  IF DOMAIN cells = {} THEN table
        ELSE [a \in DOMAIN table \union {at} |-> IF a = at THEN new ELSE table[a]]

DeleteOld(table, at) == Restrict(table, {a \in DOMAIN table : ~(a < at)})

At(cells, k) == IF k \in DOMAIN cells THEN cells[k] ELSE 0

\* A bug: the ALL rows are among the rows added up.
SumWithAll(table) ==
    LET final == [p \in Platforms \union {"ALL"} |-> Final(table[p])]
    IN  [k \in UNION {DOMAIN final[p] : p \in DOMAIN final} |->
            MapThenSumSet(LAMBDA p : At(final[p], k), DOMAIN final)]

\* The sum over the platforms' rows, of whichever refresh they are.
SumOf(final) ==
    [k \in UNION {DOMAIN final[p] : p \in Platforms} |->
        MapThenSumSet(LAMBDA p : At(final[p], k), Platforms)]
SumPlatforms(table) == SumOf([p \in Platforms |-> Final(table[p])])

\* An insert is cut into statements of a thousand rows: here one for the rows
\* of every rank and one for the rest.
FirstChunk(cells) == Restrict(cells, {k \in DOMAIN cells : k[1] = All})
LastChunk(cells) == Restrict(cells, {k \in DOMAIN cells : k[1] # All})

-----------------------------------------------------------------------------
(* The queries *)

\* The metrics of a platform, or of ALL, and a rank bucket.
QueryWinConditionMetrics(p, rank) ==
    LET final == Final(metrics[p]) IN Restrict(final, {k \in DOMAIN final : k[1] = rank})

\* Teams and matches of a platform and rank bucket, All for no filter.
Scoped(p, rank) ==
    LET final == Final(teams[p])
    IN  {t \in DOMAIN final : rank = All \/ final[t] = rank}
DiagnosticsTeams(p, rank) == Cardinality(Scoped(p, rank))
DiagnosticsMatches(p, rank) == Cardinality({t[1] : t \in Scoped(p, rank)})

\* Those of the teams whose opponent is recorded as well: the others are in
\* the diagnostics and not in the metrics.
Paired(p, rank) ==
    {t \in Scoped(p, rank) : \E o \in Scoped(p, All) : o[1] = t[1] /\ o[2] # t[2]}

\* The validation pairs the scoped teams of a match again: how often a team
\* with primary condition c met one with primary condition d.
PrimaryMatchups(p, rank, c, d) ==
    LET primary(t) == Primary[t[1]][t[2]]
    IN  Cardinality({m \in Scoped(p, rank) \X Scoped(p, rank) :
            /\ m[1][1] = m[2][1] /\ m[1][2] # m[2][2]
            /\ primary(m[1]) = c /\ primary(m[2]) = d})

-----------------------------------------------------------------------------
(* A refresh *)

Idle == [step |-> "idle"]

Init ==
    /\ stored = {}
    /\ rankOf = StartRank
    /\ teams = [p \in Platforms |-> [at \in {} |-> 0]]
    /\ metrics = [p \in Platforms \union {"ALL"} |-> [at \in {} |-> 0]]
    /\ clock = 1
    /\ runs = 0
    /\ job = Idle

Store(g) ==
    /\ g \notin stored
    /\ stored' = stored \union {g}
    /\ UNCHANGED <<rankOf, teams, metrics, clock, runs, job>>

\* A newer rank snapshot: the team may change its bucket.
Promote(p) ==
    /\ rankOf[p] # Max(Ladder)
    /\ rankOf' = [rankOf EXCEPT ![p] = Max(Ladder)]
    /\ UNCHANGED <<stored, teams, metrics, clock, runs, job>>

\* The worker refreshes every platform, patchctl one, and the archive none:
\* it only adds up.  The refresh is stamped in the second of an earlier one
\* or in a later one.
Start(todo, at) ==
    /\ job = Idle
    /\ runs < MaxRuns
    /\ runs' = runs + 1
    /\ clock' = at
    /\ job' = [step |-> "next", at |-> at, todo |-> todo, platform |-> "none",
               games |-> {}, ranks |-> StartRank, sum |-> <<>>,
               whole |-> todo = Platforms,
               later |-> \A p \in DOMAIN metrics : at \notin DOMAIN metrics[p]]
    /\ UNCHANGED <<stored, rankOf, teams, metrics>>

RefreshWinConditionMetricsForPlatforms ==
    \E todo \in {Platforms} \union {{p} : p \in Platforms} :
        \E at \in {clock, clock + 1} : Start(todo, at)

RefreshCombinedWinConditionMetrics ==
    \E at \in {clock, clock + 1} : Start({}, at)

\* The teams of the next platform are read with the ranks of that moment.
\* After the last platform, the sum over all of them.
Read ==
    /\ job.step = "next"
    /\ IF job.todo = {}
       THEN job' = [job EXCEPT !.step = "all", !.platform = "ALL", !.sum = SumPlatforms(metrics)]
       ELSE LET p == CHOOSE p \in job.todo : TRUE
            IN  job' = [job EXCEPT !.step = "teams", !.platform = p, !.todo = @ \ {p},
                                     !.games = {g \in stored : PlatformOf[g] = p}, !.ranks = rankOf]
    /\ UNCHANGED <<stored, rankOf, teams, metrics, clock, runs>>

InsertTeamRecords ==
    LET j == job
    IN  /\ j.step = "teams"
        /\ teams' = [teams EXCEPT ![j.platform] =
                Insert(@, j.at, Compiled[j.games][j.ranks].records)]
        /\ job' = [job EXCEPT !.step = "metrics", !.games = {}, !.ranks = StartRank,
                                !.sum = Compiled[j.games][j.ranks].metrics]
        /\ UNCHANGED <<stored, rankOf, metrics, clock, runs>>

\* The two chunks of the platform's metrics, or of the ALL rows.
InsertMetrics ==
    LET j == job
        then == CASE j.step = "metrics" -> "metrics_rest" [] j.step = "metrics_rest" -> "drop_teams"
                  [] j.step = "all" -> "all_rest" [] OTHER -> "drop_all"
        chunk == IF j.step \in {"metrics", "all"} THEN FirstChunk(j.sum) ELSE LastChunk(j.sum)
    IN  /\ j.step \in {"metrics", "metrics_rest", "all", "all_rest"}
        /\ metrics' = [metrics EXCEPT ![j.platform] = Insert(@, j.at, chunk)]
        /\ job' = [job EXCEPT !.step = then,
                              !.sum = IF j.step \in {"metrics", "all"} THEN @ ELSE <<>>]
        /\ UNCHANGED <<stored, rankOf, teams, clock, runs>>

DeleteOldTeamRecords ==
    /\ job.step = "drop_teams"
    /\ teams' = [teams EXCEPT ![job.platform] = DeleteOld(@, job.at)]
    /\ job' = [job EXCEPT !.step = "drop_metrics"]
    /\ UNCHANGED <<stored, rankOf, metrics, clock, runs>>

DeleteOldMetrics ==
    /\ job.step = "drop_metrics"
    /\ metrics' = [metrics EXCEPT ![job.platform] = DeleteOld(@, job.at)]
    /\ job' = [job EXCEPT !.step = "next"]
    /\ UNCHANGED <<stored, rankOf, teams, clock, runs>>

FinishRefresh ==
    /\ job.step = "drop_all"
    /\ metrics' = [metrics EXCEPT !["ALL"] = DeleteOld(@, job.at)]
    /\ job' = Idle
    /\ UNCHANGED <<stored, rankOf, teams, clock, runs>>

\* An error, a cancelled context or a restart.
Abort ==
    /\ job # Idle
    /\ job' = Idle
    /\ UNCHANGED <<stored, rankOf, teams, metrics, clock, runs>>

Next ==
    \/ \E g \in Games : Store(g)
    \/ \E p \in Players : Promote(p)
    \/ RefreshWinConditionMetricsForPlatforms
    \/ RefreshCombinedWinConditionMetrics
    \/ Read
    \/ InsertTeamRecords
    \/ InsertMetrics
    \/ DeleteOldTeamRecords
    \/ DeleteOldMetrics
    \/ FinishRefresh
    \/ Abort

Spec == Init /\ [][Next]_vars

-----------------------------------------------------------------------------
(* Properties *)

TypeOK ==
    /\ stored \subseteq Games
    /\ rankOf \in [Players -> Ladder]
    /\ \A p \in Platforms : \A at \in DOMAIN teams[p] :
          at <= clock /\ DOMAIN teams[p][at] \subseteq Full
    /\ \A p \in Platforms \union {"ALL"} : \A at \in DOMAIN metrics[p] : at <= clock
    /\ runs \in 0..MaxRuns

Finishes == job # Idle /\ job.later /\ FinishRefresh

\* A roll-up leaves ALL the sum of the platforms under every key, and drops
\* the keys no platform has any more, whatever earlier refreshes left half done
\* (refreshAllPlatformWinConditionMetrics, winconditions.go:775).
AllIsTheSum ==
    [][Finishes =>
          LET sum == SumPlatforms(metrics')
              final == Final(metrics'["ALL"])
          IN  DOMAIN final = DOMAIN sum /\ \A k \in DOMAIN sum : final[k] = sum[k]]_vars

\* After a refresh of all the platforms the two routes to the same number
\* agree.  The matchups the validation pairs from the team records
\* (queryWinConditionPrimaryMatchupOutcomes, wincondition_validation.go:383)
\* are the games of the ALL metrics; every rank bucket of the metrics counts
\* each of its teams with a recorded opponent once; and the teams of matches
\* with one recorded team, which the metrics leave out (winconditions.go:659),
\* are what the diagnostics' teams fall short of two a match
\* (queryWinConditionDiagnosticsSummary).
ValidationAgrees ==
    [][(Finishes /\ job.whole) =>
          LET final == Final(metrics'["ALL"])
              Two(p) == 2 * (DiagnosticsTeams(p, All) - DiagnosticsMatches(p, All))
          IN  /\ \A c \in Conditions, d \in Conditions :
                    At(final, <<All, c, d, 11, All>>) =
                        MapThenSumSet(LAMBDA p : PrimaryMatchups(p, All, c, d)', Platforms)
              /\ \A c \in Conditions, b \in Ladder :
                    At(final, <<b, c, c, 22, All>>) =
                        MapThenSumSet(LAMBDA p : Cardinality(Paired(p, b))', Platforms)
              /\ \A c \in Conditions :
                    At(final, <<All, c, c, 22, All>>) =
                        MapThenSumSet(LAMBDA p : Two(p)', Platforms)]_vars

=============================================================================
