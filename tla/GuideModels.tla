---------------------------- MODULE GuideModels ----------------------------
(* The ten derived tables behind a champion guide, for one patch and queue *)
(* (src/core/internal/clickhouse/champion_guide_derived.go), and what      *)
(* their readers count.                                                    *)
(*                                                                         *)
(* A refresh takes one cutoff a few seconds before it starts and goes      *)
(* through the tables in order: it inserts the rows compiled from what is  *)
(* stored now, stamped by ClickHouse with now() in whole seconds, and      *)
(* deletes the rows stamped before the cutoff.  Both steps of a table are  *)
(* repeated together when memory is short.  Nine tables are filled by one  *)
(* INSERT ... SELECT; the build variants are read first and then inserted  *)
(* one row a statement, each with its own stamp.                           *)
(*                                                                         *)
(* A row is [at, key, games, joined]: the games it counts, and of those    *)
(* the games whose team kills were found.  A game moves from one key to    *)
(* another when its player's rank snapshot changes, and a build variant's  *)
(* also when another core becomes its most played one.  The tables share   *)
(* nothing but team_kill_summary, which the guide summary joins, so a      *)
(* behaviour looks at one table, and at that one with the summary.         *)

EXTENDS Integers, Sequences, FiniteSets, SequencesExt, FiniteSetsExt

CONSTANTS
    Games,              \* games of one champion and role
    Skilled,            \* games whose timeline has skill events
    Banned,             \* games with a ban of the champion
    Matched,            \* games with a known lane opponent
    Runed,              \* games with a rune or spell signature
    Cored,              \* games with a core item signature
    Refreshers,
    Second,             \* clock units in a second
    Margin,             \* the five seconds before the start
    Pause,              \* a pause between refreshes longer than the margin
    MaxRuns             \* bound: refreshes started, and with it the clock

\* The margin covers the fraction of a second a stamp loses.
GuideAssumption ==
    /\ Second \in Nat \ {0}
    /\ Margin \in Nat
    /\ Second <= Margin + 1
    /\ Pause \in Nat \ {0}
    /\ MaxRuns \in Nat

VARIABLES
    watched,            \* the table looked at
    stored,             \* games with raw rows
    rankOf,             \* rank bucket of each game's player
    rows,               \* rows of each table
    clock,
    runs,               \* refreshes started
    job,                \* per refresher: the refresh it is in
    complete,           \* games of the watched table's last complete refresh
    moved               \* those of them that have another key since

vars == <<watched, stored, rankOf, rows, clock, runs, job, complete, moved>>

Kills == "team_kill_summary"
Summary == "champion_guide_summary_analytics"
Variants == "champion_build_variant_analytics"

\* A bug: the summary is compiled before the kills it joins.
RefreshOrderSwapped ==
    <<"champion_skill_analytics", "champion_ban_analytics", Summary,
      "champion_role_analytics", Kills, "champion_guide_scope_analytics",
      "champion_matchup_analytics", "champion_signature_analytics",
      "build_signature_analytics", Variants>>

\* What is joined is compiled before what joins it.
RefreshOrder ==
    <<"champion_skill_analytics", "champion_ban_analytics", Kills,
      "champion_role_analytics", Summary, "champion_guide_scope_analytics",
      "champion_matchup_analytics", "champion_signature_analytics",
      "build_signature_analytics", Variants>>

Tables == ToSet(RefreshOrder)

Position(t) == CHOOSE i \in DOMAIN RefreshOrder : RefreshOrder[i] = t

Todo == IF watched # Summary THEN <<watched>>
        ELSE IF Position(Kills) < Position(Summary) THEN <<Kills, Summary>>
        ELSE <<Summary, Kills>>

-----------------------------------------------------------------------------
(* What an insert compiles: groups of games *)

Group(games, key(_)) ==
    {[key |-> k, games |-> {g \in games : key(g) = k}] : k \in {key(g) : g \in games}}

\* The rank bucket is the player's newest snapshot, when it has one.
Rank(g) == rankOf[g]
All(g) == "ALL"
Match(g) == g

RoleRows(games) == Group(games, All)
SkillRows(games) == Group(games \intersect Skilled, Rank)
BanRows(games) == Group(games \intersect Banned, All)
TeamKillRows(games) == Group(games, Match)
SummaryRows(games) == Group(games, Rank)
ScopeRows(games) == Group(games, Rank) \union Group(games, All)
MatchupRows(games) == Group(games \intersect Matched, Rank)
SignatureRows(games) == Group(games \intersect Runed, Rank)
BuildRows(games) == Group(games, Rank)
VariantRows(games) == Group(games \intersect Cored, Rank)

Compiled(t, games) ==
    CASE t = "champion_skill_analytics"         -> SkillRows(games)
      [] t = "champion_ban_analytics"           -> BanRows(games)
      [] t = Kills                              -> TeamKillRows(games)
      [] t = "champion_role_analytics"          -> RoleRows(games)
      [] t = Summary                            -> SummaryRows(games)
      [] t = "champion_guide_scope_analytics"   -> ScopeRows(games)
      [] t = "champion_matchup_analytics"       -> MatchupRows(games)
      [] t = "champion_signature_analytics"     -> SignatureRows(games)
      [] t = "build_signature_analytics"        -> BuildRows(games)
      [] t = Variants                           -> VariantRows(games)

Final(rs) == {r \in rs : \A s \in rs : s.key = r.key => s.at <= r.at}

Counted(rs) == UNION {r.games : r \in Final(rs)}

\* now() has no fraction of a second.
Now(c) == c - (c % Second)

Replaced(rs, new) ==
    {r \in rs : ~ \E n \in new : n.key = r.key /\ n.at = r.at} \union new

Insert(t, at) ==
    Replaced(rows[t], {[at |-> at, key |-> c.key, games |-> c.games,
                        joined |-> c.games \intersect Counted(rows[Kills])] :
                           c \in Compiled(t, stored)})

InsertVariant(c, at) ==
    Replaced(rows[Variants], {[at |-> at, key |-> c.key, games |-> c.games, joined |-> {}]})

DeleteRowsBefore(t, cutoff) == {r \in rows[t] : ~(r.at < cutoff)}

-----------------------------------------------------------------------------

Idle == [step |-> "idle"]
Active == {r \in Refreshers : job[r].step # "idle"}

Init ==
    /\ watched \in Tables
    /\ stored = {}
    /\ rankOf = [g \in Games |-> "gold"]
    /\ rows = [t \in Tables |-> {}]
    /\ clock = 0
    /\ runs = 0
    /\ job = [r \in Refreshers |-> Idle]
    /\ complete = {}
    /\ moved = {}

\* The collector stores a game: a refresh under way is no longer quiet.
Store(g) ==
    /\ g \notin stored
    /\ stored' = stored \union {g}
    /\ job' = [r \in Refreshers |->
                  IF r \in Active THEN [job[r] EXCEPT !.quiet = FALSE] ELSE job[r]]
    /\ UNCHANGED <<watched, rankOf, rows, clock, runs, complete, moved>>

\* A newer rank snapshot moves the player's games to another bucket.
Promote(g) ==
    /\ rankOf[g] # "plat"
    /\ moved' = moved \union ({g} \intersect complete)
    /\ rankOf' = [rankOf EXCEPT ![g] = "plat"]
    /\ job' = [r \in Refreshers |->
                  IF r \in Active THEN [job[r] EXCEPT !.quiet = FALSE] ELSE job[r]]
    /\ UNCHANGED <<watched, stored, rows, clock, runs, complete>>

\* A bug: no margin, although rows are stamped in whole seconds.
CutoffAtStart(now) == now

\* One cutoff for all the tables.
Cutoff(now) == now - Margin

StartRefresh(r) ==
    /\ job[r] = Idle
    /\ runs < MaxRuns
    /\ runs' = runs + 1
    /\ \E now \in {clock + 1, clock + Pause} :
          /\ clock' = now
          /\ job' = [s \in Refreshers |->
                IF s = r
                THEN [step |-> "insert", todo |-> Todo, pending |-> {},
                      cutoff |-> Cutoff(now), quiet |-> Active = {},
                      spaced |-> \A t \in Tables : \A w \in rows[t] : w.at < Cutoff(now)]
                ELSE IF s \in Active THEN [job[s] EXCEPT !.quiet = FALSE] ELSE job[s]]
    /\ UNCHANGED <<watched, stored, rankOf, rows, complete, moved>>

InsertRows(r) ==
    /\ job[r].step = "insert"
    /\ Head(job[r].todo) # Variants
    /\ rows' = [rows EXCEPT ![Head(job[r].todo)] = Insert(Head(job[r].todo), Now(clock))]
    /\ job' = [job EXCEPT ![r].step = "delete"]
    /\ UNCHANGED <<watched, stored, rankOf, clock, runs, complete, moved>>

\* The variants are read and grouped in memory.
ReadVariants(r) ==
    /\ job[r].step = "insert"
    /\ Head(job[r].todo) = Variants
    /\ job' = [job EXCEPT ![r] = [@ EXCEPT !.pending = Compiled(Variants, stored),
           !.step = IF Compiled(Variants, stored) = {} THEN "delete" ELSE "row"]]
    /\ UNCHANGED <<watched, stored, rankOf, rows, clock, runs, complete, moved>>

\* One of the rows read, in any order (they are sorted by what a row holds),
\* stamped when it is inserted: the clock may have moved since the last one.
InsertRow(r) ==
    /\ job[r].step = "row"
    /\ \E c \in job[r].pending :
          /\ rows' = [rows EXCEPT ![Variants] = InsertVariant(c, Now(clock))]
          /\ job' = [job EXCEPT ![r] = [@ EXCEPT !.pending = job[r].pending \ {c},
                 !.step = IF job[r].pending = {c} THEN "delete" ELSE "row"]]
    /\ UNCHANGED <<watched, stored, rankOf, clock, runs, complete, moved>>

\* When the last table is done the refresh is; what the watched table's
\* readers have now is what they are owed from now on.
DeleteRows(r) ==
    LET t == Head(job[r].todo)
        rest == Tail(job[r].todo)
    IN  /\ job[r].step = "delete"
        /\ rows' = [rows EXCEPT ![t] = DeleteRowsBefore(t, job[r].cutoff)]
        /\ job' = [job EXCEPT ![r] = IF rest = <<>> THEN Idle
                                    ELSE [@ EXCEPT !.todo = rest, !.step = "insert"]]
        /\ IF rest = <<>> /\ job[r].quiet
           THEN /\ complete' = UNION {c.games : c \in Compiled(watched, stored)}
                /\ moved' = {}
           ELSE UNCHANGED <<complete, moved>>
        /\ UNCHANGED <<watched, stored, rankOf, clock, runs>>

\* Memory ran out in a row's insert or in the delete: the table is begun again.
Repeat(r) ==
    /\ job[r].step \in {"row", "delete"}
    /\ job' = [job EXCEPT ![r] = [@ EXCEPT !.step = "insert", !.pending = {}]]
    /\ UNCHANGED <<watched, stored, rankOf, rows, clock, runs, complete, moved>>

Abort(r) ==
    /\ job[r] # Idle
    /\ job' = [job EXCEPT ![r] = Idle]
    /\ UNCHANGED <<watched, stored, rankOf, rows, clock, runs, complete, moved>>

Next ==
    \/ \E g \in Games : Store(g) \/ Promote(g)
    \/ \E r \in Refreshers :
          \/ StartRefresh(r)
          \/ InsertRows(r)
          \/ ReadVariants(r)
          \/ InsertRow(r)
          \/ DeleteRows(r)
          \/ Repeat(r)
          \/ Abort(r)

Spec == Init /\ [][Next]_vars

-----------------------------------------------------------------------------
(* Properties *)

TypeOK ==
    /\ watched \in Tables
    /\ stored \subseteq Games
    /\ rankOf \in [Games -> {"gold", "plat"}]
    /\ \A t \in Tables : \A r \in rows[t] :
          r.at <= clock /\ r.games \subseteq stored /\ r.joined \subseteq r.games
    /\ clock \in 0..(MaxRuns * Pause)
    /\ runs \in 0..MaxRuns
    /\ complete \subseteq stored
    /\ moved \subseteq complete

\* The promise, with what a reader of the watched table counts.  The build
\* variants owe it for the games that have kept their key.
Abstract == INSTANCE ReadModel WITH Live <- FALSE, played <- stored,
    shown <- Counted(rows[watched]), trusted <- TRUE,
    moved <- IF watched = Variants THEN moved ELSE {}

\* Whatever fails and however refreshes overlap, nine of the derived tables
\* keep for their readers every game of the last complete refresh; the build
\* variants every game whose row is still the same, for between two rows a
\* game that moves is in neither (RefreshChampionGuideDerivedAnalytics,
\* champion_guide_derived.go:186; insertChampionBuildVariantAnalytics, :1132).
GuideStaysReadable == Abstract!Spec

\* "A failed refresh leaves the previous compiled snapshot readable"
\* (docs/product/performance-guardrails.md:11): when no refresh is under way,
\* the games of the last complete one are there, in every derived table.
FailedRefreshKeepsSnapshot == Active = {} => complete \subseteq Counted(rows[watched])

Times(t, g) == Cardinality({r \in Final(rows[t]) : g \in r.games /\ r.key # "ALL"})

\* A refresh nothing interfered with leaves no game under two rank buckets if
\* it starts later than the margin after the rows it replaces were stamped (the
\* row of a bucket the player left goes, although none replaces it), and has
\* found the team kills of every game of the guide summary, which divides by
\* them (RefreshChampionGuideDerivedAnalytics, champion_guide_derived.go:186).
QuietRefreshIsExact ==
    [][\A r \in Refreshers :
        (job[r] # Idle /\ job[r].quiet /\ DeleteRows(r) /\ Len(job[r].todo) = 1) =>
            /\ job[r].spaced => \A g \in Games : Times(watched, g)' <= 1
            /\ \A w \in Final(rows[Summary])' :
                  (w.at >= job[r].cutoff + Margin) => w.joined = w.games]_vars

=======
