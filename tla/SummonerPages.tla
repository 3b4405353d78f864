---------------------------- MODULE SummonerPages ----------------------------
(* The profile of one player: the six summary tables that a refresh        *)
(* rebuilds (src/core/internal/clickhouse/summoner_profile.go), his        *)
(* aliases, account and rank snapshots (accounts.go, ranks.go), and the    *)
(* page and leaderboard the API reads from them (summoner_handlers.go,     *)
(* account_handlers.go).                                                   *)
(*                                                                         *)
(* A refresh takes one second as its stamp, inserts the rows of every      *)
(* table one after the other, each from what is stored at that moment, and *)
(* only then deletes what is older, again table after table.  A statement  *)
(* that runs out of memory is repeated; any other error ends the refresh.  *)
(* The page is read part after part while all this goes on.                *)
(*                                                                         *)
(* The tables share nothing, so a behaviour looks at one of them, beside   *)
(* the identity, and at the part of the page that is read from it.         *)

EXTENDS Naturals, FiniteSets

CONSTANTS
    Matches,                \* matches of the player
    Archived,               \* those of a patch whose raw rows will be pruned
    ChampionOf,             \* the champion he played
    Placed,                 \* matches with a role
    Built,                  \* matches with a build signature
    Icons,                  \* profile icons an account snapshot may name
    MaxRuns                 \* bound: refreshes started

NoIcon == 0

VARIABLES
    watched,                \* the table looked at
    stored,                 \* matches with participant rows
    raw,                    \* those that have their raw row, with its start time
    pruned,                 \* the archived patch is
    named,                  \* riot_account_aliases knows the player
    account,                \* icon of the newest account snapshot
    rows,                   \* rows of each summary table
    identity,               \* rows of summoner_identity_summary
    clock,                  \* seconds
    runs,                   \* refreshes started
    job,                    \* the refresh under way
    complete,               \* matches the table had after the last complete refresh
    page                    \* the matches the page being read must not lose

vars == <<watched, stored, raw, pruned, named, account, rows, identity, clock, runs, job,
          complete, page>>

-----------------------------------------------------------------------------
(* The tables *)

Tables == {"summoner_profile_summary", "summoner_champion_summary",
           "summoner_champion_role_summary", "summoner_recent_match_summary",
           "summoner_build_summary"}

\* The matches a table has rows for, and the key it groups them by.  Start
\* time, 0 without a raw row, is part of the key of a recent match.
Kept(t, games) ==
    CASE t = "summoner_champion_role_summary" -> games \intersect Placed
      [] t = "summoner_build_summary"         -> games \intersect Built
      [] OTHER                                -> games

KeyOf(t, m) ==
    CASE t = "summoner_profile_summary"      -> <<"player">>
      [] t = "summoner_recent_match_summary" -> <<m, m \in raw>>
      [] OTHER                               -> <<ChampionOf[m]>>

Group(t, games, at) ==
    {[key |-> k, at |-> at, games |-> {m \in games : KeyOf(t, m) = k}] :
        k \in {KeyOf(t, m) : m \in games}}

\* A bug: the participants are joined with raw_matches, and not left-joined.
CompiledFromRaw(t, at) == Group(t, Kept(t, stored \intersect raw), at)
Compiled(t, at) == Group(t, Kept(t, stored), at)

Final(rs) == {r \in rs : \A s \in rs : s.key = r.key => s.at <= r.at}

Insert(rs, new) ==
    {r \in rs : ~ \E n \in new : n.key = r.key /\ n.at = r.at} \union new

KeepOldRows(rs, at) == rs
DeleteOldRows(rs, at) == {r \in rs : ~(r.at < at)}

\* The identity keeps the icon of the one before when the account snapshot
\* has none.
PreviousIcon == IF identity = {} THEN NoIcon ELSE (CHOOSE i \in identity :
                    \A k \in identity : k.at <= i.at).icon
IdentityIcon == IF account # NoIcon THEN account ELSE PreviousIcon

IdentityRows(at) == IF named THEN {[key |-> "player", at |-> at, icon |-> IdentityIcon]} ELSE {}

-----------------------------------------------------------------------------
(* What readers see *)

Summary == UNION {r.games : r \in Final(rows)}

\* A part without rows is computed from the participants instead.
Part(t) == IF Summary # {} THEN Summary ELSE Kept(t, stored)

SummonerProfileStats == Part("summoner_profile_summary")
SummonerTopChampions == Part("summoner_champion_summary")
SummonerTopChampionRoles == Part("summoner_champion_role_summary")
SummonerRecentMatches == Part("summoner_recent_match_summary")
SummonerBuilds == Part("summoner_build_summary")

ReadPart(t) ==
    CASE t = "summoner_profile_summary"       -> SummonerProfileStats
      [] t = "summoner_champion_summary"      -> SummonerTopChampions
      [] t = "summoner_champion_role_summary" -> SummonerTopChampionRoles
      [] t = "summoner_recent_match_summary"  -> SummonerRecentMatches
      [] t = "summoner_build_summary"         -> SummonerBuilds

\* The leaderboard prefers the identity's icon to the newest snapshot's.
SummonerRankLeaderboard == IF PreviousIcon # NoIcon THEN PreviousIcon ELSE account

-----------------------------------------------------------------------------

Idle == [step |-> "idle"]
NoPage == {}

Init ==
    /\ watched \in Tables
    /\ stored = {}
    /\ raw = {}
    /\ pruned = FALSE
    /\ named = FALSE
    /\ account = NoIcon
    /\ rows = {}
    /\ identity = {}
    /\ clock = 1
    /\ runs = 0
    /\ job = Idle
    /\ complete = {}
    /\ page = NoPage

\* The collector stores a match.
Store(m) ==
    /\ m \notin stored
    /\ m \in Archived => ~pruned
    /\ stored' = stored \union {m}
    /\ raw' = raw \union {m}
    /\ UNCHANGED <<watched, pruned, named, account, rows, identity, clock, runs, job, complete, page>>

\* The raw rows of an archived patch are pruned; the participants stay.
Prune ==
    /\ ~pruned
    /\ pruned' = TRUE
    /\ raw' = raw \ Archived
    /\ job' = IF job = Idle THEN Idle ELSE [job EXCEPT !.quiet = FALSE]
    /\ UNCHANGED <<watched, stored, named, account, rows, identity, clock, runs, complete, page>>

\* An account lookup names the player.  Incomplete names are not stored.
UpsertAccountAlias ==
    /\ ~named
    /\ named' = TRUE
    /\ UNCHANGED <<watched, stored, raw, pruned, account, rows, identity, clock, runs, job, complete, page>>

\* A fetched account snapshot replaces the one before, icon or not.
UpsertSummonerAccountSnapshot(icon) ==
    /\ icon # account
    /\ account' = icon
    /\ UNCHANGED <<watched, stored, raw, pruned, named, rows, identity, clock, runs, job, complete, page>>

RefreshSummonerProfileAnalytics ==
    /\ job = Idle
    /\ runs < MaxRuns
    /\ runs' = runs + 1
    /\ \E at \in {clock, clock + 1} :
          /\ clock' = at
          /\ job' = [step |-> "identity", at |-> at, seen |-> {}, quiet |-> TRUE,
                     later |-> \A r \in rows : r.at < at]
    /\ UNCHANGED <<watched, stored, raw, pruned, named, account, rows, identity, complete, page>>

RefreshSummonerIdentitySummary ==
    /\ job.step = "identity"
    /\ identity' = Insert(identity, IdentityRows(job.at))
    /\ job' = [job EXCEPT !.step = "insert"]
    /\ UNCHANGED <<watched, stored, raw, pruned, named, account, rows, clock, runs, complete, page>>

RefreshSummonerProfileTable ==
    /\ job.step = "insert"
    /\ rows' = Insert(rows, Compiled(watched, job.at))
    /\ job' = [job EXCEPT !.seen = stored, !.step = "identities"]
    /\ UNCHANGED <<watched, stored, raw, pruned, named, account, identity, clock, runs, complete, page>>

\* Nothing is deleted before everything is inserted.
DeleteOldIdentities ==
    /\ job.step = "identities"
    /\ identity' = DeleteOldRows(identity, job.at)
    /\ job' = [job EXCEPT !.step = "delete"]
    /\ UNCHANGED <<watched, stored, raw, pruned, named, account, rows, clock, runs, complete, page>>

\* What the refresh has compiled is owed from now on.
CleanupOldSummonerProfileSummaries ==
    /\ job.step = "delete"
    /\ rows' = DeleteOldRows(rows, job.at)
    /\ job' = Idle
    /\ complete' = job.seen
    /\ UNCHANGED <<watched, stored, raw, pruned, named, account, identity, clock, runs, page>>

\* A statement took effect and was reported as out of memory.
Repeat ==
    /\ job.step \in {"insert", "delete"}
    /\ rows' = IF job.step = "insert" THEN Insert(rows, Compiled(watched, job.at))
                                     ELSE DeleteOldRows(rows, job.at)
    /\ UNCHANGED <<watched, stored, raw, pruned, named, account, identity, clock, runs, job, complete, page>>

Abort ==
    /\ job # Idle
    /\ job' = Idle
    /\ UNCHANGED <<watched, stored, raw, pruned, named, account, rows, identity, clock, runs, complete, page>>

\* A page owes the player what the last complete refresh had compiled when it
\* was asked for.
SummonerProfile ==
    /\ page = NoPage
    /\ named
    /\ complete # {}
    /\ page' = complete
    /\ UNCHANGED <<watched, stored, raw, pruned, named, account, rows, identity, clock, runs, job, complete>>

\* Its part of the watched table is read some time later.
ReadNextPart ==
    /\ page # NoPage
    /\ page' = NoPage
    /\ UNCHANGED <<watched, stored, raw, pruned, named, account, rows, identity, clock, runs, job, complete>>

Next ==
    \/ \E m \in Matches : Store(m)
    \/ Prune
    \/ UpsertAccountAlias
    \/ \E icon \in Icons \union {NoIcon} : UpsertSummonerAccountSnapshot(icon)
    \/ RefreshSummonerProfileAnalytics
    \/ RefreshSummonerIdentitySummary
    \/ RefreshSummonerProfileTable
    \/ DeleteOldIdentities
    \/ CleanupOldSummonerProfileSummaries
    \/ Repeat
    \/ Abort
    \/ SummonerProfile
    \/ ReadNextPart

Spec == Init /\ [][Next]_vars

-----------------------------------------------------------------------------
(* Properties *)

TypeOK ==
    /\ watched \in Tables
    /\ raw \subseteq stored /\ stored \subseteq Matches
    /\ pruned \in BOOLEAN /\ named \in BOOLEAN
    /\ account \in Icons \union {NoIcon}
    /\ \A r \in rows : r.at <= clock /\ r.games \subseteq Kept(watched, stored)
    /\ \A i \in identity : i.at <= clock /\ i.icon \in Icons \union {NoIcon}
    /\ runs \in 0..MaxRuns
    /\ complete \subseteq stored /\ page \subseteq stored

\* Nothing goes from what readers are shown: no part of a page lacks a match
\* the table had when the page was asked for, although refreshes insert, fail
\* and delete while it is read and the raw rows go; and only a new account
\* snapshot takes the icon from the leaderboard, before a refresh has put it
\* into the identity (summonerProfile, summoner_handlers.go:17;
\* refreshSummonerIdentitySummary, summoner_profile.go:464).
ReadersLoseNothing ==
    /\ [][(page # NoPage /\ ReadNextPart) => Kept(watched, page) \subseteq ReadPart(watched)]_vars
    /\ [][(SummonerRankLeaderboard # NoIcon /\ SummonerRankLeaderboard' = NoIcon) =>
              (account' # account /\ PreviousIcon = NoIcon)]_vars

\* A complete refresh leaves one recent row per match, although the pruning of
\* the raw row changes the key it is stored under
\* (summoner_recent_match_summary is ordered by start time and match).
RecentMatchOnce ==
    [][(/\ watched = "summoner_recent_match_summary"
        /\ job # Idle /\ job.later /\ job.quiet /\ CleanupOldSummonerProfileSummaries) =>
          \A m \in Matches : Cardinality({r \in Final(rows') : m \in r.games}) <= 1]_vars

=============================================================================
