------------------------------ MODULE Collector ------------------------------
(***************************************************************************)
(* One platform of the collector: the crawl frontier, the match lane that  *)
(* visits its due players, and the ingestion of a match into ClickHouse.   *)
(*                                                                         *)
(* Ingestion is eleven inserts in a row, raw_matches first, and no         *)
(* transaction; a match whose raw_matches row exists is never fetched      *)
(* again.  The eleven tables are kept as four groups: raw_matches; the     *)
(* three tables before participant_matchups; participant_matchups, whose   *)
(* inserts build_analytics_mv adds up; and the six tables after it.  A     *)
(* group is in rows when all its tables hold the match.                    *)
(*                                                                         *)
(* The frontier is a ReplacingMergeTree, so writing a row replaces it.     *)
(* Time is in agenda: the due players in the order of their next_check_at, *)
(* which decides between rows of the same priority.  The API process       *)
(* writes the frontier too (queueLiveBackfills).                           *)
(***************************************************************************)
EXTENDS Integers, Sequences, FiniteSets, SequencesExt

CONSTANTS
  Players,     \* the puuids of the platform
  Matches,     \* match identifiers
  Recent,      \* MatchIDsByPUUID: a player's latest matches, newest first
  Participants,\* the players of a match
  Ranked,      \* matches ShouldIngest accepts: ranked solo, Summoner's Rift
  Retained,    \* matches the patch policy accepts
  Seeds,       \* challenger players, seeded when they have no row
  EnvSeeds,    \* COLLECTOR_SEED_PUUIDS, forced at every start
  BatchSize,   \* COLLECTOR_FRONTIER_BATCH_SIZE
  LivePriority,\* LIVE_BACKFILL_PRIORITY
  MaxFailures, \* bound: failed inserts
  MaxCrashes,  \* bound: crashes of the worker
  MaxExpiries, \* bound: times the Riot key expires
  MaxForced    \* bound: forced seeds of the API process

ASSUME CollectorAssumption ==
  /\ IsFiniteSet(Players)
  /\ Recent \in [Players -> Seq(Matches)]
  /\ Participants \in [Matches -> SUBSET Players]
  /\ Ranked \cup Retained \subseteq Matches
  /\ Seeds \cup EnvSeeds \subseteq Players
  /\ {BatchSize, LivePriority} \subseteq Nat \ {0}
  /\ {MaxFailures, MaxCrashes, MaxExpiries, MaxForced} \subseteq Nat

VARIABLES
  status,   \* collector_frontier.status of each player, "absent" for no row
  priority, \* collector_frontier.priority of each player
  agenda,   \* the due rows, earliest next_check_at first
  rows,     \* per match, the table groups that hold it
  games,    \* per match, how often build_analytics_mv counted it
  keyOK,    \* the Riot key is valid
  pc,       \* the worker's place in the pass
  batch,    \* what FetchDueFrontier returned and the pass has not visited
  todo,     \* match IDs of the visited player still to look at
  step,     \* the next group InsertNormalized writes
  toSeed,   \* participants InsertFrontierParticipants still has to look at
  errs,     \* the visit's result has errors
  stop,     \* why the visit stopped early
  cut,      \* history: matches whose ingestion a failure or crash cut short
  owed,     \* history: players forced, with no answered visit since
  since,    \* history: per owed player, who has been visited since
  budget    \* failures, crashes, expiries and forced seeds still allowed

worker == <<pc, batch, todo, step, toSeed, errs, stop>>
frontier == <<status, priority, agenda, owed, since>>
store == <<rows, games, cut>>
vars == <<worker, frontier, store, keyOK, budget>>

Groups == <<"raw_matches", "early", "participant_matchups", "late">>
Statuses == {"absent", "pending", "active", "error", "blocked"}
Stops == {"no", "auth", "limited", "exhausted", "boundary"}

(* The priorities of the other sources: a discovered participant, a        *)
(* challenger, a player of the environment.                                *)
Discovered == 0
Challenger == 90
EnvSeed == 100
Priorities == {Discovered, Challenger, LivePriority, EnvSeed}

(* greatest(priority, ?): a forced seed never lowers the priority.         *)
Greatest(a, b) == IF a < b THEN b ELSE a
-----------------------------------------------------------------------------
(* FetchDueFrontier: due rows that are pending, active or in error, by     *)
(* priority and then by next_check_at.                                     *)
FetchesUnchecked == {"pending", "active"}

Fetchable == {"pending", "active", "error"}

Place(p) == CHOOSE i \in DOMAIN agenda : agenda[i] = p

(* The sequences of the players of S in which the earlier one comes first. *)
Sorted(S, Earlier(_, _)) ==
  {s \in SetToSeqs(S) : \A i, j \in DOMAIN s : i < j => Earlier(s[i], s[j])}

DueRows == {p \in Range(agenda) : status[p] \in Fetchable}

FetchedBefore(p, q) ==
  \/ priority[p] > priority[q]
  \/ priority[p] = priority[q] /\ Place(p) < Place(q)

DueFrontier ==
  {SubSeq(due, 1, IF Len(due) < BatchSize THEN Len(due) ELSE BatchSize) :
      due \in Sorted(DueRows, FetchedBefore)}

Without(seq, p) ==
  IF p \in Range(seq) THEN RemoveAt(seq, CHOOSE i \in DOMAIN seq : seq[i] = p)
  ELSE seq

(* frontierStatus.                                                         *)
FrontierStatus ==
  IF stop = "auth" THEN "blocked" ELSE IF errs THEN "error" ELSE "active"

(* The row's next_check_at becomes the latest of those that have passed.   *)
QueuedAgain(queue, p) == Append(queue, p)

Queued(queue, p) == Append(Without(queue, p), p)

Visited == Head(batch)
Match == Head(todo)
-----------------------------------------------------------------------------
Init ==
  /\ status = [p \in Players |-> IF p \in Seeds \cup EnvSeeds THEN "pending" ELSE "absent"]
  /\ priority = [p \in Players |->
       IF p \in EnvSeeds THEN EnvSeed
       ELSE IF p \in Seeds THEN Challenger ELSE Discovered]
  /\ agenda \in SetToSeqs(Seeds \cup EnvSeeds)
  /\ rows = [m \in Matches |-> {}]
  /\ games = [m \in Matches |-> 0]
  /\ keyOK = TRUE
  /\ pc = "idle"
  /\ batch = <<>> /\ todo = <<>> /\ step = 1 /\ toSeed = {}
  /\ errs = FALSE /\ stop = "no"
  /\ cut = {}
  /\ owed = {}
  /\ since = [p \in Players |-> {}]
  /\ budget = [failures |-> MaxFailures, crashes |-> MaxCrashes,
               expiries |-> MaxExpiries, forced |-> MaxForced]

Spend(what) ==
  /\ budget[what] > 0
  /\ budget' = [budget EXCEPT ![what] = @ - 1]

(* The pass starts, if the platform has a due row and a request to spend.  *)
StartPass ==
  /\ pc = "idle"
  /\ DueRows # {}
  /\ batch' \in DueFrontier
  /\ pc' = "ids"
  /\ errs' = FALSE /\ stop' = "no"
  /\ UNCHANGED <<todo, step, toSeed, frontier, store, keyOK, budget>>

(* Riot answers 429, or the key is dead: the visit ends here.              *)
RiotStops ==
  /\ stop' = IF keyOK THEN "limited" ELSE "auth"
  /\ errs' = TRUE
  /\ pc' = "mark"
  /\ UNCHANGED <<todo, step, toSeed>>

(* spendRequest refuses the next call of the visit.                        *)
BudgetStops ==
  /\ stop' = "exhausted"
  /\ pc' = "mark"
  /\ UNCHANGED <<todo, step, toSeed, errs>>

(* Any other error of the call is noted: also that of a call refused for   *)
(* the authentication marker, which is not an authentication failure.      *)
CallFails(next) ==
  /\ errs' = TRUE
  /\ next
  /\ UNCHANGED <<step, toSeed, stop>>

(* MatchIDsByPUUID, for which a visit always has a request.  Its answer is *)
(* what a forced seed of the player waits for.                             *)
IDsAnswered ==
  /\ keyOK
  /\ todo' = Recent[Visited]
  /\ pc' = "match"
  /\ owed' = owed \ {Visited}
  /\ UNCHANGED <<errs, stop, step, toSeed>>

FetchIDs ==
  /\ pc = "ids"
  /\ \/ IDsAnswered
     \/ RiotStops /\ UNCHANGED owed
     \/ CallFails(pc' = "mark" /\ todo' = <<>>) /\ UNCHANGED owed
  /\ since' = [p \in Players |-> IF p \in owed' THEN since[p] \cup {Visited} ELSE {}]
  /\ UNCHANGED <<batch, status, priority, agenda, store, keyOK, budget>>

NextMatch ==
  /\ todo' = Tail(todo)
  /\ pc' = "match"

(* MatchExists: a raw_matches row means the match is in.                   *)
ChecksLastTable(m) == "late" \in rows[m]

AlreadyIngested(m) == "raw_matches" \in rows[m]

(* The next match ID: known already, or fetched with MatchByID and put to  *)
(* ShouldIngest, which passes over other queues, and to the patch policy,  *)
(* which ends the visit at the first older match.  MatchExists can fail.   *)
LookAtMatch ==
  /\ pc = "match"
  /\ todo # <<>>
  /\ \/ NextMatch /\ errs' = TRUE /\ UNCHANGED <<stop, step, toSeed>>
     \/ /\ AlreadyIngested(Match)
        /\ NextMatch
        /\ UNCHANGED <<errs, stop, step, toSeed>>
     \/ /\ ~AlreadyIngested(Match)
        /\ \/ RiotStops
           \/ BudgetStops
           \/ CallFails(NextMatch)
           \/ /\ keyOK
              /\ CASE Match \notin Ranked -> NextMatch /\ UNCHANGED stop
                   [] Match \in Ranked \cap Retained ->
                        pc' = "timeline" /\ UNCHANGED <<todo, stop>>
                   [] OTHER -> pc' = "mark" /\ stop' = "boundary" /\ UNCHANGED todo
              /\ UNCHANGED <<errs, step, toSeed>>
  /\ UNCHANGED <<batch, frontier, store, keyOK, budget>>

VisitEnds ==
  /\ pc = "match"
  /\ todo = <<>>
  /\ pc' = "mark"
  /\ UNCHANGED <<batch, todo, step, toSeed, errs, stop, frontier, store, keyOK,
                 budget>>

(* TimelineByMatchID and NormalizeMatch.                                   *)
FetchTimeline ==
  /\ pc = "timeline"
  /\ \/ RiotStops
     \/ BudgetStops
     \/ CallFails(NextMatch)
     \/ /\ keyOK
        /\ pc' = "insert"
        /\ step' = 1
        /\ UNCHANGED <<todo, errs, stop, toSeed>>
  /\ UNCHANGED <<batch, frontier, store, keyOK, budget>>

(* The inserts of one group; build_analytics_mv adds every insert into     *)
(* participant_matchups to its sums.                                       *)
WriteGroup ==
  /\ rows' = [rows EXCEPT ![Match] = @ \cup {Groups[step]}]
  /\ games' = IF Groups[step] = "participant_matchups"
              THEN [games EXCEPT ![Match] = @ + 1] ELSE games

(* InsertNormalized, one group at a time.                                  *)
Insert ==
  /\ pc = "insert"
  /\ WriteGroup
  /\ IF step < Len(Groups)
     THEN step' = step + 1 /\ UNCHANGED <<pc, toSeed>>
     ELSE pc' = "seed" /\ toSeed' = Participants[Match] /\ UNCHANGED step
  /\ UNCHANGED <<batch, todo, errs, stop, frontier, cut, keyOK, budget>>

(* An insert returns an error, with the row in the table or not; the match *)
(* is given up.                                                            *)
InsertFails ==
  /\ pc = "insert"
  /\ Spend("failures")
  /\ WriteGroup \/ UNCHANGED <<rows, games>>
  /\ errs' = TRUE
  /\ cut' = cut \cup {Match}
  /\ NextMatch
  /\ UNCHANGED <<batch, step, toSeed, stop, frontier, keyOK>>

(* InsertFrontierParticipants: a player without a row gets one ...         *)
Candidate == CHOOSE p \in toSeed : TRUE

StopsAtKnown ==
  IF status[Candidate] = "absent"
  THEN pc' = "seedRow" /\ UNCHANGED toSeed
  ELSE pc' = "seed" /\ toSeed' = {}

LookForRow ==
  IF status[Candidate] = "absent"
  THEN pc' = "seedRow" /\ UNCHANGED toSeed
  ELSE pc' = "seed" /\ toSeed' = toSeed \ {Candidate}

SeedLooks ==
  /\ pc = "seed"
  /\ toSeed # {}
  /\ LookForRow
  /\ UNCHANGED <<batch, todo, step, errs, stop, frontier, store, keyOK, budget>>

(* ... written after the look, with the low priority of a discovery and a  *)
(* later next_check_at, over whatever the API wrote in between.            *)
SeedWrites ==
  /\ pc = "seedRow"
  /\ status' = [status EXCEPT ![Candidate] = "pending"]
  /\ priority' = [priority EXCEPT ![Candidate] = Discovered]
  /\ agenda' = Without(agenda, Candidate)
  /\ toSeed' = toSeed \ {Candidate}
  /\ pc' = "seed"
  /\ UNCHANGED <<batch, todo, step, errs, stop, owed, since, store, keyOK, budget>>

SeedFails ==
  /\ pc \in {"seed", "seedRow"}
  /\ toSeed # {}
  /\ Spend("failures")
  /\ errs' = TRUE
  /\ cut' = cut \cup {Match}
  /\ toSeed' = {}
  /\ pc' = "seed"
  /\ UNCHANGED <<batch, todo, step, stop, frontier, rows, games, keyOK>>

SeedsDone ==
  /\ pc = "seed"
  /\ toSeed = {}
  /\ NextMatch
  /\ UNCHANGED <<batch, step, toSeed, errs, stop, frontier, store, keyOK, budget>>

(* After a visit: the worker stops for a dead key, the pass stops for a    *)
(* 429 or a spent budget, and otherwise it visits the next entry, unless   *)
(* the last request was just used.                                         *)
AfterVisit ==
  /\ \/ stop = "auth" /\ pc' = "stopped"
     \/ stop # "auth" /\ pc' = "idle"
     \/ stop \in {"no", "boundary"} /\ Len(batch) > 1 /\ pc' = "ids"
  /\ batch' = IF pc' = "ids" THEN Tail(batch) ELSE <<>>
  /\ todo' = <<>> /\ step' = 1 /\ toSeed' = {}
  /\ errs' = FALSE /\ stop' = "no"

(* MarkFrontierChecked: the row as it is now, with the new status and a    *)
(* next_check_at in the future.                                            *)
Mark ==
  /\ pc = "mark"
  /\ status' = [status EXCEPT ![Visited] = FrontierStatus]
  /\ agenda' = Without(agenda, Visited)
  /\ AfterVisit
  /\ UNCHANGED <<priority, owed, since, store, keyOK, budget>>

(* Its failure is only logged.                                             *)
MarkFails ==
  /\ pc = "mark"
  /\ Spend("failures")
  /\ AfterVisit
  /\ UNCHANGED <<frontier, store, keyOK>>
-----------------------------------------------------------------------------
(* seedFrontier when the worker starts: the environment's seeds are forced *)
(* again, and due after the rows that are due; the others have a row       *)
(* already.                                                                *)
SeededBefore(p, q) ==
  q \in EnvSeeds \/ (p \notin EnvSeeds /\ Place(p) < Place(q))

SeedFrontier ==
  /\ status' = [p \in Players |-> IF p \in EnvSeeds THEN "pending" ELSE status[p]]
  /\ priority' = [p \in Players |->
       IF p \in EnvSeeds THEN Greatest(priority[p], EnvSeed) ELSE priority[p]]
  /\ agenda' \in Sorted(Range(agenda) \cup EnvSeeds, SeededBefore)
  /\ UNCHANGED <<owed, since>>

(* The worker dies in the middle of anything and is started again.         *)
Crash ==
  /\ pc # "stopped"
  /\ Spend("crashes")
  /\ pc' = "idle"
  /\ batch' = <<>> /\ todo' = <<>> /\ step' = 1 /\ toSeed' = {}
  /\ errs' = FALSE /\ stop' = "no"
  /\ cut' = IF pc \in {"insert", "seed", "seedRow"} /\ todo # <<>>
            THEN cut \cup {Match} ELSE cut
  /\ SeedFrontier
  /\ UNCHANGED <<rows, games, keyOK>>

KeyExpires ==
  /\ keyOK
  /\ Spend("expiries")
  /\ keyOK' = FALSE
  /\ UNCHANGED <<worker, frontier, store>>

(* The operator rotates the key, and starts a worker that stopped for it.  *)
RotateKey ==
  /\ ~keyOK
  /\ keyOK' = TRUE
  /\ UNCHANGED <<worker, frontier, store, budget>>

StartWorker ==
  /\ pc = "stopped"
  /\ keyOK
  /\ pc' = "idle"
  /\ SeedFrontier
  /\ UNCHANGED <<batch, todo, step, toSeed, errs, stop, store, keyOK, budget>>

(* A row's next_check_at passes.                                           *)
BecomesDue(p) ==
  /\ status[p] # "absent"
  /\ p \notin Range(agenda)
  /\ agenda' = Append(agenda, p)
  /\ UNCHANGED <<worker, status, priority, owed, since, store, keyOK, budget>>

(* A live game shows a player with too few stored games: the API forces a  *)
(* seed (InsertFrontierSeed with Force).                                   *)
ForceSeed(p) ==
  /\ Spend("forced")
  /\ status' = [status EXCEPT ![p] = "pending"]
  /\ priority' = [priority EXCEPT ![p] = Greatest(@, LivePriority)]
  /\ agenda' = Queued(agenda, p)
  /\ owed' = owed \cup {p}
  /\ since' = [since EXCEPT ![p] = {}]
  /\ UNCHANGED <<worker, store, keyOK>>

WorkerStep ==
  \/ StartPass \/ FetchIDs \/ LookAtMatch \/ VisitEnds \/ FetchTimeline
  \/ Insert \/ SeedLooks \/ SeedWrites \/ SeedsDone \/ Mark

Next ==
  \/ WorkerStep
  \/ InsertFails \/ SeedFails \/ MarkFails
  \/ Crash \/ KeyExpires \/ RotateKey \/ StartWorker
  \/ \E p \in Players : BecomesDue(p) \/ ForceSeed(p)

(* The worker's loop keeps running, clocks advance, an expired key is      *)
(* replaced and the worker started again sooner or later, and Riot answers *)
(* for a player it is asked for again and again.                           *)
Fairness ==
  /\ WF_vars(WorkerStep)
  /\ \A p \in Players : SF_vars(FetchIDs /\ Visited = p /\ IDsAnswered)
  /\ WF_vars(RotateKey)
  /\ WF_vars(StartWorker)
  /\ \A p \in Players : WF_vars(BecomesDue(p))

Spec == Init /\ [][Next]_vars /\ Fairness
-----------------------------------------------------------------------------
(* Every variable has the shape of the code's data; no player is due twice *)
(* and only players with a row are due.                                    *)
TypeOK ==
  /\ status \in [Players -> Statuses]
  /\ priority \in [Players -> Priorities]
  /\ agenda \in Seq(Players) /\ IsInjective(agenda)
  /\ \A p \in Range(agenda) : status[p] # "absent"
  /\ rows \in [Matches -> SUBSET Range(Groups)]
  /\ games \in [Matches -> Nat]
  /\ keyOK \in BOOLEAN
  /\ pc \in {"idle", "ids", "match", "timeline", "insert", "seed", "seedRow",
             "mark", "stopped"}
  /\ batch \in Seq(Players) /\ todo \in Seq(Matches)
  /\ step \in DOMAIN Groups
  /\ toSeed \subseteq Players
  /\ errs \in BOOLEAN /\ stop \in Stops
  /\ cut \subseteq Matches
  /\ owed \subseteq Players
  /\ since \in [Players -> SUBSET Players]
  /\ budget \in [{"failures", "crashes", "expiries", "forced"} -> Nat]

(* However often ingestion fails or the worker crashes, the win and game   *)
(* sums count a match at most once (raw_matches is written first and       *)
(* MatchExists reads it).                                                  *)
CountedOnce == \A m \in Matches : games[m] <= 1

Ingesting(m) == pc \in {"insert", "seed", "seedRow"} /\ Match = m

(* A match that was taken in without an interruption is complete, and all  *)
(* its participants are on the frontier (InsertNormalized followed by      *)
(* InsertFrontierParticipants).                                            *)
TakenInWhole ==
  \A m \in Matches :
    rows[m] # {} /\ ~Ingesting(m) /\ m \notin cut =>
      /\ rows[m] = Range(Groups)
      /\ games[m] = 1
      /\ \A p \in Participants[m] : status[p] # "absent"

(* What a forced seed of p can starve behind: a player of a higher         *)
(* priority, who has had a visit in the meantime, is due again.            *)
Overtaken(p) == \E q \in since[p] \cap DueRows : priority[q] > priority[p]

(* A player the API forced onto the frontier is visited in the end, failed *)
(* visits repeated until Riot answers, unless one of three races loses the *)
(* seed: a visit under way that fails to authenticate writes `blocked`     *)
(* over it, a discovery that looked before it writes its own row over it,  *)
(* with a low priority, or the environment's seeds, whose priority of 100  *)
(* is above the 95 of a live backfill, come back before the pass has       *)
(* reached it (queueLiveBackfills against the pass).                       *)
ForcedSeedVisited ==
  \A p \in Players :
    p \in owed ~> \/ p \notin owed
                  \/ status[p] = "blocked"
                  \/ priority[p] < LivePriority
                  \/ Overtaken(p)

(* `blocked`: auth failure; do not retry until credentials are fixed       *)
(* (docs/data-dictionary.md:20): it is retried when they are.              *)
BlockedUntilFixed ==
  \A p \in Players :
    status[p] = "blocked" /\ keyOK ~> status[p] # "blocked" \/ ~keyOK
=============================================================================
