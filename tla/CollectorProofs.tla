---------------------------- MODULE CollectorProofs ----------------------------
(***************************************************************************)
(* Theorems about the ingestion of Collector for any players, matches and  *)
(* seeds, any batch size, and any number of failed inserts, crashes,       *)
(* expired keys and forced seeds.                                          *)
(***************************************************************************)
EXTENDS Collector, FiniteSetTheorems, SequenceTheorems, TLAPS

Matchups == "participant_matchups"

(* Tables of which the proofs need the shape.                              *)
Shape ==
  /\ rows \in [Matches -> SUBSET Range(Groups)]
  /\ games \in [Matches -> Nat]
  /\ status \in [Players -> Statuses]

(* The existence check sees every match that has rows.                     *)
RawFirst == \A m \in Matches : rows[m] # {} => "raw_matches" \in rows[m]

(* The sums count what participant_matchups holds.                         *)
SumsFollowRows ==
  \A m \in Matches : games[m] = IF Matchups \in rows[m] THEN 1 ELSE 0

(* A match being fetched has no rows; one being inserted has those of the  *)
(* earlier groups; one whose participants are seeded has all.              *)
FetchedIsNew ==
  pc = "timeline" => todo # <<>> /\ (Match \in Matches => rows[Match] = {})

InsertedSoFar ==
  pc = "insert" =>
    /\ todo # <<>> /\ step \in 1..4
    /\ Match \in Matches => \A i \in 1..4 : Groups[i] \in rows[Match] <=> i < step

SeededSoFar ==
  pc \in {"seed", "seedRow"} =>
    /\ todo # <<>>
    /\ Match \in Matches =>
         /\ rows[Match] = Range(Groups)
         /\ \A p \in Participants[Match] :
              p \in toSeed \/ status[p] # "absent" \/ Match \in cut
    /\ pc = "seedRow" => toSeed # {}

(* A match left behind uncut is complete.                                  *)
LeftWhole ==
  \A m \in Matches :
    rows[m] # {} /\ ~Ingesting(m) /\ m \notin cut =>
      rows[m] = Range(Groups) /\ \A p \in Participants[m] : status[p] # "absent"

IInv ==
  /\ Shape /\ RawFirst /\ SumsFollowRows
  /\ FetchedIsNew /\ InsertedSoFar /\ SeededSoFar /\ LeftWhole
-----------------------------------------------------------------------------
LEMMA GroupNames ==
  /\ Groups[1] = "raw_matches" /\ Groups[2] = "early"
  /\ Groups[3] = Matchups /\ Groups[4] = "late"
  /\ Len(Groups) = 4
  /\ Range(Groups) = {"raw_matches", "early", Matchups, "late"}
<1>1. /\ Groups[1] = "raw_matches" /\ Groups[2] = "early"
      /\ Groups[3] = Matchups /\ Groups[4] = "late"
      /\ Len(Groups) = 4 /\ DOMAIN Groups = 1..4
  BY SMT DEF Groups, Matchups
<1>2. 1..4 = {1, 2, 3, 4}
  BY SMT
<1>3. QED
  BY <1>1, <1>2 DEF Range

LEMMA PlayersOf ==
  ASSUME NEW m \in Matches
  PROVE  Participants[m] \subseteq Players
BY CollectorAssumption

(* The place in the pass matters only while a match is worked on.          *)
LEMMA Elsewhere ==
  ASSUME IInv, UNCHANGED <<rows, games>>,
         status' \in [Players -> Statuses],
         \A p \in Players : status[p] # "absent" => status'[p] # "absent",
         pc' \notin {"timeline", "insert", "seed", "seedRow"},
         \A m \in Matches : m \in cut \/ (Ingesting(m) /\ pc # "seed") => m \in cut',
         \A m \in Matches : Ingesting(m) /\ pc = "seed" => toSeed = {} \/ m \in cut'
  PROVE  IInv'
<1>1. Shape' /\ RawFirst' /\ SumsFollowRows'
  BY DEF IInv, Shape, RawFirst, SumsFollowRows
<1>2. FetchedIsNew' /\ InsertedSoFar' /\ SeededSoFar'
  BY DEF FetchedIsNew, InsertedSoFar, SeededSoFar
<1>3. LeftWhole'
  <2> SUFFICES ASSUME NEW m \in Matches, rows[m] # {}, m \notin cut'
               PROVE  rows[m] = Range(Groups) /\ \A p \in Participants[m] : status'[p] # "absent"
    BY DEF LeftWhole
  <2>1. rows[m] = Range(Groups) /\ \A p \in Participants[m] : status[p] # "absent"
    <3>1. CASE ~Ingesting(m)
      BY <3>1 DEF IInv, LeftWhole
    <3>2. CASE Ingesting(m)
      BY <3>2 DEF IInv, SeededSoFar, Ingesting
    <3>3. QED
      BY <3>1, <3>2
  <2>2. QED
    BY <2>1, PlayersOf
<1>4. QED
  BY <1>1, <1>2, <1>3 DEF IInv

(* So do players who get a row meanwhile.                                  *)
LEMMA Beside ==
  ASSUME IInv, UNCHANGED <<rows, games, cut, pc, todo, step, toSeed>>,
         status' \in [Players -> Statuses],
         \A p \in Players : status[p] # "absent" => status'[p] # "absent"
  PROVE  IInv'
<1>1. Shape' /\ RawFirst' /\ SumsFollowRows' /\ FetchedIsNew' /\ InsertedSoFar'
  BY DEF IInv, Shape, RawFirst, SumsFollowRows, FetchedIsNew, InsertedSoFar, Match
<1>2. SeededSoFar'
  BY PlayersOf DEF IInv, SeededSoFar, Match
<1>3. LeftWhole'
  BY PlayersOf DEF IInv, LeftWhole, Ingesting, Match
<1>4. QED
  BY <1>1, <1>2, <1>3 DEF IInv

(* The match goes on to its timeline, and from there to the inserts.       *)
LEMMA FetchKeeps ==
  ASSUME IInv, UNCHANGED <<rows, games, cut, status, todo>>, todo # <<>>,
         Match \in Matches => rows[Match] = {},
         pc \in {"match", "timeline"},
         pc' = "timeline" \/ (pc' = "insert" /\ step' = 1)
  PROVE  IInv'
<1>1. Shape' /\ RawFirst' /\ SumsFollowRows'
  BY DEF IInv, Shape, RawFirst, SumsFollowRows
<1>2. FetchedIsNew' /\ SeededSoFar'
  BY DEF FetchedIsNew, SeededSoFar, Match
<1>3. InsertedSoFar'
  <2>1. \A i \in 1..4 : ~(i < 1)
    BY SMT
  <2>2. 1 \in 1..4
    BY SMT
  <2>3. QED
    BY <2>1, <2>2 DEF InsertedSoFar, Match
<1>4. LeftWhole'
  BY DEF IInv, LeftWhole, Ingesting
<1>5. QED
  BY <1>1, <1>2, <1>3, <1>4 DEF IInv

(* One more group; the first is raw_matches.                               *)
LEMMA WritesInOrder ==
  ASSUME IInv, pc = "insert", WriteGroup
  PROVE  /\ Shape /\ step \in 1..4 /\ UNCHANGED status => Shape'
         /\ RawFirst' /\ SumsFollowRows'
         /\ \A m \in Matches : m # Match => rows'[m] = rows[m]
         /\ Match \in Matches => \A i \in 1..4 : Groups[i] \in rows'[Match] <=> i < step + 1
<1>1. /\ step \in 1..4
      /\ Match \in Matches => \A i \in 1..4 : Groups[i] \in rows[Match] <=> i < step
  BY DEF IInv, InsertedSoFar
<1>2. Groups[step] \in Range(Groups)
  <2>1. step = 1 \/ step = 2 \/ step = 3 \/ step = 4
    BY <1>1, SMT
  <2>2. QED
    BY <2>1, GroupNames
<1>3. /\ \A m \in Matches : m # Match => rows'[m] = rows[m] /\ games'[m] = games[m]
      /\ Match \in Matches => rows'[Match] = rows[Match] \cup {Groups[step]}
      /\ Match \in Matches => games'[Match] =
            IF Groups[step] = Matchups THEN games[Match] + 1 ELSE games[Match]
  BY DEF IInv, Shape, WriteGroup, Matchups
<1>4. rows' \in [Matches -> SUBSET Range(Groups)]
  BY <1>2 DEF IInv, Shape, WriteGroup
<1>5. games' \in [Matches -> Nat]
  <2>1. games' = games \/ games' = [games EXCEPT ![Match] = @ + 1]
    BY DEF WriteGroup
  <2>2. games \in [Matches -> Nat] /\ \A n \in Nat : n + 1 \in Nat
    BY SMT DEF IInv, Shape
  <2>3. QED
    BY <2>1, <2>2, SMT
<1>6. RawFirst'
  <2>1. ASSUME Match \in Matches
        PROVE  "raw_matches" \in rows'[Match]
    <3>1. step = 1 \/ 1 < step
      BY <1>1, SMT
    <3>2. CASE step = 1
      BY <1>3, <2>1, <3>2, GroupNames
    <3>3. CASE 1 < step
      <4>1. 1 \in 1..4
        BY SMT
      <4>2. Groups[1] \in rows[Match]
        BY <1>1, <2>1, <3>3, <4>1
      <4>3. QED
        BY <1>3, <2>1, <4>2, GroupNames
    <3>4. QED
      BY <3>1, <3>2, <3>3
  <2>2. QED
    BY <1>3, <2>1 DEF IInv, RawFirst
<1>7. SumsFollowRows'
  <2>1. ASSUME Match \in Matches
        PROVE  games'[Match] = IF Matchups \in rows'[Match] THEN 1 ELSE 0
    <3>1. Groups[3] = Matchups /\ 3 \in 1..4
      BY GroupNames, SMT
    <3>2. games[Match] = IF Matchups \in rows[Match] THEN 1 ELSE 0
      BY <2>1 DEF IInv, SumsFollowRows
    <3>3. CASE step = 3
      <4>1. Matchups \notin rows[Match]
        BY <1>1, <2>1, <3>1, <3>3, SMT
      <4>2. games'[Match] = 1 /\ Matchups \in rows'[Match]
        BY <1>3, <2>1, <3>1, <3>2, <3>3, <4>1, SMT
      <4>3. QED
        BY <4>2
    <3>4. CASE step # 3
      <4>1. step = 1 \/ step = 2 \/ step = 4
        BY <1>1, <3>4, SMT
      <4>2. Groups[step] # Matchups
        BY <4>1, GroupNames DEF Matchups
      <4>3. QED
        BY <1>3, <2>1, <3>2, <4>2
    <3>5. QED
      BY <3>3, <3>4
  <2>2. QED
    BY <1>3, <2>1 DEF IInv, SumsFollowRows
<1>8. ASSUME Match \in Matches, NEW i \in 1..4
      PROVE  Groups[i] \in rows'[Match] <=> i < step + 1
  <2>1. Groups[i] = Groups[step] <=> i = step
    <3>1. i = 1 \/ i = 2 \/ i = 3 \/ i = 4
      BY SMT
    <3>2. step = 1 \/ step = 2 \/ step = 3 \/ step = 4
      BY <1>1, SMT
    <3>3. QED
      BY <3>1, <3>2, GroupNames DEF Matchups
  <2>2. i < step + 1 <=> i < step \/ i = step
    BY <1>1, SMT
  <2>3. QED
    BY <1>1, <1>3, <1>8, <2>1, <2>2
<1>9. QED
  BY <1>3, <1>4, <1>5, <1>6, <1>7, <1>8 DEF Shape

LEMMA InsertKeeps ==
  ASSUME IInv, Insert
  PROVE  IInv'
<1>1. /\ pc = "insert" /\ WriteGroup /\ UNCHANGED <<todo, status, cut>>
      /\ \/ step < Len(Groups) /\ step' = step + 1 /\ pc' = "insert"
         \/ ~(step < Len(Groups)) /\ pc' = "seed" /\ toSeed' = Participants[Match]
  BY DEF Insert, frontier
<1>2. /\ step \in 1..4 /\ todo # <<>>
  BY <1>1 DEF IInv, InsertedSoFar
<1>3. /\ Shape' /\ RawFirst' /\ SumsFollowRows'
      /\ \A m \in Matches : m # Match => rows'[m] = rows[m]
      /\ Match \in Matches => \A i \in 1..4 : Groups[i] \in rows'[Match] <=> i < step + 1
  BY <1>1, <1>2, WritesInOrder DEF IInv
<1>4. Match' = Match
  BY <1>1 DEF Match
<1>5. InsertedSoFar'
  <2>1. pc' = "insert" => step' = step + 1 /\ step' \in 1..4
    BY <1>1, <1>2, GroupNames, SMT
  <2>2. QED
    BY <1>1, <1>2, <1>3, <1>4, <2>1 DEF InsertedSoFar
<1>6. SeededSoFar'
  <2>1. ASSUME pc' = "seed", Match \in Matches
        PROVE  rows'[Match] = Range(Groups)
    <3>1. step = 4
      BY <1>1, <1>2, <2>1, GroupNames, SMT
    <3>2. \A i \in 1..4 : Groups[i] \in rows'[Match]
      BY <1>3, <2>1, <3>1, SMT
    <3>3. 1 \in 1..4 /\ 2 \in 1..4 /\ 3 \in 1..4 /\ 4 \in 1..4
      BY SMT
    <3>4. Range(Groups) \subseteq rows'[Match]
      BY <3>2, <3>3, GroupNames
    <3>5. QED
      BY <1>3, <2>1, <3>4 DEF Shape
  <2>2. QED
    BY <1>1, <1>2, <1>4, <2>1 DEF SeededSoFar
<1>7. LeftWhole'
  BY <1>1, <1>3, <1>4 DEF IInv, LeftWhole, Ingesting
<1>8. FetchedIsNew'
  BY <1>1 DEF FetchedIsNew
<1>9. QED
  BY <1>3, <1>5, <1>6, <1>7, <1>8 DEF IInv

LEMMA InsertFailsKeeps ==
  ASSUME IInv, InsertFails
  PROVE  IInv'
<1>1. /\ pc = "insert" /\ pc' = "match" /\ UNCHANGED status /\ cut' = cut \cup {Match}
      /\ WriteGroup \/ UNCHANGED <<rows, games>>
  BY DEF InsertFails, NextMatch, frontier
<1>2. Shape' /\ RawFirst' /\ SumsFollowRows'
      /\ \A m \in Matches : m # Match => rows'[m] = rows[m]
  <2>1. CASE WriteGroup
    BY <1>1, <2>1, WritesInOrder DEF IInv, InsertedSoFar
  <2>2. CASE UNCHANGED <<rows, games>>
    BY <1>1, <2>2 DEF IInv, Shape, RawFirst, SumsFollowRows
  <2>3. QED
    BY <1>1, <2>1, <2>2
<1>3. FetchedIsNew' /\ InsertedSoFar' /\ SeededSoFar'
  BY <1>1 DEF FetchedIsNew, InsertedSoFar, SeededSoFar
<1>4. LeftWhole'
  BY <1>1, <1>2 DEF IInv, LeftWhole, Ingesting
<1>5. QED
  BY <1>2, <1>3, <1>4 DEF IInv
-----------------------------------------------------------------------------
(* The participants of a match that is in: looked up, then written.        *)
LEMMA SeedsKeep ==
  ASSUME IInv, pc \in {"seed", "seedRow"}, pc' \in {"seed", "seedRow"},
         UNCHANGED <<rows, games, todo>>,
         status' \in [Players -> Statuses],
         \A p \in Players : status[p] # "absent" => status'[p] # "absent",
         cut \subseteq cut',
         \A p \in Players :
            p \in toSeed => p \in toSeed' \/ status'[p] # "absent" \/ Match \in cut',
         pc' = "seedRow" => toSeed' # {}
  PROVE  IInv'
<1>1. Shape' /\ RawFirst' /\ SumsFollowRows' /\ FetchedIsNew' /\ InsertedSoFar'
  BY DEF IInv, Shape, RawFirst, SumsFollowRows, FetchedIsNew, InsertedSoFar
<1>2. SeededSoFar'
  <2>1. /\ todo # <<>>
        /\ Match \in Matches =>
             /\ rows[Match] = Range(Groups)
             /\ \A p \in Participants[Match] :
                  p \in toSeed \/ status[p] # "absent" \/ Match \in cut
    BY DEF IInv, SeededSoFar
  <2>2. Match \in Matches => \A p \in Participants[Match] :
            p \in toSeed' \/ status'[p] # "absent" \/ Match \in cut'
    BY <2>1, PlayersOf
  <2>3. QED
    BY <2>1, <2>2 DEF SeededSoFar, Match
<1>3. LeftWhole'
  BY PlayersOf DEF IInv, LeftWhole, Ingesting, Match
<1>4. QED
  BY <1>1, <1>2, <1>3 DEF IInv

LEMMA SeedStep ==
  ASSUME IInv, SeedLooks \/ SeedWrites \/ SeedFails
  PROVE  IInv'
<1> USE DEF frontier, store
<1>1. status \in [Players -> Statuses] /\ "pending" \in Statuses /\ "pending" # "absent"
  BY DEF IInv, Shape, Statuses
<1>2. CASE SeedLooks
  <2>1. toSeed # {} /\ pc = "seed" /\ UNCHANGED <<rows, games, todo, status, cut>>
    BY <1>2 DEF SeedLooks
  <2>2. \/ status[Candidate] = "absent" /\ pc' = "seedRow" /\ toSeed' = toSeed
        \/ status[Candidate] # "absent" /\ pc' = "seed" /\ toSeed' = toSeed \ {Candidate}
    BY <1>2 DEF SeedLooks, LookForRow
  <2>3. QED
    BY <1>1, <2>1, <2>2, SeedsKeep
<1>3. CASE SeedWrites
  <2>1. /\ pc = "seedRow" /\ pc' = "seed" /\ UNCHANGED <<rows, games, todo, cut>>
        /\ status' = [status EXCEPT ![Candidate] = "pending"] /\ toSeed' = toSeed \ {Candidate}
    BY <1>3 DEF SeedWrites
  <2>2. /\ status' \in [Players -> Statuses]
        /\ \A p \in Players : status[p] # "absent" => status'[p] # "absent"
        /\ \A p \in Players : p = Candidate => status'[p] # "absent"
    BY <1>1, <2>1
  <2>3. QED
    BY <2>1, <2>2, SeedsKeep
<1>4. CASE SeedFails
  <2>1. /\ pc \in {"seed", "seedRow"} /\ pc' = "seed" /\ UNCHANGED <<rows, games, todo, status>>
        /\ cut' = cut \cup {Match}
    BY <1>4 DEF SeedFails
  <2>2. QED
    BY <1>1, <2>1, SeedsKeep
<1>5. QED
  BY <1>2, <1>3, <1>4

(* No action takes a row of the frontier away.                             *)
LEMMA RowsOfPlayers ==
  ASSUME IInv, Mark \/ SeedFrontier \/ (\E p \in Players : ForceSeed(p))
  PROVE  /\ status' \in [Players -> Statuses]
         /\ \A p \in Players : status[p] # "absent" => status'[p] # "absent"
<1>1. status \in [Players -> Statuses] /\ "pending" \in Statuses /\ "pending" # "absent"
      /\ FrontierStatus \in Statuses /\ FrontierStatus # "absent"
  BY DEF IInv, Shape, Statuses, FrontierStatus
<1>2. CASE Mark
  <2>1. status' = [status EXCEPT ![Visited] = FrontierStatus]
    BY <1>2 DEF Mark
  <2>2. QED
    BY <1>1, <2>1
<1>3. CASE SeedFrontier
  <2>1. status' = [p \in Players |-> IF p \in EnvSeeds THEN "pending" ELSE status[p]]
    BY <1>3 DEF SeedFrontier
  <2>2. QED
    BY <1>1, <2>1
<1>4. ASSUME NEW p \in Players, ForceSeed(p)
      PROVE  status' = [status EXCEPT ![p] = "pending"]
  BY <1>4 DEF ForceSeed
<1>5. QED
  BY <1>1, <1>2, <1>3, <1>4

LEMMA Step ==
  ASSUME IInv, [Next]_vars
  PROVE  IInv'
<1> USE DEF frontier, store
<1>1. status \in [Players -> Statuses]
  BY DEF IInv, Shape
<1>2. CASE StartPass
  <2>1. pc = "idle" /\ pc' = "ids" /\ UNCHANGED <<rows, games, cut, status>>
    BY <1>2 DEF StartPass
  <2>2. QED
    BY <1>1, <2>1, Elsewhere DEF Ingesting
<1>3. CASE FetchIDs
  <2>1. pc = "ids" /\ pc' \in {"match", "mark"} /\ UNCHANGED <<rows, games, cut, status>>
    BY <1>3 DEF FetchIDs, IDsAnswered, RiotStops, CallFails
  <2>2. QED
    BY <1>1, <2>1, Elsewhere DEF Ingesting
<1>4. CASE LookAtMatch
  <2>1. pc = "match" /\ todo # <<>> /\ UNCHANGED <<rows, games, cut, status>>
    BY <1>4 DEF LookAtMatch
  <2>2. \/ pc' \in {"match", "mark"}
        \/ pc' = "timeline" /\ todo' = todo /\ ~AlreadyIngested(Match)
    BY <1>4 DEF LookAtMatch, RiotStops, BudgetStops, CallFails, NextMatch
  <2>3. CASE pc' \in {"match", "mark"}
    BY <1>1, <2>1, <2>3, Elsewhere DEF Ingesting
  <2>4. CASE pc' = "timeline" /\ todo' = todo /\ ~AlreadyIngested(Match)
    <3>1. Match \in Matches => rows[Match] = {}
      BY <2>4 DEF IInv, RawFirst, AlreadyIngested
    <3>2. QED
      BY <2>1, <2>4, <3>1, FetchKeeps
  <2>5. QED
    BY <2>2, <2>3, <2>4
<1>5. CASE VisitEnds
  <2>1. pc = "match" /\ pc' = "mark" /\ UNCHANGED <<rows, games, cut, status>>
    BY <1>5 DEF VisitEnds
  <2>2. QED
    BY <1>1, <2>1, Elsewhere DEF Ingesting
<1>6. CASE FetchTimeline
  <2>1. pc = "timeline" /\ UNCHANGED <<rows, games, cut, status>>
    BY <1>6 DEF FetchTimeline
  <2>2. \/ pc' \in {"match", "mark"}
        \/ pc' = "insert" /\ step' = 1 /\ todo' = todo
    BY <1>6 DEF FetchTimeline, RiotStops, BudgetStops, CallFails, NextMatch
  <2>3. CASE pc' \in {"match", "mark"}
    BY <1>1, <2>1, <2>3, Elsewhere DEF Ingesting
  <2>4. CASE pc' = "insert" /\ step' = 1 /\ todo' = todo
    <3>1. todo # <<>> /\ (Match \in Matches => rows[Match] = {})
      BY <2>1 DEF IInv, FetchedIsNew
    <3>2. QED
      BY <2>1, <2>4, <3>1, FetchKeeps
  <2>5. QED
    BY <2>2, <2>3, <2>4
<1>7. CASE SeedsDone
  <2>1. pc = "seed" /\ pc' = "match" /\ toSeed = {} /\ UNCHANGED <<rows, games, cut, status>>
    BY <1>7 DEF SeedsDone, NextMatch
  <2>2. QED
    BY <1>1, <2>1, Elsewhere
<1>8. CASE Mark \/ MarkFails
  <2>1. pc = "mark" /\ pc' \in {"stopped", "idle", "ids"} /\ UNCHANGED <<rows, games, cut>>
    BY <1>8 DEF Mark, MarkFails, AfterVisit
  <2>2. /\ status' \in [Players -> Statuses]
        /\ \A p \in Players : status[p] # "absent" => status'[p] # "absent"
    BY <1>1, <1>8, RowsOfPlayers DEF MarkFails
  <2>3. QED
    BY <2>1, <2>2, Elsewhere DEF Ingesting
<1>9. CASE Crash
  <2>1. /\ pc' = "idle" /\ UNCHANGED <<rows, games>> /\ SeedFrontier
        /\ cut' = IF pc \in {"insert", "seed", "seedRow"} /\ todo # <<>>
                  THEN cut \cup {Match} ELSE cut
    BY <1>9 DEF Crash
  <2>2. pc \in {"insert", "seed", "seedRow"} => todo # <<>>
    BY DEF IInv, InsertedSoFar, SeededSoFar
  <2>3. \A m \in Matches : m \in cut \/ Ingesting(m) => m \in cut'
    BY <2>1, <2>2 DEF Ingesting
  <2>4. QED
    BY <2>1, <2>3, RowsOfPlayers, Elsewhere
<1>10. CASE StartWorker
  <2>1. pc = "stopped" /\ pc' = "idle" /\ UNCHANGED <<rows, games, cut>> /\ SeedFrontier
    BY <1>10 DEF StartWorker
  <2>2. QED
    BY <2>1, RowsOfPlayers, Elsewhere DEF Ingesting
<1>11. CASE KeyExpires \/ RotateKey \/ UNCHANGED vars \/ \E p \in Players : BecomesDue(p)
  <2>1. UNCHANGED <<rows, games, cut, pc, todo, step, toSeed, status>>
    BY <1>11 DEF KeyExpires, RotateKey, vars, worker, BecomesDue
  <2>2. QED
    BY <1>1, <2>1, Beside
<1>12. ASSUME NEW p \in Players, ForceSeed(p)
       PROVE  IInv'
  <2>1. UNCHANGED <<rows, games, cut, pc, todo, step, toSeed>>
    BY <1>12 DEF ForceSeed, worker
  <2>2. QED
    BY <1>12, <2>1, RowsOfPlayers, Beside
<1>13. QED
  BY <1>2, <1>3, <1>4, <1>5, <1>6, <1>7, <1>8, <1>9, <1>10, <1>11, <1>12, InsertKeeps,
     InsertFailsKeeps, SeedStep DEF Next, WorkerStep
-----------------------------------------------------------------------------
(* IInv holds of every behaviour.                                          *)
THEOREM Invariance == Spec => []IInv
<1>1. Init => IInv
  <2> SUFFICES ASSUME Init PROVE IInv
    OBVIOUS
  <2>1. Shape
    BY DEF Init, Shape, Statuses
  <2>2. RawFirst /\ SumsFollowRows /\ LeftWhole
    BY DEF Init, RawFirst, SumsFollowRows, LeftWhole
  <2>3. FetchedIsNew /\ InsertedSoFar /\ SeededSoFar
    BY DEF Init, FetchedIsNew, InsertedSoFar, SeededSoFar
  <2>4. QED
    BY <2>1, <2>2, <2>3 DEF IInv
<1>2. IInv /\ [Next]_vars => IInv'
  BY Step
<1>3. QED
  BY <1>1, <1>2, PTL DEF Spec

(* The win and game sums count a match at most once, for any number of     *)
(* failed inserts, crashes and repeated visits (InsertNormalized,          *)
(* MatchExists).                                                           *)
THEOREM NeverCountedTwice == Spec => []CountedOnce
<1>1. IInv => CountedOnce
  <2> SUFFICES ASSUME IInv, NEW m \in Matches
               PROVE  games[m] <= 1
    BY DEF CountedOnce
  <2>1. games[m] = 0 \/ games[m] = 1
    BY DEF IInv, SumsFollowRows
  <2>2. QED
    BY <2>1, SMT
<1>2. QED
  BY <1>1, Invariance, PTL

(* A match no failure and no crash cut short is in every table, is counted *)
(* once and has all its participants on the frontier, for any players and  *)
(* matches (InsertNormalized, InsertFrontierParticipants).                 *)
THEOREM UncutIsWhole == Spec => []TakenInWhole
<1>1. IInv => TakenInWhole
  <2> SUFFICES ASSUME IInv, NEW m \in Matches, rows[m] # {}, ~Ingesting(m), m \notin cut
               PROVE  /\ rows[m] = Range(Groups)
                      /\ games[m] = 1
                      /\ \A p \in Participants[m] : status[p] # "absent"
    BY DEF TakenInWhole
  <2>1. rows[m] = Range(Groups) /\ \A p \in Participants[m] : status[p] # "absent"
    BY DEF IInv, LeftWhole
  <2>2. Matchups \in rows[m]
    BY <2>1, GroupNames
  <2>3. games[m] = 1
    BY <2>2 DEF IInv, SumsFollowRows
  <2>4. QED
    BY <2>1, <2>3
<1>2. QED
  BY <1>1, Invariance, PTL
-----------------------------------------------------------------------------
(* The queue of the due rows.                                              *)
LEMMA SortedKnown ==
  ASSUME NEW S \in SUBSET Players, NEW s \in SetToSeqs(S)
  PROVE  s \in Seq(Players) /\ IsInjective(s) /\ Range(s) \subseteq S
<1>1. IsFiniteSet(S) /\ Cardinality(S) \in Nat
  BY CollectorAssumption, FS_Subset, FS_CardinalityType
<1>2. /\ s \in [1..Cardinality(S) -> S]
      /\ \A i, j \in 1..Cardinality(S) : i # j => s[i] # s[j]
  BY DEF SetToSeqs
<1>3. QED
  BY <1>1, <1>2, IsASeq DEF IsInjective, Range

LEMMA WithoutKnown ==
  ASSUME NEW q \in Seq(Players), IsInjective(q), NEW p
  PROVE  /\ Without(q, p) \in Seq(Players) /\ IsInjective(Without(q, p))
         /\ Range(Without(q, p)) \subseteq Range(q) \ {p}
<1>1. CASE p \notin Range(q)
  BY <1>1 DEF Without
<1>2. CASE p \in Range(q)
  <2> DEFINE k == CHOOSE i \in DOMAIN q : q[i] = p
             w == SubSeq(q, 1, k - 1) \o SubSeq(q, k + 1, Len(q))
  <2>1. k \in 1..Len(q) /\ q[k] = p
    BY <1>2 DEF Range
  <2>2. Without(q, p) = w
    BY <1>2 DEF Without, RemoveAt
  <2> HIDE DEF k
  <2>3. /\ w \in Seq(Players) /\ Len(w) = Len(q) - 1 /\ Len(q) \in Nat /\ k \in Nat
        /\ \A i \in 1..Len(w) : w[i] = IF i < k THEN q[i] ELSE q[i + 1]
    <3> DEFINE front == SubSeq(q, 1, k - 1)
               back == SubSeq(q, k + 1, Len(q))
    <3>1. Len(q) \in Nat /\ k \in Nat /\ 1 <= k /\ k <= Len(q)
      BY <2>1, LenProperties, SMT
    <3>2. /\ front \in Seq(Players) /\ Len(front) = k - 1
          /\ \A i \in 1..(k - 1) : front[i] = q[i]
      BY <3>1, SMT
    <3>3. /\ back \in Seq(Players) /\ Len(back) = Len(q) - k
          /\ \A i \in 1..(Len(q) - k) : back[i] = q[k + i]
      BY <3>1, SMT
    <3> HIDE DEF front, back
    <3>4. /\ front \o back \in Seq(Players) /\ Len(front \o back) = Len(q) - 1
          /\ \A i \in 1..(Len(q) - 1) : (front \o back)[i] =
                IF i <= k - 1 THEN front[i] ELSE back[i - (k - 1)]
      <4>1. Len(front) + Len(back) = Len(q) - 1
        BY <3>1, <3>2, <3>3, SMT
      <4>2. /\ front \o back \in Seq(Players)
            /\ Len(front \o back) = Len(front) + Len(back)
            /\ \A i \in 1..(Len(front) + Len(back)) : (front \o back)[i] =
                  IF i <= Len(front) THEN front[i] ELSE back[i - Len(front)]
        BY <3>2, <3>3, ConcatProperties
      <4>3. QED
        BY <3>2, <4>1, <4>2
    <3>5. \A i \in 1..(Len(q) - 1) : (front \o back)[i] = IF i < k THEN q[i] ELSE q[i + 1]
      <4> SUFFICES ASSUME NEW i \in 1..(Len(q) - 1)
                   PROVE  (front \o back)[i] = IF i < k THEN q[i] ELSE q[i + 1]
        OBVIOUS
      <4>1. CASE i < k
        <5>1. i <= k - 1 /\ i \in 1..(k - 1)
          BY <3>1, <4>1, SMT
        <5>2. QED
          BY <3>2, <3>4, <4>1, <5>1
      <4>2. CASE ~(i < k)
        <5>1. ~(i <= k - 1) /\ i - (k - 1) \in 1..(Len(q) - k) /\ k + (i - (k - 1)) = i + 1
          BY <3>1, <4>2, SMT
        <5>2. back[i - (k - 1)] = q[k + (i - (k - 1))]
          BY <3>3, <5>1
        <5>3. QED
          BY <3>4, <4>2, <5>1, <5>2
      <4>3. QED
        BY <4>1, <4>2
    <3>6. QED
      BY <3>1, <3>4, <3>5 DEF front, back
  <2> HIDE DEF w
  <2>4. \A i, j \in 1..Len(q) : q[i] = q[j] => i = j
    BY DEF IsInjective
  <2>5. ASSUME NEW i \in 1..Len(w)
        PROVE  \/ w[i] = q[i] /\ i \in 1..Len(q) /\ i < k
               \/ w[i] = q[i + 1] /\ i + 1 \in 1..Len(q) /\ i + 1 > k
    <3>1. i \in Nat /\ i <= Len(q) - 1 /\ 1 <= i
      BY <2>3, SMT
    <3>2. i \in 1..Len(q) /\ i + 1 \in 1..Len(q) /\ (~(i < k) => i + 1 > k)
      BY <2>3, <3>1, SMT
    <3>3. w[i] = IF i < k THEN q[i] ELSE q[i + 1]
      BY <2>3
    <3>4. QED
      BY <3>2, <3>3
  <2>6. IsInjective(w)
    <3>1. \A i, j \in 1..Len(w) : w[i] = w[j] => i = j
      BY <2>1, <2>4, <2>5, SMT
    <3>2. DOMAIN w = 1..Len(w)
      BY <2>3
    <3>3. QED
      BY <3>1, <3>2 DEF IsInjective
  <2>7. Range(w) \subseteq Range(q) \ {p}
    <3>1. ASSUME NEW i \in 1..Len(w)
          PROVE  w[i] \in Range(q) \ {p}
      BY <2>1, <2>4, <2>5, SMT DEF Range
    <3>2. QED
      BY <2>3, <3>1 DEF Range
  <2>8. QED
    BY <2>2, <2>3, <2>6, <2>7
<1>3. QED
  BY <1>1, <1>2

LEMMA AppendKnown ==
  ASSUME NEW q \in Seq(Players), IsInjective(q), NEW p \in Players, p \notin Range(q)
  PROVE  /\ Append(q, p) \in Seq(Players) /\ IsInjective(Append(q, p))
         /\ Range(Append(q, p)) = Range(q) \cup {p}
<1> DEFINE a == Append(q, p)
<1>1. /\ a \in Seq(Players) /\ DOMAIN a = 1..(Len(q) + 1) /\ Len(q) \in Nat
      /\ \A i \in 1..(Len(q) + 1) : a[i] = IF i = Len(q) + 1 THEN p ELSE q[i]
      /\ DOMAIN q = 1..Len(q)
  BY AppendProperties, LenProperties, SMT
<1> HIDE DEF a
<1>2. ASSUME NEW i \in DOMAIN a, i # Len(q) + 1
      PROVE  i \in DOMAIN q /\ a[i] = q[i] /\ a[i] \in Range(q)
  BY <1>1, <1>2, SMT DEF Range
<1>3. IsInjective(a)
  BY <1>1, <1>2 DEF IsInjective
<1>4. Range(a) = Range(q) \cup {p}
  <2>1. Len(q) + 1 \in DOMAIN a /\ a[Len(q) + 1] = p
    BY <1>1, SMT
  <2>2. \A i \in DOMAIN q : i \in DOMAIN a /\ a[i] = q[i]
    BY <1>1, SMT
  <2>3. QED
    BY <1>2, <2>1, <2>2 DEF Range
<1>5. QED
  BY <1>1, <1>3, <1>4 DEF a

LEMMA QueuedKnown ==
  ASSUME NEW q \in Seq(Players), IsInjective(q), NEW p \in Players
  PROVE  /\ Queued(q, p) \in Seq(Players) /\ IsInjective(Queued(q, p))
         /\ Range(Queued(q, p)) \subseteq Range(q) \cup {p}
<1> DEFINE w == Without(q, p)
<1>1. w \in Seq(Players) /\ IsInjective(w) /\ Range(w) \subseteq Range(q) \ {p}
  BY WithoutKnown
<1>2. Queued(q, p) = Append(w, p)
  BY DEF Queued
<1> HIDE DEF w
<1>3. QED
  BY <1>1, <1>2, AppendKnown
-----------------------------------------------------------------------------
(* Type correctness                                                        *)
FrontierOK ==
  /\ status \in [Players -> Statuses]
  /\ priority \in [Players -> Priorities]
  /\ agenda \in Seq(Players) /\ IsInjective(agenda)
  /\ \A p \in Range(agenda) : status[p] # "absent"
  /\ owed \subseteq Players
  /\ since \in [Players -> SUBSET Players]

(* A visit is one of somebody.                                             *)
WorkerOK ==
  /\ pc \in {"idle", "ids", "match", "timeline", "insert", "seed", "seedRow",
             "mark", "stopped"}
  /\ batch \in Seq(Players) /\ todo \in Seq(Matches)
  /\ step \in DOMAIN Groups
  /\ toSeed \subseteq Players
  /\ errs \in BOOLEAN /\ stop \in Stops
  /\ pc \notin {"idle", "stopped"} => batch # <<>>

RestOK ==
  /\ cut \subseteq Matches
  /\ keyOK \in BOOLEAN
  /\ budget \in [{"failures", "crashes", "expiries", "forced"} -> Nat]

TypeInv == IInv /\ FrontierOK /\ WorkerOK /\ RestOK

(* What a place in the pass says of the list of matches.                   *)
LEMMA Busy ==
  ASSUME IInv, WorkerOK
  PROVE  /\ pc \in {"timeline", "insert", "seed", "seedRow"} => todo # <<>>
         /\ todo # <<>> => Match \in Matches /\ Tail(todo) \in Seq(Matches)
         /\ batch # <<>> => Visited \in Players /\ Tail(batch) \in Seq(Players)
<1>1. pc \in {"timeline", "insert", "seed", "seedRow"} => todo # <<>>
  BY DEF IInv, FetchedIsNew, InsertedSoFar, SeededSoFar
<1>2. todo \in Seq(Matches) /\ batch \in Seq(Players)
  BY DEF WorkerOK
<1>3. QED
  BY <1>1, <1>2, HeadTailProperties DEF Match, Visited

LEMMA GreatestIsOne ==
  ASSUME NEW a \in Priorities, NEW b \in Priorities
  PROVE  Greatest(a, b) \in Priorities
  BY DEF Greatest

LEMMA FrontierStep ==
  ASSUME IInv, FrontierOK, WorkerOK, [Next]_vars
  PROVE  FrontierOK'
<1> USE DEF FrontierOK
<1>1. "pending" \in Statuses /\ "pending" # "absent"
      /\ FrontierStatus \in Statuses /\ FrontierStatus # "absent"
  BY DEF Statuses, FrontierStatus
<1>12. {Discovered, EnvSeed, LivePriority} \subseteq Priorities
  BY DEF Priorities
<1>2. ASSUME UNCHANGED <<status, priority, agenda>>, owed' \subseteq owed,
             since' \in [Players -> SUBSET Players]
      PROVE  FrontierOK'
  BY <1>2
<1>3. CASE SeedWrites
  <2>1. /\ status' = [status EXCEPT ![Candidate] = "pending"]
        /\ priority' = [priority EXCEPT ![Candidate] = Discovered]
        /\ agenda' = Without(agenda, Candidate) /\ owed' = owed /\ since' = since
    BY <1>3 DEF SeedWrites
  <2>2. agenda' \in Seq(Players) /\ IsInjective(agenda') /\ Range(agenda') \subseteq Range(agenda)
    BY <2>1, WithoutKnown
  <2>3. /\ status' \in [Players -> Statuses]
        /\ \A p \in Players : status[p] # "absent" => status'[p] # "absent"
    BY <1>1, <2>1
  <2>4. Range(agenda) \subseteq Players
    BY DEF Range
  <2>5. priority' \in [Players -> Priorities]
    BY <1>12, <2>1
  <2>6. QED
    BY <2>1, <2>2, <2>3, <2>4, <2>5
<1>4. CASE Mark
  <2>1. /\ status' = [status EXCEPT ![Visited] = FrontierStatus]
        /\ agenda' = Without(agenda, Visited) /\ priority' = priority
        /\ owed' = owed /\ since' = since
    BY <1>4 DEF Mark
  <2>2. agenda' \in Seq(Players) /\ IsInjective(agenda') /\ Range(agenda') \subseteq Range(agenda)
    BY <2>1, WithoutKnown
  <2>3. /\ status' \in [Players -> Statuses]
        /\ \A p \in Players : status[p] # "absent" => status'[p] # "absent"
    BY <1>1, <2>1
  <2>4. Range(agenda) \subseteq Players
    BY DEF Range
  <2>5. QED
    BY <2>1, <2>2, <2>3, <2>4
<1>5. CASE SeedFrontier
  <2>1. /\ status' = [p \in Players |-> IF p \in EnvSeeds THEN "pending" ELSE status[p]]
        /\ priority' = [p \in Players |->
             IF p \in EnvSeeds THEN Greatest(priority[p], EnvSeed) ELSE priority[p]]
        /\ owed' = owed /\ since' = since
        /\ agenda' \in SetToSeqs(Range(agenda) \cup EnvSeeds)
    BY <1>5 DEF SeedFrontier, Sorted
  <2>2. Range(agenda) \cup EnvSeeds \in SUBSET Players
    BY CollectorAssumption DEF Range
  <2>3. /\ agenda' \in Seq(Players) /\ IsInjective(agenda')
        /\ Range(agenda') \subseteq Range(agenda) \cup EnvSeeds
    BY <2>1, <2>2, SortedKnown
  <2>4. status' \in [Players -> Statuses]
        /\ \A p \in Range(agenda) \cup EnvSeeds : status'[p] # "absent"
    BY <1>1, <2>1, <2>2
  <2>5. priority' \in [Players -> Priorities]
    <3>1. \A p \in Players : Greatest(priority[p], EnvSeed) \in Priorities
      BY <1>12, GreatestIsOne
    <3>2. QED
      BY <2>1, <3>1
  <2>6. QED
    BY <2>1, <2>2, <2>3, <2>4, <2>5
<1>6. ASSUME NEW p \in Players, BecomesDue(p)
      PROVE  FrontierOK'
  <2>1. /\ status[p] # "absent" /\ p \notin Range(agenda) /\ agenda' = Append(agenda, p)
        /\ status' = status /\ priority' = priority /\ owed' = owed /\ since' = since
    BY <1>6 DEF BecomesDue
  <2>2. QED
    BY <2>1, AppendKnown
<1>7. ASSUME NEW p \in Players, ForceSeed(p)
      PROVE  FrontierOK'
  <2>1. /\ status' = [status EXCEPT ![p] = "pending"]
        /\ priority' = [priority EXCEPT ![p] = Greatest(priority[p], LivePriority)]
        /\ agenda' = Queued(agenda, p) /\ owed' = owed \cup {p}
        /\ since' = [since EXCEPT ![p] = {}]
    BY <1>7 DEF ForceSeed
  <2>2. /\ agenda' \in Seq(Players) /\ IsInjective(agenda')
        /\ Range(agenda') \subseteq Range(agenda) \cup {p}
    BY <2>1, QueuedKnown
  <2>3. /\ status' \in [Players -> Statuses]
        /\ \A q \in Range(agenda) \cup {p} : status'[q] # "absent"
    BY <1>1, <2>1 DEF Range
  <2>4. priority' \in [Players -> Priorities]
    <3>1. Greatest(priority[p], LivePriority) \in Priorities
      BY <1>12, GreatestIsOne
    <3>2. QED
      BY <2>1, <3>1
  <2>5. since' \in [Players -> SUBSET Players] /\ owed' \subseteq Players
    BY <2>1
  <2>6. QED
    BY <2>1, <2>2, <2>3, <2>4, <2>5
<1>8. CASE FetchIDs
  <2>1. /\ pc = "ids" /\ UNCHANGED <<status, priority, agenda>> /\ owed' \subseteq owed
        /\ since' = [p \in Players |-> IF p \in owed' THEN since[p] \cup {Visited} ELSE {}]
    BY <1>8 DEF FetchIDs, IDsAnswered
  <2>2. Visited \in Players
    BY <2>1, Busy DEF WorkerOK
  <2>3. since' \in [Players -> SUBSET Players]
    BY <2>1, <2>2
  <2>4. QED
    BY <1>2, <2>1, <2>3
<1>9. CASE StartPass \/ LookAtMatch \/ VisitEnds \/ FetchTimeline \/ Insert \/ SeedLooks
           \/ SeedsDone \/ InsertFails \/ SeedFails \/ MarkFails \/ KeyExpires \/ RotateKey
           \/ UNCHANGED vars
  <2>1. UNCHANGED frontier
    BY <1>9 DEF StartPass, LookAtMatch, VisitEnds, FetchTimeline, Insert, SeedLooks, SeedsDone,
       InsertFails, SeedFails, MarkFails, KeyExpires, RotateKey, vars
  <2>2. QED
    BY <1>2, <2>1 DEF frontier
<1>10. CASE Crash \/ StartWorker
  BY <1>5, <1>10 DEF Crash, StartWorker
<1>11. QED
  BY <1>3, <1>4, <1>6, <1>7, <1>8, <1>9, <1>10 DEF Next, WorkerStep

LEMMA GroupsKnown ==
  /\ DOMAIN Groups = 1..4 /\ 1 \in 1..4
  /\ \A i \in 1..4 : i < Len(Groups) => i + 1 \in 1..4
<1>1. DOMAIN Groups = 1..4
  BY SMT DEF Groups
<1>2. QED
  BY <1>1, GroupNames, SMT

LEMMA WorkerStarts ==
  ASSUME pc' \in {"idle", "stopped"}, batch' = <<>>, todo' = <<>>, step' = 1, toSeed' = {},
         errs' = FALSE, stop' = "no"
  PROVE  WorkerOK'
<1>1. <<>> \in Seq(Players) /\ <<>> \in Seq(Matches)
  OBVIOUS
<1>2. QED
  BY <1>1, GroupsKnown DEF WorkerOK, Stops

LEMMA VisitStarts ==
  ASSUME IInv, FrontierOK, WorkerOK, StartPass
  PROVE  WorkerOK'
<1>1. /\ DueRows # {} /\ batch' \in DueFrontier /\ pc' = "ids" /\ errs' = FALSE /\ stop' = "no"
      /\ UNCHANGED <<todo, step, toSeed>>
  BY DEF StartPass
<1>2. PICK due \in SetToSeqs(DueRows) :
          batch' = SubSeq(due, 1, IF Len(due) < BatchSize THEN Len(due) ELSE BatchSize)
  BY <1>1 DEF DueFrontier, Sorted
<1>3. DueRows \in SUBSET Players
  BY DEF DueRows, FrontierOK, Range
<1>4. due \in Seq(Players)
  BY <1>3, SortedKnown
<1>5. due # <<>> /\ Len(due) \in Nat \ {0}
  <2>1. IsFiniteSet(DueRows)
    BY <1>3, CollectorAssumption, FS_Subset
  <2>2. Cardinality(DueRows) \in Nat /\ Cardinality(DueRows) # 0
    BY <1>1, <2>1, FS_EmptySet, FS_CardinalityType
  <2>3. DOMAIN due = 1..Cardinality(DueRows)
    BY DEF SetToSeqs
  <2>4. QED
    BY <1>4, <2>2, <2>3, LenProperties, SMT
<1>6. batch' \in Seq(Players) /\ batch' # <<>>
  <2> DEFINE n == IF Len(due) < BatchSize THEN Len(due) ELSE BatchSize
  <2>1. n \in Nat /\ 1 <= n /\ n <= Len(due)
    BY <1>5, CollectorAssumption, SMT
  <2> HIDE DEF n
  <2>2. \A i \in 1..n : due[i] \in Players
    BY <1>4, <2>1, SMT
  <2>3. SubSeq(due, 1, n) \in Seq(Players) /\ Len(SubSeq(due, 1, n)) = n
    BY <2>1, <2>2, SubSeqProperties, SMT
  <2>4. SubSeq(due, 1, n) # <<>>
    BY <2>1, <2>3, SMT
  <2>5. QED
    BY <1>2, <2>3, <2>4 DEF n
<1>7. QED
  BY <1>1, <1>6 DEF WorkerOK, Stops

\* What a sequence of several entries leaves after its first is not empty.
LEMMA LongerTail ==
  ASSUME NEW S, NEW s \in Seq(S), Len(s) > 1
  PROVE  Tail(s) \in Seq(S) /\ Tail(s) # <<>>
<1>1. Len(s) \in Nat /\ s # <<>>
  BY EmptySeq, LenProperties
<1>2. Tail(s) \in Seq(S) /\ Len(Tail(s)) = Len(s) - 1
  BY <1>1, HeadTailProperties
<1> DEFINE t == Tail(s)
           n == Len(s)
<1>3. t \in Seq(S) /\ Len(t) = n - 1 /\ n \in Nat /\ n > 1
  BY <1>1, <1>2
<1>4. SUFFICES t # <<>>
  BY <1>2
<1> HIDE DEF t, n
<1>5. Len(t) # 0
  BY <1>3
<1>6. QED
  BY <1>5, EmptySeq

LEMMA WorkerStepOK ==
  ASSUME IInv, FrontierOK, WorkerOK, [Next]_vars
  PROVE  WorkerOK'
<1> USE DEF Stops
<1>1. CASE FetchIDs
  <2>1. Recent[Visited] \in Seq(Matches) /\ <<>> \in Seq(Matches)
    BY <1>1, Busy, CollectorAssumption DEF FetchIDs, WorkerOK
  <2>2. QED
    BY <1>1, <2>1 DEF FetchIDs, IDsAnswered, RiotStops, CallFails, WorkerOK
<1>2. CASE LookAtMatch
  BY <1>2, Busy DEF LookAtMatch, RiotStops, BudgetStops, CallFails, NextMatch, WorkerOK
<1>3. CASE VisitEnds \/ SeedLooks \/ SeedFails \/ SeedWrites
  BY <1>3 DEF VisitEnds, SeedLooks, LookForRow, SeedFails, SeedWrites, WorkerOK
<1>4. CASE FetchTimeline
  BY <1>4, Busy, GroupsKnown
     DEF FetchTimeline, RiotStops, BudgetStops, CallFails, NextMatch, WorkerOK
<1>5. CASE Insert
  <2>1. Participants[Match] \subseteq Players
    BY <1>5, Busy, PlayersOf DEF Insert
  <2>2. QED
    BY <1>5, <2>1, GroupsKnown DEF Insert, WorkerOK
<1>6. CASE InsertFails \/ SeedsDone
  BY <1>6, Busy DEF InsertFails, SeedsDone, NextMatch, WorkerOK
<1>7. CASE Mark \/ MarkFails
  <2>1. AfterVisit /\ batch # <<>>
    BY <1>7 DEF Mark, MarkFails, WorkerOK
  <2>2. CASE pc' = "ids"
    <3>1. batch' = Tail(batch) /\ Len(batch) > 1
      BY <2>1, <2>2 DEF AfterVisit
    <3>2. Tail(batch) \in Seq(Players) /\ Tail(batch) # <<>>
      <4>1. batch \in Seq(Players)
        BY DEF WorkerOK
      <4>2. QED
        BY <3>1, <4>1, LongerTail
    <3>3. <<>> \in Seq(Matches)
      OBVIOUS
    <3>4. QED
      BY <2>1, <2>2, <3>1, <3>2, <3>3, GroupsKnown DEF AfterVisit, WorkerOK
  <2>3. CASE pc' # "ids"
    BY <2>1, <2>3, WorkerStarts DEF AfterVisit
  <2>4. QED
    BY <2>2, <2>3
<1>8. CASE Crash
  BY <1>8, WorkerStarts DEF Crash
<1>9. CASE StartWorker
  BY <1>9 DEF StartWorker, WorkerOK
<1>10. CASE \/ KeyExpires \/ RotateKey \/ UNCHANGED vars
           \/ \E p \in Players : BecomesDue(p) \/ ForceSeed(p)
  <2>1. UNCHANGED worker
    BY <1>10 DEF KeyExpires, RotateKey, vars, BecomesDue, ForceSeed
  <2>2. QED
    BY <2>1 DEF worker, WorkerOK
<1>11. QED
  BY <1>1, <1>2, <1>3, <1>4, <1>5, <1>6, <1>7, <1>8, <1>9, <1>10, VisitStarts DEF Next, WorkerStep

LEMMA RestStep ==
  ASSUME IInv, WorkerOK, RestOK, [Next]_vars
  PROVE  RestOK'
<1>1. cut' \subseteq Matches
  <2>1. CASE InsertFails \/ SeedFails \/ Crash
    BY <2>1, Busy DEF InsertFails, SeedFails, Crash, RestOK
  <2>2. CASE ~(InsertFails \/ SeedFails \/ Crash)
    <3>1. cut' = cut
      BY <2>2 DEF Next, WorkerStep, StartPass, FetchIDs, LookAtMatch, VisitEnds, FetchTimeline,
         Insert, SeedLooks, SeedWrites, SeedsDone, Mark, MarkFails, KeyExpires, RotateKey,
         StartWorker, BecomesDue, ForceSeed, store, vars
    <3>2. QED
      BY <3>1 DEF RestOK
  <2>3. QED
    BY <2>1, <2>2
<1>2. keyOK' \in BOOLEAN
  BY DEF Next, WorkerStep, StartPass, FetchIDs, LookAtMatch, VisitEnds, FetchTimeline,
     Insert, SeedLooks, SeedWrites, SeedsDone, Mark, InsertFails, SeedFails, MarkFails, Crash,
     KeyExpires, RotateKey, StartWorker, BecomesDue, ForceSeed, vars, RestOK
<1>3. budget' \in [{"failures", "crashes", "expiries", "forced"} -> Nat]
  <2>1. ASSUME NEW what \in {"failures", "crashes", "expiries", "forced"}, Spend(what)
        PROVE  budget' \in [{"failures", "crashes", "expiries", "forced"} -> Nat]
    BY <2>1, SMT DEF Spend, RestOK
  <2>2. \/ budget' = budget
        \/ \E what \in {"failures", "crashes", "expiries", "forced"} : Spend(what)
    BY DEF Next, WorkerStep, StartPass, FetchIDs, LookAtMatch, VisitEnds, FetchTimeline,
       Insert, SeedLooks, SeedWrites, SeedsDone, Mark, InsertFails, SeedFails, MarkFails, Crash,
       KeyExpires, RotateKey, StartWorker, BecomesDue, ForceSeed, vars
  <2>3. QED
    BY <2>1, <2>2 DEF RestOK
<1>4. QED
  BY <1>1, <1>2, <1>3 DEF RestOK

(* Every variable has the shape of the code's data for any players and     *)
(* matches; no player is due twice, and only players with a row are due    *)
(* (FetchDueFrontier, InsertFrontierSeed, MarkFrontierChecked).            *)
THEOREM TypeCorrect == Spec => []TypeOK
<1>1. Init => FrontierOK /\ WorkerOK /\ RestOK
  <2> SUFFICES ASSUME Init PROVE FrontierOK /\ WorkerOK /\ RestOK
    OBVIOUS
  <2>1. Seeds \cup EnvSeeds \in SUBSET Players
    BY CollectorAssumption
  <2>2. /\ agenda \in Seq(Players) /\ IsInjective(agenda)
        /\ Range(agenda) \subseteq Seeds \cup EnvSeeds
    BY <2>1, SortedKnown DEF Init
  <2>3. FrontierOK
    <3>1. priority \in [Players -> Priorities]
      BY DEF Init, Priorities
    <3>2. QED
      BY <2>1, <2>2, <3>1 DEF Init, FrontierOK, Statuses
  <2>4. WorkerOK
    <3>1. <<>> \in Seq(Players) /\ <<>> \in Seq(Matches)
      OBVIOUS
    <3>2. QED
      BY <3>1, GroupsKnown DEF Init, WorkerOK, Stops
  <2>5. RestOK
    BY CollectorAssumption DEF Init, RestOK
  <2>6. QED
    BY <2>3, <2>4, <2>5
<1>2. IInv /\ FrontierOK /\ WorkerOK /\ RestOK /\ [Next]_vars
        => (FrontierOK /\ WorkerOK /\ RestOK)'
  BY FrontierStep, WorkerStepOK, RestStep
<1>3. IInv /\ FrontierOK /\ WorkerOK /\ RestOK => TypeOK
  BY DEF IInv, Shape, FrontierOK, WorkerOK, RestOK, TypeOK
<1>4. QED
  BY <1>1, <1>2, <1>3, Invariance, PTL DEF Spec
=============================================================================
