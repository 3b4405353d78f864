----------------------------- MODULE ReadSideProofs -----------------------------
(* What the read side promises, proved for every value of the constants:    *)
(* the summoner profiles, the backfill of events, the pages the worker      *)
(* builds ahead, the loop of the refresh lanes and the way of a page to its *)
(* readers, each of the component on its own; and at the end, with the read *)
(* models of CompiledModelsProofs, of the composition.                      *)

EXTENDS CompiledModelsProofs, SequenceTheorems

-----------------------------------------------------------------------------
(* Summoner profiles: no part of a page loses a match while it is read, for *)
(* any matches, refreshes and failures                                      *)

RecentTable == "summoner_recent_match_summary"

\* The key a table may have stored a match under.
StoredUnder(m, k) ==
    IF profileWatched = RecentTable THEN \E b \in BOOLEAN : k = <<m, b>>
                               ELSE k = Profile!KeyOf(profileWatched, m)

InAnyRow == UNION {r.games : r \in profileRows}

ProfileJobs == [step : {"identity", "insert", "identities", "delete"}, at : Nat,
         seen : SUBSET Games, quiet : BOOLEAN, later : BOOLEAN]

ProfileStateOK ==
    /\ profileWatched \in Profile!Tables
    /\ profileRaw \subseteq profileStored /\ profileStored \subseteq Games
    /\ profilePruned \in BOOLEAN /\ profileNamed \in BOOLEAN
    /\ profileAccount \in Icons \union {Profile!NoIcon}
    /\ profileClock \in Nat
    /\ profileRuns \in 0..MaxRuns
    /\ profileComplete \subseteq profileStored /\ profilePage \subseteq profileStored
    /\ \/ profileJob = Profile!Idle
       \/ /\ profileJob \in ProfileJobs
          /\ profileJob.at = profileClock
          /\ profileJob.seen \subseteq profileStored

\* Each row holds matches of its key, compiled from what was stored then.
RowsFit ==
    \A r \in profileRows :
        /\ r = [key |-> r.key, at |-> r.at, games |-> r.games]
        /\ r.at \in Nat /\ r.at <= profileClock
        /\ r.games \subseteq Profile!Kept(profileWatched, profileStored)
        /\ \A m \in r.games : StoredUnder(m, r.key)

\* A later row of a key holds what the earlier ones hold.
RowsGrow ==
    \A r, s \in profileRows : (r.key = s.key /\ r.at <= s.at) => r.games \subseteq s.games

KeysHaveFinal == \A r \in profileRows : \E f \in Profile!Final(profileRows) : f.key = r.key

\* Once its rows are in, those of a refresh alone show every match.
RefreshCovers ==
    (profileJob # Profile!Idle /\ profileJob.step \in {"identities", "delete"}) =>
        \A m \in InAnyRow \union Profile!Kept(profileWatched, profileJob.seen) :
            \E s \in profileRows : s.at = profileJob.at /\ m \in s.games

PagesAreServed ==
    Profile!Kept(profileWatched, profileComplete \union profilePage) \subseteq InAnyRow

\* What an undisturbed refresh has inserted has the keys of now.
KeysAreCurrent ==
    (/\ profileWatched = RecentTable
     /\ profileJob # Profile!Idle /\ profileJob.later /\ profileJob.quiet) =>
        \A r \in profileRows : r.at = profileJob.at =>
            \A m \in r.games : r.key = <<m, m \in profileRaw>>

IdentitiesFit ==
    /\ \A i \in profileIdentity :
          /\ i.key = "player" /\ i.at \in Nat /\ i.at <= profileClock
          /\ i.icon \in Icons \union {Profile!NoIcon}
    /\ \A i, k \in profileIdentity : i.at = k.at => i = k
    /\ profileIdentity # {} =>
          profileNamed /\ \E i \in profileIdentity : \A k \in profileIdentity : k.at <= i.at
    /\ (profileJob # Profile!Idle /\ profileJob.step \in {"insert", "identities", "delete"}) =>
          profileIdentity = {} \/ \E i \in profileIdentity : i.at = profileJob.at

ProfileIInv ==
    /\ ProfileStateOK /\ RowsFit /\ RowsGrow /\ KeysHaveFinal /\ RefreshCovers
    /\ PagesAreServed /\ KeysAreCurrent /\ IdentitiesFit

-----------------------------------------------------------------------------
(* Keys and rows *)

LEMMA KeptKnown ==
    ASSUME NEW t, NEW A, NEW B, A \subseteq B
    PROVE  Profile!Kept(t, A) \subseteq Profile!Kept(t, B) /\ Profile!Kept(t, A) \subseteq A
BY DEF Profile!Kept

LEMMA KeptUnion ==
    ASSUME NEW t, NEW A, NEW B
    PROVE  Profile!Kept(t, A \union B) = Profile!Kept(t, A) \union Profile!Kept(t, B)
BY DEF Profile!Kept

LEMMA KeyFits ==
    ASSUME ProfileStateOK, NEW m
    PROVE  /\ StoredUnder(m, Profile!KeyOf(profileWatched, m))
           /\ profileWatched = RecentTable =>
                 Profile!KeyOf(profileWatched, m) = <<m, m \in profileRaw>>
<1>1. CASE profileWatched = RecentTable
    <2>1. Profile!KeyOf(profileWatched, m) = <<m, m \in profileRaw>>
        BY <1>1 DEF Profile!KeyOf, RecentTable
    <2>2. (m \in profileRaw) \in BOOLEAN
        OBVIOUS
    <2> QED
        BY <1>1, <2>1, <2>2, Zenon DEF StoredUnder
<1>2. CASE profileWatched # RecentTable
    BY <1>2 DEF StoredUnder
<1> QED
    BY <1>1, <1>2

\* A key that may stand for two matches is one that no match ever leaves.
LEMMA OneKey ==
    ASSUME ProfileStateOK, NEW m, NEW n, NEW k, StoredUnder(m, k), StoredUnder(n, k)
    PROVE  \/ k = Profile!KeyOf(profileWatched, m)
           \/ m = n
BY DEF StoredUnder, RecentTable

\* The rows of a refresh.
LEMMA NewRows ==
    ASSUME ProfileIInv, NEW at \in Nat, NEW new, new = Profile!Compiled(profileWatched, at)
    PROVE  /\ \A n \in new :
                 /\ n = [key |-> n.key, at |-> n.at, games |-> n.games] /\ n.at = at
                 /\ n.games \subseteq Profile!Kept(profileWatched, profileStored)
                 /\ \A m \in n.games : /\ StoredUnder(m, n.key)
                                       /\ n.key = Profile!KeyOf(profileWatched, m)
                 /\ \A r \in profileRows : r.key = n.key => r.games \subseteq n.games
           /\ \A n, o \in new : n.key = o.key => n = o
           /\ \A m \in Profile!Kept(profileWatched, profileStored) :
                 \E n \in new : m \in n.games
<1> DEFINE K == Profile!Kept(profileWatched, profileStored)
           key(m) == Profile!KeyOf(profileWatched, m)
           row(k) == [key |-> k, at |-> at, games |-> {m \in K : key(m) = k}]
<1>1. new = {row(k) : k \in {key(m) : m \in K}}
    BY DEF Profile!Compiled, Profile!Group
<1>2. ASSUME NEW n \in new
      PROVE  \E o \in K : n = row(key(o))
    BY <1>1
<1>3. ASSUME NEW n \in new
      PROVE  /\ n = [key |-> n.key, at |-> n.at, games |-> n.games] /\ n.at = at
             /\ n.games = {m \in K : key(m) = n.key}
             /\ \E o \in K : n.key = key(o)
    BY <1>2
<1>4. \A m \in K : row(key(m)) \in new /\ m \in row(key(m)).games
    BY <1>1, Zenon
<1>5. \A m : StoredUnder(m, key(m))
    BY KeyFits DEF ProfileIInv
<1>6. ASSUME NEW n \in new, NEW r \in profileRows, r.key = n.key
      PROVE  r.games \subseteq n.games
    <2>1. PICK o \in K : n.key = key(o)
        BY <1>3
    <2>2. \A m \in r.games : m \in K /\ StoredUnder(m, n.key)
        BY <1>6 DEF ProfileIInv, RowsFit
    <2>3. \A m \in r.games : key(m) = n.key \/ m = o
        BY <2>1, <2>2, <1>5, OneKey DEF ProfileIInv
    <2>4. QED
        BY <1>3, <2>1, <2>2, <2>3
<1>7. \A m \in K : \E n \in new : m \in n.games
    BY <1>4, Zenon
<1>8. \A n \in new : \A m \in n.games : StoredUnder(m, n.key) /\ n.key = key(m)
    BY <1>3, <1>5
<1> HIDE DEF row, key, K
<1>9. \A n, o \in new : n.key = o.key => n = o
    BY <1>3
<1>10. \A n \in new : /\ n = [key |-> n.key, at |-> n.at, games |-> n.games] /\ n.at = at
                      /\ n.games \subseteq K
    BY <1>3
<1> QED
    BY <1>6, <1>7, <1>8, <1>9, <1>10 DEF K, key


LEMMA RowsInserted ==
    ASSUME ProfileIInv, profileJob # Profile!Idle,
           profileRows' = Profile!Insert(profileRows,
                              Profile!Compiled(profileWatched, profileJob.at)),
           UNCHANGED <<profileWatched, profileStored, profileClock>>
    PROVE  /\ RowsFit' /\ RowsGrow' /\ KeysHaveFinal'
           /\ InAnyRow \subseteq InAnyRow'
           /\ InAnyRow' \subseteq Profile!Kept(profileWatched, profileStored)
           /\ \A m \in Profile!Kept(profileWatched, profileStored) :
                 \E s \in profileRows' : s.at = profileJob.at /\ m \in s.games
<1> DEFINE at == profileJob.at
           new == Profile!Compiled(profileWatched, at)
           K == Profile!Kept(profileWatched, profileStored)
<1>1. at \in Nat /\ at = profileClock
    BY DEF ProfileIInv, ProfileStateOK
<1>2. /\ \A n \in new :
             /\ n = [key |-> n.key, at |-> n.at, games |-> n.games] /\ n.at = at
             /\ n.games \subseteq K
             /\ \A m \in n.games : StoredUnder(m, n.key)
             /\ \A r \in profileRows : r.key = n.key => r.games \subseteq n.games
      /\ \A n, o \in new : n.key = o.key => n = o
      /\ \A m \in K : \E n \in new : m \in n.games
    BY <1>1, NewRows
<1>3. profileRows' =
        {r \in profileRows : ~ \E n \in new : n.key = r.key /\ n.at = r.at} \union new
    BY DEF Profile!Insert
<1>4. \A r \in profileRows :
        /\ r = [key |-> r.key, at |-> r.at, games |-> r.games]
        /\ r.at \in Nat /\ r.at <= at
        /\ r.games \subseteq K
        /\ \A m \in r.games : StoredUnder(m, r.key)
    BY <1>1 DEF ProfileIInv, RowsFit
<1>5. K' = K /\ profileClock' = at /\ \A m, k : StoredUnder(m, k)' <=> StoredUnder(m, k)
    BY <1>1 DEF StoredUnder, Profile!Kept, Profile!KeyOf, RecentTable
<1>6. \A r, s \in profileRows : (r.key = s.key /\ r.at <= s.at) => r.games \subseteq s.games
    BY DEF ProfileIInv, RowsGrow
<1>7. \A r \in profileRows : \E f \in profileRows : /\ f.key = r.key
                                                    /\ \A s \in profileRows : s.key = f.key =>
                                                           s.at <= f.at
    BY DEF ProfileIInv, KeysHaveFinal, Profile!Final
<1> HIDE DEF at, new, K
<1>8. RowsFit'
    <2>1. \A r \in profileRows' :
            /\ r = [key |-> r.key, at |-> r.at, games |-> r.games]
            /\ r.at \in Nat /\ r.at <= at
            /\ r.games \subseteq K
            /\ \A m \in r.games : StoredUnder(m, r.key)
        BY <1>1, <1>2, <1>3, <1>4
    <2>2. QED
        BY <2>1, <1>5 DEF RowsFit, K
<1>9. RowsGrow'
    <2> SUFFICES ASSUME NEW r \in profileRows', NEW s \in profileRows',
                        r.key = s.key, r.at <= s.at
                 PROVE  r.games \subseteq s.games
        BY DEF RowsGrow
    <2>1. CASE r \in new /\ s \in new
        BY <1>2, <2>1
    <2>2. CASE r \in new /\ s \notin new
        <3>1. s \in profileRows /\ r.at = at
            BY <1>2, <1>3, <2>2
        <3>2. s.at = at
            BY <1>1, <1>4, <3>1
        <3> QED
            BY <1>3, <2>2, <3>1, <3>2
    <2>3. CASE r \notin new /\ s \in new
        BY <1>2, <1>3, <2>3
    <2>4. CASE r \notin new /\ s \notin new
        BY <1>3, <1>6, <2>4
    <2> QED
        BY <2>1, <2>2, <2>3, <2>4
<1>10. KeysHaveFinal'
    <2> SUFFICES ASSUME NEW r \in profileRows'
                 PROVE  \E f \in profileRows' :
                            /\ f.key = r.key
                            /\ \A s \in profileRows' : s.key = f.key => s.at <= f.at
        BY DEF KeysHaveFinal, Profile!Final
    <2>1. CASE \E n \in new : n.key = r.key
        <3>1. PICK n \in new : n.key = r.key
            BY <2>1
        <3>2. \A s \in profileRows' : s.at <= n.at
            BY <1>1, <1>2, <1>3, <1>4
        <3> QED
            BY <1>3, <3>1, <3>2
    <2>2. CASE ~ \E n \in new : n.key = r.key
        <3>1. r \in profileRows
            BY <1>3, <2>2
        <3>2. PICK f \in profileRows : /\ f.key = r.key
                                       /\ \A s \in profileRows : s.key = f.key => s.at <= f.at
            BY <1>7, <3>1
        <3>3. f \in profileRows'
            BY <1>3, <2>2, <3>2
        <3>4. \A s \in profileRows' : s.key = f.key => s \in profileRows
            BY <1>3, <2>2, <3>2
        <3> QED
            BY <3>2, <3>3, <3>4
    <2> QED
        BY <2>1, <2>2
<1>11. InAnyRow \subseteq InAnyRow'
    <2> SUFFICES ASSUME NEW r \in profileRows, NEW m \in r.games
                 PROVE  \E s \in profileRows' : m \in s.games
        BY DEF InAnyRow
    <2>1. CASE r \in profileRows'
        BY <2>1
    <2>2. CASE r \notin profileRows'
        <3>1. PICK n \in new : n.key = r.key
            BY <1>3, <2>2
        <3> QED
            BY <1>2, <1>3, <3>1
    <2> QED
        BY <2>1, <2>2
<1>12. InAnyRow' \subseteq K
    BY <1>2, <1>3, <1>4 DEF InAnyRow
<1>13. \A m \in K : \E s \in profileRows' : s.at = at /\ m \in s.games
    BY <1>2, <1>3
<1> QED
    BY <1>8, <1>9, <1>10, <1>11, <1>12, <1>13 DEF at, K

\* Deleting what is older than an instant keeps the newest row of a key.
LEMMA RowsDeleted ==
    ASSUME ProfileIInv, profileJob # Profile!Idle,
           profileRows' = Profile!DeleteOldRows(profileRows, profileJob.at),
           UNCHANGED <<profileWatched, profileStored, profileClock>>
    PROVE  /\ RowsFit' /\ RowsGrow' /\ KeysHaveFinal'
           /\ \A r \in profileRows' : r \in profileRows /\ r.at = profileJob.at
           /\ \A r \in profileRows : r.at = profileJob.at => r \in profileRows'
<1> DEFINE at == profileJob.at
<1>1. at \in Nat /\ at = profileClock
    BY DEF ProfileIInv, ProfileStateOK
<1>2. profileRows' = {r \in profileRows : ~(r.at < at)}
    BY DEF Profile!DeleteOldRows
<1>3. \A r \in profileRows : r.at \in Nat /\ r.at <= at
    BY <1>1 DEF ProfileIInv, RowsFit
<1> HIDE DEF at
<1>4. \A r \in profileRows' : r \in profileRows /\ r.at = at
    BY <1>1, <1>2, <1>3
<1>5. \A r \in profileRows : r.at = at => r \in profileRows'
    BY <1>1, <1>2
<1>6. RowsFit'
    <2>1. /\ Profile!Kept(profileWatched, profileStored)' =
                 Profile!Kept(profileWatched, profileStored)
          /\ \A m, k : StoredUnder(m, k)' <=> StoredUnder(m, k)
        BY DEF StoredUnder, Profile!Kept, Profile!KeyOf, RecentTable
    <2> QED
        BY <2>1, <1>4 DEF ProfileIInv, RowsFit
<1>7. RowsGrow'
    BY <1>4 DEF ProfileIInv, RowsGrow
<1>8. KeysHaveFinal'
    <2>1. ASSUME NEW r \in profileRows'
          PROVE  r \in Profile!Final(profileRows)'
        BY <1>1, <1>4 DEF Profile!Final
    <2> QED
        BY <2>1 DEF KeysHaveFinal
<1> QED
    BY <1>4, <1>5, <1>6, <1>7, <1>8 DEF at


-----------------------------------------------------------------------------
(* The steps *)

LEMMA ProfileJobKnown ==
    ASSUME ProfileStateOK, profileJob.step # "idle" \/ profileJob # Profile!Idle
    PROVE  /\ profileJob # Profile!Idle
           /\ profileJob \in ProfileJobs /\ profileJob.at = profileClock
           /\ profileJob.seen \subseteq profileStored
BY DEF ProfileStateOK, Profile!Idle

LEMMA StepProfileState ==
    ASSUME Guide!GuideAssumption, ProfileStateOK, [Profile!Next]_(Profile!vars)
    PROVE  ProfileStateOK'
<1>1. ASSUME NEW m \in Games, Profile!Store(m)
      PROVE  ProfileStateOK'
    BY <1>1 DEF Profile!Store, ProfileStateOK
<1>2. CASE Profile!Prune
    BY <1>2, Zenon DEF Profile!Prune, ProfileStateOK, ProfileJobs, Profile!Idle
<1>3. CASE Profile!UpsertAccountAlias
    BY <1>3 DEF Profile!UpsertAccountAlias, ProfileStateOK
<1>4. ASSUME NEW icon \in Icons \union {Profile!NoIcon}, Profile!UpsertSummonerAccountSnapshot(icon)
      PROVE  ProfileStateOK'
    BY <1>4 DEF Profile!UpsertSummonerAccountSnapshot, ProfileStateOK
<1>5. CASE Profile!RefreshSummonerProfileAnalytics
    <2>1. PICK at \in {profileClock, profileClock + 1} :
            /\ profileClock' = at
            /\ profileJob' = [step |-> "identity", at |-> at, seen |-> {}, quiet |-> TRUE,
                              later |-> \A r \in profileRows : r.at < at]
        BY <1>5, Zenon DEF Profile!RefreshSummonerProfileAnalytics
    <2>2. at \in Nat /\ (\A r \in profileRows : r.at < at) \in BOOLEAN
        BY DEF ProfileStateOK
    <2>3. profileJob' \in ProfileJobs /\ profileJob'.at = profileClock' /\ profileJob'.seen = {}
        BY <2>1, <2>2 DEF ProfileJobs
    <2>4. profileRuns' \in 0..MaxRuns
        BY <1>5 DEF Profile!RefreshSummonerProfileAnalytics, ProfileStateOK, Guide!GuideAssumption
    <2> QED
        BY <1>5, <2>1, <2>2, <2>3, <2>4
           DEF Profile!RefreshSummonerProfileAnalytics, ProfileStateOK
<1>6. CASE Profile!RefreshSummonerIdentitySummary
    BY <1>6, ProfileJobKnown DEF Profile!RefreshSummonerIdentitySummary, ProfileStateOK,
       ProfileJobs
<1>7. CASE Profile!RefreshSummonerProfileTable
    BY <1>7, ProfileJobKnown, Zenon DEF Profile!RefreshSummonerProfileTable, ProfileStateOK,
       ProfileJobs
<1>8. CASE Profile!DeleteOldIdentities
    BY <1>8, ProfileJobKnown DEF Profile!DeleteOldIdentities, ProfileStateOK, ProfileJobs
<1>9. CASE Profile!CleanupOldSummonerProfileSummaries
    BY <1>9, ProfileJobKnown DEF Profile!CleanupOldSummonerProfileSummaries, ProfileStateOK
<1>10. CASE Profile!Repeat
    BY <1>10 DEF Profile!Repeat, ProfileStateOK
<1>11. CASE Profile!Abort
    BY <1>11 DEF Profile!Abort, ProfileStateOK
<1>12. CASE Profile!SummonerProfile
    BY <1>12 DEF Profile!SummonerProfile, ProfileStateOK
<1>13. CASE Profile!ReadNextPart
    BY <1>13 DEF Profile!ReadNextPart, ProfileStateOK, Profile!NoPage
<1>14. CASE UNCHANGED Profile!vars
    BY <1>14 DEF Profile!vars, ProfileStateOK
<1> QED
    BY <1>1, <1>2, <1>3, <1>4, <1>5, <1>6, <1>7, <1>8, <1>9, <1>10, <1>11, <1>12, <1>13,
       <1>14 DEF Profile!Next

RowsServe == RowsFit /\ RowsGrow /\ KeysHaveFinal /\ RefreshCovers /\ PagesAreServed

\* The table's insert, once or repeated.
LEMMA InsertServes ==
    ASSUME ProfileIInv,
           \/ Profile!RefreshSummonerProfileTable
           \/ Profile!Repeat /\ profileJob.step = "insert"
    PROVE  RowsServe'
<1>1. /\ profileJob # Profile!Idle /\ profileJob \in ProfileJobs
      /\ UNCHANGED <<profileWatched, profileStored, profileClock, profileComplete, profilePage>>
      /\ profileRows' = Profile!Insert(profileRows,
                            Profile!Compiled(profileWatched, profileJob.at))
      /\ profileJob'.step = "insert" \/ (profileJob'.seen = profileStored
                                         /\ profileJob'.at = profileJob.at)
    BY ProfileJobKnown, Zenon DEF ProfileIInv, Profile!RefreshSummonerProfileTable,
       Profile!Repeat,
       ProfileJobs
<1>2. RowsFit' /\ RowsGrow' /\ KeysHaveFinal'
    BY <1>1, RowsInserted
<1>3. RefreshCovers'
    <2> SUFFICES ASSUME profileJob'.step \in {"identities", "delete"},
                        NEW m \in InAnyRow' \union Profile!Kept(profileWatched', profileJob'.seen)
                 PROVE  \E s \in profileRows' : s.at = profileJob'.at /\ m \in s.games
        BY DEF RefreshCovers
    <2>1. profileJob'.seen = profileStored /\ profileJob'.at = profileJob.at
        BY <1>1
    <2>2. m \in Profile!Kept(profileWatched, profileStored)
        BY <1>1, <2>1, RowsInserted
    <2> QED
        BY <1>1, <2>1, <2>2, RowsInserted
<1>4. PagesAreServed'
    <2>1. InAnyRow \subseteq InAnyRow'
        BY <1>1, RowsInserted
    <2> QED
        BY <1>1, <2>1 DEF ProfileIInv, PagesAreServed, Profile!Kept
<1> QED
    BY <1>2, <1>3, <1>4 DEF RowsServe

\* The delete, once or repeated: what it leaves shows everything.
LEMMA DeleteServes ==
    ASSUME ProfileIInv,
           \/ Profile!CleanupOldSummonerProfileSummaries
           \/ Profile!Repeat /\ profileJob.step = "delete"
    PROVE  RowsServe'
<1>1. /\ profileJob # Profile!Idle /\ profileJob.step = "delete"
      /\ UNCHANGED <<profileWatched, profileStored, profileClock, profilePage>>
      /\ profileRows' = Profile!DeleteOldRows(profileRows, profileJob.at)
      /\ \/ profileJob' = Profile!Idle /\ profileComplete' = profileJob.seen
         \/ profileJob' = profileJob /\ profileComplete' = profileComplete
    BY ProfileJobKnown
       DEF ProfileIInv, Profile!CleanupOldSummonerProfileSummaries, Profile!Repeat
<1>2. RowsFit' /\ RowsGrow' /\ KeysHaveFinal'
    BY <1>1, RowsDeleted
<1>3. /\ \A r \in profileRows' : r \in profileRows /\ r.at = profileJob.at
      /\ \A r \in profileRows : r.at = profileJob.at => r \in profileRows'
    BY <1>1, RowsDeleted
<1>4. \A m \in InAnyRow \union Profile!Kept(profileWatched, profileJob.seen) :
        \E s \in profileRows' : s.at = profileJob.at /\ m \in s.games
    BY <1>1, <1>3 DEF ProfileIInv, RefreshCovers
<1>5. RefreshCovers'
    <2>1. InAnyRow' \subseteq InAnyRow
        BY <1>3 DEF InAnyRow
    <2> QED
        BY <1>1, <1>4, <2>1 DEF RefreshCovers, Profile!Kept
<1>6. PagesAreServed'
    <2>1. InAnyRow \union Profile!Kept(profileWatched, profileJob.seen) \subseteq InAnyRow'
        BY <1>4 DEF InAnyRow
    <2>2. Profile!Kept(profileWatched, profileComplete) \union Profile!Kept(profileWatched, profilePage)
            \subseteq InAnyRow
        BY KeptUnion DEF ProfileIInv, PagesAreServed
    <2>3. Profile!Kept(profileWatched, profileComplete') \union Profile!Kept(profileWatched, profilePage)
            \subseteq InAnyRow'
        BY <1>1, <2>1, <2>2
    <2> QED
        BY <1>1, <2>3, KeptUnion DEF PagesAreServed
<1> QED
    BY <1>2, <1>5, <1>6 DEF RowsServe

\* Nothing else touches the rows; matches are only added.
LEMMA OthersServe ==
    ASSUME ProfileIInv, ProfileStateOK', [Profile!Next]_(Profile!vars),
           ~ Profile!RefreshSummonerProfileTable, ~ Profile!Repeat,
           ~ Profile!CleanupOldSummonerProfileSummaries
    PROVE  RowsServe'
<1>1. /\ UNCHANGED <<profileRows, profileWatched>>
      /\ profileStored \subseteq profileStored' /\ profileClock \in Nat /\ profileClock' \in Nat
      /\ profileClock <= profileClock'
      /\ \/ UNCHANGED <<profileComplete, profilePage>>
         \/ profileComplete' = profileComplete /\ profilePage' \in {profileComplete, {}}
    BY DEF Profile!Next, Profile!vars, Profile!Store, Profile!Prune, Profile!UpsertAccountAlias,
       Profile!UpsertSummonerAccountSnapshot, Profile!RefreshSummonerProfileAnalytics,
       Profile!RefreshSummonerIdentitySummary, Profile!DeleteOldIdentities, Profile!Abort,
       Profile!SummonerProfile, Profile!ReadNextPart, Profile!NoPage,
       ProfileIInv, ProfileStateOK
<1>2. /\ Profile!Kept(profileWatched, profileStored) \subseteq Profile!Kept(profileWatched', profileStored')
      /\ \A m, k : StoredUnder(m, k) => StoredUnder(m, k)'
    BY <1>1, KeptKnown DEF StoredUnder, Profile!KeyOf, RecentTable
<1>3. RowsFit'
    <2> SUFFICES ASSUME NEW r \in profileRows
                 PROVE  /\ r = [key |-> r.key, at |-> r.at, games |-> r.games]
                        /\ r.at \in Nat /\ r.at <= profileClock'
                        /\ r.games \subseteq Profile!Kept(profileWatched', profileStored')
                        /\ \A m \in r.games : StoredUnder(m, r.key)'
        BY <1>1 DEF RowsFit
    <2>1. /\ r = [key |-> r.key, at |-> r.at, games |-> r.games]
          /\ r.at \in Nat /\ r.at <= profileClock
          /\ r.games \subseteq Profile!Kept(profileWatched, profileStored)
          /\ \A m \in r.games : StoredUnder(m, r.key)
        BY DEF ProfileIInv, RowsFit
    <2>2. r.at <= profileClock'
        BY <1>1, <2>1
    <2> QED
        BY <1>2, <2>1, <2>2
<1>4. RowsGrow' /\ KeysHaveFinal' /\ InAnyRow' = InAnyRow
    BY <1>1 DEF ProfileIInv, RowsGrow, KeysHaveFinal, InAnyRow, Profile!Final
<1>5. RefreshCovers'
    <2> SUFFICES ASSUME profileJob' # Profile!Idle, profileJob'.step \in {"identities", "delete"}
                 PROVE  /\ profileJob # Profile!Idle
                           /\ profileJob.step \in {"identities", "delete"}
                        /\ profileJob'.at = profileJob.at /\ profileJob'.seen = profileJob.seen
        BY <1>1, <1>4 DEF ProfileIInv, RefreshCovers, Profile!Kept
    <2>1. CASE profileJob' = profileJob
        BY <2>1
    <2>2. CASE Profile!Prune \/ Profile!DeleteOldIdentities
        BY <2>2, ProfileJobKnown
           DEF Profile!Prune, Profile!DeleteOldIdentities, ProfileIInv, ProfileJobs, Profile!Idle
    <2>3. CASE \/ Profile!RefreshSummonerProfileAnalytics
              \/ Profile!RefreshSummonerIdentitySummary \/ Profile!Abort
        <3>1. profileJob'.step \in {"identity", "insert", "idle"}
            BY <2>3, ProfileJobKnown
               DEF Profile!RefreshSummonerProfileAnalytics, Profile!RefreshSummonerIdentitySummary,
                   Profile!Abort, ProfileIInv, ProfileJobs, Profile!Idle
        <3> QED
            BY <3>1
    <2> QED
        BY <2>1, <2>2, <2>3
           DEF Profile!Next, Profile!vars, Profile!Store, Profile!UpsertAccountAlias,
               Profile!UpsertSummonerAccountSnapshot, Profile!SummonerProfile, Profile!ReadNextPart
<1>6. PagesAreServed'
    <2>1. profileComplete' \union profilePage' \subseteq profileComplete \union profilePage
        BY <1>1
    <2>2. Profile!Kept(profileWatched, profileComplete' \union profilePage')
            \subseteq Profile!Kept(profileWatched, profileComplete \union profilePage)
        BY <2>1, KeptKnown
    <2> QED
        BY <1>1, <1>4, <2>2, Zenon DEF ProfileIInv, PagesAreServed
<1> QED
    BY <1>3, <1>4, <1>5, <1>6 DEF RowsServe


LEMMA StepRowsServe ==
    ASSUME ProfileIInv, ProfileStateOK', [Profile!Next]_(Profile!vars)
    PROVE  RowsServe'
<1>1. Profile!Repeat => profileJob.step \in {"insert", "delete"}
    BY DEF Profile!Repeat
<1> QED
    BY <1>1, InsertServes, DeleteServes, OthersServe

LEMMA StepKeysAreCurrent ==
    ASSUME ProfileIInv, [Profile!Next]_(Profile!vars)
    PROVE  KeysAreCurrent'
<1> SUFFICES ASSUME profileWatched' = RecentTable, profileJob' # Profile!Idle,
                    profileJob'.later, profileJob'.quiet,
                    NEW r \in profileRows', r.at = profileJob'.at, NEW m \in r.games
             PROVE  r.key = <<m, m \in profileRaw'>>
    BY DEF KeysAreCurrent
<1>1. profileWatched = RecentTable
    BY DEF Profile!Next, Profile!vars, Profile!Store, Profile!Prune, Profile!UpsertAccountAlias,
       Profile!UpsertSummonerAccountSnapshot, Profile!RefreshSummonerProfileAnalytics,
       Profile!RefreshSummonerIdentitySummary, Profile!RefreshSummonerProfileTable,
       Profile!DeleteOldIdentities, Profile!CleanupOldSummonerProfileSummaries,
       Profile!Repeat, Profile!Abort, Profile!SummonerProfile, Profile!ReadNextPart
<1>2. CASE Profile!RefreshSummonerProfileAnalytics
    <2>1. PICK at \in {profileClock, profileClock + 1} :
            /\ profileJob' = [step |-> "identity", at |-> at, seen |-> {}, quiet |-> TRUE,
                              later |-> \A s \in profileRows : s.at < at]
            /\ profileRows' = profileRows
        BY <1>2, Zenon DEF Profile!RefreshSummonerProfileAnalytics
    <2>2. profileJob'.at = at /\ (profileJob'.later => \A s \in profileRows : s.at < at)
        BY <2>1
    <2>3. r \in profileRows /\ r.at < at /\ r.at = at
        BY <2>1, <2>2
    <2>4. r.at \in Nat
        BY <2>3 DEF ProfileIInv, RowsFit
    <2> QED
        BY <2>3, <2>4
<1>3. CASE Profile!RefreshSummonerProfileTable \/ (Profile!Repeat /\ profileJob.step = "insert")
    <2>1. /\ profileJob # Profile!Idle /\ profileJob \in ProfileJobs
          /\ profileRows' = Profile!Insert(profileRows,
                                Profile!Compiled(profileWatched, profileJob.at))
          /\ profileJob'.at = profileJob.at /\ profileJob'.later = profileJob.later
          /\ profileJob'.quiet = profileJob.quiet /\ profileRaw' = profileRaw
        BY <1>3, ProfileJobKnown, Zenon
           DEF ProfileIInv, Profile!RefreshSummonerProfileTable, Profile!Repeat, ProfileJobs
    <2> DEFINE new == Profile!Compiled(profileWatched, profileJob.at)
    <2>2. \A n \in new : \A o \in n.games : n.key = Profile!KeyOf(profileWatched, o)
        BY <2>1, NewRows DEF ProfileJobs
    <2>3. CASE r \in new
        <3>1. r.key = Profile!KeyOf(profileWatched, m)
            BY <2>2, <2>3
        <3> QED
            BY <1>1, <2>1, <3>1, KeyFits DEF ProfileIInv
    <2>4. CASE r \notin new
        <3>1. r \in profileRows
            BY <2>1, <2>4 DEF Profile!Insert
        <3> QED
            BY <1>1, <2>1, <3>1 DEF ProfileIInv, KeysAreCurrent
    <2> QED
        BY <2>3, <2>4
<1>4. CASE Profile!Repeat /\ profileJob.step = "delete"
    <2>1. /\ profileJob # Profile!Idle /\ profileJob' = profileJob /\ profileRaw' = profileRaw
          /\ r \in profileRows
        BY <1>4, ProfileJobKnown DEF ProfileIInv, Profile!Repeat, Profile!DeleteOldRows
    <2> QED
        BY <1>1, <2>1 DEF ProfileIInv, KeysAreCurrent
<1>5. ASSUME NEW n \in Games, Profile!Store(n)
      PROVE  r.key = <<m, m \in profileRaw'>>
    <2>1. /\ profileJob' = profileJob /\ r \in profileRows
          /\ profileRaw' = profileRaw \union {n} /\ n \notin profileStored
        BY <1>5 DEF Profile!Store
    <2>2. m \in profileStored
        BY <2>1, KeptKnown DEF ProfileIInv, RowsFit
    <2>3. (m \in profileRaw') = (m \in profileRaw)
        BY <2>1, <2>2
    <2>4. r.key = <<m, m \in profileRaw>>
        BY <1>1, <2>1 DEF ProfileIInv, KeysAreCurrent
    <2> QED
        BY <2>3, <2>4, Zenon
<1>6. CASE Profile!Prune
    <2>1. profileJob' # Profile!Idle => ~ profileJob'.quiet
        BY <1>6, ProfileJobKnown DEF Profile!Prune, ProfileIInv, ProfileJobs
    <2> QED
        BY <2>1
<1>7. CASE \/ Profile!RefreshSummonerIdentitySummary \/ Profile!DeleteOldIdentities
    <2>1. /\ profileJob # Profile!Idle
          /\ profileJob'.at = profileJob.at /\ profileJob'.later = profileJob.later
          /\ profileJob'.quiet = profileJob.quiet
          /\ profileRaw' = profileRaw /\ profileRows' = profileRows
        BY <1>7, ProfileJobKnown, Zenon
           DEF ProfileIInv, Profile!RefreshSummonerIdentitySummary, Profile!DeleteOldIdentities, ProfileJobs
    <2> QED
        BY <1>1, <2>1 DEF ProfileIInv, KeysAreCurrent
<1>8. CASE Profile!CleanupOldSummonerProfileSummaries \/ Profile!Abort
    BY <1>8 DEF Profile!CleanupOldSummonerProfileSummaries, Profile!Abort
<1>9. CASE UNCHANGED <<profileJob, profileRows, profileRaw>>
    BY <1>1, <1>9 DEF ProfileIInv, KeysAreCurrent
<1> QED
    BY <1>2, <1>3, <1>4, <1>5, <1>6, <1>7, <1>8, <1>9
       DEF Profile!Next, Profile!vars, Profile!UpsertAccountAlias,
           Profile!UpsertSummonerAccountSnapshot, Profile!Repeat,
           Profile!SummonerProfile, Profile!ReadNextPart


LEMMA TheNewest ==
    ASSUME NEW S, NEW i \in S, \A k \in S : k.at \in Nat /\ k.at <= i.at,
           \A k, l \in S : k.at = l.at => k = l
    PROVE  (CHOOSE k \in S : \A l \in S : l.at <= k.at) = i
<1> DEFINE c == CHOOSE k \in S : \A l \in S : l.at <= k.at
<1>1. c \in S /\ \A l \in S : l.at <= c.at
    OBVIOUS
<1> HIDE DEF c
<1>2. c.at = i.at
    BY <1>1
<1> QED
    BY <1>1, <1>2 DEF c

\* The icon readers see comes from the newest identity.
LEMMA IconKnown ==
    ASSUME IdentitiesFit
    PROVE  /\ profileIdentity = {} => Profile!PreviousIcon = Profile!NoIcon
           /\ Profile!PreviousIcon \in Icons \union {Profile!NoIcon}
           /\ \A i \in profileIdentity : (\A k \in profileIdentity : k.at <= i.at) =>
                 Profile!PreviousIcon = i.icon
<1>1. ASSUME NEW i \in profileIdentity, \A k \in profileIdentity : k.at <= i.at
      PROVE  Profile!PreviousIcon = i.icon
    <2>1. \A k \in profileIdentity : k.at \in Nat /\ k.at <= i.at
        BY <1>1 DEF IdentitiesFit
    <2>2. \A k, l \in profileIdentity : k.at = l.at => k = l
        BY DEF IdentitiesFit
    <2>3. (CHOOSE k \in profileIdentity : \A l \in profileIdentity : l.at <= k.at) = i
        BY <2>1, <2>2, TheNewest
    <2> QED
        BY <2>3, Zenon DEF Profile!PreviousIcon
<1>2. profileIdentity = {} => Profile!PreviousIcon = Profile!NoIcon
    BY DEF Profile!PreviousIcon
<1>3. Profile!PreviousIcon \in Icons \union {Profile!NoIcon}
    BY <1>1, <1>2 DEF IdentitiesFit
<1> QED
    BY <1>1, <1>2, <1>3

LEMMA IconKnownNext ==
    ASSUME IdentitiesFit'
    PROVE  \A i \in profileIdentity' : (\A k \in profileIdentity' : k.at <= i.at) =>
                 Profile!PreviousIcon' = i.icon
<1> SUFFICES ASSUME NEW i \in profileIdentity', \A k \in profileIdentity' : k.at <= i.at
             PROVE  Profile!PreviousIcon' = i.icon
    OBVIOUS
<1>1. \A k \in profileIdentity' : k.at \in Nat /\ k.at <= i.at
    BY DEF IdentitiesFit
<1>2. \A k, l \in profileIdentity' : k.at = l.at => k = l
    BY DEF IdentitiesFit
<1>3. (CHOOSE k \in profileIdentity' : \A l \in profileIdentity' : l.at <= k.at) = i
    BY <1>1, <1>2, TheNewest
<1> QED
    BY <1>3, Zenon DEF Profile!PreviousIcon

\* A refresh puts the icon readers see, or a newer one, into the identity.
LEMMA IdentityWritten ==
    ASSUME ProfileIInv, Profile!RefreshSummonerIdentitySummary
    PROVE  /\ IdentitiesFit'
           /\ \/ profileIdentity = {} /\ profileIdentity' = {}
              \/ Profile!PreviousIcon' = Profile!IdentityIcon
<1> DEFINE at == profileJob.at
           n == [key |-> "player", at |-> at, icon |-> Profile!IdentityIcon]
<1>1. /\ profileJob # Profile!Idle /\ profileJob \in ProfileJobs /\ at = profileClock
             /\ at \in Nat
      /\ profileJob'.at = at /\ profileClock' = profileClock
      /\ profileNamed' = profileNamed
      /\ profileIdentity' = Profile!Insert(profileIdentity, Profile!IdentityRows(at))
    BY ProfileJobKnown DEF ProfileIInv, Profile!RefreshSummonerIdentitySummary, ProfileJobs
<1>2. CASE ~ profileNamed
    <2>1. profileIdentity = {} /\ profileIdentity' = {}
        BY <1>1, <1>2 DEF ProfileIInv, IdentitiesFit, Profile!Insert, Profile!IdentityRows
    <2> QED
        BY <2>1 DEF IdentitiesFit
<1>3. CASE profileNamed
    <2>1. /\ \A i \in profileIdentity :
                /\ i.key = "player" /\ i.at \in Nat /\ i.at <= at
                /\ i.icon \in Icons \union {Profile!NoIcon}
          /\ \A i, k \in profileIdentity : i.at = k.at => i = k
        BY <1>1 DEF ProfileIInv, IdentitiesFit
    <2>2. n.key = "player" /\ n.at = at /\ n.icon \in Icons \union {Profile!NoIcon}
        BY IconKnown DEF ProfileIInv, ProfileStateOK, Profile!IdentityIcon
    <2>3. profileIdentity' = {i \in profileIdentity : ~(n.key = i.key /\ n.at = i.at)} \union {n}
        BY <1>1, <1>3, Zenon DEF Profile!Insert, Profile!IdentityRows
    <2> HIDE DEF at, n
    <2>4. \A i \in profileIdentity' :
             /\ i.key = "player" /\ i.at \in Nat /\ i.at <= at
             /\ i.icon \in Icons \union {Profile!NoIcon}
        BY <1>1, <2>1, <2>2, <2>3
    <2>5. \A i, k \in profileIdentity' : i.at = k.at => i = k
        BY <2>1, <2>2, <2>3
    <2>6. n \in profileIdentity' /\ n.at = at /\ \A k \in profileIdentity' : k.at <= n.at
        BY <2>2, <2>3, <2>4
    <2>7. IdentitiesFit'
        BY <1>1, <1>3, <2>4, <2>5, <2>6 DEF IdentitiesFit
    <2>8. Profile!PreviousIcon' = n.icon
        BY <2>6, <2>7, IconKnownNext
    <2> QED
        BY <2>7, <2>8 DEF n
<1> QED
    BY <1>2, <1>3

\* And deletes no identity but older ones.
LEMMA IdentitiesDeleted ==
    ASSUME ProfileIInv, Profile!DeleteOldIdentities
    PROVE  IdentitiesFit' /\ Profile!PreviousIcon' = Profile!PreviousIcon
<1> DEFINE at == profileJob.at
<1>1. /\ profileJob # Profile!Idle /\ profileJob \in ProfileJobs /\ at = profileClock
             /\ at \in Nat
      /\ profileJob'.at = at /\ profileClock' = profileClock /\ profileNamed' = profileNamed
      /\ profileJob.step = "identities"
      /\ profileIdentity' = {i \in profileIdentity : ~(i.at < at)}
    BY ProfileJobKnown
       DEF ProfileIInv, Profile!DeleteOldIdentities, Profile!DeleteOldRows, ProfileJobs
<1>2. CASE profileIdentity = {}
    <2>1. profileIdentity' = {}
        BY <1>1, <1>2
    <2> QED
        BY <1>2, <2>1 DEF IdentitiesFit, Profile!PreviousIcon
<1>3. CASE profileIdentity # {}
    <2>1. PICK i \in profileIdentity : i.at = at
        BY <1>1, <1>3 DEF ProfileIInv, IdentitiesFit
    <2>2. \A k \in profileIdentity : k.at \in Nat /\ k.at <= at
        BY <1>1 DEF ProfileIInv, IdentitiesFit
    <2> HIDE DEF at
    <2>3. i \in profileIdentity' /\ \A k \in profileIdentity : k.at <= i.at
        BY <1>1, <2>1, <2>2
    <2>4. \A k \in profileIdentity' : k \in profileIdentity
        BY <1>1
    <2>5. IdentitiesFit'
        BY <1>1, <1>3, <2>1, <2>2, <2>3, <2>4 DEF ProfileIInv, IdentitiesFit
    <2>6. Profile!PreviousIcon' = i.icon
        BY <2>3, <2>4, <2>5, IconKnownNext
    <2>7. Profile!PreviousIcon = i.icon
        BY <2>3, IconKnown DEF ProfileIInv
    <2> QED
        BY <2>5, <2>6, <2>7
<1> QED
    BY <1>2, <1>3

LEMMA OtherIdentities ==
    ASSUME ProfileIInv, [Profile!Next]_(Profile!vars),
           ~ Profile!RefreshSummonerIdentitySummary, ~ Profile!DeleteOldIdentities
    PROVE  IdentitiesFit'
<1>1. /\ profileIdentity' = profileIdentity /\ (profileNamed => profileNamed')
      /\ profileClock \in Nat /\ profileClock' \in Nat /\ profileClock <= profileClock'
    BY DEF Profile!Next, Profile!vars, Profile!Store, Profile!Prune, Profile!UpsertAccountAlias,
       Profile!UpsertSummonerAccountSnapshot, Profile!RefreshSummonerProfileAnalytics,
       Profile!RefreshSummonerProfileTable, Profile!CleanupOldSummonerProfileSummaries,
       Profile!Repeat, Profile!Abort, Profile!SummonerProfile, Profile!ReadNextPart,
       ProfileIInv, ProfileStateOK
<1>2. \A i \in profileIdentity : i.at \in Nat /\ i.at <= profileClock'
    BY <1>1 DEF ProfileIInv, IdentitiesFit
<1>3. (profileJob' # Profile!Idle /\ profileJob'.step \in {"insert", "identities", "delete"}) =>
          /\ profileJob # Profile!Idle /\ profileJob.step \in {"insert", "identities", "delete"}
          /\ profileJob'.at = profileJob.at
    <2>1. CASE profileJob' = profileJob
        BY <2>1
    <2>2. CASE Profile!Prune \/ Profile!RefreshSummonerProfileTable
        BY <2>2, ProfileJobKnown, Zenon
           DEF Profile!Prune, Profile!RefreshSummonerProfileTable, ProfileIInv, ProfileJobs, Profile!Idle
    <2>3. CASE \/ Profile!RefreshSummonerProfileAnalytics
               \/ Profile!CleanupOldSummonerProfileSummaries \/ Profile!Abort
        <3>1. profileJob'.step \in {"identity", "idle"}
            BY <2>3 DEF Profile!RefreshSummonerProfileAnalytics, Profile!Idle,
                        Profile!CleanupOldSummonerProfileSummaries, Profile!Abort
        <3> QED
            BY <3>1
    <2> QED
        BY <2>1, <2>2, <2>3
           DEF Profile!Next, Profile!vars, Profile!Store, Profile!UpsertAccountAlias,
               Profile!UpsertSummonerAccountSnapshot, Profile!Repeat,
               Profile!SummonerProfile, Profile!ReadNextPart
<1> QED
    BY <1>1, <1>2, <1>3 DEF ProfileIInv, IdentitiesFit

LEMMA ProfileInitially ==
    ASSUME Guide!GuideAssumption, Profile!Init
    PROVE  ProfileIInv
<1>1. ProfileStateOK
    <2>1. profileClock \in Nat /\ profileRuns \in 0..MaxRuns
        BY DEF Profile!Init, Guide!GuideAssumption
    <2> QED
        BY <2>1, Zenon DEF Profile!Init, ProfileStateOK, Profile!NoPage
<1>2. RowsFit /\ RowsGrow /\ KeysHaveFinal /\ RefreshCovers /\ KeysAreCurrent
    BY DEF Profile!Init, RowsFit, RowsGrow, KeysHaveFinal, RefreshCovers, KeysAreCurrent
<1>3. PagesAreServed
    BY KeptKnown DEF Profile!Init, PagesAreServed, Profile!NoPage
<1>4. IdentitiesFit
    BY DEF Profile!Init, IdentitiesFit
<1> QED
    BY <1>1, <1>2, <1>3, <1>4 DEF ProfileIInv

LEMMA ProfileKept ==
    ASSUME Guide!GuideAssumption, ProfileIInv, [Profile!Next]_(Profile!vars)
    PROVE  ProfileIInv'
<1>1. ProfileStateOK'
    BY StepProfileState DEF ProfileIInv
<1>2. RowsServe' /\ KeysAreCurrent'
    BY <1>1, StepRowsServe, StepKeysAreCurrent
<1>3. IdentitiesFit'
    BY IdentityWritten, IdentitiesDeleted, OtherIdentities
<1>4. (RowsFit /\ RowsGrow /\ KeysHaveFinal /\ RefreshCovers /\ PagesAreServed)'
    BY <1>2 DEF RowsServe
<1> QED
    BY <1>1, <1>2, <1>3, <1>4 DEF ProfileIInv

LEMMA ProfileInvariance ==
    ASSUME Guide!GuideAssumption
    PROVE  Profile!Spec => []ProfileIInv
<1>1. Profile!Init => ProfileIInv
    BY ProfileInitially
<1>2. ProfileIInv /\ [Profile!Next]_(Profile!vars) => ProfileIInv'
    <2> SUFFICES ASSUME ProfileIInv, [Profile!Next]_(Profile!vars) PROVE ProfileIInv'
        OBVIOUS
    <2> QED
        BY ProfileKept
<1> QED
    BY <1>1, <1>2, PTL DEF Profile!Spec


\* Readers are shown every match that any row holds.
LEMMA EveryRowIsShown ==
    ASSUME ProfileIInv
    PROVE  Profile!Summary = InAnyRow
<1>1. ASSUME NEW r \in profileRows, NEW m \in r.games
      PROVE  m \in Profile!Summary
    <2>1. PICK f \in Profile!Final(profileRows) : f.key = r.key
        BY DEF ProfileIInv, KeysHaveFinal
    <2>2. f \in profileRows /\ r.at <= f.at
        BY <2>1 DEF Profile!Final
    <2>3. r.games \subseteq f.games
        BY <2>1, <2>2 DEF ProfileIInv, RowsGrow
    <2> QED
        BY <2>3 DEF Profile!Summary
<1> QED
    BY <1>1 DEF Profile!Summary, InAnyRow, Profile!Final

\* No part of a page lacks a match that the table had when the page was asked
\* for, and no refresh takes the icon from the leaderboard.
LEMMA ProfileLosesNothing ==
    ASSUME Guide!GuideAssumption
    PROVE  Profile!Spec => Profile!ReadersLoseNothing
<1>1. ASSUME ProfileIInv
      PROVE  Profile!Kept(profileWatched, profilePage) \subseteq Profile!ReadPart(profileWatched)
    <2>1. profileWatched \in Profile!Tables /\ profilePage \subseteq profileStored
        BY <1>1 DEF ProfileIInv, ProfileStateOK
    <2>2. Profile!Kept(profileWatched, profilePage) \subseteq InAnyRow
        BY <1>1, KeptUnion DEF ProfileIInv, PagesAreServed
    <2>3. Profile!Kept(profileWatched, profilePage) \subseteq Profile!Part(profileWatched)
        BY <1>1, <2>1, <2>2, EveryRowIsShown, KeptKnown DEF Profile!Part
    <2>4. Profile!ReadPart(profileWatched) = Profile!Part(profileWatched)
        BY <2>1
           DEF Profile!ReadPart, Profile!Tables, Profile!SummonerProfileStats,
               Profile!SummonerTopChampions, Profile!SummonerTopChampionRoles,
               Profile!SummonerRecentMatches, Profile!SummonerBuilds
    <2> QED
        BY <2>3, <2>4
<1>2. ASSUME ProfileIInv, [Profile!Next]_(Profile!vars),
             Profile!SummonerRankLeaderboard # Profile!NoIcon,
             Profile!SummonerRankLeaderboard' = Profile!NoIcon
      PROVE  profileAccount' # profileAccount /\ Profile!PreviousIcon = Profile!NoIcon
    <2>1. CASE Profile!RefreshSummonerIdentitySummary
        <3>1. profileAccount' = profileAccount
            BY <2>1 DEF Profile!RefreshSummonerIdentitySummary
        <3>2. CASE profileIdentity = {} /\ profileIdentity' = {}
            BY <1>2, <3>1, <3>2 DEF Profile!SummonerRankLeaderboard, Profile!PreviousIcon
        <3>3. CASE Profile!PreviousIcon' = Profile!IdentityIcon
            BY <1>2, <3>1, <3>3 DEF Profile!SummonerRankLeaderboard, Profile!IdentityIcon
        <3> QED
            BY <1>2, <2>1, <3>2, <3>3, IdentityWritten
    <2>2. CASE Profile!DeleteOldIdentities
        <3>1. profileAccount' = profileAccount
            BY <2>2 DEF Profile!DeleteOldIdentities
        <3> QED
            BY <1>2, <2>2, <3>1, IdentitiesDeleted DEF Profile!SummonerRankLeaderboard
    <2>3. CASE ~ Profile!RefreshSummonerIdentitySummary /\ ~ Profile!DeleteOldIdentities
        <3>1. Profile!PreviousIcon' = Profile!PreviousIcon
            <4>1. profileIdentity' = profileIdentity
                BY <1>2, <2>3
                   DEF Profile!Next, Profile!vars, Profile!Store, Profile!Prune,
                       Profile!UpsertAccountAlias, Profile!UpsertSummonerAccountSnapshot,
                       Profile!RefreshSummonerProfileAnalytics, Profile!RefreshSummonerProfileTable,
                       Profile!CleanupOldSummonerProfileSummaries, Profile!Repeat, Profile!Abort,
                       Profile!SummonerProfile, Profile!ReadNextPart
            <4> QED
                BY <4>1 DEF Profile!PreviousIcon
        <3> QED
            BY <1>2, <3>1 DEF Profile!SummonerRankLeaderboard
    <2> QED
        BY <2>1, <2>2, <2>3
<1>3. ProfileIInv /\ [Profile!Next]_(Profile!vars) =>
        [(profilePage # Profile!NoPage /\ Profile!ReadNextPart) =>
             Profile!Kept(profileWatched, profilePage) \subseteq Profile!ReadPart(profileWatched)]_(Profile!vars)
    BY <1>1
<1>4. ProfileIInv /\ [Profile!Next]_(Profile!vars) =>
        [(Profile!SummonerRankLeaderboard # Profile!NoIcon
             /\ Profile!SummonerRankLeaderboard' = Profile!NoIcon) =>
             (profileAccount' # profileAccount /\ Profile!PreviousIcon = Profile!NoIcon)]_(Profile!vars)
    BY <1>2
<1> QED
    BY <1>3, <1>4, ProfileInvariance, PTL DEF Profile!Spec, Profile!ReadersLoseNothing

LEMMA SameProfileCardinality ==
    ASSUME NEW S
    PROVE  Profile!Cardinality(S) = Cardinality(S)
BY DEF Profile!Cardinality, Cardinality

\* An undisturbed refresh leaves one recent row of a match.
LEMMA ProfileListsOnce ==
    ASSUME Guide!GuideAssumption
    PROVE  Profile!Spec => Profile!RecentMatchOnce
<1>1. ASSUME ProfileIInv, profileWatched = "summoner_recent_match_summary",
             profileJob # Profile!Idle, profileJob.later, profileJob.quiet,
             Profile!CleanupOldSummonerProfileSummaries, NEW m \in Games
      PROVE  Profile!Cardinality({r \in Profile!Final(profileRows') : m \in r.games}) <= 1
    <2> DEFINE listed == {r \in Profile!Final(profileRows') : m \in r.games}
    <2>1. \A r \in profileRows' : r \in profileRows /\ r.at = profileJob.at
        BY <1>1, RowsDeleted DEF Profile!CleanupOldSummonerProfileSummaries
    <2>2. \A r \in profileRows' : m \in r.games => r.key = <<m, m \in profileRaw>>
        BY <1>1, <2>1 DEF ProfileIInv, KeysAreCurrent, RecentTable
    <2>3. \A r, s \in profileRows' : (r.at = s.at /\ r.key = s.key) => r = s
        <3>1. ASSUME NEW r \in profileRows', NEW s \in profileRows', r.at = s.at, r.key = s.key
              PROVE  r.games = s.games
            <4>1. r \in profileRows /\ s \in profileRows
                BY <2>1
            <4>2. r.at \in Nat
                BY <1>1, <4>1 DEF ProfileIInv, RowsFit
            <4>3. r.at <= s.at /\ s.at <= r.at
                BY <3>1, <4>2
            <4>4. \A o, p \in profileRows : (o.key = p.key /\ o.at <= p.at) =>
                      o.games \subseteq p.games
                BY <1>1 DEF ProfileIInv, RowsGrow
            <4>5. r.games \subseteq s.games
                BY <3>1, <4>1, <4>3, <4>4
            <4>6. s.games \subseteq r.games
                BY <3>1, <4>1, <4>3, <4>4
            <4> QED
                BY <4>5, <4>6
        <3>2. \A r \in profileRows' : r = [key |-> r.key, at |-> r.at, games |-> r.games]
            BY <1>1, <2>1 DEF ProfileIInv, RowsFit
        <3> QED
            BY <3>1, <3>2
    <2>4. \A r, s \in listed : r = s
        BY <2>1, <2>2, <2>3 DEF Profile!Final
    <2> HIDE DEF listed
    <2>5. listed = {} \/ \E r : listed = {r}
        BY <2>4
    <2>6. Cardinality(listed) = 0 \/ Cardinality(listed) = 1
        BY <2>5, FS_EmptySet, FS_Singleton, Zenon
    <2> QED
        BY <2>6, SameProfileCardinality DEF listed
<1>2. ProfileIInv /\ [Profile!Next]_(Profile!vars) =>
        [(/\ profileWatched = "summoner_recent_match_summary"
          /\ profileJob # Profile!Idle /\ profileJob.later /\ profileJob.quiet
          /\ Profile!CleanupOldSummonerProfileSummaries) =>
          \A m \in Games :
              Profile!Cardinality({r \in Profile!Final(profileRows') :
                  m \in r.games}) <= 1]_(Profile!vars)
    BY <1>1
<1> QED
    BY <1>2, ProfileInvariance, PTL DEF Profile!Spec, Profile!RecentMatchOnce

\* A profile's state is of its type.
LEMMA ProfileTypeCorrect ==
    ASSUME Guide!GuideAssumption
    PROVE  Profile!Spec => []Profile!TypeOK
<1>1. ProfileIInv => Profile!TypeOK
    BY DEF ProfileIInv, ProfileStateOK, RowsFit, IdentitiesFit, Profile!TypeOK
<1> QED
    BY <1>1, ProfileInvariance, PTL

-----------------------------------------------------------------------------
(* The backfill of events: complete, and once, beside a collector that may  *)
(* stop anywhere, for any matches and any number of backfills               *)

\* What the collector may have left to store of a match.
Remainders ==
    { Events!IngestOrder,
      <<"raw_timelines", "timeline_skill_events", "champion_bans">>,
      <<"timeline_skill_events", "champion_bans">>,
      <<"champion_bans">> }

Entries(seq) == {seq[i] : i \in 1..Len(seq)}

EventJobs ==
    [step : {"list", "missing", "process"}, platforms : Seq({PlatformOf[m] : m \in Games}),
     sources : {Events!Sources, <<"raw_matches">>, <<>>}, left : SUBSET Games,
     missing : SUBSET Games, timelines : SUBSET Games, matches : SUBSET Games]

EventsStateOK ==
    /\ eventsCopies \in [Events!Tables -> [Games -> Nat]]
    /\ \/ eventsIngest = Events!NoMatch
       \/ eventsIngest \in Games \X Remainders
    /\ eventsCrashes \in 0..MaxCrashes
    /\ eventsRuns \in 0..MaxRuns
    /\ eventsRaced \subseteq Games
    /\ \/ eventsJob = Events!Idle
       \/ /\ eventsJob \in EventJobs
          /\ eventsJob.step \in {"missing", "process"} => eventsJob.sources # <<>>

\* The collector stores the raw match first, and once.
RawMatchFirst ==
    /\ \A m \in Games : eventsCopies["raw_matches"][m] = 0 =>
          \A t \in Events!Tables : eventsCopies[t][m] = 0
    /\ \A m \in Games : \A t \in {"raw_matches", "raw_timelines"} : eventsCopies[t][m] <= 1
    /\ eventsIngest # Events!NoMatch =>
          \A t \in {"raw_matches", "raw_timelines"} :
              t \in Entries(eventsIngest[2]) <=> eventsCopies[t][eventsIngest[1]] = 0

\* A table the collector has yet to write has no row of the match, and one a
\* backfill is about to write has none of those it misses, unless they met.
NotThereYet ==
    /\ (eventsIngest # Events!NoMatch /\ eventsJob # Events!Idle) =>
           eventsIngest[1] \in eventsRaced
    /\ eventsIngest # Events!NoMatch =>
          \A t \in Entries(eventsIngest[2]) :
              eventsCopies[t][eventsIngest[1]] = 0 \/ eventsIngest[1] \in eventsRaced
    /\ (eventsJob # Events!Idle /\ eventsJob.step = "process") =>
          \A m \in eventsJob.missing \intersect Games :
              \/ eventsCopies[Events!Destination(Head(eventsJob.sources))][m] = 0
              \/ m \in eventsRaced

\* A source of the current platform that is still to be gone through for m.
SourceAhead(s, m) ==
    \E j \in 1..Len(eventsJob.sources) :
        /\ eventsJob.sources[j] = s
        /\ j = 1 => \/ eventsJob.step = "list"
                    \/ m \in eventsJob.left
                    \/ eventsJob.step = "process" /\ m \in eventsJob.missing

Ahead(s, m) ==
    \E i \in 1..Len(eventsJob.platforms) :
        eventsJob.platforms[i] = PlatformOf[m] /\ (i = 1 => SourceAhead(s, m))

ListedIn(s) == IF s = "raw_timelines" THEN eventsJob.timelines ELSE eventsJob.matches

NoneIsSkipped ==
    eventsJob # Events!Idle =>
        \A s \in {"raw_timelines", "raw_matches"} :
            /\ ListedIn(s) \subseteq Events!Stored(s)
            /\ \A m \in ListedIn(s) \intersect Eventful :
                  m \in Events!Stored(Events!Destination(s)) \/ Ahead(s, m)


-----------------------------------------------------------------------------

LEMMA EventTables ==
    Events!Tables = {"raw_matches", "raw_timelines", "timeline_skill_events", "champion_bans"}
<1>1. DOMAIN Events!IngestOrder = {1, 2, 3, 4}
    BY SMT DEF Events!IngestOrder
<1>2. Events!Tables = {Events!IngestOrder[1], Events!IngestOrder[2], Events!IngestOrder[3],
                       Events!IngestOrder[4]}
    BY <1>1 DEF Events!Tables, Events!ToSet
<1> QED
    BY <1>2, SMT DEF Events!IngestOrder

LEMMA RemaindersKnown ==
    /\ Events!IngestOrder \in Remainders
    /\ \A t \in Events!Tables : t \in Entries(Events!IngestOrder)
    /\ \A seq \in Remainders :
          /\ seq # <<>> /\ Head(seq) \in Events!Tables /\ Head(seq) \in Entries(seq)
          /\ Len(seq) = 1 => Entries(seq) = {Head(seq)}
          /\ Len(seq) # 1 => /\ Tail(seq) \in Remainders
                             /\ Entries(Tail(seq)) = Entries(seq) \ {Head(seq)}
          /\ "raw_matches" \in Entries(seq) => Head(seq) = "raw_matches"
          /\ Entries(seq) \subseteq Events!Tables
<1> DEFINE a == <<"raw_matches", "raw_timelines", "timeline_skill_events", "champion_bans">>
           b == <<"raw_timelines", "timeline_skill_events", "champion_bans">>
           c == <<"timeline_skill_events", "champion_bans">>
           d == <<"champion_bans">>
<1>1. /\ Head(a) = "raw_matches" /\ Tail(a) = b /\ Len(a) = 4
      /\ Head(b) = "raw_timelines" /\ Tail(b) = c /\ Len(b) = 3
      /\ Head(c) = "timeline_skill_events" /\ Tail(c) = d /\ Len(c) = 2
      /\ Head(d) = "champion_bans" /\ Len(d) = 1
    BY SMT
<1>2. /\ 1..4 = {1, 2, 3, 4} /\ 1..3 = {1, 2, 3} /\ 1..2 = {1, 2} /\ 1..1 = {1}
    BY SMT
<1>3. Entries(a) = {"raw_matches", "raw_timelines", "timeline_skill_events", "champion_bans"}
    <2>1. Entries(a) = {a[1], a[2], a[3], a[4]}
        BY <1>1, <1>2 DEF Entries
    <2> QED
        BY <2>1, SMT
<1>4. Entries(b) = {"raw_timelines", "timeline_skill_events", "champion_bans"}
    <2>1. Entries(b) = {b[1], b[2], b[3]}
        BY <1>1, <1>2 DEF Entries
    <2> QED
        BY <2>1, SMT
<1>5. Entries(c) = {"timeline_skill_events", "champion_bans"}
    <2>1. Entries(c) = {c[1], c[2]}
        BY <1>1, <1>2 DEF Entries
    <2> QED
        BY <2>1, SMT
<1>6. Entries(d) = {"champion_bans"}
    <2>1. Entries(d) = {d[1]}
        BY <1>1, <1>2 DEF Entries
    <2> QED
        BY <2>1, SMT
<1>7. Remainders = {a, b, c, d} /\ Events!IngestOrder = a
    BY DEF Remainders, Events!IngestOrder
<1>8. a # <<>> /\ b # <<>> /\ c # <<>> /\ d # <<>>
    BY SMT
<1> HIDE DEF a, b, c, d
<1>9. /\ Entries(b) = Entries(a) \ {Head(a)} /\ Entries(c) = Entries(b) \ {Head(b)}
      /\ Entries(d) = Entries(c) \ {Head(c)} /\ Entries(d) = {Head(d)}
    BY <1>1, <1>3, <1>4, <1>5, <1>6
<1>10. ASSUME NEW seq \in Remainders
       PROVE  /\ seq # <<>> /\ Head(seq) \in Events!Tables /\ Head(seq) \in Entries(seq)
              /\ "raw_matches" \in Entries(seq) => Head(seq) = "raw_matches"
              /\ Entries(seq) \subseteq Events!Tables
    BY <1>1, <1>3, <1>4, <1>5, <1>6, <1>7, <1>8, EventTables
<1>11. ASSUME NEW seq \in Remainders, Len(seq) = 1
       PROVE  Entries(seq) = {Head(seq)}
    <2>1. seq = a \/ seq = b \/ seq = c \/ seq = d
        BY <1>7
    <2>2. Len(a) # 1 /\ Len(b) # 1 /\ Len(c) # 1
        BY <1>1
    <2>3. seq # a /\ seq # b /\ seq # c
        BY <1>11, <2>2
    <2>4. seq = d
        BY <2>1, <2>3
    <2> QED
        BY <1>9, <2>4
<1>12. ASSUME NEW seq \in Remainders, Len(seq) # 1
       PROVE  Tail(seq) \in Remainders /\ Entries(Tail(seq)) = Entries(seq) \ {Head(seq)}
    BY <1>1, <1>7, <1>9, <1>12, Zenon
<1>13. \A t \in Events!Tables : t \in Entries(Events!IngestOrder)
    BY <1>3, <1>7, EventTables
<1> QED
    BY <1>7, <1>10, <1>11, <1>12, <1>13

LEMMA SourcesKnown ==
    /\ Events!Sources # <<>> /\ Head(Events!Sources) = "raw_timelines"
    /\ Tail(Events!Sources) = <<"raw_matches">>
    /\ Len(Events!Sources) = 2
    /\ Events!Sources[1] = "raw_timelines" /\ Events!Sources[2] = "raw_matches"
    /\ <<"raw_matches">> # <<>> /\ Head(<<"raw_matches">>) = "raw_matches"
    /\ <<"raw_matches">>[1] = "raw_matches" /\ Len(<<"raw_matches">>) = 1
    /\ Tail(<<"raw_matches">>) = <<>> /\ Len(<<>>) = 0
BY SMT DEF Events!Sources

LEMMA DestinationsKnown ==
    /\ Events!Destination("raw_timelines") = "timeline_skill_events"
    /\ Events!Destination("raw_matches") = "champion_bans"
BY DEF Events!Destination

\* The platforms are listed completely.
LEMMA PlatformsListed ==
    ASSUME IsFiniteSet(Games), NEW A \in SUBSET Games, NEW S, S = {PlatformOf[m] : m \in A}
    PROVE  /\ Events!SetToSeq(S) \in Seq(S)
           /\ \A p \in S : \E i \in 1..Len(Events!SetToSeq(S)) : Events!SetToSeq(S)[i] = p
<1>1. IsFiniteSet(S)
    <2>1. IsFiniteSet(A)
        BY FS_Subset
    <2>2. [m \in A |-> PlatformOf[m]] \in Surjection(A, S)
        BY DEF Surjection
    <2> QED
        BY <2>1, <2>2, FS_Surjection
<1> DEFINE n == Cardinality(S)
<1>2. n \in Nat /\ ExistsBijection(1..n, S)
    BY <1>1, FS_CardinalityType
<1>3. Events!Cardinality(S) = n
    BY DEF Events!Cardinality, Cardinality
<1> HIDE DEF n
<1>4. PICK g \in Bijection(1..n, S) : TRUE
    BY <1>2, Zenon DEF ExistsBijection
<1>5. g \in [1..n -> S] /\ Events!IsInjective(g)
    BY <1>4 DEF Bijection, Injection, IsInjective, Events!IsInjective
<1> DEFINE f == Events!SetToSeq(S)
<1>6. f \in [1..n -> S] /\ Events!IsInjective(f)
    BY <1>3, <1>5, Zenon DEF Events!SetToSeq
<1> HIDE DEF f
<1>7. f \in Injection(1..n, S)
    BY <1>6 DEF Injection, IsInjective, Events!IsInjective
<1>8. Cardinality(1..n) = n
    BY <1>2, FS_Interval
<1>9. f \in Surjection(1..n, S)
    BY <1>1, <1>7, <1>8, FS_Injection DEF n
<1>10. f \in Seq(S) /\ Len(f) = n
    BY <1>2, <1>6
<1> QED
    BY <1>9, <1>10, Zenon DEF Surjection, f


-----------------------------------------------------------------------------
(* The steps *)

LEMMA EventJobKnown ==
    ASSUME EventsStateOK, eventsJob.step # "idle" \/ eventsJob # Events!Idle
    PROVE  eventsJob # Events!Idle /\ eventsJob \in EventJobs
BY DEF EventsStateOK, Events!Idle

LEMMA Added ==
    ASSUME EventsStateOK, NEW t \in Events!Tables, NEW G
    PROVE  /\ Events!Add(t, G) \in [Events!Tables -> [Games -> Nat]]
           /\ \A u \in Events!Tables, m \in Games :
                 Events!Add(t, G)[u][m] =
                    IF /\ u = t /\ m \in G
                       /\ t \in {"raw_matches", "raw_timelines"} \/ m \in Eventful
                    THEN eventsCopies[u][m] + 1 ELSE eventsCopies[u][m]
BY DEF EventsStateOK, Events!Add

\* What is stored stays stored.
LEMMA StoredStays ==
    ASSUME EventsStateOK, [Events!Next]_(Events!vars), NEW t \in Events!Tables
    PROVE  Events!Stored(t) \subseteq Events!Stored(t)'
<1> SUFFICES ASSUME NEW m \in Games, eventsCopies[t][m] > 0
             PROVE  eventsCopies'[t][m] > 0
    BY DEF Events!Stored
<1>0. eventsCopies[t][m] \in Nat
    BY DEF EventsStateOK
<1>1. CASE Events!InsertTable
    <2>1. /\ eventsCopies' = Events!Add(Head(eventsIngest[2]), {eventsIngest[1]})
          /\ Head(eventsIngest[2]) \in Events!Tables
        BY <1>1, RemaindersKnown DEF Events!InsertTable, EventsStateOK
    <2> QED
        BY <1>0, <2>1, Added
<1>2. ASSUME NEW u \in Events!Tables, Events!Merge(u)
      PROVE  eventsCopies'[t][m] > 0
    BY <1>0, <1>2 DEF Events!Merge, EventsStateOK
<1>3. CASE Events!SkillEventsBatch
    <2>1. \E G : eventsCopies' = Events!Add("timeline_skill_events", G)
        BY <1>3 DEF Events!SkillEventsBatch
    <2> QED
        BY <1>0, <2>1, Added, EventTables
<1>4. CASE Events!BansBatch
    <2>1. \E G : eventsCopies' = Events!Add("champion_bans", G)
        BY <1>4 DEF Events!BansBatch
    <2> QED
        BY <1>0, <2>1, Added, EventTables
<1>5. CASE UNCHANGED eventsCopies
    BY <1>5
<1> QED
    BY <1>1, <1>2, <1>3, <1>4, <1>5
       DEF Events!Next, Events!vars, Events!BeginMatch, Events!CutShort,
           Events!BackfillChampionGuideEvents, Events!ListSource, Events!ForEachMissingBatch,
           Events!Abort

LEMMA EventsFinite ==
    ASSUME Events!BackfillAssumption
    PROVE  IsFiniteSet(Games) /\ MaxRuns \in Nat /\ MaxCrashes \in Nat /\ BatchSize \in Nat \ {0}
BY DEF Events!BackfillAssumption, Events!IsFiniteSet, IsFiniteSet

\* A batch is one: some of the matches that are left.
LEMMA BatchWithin ==
    ASSUME Events!BackfillAssumption, NEW ids \in SUBSET Games
    PROVE  Events!Batch(ids) \subseteq ids
<1>1. IsFiniteSet(ids) /\ BatchSize \in Nat
    BY EventsFinite, FS_Subset
<1>2. \E c \in SUBSET ids :
          Events!Cardinality(c) = IF Events!Cardinality(ids) < BatchSize
                                  THEN Events!Cardinality(ids) ELSE BatchSize
    BY <1>1, SomeBatch, Zenon DEF Events!Cardinality, Cardinality
<1> QED
    BY <1>2 DEF Events!Batch

LEMMA StepEventsState ==
    ASSUME Events!BackfillAssumption, EventsStateOK, [Events!Next]_(Events!vars)
    PROVE  EventsStateOK'
<1>1. ASSUME NEW m \in Games, Events!BeginMatch(m)
      PROVE  EventsStateOK'
    BY <1>1, RemaindersKnown DEF Events!BeginMatch, EventsStateOK
<1>2. CASE Events!InsertTable
    <2>1. /\ eventsIngest \in Games \X Remainders
          /\ Head(eventsIngest[2]) \in Events!Tables
          /\ Len(eventsIngest[2]) # 1 => Tail(eventsIngest[2]) \in Remainders
        BY <1>2, RemaindersKnown DEF Events!InsertTable, EventsStateOK
    <2>2. eventsCopies' \in [Events!Tables -> [Games -> Nat]]
        BY <1>2, <2>1, Added DEF Events!InsertTable
    <2>3. eventsIngest' = Events!NoMatch \/ eventsIngest' \in Games \X Remainders
        BY <1>2, <2>1, Zenon DEF Events!InsertTable
    <2> QED
        BY <1>2, <2>2, <2>3, Zenon DEF Events!InsertTable, EventsStateOK
<1>3. CASE Events!CutShort
    BY <1>3 DEF Events!CutShort, EventsStateOK, Events!BackfillAssumption
<1>4. ASSUME NEW t \in Events!Tables, Events!Merge(t)
      PROVE  EventsStateOK'
    <2>1. eventsCopies' \in [Events!Tables -> [Games -> Nat]]
        BY <1>4 DEF Events!Merge, EventsStateOK
    <2> QED
        BY <1>4, <2>1 DEF Events!Merge, EventsStateOK
<1>5. CASE Events!BackfillChampionGuideEvents
    <2>1. Events!StoredPlatforms = {PlatformOf[m] : m \in Events!Stored("raw_matches")}
          /\ Events!Stored("raw_matches") \in SUBSET Games
        BY DEF Events!StoredPlatforms, Events!Stored
    <2>2. Events!SetToSeq(Events!StoredPlatforms) \in Seq(Events!StoredPlatforms)
        BY <2>1, EventsFinite, PlatformsListed, Zenon
    <2>3. Events!SetToSeq(Events!StoredPlatforms) \in Seq({PlatformOf[m] : m \in Games})
        <3>1. Events!StoredPlatforms \subseteq {PlatformOf[m] : m \in Games}
            BY <2>1
        <3> QED
            BY <2>2, <3>1
    <2>4. eventsJob' \in EventJobs
        BY <1>5, <2>3 DEF Events!BackfillChampionGuideEvents, EventJobs, Events!Stored
    <2>5. eventsRuns' \in 0..MaxRuns
        BY <1>5 DEF Events!BackfillChampionGuideEvents, EventsStateOK, Events!BackfillAssumption
    <2>6. eventsRaced' \subseteq Games
        BY <1>5 DEF Events!BackfillChampionGuideEvents, EventsStateOK
    <2> QED
        BY <1>5, <2>4, <2>5, <2>6 DEF Events!BackfillChampionGuideEvents, EventsStateOK
<1>6. CASE Events!ListSource
    <2>1. eventsJob \in EventJobs
        BY <1>6, EventJobKnown DEF Events!ListSource
    <2>2. CASE eventsJob.platforms = <<>>
        BY <1>6, <2>2 DEF Events!ListSource, EventsStateOK
    <2>3. CASE eventsJob.platforms # <<>> /\ eventsJob.sources = <<>>
        <3>1. Tail(eventsJob.platforms) \in Seq({PlatformOf[m] : m \in Games})
            BY <2>1, <2>3 DEF EventJobs
        <3>2. eventsJob' \in EventJobs
            BY <1>6, <2>1, <2>3, <3>1, Zenon DEF Events!ListSource, EventJobs
        <3> QED
            BY <1>6, <3>2 DEF Events!ListSource, EventsStateOK
    <2>4. CASE eventsJob.platforms # <<>> /\ eventsJob.sources # <<>>
        <3>1. eventsJob' \in EventJobs
            BY <1>6, <2>1, <2>4, Zenon DEF Events!ListSource, EventJobs, Events!Stored
        <3> QED
            BY <1>6, <3>1 DEF Events!ListSource, EventsStateOK
    <2> QED
        BY <2>2, <2>3, <2>4
<1>7. CASE Events!ForEachMissingBatch
    <2>1. eventsJob \in EventJobs /\ eventsJob.sources # <<>>
        BY <1>7, EventJobKnown DEF Events!ForEachMissingBatch, EventsStateOK
    <2> DEFINE batch == Events!Batch(eventsJob.left)
               lacking == Events!MissingDestinationMatches(batch, Events!Destination(Head(eventsJob.sources)))
    <2>2. batch \in SUBSET Games
        BY <2>1, BatchWithin DEF EventJobs
    <2>3. lacking \in SUBSET Games
        BY <2>2 DEF Events!MissingDestinationMatches
    <2>4. Tail(eventsJob.sources) \in {Events!Sources, <<"raw_matches">>, <<>>}
        BY <2>1, SourcesKnown DEF EventJobs
    <2>5. eventsJob' = IF eventsJob.left = {}
                       THEN [eventsJob EXCEPT !.step = "list", !.sources = Tail(@)]
                       ELSE [eventsJob EXCEPT !.left = @ \ batch, !.missing = lacking,
                                 !.step = IF lacking = {} THEN "missing" ELSE "process"]
        BY <1>7 DEF Events!ForEachMissingBatch
    <2> HIDE DEF batch, lacking
    <2>6. eventsJob' \in EventJobs
        BY <2>1, <2>2, <2>3, <2>4, <2>5, Zenon DEF EventJobs
    <2>7. eventsJob'.step \in {"missing", "process"} => eventsJob'.sources # <<>>
        BY <2>1, <2>5 DEF EventJobs
    <2> QED
        BY <1>7, <2>6, <2>7 DEF Events!ForEachMissingBatch, EventsStateOK
<1>8. CASE Events!SkillEventsBatch \/ Events!BansBatch
    <2>1. eventsJob \in EventJobs
        BY <1>8, EventJobKnown DEF Events!SkillEventsBatch, Events!BansBatch
    <2>2. eventsJob' \in EventJobs
        BY <1>8, <2>1, Zenon DEF Events!SkillEventsBatch, Events!BansBatch, EventJobs
    <2>3. eventsCopies' \in [Events!Tables -> [Games -> Nat]]
        BY <1>8, Added, EventTables DEF Events!SkillEventsBatch, Events!BansBatch
    <2>4. eventsJob'.sources # <<>>
        <3>1. eventsJob.step = "process" /\ eventsJob # Events!Idle
            BY <1>8 DEF Events!SkillEventsBatch, Events!BansBatch, Events!Idle
        <3>2. eventsJob.sources # <<>>
            BY <3>1 DEF EventsStateOK
        <3> QED
            BY <1>8, <2>1, <3>2, Zenon DEF Events!SkillEventsBatch, Events!BansBatch, EventJobs
    <2> QED
        BY <1>8, <2>2, <2>3, <2>4 DEF Events!SkillEventsBatch, Events!BansBatch, EventsStateOK
<1>9. CASE Events!Abort
    BY <1>9 DEF Events!Abort, EventsStateOK
<1>10. CASE UNCHANGED Events!vars
    BY <1>10 DEF Events!vars, EventsStateOK
<1> QED
    BY <1>1, <1>2, <1>3, <1>4, <1>5, <1>6, <1>7, <1>8, <1>9, <1>10 DEF Events!Next

-----------------------------------------------------------------------------
(* What the steps do to the rows *)

LEMMA InsertKnown ==
    ASSUME EventsStateOK, Events!InsertTable
    PROVE  /\ eventsIngest # Events!NoMatch
           /\ eventsIngest[1] \in Games
           /\ Head(eventsIngest[2]) \in Events!Tables
           /\ Head(eventsIngest[2]) \in Entries(eventsIngest[2])
           /\ "raw_matches" \in Entries(eventsIngest[2]) => Head(eventsIngest[2]) = "raw_matches"
           /\ \A u \in Events!Tables, n \in Games :
                 eventsCopies'[u][n] =
                    IF /\ u = Head(eventsIngest[2]) /\ n = eventsIngest[1]
                       /\ u \in {"raw_matches", "raw_timelines"} \/ n \in Eventful
                    THEN eventsCopies[u][n] + 1 ELSE eventsCopies[u][n]
           /\ eventsIngest' # Events!NoMatch =>
                 /\ eventsIngest'[1] = eventsIngest[1]
                 /\ Entries(eventsIngest'[2]) = Entries(eventsIngest[2]) \ {Head(eventsIngest[2])}
           /\ Entries(eventsIngest[2]) \subseteq Events!Tables
<1>1. eventsIngest \in Games \X Remainders /\ eventsIngest # Events!NoMatch
    BY DEF Events!InsertTable, EventsStateOK
<1> DEFINE m == eventsIngest[1]
           seq == eventsIngest[2]
<1>2. m \in Games /\ seq \in Remainders
    BY <1>1
<1>3. /\ eventsCopies' = Events!Add(Head(seq), {m})
      /\ eventsIngest' = IF Len(seq) = 1 THEN Events!NoMatch ELSE <<m, Tail(seq)>>
    BY DEF Events!InsertTable
<1> HIDE DEF m, seq
<1>4. /\ Head(seq) \in Events!Tables /\ Head(seq) \in Entries(seq)
      /\ "raw_matches" \in Entries(seq) => Head(seq) = "raw_matches"
      /\ Entries(seq) \subseteq Events!Tables
      /\ Len(seq) # 1 => Entries(Tail(seq)) = Entries(seq) \ {Head(seq)}
    BY <1>2, RemaindersKnown
<1>5. \A u \in Events!Tables, n \in Games :
          eventsCopies'[u][n] =
             IF /\ u = Head(seq) /\ n = m
                /\ u \in {"raw_matches", "raw_timelines"} \/ n \in Eventful
             THEN eventsCopies[u][n] + 1 ELSE eventsCopies[u][n]
    BY <1>3, <1>4, Added
<1>6. eventsIngest' # Events!NoMatch =>
          eventsIngest'[1] = m /\ Entries(eventsIngest'[2]) = Entries(seq) \ {Head(seq)}
    BY <1>3, <1>4
<1> QED
    BY <1>1, <1>2, <1>4, <1>5, <1>6 DEF m, seq

LEMMA BatchKnown ==
    ASSUME EventsStateOK, Events!SkillEventsBatch \/ Events!BansBatch
    PROVE  \E s \in {"raw_timelines", "raw_matches"} :
              /\ eventsJob # Events!Idle /\ eventsJob \in EventJobs /\ eventsJob.step = "process"
              /\ eventsJob.sources # <<>> /\ Head(eventsJob.sources) = s
              /\ Events!Destination(s) \in Events!Tables
              /\ \A u \in Events!Tables, n \in Games :
                    eventsCopies'[u][n] =
                       IF /\ u = Events!Destination(s)
                          /\ n \in eventsJob.missing /\ n \in Events!Stored(s) /\ n \in Eventful
                       THEN eventsCopies[u][n] + 1 ELSE eventsCopies[u][n]
              /\ eventsJob' = [eventsJob EXCEPT !.step = "missing", !.missing = {}]
              /\ UNCHANGED <<eventsIngest, eventsRaced, eventsRuns>>
<1>1. /\ eventsJob.step = "process" /\ eventsJob # Events!Idle
      /\ eventsJob' = [eventsJob EXCEPT !.step = "missing", !.missing = {}]
      /\ UNCHANGED <<eventsIngest, eventsRaced, eventsRuns>>
    BY DEF Events!SkillEventsBatch, Events!BansBatch, Events!Idle
<1>2. eventsJob \in EventJobs /\ eventsJob.sources # <<>>
    BY <1>1 DEF EventsStateOK
<1>3. CASE Events!SkillEventsBatch
    <2>1. /\ Head(eventsJob.sources) = "raw_timelines"
          /\ eventsCopies' = Events!Add("timeline_skill_events",
                                 eventsJob.missing \intersect Events!Stored("raw_timelines"))
        BY <1>3 DEF Events!SkillEventsBatch
    <2>2. \A u \in Events!Tables, n \in Games :
              eventsCopies'[u][n] =
                 IF /\ u = "timeline_skill_events"
                    /\ n \in eventsJob.missing /\ n \in Events!Stored("raw_timelines")
                           /\ n \in Eventful
                 THEN eventsCopies[u][n] + 1 ELSE eventsCopies[u][n]
        BY <2>1, Added, EventTables
    <2>3. Events!Destination("raw_timelines") = "timeline_skill_events"
              /\ "timeline_skill_events" \in Events!Tables
        BY DestinationsKnown, EventTables
    <2> QED
        BY <1>1, <1>2, <2>1, <2>2, <2>3, Zenon
<1>4. CASE Events!BansBatch
    <2>1. /\ Head(eventsJob.sources) = "raw_matches"
          /\ eventsCopies' = Events!Add("champion_bans",
                                 eventsJob.missing \intersect Events!Stored("raw_matches"))
        BY <1>4 DEF Events!BansBatch
    <2>2. \A u \in Events!Tables, n \in Games :
              eventsCopies'[u][n] =
                 IF /\ u = "champion_bans"
                    /\ n \in eventsJob.missing /\ n \in Events!Stored("raw_matches")
                           /\ n \in Eventful
                 THEN eventsCopies[u][n] + 1 ELSE eventsCopies[u][n]
        BY <2>1, Added, EventTables
    <2>3. Events!Destination("raw_matches") = "champion_bans" /\ "champion_bans" \in Events!Tables
        BY DestinationsKnown, EventTables
    <2> QED
        BY <1>1, <1>2, <2>1, <2>2, <2>3, Zenon
<1> QED
    BY <1>3, <1>4

LEMMA MergeKnown ==
    ASSUME EventsStateOK, NEW t \in Events!Tables, Events!Merge(t)
    PROVE  /\ \A u \in Events!Tables, n \in Games :
                 eventsCopies'[u][n] = IF u = t /\ eventsCopies[u][n] > 1 THEN 1
                     ELSE eventsCopies[u][n]
           /\ UNCHANGED <<eventsIngest, eventsRaced, eventsRuns, eventsJob>>
BY DEF Events!Merge, EventsStateOK

\* The steps that write no row.
LEMMA OtherEventSteps ==
    ASSUME Events!Next, ~ Events!InsertTable, ~ (Events!SkillEventsBatch \/ Events!BansBatch),
           \A t \in Events!Tables : ~ Events!Merge(t)
    PROVE  /\ UNCHANGED eventsCopies
           /\ \/ \E m \in Games : Events!BeginMatch(m)
              \/ Events!CutShort \/ Events!BackfillChampionGuideEvents \/ Events!ListSource
              \/ Events!ForEachMissingBatch \/ Events!Abort
BY DEF Events!Next, Events!BeginMatch, Events!CutShort, Events!BackfillChampionGuideEvents,
       Events!ListSource, Events!ForEachMissingBatch, Events!Abort

-----------------------------------------------------------------------------
(* The raw match is first *)

LEMMA StepRawMatchFirst ==
    ASSUME EventsStateOK, RawMatchFirst, [Events!Next]_(Events!vars)
    PROVE  RawMatchFirst'
<1>0. \A u \in Events!Tables, n \in Games : eventsCopies[u][n] \in Nat
    BY DEF EventsStateOK
<1>1. CASE Events!InsertTable
    <2> DEFINE m == eventsIngest[1]
               h == Head(eventsIngest[2])
               seq == eventsIngest[2]
    <2>1. /\ m \in Games /\ h \in Events!Tables /\ h \in Entries(seq)
          /\ "raw_matches" \in Entries(seq) => h = "raw_matches"
          /\ \A u \in Events!Tables, n \in Games :
                eventsCopies'[u][n] =
                    IF /\ u = h /\ n = m
                       /\ u \in {"raw_matches", "raw_timelines"} \/ n \in Eventful
                    THEN eventsCopies[u][n] + 1 ELSE eventsCopies[u][n]
          /\ eventsIngest' # Events!NoMatch =>
                eventsIngest'[1] = m /\ Entries(eventsIngest'[2]) = Entries(seq) \ {h}
        BY <1>1, InsertKnown
    <2>2. \A t \in {"raw_matches", "raw_timelines"} :
              t \in Entries(seq) <=> eventsCopies[t][m] = 0
        BY <1>1, InsertKnown DEF RawMatchFirst
    <2> HIDE DEF m, h, seq
    <2>3. ASSUME NEW n \in Games, eventsCopies'["raw_matches"][n] = 0, NEW t \in Events!Tables
          PROVE  eventsCopies'[t][n] = 0
        <3>1. eventsCopies["raw_matches"][n] = 0
            BY <1>0, <2>1, <2>3, EventTables
        <3>2. n # m
            BY <1>0, <2>1, <2>2, <2>3, <3>1, EventTables
        <3> QED
            BY <2>1, <3>1, <3>2 DEF RawMatchFirst
    <2>4. ASSUME NEW n \in Games, NEW t \in {"raw_matches", "raw_timelines"}
          PROVE  eventsCopies'[t][n] <= 1
        <3>1. t \in Events!Tables /\ eventsCopies[t][n] <= 1
            BY EventTables DEF RawMatchFirst
        <3> QED
            BY <1>0, <2>1, <2>2, <3>1
    <2>5. ASSUME eventsIngest' # Events!NoMatch, NEW t \in {"raw_matches", "raw_timelines"}
          PROVE  t \in Entries(eventsIngest'[2]) <=> eventsCopies'[t][eventsIngest'[1]] = 0
        <3>1. t \in Events!Tables
            BY EventTables
        <3> QED
            BY <1>0, <2>1, <2>2, <2>5, <3>1
    <2> QED
        BY <2>3, <2>4, <2>5 DEF RawMatchFirst
<1>2. ASSUME NEW t \in Events!Tables, Events!Merge(t)
      PROVE  RawMatchFirst'
    <2>1. \A u \in Events!Tables, n \in Games :
              /\ eventsCopies'[u][n] = 0 <=> eventsCopies[u][n] = 0
              /\ eventsCopies[u][n] <= 1 => eventsCopies'[u][n] <= 1
        BY <1>0, <1>2, MergeKnown
    <2>2. eventsIngest' = eventsIngest
        BY <1>2, MergeKnown
    <2>3. eventsIngest # Events!NoMatch => eventsIngest[1] \in Games
        BY DEF EventsStateOK
    <2> QED
        BY <2>1, <2>2, <2>3, EventTables DEF RawMatchFirst
<1>3. CASE Events!SkillEventsBatch \/ Events!BansBatch
    <2>1. PICK s \in {"raw_timelines", "raw_matches"} :
              /\ \A u \in Events!Tables, n \in Games :
                    eventsCopies'[u][n] =
                       IF /\ u = Events!Destination(s)
                          /\ n \in eventsJob.missing /\ n \in Events!Stored(s) /\ n \in Eventful
                       THEN eventsCopies[u][n] + 1 ELSE eventsCopies[u][n]
              /\ eventsIngest' = eventsIngest
        BY <1>3, BatchKnown
    <2>2. \A u \in {"raw_matches", "raw_timelines"}, n \in Games :
              eventsCopies'[u][n] = eventsCopies[u][n]
        BY <2>1, DestinationsKnown, EventTables
    <2>3. ASSUME NEW n \in Games, eventsCopies["raw_matches"][n] = 0, NEW t \in Events!Tables
          PROVE  eventsCopies'[t][n] = 0
        <3>1. eventsCopies[t][n] = 0 /\ eventsCopies[s][n] = 0
            BY <2>3, EventTables DEF RawMatchFirst
        <3>2. n \notin Events!Stored(s)
            BY <3>1 DEF Events!Stored
        <3> QED
            BY <2>1, <3>1, <3>2
    <2>4. eventsIngest # Events!NoMatch => eventsIngest[1] \in Games
        BY DEF EventsStateOK
    <2> QED
        BY <2>1, <2>2, <2>3, <2>4 DEF RawMatchFirst
<1>4. ASSUME UNCHANGED eventsCopies, NEW m \in Games, Events!BeginMatch(m)
      PROVE  RawMatchFirst'
    <2>1. eventsIngest' = <<m, Events!IngestOrder>> /\ m \notin Events!Stored("raw_matches")
        BY <1>4 DEF Events!BeginMatch
    <2>2. \A t \in Events!Tables : eventsCopies[t][m] = 0
        BY <1>0, <2>1, EventTables DEF Events!Stored, RawMatchFirst
    <2>3. \A t \in {"raw_matches", "raw_timelines"} :
              t \in Entries(eventsIngest'[2]) /\ eventsCopies[t][eventsIngest'[1]] = 0
        BY <2>1, <2>2, RemaindersKnown, EventTables
    <2> QED
        BY <1>4, <2>3 DEF RawMatchFirst
<1>5. CASE UNCHANGED eventsCopies /\ (eventsIngest' = Events!NoMatch \/ UNCHANGED eventsIngest)
    BY <1>5 DEF RawMatchFirst
<1> QED
    BY <1>1, <1>2, <1>3, <1>4, <1>5, OtherEventSteps
       DEF Events!vars, Events!CutShort, Events!BackfillChampionGuideEvents, Events!ListSource,
           Events!ForEachMissingBatch, Events!Abort

-----------------------------------------------------------------------------
(* No row is written twice, unless a collector and a backfill meet *)

LEMMA StepNotThereYet ==
    ASSUME EventsStateOK, RawMatchFirst, NotThereYet, [Events!Next]_(Events!vars)
    PROVE  NotThereYet'
<1>0. /\ \A u \in Events!Tables, n \in Games : eventsCopies[u][n] \in Nat
      /\ \A s \in {"raw_timelines", "raw_matches"} : Events!Destination(s) \in Events!Tables
    BY DestinationsKnown, EventTables DEF EventsStateOK
<1>00. ASSUME eventsJob # Events!Idle, eventsJob.step = "process"
       PROVE  /\ eventsJob.missing \subseteq Games
              /\ Head(eventsJob.sources) \in {"raw_timelines", "raw_matches"}
    BY <1>00, SourcesKnown DEF EventsStateOK, EventJobs
<1>01. eventsIngest # Events!NoMatch =>
           eventsIngest[1] \in Games /\ Entries(eventsIngest[2]) \subseteq Events!Tables
    BY RemaindersKnown DEF EventsStateOK
<1>1. CASE Events!InsertTable
    <2>0. UNCHANGED <<eventsJob, eventsRaced>>
        BY <1>1 DEF Events!InsertTable
    <2>1. ASSUME eventsIngest' # Events!NoMatch, NEW t \in Entries(eventsIngest'[2])
          PROVE  eventsCopies'[t][eventsIngest'[1]] = 0 \/ eventsIngest'[1] \in eventsRaced
        BY <1>1, <2>1, InsertKnown DEF NotThereYet
    <2>2. ASSUME eventsJob # Events!Idle, eventsJob.step = "process", NEW m \in eventsJob.missing
          PROVE  \/ eventsCopies'[Events!Destination(Head(eventsJob.sources))][m] = 0
                 \/ m \in eventsRaced
        <3>1. CASE m = eventsIngest[1]
            BY <1>1, <2>2, <3>1, InsertKnown DEF NotThereYet
        <3>2. CASE m # eventsIngest[1]
            BY <1>0, <1>00, <1>1, <2>2, <3>2, InsertKnown DEF NotThereYet
        <3> QED
            BY <3>1, <3>2
    <2> QED
        BY <1>1, <2>0, <2>1, <2>2, InsertKnown DEF NotThereYet
<1>2. ASSUME NEW t \in Events!Tables, Events!Merge(t)
      PROVE  NotThereYet'
    <2>1. /\ \A u \in Events!Tables, n \in Games :
                 eventsCopies[u][n] = 0 => eventsCopies'[u][n] = 0
          /\ UNCHANGED <<eventsIngest, eventsJob, eventsRaced>>
        BY <1>0, <1>2, MergeKnown
    <2> QED
        BY <1>0, <1>00, <1>01, <2>1 DEF NotThereYet
<1>3. CASE Events!SkillEventsBatch \/ Events!BansBatch
    <2>1. PICK s \in {"raw_timelines", "raw_matches"} :
              /\ eventsJob # Events!Idle /\ eventsJob \in EventJobs
              /\ eventsJob' = [eventsJob EXCEPT !.step = "missing", !.missing = {}]
              /\ UNCHANGED <<eventsIngest, eventsRaced>>
        BY <1>3, BatchKnown
    <2>2. eventsJob'.step = "missing"
        BY <2>1 DEF EventJobs
    <2> QED
        BY <2>1, <2>2 DEF NotThereYet
<1>4. ASSUME UNCHANGED eventsCopies, NEW m \in Games, Events!BeginMatch(m)
      PROVE  NotThereYet'
    <2>1. /\ eventsIngest' = <<m, Events!IngestOrder>> /\ m \notin Events!Stored("raw_matches")
          /\ eventsJob' = eventsJob /\ eventsRaced \subseteq eventsRaced'
          /\ eventsJob # Events!Idle => m \in eventsRaced'
        BY <1>4 DEF Events!BeginMatch
    <2>2. \A t \in Events!Tables : eventsCopies[t][m] = 0
        BY <1>0, <2>1, EventTables DEF Events!Stored, RawMatchFirst
    <2>3. Entries(eventsIngest'[2]) \subseteq Events!Tables /\ eventsIngest'[1] = m
        BY <2>1, RemaindersKnown
    <2> QED
        BY <1>4, <2>1, <2>2, <2>3 DEF NotThereYet
<1>5. CASE UNCHANGED eventsCopies /\ Events!CutShort
    BY <1>5 DEF NotThereYet, Events!CutShort
<1>6. CASE UNCHANGED eventsCopies /\ Events!BackfillChampionGuideEvents
    <2>1. /\ eventsJob'.step = "list" /\ eventsIngest' = eventsIngest
          /\ eventsRaced \subseteq eventsRaced'
          /\ eventsIngest # Events!NoMatch => eventsIngest[1] \in eventsRaced'
        BY <1>6 DEF Events!BackfillChampionGuideEvents
    <2> QED
        BY <1>6, <2>1 DEF NotThereYet
<1>7. CASE UNCHANGED eventsCopies /\ Events!ListSource
    <2>1. /\ eventsIngest' = eventsIngest /\ eventsRaced' = eventsRaced
          /\ eventsJob # Events!Idle
        BY <1>7 DEF Events!ListSource, Events!Idle
    <2>2. eventsJob' = Events!Idle \/ eventsJob'.step \in {"list", "missing"}
        BY <1>7, <2>1 DEF Events!ListSource, EventsStateOK, EventJobs
    <2> QED
        BY <1>7, <2>1, <2>2 DEF NotThereYet
<1>8. CASE UNCHANGED eventsCopies /\ Events!ForEachMissingBatch
    <2>1. /\ eventsIngest' = eventsIngest /\ eventsRaced' = eventsRaced
          /\ eventsJob # Events!Idle /\ eventsJob.step = "missing"
        BY <1>8 DEF Events!ForEachMissingBatch, Events!Idle
    <2>2. eventsJob \in EventJobs /\ eventsJob.sources # <<>>
        BY <2>1 DEF EventsStateOK
    <2> DEFINE batch == Events!Batch(eventsJob.left)
               target == Events!Destination(Head(eventsJob.sources))
               lacking == Events!MissingDestinationMatches(batch, target)
    <2>3. eventsJob' = IF eventsJob.left = {}
                       THEN [eventsJob EXCEPT !.step = "list", !.sources = Tail(@)]
                       ELSE [eventsJob EXCEPT !.left = @ \ batch, !.missing = lacking,
                                 !.step = IF lacking = {} THEN "missing" ELSE "process"]
        BY <1>8 DEF Events!ForEachMissingBatch
    <2>4. \A m \in lacking \intersect Games : eventsCopies[target][m] = 0
        <3>1. target \in Events!Tables
            BY <1>0, <2>2, SourcesKnown DEF EventJobs
        <3> QED
            BY <1>0, <3>1 DEF Events!MissingDestinationMatches, Events!Stored
    <2> HIDE DEF batch, lacking
    <2>5. eventsJob'.step = "process" =>
              eventsJob'.missing = lacking /\ eventsJob'.sources = eventsJob.sources
        BY <2>2, <2>3 DEF EventJobs
    <2>6. eventsJob'.step = "process" =>
              \A m \in eventsJob'.missing \intersect Games :
                  eventsCopies'[Events!Destination(Head(eventsJob'.sources))][m] = 0
        BY <1>8, <2>4, <2>5 DEF target
    <2> QED
        BY <1>8, <2>1, <2>2, <2>5, <2>6 DEF NotThereYet
<1>9. CASE UNCHANGED eventsCopies /\ Events!Abort
    BY <1>9 DEF NotThereYet, Events!Abort
<1>10. CASE UNCHANGED Events!vars
    BY <1>10 DEF NotThereYet, Events!vars
<1> QED
    BY <1>1, <1>2, <1>3, <1>4, <1>5, <1>6, <1>7, <1>8, <1>9, <1>10, OtherEventSteps

-----------------------------------------------------------------------------
(* No match is skipped *)

\* What is owed stays owed when nothing of the job changes but the rows.
LEMMA OwedStays ==
    ASSUME EventsStateOK, [Events!Next]_(Events!vars), NoneIsSkipped, eventsJob # Events!Idle,
           NEW s \in {"raw_timelines", "raw_matches"}
    PROVE  /\ ListedIn(s) \subseteq Events!Stored(s)'
           /\ Events!Stored(Events!Destination(s)) \subseteq Events!Stored(Events!Destination(s))'
<1>1. s \in Events!Tables /\ Events!Destination(s) \in Events!Tables
    BY DestinationsKnown, EventTables
<1> QED
    BY <1>1, StoredStays, Zenon DEF NoneIsSkipped

LEMMA StepNoneIsSkipped ==
    ASSUME Events!BackfillAssumption, EventsStateOK, RawMatchFirst, NoneIsSkipped,
           [Events!Next]_(Events!vars)
    PROVE  NoneIsSkipped'
<1>0. \A u \in Events!Tables, n \in Games : eventsCopies[u][n] \in Nat
    BY DEF EventsStateOK
<1>1. CASE UNCHANGED eventsJob
    <2> SUFFICES ASSUME eventsJob # Events!Idle, NEW s \in {"raw_timelines", "raw_matches"}
                 PROVE  /\ ListedIn(s) \subseteq Events!Stored(s)'
                        /\ \A m \in ListedIn(s) \intersect Eventful :
                              m \in Events!Stored(Events!Destination(s))' \/ Ahead(s, m)
        BY <1>1 DEF NoneIsSkipped, ListedIn, Ahead, SourceAhead
    <2> QED
        BY OwedStays DEF NoneIsSkipped
<1>2. CASE eventsJob' = Events!Idle
    BY <1>2 DEF NoneIsSkipped
<1>3. CASE Events!BackfillChampionGuideEvents
    <2> SUFFICES ASSUME NEW s \in {"raw_timelines", "raw_matches"}
                 PROVE  /\ ListedIn(s)' = Events!Stored(s) /\ eventsCopies' = eventsCopies
                        /\ \A m \in Events!Stored(s) : Ahead(s, m)'
        BY DEF NoneIsSkipped, Events!Stored
    <2> DEFINE list == Events!SetToSeq(Events!StoredPlatforms)
    <2>1. /\ eventsJob' = [step |-> "list", platforms |-> list, sources |-> Events!Sources,
                           left |-> {}, missing |-> {},
                           timelines |-> Events!Stored("raw_timelines"),
                           matches |-> Events!Stored("raw_matches")]
          /\ eventsCopies' = eventsCopies
        BY <1>3 DEF Events!BackfillChampionGuideEvents
    <2>2. \A p \in Events!StoredPlatforms : \E i \in 1..Len(list) : list[i] = p
        <3>1. Events!StoredPlatforms = {PlatformOf[m] : m \in Events!Stored("raw_matches")}
              /\ Events!Stored("raw_matches") \in SUBSET Games
            BY DEF Events!StoredPlatforms, Events!Stored
        <3> QED
            BY <3>1, EventsFinite, PlatformsListed, Zenon
    <2>3. Events!Stored(s) \subseteq Events!Stored("raw_matches")
        BY <1>0, EventTables DEF Events!Stored, RawMatchFirst
    <2>4. ASSUME NEW m \in Events!Stored(s)
          PROVE  Ahead(s, m)'
        <3>1. SourceAhead(s, m)'
            <4>1. \E j \in 1..Len(Events!Sources) : Events!Sources[j] = s
                BY SourcesKnown
            <4> QED
                BY <2>1, <4>1 DEF SourceAhead
        <3>2. PlatformOf[m] \in Events!StoredPlatforms
            BY <2>3 DEF Events!StoredPlatforms
        <3>3. PICK i \in 1..Len(list) : list[i] = PlatformOf[m]
            BY <2>2, <3>2
        <3> HIDE DEF list
        <3> QED
            BY <2>1, <3>1, <3>3 DEF Ahead
    <2> QED
        BY <2>1, <2>4 DEF ListedIn
<1>4. ASSUME UNCHANGED eventsCopies, eventsJob # Events!Idle, eventsJob' # Events!Idle,
             Events!ListSource \/ Events!ForEachMissingBatch,
             NEW s \in {"raw_timelines", "raw_matches"}, NEW m \in ListedIn(s), Ahead(s, m)
      PROVE  m \in Events!Stored(Events!Destination(s)) \/ Ahead(s, m)'
    <2>0. /\ eventsJob \in EventJobs /\ eventsJob.platforms \in Seq({PlatformOf[n] : n \in Games})
          /\ eventsJob.sources \in {Events!Sources, <<"raw_matches">>, <<>>}
          /\ eventsJob.step \in {"missing", "process"} => eventsJob.sources # <<>>
        BY <1>4 DEF EventsStateOK, EventJobs
    <2>1. m \in Events!Stored(s)
        BY <1>4 DEF NoneIsSkipped
    <2>2. PICK i \in 1..Len(eventsJob.platforms) :
              eventsJob.platforms[i] = PlatformOf[m] /\ (i = 1 => SourceAhead(s, m))
        BY <1>4 DEF Ahead
    <2>3. CASE Events!ListSource /\ eventsJob.platforms # <<>> /\ eventsJob.sources = <<>>
        <3>1. eventsJob' = [eventsJob EXCEPT !.platforms = Tail(@), !.sources = Events!Sources]
              /\ eventsJob.step = "list"
            BY <2>3 DEF Events!ListSource
        <3>2. /\ eventsJob'.platforms = Tail(eventsJob.platforms)
              /\ eventsJob'.sources = Events!Sources /\ eventsJob'.step = "list"
            BY <2>0, <3>1 DEF EventJobs
        <3>3. i # 1
            BY <2>2, <2>3, SourcesKnown DEF SourceAhead
        <3>4. /\ i - 1 \in 1..Len(Tail(eventsJob.platforms))
              /\ Tail(eventsJob.platforms)[i - 1] = PlatformOf[m]
            BY <2>0, <2>2, <2>3, <3>3
        <3>5. SourceAhead(s, m)'
            <4>1. \E j \in 1..Len(Events!Sources) : Events!Sources[j] = s
                BY SourcesKnown
            <4> QED
                BY <3>2, <4>1 DEF SourceAhead
        <3> QED
            BY <3>2, <3>4, <3>5 DEF Ahead
    <2>4. CASE Events!ListSource /\ eventsJob.platforms # <<>> /\ eventsJob.sources # <<>>
        <3>1. /\ eventsJob' = [eventsJob EXCEPT !.step = "missing",
                                  !.left = {n \in Events!Stored(Head(eventsJob.sources)) :
                                               PlatformOf[n] = Head(eventsJob.platforms)}]
              /\ eventsJob.step = "list"
            BY <2>4 DEF Events!ListSource
        <3>2. /\ eventsJob'.platforms = eventsJob.platforms /\ eventsJob'.step = "missing"
              /\ eventsJob'.sources = eventsJob.sources
              /\ eventsJob'.left = {n \in Events!Stored(Head(eventsJob.sources)) :
                                        PlatformOf[n] = Head(eventsJob.platforms)}
            BY <2>0, <3>1 DEF EventJobs
        <3>3. ASSUME i = 1
              PROVE  SourceAhead(s, m)'
            <4>1. PICK j \in 1..Len(eventsJob.sources) : eventsJob.sources[j] = s
                BY <2>2, <3>3 DEF SourceAhead
            <4>2. Head(eventsJob.platforms) = PlatformOf[m]
                BY <2>0, <2>2, <2>4, <3>3
            <4>3. j = 1 => Head(eventsJob.sources) = s
                BY <2>0, <2>4, <4>1, SourcesKnown
            <4>4. j = 1 => m \in eventsJob'.left
                BY <2>1, <3>2, <4>2, <4>3
            <4> QED
                BY <3>2, <4>1, <4>4 DEF SourceAhead
        <3> QED
            BY <2>2, <3>2, <3>3 DEF Ahead
    <2>5. CASE Events!ForEachMissingBatch
        <3> DEFINE batch == Events!Batch(eventsJob.left)
                   target == Events!Destination(Head(eventsJob.sources))
                   lacking == Events!MissingDestinationMatches(batch, target)
        <3>1. /\ eventsJob.step = "missing" /\ eventsJob.sources # <<>>
              /\ eventsJob' = IF eventsJob.left = {}
                              THEN [eventsJob EXCEPT !.step = "list", !.sources = Tail(@)]
                              ELSE [eventsJob EXCEPT !.left = @ \ batch, !.missing = lacking,
                                        !.step = IF lacking = {} THEN "missing" ELSE "process"]
            BY <2>0, <2>5 DEF Events!ForEachMissingBatch
        <3>2. lacking = batch \ Events!Stored(target)
            BY DEF Events!MissingDestinationMatches
        <3> HIDE DEF batch, lacking
        <3>3. CASE eventsJob.left = {}
            <4>1. /\ eventsJob'.platforms = eventsJob.platforms /\ eventsJob'.step = "list"
                  /\ eventsJob'.sources = Tail(eventsJob.sources)
                BY <2>0, <3>1, <3>3 DEF EventJobs
            <4>2. ASSUME i = 1
                  PROVE  SourceAhead(s, m)'
                <5>1. PICK j \in 1..Len(eventsJob.sources) : eventsJob.sources[j] = s /\ j # 1
                    BY <2>2, <3>1, <3>3, <4>2 DEF SourceAhead
                <5>2. /\ j - 1 \in 1..Len(Tail(eventsJob.sources))
                      /\ Tail(eventsJob.sources)[j - 1] = s
                    BY <2>0, <3>1, <5>1, SourcesKnown
                <5> QED
                    BY <4>1, <5>2 DEF SourceAhead
            <4> QED
                BY <2>2, <4>1, <4>2 DEF Ahead
        <3>4. CASE eventsJob.left # {}
            <4>1. /\ eventsJob'.platforms = eventsJob.platforms
                  /\ eventsJob'.sources = eventsJob.sources
                  /\ eventsJob'.left = eventsJob.left \ batch /\ eventsJob'.missing = lacking
                  /\ eventsJob'.step = IF lacking = {} THEN "missing" ELSE "process"
                BY <2>0, <3>1, <3>4 DEF EventJobs
            <4>2. ASSUME i = 1, m \notin Events!Stored(Events!Destination(s))
                  PROVE  SourceAhead(s, m)'
                <5>1. PICK j \in 1..Len(eventsJob.sources) :
                          eventsJob.sources[j] = s /\ (j = 1 => m \in eventsJob.left)
                    BY <2>2, <3>1, <4>2 DEF SourceAhead
                <5>2. j = 1 => Head(eventsJob.sources) = s
                    BY <2>0, <3>1, <5>1, SourcesKnown
                <5>3. j = 1 => m \in eventsJob'.left \/ (eventsJob'.step = "process" /\ m \in eventsJob'.missing)
                    BY <3>2, <4>1, <4>2, <5>1, <5>2
                <5> QED
                    BY <4>1, <5>1, <5>3 DEF SourceAhead
            <4> QED
                BY <2>2, <4>1, <4>2 DEF Ahead
        <3> QED
            BY <3>3, <3>4
    <2> QED
        BY <1>4, <2>3, <2>4, <2>5 DEF Events!ListSource
<1>5. ASSUME UNCHANGED eventsCopies, eventsJob # Events!Idle,
             Events!ListSource \/ Events!ForEachMissingBatch
      PROVE  NoneIsSkipped'
    <2>1. eventsJob \in EventJobs
        BY <1>5 DEF EventsStateOK
    <2>2. eventsJob' # Events!Idle => eventsJob'.timelines = eventsJob.timelines
                                      /\ eventsJob'.matches = eventsJob.matches
        BY <1>5, <2>1, Zenon DEF EventJobs, Events!ListSource, Events!ForEachMissingBatch
    <2>3. \A s \in {"raw_timelines", "raw_matches"} :
              eventsJob' # Events!Idle => ListedIn(s)' = ListedIn(s)
        BY <2>2 DEF ListedIn
    <2>4. \A t : Events!Stored(t)' = Events!Stored(t)
        BY <1>5 DEF Events!Stored
    <2> QED
        BY <1>4, <1>5, <2>3, <2>4 DEF NoneIsSkipped
<1>6. CASE Events!SkillEventsBatch \/ Events!BansBatch
    <2>1. PICK b \in {"raw_timelines", "raw_matches"} :
              /\ eventsJob # Events!Idle /\ eventsJob \in EventJobs /\ eventsJob.step = "process"
              /\ eventsJob.sources # <<>> /\ Head(eventsJob.sources) = b
              /\ Events!Destination(b) \in Events!Tables
              /\ \A u \in Events!Tables, n \in Games :
                    eventsCopies'[u][n] =
                       IF /\ u = Events!Destination(b)
                          /\ n \in eventsJob.missing /\ n \in Events!Stored(b) /\ n \in Eventful
                       THEN eventsCopies[u][n] + 1 ELSE eventsCopies[u][n]
              /\ eventsJob' = [eventsJob EXCEPT !.step = "missing", !.missing = {}]
        BY <1>6, BatchKnown
    <2>2. /\ eventsJob'.platforms = eventsJob.platforms /\ eventsJob'.sources = eventsJob.sources
          /\ eventsJob'.left = eventsJob.left /\ eventsJob'.step = "missing"
          /\ eventsJob'.timelines = eventsJob.timelines /\ eventsJob'.matches = eventsJob.matches
        BY <2>1 DEF EventJobs
    <2>3. ASSUME NEW s \in {"raw_timelines", "raw_matches"}, NEW m \in ListedIn(s) \intersect Eventful,
                 m \notin Events!Stored(Events!Destination(s))'
          PROVE  Ahead(s, m)'
        <3>1. m \in Events!Stored(s) /\ m \in Games
            BY <2>1 DEF NoneIsSkipped, Events!Stored
        <3>2. m \notin Events!Stored(Events!Destination(s))
            BY <2>1, <2>3, OwedStays
        <3>3. PICK i \in 1..Len(eventsJob.platforms) :
                  eventsJob.platforms[i] = PlatformOf[m] /\ (i = 1 => SourceAhead(s, m))
            BY <2>1, <2>3, <3>2 DEF NoneIsSkipped, Ahead
        <3>4. ASSUME i = 1
              PROVE  SourceAhead(s, m)'
            <4>1. PICK j \in 1..Len(eventsJob.sources) :
                      /\ eventsJob.sources[j] = s
                      /\ j = 1 => m \in eventsJob.left \/ m \in eventsJob.missing
                BY <2>1, <3>3, <3>4 DEF SourceAhead
            <4>2. j = 1 => b = s
                BY <2>1, <4>1, SourcesKnown DEF EventJobs
            <4>3. b = s => m \notin eventsJob.missing
                BY <1>0, <2>1, <2>3, <3>1 DEF Events!Stored
            <4> QED
                BY <2>2, <4>1, <4>2, <4>3 DEF SourceAhead
        <3> QED
            BY <2>2, <3>3, <3>4 DEF Ahead
    <2>4. \A s \in {"raw_timelines", "raw_matches"} : ListedIn(s)' = ListedIn(s)
        BY <2>2 DEF ListedIn
    <2>5. \A s \in {"raw_timelines", "raw_matches"} : ListedIn(s) \subseteq Events!Stored(s)'
        BY <2>1, OwedStays
    <2> QED
        BY <2>3, <2>4, <2>5 DEF NoneIsSkipped
<1> QED
    BY <1>1, <1>2, <1>3, <1>5, <1>6
       DEF Events!Next, Events!vars, Events!BeginMatch, Events!InsertTable, Events!CutShort,
           Events!Merge, Events!ListSource, Events!ForEachMissingBatch, Events!Abort, Events!Idle

-----------------------------------------------------------------------------
(* How many copies there can be *)

\* A table holds a match twice at most, and only once a backfill has begun.
CopiesFew ==
    /\ \A t \in Events!Tables, m \in Games : eventsCopies[t][m] <= 2
    /\ eventsRuns = 0 => /\ eventsJob = Events!Idle /\ eventsRaced = {}
                         /\ \A t \in Events!Tables, m \in Games : eventsCopies[t][m] <= 1
    /\ eventsIngest # Events!NoMatch =>
          \A t \in Entries(eventsIngest[2]) : eventsCopies[t][eventsIngest[1]] <= 1
    /\ (eventsJob # Events!Idle /\ eventsJob.step = "process") =>
          LET t == Events!Destination(Head(eventsJob.sources)) IN
          \A m \in eventsJob.missing \intersect Games :
              /\ eventsCopies[t][m] <= 1
              /\ (eventsIngest # Events!NoMatch /\ eventsIngest[1] = m
                    /\ t \in Entries(eventsIngest[2])) => eventsCopies[t][m] = 0

LEMMA StepCopiesFew ==
    ASSUME EventsStateOK, RawMatchFirst, NotThereYet, CopiesFew, [Events!Next]_(Events!vars)
    PROVE  CopiesFew'
<1>0. /\ \A u \in Events!Tables, n \in Games : eventsCopies[u][n] \in Nat
      /\ \A s \in {"raw_timelines", "raw_matches"} : Events!Destination(s) \in Events!Tables
      /\ eventsRuns \in Nat
    BY DestinationsKnown, EventTables DEF EventsStateOK
<1>00. ASSUME eventsJob # Events!Idle, eventsJob.step = "process"
       PROVE  Head(eventsJob.sources) \in {"raw_timelines", "raw_matches"}
    BY <1>00, SourcesKnown DEF EventsStateOK, EventJobs
<1>01. eventsIngest # Events!NoMatch =>
           eventsIngest[1] \in Games /\ Entries(eventsIngest[2]) \subseteq Events!Tables
    BY RemaindersKnown DEF EventsStateOK
<1>1. CASE Events!InsertTable
    <2> DEFINE m == eventsIngest[1]
               h == Head(eventsIngest[2])
               seq == eventsIngest[2]
    <2>0. UNCHANGED <<eventsJob, eventsRaced, eventsRuns>>
        BY <1>1 DEF Events!InsertTable
    <2>1. /\ eventsIngest # Events!NoMatch
          /\ m \in Games /\ h \in Events!Tables /\ h \in Entries(seq)
          /\ \A u \in Events!Tables, n \in Games :
                eventsCopies'[u][n] =
                    IF /\ u = h /\ n = m
                       /\ u \in {"raw_matches", "raw_timelines"} \/ n \in Eventful
                    THEN eventsCopies[u][n] + 1 ELSE eventsCopies[u][n]
          /\ eventsIngest' # Events!NoMatch =>
                eventsIngest'[1] = m /\ Entries(eventsIngest'[2]) = Entries(seq) \ {h}
          /\ Entries(seq) \subseteq Events!Tables
        BY <1>1, InsertKnown
    <2>2. eventsCopies[h][m] <= 1 /\ (eventsCopies[h][m] = 0 \/ m \in eventsRaced)
        BY <2>1 DEF CopiesFew, NotThereYet
    <2>3. \A t \in Entries(seq) : eventsCopies[t][m] <= 1
        BY <2>1 DEF CopiesFew
    <2>9. (eventsJob # Events!Idle /\ eventsJob.step = "process") =>
              \A n \in eventsJob.missing \intersect Games :
                  LET t == Events!Destination(Head(eventsJob.sources))
                  IN  /\ eventsCopies[t][n] <= 1
                      /\ (m = n /\ t \in Entries(seq)) => eventsCopies[t][n] = 0
        BY <2>1 DEF CopiesFew
    <2> HIDE DEF m, h, seq
    <2>4. \A t \in Events!Tables, n \in Games :
              eventsCopies'[t][n] <= 2 /\ (eventsRuns = 0 => eventsCopies'[t][n] <= 1)
        BY <1>0, <2>1, <2>2 DEF CopiesFew
    <2>5. eventsIngest' # Events!NoMatch =>
              \A t \in Entries(eventsIngest'[2]) : eventsCopies'[t][eventsIngest'[1]] <= 1
        BY <2>1, <2>3
    <2>6. ASSUME eventsJob # Events!Idle, eventsJob.step = "process",
                 NEW n \in eventsJob.missing \intersect Games
          PROVE  LET t == Events!Destination(Head(eventsJob.sources))
                 IN  /\ eventsCopies'[t][n] <= 1
                     /\ (eventsIngest' # Events!NoMatch /\ eventsIngest'[1] = n
                           /\ t \in Entries(eventsIngest'[2])) => eventsCopies'[t][n] = 0
        <3> DEFINE t == Events!Destination(Head(eventsJob.sources))
        <3>1. t \in Events!Tables
            BY <1>0, <1>00, <2>6
        <3>2. eventsCopies[t][n] <= 1 /\ ((m = n /\ t \in Entries(seq)) => eventsCopies[t][n] = 0)
            BY <2>6, <2>9
        <3> HIDE DEF t
        <3>3. /\ eventsCopies'[t][n] <= 1
              /\ (eventsIngest' # Events!NoMatch /\ eventsIngest'[1] = n
                    /\ t \in Entries(eventsIngest'[2])) => eventsCopies'[t][n] = 0
            BY <1>0, <2>1, <3>1, <3>2
        <3> QED
            BY <3>3 DEF t
    <2> QED
        BY <2>0, <2>4, <2>5, <2>6 DEF CopiesFew
<1>2. ASSUME NEW t \in Events!Tables, Events!Merge(t)
      PROVE  CopiesFew'
    <2>1. /\ \A u \in Events!Tables, n \in Games :
                /\ eventsCopies'[u][n] \in Nat /\ eventsCopies'[u][n] <= eventsCopies[u][n]
                /\ eventsCopies[u][n] <= 2 => eventsCopies'[u][n] <= 2
                /\ eventsCopies[u][n] <= 1 => eventsCopies'[u][n] <= 1
                /\ eventsCopies[u][n] = 0 => eventsCopies'[u][n] = 0
          /\ UNCHANGED <<eventsIngest, eventsJob, eventsRaced, eventsRuns>>
        BY <1>0, <1>2, MergeKnown
    <2> QED
        BY <1>0, <1>00, <1>01, <2>1 DEF CopiesFew
<1>3. CASE Events!SkillEventsBatch \/ Events!BansBatch
    <2>1. PICK s \in {"raw_timelines", "raw_matches"} :
              /\ eventsJob # Events!Idle /\ eventsJob \in EventJobs /\ eventsJob.step = "process"
              /\ Head(eventsJob.sources) = s
              /\ \A u \in Events!Tables, n \in Games :
                    eventsCopies'[u][n] =
                       IF /\ u = Events!Destination(s)
                          /\ n \in eventsJob.missing /\ n \in Events!Stored(s) /\ n \in Eventful
                       THEN eventsCopies[u][n] + 1 ELSE eventsCopies[u][n]
              /\ eventsJob' = [eventsJob EXCEPT !.step = "missing", !.missing = {}]
              /\ UNCHANGED <<eventsIngest, eventsRaced, eventsRuns>>
        BY <1>3, BatchKnown
    <2>2. eventsJob'.step = "missing" /\ eventsRuns # 0
        BY <2>1 DEF EventJobs, CopiesFew
    <2> DEFINE t == Events!Destination(s)
    <2>3. \A n \in eventsJob.missing \intersect Games :
              /\ eventsCopies[t][n] <= 1
              /\ (eventsIngest # Events!NoMatch /\ eventsIngest[1] = n
                    /\ t \in Entries(eventsIngest[2])) => eventsCopies[t][n] = 0
        BY <2>1 DEF CopiesFew
    <2> HIDE DEF t
    <2>4. \A u \in Events!Tables, n \in Games : eventsCopies'[u][n] <= 2
        BY <1>0, <2>1, <2>3 DEF CopiesFew, t
    <2>5. eventsIngest # Events!NoMatch =>
              \A u \in Entries(eventsIngest[2]) : eventsCopies'[u][eventsIngest[1]] <= 1
        BY <1>0, <1>01, <2>1, <2>3 DEF CopiesFew, t
    <2> QED
        BY <2>1, <2>2, <2>4, <2>5 DEF CopiesFew
<1>4. ASSUME UNCHANGED eventsCopies, NEW m \in Games, Events!BeginMatch(m)
      PROVE  CopiesFew'
    <2>1. /\ eventsIngest' = <<m, Events!IngestOrder>> /\ m \notin Events!Stored("raw_matches")
          /\ UNCHANGED <<eventsJob, eventsRuns>>
          /\ eventsJob = Events!Idle => eventsRaced' = eventsRaced
        BY <1>4 DEF Events!BeginMatch
    <2>2. \A t \in Events!Tables : eventsCopies[t][m] = 0
        BY <1>0, <2>1, EventTables DEF Events!Stored, RawMatchFirst
    <2>3. Entries(eventsIngest'[2]) \subseteq Events!Tables /\ eventsIngest'[1] = m
        BY <2>1, RemaindersKnown
    <2>4. \A t \in Events!Tables : eventsCopies'[t][eventsIngest'[1]] = 0
        BY <1>4, <2>2, <2>3
    <2> QED
        BY <1>0, <1>00, <1>4, <2>1, <2>3, <2>4 DEF CopiesFew
<1>5. CASE UNCHANGED eventsCopies /\ Events!CutShort
    BY <1>5 DEF CopiesFew, Events!CutShort
<1>6. CASE UNCHANGED eventsCopies /\ Events!BackfillChampionGuideEvents
    <2>1. eventsJob'.step = "list" /\ eventsIngest' = eventsIngest /\ eventsRuns' # 0
        BY <1>0, <1>6 DEF Events!BackfillChampionGuideEvents
    <2> QED
        BY <1>6, <2>1 DEF CopiesFew
<1>7. CASE UNCHANGED eventsCopies /\ (Events!ListSource \/ Events!ForEachMissingBatch)
    <2>1. /\ UNCHANGED <<eventsIngest, eventsRaced, eventsRuns>> /\ eventsJob # Events!Idle
          /\ eventsJob \in EventJobs
        BY <1>7 DEF Events!ListSource, Events!ForEachMissingBatch, Events!Idle, EventsStateOK
    <2>2. eventsRuns # 0
        BY <2>1 DEF CopiesFew
    <2>3. ASSUME eventsJob' # Events!Idle, eventsJob'.step = "process"
          PROVE  \A m \in eventsJob'.missing \intersect Games :
                     eventsCopies'[Events!Destination(Head(eventsJob'.sources))][m] = 0
        <3> DEFINE batch == Events!Batch(eventsJob.left)
                   target == Events!Destination(Head(eventsJob.sources))
                   lacking == Events!MissingDestinationMatches(batch, target)
        <3>1. eventsJob' = IF eventsJob.left = {}
                           THEN [eventsJob EXCEPT !.step = "list", !.sources = Tail(@)]
                           ELSE [eventsJob EXCEPT !.left = @ \ batch, !.missing = lacking,
                                     !.step = IF lacking = {} THEN "missing" ELSE "process"]
            <4>1. ~ Events!ListSource
                BY <2>1, <2>3, Zenon DEF Events!ListSource, EventJobs
            <4> QED
                BY <1>7, <4>1 DEF Events!ForEachMissingBatch
        <3>0. eventsJob.sources # <<>>
                  /\ eventsJob.sources \in {Events!Sources, <<"raw_matches">>, <<>>}
            <4>1. ~ Events!ListSource
                BY <2>1, <2>3, Zenon DEF Events!ListSource, EventJobs
            <4> QED
                BY <1>7, <2>1, <4>1 DEF Events!ForEachMissingBatch, EventJobs, EventsStateOK
        <3>2. \A m \in lacking \intersect Games : eventsCopies[target][m] = 0
            <4>1. target \in Events!Tables
                BY <1>0, <3>0, SourcesKnown
            <4> QED
                BY <1>0, <4>1 DEF Events!MissingDestinationMatches, Events!Stored
        <3> HIDE DEF batch, lacking
        <3>3. eventsJob'.missing = lacking /\ eventsJob'.sources = eventsJob.sources
            BY <2>1, <2>3, <3>1 DEF EventJobs
        <3> QED
            BY <1>7, <3>2, <3>3 DEF target
    <2>4. (eventsJob' # Events!Idle /\ eventsJob'.step = "process") =>
              \A m \in eventsJob'.missing \intersect Games :
                  eventsCopies'[Events!Destination(Head(eventsJob'.sources))][m] <= 1
        BY <2>3
    <2> QED
        BY <1>7, <2>1, <2>2, <2>3, <2>4 DEF CopiesFew
<1>8. CASE UNCHANGED eventsCopies /\ Events!Abort
    BY <1>8 DEF CopiesFew, Events!Abort
<1>9. CASE UNCHANGED Events!vars
    BY <1>9 DEF CopiesFew, Events!vars
<1> QED
    BY <1>1, <1>2, <1>3, <1>4, <1>5, <1>6, <1>7, <1>8, <1>9, OtherEventSteps

-----------------------------------------------------------------------------

EventsIInv == EventsStateOK /\ RawMatchFirst /\ NotThereYet /\ NoneIsSkipped /\ CopiesFew

LEMMA EventsInvariance ==
    ASSUME Events!BackfillAssumption
    PROVE  Events!Spec => []EventsIInv
<1>1. ASSUME Events!Init
      PROVE  EventsIInv
    <2>1. /\ eventsCopies = [t \in Events!Tables |-> [m \in Games |-> 0]]
          /\ eventsIngest = Events!NoMatch /\ eventsCrashes = 0 /\ eventsRuns = 0
          /\ eventsJob = Events!Idle /\ eventsRaced = {}
        BY <1>1 DEF Events!Init
    <2>2. EventsStateOK
        BY <2>1, EventsFinite DEF EventsStateOK
    <2>3. \A t \in Events!Tables, m \in Games : eventsCopies[t][m] = 0
        BY <2>1
    <2> QED
        BY <2>1, <2>2, <2>3, EventTables
           DEF EventsIInv, RawMatchFirst, NotThereYet, NoneIsSkipped, CopiesFew
<1>2. EventsIInv /\ [Events!Next]_(Events!vars) => EventsIInv'
    BY StepEventsState, StepRawMatchFirst, StepNotThereYet, StepNoneIsSkipped, StepCopiesFew
       DEF EventsIInv
<1> QED
    BY <1>1, <1>2, PTL DEF Events!Spec

\* A finished backfill has skipped no match, and no match gets its rows twice
\* unless a collector and a backfill meet in it.
LEMMA EventsComplete ==
    ASSUME Events!BackfillAssumption
    PROVE  Events!Spec => Events!EventsBackfilledOnce
<1>1. ASSUME EventsIInv, Events!Done
      PROVE  /\ eventsJob.timelines \intersect Eventful \subseteq Events!Stored("timeline_skill_events")
             /\ eventsJob.matches \intersect Eventful \subseteq Events!Stored("champion_bans")
    <2>1. eventsJob # Events!Idle /\ eventsJob.platforms = <<>>
        BY <1>1 DEF Events!Done
    <2>2. \A s, m : ~ Ahead(s, m)
        BY <2>1, SourcesKnown DEF Ahead
    <2>3. \A s \in {"raw_timelines", "raw_matches"} :
              ListedIn(s) \intersect Eventful \subseteq Events!Stored(Events!Destination(s))
        BY <1>1, <2>1, <2>2 DEF EventsIInv, NoneIsSkipped
    <2>4. /\ ListedIn("raw_timelines") \intersect Eventful \subseteq Events!Stored("timeline_skill_events")
          /\ ListedIn("raw_matches") \intersect Eventful \subseteq Events!Stored("champion_bans")
        BY <2>3, DestinationsKnown
    <2> QED
        BY <2>4 DEF ListedIn
<1>2. ASSUME EventsIInv, Events!Next, NEW t \in Events!Tables, NEW m \in Games,
             eventsCopies[t][m] <= 1, eventsCopies'[t][m] > 1
      PROVE  m \in eventsRaced
    <2>1. eventsCopies[t][m] \in Nat /\ EventsStateOK /\ NotThereYet
        BY <1>2 DEF EventsIInv, EventsStateOK
    <2>2. ASSUME NEW u \in Events!Tables, Events!Merge(u)
          PROVE  FALSE
        BY <1>2, <2>1, <2>2, MergeKnown
    <2>3. CASE Events!InsertTable
        <3>1. eventsCopies[t][m] # 0 /\ t = Head(eventsIngest[2]) /\ m = eventsIngest[1]
            BY <1>2, <2>1, <2>3, InsertKnown
        <3> QED
            BY <2>1, <2>3, <3>1, InsertKnown DEF NotThereYet
    <2>4. CASE Events!SkillEventsBatch \/ Events!BansBatch
        <3>1. PICK s \in {"raw_timelines", "raw_matches"} :
                  /\ eventsJob # Events!Idle /\ eventsJob.step = "process"
                  /\ Head(eventsJob.sources) = s
                  /\ \A u \in Events!Tables, n \in Games :
                        eventsCopies'[u][n] =
                           IF /\ u = Events!Destination(s)
                              /\ n \in eventsJob.missing /\ n \in Events!Stored(s)
                                     /\ n \in Eventful
                           THEN eventsCopies[u][n] + 1 ELSE eventsCopies[u][n]
            BY <2>1, <2>4, BatchKnown
        <3>2. eventsCopies[t][m] # 0 /\ t = Events!Destination(s) /\ m \in eventsJob.missing
            BY <1>2, <2>1, <3>1
        <3> QED
            BY <2>1, <3>1, <3>2 DEF NotThereYet
    <2> QED
        BY <1>2, <2>1, <2>2, <2>3, <2>4, OtherEventSteps
<1>3. EventsIInv /\ [Events!Next]_(Events!vars) =>
        /\ [Events!Done =>
              /\ eventsJob.timelines \intersect Eventful \subseteq Events!Stored("timeline_skill_events")
              /\ eventsJob.matches \intersect Eventful \subseteq Events!Stored("champion_bans")
           ]_(Events!vars)
        /\ [\A t \in Events!Tables, m \in Games :
              (eventsCopies[t][m] <= 1 /\ eventsCopies'[t][m] > 1) =>
                  m \in eventsRaced]_(Events!vars)
    BY <1>1, <1>2
<1> QED
    BY <1>3, EventsInvariance, PTL DEF Events!Spec, Events!EventsBackfilledOnce

\* The backfill's state is of its type.
LEMMA EventsTypeCorrect ==
    ASSUME Events!BackfillAssumption
    PROVE  Events!Spec => []Events!TypeOK
<1>1. ASSUME EventsIInv
      PROVE  Events!TypeOK
    <2>1. \A t \in Events!Tables, m \in Games : eventsCopies[t][m] \in 0..(1 + MaxRuns)
        <3>1. ASSUME NEW t \in Events!Tables, NEW m \in Games
              PROVE  eventsCopies[t][m] \in 0..(1 + MaxRuns)
            <4>1. /\ eventsCopies[t][m] \in Nat /\ eventsCopies[t][m] <= 2
                  /\ eventsRuns = 0 => eventsCopies[t][m] <= 1
                  /\ eventsRuns \in 0..MaxRuns
                BY <1>1 DEF EventsIInv, EventsStateOK, CopiesFew
            <4> QED
                BY <4>1, EventsFinite
        <3> QED
            BY <3>1
    <2> QED
        BY <1>1, <2>1 DEF EventsIInv, EventsStateOK, RawMatchFirst, Events!TypeOK
<1> QED
    BY <1>1, EventsInvariance, PTL

-----------------------------------------------------------------------------
(* The pages the API waits for are built, for any patches and any number of *)
(* restarts of the processes                                                *)

Pair == Nat \X Nat

LEMMA BeforeOrders ==
    ASSUME NEW p \in Pair, NEW q \in Pair, NEW r \in Pair
    PROVE  /\ ~ Prewarm!Before(p, p)
           /\ Prewarm!Before(p, q) => ~ Prewarm!Before(q, p)
           /\ (Prewarm!Before(p, q) /\ Prewarm!Before(q, r)) => Prewarm!Before(p, r)
           /\ p # q => (Prewarm!Before(p, q) \/ Prewarm!Before(q, p))
<1>1. /\ p[1] \in Nat /\ p[2] \in Nat /\ q[1] \in Nat /\ q[2] \in Nat
      /\ r[1] \in Nat /\ r[2] \in Nat
      /\ p = <<p[1], p[2]>> /\ q = <<q[1], q[2]>>
    BY DEF Pair
<1>2. p # q => p[1] # q[1] \/ p[2] # q[2]
    BY <1>1
<1> QED
    BY <1>1, <1>2 DEF Prewarm!Before

\* Newest first: every patch there is, and no other.
LEMMA NewestFirstLists ==
    ASSUME NEW S \in SUBSET Pair, IsFiniteSet(S)
    PROVE  /\ Prewarm!NewestFirst(S) \in Seq(S)
           /\ Prewarm!ToSet(Prewarm!NewestFirst(S)) = S
<1> DEFINE Newer(p) == {q \in S : Prewarm!Before(p, q)}
           n == Cardinality(S)
<1>1. n \in Nat
    BY FS_CardinalityType
<1>2. ASSUME NEW p \in S
      PROVE  /\ IsFiniteSet(Newer(p)) /\ Cardinality(Newer(p)) \in Nat
             /\ Cardinality(Newer(p)) + 1 \in 1..n
    <2>1. Newer(p) \subseteq S \ {p}
        BY BeforeOrders
    <2>2. IsFiniteSet(S \ {p}) /\ Cardinality(S \ {p}) = n - 1
        BY FS_RemoveElement
    <2>3. IsFiniteSet(Newer(p)) /\ Cardinality(Newer(p)) <= n - 1
        BY <2>1, <2>2, FS_Subset
    <2>4. Cardinality(Newer(p)) \in Nat
        BY <2>3, FS_CardinalityType
    <2> QED
        BY <1>1, <2>3, <2>4
<1>3. ASSUME NEW p \in S, NEW q \in S, Prewarm!Before(p, q)
      PROVE  Cardinality(Newer(q)) < Cardinality(Newer(p))
    <2>1. q \in Newer(p)
        BY <1>3
    <2>2. Newer(q) \subseteq Newer(p) \ {q}
        BY <1>3, BeforeOrders
    <2>3. /\ IsFiniteSet(Newer(p) \ {q})
          /\ Cardinality(Newer(p) \ {q}) = Cardinality(Newer(p)) - 1
        BY <1>2, <2>1, FS_RemoveElement, Zenon
    <2>4. Cardinality(Newer(q)) <= Cardinality(Newer(p)) - 1
        BY <2>2, <2>3, FS_Subset
    <2>5. Cardinality(Newer(q)) \in Nat /\ Cardinality(Newer(p)) \in Nat
        BY <1>2, Zenon
    <2> HIDE DEF Newer
    <2> QED
        BY <2>4, <2>5
<1> HIDE DEF Newer
<1> DEFINE rank == [p \in S |-> Cardinality(Newer(p)) + 1]
<1>4. /\ rank \in [S -> 1..n]
      /\ \A p, q \in S : Prewarm!Before(p, q) => rank[q] < rank[p]
    BY <1>2, <1>3
<1> HIDE DEF n, rank
<1>5. \A p, q \in S : rank[p] = rank[q] => p = q
    BY <1>1, <1>4, BeforeOrders
<1>6. IsFiniteSet(1..n) /\ Cardinality(1..n) = n
    BY <1>1, FS_Interval
<1>7. rank \in Surjection(S, 1..n)
    <2>1. rank \in Injection(S, 1..n)
        BY <1>4, <1>5 DEF Injection, IsInjective
    <2> QED
        BY <1>6, <2>1, FS_Injection DEF n
<1> DEFINE f == [i \in 1..n |-> CHOOSE p \in S : rank[p] = i]
<1>8. \A i \in 1..n : f[i] \in S /\ rank[f[i]] = i
    BY <1>7 DEF Surjection
<1> HIDE DEF f
<1>9. f \in [1..n -> S] /\ \A i, j \in 1..n : i # j => f[i] # f[j]
    BY <1>8 DEF f
<1>10. Prewarm!SetToSeqs(S) =
          {s \in [1..n -> S] : \A i, j \in 1..n : i # j => s[i] # s[j]}
    BY DEF Prewarm!SetToSeqs, Prewarm!Cardinality, Cardinality, n
<1>11. \A i, j \in DOMAIN f : i < j => Prewarm!Before(f[j], f[i])
    <2>1. SUFFICES ASSUME NEW i \in 1..n, NEW j \in 1..n, i < j
                   PROVE  Prewarm!Before(f[j], f[i])
        BY <1>9
    <2>2. rank[f[i]] < rank[f[j]] /\ rank[f[i]] \in Nat /\ rank[f[j]] \in Nat
        BY <1>1, <1>8, <2>1
    <2>3. f[i] # f[j] /\ ~ Prewarm!Before(f[i], f[j])
        BY <1>4, <1>8, <2>2
    <2> QED
        BY <1>8, <2>3, BeforeOrders
<1> DEFINE s == Prewarm!NewestFirst(S)
<1>12. s \in Prewarm!SetToSeqs(S)
    BY <1>9, <1>10, <1>11, Zenon DEF Prewarm!NewestFirst
<1> HIDE DEF s
<1>13. s \in [1..n -> S] /\ \A i, j \in 1..n : i # j => s[i] # s[j]
    BY <1>10, <1>12
<1>14. s \in Surjection(1..n, S)
    <2>1. s \in Injection(1..n, S)
        BY <1>13 DEF Injection, IsInjective
    <2> QED
        BY <1>6, <2>1, FS_Injection DEF n
<1>15. Prewarm!ToSet(s) = S
    BY <1>13, <1>14 DEF Prewarm!ToSet, Surjection
<1>16. s \in Seq(S)
    BY <1>1, <1>13
<1> QED
    BY <1>15, <1>16 DEF s

LEMMA PatchesKnown ==
    ASSUME Prewarm!PrewarmAssumption
    PROVE  /\ IsFiniteSet(Prewarm!Patches) /\ Prewarm!Patches \subseteq Pair
           /\ \A p \in Prewarm!Patches : p[2] > 0
           /\ \A i \in 2..Len(Seasons) : Prewarm!Before(Seasons[i - 1], Seasons[i])
           /\ Seasons[Archive + 1] \in Prewarm!Patches
           /\ \A i \in 1..Len(Seasons) : Seasons[i] \in Prewarm!Patches
           /\ Mature \in Nat /\ Retention \in Int
<1>1. /\ Seasons \in Seq(Nat \X (Nat \ {0})) /\ Archive \in 0..(Len(Seasons) - 1)
      /\ \A i, j \in DOMAIN Seasons : i < j => Prewarm!Before(Seasons[i], Seasons[j])
      /\ Mature \in Nat /\ Retention \in Int
    BY DEF Prewarm!PrewarmAssumption
<1> DEFINE n == Len(Seasons)
<1>2. n \in Nat /\ Seasons \in [1..n -> Nat \X (Nat \ {0})]
    BY <1>1
<1> HIDE DEF n
<1>3. Prewarm!Patches = {Seasons[i] : i \in 1..n}
    BY <1>2 DEF Prewarm!Patches, Prewarm!ToSet
<1>4. IsFiniteSet(Prewarm!Patches)
    <2>1. IsFiniteSet(1..n)
        BY <1>2, FS_Interval
    <2>2. Seasons \in Surjection(1..n, Prewarm!Patches)
        BY <1>2, <1>3 DEF Surjection
    <2> QED
        BY <2>1, <2>2, FS_Surjection
<1>5. Prewarm!Patches \subseteq Pair /\ \A p \in Prewarm!Patches : p[2] > 0
    BY <1>2, <1>3 DEF Pair
<1>6. \A i \in 2..n : Prewarm!Before(Seasons[i - 1], Seasons[i])
    BY <1>1, <1>2
<1>7. Archive + 1 \in 1..n
    BY <1>1, <1>2 DEF n
<1> QED
    BY <1>1, <1>3, <1>4, <1>5, <1>6, <1>7 DEF n

Older == Prewarm!Previous(prewarmCurrent, prewarmGames)

WorkerIs(w) ==
    \E t, a : \E s \in {"startup", "archived", "lanes"},
                 k \in BOOLEAN, f \in BOOLEAN, g \in BOOLEAN :
        w = [step |-> s, known |-> k, failed |-> f, gaps |-> g, todo |-> t, archived |-> a]

ListIs(l) ==
    \E h : \E q \in Seq(Pair), k \in BOOLEAN, r \in BOOLEAN :
        l = [patches |-> q, hydrated |-> h, known |-> k, ready |-> r]

PrewarmStateOK ==
    /\ prewarmCurrent \in Prewarm!Patches
    /\ prewarmGames \in [Prewarm!Patches -> 0..Mature]
    /\ prewarmWorker = Prewarm!Down \/ WorkerIs(prewarmWorker)
    /\ prewarmPrewarmed \subseteq Pair
    /\ \A p \in prewarmPrewarmed : ~ Prewarm!Before(prewarmCurrent, p)
    /\ prewarmApi = Prewarm!NoList \/ (ListIs(prewarmApi) /\ prewarmApi.patches # <<>>)
    /\ prewarmApi.hydrated \subseteq Prewarm!ToSet(prewarmApi.patches)

\* The API's list holds nothing but the window and older patches with games.
ListIsOlder ==
    Prewarm!ToSet(prewarmApi.patches) \subseteq Older \union Prewarm!Window

\* The worker's list of the archive holds every older patch the window does
\* not, and what is off the list of this start has been built.
WorkerCovers ==
    prewarmWorker # Prewarm!Down =>
        /\ prewarmWorker.archived \in Seq(Pair)
        /\ \A p \in Prewarm!ToSet(prewarmWorker.archived) : Prewarm!Before(p, prewarmCurrent)
        /\ prewarmWorker.known =>
              Older \subseteq Prewarm!ToSet(prewarmWorker.archived) \union Prewarm!Window
        /\ prewarmWorker.step = "archived" =>
              /\ prewarmWorker.todo \in Seq(Pair)
              /\ Prewarm!ToSet(prewarmWorker.todo) \subseteq Prewarm!ToSet(prewarmWorker.archived)
              /\ ~ prewarmWorker.failed =>
                    Prewarm!ToSet(prewarmWorker.archived) \subseteq
                        Prewarm!ToSet(prewarmWorker.todo) \union prewarmPrewarmed
        /\ (prewarmWorker.step = "lanes" /\ ~ prewarmWorker.failed) =>
              Prewarm!ToSet(prewarmWorker.archived) \subseteq prewarmPrewarmed

PrewarmIInv == PrewarmStateOK /\ ListIsOlder /\ WorkerCovers

-----------------------------------------------------------------------------

LEMMA WindowKnown ==
    ASSUME Prewarm!PrewarmAssumption, prewarmCurrent \in Prewarm!Patches
    PROVE  /\ prewarmCurrent \in Prewarm!Window /\ Prewarm!Window \subseteq Pair
           /\ \A p \in Prewarm!Window : ~ Prewarm!Before(prewarmCurrent, p)
<1> DEFINE c == prewarmCurrent
           n == IF c[2] < Prewarm!Count(Retention) THEN c[2] ELSE Prewarm!Count(Retention)
<1>1. c[1] \in Nat /\ c[2] \in Nat \ {0} /\ c = <<c[1], c[2]>>
    BY PatchesKnown DEF Pair
<1>2. Prewarm!Count(Retention) \in Nat \ {0}
    BY PatchesKnown DEF Prewarm!Count
<1>3. n \in Nat \ {0} /\ n <= c[2]
    BY <1>1, <1>2
<1>4. Prewarm!Window = {<<c[1], c[2] - i + 1>> : i \in 1..n}
    BY Zenon DEF Prewarm!Window, Prewarm!PatchWindow, Prewarm!ToSet
<1> HIDE DEF c, n
<1>5. \A p \in Prewarm!Window : p \in Pair /\ p[1] = c[1] /\ p[2] <= c[2]
    BY <1>1, <1>3, <1>4 DEF Pair
<1>6. <<c[1], c[2]>> \in Prewarm!Window
    <2>1. 1 \in 1..n /\ c[2] - 1 + 1 = c[2]
        BY <1>1, <1>3
    <2> QED
        BY <1>4, <2>1
<1>7. \A p \in Prewarm!Window : ~ Prewarm!Before(c, p)
    BY <1>1, <1>5 DEF Prewarm!Before, Pair
<1> QED
    BY <1>1, <1>5, <1>6, <1>7 DEF c

\* What the statistics a process got name as older is what is older.
LEMMA PreviousKnown ==
    ASSUME Prewarm!PrewarmAssumption, PrewarmStateOK, NEW known \in BOOLEAN
    PROVE  LET older == Prewarm!Previous(prewarmCurrent, Prewarm!Stats(known)) IN
           /\ older = IF known THEN Older ELSE {}
           /\ older \in SUBSET Pair /\ IsFiniteSet(older)
           /\ \A p \in older : Prewarm!Before(p, prewarmCurrent)
<1> DEFINE older == Prewarm!Previous(prewarmCurrent, Prewarm!Stats(known))
<1>1. older = IF known THEN Older ELSE {}
    BY DEF Prewarm!Previous, Prewarm!Stats, Older
<1>2. Older \subseteq Prewarm!Patches /\ \A p \in Older : Prewarm!Before(p, prewarmCurrent)
    BY DEF Older, Prewarm!Previous, PrewarmStateOK
<1>3. older \subseteq Prewarm!Patches
    BY <1>1, <1>2
<1>4. IsFiniteSet(older) /\ older \in SUBSET Pair
    BY <1>3, PatchesKnown, FS_Subset
<1> QED
    BY <1>1, <1>2, <1>4

LEMMA FirstNewest ==
    ASSUME NEW S \in SUBSET Pair, IsFiniteSet(S)
    PROVE  Prewarm!Newest(S) = Prewarm!NoPatch \/ Prewarm!Newest(S) \in S
<1>1. Prewarm!NewestFirst(S) \in Seq(S) /\ Prewarm!ToSet(Prewarm!NewestFirst(S)) = S
    BY NewestFirstLists
<1>2. S # {} => Prewarm!NewestFirst(S) # <<>>
    BY <1>1 DEF Prewarm!ToSet
<1> QED
    BY <1>1, <1>2 DEF Prewarm!Newest

LEMMA Joined ==
    ASSUME NEW T, NEW p \in T, NEW q \in Seq(T)
    PROVE  /\ <<p>> \o q \in Seq(T) /\ <<p>> \o q # <<>>
           /\ Prewarm!ToSet(<<p>> \o q) = {p} \union Prewarm!ToSet(q)
<1> DEFINE s == <<p>> \o q
<1>1. <<p>> \in Seq(T) /\ Len(<<p>>) = 1 /\ <<p>>[1] = p
    OBVIOUS
<1>2. /\ s \in Seq(T) /\ Len(s) = Len(q) + 1 /\ s[1] = p
      /\ \A i \in 1..Len(q) : s[i + 1] = q[i]
    BY <1>1
<1> HIDE DEF s
<1>3. \A i \in 1..Len(s) : i = 1 \/ (i - 1 \in 1..Len(q) /\ s[i] = q[i - 1])
    BY <1>2
<1>4. Prewarm!ToSet(s) = {p} \union Prewarm!ToSet(q)
    <2>1. DOMAIN s = 1..Len(s) /\ DOMAIN q = 1..Len(q) /\ Len(q) \in Nat
        BY <1>2
    <2>2. Prewarm!ToSet(s) \subseteq {p} \union Prewarm!ToSet(q)
        BY <1>2, <1>3, <2>1 DEF Prewarm!ToSet
    <2>3. p \in Prewarm!ToSet(s)
        BY <1>2, <2>1 DEF Prewarm!ToSet
    <2>4. Prewarm!ToSet(q) \subseteq Prewarm!ToSet(s)
        <3>1. \A i \in 1..Len(q) : i + 1 \in 1..Len(s)
            BY <1>2, <2>1
        <3> QED
            BY <1>2, <2>1, <3>1 DEF Prewarm!ToSet
    <2> QED
        BY <2>2, <2>3, <2>4
<1>5. s # <<>>
    BY <1>2
<1> QED
    BY <1>2, <1>4, <1>5 DEF s

LEMMA HydrationListKnown ==
    ASSUME Prewarm!PrewarmAssumption, PrewarmStateOK, NEW known \in BOOLEAN
    PROVE  LET list == Prewarm!championPageHydrationPatchList(prewarmCurrent, Retention,
                           Prewarm!Stats(known), Mature)
           IN  /\ list \in Seq(Pair) /\ list # <<>>
               /\ Prewarm!ToSet(list) \subseteq Older \union Prewarm!Window
<1> DEFINE games == Prewarm!Stats(known)
           older == Prewarm!Previous(prewarmCurrent, games)
           first == Prewarm!MaturePrevious(prewarmCurrent, games, Mature)
           previous == IF first = Prewarm!NoPatch THEN Prewarm!NewestFirst(older)
                       ELSE <<first>> \o Prewarm!NewestFirst(older \ {first})
           window == Prewarm!WindowFallback(prewarmCurrent, Retention)
           tail == IF previous # <<>> THEN previous
                   ELSE IF window # Prewarm!NoPatch THEN <<window>> ELSE <<>>
           list == Prewarm!championPageHydrationPatchList(prewarmCurrent, Retention, games, Mature)
<1>1. /\ older \in SUBSET Pair /\ IsFiniteSet(older) /\ older \subseteq Older
    BY PreviousKnown
<1>2. first = Prewarm!NoPatch \/ first \in older
    <2> DEFINE grown == {p \in older : games[p] >= Mature}
    <2>1. grown \in SUBSET Pair /\ IsFiniteSet(grown) /\ grown \subseteq older
        BY <1>1, FS_Subset
    <2>2. first = Prewarm!Newest(grown)
        BY DEF Prewarm!MaturePrevious
    <2> HIDE DEF grown, first, older
    <2> QED
        BY <2>1, <2>2, FirstNewest
<1>3. list = <<prewarmCurrent>> \o tail
    BY DEF Prewarm!championPageHydrationPatchList
<1> HIDE DEF older, first, list, games
<1>4. previous \in Seq(Pair) /\ Prewarm!ToSet(previous) \subseteq older
    <2>1. CASE first = Prewarm!NoPatch
        <3>1. Prewarm!NewestFirst(older) \in Seq(older)
                  /\ Prewarm!ToSet(Prewarm!NewestFirst(older)) = older
            BY <1>1, NewestFirstLists
        <3> QED
            BY <1>1, <2>1, <3>1
    <2>2. CASE first # Prewarm!NoPatch
        <3> DEFINE others == older \ {first}
        <3>1. others \in SUBSET Pair /\ IsFiniteSet(others)
            BY <1>1, FS_Subset
        <3> HIDE DEF others
        <3>2. /\ Prewarm!NewestFirst(others) \in Seq(others)
              /\ Prewarm!ToSet(Prewarm!NewestFirst(others)) = others
            BY <3>1, NewestFirstLists
        <3>3. Prewarm!NewestFirst(others) \in Seq(Pair) /\ first \in Pair
            BY <1>1, <1>2, <2>2, <3>1, <3>2
        <3>4. /\ <<first>> \o Prewarm!NewestFirst(others) \in Seq(Pair)
              /\ Prewarm!ToSet(<<first>> \o Prewarm!NewestFirst(others)) = {first} \union others
            BY <3>2, <3>3, Joined
        <3> QED
            BY <1>2, <2>2, <3>4, Zenon DEF others
    <2> QED
        BY <2>1, <2>2, Zenon
<1>5. window = Prewarm!NoPatch \/ window \in Prewarm!Window
    <2> DEFINE w == Prewarm!PatchWindow(prewarmCurrent, Retention)
               n == IF prewarmCurrent[2] < Prewarm!Count(Retention)
                    THEN prewarmCurrent[2] ELSE Prewarm!Count(Retention)
    <2>1. n \in Nat
        BY PatchesKnown DEF Prewarm!Count, PrewarmStateOK, Pair
    <2>2. w = [i \in 1..n |-> <<prewarmCurrent[1], prewarmCurrent[2] - i + 1>>]
        BY DEF Prewarm!PatchWindow
    <2>3. Prewarm!Window = Prewarm!ToSet(w)
        BY DEF Prewarm!Window
    <2>4. window = IF Len(w) > 1 THEN w[2] ELSE Prewarm!NoPatch
        BY DEF Prewarm!WindowFallback
    <2> HIDE DEF w, n, window
    <2>5. DOMAIN w = 1..n /\ Len(w) = n
        BY <2>1, <2>2
    <2>6. n > 1 => w[2] \in Prewarm!ToSet(w)
        BY <2>1, <2>5 DEF Prewarm!ToSet
    <2> QED
        BY <2>3, <2>4, <2>5, <2>6
<1> HIDE DEF previous, window
<1>6. tail \in Seq(Pair) /\ Prewarm!ToSet(tail) \subseteq Older \union Prewarm!Window
    <2>0. prewarmCurrent \in Prewarm!Patches
        BY DEF PrewarmStateOK
    <2>1. CASE previous # <<>>
        BY <1>1, <1>4, <2>1
    <2>2. CASE previous = <<>> /\ window # Prewarm!NoPatch
        <3>1. window \in Prewarm!Window /\ window \in Pair
            BY <1>5, <2>0, <2>2, WindowKnown
        <3>2. <<window>> \in Seq(Pair) /\ Prewarm!ToSet(<<window>>) = {window}
            BY <3>1 DEF Prewarm!ToSet
        <3> QED
            BY <2>2, <3>1, <3>2
    <2>3. CASE previous = <<>> /\ window = Prewarm!NoPatch
        <3>1. <<>> \in Seq(Pair) /\ Prewarm!ToSet(<<>>) = {}
            BY DEF Prewarm!ToSet
        <3> QED
            BY <2>3, <3>1
    <2> QED
        BY <2>1, <2>2, <2>3
<1> HIDE DEF tail
<1>7. prewarmCurrent \in Pair /\ prewarmCurrent \in Prewarm!Window
    BY PatchesKnown, WindowKnown DEF PrewarmStateOK
<1>8. /\ list \in Seq(Pair) /\ list # <<>>
      /\ Prewarm!ToSet(list) = {prewarmCurrent} \union Prewarm!ToSet(tail)
    BY <1>3, <1>6, <1>7, Joined
<1> QED
    BY <1>6, <1>7, <1>8 DEF list, games

LEMMA TailKnown ==
    ASSUME NEW T, NEW q \in Seq(T), q # <<>>
    PROVE  /\ Tail(q) \in Seq(T) /\ Head(q) \in T /\ Head(q) \in Prewarm!ToSet(q)
           /\ Prewarm!ToSet(q) = {Head(q)} \union Prewarm!ToSet(Tail(q))
<1>1. /\ Tail(q) \in Seq(T) /\ Head(q) \in T /\ q = <<Head(q)>> \o Tail(q)
    OBVIOUS
<1>2. Prewarm!ToSet(q) = {Head(q)} \union Prewarm!ToSet(Tail(q))
    BY <1>1, Joined, Zenon
<1> QED
    BY <1>1, <1>2

-----------------------------------------------------------------------------
(* The steps *)

LEMMA CollectKept ==
    ASSUME Prewarm!PrewarmAssumption, PrewarmIInv, NEW p \in Prewarm!Patches, Prewarm!Collect(p)
    PROVE  PrewarmIInv'
<1>1. /\ prewarmGames' = [prewarmGames EXCEPT ![p] = @ + 1] /\ p \in Prewarm!Window
      /\ prewarmGames[p] < Mature
      /\ UNCHANGED <<prewarmCurrent, prewarmWorker, prewarmPrewarmed, prewarmApi>>
    BY DEF Prewarm!Collect
<1>2. prewarmGames \in [Prewarm!Patches -> 0..Mature] /\ Mature \in Nat
    BY PatchesKnown DEF PrewarmIInv, PrewarmStateOK
<1>3. prewarmGames' \in [Prewarm!Patches -> 0..Mature]
    BY <1>1, <1>2
<1>4. Older \subseteq Older' /\ Older' \subseteq Older \union {p}
    BY <1>1, <1>2 DEF Older, Prewarm!Previous
<1>5. Prewarm!Window' = Prewarm!Window
    BY <1>1 DEF Prewarm!Window
<1>6. PrewarmStateOK'
    BY <1>1, <1>3 DEF PrewarmIInv, PrewarmStateOK
<1>7. ListIsOlder'
    BY <1>1, <1>4, <1>5 DEF PrewarmIInv, ListIsOlder
<1>8. WorkerCovers'
    BY <1>1, <1>4, <1>5 DEF PrewarmIInv, WorkerCovers
<1> QED
    BY <1>6, <1>7, <1>8 DEF PrewarmIInv

LEMMA RollOverKept ==
    ASSUME Prewarm!PrewarmAssumption, PrewarmIInv, Prewarm!RollOver
    PROVE  PrewarmIInv'
<1>1. /\ prewarmWorker' = Prewarm!Down /\ prewarmApi' = Prewarm!NoList
      /\ UNCHANGED <<prewarmGames, prewarmPrewarmed>>
      /\ \E i \in 2..Len(Seasons) :
             Seasons[i - 1] = prewarmCurrent /\ prewarmCurrent' = Seasons[i]
    BY DEF Prewarm!RollOver
<1>2. Prewarm!Before(prewarmCurrent, prewarmCurrent') /\ prewarmCurrent' \in Prewarm!Patches
    <2>1. PICK i \in 2..Len(Seasons) :
              Seasons[i - 1] = prewarmCurrent /\ prewarmCurrent' = Seasons[i]
        BY <1>1
    <2>2. Len(Seasons) \in Nat
        BY DEF Prewarm!PrewarmAssumption
    <2>3. i \in 1..Len(Seasons)
        BY <2>1, <2>2
    <2> QED
        BY <2>1, <2>3, PatchesKnown
<1>3. prewarmCurrent \in Pair /\ prewarmCurrent' \in Pair
    BY <1>2, PatchesKnown DEF PrewarmIInv, PrewarmStateOK
<1>4. ASSUME NEW p \in prewarmPrewarmed'
      PROVE  ~ Prewarm!Before(prewarmCurrent', p)
    <2>1. p \in Pair /\ ~ Prewarm!Before(prewarmCurrent, p)
        BY <1>1, <1>4 DEF PrewarmIInv, PrewarmStateOK
    <2> QED
        BY <1>2, <1>3, <2>1, BeforeOrders
<1>5. prewarmApi'.hydrated = {} /\ Prewarm!ToSet(prewarmApi'.patches) = {}
    BY <1>1 DEF Prewarm!NoList, Prewarm!ToSet
<1>6. PrewarmStateOK'
    BY <1>1, <1>2, <1>4, <1>5 DEF PrewarmIInv, PrewarmStateOK
<1> QED
    BY <1>1, <1>5, <1>6 DEF PrewarmIInv, ListIsOlder, WorkerCovers

\* The worker's steps leave the API and the matches alone.
LEMMA WorkerKept ==
    ASSUME PrewarmIInv, UNCHANGED <<prewarmCurrent, prewarmGames, prewarmApi>>,
           prewarmWorker' = Prewarm!Down \/ WorkerIs(prewarmWorker'),
           prewarmPrewarmed' \subseteq Pair,
           \A p \in prewarmPrewarmed' : ~ Prewarm!Before(prewarmCurrent, p),
           WorkerCovers'
    PROVE  PrewarmIInv'
<1>1. Older' = Older /\ Prewarm!Window' = Prewarm!Window
    BY DEF Older, Prewarm!Window
<1>2. WorkerIs(prewarmWorker)' <=> WorkerIs(prewarmWorker')
    BY DEF WorkerIs
<1> QED
    BY <1>1, <1>2 DEF PrewarmIInv, PrewarmStateOK, ListIsOlder, ListIs

LEMMA StartupKept ==
    ASSUME Prewarm!PrewarmAssumption, PrewarmIInv, Prewarm!prewarmChampionPagesOnStartup
    PROVE  PrewarmIInv'
<1>1. PICK known \in BOOLEAN :
          prewarmWorker' = [step |-> "startup", known |-> known, failed |-> FALSE, gaps |-> TRUE,
              todo |-> Prewarm!championPageStartupPrewarmPatchList(prewarmCurrent, Retention,
                           Prewarm!Stats(known), Mature),
              archived |-> Prewarm!championPageArchivedPrewarmPatchList(prewarmCurrent,
                               Prewarm!Stats(known), Mature)]
    BY Zenon DEF Prewarm!prewarmChampionPagesOnStartup
<1>2. /\ UNCHANGED <<prewarmCurrent, prewarmGames, prewarmApi>>
      /\ prewarmPrewarmed' \subseteq prewarmPrewarmed
    BY DEF Prewarm!prewarmChampionPagesOnStartup
<1> DEFINE older == Prewarm!Previous(prewarmCurrent, Prewarm!Stats(known))
           list == Prewarm!championPageArchivedPrewarmPatchList(prewarmCurrent,
                       Prewarm!Stats(known), Mature)
           todo == Prewarm!championPageStartupPrewarmPatchList(prewarmCurrent, Retention,
                       Prewarm!Stats(known), Mature)
<1>3. /\ older = (IF known THEN Older ELSE {}) /\ older \in SUBSET Pair /\ IsFiniteSet(older)
      /\ \A p \in older : Prewarm!Before(p, prewarmCurrent)
    BY PreviousKnown DEF PrewarmIInv
<1>4. list = Prewarm!NewestFirst(older)
    BY DEF Prewarm!championPageArchivedPrewarmPatchList
<1> HIDE DEF older, list, todo
<1>5. list \in Seq(older) /\ Prewarm!ToSet(list) = older
    BY <1>3, <1>4, NewestFirstLists
<1>6. list \in Seq(Pair)
    BY <1>3, <1>5
<1>7. prewarmWorker' = [step |-> "startup", known |-> known, failed |-> FALSE, gaps |-> TRUE,
                        todo |-> todo, archived |-> list]
    BY <1>1 DEF todo, list
<1>8. Older' = Older
    BY <1>2 DEF Older
<1>9. WorkerCovers'
    BY <1>2, <1>3, <1>5, <1>6, <1>7, <1>8 DEF WorkerCovers
<1>10. WorkerIs(prewarmWorker')
    BY <1>7, Zenon DEF WorkerIs
<1> QED
    BY <1>2, <1>9, <1>10, WorkerKept DEF PrewarmIInv, PrewarmStateOK

\* The fields of the worker's state.
LEMMA WorkerFields ==
    ASSUME PrewarmIInv, prewarmWorker # Prewarm!Down
    PROVE  WorkerIs(prewarmWorker)
BY DEF PrewarmIInv, PrewarmStateOK

LEMMA WorkerUp ==
    ASSUME prewarmWorker.step \in {"startup", "archived", "lanes"}
    PROVE  prewarmWorker # Prewarm!Down
BY DEF Prewarm!Down

LEMMA StartupPatchKept ==
    ASSUME Prewarm!PrewarmAssumption, PrewarmIInv, Prewarm!PrewarmStartupPatch
    PROVE  PrewarmIInv'
<1>1. /\ prewarmWorker.step = "startup" /\ prewarmWorker # Prewarm!Down
      /\ UNCHANGED <<prewarmCurrent, prewarmGames, prewarmApi>>
      /\ prewarmPrewarmed \subseteq prewarmPrewarmed'
      /\ prewarmPrewarmed' \subseteq prewarmPrewarmed \union {prewarmCurrent}
    BY WorkerUp DEF Prewarm!PrewarmStartupPatch
<1>2. PICK failed \in BOOLEAN, gaps \in BOOLEAN :
          prewarmWorker' = [prewarmWorker EXCEPT !.todo = IF failed THEN <<>> ELSE Tail(@),
                                                 !.gaps = gaps, !.failed = failed]
    BY Zenon DEF Prewarm!PrewarmStartupPatch
<1>0. PICK t, a : \E k \in BOOLEAN, f \in BOOLEAN, g \in BOOLEAN :
          prewarmWorker = [step |-> "startup", known |-> k, failed |-> f, gaps |-> g,
                           todo |-> t, archived |-> a]
    BY <1>1, WorkerFields DEF WorkerIs
<1>3. PICK k \in BOOLEAN, f \in BOOLEAN, g \in BOOLEAN :
          prewarmWorker = [step |-> "startup", known |-> k, failed |-> f, gaps |-> g,
                           todo |-> t, archived |-> a]
    BY <1>0, Zenon
<1>4. prewarmWorker' = [step |-> "startup", known |-> k, failed |-> failed, gaps |-> gaps,
                        todo |-> IF failed THEN <<>> ELSE Tail(t), archived |-> a]
    BY <1>2, <1>3, Zenon
<1>5. WorkerIs(prewarmWorker')
    BY <1>4, Zenon DEF WorkerIs
<1>6. Older' = Older /\ Prewarm!Window' = Prewarm!Window
    BY <1>1 DEF Older, Prewarm!Window
<1>7. WorkerCovers'
    BY <1>1, <1>3, <1>4, <1>6 DEF WorkerCovers, PrewarmIInv
<1>8. prewarmCurrent \in Pair /\ ~ Prewarm!Before(prewarmCurrent, prewarmCurrent)
    BY PatchesKnown, BeforeOrders DEF PrewarmIInv, PrewarmStateOK
<1> QED
    BY <1>1, <1>5, <1>7, <1>8, WorkerKept DEF PrewarmIInv, PrewarmStateOK

LEMMA EndStartupKept ==
    ASSUME Prewarm!PrewarmAssumption, PrewarmIInv, Prewarm!EndStartup
    PROVE  PrewarmIInv'
<1>1. /\ prewarmWorker.step = "startup" /\ prewarmWorker # Prewarm!Down
      /\ UNCHANGED <<prewarmCurrent, prewarmGames, prewarmApi, prewarmPrewarmed>>
      /\ prewarmWorker' = [prewarmWorker EXCEPT
              !.step = IF prewarmWorker.failed THEN "lanes" ELSE "archived",
              !.todo = prewarmWorker.archived]
    BY WorkerUp DEF Prewarm!EndStartup
<1>0. PICK t, a : \E k \in BOOLEAN, f \in BOOLEAN, g \in BOOLEAN :
          prewarmWorker = [step |-> "startup", known |-> k, failed |-> f, gaps |-> g,
                           todo |-> t, archived |-> a]
    BY <1>1, WorkerFields DEF WorkerIs
<1>2. PICK k \in BOOLEAN, f \in BOOLEAN, g \in BOOLEAN :
          prewarmWorker = [step |-> "startup", known |-> k, failed |-> f, gaps |-> g,
                           todo |-> t, archived |-> a]
    BY <1>0
<1>3. prewarmWorker' = [step |-> IF f THEN "lanes" ELSE "archived", known |-> k, failed |-> f,
                        gaps |-> g, todo |-> a, archived |-> a]
    BY <1>1, <1>2, Zenon
<1>4. WorkerIs(prewarmWorker')
    BY <1>3, Zenon DEF WorkerIs
<1>5. Older' = Older /\ Prewarm!Window' = Prewarm!Window
    BY <1>1 DEF Older, Prewarm!Window
<1>6. WorkerCovers'
    BY <1>1, <1>2, <1>3, <1>5 DEF WorkerCovers, PrewarmIInv
<1> QED
    BY <1>1, <1>4, <1>6, WorkerKept DEF PrewarmIInv, PrewarmStateOK

LEMMA ArchivedKept ==
    ASSUME Prewarm!PrewarmAssumption, PrewarmIInv, Prewarm!prewarmArchivedChampionPagesOnStartup
    PROVE  PrewarmIInv'
<1>1. /\ prewarmWorker.step = "archived" /\ prewarmWorker # Prewarm!Down
      /\ UNCHANGED <<prewarmCurrent, prewarmGames, prewarmApi>>
    BY WorkerUp, Zenon DEF Prewarm!prewarmArchivedChampionPagesOnStartup
<1>0. PICK t, a : \E k \in BOOLEAN, f \in BOOLEAN, g \in BOOLEAN :
          prewarmWorker = [step |-> "archived", known |-> k, failed |-> f, gaps |-> g,
                           todo |-> t, archived |-> a]
    BY <1>1, WorkerFields DEF WorkerIs
<1>2. PICK k \in BOOLEAN, f \in BOOLEAN, g \in BOOLEAN :
          prewarmWorker = [step |-> "archived", known |-> k, failed |-> f, gaps |-> g,
                           todo |-> t, archived |-> a]
    BY <1>0
<1>3. /\ a \in Seq(Pair) /\ \A p \in Prewarm!ToSet(a) : Prewarm!Before(p, prewarmCurrent)
      /\ k => Older \subseteq Prewarm!ToSet(a) \union Prewarm!Window
      /\ t \in Seq(Pair) /\ Prewarm!ToSet(t) \subseteq Prewarm!ToSet(a)
      /\ ~ f => Prewarm!ToSet(a) \subseteq Prewarm!ToSet(t) \union prewarmPrewarmed
    BY <1>1, <1>2 DEF WorkerCovers, PrewarmIInv
<1>4. Older' = Older /\ Prewarm!Window' = Prewarm!Window
    BY <1>1 DEF Older, Prewarm!Window
<1>5. CASE t = <<>>
    <2>1. /\ prewarmWorker' = [step |-> "lanes", known |-> k, failed |-> f, gaps |-> g,
                               todo |-> t, archived |-> a]
          /\ prewarmPrewarmed' = prewarmPrewarmed
        BY <1>2, <1>5 DEF Prewarm!prewarmArchivedChampionPagesOnStartup
    <2>2. Prewarm!ToSet(t) = {}
        BY <1>5 DEF Prewarm!ToSet
    <2>3. WorkerIs(prewarmWorker')
        BY <2>1, Zenon DEF WorkerIs
    <2>4. WorkerCovers'
        BY <1>1, <1>3, <1>4, <2>1, <2>2 DEF WorkerCovers
    <2> QED
        BY <1>1, <2>1, <2>3, <2>4, WorkerKept DEF PrewarmIInv, PrewarmStateOK
<1>6. CASE t # <<>>
    <2>1. PICK failed \in BOOLEAN :
              /\ prewarmWorker' = [prewarmWorker EXCEPT !.todo = Tail(@), !.failed = @ \/ failed]
              /\ prewarmPrewarmed' = IF failed THEN prewarmPrewarmed
                                     ELSE prewarmPrewarmed \union {Head(prewarmWorker.todo)}
        BY <1>2, <1>6, Zenon DEF Prewarm!prewarmArchivedChampionPagesOnStartup
    <2>2. prewarmWorker' = [step |-> "archived", known |-> k, failed |-> (f \/ failed), gaps |-> g,
                            todo |-> Tail(t), archived |-> a]
        BY <1>2, <2>1, Zenon
    <2>3. /\ Tail(t) \in Seq(Pair) /\ Head(t) \in Pair /\ Head(t) \in Prewarm!ToSet(t)
          /\ Prewarm!ToSet(t) = {Head(t)} \union Prewarm!ToSet(Tail(t))
        BY <1>3, <1>6, TailKnown
    <2>4. prewarmPrewarmed' = IF failed THEN prewarmPrewarmed
              ELSE prewarmPrewarmed \union {Head(t)}
        BY <1>2, <2>1
    <2>5. \E ff \in BOOLEAN : ff = (f \/ failed)
        OBVIOUS
    <2>6. PICK ff \in BOOLEAN : ff = (f \/ failed)
        BY <2>5
    <2>7. prewarmWorker' = [step |-> "archived", known |-> k, failed |-> ff, gaps |-> g,
                            todo |-> Tail(t), archived |-> a]
        BY <2>2, <2>6
    <2>8. WorkerIs(prewarmWorker')
        BY <2>7, Zenon DEF WorkerIs
    <2>9. ~ ff => Prewarm!ToSet(a) \subseteq Prewarm!ToSet(Tail(t)) \union prewarmPrewarmed'
        BY <1>3, <2>3, <2>4, <2>6
    <2>10. WorkerCovers'
        BY <1>1, <1>3, <1>4, <2>3, <2>7, <2>9 DEF WorkerCovers
    <2>11. ~ Prewarm!Before(prewarmCurrent, Head(t))
        <3>1. Prewarm!Before(Head(t), prewarmCurrent) /\ prewarmCurrent \in Pair
            BY <1>3, <2>3, PatchesKnown DEF PrewarmIInv, PrewarmStateOK
        <3> QED
            BY <2>3, <3>1, BeforeOrders
    <2> QED
        BY <1>1, <2>3, <2>4, <2>8, <2>10, <2>11, WorkerKept DEF PrewarmIInv, PrewarmStateOK
<1> QED
    BY <1>5, <1>6

LEMMA RetainedKept ==
    ASSUME Prewarm!PrewarmAssumption, PrewarmIInv, Prewarm!PrewarmRetained
    PROVE  PrewarmIInv'
<1>1. /\ UNCHANGED <<prewarmCurrent, prewarmGames, prewarmApi, prewarmWorker>>
      /\ prewarmPrewarmed \subseteq prewarmPrewarmed'
      /\ prewarmPrewarmed' \subseteq prewarmPrewarmed \union Prewarm!Window
    BY DEF Prewarm!PrewarmRetained
<1>2. Older' = Older /\ Prewarm!Window' = Prewarm!Window
    BY <1>1 DEF Older, Prewarm!Window
<1>3. WorkerCovers'
    BY <1>1, <1>2 DEF WorkerCovers, PrewarmIInv
<1>4. Prewarm!Window \subseteq Pair /\ \A p \in Prewarm!Window :
          ~ Prewarm!Before(prewarmCurrent, p)
    BY WindowKnown DEF PrewarmIInv, PrewarmStateOK
<1> QED
    BY <1>1, <1>3, <1>4, WorkerKept DEF PrewarmIInv, PrewarmStateOK

LEMMA RestartWorkerKept ==
    ASSUME PrewarmIInv, Prewarm!RestartWorker
    PROVE  PrewarmIInv'
<1>1. /\ UNCHANGED <<prewarmCurrent, prewarmGames, prewarmApi, prewarmPrewarmed>>
      /\ prewarmWorker' = Prewarm!Down
    BY DEF Prewarm!RestartWorker
<1>2. WorkerCovers'
    BY <1>1 DEF WorkerCovers
<1> QED
    BY <1>1, <1>2, WorkerKept DEF PrewarmIInv, PrewarmStateOK

\* The API's steps leave everything else alone.
LEMMA ListKept ==
    ASSUME PrewarmIInv,
           UNCHANGED <<prewarmCurrent, prewarmGames, prewarmWorker, prewarmPrewarmed>>,
           prewarmApi' = Prewarm!NoList \/ (ListIs(prewarmApi') /\ prewarmApi'.patches # <<>>),
           prewarmApi'.hydrated \subseteq Prewarm!ToSet(prewarmApi'.patches),
           Prewarm!ToSet(prewarmApi'.patches) \subseteq Older \union Prewarm!Window
    PROVE  PrewarmIInv'
<1>1. Older' = Older /\ Prewarm!Window' = Prewarm!Window
    BY DEF Older, Prewarm!Window
<1> QED
    BY <1>1 DEF PrewarmIInv, PrewarmStateOK, ListIsOlder, ListIs, WorkerIs, WorkerCovers

LEMMA ApiKept ==
    ASSUME Prewarm!PrewarmAssumption, PrewarmIInv,
           \/ Prewarm!maintainChampionPageMemoryCache
           \/ Prewarm!HydrateChampionPageBundles
           \/ Prewarm!RestartAPI
    PROVE  PrewarmIInv'
<1>1. CASE Prewarm!maintainChampionPageMemoryCache
    <2>1. PICK known \in BOOLEAN :
              prewarmApi' = [patches |-> Prewarm!championPageHydrationPatchList(prewarmCurrent,
                                 Retention, Prewarm!Stats(known), Mature),
                             hydrated |-> {}, known |-> known, ready |-> FALSE]
        BY <1>1, Zenon DEF Prewarm!maintainChampionPageMemoryCache
    <2> DEFINE list == Prewarm!championPageHydrationPatchList(prewarmCurrent, Retention,
                           Prewarm!Stats(known), Mature)
    <2>2. list \in Seq(Pair) /\ list # <<>>
              /\ Prewarm!ToSet(list) \subseteq Older \union Prewarm!Window
        BY HydrationListKnown DEF PrewarmIInv
    <2> HIDE DEF list
    <2>3. prewarmApi' = [patches |-> list, hydrated |-> {}, known |-> known, ready |-> FALSE]
        BY <2>1 DEF list
    <2>4. ListIs(prewarmApi')
        BY <2>2, <2>3, Zenon DEF ListIs
    <2> QED
        BY <1>1, <2>2, <2>3, <2>4, ListKept DEF Prewarm!maintainChampionPageMemoryCache
<1>2. CASE Prewarm!HydrateChampionPageBundles
    <2>1. prewarmApi # Prewarm!NoList
        BY <1>2, Zenon DEF Prewarm!HydrateChampionPageBundles
    <2>2. PICK h : \E q \in Seq(Pair), k \in BOOLEAN, r \in BOOLEAN :
              prewarmApi = [patches |-> q, hydrated |-> h, known |-> k, ready |-> r]
        BY <2>1 DEF PrewarmIInv, PrewarmStateOK, ListIs
    <2>2a. PICK q \in Seq(Pair), k \in BOOLEAN, r \in BOOLEAN :
              prewarmApi = [patches |-> q, hydrated |-> h, known |-> k, ready |-> r]
        BY <2>2
    <2>3. /\ q # <<>> /\ h \subseteq Prewarm!ToSet(q)
          /\ Prewarm!ToSet(q) \subseteq Older \union Prewarm!Window
        BY <2>1, <2>2a DEF PrewarmIInv, PrewarmStateOK, ListIsOlder
    <2>4. Prewarm!ToSet(Tail(q)) \subseteq Prewarm!ToSet(q)
        BY <2>3, TailKnown
    <2> DEFINE others == Prewarm!ToSet(Tail(q))
    <2>5. PICK failed \in SUBSET others :
              LET hydrated == h \union ((others \intersect prewarmPrewarmed) \ failed)
                  ready == others \subseteq hydrated
              IN  prewarmApi' = [prewarmApi EXCEPT
                      !.ready = ready, !.hydrated =
                          IF ready THEN hydrated \ Prewarm!Window ELSE hydrated]
        BY <1>2, <2>2a, Zenon DEF Prewarm!HydrateChampionPageBundles
    <2> DEFINE hydrated == h \union ((others \intersect prewarmPrewarmed) \ failed)
    <2> HIDE DEF others
    <2>6. PICK ready \in BOOLEAN : ready = (others \subseteq hydrated)
        BY Zenon
    <2>7. prewarmApi' = [patches |-> q, known |-> k, ready |-> ready,
                         hydrated |-> IF ready THEN hydrated \ Prewarm!Window ELSE hydrated]
        BY <2>2a, <2>5, <2>6, Zenon
    <2>8. prewarmApi'.hydrated \subseteq Prewarm!ToSet(q) /\ prewarmApi'.patches = q
        BY <2>3, <2>4, <2>7 DEF others
    <2>9. ListIs(prewarmApi')
        BY <2>7, Zenon DEF ListIs
    <2> QED
        BY <1>2, <2>3, <2>8, <2>9, ListKept, Zenon DEF Prewarm!HydrateChampionPageBundles
<1>3. CASE Prewarm!RestartAPI
    <2>1. /\ prewarmApi' = Prewarm!NoList
          /\ UNCHANGED <<prewarmCurrent, prewarmGames, prewarmWorker, prewarmPrewarmed>>
        BY <1>3 DEF Prewarm!RestartAPI
    <2>2. prewarmApi'.hydrated = {} /\ Prewarm!ToSet(prewarmApi'.patches) = {}
        BY <2>1 DEF Prewarm!NoList, Prewarm!ToSet
    <2> QED
        BY <2>1, <2>2, ListKept
<1> QED
    BY <1>1, <1>2, <1>3

LEMMA PrewarmInvariance ==
    ASSUME Prewarm!PrewarmAssumption
    PROVE  Prewarm!Spec => []PrewarmIInv
<1>1. ASSUME Prewarm!Init
      PROVE  PrewarmIInv
    <2>1. /\ prewarmCurrent = Seasons[Archive + 1]
                 /\ prewarmGames \in [Prewarm!Patches -> 0..Mature]
          /\ prewarmWorker = Prewarm!Down /\ prewarmPrewarmed = {} /\ prewarmApi = Prewarm!NoList
        BY <1>1 DEF Prewarm!Init
    <2>2. prewarmApi.hydrated = {} /\ Prewarm!ToSet(prewarmApi.patches) = {}
        BY <2>1 DEF Prewarm!NoList, Prewarm!ToSet
    <2> QED
        BY <2>1, <2>2, PatchesKnown DEF PrewarmIInv, PrewarmStateOK, ListIsOlder, WorkerCovers
<1>2. ASSUME PrewarmIInv, UNCHANGED Prewarm!vars
      PROVE  PrewarmIInv'
    BY <1>2 DEF Prewarm!vars, PrewarmIInv, PrewarmStateOK, ListIsOlder, WorkerCovers, ListIs,
       WorkerIs,
                Older, Prewarm!Window
<1>3. PrewarmIInv /\ [Prewarm!Next]_(Prewarm!vars) => PrewarmIInv'
    BY <1>2, CollectKept, RollOverKept, StartupKept, StartupPatchKept, EndStartupKept,
       ArchivedKept,
       RetainedKept, RestartWorkerKept, ApiKept DEF Prewarm!Next
<1> QED
    BY <1>1, <1>3, PTL DEF Prewarm!Spec

\* The API waits for no patch that nobody builds.
LEMMA PrewarmReachesList ==
    ASSUME Prewarm!PrewarmAssumption
    PROVE  Prewarm!Spec => []Prewarm!HydratedPatchesArePrewarmed
<1>1. PrewarmIInv => Prewarm!HydratedPatchesArePrewarmed
    <2> SUFFICES ASSUME PrewarmIInv, prewarmWorker.step = "lanes", prewarmWorker.known,
                        ~ prewarmWorker.failed
                 PROVE  Prewarm!ToSet(prewarmApi.patches) \subseteq prewarmPrewarmed \union Prewarm!Window
        BY DEF Prewarm!HydratedPatchesArePrewarmed
    <2>1. prewarmWorker # Prewarm!Down
        BY WorkerUp
    <2> QED
        BY <2>1 DEF PrewarmIInv, ListIsOlder, WorkerCovers
<1> QED
    BY <1>1, PrewarmInvariance, PTL

LEMMA PrewarmTypeCorrect ==
    ASSUME Prewarm!PrewarmAssumption
    PROVE  Prewarm!Spec => []Prewarm!TypeOK
<1>1. PrewarmIInv => Prewarm!TypeOK
    BY DEF PrewarmIInv, PrewarmStateOK, WorkerIs, Prewarm!Down, Prewarm!TypeOK
<1> QED
    BY <1>1, PrewarmInvariance, PTL

-----------------------------------------------------------------------------
(* The refresh lanes: no lane is starved, for any intervals and any set of *)
(* lanes switched on, whatever the runs take                               *)

\* How far a lane is from the front of the round that begins at f.
Place(f, l) == (l - f + 4) % 4

\* The front of the next round, the lane that runs accounted for.
Front == IF lanesRunning = 0 THEN lanesNextLane ELSE Lanes!NextLane(lanesRunning)

\* The lanes switched on that come after l in the round from f: none of them
\* is run again before l.
After(f, l) ==
    {Lanes!Lanes[i] : i \in {j \in Lanes!Indices : Lanes!Lanes[j] \in lanesEnabled
    /\ Place(f, j) > Place(f, l)}}

LaneNames == {Lanes!Lanes[i] : i \in Lanes!Indices}

LanesStateOK ==
    /\ Lanes!TypeOK
    /\ lanesSince \in [Lanes!Indices -> Nat]
    /\ lanesPassed \in [Lanes!Indices -> Nat]

\* Only lanes that wait have been passed, and only by lanes behind them now.
WaitBounded ==
    /\ \A l \in Lanes!Indices : lanesPassed[l] > 0 => Lanes!Due(l)
    /\ \A l \in Lanes!Indices : lanesPassed[l] <= Cardinality(After(Front, l))
    /\ lanesRunning # 0 => lanesPassed[lanesRunning] = 0

LanesIInv == LanesStateOK /\ WaitBounded

-----------------------------------------------------------------------------
(* Rounds *)

LEMMA LanesKnown ==
    /\ Len(Lanes!Lanes) = 4 /\ Lanes!Indices = 1..4 /\ IsFiniteSet(Lanes!Indices)
    /\ \A i, j \in Lanes!Indices : Lanes!Lanes[i] = Lanes!Lanes[j] => i = j
    /\ IsFiniteSet(LaneNames)
    /\ 1 \in Lanes!Indices
<1>1. Len(Lanes!Lanes) = 4
    BY SMT DEF Lanes!Lanes
<1>2. Lanes!Indices = 1..4
    BY <1>1 DEF Lanes!Indices
<1>3. IsFiniteSet(Lanes!Indices)
    <2>1. 1 \in Int /\ 4 \in Int
        OBVIOUS
    <2> QED
        BY <1>2, <2>1, FS_Interval, Zenon
<1>4. /\ Lanes!Lanes[1] = "item-slot-analytics" /\ Lanes!Lanes[2] = "champion-guide-analytics"
      /\ Lanes!Lanes[3] = "win-condition-analytics"
         /\ Lanes!Lanes[4] = "summoner-profile-analytics"
    BY SMT DEF Lanes!Lanes
<1>5. \A i \in Lanes!Indices : i = 1 \/ i = 2 \/ i = 3 \/ i = 4
    BY <1>2, SMT
<1>6. ASSUME NEW i \in Lanes!Indices, NEW j \in Lanes!Indices, Lanes!Lanes[i] = Lanes!Lanes[j]
      PROVE  i = j
    BY <1>4, <1>5, <1>6
<1>7. IsFiniteSet(LaneNames)
    <2>1. LaneNames = {Lanes!Lanes[1], Lanes!Lanes[2], Lanes!Lanes[3], Lanes!Lanes[4]}
        <3>1. 1 \in Lanes!Indices /\ 2 \in Lanes!Indices /\ 3 \in Lanes!Indices
              /\ 4 \in Lanes!Indices
            BY <1>2, SMT
        <3> QED
            BY <1>5, <3>1 DEF LaneNames
    <2>2. IsFiniteSet({} \union {Lanes!Lanes[1]} \union {Lanes!Lanes[2]} \union {Lanes!Lanes[3]} \union {Lanes!Lanes[4]})
        BY FS_EmptySet, FS_AddElement, Zenon
    <2> QED
        BY <2>1, <2>2
<1>8. 1 \in Lanes!Indices
    BY <1>2, SMT
<1> QED
    BY <1>1, <1>2, <1>3, <1>6, <1>7, <1>8

LEMMA NextKnown ==
    ASSUME NEW c \in Lanes!Indices
    PROVE  Lanes!NextLane(c) \in Lanes!Indices /\ Place(Lanes!NextLane(c), c) = 3
BY LanesKnown, SMT DEF Lanes!NextLane, Place

LEMMA PlaceKnown ==
    ASSUME NEW f \in Lanes!Indices, NEW l \in Lanes!Indices
    PROVE  /\ Place(f, l) \in 0..3
           /\ Place(f, l) + 1 \in Lanes!Indices /\ Lanes!InRound(f, Place(f, l) + 1) = l
BY LanesKnown, SMT DEF Place, Lanes!InRound

LEMMA InRoundKnown ==
    ASSUME NEW f \in Lanes!Indices, NEW i \in Lanes!Indices
    PROVE  Lanes!InRound(f, i) \in Lanes!Indices /\ Place(f, Lanes!InRound(f, i)) = i - 1
BY LanesKnown, SMT DEF Place, Lanes!InRound

\* When a lane is run, one that waited behind it comes nearer, and so does what
\* is behind that one; the lane itself goes to the end.
LEMMA RoundsTurn ==
    ASSUME NEW f \in Lanes!Indices, NEW c \in Lanes!Indices, NEW l \in Lanes!Indices,
           Place(f, c) < Place(f, l)
    PROVE  /\ Place(Lanes!NextLane(c), c) > Place(Lanes!NextLane(c), l)
           /\ \A i \in Lanes!Indices : Place(f, i) > Place(f, l)
                => Place(Lanes!NextLane(c), i) > Place(Lanes!NextLane(c), l)
BY LanesKnown, SMT DEF Place, Lanes!NextLane

LEMMA LeastOf ==
    ASSUME NEW S \in SUBSET (1..4), S # {}
    PROVE  \E i \in S : \A j \in S : i <= j
<1>1. CASE 1 \in S
    BY <1>1
<1>2. CASE 1 \notin S /\ 2 \in S
    BY <1>2
<1>3. CASE 1 \notin S /\ 2 \notin S /\ 3 \in S
    BY <1>3
<1>4. CASE 1 \notin S /\ 2 \notin S /\ 3 \notin S
    <2>1. \A j \in S : j = 4
        BY <1>4
    <2>2. PICK i \in S : TRUE
        BY Zenon
    <2> QED
        BY <2>1, <2>2
<1> QED
    BY <1>1, <1>2, <1>3, <1>4

\* The lane run is due, and every other due one is behind it.
LEMMA FirstDueKnown ==
    ASSUME NEW f \in Lanes!Indices
    PROVE  \/ Lanes!FirstDue(f) = 0
           \/ /\ Lanes!FirstDue(f) \in Lanes!Indices /\ Lanes!Due(Lanes!FirstDue(f))
              /\ \A l \in Lanes!Indices : (Lanes!Due(l) /\ l # Lanes!FirstDue(f))
                 => Place(f, Lanes!FirstDue(f)) < Place(f, l)
<1> DEFINE due == {i \in Lanes!Indices : Lanes!Due(Lanes!InRound(f, i))}
           k == CHOOSE i \in due : \A j \in due : i <= j
<1>1. CASE due = {}
    BY <1>1 DEF Lanes!FirstDue
<1>2. CASE due # {}
    <2>1. \E i \in due : \A j \in due : i <= j
        BY <1>2, LeastOf, LanesKnown
    <2>2. k \in due /\ \A j \in due : k <= j
        BY <2>1
    <2>3. Lanes!FirstDue(f) = Lanes!InRound(f, k)
        BY <1>2 DEF Lanes!FirstDue
    <2>4. k \in Lanes!Indices /\ Lanes!Due(Lanes!InRound(f, k))
        BY <2>2
    <2> HIDE DEF k
    <2>5. ASSUME NEW l \in Lanes!Indices, Lanes!Due(l), l # Lanes!InRound(f, k)
          PROVE  Place(f, Lanes!InRound(f, k)) < Place(f, l)
        <3>1. Place(f, l) + 1 \in due
            BY <2>5, PlaceKnown
        <3>2. k <= Place(f, l) + 1
            BY <2>2, <3>1
        <3>3. k # Place(f, l) + 1
            BY <2>5, PlaceKnown
        <3>4. Place(f, Lanes!InRound(f, k)) = k - 1
            BY <2>4, InRoundKnown
        <3>5. Place(f, l) \in 0..3 /\ k \in 1..4
            BY <2>4, PlaceKnown, LanesKnown
        <3> QED
            BY <3>2, <3>3, <3>4, <3>5, SMT
    <2> QED
        BY <2>3, <2>4, <2>5, InRoundKnown
<1> QED
    BY <1>1, <1>2

LEMMA AfterFinite ==
    ASSUME NEW f, NEW l
    PROVE  IsFiniteSet(After(f, l)) /\ Cardinality(After(f, l)) \in Nat
<1>1. After(f, l) \subseteq LaneNames
    BY DEF After, LaneNames
<1> QED
    BY <1>1, LanesKnown, FS_Subset, FS_CardinalityType

-----------------------------------------------------------------------------
(* The invariant *)

LEMMA LanesInitially ==
    ASSUME Lanes!SchedulerAssumption, Lanes!Init
    PROVE  LanesIInv
<1>1. \A l \in Lanes!Indices : Intervals[Lanes!Lanes[l]] \in Nat
    BY DEF Lanes!SchedulerAssumption
<1>2. /\ lanesSince \in [Lanes!Indices -> Nat] /\ lanesPassed \in [Lanes!Indices -> Nat]
      /\ \A l \in Lanes!Indices : lanesSince[l] = Intervals[Lanes!Lanes[l]] /\ lanesPassed[l] = 0
    BY <1>1 DEF Lanes!Init, Lanes!Fresh
<1>3. lanesNextLane \in Lanes!Indices /\ lanesRunning \in Lanes!Indices \union {0}
      /\ lanesAsleep \in BOOLEAN
    BY LanesKnown, Zenon DEF Lanes!Init
<1>4. LanesStateOK
    BY <1>1, <1>2, <1>3 DEF LanesStateOK, Lanes!TypeOK, Lanes!Init
<1>5. WaitBounded
    BY <1>2, AfterFinite DEF WaitBounded, Lanes!Init
<1> QED
    BY <1>4, <1>5 DEF LanesIInv

LEMMA FrontKnown ==
    ASSUME LanesStateOK
    PROVE  Front \in Lanes!Indices
BY NextKnown DEF LanesStateOK, Lanes!TypeOK, Front

LEMMA RunStep ==
    ASSUME LanesIInv, Lanes!runNextRefreshSchedulerLane
    PROVE  LanesIInv'
<1> USE DEF LanesIInv
<1> DEFINE lane == Lanes!FirstDue(lanesNextLane)
<1>1. lanesNextLane \in Lanes!Indices /\ lanesRunning = 0 /\ Front = lanesNextLane
    BY DEF LanesStateOK, Lanes!TypeOK, Lanes!runNextRefreshSchedulerLane, Front
<1>2. lanesEnabled' = lanesEnabled /\ lanesSince' = lanesSince /\ lanesNextLane' = lanesNextLane
    BY DEF Lanes!runNextRefreshSchedulerLane
<1>3. \A l \in Lanes!Indices : Lanes!Due(l)' <=> Lanes!Due(l)
    BY <1>2 DEF Lanes!Due
<1>4. CASE lane = 0
    <2>1. lanesRunning' = lanesRunning /\ lanesPassed' = lanesPassed /\ lanesAsleep' = TRUE
        BY <1>4 DEF Lanes!runNextRefreshSchedulerLane
    <2>2. \A l \in Lanes!Indices : After(Front, l)' = After(Front, l)
        BY <1>2, <2>1 DEF After, Front
    <2>3. LanesStateOK'
        BY <1>2, <2>1 DEF LanesStateOK, Lanes!TypeOK
    <2>4. WaitBounded'
        BY <1>1, <1>3, <2>1, <2>2 DEF WaitBounded
    <2> QED
        BY <2>3, <2>4
<1>5. CASE lane # 0
    <2>1. /\ lane \in Lanes!Indices /\ Lanes!Due(lane)
          /\ \A l \in Lanes!Indices : (Lanes!Due(l) /\ l # lane)
             => Place(lanesNextLane, lane) < Place(lanesNextLane, l)
        BY <1>1, <1>5, FirstDueKnown
    <2>2. /\ lanesRunning' = lane /\ lanesAsleep' = lanesAsleep
          /\ lanesPassed' = [l \in Lanes!Indices |-> IF l = lane THEN 0
                                          ELSE IF Lanes!Due(l) THEN lanesPassed[l] + 1
                                              ELSE lanesPassed[l]]
        BY <1>5 DEF Lanes!runNextRefreshSchedulerLane
    <2>3. lane # 0 /\ 0 \notin Lanes!Indices
        BY <1>5, LanesKnown
    <2> HIDE DEF lane
    <2>4. Front' = Lanes!NextLane(lane)
        BY <2>2, <2>3 DEF Front, Lanes!NextLane
    <2>5. LanesStateOK'
        <3>1. lanesPassed' \in [Lanes!Indices -> Nat]
            BY <2>2 DEF LanesStateOK
        <3> QED
            BY <1>2, <2>1, <2>2, <3>1 DEF LanesStateOK, Lanes!TypeOK
    <2>6. ASSUME NEW l \in Lanes!Indices
          PROVE  /\ lanesPassed'[l] > 0 => Lanes!Due(l)
                 /\ lanesPassed'[l] <= Cardinality(After(Lanes!NextLane(lane), l))
        <3>1. CASE l = lane
            <4>1. lanesPassed'[l] = 0
                BY <2>2, <3>1
            <4> QED
                BY <4>1, AfterFinite
        <3>2. CASE l # lane /\ ~ Lanes!Due(l)
            <4>1. lanesPassed'[l] = lanesPassed[l] /\ lanesPassed[l] \in Nat
                BY <2>2, <3>2 DEF LanesStateOK
            <4>2. lanesPassed[l] = 0
                BY <3>2, <4>1 DEF WaitBounded
            <4> QED
                BY <4>1, <4>2, AfterFinite
        <3>3. CASE l # lane /\ Lanes!Due(l)
            <4> DEFINE old == After(lanesNextLane, l)
                       now == After(Lanes!NextLane(lane), l)
            <4>1. Place(lanesNextLane, lane) < Place(lanesNextLane, l)
                BY <2>1, <3>3
            <4>2. old \subseteq now
                BY <1>1, <2>1, <4>1, RoundsTurn DEF After
            <4>3. Lanes!Lanes[lane] \in now
                BY <1>1, <2>1, <4>1, RoundsTurn DEF After, Lanes!Due
            <4>4. Lanes!Lanes[lane] \notin old
                <5>1. Place(lanesNextLane, lane) \in 0..3 /\ Place(lanesNextLane, l) \in 0..3
                    BY <1>1, <2>1, PlaceKnown
                <5> QED
                    BY <2>1, <4>1, <5>1, LanesKnown DEF After
            <4>5. /\ IsFiniteSet(old) /\ Cardinality(old) \in Nat
                  /\ IsFiniteSet(now) /\ Cardinality(now) \in Nat
                BY AfterFinite
            <4>6. lanesPassed[l] <= Cardinality(old) /\ lanesPassed[l] \in Nat
                BY <1>1 DEF WaitBounded, LanesStateOK
            <4>7. lanesPassed'[l] = lanesPassed[l] + 1
                BY <2>2, <3>3
            <4> HIDE DEF old, now
            <4>8. Cardinality(old \union {Lanes!Lanes[lane]}) = Cardinality(old) + 1
                BY <4>4, <4>5, FS_AddElement, Zenon
            <4>9. Cardinality(old \union {Lanes!Lanes[lane]}) <= Cardinality(now)
                BY <4>2, <4>3, <4>5, FS_Subset
            <4>10. lanesPassed'[l] <= Cardinality(now)
                BY <4>5, <4>6, <4>7, <4>8, <4>9, SMT
            <4> QED
                BY <3>3, <4>10 DEF now
        <3> QED
            BY <3>1, <3>2, <3>3
    <2>7. lanesPassed'[lane] = 0
        BY <2>1, <2>2
    <2>8. \A l \in Lanes!Indices : After(Front, l)' = After(Lanes!NextLane(lane), l)
        BY <1>2, <2>4 DEF After
    <2>9. WaitBounded'
        BY <1>3, <2>2, <2>6, <2>7, <2>8 DEF WaitBounded
    <2> QED
        BY <2>5, <2>9
<1> QED
    BY <1>4, <1>5

LEMMA OtherSteps ==
    ASSUME Lanes!SchedulerAssumption, LanesIInv, Lanes!EndRun \/ Lanes!Wake \/ Lanes!Tick
           \/ UNCHANGED Lanes!vars
    PROVE  LanesIInv'
<1> USE DEF LanesIInv
<1>0. \A l \in Lanes!Indices : Intervals[Lanes!Lanes[l]] \in Nat /\ lanesSince[l] \in Nat
    BY DEF Lanes!SchedulerAssumption, LanesStateOK
<1>1. CASE Lanes!EndRun
    <2>1. /\ lanesRunning \in Lanes!Indices /\ lanesRunning # 0 /\ lanesEnabled' = lanesEnabled
             /\ lanesPassed' = lanesPassed
          /\ lanesNextLane' = Lanes!NextLane(lanesRunning) /\ lanesRunning' = 0
             /\ lanesAsleep' = TRUE
          /\ lanesSince' = [lanesSince EXCEPT ![lanesRunning] = 0]
        BY <1>1 DEF Lanes!EndRun, LanesStateOK, Lanes!TypeOK
    <2>2. Lanes!NextLane(lanesRunning) \in Lanes!Indices
        BY <2>1, NextKnown
    <2>3. lanesSince' \in [Lanes!Indices -> Nat]
          /\ \A l \in Lanes!Indices : lanesSince'[l] \in 0..Intervals[Lanes!Lanes[l]]
        BY <1>0, <2>1 DEF LanesStateOK, Lanes!TypeOK
    <2>4. LanesStateOK'
        BY <2>1, <2>2, <2>3 DEF LanesStateOK, Lanes!TypeOK
    <2>5. Front' = Front
        BY <2>1 DEF Front
    <2>6. \A l \in Lanes!Indices : After(Front, l)' = After(Front, l)
        BY <2>1, <2>5 DEF After
    <2>7. \A l \in Lanes!Indices : l # lanesRunning => (Lanes!Due(l)' <=> Lanes!Due(l))
        BY <2>1 DEF Lanes!Due, LanesStateOK
    <2>8. lanesPassed[lanesRunning] = 0
        BY <2>1 DEF WaitBounded
    <2> QED
        BY <2>1, <2>4, <2>6, <2>7, <2>8 DEF WaitBounded
<1>2. CASE Lanes!Tick
    <2>1. /\ lanesEnabled' = lanesEnabled /\ lanesNextLane' = lanesNextLane
             /\ lanesRunning' = lanesRunning
          /\ lanesAsleep' = lanesAsleep /\ lanesPassed' = lanesPassed
          /\ lanesSince' = [l \in Lanes!Indices |->
                IF lanesSince[l] < Intervals[Lanes!Lanes[l]] THEN lanesSince[l] + 1
                    ELSE lanesSince[l]]
        BY <1>2 DEF Lanes!Tick
    <2>2. \A l \in Lanes!Indices : lanesSince[l] <= Intervals[Lanes!Lanes[l]]
        BY <1>0 DEF LanesStateOK, Lanes!TypeOK
    <2>3. lanesSince' \in [Lanes!Indices -> Nat]
          /\ \A l \in Lanes!Indices : lanesSince'[l] \in 0..Intervals[Lanes!Lanes[l]]
        BY <1>0, <2>1, <2>2, SMT
    <2>4. LanesStateOK'
        BY <2>1, <2>3 DEF LanesStateOK, Lanes!TypeOK
    <2>5. \A l \in Lanes!Indices : After(Front, l)' = After(Front, l)
        BY <2>1 DEF After, Front
    <2>6. \A l \in Lanes!Indices : Lanes!Due(l) => Lanes!Due(l)'
        BY <1>0, <2>1, <2>2 DEF Lanes!Due
    <2> QED
        BY <2>1, <2>4, <2>5, <2>6 DEF WaitBounded
<1>3. CASE Lanes!Wake \/ UNCHANGED Lanes!vars
    <2>1. /\ lanesEnabled' = lanesEnabled /\ lanesNextLane' = lanesNextLane
             /\ lanesRunning' = lanesRunning
          /\ lanesPassed' = lanesPassed /\ lanesSince' = lanesSince /\ lanesAsleep' \in BOOLEAN
        BY <1>3, Zenon DEF Lanes!Wake, Lanes!vars, LanesStateOK, Lanes!TypeOK
    <2>2. \A l \in Lanes!Indices : After(Front, l)' = After(Front, l)
        BY <2>1 DEF After, Front
    <2>3. \A l \in Lanes!Indices : Lanes!Due(l) <=> Lanes!Due(l)'
        BY <2>1 DEF Lanes!Due
    <2> QED
        BY <2>1, <2>2, <2>3 DEF WaitBounded, LanesStateOK, Lanes!TypeOK
<1> QED
    BY <1>1, <1>2, <1>3

LEMMA RestartStep ==
    ASSUME Lanes!SchedulerAssumption, LanesIInv, Lanes!Restart
    PROVE  LanesIInv'
<1>1. \A l \in Lanes!Indices : Intervals[Lanes!Lanes[l]] \in Nat
    BY DEF Lanes!SchedulerAssumption
<1>2. /\ lanesSince' \in [Lanes!Indices -> Nat] /\ lanesPassed' \in [Lanes!Indices -> Nat]
      /\ \A l \in Lanes!Indices : lanesSince'[l] = Intervals[Lanes!Lanes[l]]
         /\ lanesPassed'[l] = 0
    BY <1>1 DEF Lanes!Restart, Lanes!Fresh
<1>3. lanesNextLane' \in Lanes!Indices /\ lanesRunning' = 0 /\ lanesAsleep' = FALSE
      /\ lanesEnabled' = lanesEnabled
    BY LanesKnown DEF Lanes!Restart
<1>4. LanesStateOK'
    <2>1. lanesEnabled' \in Configurations
        BY <1>3 DEF LanesStateOK, Lanes!TypeOK, LanesIInv
    <2>2. \A l \in Lanes!Indices : lanesSince'[l] \in 0..Intervals[Lanes!Lanes[l]]
        BY <1>1, <1>2
    <2> QED
        BY <1>2, <1>3, <2>1, <2>2, Zenon DEF LanesStateOK, Lanes!TypeOK
<1>5. \A l \in Lanes!Indices : Cardinality(After(Front, l))' \in Nat
    <2>1. \A f, l : Cardinality(After(f, l)) \in Nat
        BY AfterFinite
    <2>2. \A f, l : After(f, l)' = After(f, l)
        BY <1>3 DEF After
    <2>3. \A l \in Lanes!Indices : After(Front, l)' = After(Front', l)
        BY <1>3 DEF After
    <2> QED
        BY <2>1, <2>3
<1>6. WaitBounded'
    BY <1>2, <1>3, <1>5 DEF WaitBounded
<1> QED
    BY <1>4, <1>6 DEF LanesIInv

\* Everything the scheduler's properties rest on.
LEMMA LanesInvariance ==
    ASSUME Lanes!SchedulerAssumption
    PROVE  Lanes!Spec => []LanesIInv
<1>1. Lanes!Init => LanesIInv
    BY LanesInitially
<1>2. LanesIInv /\ [Lanes!Next]_(Lanes!vars) => LanesIInv'
    BY RunStep, OtherSteps, RestartStep DEF Lanes!Next
<1> QED
    BY <1>1, <1>2, PTL DEF Lanes!Spec

\* Type correctness of the scheduler's loop (refresh_lanes.go:95).
LEMMA LanesTypeCorrect ==
    ASSUME Lanes!SchedulerAssumption
    PROVE  Lanes!Spec => []Lanes!TypeOK
<1>1. LanesIInv => Lanes!TypeOK
    BY DEF LanesIInv, LanesStateOK
<1> QED
    BY <1>1, LanesInvariance, PTL

\* The instance counts as the theorems about finite sets do.
LEMMA SameCardinality ==
    ASSUME NEW S
    PROVE  Lanes!Cardinality(S) = Cardinality(S)
BY DEF Lanes!Cardinality, Cardinality

\* A due lane is passed at most once by each other lane switched on, for any
\* intervals and however long runs take.
LEMMA LanesTakeTurns ==
    ASSUME Lanes!SchedulerAssumption
    PROVE  Lanes!Spec => []Lanes!NoLaneIsStarved
<1>1. LanesIInv => Lanes!NoLaneIsStarved
    <2> SUFFICES ASSUME LanesIInv, NEW l \in Lanes!Indices
                 PROVE  lanesPassed[l] <= Cardinality(lanesEnabled \ {Lanes!Lanes[l]})
        BY SameCardinality DEF Lanes!NoLaneIsStarved
    <2>1. lanesPassed[l] <= Cardinality(After(Front, l)) /\ lanesPassed[l] \in Nat
        BY DEF LanesIInv, WaitBounded, LanesStateOK
    <2>2. After(Front, l) \subseteq lanesEnabled \ {Lanes!Lanes[l]}
        <3>1. Front \in Lanes!Indices
            BY FrontKnown DEF LanesIInv
        <3>2. ~ (Place(Front, l) > Place(Front, l))
            BY <3>1, PlaceKnown
        <3> QED
            BY <3>2, LanesKnown DEF After
    <2>3. lanesEnabled \ {Lanes!Lanes[l]} \subseteq LaneNames
        BY DEF LanesIInv, LanesStateOK, Lanes!TypeOK, Lanes!SchedulerAssumption, LaneNames
    <2>4. IsFiniteSet(lanesEnabled \ {Lanes!Lanes[l]})
        BY <2>3, LanesKnown, FS_Subset
    <2>5. /\ Cardinality(lanesEnabled \ {Lanes!Lanes[l]}) \in Nat
          /\ Cardinality(After(Front, l)) \in Nat
          /\ Cardinality(After(Front, l)) <= Cardinality(lanesEnabled \ {Lanes!Lanes[l]})
        BY <2>2, <2>4, FS_Subset, FS_CardinalityType
    <2> QED
        BY <2>1, <2>5
<1> QED
    BY <1>1, LanesInvariance, PTL

-----------------------------------------------------------------------------
(* The inductive invariant *)

RequestSteps == {"idle", "alias", "resolve", "memory", "wait", "lead", "build", "store"}

RequestsOK == cacheRequest \in [Requests -> [step : RequestSteps]]

\* An entry that n places have taken over one after the other, each for the
\* time T.
Within(e, n, T) ==
    /\ e \in [age : Nat, left : Nat]
    /\ e.left <= T
    /\ e.age + e.left <= n * T

StoreWithin ==
    /\ cacheStore \in [Cache!Keys -> [age : Nat, left : Nat]]
    /\ Within(cacheStore["page"], 1, Cache!TTL)
    /\ Within(cacheStore["alias"], 2, Cache!TTL)

MemoryWithin ==
    /\ cacheMemory \in [Cache!Keys -> [age : Nat, left : Nat]]
    /\ \A k \in Cache!Keys : Within(cacheMemory[k], 3, Cache!TTL)

PrewarmWithin == cachePrewarm.step = "alias" => Within(cachePrewarm.page, 1, Cache!TTL)

HydrationWithin == Within(cacheHydration, 1, Cache!TTL)

CacheIInv ==
    /\ cacheCurrent \in 1..Len(Currents)
    /\ cacheLeader \in Requests \union {Cache!Nobody}
    /\ RequestsOK
    /\ Cache!NobodyWaitsInVain
    /\ StoreWithin
    /\ MemoryWithin
    /\ PrewarmWithin
    /\ HydrationWithin

-----------------------------------------------------------------------------

\* The time to live is one of the two.
LEMMA TTLBounds ==
    ASSUME Cache!CacheAssumption
    PROVE  Cache!TTL \in Nat /\ Cache!TTL <= ArchivedTTL
BY SMT DEF Cache!CacheAssumption, Cache!TTL

\* It is the same until the next rollover, and never shrinks in one.
LEMMA TTLGrows ==
    ASSUME Cache!CacheAssumption, cacheCurrent \in 1..Len(Currents), Cache!RollOver
    PROVE  Cache!TTL' \in Nat /\ Cache!TTL <= Cache!TTL' /\ cacheCurrent' \in 1..Len(Currents)
<1>1. cacheCurrent \in Nat /\ cacheCurrent < Len(Currents) /\ cacheCurrent' = cacheCurrent + 1
      /\ Len(Currents) \in Nat
    BY DEF Cache!RollOver, Cache!CacheAssumption
<1>2. Cache!PatchInWindow(Patch, Currents[cacheCurrent + 1], PageRetention) =>
          Cache!PatchInWindow(Patch, Currents[cacheCurrent], PageRetention)
    BY <1>1 DEF Cache!CacheAssumption
<1>3. Cache!TTL' = IF Cache!PatchInWindow(Patch, Currents[cacheCurrent + 1], PageRetention)
             THEN CurrentTTL ELSE ArchivedTTL
    BY <1>1 DEF Cache!TTL
<1>4. Cache!TTL = IF Cache!PatchInWindow(Patch, Currents[cacheCurrent], PageRetention)
            THEN CurrentTTL ELSE ArchivedTTL
    BY DEF Cache!TTL
<1> DEFINE new == Cache!PatchInWindow(Patch, Currents[cacheCurrent + 1], PageRetention)
           old == Cache!PatchInWindow(Patch, Currents[cacheCurrent], PageRetention)
<1> HIDE DEF new, old
<1>5. Cache!TTL' = (IF new THEN CurrentTTL ELSE ArchivedTTL)
      /\ Cache!TTL = (IF old THEN CurrentTTL ELSE ArchivedTTL) /\ (new => old)
    BY <1>2, <1>3, <1>4 DEF new, old
<1> QED
    BY <1>1, <1>5 DEF Cache!CacheAssumption

-----------------------------------------------------------------------------
(* The requests *)

Coalesced == cacheLeader \in Requests \union {Cache!Nobody} /\ RequestsOK
/\ Cache!NobodyWaitsInVain

LEMMA AskCoalesced ==
    ASSUME Coalesced, NEW r \in Requests, Cache!Ask(r), Cache!Nobody \notin Requests
    PROVE  Coalesced'
BY SMT DEF Coalesced, RequestsOK, RequestSteps, Cache!NobodyWaitsInVain, Cache!Ask, Cache!At,
   Cache!Idle

LEMMA LookUpAliasCoalesced ==
    ASSUME Coalesced, NEW r \in Requests, Cache!LookUpAlias(r), Cache!Nobody \notin Requests
    PROVE  Coalesced'
<1>1. cacheRequest[r].step = "alias" /\ cacheLeader' = cacheLeader
    BY DEF Cache!LookUpAlias
<1>2. \/ cacheRequest' = [cacheRequest EXCEPT ![r] = Cache!Idle]
      \/ cacheRequest' = [cacheRequest EXCEPT ![r] = Cache!At("resolve")]
    BY DEF Cache!LookUpAlias
<1> QED
    BY <1>1, <1>2, SMT DEF Coalesced, RequestsOK, RequestSteps, Cache!NobodyWaitsInVain, Cache!At,
       Cache!Idle

LEMMA ResolveCoalesced ==
    ASSUME Coalesced, NEW r \in Requests, Cache!resolveChampionPageBundleRequest(r),
           Cache!Nobody \notin Requests
    PROVE  Coalesced'
BY SMT DEF Coalesced, RequestsOK, RequestSteps, Cache!NobodyWaitsInVain,
           Cache!resolveChampionPageBundleRequest, Cache!At, Cache!Idle

\* Who joins finds a leader at work; who leads is the only one.
LEMMA LookUpPageCoalesced ==
    ASSUME Coalesced, NEW r \in Requests, Cache!LookUpPage(r), Cache!Nobody \notin Requests
    PROVE  Coalesced'
<1>1. cacheRequest[r].step = "memory"
    BY DEF Cache!LookUpPage
<1>2. CASE Cache!Live(cacheMemory["page"])
    <2>1. cacheRequest' = [cacheRequest EXCEPT ![r] = Cache!Idle] /\ cacheLeader' = cacheLeader
        BY <1>2 DEF Cache!LookUpPage
    <2> QED
        BY <1>1, <2>1, SMT DEF Coalesced, RequestsOK, RequestSteps, Cache!NobodyWaitsInVain,
           Cache!Idle
<1>3. CASE ~Cache!Live(cacheMemory["page"]) /\ cacheLeader = Cache!Nobody
    <2>1. cacheRequest' = [cacheRequest EXCEPT ![r] = Cache!At("lead")] /\ cacheLeader' = r
        BY <1>3 DEF Cache!LookUpPage
    <2> QED
        BY <1>1, <1>3, <2>1, SMT DEF Coalesced, RequestsOK, RequestSteps, Cache!NobodyWaitsInVain,
           Cache!At
<1>4. CASE ~Cache!Live(cacheMemory["page"]) /\ cacheLeader # Cache!Nobody
    <2>1. cacheRequest' = [cacheRequest EXCEPT ![r] = Cache!At("wait")]
          /\ cacheLeader' = cacheLeader
        BY <1>4 DEF Cache!LookUpPage
    <2> QED
        BY <1>1, <1>4, <2>1, SMT DEF Coalesced, RequestsOK, RequestSteps, Cache!NobodyWaitsInVain,
           Cache!At
<1> QED
    BY <1>2, <1>3, <1>4

\* The end of a build leaves nobody waiting and nobody building.
LEMMA ReleaseCoalesced ==
    ASSUME Coalesced, Cache!Nobody \notin Requests, NEW r \in Requests, NEW built \in BOOLEAN,
           cacheRequest[r].step \in {"lead", "build", "store"},
           cacheRequest' = Cache!Released(r, built), cacheLeader' = Cache!Nobody
    PROVE  Coalesced'
<1>1. \A s \in Requests : cacheRequest'[s] = IF s = r
      \/ cacheRequest[s].step = "wait" THEN Cache!Idle ELSE cacheRequest[s]
    BY DEF Cache!Released
<1>2. RequestsOK'
    BY SMT DEF Coalesced, RequestsOK, RequestSteps, Cache!Released, Cache!Idle
<1>3. \A s \in Requests : cacheRequest[s].step \in {"lead", "build", "store"} => s = r
    BY DEF Coalesced, Cache!NobodyWaitsInVain
<1> QED
    BY <1>1, <1>2, <1>3 DEF Coalesced, Cache!NobodyWaitsInVain, Cache!Idle

LEMMA LeadLookupCoalesced ==
    ASSUME Coalesced, NEW r \in Requests, Cache!LeadLookup(r), Cache!Nobody \notin Requests
    PROVE  Coalesced'
<1>1. cacheRequest[r].step = "lead"
    BY DEF Cache!LeadLookup
<1>2. CASE cacheRequest' = Cache!Released(r, TRUE) /\ cacheLeader' = Cache!Nobody
    BY <1>1, <1>2, ReleaseCoalesced, Zenon
<1>3. CASE cacheRequest' = [cacheRequest EXCEPT ![r] = Cache!At("build")]
           /\ cacheLeader' = cacheLeader
    BY <1>1, <1>3, SMT DEF Coalesced, RequestsOK, RequestSteps, Cache!NobodyWaitsInVain, Cache!At
<1> QED
    BY <1>2, <1>3, Zenon DEF Cache!LeadLookup

LEMMA LeadBuildCoalesced ==
    ASSUME Coalesced, NEW r \in Requests, Cache!LeadBuild(r), Cache!Nobody \notin Requests
    PROVE  Coalesced'
<1>1. cacheRequest[r].step = "build"
    BY DEF Cache!LeadBuild
<1>2. CASE cacheRequest' = Cache!Released(r, FALSE) /\ cacheLeader' = Cache!Nobody
    BY <1>1, <1>2, ReleaseCoalesced, Zenon
<1>3. CASE cacheRequest' = [cacheRequest EXCEPT ![r] = Cache!At("store")]
           /\ cacheLeader' = cacheLeader
    BY <1>1, <1>3, SMT DEF Coalesced, RequestsOK, RequestSteps, Cache!NobodyWaitsInVain, Cache!At
<1> QED
    BY <1>2, <1>3, Zenon DEF Cache!LeadBuild

LEMMA LeadStoreCoalesced ==
    ASSUME Coalesced, NEW r \in Requests, Cache!LeadStore(r), Cache!Nobody \notin Requests
    PROVE  Coalesced'
<1>1. cacheRequest[r].step = "store" /\ cacheRequest' = Cache!Released(r, TRUE)
      /\ cacheLeader' = Cache!Nobody
    BY DEF Cache!LeadStore
<1> QED
    BY <1>1, ReleaseCoalesced, Zenon

LEMMA CancelCoalesced ==
    ASSUME Coalesced, NEW r \in Requests, Cache!Cancel(r), Cache!Nobody \notin Requests
    PROVE  Coalesced'
BY SMT DEF Coalesced, RequestsOK, RequestSteps, Cache!NobodyWaitsInVain, Cache!Cancel, Cache!Idle

\* A restart forgets all of them.
LEMMA RestartCoalesced ==
    ASSUME Cache!Nobody \notin Requests, cacheLeader' = Cache!Nobody,
           cacheRequest' = [s \in Requests |-> Cache!Idle]
    PROVE  Coalesced'
BY SMT DEF Coalesced, RequestsOK, RequestSteps, Cache!NobodyWaitsInVain, Cache!Idle

LEMMA StepCoalesced ==
    ASSUME Coalesced, [Cache!Next]_(Cache!vars), Cache!Nobody \notin Requests
    PROVE  Coalesced'
<1>1. ASSUME NEW r \in Requests, Cache!Handle(r)
      PROVE  Coalesced'
    BY <1>1, LookUpAliasCoalesced, ResolveCoalesced, LookUpPageCoalesced,
       LeadLookupCoalesced, LeadBuildCoalesced, LeadStoreCoalesced DEF Cache!Handle
<1>2. CASE UNCHANGED <<cacheRequest, cacheLeader>>
    BY <1>2 DEF Coalesced, RequestsOK, Cache!NobodyWaitsInVain
<1>3. CASE Cache!RestartAPI \/ Cache!RollOver
    BY <1>3, RestartCoalesced DEF Cache!RestartAPI, Cache!RollOver
<1>4. CASE Cache!PrewarmLookup \/ Cache!PrewarmBuild \/ Cache!storeChampionPageCanonicalAlias
           \/ Cache!PrewarmFails
           \/ Cache!HydrateLoad \/ Cache!HydrateMemory \/ Cache!Tick \/ UNCHANGED Cache!vars
    BY <1>2, <1>4 DEF Cache!PrewarmLookup, Cache!PrewarmBuild,
       Cache!storeChampionPageCanonicalAlias,
       Cache!PrewarmFails, Cache!HydrateLoad, Cache!HydrateMemory, Cache!Tick, Cache!vars
<1> QED
    BY <1>1, <1>3, <1>4, AskCoalesced, CancelCoalesced DEF Cache!Next

-----------------------------------------------------------------------------
(* The entries *)

LEMMA SameTTL ==
    ASSUME UNCHANGED cacheCurrent
    PROVE  Cache!TTL' = Cache!TTL
BY DEF Cache!TTL

LEMMA NoneWithin ==
    ASSUME NEW T \in Nat, NEW n \in {1, 2, 3}
    PROVE  Within(Cache!None, n, T)
BY SMT DEF Within, Cache!None

LEMMA BuiltWithin ==
    ASSUME Cache!CacheAssumption, NEW e, NEW n \in {1, 2, 3}
    PROVE  Within(Cache!NewlyBuilt(e), n, Cache!TTL)
BY TTLBounds, SMT DEF Within, Cache!NewlyBuilt

\* Who takes an entry over adds one time to live.
LEMMA TakenWithin ==
    ASSUME Cache!CacheAssumption, NEW e, NEW n \in {1, 2}, Within(e, n, Cache!TTL)
    PROVE  Within(Cache!Taken(e), n + 1, Cache!TTL)
<1> DEFINE T == Cache!TTL
<1>1. T \in Nat
    BY TTLBounds
<1>2. Cache!Taken(e) = [age |-> e.age, left |-> T]
    BY DEF Cache!Taken
<1>3. Within(e, n, T)
    OBVIOUS
<1> HIDE DEF T
<1>4. Within(Cache!Taken(e), n + 1, T)
    BY <1>1, <1>2, <1>3, SMT DEF Within
<1> QED
    BY <1>4 DEF T

LEMMA WithinMore ==
    ASSUME NEW T \in Nat, NEW e, NEW n \in {1, 2, 3}, NEW m \in {1, 2, 3}, n <= m,
           Within(e, n, T)
    PROVE  Within(e, m, T)
BY SMT DEF Within

LEMMA WithinLonger ==
    ASSUME NEW T \in Nat, NEW U \in Nat, T <= U, NEW e, NEW n \in {1, 2, 3},
           Within(e, n, T)
    PROVE  Within(e, n, U)
BY SMT DEF Within

LEMMA OlderWithin ==
    ASSUME NEW T \in Nat, NEW e, NEW n \in {1, 2, 3}, Within(e, n, T)
    PROVE  Within(Cache!Older(e), n, T)
BY SMT DEF Within, Cache!Older, Cache!None

-----------------------------------------------------------------------------
(* The places *)

Bounded == /\ cacheCurrent \in 1..Len(Currents)
           /\ StoreWithin /\ MemoryWithin /\ PrewarmWithin /\ HydrationWithin

\* What keeps the time to live as it is, and all entries.
LEMMA NothingMoves ==
    ASSUME Bounded, UNCHANGED <<cacheCurrent, cacheStore, cacheMemory, cachePrewarm,
           cacheHydration>>
    PROVE  Bounded'
BY SameTTL DEF Bounded, StoreWithin, MemoryWithin, PrewarmWithin, HydrationWithin

\* One key of memory takes an entry that n places have had before.
LEMMA MemoryTakes ==
    ASSUME Cache!CacheAssumption, MemoryWithin, UNCHANGED cacheCurrent,
           NEW k \in Cache!Keys, NEW e, Within(e, 3, Cache!TTL),
           cacheMemory' = [cacheMemory EXCEPT ![k] = e]
    PROVE  MemoryWithin'
<1>1. Cache!TTL' = Cache!TTL
    BY SameTTL
<1>2. e \in [age : Nat, left : Nat]
    BY DEF Within
<1>3. \A j \in Cache!Keys : cacheMemory'[j] = IF j = k THEN e ELSE cacheMemory[j]
    BY DEF MemoryWithin
<1>4. \A j \in Cache!Keys : Within(cacheMemory'[j], 3, Cache!TTL)
    BY <1>3 DEF MemoryWithin
<1>5. cacheMemory' \in [Cache!Keys -> [age : Nat, left : Nat]]
    BY <1>2 DEF MemoryWithin
<1> QED
    BY <1>1, <1>4, <1>5 DEF MemoryWithin

LEMMA StoreTakes ==
    ASSUME Cache!CacheAssumption, StoreWithin, UNCHANGED cacheCurrent,
           NEW k \in Cache!Keys, NEW e, Within(e, IF k = "page" THEN 1 ELSE 2, Cache!TTL),
           NEW row \in Cache!Rows(k, e), cacheStore' = [cacheStore EXCEPT ![k] = row]
    PROVE  StoreWithin'
<1>1. Cache!TTL' = Cache!TTL
    BY SameTTL
<1>2. row = e \/ row = cacheStore[k]
    BY DEF Cache!Rows
<1>3. k = "page" \/ k = "alias"
    BY DEF Cache!Keys
<1>4. "page" \in Cache!Keys /\ "alias" \in Cache!Keys /\ "page" # "alias"
    BY DEF Cache!Keys
<1>5. Within(row, IF k = "page" THEN 1 ELSE 2, Cache!TTL)
    BY <1>2, <1>3, <1>4 DEF StoreWithin
<1>6. row \in [age : Nat, left : Nat]
    BY <1>5 DEF Within
<1>7. cacheStore' \in [Cache!Keys -> [age : Nat, left : Nat]]
    BY <1>6 DEF StoreWithin
<1>8. cacheStore'["page"] = (IF k = "page" THEN row ELSE cacheStore["page"])
      /\ cacheStore'["alias"] = (IF k = "alias" THEN row ELSE cacheStore["alias"])
    BY <1>4 DEF StoreWithin
<1>9. Within(cacheStore'["page"], 1, Cache!TTL) /\ Within(cacheStore'["alias"], 2, Cache!TTL)
    BY <1>3, <1>4, <1>5, <1>8 DEF StoreWithin
<1> QED
    BY <1>1, <1>7, <1>9 DEF StoreWithin

\* A request fills memory with what it finds stored or builds, and the store
\* with what it builds.
LEMMA HandleBounded ==
    ASSUME Cache!CacheAssumption, Bounded, NEW r \in Requests, Cache!Handle(r)
    PROVE  Bounded'
<1>1. UNCHANGED <<cacheCurrent, cachePrewarm, cacheHydration>>
    BY Zenon DEF Cache!Handle, Cache!LookUpAlias, Cache!resolveChampionPageBundleRequest,
       Cache!LookUpPage,
       Cache!LeadLookup, Cache!LeadBuild, Cache!LeadStore
<1>2. "page" \in Cache!Keys /\ "alias" \in Cache!Keys /\ "page" # "alias" /\ Cache!TTL \in Nat
    BY TTLBounds DEF Cache!Keys
<1>3. Within(Cache!Taken(cacheStore["page"]), 3, Cache!TTL)
      /\ Within(Cache!Taken(cacheStore["alias"]), 3, Cache!TTL)
    <2>1. Within(Cache!Taken(cacheStore["page"]), 1 + 1, Cache!TTL)
        BY TakenWithin DEF Bounded, StoreWithin
    <2>2. Within(Cache!Taken(cacheStore["alias"]), 2 + 1, Cache!TTL)
        BY TakenWithin DEF Bounded, StoreWithin
    <2>3. Within(Cache!Taken(cacheStore["page"]), 2, Cache!TTL)
          /\ Within(Cache!Taken(cacheStore["alias"]), 3, Cache!TTL)
        BY <2>1, <2>2, SMT
    <2> QED
        BY <1>2, <2>3, WithinMore
<1>4. ASSUME NEW k \in Cache!Keys, cacheMemory' = [cacheMemory EXCEPT ![k] = Cache!Hit(@)]
      PROVE  MemoryWithin'
    BY <1>1, <1>4, MemoryTakes, Zenon DEF Bounded, MemoryWithin, Cache!Hit
<1>5. MemoryWithin'
    <2>1. CASE UNCHANGED cacheMemory
        BY <1>1, <2>1, SameTTL DEF Bounded, MemoryWithin
    <2>2. CASE cacheMemory' = [cacheMemory EXCEPT !["page"] = Cache!NewlyBuilt(@)]
        BY <1>1, <1>2, <2>2, MemoryTakes, BuiltWithin, Zenon DEF Bounded
    <2>3. CASE cacheMemory' = [cacheMemory EXCEPT !["page"] = Cache!Taken(cacheStore["page"])]
        BY <1>1, <1>2, <1>3, <2>3, MemoryTakes, Zenon DEF Bounded
    <2>4. CASE cacheMemory' = [cacheMemory EXCEPT !["alias"] = Cache!Taken(cacheStore["alias"])]
        BY <1>1, <1>2, <1>3, <2>4, MemoryTakes, Zenon DEF Bounded
    <2>5. CASE \E k \in Cache!Keys : cacheMemory' = [cacheMemory EXCEPT ![k] = Cache!Hit(@)]
        BY <1>4, <2>5, Zenon
    <2> QED
        BY <1>2, <2>1, <2>2, <2>3, <2>4, <2>5, Zenon DEF Cache!Handle, Cache!LookUpAlias,
           Cache!resolveChampionPageBundleRequest, Cache!LookUpPage, Cache!LeadLookup,
           Cache!LeadBuild, Cache!LeadStore
<1>6. StoreWithin'
    <2>1. CASE UNCHANGED cacheStore
        BY <1>1, <2>1, SameTTL DEF Bounded, StoreWithin
    <2>2. ASSUME NEW row \in Cache!Rows("page", Cache!NewlyBuilt(Cache!None)),
                 cacheStore' = [cacheStore EXCEPT !["page"] = row]
          PROVE  StoreWithin'
        BY <1>1, <1>2, <2>2, StoreTakes, BuiltWithin, Zenon DEF Bounded
    <2> QED
        BY <2>1, <2>2, Zenon DEF Cache!Handle, Cache!LookUpAlias,
           Cache!resolveChampionPageBundleRequest,
           Cache!LookUpPage, Cache!LeadLookup, Cache!LeadBuild, Cache!LeadStore
<1> QED
    BY <1>1, <1>5, <1>6, SameTTL DEF Bounded, PrewarmWithin, HydrationWithin

\* The worker stores a page it has built, or one that lives under the alias.
LEMMA PrewarmBounded ==
    ASSUME Cache!CacheAssumption, Bounded,
           Cache!PrewarmLookup \/ Cache!PrewarmBuild \/ Cache!storeChampionPageCanonicalAlias
           \/ Cache!PrewarmFails
    PROVE  Bounded'
<1>1. UNCHANGED <<cacheCurrent, cacheMemory, cacheHydration>> /\ Cache!TTL' = Cache!TTL
    BY SameTTL DEF Cache!PrewarmLookup, Cache!PrewarmBuild, Cache!storeChampionPageCanonicalAlias,
       Cache!PrewarmFails
<1>2. MemoryWithin' /\ HydrationWithin'
    BY <1>1 DEF Bounded, MemoryWithin, HydrationWithin
<1>3. "page" \in Cache!Keys /\ "alias" \in Cache!Keys /\ "page" # "alias"
    BY DEF Cache!Keys
<1>4. CASE Cache!PrewarmLookup \/ Cache!PrewarmFails
    <2>1. StoreWithin'
        BY <1>1, <1>4 DEF Bounded, StoreWithin, Cache!PrewarmLookup, Cache!PrewarmFails
    <2>2. PrewarmWithin'
        BY <1>1, <1>4 DEF Bounded, StoreWithin, PrewarmWithin, Cache!PrewarmLookup,
           Cache!PrewarmFails,
           Cache!Holding, Cache!At, Cache!Idle
    <2> QED
        BY <1>1, <1>2, <2>1, <2>2 DEF Bounded
<1>5. CASE Cache!PrewarmBuild
    <2>1. StoreWithin'
        BY <1>1, <1>3, <1>5, StoreTakes, BuiltWithin, Zenon DEF Bounded, Cache!PrewarmBuild
    <2>2. PrewarmWithin'
        BY <1>1, <1>5, BuiltWithin DEF PrewarmWithin, Cache!PrewarmBuild, Cache!Holding
    <2> QED
        BY <1>1, <1>2, <2>1, <2>2 DEF Bounded
<1>6. CASE Cache!storeChampionPageCanonicalAlias
    <2>1. Within(Cache!Taken(cachePrewarm.page), 1 + 1, Cache!TTL)
        BY <1>6, TakenWithin DEF Bounded, PrewarmWithin, Cache!storeChampionPageCanonicalAlias
    <2>2. Within(Cache!Taken(cachePrewarm.page), 2, Cache!TTL)
        BY <2>1, SMT
    <2>3. StoreWithin'
        BY <1>1, <1>3, <1>6, <2>2, StoreTakes, Zenon DEF Bounded,
           Cache!storeChampionPageCanonicalAlias
    <2>4. PrewarmWithin'
        BY <1>6 DEF PrewarmWithin, Cache!storeChampionPageCanonicalAlias, Cache!Idle
    <2> QED
        BY <1>1, <1>2, <2>3, <2>4 DEF Bounded
<1> QED
    BY <1>4, <1>5, <1>6

LEMMA HydrationBounded ==
    ASSUME Cache!CacheAssumption, Bounded, Cache!HydrateLoad \/ Cache!HydrateMemory
    PROVE  Bounded'
<1>1. UNCHANGED <<cacheCurrent, cacheStore, cachePrewarm>> /\ Cache!TTL' = Cache!TTL
      /\ Cache!TTL \in Nat
    BY SameTTL, TTLBounds DEF Cache!HydrateLoad, Cache!HydrateMemory
<1>2. StoreWithin' /\ PrewarmWithin'
    BY <1>1 DEF Bounded, StoreWithin, PrewarmWithin
<1>3. CASE Cache!HydrateLoad
    BY <1>1, <1>2, <1>3, Zenon DEF Bounded, StoreWithin, MemoryWithin, HydrationWithin,
       Cache!HydrateLoad
<1>4. CASE Cache!HydrateMemory
    <2>1. Within(Cache!Taken(cacheHydration), 1 + 1, Cache!TTL)
        BY TakenWithin DEF Bounded, HydrationWithin
    <2>2. Within(Cache!Taken(cacheHydration), 2, Cache!TTL)
        BY <2>1, SMT
    <2>3. Within(Cache!Taken(cacheHydration), 3, Cache!TTL)
        BY <1>1, <2>2, WithinMore
    <2>4. Cache!Taken(cacheHydration) \in [age : Nat, left : Nat]
        BY <2>3 DEF Within
    <2>5. MemoryWithin'
        BY <1>1, <1>4, <2>3, <2>4 DEF MemoryWithin, Cache!HydrateMemory
    <2>6. HydrationWithin'
        BY <1>1, <1>4, NoneWithin DEF HydrationWithin, Cache!HydrateMemory
    <2> QED
        BY <1>1, <1>2, <2>5, <2>6 DEF Bounded
<1> QED
    BY <1>3, <1>4

\* Time takes from what is left what it adds to the age, and passes only while
\* nobody carries an entry.
LEMMA TickBounded ==
    ASSUME Cache!CacheAssumption, Bounded, Cache!Tick
    PROVE  Bounded'
<1>1. UNCHANGED <<cacheCurrent, cachePrewarm, cacheHydration>> /\ Cache!TTL' = Cache!TTL
      /\ Cache!TTL \in Nat
    BY SameTTL, TTLBounds DEF Cache!Tick
<1>2. PrewarmWithin' /\ HydrationWithin'
    BY <1>1 DEF Bounded, PrewarmWithin, HydrationWithin
<1>3. \A k \in Cache!Keys : cacheStore'[k] = Cache!Older(cacheStore[k])
      /\ cacheMemory'[k] = Cache!Older(cacheMemory[k])
    BY DEF Cache!Tick
<1>4. ASSUME NEW e \in [age : Nat, left : Nat]
      PROVE  Cache!Older(e) \in [age : Nat, left : Nat]
    BY SMT DEF Cache!Older, Cache!None
<1>5. "page" \in Cache!Keys /\ "alias" \in Cache!Keys
    BY DEF Cache!Keys
<1>6. MemoryWithin'
    <2>1. \A k \in Cache!Keys : Within(cacheMemory'[k], 3, Cache!TTL)
        BY <1>1, <1>3, OlderWithin DEF Bounded, MemoryWithin
    <2>2. cacheMemory' \in [Cache!Keys -> [age : Nat, left : Nat]]
        BY <1>4 DEF Bounded, MemoryWithin, Cache!Tick
    <2> QED
        BY <1>1, <2>1, <2>2 DEF MemoryWithin
<1>7. StoreWithin'
    <2>1. Within(cacheStore'["page"], 1, Cache!TTL) /\ Within(cacheStore'["alias"], 2, Cache!TTL)
        BY <1>1, <1>3, <1>5, OlderWithin DEF Bounded, StoreWithin
    <2>2. cacheStore' \in [Cache!Keys -> [age : Nat, left : Nat]]
        BY <1>4 DEF Bounded, StoreWithin, Cache!Tick
    <2> QED
        BY <1>1, <2>1, <2>2 DEF StoreWithin
<1> QED
    BY <1>1, <1>2, <1>6, <1>7 DEF Bounded

\* What a process keeps in memory starts empty.
LEMMA EmptyMemory ==
    ASSUME Cache!CacheAssumption, Cache!TTL' \in Nat,
           cacheMemory' = [k \in Cache!Keys |-> Cache!None]
    PROVE  MemoryWithin'
<1>1. Cache!None \in [age : Nat, left : Nat]
    BY DEF Cache!None
<1>2. Within(Cache!None, 3, Cache!TTL')
    BY NoneWithin
<1> QED
    BY <1>1, <1>2 DEF MemoryWithin

LEMMA RestartBounded ==
    ASSUME Cache!CacheAssumption, Bounded, Cache!RestartAPI
    PROVE  Bounded'
<1>1. UNCHANGED <<cacheCurrent, cacheStore, cachePrewarm>> /\ Cache!TTL' = Cache!TTL
      /\ Cache!TTL \in Nat
    BY SameTTL, TTLBounds DEF Cache!RestartAPI
<1>2. MemoryWithin'
    BY <1>1, EmptyMemory DEF Cache!RestartAPI
<1>3. HydrationWithin'
    BY <1>1, NoneWithin DEF Cache!RestartAPI, HydrationWithin
<1> QED
    BY <1>1, <1>2, <1>3 DEF Bounded, StoreWithin, PrewarmWithin

\* The stored pages outlive the rollover, with a time to live that has only
\* grown.
LEMMA RollOverBounded ==
    ASSUME Cache!CacheAssumption, Bounded, Cache!RollOver
    PROVE  Bounded'
<1>1. Cache!TTL \in Nat /\ Cache!TTL' \in Nat /\ Cache!TTL <= Cache!TTL'
      /\ cacheCurrent' \in 1..Len(Currents)
    BY TTLBounds, TTLGrows DEF Bounded
<1>2. MemoryWithin'
    BY <1>1, EmptyMemory DEF Cache!RollOver
<1>3. HydrationWithin' /\ PrewarmWithin'
    BY <1>1, NoneWithin DEF Cache!RollOver, HydrationWithin, PrewarmWithin, Cache!Idle
<1>4. Within(cacheStore["page"], 1, Cache!TTL') /\ Within(cacheStore["alias"], 2, Cache!TTL')
    BY <1>1, WithinLonger DEF Bounded, StoreWithin
<1>5. StoreWithin'
    BY <1>4 DEF Bounded, StoreWithin, Cache!RollOver
<1> QED
    BY <1>1, <1>2, <1>3, <1>5 DEF Bounded

LEMMA StepBounded ==
    ASSUME Cache!CacheAssumption, Bounded, [Cache!Next]_(Cache!vars)
    PROVE  Bounded'
<1>1. ASSUME NEW r \in Requests, Cache!Ask(r) \/ Cache!Cancel(r)
      PROVE  Bounded'
    BY <1>1, NothingMoves DEF Cache!Ask, Cache!Cancel
<1>2. CASE UNCHANGED Cache!vars
    BY <1>2, NothingMoves DEF Cache!vars
<1> QED
    BY <1>1, <1>2, HandleBounded, PrewarmBounded, HydrationBounded, TickBounded,
       RestartBounded, RollOverBounded DEF Cache!Next

-----------------------------------------------------------------------------
(* The theorems *)

LEMMA CacheInitially ==
    ASSUME Cache!CacheAssumption, Cache!Init
    PROVE  CacheIInv
<1>1. Cache!TTL \in Nat /\ cacheCurrent \in 1..Len(Currents)
    BY TTLBounds, SMT DEF Cache!Init, Cache!CacheAssumption
<1>2. Cache!None \in [age : Nat, left : Nat] /\ "page" \in Cache!Keys /\ "alias" \in Cache!Keys
    BY DEF Cache!None, Cache!Keys
<1>3. StoreWithin /\ MemoryWithin
    BY <1>1, <1>2, NoneWithin DEF Cache!Init, StoreWithin, MemoryWithin
<1>4. PrewarmWithin /\ HydrationWithin
    BY <1>1, NoneWithin DEF Cache!Init, PrewarmWithin, HydrationWithin, Cache!Idle
<1>5. cacheLeader = Cache!Nobody /\ RequestsOK /\ Cache!NobodyWaitsInVain
    BY DEF Cache!Init, RequestsOK, Cache!NobodyWaitsInVain, RequestSteps, Cache!Idle,
       Cache!CacheAssumption
<1> QED
    BY <1>1, <1>3, <1>4, <1>5 DEF CacheIInv

\* CacheIInv holds of every behaviour.
LEMMA CacheInvariance ==
    ASSUME Cache!CacheAssumption
    PROVE  Cache!Spec => []CacheIInv
<1>1. Cache!Init => CacheIInv
    BY CacheInitially
<1>2. CacheIInv /\ [Cache!Next]_(Cache!vars) => CacheIInv'
    <2> SUFFICES ASSUME CacheIInv, [Cache!Next]_(Cache!vars) PROVE CacheIInv'
        OBVIOUS
    <2>1. Coalesced'
        BY StepCoalesced DEF CacheIInv, Coalesced, Cache!CacheAssumption
    <2>2. Bounded'
        BY StepBounded DEF CacheIInv, Bounded
    <2> QED
        BY <2>1, <2>2 DEF CacheIInv, Coalesced, Bounded
<1> QED
    BY <1>1, <1>2, PTL DEF Cache!Spec

\* An entry in any place lives at most the archived time to live, and is of an
\* age of at most three of them.
LEMMA CacheTypeCorrect ==
    ASSUME Cache!CacheAssumption
    PROVE  Cache!Spec => []Cache!TypeOK
<1>1. ASSUME NEW e, NEW n \in {1, 2, 3}, Within(e, n, Cache!TTL)
      PROVE  e \in Cache!Entries
    <2> DEFINE T == Cache!TTL
    <2>1. T \in Nat /\ T <= ArchivedTTL /\ ArchivedTTL \in Nat /\ Within(e, n, T)
        BY <1>1, TTLBounds DEF Cache!CacheAssumption
    <2> HIDE DEF T
    <2> QED
        BY <2>1, SMT DEF Within, Cache!Entries
<1>2. CacheIInv => Cache!TypeOK
    <2> SUFFICES ASSUME CacheIInv PROVE Cache!TypeOK
        OBVIOUS
    <2>1. \A k \in Cache!Keys : cacheStore[k] \in Cache!Entries
        BY <1>1 DEF CacheIInv, StoreWithin, Cache!Keys
    <2>2. \A k \in Cache!Keys : cacheMemory[k] \in Cache!Entries
        BY <1>1 DEF CacheIInv, MemoryWithin
    <2>3. cacheHydration \in Cache!Entries
        BY <1>1 DEF CacheIInv, HydrationWithin
    <2>4. cacheStore \in [Cache!Keys -> Cache!Entries]
          /\ cacheMemory \in [Cache!Keys -> Cache!Entries]
        BY <2>1, <2>2, Zenon DEF CacheIInv, StoreWithin, MemoryWithin
    <2> QED
        BY <2>3, <2>4 DEF CacheIInv, Cache!TypeOK
<1> QED
    BY <1>2, CacheInvariance, PTL

\* A page a reader gets was built less than three times the time to live ago,
\* however requests, the worker, the hydration, restarts and rollovers
\* interleave (analyticsChampionPage, storeChampionPageCanonicalAlias).
LEMMA CachePagesRecent ==
    ASSUME Cache!CacheAssumption
    PROVE  Cache!Spec => []Cache!PagesAreRecent
<1>1. CacheIInv => Cache!PagesAreRecent
    <2> SUFFICES ASSUME CacheIInv, NEW k \in Cache!Keys, Cache!Live(cacheMemory[k])
                 PROVE  cacheMemory[k].age < 3 * Cache!TTL
        BY DEF Cache!PagesAreRecent
    <2> DEFINE T == Cache!TTL
    <2>1. T \in Nat /\ Within(cacheMemory[k], 3, T)
        BY TTLBounds DEF CacheIInv, MemoryWithin
    <2> HIDE DEF T
    <2>2. cacheMemory[k].age < 3 * T
        BY <2>1, SMT DEF Within, Cache!Live
    <2> QED
        BY <2>2 DEF T
<1> QED
    BY <1>1, CacheInvariance, PTL

\* Nobody waits for a build that is over, for any number of requests
\* (responseFlightGroup.do).
LEMMA CacheStrandsNobody ==
    ASSUME Cache!CacheAssumption
    PROVE  Cache!Spec => []Cache!NobodyWaitsInVain
<1>1. CacheIInv => Cache!NobodyWaitsInVain
    BY DEF CacheIInv
<1> QED
    BY <1>1, CacheInvariance, PTL

-----------------------------------------------------------------------------
(* The composition *)

\* A step of the read side is one of the component or leaves it alone.
LEMMA ItemComposed ==
    ASSUME [Next]_vars
    PROVE  [Item!Next]_(Item!vars)
BY DEF Next, vars, ItemStep, GuideStep, WinStep, ProfileStep, EventsStep, LanesStep,
       PrewarmStep, CacheStep, StayExcept, ItemVars, Item!vars

LEMMA GuideComposed ==
    ASSUME [Next]_vars
    PROVE  [Guide!Next]_(Guide!vars)
BY DEF Next, vars, ItemStep, GuideStep, WinStep, ProfileStep, EventsStep, LanesStep,
       PrewarmStep, CacheStep, StayExcept, GuideVars, Guide!vars

LEMMA WinComposed ==
    ASSUME [Next]_vars
    PROVE  [Win!Next]_(Win!vars)
BY DEF Next, vars, ItemStep, GuideStep, WinStep, ProfileStep, EventsStep, LanesStep,
       PrewarmStep, CacheStep, StayExcept, WinVars, Win!vars

LEMMA ProfileComposed ==
    ASSUME [Next]_vars
    PROVE  [Profile!Next]_(Profile!vars)
BY DEF Next, vars, ItemStep, GuideStep, WinStep, ProfileStep, EventsStep, LanesStep,
       PrewarmStep, CacheStep, StayExcept, ProfileVars, Profile!vars

LEMMA EventsComposed ==
    ASSUME [Next]_vars
    PROVE  [Events!Next]_(Events!vars)
BY DEF Next, vars, ItemStep, GuideStep, WinStep, ProfileStep, EventsStep, LanesStep,
       PrewarmStep, CacheStep, StayExcept, EventsVars, Events!vars

LEMMA LanesComposed ==
    ASSUME [Next]_vars
    PROVE  [Lanes!Next]_(Lanes!vars)
BY DEF Next, vars, ItemStep, GuideStep, WinStep, ProfileStep, EventsStep, LanesStep,
       PrewarmStep, CacheStep, StayExcept, LanesVars, Lanes!vars

LEMMA PrewarmComposed ==
    ASSUME [Next]_vars
    PROVE  [Prewarm!Next]_(Prewarm!vars)
BY DEF Next, vars, ItemStep, GuideStep, WinStep, ProfileStep, EventsStep, LanesStep,
       PrewarmStep, CacheStep, StayExcept, PrewarmVars, Prewarm!vars

LEMMA CacheComposed ==
    ASSUME [Next]_vars
    PROVE  [Cache!Next]_(Cache!vars)
BY DEF Next, vars, ItemStep, GuideStep, WinStep, ProfileStep, EventsStep, LanesStep,
       PrewarmStep, CacheStep, StayExcept, CacheVars, Cache!vars

\* A behaviour of the read side is one of each component.
LEMMA ComponentsRun ==
    Spec => /\ Item!Spec /\ Guide!Spec /\ Win!Spec /\ Profile!Spec
            /\ Events!Spec /\ Lanes!Spec /\ Prewarm!Spec /\ Cache!Spec
<1>1. Init => /\ Item!Init /\ Guide!Init /\ Win!Init /\ Profile!Init
              /\ Events!Init /\ Lanes!Init /\ Prewarm!Init /\ Cache!Init
    BY DEF Init
<1>2. [Next]_vars => [Item!Next]_(Item!vars)
    BY ItemComposed
<1>3. [Next]_vars => [Guide!Next]_(Guide!vars)
    BY GuideComposed
<1>4. [Next]_vars => [Win!Next]_(Win!vars)
    BY WinComposed
<1>5. [Next]_vars => [Profile!Next]_(Profile!vars)
    BY ProfileComposed
<1>6. [Next]_vars => [Events!Next]_(Events!vars)
    BY EventsComposed
<1>7. [Next]_vars => [Lanes!Next]_(Lanes!vars)
    BY LanesComposed
<1>8. [Next]_vars => [Prewarm!Next]_(Prewarm!vars)
    BY PrewarmComposed
<1>9. [Next]_vars => [Cache!Next]_(Cache!vars)
    BY CacheComposed
<1> QED
    BY <1>1, <1>2, <1>3, <1>4, <1>5, <1>6, <1>7, <1>8, <1>9, PTL
    DEF Spec, Item!Spec, Guide!Spec, Win!Spec, Profile!Spec, Events!Spec, Lanes!Spec,
        Prewarm!Spec, Cache!Spec

\* Type correctness of whichever component runs: tables hold stored games and
\* no stamp of the future, jobs, requests and lists the values the code can
\* put there (the structures of the read side, ReadSide.tla).
THEOREM TypeCorrect == Spec => []TypeOK
<1>1. Item!Spec => []Item!TypeOK
    BY Configured, ItemTypeCorrect
<1>2. Guide!Spec => []Guide!TypeOK
    BY Configured, GuideTypeCorrect
<1>3. Win!Spec => []Win!TypeOK
    BY Configured, WinTypeCorrect
<1>4. Profile!Spec => []Profile!TypeOK
    BY Configured, ProfileTypeCorrect
<1>5. Events!Spec => []Events!TypeOK
    BY Configured, EventsTypeCorrect
<1>6. Lanes!Spec => []Lanes!TypeOK
    BY Configured, LanesTypeCorrect
<1>7. Prewarm!Spec => []Prewarm!TypeOK
    BY Configured, PrewarmTypeCorrect
<1>8. Cache!Spec => []Cache!TypeOK
    BY Configured, CacheTypeCorrect
<1>9. Init => scene \in Scenes
    BY DEF Init
<1>10. scene \in Scenes /\ [Next]_vars => (scene \in Scenes)'
    BY DEF Next, vars, ItemStep, GuideStep, WinStep, ProfileStep, EventsStep, LanesStep,
           PrewarmStep, CacheStep, StayExcept
<1>11. /\ scene \in Scenes
       /\ Item!TypeOK /\ Guide!TypeOK /\ Win!TypeOK /\ Profile!TypeOK
       /\ Events!TypeOK /\ Lanes!TypeOK /\ Prewarm!TypeOK /\ Cache!TypeOK
       => TypeOK
    BY Zenon DEF TypeOK, Scenes
<1>12. Spec => [](scene \in Scenes)
    BY <1>9, <1>10, PTL DEF Spec
<1> QED
    BY <1>1, <1>2, <1>3, <1>4, <1>5, <1>6, <1>7, <1>8, <1>11, <1>12, ComponentsRun, PTL

\* A guide keeps what its last complete refresh gave its readers, and shows
\* exactly what a complete refresh compiled, for any number of refreshers,
\* failures and repeated statements (RefreshChampionGuideDerivedAnalytics,
\* champion_guide_derived.go:186).
THEOREM GuideRefines == Spec => GuideStaysReadable
<1>1. Guide!Spec => Guide!GuideStaysReadable
    BY Configured, GuideImplements
<1> QED
    BY <1>1, ComponentsRun, PTL DEF GuideStaysReadable

\* The item tables keep the promise of ReadModel: no statement of a refresh,
\* failed or repeated, takes what the last complete refresh gave its readers,
\* and a complete refresh shows what it compiled and nothing else, for any
\* games, purchases, platforms, batch size and number of refreshers
\* (RefreshItemSlotAnalytics, RefreshStartingLoadoutAnalytics).
THEOREM ItemsKeepTheirReaders == Spec => ItemsStayReadable
<1>1. Item!Spec => Item!Abstract!Spec
    BY Configured, ItemImplements
<1> QED
    BY <1>1, ComponentsRun, PTL DEF ItemsStayReadable

\* A roll-up of the win conditions that has its second to itself leaves under
\* ALL the sum of the platforms, key by key, whatever earlier refreshes left
\* half done, for any matches, platforms and refreshes
\* (refreshAllPlatformWinConditionMetrics, winconditions.go:775).
THEOREM AllRowsAddUp == Spec => AllIsTheSum
<1>1. Win!Spec => Win!AllIsTheSum
    BY Configured, WinsAddUp
<1> QED
    BY <1>1, ComponentsRun, PTL DEF AllIsTheSum

\* No part of a player's page loses a match between the request and the last
\* query, and no refresh takes the icon away, for any matches, refreshes and
\* failures (RefreshSummonerProfileAnalytics).
THEOREM ReadersKeepTheirMatches == Spec => ReadersLoseNothing
<1>1. Profile!Spec => Profile!ReadersLoseNothing
    BY Configured, ProfileLosesNothing
<1> QED
    BY <1>1, ComponentsRun, PTL DEF ReadersLoseNothing

\* A refresh that nothing disturbs leaves one row of a match in the recent
\* matches, whichever account names it was stored under before
\* (deleteOldSummonerProfileRows).
THEOREM MatchesAreListedOnce == Spec => RecentMatchOnce
<1>1. Profile!Spec => Profile!RecentMatchOnce
    BY Configured, ProfileListsOnce
<1> QED
    BY <1>1, ComponentsRun, PTL DEF RecentMatchOnce

\* A backfill that ends skipped no match, and no table gets the rows of a match
\* twice unless a collector and a backfill meet in it, for any stops of the
\* collector and any number of backfills (BackfillChampionGuideEvents).
THEOREM EventsAreBackfilledOnce == Spec => EventsBackfilledOnce
<1>1. Events!Spec => Events!EventsBackfilledOnce
    BY Configured, EventsComplete
<1> QED
    BY <1>1, ComponentsRun, PTL DEF EventsBackfilledOnce

\* A due lane is passed at most once by each other lane switched on, for any
\* intervals and however long runs take (runNextRefreshSchedulerLane,
\* refresh_lanes.go:117).
THEOREM EveryLaneGetsItsTurn == Spec => []NoLaneIsStarved
<1>1. Lanes!Spec => []Lanes!NoLaneIsStarved
    BY Configured, LanesTakeTurns
<1> QED
    BY <1>1, ComponentsRun, PTL DEF NoLaneIsStarved

\* The hydration waits for no patch that the worker will not build, whatever
\* is collected and whenever either process restarts
\* (championPageHydrationPatchList, prewarmHistoricalChampionPages).
THEOREM EveryListedPatchIsBuilt == Spec => []HydratedPatchesArePrewarmed
<1>1. Prewarm!Spec => []Prewarm!HydratedPatchesArePrewarmed
    BY Configured, PrewarmReachesList
<1> QED
    BY <1>1, ComponentsRun, PTL DEF HydratedPatchesArePrewarmed

\* A page a reader gets was built less than three times the time to live ago,
\* however requests, the worker, the hydration, restarts and rollovers
\* interleave (analyticsChampionPage, storeChampionPageCanonicalAlias).
THEOREM PagesStayRecent == Spec => []PagesAreRecent
<1>1. Cache!Spec => []Cache!PagesAreRecent
    BY Configured, CachePagesRecent
<1> QED
    BY <1>1, ComponentsRun, PTL DEF PagesAreRecent

\* Nobody waits for a build that is over, for any number of requests
\* (responseFlightGroup.do).
THEOREM NobodyIsStranded == Spec => []NobodyWaitsInVain
<1>1. Cache!Spec => []Cache!NobodyWaitsInVain
    BY Configured, CacheStrandsNobody
<1> QED
    BY <1>1, ComponentsRun, PTL DEF NobodyWaitsInVain

=============================================================================
