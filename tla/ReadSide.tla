------------------------------ MODULE ReadSide ------------------------------
(* The read side: the modules of the compiled read models, of their        *)
(* scheduling and of the pages made from them.  They share no variable, so *)
(* nothing is learnt from running them together: a behaviour runs one of   *)
(* them, its scene, and the variables of the others keep one value.        *)

EXTENDS Integers, Sequences, FiniteSets

CONSTANTS
    Games, WinGames,        \* stored games, or matches
    Platforms, PlatformOf,  \* where they were played
    Refreshers,             \* the processes that compile
    BatchSize, MaxRuns,
    Layouts, Won, Bought, Cost, CompletionItems, StartingItems, StartWindow,
    FirstWindow, BurstWindow, GoldCap,                              \* ItemSlots
    Skilled, Banned, Matched, Runed, Cored, Second, Margin, Pause,  \* GuideModels
    Sides, Players, StartRank, Roster, Full, Conditions, Primary,
    Length,                                                         \* WinConditions
    Archived, ChampionOf, Placed, Built, Icons,                     \* SummonerPages
    Eventful, MaxCrashes,                                           \* EventBackfill
    Intervals, Configurations,                                      \* RefreshScheduler
    Seasons, Archive, Retention, Mature,                            \* PagePrewarm
    Patch, Currents, PageRetention, CurrentTTL, ArchivedTTL,
    Requests                                                        \* PageCache

VARIABLES
    scene,                  \* the part that runs
    itemTable, itemPlatformOf, itemStored, itemClosed, itemRows, itemClock,
    itemRuns, itemJob, itemComplete, itemTrusted,
    guideWatched, guideStored, guideRankOf, guideRows, guideClock, guideRuns,
    guideJob, guideComplete, guideMoved,
    winStored, winRankOf, winTeams, winMetrics, winClock, winRuns, winJob,
    profileWatched, profileStored, profileRaw, profilePruned, profileNamed,
    profileAccount, profileRows, profileIdentity, profileClock, profileRuns,
    profileJob, profileComplete, profilePage,
    eventsCopies, eventsIngest, eventsCrashes, eventsRuns, eventsJob,
    eventsRaced,
    lanesEnabled, lanesSince, lanesNextLane, lanesRunning, lanesAsleep,
    lanesPassed,
    prewarmCurrent, prewarmGames, prewarmWorker, prewarmPrewarmed, prewarmApi,
    cacheCurrent, cacheStore, cacheMemory, cacheRequest, cacheLeader,
    cachePrewarm, cacheHydration

ItemVars == <<itemTable, itemPlatformOf, itemStored, itemClosed, itemRows,
              itemClock, itemRuns, itemJob, itemComplete, itemTrusted>>
GuideVars == <<guideWatched, guideStored, guideRankOf, guideRows, guideClock,
               guideRuns, guideJob, guideComplete, guideMoved>>
WinVars == <<winStored, winRankOf, winTeams, winMetrics, winClock, winRuns,
             winJob>>
ProfileVars == <<profileWatched, profileStored, profileRaw, profilePruned,
                 profileNamed, profileAccount, profileRows, profileIdentity,
                 profileClock, profileRuns, profileJob, profileComplete,
                 profilePage>>
EventsVars == <<eventsCopies, eventsIngest, eventsCrashes, eventsRuns,
                eventsJob, eventsRaced>>
LanesVars == <<lanesEnabled, lanesSince, lanesNextLane, lanesRunning,
               lanesAsleep, lanesPassed>>
PrewarmVars == <<prewarmCurrent, prewarmGames, prewarmWorker,
                 prewarmPrewarmed, prewarmApi>>
CacheVars == <<cacheCurrent, cacheStore, cacheMemory, cacheRequest,
               cacheLeader, cachePrewarm, cacheHydration>>

-----------------------------------------------------------------------------
(* The components *)

Item == INSTANCE ItemSlots WITH SummaryOnly <- FALSE,
    table <- itemTable, platformOf <- itemPlatformOf, stored <- itemStored,
    closed <- itemClosed, rows <- itemRows, clock <- itemClock,
    runs <- itemRuns, job <- itemJob, complete <- itemComplete,
    trusted <- itemTrusted

Guide == INSTANCE GuideModels WITH watched <- guideWatched,
    stored <- guideStored, rankOf <- guideRankOf, rows <- guideRows,
    clock <- guideClock, runs <- guideRuns, job <- guideJob,
    complete <- guideComplete, moved <- guideMoved

Win == INSTANCE WinConditions WITH Games <- WinGames, stored <- winStored,
    rankOf <- winRankOf, teams <- winTeams, metrics <- winMetrics,
    clock <- winClock, runs <- winRuns, job <- winJob

Profile == INSTANCE SummonerPages WITH Matches <- Games,
    watched <- profileWatched, stored <- profileStored, raw <- profileRaw,
    pruned <- profilePruned, named <- profileNamed,
    account <- profileAccount, rows <- profileRows,
    identity <- profileIdentity, clock <- profileClock, runs <- profileRuns,
    job <- profileJob, complete <- profileComplete, page <- profilePage

Events == INSTANCE EventBackfill WITH Matches <- Games,
    copies <- eventsCopies, ingest <- eventsIngest,
    crashes <- eventsCrashes, runs <- eventsRuns, job <- eventsJob,
    raced <- eventsRaced

Lanes == INSTANCE RefreshScheduler WITH enabled <- lanesEnabled,
    since <- lanesSince, nextLane <- lanesNextLane, running <- lanesRunning,
    asleep <- lanesAsleep, passed <- lanesPassed

Prewarm == INSTANCE PagePrewarm WITH current <- prewarmCurrent,
    games <- prewarmGames, worker <- prewarmWorker,
    prewarmed <- prewarmPrewarmed, api <- prewarmApi

Cache == INSTANCE PageCache WITH Retention <- PageRetention,
    current <- cacheCurrent, store <- cacheStore, memory <- cacheMemory,
    request <- cacheRequest, leader <- cacheLeader, prewarm <- cachePrewarm,
    hydration <- cacheHydration

ASSUME Configured ==
    /\ Item!ItemAssumption /\ Guide!GuideAssumption /\ Win!WinAssumption
    /\ Events!BackfillAssumption
    /\ Lanes!SchedulerAssumption /\ Prewarm!PrewarmAssumption /\ Cache!CacheAssumption

-----------------------------------------------------------------------------
(* The composition *)

Scenes == {"items", "guide", "wins", "profile", "events", "lanes", "prewarm", "cache"}

Init ==
    /\ scene \in Scenes
    /\ Item!Init /\ Guide!Init /\ Win!Init /\ Profile!Init
    /\ Events!Init /\ Lanes!Init /\ Prewarm!Init /\ Cache!Init
    /\ scene = "items"   \/ /\ itemTable = CHOOSE t \in Item!Tables : TRUE
                            /\ itemPlatformOf = CHOOSE l \in Layouts : TRUE
    /\ scene = "guide"   \/ guideWatched = CHOOSE t \in Guide!Tables : TRUE
    /\ scene = "profile" \/ profileWatched = CHOOSE t \in Profile!Tables : TRUE
    /\ scene = "lanes"   \/ lanesEnabled = DOMAIN Intervals
    /\ scene = "prewarm" \/ \A p \in Prewarm!Patches : prewarmGames[p] = 0

StayExcept(s) ==
    /\ UNCHANGED scene
    /\ IF s = "items"   THEN TRUE ELSE UNCHANGED ItemVars
    /\ IF s = "guide"   THEN TRUE ELSE UNCHANGED GuideVars
    /\ IF s = "wins"    THEN TRUE ELSE UNCHANGED WinVars
    /\ IF s = "profile" THEN TRUE ELSE UNCHANGED ProfileVars
    /\ IF s = "events"  THEN TRUE ELSE UNCHANGED EventsVars
    /\ IF s = "lanes"   THEN TRUE ELSE UNCHANGED LanesVars
    /\ IF s = "prewarm" THEN TRUE ELSE UNCHANGED PrewarmVars
    /\ IF s = "cache"   THEN TRUE ELSE UNCHANGED CacheVars

ItemStep    == scene = "items"   /\ Item!Next    /\ StayExcept("items")
GuideStep   == scene = "guide"   /\ Guide!Next   /\ StayExcept("guide")
WinStep     == scene = "wins"    /\ Win!Next     /\ StayExcept("wins")
ProfileStep == scene = "profile" /\ Profile!Next /\ StayExcept("profile")
EventsStep  == scene = "events"  /\ Events!Next  /\ StayExcept("events")
LanesStep   == scene = "lanes"   /\ Lanes!Next   /\ StayExcept("lanes")
PrewarmStep == scene = "prewarm" /\ Prewarm!Next /\ StayExcept("prewarm")
CacheStep   == scene = "cache"   /\ Cache!Next   /\ StayExcept("cache")

Next ==
    \/ ItemStep
    \/ GuideStep
    \/ WinStep
    \/ ProfileStep
    \/ EventsStep
    \/ LanesStep
    \/ PrewarmStep
    \/ CacheStep

vars == <<scene, ItemVars, GuideVars, WinVars, ProfileVars, EventsVars, LanesVars,
          PrewarmVars, CacheVars>>

Spec == Init /\ [][Next]_vars

-----------------------------------------------------------------------------
(* Properties, each stated and explained in its module *)

TypeOK ==
    CASE scene = "items"   -> Item!TypeOK
      [] scene = "guide"   -> Guide!TypeOK
      [] scene = "wins"    -> Win!TypeOK
      [] scene = "profile" -> Profile!TypeOK
      [] scene = "events"  -> Events!TypeOK
      [] scene = "lanes"   -> Lanes!TypeOK
      [] scene = "prewarm" -> Prewarm!TypeOK
      [] scene = "cache"   -> Cache!TypeOK

\* The item tables keep the promise of ReadModel.
ItemsStayReadable == Item!Abstract!Spec

\* A refresh of the item tables counts each game once per level.
ItemsCountedOncePerLevel == Item!CountedOncePerLevel

\* The guide tables keep the promise of ReadModel.
GuideStaysReadable == Guide!GuideStaysReadable

\* A failed refresh of the guide tables takes nothing from their readers.
FailedRefreshKeepsSnapshot == Guide!FailedRefreshKeepsSnapshot

\* An undisturbed refresh of the guide tables is exact.
GuideRefreshIsExact == Guide!QuietRefreshIsExact

\* The ALL rows of the win conditions are the sum of the platforms'.
AllIsTheSum == Win!AllIsTheSum

\* Metrics and validation agree on the win conditions.
ValidationAgrees == Win!ValidationAgrees

\* Nothing goes from a player's page while it is read.
ReadersLoseNothing == Profile!ReadersLoseNothing

\* A match is listed once on its player's page.
RecentMatchOnce == Profile!RecentMatchOnce

\* Backfilled events are complete, and there once.
EventsBackfilledOnce == Events!EventsBackfilledOnce

\* Every due lane gets its turn.
NoLaneIsStarved == Lanes!NoLaneIsStarved

\* The API waits for no patch that nobody builds.
HydratedPatchesArePrewarmed == Prewarm!HydratedPatchesArePrewarmed

\* No reader gets a page older than three times its time to live.
PagesAreRecent == Cache!PagesAreRecent

\* A page of a retained patch expires after its time to live.
RetainedBundlesExpire == Cache!RetainedBundlesExpire

\* No request waits for a build that is over.
NobodyWaitsInVain == Cache!NobodyWaitsInVain

=============================================================================
