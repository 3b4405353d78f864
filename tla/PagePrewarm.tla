----------------------------- MODULE PagePrewarm -----------------------------
(* Who builds the champion pages and who waits for them: the worker's      *)
(* prewarm at start and in its guide lane                                  *)
(* (src/core/cmd/worker/refresh_lanes.go), and the loop of the API that    *)
(* brings the stored pages of every selectable patch into memory           *)
(* (src/core/cmd/api/main.go).  Each process makes its own list of patches *)
(* once, from the matches stored at that moment; the API asks again every  *)
(* few seconds until every page of its list is there, and never builds one *)
(* itself.                                                                 *)
(*                                                                         *)
(* A page is a stored page of every champion of a patch.  That pages       *)
(* expire is the matter of PageCache.                                      *)

EXTENDS PatchWindows, FiniteSets

CONSTANTS
    Seasons,                \* the patches there may be, oldest first
    Archive,                \* how many of them are archived at the start
    Retention,              \* CollectorPatchRetention
    Mature                  \* bound: matches counted, the five thousand that
                            \* make a patch mature

PrewarmAssumption ==
    /\ Seasons \in Seq(Nat \X (Nat \ {0}))
    /\ \A i, j \in DOMAIN Seasons : i < j => Before(Seasons[i], Seasons[j])
    /\ Archive \in 0..(Len(Seasons) - 1)
    /\ Retention \in Int
    /\ Mature \in Nat

VARIABLES
    current,                \* CollectorCurrentPatch of both processes
    games,                  \* matches per patch
    worker,                 \* what the worker's prewarm is at
    prewarmed,              \* patches whose pages were all stored
    api                     \* the API's list and what it has loaded of it

vars == <<current, games, worker, prewarmed, api>>

Patches == ToSet(Seasons)
Window == ToSet(PatchWindow(current, Retention))

Down == [step |-> "down"]
NoList == [patches |-> <<>>, hydrated |-> {}, known |-> FALSE, ready |-> FALSE]

Init ==
    /\ current = Seasons[Archive + 1]
    /\ games \in [Patches -> 0..Mature]
    /\ \A p \in Patches : games[p] > 0 => Before(p, current)
    /\ worker = Down
    /\ prewarmed = {}
    /\ api = NoList

\* The collector stores matches of the window only.
Collect(p) ==
    /\ p \in Window \intersect Patches
    /\ games[p] < Mature
    /\ games' = [games EXCEPT ![p] = @ + 1]
    /\ UNCHANGED <<current, worker, prewarmed, api>>

\* The next patch is out: both processes are started again with it.
RollOver ==
    /\ \E i \in 2..Len(Seasons) : Seasons[i - 1] = current /\ current' = Seasons[i]
    /\ worker' = Down
    /\ api' = NoList
    /\ UNCHANGED <<games, prewarmed>>

-----------------------------------------------------------------------------
(* The worker *)

\* PatchStats fails to empty statistics.
Stats(known) == IF known THEN games ELSE [p \in {} |-> 0]

\* What was stored before may have expired.
prewarmChampionPagesOnStartup ==
    /\ worker = Down
    /\ \E known \in BOOLEAN :
          worker' = [step |-> "startup", known |-> known, failed |-> FALSE, gaps |-> TRUE,
              todo |-> championPageStartupPrewarmPatchList(current, Retention, Stats(known), Mature),
              archived |-> championPageArchivedPrewarmPatchList(current, Stats(known), Mature)]
    /\ prewarmed' \in SUBSET prewarmed
    /\ UNCHANGED <<current, games, api>>

\* The current patch, and of the other one the champions whose guide is empty
\* in the current one, if any.
PrewarmStartupPatch ==
    /\ worker.step = "startup" /\ worker.todo # <<>>
    /\ \E failed \in BOOLEAN, gaps \in BOOLEAN :
          /\ failed => worker.gaps
          /\ worker' = [worker EXCEPT !.todo = IF failed THEN <<>> ELSE Tail(@),
                                      !.gaps = gaps, !.failed = failed]
          /\ prewarmed' = IF ~failed /\ Head(worker.todo) = current
                          THEN prewarmed \union {current} ELSE prewarmed
    /\ UNCHANGED <<current, games, api>>

\* An error of the startup patches leaves the archive for the next start.
EndStartup ==
    /\ worker.step = "startup" /\ worker.todo = <<>>
    /\ worker' = [worker EXCEPT !.step = IF worker.failed THEN "lanes" ELSE "archived",
                                !.todo = worker.archived]
    /\ UNCHANGED <<current, games, prewarmed, api>>

\* After a grace the older patches, whatever fails.
prewarmArchivedChampionPagesOnStartup ==
    /\ worker.step = "archived"
    /\ IF worker.todo = <<>>
       THEN worker' = [worker EXCEPT !.step = "lanes"] /\ UNCHANGED prewarmed
       ELSE \E failed \in BOOLEAN :
              /\ worker' = [worker EXCEPT !.todo = Tail(@), !.failed = @ \/ failed]
              /\ prewarmed' = IF failed THEN prewarmed
                              ELSE prewarmed \union {Head(worker.todo)}
    /\ UNCHANGED <<current, games, api>>

\* The guide lane prewarms the retained patches, again and again.
PrewarmRetained ==
    /\ worker.step = "lanes"
    /\ \E done \in SUBSET (Window \ prewarmed) : prewarmed' = prewarmed \union done
    /\ prewarmed' # prewarmed
    /\ UNCHANGED <<current, games, worker, api>>

RestartWorker ==
    /\ worker # Down
    /\ worker' = Down
    /\ UNCHANGED <<current, games, prewarmed, api>>

-----------------------------------------------------------------------------
(* The API *)

maintainChampionPageMemoryCache ==
    /\ api = NoList
    /\ \E known \in BOOLEAN :
          api' = [patches |-> championPageHydrationPatchList(current, Retention, Stats(known), Mature),
                  hydrated |-> {}, known |-> known, ready |-> FALSE]
    /\ UNCHANGED <<current, games, worker, prewarmed>>

\* A round: the current patch, the champions it lacks from the next one (which
\* the round waits for), then every other patch not loaded yet.  A retained
\* patch is loaded again in every later round, an archived one is not.
HydrateChampionPageBundles ==
    /\ api # NoList
    /\ current \in prewarmed
    /\ LET others == ToSet(Tail(api.patches))
       IN  \E failed \in SUBSET others :
              LET hydrated == api.hydrated \union ((others \intersect prewarmed) \ failed)
                  ready == others \subseteq hydrated
              IN  api' = [api EXCEPT !.ready = ready,
                                     !.hydrated = IF ready THEN hydrated \ Window ELSE hydrated]
    /\ api' # api
    /\ UNCHANGED <<current, games, worker, prewarmed>>

RestartAPI ==
    /\ api # NoList
    /\ api' = NoList
    /\ UNCHANGED <<current, games, worker, prewarmed>>

Next ==
    \/ \E p \in Patches : Collect(p)
    \/ RollOver
    \/ prewarmChampionPagesOnStartup
    \/ PrewarmStartupPatch
    \/ EndStartup
    \/ prewarmArchivedChampionPagesOnStartup
    \/ PrewarmRetained
    \/ RestartWorker
    \/ maintainChampionPageMemoryCache
    \/ HydrateChampionPageBundles
    \/ RestartAPI

Spec == Init /\ [][Next]_vars

-----------------------------------------------------------------------------
(* Properties *)

TypeOK ==
    /\ current \in Patches
    /\ games \in [Patches -> 0..Mature]
    /\ worker.step \in {"down", "startup", "archived", "lanes"}
    /\ \A p \in prewarmed : ~Before(current, p)
    /\ api.hydrated \subseteq ToSet(api.patches)

\* The API never waits for a patch that nobody builds: once a worker has come
\* through its start without an error, every patch of the API's list, drawn up
\* at another moment and by other code, is stored or is one the guide lane
\* keeps building (championPageHydrationPatchList, cmd/api/main.go:160;
\* championPageArchivedPrewarmPatchList, refresh_lanes.go:294).
HydratedPatchesArePrewarmed ==
    (worker.step = "lanes" /\ worker.known /\ ~worker.failed) =>
        ToSet(api.patches) \subseteq prewarmed \union Window

=============================================================================
