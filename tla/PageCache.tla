------------------------------ MODULE PageCache ------------------------------
(* The champion page of one champion and patch on its way from the read    *)
(* models to a reader: the response cache and the coalesced builds of the  *)
(* API (src/core/internal/api/analytics_handlers.go, http_helpers.go), the *)
(* stored bundles (src/core/internal/clickhouse/accounts.go), and the      *)
(* worker's prewarm and the API's hydration that fill them                 *)
(* (src/core/internal/api/champion_page_prewarm.go).                       *)
(*                                                                         *)
(* A page is kept under two keys: that of its role, and the alias of a     *)
(* request that names no role.  Each place stamps a page with the whole    *)
(* time to live when it takes it over, wherever it comes from and however  *)
(* old it is.  An entry is [age, left]: the time since the page was built, *)
(* and the time until the entry expires.                                   *)
(*                                                                         *)
(* Everything a request or the worker does between two looks at the clock  *)
(* has a timeout of seconds or minutes; the unit of time is the hour, and  *)
(* it passes between such spells.                                          *)

EXTENDS PatchWindows, FiniteSets

CONSTANTS
    Patch,                  \* the patch of the page
    Currents,               \* the values CollectorCurrentPatch takes in turn
    Retention,              \* CollectorPatchRetention
    CurrentTTL,             \* championPageBundleCurrentCacheTTL
    ArchivedTTL,            \* championPageBundleArchivedCacheTTL
    Requests                \* requests handled at a time

Keys == {"page", "alias"}
Nobody == "nobody"

\* What the configuration guarantees: an archived page is kept at least as
\* long as a current one, and a patch that has left the window stays out.
CacheAssumption ==
    /\ CurrentTTL \in Nat
    /\ ArchivedTTL \in Nat
    /\ CurrentTTL <= ArchivedTTL
    /\ Len(Currents) \in Nat \ {0}
    /\ \A i \in 1..Len(Currents) : i < Len(Currents) =>
          (PatchInWindow(Patch, Currents[i + 1], Retention) =>
               PatchInWindow(Patch, Currents[i], Retention))
    /\ Nobody \notin Requests

VARIABLES
    current,                \* index into Currents
    store,                  \* champion_page_bundle_cache: the newest row of a key
    memory,                 \* the API's response cache
    request,                \* what each request handler is at
    leader,                 \* of the build under way, whom followers wait for
    prewarm,                \* what the worker is at
    hydration               \* the row the API's hydration has read

vars == <<current, store, memory, request, leader, prewarm, hydration>>

TTL == IF PatchInWindow(Patch, Currents[current], Retention) THEN CurrentTTL ELSE ArchivedTTL

None == [age |-> 0, left |-> 0]
Live(e) == e.left > 0
NewlyBuilt(e) == [age |-> 0, left |-> TTL]
Taken(e) == [age |-> e.age, left |-> TTL]

\* A bug: a hit renews the entry.
Renewed(e) == Taken(e)
Hit(e) == e

\* Two rows of one second: either may be taken for the newest.
Rows(k, e) == {e} \union {s \in {store[k]} : s.left = TTL}

Idle == [step |-> "idle"]
At(step) == [step |-> step]
Holding(step, e) == [step |-> step, page |-> e]

Init ==
    /\ current = 1
    /\ store = [k \in Keys |-> None]
    /\ memory = [k \in Keys |-> None]
    /\ request = [r \in Requests |-> Idle]
    /\ leader = Nobody
    /\ prewarm = Idle
    /\ hydration = None

-----------------------------------------------------------------------------
(* A request *)

\* analyticsChampionPage: a request without a role begins with the alias.
Ask(r) ==
    /\ request[r] = Idle
    /\ \E step \in {"alias", "memory"} : request' = [request EXCEPT ![r] = At(step)]
    /\ UNCHANGED <<current, store, memory, leader, prewarm, hydration>>

\* The alias in memory, or stored, unless the lookup fails.
LookUpAlias(r) ==
    /\ request[r].step = "alias"
    /\ \/ /\ Live(memory["alias"])
          /\ memory' = [memory EXCEPT !["alias"] = Hit(@)]
          /\ request' = [request EXCEPT ![r] = Idle]
       \/ /\ ~Live(memory["alias"])
          /\ Live(store["alias"])
          /\ memory' = [memory EXCEPT !["alias"] = Taken(store["alias"])]
          /\ request' = [request EXCEPT ![r] = Idle]
       \/ /\ ~Live(memory["alias"])
          /\ request' = [request EXCEPT ![r] = At("resolve")]
          /\ UNCHANGED memory
    /\ UNCHANGED <<current, store, leader, prewarm, hydration>>

\* The champion's role is looked up, or the request fails.
resolveChampionPageBundleRequest(r) ==
    /\ request[r].step = "resolve"
    /\ \E step \in {"memory", "idle"} : request' = [request EXCEPT ![r] = At(step)]
    /\ UNCHANGED <<current, store, memory, leader, prewarm, hydration>>

\* A miss in memory joins the build under way or leads one.
LookUpPage(r) ==
    /\ request[r].step = "memory"
    /\ IF Live(memory["page"])
       THEN /\ memory' = [memory EXCEPT !["page"] = Hit(@)]
            /\ request' = [request EXCEPT ![r] = Idle]
            /\ UNCHANGED leader
       ELSE /\ leader' = IF leader = Nobody THEN r ELSE leader
            /\ request' = [request EXCEPT ![r] = At(IF leader = Nobody THEN "lead" ELSE "wait")]
            /\ UNCHANGED memory
    /\ UNCHANGED <<current, store, prewarm, hydration>>

\* A bug: only a page that was built ends the wait of the followers.
ReleasedByPage(r, built) ==
    [s \in Requests |-> IF s = r \/ (built /\ request[s].step = "wait") THEN Idle ELSE request[s]]

\* The end of a build, well or not, is the followers' too.
Released(r, built) ==
    [s \in Requests |-> IF s = r \/ request[s].step = "wait" THEN Idle ELSE request[s]]

\* The leader looks again in memory, then in the store.
LeadLookup(r) ==
    /\ request[r].step = "lead"
    /\ \/ /\ Live(memory["page"])
          /\ request' = Released(r, TRUE) /\ leader' = Nobody
          /\ memory' = [memory EXCEPT !["page"] = Hit(@)]
       \/ /\ ~Live(memory["page"]) /\ Live(store["page"])
          /\ memory' = [memory EXCEPT !["page"] = Taken(store["page"])]
          /\ request' = Released(r, TRUE) /\ leader' = Nobody
       \/ /\ ~Live(memory["page"])
          /\ request' = [request EXCEPT ![r] = At("build")]
          /\ UNCHANGED <<memory, leader>>
    /\ UNCHANGED <<current, store, prewarm, hydration>>

\* The build, whose context is not the client's, ends within its timeout.
LeadBuild(r) ==
    /\ request[r].step = "build"
    /\ \/ /\ memory' = [memory EXCEPT !["page"] = NewlyBuilt(@)]
          /\ request' = [request EXCEPT ![r] = At("store")]
          /\ UNCHANGED leader
       \/ /\ request' = Released(r, FALSE) /\ leader' = Nobody
          /\ UNCHANGED memory
    /\ UNCHANGED <<current, store, prewarm, hydration>>

\* The page is stored, or that fails unnoticed; then everybody is answered.
LeadStore(r) ==
    /\ request[r].step = "store"
    /\ \/ \E row \in Rows("page", NewlyBuilt(None)) : store' = [store EXCEPT !["page"] = row]
       \/ UNCHANGED store
    /\ request' = Released(r, TRUE) /\ leader' = Nobody
    /\ UNCHANGED <<current, memory, prewarm, hydration>>

\* A client that goes away ends the wait of its handler, not the build.
Cancel(r) ==
    /\ request[r].step \in {"alias", "resolve", "wait"}
    /\ request' = [request EXCEPT ![r] = Idle]
    /\ UNCHANGED <<current, store, memory, leader, prewarm, hydration>>

Handle(r) ==
    \/ LookUpAlias(r)
    \/ resolveChampionPageBundleRequest(r)
    \/ LookUpPage(r)
    \/ LeadLookup(r)
    \/ LeadBuild(r)
    \/ LeadStore(r)

-----------------------------------------------------------------------------
(* The worker and the hydration *)

\* prewarmChampionPageBundle: a stored page that lives is kept, and the alias
\* stored again from it.
PrewarmLookup ==
    /\ prewarm = Idle
    /\ prewarm' = IF Live(store["page"]) THEN Holding("alias", store["page"]) ELSE At("build")
    /\ UNCHANGED <<current, store, memory, request, leader, hydration>>

PrewarmBuild ==
    /\ prewarm.step = "build"
    /\ \E row \in Rows("page", NewlyBuilt(None)) : store' = [store EXCEPT !["page"] = row]
    /\ prewarm' = Holding("alias", NewlyBuilt(None))
    /\ UNCHANGED <<current, memory, request, leader, hydration>>

storeChampionPageCanonicalAlias ==
    /\ prewarm.step = "alias"
    /\ \E row \in Rows("alias", Taken(prewarm.page)) : store' = [store EXCEPT !["alias"] = row]
    /\ prewarm' = Idle
    /\ UNCHANGED <<current, memory, request, leader, hydration>>

\* A failed lookup, build or insert, or a restart of the worker.
PrewarmFails ==
    /\ prewarm # Idle
    /\ prewarm' = Idle
    /\ UNCHANGED <<current, store, memory, request, leader, hydration>>

\* hydrateChampionPageRequests: the rows are read first, and those that live
\* are put under both keys.
HydrateLoad ==
    /\ hydration = None
    /\ Live(store["page"])
    /\ hydration' = store["page"]
    /\ UNCHANGED <<current, store, memory, request, leader, prewarm>>

HydrateMemory ==
    /\ hydration # None
    /\ memory' = [k \in Keys |-> Taken(hydration)]
    /\ hydration' = None
    /\ UNCHANGED <<current, store, request, leader, prewarm>>

-----------------------------------------------------------------------------

Older(e) == IF e.left > 1 THEN [age |-> e.age + 1, left |-> e.left - 1] ELSE None

Tick ==
    /\ leader = Nobody /\ prewarm = Idle /\ hydration = None
    /\ store' = [k \in Keys |-> Older(store[k])]
    /\ memory' = [k \in Keys |-> Older(memory[k])]
    /\ <<store', memory'>> # <<store, memory>>
    /\ UNCHANGED <<current, request, leader, prewarm, hydration>>

RestartAPI ==
    /\ memory' = [k \in Keys |-> None]
    /\ request' = [r \in Requests |-> Idle]
    /\ leader' = Nobody
    /\ hydration' = None
    /\ UNCHANGED <<current, store, prewarm>>

\* A new current patch: both processes start again with it.
RollOver ==
    /\ current < Len(Currents)
    /\ current' = current + 1
    /\ memory' = [k \in Keys |-> None]
    /\ request' = [r \in Requests |-> Idle]
    /\ leader' = Nobody
    /\ prewarm' = Idle
    /\ hydration' = None
    /\ UNCHANGED store

Next ==
    \/ \E r \in Requests : Ask(r) \/ Handle(r) \/ Cancel(r)
    \/ PrewarmLookup
    \/ PrewarmBuild
    \/ storeChampionPageCanonicalAlias
    \/ PrewarmFails
    \/ HydrateLoad
    \/ HydrateMemory
    \/ Tick
    \/ RestartAPI
    \/ RollOver

Spec == Init /\ [][Next]_vars

-----------------------------------------------------------------------------
(* Properties *)

Entries == [age : 0..(3 * ArchivedTTL), left : 0..ArchivedTTL]

TypeOK ==
    /\ current \in 1..Len(Currents)
    /\ store \in [Keys -> Entries]
    /\ memory \in [Keys -> Entries]
    /\ leader \in Requests \union {Nobody}
    /\ hydration \in Entries

\* A page a reader gets was built at most three times the time to live ago, but
\* for the minutes it is under way: the store keeps it for one, its alias for
\* another and the API's memory for the third (analyticsChampionPage,
\* analytics_handlers.go:63).
PagesAreRecent == \A k \in Keys : Live(memory[k]) => memory[k].age < 3 * TTL

\* "Retained-patch bundles expire after two hours so scheduled analytics
\* refreshes become visible" (docs/product/performance-guardrails.md:25): while
\* its patch is retained, no reader gets a page as old as the time to live.
RetainedBundlesExpire ==
    PatchInWindow(Patch, Currents[current], Retention) =>
        \A k \in Keys : Live(memory[k]) => memory[k].age < CurrentTTL

\* Nobody waits for a build that is over: whoever waits has a leader that is
\* still at work, whether the build fails, the leader's client goes away, the
\* waiting one gives up or the API restarts, and one request at most builds
\* (responseFlightGroup.do, http_helpers.go:191).
NobodyWaitsInVain ==
    /\ \A r \in Requests : request[r].step = "wait" => leader # Nobody
    /\ \A r \in Requests : request[r].step \in {"lead", "build", "store"} => r = leader
    /\ leader # Nobody => request[leader].step \in {"lead", "build", "store"}

=============================================================================
