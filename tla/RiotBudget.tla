----------------------------- MODULE RiotBudget -----------------------------
(***************************************************************************)
(* The request budget that the worker process and the API process share    *)
(* through the ClickHouse table riot_request_events.                       *)
(*                                                                         *)
(* A caller is one sequential user of Repository.ReserveRiotRequests: the  *)
(* worker's sweep loop, or one API request handler.  ReserveRiotRequests   *)
(* is a count of the rows inside the rolling window followed by an insert, *)
(* two queries with no transaction around them, so the callers interleave  *)
(* between the two.  A row with request_count = k is k permits, so that    *)
(* sum(request_count) is the cardinality of a set.                         *)
(***************************************************************************)
EXTENDS UsableBudget, FiniteSets

CONSTANTS
  Callers,      \* the sequential users of the shared table
  Interactive,  \* those that serve a player: reserveCriticalRiotRequest
  Routes,       \* Riot routing values: regions and platforms
  MaxDesired,   \* the largest number of requests asked for at once
  MaxNow        \* bound: the last tick of the model's clock

ASSUME BudgetAssumption ==
  /\ Interactive \subseteq Callers
  /\ Routes # {}
  /\ MaxDesired \in Nat \ {0}
  /\ MaxNow \in Nat

VARIABLES
  now,     \* the wall clock both processes read
  events,  \* riot_request_events, one element per permit
  query,   \* where each caller is inside ReserveRiotRequests
  call,    \* the arguments and locals of its current reservation
  lastId   \* per caller, the number of permits it ever inserted

tableVars == <<now, events, query, call, lastId>>

Phases == {"idle", "count", "insert", "wait", "using", "refused", "failed"}

Permit == [by : Callers, id : Nat, route : Routes, at : Nat]
Call   == [route : Routes, desired : Nat, at : Nat, used : Nat, granted : Nat]
-----------------------------------------------------------------------------
(* The rows riotRequestsUsed sums: happened_at > at - window.              *)
ShortWindow(rows, r, at) ==
  {p \in rows : p.route = r /\ p.at > at - Window + 1}

WindowRows(rows, r, at) == {p \in rows : p.route = r /\ p.at > at - Window}

(* granted = min(desired, limit - used), a negative difference counting 0. *)
UnclippedGrant(desired, used) == IF used < UsableRequests THEN desired ELSE 0

SignedGrant(desired, used) ==
  IF desired < UsableRequests - used THEN desired ELSE UsableRequests - used

Granted(desired, used) ==
  LET available == IF used < UsableRequests THEN UsableRequests - used ELSE 0
  IN  IF desired < available THEN desired ELSE available

(* The permits one insertRiotRequestEvent adds.                            *)
NewPermits(c) ==
  {[by |-> c, id |-> i, route |-> call[c].route, at |-> call[c].at] :
     i \in (lastId[c] + 1)..(lastId[c] + call[c].granted)}
-----------------------------------------------------------------------------
NoCall == [route |-> CHOOSE r \in Routes : TRUE, desired |-> 0, at |-> 0,
           used |-> 0, granted |-> 0]

TableInit ==
  /\ now = 0
  /\ events = {}
  /\ query = [c \in Callers |-> "idle"]
  /\ call = [c \in Callers |-> NoCall]
  /\ lastId = [c \in Callers |-> 0]

Goto(c, phase) == query' = [query EXCEPT ![c] = phase]

(* The caller reads time.Now() and enters ReserveRiotRequests.  Handlers   *)
(* that serve a player ask for one request.                                *)
Begin(c, r, d) ==
  /\ query[c] = "idle"
  /\ c \in Interactive => d = 1
  /\ call' = [call EXCEPT ![c] = [route |-> r, desired |-> d, at |-> now,
                                  used |-> 0, granted |-> 0]]
  /\ Goto(c, "count")
  /\ UNCHANGED <<now, events, lastId>>

(* riotRequestsUsed answers, and the grant is computed from what it saw.   *)
CountUsed(c) ==
  /\ query[c] = "count"
  /\ LET used    == Cardinality(WindowRows(events, call[c].route, call[c].at))
         granted == Granted(call[c].desired, used)
     IN  /\ call' = [call EXCEPT ![c].used = used, ![c].granted = granted]
         /\ Goto(c, IF granted > 0 THEN "insert" ELSE "wait")
  /\ UNCHANGED <<now, events, lastId>>

CountFails(c) ==
  /\ query[c] = "count"
  /\ Goto(c, "failed")
  /\ UNCHANGED <<now, events, call, lastId>>

(* insertRiotRequestEvent writes the row.                                  *)
WriteRow(c) ==
  /\ events' = events \cup NewPermits(c)
  /\ lastId' = [lastId EXCEPT ![c] = @ + call[c].granted]

(* The insert succeeds; a short grant goes on to read the wait.            *)
Insert(c) ==
  /\ query[c] = "insert"
  /\ WriteRow(c)
  /\ Goto(c, IF call[c].granted < call[c].desired THEN "wait" ELSE "using")
  /\ UNCHANGED <<now, call>>

(* The insert returns an error; the row may have reached the table.        *)
InsertFails(c) ==
  /\ query[c] = "insert"
  /\ WriteRow(c) \/ UNCHANGED <<events, lastId>>
  /\ Goto(c, "failed")
  /\ UNCHANGED <<now, call>>

(* riotRouteWait: only a log line uses the wait, but its error discards a  *)
(* grant that is already in the table.                                     *)
ReadWait(c) ==
  /\ query[c] = "wait"
  /\ Goto(c, IF call[c].granted > 0 THEN "using" ELSE "refused")
  /\ UNCHANGED <<now, events, call, lastId>>

ReadWaitFails(c) ==
  /\ query[c] = "wait"
  /\ Goto(c, "failed")
  /\ UNCHANGED <<now, events, call, lastId>>

(* The pass or handler that asked for the permits returns.                 *)
Finish(c) ==
  /\ query[c] \in {"using", "refused", "failed"}
  /\ Goto(c, "idle")
  /\ call' = [call EXCEPT ![c] = NoCall]
  /\ UNCHANGED <<now, events, lastId>>

TableTick ==
  /\ now < MaxNow
  /\ now' = now + 1
  /\ UNCHANGED <<events, query, call, lastId>>

TableNext ==
  \/ TableTick
  \/ \E c \in Callers :
       \/ \E r \in Routes, d \in 1..MaxDesired : Begin(c, r, d)
       \/ CountUsed(c)
       \/ CountFails(c)
       \/ Insert(c)
       \/ InsertFails(c)
       \/ ReadWait(c)
       \/ ReadWaitFails(c)
       \/ Finish(c)

TableSpec == TableInit /\ [][TableNext]_tableVars
-----------------------------------------------------------------------------
(* Every variable has the shape of the code's data.                        *)
TableTypeOK ==
  /\ now \in Nat
  /\ events \in SUBSET Permit /\ IsFiniteSet(events)
  /\ query \in [Callers -> Phases]
  /\ call \in [Callers -> Call]
  /\ lastId \in [Callers -> Nat]

(* The permits of caller c on route r that one window ending at t holds.   *)
OwnWindow(c, r, t) ==
  {p \in events : p.by = c /\ p.route = r /\ t - Window < p.at /\ p.at <= t}

(* Whatever the other callers do between its count and its insert, one     *)
(* caller never obtains more than the usable budget of a route in any      *)
(* window of the configured length, wherever that window starts            *)
(* (ReserveRiotRequests reads its own earlier rows).                       *)
OwnGrantBound ==
  \A c \in Callers, r \in Routes, t \in 0..now :
    Cardinality(OwnWindow(c, r, t)) <= UsableRequests

(* A window of a route goes over the usable budget only when another       *)
(* caller inserted between this caller's count and its insert: a grant     *)
(* made on an up-to-date count leaves the window within the budget.        *)
OverGrantNeedsRace ==
  [][\A c \in Callers :
       LET seen(rows) == Cardinality(WindowRows(rows, call[c].route, call[c].at))
       IN  /\ query[c] = "insert" /\ query'[c] # "insert"
           /\ call[c].used = seen(events)
           => seen(events') <= UsableRequests]_tableVars

(* The reserve protects interactive account and live-game requests: one is *)
(* refused only when the whole bucket of its route is spent, not merely    *)
(* the part the collector may use (docs/collector-runbook.md:120).         *)
ReserveServesPlayers ==
  \A c \in Interactive : query[c] = "refused" => call[c].used >= Bucket
=============================================================================
