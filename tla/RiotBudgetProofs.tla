-------------------------- MODULE RiotBudgetProofs --------------------------
(***************************************************************************)
(* Theorems of RiotBudget, for every set of callers and routes and every   *)
(* bucket, reserve, window and clock bound.                                *)
(*                                                                         *)
(* OwnGrantBound is not inductive: an insert relies on what the count saw  *)
(* some steps earlier.  The strengthening says that between the two the    *)
(* caller's own rows stay as the count found them (GrantFits), that its    *)
(* clock reading is the latest of its rows (RowsBeforeCall), and that the  *)
(* table is finite.                                                        *)
(***************************************************************************)
EXTENDS RiotBudget, FiniteSetTheorems, TLAPS

USE BudgetAssumption, UsableAssumption

(* No row is from the future.                                              *)
RowsBeforeNow == \A p \in events : p.at <= now

(* While a reservation is open, the caller's rows are no later than the    *)
(* time the reservation read.                                              *)
RowsBeforeCall ==
  \A c \in Callers :
    /\ call[c].at <= now
    /\ query[c] \in {"count", "insert"} =>
         \A p \in events : p.by = c => p.at <= call[c].at

(* A grant about to be inserted still fits next to the caller's own rows.  *)
GrantFits ==
  \A c \in Callers : query[c] = "insert" =>
    Cardinality(OwnWindow(c, call[c].route, call[c].at)) + call[c].granted
      <= UsableRequests

(* A grant is what the limit allows after the count, and never nothing.    *)
GrantFollowsCount ==
  \A c \in Callers : query[c] = "insert" =>
    /\ call[c].granted = Granted(call[c].desired, call[c].used)
    /\ call[c].granted > 0

(* OwnGrantBound for windows that end at any time.                         *)
AllWindows ==
  \A c \in Callers, r \in Routes, t \in Int :
    Cardinality(OwnWindow(c, r, t)) <= UsableRequests

IInv ==
  /\ TableTypeOK
  /\ RowsBeforeNow
  /\ RowsBeforeCall
  /\ GrantFollowsCount
  /\ GrantFits
  /\ AllWindows
-----------------------------------------------------------------------------
(* At least one request is always usable (CollectorUsableRequestsPerRegion *)
(* returns at least 1 whatever the reserve).                               *)
LEMMA UsableIsPositive == UsableRequests \in Nat /\ UsableRequests >= 1
<1>1. (Bucket * Interval) \div Window \in Int
  OBVIOUS
<1>2. QED
  BY <1>1 DEF UsableRequests, AtLeastOne

(* A grant never exceeds what was asked for, nor what the count left.      *)
LEMMA GrantBounds ==
  ASSUME NEW desired \in Nat, NEW used \in Nat
  PROVE  /\ Granted(desired, used) \in Nat
         /\ Granted(desired, used) <= desired
         /\ Granted(desired, used) > 0 =>
              used + Granted(desired, used) <= UsableRequests
BY UsableIsPositive DEF Granted

(* One insert adds at most the granted number of permits.                  *)
LEMMA NewPermitsBound ==
  ASSUME NEW c \in Callers, TableTypeOK
  PROVE  /\ IsFiniteSet(NewPermits(c))
         /\ Cardinality(NewPermits(c)) <= call[c].granted
<1> DEFINE first == lastId[c] + 1
           last == lastId[c] + call[c].granted
           Ids == first..last
           f == [i \in Ids |-> [by |-> c, id |-> i, route |-> call[c].route,
                                at |-> call[c].at]]
<1>1. lastId[c] \in Nat /\ call[c].granted \in Nat
  BY DEF TableTypeOK, Call
<1>2. IsFiniteSet(Ids) /\ Cardinality(Ids) = call[c].granted
  <2>1. first \in Int /\ last \in Int
    BY <1>1
  <2> HIDE DEF first, last
  <2>2. IsFiniteSet(Ids) /\
        Cardinality(Ids) = IF first > last THEN 0 ELSE last - first + 1
    BY <2>1, FS_Interval
  <2>3. QED
    BY <2>2, <1>1 DEF first, last
<1>3. f \in Surjection(Ids, NewPermits(c))
  BY DEF Surjection, NewPermits
<1>4. QED
  BY <1>2, <1>3, FS_Surjection

(* Adding the new permits to a set of rows adds at most the grant to its   *)
(* size.                                                                   *)
LEMMA InsertAddsGrant ==
  ASSUME NEW c \in Callers, TableTypeOK, NEW S, IsFiniteSet(S),
         NEW T, T \subseteq S \cup NewPermits(c)
  PROVE  /\ IsFiniteSet(T)
         /\ Cardinality(T) <= Cardinality(S) + call[c].granted
<1>1. /\ IsFiniteSet(NewPermits(c))
      /\ Cardinality(NewPermits(c)) <= call[c].granted
  BY NewPermitsBound
<1>2. /\ IsFiniteSet(S \cup NewPermits(c))
      /\ Cardinality(S \cup NewPermits(c)) =
           Cardinality(S) + Cardinality(NewPermits(c))
             - Cardinality(S \cap NewPermits(c))
  BY <1>1, FS_Union
<1>3. /\ IsFiniteSet(S \cap NewPermits(c))
      /\ Cardinality(S \cap NewPermits(c)) \in Nat
  BY <1>1, FS_Subset, FS_CardinalityType, S \cap NewPermits(c) \subseteq S
<1>4. IsFiniteSet(T) /\ Cardinality(T) <= Cardinality(S \cup NewPermits(c))
  BY <1>2, FS_Subset
<1>5. /\ Cardinality(S) \in Nat /\ Cardinality(T) \in Nat
      /\ Cardinality(NewPermits(c)) \in Nat /\ call[c].granted \in Nat
  BY <1>1, <1>4, FS_CardinalityType DEF TableTypeOK, Call
<1>6. QED
  BY <1>1, <1>2, <1>3, <1>4, <1>5
-----------------------------------------------------------------------------
(* A step is the clock's or one caller's.                                  *)
CallerStep(c) ==
  \/ \E r \in Routes, d \in 1..MaxDesired : Begin(c, r, d)
  \/ CountUsed(c)
  \/ CountFails(c)
  \/ Insert(c)
  \/ InsertFails(c)
  \/ ReadWait(c)
  \/ ReadWaitFails(c)
  \/ Finish(c)

LEMMA NextCases == TableNext <=> TableTick \/ \E c \in Callers : CallerStep(c)
BY DEF TableNext, CallerStep

LEMMA NewPermitsType ==
  ASSUME NEW c \in Callers, TableTypeOK
  PROVE  NewPermits(c) \subseteq Permit
BY DEF NewPermits, TableTypeOK, Permit, Call

LEMMA CountIsNat ==
  ASSUME TableTypeOK, NEW r, NEW at
  PROVE  /\ IsFiniteSet(WindowRows(events, r, at))
         /\ Cardinality(WindowRows(events, r, at)) \in Nat
BY FS_Subset, FS_CardinalityType DEF TableTypeOK, WindowRows

LEMMA InitType == TableInit => TableTypeOK
<1>1. NoCall \in Call
  BY DEF NoCall, Call
<1>2. IsFiniteSet({})
  BY FS_EmptySet
<1>3. QED
  BY <1>1, <1>2 DEF TableInit, TableTypeOK, Phases

LEMMA NextType == TableTypeOK /\ [TableNext]_tableVars => TableTypeOK'
<1> SUFFICES ASSUME TableTypeOK, [TableNext]_tableVars
             PROVE  TableTypeOK'
  OBVIOUS
<1>1. CASE TableTick
  BY <1>1 DEF TableTypeOK, TableTick
<1>2. ASSUME NEW c \in Callers, CallerStep(c)
      PROVE  TableTypeOK'
  <2>1. CASE \E r \in Routes, d \in 1..MaxDesired : Begin(c, r, d)
    BY <2>1 DEF Begin, Goto, TableTypeOK, Phases, Call
  <2>2. CASE CountUsed(c)
    <3> DEFINE used    == Cardinality(WindowRows(events, call[c].route, call[c].at))
               granted == Granted(call[c].desired, used)
    <3>1. used \in Nat
      BY CountIsNat
    <3>2. granted \in Nat
      BY <3>1, GrantBounds DEF TableTypeOK, Call
    <3>3. call' = [call EXCEPT ![c].used = used, ![c].granted = granted]
      BY <2>2 DEF CountUsed
    <3> HIDE DEF used, granted
    <3>4. call' \in [Callers -> Call]
      BY <3>1, <3>2, <3>3 DEF TableTypeOK, Call
    <3>5. query' \in [Callers -> Phases]
      BY <2>2 DEF CountUsed, Goto, TableTypeOK, Phases
    <3>6. QED
      BY <2>2, <3>4, <3>5 DEF CountUsed, TableTypeOK
  <2>3. WriteRow(c) => /\ events' \in SUBSET Permit /\ IsFiniteSet(events')
                       /\ lastId' \in [Callers -> Nat]
    <3>1. IsFiniteSet(events \cup NewPermits(c))
      BY InsertAddsGrant DEF TableTypeOK
    <3>2. QED
      BY <3>1, NewPermitsType DEF WriteRow, TableTypeOK, Call
  <2>4. CASE Insert(c)
    BY <2>3, <2>4 DEF Insert, Goto, TableTypeOK, Phases
  <2>5. CASE InsertFails(c)
    BY <2>3, <2>5 DEF InsertFails, Goto, TableTypeOK, Phases
  <2>6. CASE CountFails(c) \/ ReadWait(c) \/ ReadWaitFails(c)
    BY <2>6 DEF CountFails, ReadWait, ReadWaitFails, Goto, TableTypeOK, Phases
  <2>7. CASE Finish(c)
    <3>1. NoCall \in Call
      BY DEF NoCall, Call
    <3>2. QED
      BY <2>7, <3>1 DEF Finish, Goto, TableTypeOK, Phases
  <2>8. QED
    BY <1>2, <2>1, <2>2, <2>4, <2>5, <2>6, <2>7, CallerStep(c) DEF CallerStep
<1>3. CASE UNCHANGED tableVars
  BY <1>3 DEF TableTypeOK, tableVars
<1>4. QED
  BY <1>1, <1>2, <1>3, NextCases

(* The type invariant, for every value of the constants: in particular the *)
(* table stays finite and no grant is ever negative, however many callers  *)
(* overshoot the limit together.                                           *)
THEOREM TypeCorrect == TableSpec => []TableTypeOK
BY InitType, NextType, PTL DEF TableSpec
-----------------------------------------------------------------------------
LEMMA OwnWindowFinite ==
  ASSUME TableTypeOK, NEW c, NEW r, NEW t
  PROVE  /\ IsFiniteSet(OwnWindow(c, r, t))
         /\ Cardinality(OwnWindow(c, r, t)) \in Nat
BY FS_Subset, FS_CardinalityType DEF TableTypeOK, OwnWindow

LEMMA InitInv == TableInit => IInv
<1> SUFFICES ASSUME TableInit PROVE IInv
  OBVIOUS
<1>1. AllWindows
  <2> SUFFICES ASSUME NEW c \in Callers, NEW r \in Routes, NEW t \in Int
               PROVE  Cardinality(OwnWindow(c, r, t)) <= UsableRequests
    BY DEF AllWindows
  <2>1. OwnWindow(c, r, t) = {}
    BY DEF TableInit, OwnWindow
  <2>2. QED
    BY <2>1, FS_EmptySet, UsableIsPositive
<1>2. QED
  BY <1>1, InitType DEF TableInit, NoCall, IInv, RowsBeforeNow, RowsBeforeCall,
                        GrantFollowsCount, GrantFits

(* The insert of caller c, the only way events grows, keeps every window   *)
(* of every caller within the budget.                                      *)
LEMMA WriteKeepsWindows ==
  ASSUME IInv, NEW c \in Callers, query[c] = "insert", WriteRow(c)
  PROVE  AllWindows'
<1> SUFFICES ASSUME NEW b \in Callers, NEW r \in Routes, NEW t \in Int
             PROVE  Cardinality(OwnWindow(b, r, t)') <= UsableRequests
  BY DEF AllWindows
<1> DEFINE at == call[c].at
<1>0. /\ at \in Nat /\ call[c].granted \in Nat /\ call[c].route \in Routes
      /\ Window \in Nat /\ UsableRequests \in Nat
      /\ \A p \in events : p.at \in Nat
  BY UsableIsPositive DEF IInv, TableTypeOK, Call, Permit
<1>1. CASE b = c /\ r = call[c].route /\ t - Window < at /\ at <= t
  <2>1. OwnWindow(b, r, t)' \subseteq OwnWindow(c, r, at) \cup NewPermits(c)
    BY <1>0, <1>1 DEF OwnWindow, WriteRow, IInv, RowsBeforeCall
  <2>2. IsFiniteSet(OwnWindow(c, r, at)) /\ Cardinality(OwnWindow(c, r, at)) \in Nat
    BY OwnWindowFinite DEF IInv
  <2>3. /\ IsFiniteSet(OwnWindow(b, r, t)')
        /\ Cardinality(OwnWindow(b, r, t)')
             <= Cardinality(OwnWindow(c, r, at)) + call[c].granted
    BY <2>1, <2>2, InsertAddsGrant DEF IInv
  <2>4. Cardinality(OwnWindow(c, r, at)) + call[c].granted <= UsableRequests
    BY <1>1 DEF IInv, GrantFits
  <2>5. Cardinality(OwnWindow(b, r, t)') \in Nat
    BY <2>3, FS_CardinalityType
  <2>6. QED
    BY <1>0, <2>2, <2>3, <2>4, <2>5
<1>2. CASE ~(b = c /\ r = call[c].route /\ t - Window < at /\ at <= t)
  <2>1. OwnWindow(b, r, t)' = OwnWindow(b, r, t)
    BY <1>2 DEF OwnWindow, WriteRow, NewPermits
  <2>2. QED
    BY <2>1 DEF IInv, AllWindows
<1>3. QED
  BY <1>1, <1>2

(* It leaves the other callers' open reservations as they are.             *)
LEMMA WriteKeepsRest ==
  ASSUME IInv, NEW c \in Callers, query[c] = "insert", WriteRow(c),
         UNCHANGED <<now, call>>,
         NEW phase, phase \notin {"count", "insert"}, Goto(c, phase)
  PROVE  RowsBeforeNow' /\ RowsBeforeCall' /\ GrantFollowsCount' /\ GrantFits'
<1>1. RowsBeforeNow'
  BY DEF IInv, RowsBeforeNow, RowsBeforeCall, WriteRow, NewPermits
<1>2. \A b \in Callers : query'[b] \in {"count", "insert"} =>
        b # c /\ query'[b] = query[b]
  BY DEF Goto, IInv, TableTypeOK
<1>3. RowsBeforeCall'
  BY <1>2 DEF IInv, RowsBeforeCall, WriteRow, NewPermits
<1>4. GrantFollowsCount'
  BY <1>2 DEF IInv, GrantFollowsCount
<1>5. ASSUME NEW b \in Callers, query'[b] = "insert"
      PROVE  OwnWindow(b, call[b].route, call[b].at)'
               = OwnWindow(b, call[b].route, call[b].at)
  BY <1>2, <1>5 DEF OwnWindow, WriteRow, NewPermits
<1>6. GrantFits'
  BY <1>2, <1>5 DEF IInv, GrantFits
<1>7. QED
  BY <1>1, <1>3, <1>4, <1>6

LEMMA NextInv == IInv /\ [TableNext]_tableVars => IInv'
<1> SUFFICES ASSUME IInv, [TableNext]_tableVars
             PROVE  IInv'
  OBVIOUS
<1>0. TableTypeOK /\ TableTypeOK'
  BY NextType DEF IInv
<1>a. ASSUME UNCHANGED events
      PROVE  AllWindows'
  BY <1>a DEF IInv, AllWindows, OwnWindow
<1>1. CASE TableTick
  <2>1. RowsBeforeNow' /\ RowsBeforeCall'
    BY <1>0, <1>1 DEF TableTick, IInv, RowsBeforeNow, RowsBeforeCall, TableTypeOK, Permit, Call
  <2>2. GrantFollowsCount' /\ GrantFits'
    BY <1>1 DEF TableTick, IInv, GrantFollowsCount, GrantFits, OwnWindow
  <2>3. QED
    BY <1>0, <1>1, <1>a, <2>1, <2>2 DEF TableTick, IInv
<1>2. ASSUME NEW c \in Callers, CallerStep(c)
      PROVE  IInv'
  <2>1. CASE \E r \in Routes, d \in 1..MaxDesired : Begin(c, r, d)
    <3>1. RowsBeforeNow' /\ RowsBeforeCall'
      BY <1>0, <2>1 DEF Begin, Goto, IInv, RowsBeforeNow, RowsBeforeCall, TableTypeOK
    <3>2. \A b \in Callers : query'[b] = "insert" =>
            query[b] = "insert" /\ call'[b] = call[b]
      BY <1>0, <2>1 DEF Begin, Goto, TableTypeOK
    <3>3. GrantFollowsCount' /\ GrantFits'
      BY <2>1, <3>2 DEF Begin, IInv, GrantFollowsCount, GrantFits, OwnWindow
    <3>4. UNCHANGED events
      BY <2>1 DEF Begin
    <3>5. QED
      BY <1>0, <1>a, <3>1, <3>3, <3>4 DEF IInv
  <2>2. CASE CountUsed(c)
    <3> DEFINE used    == Cardinality(WindowRows(events, call[c].route, call[c].at))
               granted == Granted(call[c].desired, used)
    <3>1. call' = [call EXCEPT ![c].used = used, ![c].granted = granted]
      BY <2>2 DEF CountUsed
    <3>2. /\ used \in Nat
          /\ IsFiniteSet(WindowRows(events, call[c].route, call[c].at))
      BY <1>0, CountIsNat
    <3>3. /\ granted \in Nat
          /\ granted > 0 => used + granted <= UsableRequests
      BY <1>0, <3>2, GrantBounds DEF TableTypeOK, Call
    <3>4. query'[c] = "insert" => granted > 0
      BY <1>0, <2>2 DEF CountUsed, Goto, TableTypeOK
    <3>5. /\ \A b \in Callers \ {c} : query'[b] = query[b] /\ call'[b] = call[b]
          /\ query[c] = "count" /\ UNCHANGED <<now, events>>
      BY <1>0, <2>2 DEF CountUsed, Goto, TableTypeOK
    <3>6. /\ call'[c].at = call[c].at /\ call'[c].route = call[c].route
          /\ call'[c].desired = call[c].desired
          /\ call'[c].used = used /\ call'[c].granted = granted
      BY <1>0, <3>1 DEF TableTypeOK, Call
    <3>7. OwnWindow(c, call[c].route, call[c].at)
            \subseteq WindowRows(events, call[c].route, call[c].at)
      BY <1>0 DEF OwnWindow, WindowRows, TableTypeOK, Permit, Call
    <3>8. /\ Cardinality(OwnWindow(c, call[c].route, call[c].at)) <= used
          /\ Cardinality(OwnWindow(c, call[c].route, call[c].at)) \in Nat
      BY <1>0, <3>2, <3>7, FS_Subset, OwnWindowFinite
    <3>10. granted = Granted(call[c].desired, used)
      OBVIOUS
    <3> HIDE DEF used, granted
    <3>9. RowsBeforeNow' /\ RowsBeforeCall'
      BY <3>5, <3>6 DEF IInv, RowsBeforeNow, RowsBeforeCall
    <3>11. GrantFollowsCount'
      BY <3>4, <3>5, <3>6, <3>10 DEF IInv, GrantFollowsCount
    <3>12. GrantFits'
      <4> SUFFICES ASSUME NEW b \in Callers, query'[b] = "insert"
                   PROVE  Cardinality(OwnWindow(b, call[b].route, call[b].at)')
                            + call'[b].granted <= UsableRequests
        BY DEF GrantFits
      <4>1. CASE b = c
        <5>1. OwnWindow(b, call[b].route, call[b].at)'
                = OwnWindow(c, call[c].route, call[c].at)
          BY <3>5, <3>6, <4>1 DEF OwnWindow
        <5>2. QED
          BY <3>2, <3>3, <3>4, <3>6, <3>8, <4>1, <5>1, UsableIsPositive
      <4>2. CASE b # c
        BY <3>5, <4>2 DEF IInv, GrantFits, OwnWindow
      <4>3. QED
        BY <4>1, <4>2
    <3>13. QED
      BY <1>0, <1>a, <3>5, <3>9, <3>11, <3>12 DEF IInv
  <2>3. CASE Insert(c)
    <3>1. AllWindows'
      BY <2>3, WriteKeepsWindows DEF Insert
    <3>2. RowsBeforeNow' /\ RowsBeforeCall' /\ GrantFollowsCount' /\ GrantFits'
      <4>1. PICK phase \in {"wait", "using"} : Goto(c, phase)
        BY <2>3 DEF Insert
      <4>2. QED
        BY <2>3, <4>1, WriteKeepsRest DEF Insert
    <3>3. QED
      BY <1>0, <3>1, <3>2 DEF IInv
  <2>4. CASE InsertFails(c)
    <3>1. CASE WriteRow(c)
      <4>1. AllWindows'
        BY <2>4, <3>1, WriteKeepsWindows DEF InsertFails
      <4>2. RowsBeforeNow' /\ RowsBeforeCall' /\ GrantFollowsCount' /\ GrantFits'
        BY <2>4, <3>1, WriteKeepsRest DEF InsertFails
      <4>3. QED
        BY <1>0, <4>1, <4>2 DEF IInv
    <3>2. CASE UNCHANGED <<events, lastId>>
      <4>1. \A b \in Callers : query'[b] \in {"count", "insert"} => query'[b] = query[b]
        BY <1>0, <2>4 DEF InsertFails, Goto, TableTypeOK
      <4>2. RowsBeforeNow' /\ RowsBeforeCall' /\ GrantFollowsCount' /\ GrantFits'
        BY <2>4, <3>2, <4>1 DEF InsertFails, IInv, RowsBeforeNow, RowsBeforeCall,
                                GrantFollowsCount, GrantFits, OwnWindow
      <4>3. QED
        BY <1>0, <1>a, <3>2, <4>2 DEF IInv
    <3>3. QED
      BY <2>4, <3>1, <3>2 DEF InsertFails
  <2>5. CASE CountFails(c) \/ ReadWait(c) \/ ReadWaitFails(c)
    <3>1. /\ \A b \in Callers : query'[b] \in {"count", "insert"} => query'[b] = query[b]
          /\ UNCHANGED <<now, events, call>>
      BY <1>0, <2>5 DEF CountFails, ReadWait, ReadWaitFails, Goto, TableTypeOK
    <3>2. RowsBeforeNow' /\ RowsBeforeCall' /\ GrantFollowsCount' /\ GrantFits'
      BY <3>1 DEF IInv, RowsBeforeNow, RowsBeforeCall, GrantFollowsCount,
                  GrantFits, OwnWindow
    <3>3. QED
      BY <1>0, <1>a, <3>1, <3>2 DEF IInv
  <2>6. CASE Finish(c)
    <3>1. /\ \A b \in Callers : query'[b] \in {"count", "insert"} =>
                                  query'[b] = query[b] /\ call'[b] = call[b]
          /\ \A b \in Callers : call'[b].at = call[b].at \/ call'[b].at = 0
          /\ UNCHANGED <<now, events>>
      BY <1>0, <2>6 DEF Finish, Goto, TableTypeOK, NoCall
    <3>2. RowsBeforeNow' /\ RowsBeforeCall'
      BY <1>0, <3>1 DEF IInv, RowsBeforeNow, RowsBeforeCall, TableTypeOK
    <3>3. GrantFollowsCount' /\ GrantFits'
      BY <3>1 DEF IInv, GrantFollowsCount, GrantFits, OwnWindow
    <3>4. QED
      BY <1>0, <1>a, <3>1, <3>2, <3>3 DEF IInv
  <2>7. QED
    BY <1>2, <2>1, <2>2, <2>3, <2>4, <2>5, <2>6 DEF CallerStep
<1>3. CASE UNCHANGED tableVars
  <2>1. RowsBeforeNow' /\ RowsBeforeCall' /\ GrantFollowsCount' /\ GrantFits'
    BY <1>3 DEF tableVars, IInv, RowsBeforeNow, RowsBeforeCall, GrantFollowsCount,
                GrantFits, OwnWindow
  <2>2. QED
    BY <1>0, <1>3, <1>a, <2>1 DEF tableVars, IInv
<1>4. QED
  BY <1>1, <1>2, <1>3, NextCases

(* The strengthened invariant holds in every reachable state               *)
(* (ReserveRiotRequests under any interleaving of its callers).            *)
THEOREM Invariance == TableSpec => []IInv
BY InitInv, NextInv, PTL DEF TableSpec

(* However the callers interleave, one caller never obtains more than the  *)
(* usable budget of a route in any window (ReserveRiotRequests).           *)
THEOREM OwnGrantBounded == TableSpec => []OwnGrantBound
<1>1. IInv => OwnGrantBound
  BY DEF IInv, AllWindows, OwnGrantBound, TableTypeOK
<1>2. QED
  BY <1>1, Invariance, PTL

(* A grant made on a count that is still true leaves the window within     *)
(* budget.                                                                 *)
LEMMA FreshGrantFits ==
  ASSUME IInv, [TableNext]_tableVars, NEW c \in Callers, query[c] = "insert",
         query'[c] # "insert",
         call[c].used = Cardinality(WindowRows(events, call[c].route, call[c].at))
  PROVE  Cardinality(WindowRows(events', call[c].route, call[c].at))
           <= UsableRequests
<1> DEFINE S == WindowRows(events, call[c].route, call[c].at)
           T == WindowRows(events', call[c].route, call[c].at)
<1>1. Insert(c) \/ InsertFails(c)
  BY NextCases DEF CallerStep, TableTick, Begin, CountUsed, CountFails, Insert,
       InsertFails, ReadWait, ReadWaitFails, Finish, Goto, tableVars, IInv, TableTypeOK
<1>2. events' \subseteq events \cup NewPermits(c)
  BY <1>1 DEF Insert, InsertFails, WriteRow
<1>3. T \subseteq S \cup NewPermits(c)
  BY <1>2 DEF WindowRows
<1>4. IsFiniteSet(S) /\ Cardinality(S) \in Nat
  BY CountIsNat DEF IInv
<1>5. Cardinality(S) + call[c].granted <= UsableRequests
  BY <1>4, GrantBounds DEF IInv, GrantFollowsCount, TableTypeOK, Call
<1>6. call[c].granted \in Nat
  BY DEF IInv, TableTypeOK, Call
<1> HIDE DEF S, T
<1>7. IsFiniteSet(T) /\ Cardinality(T) <= Cardinality(S) + call[c].granted
  BY <1>3, <1>4, InsertAddsGrant DEF IInv
<1>8. Cardinality(T) <= UsableRequests
  BY <1>4, <1>5, <1>6, <1>7, FS_CardinalityType, UsableIsPositive
<1>9. QED
  BY <1>8 DEF T

(* Going over a route's window takes another caller's insert between the   *)
(* count and the insert (ReserveRiotRequests has no transaction).          *)
THEOREM OverGrantNeedsARace == TableSpec => OverGrantNeedsRace
<1>1. IInv /\ [TableNext]_tableVars =>
        \A c \in Callers :
          /\ query[c] = "insert" /\ query'[c] # "insert"
          /\ call[c].used = Cardinality(WindowRows(events, call[c].route, call[c].at))
          => Cardinality(WindowRows(events', call[c].route, call[c].at))
               <= UsableRequests
  BY FreshGrantFits
<1>2. QED
  BY <1>1, Invariance, PTL DEF OverGrantNeedsRace, TableSpec
=============================================================================
