-------------------------- MODULE WorkerSweepProofs --------------------------
(***************************************************************************)
(* Theorems of WorkerSweep, for every set of platforms and regions, every  *)
(* budget, window and lane maximum.                                        *)
(*                                                                         *)
(* None of its properties is inductive.  The region's bound relies on what *)
(* the ledger will be charged when the running lane ends (CallsAreCharged, *)
(* RetriesAreFew) and on the room the lane's share was given (ShareFits).  *)
(* That nobody is                                                          *)
(* deferred relies on remaining being the number of platforms still to     *)
(* visit (RemainingIsAhead) and on a request being left for each of them   *)
(* (RoomAhead).  The rest after a 429 relies on the sweep's memory of it   *)
(* (RefusedIsRemembered), and the sleep on the age of the oldest entries   *)
(* (SleepEndsInTime).                                                      *)
(***************************************************************************)
EXTENDS WorkerSweep, FiniteSetTheorems, WellFoundedInduction, TLAPS

Lane == {"match", "rank", "alias", "aliasLimited"}

(* The loop visits a configured platform, and no call is uncharged before  *)
(* its first lane or after its last.                                       *)
InPlace ==
  /\ pc \in Lane \cup {"choose"} => pos \in DOMAIN Order
  /\ pc \in {"choose", "sweepEnd", "sleep"} => used = 0 /\ ~hit
  /\ tries > 0 => pc \in {"match", "rank", "alias"}
  /\ tries > 0 /\ pc # "rank" => used > 0

(* What happened up to some age includes what happened up to a lower one.  *)
Growing(counts) ==
  \A r \in Regions : \A a, b \in Ages : a <= b => counts[r][a] <= counts[r][b]

CountsGrow == Growing(ledger) /\ Growing(calls) /\ Growing(retried)

(* The calls the ledger has not been charged with yet.                     *)
Uncharged(r) ==
  IF \/ pc \in {"match", "rank"} /\ r = Region
     \/ pc \in {"alias", "aliasLimited"} /\ r = Account
  THEN used ELSE 0

(* The ledger lags behind the calls by the running lane's only.            *)
CallsAreCharged ==
  pc # "stopped" =>
    \A r \in Regions : \A a \in Ages : calls[r][a] <= ledger[r][a] + Uncharged(r)

(* The most retries that n calls can have had.                             *)
Allowed(n) == Retries * n

(* The retries that a call answered n times with a 429 may still make, the *)
(* one it waits for included.                                              *)
Spare(n) == Retries - n + 1

(* Those of the call under way, by region.                                 *)
Unsent(r) ==
  IF tries > 0 /\ ((pc = "match" /\ r = Region) \/ (pc = "alias" /\ r = Account))
  THEN Spare(tries) ELSE 0

(* Each call that is charged or will be had at most its retries.           *)
RetriesAreFew ==
  pc # "stopped" =>
    \A r \in Regions : \A a \in Ages :
      retried[r][a] + Unsent(r) <= Allowed(ledger[r][a] + Uncharged(r))

(* The running lane fits in its region's ledger.                           *)
ShareFits ==
  /\ pc \in {"match", "rank"} =>
       Total(ledger[Region]) + budget.match + budget.alias <= Limit
  /\ pc = "match" => used + left <= budget.match
  /\ pc = "rank" => used <= budget.match
  /\ pc \in {"alias", "aliasLimited"} =>
       /\ used + left <= budget.alias
       /\ used + left > 0 => Total(ledger[Account]) + used + left <= Limit

(* The platforms of a region that this sweep has yet to start.             *)
Ahead(r) == {i \in PlatformsOf(r) : i > pos \/ (i = pos /\ pc = "choose")}

RemainingIsAhead == \A r \in Regions : remaining[r] = Cardinality(Ahead(r))

(* What the running platform may still be charged on its own region.       *)
Reserved(r) ==
  CASE pc \in {"match", "rank"} /\ r = Region -> budget.match + budget.alias
    [] pc \in {"alias", "aliasLimited"} /\ r = Region -> budget.alias
    [] OTHER -> 0

(* A region that began the sweep with enough, and has platforms to come,   *)
(* has a request left for each of them.                                    *)
RoomAhead ==
  \A r \in Regions \ (short \cup limited) :
    remaining[r] > 0 => Total(ledger[r]) + Reserved(r) + remaining[r] <= Limit

(* The sweep remembers on which regions a call ended with a 429, and no    *)
(* lane with requests to make is on one of them.                           *)
RefusedIsRemembered ==
  /\ hit => Region \in limited
  /\ pc # "stopped" =>
       refused \subseteq limited \cup (IF pc = "aliasLimited" THEN {Account} ELSE {})
  /\ pc = "match" /\ (left > 0 \/ tries > 0) => Region \notin refused
  /\ pc = "alias" /\ (left > 0 \/ tries > 0) => Account \notin refused

(* While every region is full, the sleep ends no later than the tick at    *)
(* which the oldest entry of any of them leaves the window.                *)
Resting ==
  pc = "sleep" /\ ~worked /\ sleep > 0 /\ \A r \in UsedRegions : Available(r) = 0

SleepEndsInTime ==
  Resting =>
    \A r \in UsedRegions :
      sleep <= Window /\ ledger[r][Window - sleep] = Total(ledger[r])

IInv ==
  /\ TypeOK
  /\ InPlace
  /\ CountsGrow
  /\ CallsAreCharged
  /\ RetriesAreFew
  /\ RegionWindowBound
  /\ ShareFits
  /\ RemainingIsAhead
  /\ RoomAhead
  /\ RefusedIsRemembered
  /\ SleepEndsInTime
-----------------------------------------------------------------------------
(* Lemmas about the parameters and the helpers                             *)

LEMMA Parameters ==
  /\ Limit \in Nat /\ Limit >= 1
  /\ Window \in Nat /\ Window >= 1
  /\ IdleSleep \in Nat
  /\ RankMax \in Nat /\ AliasMax \in Nat /\ MatchMax \in Nat
  /\ Retries \in Nat /\ MaxSleep \in Nat
  /\ 0 \in Ages /\ Window - 1 \in Ages
<1>1. Limit \in Nat /\ Limit >= 1
  BY UsableAssumption DEF UsableAssumption, Limit, UsableRequests, AtLeastOne
<1>2. QED
  BY <1>1, UsableAssumption, SweepAssumption DEF UsableAssumption, SweepAssumption, Ages

LEMMA AllowedGrows ==
  ASSUME NEW m \in Nat, NEW n \in Nat
  PROVE  /\ Allowed(m) \in Nat
         /\ m <= n => Allowed(m) <= Allowed(n)
         /\ Allowed(m + 1) = Allowed(m) + Retries
<1>1. Retries \in Nat
  BY Parameters
<1>2. Retries * m \in Nat
  BY <1>1
<1>3. Retries * (m + 1) = Retries * m + Retries
  BY <1>1
<1>4. ASSUME m <= n
      PROVE  Retries * m <= Retries * n
  <2>1. n - m \in Nat /\ n = m + (n - m)
    BY <1>4
  <2>2. Retries * (m + (n - m)) = Retries * m + Retries * (n - m)
    BY <1>1, <2>1
  <2>3. Retries * (n - m) \in Nat
    BY <1>1, <2>1
  <2>4. QED
    BY <1>2, <2>1, <2>2, <2>3
<1>5. QED
  BY <1>2, <1>3, <1>4 DEF Allowed

LEMMA SpareShrinks ==
  ASSUME NEW n \in 0..Retries
  PROVE  /\ Spare(n) \in Nat /\ Spare(n) >= 1
         /\ n > 0 => Spare(n) <= Retries
         /\ n = 1 => Spare(n) = Retries
         /\ \A m : m = n + 1 => Spare(m) = Spare(n) - 1
BY Parameters DEF Spare

LEMMA OrderIsIndexed ==
  /\ Len(Order) \in Nat
  /\ DOMAIN Order = 1..Len(Order)
  /\ 1 \in DOMAIN Order
<1>1. Order \in Seq(STRING) /\ Order # <<>>
  BY SweepAssumption DEF SweepAssumption
<1>2. QED
  BY <1>1

LEMMA RoutesAreRegions ==
  \A i \in DOMAIN Order : RegionOf[Order[i]] \in Regions /\ AccountOf[Order[i]] \in Regions
BY SweepAssumption DEF SweepAssumption

LEMMA HereAreRegions ==
  ASSUME InPlace, pc \in Lane \cup {"choose"}
  PROVE  Region \in Regions /\ Account \in Regions
BY RoutesAreRegions DEF InPlace, Region, Account, Platform

(* Record adds n to one region's counts of every age.                      *)
LEMMA RecordCounts ==
  ASSUME NEW l \in [Regions -> Counts], NEW r \in Regions, NEW n \in Nat
  PROVE  /\ Record(l, r, n) \in [Regions -> Counts]
         /\ \A q \in Regions : \A a \in Ages :
              Record(l, r, n)[q][a] = IF q = r THEN l[q][a] + n ELSE l[q][a]
         /\ \A q \in Regions :
              Total(Record(l, r, n)[q]) = IF q = r THEN Total(l[q]) + n ELSE Total(l[q])
         /\ \A q \in Regions : Total(l[q]) \in Nat
<1>1. \A q \in Regions : l[q] \in [Ages -> Nat]
  BY DEF Counts
<1>2. [a \in Ages |-> l[r][a] + n] \in [Ages -> Nat]
  BY <1>1
<1>3. Record(l, r, n) \in [Regions -> Counts]
  BY <1>1, <1>2 DEF Record, Counts
<1>4. \A q \in Regions : \A a \in Ages :
        Record(l, r, n)[q][a] = IF q = r THEN l[q][a] + n ELSE l[q][a]
  BY DEF Record
<1>5. QED
  BY <1>1, <1>3, <1>4, Parameters DEF Total

LEMMA RecordGrows ==
  ASSUME NEW l \in [Regions -> Counts], NEW r \in Regions, NEW n \in Nat,
         Growing(l)
  PROVE  Growing(Record(l, r, n))
<1> SUFFICES ASSUME NEW q \in Regions, NEW a \in Ages, NEW b \in Ages, a <= b
             PROVE  Record(l, r, n)[q][a] <= Record(l, r, n)[q][b]
  BY DEF Growing
<1>1. l[q][a] \in Nat /\ l[q][b] \in Nat /\ l[q][a] <= l[q][b]
  BY DEF Growing, Counts
<1>2. /\ Record(l, r, n)[q][a] = IF q = r THEN l[q][a] + n ELSE l[q][a]
      /\ Record(l, r, n)[q][b] = IF q = r THEN l[q][b] + n ELSE l[q][b]
  BY RecordCounts
<1>3. QED
  BY <1>1, <1>2

(* MarkFull only adds, to one region's counts.                             *)
LEMMA MarkFullCounts ==
  ASSUME NEW l \in [Regions -> Counts], NEW r \in Regions
  PROVE  /\ MarkFull(l, r) \in [Regions -> Counts]
         /\ \A q \in Regions : \A a \in Ages :
              /\ MarkFull(l, r)[q][a] >= l[q][a]
              /\ q # r => MarkFull(l, r)[q][a] = l[q][a]
         /\ \A q \in Regions : q # r => Total(MarkFull(l, r)[q]) = Total(l[q])
         /\ Growing(l) => Growing(MarkFull(l, r))
<1>1. Total(l[r]) \in Nat
  BY Parameters DEF Total, Counts
<1>2. \A q \in Regions : \A a \in Ages : l[q][a] \in Nat
  BY DEF Counts
<1>3. CASE Total(l[r]) < Limit
  <2> DEFINE n == Limit - Total(l[r])
  <2>1. n \in Nat
    BY <1>1, <1>3, Parameters
  <2>2. MarkFull(l, r) = Record(l, r, n)
    BY <1>3 DEF MarkFull
  <2> HIDE DEF n
  <2>3. /\ MarkFull(l, r) \in [Regions -> Counts]
        /\ \A q \in Regions : \A a \in Ages :
             MarkFull(l, r)[q][a] = IF q = r THEN l[q][a] + n ELSE l[q][a]
    BY <2>1, <2>2, RecordCounts
  <2>4. \A q \in Regions : \A a \in Ages :
          /\ MarkFull(l, r)[q][a] >= l[q][a]
          /\ q # r => MarkFull(l, r)[q][a] = l[q][a]
    BY <1>2, <2>1, <2>3
  <2>5. Growing(l) => Growing(MarkFull(l, r))
    BY <2>1, <2>2, RecordGrows
  <2>6. Window - 1 \in Ages
    BY Parameters
  <2>7. QED
    BY <2>3, <2>4, <2>5, <2>6 DEF Total
<1>4. CASE ~(Total(l[r]) < Limit)
  BY <1>2, <1>4 DEF MarkFull
<1>5. QED
  BY <1>3, <1>4

(* A tick shifts the counts by one age and never raises a total.           *)
LEMMA OlderCounts ==
  ASSUME NEW l \in [Regions -> Counts]
  PROVE  /\ Older(l) \in [Regions -> Counts]
         /\ \A q \in Regions : Older(l)[q][0] = 0
         /\ \A q \in Regions : \A a \in Ages \ {0} : Older(l)[q][a] = l[q][a - 1]
         /\ Growing(l) => Growing(Older(l))
         /\ Growing(l) => \A q \in Regions : Total(Older(l)[q]) <= Total(l[q])
<1>1. \A q \in Regions : \A a \in Ages : l[q][a] \in Nat
  BY DEF Counts
<1>2. \A a \in Ages : a # 0 => a - 1 \in Ages
  BY Parameters DEF Ages
<1>3. \A q \in Regions : \A a \in Ages :
        Older(l)[q][a] = IF a = 0 THEN 0 ELSE l[q][a - 1]
  BY DEF Older
<1>4. Older(l) \in [Regions -> Counts]
  BY <1>1, <1>2 DEF Older, Counts
<1>5. ASSUME Growing(l)
      PROVE  Growing(Older(l))
  <2> SUFFICES ASSUME NEW q \in Regions, NEW a \in Ages, NEW b \in Ages, a <= b
               PROVE  Older(l)[q][a] <= Older(l)[q][b]
    BY DEF Growing
  <2>1. a \in Nat /\ b \in Nat
    BY Parameters DEF Ages
  <2>2. CASE a = 0
    BY <1>1, <1>2, <1>3, <2>1, <2>2
  <2>3. CASE a # 0
    <3>1. a - 1 \in Ages /\ b - 1 \in Ages /\ a - 1 <= b - 1 /\ b # 0
      BY <1>2, <2>1, <2>3
    <3>2. l[q][a - 1] <= l[q][b - 1]
      BY <1>5, <3>1 DEF Growing
    <3>3. QED
      BY <1>3, <2>3, <3>1, <3>2
  <2>4. QED
    BY <2>2, <2>3
<1>6. ASSUME Growing(l), NEW q \in Regions
      PROVE  Total(Older(l)[q]) <= Total(l[q])
  <2>1. CASE Window - 1 = 0
    BY <1>1, <1>3, <2>1, Parameters DEF Total
  <2>2. CASE Window - 1 # 0
    <3>1. /\ Window - 1 \in Ages /\ (Window - 1) - 1 \in Ages
          /\ (Window - 1) - 1 <= Window - 1
      <4>1. Window \in Nat /\ Window - 1 \in Ages
        BY Parameters
      <4>2. (Window - 1) - 1 \in Ages
        BY <1>2, <2>2, <4>1
      <4>3. QED
        BY <4>1, <4>2
    <3>2. l[q][(Window - 1) - 1] <= l[q][Window - 1]
      BY <1>6, <3>1 DEF Growing
    <3>3. QED
      BY <1>3, <2>2, <3>1, <3>2 DEF Total
  <2>3. QED
    BY <2>1, <2>2
<1>7. QED
  BY <1>3, <1>4, <1>5, <1>6, Parameters
-----------------------------------------------------------------------------
(* Lemmas about the shares                                                 *)

(* A platform's part is at least one request, at most what the region has, *)
(* and leaves one for each of the other platforms when there are enough.   *)
LEMMA PartBounds ==
  ASSUME NEW available \in Nat, available >= 1, NEW platforms \in Nat, platforms >= 1
  PROVE  /\ PlatformTotal(available, platforms) \in Nat
         /\ PlatformTotal(available, platforms) >= 1
         /\ PlatformTotal(available, platforms) <= available
         /\ platforms <= available =>
              PlatformTotal(available, platforms) + platforms <= available + 1
<1> DEFINE t == (available + platforms - 1) \div platforms
<1>1. /\ t \in Int
      /\ t * platforms <= available + platforms - 1
      /\ available + platforms - 1 < t * platforms + platforms
  BY SMT
<1> HIDE DEF t
<1>2. t >= 1
  <2> SUFFICES ASSUME t <= 0
               PROVE  FALSE
    BY <1>1
  <2>1. t * platforms <= 0
    BY <1>1
  <2>2. QED
    BY <1>1, <2>1
<1>3. t <= available
  <2> SUFFICES ASSUME t >= available + 1
               PROVE  FALSE
    BY <1>1
  <2>1. t * platforms >= (available + 1) * platforms
    BY <1>1
  <2>2. available * platforms >= available
    OBVIOUS
  <2>3. (available + 1) * platforms = available * platforms + platforms
    OBVIOUS
  <2>4. available * platforms \in Int /\ t * platforms \in Int
    BY <1>1
  <2>5. QED
    BY <1>1, <2>1, <2>2, <2>3, <2>4
<1>4. ASSUME platforms <= available
      PROVE  t + platforms <= available + 1
  <2> DEFINE d == available - platforms
  <2>1. d \in Nat /\ available = d + platforms
    BY <1>4
  <2> SUFFICES ASSUME t >= d + 2
               PROVE  FALSE
    BY <1>1, <1>4
  <2> HIDE DEF d
  <2>2. t * platforms >= (d + 2) * platforms
    BY <1>1, <2>1
  <2>3. (d + 2) * platforms = d * platforms + 2 * platforms
    BY <2>1
  <2>4. d * platforms >= d
    BY <2>1
  <2>5. d * platforms \in Int /\ t * platforms \in Int
    BY <1>1, <2>1
  <2>6. QED
    BY <1>1, <2>1, <2>2, <2>3, <2>4, <2>5
<1>5. QED
  BY <1>1, <1>2, <1>3, <1>4 DEF PlatformTotal, t

(* The lanes' parts of a platform's share are within it.                   *)
LEMMA ShareBounds ==
  ASSUME NEW available \in Nat, available >= 1, NEW platforms \in Nat, platforms >= 1
  PROVE  /\ Allocate(available, platforms) \in Share
         /\ Allocate(available, platforms).match + Allocate(available, platforms).alias
              <= PlatformTotal(available, platforms)
<1> DEFINE total == PlatformTotal(available, platforms)
           rank  == LaneShare(RankMax, total)
           alias == LaneShare(AliasMax, total - rank)
           match == total - rank - alias
           most  == IF MatchMax > 0 THEN Least(match, MatchMax) ELSE match
<1>1. total \in Nat /\ total >= 1
  BY PartBounds
<1>2. Allocate(available, platforms) = [match |-> most, rank |-> rank, alias |-> alias]
  BY DEF Allocate
<1> HIDE DEF total
<1>3. rank \in Nat /\ rank < total
  BY <1>1, Parameters DEF LaneShare, Least
<1> HIDE DEF rank
<1>4. alias \in Nat /\ alias < total - rank
  BY <1>1, <1>3, Parameters DEF LaneShare, Least
<1> HIDE DEF alias
<1>5. most \in Nat /\ most <= match /\ match + alias <= total
  BY <1>1, <1>3, <1>4, Parameters DEF Least
<1> HIDE DEF most
<1>6. QED
  BY <1>1, <1>2, <1>3, <1>4, <1>5 DEF Share, total

LEMMA AvailableIsNat ==
  ASSUME NEW r \in Regions, ledger \in [Regions -> Counts]
  PROVE  /\ Available(r) \in Nat
         /\ Total(ledger[r]) \in Nat
         /\ Available(r) > 0 => Total(ledger[r]) + Available(r) = Limit
         /\ Available(r) = 0 <=> Total(ledger[r]) >= Limit
<1>1. Total(ledger[r]) \in Nat
  BY Parameters DEF Total, Counts
<1>2. QED
  BY <1>1, Parameters DEF Available
-----------------------------------------------------------------------------
(* Lemmas about the waits                                                  *)

(* A non-empty set of naturals has a least element.                        *)
LEMMA LeastElement ==
  ASSUME NEW S \in SUBSET Nat, S # {}
  PROVE  \E m \in S : \A n \in S : m <= n
<1>1. \E R : /\ IsWellFoundedOn(R, Nat)
             /\ \A n, m \in Nat : n < m => <<n, m>> \in R
  <2>1. \A n, m \in Nat : n < m => <<n, m>> \in OpToRel(<, Nat)
    BY DEF OpToRel
  <2>2. QED
    BY <2>1, NatLessThanWellFounded
<1>2. PICK R : /\ IsWellFoundedOn(R, Nat)
               /\ \A n, m \in Nat : n < m => <<n, m>> \in R
  BY <1>1
<1>3. IsWellFoundedOn(R, Nat)
  BY <1>2
<1>4. S \subseteq Nat
  OBVIOUS
<1>5. \A T : T \subseteq Nat /\ T # {} => \E m \in T : \A n \in T : ~ (<<n, m>> \in R)
  BY <1>3, WFMin, Zenon
<1>6. \E m \in S : \A n \in S : ~ (<<n, m>> \in R)
  BY <1>4, <1>5
<1>7. \A n, m \in Nat : ~ (<<n, m>> \in R) => m <= n
  BY <1>2
<1>8. QED
  BY <1>4, <1>6, <1>7

(* A full region's wait is at most the window, and from the age of its     *)
(* oldest entry on the counts are the total.                               *)
LEMMA WaitIsOldest ==
  ASSUME NEW r \in Regions, ledger \in [Regions -> Counts], Growing(ledger)
  PROVE  /\ Wait(r) \in Nat
         /\ Available(r) = 0 =>
              /\ Wait(r) \in 1..Window
              /\ \A s \in 1..Wait(r) : ledger[r][Window - s] = Total(ledger[r])
<1>1. CASE Available(r) > 0
  BY <1>1 DEF Wait
<1>2. CASE ~(Available(r) > 0)
  <2> DEFINE S == {a \in Ages : ledger[r][a] = Total(ledger[r])}
             Oldest(a) == /\ ledger[r][a] = Total(ledger[r])
                          /\ \A b \in 0..(a - 1) : ledger[r][b] # Total(ledger[r])
             oldest == CHOOSE a \in Ages : Oldest(a)
  <2>1. S \in SUBSET Nat /\ S # {}
    BY Parameters DEF Ages, Total
  <2>2. PICK m \in S : \A n \in S : m <= n
    <3> HIDE DEF S
    <3>1. QED
      BY <2>1, LeastElement
  <2>3. m \in Ages /\ Oldest(m)
    <3>1. m \in Ages /\ ledger[r][m] = Total(ledger[r])
      OBVIOUS
    <3>2. ASSUME NEW b \in 0..(m - 1), ledger[r][b] = Total(ledger[r])
          PROVE  FALSE
      <4>1. b \in S /\ b < m /\ m \in Nat /\ b \in Nat
        BY <3>1, <3>2, Parameters DEF Ages
      <4>2. QED
        BY <2>2, <4>1
    <3>3. QED
      BY <3>1, <3>2
  <2>4. oldest \in Ages /\ Oldest(oldest)
    <3> HIDE DEF Oldest
    <3>1. QED
      BY <2>3
  <2>5. Wait(r) = Window - oldest
    BY <1>2 DEF Wait
  <2>6. oldest \in 0..(Window - 1) /\ ledger[r][oldest] = Total(ledger[r])
    BY <2>4 DEF Ages
  <2> HIDE DEF oldest, Oldest, S
  <2>7. Wait(r) \in 1..Window
    BY <2>5, <2>6, Parameters
  <2>8. ASSUME NEW s \in 1..Wait(r)
        PROVE  ledger[r][Window - s] = Total(ledger[r])
    <3>1. Window - s \in Ages /\ oldest \in Ages /\ oldest <= Window - s
          /\ Window - s <= Window - 1
      BY <2>5, <2>6, <2>7, Parameters DEF Ages
    <3>2. /\ ledger[r][oldest] <= ledger[r][Window - s]
          /\ ledger[r][Window - s] <= ledger[r][Window - 1]
      BY <3>1, Parameters DEF Growing
    <3>3. ledger[r][Window - s] \in Nat /\ ledger[r][Window - 1] \in Nat
      BY <3>1, Parameters DEF Counts
    <3>4. QED
      BY <2>6, <3>2, <3>3 DEF Total
  <2>9. QED
    BY <2>7, <2>8
<1>3. QED
  BY <1>1, <1>2, AvailableIsNat

(* EarliestWait is the least of the waits.                                 *)
LEMMA EarliestIsLeast ==
  ASSUME ledger \in [Regions -> Counts], Growing(ledger)
  PROVE  /\ \E r \in UsedRegions : EarliestWait = Wait(r)
         /\ \A r \in UsedRegions : EarliestWait <= Wait(r)
<1> DEFINE S == {Wait(r) : r \in UsedRegions}
<1>1. UsedRegions \subseteq Regions /\ UsedRegions # {}
  BY RoutesAreRegions, OrderIsIndexed DEF UsedRegions
<1>2. \A r \in UsedRegions : Wait(r) \in Nat
  BY <1>1, WaitIsOldest
<1>3. S \in SUBSET Nat /\ S # {}
  BY <1>1, <1>2
<1>4. \E w \in S : \A n \in S : w <= n
  <2> HIDE DEF S
  <2>1. QED
    BY <1>3, LeastElement
<1>5. \E w \in S : \A r \in UsedRegions : w <= Wait(r)
  BY <1>4
<1>6. EarliestWait \in S /\ \A r \in UsedRegions : EarliestWait <= Wait(r)
  BY <1>5 DEF EarliestWait
<1>7. QED
  BY <1>6
-----------------------------------------------------------------------------
(* Lemmas about the platforms to come                                      *)

After(r) == {i \in PlatformsOf(r) : i > pos}

LEMMA PlatformsAreFinite ==
  ASSUME NEW r \in Regions
  PROVE  /\ IsFiniteSet(PlatformsOf(r)) /\ PlatformsOf(r) \subseteq DOMAIN Order
         /\ PlatformCount[r] = Cardinality(PlatformsOf(r))
         /\ PlatformCount[r] \in Nat
<1>1. IsFiniteSet(DOMAIN Order)
  BY OrderIsIndexed, FS_Interval
<1>2. PlatformsOf(r) \subseteq DOMAIN Order
  BY DEF PlatformsOf
<1>3. QED
  BY <1>1, <1>2, FS_Subset, FS_CardinalityType DEF PlatformCount

(* Before its platform starts, a region has one more to come than after.   *)
LEMMA ChosenIsAhead ==
  ASSUME InPlace, pc = "choose", NEW r \in Regions
  PROVE  /\ Cardinality(After(r)) \in Nat
         /\ Cardinality(Ahead(r)) = IF r = Region THEN Cardinality(After(r)) + 1
                                    ELSE Cardinality(After(r))
<1>1. pos \in DOMAIN Order /\ pos \in Nat
  BY OrderIsIndexed DEF InPlace
<1>2. IsFiniteSet(After(r)) /\ pos \notin After(r)
  BY <1>1, PlatformsAreFinite, FS_Subset DEF After
<1>3. Ahead(r) = IF r = Region THEN After(r) \cup {pos} ELSE After(r)
  BY <1>1 DEF Ahead, After, PlatformsOf, Region, Platform
<1>4. QED
  BY <1>2, <1>3, FS_AddElement, FS_CardinalityType

LEMMA LaterAreAhead ==
  ASSUME pc # "choose"
  PROVE  \A r \in Regions : Ahead(r) = After(r)
BY DEF Ahead, After

(* When the loop moves on, the next platform is the first of those after.  *)
LEMMA AdvanceAhead ==
  ASSUME InPlace, pc \in Lane \cup {"choose"}, Advance, NEW r \in Regions
  PROVE  Ahead(r)' = After(r)
<1>1. pos \in DOMAIN Order /\ pos \in Nat /\ Len(Order) \in Nat
  BY OrderIsIndexed DEF InPlace
<1>2. PlatformsOf(r)' = PlatformsOf(r) /\ PlatformsOf(r) \subseteq 1..Len(Order)
  BY OrderIsIndexed DEF PlatformsOf
<1>3. CASE pos < Len(Order)
  <2>1. pc' = "choose" /\ pos' = pos + 1
    BY <1>3 DEF Advance
  <2>2. QED
    BY <1>1, <1>2, <2>1 DEF Ahead, After
<1>4. CASE ~(pos < Len(Order))
  <2>1. pc' = "sweepEnd" /\ pos' = pos + 1
    BY <1>4 DEF Advance
  <2>2. QED
    BY <1>1, <1>2, <1>4, <2>1 DEF Ahead, After
<1>5. QED
  BY <1>3, <1>4

(* The region of a platform about to start has it to come.                 *)
LEMMA ChosenRemains ==
  ASSUME IInv, pc = "choose"
  PROVE  /\ Region \in Regions
         /\ remaining[Region] \in Nat /\ remaining[Region] >= 1
         /\ \A r \in Regions :
              Cardinality(After(r)) = IF r = Region THEN remaining[r] - 1 ELSE remaining[r]
<1>1. Region \in Regions
  BY HereAreRegions DEF IInv
<1>2. \A r \in Regions : /\ Cardinality(After(r)) \in Nat
                         /\ remaining[r] = IF r = Region THEN Cardinality(After(r)) + 1
                                           ELSE Cardinality(After(r))
  BY ChosenIsAhead DEF IInv, RemainingIsAhead
<1>3. QED
  BY <1>1, <1>2
-----------------------------------------------------------------------------
(* Lemmas about a platform's start and end                                 *)

(* A platform gets at most what its region has, and leaves a request for   *)
(* each of the region's platforms to come when there are enough.           *)
LEMMA StartGivesShare ==
  ASSUME IInv, StartPlatform
  PROVE  /\ Region \in Regions /\ budget' \in Share
         /\ Total(ledger[Region]) \in Nat
         /\ Total(ledger[Region]) + budget'.match + budget'.alias <= Limit
         /\ Total(ledger[Region]) + remaining[Region] <= Limit =>
              Total(ledger[Region]) + budget'.match + budget'.alias + remaining[Region] - 1
                <= Limit
<1>1. pc = "choose" /\ Available(Region) > 0
  BY DEF StartPlatform
<1>2. Region \in Regions /\ remaining[Region] \in Nat /\ remaining[Region] >= 1
  BY <1>1, ChosenRemains
<1>3. budget' = Allocate(Available(Region), remaining[Region])
  BY <1>2 DEF StartPlatform
<1>4. /\ Available(Region) \in Nat /\ Total(ledger[Region]) \in Nat
      /\ Total(ledger[Region]) + Available(Region) = Limit
  BY <1>1, <1>2, AvailableIsNat DEF IInv, TypeOK
<1> DEFINE a == Available(Region)
           p == remaining[Region]
           t == PlatformTotal(a, p)
<1>5. a \in Nat /\ a >= 1 /\ p \in Nat /\ p >= 1
  BY <1>1, <1>2, <1>4
<1> HIDE DEF a, p
<1>6. /\ t \in Nat /\ t <= a
      /\ p <= a => t + p <= a + 1
  BY <1>5, PartBounds
<1>7. /\ Allocate(a, p) \in Share
      /\ Allocate(a, p).match + Allocate(a, p).alias <= t
  BY <1>5, ShareBounds
<1> HIDE DEF t
<1>8. budget' \in Share /\ budget'.match + budget'.alias <= t
  BY <1>3, <1>7 DEF a, p
<1>9. budget'.match \in Nat /\ budget'.alias \in Nat
  BY <1>8 DEF Share
<1>10. Total(ledger[Region]) + a = Limit /\ p = remaining[Region]
  BY <1>4 DEF a, p
<1>11. QED
  BY <1>2, <1>4, <1>5, <1>6, <1>8, <1>9, <1>10, Parameters

(* What the end of a platform does to the ledger: the alias calls are      *)
(* charged, and beyond them only regions that are limited from now on.     *)
LEMMA EndCharges ==
  ASSUME IInv, EndPlatform
  PROVE  /\ Region \in Regions /\ Account \in Regions
         /\ ledger' \in [Regions -> Counts]
         /\ Growing(ledger')
         /\ limited \subseteq limited'
         /\ limited' \subseteq limited \cup {Account}
         /\ pc = "aliasLimited" => Account \in limited'
         /\ hit => Region \in limited'
         /\ \A r \in Regions, a \in Ages : ledger'[r][a] >= ledger[r][a] + Uncharged(r)
         /\ \A r \in Regions \ limited' :
              Total(ledger'[r]) = IF r = Account THEN Total(ledger[r]) + used
                                  ELSE Total(ledger[r])
<1> DEFINE filled == IF pc = "aliasLimited" THEN MarkFull(ledger, Account) ELSE ledger
           charged == Record(filled, Account, used)
<1>1. /\ pc \in {"alias", "aliasLimited"}
      /\ limited' = IF pc = "aliasLimited" THEN limited \cup {Account} ELSE limited
      /\ ledger' = IF hit THEN MarkFull(charged, Region) ELSE charged
  BY DEF EndPlatform, LimitedAfterAliases
<1>2. Region \in Regions /\ Account \in Regions
  BY <1>1, HereAreRegions DEF IInv, Lane
<1>3. /\ ledger \in [Regions -> Counts] /\ used \in Nat /\ Growing(ledger)
      /\ limited \subseteq Regions
      /\ hit => Region \in limited
  BY DEF IInv, TypeOK, CountsGrow, RefusedIsRemembered
<1>4. /\ filled \in [Regions -> Counts] /\ Growing(filled)
      /\ \A r \in Regions, a \in Ages : filled[r][a] >= ledger[r][a]
      /\ \A r \in Regions : r # Account \/ pc # "aliasLimited" =>
           Total(filled[r]) = Total(ledger[r])
  <2>1. \A r \in Regions, a \in Ages : ledger[r][a] \in Nat
    BY <1>3 DEF Counts
  <2>2. QED
    BY <1>2, <1>3, <2>1, MarkFullCounts
<1> HIDE DEF filled
<1>5. /\ charged \in [Regions -> Counts] /\ Growing(charged)
      /\ \A r \in Regions, a \in Ages :
           charged[r][a] = IF r = Account THEN filled[r][a] + used ELSE filled[r][a]
      /\ \A r \in Regions :
           Total(charged[r]) = IF r = Account THEN Total(filled[r]) + used
                               ELSE Total(filled[r])
  <2>1. Growing(charged)
    BY <1>2, <1>3, <1>4, RecordGrows
  <2>2. QED
    BY <1>2, <1>3, <1>4, <2>1, RecordCounts
<1> HIDE DEF charged
<1>6. /\ ledger' \in [Regions -> Counts] /\ Growing(ledger')
      /\ \A r \in Regions, a \in Ages : ledger'[r][a] >= charged[r][a]
      /\ \A r \in Regions : r # Region \/ ~hit => Total(ledger'[r]) = Total(charged[r])
  <2>1. \A r \in Regions, a \in Ages : charged[r][a] \in Nat
    BY <1>5 DEF Counts
  <2>2. QED
    BY <1>1, <1>2, <1>5, <2>1, MarkFullCounts
<1>7. ASSUME NEW r \in Regions, NEW a \in Ages
      PROVE  ledger'[r][a] >= ledger[r][a] + Uncharged(r)
  <2>1. /\ ledger[r][a] \in Nat /\ filled[r][a] \in Nat
        /\ charged[r][a] \in Nat /\ ledger'[r][a] \in Nat
    BY <1>3, <1>4, <1>5, <1>6 DEF Counts
  <2>2. Uncharged(r) = IF r = Account THEN used ELSE 0
    BY <1>1 DEF Uncharged
  <2>3. /\ filled[r][a] >= ledger[r][a]
        /\ charged[r][a] = IF r = Account THEN filled[r][a] + used ELSE filled[r][a]
        /\ ledger'[r][a] >= charged[r][a]
    BY <1>4, <1>5, <1>6
  <2>4. QED
    BY <1>3, <2>1, <2>2, <2>3
<1>8. ASSUME NEW r \in Regions \ limited'
      PROVE  Total(ledger'[r]) = IF r = Account THEN Total(ledger[r]) + used
                                 ELSE Total(ledger[r])
  <2>1. (r # Account \/ pc # "aliasLimited") /\ (r # Region \/ ~hit)
    BY <1>1, <1>3
  <2>2. QED
    BY <1>4, <1>5, <1>6, <2>1
<1>9. QED
  BY <1>1, <1>2, <1>3, <1>6, <1>7, <1>8
-----------------------------------------------------------------------------
(* The initial states                                                      *)

LEMMA InitInv == Init => IInv
<1> SUFFICES ASSUME Init
             PROVE  IInv
  OBVIOUS
<1> DEFINE asian == AccountOf[Order[1]]
           home  == RegionOf[Order[1]]
<1>1. PICK lookups \in 0..Limit, challenger \in 0..Limit, again \in 0..(Retries * Limit) :
        /\ again <= Retries * lookups
        /\ retried = Record(NoCalls, asian, again)
        /\ calls = Record(NoCalls, asian, lookups)
        /\ ledger = Record(Record(NoCalls, asian, lookups), home, challenger)
  BY DEF Init
<1>2. asian \in Regions /\ home \in Regions /\ lookups \in Nat /\ challenger \in Nat
      /\ lookups <= Limit /\ again \in Nat
  <2>1. Retries * Limit \in Nat
    BY Parameters
  <2>2. QED
    BY <2>1, RoutesAreRegions, OrderIsIndexed, Parameters
<1>3. /\ NoCalls \in [Regions -> Counts] /\ Growing(NoCalls)
      /\ \A r \in Regions, a \in Ages : NoCalls[r][a] = 0
  BY DEF NoCalls, Counts, Growing
<1> HIDE DEF asian, home
<1>4. /\ calls \in [Regions -> Counts] /\ Growing(calls)
      /\ \A r \in Regions, a \in Ages : calls[r][a] = IF r = asian THEN lookups ELSE 0
  <2>1. Growing(calls)
    BY <1>1, <1>2, <1>3, RecordGrows
  <2>2. /\ calls \in [Regions -> Counts]
        /\ \A r \in Regions : \A a \in Ages :
             calls[r][a] = IF r = asian THEN NoCalls[r][a] + lookups ELSE NoCalls[r][a]
    BY <1>1, <1>2, <1>3, RecordCounts
  <2>3. QED
    BY <1>2, <1>3, <2>1, <2>2
<1>5. /\ ledger \in [Regions -> Counts] /\ Growing(ledger)
      /\ \A r \in Regions, a \in Ages :
           ledger[r][a] = IF r = home THEN calls[r][a] + challenger ELSE calls[r][a]
  <2>1. ledger = Record(calls, home, challenger)
    BY <1>1
  <2>2. Growing(ledger)
    BY <1>2, <1>4, <2>1, RecordGrows
  <2>3. QED
    BY <1>2, <1>4, <2>1, <2>2, RecordCounts
<1>18. /\ retried \in [Regions -> Counts] /\ Growing(retried)
       /\ \A r \in Regions, a \in Ages : retried[r][a] = IF r = asian THEN again ELSE 0
  <2>1. Growing(retried)
    BY <1>1, <1>2, <1>3, RecordGrows
  <2>2. /\ retried \in [Regions -> Counts]
        /\ \A r \in Regions : \A a \in Ages :
             retried[r][a] = IF r = asian THEN NoCalls[r][a] + again ELSE NoCalls[r][a]
    BY <1>1, <1>2, <1>3, RecordCounts
  <2>3. QED
    BY <1>2, <1>3, <2>1, <2>2
<1>6. /\ pc = "choose" /\ pos = 1 /\ budget = NoShare /\ left = 0 /\ used = 0
      /\ tries = 0 /\ pause = 0 /\ hit = FALSE /\ limited = {} /\ remaining = PlatformCount
      /\ worked = FALSE /\ sleep = 0 /\ rankCalls = NoCalls /\ short = Regions
      /\ refused = {}
  BY DEF Init
<1>7. TypeOK
  <2>1. remaining \in [Regions -> Nat]
    BY <1>6, PlatformsAreFinite DEF PlatformCount
  <2>2. pos \in 1..(Len(Order) + 1)
    BY <1>6, OrderIsIndexed
  <2>3. budget \in Share
    BY <1>6 DEF NoShare, Share
  <2>4. QED
    <3>1. tries \in 0..Retries /\ pause \in Nat /\ left \in Nat /\ used \in Nat /\ sleep \in Nat
      BY <1>6, Parameters
    <3>2. {ledger, calls, retried, rankCalls} \subseteq [Regions -> Counts]
      BY <1>3, <1>4, <1>5, <1>6, <1>18
    <3>3. QED
      BY <1>6, <2>1, <2>2, <2>3, <3>1, <3>2 DEF TypeOK
<1>8. InPlace
  BY <1>6, OrderIsIndexed DEF InPlace
<1>9. CountsGrow
  BY <1>4, <1>5, <1>18 DEF CountsGrow
<1>10. CallsAreCharged
  <2>1. \A r \in Regions, a \in Ages : calls[r][a] \in Nat
    BY <1>4 DEF Counts
  <2>2. \A r \in Regions : Uncharged(r) = 0
    BY <1>6 DEF Uncharged
  <2>3. QED
    BY <1>2, <1>5, <2>1, <2>2 DEF CallsAreCharged
<1>19. again <= Allowed(lookups) /\ Allowed(lookups) <= Allowed(Limit)
       /\ Allowed(Limit) = Retries * Limit
  BY <1>1, <1>2, AllowedGrows, Parameters DEF Allowed
<1>20. RetriesAreFew
  <2> SUFFICES ASSUME NEW r \in Regions, NEW a \in Ages
               PROVE  retried[r][a] + Unsent(r) <= Allowed(ledger[r][a] + Uncharged(r))
    BY DEF RetriesAreFew
  <2>1. Unsent(r) = 0 /\ Uncharged(r) = 0
    BY <1>6 DEF Unsent, Uncharged
  <2>2. ledger[r][a] \in Nat /\ retried[r][a] \in Nat
    BY <1>5, <1>18 DEF Counts
  <2>3. CASE r = asian
    <3>1. retried[r][a] = again /\ lookups <= ledger[r][a]
      BY <1>2, <1>4, <1>5, <1>18, <2>3
    <3>2. Allowed(lookups) <= Allowed(ledger[r][a]) /\ Allowed(lookups) \in Nat
          /\ Allowed(ledger[r][a]) \in Nat
      BY <1>2, <2>2, <3>1, AllowedGrows
    <3>3. QED
      BY <1>2, <1>19, <2>1, <2>2, <3>1, <3>2
  <2>4. CASE r # asian
    <3>1. retried[r][a] = 0 /\ Allowed(ledger[r][a]) \in Nat
      BY <1>18, <2>2, <2>4, AllowedGrows
    <3>2. QED
      BY <2>1, <2>2, <3>1
  <2>5. QED
    BY <2>3, <2>4
<1>11. RegionWindowBound
  <2>1. \A r \in Regions : Total(calls[r]) <= Limit
    BY <1>2, <1>4, Parameters DEF Total
  <2>2. Allowed(lookups) \in Nat /\ Allowed(Limit) \in Nat
    BY <1>2, AllowedGrows, Parameters
  <2>3. \A r \in Regions : Total(retried[r]) \in {0, again}
    BY <1>18, Parameters DEF Total
  <2>4. QED
    BY <1>2, <1>19, <2>1, <2>2, <2>3 DEF RegionWindowBound
<1>12. ShareFits
  BY <1>6 DEF ShareFits
<1>13. RemainingIsAhead
  <2>1. \A r \in Regions : Ahead(r) = PlatformsOf(r)
    BY <1>6, PlatformsAreFinite, OrderIsIndexed DEF Ahead
  <2>2. QED
    BY <1>6, <2>1, PlatformsAreFinite DEF RemainingIsAhead
<1>14. RoomAhead
  BY <1>6 DEF RoomAhead
<1>15. RefusedIsRemembered
  BY <1>6 DEF RefusedIsRemembered
<1>16. SleepEndsInTime
  BY <1>6 DEF SleepEndsInTime, Resting
<1>17. QED
  BY <1>7, <1>8, <1>9, <1>10, <1>11, <1>12, <1>13, <1>14, <1>15, <1>16, <1>20 DEF IInv
-----------------------------------------------------------------------------
(* Each part of the invariant is preserved                                 *)

Request == MatchCall \/ RankCall \/ AliasCall \/ Retry

(* What a request changes, and the four things that can become of it.      *)
LEMMA RequestIsAnswered ==
  ASSUME IInv, Request
  PROVE  /\ pc \in {"match", "rank", "alias"}
         /\ pos' = pos /\ budget' = budget /\ remaining' = remaining /\ sleep' = sleep
         /\ ledger' = ledger /\ short' = short /\ worked' \in BOOLEAN
         /\ left' \in Nat /\ tries' \in 0..Retries /\ pause' \in Nat
         /\ left > 0 \/ tries > 0
         /\ tries > 0 => Retry
         /\ pc' # "stopped" =>
              /\ left' <= left
              /\ ~Retry => left' <= left - 1
         /\ tries' \in {0, tries + 1}
         /\ \/ /\ pc' = pc /\ hit' = hit /\ limited' = limited /\ refused' = refused
            \/ /\ pc \in {"match", "rank"} /\ pc' = pc /\ left' = 0 /\ hit' = TRUE
               /\ tries' = 0
               /\ limited' = limited \cup {Region} /\ refused' = refused \cup {Region}
            \/ /\ pc = "alias" /\ pc' = "aliasLimited" /\ left' = 0 /\ hit' = hit
               /\ tries' = 0
               /\ limited' = limited /\ refused' = refused \cup {Account}
            \/ /\ pc' = "stopped" /\ tries' = 0 /\ hit' = hit /\ limited' = limited
               /\ refused' = refused
<1>1. /\ left \in Nat /\ tries \in 0..Retries /\ Retries \in Nat /\ MaxSleep \in Nat
      /\ worked \in BOOLEAN
      /\ tries > 0 => pc \in {"match", "rank", "alias"}
  BY Parameters DEF IInv, TypeOK, InPlace
<1>2. CASE MatchCall
  <2>1. /\ pc = "match" /\ left > 0 /\ tries = 0 /\ worked' = TRUE /\ Answered(left - 1)
        /\ pos' = pos /\ budget' = budget /\ remaining' = remaining /\ sleep' = sleep
        /\ ledger' = ledger /\ short' = short
    BY <1>2 DEF MatchCall
  <2>2. QED
    BY <1>1, <2>1 DEF Answered, PutOff, CallEnds
<1>3. CASE RankCall
  <2>1. /\ pc = "rank" /\ left > 0 /\ tries = 0 /\ worked' = TRUE /\ Answered(left - 1)
        /\ pos' = pos /\ budget' = budget /\ remaining' = remaining /\ sleep' = sleep
        /\ ledger' = ledger /\ short' = short
    BY <1>3 DEF RankCall
  <2>2. QED
    BY <1>1, <2>1 DEF Answered, PutOff, CallEnds
<1>4. CASE AliasCall
  <2>1. /\ pc = "alias" /\ left > 0 /\ tries = 0 /\ worked' = TRUE
        /\ AliasAnswered(left - 1)
        /\ pos' = pos /\ budget' = budget /\ remaining' = remaining /\ sleep' = sleep
        /\ ledger' = ledger /\ short' = short
    BY <1>4 DEF AliasCall
  <2>2. QED
    BY <1>1, <2>1 DEF AliasAnswered, PutOff, CallEnds
<1>5. CASE Retry
  <2>1. /\ tries > 0 /\ worked' = worked
        /\ pos' = pos /\ budget' = budget /\ remaining' = remaining /\ sleep' = sleep
        /\ ledger' = ledger /\ short' = short
    BY <1>5 DEF Retry
  <2>2. CASE pc \in {"match", "rank"}
    <3>1. Answered(left)
      BY <1>5, <2>2 DEF Retry
    <3>2. QED
      BY <1>1, <1>5, <2>1, <2>2, <3>1 DEF Answered, PutOff, CallEnds
  <2>3. CASE pc = "alias"
    <3>1. AliasAnswered(left)
      BY <1>5, <2>3 DEF Retry
    <3>2. QED
      BY <1>1, <1>5, <2>1, <2>3, <3>1 DEF AliasAnswered, PutOff, CallEnds
  <2>4. QED
    BY <1>1, <2>1, <2>2, <2>3
<1>6. QED
  BY <1>2, <1>3, <1>4, <1>5 DEF Request

(* A retry of the match or the alias lane is recorded on its region.       *)
LEMMA RetryIsRecorded ==
  ASSUME IInv, Retry, pc # "rank"
  PROVE  /\ pc \in {"match", "alias"} /\ Region \in Regions /\ Account \in Regions
         /\ retried' \in [Regions -> Counts]
         /\ Growing(retried')
         /\ \A r \in Regions : \A a \in Ages :
              retried'[r][a] = IF r = (IF pc = "match" THEN Region ELSE Account)
                               THEN retried[r][a] + 1 ELSE retried[r][a]
<1>1. pc \in {"match", "alias"}
  BY RequestIsAnswered DEF Request
<1>2. Region \in Regions /\ Account \in Regions
  BY <1>1, HereAreRegions DEF IInv, Lane
<1>3. retried' = Record(retried, IF pc = "match" THEN Region ELSE Account, 1)
  BY <1>1 DEF Retry
<1>4. retried \in [Regions -> Counts] /\ Growing(retried)
  BY DEF IInv, TypeOK, CountsGrow
<1>5. Growing(retried')
  BY <1>2, <1>3, <1>4, RecordGrows
<1>6. QED
  BY <1>1, <1>2, <1>3, <1>4, <1>5, RecordCounts

(* A call is recorded on the lane's region.                                *)
LEMMA CallIsRecorded ==
  ASSUME IInv, MatchCall \/ AliasCall
  PROVE  /\ Region \in Regions /\ Account \in Regions
         /\ calls' \in [Regions -> Counts]
         /\ Growing(calls')
         /\ \A r \in Regions : \A a \in Ages :
              calls'[r][a] = IF r = (IF pc = "match" THEN Region ELSE Account)
                             THEN calls[r][a] + 1 ELSE calls[r][a]
<1>1. pc \in {"match", "alias"}
  BY DEF MatchCall, AliasCall
<1>2. Region \in Regions /\ Account \in Regions
  BY <1>1, HereAreRegions DEF IInv, Lane
<1>3. calls' = Record(calls, IF pc = "match" THEN Region ELSE Account, 1)
  BY DEF MatchCall, AliasCall
<1>4. calls \in [Regions -> Counts] /\ Growing(calls)
  BY DEF IInv, TypeOK, CountsGrow
<1>5. Growing(calls')
  BY <1>2, <1>3, <1>4, RecordGrows
<1>6. QED
  BY <1>2, <1>3, <1>4, <1>5, RecordCounts

LEMMA MatchesAreCharged ==
  ASSUME IInv, StartAliases
  PROVE  /\ Region \in Regions /\ Account \in Regions
         /\ ledger' \in [Regions -> Counts]
         /\ Growing(ledger')
         /\ \A r \in Regions : \A a \in Ages :
              ledger'[r][a] = IF r = Region THEN ledger[r][a] + used ELSE ledger[r][a]
         /\ \A r \in Regions :
              Total(ledger'[r]) = IF r = Region THEN Total(ledger[r]) + used
                                  ELSE Total(ledger[r])
<1>1. Region \in Regions /\ Account \in Regions
  BY HereAreRegions DEF StartAliases, IInv, Lane
<1>2. ledger' = Record(ledger, Region, used)
  BY DEF StartAliases, ChargeMatches
<1>3. ledger \in [Regions -> Counts] /\ Growing(ledger) /\ used \in Nat
  BY DEF IInv, TypeOK, CountsGrow
<1>4. Growing(ledger')
  BY <1>1, <1>2, <1>3, RecordGrows
<1>5. QED
  BY <1>1, <1>2, <1>3, <1>4, RecordCounts

LEMMA TickAges ==
  ASSUME IInv, Tick
  PROVE  /\ ledger' \in [Regions -> Counts] /\ calls' \in [Regions -> Counts]
         /\ rankCalls' \in [Regions -> Counts] /\ retried' \in [Regions -> Counts]
         /\ Growing(ledger') /\ Growing(calls') /\ Growing(retried')
         /\ \A r \in Regions : /\ Total(ledger'[r]) <= Total(ledger[r])
                               /\ Total(calls'[r]) <= Total(calls[r])
                               /\ Total(retried'[r]) <= Total(retried[r])
<1>1. /\ ledger \in [Regions -> Counts] /\ calls \in [Regions -> Counts]
      /\ rankCalls \in [Regions -> Counts] /\ retried \in [Regions -> Counts]
      /\ Growing(ledger) /\ Growing(calls) /\ Growing(retried)
  BY DEF IInv, TypeOK, CountsGrow
<1>2. ledger' = Older(ledger) /\ calls' = Older(calls) /\ rankCalls' = Older(rankCalls)
      /\ retried' = Older(retried)
  BY DEF Tick
<1>3. QED
  BY <1>1, <1>2, OlderCounts

LEMMA StepTypeOK ==
  ASSUME IInv, Next
  PROVE  TypeOK'
<1>1. TypeOK /\ InPlace
  BY DEF IInv
<1>2. /\ pos \in Nat /\ Len(Order) \in Nat
      /\ pc \in Lane \cup {"choose"} => pos + 1 \in 1..(Len(Order) + 1)
  BY <1>1, OrderIsIndexed DEF TypeOK, InPlace
<1>3. NoShare \in Share /\ budget.rank \in Nat /\ budget.alias \in Nat
  BY <1>1 DEF NoShare, Share, TypeOK
<1>4. ASSUME Advance, pc \in Lane \cup {"choose"}
      PROVE  /\ pc' \in {"choose", "sweepEnd"} /\ pos' \in 1..(Len(Order) + 1)
             /\ budget' \in Share /\ left' \in Nat /\ used' \in Nat /\ hit' \in BOOLEAN
  BY <1>2, <1>3, <1>4 DEF Advance
<1>5. pc = "choose" => /\ Region \in Regions
                       /\ [remaining EXCEPT ![Region] = @ - 1] \in [Regions -> Nat]
  <2>1. ASSUME pc = "choose"
        PROVE  Region \in Regions /\ remaining[Region] - 1 \in Nat
    BY <2>1, ChosenRemains
  <2>2. QED
    BY <1>1, <2>1 DEF TypeOK
<1>6. CASE SkipPlatform
  BY <1>1, <1>4, <1>5, <1>6 DEF SkipPlatform, client, TypeOK
<1>7. CASE StartPlatform
  <2>1. budget' \in Share /\ budget'.match \in Nat
    BY <1>7, StartGivesShare DEF Share
  <2>2. left' \in Nat
    BY <1>7, <2>1 DEF StartPlatform
  <2>3. remaining' \in [Regions -> Nat]
    BY <1>5, <1>7 DEF StartPlatform
  <2>4. QED
    BY <1>1, <1>7, <2>1, <2>2, <2>3 DEF StartPlatform, client, TypeOK
<1>8. CASE MatchCall \/ AliasCall \/ RankCall \/ Retry
  <2>1. Request
    BY <1>8 DEF Request
  <2>2. Region \in Regions /\ Account \in Regions
    BY <2>1, RequestIsAnswered, HereAreRegions DEF IInv, Lane
  <2>3. calls' \in [Regions -> Counts] /\ used' \in Nat
    <3>1. CASE MatchCall \/ AliasCall
      <4>1. used' = used + 1
        BY <3>1 DEF MatchCall, AliasCall
      <4>2. QED
        BY <1>1, <3>1, <4>1, CallIsRecorded DEF TypeOK
    <3>2. CASE RankCall \/ Retry
      BY <1>1, <3>2 DEF RankCall, Retry, TypeOK
    <3>3. QED
      BY <1>8, <3>1, <3>2
  <2>4. rankCalls' \in [Regions -> Counts]
    <3>1. CASE RankCall
      BY <1>1, <2>2, <3>1, RecordCounts DEF RankCall, TypeOK
    <3>2. CASE MatchCall \/ AliasCall \/ Retry
      BY <1>1, <3>2 DEF MatchCall, AliasCall, Retry, TypeOK
    <3>3. QED
      BY <1>8, <3>1, <3>2
  <2>5. retried' \in [Regions -> Counts]
    <3>1. CASE Retry /\ pc # "rank"
      BY <3>1, RetryIsRecorded
    <3>2. CASE ~Retry \/ pc = "rank"
      BY <1>1, <1>8, <3>2 DEF MatchCall, AliasCall, RankCall, Retry, TypeOK
    <3>3. QED
      BY <3>1, <3>2
  <2>6. /\ pc' \in {"match", "rank", "alias", "aliasLimited", "stopped"}
        /\ hit' \in BOOLEAN /\ limited' \subseteq Regions /\ refused' \subseteq Regions
    BY <1>1, <2>1, <2>2, RequestIsAnswered DEF TypeOK
  <2>7. /\ pos' = pos /\ budget' = budget /\ remaining' = remaining /\ sleep' = sleep
        /\ ledger' = ledger /\ short' = short /\ worked' \in BOOLEAN
        /\ left' \in Nat /\ tries' \in 0..Retries /\ pause' \in Nat
    BY <2>1, RequestIsAnswered
  <2>8. QED
    BY <1>1, <2>3, <2>4, <2>5, <2>6, <2>7 DEF TypeOK
<1>9. CASE StartRanks
  <2>1. left' \in Nat
    BY <1>3, <1>9 DEF StartRanks
  <2>2. QED
    BY <1>1, <1>9, <2>1 DEF StartRanks, control, client, TypeOK
<1>11. CASE StartAliases
  <2>1. ledger' \in [Regions -> Counts] /\ Account \in Regions
    BY <1>11, MatchesAreCharged
  <2>2. Total(ledger'[Account]) \in Nat
    BY <2>1, Parameters DEF Counts, Total
  <2>3. AliasBudget(ledger') \in Nat
    BY <1>3, <2>2, Parameters DEF AliasBudget, Least
  <2>4. left' \in Nat
    BY <1>11, <2>3 DEF StartAliases
  <2>5. QED
    BY <1>1, <1>11, <2>1, <2>4 DEF StartAliases, control, client, TypeOK
<1>13. CASE EndPlatform
  <2>1. ledger' \in [Regions -> Counts] /\ Account \in Regions
        /\ limited' \subseteq limited \cup {Account}
    BY <1>13, EndCharges
  <2>2. short' \subseteq Regions /\ limited' \subseteq Regions
    BY <1>1, <1>13, <2>1 DEF EndPlatform, TypeOK
  <2>3. Advance /\ pc \in Lane
    BY <1>13 DEF EndPlatform, Lane
  <2>4. QED
    BY <1>1, <1>4, <1>13, <2>1, <2>2, <2>3 DEF EndPlatform, client, TypeOK
<1>14. CASE EndSweep
  <2>1. NextSweepSleep \in Nat
    <3>1. PICK r \in UsedRegions : EarliestWait = Wait(r)
      BY EarliestIsLeast DEF IInv, TypeOK, CountsGrow
    <3>2. r \in Regions
      BY RoutesAreRegions DEF UsedRegions
    <3>3. Wait(r) \in Nat
      BY <3>2, WaitIsOldest DEF IInv, TypeOK, CountsGrow
    <3>4. QED
      BY <3>1, <3>3, Parameters DEF NextSweepSleep
  <2>2. QED
    BY <1>1, <1>14, <2>1 DEF EndSweep, client, TypeOK
<1>15. CASE Wake
  <2>1. remaining' \in [Regions -> Nat]
    BY <1>15, PlatformsAreFinite DEF Wake, StartSweep, PlatformCount
  <2>2. pos' \in 1..(Len(Order) + 1)
    BY <1>15, OrderIsIndexed DEF Wake, StartSweep
  <2>3. short' \subseteq Regions /\ limited' = {} /\ refused' = {} /\ worked' = FALSE
    BY <1>15 DEF Wake, StartSweep
  <2>4. QED
    BY <1>1, <1>15, <2>1, <2>2, <2>3 DEF Wake, client, TypeOK
<1>16. CASE Tick
  <2>1. /\ ledger' \in [Regions -> Counts] /\ calls' \in [Regions -> Counts]
        /\ rankCalls' \in [Regions -> Counts] /\ retried' \in [Regions -> Counts]
    BY <1>16, TickAges
  <2>2. sleep' \in Nat /\ pause' \in Nat
    BY <1>1, <1>16 DEF Tick, TypeOK
  <2>3. QED
    BY <1>1, <1>16, <2>1, <2>2 DEF Tick, TypeOK
<1>17. QED
  BY <1>6, <1>7, <1>8, <1>9, <1>11, <1>13, <1>14, <1>15, <1>16 DEF Next

LEMMA StepInPlace ==
  ASSUME IInv, Next
  PROVE  InPlace'
<1>1. InPlace /\ TypeOK
  BY DEF IInv
<1>2. ASSUME Advance, pc \in Lane \cup {"choose"}, tries' = 0
      PROVE  InPlace'
  <2>1. pos \in Nat /\ pos \in DOMAIN Order /\ Len(Order) \in Nat
        /\ DOMAIN Order = 1..Len(Order)
    BY <1>1, <1>2, OrderIsIndexed DEF InPlace
  <2>2. used' = 0 /\ ~hit' /\ pc' \in {"choose", "sweepEnd"}
    BY <1>2, <2>1 DEF Advance
  <2>3. pc' = "choose" => pos' \in DOMAIN Order
    BY <1>2, <2>1 DEF Advance
  <2>4. QED
    BY <1>2, <2>2, <2>3 DEF InPlace, Lane
<1>7. tries \in Nat /\ used \in Nat
  BY <1>1, Parameters DEF TypeOK
<1>3. CASE SkipPlatform \/ EndPlatform
  <2>1. Advance /\ pc \in Lane \cup {"choose"} /\ tries' = tries
    BY <1>3 DEF SkipPlatform, EndPlatform, Lane, client
  <2>2. tries = 0
    BY <1>1, <1>3, <1>7 DEF InPlace, SkipPlatform, EndPlatform
  <2>3. QED
    BY <1>2, <2>1, <2>2
<1>4. CASE StartPlatform \/ StartRanks \/ StartAliases
  <2>1. tries' = tries /\ tries = 0
    BY <1>1, <1>4, <1>7 DEF InPlace, StartPlatform, StartRanks, StartAliases, client
  <2>2. QED
    BY <1>1, <1>4, <2>1 DEF InPlace, Lane, control, StartPlatform, StartRanks, StartAliases
<1>8. CASE Request
  <2>1. /\ pos' = pos /\ pc \in {"match", "rank", "alias"}
        /\ pc' \in {pc, "aliasLimited", "stopped"}
        /\ tries' > 0 => pc' = pc
    <3>1. pos' = pos /\ pc \in {"match", "rank", "alias"}
      BY <1>8, RequestIsAnswered
    <3>2. pc' = pc \/ (pc' \in {"aliasLimited", "stopped"} /\ tries' = 0)
      BY <1>8, RequestIsAnswered
    <3>3. QED
      BY <3>1, <3>2
  <2>2. pc # "rank" /\ tries' > 0 => used' > 0
    <3>1. CASE MatchCall \/ AliasCall
      BY <1>7, <3>1 DEF MatchCall, AliasCall
    <3>2. CASE Retry
      BY <1>1, <3>2 DEF Retry, InPlace
    <3>3. CASE RankCall
      BY <3>3 DEF RankCall
    <3>4. QED
      BY <1>8, <3>1, <3>2, <3>3 DEF Request
  <2>3. QED
    BY <1>1, <2>1, <2>2 DEF InPlace, Lane
<1>5. CASE EndSweep \/ Wake \/ Tick
  BY <1>1, <1>5, OrderIsIndexed DEF InPlace, Lane, EndSweep, Wake, StartSweep, Tick, client
<1>6. QED
  BY <1>3, <1>4, <1>5, <1>8 DEF Next, Request

LEMMA StepCountsGrow ==
  ASSUME IInv, Next
  PROVE  CountsGrow'
<1>1. Growing(ledger) /\ Growing(calls) /\ Growing(retried)
  BY DEF IInv, CountsGrow
<1>2. CASE SkipPlatform \/ StartPlatform \/ StartRanks \/ RankCall \/ EndSweep \/ Wake
  BY <1>1, <1>2 DEF CountsGrow, SkipPlatform, StartPlatform, StartRanks, RankCall,
     EndSweep, Wake, client
<1>3. CASE MatchCall \/ AliasCall
  BY <1>1, <1>3, CallIsRecorded DEF CountsGrow, MatchCall, AliasCall
<1>8. CASE Retry
  <2>1. ledger' = ledger /\ calls' = calls
    BY <1>8 DEF Retry
  <2>2. Growing(retried')
    <3>1. CASE pc = "rank"
      BY <1>1, <1>8, <3>1 DEF Retry
    <3>2. QED
      BY <1>8, <3>1, RetryIsRecorded
  <2>3. QED
    BY <1>1, <2>1, <2>2 DEF CountsGrow
<1>4. CASE StartAliases
  BY <1>1, <1>4, MatchesAreCharged DEF CountsGrow, StartAliases, client
<1>5. CASE EndPlatform
  BY <1>1, <1>5, EndCharges DEF CountsGrow, EndPlatform, client
<1>6. CASE Tick
  BY <1>6, TickAges DEF CountsGrow
<1>7. QED
  BY <1>2, <1>3, <1>4, <1>5, <1>6, <1>8 DEF Next

LEMMA SamePlace ==
  ASSUME pos' = pos
  PROVE  Region' = Region /\ Account' = Account
BY DEF Region, Account, Platform

(* Between the lanes nothing is charged and nothing is left to charge.     *)
LEMMA PausesChargeNothing ==
  ASSUME InPlace, SkipPlatform \/ StartPlatform \/ StartRanks \/ EndSweep \/ Wake,
         NEW r \in Regions
  PROVE  Uncharged(r)' = Uncharged(r)
<1>1. CASE SkipPlatform \/ EndSweep \/ Wake
  <2>1. /\ pc \in {"choose", "sweepEnd", "sleep"}
        /\ pc' \in {"choose", "sweepEnd", "sleep"}
    BY <1>1 DEF SkipPlatform, Advance, EndSweep, Wake
  <2>2. QED
    BY <2>1 DEF Uncharged
<1>2. CASE StartPlatform
  <2>1. pc = "choose" /\ pc' = "match" /\ used' = used
    BY <1>2 DEF StartPlatform
  <2>2. used = 0
    BY <2>1 DEF InPlace
  <2>3. QED
    BY <2>1, <2>2 DEF Uncharged
<1>3. CASE StartRanks
  <2>1. pc = "match" /\ pc' = "rank" /\ pos' = pos /\ used' = used
    BY <1>3 DEF StartRanks, control
  <2>2. QED
    BY <2>1, SamePlace DEF Uncharged
<1>4. QED
  BY <1>1, <1>2, <1>3

LEMMA StepCallsAreCharged ==
  ASSUME IInv, Next
  PROVE  CallsAreCharged'
<1>1. CallsAreCharged /\ InPlace /\ TypeOK
  BY DEF IInv
<1>2. \A r \in Regions : \A a \in Ages :
        calls[r][a] \in Nat /\ ledger[r][a] \in Nat /\ used \in Nat
  BY <1>1 DEF TypeOK, Counts
<1>3. ASSUME NEW r \in Regions
      PROVE  Uncharged(r) \in Nat
  BY <1>1 DEF Uncharged, TypeOK
<1>4. CASE SkipPlatform \/ StartPlatform \/ StartRanks \/ EndSweep \/ Wake
  <2>1. /\ ledger' = ledger /\ calls' = calls /\ pc # "stopped"
    BY <1>4 DEF SkipPlatform, StartPlatform, StartRanks, EndSweep, Wake
  <2>2. \A r \in Regions : Uncharged(r)' = Uncharged(r)
    BY <1>1, <1>4, PausesChargeNothing
  <2>3. QED
    BY <1>1, <2>1, <2>2 DEF CallsAreCharged
<1>5. CASE MatchCall \/ AliasCall
  <2>1. pc \in {"match", "alias"} /\ used' = used + 1 /\ pos' = pos /\ ledger' = ledger
        /\ pc' \in {pc, "aliasLimited", "stopped"} /\ (pc = "match" => pc' # "aliasLimited")
    <3>1. Request
      BY <1>5 DEF Request
    <3>2. QED
      BY <1>5, <3>1, RequestIsAnswered DEF MatchCall, AliasCall
  <2>2. SUFFICES ASSUME pc' # "stopped", NEW r \in Regions, NEW a \in Ages
                 PROVE  calls'[r][a] <= ledger'[r][a] + Uncharged(r)'
    BY DEF CallsAreCharged
  <2>3. calls'[r][a] = IF r = (IF pc = "match" THEN Region ELSE Account)
                       THEN calls[r][a] + 1 ELSE calls[r][a]
    BY <1>5, CallIsRecorded
  <2>4. calls[r][a] <= ledger[r][a] + Uncharged(r)
    BY <1>1, <2>1 DEF CallsAreCharged
  <2>5. Uncharged(r)' = IF r = (IF pc = "match" THEN Region ELSE Account)
                        THEN Uncharged(r) + 1 ELSE Uncharged(r)
    BY <2>1, <2>2, SamePlace DEF Uncharged
  <2>6. QED
    BY <1>2, <1>3, <2>1, <2>3, <2>4, <2>5
<1>6. CASE RankCall \/ Retry
  <2>1. /\ pc \in {"match", "rank", "alias"} /\ pos' = pos /\ ledger' = ledger
        /\ pc' = pc \/ (pc = "alias" /\ pc' = "aliasLimited") \/ pc' = "stopped"
    BY <1>6, RequestIsAnswered DEF Request
  <2>2. calls' = calls /\ used' = used
    BY <1>6 DEF RankCall, Retry
  <2>3. QED
    BY <1>1, <2>1, <2>2, SamePlace DEF CallsAreCharged, Uncharged
<1>7. CASE StartAliases
  <2>1. pc = "rank" /\ pc' = "alias" /\ used' = 0 /\ calls' = calls
    BY <1>7 DEF StartAliases
  <2>2. SUFFICES ASSUME NEW r \in Regions, NEW a \in Ages
                 PROVE  calls'[r][a] <= ledger'[r][a] + Uncharged(r)'
    BY DEF CallsAreCharged
  <2>3. ledger'[r][a] = IF r = Region THEN ledger[r][a] + used ELSE ledger[r][a]
    BY <1>7, MatchesAreCharged
  <2>4. calls[r][a] <= ledger[r][a] + Uncharged(r)
    BY <1>1, <2>1 DEF CallsAreCharged
  <2>5. Uncharged(r)' = 0 /\ Uncharged(r) = IF r = Region THEN used ELSE 0
    BY <2>1 DEF Uncharged
  <2>6. QED
    BY <1>2, <2>1, <2>3, <2>4, <2>5
<1>8. CASE EndPlatform
  <2>1. pc # "stopped" /\ pc' \in {"choose", "sweepEnd"} /\ calls' = calls
    BY <1>8 DEF EndPlatform, Advance
  <2>2. SUFFICES ASSUME NEW r \in Regions, NEW a \in Ages
                 PROVE  calls'[r][a] <= ledger'[r][a] + Uncharged(r)'
    BY DEF CallsAreCharged
  <2>3. ledger'[r][a] >= ledger[r][a] + Uncharged(r) /\ ledger'[r][a] \in Nat
    BY <1>8, EndCharges DEF Counts
  <2>4. calls[r][a] <= ledger[r][a] + Uncharged(r)
    BY <1>1, <2>1 DEF CallsAreCharged
  <2>5. Uncharged(r)' = 0
    BY <2>1 DEF Uncharged
  <2>6. QED
    BY <1>2, <1>3, <2>1, <2>3, <2>4, <2>5
<1>9. CASE Tick
  <2>1. /\ pc # "stopped" /\ pc' = pc /\ used' = used /\ pos' = pos
        /\ calls' = Older(calls) /\ ledger' = Older(ledger)
    BY <1>9 DEF Tick
  <2>2. SUFFICES ASSUME NEW r \in Regions, NEW a \in Ages
                 PROVE  calls'[r][a] <= ledger'[r][a] + Uncharged(r)'
    BY DEF CallsAreCharged
  <2>3. Uncharged(r)' = Uncharged(r)
    BY <2>1, SamePlace DEF Uncharged
  <2>4. /\ calls'[r][0] = 0 /\ ledger'[r][0] = 0
        /\ a # 0 => calls'[r][a] = calls[r][a - 1] /\ ledger'[r][a] = ledger[r][a - 1]
    BY <1>1, <2>1, OlderCounts DEF TypeOK
  <2>5. a # 0 => a - 1 \in Ages
    BY Parameters DEF Ages
  <2>6. a # 0 => calls[r][a - 1] <= ledger[r][a - 1] + Uncharged(r)
    BY <1>1, <2>1, <2>5 DEF CallsAreCharged
  <2>7. CASE a = 0
    BY <1>3, <2>3, <2>4, <2>7
  <2>8. CASE a # 0
    BY <2>3, <2>4, <2>6, <2>8
  <2>9. QED
    BY <2>7, <2>8
<1>10. QED
  BY <1>4, <1>5, <1>6, <1>7, <1>8, <1>9 DEF Next

LEMMA StaysAllowed ==
  ASSUME NEW x \in Nat, NEW m \in Nat, NEW n \in Nat, x <= Allowed(m), m <= n
  PROVE  x <= Allowed(n)
<1>1. Allowed(m) \in Nat /\ Allowed(n) \in Nat /\ Allowed(m) <= Allowed(n)
  BY AllowedGrows
<1>2. QED
  BY <1>1

(* A call brings its retries with it, and a retry is one of them.          *)
LEMMA StepRetriesAreFew ==
  ASSUME IInv, Next
  PROVE  RetriesAreFew'
<1>1. RetriesAreFew /\ InPlace /\ TypeOK /\ TypeOK'
  BY StepTypeOK DEF IInv
<1>2. /\ used \in Nat /\ used' \in Nat /\ Retries \in Nat
      /\ tries \in 0..Retries /\ tries' \in 0..Retries
  BY <1>1, Parameters DEF TypeOK
<1> SUFFICES ASSUME pc' # "stopped", NEW r \in Regions, NEW a \in Ages
             PROVE  retried'[r][a] + Unsent(r)' <= Allowed(ledger'[r][a] + Uncharged(r)')
  BY DEF RetriesAreFew
<1>3. /\ \A b \in Ages : retried[r][b] \in Nat /\ ledger[r][b] \in Nat
      /\ retried'[r][a] \in Nat /\ ledger'[r][a] \in Nat
  BY <1>1 DEF TypeOK, Counts
<1>4. /\ Uncharged(r) \in Nat /\ Uncharged(r)' \in Nat
      /\ Unsent(r) \in Nat /\ Unsent(r)' \in Nat
  <2>1. Uncharged(r) \in Nat /\ Uncharged(r)' \in Nat
    BY <1>2 DEF Uncharged
  <2>2. Unsent(r) \in Nat /\ Unsent(r)' \in Nat
    <3>1. Spare(tries) \in Nat /\ Spare(tries') \in Nat /\ 0 \in Nat
      BY <1>2, SpareShrinks
    <3>2. QED
      BY <3>1, Zenon DEF Unsent
  <2>3. QED
    BY <2>1, <2>2
<1>5. pc # "stopped" =>
        \A b \in Ages : retried[r][b] + Unsent(r) <= Allowed(ledger[r][b] + Uncharged(r))
  BY <1>1 DEF RetriesAreFew
<1>6. ASSUME pc # "stopped", retried' = retried, Unsent(r)' = 0,
             ledger[r][a] + Uncharged(r) <= ledger'[r][a] + Uncharged(r)'
      PROVE  retried'[r][a] + Unsent(r)' <= Allowed(ledger'[r][a] + Uncharged(r)')
  <2> DEFINE m == ledger[r][a] + Uncharged(r)
             n == ledger'[r][a] + Uncharged(r)'
  <2>1. m \in Nat /\ n \in Nat /\ m <= n
    BY <1>3, <1>4, <1>6
  <2>2. retried[r][a] + Unsent(r) <= Allowed(m)
    BY <1>5, <1>6
  <2> HIDE DEF m, n
  <2>3. Allowed(m) \in Nat /\ Allowed(n) \in Nat /\ Allowed(m) <= Allowed(n)
    BY <2>1, AllowedGrows
  <2>4. retried'[r][a] + Unsent(r)' <= Allowed(n)
    BY <1>3, <1>4, <1>6, <2>2, <2>3
  <2>5. QED
    BY <2>4 DEF n
<1>7. tries' = 0 => Unsent(r)' = 0
  BY <1>2 DEF Unsent
<1>8. CASE SkipPlatform \/ StartPlatform \/ StartRanks \/ EndSweep \/ Wake
  <2>1. /\ ledger' = ledger /\ retried' = retried /\ tries' = tries /\ pc # "stopped"
    BY <1>8 DEF SkipPlatform, StartPlatform, StartRanks, EndSweep, Wake, client
  <2>2. tries = 0
    BY <1>1, <1>2, <1>8 DEF InPlace, SkipPlatform, StartPlatform, StartRanks, EndSweep, Wake
  <2>3. Uncharged(r)' = Uncharged(r)
    BY <1>1, <1>8, PausesChargeNothing
  <2>4. QED
    BY <1>3, <1>4, <1>6, <1>7, <2>1, <2>2, <2>3
<1>9. CASE MatchCall \/ AliasCall
  <2>1. /\ pc \in {"match", "alias"} /\ pos' = pos /\ ledger' = ledger /\ tries' \in {0, 1}
        /\ pc' = pc \/ (pc = "alias" /\ pc' = "aliasLimited" /\ tries' = 0)
    <3>1. Request
      BY <1>9 DEF Request
    <3>2. tries = 0 /\ pc \in {"match", "alias"}
      BY <1>9 DEF MatchCall, AliasCall
    <3>3. pos' = pos /\ ledger' = ledger /\ tries' \in {0, tries + 1}
      BY <3>1, RequestIsAnswered, Zenon
    <3>4. \/ pc' = pc
          \/ pc = "alias" /\ pc' = "aliasLimited" /\ tries' = 0
          \/ pc' = "stopped"
      BY <3>1, RequestIsAnswered, Zenon
    <3>5. QED
      BY <3>2, <3>3, <3>4
  <2>2. used' = used + 1 /\ retried' = retried
    BY <1>9 DEF MatchCall, AliasCall
  <2>3. Uncharged(r)' = IF r = (IF pc = "match" THEN Region ELSE Account)
                        THEN Uncharged(r) + 1 ELSE Uncharged(r)
    BY <2>1, <2>2, SamePlace DEF Uncharged
  <2>4. Unsent(r)' = IF tries' = 1 /\ r = (IF pc = "match" THEN Region ELSE Account)
                     THEN Retries ELSE 0
    <3>1. Region' = Region /\ Account' = Account
      BY <2>1, SamePlace
    <3>2. tries' > 0 <=> tries' = 1
      BY <2>1
    <3>3. tries' = 1 => Spare(tries') = Retries
      BY <1>2, SpareShrinks
    <3>4. tries' = 1 => pc' = pc
      BY <2>1
    <3>5. CASE tries' = 1
      BY <2>1, <3>1, <3>2, <3>3, <3>4, <3>5 DEF Unsent
    <3>6. CASE tries' # 1
      BY <3>2, <3>6 DEF Unsent
    <3>7. QED
      BY <3>5, <3>6
  <2>5. CASE tries' = 1 /\ r = (IF pc = "match" THEN Region ELSE Account)
    <3> DEFINE m == ledger[r][a] + Uncharged(r)
    <3>1. m \in Nat
      BY <1>3, <1>4
    <3>2. retried[r][a] + Unsent(r) <= Allowed(m)
      BY <1>5, <2>1
    <3>3. ledger'[r][a] + Uncharged(r)' = m + 1
      BY <1>3, <1>4, <2>1, <2>3, <2>5
    <3> HIDE DEF m
    <3>4. Allowed(m) \in Nat /\ Allowed(m + 1) = Allowed(m) + Retries
      BY <3>1, AllowedGrows
    <3>5. QED
      BY <1>2, <1>3, <1>4, <2>2, <2>4, <2>5, <3>2, <3>3, <3>4
  <2>6. CASE ~(tries' = 1 /\ r = (IF pc = "match" THEN Region ELSE Account))
    <3>1. Unsent(r)' = 0
      BY <2>4, <2>6
    <3>2. ledger[r][a] + Uncharged(r) <= ledger'[r][a] + Uncharged(r)'
      BY <1>3, <1>4, <2>1, <2>3
    <3>3. QED
      BY <1>6, <2>1, <2>2, <3>1, <3>2
  <2>7. QED
    BY <2>5, <2>6
<1>10. CASE RankCall \/ (Retry /\ pc = "rank")
  <2>1. pc = "rank" /\ pc' = "rank" /\ pos' = pos /\ ledger' = ledger
    BY <1>10, RequestIsAnswered DEF Request, RankCall
  <2>2. used' = used /\ retried' = retried
    BY <1>10 DEF RankCall, Retry
  <2>3. Uncharged(r)' = Uncharged(r) /\ Unsent(r)' = 0
    BY <2>1, <2>2, SamePlace DEF Uncharged, Unsent
  <2>4. QED
    BY <1>3, <1>4, <1>6, <2>1, <2>2, <2>3
<1>11. CASE Retry /\ pc # "rank"
  <2>1. /\ pc \in {"match", "alias"} /\ pos' = pos /\ ledger' = ledger
        /\ tries > 0 /\ tries' \in {0, tries + 1}
        /\ pc' = pc \/ (pc = "alias" /\ pc' = "aliasLimited" /\ tries' = 0)
    <3>1. Request /\ tries > 0
      BY <1>11 DEF Request, Retry
    <3>2. QED
      BY <1>11, <3>1, RequestIsAnswered
  <2>2. used' = used
    BY <1>11 DEF Retry
  <2>3. retried'[r][a] = IF r = (IF pc = "match" THEN Region ELSE Account)
                         THEN retried[r][a] + 1 ELSE retried[r][a]
    BY <1>11, RetryIsRecorded
  <2>4. Uncharged(r)' = Uncharged(r)
    BY <2>1, <2>2, SamePlace DEF Uncharged
  <2>5. Unsent(r) = IF r = (IF pc = "match" THEN Region ELSE Account)
                    THEN Spare(tries) ELSE 0
    BY <1>2, <2>1 DEF Unsent
  <2>6. Unsent(r)' = IF tries' > 0 /\ r = (IF pc = "match" THEN Region ELSE Account)
                     THEN Spare(tries) - 1 ELSE 0
    <3>1. Region' = Region /\ Account' = Account
      BY <2>1, SamePlace
    <3>2. tries' > 0 => pc' = pc /\ Spare(tries') = Spare(tries) - 1
      BY <1>2, <2>1, SpareShrinks
    <3>3. CASE tries' > 0
      BY <2>1, <3>1, <3>2, <3>3 DEF Unsent
    <3>4. CASE ~(tries' > 0)
      BY <3>4 DEF Unsent
    <3>5. QED
      BY <3>3, <3>4
  <2> DEFINE m == ledger[r][a] + Uncharged(r)
  <2>7. m \in Nat /\ ledger'[r][a] + Uncharged(r)' = m
    BY <1>3, <1>4, <2>1, <2>4
  <2>8. retried[r][a] + Unsent(r) <= Allowed(m)
    BY <1>5, <2>1
  <2> HIDE DEF m
  <2>9. Allowed(m) \in Nat
    BY <2>7, AllowedGrows
  <2>10. retried'[r][a] + Unsent(r)' <= retried[r][a] + Unsent(r)
    <3>1. Spare(tries) \in Nat /\ Spare(tries) >= 1
      BY <1>2, SpareShrinks
    <3>2. QED
      BY <1>3, <2>3, <2>5, <2>6, <3>1
  <2>11. QED
    BY <1>3, <1>4, <2>7, <2>8, <2>9, <2>10
<1>12. CASE StartAliases
  <2>1. pc = "rank" /\ pc' = "alias" /\ used' = 0 /\ retried' = retried /\ tries' = 0
    BY <1>12 DEF StartAliases, client
  <2>2. ledger'[r][a] = IF r = Region THEN ledger[r][a] + used ELSE ledger[r][a]
    BY <1>12, MatchesAreCharged
  <2>3. Uncharged(r)' = 0 /\ Uncharged(r) = IF r = Region THEN used ELSE 0
    BY <2>1 DEF Uncharged
  <2>4. ledger[r][a] + Uncharged(r) <= ledger'[r][a] + Uncharged(r)'
    BY <1>2, <1>3, <2>2, <2>3
  <2>5. QED
    BY <1>6, <1>7, <2>1, <2>4
<1>13. CASE EndPlatform
  <2>1. pc # "stopped" /\ pc' \in {"choose", "sweepEnd"} /\ retried' = retried /\ tries' = 0
    BY <1>13 DEF EndPlatform, Advance, client
  <2>2. ledger'[r][a] >= ledger[r][a] + Uncharged(r)
    BY <1>13, EndCharges
  <2>3. Uncharged(r)' = 0
    BY <2>1 DEF Uncharged
  <2>4. ledger[r][a] + Uncharged(r) <= ledger'[r][a] + Uncharged(r)'
    BY <1>3, <1>4, <2>2, <2>3
  <2>5. QED
    BY <1>6, <1>7, <2>1, <2>4
<1>14. CASE Tick
  <2>1. /\ pc # "stopped" /\ pc' = pc /\ used' = used /\ pos' = pos /\ tries' = tries
        /\ retried' = Older(retried) /\ ledger' = Older(ledger)
    BY <1>14 DEF Tick
  <2>2. Uncharged(r)' = Uncharged(r) /\ Unsent(r)' = Unsent(r)
    BY <2>1, SamePlace DEF Uncharged, Unsent
  <2>3. /\ retried'[r][0] = 0 /\ ledger'[r][0] = 0
        /\ a # 0 => retried'[r][a] = retried[r][a - 1] /\ ledger'[r][a] = ledger[r][a - 1]
    <3>1. retried \in [Regions -> Counts] /\ ledger \in [Regions -> Counts]
      BY <1>1 DEF TypeOK
    <3>2. /\ \A q \in Regions : retried'[q][0] = 0 /\ ledger'[q][0] = 0
          /\ \A q \in Regions : \A b \in Ages \ {0} :
               retried'[q][b] = retried[q][b - 1] /\ ledger'[q][b] = ledger[q][b - 1]
      BY <2>1, <3>1, OlderCounts, Zenon
    <3>3. QED
      BY <3>2
  <2>4. a # 0 => a - 1 \in Ages
    BY Parameters DEF Ages
  <2>5. CASE a = 0
    <3>1. Unsent(r) > 0 => Uncharged(r) = used /\ used > 0 /\ Unsent(r) <= Retries
      BY <1>1, <1>2, SpareShrinks DEF Unsent, Uncharged, InPlace
    <3>2. /\ Allowed(0) \in Nat /\ Allowed(0 + 1) = Allowed(0) + Retries
          /\ Allowed(1) \in Nat /\ Allowed(Uncharged(r)) \in Nat
      BY <1>4, AllowedGrows
    <3>3. Uncharged(r) >= 1 => Allowed(1) <= Allowed(Uncharged(r))
      BY <1>4, AllowedGrows
    <3>4. Unsent(r) <= Allowed(Uncharged(r))
      <4>1. CASE Unsent(r) = 0
        BY <3>2, <4>1
      <4>2. CASE Unsent(r) > 0
        <5>1. Uncharged(r) >= 1 /\ Unsent(r) <= Retries
          BY <1>2, <3>1, <4>2
        <5>2. Retries <= Allowed(1)
          BY <1>2, <3>2
        <5>3. QED
          BY <1>2, <1>4, <3>2, <3>3, <5>1, <5>2
      <4>3. QED
        BY <1>4, <4>1, <4>2
    <3>5. ledger'[r][a] + Uncharged(r)' = Uncharged(r)
      BY <1>4, <2>2, <2>3, <2>5
    <3>6. retried'[r][a] + Unsent(r)' = Unsent(r)
      BY <1>4, <2>2, <2>3, <2>5
    <3>7. QED
      BY <3>4, <3>5, <3>6
  <2>6. CASE a # 0
    <3>1. retried[r][a - 1] + Unsent(r) <= Allowed(ledger[r][a - 1] + Uncharged(r))
      BY <1>5, <2>1, <2>4, <2>6
    <3>2. QED
      BY <2>2, <2>3, <2>6, <3>1
  <2>7. QED
    BY <2>5, <2>6
<1>15. QED
  BY <1>8, <1>9, <1>10, <1>11, <1>12, <1>13, <1>14 DEF Next

(* A lane's next call still fits: the calls are at most what the ledger    *)
(* holds and is to be charged, and the lane's share was within the limit.  *)
LEMMA StepRegionWindowBound ==
  ASSUME IInv, Next
  PROVE  RegionWindowBound'
<1>1. /\ RegionWindowBound /\ CallsAreCharged /\ ShareFits /\ TypeOK /\ InPlace
      /\ RetriesAreFew
  BY DEF IInv
<1>6. Limit \in Nat /\ Allowed(Limit) = Retries * Limit /\ Allowed(Limit) \in Nat
  BY AllowedGrows, Parameters DEF Allowed
<1>2. CASE MatchCall \/ AliasCall
  <2>1. pc \in {"match", "alias"} /\ left > 0
    BY <1>2 DEF MatchCall, AliasCall
  <2> DEFINE here == IF pc = "match" THEN Region ELSE Account
  <2>7. retried' = retried
    BY <1>2 DEF MatchCall, AliasCall
  <2>2. SUFFICES ASSUME NEW r \in Regions
                 PROVE  Total(calls'[r]) <= Limit
    BY <1>1, <2>7 DEF RegionWindowBound
  <2>3. Total(calls'[r]) = IF r = here THEN Total(calls[r]) + 1 ELSE Total(calls[r])
    BY <1>2, CallIsRecorded, Parameters DEF Total
  <2>4. CASE r # here
    BY <1>1, <2>3, <2>4 DEF RegionWindowBound
  <2>5. CASE r = here
    <3>1. Uncharged(r) = used
      BY <2>1, <2>5 DEF Uncharged
    <3>2. Total(calls[r]) <= Total(ledger[r]) + used
      BY <1>1, <2>1, <3>1, Parameters DEF CallsAreCharged, Total
    <3>3. Total(ledger[r]) + used + left <= Limit
      <4>1. /\ used \in Nat /\ left \in Nat /\ Total(ledger[r]) \in Nat
            /\ budget.match \in Nat /\ budget.alias \in Nat
        BY <1>1, Parameters DEF TypeOK, Counts, Total, Share
      <4>2. CASE pc = "match"
        BY <1>1, <2>5, <4>1, <4>2, Parameters DEF ShareFits
      <4>3. CASE pc = "alias"
        BY <1>1, <2>1, <2>5, <4>1, <4>3, Parameters DEF ShareFits
      <4>4. QED
        BY <2>1, <4>2, <4>3
    <3>4. /\ used \in Nat /\ left \in Nat /\ Total(ledger[r]) \in Nat
          /\ Total(calls[r]) \in Nat
      BY <1>1, Parameters DEF TypeOK, Counts, Total
    <3>5. QED
      BY <2>1, <2>3, <2>5, <3>2, <3>3, <3>4, Parameters
  <2>6. QED
    BY <2>4, <2>5
<1>7. CASE Retry /\ pc # "rank"
  <2>1. /\ pc \in {"match", "alias"} /\ tries > 0 /\ calls' = calls
    BY <1>7, RetryIsRecorded DEF Retry
  <2> DEFINE here == IF pc = "match" THEN Region ELSE Account
  <2>2. SUFFICES ASSUME NEW r \in Regions
                 PROVE  Total(retried'[r]) <= Retries * Limit
    BY <1>1, <2>1 DEF RegionWindowBound
  <2>3. Total(retried'[r]) = IF r = here THEN Total(retried[r]) + 1 ELSE Total(retried[r])
    BY <1>7, RetryIsRecorded, Parameters DEF Total
  <2>4. CASE r # here
    BY <1>1, <2>3, <2>4 DEF RegionWindowBound
  <2>5. CASE r = here
    <3>1. /\ used \in Nat /\ left \in Nat /\ Total(ledger[r]) \in Nat
          /\ Total(retried[r]) \in Nat /\ tries \in 0..Retries /\ Retries \in Nat
          /\ budget.match \in Nat /\ budget.alias \in Nat
      BY <1>1, Parameters DEF TypeOK, Counts, Total, Share
    <3>2. Uncharged(r) = used /\ Unsent(r) = Spare(tries) /\ Unsent(r) \in Nat /\ Unsent(r) >= 1
      BY <2>1, <2>5, <3>1, SpareShrinks DEF Uncharged, Unsent
    <3>3. Total(retried[r]) + Unsent(r) <= Allowed(Total(ledger[r]) + used)
      BY <1>1, <2>1, <3>2, Parameters DEF RetriesAreFew, Total
    <3>4. used > 0
      BY <1>1, <2>1 DEF InPlace
    <3>5. Total(ledger[r]) + used <= Limit
      <4>1. CASE pc = "match"
        BY <1>1, <2>5, <3>1, <4>1, Parameters DEF ShareFits
      <4>2. CASE pc = "alias"
        <5>1. used + left > 0
          BY <3>1, <3>4
        <5>2. Total(ledger[r]) + used + left <= Limit
          BY <1>1, <2>5, <4>2, <5>1 DEF ShareFits
        <5>3. QED
          BY <1>6, <3>1, <5>2
      <4>3. QED
        BY <2>1, <4>1, <4>2
    <3>6. Total(retried[r]) + 1 <= Allowed(Total(ledger[r]) + used)
      <4>1. Allowed(Total(ledger[r]) + used) \in Nat
        BY <3>1, AllowedGrows
      <4>2. QED
        BY <3>1, <3>2, <3>3, <4>1
    <3>7. Total(retried[r]) + 1 <= Allowed(Limit)
      <4>1. Total(ledger[r]) + used \in Nat /\ Total(retried[r]) + 1 \in Nat
        BY <3>1
      <4>2. QED
        BY <1>6, <3>5, <3>6, <4>1, StaysAllowed
    <3>8. QED
      BY <1>6, <2>3, <2>5, <3>7
  <2>6. QED
    BY <2>4, <2>5
<1>3. CASE Tick
  <2>1. \A r \in Regions : /\ Total(calls'[r]) <= Total(calls[r])
                           /\ Total(retried'[r]) <= Total(retried[r])
    BY <1>3, TickAges
  <2>2. \A r \in Regions :
          /\ Total(calls[r]) \in Nat /\ Total(calls'[r]) \in Nat
          /\ Total(retried[r]) \in Nat /\ Total(retried'[r]) \in Nat
    BY <1>1, <1>3, TickAges, Parameters DEF TypeOK, Counts, Total
  <2>3. SUFFICES ASSUME NEW r \in Regions
                 PROVE  Total(calls'[r]) <= Limit /\ Total(retried'[r]) <= Retries * Limit
    BY DEF RegionWindowBound
  <2>4. Total(calls[r]) <= Limit /\ Total(retried[r]) <= Allowed(Limit)
    BY <1>1, <1>6 DEF RegionWindowBound
  <2>5. Total(calls'[r]) <= Limit /\ Total(retried'[r]) <= Allowed(Limit)
    BY <1>6, <2>1, <2>2, <2>4
  <2>6. QED
    BY <1>6, <2>5
<1>4. CASE ~(MatchCall \/ AliasCall \/ (Retry /\ pc # "rank") \/ Tick)
  <2>1. calls' = calls /\ retried' = retried
    BY <1>4 DEF Next, SkipPlatform, StartPlatform, StartRanks, RankCall, StartAliases,
       EndPlatform, EndSweep, Wake, Retry, client
  <2>2. QED
    BY <1>1, <2>1 DEF RegionWindowBound
<1>5. QED
  BY <1>2, <1>3, <1>4, <1>7

\* A lane that has used nothing is held to what it may still use.
LEMMA NothingUsedYet ==
  ASSUME NEW held \in Nat, NEW most \in Nat, NEW free \in Nat, NEW more \in Nat,
         NEW none, none = 0, more <= most, more > 0 => held + more <= free
  PROVE  none + more <= most /\ (none + more > 0 => held + none + more <= free)
  OBVIOUS

\* A lane whose permits only get fewer stays within its share.
LEMMA NoMoreLeft ==
  ASSUME NEW n \in Nat, NEW m \in Nat, NEW k \in Nat, NEW most \in Nat,
         NEW held, NEW share, held = n, share = most, k <= m, n + m <= most
  PROVE  held + k <= share /\ (held + k > 0 => n + m > 0)
  OBVIOUS

LEMMA StepShareFits ==
  ASSUME IInv, Next
  PROVE  ShareFits'
<1>1. ShareFits /\ InPlace /\ TypeOK
  BY DEF IInv
<1>2. /\ used \in Nat /\ left \in Nat
      /\ budget.match \in Nat /\ budget.rank \in Nat /\ budget.alias \in Nat
      /\ Limit \in Nat
      /\ \A r \in Regions : Total(ledger[r]) \in Nat
  BY <1>1, Parameters DEF TypeOK, Share, Counts, Total
<1>3. CASE SkipPlatform \/ EndPlatform \/ EndSweep \/ Wake
  <2>1. pc' \in {"choose", "sweepEnd", "sleep"}
    BY <1>3 DEF SkipPlatform, EndPlatform, Advance, EndSweep, Wake
  <2>2. QED
    BY <2>1 DEF ShareFits
<1>4. CASE StartPlatform
  <2>1. pc = "choose" /\ pc' = "match" /\ pos' = pos /\ ledger' = ledger /\ used' = used
        /\ left' \in 0..budget'.match
    BY <1>4 DEF StartPlatform
  <2>2. used = 0
    BY <1>1, <2>1 DEF InPlace
  <2>3. /\ Total(ledger[Region]) + budget'.match + budget'.alias <= Limit
        /\ budget'.match \in Nat
    BY <1>4, StartGivesShare DEF Share
  <2>4. used' + left' <= budget'.match
    BY <2>1, <2>2, <2>3
  <2>5. QED
    BY <2>1, <2>3, <2>4, SamePlace DEF ShareFits
<1>5. CASE MatchCall
  <2>1. /\ pc = "match" /\ left > 0 /\ used' = used + 1 /\ left' \in Nat
        /\ pc' = "match" => left' <= left - 1
        /\ pc' \in {"match", "stopped"}
        /\ pos' = pos /\ ledger' = ledger /\ budget' = budget
    <3>1. pc = "match" /\ left > 0 /\ used' = used + 1 /\ Answered(left - 1)
          /\ pos' = pos /\ ledger' = ledger /\ budget' = budget
      BY <1>5 DEF MatchCall
    <3>2. QED
      BY <1>2, <3>1 DEF Answered, PutOff, CallEnds
  <2>2. pc' = "match" => used' + left' <= budget'.match
    BY <1>1, <1>2, <2>1 DEF ShareFits
  <2>3. QED
    BY <1>1, <2>1, <2>2, SamePlace DEF ShareFits
<1>6. CASE StartRanks
  <2>1. pc = "match" /\ pc' = "rank" /\ pos' = pos /\ budget' = budget
        /\ ledger' = ledger /\ used' = used
    BY <1>6 DEF StartRanks, control
  <2>2. used <= budget.match
    BY <1>1, <1>2, <2>1 DEF ShareFits
  <2>3. QED
    BY <1>1, <2>1, <2>2, SamePlace DEF ShareFits
<1>7. CASE RankCall \/ Retry
  <2>1. /\ pc \in {"match", "rank", "alias"} /\ pos' = pos /\ budget' = budget
        /\ ledger' = ledger /\ used' = used /\ left' \in Nat
        /\ pc' = pc \/ (pc = "alias" /\ pc' = "aliasLimited") \/ pc' = "stopped"
        /\ pc' # "stopped" => left' <= left
    <3>1. Request
      BY <1>7 DEF Request
    <3>2. used' = used
      BY <1>7 DEF RankCall, Retry
    <3>3. QED
      BY <3>1, <3>2, RequestIsAnswered
  <2>2. CASE pc' = "stopped"
    BY <2>2 DEF ShareFits
  <2>3. CASE pc' # "stopped" /\ pc \in {"match", "rank"}
    <3>1. pc = "match" => used' + left' <= budget'.match
      BY <1>1, <1>2, <2>1, <2>3 DEF ShareFits
    <3>2. QED
      BY <1>1, <2>1, <2>3, <3>1, SamePlace DEF ShareFits
  <2>4. CASE pc' # "stopped" /\ pc = "alias"
    <3>1. /\ used' + left' <= budget'.alias
          /\ used' + left' > 0 => used + left > 0
      <4>1. used + left <= budget.alias /\ left' <= left /\ left' \in Nat
        BY <1>1, <2>1, <2>4 DEF ShareFits
      <4>2. used' = used /\ budget'.alias = budget.alias
        BY <2>1
      <4>3. used \in Nat /\ left \in Nat
        BY <1>2
      <4>4. QED
        BY <1>2, <4>1, <4>2, <4>3, NoMoreLeft
    <3>2. Account \in Regions
      BY <1>1, <2>4, HereAreRegions DEF Lane
    <3>3. used' + left' > 0 => Total(ledger'[Account]) + used' + left' <= Limit
      BY <1>1, <1>2, <2>1, <2>4, <3>1, <3>2 DEF ShareFits
    <3>4. pc' \in {"alias", "aliasLimited"}
      BY <2>1, <2>4
    <3>5. QED
      BY <2>1, <3>1, <3>3, <3>4, SamePlace DEF ShareFits
  <2>5. QED
    BY <2>1, <2>2, <2>3, <2>4
<1>8. CASE StartAliases
  <2>1. pc' = "alias" /\ used' = 0 /\ left' \in 0..AliasBudget(ledger') /\ pos' = pos
        /\ budget' = budget
    BY <1>8 DEF StartAliases, control
  <2>2. Total(ledger'[Account]) \in Nat
    BY <1>8, MatchesAreCharged, Parameters DEF Counts, Total
  <2>3. /\ AliasBudget(ledger') \in Nat
        /\ AliasBudget(ledger') <= budget.alias
        /\ AliasBudget(ledger') > 0 =>
             Total(ledger'[Account]) + AliasBudget(ledger') <= Limit
    BY <1>2, <2>2 DEF AliasBudget, Least
  <2>4. /\ left' \in Nat /\ left' <= budget.alias
        /\ left' > 0 => Total(ledger'[Account]) + left' <= Limit
    BY <1>2, <2>1, <2>2, <2>3
  <2>5. /\ used' + left' <= budget.alias
        /\ used' + left' > 0 => Total(ledger'[Account]) + used' + left' <= Limit
    BY <1>2, <2>1, <2>2, <2>4, NothingUsedYet
  <2>6. QED
    BY <2>1, <2>5, SamePlace DEF ShareFits
<1>9. CASE AliasCall
  <2>1. /\ pc = "alias" /\ left > 0 /\ used' = used + 1 /\ left' \in Nat
        /\ pc' # "stopped" => left' <= left - 1
        /\ pc' \in {"alias", "aliasLimited", "stopped"}
        /\ pos' = pos /\ ledger' = ledger /\ budget' = budget
    <3>1. pc = "alias" /\ left > 0 /\ used' = used + 1 /\ AliasAnswered(left - 1)
          /\ pos' = pos /\ ledger' = ledger /\ budget' = budget
      BY <1>9 DEF AliasCall
    <3>2. QED
      BY <1>2, <3>1 DEF AliasAnswered, PutOff, CallEnds
  <2>2. used + left <= budget.alias /\ Total(ledger[Account]) + used + left <= Limit
    BY <1>1, <1>2, <2>1 DEF ShareFits
  <2>3. Account \in Regions
    BY <1>9, CallIsRecorded
  <2>4. pc' # "stopped" =>
          /\ used' + left' <= budget.alias
          /\ Total(ledger[Account]) + used' + left' <= Limit
    BY <1>2, <2>1, <2>2, <2>3
  <2>5. QED
    BY <2>1, <2>4, SamePlace DEF ShareFits
<1>10. CASE Tick
  <2>1. /\ pc' = pc /\ pos' = pos /\ budget' = budget /\ used' = used /\ left' = left
    BY <1>10 DEF Tick
  <2>2. \A r \in Regions : /\ Total(ledger'[r]) \in Nat
                           /\ Total(ledger'[r]) <= Total(ledger[r])
    BY <1>10, TickAges, Parameters DEF Counts, Total
  <2>3. CASE pc \in Lane
    <3>1. Region \in Regions /\ Account \in Regions
      BY <1>1, <2>3, HereAreRegions
    <3>2. pc \in {"match", "rank"} =>
            Total(ledger'[Region]) + budget.match + budget.alias <= Limit
      BY <1>1, <1>2, <2>2, <3>1 DEF ShareFits
    <3>3. pc \in {"alias", "aliasLimited"} /\ used + left > 0 =>
            Total(ledger'[Account]) + used + left <= Limit
      BY <1>1, <1>2, <2>2, <3>1 DEF ShareFits
    <3>4. QED
      BY <1>1, <2>1, <3>2, <3>3, SamePlace DEF ShareFits
  <2>4. CASE pc \notin Lane
    BY <2>1, <2>4 DEF ShareFits, Lane
  <2>5. QED
    BY <2>3, <2>4
<1>11. QED
  BY <1>3, <1>4, <1>5, <1>6, <1>7, <1>8, <1>9, <1>10 DEF Next

LEMMA StepRemainingIsAhead ==
  ASSUME IInv, Next
  PROVE  RemainingIsAhead'
<1>1. RemainingIsAhead /\ InPlace /\ TypeOK
  BY DEF IInv
<1> SUFFICES ASSUME NEW r \in Regions
             PROVE  remaining'[r] = Cardinality(Ahead(r)')
  BY DEF RemainingIsAhead
<1>2. CASE SkipPlatform \/ StartPlatform
  <2>1. pc = "choose" /\ remaining' = [remaining EXCEPT ![Region] = @ - 1]
    BY <1>2 DEF SkipPlatform, StartPlatform
  <2>2. remaining'[r] = Cardinality(After(r))
    BY <1>1, <2>1, ChosenRemains DEF TypeOK
  <2>3. Ahead(r)' = After(r)
    <3>1. CASE SkipPlatform
      BY <1>1, <3>1, AdvanceAhead DEF SkipPlatform
    <3>2. CASE StartPlatform
      BY <3>2 DEF StartPlatform, Ahead, After, PlatformsOf
    <3>3. QED
      BY <1>2, <3>1, <3>2
  <2>4. QED
    BY <2>2, <2>3
<1>3. CASE EndPlatform
  <2>1. pc \in Lane /\ pc # "choose" /\ Advance /\ remaining' = remaining
    BY <1>3 DEF EndPlatform, Lane
  <2>2. Ahead(r)' = After(r) /\ Ahead(r) = After(r)
    BY <1>1, <2>1, AdvanceAhead, LaterAreAhead
  <2>3. QED
    BY <1>1, <2>1, <2>2 DEF RemainingIsAhead
<1>4. CASE Wake
  <2>1. pos' = 1 /\ pc' = "choose" /\ remaining' = PlatformCount
    BY <1>4 DEF Wake, StartSweep
  <2>2. Ahead(r)' = PlatformsOf(r)
    BY <2>1, OrderIsIndexed DEF Ahead, PlatformsOf
  <2>3. QED
    BY <2>1, <2>2, PlatformsAreFinite
<1>5. CASE Request \/ StartRanks \/ StartAliases \/ EndSweep \/ Tick
  <2>1. remaining' = remaining /\ pos' = pos /\ (pc' = "choose" <=> pc = "choose")
    <3>1. CASE Request
      BY <3>1, RequestIsAnswered
    <3>2. CASE StartRanks \/ StartAliases \/ EndSweep \/ Tick
      BY <3>2 DEF StartRanks, StartAliases, EndSweep, Tick, control
    <3>3. QED
      BY <1>5, <3>1, <3>2
  <2>2. Ahead(r)' = Ahead(r)
    BY <2>1 DEF Ahead, PlatformsOf
  <2>3. QED
    BY <1>1, <2>1, <2>2 DEF RemainingIsAhead
<1>6. QED
  BY <1>2, <1>3, <1>4, <1>5 DEF Next, Request

LEMMA StepRoomAhead ==
  ASSUME IInv, Next
  PROVE  RoomAhead'
<1>1. RoomAhead /\ InPlace /\ TypeOK
  BY DEF IInv
<1>2. /\ used \in Nat /\ budget.match \in Nat /\ budget.alias \in Nat /\ Limit \in Nat
      /\ \A r \in Regions : Total(ledger[r]) \in Nat /\ remaining[r] \in Nat
  BY <1>1, Parameters DEF TypeOK, Share, Counts, Total
<1> SUFFICES ASSUME NEW r \in Regions, r \notin short', r \notin limited',
                    remaining'[r] > 0
             PROVE  Total(ledger'[r]) + Reserved(r)' + remaining'[r] <= Limit
  BY DEF RoomAhead
<1>3. Reserved(r) \in Nat
  BY <1>2 DEF Reserved
<1>4. r \notin short /\ r \notin limited /\ remaining[r] > 0 =>
        Total(ledger[r]) + Reserved(r) + remaining[r] <= Limit
  BY <1>1 DEF RoomAhead
<1>5. CASE SkipPlatform
  <2>1. /\ pc = "choose" /\ ledger' = ledger /\ short' = short /\ limited' = limited
        /\ remaining' = [remaining EXCEPT ![Region] = @ - 1]
        /\ pc' \in {"choose", "sweepEnd"}
    BY <1>5 DEF SkipPlatform, Advance
  <2>2. Reserved(r)' = 0
    BY <2>1 DEF Reserved
  <2>3. remaining'[r] = IF r = Region THEN remaining[r] - 1 ELSE remaining[r]
    BY <1>1, <2>1 DEF TypeOK
  <2>4. QED
    BY <1>2, <1>3, <1>4, <2>1, <2>2, <2>3
<1>6. CASE StartPlatform
  <2>1. /\ pc = "choose" /\ pc' = "match" /\ pos' = pos /\ ledger' = ledger
        /\ short' = short /\ limited' = limited
        /\ remaining' = [remaining EXCEPT ![Region] = @ - 1]
    BY <1>6 DEF StartPlatform
  <2>2. remaining'[r] = IF r = Region THEN remaining[r] - 1 ELSE remaining[r]
    BY <1>1, <2>1 DEF TypeOK
  <2>3. Reserved(r)' = IF r = Region THEN budget'.match + budget'.alias ELSE 0
    BY <2>1, SamePlace DEF Reserved
  <2>4. CASE r # Region
    BY <1>2, <1>3, <1>4, <2>1, <2>2, <2>3, <2>4
  <2>5. CASE r = Region
    <3>1. Total(ledger[r]) + remaining[r] <= Limit
      BY <1>2, <1>3, <1>4, <2>1, <2>2, <2>5
    <3>2. Total(ledger[r]) + budget'.match + budget'.alias + remaining[r] - 1 <= Limit
      BY <1>6, <2>5, <3>1, StartGivesShare
    <3>3. budget'.match \in Nat /\ budget'.alias \in Nat
      BY <1>6, StartGivesShare DEF Share
    <3>4. QED
      BY <1>2, <2>1, <2>2, <2>3, <2>5, <3>2, <3>3
  <2>6. QED
    BY <2>4, <2>5
<1>7. CASE Request \/ StartRanks \/ EndSweep
  <2>1. /\ ledger' = ledger /\ remaining' = remaining /\ short' = short /\ pos' = pos
        /\ budget' = budget /\ limited \subseteq limited'
    <3>1. CASE Request
      BY <3>1, RequestIsAnswered
    <3>2. CASE StartRanks \/ EndSweep
      BY <3>2 DEF StartRanks, EndSweep, control
    <3>3. QED
      BY <1>7, <3>1, <3>2
  <2>2. \/ pc \in {"match", "rank"} /\ pc' \in {"match", "rank"}
        \/ pc \in {"alias"} /\ pc' \in {"alias", "aliasLimited"}
        \/ pc' \in {"stopped", "sleep"}
    <3>1. CASE Request
      BY <3>1, RequestIsAnswered
    <3>2. CASE StartRanks \/ EndSweep
      BY <3>2 DEF StartRanks, EndSweep
    <3>3. QED
      BY <1>7, <3>1, <3>2
  <2>3. Reserved(r)' \in {Reserved(r), 0}
    BY <2>1, <2>2, SamePlace DEF Reserved
  <2>4. QED
    BY <1>2, <1>3, <1>4, <2>1, <2>3
<1>8. CASE StartAliases
  <2>1. /\ pc = "rank" /\ pc' = "alias" /\ remaining' = remaining /\ short' = short
        /\ limited' = limited /\ pos' = pos /\ budget' = budget
    BY <1>8 DEF StartAliases, control
  <2>2. used <= budget.match
    BY <2>1 DEF IInv, ShareFits
  <2>3. Total(ledger'[r]) = IF r = Region THEN Total(ledger[r]) + used ELSE Total(ledger[r])
    BY <1>8, MatchesAreCharged
  <2>4. /\ Reserved(r) = IF r = Region THEN budget.match + budget.alias ELSE 0
        /\ Reserved(r)' = IF r = Region THEN budget.alias ELSE 0
    BY <2>1, SamePlace DEF Reserved
  <2>5. QED
    BY <1>2, <1>4, <2>1, <2>2, <2>3, <2>4
<1>9. CASE EndPlatform
  <2>1. /\ pc \in {"alias", "aliasLimited"} /\ pc' \in {"choose", "sweepEnd"}
        /\ remaining' = remaining
        /\ short' = IF Account # Region /\ used > 0 THEN short \cup {Account} ELSE short
    BY <1>9 DEF EndPlatform, Advance
  <2>2. Reserved(r)' = 0 /\ Reserved(r) = IF r = Region THEN budget.alias ELSE 0
    BY <2>1 DEF Reserved
  <2>3. limited \subseteq limited'
        /\ Total(ledger'[r]) = IF r = Account THEN Total(ledger[r]) + used
                               ELSE Total(ledger[r])
    BY <1>9, EndCharges
  <2>4. used <= budget.alias
    BY <1>1, <1>2, <2>1 DEF IInv, ShareFits, TypeOK
  <2>5. r # Account \/ r = Region \/ used = 0
    BY <1>2, <2>1
  <2>6. QED
    BY <1>2, <1>4, <2>1, <2>2, <2>3, <2>4, <2>5
<1>10. CASE Wake
  <2>1. /\ pc' = "choose" /\ ledger' = ledger /\ remaining' = PlatformCount
        /\ short' = {q \in Regions : Available(q) < PlatformCount[q]}
    BY <1>10 DEF Wake, StartSweep
  <2>2. Reserved(r)' = 0
    BY <2>1 DEF Reserved
  <2>3. ~(Available(r) < PlatformCount[r]) /\ PlatformCount[r] > 0
    BY <2>1
  <2>4. /\ Available(r) \in Nat /\ PlatformCount[r] \in Nat
        /\ Available(r) > 0 => Total(ledger[r]) + Available(r) = Limit
    BY <1>1, AvailableIsNat, PlatformsAreFinite DEF TypeOK
  <2>5. QED
    BY <1>2, <2>1, <2>2, <2>3, <2>4
<1>11. CASE Tick
  <2>1. /\ pc' = pc /\ pos' = pos /\ budget' = budget /\ remaining' = remaining
        /\ short' = short /\ limited' = limited
    BY <1>11 DEF Tick
  <2>2. Reserved(r)' = Reserved(r)
    BY <2>1, SamePlace DEF Reserved
  <2>3. Total(ledger'[r]) \in Nat /\ Total(ledger'[r]) <= Total(ledger[r])
    BY <1>11, TickAges, Parameters DEF Counts, Total
  <2>4. QED
    BY <1>2, <1>3, <1>4, <2>1, <2>2, <2>3
<1>12. QED
  BY <1>5, <1>6, <1>7, <1>8, <1>9, <1>10, <1>11 DEF Next, Request

LEMMA StepRefusedIsRemembered ==
  ASSUME IInv, Next
  PROVE  RefusedIsRemembered'
<1>1. RefusedIsRemembered /\ InPlace
  BY DEF IInv
<1>2. left \in Nat /\ hit \in BOOLEAN /\ tries \in Nat
  BY Parameters DEF IInv, TypeOK
<1>3. CASE SkipPlatform
  <2>1. /\ pc = "choose" /\ pc' \in {"choose", "sweepEnd"} /\ ~hit'
        /\ refused' = refused /\ limited' = limited
    BY <1>3 DEF SkipPlatform, Advance
  <2>2. QED
    BY <1>1, <2>1 DEF RefusedIsRemembered
<1>4. CASE StartPlatform
  <2>1. /\ pc = "choose" /\ pc' = "match" /\ pos' = pos /\ hit' = hit
        /\ refused' = refused /\ limited' = limited /\ Region \notin limited
        /\ tries' = tries
    BY <1>4 DEF StartPlatform, client
  <2>2. QED
    BY <1>1, <2>1, SamePlace DEF RefusedIsRemembered
<1>5. CASE Request
  <2>1. /\ pc \in {"match", "rank", "alias"} /\ pos' = pos
        /\ left > 0 \/ tries > 0
    BY <1>5, RequestIsAnswered
  <2>3. /\ \/ /\ pc' = pc /\ hit' = hit /\ limited' = limited /\ refused' = refused
           \/ /\ pc \in {"match", "rank"} /\ pc' = pc /\ left' = 0 /\ tries' = 0
              /\ limited' = limited \cup {Region} /\ refused' = refused \cup {Region}
           \/ /\ pc = "alias" /\ pc' = "aliasLimited" /\ left' = 0 /\ hit' = hit
              /\ limited' = limited /\ refused' = refused \cup {Account}
           \/ pc' = "stopped" /\ hit' = hit /\ limited' = limited
    BY <1>5, RequestIsAnswered
  <2>5. /\ (left' > 0 \/ tries' > 0) => (left > 0 \/ tries > 0)
        /\ Region' = Region /\ Account' = Account
    <3>1. left > 0 \/ tries > 0
      BY <2>1
    <3>2. QED
      BY <2>1, <3>1, SamePlace, Zenon
  <2>6. CASE pc' = pc /\ hit' = hit /\ limited' = limited /\ refused' = refused
    BY <1>1, <2>1, <2>5, <2>6 DEF RefusedIsRemembered
  <2>7. CASE /\ pc \in {"match", "rank"} /\ pc' = pc /\ left' = 0 /\ tries' = 0
             /\ limited' = limited \cup {Region} /\ refused' = refused \cup {Region}
    BY <1>1, <2>1, <2>5, <2>7 DEF RefusedIsRemembered
  <2>8. CASE /\ pc = "alias" /\ pc' = "aliasLimited" /\ left' = 0 /\ hit' = hit
             /\ limited' = limited /\ refused' = refused \cup {Account}
    BY <1>1, <2>1, <2>5, <2>8 DEF RefusedIsRemembered
  <2>9. CASE pc' = "stopped" /\ hit' = hit /\ limited' = limited
    BY <1>1, <2>1, <2>5, <2>9 DEF RefusedIsRemembered
  <2>2. QED
    BY <2>3, <2>6, <2>7, <2>8, <2>9
<1>6. CASE StartRanks
  <2>1. /\ pc = "match" /\ pc' = "rank" /\ pos' = pos /\ hit' = hit
        /\ limited' = limited /\ refused' = refused
    BY <1>6 DEF StartRanks, control
  <2>2. QED
    BY <1>1, <2>1, SamePlace DEF RefusedIsRemembered
<1>7. CASE StartAliases
  <2>1. /\ pc = "rank" /\ pc' = "alias" /\ pos' = pos /\ hit' = hit
        /\ limited' = limited /\ refused' = refused
        /\ left' \in 0..AliasBudget(ledger') /\ tries' = 0
    BY <1>7 DEF StartAliases, control, client
  <2>2. left' > 0 => Account \notin limited
    BY <2>1 DEF AliasBudget
  <2>3. QED
    BY <1>1, <2>1, <2>2, SamePlace DEF RefusedIsRemembered
<1>9. CASE EndPlatform
  <2>1. /\ pc \in {"alias", "aliasLimited"} /\ pc' \in {"choose", "sweepEnd"} /\ ~hit'
        /\ refused' = refused
    BY <1>9 DEF EndPlatform, Advance
  <2>2. limited \subseteq limited' /\ (pc = "aliasLimited" => Account \in limited')
    BY <1>9, EndCharges
  <2>3. QED
    BY <1>1, <2>1, <2>2 DEF RefusedIsRemembered
<1>10. CASE EndSweep \/ Wake
  <2>1. /\ pc \in {"sweepEnd", "sleep"} /\ pc' \in {"sleep", "choose"} /\ hit' = hit
        /\ \/ refused' = refused /\ limited' = limited
           \/ refused' = {}
    BY <1>10 DEF EndSweep, Wake, StartSweep
  <2>2. ~hit
    BY <1>1, <2>1 DEF InPlace
  <2>3. QED
    BY <1>1, <2>1, <2>2 DEF RefusedIsRemembered
<1>11. CASE Tick
  <2>1. /\ pc' = pc /\ pos' = pos /\ hit' = hit /\ limited' = limited
        /\ refused' = refused /\ left' = left /\ tries' = tries
    BY <1>11 DEF Tick
  <2>2. QED
    BY <1>1, <2>1, SamePlace DEF RefusedIsRemembered
<1>12. QED
  BY <1>3, <1>4, <1>5, <1>6, <1>7, <1>9, <1>10, <1>11 DEF Next, Request

(* A tick of the sleep takes one off the time left; the oldest entries are *)
(* one tick closer to leaving.                                             *)
LEMMA StepSleepEndsInTime ==
  ASSUME IInv, Next
  PROVE  SleepEndsInTime'
<1>1. SleepEndsInTime /\ ledger \in [Regions -> Counts] /\ Growing(ledger) /\ sleep \in Nat
  BY DEF IInv, TypeOK, CountsGrow
<1>2. UsedRegions \subseteq Regions
  BY RoutesAreRegions DEF UsedRegions
<1>3. CASE pc' # "sleep"
  BY <1>3 DEF SleepEndsInTime, Resting
<1>4. CASE EndSweep
  <2>1. /\ sleep' = NextSweepSleep /\ worked' = worked /\ ledger' = ledger
    BY <1>4 DEF EndSweep
  <2> SUFFICES ASSUME Resting', NEW r \in UsedRegions
               PROVE  sleep' <= Window /\ ledger'[r][Window - sleep'] = Total(ledger'[r])
    BY DEF SleepEndsInTime
  <2>2. ~worked /\ sleep' > 0 /\ \A q \in UsedRegions : Available(q)' = 0
    BY <2>1 DEF Resting
  <2>3. \A q \in UsedRegions : Available(q) = 0
    BY <2>1, <2>2 DEF Available
  <2>4. \A q \in UsedRegions : Wait(q) \in 1..Window
    BY <1>1, <1>2, <2>3, WaitIsOldest
  <2>5. /\ EarliestWait \in 1..Window
        /\ EarliestWait <= Wait(r)
    BY <1>1, <2>4, EarliestIsLeast
  <2>6. sleep' = EarliestWait
    BY <2>1, <2>2, <2>5 DEF NextSweepSleep
  <2>7. sleep' \in 1..Wait(r) /\ sleep' <= Window
    BY <2>4, <2>5, <2>6, Parameters
  <2>8. ledger[r][Window - sleep'] = Total(ledger[r])
    BY <1>1, <1>2, <2>3, <2>7, WaitIsOldest
  <2>9. QED
    BY <2>1, <2>7, <2>8
<1>5. CASE Tick /\ pc' = "sleep"
  <2>1. /\ pc = "sleep" /\ worked' = worked /\ ledger' = Older(ledger)
        /\ sleep' = IF sleep > 0 THEN sleep - 1 ELSE 0
    BY <1>5 DEF Tick
  <2> SUFFICES ASSUME Resting', NEW r \in UsedRegions
               PROVE  sleep' <= Window /\ ledger'[r][Window - sleep'] = Total(ledger'[r])
    BY DEF SleepEndsInTime
  <2>2. ~worked /\ sleep' > 0 /\ \A q \in UsedRegions : Available(q)' = 0
    BY <2>1 DEF Resting
  <2>3. \A q \in UsedRegions : Available(q) = 0
    <3>1. SUFFICES ASSUME NEW q \in UsedRegions
                   PROVE  Available(q) = 0
      OBVIOUS
    <3>2. Total(ledger'[q]) <= Total(ledger[q]) /\ q \in Regions
          /\ Total(ledger'[q]) \in Nat /\ Total(ledger[q]) \in Nat
      BY <1>1, <1>2, <1>5, TickAges, Parameters DEF IInv, TypeOK, Counts, Total
    <3>3. ~(Total(ledger'[q]) < Limit)
      BY <2>2, <3>2, Parameters DEF Available
    <3>4. QED
      BY <3>2, <3>3, Parameters DEF Available
  <2>4. /\ sleep <= Window /\ ledger[r][Window - sleep] = Total(ledger[r])
        /\ sleep' = sleep - 1 /\ sleep >= 2
    BY <1>1, <2>1, <2>2, <2>3 DEF SleepEndsInTime, Resting
  <2>5. /\ Window - sleep \in Ages /\ (Window - 1) - 1 \in Ages
        /\ Window - sleep' \in Ages \ {0} /\ Window - sleep' - 1 = Window - sleep
        /\ Window - 1 \in Ages \ {0}
        /\ Window - sleep <= (Window - 1) - 1 /\ (Window - 1) - 1 <= Window - 1
    BY <1>1, <2>4, Parameters DEF Ages
  <2>6. /\ ledger'[r][Window - sleep'] = ledger[r][Window - sleep]
        /\ ledger'[r][Window - 1] = ledger[r][(Window - 1) - 1]
    <3>1. \A a \in Ages \ {0} : ledger'[r][a] = ledger[r][a - 1]
      BY <1>1, <1>2, <2>1, OlderCounts
    <3>2. QED
      BY <2>5, <3>1
  <2>7. /\ ledger[r][Window - sleep] <= ledger[r][(Window - 1) - 1]
        /\ ledger[r][(Window - 1) - 1] <= ledger[r][Window - 1]
    BY <1>1, <1>2, <2>5 DEF Growing
  <2>8. /\ ledger[r][Window - sleep] \in Nat /\ ledger[r][(Window - 1) - 1] \in Nat
        /\ ledger[r][Window - 1] \in Nat
    BY <1>1, <1>2, <2>5 DEF Counts
  <2>9. ledger'[r][Window - sleep'] = Total(ledger'[r])
    BY <2>4, <2>6, <2>7, <2>8 DEF Total
  <2>10. QED
    BY <1>1, <2>4, <2>9, Parameters
<1>6. CASE ~Tick /\ ~EndSweep /\ pc' = "sleep"
  <2>1. CASE Request
    BY <1>6, <2>1, RequestIsAnswered
  <2>2. CASE ~Request
    BY <1>6, <2>2 DEF Next, Request, SkipPlatform, Advance, StartPlatform, StartRanks,
       StartAliases, EndPlatform, Wake
  <2>3. QED
    BY <2>1, <2>2
<1>7. QED
  BY <1>3, <1>4, <1>5, <1>6

LEMMA StepInv == IInv /\ [Next]_vars => IInv'
<1>1. ASSUME IInv, Next
      PROVE  IInv'
  BY <1>1, StepTypeOK, StepInPlace, StepCountsGrow, StepCallsAreCharged, StepRetriesAreFew,
     StepRegionWindowBound, StepShareFits, StepRemainingIsAhead, StepRoomAhead,
     StepRefusedIsRemembered, StepSleepEndsInTime DEF IInv
<1>2. ASSUME IInv, UNCHANGED vars
      PROVE  IInv'
  <2>1. /\ pc' = pc /\ pos' = pos /\ budget' = budget /\ left' = left /\ used' = used
        /\ hit' = hit /\ limited' = limited /\ remaining' = remaining
        /\ worked' = worked /\ sleep' = sleep /\ ledger' = ledger /\ calls' = calls
        /\ rankCalls' = rankCalls /\ short' = short /\ refused' = refused
        /\ tries' = tries /\ pause' = pause /\ retried' = retried
    BY <1>2 DEF vars, control, client
  <2>2. Region' = Region /\ Account' = Account
    BY <2>1, SamePlace
  <2>3. TypeOK' /\ InPlace' /\ CountsGrow' /\ RegionWindowBound'
    BY <1>2, <2>1 DEF IInv, TypeOK, InPlace, CountsGrow, RegionWindowBound
  <2>4. CallsAreCharged' /\ RetriesAreFew' /\ ShareFits' /\ RefusedIsRemembered'
    BY <1>2, <2>1, <2>2 DEF IInv, CallsAreCharged, RetriesAreFew, Unsent, Uncharged,
       ShareFits, RefusedIsRemembered
  <2>5. RemainingIsAhead' /\ RoomAhead'
    BY <1>2, <2>1, <2>2 DEF IInv, RemainingIsAhead, RoomAhead, Ahead, Reserved, PlatformsOf
  <2>6. SleepEndsInTime'
    BY <1>2, <2>1 DEF IInv, SleepEndsInTime, Resting, Available, UsedRegions
  <2>7. QED
    BY <2>3, <2>4, <2>5, <2>6 DEF IInv
<1>3. QED
  BY <1>1, <1>2

LEMMA Invariant == Spec => []IInv
BY InitInv, StepInv, PTL DEF Spec
-----------------------------------------------------------------------------
(* Every variable keeps its type; in particular no region's count of       *)
(* platforms to come goes below zero, although each platform counts it     *)
(* down once, skipped or not (the main loop).                              *)
THEOREM TypeCorrect == Spec => []TypeOK
<1>1. IInv => TypeOK
  BY DEF IInv
<1>2. QED
  BY <1>1, Invariant, PTL

(* Match and alias calls on one region stay within the usable budget in    *)
(* every sliding window, whatever the platforms, the lanes' maxima and the *)
(* delays of the main loop's charges, and the retries inside these calls,  *)
(* which are not charged, within Retries times as many.                    *)
THEOREM RegionIsBounded == Spec => []RegionWindowBound
<1>1. IInv => RegionWindowBound
  BY DEF IInv
<1>2. QED
  BY <1>1, Invariant, PTL

(* No sweep defers a platform of a region that had a request for each of   *)
(* its platforms when the sweep began, met no 429 and paid no other        *)
(* region's aliases.                                                       *)
THEOREM DeferralIsJustified == Spec => DeferredOnlyWhenShort
<1>1. ASSUME IInv, SkipPlatform
      PROVE  Region \in short \cup limited
  <2>1. pc = "choose" /\ (Region \in limited \/ Available(Region) = 0)
    BY <1>1 DEF SkipPlatform
  <2>2. Region \in Regions /\ remaining[Region] \in Nat /\ remaining[Region] >= 1
    BY <1>1, <2>1, ChosenRemains
  <2>3. Reserved(Region) = 0
    BY <2>1 DEF Reserved
  <2>4. /\ Total(ledger[Region]) \in Nat
        /\ Available(Region) = 0 => Total(ledger[Region]) >= Limit
    BY <1>1, <2>2, AvailableIsNat DEF IInv, TypeOK
  <2>5. Region \notin short \cup limited =>
          Total(ledger[Region]) + Reserved(Region) + remaining[Region] <= Limit
    BY <1>1, <2>2 DEF IInv, RoomAhead
  <2>6. QED
    BY <2>1, <2>2, <2>3, <2>4, <2>5, Parameters
<1>2. IInv => [SkipPlatform => Region \in short \cup limited]_vars
  BY <1>1
<1>3. QED
  BY <1>2, Invariant, PTL DEF DeferredOnlyWhenShort

(* A region on which a call ended with a 429 is sent no more match or      *)
(* alias requests in the sweep, calls or retries.                          *)
THEOREM LimitedRegionRests == Spec => RestsAfterRateLimit
<1>1. ASSUME IInv, Next, NEW r \in refused
      PROVE  /\ Total(calls'[r]) <= Total(calls[r])
             /\ Total(retried'[r]) <= Total(retried[r])
  <2>1. /\ r \in Regions /\ calls \in [Regions -> Counts] /\ Total(calls[r]) \in Nat
        /\ Total(retried[r]) \in Nat
    BY <1>1, Parameters DEF IInv, TypeOK, Counts, Total
  <2>2. CASE MatchCall \/ AliasCall
    <3>1. r # IF pc = "match" THEN Region ELSE Account
      BY <1>1, <2>2 DEF IInv, RefusedIsRemembered, MatchCall, AliasCall
    <3>2. Total(calls'[r]) = Total(calls[r]) /\ retried' = retried
      BY <1>1, <2>1, <2>2, <3>1, CallIsRecorded, Parameters
      DEF Total, MatchCall, AliasCall
    <3>3. QED
      BY <2>1, <3>2
  <2>6. CASE Retry /\ pc # "rank"
    <3>1. r # IF pc = "match" THEN Region ELSE Account
      BY <1>1, <2>6, RetryIsRecorded DEF IInv, RefusedIsRemembered, Retry
    <3>2. Total(retried'[r]) = Total(retried[r]) /\ calls' = calls
      BY <1>1, <2>1, <2>6, <3>1, RetryIsRecorded, Parameters DEF Total, Retry
    <3>3. QED
      BY <2>1, <3>2
  <2>3. CASE Tick
    BY <1>1, <2>1, <2>3, TickAges
  <2>4. CASE ~(MatchCall \/ AliasCall \/ (Retry /\ pc # "rank") \/ Tick)
    <3>1. calls' = calls /\ retried' = retried
      BY <1>1, <2>4 DEF Next, SkipPlatform, StartPlatform, StartRanks, RankCall,
         StartAliases, EndPlatform, EndSweep, Wake, Retry, client
    <3>2. QED
      BY <2>1, <3>1
  <2>5. QED
    BY <2>2, <2>3, <2>4, <2>6
<1>2. IInv /\ [Next]_vars =>
        [\A r \in refused : /\ Total(calls'[r]) <= Total(calls[r])
                            /\ Total(retried'[r]) <= Total(retried[r])]_vars
  BY <1>1
<1>3. QED
  BY <1>2, Invariant, PTL DEF RestsAfterRateLimit, Spec

(* When every region was full at the end of a sweep without work, the tick *)
(* that frees a request is the sleep's last.                               *)
THEOREM SleepIsNotTooLong == Spec => NeverOversleeps
<1>1. ASSUME IInv, Next, pc = "sleep", pc' = "sleep", ~worked,
             \A r \in UsedRegions : Available(r) = 0,
             NEW q \in UsedRegions, Available(q)' > 0
      PROVE  sleep' = 0
  <2>1. Tick
    <3>1. ~Request
      BY <1>1, RequestIsAnswered
    <3>2. QED
      BY <1>1, <3>1 DEF Next, Request, SkipPlatform, StartPlatform, StartRanks,
         StartAliases, EndPlatform, EndSweep, Wake
  <2>2. /\ sleep' = IF sleep > 0 THEN sleep - 1 ELSE 0
        /\ ledger' = Older(ledger)
    BY <2>1 DEF Tick
  <2>3. /\ q \in Regions /\ sleep \in Nat /\ ledger \in [Regions -> Counts]
        /\ Growing(ledger)
    BY <1>1, RoutesAreRegions DEF UsedRegions, IInv, TypeOK, CountsGrow
  <2>4. SUFFICES ASSUME sleep >= 2
                 PROVE  FALSE
    BY <2>2, <2>3
  <2>5. sleep <= Window /\ ledger[q][Window - sleep] = Total(ledger[q])
    BY <1>1, <2>3, <2>4 DEF IInv, SleepEndsInTime, Resting
  <2>6. /\ Window - sleep \in Ages /\ (Window - 1) - 1 \in Ages
        /\ Window - 1 \in Ages \ {0}
        /\ Window - sleep <= (Window - 1) - 1
    BY <2>3, <2>4, <2>5, Parameters DEF Ages
  <2>7. ledger'[q][Window - 1] = ledger[q][(Window - 1) - 1]
    BY <2>2, <2>3, <2>6, OlderCounts
  <2>8. ledger[q][Window - sleep] <= ledger[q][(Window - 1) - 1]
    BY <2>3, <2>6 DEF Growing
  <2>9. Total(ledger[q]) >= Limit
    BY <1>1, <2>3, AvailableIsNat
  <2>10. ledger[q][(Window - 1) - 1] \in Nat /\ ledger[q][Window - sleep] \in Nat
    BY <2>3, <2>6 DEF Counts
  <2>11. Total(ledger'[q]) >= Limit /\ Total(ledger'[q]) \in Nat
    BY <2>5, <2>7, <2>8, <2>9, <2>10, Parameters DEF Total
  <2>12. Available(q)' = 0
    BY <2>11, Parameters DEF Available
  <2>13. QED
    BY <1>1, <2>12
<1>2. IInv /\ [Next]_vars =>
        [pc = "sleep" /\ pc' = "sleep" /\ ~worked
         /\ (\A r \in UsedRegions : Available(r) = 0)
         /\ (\E r \in UsedRegions : Available(r)' > 0)
         => sleep' = 0]_vars
  BY <1>1
<1>3. QED
  BY <1>2, Invariant, PTL DEF NeverOversleeps, Spec
=============================================================================
