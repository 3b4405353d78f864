----------------------------- MODULE WorkerSweep -----------------------------
(***************************************************************************)
(* The collector's main loop: one sweep visits every platform in order and *)
(* gives it a share of what its routing region has left in the worker's    *)
(* own ledger (regionRequestLedger).  The share is spent by three lanes in *)
(* turn: matches on the region, ranks on the platform, account aliases on  *)
(* the account region, which for SEA is ASIA.  The ledger is charged only  *)
(* when a lane ends, and the rank lane is never charged.  A call is one    *)
(* request, and up to Retries more when Riot answers 429 with a wait that  *)
(* the client is prepared to sleep: they take no permit, and no counter    *)
(* knows of them.                                                          *)
(*                                                                         *)
(* The shared table behind reserveSharedRequests is RiotBudget; here it    *)
(* grants any number up to what is asked, and 0 also stands for a frontier *)
(* with nothing due and for a failed query.  The clock is kept as ages: of *)
(* every kind of event a count says how many are at most a ticks old, for  *)
(* each a below the window, so that the count of the highest age is their  *)
(* total, and an event as old as the window is forgotten, which is what    *)
(* prune does before every read.                                           *)
(***************************************************************************)
EXTENDS SweepConfig, FiniteSets

VARIABLES
  pc,        \* where the loop is
  pos,       \* index in Order of the platform being visited
  budget,    \* the platform's share, by lane
  left,      \* granted calls the running lane has not made
  tries,     \* how often the call under way was answered 429
  pause,     \* ticks left of its sleep before the next request
  used,      \* calls the match lane made (result.RequestsUsed)
  hit,       \* rateLimitHit
  limited,   \* rateLimitedRegions of this sweep
  remaining, \* regionPlatformsRemaining
  worked,    \* requestsThisSweep > 0
  sleep,     \* ticks left of the sleep between two sweeps
  ledger,    \* regionRequestLedger.entries: requests by highest age
  calls,     \* history: match and alias calls on each region, by highest age
  retried,   \* history: their requests after the first, likewise
  rankCalls, \* history: rank calls on each region's platforms, likewise
  short,     \* history: regions that cannot give every platform a call
  refused    \* history: regions where a call ended with a 429 in this sweep

control == <<pos, budget, hit, limited, remaining, worked, sleep, short>>
client == <<tries, pause, retried>>
vars == <<pc, control, left, used, ledger, calls, rankCalls, refused, client>>

Ages == 0..(Window - 1)
Counts == [Ages -> Nat]
Share == [match : Nat, rank : Nat, alias : Nat]
NoShare == [match |-> 0, rank |-> 0, alias |-> 0]

Least(a, b) == IF a < b THEN a ELSE b

(* All the events of the window.                                           *)
Total(counts) == counts[Window - 1]
-----------------------------------------------------------------------------
Platform == Order[pos]
Region == RegionOf[Platform]
Account == AccountOf[Platform]

PlatformsOf(r) == {i \in DOMAIN Order : RegionOf[Order[i]] = r}
PlatformCount == [r \in Regions |-> Cardinality(PlatformsOf(r))]

Available(r) == IF Total(ledger[r]) < Limit THEN Limit - Total(ledger[r]) ELSE 0

(* n requests happen now.                                                  *)
Record(l, r, n) == [l EXCEPT ![r] = [a \in Ages |-> l[r][a] + n]]

MarkFull(l, r) ==
  IF Total(l[r]) < Limit THEN Record(l, r, Limit - Total(l[r])) ELSE l

(* Until the oldest entry leaves the window; 0 when there is room.         *)
Wait(r) ==
  LET oldest == CHOOSE a \in Ages : /\ ledger[r][a] = Total(ledger[r])
                                    /\ \A b \in 0..(a - 1) : ledger[r][b] # Total(ledger[r])
  IN  IF Available(r) > 0 THEN 0 ELSE Window - oldest

UsedRegions == {RegionOf[Order[i]] : i \in DOMAIN Order}

LatestWait ==
  CHOOSE w \in {Wait(r) : r \in UsedRegions} :
    \A r \in UsedRegions : w >= Wait(r)

EarliestWait ==
  CHOOSE w \in {Wait(r) : r \in UsedRegions} :
    \A r \in UsedRegions : w <= Wait(r)

(* nextSweepSleep.                                                         *)
NextSweepSleep ==
  IF worked THEN 0 ELSE IF EarliestWait > 0 THEN EarliestWait ELSE IdleSleep

(* CollectorRankRequestBudget and CollectorAccountAliasRequestBudget.      *)
LaneShare(max, total) == IF total <= 1 THEN 0 ELSE Least(max, total - 1)

(* One platform's part of what the region has: divided by the platforms    *)
(* still to visit, rounded up.                                             *)
PlatformTotal(available, platforms) ==
  (available + platforms - 1) \div platforms

(* allocatePlatformBudget.                                                 *)
Allocate(available, platforms) ==
  LET total == PlatformTotal(available, platforms)
      rank  == LaneShare(RankMax, total)
      alias == LaneShare(AliasMax, total - rank)
      match == total - rank - alias
  IN  [match |-> IF MatchMax > 0 THEN Least(match, MatchMax) ELSE match,
       rank |-> rank, alias |-> alias]
-----------------------------------------------------------------------------
NoCalls == [r \in Regions |-> [a \in Ages |-> 0]]

KeepsCounts ==
  /\ pos' = 1
  /\ limited' = {}
  /\ worked' = FALSE
  /\ refused' = {}
  /\ short' = {r \in Regions : Available(r) < PlatformCount[r]}
  /\ UNCHANGED remaining

StartSweep ==
  /\ pos' = 1
  /\ limited' = {}
  /\ remaining' = PlatformCount
  /\ worked' = FALSE
  /\ refused' = {}
  /\ short' = {r \in Regions : Available(r) < PlatformCount[r]}

(* recordSeedRequests: the first sweep starts with the seed lookups of the *)
(* start-up in the ledger.  They are Riot calls on the account region of   *)
(* the default platform, the first of Order here, and challenger lookups   *)
(* on platform hosts, which the ledger charges to the platform's region.   *)
Init ==
  \E lookups, challenger \in 0..Limit, again \in 0..(Retries * Limit) :
    LET seeded == Record(NoCalls, AccountOf[Order[1]], lookups)
    IN  /\ calls = seeded
        /\ again <= Retries * lookups
        /\ retried = Record(NoCalls, AccountOf[Order[1]], again)
        /\ ledger = Record(seeded, RegionOf[Order[1]], challenger)
        /\ pc = "choose"
        /\ pos = 1
        /\ budget = NoShare
        /\ left = 0
        /\ tries = 0
        /\ pause = 0
        /\ used = 0
        /\ hit = FALSE
        /\ limited = {}
        /\ remaining = PlatformCount
        /\ worked = FALSE
        /\ sleep = 0
        /\ rankCalls = NoCalls
        /\ short = Regions
        /\ refused = {}

(* The loop moves to the next platform, or to the end of the sweep.        *)
Advance ==
  /\ pc' = IF pos < Len(Order) THEN "choose" ELSE "sweepEnd"
  /\ pos' = pos + 1
  /\ budget' = NoShare
  /\ left' = 0
  /\ used' = 0
  /\ hit' = FALSE

(* The region was rate limited in this sweep, or has nothing left.         *)
SkipPlatform ==
  /\ pc = "choose"
  /\ Region \in limited \/ Available(Region) = 0
  /\ remaining' = [remaining EXCEPT ![Region] = @ - 1]
  /\ Advance
  /\ UNCHANGED <<limited, worked, sleep, ledger, calls, rankCalls, short, refused,
                 client>>

(* The platform gets its share and runPlatformPass reserves the match part *)
(* of it in the shared table.                                              *)
StartPlatform ==
  /\ pc = "choose"
  /\ Region \notin limited
  /\ Available(Region) > 0
  /\ budget' = Allocate(Available(Region),
                        IF remaining[Region] <= 0 THEN 1 ELSE remaining[Region])
  /\ remaining' = [remaining EXCEPT ![Region] = @ - 1]
  /\ left' \in 0..budget'.match
  /\ pc' = "match"
  /\ UNCHANGED <<pos, used, hit, limited, worked, sleep, ledger, calls,
                 rankCalls, short, refused, client>>

(* A 429 whose Retry-After the client sleeps: the call goes on.            *)
PutOff ==
  /\ tries < Retries
  /\ tries' = tries + 1
  /\ pause' \in 1..MaxSleep
  /\ UNCHANGED <<pc, hit, limited, refused>>

(* The call is over, and with it what is known of its 429s.                *)
CallEnds == tries' = 0 /\ pause' = 0

(* What a request of the match or the rank lane is answered: the call is   *)
(* put off; it ends, well or with an error of its own; a 429 with a longer *)
(* Retry-After, or after the last retry, makes it the lane's last; or the  *)
(* key is dead, and the worker stops for good.                             *)
Answered(permits) ==
  \/ PutOff /\ left' = permits
  \/ CallEnds /\ left' = permits /\ UNCHANGED <<pc, hit, limited, refused>>
  \/ /\ CallEnds
     /\ left' = 0
     /\ hit' = TRUE
     /\ limited' = limited \cup {Region}
     /\ refused' = refused \cup {Region}
     /\ UNCHANGED pc
  \/ CallEnds /\ pc' = "stopped" /\ UNCHANGED <<left, hit, limited, refused>>

(* The same for the alias lane, which only the end of the platform makes   *)
(* known to the sweep.                                                     *)
AliasAnswered(permits) ==
  \/ PutOff /\ left' = permits
  \/ CallEnds /\ left' = permits /\ UNCHANGED <<pc, hit, limited, refused>>
  \/ /\ CallEnds
     /\ left' = 0
     /\ pc' = "aliasLimited"
     /\ refused' = refused \cup {Account}
     /\ UNCHANGED <<hit, limited>>
  \/ CallEnds /\ pc' = "stopped" /\ UNCHANGED <<left, hit, limited, refused>>

(* One match-v5 call, with its first request.                              *)
MatchCall ==
  /\ pc = "match"
  /\ left > 0
  /\ tries = 0
  /\ calls' = Record(calls, Region, 1)
  /\ used' = used + 1
  /\ worked' = TRUE
  /\ Answered(left - 1)
  /\ UNCHANGED <<pos, budget, remaining, sleep, ledger, rankCalls, short, retried>>

(* The next request of a call that was put off, when the sleep is over.    *)
(* Ranks are asked for on the platform's own route.                        *)
Retry ==
  /\ tries > 0
  /\ pause = 0
  /\ CASE pc = "match" -> /\ retried' = Record(retried, Region, 1)
                          /\ Answered(left)
       [] pc = "rank"  -> UNCHANGED retried /\ Answered(left)
       [] pc = "alias" -> /\ retried' = Record(retried, Account, 1)
                          /\ AliasAnswered(left)
  /\ UNCHANGED <<pos, budget, used, remaining, worked, sleep, ledger, calls,
                 rankCalls, short>>

(* The match lane ends, with permits to spare or not, and the rank lane    *)
(* reserves its own on the platform route.                                 *)
StartRanks ==
  /\ pc = "match"
  /\ tries = 0
  /\ left' \in 0..(IF hit THEN 0 ELSE budget.rank)
  /\ pc' = "rank"
  /\ UNCHANGED <<control, used, ledger, calls, rankCalls, refused, client>>

RankCall ==
  /\ pc = "rank"
  /\ left > 0
  /\ tries = 0
  /\ Total(rankCalls[Region]) < MaxRanks
  /\ rankCalls' = Record(rankCalls, Region, 1)
  /\ worked' = TRUE
  /\ Answered(left - 1)
  /\ UNCHANGED <<pos, budget, remaining, sleep, used, ledger, calls, short, retried>>

(* The ledger is charged with the match calls, and only those; then the    *)
(* alias lane takes what its account region has left.                      *)
ChargesTwice(l) == Record(l, Region, 2 * used)

ChargeMatches(l) == Record(l, Region, used)

IgnoresAvailable(l) == IF hit \/ Account \in limited THEN 0 ELSE budget.alias

AliasBudget(l) ==
  LET free == Limit - Total(l[Account])
  IN  IF hit \/ Account \in limited \/ free <= 0 THEN 0
      ELSE Least(budget.alias, free)

StartAliases ==
  /\ pc = "rank"
  /\ tries = 0
  /\ ledger' = ChargeMatches(ledger)
  /\ left' \in 0..AliasBudget(ledger')
  /\ used' = 0
  /\ pc' = "alias"
  /\ UNCHANGED <<control, calls, rankCalls, refused, client>>

(* One account-v1 call on the account region.                              *)
AliasCall ==
  /\ pc = "alias"
  /\ left > 0
  /\ tries = 0
  /\ calls' = Record(calls, Account, 1)
  /\ used' = used + 1
  /\ worked' = TRUE
  /\ AliasAnswered(left - 1)
  /\ UNCHANGED <<pos, budget, remaining, sleep, ledger, rankCalls, short, retried>>

(* The alias lane is charged to the account region, after MarkFull when it *)
(* met a 429; a platform that met one itself marks its own region full.    *)
ForgetsLimit(aliasLimited) == limited

LimitedAfterAliases(aliasLimited) ==
  IF aliasLimited THEN limited \cup {Account} ELSE limited

EndPlatform ==
  /\ pc \in {"alias", "aliasLimited"}
  /\ tries = 0
  /\ LET aliasLimited == pc = "aliasLimited"
         filled  == IF aliasLimited THEN MarkFull(ledger, Account) ELSE ledger
         charged == Record(filled, Account, used)
     IN  /\ limited' = LimitedAfterAliases(aliasLimited)
         /\ ledger' = IF hit THEN MarkFull(charged, Region) ELSE charged
  /\ short' = IF Account # Region /\ used > 0 THEN short \cup {Account} ELSE short
  /\ Advance
  /\ UNCHANGED <<remaining, worked, sleep, calls, rankCalls, refused, client>>

(* nextSweepSleep, and time.Sleep when it is positive.                     *)
EndSweep ==
  /\ pc = "sweepEnd"
  /\ sleep' = NextSweepSleep
  /\ pc' = "sleep"
  /\ UNCHANGED <<pos, budget, left, used, hit, limited, remaining, worked,
                 ledger, calls, rankCalls, short, refused, client>>

Wake ==
  /\ pc = "sleep"
  /\ sleep = 0
  /\ pc' = "choose"
  /\ StartSweep
  /\ UNCHANGED <<budget, left, used, hit, sleep, ledger, calls, rankCalls, client>>

(* One tick: everything gets older, what is as old as the window is gone.  *)
Older(counts) ==
  [r \in Regions |-> [a \in Ages |-> IF a = 0 THEN 0 ELSE counts[r][a - 1]]]

Tick ==
  /\ pc # "stopped"
  /\ ledger' = Older(ledger)
  /\ calls' = Older(calls)
  /\ rankCalls' = Older(rankCalls)
  /\ retried' = Older(retried)
  /\ sleep' = IF sleep > 0 THEN sleep - 1 ELSE 0
  /\ pause' = IF pause > 0 THEN pause - 1 ELSE 0
  /\ UNCHANGED <<pc, pos, budget, left, tries, used, hit, limited, remaining, worked,
                 short, refused>>

Next ==
  \/ SkipPlatform \/ StartPlatform
  \/ MatchCall \/ StartRanks \/ RankCall
  \/ StartAliases \/ AliasCall \/ EndPlatform
  \/ Retry
  \/ EndSweep \/ Wake
  \/ Tick

Spec == Init /\ [][Next]_vars
-----------------------------------------------------------------------------
(* Every variable has the shape of the code's data, and the loop never     *)
(* counts a region's platforms below zero.                                 *)
TypeOK ==
  /\ pc \in {"choose", "match", "rank", "alias", "aliasLimited", "sweepEnd",
             "sleep", "stopped"}
  /\ pos \in 1..(Len(Order) + 1)
  /\ budget \in Share
  /\ left \in Nat
  /\ tries \in 0..Retries
  /\ pause \in Nat
  /\ used \in Nat
  /\ hit \in BOOLEAN
  /\ limited \subseteq Regions
  /\ remaining \in [Regions -> Nat]
  /\ worked \in BOOLEAN
  /\ sleep \in Nat
  /\ {ledger, calls, retried, rankCalls} \subseteq [Regions -> Counts]
  /\ short \subseteq Regions
  /\ refused \subseteq Regions

(* Match and alias calls on one region never exceed the usable budget in   *)
(* any sliding window, although the ledger learns of a lane's calls only   *)
(* when the lane has ended, and SEA's aliases are spent on ASIA            *)
(* (regionRequestLedger.Record in the main loop).  What Riot is sent can   *)
(* be more: the retries inside the calls, which nothing counts, are at     *)
(* most Retries for each call of a full budget (client.go:279).            *)
RegionWindowBound ==
  \A r \in Regions : /\ Total(calls[r]) <= Limit
                     /\ Total(retried[r]) <= Retries * Limit

(* A platform is deferred only when its region began the sweep with less   *)
(* than one request per platform, or met a 429, or lost part of its budget *)
(* to another region's alias lane (allocatePlatformBudget leaves enough).  *)
DeferredOnlyWhenShort ==
  [][SkipPlatform => Region \in short \cup limited]_vars

(* Once a call on a region has ended with a 429, because Retry-After was   *)
(* longer than the client sleeps or the retries were used up, no lane      *)
(* sends it another request in the same sweep, neither a call nor a retry  *)
(* (rateLimitedRegions).  A 429 that the client slept off is no such end.  *)
RestsAfterRateLimit ==
  [][\A r \in refused : /\ Total(calls'[r]) <= Total(calls[r])
                        /\ Total(retried'[r]) <= Total(retried[r])]_vars

(* The loop never sleeps through budget: when every region was full at the *)
(* end of the sweep, it wakes at the tick one of them has room again       *)
(* (EarliestWait).  It may wake sooner: MarkFull followed by Record puts   *)
(* more than Limit entries in the ledger, and then the oldest one leaving  *)
(* frees nothing.                                                          *)
NeverOversleeps ==
  [][pc = "sleep" /\ pc' = "sleep" /\ ~worked
     /\ (\A r \in UsedRegions : Available(r) = 0)
     /\ (\E r \in UsedRegions : Available(r)' > 0)
     => sleep' = 0]_vars

(* Rank enrichment shares the regional budget with the other lanes         *)
(* (docs/collector-runbook.md:118).                                        *)
RanksShareRegionBudget ==
  \A r \in Regions :
    Total(calls[r]) + Total(rankCalls[r]) <= Limit
=============================================================================
