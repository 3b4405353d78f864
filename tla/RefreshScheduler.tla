--------------------------- MODULE RefreshScheduler ---------------------------
(* The loop of the worker that refreshes the read models                   *)
(* (src/core/cmd/worker/refresh_lanes.go): four lanes, one after the       *)
(* other, the first due one from where the last round stopped.  A lane is  *)
(* due when its interval has passed since its last run ended, well or not, *)
(* and at once when the process starts.  A run takes as long as it takes.  *)

EXTENDS Naturals, Sequences, FiniteSets

CONSTANTS
    Intervals,              \* per lane: units of time between its runs
    Configurations          \* the sets of lanes that may be switched on

Lanes == <<"item-slot-analytics", "champion-guide-analytics",
           "win-condition-analytics", "summoner-profile-analytics">>
Indices == 1..Len(Lanes)

SchedulerAssumption ==
    /\ Intervals \in [{Lanes[i] : i \in Indices} -> Nat]
    /\ Configurations \subseteq SUBSET {Lanes[i] : i \in Indices}

VARIABLES
    enabled,                \* the lanes switched on
    since,                  \* per lane: time since its last run ended, no
                            \* longer counted once the lane is due
    nextLane,
    running,                \* the lane that runs, 0 for none
    asleep,                 \* the loop waits for its interval
    passed                  \* per lane: runs of others begun since it was due

vars == <<enabled, since, nextLane, running, asleep, passed>>

Due(l) == Lanes[l] \in enabled /\ since[l] >= Intervals[Lanes[l]]

\* The i-th lane of a round, and the first due one, 0 for none.
InRound(first, i) == ((first - 1 + i - 1) % Len(Lanes)) + 1

FirstDue(first) ==
    LET due == {i \in Indices : Due(InRound(first, i))}
    IN  IF due = {} THEN 0
        ELSE InRound(first, CHOOSE i \in due : \A j \in due : i <= j)

\* A new process has refreshed nothing: every lane is due.
Fresh == [l \in Indices |-> Intervals[Lanes[l]]]

Init ==
    /\ enabled \in Configurations
    /\ since = Fresh
    /\ nextLane = 1
    /\ running = 0
    /\ asleep = FALSE
    /\ passed = [l \in Indices |-> 0]

runNextRefreshSchedulerLane ==
    /\ running = 0
    /\ ~asleep
    /\ LET lane == FirstDue(nextLane)
       IN  IF lane = 0
           THEN asleep' = TRUE /\ UNCHANGED <<running, passed>>
           ELSE /\ running' = lane
                /\ passed' = [l \in Indices |-> IF l = lane THEN 0
                                                ELSE IF Due(l) THEN passed[l] + 1 ELSE passed[l]]
                /\ UNCHANGED asleep
    /\ UNCHANGED <<enabled, since, nextLane>>

\* A bug: every round begins with the first lane.
RoundFrom(lane) == 1
NextLane(lane) == (lane % Len(Lanes)) + 1

\* The lane's refresh is over, with or without an error.
EndRun ==
    /\ running # 0
    /\ since' = [since EXCEPT ![running] = 0]
    /\ nextLane' = NextLane(running)
    /\ running' = 0
    /\ asleep' = TRUE
    /\ UNCHANGED <<enabled, passed>>

Wake ==
    /\ asleep
    /\ asleep' = FALSE
    /\ UNCHANGED <<enabled, since, nextLane, running, passed>>

\* Time passes, during a run or between two.
Tick ==
    /\ since' = [l \in Indices |-> IF since[l] < Intervals[Lanes[l]] THEN since[l] + 1 ELSE since[l]]
    /\ since' # since
    /\ UNCHANGED <<enabled, nextLane, running, asleep, passed>>

Restart ==
    /\ since' = Fresh
    /\ nextLane' = 1
    /\ running' = 0
    /\ asleep' = FALSE
    /\ passed' = [l \in Indices |-> 0]
    /\ UNCHANGED enabled

Next ==
    \/ runNextRefreshSchedulerLane
    \/ EndRun
    \/ Wake
    \/ Tick
    \/ Restart

Spec == Init /\ [][Next]_vars

-----------------------------------------------------------------------------
(* Properties *)

TypeOK ==
    /\ enabled \in Configurations
    /\ \A l \in Indices : since[l] \in 0..Intervals[Lanes[l]]
    /\ nextLane \in Indices
    /\ running \in Indices \union {0}
    /\ asleep \in BOOLEAN

\* A lane that is due runs after at most one run of each other lane, also when
\* runs outlast the intervals and every lane is due again when it ends
\* (runNextRefreshSchedulerLane, refresh_lanes.go:117).
NoLaneIsStarved == \A l \in Indices : passed[l] <= Cardinality(enabled \ {Lanes[l]})

=============================================================================
