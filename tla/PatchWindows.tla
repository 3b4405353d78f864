---------------------------- MODULE PatchWindows ----------------------------
(* Patch buckets and the lists of patches the processes derive from them:  *)
(* the retained window (src/core/internal/analytics/normalizer.go), the    *)
(* pages the worker prewarms (src/core/cmd/worker/refresh_lanes.go) and    *)
(* those the API keeps in memory (src/core/cmd/api/main.go).               *)
(*                                                                         *)
(* A patch is <<major, minor>>; games gives the number of stored or        *)
(* archived matches of every patch there is.                               *)

EXTENDS Integers, Sequences, SequencesExt

NoPatch == <<0, 0>>

\* Retention counts of zero and less mean one.
Count(retention) == IF retention <= 0 THEN 1 ELSE retention

\* The current patch and those before it in the same season.
PatchWindow(current, retention) ==
    [i \in 1..(IF current[2] < Count(retention) THEN current[2] ELSE Count(retention)) |->
        <<current[1], current[2] - i + 1>>]

PatchInWindow(patch, current, retention) ==
    \/ current = NoPatch
    \/ /\ patch # NoPatch
       /\ patch[1] = current[1]
       /\ patch[2] \in (current[2] - Count(retention) + 1)..current[2]

Before(p, q) == p[1] < q[1] \/ (p[1] = q[1] /\ p[2] < q[2])

NewestFirst(patches) ==
    CHOOSE s \in SetToSeqs(patches) : \A i, j \in DOMAIN s : i < j => Before(s[j], s[i])

Newest(patches) == IF patches = {} THEN NoPatch ELSE Head(NewestFirst(patches))

Previous(current, games) == {p \in DOMAIN games : games[p] > 0 /\ Before(p, current)}

MaturePrevious(current, games, mature) ==
    Newest({p \in Previous(current, games) : games[p] >= mature})

\* The patch before the current one in the window, if there is one.
WindowFallback(current, retention) ==
    LET window == PatchWindow(current, retention)
    IN  IF Len(window) > 1 THEN window[2] ELSE NoPatch

FirstKnown(patches) == LET known == SelectSeq(patches, LAMBDA p : p # NoPatch)
                       IN  IF known = <<>> THEN NoPatch ELSE Head(known)

\* The worker prewarms the current patch, and the newest older one with
\* enough games.
championPageStartupPrewarmPatchList(current, retention, games, mature) ==
    LET fallback == FirstKnown(<<MaturePrevious(current, games, mature),
                                 Newest(Previous(current, games)),
                                 WindowFallback(current, retention)>>)
    IN  IF fallback = NoPatch THEN <<current>> ELSE <<current, fallback>>

\* A bug: the archive of a patch with few games is not prewarmed.
OnlyMature(current, games, mature) ==
    NewestFirst({p \in Previous(current, games) : games[p] >= mature})

\* Then every older patch.
championPageArchivedPrewarmPatchList(current, games, mature) ==
    NewestFirst(Previous(current, games))

\* The API keeps the pages of the same patches, the mature one before newer
\* ones.
championPageHydrationPatchList(current, retention, games, mature) ==
    LET older == Previous(current, games)
        first == MaturePrevious(current, games, mature)
        previous == IF first = NoPatch THEN NewestFirst(older)
                    ELSE <<first>> \o NewestFirst(older \ {first})
        window == WindowFallback(current, retention)
    IN  <<current>> \o (IF previous # <<>> THEN previous
                        ELSE IF window # NoPatch THEN <<window>> ELSE <<>>)

=============================================================================
