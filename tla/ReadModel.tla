---------------------------- MODULE ReadModel ----------------------------
(* What a compiled read model owes its readers, whatever table it lives in *)
(* (docs/product/performance-guardrails.md:11: "A failed refresh leaves    *)
(* the previous compiled snapshot readable").  A refresh rewrites the      *)
(* table in many statements while readers query it; the promise is that no *)
(* step of it takes a game away from a reader that the last complete       *)
(* refresh had given him, and that a complete refresh shows exactly what   *)
(* it compiled.                                                            *)
(*                                                                         *)
(* The promise is void from the moment two refreshers overlap, or the      *)
(* stored games are retired under a running refresh, until a refresh that  *)
(* ran alone completes.  It leaves out the games that have moved to        *)
(* another row of a table whose rows are rewritten one at a time.          *)

CONSTANT Live           \* an empty model is answered from the stored games

VARIABLES
    played,             \* games of the patch whose raw rows are stored
    complete,           \* games of the last complete refresh that ran alone
    shown,              \* games a reader's query counts
    trusted,            \* FALSE while the promise is void
    moved               \* games the promise leaves out until the next one

vars == <<played, complete, shown, trusted, moved>>

Init ==
    /\ complete = {}
    /\ shown \subseteq played
    /\ trusted = TRUE
    /\ moved = {}

Readable == (trusted /\ complete # {}) => complete \ moved \subseteq shown

\* The collector stores a game.
Store ==
    /\ played \subseteq played'
    /\ shown' \subseteq shown \union played'
    /\ UNCHANGED <<complete, trusted, moved>>
    /\ Readable'

\* The raw rows of an archived patch are deleted.
Retire ==
    /\ played' = {}
    /\ shown' \subseteq shown
    /\ UNCHANGED <<complete, moved>>
    /\ trusted' => trusted
    /\ Readable'

\* A statement of a refresh, the loss of the promise included.
Compile ==
    /\ shown' \subseteq shown \union played
    /\ UNCHANGED <<played, complete, moved>>
    /\ trusted' => trusted
    /\ Readable'

\* Games get another row, when their player's rank changes.
Move ==
    /\ moved \subseteq moved'
    /\ UNCHANGED <<played, complete, shown, trusted>>

\* The last statement of a refresh that ran alone: readers see what it
\* compiled and nothing else, and no game of an earlier snapshot is missing.
Publish ==
    /\ complete' \in SUBSET played
    /\ \/ shown' = complete'
       \/ Live /\ complete' = {} /\ shown' \subseteq played
    /\ trusted' = TRUE
    /\ moved' = {}
    /\ trusted => complete \subseteq complete'
    /\ UNCHANGED played

Next == Compile \/ Publish \/ Store \/ Move \/ Retire

Spec == Init /\ [][Next]_vars

=============================================================================
