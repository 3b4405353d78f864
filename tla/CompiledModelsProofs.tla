-------------------------- MODULE CompiledModelsProofs --------------------------
(* The compiled read models of the read side, each proved on its own for    *)
(* every value of the constants: the guide tables and the item tables keep  *)
(* the promise of ReadModel, and the ALL rows of the win conditions are the *)
(* sum of the platforms'.  ReadSideProofs has the summoner profiles and the *)
(* theorems about the composition.                                          *)

EXTENDS ReadSide, FiniteSetTheorems, TLAPS

-----------------------------------------------------------------------------
(* The guide: GuideModels keeps the promise of ReadModel, for any games,    *)
(* any number of refreshers and refreshes, and any clock whose margin       *)
(* covers what a stamp loses                                                *)

\* The games a table counts.
CountedBy(t) ==
    CASE t = "champion_skill_analytics"         -> Skilled
      [] t = "champion_ban_analytics"           -> Banned
      [] t = "champion_matchup_analytics"       -> Matched
      [] t = "champion_signature_analytics"     -> Runed
      [] t = "champion_build_variant_analytics" -> Cored
      [] OTHER                                  -> Games

Covered == {g \in guideStored : g \in CountedBy(guideWatched)}

-----------------------------------------------------------------------------

LEMMA WholeSeconds ==
    ASSUME Guide!GuideAssumption, NEW c \in Nat, NEW d \in Nat, c <= d
    PROVE  Guide!Now(c) <= Guide!Now(d) /\ Guide!Now(c) <= c /\ c < Guide!Now(c) + Second
           /\ Guide!Now(c) \in Nat
<1> DEFINE a == c \div Second
           b == d \div Second
           x == c % Second
           y == d % Second
<1>1. Second \in Nat \ {0}
    BY DEF Guide!GuideAssumption
<1>2. x \in 0..(Second - 1) /\ c = Second * a + x /\ a \in Nat
    BY <1>1, SMT
<1>3. y \in 0..(Second - 1) /\ d = Second * b + y /\ b \in Nat
    BY <1>1, SMT
<1>4. Guide!Now(c) = c - x /\ Guide!Now(d) = d - y
    BY DEF Guide!Now
<1> HIDE DEF a, b, x, y
<1> QED
    BY <1>1, <1>2, <1>3, <1>4, SMT

LEMMA GuideTablesKnown ==
    Guide!Tables = {"champion_skill_analytics", "champion_ban_analytics", Guide!Kills,
              "champion_role_analytics", Guide!Summary, "champion_guide_scope_analytics",
              "champion_matchup_analytics", "champion_signature_analytics",
              "build_signature_analytics", Guide!Variants}
<1>1. DOMAIN Guide!RefreshOrder = 1..10
    BY SMT DEF Guide!RefreshOrder
<1>2. 1..10 = {1, 2, 3, 4, 5, 6, 7, 8, 9, 10}
    BY SMT
<1>3. Guide!Tables = {Guide!RefreshOrder[1], Guide!RefreshOrder[2], Guide!RefreshOrder[3],
      Guide!RefreshOrder[4],
                Guide!RefreshOrder[5], Guide!RefreshOrder[6], Guide!RefreshOrder[7],
                Guide!RefreshOrder[8],
                Guide!RefreshOrder[9], Guide!RefreshOrder[10]}
    BY <1>1, <1>2 DEF Guide!Tables, Guide!ToSet
<1> QED
    BY <1>3, SMT DEF Guide!RefreshOrder, Guide!Kills, Guide!Summary, Guide!Variants

\* The kills are compiled before the summary that joins them.
LEMMA GuideTodoKnown ==
    ASSUME guideWatched \in Guide!Tables
    PROVE  \/ Guide!Todo = <<guideWatched>>
           \/ guideWatched = Guide!Summary /\ Guide!Todo = <<Guide!Kills, guideWatched>>
<1>1. DOMAIN Guide!RefreshOrder = 1..10 /\ Guide!RefreshOrder[3] = Guide!Kills
      /\ Guide!RefreshOrder[5] = Guide!Summary
    BY SMT DEF Guide!RefreshOrder, Guide!Kills, Guide!Summary
<1>2. \A i \in 1..10 : Guide!RefreshOrder[i] = Guide!Kills => i = 3
    BY SMT DEF Guide!RefreshOrder, Guide!Kills, Guide!Summary, Guide!Variants
<1>3. \A i \in 1..10 : Guide!RefreshOrder[i] = Guide!Summary => i = 5
    BY SMT DEF Guide!RefreshOrder, Guide!Kills, Guide!Summary, Guide!Variants
<1>4. 3 \in 1..10 /\ 5 \in 1..10
    BY SMT
<1>5. Guide!Position(Guide!Kills) = 3
    BY <1>1, <1>2, <1>4 DEF Guide!Position
<1>6. Guide!Position(Guide!Summary) = 5
    BY <1>1, <1>3, <1>4 DEF Guide!Position
<1> QED
    BY <1>5, <1>6, SMT DEF Guide!Todo

\* Grouping games loses none and adds none, whatever they are grouped by.
LEMMA ByRank ==
    ASSUME NEW gs
    PROVE  UNION {c.games : c \in Guide!Group(gs, Guide!Rank)} = gs
<1>1. ASSUME NEW g \in gs
      PROVE  \E c \in Guide!Group(gs, Guide!Rank) : g \in c.games
    <2> DEFINE c == [key |-> Guide!Rank(g), games |-> {h \in gs : Guide!Rank(h) = Guide!Rank(g)}]
    <2>1. c \in Guide!Group(gs, Guide!Rank)
        BY Zenon DEF Guide!Group
    <2>2. g \in c.games
        OBVIOUS
    <2> QED
        BY <2>1, <2>2, Zenon
<1>2. ASSUME NEW c \in Guide!Group(gs, Guide!Rank), NEW g \in c.games
      PROVE  g \in gs
    <2>1. PICK k \in {Guide!Rank(h) : h \in gs} :
              c = [key |-> k, games |-> {h \in gs : Guide!Rank(h) = k}]
        BY DEF Guide!Group
    <2> QED
        BY <2>1
<1> QED
    BY <1>1, <1>2

\* The same of one group for all.
LEMMA ByNothing ==
    ASSUME NEW gs
    PROVE  UNION {c.games : c \in Guide!Group(gs, Guide!All)} = gs
<1>1. ASSUME NEW g \in gs
      PROVE  \E c \in Guide!Group(gs, Guide!All) : g \in c.games
    <2> DEFINE c == [key |-> Guide!All(g), games |-> {h \in gs : Guide!All(h) = Guide!All(g)}]
    <2>1. c \in Guide!Group(gs, Guide!All)
        BY DEF Guide!Group
    <2>2. g \in c.games
        OBVIOUS
    <2> QED
        BY <2>1, <2>2, Zenon
<1>2. ASSUME NEW c \in Guide!Group(gs, Guide!All), NEW g \in c.games
      PROVE  g \in gs
    <2>1. PICK k \in {Guide!All(h) : h \in gs} :
              c = [key |-> k, games |-> {h \in gs : Guide!All(h) = k}]
        BY DEF Guide!Group
    <2> QED
        BY <2>1
<1> QED
    BY <1>1, <1>2

\* The same of a group for each game.
LEMMA ByGame ==
    ASSUME NEW gs
    PROVE  UNION {c.games : c \in Guide!Group(gs, Guide!Match)} = gs
<1>1. ASSUME NEW g \in gs
      PROVE  \E c \in Guide!Group(gs, Guide!Match) : g \in c.games
    <2> DEFINE c == [key |-> Guide!Match(g),
        games |-> {h \in gs : Guide!Match(h) = Guide!Match(g)}]
    <2>1. c \in Guide!Group(gs, Guide!Match)
        BY DEF Guide!Group
    <2>2. g \in c.games
        OBVIOUS
    <2> QED
        BY <2>1, <2>2, Zenon
<1>2. ASSUME NEW c \in Guide!Group(gs, Guide!Match), NEW g \in c.games
      PROVE  g \in gs
    <2>1. PICK k \in {Guide!Match(h) : h \in gs} :
              c = [key |-> k, games |-> {h \in gs : Guide!Match(h) = k}]
        BY DEF Guide!Group
    <2> QED
        BY <2>1
<1> QED
    BY <1>1, <1>2

\* The groups of a table hold the stored games it counts and no others.
LEMMA Groups ==
    ASSUME NEW t \in Guide!Tables, NEW games \in SUBSET Games
    PROVE  UNION {c.games : c \in Guide!Compiled(t, games)} = {g \in games : g \in CountedBy(t)}
<1>1. CASE t = "champion_skill_analytics"
    <2>1. Guide!Compiled(t, games) = Guide!Group(games \intersect Skilled, Guide!Rank)
        BY <1>1 DEF Guide!Compiled, Guide!SkillRows, Guide!Kills, Guide!Summary, Guide!Variants
    <2>2. {x \in games : x \in CountedBy(t)} = games \intersect Skilled
        BY <1>1 DEF CountedBy, Guide!Kills, Guide!Summary, Guide!Variants
    <2>3. UNION {c.games : c \in Guide!Group(games \intersect Skilled,
          Guide!Rank)} = games \intersect Skilled
        BY ByRank, Zenon
    <2> QED
        BY <2>1, <2>2, <2>3, Zenon
<1>2. CASE t = "champion_ban_analytics"
    <2>1. Guide!Compiled(t, games) = Guide!Group(games \intersect Banned, Guide!All)
        BY <1>2 DEF Guide!Compiled, Guide!BanRows, Guide!Kills, Guide!Summary, Guide!Variants
    <2>2. {x \in games : x \in CountedBy(t)} = games \intersect Banned
        BY <1>2 DEF CountedBy, Guide!Kills, Guide!Summary, Guide!Variants
    <2>3. UNION {c.games : c \in Guide!Group(games \intersect Banned,
          Guide!All)} = games \intersect Banned
        BY ByNothing, Zenon
    <2> QED
        BY <2>1, <2>2, <2>3, Zenon
<1>3. CASE t = Guide!Kills
    <2>1. Guide!Compiled(t, games) = Guide!Group(games, Guide!Match)
        BY <1>3 DEF Guide!Compiled, Guide!TeamKillRows, Guide!Kills, Guide!Summary, Guide!Variants
    <2>2. {x \in games : x \in CountedBy(t)} = games
        BY <1>3 DEF CountedBy, Guide!Kills, Guide!Summary, Guide!Variants
    <2>3. UNION {c.games : c \in Guide!Group(games, Guide!Match)} = games
        BY ByGame
    <2> QED
        BY <2>1, <2>2, <2>3
<1>4. CASE t = "champion_role_analytics"
    <2>1. Guide!Compiled(t, games) = Guide!Group(games, Guide!All)
        BY <1>4 DEF Guide!Compiled, Guide!RoleRows, Guide!Kills, Guide!Summary, Guide!Variants
    <2>2. {x \in games : x \in CountedBy(t)} = games
        BY <1>4 DEF CountedBy, Guide!Kills, Guide!Summary, Guide!Variants
    <2>3. UNION {c.games : c \in Guide!Group(games, Guide!All)} = games
        BY ByNothing
    <2> QED
        BY <2>1, <2>2, <2>3
<1>5. CASE t = Guide!Summary
    <2>1. Guide!Compiled(t, games) = Guide!Group(games, Guide!Rank)
        BY <1>5 DEF Guide!Compiled, Guide!SummaryRows, Guide!Kills, Guide!Summary, Guide!Variants
    <2>2. {x \in games : x \in CountedBy(t)} = games
        BY <1>5 DEF CountedBy, Guide!Kills, Guide!Summary, Guide!Variants
    <2>3. UNION {c.games : c \in Guide!Group(games, Guide!Rank)} = games
        BY ByRank
    <2> QED
        BY <2>1, <2>2, <2>3
<1>6. CASE t = "champion_guide_scope_analytics"
    <2> DEFINE A == Guide!Group(games, Guide!Rank)
               B == Guide!Group(games, Guide!All)
    <2>1. Guide!Compiled(t, games) = A \union B
        BY <1>6 DEF Guide!Compiled, Guide!ScopeRows, Guide!Kills, Guide!Summary, Guide!Variants
    <2>2. {x \in games : x \in CountedBy(t)} = games
        BY <1>6 DEF CountedBy, Guide!Kills, Guide!Summary, Guide!Variants
    <2>3. UNION {c.games : c \in A} = games /\ UNION {c.games : c \in B} = games
        BY ByRank, ByNothing, Zenon
    <2> HIDE DEF A, B
    <2>4. UNION {c.games : c \in A \union B} = games
        BY <2>3
    <2> QED
        BY <2>1, <2>2, <2>4
<1>7. CASE t = "champion_matchup_analytics"
    <2>1. Guide!Compiled(t, games) = Guide!Group(games \intersect Matched, Guide!Rank)
        BY <1>7 DEF Guide!Compiled, Guide!MatchupRows, Guide!Kills, Guide!Summary, Guide!Variants
    <2>2. {x \in games : x \in CountedBy(t)} = games \intersect Matched
        BY <1>7 DEF CountedBy, Guide!Kills, Guide!Summary, Guide!Variants
    <2>3. UNION {c.games : c \in Guide!Group(games \intersect Matched,
          Guide!Rank)} = games \intersect Matched
        BY ByRank, Zenon
    <2> QED
        BY <2>1, <2>2, <2>3, Zenon
<1>8. CASE t = "champion_signature_analytics"
    <2>1. Guide!Compiled(t, games) = Guide!Group(games \intersect Runed, Guide!Rank)
        BY <1>8 DEF Guide!Compiled, Guide!SignatureRows, Guide!Kills, Guide!Summary,
           Guide!Variants
    <2>2. {x \in games : x \in CountedBy(t)} = games \intersect Runed
        BY <1>8 DEF CountedBy, Guide!Kills, Guide!Summary, Guide!Variants
    <2>3. UNION {c.games : c \in Guide!Group(games \intersect Runed,
          Guide!Rank)} = games \intersect Runed
        BY ByRank, Zenon
    <2> QED
        BY <2>1, <2>2, <2>3, Zenon
<1>9. CASE t = "build_signature_analytics"
    <2>1. Guide!Compiled(t, games) = Guide!Group(games, Guide!Rank)
        BY <1>9 DEF Guide!Compiled, Guide!BuildRows, Guide!Kills, Guide!Summary, Guide!Variants
    <2>2. {x \in games : x \in CountedBy(t)} = games
        BY <1>9 DEF CountedBy, Guide!Kills, Guide!Summary, Guide!Variants
    <2>3. UNION {c.games : c \in Guide!Group(games, Guide!Rank)} = games
        BY ByRank
    <2> QED
        BY <2>1, <2>2, <2>3
<1>10. CASE t = Guide!Variants
    <2>1. Guide!Compiled(t, games) = Guide!Group(games \intersect Cored, Guide!Rank)
        BY <1>10 DEF Guide!Compiled, Guide!VariantRows, Guide!Kills, Guide!Summary, Guide!Variants
    <2>2. {x \in games : x \in CountedBy(t)} = games \intersect Cored
        BY <1>10 DEF CountedBy, Guide!Kills, Guide!Summary, Guide!Variants
    <2>3. UNION {c.games : c \in Guide!Group(games \intersect Cored,
          Guide!Rank)} = games \intersect Cored
        BY ByRank, Zenon
    <2> QED
        BY <2>1, <2>2, <2>3, Zenon
<1> QED
    BY <1>1, <1>2, <1>3, <1>4, <1>5, <1>6, <1>7, <1>8, <1>9, <1>10, GuideTablesKnown
-----------------------------------------------------------------------------
(* Rows *)

\* The games of the final rows stamped at x or later: what stays whatever a
\* deletion with a cutoff of at most x takes away.
From(rs, x) == UNION {r.games : r \in {f \in Guide!Final(rs) : f.at >= x}}

Stamped(rs) == \A w \in rs : w.at \in Int

LEMMA FromIsCounted ==
    ASSUME NEW rs, NEW x
    PROVE  From(rs, x) \subseteq Guide!Counted(rs)
BY DEF From, Guide!Counted

LEMMA FromShrinks ==
    ASSUME NEW rs, Stamped(rs), NEW x \in Int, NEW y \in Int, x <= y
    PROVE  From(rs, y) \subseteq From(rs, x)
<1>1. \A f \in Guide!Final(rs) : f.at \in Int
    BY DEF Guide!Final, Stamped
<1>2. ASSUME NEW f \in Guide!Final(rs), f.at >= y
      PROVE  f.at >= x
    BY <1>1, <1>2, SMT
<1> QED
    BY <1>2 DEF From

\* A deletion takes none of the games of the rows it spares.
LEMMA DeleteKeeps ==
    ASSUME NEW rs, Stamped(rs), NEW c \in Int, NEW x \in Int, x >= c
    PROVE  From(rs, x) \subseteq From({w \in rs : ~(w.at < c)}, x)
<1> DEFINE left == {w \in rs : ~(w.at < c)}
<1>1. ASSUME NEW f \in Guide!Final(rs), f.at >= x
      PROVE  f \in Guide!Final(left)
    <2>1. f \in rs /\ f.at \in Int
        BY DEF Guide!Final, Stamped
    <2>2. ~(f.at < c)
        BY <1>1, <2>1, SMT
    <2> QED
        BY <2>1, <2>2 DEF Guide!Final
<1> QED
    BY <1>1 DEF From

\* Where a deletion spares every game of W at its own cutoff, it takes none of
\* them whatever the cutoff they are looked at with.
LEMMA DeleteKeepsAll ==
    ASSUME NEW rs, Stamped(rs), NEW c \in Int, NEW x \in Int, NEW W,
           W \subseteq From(rs, c), W \subseteq From(rs, x)
    PROVE  W \subseteq From({w \in rs : ~(w.at < c)}, x)
<1> DEFINE left == {w \in rs : ~(w.at < c)}
<1>1. Stamped(left)
    BY DEF Stamped
<1>2. CASE x >= c
    BY <1>2, DeleteKeeps
<1>3. CASE x < c
    <2>1. From(rs, c) \subseteq From(left, c)
        BY DeleteKeeps, c >= c
    <2>2. x <= c
        BY <1>3, SMT
    <2>3. From(left, c) \subseteq From(left, x)
        BY <1>1, <2>2, FromShrinks, Zenon
    <2> QED
        BY <2>1, <2>3
<1>4. x >= c \/ x < c
    BY SMT
<1> QED
    BY <1>2, <1>3, <1>4

\* An insert compiled from everything stored covers it with rows of its stamp.
LEMMA InsertCovers ==
    ASSUME NEW t \in Guide!Tables, NEW at \in Int, guideStored \subseteq Games,
           \A w \in guideRows[t] : w.at \in Int /\ w.at <= at
    PROVE  /\ {g \in guideStored : g \in CountedBy(t)} \subseteq From(Guide!Insert(t, at), at)
           /\ \A w \in Guide!Insert(t, at) :
                 \/ w \in guideRows[t]
                 \/ w.at = at /\ w.games \subseteq {g \in guideStored : g \in CountedBy(t)}
<1> DEFINE new == {[at |-> at, key |-> c.key, games |-> c.games,
                    joined |-> c.games \intersect Guide!Counted(guideRows[Guide!Kills])] :
                       c \in Guide!Compiled(t, guideStored)}
           all == Guide!Insert(t, at)
<1>1. all = {r \in guideRows[t] : ~ \E n \in new : n.key = r.key /\ n.at = r.at} \union new
    BY DEF Guide!Insert, Guide!Replaced
<1>2. \A n \in new : n.at = at /\ \E c \in Guide!Compiled(t, guideStored) : n.games = c.games
    OBVIOUS
<1>3. ASSUME NEW c \in Guide!Compiled(t, guideStored)
      PROVE  \E n \in new : n.games = c.games
    <2> DEFINE n == [at |-> at, key |-> c.key, games |-> c.games,
                     joined |-> c.games \intersect Guide!Counted(guideRows[Guide!Kills])]
    <2>1. n \in new
        BY Zenon
    <2>2. n.games = c.games
        OBVIOUS
    <2> QED
        BY <2>1, <2>2
<1>4. UNION {c.games : c \in Guide!Compiled(t, guideStored)} = {g \in guideStored :
          g \in CountedBy(t)}
    BY Groups
<1> HIDE DEF new, all
<1>5. \A w \in all : w.at \in Int /\ w.at <= at
    <2> SUFFICES ASSUME NEW w \in all PROVE w.at \in Int /\ w.at <= at
        OBVIOUS
    <2>1. CASE w \in guideRows[t]
        BY <2>1
    <2>2. CASE w \in new
        BY <2>2, <1>2, SMT
    <2> QED
        BY <1>1, <2>1, <2>2
<1>6. ASSUME NEW n \in new
      PROVE  n \in {f \in Guide!Final(all) : f.at >= at}
    <2>1. n \in all /\ n.at = at
        BY <1>1, <1>2
    <2>2. at >= at
        BY SMT
    <2> QED
        BY <2>1, <2>2, <1>5 DEF Guide!Final
<1>7. {g \in guideStored : g \in CountedBy(t)} \subseteq From(all, at)
    <2> SUFFICES ASSUME NEW g \in guideStored, g \in CountedBy(t) PROVE g \in From(all, at)
        OBVIOUS
    <2>1. PICK c \in Guide!Compiled(t, guideStored) : g \in c.games
        BY <1>4
    <2>2. PICK n \in new : n.games = c.games
        BY <1>3
    <2> QED
        BY <2>1, <2>2, <1>6 DEF From
<1>8. ASSUME NEW w \in all
      PROVE  \/ w \in guideRows[t]
             \/ w.at = at /\ w.games \subseteq {g \in guideStored : g \in CountedBy(t)}
    <2>1. CASE w \in guideRows[t]
        BY <2>1
    <2>2. CASE w \in new
        BY <2>2, <1>2, <1>4
    <2> QED
        BY <1>1, <2>1, <2>2
<1> QED
    BY <1>7, <1>8 DEF all

-----------------------------------------------------------------------------
(* The invariant *)

GuideBusy(r) == guideJob[r].step # "idle"

\* The refresh has compiled the watched table and not deleted from it yet.
AtLast(r) == guideJob[r].step = "delete" /\ guideJob[r].todo = <<guideWatched>>

GuideJobOK(r) ==
    \/ guideJob[r] = Guide!Idle
    \/ /\ DOMAIN guideJob[r] = {"step", "todo", "pending", "cutoff", "quiet", "spaced"}
       /\ guideJob[r].step \in {"insert", "row", "delete"}
       /\ guideJob[r].step = "row" => guideWatched = Guide!Variants
       /\ guideJob[r].step # "row" => guideJob[r].pending = {}
       /\ \/ guideJob[r].todo = <<guideWatched>>
          \/ guideWatched = Guide!Summary /\ guideJob[r].todo = <<Guide!Kills, guideWatched>>
       /\ guideJob[r].cutoff \in Int /\ guideJob[r].cutoff <= Guide!Now(guideClock)
       /\ guideJob[r].quiet \in BOOLEAN

GuideStateOK ==
    /\ guideWatched \in Guide!Tables
    /\ guideStored \subseteq Games
    /\ guideClock \in Nat
    /\ guideMoved \subseteq guideComplete
    /\ guideRankOf = [g \in Games |-> guideRankOf[g]]
    /\ guideRows = [t \in Guide!Tables |-> guideRows[t]]
    /\ guideJob = [r \in Refreshers |-> guideJob[r]]
    /\ \A r \in Refreshers : GuideJobOK(r)

\* Stamps are not ahead of the clock, and no row counts a game out of thin air.
GuideRowsOK ==
    /\ \A t \in Guide!Tables : \A w \in guideRows[t] : w.at \in Int
       /\ w.at <= Guide!Now(guideClock)
    /\ \A w \in guideRows[guideWatched] : w.games \subseteq Covered
    /\ guideComplete \subseteq Covered
    /\ \A r \in Refreshers : guideJob[r].step = "row" =>
          \A c \in guideJob[r].pending : c.games \subseteq Covered

\* A quiet refresh is the only one.
GuideQuietIsAlone ==
    \A r \in Refreshers : (GuideBusy(r) /\ guideJob[r].quiet) => Guide!Active = {r}

\* A table filled by one statement: it has the games readers are owed, and
\* while a deletion is due, in rows the deletion spares; a quiet refresh has
\* all of them there.
TablesServed ==
    /\ guideComplete \subseteq Guide!Counted(guideRows[guideWatched])
    /\ \A r \in Refreshers : AtLast(r) =>
          /\ guideComplete \subseteq From(guideRows[guideWatched], guideJob[r].cutoff)
          /\ guideJob[r].quiet
             => Covered \subseteq From(guideRows[guideWatched], guideJob[r].cutoff)

\* The games the promise leaves out of the build variants, and those it owes.
Left == IF guideWatched = Guide!Variants THEN guideMoved ELSE {}
Owed == guideComplete \ Left

\* The game is in the row of its own key, stamped at x or later.
InItsRow(g, x) ==
    \E w \in Guide!Final(guideRows[Guide!Variants]) :
        w.key = guideRankOf[g] /\ w.at >= x /\ g \in w.games

\* The row of the game's key is still to be inserted by the refresh.
InPending(r, g) == \E c \in guideJob[r].pending : c.key = guideRankOf[g]

\* The games that a refresh must not lose: a quiet one has read them all.
Due(r) == IF guideJob[r].quiet THEN Covered ELSE Owed

\* The game is in the row of its own key.
HasItsRow(g) ==
    \E w \in Guide!Final(guideRows[Guide!Variants]) : w.key = guideRankOf[g] /\ g \in w.games

\* From the read to the deletion, the row of such a game is one the deletion
\* spares, or it is still to come; and a row to come of its key has the game.
NotLost(r) ==
    guideJob[r].step \in {"row", "delete"} =>
        \A g \in Due(r) :
           /\ InPending(r, g) \/ InItsRow(g, guideJob[r].cutoff)
           /\ \A c \in guideJob[r].pending : c.key = guideRankOf[g] => g \in c.games

\* The build variants serve the games owed.
VariantsServed ==
    /\ \A g \in Owed : HasItsRow(g)
    /\ \A r \in Refreshers : NotLost(r)

GuideReadersServed ==
    /\ guideWatched # Guide!Variants => TablesServed
    /\ guideWatched = Guide!Variants => VariantsServed

GuideIInv == GuideStateOK /\ GuideRowsOK /\ GuideQuietIsAlone /\ GuideReadersServed

-----------------------------------------------------------------------------
(* The initial state, and the state part of a step *)

LEMMA GuideInitially ==
    ASSUME Guide!GuideAssumption, Guide!Init
    PROVE  GuideIInv
<1>1. GuideStateOK
    BY DEF Guide!Init, GuideStateOK, GuideJobOK
<1>2. \A t \in Guide!Tables : guideRows[t] = {}
    BY DEF Guide!Init
<1>4. \A r \in Refreshers : ~ GuideBusy(r) /\ ~ AtLast(r) /\ guideJob[r].step # "row"
    BY DEF Guide!Init, GuideBusy, AtLast, Guide!Idle
<1>3. GuideRowsOK
    BY <1>1, <1>2, <1>4 DEF Guide!Init, GuideRowsOK, GuideStateOK
<1>5. GuideQuietIsAlone
    BY <1>4 DEF GuideQuietIsAlone
<1>6. GuideReadersServed
    <2>1. TablesServed
        BY <1>4 DEF TablesServed, Guide!Init
    <2>2. Owed = {}
        BY DEF Owed, Guide!Init
    <2>3. \A r \in Refreshers : guideJob[r].step = "idle"
        BY DEF Guide!Init, Guide!Idle
    <2>4. VariantsServed
        BY <2>2, <2>3 DEF VariantsServed, NotLost
    <2> QED
        BY <2>1, <2>4 DEF GuideReadersServed
<1> QED
    BY <1>1, <1>3, <1>5, <1>6 DEF GuideIInv

\* What a step that only hushes the others does to a refresh's state.
LEMMA Hushed ==
    ASSUME NEW j, DOMAIN j = {"step", "todo", "pending", "cutoff", "quiet", "spaced"}
    PROVE  /\ DOMAIN [j EXCEPT !.quiet = FALSE] = DOMAIN j
           /\ [j EXCEPT !.quiet = FALSE].step = j.step
           /\ [j EXCEPT !.quiet = FALSE].todo = j.todo
           /\ [j EXCEPT !.quiet = FALSE].pending = j.pending
           /\ [j EXCEPT !.quiet = FALSE].cutoff = j.cutoff
           /\ [j EXCEPT !.quiet = FALSE].quiet = FALSE
OBVIOUS

\* The table a statement is about.
LEMMA HeadKnown ==
    ASSUME GuideStateOK, NEW r \in Refreshers, guideJob[r].step \in {"insert", "row", "delete"}
    PROVE  /\ Head(guideJob[r].todo) \in Guide!Tables
           /\ \/ guideJob[r].todo = <<guideWatched>> /\ Head(guideJob[r].todo) = guideWatched
                 /\ Tail(guideJob[r].todo) = <<>>
              \/ /\ guideWatched = Guide!Summary /\ guideJob[r].todo = <<Guide!Kills,
                    guideWatched>>
                 /\ Head(guideJob[r].todo) = Guide!Kills /\ Head(guideJob[r].todo) # guideWatched
                 /\ Tail(guideJob[r].todo) = <<guideWatched>> /\ Tail(guideJob[r].todo) # <<>>
           /\ guideJob[r].todo # <<Guide!Kills, guideWatched>>
              \/ guideJob[r].todo # <<guideWatched>>
<1>1. GuideJobOK(r) /\ guideJob[r] # Guide!Idle
    BY DEF GuideStateOK, Guide!Idle
<1>2. Guide!Kills \in Guide!Tables /\ Guide!Kills # Guide!Summary /\ guideWatched \in Guide!Tables
    BY GuideTablesKnown DEF GuideStateOK, Guide!Kills, Guide!Summary
<1>3. Head(<<guideWatched>>) = guideWatched /\ Tail(<<guideWatched>>) = <<>>
    BY SMT
<1>4. /\ Head(<<Guide!Kills, guideWatched>>) = Guide!Kills
         /\ Tail(<<Guide!Kills, guideWatched>>) = <<guideWatched>>
      /\ <<guideWatched>> # <<>> /\ <<Guide!Kills, guideWatched>> # <<guideWatched>>
    BY SMT
<1>5. CASE guideJob[r].todo = <<guideWatched>>
    BY <1>2, <1>3, <1>4, <1>5
<1>6. CASE guideWatched = Guide!Summary /\ guideJob[r].todo = <<Guide!Kills, guideWatched>>
    BY <1>2, <1>4, <1>6
<1> QED
    BY <1>1, <1>5, <1>6, Zenon DEF GuideJobOK

\* Only where the build variants are watched are they read.
LEMMA ReadsVariants ==
    ASSUME GuideStateOK, NEW r \in Refreshers, Guide!ReadVariants(r)
    PROVE  guideWatched = Guide!Variants /\ guideJob[r].todo = <<guideWatched>>
<1>1. Head(guideJob[r].todo) = Guide!Variants /\ Guide!Variants # Guide!Kills
    BY DEF Guide!ReadVariants, Guide!Variants, Guide!Kills
<1> QED
    BY <1>1, HeadKnown DEF Guide!ReadVariants

\* One row inserted, and what is left to insert.
LEMMA RowInserted ==
    ASSUME GuideStateOK, NEW r \in Refreshers, Guide!InsertRow(r)
    PROVE  /\ Guide!Variants \in Guide!Tables /\ guideWatched = Guide!Variants
           /\ GuideJobOK(r) /\ guideJob[r].step = "row"
           /\ \A u \in Guide!Tables : u # Guide!Variants => guideRows'[u] = guideRows[u]
           /\ \E c \in guideJob[r].pending :
                 /\ guideRows'[Guide!Variants] = Guide!InsertVariant(c, Guide!Now(guideClock))
                 /\ guideJob'[r] = [guideJob[r] EXCEPT !.pending = guideJob[r].pending \ {c},
                       !.step = IF guideJob[r].pending = {c} THEN "delete" ELSE "row"]
<1>1. GuideJobOK(r) /\ guideJob[r].step = "row" /\ guideJob[r] # Guide!Idle
    BY DEF Guide!InsertRow, GuideStateOK, Guide!Idle
<1>2. Guide!Variants \in Guide!Tables /\ guideWatched = Guide!Variants
    BY <1>1, GuideTablesKnown DEF GuideJobOK
<1>3. PICK c \in guideJob[r].pending :
          /\ guideRows' = [guideRows EXCEPT ![Guide!Variants]
                              = Guide!InsertVariant(c, Guide!Now(guideClock))]
          /\ guideJob' = [guideJob EXCEPT ![r] = [guideJob[r] EXCEPT
                !.pending = guideJob[r].pending \ {c},
                !.step = IF guideJob[r].pending = {c} THEN "delete" ELSE "row"]]
    BY Zenon DEF Guide!InsertRow
<1> DEFINE rest == guideJob[r].pending \ {c}
           next == IF guideJob[r].pending = {c} THEN "delete" ELSE "row"
<1>4. guideJob' = [guideJob EXCEPT ![r] = [guideJob[r] EXCEPT !.pending = rest, !.step = next]]
    BY <1>3
<1> HIDE DEF rest, next
<1>5. guideJob'[r] = [guideJob[r] EXCEPT !.pending = rest, !.step = next]
    BY <1>4 DEF GuideStateOK
<1>6. /\ guideRows'[Guide!Variants] = Guide!InsertVariant(c, Guide!Now(guideClock))
      /\ \A u \in Guide!Tables : u # Guide!Variants => guideRows'[u] = guideRows[u]
    BY <1>2, <1>3 DEF GuideStateOK
<1> QED
    BY <1>1, <1>2, <1>5, <1>6 DEF rest, next

LEMMA StepGuideState ==
    ASSUME Guide!GuideAssumption, GuideIInv, [Guide!Next]_(Guide!vars)
    PROVE  GuideStateOK'
<1> USE DEF GuideIInv, GuideStateOK
<1>1. ASSUME NEW g \in Games, Guide!Store(g)
      PROVE  GuideStateOK'
    <2>1. /\ guideWatched' = guideWatched /\ guideClock' = guideClock
             /\ guideRows' = guideRows
          /\ guideStored' \subseteq Games
          /\ guideMoved' \subseteq guideComplete' /\ guideRankOf' = guideRankOf
        BY <1>1 DEF Guide!Store
    <2>2. ASSUME NEW r \in Refreshers
          PROVE  GuideJobOK(r)'
        <3>1. guideJob'[r] = IF r \in Guide!Active THEN [guideJob[r] EXCEPT !.quiet = FALSE] ELSE guideJob[r]
            BY <1>1 DEF Guide!Store
        <3>2. CASE guideJob[r] = Guide!Idle
            BY <2>1, <3>1, <3>2 DEF Guide!Active, Guide!Idle, GuideJobOK
        <3>3. CASE guideJob[r] # Guide!Idle
            BY <2>1, <3>1, <3>3, Hushed, Zenon DEF Guide!Active, GuideJobOK
        <3> QED
            BY <3>2, <3>3
    <2> QED
        BY <2>1, <2>2, <1>1 DEF Guide!Store
<1>2. ASSUME NEW g \in Games, Guide!Promote(g)
      PROVE  GuideStateOK'
    <2>1. /\ guideWatched' = guideWatched /\ guideClock' = guideClock
             /\ guideRows' = guideRows
          /\ guideStored' = guideStored
          /\ guideMoved' \subseteq guideComplete'
          /\ guideRankOf' = [h \in Games |-> guideRankOf'[h]]
        BY <1>2, Zenon DEF Guide!Promote
    <2>2. ASSUME NEW r \in Refreshers
          PROVE  GuideJobOK(r)'
        <3>1. guideJob'[r] = IF r \in Guide!Active THEN [guideJob[r] EXCEPT !.quiet = FALSE] ELSE guideJob[r]
            BY <1>2 DEF Guide!Promote
        <3>2. CASE guideJob[r] = Guide!Idle
            BY <2>1, <3>1, <3>2 DEF Guide!Active, Guide!Idle, GuideJobOK
        <3>3. CASE guideJob[r] # Guide!Idle
            BY <2>1, <3>1, <3>3, Hushed, Zenon DEF Guide!Active, GuideJobOK
        <3> QED
            BY <3>2, <3>3
    <2> QED
        BY <2>1, <2>2, <1>2 DEF Guide!Promote
<1>3. ASSUME NEW r \in Refreshers, Guide!StartRefresh(r)
      PROVE  GuideStateOK'
    <2>1. /\ guideWatched' = guideWatched /\ guideMoved' \subseteq guideComplete'
             /\ guideRankOf' = guideRankOf
             /\ guideRows' = guideRows /\ guideStored' = guideStored
        BY <1>3 DEF Guide!StartRefresh
    <2>2. PICK now \in {guideClock + 1, guideClock + Pause} :
              /\ guideClock' = now
              /\ guideJob' = [s \in Refreshers |->
                    IF s = r
                    THEN [step |-> "insert", todo |-> Guide!Todo, pending |-> {}, cutoff |-> Guide!Cutoff(now),
                          quiet |-> Guide!Active = {},
                          spaced |-> \A t \in Guide!Tables : \A w \in guideRows[t] :
                              w.at < Guide!Cutoff(now)]
                    ELSE IF s \in Guide!Active THEN [guideJob[s] EXCEPT !.quiet = FALSE]
                        ELSE guideJob[s]]
        BY <1>3, Zenon DEF Guide!StartRefresh
    <2>3. now \in Nat /\ guideClock <= now
        BY Guide!GuideAssumption DEF Guide!GuideAssumption
    <2>4. Guide!Now(guideClock) <= Guide!Now(now) /\ Guide!Now(guideClock) \in Int
          /\ Guide!Now(now) \in Int
        BY <2>3, WholeSeconds DEF GuideStateOK
    <2>5. Guide!Cutoff(now) \in Int /\ Guide!Cutoff(now) <= Guide!Now(now)
        <3>1. now < Guide!Now(now) + Second
            BY <2>3, WholeSeconds
        <3> HIDE DEF GuideIInv, GuideStateOK
        <3> QED
            BY <2>3, <2>4, <3>1, Guide!GuideAssumption, SMT DEF Guide!GuideAssumption,
               Guide!Cutoff
    <2>6. ASSUME NEW s \in Refreshers
          PROVE  GuideJobOK(s)'
        <3>1. CASE s = r
            <4> DEFINE j == [step |-> "insert", todo |-> Guide!Todo, pending |-> {}, cutoff |-> Guide!Cutoff(now),
                             quiet |-> Guide!Active = {},
                             spaced |-> \A t \in Guide!Tables : \A w \in guideRows[t] :
                                 w.at < Guide!Cutoff(now)]
            <4>1. guideJob'[s] = j
                BY <2>2, <3>1
            <4>2. /\ DOMAIN j = {"step", "todo", "pending", "cutoff", "quiet", "spaced"}
                  /\ j.step = "insert" /\ j.todo = Guide!Todo /\ j.cutoff = Guide!Cutoff(now)
                  /\ j.pending = {}
                  /\ j.quiet = (Guide!Active = {})
                OBVIOUS
            <4> HIDE DEF j
            <4> QED
                BY <2>1, <2>2, <2>5, <4>1, <4>2, GuideTodoKnown, Zenon DEF GuideJobOK
        <3>2. CASE s # r /\ guideJob[s] = Guide!Idle
            BY <2>1, <2>2, <3>2 DEF Guide!Active, Guide!Idle, GuideJobOK
        <3>3. CASE s # r /\ guideJob[s] # Guide!Idle
            <4>1. GuideJobOK(s)
                OBVIOUS
            <4>2. guideJob[s].step # "idle" /\ s \in Guide!Active
                BY <3>3, <4>1 DEF GuideJobOK, Guide!Active
            <4>3. guideJob'[s] = [guideJob[s] EXCEPT !.quiet = FALSE]
                BY <2>2, <3>3, <4>2
            <4>4. DOMAIN guideJob[s] = {"step", "todo", "pending", "cutoff", "quiet", "spaced"}
                BY <3>3, <4>1 DEF GuideJobOK
            <4>5. /\ DOMAIN guideJob'[s] = DOMAIN guideJob[s]
                  /\ guideJob'[s].step = guideJob[s].step
                  /\ guideJob'[s].todo = guideJob[s].todo
                  /\ guideJob'[s].cutoff = guideJob[s].cutoff
                  /\ guideJob'[s].quiet = FALSE
                BY <4>3, <4>4, Hushed
            <4>6. guideJob[s].cutoff \in Int /\ guideJob[s].cutoff <= Guide!Now(guideClock)
                BY <3>3, <4>1 DEF GuideJobOK
            <4>7. guideJob[s].cutoff <= Guide!Now(now)
                <5> HIDE DEF GuideIInv, GuideStateOK
                <5> QED
                    BY <2>4, <4>6, SMT
            <4> QED
                BY <2>1, <2>2, <3>3, <4>1, <4>5, <4>6, <4>7, Zenon DEF GuideJobOK
        <3> QED
            BY <3>1, <3>2, <3>3
    <2> QED
        BY <2>1, <2>2, <2>3, <2>6
<1>4. ASSUME NEW r \in Refreshers, Guide!InsertRows(r)
      PROVE  GuideStateOK'
    <2>1. /\ guideWatched' = guideWatched /\ guideMoved' \subseteq guideComplete'
             /\ guideRankOf' = guideRankOf
             /\ guideClock' = guideClock /\ guideStored' = guideStored
          /\ guideRows' = [t \in Guide!Tables |-> guideRows'[t]]
          /\ guideJob' = [s \in Refreshers |-> guideJob'[s]]
        BY <1>4 DEF Guide!InsertRows
    <2>2. \A s \in Refreshers : GuideJobOK(s)'
        BY <1>4, <2>1 DEF Guide!InsertRows, GuideJobOK, Guide!Idle
    <2> QED
        BY <2>1, <2>2
<1>5. ASSUME NEW r \in Refreshers, Guide!DeleteRows(r)
      PROVE  GuideStateOK'
    <2>1. /\ guideWatched' = guideWatched /\ guideMoved' \subseteq guideComplete'
             /\ guideRankOf' = guideRankOf /\ guideClock' = guideClock
             /\ guideStored' = guideStored
          /\ guideRows' = [t \in Guide!Tables |-> guideRows'[t]]
          /\ guideJob' = [s \in Refreshers |-> guideJob'[s]]
        BY <1>5, Zenon DEF Guide!DeleteRows
    <2>2. ASSUME NEW s \in Refreshers
          PROVE  GuideJobOK(s)'
        <3>1. CASE s # r
            BY <1>5, <2>1, <3>1, Zenon DEF Guide!DeleteRows, GuideJobOK
        <3>2. CASE s = r /\ Tail(guideJob[r].todo) = <<>>
            BY <1>5, <3>2 DEF Guide!DeleteRows, GuideJobOK, Guide!Idle
        <3>3. CASE s = r /\ Tail(guideJob[r].todo) # <<>>
            <4>1. Tail(guideJob[r].todo) = <<guideWatched>>
                BY <1>5, <3>3, HeadKnown DEF Guide!DeleteRows
            <4>2. guideJob'[r] = [guideJob[r] EXCEPT !.todo = <<guideWatched>>, !.step = "insert"]
                BY <1>5, <3>3, <4>1, Zenon DEF Guide!DeleteRows
            <4>3. GuideJobOK(r) /\ guideJob[r] # Guide!Idle /\ guideJob[r].pending = {}
                BY <1>5 DEF Guide!DeleteRows, Guide!Idle, GuideJobOK
            <4> QED
                BY <2>1, <3>3, <4>2, <4>3 DEF GuideJobOK
        <3> QED
            BY <3>1, <3>2, <3>3
    <2> QED
        BY <2>1, <2>2
<1>6. ASSUME NEW r \in Refreshers, Guide!Repeat(r)
      PROVE  GuideStateOK'
    <2>1. \A s \in Refreshers : s # r => guideJob'[s] = guideJob[s]
        BY <1>6 DEF Guide!Repeat
    <2>2. GuideJobOK(r) /\ guideJob[r] # Guide!Idle
        BY <1>6 DEF Guide!Repeat, Guide!Idle
    <2>3. guideJob'[r] = [guideJob[r] EXCEPT !.step = "insert", !.pending = {}]
        BY <1>6 DEF Guide!Repeat
    <2>4. UNCHANGED <<guideWatched, guideClock>>
        BY <1>6 DEF Guide!Repeat
    <2>5. GuideJobOK(r)'
        BY <2>2, <2>3, <2>4 DEF GuideJobOK, Guide!Idle
    <2>6. \A s \in Refreshers : s # r => GuideJobOK(s)'
        BY <2>1, <2>4 DEF GuideJobOK
    <2> QED
        BY <1>6, <2>5, <2>6, Zenon DEF Guide!Repeat
<1>9. ASSUME NEW r \in Refreshers, Guide!ReadVariants(r)
      PROVE  GuideStateOK'
    <2>1. \A s \in Refreshers : s # r => guideJob'[s] = guideJob[s]
        BY <1>9 DEF Guide!ReadVariants
    <2>2. GuideJobOK(r) /\ guideJob[r] # Guide!Idle
        BY <1>9 DEF Guide!ReadVariants, Guide!Idle
    <2>3. PICK compiled : guideJob'[r] = [guideJob[r] EXCEPT !.pending = compiled,
              !.step = IF compiled = {} THEN "delete" ELSE "row"]
        BY <1>9 DEF Guide!ReadVariants
    <2>4. UNCHANGED <<guideWatched, guideClock>>
        BY <1>9 DEF Guide!ReadVariants
    <2>5. guideWatched = Guide!Variants
        BY <1>9, ReadsVariants
    <2>6. GuideJobOK(r)'
        BY <2>2, <2>3, <2>4, <2>5 DEF GuideJobOK, Guide!Idle
    <2>7. \A s \in Refreshers : s # r => GuideJobOK(s)'
        BY <2>1, <2>4 DEF GuideJobOK
    <2> QED
        BY <1>9, <2>6, <2>7, Zenon DEF Guide!ReadVariants
<1>10. ASSUME NEW r \in Refreshers, Guide!InsertRow(r)
      PROVE  GuideStateOK'
    <2>1. \A s \in Refreshers : s # r => guideJob'[s] = guideJob[s]
        BY <1>10 DEF Guide!InsertRow
    <2>2. GuideJobOK(r) /\ guideJob[r] # Guide!Idle
        BY <1>10 DEF Guide!InsertRow, Guide!Idle
    <2>3. PICK c \in guideJob[r].pending :
              guideJob'[r] = [guideJob[r] EXCEPT !.pending = guideJob[r].pending \ {c},
                  !.step = IF guideJob[r].pending = {c} THEN "delete" ELSE "row"]
        BY <1>10, RowInserted
    <2>4. UNCHANGED <<guideWatched, guideClock>>
        BY <1>10 DEF Guide!InsertRow
    <2>5. guideWatched = Guide!Variants
        BY <1>10, <2>2 DEF Guide!InsertRow, GuideJobOK
    <2>6. GuideJobOK(r)'
        BY <2>2, <2>3, <2>4, <2>5 DEF GuideJobOK, Guide!Idle
    <2>7. \A s \in Refreshers : s # r => GuideJobOK(s)'
        BY <2>1, <2>4 DEF GuideJobOK
    <2>8. /\ guideRows' = [t \in Guide!Tables |-> guideRows'[t]]
          /\ guideJob' = [s \in Refreshers |-> guideJob'[s]]
        BY <1>10 DEF Guide!InsertRow
    <2> QED
        BY <1>10, <2>6, <2>7, <2>8, Zenon DEF Guide!InsertRow
<1>7. ASSUME NEW r \in Refreshers, Guide!Abort(r)
      PROVE  GuideStateOK'
    BY <1>7 DEF Guide!Abort, GuideJobOK, Guide!Idle
<1>8. CASE UNCHANGED Guide!vars
    BY <1>8 DEF Guide!vars, GuideJobOK
<1> QED
    BY <1>1, <1>2, <1>3, <1>4, <1>5, <1>6, <1>7, <1>8, <1>9, <1>10, Zenon DEF Guide!Next

-----------------------------------------------------------------------------
(* The rows *)

LEMMA Inserted ==
    ASSUME GuideStateOK, NEW r \in Refreshers, Guide!InsertRows(r)
    PROVE  /\ Head(guideJob[r].todo) \in Guide!Tables
           /\ \A u \in Guide!Tables : u # Head(guideJob[r].todo) => guideRows'[u] = guideRows[u]
           /\ guideRows'[Head(guideJob[r].todo)] = Guide!Insert(Head(guideJob[r].todo),
              Guide!Now(guideClock))
<1>1. Head(guideJob[r].todo) \in Guide!Tables
    BY HeadKnown DEF Guide!InsertRows
<1> QED
    BY <1>1 DEF Guide!InsertRows, GuideStateOK

LEMMA Deleted ==
    ASSUME GuideStateOK, NEW r \in Refreshers, Guide!DeleteRows(r)
    PROVE  /\ Head(guideJob[r].todo) \in Guide!Tables
           /\ \A u \in Guide!Tables : u # Head(guideJob[r].todo) => guideRows'[u] = guideRows[u]
           /\ guideRows'[Head(guideJob[r].todo)]
                 = {w \in guideRows[Head(guideJob[r].todo)] : ~(w.at < guideJob[r].cutoff)}
<1>1. Head(guideJob[r].todo) \in Guide!Tables
    BY HeadKnown DEF Guide!DeleteRows
<1> QED
    BY <1>1 DEF Guide!DeleteRows, Guide!DeleteRowsBefore, GuideStateOK

\* The rows of a table after one of them is inserted.
LEMMA VariantKnown ==
    ASSUME NEW c, NEW at
    PROVE  \E n : /\ n.at = at /\ n.key = c.key /\ n.games = c.games /\ n.joined = {}
                  /\ Guide!InsertVariant(c, at)
                        = {w \in guideRows[Guide!Variants] : ~ (n.key = w.key /\ n.at = w.at)}
                             \union {n}
<1> DEFINE n == [at |-> at, key |-> c.key, games |-> c.games, joined |-> {}]
<1>1. n.at = at /\ n.key = c.key /\ n.games = c.games /\ n.joined = {}
    OBVIOUS
<1>2. Guide!InsertVariant(c, at) = Guide!Replaced(guideRows[Guide!Variants], {n})
    BY Zenon DEF Guide!InsertVariant
<1> HIDE DEF n
<1>3. Guide!InsertVariant(c, at)
          = {w \in guideRows[Guide!Variants] : ~ (n.key = w.key /\ n.at = w.at)} \union {n}
    BY <1>2 DEF Guide!Replaced
<1> QED
    BY <1>1, <1>3, Zenon

LEMMA ClockKnown ==
    ASSUME Guide!GuideAssumption, GuideStateOK
    PROVE  Guide!Now(guideClock) \in Int
BY WholeSeconds, guideClock <= guideClock DEF GuideStateOK

\* After these statements of one refresh only the others have rows to come.
LEMMA OnlyTheOthers ==
    ASSUME GuideStateOK, NEW r \in Refreshers,
           Guide!InsertRows(r) \/ Guide!DeleteRows(r) \/ Guide!Repeat(r) \/ Guide!Abort(r)
    PROVE  \A s \in Refreshers : guideJob'[s].step = "row" =>
              guideJob[s].step = "row" /\ guideJob'[s].pending = guideJob[s].pending
<1>1. \A s \in Refreshers : s # r => guideJob'[s] = guideJob[s]
    BY Zenon DEF Guide!InsertRows, Guide!DeleteRows, Guide!Repeat, Guide!Abort, GuideStateOK
<1>2. GuideJobOK(r) /\ guideJob[r] # Guide!Idle
    <2>1. CASE Guide!Abort(r)
        BY <2>1 DEF Guide!Abort, GuideStateOK
    <2>2. CASE Guide!InsertRows(r) \/ Guide!DeleteRows(r) \/ Guide!Repeat(r)
        BY <2>2 DEF Guide!InsertRows, Guide!DeleteRows, Guide!Repeat, GuideStateOK, Guide!Idle
    <2> QED
        BY <2>1, <2>2
<1>3. DOMAIN guideJob[r] = {"step", "todo", "pending", "cutoff", "quiet", "spaced"}
    BY <1>2 DEF GuideJobOK
<1>4. CASE Guide!InsertRows(r)
    BY <1>1, <1>3, <1>4 DEF Guide!InsertRows, GuideStateOK
<1>5. CASE Guide!DeleteRows(r)
    <2>1. CASE Tail(guideJob[r].todo) = <<>>
        BY <1>1, <1>5, <2>1 DEF Guide!DeleteRows, GuideStateOK, Guide!Idle
    <2>2. CASE Tail(guideJob[r].todo) # <<>>
        BY <1>1, <1>3, <1>5, <2>2 DEF Guide!DeleteRows, GuideStateOK
    <2> QED
        BY <2>1, <2>2
<1>6. CASE Guide!Repeat(r)
    BY <1>1, <1>3, <1>6 DEF Guide!Repeat, GuideStateOK
<1>7. CASE Guide!Abort(r)
    BY <1>1, <1>7 DEF Guide!Abort, GuideStateOK, Guide!Idle
<1> QED
    BY <1>4, <1>5, <1>6, <1>7

\* What a refresh knows after it has read the variants.
LEMMA JobAfterRead ==
    ASSUME GuideStateOK, NEW r \in Refreshers, Guide!ReadVariants(r)
    PROVE  /\ \A s \in Refreshers : s # r => guideJob'[s] = guideJob[s]
           /\ guideJob'[r].pending = Guide!Compiled(Guide!Variants, guideStored)
           /\ guideJob'[r].cutoff = guideJob[r].cutoff /\ guideJob'[r].quiet = guideJob[r].quiet
           /\ guideJob'[r].todo = guideJob[r].todo
           /\ guideJob'[r].step
                 = IF Guide!Compiled(Guide!Variants, guideStored) = {} THEN "delete" ELSE "row"
<1> DEFINE compiled == Guide!Compiled(Guide!Variants, guideStored)
<1>1. GuideJobOK(r) /\ guideJob[r] # Guide!Idle
    BY DEF Guide!ReadVariants, GuideStateOK, Guide!Idle
<1>2. DOMAIN guideJob[r] = {"step", "todo", "pending", "cutoff", "quiet", "spaced"}
    BY <1>1 DEF GuideJobOK
<1>3. /\ \A s \in Refreshers : s # r => guideJob'[s] = guideJob[s]
      /\ guideJob'[r] = [guideJob[r] EXCEPT !.pending = compiled,
             !.step = IF compiled = {} THEN "delete" ELSE "row"]
    BY DEF Guide!ReadVariants, GuideStateOK
<1> HIDE DEF compiled
<1>4. /\ guideJob'[r].pending = compiled /\ guideJob'[r].todo = guideJob[r].todo
      /\ guideJob'[r].cutoff = guideJob[r].cutoff /\ guideJob'[r].quiet = guideJob[r].quiet
      /\ guideJob'[r].step = IF compiled = {} THEN "delete" ELSE "row"
    BY <1>2, <1>3
<1> QED
    BY <1>3, <1>4 DEF compiled

\* A refresh that has only been hushed has the same rows to come.
LEMMA StillToCome ==
    ASSUME GuideStateOK, NEW s \in Refreshers,
           guideJob'[s] = IF s \in Guide!Active THEN [guideJob[s] EXCEPT !.quiet = FALSE]
               ELSE guideJob[s]
    PROVE  /\ guideJob'[s].step = guideJob[s].step
           /\ guideJob[s].step # "idle" =>
                /\ guideJob'[s].pending = guideJob[s].pending
                /\ guideJob'[s].cutoff = guideJob[s].cutoff
                /\ guideJob'[s].quiet = FALSE
<1>1. CASE s \in Guide!Active
    <2>1. DOMAIN guideJob[s] = {"step", "todo", "pending", "cutoff", "quiet", "spaced"}
        BY <1>1 DEF GuideStateOK, GuideJobOK, Guide!Active, Guide!Idle
    <2> QED
        BY <1>1, <2>1, Hushed
<1>2. CASE s \notin Guide!Active
    BY <1>2 DEF Guide!Active
<1> QED
    BY <1>1, <1>2

LEMMA StepGuideRows ==
    ASSUME Guide!GuideAssumption, GuideIInv, [Guide!Next]_(Guide!vars)
    PROVE  GuideRowsOK'
<1> USE DEF GuideIInv
<1>1. ASSUME NEW g \in Games, Guide!Store(g)
      PROVE  GuideRowsOK'
    <2>1. /\ guideWatched' = guideWatched /\ guideClock' = guideClock /\ guideRows' = guideRows
             /\ guideComplete' = guideComplete
          /\ guideStored \subseteq guideStored'
        BY <1>1 DEF Guide!Store
    <2>2. Covered \subseteq Covered'
        BY <2>1 DEF Covered
    <2>3. \A r \in Refreshers : guideJob'[r].step = "row" =>
            guideJob[r].step = "row" /\ guideJob'[r].pending = guideJob[r].pending
        BY <1>1, StillToCome, Zenon DEF Guide!Store
    <2> QED
        BY <2>1, <2>2, <2>3 DEF GuideRowsOK
<1>2. ASSUME NEW g \in Games, Guide!Promote(g)
      PROVE  GuideRowsOK'
    <2>1. UNCHANGED <<guideWatched, guideClock, guideRows, guideStored, guideComplete>>
        BY <1>2 DEF Guide!Promote
    <2>2. \A r \in Refreshers : guideJob'[r].step = "row" =>
            guideJob[r].step = "row" /\ guideJob'[r].pending = guideJob[r].pending
        BY <1>2, StillToCome, Zenon DEF Guide!Promote
    <2> QED
        BY <2>1, <2>2 DEF GuideRowsOK, Covered, Guide!Now
<1>3. ASSUME NEW r \in Refreshers, Guide!StartRefresh(r)
      PROVE  GuideRowsOK'
    <2>1. /\ guideWatched' = guideWatched /\ guideRows' = guideRows
             /\ guideComplete' = guideComplete
          /\ guideStored' = guideStored
        BY <1>3 DEF Guide!StartRefresh
    <2>2. guideClock' \in Nat /\ guideClock <= guideClock' /\ guideClock \in Nat
        <3>1. guideClock' = guideClock + 1 \/ guideClock' = guideClock + Pause
            BY <1>3 DEF Guide!StartRefresh
        <3> QED
            BY <3>1, Guide!GuideAssumption DEF Guide!GuideAssumption, GuideStateOK
    <2>3. Guide!Now(guideClock) <= Guide!Now(guideClock') /\ Guide!Now(guideClock) \in Int
          /\ Guide!Now(guideClock') \in Int
        BY <2>2, WholeSeconds
    <2>4. ASSUME NEW t \in Guide!Tables, NEW w \in guideRows[t]
          PROVE  w.at \in Int /\ w.at <= Guide!Now(guideClock')
        <3>1. w.at \in Int /\ w.at <= Guide!Now(guideClock)
            BY DEF GuideRowsOK
        <3> HIDE DEF GuideIInv
        <3> QED
            BY <2>3, <3>1, SMT
    <2>5. Guide!Now(guideClock)' = Guide!Now(guideClock')
        BY DEF Guide!Now
    <2>6. ASSUME NEW s \in Refreshers, guideJob'[s].step = "row"
          PROVE  guideJob[s].step = "row" /\ guideJob'[s].pending = guideJob[s].pending
        <3>1. s # r
            BY <1>3, <2>6 DEF Guide!StartRefresh
        <3>2. guideJob'[s] = IF s \in Guide!Active THEN [guideJob[s] EXCEPT !.quiet = FALSE]
                  ELSE guideJob[s]
            BY <1>3, <3>1 DEF Guide!StartRefresh
        <3> QED
            BY <2>6, <3>2, StillToCome
    <2> QED
        BY <2>1, <2>4, <2>5, <2>6 DEF GuideRowsOK, Covered
<1>4. ASSUME NEW r \in Refreshers, Guide!InsertRows(r)
      PROVE  GuideRowsOK'
    <2> DEFINE t == Head(guideJob[r].todo)
               at == Guide!Now(guideClock)
    <2>1. /\ guideWatched' = guideWatched /\ guideClock' = guideClock
             /\ guideComplete' = guideComplete
          /\ guideStored' = guideStored
        BY <1>4 DEF Guide!InsertRows
    <2>2. /\ t \in Guide!Tables
          /\ \A u \in Guide!Tables : u # t => guideRows'[u] = guideRows[u]
          /\ guideRows'[t] = Guide!Insert(t, at)
        BY <1>4, Inserted
    <2>3. at \in Int /\ at <= at
        BY ClockKnown
    <2>4. \A w \in guideRows[t] : w.at \in Int /\ w.at <= at
        BY <2>2 DEF GuideRowsOK
    <2>5. \A w \in Guide!Insert(t, at) :
              \/ w \in guideRows[t]
              \/ w.at = at /\ w.games \subseteq {g \in guideStored : g \in CountedBy(t)}
        BY <2>2, <2>3, <2>4, InsertCovers DEF GuideStateOK
    <2>6. Guide!Now(guideClock)' = at
        BY <2>1 DEF Guide!Now
    <2>7. Covered' = Covered
        BY <2>1 DEF Covered
    <2> HIDE DEF t, at
    <2>8. ASSUME NEW u \in Guide!Tables, NEW w \in guideRows'[u]
          PROVE  w.at \in Int /\ w.at <= at
        <3>1. CASE u # t
            BY <2>2, <3>1 DEF GuideRowsOK, at
        <3>2. CASE u = t
            BY <2>2, <2>3, <2>4, <2>5, <3>2
        <3> QED
            BY <3>1, <3>2
    <2>9. ASSUME NEW w \in guideRows'[guideWatched]
          PROVE  w.games \subseteq Covered
        <3>1. CASE guideWatched # t
            BY <2>2, <3>1 DEF GuideRowsOK, GuideStateOK
        <3>2. CASE guideWatched = t
            BY <2>2, <2>5, <3>2 DEF GuideRowsOK, Covered
        <3> QED
            BY <3>1, <3>2
    <2>10. \A s \in Refreshers : guideJob'[s].step = "row" =>
            guideJob[s].step = "row" /\ guideJob'[s].pending = guideJob[s].pending
        BY <1>4, OnlyTheOthers DEF Guide!InsertRows
    <2> QED
        BY <2>1, <2>6, <2>7, <2>8, <2>9, <2>10 DEF GuideRowsOK
<1>5. ASSUME NEW r \in Refreshers, Guide!DeleteRows(r)
      PROVE  GuideRowsOK'
    <2>1. /\ guideWatched' = guideWatched /\ guideClock' = guideClock
             /\ guideStored' = guideStored
          /\ \/ guideComplete' = guideComplete
             \/ guideComplete' = UNION {c.games : c \in Guide!Compiled(guideWatched, guideStored)}
        BY <1>5 DEF Guide!DeleteRows
    <2>2. /\ Head(guideJob[r].todo) \in Guide!Tables
          /\ \A u \in Guide!Tables : u # Head(guideJob[r].todo) => guideRows'[u] = guideRows[u]
          /\ guideRows'[Head(guideJob[r].todo)]
                 = {w \in guideRows[Head(guideJob[r].todo)] : ~(w.at < guideJob[r].cutoff)}
        BY <1>5, Deleted
    <2>3. \A u \in Guide!Tables : guideRows'[u] \subseteq guideRows[u]
        BY <2>2
    <2>4. guideComplete' \subseteq Covered
        BY <2>1, Groups DEF GuideRowsOK, GuideStateOK, Covered
    <2>5. \A s \in Refreshers : guideJob'[s].step = "row" =>
            guideJob[s].step = "row" /\ guideJob'[s].pending = guideJob[s].pending
        BY <1>5, OnlyTheOthers
    <2> QED
        BY <2>1, <2>3, <2>4, <2>5 DEF GuideRowsOK, GuideStateOK, Covered, Guide!Now
<1>6. ASSUME NEW r \in Refreshers, Guide!Repeat(r)
      PROVE  GuideRowsOK'
    <2>1. \A s \in Refreshers : guideJob'[s].step = "row" =>
            guideJob[s].step = "row" /\ guideJob'[s].pending = guideJob[s].pending
        BY <1>6, OnlyTheOthers
    <2> QED
        BY <1>6, <2>1 DEF Guide!Repeat, GuideRowsOK, Covered, Guide!Now
<1>7. ASSUME NEW r \in Refreshers, Guide!Abort(r)
      PROVE  GuideRowsOK'
    <2>1. \A s \in Refreshers : guideJob'[s].step = "row" =>
            guideJob[s].step = "row" /\ guideJob'[s].pending = guideJob[s].pending
        BY <1>7, OnlyTheOthers
    <2> QED
        BY <1>7, <2>1 DEF Guide!Abort, GuideRowsOK, Covered, Guide!Now
<1>9. ASSUME NEW r \in Refreshers, Guide!ReadVariants(r)
      PROVE  GuideRowsOK'
    <2>1. UNCHANGED <<guideWatched, guideClock, guideRows, guideStored, guideComplete>>
        BY <1>9 DEF Guide!ReadVariants
    <2>2. guideWatched = Guide!Variants
        BY <1>9, ReadsVariants
    <2>3. UNION {c.games : c \in Guide!Compiled(Guide!Variants, guideStored)} = Covered
        BY <2>2, Groups DEF GuideStateOK, Covered
    <2>4. \A s \in Refreshers : guideJob'[s].step = "row" =>
            \/ guideJob[s].step = "row" /\ guideJob'[s].pending = guideJob[s].pending
            \/ guideJob'[s].pending = Guide!Compiled(Guide!Variants, guideStored)
        BY <1>9, JobAfterRead
    <2>5. Covered' = Covered
        BY <2>1 DEF Covered
    <2> QED
        BY <2>1, <2>3, <2>4, <2>5 DEF GuideRowsOK, Guide!Now
<1>10. ASSUME NEW r \in Refreshers, Guide!InsertRow(r)
      PROVE  GuideRowsOK'
    <2> DEFINE at == Guide!Now(guideClock)
    <2>1. UNCHANGED <<guideWatched, guideClock, guideStored, guideComplete>>
        BY <1>10 DEF Guide!InsertRow
    <2>2. /\ Guide!Variants \in Guide!Tables /\ guideWatched = Guide!Variants
          /\ GuideJobOK(r) /\ guideJob[r].step = "row"
          /\ \A u \in Guide!Tables : u # Guide!Variants => guideRows'[u] = guideRows[u]
        BY <1>10, RowInserted
    <2>3. PICK c \in guideJob[r].pending :
              /\ guideRows'[Guide!Variants] = Guide!InsertVariant(c, at)
              /\ guideJob'[r] = [guideJob[r] EXCEPT !.pending = guideJob[r].pending \ {c},
                    !.step = IF guideJob[r].pending = {c} THEN "delete" ELSE "row"]
        BY <1>10, RowInserted
    <2>4. PICK n : /\ n.at = at /\ n.games = c.games
                   /\ guideRows'[Guide!Variants]
                         = {w \in guideRows[Guide!Variants] : ~ (n.key = w.key /\ n.at = w.at)}
                              \union {n}
        BY <2>3, VariantKnown
    <2>5. at \in Int /\ at <= at
        BY ClockKnown
    <2>6. Guide!Now(guideClock)' = at /\ Covered' = Covered
        BY <2>1 DEF Guide!Now, Covered
    <2>7. c.games \subseteq Covered
        BY <2>2 DEF GuideRowsOK
    <2>8. \A s \in Refreshers : guideJob'[s].step = "row" =>
            guideJob[s].step = "row" /\ guideJob'[s].pending \subseteq guideJob[s].pending
        <3>1. \A s \in Refreshers : s # r => guideJob'[s] = guideJob[s]
            BY <1>10 DEF Guide!InsertRow, GuideStateOK
        <3>2. DOMAIN guideJob[r] = {"step", "todo", "pending", "cutoff", "quiet", "spaced"}
            BY <2>2 DEF GuideJobOK, Guide!Idle
        <3>3. guideJob'[r].pending = guideJob[r].pending \ {c}
            BY <2>3, <3>2
        <3> QED
            BY <2>2, <3>1, <3>3
    <2> HIDE DEF at
    <2>9. \A u \in Guide!Tables : \A w \in guideRows'[u] : w \in guideRows[u] \/ w = n
        BY <2>2, <2>4
    <2> QED
        BY <2>1, <2>2, <2>4, <2>5, <2>6, <2>7, <2>8, <2>9 DEF GuideRowsOK, at
<1>8. CASE UNCHANGED Guide!vars
    BY <1>8 DEF Guide!vars, GuideRowsOK, Covered, Guide!Now
<1> QED
    BY <1>1, <1>2, <1>3, <1>4, <1>5, <1>6, <1>7, <1>8, <1>9, <1>10 DEF Guide!Next

-----------------------------------------------------------------------------
(* Quiet refreshes *)

LEMMA StepGuideAlone ==
    ASSUME Guide!GuideAssumption, GuideIInv, [Guide!Next]_(Guide!vars)
    PROVE  GuideQuietIsAlone'
<1> USE DEF GuideIInv
<1> SUFFICES ASSUME NEW s \in Refreshers, GuideBusy(s)', guideJob'[s].quiet
             PROVE  Guide!Active' = {s}
    BY DEF GuideQuietIsAlone
<1>0. \A q \in Refreshers : q \in Guide!Active <=> GuideBusy(q)
    BY DEF Guide!Active, GuideBusy
<1>00. Guide!Active' = {q \in Refreshers : GuideBusy(q)'}
    BY DEF Guide!Active, GuideBusy
<1>1. ASSUME NEW g \in Games, Guide!Store(g) \/ Guide!Promote(g)
      PROVE  FALSE
    <2>1. guideJob'[s] = IF s \in Guide!Active THEN [guideJob[s] EXCEPT !.quiet = FALSE]
              ELSE guideJob[s]
        BY <1>1 DEF Guide!Store, Guide!Promote
    <2>2. CASE s \in Guide!Active
        <3>1. GuideJobOK(s) /\ guideJob[s] # Guide!Idle
            BY <2>2 DEF GuideStateOK, Guide!Active, Guide!Idle
        <3> QED
            BY <2>1, <2>2, <3>1, Hushed DEF GuideJobOK
    <2>3. CASE s \notin Guide!Active
        BY <1>0, <2>1, <2>3 DEF GuideBusy
    <2> QED
        BY <2>2, <2>3
<1>3. ASSUME NEW r \in Refreshers, Guide!StartRefresh(r)
      PROVE  Guide!Active' = {s}
    <2>1. PICK now \in {guideClock + 1, guideClock + Pause} :
              guideJob' = [q \in Refreshers |->
                    IF q = r
                    THEN [step |-> "insert", todo |-> Guide!Todo, pending |-> {}, cutoff |-> Guide!Cutoff(now),
                          quiet |-> Guide!Active = {},
                          spaced |-> \A t \in Guide!Tables : \A w \in guideRows[t] :
                              w.at < Guide!Cutoff(now)]
                    ELSE IF q \in Guide!Active THEN [guideJob[q] EXCEPT !.quiet = FALSE]
                        ELSE guideJob[q]]
        BY <1>3, Zenon DEF Guide!StartRefresh
    <2>2. s = r
        <3> SUFFICES ASSUME s # r PROVE FALSE
            OBVIOUS
        <3>1. guideJob'[s] = IF s \in Guide!Active THEN [guideJob[s] EXCEPT !.quiet = FALSE] ELSE guideJob[s]
            BY <2>1
        <3>2. CASE s \in Guide!Active
            <4>1. GuideJobOK(s) /\ guideJob[s] # Guide!Idle
                BY <3>2 DEF GuideStateOK, Guide!Active, Guide!Idle
            <4> QED
                BY <3>1, <3>2, <4>1, Hushed DEF GuideJobOK
        <3>3. CASE s \notin Guide!Active
            BY <1>0, <3>1, <3>3 DEF GuideBusy
        <3> QED
            BY <3>2, <3>3
    <2>3. Guide!Active = {}
        BY <2>1, <2>2, Zenon
    <2>4. ASSUME NEW q \in Refreshers, q # s
          PROVE  ~ GuideBusy(q)'
        BY <1>0, <2>1, <2>2, <2>3, <2>4 DEF GuideBusy
    <2> QED
        BY <1>00, <2>4
<1>4. ASSUME NEW r \in Refreshers,
             \/ Guide!InsertRows(r) \/ Guide!ReadVariants(r) \/ Guide!InsertRow(r)
             \/ Guide!DeleteRows(r) \/ Guide!Repeat(r) \/ Guide!Abort(r)
      PROVE  Guide!Active' = {s}
    <2>1. \A q \in Refreshers : q # r => guideJob'[q] = guideJob[q]
        BY <1>4, Zenon DEF Guide!InsertRows, Guide!ReadVariants, Guide!InsertRow,
           Guide!DeleteRows, Guide!Repeat, Guide!Abort, GuideStateOK
    <2>2. GuideJobOK(r) /\ GuideBusy(r)
        <3>1. CASE Guide!Abort(r)
            BY <3>1, Zenon DEF Guide!Abort, GuideStateOK, GuideBusy, GuideJobOK
        <3>2. CASE \/ Guide!InsertRows(r) \/ Guide!ReadVariants(r) \/ Guide!InsertRow(r)
                   \/ Guide!DeleteRows(r) \/ Guide!Repeat(r)
            BY <3>2 DEF Guide!InsertRows, Guide!ReadVariants, Guide!InsertRow,
               Guide!DeleteRows, Guide!Repeat, GuideStateOK, GuideBusy
        <3> QED
            BY <1>4, <3>1, <3>2
    <2>3. s = r => guideJob[s].quiet
        <3> SUFFICES ASSUME s = r PROVE guideJob[r].quiet
            OBVIOUS
        <3>1. DOMAIN guideJob[r] = {"step", "todo", "pending", "cutoff", "quiet", "spaced"}
            BY <2>2 DEF GuideJobOK, GuideBusy, Guide!Idle
        <3>2. CASE Guide!InsertRows(r)
            BY <3>1, <3>2, Zenon DEF Guide!InsertRows, GuideStateOK
        <3>5. CASE Guide!Repeat(r)
            BY <3>1, <3>5 DEF Guide!Repeat, GuideStateOK
        <3>6. CASE Guide!ReadVariants(r)
            BY <3>6, JobAfterRead
        <3>7. CASE Guide!InsertRow(r)
            <4>1. PICK c : guideJob'[r]
                      = [guideJob[r] EXCEPT !.pending = guideJob[r].pending \ {c},
                           !.step = IF guideJob[r].pending = {c} THEN "delete" ELSE "row"]
                BY <3>7, RowInserted
            <4> QED
                BY <3>1, <4>1
        <3>3. CASE Guide!Abort(r)
            BY <3>3 DEF Guide!Abort, GuideStateOK, GuideBusy, Guide!Idle
        <3>4. CASE Guide!DeleteRows(r)
            <4>1. CASE Tail(guideJob[r].todo) = <<>>
                BY <3>4, <4>1 DEF Guide!DeleteRows, GuideStateOK, GuideBusy, Guide!Idle
            <4>2. CASE Tail(guideJob[r].todo) # <<>>
                <5>1. guideJob'[r] = [[guideJob[r] EXCEPT !.todo = Tail(guideJob[r].todo)]
                                         EXCEPT !.step = "insert"]
                    BY <3>4, <4>2 DEF Guide!DeleteRows, GuideStateOK
                <5> QED
                    BY <5>1, <3>1
            <4> QED
                BY <4>1, <4>2
        <3> QED
            BY <1>4, <3>2, <3>3, <3>4, <3>5, <3>6, <3>7
    <2>4. s # r => guideJob[s].quiet /\ GuideBusy(s)
        BY <2>1 DEF GuideBusy
    <2>5. Guide!Active = {s}
        BY <2>2, <2>3, <2>4 DEF GuideQuietIsAlone
    <2>6. s = r
        BY <1>0, <2>2, <2>5
    <2> QED
        BY <1>0, <1>00, <2>1, <2>5, <2>6 DEF GuideBusy
<1>8. CASE UNCHANGED Guide!vars
    BY <1>8 DEF Guide!vars, GuideQuietIsAlone, GuideBusy, Guide!Active
<1> QED
    BY <1>1, <1>3, <1>4, <1>8 DEF Guide!Next

-----------------------------------------------------------------------------
(* What readers are owed *)

\* A refresh that has only been hushed is owed what it was owed.
LEMMA HushedServed ==
    ASSUME GuideStateOK, TablesServed, NEW s \in Refreshers,
           guideWatched' = guideWatched, guideRows' = guideRows, guideComplete' = guideComplete,
           guideJob'[s] = IF s \in Guide!Active THEN [guideJob[s] EXCEPT !.quiet = FALSE]
               ELSE guideJob[s],
           AtLast(s)'
    PROVE  /\ guideComplete' \subseteq From(guideRows[guideWatched], guideJob[s].cutoff)'
           /\ guideJob'[s].quiet
              => Covered' \subseteq From(guideRows[guideWatched], guideJob[s].cutoff)'
<1>1. CASE s \in Guide!Active
    <2>1. DOMAIN guideJob[s] = {"step", "todo", "pending", "cutoff", "quiet", "spaced"}
        BY <1>1 DEF GuideStateOK, GuideJobOK, Guide!Active, Guide!Idle
    <2>2. /\ guideJob'[s].step = guideJob[s].step /\ guideJob'[s].todo = guideJob[s].todo
          /\ guideJob'[s].cutoff = guideJob[s].cutoff /\ guideJob'[s].quiet = FALSE
        BY <1>1, <2>1, Hushed
    <2>3. AtLast(s)
        BY <2>2 DEF AtLast
    <2>4. guideComplete \subseteq From(guideRows[guideWatched], guideJob[s].cutoff)
        BY <2>3 DEF TablesServed
    <2> QED
        BY <2>2, <2>4 DEF From
<1>2. CASE s \notin Guide!Active
    <2>1. guideJob[s].step = "idle"
        BY <1>2 DEF Guide!Active
    <2> QED
        BY <1>2, <2>1 DEF AtLast
<1> QED
    BY <1>1, <1>2

LEMMA StampsKnown ==
    ASSUME GuideIInv
    PROVE  Stamped(guideRows[guideWatched])
BY DEF GuideIInv, GuideStateOK, GuideRowsOK, Stamped

\* The rows of the watched table after a deletion in it.
LEMMA WatchedDeleted ==
    ASSUME GuideIInv, NEW r \in Refreshers, Guide!DeleteRows(r), Head(guideJob[r].todo) =
               guideWatched
    PROVE  /\ AtLast(r) /\ guideJob[r].cutoff \in Int
           /\ guideRows'[guideWatched] = {w \in guideRows[guideWatched] :
                  ~(w.at < guideJob[r].cutoff)}
           /\ \A W : W \subseteq From(guideRows[guideWatched], guideJob[r].cutoff)
                     => W \subseteq Guide!Counted(guideRows'[guideWatched])
           /\ guideJob' = [guideJob EXCEPT ![r] = Guide!Idle]
<1>1. GuideStateOK /\ guideJob[r].step = "delete"
    BY DEF GuideIInv, Guide!DeleteRows
<1>2. guideJob[r].todo = <<guideWatched>> /\ Tail(guideJob[r].todo) = <<>>
    BY <1>1, HeadKnown
<1>3. guideJob[r].cutoff \in Int
    BY <1>1 DEF GuideStateOK, GuideJobOK, Guide!Idle
<1>4. guideRows'[guideWatched] = {w \in guideRows[guideWatched] : ~(w.at < guideJob[r].cutoff)}
    BY <1>1, Deleted
<1>5. guideJob[r].cutoff >= guideJob[r].cutoff
    BY <1>3
<1>6. From(guideRows[guideWatched], guideJob[r].cutoff) \subseteq From(guideRows'[guideWatched],
      guideJob[r].cutoff)
    BY <1>3, <1>4, <1>5, StampsKnown, DeleteKeeps
<1>7. From(guideRows'[guideWatched],
      guideJob[r].cutoff) \subseteq Guide!Counted(guideRows'[guideWatched])
    BY FromIsCounted
<1>8. guideJob' = [guideJob EXCEPT ![r] = Guide!Idle]
    BY <1>2 DEF Guide!DeleteRows
<1> QED
    BY <1>1, <1>2, <1>3, <1>4, <1>6, <1>7, <1>8 DEF AtLast

LEMMA StepTablesServed ==
    ASSUME Guide!GuideAssumption, GuideIInv, [Guide!Next]_(Guide!vars),
           guideWatched # Guide!Variants
    PROVE  TablesServed'
<1> USE DEF GuideIInv
<1>0. TablesServed
    BY DEF GuideReadersServed
<1>1. ASSUME NEW g \in Games, Guide!Store(g) \/ Guide!Promote(g)
      PROVE  TablesServed'
    <2>1. /\ guideWatched' = guideWatched /\ guideRows' = guideRows
             /\ guideComplete' = guideComplete
          /\ \A s \in Refreshers :
                guideJob'[s] = IF s \in Guide!Active THEN [guideJob[s] EXCEPT !.quiet = FALSE] ELSE guideJob[s]
        BY <1>1, Zenon DEF Guide!Store, Guide!Promote
    <2>2. guideComplete' \subseteq Guide!Counted(guideRows[guideWatched])'
        BY <2>1, <1>0 DEF TablesServed, Guide!Counted, Guide!Final
    <2> QED
        BY <2>1, <2>2, HushedServed, <1>0, Zenon DEF TablesServed
<1>3. ASSUME NEW r \in Refreshers, Guide!StartRefresh(r)
      PROVE  TablesServed'
    <2>1. PICK now \in {guideClock + 1, guideClock + Pause} :
              guideJob' = [q \in Refreshers |->
                    IF q = r
                    THEN [step |-> "insert", todo |-> Guide!Todo, pending |-> {}, cutoff |-> Guide!Cutoff(now),
                          quiet |-> Guide!Active = {},
                          spaced |-> \A t \in Guide!Tables : \A w \in guideRows[t] :
                              w.at < Guide!Cutoff(now)]
                    ELSE IF q \in Guide!Active THEN [guideJob[q] EXCEPT !.quiet = FALSE]
                        ELSE guideJob[q]]
        BY <1>3, Zenon DEF Guide!StartRefresh
    <2>2. guideWatched' = guideWatched /\ guideRows' = guideRows /\ guideComplete' = guideComplete
        BY <1>3 DEF Guide!StartRefresh
    <2>3. guideComplete' \subseteq Guide!Counted(guideRows[guideWatched])'
        BY <2>2, <1>0 DEF TablesServed, Guide!Counted, Guide!Final
    <2>4. guideJob'[r].step = "insert"
        BY <2>1
    <2>5. \A s \in Refreshers : s # r =>
            guideJob'[s] = IF s \in Guide!Active THEN [guideJob[s] EXCEPT !.quiet = FALSE]
                ELSE guideJob[s]
        BY <2>1
    <2>6. ASSUME NEW s \in Refreshers, AtLast(s)'
          PROVE  /\ guideComplete' \subseteq From(guideRows[guideWatched], guideJob[s].cutoff)'
                 /\ guideJob'[s].quiet
                    => Covered' \subseteq From(guideRows[guideWatched], guideJob[s].cutoff)'
        <3>1. s # r
            BY <2>4, <2>6 DEF AtLast
        <3> QED
            BY <1>0, <2>2, <2>5, <2>6, <3>1, HushedServed, Zenon
    <2> QED
        BY <2>3, <2>6, <1>0 DEF TablesServed
<1>4. ASSUME NEW r \in Refreshers, Guide!InsertRows(r)
      PROVE  TablesServed'
    <2> DEFINE t == Head(guideJob[r].todo)
               at == Guide!Now(guideClock)
    <2>1. /\ guideWatched' = guideWatched /\ guideComplete' = guideComplete
             /\ guideStored' = guideStored
          /\ Covered' = Covered
        BY <1>4 DEF Guide!InsertRows, Covered
    <2>2. /\ t \in Guide!Tables
          /\ \A u \in Guide!Tables : u # t => guideRows'[u] = guideRows[u]
          /\ guideRows'[t] = Guide!Insert(t, at)
        BY <1>4, Inserted
    <2>3. \A s \in Refreshers : s # r => guideJob'[s] = guideJob[s]
        BY <1>4 DEF Guide!InsertRows, GuideStateOK
    <2>4. GuideJobOK(r) /\ guideJob[r] # Guide!Idle
        BY <1>4 DEF Guide!InsertRows, GuideStateOK, Guide!Idle
    <2>5. /\ guideJob'[r].todo = guideJob[r].todo /\ guideJob'[r].cutoff = guideJob[r].cutoff
          /\ guideJob'[r].quiet = guideJob[r].quiet
        BY <1>4, <2>4 DEF Guide!InsertRows, GuideStateOK, GuideJobOK
    <2>6. CASE t = guideWatched
        <3>1. at \in Int /\ at <= at /\ \A w \in guideRows[t] : w.at \in Int /\ w.at <= at
            BY <2>2, ClockKnown DEF GuideRowsOK
        <3>2. Covered \subseteq From(guideRows'[guideWatched], at)
            BY <2>2, <2>6, <3>1, InsertCovers DEF GuideStateOK, Covered
        <3>3. Stamped(guideRows'[guideWatched])
            <4>1. \A w \in Guide!Insert(t, at) : w \in guideRows[t] \/ w.at = at
                BY <2>2, <3>1, InsertCovers DEF GuideStateOK
            <4> QED
                BY <2>2, <2>6, <3>1, <4>1 DEF Stamped
        <3>4. ASSUME NEW s \in Refreshers, AtLast(s)'
              PROVE  Covered \subseteq From(guideRows'[guideWatched], guideJob'[s].cutoff)
            <4>1. guideJob'[s].cutoff = guideJob[s].cutoff /\ GuideBusy(s)
                BY <1>4, <2>3, <2>5, <3>4 DEF AtLast, GuideBusy, Guide!InsertRows
            <4>2. guideJob[s].cutoff \in Int /\ guideJob[s].cutoff <= at
                BY <4>1 DEF GuideStateOK, GuideJobOK, GuideBusy, Guide!Idle
            <4> QED
                BY <3>1, <3>2, <3>3, <4>1, <4>2, FromShrinks
        <3>5. guideComplete \subseteq Covered
            BY DEF GuideRowsOK
        <3>6. Covered \subseteq Guide!Counted(guideRows'[guideWatched])
            BY <3>2, FromIsCounted
        <3> QED
            BY <2>1, <3>4, <3>5, <3>6, <1>0 DEF TablesServed
    <2>7. CASE t # guideWatched
        <3>1. guideRows'[guideWatched] = guideRows[guideWatched]
            BY <2>2, <2>7 DEF GuideStateOK
        <3>2. guideJob[r].todo # <<guideWatched>>
            BY <1>4, <2>7, HeadKnown DEF Guide!InsertRows
        <3>3. \A s \in Refreshers : AtLast(s)' => AtLast(s) /\ guideJob'[s] = guideJob[s]
            BY <2>1, <2>3, <2>5, <3>2 DEF AtLast
        <3>4. \A s \in Refreshers : AtLast(s)' =>
                /\ guideComplete \subseteq From(guideRows'[guideWatched], guideJob'[s].cutoff)
                /\ guideJob'[s].quiet
                   => Covered \subseteq From(guideRows'[guideWatched], guideJob'[s].cutoff)
            BY <3>1, <3>3, <1>0 DEF TablesServed
        <3>5. guideComplete \subseteq Guide!Counted(guideRows'[guideWatched])
            BY <3>1, <1>0 DEF TablesServed
        <3> QED
            BY <2>1, <3>4, <3>5, <1>0 DEF TablesServed
    <2> QED
        BY <2>6, <2>7
<1>5. ASSUME NEW r \in Refreshers, Guide!DeleteRows(r)
      PROVE  TablesServed'
    <2>1. guideWatched' = guideWatched /\ Covered' = Covered
        BY <1>5 DEF Guide!DeleteRows, Covered
    <2>2. \A s \in Refreshers : s # r => guideJob'[s] = guideJob[s]
        BY <1>5 DEF Guide!DeleteRows, GuideStateOK
    <2>3. CASE Head(guideJob[r].todo) # guideWatched
        <3>1. Tail(guideJob[r].todo) # <<>>
            BY <1>5, <2>3, HeadKnown DEF Guide!DeleteRows
        <3>2. guideComplete' = guideComplete
            BY <1>5, <3>1 DEF Guide!DeleteRows
        <3>3. guideRows'[guideWatched] = guideRows[guideWatched]
            BY <1>5, <2>3, Deleted DEF GuideStateOK
        <3>4. GuideJobOK(r) /\ guideJob[r] # Guide!Idle
            BY <1>5 DEF Guide!DeleteRows, GuideStateOK, Guide!Idle
        <3>5. guideJob'[r] = [[guideJob[r] EXCEPT !.todo = Tail(guideJob[r].todo)] EXCEPT !.step = "insert"]
            BY <1>5, <3>1 DEF Guide!DeleteRows, GuideStateOK
        <3>6. ~ AtLast(r)'
            BY <3>4, <3>5 DEF AtLast, GuideJobOK
        <3>7. \A s \in Refreshers : AtLast(s)' =>
                /\ guideComplete \subseteq From(guideRows'[guideWatched], guideJob'[s].cutoff)
                /\ guideJob'[s].quiet
                   => Covered \subseteq From(guideRows'[guideWatched], guideJob'[s].cutoff)
            BY <2>1, <2>2, <3>3, <3>6, <1>0 DEF TablesServed, AtLast
        <3>8. guideComplete \subseteq Guide!Counted(guideRows'[guideWatched])
            BY <3>3, <1>0 DEF TablesServed
        <3> QED
            BY <2>1, <3>2, <3>7, <3>8, <1>0 DEF TablesServed
    <2>4. CASE Head(guideJob[r].todo) = guideWatched
        <3>1. /\ AtLast(r) /\ guideJob[r].cutoff \in Int
              /\ guideRows'[guideWatched] = {w \in guideRows[guideWatched] :
                     ~(w.at < guideJob[r].cutoff)}
              /\ \A W : W \subseteq From(guideRows[guideWatched], guideJob[r].cutoff)
                        => W \subseteq Guide!Counted(guideRows'[guideWatched])
              /\ guideJob'[r] = Guide!Idle
            BY <1>5, <2>4, WatchedDeleted DEF GuideStateOK
        <3>2. ~ AtLast(r)'
            BY <3>1 DEF AtLast, Guide!Idle
        <3>3. GuideBusy(r) /\ Tail(guideJob[r].todo) = <<>>
            BY <1>5, <2>4, HeadKnown DEF Guide!DeleteRows, GuideBusy
        <3>4. CASE guideJob[r].quiet
            <4>1. guideComplete' = Covered
                BY <1>5, <3>3, <3>4, Groups DEF Guide!DeleteRows, GuideStateOK, Covered
            <4>2. Covered \subseteq From(guideRows[guideWatched], guideJob[r].cutoff)
                BY <3>1, <3>4, <1>0 DEF TablesServed
            <4>3. Guide!Active = {r}
                BY <3>3, <3>4 DEF GuideQuietIsAlone
            <4>4. ASSUME NEW s \in Refreshers
                  PROVE  ~ AtLast(s)'
                <5>1. CASE s = r
                    BY <3>2, <5>1
                <5>2. CASE s # r
                    <6>1. guideJob[s].step = "idle"
                        BY <4>3, <5>2 DEF Guide!Active
                    <6> QED
                        BY <2>2, <5>2, <6>1 DEF AtLast
                <5> QED
                    BY <5>1, <5>2
            <4> QED
                BY <2>1, <3>1, <4>1, <4>2, <4>4, <1>0 DEF TablesServed
        <3>5. CASE ~ guideJob[r].quiet
            <4>1. guideComplete' = guideComplete
                BY <1>5, <3>5 DEF Guide!DeleteRows
            <4>2. guideComplete \subseteq From(guideRows[guideWatched], guideJob[r].cutoff)
                BY <3>1, <1>0 DEF TablesServed
            <4>3. ASSUME NEW s \in Refreshers, AtLast(s)'
                  PROVE  guideComplete \subseteq From(guideRows'[guideWatched],
                         guideJob'[s].cutoff) /\ ~ guideJob'[s].quiet
                <5>1. s # r /\ guideJob'[s] = guideJob[s]
                    BY <2>2, <3>2, <4>3
                <5>2. AtLast(s) /\ GuideBusy(s)
                    BY <2>1, <4>3, <5>1 DEF AtLast, GuideBusy
                <5>3. guideJob[s].cutoff \in Int
                    BY <5>2 DEF GuideStateOK, GuideJobOK, GuideBusy, Guide!Idle
                <5>4. guideComplete \subseteq From(guideRows[guideWatched], guideJob[s].cutoff)
                    BY <5>2, <1>0 DEF TablesServed
                <5>5. guideComplete \subseteq From(guideRows'[guideWatched], guideJob[s].cutoff)
                    BY <3>1, <4>2, <5>3, <5>4, StampsKnown, DeleteKeepsAll
                <5>6. ~ guideJob[s].quiet
                    BY <3>3, <5>1, <5>2 DEF GuideQuietIsAlone, Guide!Active, GuideBusy
                <5> QED
                    BY <5>1, <5>5, <5>6
            <4> QED
                BY <2>1, <3>1, <4>1, <4>2, <4>3, <1>0, Zenon DEF TablesServed
        <3> QED
            BY <3>4, <3>5
    <2> QED
        BY <2>3, <2>4
<1>6. ASSUME NEW r \in Refreshers, Guide!Repeat(r) \/ Guide!Abort(r)
      PROVE  TablesServed'
    <2>1. /\ guideWatched' = guideWatched /\ guideComplete' = guideComplete /\ Covered' = Covered
             /\ guideRows' = guideRows
          /\ \A s \in Refreshers : s # r => guideJob'[s] = guideJob[s]
        BY <1>6, Zenon DEF Guide!Repeat, Guide!Abort, Covered, GuideStateOK
    <2>2. ~ AtLast(r)'
        <3>1. CASE Guide!Repeat(r)
            <4>1. DOMAIN guideJob[r] = {"step", "todo", "pending", "cutoff", "quiet", "spaced"}
                BY <3>1 DEF Guide!Repeat, GuideStateOK, GuideJobOK, Guide!Idle
            <4> QED
                BY <3>1, <4>1 DEF Guide!Repeat, GuideStateOK, AtLast
        <3>2. CASE Guide!Abort(r)
            BY <3>2 DEF Guide!Abort, GuideStateOK, AtLast, Guide!Idle
        <3> QED
            BY <1>6, <3>1, <3>2
    <2>3. \A s \in Refreshers : AtLast(s)' =>
            /\ guideComplete \subseteq From(guideRows'[guideWatched], guideJob'[s].cutoff)
            /\ guideJob'[s].quiet
               => Covered \subseteq From(guideRows'[guideWatched], guideJob'[s].cutoff)
        BY <2>1, <2>2, <1>0 DEF TablesServed, AtLast
    <2>4. guideComplete \subseteq Guide!Counted(guideRows'[guideWatched])
        BY <2>1, <1>0 DEF TablesServed
    <2> QED
        BY <2>1, <2>3, <2>4, <1>0 DEF TablesServed
<1>8. CASE UNCHANGED Guide!vars
    <2>1. UNCHANGED <<guideWatched, guideStored, guideRows, guideComplete, guideJob>>
        BY <1>8 DEF Guide!vars
    <2>2. Covered' = Covered
        BY <2>1 DEF Covered
    <2>3. guideComplete' \subseteq Guide!Counted(guideRows[guideWatched])'
        BY <1>0, <2>1 DEF TablesServed, Guide!Counted, Guide!Final
    <2>4. ASSUME NEW s \in Refreshers, AtLast(s)'
          PROVE  /\ guideComplete' \subseteq From(guideRows[guideWatched], guideJob[s].cutoff)'
                 /\ guideJob'[s].quiet
                    => Covered' \subseteq From(guideRows[guideWatched], guideJob[s].cutoff)'
        <3>1. AtLast(s)
            BY <2>1, <2>4 DEF AtLast
        <3> QED
            BY <1>0, <2>1, <2>2, <3>1 DEF TablesServed, From, Guide!Final
    <2> QED
        BY <2>3, <2>4 DEF TablesServed
<1>9. ASSUME NEW r \in Refreshers, Guide!ReadVariants(r) \/ Guide!InsertRow(r)
      PROVE  FALSE
    BY <1>9, ReadsVariants, RowInserted
<1> QED
    BY <1>1, <1>3, <1>4, <1>5, <1>6, <1>8, <1>9 DEF Guide!Next

LEMMA WatchedStays ==
    ASSUME [Guide!Next]_(Guide!vars)
    PROVE  guideWatched' = guideWatched
BY Zenon DEF Guide!Next, Guide!vars, Guide!Store, Guide!Promote, Guide!StartRefresh,
   Guide!InsertRows, Guide!ReadVariants, Guide!InsertRow, Guide!DeleteRows, Guide!Repeat,
   Guide!Abort

\* What is owed is among what a refresh must not lose, and all of it counted.
LEMMA OwedIsDue ==
    ASSUME GuideStateOK, GuideRowsOK, NEW r
    PROVE  Owed \subseteq Due(r) /\ Due(r) \subseteq Covered /\ Covered \subseteq Games
           /\ Owed \subseteq Games
BY DEF Owed, Due, Covered, GuideStateOK, GuideRowsOK

\* A step that writes no row and moves no game that is still owed.
LEMMA RowsStay ==
    ASSUME GuideStateOK, GuideRowsOK, VariantsServed, guideRows' = guideRows,
           Owed' \subseteq Owed, \A g \in Owed' : guideRankOf'[g] = guideRankOf[g]
    PROVE  \A g \in Owed' : HasItsRow(g)'
BY DEF VariantsServed, HasItsRow, Guide!Final

\* Such a step loses nothing of a refresh that it has only hushed.
LEMMA HushedKeeps ==
    ASSUME GuideStateOK, GuideRowsOK, VariantsServed, guideRows' = guideRows,
           Owed' \subseteq Owed, \A g \in Owed' : guideRankOf'[g] = guideRankOf[g],
           NEW s \in Refreshers,
           guideJob'[s] = IF s \in Guide!Active THEN [guideJob[s] EXCEPT !.quiet = FALSE]
               ELSE guideJob[s]
    PROVE  NotLost(s)'
<1> SUFFICES ASSUME guideJob'[s].step \in {"row", "delete"}, NEW g \in Due(s)'
             PROVE  /\ InPending(s, g)' \/ InItsRow(g, guideJob[s].cutoff)'
                    /\ \A c \in guideJob'[s].pending : c.key = guideRankOf'[g] => g \in c.games
    BY DEF NotLost
<1>1. /\ guideJob[s].step \in {"row", "delete"}
      /\ guideJob'[s].pending = guideJob[s].pending
      /\ guideJob'[s].cutoff = guideJob[s].cutoff
      /\ guideJob'[s].quiet = FALSE
    BY StillToCome
<1>2. g \in Owed'
    BY <1>1 DEF Due
<1>3. g \in Due(s) /\ guideRankOf'[g] = guideRankOf[g]
    BY <1>2, OwedIsDue
<1>4. /\ InPending(s, g) \/ InItsRow(g, guideJob[s].cutoff)
      /\ \A c \in guideJob[s].pending : c.key = guideRankOf[g] => g \in c.games
    BY <1>1, <1>3 DEF VariantsServed, NotLost
<1>5. InPending(s, g) => InPending(s, g)'
    BY <1>1, <1>3 DEF InPending
<1>6. InItsRow(g, guideJob[s].cutoff) => InItsRow(g, guideJob[s].cutoff)'
    BY <1>1, <1>3 DEF InItsRow, Guide!Final
<1> QED
    BY <1>1, <1>3, <1>4, <1>5, <1>6

\* Nothing is lost of a refresh whose state, rows and games are as they were.
LEMMA StillNotLost ==
    ASSUME NEW s \in Refreshers, NotLost(s), guideRows' = guideRows, guideJob'[s] = guideJob[s],
           Owed' = Owed, Covered' = Covered, guideRankOf' = guideRankOf
    PROVE  NotLost(s)'
BY DEF NotLost, Due, InPending, InItsRow, Guide!Final

\* The rows read: each game the variants count is in the row of its key.
LEMMA ReadGroups ==
    ASSUME NEW g \in Covered, guideWatched = Guide!Variants
    PROVE  /\ \E c \in Guide!Compiled(Guide!Variants, guideStored) : c.key = guideRankOf[g]
           /\ \A c \in Guide!Compiled(Guide!Variants, guideStored) :
                 c.key = guideRankOf[g] => g \in c.games
<1> DEFINE gs == guideStored \intersect Cored
           mine == [key |-> Guide!Rank(g), games |-> {h \in gs : Guide!Rank(h) = Guide!Rank(g)}]
<1>1. Guide!Compiled(Guide!Variants, guideStored) = Guide!Group(gs, Guide!Rank)
    BY SMT DEF Guide!Compiled, Guide!VariantRows, Guide!Kills, Guide!Summary, Guide!Variants
<1>2. g \in gs
    BY DEF Covered, CountedBy, Guide!Variants
<1>3. mine \in Guide!Group(gs, Guide!Rank)
    BY <1>2, Zenon DEF Guide!Group
<1>4. mine.key = guideRankOf[g]
    BY DEF Guide!Rank
<1>5. ASSUME NEW c \in Guide!Group(gs, Guide!Rank), c.key = guideRankOf[g]
      PROVE  g \in c.games
    <2>1. PICK k \in {Guide!Rank(h) : h \in gs} :
              c = [key |-> k, games |-> {h \in gs : Guide!Rank(h) = k}]
        BY Zenon DEF Guide!Group
    <2>2. k = Guide!Rank(g)
        BY <1>5, <2>1 DEF Guide!Rank
    <2> QED
        BY <1>2, <2>1, <2>2
<1> HIDE DEF mine, gs
<1> QED
    BY <1>1, <1>3, <1>4, <1>5

\* A row inserted is final, and takes the place of no row but its key's.
LEMMA RowIsFinal ==
    ASSUME NEW rs, NEW n, NEW at \in Int, \A w \in rs : w.at \in Int /\ w.at <= at, n.at = at
    PROVE  LET new == {w \in rs : ~ (n.key = w.key /\ n.at = w.at)} \union {n}
           IN  /\ n \in Guide!Final(new)
               /\ \A w \in Guide!Final(rs) : w.key # n.key => w \in Guide!Final(new)
<1>1. \A w \in rs : w.at \in Int /\ w.at <= n.at
    OBVIOUS
<1>2. n.at <= n.at
    OBVIOUS
<1> QED
    BY <1>1, <1>2, Zenon DEF Guide!Final

\* A deletion keeps the final rows it spares.
LEMMA SparedIsFinal ==
    ASSUME NEW rs, NEW x, NEW w \in Guide!Final(rs), ~(w.at < x)
    PROVE  w \in Guide!Final({v \in rs : ~(v.at < x)})
BY DEF Guide!Final

LEMMA InsertRowServes ==
    ASSUME Guide!GuideAssumption, GuideIInv, VariantsServed,
           NEW r \in Refreshers, Guide!InsertRow(r)
    PROVE  VariantsServed'
<1> DEFINE at == Guide!Now(guideClock)
           R == guideRows[Guide!Variants]
<1> USE DEF GuideIInv
<1>1. UNCHANGED <<guideWatched, guideStored, guideRankOf, guideComplete, guideMoved>>
      /\ \A s \in Refreshers : s # r => guideJob'[s] = guideJob[s]
    BY DEF Guide!InsertRow, GuideStateOK
<1>2. /\ Guide!Variants \in Guide!Tables /\ GuideJobOK(r) /\ guideJob[r].step = "row"
    BY RowInserted
<1>3. PICK c \in guideJob[r].pending :
          /\ guideRows'[Guide!Variants] = Guide!InsertVariant(c, at)
          /\ guideJob'[r] = [guideJob[r] EXCEPT !.pending = guideJob[r].pending \ {c},
                !.step = IF guideJob[r].pending = {c} THEN "delete" ELSE "row"]
    BY RowInserted
<1>4. PICK n : /\ n.at = at /\ n.key = c.key /\ n.games = c.games
               /\ guideRows'[Guide!Variants]
                     = {w \in R : ~ (n.key = w.key /\ n.at = w.at)} \union {n}
    BY <1>3, VariantKnown
<1>5. at \in Int /\ \A w \in R : w.at \in Int /\ w.at <= at
    BY <1>2, ClockKnown DEF GuideRowsOK
<1> HIDE DEF at, R
<1>6. /\ n \in Guide!Final(guideRows'[Guide!Variants])
      /\ \A w \in Guide!Final(R) : w.key # n.key => w \in Guide!Final(guideRows'[Guide!Variants])
    BY <1>4, <1>5, RowIsFinal
<1>7. Owed' = Owed /\ Covered' = Covered
    BY <1>1 DEF Owed, Left, Covered
<1>8. \A g \in Due(r) : /\ InPending(r, g) \/ InItsRow(g, guideJob[r].cutoff)
                        /\ \A d \in guideJob[r].pending : d.key = guideRankOf[g] => g \in d.games
    BY <1>2 DEF VariantsServed, NotLost
<1>9. \A g \in Due(r) : guideRankOf[g] = n.key => g \in n.games
    BY <1>3, <1>4, <1>8
<1>10. ASSUME NEW g \in Due(r), NEW x \in Int, x <= at, InItsRow(g, x) \/ guideRankOf[g] = n.key
       PROVE  InItsRow(g, x)'
    <2>1. CASE guideRankOf[g] = n.key
        <3>1. n.at >= x
            BY <1>4, <1>5, <1>10
        <3> QED
            BY <1>1, <1>6, <1>9, <2>1, <3>1 DEF InItsRow, Guide!Final
    <2>2. CASE guideRankOf[g] # n.key
        <3>1. PICK w \in Guide!Final(R) : w.key = guideRankOf[g] /\ w.at >= x /\ g \in w.games
            BY <1>10, <2>2 DEF InItsRow, R
        <3>2. w \in Guide!Final(guideRows'[Guide!Variants])
            BY <1>6, <2>2, <3>1
        <3> QED
            BY <1>1, <3>1, <3>2 DEF InItsRow, Guide!Final
    <2> QED
        BY <2>1, <2>2
<1>11. \A g \in Owed' : HasItsRow(g)'
    <2> SUFFICES ASSUME NEW g \in Owed PROVE HasItsRow(g)'
        BY <1>7
    <2>1. g \in Due(r)
        BY OwedIsDue
    <2>2. CASE guideRankOf[g] = n.key
        BY <1>1, <1>6, <1>9, <2>1, <2>2 DEF HasItsRow, Guide!Final
    <2>3. CASE guideRankOf[g] # n.key
        <3>1. PICK w \in Guide!Final(R) : w.key = guideRankOf[g] /\ g \in w.games
            BY DEF VariantsServed, HasItsRow, R
        <3>2. w \in Guide!Final(guideRows'[Guide!Variants])
            BY <1>6, <2>3, <3>1
        <3> QED
            BY <1>1, <3>1, <3>2 DEF HasItsRow, Guide!Final
    <2> QED
        BY <2>2, <2>3
<1>12. ASSUME NEW s \in Refreshers, s # r
       PROVE  NotLost(s)'
    <2> SUFFICES ASSUME guideJob'[s].step \in {"row", "delete"}, NEW g \in Due(s)'
                 PROVE  /\ InPending(s, g)' \/ InItsRow(g, guideJob[s].cutoff)'
                        /\ \A d \in guideJob'[s].pending :
                               d.key = guideRankOf'[g] => g \in d.games
        BY DEF NotLost
    <2>1. guideJob'[s] = guideJob[s] /\ guideJob[s].step \in {"row", "delete"}
        BY <1>1, <1>12
    <2>2. ~ guideJob[s].quiet
        BY <1>2, <1>12, <2>1 DEF GuideQuietIsAlone, GuideBusy, Guide!Active
    <2>3. g \in Owed /\ g \in Due(s) /\ g \in Due(r)
        BY <1>7, <2>1, <2>2, OwedIsDue DEF Due
    <2>4. /\ InPending(s, g) \/ InItsRow(g, guideJob[s].cutoff)
          /\ \A d \in guideJob[s].pending : d.key = guideRankOf[g] => g \in d.games
        BY <2>1, <2>3 DEF VariantsServed, NotLost
    <2>5. guideJob[s].cutoff \in Int /\ guideJob[s].cutoff <= at
        BY <2>1 DEF GuideStateOK, GuideJobOK, Guide!Idle, at
    <2>6. InPending(s, g) => InPending(s, g)'
        BY <1>1, <2>1 DEF InPending
    <2>7. InItsRow(g, guideJob[s].cutoff) => InItsRow(g, guideJob[s].cutoff)'
        <3>1. PICK x \in Int : x = guideJob[s].cutoff
            BY <2>5
        <3>2. InItsRow(g, x) => InItsRow(g, x)'
            BY <1>10, <2>3, <2>5, <3>1
        <3> QED
            BY <2>1, <3>1, <3>2 DEF InItsRow
    <2> QED
        BY <1>1, <2>1, <2>4, <2>6, <2>7
<1>13. NotLost(r)'
    <2>1. DOMAIN guideJob[r] = {"step", "todo", "pending", "cutoff", "quiet", "spaced"}
        BY <1>2 DEF GuideJobOK, Guide!Idle
    <2>2. /\ guideJob'[r].pending = guideJob[r].pending \ {c}
          /\ guideJob'[r].cutoff = guideJob[r].cutoff
          /\ guideJob'[r].quiet = guideJob[r].quiet
        BY <1>3, <2>1
    <2>3. Due(r)' = Due(r)
        BY <1>7, <2>2 DEF Due
    <2>4. guideJob[r].cutoff \in Int /\ guideJob[r].cutoff <= at
        BY <1>2 DEF GuideJobOK, Guide!Idle, at
    <2>5. ASSUME NEW g \in Due(r)
          PROVE  /\ InPending(r, g)' \/ InItsRow(g, guideJob[r].cutoff)'
                 /\ \A d \in guideJob'[r].pending : d.key = guideRankOf'[g] => g \in d.games
        <3>1. CASE guideRankOf[g] = n.key \/ InItsRow(g, guideJob[r].cutoff)
            <4>1. PICK x \in Int : x = guideJob[r].cutoff
                BY <2>4
            <4>2. InItsRow(g, x)'
                BY <1>10, <2>4, <2>5, <3>1, <4>1
            <4>3. InItsRow(g, guideJob[r].cutoff)'
                BY <2>2, <4>1, <4>2 DEF InItsRow
            <4> QED
                BY <1>1, <1>8, <2>2, <2>5, <4>3
        <3>2. CASE guideRankOf[g] # n.key /\ InPending(r, g)
            BY <1>1, <1>4, <1>8, <2>2, <3>2 DEF InPending
        <3> QED
            BY <1>8, <3>1, <3>2
    <2> QED
        BY <2>3, <2>5 DEF NotLost
<1> QED
    BY <1>11, <1>12, <1>13 DEF VariantsServed

LEMMA DeleteRowsServes ==
    ASSUME Guide!GuideAssumption, GuideIInv, VariantsServed, guideWatched = Guide!Variants,
           NEW r \in Refreshers, Guide!DeleteRows(r)
    PROVE  VariantsServed'
<1> DEFINE R == guideRows[Guide!Variants]
           x == guideJob[r].cutoff
<1> USE DEF GuideIInv
<1>1. guideWatched \in Guide!Tables /\ guideWatched # Guide!Kills /\ guideWatched # Guide!Summary
    BY DEF GuideStateOK, Guide!Variants, Guide!Kills, Guide!Summary
<1>2. guideJob[r].step = "delete"
    BY DEF Guide!DeleteRows
<1>3. Head(guideJob[r].todo) = guideWatched /\ Tail(guideJob[r].todo) = <<>>
    BY <1>1, <1>2, HeadKnown
<1>4. /\ guideRows'[Guide!Variants] = {w \in R : ~(w.at < x)}
      /\ guideJob'[r] = Guide!Idle
      /\ \A s \in Refreshers : s # r => guideJob'[s] = guideJob[s]
    BY <1>3, WatchedDeleted DEF GuideStateOK
<1>5. UNCHANGED <<guideWatched, guideStored, guideRankOf>> /\ Covered' = Covered
    BY DEF Guide!DeleteRows, Covered
<1>6. GuideJobOK(r) /\ guideJob[r].pending = {} /\ x \in Int
    BY <1>2 DEF GuideStateOK, GuideJobOK, Guide!Idle
<1>7. \A g \in Due(r) : InItsRow(g, x)
    BY <1>2, <1>6 DEF VariantsServed, NotLost, InPending
<1>8. \A w \in Guide!Final(R) : w.at \in Int
    BY <1>1 DEF GuideRowsOK, Guide!Final
<1> HIDE DEF R, x
<1>9. ASSUME NEW w \in Guide!Final(R), w.at >= x
      PROVE  w \in Guide!Final(guideRows'[Guide!Variants])
    <2>1. ~(w.at < x)
        BY <1>6, <1>8, <1>9
    <2> QED
        BY <1>4, <1>9, <2>1, SparedIsFinal, Zenon
<1>10. \A g \in Due(r) : HasItsRow(g)'
    BY <1>5, <1>7, <1>9 DEF InItsRow, HasItsRow, R, Guide!Final
<1>11. ~ (guideJob'[r].step \in {"row", "delete"})
    BY <1>4 DEF Guide!Idle
<1>12. r \in Guide!Active /\ GuideBusy(r)
    BY <1>2 DEF Guide!Active, GuideBusy
<1>13. CASE guideJob[r].quiet
    <2>1. guideComplete' = Covered
        BY <1>3, <1>13, Groups DEF Guide!DeleteRows, GuideStateOK, Covered
    <2>2. Due(r) = Covered /\ Owed' \subseteq Due(r)
        BY <1>13, <2>1 DEF Due, Owed
    <2>3. \A s \in Refreshers : s # r => guideJob'[s].step = "idle"
        BY <1>4, <1>12, <1>13 DEF GuideQuietIsAlone, Guide!Active
    <2>4. \A s \in Refreshers : NotLost(s)'
        BY <1>11, <2>3 DEF NotLost
    <2> QED
        BY <1>10, <2>2, <2>4 DEF VariantsServed
<1>14. CASE ~ guideJob[r].quiet
    <2>1. Owed' = Owed /\ Due(r) = Owed
        BY <1>5, <1>14 DEF Guide!DeleteRows, Owed, Left, Due
    <2>2. ASSUME NEW s \in Refreshers, s # r
          PROVE  NotLost(s)'
        <3> SUFFICES ASSUME guideJob'[s].step \in {"row", "delete"}, NEW g \in Due(s)'
                     PROVE  /\ InPending(s, g)' \/ InItsRow(g, guideJob[s].cutoff)'
                            /\ \A d \in guideJob'[s].pending :
                                  d.key = guideRankOf'[g] => g \in d.games
            BY DEF NotLost
        <3>1. guideJob'[s] = guideJob[s] /\ guideJob[s].step \in {"row", "delete"}
            BY <1>4, <2>2
        <3>2. ~ guideJob[s].quiet
            BY <1>12, <2>2, <3>1 DEF GuideQuietIsAlone, GuideBusy, Guide!Active
        <3>3. g \in Due(s) /\ g \in Due(r)
            BY <2>1, <3>1, <3>2 DEF Due
        <3>4. /\ InPending(s, g) \/ InItsRow(g, guideJob[s].cutoff)
              /\ \A d \in guideJob[s].pending : d.key = guideRankOf[g] => g \in d.games
            BY <3>1, <3>3 DEF VariantsServed, NotLost
        <3>5. CASE InPending(s, g)
            BY <1>5, <3>1, <3>4, <3>5 DEF InPending
        <3>6. CASE InItsRow(g, guideJob[s].cutoff)
            <4>1. PICK w \in Guide!Final(R) : w.key = guideRankOf[g]
                      /\ w.at >= guideJob[s].cutoff /\ g \in w.games
                BY <3>6 DEF InItsRow, R
            <4>2. PICK v \in Guide!Final(R) : v.key = guideRankOf[g] /\ v.at >= x
                BY <1>7, <3>3 DEF InItsRow, R
            <4>3. w.at <= v.at /\ v.at <= w.at
                BY <4>1, <4>2 DEF Guide!Final
            <4>4. w.at >= x
                BY <1>6, <1>8, <4>2, <4>3
            <4>5. w \in Guide!Final(guideRows'[Guide!Variants])
                BY <1>9, <4>4
            <4>6. InItsRow(g, guideJob[s].cutoff)'
                BY <1>5, <3>1, <4>1, <4>5 DEF InItsRow, Guide!Final
            <4> QED
                BY <1>5, <3>1, <3>4, <4>6
        <3> QED
            BY <3>4, <3>5, <3>6
    <2>3. \A s \in Refreshers : NotLost(s)'
        BY <1>11, <2>2 DEF NotLost
    <2> QED
        BY <1>10, <2>1, <2>3 DEF VariantsServed
<1> QED
    BY <1>13, <1>14

LEMMA StepVariantsServed ==
    ASSUME Guide!GuideAssumption, GuideIInv, [Guide!Next]_(Guide!vars),
           guideWatched = Guide!Variants
    PROVE  VariantsServed'
<1> USE DEF GuideIInv
<1>0. VariantsServed
    BY DEF GuideReadersServed
<1>1. ASSUME NEW g \in Games, Guide!Store(g)
      PROVE  VariantsServed'
    <2>1. /\ UNCHANGED <<guideWatched, guideRows, guideRankOf, guideComplete, guideMoved>>
          /\ \A s \in Refreshers : guideJob'[s] = IF s \in Guide!Active
                THEN [guideJob[s] EXCEPT !.quiet = FALSE] ELSE guideJob[s]
        BY <1>1, Zenon DEF Guide!Store
    <2>2. Owed' = Owed
        BY <2>1 DEF Owed, Left
    <2> QED
        BY <1>0, <2>1, <2>2, RowsStay, HushedKeeps DEF VariantsServed
<1>2. ASSUME NEW g \in Games, Guide!Promote(g)
      PROVE  VariantsServed'
    <2>1. /\ UNCHANGED <<guideWatched, guideRows, guideComplete>>
          /\ guideMoved' = guideMoved \union ({g} \intersect guideComplete)
          /\ guideRankOf' = [guideRankOf EXCEPT ![g] = "plat"]
          /\ \A s \in Refreshers : guideJob'[s] = IF s \in Guide!Active
                THEN [guideJob[s] EXCEPT !.quiet = FALSE] ELSE guideJob[s]
        BY <1>2, Zenon DEF Guide!Promote
    <2>2. Owed' = Owed \ {g}
        BY <2>1 DEF Owed, Left
    <2>3. \A h \in Owed' : guideRankOf'[h] = guideRankOf[h]
        BY <2>1, <2>2, OwedIsDue DEF GuideStateOK
    <2> QED
        BY <1>0, <2>1, <2>2, <2>3, RowsStay, HushedKeeps DEF VariantsServed
<1>3. ASSUME NEW r \in Refreshers, Guide!StartRefresh(r)
      PROVE  VariantsServed'
    <2>1. /\ UNCHANGED <<guideWatched, guideRows, guideRankOf, guideComplete, guideMoved>>
          /\ guideJob'[r].step = "insert"
          /\ \A s \in Refreshers : s # r => guideJob'[s] = IF s \in Guide!Active
                THEN [guideJob[s] EXCEPT !.quiet = FALSE] ELSE guideJob[s]
        BY <1>3 DEF Guide!StartRefresh
    <2>2. Owed' = Owed
        BY <2>1 DEF Owed, Left
    <2>3. NotLost(r)'
        BY <2>1 DEF NotLost
    <2>4. \A s \in Refreshers : s # r => NotLost(s)'
        BY <1>0, <2>1, <2>2, HushedKeeps
    <2> QED
        BY <1>0, <2>1, <2>2, <2>3, <2>4, RowsStay DEF VariantsServed
<1>4. ASSUME NEW r \in Refreshers, Guide!InsertRows(r)
      PROVE  FALSE
    BY <1>4, HeadKnown DEF Guide!InsertRows, Guide!Variants, Guide!Summary
<1>5. ASSUME NEW r \in Refreshers, Guide!ReadVariants(r)
      PROVE  VariantsServed'
    <2>1. UNCHANGED <<guideWatched, guideStored, guideRows, guideRankOf, guideComplete, guideMoved>>
        BY <1>5 DEF Guide!ReadVariants
    <2>2. Owed' = Owed /\ Covered' = Covered
        BY <2>1 DEF Owed, Left, Covered
    <2>3. ASSUME NEW s \in Refreshers, s # r
          PROVE  NotLost(s)'
        BY <1>0, <1>5, <2>1, <2>2, <2>3, JobAfterRead, StillNotLost DEF VariantsServed
    <2>4. guideJob'[r].pending = Guide!Compiled(Guide!Variants, guideStored)
        BY <1>5, JobAfterRead
    <2>5. Due(r)' \subseteq Covered
        BY <2>2, OwedIsDue DEF Due
    <2>6. NotLost(r)'
        BY <2>1, <2>4, <2>5, ReadGroups DEF NotLost, InPending
    <2> QED
        BY <1>0, <2>1, <2>2, <2>3, <2>6, RowsStay DEF VariantsServed
<1>6. ASSUME NEW r \in Refreshers, Guide!Repeat(r) \/ Guide!Abort(r)
      PROVE  VariantsServed'
    <2>1. UNCHANGED <<guideWatched, guideStored, guideRows, guideRankOf, guideComplete, guideMoved>>
          /\ \A s \in Refreshers : s # r => guideJob'[s] = guideJob[s]
        BY <1>6, Zenon DEF Guide!Repeat, Guide!Abort, GuideStateOK
    <2>2. guideJob'[r].step \in {"insert", "idle"}
        <3>1. CASE Guide!Repeat(r)
            <4>1. DOMAIN guideJob[r] = {"step", "todo", "pending", "cutoff", "quiet", "spaced"}
                BY <3>1 DEF Guide!Repeat, GuideStateOK, GuideJobOK, Guide!Idle
            <4> QED
                BY <3>1, <4>1 DEF Guide!Repeat, GuideStateOK
        <3>2. CASE Guide!Abort(r)
            BY <3>2 DEF Guide!Abort, GuideStateOK, Guide!Idle
        <3> QED
            BY <1>6, <3>1, <3>2
    <2>3. Owed' = Owed /\ Covered' = Covered
        BY <2>1 DEF Owed, Left, Covered
    <2>4. ASSUME NEW s \in Refreshers, s # r
          PROVE  NotLost(s)'
        BY <1>0, <2>1, <2>3, <2>4, StillNotLost DEF VariantsServed
    <2>5. NotLost(r)'
        BY <2>2 DEF NotLost
    <2> QED
        BY <1>0, <2>1, <2>3, <2>4, <2>5, RowsStay DEF VariantsServed
<1>7. CASE UNCHANGED Guide!vars
    <2>1. UNCHANGED <<guideWatched, guideStored, guideRows, guideRankOf, guideComplete, guideMoved,
                      guideJob>>
        BY <1>7 DEF Guide!vars
    <2>2. Owed' = Owed /\ Covered' = Covered
        BY <2>1 DEF Owed, Left, Covered
    <2> QED
        BY <1>0, <2>1, <2>2, StillNotLost, RowsStay DEF VariantsServed
<1> QED
    BY <1>0, <1>1, <1>2, <1>3, <1>4, <1>5, <1>6, <1>7, InsertRowServes, DeleteRowsServes
       DEF Guide!Next

LEMMA GuideInductive ==
    ASSUME Guide!GuideAssumption
    PROVE  Guide!Spec => []GuideIInv
<1>1. Guide!Init => GuideIInv
    BY GuideInitially
<1>2. GuideIInv /\ [Guide!Next]_(Guide!vars) => GuideIInv'
    <2> SUFFICES ASSUME GuideIInv, [Guide!Next]_(Guide!vars) PROVE GuideIInv'
        OBVIOUS
    <2>1. GuideStateOK' /\ GuideRowsOK' /\ GuideQuietIsAlone'
        BY StepGuideState, StepGuideRows, StepGuideAlone
    <2>2. guideWatched' = guideWatched
        BY WatchedStays
    <2>3. guideWatched # Guide!Variants => TablesServed'
        BY StepTablesServed
    <2>4. guideWatched = Guide!Variants => VariantsServed'
        BY StepVariantsServed
    <2> QED
        BY <2>1, <2>2, <2>3, <2>4 DEF GuideIInv, GuideReadersServed
<1> QED
    BY <1>1, <1>2, PTL DEF Guide!Spec

-----------------------------------------------------------------------------
(* The guide implements ReadModel *)

LEMMA GuideInitRefines ==
    ASSUME Guide!GuideAssumption, Guide!Init
    PROVE  Guide!Abstract!Init
<1>1. guideWatched \in Guide!Tables /\ guideRows[guideWatched] = {}
    BY DEF Guide!Init
<1>2. Guide!Counted(guideRows[guideWatched]) = {}
    BY <1>1 DEF Guide!Counted, Guide!Final
<1> QED
    BY <1>2 DEF Guide!Init, Guide!Abstract!Init

\* A reader of the watched table still counts what it is owed.
LEMMA StillReadable ==
    ASSUME GuideIInv'
    PROVE  Guide!Abstract!Readable'
<1>1. CASE guideWatched' # Guide!Variants
    BY <1>1 DEF GuideIInv, GuideReadersServed, TablesServed, Guide!Abstract!Readable
<1>2. CASE guideWatched' = Guide!Variants
    <2>1. Owed' = guideComplete' \ guideMoved'
        BY <1>2 DEF Owed, Left
    <2>2. \A g \in Owed' : HasItsRow(g)'
        BY <1>2 DEF GuideIInv, GuideReadersServed, VariantsServed
    <2>3. Owed' \subseteq Guide!Counted(guideRows[guideWatched])'
        BY <1>2, <2>2 DEF HasItsRow, Guide!Counted, Guide!Final
    <2> QED
        BY <1>2, <2>1, <2>3 DEF Guide!Abstract!Readable
<1> QED
    BY <1>1, <1>2

\* A statement that neither ends a quiet refresh nor stores or moves a game.
LEMMA GuideCompileRefines ==
    ASSUME GuideIInv, GuideIInv', guideWatched' = guideWatched, guideStored' = guideStored,
           guideComplete' = guideComplete, guideMoved' = guideMoved
    PROVE  Guide!Abstract!Compile
<1>1. Guide!Counted(guideRows[guideWatched])' \subseteq guideStored
    <2>1. \A w \in guideRows'[guideWatched'] : w.games \subseteq Covered'
        BY DEF GuideIInv, GuideRowsOK
    <2>2. Covered' \subseteq guideStored
        BY DEF Covered
    <2> QED
        BY <2>1, <2>2 DEF Guide!Counted, Guide!Final
<1> QED
    BY <1>1, StillReadable, Zenon DEF Guide!Abstract!Compile

\* The end of a quiet refresh.
LEMMA GuidePublishRefines ==
    ASSUME GuideIInv, GuideIInv', NEW r \in Refreshers, Guide!DeleteRows(r),
           Tail(guideJob[r].todo) = <<>>, guideJob[r].quiet
    PROVE  Guide!Abstract!Publish
<1> USE DEF GuideIInv
<1>1. Head(guideJob[r].todo) = guideWatched
    BY HeadKnown DEF Guide!DeleteRows
<1>2. guideComplete' = Covered /\ guideStored' = guideStored /\ guideWatched' = guideWatched
      /\ guideMoved' = {}
    BY Groups DEF Guide!DeleteRows, GuideStateOK, Covered
<1>3. Covered' = Covered
    BY <1>2 DEF Covered
<1>4. guideComplete' \subseteq Guide!Counted(guideRows[guideWatched])'
    <2>1. Guide!Abstract!Readable'
        BY StillReadable
    <2> QED
        BY <1>2, <2>1 DEF Guide!Abstract!Readable
<1>5. Guide!Counted(guideRows[guideWatched])' \subseteq Covered'
    BY DEF GuideRowsOK, Guide!Counted, Guide!Final
<1>6. guideComplete \subseteq guideComplete'
    BY <1>2 DEF GuideRowsOK
<1>7. guideComplete' \subseteq guideStored
    BY <1>2 DEF Covered
<1>8. Guide!Counted(guideRows[guideWatched])' = guideComplete'
    BY <1>2, <1>3, <1>4, <1>5, Zenon
<1> QED
    BY <1>2, <1>6, <1>7, <1>8 DEF Guide!Abstract!Publish

LEMMA GuideStepRefines ==
    ASSUME Guide!GuideAssumption, GuideIInv, GuideIInv', [Guide!Next]_(Guide!vars)
    PROVE  [Guide!Abstract!Next]_(Guide!Abstract!vars)
<1>1. ASSUME NEW g \in Games, Guide!Store(g)
      PROVE  Guide!Abstract!Store
    <2>1. /\ g \in Games \ guideStored /\ guideStored' = guideStored \union {g}
          /\ guideWatched' = guideWatched /\ guideRows' = guideRows
          /\ guideComplete' = guideComplete /\ guideMoved' = guideMoved
        BY <1>1 DEF Guide!Store
    <2>2. Guide!Counted(guideRows[guideWatched])' = Guide!Counted(guideRows[guideWatched])
        BY <2>1 DEF Guide!Counted, Guide!Final
    <2> QED
        BY <2>1, <2>2, StillReadable DEF Guide!Abstract!Store
<1>2. ASSUME NEW g \in Games, Guide!Promote(g)
      PROVE  Guide!Abstract!Move
    <2>1. /\ UNCHANGED <<guideWatched, guideRows, guideStored, guideComplete>>
          /\ guideMoved \subseteq guideMoved'
        BY <1>2 DEF Guide!Promote
    <2>2. Guide!Counted(guideRows[guideWatched])' = Guide!Counted(guideRows[guideWatched])
        BY <2>1 DEF Guide!Counted, Guide!Final
    <2> QED
        BY <2>1, <2>2 DEF Guide!Abstract!Move
<1>3. ASSUME NEW r \in Refreshers,
             \/ Guide!StartRefresh(r) \/ Guide!InsertRows(r) \/ Guide!ReadVariants(r)
             \/ Guide!InsertRow(r) \/ Guide!Repeat(r) \/ Guide!Abort(r)
      PROVE  Guide!Abstract!Compile
    BY <1>3, GuideCompileRefines DEF Guide!StartRefresh, Guide!InsertRows, Guide!ReadVariants,
       Guide!InsertRow, Guide!Repeat, Guide!Abort
<1>4. ASSUME NEW r \in Refreshers, Guide!DeleteRows(r)
      PROVE  Guide!Abstract!Compile \/ Guide!Abstract!Publish
    <2>1. CASE Tail(guideJob[r].todo) = <<>> /\ guideJob[r].quiet
        BY <1>4, <2>1, GuidePublishRefines
    <2>2. CASE ~ (Tail(guideJob[r].todo) = <<>> /\ guideJob[r].quiet)
        BY <1>4, <2>2, GuideCompileRefines, Zenon DEF Guide!DeleteRows
    <2> QED
        BY <2>1, <2>2
<1>5. CASE UNCHANGED Guide!vars
    BY <1>5 DEF Guide!vars, Guide!Abstract!vars, Guide!Counted, Guide!Final
<1> QED
    BY <1>1, <1>2, <1>3, <1>4, <1>5 DEF Guide!Next, Guide!Abstract!Next

\* A guide keeps what its last complete refresh gave its readers, and shows
\* exactly what a complete refresh compiled, for any number of refreshers,
\* failures and repeated statements (RefreshChampionGuideDerivedAnalytics,
\* champion_guide_derived.go:186).
LEMMA GuideImplements ==
    ASSUME Guide!GuideAssumption
    PROVE  Guide!Spec => Guide!GuideStaysReadable
<1>1. Guide!Init => Guide!Abstract!Init
    BY GuideInitRefines
<1>2. GuideIInv /\ GuideIInv' /\ [Guide!Next]_(Guide!vars) =>
          [Guide!Abstract!Next]_(Guide!Abstract!vars)
    BY GuideStepRefines
<1>3. Guide!Spec => []GuideIInv
    BY GuideInductive
<1> QED
    BY <1>1, <1>2, <1>3, PTL DEF Guide!Spec, Guide!GuideStaysReadable, Guide!Abstract!Spec

-----------------------------------------------------------------------------
(* Batches *)

\* Some of a finite set, as many as a batch holds.
LEMMA SomeBatch ==
    ASSUME NEW ids, IsFiniteSet(ids), BatchSize \in Nat
    PROVE  \E b \in SUBSET ids :
              Cardinality(b) = IF Cardinality(ids) < BatchSize THEN Cardinality(ids)
                  ELSE BatchSize
<1> DEFINE n == Cardinality(ids)
           k == IF n < BatchSize THEN n ELSE BatchSize
<1>2. n \in Nat /\ ExistsBijection(1..n, ids)
    BY FS_CardinalityType
<1>3. PICK f \in Bijection(1..n, ids) : TRUE
    BY <1>2 DEF ExistsBijection
<1> HIDE DEF n
<1>4. k \in 0..n
    BY <1>2
<1> DEFINE b == {f[i] : i \in 1..k}
           g == [i \in 1..k |-> f[i]]
<1>5. f \in [1..n -> ids] /\ \A i, j \in 1..n : f[i] = f[j] => i = j
    BY <1>3 DEF Bijection, Injection, IsInjective
<1> HIDE DEF k
<1>6. 1..k \subseteq 1..n
    BY <1>2, <1>4
<1>7. b \subseteq ids
    BY <1>5, <1>6
<1>8. g \in Bijection(1..k, b)
    BY <1>5, <1>6 DEF Bijection, Injection, IsInjective, Surjection
<1>9. Cardinality(b) = k
    <2>1. k \in Nat
        BY <1>2, <1>4
    <2>2. IsFiniteSet(1..k) /\ Cardinality(1..k) = k - 1 + 1
        BY <2>1, FS_Interval
    <2> HIDE DEF b, g
    <2>3. Cardinality(1..k) = Cardinality(b)
        BY <1>8, <2>2, FS_Bijection DEF ExistsBijection
    <2> QED
        BY <2>1, <2>2, <2>3
<1> QED
    BY <1>7, <1>9 DEF k, n

-----------------------------------------------------------------------------
(* The types of the guide *)

\* What the type of the guide's state takes beyond the invariant.
GuideTypes ==
    /\ guideRankOf \in [Games -> {"gold", "plat"}]
    /\ guideRuns \in 0..MaxRuns
    /\ guideClock <= guideRuns * Pause
    /\ \A t \in Guide!Tables : \A w \in guideRows[t] :
          w.games \subseteq guideStored /\ w.joined \subseteq w.games

LEMMA ClockBound ==
    ASSUME NEW r \in Nat, NEW p \in Nat \ {0}
    PROVE  /\ (r + 1) * p = r * p + p /\ r * p \in Nat
           /\ \A n \in Nat : r <= n => r * p <= n * p
BY SMT

LEMMA JoinedIsCounted ==
    ASSUME NEW t, NEW at, NEW w \in Guide!Insert(t, at)
    PROVE  w \in guideRows[t] \/ w.joined \subseteq w.games
BY DEF Guide!Insert, Guide!Replaced

LEMMA StepGuideTypes ==
    ASSUME Guide!GuideAssumption, GuideIInv, GuideTypes, [Guide!Next]_(Guide!vars)
    PROVE  GuideTypes'
<1>0. GuideStateOK /\ GuideRowsOK
    BY DEF GuideIInv
<1>1. ASSUME NEW g \in Games, Guide!Store(g) \/ Guide!Promote(g)
      PROVE  GuideTypes'
    BY <1>1 DEF Guide!Store, Guide!Promote, GuideTypes
<1>2. ASSUME NEW r \in Refreshers, Guide!StartRefresh(r)
      PROVE  GuideTypes'
    <2>1. /\ UNCHANGED <<guideRankOf, guideRows, guideStored>>
          /\ guideRuns' = guideRuns + 1 /\ guideRuns < MaxRuns
          /\ guideClock' \in {guideClock + 1, guideClock + Pause}
        BY <1>2 DEF Guide!StartRefresh
    <2>2. /\ guideRuns \in 0..MaxRuns /\ guideClock \in Nat /\ guideClock <= guideRuns * Pause
          /\ MaxRuns \in Nat /\ Pause \in Nat \ {0}
        BY <1>0 DEF GuideTypes, GuideStateOK, Guide!GuideAssumption
    <2>3. guideRuns' \in 0..MaxRuns
        BY <2>1, <2>2
    <2>4. /\ (guideRuns + 1) * Pause = guideRuns * Pause + Pause
          /\ guideRuns * Pause \in Nat
        BY <2>2, ClockBound
    <2> DEFINE x == guideRuns * Pause
               y == (guideRuns + 1) * Pause
    <2>5. x \in Nat /\ y = x + Pause /\ guideClock <= x
        BY <2>2, <2>4
    <2>6. y = guideRuns' * Pause
        BY <2>1
    <2> HIDE DEF x, y
    <2>7. guideClock' <= y
        BY <2>1, <2>2, <2>5
    <2> QED
        BY <2>1, <2>3, <2>6, <2>7 DEF GuideTypes
<1>3. ASSUME NEW r \in Refreshers, Guide!InsertRows(r)
      PROVE  GuideTypes'
    <2> DEFINE t == Head(guideJob[r].todo)
               at == Guide!Now(guideClock)
    <2>1. UNCHANGED <<guideRankOf, guideRuns, guideClock, guideStored>>
        BY <1>3 DEF Guide!InsertRows
    <2>2. /\ t \in Guide!Tables
          /\ \A u \in Guide!Tables : u # t => guideRows'[u] = guideRows[u]
          /\ guideRows'[t] = Guide!Insert(t, at)
        BY <1>0, <1>3, Inserted
    <2>3. at \in Int /\ at <= at
        BY <1>0, ClockKnown
    <2>4. \A w \in guideRows[t] : w.at \in Int /\ w.at <= at
        BY <1>0, <2>2 DEF GuideRowsOK
    <2>5. \A w \in Guide!Insert(t, at) : w \in guideRows[t] \/ w.games \subseteq guideStored
        BY <1>0, <2>2, <2>3, <2>4, InsertCovers DEF GuideStateOK
    <2>6. \A w \in Guide!Insert(t, at) : w \in guideRows[t] \/ w.joined \subseteq w.games
        BY JoinedIsCounted
    <2> HIDE DEF t, at
    <2> QED
        BY <2>1, <2>2, <2>5, <2>6 DEF GuideTypes
<1>4. ASSUME NEW r \in Refreshers, Guide!DeleteRows(r)
      PROVE  GuideTypes'
    <2>1. UNCHANGED <<guideRankOf, guideRuns, guideClock, guideStored>>
        BY <1>4 DEF Guide!DeleteRows
    <2>2. \A u \in Guide!Tables : guideRows'[u] \subseteq guideRows[u]
        BY <1>0, <1>4, Deleted
    <2> QED
        BY <2>1, <2>2 DEF GuideTypes
<1>5. ASSUME NEW r \in Refreshers, Guide!ReadVariants(r) \/ Guide!Repeat(r) \/ Guide!Abort(r)
      PROVE  GuideTypes'
    BY <1>5 DEF Guide!ReadVariants, Guide!Repeat, Guide!Abort, GuideTypes
<1>7. ASSUME NEW r \in Refreshers, Guide!InsertRow(r)
      PROVE  GuideTypes'
    <2>1. UNCHANGED <<guideRankOf, guideRuns, guideClock, guideStored>>
        BY <1>7 DEF Guide!InsertRow
    <2>2. /\ Guide!Variants \in Guide!Tables /\ guideJob[r].step = "row"
          /\ \A u \in Guide!Tables : u # Guide!Variants => guideRows'[u] = guideRows[u]
        BY <1>0, <1>7, RowInserted
    <2>3. PICK c \in guideJob[r].pending :
              guideRows'[Guide!Variants] = Guide!InsertVariant(c, Guide!Now(guideClock))
        BY <1>0, <1>7, RowInserted
    <2>4. PICK n : /\ n.games = c.games /\ n.joined = {}
                   /\ guideRows'[Guide!Variants] = {w \in guideRows[Guide!Variants] :
                         ~ (n.key = w.key /\ n.at = w.at)} \union {n}
        BY <2>3, VariantKnown
    <2>5. c.games \subseteq guideStored
        BY <1>0, <2>2 DEF GuideRowsOK, Covered
    <2> QED
        BY <2>1, <2>2, <2>4, <2>5 DEF GuideTypes
<1>6. CASE UNCHANGED Guide!vars
    BY <1>6 DEF Guide!vars, GuideTypes
<1> QED
    BY <1>1, <1>2, <1>3, <1>4, <1>5, <1>6, <1>7 DEF Guide!Next

LEMMA GuideTypeCorrect ==
    ASSUME Guide!GuideAssumption
    PROVE  Guide!Spec => []Guide!TypeOK
<1>1. Guide!Init => GuideTypes
    BY DEF Guide!Init, GuideTypes, Guide!GuideAssumption
<1>2. GuideIInv /\ GuideTypes /\ [Guide!Next]_(Guide!vars) => GuideTypes'
    BY StepGuideTypes
<1>3. ASSUME GuideIInv, GuideTypes
      PROVE  Guide!TypeOK
    <2>1. GuideStateOK /\ GuideRowsOK
        BY <1>3 DEF GuideIInv
    <2>2. Guide!Now(guideClock) <= guideClock /\ Guide!Now(guideClock) \in Int
              /\ guideClock \in Nat
        BY <2>1, WholeSeconds, guideClock <= guideClock DEF GuideStateOK
    <2>3. ASSUME NEW t \in Guide!Tables, NEW w \in guideRows[t]
          PROVE  w.at <= guideClock
        <3>1. w.at \in Int /\ w.at <= Guide!Now(guideClock)
            BY <2>1 DEF GuideRowsOK
        <3> QED
            BY <2>2, <3>1
    <2>4. guideClock \in 0..(MaxRuns * Pause)
        <3>1. guideRuns \in 0..MaxRuns /\ MaxRuns \in Nat /\ Pause \in Nat \ {0}
              /\ guideClock <= guideRuns * Pause
            BY <1>3 DEF GuideTypes, Guide!GuideAssumption
        <3> DEFINE x == guideRuns * Pause
                   y == MaxRuns * Pause
        <3>2. x <= y /\ x \in Nat /\ y \in Nat /\ guideClock <= x
            BY <3>1, ClockBound
        <3> HIDE DEF x, y
        <3>3. guideClock \in 0..y
            BY <2>2, <3>2
        <3> QED
            BY <3>3 DEF y
    <2>5. guideComplete \subseteq guideStored
        BY <2>1 DEF GuideRowsOK, Covered
    <2> QED
        BY <1>3, <2>1, <2>3, <2>4, <2>5 DEF GuideTypes, GuideStateOK, Guide!TypeOK
<1> QED
    BY <1>1, <1>2, <1>3, GuideInductive, PTL DEF Guide!Spec

-----------------------------------------------------------------------------
(* The items: ItemSlots keeps the promise of ReadModel, for any games,      *)
(* purchases, batches, number of refreshers and of refreshes                *)

\* What a run compiles of a game, and of a set of games, is under these keys.
ItemKeys(g) == {c.key : c \in Item!BatchRows({g})}

EntriesOf(C) == Item!Entries(Item!BatchRows(C))

\* The row tells the readers under k what it would if it counted g.
Holds(w, k, g) == w.key = k /\ \E h \in w.games : Item!Entry(k, h) = Item!Entry(k, g)

SlotsOf(g) ==
    LET built == {p \in Bought[g] : p.item \in CompletionItems}
    IN  {s \in {<<Item!Cardinality({q \in built : q.at <= p.at}), p.item>> : p \in built} :
            s[1] <= 6}

LEMMA SlotRowsKnown ==
    ASSUME NEW C \in SUBSET Games
    PROVE  Item!SlotRows[C] = {[key |-> k, games |-> {g \in C : k \in SlotsOf(g)}] :
                                  k \in UNION {SlotsOf(g) : g \in C}}
BY DEF Item!SlotRows, SlotsOf

LEMMA StartingRowsKnown ==
    ASSUME NEW C \in SUBSET Games
    PROVE  /\ \A c \in Item!StartingRows[C] : \E i \in StartingItems :
                 /\ c.key = <<0, i>> /\ Item!Started(C, i) # {}
                 /\ c.games \subseteq Item!Started(C, i)
           /\ \A i \in StartingItems : \A g \in Item!Started(C, i) :
                 \E c \in Item!StartingRows[C] :
                     c.key = <<0, i>> /\ \E h \in c.games : Won[h] = Won[g]
<1> DEFINE one(i, w) == CHOOSE g \in Item!Started(C, i) : Won[g] = w
           row(i) == [key |-> <<0, i>>,
                      games |-> {one(i, w) : w \in {Won[g] : g \in Item!Started(C, i)}}]
<1>1. Item!StartingRows[C] = {row(i) : i \in {i \in StartingItems : Item!Started(C, i) # {}}}
    BY DEF Item!StartingRows
<1>2. ASSUME NEW i, NEW g \in Item!Started(C, i)
      PROVE  one(i, Won[g]) \in Item!Started(C, i) /\ Won[one(i, Won[g])] = Won[g]
    OBVIOUS
<1>3. ASSUME NEW i
      PROVE  row(i).key = <<0, i>> /\ row(i).games \subseteq Item!Started(C, i)
    BY <1>2
<1>4. ASSUME NEW i, NEW g \in Item!Started(C, i)
      PROVE  \E h \in row(i).games : Won[h] = Won[g]
    <2>1. one(i, Won[g]) \in row(i).games
        OBVIOUS
    <2> QED
        BY <1>2, <2>1, Zenon
<1> HIDE DEF row
<1>5. ASSUME NEW i \in StartingItems, NEW g \in Item!Started(C, i)
      PROVE  \E c \in Item!StartingRows[C] : c.key = <<0, i>> /\ \E h \in c.games :
                Won[h] = Won[g]
    <2>1. row(i) \in Item!StartingRows[C]
        BY <1>1
    <2> QED
        BY <1>3, <1>4, <2>1
<1> QED
    BY <1>1, <1>3, <1>5

LEMMA StartedKnown ==
    ASSUME NEW C, NEW i, NEW g
    PROVE  /\ g \in Item!Started(C, i) => g \in C /\ g \in Item!Started({g}, i)
           /\ g \in C /\ Item!Started({g}, i) # {} => g \in Item!Started(C, i)
BY DEF Item!Started

LEMMA LoadoutRowsKnown ==
    ASSUME NEW C \in SUBSET Games
    PROVE  Item!LoadoutRows[C] =
              {[key |-> s, games |-> {g \in Item!Valid(C) : Item!Signature(g) = s}] :
                  s \in {Item!Signature(g) : g \in Item!Valid(C)}}
BY DEF Item!LoadoutRows

\* A batch's rows count games of the batch, under keys of the game.
LEMMA BatchFits ==
    ASSUME NEW C \in SUBSET Games, NEW c \in Item!BatchRows(C), NEW g \in c.games
    PROVE  g \in C /\ c.key \in ItemKeys(g)
<1>1. CASE c \in Item!SlotRows[C] /\ itemTable = "item_slot_analytics"
    <2>1. g \in C /\ c.key \in SlotsOf(g)
        BY <1>1, SlotRowsKnown
    <2>2. {g} \in SUBSET Games
        BY <2>1
    <2>3. [key |-> c.key, games |-> {h \in {g} : c.key \in SlotsOf(h)}] \in Item!SlotRows[{g}]
        BY <2>1, <2>2, SlotRowsKnown
    <2>4. [key |-> c.key, games |-> {h \in {g} : c.key \in SlotsOf(h)}] \in Item!BatchRows({g})
        BY <1>1, <2>3 DEF Item!BatchRows
    <2> QED
        BY <2>1, <2>4 DEF ItemKeys
<1>2. CASE c \in Item!StartingRows[C] /\ itemTable = "item_slot_analytics"
    <2>1. PICK i \in StartingItems : c.key = <<0, i>> /\ c.games \subseteq Item!Started(C, i)
        BY <1>2, StartingRowsKnown
    <2>2. g \in C /\ g \in Item!Started({g}, i)
        BY <2>1, StartedKnown
    <2>3. {g} \in SUBSET Games
        BY <2>2
    <2>4. PICK d \in Item!StartingRows[{g}] : d.key = <<0, i>>
        BY <2>2, <2>3, StartingRowsKnown
    <2>5. d \in Item!BatchRows({g})
        BY <1>2 DEF Item!BatchRows
    <2> QED
        BY <2>1, <2>2, <2>4, <2>5 DEF ItemKeys
<1>3. CASE c \in Item!LoadoutRows[C] /\ itemTable # "item_slot_analytics"
    <2>1. g \in Item!Valid(C) /\ c.key = Item!Signature(g)
        BY <1>3, LoadoutRowsKnown
    <2>2. g \in C /\ g \in Item!Valid({g}) /\ {g} \in SUBSET Games
        BY <2>1 DEF Item!Valid
    <2> DEFINE d == [key |-> c.key, games |-> {h \in Item!Valid({g}) : Item!Signature(h) = c.key}]
    <2>3. d \in Item!LoadoutRows[{g}]
        <3>1. c.key \in {Item!Signature(h) : h \in Item!Valid({g})}
            BY <2>1, <2>2
        <3>2. Item!LoadoutRows[{g}] =
                 {[key |-> s, games |-> {h \in Item!Valid({g}) : Item!Signature(h) = s}] :
                     s \in {Item!Signature(h) : h \in Item!Valid({g})}}
            BY <2>2, LoadoutRowsKnown, Zenon
        <3> QED
            BY <3>1, <3>2, Zenon
    <2>4. d \in Item!BatchRows({g}) /\ d.key = c.key
        BY <1>3, <2>3 DEF Item!BatchRows
    <2> QED
        BY <2>1, <2>2, <2>4 DEF ItemKeys
<1> QED
    BY <1>1, <1>2, <1>3 DEF Item!BatchRows

\* A batch has of each of its games a row under each of the game's keys.
LEMMA BatchCovers ==
    ASSUME NEW C \in SUBSET Games, NEW g \in C, NEW k \in ItemKeys(g)
    PROVE  \E c \in Item!BatchRows(C) : Holds(c, k, g)
<1>1. PICK d \in Item!BatchRows({g}) : d.key = k
    BY DEF ItemKeys
<1>2. {g} \in SUBSET Games
    OBVIOUS
<1>3. CASE d \in Item!SlotRows[{g}] /\ itemTable = "item_slot_analytics"
    <2>1. k \in SlotsOf(g)
        BY <1>1, <1>2, <1>3, SlotRowsKnown
    <2> DEFINE c == [key |-> k, games |-> {h \in C : k \in SlotsOf(h)}]
    <2>2. c \in Item!SlotRows[C]
        BY <2>1, SlotRowsKnown
    <2>3. c \in Item!BatchRows(C)
        BY <1>3, <2>2 DEF Item!BatchRows
    <2>4. g \in c.games /\ c.key = k
        BY <2>1
    <2> QED
        BY <2>3, <2>4 DEF Holds
<1>4. CASE d \in Item!StartingRows[{g}] /\ itemTable = "item_slot_analytics"
    <2>1. PICK i \in StartingItems : k = <<0, i>> /\ Item!Started({g}, i) # {}
        BY <1>1, <1>2, <1>4, StartingRowsKnown, Zenon
    <2>2. g \in Item!Started(C, i)
        BY <2>1, StartedKnown
    <2>3. PICK c \in Item!StartingRows[C] : c.key = <<0, i>> /\ \E h \in c.games : Won[h] = Won[g]
        BY <2>2, StartingRowsKnown, Zenon
    <2>4. PICK h \in c.games : Won[h] = Won[g]
        BY <2>3
    <2>5. Item!Entry(k, h) = Item!Entry(k, g)
        BY <1>4, <2>1, <2>4 DEF Item!Entry
    <2>6. c \in Item!BatchRows(C)
        BY <1>4 DEF Item!BatchRows
    <2> QED
        BY <2>1, <2>3, <2>5, <2>6 DEF Holds
<1>5. CASE d \in Item!LoadoutRows[{g}] /\ itemTable # "item_slot_analytics"
    <2>1. PICK h \in Item!Valid({g}) : k = Item!Signature(h)
        BY <1>1, <1>2, <1>5, LoadoutRowsKnown
    <2>2. g \in Item!Valid(C) /\ k = Item!Signature(g)
        BY <2>1 DEF Item!Valid
    <2> DEFINE c == [key |-> k, games |-> {x \in Item!Valid(C) : Item!Signature(x) = k}]
    <2>3. c \in Item!LoadoutRows[C]
        BY <2>2, LoadoutRowsKnown
    <2>4. c \in Item!BatchRows(C)
        BY <1>5, <2>3 DEF Item!BatchRows
    <2>5. g \in c.games /\ c.key = k
        BY <2>2
    <2> QED
        BY <2>4, <2>5 DEF Holds
<1> QED
    BY <1>1, <1>3, <1>4, <1>5 DEF Item!BatchRows

LEMMA EntriesKnown ==
    ASSUME NEW C \in SUBSET Games
    PROVE  /\ \A e \in EntriesOf(C) : \E g \in C : \E k \in ItemKeys(g) : e = Item!Entry(k, g)
           /\ \A g \in C : \A k \in ItemKeys(g) : Item!Entry(k, g) \in EntriesOf(C)
<1>1. ASSUME NEW e \in EntriesOf(C)
      PROVE  \E g \in C : \E k \in ItemKeys(g) : e = Item!Entry(k, g)
    <2>1. PICK c \in Item!BatchRows(C) : \E g \in c.games : e = Item!Entry(c.key, g)
        BY DEF EntriesOf, Item!Entries
    <2> QED
        BY <2>1, BatchFits
<1>2. ASSUME NEW g \in C, NEW k \in ItemKeys(g)
      PROVE  Item!Entry(k, g) \in EntriesOf(C)
    <2>1. PICK c \in Item!BatchRows(C) : Holds(c, k, g)
        BY BatchCovers
    <2>2. PICK h \in c.games : Item!Entry(c.key, h) = Item!Entry(k, g)
        BY <2>1 DEF Holds
    <2> QED
        BY <2>2 DEF EntriesOf, Item!Entries
<1> QED
    BY <1>1, <1>2

LEMMA EntriesGrow ==
    ASSUME NEW D \in SUBSET Games, NEW C \in SUBSET D
    PROVE  EntriesOf(C) \subseteq EntriesOf(D)
<1>1. C \in SUBSET Games
    OBVIOUS
<1> QED
    BY <1>1, EntriesKnown

-----------------------------------------------------------------------------
(* What readers see                                                         *)

\* The n-th completed item is in a slot from 1 on.
LEMMA SlotsBeginAtOne ==
    ASSUME Item!ItemAssumption, NEW g \in Games, NEW k \in SlotsOf(g)
    PROVE  k[1] # 0
<1> DEFINE built == {p \in Bought[g] : p.item \in CompletionItems}
<1>1. PICK p \in built : k = <<Item!Cardinality({q \in built : q.at <= p.at}), p.item>>
    BY DEF SlotsOf
<1> DEFINE before == {q \in built : q.at <= p.at}
<1>2. Bought[g] \subseteq [item : Nat, at : Nat] /\ IsFiniteSet(Bought[g])
    BY Zenon DEF Item!ItemAssumption, Item!IsFiniteSet, IsFiniteSet
<1>3. p \in before
    BY <1>2
<1>4. IsFiniteSet(before)
    BY <1>2, FS_Subset
<1>5. Cardinality(before) # 0
    BY <1>3, <1>4, FS_EmptySet
<1>6. Item!Cardinality(before) = Cardinality(before)
    BY DEF Item!Cardinality, Cardinality
<1> QED
    BY <1>1, <1>5, <1>6

\* What a live scan finds is what a refresh would compile.
LEMMA LiveIsCompiled ==
    ASSUME Item!ItemAssumption, NEW C \in SUBSET Games, itemStored = C,
           NEW k \in Item!TableKeys,
           NEW g \in IF itemTable = "item_slot_analytics" THEN Item!LiveScanSlots(k)
                     ELSE Item!LiveScanLoadouts(k)
    PROVE  g \in C /\ k \in ItemKeys(g)
<1>1. CASE itemTable = "item_slot_analytics" /\ k[1] = 0
    <2>1. PICK r \in Item!SlotRows[Games] \union Item!StartingRows[Games] : k = r.key
        BY <1>1 DEF Item!TableKeys, Item!SlotKeys
    <2>2. r \notin Item!SlotRows[Games]
        BY <1>1, <2>1, SlotRowsKnown, SlotsBeginAtOne
    <2>3. PICK i \in StartingItems : k = <<0, i>>
        BY <2>1, <2>2, StartingRowsKnown
    <2>4. g \in Item!Started(C, i)
        BY <1>1, <2>3 DEF Item!LiveScanSlots
    <2>5. PICK c \in Item!StartingRows[C] : c.key = k /\ \E h \in c.games : Won[h] = Won[g]
        BY <2>3, <2>4, StartingRowsKnown
    <2>6. g \in C /\ g \in Item!Started({g}, i)
        BY <2>4, StartedKnown
    <2>7. {g} \in SUBSET Games
        BY <2>6
    <2>8. PICK d \in Item!StartingRows[{g}] : d.key = k
        BY <2>3, <2>6, <2>7, StartingRowsKnown
    <2> QED
        BY <1>1, <2>6, <2>8 DEF ItemKeys, Item!BatchRows
<1>2. CASE itemTable = "item_slot_analytics" /\ k[1] # 0
    <2>1. PICK r \in Item!SlotRows[C] : r.key = k /\ g \in r.games
        BY <1>2 DEF Item!LiveScanSlots
    <2>2. r \in Item!BatchRows(C)
        BY <1>2 DEF Item!BatchRows
    <2> QED
        BY <2>1, <2>2, BatchFits
<1>3. CASE itemTable # "item_slot_analytics"
    <2>1. PICK r \in Item!LoadoutRows[C] : r.key = k /\ g \in r.games
        BY <1>3 DEF Item!LiveScanLoadouts
    <2>2. r \in Item!BatchRows(C)
        BY <1>3 DEF Item!BatchRows
    <2> QED
        BY <2>1, <2>2, BatchFits
<1> QED
    BY <1>1, <1>2, <1>3

\* With a snapshot readers see its final rows, without one what is stored.
LEMMA ShownKnown ==
    ASSUME Item!ItemAssumption, itemStored \in SUBSET Games
    PROVE  /\ itemRows # {} => Item!Shown = Item!Entries(Item!Final(itemRows))
           /\ itemRows = {} => Item!Shown \subseteq EntriesOf(itemStored)
           /\ itemRows = {} /\ (itemClosed \/ itemStored = {}) => Item!Shown = {}
<1> DEFINE seen == Item!Final(itemRows)
           keys == IF Item!HasData THEN {r.key : r \in seen} ELSE Item!TableKeys
           query(k) == IF itemTable = "item_slot_analytics" THEN Item!QueryItemSlots(seen, k)
                       ELSE Item!QueryStartingItemLoadouts(seen, k)
           found == Item!Entries({[key |-> k, games |-> query(k)] : k \in keys})
<1>1. Item!Shown = IF itemStored = {} /\ itemRows = {} THEN {} ELSE found
    BY DEF Item!Shown
<1>2. Item!HasData <=> (itemRows # {} \/ itemClosed)
    BY DEF Item!HasData, Item!PatchIsClosed
<1>3. CASE itemRows # {}
    <2>1. \A k : query(k) = UNION {r.games : r \in {r \in seen : r.key = k}}
        BY <1>2, <1>3 DEF Item!QueryItemSlots, Item!QueryStartingItemLoadouts, Item!SlotSummary,
           Item!LoadoutSummary, Item!Summed
    <2>2. keys = {r.key : r \in seen}
        BY <1>2, <1>3
    <2> HIDE DEF query, seen, keys
    <2>3. \A e : e \in found <=> \E k \in keys : \E g \in query(k) : e = Item!Entry(k, g)
        <3>1. \A e \in found : \E k \in keys : \E g \in query(k) : e = Item!Entry(k, g)
            BY DEF Item!Entries
        <3>2. ASSUME NEW k \in keys, NEW g \in query(k)
              PROVE  Item!Entry(k, g) \in found
            <4> DEFINE c == [key |-> k, games |-> query(k)]
            <4>1. c \in {[key |-> x, games |-> query(x)] :
                      x \in keys} /\ g \in c.games /\ c.key = k
                OBVIOUS
            <4> HIDE DEF c
            <4> QED
                BY <4>1 DEF Item!Entries
        <3> QED
            BY <3>1, <3>2
    <2>4. \A e : e \in Item!Entries(seen) <=> \E r \in seen : \E g \in r.games :
              e = Item!Entry(r.key, g)
        BY DEF Item!Entries
    <2>5. \A k, g : g \in query(k) <=> \E r \in seen : r.key = k /\ g \in r.games
        BY <2>1
    <2>6. \A e : e \in found <=> e \in Item!Entries(seen)
        BY <2>2, <2>3, <2>4, <2>5
    <2>7. found = Item!Entries(seen)
        BY <2>6, Zenon
    <2> QED
        BY <1>1, <1>3, <2>7 DEF seen
<1>4. CASE itemRows = {}
    <2>1. seen = {}
        BY <1>4 DEF Item!Final
    <2>2. CASE itemClosed
        <3>1. keys = {}
            BY <1>2, <2>1, <2>2
        <3>2. found = {}
            BY <3>1 DEF Item!Entries
        <3> QED
            BY <1>1, <1>4, <3>2
    <2>3. CASE ~ itemClosed
        <3>1. keys = Item!TableKeys /\ ~ Item!HasData
            BY <1>2, <1>4, <2>3
        <3>2. \A k : Item!Summed(seen, k) = {}
            BY <2>1 DEF Item!Summed
        <3>3. \A k : query(k) = IF itemTable = "item_slot_analytics" THEN Item!LiveScanSlots(k)
                                ELSE Item!LiveScanLoadouts(k)
            BY <3>1, <3>2 DEF Item!QueryItemSlots, Item!QueryStartingItemLoadouts,
               Item!SlotSummary, Item!LoadoutSummary
        <3>4. \A k \in keys : \A g \in query(k) : g \in itemStored /\ k \in ItemKeys(g)
            BY <3>1, <3>3, LiveIsCompiled
        <3> HIDE DEF query, seen, keys
        <3>5. \A e \in found : \E k \in keys : \E g \in query(k) : e = Item!Entry(k, g)
            BY DEF Item!Entries
        <3>6. found \subseteq EntriesOf(itemStored)
            BY <3>4, <3>5, EntriesKnown
        <3> QED
            BY <1>1, <1>4, <2>3, <3>6
    <2> QED
        BY <2>2, <2>3
<1> QED
    BY <1>3, <1>4

\* What a run compiles can be asked for.
LEMMA EntriesCountable ==
    ASSUME NEW C \in SUBSET Games
    PROVE  EntriesOf(C) \subseteq Item!Countable
<1>1. ASSUME NEW g \in Games, NEW k \in ItemKeys(g)
      PROVE  k \in Item!TableKeys
    <2>1. PICK c \in Item!BatchRows(Games) : c.key = k
        BY BatchCovers DEF Holds
    <2> QED
        BY <2>1 DEF Item!BatchRows, Item!TableKeys, Item!SlotKeys, Item!LoadoutKeys
<1>2. ASSUME NEW g \in Games, NEW k \in Item!TableKeys
      PROVE  Item!Entry(k, g) \in Item!Countable
    <2>1. [key |-> k, games |-> Games] \in {[key |-> x, games |-> Games] : x \in Item!TableKeys}
        OBVIOUS
    <2> QED
        BY <2>1 DEF Item!Countable, Item!Entries
<1> QED
    BY <1>1, <1>2, EntriesKnown

-----------------------------------------------------------------------------
(* The types of the items                                                   *)

ItemSteps == {"orphans", "platform", "batch", "aggregate", "clean", "rollup", "old"}

ItemPlatforms == UNION {{l[g] : g \in Games} : l \in Layouts}

ItemJobs ==
    [step : ItemSteps, at : Nat, nonce : Nat, alone : BOOLEAN, all : SUBSET ItemPlatforms,
     todo : SUBSET ItemPlatforms, platform : ItemPlatforms \union {"none"}, ids : SUBSET Games,
     batch : Nat, compiled : SUBSET Games]

ItemStateOK ==
    /\ itemTable \in Item!Tables
    /\ itemPlatformOf \in Layouts
    /\ itemStored \subseteq Games
    /\ itemClosed \in BOOLEAN
    /\ itemClock \in Nat
    /\ itemRuns \in 0..MaxRuns
    /\ itemTrusted \in BOOLEAN
    /\ itemJob = [r \in Refreshers |-> itemJob[r]]
    /\ \A r \in Refreshers :
          \/ itemJob[r] = Item!Idle
          \/ itemJob[r] \in ItemJobs /\ itemJob[r].at <= itemClock
    /\ \A w \in itemRows : w.games \subseteq Games /\ w.at \in Nat /\ w.at <= itemClock

\* A batch's rows count games of the batch.
LEMMA RowsOfBatch ==
    ASSUME NEW G \in SUBSET Games, NEW c \in Item!BatchRows(G)
    PROVE  c.games \subseteq G
<1>1. ASSUME NEW r \in Item!SlotRows[G]
      PROVE  r.games \subseteq G
    BY <1>1 DEF Item!SlotRows
<1>2. ASSUME NEW r \in Item!StartingRows[G]
      PROVE  r.games \subseteq G
    BY <1>2 DEF Item!StartingRows, Item!Started
<1>3. ASSUME NEW r \in Item!LoadoutRows[G]
      PROVE  r.games \subseteq G
    BY <1>3 DEF Item!LoadoutRows, Item!Valid
<1> QED
    BY <1>1, <1>2, <1>3 DEF Item!BatchRows

\* So do the rows added up from them.
LEMMA RowsSummed ==
    ASSUME NEW rs, \A r \in rs : r.games \subseteq Games, NEW c \in Item!SumRows(rs)
    PROVE  c.games \subseteq Games
BY DEF Item!SumRows

LEMMA RowsStamped ==
    ASSUME NEW compiled, NEW p, NEW at, NEW w \in Item!Stamp(compiled, p, at)
    PROVE  w.at = at /\ w.platform = p /\ \E c \in compiled : w.key = c.key /\ w.games = c.games
BY DEF Item!Stamp

LEMMA RowsAdded ==
    ASSUME NEW rs, NEW new, NEW w \in Item!Insert(rs, new)
    PROVE  w \in rs \/ w \in new
BY DEF Item!Insert

LEMMA ItemFinite ==
    ASSUME Item!ItemAssumption
    PROVE  IsFiniteSet(Games) /\ BatchSize \in Nat \ {0} /\ MaxRuns \in Nat
BY DEF Item!ItemAssumption, Item!IsFiniteSet, IsFiniteSet

LEMMA NextBatchWithin ==
    ASSUME Item!ItemAssumption, NEW ids \in SUBSET Games
    PROVE  Item!NextBatch(ids) \subseteq ids
<1>1. IsFiniteSet(ids) /\ BatchSize \in Nat
    BY ItemFinite, FS_Subset
<1>2. \E b \in SUBSET ids :
          Item!Cardinality(b) = IF Item!Cardinality(ids) < BatchSize
                                THEN Item!Cardinality(ids) ELSE BatchSize
    BY <1>1, SomeBatch, Zenon DEF Item!Cardinality, Cardinality
<1> QED
    BY <1>2 DEF Item!NextBatch

\* What a statement leaves are earlier rows and rows of its run.
LEMMA EffectFits ==
    ASSUME Item!ItemAssumption, ItemStateOK, NEW j \in ItemJobs, NEW w \in Item!Effect(j)
    PROVE  w \in itemRows \/ (w.at = j.at /\ w.games \subseteq Games)
<1>1. CASE j.step = "orphans"
    BY <1>1 DEF Item!Effect, Item!DropOrphans
<1>2. CASE j.step = "batch"
    <2> DEFINE batch == Item!NextBatch(j.ids) \intersect itemStored
    <2>1. batch \in SUBSET Games
        BY DEF ItemStateOK
    <2>2. w \in itemRows \/ w \in Item!Stamp(Item!BatchRows(batch), Item!Partial(j, j.batch + 1), j.at)
        BY <1>2, RowsAdded DEF Item!Effect
    <2> HIDE DEF batch
    <2>3. ASSUME w \in Item!Stamp(Item!BatchRows(batch), Item!Partial(j, j.batch + 1), j.at)
          PROVE  w.at = j.at /\ w.games \subseteq Games
        <3>1. w.at = j.at /\ \E c \in Item!BatchRows(batch) : w.games = c.games
            BY <2>3, RowsStamped
        <3> QED
            BY <2>1, <3>1, RowsOfBatch
    <2> QED
        BY <2>2, <2>3
<1>3. CASE j.step \in {"aggregate", "rollup"}
    <2>1. PICK platforms, p : w \in itemRows \/ w \in Item!Stamp(Item!SumRows(Item!Own(j, platforms)), p, j.at)
        <3>1. CASE j.step = "aggregate"
            BY <3>1, RowsAdded DEF Item!Effect, Item!AggregateBatches
        <3>2. CASE j.step = "rollup"
            BY <3>2, RowsAdded DEF Item!Effect, Item!AggregatePlatforms
        <3> QED
            BY <1>3, <3>1, <3>2
    <2>2. \A r \in Item!Own(j, platforms) : r.games \subseteq Games
        BY DEF Item!Own, Item!Final, ItemStateOK
    <2>3. ASSUME w \in Item!Stamp(Item!SumRows(Item!Own(j, platforms)), p, j.at)
          PROVE  w.at = j.at /\ w.games \subseteq Games
        <3>1. w.at = j.at /\ \E c \in Item!SumRows(Item!Own(j, platforms)) : w.games = c.games
            BY <2>3, RowsStamped
        <3> QED
            BY <2>2, <3>1, RowsSummed
    <2> QED
        BY <2>1, <2>3
<1>4. CASE j.step \in {"clean", "old", "platform"}
    BY <1>4 DEF Item!Effect, Item!DropBatches, Item!DropOld
<1> QED
    BY <1>1, <1>2, <1>3, <1>4 DEF ItemJobs, ItemSteps

\* Where a refresh goes next is a state a refresh can be in.
LEMMA AdvanceFits ==
    ASSUME Item!ItemAssumption, ItemStateOK, NEW j \in ItemJobs,
           j.step \in {"platform", "batch", "aggregate", "clean", "rollup"}
    PROVE  Item!Advance(j) \in ItemJobs /\ Item!Advance(j).at = j.at
<1>1. CASE j.step = "platform" /\ j.todo = {}
    BY <1>1 DEF Item!Advance, ItemJobs, ItemSteps
<1>2. CASE j.step = "platform" /\ j.todo # {}
    <2> DEFINE p == CHOOSE p \in j.todo : TRUE
               ids == Item!MatchIDs(p)
               step == IF ids = {} THEN "aggregate" ELSE "batch"
               todo == j.todo \ {p}
    <2>1. Item!Advance(j) = [j EXCEPT !.platform = p, !.todo = todo, !.batch = 0,
                                      !.ids = ids, !.step = step]
        BY <1>2 DEF Item!Advance
    <2>2. j.todo \in SUBSET ItemPlatforms
        BY DEF ItemJobs
    <2>3. p \in ItemPlatforms \union {"none"} /\ todo \in SUBSET ItemPlatforms
        BY <1>2, <2>2
    <2>4. ids \in SUBSET Games /\ step \in ItemSteps
        BY DEF Item!MatchIDs, ItemStateOK, ItemSteps
    <2>5. 0 \in Nat
        OBVIOUS
    <2> HIDE DEF p, ids, step, todo
    <2> QED
        BY <2>1, <2>3, <2>4, <2>5, Zenon DEF ItemJobs
<1>3. CASE j.step = "batch"
    <2> DEFINE b == Item!NextBatch(j.ids)
               ids == j.ids \ b
               step == IF ids = {} THEN "aggregate" ELSE "batch"
               compiled == j.compiled \union b
               n == j.batch + 1
    <2>1. Item!Advance(j) = [j EXCEPT !.ids = ids, !.batch = n, !.compiled = compiled,
                                      !.step = step]
        BY <1>3 DEF Item!Advance
    <2>2. j.ids \subseteq Games /\ j.compiled \subseteq Games
        BY DEF ItemJobs
    <2>3. b \subseteq j.ids
        BY <2>2, NextBatchWithin
    <2>4. ids \in SUBSET Games /\ compiled \in SUBSET Games /\ step \in ItemSteps
        BY <2>2, <2>3 DEF ItemSteps
    <2>5. n \in Nat
        BY DEF ItemJobs
    <2> HIDE DEF b, ids, step, compiled, n
    <2> QED
        BY <2>1, <2>4, <2>5, Zenon DEF ItemJobs
<1>4. CASE j.step \in {"aggregate", "clean", "rollup"}
    BY <1>4, Zenon DEF Item!Advance, ItemJobs, ItemSteps
<1> QED
    BY <1>1, <1>2, <1>3, <1>4

\* A refresher's record with one field changed.
LEMMA JobsKeep ==
    ASSUME ItemStateOK, NEW r \in Refreshers, NEW v,
           itemJob' = [itemJob EXCEPT ![r] = v]
    PROVE  /\ itemJob' = [q \in Refreshers |-> itemJob'[q]]
           /\ itemJob'[r] = v
           /\ \A q \in Refreshers : q # r => itemJob'[q] = itemJob[q]
BY DEF ItemStateOK

LEMMA StepItemState ==
    ASSUME Item!ItemAssumption, ItemStateOK, [Item!Next]_(Item!vars)
    PROVE  ItemStateOK'
<1>1. ASSUME NEW g \in Games, Item!Store(g)
      PROVE  ItemStateOK'
    BY <1>1 DEF Item!Store, ItemStateOK
<1>2. ASSUME NEW r \in Refreshers, Item!StartRefresh(r)
      PROVE  ItemStateOK'
    <2> DEFINE new == Item!RefreshItemSlots(r)
    <2>1. UNCHANGED <<itemTable, itemPlatformOf, itemStored, itemClosed, itemRows, itemClock,
                      itemComplete>>
          /\ itemRuns' = itemRuns + 1 /\ itemRuns < MaxRuns
          /\ itemTrusted' = (itemTrusted /\ Item!Active = {})
          /\ itemJob' = [s \in Refreshers |->
                IF s = r THEN new
                ELSE IF s \in Item!Active THEN [itemJob[s] EXCEPT !.alone = FALSE]
                ELSE itemJob[s]]
        BY <1>2 DEF Item!StartRefresh, Item!RefreshLoadouts
    <2>2. itemRuns' \in 0..MaxRuns /\ itemRuns + 1 \in Nat
        BY <2>1 DEF ItemStateOK, Item!ItemAssumption
    <2>3. Item!PlatformsOf(itemStored) \in SUBSET ItemPlatforms
        BY DEF Item!PlatformsOf, ItemPlatforms, ItemStateOK
    <2>4. new \in ItemJobs /\ new.at = 0
        <3> DEFINE alone == Item!Active = {}
        <3>1. alone \in BOOLEAN
            OBVIOUS
        <3>2. new = [step |-> "orphans", at |-> 0, nonce |-> itemRuns + 1, alone |-> alone,
                     all |-> Item!PlatformsOf(itemStored), todo |-> Item!PlatformsOf(itemStored),
                     platform |-> "none", ids |-> {}, batch |-> 0, compiled |-> {}]
            BY DEF Item!RefreshItemSlots
        <3> HIDE DEF new, alone
        <3> QED
            BY <2>2, <2>3, <3>1, <3>2 DEF ItemJobs, ItemSteps
    <2> HIDE DEF new
    <2>5. ASSUME NEW q \in Refreshers
          PROVE  \/ itemJob'[q] = Item!Idle
                 \/ itemJob'[q] \in ItemJobs /\ itemJob'[q].at <= itemClock'
        <3>1. CASE q = r
            BY <2>1, <2>4, <3>1 DEF ItemStateOK
        <3>2. CASE q # r /\ q \in Item!Active
            <4>1. itemJob'[q] = [itemJob[q] EXCEPT !.alone = FALSE]
                BY <2>1, <3>2
            <4>2. itemJob[q] \in ItemJobs /\ itemJob[q].at <= itemClock
                BY <3>2 DEF Item!Active, Item!Idle, ItemStateOK
            <4> QED
                BY <2>1, <4>1, <4>2, Zenon DEF ItemJobs
        <3>3. CASE q # r /\ q \notin Item!Active
            BY <2>1, <3>3 DEF ItemStateOK
        <3> QED
            BY <3>1, <3>2, <3>3
    <2>6. itemJob' = [q \in Refreshers |-> itemJob'[q]]
        BY <2>1
    <2> QED
        BY <2>1, <2>2, <2>5, <2>6, itemTrusted' \in BOOLEAN DEF ItemStateOK
<1>3. ASSUME NEW r \in Refreshers, Item!StampRun(r)
      PROVE  ItemStateOK'
    <2>1. PICK at \in {itemClock, itemClock + 1} :
            /\ itemClock' = at
            /\ itemJob' = [itemJob EXCEPT ![r] = [itemJob[r] EXCEPT !.at = at, !.step = "platform"]]
        BY <1>3, Zenon DEF Item!StampRun
    <2>2. UNCHANGED <<itemTable, itemPlatformOf, itemStored, itemClosed, itemRuns, itemComplete,
                      itemTrusted>>
          /\ itemRows' = Item!Effect(itemJob[r])
          /\ itemJob[r].step = "orphans"
        BY <1>3 DEF Item!StampRun
    <2>3. itemJob[r] \in ItemJobs /\ itemJob[r].at <= itemClock
        BY <2>2 DEF Item!Idle, ItemStateOK
    <2>4. at \in Nat /\ itemClock <= at
        BY <2>1 DEF ItemStateOK
    <2> DEFINE v == [itemJob[r] EXCEPT !.at = at, !.step = "platform"]
    <2>5. v \in ItemJobs /\ v.at = at
        BY <2>3, <2>4, Zenon DEF ItemJobs, ItemSteps
    <2> HIDE DEF v
    <2>6. /\ itemJob' = [q \in Refreshers |-> itemJob'[q]]
          /\ itemJob'[r] = v
          /\ \A q \in Refreshers : q # r => itemJob'[q] = itemJob[q]
        BY <2>1, JobsKeep, Zenon DEF v
    <2>7. \A q \in Refreshers :
             \/ itemJob'[q] = Item!Idle
             \/ itemJob'[q] \in ItemJobs /\ itemJob'[q].at <= itemClock'
        <3> SUFFICES ASSUME NEW q \in Refreshers, itemJob'[q] # Item!Idle
                     PROVE  itemJob'[q] \in ItemJobs /\ itemJob'[q].at <= itemClock'
            OBVIOUS
        <3>1. CASE q = r
            BY <2>1, <2>4, <2>5, <2>6, <3>1
        <3>2. CASE q # r
            <4>1. itemJob[q] \in ItemJobs /\ itemJob[q].at <= itemClock
                BY <2>6, <3>2 DEF ItemStateOK
            <4>2. itemJob[q].at \in Nat /\ itemClock \in Nat
                BY <4>1 DEF ItemJobs, ItemStateOK
            <4> QED
                BY <2>1, <2>4, <2>6, <3>2, <4>1, <4>2
        <3> QED
            BY <3>1, <3>2
    <2>8. \A w \in itemRows' : w.games \subseteq Games /\ w.at \in Nat /\ w.at <= itemClock'
        <3>1. \A w \in itemRows' : w \in itemRows \/ (w.at = itemJob[r].at /\ w.games \subseteq Games)
            BY <2>2, <2>3, EffectFits
        <3>2. \A w \in itemRows' : w.games \subseteq Games /\ w.at \in Nat /\ w.at <= itemClock
            BY <2>3, <3>1 DEF ItemJobs, ItemStateOK
        <3>3. itemClock \in Nat
            BY DEF ItemStateOK
        <3> QED
            BY <2>1, <2>4, <3>2, <3>3
    <2>9. itemClock' \in Nat
        BY <2>1, <2>4
    <2> QED
        BY <2>2, <2>6, <2>7, <2>8, <2>9 DEF ItemStateOK
<1>4. ASSUME NEW r \in Refreshers,
             Item!Statement(r) \/ Item!FinishRefresh(r) \/ Item!Repeat(r) \/ Item!Abort(r)
      PROVE  ItemStateOK'
    <2>1. UNCHANGED <<itemTable, itemPlatformOf, itemStored, itemClosed, itemRuns, itemClock>>
        BY <1>4 DEF Item!Statement, Item!FinishRefresh, Item!Repeat, Item!Abort
    <2>2. itemJob[r] \in ItemJobs /\ itemJob[r].at <= itemClock
        BY <1>4 DEF Item!Statement, Item!FinishRefresh, Item!Repeat, Item!Abort, Item!Idle,
                    ItemStateOK
    <2>3. \E v : itemJob' = [itemJob EXCEPT ![r] = v]
                /\ (v = Item!Idle \/ (v \in ItemJobs /\ v.at = itemJob[r].at))
        <3>1. CASE Item!Statement(r)
            <4>1. itemJob' = [itemJob EXCEPT ![r] = Item!Advance(itemJob[r])]
                BY <3>1 DEF Item!Statement, ItemStateOK
            <4>2. itemJob[r].step \in {"platform", "batch", "aggregate", "clean", "rollup"}
                BY <3>1 DEF Item!Statement
            <4> QED
                BY <2>2, <4>1, <4>2, AdvanceFits, Zenon
        <3>2. CASE Item!FinishRefresh(r) \/ Item!Abort(r)
            <4> WITNESS Item!Idle
            <4> QED
                BY <3>2 DEF Item!FinishRefresh, Item!Abort
        <3>3. CASE Item!Repeat(r)
            <4>1. itemJob' = itemJob
                BY <3>3 DEF Item!Repeat
            <4>2. itemJob' = [itemJob EXCEPT ![r] = itemJob[r]]
                BY <4>1 DEF ItemStateOK
            <4> QED
                BY <2>2, <4>2, Zenon
        <3> QED
            BY <1>4, <3>1, <3>2, <3>3
    <2>4. PICK v : itemJob' = [itemJob EXCEPT ![r] = v]
                /\ (v = Item!Idle \/ (v \in ItemJobs /\ v.at = itemJob[r].at))
        BY <2>3, Zenon
    <2>5. /\ itemJob' = [q \in Refreshers |-> itemJob'[q]]
          /\ itemJob'[r] = v
          /\ \A q \in Refreshers : q # r => itemJob'[q] = itemJob[q]
        BY <2>4, JobsKeep, Zenon
    <2>6. \A q \in Refreshers :
             \/ itemJob'[q] = Item!Idle
             \/ itemJob'[q] \in ItemJobs /\ itemJob'[q].at <= itemClock'
        BY <2>1, <2>2, <2>4, <2>5 DEF ItemStateOK
    <2>7. itemRows' = itemRows \/ itemRows' = Item!Effect(itemJob[r])
        BY <1>4 DEF Item!Statement, Item!FinishRefresh, Item!Repeat, Item!Abort
    <2>8. \A w \in itemRows' : w.games \subseteq Games /\ w.at \in Nat /\ w.at <= itemClock'
        <3>1. \A w \in itemRows' : w \in itemRows \/ (w.at = itemJob[r].at /\ w.games \subseteq Games)
            BY <2>2, <2>7, EffectFits
        <3> QED
            BY <2>1, <2>2, <3>1 DEF ItemJobs, ItemStateOK
    <2>9. itemTrusted' \in BOOLEAN
        BY <1>4, Zenon DEF Item!Statement, Item!FinishRefresh, Item!Repeat, Item!Abort,
           ItemStateOK
    <2> QED
        BY <2>1, <2>5, <2>6, <2>8, <2>9 DEF ItemStateOK
<1>5. CASE Item!ClosePatch
    BY <1>5 DEF Item!ClosePatch, ItemStateOK
<1>6. CASE Item!PrunePatch
    <2>1. UNCHANGED <<itemTable, itemPlatformOf, itemClosed, itemRows, itemClock, itemRuns,
                      itemComplete>>
          /\ itemStored' = {} /\ itemTrusted' = (itemTrusted /\ Item!Active = {})
          /\ itemJob' = [q \in Refreshers |->
                IF q \in Item!Active THEN [itemJob[q] EXCEPT !.alone = FALSE] ELSE itemJob[q]]
        BY <1>6 DEF Item!PrunePatch
    <2>2. ASSUME NEW q \in Refreshers
          PROVE  \/ itemJob'[q] = Item!Idle
                 \/ itemJob'[q] \in ItemJobs /\ itemJob'[q].at <= itemClock'
        <3>1. CASE q \in Item!Active
            <4>1. itemJob'[q] = [itemJob[q] EXCEPT !.alone = FALSE]
                BY <2>1, <3>1
            <4>2. itemJob[q] \in ItemJobs /\ itemJob[q].at <= itemClock
                BY <3>1 DEF Item!Active, Item!Idle, ItemStateOK
            <4> QED
                BY <2>1, <4>1, <4>2, Zenon DEF ItemJobs
        <3>2. CASE q \notin Item!Active
            BY <2>1, <3>2 DEF ItemStateOK
        <3> QED
            BY <3>1, <3>2
    <2>3. itemJob' = [q \in Refreshers |-> itemJob'[q]]
        BY <2>1
    <2> QED
        BY <2>1, <2>2, <2>3, itemTrusted' \in BOOLEAN DEF ItemStateOK
<1>7. CASE UNCHANGED Item!vars
    BY <1>7 DEF Item!vars, ItemStateOK
<1> QED
    BY <1>1, <1>2, <1>3, <1>4, <1>5, <1>6, <1>7 DEF Item!Next

\* What is complete was compiled.
LEMMA StepItemComplete ==
    ASSUME ItemStateOK, itemComplete \subseteq Item!Countable, [Item!Next]_(Item!vars)
    PROVE  (itemComplete \subseteq Item!Countable)'
<1>1. itemTable' = itemTable
    BY Zenon DEF Item!Next, Item!vars, Item!Store, Item!StartRefresh, Item!StampRun,
       Item!Statement,
       Item!FinishRefresh, Item!Repeat, Item!Abort, Item!ClosePatch, Item!PrunePatch
<1>2. Item!Countable' = Item!Countable
    BY <1>1 DEF Item!Countable, Item!TableKeys, Item!Entries, Item!Entry, Item!SlotKeys,
       Item!LoadoutKeys
<1>3. CASE itemComplete' = itemComplete
    BY <1>2, <1>3
<1>4. ASSUME NEW r \in Refreshers, Item!FinishRefresh(r), itemComplete' # itemComplete
      PROVE  itemComplete' \subseteq Item!Countable
    <2>1. itemComplete' = EntriesOf(itemJob[r].compiled)
        BY <1>4 DEF Item!FinishRefresh, EntriesOf
    <2>2. itemJob[r] \in ItemJobs
        BY <1>4 DEF Item!FinishRefresh, Item!Idle, ItemStateOK
    <2> QED
        BY <2>1, <2>2, EntriesCountable DEF ItemJobs
<1>5. itemComplete' = itemComplete \/ \E r \in Refreshers : Item!FinishRefresh(r)
    BY Zenon DEF Item!Next, Item!vars, Item!Store, Item!StartRefresh, Item!StampRun,
       Item!Statement,
       Item!Repeat, Item!Abort, Item!ClosePatch, Item!PrunePatch
<1> QED
    BY <1>2, <1>3, <1>4, <1>5

LEMMA ItemTypeCorrect ==
    ASSUME Item!ItemAssumption
    PROVE  Item!Spec => []Item!TypeOK
<1>1. Item!Init => ItemStateOK /\ itemComplete \subseteq Item!Countable
    <2> SUFFICES ASSUME Item!Init
                 PROVE  ItemStateOK /\ itemComplete \subseteq Item!Countable
        OBVIOUS
    <2>1. \A r \in Refreshers : itemJob[r] = Item!Idle
        BY DEF Item!Init
    <2>2. itemJob = [r \in Refreshers |-> itemJob[r]]
        BY DEF Item!Init
    <2>3. itemRuns \in 0..MaxRuns
        BY ItemFinite DEF Item!Init
    <2> QED
        BY <2>1, <2>2, <2>3, Zenon DEF Item!Init, ItemStateOK
<1>2. ItemStateOK /\ itemComplete \subseteq Item!Countable /\ [Item!Next]_(Item!vars) =>
          (ItemStateOK /\ itemComplete \subseteq Item!Countable)'
    BY StepItemState, StepItemComplete
<1>3. ItemStateOK /\ itemComplete \subseteq Item!Countable => Item!TypeOK
    BY DEF ItemStateOK, ItemJobs, Item!TypeOK, Item!Active, Item!Idle
<1> QED
    BY <1>1, <1>2, <1>3, PTL DEF Item!Spec

-----------------------------------------------------------------------------
(* The items' invariant.  Of a run under way it says how far it has come;   *)
(* of one that runs alone also that every row is of a game it covers, and   *)
(* where the rows of what it has compiled are.                              *)

Alone(r) == itemJob[r] # Item!Idle /\ itemJob[r].alone

\* A row has games of its key, and of its platform.
RowFits(w, runs) ==
    /\ \A g \in w.games : w.key \in ItemKeys(g)
    /\ \/ w.platform = Item!Whole("ALL")
       \/ \E p \in ItemPlatforms :
             /\ w.platform = Item!Whole(p) \/ \E n \in 1..runs, i \in Nat :
                    w.platform = <<p, n, i>>
             /\ \A g \in w.games : itemPlatformOf[g] = p

\* How far a run has come through its platforms.
RunFits(j, clock, runs) ==
    /\ j.nonce \in 1..runs
    /\ (j.alone /\ j.step # "orphans") => j.at = clock
    /\ j.step \in {"batch", "aggregate", "clean"} => j.platform \in j.all \ j.todo
    /\ j.todo \subseteq j.all
    /\ \A g \in j.ids : itemPlatformOf[g] = j.platform
    /\ \A g \in j.compiled : itemPlatformOf[g] \in j.all \ j.todo
    /\ j.step \in {"rollup", "old"} => j.todo = {}
    /\ j.step # "batch" => j.ids = {}
    /\ j.step = "orphans" => j.compiled = {}

\* Rows and the last snapshot are of these games.
OnlyOf(C, rs, complete) ==
    (\A w \in rs : w.games \subseteq C) /\ complete \subseteq EntriesOf(C)

\* The games a run has compiled or will.
CoveredBy(j, stored) ==
    j.compiled \union j.ids \union {g \in stored : itemPlatformOf[g] \in j.todo}

\* What a run has compiled is in its rows: the batches of the platform it is
\* at, and the others' platforms.
CompiledIn(rs, j) ==
    \A g \in j.compiled : \A k \in ItemKeys(g) : \E w \in rs :
        /\ w.at = j.at /\ Holds(w, k, g)
        /\ IF itemPlatformOf[g] = j.platform /\ j.step \in {"batch", "aggregate"}
           THEN w.platform \in Item!Partials(j) ELSE w.platform = Item!Whole(itemPlatformOf[g])

\* The rows of whole platforms show the last snapshot.
Serves(rs, complete) ==
    \A e \in complete : \E w \in Item!Final(rs) :
        ~ Item!IsPartial(w) /\ \E g \in w.games : e = Item!Entry(w.key, g)

RunsFit ==
    /\ \A r \in Refreshers : itemJob[r] # Item!Idle => RunFits(itemJob[r], itemClock, itemRuns)
    /\ \A r, s \in Item!Active : itemJob[r].nonce = itemJob[s].nonce => r = s
    /\ \A r \in Refreshers : Alone(r) => Item!Active = {r}
    /\ itemTrusted => \A r \in Item!Active : itemJob[r].alone

ItemRowsFit ==
    /\ \A w \in itemRows : RowFits(w, itemRuns)
    /\ \A w \in itemRows : \A r \in Item!Active :
          w.platform[2] = itemJob[r].nonce =>
              itemJob[r].step # "orphans" /\ w.at = itemJob[r].at

NothingIsOlder ==
    /\ ~ itemClosed => OnlyOf(itemStored, itemRows, itemComplete)
    /\ \A r \in Refreshers : Alone(r) =>
          /\ itemJob[r].compiled \union itemJob[r].ids \subseteq itemStored
          /\ OnlyOf(CoveredBy(itemJob[r], itemStored), itemRows, itemComplete)

CompiledIsThere ==
    \A r \in Refreshers : (Alone(r) /\ itemJob[r].step # "orphans") =>
        CompiledIn(itemRows, itemJob[r])

ItemReadersServed == itemTrusted => Serves(itemRows, itemComplete)

ItemIInv ==
    /\ ItemStateOK /\ RunsFit /\ ItemRowsFit /\ NothingIsOlder /\ CompiledIsThere
    /\ ItemReadersServed

-----------------------------------------------------------------------------
(* What a statement does to the rows *)

LEMMA ActiveKnown ==
    ASSUME ItemStateOK, NEW r \in Refreshers
    PROVE  /\ itemJob[r] # Item!Idle <=> r \in Item!Active
           /\ itemJob[r] # Item!Idle => itemJob[r] \in ItemJobs
BY DEF ItemStateOK, Item!Active, Item!Idle, ItemJobs, ItemSteps

\* The rows a statement adds.
Batch(j) == Item!NextBatch(j.ids) \intersect itemStored

AddedRows(j) ==
    CASE j.step = "batch"     -> Item!Stamp(Item!BatchRows(Batch(j)), Item!Partial(j, j.batch + 1), j.at)
      [] j.step = "aggregate" -> Item!Stamp(Item!SumRows(Item!Own(j, Item!Partials(j))),
                                            Item!Whole(j.platform), j.at)
      [] j.step = "rollup"    -> Item!Stamp(Item!SumRows(Item!Own(j, {Item!Whole(p) :
             p \in j.all})),
                                            Item!Whole("ALL"), j.at)
      [] OTHER                -> {}

LEMMA EffectKnown ==
    ASSUME NEW j \in ItemJobs
    PROVE  /\ j.step \in {"batch", "aggregate", "rollup"} =>
                 Item!Effect(j) = Item!Insert(itemRows, AddedRows(j))
           /\ j.step = "orphans" => Item!Effect(j) = {w \in itemRows : ~ Item!IsPartial(w)}
           /\ j.step = "clean" => Item!Effect(j) =
                 {w \in itemRows : ~ (w.at = j.at /\ w.platform \in Item!Partials(j))}
           /\ j.step = "old" => Item!Effect(j) = {w \in itemRows : ~ (w.at < j.at)}
           /\ j.step = "platform" => Item!Effect(j) = itemRows
BY DEF ItemJobs, ItemSteps, Item!Effect, AddedRows, Batch, Item!DropOrphans,
   Item!AggregateBatches,
       Item!DropBatches, Item!AggregatePlatforms, Item!DropOld

LEMMA StampKnown ==
    ASSUME NEW compiled, NEW p, NEW at
    PROVE  /\ \A w \in Item!Stamp(compiled, p, at) :
                 /\ w.platform = p /\ w.at = at
                 /\ \E c \in compiled : w.key = c.key /\ w.games = c.games
           /\ \A c \in compiled : \E w \in Item!Stamp(compiled, p, at) :
                 w.platform = p /\ w.at = at /\ w.key = c.key /\ w.games = c.games
<1>1. ASSUME NEW c \in compiled
      PROVE  \E w \in Item!Stamp(compiled, p, at) :
                 w.platform = p /\ w.at = at /\ w.key = c.key /\ w.games = c.games
    <2> DEFINE w == [platform |-> p, at |-> at, key |-> c.key, games |-> c.games]
    <2>1. w \in Item!Stamp(compiled, p, at)
        BY DEF Item!Stamp
    <2>2. w.platform = p /\ w.at = at /\ w.key = c.key /\ w.games = c.games
        OBVIOUS
    <2> QED
        BY <2>1, <2>2
<1> QED
    BY <1>1 DEF Item!Stamp

LEMMA SumKnown ==
    ASSUME NEW rs
    PROVE  /\ \A c \in Item!SumRows(rs) : \A g \in c.games :
                 \E r \in rs : r.key = c.key /\ g \in r.games
           /\ \A r \in rs : \E c \in Item!SumRows(rs) : c.key = r.key /\ r.games \subseteq c.games
<1>1. ASSUME NEW r \in rs
      PROVE  \E c \in Item!SumRows(rs) : c.key = r.key /\ r.games \subseteq c.games
    <2> DEFINE c == [key |-> r.key, games |-> UNION {q.games : q \in {q \in rs : q.key = r.key}}]
    <2>1. c \in Item!SumRows(rs)
        BY Zenon DEF Item!SumRows
    <2>2. c.key = r.key /\ r.games \subseteq c.games
        OBVIOUS
    <2> QED
        BY <2>1, <2>2
<1> QED
    BY <1>1 DEF Item!SumRows

\* A row an insert leaves is new, or was there; and it is replaced by a new one.
LEMMA ItemInsertKnown ==
    ASSUME NEW rs, NEW new
    PROVE  /\ new \subseteq Item!Insert(rs, new)
           /\ Item!Insert(rs, new) \subseteq rs \union new
           /\ \A w \in rs : \/ w \in Item!Insert(rs, new)
                            \/ \E n \in new : n.platform = w.platform /\ n.key = w.key
                                   /\ n.at = w.at
           /\ \A w \in Item!Final(Item!Insert(rs, new)) : w \in new \/ w \in Item!Final(rs)
<1>1. /\ new \subseteq Item!Insert(rs, new)
      /\ Item!Insert(rs, new) \subseteq rs \union new
      /\ \A w \in rs : \/ w \in Item!Insert(rs, new)
                       \/ \E n \in new : n.platform = w.platform /\ n.key = w.key /\ n.at = w.at
    BY DEF Item!Insert
<1>2. ASSUME NEW w \in Item!Final(Item!Insert(rs, new)), w \notin new
      PROVE  w \in Item!Final(rs)
    <2>1. w \in Item!Insert(rs, new) /\ w \in rs
        BY <1>1, <1>2 DEF Item!Final
    <2>2. ASSUME NEW s \in rs, s.platform = w.platform, s.key = w.key
          PROVE  s.at <= w.at
        BY <1>1, <1>2, <2>2 DEF Item!Final
    <2> QED
        BY <2>1, <2>2 DEF Item!Final
<1> QED
    BY <1>1, <1>2

LEMMA PartialsKnown ==
    ASSUME NEW j, j.batch \in Nat, NEW x
    PROVE  x \in Item!Partials(j) <=> \E n \in 1..j.batch : x = <<j.platform, j.nonce, n>>
BY DEF Item!Partials, Item!Partial

\* The name of a row's platform tells the platform and the run.
LEMMA PlatformNames ==
    ASSUME ItemStateOK, NEW w, RowFits(w, itemRuns)
    PROVE  /\ w.platform[2] \in 0..itemRuns
           /\ ~ Item!IsPartial(w) <=>
                 w.platform = Item!Whole("ALL") \/ \E p \in ItemPlatforms :
                     w.platform = Item!Whole(p)
           /\ \A g \in w.games :
                 w.platform # Item!Whole("ALL") => w.platform[1] = itemPlatformOf[g]
<1>1. itemRuns \in Nat
    BY DEF ItemStateOK
<1>2. CASE w.platform = Item!Whole("ALL")
    BY <1>1, <1>2 DEF Item!Whole, Item!IsPartial
<1>3. ASSUME NEW p \in ItemPlatforms, w.platform = Item!Whole(p), \A g \in w.games :
                 itemPlatformOf[g] = p
      PROVE  /\ w.platform[2] = 0 /\ w.platform[1] = p
    BY <1>3 DEF Item!Whole
<1>4. ASSUME NEW p \in ItemPlatforms, NEW n \in 1..itemRuns, NEW i \in Nat, w.platform =
                 <<p, n, i>>,
             \A g \in w.games : itemPlatformOf[g] = p
      PROVE  /\ w.platform[2] = n /\ w.platform[1] = p
             /\ w.platform # Item!Whole("ALL") /\ \A q : w.platform # Item!Whole(q)
    BY <1>4, <1>1 DEF Item!Whole
<1> QED
    BY <1>1, <1>2, <1>3, <1>4 DEF RowFits, Item!IsPartial

\* The rows a statement adds are new, of its run, and count games of its batch
\* or of rows that could be seen.
LEMMA AddedKnown ==
    ASSUME Item!ItemAssumption, ItemStateOK, RunsFit, ItemRowsFit, NEW r \in Refreshers,
           itemJob[r] # Item!Idle, NEW w \in AddedRows(itemJob[r])
    PROVE  /\ w.at = itemJob[r].at
           /\ \/ /\ itemJob[r].step = "batch"
                 /\ w.platform = Item!Partial(itemJob[r], itemJob[r].batch + 1)
              \/ itemJob[r].step = "aggregate" /\ w.platform = Item!Whole(itemJob[r].platform)
              \/ itemJob[r].step = "rollup" /\ w.platform = Item!Whole("ALL")
           /\ \A g \in w.games :
                 \/ /\ itemJob[r].step = "batch" /\ g \in Batch(itemJob[r])
                    /\ w.key \in ItemKeys(g)
                 \/ \E s \in Item!Final(itemRows) : s.key = w.key /\ g \in s.games
           /\ RowFits(w, itemRuns)
<1> DEFINE j == itemJob[r]
<1>1. j \in ItemJobs /\ RunFits(j, itemClock, itemRuns) /\ itemRuns \in Nat
    BY ActiveKnown DEF RunsFit, ItemStateOK
<1>2. j.nonce \in 1..itemRuns /\ j.batch \in Nat /\ j.all \subseteq ItemPlatforms
      /\ j.ids \subseteq Games
    BY <1>1 DEF RunFits, ItemJobs
<1> HIDE DEF j
<1>3. CASE j.step = "batch"
    <2>1. w \in Item!Stamp(Item!BatchRows(Batch(j)), Item!Partial(j, j.batch + 1), j.at)
        BY <1>3 DEF AddedRows, j
    <2>2. PICK c \in Item!BatchRows(Batch(j)) : w.key = c.key /\ w.games = c.games
        BY <2>1, StampKnown
    <2>3. w.at = j.at /\ w.platform = Item!Partial(j, j.batch + 1)
        BY <2>1, StampKnown
    <2>4. Batch(j) \subseteq j.ids /\ Batch(j) \subseteq Games
        BY <1>2, NextBatchWithin DEF Batch
    <2>5. \A g \in w.games : g \in Batch(j) /\ w.key \in ItemKeys(g)
              /\ itemPlatformOf[g] = j.platform
        BY <1>1, <2>2, <2>4, BatchFits DEF RunFits
    <2>6. j.platform \in ItemPlatforms /\ w.platform = <<j.platform, j.nonce, j.batch + 1>>
          /\ j.batch + 1 \in Nat
        BY <1>1, <1>2, <1>3, <2>3 DEF RunFits, Item!Partial
    <2>7. RowFits(w, itemRuns)
        BY <1>2, <2>5, <2>6 DEF RowFits
    <2> QED
        BY <1>3, <2>3, <2>5, <2>7 DEF j
<1>4. CASE j.step = "aggregate"
    <2> DEFINE own == Item!Own(j, Item!Partials(j))
    <2>1. w \in Item!Stamp(Item!SumRows(own), Item!Whole(j.platform), j.at)
        BY <1>4 DEF AddedRows, j
    <2>2. w.at = j.at /\ w.platform = Item!Whole(j.platform)
        BY <2>1, StampKnown
    <2>3. \A g \in w.games : \E s \in own : s.key = w.key /\ g \in s.games
        <3>1. PICK c \in Item!SumRows(own) : w.key = c.key /\ w.games = c.games
            BY <2>1, StampKnown
        <3> QED
            BY <3>1, SumKnown
    <2>4. \A s \in own : s \in Item!Final(itemRows) /\ s.platform \in Item!Partials(j)
        BY DEF Item!Own
    <2> HIDE DEF own
    <2>5. ASSUME NEW g \in w.games
          PROVE  /\ w.key \in ItemKeys(g) /\ itemPlatformOf[g] = j.platform
                 /\ \E s \in Item!Final(itemRows) : s.key = w.key /\ g \in s.games
        <3>1. PICK s \in own : s.key = w.key /\ g \in s.games
            BY <2>3
        <3>2. s \in itemRows /\ RowFits(s, itemRuns)
            BY <2>4 DEF Item!Final, ItemRowsFit
        <3>3. PICK n \in 1..j.batch : s.platform = <<j.platform, j.nonce, n>>
            BY <1>2, <2>4, PartialsKnown
        <3>4. s.platform # Item!Whole("ALL") /\ s.platform[1] = j.platform
            BY <1>2, <3>3 DEF Item!Whole
        <3> QED
            BY <2>4, <3>1, <3>2, <3>4, PlatformNames DEF RowFits
    <2>6. j.platform \in ItemPlatforms
        BY <1>1, <1>2, <1>4 DEF RunFits
    <2>7. RowFits(w, itemRuns)
        BY <2>2, <2>5, <2>6 DEF RowFits
    <2> QED
        BY <1>4, <2>2, <2>5, <2>7 DEF j
<1>5. CASE j.step = "rollup"
    <2> DEFINE own == Item!Own(j, {Item!Whole(p) : p \in j.all})
    <2>1. w \in Item!Stamp(Item!SumRows(own), Item!Whole("ALL"), j.at)
        BY <1>5 DEF AddedRows, j
    <2>2. w.at = j.at /\ w.platform = Item!Whole("ALL")
        BY <2>1, StampKnown
    <2>3. \A s \in own : s \in Item!Final(itemRows)
        BY DEF Item!Own
    <2> HIDE DEF own
    <2>4. \A g \in w.games : \E s \in own : s.key = w.key /\ g \in s.games
        <3>1. PICK c \in Item!SumRows(own) : w.key = c.key /\ w.games = c.games
            BY <2>1, StampKnown
        <3> QED
            BY <3>1, SumKnown
    <2>5. \A g \in w.games : w.key \in ItemKeys(g)
        BY <2>3, <2>4 DEF ItemRowsFit, RowFits, Item!Final
    <2>6. RowFits(w, itemRuns)
        BY <2>2, <2>5 DEF RowFits
    <2> QED
        BY <1>5, <2>2, <2>3, <2>4, <2>6 DEF j
<1>6. j.step \in {"batch", "aggregate", "rollup"}
    BY DEF AddedRows, j
<1> QED
    BY <1>3, <1>4, <1>5, <1>6

\* What a statement leaves fits.
LEMMA EffectRowsFit ==
    ASSUME Item!ItemAssumption, ItemStateOK, RunsFit, ItemRowsFit, NEW r \in Refreshers,
           itemJob[r] # Item!Idle
    PROVE  /\ \A w \in Item!Effect(itemJob[r]) : RowFits(w, itemRuns)
           /\ \A w \in Item!Effect(itemJob[r]) : w \notin itemRows =>
                 /\ w.at = itemJob[r].at
                 /\ \/ w.platform[2] = 0
                    \/ w.platform[2] = itemJob[r].nonce /\ itemJob[r].step = "batch"
           /\ itemJob[r].step = "orphans" =>
                 \A w \in Item!Effect(itemJob[r]) : w.platform[2] = 0
<1> DEFINE j == itemJob[r]
<1>1. j \in ItemJobs
    BY ActiveKnown
<1>2. CASE j.step \in {"batch", "aggregate", "rollup"}
    <2>1. Item!Effect(j) = Item!Insert(itemRows, AddedRows(j))
        BY <1>1, <1>2, EffectKnown
    <2>2. \A w \in Item!Effect(j) : w \in itemRows \/ w \in AddedRows(j)
        BY <2>1, ItemInsertKnown
    <2>3. \A w \in AddedRows(j) : /\ w.at = j.at /\ RowFits(w, itemRuns)
                                  /\ w.platform[2] = 0 \/ (w.platform[2] = j.nonce /\ j.step = "batch")
        BY AddedKnown DEF Item!Whole, Item!Partial
    <2> QED
        BY <1>2, <2>2, <2>3 DEF ItemRowsFit
<1>3. CASE j.step \in {"orphans", "platform", "clean", "old"}
    BY <1>1, <1>3, EffectKnown DEF ItemRowsFit, Item!IsPartial
<1> QED
    BY <1>1, <1>2, <1>3 DEF ItemJobs, ItemSteps

\* A statement shows no game that no reader saw and nobody stored.
LEMMA EffectOnlyOf ==
    ASSUME Item!ItemAssumption, ItemStateOK, RunsFit, ItemRowsFit, NEW r \in Refreshers,
           itemJob[r] # Item!Idle, NEW C, NEW complete, OnlyOf(C, itemRows, complete),
           itemJob[r].ids \intersect itemStored \subseteq C
    PROVE  OnlyOf(C, Item!Effect(itemJob[r]), complete)
<1> DEFINE j == itemJob[r]
<1>1. j \in ItemJobs
    BY ActiveKnown
<1>2. CASE j.step \in {"batch", "aggregate", "rollup"}
    <2>1. Item!Effect(j) = Item!Insert(itemRows, AddedRows(j))
        BY <1>1, <1>2, EffectKnown
    <2>2. \A w \in Item!Effect(j) : w \in itemRows \/ w \in AddedRows(j)
        BY <2>1, ItemInsertKnown
    <2>3. Batch(j) \subseteq C
        BY <1>1, NextBatchWithin DEF Batch, ItemJobs
    <2>4. ASSUME NEW w \in AddedRows(j), NEW g \in w.games
          PROVE  g \in C
        <3>1. g \in Batch(j) \/ \E s \in Item!Final(itemRows) : g \in s.games
            BY AddedKnown
        <3> QED
            BY <2>3, <3>1 DEF OnlyOf, Item!Final
    <2> QED
        BY <2>2, <2>4 DEF OnlyOf
<1>3. CASE j.step \in {"orphans", "platform", "clean", "old"}
    BY <1>1, <1>3, EffectKnown DEF OnlyOf
<1> QED
    BY <1>1, <1>2, <1>3 DEF ItemJobs, ItemSteps

LEMMA EffectShows ==
    ASSUME Item!ItemAssumption, ItemStateOK, RunsFit, ItemRowsFit, NEW r \in Refreshers,
           itemJob[r] # Item!Idle
    PROVE  Item!Entries(Item!Final(Item!Effect(itemJob[r]))) \subseteq
              Item!Entries(Item!Final(itemRows)) \union EntriesOf(itemStored)
<1> DEFINE j == itemJob[r]
<1>1. j \in ItemJobs /\ RunFits(j, itemClock, itemRuns) /\ itemRuns \in Nat
    BY ActiveKnown DEF RunsFit, ItemStateOK
<1>2. \A rs, e : e \in Item!Entries(rs) <=> \E w \in rs : \E g \in w.games :
          e = Item!Entry(w.key, g)
    BY DEF Item!Entries
<1>3. CASE j.step \in {"batch", "aggregate", "rollup"}
    <2>1. Item!Effect(j) = Item!Insert(itemRows, AddedRows(j))
        BY <1>1, <1>3, EffectKnown
    <2>2. \A w \in Item!Final(Item!Effect(j)) : w \in AddedRows(j) \/ w \in Item!Final(itemRows)
        BY <2>1, ItemInsertKnown
    <2>3. ASSUME NEW w \in AddedRows(j), NEW g \in w.games
          PROVE  Item!Entry(w.key, g) \in Item!Entries(Item!Final(itemRows)) \union EntriesOf(itemStored)
        <3>1. CASE g \in Batch(j) /\ w.key \in ItemKeys(g)
            <4>1. g \in itemStored /\ itemStored \in SUBSET Games
                BY <3>1 DEF Batch, ItemStateOK
            <4> QED
                BY <3>1, <4>1, EntriesKnown
        <3>2. ASSUME NEW s \in Item!Final(itemRows), s.key = w.key, g \in s.games
              PROVE  Item!Entry(w.key, g) \in Item!Entries(Item!Final(itemRows))
            BY <1>2, <3>2
        <3> QED
            BY <3>1, <3>2, AddedKnown
    <2> QED
        BY <1>2, <2>2, <2>3
<1>4. CASE j.step \in {"orphans", "clean", "old", "platform"}
    <2>1. Item!Final(Item!Effect(j)) \subseteq Item!Final(itemRows)
        <3>1. CASE j.step = "platform"
            BY <1>1, <3>1, EffectKnown
        <3>2. CASE j.step = "orphans"
            <4>1. Item!Effect(j) = {w \in itemRows : ~ Item!IsPartial(w)}
                BY <1>1, <3>2, EffectKnown
            <4> QED
                BY <4>1 DEF Item!Final, Item!IsPartial
        <3>3. CASE j.step = "old"
            <4>1. Item!Effect(j) = {w \in itemRows : ~ (w.at < j.at)}
                BY <1>1, <3>3, EffectKnown
            <4>2. \A w \in itemRows : w.at \in Nat
                BY DEF ItemStateOK
            <4>3. j.at \in Nat
                BY <1>1 DEF ItemJobs
            <4>4. ASSUME NEW w \in Item!Final(Item!Effect(j)), NEW s \in itemRows,
                         s.platform = w.platform, s.key = w.key
                  PROVE  s.at <= w.at
                <5>1. w \in itemRows /\ ~ (w.at < j.at)
                    BY <4>1 DEF Item!Final
                <5>2. CASE s.at < j.at
                    BY <4>2, <4>3, <5>1, <5>2
                <5>3. CASE s \in Item!Effect(j)
                    BY <4>4, <5>3 DEF Item!Final
                <5> QED
                    BY <4>1, <5>2, <5>3
            <4> QED
                BY <4>1, <4>4 DEF Item!Final
        <3>4. CASE j.step = "clean"
            <4>1. Item!Effect(j) = {w \in itemRows :
                      ~ (w.at = j.at /\ w.platform \in Item!Partials(j))}
                BY <1>1, <3>4, EffectKnown
            <4>2. r \in Item!Active
                BY ActiveKnown
            <4>3. ASSUME NEW w \in Item!Effect(j), NEW s \in itemRows \ Item!Effect(j)
                  PROVE  s.platform # w.platform
                <5>1. s.platform \in Item!Partials(j) /\ s.at = j.at
                    BY <4>1
                <5>2. s.platform[2] = j.nonce
                    BY <1>1, <5>1, PartialsKnown DEF ItemJobs
                <5>3. SUFFICES ASSUME w.platform = s.platform
                               PROVE  FALSE
                    OBVIOUS
                <5>4. w \in itemRows /\ w.platform[2] = j.nonce
                    BY <4>1, <5>2, <5>3
                <5>5. w.at = j.at
                    BY <4>2, <5>4 DEF ItemRowsFit
                <5> QED
                    BY <4>1, <5>1, <5>3, <5>4, <5>5
            <4>5. Item!Effect(j) \subseteq itemRows
                BY <4>1
            <4>6. ASSUME NEW w \in Item!Final(Item!Effect(j)), NEW s \in itemRows,
                         s.platform = w.platform, s.key = w.key
                  PROVE  s.at <= w.at
                <5>1. w \in Item!Effect(j)
                    BY DEF Item!Final
                <5>2. s \in Item!Effect(j)
                    BY <4>3, <4>6, <5>1
                <5> QED
                    BY <4>6, <5>2 DEF Item!Final
            <4> QED
                BY <4>5, <4>6 DEF Item!Final
        <3> QED
            BY <1>4, <3>1, <3>2, <3>3, <3>4
    <2> QED
        BY <1>2, <2>1
<1> QED
    BY <1>1, <1>3, <1>4 DEF ItemJobs, ItemSteps

-----------------------------------------------------------------------------
(* What a run has compiled, and what readers are served                     *)

\* The platform a stored game was played on has a name of its own.
LEMMA PlatformsOfGames ==
    ASSUME Item!ItemAssumption, ItemStateOK, NEW g \in Games
    PROVE  itemPlatformOf[g] \in ItemPlatforms /\ itemPlatformOf[g] # "ALL"
BY DEF Item!ItemAssumption, ItemStateOK, ItemPlatforms

\* What a run has compiled stays where it is through the statement it is at,
\* repeated or not.
LEMMA CompiledStays ==
    ASSUME Item!ItemAssumption, ItemStateOK, RunsFit, ItemRowsFit, NEW r \in Refreshers,
           itemJob[r] # Item!Idle, itemJob[r].step # "orphans",
           CompiledIn(itemRows, itemJob[r])
    PROVE  CompiledIn(Item!Effect(itemJob[r]), itemJob[r])
<1> DEFINE j == itemJob[r]
           Place(g, w) == IF itemPlatformOf[g] = j.platform /\ j.step \in {"batch", "aggregate"}
                          THEN w.platform \in Item!Partials(j)
                          ELSE w.platform = Item!Whole(itemPlatformOf[g])
<1>1. /\ j \in ItemJobs /\ RunFits(j, itemClock, itemRuns) /\ itemRuns \in Nat
      /\ j.nonce \in 1..itemRuns /\ j.batch \in Nat /\ j.compiled \subseteq Games
      /\ j.at \in Nat
    BY ActiveKnown DEF RunsFit, ItemStateOK, RunFits, ItemJobs
<1> SUFFICES ASSUME NEW g \in j.compiled, NEW k \in ItemKeys(g)
             PROVE  \E w \in Item!Effect(j) : w.at = j.at /\ Holds(w, k, g) /\ Place(g, w)
    BY DEF CompiledIn
<1>2. PICK w \in itemRows : w.at = j.at /\ Holds(w, k, g) /\ Place(g, w)
    BY DEF CompiledIn
<1>3. itemPlatformOf[g] # "ALL"
    BY <1>1, PlatformsOfGames
<1> HIDE DEF j
<1>4. CASE j.step \in {"batch", "aggregate", "rollup"}
    <2>1. Item!Effect(j) = Item!Insert(itemRows, AddedRows(j))
        BY <1>1, <1>4, EffectKnown
    <2>2. ASSUME NEW n \in AddedRows(j)
          PROVE  n.platform # w.platform
        <3>1. \/ j.step = "batch" /\ n.platform = Item!Partial(j, j.batch + 1)
              \/ j.step = "aggregate" /\ n.platform = Item!Whole(j.platform)
              \/ j.step = "rollup" /\ n.platform = Item!Whole("ALL")
            BY AddedKnown DEF j
        <3>2. CASE w.platform \in Item!Partials(j) /\ j.step \in {"batch", "aggregate"}
            <4>1. PICK i \in 1..j.batch : w.platform = <<j.platform, j.nonce, i>>
                BY <1>1, <3>2, PartialsKnown
            <4> QED
                BY <1>1, <3>1, <3>2, <4>1 DEF Item!Partial, Item!Whole
        <3>3. CASE /\ w.platform = Item!Whole(itemPlatformOf[g])
                   /\ ~ (itemPlatformOf[g] = j.platform /\ j.step \in {"batch", "aggregate"})
            BY <1>1, <1>3, <3>1, <3>3 DEF Item!Partial, Item!Whole
        <3> QED
            BY <1>2, <3>2, <3>3
    <2>3. w \in Item!Effect(j)
        BY <2>1, <2>2, ItemInsertKnown
    <2> QED
        BY <1>2, <2>3
<1>5. CASE j.step = "clean"
    <2>1. w.platform = Item!Whole(itemPlatformOf[g])
        BY <1>2, <1>5
    <2>2. w.platform \notin Item!Partials(j)
        BY <1>1, <2>1, PartialsKnown DEF Item!Whole
    <2>3. w \in Item!Effect(j)
        BY <1>1, <1>5, <2>2, EffectKnown
    <2> QED
        BY <1>2, <2>3
<1>6. CASE j.step \in {"platform", "old"}
    <2>1. w \in Item!Effect(j)
        BY <1>1, <1>2, <1>6, EffectKnown
    <2> QED
        BY <1>2, <2>1
<1> QED
    BY <1>1, <1>4, <1>5, <1>6 DEF ItemJobs, ItemSteps, j

\* Rows of this second are what a FINAL query sees.
LEMMA RowsOfNow ==
    ASSUME NEW rs, \A w \in rs : w.at <= itemClock, NEW w \in rs, w.at = itemClock
    PROVE  w \in Item!Final(rs)
BY DEF Item!Final

\* A statement that is done takes its run to the next one.
LEMMA CompiledGoesOn ==
    ASSUME Item!ItemAssumption, ItemStateOK, RunsFit, ItemRowsFit, NothingIsOlder,
           NEW r \in Refreshers, Alone(r), CompiledIn(itemRows, itemJob[r]),
           itemJob[r].step \in {"platform", "batch", "aggregate", "clean", "rollup"}
    PROVE  CompiledIn(Item!Effect(itemJob[r]), Item!Advance(itemJob[r]))
<1> DEFINE j == itemJob[r]
           next == Item!Advance(j)
           after == Item!Effect(j)
<1>1. /\ j # Item!Idle
      /\ j \in ItemJobs /\ RunFits(j, itemClock, itemRuns) /\ itemRuns \in Nat
      /\ j.nonce \in 1..itemRuns /\ j.batch \in Nat /\ j.compiled \subseteq Games
      /\ j.ids \subseteq itemStored /\ itemStored \subseteq Games /\ j.at \in Nat
      /\ j.at = itemClock /\ itemClock \in Nat /\ \A w \in itemRows : w.at <= itemClock
    BY ActiveKnown DEF RunsFit, ItemStateOK, RunFits, ItemJobs, Alone, NothingIsOlder
<1>2. CompiledIn(after, j)
    BY <1>1, CompiledStays
<1>3. CASE j.step = "platform" /\ j.todo = {}
    <2>1. next = [j EXCEPT !.step = "rollup"]
        BY <1>3 DEF Item!Advance
    <2>2. next.at = j.at /\ next.compiled = j.compiled /\ next.step = "rollup"
        BY <1>1, <2>1 DEF ItemJobs
    <2> QED
        BY <1>2, <1>3, <2>2 DEF CompiledIn
<1>4. CASE j.step = "platform" /\ j.todo # {}
    <2>1. next = [j EXCEPT !.platform = next.platform, !.todo = next.todo, !.batch = 0,
                           !.ids = next.ids, !.step = next.step]
          /\ next.platform \in j.todo
        <3> DEFINE p == CHOOSE p \in j.todo : TRUE
        <3>1. next = [j EXCEPT !.platform = p, !.todo = j.todo \ {p}, !.batch = 0,
                               !.ids = Item!MatchIDs(p),
                               !.step = IF Item!MatchIDs(p) = {} THEN "aggregate" ELSE "batch"]
            BY <1>4 DEF Item!Advance
        <3>2. p \in j.todo
            BY <1>4
        <3> HIDE DEF p, next
        <3> QED
            BY <1>1, <3>1, <3>2 DEF ItemJobs
    <2>2. next.at = j.at /\ next.compiled = j.compiled
        BY <1>1, <2>1, Zenon DEF ItemJobs
    <2>3. \A g \in j.compiled : itemPlatformOf[g] # next.platform
        BY <1>1, <2>1 DEF RunFits
    <2> QED
        BY <1>2, <1>4, <2>2, <2>3 DEF CompiledIn
<1>5. CASE j.step = "batch"
    <2> DEFINE b == Item!NextBatch(j.ids)
    <2>1. next = [j EXCEPT !.ids = j.ids \ b, !.batch = j.batch + 1,
                           !.compiled = j.compiled \union b,
                           !.step = IF j.ids \ b = {} THEN "aggregate" ELSE "batch"]
        BY <1>5 DEF Item!Advance
    <2>2. /\ next.at = j.at /\ next.compiled = j.compiled \union b
          /\ next.step \in {"batch", "aggregate"} /\ next.platform = j.platform
          /\ next.nonce = j.nonce /\ next.batch = j.batch + 1
        BY <1>1, <2>1 DEF ItemJobs
    <2>3. b \subseteq j.ids /\ b = Batch(j) /\ b \subseteq Games
        BY <1>1, NextBatchWithin DEF Batch
    <2>4. \A x \in Item!Partials(j) : x \in Item!Partials(next)
        BY <1>1, <2>2, PartialsKnown
    <2>5. Item!Partial(j, j.batch + 1) \in Item!Partials(next)
        BY <1>1, <2>2, PartialsKnown DEF Item!Partial
    <2> HIDE DEF b, next
    <2>6. ASSUME NEW g \in j.compiled, NEW k \in ItemKeys(g)
          PROVE  \E w \in after : /\ w.at = j.at /\ Holds(w, k, g)
                                  /\ IF itemPlatformOf[g] = j.platform
                                     THEN w.platform \in Item!Partials(next)
                                     ELSE w.platform = Item!Whole(itemPlatformOf[g])
        BY <1>2, <1>5, <2>4 DEF CompiledIn
    <2>7. ASSUME NEW g \in b, NEW k \in ItemKeys(g)
          PROVE  \E w \in after : /\ w.at = j.at /\ Holds(w, k, g)
                                  /\ w.platform \in Item!Partials(next)
        <3>1. PICK c \in Item!BatchRows(b) : Holds(c, k, g)
            BY <2>3, BatchCovers
        <3>2. AddedRows(j) = Item!Stamp(Item!BatchRows(b), Item!Partial(j, j.batch + 1), j.at)
            BY <1>5, <2>3 DEF AddedRows
        <3>3. PICK w \in AddedRows(j) : /\ w.platform = Item!Partial(j, j.batch + 1)
                  /\ w.at = j.at
                                        /\ w.key = c.key /\ w.games = c.games
            BY <3>2, StampKnown
        <3>4. after = Item!Insert(itemRows, AddedRows(j))
            BY <1>1, <1>5, EffectKnown
        <3>5. w \in after
            BY <3>4, ItemInsertKnown
        <3>6. Holds(w, k, g)
            BY <3>1, <3>3 DEF Holds
        <3> QED
            BY <2>5, <3>3, <3>5, <3>6
    <2>8. \A g \in b : itemPlatformOf[g] = j.platform
        BY <1>1, <2>3 DEF RunFits
    <2> HIDE DEF after, j
    <2>9. ASSUME NEW g \in next.compiled, NEW k \in ItemKeys(g)
          PROVE  \E w \in after : /\ w.at = next.at /\ Holds(w, k, g)
                                  /\ IF itemPlatformOf[g] = next.platform
                                     THEN w.platform \in Item!Partials(next)
                                     ELSE w.platform = Item!Whole(itemPlatformOf[g])
        BY <2>2, <2>6, <2>7, <2>8
    <2>10. CompiledIn(after, next)
        BY <2>2, <2>9 DEF CompiledIn
    <2> QED
        BY <2>10 DEF after, next, j
<1>6. CASE j.step = "aggregate"
    <2>1. next = [j EXCEPT !.step = "clean"]
        BY <1>6 DEF Item!Advance
    <2>2. next.at = j.at /\ next.compiled = j.compiled /\ next.step = "clean"
        BY <1>1, <2>1 DEF ItemJobs
    <2> HIDE DEF next
    <2>3. ASSUME NEW g \in j.compiled, NEW k \in ItemKeys(g), itemPlatformOf[g] = j.platform
          PROVE  \E w \in after : /\ w.at = j.at /\ Holds(w, k, g)
                                  /\ w.platform = Item!Whole(j.platform)
        <3> DEFINE own == Item!Own(j, Item!Partials(j))
        <3>1. PICK s \in itemRows : s.at = j.at /\ Holds(s, k, g)
                  /\ s.platform \in Item!Partials(j)
            BY <1>6, <2>3 DEF CompiledIn
        <3>2. s \in own
            BY <1>1, <3>1, RowsOfNow DEF Item!Own
        <3>3. AddedRows(j) = Item!Stamp(Item!SumRows(own), Item!Whole(j.platform), j.at)
            BY <1>6 DEF AddedRows
        <3> HIDE DEF own
        <3>4. PICK c \in Item!SumRows(own) : c.key = s.key /\ s.games \subseteq c.games
            BY <3>2, SumKnown
        <3>5. PICK w \in AddedRows(j) : /\ w.platform = Item!Whole(j.platform) /\ w.at = j.at
                                        /\ w.key = c.key /\ w.games = c.games
            BY <3>3, StampKnown
        <3>6. after = Item!Insert(itemRows, AddedRows(j))
            BY <1>1, <1>6, EffectKnown
        <3>7. w \in after
            BY <3>6, ItemInsertKnown
        <3>8. Holds(w, k, g)
            BY <3>1, <3>4, <3>5 DEF Holds
        <3> QED
            BY <3>5, <3>7, <3>8
    <2>4. ASSUME NEW g \in j.compiled, NEW k \in ItemKeys(g), itemPlatformOf[g] # j.platform
          PROVE  \E w \in after : /\ w.at = j.at /\ Holds(w, k, g)
                                  /\ w.platform = Item!Whole(itemPlatformOf[g])
        BY <1>2, <2>4 DEF CompiledIn
    <2> HIDE DEF after, j
    <2>5. ASSUME NEW g \in next.compiled, NEW k \in ItemKeys(g)
          PROVE  \E w \in after : /\ w.at = next.at /\ Holds(w, k, g)
                                  /\ w.platform = Item!Whole(itemPlatformOf[g])
        BY <2>2, <2>3, <2>4
    <2>6. CompiledIn(after, next)
        BY <2>2, <2>5 DEF CompiledIn
    <2> QED
        BY <2>6 DEF after, next, j
<1>7. CASE j.step \in {"clean", "rollup"}
    <2>1. next = [j EXCEPT !.step = IF j.step = "clean" THEN "platform" ELSE "old"]
        BY <1>7 DEF Item!Advance
    <2>2. next.at = j.at /\ next.compiled = j.compiled /\ next.step \notin {"batch", "aggregate"}
        BY <1>1, <2>1 DEF ItemJobs
    <2> QED
        BY <1>2, <1>7, <2>2 DEF CompiledIn
<1> QED
    BY <1>3, <1>4, <1>5, <1>6, <1>7

\* Where a run goes next it has got so far.
LEMMA RunGoesOn ==
    ASSUME Item!ItemAssumption, ItemStateOK, NEW j \in ItemJobs, RunFits(j, itemClock, itemRuns),
           j.step \in {"platform", "batch", "aggregate", "clean", "rollup"}
    PROVE  /\ RunFits(Item!Advance(j), itemClock, itemRuns)
           /\ Item!Advance(j).nonce = j.nonce /\ Item!Advance(j).alone = j.alone
           /\ Item!Advance(j).at = j.at /\ Item!Advance(j).step # "orphans"
           /\ CoveredBy(j, itemStored) \subseteq CoveredBy(Item!Advance(j), itemStored)
           /\ j.compiled \union j.ids \subseteq itemStored =>
                 Item!Advance(j).compiled \union Item!Advance(j).ids \subseteq itemStored
<1> DEFINE next == Item!Advance(j)
<1>1. j.ids \subseteq Games /\ j.todo \subseteq j.all /\ j.compiled \subseteq Games
    BY DEF ItemJobs, RunFits
<1>2. CASE j.step = "platform" /\ j.todo = {}
    <2>1. next = [j EXCEPT !.step = "rollup"]
        BY <1>2 DEF Item!Advance
    <2>2. /\ next.at = j.at /\ next.compiled = j.compiled /\ next.step = "rollup"
          /\ next.ids = j.ids /\ next.todo = j.todo /\ next.all = j.all /\ next.nonce = j.nonce
          /\ next.alone = j.alone
        BY <2>1 DEF ItemJobs
    <2> HIDE DEF next
    <2>3. RunFits(next, itemClock, itemRuns)
        BY <1>2, <2>2 DEF RunFits
    <2> QED
        BY <2>2, <2>3 DEF CoveredBy, next
<1>3. CASE j.step = "platform" /\ j.todo # {}
    <2> DEFINE p == CHOOSE p \in j.todo : TRUE
               ids == Item!MatchIDs(p)
               todo == j.todo \ {p}
    <2>1. next = [j EXCEPT !.platform = p, !.todo = todo, !.batch = 0, !.ids = ids,
                           !.step = IF ids = {} THEN "aggregate" ELSE "batch"]
        BY <1>3 DEF Item!Advance
    <2>2. p \in j.todo
        BY <1>3
    <2>3. \A g : g \in ids <=> g \in itemStored /\ itemPlatformOf[g] = p
        BY DEF Item!MatchIDs
    <2> HIDE DEF p, ids
    <2>4. /\ next.at = j.at /\ next.compiled = j.compiled /\ next.platform = p
          /\ next.ids = ids /\ next.todo = todo /\ next.all = j.all /\ next.nonce = j.nonce
          /\ next.alone = j.alone /\ next.step \in {"batch", "aggregate"}
          /\ next.step = "aggregate" => ids = {}
        BY <2>1 DEF ItemJobs
    <2> HIDE DEF next
    <2>5. RunFits(next, itemClock, itemRuns)
        BY <1>1, <1>3, <2>2, <2>3, <2>4 DEF RunFits
    <2>6. j.ids = {}
        BY <1>3 DEF RunFits
    <2>7. CoveredBy(j, itemStored) \subseteq CoveredBy(next, itemStored)
        BY <2>3, <2>4, <2>6 DEF CoveredBy
    <2> QED
        BY <2>3, <2>4, <2>5, <2>7 DEF next
<1>4. CASE j.step = "batch"
    <2> DEFINE b == Item!NextBatch(j.ids)
    <2>1. next = [j EXCEPT !.ids = j.ids \ b, !.batch = j.batch + 1,
                           !.compiled = j.compiled \union b,
                           !.step = IF j.ids \ b = {} THEN "aggregate" ELSE "batch"]
        BY <1>4 DEF Item!Advance
    <2>2. b \subseteq j.ids
        BY <1>1, NextBatchWithin
    <2> HIDE DEF b
    <2>3. /\ next.at = j.at /\ next.compiled = j.compiled \union b /\ next.platform = j.platform
          /\ next.ids = j.ids \ b /\ next.todo = j.todo /\ next.all = j.all
                 /\ next.nonce = j.nonce
          /\ next.alone = j.alone /\ next.step \in {"batch", "aggregate"}
          /\ next.step = "aggregate" => next.ids = {}
        BY <2>1 DEF ItemJobs
    <2> HIDE DEF next
    <2>4. \A g \in b : itemPlatformOf[g] = j.platform /\ j.platform \in j.all \ j.todo
        BY <1>4, <2>2 DEF RunFits
    <2>5. \A g \in next.compiled : itemPlatformOf[g] \in next.all \ next.todo
        BY <2>3, <2>4 DEF RunFits
    <2>6. RunFits(next, itemClock, itemRuns)
        BY <1>4, <2>2, <2>3, <2>5 DEF RunFits
    <2> QED
        BY <2>2, <2>3, <2>6 DEF CoveredBy, next
<1>5. CASE j.step \in {"aggregate", "clean", "rollup"}
    <2> DEFINE step == CASE j.step = "aggregate" -> "clean"
                         [] j.step = "clean" -> "platform"
                         [] OTHER -> "old"
    <2>1. next = [j EXCEPT !.step = step]
        BY <1>5 DEF Item!Advance
    <2>2. /\ step = "old" => j.step = "rollup"
          /\ step = "clean" => j.step = "aggregate"
          /\ step \in {"clean", "platform", "old"}
        BY <1>5
    <2> HIDE DEF step
    <2>3. /\ next.at = j.at /\ next.compiled = j.compiled /\ next.step = step
          /\ next.ids = j.ids /\ next.todo = j.todo /\ next.all = j.all /\ next.nonce = j.nonce
          /\ next.alone = j.alone /\ next.platform = j.platform
        BY <2>1 DEF ItemJobs
    <2> HIDE DEF next
    <2>4. RunFits(next, itemClock, itemRuns)
        BY <1>5, <2>2, <2>3 DEF RunFits
    <2> QED
        BY <2>2, <2>3, <2>4 DEF CoveredBy, next
<1> QED
    BY <1>2, <1>3, <1>4, <1>5

\* A row of this second that no batch holds serves for what has been compiled.
LEMMA CompiledServes ==
    ASSUME NEW rs, \A w \in rs : w.at <= itemClock, NEW j, CompiledIn(rs, j), j.at = itemClock,
           NEW g \in j.compiled, NEW k \in ItemKeys(g),
           itemPlatformOf[g] # j.platform \/ j.step \notin {"batch", "aggregate"}
    PROVE  \E w \in Item!Final(rs) :
              ~ Item!IsPartial(w) /\ \E h \in w.games : Item!Entry(k, g) = Item!Entry(w.key, h)
<1>1. PICK w \in rs : w.at = j.at /\ Holds(w, k, g) /\ w.platform = Item!Whole(itemPlatformOf[g])
    BY DEF CompiledIn
<1>2. w \in Item!Final(rs)
    BY <1>1, RowsOfNow
<1> QED
    BY <1>1, <1>2 DEF Holds, Item!IsPartial, Item!Whole

\* No statement of a run that runs alone takes an entry of the last snapshot
\* from the rows of whole platforms.
LEMMA EffectServes ==
    ASSUME Item!ItemAssumption, ItemIInv, NEW r \in Refreshers, Alone(r), itemTrusted
    PROVE  Serves(Item!Effect(itemJob[r]), itemComplete)
<1> DEFINE j == itemJob[r]
           next == Item!Advance(j)
           after == Item!Effect(j)
<1>1. /\ j # Item!Idle
      /\ j \in ItemJobs /\ RunFits(j, itemClock, itemRuns) /\ itemRuns \in Nat
      /\ j.nonce \in 1..itemRuns /\ j.batch \in Nat /\ itemStored \subseteq Games
      /\ j.step # "orphans" => j.at = itemClock
      /\ itemClock \in Nat /\ \A w \in itemRows : w.at <= itemClock /\ w.at \in Nat
      /\ \A w \in itemRows : w.games \subseteq CoveredBy(j, itemStored)
      /\ \A w \in itemRows : RowFits(w, itemRuns)
      /\ Serves(itemRows, itemComplete)
    BY ActiveKnown DEF RunsFit, ItemStateOK, RunFits, ItemJobs, Alone, NothingIsOlder, OnlyOf,
       ItemReadersServed, ItemIInv, ItemRowsFit
<1>2. j.step # "orphans" => CompiledIn(itemRows, j) /\ CompiledIn(after, j)
    BY <1>1, CompiledStays DEF CompiledIsThere, ItemIInv
<1>3. \A w \in after : w.at <= itemClock
    BY <1>1, EffectFits DEF ItemIInv, ItemStateOK
<1> SUFFICES ASSUME NEW e \in itemComplete
             PROVE  \E w \in Item!Final(after) :
                        ~ Item!IsPartial(w) /\ \E g \in w.games : e = Item!Entry(w.key, g)
    BY DEF Serves
<1>4. PICK w \in Item!Final(itemRows) :
          ~ Item!IsPartial(w) /\ \E g \in w.games : e = Item!Entry(w.key, g)
    BY <1>1 DEF Serves
<1>5. PICK g \in w.games : e = Item!Entry(w.key, g)
    BY <1>4
<1>6. w \in itemRows /\ \A s \in itemRows :
          s.platform = w.platform /\ s.key = w.key => s.at <= w.at
    BY DEF Item!Final
<1>7. g \in CoveredBy(j, itemStored) /\ w.key \in ItemKeys(g)
    BY <1>1, <1>5, <1>6 DEF RowFits
\* The row is still there, and no newer one.
<1>8. SUFFICES ASSUME ~ (w \in after /\ \A s \in after :
                            s.platform = w.platform /\ s.key = w.key => s.at <= w.at)
               PROVE  \E v \in Item!Final(after) :
                         ~ Item!IsPartial(v) /\ \E h \in v.games : e = Item!Entry(v.key, h)
    BY <1>4 DEF Item!Final
<1>9. CASE j.step = "orphans"
    <2>1. after = {v \in itemRows : ~ Item!IsPartial(v)}
        BY <1>1, <1>9, EffectKnown
    <2> QED
        BY <1>4, <1>6, <1>8, <2>1
<1>10. CASE j.step = "platform"
    <2>1. after = itemRows
        BY <1>1, <1>10, EffectKnown
    <2> QED
        BY <1>6, <1>8, <2>1
<1>11. CASE j.step = "clean"
    <2>1. after = {v \in itemRows : ~ (v.at = j.at /\ v.platform \in Item!Partials(j))}
        BY <1>1, <1>11, EffectKnown
    <2>2. w.platform \notin Item!Partials(j)
        BY <1>1, <1>4, PartialsKnown DEF Item!IsPartial
    <2> QED
        BY <1>6, <1>8, <2>1, <2>2
<1>12. CASE j.step = "batch"
    <2>1. after = Item!Insert(itemRows, AddedRows(j))
        BY <1>1, <1>12, EffectKnown
    <2>2. \A n \in AddedRows(j) : n.platform # w.platform
        BY <1>1, <1>4, <1>12, AddedKnown DEF Item!IsPartial, Item!Partial, ItemIInv
    <2>3. w \in after /\ \A s \in after : s \in itemRows \/ s \in AddedRows(j)
        BY <1>6, <2>1, <2>2, ItemInsertKnown
    <2> QED
        BY <1>6, <1>8, <2>2, <2>3
<1>13. CASE j.step = "aggregate"
    <2>1. after = Item!Insert(itemRows, AddedRows(j))
        BY <1>1, <1>13, EffectKnown
    <2>2. \A n \in AddedRows(j) : n.platform = Item!Whole(j.platform)
        BY <1>1, <1>13, AddedKnown DEF ItemIInv
    <2>3. \A s \in after : s \in itemRows \/ s \in AddedRows(j)
        BY <2>1, ItemInsertKnown
    <2>4. w.platform = Item!Whole(j.platform)
        <3>1. SUFFICES ASSUME w.platform # Item!Whole(j.platform)
                       PROVE  FALSE
            OBVIOUS
        <3>2. w \in after
            BY <1>6, <2>1, <2>2, <3>1, ItemInsertKnown
        <3> QED
            BY <1>6, <1>8, <2>2, <2>3, <3>1, <3>2
    <2>5. j.ids = {} /\ j.platform \in j.all \ j.todo /\ j.all \subseteq ItemPlatforms
        BY <1>1, <1>13 DEF RunFits, ItemJobs
    <2>6. j.platform # "ALL"
        BY <2>5 DEF ItemIInv, Item!ItemAssumption, ItemPlatforms
    <2>7. itemPlatformOf[g] = j.platform
        BY <1>1, <1>5, <1>6, <2>4, <2>6, PlatformNames DEF ItemIInv, Item!Whole
    <2>8. g \in j.compiled
        BY <1>7, <2>5, <2>7 DEF CoveredBy
    <2>9. CompiledIn(after, next)
        BY <1>2, <1>13, CompiledGoesOn DEF ItemIInv
    <2>10. next = [j EXCEPT !.step = "clean"]
        BY <1>13 DEF Item!Advance
    <2>11. next.at = j.at /\ next.compiled = j.compiled /\ next.step = "clean"
        BY <1>1, <2>10 DEF ItemJobs
    <2> HIDE DEF next, after
    <2> QED
        BY <1>1, <1>3, <1>5, <1>7, <1>13, <2>8, <2>9, <2>11, CompiledServes
<1>14. CASE j.step \in {"rollup", "old"}
    <2>1. g \in j.compiled
        BY <1>1, <1>7, <1>14 DEF CoveredBy, RunFits
    <2> HIDE DEF next, after
    <2> QED
        BY <1>1, <1>2, <1>3, <1>5, <1>7, <1>14, <2>1, CompiledServes
<1> QED
    BY <1>1, <1>9, <1>10, <1>11, <1>12, <1>13, <1>14 DEF ItemJobs, ItemSteps

-----------------------------------------------------------------------------
(* Every step keeps the items' invariant *)

LEMMA SameMeaning ==
    ASSUME itemTable' = itemTable
    PROVE  /\ \A g : ItemKeys(g)' = ItemKeys(g)
           /\ \A k, g : Item!Entry(k, g)' = Item!Entry(k, g)
           /\ \A C : EntriesOf(C)' = EntriesOf(C)
<1>1. \A k, g : Item!Entry(k, g)' = Item!Entry(k, g)
    BY DEF Item!Entry
<1>2. \A C : Item!BatchRows(C)' = Item!BatchRows(C)
    BY DEF Item!BatchRows
<1>3. \A C : EntriesOf(C)' = EntriesOf(C)
    BY <1>1, <1>2 DEF EntriesOf, Item!Entries
<1> QED
    BY <1>1, <1>2, <1>3 DEF ItemKeys

\* The invariant, said of the variables' next values.
LEMMA ItemIInvNext ==
    ASSUME itemTable' = itemTable, itemPlatformOf' = itemPlatformOf, ItemStateOK',
           \A r \in Refreshers : itemJob'[r] # Item!Idle =>
               RunFits(itemJob'[r], itemClock', itemRuns'),
           \A r, s \in Refreshers :
               /\ itemJob'[r] # Item!Idle /\ itemJob'[s] # Item!Idle /\ r # s =>
                     itemJob'[r].nonce # itemJob'[s].nonce
               /\ itemJob'[r] # Item!Idle /\ itemJob'[r].alone /\ r # s =>
                      itemJob'[s] = Item!Idle,
           itemTrusted' => \A r \in Refreshers : itemJob'[r] # Item!Idle => itemJob'[r].alone,
           \A w \in itemRows' : RowFits(w, itemRuns'),
           \A w \in itemRows', r \in Refreshers :
               itemJob'[r] # Item!Idle /\ w.platform[2] = itemJob'[r].nonce =>
                   itemJob'[r].step # "orphans" /\ w.at = itemJob'[r].at,
           ~ itemClosed' => OnlyOf(itemStored', itemRows', itemComplete'),
           \A r \in Refreshers : itemJob'[r] # Item!Idle /\ itemJob'[r].alone =>
               /\ itemJob'[r].compiled \union itemJob'[r].ids \subseteq itemStored'
               /\ OnlyOf(CoveredBy(itemJob'[r], itemStored'), itemRows', itemComplete')
               /\ itemJob'[r].step # "orphans" => CompiledIn(itemRows', itemJob'[r]),
           itemTrusted' => Serves(itemRows', itemComplete')
    PROVE  ItemIInv'
<1>1. \A r \in Refreshers : (r \in Item!Active)' <=> itemJob'[r] # Item!Idle
    BY DEF ItemStateOK, Item!Active, Item!Idle, ItemJobs, ItemSteps
<1>2. \A r \in Refreshers : Alone(r)' <=> (itemJob'[r] # Item!Idle /\ itemJob'[r].alone)
    BY DEF Alone
<1>3. Item!Active' \subseteq Refreshers
    BY DEF Item!Active
<1>4. RunsFit'
    <2>1. \A r \in Refreshers : itemJob'[r] # Item!Idle =>
              RunFits(itemJob[r], itemClock, itemRuns)'
        BY DEF RunFits
    <2>2. \A r \in Refreshers : Alone(r)' => Item!Active' = {r}
        BY <1>1, <1>2, <1>3
    <2> QED
        BY <1>1, <1>3, <2>1, <2>2 DEF RunsFit
<1>5. ItemRowsFit'
    <2>1. \A w \in itemRows' : RowFits(w, itemRuns)'
        BY SameMeaning DEF RowFits
    <2> QED
        BY <1>1, <1>3, <2>1 DEF ItemRowsFit
<1>6. NothingIsOlder'
    <2>1. \A r \in Refreshers : CoveredBy(itemJob[r], itemStored)' =
              CoveredBy(itemJob'[r], itemStored')
        BY DEF CoveredBy
    <2>2. ~ itemClosed' => OnlyOf(itemStored, itemRows, itemComplete)'
        BY SameMeaning DEF OnlyOf
    <2>3. ASSUME NEW r \in Refreshers, Alone(r)'
          PROVE  OnlyOf(CoveredBy(itemJob[r], itemStored), itemRows, itemComplete)'
        <3>1. OnlyOf(CoveredBy(itemJob'[r], itemStored'), itemRows', itemComplete')
            BY <1>2, <2>3
        <3> QED
            BY <2>1, <3>1, SameMeaning DEF OnlyOf
    <2> QED
        BY <1>2, <2>2, <2>3 DEF NothingIsOlder
<1>7. CompiledIsThere'
    <2>1. ASSUME NEW r \in Refreshers, Alone(r)', itemJob'[r].step # "orphans"
          PROVE  CompiledIn(itemRows, itemJob[r])'
        <3>1. CompiledIn(itemRows', itemJob'[r])
            BY <1>2, <2>1
        <3> QED
            BY <3>1, SameMeaning DEF CompiledIn, Holds, Item!Partials, Item!Partial
    <2> QED
        BY <2>1 DEF CompiledIsThere
<1>8. ItemReadersServed'
    BY SameMeaning DEF ItemReadersServed, Serves, Item!Final, Item!IsPartial
<1> QED
    BY <1>4, <1>5, <1>6, <1>7, <1>8 DEF ItemIInv

LEMMA ItemIInvNow ==
    ASSUME ItemIInv
    PROVE  /\ ItemStateOK /\ RunsFit /\ ItemRowsFit
           /\ \A r \in Refreshers : itemJob[r] # Item!Idle =>
                 itemJob[r] \in ItemJobs /\ RunFits(itemJob[r], itemClock, itemRuns)
           /\ \A r, s \in Refreshers :
                 /\ itemJob[r] # Item!Idle /\ itemJob[s] # Item!Idle /\ r # s =>
                       itemJob[r].nonce # itemJob[s].nonce
                 /\ itemJob[r] # Item!Idle /\ itemJob[r].alone /\ r # s => itemJob[s] = Item!Idle
           /\ itemTrusted => \A r \in Refreshers : itemJob[r] # Item!Idle => itemJob[r].alone
           /\ \A w \in itemRows : RowFits(w, itemRuns)
           /\ \A w \in itemRows, r \in Refreshers :
                 itemJob[r] # Item!Idle /\ w.platform[2] = itemJob[r].nonce =>
                     itemJob[r].step # "orphans" /\ w.at = itemJob[r].at
           /\ ~ itemClosed => OnlyOf(itemStored, itemRows, itemComplete)
           /\ \A r \in Refreshers : itemJob[r] # Item!Idle /\ itemJob[r].alone =>
                 /\ itemJob[r].compiled \union itemJob[r].ids \subseteq itemStored
                 /\ OnlyOf(CoveredBy(itemJob[r], itemStored), itemRows, itemComplete)
                 /\ itemJob[r].step # "orphans" => CompiledIn(itemRows, itemJob[r])
           /\ itemTrusted => Serves(itemRows, itemComplete)
<1>1. ItemStateOK /\ RunsFit /\ ItemRowsFit /\ NothingIsOlder /\ CompiledIsThere
          /\ ItemReadersServed
    BY DEF ItemIInv
<1>2. \A r \in Refreshers : /\ itemJob[r] # Item!Idle <=> r \in Item!Active
                            /\ itemJob[r] # Item!Idle => itemJob[r] \in ItemJobs
    BY <1>1, ActiveKnown
<1> QED
    BY <1>1, <1>2 DEF RunsFit, ItemRowsFit, NothingIsOlder, CompiledIsThere, ItemReadersServed,
       Alone

\* A statement of a refresh that does not end it.
LEMMA StepWithin ==
    ASSUME Item!ItemAssumption, ItemIInv, ItemStateOK', NEW r \in Refreshers,
           itemJob[r] # Item!Idle, itemRows' = Item!Effect(itemJob[r]),
           UNCHANGED <<itemTable, itemPlatformOf, itemStored, itemClosed, itemRuns, itemComplete,
                       itemTrusted>>,
           NEW v, itemJob' = [itemJob EXCEPT ![r] = v], v # Item!Idle,
           v.nonce = itemJob[r].nonce, v.alone = itemJob[r].alone,
           RunFits(v, itemClock', itemRuns),
           itemClock' # itemClock => itemJob[r].step = "orphans",
           itemJob[r].step = "orphans" \/ (v.at = itemJob[r].at /\ v.step # "orphans"),
           CoveredBy(itemJob[r], itemStored) \subseteq CoveredBy(v, itemStored),
           itemJob[r].compiled \union itemJob[r].ids \subseteq itemStored =>
               v.compiled \union v.ids \subseteq itemStored,
           Alone(r) /\ v.step # "orphans" => CompiledIn(itemRows', v)
    PROVE  ItemIInv'
<1> DEFINE j == itemJob[r]
<1>1. /\ itemJob'[r] = v
      /\ \A q \in Refreshers : q # r => itemJob'[q] = itemJob[q]
    BY JobsKeep, Zenon DEF ItemIInv
<1>2. \A q \in Refreshers : itemJob'[q] # Item!Idle =>
          RunFits(itemJob'[q], itemClock', itemRuns')
    <2>1. ASSUME NEW q \in Refreshers, q # r, itemJob[q] # Item!Idle
          PROVE  RunFits(itemJob[q], itemClock', itemRuns)
        <3>1. RunFits(itemJob[q], itemClock, itemRuns) /\ ~ itemJob[q].alone
            BY <2>1, ItemIInvNow
        <3> QED
            BY <3>1 DEF RunFits
    <2> QED
        BY <1>1, <2>1
<1>3. \A q, s \in Refreshers :
         /\ itemJob'[q] # Item!Idle /\ itemJob'[s] # Item!Idle /\ q # s =>
               itemJob'[q].nonce # itemJob'[s].nonce
         /\ itemJob'[q] # Item!Idle /\ itemJob'[q].alone /\ q # s => itemJob'[s] = Item!Idle
    BY <1>1, ItemIInvNow
<1>4. itemTrusted' => \A q \in Refreshers : itemJob'[q] # Item!Idle => itemJob'[q].alone
    BY <1>1, ItemIInvNow
<1>5. \A w \in itemRows' : RowFits(w, itemRuns')
    BY EffectRowsFit, ItemIInvNow
<1>6. ASSUME NEW w \in itemRows', NEW q \in Refreshers, itemJob'[q] # Item!Idle,
             w.platform[2] = itemJob'[q].nonce
      PROVE  itemJob'[q].step # "orphans" /\ w.at = itemJob'[q].at
    <2>1. itemJob'[q].nonce = itemJob[q].nonce /\ itemJob[q] # Item!Idle /\ itemJob[q].nonce # 0
        <3>1. RunFits(itemJob'[q], itemClock', itemRuns') /\ itemRuns' \in Nat
            BY <1>2, <1>6 DEF ItemStateOK
        <3> QED
            BY <1>1, <1>6, <3>1 DEF RunFits
    <2>2. CASE w \in itemRows
        <3>1. itemJob[q].step # "orphans" /\ w.at = itemJob[q].at
            BY <1>6, <2>1, <2>2, ItemIInvNow
        <3> QED
            BY <1>1, <3>1
    <2>3. CASE w \notin itemRows
        <3>1. w.at = j.at /\ w.platform[2] = j.nonce /\ j.step = "batch"
            BY <1>6, <2>1, <2>3, EffectRowsFit, ItemIInvNow
        <3>2. q = r
            BY <1>6, <2>1, <3>1, ItemIInvNow
        <3> QED
            BY <1>1, <3>1, <3>2
    <2> QED
        BY <2>2, <2>3
<1>7. ~ itemClosed' => OnlyOf(itemStored', itemRows', itemComplete')
    <2>1. j.ids \intersect itemStored \subseteq itemStored
        OBVIOUS
    <2> QED
        BY <2>1, EffectOnlyOf, ItemIInvNow
<1>8. ASSUME NEW q \in Refreshers, itemJob'[q] # Item!Idle, itemJob'[q].alone
      PROVE  /\ itemJob'[q].compiled \union itemJob'[q].ids \subseteq itemStored'
             /\ OnlyOf(CoveredBy(itemJob'[q], itemStored'), itemRows', itemComplete')
             /\ itemJob'[q].step # "orphans" => CompiledIn(itemRows', itemJob'[q])
    <2>1. q = r /\ Alone(r)
        BY <1>1, <1>8, ItemIInvNow DEF Alone
    <2>2. j.compiled \union j.ids \subseteq itemStored
          /\ OnlyOf(CoveredBy(j, itemStored), itemRows, itemComplete)
        BY <2>1, ItemIInvNow DEF Alone
    <2>3. j.ids \intersect itemStored \subseteq CoveredBy(j, itemStored)
        BY DEF CoveredBy
    <2>4. OnlyOf(CoveredBy(j, itemStored), itemRows', itemComplete)
        BY <2>2, <2>3, EffectOnlyOf, ItemIInvNow
    <2>5. v.compiled \subseteq Games /\ v.ids \subseteq Games /\ itemStored \subseteq Games
        BY <1>1 DEF ItemIInv, ItemStateOK, ItemJobs
    <2>6. CoveredBy(v, itemStored) \subseteq Games
              /\ CoveredBy(j, itemStored) \subseteq CoveredBy(v, itemStored)
        BY <2>5 DEF CoveredBy
    <2>7. OnlyOf(CoveredBy(v, itemStored), itemRows', itemComplete)
        BY <2>4, <2>6, EntriesGrow DEF OnlyOf
    <2> QED
        BY <1>1, <2>1, <2>2, <2>7
<1>9. itemTrusted' => Serves(itemRows', itemComplete')
    <2>1. itemTrusted => Alone(r)
        BY ItemIInvNow DEF Alone
    <2> QED
        BY <2>1, EffectServes
<1> QED
    BY <1>2, <1>3, <1>4, <1>5, <1>6, <1>7, <1>8, <1>9, ItemIInvNext

LEMMA StepGoesOn ==
    ASSUME Item!ItemAssumption, ItemIInv, ItemStateOK', NEW r \in Refreshers,
           Item!Statement(r) \/ Item!Repeat(r) \/ Item!StampRun(r)
    PROVE  ItemIInv'
<1> DEFINE j == itemJob[r]
<1>1. j # Item!Idle
    BY DEF Item!Statement, Item!Repeat, Item!StampRun, Item!Idle
<1>2. j \in ItemJobs /\ RunFits(j, itemClock, itemRuns)
    BY <1>1, ItemIInvNow
<1>3. itemRows' = Item!Effect(itemJob[r])
      /\ UNCHANGED <<itemTable, itemPlatformOf, itemStored, itemClosed, itemRuns, itemComplete,
                     itemTrusted>>
    BY DEF Item!Statement, Item!Repeat, Item!StampRun
<1>4. ASSUME Alone(r), j.step # "orphans"
      PROVE  CompiledIn(itemRows, j)
    BY <1>4, ItemIInvNow DEF Alone
<1>5. CASE Item!Statement(r)
    <2> DEFINE v == Item!Advance(j)
    <2>1. j.step \in {"platform", "batch", "aggregate", "clean", "rollup"}
              /\ itemClock' = itemClock
          /\ itemJob' = [itemJob EXCEPT ![r] = v]
        BY <1>5 DEF Item!Statement
    <2>2. /\ RunFits(v, itemClock', itemRuns)
          /\ v.nonce = j.nonce /\ v.alone = j.alone /\ v.at = j.at /\ v.step # "orphans"
          /\ CoveredBy(j, itemStored) \subseteq CoveredBy(v, itemStored)
          /\ j.compiled \union j.ids \subseteq itemStored =>
                 v.compiled \union v.ids \subseteq itemStored
        BY <1>2, <2>1, RunGoesOn DEF ItemIInv
    <2>3. v # Item!Idle
        <3>1. v \in ItemJobs
            BY <1>2, <2>1, AdvanceFits DEF ItemIInv
        <3> QED
            BY <3>1 DEF ItemJobs, ItemSteps, Item!Idle
    <2>4. Alone(r) => CompiledIn(itemRows', v)
        BY <1>3, <1>4, <2>1, CompiledGoesOn DEF ItemIInv
    <2> HIDE DEF v
    <2> QED
        BY <1>1, <1>3, <2>1, <2>2, <2>3, <2>4, StepWithin, Zenon
<1>6. CASE Item!Repeat(r)
    <2>1. itemJob' = [itemJob EXCEPT ![r] = j] /\ itemClock' = itemClock
        BY <1>6 DEF Item!Repeat, ItemIInv, ItemStateOK
    <2>2. Alone(r) /\ j.step # "orphans" => CompiledIn(itemRows', j)
        BY <1>1, <1>3, <1>4, CompiledStays DEF ItemIInv
    <2> QED
        BY <1>1, <1>2, <1>3, <2>1, <2>2, StepWithin, Zenon
<1>7. CASE Item!StampRun(r)
    <2>1. PICK at \in {itemClock, itemClock + 1} :
            /\ itemClock' = at
            /\ itemJob' = [itemJob EXCEPT ![r] = [itemJob[r] EXCEPT !.at = at, !.step = "platform"]]
        BY <1>7, Zenon DEF Item!StampRun
    <2> DEFINE v == [j EXCEPT !.at = at, !.step = "platform"]
    <2>2. /\ v.at = at /\ v.step = "platform" /\ v.nonce = j.nonce /\ v.alone = j.alone
          /\ v.ids = j.ids /\ v.todo = j.todo /\ v.all = j.all /\ v.compiled = j.compiled
          /\ v.platform = j.platform
        BY <1>2 DEF ItemJobs
    <2>3. j.step = "orphans" /\ j.compiled = {}
        BY <1>2, <1>7 DEF Item!StampRun, RunFits
    <2>4. itemJob' = [itemJob EXCEPT ![r] = v]
        BY <2>1
    <2> HIDE DEF v
    <2>5. v # Item!Idle
        BY <2>2 DEF Item!Idle
    <2>6. RunFits(v, itemClock', itemRuns)
        BY <1>2, <2>1, <2>2, <2>3 DEF RunFits
    <2>7. CoveredBy(j, itemStored) \subseteq CoveredBy(v, itemStored)
        BY <2>2 DEF CoveredBy
    <2>8. CompiledIn(itemRows', v)
        BY <2>2, <2>3 DEF CompiledIn
    <2> QED
        BY <1>1, <1>3, <2>2, <2>3, <2>4, <2>5, <2>6, <2>7, <2>8, StepWithin, Zenon
<1> QED
    BY <1>5, <1>6, <1>7

\* A run that ends where it is leaves its rows to the readers.
LEMMA StepAbort ==
    ASSUME Item!ItemAssumption, ItemIInv, ItemStateOK', NEW r \in Refreshers, Item!Abort(r)
    PROVE  ItemIInv'
<1>1. /\ UNCHANGED <<itemTable, itemPlatformOf, itemStored, itemClosed, itemRows, itemClock, itemRuns,
                     itemComplete, itemTrusted>>
      /\ itemJob' = [itemJob EXCEPT ![r] = Item!Idle]
    BY DEF Item!Abort
<1>2. itemJob'[r] = Item!Idle /\ \A q \in Refreshers : q # r => itemJob'[q] = itemJob[q]
    BY <1>1, JobsKeep, Zenon DEF ItemIInv
<1> QED
    BY <1>1, <1>2, ItemIInvNow, ItemIInvNext

\* The last statement: what the run compiled is the snapshot from now on.
LEMMA StepFinish ==
    ASSUME Item!ItemAssumption, ItemIInv, ItemStateOK', NEW r \in Refreshers, Item!FinishRefresh(r)
    PROVE  ItemIInv'
<1> DEFINE j == itemJob[r]
<1>1. /\ UNCHANGED <<itemTable, itemPlatformOf, itemStored, itemClosed, itemClock, itemRuns>>
      /\ itemJob' = [itemJob EXCEPT ![r] = Item!Idle] /\ itemRows' = Item!Effect(j)
      /\ j.step = "old" /\ j # Item!Idle
      /\ j.alone => itemComplete' = EntriesOf(j.compiled)
      /\ ~ j.alone => UNCHANGED <<itemComplete, itemTrusted>>
    BY DEF Item!FinishRefresh, EntriesOf, Item!Idle
<1>2. itemJob'[r] = Item!Idle /\ \A q \in Refreshers : q # r => itemJob'[q] = itemJob[q]
    BY <1>1, JobsKeep, Zenon DEF ItemIInv
<1>3. j \in ItemJobs /\ RunFits(j, itemClock, itemRuns) /\ j.compiled \subseteq Games
    BY <1>1, ItemIInvNow DEF ItemJobs
<1>4. \A w \in itemRows' : RowFits(w, itemRuns')
    BY <1>1, EffectRowsFit, ItemIInvNow
<1>5. \A w \in itemRows' : w \in itemRows
    BY <1>1, <1>3, EffectKnown
<1>6. CASE j.alone
    <2>1. \A q \in Refreshers : itemJob'[q] = Item!Idle
        BY <1>1, <1>2, <1>6, ItemIInvNow
    <2>2. j.compiled \subseteq itemStored /\ CompiledIn(itemRows, j) /\ j.at = itemClock
        BY <1>1, <1>3, <1>6, ItemIInvNow DEF RunFits
    <2>3. OnlyOf(itemStored, itemRows, itemComplete) =>
              OnlyOf(itemStored', itemRows', itemComplete')
        <3>1. EntriesOf(j.compiled) \subseteq EntriesOf(itemStored)
            BY <2>2, EntriesGrow DEF ItemIInv, ItemStateOK
        <3> QED
            BY <1>1, <1>5, <1>6, <3>1 DEF OnlyOf
    <2>4. CompiledIn(itemRows', j)
        BY <1>1, <2>2, CompiledStays DEF ItemIInv
    <2>5. Serves(itemRows', itemComplete')
        <3> SUFFICES ASSUME NEW e \in EntriesOf(j.compiled)
                     PROVE  \E w \in Item!Final(itemRows') :
                               ~ Item!IsPartial(w) /\ \E g \in w.games : e = Item!Entry(w.key, g)
            BY <1>1, <1>6 DEF Serves
        <3>1. PICK g \in j.compiled : \E k \in ItemKeys(g) : e = Item!Entry(k, g)
            BY <1>3, EntriesKnown
        <3>2. PICK k \in ItemKeys(g) : e = Item!Entry(k, g)
            BY <3>1
        <3>3. \A w \in itemRows' : w.at <= itemClock
            BY <1>5 DEF ItemIInv, ItemStateOK
        <3> QED
            BY <1>1, <2>2, <2>4, <3>2, <3>3, CompiledServes
    <2> QED
        BY <1>1, <1>4, <2>1, <2>3, <2>5, ItemIInvNow, ItemIInvNext
<1>7. CASE ~ j.alone
    <2>1. ~ itemTrusted
        BY <1>1, <1>7, ItemIInvNow
    <2>2. \A C : OnlyOf(C, itemRows, itemComplete) => OnlyOf(C, itemRows', itemComplete')
        BY <1>1, <1>5, <1>7 DEF OnlyOf
    <2>3. \A q \in Refreshers : itemJob'[q] # Item!Idle => ~ itemJob'[q].alone
        BY <1>1, <1>2, <1>7, ItemIInvNow
    <2> QED
        BY <1>1, <1>2, <1>4, <1>5, <1>7, <2>1, <2>2, <2>3, ItemIInvNow, ItemIInvNext
<1> QED
    BY <1>3, <1>6, <1>7 DEF ItemJobs

LEMMA StepStore ==
    ASSUME Item!ItemAssumption, ItemIInv, ItemStateOK', NEW g \in Games, Item!Store(g)
    PROVE  ItemIInv'
<1>1. /\ UNCHANGED <<itemTable, itemPlatformOf, itemClosed, itemRows, itemClock, itemRuns, itemJob,
                     itemComplete, itemTrusted>>
      /\ itemStored' = itemStored \union {g}
    BY DEF Item!Store
<1>2. itemStored' \in SUBSET Games /\ itemStored \subseteq itemStored'
    BY <1>1 DEF ItemStateOK
<1>3. \A C, D : C \subseteq D /\ D \subseteq Games /\ OnlyOf(C, itemRows, itemComplete) =>
          OnlyOf(D, itemRows, itemComplete)
    BY EntriesGrow DEF OnlyOf
<1>4. ASSUME NEW r \in Refreshers, itemJob[r] # Item!Idle
      PROVE  /\ CoveredBy(itemJob[r], itemStored) \subseteq CoveredBy(itemJob[r], itemStored')
             /\ CoveredBy(itemJob[r], itemStored') \subseteq Games
    <2>1. itemJob[r] \in ItemJobs
        BY <1>4, ItemIInvNow
    <2>2. itemJob[r].compiled \subseteq Games /\ itemJob[r].ids \subseteq Games
        BY <2>1 DEF ItemJobs
    <2> QED
        BY <1>2, <2>2 DEF CoveredBy
<1>5. ~ itemClosed' => OnlyOf(itemStored', itemRows', itemComplete')
    BY <1>1, <1>2, <1>3, ItemIInvNow
<1>6. ASSUME NEW r \in Refreshers, itemJob'[r] # Item!Idle, itemJob'[r].alone
      PROVE  /\ itemJob'[r].compiled \union itemJob'[r].ids \subseteq itemStored'
             /\ OnlyOf(CoveredBy(itemJob'[r], itemStored'), itemRows', itemComplete')
             /\ itemJob'[r].step # "orphans" => CompiledIn(itemRows', itemJob'[r])
    <2>1. /\ itemJob[r].compiled \union itemJob[r].ids \subseteq itemStored
          /\ OnlyOf(CoveredBy(itemJob[r], itemStored), itemRows, itemComplete)
          /\ itemJob[r].step # "orphans" => CompiledIn(itemRows, itemJob[r])
        BY <1>1, <1>6, ItemIInvNow
    <2>2. OnlyOf(CoveredBy(itemJob[r], itemStored'), itemRows, itemComplete)
        BY <1>1, <1>3, <1>4, <1>6, <2>1, Zenon
    <2> QED
        BY <1>1, <1>2, <2>1, <2>2
<1> QED
    BY <1>1, <1>5, <1>6, ItemIInvNow, ItemIInvNext, Zenon

LEMMA StepClose ==
    ASSUME ItemIInv, ItemStateOK', Item!ClosePatch \/ UNCHANGED Item!vars
    PROVE  ItemIInv'
<1>1. /\ UNCHANGED <<itemTable, itemPlatformOf, itemStored, itemRows, itemClock, itemRuns, itemJob,
                     itemComplete, itemTrusted>>
      /\ ~ itemClosed' => ~ itemClosed
    BY DEF Item!ClosePatch, Item!vars
<1> QED
    BY <1>1, ItemIInvNow, ItemIInvNext

\* No run is trusted that the raw rows are taken from.
LEMMA StepPrune ==
    ASSUME ItemIInv, ItemStateOK', Item!PrunePatch
    PROVE  ItemIInv'
<1>1. /\ UNCHANGED <<itemTable, itemPlatformOf, itemClosed, itemRows, itemClock, itemRuns,
                     itemComplete>>
      /\ itemClosed /\ itemStored' = {} /\ itemTrusted' = (itemTrusted /\ Item!Active = {})
      /\ itemJob' = [q \in Refreshers |->
            IF q \in Item!Active THEN [itemJob[q] EXCEPT !.alone = FALSE] ELSE itemJob[q]]
    BY DEF Item!PrunePatch
<1>2. ASSUME NEW q \in Refreshers
      PROVE  /\ itemJob[q] = Item!Idle => itemJob'[q] = Item!Idle
             /\ itemJob[q] # Item!Idle => q \in Item!Active
             /\ itemJob[q] # Item!Idle =>
                   /\ itemJob'[q].at = itemJob[q].at /\ itemJob'[q].step = itemJob[q].step
                   /\ itemJob'[q].nonce = itemJob[q].nonce /\ ~ itemJob'[q].alone
                   /\ itemJob'[q].ids = itemJob[q].ids /\ itemJob'[q].todo = itemJob[q].todo
                   /\ itemJob'[q].all = itemJob[q].all
                          /\ itemJob'[q].platform = itemJob[q].platform
                   /\ itemJob'[q].compiled = itemJob[q].compiled
    <2>1. itemJob[q] # Item!Idle <=> q \in Item!Active
        BY ActiveKnown DEF ItemIInv
    <2>2. itemJob[q] # Item!Idle => itemJob[q] \in ItemJobs
        BY ItemIInvNow
    <2>3. itemJob'[q] = IF q \in Item!Active THEN [itemJob[q] EXCEPT !.alone = FALSE]
              ELSE itemJob[q]
        BY <1>1
    <2> QED
        BY <2>1, <2>2, <2>3 DEF ItemJobs
<1>3. \A q \in Refreshers : itemJob'[q] # Item!Idle => RunFits(itemJob'[q], itemClock', itemRuns')
    <2> SUFFICES ASSUME NEW q \in Refreshers, itemJob'[q] # Item!Idle
                 PROVE  RunFits(itemJob'[q], itemClock, itemRuns)
        BY <1>1, Zenon
    <2>1. RunFits(itemJob[q], itemClock, itemRuns)
        BY <1>2, ItemIInvNow
    <2> QED
        BY <1>2, <2>1 DEF RunFits
<1>4. itemTrusted' => \A q \in Refreshers : itemJob'[q] = Item!Idle
    BY <1>1, <1>2, Zenon
<1>5. \A q \in Refreshers : itemJob'[q] # Item!Idle =>
          itemJob[q] # Item!Idle /\ ~ itemJob'[q].alone
    BY <1>2
<1>6. \A q, s \in Refreshers :
         itemJob'[q] # Item!Idle /\ itemJob'[s] # Item!Idle /\ q # s =>
             itemJob'[q].nonce # itemJob'[s].nonce
    BY <1>2, <1>5, ItemIInvNow
<1>7. \A w \in itemRows', q \in Refreshers :
         itemJob'[q] # Item!Idle /\ w.platform[2] = itemJob'[q].nonce =>
             itemJob'[q].step # "orphans" /\ w.at = itemJob'[q].at
    BY <1>1, <1>2, <1>5, ItemIInvNow
<1>8. /\ \A w \in itemRows' : RowFits(w, itemRuns')
      /\ itemTrusted' => Serves(itemRows', itemComplete')
    BY <1>1, ItemIInvNow, Zenon
<1> QED
    BY <1>1, <1>3, <1>4, <1>5, <1>6, <1>7, <1>8, ItemIInvNext

\* A new run has everything before it.
LEMMA StepStart ==
    ASSUME Item!ItemAssumption, ItemIInv, ItemStateOK', NEW r \in Refreshers, Item!StartRefresh(r)
    PROVE  ItemIInv'
<1> DEFINE new == Item!RefreshItemSlots(r)
<1>1. /\ UNCHANGED <<itemTable, itemPlatformOf, itemStored, itemClosed, itemRows, itemClock,
                     itemComplete>>
      /\ itemRuns' = itemRuns + 1 /\ ~ itemClosed /\ itemJob[r] = Item!Idle
      /\ itemTrusted' = (itemTrusted /\ Item!Active = {})
      /\ itemJob' = [s \in Refreshers |->
            IF s = r THEN new
            ELSE IF s \in Item!Active THEN [itemJob[s] EXCEPT !.alone = FALSE]
            ELSE itemJob[s]]
    BY DEF Item!StartRefresh, Item!RefreshLoadouts
<1>2. /\ new.step = "orphans" /\ new.nonce = itemRuns + 1 /\ new.alone = (Item!Active = {})
      /\ new.all = Item!PlatformsOf(itemStored) /\ new.todo = Item!PlatformsOf(itemStored)
      /\ new.ids = {} /\ new.compiled = {} /\ new # Item!Idle
    BY DEF Item!RefreshItemSlots, Item!Idle
<1> HIDE DEF new
<1>3. itemJob'[r] = new
    BY <1>1
<1>4. ASSUME NEW q \in Refreshers, q # r
      PROVE  /\ itemJob[q] = Item!Idle => itemJob'[q] = Item!Idle
             /\ itemJob[q] # Item!Idle => q \in Item!Active
             /\ itemJob[q] # Item!Idle =>
                   /\ itemJob'[q].at = itemJob[q].at /\ itemJob'[q].step = itemJob[q].step
                   /\ itemJob'[q].nonce = itemJob[q].nonce /\ ~ itemJob'[q].alone
                   /\ itemJob'[q].ids = itemJob[q].ids /\ itemJob'[q].todo = itemJob[q].todo
                   /\ itemJob'[q].all = itemJob[q].all
                          /\ itemJob'[q].platform = itemJob[q].platform
                   /\ itemJob'[q].compiled = itemJob[q].compiled
    <2>1. itemJob[q] # Item!Idle <=> q \in Item!Active
        BY ActiveKnown DEF ItemIInv
    <2>2. itemJob[q] # Item!Idle => itemJob[q] \in ItemJobs
        BY ItemIInvNow
    <2>3. itemJob'[q] = IF q \in Item!Active THEN [itemJob[q] EXCEPT !.alone = FALSE]
              ELSE itemJob[q]
        BY <1>1, <1>4
    <2> QED
        BY <2>1, <2>2, <2>3 DEF ItemJobs
<1>5. itemRuns \in Nat /\ itemStored \subseteq Games
    BY DEF ItemIInv, ItemStateOK
<1>6. ASSUME NEW q \in Refreshers, q # r, itemJob[q] # Item!Idle
      PROVE  itemJob[q].nonce \in 1..itemRuns /\ RunFits(itemJob[q], itemClock, itemRuns)
    BY <1>6, ItemIInvNow DEF RunFits
<1>7. ASSUME NEW q \in Refreshers, itemJob'[q] # Item!Idle
      PROVE  RunFits(itemJob'[q], itemClock', itemRuns')
    <2>1. CASE q = r
        BY <1>1, <1>2, <1>3, <1>5, <2>1 DEF RunFits
    <2>2. CASE q # r
        BY <1>1, <1>4, <1>5, <1>6, <1>7, <2>2 DEF RunFits
    <2> QED
        BY <2>1, <2>2
<1>8. ASSUME NEW q \in Refreshers, NEW s \in Refreshers, itemJob'[q] # Item!Idle, q # s
      PROVE  /\ itemJob'[s] # Item!Idle => itemJob'[q].nonce # itemJob'[s].nonce
             /\ itemJob'[q].alone => itemJob'[s] = Item!Idle
    <2>1. CASE q = r
        <3>1. itemJob'[s] # Item!Idle => itemJob'[q].nonce # itemJob'[s].nonce
            BY <1>2, <1>3, <1>4, <1>5, <1>6, <1>8, <2>1
        <3>2. itemJob'[q].alone => Item!Active = {}
            BY <1>2, <1>3, <2>1, Zenon
        <3> QED
            BY <1>4, <1>8, <2>1, <3>1, <3>2
    <2>2. CASE s = r
        BY <1>2, <1>3, <1>4, <1>5, <1>6, <1>8, <2>2
    <2>3. CASE q # r /\ s # r
        BY <1>4, <1>8, <2>3, ItemIInvNow
    <2> QED
        BY <2>1, <2>2, <2>3
<1>9. itemTrusted' => \A q \in Refreshers : itemJob'[q] # Item!Idle => itemJob'[q].alone
    BY <1>1, <1>2, <1>3, <1>4, Zenon
<1>10. \A w \in itemRows : RowFits(w, itemRuns) /\ RowFits(w, itemRuns + 1)
           /\ w.platform[2] \in 0..itemRuns
    <2> SUFFICES ASSUME NEW w \in itemRows
                 PROVE  RowFits(w, itemRuns) /\ RowFits(w, itemRuns + 1)
                           /\ w.platform[2] \in 0..itemRuns
        OBVIOUS
    <2>1. RowFits(w, itemRuns)
        BY ItemIInvNow
    <2>2. \A n \in 1..itemRuns : n \in 1..(itemRuns + 1)
        BY <1>5
    <2>3. RowFits(w, itemRuns + 1)
        BY <2>1, <2>2 DEF RowFits
    <2> QED
        BY <2>1, <2>3, PlatformNames DEF ItemIInv
<1>11. ASSUME NEW w \in itemRows', NEW q \in Refreshers, itemJob'[q] # Item!Idle,
              w.platform[2] = itemJob'[q].nonce
       PROVE  itemJob'[q].step # "orphans" /\ w.at = itemJob'[q].at
    <2>1. q # r
        BY <1>1, <1>2, <1>3, <1>5, <1>10, <1>11
    <2> QED
        BY <1>1, <1>4, <1>11, <2>1, ItemIInvNow
<1>12. CoveredBy(new, itemStored) = itemStored
    BY <1>2 DEF CoveredBy, Item!PlatformsOf
<1>13. ASSUME NEW q \in Refreshers, itemJob'[q] # Item!Idle, itemJob'[q].alone
       PROVE  /\ itemJob'[q].compiled \union itemJob'[q].ids \subseteq itemStored'
              /\ OnlyOf(CoveredBy(itemJob'[q], itemStored'), itemRows', itemComplete')
              /\ itemJob'[q].step # "orphans" => CompiledIn(itemRows', itemJob'[q])
    <2>1. q = r
        BY <1>4, <1>13
    <2> QED
        BY <1>1, <1>2, <1>3, <1>12, <2>1, ItemIInvNow
<1>14. /\ \A w \in itemRows' : RowFits(w, itemRuns')
       /\ itemTrusted' => Serves(itemRows', itemComplete')
       /\ OnlyOf(itemStored', itemRows', itemComplete')
    BY <1>1, <1>10, ItemIInvNow, Zenon
<1> QED
    BY <1>1, <1>7, <1>8, <1>9, <1>11, <1>13, <1>14, ItemIInvNext

LEMMA ItemInvariance ==
    ASSUME Item!ItemAssumption
    PROVE  /\ Item!Init => ItemIInv
           /\ ItemIInv /\ [Item!Next]_(Item!vars) => ItemIInv'
<1>1. ASSUME Item!Init
      PROVE  ItemIInv
    <2>1. \A r \in Refreshers : itemJob[r] = Item!Idle
        BY <1>1 DEF Item!Init
    <2>2. itemJob = [r \in Refreshers |-> itemJob[r]]
        BY <1>1 DEF Item!Init
    <2>3. itemRuns \in 0..MaxRuns
        BY <1>1, ItemFinite DEF Item!Init
    <2>4. Item!Active = {}
        BY <2>1 DEF Item!Active, Item!Idle
    <2>5. ItemStateOK
        BY <1>1, <2>1, <2>2, <2>3, Zenon DEF Item!Init, ItemStateOK
    <2>6. itemRows = {} /\ itemComplete = {}
        BY <1>1 DEF Item!Init
    <2> QED
        BY <2>1, <2>4, <2>5, <2>6 DEF ItemIInv, RunsFit, ItemRowsFit, NothingIsOlder,
           CompiledIsThere,
           ItemReadersServed, Alone, OnlyOf, Serves
<1>2. ASSUME ItemIInv, [Item!Next]_(Item!vars)
      PROVE  ItemIInv'
    <2>1. ItemStateOK'
        BY <1>2, StepItemState DEF ItemIInv
    <2> QED
        BY <1>2, <2>1, StepGoesOn, StepAbort, StepFinish, StepStore, StepClose, StepPrune,
           StepStart
           DEF Item!Next
<1> QED
    BY <1>1, <1>2

-----------------------------------------------------------------------------
(* The item tables implement ReadModel *)

\* What the readers of the items see.
ItemShows ==
    /\ itemRows # {} => Item!Shown = Item!Entries(Item!Final(itemRows))
    /\ itemRows = {} => Item!Shown \subseteq EntriesOf(itemStored)
    /\ itemRows = {} /\ (itemClosed \/ itemStored = {}) => Item!Shown = {}
    /\ itemTrusted /\ itemComplete # {} => itemComplete \subseteq Item!Shown

LEMMA ItemShown ==
    ASSUME Item!ItemAssumption, ItemIInv
    PROVE  ItemShows
<1>1. itemStored \in SUBSET Games
    BY DEF ItemIInv, ItemStateOK
<1>2. ASSUME itemTrusted, NEW e \in itemComplete
      PROVE  e \in Item!Shown
    <2>1. PICK w \in Item!Final(itemRows) : \E g \in w.games : e = Item!Entry(w.key, g)
        BY <1>2 DEF ItemIInv, ItemReadersServed, Serves
    <2>2. itemRows # {}
        BY <2>1 DEF Item!Final
    <2>3. e \in Item!Entries(Item!Final(itemRows))
        BY <2>1 DEF Item!Entries
    <2> QED
        BY <1>1, <2>2, <2>3, ShownKnown
<1> QED
    BY <1>1, <1>2, ShownKnown DEF ItemShows

\* A statement that neither ends a run that runs alone nor stores a game.
LEMMA ItemCompileRefines ==
    ASSUME Item!ItemAssumption, ItemIInv, ItemShows, ItemShows', itemTable' = itemTable,
           itemStored' = itemStored, itemComplete' = itemComplete, itemTrusted' => itemTrusted,
           \/ itemRows' = itemRows /\ (~ itemClosed' => ~ itemClosed)
           \/ \E r \in Refreshers : itemJob[r] # Item!Idle /\ itemRows' = Item!Effect(itemJob[r])
    PROVE  Item!Abstract!Compile
<1>1. EntriesOf(itemStored)' = EntriesOf(itemStored)
    BY SameMeaning
<1>2. Item!Entries(Item!Final(itemRows)) \subseteq Item!Shown
    BY DEF ItemShows, Item!Entries, Item!Final
<1>3. Item!Entries(Item!Final(itemRows))' \subseteq
          Item!Entries(Item!Final(itemRows)) \union EntriesOf(itemStored)
    <2>1. Item!Entries(Item!Final(itemRows))' = Item!Entries(Item!Final(itemRows'))
        BY SameMeaning DEF Item!Entries, Item!Final
    <2>2. ASSUME NEW r \in Refreshers, itemJob[r] # Item!Idle, itemRows' = Item!Effect(itemJob[r])
          PROVE  Item!Entries(Item!Final(itemRows')) \subseteq
                     Item!Entries(Item!Final(itemRows)) \union EntriesOf(itemStored)
        BY <2>2, EffectShows DEF ItemIInv
    <2> QED
        BY <2>1, <2>2
<1>4. Item!Shown' \subseteq Item!Shown \union EntriesOf(itemStored)
    <2>1. CASE itemRows' = {}
        BY <1>1, <2>1 DEF ItemShows
    <2>2. CASE itemRows' # {}
        BY <1>2, <1>3, <2>2 DEF ItemShows
    <2> QED
        BY <2>1, <2>2
<1>5. Item!Entries(Item!BatchRows(itemStored))' = Item!Entries(Item!BatchRows(itemStored))
    BY <1>1 DEF EntriesOf
<1> QED
    BY <1>4, <1>5 DEF Item!Abstract!Compile, Item!Abstract!Readable, ItemShows, EntriesOf

\* The end of a run that ran alone.
LEMMA ItemPublishRefines ==
    ASSUME Item!ItemAssumption, ItemIInv, ItemIInv', ItemShows', NEW r \in Refreshers,
           Item!FinishRefresh(r), itemJob[r].alone
    PROVE  Item!Abstract!Publish
<1> DEFINE j == itemJob[r]
<1>1. /\ UNCHANGED <<itemTable, itemPlatformOf, itemStored, itemClosed, itemClock, itemRuns>>
      /\ itemRows' = Item!Effect(j) /\ j.step = "old" /\ j # Item!Idle
      /\ itemComplete' = EntriesOf(j.compiled) /\ itemTrusted' = TRUE
    BY DEF Item!FinishRefresh, EntriesOf, Item!Idle
<1>2. /\ j \in ItemJobs /\ j.ids = {} /\ j.todo = {} /\ j.compiled \subseteq itemStored
      /\ OnlyOf(CoveredBy(j, itemStored), itemRows, itemComplete)
      /\ itemStored \in SUBSET Games
    BY <1>1, ItemIInvNow DEF RunFits, ItemStateOK
<1>3. CoveredBy(j, itemStored) = j.compiled
    BY <1>2 DEF CoveredBy
<1>4. EntriesOf(itemStored)' = EntriesOf(itemStored)
          /\ itemComplete' \subseteq EntriesOf(itemStored)
    BY <1>1, <1>2, EntriesGrow, SameMeaning
<1>5. itemComplete \subseteq itemComplete'
    BY <1>1, <1>2, <1>3 DEF OnlyOf
<1>6. Item!Entries(Item!Final(itemRows))' \subseteq itemComplete'
    <2>1. Item!Entries(Item!Final(itemRows))' = Item!Entries(Item!Final(itemRows'))
        BY <1>1, SameMeaning DEF Item!Entries, Item!Final
    <2>2. ASSUME NEW w \in Item!Final(itemRows'), NEW g \in w.games
          PROVE  Item!Entry(w.key, g) \in itemComplete'
        <3>1. w \in itemRows'
            BY DEF Item!Final
        <3>2. w \in itemRows
            BY <1>1, <1>2, <3>1, EffectKnown
        <3>3. g \in j.compiled /\ w.key \in ItemKeys(g)
            BY <1>2, <1>3, <3>2, ItemIInvNow DEF OnlyOf, RowFits
        <3> QED
            BY <1>1, <1>2, <3>3, EntriesKnown
    <2> QED
        BY <2>1, <2>2 DEF Item!Entries
<1>7. Item!Shown' = itemComplete' \/ (itemComplete' = {} /\ Item!Shown' \subseteq EntriesOf(itemStored))
    <2>1. CASE itemComplete' # {}
        <3>1. \E w \in itemRows' : TRUE
            BY <1>1, <2>1 DEF ItemIInv, ItemReadersServed, Serves, Item!Final
        <3> QED
            BY <1>1, <1>6, <2>1, <3>1 DEF ItemShows
    <2>2. CASE itemComplete' = {} /\ itemRows' = {}
        BY <1>4, <2>2 DEF ItemShows
    <2>3. CASE itemComplete' = {} /\ itemRows' # {}
        BY <1>6, <2>3 DEF ItemShows
    <2> QED
        BY <2>1, <2>2, <2>3
<1>8. Item!Entries(Item!BatchRows(itemStored))' = Item!Entries(Item!BatchRows(itemStored))
    BY <1>4 DEF EntriesOf
<1> QED
    BY <1>1, <1>4, <1>5, <1>7, <1>8 DEF Item!Abstract!Publish, EntriesOf

LEMMA ItemStoreRefines ==
    ASSUME Item!ItemAssumption, ItemIInv, ItemIInv', ItemShows, ItemShows', NEW g \in Games,
           Item!Store(g)
    PROVE  Item!Abstract!Store
<1>1. /\ UNCHANGED <<itemTable, itemRows, itemComplete, itemTrusted>>
      /\ itemStored' = itemStored \union {g}
    BY DEF Item!Store
<1>2. EntriesOf(itemStored') = EntriesOf(itemStored)'
    BY <1>1, SameMeaning
<1>3. itemStored' \in SUBSET Games /\ itemStored \in SUBSET itemStored'
    BY <1>1 DEF ItemIInv, ItemStateOK
<1>4. EntriesOf(itemStored) \subseteq EntriesOf(itemStored)'
    BY <1>2, <1>3, EntriesGrow
<1>5. Item!Entries(Item!Final(itemRows))' = Item!Entries(Item!Final(itemRows))
    BY <1>1, SameMeaning DEF Item!Entries, Item!Final
<1>6. Item!Shown' \subseteq Item!Shown \union EntriesOf(itemStored)'
    BY <1>1, <1>5 DEF ItemShows
<1> QED
    BY <1>1, <1>4, <1>6 DEF Item!Abstract!Store, Item!Abstract!Readable, ItemShows, EntriesOf

LEMMA ItemRetireRefines ==
    ASSUME ItemIInv, ItemIInv', ItemShows, ItemShows', Item!PrunePatch
    PROVE  Item!Abstract!Retire
<1>1. /\ UNCHANGED <<itemTable, itemRows, itemComplete>>
      /\ itemStored' = {} /\ itemTrusted' = (itemTrusted /\ Item!Active = {})
    BY DEF Item!PrunePatch
<1>2. EntriesOf(itemStored)' = {}
    <2>1. EntriesOf({}) = {}
        BY {} \in SUBSET Games, EntriesKnown
    <2> QED
        BY <1>1, <2>1, SameMeaning
<1>3. Item!Entries(Item!Final(itemRows))' = Item!Entries(Item!Final(itemRows))
    BY <1>1, SameMeaning DEF Item!Entries, Item!Final
<1>4. Item!Shown' \subseteq Item!Shown
    BY <1>1, <1>3 DEF ItemShows
<1> QED
    BY <1>1, <1>2, <1>4, Zenon DEF Item!Abstract!Retire, Item!Abstract!Readable, ItemShows,
       EntriesOf

LEMMA ItemStepRefines ==
    ASSUME Item!ItemAssumption, ItemIInv, ItemIInv', ItemShows, ItemShows',
           [Item!Next]_(Item!vars)
    PROVE  [Item!Abstract!Next]_(Item!Abstract!vars)
<1>1. ASSUME NEW r \in Refreshers,
             Item!StampRun(r) \/ Item!Statement(r) \/ Item!Repeat(r)
             \/ (Item!FinishRefresh(r) /\ ~ itemJob[r].alone)
      PROVE  Item!Abstract!Compile
    <2>1. /\ itemJob[r] # Item!Idle /\ itemRows' = Item!Effect(itemJob[r])
          /\ UNCHANGED <<itemTable, itemStored, itemComplete, itemTrusted>>
        BY <1>1 DEF Item!StampRun, Item!Statement, Item!Repeat, Item!FinishRefresh, Item!Idle
    <2> QED
        BY <2>1, ItemCompileRefines
<1>2. ASSUME NEW r \in Refreshers, Item!StartRefresh(r) \/ Item!Abort(r)
      PROVE  Item!Abstract!Compile
    <2>1. /\ UNCHANGED <<itemTable, itemStored, itemClosed, itemRows, itemComplete>>
          /\ itemTrusted' => itemTrusted
        <3>1. CASE Item!StartRefresh(r)
            <4>1. itemTrusted' = (itemTrusted /\ Item!Active = {})
                BY <3>1 DEF Item!StartRefresh
            <4>2. UNCHANGED <<itemTable, itemStored, itemClosed, itemRows, itemComplete>>
                BY <3>1 DEF Item!StartRefresh
            <4> QED
                BY <4>1, <4>2, Zenon
        <3>2. CASE Item!Abort(r)
            BY <3>2 DEF Item!Abort
        <3> QED
            BY <1>2, <3>1, <3>2
    <2> QED
        BY <2>1, ItemCompileRefines
<1>3. ASSUME Item!ClosePatch
      PROVE  Item!Abstract!Compile
    <2>1. /\ UNCHANGED <<itemTable, itemStored, itemRows, itemComplete, itemTrusted>>
          /\ itemClosed'
        BY <1>3 DEF Item!ClosePatch
    <2> QED
        BY <2>1, ItemCompileRefines
<1>4. CASE UNCHANGED Item!vars
    <2>1. Item!Shown' = Item!Shown
        BY <1>4 DEF Item!vars, Item!Shown, Item!Final, Item!HasData, Item!PatchIsClosed,
           Item!TableKeys, Item!QueryItemSlots, Item!QueryStartingItemLoadouts, Item!SlotSummary,
           Item!LoadoutSummary, Item!Summed, Item!LiveScanSlots, Item!LiveScanLoadouts,
           Item!Entries, Item!Entry, Item!Started, Item!SlotKeys, Item!LoadoutKeys
    <2>2. Item!Entries(Item!BatchRows(itemStored))' = Item!Entries(Item!BatchRows(itemStored))
        BY <1>4, SameMeaning DEF Item!vars, EntriesOf
    <2> QED
        BY <1>4, <2>1, <2>2 DEF Item!vars, Item!Abstract!vars
<1> QED
    BY <1>1, <1>2, <1>3, <1>4, ItemPublishRefines, ItemStoreRefines, ItemRetireRefines
       DEF Item!Next, Item!Abstract!Next

LEMMA ItemInitRefines ==
    ASSUME Item!ItemAssumption, Item!Init
    PROVE  Item!Abstract!Init
<1>1. ItemShows
    BY ItemInvariance, ItemShown
<1> QED
    BY <1>1 DEF Item!Init, Item!Abstract!Init, ItemShows

\* The item tables keep what the last complete refresh gave their readers, for
\* any games, purchases, refreshers, failures and repeated statements
\* (RefreshItemSlotAnalytics, item_slot_analytics.go:705).
LEMMA ItemImplements ==
    ASSUME Item!ItemAssumption
    PROVE  Item!Spec => Item!Abstract!Spec
<1>1. Item!Init => Item!Abstract!Init
    BY ItemInitRefines
<1>2. ItemIInv /\ ItemIInv' /\ ItemShows /\ ItemShows' /\ [Item!Next]_(Item!vars) =>
          [Item!Abstract!Next]_(Item!Abstract!vars)
    BY ItemStepRefines
<1>3. ItemIInv => ItemShows
    BY ItemShown
<1>4. (Item!Init => ItemIInv) /\ (ItemIInv /\ [Item!Next]_(Item!vars) => ItemIInv')
    BY ItemInvariance
<1> QED
    BY <1>1, <1>2, <1>3, <1>4, PTL DEF Item!Spec, Item!Abstract!Spec

-----------------------------------------------------------------------------
(* The win conditions *)

WinState ==
    /\ winStored \subseteq WinGames
    /\ winRankOf \in [Players -> Win!Ladder]
    /\ winClock \in Nat
    /\ winRuns \in 0..MaxRuns

\* The tables hold no row of the future, and full teams only.
WinTables ==
    /\ winTeams = [p \in Platforms |-> winTeams[p]]
    /\ winMetrics = [p \in Platforms \union {"ALL"} |-> winMetrics[p]]
    /\ \A p \in Platforms : \A at \in DOMAIN winTeams[p] :
          at \in Nat /\ at <= winClock /\ DOMAIN winTeams[p][at] \subseteq Full
    /\ \A p \in Platforms \union {"ALL"} : \A at \in DOMAIN winMetrics[p] :
          at \in Nat /\ at <= winClock

PlatformSteps == {"teams", "metrics", "metrics_rest", "drop_teams", "drop_metrics"}

AllSteps == {"all", "all_rest", "drop_all"}

\* The refresh under way has the record of one, stamped now.
WinRefresh ==
    \/ winJob = Win!Idle
    \/ /\ winJob = [step |-> winJob.step, at |-> winJob.at, todo |-> winJob.todo,
                    platform |-> winJob.platform, games |-> winJob.games,
                    ranks |-> winJob.ranks, sum |-> winJob.sum,
                    whole |-> winJob.whole, later |-> winJob.later]
       /\ winJob.at = winClock
       /\ winJob.todo \in SUBSET Platforms
       /\ winJob.games \in SUBSET WinGames
       /\ winJob.ranks \in [Players -> Win!Ladder]
       /\ winJob.later \in BOOLEAN
       /\ \/ winJob.step = "next"
          \/ winJob.step \in PlatformSteps /\ winJob.platform \in Platforms
          \/ winJob.step \in AllSteps /\ winJob.platform = "ALL"

\* A table's rows of one second.
RowsAre(table, at, cells) ==
    IF DOMAIN cells = {} THEN at \notin DOMAIN table
    ELSE at \in DOMAIN table /\ table[at] = cells

\* The ALL rows of a refresh in a second of its own: none, the first chunk of
\* the platforms' sum, and the sum.
AllRows ==
    (winJob # Win!Idle /\ winJob.later) =>
        LET all == winMetrics["ALL"]
            sum == Win!SumPlatforms(winMetrics)
        IN  /\ (winJob.step \notin {"all_rest", "drop_all"}) => winJob.at \notin DOMAIN all
            /\ (winJob.step \in {"all", "all_rest"}) => winJob.sum = sum
            /\ (winJob.step = "all_rest") => RowsAre(all, winJob.at, Win!FirstChunk(sum))
            /\ (winJob.step = "drop_all") => RowsAre(all, winJob.at, sum)

WinIInv == WinState /\ WinTables /\ WinRefresh /\ AllRows

LEMMA RecordsFit ==
    ASSUME NEW games \in SUBSET WinGames, NEW ranks \in [Players -> Win!Ladder]
    PROVE  DOMAIN Win!Compiled[games][ranks].records \subseteq Full
<1>1. ranks \in [Players -> Win!Ladder \union {Win!Unknown}]
    OBVIOUS
<1>2. Win!Compiled[games][ranks].records = Win!TeamRecords(games, ranks)
    BY <1>1 DEF Win!Compiled
<1>3. DOMAIN Win!TeamRecords(games, ranks) = (games \X Sides) \intersect Full
    BY DEF Win!TeamRecords
<1> QED
    BY <1>2, <1>3

\* An insert adds rows of its second, under the keys it brings.
LEMMA WinInserted ==
    ASSUME NEW table, NEW at, NEW cells
    PROVE  /\ DOMAIN Win!Insert(table, at, cells) \subseteq DOMAIN table \union {at}
           /\ \A a \in DOMAIN Win!Insert(table, at, cells) :
                 \A k \in DOMAIN Win!Insert(table, at, cells)[a] :
                    \/ a \in DOMAIN table /\ k \in DOMAIN table[a]
                    \/ k \in DOMAIN cells
<1> DEFINE old == IF at \in DOMAIN table THEN table[at] ELSE [k \in {} |-> 0]
           new == [k \in DOMAIN old \union DOMAIN cells |->
                      IF k \in DOMAIN cells THEN cells[k] ELSE old[k]]
           res == [a \in DOMAIN table \union {at} |-> IF a = at THEN new ELSE table[a]]
<1>1. CASE DOMAIN cells = {}
    BY <1>1 DEF Win!Insert
<1>2. CASE DOMAIN cells # {}
    <2>1. Win!Insert(table, at, cells) = res
        BY <1>2 DEF Win!Insert
    <2>2. DOMAIN new = DOMAIN old \union DOMAIN cells
        OBVIOUS
    <2>3. \A k \in DOMAIN old : at \in DOMAIN table /\ k \in DOMAIN table[at]
        OBVIOUS
    <2> HIDE DEF old, new
    <2>4. DOMAIN res = DOMAIN table \union {at}
          /\ \A a \in DOMAIN res : res[a] = IF a = at THEN new ELSE table[a]
        OBVIOUS
    <2> HIDE DEF res
    <2> QED
        BY <2>1, <2>2, <2>3, <2>4
<1> QED
    BY <1>1, <1>2, Zenon

LEMMA WinDeleted ==
    ASSUME NEW table, NEW at
    PROVE  /\ DOMAIN Win!DeleteOld(table, at) = {a \in DOMAIN table : ~(a < at)}
           /\ \A a \in DOMAIN Win!DeleteOld(table, at) : Win!DeleteOld(table, at)[a] = table[a]
BY DEF Win!DeleteOld, Win!Restrict

\* The two chunks of an insert make the whole.
LEMMA ChunksMakeTheSum ==
    ASSUME NEW table, NEW at, NEW sum, sum = [k \in DOMAIN sum |-> sum[k]]
    PROVE  /\ at \notin DOMAIN table =>
                  RowsAre(Win!Insert(table, at, Win!FirstChunk(sum)), at, Win!FirstChunk(sum))
           /\ RowsAre(table, at, Win!FirstChunk(sum)) =>
                  RowsAre(Win!Insert(table, at, Win!LastChunk(sum)), at, sum)
<1> DEFINE first == Win!FirstChunk(sum)
           last == Win!LastChunk(sum)
           F == {k \in DOMAIN sum : k[1] = Win!All}
           G == {k \in DOMAIN sum : k[1] # Win!All}
<1>1. first = [k \in F |-> sum[k]] /\ last = [k \in G |-> sum[k]]
    BY DEF Win!FirstChunk, Win!LastChunk, Win!Restrict
<1>2. F \union G = DOMAIN sum /\ F \intersect G = {}
    OBVIOUS
<1> HIDE DEF first, last, F, G
<1>3. ASSUME at \notin DOMAIN table
      PROVE  RowsAre(Win!Insert(table, at, first), at, first)
    <2>1. CASE DOMAIN first = {}
        BY <1>3, <2>1 DEF RowsAre, Win!Insert
    <2>2. CASE DOMAIN first # {}
        <3> DEFINE old == [k \in {} |-> 0]
                   new == [k \in DOMAIN old \union DOMAIN first |->
                              IF k \in DOMAIN first THEN first[k] ELSE old[k]]
        <3>1. Win!Insert(table, at, first) =
                 [a \in DOMAIN table \union {at} |-> IF a = at THEN new ELSE table[a]]
            BY <1>3, <2>2 DEF Win!Insert
        <3>2. new = first
            BY <1>1
        <3> HIDE DEF new
        <3> QED
            BY <2>2, <3>1, <3>2 DEF RowsAre
    <2> QED
        BY <2>1, <2>2, Zenon
<1>4. ASSUME RowsAre(table, at, first)
      PROVE  RowsAre(Win!Insert(table, at, last), at, sum)
    <2>1. CASE DOMAIN last = {}
        <3>1. Win!Insert(table, at, last) = table
            BY <2>1 DEF Win!Insert
        <3>2. F = DOMAIN sum
            BY <1>1, <1>2, <2>1
        <3>3. first = sum
            BY <1>1, <3>2
        <3> QED
            BY <1>4, <3>1, <3>3
    <2>2. CASE DOMAIN last # {}
        <3> DEFINE old == IF at \in DOMAIN table THEN table[at] ELSE [k \in {} |-> 0]
                   new == [k \in DOMAIN old \union DOMAIN last |->
                              IF k \in DOMAIN last THEN last[k] ELSE old[k]]
        <3>1. Win!Insert(table, at, last) =
                 [a \in DOMAIN table \union {at} |-> IF a = at THEN new ELSE table[a]]
            BY <2>2 DEF Win!Insert
        <3>2. DOMAIN old = F /\ \A k \in F : old[k] = sum[k]
            <4>1. CASE DOMAIN first = {}
                BY <1>1, <1>4, <4>1 DEF RowsAre
            <4>2. CASE DOMAIN first # {}
                BY <1>1, <1>4, <4>2 DEF RowsAre
            <4> QED
                BY <4>1, <4>2, Zenon
        <3> HIDE DEF old
        <3>3. new = sum
            BY <1>1, <1>2, <3>2
        <3>4. DOMAIN sum # {}
            BY <1>1, <1>2, <2>2
        <3> HIDE DEF new
        <3> QED
            BY <3>1, <3>3, <3>4 DEF RowsAre
    <2> QED
        BY <2>1, <2>2
<1> QED
    BY <1>3, <1>4 DEF first, last

\* The sum is a function of the platforms' rows alone.
LEMMA SumIsLocal ==
    ASSUME NEW old, NEW new, \A p \in Platforms : new[p] = old[p]
    PROVE  Win!SumPlatforms(new) = Win!SumPlatforms(old)
<1>1. [p \in Platforms |-> Win!Final(new[p])] = [p \in Platforms |-> Win!Final(old[p])]
    OBVIOUS
<1> QED
    BY <1>1 DEF Win!SumPlatforms

LEMMA SumIsFunction ==
    ASSUME NEW table
    PROVE  Win!SumPlatforms(table) =
              [k \in DOMAIN Win!SumPlatforms(table) |-> Win!SumPlatforms(table)[k]]
<1> DEFINE final == [p \in Platforms |-> Win!Final(table[p])]
<1>1. Win!SumOf(final) = [k \in DOMAIN Win!SumOf(final) |-> Win!SumOf(final)[k]]
    BY Zenon DEF Win!SumOf
<1> QED
    BY <1>1 DEF Win!SumPlatforms

\* What FINAL shows of a table whose rows are all of one second.
LEMMA FinalOfOne ==
    ASSUME NEW table, NEW at \in Nat, NEW sum, sum = [k \in DOMAIN sum |-> sum[k]],
           DOMAIN table \subseteq {at}, RowsAre(table, at, sum)
    PROVE  DOMAIN Win!Final(table) = DOMAIN sum
           /\ \A k \in DOMAIN sum : Win!Final(table)[k] = sum[k]
<1> DEFINE keys == UNION {DOMAIN table[a] : a \in DOMAIN table}
           newest(k) == Win!Max({a \in DOMAIN table : k \in DOMAIN table[a]})
<1>1. Win!Final(table) = [k \in keys |-> table[newest(k)][k]]
    BY DEF Win!Final
<1>2. CASE DOMAIN sum = {}
    <2>1. DOMAIN table = {}
        BY <1>2 DEF RowsAre
    <2>2. keys = {}
        BY <2>1
    <2> QED
        BY <1>1, <1>2, <2>2
<1>3. CASE DOMAIN sum # {}
    <2>1. DOMAIN table = {at} /\ table[at] = sum
        BY <1>3, Zenon DEF RowsAre
    <2>2. keys = DOMAIN sum
        BY <2>1
    <2>3. ASSUME NEW k \in DOMAIN sum
          PROVE  newest(k) = at
        <3>1. {a \in DOMAIN table : k \in DOMAIN table[a]} = {at}
            BY <2>1
        <3>2. Win!Max({at}) = at
            BY DEF Win!Max
        <3> QED
            BY <3>1, <3>2
    <2> HIDE DEF keys, newest
    <2> QED
        BY <1>1, <2>1, <2>2, <2>3
<1> QED
    BY <1>2, <1>3, Zenon

LEMMA MetricsInserted ==
    ASSUME WinTables, WinState, NEW p, NEW cells,
           winMetrics' = [winMetrics EXCEPT ![p] = Win!Insert(winMetrics[p], winClock, cells)]
    PROVE  /\ winMetrics' = [q \in Platforms \union {"ALL"} |-> winMetrics'[q]]
           /\ \A q \in Platforms \union {"ALL"} : \A at \in DOMAIN winMetrics'[q] :
                 at \in Nat /\ at <= winClock
           /\ \A q \in Platforms \union {"ALL"} : q # p => winMetrics'[q] = winMetrics[q]
           /\ p \in Platforms \union {"ALL"} =>
                 winMetrics'[p] = Win!Insert(winMetrics[p], winClock, cells)
<1>1. winClock \in Nat
    BY DEF WinState
<1> DEFINE new == Win!Insert(winMetrics[p], winClock, cells)
<1>2. DOMAIN new \subseteq DOMAIN winMetrics[p] \union {winClock}
    BY WinInserted
<1> HIDE DEF new
<1>3. winMetrics' = [winMetrics EXCEPT ![p] = new]
    BY DEF new
<1>4. /\ winMetrics' = [q \in Platforms \union {"ALL"} |-> winMetrics'[q]]
      /\ \A q \in Platforms \union {"ALL"} : q # p => winMetrics'[q] = winMetrics[q]
      /\ p \in Platforms \union {"ALL"} => winMetrics'[p] = new
    BY <1>3, Zenon DEF WinTables
<1>5. \A q \in Platforms \union {"ALL"} : \A at \in DOMAIN winMetrics'[q] :
         at \in Nat /\ at <= winClock
    <2> SUFFICES ASSUME NEW q \in Platforms \union {"ALL"}, NEW at \in DOMAIN winMetrics'[q]
                 PROVE  at \in Nat /\ at <= winClock
        OBVIOUS
    <2>1. CASE q # p
        BY <1>4, <2>1, Zenon DEF WinTables
    <2>2. CASE q = p
        <3>1. at \in DOMAIN winMetrics[p] \/ at = winClock
            BY <1>2, <1>4, <2>2
        <3>2. CASE at = winClock
            BY <1>1, <3>2
        <3>3. CASE at \in DOMAIN winMetrics[p]
            BY <2>2, <3>3, Zenon DEF WinTables
        <3> QED
            BY <3>1, <3>2, <3>3
    <2> QED
        BY <2>1, <2>2
<1> QED
    BY <1>4, <1>5 DEF new

LEMMA MetricsDeleted ==
    ASSUME WinTables, NEW p, NEW at,
           winMetrics' = [winMetrics EXCEPT ![p] = Win!DeleteOld(winMetrics[p], at)]
    PROVE  /\ winMetrics' = [q \in Platforms \union {"ALL"} |-> winMetrics'[q]]
           /\ \A q \in Platforms \union {"ALL"} : \A a \in DOMAIN winMetrics'[q] :
                 a \in Nat /\ a <= winClock
           /\ \A q \in Platforms \union {"ALL"} : q # p => winMetrics'[q] = winMetrics[q]
           /\ p \in Platforms \union {"ALL"} =>
                 winMetrics'[p] = Win!DeleteOld(winMetrics[p], at)
<1> DEFINE new == Win!DeleteOld(winMetrics[p], at)
<1>2. DOMAIN new \subseteq DOMAIN winMetrics[p]
    BY WinDeleted, Zenon
<1> HIDE DEF new
<1>3. winMetrics' = [winMetrics EXCEPT ![p] = new]
    BY DEF new
<1>4. /\ winMetrics' = [q \in Platforms \union {"ALL"} |-> winMetrics'[q]]
      /\ \A q \in Platforms \union {"ALL"} : q # p => winMetrics'[q] = winMetrics[q]
      /\ p \in Platforms \union {"ALL"} => winMetrics'[p] = new
    BY <1>3, Zenon DEF WinTables
<1>5. \A q \in Platforms \union {"ALL"} : \A a \in DOMAIN winMetrics'[q] :
         a \in Nat /\ a <= winClock
    BY <1>2, <1>4, Zenon DEF WinTables
<1> QED
    BY <1>4, <1>5 DEF new

LEMMA TeamsInserted ==
    ASSUME WinTables, WinState, NEW p, NEW cells, DOMAIN cells \subseteq Full,
           winTeams' = [winTeams EXCEPT ![p] = Win!Insert(winTeams[p], winClock, cells)]
    PROVE  /\ winTeams' = [q \in Platforms |-> winTeams'[q]]
           /\ \A q \in Platforms : \A at \in DOMAIN winTeams'[q] :
                 at \in Nat /\ at <= winClock /\ DOMAIN winTeams'[q][at] \subseteq Full
<1>1. winClock \in Nat
    BY DEF WinState
<1> DEFINE new == Win!Insert(winTeams[p], winClock, cells)
<1>2. /\ DOMAIN new \subseteq DOMAIN winTeams[p] \union {winClock}
      /\ \A a \in DOMAIN new : \A k \in DOMAIN new[a] :
             (a \in DOMAIN winTeams[p] /\ k \in DOMAIN winTeams[p][a]) \/ k \in DOMAIN cells
    BY WinInserted
<1> HIDE DEF new
<1>3. winTeams' = [winTeams EXCEPT ![p] = new]
    BY DEF new
<1>4. /\ winTeams' = [q \in Platforms |-> winTeams'[q]]
      /\ \A q \in Platforms : q # p => winTeams'[q] = winTeams[q]
      /\ p \in Platforms => winTeams'[p] = new
    BY <1>3 DEF WinTables
<1>5. ASSUME NEW q \in Platforms, NEW at \in DOMAIN winTeams'[q]
      PROVE  at \in Nat /\ at <= winClock /\ DOMAIN winTeams'[q][at] \subseteq Full
    <2>1. CASE q # p
        BY <1>4, <2>1 DEF WinTables
    <2>2. CASE q = p
        <3>1. winTeams'[q] = new /\ at \in DOMAIN new
            BY <1>4, <2>2
        <3>2. at \in Nat /\ at <= winClock
            BY <1>1, <1>2, <2>2, <3>1 DEF WinTables
        <3>3. \A k \in DOMAIN new[at] : k \in Full
            BY <1>2, <2>2, <3>1 DEF WinTables
        <3> QED
            BY <3>1, <3>2, <3>3
    <2> QED
        BY <2>1, <2>2
<1> QED
    BY <1>4, <1>5

LEMMA TeamsDeleted ==
    ASSUME WinTables, NEW p, NEW at,
           winTeams' = [winTeams EXCEPT ![p] = Win!DeleteOld(winTeams[p], at)]
    PROVE  /\ winTeams' = [q \in Platforms |-> winTeams'[q]]
           /\ \A q \in Platforms : \A a \in DOMAIN winTeams'[q] :
                 a \in Nat /\ a <= winClock /\ DOMAIN winTeams'[q][a] \subseteq Full
<1> DEFINE new == Win!DeleteOld(winTeams[p], at)
<1>2. DOMAIN new \subseteq DOMAIN winTeams[p] /\ \A a \in DOMAIN new : new[a] = winTeams[p][a]
    BY WinDeleted, Zenon
<1> HIDE DEF new
<1>3. winTeams' = [winTeams EXCEPT ![p] = new]
    BY DEF new
<1>4. /\ winTeams' = [q \in Platforms |-> winTeams'[q]]
      /\ \A q \in Platforms : q # p => winTeams'[q] = winTeams[q]
      /\ p \in Platforms => winTeams'[p] = new
    BY <1>3 DEF WinTables
<1> QED
    BY <1>2, <1>4, Zenon DEF WinTables

\* The record of a refresh, with the fields a statement sets.
LEMMA RefreshGoesOn ==
    ASSUME WinRefresh, winJob # Win!Idle, winClock' = winClock,
           NEW step, NEW todo \in SUBSET Platforms, NEW platform, NEW games \in SUBSET WinGames,
           NEW ranks \in [Players -> Win!Ladder], NEW sum,
           \/ step = "next"
           \/ step \in PlatformSteps /\ platform \in Platforms
           \/ step \in AllSteps /\ platform = "ALL",
           winJob' = [step |-> step, at |-> winJob.at, todo |-> todo, platform |-> platform,
                      games |-> games, ranks |-> ranks, sum |-> sum,
                      whole |-> winJob.whole, later |-> winJob.later]
    PROVE  /\ WinRefresh'
           /\ winJob'.step = step /\ winJob'.at = winJob.at /\ winJob'.sum = sum
           /\ winJob'.later = winJob.later
<1>2. /\ winJob'.step = step /\ winJob'.at = winJob.at /\ winJob'.todo = todo
      /\ winJob'.platform = platform /\ winJob'.games = games /\ winJob'.ranks = ranks
      /\ winJob'.sum = sum /\ winJob'.whole = winJob.whole /\ winJob'.later = winJob.later
    OBVIOUS
<1> QED
    BY <1>2 DEF WinRefresh

\* A chunk of a platform's metrics, or of the ALL rows.
LEMMA StepInsertMetrics ==
    ASSUME Win!WinAssumption, WinState, WinTables, WinRefresh, AllRows, Win!InsertMetrics
    PROVE  WinState' /\ WinTables' /\ WinRefresh' /\ AllRows'
<1> DEFINE s == winJob.step
           sum == winJob.sum
           all == winMetrics["ALL"]
           then == CASE s = "metrics" -> "metrics_rest" [] s = "metrics_rest" -> "drop_teams"
                     [] s = "all" -> "all_rest" [] OTHER -> "drop_all"
           chunk == IF s \in {"metrics", "all"} THEN Win!FirstChunk(sum) ELSE Win!LastChunk(sum)
           left == IF s \in {"metrics", "all"} THEN sum ELSE <<>>
<1>1. /\ UNCHANGED <<winStored, winRankOf, winTeams, winClock, winRuns>>
      /\ s \in {"metrics", "metrics_rest", "all", "all_rest"} /\ winJob # Win!Idle
      /\ winMetrics' = [winMetrics EXCEPT ![winJob.platform] =
            Win!Insert(winMetrics[winJob.platform], winJob.at, chunk)]
      /\ winJob' = [winJob EXCEPT !.step = then, !.sum = left]
    BY DEF Win!InsertMetrics, Win!Idle
<1>2. /\ winJob.todo \in SUBSET Platforms /\ winJob.games \in SUBSET WinGames
      /\ winJob.ranks \in [Players -> Win!Ladder] /\ winJob.at = winClock
      /\ winJob.later \in BOOLEAN
      /\ (s \in {"metrics", "metrics_rest"} => winJob.platform \in Platforms)
      /\ (s \in {"all", "all_rest"} => winJob.platform = "ALL")
    BY <1>1 DEF WinRefresh, PlatformSteps, AllSteps
<1>3. /\ (s = "metrics" => then = "metrics_rest") /\ (s = "metrics_rest" => then = "drop_teams")
      /\ (s = "all" => then = "all_rest") /\ (s = "all_rest" => then = "drop_all")
    OBVIOUS
<1>4. /\ (s \in {"metrics", "all"} => left = sum)
      /\ (s = "all" => chunk = Win!FirstChunk(sum))
             /\ (s = "all_rest" => chunk = Win!LastChunk(sum))
    OBVIOUS
<1> HIDE DEF then, chunk, left
<1>5. /\ winMetrics' = [q \in Platforms \union {"ALL"} |-> winMetrics'[q]]
      /\ \A q \in Platforms \union {"ALL"} : \A at \in DOMAIN winMetrics'[q] :
            at \in Nat /\ at <= winClock
      /\ \A q \in Platforms \union {"ALL"} : q # winJob.platform => winMetrics'[q] = winMetrics[q]
      /\ winJob.platform \in Platforms \union {"ALL"} =>
            winMetrics'[winJob.platform] =
                Win!Insert(winMetrics[winJob.platform], winClock, chunk)
    BY <1>1, <1>2, MetricsInserted, Zenon
<1>6. winJob' = [step |-> then, at |-> winJob.at, todo |-> winJob.todo,
   platform |-> winJob.platform, games |-> winJob.games, ranks |-> winJob.ranks,
   sum |-> left, whole |-> winJob.whole, later |-> winJob.later]
    BY <1>1, Zenon DEF WinRefresh
<1>7. \/ then \in PlatformSteps /\ winJob.platform \in Platforms
      \/ then \in AllSteps /\ winJob.platform = "ALL"
    BY <1>1, <1>2, <1>3 DEF PlatformSteps, AllSteps
<1>8. /\ WinRefresh'
      /\ winJob'.step = then /\ winJob'.at = winJob.at /\ winJob'.sum = left
      /\ winJob'.later = winJob.later
    BY <1>1, <1>2, <1>6, <1>7, RefreshGoesOn, Zenon
<1>9. AllRows'
    <2>1. CASE s \in {"metrics", "metrics_rest"}
        <3>1. winMetrics'["ALL"] = winMetrics["ALL"]
            BY <1>2, <1>5, <2>1 DEF Win!WinAssumption
        <3>2. then \notin {"all", "all_rest", "drop_all"}
            BY <1>3, <2>1
        <3> QED
            BY <1>1, <1>8, <2>1, <3>1, <3>2 DEF AllRows
    <2>2. CASE s \in {"all", "all_rest"} /\ winJob.later
        <3>1. sum = Win!SumPlatforms(winMetrics)
            BY <1>1, <2>2 DEF AllRows
        <3>2. sum = [k \in DOMAIN sum |-> sum[k]]
            BY <3>1, SumIsFunction
        <3>3. \A p \in Platforms : winMetrics'[p] = winMetrics[p]
            BY <1>2, <1>5, <2>2 DEF Win!WinAssumption
        <3>4. Win!SumPlatforms(winMetrics') = sum
            BY <3>1, <3>3, SumIsLocal
        <3>5. winMetrics'["ALL"] = Win!Insert(all, winClock, chunk)
            BY <1>2, <1>5, <2>2
        <3>6. CASE s = "all"
            <4>1. winClock \notin DOMAIN all
                BY <1>1, <1>2, <2>2, <3>6 DEF AllRows
            <4>2. RowsAre(winMetrics'["ALL"], winClock, Win!FirstChunk(sum))
                BY <1>4, <3>2, <3>5, <3>6, <4>1, ChunksMakeTheSum
            <4> QED
                BY <1>2, <1>3, <1>4, <1>8, <3>4, <3>6, <4>2 DEF AllRows
        <3>7. CASE s = "all_rest"
            <4>1. RowsAre(all, winClock, Win!FirstChunk(sum))
                BY <1>1, <1>2, <2>2, <3>1, <3>7 DEF AllRows
            <4>2. RowsAre(winMetrics'["ALL"], winClock, sum)
                BY <1>4, <3>2, <3>5, <3>7, <4>1, ChunksMakeTheSum
            <4> QED
                BY <1>2, <1>3, <1>8, <3>4, <3>7, <4>2 DEF AllRows
        <3> QED
            BY <2>2, <3>6, <3>7
    <2>3. CASE ~winJob.later
        BY <1>8, <2>3 DEF AllRows
    <2> QED
        BY <1>1, <1>2, <2>1, <2>2, <2>3
<1> QED
    BY <1>1, <1>5, <1>8, <1>9, Zenon DEF WinState, WinTables

\* One step of the refresh, or of the matches and ranks it reads.
LEMMA StepWin ==
    ASSUME Win!WinAssumption, WinIInv, [Win!Next]_(Win!vars)
    PROVE  WinIInv'
<1>0. WinState /\ WinTables /\ WinRefresh /\ AllRows
    BY DEF WinIInv
<1> USE DEF WinIInv
<1>1. ASSUME NEW g \in WinGames, Win!Store(g)
      PROVE  WinIInv'
    BY <1>0, <1>1, Zenon DEF Win!Store, WinState, WinTables, WinRefresh, AllRows
<1>2. ASSUME NEW p \in Players, Win!Promote(p)
      PROVE  WinIInv'
    <2>1. winRankOf' \in [Players -> Win!Ladder]
        <3>1. Win!Max(Win!Ladder) \in Win!Ladder
            <4>1. Win!Ladder = {2, 3}
                BY DEF Win!Ladder
            <4> QED
                BY <4>1 DEF Win!Max
        <3> QED
            BY <1>2, <3>1 DEF Win!Promote, WinState
    <2> QED
        BY <1>0, <1>2, <2>1, Zenon DEF Win!Promote, WinState, WinTables, WinRefresh, AllRows
<1>3. ASSUME NEW todo \in SUBSET Platforms, NEW at \in {winClock, winClock + 1}, Win!Start(todo, at)
      PROVE  WinIInv'
    <2> DEFINE w == (todo = Platforms)
               l == \A p \in DOMAIN winMetrics : at \notin DOMAIN winMetrics[p]
    <2>1. w \in BOOLEAN /\ l \in BOOLEAN
        OBVIOUS
    <2>2. /\ UNCHANGED <<winStored, winRankOf, winTeams, winMetrics>>
          /\ winRuns < MaxRuns /\ winRuns' = winRuns + 1 /\ winClock' = at
          /\ winJob' = [step |-> "next", at |-> at, todo |-> todo, platform |-> "none",
                        games |-> {}, ranks |-> StartRank, sum |-> <<>>, whole |-> w, later |-> l]
        BY <1>3 DEF Win!Start
    <2>3. l => at \notin DOMAIN winMetrics["ALL"]
        BY <1>0, Zenon DEF WinTables
    <2> HIDE DEF w, l
    <2>4. /\ winJob'.step = "next" /\ winJob'.at = at /\ winJob'.todo = todo
          /\ winJob'.platform = "none" /\ winJob'.games = {} /\ winJob'.ranks = StartRank
          /\ winJob'.sum = <<>> /\ winJob'.whole = w /\ winJob'.later = l
        BY <2>2
    <2>5. StartRank \in [Players -> Win!Ladder]
        BY DEF Win!WinAssumption
    <2>6. WinRefresh'
        BY <2>1, <2>2, <2>4, <2>5 DEF WinRefresh
    <2>7. AllRows'
        BY <2>2, <2>3, <2>4 DEF AllRows
    <2>8. WinState' /\ winClock <= winClock'
        BY <1>0, <2>2 DEF WinState, Win!WinAssumption
    <2>9. WinTables'
        <3>1. winClock \in Nat /\ winClock' \in Nat
            BY <1>0, <2>8 DEF WinState
        <3>2. \A n \in Nat : n <= winClock => n <= winClock'
            BY <2>8, <3>1
        <3> QED
            BY <1>0, <2>2, <3>2, Zenon DEF WinTables
    <2> QED
        BY <2>6, <2>7, <2>8, <2>9
<1>4. CASE Win!Read
    <2>1. /\ UNCHANGED <<winStored, winRankOf, winTeams, winMetrics, winClock, winRuns>>
          /\ winJob.step = "next" /\ winJob # Win!Idle
        BY <1>4 DEF Win!Read, Win!Idle
    <2>2. CASE winJob.todo = {}
        <3> DEFINE sum == Win!SumPlatforms(winMetrics)
        <3>1. winJob' = [winJob EXCEPT !.step = "all", !.platform = "ALL", !.sum = sum]
            BY <1>4, <2>2 DEF Win!Read
        <3> HIDE DEF sum
        <3>2. winJob' = [step |-> "all", at |-> winJob.at, todo |-> winJob.todo,
   platform |-> "ALL", games |-> winJob.games, ranks |-> winJob.ranks,
   sum |-> sum, whole |-> winJob.whole, later |-> winJob.later]
            BY <1>0, <2>1, <3>1, Zenon DEF WinRefresh
        <3>3. /\ winJob.todo \in SUBSET Platforms /\ winJob.games \in SUBSET WinGames
              /\ winJob.ranks \in [Players -> Win!Ladder]
            BY <1>0, <2>1 DEF WinRefresh
        <3>4. /\ WinRefresh'
              /\ winJob'.step = "all" /\ winJob'.at = winJob.at /\ winJob'.sum = sum
              /\ winJob'.later = winJob.later
            BY <1>0, <2>1, <3>2, <3>3, RefreshGoesOn DEF AllSteps
        <3>5. AllRows'
            BY <1>0, <2>1, <3>4 DEF AllRows, sum
        <3> QED
            BY <1>0, <2>1, <3>4, <3>5, Zenon DEF WinState, WinTables
    <2>3. CASE winJob.todo # {}
        <3> DEFINE p == CHOOSE p \in winJob.todo : TRUE
                   rest == winJob.todo \ {p}
                   games == {g \in winStored : PlatformOf[g] = p}
        <3>1. winJob' = [winJob EXCEPT !.step = "teams", !.platform = p, !.todo = rest,
                                       !.games = games, !.ranks = winRankOf]
            BY <1>4, <2>3 DEF Win!Read
        <3>2. /\ winJob.todo \in SUBSET Platforms /\ winJob.games \in SUBSET WinGames
              /\ winJob.ranks \in [Players -> Win!Ladder]
            BY <1>0, <2>1 DEF WinRefresh
        <3>3. p \in Platforms /\ rest \in SUBSET Platforms
            BY <2>3, <3>2
        <3>4. games \in SUBSET WinGames
            BY <1>0 DEF WinState
        <3> HIDE DEF p, rest, games
        <3>5. winJob' = [step |-> "teams", at |-> winJob.at, todo |-> rest,
   platform |-> p, games |-> games, ranks |-> winRankOf,
   sum |-> winJob.sum, whole |-> winJob.whole, later |-> winJob.later]
            BY <1>0, <2>1, <3>1, Zenon DEF WinRefresh
        <3>6. winRankOf \in [Players -> Win!Ladder]
            BY <1>0 DEF WinState
        <3>7. /\ WinRefresh'
              /\ winJob'.step = "teams" /\ winJob'.at = winJob.at
              /\ winJob'.later = winJob.later
            BY <1>0, <2>1, <3>3, <3>4, <3>5, <3>6, RefreshGoesOn DEF PlatformSteps
        <3>8. AllRows'
            BY <1>0, <2>1, <3>7 DEF AllRows
        <3> QED
            BY <1>0, <2>1, <3>7, <3>8, Zenon DEF WinState, WinTables
    <2> QED
        BY <2>2, <2>3
<1>5. CASE Win!InsertTeamRecords
    <2> DEFINE new == Win!Compiled[winJob.games][winJob.ranks]
    <2>1. /\ UNCHANGED <<winStored, winRankOf, winMetrics, winClock, winRuns>>
          /\ winJob.step = "teams" /\ winJob # Win!Idle
          /\ winJob' = [winJob EXCEPT !.step = "metrics", !.games = {}, !.ranks = StartRank,
                                      !.sum = new.metrics]
          /\ winTeams' = [winTeams EXCEPT ![winJob.platform] =
                Win!Insert(winTeams[winJob.platform], winJob.at, new.records)]
        BY <1>5 DEF Win!InsertTeamRecords, Win!Idle
    <2>2. /\ winJob.todo \in SUBSET Platforms /\ winJob.games \in SUBSET WinGames
          /\ winJob.ranks \in [Players -> Win!Ladder] /\ winJob.at = winClock
          /\ winJob.platform \in Platforms
        BY <1>0, <2>1 DEF WinRefresh, PlatformSteps, AllSteps
    <2>3. DOMAIN new.records \subseteq Full
        BY <2>2, RecordsFit
    <2> HIDE DEF new
    <2>4. /\ winTeams' = [q \in Platforms |-> winTeams'[q]]
          /\ \A q \in Platforms : \A at \in DOMAIN winTeams'[q] :
                at \in Nat /\ at <= winClock /\ DOMAIN winTeams'[q][at] \subseteq Full
        BY <1>0, <2>1, <2>2, <2>3, TeamsInserted, Zenon
    <2>5. winJob' = [step |-> "metrics", at |-> winJob.at, todo |-> winJob.todo,
   platform |-> winJob.platform, games |-> {}, ranks |-> StartRank,
   sum |-> new.metrics, whole |-> winJob.whole, later |-> winJob.later]
        BY <1>0, <2>1, Zenon DEF WinRefresh
    <2> DEFINE none == {}
               metrics == new.metrics
    <2>6. /\ StartRank \in [Players -> Win!Ladder] /\ none \in SUBSET WinGames
          /\ "metrics" \in PlatformSteps
        BY DEF Win!WinAssumption, PlatformSteps
    <2> HIDE DEF none, metrics
    <2>7. /\ WinRefresh'
          /\ winJob'.step = "metrics" /\ winJob'.at = winJob.at
          /\ winJob'.later = winJob.later
        <3>1. winJob' = [step |-> "metrics", at |-> winJob.at, todo |-> winJob.todo,
                platform |-> winJob.platform, games |-> none, ranks |-> StartRank,
                sum |-> metrics, whole |-> winJob.whole, later |-> winJob.later]
            BY <2>5 DEF none, metrics
        <3>2. /\ WinRefresh /\ winJob # Win!Idle /\ winClock' = winClock
              /\ winJob.todo \in SUBSET Platforms /\ winJob.platform \in Platforms
            BY <1>0, <2>1, <2>2
        <3> QED
            BY <2>6, <3>1, <3>2, RefreshGoesOn
    <2>8. AllRows'
        BY <1>0, <2>1, <2>7 DEF AllRows
    <2> QED
        BY <1>0, <2>1, <2>4, <2>7, <2>8, Zenon DEF WinState, WinTables
<1>6. CASE Win!InsertMetrics
    BY <1>0, <1>6, StepInsertMetrics
<1>7. CASE Win!DeleteOldTeamRecords
    <2>1. /\ UNCHANGED <<winStored, winRankOf, winMetrics, winClock, winRuns>>
          /\ winJob.step = "drop_teams" /\ winJob # Win!Idle
          /\ winJob' = [winJob EXCEPT !.step = "drop_metrics"]
          /\ winTeams' = [winTeams EXCEPT ![winJob.platform] =
                Win!DeleteOld(winTeams[winJob.platform], winJob.at)]
        BY <1>7 DEF Win!DeleteOldTeamRecords, Win!Idle
    <2>2. /\ winJob.todo \in SUBSET Platforms /\ winJob.games \in SUBSET WinGames
          /\ winJob.ranks \in [Players -> Win!Ladder] /\ winJob.platform \in Platforms
        BY <1>0, <2>1 DEF WinRefresh, PlatformSteps, AllSteps
    <2>3. /\ winTeams' = [q \in Platforms |-> winTeams'[q]]
          /\ \A q \in Platforms : \A at \in DOMAIN winTeams'[q] :
                at \in Nat /\ at <= winClock /\ DOMAIN winTeams'[q][at] \subseteq Full
        BY <1>0, <2>1, TeamsDeleted, Zenon
    <2>4. winJob' = [step |-> "drop_metrics", at |-> winJob.at, todo |-> winJob.todo,
   platform |-> winJob.platform, games |-> winJob.games, ranks |-> winJob.ranks,
   sum |-> winJob.sum, whole |-> winJob.whole, later |-> winJob.later]
        BY <1>0, <2>1 DEF WinRefresh
    <2>5. /\ WinRefresh'
          /\ winJob'.step = "drop_metrics" /\ winJob'.at = winJob.at
          /\ winJob'.later = winJob.later
        BY <1>0, <2>1, <2>2, <2>4, RefreshGoesOn, Zenon DEF PlatformSteps
    <2>6. AllRows'
        BY <1>0, <2>1, <2>5 DEF AllRows
    <2> QED
        BY <1>0, <2>1, <2>3, <2>5, <2>6, Zenon DEF WinState, WinTables
<1>8. CASE Win!DeleteOldMetrics
    <2>1. /\ UNCHANGED <<winStored, winRankOf, winTeams, winClock, winRuns>>
          /\ winJob.step = "drop_metrics" /\ winJob # Win!Idle
          /\ winJob' = [winJob EXCEPT !.step = "next"]
          /\ winMetrics' = [winMetrics EXCEPT ![winJob.platform] =
                Win!DeleteOld(winMetrics[winJob.platform], winJob.at)]
        BY <1>8 DEF Win!DeleteOldMetrics, Win!Idle
    <2>2. /\ winJob.todo \in SUBSET Platforms /\ winJob.games \in SUBSET WinGames
          /\ winJob.ranks \in [Players -> Win!Ladder] /\ winJob.platform \in Platforms
        BY <1>0, <2>1 DEF WinRefresh, PlatformSteps, AllSteps
    <2>3. /\ winMetrics' = [q \in Platforms \union {"ALL"} |-> winMetrics'[q]]
          /\ \A q \in Platforms \union {"ALL"} : \A a \in DOMAIN winMetrics'[q] :
                a \in Nat /\ a <= winClock
          /\ winMetrics'["ALL"] = winMetrics["ALL"]
        BY <1>0, <2>1, <2>2, MetricsDeleted, Zenon DEF Win!WinAssumption
    <2>4. winJob' = [step |-> "next", at |-> winJob.at, todo |-> winJob.todo,
   platform |-> winJob.platform, games |-> winJob.games, ranks |-> winJob.ranks,
   sum |-> winJob.sum, whole |-> winJob.whole, later |-> winJob.later]
        BY <1>0, <2>1 DEF WinRefresh
    <2>5. /\ WinRefresh'
          /\ winJob'.step = "next" /\ winJob'.at = winJob.at
          /\ winJob'.later = winJob.later
        BY <1>0, <2>1, <2>2, <2>4, RefreshGoesOn, Zenon
    <2>6. AllRows'
        BY <1>0, <2>1, <2>3, <2>5 DEF AllRows
    <2> QED
        BY <1>0, <2>1, <2>3, <2>5, <2>6, Zenon DEF WinState, WinTables
<1>9. CASE Win!FinishRefresh
    <2>1. /\ UNCHANGED <<winStored, winRankOf, winTeams, winClock, winRuns>>
          /\ winJob' = Win!Idle
          /\ winMetrics' = [winMetrics EXCEPT !["ALL"] = Win!DeleteOld(winMetrics["ALL"], winJob.at)]
        BY <1>9 DEF Win!FinishRefresh
    <2>2. /\ winMetrics' = [q \in Platforms \union {"ALL"} |-> winMetrics'[q]]
          /\ \A q \in Platforms \union {"ALL"} : \A a \in DOMAIN winMetrics'[q] :
                a \in Nat /\ a <= winClock
        BY <1>0, <2>1, MetricsDeleted, Zenon
    <2>3. WinRefresh' /\ AllRows'
        BY <2>1 DEF WinRefresh, AllRows
    <2> QED
        BY <1>0, <2>1, <2>2, <2>3, Zenon DEF WinState, WinTables
<1>10. CASE Win!Abort
    <2>1. WinRefresh' /\ AllRows'
        BY <1>10 DEF Win!Abort, WinRefresh, AllRows
    <2> QED
        BY <1>0, <1>10, <2>1, Zenon DEF Win!Abort, WinState, WinTables
<1>11. CASE UNCHANGED Win!vars
    BY <1>0, <1>11, Zenon DEF Win!vars, WinState, WinTables, WinRefresh, AllRows
<1>12. ASSUME Win!RefreshWinConditionMetricsForPlatforms \/ Win!RefreshCombinedWinConditionMetrics
       PROVE  WinIInv'
    <2>1. PICK todo \in SUBSET Platforms, at \in {winClock, winClock + 1} : Win!Start(todo, at)
        BY <1>12 DEF Win!RefreshWinConditionMetricsForPlatforms,
                     Win!RefreshCombinedWinConditionMetrics
    <2> QED
        BY <1>3, <2>1
<1> QED
    BY <1>1, <1>2, <1>4, <1>5, <1>6, <1>7, <1>8, <1>9, <1>10, <1>11, <1>12 DEF Win!Next

LEMMA WinInvariance ==
    ASSUME Win!WinAssumption
    PROVE  Win!Spec => []WinIInv
<1>1. Win!Init => WinIInv
    <2> SUFFICES ASSUME Win!Init
                 PROVE  WinIInv
        OBVIOUS
    <2>1. \A p \in Platforms : DOMAIN winTeams[p] = {}
        BY DEF Win!Init
    <2>2. \A p \in Platforms \union {"ALL"} : DOMAIN winMetrics[p] = {}
        BY DEF Win!Init
    <2>3. /\ winTeams = [p \in Platforms |-> winTeams[p]]
          /\ winMetrics = [p \in Platforms \union {"ALL"} |-> winMetrics[p]]
        BY DEF Win!Init
    <2>4. WinState /\ WinRefresh /\ AllRows
        BY DEF Win!Init, WinState, WinRefresh, AllRows, Win!WinAssumption
    <2> QED
        BY <2>1, <2>2, <2>3, <2>4, Zenon DEF WinTables, WinIInv
<1>2. WinIInv /\ [Win!Next]_(Win!vars) => WinIInv'
    BY StepWin
<1> QED
    BY <1>1, <1>2, PTL DEF Win!Spec

LEMMA WinTypeCorrect ==
    ASSUME Win!WinAssumption
    PROVE  Win!Spec => []Win!TypeOK
<1>1. WinIInv => Win!TypeOK
    BY Zenon DEF WinIInv, WinState, WinTables, Win!TypeOK
<1> QED
    BY <1>1, WinInvariance, PTL

\* When a refresh in a second of its own ends, the ALL rows are the sum.
LEMMA RollUpIsTheSum ==
    ASSUME Win!WinAssumption, WinIInv, Win!Finishes
    PROVE  LET sum == Win!SumPlatforms(winMetrics')
               final == Win!Final(winMetrics'["ALL"])
           IN  DOMAIN final = DOMAIN sum /\ \A k \in DOMAIN sum : final[k] = sum[k]
<1> DEFINE all == winMetrics["ALL"]
           sum == Win!SumPlatforms(winMetrics)
           at == winJob.at
<1>1. /\ winJob # Win!Idle /\ winJob.later /\ winJob.step = "drop_all"
      /\ winMetrics' = [winMetrics EXCEPT !["ALL"] = Win!DeleteOld(all, at)]
    BY DEF Win!Finishes, Win!FinishRefresh
<1>2. RowsAre(all, at, sum)
    BY <1>1 DEF WinIInv, AllRows
<1>3. /\ at = winClock /\ at \in Nat
      /\ \A a \in DOMAIN all : a \in Nat /\ a <= at
    BY <1>1, Zenon DEF WinIInv, WinState, WinTables, WinRefresh
<1> DEFINE left == Win!DeleteOld(all, at)
<1>4. /\ DOMAIN left = {a \in DOMAIN all : ~(a < at)}
      /\ \A a \in DOMAIN left : left[a] = all[a]
    BY WinDeleted, Zenon
<1>5. winMetrics'["ALL"] = left /\ \A p \in Platforms : winMetrics'[p] = winMetrics[p]
    BY <1>1 DEF WinIInv, WinTables, Win!WinAssumption
<1>6. Win!SumPlatforms(winMetrics') = sum
    BY <1>5, SumIsLocal
<1>7. sum = [k \in DOMAIN sum |-> sum[k]]
    BY SumIsFunction
<1> HIDE DEF left, sum, all, at
<1>8. DOMAIN left \subseteq {at} /\ RowsAre(left, at, sum)
    BY <1>2, <1>3, <1>4 DEF RowsAre
<1>9. DOMAIN Win!Final(left) = DOMAIN sum /\ \A k \in DOMAIN sum : Win!Final(left)[k] = sum[k]
    BY <1>3, <1>7, <1>8, FinalOfOne
<1> QED
    BY <1>5, <1>6, <1>9

LEMMA WinsAddUp ==
    ASSUME Win!WinAssumption
    PROVE  Win!Spec => Win!AllIsTheSum
<1>1. WinIInv => (Win!Finishes =>
         LET sum == Win!SumPlatforms(winMetrics')
             final == Win!Final(winMetrics'["ALL"])
         IN  DOMAIN final = DOMAIN sum /\ \A k \in DOMAIN sum : final[k] = sum[k])
    BY RollUpIsTheSum
<1> QED
    BY <1>1, WinInvariance, PTL DEF Win!AllIsTheSum

=============================================================================
