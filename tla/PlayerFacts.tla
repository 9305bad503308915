----------------------------- MODULE PlayerFacts ----------------------------
(***************************************************************************)
(* What the player pages read (cfb_strength/players): season lines, their  *)
(* totals, leaderboards, the name search, coverage and head to heads.      *)
(*                                                                         *)
(* A database is a record of tables, each a set of rows:                   *)
(*   players  [id, group, career_first]                                    *)
(*   rows     player_season_stats: [player, season, type] and the columns, *)
(*            None where the source tracked nothing                        *)
(*   starts   game_starters at QB: [player, game, team]                    *)
(*   games    [id, season, type, home, away, hp, ap, completed]            *)
(* One league; a player's id stands for his name in every order.           *)
(***************************************************************************)
EXTENDS Integers, Sequences, FiniteSets, SequencesExt, FiniteSetsExt, TLC

CONSTANTS None,
          EPA_PER_DROPBACK_MIN_DROPBACKS   \* PLAYER_LEADER_..., by season type

SeasonTypes == {"regular", "postseason"}
Sorts == [passing |-> {"attempts", "wins", "epa_per_dropback"},
          rushing |-> {"carries"}, kicking |-> {"fg_long"}]
Categories == DOMAIN Sorts
ASSUME LeadersAssumption ==
    \A type \in SeasonTypes : EPA_PER_DROPBACK_MIN_DROPBACKS[type] \in Nat \ {0}

---------------------------------------------------------------------------
(* Starts and season lines (_sql.py) *)

GameOf(db, s) == CHOOSE g \in db.games : g.id = s.game
Counted(g) == g.completed /\ g.hp # None /\ g.ap # None
Mine(g, t) == IF g.home = t THEN g.hp ELSE g.ap
Theirs(g, t) == IF g.home = t THEN g.ap ELSE g.hp
Record(db, starts) ==
    LET ended(Beats(_, _)) ==
            Cardinality({s \in starts : LET g == GameOf(db, s) IN
                            Counted(g) /\ Beats(Mine(g, s.team), Theirs(g, s.team))})
    IN  [wins |-> ended(LAMBDA x, y : x > y), losses |-> ended(LAMBDA x, y : x < y),
         ties |-> ended(LAMBDA x, y : x = y)]
Started(r) == r.wins + r.losses + r.ties

StartsOf(db, p) == {s \in db.starts : s.player = p /\ GameOf(db, s).type \in SeasonTypes}
\* lines_cte: one line per season and type with a season row or a start.
LineKeys(db, p) ==
    {<<r.season, r.type>> : r \in {x \in db.rows : x.player = p}}
    \cup {<<GameOf(db, s).season, GameOf(db, s).type>> : s \in StartsOf(db, p)}
Line(db, p, key) ==
    [season |-> key[1], type |-> key[2],
     row |-> {r \in db.rows : r.player = p /\ <<r.season, r.type>> = key},
     starts |-> {s \in StartsOf(db, p) : <<GameOf(db, s).season, GameOf(db, s).type>> = key}]
Lines(db, p) == {Line(db, p, key) : key \in LineKeys(db, p)}
LinesIn(db, p, type) == {l \in Lines(db, p) : l.type = type}

Stat(l, column) == IF l.row = {} THEN None ELSE (CHOOSE r \in l.row : TRUE)[column]
Tracked(lines, column) == {l \in lines : Stat(l, column) # None}
SumOf(lines, column) == MapThenSumSet(LAMBDA l : Stat(l, column), Tracked(lines, column))

MaxFields == {"fg_long"}                          \* PLAYER_STAT_MAX_FIELDS
SparseFields == {"passing_epa", "rushing_epa"}    \* PLAYER_STAT_SPARSE_FIELDS
\* stat_total: a long is the longest, an EPA needs every line's season row, any
\* other total needs every line's value.
StatTotal(lines, column) ==
    LET tracked == Tracked(lines, column) IN
    IF tracked = {} THEN None
    ELSE CASE column \in MaxFields -> Max({Stat(l, column) : l \in tracked})
           [] column \in SparseFields ->
                IF \A l \in lines : l.row # {} THEN SumOf(lines, column) ELSE None
           [] OTHER -> IF tracked = lines THEN SumOf(lines, column) ELSE None
Plus(x, y) == IF None \in {x, y} THEN None ELSE x + y

Over(l, column) == Stat(l, column) # None /\ Stat(l, column) > 0
QualifyingLine(category, l) ==
    CASE category = "passing" -> Over(l, "attempts") \/ l.starts # {}
      [] category = "rushing" -> Over(l, "carries")
      [] category = "kicking" -> Over(l, "fg_att") \/ Over(l, "pat_att")

---------------------------------------------------------------------------
(* Leaderboards (leaders.py) *)

PlayerIds(db) == {p.id : p \in db.players}
DropbacksOf(lines) == Plus(StatTotal(lines, "attempts"), StatTotal(lines, "sacks"))
Gated(lines, sort, type) ==
    sort = "epa_per_dropback" =>
        /\ DropbacksOf(lines) # None
        /\ DropbacksOf(lines) >= EPA_PER_DROPBACK_MIN_DROPBACKS[type]

\* The one population of the page and of the count.
Population(db, category, sort, type) ==
    {p \in PlayerIds(db) : /\ \E l \in LinesIn(db, p, type) : QualifyingLine(category, l)
                     /\ Gated(LinesIn(db, p, type), sort, type)}

\* A sort value is a fraction, or None.
SortValue(db, p, sort, type) ==
    LET lines == LinesIn(db, p, type)
        over(n, d) == IF n = None THEN None ELSE <<n, d>>
    IN  CASE sort = "wins" -> <<Record(db, UNION {l.starts : l \in lines}).wins, 1>>
          [] sort = "epa_per_dropback" -> over(StatTotal(lines, "passing_epa"), DropbacksOf(lines))
          [] OTHER -> over(StatTotal(lines, sort), 1)
Above(v, w) == v # None /\ (w = None \/ v[1] * w[2] > w[1] * v[2])

\* `value` is the sort value of each player of the population.
RankOn(value, p) ==
    IF value[p] = None THEN None
    ELSE 1 + Cardinality({q \in DOMAIN value : Above(value[q], value[p])})
\* The page's order: the value, none last, then the name and the id.
InOrder(value) ==
    LET before(p, q) == \/ Above(value[p], value[q])
                        \/ ~Above(value[q], value[p]) /\ p < q
        place(p) == 1 + Cardinality({q \in DOMAIN value : before(q, p)})
    IN  [i \in 1 .. Cardinality(DOMAIN value) |-> CHOOSE p \in DOMAIN value : place(p) = i]

Ranked(value) ==
    LET order == InOrder(value) IN
    [i \in DOMAIN order |-> [player |-> order[i], rank |-> RankOn(value, order[i])]]
Board(db, category, sort, type) ==
    Ranked([p \in Population(db, category, sort, type) |-> SortValue(db, p, sort, type)])

\* Mutant: the count forgets the sort's gate.
CountUngated(db, category, sort, type) ==
    Cardinality({p \in PlayerIds(db) :
        \E l \in LinesIn(db, p, type) : QualifyingLine(category, l)})
\* _count_sql: the total of a page with no rows.
Count(db, category, sort, type) == Cardinality(Population(db, category, sort, type))

\* get_player_leaders: one page of a board, by its two queries.
PageOf(board, count, limit, offset) ==
    LET rows == SubSeq(board, offset + 1, Min({offset + limit, Len(board)})) IN
    [rows |-> rows, total |-> IF rows # <<>> THEN Len(board) ELSE count]
Page(db, category, sort, type, limit, offset) ==
    PageOf(Board(db, category, sort, type), Count(db, category, sort, type), limit, offset)

---------------------------------------------------------------------------
(* Search, coverage, head to head *)

\* search_players: on any board, in the given position group (None: in any).
Search(db, group) ==
    LET found == {p \in PlayerIds(db) :
                     /\ \E c \in Categories : \E l \in Lines(db, p) : QualifyingLine(c, l)
                     /\ group # None => \E q \in db.players : q.id = p /\ q.group = group}
        games(p) == LET lines == LinesIn(db, p, "regular") IN
                    IF lines = {} THEN None ELSE StatTotal(lines, "games")
        hit(p) == LET seasons == {key[1] : key \in LineKeys(db, p)} IN
                  [player |-> p, first |-> Min(seasons), last |-> Max(seasons)]
        order == InOrder([p \in found |-> IF games(p) = None THEN None ELSE <<games(p), 1>>])
    IN  [i \in DOMAIN order |-> hit(order[i])]

\* data_span: of the regular season rows alone.
DataFirst(db) ==
    LET seasons == {r.season : r \in {x \in db.rows : x.type = "regular"}} IN
    IF seasons = {} THEN None ELSE Min(seasons)

\* _COVERED_SQL: the seasons with a row of either type, or a start.
Covered(db, p) ==
    {r.season : r \in {x \in db.rows : x.player = p}}
    \cup {GameOf(db, s).season : s \in StartsOf(db, p)}
CareerFirst(db, p) == (CHOOSE q \in db.players : q.id = p).career_first

\* get_player_career's totals of one season type: None with no line.
CareerRecord(db, p, type) ==
    LET lines == LinesIn(db, p, type) IN
    IF lines = {} THEN None ELSE Record(db, UNION {l.starts : l \in lines})

\* _HEAD_TO_HEAD_SQL: a's record in the games both started, for two teams.
HeadToHead(db, a, b, type) ==
    Record(db, {s \in StartsOf(db, a) :
        /\ GameOf(db, s).type = type
        /\ \E t \in StartsOf(db, b) : t.game = s.game /\ t.team # s.team})
=============================================================================
