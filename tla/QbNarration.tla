----------------------------- MODULE QbNarration ----------------------------
(***************************************************************************)
(* From the seasons of the player data to a quarterback verdict on screen: *)
(* a season's rows, starts and games are built and built again, a verdict  *)
(* asks for two quarterbacks' scores (api/players.py, qb_verdict), the     *)
(* narrator writes a text around claims, and the check accepts or rejects  *)
(* it.  The pages of the player API read the same database.                *)
(***************************************************************************)
EXTENDS QbProse

CONSTANTS Players,     \* the players table
          Builds,      \* what a season's ingest may store: [season, rows, starts, games]
          Written,     \* bound: the builds and the two players it writes about
          Palette,     \* the claims the narrator's slots may make, by id
          Styles,      \* bound: the sets of tokens one text is written with
          Closings,    \* the sentences a text may end with
          MaxTokens,   \* bound on a text's length before its closing
          Limits       \* the page sizes the leaderboards are read with

Vocabulary == UNION Styles \cup UNION {{said[i] : i \in DOMAIN said} : said \in Closings}
ASSUME QbAssumption ==
    /\ None \notin Sides
    /\ Closings \subseteq Seq(Vocabulary)
    /\ \A token \in Vocabulary :
          /\ token.is \in TokenKinds
          /\ token.is = "name" => token.of \in Sides
          /\ token.is = "measure" => token.of \in Measures

\* Ids are integers (schema.sql); get_player_leaders refuses a limit under one.
ASSUME PlayersAssumption ==
    /\ IsFiniteSet(Players) /\ \A p \in Players : p.id \in Int
    /\ Limits \subseteq Nat \ {0}

\* What the keys and references of the tables keep of a season (schema.sql), and
\* what its sources say: a game has its columns and two teams, and nobody starts
\* for both.
Whole(x) == x \in Int \cup {None}
RowHolds(r) ==
    /\ r.season \in Int /\ r.type \in SeasonTypes
    /\ {r.attempts, r.sacks, r.carries} \subseteq Nat \cup {None}
    /\ Whole(r.passing_epa) /\ Whole(r.rushing_epa) /\ Whole(r.fg_long) /\ Whole(r.games)
GameColumns == {"id", "season", "type", "home", "away", "hp", "ap", "completed", "neutral"}
StartHolds(s, games) == \E g \in games : g.id = s.game /\ s.team \in {g.home, g.away}
TablesHold(rows, starts, games) ==
    /\ IsFiniteSet(rows) /\ IsFiniteSet(starts) /\ IsFiniteSet(games)
    /\ \A r \in rows : RowHolds(r)
    /\ \A r, x \in rows : <<r.player, r.season, r.type>> = <<x.player, x.season, x.type>> => r = x
    /\ \A g \in games : /\ g.id \in Int /\ g.season \in Int /\ g.type \in SeasonTypes
                        /\ g.home # g.away /\ Whole(g.hp) /\ Whole(g.ap)
                        /\ GameColumns \subseteq DOMAIN g
    /\ \A g, h \in games : g.id = h.id => g = h
    /\ \A s \in starts : StartHolds(s, games)
    /\ \A s, t \in starts : <<s.player, s.game>> = <<t.player, t.game>> => s = t
ASSUME BuildsAssumption ==
    /\ \A b \in Builds :
          /\ TablesHold(b.rows, b.starts, b.games)
          /\ \A r \in b.rows : r.season = b.season
          /\ \A g \in b.games : g.season = b.season
    /\ \A b, c \in Builds : \A g \in b.games, h \in c.games : g.id = h.id => b.season = c.season

VARIABLES db,       \* the database (PlayerFacts)
          block,    \* the open verdict's fact block: none, or the one
          style,    \* the tokens the text is written with: none before its first
          text,     \* the narration being written
          shown     \* the claims of the text, once accepted: none, or the one
qvars == <<db, block, style, text, shown>>

QbInit == /\ db = [players |-> Players, rows |-> {}, starts |-> {}, games |-> {}]
        /\ block = <<>> /\ style = {} /\ text = <<>> /\ shown = <<>>

\* The ingest of a season replaces what an earlier one stored of it.
Ingest ==
    /\ block = <<>>
    /\ \E build \in Builds :
          LET old(r) == r.season = build.season
              gone == {g.id : g \in {x \in db.games : old(x)}}
          IN  db' = [db EXCEPT
                        !.rows = {r \in @ : ~old(r)} \cup build.rows,
                        !.starts = {s \in @ : s.game \notin gone} \cup build.starts,
                        !.games = {g \in @ : ~old(g)} \cup build.games]
    /\ UNCHANGED <<style, text, shown, block>>

\* qb_verdict: two quarterbacks; a qualifying season without its EPA raises.
Ask == /\ block = <<>>
       /\ \E a, b \in {p \in PlayerIds(db) : IsQb(db, p)} :
             /\ a # b
             /\ ~ScoreFails(db, a) /\ ~ScoreFails(db, b)
             /\ block' = <<Block(db, a, b)>>
       /\ UNCHANGED <<db, style, text, shown>>

Worded == \E w \in Written : /\ db.rows = UNION {build.rows : build \in w.builds}
                             /\ db.games = UNION {build.games : build \in w.builds}
                             /\ block[1].ids = w.ids
\* The narrator writes one more token of its answer.
Write == /\ block # <<>> /\ shown = <<>>
         /\ Worded
         /\ Len(text) < MaxTokens
         /\ \E s \in IF text = <<>> THEN Styles ELSE {style} : \E token \in s :
               /\ text' = Append(text, token)
               /\ style' = s
         /\ UNCHANGED <<db, block, shown>>

\* check_and_render_qb on the text with the claims it uses: rendered, or an
\* error the narrator gets back (the loop is module Narration's).
Submit == /\ block # <<>> /\ shown = <<>> /\ text # <<>>
          /\ \E closing \in Closings :
                LET said == text \o closing
                    claims == [id \in Used(said) |-> Palette[id]]
                IN  /\ Accepted(said, claims, block[1])
                    /\ text' = said
                    /\ shown' = <<claims>>
          /\ UNCHANGED <<db, block, style>>

QbNext == Ingest \/ Ask \/ Write \/ Submit
QbSpec == QbInit /\ [][QbNext]_qvars

---------------------------------------------------------------------------
(* What is true of the two players, from the whole database *)

PlayerOf(side) == block[1].ids[side]
TrueSeasons(p) == {r \in QbRows(db) : r.player = p /\ Qualifies(r)}
InYear(s) == {r \in QbRows(db) : Qualifies(r) /\ r.season = s}
Composed(S) == Sum([r \in S |-> Composite(r, InYear(r.season))], S)
\* The best any choice of that many seasons could average.
BestOf(S) ==
    LET few == Min({QB_SCORE_PEAK_SEASONS, Cardinality(S)}) IN
    Max({Composed(T) : T \in {U \in SUBSET S : Cardinality(U) = few}})
TrueScore(side, measure) ==
    LET seasons == TrueSeasons(PlayerOf(side)) IN
    IF measure = "career" THEN QB_SCORE_PEAK_SEASONS * Composed(seasons) ELSE BestOf(seasons)
Rankable == \A side \in Sides : TrueSeasons(PlayerOf(side)) # {}
Leads(side, measure) ==
    Rankable /\ TrueScore(side, measure) > TrueScore(Other(side), measure)

Played(p, type) ==
    {g \in db.games : g.type = type /\ Counted(g) /\
        \E s \in db.starts : s.player = p /\ s.game = g.id}
TeamIn(p, g) == (CHOOSE s \in db.starts : s.player = p /\ s.game = g.id).team
Beaten(p, games) ==
    Cardinality({g \in games : Mine(g, TeamIn(p, g)) > Theirs(g, TeamIn(p, g))})
Met(type) ==
    LET a == PlayerOf("a") b == PlayerOf("b") IN
    {g \in Played(a, type) \cap Played(b, type) : TeamIn(a, g) # TeamIn(b, g)}

FigureIsTrue(c, v) ==
    CASE c.kind = "score" -> v = Shown(TrueScore(c.player, c.measure))
      [] c.kind = "margin" ->
           /\ Leads(c.player, c.measure)
           /\ v > 0
           /\ v = Shown(TrueScore(c.player, c.measure)) - Shown(TrueScore(Other(c.player), c.measure))
      [] c.kind = "winner" ->
           \A m \in IF c.measure = "both" THEN Measures ELSE {c.measure} : Leads(v, m)
      [] c.kind = "year" -> \A r \in db.rows : r.type = "regular" => r.season >= v
      [] c.kind = "count" -> c.of = "qualifying_seasons"
                                => v = Cardinality(TrueSeasons(PlayerOf(c.player)))
      [] c.kind = "record" ->
           LET games == Played(PlayerOf(c.player), c.season_type) IN
           /\ v.wins = Beaten(PlayerOf(c.player), games)
           /\ Started(v) = Cardinality(games)
      [] c.kind = "head_to_head" ->
           /\ v.wins = Beaten(PlayerOf(c.player), Met(c.season_type))
           /\ v.losses = Beaten(PlayerOf(Other(c.player)), Met(c.season_type))
           /\ Started(v) = Cardinality(Met(c.season_type))
      [] OTHER -> TRUE

---------------------------------------------------------------------------
(* Properties *)

\* Every claim a narrator could make about the open verdict.
ClaimSpace ==
    LET players == Sides \cup {"c"} IN
    [kind : {"score", "margin"}, player : players, measure : Measures]
    \cup [kind : {"winner"}, measure : Measures \cup {"both"}]
    \cup [kind : {"year"}]
    \cup [kind : {"count"}, of : {"qualifying_seasons"}, player : players]
    \cup [kind : {"record", "head_to_head"}, player : players, season_type : SeasonTypes]

\* Every figure the check lets through is true of the whole database, however
\* the block was put together: a score is the sum, or the best choice, of the
\* seasons judged against everybody who qualified in them; a margin is the
\* leader's and the difference of the two scores as a reader sees them; records
\* recount from the games, a head to head from both sides at once (get_qb_score,
\* _resolve_margin, _HEAD_TO_HEAD_SQL, _parse_block's flipped record).
QbFiguresAreTrue ==
    block # <<>> /\ text = <<>>
        => \A c \in ClaimSpace : \A v \in Answers(c, block[1]) : FigureIsTrue(c, v)

\* The leader of a measure, his margin, and what a sentence says of a size: the
\* measures it mentions.
Leaders == [m \in Measures |-> {s \in Sides : Leads(s, m)}]
TrueMargin(m) ==
    LET shows(s) == Shown(TrueScore(s, m)) IN
    shows(CHOOSE s \in Sides : Leads(s, m)) - shows(CHOOSE s \in Sides : ~Leads(s, m))
SaidOf(i, modes) ==
    UNION {Mentioned(text, modes, j) : j \in {k \in DOMAIN text : SameSentence(text, k, i)}}
SizeFits(size, margin, bounds) ==
    CASE size = "photo" -> margin < bounds[1]
      [] size = "mild" -> margin >= bounds[1]
      [] size = "hard" -> margin >= bounds[2]
TellsTheWinners(modes, leaders) ==
    /\ \A m \in Measures : \A s \in leaders[m] :
          \E i \in DOMAIN text : \E c \in ClaimAt(text, modes, i) :
              c.kind = "winner" /\ m \in c.measures /\ c.side = s
    /\ \A i \in DOMAIN text :
          /\ text[i].is = "name" /\ At(text, i + 1, {"verb", "beats"}) /\ At(text, i + 2, {"measure"})
                 => text[i].of \in leaders[text[i + 2].of]
          /\ text[i].is \in DOMAIN Fits /\ ~At(text, i - 1, {"not"})
                 => \A m \in Measures : SaidOf(i, modes) = {m} /\ leaders[m] # {}
                       => SizeFits(text[i].is, TrueMargin(m), MARGIN_BANDS[m])
\* An accepted narration names the leader of every measure that has one, never
\* types "<player> wins <measure>" of a player who does not lead it, or of anybody
\* when the verdict is inconclusive, and calls a margin decisive, clear or a
\* photo finish only when it is, in a sentence about that measure alone
\* (_required_claim_errors, _verdict_backstop, _margin_word_errors).
QbVerdictIsTheWinner ==
    shown # <<>> => TellsTheWinners(Modes(shown[1], block[1]), Leaders)

\* What a token prints first, and the places up to i that print a name: the
\* name of a token comes before its figure.
Says(read, i) == read[i][1].says
NamesUpTo(read, i) == {j \in 1 .. i : Says(read, j) = "name"}
Parted(read, j, i) == \E k \in j .. i : Says(read, k) = "break"
ShowsFigure(read, i) == \E n \in DOMAIN read[i] : read[i][n].says = "figure"
\* A word that turns a margin around, from just before the last name to the margin.
Turned(read, i, name) ==
    \E j \in DOMAIN read : /\ name - 1 <= j /\ j <= i + 1
                           /\ Says(read, j) \in {"beats", "over", "trail"}
\* The first season and the season count print no name.
StandsFor(prose, modes, j, side) ==
    \E c \in ClaimAt(prose, modes, j) : c.kind # "margin" /\ c.mode = "attributed" /\ c.side = side
ReadsAsItsPlayer(prose, modes, read, i, c) ==
    LET names == NamesUpTo(read, i)
        his == names # {} => read[Max(names)][1].of = c.side
    IN  /\ c.mode = "name" =>
              /\ his
              /\ \E j \in 1 .. i : /\ j \in names \/ (j < i /\ StandsFor(prose, modes, j, c.side))
                                   /\ ~Parted(read, j, i)
        /\ c.mode = "attributed" /\ c.kind # "margin" => his
        /\ c.kind = "margin" /\ names # {} /\ ~Turned(read, i, Max(names)) => his
FiguresRead(prose, modes, read) ==
    \A i \in DOMAIN read : ShowsFigure(read, i)
        => ReadsAsItsPlayer(prose, modes, read, i, modes[prose[i].of])
\* In an accepted narration, as it is read on screen, the last name before a
\* score, a record, a head to head, a first season or a season count, if there
\* is one, is its player's; of the first three, the sentence has named him, or
\* shown a figure of his that prints no name; and a margin is its leader's, who
\* was named last, unless a word turns it around (_check_prose, show).
QbFiguresReadAsTheirPlayer ==
    shown # <<>> =>
        LET modes == Modes(shown[1], block[1]) IN FiguresRead(text, modes, Rendered(text, modes))

\* A board meets each of a population once, and its ranks follow its places.
MeetsInOrder(board, population) ==
    /\ DOMAIN board = 1 .. Cardinality(population)
    /\ {board[k].player : k \in DOMAIN board} = population
    /\ \A k \in DOMAIN board : board[k].rank # None =>
          /\ board[k].rank <= k
          /\ k > 1 => board[k].rank \in {k, board[k - 1].rank}
PagesAreWhole(page, limit, population) ==
    LET total == Cardinality(population) IN
    /\ \A n \in DOMAIN page :
          /\ page[n].total = total
          /\ DOMAIN page[n].rows = {i \in 1 .. limit : limit * n + i <= total}
    /\ MeetsInOrder([k \in 1 .. total |-> page[(k - 1) \div limit].rows[1 + ((k - 1) % limit)]],
                    population)
SearchIsWhole(found) ==
    LET free == (UNION {Sorts[c] : c \in Categories}) \ {"epa_per_dropback"} IN
    /\ {found[i].player : i \in DOMAIN found} =
          UNION {Population(db, c, s, t) : c \in Categories, s \in free, t \in SeasonTypes}
    /\ \A i \in DOMAIN found : LET seasons == Covered(db, found[i].player) IN
          found[i].first = Min(seasons) /\ found[i].last = Max(seasons)
\* Paging through a leaderboard meets every player of its population once, in an
\* order its competition ranks follow, and every page states the same total, the
\* ones past the end included; the search finds the players of the boards that
\* gate nobody, and dates each as his coverage does (get_player_leaders,
\* _count_sql, search_players, _COVERED_SQL).
BoardsAreWhole ==
    block = <<>> =>
        /\ \A c \in Categories : \A s \in Sorts[c], t \in SeasonTypes, limit \in Limits :
              PagesAreWhole([n \in 0 .. Cardinality(Players) |-> Page(db, c, s, t, limit, limit * n)],
                            limit, Population(db, c, s, t))
        /\ SearchIsWhole(Search(db, None))
=============================================================================
