# TLA+ models of my-team-is-better

The program settles sports arguments: an ingest fills a SQLite file with
college and NFL seasons, a rating engine ranks them, an API turns a question
("who was the best team of 2019, and I support Ohio State") into evidence and
has Claude narrate it, and a web page asks the questions. This directory holds
TLA+ models of the parts of it that keep state and of the calculations between
them, the TLC configurations that check them, and TLAPS proofs about most of
them.

Run a model with `tlc -config X.cfg MC<Module>.tla`, check proofs with
`tlapm <Module>_proofs.tla`. `PROJECT.json` maps every definition to the lines
it models and gives, for every property, a mutation of the code that breaks it.

## Inventory

Paths are relative to the repository; *engine* is
`packages/cfb-engine/src/cfb_strength`, *api* is `apps/api/src/api`, *web* is
`apps/web/src`.

| component | state it keeps | operations | what is hard | what makes it correct |
|---|---|---|---|---|
| call budget (`api/persona/budget.py`) | a deque of timestamps and a lock, per process | `try_acquire` | called from the threadpool; window boundaries | at most `limit` calls in any window; nothing but calls uses it up |
| narration (`api/persona/{service,narrate,cache}.py`, `api/admin.py`, `api/deps.py`) | Postgres table `persona_cache`; per request, the retry loop | verdict routes, purge command, restart, deploy | concurrent requests of two processes, four services that fail independently, stale rows | a hit is true; a fallback is never remembered; every request is answered |
| rating store (`engine/ratings/compute_ratings.py`) | tables `ratings`, `rating_breakdowns`, the Elo ledger | `cfb rate`, per year and method | three transactions a year, crashes, two runs, careers that read every earlier season | the tables agree; a run leaves its range up to date |
| season ingest (`engine/ingest/ingest_season.py`, `engine/ingest/nflverse/ingest_season.py`) | tables `games`, `teams`, `team_season`, `ingestion_log`; an implicit transaction | `cfb ingest` per year and season type | errors caught without a rollback, errors not caught, overlapping runs, SQLite's write lock | what is logged is there as it was read, and what else is there is a leftover; failed batches store no game; exit 0 means all is there |
| player ingest (`engine/ingest/nflverse/ingest_players.py`, `player_normalize.py`) | players, their source ids, three statistics tables | `cfb ingest-players` per season | hashed ids may collide between runs; a season replaces its own rows and prunes shared ones | rows belong to the person who made them; a season is its last build |
| home page (`web/pages/HomePage`, `web/components/QuestionForm`, `web/components/ModalDialog`) | form, modal, address bar, saved team, requests in flight | submit, correct, close, share link, reload, unmount | answers out of order, aborts, StrictMode, three copies of one question | the screen shows the last question's answer, and loading ends |
| API client (`web/lib/api/client.ts`) | a timer per request | `withDeadline` | deadline, abort and answer race | each request settles once |
| verdict routes (`api/verdict.py`, `api/share.py`) | none | champion, team case, compare | shared resolution rules | the same user team everywhere |
| claim check (`api/persona/{claims,qb_claims}.py`; wording in `prompt`, `qb_prompt`, `fallback`) | none | `check_and_render`, `check_and_render_qb` | a figure drops its team's name; a pronoun, a comma or a full stop changes whose figure it is; blocks that hold some games of a pair and not others | what is printed is true of the games and reads as being about its subject |
| other routes (`api/{catalog,players,main,errors}.py`, `api/repositories`) | none | reads of an immutable file | - | - |
| raw caches (`engine/ingest/client.py`, `engine/ingest/nflverse/client.py`) | JSON and CSV files | get, force | a kill in the middle of a write | a build fails over a file cut short, or does not miss it |
| normalisation and corrections (`engine/ingest/*.py`) | none | pure functions over payloads | lists that must match the data | every correction is applied once |
| doctor (`engine/ingest/currency.py`) | none; reads tables and cache | `cfb doctor` | what its queries cannot see | green means servable, red means a cause |
| schema (`engine/db/{connection.py,schema.sql}`) | the schema | `ensure_schema`, migrations | a crash between statements, two processes | whoever gets through finds every table and column |
| Elo (`engine/ratings/{elo,franchise_lineage}.py`) | none | `rate`, `rate_through` | upsets past the clamp, order of games, absences, moves, lineage cycles and overlaps | the two sides of a ledger agree; a career follows the franchise |
| Keener (`engine/ratings/keener.py`, `engine/credit_math.py`) | none | `rate` | floating-point linear algebra | - |
| evidence (`engine/evidence`) | none | team case, comparison | ledger steps find their games again; venues hedged by age; games shared with both teams | a case and its ledger are in step |
| player queries (`engine/players`) | none | season lines, boards, search, head to heads, QB score | ties, gates, pages past the end, nulls | boards are whole; scores are what the database says |
| compare page (`web/pages/PlayerComparePage`) | address, two fields, what is known of players, five kinds of request | pick, type, compare, close, Back, refuse | answers for a pair since left, a request inside another's failure, a field that waits for what any of five answers may say | it waits only for what will come, and shows only what was asked |
| other player pages (`web/pages/Player{Career,Leaders}Page`) | the page fetched | page, filter | late answers | what is listed answers what was asked |
| build (`render.yaml`, `engine/cli.py`) | the database file and the raw cache | the chain of commands, joined by `&&` | old and partial files, kills, a second process | a green build is whole |
| presentation, MCP server | none | - | - | - |

**How they interact.** The ingest, the rating run and the player ingest are
separate processes that share the SQLite file and meet only at its write lock;
the deployed API opens the finished file read-only, so no request runs beside a
writer. Requests run on FastAPI's threadpool, in one process, or in two during a
deploy: they share the Postgres narration table and, within a process, the call
budget. The page talks to the API over HTTP, and to its next visit through the
address bar and localStorage.

`PROJECT.json` lists every component with its status, and under `hazards` what
can go wrong in this code that its tests would hardly reach, at the line where
it bites and with the properties that cover it.

## Modules

| module | models | run | proofs |
|---|---|---|---|
| `CallBudget` | `RollingWindowCallBudget` | `call_budget` | `Persona_proofs` |
| `VerdictPromise` | abstract: what a verdict route promises of its narration | (refined) | |
| `Narration` | `_serve_cached`, `narrate_checked`, `PostgresNarrationCache`, purge | `narration` | `Narration_proofs` |
| `RatingStore` | `compute_and_store` and `main` of `cfb rate` | `rating_store`, `rating_one_transaction` | `RatingStore_proofs` |
| `SeasonIngest` | `cfb ingest`, both leagues | `season_ingest` | `SeasonIngest_proofs` |
| `PlayerIngest` | `cfb ingest-players` | `player_ingest` | `Players_proofs` |
| `ScreenPromise` | abstract: what the home page promises of the verdict on screen | (refined) | |
| `VerdictPage` | `HomePage`, `QuestionForm`, `shareLink` | `verdict_page` | `VerdictPage_proofs` |
| `ComparePage` | `PlayerComparePage`, `usePlayerSearch` | `compare_page` | `ComparePage_proofs` |
| `SchemaScript` | the statements of `ensure_schema`, and what the evidence asks of a schema | `build` | `Build_proofs` |
| `Schema` | `ensure_schema`, run by any processes | `build` | `Build_proofs` |
| `Doctor` | `cfb doctor`: every check, over a database and a cache | `build` | `Build_proofs` |
| `Build` | `buildCommand`, the commands' units, the raw caches; composes `Schema` and `Doctor` | `build`, `doctor_every_batch` | `Build_proofs` |
| `Evidence` | `build_team_case`, `build_comparison`, the Elo ledger's lookups | `grounding` | `Persona_proofs` |
| `Claims` | the team fact block and what each claim resolves to | `grounding` | `Persona_proofs` |
| `Prose` | `_check_prose` and `check_and_render` | `grounding` | `Persona_proofs` |
| `Grounding` | a season ingested and rated, a verdict, a narration; composes the three | `grounding` | `Persona_proofs` |
| `PlayerFacts` | season lines, totals, leaderboards, search, coverage, head to heads | `qb` | `Players_proofs` (records) |
| `QbScore` | `get_qb_score` | `qb` | `Players_proofs` |
| `QbClaims`, `QbProse` | the quarterback fact block, claims and prose rules | `qb` | `Players_proofs` |
| `QbNarration` | seasons built and built again, a verdict, a narration; composes the four | `qb` | `Players_proofs` |
| `Elo` | `elo.py`: update, walk, ledger, reversion, roots, both methods | `qb` | |
| `SeasonRatings` | the same seasons rated by both methods, under lineage tables | `qb` | |

An `MC` module adds the model values, the symmetry and the data of an instance.
Variables that start with "history" in their comment are not in the code; they
record what properties refer to and no guard reads them, except where a bound
does. An operator whose comment says "Mutant" is a plausible bug in the
definition after it, which no specification uses.

**CallBudget.** One action per statement of the critical section, so the clock
may advance and other threads arrive between any two: `Lock`, `ReadClock`, `Pop`
(one turn of the `while`), `Refuse` or `Admit`, `Grant`. History: every
timestamp ever granted.

**Narration.** `get` (`Hit`, `Miss`, and a failed read is a miss), then the
loop: a budget unit (`Acquire`, `OverBudget`), a call (`Accepted`,
`RejectedOnce`, `RejectedTwice`, `CallFailed`), the upsert (`Set`,
`SetFailed`). `Respond`, `Restart`, the purge and the clock are the
environment. The budget's `try_acquire` is one step, which `CallBudget`
justifies, with timestamps kept as ages. A text is a kind, the key it was told
for and the flag it was told under; the table starts with any legacy rows.
`ContestedIn` differs between the two processes: that is the deploy that issue
#151 is about.

**RatingStore.** A rating is abstracted to what it was computed from (the
versions of the games and of the classification), so "up to date" and "belongs
to the same run" can be said. Each of the three `with conn` transactions is an
action; `LoadGames` and `Rank` are the two SELECTs; `Ingest` may come between
any two. `torn` records the keys whose last store was cut short or overlapped.

**SeasonIngest.** The leagues share the loop and differ in what they catch.
`open` is the implicit transaction, `lock` SQLite's write lock, held from a
batch's first write to the next commit. `PassOver` keeps the open transaction,
as the code does: it has no rollback. A database error (`DbError`) leaves the
loop. A game row is the version of the source it came from. An ingest upserts
and deletes nothing, so a game its source has dropped stays, beside a log that
tells the newer batch. History: for each game, what the last logged ingest that
named it read (`ingested`).

**PlayerIngest.** `work` is the database as the connection sees it, `disk` what
is committed. Statistics are abstracted to who they reference, names to where
they come from (`players.csv`, or the season being written), and ids to `Mint`,
which may map two persons to one id, as a hash may.

**VerdictPage.** What a question is about is one value; `Plain` ones are
spelled with the characters a share link accepts. `Run` is `runSubmission` up to
its `await`, `Settle` the rest of it, for any request in any order, aborted or
not. `Mount`, `Rehearse`, `CleanUp` and `Leave` are the effects, with
StrictMode's rehearsal and the microtask that tells it from a real unmount.

**ComparePage.** A handler or a promise's callback is one action with the render
and the effects after it: `AskComparison`, `AskCareer`, `AskNarration`,
`AskSearch` and `AskLookup` are the five effects, each run when what it depends
on changed. A request is what it asks for and whether its callbacks still
listen (`live`). `Navigate` is any address out of `Links`, which stands for
links and history entries; a keystroke's debounce is part of its request.

**Schema, SchemaScript.** A schema is a set of tables, late columns and indexes.
Each statement is a step and a transaction, as DDL is; a guarded `ALTER` is two,
the look and the change; the rebuild of `ingestion_log` is three. A process may
die, or find that another one has done or undone what its statement asks for.

**Doctor, Build.** `Commands` is `buildCommand`; a command is a sequence of
units, each one transaction or one file, which `SeasonIngest`, `RatingStore` and
`PlayerIngest` take apart. `db` says which batches, ratings, ledgers and stats
are there; `old` and `fresh` say whether they are this build's and computed from
what is stored now. The seasons are those from `MinYear` to `MaxYear`, in their
order, the running command is the process "job" of `Schema`, and every command
opens the file through its statements. `IsCurrent` is the report's `is_current`, check by check. A fetch
that writes in place leaves a file cut short until it is done; one that renames
does not. `Kill` may come between any two units or in the middle of a write,
`Pull` changes the committed cache, `Other` is a second process that opens the
same file.

**Evidence, Claims, Prose, Grounding.** A game is a row with its real venue
beside the stored flag, so that a venue can be true or not. `PlayGame` and
`Rate` build a season; `AskTeamCase` and `AskComparison` take the evidence, the
games as they are and the ratings as they were stored; `Write` and `Submit` put
a text to the check. `Answers(c, b)` is what a claim prints on a block, or
nothing when it is rejected, and the property asks every claim there is. A text
is a sequence of tokens, each the unit one of the module's patterns matches.

**PlayerFacts, QbScore, QbClaims, QbProse, QbNarration.** The same plan for
quarterbacks: `Ingest` replaces a season's rows, starts and games as the player
ingest does, `Ask` is `qb_verdict`, `Write` and `Submit` the narration. The
block is computed as the code computes it, from season lines and the baselines
of the seasons asked for; the properties recompute from the whole database. The
walk that decides which figures print a name is given by what it finds: the
latest place of either player before each figure, and of the last player named.

**Elo, SeasonRatings.** `EloStep` is one turn of `_walk`, with the clash that
`_record_participant` refuses. The properties are about any set of seasons the
player data is built from: absences come from the seasons that are not built.

## Runs

| run | question | instance |
|---|---|---|
| `call_budget` | does the lock make the window's arithmetic right? | 3 threads, limit 2, window 2, clock to 5 |
| `narration` | is every answer true and every row whose it says while an old and a new process and two routes share the table, and is everyone answered? | 2 requests in 2 processes, 2 keys with 2 prompts, limit 1, window 1 |
| `rating_store` | do the tables agree under two runs, ingests and crashes, and is an undisturbed run's range up to date, careers included? | 2 jobs, `elo` (with its ledger) and `elo_career`, 2 years, each ingested at most once |
| `season_ingest` | is what is logged whole, whatever fails? | 2 runs, both leagues, 2 batches, 2 games with common teams, 2 versions |
| `player_ingest` | does every row belong to its player, and is a season run twice the season run once? | 3 persons of which two share an id, 2 ids, 2 seasons |
| `verdict_page` | does the page show, ask and keep what it should? | 3 subjects, 2 teams, 4 question numbers a visit |
| `compare_page` | does the page wait for what it shows, show what it waits for, and stop waiting; is Player B's list the one for the field? | 2 quarterbacks and a kicker (no group), 4 addresses, 2 texts, 1 abandoned request at a time |
| `build` | is a green build whole, a red one explained, and what the API refuses, or would serve without, reported? | both leagues, 2 seasons and the one after, 2 builds or commands, 1 pull, 9 caches and leftovers |
| `grounding` | is what a team narration prints true, and does it read as its team's? | 4 teams, 5 games with 2 outcomes each, a season before and one after 2008, 2 ratings, texts of up to 4 tokens out of 11 and 5 claims |
| `qb` | the same of a quarterback narration; are the boards whole, do the ledgers tell one story, does a career follow its franchise? | 3 quarterbacks and a kicker, 3 seasons built in 2 ways each, 4 teams and 5 lineage tables, texts of up to 4 tokens and a closing sentence on 2 verdicts |

Deadlock is checked except in `build` and `doctor_every_batch`, `grounding`
and `qb`, which end: a build has no more commands than the bound allows, and an
accepted narration is the last thing a verdict does.

The bounds are the smallest in which what the properties are about happens.
The budget's limit is reached and a unit expires twice within the clock's
bound. Two requests can miss together, on one key or two, each in its process and
with that process's budget: a request finds the only unit of the window spent by
the one its slot served before, and a second attempt by its own first. A season before and after its ingest is enough to
be stale, two years for a career to lack one, two jobs to overlap; the
breakdown of `keener`, a table written like the ledger, and more versions are
left to `UntornSeasonsAreWhole`, which is proved for all of them. Two batches are
one season's regular and postseason, and leave a failed batch with a later one
to commit it. Two persons with one id, in the same season or in two, are every
collision there is. Four question numbers let a visit ask, close, ask again and
be corrected, and be answered in any order. The compare page's four addresses
are one of each kind (the empty form, one player, a pair, a mixed pair; the form
makes the others), and an abandoned request's callbacks do nothing, so one at a
time is enough for it to come back after, or before, the one that replaced it. The
search has two texts, so that an answer can be for the wrong one; the instance's
players are of one group or of none, and a change from one group to another is
left to `WaitingHasARequest`, which is proved for any groups.

`build` starts from a whole cache over each kind of database an earlier release
left, and from each kind of incomplete cache over an empty one; two jobs are a
killed or red build and the next, or a command before a build. The second
process opens the file while the first command does: where there is nothing to
add, its opening changes nothing. `grounding` writes about one pair of teams
that met twice, once for a title; `MAX_CLAIMS` and `MAX_GAME_SCORE_CLAIMS` are
lowered so that a short text reaches them. In `qb`, `MAX_QB_CLAIMS` is 5 (three
of them are the required ones), 20 dropbacks qualify, a peak has 2 seasons; a
text is written in one of two styles, about figures or about verdicts, and
closes with the required claims, for a split verdict and for an inconclusive
one. The Elo constants of the instance have a shorter scale and a stronger
autocorrelation than the code's, so that a home favorite that loses is past the
clamp.

Two runs find a sentence of the repository violated; each is a finding in
`PROJECT.json`:

- `rating_one_transaction`: `compute_ratings.py` says one transaction per year;
  there are three, and a kill between them leaves a rating with another run's
  breakdown or ledger (`WholeUnlessTorn` says exactly when).
- `doctor_every_batch`: `currency.py` compares season and type pairs so that a
  database without the postseason is not called current; FCS playoff games,
  stored as postseason out of the regular file, make the pair be there.

Smaller things met while modelling, which no run is about: `ingest_season.py`
catches no `sqlite3.Error`, so a locked database ends a run with a traceback
where its docstring has the other batches tried (`DbError`); a game dropped
from its source stays, and is rated (`Upsert`); a player missing from
`players.csv` takes the name of the season run last, though the docstring of
`ingest_players.py` says that re-running a season leaves every table identical
(`Name`); a saved team outside the share link's characters makes a link that
opens the plain page (`fromShareSearch`); while a search is under way the list
of the one before is shown, and if the group changed the API refuses the pair
(`rows`, `ListIsTheFields`); "Georgia beat {rank of Georgia} Alabama" renders
as "Georgia beat No. 3 Alabama" (`Prose`); a score before "wins the career" is
not taken for a verdict, nor is a first name alone at the start of a sentence
for a player (`QbProse`); a neutral game from before 2008 with no start date
makes a ledger's lookup fail (`proof.py`); a lineage overlap in a season before
the target is not refused (`EloStep`); a score is to print its player's name
"unless the sentence just named him" (`_Mode` of `qb_claims.py`), but a count
of his seasons, which prints no name, passes for one, and "Through eight
seasons it adds up to 2.25" is accepted (`MustName`).

## Fairness

Fairness is used for liveness alone. Three runs check liveness:

- `narration` assumes that a request's handler keeps running
  (`WF(Handle(r))`): it is sequential code, its Postgres calls have a connect
  timeout and its Claude call a timeout of its own, and each of them may fail.
  Nothing is assumed of the clock, the purge or restarts; `EveryRequestAnswered`
  needs no budget to come free, since a refused unit is answered at once.
- `verdict_page` assumes that the browser runs effects and microtasks, and that
  every request settles (`withDeadline` in `lib/api/client.ts` gives it 30
  seconds, whatever the network does: its timer aborts the fetch and the reading
  of the body). Nothing is assumed of the visitor.
- `compare_page` assumes the same of the requests its modal and panel wait for,
  and that the effect of a refusal runs.

## Proofs

For every value of the constants that satisfies the named assumptions, each
checked by TLC on every run. Type invariants are proved, and not run.

- `Persona_proofs`, of the call budget: `TypeCorrect`, `WindowNeverOverspent`,
  `DequeMatchesHistory`, `RefusalIsJustified`. The properties are not inductive:
  what makes them so is mutual exclusion (a thread past `Lock` is the owner,
  `HolderInside`), that no time read is in the future (`NothingFromTheFuture`),
  that everything popped has expired by the time the holder read
  (`PoppedHaveExpired`), and that a thread about to append has room
  (`RoomWhenAdmitted`).
- `Persona_proofs`, of a team narration: `ClaimsTrueSafe`, `FiguresReadSafe`
  and `LedgerInStepSafe`, for any schedule, ratings, palette of claims and length of
  text. The library's induction theorems cannot be used here, so a proof about a
  text or a season takes the least counterexample of a set of naturals
  (`LeastOf`, from the well-foundedness of `<`). That a figure printed without a
  name reads as its team's is such an induction (`BareIsIntroduced`): the
  reference `_bare_offsets` finds is a name, or a figure that shows one, or an
  earlier figure without a name, and what the walk passes over shows nothing to
  distract (`OthersDoNotDistract`). For the ledger, the invariant says that the
  stored tables are those of the games that had been seen (`LedgerInv`); that
  `_CHRONOLOGICAL_ORDER` walks a season's games once each, whatever is missing
  or tied in their keys (`ChronologicalWalks`), makes the steps and the case's
  rows the same games, and one game of a pair on a date makes a neutral step
  find its own (`StepFindsItsGame`).
- `Persona_proofs`, of what a team narration's claims print: `ClaimsTrueSafe`
  says it of every claim there is, on every block a verdict can be given. The
  invariant (`GroundInv`) says that the games seen are a season's, that the
  stored tables are theirs, and that an open block is what the tables still say
  (`Asked`). Then in three stages. Of games: a row is a game from one of its
  sides, and a key is one game from one side (`MirrorOfASide`, `KeyDecides`), so
  that the block's dedupe drops what it holds already and nothing else
  (`HeldSides`). Of blocks (`BlockHolds`, for both kinds of verdict by
  `TeamCaseHolds` and `ComparisonHolds`): its games are sides of games, the
  meetings of the pair are all there, the teams it is about have their rating
  and record, a rank is a stored one, and its lists of common games are
  complete. Of claims: each kind by itself, from those facts (`GameClaims`,
  `NameClaims`, `GapClaims`, `CountClaims` and their like). The last wins of a
  season and the best ones are places in a sorted list, so the sorts and filters
  are stated by what they keep and in which order (`InOrderWalks`, `KeptRows`,
  `SortedRows`). Assumed, beside the instance's shape: a team plays its regular
  season in the order of its weeks (`CalendarAssumption`), and one game of a pair
  in a week and on a date; years and figures are integers.
- `Players_proofs`, of a quarterback narration: `QbFiguresReadSafe`, for any
  player data, palette of claims and length of text (`QbAssumption`: texts are
  made of the tokens there are). The invariant (`QbInv`) says that what is shown
  passed the check of the open block. Of such a text (`ReadsOn`) two things are
  shown by least counterexample: up to a place the walk of `_check_prose`
  remembers, the name printed last is that place's player's (`LastNameHolds`),
  and a figure printed without its name stands near one of his, or near a figure
  of his (`IntroducedHolds`). A margin is then the last player's unless a word
  turns it (`MarginIsTheLastPlayers`). The stronger property, that the
  sentence has named him, is not true: see the smaller things above.
- `Players_proofs`, of what such a narration states: `QbFiguresSafe` and
  `QbVerdictSafe`. The invariant has two more parts. `TablesInv`: a season built
  again leaves the tables their keys and references, because its starts' games go
  with it and no other season has a game of its ids. `BlockInv`: an open block is
  what the tables still say of two quarterbacks whose scores could be computed.
  A sum is the library's `MapThenSumSet`, which is a recursive function over
  subsets: that it has a value (`SumsExist`), takes its members in any order
  (`SumsTakeAny`), splits (`SumSplits`) and does not depend on names
  (`SumRenamed`) are shown by least counterexample. The seasons of a peak are as
  many as may be and no season outside is better (`PeakSize`), so no choice of as
  many sums to more (`PeakIsBest`), and `get_qb_score` gives the true score
  (`ScoreIsTrue`). Who leads is who the block says wins (`VerdictFacts`), and a
  printed margin is never negative because printing keeps the order
  (`ShownGrows`). A start is one game, so a record recounts the games
  (`RecordIs`), and what one man won of a head to head the other lost
  (`HeadToHeadIs`). Of the words: a verb takes the name just before it and the
  measure just after it (`TypedWinnerLeads`), and the phrase a size is said of
  stays in its sentence (`PhraseStaysInItsSentence`). Assumed: `BuildsAssumption`,
  what the primary keys of `schema.sql` and the sources keep of a season (one row
  of a player, season and type; a game of two teams, in one season; a start for
  one of its game's teams, and nobody starts for both), `ScoreAssumption` (whole
  weights, a positive minimum and a positive number of peak seasons),
  `BandsAssumption` and `WindowIsPositive`.
- `Players_proofs`, of a season's ratings: `LedgersSafe`, for any games and any
  Elo configuration that `__post_init__` lets through (`EloAssumption`). Games
  are put in order by their places, and members of a finite set with an order
  are each at one place (`PlacesList`, `LoadedInOrder`). The walk is a fold, which
  is its steps, one per game (`FoldsExist`, `WalkIsItsSteps`). The invariant of
  the walk (`SeasonTold`) says of the games walked so far that their teams are
  the walk's, that each ledger is chained to its team's rating, that each of its
  steps is mirrored in another (`LedgersTold`), that the letters count the games
  (`Lettered`) and that the points add up to what was brought in; a game more
  keeps it (`SeasonStepHolds`). That a winner never pays rests on the multiplier's
  clamp and the ends of the curve alone (`UpdateFacts`).
- `Players_proofs`, of the boards: `BoardsSafe`, for any players, builds and page
  size. Of two fractions with positive denominators, or none, at most one is
  above the other, and not being above is transitive (`AboveIsWeakOrder`); so a
  board's order is one (`BoardOrderIsAnOrder`) and its places list its population
  (`BoardIsListed`). Whoever is above a player stands before him, and between two
  neighbours either everybody before the second is above him or the two are alike:
  a rank is its place, or the rank before it (`RanksFollow`). A place is on one
  page, in one row (`PlaceOnAPage`, `PagesTurn`). That the values compare at all
  needs totals that are whole numbers or none (`StatTotalIsWhole`) and a gate that
  leaves dropbacks to divide by (`SortValueHolds`). Assumed besides: a positive
  minimum of dropbacks (`LeadersAssumption`, `contracts.py`) and page size
  (`PlayersAssumption`: `get_player_leaders` refuses any other; ids are integers).
- `Players_proofs`, of a career: `CareerSafe`. The property compares two walks:
  one over the teams, where a slot belongs to a franchise, and one over the same
  games under their franchises' last names, where nobody moves. Renaming keeps
  the order of the games (`RenamedList`), and the two walks stay in step, game
  by game (`BothTold`, of `CareerTold` and `AsOneTeam`): a slot holds what its
  last name's team holds, until two teams of the season meet in one, which the
  first walk sees at that very game and does not forget. That each game starts
  from what the franchise's last one left, reverted for the offseasons between,
  is an invariant of a walk where nobody moves (`CarriedTold`,
  `CareerCarriesOver`). A chain of moves longer than its pairs has been somewhere
  twice, so `Cyclic` is true of the lineages that never end and of no others
  (`CyclicNeverEnds`, by counting). A reversion is written as a product (`Power`):
  the provers have facts about products and none about `^`. Assumed:
  `EloAssumption`, and of `BuildsAssumption` that a game has its columns as well.
- `Narration_proofs`: `TypeCorrect`, `RowsAreTrue`, `HitsAreTrue`,
  `CallsExplainAnswers`, `FallbackIsNeverCached`, and `NarrationKeepsPromise`,
  the refinement of `VerdictPromise`. The invariant ties each request's step to
  the replies it has had (`StepsMatchState`) and each answer to the flag of the
  process that gave it (`AnswersCarryTheFlag`); the refinement needs both to see
  which abstract step an action is.
- `RatingStore_proofs`: `TypeCorrect`, `UntornSeasonsAreWhole` and
  `QuietRangeIsUpToDate`. The invariant of the first two adds that a job has its arguments (`RunsHaveArguments`), that a key
  being stored is torn (`StoringIsTorn`), and that the tables a job has written
  still hold its walk while it was alone on its key (`AloneKeepsItsRows`):
  without it a job that finishes last could vouch for rows another one wrote.
  The range adds that the season a quiet job holds is computed from the games
  there are (`HoldsItsYear`) and that the years of its range before it are rated
  from them (`RangeSoFar`).
- `SeasonIngest_proofs`: `TypeCorrect`, `LogTellsTheTruth`,
  `FailuresStoreNoGames`, `ZeroMeansStored`, for any number of overlapping runs.
  The invariant says what an open transaction holds when it gets to its commit
  (`RunIsSound`): the games of the batch about to be logged and of no other,
  and its teams. The games and the log's line reach the disk in one step, so
  nothing of SQLite's lock is needed. `LogTellsTheTruth` says both what the log's
  games are and what a leftover is: as the last logged ingest that named it. That a batch's log names only its own
  games (`LogsHoldTheirBatch`) keeps one batch's commit from touching another's.
- `Players_proofs`: `TypeCorrect`, `RowsAreTheirPlayers`,
  `SeasonsAreTheirBuilds` and the action property `RerunChangesNothing`, for any
  assignment of ids. The invariant gives what the connection sees at each step
  as a function of what is committed (`WorkFollowsDisk`), and what the check of
  ids has established by then (`BuildIsChecked`); the rerun needs that the
  season committed last is named as it would be again (`LatestIsNamed`).
- `VerdictPage_proofs`: `TypeCorrect`, `OnlyTheLatestIsLive`,
  `ThreeCopiesAgree`, `SavedTeamIsNeverALinks`, and `PageKeepsPromise`, the
  refinement of `ScreenPromise`, for any number of questions and visits. The
  invariant says that requests are numbered in the order they were asked
  (`NumbersAreUnique`), that the one not aborted is the last
  (`LiveIsLatest`) and is what a loading screen waits for (`LiveIsLoading`);
  that the form, the address and the submission agree while there is a screen
  (`ReloadHolds`); and what a page just opened holds (`OpeningIsBlank`,
  `FreshHasLanded`). A request that settles late is then either the one on
  screen, which is a step of the promise, or none of the page's business.
- `ComparePage_proofs`: `TypeCorrect`, `OnlyTheScreenIsHeard`,
  `WaitingHasARequest`, `ShutFieldIsAskedFor` and the action property
  `ComparePressIsFresh`, for any players and groups and any number of abandoned
  requests. After every render the live requests of a kind are the one for what
  the page now shows, or none, and then there is nothing to wait for
  (`ComparisonTracked` and its three likes): a step that changes what is shown
  has the effect ask again (`RenderFacts`), and one that does not leaves both
  the request and what would answer it. A list is of the group it was asked for
  (`RowsAreOfTheirGroup`), and a change of group or text asks again, so a settled
  search's is the field's (`ListFollowsTheField`). `AnswersHavePairs` is what makes a press
  of Compare start from nothing.
- `Build_proofs`: of the schema alone, `OpenedFindsAll`, for any processes and
  any file: nothing but the log's rebuild removes an object, so what a process
  has passed is there (`PassedBy`). Of the build, `BuildTypes`,
  `BuildOpensCurrent`, `GreenBuilds`, `RedBuilds` and `RefusedReported`, for any
  window of seasons, database, cache and processes, any number of killed builds
  and of commands run alone. The invariant (`BuildInv`) says what each unit
  before the running one has left (`Done`, `PassedAreDone`), of the file or for
  want of a file of the cache, and that a hard error has a cause
  (`ErrorsHaveACause`). That a unit comes once, in which command and after which
  others, is computed from `Commands` (`Placed`, `PassedFacts`, `AllPassed`).
  No later unit undoes what is done: only an ingest makes a rating stale, and no
  rating comes before an ingest. At the doctor everything is done, which is what
  it asks (`WholeIsGreen`) and what its answer promises (`GreenIsWhole`). That a
  database called current is also served, with every stored season among the
  years of every method, follows from its checks of the ratings (`NoneUnrated`,
  `CurrentServes`).
  Assumed: a window of one season or more (`DoctorAssumption`), the statements
  of the schema (`ScriptAssumption`), and databases and caches of the right
  kind, whose games have their teams (`BuildAssumption`).

Only model-checked: liveness (`EveryRequestAnswered`, `LoadingEnds`), which
TLAPS does not reach under fairness.

## Abstractions

What the models leave out, beside wording and layout:

- **Ingests.** Years outside the leagues' range are skipped with a message and no
  failure, so exit 0 speaks of the batches that are left of what was asked. A
  career's SELECT of its lineage is taken with the one of its games.
- **Narration.** `purge --all` counts and asks before it deletes; the model's purge
  is the deletion.
- **Grounding.** Ratings are in hundredths and computed by no method: any of
  the instance's rankings may come out. Team names are distinct, and a pair
  meets at most once in a week and on a date (`GroundingAssumption`): two teams
  of one name share their facts in a block, in the code as here. Games without a
  score are left out where the query is modelled, not as its rows come. The walk
  of `_bare_offsets` is given by what it finds: the nearest reference before a
  figure, in its sentence. So are the block's: the first row of a key stays
  (`Held`, for `add_game`), and the first rank known of a team (`Known`). `LedgerInStep` asks that neutral games have a date
  (`Dated`), as a ledger's lookup does.
- **Quarterbacks.** Regular expressions are token kinds: their vocabularies,
  the negator's auxiliaries, objects after a colon and windows counted in
  characters are a few kinds of word and a distance in tokens. Half the range of
  a season's rates stands for their standard deviation, which it is with two
  quarterbacks; the true score recounts a season from the whole database and
  weighs it with the code's own `Composite`. Three of six board categories and their sorts stand for all; a
  board row's span of seasons, `any_a` and the weights' fit are left out. A
  name is its player's id. A season's rows, starts and games come in one step.
- **Elo.** Integers: the logistic curve is a line with its ends held inside
  (0, 1), the logarithm of a margin its doublings, reversion its closed form. A
  game's id stands for its week and date (`Evidence` has the whole key).
- **Build.** Warnings are left out: a process killed after the last migration
  and before the stale-data warning silences it for good. So is the second
  `ensure_schema` of each rated year, and indexes of `schema.sql` belong to
  their tables. A kill between a year's rating transactions leaves a database
  the doctor calls current, as `rating_one_transaction` shows from below.
  The NFL's `teams.csv` is always there. Both leagues have one window of seasons,
  where the code's start in 1998 and 1999. A `games.csv` cut short reads as a shorter
  list, as CSV does.

## Not modelled, and why

- Keener's eigenvector solve and the credits computed from it: floating-point
  linear algebra, out of TLC's reach. The stores are modelled over what a rating
  was computed from, and Elo over integers.
- Prompts, fallback texts, tool schemas, response models: wording and shapes.
- The catalog and error routes, the MCP server, the presentation components:
  reads of an immutable file, and rendering.
- The career and leaders pages: one fetch each, keyed by the address; the
  compare page has the same effects, and more of them.
- `resolve_user_team`, the form's validation, the mapping of status codes.
- Exceptions a route lets through to a 500: they end the request, as
  `Restart` does, and change no state.
- Two player ingests at once: the build runs one. Two would race between the
  id check and the first `DELETE` (a hazard without a property).
- A call to the API taken apart (`withDeadline`: the timer, the caller's signal and
  the promises it races): the pages' models take it as one request that settles,
  with an answer, a refusal or a failure, and assume that it does.
- That every build ends: its commands are sequential code over finite lists.

## Plan

Done: the budget, the narration layer and its refinement, the rating store,
both season ingests, the player ingest, the home page and its refinement, the
compare page, the schema, the doctor and the build, both claim checks with
their evidence, the player queries and the Elo engine.

Every safety property a run expects to hold is proved. Left: the parts the
section above lists as not modelled.
