---------------------------- MODULE PlayerIngest ----------------------------
(***************************************************************************)
(* ingest/nflverse/ingest_players.py: NFL players and their statistics.    *)
(* A run reads players.csv once and then goes through seasons; a season is *)
(* built in memory from the season's games and stat lines, checked against *)
(* the database, and written in one transaction that replaces its rows.    *)
(*                                                                         *)
(* A player's id is minted by hashing the source's (gsis) id, so two       *)
(* persons may mint the same one.  A person's name and position come from  *)
(* players.csv, or else from the season that is being written.             *)
(*                                                                         *)
(* A stat line, a season total and a listed starter are all abstracted to  *)
(* a reference from the season to the person.  One run at a time.          *)
(***************************************************************************)
EXTENDS Integers

CONSTANTS
    Persons,    \* gsis ids
    Ids,        \* surrogate player ids
    Mint,       \* player_id_for: the id minted for each person
    LastSeason, \* seasons are 1..LastSeason
    Nobody

Seasons == 1..LastSeason

ASSUME SeasonAssumption == LastSeason \in Nat \ {0}
ASSUME MintAssumption == Mint \in [Persons -> Ids]
ASSUME NobodyAssumption == Nobody \notin Persons

\* Where a stored name comes from: players.csv, or the rows of a season.
FromRoster == 0
Names == {FromRoster} \cup Seasons
NoName == -1

VARIABLES
    games,      \* the seasons whose games are in the database
    files,      \* the source: who each season's lines name, who players.csv has
    disk,       \* the committed rows
    work,       \* the rows as the connection sees them, its transaction open
    pc, season, \* where the run is
    roster,     \* players.csv, as the run read it
    build,      \* the persons of the season built in memory
    built,      \* history: the persons of each season's last committed build
    latest      \* history: the season whose build was committed last, or 0

vars == <<games, files, disk, work, pc, season, roster, build, built, latest>>

Steps == {"idle", "load", "check", "clear", "write", "prune"}

Tables == [refs    : [Seasons -> SUBSET Persons],       \* the three stat tables
           players : [Ids -> Names \cup {NoName}],      \* players, by its name
           gsis    : [Ids -> Persons \cup {Nobody}]]      \* player_source_ids

Empty == [refs    |-> [y \in Seasons |-> {}],
          players |-> [i \in Ids |-> NoName],
          gsis    |-> [i \in Ids |-> Nobody]]

Files == [lines : [Seasons -> SUBSET Persons], csv : SUBSET Persons]

Init ==
    /\ games \in SUBSET Seasons
    /\ files \in Files
    /\ disk = Empty
    /\ work = Empty
    /\ pc = "idle"
    /\ season = 1
    /\ roster = {}
    /\ build = {}
    /\ built = [y \in Seasons |-> {}]
    /\ latest = 0

-----------------------------------------------------------------------------
\* The games ingest adds a season.
IngestGames ==
    /\ \E y \in Seasons \ games : games' = games \cup {y}
    /\ UNCHANGED <<files, disk, work, pc, season, roster, build, built, latest>>

\* A cache file is rewritten, by --force or by a new commit of the raw data;
\* not while a run reads the files.
Refetch ==
    /\ pc = "idle"
    /\ \E S \in SUBSET Persons :
          \/ files' = [files EXCEPT !.csv = S]
          \/ \E y \in Seasons : files' = [files EXCEPT !.lines[y] = S]
    /\ latest' = 0
    /\ UNCHANGED <<games, disk, work, pc, season, roster, build, built>>

\* _load_shared_inputs; a failure there ends the run.
Start ==
    /\ pc = "idle"
    /\ \E y \in Seasons : season' = y
    /\ roster' = files.csv
    /\ pc' = "load"
    /\ UNCHANGED <<games, files, disk, work, build, built, latest>>

\* What the run holds in memory is gone.
Forget ==
    /\ roster' = {}
    /\ build' = {}

\* for year in years, or the end of them: a range may end at any season.
NextSeason ==
    \/ /\ season < LastSeason
       /\ season' = season + 1
       /\ pc' = "load"
       /\ build' = {}
       /\ UNCHANGED roster
    \/ /\ pc' = "idle"
       /\ Forget
       /\ UNCHANGED season

\* load_season_games, get_stats_player_week, build_player_season: the persons
\* the season's lines and starters reference.  No two may mint one id.
Load ==
    /\ pc = "load"
    /\ season \in games
    /\ \A p, q \in files.lines[season] : Mint[p] = Mint[q] => p = q
    /\ build' = files.lines[season]
    /\ pc' = "check"
    /\ UNCHANGED <<games, files, disk, work, season, roster, built, latest>>

\* No games, no file, a collision within the season, a line that fits no game:
\* nothing is written yet.
LoadFails ==
    /\ pc = "load"
    /\ NextSeason
    /\ UNCHANGED <<games, files, disk, work, built, latest>>

\* _check_gsis_ids_against_db, of one person of the build.
HeldByAnother(p) == work.gsis[Mint[p]] \notin {Nobody, p}

\* Mutant: the check of ids against the database is missing.
NoCheck ==
    /\ pc = "check"
    /\ pc' = "clear"
    /\ UNCHANGED <<games, files, disk, work, season, roster, build, built, latest>>

Check ==
    /\ pc = "check"
    /\ \A p \in build : ~HeldByAnother(p)
    /\ pc' = "clear"
    /\ UNCHANGED <<games, files, disk, work, season, roster, build, built, latest>>

\* Mutant: no rollback.
FailUnrolled ==
    /\ pc \in {"check", "clear", "write", "prune"}
    /\ NextSeason
    /\ UNCHANGED <<games, files, disk, work, built, latest>>

\* A collision with the database, or sqlite3.Error on any statement, the commit
\* included: rolled back, reported, and the next season is tried.
Fail ==
    /\ pc \in {"check", "clear", "write", "prune"}
    /\ work' = disk
    /\ NextSeason
    /\ UNCHANGED <<games, files, disk, built, latest>>

\* _write_season, its DELETEs.
Clear ==
    /\ pc = "clear"
    /\ work' = [work EXCEPT !.refs[season] = {}]
    /\ pc' = "write"
    /\ UNCHANGED <<games, files, disk, season, roster, build, built, latest>>

\* Mutant: players.csv is applied to the players already stored.
NameOnlyKnown(p) ==
    IF p \in roster /\ work.players[Mint[p]] # NoName THEN FromRoster ELSE season

\* _Identities.get: players.csv, else the rows of this season.
Name(p) == IF p \in roster THEN FromRoster ELSE season

\* The persons of the build that an id is minted for: one at most.
Minted(i) == {p \in build : Mint[p] = i}

\* The upserts of players, the replacement of their source ids, the inserts.
WriteRows ==
    /\ pc = "write"
    /\ work' = [
          refs    |-> [work.refs EXCEPT ![season] = build],
          players |-> [i \in Ids |-> IF Minted(i) = {} THEN work.players[i]
                                     ELSE Name(CHOOSE p \in Minted(i) : TRUE)],
          gsis    |-> [i \in Ids |-> IF Minted(i) = {} THEN work.gsis[i]
                                     ELSE CHOOSE p \in Minted(i) : TRUE]]
    /\ pc' = "prune"
    /\ UNCHANGED <<games, files, disk, season, roster, build, built, latest>>

\* Starts, game and season stats name the same players; player_game_feats, which
\* the prune looks at too, is a table nothing here writes.
Referenced(tables, i) == \E y \in Seasons : \E p \in tables.refs[y] : Mint[p] = i

Pruned(tables) ==
    [refs    |-> tables.refs,
     players |-> [i \in Ids |->
                    IF Referenced(tables, i) THEN tables.players[i] ELSE NoName],
     gsis    |-> [i \in Ids |->
                    IF Referenced(tables, i) THEN tables.gsis[i] ELSE Nobody]]

\* Players nothing references any more are removed, and the season committed.
Prune ==
    /\ pc = "prune"
    /\ work' = Pruned(work)
    /\ disk' = Pruned(work)
    /\ built' = [built EXCEPT ![season] = build]
    /\ latest' = season
    /\ NextSeason
    /\ UNCHANGED <<games, files>>

\* The process is killed, or something main does not catch is raised.
Die ==
    /\ pc # "idle"
    /\ pc' = "idle"
    /\ work' = disk
    /\ Forget
    /\ UNCHANGED <<games, files, disk, season, built, latest>>

Next ==
    \/ IngestGames \/ Refetch \/ Start
    \/ Load \/ LoadFails \/ Check \/ Fail
    \/ Clear \/ WriteRows \/ Prune
    \/ Die

Spec == Init /\ [][Next]_vars

-----------------------------------------------------------------------------
(***************************************************************************)
(* Properties                                                              *)
(***************************************************************************)

TypeOK ==
    /\ games \in SUBSET Seasons
    /\ files \in Files
    /\ disk \in Tables
    /\ work \in Tables
    /\ pc \in Steps
    /\ season \in Seasons
    /\ roster \in SUBSET Persons
    /\ build \in SUBSET Persons
    /\ built \in [Seasons -> SUBSET Persons]
    /\ latest \in Seasons \cup {0}

\* Whose id a row carries: every committed stat line and start is attributed
\* to the person it was made by, of any season, although ids are hashes and
\* seasons are written by different runs; and players holds nobody else.
StatsBelongToTheirPlayers ==
    /\ \A y \in Seasons : \A p \in disk.refs[y] :
          disk.gsis[Mint[p]] = p /\ disk.players[Mint[p]] # NoName
    /\ \A i \in Ids : disk.gsis[i] # Nobody \/ disk.players[i] # NoName =>
          Referenced(disk, i)

\* A season holds exactly what its last successful ingest built, whichever
\* seasons failed before or after it on the same connection.
SeasonIsItsLastBuild == disk.refs = built

\* Running a season again, with nothing else ingested or fetched in between,
\* changes no table.
RerunAtOnceIsIdentical ==
    [][Prune /\ latest = season => disk' = disk]_vars
=============================================================================
