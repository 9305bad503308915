---------------------------- MODULE SchemaScript ----------------------------
(***************************************************************************)
(* What ensure_schema (cfb_strength/db/connection.py) runs against a       *)
(* SQLite file: schema.sql and then the _migrate_ steps, as one sequence   *)
(* of statements, and what of the result the evidence layer asks for.      *)
(*                                                                         *)
(* The schema is a set of objects: <<t, "">> is table t with the indexes    *)
(* schema.sql gives it, <<t, c>> a column that was added to t after t      *)
(* first shipped, <<"", i>> an index of a migration.                        *)
(***************************************************************************)
EXTENDS Integers, Sequences

StatColumns == <<"passing_to_kicking", "defense_and_epa">>    \* PlayerStats, by issue

\* schema.sql's tables with the columns a database older than them lacks.
Tables ==
    <<[name |-> "teams", late |-> {"sport", "source_id", "mascot", "alternate_names"}],
      [name |-> "team_season", late |-> {"sport"}],
      [name |-> "games", late |-> {"sport", "source_id", "conference_championship"}],
      [name |-> "ratings", late |-> {"sport", "ties"}],
      [name |-> "rating_breakdowns", late |-> {"sport"}],
      [name |-> "elo_ledger_steps", late |-> {}],
      [name |-> "elo_ledger_configs", late |-> {"mov_denom_floor_fraction"}],
      [name |-> "players", late |-> {"career_span"}],
      [name |-> "player_game_stats", late |-> {StatColumns[1], StatColumns[2]}],
      [name |-> "player_season_stats", late |-> {StatColumns[1], StatColumns[2]}],
      [name |-> "ingestion_log", late |-> {"sport"}]>>

Table(i) == [does |-> "create", on |-> <<Tables[i].name, "">>,
             adds |-> {<<Tables[i].name, c>> : c \in {""} \cup Tables[i].late}]
Column(t, c) == [does |-> "alter", on |-> <<t, c>>, adds |-> {<<t, c>>}]
Index(i) == [does |-> "create", on |-> <<"", i>>, adds |-> {<<"", i>>}]
Rebuild(t, c) == [does |-> "rebuild", on |-> <<t, c>>, adds |-> {<<t, "">>, <<t, c>>}]

Script == [i \in 1 .. 11 |-> Table(i)]                          \* schema.sql
SportColumns ==                                                 \* _migrate_sport_columns
    <<Column("teams", "sport"), Column("team_season", "sport"), Column("games", "sport"),
      Column("ratings", "sport"), Column("rating_breakdowns", "sport"),
      Column("teams", "source_id"), Column("games", "source_id"),
      Rebuild("ingestion_log", "sport"),
      Index("idx_teams_source_id"), Index("idx_games_source_id")>>
LaterColumns ==                                                 \* the other _migrate_ steps
    <<Column("teams", "mascot"), Column("teams", "alternate_names"),
      Column("games", "conference_championship"), Column("ratings", "ties"),
      Column("elo_ledger_configs", "mov_denom_floor_fraction"),
      Column("player_game_stats", StatColumns[1]), Column("player_game_stats", StatColumns[2]),
      Column("player_season_stats", StatColumns[1]), Column("player_season_stats", StatColumns[2]),
      Column("players", "career_span")>>
Statements == Script \o SportColumns \o LaterColumns
Opened == Len(Statements) + 1

Reference == UNION {Statements[i].adds : i \in DOMAIN Statements}
\* The one table a migration drops, to build it anew.
Log == {<<"ingestion_log", "">>, <<"ingestion_log", "sport">>}

\* Facts of this script, which TLC evaluates: a statement adds the object it asks
\* for, and every object but the log's has a statement that asks for it.
ASSUME ScriptAssumption ==
    /\ Statements \in Seq([does : {"create", "alter", "rebuild"}, on : STRING \X STRING,
                           adds : SUBSET (STRING \X STRING)])
    /\ \A i \in DOMAIN Statements : Statements[i].on \in Statements[i].adds
    /\ \A o \in Reference \ Log : \E i \in DOMAIN Statements : Statements[i].on = o

\* What require_current_schema asks for before the evidence layer reads.
LateAdded ==
    {<<"rating_breakdowns", "">>, <<"elo_ledger_configs", "">>, <<"elo_ledger_steps", "">>,
     <<"teams", "sport">>, <<"teams", "alternate_names">>, <<"games", "sport">>,
     <<"games", "conference_championship">>, <<"ratings", "sport">>, <<"ratings", "ties">>,
     <<"rating_breakdowns", "sport">>, <<"elo_ledger_configs", "mov_denom_floor_fraction">>}

\* StaleDatabaseError: a listed table is missing, or a listed column of a
\* table the file has.
Refused(schema) ==
    \E o \in LateAdded : o \notin schema /\ (o[2] # "" => <<o[1], "">> \in schema)
=============================================================================
