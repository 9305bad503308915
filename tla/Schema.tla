------------------------------- MODULE Schema -------------------------------
(***************************************************************************)
(* ensure_schema (cfb_strength/db/connection.py): how every command that   *)
(* opens the SQLite file for writing brings its schema up to date.         *)
(*                                                                         *)
(* SchemaScript's statements run one by one, each in a transaction of its  *)
(* own (DDL opens no implicit transaction), so a process may die between   *)
(* any two, and another process may migrate the same file.  A guarded      *)
(* ALTER is two steps: _has_column reads, and the ALTER fails if the       *)
(* column has come in the meantime.                                        *)
(***************************************************************************)
EXTENDS SchemaScript

CONSTANT Procs      \* processes that open the file for writing

---------------------------------------------------------------------------
VARIABLES schema,    \* the file's objects
          at,        \* where each process is in Statements: 0 closed, Opened past them
          todo       \* what its statement does next: "check", "run" or "recreate"
svars == <<schema, at, todo>>

Statement(p) == Statements[at[p]]
Running(p) == at[p] \in DOMAIN Statements

SchemaInit(shape) ==
    /\ schema = shape
    /\ at = [p \in Procs |-> 0]
    /\ todo = [p \in Procs |-> "check"]

Open(p) == /\ at[p] = 0
           /\ at' = [at EXCEPT ![p] = 1]
           /\ UNCHANGED <<schema, todo>>

Proceed(p) == at' = [at EXCEPT ![p] = @ + 1] /\ todo' = [todo EXCEPT ![p] = "check"]
Close(p) == at' = [at EXCEPT ![p] = 0] /\ todo' = [todo EXCEPT ![p] = "check"]
Adds(p) == /\ schema' = schema \cup Statement(p).adds
           /\ Proceed(p)

\* Mutant: it looks for the table only.
PresentTable(p) == /\ Running(p) /\ todo[p] = "check"
                   /\ Statement(p).on \in schema \/ <<Statement(p).on[1], "">> \in schema
                   /\ Proceed(p)
                   /\ UNCHANGED schema
\* IF NOT EXISTS, or _has_column: nothing to add.
Present(p) == /\ Running(p) /\ todo[p] = "check"
              /\ Statement(p).on \in schema
              /\ Proceed(p)
              /\ UNCHANGED schema

\* CREATE TABLE or INDEX IF NOT EXISTS: checked and created in one statement.
Create(p) == /\ Running(p) /\ todo[p] = "check"
             /\ Statement(p).does = "create"
             /\ Statement(p).on \notin schema
             /\ Adds(p)

\* _has_column finds the column missing.
Missing(p) == /\ Running(p) /\ todo[p] = "check"
              /\ Statement(p).does # "create"
              /\ Statement(p).on \notin schema
              /\ todo' = [todo EXCEPT ![p] = "run"]
              /\ UNCHANGED <<schema, at>>

Alter(p) == /\ Running(p) /\ todo[p] = "run"
            /\ Statement(p).does = "alter"
            /\ Statement(p).on \notin schema
            /\ Adds(p)

\* DROP TABLE ingestion_log, then CREATE TABLE without IF NOT EXISTS.
Drop(p) == /\ Running(p) /\ todo[p] = "run"
           /\ Statement(p).does = "rebuild"
           /\ <<"ingestion_log", "">> \in schema
           /\ schema' = schema \ Log
           /\ todo' = [todo EXCEPT ![p] = "recreate"]
           /\ UNCHANGED at
Recreate(p) == /\ Running(p) /\ todo[p] = "recreate"
               /\ <<"ingestion_log", "">> \notin schema
               /\ Adds(p)

\* An error of the file's ("duplicate column name", "no such table", "already
\* exists", locked), or a kill: the process ends, what it added stays.
Die(p) == /\ at[p] # 0
          /\ Close(p)
          /\ UNCHANGED schema

SchemaStep(p) == \/ Open(p) \/ Present(p) \/ Create(p) \/ Missing(p) \/ Alter(p)
                 \/ Drop(p) \/ Recreate(p)
SchemaNext == \E p \in Procs : SchemaStep(p) \/ Die(p)
SchemaSpec == (\E shape \in SUBSET Reference : SchemaInit(shape)) /\ [][SchemaNext]_svars

\* A process past ensure_schema finds everything the present schema has, from
\* whatever shape the file had, after any crashes, and beside other processes
\* migrating it: all but the operational log, which another process that still
\* holds its old answer may be rebuilding.
OpenedIsCurrent == \A p \in Procs : at[p] = Opened => Reference \ Log \subseteq schema
=============================================================================
