------------------------------- MODULE Migration -------------------------------
(***************************************************************************)
(* Opening the SQLite database (Open and migrate in                        *)
(* internal/storage/sqlite.go).  Tables that are missing are created, and  *)
(* the migrations from the recorded version to the program's own add the   *)
(* columns that an older program did not make.  Each statement commits on  *)
(* its own: the program may stop between any two, and another ghrouter (a  *)
(* CLI command that stores what it verified, an older or newer program)    *)
(* may open the same database meanwhile.                                   *)
(***************************************************************************)
EXTENDS Naturals, FiniteSets, Sequences

CONSTANTS
  Openers,        \* the processes that open the database
  Latest,         \* Latest[o]: latestSchemaVersion of the program of o
  Tables, Columns,
  Creates,        \* Creates[t]: the columns CREATE TABLE gives table t
  Ensures,        \* Ensures[v]: the columns migration v ensures
  OldDatabases,   \* the databases there may be: [tables, columns, recorded]
  NoColumn

Versions == DOMAIN Ensures

ASSUME SchemaAssumption ==
  /\ Ensures \in Seq(SUBSET Columns)
  /\ \A o \in Openers : Latest[o] \in Nat /\ 1..Latest[o] \subseteq Versions
  /\ \A t \in Tables : Creates[t] \subseteq Columns
  /\ NoColumn \notin Columns

(* What an earlier program leaves: it recorded what it had applied. *)
ASSUME OldDatabasesAssumption ==
  \A d \in OldDatabases :
    /\ d.tables \subseteq Tables /\ d.columns \subseteq Columns
    /\ d.recorded \subseteq Versions
    /\ \A v \in d.recorded : Ensures[v] \subseteq d.columns /\ 1..v \subseteq d.recorded

VARIABLES
  tables, columns,  \* of the database
  recorded,         \* the versions in schema_migrations
  opener            \* opener[o]: where o is, the migration it applies, the
                    \* columns it has still to ensure, the one it adds

schema == <<tables, columns, recorded, opener>>

Closed == [at |-> "closed", version |-> 0, left |-> {}, column |-> NoColumn]

SchemaTypeOK ==
  /\ tables \subseteq Tables /\ columns \subseteq Columns /\ recorded \subseteq Versions
  /\ opener \in [Openers ->
       [at : {"closed", "tables", "columns", "add", "open", "failed"},
        version : {0} \cup Versions, left : SUBSET Columns,
        column : Columns \cup {NoColumn}]]

SchemaInit ==
  /\ \E d \in OldDatabases : tables = d.tables /\ columns = d.columns /\ recorded = d.recorded
  /\ opener = [o \in Openers |-> Closed]
-----------------------------------------------------------------------------
(* Open: the connection and its pragmas. *)
Open(o) ==
  /\ opener[o].at = "closed"
  /\ opener' = [opener EXCEPT ![o].at = "tables"]
  /\ UNCHANGED <<tables, columns, recorded>>

(* One CREATE TABLE IF NOT EXISTS. *)
CreateTable(o, t) ==
  /\ opener[o].at = "tables" /\ t \notin tables
  /\ tables' = tables \cup {t}
  /\ columns' = columns \cup Creates[t]
  /\ UNCHANGED <<recorded, opener>>

SchemaVersion ==
  IF recorded = {} THEN 0 ELSE CHOOSE v \in recorded : \A w \in recorded : w <= v

(* The migration after version v, if there is one. *)
After(o, v) ==
  IF v < Latest[o]
    THEN [at |-> "columns", version |-> v + 1, left |-> Ensures[v + 1], column |-> NoColumn]
    ELSE [Closed EXCEPT !.at = "open"]

(* A newer database is not touched any more. *)
ReadVersion(o) ==
  /\ opener[o].at = "tables" /\ tables = Tables
  /\ opener' = [opener EXCEPT ![o] =
       IF SchemaVersion > Latest[o] THEN [Closed EXCEPT !.at = "failed"]
                                    ELSE After(o, SchemaVersion)]
  /\ UNCHANGED <<tables, columns, recorded>>

(* ensureColumn: table_info is read, and then ALTER TABLE is a statement   *)
(* of its own, which fails if the column is there by now.                  *)
EnsureColumn(o, c) ==
  /\ opener[o].at = "columns" /\ c \in opener[o].left
  /\ opener' = [opener EXCEPT ![o] =
       [at      |-> IF c \in columns THEN "columns" ELSE "add",
        version |-> @.version,
        left    |-> @.left \ {c},
        column  |-> IF c \in columns THEN NoColumn ELSE c]]
  /\ UNCHANGED <<tables, columns, recorded>>

AddColumn(o) ==
  /\ opener[o].at = "add"
  /\ columns' = columns \cup {opener[o].column}
  /\ opener' = [opener EXCEPT ![o] =
       IF @.column \in columns THEN [Closed EXCEPT !.at = "failed"]
                               ELSE [at |-> "columns", version |-> @.version,
                                     left |-> @.left, column |-> NoColumn]]
  /\ UNCHANGED <<tables, recorded>>

\* Mutant: the version is recorded before its columns are ensured.
RecordVersion_Early(o) ==
  /\ opener[o].at = "columns"
  /\ recorded' = recorded \cup {opener[o].version}
  /\ opener' = [opener EXCEPT ![o] =
       IF @.version \in recorded THEN [Closed EXCEPT !.at = "failed"] ELSE After(o, @.version)]
  /\ UNCHANGED <<tables, columns>>

(* The version is the primary key: one process records it. *)
RecordVersion(o) ==
  /\ opener[o].at = "columns" /\ opener[o].left = {}
  /\ recorded' = recorded \cup {opener[o].version}
  /\ opener' = [opener EXCEPT ![o] =
       IF @.version \in recorded THEN [Closed EXCEPT !.at = "failed"] ELSE After(o, @.version)]
  /\ UNCHANGED <<tables, columns>>

(* The process closes the database, or it stops. *)
CloseDatabase(o) ==
  /\ opener[o].at # "closed"
  /\ opener' = [opener EXCEPT ![o] = Closed]
  /\ UNCHANGED <<tables, columns, recorded>>

OpenStep(o) ==
  \/ Open(o) \/ ReadVersion(o) \/ AddColumn(o) \/ RecordVersion(o)
  \/ \E t \in Tables : CreateTable(o, t)
  \/ \E c \in Columns : EnsureColumn(o, c)

SchemaNext == \E o \in Openers : OpenStep(o) \/ CloseDatabase(o)

SchemaSpec == SchemaInit /\ [][SchemaNext]_schema
-----------------------------------------------------------------------------
(* docs/storage.md:73-75: a database is upgraded in place or rejected, but *)
(* never "opened with an incomplete schema".  Whoever stops in the middle  *)
(* of a migration and whoever migrates at the same time, an open database  *)
(* has all the tables and columns that the program's statements name.      *)
SchemaComplete ==
  \A o \in Openers : opener[o].at = "open" =>
    tables = Tables /\ \A v \in 1..Latest[o] : Ensures[v] \subseteq columns

(* docs/storage.md:73: "Existing legacy databases are upgraded in place".  *)
(* Two processes that migrate one database at a time get in each other's   *)
(* way: the second to add a column or to record a version fails, and a     *)
(* server then runs without its store.                                     *)
LegacyUpgraded ==
  \A o \in Openers : opener[o].at = "failed" => \E v \in recorded : v > Latest[o]
=============================================================================
