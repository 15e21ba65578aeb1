-------------------------- MODULE SchemaMigrations --------------------------
(***************************************************************************)
(* A database under its migrations (apps/api/migrations/env.py): commands  *)
(* that take the schema to another revision, each the whole of it in one   *)
(* transaction, while rows arrive and other commands run.  PostgreSQL      *)
(* locks what a command touches and the version row decides: the second of *)
(* two commands that started from one revision fails and is rolled back.   *)
(***************************************************************************)
EXTENDS MigrationSteps, DomainTables, SequencesExt

CONSTANTS Migrators,     \* processes that run alembic
          Targets,       \* revisions they ask for; 0 is before the first
          Watched        \* tables whose having rows matters to a later step

ASSUME MigrationBounds == Targets \subseteq 0..LastRevision

VARIABLES schema,        \* the tables, by name
          revision,      \* alembic_version: how many of the chain are applied
          filled,        \* watched tables that hold rows
          command,       \* per migrator: the command under way
          broken         \* a command failed for another reason than a rival

migrationVars == <<schema, revision, filled, command, broken>>

-----------------------------------------------------------------------------
Resting == [busy |-> FALSE, from |-> 0, to |-> 0]
Database == [schema |-> schema, filled |-> filled, ok |-> TRUE]

(* What the database does with one statement of a migration. *)
Possible(step, db) ==
  LET here == step.name \in DOMAIN db.schema IN
  CASE step.op = "create" ->
         /\ ~here
         /\ Parents(step.table) \subseteq DOMAIN db.schema \cup {step.name}
         /\ \A index \in step.table.indexes : ToSet(index[2]) \subseteq Columns(step.table)
         /\ \A key \in step.table.unique : ToSet(key) \subseteq Columns(step.table)
         /\ \A ref \in step.table.refs : ref[1] \in Columns(step.table)
    [] step.op = "drop" ->
         /\ here
         /\ step.indexes \subseteq IndexNames(db.schema[step.name])
         /\ \A name \in DOMAIN db.schema \ {step.name} :
              step.name \notin Parents(db.schema[name])
    [] step.op = "add column" ->
         here /\ step.column \notin Columns(db.schema[step.name])
              /\ (step.null \/ step.name \notin db.filled)
    [] step.op = "drop column" -> here /\ step.column \in Columns(db.schema[step.name])

Schema(step, tables) ==
  CASE step.op = "create"      -> [n \in DOMAIN tables \cup {step.name} |->
                                     IF n = step.name THEN step.table ELSE tables[n]]
    [] step.op = "drop"        -> [n \in DOMAIN tables \ {step.name} |-> tables[n]]
    [] step.op = "add column"  -> IF step.null
                                  THEN [tables EXCEPT ![step.name].optional = @ \cup {step.column}]
                                  ELSE [tables EXCEPT ![step.name].needed = @ \cup {step.column}]
    [] step.op = "drop column" -> [tables EXCEPT ![step.name].optional = @ \ {step.column},
                                                 ![step.name].needed = @ \ {step.column}]

\* Once a statement has failed the rest of its transaction does nothing.
Execute(step, db) ==
  IF db.ok /\ Possible(step, db)
  THEN [db EXCEPT !.schema = Schema(step, @), !.filled = IF step.op = "drop" THEN @ \ {step.name} ELSE @]
  ELSE [db EXCEPT !.ok = FALSE]

\* The statements between two revisions: upgrades in order, downgrades in reverse.
Statements(from, to) ==
  IF from <= to THEN FlattenSeq([i \in 1..(to - from) |-> Chain[from + i].up])
  ELSE FlattenSeq([i \in 1..(from - to) |-> Chain[from + 1 - i].down])

After(from, to) == FoldLeft(LAMBDA db, step : Execute(step, db), Database, Statements(from, to))

-----------------------------------------------------------------------------
MigrationInit ==
  /\ schema = << >>
  /\ revision = 0
  /\ filled = {}
  /\ command = [m \in Migrators |-> Resting]
  /\ broken = FALSE

\* alembic upgrade or downgrade: the version row says where to start.
BeginMigration(m) ==
  \E target \in Targets :
    /\ ~command[m].busy /\ target # revision
    /\ command' = [command EXCEPT ![m] = [busy |-> TRUE, from |-> revision, to |-> target]]
    /\ UNCHANGED <<schema, revision, filled, broken>>

\* context.run_migrations inside begin_transaction: all of it, or nothing.
CommitMigration(m) ==
  LET done == After(command[m].from, command[m].to) IN
    /\ command[m].busy /\ revision = command[m].from
    /\ command' = [command EXCEPT ![m] = Resting]
    /\ IF done.ok
       THEN schema' = done.schema /\ filled' = done.filled /\ revision' = command[m].to
                                  /\ broken' = broken
       ELSE broken' = TRUE /\ UNCHANGED <<schema, filled, revision>>

\* A rival moved the version row first, or the process stops: all is rolled back.
AbortMigration(m) ==
  /\ command[m].busy
  /\ command' = [command EXCEPT ![m] = Resting]
  /\ UNCHANGED <<schema, revision, filled, broken>>

\* The application writes its first row of a table.
FillTable(name) ==
  /\ name \in DOMAIN schema \ filled
  /\ filled' = filled \cup {name}
  /\ UNCHANGED <<schema, revision, command, broken>>

MigrationNext ==
  \/ \E m \in Migrators : BeginMigration(m) \/ CommitMigration(m) \/ AbortMigration(m)
  \/ \E name \in Watched : FillTable(name)

MigrationSpec == MigrationInit /\ [][MigrationNext]_migrationVars

-----------------------------------------------------------------------------
MigrationTypeOK ==
  /\ revision \in 0..LastRevision
  /\ DOMAIN schema \subseteq DOMAIN Declared
  /\ filled \subseteq Watched \cap DOMAIN schema
  /\ broken \in BOOLEAN

\* The table takes every row the model writes, holds it to every rule the model
\* states, and never shows the application a null it does not expect.
Serves(table, model) ==
  /\ Columns(table) = Columns(model)
  /\ table.optional = model.optional
  /\ model.defaulted \subseteq table.defaulted
  /\ table.refs = model.refs /\ table.unique = model.unique
  /\ table.checks = model.checks /\ table.indexes = model.indexes

(***************************************************************************)
(* HeadServesModels: no sequence of upgrades and downgrades, stopped,      *)
(* raced or run over tables with rows, comes to a migration that fails;    *)
(* and at the last revision the tables are those the models declare,       *)
(* check constraints included, which alembic's own comparison leaves out.  *)
(***************************************************************************)
HeadServesModels ==
  /\ ~broken
  /\ revision = LastRevision =>
       /\ DOMAIN schema = DOMAIN Declared
       /\ \A name \in DOMAIN schema : Serves(schema[name], Declared[name])

\* What code written for one table may rely on, the other still gives it: the
\* rows it writes are admitted and what it reads is there.
StillServes(table, before) ==
  /\ Columns(before) \subseteq Columns(table)
  /\ table.needed \subseteq before.needed
  /\ before.optional \subseteq table.optional
  /\ table.optional \cap Columns(before) \subseteq before.optional
  /\ table.checks \subseteq before.checks /\ table.unique \subseteq before.unique
  /\ {ref \in table.refs : ref[1] \in Columns(before)} \subseteq before.refs

(***************************************************************************)
(* UpgradesOnlyAdd: the schema is applied before the services move, so the *)
(* release that is running meets the newer tables; an upgrade, however     *)
(* many revisions at once, removes and narrows nothing it uses.            *)
(***************************************************************************)
UpgradesOnlyAdd ==
  [][revision' > revision =>
       \A name \in DOMAIN schema :
         name \in DOMAIN schema' /\ StillServes(schema'[name], schema[name])]_migrationVars
=============================================================================
