------------------------------- MODULE Schema -------------------------------
(***************************************************************************)
(* Who creates the table evaluation_jobs.  Two mechanisms share one        *)
(* database: a process whose APP_AUTO_CREATE_SCHEMA is true runs           *)
(* Base.metadata.create_all when it starts, and operators run Alembic,     *)
(* whose two revisions must work on a table that create_all made.          *)
(*                                                                         *)
(* create_all and each alembic command are one transaction of PostgreSQL   *)
(* (DDL included), but both look at the catalogue before they change it.   *)
(* A look is therefore one step and the statements up to COMMIT another;   *)
(* two transactions that create or drop the same object wait for each      *)
(* other on its locks, so the statements take effect at COMMIT or the      *)
(* first one that finds the object changed raises and rolls back.          *)
(***************************************************************************)
EXTENDS Naturals, FiniteSets

CONSTANTS
    Migrators,    \* operators running `alembic upgrade head` or `downgrade -1`
    Processes,    \* service processes: API or worker
    AutoCreate,   \* the processes started with auto_create_schema
    NoTable       \* evaluation_jobs does not exist

ASSUME SchemaAssumption ==
    /\ AutoCreate \subseteq Processes
    /\ Migrators \cap Processes = {}

VARIABLES
    table,       \* NoTable or the columns and indexes of evaluation_jobs
    versions,    \* the rows of alembic_version
    databaseUp,  \* PostgreSQL answers
    at,          \* what each migrator and process is doing
    heads,       \* versions as a migrator read them
    found,       \* table as a migrator inspected it
    overtaken,   \* history: others committed since this one's first look
    undercut     \* history: 0002 was taken back under an upgrade that had
                 \* already inspected the table

vars == <<table, versions, databaseUp, at, heads, found, overtaken, undercut>>

-----------------------------------------------------------------------------
(* The columns of revision 0001 are one element. *)

Attempt == {"attempt_count", "max_attempts", "claimed_at"}
Columns == {"original"} \union Attempt
ModelIndexes == {"ix_project_id", "ix_status", "ix_tenant_id"}
Indexes == ModelIndexes \union {"ix_claimed_at"}

Tables == [columns : SUBSET Columns, indexes : SUBSET Indexes]

ASSUME NoTableAssumption == NoTable \notin Tables

(* The table of create_all: index=True is on three columns of             *)
(* EvaluationJobRow, and claimed_at is not one of them.                    *)
ModelTable == [columns |-> Columns, indexes |-> ModelIndexes]

(* Mutants: 0001 without its has_table check; 0002 that takes a table with *)
(* attempt_count to be complete.                                           *)
Upgrade0001Unchecked(seen) ==
    [create |-> TRUE, columns |-> {"original"}, indexes |-> ModelIndexes]

Upgrade0002AllOrNothing(seen) ==
    IF "attempt_count" \in seen.columns
      THEN [create |-> FALSE, columns |-> {}, indexes |-> {}]
      ELSE [create |-> FALSE, columns |-> Attempt, indexes |-> {"ix_claimed_at"}]

(* What the statements of a revision create, given what it found. *)
Upgrade0001(seen) ==
    IF seen = NoTable
      THEN [create |-> TRUE, columns |-> {"original"}, indexes |-> ModelIndexes]
      ELSE [create |-> FALSE, columns |-> {},
            indexes |-> ModelIndexes \ seen.indexes]

Upgrade0002(seen) ==
    [create |-> FALSE, columns |-> Attempt \ seen.columns,
     indexes |-> {"ix_claimed_at"} \ seen.indexes]

(* PostgreSQL raises on an object that exists already, on a table that     *)
(* does not exist and on an index over a missing column.                   *)
Runs(ddl, t) ==
    IF ddl.create
      THEN t = NoTable
      ELSE /\ t # NoTable
           /\ ddl.columns \cap t.columns = {}
           /\ ddl.indexes \cap t.indexes = {}
           /\ "ix_claimed_at" \in ddl.indexes =>
                "claimed_at" \in ddl.columns \union t.columns

After(ddl, t) ==
    IF ddl.create
      THEN [columns |-> ddl.columns, indexes |-> ddl.indexes]
      ELSE [columns |-> t.columns \union ddl.columns,
            indexes |-> t.indexes \union ddl.indexes]

-----------------------------------------------------------------------------
Actors == Migrators \union Processes

TypeOK ==
    /\ table \in Tables \union {NoTable}
    /\ versions \in SUBSET {"0001", "0002"}
    /\ databaseUp \in BOOLEAN
    /\ at \in [Actors -> {"idle", "begun", "inspected", "downgrading", "up"}]
    /\ heads \in [Migrators -> SUBSET {"0001", "0002"}]
    /\ found \in [Migrators -> Tables \union {NoTable}]
    /\ overtaken \in [Actors -> BOOLEAN]
    /\ undercut \in BOOLEAN

Init ==
    /\ table = NoTable
    /\ versions = {}
    /\ databaseUp = TRUE
    /\ at = [a \in Actors |-> "idle"]
    /\ heads = [m \in Migrators |-> {}]
    /\ found = [m \in Migrators |-> NoTable]
    /\ overtaken = [a \in Actors |-> FALSE]
    /\ undercut = FALSE

Goes(a, place) == at' = [at EXCEPT ![a] = place]
FirstLook(a) == overtaken' = [overtaken EXCEPT ![a] = FALSE]
Committed(a) == overtaken' = [b \in Actors |-> b # a \/ overtaken[a]]

-----------------------------------------------------------------------------
(* Alembic: the versions are read inside the transaction of                *)
(* do_run_migrations, which takes no lock: any number of commands, up and  *)
(* down, may be open at once.  upgrade head has nothing to do at 0002,     *)
(* downgrade -1 nothing at base.                                           *)
ReadVersion(m) ==
    /\ databaseUp
    /\ at[m] = "idle"
    /\ heads' = [heads EXCEPT ![m] = versions]
    /\ \/ "0002" \notin versions /\ Goes(m, "begun")
       \/ versions # {} /\ Goes(m, "downgrading")
    /\ FirstLook(m)
    /\ UNCHANGED <<table, versions, databaseUp, found, undercut>>

(* The inspector of the first revision to run; the second inspects a table *)
(* its own transaction holds locks on.                                     *)
Inspect(m) ==
    /\ databaseUp
    /\ at[m] = "begun"
    /\ found' = [found EXCEPT ![m] = table]
    /\ Goes(m, "inspected")
    /\ UNCHANGED <<table, versions, databaseUp, heads, overtaken, undercut>>

(* Alembic inserts 0001 at base and then updates it to 0002: the primary   *)
(* key and the count of updated rows tell it that it was overtaken.        *)
CanUpgrade(m) ==
    /\ "0002" \notin versions
    /\ IF heads[m] = {}
         THEN "0001" \notin versions /\ Runs(Upgrade0001(found[m]), table)
         ELSE /\ "0001" \in versions
              /\ found[m] # NoTable     \* get_columns raises
              /\ Runs(Upgrade0002(found[m]), table)

Upgrade(m) ==
    /\ databaseUp
    /\ at[m] = "inspected"
    /\ CanUpgrade(m)
    /\ LET first == After(Upgrade0001(found[m]), table)
       IN  table' = IF heads[m] = {} THEN After(Upgrade0002(first), first)
                                     ELSE After(Upgrade0002(found[m]), table)
    /\ versions' = {"0002"}
    /\ Goes(m, "idle")
    /\ Committed(m)
    /\ UNCHANGED <<databaseUp, heads, found, undercut>>

CanDowngrade(m) ==
    /\ heads[m] \subseteq versions
    /\ table # NoTable
    /\ IF heads[m] = {"0002"}
         THEN /\ "0001" \notin versions
              /\ "ix_claimed_at" \in table.indexes
              /\ Attempt \subseteq table.columns
         ELSE ModelIndexes \subseteq table.indexes

Downgrade(m) ==
    /\ databaseUp
    /\ at[m] = "downgrading"
    /\ CanDowngrade(m)
    /\ IF heads[m] = {"0002"}
         THEN /\ table' = [columns |-> table.columns \ Attempt,
                           indexes |-> table.indexes \ {"ix_claimed_at"}]
              /\ versions' = {"0001"}
              /\ undercut' = (undercut \/ \E n \in Migrators : at[n] = "inspected")
         ELSE table' = NoTable /\ versions' = {} /\ UNCHANGED undercut
    /\ Goes(m, "idle")
    /\ Committed(m)
    /\ UNCHANGED <<databaseUp, heads, found>>

(* A statement raises and the transaction rolls back. *)
MigrationFails(m) ==
    /\ databaseUp
    /\ \/ at[m] = "inspected" /\ ~CanUpgrade(m)
       \/ at[m] = "downgrading" /\ ~CanDowngrade(m)
    /\ Goes(m, "idle")
    /\ UNCHANGED <<table, versions, databaseUp, heads, found, overtaken, undercut>>

-----------------------------------------------------------------------------
(* build_repository: with auto_create_schema it waits for init_schema,     *)
(* whose create_all looks for the table and skips one that exists, however *)
(* old; without, it does not talk to the database.                         *)
BuildRepository(p) ==
    /\ at[p] = "idle"
    /\ \/ p \notin AutoCreate /\ Goes(p, "up")
       \/ /\ p \in AutoCreate
          /\ databaseUp
          /\ Goes(p, IF table = NoTable THEN "begun" ELSE "up")
    /\ FirstLook(p)
    /\ UNCHANGED <<table, versions, databaseUp, heads, found, undercut>>

CreateAll(p) ==
    /\ databaseUp
    /\ at[p] = "begun"
    /\ table = NoTable
    /\ table' = ModelTable
    /\ Goes(p, "up")
    /\ Committed(p)
    /\ UNCHANGED <<versions, databaseUp, heads, found, undercut>>

(* CREATE TABLE raises and takes the lifespan, so the process, with it. *)
StartupFails(p) ==
    /\ databaseUp
    /\ at[p] = "begun"
    /\ table # NoTable
    /\ Goes(p, "idle")
    /\ UNCHANGED <<table, versions, databaseUp, heads, found, overtaken, undercut>>

Stop(p) ==
    /\ at[p] = "up"
    /\ Goes(p, "idle")
    /\ UNCHANGED <<table, versions, databaseUp, heads, found, overtaken, undercut>>

(* PostgreSQL goes away and takes every open transaction with it. *)
DatabaseDown ==
    /\ databaseUp
    /\ databaseUp' = FALSE
    /\ at' = [a \in Actors |-> IF at[a] = "up" THEN "up" ELSE "idle"]
    /\ UNCHANGED <<table, versions, heads, found, overtaken, undercut>>

DatabaseBack ==
    /\ ~databaseUp
    /\ databaseUp' = TRUE
    /\ UNCHANGED <<table, versions, at, heads, found, overtaken, undercut>>

Next ==
    \/ \E m \in Migrators : \/ ReadVersion(m) \/ Inspect(m) \/ Upgrade(m)
                            \/ Downgrade(m) \/ MigrationFails(m)
    \/ \E p \in Processes : \/ BuildRepository(p) \/ CreateAll(p)
                            \/ StartupFails(p) \/ Stop(p)
    \/ DatabaseDown
    \/ DatabaseBack

Spec == Init /\ [][Next]_vars

-----------------------------------------------------------------------------
(* alembic_version never has two rows, and whatever create_all, other      *)
(* upgrades and downgrades and aborted transactions did to the table, a    *)
(* stored version stands for a table with the columns and indexes of 0001. *)
(* At 0002 the table is complete, so that workers find claimed_at, unless  *)
(* 0002 was once taken back between an upgrade's inspection and its        *)
(* statements: that upgrade adds only what it had not found, and stores    *)
(* 0002 on a table without the columns.                                    *)
VersionDescribesSchema ==
    /\ Cardinality(versions) <= 1
    /\ versions # {} =>
         /\ table # NoTable
         /\ "original" \in table.columns
         /\ ModelIndexes \subseteq table.indexes
    /\ versions = {"0002"} /\ ~undercut =>
         table = [columns |-> Columns, indexes |-> Indexes]

(* The revisions are safe to run on whatever is there: an alembic command  *)
(* or a starting process fails on a statement only when somebody else's    *)
(* transaction committed after its first look, never because create_all    *)
(* had already made the table or a revision had been there before.  The    *)
(* exception is a downgrade after an upgrade was undercut: it drops        *)
(* columns without looking and finds none.                                 *)
FailsOnlyWhenOvertaken ==
    [][/\ \A m \in Migrators : MigrationFails(m) =>
            overtaken[m] \/ (undercut /\ at[m] = "downgrading")
       /\ \A p \in Processes : StartupFails(p) => overtaken[p]]_vars

(* /health/ready of a process: health_check is SELECT 1. *)
HealthCheck == databaseUp
Ready(p) == at[p] = "up" /\ HealthCheck

(* What the runbook promises of /health/ready: a process that answers      *)
(* ready has its repository dependency healthy, so the table its queries   *)
(* name is there with all their columns.                                   *)
ReadyMeansUsable ==
    \A p \in Processes : Ready(p) => /\ table # NoTable
                                     /\ table.columns = Columns
=============================================================================
