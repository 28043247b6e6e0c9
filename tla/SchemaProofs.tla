---------------------------- MODULE SchemaProofs ----------------------------
(***************************************************************************)
(* Proofs about the schema, for any number of migrators and processes.     *)
(***************************************************************************)
EXTENDS Schema, FiniteSetTheorems, TLAPS

FullTable == [columns |-> Columns, indexes |-> Indexes]

(***************************************************************************)
(* The inductive invariant.                                                *)
(*                                                                         *)
(* A revision adds what it did not find, to the table as it is when it     *)
(* runs.  The result is complete because of two facts: every table there   *)
(* ever is has what create_all and 0001 both make, and what a migrator     *)
(* found of the columns of 0002 is still there as long as 0001 is the      *)
(* version.  The first holds always.  The second holds until a downgrade   *)
(* of 0002, the only step that drops them, commits under an upgrade that   *)
(* has inspected the table: that is what undercut records.                 *)
(***************************************************************************)
VersionValues == {{}, {"0001"}, {"0002"}}

\* What create_all and revision 0001 both make.
HasOriginal(t) == "original" \in t.columns /\ ModelIndexes \subseteq t.indexes

TableOK ==
    /\ versions \in VersionValues
    /\ table # NoTable => HasOriginal(table)
    /\ versions # {} => table # NoTable
    /\ versions = {"0002"} /\ ~undercut => table = FullTable

\* An alembic command is open.
Open(m) == at[m] \in {"begun", "inspected", "downgrading"}

\* What a migrator found of revision 0002 is still there.
FoundRemains ==
    ~undercut => \A m \in Migrators :
        at[m] = "inspected" /\ versions = {"0001"} /\ found[m] # NoTable =>
            /\ found[m].columns \cap Attempt \subseteq table.columns
            /\ found[m].indexes \subseteq table.indexes

\* What a command that nobody has overtaken has read is how things are.
LooksAreFresh ==
    /\ \A m \in Migrators :
         /\ at[m] \in {"begun", "inspected"} => "0002" \notin heads[m]
         /\ at[m] = "downgrading" => heads[m] # {}
         /\ ~overtaken[m] =>
              /\ Open(m) => versions = heads[m]
              /\ at[m] = "inspected" => table = found[m]
    /\ \A p \in Processes :
         at[p] = "begun" /\ ~overtaken[p] => table = NoTable

Inv ==
    /\ TypeOK
    /\ TableOK
    /\ FoundRemains
    /\ LooksAreFresh
-----------------------------------------------------------------------------
(***************************************************************************)
(* What the revisions do to a table.                                       *)
(***************************************************************************)
\* The tables that the code names are tables.
LEMMA TableTypes == FullTable \in Tables /\ ModelTable \in Tables
  BY DEF Tables, FullTable, ModelTable, Indexes

\* Both revisions, run on whatever 0001 found or a table made since, end with
\* the complete table.
LEMMA UpgradeFromBase ==
    ASSUME NEW f \in Tables \union {NoTable}, NEW t \in Tables \union {NoTable},
           t # NoTable => HasOriginal(t), Runs(Upgrade0001(f), t),
           NEW u, u = After(Upgrade0001(f), t)
    PROVE  After(Upgrade0002(u), u) = FullTable
<1>1. /\ u.columns \subseteq Columns /\ "original" \in u.columns
      /\ u.indexes \subseteq Indexes /\ ModelIndexes \subseteq u.indexes
  <2>1. CASE f = NoTable
    BY <2>1 DEF Upgrade0001, After, Columns, Indexes
  <2>2. CASE f # NoTable
    <3>1. t \in Tables /\ HasOriginal(t)
      BY <2>2 DEF Runs, Upgrade0001
    <3>2. u = [columns |-> t.columns \union {},
               indexes |-> t.indexes \union (ModelIndexes \ f.indexes)]
      BY <2>2 DEF After, Upgrade0001
    <3> QED BY <3>1, <3>2 DEF HasOriginal, Tables, Indexes
  <2> QED BY <2>1, <2>2
<1>2. After(Upgrade0002(u), u) =
        [columns |-> u.columns \union (Attempt \ u.columns),
         indexes |-> u.indexes \union ({"ix_claimed_at"} \ u.indexes)]
  BY DEF After, Upgrade0002
<1>3. u.columns \union (Attempt \ u.columns) = Columns
  BY <1>1 DEF Columns
<1>4. u.indexes \union ({"ix_claimed_at"} \ u.indexes) = Indexes
  BY <1>1 DEF Indexes
<1> QED BY <1>2, <1>3, <1>4 DEF FullTable

\* Revision 0002 completes a table that still has what it found.
LEMMA UpgradeFrom0001 ==
    ASSUME NEW f \in Tables, NEW t \in Tables, HasOriginal(t),
           f.columns \cap Attempt \subseteq t.columns, f.indexes \subseteq t.indexes
    PROVE  After(Upgrade0002(f), t) = FullTable
<1>1. After(Upgrade0002(f), t) =
        [columns |-> t.columns \union (Attempt \ f.columns),
         indexes |-> t.indexes \union ({"ix_claimed_at"} \ f.indexes)]
  BY DEF After, Upgrade0002
<1>2. t.columns \subseteq Columns /\ t.indexes \subseteq Indexes
  BY DEF Tables
<1>3. t.columns \union (Attempt \ f.columns) = Columns
  BY <1>2 DEF Columns, HasOriginal
<1>4. t.indexes \union ({"ix_claimed_at"} \ f.indexes) = Indexes
  BY <1>2 DEF Indexes, HasOriginal
<1> QED BY <1>1, <1>3, <1>4 DEF FullTable

\* The statements of a revision run on the very table that it found.
LEMMA RevisionsFit ==
    ASSUME NEW t \in Tables \union {NoTable}
    PROVE  /\ Runs(Upgrade0001(t), t)
           /\ t # NoTable => Runs(Upgrade0002(t), t)
<1>1. Runs(Upgrade0001(t), t)
  <2>1. CASE t = NoTable
    BY <2>1 DEF Runs, Upgrade0001
  <2>2. CASE t # NoTable
    <3>1. Upgrade0001(t) = [create |-> FALSE, columns |-> {},
                            indexes |-> ModelIndexes \ t.indexes]
      BY <2>2 DEF Upgrade0001
    <3>2. "ix_claimed_at" \notin ModelIndexes
      BY DEF ModelIndexes
    <3> QED BY <2>2, <3>1, <3>2 DEF Runs
  <2> QED BY <2>1, <2>2
<1>2. ASSUME t # NoTable
      PROVE  Runs(Upgrade0002(t), t)
  <2>1. "claimed_at" \in Attempt
    BY DEF Attempt
  <2> QED BY <1>2, <2>1 DEF Runs, Upgrade0002
<1> QED BY <1>1, <1>2

\* What 0002 adds to and takes from a table leaves it what 0001 made.
LEMMA OriginalStays ==
    ASSUME NEW f \in Tables, NEW t \in Tables, HasOriginal(t)
    PROVE  LET d == [columns |-> t.columns \ Attempt,
                     indexes |-> t.indexes \ {"ix_claimed_at"}]
               u == After(Upgrade0002(f), t)
           IN  /\ d \in Tables /\ HasOriginal(d)
               /\ u \in Tables /\ HasOriginal(u)
<1>1. After(Upgrade0002(f), t) =
        [columns |-> t.columns \union (Attempt \ f.columns),
         indexes |-> t.indexes \union ({"ix_claimed_at"} \ f.indexes)]
  BY DEF After, Upgrade0002
<1>2. "original" \notin Attempt /\ "ix_claimed_at" \notin ModelIndexes
  BY DEF Attempt, ModelIndexes
<1>3. Attempt \subseteq Columns /\ "ix_claimed_at" \in Indexes
  BY DEF Columns, Indexes
<1> QED BY <1>1, <1>2, <1>3 DEF Tables, HasOriginal
-----------------------------------------------------------------------------
(***************************************************************************)
(* What the steps that write the schema leave behind.                      *)
(***************************************************************************)
\* An upgrade ends with the complete table, unless it may have been undercut.
LEMMA UpgradeCompletes ==
    ASSUME Inv, NEW m \in Migrators, Upgrade(m)
    PROVE  /\ versions' = {"0002"}
           /\ table' \in Tables /\ HasOriginal(table')
           /\ ~undercut => table' = FullTable
<1>0. /\ table \in Tables \union {NoTable} /\ found[m] \in Tables \union {NoTable}
      /\ table # NoTable => HasOriginal(table)
      /\ versions \in VersionValues
  BY DEF Inv, TypeOK, TableOK
<1>1. at[m] = "inspected" /\ CanUpgrade(m) /\ versions' = {"0002"}
  BY DEF Upgrade
<1>2. CASE heads[m] = {}
  <2>1. Runs(Upgrade0001(found[m]), table)
    BY <1>1, <1>2 DEF CanUpgrade
  <2> DEFINE first == After(Upgrade0001(found[m]), table)
  <2>2. After(Upgrade0002(first), first) = FullTable
    BY <1>0, <2>1, UpgradeFromBase
  <2>3. table' = FullTable
    BY <1>1, <1>2, <2>2 DEF Upgrade
  <2>4. HasOriginal(FullTable)
    BY DEF HasOriginal, FullTable, Columns, Indexes
  <2> QED BY <1>1, <2>3, <2>4, TableTypes DEF HasOriginal
<1>3. CASE heads[m] # {}
  <2>1. found[m] # NoTable /\ versions = {"0001"} /\ table # NoTable
    BY <1>0, <1>1, <1>3 DEF CanUpgrade, VersionValues, Runs, Upgrade0002
  <2>2. table' = After(Upgrade0002(found[m]), table)
    BY <1>1, <1>3 DEF Upgrade
  <2>3. table' \in Tables /\ HasOriginal(table')
    BY <1>0, <2>1, <2>2, OriginalStays DEF HasOriginal
  <2>4. ASSUME ~undercut
        PROVE  table' = FullTable
    <3>1. found[m].columns \cap Attempt \subseteq table.columns
          /\ found[m].indexes \subseteq table.indexes
      BY <1>1, <2>1, <2>4 DEF Inv, FoundRemains
    <3> QED BY <1>0, <2>1, <2>2, <3>1, UpgradeFrom0001
  <2> QED BY <1>1, <2>3, <2>4
<1> QED BY <1>2, <1>3

\* A downgrade ends with the table of 0001 or with none.
LEMMA DowngradeLeaves ==
    ASSUME Inv, NEW m \in Migrators, Downgrade(m)
    PROVE  \/ /\ versions' = {"0001"}
              /\ table' \in Tables /\ HasOriginal(table')
              /\ ~undercut' => \A n \in Migrators : at[n] # "inspected"
           \/ versions' = {} /\ table' = NoTable
<1>0. /\ table \in Tables \union {NoTable}
      /\ table # NoTable => HasOriginal(table)
  BY DEF Inv, TypeOK, TableOK
<1>1. CASE heads[m] = {"0002"}
  <2>1. table # NoTable
    BY DEF Downgrade, CanDowngrade
  <2>2. /\ table' = [columns |-> table.columns \ Attempt,
                     indexes |-> table.indexes \ {"ix_claimed_at"}]
        /\ versions' = {"0001"}
        /\ ~undercut' => \A n \in Migrators : at[n] # "inspected"
    BY <1>1 DEF Downgrade
  <2> QED BY <1>0, <2>1, <2>2, OriginalStays DEF HasOriginal
<1>2. CASE heads[m] # {"0002"}
  BY <1>2 DEF Downgrade
<1> QED BY <1>1, <1>2

\* Every step keeps the types.
LEMMA TypeStep ==
    ASSUME Inv, [Next]_vars
    PROVE  TypeOK'
<1>0. TypeOK
  BY DEF Inv
<1>1. ASSUME NEW a \in Actors, NEW place \in {"idle", "begun", "inspected", "downgrading", "up"}
      PROVE  /\ Goes(a, place) => at' \in [Actors -> {"idle", "begun", "inspected",
                                                      "downgrading", "up"}]
             /\ FirstLook(a) => overtaken' \in [Actors -> BOOLEAN]
             /\ Committed(a) => overtaken' \in [Actors -> BOOLEAN]
  BY <1>0 DEF TypeOK, Goes, FirstLook, Committed
<1>2. ASSUME NEW m \in Migrators
      PROVE  /\ ReadVersion(m) => TypeOK'
             /\ Inspect(m) => TypeOK'
             /\ Upgrade(m) => TypeOK'
             /\ Downgrade(m) => TypeOK'
             /\ MigrationFails(m) => TypeOK'
  <2>0. m \in Actors
    BY DEF Actors
  <2>1. ReadVersion(m) => TypeOK'
    BY <1>0, <1>1, <2>0 DEF TypeOK, ReadVersion
  <2>2. Inspect(m) => TypeOK'
    BY <1>0, <1>1, <2>0 DEF TypeOK, Inspect
  <2>3. Upgrade(m) => TypeOK'
    BY <1>0, <1>1, <2>0, UpgradeCompletes, TableTypes DEF TypeOK, Upgrade
  <2>4. Downgrade(m) => TypeOK'
    BY <1>0, <1>1, <2>0, DowngradeLeaves DEF TypeOK, Downgrade
  <2>5. MigrationFails(m) => TypeOK'
    BY <1>0, <1>1, <2>0 DEF TypeOK, MigrationFails
  <2> QED BY <2>1, <2>2, <2>3, <2>4, <2>5
<1>3. ASSUME NEW p \in Processes
      PROVE  /\ BuildRepository(p) => TypeOK'
             /\ CreateAll(p) => TypeOK'
             /\ StartupFails(p) => TypeOK'
             /\ Stop(p) => TypeOK'
  <2>0. p \in Actors
    BY DEF Actors
  <2>1. BuildRepository(p) => TypeOK'
    BY <1>0, <1>1, <2>0 DEF TypeOK, BuildRepository
  <2>2. CreateAll(p) => TypeOK'
    BY <1>0, <1>1, <2>0, TableTypes DEF TypeOK, CreateAll
  <2>3. StartupFails(p) => TypeOK'
    BY <1>0, <1>1, <2>0 DEF TypeOK, StartupFails
  <2>4. Stop(p) => TypeOK'
    BY <1>0, <1>1, <2>0 DEF TypeOK, Stop
  <2> QED BY <2>1, <2>2, <2>3, <2>4
<1>4. CASE DatabaseDown \/ DatabaseBack \/ UNCHANGED vars
  BY <1>0, <1>4 DEF TypeOK, DatabaseDown, DatabaseBack, vars
<1> QED BY <1>2, <1>3, <1>4 DEF Next

(***************************************************************************)
(* The invariant's parts are kept: one lemma for the steps of a migrator,  *)
(* one for those of a process.                                             *)
(***************************************************************************)
Consistent == TableOK /\ FoundRemains /\ LooksAreFresh

\* Moving an actor, and the history of who has been overtaken.
LEMMA ActorMoves ==
    ASSUME TypeOK, NEW a \in Actors, NEW place
    PROVE  /\ Goes(a, place) => /\ at'[a] = place
                                /\ \A b \in Actors \ {a} : at'[b] = at[b]
           /\ FirstLook(a) => \A b \in Actors \ {a} : overtaken'[b] = overtaken[b]
           /\ Committed(a) => \A b \in Actors \ {a} : overtaken'[b]
  BY DEF TypeOK, Goes, FirstLook, Committed

\* A migrator's steps.
LEMMA MigratorStep ==
    ASSUME Inv, NEW m \in Migrators,
           ReadVersion(m) \/ Inspect(m) \/ Upgrade(m) \/ Downgrade(m) \/ MigrationFails(m)
    PROVE  Consistent'
<1>0. /\ TypeOK /\ TableOK /\ FoundRemains /\ LooksAreFresh
      /\ m \in Actors /\ Migrators \subseteq Actors /\ Processes \subseteq Actors
      /\ m \notin Processes
  BY SchemaAssumption DEF Inv, Actors
<1>1. CASE ReadVersion(m)
  <2>0. /\ table' = table /\ versions' = versions /\ found' = found
        /\ heads'[m] = versions /\ \A n \in Migrators \ {m} : heads'[n] = heads[n]
        /\ at[m] = "idle"
        /\ undercut' = undercut
        /\ \/ at'[m] = "begun" /\ "0002" \notin versions
           \/ at'[m] = "downgrading" /\ versions # {}
        /\ \A b \in Actors \ {m} : at'[b] = at[b] /\ overtaken'[b] = overtaken[b]
    BY <1>0, <1>1, ActorMoves DEF ReadVersion, TypeOK
  <2>1. TableOK'
    BY <1>0, <2>0 DEF TableOK, HasOriginal
  <2>2. FoundRemains'
    BY <1>0, <2>0 DEF FoundRemains
  <2>3. LooksAreFresh'
    BY <1>0, <2>0 DEF LooksAreFresh, Open
  <2> QED BY <2>1, <2>2, <2>3 DEF Consistent
<1>2. CASE Inspect(m)
  <2>0. /\ table' = table /\ versions' = versions /\ heads' = heads /\ overtaken' = overtaken
        /\ undercut' = undercut
        /\ found'[m] = table /\ \A n \in Migrators \ {m} : found'[n] = found[n]
        /\ at[m] = "begun" /\ at'[m] = "inspected"
        /\ \A b \in Actors \ {m} : at'[b] = at[b]
    BY <1>0, <1>2, ActorMoves DEF Inspect, TypeOK
  <2>1. TableOK'
    BY <1>0, <2>0 DEF TableOK, HasOriginal
  <2>2. FoundRemains'
    BY <1>0, <2>0 DEF FoundRemains
  <2>3. LooksAreFresh'
    BY <1>0, <2>0 DEF LooksAreFresh, Open
  <2> QED BY <2>1, <2>2, <2>3 DEF Consistent
<1>3. CASE Upgrade(m)
  <2>0. /\ heads' = heads /\ found' = found
        /\ at[m] = "inspected" /\ at'[m] = "idle"
        /\ \A b \in Actors \ {m} : at'[b] = at[b] /\ overtaken'[b]
    BY <1>0, <1>3, ActorMoves DEF Upgrade
  <2>1. /\ versions' = {"0002"} /\ undercut' = undercut
        /\ table' # NoTable /\ HasOriginal(table')
        /\ ~undercut => table' = FullTable
    BY <1>3, UpgradeCompletes, NoTableAssumption DEF Upgrade
  <2>2. TableOK'
    BY <2>1 DEF TableOK, VersionValues, HasOriginal
  <2>3. FoundRemains'
    BY <2>1 DEF FoundRemains
  <2>4. LooksAreFresh'
    BY <1>0, <2>0 DEF LooksAreFresh, Open
  <2> QED BY <2>2, <2>3, <2>4 DEF Consistent
<1>4. CASE Downgrade(m)
  <2>0. /\ heads' = heads /\ found' = found
        /\ at[m] = "downgrading" /\ at'[m] = "idle"
        /\ \A b \in Actors \ {m} : at'[b] = at[b] /\ overtaken'[b]
    BY <1>0, <1>4, ActorMoves DEF Downgrade
  <2>1. \/ /\ versions' = {"0001"} /\ table' \in Tables /\ HasOriginal(table')
           /\ ~undercut' => \A n \in Migrators : at[n] # "inspected"
        \/ versions' = {} /\ table' = NoTable
    BY <1>4, DowngradeLeaves
  <2>2. TableOK'
    BY <2>1, NoTableAssumption DEF TableOK, VersionValues, HasOriginal
  <2>3. FoundRemains'
    BY <1>0, <2>0, <2>1 DEF FoundRemains, Open
  <2>4. LooksAreFresh'
    BY <1>0, <2>0 DEF LooksAreFresh, Open
  <2> QED BY <2>2, <2>3, <2>4 DEF Consistent
<1>5. CASE MigrationFails(m)
  <2>0. /\ table' = table /\ versions' = versions /\ heads' = heads /\ found' = found
        /\ overtaken' = overtaken /\ undercut' = undercut /\ at'[m] = "idle"
        /\ \A b \in Actors \ {m} : at'[b] = at[b]
    BY <1>0, <1>5, ActorMoves DEF MigrationFails
  <2>1. TableOK'
    BY <1>0, <2>0 DEF TableOK, HasOriginal
  <2>2. FoundRemains'
    BY <1>0, <2>0 DEF FoundRemains
  <2>3. LooksAreFresh'
    BY <1>0, <2>0 DEF LooksAreFresh, Open
  <2> QED BY <2>1, <2>2, <2>3 DEF Consistent
<1> QED BY <1>1, <1>2, <1>3, <1>4, <1>5

\* A process's steps: create_all writes only where there is no table, so no
\* version is stored.
LEMMA ProcessStep ==
    ASSUME Inv, NEW p \in Processes,
           BuildRepository(p) \/ CreateAll(p) \/ StartupFails(p) \/ Stop(p)
    PROVE  Consistent'
<1>0. /\ TypeOK /\ TableOK /\ FoundRemains /\ LooksAreFresh
      /\ p \in Actors /\ Migrators \subseteq Actors /\ Processes \subseteq Actors
      /\ p \notin Migrators
  BY SchemaAssumption DEF Inv, Actors
<1>1. heads' = heads /\ found' = found /\ versions' = versions /\ undercut' = undercut
  BY DEF BuildRepository, CreateAll, StartupFails, Stop
<1>2. \A b \in Actors \ {p} : at'[b] = at[b]
  BY <1>0, ActorMoves DEF BuildRepository, CreateAll, StartupFails, Stop
<1>3. CASE CreateAll(p)
  <2>0. /\ at'[p] = "up" /\ \A b \in Actors \ {p} : overtaken'[b]
        /\ table = NoTable /\ table' = ModelTable
    BY <1>0, <1>3, ActorMoves DEF CreateAll
  <2>1. versions = {}
    BY <1>0, <2>0 DEF TableOK
  <2>2. TableOK'
    BY <1>0, <1>1, <2>0, <2>1 DEF TableOK, HasOriginal, ModelTable, Columns, VersionValues
  <2>3. FoundRemains'
    BY <1>1, <2>1 DEF FoundRemains
  <2>4. LooksAreFresh'
    BY <1>0, <1>1, <1>2, <2>0 DEF LooksAreFresh, Open
  <2> QED BY <2>2, <2>3, <2>4 DEF Consistent
<1>4. CASE BuildRepository(p) \/ StartupFails(p) \/ Stop(p)
  <2>0. /\ table' = table
        /\ at'[p] = "begun" => table = NoTable
        /\ \A b \in Actors \ {p} : overtaken'[b] = overtaken[b]
    BY <1>0, <1>4, ActorMoves DEF BuildRepository, StartupFails, Stop
  <2>1. TableOK'
    BY <1>0, <1>1, <2>0 DEF TableOK, HasOriginal
  <2>2. FoundRemains'
    BY <1>0, <1>1, <1>2, <2>0 DEF FoundRemains
  <2>3. LooksAreFresh'
    BY <1>0, <1>1, <1>2, <2>0 DEF LooksAreFresh, Open
  <2> QED BY <2>1, <2>2, <2>3 DEF Consistent
<1> QED BY <1>3, <1>4

\* PostgreSQL going away ends commands and changes nothing else.
LEMMA DatabaseStep ==
    ASSUME Inv, DatabaseDown \/ DatabaseBack \/ UNCHANGED vars
    PROVE  Consistent'
<1>0. /\ TypeOK /\ TableOK /\ FoundRemains /\ LooksAreFresh
      /\ Migrators \subseteq Actors /\ Processes \subseteq Actors
  BY DEF Inv, Actors
<1>1. /\ table' = table /\ versions' = versions /\ heads' = heads /\ found' = found
      /\ overtaken' = overtaken /\ undercut' = undercut
      /\ \A a \in Actors : at'[a] = at[a] \/ at'[a] = "idle"
  BY <1>0 DEF DatabaseDown, DatabaseBack, vars, TypeOK
<1>2. TableOK'
  BY <1>0, <1>1 DEF TableOK, HasOriginal
<1>3. FoundRemains'
  BY <1>0, <1>1 DEF FoundRemains
<1>4. LooksAreFresh'
  BY <1>0, <1>1 DEF LooksAreFresh, Open
<1> QED BY <1>2, <1>3, <1>4 DEF Consistent
-----------------------------------------------------------------------------
\* Every step keeps the invariant.
LEMMA InvStep ==
    ASSUME Inv, [Next]_vars
    PROVE  Inv'
<1>1. Consistent'
  BY MigratorStep, ProcessStep, DatabaseStep DEF Next
<1> QED BY <1>1, TypeStep DEF Inv, Consistent

\* The invariant holds of a new database.
LEMMA InvInit ==
    ASSUME Init
    PROVE  Inv
<1>0. Migrators \subseteq Actors /\ Processes \subseteq Actors
  BY DEF Actors
<1>1. TypeOK
  BY DEF Init, TypeOK
<1>2. TableOK
  BY DEF Init, TableOK, VersionValues
<1>3. FoundRemains /\ LooksAreFresh
  BY <1>0 DEF Init, FoundRemains, LooksAreFresh, Open
<1> QED BY <1>1, <1>2, <1>3 DEF Inv

\* The inductive invariant holds whatever mixture of create_all, upgrades,
\* downgrades, one inside another or not, and database failures the deployment
\* goes through.
THEOREM SchemaInvariance == Spec => []Inv
  BY InvInit, InvStep, PTL DEF Spec

\* alembic_version has at most one row and a stored version stands for a table
\* with the columns of 0001, for any number of operators and starting processes
\* and any overlap of their commands; at 0002 the table is complete unless 0002
\* was taken back under an upgrade that had inspected the table.
THEOREM VersionsDescribeSchemas == Spec => []VersionDescribesSchema
<1>1. ASSUME Inv
      PROVE  VersionDescribesSchema
  <2>1. /\ versions \in VersionValues
        /\ table # NoTable => HasOriginal(table)
        /\ versions # {} => table # NoTable
        /\ versions = {"0002"} /\ ~undercut => table = FullTable
    BY <1>1 DEF Inv, TableOK
  <2>2. Cardinality({}) = 0 /\ Cardinality({"0001"}) = 1 /\ Cardinality({"0002"}) = 1
    BY FS_EmptySet, FS_Singleton
  <2>3. Cardinality(versions) <= 1
    BY <2>1, <2>2 DEF VersionValues
  <2> QED BY <2>1, <2>3 DEF VersionDescribesSchema, HasOriginal, FullTable
<1> QED BY <1>1, SchemaInvariance, PTL

\* A command or a starting process that nobody has overtaken does not fail,
\* but for a downgrade after an upgrade was undercut.
LEMMA NotOvertaken ==
    ASSUME Inv
    PROVE  /\ \A m \in Migrators : MigrationFails(m) =>
                overtaken[m] \/ (undercut /\ at[m] = "downgrading")
           /\ \A p \in Processes : StartupFails(p) => overtaken[p]
<1>0. /\ TypeOK /\ TableOK /\ LooksAreFresh
      /\ Migrators \subseteq Actors /\ Processes \subseteq Actors
  BY DEF Inv, Actors
<1>1. ASSUME NEW m \in Migrators, MigrationFails(m), ~overtaken[m],
             ~(undercut /\ at[m] = "downgrading")
      PROVE  FALSE
  <2>0. /\ table \in Tables \union {NoTable} /\ versions \in VersionValues
        /\ versions # {} => table # NoTable /\ HasOriginal(table)
        /\ versions = {"0002"} /\ ~undercut => table = FullTable
    BY <1>0 DEF TypeOK, TableOK
  <2>1. CASE at[m] = "inspected"
    <3>1. versions = heads[m] /\ table = found[m] /\ "0002" \notin versions
      BY <1>0, <1>1, <2>1 DEF LooksAreFresh, Open
    <3>2. CanUpgrade(m)
      BY <2>0, <3>1, RevisionsFit DEF CanUpgrade, VersionValues
    <3> QED BY <1>1, <2>1, <3>2 DEF MigrationFails
  <2>2. CASE at[m] = "downgrading"
    <3>1. versions = heads[m] /\ versions # {}
      BY <1>0, <1>1, <2>2 DEF LooksAreFresh, Open
    <3>2. FullTable.columns = Columns /\ FullTable.indexes = Indexes
      BY DEF FullTable
    <3>3. CanDowngrade(m)
      BY <1>1, <2>0, <2>2, <3>1, <3>2 DEF CanDowngrade, HasOriginal, Columns, Indexes
    <3> QED BY <1>1, <2>2, <3>3 DEF MigrationFails
  <2> QED BY <1>1, <2>1, <2>2 DEF MigrationFails
<1>2. ASSUME NEW p \in Processes, StartupFails(p), ~overtaken[p]
      PROVE  FALSE
  BY <1>0, <1>2 DEF LooksAreFresh, StartupFails
<1> QED BY <1>1, <1>2

\* Both revisions and create_all run on whatever they find: only a command
\* that somebody else's commit has overtaken fails, or a downgrade once 0002
\* was taken back under an upgrade.
THEOREM FailuresAreOvertaken == Spec => FailsOnlyWhenOvertaken
<1>1. Inv => [/\ \A m \in Migrators : MigrationFails(m) =>
                   overtaken[m] \/ (undercut /\ at[m] = "downgrading")
              /\ \A p \in Processes : StartupFails(p) => overtaken[p]]_vars
  BY NotOvertaken
<1> QED BY <1>1, SchemaInvariance, PTL DEF FailsOnlyWhenOvertaken
=============================================================================
