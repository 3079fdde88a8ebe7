--------------------------- MODULE ServiceStartup ---------------------------
(***************************************************************************)
(* How the services' databases come to their schema: in a deployment with  *)
(* DATABASE_URL the migration runners go first (DbMigrate), in development *)
(* with DEV_SQLITE_PATH the stores prepare their file themselves           *)
(* (SqliteStartup).  services/*/cmd/{migrate,server}/main.go.              *)
(***************************************************************************)
EXTENDS DbMigrate, SqliteStartup

CONSTANTS Databases  \* what the configuration may name

ASSUME DatabasesAssumption == Databases \subseteq {"postgres", "sqlite"}

VARIABLE database    \* what it names

startVars == <<database, migrateVars, sqliteVars>>

StartInit == database \in Databases /\ MigrateInit /\ SqliteInit

Postgres(A) == database = "postgres" /\ A /\ UNCHANGED <<database, sqliteVars>>

Sqlite(A) == database = "sqlite" /\ A /\ UNCHANGED <<database, migrateVars>>

StartNext == Postgres(MigrateNext) \/ Sqlite(SqliteNext)

\* A deployment starts its runner again until it has run through; the server
\* grants a free lock to every waiter in its turn, and clears up after the dead.
StartSpec == /\ StartInit /\ [][StartNext]_startVars
             /\ \A i \in Runner : /\ WF_startVars(Postgres(Start(i)))
                                  /\ SF_startVars(Postgres(Lock(i)))
                                  /\ WF_startVars(Postgres(Advance(i)))
                                  /\ WF_startVars(Postgres(SessionEnds(i)))

StartTypeOK == MigrateTypeOK /\ SqliteTypeOK /\ database \in Databases

\* Unless runners are broken off again and again, the newest release's files are
\* all applied in the end: a dead runner's lock does not stop the next, nor does
\* a waiter starve.
AllAreApplied ==
  database = "postgres" =>
    \/ []<><<\E i \in Runner : Breaks(i)>>_startVars
    \/ <>(recorded = File)
=============================================================================
