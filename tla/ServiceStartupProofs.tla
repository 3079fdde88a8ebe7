------------------------ MODULE ServiceStartupProofs ------------------------
(***************************************************************************)
(* Proofs about ServiceStartup, for any runners, releases, accounts and    *)
(* reports: the properties of MCServiceStartup's run except the one that   *)
(* needs fairness.                                                         *)
(***************************************************************************)
EXTENDS ServiceStartup, TLAPS

\* Sessions that hold the lock, and those with a file under way.
Active == {"looking", "begun", "applied", "inserted", "committing", "committed"}

Busy == {"begun", "applied", "inserted", "committing"}

\* A session has passed over recorded files only, the one it works on is of its
\* directory and not yet recorded.
Progress(i) ==
  /\ session[i].at = "waiting" => session[i].file = 1
  /\ session[i].at \in Active => 1..(session[i].file - 1) \subseteq recorded
  /\ session[i].at \in Busy =>
       session[i].file <= Release[i] /\ session[i].file \notin recorded
  /\ session[i].at = "committed" =>
       session[i].file <= Release[i] /\ session[i].file \in recorded

MigrateInv == /\ MigrateTypeOK
              /\ AppliedOnce
              /\ AppliedInOrder
              /\ TransactionsHoldTheLock
              /\ \A i \in Runner : Progress(i)

-----------------------------------------------------------------------------
(* The migration runner.                                                   *)

\* No file is applied and no session is open.
LEMMA MigrateInitially == MigrateInit => MigrateInv
BY MigrateAssumption
DEF MigrateInit, MigrateInv, MigrateTypeOK, AppliedOnce, AppliedInOrder,
    TransactionsHoldTheLock, Progress, NoSession, Session, File, Active, Busy

\* A step of the SQLite stores.
LEMMA MigrateKept ==
  ASSUME MigrateInv, UNCHANGED migrateVars
  PROVE  MigrateInv'
BY DEF MigrateInv, migrateVars, MigrateTypeOK, AppliedOnce, AppliedInOrder,
       TransactionsHoldTheLock, Progress

\* A step of one runner keeps the invariant of the migrations.
LEMMA MigrateStep ==
  ASSUME MigrateInv, NEW i \in Runner,
         Start(i) \/ Lock(i) \/ Advance(i) \/ Breaks(i) \/ SessionEnds(i)
  PROVE  MigrateInv'
<1> USE MigrateAssumption DEF MigrateInv
<1>a. /\ \A r \in Runner : Release[r] \in Nat /\ Release[r] <= MaxFile
      /\ MaxFile \in Nat
  OBVIOUS
<1>b. \A r \in Runner : /\ session[r] \in Session
                        /\ session[r].file \in 1..(MaxFile + 1)
  BY DEF MigrateTypeOK, Session
<1>c. \A r \in Runner \ {i} : session[i].at \in Active => session[r].at \notin Active
  BY DEF TransactionsHoldTheLock, Active
<1>1. CASE Start(i)
  BY <1>1, <1>a, <1>b
  DEF Start, At, MigrateTypeOK, AppliedOnce, AppliedInOrder, TransactionsHoldTheLock,
      Progress, Session, Active, Busy
<1>2. CASE Lock(i)
  BY <1>2, <1>a, <1>b
  DEF Lock, At, MigrateTypeOK, AppliedOnce, AppliedInOrder, TransactionsHoldTheLock,
      Progress, Session, Active, Busy
<1>3. CASE Skip(i) \/ NextFile(i)
  BY <1>3, <1>a, <1>b
  DEF Skip, NextFile, At, MigrateTypeOK, AppliedOnce, AppliedInOrder,
      TransactionsHoldTheLock, Progress, Session, Active, Busy
<1>4. CASE Begin(i) \/ ApplyBody(i) \/ InsertRow(i) \/ SendCommit(i)
  BY <1>4, <1>a, <1>b
  DEF Begin, ApplyBody, InsertRow, SendCommit, Goes, At, MigrateTypeOK, AppliedOnce,
      AppliedInOrder, TransactionsHoldTheLock, Progress, Session, Active, Busy
<1>5. CASE CommitLands(i)
  BY <1>5, <1>a, <1>b, <1>c
  DEF CommitLands, At, MigrateTypeOK, AppliedOnce, AppliedInOrder,
      TransactionsHoldTheLock, Progress, Session, Active, Busy, File
<1>6. CASE Finish(i) \/ Fail(i) \/ SessionEnds(i)
  BY <1>6, <1>a, <1>b
  DEF Finish, Fail, SessionEnds, Close, At, NoSession, MigrateTypeOK, AppliedOnce,
      AppliedInOrder, TransactionsHoldTheLock, Progress, Session, Active, Busy
<1>7. CASE Crash(i)
  BY <1>7
  DEF Crash, MigrateTypeOK, AppliedOnce, AppliedInOrder, TransactionsHoldTheLock, Progress
<1> QED
  BY <1>1, <1>2, <1>3, <1>4, <1>5, <1>6, <1>7 DEF Advance, Breaks

-----------------------------------------------------------------------------
(* The SQLite files.                                                       *)

\* The statements of an open rebuild, as far as they have come.
Rebuild ==
  /\ opening.at \in {"off", "opened", "begun", "serving"} =>
       users.exists /\ users.rows = Account /\ usersNext = NoTable
  /\ opening.at = "created" => users.rows = Account /\ usersNext.exists
  /\ opening.at \in {"copied", "dropped"} =>
       usersNext.exists /\ usersNext.rows = Account
  /\ opening.at = "renamed" =>
       users.exists /\ users.rows = Account /\ usersNext = NoTable
  /\ opening.at \in {"begun", "created", "copied", "dropped", "renamed"} =>
       opening.before.exists /\ opening.before.rows = Account

SqliteInv == /\ SqliteTypeOK
             /\ Rebuild
             /\ starting.at # "off" => Missing \subseteq starting.missing
             /\ starting.at = "serving" => starting.missing = {}

\* The SQLite stores before their first start.
LEMMA SqliteInitially == SqliteInit => SqliteInv
BY DEF SqliteInit, SqliteInv, SqliteTypeOK, Rebuild, Table, NoTable, Off, Missing

\* A step of the migration runners.
LEMMA SqliteKept ==
  ASSUME SqliteInv, UNCHANGED sqliteVars
  PROVE  SqliteInv'
BY DEF SqliteInv, sqliteVars, SqliteTypeOK, Rebuild, Missing

\* A step of a SQLite store keeps the invariant of its tables.
LEMMA SqliteStep ==
  ASSUME SqliteInv, SqliteNext
  PROVE  SqliteInv'
<1> USE DEF SqliteInv, SqliteTypeOK
<1>a. /\ opening # Off => opening.at # "off" /\ opening.before \in Table
      /\ starting # Off => starting.at # "off" /\ starting.missing \subseteq Later
  BY DEF Opening, Starting
<1>b. /\ opening.at # "off" => opening \in Opening
      /\ starting.at # "off" => starting \in Starting
  BY DEF Off
<1>c. ASSUME opening.at # "off", opening' = [opening EXCEPT !.at = "created"]
               \/ opening' = [opening EXCEPT !.at = "copied"]
               \/ opening' = [opening EXCEPT !.at = "dropped"]
               \/ opening' = [opening EXCEPT !.at = "renamed"]
      PROVE  opening'.before = opening.before /\ opening' \in Opening
  BY <1>b, <1>c DEF Opening
<1>1. CASE OpenUsers \/ ReadSchema
  BY <1>1, <1>a, <1>b
  DEF OpenUsers, ReadSchema, UnchangedReports, Rebuild, Opening, Off, Table, NoTable, Missing
<1>2. CASE CreateNext
  <2>1. Rebuild'
    BY <1>2, <1>a, <1>b, <1>c DEF CreateNext, Rebuild, Opening, Off, NoTable
  <2>2. SqliteTypeOK'
    BY <1>2, <1>a, <1>b, <1>c DEF CreateNext, UnchangedReports, Opening, Off, Table, NoTable
  <2> QED
    BY <1>2, <2>1, <2>2 DEF CreateNext, UnchangedReports, Missing
<1>3. CASE CopyUsers
  <2>1. Rebuild'
    BY <1>3, <1>a, <1>b, <1>c DEF CopyUsers, Rebuild, Opening, Off, NoTable, Table
  <2>2. SqliteTypeOK'
    BY <1>3, <1>a, <1>b, <1>c DEF CopyUsers, UnchangedReports, Opening, Off, Table, NoTable
  <2> QED
    BY <1>3, <2>1, <2>2 DEF CopyUsers, UnchangedReports, Missing
<1>4. CASE DropUsers
  <2>1. Rebuild'
    BY <1>4, <1>a, <1>b, <1>c DEF DropUsers, Rebuild, Opening, Off, NoTable
  <2>2. SqliteTypeOK'
    BY <1>4, <1>a, <1>b, <1>c DEF DropUsers, UnchangedReports, Opening, Off, Table, NoTable
  <2> QED
    BY <1>4, <2>1, <2>2 DEF DropUsers, UnchangedReports, Missing
<1>5. CASE RenameNext
  <2>1. Rebuild'
    BY <1>5, <1>a, <1>b, <1>c DEF RenameNext, Rebuild, Opening, Off, NoTable
  <2>2. SqliteTypeOK'
    BY <1>5, <1>a, <1>b, <1>c DEF RenameNext, UnchangedReports, Opening, Off, Table, NoTable
  <2> QED
    BY <1>5, <2>1, <2>2 DEF RenameNext, UnchangedReports, Missing
<1>6. CASE CommitRebuild
  <2>1. Rebuild'
    BY <1>6, <1>a, <1>b, <1>c DEF CommitRebuild, Rebuild, Opening, Off, NoTable
  <2>2. SqliteTypeOK'
    BY <1>6, <1>a, <1>b, <1>c DEF CommitRebuild, UnchangedReports, Opening, Off, Table, NoTable
  <2> QED
    BY <1>6, <2>1, <2>2 DEF CommitRebuild, UnchangedReports, Missing
<1>7. CASE CrashAuth
  <2>1. Rebuild'
    BY <1>7, <1>a, <1>b, <1>c DEF CrashAuth, Rebuild, Opening, Off, NoTable
  <2>2. SqliteTypeOK'
    BY <1>7, <1>a, <1>b, <1>c DEF CrashAuth, UnchangedReports, Opening, Off, Table, NoTable
  <2> QED
    BY <1>7, <2>1, <2>2 DEF CrashAuth, UnchangedReports, Missing
<1>8. CASE OpenReports \/ FillIn \/ ServeReports \/ CrashSupport
  BY <1>8, <1>a, <1>b
  DEF OpenReports, FillIn, ServeReports, CrashSupport, UnchangedUsers, Rebuild, Starting,
      Off, Missing, Later
<1>9. ASSUME NEW c \in Later, AddColumn(c) PROVE SqliteInv'
  BY <1>9, <1>a, <1>b
  DEF AddColumn, UnchangedUsers, Rebuild, Starting, Off, Missing, Later
<1> QED
  BY <1>1, <1>2, <1>3, <1>4, <1>5, <1>6, <1>7, <1>8, <1>9 DEF SqliteNext

-----------------------------------------------------------------------------
(* The specification of the run.                                           *)

StartInv == database \in Databases /\ MigrateInv /\ SqliteInv

\* The inductive invariant of both ways to start (dbmigrate/migrate.go and
\* the initialize functions of the SQLite stores).
THEOREM Invariance == StartSpec => []StartInv
<1>1. StartInit => StartInv
  BY MigrateInitially, SqliteInitially DEF StartInit, StartInv
<1>2. StartInv /\ [StartNext]_startVars => StartInv'
  <2> SUFFICES ASSUME StartInv, [StartNext]_startVars PROVE StartInv'
    OBVIOUS
  <2>1. CASE Postgres(MigrateNext)
    <3>1. PICK i \in Runner : \/ Start(i) \/ Lock(i) \/ Advance(i)
                              \/ Breaks(i) \/ SessionEnds(i)
      BY <2>1 DEF Postgres, MigrateNext
    <3>2. MigrateInv'
      BY <3>1, MigrateStep DEF StartInv
    <3>3. database' = database /\ UNCHANGED sqliteVars
      BY <2>1 DEF Postgres
    <3> QED
      BY <3>2, <3>3, SqliteKept DEF StartInv
  <2>2. CASE Sqlite(SqliteNext)
    <3>1. SqliteNext /\ database' = database /\ UNCHANGED migrateVars
      BY <2>2 DEF Sqlite
    <3> QED
      BY <3>1, SqliteStep, MigrateKept DEF StartInv
  <2>3. CASE UNCHANGED startVars
    BY <2>3, MigrateKept, SqliteKept DEF StartInv, startVars
  <2> QED
    BY <2>1, <2>2, <2>3 DEF StartNext
<1> QED
  BY <1>1, <1>2, PTL DEF StartSpec

\* Every variable keeps its type: no runner looks past the file after its last.
THEOREM TypeCorrect == StartSpec => []StartTypeOK
BY Invariance, PTL DEF StartInv, MigrateInv, SqliteInv, StartTypeOK

\* migrate.go:74-87: a file and its row stay together over failures, deaths and
\* COMMITs that land late.
THEOREM AppliedOnceAlways == StartSpec => []AppliedOnce
BY Invariance, PTL DEF StartInv, MigrateInv

\* migrate.go:44-57: the recorded names are a first part of the order.
THEOREM AppliedInOrderAlways == StartSpec => []AppliedInOrder
BY Invariance, PTL DEF StartInv, MigrateInv

\* migrate.go:21-33: only the session with the lock has a transaction open.
THEOREM OneTransactionAtATime == StartSpec => []TransactionsHoldTheLock
BY Invariance, PTL DEF StartInv, MigrateInv

\* auth/internal/users/sqlite.go:75-100: the rebuild of the users table loses
\* no account, wherever it is cut off.
THEOREM NoAccountIsLost == StartSpec => []AccountsSurvive
<1>1. StartInv => AccountsSurvive
  BY DEF StartInv, SqliteInv, Rebuild, AccountsSurvive
<1> QED
  BY <1>1, Invariance, PTL

\* support/internal/reports/sqlite.go:35-66: what serves has all its columns.
THEOREM ColumnsAreThere == StartSpec => []ServesWithAllColumns
<1>1. StartInv => ServesWithAllColumns
  <2> SUFFICES ASSUME StartInv, starting.at = "serving" PROVE columns = Later
    BY DEF ServesWithAllColumns
  <2> QED
    BY DEF StartInv, SqliteInv, SqliteTypeOK, Missing, Off
<1> QED
  BY <1>1, Invariance, PTL
=============================================================================
