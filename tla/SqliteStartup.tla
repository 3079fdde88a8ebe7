---------------------------- MODULE SqliteStartup ----------------------------
(***************************************************************************)
(* What the development stores do to their SQLite file when they start.    *)
(* The file may be of an older release.  The auth store rebuilds its users *)
(* table, which did not know the role staff, in one transaction            *)
(* (auth/internal/users/sqlite.go, initialize); the support store adds     *)
(* columns one statement at a time and fills updated_at in                 *)
(* (support/internal/reports/sqlite.go, NewSQLiteStore).  A start may be   *)
(* cut off between any two statements and is then tried again.             *)
(***************************************************************************)
EXTENDS Integers, FiniteSets

CONSTANTS Account,  \* users of the old file
          OldReport \* reports of the old file

VARIABLES users,     \* dev_auth_users
          usersNext, \* dev_auth_users_next
          opening,   \* the auth store's start
          columns,   \* dev_reports: which of the later columns there are
          updatedAt, \* reports whose updated_at is not NULL
          starting   \* the support store's start

sqliteVars == <<users, usersNext, opening, columns, updatedAt, starting>>

Later == {"updated_at", "listing_id", "reason"}

\* A table: whether there is one, whether its CHECK knows staff, its rows.
Table == [exists : BOOLEAN, staff : BOOLEAN, rows : SUBSET Account]

NoTable == [exists |-> FALSE, staff |-> FALSE, rows |-> {}]

\* before: what a rollback of the open transaction brings back.
Off == [at |-> "off"]

Opening == [at : {"opened", "begun", "created", "copied", "dropped", "renamed", "serving"},
            before : Table]

\* missing: the columns PRAGMA table_info did not list.
Starting == [at : {"adding", "filling", "serving"}, missing : SUBSET Later]

SqliteInit == /\ users = [exists |-> TRUE, staff |-> FALSE, rows |-> Account]
              /\ usersNext = NoTable
              /\ opening = Off
              /\ columns \in SUBSET Later
              /\ updatedAt = IF "updated_at" \in columns THEN OldReport ELSE {}
              /\ starting = Off

UnchangedReports == UNCHANGED <<columns, updatedAt, starting>>

UnchangedUsers == UNCHANGED <<users, usersNext, opening>>

--------------------------------------------------------------------------------
(***************************************************************************)
(* The auth store.                                                         *)
(***************************************************************************)

\* CREATE TABLE IF NOT EXISTS.
OpenUsers == /\ opening.at = "off"
             /\ users' = IF users.exists THEN users
                         ELSE [exists |-> TRUE, staff |-> TRUE, rows |-> {}]
             /\ opening' = [at |-> "opened", before |-> users']
             /\ UNCHANGED usersNext /\ UnchangedReports

\* sqlite_master's statement names staff, or the rebuild begins.
ReadSchema == /\ opening.at = "opened"
              /\ opening' = [at |-> IF users.staff THEN "serving" ELSE "begun",
                             before |-> users]
              /\ UNCHANGED <<users, usersNext>> /\ UnchangedReports

CreateNext == /\ opening.at = "begun"
              /\ ~usersNext.exists
              /\ usersNext' = [exists |-> TRUE, staff |-> TRUE, rows |-> {}]
              /\ opening' = [opening EXCEPT !.at = "created"]
              /\ UNCHANGED users /\ UnchangedReports

CopyUsers == /\ opening.at = "created"
             /\ usersNext' = [usersNext EXCEPT !.rows = users.rows]
             /\ opening' = [opening EXCEPT !.at = "copied"]
             /\ UNCHANGED users /\ UnchangedReports

DropUsers == /\ opening.at = "copied"
             /\ users' = NoTable
             /\ opening' = [opening EXCEPT !.at = "dropped"]
             /\ UNCHANGED usersNext /\ UnchangedReports

RenameNext == /\ opening.at = "dropped"
              /\ users' = usersNext
              /\ usersNext' = NoTable
              /\ opening' = [opening EXCEPT !.at = "renamed"]
              /\ UnchangedReports

CommitRebuild == /\ opening.at = "renamed"
                 /\ opening' = [at |-> "serving", before |-> users]
                 /\ UNCHANGED <<users, usersNext>> /\ UnchangedReports

\* Fault: the statements are executed without a transaction.
CrashUntransacted == /\ opening.at # "off"
                     /\ opening' = Off
                     /\ UNCHANGED <<users, usersNext>> /\ UnchangedReports

\* The process dies or the start fails: what is not committed is undone.
CrashAuth == /\ opening.at # "off"
             /\ users' = IF opening.at \in {"created", "copied", "dropped", "renamed"}
                         THEN opening.before ELSE users
             /\ usersNext' = NoTable
             /\ opening' = Off
             /\ UnchangedReports

--------------------------------------------------------------------------------
(***************************************************************************)
(* The support store.                                                      *)
(***************************************************************************)

Missing == Later \ columns

\* CREATE TABLE IF NOT EXISTS, which leaves an old table as it is, and
\* PRAGMA table_info.
OpenReports == /\ starting.at = "off"
               /\ starting' = [at |-> "adding", missing |-> Missing]
               /\ UNCHANGED <<columns, updatedAt>> /\ UnchangedUsers

\* The columns are added in a fixed order.
Precede(c) == CASE c = "updated_at" -> {}
                [] c = "listing_id" -> {"updated_at"}
                [] c = "reason"     -> {"updated_at", "listing_id"}

\* ALTER TABLE ADD COLUMN; the rows of before have NULL in it.  updated_at is
\* filled in by a statement of its own.
AddColumn(c) == /\ starting.at = "adding"
                /\ c \in starting.missing
                /\ starting.missing \cap Precede(c) = {}
                /\ columns' = columns \cup {c}
                /\ starting' = [at |-> IF c = "updated_at" THEN "filling" ELSE "adding",
                                missing |-> starting.missing \ {c}]
                /\ UNCHANGED updatedAt /\ UnchangedUsers

\* UPDATE dev_reports SET updated_at=created_at WHERE updated_at IS NULL
FillIn == /\ starting.at = "filling"
          /\ updatedAt' = OldReport
          /\ starting' = [starting EXCEPT !.at = "adding"]
          /\ UNCHANGED columns /\ UnchangedUsers

ServeReports == /\ starting.at = "adding"
                /\ starting.missing = {}
                /\ starting' = [starting EXCEPT !.at = "serving"]
                /\ UNCHANGED <<columns, updatedAt>> /\ UnchangedUsers

CrashSupport == /\ starting.at # "off"
                /\ starting' = Off
                /\ UNCHANGED <<columns, updatedAt>> /\ UnchangedUsers

SqliteNext == \/ OpenUsers \/ ReadSchema \/ CreateNext \/ CopyUsers \/ DropUsers
              \/ RenameNext \/ CommitRebuild \/ CrashAuth
              \/ OpenReports \/ FillIn \/ ServeReports \/ CrashSupport
              \/ \E c \in Later : AddColumn(c)

--------------------------------------------------------------------------------
(***************************************************************************)
(* What holds.                                                             *)
(***************************************************************************)

SqliteTypeOK == /\ users \in Table /\ usersNext \in Table
                /\ opening = Off \/ opening \in Opening
                /\ columns \subseteq Later /\ updatedAt \subseteq OldReport
                /\ starting = Off \/ starting \in Starting

\* No account is lost by the rebuild of the users table, wherever it is cut
\* off: a store that is off or serving has them all.
AccountsSurvive == opening.at \in {"off", "opened", "serving"} => users.rows = Account

\* A support store that serves has every column its statements name, after
\* starts that were cut off between any two of them.
ServesWithAllColumns == starting.at = "serving" => columns = Later

\* Not so: a start that is cut off between adding updated_at and filling it in
\* leaves NULLs no later start fills in (the column is there), and List, which
\* scans updated_at into a string, fails from then on.
ServedReportsCanBeListed == starting.at = "serving" => updatedAt = OldReport
=============================================================================
