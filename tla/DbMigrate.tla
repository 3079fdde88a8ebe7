----------------------------- MODULE DbMigrate -----------------------------
(***************************************************************************)
(* The migration runner every service carries (internal/dbmigrate, three   *)
(* identical copies): pending .sql files are applied in the order of their *)
(* names, each in a transaction with its row of schema_migrations, under   *)
(* one advisory lock.  Several runners may be started at once, of          *)
(* different releases; each may fail at any statement, or die with its     *)
(* session still open on the server and its COMMIT under way.              *)
(*                                                                         *)
(* Data.  A file is its place in the order of names.  A directory holds    *)
(* the files of its release and of those before: 1..Release[i].            *)
(* The database is empty when the first runner starts, as a deployed one   *)
(* is; Compose applies the same files to its databases when it creates     *)
(* them, without rows, and starts no runner there.                         *)
(***************************************************************************)
EXTENDS Integers, FiniteSets

CONSTANTS Runner,   \* runner processes
          Release,  \* how many files each one's directory has
          NoRunner  \* nobody holds the lock

MaxFile == CHOOSE n \in {Release[i] : i \in Runner} : \A i \in Runner : Release[i] <= n

File == 1..MaxFile

ASSUME MigrateAssumption ==
  /\ NoRunner \notin Runner
  /\ Release \in [Runner -> Nat]
  /\ MaxFile \in Nat /\ \A i \in Runner : Release[i] <= MaxFile

VARIABLES recorded,  \* file names in schema_migrations
          effects,   \* how often the statements of each file took effect
          lock,      \* holder of the advisory lock
          session,   \* each runner's session on the server
          alive      \* runners whose process lives

migrateVars == <<recorded, effects, lock, session, alive>>

NoSession == [at |-> "none", file |-> 1]

Session == [at : {"none", "waiting", "looking", "begun", "applied", "inserted",
                  "committing", "committed"},
            file : 1..(MaxFile + 1)]

At(i, at) == session[i].at = at

\* The process of i goes on from a step of its session.
Goes(i, from, to) == /\ i \in alive
                     /\ At(i, from)
                     /\ session' = [session EXCEPT ![i].at = to]

MigrateInit == /\ recorded = {}
               /\ effects = [f \in File |-> 0]
               /\ lock = NoRunner
               /\ session = [i \in Runner |-> NoSession]
               /\ alive = {}

--------------------------------------------------------------------------------
\* The deployment starts a runner: it asks for the lock.
Start(i) == /\ i \notin alive
            /\ At(i, "none")
            /\ alive' = alive \cup {i}
            /\ session' = [session EXCEPT ![i] = [at |-> "waiting", file |-> 1]]
            /\ UNCHANGED <<recorded, effects, lock>>

\* The server grants it, to a session whose process is gone as well.
Lock(i) == /\ At(i, "waiting")
           /\ lock = NoRunner
           /\ lock' = i
           /\ session' = [session EXCEPT ![i].at = "looking"]
           /\ UNCHANGED <<recorded, effects, alive>>

\* SELECT EXISTS: a recorded file is passed over ...
Skip(i) == /\ i \in alive /\ At(i, "looking")
           /\ session[i].file <= Release[i]
           /\ session[i].file \in recorded
           /\ session' = [session EXCEPT ![i].file = @ + 1]
           /\ UNCHANGED <<recorded, effects, lock, alive>>

\* ... another is read and its transaction begun.
Begin(i) == /\ session[i].file <= Release[i]
            /\ session[i].file \notin recorded
            /\ Goes(i, "looking", "begun")
            /\ UNCHANGED <<recorded, effects, lock, alive>>

\* The file's statements.
ApplyBody(i) == /\ Goes(i, "begun", "applied")
                /\ UNCHANGED <<recorded, effects, lock, alive>>

\* Fault: the row is inserted outside the transaction.
InsertAtOnce(i) == /\ Goes(i, "applied", "inserted")
                   /\ recorded' = recorded \cup {session[i].file}
                   /\ UNCHANGED <<effects, lock, alive>>

InsertRow(i) == /\ Goes(i, "applied", "inserted")
                /\ session[i].file \notin recorded
                /\ UNCHANGED <<recorded, effects, lock, alive>>

SendCommit(i) == /\ Goes(i, "inserted", "committing")
                 /\ UNCHANGED <<recorded, effects, lock, alive>>

\* The server commits, whether or not the process still waits for it.
CommitLands(i) == /\ At(i, "committing")
                  /\ recorded' = recorded \cup {session[i].file}
                  /\ effects' = [effects EXCEPT ![session[i].file] = @ + 1]
                  /\ session' = [session EXCEPT ![i].at = "committed"]
                  /\ UNCHANGED <<lock, alive>>

NextFile(i) == /\ i \in alive /\ At(i, "committed")
               /\ session' = [session EXCEPT ![i] = [at |-> "looking", file |-> @.file + 1]]
               /\ UNCHANGED <<recorded, effects, lock, alive>>

--------------------------------------------------------------------------------
(***************************************************************************)
(* The end of a session: the lock is free, an open transaction is rolled   *)
(* back.                                                                   *)
(***************************************************************************)

\* Fault: the lock is a row somebody has to delete.
CloseKeepingLock(i) == /\ session' = [session EXCEPT ![i] = NoSession]
                       /\ UNCHANGED <<recorded, effects, lock>>

Close(i) == /\ session' = [session EXCEPT ![i] = NoSession]
            /\ lock' = IF lock = i THEN NoRunner ELSE lock
            /\ UNCHANGED <<recorded, effects>>

\* Every file is applied: the lock is given back.
Finish(i) == /\ i \in alive /\ At(i, "looking")
             /\ session[i].file > Release[i]
             /\ alive' = alive \ {i}
             /\ Close(i)

\* Fault: the runner logs the error of a file and goes on with the next.
FailAndGoOn(i) == /\ i \in alive
                  /\ session[i].at \in {"begun", "applied"}
                  /\ session' = [session EXCEPT ![i] = [at |-> "looking", file |-> @.file + 1]]
                  /\ UNCHANGED <<recorded, effects, lock, alive>>

\* A statement fails or the two minutes are over: the runner exits.
Fail(i) == /\ i \in alive /\ ~At(i, "none")
           /\ alive' = alive \ {i}
           /\ Close(i)

\* The process dies, its session does not know yet.
Crash(i) == /\ i \in alive
            /\ alive' = alive \ {i}
            /\ UNCHANGED <<recorded, effects, lock, session>>

\* The server finds the connection closed.
SessionEnds(i) == /\ i \notin alive /\ ~At(i, "none")
                  /\ UNCHANGED alive
                  /\ Close(i)

\* A step that brings i on.
Advance(i) == \/ Skip(i) \/ Begin(i) \/ ApplyBody(i) \/ InsertRow(i) \/ SendCommit(i)
              \/ CommitLands(i) \/ NextFile(i) \/ Finish(i)

Breaks(i) == Fail(i) \/ Crash(i)

MigrateNext == \E i \in Runner : \/ Start(i) \/ Lock(i) \/ Advance(i)
                                 \/ Breaks(i) \/ SessionEnds(i)

MigrateSpec == MigrateInit /\ [][MigrateNext]_migrateVars

--------------------------------------------------------------------------------
(***************************************************************************)
(* What holds.                                                             *)
(***************************************************************************)

MigrateTypeOK == /\ recorded \subseteq File
                 /\ effects \in [File -> Nat]
                 /\ lock \in Runner \cup {NoRunner}
                 /\ session \in [Runner -> Session]
                 /\ alive \subseteq Runner

\* A file and its row survive together, whichever runner applies it and
\* wherever it is cut off: a file took effect once if it is recorded, and never
\* if it is not (migrate.go:74-87).
AppliedOnce == \A f \in File : effects[f] = IF f \in recorded THEN 1 ELSE 0

\* No file takes effect before those it builds on: the names recorded are a
\* first part of the order, however runners of different releases interleave.
AppliedInOrder == \A f \in recorded : 1..f \subseteq recorded

\* One file at a time: a transaction is open only in the session that has the
\* lock.
TransactionsHoldTheLock ==
  \A i \in Runner : session[i].at \notin {"none", "waiting"} => lock = i
=============================================================================
