--------------------------- MODULE AuthDevStores ----------------------------
(***************************************************************************)
(* The handlers of AuthSessions on any of the three stores, chosen when    *)
(* the service starts.  The memory store changes its maps in one critical  *)
(* section, Postgres in one statement or transaction.  SQLite inserts,     *)
(* promotes and rotates under a mutex; its rotation is a transaction of    *)
(* two statements that readers look past and that a logout, which takes no *)
(* mutex, waits for at the database's write lock.                          *)
(***************************************************************************)
EXTENDS AuthSessions

CONSTANT MaxDevToken  \* bound: tokens issued on a development store

ASSUME StoreAssumption == MaxDevToken \in 0..MaxToken

VARIABLES
  store,     \* "postgres", "sqlite" or "memory"
  rotating   \* the slots whose SQLite rotation has deleted but not committed

storeVars == <<role, tokens, live, loggedOut, request, store, rotating>>

StoresInit ==
  /\ Init
  /\ store \in {"postgres", "sqlite", "memory"}
  /\ rotating = {}

\* Nobody holds s.mu or, which comes to the same, SQLite's write lock: an
\* insert or update alone holds them for one step.
MutexFree == rotating = {}

\* One statement or critical section of whichever store runs.
Free == store = "sqlite" => MutexFree

Kept == UNCHANGED <<store, rotating>>

Room == store = "postgres" \/ Len(tokens) < MaxDevToken

CreateUser(s, u) == Free /\ Register(s, u) /\ Kept

\* SQLite reads the row it updated before it lets go of the mutex.
Promote(s, u) == Free /\ BecomeSeller(s, u) /\ Kept

InsertSession(s) == Room /\ Free /\ CreateRefreshSession(s) /\ Kept

\* DELETE FROM ... WHERE token_hash: needs the write lock only.
DeleteSession(n) == Free /\ (DropRefused(n) \/ Logout(n)) /\ Kept

\* No lock: readers see the last committed rows.
ReadUser(s) ==
  /\ \/ \E u \in User : Login(s, u)
     \/ \E n \in Issued : BeginRefresh(s, n)
  /\ Kept

RotateAtOnce(s) == Room /\ store # "sqlite" /\ RotateRefreshSession(s) /\ Kept

\* Fault: the affected rows are not counted.
ConsumeUncounted(s) ==
  /\ store = "sqlite"
  /\ MutexFree
  /\ request[s].pc = "rotate"
  /\ rotating' = {s}
  /\ UNCHANGED <<role, tokens, live, loggedOut, request, store>>

\* BEGIN and DELETE: one row was affected.
ConsumeSQLite(s) ==
  /\ store = "sqlite"
  /\ MutexFree
  /\ request[s].pc = "rotate"
  /\ request[s].token \in live
  /\ rotating' = {s}
  /\ UNCHANGED <<role, tokens, live, loggedOut, request, store>>

\* INSERT and COMMIT.
CommitSQLite(s) ==
  /\ s \in rotating
  /\ Room
  /\ RotateTo(s, live \ {request[s].token})
  /\ rotating' = {}
  /\ UNCHANGED store

\* A handler that ends before its commit rolls back.
Abandon(s) ==
  /\ GiveUp(s)
  /\ rotating' = rotating \ {s}
  /\ UNCHANGED store

\* A logout whose DELETE fails, of SQLite's: it may wait too long for the write
\* lock.  (Of Postgres's it would only multiply loggedOut, which nothing the
\* run checks reads.)
LogoutUnheard(n) == store = "sqlite" /\ LogoutFails(n) /\ Kept

StoresNext ==
  \/ \E s \in Slot, u \in User : CreateUser(s, u) \/ Promote(s, u)
  \/ \E s \in Slot :
       \/ ReadUser(s) \/ InsertSession(s) \/ Abandon(s)
       \/ RotateAtOnce(s) \/ ConsumeSQLite(s) \/ CommitSQLite(s)
  \/ \E n \in Issued : DeleteSession(n) \/ LogoutUnheard(n)

StoresSpec == StoresInit /\ [][StoresNext]_storeVars

-----------------------------------------------------------------------------
\* Between its two statements a SQLite rotation is alone with the row it has
\* deleted: no other rotation, and no logout or expiry, which do not take the
\* store's mutex, takes the row from under it; so its commit replaces exactly
\* one session.
RotationHoldsItsRow ==
  /\ \A s \in rotating : request[s].pc = "rotate" /\ request[s].token \in live
  /\ \A s, t \in rotating : s = t
=============================================================================
