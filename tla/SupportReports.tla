---------------------------- MODULE SupportReports ----------------------------
(***************************************************************************)
(* The support service's reports: anyone files one, staff move it from     *)
(* open over triaged to resolved, and each move leaves an audit row.       *)
(* services/support/internal/{handlers,reports}.                           *)
(*                                                                         *)
(* The service runs on one of three stores, chosen when it starts          *)
(* (cmd/server/main.go:35-50; the memory store is what its tests use), and *)
(* each makes a transition safe in its own way: Postgres by a row lock,    *)
(* SQLite by refusing to write from a snapshot that is no longer the       *)
(* newest, the memory store by a mutex.                                    *)
(***************************************************************************)
EXTENDS Integers, Sequences, FiniteSets

CONSTANTS Reports,     \* report ids, each used once
          Staff,       \* accounts whose access token says staff
          Requests,    \* handler slots for transitions
          Stores,      \* stores the service may be started on
          ListLimit,   \* how many reports the staff list asks for (100)
          Parts,       \* clock ticks in a second
          MaxTime      \* bound of the clock, in ticks

ASSUME StoresAssumption == Stores \subseteq {"postgres", "sqlite", "memory"}
ASSUME ClockAssumption == Parts \in Nat \ {0} /\ MaxTime \in Nat /\ ListLimit \in Nat

VARIABLES store,    \* the store in use
          status,   \* status column of each report, "none" before it is filed
          stamp,    \* created_at column, in ticks
          audit,    \* rows of support_report_actions of each report, oldest first
          req,      \* transition handlers in flight
          now       \* the clock

vars == <<store, status, stamp, audit, req, now>>

Status == {"open", "triaged", "resolved"}

\* Fault: resolved reports may be reopened.
ValidTransitionReopens(from, to) == from # to

ValidTransition(from, to) == \/ from = "open" /\ to \in {"triaged", "resolved"}
                             \/ from = "triaged" /\ to = "resolved"

Step == [actor : Staff, from : Status, to : Status]

\* A handler: what it was asked, and the status its transaction has read.
\* "sent" is before the store is reached, "read" between the transaction's
\* SELECT and its UPDATE, "writing" while a SQLite transaction holds the write
\* lock.  stale says that SQLite has committed since this one's snapshot.
Idle == [pc |-> "idle"]

InFlight == [pc : {"sent", "read", "writing"}, actor : Staff, report : Reports,
             to : Status, from : Status, stale : BOOLEAN]

At(q, pc) == req[q].pc = pc

Filed == {r \in Reports : status[r] # "none"}

Init == /\ store \in Stores
        /\ status = [r \in Reports |-> "none"]
        /\ stamp = [r \in Reports |-> 0]
        /\ audit = [r \in Reports |-> <<>>]
        /\ req = [q \in Requests |-> Idle]
        /\ now = 0

Tick == /\ now < MaxTime
        /\ now' = now + 1
        /\ UNCHANGED <<store, status, stamp, audit, req>>

--------------------------------------------------------------------------------
(***************************************************************************)
(* SQLite in WAL mode: a transaction reads the snapshot of its first       *)
(* SELECT and may write only while that snapshot is the newest; a commit   *)
(* of another makes it stale.  One transaction writes at a time.           *)
(***************************************************************************)

Writer == {q \in Requests : At(q, "writing")}

\* The other handlers' snapshots once something is committed.
Outdated(q) == IF At(q, "read") THEN [req[q] EXCEPT !.stale = TRUE] ELSE req[q]

(***************************************************************************)
(* Filing.  A description is counted in bytes by the service and in        *)
(* characters by the Postgres constraint: "wide" is one of enough bytes    *)
(* and too few characters.                                                 *)
(***************************************************************************)

Validate(input) == input # "invalid"

ConstraintHolds(input) == input # "wide"

Insert(r) == /\ status' = [status EXCEPT ![r] = "open"]
             /\ stamp' = [stamp EXCEPT ![r] = now]

CreatePostgres(r, input) == /\ store = "postgres"
                            /\ ConstraintHolds(input)
                            /\ Insert(r)
                            /\ UNCHANGED req

CreateSQLite(r) == /\ store = "sqlite"
                   /\ Writer = {}
                   /\ Insert(r)
                   /\ req' = [q \in Requests |-> Outdated(q)]

CreateMemory(r) == /\ store = "memory"
                   /\ Insert(r)
                   /\ UNCHANGED req

CreateReport(r, input) == /\ status[r] = "none"
                          /\ Validate(input)
                          /\ \/ CreatePostgres(r, input)
                             \/ CreateSQLite(r)
                             \/ CreateMemory(r)
                          /\ UNCHANGED <<store, audit, now>>

--------------------------------------------------------------------------------
(***************************************************************************)
(* Moving a report.                                                        *)
(***************************************************************************)

\* Ids are fresh UUIDs, so a request that can succeed names a filed report (one
\* that names no report is answered 409 and changes nothing).
TransitionReport(q, actor, r, to) ==
    /\ At(q, "idle")
    /\ r \in Filed
    /\ req' = [req EXCEPT ![q] = [pc |-> "sent", actor |-> actor, report |-> r,
                                  to |-> to, from |-> "open", stale |-> FALSE]]
    /\ UNCHANGED <<store, status, stamp, audit, now>>

\* ErrNotFound, for a move the status machine does not have, is answered 409.
Conflict(q) == /\ req' = [req EXCEPT ![q] = Idle]
               /\ UNCHANGED <<store, status, stamp, audit, now>>

Read(q) == /\ req' = [req EXCEPT ![q].pc = "read", ![q].from = status[req[q].report]]
           /\ UNCHANGED <<store, status, stamp, audit, now>>

\* The UPDATE and the INSERT of a transaction, which show together.
Apply(q, from) ==
    LET r == req[q].report
    IN  /\ status' = [status EXCEPT ![r] = req[q].to]
        /\ audit' = [audit EXCEPT ![r] =
                Append(@, [actor |-> req[q].actor, from |-> from, to |-> req[q].to])]
        /\ UNCHANGED <<store, stamp, now>>

\* Fault: a lock that its own holder waits for.
UnlockedByAnyone(r) == \A p \in Requests : ~At(p, "idle") => req[p].report # r

Unlocked(r) == \A p \in Requests : At(p, "read") => req[p].report # r

\* Fault: SELECT without FOR UPDATE.
LockNothing(q) == /\ store = "postgres"
                  /\ At(q, "sent")
                  /\ IF ValidTransition(status[req[q].report], req[q].to)
                     THEN Read(q)
                     ELSE Conflict(q)

\* Postgres: SELECT ... FOR UPDATE waits for the row's lock and reads the row
\* as its last holder left it.
LockPostgres(q) == /\ store = "postgres"
                   /\ At(q, "sent")
                   /\ Unlocked(req[q].report)
                   /\ IF ValidTransition(status[req[q].report], req[q].to)
                      THEN Read(q)
                      ELSE Conflict(q)

CommitPostgres(q) == /\ store = "postgres"
                     /\ At(q, "read")
                     /\ Apply(q, req[q].from)
                     /\ req' = [req EXCEPT ![q] = Idle]

\* SQLite: BEGIN is deferred, so the SELECT locks nothing.
ReadSQLite(q) == /\ store = "sqlite"
                 /\ At(q, "sent")
                 /\ IF ValidTransition(status[req[q].report], req[q].to)
                    THEN Read(q)
                    ELSE Conflict(q)

WriteSQLite(q) == /\ store = "sqlite"
                  /\ At(q, "read")
                  /\ ~req[q].stale
                  /\ Writer = {}
                  /\ req' = [req EXCEPT ![q].pc = "writing"]
                  /\ UNCHANGED <<store, status, stamp, audit, now>>

CommitSQLite(q) == /\ store = "sqlite"
                   /\ At(q, "writing")
                   /\ Apply(q, req[q].from)
                   /\ req' = [p \in Requests |-> IF p = q THEN Idle ELSE Outdated(p)]

TransitionMemory(q) ==
    /\ store = "memory"
    /\ At(q, "sent")
    /\ IF ValidTransition(status[req[q].report], req[q].to)
       THEN /\ Apply(q, status[req[q].report])
            /\ req' = [req EXCEPT ![q] = Idle]
       ELSE Conflict(q)

\* Any other error rolls the transaction back and is answered 500: SQLite's
\* refusal of a stale snapshot, a lock waited for too long, a lost connection,
\* a server that stops.
Fail(q) == /\ store # "memory"
           /\ ~At(q, "idle")
           /\ req' = [req EXCEPT ![q] = Idle]
           /\ UNCHANGED <<store, status, stamp, audit, now>>

Handle(q) == \/ LockPostgres(q)
             \/ CommitPostgres(q)
             \/ ReadSQLite(q)
             \/ WriteSQLite(q)
             \/ CommitSQLite(q)
             \/ TransitionMemory(q)

Next == \/ Tick
        \/ \E r \in Reports, input \in {"valid", "wide", "invalid"} : CreateReport(r, input)
        \/ \E q \in Requests, a \in Staff, r \in Reports, to \in Status :
               TransitionReport(q, a, r, to)
        \/ \E q \in Requests : Handle(q) \/ Fail(q)

\* Handlers are goroutines of a running server, so each is scheduled; a waiter
\* for a row lock is served in its turn.  SQLite answers a stale snapshot with
\* an error at once, and every other error is possible at most.
Fairness == \A q \in Requests :
                /\ SF_vars(Handle(q))
                /\ WF_vars(Fail(q) /\ At(q, "read") /\ req[q].stale)

Spec == Init /\ [][Next]_vars /\ Fairness

--------------------------------------------------------------------------------
(***************************************************************************)
(* The staff list: the newest ListLimit reports.  SQLite orders the text   *)
(* of the time, in which a fraction that ends in zeros is cut off: the     *)
(* text of a whole second sorts after those of the same second that have a *)
(* fraction.  The memory store lists in the order of filing.               *)
(***************************************************************************)

Second(t) == t \div Parts

TextRank(t) == IF t % Parts = 0 THEN t + Parts ELSE t

\* Fault: ORDER BY created_at without DESC.
RankOldest(r) == -stamp[r]

Rank(r) == CASE store = "postgres" -> stamp[r]
             [] store = "sqlite" -> TextRank(stamp[r])
             [] OTHER -> -stamp[r]

\* The sets of reports a list may show (reports of equal rank come in any order).
Lists == {L \in SUBSET Filed :
             /\ \/ Cardinality(L) = ListLimit
                \/ L = Filed /\ Cardinality(L) < ListLimit
             /\ \A r \in L, s \in Filed \ L : Rank(s) <= Rank(r)}

--------------------------------------------------------------------------------

TypeOK == /\ store \in Stores
          /\ status \in [Reports -> Status \union {"none"}]
          /\ stamp \in [Reports -> 0..MaxTime]
          /\ audit \in [Reports -> Seq(Step)]
          /\ req \in [Requests -> InFlight \union {Idle}]
          /\ now \in 0..MaxTime

\* The audit rows of a report tell its whole story: they start from open, each
\* leaves the status the one before reached, each is a move the status machine
\* has, and the last reached the status the report has now; whichever store,
\* and however many staff members move the report at once.
Chain(s, rows) == /\ rows = <<>> => s \in {"none", "open"}
                  /\ rows # <<>> => rows[1].from = "open" /\ rows[Len(rows)].to = s
                  /\ \A i \in 1..Len(rows) : ValidTransition(rows[i].from, rows[i].to)
                  /\ \A i \in 1..(Len(rows) - 1) : rows[i].to = rows[i + 1].from

AuditChains == \A r \in Reports : Chain(status[r], audit[r])

\* A transaction that is about to write holds the status the report has: the
\* row lock, or the newest snapshot, has kept every other writer away.
HeldStatusIsCurrent ==
    \A q \in Requests : \/ At(q, "writing")
                        \/ At(q, "read") /\ (store = "postgres" \/ ~req[q].stale)
        => status[req[q].report] = req[q].from

\* On the stores the service is deployed with, a report the staff list leaves
\* out for want of room was not filed in a later second than one it shows,
\* although SQLite compares times as text.
OmitsNoNewerSecond == store # "memory" =>
    \A L \in Lists : \A r \in L, s \in Filed \ L : Second(stamp[s]) <= Second(stamp[r])

\* Every report staff have not resolved is in the list they work from.  (False
\* once more than ListLimit reports are filed: nothing else lists the older
\* ones, and open reports are then out of everyone's sight.)
UnresolvedAreListed == \A L \in Lists, r \in Filed : status[r] # "resolved" => r \in L

\* Waiting for a row lock, losing the race for SQLite's only writer or being
\* a transition is answered in the end.
RequestsAreAnswered == \A q \in Requests : ~At(q, "idle") ~> At(q, "idle")

\* The reports implement ReportTrail: a report's life is one walk along the
\* status machine.
Trail(r) == IF status[r] = "none"
            THEN <<>>
            ELSE <<"open">> \o [i \in 1..Len(audit[r]) |-> audit[r][i].to]

Desk == INSTANCE ReportTrail WITH trail <- [r \in Reports |-> Trail(r)]

ImplementsReportTrail == Desk!Spec
================================================================================
