-------------------------- MODULE ListingDevStores --------------------------
(***************************************************************************)
(* The handlers of ListingLifecycle on the two development stores, of      *)
(* which one is chosen when the service starts.  Both keep a listing as    *)
(* one value and no constraints: a seller's save writes the moderation     *)
(* fields of its copy too, and nothing refuses an incomplete row.  SQLite  *)
(* writes the moderated listing and its audit row in two statements, under *)
(* a mutex that writers take and readers do not.                           *)
(*                                                                         *)
(* The address is left out (row[l].address stays FALSE): what happens to   *)
(* it is ListingLifecycle's AddressSurvives.                               *)
(***************************************************************************)
EXTENDS ListingLifecycle

VARIABLES
  store,      \* "sqlite" or "memory"
  copied,     \* the moderation_report_id in each slot's copy
  auditing    \* the SQLite moderation whose audit row is still to be written

devVars == <<owner, row, moderation, images, audit, clock, request, store, copied, auditing>>

NoAudit == [action |-> "none"]

\* s.mu: a SQLite moderation holds it from its read to its audit row.
MutexFree == auditing = NoAudit

DevTypeOK ==
  /\ TypeOK
  /\ store \in {"sqlite", "memory"}
  /\ copied \in [Slot -> Report \cup {NoReport}]
  /\ auditing \in [action: {"hide", "restore"}, listing: Listing, report: Report]
                    \cup {NoAudit}

DevInit ==
  /\ Init
  /\ store \in {"sqlite", "memory"}
  /\ copied = [s \in Slot |-> NoReport]
  /\ auditing = NoAudit

-----------------------------------------------------------------------------
(* The writes that one statement, or one critical section, carries out.    *)

CreateSQLite(o, l) == store = "sqlite" /\ MutexFree /\ Create(o, l)

CreateMemory(o, l) == store = "memory" /\ Create(o, l)

AddImageSQLite(o, l, p) == store = "sqlite" /\ MutexFree /\ AddImage(o, l, p)

AddImageMemory(o, l, p) == store = "memory" /\ AddImage(o, l, p)

DeleteImageSQLite(o, l, p) == store = "sqlite" /\ MutexFree /\ DeleteImage(o, l, p)

DeleteImageMemory(o, l, p) == store = "memory" /\ DeleteImage(o, l, p)

\* The handler in slot s is done with its copy.
Forget(s) == /\ copied' = [copied EXCEPT ![s] = NoReport]
             /\ UNCHANGED <<store, auditing>>

\* The whole listing is replaced by the copy, its moderation fields included.
SaveCopy(s) ==
  LET l == request[s].listing
  IN  /\ request[s].pc = "save"
      /\ owner[l] = request[s].by
      /\ row' = [row EXCEPT ![l] = request[s].candidate]
      /\ moderation' = [moderation EXCEPT ![l] = copied[s]]
      /\ request' = [request EXCEPT ![s] = NoRequest]
      /\ Forget(s)
      /\ UNCHANGED <<owner, images, audit, clock>>

\* Fault: a save that does not wait for the mutex.
SaveOwnerUnlocked(s) == store = "sqlite" /\ SaveCopy(s)

SaveOwnerSQLite(s) == store = "sqlite" /\ MutexFree /\ SaveCopy(s)

SaveOwnerMemory(s) == store = "memory" /\ SaveCopy(s)

-----------------------------------------------------------------------------
(* Moderation.                                                             *)

\* The listing a hide leaves: everything but the status and the report.
Hidden(l, report) ==
  /\ row[l].status = "published"
  /\ row' = [row EXCEPT ![l].status = "moderation_hidden"]
  /\ moderation' = [moderation EXCEPT ![l] = report]

\* The listing a restore leaves, public since the time t.
Restored(l, t) ==
  /\ row[l].status = "moderation_hidden"
  /\ row' = [row EXCEPT ![l].status = "published", ![l].publishedAt = t]
  /\ moderation' = [moderation EXCEPT ![l] = NoReport]

\* The memory store keeps the publish time of before the hide.
ModerateMemory(l, action, report) ==
  /\ store = "memory"
  /\ FreeSlot
  /\ owner[l] # NoOwner
  /\ \/ action = "hide" /\ Hidden(l, report)
     \/ action = "restore" /\ Restored(l, row[l].publishedAt)
  /\ Record(l, action, report)
  /\ UNCHANGED <<owner, images, clock, request, store, copied, auditing>>

\* The first of the two SQLite statements: the listing.
ModerateSQLite(l, action, report) ==
  /\ store = "sqlite"
  /\ MutexFree
  /\ FreeSlot
  /\ owner[l] # NoOwner
  /\ Len(audit[l]) < MaxAudit
  /\ \/ /\ action = "hide"
        /\ Hidden(l, report)
        /\ UNCHANGED clock
     \/ /\ action = "restore"
        /\ clock < MaxClock
        /\ Restored(l, clock + 1)
        /\ clock' = clock + 1
  /\ auditing' = [action |-> action, listing |-> l, report |-> report]
  /\ UNCHANGED <<owner, images, audit, request, store, copied>>

\* The second: the audit row.
InsertAction ==
  /\ ~MutexFree
  /\ Record(auditing.listing, auditing.action, auditing.report)
  /\ auditing' = NoAudit
  /\ UNCHANGED <<owner, row, moderation, images, clock, request, store, copied>>

\* The INSERT of the audit row fails, of a cancelled request perhaps: staff are
\* answered 500, the listing stays moderated and no row says so.  Other
\* handlers go on with the copies they have.
InsertFails ==
  /\ ~MutexFree
  /\ auditing' = NoAudit
  /\ UNCHANGED <<owner, row, moderation, images, audit, clock, request, store, copied>>

\* The server stops between the two statements, and every handler with it.
\* (At any other time a stop is GiveUp of each handler.  The memory store loses
\* everything when the process ends; it serves one test at a time.)
Stop ==
  /\ store = "sqlite"
  /\ ~MutexFree
  /\ auditing' = NoAudit
  /\ request' = [s \in Slot |-> NoRequest]
  /\ copied' = [s \in Slot |-> NoReport]
  /\ UNCHANGED <<owner, row, moderation, images, audit, clock, store>>

-----------------------------------------------------------------------------
(* The handlers that read a copy (without the mutex) and save it later.    *)

\* The copy holds the moderation fields along with the row.
CopyModeration(s, l) ==
  /\ copied' = [copied EXCEPT ![s] = moderation[l]]
  /\ UNCHANGED <<store, auditing>>

ReadThenSave(s, o, l) ==
  /\ \/ BeginPatch(s, o, l) /\ ~request'[s].candidate.address
     \/ BeginPublish(s, o, l)
     \/ BeginUnpublish(s, o, l)
     \/ BeginClose(s, o, l)
     \/ BeginArchive(s, o, l)
  /\ CopyModeration(s, l)

DevNext ==
  \/ \E o \in Owner, l \in Listing :
       /\ \/ /\ CreateSQLite(o, l) \/ CreateMemory(o, l)
             /\ ~row'[l].address
          \/ \E p \in Position : \/ AddImageSQLite(o, l, p) \/ AddImageMemory(o, l, p)
                                 \/ DeleteImageSQLite(o, l, p) \/ DeleteImageMemory(o, l, p)
       /\ UNCHANGED <<store, copied, auditing>>
  \/ \E l \in Listing, action \in {"hide", "restore"}, report \in Report :
       ModerateMemory(l, action, report) \/ ModerateSQLite(l, action, report)
  \/ InsertAction
  \/ InsertFails
  \/ Stop
  \/ \E s \in Slot, o \in Owner, l \in Listing : ReadThenSave(s, o, l)
  \/ \E s \in Slot : SaveOwnerSQLite(s) \/ SaveOwnerMemory(s)
  \/ \E s \in Slot : \/ /\ CheckPatch(s) \/ CheckPublish(s)
                        /\ UNCHANGED <<store, copied, auditing>>
                     \/ GiveUp(s) /\ Forget(s)

DevSpec == DevInit /\ [][DevNext]_devVars
-----------------------------------------------------------------------------
(* What both stores keep without a constraint to help them.                *)

\* A hidden listing names the report it was hidden for, and only a hidden
\* listing, or one archived while hidden, names a report: a save writes both
\* fields of one copy, so not even a stale one can part them.  (On Postgres a
\* stale save can: the columns are written by different statements there.)
HiddenRowsNameTheirReport ==
  \A l \in Listing :
    /\ row[l].status = "moderation_hidden" => moderation[l] # NoReport
    /\ moderation[l] # NoReport => row[l].status \in {"moderation_hidden", "archived"}

\* A public listing has a publish time, which the newest-first order of the
\* public list dereferences: BeforeBrowse never meets a nil one.
PublicRowsHaveTheirTime ==
  \A l \in Listing : row[l].status = "published" => row[l].publishedAt # 0

\* A public listing has a price, which the other two orders dereference.  Hiding
\* a listing and restoring it checks no field, but what a PATCH can blank in
\* between is not the price.
PublicRowsHaveTheirPrice ==
  \A l \in Listing : row[l].status = "published" => row[l].price

\* All at once: no row of a development store (which no constraint watches)
\* lacks a field that its status stands for.
RowsFitTheirStatus ==
  HiddenRowsNameTheirReport /\ PublicRowsHaveTheirTime /\ PublicRowsHaveTheirPrice

\* When an audit row is written the listing is as the row says, although on
\* SQLite the listing was written by a statement before: the mutex has kept
\* every seller's save out in between.
AuditRowsAreTrueWhenWritten ==
  [][\A l \in Listing : audit'[l] # audit[l] =>
       LET last == audit'[l][Len(audit'[l])]
       IN  \/ /\ last.action = "hide"
              /\ row'[l].status = "moderation_hidden"
              /\ moderation'[l] = last.report
           \/ /\ last.action = "restore"
              /\ row'[l].status = "published"
              /\ moderation'[l] = NoReport]_devVars

-----------------------------------------------------------------------------
(* What fails.                                                             *)

\* A listing stays hidden until staff restore it; a hide that is not audited
\* cannot be repeated, since the listing is not public any more.
EveryHideIsAudited ==
  \A l \in Listing :
    row[l].status = "moderation_hidden" /\ MutexFree
      => audit[l] # <<>> /\ audit[l][Len(audit[l])].action = "hide"
=============================================================================
