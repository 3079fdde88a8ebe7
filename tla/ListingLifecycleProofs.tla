----------------------- MODULE ListingLifecycleProofs -----------------------
(***************************************************************************)
(* Theorems about ListingLifecycle and ListingDevStores for every number   *)
(* of listings, sellers and overlapping requests, and about                *)
(* ListingRefinement for requests that do not overlap.                     *)
(***************************************************************************)
EXTENDS ListingRefinement, ListingDevStores, TLAPS

(***************************************************************************)
(* The five handlers that read a copy differ only in the candidate they    *)
(* make of it.                                                             *)
(***************************************************************************)

\* A row that is, or was when hidden, public has its price.
Priced(r) == r.status \in {"published", "closed", "moderation_hidden"} => r.price

\* A handler takes slot s with a copy of a listing of its caller's.
Starts(s) ==
  \E r \in Request :
    /\ request[s] = NoRequest
    /\ request' = [request EXCEPT ![s] = r]
    /\ r.by = owner[r.listing]
    /\ PublishTimeFits(row[r.listing]) => PublishTimeFits(r.candidate)
    /\ Priced(row[r.listing]) => Priced(r.candidate)
    /\ r.pc = "save" => r.candidate.status # "published"
    /\ UNCHANGED <<owner, row, moderation, images, audit, clock>>

\* The copy a handler reads is a row.
LEMMA ReadCopyType ==
  ASSUME TypeOK, NEW l \in Listing
  PROVE  /\ ReadCopy(l) \in Row
         /\ ReadCopy(l).status = row[l].status
         /\ ReadCopy(l).publishedAt = row[l].publishedAt
         /\ ReadCopy(l).price = row[l].price
BY DEF TypeOK, ReadCopy, Row

\* Begin starts a handler when its candidate's publish time and price fit its
\* status and a candidate that skips the image count is not public.
LEMMA BeginStarts ==
  ASSUME NEW s \in Slot, NEW o \in Owner, NEW l \in Listing,
         NEW pc \in {"count", "save"}, NEW candidate \in Row,
         Begin(s, o, l, pc, candidate),
         PublishTimeFits(row[l]) => PublishTimeFits(candidate),
         Priced(row[l]) => Priced(candidate),
         pc = "save" => candidate.status # "published"
  PROVE  Starts(s)
<1> DEFINE r == [pc |-> pc, listing |-> l, by |-> o, candidate |-> candidate]
<1>1. r \in Request
  BY DEF Request
<1>2. QED
  BY <1>1 DEF Begin, Starts

\* Each of the five handlers starts that way.
LEMMA HandlersStart ==
  ASSUME TypeOK, NEW s \in Slot, NEW o \in Owner, NEW l \in Listing,
         \/ BeginPatch(s, o, l) \/ BeginPublish(s, o, l) \/ BeginUnpublish(s, o, l)
         \/ BeginClose(s, o, l) \/ BeginArchive(s, o, l)
  PROVE  Starts(s)
<1> DEFINE unpublished == [ReadCopy(l) EXCEPT !.status = "draft", !.publishedAt = 0]
           closed == [ReadCopy(l) EXCEPT !.status = "closed"]
           archived == [ReadCopy(l) EXCEPT !.status = "archived"]
<1>1. CASE BeginPatch(s, o, l)
  <2>1. PICK p \in BOOLEAN, c \in BOOLEAN, k \in BOOLEAN, a \in BOOLEAN :
          Begin(s, o, l, IF ReadCopy(l).status = "published" THEN "count" ELSE "save",
                [ReadCopy(l) EXCEPT !.price = @ \/ p, !.columns = c, !.contact = k,
                                    !.address = a])
    BY <1>1 DEF BeginPatch
  <2> DEFINE patched == [ReadCopy(l) EXCEPT !.price = @ \/ p, !.columns = c, !.contact = k,
                                            !.address = a]
  <2>2. /\ patched \in Row
        /\ patched.status = row[l].status
        /\ patched.publishedAt = row[l].publishedAt
        /\ row[l].price => patched.price
    BY ReadCopyType DEF Row
  <2>3. /\ PublishTimeFits(row[l]) => PublishTimeFits(patched)
        /\ Priced(row[l]) => Priced(patched)
    BY <2>2 DEF PublishTimeFits, Priced
  <2>4. QED
    BY <2>1, <2>2, <2>3, ReadCopyType, BeginStarts
<1>2. CASE BeginPublish(s, o, l)
  <2>1. /\ PublishTimeFits(row[l]) => PublishTimeFits(ReadCopy(l))
        /\ Priced(row[l]) => Priced(ReadCopy(l))
    BY ReadCopyType DEF PublishTimeFits, Priced
  <2>2. QED
    BY <1>2, <2>1, ReadCopyType, BeginStarts DEF BeginPublish
<1>3. CASE BeginUnpublish(s, o, l)
  <2>1. /\ unpublished \in Row
        /\ unpublished.status = "draft"
        /\ unpublished.publishedAt = 0
    BY ReadCopyType DEF Row, Status
  <2>2. PublishTimeFits(unpublished) /\ Priced(unpublished)
    BY <2>1 DEF PublishTimeFits, Priced
  <2>3. QED
    BY <1>3, <2>1, <2>2, BeginStarts DEF BeginUnpublish
<1>4. CASE BeginClose(s, o, l)
  <2>1. /\ closed \in Row
        /\ closed.status = "closed"
        /\ closed.publishedAt = row[l].publishedAt /\ closed.price = row[l].price
    BY ReadCopyType DEF Row, Status
  <2>2. /\ PublishTimeFits(row[l]) => PublishTimeFits(closed)
        /\ Priced(row[l]) => Priced(closed)
    BY <1>4, <2>1 DEF BeginClose, PublishTimeFits, Priced
  <2>3. QED
    BY <1>4, <2>1, <2>2, BeginStarts DEF BeginClose
<1>5. CASE BeginArchive(s, o, l)
  <2>1. /\ archived \in Row
        /\ archived.status = "archived"
    BY ReadCopyType DEF Row, Status
  <2>2. PublishTimeFits(archived) /\ Priced(archived)
    BY <2>1 DEF PublishTimeFits, Priced
  <2>3. QED
    BY <1>5, <2>1, <2>2, BeginStarts DEF BeginArchive
<1>6. QED
  BY <1>1, <1>2, <1>3, <1>4, <1>5

\* Recording a decision keeps the audit log's type.
LEMMA RecordType ==
  ASSUME TypeOK, NEW l \in Listing, NEW report \in Report,
         NEW action \in {"hide", "restore"}, Record(l, action, report)
  PROVE  audit' \in [Listing -> Seq(Decision)]
<1>1. [action |-> action, report |-> report] \in Decision
  BY DEF Decision
<1>2. audit[l] \in Seq(Decision)
  BY DEF TypeOK
<1>3. Append(audit[l], [action |-> action, report |-> report]) \in Seq(Decision)
  BY <1>1, <1>2
<1>4. QED
  BY <1>3 DEF Record, TypeOK

(***************************************************************************)
(* Type correctness.                                                       *)
(***************************************************************************)

\* Every step keeps the types.
LEMMA TypeStep == TypeOK /\ [Next]_vars => TypeOK'
<1> SUFFICES ASSUME TypeOK, [Next]_vars
             PROVE  TypeOK'
  OBVIOUS
<1>1. ASSUME NEW o \in Owner, NEW l \in Listing, Create(o, l)
      PROVE  TypeOK'
  <2>1. PICK p \in BOOLEAN, c \in BOOLEAN, k \in BOOLEAN, a \in BOOLEAN :
          row' = [row EXCEPT ![l] = [EmptyRow EXCEPT !.price = p, !.columns = c,
                                                     !.contact = k, !.address = a]]
    BY <1>1 DEF Create
  <2>2. [EmptyRow EXCEPT !.price = p, !.columns = c, !.contact = k, !.address = a] \in Row
    BY DEF EmptyRow, Row, Status
  <2>3. QED
    BY <1>1, <2>1, <2>2 DEF Create, TypeOK
<1>2. ASSUME NEW o \in Owner, NEW l \in Listing, NEW p \in Position,
             AddImage(o, l, p) \/ DeleteImage(o, l, p)
      PROVE  TypeOK'
  BY <1>2 DEF AddImage, DeleteImage, TypeOK
<1>3. ASSUME NEW l \in Listing, NEW report \in Report, Hide(l, report)
      PROVE  TypeOK'
  <2>1. [row[l] EXCEPT !.status = "moderation_hidden"] \in Row
    BY DEF TypeOK, Row, Status
  <2>2. row' \in [Listing -> Row]
    BY <1>3, <2>1 DEF Hide, TypeOK
  <2>3. audit' \in [Listing -> Seq(Decision)]
    BY <1>3, RecordType DEF Hide
  <2>4. QED
    BY <1>3, <2>2, <2>3 DEF Hide, TypeOK
<1>4. ASSUME NEW l \in Listing, NEW report \in Report, Restore(l, report)
      PROVE  TypeOK'
  <2>1. [row[l] EXCEPT !.status = "published", !.publishedAt = clock + 1] \in Row
    <3>1. clock + 1 \in Nat
      BY DEF TypeOK
    <3>2. row[l] \in Row
      BY DEF TypeOK
    <3>3. QED
      BY <3>1, <3>2 DEF Row, Status
  <2>2. row' \in [Listing -> Row]
    BY <1>4, <2>1 DEF Restore, TypeOK
  <2>3. audit' \in [Listing -> Seq(Decision)]
    BY <1>4, RecordType DEF Restore
  <2>4. QED
    BY <1>4, <2>2, <2>3 DEF Restore, TypeOK
<1>5. ASSUME NEW s \in Slot, Starts(s)
      PROVE  TypeOK'
  BY <1>5 DEF Starts, TypeOK
<1>6. ASSUME NEW s \in Slot, CheckPatch(s)
      PROVE  TypeOK'
  <2>1. request[s] \in Request
    BY <1>6 DEF CheckPatch, TypeOK, NoRequest
  <2>2. [request[s] EXCEPT !.pc = "save"] \in Request
    BY <2>1 DEF Request
  <2>3. request' \in [Slot -> Request \cup {NoRequest}]
    BY <1>6, <2>2 DEF CheckPatch, TypeOK
  <2>4. QED
    BY <1>6, <2>3 DEF CheckPatch, TypeOK
<1>7. ASSUME NEW s \in Slot, CheckPublish(s)
      PROVE  TypeOK'
  <2>1. request[s] \in Request
    BY <1>7 DEF CheckPublish, TypeOK, NoRequest
  <2>2. request'[s] \in Request
    <3> DEFINE stamped == [request[s].candidate EXCEPT !.status = "published",
                                                       !.publishedAt = clock + 1]
    <3>1. clock + 1 \in Nat
      BY DEF TypeOK
    <3>2. stamped \in Row
      BY <2>1, <3>1 DEF Request, Row, Status
    <3>3. request'[s] = [request[s] EXCEPT !.pc = "save", !.candidate = stamped]
      BY <1>7, <2>1 DEF CheckPublish, TypeOK, Request, Row
    <3>4. QED
      BY <2>1, <3>2, <3>3 DEF Request
  <2>3. request' \in [Slot -> Request \cup {NoRequest}]
    BY <1>7, <2>2 DEF CheckPublish, TypeOK
  <2>4. QED
    BY <1>7, <2>3 DEF CheckPublish, TypeOK
<1>8. ASSUME NEW s \in Slot, SaveOwner(s)
       PROVE  TypeOK'
  BY <1>8 DEF SaveOwner, TypeOK, Request, NoRequest
<1>9. ASSUME NEW s \in Slot, GiveUp(s)
       PROVE  TypeOK'
  BY <1>9 DEF GiveUp, TypeOK
<1>10. CASE UNCHANGED vars
  BY <1>10 DEF vars, TypeOK
<1>11. QED
  BY <1>1, <1>2, <1>3, <1>4, <1>5, <1>6, <1>7, <1>8, <1>9, <1>10, HandlersStart
  DEF Next

\* Every reachable state has the types TypeOK states.
THEOREM TypeCorrect == Spec => []TypeOK
<1>1. Init => TypeOK
  BY ConstantsAssumption DEF Init, TypeOK, EmptyRow, Row, Status
<1>2. QED
  BY <1>1, TypeStep, PTL DEF Spec

(***************************************************************************)
(* Publish times, checked candidates and what the constraints refuse.      *)
(***************************************************************************)

\* A candidate that is public and about to be saved passed the publish check.
CheckedCandidates ==
  \A s \in Slot :
    request[s].pc = "save" /\ request[s].candidate.status = "published"
      => Complete(request[s].candidate) /\ request[s].candidate.contact

\* Neither a row nor a copy that is, or was, public has lost its price.
PricesAreKept ==
  /\ \A l \in Listing : Priced(row[l])
  /\ \A s \in Slot : request[s] # NoRequest => Priced(request[s].candidate)

SaveInv == PublishTimeMatchesStatus /\ PricesAreKept /\ CheckedCandidates

\* The three facts about rows and copies that no step breaks, whatever overlaps.
THEOREM SaveInvariant == Spec => []SaveInv
<1>1. Init => SaveInv
  BY DEF Init, SaveInv, PublishTimeMatchesStatus, PricesAreKept, CheckedCandidates,
         PublishTimeFits, Priced, EmptyRow, NoRequest
<1>2. TypeOK /\ SaveInv /\ [Next]_vars => SaveInv'
  <2> SUFFICES ASSUME TypeOK, SaveInv, [Next]_vars
               PROVE  SaveInv'
    OBVIOUS
  <2> USE DEF SaveInv, PublishTimeMatchesStatus, PricesAreKept, CheckedCandidates
  <2>1. ASSUME NEW o \in Owner, NEW l \in Listing, Create(o, l)
        PROVE  SaveInv'
    <3>1. PICK p \in BOOLEAN, c \in BOOLEAN, k \in BOOLEAN, a \in BOOLEAN :
            row' = [row EXCEPT ![l] = [EmptyRow EXCEPT !.price = p, !.columns = c,
                                                       !.contact = k, !.address = a]]
      BY <2>1 DEF Create
    <3> DEFINE created == [EmptyRow EXCEPT !.price = p, !.columns = c, !.contact = k,
                                           !.address = a]
    <3>2. PublishTimeFits(created) /\ Priced(created)
      BY DEF EmptyRow, PublishTimeFits, Priced
    <3>3. \A m \in Listing : row'[m] = IF m = l THEN created ELSE row[m]
      BY <3>1 DEF TypeOK
    <3> HIDE DEF created
    <3>4. QED
      BY <2>1, <3>2, <3>3 DEF Create, PublishTimeFits, Priced
  <2>2. ASSUME NEW o \in Owner, NEW l \in Listing, NEW p \in Position,
               AddImage(o, l, p) \/ DeleteImage(o, l, p)
        PROVE  SaveInv'
    BY <2>2 DEF AddImage, DeleteImage, PublishTimeFits, Priced
  <2>3. ASSUME NEW l \in Listing, NEW report \in Report, Hide(l, report)
        PROVE  SaveInv'
    <3>1. \A m \in Listing : PublishTimeFits(row'[m]) /\ Priced(row'[m])
      BY <2>3 DEF Hide, TypeOK, Row, PublishTimeFits, Priced, DBAccepts, Complete
    <3>2. QED
      BY <2>3, <3>1 DEF Hide, PublishTimeFits, Priced
  <2>4. ASSUME NEW l \in Listing, NEW report \in Report, Restore(l, report)
        PROVE  SaveInv'
    <3>1. \A m \in Listing : PublishTimeFits(row'[m]) /\ Priced(row'[m])
      BY <2>4 DEF Restore, TypeOK, Row, PublishTimeFits, Priced, DBAccepts, Complete
    <3>2. QED
      BY <2>4, <3>1 DEF Restore, PublishTimeFits, Priced
  <2>5. ASSUME NEW s \in Slot, Starts(s)
        PROVE  SaveInv'
    <3>1. PICK r \in Request :
            /\ request' = [request EXCEPT ![s] = r]
            /\ PublishTimeFits(row[r.listing]) => PublishTimeFits(r.candidate)
            /\ Priced(row[r.listing]) => Priced(r.candidate)
            /\ r.pc = "save" => r.candidate.status # "published"
            /\ row' = row
      BY <2>5 DEF Starts
    <3>2. PublishTimeFits(r.candidate) /\ Priced(r.candidate)
      BY <3>1 DEF Request
    <3>3. \A q \in Slot : request'[q] = IF q = s THEN r ELSE request[q]
      BY <3>1 DEF TypeOK
    <3>4. QED
      BY <3>1, <3>2, <3>3 DEF PublishTimeFits, Priced
  <2>6. ASSUME NEW s \in Slot, CheckPatch(s)
        PROVE  SaveInv'
    <3>1. /\ request[s] \in Request
          /\ Complete(request[s].candidate) /\ request[s].candidate.contact
      BY <2>6 DEF CheckPatch, TypeOK, NoRequest, MayPublish
    <3>2. \A q \in Slot : /\ request'[q].candidate = request[q].candidate
                          /\ q # s => request'[q] = request[q]
                          /\ request'[q] # NoRequest => request[q] # NoRequest
      BY <2>6, <3>1 DEF CheckPatch, TypeOK, Request, NoRequest
    <3>3. QED
      BY <2>6, <3>1, <3>2 DEF CheckPatch, PublishTimeFits, Priced
  <2>7. ASSUME NEW s \in Slot, CheckPublish(s)
        PROVE  SaveInv'
    <3>1. /\ request[s] \in Request
          /\ Complete(request[s].candidate) /\ request[s].candidate.contact
      BY <2>7 DEF CheckPublish, TypeOK, NoRequest, MayPublish
    <3>2. clock + 1 # 0
      BY DEF TypeOK
    <3>3. /\ request'[s].candidate.status = "published"
          /\ request'[s].candidate.publishedAt = clock + 1
          /\ Complete(request'[s].candidate) /\ request'[s].candidate.contact
          /\ \A q \in Slot : q # s => request'[q] = request[q]
      BY <2>7, <3>1 DEF CheckPublish, TypeOK, Request, Row, Complete
    <3>4. QED
      BY <2>7, <3>2, <3>3 DEF CheckPublish, PublishTimeFits, Priced, Complete
  <2>8. ASSUME NEW s \in Slot, SaveOwner(s)
        PROVE  SaveInv'
    <3>1. /\ request[s] \in Request
          /\ PublishTimeFits(request[s].candidate) /\ Priced(request[s].candidate)
      BY <2>8 DEF SaveOwner, TypeOK, NoRequest
    <3>2. /\ \A m \in Listing : row'[m] = IF m = request[s].listing
                                          THEN request[s].candidate ELSE row[m]
          /\ \A q \in Slot : request'[q] = IF q = s THEN NoRequest ELSE request[q]
      BY <2>8 DEF SaveOwner, TypeOK
    <3>3. QED
      BY <3>1, <3>2 DEF PublishTimeFits, Priced, NoRequest
  <2>9. ASSUME NEW s \in Slot, GiveUp(s)
        PROVE  SaveInv'
    <3>1. \A q \in Slot : request'[q] = IF q = s THEN NoRequest ELSE request[q]
      BY <2>9 DEF GiveUp, TypeOK
    <3>2. QED
      BY <2>9, <3>1 DEF GiveUp, PublishTimeFits, Priced, NoRequest
  <2>10. CASE UNCHANGED vars
    BY <2>10 DEF vars, PublishTimeFits, Priced
  <2>11. QED
    BY <2>1, <2>2, <2>3, <2>4, <2>5, <2>6, <2>7, <2>8, <2>9, <2>10, HandlersStart
    DEF Next
<1>3. QED
  BY <1>1, <1>2, TypeCorrect, PTL DEF Spec

\* published_at always agrees with the status, in rows and in copies.
THEOREM PublishTimesMatch == Spec => []PublishTimeMatchesStatus
<1>1. SaveInv => PublishTimeMatchesStatus
  BY DEF SaveInv
<1>2. QED
  BY <1>1, SaveInvariant, PTL

\* The constraints refuse a checked save only for a blanked closed listing.
THEOREM RefusalsAreBlankedClosedRows == Spec => []OnlyBlankedClosedRowsAreRefused
<1>1. TypeOK /\ SaveInv => OnlyBlankedClosedRowsAreRefused
  BY DEF TypeOK, SaveInv, PublishTimeMatchesStatus, PricesAreKept, CheckedCandidates,
         OnlyBlankedClosedRowsAreRefused, PublishTimeFits, Priced, DBAccepts, Complete,
         NoRequest
<1>2. QED
  BY <1>1, TypeCorrect, SaveInvariant, PTL

(***************************************************************************)
(* The moderation columns and the audit log.                               *)
(***************************************************************************)

\* Only Hide and Restore write either record, and each writes both.
LEMMA ModerationWrites ==
  ASSUME TypeOK, [Next]_vars
  PROVE  \/ moderation' = moderation /\ audit' = audit
         \/ \E l \in Listing, report \in Report :
              \/ /\ moderation' = [moderation EXCEPT ![l] = report]
                 /\ audit' = [audit EXCEPT ![l] =
                                Append(@, [action |-> "hide", report |-> report])]
              \/ /\ moderation' = [moderation EXCEPT ![l] = NoReport]
                 /\ audit' = [audit EXCEPT ![l] =
                                Append(@, [action |-> "restore", report |-> report])]
<1>1. CASE UNCHANGED vars
  BY <1>1 DEF vars
<1>2. CASE \E l \in Listing, report \in Report : Hide(l, report) \/ Restore(l, report)
  BY <1>2 DEF Hide, Restore, Record
<1>3. CASE \E s \in Slot : CheckPatch(s) \/ CheckPublish(s) \/ SaveOwner(s) \/ GiveUp(s)
  BY <1>3 DEF CheckPatch, CheckPublish, SaveOwner, GiveUp
<1>4. CASE \E o \in Owner, l \in Listing :
             \/ Create(o, l)
             \/ \E p \in Position : AddImage(o, l, p)
             \/ \E p \in Position : DeleteImage(o, l, p)
  BY <1>4 DEF Create, AddImage, DeleteImage
<1>5. CASE \E s \in Slot : Starts(s)
  BY <1>5 DEF Starts
<1>6. QED
  BY <1>1, <1>2, <1>3, <1>4, <1>5, HandlersStart DEF Next

\* The report a listing is hidden under is the one its last audit row names.
THEOREM ModerationIsAudited == Spec => []ModerationMatchesAudit
<1>1. Init => ModerationMatchesAudit
  BY DEF Init, ModerationMatchesAudit
<1>2. TypeOK /\ ModerationMatchesAudit /\ [Next]_vars => ModerationMatchesAudit'
  <2> SUFFICES ASSUME TypeOK, ModerationMatchesAudit, [Next]_vars,
                      NEW m \in Listing
               PROVE  moderation'[m] =
                        IF audit'[m] # <<>> /\ audit'[m][Len(audit'[m])].action = "hide"
                        THEN audit'[m][Len(audit'[m])].report
                        ELSE NoReport
    BY DEF ModerationMatchesAudit
  <2>1. CASE moderation' = moderation /\ audit' = audit
    BY <2>1 DEF ModerationMatchesAudit
  <2>2. ASSUME NEW l \in Listing, NEW report \in Report, NEW action \in {"hide", "restore"},
               moderation' = [moderation EXCEPT ![l] =
                                IF action = "hide" THEN report ELSE NoReport],
               audit' = [audit EXCEPT ![l] =
                           Append(@, [action |-> action, report |-> report])]
        PROVE  moderation'[m] =
                 IF audit'[m] # <<>> /\ audit'[m][Len(audit'[m])].action = "hide"
                 THEN audit'[m][Len(audit'[m])].report
                 ELSE NoReport
    <3> DEFINE decision == [action |-> action, report |-> report]
    <3>1. CASE m = l
      <4>1. decision \in Decision /\ audit[l] \in Seq(Decision)
        BY DEF Decision, TypeOK
      <4>2. /\ Append(audit[l], decision) # <<>>
            /\ Append(audit[l], decision)[Len(Append(audit[l], decision))] = decision
        BY <4>1
      <4>3. audit'[m] = Append(audit[l], decision)
        BY <2>2, <3>1 DEF TypeOK
      <4>4. moderation'[m] = IF action = "hide" THEN report ELSE NoReport
        BY <2>2, <3>1 DEF TypeOK
      <4>5. QED
        BY <4>2, <4>3, <4>4
    <3>2. CASE m # l
      BY <2>2, <3>2 DEF TypeOK, ModerationMatchesAudit
    <3>3. QED
      BY <3>1, <3>2
  <2>3. QED
    BY <2>1, <2>2, ModerationWrites
<1>3. QED
  BY <1>1, <1>2, TypeCorrect, PTL DEF Spec

(***************************************************************************)
(* Who changes a row, and into what.                                       *)
(***************************************************************************)

\* A row changes by a creation, by the save of a slot's candidate, or in a
\* moderation that appends to the audit log.
LEMMA RowWrites ==
  ASSUME TypeOK, [Next]_vars, NEW l \in Listing, row'[l] # row[l]
  PROVE  \/ owner[l] = NoOwner
         \/ audit'[l] # audit[l]
         \/ \E s \in Slot : SaveOwner(s) /\ request[s].listing = l
<1>1. CASE UNCHANGED vars
  BY <1>1 DEF vars
<1>2. CASE \E m \in Listing, report \in Report : Hide(m, report) \/ Restore(m, report)
  <2>1. PICK m \in Listing, report \in Report, action \in {"hide", "restore"} :
          /\ Record(m, action, report)
          /\ \A k \in Listing : k # m => row'[k] = row[k]
    BY <1>2 DEF Hide, Restore, TypeOK
  <2>2. m = l
    BY <2>1
  <2> DEFINE decision == [action |-> action, report |-> report]
  <2>3. decision \in Decision /\ audit[l] \in Seq(Decision)
    BY DEF Decision, TypeOK
  <2>4. Len(Append(audit[l], decision)) # Len(audit[l])
    BY <2>3
  <2>5. audit'[l] = Append(audit[l], decision)
    BY <2>1, <2>2 DEF Record, TypeOK
  <2>6. QED
    BY <2>4, <2>5
<1>3. CASE \E s \in Slot : CheckPatch(s) \/ CheckPublish(s) \/ SaveOwner(s) \/ GiveUp(s)
  BY <1>3 DEF CheckPatch, CheckPublish, SaveOwner, GiveUp, TypeOK
<1>4. CASE \E o \in Owner, m \in Listing :
             \/ Create(o, m)
             \/ \E p \in Position : AddImage(o, m, p)
             \/ \E p \in Position : DeleteImage(o, m, p)
  BY <1>4 DEF Create, AddImage, DeleteImage, TypeOK
<1>5. CASE \E s \in Slot : Starts(s)
  BY <1>5 DEF Starts
<1>6. QED
  BY <1>1, <1>2, <1>3, <1>4, <1>5, HandlersStart DEF Next

\* No request of another seller, and no staff step without an audit row,
\* changes a listing.
THEOREM RowsChangeByOwnerOrAudit == Spec => ChangesAreTheOwnersOrAudited
<1>1. ASSUME TypeOK, [Next]_vars, NEW l \in Listing,
             owner[l] # NoOwner, row'[l] # row[l], audit'[l] = audit[l]
      PROVE  \E s \in Slot : /\ request[s] # NoRequest
                             /\ request[s].listing = l
                             /\ request[s].by = owner[l]
                             /\ request'[s] = NoRequest
  <2>1. PICK s \in Slot : SaveOwner(s) /\ request[s].listing = l
    BY <1>1, RowWrites
  <2>2. request[s] # NoRequest
    BY <2>1 DEF SaveOwner, NoRequest
  <2>3. request'[s] = NoRequest
    BY <1>1, <2>1 DEF SaveOwner, TypeOK
  <2>4. request[s].by = owner[l]
    BY <2>1 DEF SaveOwner
  <2>5. QED
    BY <2>1, <2>2, <2>3, <2>4
<1>2. TypeOK /\ [Next]_vars =>
        [\A l \in Listing :
           owner[l] # NoOwner /\ row'[l] # row[l] =>
             \/ audit'[l] # audit[l]
             \/ \E s \in Slot : /\ request[s] # NoRequest
                                /\ request[s].listing = l
                                /\ request[s].by = owner[l]
                                /\ request'[s] = NoRequest]_vars
  BY <1>1
<1>3. QED
  BY <1>2, TypeCorrect, PTL DEF Spec, ChangesAreTheOwnersOrAudited

\* What a seller's request saves as public has every field publishing needs.
THEOREM SellersPublishComplete == Spec => SellersNeverPublishIncomplete
<1>1. ASSUME TypeOK, SaveInv, [Next]_vars, NEW l \in Listing,
             row'[l] # row[l], row'[l].status = "published", audit'[l] = audit[l]
      PROVE  Complete(row'[l]) /\ row'[l].contact
  <2>1. CASE \E s \in Slot : SaveOwner(s) /\ request[s].listing = l
    BY <1>1, <2>1 DEF SaveOwner, TypeOK, SaveInv, CheckedCandidates
  <2>2. CASE owner[l] = NoOwner /\ ~ \E s \in Slot : SaveOwner(s) /\ request[s].listing = l
    <3>1. PICK o \in Owner, m \in Listing : Create(o, m)
      <4>1. ~ UNCHANGED vars
        BY <1>1 DEF vars
      <4>2. \A k \in Listing, report \in Report : ~ Hide(k, report) /\ ~ Restore(k, report)
        BY <1>1, <2>2 DEF Hide, Restore, TypeOK
      <4>3. \A s \in Slot : ~ CheckPatch(s) /\ ~ CheckPublish(s) /\ ~ GiveUp(s) /\ ~ Starts(s)
        BY <1>1 DEF CheckPatch, CheckPublish, GiveUp, Starts
      <4>4. \A s \in Slot : ~ SaveOwner(s)
        BY <1>1, <2>2 DEF SaveOwner, TypeOK
      <4>5. \A o \in Owner, k \in Listing, p \in Position :
              ~ AddImage(o, k, p) /\ ~ DeleteImage(o, k, p)
        BY <1>1 DEF AddImage, DeleteImage
      <4>6. QED
        BY <1>1, <4>1, <4>2, <4>3, <4>4, <4>5, HandlersStart DEF Next
    <3>2. row'[l].status = "draft"
      BY <1>1, <3>1 DEF Create, TypeOK, EmptyRow
    <3>3. QED
      BY <1>1, <3>2
  <2>3. QED
    BY <1>1, <2>1, <2>2, RowWrites
<1>2. TypeOK /\ SaveInv /\ [Next]_vars =>
        [\A l \in Listing :
           /\ row'[l] # row[l]
           /\ row'[l].status = "published"
           /\ audit'[l] = audit[l]
           => Complete(row'[l]) /\ row'[l].contact]_vars
  BY <1>1
<1>3. QED
  BY <1>2, TypeCorrect, SaveInvariant, PTL DEF Spec, SellersNeverPublishIncomplete
-----------------------------------------------------------------------------
(***************************************************************************)
(* One request at a time.  A busy slot keeps every other handler out, so   *)
(* the copy a handler holds is the row but for what the handler is there   *)
(* to change, until it is saved.                                           *)
(***************************************************************************)

OneRequest == \A s, t \in Slot : s = t

SameFields(c, r) ==
  c.price = r.price /\ c.columns = r.columns /\ c.contact = r.contact

\* What the handler that holds the copy c of row r will do to listing l.
WillEdit(pc, c, r) ==
  /\ c.status = r.status /\ c.publishedAt = r.publishedAt
  /\ r.price => c.price
  /\ pc = "count" /\ c.status = "draft" => SameFields(c, r)

WillPublish(c, r, l) ==
  /\ r.status = "draft" /\ c.status = "published" /\ SameFields(c, r)
  /\ r.publishedAt < c.publishedAt /\ c.publishedAt <= clock
  /\ MayPublish(r, l)

WillUnpublish(c, r) ==
  r.status = "published" /\ c.status = "draft" /\ c.publishedAt = 0 /\ SameFields(c, r)

WillClose(c, r) ==
  /\ r.status = "published" /\ c.status = "closed"
  /\ c.publishedAt = r.publishedAt /\ SameFields(c, r)

WillArchive(c, r) ==
  c.status = "archived" /\ c.publishedAt = r.publishedAt /\ SameFields(c, r)

Will(pc, c, r, l) ==
  \/ WillEdit(pc, c, r)
  \/ /\ pc = "save"
     /\ WillPublish(c, r, l) \/ WillUnpublish(c, r) \/ WillClose(c, r) \/ WillArchive(c, r)

CopiesAreCurrent ==
  \A s \in Slot : request[s] # NoRequest =>
    LET q == request[s]
    IN  owner[q.listing] = q.by /\ Will(q.pc, q.candidate, row[q.listing], q.listing)

\* A listing nobody created has no row and no image; no publish time is ahead of the clock.
RowsAreBehindTheClock ==
  /\ clock <= MaxClock
  /\ \A l \in Listing : /\ owner[l] = NoOwner => row[l] = EmptyRow /\ images[l] = {}
                        /\ row[l].publishedAt <= clock

SerialInv == RowsAreBehindTheClock /\ CopiesAreCurrent

\* A handler takes slot s with a copy that is the row but for what it will change.
SetsOut(s) ==
  \E r \in Request :
    /\ request[s] = NoRequest
    /\ request' = [request EXCEPT ![s] = r]
    /\ owner[r.listing] = r.by
    /\ Will(r.pc, r.candidate, row[r.listing], r.listing)
    /\ UNCHANGED <<owner, row, moderation, images, audit, clock>>

\* What a handler begins with is its copy of the row.
LEMMA BeginSetsOut ==
  ASSUME NEW s \in Slot, NEW o \in Owner, NEW l \in Listing,
         NEW pc \in {"count", "save"}, NEW candidate \in Row,
         Begin(s, o, l, pc, candidate), Will(pc, candidate, row[l], l)
  PROVE  SetsOut(s)
<1> DEFINE r == [pc |-> pc, listing |-> l, by |-> o, candidate |-> candidate]
<1>1. r \in Request
  BY DEF Request
<1>2. QED
  BY <1>1 DEF Begin, SetsOut

\* Each of the five handlers does.
LEMMA HandlersSetOut ==
  ASSUME TypeOK, NEW s \in Slot, NEW o \in Owner, NEW l \in Listing,
         \/ BeginPatch(s, o, l) \/ BeginPublish(s, o, l) \/ BeginUnpublish(s, o, l)
         \/ BeginClose(s, o, l) \/ BeginArchive(s, o, l)
  PROVE  SetsOut(s)
<1> DEFINE c == ReadCopy(l)
           r == row[l]
<1>1. /\ c \in Row /\ r \in Row
      /\ c.status = r.status /\ c.publishedAt = r.publishedAt /\ SameFields(c, r)
  BY DEF TypeOK, ReadCopy, Row, SameFields
<1>2. CASE BeginPatch(s, o, l)
  <2>1. PICK p \in BOOLEAN, b \in BOOLEAN, k \in BOOLEAN, a \in BOOLEAN :
          Begin(s, o, l, IF ReadCopy(l).status = "published" THEN "count" ELSE "save",
                [ReadCopy(l) EXCEPT !.price = @ \/ p, !.columns = b, !.contact = k,
                                    !.address = a])
    BY <1>2 DEF BeginPatch
  <2> DEFINE d == [c EXCEPT !.price = @ \/ p, !.columns = b, !.contact = k, !.address = a]
  <2>2. /\ d \in Row /\ d.status = r.status /\ d.publishedAt = r.publishedAt
        /\ r.price => d.price
    BY <1>1 DEF Row, SameFields
  <2>3. Begin(s, o, l, IF d.status = "published" THEN "count" ELSE "save", d)
    BY <1>1, <2>1, <2>2
  <2> HIDE DEF d, c, r
  <2>4. CASE d.status = "published"
    <3>1. Will("count", d, r, l)
      BY <2>2, <2>4 DEF Will, WillEdit
    <3>2. QED
      BY <2>2, <2>3, <2>4, <3>1, BeginSetsOut DEF r
  <2>5. CASE d.status # "published"
    <3>1. Will("save", d, r, l)
      BY <2>2 DEF Will, WillEdit
    <3>2. QED
      BY <2>2, <2>3, <2>5, <3>1, BeginSetsOut DEF r
  <2>6. QED
    BY <2>4, <2>5
<1>3. CASE BeginPublish(s, o, l)
  <2>1. Will("count", c, r, l)
    BY <1>1 DEF Will, WillEdit, SameFields
  <2>2. QED
    BY <1>1, <1>3, <2>1, BeginSetsOut DEF BeginPublish
<1>4. CASE BeginUnpublish(s, o, l)
  <2> DEFINE d == [c EXCEPT !.status = "draft", !.publishedAt = 0]
  <2>1. d \in Row /\ d.status = "draft" /\ d.publishedAt = 0 /\ SameFields(d, r)
    BY <1>1 DEF Row, Status, SameFields
  <2>2. r.status = "published" /\ Begin(s, o, l, "save", d)
    BY <1>4 DEF BeginUnpublish
  <2>3. Will("save", d, r, l)
    BY <2>1, <2>2 DEF Will, WillUnpublish
  <2>4. QED
    BY <2>1, <2>2, <2>3, BeginSetsOut
<1>5. CASE BeginClose(s, o, l)
  <2> DEFINE d == [c EXCEPT !.status = "closed"]
  <2>1. d \in Row /\ d.status = "closed" /\ d.publishedAt = r.publishedAt /\ SameFields(d, r)
    BY <1>1 DEF Row, Status, SameFields
  <2>2. r.status = "published" /\ Begin(s, o, l, "save", d)
    BY <1>5 DEF BeginClose
  <2>3. Will("save", d, r, l)
    BY <2>1, <2>2 DEF Will, WillClose
  <2>4. QED
    BY <2>1, <2>2, <2>3, BeginSetsOut
<1>6. CASE BeginArchive(s, o, l)
  <2> DEFINE d == [c EXCEPT !.status = "archived"]
  <2>1. d \in Row /\ d.status = "archived" /\ d.publishedAt = r.publishedAt /\ SameFields(d, r)
    BY <1>1 DEF Row, Status, SameFields
  <2>2. Begin(s, o, l, "save", d)
    BY <1>6 DEF BeginArchive
  <2>3. Will("save", d, r, l)
    BY <2>1 DEF Will, WillArchive
  <2>4. QED
    BY <2>1, <2>2, <2>3, BeginSetsOut
<1>7. QED
  BY <1>2, <1>3, <1>4, <1>5, <1>6

\* While a slot is free, no handler holds a copy.
LEMMA FreeSlotIsAlone ==
  ASSUME OneRequest, FreeSlot, request' = request
  PROVE  CopiesAreCurrent'
BY DEF OneRequest, FreeSlot, CopiesAreCurrent

\* Every step keeps copies current and publish times behind the clock.
LEMMA SerialStep ==
  ASSUME OneRequest, TypeOK, SerialInv, [Next]_vars
  PROVE  SerialInv'
<1> USE DEF SerialInv
<1>1. clock \in Nat /\ MaxClock \in Nat /\ clock <= MaxClock
  BY ConstantsAssumption DEF TypeOK, RowsAreBehindTheClock
<1>2. ASSUME NEW o \in Owner, NEW l \in Listing, Create(o, l)
      PROVE  SerialInv'
  <2>1. PICK p \in BOOLEAN, c \in BOOLEAN, k \in BOOLEAN, a \in BOOLEAN :
          row' = [row EXCEPT ![l] = [EmptyRow EXCEPT !.price = p, !.columns = c,
                                                     !.contact = k, !.address = a]]
    BY <1>2 DEF Create
  <2>2. o # NoOwner /\ owner'[l] = o
    BY <1>2, ConstantsAssumption DEF Create, TypeOK
  <2>3. row'[l].publishedAt = 0 /\ \A m \in Listing \ {l} : row'[m] = row[m] /\ owner'[m] = owner[m]
    BY <1>2, <2>1 DEF Create, TypeOK, EmptyRow
  <2>4. RowsAreBehindTheClock'
    BY <1>1, <1>2, <2>2, <2>3 DEF Create, RowsAreBehindTheClock
  <2>5. QED
    BY <1>2, <2>4, FreeSlotIsAlone DEF Create
<1>3. ASSUME NEW o \in Owner, NEW l \in Listing, NEW p \in Position,
             AddImage(o, l, p) \/ DeleteImage(o, l, p)
      PROVE  SerialInv'
  <2>1. owner[l] # NoOwner
    BY <1>3, ConstantsAssumption DEF AddImage, DeleteImage
  <2>2. \A m \in Listing \ {l} : images'[m] = images[m]
    BY <1>3 DEF AddImage, DeleteImage, TypeOK
  <2>3. RowsAreBehindTheClock'
    BY <1>3, <2>1, <2>2 DEF AddImage, DeleteImage, RowsAreBehindTheClock
  <2>4. QED
    BY <1>3, <2>3, FreeSlotIsAlone DEF AddImage, DeleteImage
<1>4. ASSUME NEW l \in Listing, NEW report \in Report, Hide(l, report)
      PROVE  SerialInv'
  <2>1. \A m \in Listing : row'[m].publishedAt = row[m].publishedAt /\ (m # l => row'[m] = row[m])
    BY <1>4 DEF Hide, TypeOK, Row
  <2>2. RowsAreBehindTheClock'
    BY <1>4, <2>1 DEF Hide, RowsAreBehindTheClock
  <2>3. QED
    BY <1>4, <2>2, FreeSlotIsAlone DEF Hide
<1>5. ASSUME NEW l \in Listing, NEW report \in Report, Restore(l, report)
      PROVE  SerialInv'
  <2>1. /\ row'[l].publishedAt = clock + 1
        /\ \A m \in Listing \ {l} : row'[m] = row[m]
    BY <1>5 DEF Restore, TypeOK, Row
  <2>2. clock' = clock + 1 /\ clock + 1 <= MaxClock /\ owner' = owner /\ images' = images
        /\ owner[l] # NoOwner
    BY <1>1, <1>5 DEF Restore
  <2>3. ASSUME NEW m \in Listing
        PROVE  /\ owner'[m] = NoOwner => row'[m] = EmptyRow /\ images'[m] = {}
               /\ row'[m].publishedAt <= clock'
    <3>1. CASE m = l
      BY <1>1, <2>1, <2>2, <3>1
    <3>2. CASE m # l
      <4>1. row[m].publishedAt \in Nat /\ row[m].publishedAt <= clock
        BY DEF TypeOK, Row, RowsAreBehindTheClock
      <4>2. row'[m].publishedAt <= clock'
        BY <1>1, <2>1, <2>2, <3>2, <4>1
      <4>3. QED
        BY <2>1, <2>2, <3>2, <4>2 DEF RowsAreBehindTheClock
    <3>3. QED
      BY <3>1, <3>2
  <2>4. RowsAreBehindTheClock'
    BY <2>2, <2>3 DEF RowsAreBehindTheClock
  <2>5. QED
    BY <1>5, <2>4, FreeSlotIsAlone DEF Restore
<1>6. ASSUME NEW s \in Slot, SetsOut(s)
      PROVE  SerialInv'
  <2>1. PICK r \in Request :
          /\ request' = [request EXCEPT ![s] = r]
          /\ owner[r.listing] = r.by
          /\ Will(r.pc, r.candidate, row[r.listing], r.listing)
          /\ UNCHANGED <<owner, row, images, clock>>
    BY <1>6 DEF SetsOut
  <2>2. \A q \in Slot : request'[q] = IF q = s THEN r ELSE request[q]
    BY <2>1 DEF TypeOK
  <2>3. CopiesAreCurrent'
    BY <2>1, <2>2 DEF CopiesAreCurrent, Will, WillEdit, WillPublish, WillUnpublish,
                      WillClose, WillArchive, MayPublish
  <2>4. QED
    BY <2>1, <2>3 DEF RowsAreBehindTheClock
<1>7. ASSUME NEW s \in Slot, CheckPatch(s)
      PROVE  SerialInv'
  <2> DEFINE q == request[s]
  <2>1. q \in Request /\ q # NoRequest
    BY <1>7 DEF CheckPatch, TypeOK, NoRequest
  <2>2. /\ request'[s] = [q EXCEPT !.pc = "save"]
        /\ request'[s].pc = "save" /\ request'[s].candidate = q.candidate
        /\ request'[s].listing = q.listing /\ request'[s].by = q.by
    BY <1>7, <2>1 DEF CheckPatch, TypeOK, Request
  <2>3. owner[q.listing] = q.by /\ WillEdit("count", q.candidate, row[q.listing])
    BY <1>7, <2>1 DEF CheckPatch, CopiesAreCurrent, Will
  <2>4. Will("save", q.candidate, row[q.listing], q.listing)'
    BY <1>7, <2>2, <2>3 DEF CheckPatch, Will, WillEdit
  <2>5. \A t \in Slot : t = s
    BY DEF OneRequest
  <2>6. CopiesAreCurrent'
    BY <1>7, <2>2, <2>3, <2>4, <2>5 DEF CheckPatch, CopiesAreCurrent
  <2>7. QED
    BY <1>7, <2>6 DEF CheckPatch, RowsAreBehindTheClock
<1>8. ASSUME NEW s \in Slot, CheckPublish(s)
      PROVE  SerialInv'
  <2> DEFINE q == request[s]
             l == q.listing
             c == q.candidate
             d == request'[s].candidate
  <2>1. q \in Request /\ q # NoRequest /\ c \in Row /\ row[l] \in Row
    BY <1>8 DEF CheckPublish, TypeOK, NoRequest, Request
  <2>2. /\ request'[s].pc = "save" /\ request'[s].listing = l /\ request'[s].by = q.by
        /\ d.status = "published" /\ d.publishedAt = clock + 1 /\ SameFields(d, c)
    BY <1>8, <2>1 DEF CheckPublish, TypeOK, Request, Row, SameFields
  <2>3. owner[l] = q.by /\ WillEdit("count", c, row[l])
    BY <1>8, <2>1 DEF CheckPublish, CopiesAreCurrent, Will
  <2>4. /\ c.status = "draft" /\ MayPublish(c, l)
        /\ clock' = clock + 1 /\ clock + 1 <= MaxClock
        /\ UNCHANGED <<owner, row, images>>
    BY <1>1, <1>8 DEF CheckPublish
  <2>5. row[l].status = "draft" /\ SameFields(c, row[l])
    BY <2>3, <2>4 DEF WillEdit
  <2>6. row[l].publishedAt < clock + 1
    <3>1. row[l].publishedAt \in Nat /\ row[l].publishedAt <= clock
      BY <2>1 DEF Row, Request, RowsAreBehindTheClock
    <3>2. QED
      BY <1>1, <3>1
  <2>7. Will(request[s].pc, request[s].candidate, row[request[s].listing],
             request[s].listing)'
    <3>1. Complete(row'[l]) /\ row'[l].contact /\ images'[l] # {}
      BY <2>4, <2>5 DEF MayPublish, Complete, SameFields
    <3>2. SameFields(d, row'[l]) /\ row'[l] = row[l]
      BY <2>2, <2>4, <2>5 DEF SameFields
    <3>3. row'[l].publishedAt < d.publishedAt /\ d.publishedAt <= clock'
      BY <1>1, <2>2, <2>4, <2>6
    <3>4. request'[s].listing = l
      BY <2>2
    <3> HIDE DEF q, c
    <3>5. WillPublish(request[s].candidate, row[request[s].listing], request[s].listing)'
      BY <2>2, <2>5, <3>1, <3>2, <3>3, <3>4 DEF WillPublish, MayPublish
    <3>6. QED
      BY <2>2, <3>5 DEF Will
  <2>8. \A t \in Slot : t = s
    BY DEF OneRequest
  <2>9. CopiesAreCurrent'
    BY <2>2, <2>3, <2>4, <2>7, <2>8 DEF CopiesAreCurrent
  <2>10. RowsAreBehindTheClock'
    <3>1. \A m \in Listing : row[m].publishedAt \in Nat /\ row[m].publishedAt <= clock
      BY DEF TypeOK, Row, RowsAreBehindTheClock
    <3>2. QED
      BY <1>1, <2>4, <3>1 DEF RowsAreBehindTheClock
  <2>11. QED
    BY <2>9, <2>10
<1>9. ASSUME NEW s \in Slot, SaveOwner(s)
      PROVE  SerialInv'
  <2> DEFINE q == request[s]
             l == q.listing
             c == q.candidate
  <2>1. q \in Request /\ q # NoRequest /\ l \in Listing /\ c \in Row
    BY <1>9 DEF SaveOwner, TypeOK, NoRequest, Request
  <2>2. owner[l] # NoOwner
    BY <1>9, <2>1, ConstantsAssumption DEF SaveOwner, Request
  <2>3. \A m \in Listing : row'[m] = IF m = l THEN c ELSE row[m]
    BY <1>9, <2>1 DEF SaveOwner, TypeOK
  <2>4. c.publishedAt <= clock
    <3>1. Will(q.pc, c, row[l], l)
      BY <2>1 DEF CopiesAreCurrent
    <3>2. row[l].publishedAt <= clock
      BY <2>1 DEF RowsAreBehindTheClock
    <3>3. QED
      BY <1>1, <3>1, <3>2 DEF Will, WillEdit, WillPublish, WillUnpublish, WillClose, WillArchive
  <2>5. RowsAreBehindTheClock'
    BY <1>9, <2>2, <2>3, <2>4 DEF SaveOwner, RowsAreBehindTheClock
  <2>6. \A t \in Slot : request'[t] = NoRequest
    BY <1>9 DEF SaveOwner, TypeOK, OneRequest
  <2>7. QED
    BY <2>5, <2>6 DEF CopiesAreCurrent
<1>10. ASSUME NEW s \in Slot, GiveUp(s)
       PROVE  SerialInv'
  <2>1. \A t \in Slot : request'[t] = NoRequest
    BY <1>10 DEF GiveUp, TypeOK, OneRequest
  <2>2. QED
    BY <1>10, <2>1 DEF GiveUp, CopiesAreCurrent, RowsAreBehindTheClock
<1>11. CASE UNCHANGED vars
  BY <1>11 DEF vars, CopiesAreCurrent, RowsAreBehindTheClock, Will, WillEdit, WillPublish,
               WillUnpublish, WillClose, WillArchive, MayPublish
<1>12. QED
  BY <1>2, <1>3, <1>4, <1>5, <1>6, <1>7, <1>8, <1>9, <1>10, <1>11, HandlersSetOut
  DEF Next

-----------------------------------------------------------------------------
(***************************************************************************)
(* The status machine.                                                     *)
(***************************************************************************)

\* What Promised sees of the listings.
PStatus == [l \in Listing |-> IF owner[l] = NoOwner THEN "none" ELSE row[l].status]
PSince == [l \in Listing |-> row[l].publishedAt]
PReady == [l \in Listing |-> MayPublish(row[l], l)]

\* Promised's variables.
LEMMA PromisedVars ==
  /\ Promised!vars = <<PStatus, PSince, PReady, audit>>
  /\ Promised!vars' = <<PStatus', PSince', PReady', audit'>>
BY DEF Promised!vars, PStatus, PSince, PReady

\* A step that touches one listing changes what Promised sees of that one only.
LEMMA OneListing ==
  ASSUME NEW l \in Listing,
         \A m \in Listing \ {l} : /\ owner'[m] = owner[m] /\ row'[m] = row[m]
                                  /\ images'[m] = images[m]
  PROVE  /\ PStatus' = [PStatus EXCEPT ![l] = IF owner'[l] = NoOwner THEN "none"
                                              ELSE row'[l].status]
         /\ PSince' = [PSince EXCEPT ![l] = row'[l].publishedAt]
         /\ PReady' = [PReady EXCEPT ![l] = Complete(row'[l]) /\ row'[l].contact
                                              /\ images'[l] # {}]
<1>1. \A m \in Listing \ {l} : MayPublish(row[m], m)' = MayPublish(row[m], m)
  BY DEF MayPublish, Complete
<1>2. PStatus' = [PStatus EXCEPT ![l] = IF owner'[l] = NoOwner THEN "none"
                                        ELSE row'[l].status]
  BY DEF PStatus
<1>3. PSince' = [PSince EXCEPT ![l] = row'[l].publishedAt]
  BY DEF PSince
<1>4. PReady' = [PReady EXCEPT ![l] = Complete(row'[l]) /\ row'[l].contact
                                        /\ images'[l] # {}]
  BY <1>1 DEF PReady, MayPublish, Complete
<1>5. QED
  BY <1>2, <1>3, <1>4

\* A step that moves neither the status nor the publish time of the one listing it
\* touches, and decides nothing, is an edit.
LEMMA IsEdit ==
  ASSUME TypeOK, TypeOK', NEW l \in Listing, owner[l] # NoOwner, UNCHANGED <<owner, audit>>,
         \A m \in Listing \ {l} : row'[m] = row[m] /\ images'[m] = images[m],
         row'[l].status = row[l].status, row'[l].publishedAt = row[l].publishedAt
  PROVE  Promised!Edit(l)
<1> DEFINE b == Complete(row'[l]) /\ row'[l].contact /\ images'[l] # {}
<1>1. /\ PStatus' = [PStatus EXCEPT ![l] = row'[l].status]
      /\ PSince' = [PSince EXCEPT ![l] = row'[l].publishedAt]
      /\ PReady' = [PReady EXCEPT ![l] = b]
  BY OneListing
<1>2. PStatus[l] = row[l].status /\ PSince[l] = row[l].publishedAt
  BY DEF PStatus, PSince
<1>3. PStatus' = PStatus /\ PSince' = PSince
  BY <1>1, <1>2 DEF PStatus, PSince
<1>4. PStatus[l] # "none"
  BY <1>2 DEF TypeOK, Row, Status
<1>5. b \in BOOLEAN
  OBVIOUS
<1> HIDE DEF b
<1>6. QED
  BY <1>1, <1>3, <1>4, <1>5 DEF Promised!Edit, PStatus, PSince, PReady

\* A step that moves the status of one listing but not what it needs for publishing.
LEMMA IsMove ==
  ASSUME TypeOK, NEW l \in Listing, owner[l] # NoOwner, UNCHANGED <<owner, images>>,
         \A m \in Listing \ {l} : row'[m] = row[m], SameFields(row'[l], row[l])
  PROVE  /\ PStatus[l] = row[l].status /\ PSince[l] = row[l].publishedAt
         /\ PReady[l] = MayPublish(row[l], l)
         /\ PStatus' = [PStatus EXCEPT ![l] = row'[l].status]
         /\ PSince' = [PSince EXCEPT ![l] = row'[l].publishedAt]
         /\ row'[l].publishedAt = row[l].publishedAt => PSince' = PSince
         /\ PReady' = PReady
<1>1. /\ PStatus' = [PStatus EXCEPT ![l] = row'[l].status]
      /\ PSince' = [PSince EXCEPT ![l] = row'[l].publishedAt]
      /\ PReady' = [PReady EXCEPT ![l] = Complete(row'[l]) /\ row'[l].contact
                                           /\ images'[l] # {}]
  BY OneListing
<1>2. /\ PStatus[l] = row[l].status /\ PSince[l] = row[l].publishedAt
      /\ PReady[l] = MayPublish(row[l], l)
  BY DEF PStatus, PSince, PReady
<1>3. PReady[l] = (Complete(row'[l]) /\ row'[l].contact /\ images'[l] # {})
  BY <1>2 DEF MayPublish, Complete, SameFields
<1>4. PReady' = PReady
  BY <1>1, <1>3 DEF PReady
<1>5. row'[l].publishedAt = row[l].publishedAt => PSince' = PSince
  BY <1>1, <1>2 DEF PSince
<1>6. QED
  BY <1>1, <1>2, <1>4, <1>5

\* A listing is created as a draft.
LEMMA CreateIsPromised ==
  ASSUME TypeOK, SerialInv, NEW o \in Owner, NEW l \in Listing, Create(o, l)
  PROVE  Promised!Create(l)
<1>1. PICK p \in BOOLEAN, c \in BOOLEAN, k \in BOOLEAN, a \in BOOLEAN :
        row' = [row EXCEPT ![l] = [EmptyRow EXCEPT !.price = p, !.columns = c,
                                                   !.contact = k, !.address = a]]
  BY DEF Create
<1>2. /\ row'[l].status = "draft" /\ row'[l].publishedAt = 0
      /\ owner'[l] # NoOwner
      /\ \A m \in Listing \ {l} : row'[m] = row[m] /\ owner'[m] = owner[m]
      /\ UNCHANGED <<images, audit>>
  BY <1>1, ConstantsAssumption DEF Create, TypeOK, EmptyRow
<1>3. owner[l] = NoOwner /\ row[l] = EmptyRow /\ images[l] = {}
  BY DEF Create, SerialInv, RowsAreBehindTheClock
<1>4. PStatus[l] = "none" /\ PSince[l] = 0 /\ PReady[l] = FALSE
  <2>1. PReady[l] = MayPublish(row[l], l) /\ MayPublish(row[l], l) = FALSE
    BY <1>3 DEF PReady, MayPublish
  <2>2. QED
    BY <1>3, <2>1 DEF PStatus, PSince, EmptyRow
<1>5. /\ PStatus' = [PStatus EXCEPT ![l] = "draft"]
      /\ PSince' = [PSince EXCEPT ![l] = 0]
      /\ PReady' = [PReady EXCEPT ![l] = FALSE]
  <2>1. (Complete(row'[l]) /\ row'[l].contact /\ images'[l] # {}) = FALSE
    BY <1>2, <1>3
  <2>2. QED
    BY <1>2, <2>1, OneListing
<1>6. PSince' = PSince /\ PReady' = PReady
  BY <1>4, <1>5 DEF PSince, PReady
<1>7. QED
  BY <1>2, <1>4, <1>5, <1>6 DEF Promised!Create, Promised!Move, PStatus, PSince, PReady

\* Staff hide a public listing and say for which report.
LEMMA HideIsPromised ==
  ASSUME TypeOK, NEW l \in Listing, NEW report \in Report, Hide(l, report)
  PROVE  Promised!Hide(l)
<1>1. /\ row'[l].status = "moderation_hidden" /\ row'[l].publishedAt = row[l].publishedAt
      /\ SameFields(row'[l], row[l])
      /\ \A m \in Listing \ {l} : row'[m] = row[m]
  BY DEF Hide, TypeOK, Row, SameFields
<1>2. /\ owner[l] # NoOwner /\ row[l].status = "published"
      /\ UNCHANGED <<owner, images>>
      /\ audit' = [audit EXCEPT ![l] = Append(@, [action |-> "hide", report |-> report])]
  BY DEF Hide, Record
<1>3. /\ PStatus[l] = "published" /\ PStatus' = [PStatus EXCEPT ![l] = "moderation_hidden"]
      /\ PSince' = PSince /\ PReady' = PReady
  BY <1>1, <1>2, IsMove
<1>4. Promised!Decide(l, "hide")
  BY <1>2 DEF Promised!Decide
<1>5. QED
  BY <1>3, <1>4 DEF Promised!Hide, Promised!Move, PStatus, PSince, PReady

\* Staff restore a hidden listing, with a new publish time and on the record.
LEMMA RestoreIsPromised ==
  ASSUME TypeOK, SerialInv, NEW l \in Listing, NEW report \in Report, Restore(l, report)
  PROVE  Promised!Restore(l)
<1>1. /\ row'[l].status = "published" /\ row'[l].publishedAt = clock + 1
      /\ SameFields(row'[l], row[l])
      /\ \A m \in Listing \ {l} : row'[m] = row[m]
  BY DEF Restore, TypeOK, Row, SameFields
<1>2. /\ owner[l] # NoOwner /\ row[l].status = "moderation_hidden" /\ clock < MaxClock
      /\ UNCHANGED <<owner, images>>
      /\ audit' = [audit EXCEPT ![l] = Append(@, [action |-> "restore", report |-> report])]
  BY DEF Restore, Record
<1>3. /\ PStatus[l] = "moderation_hidden" /\ PStatus' = [PStatus EXCEPT ![l] = "published"]
      /\ PSince[l] = row[l].publishedAt /\ PSince' = [PSince EXCEPT ![l] = clock + 1]
      /\ PReady' = PReady
  BY <1>1, <1>2, IsMove
<1>4. clock + 1 \in 0..MaxClock /\ clock + 1 > PSince[l]
  <2>1. clock \in Nat /\ MaxClock \in Nat
    BY ConstantsAssumption DEF TypeOK
  <2>2. row[l].publishedAt \in Nat /\ row[l].publishedAt <= clock
    BY DEF TypeOK, Row, SerialInv, RowsAreBehindTheClock
  <2>3. QED
    BY <1>2, <1>3, <2>1, <2>2
<1>5. Promised!Stamp(l)
  BY <1>3, <1>4 DEF Promised!Stamp, PSince
<1>6. Promised!Decide(l, "restore")
  BY <1>2 DEF Promised!Decide
<1>7. QED
  BY <1>3, <1>5, <1>6 DEF Promised!Restore, Promised!Move, PStatus, PReady

\* A save does to the listing what its handler set out to do.
LEMMA SaveIsPromised ==
  ASSUME TypeOK, TypeOK', SerialInv, NEW s \in Slot, SaveOwner(s),
         NEW l \in Listing, l = request[s].listing
  PROVE  Promised!Next
<1> DEFINE q == request[s]
           c == q.candidate
           r == row[l]
<1>1. q \in Request /\ q # NoRequest /\ q.listing = l /\ c \in Row /\ r \in Row
  BY DEF SaveOwner, TypeOK, NoRequest, Request
<1>2. owner[l] # NoOwner
  BY <1>1, ConstantsAssumption DEF SaveOwner, Request
<1>3. /\ row'[l] = c /\ \A m \in Listing \ {l} : row'[m] = row[m]
      /\ UNCHANGED <<owner, images, audit>>
  BY <1>1 DEF SaveOwner, TypeOK
<1>4. Will(q.pc, c, r, l)
  BY <1>1 DEF SerialInv, CopiesAreCurrent
<1>5. clock \in Nat /\ MaxClock \in Nat /\ clock <= MaxClock
  BY ConstantsAssumption DEF TypeOK, SerialInv, RowsAreBehindTheClock
<1> HIDE DEF q, c, r
<1>6. ASSUME SameFields(c, r)
      PROVE  /\ PStatus[l] = r.status /\ PSince[l] = r.publishedAt
             /\ PReady[l] = MayPublish(r, l)
             /\ PStatus' = [PStatus EXCEPT ![l] = c.status]
             /\ PSince' = [PSince EXCEPT ![l] = c.publishedAt]
             /\ c.publishedAt = r.publishedAt => PSince' = PSince
             /\ PReady' = PReady
  <2>1. SameFields(row'[l], row[l])
    BY <1>3, <1>6 DEF r
  <2>2. QED
    BY <1>1, <1>2, <1>3, <2>1, IsMove DEF r
<1>7. CASE WillEdit(q.pc, c, r)
  <2>1. row'[l].status = row[l].status /\ row'[l].publishedAt = row[l].publishedAt
    BY <1>3, <1>7 DEF WillEdit, r
  <2>2. Promised!Edit(l)
    BY <1>1, <1>2, <1>3, <2>1, IsEdit
  <2>3. QED
    BY <1>1, <2>2 DEF Promised!Next
<1>8. CASE WillPublish(c, r, l)
  <2>1. /\ PStatus[l] = "draft" /\ PSince[l] = r.publishedAt /\ PReady[l]
        /\ PStatus' = [PStatus EXCEPT ![l] = "published"]
        /\ PSince' = [PSince EXCEPT ![l] = c.publishedAt]
        /\ PReady' = PReady
    BY <1>6, <1>8 DEF WillPublish
  <2>2. c.publishedAt \in 0..MaxClock /\ c.publishedAt > PSince[l]
    <3>1. c.publishedAt \in Nat /\ r.publishedAt \in Nat
      BY <1>1 DEF Row
    <3>2. QED
      BY <1>5, <1>8, <2>1, <3>1 DEF WillPublish
  <2>3. Promised!Stamp(l)
    BY <2>1, <2>2 DEF Promised!Stamp, PSince
  <2>4. Promised!Publish(l)
    BY <1>1, <1>3, <2>1, <2>3 DEF Promised!Publish, Promised!Move, PStatus, PReady
  <2>5. QED
    BY <1>1, <2>4 DEF Promised!Next
<1>9. CASE WillUnpublish(c, r)
  <2>1. /\ PStatus[l] = "published" /\ PStatus' = [PStatus EXCEPT ![l] = "draft"]
        /\ PSince' = [PSince EXCEPT ![l] = 0] /\ PReady' = PReady
    BY <1>6, <1>9 DEF WillUnpublish
  <2>2. Promised!Unpublish(l)
    BY <1>3, <2>1 DEF Promised!Unpublish, Promised!Move, PStatus, PSince, PReady
  <2>3. QED
    BY <1>1, <2>2 DEF Promised!Next
<1>10. CASE WillClose(c, r)
  <2>1. /\ PStatus[l] = "published" /\ PStatus' = [PStatus EXCEPT ![l] = "closed"]
        /\ PSince' = PSince /\ PReady' = PReady
    BY <1>6, <1>10 DEF WillClose
  <2>2. Promised!Close(l)
    BY <1>3, <2>1 DEF Promised!Close, Promised!Move, PStatus, PSince, PReady
  <2>3. QED
    BY <1>1, <2>2 DEF Promised!Next
<1>11. CASE WillArchive(c, r) /\ r.status # "archived"
  <2>1. /\ PStatus[l] = r.status /\ PStatus' = [PStatus EXCEPT ![l] = "archived"]
        /\ PSince' = PSince /\ PReady' = PReady
    BY <1>6, <1>11 DEF WillArchive
  <2>2. /\ PStatus[l] \in {"draft", "published", "closed", "moderation_hidden"}
        /\ PStatus[l] # "none"
    BY <1>1, <1>11, <2>1 DEF Row, Status
  <2>3. Promised!Archive(l)
    BY <1>3, <2>1, <2>2 DEF Promised!Archive, Promised!Move, PStatus, PSince, PReady
  <2>4. QED
    BY <1>1, <2>3 DEF Promised!Next
<1>12. CASE WillArchive(c, r) /\ r.status = "archived"
  <2>1. row'[l].status = row[l].status /\ row'[l].publishedAt = row[l].publishedAt
    BY <1>3, <1>12 DEF WillArchive, r
  <2>2. Promised!Edit(l)
    BY <1>1, <1>2, <1>3, <2>1, IsEdit
  <2>3. QED
    BY <1>1, <2>2 DEF Promised!Next
<1>13. QED
  BY <1>4, <1>7, <1>8, <1>9, <1>10, <1>11, <1>12 DEF Will

\* Every step is one of the promised ones, or changes nothing that is promised.
LEMMA PromisedStep ==
  ASSUME TypeOK, TypeOK', SerialInv, [Next]_vars
  PROVE  [Promised!Next]_(Promised!vars)
<1>1. ASSUME NEW o \in Owner, NEW l \in Listing, Create(o, l)
      PROVE  Promised!Next
  BY <1>1, CreateIsPromised DEF Promised!Next
<1>2. ASSUME NEW o \in Owner, NEW l \in Listing, NEW p \in Position,
             AddImage(o, l, p) \/ DeleteImage(o, l, p)
      PROVE  Promised!Next
  <2>1. /\ owner[l] # NoOwner /\ UNCHANGED <<owner, row, audit>>
        /\ \A m \in Listing \ {l} : images'[m] = images[m]
    BY <1>2, ConstantsAssumption DEF AddImage, DeleteImage, TypeOK
  <2>2. Promised!Edit(l)
    BY <2>1, IsEdit
  <2>3. QED
    BY <2>2 DEF Promised!Next
<1>3. ASSUME NEW l \in Listing, NEW report \in Report, Hide(l, report)
      PROVE  Promised!Next
  BY <1>3, HideIsPromised DEF Promised!Next
<1>4. ASSUME NEW l \in Listing, NEW report \in Report, Restore(l, report)
      PROVE  Promised!Next
  BY <1>4, RestoreIsPromised DEF Promised!Next
<1>5. ASSUME NEW s \in Slot, SaveOwner(s)
      PROVE  Promised!Next
  <2>1. request[s].listing \in Listing
    BY <1>5 DEF SaveOwner, TypeOK, NoRequest, Request
  <2>2. PICK l \in Listing : l = request[s].listing
    BY <2>1
  <2>3. QED
    BY <1>5, <2>2, SaveIsPromised
<1>6. ASSUME UNCHANGED <<owner, row, images, audit>>
      PROVE  UNCHANGED Promised!vars
  BY <1>6, PromisedVars DEF PStatus, PSince, PReady, MayPublish
<1>7. ASSUME NEW s \in Slot, SetsOut(s) \/ CheckPatch(s) \/ CheckPublish(s) \/ GiveUp(s)
      PROVE  UNCHANGED Promised!vars
  BY <1>6, <1>7 DEF SetsOut, CheckPatch, CheckPublish, GiveUp
<1>8. CASE UNCHANGED vars
  BY <1>6, <1>8 DEF vars
<1>9. QED
  BY <1>1, <1>2, <1>3, <1>4, <1>5, <1>7, <1>8, HandlersSetOut DEF Next

\* Where requests are handled one at a time, the listings keep to the status machine
\* the documents promise: every handler, staff decision and image change is one of its
\* steps.  (With two slots they do not: OnlyStaffRestore, ClosedNeverReopens.)
THEOREM ImplementsPromise ==
  ASSUME OneRequest
  PROVE  Spec => ImplementsStatusMachine
<1>1. Init => SerialInv /\ Promised!Init
  <2> SUFFICES ASSUME Init PROVE SerialInv /\ Promised!Init
    OBVIOUS
  <2>1. SerialInv
    BY ConstantsAssumption DEF Init, SerialInv, RowsAreBehindTheClock, CopiesAreCurrent,
                               EmptyRow
  <2>2. \A l \in Listing : MayPublish(row[l], l) = FALSE
    BY DEF Init, MayPublish
  <2>3. [l \in Listing |-> MayPublish(row[l], l)] = [l \in Listing |-> FALSE]
    BY Zenon, <2>2
  <2>4. /\ [l \in Listing |-> IF owner[l] = NoOwner THEN "none" ELSE row[l].status]
             = [l \in Listing |-> "none"]
        /\ [l \in Listing |-> row[l].publishedAt] = [l \in Listing |-> 0]
        /\ audit = [l \in Listing |-> <<>>]
    BY DEF Init, EmptyRow
  <2>5. Promised!Init
    BY <2>3, <2>4 DEF Promised!Init
  <2>6. QED
    BY <2>1, <2>5
<1>2. TypeOK /\ SerialInv /\ [Next]_vars => SerialInv'
  BY SerialStep
<1>3. TypeOK /\ TypeOK' /\ SerialInv /\ [Next]_vars => [Promised!Next]_(Promised!vars)
  BY PromisedStep
<1>4. QED
  BY <1>1, <1>2, <1>3, TypeCorrect, PTL
  DEF Spec, ImplementsStatusMachine, Promised!Spec

-----------------------------------------------------------------------------
(***************************************************************************)
(* The development stores.  A row and the moderation fields beside it fit  *)
(* each other, and so do the two in every copy: a save may put back an old *)
(* pair, but never half of one.  While the audit row of a moderation is    *)
(* still to be written, the mutex keeps the listing as it was left.        *)
(***************************************************************************)

\* A row, and the report its moderation field names.
PairFits(r, report) ==
  /\ PublishTimeFits(r) /\ Priced(r)
  /\ r.status = "moderation_hidden" => report # NoReport
  /\ report # NoReport => r.status \in {"moderation_hidden", "archived"}

PairsFit ==
  /\ \A l \in Listing : /\ PairFits(row[l], moderation[l])
                        /\ owner[l] = NoOwner => moderation[l] = NoReport
  /\ \A s \in Slot : request[s] # NoRequest => PairFits(request[s].candidate, copied[s])

\* What an audit row says of listing l is so.
Says(action, report, l) ==
  \/ action = "hide" /\ row[l].status = "moderation_hidden" /\ moderation[l] = report
  \/ action = "restore" /\ row[l].status = "published" /\ moderation[l] = NoReport

PendingIsTrue ==
  ~MutexFree => store = "sqlite" /\ Says(auditing.action, auditing.report, auditing.listing)

DevInv == PairsFit /\ PendingIsTrue

\* Every step keeps the types.
LEMMA DevTypeStep == DevTypeOK /\ [DevNext]_devVars => DevTypeOK'
<1> SUFFICES ASSUME DevTypeOK, [DevNext]_devVars
             PROVE  DevTypeOK'
  OBVIOUS
<1> DEFINE Same == UNCHANGED <<store, copied, auditing>>
<1>1. TypeOK
  BY DEF DevTypeOK
<1>2. ASSUME Next, store' = store, auditing' = auditing,
             copied' \in [Slot -> Report \cup {NoReport}]
      PROVE  DevTypeOK'
  <2>1. TypeOK'
    BY <1>1, <1>2, TypeStep
  <2>2. QED
    BY <1>2, <2>1 DEF DevTypeOK
<1>3. ASSUME Next, Same
      PROVE  DevTypeOK'
  BY <1>2, <1>3 DEF DevTypeOK
<1>4. ASSUME NEW o \in Owner, NEW l \in Listing, CreateSQLite(o, l) \/ CreateMemory(o, l), Same
      PROVE  DevTypeOK'
  <2>1. Create(o, l)
    BY <1>4 DEF CreateSQLite, CreateMemory
  <2>2. Next
    BY <2>1 DEF Next
  <2>3. QED
    BY <1>3, <1>4, <2>2
<1>5. ASSUME NEW o \in Owner, NEW l \in Listing, NEW p \in Position, Same,
             \/ AddImageSQLite(o, l, p) \/ AddImageMemory(o, l, p)
             \/ DeleteImageSQLite(o, l, p) \/ DeleteImageMemory(o, l, p)
      PROVE  DevTypeOK'
  <2>1. AddImage(o, l, p) \/ DeleteImage(o, l, p)
    BY <1>5 DEF AddImageSQLite, AddImageMemory, DeleteImageSQLite, DeleteImageMemory
  <2>2. Next
    BY <2>1 DEF Next
  <2>3. QED
    BY <1>3, <1>5, <2>2
<1>6. ASSUME NEW l \in Listing, NEW action \in {"hide", "restore"}, NEW report \in Report,
             ModerateMemory(l, action, report) \/ ModerateSQLite(l, action, report)
      PROVE  DevTypeOK'
  <2>1. clock' \in Nat /\ clock + 1 \in Nat
    BY <1>1, <1>6 DEF ModerateMemory, ModerateSQLite, TypeOK
  <2>2. \A t \in Nat : Hidden(l, report) \/ Restored(l, t) => row' \in [Listing -> Row]
    <3>1. \A t \in Nat : /\ [row[l] EXCEPT !.status = "moderation_hidden"] \in Row
                         /\ [row[l] EXCEPT !.status = "published", !.publishedAt = t] \in Row
      BY <1>1 DEF TypeOK, Row, Status
    <3>2. ASSUME NEW t \in Nat, Restored(l, t)
          PROVE  row' \in [Listing -> Row]
      <4>1. row' = [row EXCEPT ![l] = [row[l] EXCEPT !.status = "published", !.publishedAt = t]]
        BY <3>2, <1>1 DEF Restored, TypeOK, Row
      <4>2. QED
        BY <1>1, <3>1, <4>1 DEF TypeOK
    <3>3. ASSUME Hidden(l, report)
          PROVE  row' \in [Listing -> Row]
      BY <1>1, <3>1, <3>3 DEF Hidden, TypeOK
    <3>4. QED
      BY <3>2, <3>3
  <2>3. \A t \in Nat : Hidden(l, report) \/ Restored(l, t) =>
                         moderation' \in [Listing -> Report \cup {NoReport}]
    BY <1>1 DEF Hidden, Restored, TypeOK
  <2>4. \E t \in Nat : Hidden(l, report) \/ Restored(l, t)
    <3>1. row[l].publishedAt \in Nat
      BY <1>1 DEF TypeOK, Row
    <3>2. QED
      BY <1>6, <2>1, <3>1 DEF ModerateMemory, ModerateSQLite
  <2>5. row' \in [Listing -> Row] /\ moderation' \in [Listing -> Report \cup {NoReport}]
    BY <2>2, <2>3, <2>4
  <2>6. audit' \in [Listing -> Seq(Decision)]
    <3>1. CASE ModerateMemory(l, action, report)
      BY <1>1, <3>1, RecordType DEF ModerateMemory
    <3>2. CASE ModerateSQLite(l, action, report)
      BY <1>1, <3>2 DEF ModerateSQLite, TypeOK
    <3>3. QED
      BY <1>6, <3>1, <3>2
  <2>7. auditing' \in [action: {"hide", "restore"}, listing: Listing, report: Report] \cup {NoAudit}
    BY <1>6 DEF ModerateMemory, ModerateSQLite, DevTypeOK
  <2>8. UNCHANGED <<owner, images, request, store, copied>>
    BY <1>6 DEF ModerateMemory, ModerateSQLite
  <2>9. TypeOK'
    BY <1>1, <2>1, <2>5, <2>6, <2>8 DEF TypeOK
  <2>10. QED
    BY <2>7, <2>8, <2>9 DEF DevTypeOK
<1>7. CASE InsertAction
  <2>1. /\ auditing.listing \in Listing /\ auditing.action \in {"hide", "restore"}
        /\ auditing.report \in Report
    BY <1>7 DEF InsertAction, MutexFree, DevTypeOK
  <2>2. audit' \in [Listing -> Seq(Decision)]
    BY <1>1, <1>7, <2>1, RecordType DEF InsertAction
  <2>3. TypeOK'
    BY <1>1, <1>7, <2>2 DEF InsertAction, TypeOK
  <2>4. QED
    BY <1>7, <2>3 DEF InsertAction, DevTypeOK
<1>8. CASE InsertFails \/ Stop
  BY <1>8 DEF InsertFails, Stop, DevTypeOK, TypeOK
<1>9. ASSUME NEW s \in Slot, NEW o \in Owner, NEW l \in Listing, ReadThenSave(s, o, l)
      PROVE  DevTypeOK'
  <2>1. Next
    BY <1>9 DEF ReadThenSave, Next
  <2>2. QED
    BY <1>2, <1>9, <2>1 DEF ReadThenSave, CopyModeration, DevTypeOK, TypeOK
<1>10. ASSUME NEW s \in Slot, SaveOwnerSQLite(s) \/ SaveOwnerMemory(s)
       PROVE  DevTypeOK'
  <2>1. SaveCopy(s)
    BY <1>10 DEF SaveOwnerSQLite, SaveOwnerMemory
  <2>2. request[s] \in Request
    BY <1>1, <2>1 DEF SaveCopy, TypeOK, NoRequest
  <2>3. TypeOK'
    BY <1>1, <2>1, <2>2 DEF SaveCopy, TypeOK, Request, DevTypeOK
  <2>4. QED
    BY <2>1, <2>3 DEF SaveCopy, Forget, DevTypeOK
<1>11. ASSUME NEW s \in Slot, CheckPatch(s) \/ CheckPublish(s), Same
       PROVE  DevTypeOK'
  <2>1. Next
    BY <1>11 DEF Next
  <2>2. QED
    BY <1>3, <1>11, <2>1
<1>12. ASSUME NEW s \in Slot, GiveUp(s), Forget(s)
       PROVE  DevTypeOK'
  <2>1. Next
    BY <1>12 DEF Next
  <2>2. QED
    BY <1>2, <1>12, <2>1 DEF Forget, DevTypeOK
<1>13. CASE UNCHANGED devVars
  BY <1>13 DEF devVars, DevTypeOK, TypeOK
<1>14. QED
  BY <1>4, <1>5, <1>6, <1>7, <1>8, <1>9, <1>10, <1>11, <1>12, <1>13 DEF DevNext

\* Every reachable state of the development stores has the types DevTypeOK states.
THEOREM DevTypeCorrect == DevSpec => []DevTypeOK
<1>1. DevInit => DevTypeOK
  BY ConstantsAssumption DEF DevInit, DevTypeOK, Init, TypeOK, EmptyRow, Row, Status
<1>2. QED
  BY <1>1, DevTypeStep, PTL DEF DevSpec

\* What a handler sets out with fits the moderation field it read along.
LEMMA CandidateFits ==
  ASSUME NEW c \in Row, NEW r \in Row, NEW l \in Listing, NEW pc, NEW report,
         Will(pc, c, r, l), PairFits(r, report)
  PROVE  PairFits(c, report)
<1>1. r.publishedAt \in Nat /\ c.publishedAt \in Nat
  BY DEF Row
<1>2. PublishTimeFits(c) /\ Priced(c)
  BY <1>1 DEF Will, WillEdit, WillPublish, WillUnpublish, WillClose, WillArchive,
              MayPublish, Complete, SameFields, PairFits, PublishTimeFits, Priced
<1>3. /\ c.status = "moderation_hidden" => report # NoReport
      /\ report # NoReport => c.status \in {"moderation_hidden", "archived"}
  BY DEF Will, WillEdit, WillPublish, WillUnpublish, WillClose, WillArchive, PairFits
<1>4. QED
  BY <1>2, <1>3 DEF PairFits

\* Moderation leaves a listing that fits and is as its audit row will say.
LEMMA ModerationFits ==
  ASSUME DevTypeOK, PairsFit, NEW l \in Listing, NEW action \in {"hide", "restore"},
         NEW report \in Report,
         ModerateMemory(l, action, report) \/ ModerateSQLite(l, action, report)
  PROVE  PairsFit' /\ Says(action, report, l)'
<1>1. TypeOK /\ report # NoReport
  BY ConstantsAssumption DEF DevTypeOK
<1>2. PairFits(row[l], moderation[l]) /\ row[l].publishedAt \in Nat /\ clock \in Nat
  BY <1>1 DEF PairsFit, TypeOK, Row
<1>3. UNCHANGED <<owner, request, copied>> /\ owner[l] # NoOwner
  BY DEF ModerateMemory, ModerateSQLite
<1>4. CASE action = "hide"
  <2>1. Hidden(l, report)
    BY <1>4 DEF ModerateMemory, ModerateSQLite
  <2>2. /\ row[l].status = "published"
        /\ row'[l].status = "moderation_hidden" /\ row'[l].publishedAt = row[l].publishedAt
        /\ row'[l].price = row[l].price /\ moderation'[l] = report
        /\ \A m \in Listing \ {l} : row'[m] = row[m] /\ moderation'[m] = moderation[m]
    BY <1>1, <2>1 DEF Hidden, TypeOK, Row
  <2>3. PairFits(row'[l], moderation'[l])
    BY <1>1, <1>2, <2>2 DEF PairFits, PublishTimeFits, Priced
  <2>4. \A m \in Listing : /\ PairFits(row'[m], moderation'[m])
                           /\ owner'[m] = NoOwner => moderation'[m] = NoReport
    BY <1>3, <2>2, <2>3 DEF PairsFit
  <2>5. QED
    BY <1>3, <1>4, <2>2, <2>4 DEF PairsFit, Says
<1>5. CASE action = "restore"
  <2>1. PICK t \in Nat : Restored(l, t) /\ t # 0
    <3>1. CASE ModerateMemory(l, action, report)
      <4>1. Restored(l, row[l].publishedAt)
        BY <1>5, <3>1 DEF ModerateMemory
      <4>2. row[l].publishedAt # 0
        BY <1>2, <4>1 DEF Restored, PairFits, PublishTimeFits
      <4>3. QED
        BY <1>2, <4>1, <4>2
    <3>2. CASE ModerateSQLite(l, action, report)
      <4>1. Restored(l, clock + 1)
        BY <1>5, <3>2 DEF ModerateSQLite
      <4>2. clock + 1 \in Nat /\ clock + 1 # 0
        BY <1>2
      <4>3. QED
        BY <4>1, <4>2
    <3>3. QED
      BY <3>1, <3>2
  <2>2. /\ row'[l].status = "published" /\ row'[l].publishedAt # 0
        /\ row[l].status = "moderation_hidden" /\ row'[l].price = row[l].price
        /\ moderation'[l] = NoReport
        /\ \A m \in Listing \ {l} : row'[m] = row[m] /\ moderation'[m] = moderation[m]
    BY <1>1, <2>1 DEF Restored, TypeOK, Row
  <2>3. PairFits(row'[l], moderation'[l])
    BY <1>2, <2>2 DEF PairFits, PublishTimeFits, Priced
  <2>4. \A m \in Listing : /\ PairFits(row'[m], moderation'[m])
                           /\ owner'[m] = NoOwner => moderation'[m] = NoReport
    BY <1>3, <2>2, <2>3 DEF PairsFit
  <2>5. QED
    BY <1>3, <1>5, <2>2, <2>4 DEF PairsFit, Says
<1>6. QED
  BY <1>4, <1>5

\* Every step keeps rows and copies fitting, and a pending audit row true.
LEMMA DevStep == DevTypeOK /\ DevInv /\ [DevNext]_devVars => DevInv'
<1> SUFFICES ASSUME DevTypeOK, DevInv, [DevNext]_devVars
             PROVE  DevInv'
  OBVIOUS
<1> USE DEF DevInv
<1>1. TypeOK
  BY DEF DevTypeOK
<1>2. ASSUME UNCHANGED <<store, auditing>>,
             ~MutexFree => UNCHANGED <<row, moderation>>
      PROVE  PendingIsTrue'
  BY <1>2 DEF PendingIsTrue, MutexFree, Says
<1>3. ASSUME UNCHANGED <<owner, row, moderation, request, copied>>
      PROVE  PairsFit'
  BY <1>3 DEF PairsFit
<1>4. ASSUME NEW o \in Owner, NEW l \in Listing, CreateSQLite(o, l) \/ CreateMemory(o, l),
             UNCHANGED <<store, copied, auditing>>
      PROVE  DevInv'
  <2>1. Create(o, l) /\ (store = "memory" \/ MutexFree)
    BY <1>4 DEF CreateSQLite, CreateMemory
  <2>2. MutexFree
    BY <2>1 DEF PendingIsTrue
  <2>3. PICK p \in BOOLEAN, c \in BOOLEAN, k \in BOOLEAN, a \in BOOLEAN :
          row' = [row EXCEPT ![l] = [EmptyRow EXCEPT !.price = p, !.columns = c,
                                                     !.contact = k, !.address = a]]
    BY <2>1 DEF Create
  <2>4. /\ row'[l].status = "draft" /\ row'[l].publishedAt = 0
        /\ \A m \in Listing \ {l} : row'[m] = row[m]
        /\ UNCHANGED <<moderation, request>>
    BY <1>1, <2>1, <2>3 DEF Create, TypeOK, EmptyRow
  <2>5. \A m \in Listing : owner'[m] = NoOwner => owner[m] = NoOwner
    BY <2>1, ConstantsAssumption DEF Create, TypeOK
  <2>6. moderation[l] = NoReport
    BY <2>1 DEF Create, PairsFit
  <2>7. PairFits(row'[l], moderation'[l])
    BY <2>4, <2>6 DEF PairFits, PublishTimeFits, Priced
  <2>8. PairsFit'
    BY <1>4, <2>4, <2>5, <2>7 DEF PairsFit
  <2>9. QED
    BY <1>2, <1>4, <2>2, <2>8
<1>5. ASSUME NEW o \in Owner, NEW l \in Listing, NEW p \in Position,
             \/ AddImageSQLite(o, l, p) \/ AddImageMemory(o, l, p)
             \/ DeleteImageSQLite(o, l, p) \/ DeleteImageMemory(o, l, p),
             UNCHANGED <<store, copied, auditing>>
      PROVE  DevInv'
  <2>1. UNCHANGED <<owner, row, moderation, request>>
    BY <1>5 DEF AddImageSQLite, AddImageMemory, DeleteImageSQLite, DeleteImageMemory,
                AddImage, DeleteImage
  <2>2. QED
    BY <1>2, <1>3, <1>5, <2>1
<1>6. ASSUME NEW l \in Listing, NEW action \in {"hide", "restore"}, NEW report \in Report,
             ModerateMemory(l, action, report) \/ ModerateSQLite(l, action, report)
      PROVE  DevInv'
  <2>1. PairsFit' /\ Says(action, report, l)'
    BY <1>6, ModerationFits
  <2>2. CASE ModerateMemory(l, action, report)
    <3>1. MutexFree /\ auditing' = auditing
      BY <2>2 DEF ModerateMemory, PendingIsTrue
    <3>2. QED
      BY <2>1, <3>1 DEF PendingIsTrue, MutexFree
  <2>3. CASE ModerateSQLite(l, action, report)
    <3>1. /\ store' = "sqlite"
          /\ auditing' = [action |-> action, listing |-> l, report |-> report]
      BY <2>3 DEF ModerateSQLite
    <3>2. /\ auditing'.action = action /\ auditing'.listing = l /\ auditing'.report = report
      BY <3>1
    <3>3. Says(auditing.action, auditing.report, auditing.listing)'
      BY <2>1, <3>2 DEF Says
    <3>4. QED
      BY <2>1, <3>1, <3>3 DEF PendingIsTrue
  <2>4. QED
    BY <1>6, <2>2, <2>3
<1>7. CASE InsertAction \/ InsertFails \/ UNCHANGED devVars
  BY <1>3, <1>7 DEF InsertAction, InsertFails, devVars, PendingIsTrue, MutexFree, Says
<1>8. CASE Stop
  BY <1>8 DEF Stop, PairsFit, PendingIsTrue, MutexFree
<1>9. ASSUME NEW s \in Slot, NEW o \in Owner, NEW l \in Listing, ReadThenSave(s, o, l)
      PROVE  DevInv'
  <2>1. SetsOut(s) /\ copied' = [copied EXCEPT ![s] = moderation[l]] /\ UNCHANGED <<store, auditing>>
    BY <1>1, <1>9, HandlersSetOut DEF ReadThenSave, CopyModeration
  <2>2. PICK q \in Request :
          /\ request' = [request EXCEPT ![s] = q]
          /\ Will(q.pc, q.candidate, row[q.listing], q.listing)
          /\ UNCHANGED <<owner, row, moderation>>
    BY <2>1 DEF SetsOut
  <2>3. q.listing = l
    <3>1. request'[s] = q
      BY <1>1, <2>2 DEF TypeOK
    <3>2. \E pc, c : Begin(s, o, l, pc, c)
      BY <1>9 DEF ReadThenSave, BeginPatch, BeginPublish, BeginUnpublish, BeginClose,
                  BeginArchive
    <3>3. request'[s].listing = l
      BY <1>1, <3>2 DEF Begin, TypeOK
    <3>4. QED
      BY <3>1, <3>3
  <2>4. q.candidate \in Row /\ row[l] \in Row
    BY <1>1 DEF TypeOK, Request
  <2>5. PairFits(q.candidate, moderation[l])
    BY <2>2, <2>3, <2>4, CandidateFits DEF PairsFit
  <2>6. \A t \in Slot : /\ request'[t] = IF t = s THEN q ELSE request[t]
                        /\ copied'[t] = IF t = s THEN moderation[l] ELSE copied[t]
    BY <1>1, <2>1, <2>2 DEF TypeOK, DevTypeOK
  <2>7. PairsFit'
    BY <2>2, <2>5, <2>6 DEF PairsFit
  <2>8. QED
    BY <1>2, <2>1, <2>2, <2>7
<1>10. ASSUME NEW s \in Slot, SaveOwnerSQLite(s) \/ SaveOwnerMemory(s)
       PROVE  DevInv'
  <2> DEFINE q == request[s]
  <2>1. SaveCopy(s) /\ (store = "memory" \/ MutexFree)
    BY <1>10 DEF SaveOwnerSQLite, SaveOwnerMemory
  <2>2. MutexFree
    BY <2>1 DEF PendingIsTrue
  <2>3. q \in Request /\ q # NoRequest
    BY <1>1, <2>1 DEF SaveCopy, TypeOK, NoRequest
  <2>4. /\ \A m \in Listing :
             /\ row'[m] = IF m = q.listing THEN q.candidate ELSE row[m]
             /\ moderation'[m] = IF m = q.listing THEN copied[s] ELSE moderation[m]
        /\ owner' = owner /\ owner[q.listing] # NoOwner
    BY <1>1, <2>1, <2>3, ConstantsAssumption DEF SaveCopy, TypeOK, Request
  <2>5. \A t \in Slot \ {s} : request'[t] = request[t] /\ copied'[t] = copied[t]
    BY <1>1, <2>1 DEF SaveCopy, Forget, TypeOK, DevTypeOK
  <2>6. request'[s] = NoRequest
    BY <1>1, <2>1 DEF SaveCopy, TypeOK
  <2>7. PairFits(q.candidate, copied[s])
    BY <2>3 DEF PairsFit
  <2>8. PairsFit'
    BY <2>4, <2>5, <2>6, <2>7 DEF PairsFit
  <2>9. UNCHANGED <<store, auditing>>
    BY <2>1 DEF SaveCopy, Forget
  <2>10. QED
    BY <1>2, <2>2, <2>8, <2>9
<1>11. ASSUME NEW s \in Slot, CheckPatch(s) \/ CheckPublish(s),
              UNCHANGED <<store, copied, auditing>>
       PROVE  DevInv'
  <2>1. request[s] \in Request /\ request[s] # NoRequest
    BY <1>1, <1>11 DEF CheckPatch, CheckPublish, TypeOK, NoRequest
  <2>2. UNCHANGED <<owner, row, moderation>>
    BY <1>11 DEF CheckPatch, CheckPublish
  <2>3. \A t \in Slot \ {s} : request'[t] = request[t]
    BY <1>1, <1>11 DEF CheckPatch, CheckPublish, TypeOK
  <2>4. PairFits(request[s].candidate, copied[s])
    BY <2>1 DEF PairsFit
  <2>5. PairFits(request'[s].candidate, copied[s])
    <3>1. CASE CheckPatch(s)
      <4>1. request'[s].candidate = request[s].candidate
        BY <1>1, <2>1, <3>1 DEF CheckPatch, TypeOK, Request
      <4>2. QED
        BY <2>4, <4>1
    <3>2. CASE CheckPublish(s)
      <4>1. /\ request[s].candidate.status = "draft"
            /\ request'[s].candidate.status = "published"
            /\ request'[s].candidate.publishedAt = clock + 1
            /\ request'[s].candidate.price
        BY <1>1, <2>1, <3>2 DEF CheckPublish, MayPublish, Complete, TypeOK, Request, Row
      <4>2. clock + 1 # 0
        BY <1>1 DEF TypeOK
      <4>3. copied[s] = NoReport
        BY <2>4, <4>1 DEF PairFits
      <4>4. QED
        BY <4>1, <4>2, <4>3 DEF PairFits, PublishTimeFits, Priced
    <3>3. QED
      BY <1>11, <3>1, <3>2
  <2>6. PairsFit'
    BY <1>11, <2>2, <2>3, <2>5 DEF PairsFit
  <2>7. QED
    BY <1>2, <1>11, <2>2, <2>6
<1>12. ASSUME NEW s \in Slot, GiveUp(s), Forget(s)
       PROVE  DevInv'
  <2>1. /\ UNCHANGED <<owner, row, moderation, store, auditing>>
        /\ \A t \in Slot \ {s} : request'[t] = request[t] /\ copied'[t] = copied[t]
        /\ request'[s] = NoRequest
    BY <1>1, <1>12 DEF GiveUp, Forget, TypeOK, DevTypeOK
  <2>2. PairsFit'
    BY <2>1 DEF PairsFit
  <2>3. QED
    BY <1>2, <2>1, <2>2
<1>13. QED
  BY <1>4, <1>5, <1>6, <1>7, <1>8, <1>9, <1>10, <1>11, <1>12 DEF DevNext

\* The invariant of the development stores.
LEMMA DevInvariant == DevSpec => [](DevTypeOK /\ DevInv)
<1>1. DevInit => DevInv
  BY DEF DevInit, Init, DevInv, PairsFit, PairFits, PublishTimeFits, Priced, PendingIsTrue,
         MutexFree, EmptyRow
<1>2. DevTypeOK /\ DevInv /\ [DevNext]_devVars => DevInv'
  BY DevStep
<1>3. QED
  BY <1>1, <1>2, DevTypeCorrect, PTL DEF DevSpec

\* No row of a development store lacks the report, the publish time or the price that
\* its status stands for, whatever copies are saved over it.
THEOREM RowsFit == DevSpec => []RowsFitTheirStatus
<1>1. DevInv => RowsFitTheirStatus
  BY DEF DevInv, PairsFit, PairFits, PublishTimeFits, Priced, RowsFitTheirStatus,
         HiddenRowsNameTheirReport, PublicRowsHaveTheirTime, PublicRowsHaveTheirPrice
<1>2. QED
  BY <1>1, DevInvariant, PTL

\* When an audit row is written, the listing is as the row says: on SQLite the row is a
\* statement of its own, and the mutex keeps every save out until then.
THEOREM AuditRowsAreTrue == DevSpec => AuditRowsAreTrueWhenWritten
<1> DEFINE True(l) ==
      LET last == audit'[l][Len(audit'[l])]
      IN  \/ /\ last.action = "hide"
             /\ row'[l].status = "moderation_hidden"
             /\ moderation'[l] = last.report
          \/ /\ last.action = "restore"
             /\ row'[l].status = "published"
             /\ moderation'[l] = NoReport
<1>1. ASSUME DevTypeOK, NEW l \in Listing, NEW m \in Listing, NEW action \in {"hide", "restore"},
             NEW report \in Report, Record(m, action, report), Says(action, report, m)',
             audit'[l] # audit[l]
      PROVE  True(l)
  <2> DEFINE decision == [action |-> action, report |-> report]
  <2>1. m = l
    BY <1>1 DEF Record, DevTypeOK, TypeOK
  <2>2. audit'[l] = Append(audit[l], decision) /\ audit[l] \in Seq(Decision)
    BY <1>1, <2>1 DEF Record, DevTypeOK, TypeOK
  <2>3. audit'[l][Len(audit'[l])] = decision
    BY <2>2
  <2>4. decision.action = action /\ decision.report = report
    OBVIOUS
  <2> HIDE DEF decision
  <2>5. QED
    BY <1>1, <2>1, <2>3, <2>4 DEF Says
<1>2. ASSUME DevTypeOK, DevInv, [DevNext]_devVars, NEW l \in Listing, audit'[l] # audit[l]
      PROVE  True(l)
  <2>1. CASE \E m \in Listing, action \in {"hide", "restore"}, report \in Report :
               ModerateMemory(m, action, report)
    <3>1. PICK m \in Listing, action \in {"hide", "restore"}, report \in Report :
            ModerateMemory(m, action, report)
      BY <2>1
    <3>2. Record(m, action, report) /\ Says(action, report, m)'
      BY <1>2, <3>1, ModerationFits DEF ModerateMemory, DevInv
    <3>3. QED
      BY <1>1, <1>2, <3>2
  <2>2. CASE InsertAction
    <3> DEFINE m == auditing.listing
               action == auditing.action
               report == auditing.report
    <3>1. m \in Listing /\ action \in {"hide", "restore"} /\ report \in Report
      BY <1>2, <2>2 DEF InsertAction, MutexFree, DevTypeOK
    <3>2. PICK n \in Listing, a \in {"hide", "restore"}, rep \in Report :
            n = m /\ a = action /\ rep = report
      BY <3>1
    <3>3. Record(n, a, rep) /\ Says(a, rep, n)'
      BY <1>2, <2>2, <3>2 DEF InsertAction, DevInv, PendingIsTrue, Says
    <3>4. QED
      BY <1>1, <1>2, <3>3
  <2>3. CASE audit' = audit
    BY <1>2, <2>3
  <2>4. QED
    <3>1. ASSUME NEW s \in Slot,
                 \/ SaveOwnerSQLite(s) \/ SaveOwnerMemory(s)
                 \/ CheckPatch(s) \/ CheckPublish(s) \/ GiveUp(s)
          PROVE  audit' = audit
      BY <3>1 DEF SaveOwnerSQLite, SaveOwnerMemory, SaveCopy, CheckPatch, CheckPublish, GiveUp
    <3>2. ASSUME NEW s \in Slot, NEW o \in Owner, NEW m \in Listing, ReadThenSave(s, o, m)
          PROVE  audit' = audit
      <4>1. SetsOut(s)
        BY <1>2, <3>2, HandlersSetOut DEF ReadThenSave, DevTypeOK
      <4>2. QED
        BY <4>1 DEF SetsOut
    <3>3. ASSUME NEW o \in Owner, NEW m \in Listing, CreateSQLite(o, m) \/ CreateMemory(o, m)
          PROVE  audit' = audit
      BY <3>3 DEF CreateSQLite, CreateMemory, Create
    <3>4. ASSUME NEW o \in Owner, NEW m \in Listing, NEW p \in Position,
                 \/ AddImageSQLite(o, m, p) \/ AddImageMemory(o, m, p)
                 \/ DeleteImageSQLite(o, m, p) \/ DeleteImageMemory(o, m, p)
          PROVE  audit' = audit
      BY <3>4 DEF AddImageSQLite, AddImageMemory, DeleteImageSQLite, DeleteImageMemory,
                  AddImage, DeleteImage
    <3>5. ASSUME NEW m \in Listing, NEW action \in {"hide", "restore"}, NEW report \in Report,
                 ModerateSQLite(m, action, report)
          PROVE  audit' = audit
      BY <3>5 DEF ModerateSQLite
    <3>6. InsertFails \/ Stop => audit' = audit
      BY DEF InsertFails, Stop
    <3>7. UNCHANGED devVars => audit' = audit
      BY DEF devVars
    <3>8. QED
      BY <1>2, <2>1, <2>2, <2>3, <3>1, <3>2, <3>3, <3>4, <3>5, <3>6, <3>7 DEF DevNext
<1>3. DevTypeOK /\ DevInv /\ [DevNext]_devVars =>
        [\A l \in Listing : audit'[l] # audit[l] => True(l)]_devVars
  BY <1>2
<1>4. QED
  BY <1>3, DevInvariant, PTL DEF DevSpec, AuditRowsAreTrueWhenWritten

=============================================================================
