-------------------------- MODULE ListingLifecycle --------------------------
(***************************************************************************)
(* The seller and staff writes of the Listings service on its Postgres     *)
(* store.  Every seller handler reads the listing (GetOwner), decides on   *)
(* that copy, and later writes the whole copy back (SaveOwner) with no     *)
(* version or status condition; staff moderation is one transaction.  A    *)
(* handler occupies a request slot from its read to its last write, so     *)
(* Cardinality(Slot) bounds how many handlers overlap.                     *)
(*                                                                         *)
(* Data.  "columns" stands for the text columns the Postgres constraint    *)
(* listings_published_fields requires (mode, type, title, description,     *)
(* city), "price" for its price_centavos; "contact" for those only         *)
(* MissingPublishFields requires (seller name, phone or email, rooms and   *)
(* areas of the property type); "address" for address_line.  Each says     *)
(* whether they are there.  An image is its position in the gallery.       *)
(* Times are the values of one clock; 0 is SQL NULL.                       *)
(***************************************************************************)
EXTENDS Naturals, Sequences

CONSTANTS
  Listing,    \* listing ids
  Owner,      \* JWT subjects with role seller
  NoOwner,    \* no row has been inserted for the id
  Report,     \* report ids staff may quote
  NoReport,   \* moderation_report_id IS NULL
  Position,   \* gallery positions
  Slot,       \* concurrent requests
  MaxClock,   \* bound: timestamps handed out
  MaxAudit    \* bound: moderation decisions per listing

ASSUME ConstantsAssumption ==
  /\ NoOwner \notin Owner
  /\ NoReport \notin Report
  /\ MaxClock \in Nat
  /\ MaxAudit \in Nat

VARIABLES
  owner,       \* listings.owner_id
  row,         \* the columns SaveOwner writes
  moderation,  \* listings.moderation_report_id, written by Moderate only
  images,      \* positions of the listing's rows in listing_images
  audit,       \* the listing's rows of listing_moderation_actions, in order
  clock,       \* the latest timestamp handed out
  request      \* the handler in each slot

vars == <<owner, row, moderation, images, audit, clock, request>>

Status == {"draft", "published", "closed", "archived", "moderation_hidden"}

Row == [status: Status, publishedAt: Nat, price: BOOLEAN,
        columns: BOOLEAN, contact: BOOLEAN, address: BOOLEAN]

Decision == [action: {"hide", "restore"}, report: Report]

NoRequest == [pc |-> "idle"]

\* pc = "count": the handler is about to count the images; pc = "save": it
\* is about to write its candidate row.
Request == [pc: {"count", "save"}, listing: Listing, by: Owner, candidate: Row]

EmptyRow == [status |-> "draft", publishedAt |-> 0, price |-> FALSE,
             columns |-> FALSE, contact |-> FALSE, address |-> FALSE]

TypeOK ==
  /\ owner \in [Listing -> Owner \cup {NoOwner}]
  /\ row \in [Listing -> Row]
  /\ moderation \in [Listing -> Report \cup {NoReport}]
  /\ images \in [Listing -> SUBSET Position]
  /\ audit \in [Listing -> Seq(Decision)]
  /\ clock \in Nat
  /\ request \in [Slot -> Request \cup {NoRequest}]

Init ==
  /\ owner = [l \in Listing |-> NoOwner]
  /\ row = [l \in Listing |-> EmptyRow]
  /\ moderation = [l \in Listing |-> NoReport]
  /\ images = [l \in Listing |-> {}]
  /\ audit = [l \in Listing |-> <<>>]
  /\ clock = 0
  /\ request = [s \in Slot |-> NoRequest]

-----------------------------------------------------------------------------
(* What the database and the validators accept.                            *)

\* What listings_published_fields and MissingPublishFields both require.
Complete(r) == r.columns /\ r.price

\* listings_published_fields and listings_draft_not_published.
DBAccepts(r) ==
  /\ r.status \in {"published", "closed"} => Complete(r) /\ r.publishedAt # 0
  /\ r.status = "draft" => r.publishedAt = 0

\* Fault: the publish gate from before contact details were required.
MayPublishWithoutContact(r, l) == Complete(r) /\ images[l] # {}

\* MissingPublishFields(candidate, len(images)) is empty.
MayPublish(r, l) == Complete(r) /\ r.contact /\ images[l] # {}

\* What scanListing returns: AddressLine is tagged json:"-", so the decoder
\* of row_to_json never fills it.
ReadCopy(l) == [row[l] EXCEPT !.address = FALSE]

FreeSlot == \E s \in Slot : request[s] = NoRequest

-----------------------------------------------------------------------------
(* Handlers that finish in one database step.                              *)

\* POST /listings: any draft that ValidateDraft accepts, complete or not.
Create(o, l) ==
  /\ FreeSlot
  /\ owner[l] = NoOwner
  /\ owner' = [owner EXCEPT ![l] = o]
  /\ \E p, c, k, a \in BOOLEAN :
       row' = [row EXCEPT ![l] = [EmptyRow EXCEPT !.price = p, !.columns = c,
                                                  !.contact = k, !.address = a]]
  /\ UNCHANGED <<moderation, images, audit, clock, request>>

\* The insert a successful RegisterImage ends in; the ownership read before
\* it commutes, since neither owner_id nor the row ever goes away.
AddImage(o, l, p) ==
  /\ FreeSlot
  /\ owner[l] = o
  /\ p \notin images[l]
  /\ images' = [images EXCEPT ![l] = @ \cup {p}]
  /\ UNCHANGED <<owner, row, moderation, audit, clock, request>>

\* DELETE /listings/{id}/images/{imageId}: whatever the listing's status.
DeleteImage(o, l, p) ==
  /\ FreeSlot
  /\ owner[l] = o
  /\ p \in images[l]
  /\ images' = [images EXCEPT ![l] = @ \ {p}]
  /\ UNCHANGED <<owner, row, moderation, audit, clock, request>>

\* The audit row that commits with either moderation.
Record(l, action, report) ==
  /\ Len(audit[l]) < MaxAudit
  /\ audit' = [audit EXCEPT ![l] = Append(@, [action |-> action, report |-> report])]

\* Fault: a status outside the CHECK of 007_moderation.sql.
HideUnknownStatus(l, report) ==
  /\ FreeSlot
  /\ owner[l] # NoOwner
  /\ row[l].status = "published"
  /\ row' = [row EXCEPT ![l].status = "hidden"]
  /\ moderation' = [moderation EXCEPT ![l] = report]
  /\ Record(l, "hide", report)
  /\ UNCHANGED <<owner, images, clock, request>>

\* Staff hide: UPDATE ... WHERE status='published' and its audit row commit
\* together.
Hide(l, report) ==
  /\ FreeSlot
  /\ owner[l] # NoOwner
  /\ row[l].status = "published"
  /\ row' = [row EXCEPT ![l].status = "moderation_hidden"]
  /\ moderation' = [moderation EXCEPT ![l] = report]
  /\ Record(l, "hide", report)
  /\ UNCHANGED <<owner, images, clock, request>>

\* Fault: the audit row is left out of the transaction.
RestoreUnaudited(l, report) ==
  /\ FreeSlot
  /\ clock < MaxClock
  /\ row[l].status = "moderation_hidden"
  /\ row' = [row EXCEPT ![l].status = "published", ![l].publishedAt = clock + 1]
  /\ moderation' = [moderation EXCEPT ![l] = NoReport]
  /\ clock' = clock + 1
  /\ UNCHANGED <<owner, images, audit, request>>

\* Staff restore: the constraints may refuse the row, and then the whole
\* transaction rolls back.
Restore(l, report) ==
  /\ FreeSlot
  /\ owner[l] # NoOwner
  /\ clock < MaxClock
  /\ row[l].status = "moderation_hidden"
  /\ LET restored == [row[l] EXCEPT !.status = "published", !.publishedAt = clock + 1]
     IN  /\ DBAccepts(restored)
         /\ row' = [row EXCEPT ![l] = restored]
  /\ moderation' = [moderation EXCEPT ![l] = NoReport]
  /\ Record(l, "restore", report)
  /\ clock' = clock + 1
  /\ UNCHANGED <<owner, images, request>>

-----------------------------------------------------------------------------
(* Handlers that read a copy and save it later.                            *)

\* ownerListing succeeded for o; the handler goes on with candidate.
Begin(s, o, l, pc, candidate) ==
  /\ request[s] = NoRequest
  /\ owner[l] = o
  /\ request' = [request EXCEPT ![s] =
                   [pc |-> pc, listing |-> l, by |-> o, candidate |-> candidate]]
  /\ UNCHANGED <<owner, row, moderation, images, audit, clock>>

\* Fault: an explicit null clears the price.
PatchClearsPrice(s, o, l) ==
  \E p, c, k, a \in BOOLEAN :
    LET candidate == [ReadCopy(l) EXCEPT !.price = p, !.columns = c, !.contact = k,
                                         !.address = a]
    IN  Begin(s, o, l, IF candidate.status = "published" THEN "count" ELSE "save",
              candidate)

\* PATCH may set any field of the copy, and blank any but the price: Apply
\* takes null for an omitted field, and ValidateDraft refuses what is not
\* greater than zero.  status and published_at stay as read.  Only a copy read
\* as published has its images counted.
BeginPatch(s, o, l) ==
  \E p, c, k, a \in BOOLEAN :
    LET read == ReadCopy(l)
        candidate == [read EXCEPT !.price = @ \/ p, !.columns = c, !.contact = k,
                                  !.address = a]
    IN  Begin(s, o, l, IF read.status = "published" THEN "count" ELSE "save", candidate)

BeginPublish(s, o, l) ==
  /\ row[l].status = "draft"
  /\ Begin(s, o, l, "count", ReadCopy(l))

\* Fault: unpublish keeps published_at.
UnpublishKeepsTime(s, o, l) ==
  /\ row[l].status = "published"
  /\ Begin(s, o, l, "save", [ReadCopy(l) EXCEPT !.status = "draft"])

\* Fault: unpublish does not look at the status.
UnpublishAnything(s, o, l) ==
  Begin(s, o, l, "save", [ReadCopy(l) EXCEPT !.status = "draft", !.publishedAt = 0])

BeginUnpublish(s, o, l) ==
  /\ row[l].status = "published"
  /\ Begin(s, o, l, "save", [ReadCopy(l) EXCEPT !.status = "draft", !.publishedAt = 0])

BeginClose(s, o, l) ==
  /\ row[l].status = "published"
  /\ Begin(s, o, l, "save", [ReadCopy(l) EXCEPT !.status = "closed"])

\* DELETE /listings/{id} archives whatever status it read.
BeginArchive(s, o, l) ==
  Begin(s, o, l, "save", [ReadCopy(l) EXCEPT !.status = "archived"])

\* Fault: a PATCH of a public listing is not checked again.
PatchUnchecked(s) ==
  /\ request[s].pc = "count"
  /\ request[s].candidate.status = "published"
  /\ request' = [request EXCEPT ![s].pc = "save"]
  /\ UNCHANGED <<owner, row, moderation, images, audit, clock>>

\* ListImages, then MissingPublishFields on the copy, of a PATCH.
CheckPatch(s) ==
  /\ request[s].pc = "count"
  /\ request[s].candidate.status = "published"
  /\ MayPublish(request[s].candidate, request[s].listing)
  /\ request' = [request EXCEPT ![s].pc = "save"]
  /\ UNCHANGED <<owner, row, moderation, images, audit, clock>>

\* The same of a publish, which then stamps the copy.
CheckPublish(s) ==
  /\ clock < MaxClock
  /\ request[s].pc = "count"
  /\ request[s].candidate.status = "draft"
  /\ MayPublish(request[s].candidate, request[s].listing)
  /\ clock' = clock + 1
  /\ request' = [request EXCEPT ![s].pc = "save",
                                ![s].candidate.status = "published",
                                ![s].candidate.publishedAt = clock + 1]
  /\ UNCHANGED <<owner, row, moderation, images, audit>>

\* Fault: the save also writes the moderation columns of its copy, as the
\* memory store does.
SaveModerationToo(s) ==
  /\ request[s].pc = "save"
  /\ owner[request[s].listing] = request[s].by
  /\ DBAccepts(request[s].candidate)
  /\ row' = [row EXCEPT ![request[s].listing] = request[s].candidate]
  /\ moderation' = [moderation EXCEPT ![request[s].listing] = NoReport]
  /\ request' = [request EXCEPT ![s] = NoRequest]
  /\ UNCHANGED <<owner, images, audit, clock>>

\* SaveOwner: UPDATE listings SET every column but the moderation ones
\* WHERE id AND owner_id.
SaveOwner(s) ==
  /\ request[s].pc = "save"
  /\ owner[request[s].listing] = request[s].by
  /\ DBAccepts(request[s].candidate)
  /\ row' = [row EXCEPT ![request[s].listing] = request[s].candidate]
  /\ request' = [request EXCEPT ![s] = NoRequest]
  /\ UNCHANGED <<owner, moderation, images, audit, clock>>

\* The handler ends without a write: missing fields (400), a constraint
\* refusing the row (500), a cancelled request or a stopped service.
GiveUp(s) ==
  /\ request[s] # NoRequest
  /\ request' = [request EXCEPT ![s] = NoRequest]
  /\ UNCHANGED <<owner, row, moderation, images, audit, clock>>

Next ==
  \/ \E o \in Owner, l \in Listing :
       \/ Create(o, l)
       \/ \E p \in Position : AddImage(o, l, p)
       \/ \E p \in Position : DeleteImage(o, l, p)
  \/ \E l \in Listing, report \in Report : Hide(l, report) \/ Restore(l, report)
  \/ \E s \in Slot, o \in Owner, l \in Listing :
       \/ BeginPatch(s, o, l)
       \/ BeginPublish(s, o, l)
       \/ BeginUnpublish(s, o, l)
       \/ BeginClose(s, o, l)
       \/ BeginArchive(s, o, l)
  \/ \E s \in Slot : CheckPatch(s) \/ CheckPublish(s) \/ SaveOwner(s) \/ GiveUp(s)

Spec == Init /\ [][Next]_vars
-----------------------------------------------------------------------------
(* What holds whatever requests overlap.                                   *)

\* A row that is, or was when hidden, public carries its publish time, and a
\* draft carries none.
PublishTimeFits(r) ==
  /\ r.status \in {"published", "closed", "moderation_hidden"} => r.publishedAt # 0
  /\ r.status = "draft" => r.publishedAt = 0

\* published_at is "set on publish, cleared on unpublish" (001_init.sql) in
\* every row and in every copy a handler still holds.  The constraints say
\* nothing of a hidden row, so this rests on every handler carrying the pair
\* (status, published_at) from one read to one write.
PublishTimeMatchesStatus ==
  /\ \A l \in Listing : PublishTimeFits(row[l])
  /\ \A s \in Slot : request[s] # NoRequest => PublishTimeFits(request[s].candidate)

\* However stale its copy, a handler that got past its checks is refused by
\* the two status constraints (a 500) in one case only: a PATCH that blanks a
\* required text column of a closed listing, which no check of the handler
\* looks at.  It is never for want of a price or a publish time.  (Single values
\* that both layers judge are left out, a title with five bytes but fewer
\* characters included: the check takes it and the constraint does not.)
OnlyBlankedClosedRowsAreRefused ==
  \A s \in Slot :
    request[s].pc = "save" /\ ~ DBAccepts(request[s].candidate)
      => LET c == request[s].candidate
         IN  c.status = "closed" /\ c.price /\ c.publishedAt # 0 /\ ~ c.columns

\* moderation_report_id is what the last audit row says: the report of a
\* hide, nothing after a restore.  No seller's save, fresh or stale, can part
\* the two records a moderator traces a decision by (docs/MODERATION.md).
ModerationMatchesAudit ==
  \A l \in Listing :
    moderation[l] = IF audit[l] # <<>> /\ audit[l][Len(audit[l])].action = "hide"
                    THEN audit[l][Len(audit[l])].report
                    ELSE NoReport

\* An existing row changes only when its owner's request saves it or when an
\* audit row is written with the change.
ChangesAreTheOwnersOrAudited ==
  [][\A l \in Listing :
       owner[l] # NoOwner /\ row'[l] # row[l] =>
         \/ audit'[l] # audit[l]
         \/ \E s \in Slot : /\ request[s] # NoRequest
                            /\ request[s].listing = l
                            /\ request[s].by = owner[l]
                            /\ request'[s] = NoRequest]_vars

\* A seller's request never leaves a public row without the fields that
\* MissingPublishFields asks for, however old the copy it checked: the check
\* and the saved fields are of one copy.
SellersNeverPublishIncomplete ==
  [][\A l \in Listing :
       /\ row'[l] # row[l]
       /\ row'[l].status = "published"
       /\ audit'[l] = audit[l]
       => Complete(row'[l]) /\ row'[l].contact]_vars

-----------------------------------------------------------------------------
(* What the repository says and overlapping or later requests break.  The  *)
(* run of ListingLifecycle_stale_restore.cfg finds OnlyStaffRestore        *)
(* violated; each of the others is violated too when it takes its place.   *)

\* docs/MODERATION.md:9: "Restoring a hidden listing is also staff-only and
\* creates a second audit row."
OnlyStaffRestore ==
  [][\A l \in Listing :
       row[l].status = "moderation_hidden" /\ row'[l].status = "published"
         => audit'[l] # audit[l]]_vars

\* services/listings/README.md:36: "draft -> published -> closed
\* (sold/rented) -> archived": a closed listing never comes back.
ClosedNeverReopens ==
  [][\A l \in Listing :
       row[l].status = "closed" => row'[l].status \in {"closed", "archived"}]_vars

\* services/listings/README.md:41: "Publishing requires: title, description,
\* price, city, property_type, and at least one image."
PublishingNeedsAnImage ==
  [][\A l \in Listing :
       row[l].status = "draft" /\ row'[l].status = "published"
         => images[l] # {}]_vars

\* migrations/002_domain_fixes.sql:3: "publish-time data is enforced here and
\* again in the service before a listing becomes public."
PublicOnlyWithPublishData ==
  [][\A l \in Listing :
       row[l].status # "published" /\ row'[l].status = "published"
         => Complete(row'[l]) /\ row'[l].contact]_vars

\* internal/listings/model.go:87: "Input uses pointers so PATCH can
\* distinguish an omitted field from an explicit JSON null, which clears
\* nullable draft fields": what a request does not mention stays.
AddressSurvives ==
  [][\A l \in Listing : row[l].address => row'[l].address]_vars
=============================================================================
