---------------------------- MODULE ImagePipeline ----------------------------
(***************************************************************************)
(* The images of one listing, from the presigned upload URL to the row in  *)
(* listing_images: the presign and register handlers of the Listings       *)
(* service, the object store the client writes to directly, and the        *)
(* bucket's expiry of objects tagged state=unregistered.                   *)
(*                                                                         *)
(* Data.  An object is its tag: bytes, content type and size are left out, *)
(* as are the requests their checks refuse.  The client is any seller's    *)
(* program that follows the API: it may use a URL more than once while it  *)
(* is valid and register any object under the listing's prefix, in any     *)
(* order and at any position.  The page Hacuba ships is SellerPhotos.      *)
(***************************************************************************)
EXTENDS Naturals, FiniteSets

CONSTANTS
  Key,       \* the object keys NewKey may draw
  Position,  \* gallery positions clients ask for
  Slot,      \* concurrent handlers
  MaxImages  \* the cap per listing, 20 in the code

ASSUME ImageAssumption == Position \subseteq Nat /\ MaxImages \in Nat

VARIABLES
  url,      \* the presigned URL of each key
  object,   \* the object of each key, by its state tag
  images,   \* the rows of listing_images
  request,  \* the handler in each slot
  reput     \* the keys a client wrote again after they were registered

vars == <<url, object, images, request, reput>>

Tag == {"unregistered", "registered"}

Image == [key: Key, position: Position]

NoRequest == [pc |-> "idle"]

\* pc = "sign": below the cap, about to sign; "mark": the object was found;
\* "insert": it is tagged registered and the row is still to be inserted.
Request == [pc: {"sign"}] \cup [pc: {"mark", "insert"}, key: Key, position: Position]

TypeOK ==
  /\ url \in [Key -> {"unissued", "valid", "expired"}]
  /\ object \in [Key -> Tag \cup {"absent"}]
  /\ images \subseteq Image
  /\ request \in [Slot -> Request \cup {NoRequest}]
  /\ reput \subseteq Key

Init ==
  /\ url = [k \in Key |-> "unissued"]
  /\ object = [k \in Key |-> "absent"]
  /\ images = {}
  /\ request = [s \in Slot |-> NoRequest]
  /\ reput = {}

-----------------------------------------------------------------------------
(* POST /listings/{id}/images/presign                                      *)

\* Another image is allowed by the rows there are now.
CountImages(s) ==
  /\ request[s] = NoRequest
  /\ Cardinality(images) < MaxImages
  /\ request' = [request EXCEPT ![s] = [pc |-> "sign"]]
  /\ UNCHANGED <<url, object, images, reput>>

\* NewKey draws a key nobody had; the URL for it is signed.
PresignPut(s, k) ==
  /\ request[s].pc = "sign"
  /\ url[k] = "unissued"
  /\ url' = [url EXCEPT ![k] = "valid"]
  /\ request' = [request EXCEPT ![s] = NoRequest]
  /\ UNCHANGED <<object, images, reput>>

-----------------------------------------------------------------------------
(* The object store.                                                       *)

\* The client's PUT: the signed tagging header makes the object unregistered.
Put(k) ==
  /\ url[k] = "valid"
  /\ object' = [object EXCEPT ![k] = "unregistered"]
  /\ reput' = IF object[k] = "registered" THEN reput \cup {k} ELSE reput
  /\ UNCHANGED <<url, images, request>>

\* Five minutes after it was signed.
UrlExpires(k) ==
  /\ url[k] = "valid"
  /\ url' = [url EXCEPT ![k] = "expired"]
  /\ UNCHANGED <<object, images, request, reput>>

\* Fault: the rule's filter names the other tag.
ExpireRegistered(k) ==
  /\ object[k] = "registered"
  /\ url[k] = "expired"
  /\ object' = [object EXCEPT ![k] = "absent"]
  /\ UNCHANGED <<url, images, request, reput>>

\* The bucket rule removes an unregistered object a day or more after it was
\* written, when its URL is long expired.
ExpireUnregistered(k) ==
  /\ object[k] = "unregistered"
  /\ url[k] = "expired"
  /\ object' = [object EXCEPT ![k] = "absent"]
  /\ UNCHANGED <<url, images, request, reput>>

-----------------------------------------------------------------------------
(* POST /listings/{id}/images and DELETE /listings/{id}/images/{imageId}   *)

\* HeadObject finds the object.
Head(s, k, p) ==
  /\ request[s] = NoRequest
  /\ object[k] # "absent"
  /\ request' = [request EXCEPT ![s] = [pc |-> "mark", key |-> k, position |-> p]]
  /\ UNCHANGED <<url, object, images, reput>>

\* Fault: the row is inserted without promoting the object.
MarkNothing(s) ==
  /\ request[s].pc = "mark"
  /\ request' = [request EXCEPT ![s].pc = "insert"]
  /\ UNCHANGED <<url, object, images, reput>>

\* PutObjectTagging, which fails for an object that is gone.
MarkRegistered(s) ==
  LET k == request[s].key
  IN  /\ request[s].pc = "mark"
      /\ object[k] # "absent"
      /\ object' = [object EXCEPT ![k] = "registered"]
      /\ request' = [request EXCEPT ![s].pc = "insert"]
      /\ UNCHANGED <<url, images, reput>>

\* The unique keys of listing_images: one row for an object, one for a
\* position.
Conflicts(k, p) == \E i \in images : i.key = k \/ i.position = p

AddImage(s) ==
  LET k == request[s].key
      p == request[s].position
  IN  /\ request[s].pc = "insert"
      /\ ~Conflicts(k, p)
      /\ images' = images \cup {[key |-> k, position |-> p]}
      /\ request' = [request EXCEPT ![s] = NoRequest]
      /\ UNCHANGED <<url, object, reput>>

\* The row goes; the object stays, tagged registered.
DeleteImage(i) ==
  /\ images' = images \ {i}
  /\ UNCHANGED <<url, object, request, reput>>

\* A handler ends early: a unique key refuses the row (400), the object is
\* gone or the store fails (500), the request is cancelled or the service
\* stops.
GiveUp(s) ==
  /\ request[s] # NoRequest
  /\ request' = [request EXCEPT ![s] = NoRequest]
  /\ UNCHANGED <<url, object, images, reput>>

Next ==
  \/ \E s \in Slot : CountImages(s) \/ MarkRegistered(s) \/ AddImage(s) \/ GiveUp(s)
  \/ \E s \in Slot, k \in Key : PresignPut(s, k)
  \/ \E s \in Slot, k \in Key, p \in Position : Head(s, k, p)
  \/ \E k \in Key : Put(k) \/ UrlExpires(k) \/ ExpireUnregistered(k)
  \/ \E i \in images : DeleteImage(i)

Spec == Init /\ [][Next]_vars

\* URLs do run out and the bucket's rule does run: both are the object
\* store's clock.  Nothing is asked of clients or handlers.
StoreFairness ==
  \A k \in Key : WF_vars(UrlExpires(k)) /\ WF_vars(ExpireUnregistered(k))

LiveSpec == Spec /\ StoreFairness

-----------------------------------------------------------------------------
(* What holds.                                                             *)

\* The object is promoted before its row is inserted (handlers/listings.go:
\* 229): a listing shows no image whose object may expire, unless a client
\* wrote the object again after that.
ImagesKeepTheirObject ==
  \A i \in images : object[i.key] = "registered" \/ i.key \in reput

\* "so abandoned uploads are removed" (services/listings/README.md:72): an
\* upload does not stay unregistered for ever, whatever handlers do to it.
AbandonedUploadsGo ==
  \A k \in Key : object[k] = "unregistered" ~> object[k] # "unregistered"

-----------------------------------------------------------------------------
(* What the repository says and the service alone does not keep: the first *)
(* depends on the client (SellerPhotos, the seller page, keeps it); the    *)
(* second fails when checked of Spec with two keys and MaxImages = 1.      *)

\* images.go:29-31: "its lifecycle rule can remove abandoned uploads without
\* ever deleting a registered listing image".
ExpiryTakesNoListingImage ==
  [][\A i \in images : object[i.key] # "absent" => object'[i.key] # "absent"]_vars

\* handlers/listings.go:182: "maximum 20 images".
AtMostMaxImages == Cardinality(images) <= MaxImages
=============================================================================
