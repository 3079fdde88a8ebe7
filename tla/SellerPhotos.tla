---------------------------- MODULE SellerPhotos ----------------------------
(***************************************************************************)
(* The photo section of the seller page, on top of ImagePipeline: it is    *)
(* the only client here.  selectPhotos uploads the files picked one by     *)
(* one, each with presign, PUT and register, at positions counted from the *)
(* uploadedImages it saw when it started; it adds the whole batch to that  *)
(* state when the last file is done and nothing when one fails.  The file  *)
(* input is not disabled meanwhile, so batches may overlap: each runs in a *)
(* slot, and its handlers run in the same slot.  No page deletes images.   *)
(***************************************************************************)
EXTENDS ImagePipeline, Integers

CONSTANT MaxPhotos  \* bound: files picked at once

ASSUME PhotosAssumption == MaxPhotos \in Nat

VARIABLES
  uploaded,  \* uploadedImages.length
  batch      \* the run of selectPhotos in each slot

photoVars == <<url, object, images, request, reput, uploaded, batch>>

NoBatch == [step |-> "none"]

\* The photo at hand is number done of size; key is its object's, once known.
Batch == [step: {"presign"}, base: Nat, size: Nat, done: Nat]
           \cup [step: {"put", "register"}, base: Nat, size: Nat, done: Nat, key: Key]

\* The page numbers its photos itself.
Call == [pc: {"sign"}] \cup [pc: {"mark", "insert"}, key: Key, position: Nat]

PhotosTypeOK ==
  /\ url \in [Key -> {"unissued", "valid", "expired"}]
  /\ object \in [Key -> Tag \cup {"absent"}]
  /\ images \in SUBSET [key: Key, position: Nat] /\ IsFiniteSet(images)
  /\ request \in [Slot -> Call \cup {NoRequest}]
  /\ uploaded \in Nat
  /\ batch \in [Slot -> Batch \cup {NoBatch}]

PhotosInit == Init /\ uploaded = 0 /\ batch = [s \in Slot |-> NoBatch]

-----------------------------------------------------------------------------
(* What the page does.                                                     *)

\* The seller picks n files.
SelectPhotos(s, n) ==
  /\ batch[s] = NoBatch
  /\ request[s] = NoRequest
  /\ batch' = [batch EXCEPT ![s] =
                 [step |-> "presign", base |-> uploaded, size |-> n, done |-> 0]]
  /\ UNCHANGED <<vars, uploaded>>

UploadPhoto(s) ==
  /\ batch[s].step = "put"
  /\ Put(batch[s].key)
  /\ batch' = [batch EXCEPT ![s].step = "register"]
  /\ UNCHANGED uploaded

\* Fault: a failed batch is counted in full.
FailCounted(s) ==
  /\ batch[s] # NoBatch
  /\ uploaded' = uploaded + batch[s].size
  /\ batch' = [batch EXCEPT ![s] = NoBatch]
  /\ UNCHANGED vars

\* Fault: the loop goes on with the file after the one that failed.
FailSkipped(s) ==
  /\ batch[s] # NoBatch
  /\ request[s] = NoRequest
  /\ batch[s].done + 1 < batch[s].size
  /\ batch' = [batch EXCEPT ![s] = [step |-> "presign", base |-> batch[s].base,
                                    size |-> batch[s].size, done |-> batch[s].done + 1]]
  /\ UNCHANGED <<vars, uploaded>>

\* Fault: after an unanswered registration the file is sent again to the
\* URL it has.
FailResends(s) ==
  /\ batch[s].step = "register"
  /\ batch' = [batch EXCEPT ![s].step = "put"]
  /\ UNCHANGED <<vars, uploaded>>

\* A fetch throws: refused, failed or unanswered.  A handler that was asked
\* may still be at work.
Fail(s) ==
  /\ batch[s] # NoBatch
  /\ batch' = [batch EXCEPT ![s] = NoBatch]
  /\ UNCHANGED <<vars, uploaded>>

\* The page is loaded again for the same listing: it reads the listing's
\* fields but not its images.
Reload ==
  /\ uploaded' = 0
  /\ batch' = [s \in Slot |-> NoBatch]
  /\ UNCHANGED vars

-----------------------------------------------------------------------------
(* What the handlers answer.                                               *)

PhotoCounted(s) ==
  /\ batch[s].step = "presign"
  /\ CountImages(s)
  /\ UNCHANGED <<uploaded, batch>>

\* The answer names the key, if the page still waits for it.
PhotoPresigned(s, k) ==
  /\ PresignPut(s, k)
  /\ batch' = IF batch[s] = NoBatch THEN batch
              ELSE [batch EXCEPT ![s] = [step |-> "put", base |-> batch[s].base, key |-> k,
                                         size |-> batch[s].size, done |-> batch[s].done]]
  /\ UNCHANGED uploaded

PhotoFound(s) ==
  /\ batch[s].step = "register"
  /\ Head(s, batch[s].key, batch[s].base + batch[s].done)
  /\ UNCHANGED <<uploaded, batch>>

PhotoMarked(s) == MarkRegistered(s) /\ UNCHANGED <<uploaded, batch>>

\* 201: on to the next file, or the batch is done.
PhotoRegistered(s) ==
  LET b == batch[s]
  IN  /\ AddImage(s)
      /\ \/ /\ b = NoBatch
            /\ UNCHANGED <<uploaded, batch>>
         \/ /\ b # NoBatch
            /\ b.done + 1 < b.size
            /\ batch' = [batch EXCEPT ![s] = [step |-> "presign", base |-> b.base,
                                              size |-> b.size, done |-> b.done + 1]]
            /\ UNCHANGED uploaded
         \/ /\ b # NoBatch
            /\ b.done + 1 = b.size
            /\ uploaded' = uploaded + b.size
            /\ batch' = [batch EXCEPT ![s] = NoBatch]

\* An error answer ends the batch.
PhotoRefused(s) ==
  /\ GiveUp(s)
  /\ batch' = [batch EXCEPT ![s] = NoBatch]
  /\ UNCHANGED uploaded

StoreStep(k) ==
  /\ UrlExpires(k) \/ ExpireUnregistered(k)
  /\ UNCHANGED <<uploaded, batch>>

PhotosNext ==
  \/ \E s \in Slot, n \in 1..MaxPhotos : SelectPhotos(s, n)
  \/ \E s \in Slot : UploadPhoto(s) \/ Fail(s) \/ PhotoCounted(s) \/ PhotoFound(s)
                       \/ PhotoMarked(s) \/ PhotoRegistered(s) \/ PhotoRefused(s)
  \/ \E s \in Slot, k \in Key : PhotoPresigned(s, k)
  \/ \E k \in Key : StoreStep(k)
  \/ Reload

PhotosSpec == PhotosInit /\ [][PhotosNext]_photoVars

-----------------------------------------------------------------------------
(* ImagePipeline's ExpiryTakesNoListingImage holds of this client, which   *)
(* uses each URL once; what follows is about the page alone.               *)

\* The rows in page are those of the photos counted, the rows in past[s] those
\* of the photos that the batch in s is past.
Accounts(page, past) ==
  /\ Cardinality(page) = uploaded
  /\ \A s \in Slot : batch[s] # NoBatch =>
       /\ Cardinality(past[s]) = batch[s].done
       /\ past[s] \cap page = {}
       /\ \A t \in Slot \ {s} : batch[t] # NoBatch => past[s] \cap past[t] = {}

\* "Do not mark a local file as a published image before its object
\* registration succeeds" (docs/PLAN.md:223): each photo the page counts, and
\* each one a running batch is past, has a row of its own, whatever failed,
\* overlapped or went unanswered.
CountsOnlyRegisteredPhotos ==
  \E page \in SUBSET images, past \in [Slot -> SUBSET images] : Accounts(page, past)

\* The gallery of a listing filled from this page runs from position 0
\* without gaps (the first image is the cover).
GalleryHasNoGaps ==
  {i.position : i \in images} = 0..(Cardinality(images) - 1)

\* docs/PLAN.md:222 lists "failed-file recovery" among what the page does:
\* the position a photo is registered at is free.  It is not: violated when
\* added to the invariants of SellerPhotos_batches.cfg.
RecoveryFindsAFreePosition ==
  \A s \in Slot : request[s].pc = "insert"
                    => \A i \in images : i.position # request[s].position
=============================================================================
