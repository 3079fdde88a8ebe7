---------------------------- MODULE LocalUploads ----------------------------
(***************************************************************************)
(* ImagePipeline on either object store: S3, or the development store of   *)
(* images/local.go, which takes the upload itself and writes it to a file. *)
(* A presigned key is pending until a PUT of it has finished; the PUT asks *)
(* for that first and writes afterwards, with nothing held in between.     *)
(*                                                                         *)
(* Data.  Of the local store, object[k] is "registered" when the file is   *)
(* whole (no rule ever removes it) and "unregistered" while it is being    *)
(* written or was left half written; url[k] stays "valid", since only      *)
(* pending decides; reput has the keys whose file was not whole, or had a  *)
(* PUT under way, when a registration found it.                            *)
(***************************************************************************)
EXTENDS ImagePipeline

CONSTANT Upload  \* concurrent PUTs to the local store

VARIABLES
  bucket,   \* "s3" or "local"
  pending,  \* the keys the local store expects an upload of
  upload    \* the PUT handlers

uploadVars == <<url, object, images, request, reput, bucket, pending, upload>>

NoUpload == [pc |-> "idle"]

UploadsInit ==
  /\ Init
  /\ bucket \in {"s3", "local"}
  /\ pending = {}
  /\ upload = [u \in Upload |-> NoUpload]

Writing(k) == {u \in Upload : upload[u] # NoUpload /\ upload[u].key = k}

-----------------------------------------------------------------------------
(* LocalStore.                                                             *)

PresignLocal(s, k) ==
  /\ PresignPut(s, k)
  /\ pending' = pending \cup {k}
  /\ UNCHANGED upload

\* The upload is expected, and its headers are those of the presign.
Accept(u, k) ==
  /\ upload[u] = NoUpload
  /\ k \in pending
  /\ upload' = [upload EXCEPT ![u] = [pc |-> "accepted", key |-> k]]
  /\ UNCHANGED <<url, object, images, request, reput, pending>>

\* os.Create: a file there is truncated.
CreateFile(u) ==
  /\ upload[u].pc = "accepted"
  /\ object' = [object EXCEPT ![upload[u].key] = "unregistered"]
  /\ upload' = [upload EXCEPT ![u].pc = "copying"]
  /\ UNCHANGED <<url, images, request, reput, pending>>

\* The directory or the file cannot be made.
CreateFails(u) ==
  /\ upload[u].pc = "accepted"
  /\ upload' = [upload EXCEPT ![u] = NoUpload]
  /\ UNCHANGED <<url, object, images, request, reput, pending>>

\* The file u has written, unless it was removed meanwhile: whole when no
\* other PUT has truncated it and is still at it.
Written(u) ==
  IF upload[u].pc = "removed" THEN object[upload[u].key]
  ELSE IF \E v \in Writing(upload[u].key) \ {u} : upload[v].pc = "copying"
  THEN "unregistered" ELSE "registered"

\* Fault: the key stays pending.
FinishExpected(u) ==
  /\ upload[u].pc \in {"copying", "removed"}
  /\ object' = [object EXCEPT ![upload[u].key] = Written(u)]
  /\ upload' = [upload EXCEPT ![u] = NoUpload]
  /\ UNCHANGED <<url, images, request, reput, pending>>

\* The bytes have come: the key is not pending any more.
FinishFile(u) ==
  /\ upload[u].pc \in {"copying", "removed"}
  /\ object' = [object EXCEPT ![upload[u].key] = Written(u)]
  /\ pending' = pending \ {upload[u].key}
  /\ upload' = [upload EXCEPT ![u] = NoUpload]
  /\ UNCHANGED <<url, images, request, reput>>

\* Too few bytes, too many, or a lost connection: os.Remove, by path, whoever
\* else is writing there.
RemoveFile(u) ==
  /\ upload[u].pc \in {"copying", "removed"}
  /\ object' = [object EXCEPT ![upload[u].key] = "absent"]
  /\ upload' = [v \in Upload |->
                  IF v = u THEN NoUpload
                  ELSE IF v \in Writing(upload[u].key) /\ upload[v].pc = "copying"
                  THEN [upload[v] EXCEPT !.pc = "removed"] ELSE upload[v]]
  /\ UNCHANGED <<url, images, request, reput, pending>>

\* os.Stat finds a file, whole or not.
HeadLocal(s, k, p) ==
  /\ request[s] = NoRequest
  /\ object[k] # "absent"
  /\ request' = [request EXCEPT ![s] = [pc |-> "mark", key |-> k, position |-> p]]
  /\ reput' = IF object[k] = "unregistered" \/ Writing(k) # {} THEN reput \cup {k} ELSE reput
  /\ UNCHANGED <<url, object, images, pending, upload>>

\* MarkRegistered does nothing, and does not ask for the file again.
MarkLocal(s) ==
  /\ request[s].pc = "mark"
  /\ request' = [request EXCEPT ![s].pc = "insert"]
  /\ UNCHANGED <<url, object, images, reput, pending, upload>>

\* The service stops: what it expected is forgotten, files stay as they are.
Restart ==
  /\ pending' = {}
  /\ upload' = [u \in Upload |-> NoUpload]
  /\ request' = [s \in Slot |-> NoRequest]
  /\ UNCHANGED <<url, object, images, reput>>

LocalNext ==
  \/ \E s \in Slot, k \in Key : PresignLocal(s, k)
  \/ \E s \in Slot, k \in Key, p \in Position : HeadLocal(s, k, p)
  \/ \E u \in Upload : CreateFile(u) \/ CreateFails(u) \/ FinishFile(u) \/ RemoveFile(u)
  \/ \E u \in Upload, k \in Key : Accept(u, k)
  \/ \E s \in Slot : MarkLocal(s)
  \/ /\ \/ \E s \in Slot : CountImages(s) \/ AddImage(s) \/ GiveUp(s)
        \/ \E i \in images : DeleteImage(i)
     /\ UNCHANGED <<pending, upload>>
  \/ Restart

UploadsNext ==
  /\ \/ bucket = "s3" /\ Next /\ UNCHANGED <<pending, upload>>
     \/ bucket = "local" /\ LocalNext
  /\ UNCHANGED bucket

\* The object store's clock, as in ImagePipeline.
UploadsFairness ==
  \A k \in Key : /\ WF_uploadVars(bucket = "s3" /\ UrlExpires(k)
                                  /\ UNCHANGED <<bucket, pending, upload>>)
                 /\ WF_uploadVars(bucket = "s3" /\ ExpireUnregistered(k)
                                  /\ UNCHANGED <<bucket, pending, upload>>)

UploadsSpec == UploadsInit /\ [][UploadsNext]_uploadVars /\ UploadsFairness

-----------------------------------------------------------------------------
\* AbandonedUploadsGo of the store that has the rule; the local one keeps what
\* nobody registers.
S3AbandonedUploadsGo == bucket = "s3" => AbandonedUploadsGo

\* A whole file that no PUT is at is not written again: the PUT that finished
\* took the key off the pending ones, so that only a PUT accepted before that
\* can still touch it (local.go:83-110).
WholeFilesStay ==
  [][\A k \in Key : bucket = "local" /\ object[k] = "registered" /\ Writing(k) = {}
       => object'[k] = "registered" /\ Writing(k)' = {}]_uploadVars

-----------------------------------------------------------------------------
(* What fails.                                                             *)

\* The file of a listing's image is whole on the local store.  It is not: the
\* file may be registered while its bytes still come and be cut off then, and
\* a PUT accepted before another finished may truncate or remove it later.
RegisteredFilesAreWhole ==
  bucket = "local" => \A i \in images : object[i.key] = "registered"
=============================================================================
