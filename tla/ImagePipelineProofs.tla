------------------------- MODULE ImagePipelineProofs -------------------------
(***************************************************************************)
(* For any keys, positions, overlapping handlers and uploads, on S3 and on *)
(* the local store: an image of a listing keeps its object unless a client *)
(* wrote the object again.  The seller page does not: with it as the only  *)
(* client the bucket takes no image of the listing, each photo the page    *)
(* counts has a row of its own, and the gallery has no gaps.               *)
(***************************************************************************)
EXTENDS LocalUploads, SellerPhotos, FiniteSetTheorems, TLAPS

-----------------------------------------------------------------------------
(* ImagePipeline: S3.                                                      *)

\* A key whose object the bucket rule leaves alone, or that was written again.
Kept(k) == object[k] = "registered" \/ k \in reput

\* What makes the row inserted by AddImage good: its object was promoted by
\* the same handler, and nothing but a PUT demotes it.
InsertReady == \A s \in Slot : request[s].pc = "insert" => Kept(request[s].key)

IInv == TypeOK /\ ImagesKeepTheirObject /\ InsertReady

\* No row and no handler yet.
LEMMA InitIInv == Init => IInv
  BY DEF Init, IInv, TypeOK, ImagesKeepTheirObject, InsertReady, NoRequest, Tag

\* A handler past HEAD names a key and a position.
LEMMA PastHead ==
  ASSUME TypeOK, NEW s \in Slot, request[s].pc \in {"mark", "insert"}
  PROVE  /\ request[s] \in [pc: {"mark", "insert"}, key: Key, position: Position]
         /\ request[s].key \in Key
         /\ request[s].position \in Position
  <1>1. request[s] \in Request \cup {NoRequest}
    BY DEF TypeOK
  <1> QED
    BY <1>1 DEF Request, NoRequest

\* A kept key stays kept: promotion keeps it, a PUT enters it in reput, and
\* the bucket rule passes it by or finds it in reput.
LEMMA KeptIsStable ==
  ASSUME TypeOK, [Next]_vars, NEW k \in Key, Kept(k)
  PROVE  Kept(k)'
  <1> USE DEF Kept, TypeOK
  <1>1. ASSUME NEW s \in Slot, CountImages(s) \/ AddImage(s) \/ GiveUp(s) PROVE Kept(k)'
    BY <1>1 DEF CountImages, AddImage, GiveUp
  <1>2. ASSUME NEW s \in Slot, MarkRegistered(s) PROVE Kept(k)'
    BY <1>2 DEF MarkRegistered
  <1>3. ASSUME NEW s \in Slot, NEW j \in Key, PresignPut(s, j) PROVE Kept(k)'
    BY <1>3 DEF PresignPut
  <1>4. ASSUME NEW s \in Slot, NEW j \in Key, NEW p \in Position, Head(s, j, p)
        PROVE  Kept(k)'
    BY <1>4 DEF Head
  <1>5. ASSUME NEW j \in Key, Put(j) PROVE Kept(k)'
    BY <1>5 DEF Put
  <1>6. ASSUME NEW j \in Key, UrlExpires(j) PROVE Kept(k)'
    BY <1>6 DEF UrlExpires
  <1>7. ASSUME NEW j \in Key, ExpireUnregistered(j) PROVE Kept(k)'
    BY <1>7 DEF ExpireUnregistered
  <1>8. ASSUME NEW i \in images, DeleteImage(i) PROVE Kept(k)'
    BY <1>8 DEF DeleteImage
  <1>9. ASSUME UNCHANGED vars PROVE Kept(k)'
    BY <1>9 DEF vars
  <1> QED
    BY <1>1, <1>2, <1>3, <1>4, <1>5, <1>6, <1>7, <1>8, <1>9 DEF Next

\* A step on S3 keeps the types.
LEMMA TypeStep ==
  ASSUME TypeOK, [Next]_vars
  PROVE  TypeOK'
  <1> USE DEF TypeOK, Tag
  <1>1. ASSUME NEW s \in Slot, CountImages(s) PROVE TypeOK'
    BY <1>1 DEF CountImages, Request
  <1>2. ASSUME NEW s \in Slot, MarkRegistered(s) PROVE TypeOK'
    <2>1. request[s] \in [pc: {"mark", "insert"}, key: Key, position: Position]
      BY <1>2, PastHead DEF MarkRegistered
    <2>2. [request[s] EXCEPT !.pc = "insert"] \in Request
      BY <2>1 DEF Request
    <2> QED
      BY <1>2, <2>1, <2>2 DEF MarkRegistered
  <1>3. ASSUME NEW s \in Slot, AddImage(s) PROVE TypeOK'
    <2>1. request[s].key \in Key /\ request[s].position \in Position
      BY <1>3, PastHead DEF AddImage
    <2> QED
      BY <1>3, <2>1 DEF AddImage, Image
  <1>4. ASSUME NEW s \in Slot, GiveUp(s) PROVE TypeOK'
    BY <1>4 DEF GiveUp
  <1>5. ASSUME NEW s \in Slot, NEW k \in Key, PresignPut(s, k) PROVE TypeOK'
    BY <1>5 DEF PresignPut
  <1>6. ASSUME NEW s \in Slot, NEW k \in Key, NEW p \in Position, Head(s, k, p)
        PROVE  TypeOK'
    BY <1>6 DEF Head, Request
  <1>7. ASSUME NEW k \in Key, Put(k) PROVE TypeOK'
    BY <1>7 DEF Put
  <1>8. ASSUME NEW k \in Key, UrlExpires(k) \/ ExpireUnregistered(k) PROVE TypeOK'
    BY <1>8 DEF UrlExpires, ExpireUnregistered
  <1>9. ASSUME NEW i \in images, DeleteImage(i) PROVE TypeOK'
    BY <1>9 DEF DeleteImage
  <1>10. ASSUME UNCHANGED vars PROVE TypeOK'
    BY <1>10 DEF vars
  <1> QED
    BY <1>1, <1>2, <1>3, <1>4, <1>5, <1>6, <1>7, <1>8, <1>9, <1>10 DEF Next

\* A row is new only through AddImage.
LEMMA RowStep ==
  ASSUME IInv, [Next]_vars
  PROVE  ImagesKeepTheirObject'
  <1> SUFFICES ASSUME NEW i \in images' PROVE Kept(i.key)'
    BY DEF ImagesKeepTheirObject, Kept
  <1>1. CASE i \in images
    <2>1. i.key \in Key /\ Kept(i.key)
      BY <1>1 DEF IInv, TypeOK, Image, ImagesKeepTheirObject, Kept
    <2> QED
      BY <2>1, KeptIsStable DEF IInv
  <1>2. CASE i \notin images
    <2>1. PICK s \in Slot : AddImage(s)
      BY <1>2 DEF Next, CountImages, MarkRegistered, GiveUp, PresignPut, Head, Put, UrlExpires,
                  ExpireUnregistered, DeleteImage, vars
    <2>2. i.key = request[s].key
      BY <1>2, <2>1 DEF AddImage
    <2>3. i.key \in Key /\ Kept(i.key)
      BY <2>1, <2>2, PastHead DEF AddImage, IInv, InsertReady
    <2> QED
      BY <2>3, KeptIsStable DEF IInv
  <1> QED
    BY <1>1, <1>2

\* A handler is about to insert only after MarkRegistered.
LEMMA ReadyStep ==
  ASSUME IInv, [Next]_vars
  PROVE  InsertReady'
  <1> SUFFICES ASSUME NEW s \in Slot, request'[s].pc = "insert" PROVE Kept(request[s].key)'
    BY DEF InsertReady
  <1>0. TypeOK
    BY DEF IInv
  <1>1. CASE MarkRegistered(s)
    <2>1. request[s].key \in Key
      BY <1>0, <1>1, PastHead DEF MarkRegistered
    <2>2. request'[s].key = request[s].key /\ object'[request[s].key] = "registered"
      BY <1>0, <1>1, <2>1 DEF MarkRegistered, TypeOK
    <2> QED
      BY <2>2 DEF Kept
  <1>2. CASE ~MarkRegistered(s)
    <2>1. request'[s] = request[s]
      BY <1>0, <1>2 DEF Next, CountImages, MarkRegistered, AddImage, GiveUp, PresignPut, Head, Put,
                        UrlExpires, ExpireUnregistered, DeleteImage, vars, NoRequest, TypeOK
    <2>2. request[s].key \in Key /\ Kept(request[s].key)
      BY <1>0, <2>1, PastHead DEF IInv, InsertReady
    <2>3. Kept(request[s].key)' <=> (object'[request[s].key] = "registered" \/ request[s].key \in reput')
      BY <2>1 DEF Kept
    <2>4. PICK k \in Key : k = request[s].key
      BY <2>2
    <2>5. Kept(k)'
      BY <1>0, <2>2, <2>4, KeptIsStable
    <2> QED
      BY <2>3, <2>4, <2>5 DEF Kept
  <1> QED
    BY <1>1, <1>2

-----------------------------------------------------------------------------
(* LocalUploads: either store.                                             *)

UploadTypes ==
  /\ bucket \in {"s3", "local"}
  /\ pending \subseteq Key
  /\ upload \in [Upload -> {NoUpload} \cup [pc: {"accepted", "copying", "removed"}, key: Key]]

\* A whole file nobody writes, or one that was registered too early.
Safe(k) == k \in reput \/ (object[k] = "registered" /\ Writing(k) = {})

\* What the pending keys say of a file: nothing is there before its presign,
\* and a whole file is not expected any more, so nobody opens it again.
PendingTellsFiles ==
  \A k \in Key : /\ url[k] = "unissued" => k \notin pending /\ Writing(k) = {}
                                           /\ object[k] = "absent"
                 /\ object[k] = "registered" => k \notin pending

\* A handler past HEAD holds a safe key: MarkRegistered adds nothing to it.
HeadsAreSafe ==
  \A s \in Slot : request[s].pc \in {"mark", "insert"} => Safe(request[s].key)

RowsAreSafe == \A i \in images : Safe(i.key)

UploadsInv ==
  /\ TypeOK
  /\ UploadTypes
  /\ bucket = "s3" => ImagesKeepTheirObject /\ InsertReady
  /\ bucket = "local" => PendingTellsFiles /\ HeadsAreSafe /\ RowsAreSafe

\* Nothing is pending, written or registered yet.
LEMMA UploadsInitInv == UploadsInit => UploadsInv
  <1> SUFFICES ASSUME UploadsInit PROVE UploadsInv
    OBVIOUS
  <1>1. Init /\ IInv
    BY InitIInv DEF UploadsInit
  <1>2. UploadTypes
    BY DEF UploadsInit, UploadTypes
  <1>3. \A k \in Key : Writing(k) = {}
    BY DEF UploadsInit, Writing
  <1>4. PendingTellsFiles /\ HeadsAreSafe /\ RowsAreSafe
    BY <1>3 DEF UploadsInit, Init, PendingTellsFiles, HeadsAreSafe, RowsAreSafe, NoRequest
  <1> QED
    BY <1>1, <1>2, <1>4 DEF UploadsInv, IInv

\* A PUT handler that was let in names a key.
LEMMA PastAccept ==
  ASSUME UploadTypes, NEW u \in Upload, upload[u] # NoUpload
  PROVE  /\ upload[u] \in [pc: {"accepted", "copying", "removed"}, key: Key]
         /\ upload[u].key \in Key
  BY DEF UploadTypes

\* A handler that is at its file is not idle.
LEMMA AtFile ==
  ASSUME UploadTypes, NEW u \in Upload, upload[u].pc \in {"accepted", "copying", "removed"}
  PROVE  upload[u] # NoUpload
  BY DEF UploadTypes, NoUpload

\* The steps of the two handlers that the local store shares with S3.
SharedStep ==
  \/ \E s \in Slot : CountImages(s) \/ AddImage(s) \/ GiveUp(s)
  \/ \E i \in images : DeleteImage(i)

\* A step on the local store keeps the types.
LEMMA LocalTypes ==
  ASSUME TypeOK, UploadTypes, LocalNext, UNCHANGED bucket
  PROVE  TypeOK' /\ UploadTypes'
  <1>1. ASSUME NEW s \in Slot, NEW k \in Key, PresignLocal(s, k)
        PROVE  TypeOK' /\ UploadTypes'
    <2>1. [Next]_vars
      BY <1>1 DEF PresignLocal, Next
    <2> QED
      BY <1>1, <2>1, TypeStep DEF PresignLocal, UploadTypes
  <1>2. ASSUME NEW s \in Slot, NEW k \in Key, NEW p \in Position, HeadLocal(s, k, p)
        PROVE  TypeOK' /\ UploadTypes'
    <2>1. [pc |-> "mark", key |-> k, position |-> p] \in Request
      BY DEF Request
    <2> QED
      BY <1>2, <2>1 DEF HeadLocal, TypeOK, UploadTypes
  <1>3. ASSUME NEW u \in Upload, CreateFile(u) PROVE TypeOK' /\ UploadTypes'
    <2>1. upload[u] \in [pc: {"accepted", "copying", "removed"}, key: Key]
      BY <1>3, AtFile, PastAccept DEF CreateFile
    <2>2. [upload[u] EXCEPT !.pc = "copying"]
            \in [pc: {"accepted", "copying", "removed"}, key: Key]
      BY <2>1
    <2> QED
      BY <1>3, <2>1, <2>2 DEF CreateFile, TypeOK, UploadTypes, Tag
  <1>4. ASSUME NEW u \in Upload, FinishFile(u) PROVE TypeOK' /\ UploadTypes'
    <2>1. upload[u].key \in Key
      BY <1>4, AtFile, PastAccept DEF FinishFile
    <2>2. Written(u) \in Tag \cup {"absent"}
      BY <2>1 DEF Written, TypeOK, Tag
    <2> QED
      BY <1>4, <2>1, <2>2 DEF FinishFile, TypeOK, UploadTypes
  <1>5. ASSUME NEW u \in Upload, RemoveFile(u) PROVE TypeOK' /\ UploadTypes'
    <2>1. upload[u].key \in Key
      BY <1>5, AtFile, PastAccept DEF RemoveFile
    <2>2. ASSUME NEW v \in Upload, v \in Writing(upload[u].key)
          PROVE  [upload[v] EXCEPT !.pc = "removed"]
                   \in [pc: {"accepted", "copying", "removed"}, key: Key]
      BY <2>2, PastAccept DEF Writing
    <2>3. upload' \in [Upload -> {NoUpload} \cup [pc: {"accepted", "copying", "removed"}, key: Key]]
      BY <1>5, <2>2 DEF RemoveFile, UploadTypes
    <2> QED
      BY <1>5, <2>1, <2>3 DEF RemoveFile, TypeOK, UploadTypes
  <1>6. ASSUME NEW u \in Upload, NEW k \in Key, Accept(u, k) PROVE TypeOK' /\ UploadTypes'
    <2>1. [pc |-> "accepted", key |-> k] \in [pc: {"accepted", "copying", "removed"}, key: Key]
      OBVIOUS
    <2> QED
      BY <1>6, <2>1 DEF Accept, TypeOK, UploadTypes
  <1>7. ASSUME NEW s \in Slot, MarkLocal(s) PROVE TypeOK' /\ UploadTypes'
    <2>1. request[s] \in [pc: {"mark", "insert"}, key: Key, position: Position]
      BY <1>7, PastHead DEF MarkLocal
    <2>2. [request[s] EXCEPT !.pc = "insert"] \in Request
      BY <2>1 DEF Request
    <2> QED
      BY <1>7, <2>2 DEF MarkLocal, TypeOK, UploadTypes
  <1>8. ASSUME SharedStep, UNCHANGED <<pending, upload>> PROVE TypeOK' /\ UploadTypes'
    <2>1. [Next]_vars
      BY <1>8 DEF SharedStep, Next
    <2> QED
      BY <1>8, <2>1, TypeStep DEF UploadTypes
  <1>9. ASSUME Restart PROVE TypeOK' /\ UploadTypes'
    BY <1>9 DEF Restart, TypeOK, UploadTypes
  <1>10. ASSUME NEW u \in Upload, CreateFails(u) PROVE TypeOK' /\ UploadTypes'
    BY <1>10 DEF CreateFails, TypeOK, UploadTypes
  <1> QED
    BY <1>1, <1>2, <1>3, <1>4, <1>5, <1>6, <1>7, <1>8, <1>9, <1>10 DEF LocalNext, SharedStep

\* What a step on the local store does to the files and their PUTs: it is at
\* one key, or at none.
AtKey(k) ==
  \A j \in Key \ {k} : /\ object'[j] = object[j]
                       /\ url'[j] = url[j]
                       /\ j \in pending' <=> j \in pending
                       /\ Writing(j) = {} => Writing(j)' = {}

\* What u does once it was let in.
FileStep(u) == CreateFile(u) \/ CreateFails(u) \/ FinishFile(u) \/ RemoveFile(u)

\* The PUT of u is at the key it was accepted for.
LEMMA UploadsAreAtTheirKey ==
  ASSUME TypeOK, UploadTypes, NEW u \in Upload, FileStep(u)
  PROVE  /\ upload[u].key \in Key
         /\ u \in Writing(upload[u].key)
         /\ AtKey(upload[u].key)
         /\ url' = url /\ reput' = reput
  <1>1. upload[u] # NoUpload /\ upload[u].key \in Key
    BY AtFile, PastAccept DEF FileStep, CreateFile, CreateFails, FinishFile, RemoveFile
  <1>2. u \in Writing(upload[u].key)
    BY <1>1 DEF Writing
  <1>3. url' = url /\ reput' = reput
    BY DEF FileStep, CreateFile, CreateFails, FinishFile, RemoveFile
  <1>4. ASSUME NEW j \in Key \ {upload[u].key}
        PROVE  object'[j] = object[j] /\ (j \in pending' <=> j \in pending)
    BY <1>1, <1>4 DEF FileStep, CreateFile, CreateFails, FinishFile, RemoveFile, TypeOK
  <1>5. ASSUME NEW j \in Key \ {upload[u].key}, Writing(j) = {} PROVE Writing(j)' = {}
    <2>1. ASSUME NEW v \in Upload, upload'[v] # NoUpload, upload'[v].key = j PROVE FALSE
      <3>1. upload[v] # NoUpload /\ upload[v].key = j
        <4>1. CASE CreateFile(u)
          BY <1>1, <1>5, <2>1, <4>1 DEF CreateFile, UploadTypes
        <4>2. CASE FinishFile(u)
          BY <1>1, <1>5, <2>1, <4>2 DEF FinishFile, UploadTypes
        <4>3. CASE RemoveFile(u)
          <5>1. CASE upload'[v] = upload[v]
            BY <2>1, <5>1
          <5>2. CASE upload'[v] # upload[v]
            <6>1. v # u /\ v \in Writing(upload[u].key) /\ upload'[v] = [upload[v] EXCEPT !.pc = "removed"]
              BY <2>1, <4>3, <5>2 DEF RemoveFile
            <6>2. upload[v] \in [pc: {"accepted", "copying", "removed"}, key: Key]
              BY <6>1, PastAccept DEF Writing
            <6>3. upload'[v].key = upload[u].key
              BY <6>1, <6>2 DEF Writing
            <6> QED
              BY <1>5, <2>1, <6>3
          <5> QED
            BY <5>1, <5>2
        <4>4. CASE CreateFails(u)
          BY <1>1, <1>5, <2>1, <4>4 DEF CreateFails, UploadTypes
        <4> QED
          BY <4>1, <4>2, <4>3, <4>4 DEF FileStep
      <3> QED
        BY <1>5, <3>1 DEF Writing
    <2> QED
      BY <2>1 DEF Writing
  <1> QED
    BY <1>1, <1>2, <1>3, <1>4, <1>5 DEF AtKey

\* Which keys are pending goes on telling of the files.
LEMMA PendingStep ==
  ASSUME TypeOK, UploadTypes, PendingTellsFiles, LocalNext
  PROVE  PendingTellsFiles'
  <1>1. ASSUME NEW s \in Slot, NEW k \in Key, PresignLocal(s, k) PROVE PendingTellsFiles'
    <2>1. object[k] = "absent" /\ url'[k] = "valid"
      BY <1>1 DEF PresignLocal, PresignPut, PendingTellsFiles, TypeOK
    <2>2. \A j \in Key : Writing(j)' = Writing(j)
      BY <1>1 DEF PresignLocal, Writing
    <2> QED
      BY <1>1, <2>1, <2>2 DEF PresignLocal, PresignPut, PendingTellsFiles, TypeOK
  <1>2. ASSUME NEW s \in Slot, NEW k \in Key, NEW p \in Position, HeadLocal(s, k, p)
        PROVE  PendingTellsFiles'
    BY <1>2 DEF HeadLocal, PendingTellsFiles, Writing
  <1>3. ASSUME NEW u \in Upload, FileStep(u)
        PROVE  PendingTellsFiles'
    <2>1. /\ upload[u].key \in Key /\ u \in Writing(upload[u].key)
          /\ AtKey(upload[u].key) /\ url' = url
      BY <1>3, UploadsAreAtTheirKey
    <2>2. url[upload[u].key] # "unissued"
      BY <2>1 DEF PendingTellsFiles
    <2>3. object'[upload[u].key] # "registered" \/ upload[u].key \notin pending'
      BY <1>3, <2>1 DEF FileStep, CreateFile, CreateFails, FinishFile, RemoveFile, TypeOK, PendingTellsFiles
    <2> QED
      BY <2>1, <2>2, <2>3 DEF AtKey, PendingTellsFiles
  <1>4. ASSUME NEW u \in Upload, NEW k \in Key, Accept(u, k) PROVE PendingTellsFiles'
    <2>1. url[k] # "unissued"
      BY <1>4 DEF Accept, PendingTellsFiles
    <2>2. \A j \in Key \ {k} : Writing(j)' \subseteq Writing(j)
      BY <1>4 DEF Accept, Writing, UploadTypes
    <2> QED
      BY <1>4, <2>1, <2>2 DEF Accept, PendingTellsFiles
  <1>5. ASSUME NEW s \in Slot, MarkLocal(s) PROVE PendingTellsFiles'
    BY <1>5 DEF MarkLocal, PendingTellsFiles, Writing
  <1>6. ASSUME SharedStep, UNCHANGED <<pending, upload>> PROVE PendingTellsFiles'
    BY <1>6 DEF SharedStep, CountImages, AddImage, GiveUp, DeleteImage, PendingTellsFiles, Writing
  <1>7. ASSUME Restart PROVE PendingTellsFiles'
    BY <1>7 DEF Restart, PendingTellsFiles, Writing
  <1> QED
    BY <1>1, <1>2, <1>3, <1>4, <1>5, <1>6, <1>7 DEF LocalNext, SharedStep, FileStep

\* A file nobody is at stays so: a PUT of its key is not let in any more.
LEMMA SafeIsStable ==
  ASSUME TypeOK, UploadTypes, PendingTellsFiles, LocalNext, NEW k \in Key
  PROVE  /\ k \in reput => k \in reput'
         /\ object[k] = "registered" /\ Writing(k) = {}
              => object'[k] = "registered" /\ Writing(k)' = {}
  <1>1. ASSUME NEW u \in Upload, FileStep(u)
        PROVE  /\ reput' = reput
               /\ Writing(k) = {} => object'[k] = object[k] /\ Writing(k)' = {}
    BY <1>1, UploadsAreAtTheirKey DEF AtKey
  <1>2. ASSUME NEW u \in Upload, NEW j \in Key, Accept(u, j)
        PROVE  /\ reput' = reput /\ object' = object
               /\ object[k] = "registered" /\ Writing(k) = {} => Writing(k)' = {}
    <2>1. object[k] = "registered" => j # k
      BY <1>2 DEF Accept, PendingTellsFiles
    <2> QED
      BY <1>2, <2>1 DEF Accept, Writing, UploadTypes
  <1>3. ASSUME Restart PROVE reput' = reput /\ object' = object /\ Writing(k)' = {}
    BY <1>3 DEF Restart, Writing
  <1>4. ASSUME \/ \E s \in Slot, j \in Key : PresignLocal(s, j)
               \/ \E s \in Slot, j \in Key, p \in Position : HeadLocal(s, j, p)
               \/ \E s \in Slot : MarkLocal(s)
               \/ SharedStep /\ UNCHANGED <<pending, upload>>
        PROVE  /\ k \in reput => k \in reput'
               /\ object' = object /\ Writing(k)' = Writing(k)
    BY <1>4 DEF PresignLocal, PresignPut, HeadLocal, MarkLocal, SharedStep, CountImages, AddImage,
                GiveUp, DeleteImage, Writing
  <1> QED
    BY <1>1, <1>2, <1>3, <1>4 DEF LocalNext, SharedStep, FileStep

\* A handler comes past HEAD with a file that is whole and left alone, or
\* with a key that enters reput.
LEMMA HeadsStep ==
  ASSUME TypeOK, UploadTypes, PendingTellsFiles, HeadsAreSafe, LocalNext
  PROVE  HeadsAreSafe'
  <1> SUFFICES ASSUME NEW s \in Slot, request'[s].pc \in {"mark", "insert"}
               PROVE  Safe(request[s].key)'
    BY DEF HeadsAreSafe
  <1>1. CASE /\ request[s].pc \in {"mark", "insert"}
             /\ request'[s].key = request[s].key
    <2>1. PICK k \in Key : k = request[s].key
      BY <1>1, PastHead
    <2>2. Safe(k)
      BY <1>1, <2>1 DEF HeadsAreSafe
    <2>3. Safe(k)'
      BY <2>2, SafeIsStable DEF Safe
    <2> QED
      BY <1>1, <2>1, <2>3 DEF Safe, Writing
  <1>2. CASE ~(/\ request[s].pc \in {"mark", "insert"}
               /\ request'[s].key = request[s].key)
    <2>1. PICK t \in Slot, k \in Key, p \in Position : HeadLocal(t, k, p) /\ t = s
      <3>1. ASSUME NEW t \in Slot, MarkLocal(t) PROVE FALSE
        <4>1. request[t] \in [pc: {"mark", "insert"}, key: Key, position: Position]
          BY <3>1, PastHead DEF MarkLocal
        <4> QED
          BY <1>2, <3>1, <4>1 DEF MarkLocal, TypeOK
      <3>2. ASSUME NEW t \in Slot, CountImages(t) \/ AddImage(t) \/ GiveUp(t) PROVE FALSE
        BY <1>2, <3>2 DEF CountImages, AddImage, GiveUp, TypeOK, NoRequest
      <3>3. ASSUME NEW t \in Slot, NEW k \in Key, PresignLocal(t, k) PROVE FALSE
        BY <1>2, <3>3 DEF PresignLocal, PresignPut, TypeOK, NoRequest
      <3>4. ASSUME NEW u \in Upload, FileStep(u) PROVE FALSE
        BY <1>2, <3>4 DEF FileStep, CreateFile, CreateFails, FinishFile, RemoveFile
      <3>5. ASSUME NEW u \in Upload, NEW k \in Key, Accept(u, k) PROVE FALSE
        BY <1>2, <3>5 DEF Accept
      <3>6. ASSUME NEW i \in images, DeleteImage(i) PROVE FALSE
        BY <1>2, <3>6 DEF DeleteImage
      <3>7. ASSUME Restart PROVE FALSE
        BY <3>7 DEF Restart, NoRequest
      <3>8. ASSUME NEW t \in Slot, NEW k \in Key, NEW p \in Position, HeadLocal(t, k, p)
            PROVE  t = s
        BY <1>2, <3>8 DEF HeadLocal, TypeOK
      <3> QED
        BY <3>1, <3>2, <3>3, <3>4, <3>5, <3>6, <3>7, <3>8 DEF LocalNext, FileStep
    <2>2. request'[s].key = k
      BY <2>1 DEF HeadLocal, TypeOK
    <2>3. Safe(k)'
      <3>1. object' = object /\ Writing(k)' = Writing(k)
        BY <2>1 DEF HeadLocal, Writing
      <3>2. (object[k] = "registered" /\ Writing(k) = {}) \/ k \in reput'
        BY <2>1 DEF HeadLocal, TypeOK, Tag
      <3> QED
        BY <3>1, <3>2 DEF Safe
    <2> QED
      BY <2>2, <2>3 DEF Safe, Writing
  <1> QED
    BY <1>1, <1>2

\* A row is new only through AddImage.
LEMMA RowsStep ==
  ASSUME TypeOK, UploadTypes, PendingTellsFiles, HeadsAreSafe, RowsAreSafe, LocalNext
  PROVE  RowsAreSafe'
  <1> SUFFICES ASSUME NEW i \in images' PROVE Safe(i.key)'
    BY DEF RowsAreSafe
  <1>1. PICK k \in Key : k = i.key /\ Safe(k)
    <2>1. CASE i \in images
      BY <2>1 DEF TypeOK, Image, RowsAreSafe
    <2>2. CASE i \notin images
      <3>1. PICK s \in Slot : AddImage(s)
        BY <2>2 DEF LocalNext, PresignLocal, PresignPut, HeadLocal, CreateFile, CreateFails, FinishFile, RemoveFile,
                    Accept, MarkLocal, CountImages, GiveUp, DeleteImage, Restart
      <3>2. i.key = request[s].key /\ request[s].pc = "insert"
        BY <2>2, <3>1 DEF AddImage
      <3> QED
        BY <3>2, PastHead DEF HeadsAreSafe
    <2> QED
      BY <2>1, <2>2
  <1> QED
    BY <1>1, SafeIsStable DEF Safe

\* Either store's steps keep what is said of it.
LEMMA UploadsStep ==
  ASSUME UploadsInv, [UploadsNext]_uploadVars
  PROVE  UploadsInv'
  <1>1. CASE bucket = "s3" /\ Next /\ UNCHANGED <<bucket, pending, upload>>
    BY <1>1, TypeStep, RowStep, ReadyStep DEF UploadsInv, IInv, UploadTypes
  <1>2. CASE bucket = "local" /\ LocalNext /\ UNCHANGED bucket
    BY <1>2, LocalTypes, PendingStep, HeadsStep, RowsStep DEF UploadsInv
  <1>3. CASE UNCHANGED uploadVars
    BY <1>3 DEF uploadVars, UploadsInv, UploadTypes, TypeOK, ImagesKeepTheirObject, InsertReady,
                PendingTellsFiles, HeadsAreSafe, RowsAreSafe, Safe, Writing, Kept
  <1> QED
    BY <1>1, <1>2, <1>3 DEF UploadsNext

\* The inductive invariant of the two stores.
THEOREM Invariance == UploadsSpec => []UploadsInv
  BY UploadsInitInv, UploadsStep, PTL DEF UploadsSpec

\* Every variable of the pipeline keeps its type, on either store.
THEOREM TypeCorrect == UploadsSpec => []TypeOK
  <1>1. UploadsInv => TypeOK
    BY DEF UploadsInv
  <1> QED
    BY <1>1, Invariance, PTL

\* A listing shows no image whose object the bucket rule may remove, or whose
\* file is still being written, except one that was written again to its
\* presigned URL (images.go) or registered half written (local.go:46).
THEOREM ObjectsAreKept == UploadsSpec => []ImagesKeepTheirObject
  <1>1. UploadsInv => ImagesKeepTheirObject
    BY DEF UploadsInv, UploadTypes, RowsAreSafe, Safe, ImagesKeepTheirObject
  <1> QED
    BY <1>1, Invariance, PTL

\* A whole file of the local store that no PUT is at is never written again
\* (local.go:83-110).
THEOREM WholeFilesAreLeftAlone == UploadsSpec => WholeFilesStay
  <1> DEFINE Stays == \A k \in Key :
                        bucket = "local" /\ object[k] = "registered" /\ Writing(k) = {}
                          => object'[k] = "registered" /\ Writing(k)' = {}
  <1>1. UploadsInv /\ [UploadsNext]_uploadVars => [Stays]_uploadVars
    <2> SUFFICES ASSUME UploadsInv, UploadsNext, bucket = "local"
                 PROVE  Stays
      BY DEF UploadsNext
    <2>1. LocalNext
      BY DEF UploadsNext
    <2> QED
      BY <2>1, SafeIsStable DEF UploadsInv
  <1> QED
    BY <1>1, Invariance, PTL DEF UploadsSpec, WholeFilesStay
-----------------------------------------------------------------------------
(***************************************************************************)
(* SellerPhotos: the page.  A key is drawn for one batch and sent to once, *)
(* before its registration is asked for; and a batch asks for a position   *)
(* no higher than the number of rows there are, those of the photos it     *)
(* counts from and of those it is past.                                    *)
(***************************************************************************)

\* The batch in s, or the handler, has a key.
BatchHasKey(s) == batch[s].step \in {"put", "register"}
Calling(s) == request[s].pc \in {"mark", "insert"}

KeysAreDrawnOnce ==
  /\ \A s \in Slot : BatchHasKey(s) => url[batch[s].key] # "unissued"
  /\ \A s \in Slot : Calling(s) => url[request[s].key] # "unissued"
  /\ \A i \in images : url[i.key] # "unissued"
  /\ \A s, t \in Slot : BatchHasKey(s) /\ BatchHasKey(t) /\ s # t => batch[s].key # batch[t].key

SentBeforeRegistered ==
  \A s \in Slot : batch[s].step = "put" =>
    /\ \A t \in Slot : Calling(t) => request[t].key # batch[s].key
    /\ \A i \in images : i.key # batch[s].key

RegisteredStays ==
  /\ \A i \in images : object[i.key] = "registered"
  /\ \A s \in Slot : request[s].pc = "insert" => object[request[s].key] = "registered"

UrlInv == KeysAreDrawnOnce /\ SentBeforeRegistered /\ RegisteredStays

\* Batches count from what is counted; handlers ask for the first free position or below.
BehindTheRows ==
  /\ \A s \in Slot : batch[s] # NoBatch => batch[s].base <= uploaded
  /\ \A s \in Slot : Calling(s) => request[s].position <= Cardinality(images)

GalleryInv == CountsOnlyRegisteredPhotos /\ BehindTheRows /\ GalleryHasNoGaps

\* A call past HEAD names a key and a position.
LEMMA CallPastHead ==
  ASSUME PhotosTypeOK, NEW s \in Slot, Calling(s)
  PROVE  /\ request[s] \in [pc: {"mark", "insert"}, key: Key, position: Nat]
         /\ request[s].key \in Key /\ request[s].position \in Nat
  <1>1. request[s] \in Call \cup {NoRequest}
    BY DEF PhotosTypeOK
  <1> QED
    BY <1>1 DEF Call, NoRequest, Calling

\* A batch counts with numbers, and has a key once presign has answered.
LEMMA BatchFields ==
  ASSUME PhotosTypeOK, NEW s \in Slot, batch[s] # NoBatch
  PROVE  /\ batch[s].base \in Nat /\ batch[s].size \in Nat /\ batch[s].done \in Nat
         /\ BatchHasKey(s) =>
              /\ batch[s].key \in Key
              /\ batch[s] \in [step: {"put", "register"}, base: Nat, size: Nat, done: Nat,
                               key: Key]
  <1>1. batch[s] \in Batch
    BY DEF PhotosTypeOK
  <1> QED
    BY <1>1 DEF Batch, BatchHasKey

\* A batch that stands at a step is one.
LEMMA BatchIsThere ==
  ASSUME NEW s \in Slot, batch[s].step \in {"presign", "put", "register"}
  PROVE  batch[s] # NoBatch
  BY DEF NoBatch

\* Every step of the page keeps the types.
LEMMA PhotosTypeStep ==
  ASSUME PhotosTypeOK, [PhotosNext]_photoVars
  PROVE  PhotosTypeOK'
  <1> USE DEF PhotosTypeOK
  <1>1. ASSUME NEW s \in Slot, NEW n \in 1..MaxPhotos, SelectPhotos(s, n) PROVE PhotosTypeOK'
    <2>1. [step |-> "presign", base |-> uploaded, size |-> n, done |-> 0] \in Batch
      BY PhotosAssumption DEF Batch
    <2> QED
      BY <1>1, <2>1 DEF SelectPhotos, vars
  <1>2. ASSUME NEW s \in Slot, UploadPhoto(s) PROVE PhotosTypeOK'
    <2>1. batch[s] \in [step: {"put", "register"}, base: Nat, size: Nat, done: Nat, key: Key]
      BY <1>2, BatchFields, BatchIsThere DEF UploadPhoto, BatchHasKey
    <2>2. [batch[s] EXCEPT !.step = "register"] \in Batch
      BY <2>1 DEF Batch
    <2>3. batch' \in [Slot -> Batch \cup {NoBatch}]
      BY <1>2, <2>2 DEF UploadPhoto
    <2> QED
      BY <1>2, <2>3 DEF UploadPhoto, Put, Tag
  <1>3. ASSUME NEW s \in Slot, Fail(s) PROVE PhotosTypeOK'
    BY <1>3 DEF Fail, vars
  <1>4. ASSUME NEW s \in Slot, PhotoCounted(s) PROVE PhotosTypeOK'
    BY <1>4 DEF PhotoCounted, CountImages, Call
  <1>5. ASSUME NEW s \in Slot, PhotoFound(s) PROVE PhotosTypeOK'
    <2>1. /\ batch[s].key \in Key /\ batch[s].base + batch[s].done \in Nat
      BY <1>5, BatchFields, BatchIsThere DEF PhotoFound, BatchHasKey
    <2>2. [pc |-> "mark", key |-> batch[s].key, position |-> batch[s].base + batch[s].done] \in Call
      BY <2>1 DEF Call
    <2> QED
      BY <1>5, <2>2 DEF PhotoFound, Head
  <1>6. ASSUME NEW s \in Slot, PhotoMarked(s) PROVE PhotosTypeOK'
    <2>1. request[s] \in [pc: {"mark", "insert"}, key: Key, position: Nat]
      BY <1>6, CallPastHead DEF PhotoMarked, MarkRegistered, Calling
    <2>2. [request[s] EXCEPT !.pc = "insert"] \in Call
      BY <2>1 DEF Call
    <2>3. request' \in [Slot -> Call \cup {NoRequest}]
      BY <1>6, <2>2 DEF PhotoMarked, MarkRegistered
    <2> QED
      BY <1>6, <2>3 DEF PhotoMarked, MarkRegistered, Tag
  <1>7. ASSUME NEW s \in Slot, PhotoRegistered(s) PROVE PhotosTypeOK'
    <2>1. request[s].key \in Key /\ request[s].position \in Nat
      BY <1>7, CallPastHead DEF PhotoRegistered, AddImage, Calling
    <2>2. images' \in SUBSET [key: Key, position: Nat]
      BY <1>7, <2>1 DEF PhotoRegistered, AddImage
    <2>3. IsFiniteSet(images')
      BY <1>7, FS_AddElement DEF PhotoRegistered, AddImage
    <2>4. batch' \in [Slot -> Batch \cup {NoBatch}] /\ uploaded' \in Nat
      <3>1. CASE batch[s] = NoBatch
        BY <1>7, <3>1 DEF PhotoRegistered
      <3>2. CASE batch[s] # NoBatch
        <4>1. batch[s].base \in Nat /\ batch[s].size \in Nat /\ batch[s].done + 1 \in Nat
          BY <3>2, BatchFields
        <4>2. [step |-> "presign", base |-> batch[s].base, size |-> batch[s].size,
               done |-> batch[s].done + 1] \in Batch
          BY <4>1 DEF Batch
        <4> QED
          BY <1>7, <3>2, <4>1, <4>2 DEF PhotoRegistered
      <3> QED
        BY <3>1, <3>2
    <2> QED
      BY <1>7, <2>2, <2>3, <2>4 DEF PhotoRegistered, AddImage
  <1>8. ASSUME NEW s \in Slot, PhotoRefused(s) PROVE PhotosTypeOK'
    BY <1>8 DEF PhotoRefused, GiveUp
  <1>9. ASSUME NEW s \in Slot, NEW k \in Key, PhotoPresigned(s, k) PROVE PhotosTypeOK'
    <2>1. batch' \in [Slot -> Batch \cup {NoBatch}]
      <3>1. CASE batch[s] = NoBatch
        BY <1>9, <3>1 DEF PhotoPresigned
      <3>2. CASE batch[s] # NoBatch
        <4>1. [step |-> "put", base |-> batch[s].base, key |-> k,
               size |-> batch[s].size, done |-> batch[s].done] \in Batch
          BY <3>2, BatchFields DEF Batch
        <4> QED
          BY <1>9, <3>2, <4>1 DEF PhotoPresigned
      <3> QED
        BY <3>1, <3>2
    <2> QED
      BY <1>9, <2>1 DEF PhotoPresigned, PresignPut
  <1>10. ASSUME NEW k \in Key, StoreStep(k) PROVE PhotosTypeOK'
    BY <1>10 DEF StoreStep, UrlExpires, ExpireUnregistered
  <1>11. ASSUME Reload \/ UNCHANGED photoVars PROVE PhotosTypeOK'
    BY <1>11 DEF Reload, vars, photoVars
  <1> QED
    BY <1>1, <1>2, <1>3, <1>4, <1>5, <1>6, <1>7, <1>8, <1>9, <1>10, <1>11 DEF PhotosNext

\* The page's variables keep their types.
THEOREM PhotosTypeCorrect == PhotosSpec => []PhotosTypeOK
  <1>1. PhotosInit => PhotosTypeOK
    BY FS_EmptySet DEF PhotosInit, Init, PhotosTypeOK
  <1>2. PhotosTypeOK /\ [PhotosNext]_photoVars => PhotosTypeOK'
    BY PhotosTypeStep
  <1> QED
    BY <1>1, <1>2, PTL DEF PhotosSpec

\* The page sends to a key it has drawn, and before anybody asks to register it.
LEMMA UrlStep ==
  ASSUME PhotosTypeOK, UrlInv, [PhotosNext]_photoVars
  PROVE  UrlInv'
  <1> USE DEF PhotosTypeOK, UrlInv, KeysAreDrawnOnce, SentBeforeRegistered, RegisteredStays,
              BatchHasKey, Calling
  <1>1. ASSUME NEW s \in Slot, NEW n \in 1..MaxPhotos, SelectPhotos(s, n) PROVE UrlInv'
    BY <1>1 DEF SelectPhotos, vars
  <1>2. ASSUME NEW s \in Slot, UploadPhoto(s) PROVE UrlInv'
    <2>1. batch[s].key \in Key
      BY <1>2, BatchFields, BatchIsThere DEF UploadPhoto
    <2>2. batch[s] \in [step: {"put", "register"}, base: Nat, size: Nat, done: Nat, key: Key]
      BY <1>2, BatchFields, BatchIsThere DEF UploadPhoto
    <2>3. /\ batch'[s].step = "register" /\ batch'[s].key = batch[s].key
          /\ \A t \in Slot \ {s} : batch'[t] = batch[t]
      BY <1>2, <2>2 DEF UploadPhoto
    <2>4. \A k \in Key \ {batch[s].key} : object'[k] = object[k]
      BY <1>2 DEF UploadPhoto, Put
    <2>5. UNCHANGED <<url, images, request>>
      BY <1>2 DEF UploadPhoto, Put
    <2>6. /\ \A i \in images : i.key \in Key \ {batch[s].key}
          /\ \A t \in Slot : Calling(t) => request[t].key \in Key \ {batch[s].key}
      BY <1>2, CallPastHead DEF UploadPhoto
    <2>7. KeysAreDrawnOnce'
      BY <1>2, <2>3, <2>5 DEF UploadPhoto
    <2>8. SentBeforeRegistered'
      BY <1>2, <2>3, <2>5 DEF UploadPhoto
    <2>9. RegisteredStays'
      BY <2>4, <2>5, <2>6
    <2> QED
      BY <2>7, <2>8, <2>9
  <1>3. ASSUME NEW s \in Slot, Fail(s) PROVE UrlInv'
    BY <1>3 DEF Fail, vars, NoBatch
  <1>4. ASSUME NEW s \in Slot, PhotoCounted(s) PROVE UrlInv'
    BY <1>4 DEF PhotoCounted, CountImages
  <1>5. ASSUME NEW s \in Slot, PhotoFound(s) PROVE UrlInv'
    <2>1. batch[s].key \in Key /\ batch[s].step = "register"
      BY <1>5, BatchFields, BatchIsThere DEF PhotoFound
    <2>2. /\ request'[s].pc = "mark" /\ request'[s].key = batch[s].key
          /\ \A t \in Slot \ {s} : request'[t] = request[t]
          /\ UNCHANGED <<url, object, images, batch>>
      BY <1>5 DEF PhotoFound, Head
    <2>3. \A t \in Slot : batch[t].step = "put" => batch[t].key # batch[s].key
      BY <2>1
    <2>4. KeysAreDrawnOnce'
      BY <2>1, <2>2
    <2>5. SentBeforeRegistered'
      BY <2>2, <2>3
    <2>6. RegisteredStays'
      BY <2>2
    <2> QED
      BY <2>4, <2>5, <2>6
  <1>6. ASSUME NEW s \in Slot, PhotoMarked(s) PROVE UrlInv'
    <2>1. request[s] \in [pc: {"mark", "insert"}, key: Key, position: Nat]
      BY <1>6, CallPastHead DEF PhotoMarked, MarkRegistered
    <2>2. /\ Calling(s) /\ Calling(s)' /\ request'[s].key = request[s].key
          /\ \A t \in Slot \ {s} : request'[t] = request[t]
          /\ UNCHANGED <<url, images, batch>>
      BY <1>6, <2>1 DEF PhotoMarked, MarkRegistered
    <2>3. /\ object'[request[s].key] = "registered"
          /\ \A k \in Key \ {request[s].key} : object'[k] = object[k]
      BY <1>6, <2>1 DEF PhotoMarked, MarkRegistered
    <2>4. KeysAreDrawnOnce'
      BY <2>2
    <2>5. SentBeforeRegistered'
      BY <2>2
    <2>6. RegisteredStays'
      BY <2>2, <2>3, CallPastHead
    <2> QED
      BY <2>4, <2>5, <2>6
  <1>7. ASSUME NEW s \in Slot, PhotoRegistered(s) PROVE UrlInv'
    <2>1. /\ request[s].pc = "insert" /\ request[s].key \in Key
          /\ \E p : images' = images \cup {[key |-> request[s].key, position |-> p]}
          /\ request' = [request EXCEPT ![s] = NoRequest]
          /\ UNCHANGED <<url, object>>
      BY <1>7, CallPastHead DEF PhotoRegistered, AddImage
    <2>2. \A t \in Slot : Calling(t)' => t # s /\ Calling(t) /\ request'[t] = request[t]
      BY <2>1 DEF NoRequest
    <2>3. \A t \in Slot : /\ BatchHasKey(t)' => BatchHasKey(t) /\ batch'[t] = batch[t]
                          /\ batch'[t].step = "put" => batch[t].step = "put" /\ batch'[t] = batch[t]
      BY <1>7 DEF PhotoRegistered, NoBatch
    <2>4. KeysAreDrawnOnce'
      BY <2>1, <2>2, <2>3
    <2>5. SentBeforeRegistered'
      BY <2>1, <2>2, <2>3
    <2>6. RegisteredStays'
      BY <2>1, <2>2
    <2> QED
      BY <2>4, <2>5, <2>6
  <1>8. ASSUME NEW s \in Slot, PhotoRefused(s) PROVE UrlInv'
    BY <1>8 DEF PhotoRefused, GiveUp, NoBatch, NoRequest
  <1>9. ASSUME NEW s \in Slot, NEW k \in Key, PhotoPresigned(s, k) PROVE UrlInv'
    <2>1. /\ url[k] = "unissued" /\ url' = [url EXCEPT ![k] = "valid"]
          /\ request' = [request EXCEPT ![s] = NoRequest]
          /\ UNCHANGED <<object, images>>
      BY <1>9 DEF PhotoPresigned, PresignPut
    <2>2. \A t \in Slot : Calling(t)' => Calling(t) /\ request'[t] = request[t]
      BY <2>1 DEF NoRequest
    <2>3. \A t \in Slot : t # s \/ batch[s] = NoBatch => batch'[t] = batch[t]
      BY <1>9 DEF PhotoPresigned
    <2>4. batch[s] # NoBatch => batch'[s].key = k
      BY <1>9 DEF PhotoPresigned
    <2>5. ~BatchHasKey(s) \/ batch[s] # NoBatch
      BY BatchIsThere
    <2>6. \A t \in Slot : (BatchHasKey(t) => batch[t].key # k) /\ (Calling(t) => request[t].key # k)
      BY <2>1
    <2>7. KeysAreDrawnOnce'
      BY <2>1, <2>2, <2>3, <2>4, <2>5, <2>6
    <2>8. SentBeforeRegistered'
      BY <2>1, <2>2, <2>3, <2>4, <2>5, <2>6
    <2>9. RegisteredStays'
      BY <2>1, <2>2
    <2> QED
      BY <2>7, <2>8, <2>9
  <1>10. ASSUME NEW k \in Key, StoreStep(k) PROVE UrlInv'
    <2>1. \A j \in Key : /\ url'[j] = "unissued" => url[j] = "unissued"
                         /\ object[j] = "registered" => object'[j] = "registered"
      BY <1>10 DEF StoreStep, UrlExpires, ExpireUnregistered
    <2>2. UNCHANGED <<images, request, batch>>
      BY <1>10 DEF StoreStep, UrlExpires, ExpireUnregistered
    <2>3. \A t \in Slot : (BatchHasKey(t) => batch[t].key \in Key) /\ (Calling(t) => request[t].key \in Key)
      BY BatchFields, BatchIsThere, CallPastHead
    <2>4. KeysAreDrawnOnce'
      BY <2>1, <2>2, <2>3
    <2>5. SentBeforeRegistered'
      BY <2>2
    <2>6. RegisteredStays'
      BY <2>1, <2>2, <2>3
    <2> QED
      BY <2>4, <2>5, <2>6
  <1>11. ASSUME Reload \/ UNCHANGED photoVars PROVE UrlInv'
    BY <1>11 DEF Reload, vars, photoVars, NoBatch
  <1> QED
    BY <1>1, <1>2, <1>3, <1>4, <1>5, <1>6, <1>7, <1>8, <1>9, <1>10, <1>11 DEF PhotosNext

\* The bucket's rule never takes an object a listing shows, for this client:
\* the object stays registered from the promotion on.
THEOREM RowsKeepTheirObject == PhotosSpec => ExpiryTakesNoListingImage
  <1> DEFINE Stays == \A i \in images : object[i.key] # "absent" => object'[i.key] # "absent"
             Inv   == PhotosTypeOK /\ UrlInv
  <1>1. PhotosInit => Inv
    <2>1. PhotosInit => PhotosTypeOK
      BY FS_EmptySet DEF PhotosInit, Init, PhotosTypeOK
    <2>2. PhotosInit => UrlInv
      BY DEF PhotosInit, Init, UrlInv, KeysAreDrawnOnce, SentBeforeRegistered, RegisteredStays,
             BatchHasKey, Calling, NoBatch, NoRequest
    <2> QED
      BY <2>1, <2>2
  <1>2. Inv /\ [PhotosNext]_photoVars => Inv'
    BY PhotosTypeStep, UrlStep
  <1>3. Inv /\ Inv' /\ [PhotosNext]_photoVars => [Stays]_vars
    <2> SUFFICES ASSUME Inv, Inv', [PhotosNext]_photoVars, NEW i \in images
                 PROVE  object'[i.key] # "absent"
      OBVIOUS
    <2>1. i \in images'
      BY DEF PhotosNext, photoVars, vars, SelectPhotos, UploadPhoto, Put, Fail, PhotoCounted,
             CountImages, PhotoFound, Head, PhotoMarked, MarkRegistered, PhotoRegistered, AddImage,
             PhotoRefused, GiveUp, PhotoPresigned, PresignPut, StoreStep, UrlExpires,
             ExpireUnregistered, Reload
    <2> QED
      BY <2>1 DEF UrlInv, RegisteredStays
  <1> QED
    BY <1>1, <1>2, <1>3, PTL DEF PhotosSpec, ExpiryTakesNoListingImage

\* Any part of the rows is finite, and no larger than the rows.
LEMMA PartOfTheRows ==
  ASSUME PhotosTypeOK, NEW part \in SUBSET images
  PROVE  /\ IsFiniteSet(part) /\ Cardinality(part) \in Nat
         /\ Cardinality(images) \in Nat /\ Cardinality(part) <= Cardinality(images)
  <1>1. IsFiniteSet(images)
    BY DEF PhotosTypeOK
  <1> QED
    BY <1>1, FS_Subset, FS_CardinalityType

\* Rows that are apart add up.
LEMMA DisjointRows ==
  ASSUME PhotosTypeOK, NEW one \in SUBSET images, NEW other \in SUBSET images,
         other \cap one = {}
  PROVE  Cardinality(one \cup other) = Cardinality(one) + Cardinality(other)
  <1>1. IsFiniteSet(one) /\ IsFiniteSet(other)
    BY PartOfTheRows
  <1>2. one \cap other = {}
    OBVIOUS
  <1>3. Cardinality(one \cap other) = 0
    BY <1>2, FS_EmptySet
  <1>4. Cardinality(one \cup other)
           = Cardinality(one) + Cardinality(other) - Cardinality(one \cap other)
    BY <1>1, FS_Union
  <1> QED
    BY <1>3, <1>4, PartOfTheRows

\* The position a batch has come to is at most the number of rows.
LEMMA BatchIsBehind ==
  ASSUME PhotosTypeOK, CountsOnlyRegisteredPhotos, BehindTheRows,
         NEW s \in Slot, batch[s] # NoBatch
  PROVE  batch[s].base + batch[s].done <= Cardinality(images)
  <1>1. PICK page \in SUBSET images, past \in [Slot -> SUBSET images] : Accounts(page, past)
    BY DEF CountsOnlyRegisteredPhotos
  <1>2. past[s] \in SUBSET images /\ past[s] \cap page = {}
    BY <1>1 DEF Accounts
  <1>3. Cardinality(page \cup past[s]) = Cardinality(page) + Cardinality(past[s])
    BY <1>1, <1>2, DisjointRows
  <1>4. Cardinality(page \cup past[s]) <= Cardinality(images)
    BY <1>2, PartOfTheRows
  <1>5. /\ batch[s].base <= uploaded /\ uploaded = Cardinality(page)
        /\ batch[s].done = Cardinality(past[s])
    BY <1>1 DEF BehindTheRows, Accounts
  <1>6. batch[s].base \in Nat /\ batch[s].done \in Nat /\ uploaded \in Nat
    BY BatchFields DEF PhotosTypeOK
  <1> QED
    BY <1>3, <1>4, <1>5, <1>6, PartOfTheRows

\* A step that adds no row, counts none and moves no batch on keeps the accounts.
LEMMA AccountsAreKept ==
  ASSUME GalleryInv, UNCHANGED <<images, uploaded>>,
         \A s \in Slot : batch'[s] # NoBatch =>
            /\ batch[s] # NoBatch
            /\ batch'[s].done = batch[s].done /\ batch'[s].base = batch[s].base,
         \A s \in Slot : Calling(s)' => Calling(s) /\ request'[s].position = request[s].position
  PROVE  GalleryInv'
  <1>1. PICK page \in SUBSET images, past \in [Slot -> SUBSET images] : Accounts(page, past)
    BY DEF GalleryInv, CountsOnlyRegisteredPhotos
  <1>2. Accounts(page, past)'
    BY <1>1 DEF Accounts
  <1>3. CountsOnlyRegisteredPhotos'
    BY <1>2 DEF CountsOnlyRegisteredPhotos
  <1>4. BehindTheRows'
    BY DEF GalleryInv, BehindTheRows
  <1>5. GalleryHasNoGaps'
    BY DEF GalleryInv, GalleryHasNoGaps
  <1> QED
    BY <1>3, <1>4, <1>5 DEF GalleryInv

\* The row AddImage inserts is a new one, at the first free position.
LEMMA RowIsNew ==
  ASSUME PhotosTypeOK, GalleryInv, NEW s \in Slot, AddImage(s)
  PROVE  \E i : /\ i \notin images /\ images' = images \cup {i}
                /\ Cardinality(images') = Cardinality(images) + 1
                /\ GalleryHasNoGaps'
  <1> DEFINE n == Cardinality(images)
             row == [key |-> request[s].key, position |-> request[s].position]
  <1>1. /\ request[s].position \in Nat /\ request[s].position <= n
        /\ Calling(s)
    BY CallPastHead DEF AddImage, Calling, GalleryInv, BehindTheRows
  <1>2. row \notin images /\ images' = images \cup {row}
    BY DEF AddImage, Conflicts
  <1>3. n \in Nat /\ Cardinality(images') = n + 1
    <2>1. IsFiniteSet(images)
      BY DEF PhotosTypeOK
    <2> QED
      BY <2>1, <1>2, FS_AddElement, FS_CardinalityType
  <1>4. request[s].position \notin 0..(n - 1)
    BY DEF AddImage, Conflicts, GalleryInv, GalleryHasNoGaps
  <1>5. request[s].position = n
    BY <1>1, <1>3, <1>4
  <1>6. {i.position : i \in images'} = {i.position : i \in images} \cup {n}
    BY <1>2, <1>5
  <1>7. (0..(n - 1)) \cup {n} = 0..((n + 1) - 1)
    BY <1>3
  <1>8. GalleryHasNoGaps'
    BY <1>3, <1>6, <1>7 DEF GalleryInv, GalleryHasNoGaps
  <1> QED
    BY <1>2, <1>3, <1>8

\* An answer 201 moves the batch past its photo, whose row is the new one.
LEMMA RegistrationStep ==
  ASSUME PhotosTypeOK, GalleryInv, NEW s \in Slot, PhotoRegistered(s)
  PROVE  GalleryInv'
  <1>1. PICK page \in SUBSET images, past \in [Slot -> SUBSET images] : Accounts(page, past)
    BY DEF GalleryInv, CountsOnlyRegisteredPhotos
  <1>2. AddImage(s)
    BY DEF PhotoRegistered
  <1>3. PICK i : /\ i \notin images /\ images' = images \cup {i}
                 /\ Cardinality(images') = Cardinality(images) + 1
                 /\ GalleryHasNoGaps'
    BY <1>2, RowIsNew
  <1>4. \A t \in Slot : Calling(t)' => Calling(t) /\ request'[t] = request[t]
    BY <1>2 DEF AddImage, Calling, NoRequest
  <1>5. \A t \in Slot : Calling(t)' => request'[t].position <= Cardinality(images')
    BY <1>3, <1>4, CallPastHead, PartOfTheRows DEF GalleryInv, BehindTheRows
  <1>6. CountsOnlyRegisteredPhotos' /\ (\A t \in Slot : batch'[t] # NoBatch => batch'[t].base <= uploaded')
    <2>1. CASE batch[s] = NoBatch
      <3>1. UNCHANGED <<uploaded, batch>>
        BY <2>1 DEF PhotoRegistered
      <3>2. Accounts(page, past)'
        BY <1>1, <3>1 DEF Accounts
      <3>3. page \in SUBSET images' /\ past \in [Slot -> SUBSET images']
        BY <1>3
      <3> QED
        BY <3>1, <3>2, <3>3 DEF CountsOnlyRegisteredPhotos, GalleryInv, BehindTheRows
    <2>2. CASE batch[s] # NoBatch /\ batch[s].done + 1 < batch[s].size
      <3> DEFINE on == [step |-> "presign", base |-> batch[s].base, size |-> batch[s].size,
                        done |-> batch[s].done + 1]
      <3>1. batch' = [batch EXCEPT ![s] = on] /\ uploaded' = uploaded
        BY <2>2, BatchFields DEF PhotoRegistered
      <3>2. PICK more : more = [past EXCEPT ![s] = past[s] \cup {i}]
        OBVIOUS
      <3>3. page \in SUBSET images' /\ more \in [Slot -> SUBSET images']
        BY <1>3, <3>2
      <3>4. Cardinality(more[s]) = batch[s].done + 1
        <4>1. past[s] \in SUBSET images /\ IsFiniteSet(past[s]) /\ i \notin past[s]
          BY <1>1, <1>3, PartOfTheRows
        <4>2. Cardinality(past[s]) = batch[s].done
          BY <1>1, <2>2 DEF Accounts
        <4> QED
          BY <3>2, <4>1, <4>2, FS_AddElement
      <3>5. batch[s].base \in Nat /\ on # NoBatch /\ \A t \in Slot \ {s} : batch'[t] = batch[t]
        BY <2>2, <3>1, BatchFields DEF NoBatch
      <3>6. batch'[s].done = batch[s].done + 1 /\ batch'[s].base = batch[s].base
        BY <3>1 DEF PhotosTypeOK
      <3>7. \A t \in Slot : batch'[t] # NoBatch => batch[t] # NoBatch
        BY <2>2, <3>5
      <3>8. Accounts(page, more)'
        <4>1. Cardinality(page) = uploaded'
          BY <1>1, <3>1 DEF Accounts
        <4>2. \A t \in Slot : batch'[t] # NoBatch => Cardinality(more[t]) = batch'[t].done
          BY <1>1, <3>2, <3>4, <3>5, <3>6 DEF Accounts
        <4>3. \A t \in Slot : batch'[t] # NoBatch => more[t] \cap page = {}
          BY <1>1, <1>3, <3>2, <3>7 DEF Accounts
        <4>4. \A t, u \in Slot : batch'[t] # NoBatch /\ batch'[u] # NoBatch /\ t # u
                                   => more[t] \cap more[u] = {}
          <5> SUFFICES ASSUME NEW t \in Slot, NEW u \in Slot, t # u,
                              batch'[t] # NoBatch, batch'[u] # NoBatch
                       PROVE  more[t] \cap more[u] = {}
            OBVIOUS
          <5>1. past[t] \cap past[u] = {} /\ i \notin past[t] /\ i \notin past[u]
            BY <1>1, <1>3, <3>7 DEF Accounts
          <5> QED
            BY <3>2, <5>1
        <4> QED
          BY <4>1, <4>2, <4>3, <4>4 DEF Accounts
      <3> QED
        BY <3>1, <3>3, <3>5, <3>6, <3>7, <3>8 DEF CountsOnlyRegisteredPhotos, GalleryInv, BehindTheRows
    <2>3. CASE batch[s] # NoBatch /\ batch[s].done + 1 = batch[s].size
      <3>1. batch' = [batch EXCEPT ![s] = NoBatch] /\ uploaded' = uploaded + batch[s].size
        BY <2>3, BatchFields DEF PhotoRegistered
      <3>2. PICK full : full = (page \cup past[s]) \cup {i}
        OBVIOUS
      <3>3. full \in SUBSET images' /\ past \in [Slot -> SUBSET images']
        BY <1>3, <3>2
      <3>4. Cardinality(full) = uploaded'
        <4>1. Cardinality(page \cup past[s]) = Cardinality(page) + Cardinality(past[s])
          BY <1>1, <2>3, DisjointRows DEF Accounts
        <4>2. Cardinality(page) = uploaded /\ Cardinality(past[s]) = batch[s].done
          BY <1>1, <2>3 DEF Accounts
        <4>3. IsFiniteSet(page \cup past[s]) /\ i \notin page \cup past[s]
          BY <1>1, <1>3, PartOfTheRows
        <4>4. Cardinality(full) = Cardinality(page \cup past[s]) + 1
          BY <3>2, <4>3, FS_AddElement
        <4>5. uploaded \in Nat /\ batch[s].done \in Nat /\ batch[s].size \in Nat
          BY <2>3, BatchFields DEF PhotosTypeOK
        <4> QED
          BY <2>3, <3>1, <4>1, <4>2, <4>4, <4>5
      <3>5. \A t \in Slot : batch'[t] # NoBatch => t # s /\ batch'[t] = batch[t]
        BY <3>1 DEF PhotosTypeOK
      <3>6. Accounts(full, past)'
        <4>1. \A t \in Slot : batch'[t] # NoBatch =>
                Cardinality(past[t]) = batch'[t].done /\ past[t] \cap full = {}
          BY <1>1, <1>3, <2>3, <3>2, <3>5 DEF Accounts
        <4>2. \A t \in Slot : batch'[t] # NoBatch =>
                \A u \in Slot \ {t} : batch'[u] # NoBatch => past[t] \cap past[u] = {}
          BY <1>1, <3>5 DEF Accounts
        <4> QED
          BY <3>4, <4>1, <4>2 DEF Accounts
      <3>7. \A t \in Slot : batch'[t] # NoBatch => batch'[t].base <= uploaded'
        <4> SUFFICES ASSUME NEW t \in Slot, batch'[t] # NoBatch
                     PROVE  batch'[t].base <= uploaded'
          OBVIOUS
        <4>1. batch[t].base \in Nat /\ batch[s].size \in Nat /\ uploaded \in Nat
          BY <2>3, <3>5, BatchFields DEF PhotosTypeOK
        <4>2. batch[t].base <= uploaded
          BY <3>5 DEF GalleryInv, BehindTheRows
        <4> QED
          BY <3>1, <3>5, <4>1, <4>2
      <3> QED
        BY <3>3, <3>6, <3>7 DEF CountsOnlyRegisteredPhotos
    <2> QED
      BY <2>1, <2>2, <2>3 DEF PhotoRegistered
  <1> QED
    BY <1>3, <1>5, <1>6 DEF GalleryInv, BehindTheRows

\* Every step of the page keeps its accounts and the gallery.
LEMMA GalleryStep ==
  ASSUME PhotosTypeOK, GalleryInv, [PhotosNext]_photoVars
  PROVE  GalleryInv'
  <1> USE DEF Calling
  <1>1. ASSUME NEW s \in Slot, NEW n \in 1..MaxPhotos, SelectPhotos(s, n) PROVE GalleryInv'
    <2>1. PICK page \in SUBSET images, past \in [Slot -> SUBSET images] : Accounts(page, past)
      BY DEF GalleryInv, CountsOnlyRegisteredPhotos
    <2>2. PICK more : more = [past EXCEPT ![s] = {}]
      OBVIOUS
    <2>3. more \in [Slot -> SUBSET images] /\ Cardinality(more[s]) = 0
      BY <2>2, FS_EmptySet
    <2>4. /\ UNCHANGED <<images, uploaded, request>>
          /\ batch'[s].done = 0 /\ batch'[s].base = uploaded
          /\ \A t \in Slot \ {s} : batch'[t] = batch[t]
      BY <1>1 DEF SelectPhotos, vars, PhotosTypeOK
    <2>5. Accounts(page, more)'
      BY <2>1, <2>2, <2>3, <2>4 DEF Accounts
    <2>6. CountsOnlyRegisteredPhotos'
      BY <2>3, <2>4, <2>5 DEF CountsOnlyRegisteredPhotos
    <2>7. BehindTheRows'
      BY <2>4 DEF GalleryInv, BehindTheRows, PhotosTypeOK
    <2> QED
      BY <2>4, <2>6, <2>7 DEF GalleryInv, GalleryHasNoGaps
  <1>2. ASSUME NEW s \in Slot, UploadPhoto(s) PROVE GalleryInv'
    <2>1. batch[s] \in [step: {"put", "register"}, base: Nat, size: Nat, done: Nat, key: Key]
      BY <1>2, BatchFields, BatchIsThere DEF UploadPhoto, BatchHasKey
    <2>2. /\ batch[s] # NoBatch
          /\ batch'[s].done = batch[s].done /\ batch'[s].base = batch[s].base
          /\ \A t \in Slot \ {s} : batch'[t] = batch[t]
      BY <1>2, <2>1, BatchIsThere DEF UploadPhoto
    <2> QED
      BY <1>2, <2>2, AccountsAreKept DEF UploadPhoto, Put
  <1>3. ASSUME NEW s \in Slot, Fail(s) PROVE GalleryInv'
    BY <1>3, AccountsAreKept DEF Fail, vars
  <1>4. ASSUME NEW s \in Slot, PhotoCounted(s) PROVE GalleryInv'
    BY <1>4, AccountsAreKept DEF PhotoCounted, CountImages
  <1>5. ASSUME NEW s \in Slot, PhotoFound(s) PROVE GalleryInv'
    <2>1. /\ batch[s] # NoBatch
          /\ request'[s].position = batch[s].base + batch[s].done
          /\ \A t \in Slot \ {s} : request'[t] = request[t]
          /\ UNCHANGED <<images, uploaded, batch>>
      BY <1>5, BatchIsThere DEF PhotoFound, Head, PhotosTypeOK
    <2>2. BehindTheRows'
      BY <2>1, BatchIsBehind DEF GalleryInv, BehindTheRows
    <2>3. CountsOnlyRegisteredPhotos' /\ GalleryHasNoGaps'
      BY <2>1 DEF GalleryInv, CountsOnlyRegisteredPhotos, Accounts, GalleryHasNoGaps
    <2> QED
      BY <2>2, <2>3 DEF GalleryInv
  <1>6. ASSUME NEW s \in Slot, PhotoMarked(s) PROVE GalleryInv'
    <2>1. request[s] \in [pc: {"mark", "insert"}, key: Key, position: Nat]
      BY <1>6, CallPastHead DEF PhotoMarked, MarkRegistered
    <2>2. /\ Calling(s) /\ request'[s].position = request[s].position
          /\ \A t \in Slot \ {s} : request'[t] = request[t]
          /\ UNCHANGED <<images, uploaded, batch>>
      BY <1>6, <2>1 DEF PhotoMarked, MarkRegistered
    <2> QED
      BY <2>2, AccountsAreKept
  <1>7. ASSUME NEW s \in Slot, PhotoRegistered(s) PROVE GalleryInv'
    BY <1>7, RegistrationStep
  <1>8. ASSUME NEW s \in Slot, PhotoRefused(s) PROVE GalleryInv'
    BY <1>8, AccountsAreKept DEF PhotoRefused, GiveUp, NoRequest
  <1>9. ASSUME NEW s \in Slot, NEW k \in Key, PhotoPresigned(s, k) PROVE GalleryInv'
    <2>1. /\ UNCHANGED <<images, uploaded>>
          /\ request' = [request EXCEPT ![s] = NoRequest]
      BY <1>9 DEF PhotoPresigned, PresignPut
    <2>2. \A t \in Slot : Calling(t)' => Calling(t) /\ request'[t].position = request[t].position
      BY <2>1 DEF NoRequest
    <2>3. \A t \in Slot : batch'[t] # NoBatch =>
            /\ batch[t] # NoBatch
            /\ batch'[t].done = batch[t].done /\ batch'[t].base = batch[t].base
      BY <1>9 DEF PhotoPresigned
    <2> QED
      BY <2>1, <2>2, <2>3, AccountsAreKept
  <1>10. ASSUME NEW k \in Key, StoreStep(k) PROVE GalleryInv'
    <2>1. UNCHANGED <<images, uploaded, batch, request>>
      BY <1>10 DEF StoreStep, UrlExpires, ExpireUnregistered
    <2> QED
      BY <2>1, AccountsAreKept
  <1>11. ASSUME Reload PROVE GalleryInv'
    <2>1. /\ uploaded' = 0 /\ UNCHANGED <<images, request>>
          /\ \A t \in Slot : batch'[t] = NoBatch
      BY <1>11 DEF Reload, vars
    <2>2. PICK none : none = [t \in Slot |-> {}]
      OBVIOUS
    <2>3. Accounts({}, none)' /\ none \in [Slot -> SUBSET images]
      BY <2>1, <2>2, FS_EmptySet DEF Accounts
    <2>4. CountsOnlyRegisteredPhotos'
      BY <2>1, <2>3 DEF CountsOnlyRegisteredPhotos
    <2> QED
      BY <2>1, <2>4 DEF GalleryInv, BehindTheRows, GalleryHasNoGaps
  <1>12. ASSUME UNCHANGED photoVars PROVE GalleryInv'
    <2>1. UNCHANGED <<images, uploaded, batch, request>>
      BY <1>12 DEF photoVars
    <2> QED
      BY <2>1, AccountsAreKept
  <1> QED
    BY <1>1, <1>2, <1>3, <1>4, <1>5, <1>6, <1>7, <1>8, <1>9, <1>10, <1>11, <1>12 DEF PhotosNext

\* Types, accounts and gallery hold together.
LEMMA GalleryInvariance == PhotosSpec => []GalleryInv
  <1>1. PhotosInit => GalleryInv
    <2> SUFFICES ASSUME PhotosInit PROVE GalleryInv
      OBVIOUS
    <2>1. /\ uploaded = 0 /\ images = {} /\ Cardinality(images) = 0
          /\ \A t \in Slot : batch[t] = NoBatch /\ request[t] = NoRequest
      BY FS_EmptySet DEF PhotosInit, Init
    <2>2. PICK none : none = [t \in Slot |-> {}]
      OBVIOUS
    <2>3. Accounts({}, none) /\ none \in [Slot -> SUBSET images]
      BY <2>1, <2>2, FS_EmptySet DEF Accounts
    <2>4. CountsOnlyRegisteredPhotos
      BY <2>3 DEF CountsOnlyRegisteredPhotos
    <2>5. GalleryHasNoGaps
      BY <2>1 DEF GalleryHasNoGaps
    <2> QED
      BY <2>1, <2>4, <2>5 DEF GalleryInv, BehindTheRows, Calling, NoRequest
  <1>2. PhotosTypeOK /\ GalleryInv /\ [PhotosNext]_photoVars => GalleryInv'
    BY GalleryStep
  <1> QED
    BY <1>1, <1>2, PhotosTypeCorrect, PTL DEF PhotosSpec

\* Whatever failed, overlapped or went unanswered: each photo the page counts
\* or is past has a row of its own.
THEOREM PhotosCountedHaveRows == PhotosSpec => []CountsOnlyRegisteredPhotos
  BY GalleryInvariance, PTL DEF GalleryInv

\* The gallery runs from position 0 without gaps.
THEOREM GalleryIsWhole == PhotosSpec => []GalleryHasNoGaps
  BY GalleryInvariance, PTL DEF GalleryInv

=============================================================================
