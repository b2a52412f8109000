-------------------------------- MODULE Documents ------------------------------
(* The documents of one borrower: uploadDocument stores a blob, then a row;    *)
(* StorageService answers with a mock until its client is initialised.         *)
EXTENDS Serving

CONSTANTS
  DocTypes,
  Files,    \* the files the borrower uploads
  MaxClock  \* bound: milliseconds that go by

ASSUME MaxClockIsNat == MaxClock \in Nat

VARIABLES
  now,        \* Date.now()
  configured, \* the connection string is set and the Azure library loads
  ready,      \* StorageService.initialized
  blobs,      \* the blobs in the container: the file under each key
  documents,  \* the rows of documents
  uploads,    \* what each uploadDocument is doing
  begun       \* the uploads that were begun (for the properties)

documentVars == <<now, configured, ready, blobs, documents, uploads, begun>>

Times == 0..MaxClock

Begun == [type : DocTypes, at : Times, file : Files]

\* mocked (for the properties): no blob was stored for it.
Document == [type : DocTypes, at : Times, file : Files, mocked : BOOLEAN]

NoUpload == [pc |-> "idle"]

Upload ==
  {NoUpload} \cup [pc : {"store"}, type : DocTypes, at : Times, file : Files]
  \cup [pc : {"insert"}, type : DocTypes, at : Times, file : Files,
        mocked : BOOLEAN]

DocumentInit ==
  /\ now = 0
  /\ configured \in BOOLEAN /\ ready = FALSE
  /\ blobs = {} /\ documents = {}
  /\ uploads = [r \in Requests |-> NoUpload]
  /\ begun = {}

DocumentTypeOK ==
  /\ now \in Times
  /\ configured \in BOOLEAN /\ ready \in BOOLEAN
  /\ blobs \subseteq [key : DocTypes \X Times, file : Files]
  /\ documents \subseteq Document
  /\ uploads \in [Requests -> Upload]
  /\ begun \subseteq Begun

Tick ==
  /\ now < MaxClock /\ now' = now + 1
  /\ UNCHANGED <<configured, ready, blobs, documents, uploads, begun>>

(*-------------------------------- StorageService -----------------------------*)

\* The constructor starts initAzureClient and does not wait for it.
ClientReady ==
  /\ configured /\ ready' = TRUE
  /\ UNCHANGED <<now, configured, blobs, documents, uploads, begun>>

\* The process dies, its uploads with it, and starts anew.
RestartServer ==
  /\ ready' = FALSE
  /\ uploads' = [r \in Requests |-> NoUpload]
  /\ UNCHANGED <<now, configured, blobs, documents, begun>>

(*-------------------------------- DocumentService ----------------------------*)

\* Mutant: the keys of all types are the same.
MutBlobKey(up) == <<CHOOSE type \in DocTypes : TRUE, up.at>>

\* `userId/type/Date.now()-name`, for files that all have one name.
BlobKey(up) == <<up.type, up.at>>

\* The borrower uploads a file once; another one may be the same again.
BeginUpload(r, type, file) ==
  LET up == [type |-> type, at |-> now, file |-> file] IN
  /\ uploads[r] = NoUpload /\ \A old \in begun : old.file # file
  /\ uploads' = [uploads EXCEPT ![r] = [pc |-> "store", type |-> type,
                   at |-> now, file |-> file]]
  /\ begun' = begun \cup {up}
  /\ UNCHANGED <<now, configured, ready, blobs, documents>>

\* uploadData writes over a blob that has the key.
Overwritten(up) ==
  {b \in blobs : b.key # BlobKey(up)} \cup
  {[key |-> BlobKey(up), file |-> up.file]}

Stored(r, mocked) ==
  uploads' = [uploads EXCEPT ![r] = [pc |-> "insert", type |-> @.type,
                at |-> @.at, file |-> @.file, mocked |-> mocked]]

Dropped(r) == uploads' = [uploads EXCEPT ![r] = NoUpload]

\* upload rethrows; the blob may be there if the answer was lost.
UploadFails(r) ==
  Dropped(r) /\ blobs' \in {blobs, Overwritten(uploads[r])}

\* upload answers with 'mock-etag' when the client is not initialised.
StoreBlob(r) ==
  /\ uploads[r].pc = "store"
  /\ \/ ~ready /\ Stored(r, TRUE) /\ UNCHANGED blobs
     \/ ready /\ Stored(r, FALSE) /\ blobs' = Overwritten(uploads[r])
     \/ ready /\ UploadFails(r)
  /\ UNCHANGED <<now, configured, ready, documents, begun>>

\* UNIQUE (user_id, doc_type, is_deleted): one row of a type, since no handler
\* deletes one.
TypeTaken(type) == \E d \in documents : d.type = type

InsertDocument(r) ==
  LET up == uploads[r] IN
  /\ up.pc = "insert" /\ ~TypeTaken(up.type)
  /\ documents' = documents \cup
       {[type |-> up.type, at |-> up.at, file |-> up.file,
         mocked |-> up.mocked]}
  /\ Dropped(r)
  /\ UNCHANGED <<now, configured, ready, blobs, begun>>

\* The constraint, or another error: 500, and nobody deletes the blob.
InsertFails(r) ==
  /\ uploads[r].pc = "insert" /\ Dropped(r)
  /\ UNCHANGED <<now, configured, ready, blobs, documents, begun>>

DocumentNext ==
  \/ Tick \/ ClientReady \/ RestartServer
  \/ \E r \in Requests :
       \/ \E type \in DocTypes, file \in Files : BeginUpload(r, type, file)
       \/ StoreBlob(r) \/ InsertDocument(r) \/ InsertFails(r)

DocumentSpec == DocumentInit /\ [][DocumentNext]_documentVars

(*--------------------------------- Properties --------------------------------*)

OwnBlob(up) == [key |-> BlobKey(up), file |-> up.file] \in blobs

\* Another file of the same type was uploaded in the same millisecond, and its
\* blob is there.
Rivalled(up) ==
  \E old \in begun :
    old.type = up.type /\ old.at = up.at /\ old.file # up.file /\ OwnBlob(old)

\* Whichever uploads overlapped, failed or died with the process: a document on
\* record has its own file as its blob, unless the storage client was not ready
\* when it was uploaded (the mock keeps nothing), or an upload of the same type
\* in the same millisecond wrote over it.
DocumentHasBlob ==
  \A d \in documents : d.mocked \/ OwnBlob(d) \/ Rivalled(d)
===============================================================================
