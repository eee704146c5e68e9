------------------------------- MODULE Documents -------------------------------
(***************************************************************************)
(* The documents of one application: the checklists an admin asks for, the *)
(* files the borrower attaches through an upload link, the object storage, *)
(* the verdicts of a scanner, and the downloads (DocumentsService,         *)
(* StorageService, document-upload.rules).                                 *)
(*                                                                         *)
(* A document is a row and an object; no transaction holds the two         *)
(* together.  A request's steps are the stretches between its awaits.      *)
(***************************************************************************)
EXTENDS Naturals, FiniteSets

CONSTANTS Request,               \* document requests the admins make
          DocType,               \* DOCUMENT_TYPES
          Content, Declared,     \* types of the files, and what they are called
          Upload,                \* uploads in flight at once
          Scan,                  \* verdicts the scanner gives
          Download,              \* downloads in flight at once
          MAX_FILES_PER_REQUEST, \* 20 in the code
          Key,                   \* storage keys: fresh UUIDs
          NoKey

ASSUME BoundAssumption == MAX_FILES_PER_REQUEST \in Nat \ {0}
ASSUME KeyAssumption == NoKey \notin Key /\ IsFiniteSet(Key)
ASSUME UploadAssumption == IsFiniteSet(Upload) /\ Upload # {}

\* A file's bytes are told apart by the type they have.
HeifFamily == {"heic", "heif"}
ACCEPTED_MIME_TYPES == {"pdf", "jpeg", "png", "webp"} \cup HeifFamily
NoMime == "none"

sniffMimeType(content) ==
  IF content \in ACCEPTED_MIME_TYPES THEN content ELSE NoMime

typesAgree(declared, sniffed) ==
  declared = sniffed \/ {declared, sniffed} \subseteq HeifFamily

Acceptable(declared, content) ==
  /\ sniffMimeType(content) # NoMime
  /\ declared \in ACCEPTED_MIME_TYPES
  /\ typesAgree(declared, sniffMimeType(content))

Status == {"clean", "infected", "error"}

VARIABLES
  requests,  \* the rows of document_requests
  documents, \* the row of each key, if it has one
  bucket,    \* the object stored under each key: its content
  used,      \* keys made so far
  up,        \* what each upload in flight is doing
  scan,      \* what each verdict in flight is doing
  down,      \* the key each download has looked up
  lost,      \* history: objects left behind by a fault
  torn       \* history: rows whose object a fault or a verdict took away

vars == <<requests, documents, bucket, used, up, scan, down, lost, torn>>

NoRequest == [made |-> FALSE, open |-> FALSE, types |-> {}]

NoRow == [made |-> FALSE]
Row == [made : {TRUE}, request : Request, type : DocType,
        mime : ACCEPTED_MIME_TYPES, status : Status, deleted : BOOLEAN]

Live(k) == documents[k].made /\ ~documents[k].deleted
FilesOf(q) == {k \in Key : Live(k) /\ documents[k].request = q}

Idle == [step |-> "idle"]
Over == [step |-> "over"]

-----------------------------------------------------------------------------
\* requestDocuments: the row precedes the action and its mail, and no earlier
\* request is closed.  The checklist is not empty.
RequestDocuments(q) ==
  /\ ~requests[q].made
  /\ \E types \in SUBSET DocType \ {{}} :
       requests' = [requests EXCEPT ![q] = [made |-> TRUE, open |-> TRUE,
                                            types |-> types]]
  /\ UNCHANGED <<documents, bucket, used, up, scan, down, lost, torn>>

\* expires_at passes.  Nothing sets completed_at.
LinkExpires(q) ==
  /\ requests[q].open
  /\ requests' = [requests EXCEPT ![q].open = FALSE]
  /\ UNCHANGED <<documents, bucket, used, up, scan, down, lost, torn>>

-----------------------------------------------------------------------------
(* An upload *)

\* uploadForRequest up to storage.put: the link, the item, the file, and the
\* count of what is there already.  The reads are one step: of what they read,
\* only the expiry and the count move, and the last read is the count.
\* (Mutant: the files of the same item are counted.)
Accept(u, q, type, mime, content) ==
  /\ up[u].step = "idle"
  /\ requests[q].open
  /\ up' = [up EXCEPT ![u] = [step |-> "put", request |-> q, type |-> type,
                              mime |-> mime, content |-> content]]
  /\ UNCHANGED <<requests, documents, bucket, used, scan, down, lost, torn>>

HasRoom(q) == Cardinality(FilesOf(q)) < MAX_FILES_PER_REQUEST

UploadCountingItem(u) ==
  \E q \in Request, declared \in Declared, content \in Content :
    \E type \in requests[q].types :
      /\ Acceptable(declared, content)
      /\ Cardinality({k \in FilesOf(q) : documents[k].type = type})
           < MAX_FILES_PER_REQUEST
      /\ Accept(u, q, type, sniffMimeType(content), content)

UploadForRequest(u) ==
  \E q \in Request, declared \in Declared, content \in Content :
    \E type \in requests[q].types :
      /\ Acceptable(declared, content)
      /\ HasRoom(q)
      /\ Accept(u, q, type, sniffMimeType(content), content)

WithKey(u, k) ==
  [step |-> "record", key |-> k, request |-> up[u].request,
   type |-> up[u].type, mime |-> up[u].mime, content |-> up[u].content]

NewRow(u) == [made |-> TRUE, request |-> up[u].request, type |-> up[u].type,
              mime |-> up[u].mime, status |-> "clean", deleted |-> FALSE]

\* storage.put under a fresh key.
Put(u) ==
  /\ up[u].step = "put"
  /\ \E k \in Key \ used :
       /\ used' = used \cup {k}
       /\ bucket' = [bucket EXCEPT ![k] = up[u].content]
       /\ up' = [up EXCEPT ![u] = WithKey(u, k)]
  /\ UNCHANGED <<requests, documents, scan, down, lost, torn>>

\* It fails, and the borrower is told so.  The object may be there all the same
\* when only the answer was lost.
PutFails(u) ==
  /\ up[u].step = "put"
  /\ \/ UNCHANGED <<used, bucket, lost>>
     \/ \E k \in Key \ used :
          /\ used' = used \cup {k}
          /\ bucket' = [bucket EXCEPT ![k] = up[u].content]
          /\ lost' = lost \cup {k}
  /\ up' = [up EXCEPT ![u] = Idle]
  /\ UNCHANGED <<requests, documents, scan, down, torn>>

RecordUpload(u) ==
  /\ up[u].step = "record"
  /\ documents' = [documents EXCEPT ![up[u].key] = NewRow(u)]
  /\ up' = [up EXCEPT ![u] = Idle]
  /\ UNCHANGED <<requests, bucket, used, scan, down, lost, torn>>

\* The insert is refused, or was written and its answer lost: the object is to
\* be removed.  (Mutant: the error is only passed on.)
JustThrow(u) ==
  /\ up[u].step = "record"
  /\ up' = [up EXCEPT ![u] = Idle]
  /\ UNCHANGED <<requests, documents, bucket, used, scan, down, lost, torn>>

RecordFails(u) ==
  /\ up[u].step = "record"
  /\ \/ UNCHANGED <<documents, torn>>
     \/ /\ documents' = [documents EXCEPT ![up[u].key] = NewRow(u)]
        /\ torn' = torn \cup {up[u].key}
  /\ up' = [up EXCEPT ![u].step = "remove"]
  /\ UNCHANGED <<requests, bucket, used, scan, down, lost>>

\* The key of an upload whose row is missing.
Rowless(u) == {k \in Key : up[u].key = k /\ ~documents[k].made}

\* storage.remove: best effort, a failure is logged and passed over.
RemoveAfterFailure(u) ==
  /\ up[u].step = "remove"
  /\ \/ bucket' = [bucket EXCEPT ![up[u].key] = NoMime] /\ lost' = lost
     \/ bucket' = bucket /\ lost' = lost \cup Rowless(u)
  /\ up' = [up EXCEPT ![u] = Idle]
  /\ UNCHANGED <<requests, documents, used, scan, down, torn>>

\* The process, or the function invocation, ends in the middle.
UploadDies(u) ==
  /\ up[u].step # "idle"
  /\ lost' = IF up[u].step \in {"record", "remove"} THEN lost \cup Rowless(u)
             ELSE lost
  /\ up' = [up EXCEPT ![u] = Idle]
  /\ UNCHANGED <<requests, documents, bucket, used, scan, down, torn>>

-----------------------------------------------------------------------------
(* A verdict.  No route calls recordScanResult: it is the place kept for a   *)
(* scanner, which may say anything of any document, and twice.               *)

ReadForVerdict(s) ==
  /\ scan[s].step = "idle"
  /\ \E k \in Key, status \in Status :
       /\ documents[k].made
       /\ scan' = [scan EXCEPT ![s] =
                     [step |-> IF status = "infected" THEN "purge" ELSE "write",
                      key |-> k, status |-> status, read |-> documents[k]]]
  /\ UNCHANGED <<requests, documents, bucket, used, up, down, lost, torn>>

Purge(s) ==
  /\ scan[s].step = "purge"
  /\ \/ /\ bucket' = [bucket EXCEPT ![scan[s].key] = NoMime]
        /\ torn' = torn \cup {scan[s].key}
     \/ UNCHANGED <<bucket, torn>>
  /\ scan' = [scan EXCEPT ![s].step = "write"]
  /\ UNCHANGED <<requests, documents, used, up, down, lost>>

\* The columns that differ from what was read are written.  (Mutant: all are.)
Verdict(s) == LET v == scan[s] IN
  [v.read EXCEPT !.status = v.status,
                 !.deleted = v.read.deleted \/ v.status = "infected"]

RecordWholeRow(s) ==
  /\ scan[s].step = "write"
  /\ documents' = [documents EXCEPT ![scan[s].key] = Verdict(s)]
  /\ scan' = [scan EXCEPT ![s] = Over]
  /\ UNCHANGED <<requests, bucket, used, up, down, lost, torn>>

RecordScanResult(s) ==
  /\ scan[s].step = "write"
  /\ LET read == scan[s].read  now == documents[scan[s].key] IN
       documents' = [documents EXCEPT ![scan[s].key] =
         [c \in DOMAIN now |->
            IF Verdict(s)[c] # read[c] THEN Verdict(s)[c] ELSE now[c]]]
  /\ scan' = [scan EXCEPT ![s] = Over]
  /\ UNCHANGED <<requests, bucket, used, up, down, lost, torn>>

ScanDies(s) ==
  /\ scan[s].step \in {"purge", "write"}
  /\ scan' = [scan EXCEPT ![s] = Over]
  /\ UNCHANGED <<requests, documents, bucket, used, up, down, lost, torn>>

-----------------------------------------------------------------------------
(* A download *)

ReadForDownload(d) ==
  /\ down[d] = NoKey
  /\ \E k \in Key : /\ Live(k)
                    /\ documents[k].status = "clean"
                    /\ down' = [down EXCEPT ![d] = k]
  /\ UNCHANGED <<requests, documents, bucket, used, up, scan, lost, torn>>

\* The bytes, or 404 when they are gone.
StorageGet(d) ==
  /\ down[d] # NoKey
  /\ down' = [down EXCEPT ![d] = NoKey]
  /\ UNCHANGED <<requests, documents, bucket, used, up, scan, lost, torn>>

-----------------------------------------------------------------------------
Init ==
  /\ requests = [q \in Request |-> NoRequest]
  /\ documents = [k \in Key |-> NoRow]
  /\ bucket = [k \in Key |-> NoMime]
  /\ used = {}
  /\ up = [u \in Upload |-> Idle]
  /\ scan = [s \in Scan |-> Idle]
  /\ down = [d \in Download |-> NoKey]
  /\ lost = {} /\ torn = {}

Uploading(u) == \/ UploadForRequest(u) \/ Put(u) \/ PutFails(u)
                \/ RecordUpload(u) \/ RecordFails(u) \/ RemoveAfterFailure(u)
                \/ UploadDies(u)

Scanning(s) == \/ ReadForVerdict(s) \/ Purge(s) \/ RecordScanResult(s)
               \/ ScanDies(s)

Next == \/ \E q \in Request : RequestDocuments(q) \/ LinkExpires(q)
        \/ \E u \in Upload : Uploading(u)
        \/ \E s \in Scan : Scanning(s)
        \/ \E d \in Download : ReadForDownload(d) \/ StorageGet(d)

Spec == Init /\ [][Next]_vars

-----------------------------------------------------------------------------
\* Every variable has its type, and a key has been made before it holds anything.
TypeOK ==
  /\ requests \in [Request -> [made : BOOLEAN, open : BOOLEAN,
                               types : SUBSET DocType]]
  /\ documents \in [Key -> Row \cup {NoRow}]
  /\ bucket \in [Key -> Content \cup {NoMime}]
  /\ used \subseteq Key
  /\ \A k \in Key : documents[k].made \/ bucket[k] # NoMime => k \in used
  /\ down \in [Download -> used \cup {NoKey}]
  /\ lost \cup torn \subseteq used

\* uploadForRequest: a document an admin can see has its object, unless a
\* verdict took it, or the insert's answer was lost and the object was removed
\* for it.
RowsHaveObjects ==
  \A k \in Key : Live(k) => bucket[k] # NoMime \/ k \in torn

\* uploadForRequest, remove: an object no row knows of belongs to an upload in
\* flight, or a crash, a lost answer or a failed removal left it.
OrphansAreFaults ==
  \A k \in Key : bucket[k] # NoMime /\ ~documents[k].made =>
    \/ k \in lost
    \/ \E u \in Upload : up[u].step \in {"record", "remove"} /\ up[u].key = k

\* uploadForRequest: the ceiling on a request's files is passed by no more than
\* the uploads that were counted together.
FilesBounded ==
  \A q \in Request :
    Cardinality(FilesOf(q)) < MAX_FILES_PER_REQUEST + Cardinality(Upload)

\* uploadForRequest: a document answers a checklist item of its own request, and
\* is served under the type its bytes have.
RowsDescribeObjects ==
  \A k \in Key : documents[k].made =>
    /\ documents[k].type \in requests[documents[k].request].types
    /\ bucket[k] \in {documents[k].mime, NoMime}

\* uploadForRequest: the row and the object of a document agree, through uploads,
\* verdicts, lost answers and crashes.
RowsAndObjectsAgree == /\ TypeOK
                       /\ RowsHaveObjects
                       /\ OrphansAreFaults
                       /\ RowsDescribeObjects

\* recordScanResult, readForDownload: a document found infected stays deleted,
\* whatever other verdicts were in flight or come later, and no download of it
\* begins.
DeletedForGood ==
  [][\A k \in Key : documents[k].made /\ documents[k].deleted =>
       /\ documents'[k].deleted
       /\ \A d \in Download : down'[d] = k => down[d] = k]_vars
=============================================================================
