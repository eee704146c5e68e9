--------------------------- MODULE Documents_proofs ---------------------------
(***************************************************************************)
(* The theorems about Documents: what rows and objects keep of each other  *)
(* through uploads, verdicts and faults, for any requests, uploads, scans, *)
(* keys and ceiling.                                                       *)
(***************************************************************************)
EXTENDS Documents, FiniteSetTheorems, TLAPS

Sending == [step : {"put"}, request : Request, type : DocType,
            mime : ACCEPTED_MIME_TYPES, content : Content]

Keyed == [step : {"record", "remove"}, key : Key, request : Request,
          type : DocType, mime : ACCEPTED_MIME_TYPES, content : Content]

Pending == [step : {"purge", "write"}, key : Key, status : Status, read : Row]

ActorsTyped == /\ up \in [Upload -> {Idle} \cup Sending \cup Keyed]
               /\ scan \in [Scan -> {Idle, Over} \cup Pending]

\* An upload carries an item of its checklist, under the type its bytes have.
Wanted ==
  \A u \in Upload : up[u] \in Sending \cup Keyed =>
    up[u].type \in requests[up[u].request].types /\ up[u].mime = up[u].content

\* Its key is its own; no row has it before the insert, and one that got it
\* from an insert that seemed to fail is marked.
KeysAreOwn ==
  \A u \in Upload : up[u] \in Keyed =>
    /\ up[u].key \in used
    /\ \A v \in Upload : up[v] \in Keyed /\ up[v].key = up[u].key => v = u
    /\ up[u].step = "record" => /\ ~documents[up[u].key].made
                                /\ bucket[up[u].key] = up[u].content
    /\ up[u].step = "remove" /\ documents[up[u].key].made => up[u].key \in torn

\* A verdict is about a row.
VerdictsOnRows ==
  \A s \in Scan : scan[s] \in Pending => documents[scan[s].key].made

NothingAsked == \A q \in Request : ~requests[q].made => requests[q].types = {}

IInv == /\ TypeOK /\ ActorsTyped
        /\ Wanted /\ KeysAreOwn /\ VerdictsOnRows /\ NothingAsked
        /\ RowsHaveObjects /\ OrphansAreFaults /\ RowsDescribeObjects

-----------------------------------------------------------------------------
LEMMA Shapes ==
  /\ \A x \in Sending : x \notin Keyed /\ x # Idle /\ x.step = "put"
  /\ \A x \in Keyed : x # Idle /\ x.step \in {"record", "remove"}
  /\ Idle \notin Sending \cup Keyed \cup Pending /\ Idle.step = "idle"
  /\ Over \notin Pending /\ Over.step = "over"
  /\ \A x \in Pending : x.step \in {"purge", "write"}
  /\ NoRow \notin Row /\ ~NoRow.made /\ \A x \in Row : x.made
  /\ NoMime \notin ACCEPTED_MIME_TYPES
<1>1. \A x \in Sending : x \notin Keyed /\ x # Idle /\ x.step = "put"
  BY DEF Sending, Keyed, Idle
<1>2. \A x \in Keyed : x # Idle /\ x.step \in {"record", "remove"}
  BY DEF Keyed, Idle
<1>3. Idle \notin Sending \cup Keyed \cup Pending /\ Idle.step = "idle"
  BY DEF Sending, Keyed, Idle, Pending
<1>4. Over \notin Pending /\ Over.step = "over"  BY DEF Over, Pending
<1>5. \A x \in Pending : x.step \in {"purge", "write"}  BY DEF Pending
<1>6. NoRow \notin Row /\ ~NoRow.made /\ \A x \in Row : x.made
  BY DEF NoRow, Row
<1>7. NoMime \notin ACCEPTED_MIME_TYPES
  BY DEF NoMime, ACCEPTED_MIME_TYPES, HeifFamily
<1> QED  BY <1>1, <1>2, <1>3, <1>4, <1>5, <1>6, <1>7

\* An upload's step says which shape it has.
LEMMA StepIsShape ==
  ASSUME ActorsTyped, NEW u \in Upload
  PROVE  /\ up[u].step = "idle" <=> up[u] = Idle
         /\ up[u].step = "put" <=> up[u] \in Sending
         /\ up[u].step \in {"record", "remove"} <=> up[u] \in Keyed
<1>1. up[u] \in {Idle} \cup Sending \cup Keyed  BY DEF ActorsTyped
<1> QED  BY <1>1, Shapes

-----------------------------------------------------------------------------
(* Requests and downloads *)

LEMMA RequestKeeps ==
  ASSUME IInv, NEW q \in Request, RequestDocuments(q) \/ LinkExpires(q)
  PROVE  IInv'
<1> USE DEF IInv
<1>1. UNCHANGED <<documents, bucket, used, up, scan, down, lost, torn>>
  BY DEF RequestDocuments, LinkExpires
<1>2. /\ requests' \in [Request -> [made : BOOLEAN, open : BOOLEAN,
                                    types : SUBSET DocType]]
      /\ \A p \in Request : /\ requests[p].types \subseteq requests'[p].types
                            /\ ~requests'[p].made => requests'[p].types = {}
  <2>1. CASE RequestDocuments(q)
    BY <2>1 DEF RequestDocuments, TypeOK, NothingAsked
  <2>2. CASE LinkExpires(q)
    <3>1. requests' = [requests EXCEPT ![q] = [requests[q] EXCEPT !.open = FALSE]]
      BY <2>2 DEF LinkExpires
    <3>2. ASSUME NEW old \in [made : BOOLEAN, open : BOOLEAN,
                              types : SUBSET DocType]
          PROVE  LET new == [old EXCEPT !.open = FALSE]
                 IN  /\ new \in [made : BOOLEAN, open : BOOLEAN,
                                 types : SUBSET DocType]
                     /\ new.made = old.made /\ new.types = old.types
      OBVIOUS
    <3>3. requests[q] \in [made : BOOLEAN, open : BOOLEAN, types : SUBSET DocType]
      BY DEF TypeOK
    <3> DEFINE new == [requests[q] EXCEPT !.open = FALSE]
    <3>4. /\ new \in [made : BOOLEAN, open : BOOLEAN, types : SUBSET DocType]
          /\ new.made = requests[q].made /\ new.types = requests[q].types
      BY <3>2, <3>3
    <3>5. requests' = [requests EXCEPT ![q] = new]  BY <3>1
    <3> HIDE DEF new
    <3> QED  BY <3>4, <3>5 DEF TypeOK, NothingAsked
  <2> QED  BY <2>1, <2>2
<1>3. TypeOK'  BY <1>1, <1>2 DEF TypeOK, Live
<1>4. ActorsTyped' /\ KeysAreOwn' /\ VerdictsOnRows'
  BY <1>1 DEF ActorsTyped, KeysAreOwn, VerdictsOnRows
<1>5. Wanted'
  <2>1. \A u \in Upload : up[u] \in Sending \cup Keyed => up[u].request \in Request
    BY DEF Sending, Keyed
  <2> QED  BY <1>1, <1>2, <2>1 DEF Wanted
<1>6. NothingAsked'  BY <1>2 DEF NothingAsked
<1>7. RowsHaveObjects' /\ OrphansAreFaults'
  BY <1>1 DEF RowsHaveObjects, OrphansAreFaults, Live
<1>8. RowsDescribeObjects'
  <2>1. \A k \in Key : documents[k].made => documents[k].request \in Request
    BY Shapes DEF TypeOK, Row
  <2> QED  BY <1>1, <1>2, <2>1 DEF RowsDescribeObjects
<1> QED  BY <1>3, <1>4, <1>5, <1>6, <1>7, <1>8

LEMMA DownloadKeeps ==
  ASSUME IInv, NEW d \in Download, ReadForDownload(d) \/ StorageGet(d)
  PROVE  IInv'
<1> USE DEF IInv
<1>1. UNCHANGED <<requests, documents, bucket, used, up, scan, lost, torn>>
  BY DEF ReadForDownload, StorageGet
<1>2. \A k \in Key : Live(k) => k \in used  BY DEF TypeOK, Live
<1>3. down' \in [Download -> used \cup {NoKey}]
  BY <1>2 DEF ReadForDownload, StorageGet, TypeOK
<1>4. TypeOK'  BY <1>1, <1>3 DEF TypeOK
<1>5. /\ ActorsTyped' /\ Wanted' /\ KeysAreOwn' /\ VerdictsOnRows'
      /\ NothingAsked'
  BY <1>1 DEF ActorsTyped, Wanted, KeysAreOwn, VerdictsOnRows, NothingAsked
<1>6. RowsHaveObjects' /\ OrphansAreFaults' /\ RowsDescribeObjects'
  BY <1>1 DEF RowsHaveObjects, OrphansAreFaults, RowsDescribeObjects, Live
<1> QED  BY <1>4, <1>5, <1>6
-----------------------------------------------------------------------------
(* Uploads *)

Alone(u) == \A v \in Upload \ {u} : up'[v] = up[v]

LEMMA Moves ==
  ASSUME ActorsTyped, NEW u \in Upload, NEW x \in {Idle} \cup Sending \cup Keyed,
         up' = [up EXCEPT ![u] = x], scan' = scan
  PROVE  ActorsTyped' /\ Alone(u) /\ up'[u] = x
  BY DEF ActorsTyped, Alone

\* An upload that touches nobody's key leaves the others as they are.
LEMMA OthersKept ==
  ASSUME IInv, NEW u \in Upload, Alone(u), ActorsTyped',
         requests' = requests, scan' = scan,
         used \subseteq used', torn \subseteq torn',
         \A k \in Key : documents[k].made => documents'[k].made,
         \A v \in Upload \ {u} : up[v] \in Keyed =>
           /\ documents'[up[v].key] = documents[up[v].key]
           /\ bucket'[up[v].key] = bucket[up[v].key],
         up'[u] \in Sending \cup Keyed =>
           /\ up'[u].type \in requests[up'[u].request].types
           /\ up'[u].mime = up'[u].content,
         up'[u] \in Keyed =>
           /\ up'[u].key \in used'
           /\ \A v \in Upload \ {u} : up[v] \in Keyed => up[v].key # up'[u].key
           /\ up'[u].step = "record" => /\ ~documents'[up'[u].key].made
                                        /\ bucket'[up'[u].key] = up'[u].content
           /\ up'[u].step = "remove" /\ documents'[up'[u].key].made =>
                up'[u].key \in torn'
  PROVE  Wanted' /\ KeysAreOwn' /\ VerdictsOnRows' /\ NothingAsked'
<1> USE DEF IInv
<1>1. Wanted'  BY DEF Wanted, Alone
<1>2. KeysAreOwn'
  <2> SUFFICES ASSUME NEW v \in Upload, up'[v] \in Keyed
      PROVE  /\ up'[v].key \in used'
             /\ \A w \in Upload :
                  up'[w] \in Keyed /\ up'[w].key = up'[v].key => w = v
             /\ up'[v].step = "record" => /\ ~documents'[up'[v].key].made
                                          /\ bucket'[up'[v].key] = up'[v].content
             /\ up'[v].step = "remove" /\ documents'[up'[v].key].made =>
                  up'[v].key \in torn'
    BY DEF KeysAreOwn
  <2>1. CASE v = u  BY <2>1 DEF Alone
  <2>2. CASE v # u
    <3>1. up'[v] = up[v] /\ up[v] \in Keyed  BY <2>2 DEF Alone
    <3>2. /\ up[v].key \in used
          /\ \A w \in Upload :
               up[w] \in Keyed /\ up[w].key = up[v].key => w = v
          /\ up[v].step = "record" => /\ ~documents[up[v].key].made
                                      /\ bucket[up[v].key] = up[v].content
          /\ up[v].step = "remove" /\ documents[up[v].key].made =>
               up[v].key \in torn
      BY <3>1 DEF KeysAreOwn
    <3>3. /\ documents'[up[v].key] = documents[up[v].key]
          /\ bucket'[up[v].key] = bucket[up[v].key]
      BY <2>2, <3>1
    <3>4. ASSUME NEW w \in Upload, up'[w] \in Keyed, up'[w].key = up'[v].key
          PROVE  w = v
      <4>1. CASE w = u  BY <2>2, <3>1, <3>4, <4>1
      <4>2. CASE w # u  BY <3>1, <3>2, <3>4, <4>2 DEF Alone
      <4> QED  BY <4>1, <4>2
    <3> QED  BY <3>1, <3>2, <3>3, <3>4
  <2> QED  BY <2>1, <2>2
<1>3. VerdictsOnRows'
  <2>1. \A s \in Scan : scan[s] \in Pending => scan[s].key \in Key
    BY DEF Pending
  <2> QED  BY <2>1 DEF VerdictsOnRows
<1>4. NothingAsked'  BY DEF NothingAsked
<1> QED  BY <1>1, <1>2, <1>3, <1>4

LEMMA AcceptKeeps ==
  ASSUME IInv, NEW u \in Upload, UploadForRequest(u)
  PROVE  IInv' /\ documents' = documents
<1> USE DEF IInv
<1>1. PICK q \in Request, declared \in Declared, content \in Content :
        \E type \in requests[q].types :
          /\ Acceptable(declared, content) /\ HasRoom(q)
          /\ Accept(u, q, type, sniffMimeType(content), content)
  BY DEF UploadForRequest
<1>2. PICK type \in requests[q].types :
        /\ Acceptable(declared, content)
        /\ Accept(u, q, type, sniffMimeType(content), content)
  BY <1>1
<1>3. sniffMimeType(content) = content /\ content \in ACCEPTED_MIME_TYPES
  BY <1>2 DEF Acceptable, sniffMimeType
<1>4. type \in DocType  BY DEF TypeOK
<1> DEFINE sent == [step |-> "put", request |-> q, type |-> type,
                    mime |-> content, content |-> content]
<1>5. /\ up[u].step = "idle"
      /\ up' = [up EXCEPT ![u] = sent]
      /\ UNCHANGED <<requests, documents, bucket, used, scan, down, lost, torn>>
  BY <1>2, <1>3 DEF Accept
<1>6. /\ sent \in Sending /\ sent.type = type /\ sent.request = q
      /\ sent.mime = sent.content
  BY <1>3, <1>4 DEF Sending
<1> HIDE DEF sent
<1>7. ActorsTyped' /\ Alone(u) /\ up'[u] = sent
  BY <1>5, <1>6 DEF ActorsTyped, Alone
<1>8. Wanted' /\ KeysAreOwn' /\ VerdictsOnRows' /\ NothingAsked'
  <2>1. sent \notin Keyed  BY <1>6, Shapes
  <2> QED  BY <1>5, <1>6, <1>7, <2>1, OthersKept
<1>9. TypeOK'  BY <1>5 DEF TypeOK
<1>10. RowsHaveObjects' /\ RowsDescribeObjects'
  BY <1>5 DEF RowsHaveObjects, RowsDescribeObjects, Live
<1>11. OrphansAreFaults'
  <2>1. up[u].step \notin {"record", "remove"}  BY <1>5
  <2> QED  BY <1>5, <1>7, <2>1 DEF OrphansAreFaults, Alone
<1> QED  BY <1>5, <1>7, <1>8, <1>9, <1>10, <1>11

\* The object is stored under a new key, and the answer comes or does not.
LEMMA PutKeeps ==
  ASSUME IInv, NEW u \in Upload, Put(u) \/ PutFails(u)
  PROVE  IInv' /\ documents' = documents
<1> USE DEF IInv
<1>1. /\ up[u].step = "put" /\ up[u] \in Sending
      /\ UNCHANGED <<requests, documents, scan, down, torn>>
  BY StepIsShape DEF Put, PutFails
<1>2. /\ up[u].type \in requests[up[u].request].types
      /\ up[u].mime = up[u].content /\ up[u].content \in Content
      /\ up[u].content \in ACCEPTED_MIME_TYPES
  BY <1>1 DEF Wanted, Sending
<1>3. CASE PutFails(u) /\ UNCHANGED <<used, bucket, lost>>
  <2>1. ActorsTyped' /\ Alone(u) /\ up'[u] = Idle
    BY <1>3 DEF PutFails, ActorsTyped, Alone
  <2>2. Wanted' /\ KeysAreOwn' /\ VerdictsOnRows' /\ NothingAsked'
    BY <1>1, <1>3, <2>1, Shapes, OthersKept
  <2>3. TypeOK'  BY <1>1, <1>3 DEF TypeOK
  <2>4. RowsHaveObjects' /\ RowsDescribeObjects'
    BY <1>1, <1>3 DEF RowsHaveObjects, RowsDescribeObjects, Live
  <2>5. OrphansAreFaults'
    BY <1>1, <1>3, <2>1 DEF OrphansAreFaults, Alone
  <2> QED  BY <1>1, <2>1, <2>2, <2>3, <2>4, <2>5
<1>4. ASSUME NEW k \in Key \ used, used' = used \cup {k},
             bucket' = [bucket EXCEPT ![k] = up[u].content],
             \/ up' = [up EXCEPT ![u] = WithKey(u, k)] /\ lost' = lost
             \/ up' = [up EXCEPT ![u] = Idle] /\ lost' = lost \cup {k}
      PROVE  IInv'
  <2>1. /\ WithKey(u, k) \in Keyed /\ WithKey(u, k).step = "record"
        /\ WithKey(u, k).key = k /\ WithKey(u, k).content = up[u].content
        /\ WithKey(u, k).mime = up[u].mime /\ WithKey(u, k).type = up[u].type
        /\ WithKey(u, k).request = up[u].request
    BY <1>1 DEF WithKey, Keyed, Sending
  <2>2. /\ ActorsTyped' /\ Alone(u)
        /\ up'[u] = WithKey(u, k) \/ (up'[u] = Idle /\ k \in lost')
        /\ lost \subseteq lost' /\ lost' \subseteq lost \cup {k}
    <3>1. CASE up' = [up EXCEPT ![u] = WithKey(u, k)] /\ lost' = lost
      <4>1. WithKey(u, k) \in {Idle} \cup Sending \cup Keyed  BY <2>1
      <4>2. ActorsTyped' /\ Alone(u) /\ up'[u] = WithKey(u, k)
        BY <1>1, <3>1, <4>1, Moves
      <4> QED  BY <3>1, <4>2
    <3>2. CASE up' = [up EXCEPT ![u] = Idle] /\ lost' = lost \cup {k}
      BY <1>1, <3>2, Moves
    <3> QED  BY <1>4, <3>1, <3>2
  <2>3. /\ ~documents[k].made /\ bucket'[k] = up[u].content
        /\ \A z \in Key \ {k} : bucket'[z] = bucket[z]
    BY <1>4 DEF TypeOK
  <2>4. \A v \in Upload : up[v] \in Keyed => up[v].key \in used /\ up[v].key \in Key
    BY DEF KeysAreOwn, TypeOK
  <2>5. Wanted' /\ KeysAreOwn' /\ VerdictsOnRows' /\ NothingAsked'
    <3>1. \A v \in Upload \ {u} : up[v] \in Keyed =>
            /\ documents'[up[v].key] = documents[up[v].key]
            /\ bucket'[up[v].key] = bucket[up[v].key]
            /\ up[v].key # k
      BY <1>1, <1>4, <2>3, <2>4
    <3>2. CASE up'[u] = WithKey(u, k)
      BY <1>1, <1>2, <1>4, <2>1, <2>2, <2>3, <3>1, <3>2, OthersKept
    <3>3. CASE up'[u] = Idle
      BY <1>1, <1>4, <2>2, <2>3, <3>1, <3>3, Shapes, OthersKept
    <3> QED  BY <2>2, <3>2, <3>3
  <2>6. TypeOK'
    <3>1. bucket' \in [Key -> Content \cup {NoMime}]
      BY <1>2, <1>4 DEF TypeOK
    <3>2. /\ used' \subseteq Key /\ down \in [Download -> used' \cup {NoKey}]
          /\ lost' \cup torn \subseteq used'
          /\ \A z \in Key : documents[z].made \/ bucket'[z] # NoMime => z \in used'
      BY <1>4, <2>2, <2>3 DEF TypeOK
    <3> QED  BY <1>1, <3>1, <3>2 DEF TypeOK
  <2>7. RowsHaveObjects' /\ RowsDescribeObjects'
    BY <1>1, <2>3 DEF RowsHaveObjects, RowsDescribeObjects, Live
  <2>8. OrphansAreFaults'
    <3> SUFFICES ASSUME NEW z \in Key, bucket'[z] # NoMime, ~documents[z].made
        PROVE  \/ z \in lost'
               \/ \E v \in Upload : /\ up'[v].step \in {"record", "remove"}
                                    /\ up'[v].key = z
      BY <1>1 DEF OrphansAreFaults
    <3>1. CASE z = k  BY <2>1, <2>2, <3>1
    <3>2. CASE z # k
      <4>1. \/ z \in lost
            \/ \E v \in Upload : /\ up[v].step \in {"record", "remove"}
                                 /\ up[v].key = z
        BY <2>3, <3>2 DEF OrphansAreFaults
      <4> QED  BY <1>1, <2>2, <4>1 DEF Alone
    <3> QED  BY <3>1, <3>2
  <2> QED  BY <2>2, <2>5, <2>6, <2>7, <2>8
<1> QED  BY <1>1, <1>3, <1>4 DEF Put, PutFails
\* The row is inserted, and the answer comes or does not.
LEMMA InsertKeeps ==
  ASSUME IInv, NEW u \in Upload, RecordUpload(u) \/ RecordFails(u)
  PROVE  /\ IInv'
         /\ \A k \in Key : documents[k].made => documents'[k] = documents[k]
<1> USE DEF IInv
<1> DEFINE k     == up[u].key
           later == [up[u] EXCEPT !.step = "remove"]
<1>1. /\ up[u].step = "record" /\ up[u] \in Keyed
      /\ UNCHANGED <<requests, bucket, used, scan, down, lost>>
  BY StepIsShape DEF RecordUpload, RecordFails
<1>2. /\ k \in Key /\ k \in used /\ ~documents[k].made
      /\ bucket[k] = up[u].content /\ up[u].mime = up[u].content
      /\ up[u].mime \in ACCEPTED_MIME_TYPES
      /\ up[u].request \in Request /\ up[u].type \in DocType
      /\ up[u].type \in requests[up[u].request].types
      /\ \A v \in Upload \ {u} : up[v] \in Keyed => up[v].key # k
  BY <1>1 DEF KeysAreOwn, Wanted, Keyed
<1>3. /\ NewRow(u) \in Row /\ NewRow(u).made /\ ~NewRow(u).deleted
      /\ NewRow(u).request = up[u].request /\ NewRow(u).type = up[u].type
      /\ NewRow(u).mime = up[u].mime
  BY <1>2 DEF NewRow, Row, Status
<1>4. /\ later \in Keyed /\ later.step = "remove" /\ later.key = k
      /\ later.type = up[u].type /\ later.request = up[u].request
      /\ later.mime = up[u].mime /\ later.content = up[u].content
  <2>1. ASSUME NEW x \in Keyed
        PROVE  LET y == [x EXCEPT !.step = "remove"]
               IN  /\ y \in Keyed /\ y.step = "remove" /\ y.key = x.key
                   /\ y.type = x.type /\ y.request = x.request
                   /\ y.mime = x.mime /\ y.content = x.content
    BY DEF Keyed
  <2> QED  BY <1>1, <2>1
<1>5. /\ \/ documents' = [documents EXCEPT ![k] = NewRow(u)]
         \/ documents' = documents /\ up' = [up EXCEPT ![u] = later] /\ torn' = torn
      /\ \/ up' = [up EXCEPT ![u] = Idle] /\ torn' = torn
         \/ /\ up' = [up EXCEPT ![u] = later]
            /\ \/ torn' = torn /\ documents' = documents
               \/ torn' = torn \cup {k}
  BY <1>1 DEF RecordUpload, RecordFails
<1> HIDE DEF later
<1>6. /\ ActorsTyped' /\ Alone(u) /\ up'[u] \in {Idle, later}
      /\ up'[u] = Idle => documents' = [documents EXCEPT ![k] = NewRow(u)]
  <2>1. CASE up' = [up EXCEPT ![u] = Idle]
    <3>1. Idle \in {Idle} \cup Sending \cup Keyed  OBVIOUS
    <3>2. ActorsTyped' /\ Alone(u) /\ up'[u] = Idle  BY <1>1, <2>1, <3>1, Moves
    <3>3. up' # [up EXCEPT ![u] = later]
      BY <1>4, <2>1, Shapes DEF ActorsTyped
    <3> QED  BY <1>5, <3>2, <3>3
  <2>2. CASE up' = [up EXCEPT ![u] = later]
    <3>1. later \in {Idle} \cup Sending \cup Keyed  BY <1>4
    <3>2. ActorsTyped' /\ Alone(u) /\ up'[u] = later  BY <1>1, <2>2, <3>1, Moves
    <3> QED  BY <1>4, <3>2, Shapes
  <2> QED  BY <1>5, <2>1, <2>2
<1>7. /\ documents' \in [Key -> Row \cup {NoRow}]
      /\ \A z \in Key \ {k} : documents'[z] = documents[z]
      /\ documents'[k] \in {documents[k], NewRow(u)}
      /\ up'[u] = Idle => documents'[k] = NewRow(u)
      /\ torn \subseteq torn' /\ torn' \subseteq torn \cup {k}
      /\ up'[u] = later /\ documents'[k] # documents[k] => k \in torn'
  <2>1. CASE documents' = documents
    <3>1. up'[u] # Idle
      BY <1>2, <1>3, <1>6, <2>1 DEF TypeOK
    <3> QED  BY <1>5, <1>6, <2>1, <3>1 DEF TypeOK
  <2>2. CASE documents' = [documents EXCEPT ![k] = NewRow(u)]
    <3>1. documents' # documents  BY <1>2, <1>3, <2>2 DEF TypeOK
    <3>2. torn \subseteq torn' /\ torn' \subseteq torn \cup {k}  BY <1>5
    <3>3. up'[u] = later => k \in torn'
      <4>1. CASE up' = [up EXCEPT ![u] = Idle]
        BY <1>4, <4>1, Shapes DEF ActorsTyped
      <4>2. CASE up' # [up EXCEPT ![u] = Idle]  BY <1>5, <3>1, <4>2
      <4> QED  BY <4>1, <4>2
    <3>4. /\ documents' \in [Key -> Row \cup {NoRow}]
          /\ \A z \in Key \ {k} : documents'[z] = documents[z]
          /\ documents'[k] = NewRow(u)
      BY <1>2, <1>3, <2>2 DEF TypeOK
    <3> QED  BY <3>2, <3>3, <3>4
  <2> QED  BY <1>5, <2>1, <2>2
<1>8. \A z \in Key : documents[z].made => documents'[z] = documents[z]
  BY <1>2, <1>7
<1> HIDE DEF k
<1>9. Wanted' /\ KeysAreOwn' /\ VerdictsOnRows' /\ NothingAsked'
  <2>1. \A v \in Upload \ {u} : up[v] \in Keyed =>
          /\ documents'[up[v].key] = documents[up[v].key]
          /\ bucket'[up[v].key] = bucket[up[v].key]
          /\ up[v].key # k
    <3>1. \A v \in Upload : up[v] \in Keyed => up[v].key \in Key  BY DEF Keyed
    <3> QED  BY <1>1, <1>2, <1>7, <3>1
  <2>2. CASE up'[u] = Idle
    BY <1>1, <1>6, <1>7, <1>8, <2>1, <2>2, Shapes, OthersKept
  <2>3. CASE up'[u] = later
    <3>1. documents'[k].made => k \in torn'  BY <1>2, <1>7, <2>3
    <3> QED  BY <1>1, <1>2, <1>4, <1>6, <1>7, <1>8, <2>1, <2>3, <3>1, OthersKept
  <2> QED  BY <1>6, <2>2, <2>3
<1>10. TypeOK'
  <2>1. \A z \in Key : documents'[z].made \/ bucket[z] # NoMime => z \in used
    BY <1>2, <1>7 DEF TypeOK
  <2>2. lost \cup torn' \subseteq used  BY <1>2, <1>7 DEF TypeOK
  <2> QED  BY <1>1, <1>7, <2>1, <2>2 DEF TypeOK
<1>11. RowsHaveObjects'
  <2>1. bucket[k] # NoMime  BY <1>2, Shapes
  <2> QED  BY <1>1, <1>7, <2>1 DEF RowsHaveObjects, Live
<1>12. RowsDescribeObjects'
  BY <1>1, <1>2, <1>3, <1>7 DEF RowsDescribeObjects
<1>13. OrphansAreFaults'
  <2> SUFFICES ASSUME NEW z \in Key, bucket[z] # NoMime, ~documents'[z].made
      PROVE  \/ z \in lost
             \/ \E v \in Upload : /\ up'[v].step \in {"record", "remove"}
                                  /\ up'[v].key = z
    BY <1>1 DEF OrphansAreFaults
  <2>1. CASE z = k
    <3>1. up'[u] = later  BY <1>3, <1>6, <1>7, <2>1
    <3> QED  BY <1>4, <2>1, <3>1
  <2>2. CASE z # k
    <3>1. \/ z \in lost
          \/ \E v \in Upload : /\ up[v].step \in {"record", "remove"}
                               /\ up[v].key = z
      BY <1>7, <2>2 DEF OrphansAreFaults
    <3>2. \A v \in Upload : up[v].key = z => v # u  BY <2>2 DEF k
    <3> QED  BY <1>6, <3>1, <3>2 DEF Alone
  <2> QED  BY <2>1, <2>2
<1> QED  BY <1>6, <1>8, <1>9, <1>10, <1>11, <1>12, <1>13

\* The object is removed after a failed insert, or left behind; or the process
\* ends at any point of an upload.
LEMMA AbandonKeeps ==
  ASSUME IInv, NEW u \in Upload, RemoveAfterFailure(u) \/ UploadDies(u)
  PROVE  IInv' /\ documents' = documents
<1> USE DEF IInv
<1>1. /\ up' = [up EXCEPT ![u] = Idle]
      /\ UNCHANGED <<requests, documents, used, scan, down, torn>>
  BY DEF RemoveAfterFailure, UploadDies
<1>2. ActorsTyped' /\ Alone(u) /\ up'[u] = Idle
  <2>1. Idle \in {Idle} \cup Sending \cup Keyed  OBVIOUS
  <2> QED  BY <1>1, <2>1, Moves
<1>3. /\ lost \subseteq lost' /\ lost' \subseteq lost \cup Rowless(u)
      /\ \/ /\ bucket' = bucket
            /\ up[u].step \in {"record", "remove"} => Rowless(u) \subseteq lost'
         \/ /\ up[u].step = "remove" /\ up[u] \in Keyed
            /\ bucket' = [bucket EXCEPT ![up[u].key] = NoMime]
  BY StepIsShape DEF RemoveAfterFailure, UploadDies
<1>4. /\ \A z \in Key : bucket'[z] \in {bucket[z], NoMime}
      /\ \A z \in Key : bucket'[z] # bucket[z] =>
           /\ up[u] \in Keyed /\ up[u].key = z
           /\ documents[z].made => z \in torn
      /\ bucket' \in [Key -> Content \cup {NoMime}]
  <2>1. CASE bucket' = bucket  BY <2>1 DEF TypeOK
  <2>2. CASE /\ up[u].step = "remove" /\ up[u] \in Keyed
             /\ bucket' = [bucket EXCEPT ![up[u].key] = NoMime]
    BY <2>2 DEF TypeOK, KeysAreOwn
  <2> QED  BY <1>3, <2>1, <2>2
<1>5. Wanted' /\ KeysAreOwn' /\ VerdictsOnRows' /\ NothingAsked'
  <2>1. \A v \in Upload \ {u} : up[v] \in Keyed =>
          /\ documents'[up[v].key] = documents[up[v].key]
          /\ bucket'[up[v].key] = bucket[up[v].key]
    <3>1. \A v \in Upload : up[v] \in Keyed => up[v].key \in Key  BY DEF Keyed
    <3> QED  BY <1>1, <1>4, <3>1 DEF KeysAreOwn
  <2> QED  BY <1>1, <1>2, <2>1, Shapes, OthersKept
<1>6. TypeOK'
  <2>1. \A z \in Key : documents[z].made \/ bucket'[z] # NoMime => z \in used
    BY <1>4 DEF TypeOK
  <2>2. up[u].step \in {"record", "remove"} => Rowless(u) \subseteq used
    BY StepIsShape DEF Rowless, KeysAreOwn
  <2>3. lost' \cup torn \subseteq used
    BY <1>1, <2>2 DEF TypeOK, RemoveAfterFailure, UploadDies
  <2> QED  BY <1>1, <1>4, <2>1, <2>3 DEF TypeOK
<1>7. RowsHaveObjects'  BY <1>1, <1>4 DEF RowsHaveObjects, Live
<1>8. RowsDescribeObjects'  BY <1>1, <1>4 DEF RowsDescribeObjects
<1>9. OrphansAreFaults'
  <2> SUFFICES ASSUME NEW z \in Key, bucket'[z] # NoMime, ~documents[z].made
      PROVE  \/ z \in lost'
             \/ \E v \in Upload : /\ up'[v].step \in {"record", "remove"}
                                  /\ up'[v].key = z
    BY <1>1 DEF OrphansAreFaults
  <2>1. bucket'[z] = bucket[z]  BY <1>4
  <2>2. CASE z \in lost  BY <1>3, <2>2
  <2>3. ASSUME NEW v \in Upload, up[v].step \in {"record", "remove"}, up[v].key = z
        PROVE  \/ z \in lost'
               \/ \E w \in Upload : /\ up'[w].step \in {"record", "remove"}
                                    /\ up'[w].key = z
    <3>1. CASE v # u  BY <1>2, <2>3, <3>1 DEF Alone
    <3>2. CASE v = u
      <4>1. z \in Rowless(u)  BY <2>3, <3>2 DEF Rowless
      <4>3. Rowless(u) \subseteq lost'
        <5>1. \/ bucket' = [bucket EXCEPT ![up[u].key] = NoMime]
              \/ Rowless(u) \subseteq lost'
          BY <1>3, <2>3, <3>2
        <5>2. bucket' # [bucket EXCEPT ![up[u].key] = NoMime]
          BY <2>3, <3>2 DEF TypeOK
        <5> QED  BY <5>1, <5>2
      <4> QED  BY <4>1, <4>3
    <3> QED  BY <3>1, <3>2
  <2> QED  BY <2>1, <2>2, <2>3 DEF OrphansAreFaults
<1> QED  BY <1>1, <1>2, <1>5, <1>6, <1>7, <1>8, <1>9
-----------------------------------------------------------------------------
(* Verdicts *)

\* recordScanResult writes the columns in which the verdict differs from the
\* row it read: a deletion is only ever written, not undone.
Changed(now, read, verdict) ==
  [c \in DOMAIN now |-> IF verdict[c] # read[c] THEN verdict[c] ELSE now[c]]

Judged(read, status, gone) == [read EXCEPT !.status = status, !.deleted = gone]

LEMMA WrittenVerdict ==
  ASSUME NEW now \in Row, NEW read \in Row, NEW status \in Status,
         NEW gone \in BOOLEAN, read.deleted => gone,
         NEW verdict, verdict = Judged(read, status, gone),
         NEW new, new = Changed(now, read, verdict)
  PROVE  /\ new \in Row /\ new.made
         /\ new.request = now.request /\ new.type = now.type
         /\ new.mime = now.mime
         /\ now.deleted => new.deleted
<1>1. /\ verdict.made = read.made /\ verdict.request = read.request
      /\ verdict.type = read.type /\ verdict.mime = read.mime
      /\ verdict.status = status /\ verdict.deleted = gone
  BY DEF Row, Judged
<1>2. DOMAIN now = {"made", "request", "type", "mime", "status", "deleted"}
  BY DEF Row
<1>3. /\ new.made = now.made /\ new.request = now.request
      /\ new.type = now.type /\ new.mime = now.mime
      /\ new.status = (IF status # read.status THEN status ELSE now.status)
      /\ new.deleted = (IF gone # read.deleted THEN gone ELSE now.deleted)
  BY <1>1, <1>2 DEF Changed
<1>4. new.deleted \in BOOLEAN /\ (now.deleted => new.deleted)
  BY <1>3 DEF Row
<1>5. new = [made |-> now.made, request |-> now.request, type |-> now.type,
             mime |-> now.mime, status |-> new.status, deleted |-> new.deleted]
  BY <1>2, <1>3 DEF Changed
<1>6. new.status \in Status  BY <1>3 DEF Row
<1>7. now.made = TRUE  BY DEF Row
<1>8. new \in Row
  <2>1. /\ now.made \in {TRUE} /\ now.request \in Request /\ now.type \in DocType
        /\ now.mime \in ACCEPTED_MIME_TYPES
    BY DEF Row
  <2>2. \A st \in Status, del \in BOOLEAN :
          [made |-> now.made, request |-> now.request, type |-> now.type,
           mime |-> now.mime, status |-> st, deleted |-> del] \in Row
    BY <2>1 DEF Row
  <2> QED  BY <1>4, <1>5, <1>6, <2>2
<1> QED  BY <1>3, <1>4, <1>7, <1>8

\* A verdict moves no upload, makes no row, and marks the object it takes.
LEMMA VerdictFrame ==
  ASSUME IInv, UNCHANGED <<requests, used, up, down, lost>>,
         documents' \in [Key -> Row \cup {NoRow}],
         \A k \in Key : ~documents[k].made => documents'[k] = documents[k],
         \A k \in Key : documents[k].made =>
           /\ documents'[k].made
           /\ documents'[k].request = documents[k].request
           /\ documents'[k].type = documents[k].type
           /\ documents'[k].mime = documents[k].mime
           /\ documents[k].deleted => documents'[k].deleted,
         bucket' \in [Key -> Content \cup {NoMime}],
         torn \subseteq torn', torn' \subseteq used,
         \A k \in Key : \/ bucket'[k] = bucket[k]
                        \/ bucket'[k] = NoMime /\ documents[k].made /\ k \in torn',
         scan' \in [Scan -> {Idle, Over} \cup Pending],
         \A s \in Scan : scan'[s] \in Pending => documents[scan'[s].key].made
  PROVE  IInv'
<1> USE DEF IInv
<1>1. TypeOK'
  <2>1. \A k \in Key : documents'[k].made \/ bucket'[k] # NoMime => k \in used
    BY DEF TypeOK
  <2> QED  BY <2>1 DEF TypeOK
<1>2. ActorsTyped' /\ Wanted' /\ NothingAsked'
  BY DEF ActorsTyped, Wanted, NothingAsked
<1>3. KeysAreOwn'
  <2> SUFFICES ASSUME NEW u \in Upload, up[u] \in Keyed
      PROVE  /\ up[u].step = "record" => /\ ~documents'[up[u].key].made
                                         /\ bucket'[up[u].key] = up[u].content
             /\ up[u].step = "remove" /\ documents'[up[u].key].made =>
                  up[u].key \in torn'
    BY DEF KeysAreOwn
  <2>1. up[u].key \in Key  BY DEF Keyed
  <2> QED  BY <2>1 DEF KeysAreOwn
<1>4. VerdictsOnRows'
  <2>1. \A s \in Scan : scan'[s] \in Pending => scan'[s].key \in Key
    BY DEF Pending
  <2> QED  BY <2>1 DEF VerdictsOnRows
<1>5. RowsHaveObjects'  BY DEF RowsHaveObjects, Live
<1>6. OrphansAreFaults'  BY DEF OrphansAreFaults
<1>7. RowsDescribeObjects'  BY DEF RowsDescribeObjects
<1> QED  BY <1>1, <1>2, <1>3, <1>4, <1>5, <1>6, <1>7

LEMMA ScanKeeps ==
  ASSUME IInv, NEW s \in Scan, Scanning(s)
  PROVE  /\ IInv'
         /\ \A k \in Key : ~documents[k].made => documents'[k] = documents[k]
         /\ \A k \in Key : documents[k].made =>
              /\ documents'[k].request = documents[k].request
              /\ documents[k].deleted => documents'[k].deleted
<1> USE DEF IInv
<1>1. scan[s] \in {Idle, Over} \cup Pending  BY DEF ActorsTyped
<1>2. UNCHANGED <<requests, used, up, down, lost>>
  BY DEF Scanning, ReadForVerdict, Purge, RecordScanResult, ScanDies
<1>3. ASSUME NEW x \in {Over} \cup Pending, scan' = [scan EXCEPT ![s] = x],
             x \in Pending => documents[x.key].made
      PROVE  /\ scan' \in [Scan -> {Idle, Over} \cup Pending]
             /\ \A z \in Scan : scan'[z] \in Pending => documents[scan'[z].key].made
  BY <1>3 DEF ActorsTyped, VerdictsOnRows
<1>4. /\ documents \in [Key -> Row \cup {NoRow}]
      /\ bucket \in [Key -> Content \cup {NoMime}] /\ torn \subseteq used
  BY DEF TypeOK
<1>5. CASE ReadForVerdict(s)
  <2>1. PICK k \in Key, status \in Status :
          /\ documents[k].made
          /\ scan' = [scan EXCEPT ![s] =
                        [step |-> IF status = "infected" THEN "purge" ELSE "write",
                         key |-> k, status |-> status, read |-> documents[k]]]
    BY <1>5 DEF ReadForVerdict
  <2> DEFINE x == [step |-> IF status = "infected" THEN "purge" ELSE "write",
                   key |-> k, status |-> status, read |-> documents[k]]
  <2>2. x \in Pending /\ x.key = k
    BY <2>1, <1>4, Shapes DEF Pending
  <2> HIDE DEF x
  <2>3. /\ scan' \in [Scan -> {Idle, Over} \cup Pending]
        /\ \A z \in Scan : scan'[z] \in Pending => documents[scan'[z].key].made
    BY <1>3, <2>1, <2>2 DEF x
  <2>4. UNCHANGED <<documents, bucket, torn>>  BY <1>5 DEF ReadForVerdict
  <2> QED  BY <1>2, <1>4, <2>3, <2>4, VerdictFrame
<1>6. CASE Purge(s)
  <2> DEFINE k == scan[s].key
             x == [scan[s] EXCEPT !.step = "write"]
  <2>1. scan[s] \in Pending  BY <1>1, <1>6, Shapes DEF Purge
  <2>2. k \in Key /\ documents[k].made /\ k \in used
    BY <2>1 DEF Pending, VerdictsOnRows, TypeOK
  <2>3. x \in Pending /\ x.key = k  BY <2>1 DEF Pending
  <2>4. scan' = [scan EXCEPT ![s] = x]  BY <1>6 DEF Purge
  <2> HIDE DEF x
  <2>5. /\ scan' \in [Scan -> {Idle, Over} \cup Pending]
        /\ \A z \in Scan : scan'[z] \in Pending => documents[scan'[z].key].made
    BY <1>3, <2>2, <2>3, <2>4
  <2>6. /\ documents' = documents
        /\ \/ bucket' = [bucket EXCEPT ![k] = NoMime] /\ torn' = torn \cup {k}
           \/ bucket' = bucket /\ torn' = torn
    BY <1>6 DEF Purge
  <2> HIDE DEF k
  <2>7. /\ bucket' \in [Key -> Content \cup {NoMime}]
        /\ torn \subseteq torn' /\ torn' \subseteq used
        /\ \A z \in Key :
             \/ bucket'[z] = bucket[z]
             \/ bucket'[z] = NoMime /\ documents[z].made /\ z \in torn'
    BY <1>4, <2>2, <2>6
  <2> QED  BY <1>2, <1>4, <2>5, <2>6, <2>7, VerdictFrame
<1>7. CASE RecordScanResult(s)
  <2> DEFINE k   == scan[s].key
             now == documents[k]
             new == [c \in DOMAIN now |-> IF Verdict(s)[c] # scan[s].read[c]
                                          THEN Verdict(s)[c] ELSE now[c]]
  <2>1. scan[s] \in Pending  BY <1>1, <1>7, Shapes DEF RecordScanResult
  <2>2. k \in Key /\ now.made /\ now \in Row
    BY <1>4, <2>1, Shapes DEF Pending, VerdictsOnRows
  <2>3. scan[s].read \in Row /\ scan[s].status \in Status  BY <2>1 DEF Pending
  <2>4. /\ new \in Row /\ new.made
        /\ new.request = now.request /\ new.type = now.type
        /\ new.mime = now.mime
        /\ now.deleted => new.deleted
    <3> DEFINE read    == scan[s].read
               gone    == read.deleted \/ scan[s].status = "infected"
               verdict == Verdict(s)
    <3>1. gone \in BOOLEAN /\ (read.deleted => gone)  OBVIOUS
    <3>2. verdict = Judged(read, scan[s].status, gone)
      BY DEF Verdict, Judged
    <3>3. new = Changed(now, read, verdict)  BY DEF Changed
    <3>4. read \in Row /\ now \in Row /\ scan[s].status \in Status
      BY <2>2, <2>3
    <3> HIDE DEF gone, verdict, new, now, read
    <3> QED  BY <3>1, <3>2, <3>3, <3>4, WrittenVerdict
  <2>5. /\ documents' = [documents EXCEPT ![k] = new]
        /\ scan' = [scan EXCEPT ![s] = Over]
        /\ UNCHANGED <<bucket, torn>>
    BY <1>7 DEF RecordScanResult
  <2>6. /\ scan' \in [Scan -> {Idle, Over} \cup Pending]
        /\ \A z \in Scan : scan'[z] \in Pending => documents[scan'[z].key].made
    BY <1>3, <2>5, Shapes
  <2> HIDE DEF new
  <2>7. /\ documents' \in [Key -> Row \cup {NoRow}]
        /\ documents'[k] = new
        /\ \A z \in Key \ {k} : documents'[z] = documents[z]
    BY <1>4, <2>2, <2>4, <2>5
  <2>8. /\ \A z \in Key : ~documents[z].made => documents'[z] = documents[z]
        /\ \A z \in Key : documents[z].made =>
             /\ documents'[z].made
             /\ documents'[z].request = documents[z].request
             /\ documents'[z].type = documents[z].type
             /\ documents'[z].mime = documents[z].mime
             /\ documents[z].deleted => documents'[z].deleted
    BY <2>2, <2>4, <2>7
  <2> QED  BY <1>2, <1>4, <2>5, <2>6, <2>7, <2>8, VerdictFrame
<1>8. CASE ScanDies(s)
  <2>1. /\ scan' = [scan EXCEPT ![s] = Over]
        /\ UNCHANGED <<documents, bucket, torn>>
    BY <1>8 DEF ScanDies
  <2>2. /\ scan' \in [Scan -> {Idle, Over} \cup Pending]
        /\ \A z \in Scan : scan'[z] \in Pending => documents[scan'[z].key].made
    BY <1>3, <2>1, Shapes
  <2> QED  BY <1>2, <1>4, <2>1, <2>2, VerdictFrame
<1> QED  BY <1>5, <1>6, <1>7, <1>8 DEF Scanning

-----------------------------------------------------------------------------
(* The theorems *)

LEMMA IInvInit == Init => IInv
<1> SUFFICES ASSUME Init  PROVE IInv  OBVIOUS
<1>1. TypeOK  BY Shapes DEF Init, TypeOK, NoRequest, NoRow
<1>2. ActorsTyped /\ Wanted /\ KeysAreOwn /\ VerdictsOnRows
  BY Shapes DEF Init, ActorsTyped, Wanted, KeysAreOwn, VerdictsOnRows
<1>3. NothingAsked  BY DEF Init, NothingAsked, NoRequest
<1>4. RowsHaveObjects /\ OrphansAreFaults /\ RowsDescribeObjects
  BY Shapes DEF Init, RowsHaveObjects, OrphansAreFaults, RowsDescribeObjects, Live
<1> QED  BY <1>1, <1>2, <1>3, <1>4 DEF IInv

\* A deleted row stays, and who downloads it had looked it up before.
Buried ==
  \A k \in Key : documents[k].made /\ documents[k].deleted =>
    /\ documents'[k].deleted
    /\ \A d \in Download : down'[d] = k => down[d] = k

LEMMA StepKeeps ==
  ASSUME IInv, [Next]_vars
  PROVE  IInv' /\ Buried
<1>1. CASE UNCHANGED vars
  BY <1>1 DEF vars, IInv, TypeOK, ActorsTyped, Wanted, KeysAreOwn,
              VerdictsOnRows, NothingAsked, RowsHaveObjects, OrphansAreFaults,
              RowsDescribeObjects, Live, Buried
<1>2. ASSUME NEW q \in Request, RequestDocuments(q) \/ LinkExpires(q)
      PROVE  IInv' /\ Buried
  <2>1. UNCHANGED <<documents, down>>  BY <1>2 DEF RequestDocuments, LinkExpires
  <2> QED  BY <1>2, <2>1, RequestKeeps DEF Buried
<1>3. ASSUME NEW u \in Upload, Uploading(u)
      PROVE  IInv' /\ Buried
  <2>1. down' = down
    BY <1>3 DEF Uploading, UploadForRequest, Accept, Put, PutFails, RecordUpload,
                RecordFails, RemoveAfterFailure, UploadDies
  <2>2. IInv' /\ \A k \in Key : documents[k].made => documents'[k] = documents[k]
    BY <1>3, AcceptKeeps, PutKeeps, InsertKeeps, AbandonKeeps DEF Uploading
  <2> QED  BY <2>1, <2>2 DEF Buried
<1>4. ASSUME NEW s \in Scan, Scanning(s)
      PROVE  IInv' /\ Buried
  <2>1. down' = down
    BY <1>4 DEF Scanning, ReadForVerdict, Purge, RecordScanResult, ScanDies
  <2> QED  BY <1>4, <2>1, ScanKeeps DEF Buried
<1>5. ASSUME NEW d \in Download, ReadForDownload(d) \/ StorageGet(d)
      PROVE  IInv' /\ Buried
  <2>1. IInv' /\ documents' = documents
    BY <1>5, DownloadKeeps DEF ReadForDownload, StorageGet
  <2>2. ASSUME NEW k \in Key, documents[k].deleted, NEW e \in Download,
               down'[e] = k
        PROVE  down[e] = k
    <3>1. down \in [Download -> used \cup {NoKey}]  BY DEF IInv, TypeOK
    <3>2. CASE ReadForDownload(d)
      BY <2>2, <3>1, <3>2 DEF ReadForDownload, Live
    <3>3. CASE StorageGet(d)
      BY <2>2, <3>1, <3>3, KeyAssumption DEF StorageGet
    <3> QED  BY <1>5, <3>2, <3>3
  <2> QED  BY <2>1, <2>2 DEF Buried
<1> QED  BY <1>1, <1>2, <1>3, <1>4, <1>5 DEF Next

LEMMA Invariance == Spec => []IInv
BY IInvInit, StepKeeps, PTL DEF Spec

\* uploadForRequest and recordScanResult: rows and objects tell the truth about
\* each other, and every exception is a fault's or a verdict's.
THEOREM RowsAndObjects == Spec => []RowsAndObjectsAgree
<1>1. IInv => RowsAndObjectsAgree  BY DEF IInv, RowsAndObjectsAgree
<1> QED  BY <1>1, Invariance, PTL

\* recordScanResult, readForDownload: a deletion is final, whatever verdicts
\* overlap, and nobody begins to download what is deleted.
THEOREM DeletionIsFinal == Spec => DeletedForGood
<1>1. IInv /\ [Next]_vars => [Buried]_vars  BY StepKeeps
<1>2. Spec => [][Buried]_vars  BY <1>1, Invariance, PTL DEF Spec
<1> QED  BY <1>2 DEF DeletedForGood, Buried
-----------------------------------------------------------------------------
(* The ceiling on files *)

\* Uploads that were counted and may still add a row.
Coming(q) == {u \in Upload : /\ up[u] \in Sending \cup Keyed
                             /\ up[u].step \in {"put", "record"}
                             /\ up[u].request = q}

\* What a request has and what is coming never exceed what was counted, and one
\* more for each upload.
RoomInv ==
  \A q \in Request :
    Cardinality(FilesOf(q)) + Cardinality(Coming(q))
      <= (MAX_FILES_PER_REQUEST - 1) + Cardinality(Upload)

LEMMA SetsAreFinite ==
  /\ \A S : S \subseteq Key => IsFiniteSet(S) /\ Cardinality(S) \in Nat
  /\ \A S : S \subseteq Upload =>
       /\ IsFiniteSet(S) /\ Cardinality(S) \in Nat
       /\ Cardinality(S) <= Cardinality(Upload)
  /\ \A q \in Request : FilesOf(q) \subseteq Key /\ Coming(q) \subseteq Upload
<1>1. \A q \in Request : FilesOf(q) \subseteq Key /\ Coming(q) \subseteq Upload
  BY DEF FilesOf, Coming
<1> QED
  BY <1>1, KeyAssumption, UploadAssumption, FS_Subset, FS_CardinalityType

\* Nothing is added on either side.
LEMMA FewerFit ==
  ASSUME RoomInv,
         \A q \in Request : /\ FilesOf(q)' \subseteq FilesOf(q)
                            /\ Coming(q)' \subseteq Coming(q)
  PROVE  RoomInv'
<1> SUFFICES ASSUME NEW q \in Request
    PROVE  Cardinality(FilesOf(q)') + Cardinality(Coming(q)')
             <= (MAX_FILES_PER_REQUEST - 1) + Cardinality(Upload)
  BY DEF RoomInv
<1> DEFINE F == FilesOf(q)  C == Coming(q)  F2 == FilesOf(q)'  C2 == Coming(q)'
<1>1. /\ F \subseteq Key /\ C \subseteq Upload /\ F2 \subseteq F /\ C2 \subseteq C
  BY SetsAreFinite
<1>2. Cardinality(F) + Cardinality(C)
        <= (MAX_FILES_PER_REQUEST - 1) + Cardinality(Upload)
  BY DEF RoomInv
<1> HIDE DEF F, C, F2, C2
<1>3. Cardinality(F2) <= Cardinality(F) /\ Cardinality(C2) <= Cardinality(C)
  BY <1>1, SetsAreFinite, FS_Subset
<1>4. /\ Cardinality(F) \in Nat /\ Cardinality(C) \in Nat
      /\ Cardinality(F2) \in Nat /\ Cardinality(C2) \in Nat
      /\ Cardinality(Upload) \in Nat
  <2>1. F2 \subseteq Key /\ C2 \subseteq Upload  BY <1>1
  <2> QED  BY <1>1, <2>1, SetsAreFinite
<1>5. Cardinality(F2) + Cardinality(C2)
        <= (MAX_FILES_PER_REQUEST - 1) + Cardinality(Upload)
  BY <1>2, <1>3, <1>4, BoundAssumption
<1> QED  BY <1>5 DEF F2, C2

\* The count comes first: whatever else is coming is among the uploads.
LEMMA AcceptFits ==
  ASSUME IInv, RoomInv, NEW u \in Upload, UploadForRequest(u)
  PROVE  RoomInv'
<1>1. PICK q \in Request : HasRoom(q) /\ up'[u].request = q
  <2>1. PICK q \in Request, declared \in Declared, content \in Content :
          \E type \in requests[q].types :
            /\ HasRoom(q)
            /\ Accept(u, q, type, sniffMimeType(content), content)
    BY DEF UploadForRequest
  <2>2. PICK type \in requests[q].types :
          HasRoom(q) /\ Accept(u, q, type, sniffMimeType(content), content)
    BY <2>1
  <2> QED  BY <2>2 DEF Accept, IInv, ActorsTyped
<1>2. documents' = documents /\ Alone(u)
  BY DEF UploadForRequest, Accept, Alone, IInv, ActorsTyped
<1>3. \A p \in Request : FilesOf(p)' = FilesOf(p)  BY <1>2 DEF FilesOf, Live
<1>4. \A p \in Request \ {q} : Coming(p)' \subseteq Coming(p)
  BY <1>1, <1>2 DEF Coming, Alone
<1> SUFFICES ASSUME NEW p \in Request
    PROVE  Cardinality(FilesOf(p)') + Cardinality(Coming(p)')
             <= (MAX_FILES_PER_REQUEST - 1) + Cardinality(Upload)
  BY DEF RoomInv
<1>5. /\ Cardinality(FilesOf(p)) \in Nat /\ Cardinality(Coming(p)) \in Nat
      /\ Cardinality(Coming(p)') \in Nat /\ Cardinality(Upload) \in Nat
      /\ Cardinality(Coming(p)') <= Cardinality(Upload)
  <2>1. Coming(p)' \subseteq Upload  BY DEF Coming
  <2> QED  BY <2>1, SetsAreFinite
<1>6. CASE p = q
  <2>1. Cardinality(FilesOf(p)) < MAX_FILES_PER_REQUEST
    BY <1>1, <1>6 DEF HasRoom
  <2> QED  BY <1>3, <1>5, <2>1, BoundAssumption
<1>7. CASE p # q
  <2>1. Cardinality(Coming(p)') <= Cardinality(Coming(p))
    BY <1>4, <1>7, SetsAreFinite, FS_Subset
  <2>2. Cardinality(FilesOf(p)) + Cardinality(Coming(p))
          <= (MAX_FILES_PER_REQUEST - 1) + Cardinality(Upload)
    BY DEF RoomInv
  <2> QED  BY <1>3, <1>5, <2>1, <2>2, BoundAssumption
<1> QED  BY <1>6, <1>7

\* A row is added as its upload stops to come.
LEMMA InsertFits ==
  ASSUME IInv, RoomInv, NEW u \in Upload, RecordUpload(u) \/ RecordFails(u)
  PROVE  RoomInv'
<1>1. /\ up[u].step = "record" /\ up[u] \in Keyed
      /\ up[u].request \in Request /\ up[u].key \in Key
  BY StepIsShape DEF IInv, RecordUpload, RecordFails, Keyed
<1>2. PICK k \in Key : k = up[u].key  BY <1>1
<1>3. PICK q \in Request : q = up[u].request  BY <1>1
<1>4. /\ up[u].step = "record" /\ up[u] \in Keyed
      /\ up[u].request = q /\ up[u].key = k
  BY <1>1, <1>2, <1>3
<1>5. /\ Alone(u) /\ up'[u].step \in {"idle", "remove"}
      /\ documents' = [documents EXCEPT ![k] = NewRow(u)] \/ documents' = documents
  <2>1. Alone(u) /\ up'[u].step \in {"idle", "remove"}
    <3>1. CASE up' = [up EXCEPT ![u] = Idle]
      BY <3>1 DEF Alone, IInv, ActorsTyped, Idle
    <3>2. CASE up' = [up EXCEPT ![u].step = "remove"]
      <4>1. up'[u] = [up[u] EXCEPT !.step = "remove"]
        BY <3>2 DEF IInv, ActorsTyped
      <4>2. up'[u].step = "remove"  BY <1>4, <4>1 DEF Keyed
      <4> QED  BY <3>2, <4>2 DEF Alone, IInv, ActorsTyped
    <3> QED  BY <3>1, <3>2 DEF RecordUpload, RecordFails
  <2> QED  BY <1>4, <2>1 DEF RecordUpload, RecordFails
<1>6. /\ \A p \in Request \ {q} : FilesOf(p)' \subseteq FilesOf(p)
      /\ FilesOf(q)' \subseteq FilesOf(q) \cup {k}
  <2>1. NewRow(u).request = q  BY <1>4 DEF NewRow
  <2>2. /\ \A z \in Key \ {k} : documents'[z] = documents[z]
        /\ documents'[k] \in {documents[k], NewRow(u)}
    BY <1>4, <1>5 DEF IInv, TypeOK
  <2>3. ~documents[k].made  BY <1>4 DEF IInv, KeysAreOwn
  <2>4. ASSUME NEW p \in Request, NEW z \in Key, z \in FilesOf(p)'
        PROVE  z \in FilesOf(p) \/ (z = k /\ p = q)
    <3>1. /\ documents'[z].made /\ ~documents'[z].deleted
          /\ documents'[z].request = p
      BY <2>4 DEF FilesOf, Live
    <3>2. CASE documents'[z] = documents[z]  BY <3>1, <3>2 DEF FilesOf, Live
    <3>3. CASE documents'[z] # documents[z]
      BY <2>1, <2>2, <3>1, <3>3
    <3> QED  BY <3>2, <3>3
  <2>5. \A p \in Request : FilesOf(p)' \subseteq Key  BY DEF FilesOf
  <2> QED  BY <1>4, <2>4, <2>5
<1>7. /\ \A p \in Request \ {q} : Coming(p)' \subseteq Coming(p)
      /\ Coming(q)' \subseteq Coming(q) \ {u} /\ u \in Coming(q)
  <2>1. u \in Coming(q)  BY <1>4 DEF Coming
  <2>2. ASSUME NEW p \in Request, NEW v \in Upload, v \in Coming(p)'
        PROVE  v # u /\ v \in Coming(p)
    <3>1. v # u  BY <1>5, <2>2 DEF Coming
    <3> QED  BY <1>5, <2>2, <3>1 DEF Coming, Alone
  <2>3. \A p \in Request : Coming(p)' \subseteq Upload  BY DEF Coming
  <2> QED  BY <1>4, <2>1, <2>2, <2>3
<1> SUFFICES ASSUME NEW p \in Request
    PROVE  Cardinality(FilesOf(p)') + Cardinality(Coming(p)')
             <= (MAX_FILES_PER_REQUEST - 1) + Cardinality(Upload)
  BY DEF RoomInv
<1> DEFINE F == FilesOf(p)  C == Coming(p)  F2 == FilesOf(p)'  C2 == Coming(p)'
<1> HIDE DEF F, C, F2, C2
<1>8. /\ F \subseteq Key /\ C \subseteq Upload /\ F2 \subseteq Key
      /\ C2 \subseteq Upload
  BY DEF FilesOf, Coming, F, C, F2, C2
<1>9. Cardinality(F) + Cardinality(C)
        <= (MAX_FILES_PER_REQUEST - 1) + Cardinality(Upload)
  BY DEF RoomInv, F, C
<1>10. \/ F2 \subseteq F /\ C2 \subseteq C
       \/ F2 \subseteq F \cup {k} /\ C2 \subseteq C \ {u} /\ u \in C
  <2>1. CASE p = q
    <3>1. F2 \subseteq F \cup {k}  BY <1>6, <2>1 DEF F, F2
    <3>2. C2 \subseteq C \ {u} /\ u \in C  BY <1>7, <2>1 DEF C, C2
    <3> QED  BY <3>1, <3>2
  <2>2. CASE p # q
    <3>1. p \in Request \ {q}  BY <2>2
    <3>2. F2 \subseteq F  BY <1>6, <3>1 DEF F, F2
    <3>3. C2 \subseteq C  BY <1>7, <3>1 DEF C, C2
    <3> QED  BY <3>2, <3>3
  <2> QED  BY <2>1, <2>2
<1>11. /\ Cardinality(F) \in Nat /\ Cardinality(C) \in Nat
       /\ Cardinality(F2) \in Nat /\ Cardinality(C2) \in Nat
       /\ Cardinality(Upload) \in Nat
  BY <1>8, SetsAreFinite
<1>12. Cardinality(F2) + Cardinality(C2) <= Cardinality(F) + Cardinality(C)
  <2>1. CASE F2 \subseteq F /\ C2 \subseteq C
    <3>1. Cardinality(F2) <= Cardinality(F) /\ Cardinality(C2) <= Cardinality(C)
      BY <1>8, <2>1, SetsAreFinite, FS_Subset
    <3> QED  BY <1>11, <3>1
  <2>2. CASE F2 \subseteq F \cup {k} /\ C2 \subseteq C \ {u} /\ u \in C
    <3>1. /\ IsFiniteSet(F) /\ IsFiniteSet(C)  BY <1>8, SetsAreFinite
    <3>2. /\ IsFiniteSet(F \cup {k}) /\ Cardinality(F \cup {k}) \in Nat
          /\ Cardinality(F \cup {k}) <= Cardinality(F) + 1
      <4>1. /\ IsFiniteSet(F \cup {k})
            /\ Cardinality(F \cup {k}) \in {Cardinality(F), Cardinality(F) + 1}
        BY <3>1, FS_AddElement
      <4> QED  BY <1>11, <4>1
    <3>3. /\ IsFiniteSet(C \ {u}) /\ Cardinality(C \ {u}) \in Nat
          /\ Cardinality(C \ {u}) = Cardinality(C) - 1
      BY <2>2, <3>1, FS_RemoveElement, FS_CardinalityType
    <3>4. /\ Cardinality(F2) <= Cardinality(F \cup {k})
          /\ Cardinality(C2) <= Cardinality(C \ {u})
      BY <2>2, <3>2, <3>3, FS_Subset
    <3> QED  BY <1>11, <3>2, <3>3, <3>4
  <2> QED  BY <1>10, <2>1, <2>2
<1>13. Cardinality(F2) + Cardinality(C2)
         <= (MAX_FILES_PER_REQUEST - 1) + Cardinality(Upload)
  BY <1>9, <1>11, <1>12, BoundAssumption
<1> QED  BY <1>13 DEF F2, C2

LEMMA StepFits ==
  ASSUME IInv, RoomInv, [Next]_vars
  PROVE  RoomInv'
<1>1. ASSUME UNCHANGED <<documents, up>>  PROVE RoomInv'
  BY <1>1, FewerFit DEF FilesOf, Live, Coming
<1>2. CASE UNCHANGED vars  BY <1>1, <1>2 DEF vars
<1>3. ASSUME NEW q \in Request, RequestDocuments(q) \/ LinkExpires(q)
      PROVE  RoomInv'
  BY <1>1, <1>3 DEF RequestDocuments, LinkExpires
<1>4. ASSUME NEW d \in Download, ReadForDownload(d) \/ StorageGet(d)
      PROVE  RoomInv'
  BY <1>1, <1>4 DEF ReadForDownload, StorageGet
<1>5. ASSUME NEW s \in Scan, Scanning(s)  PROVE RoomInv'
  <2>1. up' = up
    BY <1>5 DEF Scanning, ReadForVerdict, Purge, RecordScanResult, ScanDies
  <2>2. \A p \in Request : Coming(p)' \subseteq Coming(p)  BY <2>1 DEF Coming
  <2>3. \A p \in Request : FilesOf(p)' \subseteq FilesOf(p)
    BY <1>5, ScanKeeps DEF FilesOf, Live
  <2> QED  BY <2>2, <2>3, FewerFit
<1>6. ASSUME NEW u \in Upload, Put(u) \/ PutFails(u)  PROVE RoomInv'
  <2>1. up[u].step = "put" /\ up[u] \in Sending
    BY <1>6, StepIsShape DEF Put, PutFails, IInv
  <2>2. /\ Alone(u) /\ documents' = documents
        /\ up'[u].step = "idle" \/ up'[u].request = up[u].request
    <3>1. documents' = documents  BY <1>6 DEF Put, PutFails
    <3>2. CASE up' = [up EXCEPT ![u] = Idle]
      BY <3>1, <3>2 DEF Alone, IInv, ActorsTyped, Idle
    <3>3. ASSUME NEW k, up' = [up EXCEPT ![u] = WithKey(u, k)]
          PROVE  Alone(u) /\ up'[u].request = up[u].request
      <4>1. WithKey(u, k).request = up[u].request  BY DEF WithKey
      <4> QED  BY <3>3, <4>1 DEF Alone, IInv, ActorsTyped
    <3> QED  BY <1>6, <3>1, <3>2, <3>3 DEF Put, PutFails
  <2>3. \A p \in Request : /\ FilesOf(p)' \subseteq FilesOf(p)
                            /\ Coming(p)' \subseteq Coming(p)
    BY <2>1, <2>2 DEF FilesOf, Live, Coming, Alone
  <2> QED  BY <2>3, FewerFit
<1>7. ASSUME NEW u \in Upload, RemoveAfterFailure(u) \/ UploadDies(u)
      PROVE  RoomInv'
  <2>1. up' = [up EXCEPT ![u] = Idle] /\ documents' = documents
    BY <1>7 DEF RemoveAfterFailure, UploadDies
  <2>2. Alone(u) /\ up'[u] = Idle  BY <2>1 DEF Alone, IInv, ActorsTyped
  <2>3. \A p \in Request : /\ FilesOf(p)' \subseteq FilesOf(p)
                            /\ Coming(p)' \subseteq Coming(p)
    BY <2>1, <2>2, Shapes DEF FilesOf, Live, Coming, Alone
  <2> QED  BY <2>3, FewerFit
<1>8. ASSUME NEW u \in Upload, Uploading(u)  PROVE RoomInv'
  BY <1>6, <1>7, <1>8, AcceptFits, InsertFits DEF Uploading
<1> QED  BY <1>2, <1>3, <1>4, <1>5, <1>8 DEF Next

\* uploadForRequest: uploads that are counted together pass the ceiling by less
\* than their number.
THEOREM FilesFew == Spec => []FilesBounded
<1>1. Init => RoomInv
  <2> SUFFICES ASSUME Init, NEW q \in Request
      PROVE  Cardinality(FilesOf(q)) + Cardinality(Coming(q))
               <= (MAX_FILES_PER_REQUEST - 1) + Cardinality(Upload)
    BY DEF RoomInv
  <2>1. FilesOf(q) = {} /\ Coming(q) = {}
    BY Shapes DEF Init, FilesOf, Live, Coming
  <2>2. Cardinality(Upload) \in Nat  BY SetsAreFinite
  <2> QED  BY <2>1, <2>2, FS_EmptySet, BoundAssumption
<1>2. RoomInv => FilesBounded
  <2> SUFFICES ASSUME RoomInv, NEW q \in Request
      PROVE  Cardinality(FilesOf(q))
               < MAX_FILES_PER_REQUEST + Cardinality(Upload)
    BY DEF FilesBounded
  <2>1. /\ Cardinality(FilesOf(q)) \in Nat /\ Cardinality(Coming(q)) \in Nat
        /\ Cardinality(Upload) \in Nat
    BY SetsAreFinite
  <2>2. Cardinality(FilesOf(q)) + Cardinality(Coming(q))
          <= (MAX_FILES_PER_REQUEST - 1) + Cardinality(Upload)
    BY DEF RoomInv
  <2> QED  BY <2>1, <2>2, BoundAssumption
<1>3. IInv /\ RoomInv /\ [Next]_vars => RoomInv'  BY StepFits
<1> QED  BY <1>1, <1>2, <1>3, Invariance, PTL DEF Spec
=============================================================================
