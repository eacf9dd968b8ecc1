--------------------------- MODULE DatasetProofs ----------------------------
(***************************************************************************)
(* Proofs about DatasetUploads: the state is well typed, and its safety    *)
(* properties, for any number of datasets, sessions, clients and requests. *)
(*                                                                         *)
(* None of them is inductive by itself:                                    *)
(*  - RowSound: the row is written from values a request gathered in       *)
(*    earlier steps.  Inv adds what those values satisfy (Sound): the key  *)
(*    a request is about to write is the one of its dataset, which for an  *)
(*    upload rests on the session belonging to that dataset;               *)
(*  - SessionsReleaseStaging: Lifecycle says that datasets and sessions    *)
(*    are created once and stay deleted, and Releases that a request about *)
(*    to end a session has closed its multipart upload;                    *)
(*  - AssembledPartsLargeEnough: PartsLarge extends it to the contents     *)
(*    that requests are about to store;                                    *)
(*  - UntroubledAgree: Agreement says how row and object differ at each    *)
(*    place of a request that met no other (Settled), and that the history *)
(*    variables record the meetings (History).                             *)
(***************************************************************************)
EXTENDS DatasetUploads, TLAPS

Sound(req) ==
    /\ req.op = "download" /\ req.pc = "get" => req.key # NoKey
    /\ req.op = "upload_part" => req.content # <<>>
    /\ req.op \in {"add", "update"} =>
          req.checksum = req.content /\ req.key \in {NoKey, req.ds}
    /\ req.op = "assemble" =>
          /\ upload[req.up].status # "none"
          /\ upload[req.up].ds = req.ds
          /\ req.key \in {NoKey, req.ds}
          /\ req.pc \in {"hash", "md5"} => req.key # NoKey
          /\ req.pc = "row" /\ req.key = NoKey => req.checksum = req.content
          /\ req.pc = "complete" => DOMAIN req.content \subseteq 1..MaxParts

RequestsSound == \A c \in Clients : Sound(request[c])

Inv == TypeOK /\ RowSound /\ RequestsSound

-----------------------------------------------------------------------------
(* Types.                                                                  *)

\* The empty sequence is a content.
LEMMA EmptyIsContent == <<>> \in Seq(Bodies)
  OBVIOUS

\* So is a single body.
LEMMA OneIsContent ==
    ASSUME NEW body \in Bodies
    PROVE  <<body>> \in Seq(Bodies)
  OBVIOUS

\* And a function of the first numbers to bodies.
LEMMA FunctionIsContent ==
    ASSUME NEW n \in Nat, NEW f \in [1..n -> Bodies]
    PROVE  f \in Seq(Bodies)
  OBVIOUS

\* The idle request is one, and has neither operation nor key.
LEMMA NoRequestTyped ==
    /\ NoRequest \in Request
    /\ NoRequest.op = "none" /\ NoRequest.key = NoKey
  BY StoreAssumption, EmptyIsContent DEF NoRequest, Request, Ops, PCs, WriteOps

\* The two kinds of row are rows.
LEMMA RowsTyped ==
    /\ \A s \in {"none", "new", "live", "deleted"} : NoRow(s) \in Row
    /\ \A content, checksum \in Seq(Bodies), key \in Datasets \cup {NoKey} :
          LiveRow(content, checksum, key) \in Row
  BY EmptyIsContent DEF NoRow, LiveRow, Row

\* Without parts and closed are values of their types.
LEMMA StagingTyped ==
    /\ NoParts \in Parts
    /\ Closed \in Staged
    /\ NoUpload \in Upload
  BY StoreAssumption DEF NoParts, Parts, Closed, Staged, NoUpload, Upload

\* Ending a request leaves the requests well typed.
LEMMA EndTyped ==
    ASSUME TypeOK, NEW c \in Clients, End(c)
    PROVE  request' \in [Clients -> Request]
  BY NoRequestTyped DEF TypeOK, StoreTypeOK, End

\* So does moving one on.
LEMMA GotoTyped ==
    ASSUME TypeOK, NEW c \in Clients, NEW pc \in PCs, Goto(c, pc)
    PROVE  request' \in [Clients -> Request]
  BY ZenonT(60) DEF TypeOK, StoreTypeOK, Goto, Request

\* So does starting one.
LEMMA BeginTyped ==
    ASSUME TypeOK, NEW c \in Clients, NEW req \in Request, Begin(c, req)
    PROVE  request' \in [Clients -> Request] /\ started' \in Nat
  BY DEF TypeOK, StoreTypeOK, Begin

\* And starting one that writes, history included.
LEMMA BeginWriteTyped ==
    ASSUME TypeOK, NEW c \in Clients, NEW req \in Request, BeginWrite(c, req)
    PROVE  /\ request' \in [Clients -> Request] /\ started' \in Nat
           /\ alone' \subseteq Clients /\ trouble' \subseteq Datasets
  <1>1. req.ds \in Datasets
    BY DEF Request
  <1>2. request' \in [Clients -> Request] /\ started' \in Nat
    BY BeginTyped DEF BeginWrite
  <1>3. alone' \subseteq Clients /\ trouble' \subseteq Datasets
    BY <1>1 DEF TypeOK, StoreTypeOK, BeginWrite, Writers
  <1> QED
    BY <1>2, <1>3

\* The records AddDataset and UpdateDatasetByUuid start with are requests.
LEMMA NewContentTyped ==
    ASSUME NEW d \in Datasets, NEW content \in Seq(Bodies), NEW pc \in PCs
    PROVE  /\ [NoRequest EXCEPT !.op = "add", !.ds = d, !.content = content, !.pc = pc,
                                !.checksum = content] \in Request
           /\ [NoRequest EXCEPT !.op = "update", !.ds = d, !.pc = pc, !.content = content,
                                !.checksum = content] \in Request
  BY NoRequestTyped DEF Request, Ops, WriteOps

\* The record DeleteDataset starts with.
LEMMA NewDeleteTyped ==
    ASSUME NEW d \in Datasets, NEW pc \in PCs
    PROVE  [NoRequest EXCEPT !.op = "delete", !.ds = d, !.pc = pc] \in Request
  BY NoRequestTyped DEF Request, Ops, WriteOps

\* The records CreateUpload and CancelUpload start with.
LEMMA NewSessionTyped ==
    ASSUME NEW d \in Datasets, NEW u \in Uploads, NEW pc \in PCs
    PROVE  /\ [NoRequest EXCEPT !.op = "create_upload", !.ds = d, !.up = u, !.pc = pc]
                  \in Request
           /\ [NoRequest EXCEPT !.op = "cancel", !.ds = d, !.up = u, !.pc = pc] \in Request
  BY NoRequestTyped DEF Request, Ops, WriteOps

\* The record UploadPart starts with.
LEMMA NewPartTyped ==
    ASSUME NEW d \in Datasets, NEW u \in Uploads, NEW n \in 1..MaxParts,
           NEW content \in Seq(Bodies), NEW pc \in PCs
    PROVE  [NoRequest EXCEPT !.op = "upload_part", !.ds = d, !.up = u, !.part = n,
                             !.content = content, !.pc = pc] \in Request
  BY NoRequestTyped DEF Request, Ops, WriteOps

\* The record AssembleUpload starts with.
LEMMA NewAssembleTyped ==
    ASSUME NEW d \in Datasets, NEW u \in Uploads, NEW pc \in PCs,
           NEW digest \in Seq(Bodies) \cup {NoDigest}
    PROVE  [NoRequest EXCEPT !.op = "assemble", !.ds = d, !.up = u, !.digest = digest,
                             !.pc = pc] \in Request
  BY NoRequestTyped DEF Request, Ops, WriteOps

\* The record a download starts with.
LEMMA NewDownloadTyped ==
    ASSUME NEW d \in Datasets, NEW key \in Datasets \cup {NoKey}, NEW pc \in PCs,
           NEW checksum \in Seq(Bodies), NEW content \in Seq(Bodies)
    PROVE  [NoRequest EXCEPT !.op = "download", !.ds = d, !.key = key, !.pc = pc,
                             !.checksum = checksum, !.content = content] \in Request
  BY NoRequestTyped DEF Request, Ops, WriteOps

\* The labels the code moves to.
LEMMA Labels ==
    /\ {"idle", "done", "ref", "find", "put", "get", "row", "undo", "drop", "stage",
        "unstage", "parts", "complete", "hash", "md5", "session", "rmdir"} \subseteq PCs
    /\ \A c : PcAfterUpdate(c) \in {"drop", "session", "idle"}
  BY DEF PCs, PcAfterUpdate

\* Every step of the store keeps the types.
LEMMA StoreStepTyped ==
    ASSUME TypeOK, RequestsSound, NEW c \in Clients, StoreStep(c),
           UNCHANGED <<upload, staged>>
    PROVE  TypeOK'
  <1> DEFINE req == request[c]
  <1>0. /\ request[c] \in Request
        /\ req.ds \in Datasets /\ req.content \in Seq(Bodies) /\ req.checksum \in Seq(Bodies)
        /\ req.key \in Datasets \cup {NoKey} /\ req.prev \in Datasets \cup {NoKey}
    BY DEF TypeOK, StoreTypeOK, Request
  <1>a. UndoOrEnd(c) => request' \in [Clients -> Request]
    BY EndTyped, GotoTyped, Labels DEF UndoOrEnd
  <1>t. Troubled(c) => trouble' \subseteq Datasets
    BY <1>0 DEF Troubled, TypeOK, StoreTypeOK
  <1>1. CASE AddDataset(c)
    <2>1. PICK d \in Datasets, content \in Contents :
              /\ dataset' = [dataset EXCEPT ![d] = NoRow("new")]
              /\ BeginWrite(c, [NoRequest EXCEPT !.op = "add", !.ds = d, !.content = content,
                                   !.pc = IF UsesStore(content) THEN "put" ELSE "row",
                                   !.checksum = content])
              /\ UNCHANGED <<backend, object>>
      BY <1>1 DEF AddDataset
    <2>2. PICK pc \in PCs : pc = IF UsesStore(content) THEN "put" ELSE "row"
      BY Labels
    <2>3. PICK r \in Request :
              r = [NoRequest EXCEPT !.op = "add", !.ds = d, !.content = content,
                                    !.pc = pc, !.checksum = content]
      BY <2>2, NewContentTyped, StoreAssumption
    <2>4. BeginWrite(c, r)
      BY <2>1, <2>2, <2>3
    <2> QED
      BY <2>1, <2>4, BeginWriteTyped, RowsTyped DEF TypeOK, StoreTypeOK
  <1>2. CASE PutObject(c)
    <2>1. request' \in [Clients -> Request]
      BY <1>0, <1>2, Labels DEF PutObject, TypeOK, StoreTypeOK, Request
    <2> QED
      BY <1>0, <1>2, <2>1 DEF PutObject, TypeOK, StoreTypeOK
  <1>3. CASE CreateDataset(c)
    BY <1>0, <1>3, EndTyped, RowsTyped DEF CreateDataset, TypeOK, StoreTypeOK
  <1>4. CASE CreateDatasetFails(c)
    BY <1>a, <1>4 DEF CreateDatasetFails, TypeOK, StoreTypeOK
  <1>5. CASE DeleteNewObject(c)
    BY <1>5, EndTyped DEF DeleteNewObject, TypeOK, StoreTypeOK
  <1>6. CASE UpdateDatasetByUuid(c)
    <2>1. PICK d \in Datasets, content \in Contents :
              /\ BeginWrite(c, [NoRequest EXCEPT !.op = "update", !.ds = d, !.pc = "ref",
                                   !.content = content, !.checksum = content])
              /\ UNCHANGED <<backend, dataset, object>>
      BY <1>6 DEF UpdateDatasetByUuid
    <2>2. PICK r \in Request :
              r = [NoRequest EXCEPT !.op = "update", !.ds = d, !.pc = "ref",
                                    !.content = content, !.checksum = content]
      BY NewContentTyped, StoreAssumption, Labels
    <2>3. BeginWrite(c, r)
      BY <2>1, <2>2
    <2> QED
      BY <2>1, <2>3, BeginWriteTyped DEF TypeOK, StoreTypeOK
  <1>7. CASE ReadPreviousRef(c)
    <2>1. dataset[req.ds].key \in Datasets \cup {NoKey}
      BY <1>0 DEF TypeOK, StoreTypeOK, Row
    <2>2. PICK pc \in PCs :
              request' = [request EXCEPT ![c].prev = dataset[request[c].ds].key, ![c].pc = pc]
      BY <1>7, Labels DEF ReadPreviousRef, GoOnWithRef
    <2>3. request' \in [Clients -> Request]
      BY <1>0, <2>1, <2>2 DEF TypeOK, StoreTypeOK, Request
    <2> QED
      BY <1>7, <2>3 DEF ReadPreviousRef, GoOnWithRef, TypeOK, StoreTypeOK
  <1>8. CASE FindFormat(c)
    BY <1>8, EndTyped, GotoTyped, Labels DEF FindFormat, TypeOK, StoreTypeOK
  <1>9. CASE UpdateDataset(c)
    <2>1. request' \in [Clients -> Request]
      BY <1>9, EndTyped, GotoTyped, Labels DEF UpdateDataset, Continue
    <2> QED
      BY <1>0, <1>9, <2>1, RowsTyped DEF UpdateDataset, TypeOK, StoreTypeOK
  <1>10. CASE UpdateDatasetFails(c)
    BY <1>a, <1>t, <1>10 DEF UpdateDatasetFails, TypeOK, StoreTypeOK
  <1>11. CASE DeleteOldObject(c)
    <2>1. request' \in [Clients -> Request]
      BY <1>11, EndTyped, GotoTyped, Labels DEF DeleteOldObject
    <2> QED
      BY <1>11, <2>1 DEF DeleteOldObject, TypeOK, StoreTypeOK
  <1>12. CASE DeleteDataset(c)
    <2>1. PICK d \in Datasets :
              /\ BeginWrite(c, [NoRequest EXCEPT !.op = "delete", !.ds = d, !.pc = "ref"])
              /\ UNCHANGED <<backend, dataset, object>>
      BY <1>12 DEF DeleteDataset
    <2>2. PICK r \in Request : r = [NoRequest EXCEPT !.op = "delete", !.ds = d, !.pc = "ref"]
      BY NewDeleteTyped, Labels
    <2>3. BeginWrite(c, r)
      BY <2>1, <2>2
    <2> QED
      BY <2>1, <2>3, BeginWriteTyped DEF TypeOK, StoreTypeOK
  <1>13. CASE ReadRefToDelete(c)
    <2>1. dataset[req.ds].key \in Datasets \cup {NoKey}
      BY <1>0 DEF TypeOK, StoreTypeOK, Row
    <2>2. request' \in [Clients -> Request]
      <3>1. CASE Live(req.ds)
        <4>1. PICK k \in Datasets \cup {NoKey}, pc \in PCs :
                  request' = [request EXCEPT ![c].prev = k, ![c].pc = pc]
          BY <1>13, <2>1, <3>1, Labels DEF ReadRefToDelete
        <4> QED
          BY <1>0, <4>1 DEF TypeOK, StoreTypeOK, Request
      <3>2. CASE ~Live(req.ds)
        BY <1>13, <3>2, EndTyped DEF ReadRefToDelete
      <3> QED
        BY <3>1, <3>2
    <2> QED
      BY <1>13, <2>2 DEF ReadRefToDelete, TypeOK, StoreTypeOK
  <1>14. CASE GetDatasetContentByUuid(c)
    <2>1. PICK d \in Datasets :
              /\ Begin(c, [NoRequest EXCEPT !.op = "download", !.ds = d,
                              !.key = dataset[d].key,
                              !.pc = IF dataset[d].key = NoKey THEN "done" ELSE "get",
                              !.checksum = dataset[d].checksum,
                              !.content = dataset[d].content])
              /\ UNCHANGED <<backend, dataset, object, alone, trouble>>
      BY <1>14 DEF GetDatasetContentByUuid
    <2>2. /\ dataset[d].key \in Datasets \cup {NoKey}
          /\ dataset[d].checksum \in Seq(Bodies) /\ dataset[d].content \in Seq(Bodies)
      BY DEF TypeOK, StoreTypeOK, Row
    <2>3. PICK pc \in PCs : pc = IF dataset[d].key = NoKey THEN "done" ELSE "get"
      BY Labels
    <2>4. PICK r \in Request :
              r = [NoRequest EXCEPT !.op = "download", !.ds = d, !.key = dataset[d].key,
                      !.pc = pc, !.checksum = dataset[d].checksum,
                      !.content = dataset[d].content]
      BY <2>2, NewDownloadTyped
    <2>5. Begin(c, r)
      BY <2>1, <2>3, <2>4
    <2> QED
      BY <2>1, <2>5, BeginTyped DEF TypeOK, StoreTypeOK
  <1>15. CASE GetObject(c)
    <2>1. request' \in [Clients -> Request]
      <3>1. CASE object[req.key] # NoObject
        <4>1. object[req.key] \in Seq(Bodies)
          BY <1>0, <1>15, <3>1 DEF GetObject, At, RequestsSound, Sound, TypeOK, StoreTypeOK
        <4> QED
          <5>1. PICK content \in Seq(Bodies), pc \in PCs :
                    request' = [request EXCEPT ![c].content = content, ![c].pc = pc]
            BY <1>15, <3>1, <4>1, Labels DEF GetObject
          <5> QED
            BY <1>0, <5>1 DEF TypeOK, StoreTypeOK, Request
      <3>2. CASE object[req.key] = NoObject
        BY <1>15, <3>2, EndTyped DEF GetObject
      <3> QED
        BY <3>1, <3>2
    <2> QED
      BY <1>15, <2>1 DEF GetObject, TypeOK, StoreTypeOK
  <1>16. CASE Abandon(c)
    BY <1>t, <1>16, EndTyped DEF Abandon, TypeOK, StoreTypeOK
  <1>17. CASE ReadPreviousRefFails(c)
    <2>1. PICK pc \in PCs : request' = [request EXCEPT ![c].prev = NoKey, ![c].pc = pc]
      BY <1>17, Labels DEF ReadPreviousRefFails, GoOnWithRef
    <2>2. request' \in [Clients -> Request]
      BY <1>0, <2>1 DEF TypeOK, StoreTypeOK, Request
    <2> QED
      BY <1>17, <1>t, <2>2 DEF ReadPreviousRefFails, GoOnWithRef, TypeOK, StoreTypeOK
  <1>18. CASE DeleteOldObjectFails(c)
    <2>1. request' \in [Clients -> Request]
      BY <1>18, EndTyped, GotoTyped, Labels DEF DeleteOldObjectFails
    <2> QED
      BY <1>18, <1>t, <2>1 DEF DeleteOldObjectFails, TypeOK, StoreTypeOK
  <1> QED
    BY <1>1, <1>2, <1>3, <1>4, <1>5, <1>6, <1>7, <1>8, <1>9, <1>10, <1>11, <1>12, <1>13,
       <1>14, <1>15, <1>16, <1>17, <1>18 DEF StoreStep

\* Every step of the uploads keeps the types.
LEMMA UploadStepTyped ==
    ASSUME TypeOK, RequestsSound, NEW c \in Clients, UploadStep(c)
    PROVE  TypeOK'
  <1> DEFINE req == request[c]
  <1>0. /\ request[c] \in Request
        /\ req.ds \in Datasets /\ req.up \in Uploads /\ req.part \in 1..MaxParts
        /\ req.content \in Seq(Bodies) /\ req.checksum \in Seq(Bodies)
        /\ req.key \in Datasets \cup {NoKey}
    BY DEF TypeOK, StoreTypeOK, Request
  <1>u. /\ upload[req.up] \in Upload /\ staged[req.up] \in Staged
        /\ upload[req.up].ds \in Datasets
        /\ upload[req.up].parts \in Parts /\ staged[req.up].parts \in Parts
    BY <1>0 DEF TypeOK, Upload, Staged
  <1>e. ASSUME NEW u \in Uploads, EndUpload(u)
        PROVE  upload' \in [Uploads -> Upload]
    <2>1. [upload[u] EXCEPT !.status = "gone", !.parts = NoParts] \in Upload
      BY StagingTyped DEF TypeOK, Upload
    <2>2. upload' = [upload EXCEPT ![u] = [upload[u] EXCEPT !.status = "gone", !.parts = NoParts]]
      BY <1>e DEF EndUpload, TypeOK
    <2> QED
      BY <2>1, <2>2 DEF TypeOK
  <1>1. CASE CreateUpload(c)
    <2>1. PICK u \in Uploads, d \in Datasets :
              /\ upload' = [upload EXCEPT ![u].status = "new", ![u].ds = d]
              /\ Begin(c, [NoRequest EXCEPT !.op = "create_upload", !.ds = d, !.up = u,
                                            !.pc = "stage"])
              /\ UNCHANGED <<backend, dataset, object, alone, trouble, staged>>
      BY <1>1 DEF CreateUpload
    <2>2. PICK r \in Request :
              r = [NoRequest EXCEPT !.op = "create_upload", !.ds = d, !.up = u, !.pc = "stage"]
      BY NewSessionTyped, Labels
    <2>3. request' \in [Clients -> Request] /\ started' \in Nat
      BY <2>1, <2>2, BeginTyped
    <2>4. upload' \in [Uploads -> Upload]
      BY <2>1 DEF TypeOK, Upload
    <2> QED
      BY <2>1, <2>3, <2>4 DEF TypeOK, StoreTypeOK
  <1>2. CASE CreateMultipartUpload(c)
    <2>1. request' \in [Clients -> Request]
      BY <1>2, GotoTyped, Labels DEF CreateMultipartUpload
    <2>2. staged' \in [Uploads -> Staged]
      BY <1>2, StagingTyped DEF CreateMultipartUpload, TypeOK, Staged
    <2> QED
      BY <1>2, <2>1, <2>2 DEF CreateMultipartUpload, TypeOK, StoreTypeOK
  <1>3. CASE CreateDatasetUpload(c)
    <2>1. upload' \in [Uploads -> Upload]
      BY <1>3 DEF CreateDatasetUpload, TypeOK, Upload
    <2> QED
      BY <1>3, <2>1, EndTyped DEF CreateDatasetUpload, TypeOK, StoreTypeOK
  <1>4. CASE CreateDatasetUploadFails(c)
    BY <1>4, GotoTyped, Labels DEF CreateDatasetUploadFails, TypeOK, StoreTypeOK
  <1>5. CASE AbortNewUpload(c)
    BY <1>5, EndTyped, StagingTyped DEF AbortNewUpload, TypeOK, StoreTypeOK
  <1>6. CASE UploadPart(c)
    <2>1. PICK u \in Uploads, d \in Datasets, n \in 1..MaxParts, body \in Bodies :
              /\ Begin(c, [NoRequest EXCEPT !.op = "upload_part", !.ds = d, !.up = u,
                              !.part = n, !.content = <<body>>, !.pc = "stage"])
              /\ UNCHANGED <<backend, dataset, object, alone, trouble, upload, staged>>
      BY <1>6 DEF UploadPart
    <2>2. PICK content \in Seq(Bodies) : content = <<body>>
      BY OneIsContent
    <2>3. PICK r \in Request :
              r = [NoRequest EXCEPT !.op = "upload_part", !.ds = d, !.up = u,
                              !.part = n, !.content = content, !.pc = "stage"]
      BY NewPartTyped, Labels
    <2>4. request' \in [Clients -> Request] /\ started' \in Nat
      BY <2>1, <2>2, <2>3, BeginTyped
    <2> QED
      BY <2>1, <2>4 DEF TypeOK, StoreTypeOK
  <1>7. CASE StagePart(c)
    <2>1. request' \in [Clients -> Request]
      BY <1>7, GotoTyped, Labels DEF StagePart
    <2>2. req.content[1] \in Bodies
      BY <1>0, <1>7 DEF StagePart, At, RequestsSound, Sound
    <2>3. PICK body \in Bodies :
              staged' = [staged EXCEPT ![req.up].open = TRUE,
                                       ![req.up].parts[req.part] = body]
      BY <1>7, <2>2 DEF StagePart
    <2>4. staged' \in [Uploads -> Staged]
      BY <1>0, <2>3 DEF TypeOK, Staged, Parts
    <2> QED
      BY <1>7, <2>1, <2>4 DEF StagePart, TypeOK, StoreTypeOK
  <1>8. CASE UpsertDatasetUploadPart(c)
    <2>1. req.content[1] \in Bodies
      BY <1>0, <1>8 DEF UpsertDatasetUploadPart, At, RequestsSound, Sound
    <2>2. PICK body \in Bodies : upload' = [upload EXCEPT ![req.up].parts[req.part] = body]
      BY <1>8, <2>1 DEF UpsertDatasetUploadPart
    <2>3. upload' \in [Uploads -> Upload]
      BY <1>0, <2>2 DEF TypeOK, Upload, Parts
    <2> QED
      BY <1>8, <2>3, EndTyped DEF UpsertDatasetUploadPart, TypeOK, StoreTypeOK
  <1>9. CASE UpsertDatasetUploadPartFails(c)
    <2>1. request' \in [Clients -> Request]
      BY <1>9, EndTyped, GotoTyped, Labels DEF UpsertDatasetUploadPartFails
    <2> QED
      BY <1>9, <2>1 DEF UpsertDatasetUploadPartFails, TypeOK, StoreTypeOK
  <1>10. CASE RemovePartFile(c)
    <2>1. staged' \in [Uploads -> Staged]
      BY <1>0, <1>10 DEF RemovePartFile, TypeOK, Staged, Parts
    <2> QED
      BY <1>10, <2>1, EndTyped DEF RemovePartFile, TypeOK, StoreTypeOK
  <1>11. CASE CancelUpload(c)
    <2>1. PICK u \in Uploads, d \in Datasets :
              /\ Begin(c, [NoRequest EXCEPT !.op = "cancel", !.ds = d, !.up = u,
                                            !.pc = "unstage"])
              /\ UNCHANGED <<backend, dataset, object, alone, trouble, upload, staged>>
      BY <1>11 DEF CancelUpload
    <2>2. PICK r \in Request :
              r = [NoRequest EXCEPT !.op = "cancel", !.ds = d, !.up = u, !.pc = "unstage"]
      BY NewSessionTyped, Labels
    <2>3. request' \in [Clients -> Request] /\ started' \in Nat
      BY <2>1, <2>2, BeginTyped
    <2> QED
      BY <2>1, <2>3 DEF TypeOK, StoreTypeOK
  <1>12. CASE AbortUpload(c)
    <2>1. request' \in [Clients -> Request]
      BY <1>12, GotoTyped, Labels DEF AbortUpload
    <2> QED
      BY <1>12, <2>1, StagingTyped DEF AbortUpload, TypeOK, StoreTypeOK
  <1>13. CASE CancelDatasetUpload(c)
    BY <1>0, <1>e, <1>13, EndTyped DEF CancelDatasetUpload, TypeOK, StoreTypeOK
  <1>14. CASE AssembleUpload(c)
    <2>1. PICK u \in Uploads, d \in Datasets, digest \in Digests :
              /\ BeginWrite(c, [NoRequest EXCEPT !.op = "assemble", !.ds = d, !.up = u,
                                   !.digest = digest, !.pc = "ref"])
              /\ UNCHANGED <<backend, dataset, object, upload, staged>>
      BY <1>14 DEF AssembleUpload
    <2>2. PICK r \in Request :
              r = [NoRequest EXCEPT !.op = "assemble", !.ds = d, !.up = u,
                                    !.digest = digest, !.pc = "ref"]
      BY NewAssembleTyped, UploadAssumption, Labels
    <2>3. BeginWrite(c, r)
      BY <2>1, <2>2
    <2> QED
      BY <2>1, <2>3, BeginWriteTyped DEF TypeOK, StoreTypeOK
  <1>15. CASE ReadParts(c)
    <2>1. request' \in [Clients -> Request]
      <3>1. ASSUME NEW n \in 1..MaxParts, Assembles(upload[req.up].parts, n)
            PROVE  [i \in 1..n |-> upload[req.up].parts[i]] \in Seq(Bodies)
        <4>1. \A i \in 1..n : i \in 1..MaxParts /\ upload[req.up].parts[i] # NoPart
          BY <3>1 DEF Assembles
        <4>2. \A i \in 1..n : upload[req.up].parts[i] \in Bodies
          BY <1>u, <4>1 DEF Parts
        <4> QED
          BY <4>2, StoreAssumption
      <3>2. CASE End(c)
        BY <3>2, EndTyped
      <3>3. CASE \E n \in 1..MaxParts :
                    /\ Assembles(upload[req.up].parts, n)
                    /\ request' = [request EXCEPT
                                      ![c].content = [i \in 1..n |-> upload[req.up].parts[i]],
                                      ![c].pc = "complete"]
        <4>1. PICK content \in Seq(Bodies), pc \in PCs :
                  request' = [request EXCEPT ![c].content = content, ![c].pc = pc]
          BY <3>1, <3>3, Labels
        <4> QED
          BY <1>0, <4>1 DEF TypeOK, StoreTypeOK, Request
      <3> QED
        BY <1>15, <3>2, <3>3 DEF ReadParts
    <2> QED
      BY <1>15, <2>1 DEF ReadParts, TypeOK, StoreTypeOK
  <1>16. CASE CompleteMultipartUpload(c)
    <2>1. PICK d \in Datasets, pc \in PCs :
              request' = [request EXCEPT ![c].key = d, ![c].pc = pc]
      BY <1>u, <1>16, Labels DEF CompleteMultipartUpload
    <2>2. request' \in [Clients -> Request]
      BY <1>0, <2>1 DEF TypeOK, StoreTypeOK, Request
    <2> QED
      BY <1>0, <1>16, <2>2, StagingTyped DEF CompleteMultipartUpload, TypeOK, StoreTypeOK
  <1>17. CASE HashObject(c)
    <2>1. request' \in [Clients -> Request]
      <3>1. CASE object[req.key] = NoObject
        BY <1>17, <3>1, EndTyped DEF HashObject
      <3>2. CASE object[req.key] # NoObject
        <4>1. object[req.key] \in Seq(Bodies)
          BY <1>0, <1>17, <3>2 DEF HashObject, At, RequestsSound, Sound, TypeOK, StoreTypeOK
        <4>2. PICK checksum \in Seq(Bodies), pc \in PCs :
                  request' = [request EXCEPT ![c].checksum = checksum, ![c].pc = pc]
          BY <1>17, <3>2, <4>1, Labels DEF HashObject
        <4> QED
          BY <1>0, <4>2 DEF TypeOK, StoreTypeOK, Request
      <3> QED
        BY <3>1, <3>2
    <2> QED
      BY <1>17, <2>1 DEF HashObject, TypeOK, StoreTypeOK
  <1>18. CASE CheckDigest(c)
    <2>1. request' \in [Clients -> Request]
      BY <1>18, EndTyped, GotoTyped, Labels DEF CheckDigest
    <2>2. trouble' \subseteq Datasets
      BY <1>0, <1>18 DEF CheckDigest, Troubled, TypeOK, StoreTypeOK
    <2> QED
      BY <1>18, <2>1, <2>2 DEF CheckDigest, TypeOK, StoreTypeOK
  <1>19. CASE AssembleInline(c)
    <2> DEFINE content == [i \in DOMAIN req.content |-> staged[req.up].parts[i]]
    <2>1. content \in Seq(Bodies)
      <3>1. \A i \in DOMAIN req.content : content[i] # NoPart
        BY <1>19 DEF AssembleInline
      <3>2. DOMAIN req.content = 1..Len(req.content) /\ Len(req.content) \in Nat
        BY <1>0
      <3>3. \A i \in 1..Len(req.content) : i \in 1..MaxParts
        BY <1>0, <1>19, <3>2 DEF AssembleInline, At, RequestsSound, Sound
      <3>4. \A i \in 1..Len(req.content) : content[i] \in Bodies
        BY <1>u, <3>1, <3>2, <3>3 DEF Parts
      <3>5. content \in [1..Len(req.content) -> Bodies]
        BY <3>2, <3>4
      <3> QED
        BY <3>2, <3>5, FunctionIsContent
    <2>2. PICK new \in Seq(Bodies), pc \in PCs :
              request' = [request EXCEPT ![c].content = new, ![c].checksum = new, ![c].pc = pc]
      BY <1>19, <2>1, Labels DEF AssembleInline
    <2>3. request' \in [Clients -> Request]
      BY <1>0, <2>2 DEF TypeOK, StoreTypeOK, Request
    <2> QED
      BY <1>19, <2>3 DEF AssembleInline, TypeOK, StoreTypeOK
  <1>20. CASE EndSession(c)
    <2>1. request' \in [Clients -> Request]
      BY <1>20, EndTyped, GotoTyped, Labels DEF EndSession
    <2> QED
      BY <1>0, <1>e, <1>20, <2>1 DEF EndSession, TypeOK, StoreTypeOK
  <1>21. CASE RemoveUploadDir(c)
    BY <1>21, EndTyped, StagingTyped DEF RemoveUploadDir, TypeOK, StoreTypeOK
  <1> QED
    BY <1>1, <1>2, <1>3, <1>4, <1>5, <1>6, <1>7, <1>8, <1>9, <1>10, <1>11, <1>12, <1>13,
       <1>14, <1>15, <1>16, <1>17, <1>18, <1>19, <1>20, <1>21 DEF UploadStep

\* Deleting a dataset and its sessions keeps the types.
LEMMA DeleteRowTyped ==
    ASSUME TypeOK, NEW c \in Clients, DeleteRowAndSessions(c)
    PROVE  TypeOK'
  <1>1. request[c].ds \in Datasets
    BY DEF TypeOK, StoreTypeOK, Request
  <1>2. request' \in [Clients -> Request]
    BY EndTyped, GotoTyped, Labels DEF DeleteRowAndSessions, DeleteRow
  <1>3. \A u \in Uploads : [upload[u] EXCEPT !.status = "gone", !.parts = NoParts] \in Upload
    BY StagingTyped DEF TypeOK, Upload
  <1>4. upload' \in [Uploads -> Upload]
    BY <1>3 DEF DeleteRowAndSessions, TypeOK
  <1> QED
    BY <1>1, <1>2, <1>4, RowsTyped DEF DeleteRowAndSessions, DeleteRow, TypeOK, StoreTypeOK

-----------------------------------------------------------------------------
(* What requests carry.                                                    *)

\* A session that was created keeps its dataset.
SessionsKept ==
    \A u \in Uploads : upload[u].status # "none" =>
        upload'[u].status # "none" /\ upload'[u].ds = upload[u].ds

\* A step that replaces one request by a sound one.
LEMMA ReplaceSound ==
    ASSUME Inv, SessionsKept, NEW c \in Clients, NEW r \in Request, Sound(r),
           request' = [request EXCEPT ![c] = r]
    PROVE  RequestsSound'
  <1>1. SUFFICES ASSUME NEW x \in Clients
                 PROVE  Sound(request[x])'
    BY DEF RequestsSound
  <1>2. request'[x] \in Request /\ Sound(request'[x])
    BY DEF Inv, TypeOK, StoreTypeOK, RequestsSound
  <1>3. request'[x].up \in Uploads
    BY <1>2 DEF Request
  <1> QED
    BY <1>2, <1>3 DEF Sound, SessionsKept

\* A request that starts.
LEMMA BeginSound ==
    ASSUME Inv, SessionsKept, NEW c \in Clients, NEW r \in Request, Sound(r), Begin(c, r)
    PROVE  RequestsSound'
  BY ReplaceSound DEF Begin

\* A request that ends.
LEMMA EndSound ==
    ASSUME Inv, SessionsKept, NEW c \in Clients, End(c)
    PROVE  RequestsSound'
  <1>1. Sound(NoRequest)
    BY NoRequestTyped DEF Sound
  <1> QED
    BY <1>1, NoRequestTyped, ReplaceSound DEF End

\* A request that moves on without new values.
LEMMA GotoSound ==
    ASSUME Inv, SessionsKept, NEW c \in Clients, NEW pc \in PCs, Goto(c, pc),
           pc \notin {"get", "hash", "md5", "complete"},
           pc = "row" => request[c].op # "assemble"
    PROVE  RequestsSound'
  <1>1. request[c] \in Request /\ Sound(request[c])
    BY DEF Inv, TypeOK, StoreTypeOK, RequestsSound
  <1>2. PICK r \in Request : r = [request[c] EXCEPT !.pc = pc]
    BY <1>1 DEF Request
  <1>3. Sound(r)
    BY <1>1, <1>2 DEF Sound, Request
  <1>4. request' = [request EXCEPT ![c] = r]
    BY <1>2 DEF Goto, Inv, TypeOK, StoreTypeOK
  <1> QED
    BY <1>3, <1>4, ReplaceSound

\* Requests that start are sound.
LEMMA NewRequestsSound ==
    ASSUME NEW d \in Datasets, NEW content \in Seq(Bodies), NEW pc \in PCs
    PROVE  /\ Sound([NoRequest EXCEPT !.op = "add", !.ds = d, !.content = content,
                                      !.pc = pc, !.checksum = content])
           /\ Sound([NoRequest EXCEPT !.op = "update", !.ds = d, !.pc = pc,
                                      !.content = content, !.checksum = content])
           /\ Sound([NoRequest EXCEPT !.op = "delete", !.ds = d, !.pc = pc])
  BY NoRequestTyped DEF Sound, Request

\* A new row that is live names its own dataset or holds its content.
LEMMA LiveRowSound ==
    ASSUME Inv, NEW d \in Datasets, NEW content, NEW key \in {NoKey, d},
           NEW checksum, key = NoKey => checksum = content,
           dataset' = [dataset EXCEPT ![d] = LiveRow(content, checksum, key)]
    PROVE  RowSound'
  <1>1. SUFFICES ASSUME NEW e \in Datasets, Live(e)'
                 PROVE  \/ dataset'[e].key = NoKey /\ dataset'[e].checksum = dataset'[e].content
                        \/ dataset'[e].key = e /\ dataset'[e].content = <<>>
    BY DEF RowSound
  <1>2. CASE e = d
    BY <1>2 DEF LiveRow, Inv, TypeOK, StoreTypeOK
  <1>3. CASE e # d
    BY <1>1, <1>3 DEF RowSound, Live, Inv, TypeOK, StoreTypeOK
  <1> QED
    BY <1>2, <1>3

\* A row that is not live keeps RowSound.
LEMMA NoRowSound ==
    ASSUME Inv, NEW d \in Datasets, NEW s, s # "live",
           dataset' = [dataset EXCEPT ![d] = NoRow(s)]
    PROVE  RowSound'
  BY DEF RowSound, Live, NoRow, Inv, TypeOK, StoreTypeOK

\* Every step of the store keeps rows and requests sound.
LEMMA StoreStepSound ==
    ASSUME Inv, NEW c \in Clients, StoreStep(c), UNCHANGED <<upload, staged>>
    PROVE  RowSound' /\ RequestsSound'
  <1> DEFINE req == request[c]
  <1>0. /\ request[c] \in Request /\ Sound(req)
        /\ req.ds \in Datasets /\ req.content \in Seq(Bodies) /\ req.checksum \in Seq(Bodies)
        /\ req.key \in Datasets \cup {NoKey} /\ req.prev \in Datasets \cup {NoKey}
    BY DEF Inv, RequestsSound, TypeOK, StoreTypeOK, Request
  <1>k. SessionsKept
    BY DEF SessionsKept
  <1>d. UNCHANGED dataset => RowSound'
    BY DEF Inv, RowSound, Live
  <1>a. UndoOrEnd(c) => RequestsSound'
    BY <1>k, EndSound, GotoSound, Labels DEF UndoOrEnd
  <1>1. CASE AddDataset(c)
    <2>1. PICK d \in Datasets, content \in Contents :
              /\ dataset' = [dataset EXCEPT ![d] = NoRow("new")]
              /\ BeginWrite(c, [NoRequest EXCEPT !.op = "add", !.ds = d, !.content = content,
                                   !.pc = IF UsesStore(content) THEN "put" ELSE "row",
                                   !.checksum = content])
      BY <1>1 DEF AddDataset
    <2>2. PICK pc \in PCs : pc = IF UsesStore(content) THEN "put" ELSE "row"
      BY Labels
    <2>3. PICK r \in Request :
              r = [NoRequest EXCEPT !.op = "add", !.ds = d, !.content = content,
                                    !.pc = pc, !.checksum = content]
      BY <2>2, NewContentTyped, StoreAssumption
    <2>4. Begin(c, r)
      BY <2>1, <2>2, <2>3 DEF BeginWrite
    <2>5. Sound(r)
      BY <2>3, NewRequestsSound, StoreAssumption
    <2> QED
      BY <1>k, <2>1, <2>4, <2>5, BeginSound, NoRowSound
  <1>2. CASE PutObject(c)
    <2>1. PICK r \in Request : r = [req EXCEPT !.pc = "row", !.key = req.ds]
      BY <1>0, Labels DEF Request
    <2>2. request' = [request EXCEPT ![c] = r]
      BY <1>2, <2>1 DEF PutObject, Inv, TypeOK, StoreTypeOK
    <2>3. Sound(r)
      BY <1>0, <1>2, <2>1 DEF PutObject, AtWrite, Sound, Request
    <2> QED
      BY <1>2, <1>d, <1>k, <2>2, <2>3, ReplaceSound DEF PutObject
  <1>3. CASE CreateDataset(c)
    <2>1. req.key \in {NoKey, req.ds} /\ (req.key = NoKey => req.checksum = req.content)
      BY <1>0, <1>3 DEF CreateDataset, At, Sound
    <2>2. RowSound'
      BY <1>0, <1>3, <2>1, LiveRowSound DEF CreateDataset
    <2> QED
      BY <1>3, <1>k, <2>2, EndSound DEF CreateDataset
  <1>4. CASE CreateDatasetFails(c)
    BY <1>a, <1>d, <1>4 DEF CreateDatasetFails
  <1>5. CASE DeleteNewObject(c)
    BY <1>5, <1>d, <1>k, EndSound DEF DeleteNewObject
  <1>6. CASE UpdateDatasetByUuid(c)
    <2>1. PICK d \in Datasets, content \in Contents :
              /\ BeginWrite(c, [NoRequest EXCEPT !.op = "update", !.ds = d, !.pc = "ref",
                                   !.content = content, !.checksum = content])
              /\ UNCHANGED dataset
      BY <1>6 DEF UpdateDatasetByUuid
    <2>2. PICK r \in Request :
              r = [NoRequest EXCEPT !.op = "update", !.ds = d, !.pc = "ref",
                                    !.content = content, !.checksum = content]
      BY NewContentTyped, StoreAssumption, Labels
    <2>3. Sound(r)
      BY <2>2, NewRequestsSound, StoreAssumption, Labels
    <2>4. Begin(c, r)
      BY <2>1, <2>2 DEF BeginWrite
    <2> QED
      BY <1>d, <1>k, <2>1, <2>3, <2>4, BeginSound
  <1>7. CASE ReadPreviousRef(c)
    <2>1. PICK k \in Datasets \cup {NoKey}, pc \in PCs :
              /\ request' = [request EXCEPT ![c].prev = k, ![c].pc = pc]
              /\ pc \in {"parts", "find", "put", "row"}
              /\ pc = "row" => req.op # "assemble"
      <3>1. dataset[req.ds].key \in Datasets \cup {NoKey}
        BY <1>0 DEF Inv, TypeOK, StoreTypeOK, Row
      <3> QED
        BY <1>7, <3>1, Labels DEF ReadPreviousRef, GoOnWithRef
    <2>2. PICK r \in Request : r = [req EXCEPT !.prev = k, !.pc = pc]
      BY <1>0 DEF Request
    <2>3. request' = [request EXCEPT ![c] = r]
      BY <2>1, <2>2 DEF Inv, TypeOK, StoreTypeOK
    <2>4. Sound(r)
      BY <1>0, <2>1, <2>2 DEF Sound, Request
    <2> QED
      BY <1>7, <1>d, <1>k, <2>3, <2>4, ReplaceSound DEF ReadPreviousRef, GoOnWithRef
  <1>8. CASE FindFormat(c)
    <2>1. RequestsSound'
      BY <1>8, <1>k, EndSound, GotoSound, Labels DEF FindFormat
    <2> QED
      BY <1>8, <1>d, <2>1 DEF FindFormat
  <1>9. CASE UpdateDataset(c)
    <2>1. req.key \in {NoKey, req.ds} /\ (req.key = NoKey => req.checksum = req.content)
      BY <1>0, <1>9 DEF UpdateDataset, AtWrite, Sound
    <2>2. RowSound'
      BY <1>0, <1>9, <2>1, LiveRowSound DEF UpdateDataset
    <2>3. RequestsSound'
      BY <1>9, <1>k, EndSound, GotoSound, Labels DEF UpdateDataset, Continue
    <2> QED
      BY <2>2, <2>3
  <1>10. CASE UpdateDatasetFails(c)
    BY <1>a, <1>d, <1>10 DEF UpdateDatasetFails
  <1>11. CASE DeleteOldObject(c)
    <2>1. RequestsSound'
      BY <1>11, <1>k, EndSound, GotoSound, Labels DEF DeleteOldObject
    <2> QED
      BY <1>11, <1>d, <2>1 DEF DeleteOldObject
  <1>12. CASE DeleteDataset(c)
    <2>1. PICK d \in Datasets :
              /\ BeginWrite(c, [NoRequest EXCEPT !.op = "delete", !.ds = d, !.pc = "ref"])
              /\ UNCHANGED dataset
      BY <1>12 DEF DeleteDataset
    <2>2. PICK r \in Request : r = [NoRequest EXCEPT !.op = "delete", !.ds = d, !.pc = "ref"]
      BY NewDeleteTyped, Labels
    <2>3. Sound(r)
      BY <2>2, NewRequestsSound, EmptyIsContent, Labels
    <2>4. Begin(c, r)
      BY <2>1, <2>2 DEF BeginWrite
    <2> QED
      BY <1>d, <1>k, <2>1, <2>3, <2>4, BeginSound
  <1>13. CASE ReadRefToDelete(c)
    <2>1. CASE Live(req.ds)
      <3>1. dataset[req.ds].key \in Datasets \cup {NoKey}
        BY <1>0 DEF Inv, TypeOK, StoreTypeOK, Row
      <3>2. PICK r \in Request : r = [req EXCEPT !.prev = dataset[req.ds].key, !.pc = "row"]
        BY <1>0, <3>1, Labels DEF Request
      <3>3. request' = [request EXCEPT ![c] = r]
        BY <1>13, <2>1, <3>2 DEF ReadRefToDelete, Inv, TypeOK, StoreTypeOK
      <3>4. Sound(r)
        BY <1>0, <1>13, <3>2 DEF ReadRefToDelete, At, Sound, Request
      <3> QED
        BY <1>13, <1>d, <1>k, <3>3, <3>4, ReplaceSound DEF ReadRefToDelete
    <2>2. CASE ~Live(req.ds)
      BY <1>13, <1>d, <1>k, <2>2, EndSound DEF ReadRefToDelete
    <2> QED
      BY <2>1, <2>2
  <1>14. CASE GetDatasetContentByUuid(c)
    <2>1. PICK d \in Datasets :
              /\ Begin(c, [NoRequest EXCEPT !.op = "download", !.ds = d,
                              !.key = dataset[d].key,
                              !.pc = IF dataset[d].key = NoKey THEN "done" ELSE "get",
                              !.checksum = dataset[d].checksum,
                              !.content = dataset[d].content])
              /\ UNCHANGED dataset
      BY <1>14 DEF GetDatasetContentByUuid
    <2>2. /\ dataset[d].key \in Datasets \cup {NoKey}
          /\ dataset[d].checksum \in Seq(Bodies) /\ dataset[d].content \in Seq(Bodies)
      BY DEF Inv, TypeOK, StoreTypeOK, Row
    <2>3. PICK pc \in PCs : pc = IF dataset[d].key = NoKey THEN "done" ELSE "get"
      BY Labels
    <2>4. PICK r \in Request :
              r = [NoRequest EXCEPT !.op = "download", !.ds = d, !.key = dataset[d].key,
                      !.pc = pc, !.checksum = dataset[d].checksum,
                      !.content = dataset[d].content]
      BY <2>2, NewDownloadTyped
    <2>5. Begin(c, r)
      BY <2>1, <2>3, <2>4
    <2>6. Sound(r)
      BY <2>3, <2>4, NoRequestTyped DEF Sound, Request
    <2> QED
      BY <1>d, <1>k, <2>1, <2>5, <2>6, BeginSound
  <1>15. CASE GetObject(c)
    <2>1. CASE object[req.key] # NoObject
      <3>1. object[req.key] \in Seq(Bodies)
        BY <1>0, <1>15, <2>1 DEF GetObject, At, Sound, Inv, TypeOK, StoreTypeOK
      <3>2. PICK r \in Request : r = [req EXCEPT !.content = object[req.key], !.pc = "done"]
        BY <1>0, <3>1, Labels DEF Request
      <3>3. request' = [request EXCEPT ![c] = r]
        BY <1>15, <2>1, <3>2 DEF GetObject, Inv, TypeOK, StoreTypeOK
      <3>4. Sound(r)
        BY <1>0, <1>15, <3>2 DEF GetObject, At, Sound, Request
      <3> QED
        BY <1>15, <1>d, <1>k, <3>3, <3>4, ReplaceSound DEF GetObject
    <2>2. CASE object[req.key] = NoObject
      BY <1>15, <1>d, <1>k, <2>2, EndSound DEF GetObject
    <2> QED
      BY <2>1, <2>2
  <1>16. CASE Abandon(c)
    BY <1>16, <1>d, <1>k, EndSound DEF Abandon
  <1>17. CASE ReadPreviousRefFails(c)
    <2>1. PICK pc \in PCs :
              /\ request' = [request EXCEPT ![c].prev = NoKey, ![c].pc = pc]
              /\ pc \in {"parts", "find", "put", "row"}
              /\ pc = "row" => req.op # "assemble"
      BY <1>17, Labels DEF ReadPreviousRefFails, GoOnWithRef
    <2>2. PICK r \in Request : r = [req EXCEPT !.prev = NoKey, !.pc = pc]
      BY <1>0 DEF Request
    <2>3. request' = [request EXCEPT ![c] = r]
      BY <2>1, <2>2 DEF Inv, TypeOK, StoreTypeOK
    <2>4. Sound(r)
      BY <1>0, <2>1, <2>2 DEF Sound, Request
    <2> QED
      BY <1>17, <1>d, <1>k, <2>3, <2>4, ReplaceSound DEF ReadPreviousRefFails, GoOnWithRef
  <1>18. CASE DeleteOldObjectFails(c)
    <2>1. RequestsSound'
      BY <1>18, <1>k, EndSound, GotoSound, Labels DEF DeleteOldObjectFails
    <2> QED
      BY <1>18, <1>d, <2>1 DEF DeleteOldObjectFails
  <1> QED
    BY <1>1, <1>2, <1>3, <1>4, <1>5, <1>6, <1>7, <1>8, <1>9, <1>10, <1>11, <1>12, <1>13,
       <1>14, <1>15, <1>16, <1>17, <1>18 DEF StoreStep

\* So does every step of the uploads; none of them writes the datasets table.
LEMMA UploadStepSound ==
    ASSUME Inv, NEW c \in Clients, UploadStep(c)
    PROVE  RowSound' /\ RequestsSound'
  <1> DEFINE req == request[c]
  <1>0. /\ request[c] \in Request /\ Sound(req)
        /\ req.ds \in Datasets /\ req.up \in Uploads /\ req.part \in 1..MaxParts
        /\ req.content \in Seq(Bodies) /\ req.checksum \in Seq(Bodies)
        /\ req.key \in Datasets \cup {NoKey}
    BY DEF Inv, RequestsSound, TypeOK, StoreTypeOK, Request
  <1>u. /\ upload \in [Uploads -> Upload] /\ upload[req.up].parts \in Parts
        /\ \A u \in Uploads : upload[u].ds \in Datasets
    BY <1>0 DEF Inv, TypeOK, Upload
  <1>d. UNCHANGED dataset => RowSound'
    BY DEF Inv, RowSound, Live
  <1>k. UNCHANGED upload => SessionsKept
    BY DEF SessionsKept
  <1>e. \A u \in Uploads : EndUpload(u) => SessionsKept
    BY <1>u DEF SessionsKept, EndUpload, Upload
  <1>1. CASE CreateUpload(c)
    <2>1. PICK u \in Uploads, d \in Datasets :
              /\ upload[u].status = "none"
              /\ upload' = [upload EXCEPT ![u].status = "new", ![u].ds = d]
              /\ Begin(c, [NoRequest EXCEPT !.op = "create_upload", !.ds = d, !.up = u,
                                            !.pc = "stage"])
              /\ UNCHANGED dataset
      BY <1>1 DEF CreateUpload
    <2>2. PICK r \in Request :
              r = [NoRequest EXCEPT !.op = "create_upload", !.ds = d, !.up = u, !.pc = "stage"]
      BY NewSessionTyped, Labels
    <2>3. Sound(r)
      BY <2>2, NoRequestTyped DEF Sound, Request
    <2>4. SessionsKept
      BY <1>u, <2>1 DEF SessionsKept, Upload
    <2> QED
      BY <1>d, <2>1, <2>2, <2>3, <2>4, BeginSound
  <1>2. CASE CreateMultipartUpload(c)
    BY <1>2, <1>d, <1>k, GotoSound, Labels DEF CreateMultipartUpload, At
  <1>3. CASE CreateDatasetUpload(c)
    <2>1. SessionsKept
      BY <1>3, <1>u DEF CreateDatasetUpload, SessionsKept, Upload
    <2> QED
      BY <1>3, <1>d, <2>1, EndSound DEF CreateDatasetUpload
  <1>4. CASE CreateDatasetUploadFails(c)
    BY <1>4, <1>d, <1>k, GotoSound, Labels DEF CreateDatasetUploadFails, At
  <1>5. CASE AbortNewUpload(c)
    BY <1>5, <1>d, <1>k, EndSound DEF AbortNewUpload
  <1>6. CASE UploadPart(c)
    <2>1. PICK u \in Uploads, d \in Datasets, n \in 1..MaxParts, body \in Bodies :
              /\ Begin(c, [NoRequest EXCEPT !.op = "upload_part", !.ds = d, !.up = u,
                              !.part = n, !.content = <<body>>, !.pc = "stage"])
              /\ UNCHANGED <<dataset, upload>>
      BY <1>6 DEF UploadPart
    <2>2. PICK content \in Seq(Bodies) : content = <<body>>
      BY OneIsContent
    <2>3. PICK r \in Request :
              r = [NoRequest EXCEPT !.op = "upload_part", !.ds = d, !.up = u,
                              !.part = n, !.content = content, !.pc = "stage"]
      BY NewPartTyped, Labels
    <2>4. content # <<>>
      BY <2>2
    <2>5. Sound(r)
      BY <2>3, <2>4, NoRequestTyped DEF Sound, Request
    <2>6. Begin(c, r)
      BY <2>1, <2>2, <2>3
    <2> QED
      BY <1>d, <1>k, <2>1, <2>5, <2>6, BeginSound
  <1>7. CASE StagePart(c)
    BY <1>7, <1>d, <1>k, GotoSound, Labels DEF StagePart, At
  <1>8. CASE UpsertDatasetUploadPart(c)
    <2>1. SessionsKept
      BY <1>8, <1>u DEF UpsertDatasetUploadPart, SessionsKept, Upload
    <2> QED
      BY <1>8, <1>d, <2>1, EndSound DEF UpsertDatasetUploadPart
  <1>9. CASE UpsertDatasetUploadPartFails(c)
    <2>1. RequestsSound'
      BY <1>9, <1>k, EndSound, GotoSound, Labels DEF UpsertDatasetUploadPartFails
    <2> QED
      BY <1>9, <1>d, <2>1 DEF UpsertDatasetUploadPartFails
  <1>10. CASE RemovePartFile(c)
    BY <1>10, <1>d, <1>k, EndSound DEF RemovePartFile
  <1>11. CASE CancelUpload(c)
    <2>1. PICK u \in Uploads, d \in Datasets :
              /\ Begin(c, [NoRequest EXCEPT !.op = "cancel", !.ds = d, !.up = u,
                                            !.pc = "unstage"])
              /\ UNCHANGED <<dataset, upload>>
      BY <1>11 DEF CancelUpload
    <2>2. PICK r \in Request :
              r = [NoRequest EXCEPT !.op = "cancel", !.ds = d, !.up = u, !.pc = "unstage"]
      BY NewSessionTyped, Labels
    <2>3. Sound(r)
      BY <2>2, NoRequestTyped DEF Sound, Request
    <2> QED
      BY <1>d, <1>k, <2>1, <2>2, <2>3, BeginSound
  <1>12. CASE AbortUpload(c)
    BY <1>12, <1>d, <1>k, GotoSound, Labels DEF AbortUpload, At
  <1>13. CASE CancelDatasetUpload(c)
    BY <1>0, <1>13, <1>d, <1>e, EndSound DEF CancelDatasetUpload
  <1>14. CASE AssembleUpload(c)
    <2>1. PICK u \in Uploads, d \in Datasets, digest \in Digests :
              /\ LiveUpload(u) /\ Owns(u, d)
              /\ BeginWrite(c, [NoRequest EXCEPT !.op = "assemble", !.ds = d, !.up = u,
                                   !.digest = digest, !.pc = "ref"])
              /\ UNCHANGED <<dataset, upload>>
      BY <1>14 DEF AssembleUpload
    <2>2. PICK r \in Request :
              r = [NoRequest EXCEPT !.op = "assemble", !.ds = d, !.up = u,
                                    !.digest = digest, !.pc = "ref"]
      BY NewAssembleTyped, UploadAssumption, Labels
    <2>3. Sound(r)
      BY <2>1, <2>2, NoRequestTyped DEF Sound, Request, LiveUpload, Owns
    <2>4. Begin(c, r)
      BY <2>1, <2>2 DEF BeginWrite
    <2> QED
      BY <1>d, <1>k, <2>1, <2>3, <2>4, BeginSound
  <1>15. CASE ReadParts(c)
    <2>1. CASE End(c)
      BY <1>15, <1>d, <1>k, <2>1, EndSound DEF ReadParts
    <2>2. CASE \E n \in 1..MaxParts :
                  /\ Assembles(upload[req.up].parts, n)
                  /\ request' = [request EXCEPT
                                    ![c].content = [i \in 1..n |-> upload[req.up].parts[i]],
                                    ![c].pc = "complete"]
      <3>1. PICK n \in 1..MaxParts :
                  /\ Assembles(upload[req.up].parts, n)
                  /\ request' = [request EXCEPT
                                    ![c].content = [i \in 1..n |-> upload[req.up].parts[i]],
                                    ![c].pc = "complete"]
        BY <2>2
      <3>2. \A i \in 1..n : i \in 1..MaxParts /\ upload[req.up].parts[i] # NoPart
        BY <3>1 DEF Assembles
      <3>3. \A i \in 1..n : upload[req.up].parts[i] \in Bodies
        BY <1>u, <3>2 DEF Parts
      <3>4. [i \in 1..n |-> upload[req.up].parts[i]] \in Seq(Bodies)
        BY <3>3, StoreAssumption
      <3>5. PICK content \in Seq(Bodies) :
                /\ content = [i \in 1..n |-> upload[req.up].parts[i]]
                /\ DOMAIN content \subseteq 1..MaxParts
        BY <3>2, <3>4
      <3>6. PICK r \in Request : r = [req EXCEPT !.content = content, !.pc = "complete"]
        BY <1>0, Labels DEF Request
      <3>7. request' = [request EXCEPT ![c] = r]
        BY <3>1, <3>5, <3>6 DEF Inv, TypeOK, StoreTypeOK
      <3>8. Sound(r)
        BY <1>0, <1>15, <3>5, <3>6 DEF ReadParts, At, Sound, Request
      <3> QED
        BY <1>15, <1>d, <1>k, <3>7, <3>8, ReplaceSound DEF ReadParts
    <2> QED
      BY <1>15, <2>1, <2>2 DEF ReadParts
  <1>16. CASE CompleteMultipartUpload(c)
    <2>1. upload[req.up].ds = req.ds
      BY <1>0, <1>16 DEF CompleteMultipartUpload, At, Sound
    <2>2. PICK r \in Request : r = [req EXCEPT !.key = req.ds, !.pc = "hash"]
      BY <1>0, Labels DEF Request
    <2>3. request' = [request EXCEPT ![c] = r]
      BY <1>16, <2>1, <2>2 DEF CompleteMultipartUpload, Inv, TypeOK, StoreTypeOK
    <2>4. Sound(r)
      BY <1>0, <1>16, <2>2, StoreAssumption DEF CompleteMultipartUpload, At, Sound, Request
    <2> QED
      BY <1>16, <1>d, <1>k, <2>3, <2>4, ReplaceSound DEF CompleteMultipartUpload
  <1>17. CASE HashObject(c)
    <2>1. CASE object[req.key] = NoObject
      BY <1>17, <1>d, <1>k, <2>1, EndSound DEF HashObject
    <2>2. CASE object[req.key] # NoObject
      <3>1. object[req.key] \in Seq(Bodies)
        BY <1>0, <1>17, <2>2 DEF HashObject, At, Sound, Inv, TypeOK, StoreTypeOK
      <3>2. PICK pc \in PCs : pc = IF req.digest = NoDigest THEN "row" ELSE "md5"
        BY Labels
      <3>3. PICK r \in Request : r = [req EXCEPT !.checksum = object[req.key], !.pc = pc]
        BY <1>0, <3>1 DEF Request
      <3>4. request' = [request EXCEPT ![c] = r]
        BY <1>17, <2>2, <3>2, <3>3 DEF HashObject, Inv, TypeOK, StoreTypeOK
      <3>5. Sound(r)
        BY <1>0, <1>17, <3>2, <3>3 DEF HashObject, At, Sound, Request
      <3> QED
        BY <1>17, <1>d, <1>k, <3>4, <3>5, ReplaceSound DEF HashObject
    <2> QED
      BY <2>1, <2>2
  <1>18. CASE CheckDigest(c)
    <2>1. CASE End(c)
      BY <1>18, <1>d, <1>k, <2>1, EndSound DEF CheckDigest
    <2>2. CASE Goto(c, "row")
      <3>1. PICK r \in Request : r = [req EXCEPT !.pc = "row"]
        BY <1>0, Labels DEF Request
      <3>2. request' = [request EXCEPT ![c] = r]
        BY <2>2, <3>1 DEF Goto, Inv, TypeOK, StoreTypeOK
      <3>3. Sound(r)
        BY <1>0, <1>18, <3>1 DEF CheckDigest, At, Sound, Request
      <3> QED
        BY <1>18, <1>d, <1>k, <3>2, <3>3, ReplaceSound DEF CheckDigest
    <2> QED
      BY <1>18, <2>1, <2>2 DEF CheckDigest
  <1>19. CASE AssembleInline(c)
    <2> DEFINE content == [i \in DOMAIN req.content |-> staged[req.up].parts[i]]
    <2>1. request' \in [Clients -> Request]
      BY UploadStepTyped DEF Inv, TypeOK, StoreTypeOK
    <2>2. /\ request' = [request EXCEPT ![c] = request'[c]]
          /\ request'[c].op = req.op /\ request'[c].up = req.up /\ request'[c].ds = req.ds
          /\ request'[c].key = req.key /\ request'[c].pc = "row"
          /\ request'[c].checksum = content /\ request'[c].content = content
      BY <1>0, <1>19 DEF AssembleInline, Inv, TypeOK, StoreTypeOK, Request
    <2>3. Sound(request'[c])
      BY <1>0, <1>19, <2>2 DEF AssembleInline, At, Sound
    <2> QED
      BY <1>19, <1>d, <1>k, <2>1, <2>2, <2>3, ReplaceSound DEF AssembleInline
  <1>20. CASE EndSession(c)
    <2>1. SessionsKept
      BY <1>0, <1>20, <1>e DEF EndSession
    <2>2. RequestsSound'
      BY <1>20, <2>1, EndSound, GotoSound, Labels DEF EndSession
    <2> QED
      BY <1>20, <1>d, <2>2 DEF EndSession
  <1>21. CASE RemoveUploadDir(c)
    BY <1>21, <1>d, <1>k, EndSound DEF RemoveUploadDir
  <1> QED
    BY <1>1, <1>2, <1>3, <1>4, <1>5, <1>6, <1>7, <1>8, <1>9, <1>10, <1>11, <1>12, <1>13,
       <1>14, <1>15, <1>16, <1>17, <1>18, <1>19, <1>20, <1>21 DEF UploadStep

\* Deleting a dataset: no live row is written, and its sessions end.
LEMMA DeleteRowSound ==
    ASSUME Inv, NEW c \in Clients, DeleteRowAndSessions(c)
    PROVE  RowSound' /\ RequestsSound'
  <1>1. request[c].ds \in Datasets
    BY DEF Inv, TypeOK, StoreTypeOK, Request
  <1>2. RowSound'
    BY <1>1, NoRowSound DEF DeleteRowAndSessions, DeleteRow
  <1>3. SessionsKept
    BY DEF DeleteRowAndSessions, SessionsKept, Inv, TypeOK, Upload
  <1>4. RequestsSound'
    BY <1>3, EndSound, GotoSound, Labels DEF DeleteRowAndSessions, DeleteRow, At
  <1> QED
    BY <1>2, <1>4

-----------------------------------------------------------------------------
(* The state before any request satisfies Inv.                             *)
LEMMA InitInv == Init => Inv
  <1> SUFFICES ASSUME Init
               PROVE  Inv
    OBVIOUS
  <1>1. TypeOK
    BY NoRequestTyped, RowsTyped, StagingTyped, EmptyIsContent, StoreAssumption
       DEF Init, StoreInit, TypeOK, StoreTypeOK
  <1>2. RowSound
    BY DEF Init, StoreInit, RowSound, Live, LiveRow, NoRow
  <1>3. RequestsSound
    BY NoRequestTyped DEF Init, StoreInit, RequestsSound, Sound
  <1> QED
    BY <1>1, <1>2, <1>3 DEF Inv

\* Every step keeps Inv.
LEMMA NextInv == Inv /\ [Next]_vars => Inv'
  <1> SUFFICES ASSUME Inv, [Next]_vars
               PROVE  Inv'
    OBVIOUS
  <1>1. CASE UNCHANGED vars
    BY <1>1 DEF Inv, vars, storeVars, TypeOK, StoreTypeOK, RowSound, Live, RequestsSound, Sound
  <1>2. ASSUME NEW c \in Clients, StoreStep(c), UNCHANGED <<upload, staged>>
        PROVE  Inv'
    BY <1>2, StoreStepTyped, StoreStepSound DEF Inv
  <1>3. ASSUME NEW c \in Clients, DeleteRowAndSessions(c)
        PROVE  Inv'
    BY <1>3, DeleteRowTyped, DeleteRowSound DEF Inv
  <1>4. ASSUME NEW c \in Clients, UploadStep(c)
        PROVE  Inv'
    BY <1>4, UploadStepTyped, UploadStepSound DEF Inv
  <1> QED
    BY <1>1, <1>2, <1>3, <1>4 DEF Next

\* Inv holds in every reachable state.
THEOREM DatasetInvariant == Spec => []Inv
  BY InitInv, NextInv, PTL DEF Spec

(* Tables, object store, staging areas and requests always have their      *)
(* types, however the requests interleave and wherever they stop.          *)
THEOREM DatasetsTyped == Spec => []TypeOK
  <1>1. Inv => TypeOK
    BY DEF Inv
  <1> QED
    BY <1>1, DatasetInvariant, PTL

(* A live row of the datasets table names the object of its own dataset or *)
(* holds the content of its checksum, for any number of datasets, upload   *)
(* sessions, concurrent clients and failures.                              *)
THEOREM RowsAreSound == Spec => []RowSound
  <1>1. Inv => RowSound
    BY DEF Inv
  <1> QED
    BY <1>1, DatasetInvariant, PTL

-----------------------------------------------------------------------------
(* The life of datasets and sessions.  A dataset and a session are created *)
(* once, by one request, and what is deleted or gone stays so; every       *)
(* request but the one that creates it is about something that exists.     *)

Placed(c) ==
    LET req == request[c]
    IN  /\ req.op = "add" => dataset[req.ds].status = "new"
        /\ req.op \in {"update", "delete", "assemble"} => Known(req.ds)
        /\ req.op \in WriteOps => req.key \in {NoKey, req.ds} /\ req.prev \in {NoKey, req.ds}
        /\ req.op = "delete" => req.key = NoKey
        /\ req.pc = "undo" => req.key # NoKey
        /\ req.pc = "drop" => req.prev # NoKey
        /\ req.op = "create_upload" => upload[req.up].status = "new"
        /\ req.op \in {"upload_part", "cancel", "assemble"} =>
              upload[req.up].status \in {"live", "gone"}

\* No two requests create the same dataset, or the same session.
OneCreator ==
    \A c, e \in Clients : c # e =>
        /\ ~(request[c].op = "add" /\ request[e].op = "add"
                /\ request[c].ds = request[e].ds)
        /\ ~(request[c].op = "create_upload" /\ request[e].op = "create_upload"
                /\ request[c].up = request[e].up)

Lifecycle ==
    /\ \A d \in Datasets : ~Live(d) => dataset[d].key = NoKey
    /\ \A u \in Uploads : upload[u].status # "none" => Known(upload[u].ds)
    /\ \A c \in Clients : Placed(c)
    /\ OneCreator

\* A row is inserted by the request that creates it, and a deleted one stays so.
RowsMove(c) ==
    \A d \in Datasets :
        \/ dataset'[d] = dataset[d]
        \/ /\ dataset'[d].status # "live" => dataset'[d].key = NoKey
           /\ \/ dataset[d].status = "none" /\ dataset'[d].status = "new"
              \/ dataset[d].status = "live" /\ dataset'[d].status \in {"live", "deleted"}
              \/ dataset[d].status = "deleted" /\ dataset'[d].status = "deleted"
              \/ /\ request[c].op = "add" /\ request[c].ds = d
                 /\ dataset[d].status = "new" /\ dataset'[d].status = "live"

\* So is a session.
SessionsMove(c) ==
    \A u \in Uploads :
        \/ upload'[u].status = upload[u].status /\ upload'[u].ds = upload[u].ds
        \/ /\ upload[u].status = "none" /\ upload'[u].status = "new"
           /\ Known(upload'[u].ds)
        \/ /\ upload'[u].ds = upload[u].ds
           /\ \/ upload[u].status \in {"live", "gone"} /\ upload'[u].status = "gone"
              \/ /\ request[c].op = "create_upload" /\ request[c].up = u
                 /\ upload[u].status = "new" /\ upload'[u].status = "live"

\* What a step of c does to the request of c and to nobody else's.
RequestMoves(c) ==
    /\ \A e \in Clients \ {c} : request'[e] = request[e]
    /\ Placed(c)'
    /\ request'[c].op = "add" =>
          \/ request[c].op = "add" /\ request'[c].ds = request[c].ds
          \/ dataset[request'[c].ds].status = "none"
    /\ request'[c].op = "create_upload" =>
          \/ request[c].op = "create_upload" /\ request'[c].up = request[c].up
          \/ upload[request'[c].up].status = "none"

Moves(c) == RowsMove(c) /\ SessionsMove(c) /\ RequestMoves(c)

\* Such a step keeps Lifecycle.
LEMMA MovesLifecycle ==
    ASSUME TypeOK, TypeOK', Lifecycle, NEW c \in Clients, Moves(c)
    PROVE  Lifecycle'
  <1>t. \A e \in Clients : /\ request[e].ds \in Datasets /\ request[e].up \in Uploads
                           /\ request'[e].ds \in Datasets /\ request'[e].up \in Uploads
    BY DEF TypeOK, StoreTypeOK, Request
  <1>u. \A u \in Uploads : upload[u].ds \in Datasets /\ upload'[u].ds \in Datasets
    BY DEF TypeOK, Upload
  <1>k. \A d \in Datasets : Known(d) => Known(d)'
    BY DEF Moves, RowsMove, Known
  <1>1. \A d \in Datasets : (~Live(d) => dataset[d].key = NoKey)'
    BY DEF Moves, RowsMove, Live, Lifecycle
  <1>2. \A u \in Uploads : (upload[u].status # "none" => Known(upload[u].ds))'
    <2> SUFFICES ASSUME NEW u \in Uploads, upload'[u].status # "none"
                 PROVE  dataset'[upload'[u].ds].status \in {"live", "deleted"}
      BY DEF Known
    <2>1. CASE upload'[u].ds = upload[u].ds /\ upload[u].status # "none"
      <3>1. Known(upload[u].ds)
        BY <2>1 DEF Lifecycle
      <3>2. dataset'[upload[u].ds].status \in {"live", "deleted"}
        BY <3>1, <1>k, <1>u DEF Known
      <3> QED
        BY <3>2, <2>1
    <2>2. CASE Known(upload'[u].ds)
      <3>1. dataset'[upload'[u].ds].status \in {"live", "deleted"}
        BY <2>2, <1>k, <1>u DEF Known
      <3> QED
        BY <3>1
    <2> QED
      BY <2>1, <2>2 DEF Moves, SessionsMove
  <1>3. \A e \in Clients : Placed(e)'
    <2> SUFFICES ASSUME NEW e \in Clients \ {c}
                 PROVE  Placed(e)'
      BY DEF Moves, RequestMoves
    <2>1. request'[e] = request[e] /\ Placed(e)
      BY DEF Moves, RequestMoves, Lifecycle
    <2>2. ~(request[c].op = "add" /\ request[e].op = "add" /\ request[c].ds = request[e].ds)
      BY DEF Lifecycle, OneCreator
    <2>3. ~(request[c].op = "create_upload" /\ request[e].op = "create_upload"
                /\ request[c].up = request[e].up)
      BY DEF Lifecycle, OneCreator
    <2>4. request[e].op = "add" => dataset'[request[e].ds].status = "new"
      BY <1>t, <2>1, <2>2 DEF Placed, Moves, RowsMove
    <2>5. request[e].op = "create_upload" => upload'[request[e].up].status = "new"
      BY <1>t, <2>1, <2>3 DEF Placed, Moves, SessionsMove
    <2>6. request[e].op \in {"upload_part", "cancel", "assemble"} =>
              upload'[request[e].up].status \in {"live", "gone"}
      BY <1>t, <2>1 DEF Placed, Moves, SessionsMove
    <2>7. request[e].op \in {"update", "delete", "assemble"} =>
              dataset'[request[e].ds].status \in {"live", "deleted"}
      BY <1>t, <1>k, <2>1 DEF Placed, Known
    <2> QED
      BY <2>1, <2>4, <2>5, <2>6, <2>7 DEF Placed, Known
  <1>4. OneCreator'
    <2>1. ASSUME NEW e \in Clients \ {c}
          PROVE  /\ ~(request'[c].op = "add" /\ request'[e].op = "add"
                        /\ request'[c].ds = request'[e].ds)
                 /\ ~(request'[c].op = "create_upload" /\ request'[e].op = "create_upload"
                        /\ request'[c].up = request'[e].up)
      <3>1. request'[e] = request[e] /\ Placed(e)
        BY DEF Moves, RequestMoves, Lifecycle
      <3>2. /\ ~(request[c].op = "add" /\ request[e].op = "add"
                        /\ request[c].ds = request[e].ds)
            /\ ~(request[c].op = "create_upload" /\ request[e].op = "create_upload"
                        /\ request[c].up = request[e].up)
        BY DEF Lifecycle, OneCreator
      <3> QED
        BY <3>1, <3>2 DEF Moves, RequestMoves, Placed
    <2>2. ASSUME NEW e \in Clients \ {c}, NEW f \in Clients \ {c}, e # f
          PROVE  /\ ~(request'[e].op = "add" /\ request'[f].op = "add"
                        /\ request'[e].ds = request'[f].ds)
                 /\ ~(request'[e].op = "create_upload" /\ request'[f].op = "create_upload"
                        /\ request'[e].up = request'[f].up)
      BY <2>2 DEF Moves, RequestMoves, Lifecycle, OneCreator
    <2> QED
      BY <2>1, <2>2 DEF OneCreator
  <1> QED
    BY <1>1, <1>2, <1>3, <1>4 DEF Lifecycle

\* What End and Goto do to the requests.
LEMMA EndGoto ==
    ASSUME TypeOK, NEW c \in Clients
    PROVE  /\ End(c) => /\ request'[c] = NoRequest
                        /\ \A e \in Clients \ {c} : request'[e] = request[e]
           /\ \A pc : Goto(c, pc) =>
                /\ request'[c] = [request[c] EXCEPT !.pc = pc]
                /\ request'[c].pc = pc /\ request'[c].op = request[c].op
                /\ request'[c].ds = request[c].ds /\ request'[c].up = request[c].up
                /\ request'[c].key = request[c].key /\ request'[c].prev = request[c].prev
                /\ request'[c].content = request[c].content
                /\ request'[c].checksum = request[c].checksum
                /\ \A e \in Clients \ {c} : request'[e] = request[e]
  BY DEF End, Goto, TypeOK, StoreTypeOK, Request

\* The idle request is about nothing.
LEMMA Idle ==
    /\ NoRequest.op = "none" /\ NoRequest.pc = "idle"
    /\ NoRequest.key = NoKey /\ NoRequest.prev = NoKey
  BY DEF NoRequest

\* What Begin does to the requests.
LEMMA BeginMoves ==
    ASSUME TypeOK, NEW c \in Clients, NEW req, Begin(c, req)
    PROVE  request'[c] = req /\ \A e \in Clients \ {c} : request'[e] = request[e]
  BY DEF Begin, TypeOK, StoreTypeOK

\* Ending a request.
LEMMA EndMoves ==
    ASSUME TypeOK, NEW c \in Clients, End(c), RowsMove(c), SessionsMove(c)
    PROVE  Moves(c)
  <1>1. request'[c] = NoRequest /\ \A e \in Clients \ {c} : request'[e] = request[e]
    BY EndGoto
  <1> QED
    BY <1>1, Idle DEF Moves, RequestMoves, Placed, WriteOps

\* Moving a request on.
LEMMA GotoMoves ==
    ASSUME TypeOK, Lifecycle, NEW c \in Clients, NEW pc, Goto(c, pc), RowsMove(c), SessionsMove(c),
           request[c].op = "add" => UNCHANGED dataset,
           request[c].op = "create_upload" => UNCHANGED upload,
           pc = "undo" => request[c].key # NoKey,
           pc = "drop" => request[c].prev # NoKey
    PROVE  Moves(c)
  <1>1. /\ request'[c].pc = pc /\ request'[c].op = request[c].op
        /\ request'[c].ds = request[c].ds /\ request'[c].up = request[c].up
        /\ request'[c].key = request[c].key /\ request'[c].prev = request[c].prev
        /\ \A e \in Clients \ {c} : request'[e] = request[e]
    BY EndGoto
  <1>2. Placed(c) /\ request[c].ds \in Datasets /\ request[c].up \in Uploads
    BY DEF Lifecycle, TypeOK, StoreTypeOK, Request
  <1>3. Placed(c)'
    BY <1>1, <1>2 DEF Placed, Known, RowsMove, SessionsMove
  <1> QED
    BY <1>1, <1>3 DEF Moves, RequestMoves

\* Leaving datasets or sessions alone.
LEMMA StayMoves ==
    /\ UNCHANGED dataset => \A c \in Clients : RowsMove(c)
    /\ UNCHANGED upload => \A c \in Clients : SessionsMove(c)
  BY DEF RowsMove, SessionsMove

\* Rewriting one row.
LEMMA OneRowMoves ==
    ASSUME TypeOK, NEW c \in Clients, NEW d \in Datasets, NEW row,
           dataset' = [dataset EXCEPT ![d] = row],
           row.status # "live" => row.key = NoKey,
           \/ dataset[d].status = "none" /\ row.status = "new"
           \/ dataset[d].status = "live" /\ row.status \in {"live", "deleted"}
           \/ dataset[d].status = "deleted" /\ row.status = "deleted"
           \/ /\ request[c].op = "add" /\ request[c].ds = d
              /\ dataset[d].status = "new" /\ row.status = "live"
    PROVE  RowsMove(c)
  <1>1. dataset'[d] = row /\ \A x \in Datasets : x # d => dataset'[x] = dataset[x]
    BY DEF TypeOK, StoreTypeOK
  <1> QED
    BY <1>1 DEF RowsMove

\* The rows written have the status they are written with.
LEMMA RowStatus ==
    /\ \A s : NoRow(s).status = s /\ NoRow(s).key = NoKey
    /\ \A content, checksum, key :
          /\ LiveRow(content, checksum, key).status = "live"
          /\ LiveRow(content, checksum, key).key = key
          /\ LiveRow(content, checksum, key).checksum = checksum
  BY DEF NoRow, LiveRow

\* Steps of the store.
LEMMA StoreMoves ==
    ASSUME Inv, Lifecycle, NEW c \in Clients, StoreStep(c), UNCHANGED <<upload, staged>>
    PROVE  Moves(c)
  <1> DEFINE req == request[c]
  <1>0. /\ TypeOK /\ Placed(c) /\ request[c] \in Request
        /\ req.ds \in Datasets /\ req.key \in Datasets \cup {NoKey}
        /\ req.prev \in Datasets \cup {NoKey}
    BY DEF Inv, Lifecycle, TypeOK, StoreTypeOK, Request
  <1>s. SessionsMove(c)
    BY StayMoves
  <1>d. UNCHANGED dataset => RowsMove(c)
    BY StayMoves
  <1>e. UNCHANGED dataset /\ End(c) => Moves(c)
    BY <1>0, <1>s, <1>d, EndMoves
  <1>g. \A pc : UNCHANGED dataset /\ Goto(c, pc) /\ pc \notin {"undo", "drop"} => Moves(c)
    BY <1>0, <1>s, <1>d, GotoMoves
  <1>k. \A d \in Datasets : dataset[d].key \in {NoKey, d}
    BY DEF Inv, RowSound, Lifecycle
  <1>u. UNCHANGED dataset /\ UndoOrEnd(c) => Moves(c)
    BY <1>0, <1>s, <1>d, EndMoves, GotoMoves DEF UndoOrEnd
  <1>1. CASE AddDataset(c)
    <2>1. PICK d \in Datasets, content \in Contents :
              /\ dataset[d].status = "none"
              /\ dataset' = [dataset EXCEPT ![d] = NoRow("new")]
              /\ BeginWrite(c, [NoRequest EXCEPT !.op = "add", !.ds = d, !.content = content,
                                   !.pc = IF UsesStore(content) THEN "put" ELSE "row",
                                   !.checksum = content])
      BY <1>1 DEF AddDataset
    <2>2. PICK r : r = [NoRequest EXCEPT !.op = "add", !.ds = d, !.content = content,
                           !.pc = IF UsesStore(content) THEN "put" ELSE "row",
                           !.checksum = content]
      OBVIOUS
    <2>3. r.op = "add" /\ r.ds = d /\ r.key = NoKey /\ r.prev = NoKey /\ r.pc \in {"put", "row"}
      BY <2>2 DEF NoRequest
    <2>4. request'[c] = r /\ \A e \in Clients \ {c} : request'[e] = request[e]
      BY <1>0, <2>1, <2>2, BeginMoves DEF BeginWrite
    <2>5. RowsMove(c)
      BY <1>0, <2>1, OneRowMoves, RowStatus
    <2>6. dataset'[d].status = "new"
      BY <2>1, <1>0, RowStatus DEF TypeOK, StoreTypeOK
    <2>7. Placed(c)'
      BY <2>3, <2>4, <2>6 DEF Placed
    <2> QED
      BY <1>s, <2>1, <2>3, <2>4, <2>5, <2>7 DEF Moves, RequestMoves
  <1>2. CASE PutObject(c)
    <2>1. /\ request'[c].op = req.op /\ request'[c].ds = req.ds /\ request'[c].pc = "row"
          /\ request'[c].key = req.ds /\ request'[c].prev = req.prev
          /\ req.op \in {"add", "update"} /\ UNCHANGED dataset
          /\ \A e \in Clients \ {c} : request'[e] = request[e]
      BY <1>0, <1>2 DEF PutObject, AtWrite, TypeOK, StoreTypeOK, Request
    <2>2. Placed(c)'
      BY <1>0, <2>1 DEF Placed, Known
    <2> QED
      BY <1>s, <1>d, <2>1, <2>2 DEF Moves, RequestMoves
  <1>3. CASE CreateDataset(c)
    <2>1. RowsMove(c)
      <3>1. PICK row : row = LiveRow(req.content, req.checksum, req.key)
        OBVIOUS
      <3>2. dataset' = [dataset EXCEPT ![req.ds] = row] /\ row.status = "live"
        BY <1>3, <3>1, RowStatus DEF CreateDataset
      <3> QED
        BY <1>0, <1>3, <3>2, OneRowMoves DEF CreateDataset, At, Placed
    <2> QED
      BY <1>0, <1>s, <1>3, <2>1, EndMoves DEF CreateDataset
  <1>4. CASE CreateDatasetFails(c)
    BY <1>4, <1>u DEF CreateDatasetFails
  <1>5. CASE DeleteNewObject(c)
    BY <1>5, <1>e DEF DeleteNewObject
  <1>6. CASE UpdateDatasetByUuid(c)
    <2>1. PICK d \in Datasets, content \in Contents :
              /\ Known(d)
              /\ BeginWrite(c, [NoRequest EXCEPT !.op = "update", !.ds = d, !.pc = "ref",
                                   !.content = content, !.checksum = content])
              /\ UNCHANGED dataset
      BY <1>6 DEF UpdateDatasetByUuid
    <2>2. PICK r : r = [NoRequest EXCEPT !.op = "update", !.ds = d, !.pc = "ref",
                           !.content = content, !.checksum = content]
      OBVIOUS
    <2>3. r.op = "update" /\ r.ds = d /\ r.key = NoKey /\ r.prev = NoKey /\ r.pc = "ref"
      BY <2>2 DEF NoRequest
    <2>4. request'[c] = r /\ \A e \in Clients \ {c} : request'[e] = request[e]
      BY <1>0, <2>1, <2>2, BeginMoves DEF BeginWrite
    <2>5. Placed(c)'
      BY <2>1, <2>3, <2>4 DEF Placed, Known
    <2> QED
      BY <1>s, <1>d, <2>1, <2>3, <2>4, <2>5 DEF Moves, RequestMoves
  <1>7. CASE ReadPreviousRef(c)
    <2>1. PICK pc : /\ request' = [request EXCEPT ![c].prev = dataset[req.ds].key, ![c].pc = pc]
                    /\ pc \in {"parts", "find", "put", "row"}
      BY <1>7 DEF ReadPreviousRef, GoOnWithRef
    <2>2. /\ request'[c].op = req.op /\ request'[c].ds = req.ds /\ request'[c].pc = pc
          /\ request'[c].key = req.key /\ request'[c].prev = dataset[req.ds].key
          /\ request'[c].up = req.up
          /\ \A e \in Clients \ {c} : request'[e] = request[e]
      BY <1>0, <2>1 DEF TypeOK, StoreTypeOK, Request
    <2>3. req.op \in {"update", "assemble"} /\ UNCHANGED dataset
      BY <1>7 DEF ReadPreviousRef, GoOnWithRef, AtWrite
    <2>4. Placed(c)'
      BY <1>0, <1>k, <2>1, <2>2, <2>3 DEF Placed, Known
    <2> QED
      BY <1>s, <1>d, <2>2, <2>3, <2>4 DEF Moves, RequestMoves
  <1>8. CASE FindFormat(c)
    BY <1>8, <1>e, <1>g DEF FindFormat
  <1>9. CASE UpdateDataset(c)
    <2>1. RowsMove(c)
      <3>1. PICK row : row = LiveRow(req.content, req.checksum, req.key)
        OBVIOUS
      <3>2. dataset' = [dataset EXCEPT ![req.ds] = row] /\ row.status = "live"
        BY <1>9, <3>1, RowStatus DEF UpdateDataset
      <3> QED
        BY <1>0, <1>9, <3>2, OneRowMoves DEF UpdateDataset, Live
    <2>2. req.op \in {"update", "assemble"}
      BY <1>9 DEF UpdateDataset, AtWrite
    <2>3. Continue(c, PcAfterUpdate(c)) /\ (PcAfterUpdate(c) = "drop" => req.prev # NoKey)
      BY <1>9 DEF UpdateDataset, PcAfterUpdate, OldObjectUnused
    <2>4. PcAfterUpdate(c) # "undo"
      BY Labels
    <2> QED
      BY <1>0, <1>s, <2>1, <2>2, <2>3, <2>4, EndMoves, GotoMoves DEF Continue
  <1>10. CASE UpdateDatasetFails(c)
    BY <1>10, <1>u DEF UpdateDatasetFails
  <1>11. CASE DeleteOldObject(c)
    BY <1>11, <1>e, <1>g DEF DeleteOldObject
  <1>12. CASE DeleteDataset(c)
    <2>1. PICK d \in Datasets :
              /\ Known(d)
              /\ BeginWrite(c, [NoRequest EXCEPT !.op = "delete", !.ds = d, !.pc = "ref"])
              /\ UNCHANGED dataset
      BY <1>12 DEF DeleteDataset
    <2>2. PICK r : r = [NoRequest EXCEPT !.op = "delete", !.ds = d, !.pc = "ref"]
      OBVIOUS
    <2>3. r.op = "delete" /\ r.ds = d /\ r.key = NoKey /\ r.prev = NoKey /\ r.pc = "ref"
      BY <2>2 DEF NoRequest
    <2>4. request'[c] = r /\ \A e \in Clients \ {c} : request'[e] = request[e]
      BY <1>0, <2>1, <2>2, BeginMoves DEF BeginWrite
    <2>5. Placed(c)'
      BY <2>1, <2>3, <2>4 DEF Placed, Known
    <2> QED
      BY <1>s, <1>d, <2>1, <2>3, <2>4, <2>5 DEF Moves, RequestMoves
  <1>13. CASE ReadRefToDelete(c)
    <2>1. CASE Live(req.ds)
      <3>1. request' = [request EXCEPT ![c].prev = dataset[req.ds].key, ![c].pc = "row"]
        BY <1>13, <2>1 DEF ReadRefToDelete
      <3>2. /\ request'[c].op = req.op /\ request'[c].ds = req.ds /\ request'[c].pc = "row"
            /\ request'[c].key = req.key /\ request'[c].prev = dataset[req.ds].key
            /\ \A e \in Clients \ {c} : request'[e] = request[e]
        BY <1>0, <3>1 DEF TypeOK, StoreTypeOK, Request
      <3>3. req.op = "delete" /\ UNCHANGED dataset
        BY <1>13 DEF ReadRefToDelete, At
      <3>4. Placed(c)'
        BY <1>0, <1>k, <3>2, <3>3 DEF Placed, Known
      <3> QED
        BY <1>s, <1>d, <3>2, <3>3, <3>4 DEF Moves, RequestMoves
    <2>2. CASE ~Live(req.ds)
      BY <1>13, <1>e, <2>2 DEF ReadRefToDelete
    <2> QED
      BY <2>1, <2>2
  <1>14. CASE GetDatasetContentByUuid(c)
    <2>1. PICK d \in Datasets :
              /\ Begin(c, [NoRequest EXCEPT !.op = "download", !.ds = d,
                              !.key = dataset[d].key,
                              !.pc = IF dataset[d].key = NoKey THEN "done" ELSE "get",
                              !.checksum = dataset[d].checksum,
                              !.content = dataset[d].content])
              /\ UNCHANGED dataset
      BY <1>14 DEF GetDatasetContentByUuid
    <2>2. PICK r : r = [NoRequest EXCEPT !.op = "download", !.ds = d,
                              !.key = dataset[d].key,
                              !.pc = IF dataset[d].key = NoKey THEN "done" ELSE "get",
                              !.checksum = dataset[d].checksum,
                              !.content = dataset[d].content]
      OBVIOUS
    <2>3. r.op = "download" /\ r.pc \in {"done", "get"}
      BY <2>2 DEF NoRequest
    <2>4. request'[c] = r /\ \A e \in Clients \ {c} : request'[e] = request[e]
      BY <1>0, <2>1, <2>2, BeginMoves
    <2>5. Placed(c)'
      BY <2>3, <2>4 DEF Placed, WriteOps
    <2> QED
      BY <1>s, <1>d, <2>1, <2>3, <2>4, <2>5 DEF Moves, RequestMoves
  <1>15. CASE GetObject(c)
    <2>1. CASE object[req.key] # NoObject
      <3>1. request' = [request EXCEPT ![c].content = object[req.key], ![c].pc = "done"]
        BY <1>15, <2>1 DEF GetObject
      <3>2. /\ request'[c].op = req.op /\ request'[c].pc = "done"
            /\ \A e \in Clients \ {c} : request'[e] = request[e]
        BY <1>0, <3>1 DEF TypeOK, StoreTypeOK, Request
      <3>3. req.op = "download" /\ UNCHANGED dataset
        BY <1>15 DEF GetObject, At
      <3>4. Placed(c)'
        BY <3>2, <3>3 DEF Placed, WriteOps
      <3> QED
        BY <1>s, <1>d, <3>2, <3>3, <3>4 DEF Moves, RequestMoves
    <2>2. CASE object[req.key] = NoObject
      BY <1>15, <1>e, <2>2 DEF GetObject
    <2> QED
      BY <2>1, <2>2
  <1>16. CASE Abandon(c)
    BY <1>16, <1>e DEF Abandon
  <1>17. CASE ReadPreviousRefFails(c)
    <2>1. PICK pc : /\ request' = [request EXCEPT ![c].prev = NoKey, ![c].pc = pc]
                    /\ pc \in {"parts", "find", "put", "row"}
      BY <1>17 DEF ReadPreviousRefFails, GoOnWithRef
    <2>2. /\ request'[c].op = req.op /\ request'[c].ds = req.ds /\ request'[c].pc = pc
          /\ request'[c].key = req.key /\ request'[c].prev = NoKey
          /\ request'[c].up = req.up
          /\ \A e \in Clients \ {c} : request'[e] = request[e]
      BY <1>0, <2>1 DEF TypeOK, StoreTypeOK, Request
    <2>3. req.op \in {"update", "assemble"} /\ UNCHANGED dataset
      BY <1>17 DEF ReadPreviousRefFails, GoOnWithRef, AtWrite
    <2>4. Placed(c)'
      BY <1>0, <2>1, <2>2, <2>3 DEF Placed, Known
    <2> QED
      BY <1>s, <1>d, <2>2, <2>3, <2>4 DEF Moves, RequestMoves
  <1>18. CASE DeleteOldObjectFails(c)
    BY <1>18, <1>e, <1>g DEF DeleteOldObjectFails
  <1> QED
    BY <1>1, <1>2, <1>3, <1>4, <1>5, <1>6, <1>7, <1>8, <1>9, <1>10, <1>11, <1>12, <1>13,
       <1>14, <1>15, <1>16, <1>17, <1>18 DEF StoreStep

\* Steps of the uploads.
LEMMA UploadMoves ==
    ASSUME Inv, Lifecycle, NEW c \in Clients, UploadStep(c)
    PROVE  Moves(c)
  <1> DEFINE req == request[c]
  <1>0. /\ TypeOK /\ Placed(c) /\ request[c] \in Request /\ Sound(req)
        /\ req.ds \in Datasets /\ req.up \in Uploads
        /\ upload \in [Uploads -> Upload]
    BY DEF Inv, RequestsSound, Lifecycle, TypeOK, StoreTypeOK, Request
  <1>s. UNCHANGED upload => SessionsMove(c)
    BY StayMoves
  <1>d. UNCHANGED dataset => RowsMove(c)
    BY StayMoves
  <1>e. UNCHANGED <<dataset, upload>> /\ End(c) => Moves(c)
    BY <1>0, <1>s, <1>d, EndMoves
  <1>g. \A pc : UNCHANGED <<dataset, upload>> /\ Goto(c, pc) /\ pc \notin {"undo", "drop"}
               => Moves(c)
    BY <1>0, <1>s, <1>d, GotoMoves
  <1>u. EndUpload(req.up) /\ upload[req.up].status \in {"live", "gone"} => SessionsMove(c)
    BY <1>0 DEF EndUpload, SessionsMove, Upload
  <1>1. CASE CreateUpload(c)
    <2>1. PICK u \in Uploads, d \in Datasets :
              /\ upload[u].status = "none" /\ Live(d)
              /\ upload' = [upload EXCEPT ![u].status = "new", ![u].ds = d]
              /\ Begin(c, [NoRequest EXCEPT !.op = "create_upload", !.ds = d, !.up = u,
                                            !.pc = "stage"])
              /\ UNCHANGED dataset
      BY <1>1 DEF CreateUpload
    <2>2. PICK r : r = [NoRequest EXCEPT !.op = "create_upload", !.ds = d, !.up = u, !.pc = "stage"]
      OBVIOUS
    <2>3. r.op = "create_upload" /\ r.up = u /\ r.pc = "stage"
      BY <2>2 DEF NoRequest
    <2>4. request'[c] = r /\ \A e \in Clients \ {c} : request'[e] = request[e]
      BY <1>0, <2>1, <2>2, BeginMoves
    <2>5. /\ upload'[u].status = "new" /\ upload'[u].ds = d
          /\ \A x \in Uploads : x # u => upload'[x] = upload[x]
      BY <1>0, <2>1 DEF Upload
    <2>6. SessionsMove(c)
      BY <2>1, <2>5 DEF SessionsMove, Known, Live
    <2>7. Placed(c)'
      BY <2>3, <2>4, <2>5 DEF Placed, WriteOps
    <2> QED
      BY <1>d, <2>1, <2>3, <2>4, <2>6, <2>7 DEF Moves, RequestMoves
  <1>2. CASE CreateMultipartUpload(c)
    BY <1>2, <1>g DEF CreateMultipartUpload
  <1>3. CASE CreateDatasetUpload(c)
    <2>1. SessionsMove(c)
      BY <1>0, <1>3 DEF CreateDatasetUpload, SessionsMove, Placed, At, Upload
    <2> QED
      BY <1>0, <1>3, <1>d, <2>1, EndMoves DEF CreateDatasetUpload
  <1>4. CASE CreateDatasetUploadFails(c)
    BY <1>4, <1>g DEF CreateDatasetUploadFails
  <1>5. CASE AbortNewUpload(c)
    BY <1>5, <1>e DEF AbortNewUpload
  <1>6. CASE UploadPart(c)
    <2>1. PICK u \in Uploads, d \in Datasets, n \in 1..MaxParts, body \in Bodies :
              /\ LiveUpload(u)
              /\ Begin(c, [NoRequest EXCEPT !.op = "upload_part", !.ds = d, !.up = u,
                              !.part = n, !.content = <<body>>, !.pc = "stage"])
              /\ UNCHANGED <<dataset, upload>>
      BY <1>6 DEF UploadPart
    <2>2. PICK r : r = [NoRequest EXCEPT !.op = "upload_part", !.ds = d, !.up = u,
                              !.part = n, !.content = <<body>>, !.pc = "stage"]
      OBVIOUS
    <2>3. r.op = "upload_part" /\ r.up = u /\ r.pc = "stage"
      BY <2>2 DEF NoRequest
    <2>4. request'[c] = r /\ \A e \in Clients \ {c} : request'[e] = request[e]
      BY <1>0, <2>1, <2>2, BeginMoves
    <2>5. Placed(c)'
      BY <2>1, <2>3, <2>4 DEF Placed, WriteOps, LiveUpload
    <2> QED
      BY <1>d, <1>s, <2>1, <2>3, <2>4, <2>5 DEF Moves, RequestMoves
  <1>7. CASE StagePart(c)
    BY <1>7, <1>g DEF StagePart
  <1>8. CASE UpsertDatasetUploadPart(c)
    <2>1. SessionsMove(c)
      BY <1>0, <1>8 DEF UpsertDatasetUploadPart, SessionsMove, Upload
    <2> QED
      BY <1>0, <1>8, <1>d, <2>1, EndMoves DEF UpsertDatasetUploadPart
  <1>9. CASE UpsertDatasetUploadPartFails(c)
    BY <1>9, <1>e, <1>g DEF UpsertDatasetUploadPartFails
  <1>10. CASE RemovePartFile(c)
    BY <1>10, <1>e DEF RemovePartFile
  <1>11. CASE CancelUpload(c)
    <2>1. PICK u \in Uploads, d \in Datasets :
              /\ LiveUpload(u)
              /\ Begin(c, [NoRequest EXCEPT !.op = "cancel", !.ds = d, !.up = u,
                                            !.pc = "unstage"])
              /\ UNCHANGED <<dataset, upload>>
      BY <1>11 DEF CancelUpload
    <2>2. PICK r : r = [NoRequest EXCEPT !.op = "cancel", !.ds = d, !.up = u, !.pc = "unstage"]
      OBVIOUS
    <2>3. r.op = "cancel" /\ r.up = u /\ r.pc = "unstage"
      BY <2>2 DEF NoRequest
    <2>4. request'[c] = r /\ \A e \in Clients \ {c} : request'[e] = request[e]
      BY <1>0, <2>1, <2>2, BeginMoves
    <2>5. Placed(c)'
      BY <2>1, <2>3, <2>4 DEF Placed, WriteOps, LiveUpload
    <2> QED
      BY <1>d, <1>s, <2>1, <2>3, <2>4, <2>5 DEF Moves, RequestMoves
  <1>12. CASE AbortUpload(c)
    BY <1>12, <1>g DEF AbortUpload
  <1>13. CASE CancelDatasetUpload(c)
    BY <1>0, <1>13, <1>d, <1>u, EndMoves DEF CancelDatasetUpload, At, Placed
  <1>14. CASE AssembleUpload(c)
    <2>1. PICK u \in Uploads, d \in Datasets, digest \in Digests :
              /\ LiveUpload(u) /\ Owns(u, d)
              /\ BeginWrite(c, [NoRequest EXCEPT !.op = "assemble", !.ds = d, !.up = u,
                                   !.digest = digest, !.pc = "ref"])
              /\ UNCHANGED <<dataset, upload>>
      BY <1>14 DEF AssembleUpload
    <2>2. PICK r : r = [NoRequest EXCEPT !.op = "assemble", !.ds = d, !.up = u,
                                   !.digest = digest, !.pc = "ref"]
      OBVIOUS
    <2>3. /\ r.op = "assemble" /\ r.up = u /\ r.ds = d /\ r.pc = "ref"
          /\ r.key = NoKey /\ r.prev = NoKey
      BY <2>2 DEF NoRequest
    <2>4. request'[c] = r /\ \A e \in Clients \ {c} : request'[e] = request[e]
      BY <1>0, <2>1, <2>2, BeginMoves DEF BeginWrite
    <2>5. Known(d)
      BY <2>1 DEF Lifecycle, LiveUpload, Owns
    <2>6. Placed(c)'
      BY <2>1, <2>3, <2>4, <2>5 DEF Placed, Known, LiveUpload
    <2> QED
      BY <1>d, <1>s, <2>1, <2>3, <2>4, <2>6 DEF Moves, RequestMoves
  <1>a. ASSUME UNCHANGED <<dataset, upload>>, req.op = "assemble",
               request'[c].op = req.op, request'[c].ds = req.ds, request'[c].up = req.up,
               request'[c].key \in {NoKey, req.ds}, request'[c].prev = req.prev,
               request'[c].pc \notin {"undo", "drop"},
               \A e \in Clients \ {c} : request'[e] = request[e]
        PROVE  Moves(c)
    <2>1. Placed(c)'
      BY <1>0, <1>a DEF Placed, Known
    <2> QED
      BY <1>d, <1>s, <1>a, <2>1 DEF Moves, RequestMoves
  <1>15. CASE ReadParts(c)
    <2>1. CASE End(c)
      BY <1>15, <1>e, <2>1 DEF ReadParts
    <2>2. CASE \E n \in 1..MaxParts :
                  request' = [request EXCEPT
                                 ![c].content = [i \in 1..n |-> upload[req.up].parts[i]],
                                 ![c].pc = "complete"]
      <3>1. PICK content :
                  request' = [request EXCEPT ![c].content = content, ![c].pc = "complete"]
        BY <2>2
      <3>2. /\ request'[c].op = req.op /\ request'[c].ds = req.ds /\ request'[c].up = req.up
            /\ request'[c].key = req.key /\ request'[c].prev = req.prev
            /\ request'[c].pc = "complete"
            /\ \A e \in Clients \ {c} : request'[e] = request[e]
        BY <1>0, <3>1 DEF TypeOK, StoreTypeOK, Request
      <3>3. req.op = "assemble" /\ UNCHANGED <<dataset, upload>>
        BY <1>15 DEF ReadParts, At
      <3> QED
        BY <1>0, <1>a, <3>2, <3>3 DEF Sound
    <2> QED
      BY <1>15, <2>1, <2>2 DEF ReadParts
  <1>16. CASE CompleteMultipartUpload(c)
    <2>1. /\ request'[c].op = req.op /\ request'[c].ds = req.ds /\ request'[c].up = req.up
          /\ request'[c].key = upload[req.up].ds /\ request'[c].prev = req.prev
          /\ request'[c].pc = "hash"
          /\ \A e \in Clients \ {c} : request'[e] = request[e]
      BY <1>0, <1>16 DEF CompleteMultipartUpload, TypeOK, StoreTypeOK, Request
    <2>2. req.op = "assemble" /\ UNCHANGED <<dataset, upload>>
      BY <1>16 DEF CompleteMultipartUpload, At
    <2> QED
      BY <1>0, <1>a, <2>1, <2>2 DEF Sound
  <1>17. CASE HashObject(c)
    <2>1. CASE object[req.key] = NoObject
      BY <1>17, <1>e, <2>1 DEF HashObject
    <2>2. CASE object[req.key] # NoObject
      <3>1. PICK pc \in {"row", "md5"} :
                  request' = [request EXCEPT ![c].checksum = object[req.key], ![c].pc = pc]
        BY <1>17, <2>2 DEF HashObject
      <3>2. /\ request'[c].op = req.op /\ request'[c].ds = req.ds /\ request'[c].up = req.up
            /\ request'[c].key = req.key /\ request'[c].prev = req.prev
            /\ request'[c].pc = pc
            /\ \A e \in Clients \ {c} : request'[e] = request[e]
        BY <1>0, <3>1 DEF TypeOK, StoreTypeOK, Request
      <3>3. req.op = "assemble" /\ UNCHANGED <<dataset, upload>>
        BY <1>17 DEF HashObject, At
      <3> QED
        BY <1>0, <1>a, <3>2, <3>3 DEF Sound
    <2> QED
      BY <2>1, <2>2
  <1>18. CASE CheckDigest(c)
    BY <1>18, <1>e, <1>g DEF CheckDigest
  <1>19. CASE AssembleInline(c)
    <2>1. /\ request'[c].op = req.op /\ request'[c].ds = req.ds /\ request'[c].up = req.up
          /\ request'[c].key = req.key /\ request'[c].prev = req.prev
          /\ request'[c].pc = "row"
          /\ \A e \in Clients \ {c} : request'[e] = request[e]
      BY <1>0, <1>19 DEF AssembleInline, TypeOK, StoreTypeOK, Request
    <2>2. req.op = "assemble" /\ UNCHANGED <<dataset, upload>>
      BY <1>19 DEF AssembleInline, At
    <2> QED
      BY <1>0, <1>a, <2>1, <2>2 DEF Sound
  <1>20. CASE EndSession(c)
    <2>1. SessionsMove(c) /\ RowsMove(c) /\ req.op = "assemble"
      BY <1>0, <1>20, <1>d, <1>u DEF EndSession, At, Placed
    <2> QED
      BY <1>0, <1>20, <2>1, EndMoves, GotoMoves DEF EndSession
  <1>21. CASE RemoveUploadDir(c)
    BY <1>21, <1>e DEF RemoveUploadDir
  <1> QED
    BY <1>1, <1>2, <1>3, <1>4, <1>5, <1>6, <1>7, <1>8, <1>9, <1>10, <1>11, <1>12, <1>13,
       <1>14, <1>15, <1>16, <1>17, <1>18, <1>19, <1>20, <1>21 DEF UploadStep

\* Deleting a dataset.
LEMMA DeleteRowMoves ==
    ASSUME Inv, Lifecycle, NEW c \in Clients, DeleteRowAndSessions(c)
    PROVE  Moves(c)
  <1> DEFINE req == request[c]
  <1>0. /\ TypeOK /\ Placed(c) /\ req.ds \in Datasets /\ req.op = "delete"
        /\ upload \in [Uploads -> Upload]
    BY DEF Inv, Lifecycle, TypeOK, StoreTypeOK, Request, DeleteRowAndSessions, DeleteRow, At
  <1>1. RowsMove(c)
    <2>1. PICK row : row = NoRow("deleted")
      OBVIOUS
    <2>2. /\ dataset' = [dataset EXCEPT ![req.ds] = row]
          /\ row.status = "deleted" /\ row.key = NoKey
      BY <2>1, RowStatus DEF DeleteRowAndSessions, DeleteRow
    <2> QED
      BY <1>0, <2>2, OneRowMoves DEF Placed, Known
  <1>2. SessionsMove(c)
    BY <1>0 DEF DeleteRowAndSessions, SessionsMove, LiveUpload, Upload
  <1> QED
    BY <1>0, <1>1, <1>2, EndMoves, GotoMoves DEF DeleteRowAndSessions, DeleteRow

\* Every step of a client moves datasets and sessions along.
LEMMA NextMoves ==
    ASSUME Inv, Lifecycle, Next
    PROVE  \E c \in Clients :
              /\ Moves(c)
              /\ \/ StoreStep(c) /\ UNCHANGED <<upload, staged>>
                 \/ DeleteRowAndSessions(c)
                 \/ UploadStep(c)
  BY StoreMoves, UploadMoves, DeleteRowMoves DEF Next

\* Every step keeps Lifecycle.
LEMMA NextLifecycle == Inv /\ Lifecycle /\ [Next]_vars => Lifecycle'
  <1> SUFFICES ASSUME Inv, Lifecycle, [Next]_vars
               PROVE  Lifecycle'
    OBVIOUS
  <1>1. CASE Next
    <2>1. TypeOK /\ TypeOK'
      BY NextInv DEF Inv
    <2> QED
      BY <1>1, <2>1, NextMoves, MovesLifecycle
  <1>2. CASE UNCHANGED vars
    BY <1>2 DEF vars, storeVars, Lifecycle, Placed, OneCreator, Known, Live
  <1> QED
    BY <1>1, <1>2

\* It holds before any request.
LEMMA InitLifecycle == Init => Lifecycle
  <1> SUFFICES ASSUME Init
               PROVE  Lifecycle
    OBVIOUS
  <1>1. \A d \in Datasets : ~Live(d) => dataset[d].key = NoKey
    BY RowStatus DEF Init, StoreInit, Live
  <1>2. \A u \in Uploads : upload[u].status = "none"
    BY DEF Init, NoUpload
  <1>3. \A c \in Clients : request[c] = NoRequest
    BY DEF Init, StoreInit
  <1> QED
    BY <1>1, <1>2, <1>3, Idle DEF Lifecycle, Placed, OneCreator, WriteOps

-----------------------------------------------------------------------------
(* Sessions leave nothing in the object store.  What is at risk is a       *)
(* request that is about to end the session: by then the multipart upload  *)
(* must be closed, and nobody can open it again.                           *)

\* About to end the session, or to write the row before that.
Releasing(c) ==
    \/ At(c, "cancel", "row")
    \/ /\ request[c].op = "assemble"
       /\ request[c].pc \in {"hash", "md5", "row", "drop", "session"}

Releases ==
    backend = "s3" =>
        /\ \A u \in Uploads : upload[u].status = "gone" =>
              ~staged[u].open \/ dataset[upload[u].ds].status = "deleted"
        /\ \A c \in Clients : Releasing(c) => ~staged[request[c].up].open

\* A multipart upload is opened only by the request that creates its session.
StagingMoves(c) ==
    backend = "s3" => \A u \in Uploads :
        staged'[u].open => \/ staged[u].open
                           \/ request[c].op = "create_upload" /\ request[c].up = u

\* Who ends a session closed its upload before, or deletes the dataset.
EndingReleases ==
    backend = "s3" => \A u \in Uploads :
        upload'[u].status = "gone" /\ upload[u].status # "gone" =>
            ~staged'[u].open \/ dataset'[upload'[u].ds].status = "deleted"

\* A request that gets where it may end the session closed the upload.
ReleasingAfter(c) ==
    backend = "s3" /\ Releasing(c)' => ~staged'[request'[c].up].open

\* Such a step keeps Releases.
LEMMA MovesRelease ==
    ASSUME TypeOK, TypeOK', Lifecycle, Releases, NEW c \in Clients, Moves(c),
           backend' = backend, StagingMoves(c), EndingReleases, ReleasingAfter(c)
    PROVE  Releases'
  <1> SUFFICES ASSUME backend = "s3"
               PROVE  Releases'
    BY DEF Releases
  <1>t. \A e \in Clients : request[e].up \in Uploads
    BY DEF TypeOK, StoreTypeOK, Request
  <1>c. Placed(c)
    BY DEF Lifecycle
  <1>1. ASSUME NEW u \in Uploads, upload'[u].status = "gone"
        PROVE  ~staged'[u].open \/ dataset'[upload'[u].ds].status = "deleted"
    <2>1. CASE upload[u].status = "gone"
      <3>1. upload'[u].ds = upload[u].ds /\ upload[u].ds \in Datasets
        BY <2>1 DEF Moves, SessionsMove, TypeOK, Upload
      <3>2. ~staged[u].open => ~staged'[u].open
        BY <1>c, <2>1 DEF StagingMoves, Placed
      <3>3. dataset[upload[u].ds].status = "deleted" => dataset'[upload[u].ds].status = "deleted"
        BY <3>1 DEF Moves, RowsMove
      <3> QED
        BY <2>1, <3>1, <3>2, <3>3 DEF Releases
    <2>2. CASE upload[u].status # "gone"
      BY <1>1, <2>2 DEF EndingReleases
    <2> QED
      BY <2>1, <2>2
  <1>2. ASSUME NEW e \in Clients, Releasing(e)'
        PROVE  ~staged'[request'[e].up].open
    <2>1. CASE e = c
      BY <1>2, <2>1 DEF ReleasingAfter
    <2>2. CASE e # c
      <3>1. request'[e] = request[e] /\ Placed(e)
        BY <2>2 DEF Moves, RequestMoves, Lifecycle
      <3>2. Releasing(e)
        BY <1>2, <3>1 DEF Releasing, At
      <3>3. ~staged[request[e].up].open /\ upload[request[e].up].status \in {"live", "gone"}
        BY <3>1, <3>2 DEF Releases, Releasing, At, Placed
      <3> QED
        BY <1>c, <1>t, <3>1, <3>3 DEF StagingMoves, Placed
    <2> QED
      BY <2>1, <2>2
  <1> QED
    BY <1>1, <1>2 DEF Releases, Releasing, At

\* Steps of the store do not touch the staging areas.
LEMMA StoreReleases ==
    ASSUME Inv, Lifecycle, Releases, NEW c \in Clients, StoreStep(c), UNCHANGED <<upload, staged>>
    PROVE  backend' = backend /\ StagingMoves(c) /\ EndingReleases /\ ReleasingAfter(c)
  <1> DEFINE req == request[c]
  <1>0. /\ TypeOK /\ request[c] \in Request
    BY DEF Inv, TypeOK, StoreTypeOK
  <1>b. backend' = backend
    BY DEF StoreStep, AddDataset, PutObject, CreateDataset, CreateDatasetFails,
           DeleteNewObject, UpdateDatasetByUuid, ReadPreviousRef, GoOnWithRef, FindFormat, UpdateDataset,
           UpdateDatasetFails, DeleteOldObject, DeleteDataset, ReadRefToDelete,
           GetDatasetContentByUuid, GetObject, Abandon, ReadPreviousRefFails,
           DeleteOldObjectFails
  <1>s. StagingMoves(c) /\ EndingReleases
    BY DEF StagingMoves, EndingReleases
  <1> SUFFICES ReleasingAfter(c)
    BY <1>b, <1>s
  <1>a. ASSUME Releasing(c)' => Releasing(c) /\ request'[c].up = req.up
        PROVE  ReleasingAfter(c)
    BY <1>a DEF ReleasingAfter, Releases
  <1>e. End(c) => ReleasingAfter(c)
    BY <1>0, EndGoto, Idle DEF ReleasingAfter, Releasing, At
  <1>n. (request'[c].op \notin {"cancel", "assemble"}) => ReleasingAfter(c)
    BY DEF ReleasingAfter, Releasing, At
  <1>g. \A pc : Goto(c, pc) /\ (req.op \notin {"cancel", "assemble"} \/ Releasing(c)) => ReleasingAfter(c)
    BY <1>0, <1>n, <1>a, EndGoto
  <1>u. UndoOrEnd(c) => ReleasingAfter(c)
    <2>1. ASSUME Goto(c, "undo")
          PROVE  ReleasingAfter(c)
      <3>1. request'[c].pc = "undo"
        BY <1>0, <2>1, EndGoto
      <3> QED
        BY <3>1 DEF ReleasingAfter, Releasing, At
    <2> QED
      BY <1>e, <2>1 DEF UndoOrEnd
  <1>w. ASSUME NEW r, BeginWrite(c, r) \/ Begin(c, r), r.op \notin {"cancel", "assemble"}
        PROVE  ReleasingAfter(c)
    BY <1>0, <1>n, <1>w, BeginMoves DEF BeginWrite
  <1>1. CASE AddDataset(c)
    <2>1. PICK d \in Datasets, content \in Contents :
              BeginWrite(c, [NoRequest EXCEPT !.op = "add", !.ds = d, !.content = content,
                                !.pc = IF UsesStore(content) THEN "put" ELSE "row",
                                !.checksum = content])
      BY <1>1 DEF AddDataset
    <2>2. PICK r : r = [NoRequest EXCEPT !.op = "add", !.ds = d, !.content = content,
                                !.pc = IF UsesStore(content) THEN "put" ELSE "row",
                                !.checksum = content]
      OBVIOUS
    <2>3. r.op = "add"
      BY <2>2 DEF NoRequest
    <2> QED
      BY <1>w, <2>1, <2>2, <2>3
  <1>2. CASE PutObject(c)
    <2>1. request'[c].op = req.op /\ req.op \in {"add", "update"}
      BY <1>0, <1>2 DEF PutObject, AtWrite, TypeOK, StoreTypeOK, Request
    <2> QED
      BY <1>n, <2>1
  <1>3. CASE CreateDataset(c)
    BY <1>3, <1>e DEF CreateDataset
  <1>4. CASE CreateDatasetFails(c)
    BY <1>4, <1>u DEF CreateDatasetFails
  <1>5. CASE DeleteNewObject(c)
    BY <1>5, <1>e DEF DeleteNewObject
  <1>6. CASE UpdateDatasetByUuid(c)
    <2>1. PICK d \in Datasets, content \in Contents :
              BeginWrite(c, [NoRequest EXCEPT !.op = "update", !.ds = d, !.pc = "ref",
                                !.content = content, !.checksum = content])
      BY <1>6 DEF UpdateDatasetByUuid
    <2>2. PICK r : r = [NoRequest EXCEPT !.op = "update", !.ds = d, !.pc = "ref",
                                !.content = content, !.checksum = content]
      OBVIOUS
    <2>3. r.op = "update"
      BY <2>2 DEF NoRequest
    <2> QED
      BY <1>w, <2>1, <2>2, <2>3
  <1>7. CASE ReadPreviousRef(c)
    <2>1. CASE req.op = "assemble"
      <3>1. request' = [request EXCEPT ![c].prev = dataset[req.ds].key, ![c].pc = "parts"]
        BY <1>7, <2>1 DEF ReadPreviousRef, GoOnWithRef
      <3>2. request'[c].pc = "parts"
        BY <1>0, <3>1 DEF TypeOK, StoreTypeOK, Request
      <3> QED
        BY <3>2 DEF ReleasingAfter, Releasing, At
    <2>2. CASE req.op = "update"
      <3>1. PICK pc : request' = [request EXCEPT ![c].prev = dataset[req.ds].key, ![c].pc = pc]
        BY <1>7 DEF ReadPreviousRef, GoOnWithRef
      <3>2. request'[c].op = "update"
        BY <1>0, <2>2, <3>1 DEF TypeOK, StoreTypeOK, Request
      <3> QED
        BY <1>n, <3>2
    <2> QED
      BY <1>7, <2>1, <2>2 DEF ReadPreviousRef, GoOnWithRef, AtWrite
  <1>8. CASE FindFormat(c)
    BY <1>8, <1>e, <1>g DEF FindFormat, At
  <1>9. CASE UpdateDataset(c)
    <2>1. Continue(c, PcAfterUpdate(c)) /\ (req.op = "update" \/ Releasing(c))
      BY <1>9 DEF UpdateDataset, AtWrite, Releasing
    <2> QED
      BY <2>1, <1>9, <1>e, <1>g DEF Continue, UpdateDataset, AtWrite
  <1>10. CASE UpdateDatasetFails(c)
    BY <1>10, <1>u DEF UpdateDatasetFails
  <1>11. CASE DeleteOldObject(c)
    <2>1. req.op = "assemble" => Releasing(c)
      BY <1>11 DEF DeleteOldObject, AtWrite, Releasing
    <2> QED
      BY <2>1, <1>11, <1>e, <1>g DEF DeleteOldObject
  <1>12. CASE DeleteDataset(c)
    <2>1. PICK d \in Datasets :
              BeginWrite(c, [NoRequest EXCEPT !.op = "delete", !.ds = d, !.pc = "ref"])
      BY <1>12 DEF DeleteDataset
    <2>2. PICK r : r = [NoRequest EXCEPT !.op = "delete", !.ds = d, !.pc = "ref"]
      OBVIOUS
    <2>3. r.op = "delete"
      BY <2>2 DEF NoRequest
    <2> QED
      BY <1>w, <2>1, <2>2, <2>3
  <1>13. CASE ReadRefToDelete(c)
    <2>1. CASE Live(req.ds)
      <3>1. request' = [request EXCEPT ![c].prev = dataset[req.ds].key, ![c].pc = "row"]
        BY <1>13, <2>1 DEF ReadRefToDelete
      <3>2. request'[c].op = "delete"
        BY <1>0, <1>13, <3>1 DEF ReadRefToDelete, At, TypeOK, StoreTypeOK, Request
      <3> QED
        BY <1>n, <3>2
    <2> QED
      BY <1>13, <1>e, <2>1 DEF ReadRefToDelete
  <1>14. CASE GetDatasetContentByUuid(c)
    <2>1. PICK d \in Datasets :
              Begin(c, [NoRequest EXCEPT !.op = "download", !.ds = d, !.key = dataset[d].key,
                           !.pc = IF dataset[d].key = NoKey THEN "done" ELSE "get",
                           !.checksum = dataset[d].checksum, !.content = dataset[d].content])
      BY <1>14 DEF GetDatasetContentByUuid
    <2>2. PICK r :
              r = [NoRequest EXCEPT !.op = "download", !.ds = d, !.key = dataset[d].key,
                           !.pc = IF dataset[d].key = NoKey THEN "done" ELSE "get",
                           !.checksum = dataset[d].checksum, !.content = dataset[d].content]
      OBVIOUS
    <2>3. r.op = "download"
      BY <2>2 DEF NoRequest
    <2> QED
      BY <1>w, <2>1, <2>2, <2>3
  <1>15. CASE GetObject(c)
    <2>1. CASE object[req.key] # NoObject
      <3>1. request' = [request EXCEPT ![c].content = object[req.key], ![c].pc = "done"]
        BY <1>15, <2>1 DEF GetObject
      <3>2. request'[c].op = "download"
        BY <1>0, <1>15, <3>1 DEF GetObject, At, TypeOK, StoreTypeOK, Request
      <3> QED
        BY <1>n, <3>2
    <2> QED
      BY <1>15, <1>e, <2>1 DEF GetObject
  <1>16. CASE Abandon(c)
    BY <1>16, <1>e DEF Abandon
  <1>17. CASE ReadPreviousRefFails(c)
    <2>1. CASE req.op = "assemble"
      <3>1. request' = [request EXCEPT ![c].prev = NoKey, ![c].pc = "parts"]
        BY <1>17, <2>1 DEF ReadPreviousRefFails, GoOnWithRef
      <3>2. request'[c].pc = "parts"
        BY <1>0, <3>1 DEF TypeOK, StoreTypeOK, Request
      <3> QED
        BY <3>2 DEF ReleasingAfter, Releasing, At
    <2>2. CASE req.op = "update"
      <3>1. PICK pc : request' = [request EXCEPT ![c].prev = NoKey, ![c].pc = pc]
        BY <1>17 DEF ReadPreviousRefFails, GoOnWithRef
      <3>2. request'[c].op = "update"
        BY <1>0, <2>2, <3>1 DEF TypeOK, StoreTypeOK, Request
      <3> QED
        BY <1>n, <3>2
    <2> QED
      BY <1>17, <2>1, <2>2 DEF ReadPreviousRefFails, GoOnWithRef, AtWrite
  <1>18. CASE DeleteOldObjectFails(c)
    <2>1. req.op = "assemble" => Releasing(c)
      BY <1>18 DEF DeleteOldObjectFails, AtWrite, Releasing
    <2> QED
      BY <2>1, <1>18, <1>e, <1>g DEF DeleteOldObjectFails
  <1> QED
    BY <1>1, <1>2, <1>3, <1>4, <1>5, <1>6, <1>7, <1>8, <1>9, <1>10, <1>11, <1>12, <1>13,
       <1>14, <1>15, <1>16, <1>17, <1>18 DEF StoreStep

\* Steps of the uploads.
LEMMA UploadReleases ==
    ASSUME Inv, Lifecycle, Releases, NEW c \in Clients, UploadStep(c)
    PROVE  backend' = backend /\ StagingMoves(c) /\ EndingReleases /\ ReleasingAfter(c)
  <1> DEFINE req == request[c]
  <1>0. /\ TypeOK /\ request[c] \in Request /\ req.up \in Uploads
        /\ staged \in [Uploads -> Staged] /\ upload \in [Uploads -> Upload]
    BY DEF Inv, TypeOK, StoreTypeOK, Request
  <1>b. backend' = backend
    BY DEF UploadStep, CreateUpload, CreateMultipartUpload, CreateDatasetUpload,
           CreateDatasetUploadFails, AbortNewUpload, UploadPart, StagePart,
           UpsertDatasetUploadPart, UpsertDatasetUploadPartFails, RemovePartFile,
           CancelUpload, AbortUpload, CancelDatasetUpload, AssembleUpload, ReadParts,
           CompleteMultipartUpload, HashObject, CheckDigest, AssembleInline, EndSession,
           RemoveUploadDir
  <1>c. Closed.open = FALSE
    BY DEF Closed
  <1>s. UNCHANGED staged => StagingMoves(c)
    BY DEF StagingMoves
  <1>x. staged' = [staged EXCEPT ![req.up] = Closed] => StagingMoves(c)
    BY <1>0, <1>c DEF StagingMoves
  <1>v. UNCHANGED upload => EndingReleases
    BY DEF EndingReleases
  <1>w. ASSUME EndUpload(req.up), Releasing(c), UNCHANGED staged
        PROVE  EndingReleases
    BY <1>0, <1>w DEF EndingReleases, EndUpload, Releases, Upload
  <1>e. End(c) => ReleasingAfter(c)
    BY <1>0, EndGoto, Idle DEF ReleasingAfter, Releasing, At
  <1>n. (request'[c].op \notin {"cancel", "assemble"}) => ReleasingAfter(c)
    BY DEF ReleasingAfter, Releasing, At
  <1>g. \A pc : Goto(c, pc) /\ req.op \notin {"cancel", "assemble"} => ReleasingAfter(c)
    BY <1>0, <1>n, EndGoto
  <1>r. ASSUME Releasing(c), UNCHANGED staged, request'[c].up = req.up
        PROVE  ReleasingAfter(c)
    BY <1>r DEF ReleasingAfter, Releases
  <1>y. ASSUME staged' = [staged EXCEPT ![req.up] = Closed], request'[c].up = req.up
        PROVE  ReleasingAfter(c)
    BY <1>0, <1>c, <1>y DEF ReleasingAfter
  <1>z. ASSUME NEW r, BeginWrite(c, r) \/ Begin(c, r), r.pc \in {"stage", "unstage", "ref"}
        PROVE  ReleasingAfter(c)
    <2>1. request'[c] = r
      BY <1>0, <1>z, BeginMoves DEF BeginWrite
    <2> QED
      BY <1>z, <2>1 DEF ReleasingAfter, Releasing, At
  <1>1. CASE CreateUpload(c)
    <2>1. PICK u \in Uploads, d \in Datasets :
              /\ Begin(c, [NoRequest EXCEPT !.op = "create_upload", !.ds = d, !.up = u,
                                            !.pc = "stage"])
              /\ upload' = [upload EXCEPT ![u].status = "new", ![u].ds = d]
              /\ UNCHANGED staged
      BY <1>1 DEF CreateUpload
    <2>2. PICK r : r = [NoRequest EXCEPT !.op = "create_upload", !.ds = d, !.up = u, !.pc = "stage"]
      OBVIOUS
    <2>3. r.pc = "stage"
      BY <2>2 DEF NoRequest
    <2>4. EndingReleases
      BY <1>0, <2>1 DEF EndingReleases, Upload
    <2> QED
      BY <1>b, <1>s, <1>z, <2>1, <2>2, <2>3, <2>4
  <1>2. CASE CreateMultipartUpload(c)
    <2>1. StagingMoves(c)
      BY <1>0, <1>2 DEF CreateMultipartUpload, At, StagingMoves
    <2> QED
      BY <1>b, <1>v, <1>g, <1>2, <2>1 DEF CreateMultipartUpload, At
  <1>3. CASE CreateDatasetUpload(c)
    <2>1. EndingReleases
      BY <1>0, <1>3 DEF CreateDatasetUpload, EndingReleases, Upload
    <2> QED
      BY <1>b, <1>s, <1>e, <1>3, <2>1 DEF CreateDatasetUpload
  <1>4. CASE CreateDatasetUploadFails(c)
    BY <1>b, <1>s, <1>v, <1>g, <1>4 DEF CreateDatasetUploadFails, At
  <1>5. CASE AbortNewUpload(c)
    BY <1>b, <1>x, <1>v, <1>e, <1>5 DEF AbortNewUpload
  <1>6. CASE UploadPart(c)
    <2>1. PICK r : Begin(c, r) /\ r.pc = "stage" /\ UNCHANGED <<upload, staged>>
      BY <1>6 DEF UploadPart, NoRequest
    <2> QED
      BY <1>b, <1>s, <1>v, <1>z, <2>1
  <1>7. CASE StagePart(c)
    <2>1. StagingMoves(c)
      BY <1>0, <1>7 DEF StagePart, StagingMoves, Staged
    <2> QED
      BY <1>b, <1>v, <1>g, <1>7, <2>1 DEF StagePart, At
  <1>8. CASE UpsertDatasetUploadPart(c)
    <2>1. EndingReleases
      BY <1>0, <1>8 DEF UpsertDatasetUploadPart, EndingReleases, Upload
    <2> QED
      BY <1>b, <1>s, <1>e, <1>8, <2>1 DEF UpsertDatasetUploadPart
  <1>9. CASE UpsertDatasetUploadPartFails(c)
    BY <1>b, <1>s, <1>v, <1>e, <1>g, <1>9 DEF UpsertDatasetUploadPartFails, At
  <1>10. CASE RemovePartFile(c)
    <2>1. StagingMoves(c)
      BY <1>0, <1>10 DEF RemovePartFile, StagingMoves, Staged
    <2> QED
      BY <1>b, <1>v, <1>e, <1>10, <2>1 DEF RemovePartFile
  <1>11. CASE CancelUpload(c)
    <2>1. PICK r : Begin(c, r) /\ r.pc = "unstage" /\ UNCHANGED <<upload, staged>>
      BY <1>11 DEF CancelUpload, NoRequest
    <2> QED
      BY <1>b, <1>s, <1>v, <1>z, <2>1
  <1>12. CASE AbortUpload(c)
    <2>1. staged' = [staged EXCEPT ![req.up] = Closed] /\ UNCHANGED upload /\ Goto(c, "row")
      BY <1>12 DEF AbortUpload
    <2>2. request'[c].up = req.up
      BY <1>0, <2>1, EndGoto
    <2> QED
      BY <1>b, <1>x, <1>v, <1>y, <2>1, <2>2
  <1>13. CASE CancelDatasetUpload(c)
    BY <1>b, <1>s, <1>w, <1>e, <1>13 DEF CancelDatasetUpload, Releasing
  <1>14. CASE AssembleUpload(c)
    <2>1. PICK r : BeginWrite(c, r) /\ r.pc = "ref" /\ UNCHANGED <<upload, staged>>
      BY <1>14 DEF AssembleUpload, NoRequest
    <2> QED
      BY <1>b, <1>s, <1>v, <1>z, <2>1
  <1>15. CASE ReadParts(c)
    <2>1. End(c) \/ request'[c].pc = "complete"
      BY <1>0, <1>15 DEF ReadParts, TypeOK, StoreTypeOK, Request
    <2>2. ReleasingAfter(c)
      BY <1>e, <2>1 DEF ReleasingAfter, Releasing, At
    <2> QED
      BY <1>b, <1>s, <1>v, <1>15, <2>2 DEF ReadParts
  <1>16. CASE CompleteMultipartUpload(c)
    <2>1. request'[c].up = req.up
      BY <1>0, <1>16 DEF CompleteMultipartUpload, TypeOK, StoreTypeOK, Request
    <2> QED
      BY <1>b, <1>x, <1>v, <1>y, <1>16, <2>1 DEF CompleteMultipartUpload
  <1>17. CASE HashObject(c)
    <2>1. End(c) \/ request'[c].up = req.up
      BY <1>0, <1>17 DEF HashObject, TypeOK, StoreTypeOK, Request
    <2>2. Releasing(c)
      BY <1>17 DEF HashObject, At, Releasing
    <2> QED
      BY <1>b, <1>s, <1>v, <1>e, <1>r, <1>17, <2>1, <2>2 DEF HashObject
  <1>18. CASE CheckDigest(c)
    <2>1. End(c) \/ request'[c].up = req.up
      BY <1>0, <1>18, EndGoto DEF CheckDigest
    <2>2. Releasing(c)
      BY <1>18 DEF CheckDigest, At, Releasing
    <2> QED
      BY <1>b, <1>s, <1>v, <1>e, <1>r, <1>18, <2>1, <2>2 DEF CheckDigest
  <1>19. CASE AssembleInline(c)
    <2>1. ReleasingAfter(c)
      BY <1>19 DEF AssembleInline, ReleasingAfter
    <2> QED
      BY <1>b, <1>s, <1>v, <1>19, <2>1 DEF AssembleInline
  <1>20. CASE EndSession(c)
    <2>1. Releasing(c) /\ EndingReleases
      BY <1>w, <1>20 DEF EndSession, At, Releasing
    <2>2. End(c) \/ request'[c].up = req.up
      BY <1>0, <1>20, EndGoto DEF EndSession
    <2> QED
      BY <1>b, <1>s, <1>e, <1>r, <1>20, <2>1, <2>2 DEF EndSession
  <1>21. CASE RemoveUploadDir(c)
    BY <1>b, <1>x, <1>v, <1>e, <1>21 DEF RemoveUploadDir
  <1> QED
    BY <1>1, <1>2, <1>3, <1>4, <1>5, <1>6, <1>7, <1>8, <1>9, <1>10, <1>11, <1>12, <1>13,
       <1>14, <1>15, <1>16, <1>17, <1>18, <1>19, <1>20, <1>21 DEF UploadStep

\* Deleting a dataset ends its sessions, open or not.
LEMMA DeleteRowReleases ==
    ASSUME Inv, Lifecycle, Releases, NEW c \in Clients, DeleteRowAndSessions(c)
    PROVE  backend' = backend /\ StagingMoves(c) /\ EndingReleases /\ ReleasingAfter(c)
  <1>0. /\ TypeOK /\ request[c].ds \in Datasets /\ request[c].op = "delete"
        /\ dataset \in [Datasets -> Row] /\ upload \in [Uploads -> Upload]
    BY DEF Inv, TypeOK, StoreTypeOK, Request, DeleteRowAndSessions, DeleteRow, At
  <1>1. dataset'[request[c].ds].status = "deleted"
    BY <1>0, RowStatus DEF DeleteRowAndSessions, DeleteRow
  <1>2. EndingReleases
    BY <1>0, <1>1 DEF EndingReleases, DeleteRowAndSessions, Upload
  <1>3. request'[c].op \in {"none", "delete"}
    BY <1>0, EndGoto, Idle DEF DeleteRowAndSessions, DeleteRow
  <1>4. ReleasingAfter(c)
    BY <1>3 DEF ReleasingAfter, Releasing, At
  <1> QED
    BY <1>2, <1>4 DEF DeleteRowAndSessions, DeleteRow, StagingMoves

\* Every step keeps Releases.
LEMMA NextReleases == Inv /\ Lifecycle /\ Releases /\ [Next]_vars => Releases'
  <1> SUFFICES ASSUME Inv, Lifecycle, Releases, [Next]_vars
               PROVE  Releases'
    OBVIOUS
  <1>t. TypeOK /\ TypeOK'
    BY NextInv DEF Inv
  <1>1. CASE Next
    <2>1. PICK c \in Clients :
              /\ Moves(c)
              /\ \/ StoreStep(c) /\ UNCHANGED <<upload, staged>>
                 \/ DeleteRowAndSessions(c)
                 \/ UploadStep(c)
      BY <1>1, NextMoves
    <2>2. backend' = backend /\ StagingMoves(c) /\ EndingReleases /\ ReleasingAfter(c)
      BY <2>1, StoreReleases, DeleteRowReleases, UploadReleases
    <2> QED
      BY <1>t, <2>1, <2>2, MovesRelease
  <1>2. CASE UNCHANGED vars
    BY <1>2 DEF vars, storeVars, Releases, Releasing, At
  <1> QED
    BY <1>1, <1>2

\* It holds before any request.
LEMMA InitReleases == Init => Releases
  BY Idle DEF Init, StoreInit, Releases, Releasing, At, Closed

-----------------------------------------------------------------------------
(* Row and object agree.  Between the two writes of a request they do not, *)
(* and Settled says by how much: what the object is while the request is   *)
(* at each place, when it met no other writer, and how the row compares    *)
(* with the object when the dataset was in order to begin with.            *)

Writing(c) == InFlight(c) /\ request[c].op \in WriteOps

\* What the history variables record.
History ==
    /\ \A c \in alone, e \in Clients :
          Writing(c) /\ Writing(e) /\ request[c].ds = request[e].ds => c = e
    /\ \A c \in Clients : Writing(c) /\ c \notin alone => request[c].ds \in trouble

Settled(c) ==
    LET req == request[c]
        d == request[c].ds
    IN  /\ req.pc \in {"ref", "parts", "complete"} => req.key = NoKey
        /\ req.pc = "hash" => object[d] # NoObject
        /\ req.pc \in {"md5", "row"} /\ req.key # NoKey => object[d] = req.checksum
        /\ d \notin trouble =>
              /\ \/ req.pc \in {"ref", "find", "put", "parts", "complete", "session", "rmdir"}
                 \/ req.pc = "row" /\ req.key = NoKey
                 => Agree(d)
              /\ /\ req.pc \in {"find", "put", "parts", "complete", "hash", "md5", "row"}
                 /\ req.op # "add"
                 => req.prev = dataset[d].key
              /\ req.pc = "undo" => ~Live(d)
              /\ req.pc = "drop" => dataset[d].key = NoKey

AloneSettled == \A c \in alone : Writing(c) => Settled(c)

Agreement == History /\ AloneSettled /\ UntroubledAgree

\* A step outside of the writers.
Aside(c) ==
    /\ ~Writing(c) /\ ~Writing(c)'
    /\ \A e \in Clients \ {c} : request'[e] = request[e]
    /\ UNCHANGED <<dataset, object, alone, trouble>>

\* A write begins.
Starting(c, r) ==
    /\ ~Writing(c) /\ Writing(c)'
    /\ r.ds \in Datasets
    /\ \A e \in Clients \ {c} : request'[e] = request[e]
    /\ \A x \in Datasets : x # r.ds => dataset'[x] = dataset[x]
    /\ request'[c] = r
    /\ object' = object
    /\ alone' = IF Writers(r.ds) = {} THEN alone \cup {c} ELSE alone \ (Writers(r.ds) \cup {c})
    /\ trouble' = IF Writers(r.ds) = {} THEN trouble ELSE trouble \cup {r.ds}
    /\ Writers(r.ds) = {} => Settled(c)'

\* A write goes on or ends: all it touches is its dataset, and it leaves it
\* settled when it met no other.
Writes(c) ==
    LET d == request[c].ds
    IN  /\ Writing(c)
        /\ \A e \in Clients \ {c} : request'[e] = request[e]
        /\ \A x \in Datasets : x # d => dataset'[x] = dataset[x] /\ object'[x] = object[x]
        /\ alone' = alone
        /\ \/ trouble' = trouble
           \/ trouble' = trouble \cup {d}
           \/ trouble' = trouble \ {d} /\ c \in alone
        /\ \/ /\ Writing(c)' /\ request'[c].ds = d
              /\ c \in alone => Settled(c)'
           \/ /\ ~Writing(c)'
              /\ c \in alone => \A x \in Datasets : x = d => x \in trouble' \/ Agree(x)'

\* Steps outside of the writers keep Agreement.
LEMMA AsideAgrees ==
    ASSUME TypeOK, Agreement, NEW c \in Clients, Aside(c)
    PROVE  Agreement'
  <1>0. alone \subseteq Clients
    BY DEF TypeOK, StoreTypeOK
  <1>1. \A e \in Clients : (Writing(e) \/ Writing(e)') => request'[e] = request[e] /\ e # c
    BY DEF Aside
  <1>2. \A e \in Clients : Writing(e)' <=> Writing(e)
    BY DEF Aside, Writing, InFlight
  <1>3. \A d \in Datasets : Writers(d)' = Writers(d) /\ (Agree(d)' <=> Agree(d))
    <2>1. \A d \in Datasets : Writers(d) = {e \in Clients : Writing(e) /\ request[e].ds = d}
      BY DEF Writers, Writing
    <2>2. \A d \in Datasets : Writers(d)' = {e \in Clients : Writing(e)' /\ request'[e].ds = d}
      BY DEF Writers, Writing
    <2> QED
      BY <1>1, <1>2, <2>1, <2>2 DEF Aside, Agree, Live
  <1>4. \A e \in Clients : Writing(e) => (Settled(e)' <=> Settled(e))
    BY <1>1 DEF Aside, Settled, Agree, Live
  <1>5. History'
    BY <1>0, <1>1, <1>2 DEF Aside, Agreement, History
  <1>6. AloneSettled'
    BY <1>0, <1>2, <1>4 DEF Aside, Agreement, AloneSettled
  <1>7. UntroubledAgree'
    BY <1>3 DEF Aside, Agreement, UntroubledAgree
  <1> QED
    BY <1>5, <1>6, <1>7 DEF Agreement

\* A client that writes to another dataset than the one that changes.
LEMMA ElsewhereSettled ==
    ASSUME NEW e \in Clients, request'[e] = request[e],
           dataset'[request[e].ds] = dataset[request[e].ds],
           object'[request[e].ds] = object[request[e].ds],
           request[e].ds \in trouble => request[e].ds \in trouble',
           Settled(e)
    PROVE  Settled(e)'
  BY DEF Settled, Agree, Live

\* Who writes to a dataset.
LEMMA WritersAre ==
    \A d : Writers(d) = {e \in Clients : Writing(e) /\ request[e].ds = d}
  BY DEF Writers, Writing

\* And after the step.
LEMMA WritersThen ==
    \A d : Writers(d)' = {e \in Clients : Writing(e)' /\ request'[e].ds = d}
  BY DEF Writers, Writing

\* So does the beginning of a write.
LEMMA StartingAgrees ==
    ASSUME TypeOK, Agreement, NEW c \in Clients, NEW r, Starting(c, r)
    PROVE  Agreement'
  <1> DEFINE d == r.ds
             others == Writers(d)
  <1>0. /\ alone \subseteq Clients /\ d \in Datasets
        /\ \A e \in Clients : request[e].ds \in Datasets
    BY DEF TypeOK, StoreTypeOK, Starting, Request
  <1>1. ASSUME NEW e \in Clients, e # c
        PROVE  request'[e] = request[e] /\ (Writing(e)' <=> Writing(e))
    BY <1>1 DEF Starting, Writing, InFlight
  <1>2. ~Writing(c) /\ Writing(c)' /\ request'[c].ds = d
    BY DEF Starting
  <1>3. others = {e \in Clients : Writing(e) /\ request[e].ds = d}
    BY WritersAre
  <1>4. c \notin others /\ (c \in alone' => others = {})
    BY <1>2, <1>3 DEF Starting
  <1>5. \A e \in Clients : e # c => (e \in alone' <=> e \in alone /\ e \notin others)
    BY DEF Starting
  <1>6. trouble \subseteq trouble' /\ (others # {} => d \in trouble')
        /\ (c \notin alone' => others # {})
    BY DEF Starting
  <1>7. alone' \subseteq Clients
    BY <1>0 DEF Starting
  <1>8. History'
    <2>1. ASSUME NEW a \in alone', NEW e \in Clients, Writing(a)', Writing(e)',
                 request'[a].ds = request'[e].ds, a # e
          PROVE  FALSE
      <3>1. CASE a = c
        BY <1>1, <1>2, <1>3, <1>4, <2>1, <3>1
      <3>2. CASE a # c /\ e = c
        BY <1>1, <1>2, <1>3, <1>5, <1>7, <2>1, <3>2
      <3>3. CASE a # c /\ e # c
        <4>1. a \in alone /\ Writing(a) /\ Writing(e) /\ request[a].ds = request[e].ds
          BY <1>1, <1>5, <1>7, <2>1, <3>3
        <4> QED
          BY <2>1, <4>1 DEF Agreement, History
      <3> QED
        BY <3>1, <3>2, <3>3
    <2>2. ASSUME NEW e \in Clients, Writing(e)', e \notin alone'
          PROVE  request'[e].ds \in trouble'
      <3>1. CASE e = c
        BY <1>2, <1>6, <2>2, <3>1
      <3>2. CASE e # c
        <4>1. request'[e] = request[e] /\ Writing(e)
          BY <1>1, <2>2, <3>2
        <4>2. CASE e \in others
          BY <1>3, <1>6, <4>1, <4>2
        <4>3. CASE e \notin alone
          BY <1>6, <4>1, <4>3 DEF Agreement, History
        <4> QED
          BY <1>5, <2>2, <3>2, <4>2, <4>3
      <3> QED
        BY <3>1, <3>2
    <2> QED
      BY <2>1, <2>2 DEF History
  <1>9. AloneSettled'
    <2> SUFFICES ASSUME NEW a \in alone', Writing(a)'
                 PROVE  Settled(a)'
      BY DEF AloneSettled
    <2>1. CASE a = c
      BY <1>4, <2>1 DEF Starting
    <2>2. CASE a # c
      <3>1. /\ a \in Clients /\ a \in alone /\ a \notin others
            /\ request'[a] = request[a] /\ Writing(a)
        BY <1>1, <1>5, <1>7, <2>2
      <3>2. request[a].ds # d /\ request[a].ds \in Datasets
        BY <1>0, <1>3, <3>1
      <3>3. Settled(a)
        BY <3>1 DEF Agreement, AloneSettled
      <3> QED
        BY <1>6, <3>1, <3>2, <3>3, ElsewhereSettled DEF Starting
    <2> QED
      BY <2>1, <2>2
  <1>10. UntroubledAgree'
    <2> SUFFICES ASSUME NEW x \in Datasets, x \notin trouble', Writers(x)' = {}
                 PROVE  Agree(x)'
      BY DEF UntroubledAgree
    <2>1. x # d
      BY <1>2, WritersThen
    <2>2. Writers(x) = {}
      BY <1>1, <1>2, WritersAre, WritersThen
    <2>3. Agree(x)
      BY <1>6, <2>2 DEF Agreement, UntroubledAgree
    <2> QED
      BY <2>1, <2>3 DEF Starting, Agree, Live
  <1> QED
    BY <1>8, <1>9, <1>10 DEF Agreement

\* And its going on.
LEMMA WritesAgrees ==
    ASSUME TypeOK, Agreement, NEW c \in Clients, Writes(c)
    PROVE  Agreement'
  <1> DEFINE d == request[c].ds
  <1>0. /\ alone \subseteq Clients /\ alone' = alone /\ d \in Datasets
        /\ \A e \in Clients : request[e].ds \in Datasets
    BY DEF TypeOK, StoreTypeOK, Writes, Request
  <1>1. ASSUME NEW e \in Clients, e # c
        PROVE  request'[e] = request[e] /\ (Writing(e)' <=> Writing(e))
    BY <1>1 DEF Writes, Writing, InFlight
  <1>2. Writing(c) /\ (Writing(c)' => request'[c].ds = d)
    BY DEF Writes
  <1>3. \A x : x # d => (x \in trouble' <=> x \in trouble)
    BY DEF Writes
  <1>4. ASSUME NEW e \in Clients, e # c, Writing(e), request[e].ds = d
        PROVE  e \notin alone /\ c \notin alone
    BY <1>2, <1>4 DEF Agreement, History
  <1>5. c \notin alone => d \in trouble /\ d \in trouble'
    BY <1>2 DEF Agreement, History, Writes
  <1>6. History'
    <2>1. ASSUME NEW a \in alone', NEW e \in Clients, Writing(a)', Writing(e)',
                 request'[a].ds = request'[e].ds
          PROVE  a = e
      <3>1. Writing(a) /\ Writing(e) /\ request[a].ds = request[e].ds
        BY <1>0, <1>1, <1>2, <2>1
      <3> QED
        BY <1>0, <3>1 DEF Agreement, History
    <2>2. ASSUME NEW e \in Clients, Writing(e)', e \notin alone'
          PROVE  request'[e].ds \in trouble'
      <3>1. CASE e = c
        BY <1>0, <1>2, <1>5, <2>2, <3>1
      <3>2. CASE e # c
        <4>1. request'[e] = request[e] /\ Writing(e) /\ e \notin alone
          BY <1>0, <1>1, <2>2, <3>2
        <4>2. request[e].ds \in trouble
          BY <4>1 DEF Agreement, History
        <4> QED
          BY <1>3, <1>4, <1>5, <3>2, <4>1, <4>2
      <3> QED
        BY <3>1, <3>2
    <2> QED
      BY <2>1, <2>2 DEF History
  <1>7. AloneSettled'
    <2> SUFFICES ASSUME NEW a \in alone', Writing(a)'
                 PROVE  Settled(a)'
      BY DEF AloneSettled
    <2>1. CASE a = c
      BY <1>0, <2>1 DEF Writes
    <2>2. CASE a # c
      <3>1. a \in Clients /\ a \in alone /\ request'[a] = request[a] /\ Writing(a)
        BY <1>0, <1>1, <2>2
      <3>2. request[a].ds # d /\ request[a].ds \in Datasets
        BY <1>0, <1>4, <2>2, <3>1
      <3>3. Settled(a)
        BY <3>1 DEF Agreement, AloneSettled
      <3> QED
        BY <1>3, <3>1, <3>2, <3>3, ElsewhereSettled DEF Writes
    <2> QED
      BY <2>1, <2>2
  <1>8. UntroubledAgree'
    <2> SUFFICES ASSUME NEW x \in Datasets, x \notin trouble', Writers(x)' = {}
                 PROVE  Agree(x)'
      BY DEF UntroubledAgree
    <2>1. CASE x = d
      <3>1. ~Writing(c)'
        BY <1>2, <2>1, WritersThen
      <3>2. c \in alone
        BY <1>5, <2>1
      <3> QED
        BY <2>1, <3>1, <3>2 DEF Writes
    <2>2. CASE x # d
      <3>1. Writers(x) = {}
        BY <1>1, <1>2, <2>2, WritersAre, WritersThen
      <3>2. Agree(x)
        BY <1>3, <2>2, <3>1 DEF Agreement, UntroubledAgree
      <3> QED
        BY <2>2, <3>2 DEF Writes, Agree, Live
    <2> QED
      BY <2>1, <2>2
  <1> QED
    BY <1>6, <1>7, <1>8 DEF Agreement

\* What a step of a writer leaves alone.
Within(c) ==
    /\ \A x \in Datasets : x # request[c].ds => dataset'[x] = dataset[x] /\ object'[x] = object[x]
    /\ alone' = alone
    /\ \/ trouble' = trouble
       \/ trouble' = trouble \cup {request[c].ds}
       \/ trouble' = trouble \ {request[c].ds} /\ c \in alone

\* A write that ends well leaves row and object in agreement.
LEMMA WriteEnds ==
    ASSUME TypeOK, Agreement, NEW c \in Clients, Writing(c), Within(c), End(c),
           ASSUME NEW d \in Datasets, d = request[c].ds, c \in alone, Settled(c), d \notin trouble'
           PROVE  Agree(d)'
    PROVE  Agreement'
  <1>1. request'[c] = NoRequest /\ \A e \in Clients \ {c} : request'[e] = request[e]
    BY EndGoto
  <1>2. ~Writing(c)'
    BY <1>1, Idle DEF Writing, InFlight
  <1>3. c \in alone => Settled(c)
    BY DEF Agreement, AloneSettled
  <1>4. c \in alone => \A x \in Datasets : x = request[c].ds => x \in trouble' \/ Agree(x)'
    BY <1>3
  <1>5. Writes(c)
    BY <1>1, <1>2, <1>4 DEF Writes, Within
  <1> QED
    BY <1>5, WritesAgrees

\* A write that goes on stays settled.
LEMMA WriteGoesOn ==
    ASSUME TypeOK, Agreement, NEW c \in Clients, Writing(c), Within(c),
           \A e \in Clients \ {c} : request'[e] = request[e],
           request'[c].op = request[c].op, request'[c].ds = request[c].ds,
           request'[c].pc \notin {"idle", "done"},
           ASSUME c \in alone, Settled(c)
           PROVE  Settled(c)'
    PROVE  Agreement'
  <1>1. Writing(c)'
    BY DEF Writing, InFlight
  <1>2. c \in alone => Settled(c)
    BY DEF Agreement, AloneSettled
  <1>3. c \in alone => Settled(c)'
    BY <1>2
  <1>4. Writes(c)
    BY <1>1, <1>3 DEF Writes, Within
  <1> QED
    BY <1>4, WritesAgrees

\* Requests that do not write, by their requests alone.
LEMMA NotWriting ==
    ASSUME TypeOK, Agreement, NEW c \in Clients, ~Writing(c), ~Writing(c)',
           \A e \in Clients \ {c} : request'[e] = request[e],
           UNCHANGED <<dataset, object, alone, trouble>>
    PROVE  Agreement'
  BY AsideAgrees DEF Aside

\* A write that begins in order, or is not alone.
LEMMA WriteBegins ==
    ASSUME TypeOK, Agreement, NEW c \in Clients, NEW r, BeginWrite(c, r),
           r.op \in WriteOps, r.ds \in Datasets, r.pc \notin {"idle", "done"},
           \A x \in Datasets : x # r.ds => dataset'[x] = dataset[x],
           object' = object,
           ASSUME Writers(r.ds) = {}, request'[c] = r, trouble' = trouble,
                  r.ds \notin trouble => Agree(r.ds)
           PROVE  Settled(c)'
    PROVE  Agreement'
  <1>1. request'[c] = r /\ \A e \in Clients \ {c} : request'[e] = request[e]
    BY BeginMoves DEF BeginWrite
  <1>2. ~Writing(c) /\ Writing(c)'
    BY <1>1 DEF BeginWrite, Begin, Writing, InFlight
  <1>3. Writers(r.ds) = {} => Settled(c)'
    <2> SUFFICES ASSUME Writers(r.ds) = {}
                 PROVE  Settled(c)'
      OBVIOUS
    <2>1. trouble' = trouble
      BY DEF BeginWrite
    <2>2. r.ds \notin trouble => Agree(r.ds)
      BY DEF Agreement, UntroubledAgree
    <2> QED
      BY <1>1, <2>1, <2>2
  <1>4. Starting(c, r)
    BY <1>1, <1>2, <1>3 DEF Starting, BeginWrite
  <1> QED
    BY <1>4, StartingAgrees

\* Every step of the store keeps Agreement.
LEMMA StoreAgrees ==
    ASSUME Inv, Lifecycle, Agreement, NEW c \in Clients, StoreStep(c)
    PROVE  Agreement'
  <1> DEFINE req == request[c]
  <1>0. /\ TypeOK /\ Placed(c) /\ request[c] \in Request /\ Sound(req)
        /\ req.ds \in Datasets /\ req.key \in Datasets \cup {NoKey}
        /\ req.prev \in Datasets \cup {NoKey}
        /\ dataset \in [Datasets -> Row] /\ NoKey \notin Datasets
        /\ request \in [Clients -> Request] /\ object \in [Datasets -> Seq(Bodies) \cup {NoObject}]
    BY StoreAssumption DEF Inv, RequestsSound, Lifecycle, TypeOK, StoreTypeOK, Request
  <1>k. \A d \in Datasets : dataset[d].key \in {NoKey, d} /\ (~Live(d) => dataset[d].key = NoKey)
    BY DEF Inv, RowSound, Lifecycle
  <1>1. CASE AddDataset(c)
    <2>1. PICK d \in Datasets, content \in Contents :
              /\ dataset[d].status = "none"
              /\ dataset' = [dataset EXCEPT ![d] = NoRow("new")]
              /\ BeginWrite(c, [NoRequest EXCEPT !.op = "add", !.ds = d, !.content = content,
                                   !.pc = IF UsesStore(content) THEN "put" ELSE "row",
                                   !.checksum = content])
              /\ UNCHANGED object
      BY <1>1 DEF AddDataset
    <2>2. PICK r : r = [NoRequest EXCEPT !.op = "add", !.ds = d, !.content = content,
                           !.pc = IF UsesStore(content) THEN "put" ELSE "row",
                           !.checksum = content]
      OBVIOUS
    <2>3. r.op = "add" /\ r.ds = d /\ r.key = NoKey /\ r.pc \in {"put", "row"}
      BY <2>2 DEF NoRequest
    <2>4. BeginWrite(c, r)
      BY <2>1, <2>2
    <2>5. dataset'[d].status = "new" /\ \A x \in Datasets : x # d => dataset'[x] = dataset[x]
      BY <1>0, <2>1, RowStatus
    <2>6. Agree(d) => Agree(d)'
      BY <2>1, <2>5 DEF Agree, Live
    <2>7. ASSUME request'[c] = r, trouble' = trouble, d \notin trouble => Agree(d)
          PROVE  Settled(c)'
      BY <2>3, <2>6, <2>7 DEF Settled
    <2> QED
      BY <1>0, <2>1, <2>3, <2>4, <2>5, <2>7, WriteBegins DEF WriteOps
  <1>2. CASE PutObject(c)
    <2>1. /\ request'[c].op = req.op /\ request'[c].ds = req.ds /\ request'[c].pc = "row"
          /\ request'[c].key = req.ds /\ request'[c].prev = req.prev
          /\ request'[c].checksum = req.checksum
          /\ req.op \in {"add", "update"} /\ req.pc = "put"
          /\ \A e \in Clients \ {c} : request'[e] = request[e]
      BY <1>0, <1>2 DEF PutObject, AtWrite, Request
    <2>2. /\ object'[req.ds] = req.content /\ UNCHANGED <<dataset, alone, trouble>>
          /\ \A x \in Datasets : x # req.ds => object'[x] = object[x]
      BY <1>0, <1>2 DEF PutObject
    <2>3. Writing(c)
      BY <2>1 DEF Writing, InFlight, WriteOps
    <2>4. req.checksum = req.content
      BY <1>0, <2>1 DEF Sound
    <2>5. Settled(c) => Settled(c)'
      BY <1>0, <2>1, <2>2, <2>4 DEF Settled
    <2> QED
      BY <1>0, <2>1, <2>2, <2>3, <2>5, WriteGoesOn DEF Within
  <1>3. CASE CreateDataset(c)
    <2>1. PICK row : row = LiveRow(req.content, req.checksum, req.key)
      OBVIOUS
    <2>2. row.status = "live" /\ row.key = req.key /\ row.checksum = req.checksum
      BY <2>1, RowStatus
    <2>3. /\ dataset'[req.ds] = row /\ \A x \in Datasets : x # req.ds => dataset'[x] = dataset[x]
          /\ UNCHANGED <<object, alone, trouble>> /\ End(c)
          /\ req.op = "add" /\ req.pc = "row"
      BY <1>0, <1>3, <2>1 DEF CreateDataset, At
    <2>4. Writing(c)
      BY <2>3 DEF Writing, InFlight, WriteOps
    <2>5. ~Live(req.ds) /\ req.key \in {NoKey, req.ds}
      BY <1>0, <2>3 DEF Placed, Live, WriteOps
    <2>6. ASSUME NEW d \in Datasets, d = req.ds, Settled(c), d \notin trouble'
          PROVE  Agree(d)'
      BY <2>2, <2>3, <2>5, <2>6 DEF Settled, Agree, Live
    <2> QED
      BY <1>0, <2>3, <2>4, <2>6, WriteEnds DEF Within
  <1>4. CASE CreateDatasetFails(c)
    <2>1. /\ UNCHANGED <<dataset, object, alone, trouble>> /\ UndoOrEnd(c)
          /\ req.op = "add" /\ req.pc = "row"
      BY <1>4 DEF CreateDatasetFails, At
    <2>2. Writing(c)
      BY <2>1 DEF Writing, InFlight, WriteOps
    <2>3. ~Live(req.ds)
      BY <1>0, <2>1 DEF Placed, Live
    <2>4. CASE req.key = NoKey
      <3>1. ASSUME NEW d \in Datasets, d = req.ds, Settled(c), d \notin trouble'
            PROVE  Agree(d)'
        BY <2>1, <2>4, <3>1 DEF Settled, Agree, Live
      <3> QED
        BY <1>0, <2>1, <2>2, <2>4, <3>1, WriteEnds DEF Within, UndoOrEnd
    <2>5. CASE req.key # NoKey
      <3>1. Goto(c, "undo")
        BY <2>1, <2>5 DEF UndoOrEnd
      <3>2. /\ request'[c].op = req.op /\ request'[c].ds = req.ds /\ request'[c].pc = "undo"
            /\ \A e \in Clients \ {c} : request'[e] = request[e]
        BY <1>0, <3>1, EndGoto
      <3>3. Settled(c)'
        BY <2>1, <2>3, <3>2 DEF Settled, Live
      <3> QED
        BY <1>0, <2>1, <2>2, <3>2, <3>3, WriteGoesOn DEF Within
    <2> QED
      BY <2>4, <2>5
  <1>5. CASE DeleteNewObject(c)
    <2>1. req.op \in WriteOps /\ req.pc = "undo" /\ UNCHANGED <<dataset, alone, trouble>> /\ End(c)
      BY <1>5 DEF DeleteNewObject, AtWrite
    <2>2. req.key = req.ds
      BY <1>0, <2>1 DEF Placed
    <2>3. object'[req.ds] = NoObject /\ \A x \in Datasets : x # req.ds => object'[x] = object[x]
      BY <1>0, <1>5, <2>2 DEF DeleteNewObject
    <2>4. Writing(c)
      BY <2>1 DEF Writing, InFlight
    <2>5. ASSUME NEW d \in Datasets, d = req.ds, Settled(c), d \notin trouble'
          PROVE  Agree(d)'
      BY <2>1, <2>3, <2>5 DEF Settled, Agree, Live
    <2> QED
      BY <1>0, <2>1, <2>3, <2>4, <2>5, WriteEnds DEF Within
  <1>6. CASE UpdateDatasetByUuid(c)
    <2>1. PICK d \in Datasets, content \in Contents :
              /\ BeginWrite(c, [NoRequest EXCEPT !.op = "update", !.ds = d, !.pc = "ref",
                                   !.content = content, !.checksum = content])
              /\ UNCHANGED <<dataset, object>>
      BY <1>6 DEF UpdateDatasetByUuid
    <2>2. PICK r : r = [NoRequest EXCEPT !.op = "update", !.ds = d, !.pc = "ref",
                           !.content = content, !.checksum = content]
      OBVIOUS
    <2>3. r.op = "update" /\ r.ds = d /\ r.key = NoKey /\ r.pc = "ref"
      BY <2>2 DEF NoRequest
    <2>4. BeginWrite(c, r)
      BY <2>1, <2>2
    <2>5. ASSUME request'[c] = r, trouble' = trouble, d \notin trouble => Agree(d)
          PROVE  Settled(c)'
      BY <2>1, <2>3, <2>5 DEF Settled, Agree, Live
    <2> QED
      BY <1>0, <2>1, <2>3, <2>4, <2>5, WriteBegins DEF WriteOps
  <1>7. CASE ReadPreviousRef(c)
    <2>1. PICK pc : /\ request' = [request EXCEPT ![c].prev = dataset[req.ds].key, ![c].pc = pc]
                    /\ pc \in {"parts", "find", "put", "row"}
      BY <1>7 DEF ReadPreviousRef, GoOnWithRef
    <2>2. /\ request'[c].op = req.op /\ request'[c].ds = req.ds /\ request'[c].pc = pc
          /\ request'[c].key = req.key /\ request'[c].prev = dataset[req.ds].key
          /\ \A e \in Clients \ {c} : request'[e] = request[e]
      BY <1>0, <2>1 DEF Request
    <2>3. /\ req.op \in {"update", "assemble"} /\ req.pc = "ref"
          /\ UNCHANGED <<dataset, object, alone, trouble>>
      BY <1>7 DEF ReadPreviousRef, GoOnWithRef, AtWrite
    <2>4. Writing(c)
      BY <2>3 DEF Writing, InFlight, WriteOps
    <2>5. Settled(c) => Settled(c)'
      BY <2>1, <2>2, <2>3 DEF Settled, Agree, Live
    <2> QED
      BY <1>0, <2>1, <2>2, <2>3, <2>4, <2>5, WriteGoesOn DEF Within
  <1>8. CASE FindFormat(c)
    <2>1. /\ UNCHANGED <<dataset, object, alone, trouble>> /\ (Goto(c, "put") \/ End(c))
          /\ req.op = "update" /\ req.pc = "find"
      BY <1>8 DEF FindFormat, At
    <2>2. Writing(c)
      BY <2>1 DEF Writing, InFlight, WriteOps
    <2>3. CASE End(c)
      <3>1. ASSUME NEW d \in Datasets, d = req.ds, Settled(c), d \notin trouble'
            PROVE  Agree(d)'
        BY <2>1, <3>1 DEF Settled, Agree, Live
      <3> QED
        BY <1>0, <2>1, <2>2, <2>3, <3>1, WriteEnds DEF Within
    <2>4. CASE Goto(c, "put")
      <3>1. /\ request'[c].op = req.op /\ request'[c].ds = req.ds /\ request'[c].pc = "put"
            /\ request'[c].prev = req.prev
            /\ \A e \in Clients \ {c} : request'[e] = request[e]
        BY <1>0, <2>4, EndGoto
      <3>2. Settled(c) => Settled(c)'
        BY <2>1, <3>1 DEF Settled, Agree, Live
      <3> QED
        BY <1>0, <2>1, <2>2, <3>1, <3>2, WriteGoesOn DEF Within
    <2> QED
      BY <2>1, <2>3, <2>4
  <1>9. CASE UpdateDataset(c)
    <2>1. PICK row : row = LiveRow(req.content, req.checksum, req.key)
      OBVIOUS
    <2>2. row.status = "live" /\ row.key = req.key /\ row.checksum = req.checksum
      BY <2>1, RowStatus
    <2>3. /\ dataset'[req.ds] = row /\ \A x \in Datasets : x # req.ds => dataset'[x] = dataset[x]
          /\ UNCHANGED <<object, alone>>
          /\ trouble' = IF c \in alone /\ req.key # NoKey THEN trouble \ {req.ds} ELSE trouble
          /\ Continue(c, PcAfterUpdate(c))
          /\ req.op \in {"update", "assemble"} /\ req.pc = "row"
      BY <1>0, <1>9, <2>1 DEF UpdateDataset, AtWrite
    <2>4. Writing(c)
      BY <2>3 DEF Writing, InFlight, WriteOps
    <2>5. req.key \in {NoKey, req.ds} /\ req.prev \in {NoKey, req.ds}
      BY <1>0, <2>3 DEF Placed, WriteOps
    <2>6. Within(c)
      BY <2>3 DEF Within
    <2>7. ASSUME NEW d \in Datasets, d = req.ds, c \in alone, Settled(c), d \notin trouble',
                 PcAfterUpdate(c) # "drop"
          PROVE  Agree(d)'
      <3>1. req.prev \in {NoKey, req.key}
        BY <2>7 DEF PcAfterUpdate, OldObjectUnused
      <3>2. CASE req.key # NoKey
        BY <2>2, <2>3, <2>5, <2>7, <3>2 DEF Settled, Agree, Live
      <3>3. CASE req.key = NoKey
        <4>1. Agree(d) /\ dataset[d].key = NoKey
          BY <2>3, <2>7, <3>1, <3>3 DEF Settled
        <4>2. object[d] = NoObject
          BY <4>1 DEF Agree
        <4> QED
          BY <2>2, <2>3, <2>7, <3>3, <4>2 DEF Agree, Live
      <3> QED
        BY <3>2, <3>3
    <2>8. CASE PcAfterUpdate(c) = "idle"
      <3>1. End(c)
        BY <2>3, <2>8 DEF Continue
      <3> QED
        BY <1>0, <2>4, <2>6, <2>7, <2>8, <3>1, WriteEnds
    <2>9. CASE PcAfterUpdate(c) # "idle"
      <3>1. PICK pc : pc = PcAfterUpdate(c)
        OBVIOUS
      <3>2. Goto(c, pc) /\ pc \in {"drop", "session"}
        BY <2>3, <2>9, <3>1, Labels DEF Continue
      <3>3. /\ request'[c].op = req.op /\ request'[c].ds = req.ds /\ request'[c].pc = pc
            /\ \A e \in Clients \ {c} : request'[e] = request[e]
        BY <1>0, <3>2, EndGoto
      <3>4. ASSUME c \in alone, Settled(c)
            PROVE  Settled(c)'
        <4>1. CASE pc = "drop"
          <5>1. req.key = NoKey
            BY <2>5, <3>1, <4>1 DEF PcAfterUpdate, OldObjectUnused
          <5> QED
            BY <2>2, <2>3, <3>3, <4>1, <5>1 DEF Settled
        <4>2. CASE pc = "session"
          <5>1. \A d \in Datasets : d = req.ds /\ d \notin trouble' => Agree(d)'
            BY <2>7, <3>1, <3>4, <4>2
          <5>2. \A d \in Datasets : d = request'[c].ds /\ d \notin trouble' => Agree(d)'
            BY <3>3, <5>1
          <5>3. request'[c].ds \in Datasets
            BY <1>0, <3>3
          <5>4. PICK d \in Datasets : d = request'[c].ds
            BY <5>3
          <5>5. d \notin trouble' => Agree(d)'
            BY <5>2, <5>4
          <5> QED
            BY <3>3, <4>2, <5>4, <5>5 DEF Settled, Agree, Live
        <4> QED
          BY <3>2, <4>1, <4>2
      <3> QED
        BY <1>0, <2>4, <2>6, <3>2, <3>3, <3>4, WriteGoesOn
    <2> QED
      BY <2>8, <2>9
  <1>10. CASE UpdateDatasetFails(c)
    <2>1. /\ UNCHANGED <<dataset, object, alone>> /\ UndoOrEnd(c)
          /\ req.op \in {"update", "assemble"} /\ req.pc = "row"
          /\ IF Live(req.ds) /\ req.key # NoKey THEN trouble' = trouble \cup {req.ds}
                                                ELSE trouble' = trouble
      BY <1>10 DEF UpdateDatasetFails, AtWrite, Troubled
    <2>2. Writing(c)
      BY <2>1 DEF Writing, InFlight, WriteOps
    <2>3. Within(c)
      BY <2>1 DEF Within
    <2>4. CASE req.key = NoKey
      <3>1. ASSUME NEW d \in Datasets, d = req.ds, Settled(c), d \notin trouble'
            PROVE  Agree(d)'
        BY <2>1, <2>4, <3>1 DEF Settled, Agree, Live
      <3> QED
        BY <1>0, <2>1, <2>2, <2>3, <2>4, <3>1, WriteEnds DEF UndoOrEnd
    <2>5. CASE req.key # NoKey
      <3>1. Goto(c, "undo")
        BY <2>1, <2>5 DEF UndoOrEnd
      <3>2. /\ request'[c].op = req.op /\ request'[c].ds = req.ds /\ request'[c].pc = "undo"
            /\ \A e \in Clients \ {c} : request'[e] = request[e]
        BY <1>0, <3>1, EndGoto
      <3>3. Settled(c)'
        BY <2>1, <2>5, <3>2 DEF Settled, Live
      <3> QED
        BY <1>0, <2>2, <2>3, <3>2, <3>3, WriteGoesOn
    <2> QED
      BY <2>4, <2>5
  <1>11. CASE DeleteOldObject(c)
    <2>1. /\ req.op \in WriteOps /\ req.pc = "drop" /\ UNCHANGED <<dataset, alone, trouble>>
          /\ IF req.op = "assemble" THEN Goto(c, "session") ELSE End(c)
      BY <1>11 DEF DeleteOldObject, AtWrite
    <2>2. req.prev = req.ds
      BY <1>0, <2>1 DEF Placed
    <2>3. object'[req.ds] = NoObject /\ \A x \in Datasets : x # req.ds => object'[x] = object[x]
      BY <1>0, <1>11, <2>2 DEF DeleteOldObject
    <2>4. Writing(c) /\ Within(c)
      BY <2>1, <2>3 DEF Within, Writing, InFlight
    <2>5. ASSUME NEW d \in Datasets, d = req.ds, Settled(c), d \notin trouble'
          PROVE  Agree(d)'
      BY <2>1, <2>3, <2>5 DEF Settled, Agree, Live
    <2>6. CASE req.op = "assemble"
      <3>1. /\ request'[c].op = req.op /\ request'[c].ds = req.ds /\ request'[c].pc = "session"
            /\ \A e \in Clients \ {c} : request'[e] = request[e]
        BY <1>0, <2>1, <2>6, EndGoto, ZenonT(60)
      <3>2. ASSUME Settled(c)
            PROVE  Settled(c)'
        BY <2>1, <2>3, <3>1, <3>2 DEF Settled, Agree, Live
      <3> QED
        BY <1>0, <2>4, <3>1, <3>2, WriteGoesOn
    <2> QED
      BY <1>0, <2>1, <2>4, <2>5, <2>6, WriteEnds
  <1>12. CASE DeleteDataset(c)
    <2>1. PICK d \in Datasets :
              /\ BeginWrite(c, [NoRequest EXCEPT !.op = "delete", !.ds = d, !.pc = "ref"])
              /\ UNCHANGED <<dataset, object>>
      BY <1>12 DEF DeleteDataset
    <2>2. PICK r : r = [NoRequest EXCEPT !.op = "delete", !.ds = d, !.pc = "ref"]
      OBVIOUS
    <2>3. r.op = "delete" /\ r.ds = d /\ r.key = NoKey /\ r.pc = "ref"
      BY <2>2 DEF NoRequest
    <2>4. BeginWrite(c, r)
      BY <2>1, <2>2
    <2>5. ASSUME request'[c] = r, trouble' = trouble, d \notin trouble => Agree(d)
          PROVE  Settled(c)'
      BY <2>1, <2>3, <2>5 DEF Settled, Agree, Live
    <2> QED
      BY <1>0, <2>1, <2>3, <2>4, <2>5, WriteBegins DEF WriteOps
  <1>13. CASE ReadRefToDelete(c)
    <2>1. /\ UNCHANGED <<dataset, object, alone, trouble>>
          /\ req.op = "delete" /\ req.pc = "ref"
      BY <1>13 DEF ReadRefToDelete, At
    <2>2. Writing(c) /\ Within(c)
      BY <2>1 DEF Writing, InFlight, WriteOps, Within
    <2>3. CASE Live(req.ds)
      <3>1. request' = [request EXCEPT ![c].prev = dataset[req.ds].key, ![c].pc = "row"]
        BY <1>13, <2>3 DEF ReadRefToDelete
      <3>2. /\ request'[c].op = req.op /\ request'[c].ds = req.ds /\ request'[c].pc = "row"
            /\ request'[c].key = req.key /\ request'[c].prev = dataset[req.ds].key
            /\ \A e \in Clients \ {c} : request'[e] = request[e]
        BY <1>0, <3>1 DEF Request
      <3>3. Settled(c) => Settled(c)'
        BY <2>1, <3>2 DEF Settled, Agree, Live
      <3> QED
        BY <1>0, <2>2, <3>2, <3>3, WriteGoesOn
    <2>4. CASE ~Live(req.ds)
      <3>1. End(c)
        BY <1>13, <2>4 DEF ReadRefToDelete
      <3>2. ASSUME NEW d \in Datasets, d = req.ds, Settled(c), d \notin trouble'
            PROVE  Agree(d)'
        BY <2>1, <3>2 DEF Settled, Agree, Live
      <3> QED
        BY <1>0, <2>2, <3>1, <3>2, WriteEnds
    <2> QED
      BY <2>3, <2>4
  <1>14. CASE GetDatasetContentByUuid(c)
    <2>1. PICK d \in Datasets :
              /\ Begin(c, [NoRequest EXCEPT !.op = "download", !.ds = d,
                              !.key = dataset[d].key,
                              !.pc = IF dataset[d].key = NoKey THEN "done" ELSE "get",
                              !.checksum = dataset[d].checksum,
                              !.content = dataset[d].content])
              /\ UNCHANGED <<dataset, object, alone, trouble>>
      BY <1>14 DEF GetDatasetContentByUuid
    <2>2. PICK r : r = [NoRequest EXCEPT !.op = "download", !.ds = d,
                              !.key = dataset[d].key,
                              !.pc = IF dataset[d].key = NoKey THEN "done" ELSE "get",
                              !.checksum = dataset[d].checksum,
                              !.content = dataset[d].content]
      OBVIOUS
    <2>3. r.op = "download"
      BY <2>2 DEF NoRequest
    <2>4. request'[c] = r /\ \A e \in Clients \ {c} : request'[e] = request[e]
      BY <1>0, <2>1, <2>2, BeginMoves
    <2>5. ~Writing(c) /\ ~Writing(c)'
      BY <2>1, <2>3, <2>4 DEF Begin, Writing, WriteOps
    <2> QED
      BY <1>0, <2>1, <2>4, <2>5, NotWriting
  <1>15. CASE GetObject(c)
    <2>1. req.op = "download" /\ UNCHANGED <<dataset, object, alone, trouble>>
      BY <1>15 DEF GetObject, At
    <2>2. /\ request'[c].op \in {"download", "none"}
          /\ \A e \in Clients \ {c} : request'[e] = request[e]
      BY <1>0, <1>15, <2>1, EndGoto, Idle DEF GetObject, Request
    <2>3. ~Writing(c) /\ ~Writing(c)'
      BY <2>1, <2>2 DEF Writing, WriteOps
    <2> QED
      BY <1>0, <2>1, <2>2, <2>3, NotWriting
  <1>16. CASE Abandon(c)
    <2>1. InFlight(c) /\ End(c) /\ UNCHANGED <<dataset, object, alone>>
      BY <1>16 DEF Abandon
    <2>2. CASE req.op \in WriteOps
      <3>1. trouble' = trouble \cup {req.ds} /\ Writing(c)
        BY <1>16, <2>1, <2>2 DEF Abandon, Troubled, Writing
      <3>2. Within(c)
        BY <2>1, <3>1 DEF Within
      <3> QED
        BY <1>0, <2>1, <3>1, <3>2, WriteEnds
    <2>3. CASE req.op \notin WriteOps
      <3>1. UNCHANGED trouble /\ ~Writing(c)
        BY <1>16, <2>3 DEF Abandon, Writing
      <3>2. request'[c] = NoRequest /\ \A e \in Clients \ {c} : request'[e] = request[e]
        BY <1>0, <2>1, EndGoto
      <3>3. ~Writing(c)'
        BY <3>2, Idle DEF Writing, InFlight
      <3> QED
        BY <1>0, <2>1, <3>1, <3>2, <3>3, NotWriting
    <2> QED
      BY <2>2, <2>3
  <1>17. CASE ReadPreviousRefFails(c)
    <2>1. PICK pc : /\ request' = [request EXCEPT ![c].prev = NoKey, ![c].pc = pc]
                    /\ pc \in {"parts", "find", "put", "row"}
      BY <1>17 DEF ReadPreviousRefFails, GoOnWithRef
    <2>2. /\ request'[c].op = req.op /\ request'[c].ds = req.ds /\ request'[c].pc = pc
          /\ request'[c].key = req.key /\ request'[c].prev = NoKey
          /\ \A e \in Clients \ {c} : request'[e] = request[e]
      BY <1>0, <2>1 DEF Request
    <2>3. /\ req.op \in {"update", "assemble"} /\ req.pc = "ref"
          /\ UNCHANGED <<dataset, object, alone>>
          /\ IF dataset[req.ds].key # NoKey THEN trouble' = trouble \cup {req.ds}
                                            ELSE UNCHANGED trouble
      BY <1>17 DEF ReadPreviousRefFails, GoOnWithRef, AtWrite, Troubled
    <2>4. Writing(c) /\ Within(c)
      BY <2>3 DEF Writing, InFlight, WriteOps, Within
    <2>5. Settled(c) => Settled(c)'
      BY <2>1, <2>2, <2>3 DEF Settled, Agree, Live
    <2> QED
      BY <1>0, <2>1, <2>2, <2>4, <2>5, WriteGoesOn
  <1>18. CASE DeleteOldObjectFails(c)
    <2>1. /\ req.op \in WriteOps /\ req.pc = "drop" /\ UNCHANGED <<dataset, object, alone>>
          /\ trouble' = trouble \cup {req.ds}
          /\ IF req.op = "assemble" THEN Goto(c, "session") ELSE End(c)
      BY <1>18 DEF DeleteOldObjectFails, AtWrite, Troubled
    <2>2. Writing(c) /\ Within(c)
      BY <2>1 DEF Within, Writing, InFlight
    <2>3. CASE req.op = "assemble"
      <3>1. /\ request'[c].op = req.op /\ request'[c].ds = req.ds /\ request'[c].pc = "session"
            /\ \A e \in Clients \ {c} : request'[e] = request[e]
        BY <1>0, <2>1, <2>3, EndGoto, ZenonT(60)
      <3>2. Settled(c)'
        BY <2>1, <3>1 DEF Settled
      <3> QED
        BY <1>0, <2>2, <3>1, <3>2, WriteGoesOn
    <2> QED
      BY <1>0, <2>1, <2>2, <2>3, WriteEnds
  <1> QED
    BY <1>1, <1>2, <1>3, <1>4, <1>5, <1>6, <1>7, <1>8, <1>9, <1>10, <1>11, <1>12, <1>13,
       <1>14, <1>15, <1>16, <1>17, <1>18 DEF StoreStep

\* Every step of the uploads does.
LEMMA UploadAgrees ==
    ASSUME Inv, Lifecycle, Agreement, NEW c \in Clients, UploadStep(c)
    PROVE  Agreement'
  <1> DEFINE req == request[c]
  <1>0. /\ TypeOK /\ Placed(c) /\ request[c] \in Request /\ Sound(req)
        /\ req.ds \in Datasets /\ req.key \in Datasets \cup {NoKey}
        /\ req.content \in Seq(Bodies)
        /\ request \in [Clients -> Request] /\ object \in [Datasets -> Seq(Bodies) \cup {NoObject}]
        /\ NoObject \notin Seq(Bodies)
    BY StoreAssumption DEF Inv, RequestsSound, Lifecycle, TypeOK, StoreTypeOK, Request
  <1>e. ASSUME End(c), req.op \notin WriteOps, UNCHANGED <<dataset, object, alone, trouble>>
        PROVE  Agreement'
    <2>1. request'[c] = NoRequest /\ \A e \in Clients \ {c} : request'[e] = request[e]
      BY <1>0, <1>e, EndGoto
    <2>2. ~Writing(c) /\ ~Writing(c)'
      BY <1>e, <2>1, Idle DEF Writing, InFlight
    <2> QED
      BY <1>0, <1>e, <2>1, <2>2, NotWriting
  <1>g. ASSUME NEW pc, Goto(c, pc), req.op \notin WriteOps,
               UNCHANGED <<dataset, object, alone, trouble>>
        PROVE  Agreement'
    <2>1. request'[c].op = req.op /\ \A e \in Clients \ {c} : request'[e] = request[e]
      BY <1>0, <1>g, EndGoto
    <2>2. ~Writing(c) /\ ~Writing(c)'
      BY <1>g, <2>1 DEF Writing
    <2> QED
      BY <1>0, <1>g, <2>1, <2>2, NotWriting
  <1>b. ASSUME NEW r, Begin(c, r), r.op \notin WriteOps,
               UNCHANGED <<dataset, object, alone, trouble>>
        PROVE  Agreement'
    <2>1. request'[c] = r /\ \A e \in Clients \ {c} : request'[e] = request[e]
      BY <1>0, <1>b, BeginMoves
    <2>2. ~Writing(c) /\ ~Writing(c)'
      BY <1>b, <2>1 DEF Begin, Writing
    <2> QED
      BY <1>0, <1>b, <2>1, <2>2, NotWriting
  <1>o. {"create_upload", "upload_part", "cancel"} \cap WriteOps = {}
    BY DEF WriteOps
  <1>1. CASE CreateUpload(c)
    <2>1. PICK u \in Uploads, d \in Datasets :
              /\ Begin(c, [NoRequest EXCEPT !.op = "create_upload", !.ds = d, !.up = u,
                                            !.pc = "stage"])
              /\ UNCHANGED <<dataset, object, alone, trouble>>
      BY <1>1 DEF CreateUpload
    <2>2. PICK r : r = [NoRequest EXCEPT !.op = "create_upload", !.ds = d, !.up = u, !.pc = "stage"]
      OBVIOUS
    <2>3. r.op = "create_upload"
      BY <2>2 DEF NoRequest
    <2> QED
      BY <1>b, <1>o, <2>1, <2>2, <2>3
  <1>2. CASE CreateMultipartUpload(c)
    BY <1>g, <1>o, <1>2 DEF CreateMultipartUpload, At
  <1>3. CASE CreateDatasetUpload(c)
    BY <1>e, <1>o, <1>3 DEF CreateDatasetUpload, At
  <1>4. CASE CreateDatasetUploadFails(c)
    BY <1>g, <1>o, <1>4 DEF CreateDatasetUploadFails, At
  <1>5. CASE AbortNewUpload(c)
    BY <1>e, <1>o, <1>5 DEF AbortNewUpload, At
  <1>6. CASE UploadPart(c)
    <2>1. PICK u \in Uploads, d \in Datasets, n \in 1..MaxParts, body \in Bodies :
              /\ Begin(c, [NoRequest EXCEPT !.op = "upload_part", !.ds = d, !.up = u,
                              !.part = n, !.content = <<body>>, !.pc = "stage"])
              /\ UNCHANGED <<dataset, object, alone, trouble>>
      BY <1>6 DEF UploadPart
    <2>2. PICK r : r = [NoRequest EXCEPT !.op = "upload_part", !.ds = d, !.up = u,
                              !.part = n, !.content = <<body>>, !.pc = "stage"]
      OBVIOUS
    <2>3. r.op = "upload_part"
      BY <2>2 DEF NoRequest
    <2> QED
      BY <1>b, <1>o, <2>1, <2>2, <2>3
  <1>7. CASE StagePart(c)
    BY <1>g, <1>o, <1>7 DEF StagePart, At
  <1>8. CASE UpsertDatasetUploadPart(c)
    BY <1>e, <1>o, <1>8 DEF UpsertDatasetUploadPart, At
  <1>9. CASE UpsertDatasetUploadPartFails(c)
    BY <1>e, <1>g, <1>o, <1>9 DEF UpsertDatasetUploadPartFails, At
  <1>10. CASE RemovePartFile(c)
    BY <1>e, <1>o, <1>10 DEF RemovePartFile, At
  <1>11. CASE CancelUpload(c)
    <2>1. PICK u \in Uploads, d \in Datasets :
              /\ Begin(c, [NoRequest EXCEPT !.op = "cancel", !.ds = d, !.up = u,
                                            !.pc = "unstage"])
              /\ UNCHANGED <<dataset, object, alone, trouble>>
      BY <1>11 DEF CancelUpload
    <2>2. PICK r : r = [NoRequest EXCEPT !.op = "cancel", !.ds = d, !.up = u, !.pc = "unstage"]
      OBVIOUS
    <2>3. r.op = "cancel"
      BY <2>2 DEF NoRequest
    <2> QED
      BY <1>b, <1>o, <2>1, <2>2, <2>3
  <1>12. CASE AbortUpload(c)
    BY <1>g, <1>o, <1>12 DEF AbortUpload, At
  <1>13. CASE CancelDatasetUpload(c)
    BY <1>e, <1>o, <1>13 DEF CancelDatasetUpload, At
  <1>14. CASE AssembleUpload(c)
    <2>1. PICK u \in Uploads, d \in Datasets, digest \in Digests :
              /\ BeginWrite(c, [NoRequest EXCEPT !.op = "assemble", !.ds = d, !.up = u,
                                   !.digest = digest, !.pc = "ref"])
              /\ UNCHANGED <<dataset, object>>
      BY <1>14 DEF AssembleUpload
    <2>2. PICK r : r = [NoRequest EXCEPT !.op = "assemble", !.ds = d, !.up = u,
                                   !.digest = digest, !.pc = "ref"]
      OBVIOUS
    <2>3. r.op = "assemble" /\ r.ds = d /\ r.key = NoKey /\ r.pc = "ref"
      BY <2>2 DEF NoRequest
    <2>4. BeginWrite(c, r)
      BY <2>1, <2>2
    <2>5. ASSUME request'[c] = r, trouble' = trouble, d \notin trouble => Agree(d)
          PROVE  Settled(c)'
      BY <2>1, <2>3, <2>5 DEF Settled, Agree, Live
    <2> QED
      BY <1>0, <2>1, <2>3, <2>4, <2>5, WriteBegins DEF WriteOps
  <1>w. req.op = "assemble" /\ req.pc \notin {"idle", "done"} => Writing(c)
    BY DEF Writing, InFlight, WriteOps
  <1>f. ASSUME req.op = "assemble", req.pc \in {"parts", "complete", "session", "rmdir"}, End(c),
               UNCHANGED <<dataset, object, alone, trouble>>
        PROVE  Agreement'
    <2>1. ASSUME NEW d \in Datasets, d = req.ds, Settled(c), d \notin trouble'
          PROVE  Agree(d)'
      BY <1>f, <2>1 DEF Settled, Agree, Live
    <2> QED
      BY <1>0, <1>f, <1>w, <2>1, WriteEnds DEF Within
  <1>15. CASE ReadParts(c)
    <2>1. req.op = "assemble" /\ req.pc = "parts" /\ UNCHANGED <<dataset, object, alone, trouble>>
      BY <1>15 DEF ReadParts, At
    <2>2. CASE End(c)
      BY <1>f, <2>1, <2>2
    <2>3. CASE \E n \in 1..MaxParts :
                  request' = [request EXCEPT
                                 ![c].content = [i \in 1..n |-> upload[req.up].parts[i]],
                                 ![c].pc = "complete"]
      <3>1. PICK content :
                  request' = [request EXCEPT ![c].content = content, ![c].pc = "complete"]
        BY <2>3
      <3>2. /\ request'[c].op = req.op /\ request'[c].ds = req.ds
            /\ request'[c].key = req.key /\ request'[c].prev = req.prev
            /\ request'[c].pc = "complete"
            /\ \A e \in Clients \ {c} : request'[e] = request[e]
        BY <1>0, <3>1 DEF Request
      <3>3. Settled(c) => Settled(c)'
        BY <2>1, <3>2 DEF Settled, Agree, Live
      <3> QED
        BY <1>0, <1>w, <2>1, <3>2, <3>3, WriteGoesOn DEF Within
    <2> QED
      BY <1>15, <2>2, <2>3 DEF ReadParts
  <1>16. CASE CompleteMultipartUpload(c)
    <2>1. req.op = "assemble" /\ req.pc = "complete" /\ UNCHANGED <<dataset, alone, trouble>>
      BY <1>16 DEF CompleteMultipartUpload, At
    <2>2. upload[req.up].ds = req.ds
      BY <1>0, <2>1 DEF Sound
    <2>3. /\ request'[c].op = req.op /\ request'[c].ds = req.ds
          /\ request'[c].prev = req.prev /\ request'[c].pc = "hash"
          /\ \A e \in Clients \ {c} : request'[e] = request[e]
      BY <1>0, <1>16 DEF CompleteMultipartUpload, Request
    <2>4. object'[req.ds] = req.content /\ \A x \in Datasets : x # req.ds => object'[x] = object[x]
      BY <1>0, <1>16, <2>2 DEF CompleteMultipartUpload
    <2>5. Settled(c) => Settled(c)'
      BY <1>0, <2>1, <2>3, <2>4 DEF Settled
    <2> QED
      BY <1>0, <1>w, <2>1, <2>3, <2>4, <2>5, WriteGoesOn DEF Within
  <1>17. CASE HashObject(c)
    <2>1. req.op = "assemble" /\ req.pc = "hash" /\ UNCHANGED <<dataset, object, alone, trouble>>
      BY <1>17 DEF HashObject, At
    <2>2. req.key = req.ds /\ req.key # NoKey
      BY <1>0, <2>1 DEF Sound
    <2>3. CASE object[req.key] = NoObject
      <3>1. End(c)
        BY <1>17, <2>3 DEF HashObject
      <3>2. ~Settled(c)
        BY <2>1, <2>2, <2>3 DEF Settled
      <3> QED
        BY <1>0, <1>w, <2>1, <3>1, <3>2, WriteEnds DEF Within
    <2>4. CASE object[req.key] # NoObject
      <3>1. PICK pc \in {"row", "md5"} :
                  request' = [request EXCEPT ![c].checksum = object[req.key], ![c].pc = pc]
        BY <1>17, <2>4 DEF HashObject
      <3>2. /\ request'[c].op = req.op /\ request'[c].ds = req.ds
            /\ request'[c].key = req.key /\ request'[c].prev = req.prev
            /\ request'[c].pc = pc /\ request'[c].checksum = object[req.ds]
            /\ \A e \in Clients \ {c} : request'[e] = request[e]
        BY <1>0, <2>2, <3>1 DEF Request
      <3>3. Settled(c) => Settled(c)'
        BY <2>1, <2>2, <3>1, <3>2 DEF Settled
      <3> QED
        BY <1>0, <1>w, <2>1, <3>1, <3>2, <3>3, WriteGoesOn DEF Within
    <2> QED
      BY <2>3, <2>4
  <1>18. CASE CheckDigest(c)
    <2>1. req.op = "assemble" /\ req.pc = "md5" /\ UNCHANGED <<dataset, object, alone>>
      BY <1>18 DEF CheckDigest, At
    <2>2. req.key # NoKey
      BY <1>0, <2>1 DEF Sound
    <2>3. CASE Goto(c, "row") /\ UNCHANGED trouble
      <3>1. /\ request'[c].op = req.op /\ request'[c].ds = req.ds
            /\ request'[c].key = req.key /\ request'[c].prev = req.prev
            /\ request'[c].pc = "row" /\ request'[c].checksum = req.checksum
            /\ \A e \in Clients \ {c} : request'[e] = request[e]
        BY <1>0, <2>3, EndGoto
      <3>2. Settled(c) => Settled(c)'
        BY <2>1, <2>2, <2>3, <3>1 DEF Settled
      <3> QED
        BY <1>0, <1>w, <2>1, <2>3, <3>1, <3>2, WriteGoesOn DEF Within
    <2>4. CASE End(c) /\ Troubled(c)
      <3>1. req.ds \in trouble' /\ Within(c)
        BY <2>1, <2>4 DEF Troubled, Within
      <3> QED
        BY <1>0, <1>w, <2>1, <2>4, <3>1, WriteEnds
    <2> QED
      BY <1>18, <2>3, <2>4 DEF CheckDigest
  <1>19. CASE AssembleInline(c)
    <2>1. /\ req.op = "assemble" /\ req.pc = "complete"
          /\ UNCHANGED <<dataset, object, alone, trouble>>
      BY <1>19 DEF AssembleInline, At
    <2>2. /\ request'[c].op = req.op /\ request'[c].ds = req.ds
          /\ request'[c].key = req.key /\ request'[c].prev = req.prev
          /\ request'[c].pc = "row"
          /\ \A e \in Clients \ {c} : request'[e] = request[e]
      BY <1>0, <1>19 DEF AssembleInline, Request
    <2>3. Settled(c) => Settled(c)'
      BY <2>1, <2>2 DEF Settled, Agree, Live
    <2> QED
      BY <1>0, <1>w, <2>1, <2>2, <2>3, WriteGoesOn DEF Within
  <1>20. CASE EndSession(c)
    <2>1. /\ req.op = "assemble" /\ req.pc = "session"
          /\ UNCHANGED <<dataset, object, alone, trouble>>
          /\ End(c) \/ Goto(c, "rmdir")
      BY <1>20 DEF EndSession, At
    <2>2. CASE Goto(c, "rmdir")
      <3>1. /\ request'[c].op = req.op /\ request'[c].ds = req.ds
            /\ request'[c].pc = "rmdir"
            /\ \A e \in Clients \ {c} : request'[e] = request[e]
        BY <1>0, <2>2, EndGoto
      <3>2. Settled(c) => Settled(c)'
        BY <2>1, <3>1 DEF Settled, Agree, Live
      <3> QED
        BY <1>0, <1>w, <2>1, <3>1, <3>2, WriteGoesOn DEF Within
    <2> QED
      BY <1>f, <2>1, <2>2
  <1>21. CASE RemoveUploadDir(c)
    BY <1>f, <1>21 DEF RemoveUploadDir, At
  <1> QED
    BY <1>1, <1>2, <1>3, <1>4, <1>5, <1>6, <1>7, <1>8, <1>9, <1>10, <1>11, <1>12, <1>13,
       <1>14, <1>15, <1>16, <1>17, <1>18, <1>19, <1>20, <1>21 DEF UploadStep

\* Deleting a dataset does: the object is dropped next, or there is none.
LEMMA DeleteRowAgrees ==
    ASSUME Inv, Lifecycle, Agreement, NEW c \in Clients, DeleteRowAndSessions(c)
    PROVE  Agreement'
  <1> DEFINE req == request[c]
  <1>0. /\ TypeOK /\ Placed(c) /\ req.ds \in Datasets /\ dataset \in [Datasets -> Row]
    BY DEF Inv, Lifecycle, TypeOK, StoreTypeOK, Request
  <1>1. /\ req.op = "delete" /\ req.pc = "row" /\ UNCHANGED <<object, alone, trouble>>
        /\ IF req.prev # NoKey THEN Goto(c, "drop") ELSE End(c)
    BY DEF DeleteRowAndSessions, DeleteRow, At
  <1>2. /\ dataset'[req.ds].status = "deleted" /\ dataset'[req.ds].key = NoKey
        /\ \A x \in Datasets : x # req.ds => dataset'[x] = dataset[x]
    BY <1>0, RowStatus DEF DeleteRowAndSessions, DeleteRow
  <1>3. Writing(c) /\ Within(c)
    BY <1>1, <1>2 DEF Writing, InFlight, WriteOps, Within
  <1>4. req.key = NoKey
    BY <1>0, <1>1 DEF Placed
  <1>5. CASE req.prev # NoKey
    <2>1. /\ request'[c].op = req.op /\ request'[c].ds = req.ds /\ request'[c].pc = "drop"
          /\ \A e \in Clients \ {c} : request'[e] = request[e]
      BY <1>0, <1>1, <1>5, EndGoto
    <2>2. Settled(c)'
      BY <1>2, <2>1 DEF Settled
    <2> QED
      BY <1>0, <1>3, <2>1, <2>2, WriteGoesOn
  <1>6. CASE req.prev = NoKey
    <2>1. ASSUME NEW d \in Datasets, d = req.ds, Settled(c), d \notin trouble'
          PROVE  Agree(d)'
      <3>1. Agree(d) /\ dataset[d].key = NoKey
        BY <1>1, <1>4, <1>6, <2>1 DEF Settled
      <3> QED
        BY <1>1, <1>2, <2>1, <3>1 DEF Agree, Live
    <2> QED
      BY <1>0, <1>1, <1>3, <1>6, <2>1, WriteEnds
  <1> QED
    BY <1>5, <1>6

\* Every step keeps Agreement.
LEMMA NextAgreement == Inv /\ Lifecycle /\ Agreement /\ [Next]_vars => Agreement'
  <1> SUFFICES ASSUME Inv, Lifecycle, Agreement, [Next]_vars
               PROVE  Agreement'
    OBVIOUS
  <1>1. CASE Next
    BY <1>1, StoreAgrees, UploadAgrees, DeleteRowAgrees DEF Next
  <1>2. CASE UNCHANGED vars
    <2>1. UNCHANGED <<request, dataset, object, alone, trouble>>
      BY <1>2 DEF vars, storeVars
    <2>2. History'
      BY <2>1 DEF Agreement, History, Writing, InFlight
    <2>3. AloneSettled'
      BY <2>1 DEF Agreement, AloneSettled, Settled, Writing, InFlight, Agree, Live
    <2>4. UntroubledAgree'
      BY <2>1 DEF Agreement, UntroubledAgree, Writers, InFlight, Agree, Live
    <2> QED
      BY <2>2, <2>3, <2>4 DEF Agreement
  <1> QED
    BY <1>1, <1>2

\* It holds before any request: there are no objects.
LEMMA InitAgreement == Init => Agreement
  <1> SUFFICES ASSUME Init
               PROVE  Agreement
    OBVIOUS
  <1>1. \A c \in Clients : ~Writing(c)
    BY Idle DEF Init, StoreInit, Writing, InFlight
  <1>2. \A d \in Datasets : dataset[d].key = NoKey /\ object[d] = NoObject
    BY RowStatus DEF Init, StoreInit
  <1>3. alone = {}
    BY DEF Init, StoreInit
  <1> QED
    BY <1>1, <1>2, <1>3 DEF Agreement, History, AloneSettled, UntroubledAgree, Agree

-----------------------------------------------------------------------------
(* Parts are large enough.  The content a request is about to put under    *)
(* the key has passed the check, or is one piece.                          *)

AllButLastLarge(content) ==
    \A i \in 1..(Len(content) - 1) : Size(content[i]) >= MinPartSize

\* May write its content into the object store.
Storing(c) == request[c].op \in {"add", "update"} \/ At(c, "assemble", "complete")

PartsLarge ==
    /\ \A d \in Datasets : object[d] # NoObject => AllButLastLarge(object[d])
    /\ \A c \in Clients : Storing(c) => AllButLastLarge(request[c].content)

\* What a step of c may do to the objects and to the request of c.
KeepsLarge(c) ==
    /\ \A d \in Datasets :
          \/ object'[d] = object[d]
          \/ object'[d] = NoObject
          \/ Storing(c) /\ object'[d] = request[c].content
    /\ Storing(c)' => \/ Storing(c) /\ request'[c].content = request[c].content
                      \/ AllButLastLarge(request'[c].content)

\* A content in one piece has no part but the last.
LEMMA OnePieceLarge ==
    ASSUME NEW content \in Contents
    PROVE  AllButLastLarge(content)
  <1>1. Len(content) \in Nat /\ Len(content) <= 1
    BY StoreAssumption
  <1> QED
    BY <1>1 DEF AllButLastLarge

\* Such a step keeps PartsLarge.
LEMMA StepKeepsLarge ==
    ASSUME PartsLarge, NEW c \in Clients, KeepsLarge(c),
           \A e \in Clients \ {c} : request'[e] = request[e]
    PROVE  PartsLarge'
  <1>1. ASSUME NEW d \in Datasets, object'[d] # NoObject
        PROVE  AllButLastLarge(object'[d])
    BY <1>1 DEF PartsLarge, KeepsLarge
  <1>2. ASSUME NEW e \in Clients, Storing(e)'
        PROVE  AllButLastLarge(request'[e].content)
    <2>1. CASE e = c
      BY <1>2, <2>1 DEF PartsLarge, KeepsLarge
    <2>2. CASE e # c
      BY <1>2, <2>2 DEF PartsLarge, Storing, At
    <2> QED
      BY <2>1, <2>2
  <1> QED
    BY <1>1, <1>2 DEF PartsLarge, AllButLastLarge

\* Steps of the store write contents in one piece.
LEMMA StoreKeepsLarge ==
    ASSUME Inv, Lifecycle, NEW c \in Clients, StoreStep(c)
    PROVE  KeepsLarge(c)
  <1> DEFINE req == request[c]
  <1>0. /\ TypeOK /\ Placed(c) /\ request \in [Clients -> Request] /\ request[c] \in Request
        /\ req.ds \in Datasets /\ req.key \in Datasets \cup {NoKey}
        /\ object \in [Datasets -> Seq(Bodies) \cup {NoObject}]
    BY DEF Inv, Lifecycle, TypeOK, StoreTypeOK, Request
  <1>e. ASSUME End(c), UNCHANGED object
        PROVE  KeepsLarge(c)
    BY <1>0, <1>e, EndGoto, Idle DEF KeepsLarge, Storing, At
  <1>x. ASSUME NEW k, End(c), object' = [object EXCEPT ![k] = NoObject]
        PROVE  KeepsLarge(c)
    BY <1>0, <1>x, EndGoto, Idle DEF KeepsLarge, Storing, At
  <1>g. ASSUME NEW pc, Goto(c, pc), pc # "complete", UNCHANGED object
        PROVE  KeepsLarge(c)
    <2>1. /\ request'[c].op = req.op /\ request'[c].pc = pc
          /\ request'[c].content = req.content
      BY <1>0, <1>g, EndGoto
    <2> QED
      BY <1>g, <2>1 DEF KeepsLarge, Storing, At
  <1>p. ASSUME NEW k, NEW pc, request' = [request EXCEPT ![c].prev = k, ![c].pc = pc],
               pc # "complete", UNCHANGED object
        PROVE  KeepsLarge(c)
    <2>1. /\ request'[c].op = req.op /\ request'[c].pc = pc
          /\ request'[c].content = req.content
      BY <1>0, <1>p DEF Request
    <2> QED
      BY <1>p, <2>1 DEF KeepsLarge, Storing, At
  <1>b. ASSUME NEW r, Begin(c, r), UNCHANGED object,
               r.op \in {"delete", "download"} \/ AllButLastLarge(r.content)
        PROVE  KeepsLarge(c)
    <2>1. request'[c] = r
      BY <1>0, <1>b, BeginMoves
    <2> QED
      BY <1>b, <2>1 DEF KeepsLarge, Storing, At
  <1>u. ASSUME UndoOrEnd(c), UNCHANGED object
        PROVE  KeepsLarge(c)
    BY <1>e, <1>g, <1>u DEF UndoOrEnd
  <1>1. CASE AddDataset(c)
    <2>1. PICK d \in Datasets, content \in Contents :
              /\ BeginWrite(c, [NoRequest EXCEPT !.op = "add", !.ds = d, !.content = content,
                                   !.pc = IF UsesStore(content) THEN "put" ELSE "row",
                                   !.checksum = content])
              /\ UNCHANGED object
      BY <1>1 DEF AddDataset
    <2>2. PICK r : r = [NoRequest EXCEPT !.op = "add", !.ds = d, !.content = content,
                           !.pc = IF UsesStore(content) THEN "put" ELSE "row",
                           !.checksum = content]
      OBVIOUS
    <2>3. r.content = content
      BY <2>2 DEF NoRequest
    <2> QED
      BY <1>b, <2>1, <2>2, <2>3, OnePieceLarge DEF BeginWrite
  <1>2. CASE PutObject(c)
    <2>1. /\ req.op \in {"add", "update"} /\ request'[c].op = req.op
          /\ request'[c].content = req.content
          /\ object' = [object EXCEPT ![req.ds] = req.content]
      BY <1>0, <1>2 DEF PutObject, AtWrite, Request
    <2> QED
      BY <1>0, <2>1 DEF KeepsLarge, Storing
  <1>3. CASE CreateDataset(c)
    BY <1>3, <1>e DEF CreateDataset
  <1>4. CASE CreateDatasetFails(c)
    BY <1>4, <1>u DEF CreateDatasetFails
  <1>5. CASE DeleteNewObject(c)
    BY <1>5, <1>x DEF DeleteNewObject
  <1>6. CASE UpdateDatasetByUuid(c)
    <2>1. PICK d \in Datasets, content \in Contents :
              /\ BeginWrite(c, [NoRequest EXCEPT !.op = "update", !.ds = d, !.pc = "ref",
                                   !.content = content, !.checksum = content])
              /\ UNCHANGED object
      BY <1>6 DEF UpdateDatasetByUuid
    <2>2. PICK r : r = [NoRequest EXCEPT !.op = "update", !.ds = d, !.pc = "ref",
                           !.content = content, !.checksum = content]
      OBVIOUS
    <2>3. r.content = content
      BY <2>2 DEF NoRequest
    <2> QED
      BY <1>b, <2>1, <2>2, <2>3, OnePieceLarge DEF BeginWrite
  <1>7. CASE ReadPreviousRef(c)
    <2>1. PICK pc : /\ request' = [request EXCEPT ![c].prev = dataset[req.ds].key, ![c].pc = pc]
                    /\ pc \in {"parts", "find", "put", "row"} /\ UNCHANGED object
      BY <1>7 DEF ReadPreviousRef, GoOnWithRef
    <2> QED
      BY <1>p, <2>1
  <1>8. CASE FindFormat(c)
    BY <1>8, <1>e, <1>g DEF FindFormat
  <1>9. CASE UpdateDataset(c)
    <2>1. PcAfterUpdate(c) # "complete" /\ UNCHANGED object /\ Continue(c, PcAfterUpdate(c))
      BY <1>9, Labels DEF UpdateDataset
    <2> QED
      BY <1>e, <1>g, <2>1 DEF Continue
  <1>10. CASE UpdateDatasetFails(c)
    BY <1>10, <1>u DEF UpdateDatasetFails
  <1>11. CASE DeleteOldObject(c)
    <2>1. CASE req.op = "assemble"
      <3>1. Goto(c, "session") /\ object' = [object EXCEPT ![req.prev] = NoObject]
        BY <1>11, <2>1 DEF DeleteOldObject
      <3>2. request'[c].op = "assemble" /\ request'[c].pc = "session"
        BY <1>0, <2>1, <3>1, EndGoto
      <3> QED
        BY <1>0, <3>1, <3>2 DEF KeepsLarge, Storing, At
    <2> QED
      BY <1>11, <1>x, <2>1 DEF DeleteOldObject
  <1>12. CASE DeleteDataset(c)
    <2>1. PICK d \in Datasets :
              /\ BeginWrite(c, [NoRequest EXCEPT !.op = "delete", !.ds = d, !.pc = "ref"])
              /\ UNCHANGED object
      BY <1>12 DEF DeleteDataset
    <2>2. PICK r : r = [NoRequest EXCEPT !.op = "delete", !.ds = d, !.pc = "ref"]
      OBVIOUS
    <2>3. r.op = "delete"
      BY <2>2 DEF NoRequest
    <2> QED
      BY <1>b, <2>1, <2>2, <2>3 DEF BeginWrite
  <1>13. CASE ReadRefToDelete(c)
    BY <1>13, <1>e, <1>p DEF ReadRefToDelete
  <1>14. CASE GetDatasetContentByUuid(c)
    <2>1. PICK d \in Datasets :
              /\ Begin(c, [NoRequest EXCEPT !.op = "download", !.ds = d,
                              !.key = dataset[d].key,
                              !.pc = IF dataset[d].key = NoKey THEN "done" ELSE "get",
                              !.checksum = dataset[d].checksum,
                              !.content = dataset[d].content])
              /\ UNCHANGED object
      BY <1>14 DEF GetDatasetContentByUuid
    <2>2. PICK r : r = [NoRequest EXCEPT !.op = "download", !.ds = d,
                              !.key = dataset[d].key,
                              !.pc = IF dataset[d].key = NoKey THEN "done" ELSE "get",
                              !.checksum = dataset[d].checksum,
                              !.content = dataset[d].content]
      OBVIOUS
    <2>3. r.op = "download"
      BY <2>2 DEF NoRequest
    <2> QED
      BY <1>b, <2>1, <2>2, <2>3
  <1>15. CASE GetObject(c)
    <2>1. request'[c].op \in {"download", "none"} /\ UNCHANGED object
      BY <1>0, <1>15, EndGoto, Idle DEF GetObject, At, Request
    <2> QED
      BY <2>1 DEF KeepsLarge, Storing, At
  <1>16. CASE Abandon(c)
    BY <1>16, <1>e DEF Abandon
  <1>17. CASE ReadPreviousRefFails(c)
    <2>1. PICK pc : /\ request' = [request EXCEPT ![c].prev = NoKey, ![c].pc = pc]
                    /\ pc \in {"parts", "find", "put", "row"} /\ UNCHANGED object
      BY <1>17 DEF ReadPreviousRefFails, GoOnWithRef
    <2> QED
      BY <1>p, <2>1
  <1>18. CASE DeleteOldObjectFails(c)
    BY <1>18, <1>e, <1>g DEF DeleteOldObjectFails
  <1> QED
    BY <1>1, <1>2, <1>3, <1>4, <1>5, <1>6, <1>7, <1>8, <1>9, <1>10, <1>11, <1>12, <1>13,
       <1>14, <1>15, <1>16, <1>17, <1>18 DEF StoreStep

\* The content of the parts that pass the check.
LEMMA CheckedPartsLarge ==
    ASSUME NEW parts, NEW n \in 1..MaxParts, Assembles(parts, n)
    PROVE  AllButLastLarge([i \in 1..n |-> parts[i]])
  <1>1. n \in Nat /\ \A i \in 1..(n - 1) : i \in 1..n
    BY StoreAssumption
  <1>2. Len([i \in 1..n |-> parts[i]]) = n
    BY <1>1
  <1> QED
    BY <1>1, <1>2 DEF Assembles, AllButLastLarge

\* Steps of the uploads write contents that were checked.
LEMMA UploadKeepsLarge ==
    ASSUME Inv, Lifecycle, NEW c \in Clients, UploadStep(c)
    PROVE  KeepsLarge(c)
  <1> DEFINE req == request[c]
  <1>0. /\ TypeOK /\ request \in [Clients -> Request] /\ request[c] \in Request
        /\ object \in [Datasets -> Seq(Bodies) \cup {NoObject}]
    BY DEF Inv, TypeOK, StoreTypeOK, Request
  <1>e. ASSUME End(c), UNCHANGED object
        PROVE  KeepsLarge(c)
    BY <1>0, <1>e, EndGoto, Idle DEF KeepsLarge, Storing, At
  <1>g. ASSUME NEW pc, Goto(c, pc), pc # "complete", UNCHANGED object
        PROVE  KeepsLarge(c)
    <2>1. /\ request'[c].op = req.op /\ request'[c].pc = pc
          /\ request'[c].content = req.content
      BY <1>0, <1>g, EndGoto
    <2> QED
      BY <1>g, <2>1 DEF KeepsLarge, Storing, At
  <1>b. ASSUME NEW r, Begin(c, r), UNCHANGED object,
               r.op \notin {"add", "update"}, r.pc # "complete"
        PROVE  KeepsLarge(c)
    <2>1. request'[c] = r
      BY <1>0, <1>b, BeginMoves
    <2> QED
      BY <1>b, <2>1 DEF KeepsLarge, Storing, At
  <1>1. CASE CreateUpload(c)
    <2>1. PICK u \in Uploads, d \in Datasets :
              /\ Begin(c, [NoRequest EXCEPT !.op = "create_upload", !.ds = d, !.up = u,
                                            !.pc = "stage"])
              /\ UNCHANGED object
      BY <1>1 DEF CreateUpload
    <2>2. PICK r : r = [NoRequest EXCEPT !.op = "create_upload", !.ds = d, !.up = u, !.pc = "stage"]
      OBVIOUS
    <2>3. r.op = "create_upload" /\ r.pc = "stage"
      BY <2>2 DEF NoRequest
    <2> QED
      BY <1>b, <2>1, <2>2, <2>3
  <1>2. CASE CreateMultipartUpload(c)
    BY <1>g, <1>2 DEF CreateMultipartUpload
  <1>3. CASE CreateDatasetUpload(c)
    BY <1>e, <1>3 DEF CreateDatasetUpload
  <1>4. CASE CreateDatasetUploadFails(c)
    BY <1>g, <1>4 DEF CreateDatasetUploadFails
  <1>5. CASE AbortNewUpload(c)
    BY <1>e, <1>5 DEF AbortNewUpload
  <1>6. CASE UploadPart(c)
    <2>1. PICK u \in Uploads, d \in Datasets, n \in 1..MaxParts, body \in Bodies :
              /\ Begin(c, [NoRequest EXCEPT !.op = "upload_part", !.ds = d, !.up = u,
                              !.part = n, !.content = <<body>>, !.pc = "stage"])
              /\ UNCHANGED object
      BY <1>6 DEF UploadPart
    <2>2. PICK r : r = [NoRequest EXCEPT !.op = "upload_part", !.ds = d, !.up = u,
                              !.part = n, !.content = <<body>>, !.pc = "stage"]
      OBVIOUS
    <2>3. r.op = "upload_part" /\ r.pc = "stage"
      BY <2>2 DEF NoRequest
    <2> QED
      BY <1>b, <2>1, <2>2, <2>3
  <1>7. CASE StagePart(c)
    BY <1>g, <1>7 DEF StagePart
  <1>8. CASE UpsertDatasetUploadPart(c)
    BY <1>e, <1>8 DEF UpsertDatasetUploadPart
  <1>9. CASE UpsertDatasetUploadPartFails(c)
    BY <1>e, <1>g, <1>9 DEF UpsertDatasetUploadPartFails
  <1>10. CASE RemovePartFile(c)
    BY <1>e, <1>10 DEF RemovePartFile
  <1>11. CASE CancelUpload(c)
    <2>1. PICK u \in Uploads, d \in Datasets :
              /\ Begin(c, [NoRequest EXCEPT !.op = "cancel", !.ds = d, !.up = u,
                                            !.pc = "unstage"])
              /\ UNCHANGED object
      BY <1>11 DEF CancelUpload
    <2>2. PICK r : r = [NoRequest EXCEPT !.op = "cancel", !.ds = d, !.up = u, !.pc = "unstage"]
      OBVIOUS
    <2>3. r.op = "cancel" /\ r.pc = "unstage"
      BY <2>2 DEF NoRequest
    <2> QED
      BY <1>b, <2>1, <2>2, <2>3
  <1>12. CASE AbortUpload(c)
    BY <1>g, <1>12 DEF AbortUpload
  <1>13. CASE CancelDatasetUpload(c)
    BY <1>e, <1>13 DEF CancelDatasetUpload
  <1>14. CASE AssembleUpload(c)
    <2>1. PICK u \in Uploads, d \in Datasets, digest \in Digests :
              /\ BeginWrite(c, [NoRequest EXCEPT !.op = "assemble", !.ds = d, !.up = u,
                                   !.digest = digest, !.pc = "ref"])
              /\ UNCHANGED object
      BY <1>14 DEF AssembleUpload
    <2>2. PICK r : r = [NoRequest EXCEPT !.op = "assemble", !.ds = d, !.up = u,
                                   !.digest = digest, !.pc = "ref"]
      OBVIOUS
    <2>3. r.op = "assemble" /\ r.pc = "ref"
      BY <2>2 DEF NoRequest
    <2> QED
      BY <1>b, <2>1, <2>2, <2>3 DEF BeginWrite
  <1>15. CASE ReadParts(c)
    <2>1. CASE End(c)
      BY <1>e, <1>15, <2>1 DEF ReadParts
    <2>2. CASE \E n \in 1..MaxParts :
                  /\ Assembles(upload[req.up].parts, n)
                  /\ request' = [request EXCEPT
                                    ![c].content = [i \in 1..n |-> upload[req.up].parts[i]],
                                    ![c].pc = "complete"]
      <3>1. PICK n \in 1..MaxParts :
                  /\ Assembles(upload[req.up].parts, n)
                  /\ request' = [request EXCEPT
                                    ![c].content = [i \in 1..n |-> upload[req.up].parts[i]],
                                    ![c].pc = "complete"]
        BY <2>2
      <3>2. PICK parts : parts = upload[req.up].parts
        OBVIOUS
      <3>3. AllButLastLarge([i \in 1..n |-> parts[i]])
        BY <3>1, <3>2, CheckedPartsLarge
      <3>4. PICK content : content = [i \in 1..n |-> parts[i]]
        OBVIOUS
      <3>5. request' = [request EXCEPT ![c].content = content, ![c].pc = "complete"]
        BY <3>1, <3>2, <3>4
      <3>6. request'[c].content = content
        BY <1>0, <3>5 DEF Request
      <3> QED
        BY <1>15, <3>3, <3>4, <3>6 DEF ReadParts, KeepsLarge
    <2> QED
      BY <1>15, <2>1, <2>2 DEF ReadParts
  <1>16. CASE CompleteMultipartUpload(c)
    <2>1. /\ request'[c].op = "assemble" /\ request'[c].pc = "hash"
          /\ Storing(c)
      BY <1>0, <1>16 DEF CompleteMultipartUpload, At, Storing, Request
    <2>2. object' = [object EXCEPT ![upload[req.up].ds] = req.content]
      BY <1>16 DEF CompleteMultipartUpload
    <2>3. \A d \in Datasets : object'[d] = object[d] \/ object'[d] = req.content
      BY <1>0, <2>2
    <2> QED
      BY <2>1, <2>3 DEF KeepsLarge, Storing, At
  <1>17. CASE HashObject(c)
    <2>1. \/ End(c)
          \/ request'[c].op = "assemble" /\ request'[c].pc \in {"row", "md5"}
      BY <1>0, <1>17 DEF HashObject, At, Request
    <2>2. UNCHANGED object
      BY <1>17 DEF HashObject
    <2> QED
      BY <1>e, <2>1, <2>2 DEF KeepsLarge, Storing, At
  <1>18. CASE CheckDigest(c)
    BY <1>e, <1>g, <1>18 DEF CheckDigest
  <1>19. CASE AssembleInline(c)
    <2>1. request'[c].op = "assemble" /\ request'[c].pc = "row"
      BY <1>0, <1>19 DEF AssembleInline, At, Request
    <2>2. UNCHANGED object
      BY <1>19 DEF AssembleInline
    <2> QED
      BY <2>1, <2>2 DEF KeepsLarge, Storing, At
  <1>20. CASE EndSession(c)
    BY <1>e, <1>g, <1>20 DEF EndSession
  <1>21. CASE RemoveUploadDir(c)
    BY <1>e, <1>21 DEF RemoveUploadDir
  <1> QED
    BY <1>1, <1>2, <1>3, <1>4, <1>5, <1>6, <1>7, <1>8, <1>9, <1>10, <1>11, <1>12, <1>13,
       <1>14, <1>15, <1>16, <1>17, <1>18, <1>19, <1>20, <1>21 DEF UploadStep

\* Deleting a row writes no object.
LEMMA DeleteRowKeepsLarge ==
    ASSUME Inv, Lifecycle, NEW c \in Clients, DeleteRowAndSessions(c)
    PROVE  KeepsLarge(c)
  <1>1. TypeOK /\ request[c].op = "delete" /\ UNCHANGED object
    BY DEF Inv, DeleteRowAndSessions, DeleteRow, At
  <1>2. request'[c].op \in {"none", "delete"}
    BY <1>1, EndGoto, Idle DEF DeleteRowAndSessions, DeleteRow
  <1> QED
    BY <1>1, <1>2 DEF KeepsLarge, Storing, At

\* Every step keeps PartsLarge.
LEMMA NextPartsLarge == Inv /\ Lifecycle /\ PartsLarge /\ [Next]_vars => PartsLarge'
  <1> SUFFICES ASSUME Inv, Lifecycle, PartsLarge, [Next]_vars
               PROVE  PartsLarge'
    OBVIOUS
  <1>1. CASE Next
    <2>1. PICK c \in Clients :
              /\ Moves(c)
              /\ \/ StoreStep(c) /\ UNCHANGED <<upload, staged>>
                 \/ DeleteRowAndSessions(c)
                 \/ UploadStep(c)
      BY <1>1, NextMoves
    <2>2. KeepsLarge(c)
      BY <2>1, StoreKeepsLarge, DeleteRowKeepsLarge, UploadKeepsLarge
    <2> QED
      BY <2>1, <2>2, StepKeepsLarge DEF Moves, RequestMoves
  <1>2. CASE UNCHANGED vars
    BY <1>2 DEF vars, storeVars, PartsLarge, Storing, At, AllButLastLarge
  <1> QED
    BY <1>1, <1>2

\* It holds before any request.
LEMMA InitPartsLarge == Init => PartsLarge
  BY Idle DEF Init, StoreInit, PartsLarge, Storing, At

-----------------------------------------------------------------------------
\* Everything together.
WholeInv == Inv /\ Lifecycle /\ Releases /\ PartsLarge /\ Agreement

\* The invariants together hold in every reachable state.
THEOREM WholeInvariant == Spec => []WholeInv
  <1>1. Init => WholeInv
    BY InitInv, InitLifecycle, InitReleases, InitPartsLarge, InitAgreement DEF WholeInv
  <1>2. WholeInv /\ [Next]_vars => WholeInv'
    BY NextInv, NextLifecycle, NextReleases, NextPartsLarge, NextAgreement DEF WholeInv
  <1> QED
    BY <1>1, <1>2, PTL DEF Spec

(* When nobody writes a dataset, its row and the object store agree, and a *)
(* write that meets no other and ends well repairs whatever was left       *)
(* behind: for any number of datasets, sessions, clients and failures of   *)
(* AddDataset, UpdateDatasetByUuid, DeleteDataset and AssembleUpload.      *)
THEOREM RowsAndObjectsAgree == Spec => []UntroubledAgree
  <1>1. WholeInv => UntroubledAgree
    BY DEF WholeInv, Agreement
  <1> QED
    BY <1>1, WholeInvariant, PTL

(* No object is assembled from parts of which one but the last is too      *)
(* small, however uploads of parts and assembly interleave.                *)
THEOREM SmallPartsRefused == Spec => []AssembledPartsLargeEnough
  <1>1. WholeInv => AssembledPartsLargeEnough
    BY DEF WholeInv, PartsLarge, AllButLastLarge, AssembledPartsLargeEnough
  <1> QED
    BY <1>1, WholeInvariant, PTL

(* A session that ended left no open multipart upload behind, in whatever  *)
(* order parts, CancelUpload and AssembleUpload meet or stop, unless its   *)
(* dataset was deleted under it.                                           *)
THEOREM EndedSessionsRelease == Spec => []SessionsReleaseStaging
  <1>1. WholeInv => SessionsReleaseStaging
    BY DEF WholeInv, Releases, SessionsReleaseStaging, Live
  <1> QED
    BY <1>1, WholeInvariant, PTL
=============================================================================
