--------------------------- MODULE DatasetUploads ---------------------------
(***************************************************************************)
(* Uploads in parts: DatasetUploadService on top of DatasetStore.          *)
(*                                                                         *)
(* A session is a row in dataset_uploads with its rows in                  *)
(* dataset_upload_parts, and a staging area outside of the database: a     *)
(* multipart upload of the object store, or a directory of part files.     *)
(* AssembleUpload turns the parts into the content of the dataset.         *)
(***************************************************************************)
EXTENDS DatasetStore

CONSTANTS Size(_),       \* bytes of a body
          MinPartSize,   \* minUploadPartSizeBytes
          MaxPartSize,   \* dataset_uploads.max_part_size
          MaxTotalSize,  \* dataset_uploads.max_total_size
          Digests,       \* Content-MD5 headers of an assemble request
          NoPart         \* no such part

ASSUME UploadAssumption ==
    /\ \A b \in Bodies : Size(b) \in Nat
    /\ MinPartSize \in Nat /\ MaxPartSize \in Nat /\ MaxTotalSize \in Nat
    /\ Digests \subseteq Seq(Bodies) \cup {NoDigest}
    /\ NoPart \notin Bodies

VARIABLES upload,   \* dataset_uploads and dataset_upload_parts
          staged    \* multipart uploads or directories, by session

vars == <<storeVars, upload, staged>>

Parts == [1..MaxParts -> Bodies \cup {NoPart}]
NoParts == [n \in 1..MaxParts |-> NoPart]

\* A part row holds size, checksum and ETag, all of them given by the body.
Upload == [status : {"none", "new", "live", "gone"}, ds : Datasets, parts : Parts]
Staged == [open : BOOLEAN, parts : Parts]
Closed == [open |-> FALSE, parts |-> NoParts]

NoUpload == [status |-> "none", ds |-> CHOOSE d \in Datasets : TRUE, parts |-> NoParts]
LiveUpload(u) == upload[u].status = "live"

\* Mutant of Owns: the session may belong to another dataset.
OwnsAny(u, d) == TRUE

\* upload.DatasetUuid == datasetUUID
Owns(u, d) == upload[u].ds = d

TotalSize(content) == MapThenSumSet(LAMBDA i : Size(content[i]), DOMAIN content)

-----------------------------------------------------------------------------
(* CreateUpload: the staging area first, then the row.                     *)

CreateUpload(c) ==
    \E u \in Uploads, d \in Datasets :
        /\ upload[u].status = "none"
        /\ Live(d)
        /\ upload' = [upload EXCEPT ![u].status = "new", ![u].ds = d]
        /\ Begin(c, [NoRequest EXCEPT !.op = "create_upload", !.ds = d, !.up = u,
                                      !.pc = "stage"])
        /\ UNCHANGED <<backend, dataset, object, alone, trouble, staged>>

CreateMultipartUpload(c) ==
    /\ At(c, "create_upload", "stage")
    /\ staged' = [staged EXCEPT ![request[c].up] = [open |-> TRUE, parts |-> NoParts]]
    /\ Goto(c, "row")
    /\ UNCHANGED <<backend, dataset, object, started, alone, trouble, upload>>

\* The foreign key refuses a session for a dataset that was deleted.
CreateDatasetUpload(c) ==
    /\ At(c, "create_upload", "row")
    /\ Live(request[c].ds)
    /\ upload' = [upload EXCEPT ![request[c].up].status = "live"]
    /\ End(c)
    /\ UNCHANGED <<backend, dataset, object, started, alone, trouble, staged>>

CreateDatasetUploadFails(c) ==
    /\ At(c, "create_upload", "row")
    /\ Goto(c, "unstage")
    /\ UNCHANGED <<backend, dataset, object, started, alone, trouble, upload, staged>>

\* AbortMultipartUpload or RemoveAll, at the end of a failed CreateUpload.
AbortNewUpload(c) ==
    /\ At(c, "create_upload", "unstage")
    /\ staged' = [staged EXCEPT ![request[c].up] = Closed]
    /\ End(c)
    /\ UNCHANGED <<backend, dataset, object, started, alone, trouble, upload>>

-----------------------------------------------------------------------------
(* UploadPart: the part first, then its row.                               *)

UploadPart(c) ==
    \E u \in Uploads, d \in Datasets, n \in 1..MaxParts, body \in Bodies :
        /\ LiveUpload(u) /\ Owns(u, d)
        /\ Size(body) <= MaxPartSize
        /\ Begin(c, [NoRequest EXCEPT !.op = "upload_part", !.ds = d, !.up = u, !.part = n,
                                      !.content = <<body>>, !.pc = "stage"])
        /\ UNCHANGED <<backend, dataset, object, alone, trouble, upload, staged>>

\* The object store knows no part of an upload that was aborted or completed;
\* a part file is written whether the directory is there or not.
StagePart(c) ==
    LET req == request[c]
    IN  /\ At(c, "upload_part", "stage")
        /\ backend = "s3" => staged[req.up].open
        /\ staged' = [staged EXCEPT ![req.up].open = TRUE,
                                    ![req.up].parts[req.part] = req.content[1]]
        /\ Goto(c, "row")
        /\ UNCHANGED <<backend, dataset, object, started, alone, trouble, upload>>

UpsertDatasetUploadPart(c) ==
    LET req == request[c]
    IN  /\ At(c, "upload_part", "row")
        /\ LiveUpload(req.up)
        /\ upload' = [upload EXCEPT ![req.up].parts[req.part] = req.content[1]]
        /\ End(c)
        /\ UNCHANGED <<backend, dataset, object, started, alone, trouble, staged>>

\* A database error, or the session is gone: only a file is removed again.
UpsertDatasetUploadPartFails(c) ==
    /\ At(c, "upload_part", "row")
    /\ IF backend = "s3" THEN End(c) ELSE Goto(c, "unstage")
    /\ UNCHANGED <<backend, dataset, object, started, alone, trouble, upload, staged>>

RemovePartFile(c) ==
    /\ At(c, "upload_part", "unstage")
    /\ staged' = [staged EXCEPT ![request[c].up].parts[request[c].part] = NoPart]
    /\ End(c)
    /\ UNCHANGED <<backend, dataset, object, started, alone, trouble, upload>>

-----------------------------------------------------------------------------
(* CancelUpload: the staging area first, then the row.                     *)

CancelUpload(c) ==
    \E u \in Uploads, d \in Datasets :
        /\ LiveUpload(u) /\ Owns(u, d)
        /\ Begin(c, [NoRequest EXCEPT !.op = "cancel", !.ds = d, !.up = u, !.pc = "unstage"])
        /\ UNCHANGED <<backend, dataset, object, alone, trouble, upload, staged>>

\* Mutant of AbortUpload: the error of the object store is all there is of it.
SkipAbort(c) ==
    /\ At(c, "cancel", "unstage")
    /\ Goto(c, "row")
    /\ UNCHANGED <<backend, dataset, object, started, alone, trouble, upload, staged>>

\* Aborting an upload that is not open is an error, and ends the request.
AbortUpload(c) ==
    /\ At(c, "cancel", "unstage")
    /\ backend = "s3" => staged[request[c].up].open
    /\ staged' = [staged EXCEPT ![request[c].up] = Closed]
    /\ Goto(c, "row")
    /\ UNCHANGED <<backend, dataset, object, started, alone, trouble, upload>>

\* DeleteDatasetUploadByID; the part rows cascade.
EndUpload(u) == upload' = [upload EXCEPT ![u].status = "gone", ![u].parts = NoParts]

CancelDatasetUpload(c) ==
    /\ At(c, "cancel", "row")
    /\ EndUpload(request[c].up)
    /\ End(c)
    /\ UNCHANGED <<backend, dataset, object, started, alone, trouble, staged>>

-----------------------------------------------------------------------------
(* AssembleUpload.                                                         *)

AssembleUpload(c) ==
    \E u \in Uploads, d \in Datasets, digest \in Digests :
        /\ LiveUpload(u) /\ Owns(u, d)
        /\ BeginWrite(c, [NoRequest EXCEPT !.op = "assemble", !.ds = d, !.up = u,
                             !.digest = digest, !.pc = "ref"])
        /\ UNCHANGED <<backend, dataset, object, upload, staged>>

\* Mutant of Assembles: the size of the parts is not checked.
AssemblesAny(parts, n) == {i \in 1..MaxParts : parts[i] # NoPart} = 1..n

\* Parts 1..n and no other, all but the last of the minimal size.
Assembles(parts, n) ==
    /\ {i \in 1..MaxParts : parts[i] # NoPart} = 1..n
    /\ \A i \in 1..(n - 1) : Size(parts[i]) >= MinPartSize

\* FindDatasetUploadParts and the checks on the rows.  Without parts, with
\* a gap or a small part the request ends here (InvalidPart and so on).
ReadParts(c) ==
    LET parts == upload[request[c].up].parts
    IN  /\ At(c, "assemble", "parts")
        /\ \/ \E n \in 1..MaxParts :
                 /\ Assembles(parts, n)
                 /\ request' = [request EXCEPT ![c].content = [i \in 1..n |-> parts[i]],
                                               ![c].pc = "complete"]
           \/ /\ \A n \in 1..MaxParts : ~Assembles(parts, n)
              /\ End(c)
        /\ UNCHANGED <<backend, dataset, object, started, alone, trouble, upload, staged>>

\* CompleteMultipartUpload writes the object of the dataset of the session,
\* if the upload is open and the ETags of the rows are those of its parts.
CompleteMultipartUpload(c) ==
    LET req == request[c]
        d == upload[req.up].ds
    IN  /\ At(c, "assemble", "complete")
        /\ backend = "s3"
        /\ staged[req.up].open
        /\ \A i \in DOMAIN req.content : staged[req.up].parts[i] = req.content[i]
        /\ object' = [object EXCEPT ![d] = req.content]
        /\ staged' = [staged EXCEPT ![req.up] = Closed]
        /\ request' = [request EXCEPT ![c].key = d, ![c].pc = "hash"]
        /\ UNCHANGED <<backend, dataset, started, alone, trouble, upload>>

\* Mutant of HashObject: a missing object is hashed like any other.
HashWithoutCheck(c) ==
    LET req == request[c]
    IN  /\ At(c, "assemble", "hash")
        /\ request' = [request EXCEPT ![c].checksum = object[req.key],
                          ![c].pc = IF req.digest = NoDigest THEN "row" ELSE "md5"]
        /\ UNCHANGED <<backend, dataset, object, started, alone, trouble, upload, staged>>

\* The checksum is computed from what is under the key by then.
HashObject(c) ==
    LET req == request[c]
        found == object[req.key]
    IN  /\ At(c, "assemble", "hash")
        /\ IF found = NoObject THEN End(c)
           ELSE request' = [request EXCEPT ![c].checksum = found,
                               ![c].pc = IF req.digest = NoDigest THEN "row" ELSE "md5"]
        /\ UNCHANGED <<backend, dataset, object, started, alone, trouble, upload, staged>>

\* The caller's digest of the whole is compared after the object is in place.
CheckDigest(c) ==
    LET req == request[c]
        found == object[req.key]
    IN  /\ At(c, "assemble", "md5")
        /\ \/ found = req.digest /\ Goto(c, "row") /\ UNCHANGED trouble
           \/ found # req.digest /\ End(c) /\ Troubled(c)
        /\ UNCHANGED <<backend, dataset, object, started, alone, upload, staged>>

\* assembleInlineUpload: the files of the parts the rows list, then the
\* limit of the total size and the digest.
AssembleInline(c) ==
    LET req == request[c]
        content == [i \in DOMAIN req.content |-> staged[req.up].parts[i]]
    IN  /\ At(c, "assemble", "complete")
        /\ backend = "inline"
        /\ staged[req.up].open
        /\ \A i \in DOMAIN content : content[i] # NoPart
        /\ TotalSize(content) <= MaxTotalSize
        /\ req.digest \in {NoDigest, content}
        /\ request' = [request EXCEPT ![c].content = content, ![c].checksum = content,
                                      ![c].pc = "row"]
        /\ UNCHANGED <<backend, dataset, object, started, alone, trouble, upload, staged>>

\* DeleteDatasetUploadByID once the row of the dataset is updated.
EndSession(c) ==
    /\ At(c, "assemble", "session")
    /\ EndUpload(request[c].up)
    /\ IF backend = "inline" THEN Goto(c, "rmdir") ELSE End(c)
    /\ UNCHANGED <<backend, dataset, object, started, alone, trouble, staged>>

RemoveUploadDir(c) ==
    /\ At(c, "assemble", "rmdir")
    /\ staged' = [staged EXCEPT ![request[c].up] = Closed]
    /\ End(c)
    /\ UNCHANGED <<backend, dataset, object, started, alone, trouble, upload>>

\* DELETE of a dataset: ON DELETE CASCADE ends its sessions.
DeleteRowAndSessions(c) ==
    /\ DeleteRow(c)
    /\ upload' = [u \in Uploads |->
                     IF LiveUpload(u) /\ upload[u].ds = request[c].ds
                     THEN [upload[u] EXCEPT !.status = "gone", !.parts = NoParts]
                     ELSE upload[u]]
    /\ UNCHANGED staged

-----------------------------------------------------------------------------
Init ==
    /\ StoreInit
    /\ upload = [u \in Uploads |-> NoUpload]
    /\ staged = [u \in Uploads |-> Closed]

UploadStep(c) ==
    \/ CreateUpload(c) \/ CreateMultipartUpload(c) \/ CreateDatasetUpload(c)
    \/ CreateDatasetUploadFails(c) \/ AbortNewUpload(c)
    \/ UploadPart(c) \/ StagePart(c) \/ UpsertDatasetUploadPart(c)
    \/ UpsertDatasetUploadPartFails(c) \/ RemovePartFile(c)
    \/ CancelUpload(c) \/ AbortUpload(c) \/ CancelDatasetUpload(c)
    \/ AssembleUpload(c) \/ ReadParts(c) \/ CompleteMultipartUpload(c) \/ HashObject(c)
    \/ CheckDigest(c) \/ AssembleInline(c) \/ EndSession(c) \/ RemoveUploadDir(c)

Next ==
    \E c \in Clients :
        \/ StoreStep(c) /\ UNCHANGED <<upload, staged>>
        \/ DeleteRowAndSessions(c)
        \/ UploadStep(c)

Spec == Init /\ [][Next]_vars

-----------------------------------------------------------------------------
TypeOK ==
    /\ StoreTypeOK
    /\ upload \in [Uploads -> Upload]
    /\ staged \in [Uploads -> Staged]

(* With the object store, no content is assembled from parts of which one  *)
(* but the last is too small, although the check reads the part rows and   *)
(* the store keeps the parts: the ETags tie the two together.              *)
AssembledPartsLargeEnough ==
    backend = "s3" => \A d \in Datasets :
        object[d] # NoObject =>
            \A i \in 1..(Len(object[d]) - 1) : Size(object[d][i]) >= MinPartSize

(* With the object store, a session that ended left no multipart upload    *)
(* behind, in whatever order parts, cancellation and assembly met, unless  *)
(* its dataset was deleted under it.                                       *)
SessionsReleaseStaging ==
    backend = "s3" => \A u \in Uploads :
        upload[u].status = "gone" /\ Live(upload[u].ds) => ~staged[u].open
=============================================================================
