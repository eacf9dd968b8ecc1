---------------------------- MODULE DatasetStore ----------------------------
(***************************************************************************)
(* Datasets: a row in PostgreSQL and, with the S3 backend, an object that  *)
(* holds the content.  DatasetService adds, updates, deletes and downloads *)
(* them in several calls to the database and to the object store, and      *)
(* nothing ties those calls together: requests interleave, a call may      *)
(* fail, a request may stop half way.                                      *)
(*                                                                         *)
(* The key of the object is made from the UUID of the dataset alone, so    *)
(* the keys are the datasets, and every version of the content of a        *)
(* dataset is written over the version before it.                          *)
(*                                                                         *)
(* A content is a sequence of bodies: <<>> is the empty content, an upload *)
(* in parts has one body per part.  A checksum is the content it was       *)
(* computed from (SHA-256 and MD5 are taken to have no collisions).        *)
(***************************************************************************)
EXTENDS Integers, Sequences, FiniteSets, FiniteSetsExt

CONSTANTS Datasets,      \* the UUIDs uuid.New() may return
          Existing,      \* those of datasets that are there already, still empty
          Uploads,       \* the IDs of upload sessions
          Clients,       \* requests that may be in flight together
          Bodies,        \* pieces of content
          Contents,      \* contents a client may send in one piece
          MaxParts,      \* part numbers are 1..MaxParts
          MaxRequests,   \* bound: requests in a behaviour
          NoKey,         \* storage_key IS NULL, the backend is inline
          NoObject,      \* nothing under the key
          NoDigest       \* no Content-MD5 header

ASSUME StoreAssumption ==
    /\ Datasets # {} /\ NoKey \notin Datasets /\ Existing \subseteq Datasets
    /\ Uploads # {}
    /\ Contents \subseteq Seq(Bodies)
    /\ \A content \in Contents : Len(content) <= 1      \* in one piece
    /\ NoObject \notin Seq(Bodies)
    /\ NoDigest \notin Seq(Bodies)
    /\ MaxParts \in Nat \ {0}
    /\ MaxRequests \in Nat

VARIABLES backend,   \* dataset_storage.backend, "inline" or "s3"
          dataset,   \* the datasets table
          object,    \* the object store, by key
          request,   \* the request each client has in flight
          started,   \* requests so far
          alone,     \* history: clients whose write has met no other write
          trouble    \* history: datasets with an overlap or a failure since
                     \* the last write that ran alone to its end

storeVars == <<backend, dataset, object, request, started, alone, trouble>>

Row == [status : {"none", "new", "live", "deleted"}, content : Seq(Bodies),
        checksum : Seq(Bodies), key : Datasets \cup {NoKey}]

NoRow(status) == [status |-> status, content |-> <<>>, checksum |-> <<>>, key |-> NoKey]

\* The CHECK datasets_storage_ref_check: a key is stored iff the backend is s3.
LiveRow(content, checksum, key) ==
    [status |-> "live", content |-> IF key = NoKey THEN content ELSE <<>>,
     checksum |-> checksum, key |-> key]

Live(d) == dataset[d].status = "live"

\* What a request carries from one call to the next: the new content, its
\* checksum and the key of its object, and the key the row had before.
NoRequest == [op |-> "none", pc |-> "idle", ds |-> CHOOSE d \in Datasets : TRUE,
              up |-> CHOOSE u \in Uploads : TRUE, part |-> 1, content |-> <<>>,
              checksum |-> <<>>, key |-> NoKey, prev |-> NoKey, digest |-> NoDigest]

WriteOps == {"add", "update", "delete", "assemble"}
Ops == WriteOps \cup {"none", "download", "create_upload", "upload_part", "cancel"}
PCs == {"idle", "done", "ref", "find", "put", "get", "row", "undo", "drop",
        "stage", "unstage", "parts", "complete", "hash", "md5", "session", "rmdir"}

Request == [op : Ops, pc : PCs, ds : Datasets, up : Uploads, part : 1..MaxParts,
            content : Seq(Bodies), checksum : Seq(Bodies), key : Datasets \cup {NoKey},
            prev : Datasets \cup {NoKey}, digest : Seq(Bodies) \cup {NoDigest}]

InFlight(c) == request[c].pc \notin {"idle", "done"}
Writers(d) == {c \in Clients : InFlight(c) /\ request[c].op \in WriteOps /\ request[c].ds = d}

At(c, op, pc) == request[c].op = op /\ request[c].pc = pc
AtWrite(c, ops, pc) == request[c].op \in ops /\ request[c].pc = pc

Begin(c, req) ==
    /\ ~InFlight(c)
    /\ started < MaxRequests
    /\ started' = started + 1
    /\ request' = [request EXCEPT ![c] = req]

BeginWrite(c, req) ==
    LET others == Writers(req.ds)
    IN  /\ Begin(c, req)
        /\ alone' = IF others = {} THEN alone \cup {c} ELSE alone \ (others \cup {c})
        /\ trouble' = IF others = {} THEN trouble ELSE trouble \cup {req.ds}

Goto(c, pc) == request' = [request EXCEPT ![c].pc = pc]
End(c) == request' = [request EXCEPT ![c] = NoRequest]
Troubled(c) == trouble' = trouble \cup {request[c].ds}

\* svc.store != nil && len(content) > 0
UsesStore(content) == backend = "s3" /\ content # <<>>

-----------------------------------------------------------------------------
(* AddDataset: the object first, then the row.                             *)

AddDataset(c) ==
    \E d \in Datasets, content \in Contents :
        /\ dataset[d].status = "none"
        /\ dataset' = [dataset EXCEPT ![d] = NoRow("new")]
        /\ BeginWrite(c, [NoRequest EXCEPT !.op = "add", !.ds = d, !.content = content,
                             !.pc = IF UsesStore(content) THEN "put" ELSE "row",
                             !.checksum = content])
        /\ UNCHANGED <<backend, object>>

\* PutObject, for AddDataset and for UpdateDatasetByUuid; under the one key
\* of the dataset it replaces what is there.
PutObject(c) ==
    /\ AtWrite(c, {"add", "update"}, "put")
    /\ object' = [object EXCEPT ![request[c].ds] = request[c].content]
    /\ request' = [request EXCEPT ![c].pc = "row", ![c].key = request[c].ds]
    /\ UNCHANGED <<backend, dataset, started, alone, trouble>>

CreateDataset(c) ==
    /\ At(c, "add", "row")
    /\ dataset' = [dataset EXCEPT ![request[c].ds] =
                      LiveRow(request[c].content, request[c].checksum, request[c].key)]
    /\ End(c)
    /\ UNCHANGED <<backend, object, started, alone, trouble>>

\* After a failed INSERT or UPDATE the new object is deleted.
UndoOrEnd(c) == IF request[c].key # NoKey THEN Goto(c, "undo") ELSE End(c)

CreateDatasetFails(c) ==
    /\ At(c, "add", "row")
    /\ UndoOrEnd(c)
    /\ UNCHANGED <<backend, dataset, object, started, alone, trouble>>

\* DeleteObject of the new content, at the end of a failed request.
DeleteNewObject(c) ==
    /\ AtWrite(c, WriteOps, "undo")
    /\ object' = [object EXCEPT ![request[c].key] = NoObject]
    /\ End(c)
    /\ UNCHANGED <<backend, dataset, started, alone, trouble>>

-----------------------------------------------------------------------------
(* UpdateDatasetByUuid with new content.  (An update of the name, the      *)
(* format, the tags or the thing leaves content, checksum and key alone.)  *)

Known(d) == dataset[d].status \in {"live", "deleted"}

UpdateDatasetByUuid(c) ==
    \E d \in Datasets, content \in Contents :
        /\ Known(d)
        /\ BeginWrite(c, [NoRequest EXCEPT !.op = "update", !.ds = d, !.pc = "ref",
                             !.content = content, !.checksum = content])
        /\ UNCHANGED <<backend, dataset, object>>

\* What follows the query of the previous reference.
GoOnWithRef(c, prev) ==
    /\ AtWrite(c, {"update", "assemble"}, "ref")
    /\ \E pc \in IF request[c].op = "assemble" THEN {"parts"}
                 ELSE IF UsesStore(request[c].content) THEN {"find", "put"} ELSE {"row"} :
          request' = [request EXCEPT ![c].prev = prev, ![c].pc = pc]
    /\ UNCHANGED <<backend, dataset, object, started, alone>>

ReadPreviousRef(c) == GoOnWithRef(c, dataset[request[c].ds].key) /\ UNCHANGED trouble

\* "previousRef, _ =": the error of the query is dropped, and the request goes
\* on as if the row named no object.
ReadPreviousRefFails(c) ==
    /\ GoOnWithRef(c, NoKey)
    /\ IF dataset[request[c].ds].key # NoKey THEN Troubled(c) ELSE UNCHANGED trouble

\* FindDatasetByUUID, when the request does not set the format.
FindFormat(c) ==
    /\ At(c, "update", "find")
    /\ IF Live(request[c].ds) THEN Goto(c, "put") ELSE End(c)
    /\ UNCHANGED <<backend, dataset, object, started, alone, trouble>>

\* The old object is deleted when the new content is not kept under its key.
OldObjectUnused(c) == request[c].prev \notin {NoKey, request[c].key}

\* Mutant of PcAfterUpdate: the object of the previous content is forgotten.
PcWithoutDrop(c) == IF request[c].op = "assemble" THEN "session" ELSE "idle"

PcAfterUpdate(c) ==
    IF OldObjectUnused(c) THEN "drop"
    ELSE IF request[c].op = "assemble" THEN "session" ELSE "idle"

Continue(c, pc) == IF pc = "idle" THEN End(c) ELSE Goto(c, pc)

\* UpdateDatasetByUUID, for an update and at the end of an upload.
UpdateDataset(c) ==
    LET req == request[c]
    IN  /\ AtWrite(c, {"update", "assemble"}, "row")
        /\ Live(req.ds)
        /\ dataset' = [dataset EXCEPT ![req.ds] = LiveRow(req.content, req.checksum, req.key)]
        /\ Continue(c, PcAfterUpdate(c))
        /\ trouble' = IF c \in alone /\ req.key # NoKey THEN trouble \ {req.ds} ELSE trouble
        /\ UNCHANGED <<backend, object, started, alone>>

\* The database fails, or there is no such row (count = 0).
UpdateDatasetFails(c) ==
    /\ AtWrite(c, {"update", "assemble"}, "row")
    /\ UndoOrEnd(c)
    /\ IF Live(request[c].ds) /\ request[c].key # NoKey THEN Troubled(c) ELSE UNCHANGED trouble
    /\ UNCHANGED <<backend, dataset, object, started, alone>>

\* DeleteObject of the previous content, once the row does not name it.
DeleteOldObject(c) ==
    /\ AtWrite(c, WriteOps, "drop")
    /\ object' = [object EXCEPT ![request[c].prev] = NoObject]
    /\ IF request[c].op = "assemble" THEN Goto(c, "session") ELSE End(c)
    /\ UNCHANGED <<backend, dataset, started, alone, trouble>>

\* "_ = DeleteObject": the object stays, and the request ends well.
DeleteOldObjectFails(c) ==
    /\ AtWrite(c, WriteOps, "drop")
    /\ IF request[c].op = "assemble" THEN Goto(c, "session") ELSE End(c)
    /\ Troubled(c)
    /\ UNCHANGED <<backend, dataset, object, started, alone>>

-----------------------------------------------------------------------------
(* DeleteDataset: the row first, then the object.                          *)

DeleteDataset(c) ==
    \E d \in Datasets :
        /\ Known(d)
        /\ BeginWrite(c, [NoRequest EXCEPT !.op = "delete", !.ds = d, !.pc = "ref"])
        /\ UNCHANGED <<backend, dataset, object>>

ReadRefToDelete(c) ==
    /\ At(c, "delete", "ref")
    /\ IF Live(request[c].ds)
       THEN request' = [request EXCEPT ![c].prev = dataset[request[c].ds].key, ![c].pc = "row"]
       ELSE End(c)
    /\ UNCHANGED <<backend, dataset, object, started, alone, trouble>>

\* DELETE of the row.  The object goes with it even when the row went before.
DeleteRow(c) ==
    /\ At(c, "delete", "row")
    /\ dataset' = [dataset EXCEPT ![request[c].ds] = NoRow("deleted")]
    /\ IF request[c].prev # NoKey THEN Goto(c, "drop") ELSE End(c)
    /\ UNCHANGED <<backend, object, started, alone, trouble>>

-----------------------------------------------------------------------------
(* GetDatasetContentByUuid and GetRawDatasetByUuid: the row with its ETag, *)
(* then the object.  A download that is done is the copy its client keeps. *)

GetDatasetContentByUuid(c) ==
    \E d \in Datasets :
        LET row == dataset[d]
        IN  /\ Live(d)
            /\ Begin(c, [NoRequest EXCEPT !.op = "download", !.ds = d, !.key = row.key,
                            !.pc = IF row.key = NoKey THEN "done" ELSE "get",
                            !.checksum = row.checksum, !.content = row.content])
            /\ UNCHANGED <<backend, dataset, object, alone, trouble>>

GetObject(c) ==
    LET found == object[request[c].key]
    IN  /\ At(c, "download", "get")
        /\ IF found # NoObject
           THEN request' = [request EXCEPT ![c].content = found, ![c].pc = "done"]
           ELSE End(c)
        /\ UNCHANGED <<backend, dataset, object, started, alone, trouble>>

\* The server stops, the caller goes away and the context is cancelled, or
\* a call fails whose error path does no more than return.
Abandon(c) ==
    /\ InFlight(c)
    /\ End(c)
    /\ IF request[c].op \in WriteOps THEN Troubled(c) ELSE UNCHANGED trouble
    /\ UNCHANGED <<backend, dataset, object, started, alone>>

StoreInit ==
    /\ backend \in {"inline", "s3"}
    /\ dataset = [d \in Datasets |-> IF d \in Existing THEN LiveRow(<<>>, <<>>, NoKey)
                                     ELSE NoRow("none")]
    /\ object = [d \in Datasets |-> NoObject]
    /\ request = [c \in Clients |-> NoRequest]
    /\ started = 0 /\ alone = {} /\ trouble = {}

\* Every step of the store but DeleteRow, which the uploads cascade from.
StoreStep(c) ==
    \/ AddDataset(c) \/ PutObject(c) \/ CreateDataset(c) \/ CreateDatasetFails(c)
    \/ DeleteNewObject(c) \/ UpdateDatasetByUuid(c) \/ ReadPreviousRef(c) \/ FindFormat(c)
    \/ UpdateDataset(c) \/ UpdateDatasetFails(c) \/ DeleteOldObject(c) \/ DeleteDataset(c)
    \/ ReadRefToDelete(c) \/ GetDatasetContentByUuid(c) \/ GetObject(c) \/ Abandon(c)
    \/ ReadPreviousRefFails(c) \/ DeleteOldObjectFails(c)

-----------------------------------------------------------------------------
StoreTypeOK ==
    /\ backend \in {"inline", "s3"}
    /\ dataset \in [Datasets -> Row]
    /\ object \in [Datasets -> Seq(Bodies) \cup {NoObject}]
    /\ request \in [Clients -> Request]
    /\ started \in Nat
    /\ alone \subseteq Clients
    /\ trouble \subseteq Datasets

(* A row names the object of its own dataset or none, and a content that   *)
(* is kept in the row is the one its checksum was computed from: no        *)
(* interleaving of updates and uploads makes one dataset serve, or delete, *)
(* the object of another.                                                  *)
RowSound ==
    \A d \in Datasets : Live(d) =>
        \/ dataset[d].key = NoKey /\ dataset[d].checksum = dataset[d].content
        \/ dataset[d].key = d /\ dataset[d].content = <<>>

\* The row of a dataset and the object store agree.
Agree(d) ==
    IF Live(d) /\ dataset[d].key # NoKey THEN object[d] = dataset[d].checksum
                                         ELSE object[d] = NoObject

(* Row and object agree whenever no write of the dataset is in progress,   *)
(* unless two writes of it overlapped or a call of one failed.  That       *)
(* counts the calls whose error the code drops: an update to empty content *)
(* whose query of the previous reference fails is answered as a success    *)
(* and leaves the old object behind.  A write that puts new content in the *)
(* object store, meets no other and reaches the row makes the two agree    *)
(* again, whatever was left behind before it.                              *)
UntroubledAgree == \A d \in Datasets \ trouble : Writers(d) = {} => Agree(d)

\* What a download of a dataset with nobody writing to it returns.
Served(d) == IF dataset[d].key = NoKey THEN dataset[d].content ELSE object[d]

(* What the API documentation says of If-None-Match: when the client's     *)
(* ETag is the current one, and 304 Not Modified is sent, the copy the     *)
(* client got with that ETag is the current content.                       *)
NotModifiedIsFresh ==
    \A c \in Clients :
        LET copy == request[c]
        IN  /\ At(c, "download", "done")
            /\ Live(copy.ds)
            /\ dataset[copy.ds].checksum = copy.checksum
            /\ Writers(copy.ds) = {}
            /\ Served(copy.ds) # NoObject
            => Served(copy.ds) = copy.content
=============================================================================
