---------------------------- MODULE BlobTransfer ----------------------------
(***************************************************************************)
(* Blobs on their way from devices to the backend: single-use upload       *)
(* capabilities, and sessions in which a blob is sent chunk by chunk.      *)
(*                                                                         *)
(* A store method changes files (chunks, objects) before it saves the      *)
(* state, under the lock.  A method that raises, or a backend that dies,   *)
(* leaves the files changed and the state as it was; those endings are     *)
(* actions of their own.  Ciphertext is a function of the content          *)
(* (crypto.py), so every device sends the same bytes for a blob.           *)
(***************************************************************************)
EXTENDS Naturals

CONSTANTS Uploaders,      \* devices
          Resumers,       \* those that use_resumable_uploads
          Payloads,       \* blob ids
          ChunksOf,       \* blob id -> its chunks
          EmptyPayloads,  \* blobs of size 0, which still have one chunk
          MaxTrouble      \* bound: faults, and expiries during an upload

ASSUME ResumersUpload == Resumers \subseteq Uploaders
ASSUME MaxTroubleIsNat == MaxTrouble \in Nat

VARIABLES available,   \* state["blobs"]
          object,      \* the object store
          rewritten,   \* available blobs an upload was rewriting when it was cut off
          capability,  \* state["capabilities"] of kind upload
          transfer,    \* state["resumable_upload_sessions"], by device and blob
          chunkFiles,  \* files of chunk_dir
          barred,      \* devices with revoked = true
          client,      \* what each device is doing
          trouble      \* faults so far

tvars == <<available, object, rewritten, capability, transfer, chunkFiles,
           barred, client, trouble>>
server == <<available, object, rewritten, capability, transfer, chunkFiles>>

Key == Uploaders \X Payloads
ChunkFile == {f \in Key \X UNION {ChunksOf[b] : b \in Payloads} : f[2] \in ChunksOf[f[1][2]]}

\* expires_at_ms is kept as whether it has passed.  `recorded` is
\* uploaded_chunk_ids, `filed` the keys of chunk_files.
NoTransfer == [open |-> FALSE, live |-> FALSE, recorded |-> {}, filed |-> {}]

Idle == [at |-> "idle", want |-> {}, send |-> {}]
Working == {"init", "put", "complete"}

TInit ==
    /\ available = {}
    /\ object = [b \in Payloads |-> "none"]
    /\ rewritten = {}
    /\ capability = {}
    /\ transfer = [k \in Key |-> NoTransfer]
    /\ chunkFiles = {}
    /\ barred = {}
    /\ client = [d \in Uploaders |-> Idle]
    /\ trouble = 0

Step(d, at) == client' = [client EXCEPT ![d].at = at]
Fail(d) == client' = [client EXCEPT ![d] = Idle]
Trouble == trouble < MaxTrouble /\ trouble' = trouble + 1

-----------------------------------------------------------------------------
(* Submitting a commit: which blobs are missing                            *)

CheckBlobs(d) ==
    /\ client[d].at = "idle" /\ d \notin barred
    /\ client' = [client EXCEPT ![d] =
           IF Payloads \subseteq available
           THEN [at |-> "done", want |-> {}, send |-> {}]
           ELSE [at |-> "init", want |-> Payloads \ available, send |-> {}]]
    /\ UNCHANGED <<server, barred, trouble>>

-----------------------------------------------------------------------------
(* Single-use capabilities                                                 *)

InitBlobUpload(d) ==
    /\ client[d].at = "init" /\ d \notin Resumers /\ d \notin barred
    /\ capability' = capability \cup [device : {d}, blob : client[d].want, live : {TRUE}]
    /\ Step(d, "put")
    /\ UNCHANGED <<available, object, rewritten, transfer, chunkFiles, barred, trouble>>

Usable(d, b) == [device |-> d, blob |-> b, live |-> TRUE] \in capability

\* complete_blob_upload: the object, then the state.
CompleteBlobUpload(d, b) ==
    /\ client[d].at = "put" /\ b \in client[d].want
    /\ Usable(d, b)
    /\ object' = [object EXCEPT ![b] = "whole"]
    /\ available' = available \cup {b}
    /\ rewritten' = rewritten \ {b}
    /\ capability' = capability \ {[device |-> d, blob |-> b, live |-> TRUE]}
    /\ client' = [client EXCEPT ![d].want = @ \ {b},
                                ![d].at = IF client[d].want = {b} THEN "done" ELSE "put"]
    /\ UNCHANGED <<transfer, chunkFiles, barred, trouble>>

\* 404 or 403: the capability is gone or expired; a removal is not saved.
CapabilityRefused(d, b) ==
    /\ client[d].at = "put" /\ d \notin Resumers /\ b \in client[d].want
    /\ ~Usable(d, b)
    /\ Fail(d)
    /\ UNCHANGED <<server, barred, trouble>>

\* Fault: the state is saved before the object is written.
StateBeforeObject(d, b, written) ==
    /\ client[d].at = "put" /\ b \in client[d].want /\ Usable(d, b)
    /\ Trouble
    /\ available' = available \cup {b}
    /\ object' = [object EXCEPT ![b] = IF written = "none" THEN @ ELSE written]
    /\ Fail(d)
    /\ UNCHANGED <<rewritten, capability, transfer, chunkFiles, barred>>

\* The object store fails (the capability is put back), or the backend dies on
\* the way; write_bytes may have got any far.
BlobUploadCut(d, b, written) ==
    /\ client[d].at = "put" /\ b \in client[d].want /\ Usable(d, b)
    /\ Trouble
    /\ object' = [object EXCEPT ![b] = IF written = "none" THEN @ ELSE written]
    /\ rewritten' = IF written = "torn" /\ b \in available
                    THEN rewritten \cup {b} ELSE rewritten
    /\ Fail(d)
    /\ UNCHANGED <<available, capability, transfer, chunkFiles, barred>>

-----------------------------------------------------------------------------
(* Resumable uploads                                                       *)

\* Fault: expired sessions are left where they are.
KeepExpired(tr) == tr

\* _purge_expired_resumable_upload_sessions
Purged(tr) == [k \in Key |-> IF tr[k].live THEN tr[k] ELSE NoTransfer]
FilesAfterPurge(tr) ==
    {f \in chunkFiles : tr[f[1]].open /\ ~tr[f[1]].live => f[2] \notin tr[f[1]].filed}

\* A session of a blob the backend has says that all chunks are there.
NewTransfer(b) ==
    [open |-> TRUE, live |-> TRUE, filed |-> {},
     recorded |-> IF b \in available THEN ChunksOf[b] ELSE {}]

\* init_resumable_blob_upload: an open session of the device is found again.
\* What is missing is read off uploaded_chunk_ids.
InitResumableBlobUpload(d) ==
    LET purged == Purged(transfer)
        opened == [k \in Key |->
                      IF k[1] = d /\ k[2] \in client[d].want /\ ~purged[k].open
                      THEN NewTransfer(k[2]) ELSE purged[k]]
    IN  /\ client[d].at = "init" /\ d \in Resumers /\ d \notin barred
        /\ transfer' = opened
        /\ chunkFiles' = FilesAfterPurge(transfer)
        /\ client' = [client EXCEPT ![d].at = "put",
               ![d].send = {f \in ChunkFile : /\ f[1][1] = d /\ f[1][2] \in client[d].want
                                              /\ f[2] \notin opened[f[1]].recorded}]
        /\ UNCHANGED <<available, object, rewritten, capability, barred, trouble>>

CanPut(k) == transfer[k].open /\ transfer[k].live

\* put_resumable_blob_chunk: the file, then the state.
PutResumableBlobChunk(d, f) ==
    /\ client[d].at = "put" /\ f \in client[d].send
    /\ CanPut(f[1])
    /\ chunkFiles' = chunkFiles \cup {f}
    /\ transfer' = [transfer EXCEPT ![f[1]].recorded = @ \cup {f[2]},
                                    ![f[1]].filed = @ \cup {f[2]}]
    /\ client' = [client EXCEPT ![d].send = @ \ {f}]
    /\ UNCHANGED <<available, object, rewritten, capability, barred, trouble>>

ChunkRefused(d, f) ==
    /\ client[d].at = "put" /\ f \in client[d].send
    /\ ~CanPut(f[1])
    /\ Fail(d)
    /\ UNCHANGED <<server, barred, trouble>>

\* The chunk is written, the state is not.
ChunkCut(d, f) ==
    /\ client[d].at = "put" /\ f \in client[d].send /\ CanPut(f[1])
    /\ Trouble
    /\ chunkFiles' = chunkFiles \cup {f}
    /\ Fail(d)
    /\ UNCHANGED <<available, object, rewritten, capability, transfer, barred>>

AllSent(d) ==
    /\ client[d].at = "put" /\ d \in Resumers /\ client[d].send = {}
    /\ Step(d, "complete")
    /\ UNCHANGED <<server, barred, trouble>>

\* _missing_session_chunks: not recorded, or the file is not there.
MissingChunks(k) ==
    {c \in ChunksOf[k[2]] :
        \/ c \notin transfer[k].recorded
        \/ k[2] \notin EmptyPayloads /\ (c \notin transfer[k].filed \/ <<k, c>> \notin chunkFiles)}

Lost(d, b) == b \notin available /\ ~Purged(transfer)[<<d, b>>].open
Incomplete(d, b) == b \notin available /\ MissingChunks(<<d, b>>) # {}
Finalizable(d) ==
    {b \in client[d].want : b \notin available /\ ~Lost(d, b) /\ MissingChunks(<<d, b>>) = {}}

\* What _finalize_resumable_upload_blob does to files, for the blobs bs.
WithoutChunksOf(files, d, bs) == {f \in files : ~(f[1][1] = d /\ f[1][2] \in bs)}

\* complete_resumable_blob_upload, when no item raises.  One that is not
\* complete makes the device give up, the others are saved all the same.
CompleteResumableBlobUpload(d) ==
    LET whole == Finalizable(d)
    IN  /\ client[d].at = "complete" /\ d \notin barred
        /\ \A b \in client[d].want : ~Lost(d, b)
        /\ object' = [b \in Payloads |-> IF b \in whole THEN "whole" ELSE object[b]]
        /\ available' = available \cup whole
        /\ rewritten' = rewritten \ whole
        /\ transfer' = [k \in Key |-> IF k[1] = d /\ k[2] \in whole
                                      THEN NoTransfer ELSE Purged(transfer)[k]]
        /\ chunkFiles' = WithoutChunksOf(FilesAfterPurge(transfer), d, whole)
        /\ IF \E b \in client[d].want : Incomplete(d, b)
           THEN Fail(d)
           ELSE client' = [client EXCEPT ![d] = [at |-> "done", want |-> {}, send |-> {}]]
        /\ UNCHANGED <<capability, barred, trouble>>

\* The same when an item raises or the backend dies: the blobs before it have
\* their object and have lost their chunk files, and nothing is saved.
ItemRaises(d) == (\E b \in client[d].want : Lost(d, b)) /\ UNCHANGED trouble

CompleteCut(d, before) ==
    /\ client[d].at = "complete" /\ d \notin barred
    /\ ItemRaises(d) \/ Trouble
    /\ before \subseteq Finalizable(d)
    /\ object' = [b \in Payloads |-> IF b \in before THEN "whole" ELSE object[b]]
    /\ chunkFiles' = WithoutChunksOf(FilesAfterPurge(transfer), d, before)
    /\ Fail(d)
    /\ UNCHANGED <<available, rewritten, capability, transfer, barred>>

-----------------------------------------------------------------------------
(* Time and revocation                                                     *)

\* Fifteen minutes pass for a session or capability.  An upload that is under
\* way is rarely that slow.
Expire(k) ==
    /\ CanPut(k) \/ Usable(k[1], k[2])
    /\ IF client[k[1]].at \in Working THEN Trouble ELSE UNCHANGED trouble
    /\ transfer' = [transfer EXCEPT ![k].live = FALSE]
    /\ capability' = {IF c.device = k[1] /\ c.blob = k[2] THEN [c EXCEPT !.live = FALSE] ELSE c
                        : c \in capability}
    /\ UNCHANGED <<available, object, rewritten, chunkFiles, barred, client>>

\* The answer to any request is lost.
AnswerLost(d) ==
    /\ client[d].at \in Working
    /\ Trouble
    /\ Fail(d)
    /\ UNCHANGED <<server, barred>>

\* delete_device: capabilities, sessions and chunk files of the device go.
BarDevice(d) ==
    /\ d \notin barred
    /\ barred' = barred \cup {d}
    /\ capability' = {c \in capability : c.device # d}
    /\ transfer' = [k \in Key |-> IF k[1] = d THEN NoTransfer ELSE transfer[k]]
    /\ chunkFiles' = {f \in chunkFiles : f[1][1] = d => f[2] \notin transfer[f[1]].filed}
    /\ UNCHANGED <<available, object, rewritten, client, trouble>>

Upload(d) ==
    \/ CheckBlobs(d)
    \/ InitBlobUpload(d)
    \/ \E b \in Payloads : CompleteBlobUpload(d, b) \/ CapabilityRefused(d, b)
    \/ InitResumableBlobUpload(d)
    \/ \E f \in ChunkFile : PutResumableBlobChunk(d, f) \/ ChunkRefused(d, f)
    \/ AllSent(d)
    \/ CompleteResumableBlobUpload(d)
    \/ \E before \in SUBSET Payloads : CompleteCut(d, before)

TNext ==
    \/ \E d \in Uploaders :
          \/ Upload(d)
          \/ \E b \in Payloads, w \in {"none", "torn", "whole"} : BlobUploadCut(d, b, w)
          \/ \E f \in ChunkFile : ChunkCut(d, f)
          \/ AnswerLost(d)
          \/ BarDevice(d)
    \/ \E k \in Key : Expire(k)

\* A device tries again after every failure, and sleeps in between, so a session
\* that is of no use expires while its device is not working.
TFairness ==
    /\ \A d \in Uploaders : WF_tvars(Upload(d))
    /\ \A d \in Resumers, b \in Payloads :
          SF_tvars(client[d].at = "idle" /\ Expire(<<d, b>>))

TSpec == TInit /\ [][TNext]_tvars /\ TFairness

-----------------------------------------------------------------------------
(* Properties                                                              *)

TTypeOK ==
    /\ available \subseteq Payloads
    /\ object \in [Payloads -> {"none", "torn", "whole"}]
    /\ rewritten \subseteq Payloads
    /\ capability \subseteq [device : Uploaders, blob : Payloads, live : BOOLEAN]
    /\ \A k \in Key : /\ transfer[k].open \in BOOLEAN /\ transfer[k].live \in BOOLEAN
                      /\ transfer[k].filed \subseteq ChunksOf[k[2]]
                      /\ transfer[k].recorded \subseteq ChunksOf[k[2]]
    /\ chunkFiles \subseteq ChunkFile
    /\ barred \subseteq Uploaders
    /\ client \in [Uploaders -> [at : Working \cup {"idle", "done"},
                                 want : SUBSET Payloads, send : SUBSET ChunkFile]]
    /\ trouble \in 0 .. MaxTrouble

\* A blob the backend offers to commits and downloads is there, every byte of it,
\* whatever was cut off, expired or sent twice; the one thing that can break it is
\* a capability upload cut off while it writes an available object again.  A
\* device that is done has nothing left to send.
AvailableIsWhole ==
    /\ \A b \in available : object[b] = "whole" \/ b \in rewritten
    /\ \A d \in Uploaders : client[d].at = "done" => Payloads \subseteq available

\* A device that keeps trying gets its blobs to the backend: no crash, lost
\* answer, expired session or half finished completion blocks an upload for ever.
UploadsFinish ==
    <>(\A d \in Uploaders : d \in barred \/ client[d].at = "done")
=============================================================================
