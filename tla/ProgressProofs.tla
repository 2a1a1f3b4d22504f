--------------------------- MODULE ProgressProofs ---------------------------
(***************************************************************************)
(* Uploads and the sync panel: a blob that is available is whole, for any  *)
(* number of devices, blobs and chunks and any number of faults, and both  *)
(* components keep their types.                                            *)
(***************************************************************************)
EXTENDS MCProgress, TLAPS

\* What the argument needs of the types.
Shapes ==
    /\ available \subseteq Payloads
    /\ object \in [Payloads -> {"none", "torn", "whole"}]
    /\ client \in [Uploaders -> [at : Working \cup {"idle", "done"},
                                 want : SUBSET Payloads, send : SUBSET ChunkFile]]

\* A device at work has on its list whatever the backend still lacks.
WantsTheRest == \A d \in Uploaders : client[d].at \in Working => Payloads \ available \subseteq client[d].want

TransferInv == Shapes /\ WantsTheRest /\ AvailableIsWhole

-----------------------------------------------------------------------------
(* The state of the server stays, or only grows; a device gives up         *)

LEMMA GivingUp ==
    ASSUME TransferInv, NEW d \in Uploaders, Fail(d),
           available' = available, object' = object, rewritten' = rewritten
    PROVE  TransferInv'
  <1>1. Idle \in [at : Working \cup {"idle", "done"}, want : SUBSET Payloads, send : SUBSET ChunkFile]
    BY DEF Idle
  <1>2. client'[d] = Idle /\ \A e \in Uploaders \ {d} : client'[e] = client[e]
    BY DEF Fail, TransferInv, Shapes
  <1>3. Shapes'
    BY <1>1 DEF Fail, TransferInv, Shapes
  <1>4. WantsTheRest' /\ AvailableIsWhole'
    BY <1>2 DEF Idle, Working, TransferInv, WantsTheRest, AvailableIsWhole
  <1> QED
    BY <1>3, <1>4 DEF TransferInv

LEMMA ServerUntouched ==
    ASSUME TransferInv, available' = available, object' = object, rewritten' = rewritten, client' = client
    PROVE  TransferInv'
  BY DEF TransferInv, Shapes, WantsTheRest, AvailableIsWhole

\* A device goes on to another request and keeps its list.
LEMMA GoingOn ==
    ASSUME TransferInv, NEW d \in Uploaders, client[d].at \in Working,
           Shapes', client'[d].at \in Working, client'[d].want = client[d].want,
           \A e \in Uploaders \ {d} : client'[e] = client[e],
           available' = available, object' = object, rewritten' = rewritten
    PROVE  TransferInv'
  BY DEF TransferInv, Working, WantsTheRest, AvailableIsWhole

-----------------------------------------------------------------------------
(* Requests                                                                *)

LEMMA CheckBlobsKeeps == ASSUME TransferInv, NEW d \in Uploaders, CheckBlobs(d) PROVE TransferInv'
  <1>1. available' = available /\ object' = object /\ rewritten' = rewritten
    BY DEF CheckBlobs, server
  <1>2. /\ client'[d].at = IF Payloads \subseteq available THEN "done" ELSE "init"
        /\ client'[d].at = "init" => client'[d].want = Payloads \ available
        /\ \A e \in Uploaders \ {d} : client'[e] = client[e]
    BY DEF CheckBlobs, TransferInv, Shapes
  <1>3. Shapes'
    BY <1>1 DEF CheckBlobs, TransferInv, Shapes, Working
  <1>4. WantsTheRest' /\ AvailableIsWhole'
    BY <1>1, <1>2 DEF TransferInv, Working, WantsTheRest, AvailableIsWhole
  <1> QED
    BY <1>3, <1>4 DEF TransferInv

LEMMA InitsKeep ==
    ASSUME TransferInv, NEW d \in Uploaders, InitBlobUpload(d) \/ InitResumableBlobUpload(d) \/ AllSent(d)
    PROVE  TransferInv'
  <1>1. CASE InitBlobUpload(d)
    <2>1. Shapes' /\ client'[d].at \in Working /\ client'[d].want = client[d].want
          /\ \A e \in Uploaders \ {d} : client'[e] = client[e]
      BY <1>1 DEF InitBlobUpload, Step, TransferInv, Shapes, Working
    <2> QED
      BY <1>1, <2>1, GoingOn DEF InitBlobUpload, Working
  <1>2. CASE InitResumableBlobUpload(d)
    <2>1. PICK sent \in SUBSET ChunkFile :
             client' = [client EXCEPT ![d].at = "put", ![d].send = sent]
      BY <1>2 DEF InitResumableBlobUpload
    <2>2. client[d].at \in Working /\ UNCHANGED <<available, object, rewritten>>
      BY <1>2 DEF InitResumableBlobUpload, Working
    <2>3. /\ client'[d].at \in Working /\ client'[d].want = client[d].want
          /\ \A e \in Uploaders \ {d} : client'[e] = client[e]
      BY <2>1 DEF TransferInv, Shapes, Working
    <2>4. Shapes'
      BY <2>1, <2>2 DEF TransferInv, Shapes, Working
    <2> QED
      BY <2>2, <2>3, <2>4, GoingOn
  <1>3. CASE AllSent(d)
    <2>1. Shapes' /\ client'[d].at \in Working /\ client'[d].want = client[d].want
          /\ \A e \in Uploaders \ {d} : client'[e] = client[e]
      BY <1>3 DEF AllSent, server, Step, TransferInv, Shapes, Working
    <2> QED
      BY <1>3, <2>1, GoingOn DEF AllSent, server, Working
  <1> QED
    BY <1>1, <1>2, <1>3

\* The object is written before the blob becomes available, and the blob leaves
\* the list of the device.
LEMMA CompleteBlobUploadKeeps ==
    ASSUME TransferInv, NEW d \in Uploaders, NEW b \in Payloads, CompleteBlobUpload(d, b)
    PROVE  TransferInv'
  <1>1. /\ available' = available \cup {b} /\ rewritten' = rewritten \ {b}
        /\ object'[b] = "whole" /\ \A c \in Payloads \ {b} : object'[c] = object[c]
    BY DEF CompleteBlobUpload, TransferInv, Shapes
  <1>2. /\ client'[d].want = client[d].want \ {b}
        /\ client'[d].at = IF client[d].want = {b} THEN "done" ELSE "put"
        /\ \A e \in Uploaders \ {d} : client'[e] = client[e]
    BY DEF CompleteBlobUpload, TransferInv, Shapes
  <1>3. Payloads \ available \subseteq client[d].want
    BY DEF CompleteBlobUpload, TransferInv, WantsTheRest, Working
  <1>4. Shapes'
    BY DEF CompleteBlobUpload, TransferInv, Shapes, Working
  <1>5. WantsTheRest'
    BY <1>1, <1>2, <1>3 DEF TransferInv, WantsTheRest
  <1>6. AvailableIsWhole'
    BY <1>1, <1>2, <1>3 DEF TransferInv, Shapes, AvailableIsWhole
  <1> QED
    BY <1>4, <1>5, <1>6 DEF TransferInv

LEMMA BlobUploadCutKeeps ==
    ASSUME TransferInv, NEW d \in Uploaders, NEW b \in Payloads, NEW w \in {"none", "torn", "whole"},
           BlobUploadCut(d, b, w)
    PROVE  TransferInv'
  <1>1. /\ available' = available
        /\ object' \in [Payloads -> {"none", "torn", "whole"}]
        /\ object'[b] = (IF w = "none" THEN object[b] ELSE w)
        /\ \A c \in Payloads \ {b} : object'[c] = object[c]
        /\ rewritten' = IF w = "torn" /\ b \in available THEN rewritten \cup {b} ELSE rewritten
    BY DEF BlobUploadCut, TransferInv, Shapes
  <1>2. client'[d] = Idle /\ \A e \in Uploaders \ {d} : client'[e] = client[e]
    BY DEF BlobUploadCut, Fail, TransferInv, Shapes
  <1>3. Shapes'
    BY <1>1 DEF BlobUploadCut, Fail, Idle, TransferInv, Shapes
  <1>4. \A c \in available : object'[c] = "whole" \/ c \in rewritten'
    BY <1>1 DEF TransferInv, Shapes, AvailableIsWhole
  <1>5. WantsTheRest' /\ AvailableIsWhole'
    BY <1>1, <1>2, <1>4 DEF Idle, Working, TransferInv, WantsTheRest, AvailableIsWhole
  <1> QED
    BY <1>3, <1>5 DEF TransferInv

LEMMA PutChunkKeeps ==
    ASSUME TransferInv, NEW d \in Uploaders, NEW f \in ChunkFile, PutResumableBlobChunk(d, f)
    PROVE  TransferInv'
  <1>1. Shapes' /\ client'[d].at \in Working /\ client'[d].want = client[d].want
        /\ \A e \in Uploaders \ {d} : client'[e] = client[e]
    BY DEF PutResumableBlobChunk, TransferInv, Shapes, Working
  <1> QED
    BY <1>1, GoingOn DEF PutResumableBlobChunk, Working

\* Every item that is not reported incomplete was finished, or was there before.
LEMMA CompleteResumableKeeps ==
    ASSUME TransferInv, NEW d \in Uploaders, CompleteResumableBlobUpload(d) PROVE TransferInv'
  <1> DEFINE whole == Finalizable(d)
  <1>1. /\ available' = available \cup whole /\ rewritten' = rewritten \ whole
        /\ object' \in [Payloads -> {"none", "torn", "whole"}]
        /\ \A b \in Payloads : object'[b] = IF b \in whole THEN "whole" ELSE object[b]
    BY DEF CompleteResumableBlobUpload, TransferInv, Shapes
  <1>2. whole \subseteq Payloads
    BY DEF Finalizable, TransferInv, Shapes
  <1>3. Shapes' /\ \A e \in Uploaders \ {d} : client'[e] = client[e]
    BY <1>1, <1>2 DEF CompleteResumableBlobUpload, Fail, Idle, TransferInv, Shapes
  <1>4. \A b \in available' : object'[b] = "whole" \/ b \in rewritten'
    BY <1>1, <1>2 DEF TransferInv, Shapes, AvailableIsWhole
  <1>5. CASE \E b \in client[d].want : Incomplete(d, b)
    <2>1. client'[d].at = "idle"
      BY <1>5 DEF CompleteResumableBlobUpload, Fail, Idle, TransferInv, Shapes
    <2> QED
      BY <1>1, <1>3, <1>4, <2>1 DEF Working, TransferInv, WantsTheRest, AvailableIsWhole
  <1>6. CASE ~ \E b \in client[d].want : Incomplete(d, b)
    <2>1. client'[d].at = "done"
      BY <1>6 DEF CompleteResumableBlobUpload, TransferInv, Shapes
    <2>2. Payloads \ available \subseteq client[d].want
      BY DEF CompleteResumableBlobUpload, TransferInv, WantsTheRest, Working
    <2>3. \A b \in client[d].want : b \in available \cup whole
      BY <1>6 DEF CompleteResumableBlobUpload, Finalizable, Incomplete
    <2>4. Payloads \subseteq available'
      BY <1>1, <2>2, <2>3
    <2> QED
      BY <1>1, <1>3, <1>4, <2>1, <2>4 DEF Working, TransferInv, WantsTheRest, AvailableIsWhole
  <1> QED
    BY <1>5, <1>6

LEMMA CompleteCutKeeps ==
    ASSUME TransferInv, NEW d \in Uploaders, NEW before \in SUBSET Payloads, CompleteCut(d, before)
    PROVE  TransferInv'
  <1>1. /\ available' = available /\ rewritten' = rewritten
        /\ object' \in [Payloads -> {"none", "torn", "whole"}]
        /\ \A b \in Payloads : object'[b] = IF b \in before THEN "whole" ELSE object[b]
    BY DEF CompleteCut, TransferInv, Shapes
  <1>2. client'[d] = Idle /\ \A e \in Uploaders \ {d} : client'[e] = client[e]
    BY DEF CompleteCut, Fail, TransferInv, Shapes
  <1>3. Shapes'
    BY <1>1 DEF CompleteCut, Fail, Idle, TransferInv, Shapes
  <1>4. WantsTheRest' /\ AvailableIsWhole'
    BY <1>1, <1>2 DEF Idle, Working, TransferInv, Shapes, WantsTheRest, AvailableIsWhole
  <1> QED
    BY <1>3, <1>4 DEF TransferInv

-----------------------------------------------------------------------------
(* Every step                                                              *)

LEMMA TransferInit == TInit => TransferInv
  BY DEF TInit, Idle, Working, TransferInv, Shapes, WantsTheRest, AvailableIsWhole

LEMMA TransferStep == TransferInv /\ [TNext]_tvars => TransferInv'
  <1> SUFFICES ASSUME TransferInv, [TNext]_tvars PROVE TransferInv'
    OBVIOUS
  <1>1. ASSUME NEW d \in Uploaders, Upload(d) PROVE TransferInv'
    <2>1. ASSUME NEW b \in Payloads, CapabilityRefused(d, b) PROVE TransferInv'
      BY <2>1, GivingUp DEF CapabilityRefused, server
    <2>2. ASSUME NEW f \in ChunkFile, ChunkRefused(d, f) PROVE TransferInv'
      BY <2>2, GivingUp DEF ChunkRefused, server
    <2> QED
      BY <1>1, <2>1, <2>2, CheckBlobsKeeps, InitsKeep, CompleteBlobUploadKeeps, PutChunkKeeps,
         CompleteResumableKeeps, CompleteCutKeeps DEF Upload
  <1>2. ASSUME NEW d \in Uploaders, NEW f \in ChunkFile, ChunkCut(d, f) PROVE TransferInv'
    BY <1>2, GivingUp DEF ChunkCut
  <1>3. ASSUME NEW d \in Uploaders, AnswerLost(d) PROVE TransferInv'
    BY <1>3, GivingUp DEF AnswerLost, server
  <1>4. ASSUME NEW d \in Uploaders, BarDevice(d) PROVE TransferInv'
    BY <1>4, ServerUntouched DEF BarDevice
  <1>5. ASSUME NEW k \in Key, Expire(k) PROVE TransferInv'
    BY <1>5, ServerUntouched DEF Expire
  <1>6. CASE UNCHANGED tvars
    BY <1>6, ServerUntouched DEF tvars
  <1> QED
    BY <1>1, <1>2, <1>3, <1>4, <1>5, <1>6, BlobUploadCutKeeps DEF TNext

\* A blob offered to commits and downloads is whole, unless an upload was cut off
\* while it wrote that available object again; a device that is done left nothing out.
THEOREM OfferedIsWhole == TSpec => []AvailableIsWhole
  <1>1. TransferInv => AvailableIsWhole
    BY DEF TransferInv
  <1> QED
    BY <1>1, TransferInit, TransferStep, PTL DEF TSpec

-----------------------------------------------------------------------------
(* Types of uploads                                                        *)

SomeChunks == UNION {ChunksOf[b] : b \in Payloads}
Transfer == [open : BOOLEAN, live : BOOLEAN, filed : SUBSET SomeChunks,
             recorded : SUBSET SomeChunks]
Capability == [device : Uploaders, blob : Payloads, live : BOOLEAN]

ChunksAreOfBlob(tr) ==
    \A k \in Key : tr[k].filed \subseteq ChunksOf[k[2]] /\ tr[k].recorded \subseteq ChunksOf[k[2]]

\* The types that TransferInv leaves out.
ServerTypes ==
    /\ rewritten \subseteq Payloads
    /\ capability \subseteq Capability
    /\ transfer \in [Key -> Transfer] /\ ChunksAreOfBlob(transfer)
    /\ chunkFiles \subseteq ChunkFile
    /\ barred \subseteq Uploaders
    /\ trouble \in 0 .. MaxTrouble

LEMMA NoTransferIsOne == NoTransfer \in Transfer /\ NoTransfer.filed = {} /\ NoTransfer.recorded = {}
  BY DEF NoTransfer, Transfer

LEMMA KeyParts == ASSUME NEW k \in Key PROVE k[1] \in Uploaders /\ k[2] \in Payloads
  BY DEF Key

LEMMA NewTransferIsOne ==
    ASSUME NEW b \in Payloads
    PROVE  /\ NewTransfer(b) \in Transfer /\ NewTransfer(b).filed \subseteq ChunksOf[b]
           /\ NewTransfer(b).recorded \subseteq ChunksOf[b]
  <1> DEFINE r == IF b \in available THEN ChunksOf[b] ELSE {}
  <1>1. r \subseteq ChunksOf[b] /\ r \in SUBSET SomeChunks
    BY DEF SomeChunks
  <1>2. NewTransfer(b) = [open |-> TRUE, live |-> TRUE, filed |-> {}, recorded |-> r]
    BY DEF NewTransfer
  <1> HIDE DEF r
  <1> QED
    BY <1>1, <1>2 DEF Transfer

LEMMA PurgedTypes ==
    ASSUME ServerTypes
    PROVE  Purged(transfer) \in [Key -> Transfer] /\ ChunksAreOfBlob(Purged(transfer))
  <1>1. ASSUME NEW k \in Key
        PROVE  /\ Purged(transfer)[k] \in Transfer
               /\ Purged(transfer)[k].filed \subseteq ChunksOf[k[2]]
               /\ Purged(transfer)[k].recorded \subseteq ChunksOf[k[2]]
    <2>1. Purged(transfer)[k] \in {transfer[k], NoTransfer}
      BY DEF Purged
    <2> QED
      BY <2>1, NoTransferIsOne DEF ServerTypes, ChunksAreOfBlob
  <1>2. DOMAIN Purged(transfer) = Key /\ Purged(transfer) = [k \in Key |-> Purged(transfer)[k]]
    BY DEF Purged
  <1> QED
    BY <1>1, <1>2 DEF ChunksAreOfBlob

\* Every session is kept, dropped or opened anew.
LEMMA TransfersFrom ==
    ASSUME ServerTypes, NEW tr, tr = [k \in Key |-> tr[k]],
           \A k \in Key : tr[k] \in {transfer[k], Purged(transfer)[k], NoTransfer, NewTransfer(k[2])}
    PROVE  tr \in [Key -> Transfer] /\ ChunksAreOfBlob(tr)
  <1>1. ASSUME NEW k \in Key
        PROVE  /\ tr[k] \in Transfer
               /\ tr[k].filed \subseteq ChunksOf[k[2]] /\ tr[k].recorded \subseteq ChunksOf[k[2]]
    <2>1. CASE tr[k] = transfer[k]
      BY <2>1 DEF ServerTypes, ChunksAreOfBlob
    <2>2. CASE tr[k] = Purged(transfer)[k]
      BY <2>2, PurgedTypes DEF ChunksAreOfBlob
    <2>3. CASE tr[k] = NoTransfer
      BY <2>3, NoTransferIsOne
    <2>4. CASE tr[k] = NewTransfer(k[2])
      BY <2>4, NewTransferIsOne, KeyParts
    <2> QED
      BY <2>1, <2>2, <2>3, <2>4
  <1> QED
    BY <1>1 DEF ChunksAreOfBlob

LEMMA TransferUpdated ==
    ASSUME ServerTypes, NEW k \in Key, NEW t \in Transfer, NEW tr,
           tr = [transfer EXCEPT ![k] = t],
           t.filed \subseteq ChunksOf[k[2]], t.recorded \subseteq ChunksOf[k[2]]
    PROVE  tr \in [Key -> Transfer] /\ ChunksAreOfBlob(tr)
  BY DEF ServerTypes, ChunksAreOfBlob

LEMMA TroubleCounts ==
    ASSUME ServerTypes, Trouble PROVE trouble' \in 0 .. MaxTrouble
  BY MaxTroubleIsNat DEF Trouble, ServerTypes

LEMMA ServerTypesInit == TInit => ServerTypes
  <1> SUFFICES ASSUME TInit PROVE ServerTypes
    OBVIOUS
  <1>1. transfer \in [Key -> Transfer] /\ ChunksAreOfBlob(transfer)
    BY NoTransferIsOne DEF TInit, ChunksAreOfBlob
  <1> QED
    BY <1>1, MaxTroubleIsNat DEF TInit, ServerTypes

LEMMA SendingKeepsTypes ==
    ASSUME TransferInv, ServerTypes, NEW d \in Uploaders, Upload(d)
    PROVE  ServerTypes'
  <1>1. CASE CheckBlobs(d)
    BY <1>1 DEF CheckBlobs, server, ServerTypes
  <1>2. CASE InitBlobUpload(d)
    <2>1. client[d].want \subseteq Payloads
      BY DEF TransferInv, Shapes
    <2>2. [device : {d}, blob : client[d].want, live : {TRUE}] \subseteq Capability
      BY <2>1 DEF Capability
    <2> QED
      BY <1>2, <2>2 DEF InitBlobUpload, ServerTypes
  <1>3. ASSUME NEW b \in Payloads, CompleteBlobUpload(d, b) PROVE ServerTypes'
    BY <1>3 DEF CompleteBlobUpload, ServerTypes
  <1>4. ASSUME NEW b \in Payloads, CapabilityRefused(d, b) PROVE ServerTypes'
    BY <1>4 DEF CapabilityRefused, server, ServerTypes
  <1>5. CASE InitResumableBlobUpload(d)
    <2> DEFINE opened == [k \in Key |->
                             IF k[1] = d /\ k[2] \in client[d].want /\ ~Purged(transfer)[k].open
                             THEN NewTransfer(k[2]) ELSE Purged(transfer)[k]]
    <2>1. /\ transfer' = opened /\ chunkFiles' = FilesAfterPurge(transfer)
          /\ UNCHANGED <<rewritten, capability, barred, trouble>>
      BY <1>5, Zenon DEF InitResumableBlobUpload
    <2>2. opened \in [Key -> Transfer] /\ ChunksAreOfBlob(opened)
      <3>1. \A k \in Key : opened[k] \in {Purged(transfer)[k], NewTransfer(k[2])}
        OBVIOUS
      <3>2. opened = [k \in Key |-> opened[k]]
        OBVIOUS
      <3> HIDE DEF opened
      <3> QED
        BY <3>1, <3>2, TransfersFrom
    <2>3. FilesAfterPurge(transfer) \subseteq ChunkFile
      BY DEF FilesAfterPurge, ServerTypes
    <2> QED
      BY <2>1, <2>2, <2>3 DEF ServerTypes
  <1>6. ASSUME NEW f \in ChunkFile, PutResumableBlobChunk(d, f) PROVE ServerTypes'
    <2>1. f[1] \in Key /\ f[2] \in ChunksOf[f[1][2]] /\ f[2] \in SomeChunks
      BY DEF ChunkFile, SomeChunks
    <2> DEFINE old == transfer[f[1]]
               t   == [old EXCEPT !.recorded = old.recorded \cup {f[2]},
                                  !.filed = old.filed \cup {f[2]}]
    <2>2. /\ t \in Transfer /\ t.filed \subseteq ChunksOf[f[1][2]]
          /\ t.recorded \subseteq ChunksOf[f[1][2]]
      BY <2>1 DEF ServerTypes, Transfer, ChunksAreOfBlob
    <2>3. transfer' = [transfer EXCEPT ![f[1]] = t]
      BY <1>6, <2>1 DEF PutResumableBlobChunk, ServerTypes
    <2> HIDE DEF t
    <2>4. transfer' \in [Key -> Transfer] /\ ChunksAreOfBlob(transfer')
      BY <2>1, <2>2, <2>3, TransferUpdated
    <2> QED
      BY <1>6, <2>4 DEF PutResumableBlobChunk, ServerTypes
  <1>7. ASSUME NEW f \in ChunkFile, ChunkRefused(d, f) PROVE ServerTypes'
    BY <1>7 DEF ChunkRefused, server, ServerTypes
  <1>8. CASE AllSent(d)
    BY <1>8 DEF AllSent, server, ServerTypes
  <1>9. CASE CompleteResumableBlobUpload(d)
    <2> DEFINE whole == Finalizable(d)
               rest  == [k \in Key |-> IF k[1] = d /\ k[2] \in whole
                                       THEN NoTransfer ELSE Purged(transfer)[k]]
    <2>1. /\ transfer' = rest
          /\ chunkFiles' = WithoutChunksOf(FilesAfterPurge(transfer), d, whole)
          /\ rewritten' = rewritten \ whole
          /\ UNCHANGED <<capability, barred, trouble>>
      BY <1>9, Zenon DEF CompleteResumableBlobUpload
    <2>2. rest \in [Key -> Transfer] /\ ChunksAreOfBlob(rest)
      <3>1. \A k \in Key : rest[k] \in {Purged(transfer)[k], NoTransfer}
        OBVIOUS
      <3>2. rest = [k \in Key |-> rest[k]]
        OBVIOUS
      <3> HIDE DEF rest
      <3> QED
        BY <3>1, <3>2, TransfersFrom
    <2>3. WithoutChunksOf(FilesAfterPurge(transfer), d, whole) \subseteq ChunkFile
      BY DEF WithoutChunksOf, FilesAfterPurge, ServerTypes
    <2> HIDE DEF whole, rest
    <2> QED
      BY <2>1, <2>2, <2>3 DEF ServerTypes
  <1>10. ASSUME NEW before \in SUBSET Payloads, CompleteCut(d, before) PROVE ServerTypes'
    <2>1. chunkFiles' \subseteq ChunkFile
      BY <1>10 DEF CompleteCut, WithoutChunksOf, FilesAfterPurge, ServerTypes
    <2>2. trouble' \in 0 .. MaxTrouble
      BY <1>10, TroubleCounts DEF CompleteCut, ItemRaises, ServerTypes
    <2>3. UNCHANGED <<rewritten, capability, transfer, barred>>
      BY <1>10 DEF CompleteCut
    <2> QED
      BY <2>1, <2>2, <2>3 DEF ServerTypes
  <1> QED
    BY <1>1, <1>2, <1>3, <1>4, <1>5, <1>6, <1>7, <1>8, <1>9, <1>10 DEF Upload

LEMMA ServerTypesStep == TransferInv /\ ServerTypes /\ [TNext]_tvars => ServerTypes'
  <1> SUFFICES ASSUME TransferInv, ServerTypes, [TNext]_tvars PROVE ServerTypes'
    OBVIOUS
  <1>1. ASSUME NEW d \in Uploaders, NEW b \in Payloads, NEW w \in {"none", "torn", "whole"},
               BlobUploadCut(d, b, w)
        PROVE  ServerTypes'
    <2>1. trouble' \in 0 .. MaxTrouble
      BY <1>1, TroubleCounts DEF BlobUploadCut
    <2> QED
      BY <1>1, <2>1 DEF BlobUploadCut, ServerTypes
  <1>2. ASSUME NEW d \in Uploaders, NEW f \in ChunkFile, ChunkCut(d, f) PROVE ServerTypes'
    <2>1. trouble' \in 0 .. MaxTrouble
      BY <1>2, TroubleCounts DEF ChunkCut
    <2> QED
      BY <1>2, <2>1 DEF ChunkCut, ServerTypes
  <1>3. ASSUME NEW d \in Uploaders, AnswerLost(d) PROVE ServerTypes'
    <2>1. trouble' \in 0 .. MaxTrouble
      BY <1>3, TroubleCounts DEF AnswerLost
    <2> QED
      BY <1>3, <2>1 DEF AnswerLost, server, ServerTypes
  <1>4. ASSUME NEW d \in Uploaders, BarDevice(d) PROVE ServerTypes'
    <2> DEFINE rest == [k \in Key |-> IF k[1] = d THEN NoTransfer ELSE transfer[k]]
    <2>1. rest \in [Key -> Transfer] /\ ChunksAreOfBlob(rest)
      <3>1. \A k \in Key : rest[k] \in {transfer[k], NoTransfer}
        OBVIOUS
      <3>2. rest = [k \in Key |-> rest[k]]
        OBVIOUS
      <3> HIDE DEF rest
      <3> QED
        BY <3>1, <3>2, TransfersFrom
    <2>2. transfer' = rest /\ UNCHANGED <<rewritten, trouble>>
      BY <1>4 DEF BarDevice
    <2>3. capability' \subseteq Capability /\ chunkFiles' \subseteq ChunkFile
          /\ barred' \subseteq Uploaders
      BY <1>4 DEF BarDevice, ServerTypes
    <2> HIDE DEF rest
    <2> QED
      BY <2>1, <2>2, <2>3 DEF ServerTypes
  <1>5. ASSUME NEW k \in Key, Expire(k) PROVE ServerTypes'
    <2> DEFINE t == [transfer[k] EXCEPT !.live = FALSE]
    <2>1. /\ t \in Transfer /\ t.filed \subseteq ChunksOf[k[2]]
          /\ t.recorded \subseteq ChunksOf[k[2]]
      BY DEF ServerTypes, Transfer, ChunksAreOfBlob
    <2>2. transfer' = [transfer EXCEPT ![k] = t]
      BY <1>5 DEF Expire
    <2> HIDE DEF t
    <2>3. transfer' \in [Key -> Transfer] /\ ChunksAreOfBlob(transfer')
      BY <2>1, <2>2, TransferUpdated
    <2>4. capability' \subseteq Capability
      <3>1. \A c \in capability : [c EXCEPT !.live = FALSE] \in Capability /\ c \in Capability
        BY DEF ServerTypes, Capability
      <3> QED
        BY <1>5, <3>1 DEF Expire
    <2>5. trouble' \in 0 .. MaxTrouble
      BY <1>5, TroubleCounts DEF Expire, ServerTypes
    <2>6. UNCHANGED <<rewritten, chunkFiles, barred>>
      BY <1>5 DEF Expire
    <2> QED
      BY <2>3, <2>4, <2>5, <2>6 DEF ServerTypes
  <1>6. CASE UNCHANGED tvars
    BY <1>6 DEF tvars, ServerTypes
  <1> QED
    BY <1>1, <1>2, <1>3, <1>4, <1>5, <1>6, SendingKeepsTypes DEF TNext

LEMMA TransferTypes == TransferInv /\ ServerTypes => TTypeOK
  BY DEF TransferInv, Shapes, ServerTypes, TTypeOK, Transfer, Capability, ChunksAreOfBlob

-----------------------------------------------------------------------------
(* Types of the panel and its worker                                       *)

SeenByJob == [row : Rows, copies : SUBSET Artifacts, differs : BOOLEAN]
Steps == {"idle", "look", "recover", "recover-pull-apply", "pull", "pull write", "pull stage",
          "pull finish", "pull clean", "apply clean", "submit", "submit lock", "submit finish",
          "resolve", "resolve filemap", "resolve row"}
Job == [at : Steps, seen : SeenByJob, pulled : BOOLEAN]
Loop == [left : 0 .. Iterations, good : BOOLEAN, bad : BOOLEAN]
Healths == {"none", "healthy", "degraded", "failing"}

\* A worker that does something has an iteration left.
JobsAreSound ==
    /\ job \in [Actors -> Job]
    /\ loop \in Loop
    /\ job["worker"].at # "idle" => loop.left > 0
    /\ health \in Healths

\* A plan that cannot be carried out is one there is a journal of.
VaultTypes ==
    /\ applying \in BOOLEAN /\ broken \in BOOLEAN /\ (broken => applying)
    /\ leftovers \in BOOLEAN
    /\ intent \in {"none", "prepared", "submitted"}
    /\ row \in Rows
    /\ copies \subseteq Artifacts /\ orphans \subseteq Artifacts
    /\ changed \in BOOLEAN /\ ahead \in BOOLEAN /\ differs \in BOOLEAN
    /\ overtaken \subseteq Actors
    /\ mishaps \in 0 .. MaxMishaps

PanelTypes == JobsAreSound /\ VaultTypes

LEMMA PanelIsTyped == PanelTypes => YTypeOK
  BY DEF PanelTypes, JobsAreSound, VaultTypes, YTypeOK, Job, SeenByJob, Loop, Healths

LEMMA RowOf ==
    ASSUME NEW c \in BOOLEAN, NEW u \in BOOLEAN, NEW v \in BOOLEAN
    PROVE  [commit_in_progress |-> c, has_unresolved_conflicts |-> u, valid |-> v] \in Rows
  BY DEF Rows

LEMMA RowWith ==
    ASSUME NEW r \in Rows, NEW b \in BOOLEAN
    PROVE  /\ [r EXCEPT !.commit_in_progress = b] \in Rows
           /\ [r EXCEPT !.has_unresolved_conflicts = b] \in Rows
           /\ [r EXCEPT !.valid = b] \in Rows
  BY DEF Rows

LEMMA FreshRowIsOne == FreshRow \in Rows
  BY DEF FreshRow, Rows

LEMMA NothingIsOne == Nothing \in SeenByJob
  <1> DEFINE r == FreshRow
  <1>1. r \in Rows /\ {} \in SUBSET Artifacts
    BY FreshRowIsOne
  <1>2. Nothing = [row |-> r, copies |-> {}, differs |-> FALSE]
    BY DEF Nothing
  <1> HIDE DEF r
  <1> QED
    BY <1>1, <1>2 DEF SeenByJob

LEMMA RestingIsOne == Resting \in Job /\ Resting.at = "idle"
  BY NothingIsOne DEF Resting, Job, Steps

LEMMA NewLoopIsOne == NewLoop \in Loop /\ NewLoop.left = Iterations
  <1>1. Iterations \in 0 .. Iterations
    BY IterationsIsNat
  <1> QED
    BY <1>1 DEF NewLoop, Loop

LEMMA JobChanged ==
    ASSUME JobsAreSound, NEW a \in Actors, NEW j \in Job, job' = [job EXCEPT ![a] = j],
           loop' \in Loop, health' \in Healths,
           a = "worker" /\ j.at # "idle" => loop'.left > 0,
           a # "worker" => loop'.left = loop.left
    PROVE  JobsAreSound'
  <1>1. job' \in [Actors -> Job]
    BY DEF JobsAreSound
  <1>2. job'["worker"].at # "idle" => loop'.left > 0
    <2>1. "worker" \in Actors
      BY DEF Actors
    <2>2. CASE a = "worker"
      BY <2>1, <2>2 DEF JobsAreSound
    <2>3. CASE a # "worker"
      BY <2>1, <2>3 DEF JobsAreSound
    <2> QED
      BY <2>2, <2>3
  <1> QED
    BY <1>1, <1>2 DEF JobsAreSound

LEMMA ProceedSound ==
    ASSUME JobsAreSound, NEW a \in Actors, NEW step \in Steps, NEW seen \in SeenByJob,
           Proceed(a, step, seen), a = "worker" => loop.left > 0
    PROVE  JobsAreSound'
  <1> DEFINE j == [job[a] EXCEPT !.at = step, !.seen = seen]
  <1>1. j \in Job
    BY DEF JobsAreSound, Job
  <1>2. job' = [job EXCEPT ![a] = j] /\ loop' = loop /\ health' = health
    BY DEF Proceed, worker
  <1> HIDE DEF j
  <1>3. loop \in Loop /\ health \in Healths
    BY DEF JobsAreSound
  <1> QED
    BY <1>1, <1>2, <1>3, JobChanged

LEMMA GotoSound ==
    ASSUME JobsAreSound, NEW a \in Actors, NEW step \in Steps, Goto(a, step),
           a = "worker" => loop.left > 0
    PROVE  JobsAreSound'
  BY NothingIsOne, ProceedSound DEF Goto

\* What was read of the vault may be remembered.
LEMMA SeenWith ==
    ASSUME NEW r \in Rows, NEW v \in BOOLEAN, NEW c \in SUBSET Artifacts, NEW n \in BOOLEAN
    PROVE  /\ [Nothing EXCEPT !.row = r] \in SeenByJob
           /\ [Nothing EXCEPT !.copies = c] \in SeenByJob
           /\ [Nothing EXCEPT !.differs = n] \in SeenByJob
           /\ [Nothing EXCEPT !.row = r, !.copies = c] \in SeenByJob
           /\ [Nothing EXCEPT !.row.valid = v, !.copies = c, !.differs = n] \in SeenByJob
  <1>1. Nothing \in SeenByJob
    BY NothingIsOne
  <1>2. [Nothing.row EXCEPT !.valid = v] \in Rows
    BY <1>1 DEF SeenByJob, Rows
  <1> QED
    BY <1>1, <1>2 DEF SeenByJob

LEMMA ReadingSound ==
    ASSUME PanelTypes, NEW a \in Actors, NEW step \in Steps, Reading(a, step),
           a = "worker" => loop.left > 0
    PROVE  JobsAreSound'
  <1>1. Load \in SeenByJob
    BY SeenWith DEF PanelTypes, VaultTypes, Load
  <1> QED
    BY <1>1, ProceedSound DEF Reading, PanelTypes

LEMMA CountedIsOne ==
    ASSUME JobsAreSound, NEW ok \in BOOLEAN, loop.left > 0
    PROVE  Counted(ok) \in Loop
  <1>1. /\ loop.left \in 0 .. Iterations /\ loop.good \in BOOLEAN /\ loop.bad \in BOOLEAN
    BY DEF JobsAreSound, Loop
  <1>2. loop.left - 1 \in 0 .. Iterations
    BY <1>1, IterationsIsNat
  <1> DEFINE g == loop.good \/ ok
             b == loop.bad \/ ~ok
  <1>3. g \in BOOLEAN /\ b \in BOOLEAN
    OBVIOUS
  <1>4. Counted(ok) = [left |-> loop.left - 1, good |-> g, bad |-> b]
    BY DEF Counted
  <1> HIDE DEF g, b
  <1> QED
    BY <1>2, <1>3, <1>4 DEF Loop

LEMMA RestSound ==
    ASSUME JobsAreSound, NEW a \in Actors, job' = Rest(a), loop' \in Loop, health' = health,
           a # "worker" => loop' = loop
    PROVE  JobsAreSound'
  <1>1. job' = [job EXCEPT ![a] = Resting]
    BY DEF Rest
  <1> QED
    BY <1>1, RestingIsOne, JobChanged DEF JobsAreSound

LEMMA RaiseSound ==
    ASSUME JobsAreSound, NEW a \in Actors, ~Stage(a, "idle"), Raise(a)
    PROVE  JobsAreSound'
  <1>1. CASE a = "worker"
    <2>1. loop.left > 0
      BY <1>1 DEF JobsAreSound, Stage
    <2>2. loop' = Counted(FALSE) /\ job' = Rest(a) /\ health' = health
      BY <1>1 DEF Raise
    <2> QED
      BY <1>1, <2>1, <2>2, CountedIsOne, RestSound
  <1>2. CASE a # "worker"
    BY <1>2, RestSound DEF Raise, JobsAreSound
  <1> QED
    BY <1>1, <1>2

LEMMA FollowingIsStage ==
    ASSUME NEW a, NEW valid PROVE Following(a, valid) \in Steps
  <1> DEFINE first  == Stage(a, "recover")
             second == job[a].at \in {"recover-pull-apply", "apply clean"}
             pulls  == job[a].at \in {"pull stage", "pull clean"}
  <1>1. Following(a, valid)
           = CASE first -> "recover-pull-apply"
               [] second -> IF PullsFirst(a, valid) THEN "pull" ELSE "submit"
               [] pulls -> IF job[a].pulled THEN "submit" ELSE "idle"
               [] OTHER -> IF job[a].pulled THEN "idle" ELSE "pull"
    BY DEF Following
  <1>2. ~(first /\ second) /\ ~(first /\ pulls) /\ ~(second /\ pulls)
    BY DEF Stage
  <1> HIDE DEF first, second, pulls
  <1>3. CASE first
    BY <1>1, <1>2, <1>3 DEF Steps
  <1>4. CASE second
    BY <1>1, <1>2, <1>4 DEF Steps
  <1>5. CASE pulls
    BY <1>1, <1>2, <1>5 DEF Steps
  <1>6. CASE ~first /\ ~second /\ ~pulls
    BY <1>1, <1>6 DEF Steps
  <1> QED
    BY <1>3, <1>4, <1>5, <1>6

LEMMA DoneSound ==
    ASSUME JobsAreSound, NEW a \in Actors, NEW valid \in BOOLEAN, ~Stage(a, "idle"), Done(a, valid)
    PROVE  JobsAreSound'
  <1>1. CASE a = "worker" /\ Following(a, valid) # "idle"
    <2> DEFINE f == Following(a, valid)
               p == PullsFirst(a, valid)
               j == [at |-> f, seen |-> Nothing, pulled |-> p]
    <2>1. f \in Steps
      BY FollowingIsStage
    <2>2. p \in BOOLEAN
      BY DEF JobsAreSound, Job, PullsFirst
    <2>3. job' = [job EXCEPT ![a] = j]
      BY <1>1 DEF Done
    <2> HIDE DEF f, p
    <2>4. j \in Job
      BY <2>1, <2>2, NothingIsOne DEF Job
    <2> HIDE DEF j
    <2>5. loop' = loop /\ health' = health
      BY <1>1 DEF Done, worker
    <2>6. loop.left > 0
      BY <1>1 DEF JobsAreSound, Stage
    <2> QED
      BY <1>1, <2>3, <2>4, <2>5, <2>6, JobChanged DEF JobsAreSound
  <1>2. CASE ~(a = "worker" /\ Following(a, valid) # "idle")
    <2>1. job' = Rest(a) /\ health' = health
          /\ loop' = IF a = "worker" THEN Counted(TRUE) ELSE loop
      BY <1>2 DEF Done
    <2>2. CASE a = "worker"
      <3>1. loop.left > 0
        BY <2>2 DEF JobsAreSound, Stage
      <3> QED
        BY <2>1, <2>2, <3>1, CountedIsOne, RestSound
    <2>3. CASE a # "worker"
      BY <2>1, <2>3, RestSound DEF JobsAreSound
    <2> QED
      BY <2>2, <2>3
  <1> QED
    BY <1>1, <1>2

LEMMA AtWork ==
    ASSUME JobsAreSound, NEW a \in Actors, NEW step, Stage(a, step), step # "idle"
    PROVE  ~Stage(a, "idle") /\ (a = "worker" => loop.left > 0)
  BY DEF JobsAreSound, Stage

LEMMA SeenTypes ==
    ASSUME JobsAreSound, NEW a \in Actors
    PROVE  /\ job[a].seen \in SeenByJob
           /\ job[a].seen.row \in Rows /\ job[a].seen.copies \subseteq Artifacts
           /\ job[a].seen.differs \in BOOLEAN
  BY DEF JobsAreSound, Job, SeenByJob

LEMMA MishapCounts == ASSUME VaultTypes, Mishap PROVE mishaps' \in 0 .. MaxMishaps
  BY MaxMishapsIsNat DEF Mishap, VaultTypes

LEMMA PromoteTypes ==
    ASSUME VaultTypes, NEW seen, seen.row \in Rows, Promote(seen) PROVE row' \in Rows
  BY RowWith DEF Promote, VaultTypes

LEMMA UnlockedTypes ==
    ASSUME VaultTypes, NEW valid \in BOOLEAN PROVE Unlocked(valid) \in Rows
  BY DEF Unlocked, VaultTypes, Rows

LEMMA PanelTypesInit == YInit => PanelTypes
  <1> SUFFICES ASSUME YInit PROVE PanelTypes
    OBVIOUS
  <1>1. row \in Rows /\ copies \subseteq Artifacts /\ orphans \subseteq Artifacts /\ ahead \in BOOLEAN
    <2>1. CASE Imported
      <3> DEFINE u == copies \cup orphans # {}
      <3>1. row = [FreshRow EXCEPT !.valid = FALSE, !.has_unresolved_conflicts = u]
        BY <2>1 DEF Imported
      <3>2. u \in BOOLEAN
        OBVIOUS
      <3> HIDE DEF u
      <3>3. row \in Rows
        BY <3>1, <3>2, FreshRowIsOne DEF Rows
      <3> QED
        BY <2>1, <3>3 DEF Imported
    <2>2. CASE Initialized
      BY <2>2, FreshRowIsOne DEF Initialized
    <2> QED
      BY <2>1, <2>2 DEF YInit
  <1>2. JobsAreSound
    <2>1. \A a \in Actors : job[a] = Resting
      BY DEF YInit
    <2>2. job \in [Actors -> Job] /\ job["worker"].at = "idle"
      BY <2>1, RestingIsOne DEF YInit, Actors
    <2> QED
      BY <2>2, NewLoopIsOne DEF YInit, JobsAreSound, Healths
  <1>3. /\ applying = FALSE /\ broken = FALSE /\ leftovers = FALSE /\ intent = "none"
        /\ changed \in BOOLEAN /\ differs \in BOOLEAN /\ overtaken = {} /\ mishaps = 0
    BY Zenon DEF YInit
  <1>4. 0 \in 0 .. MaxMishaps
    BY MaxMishapsIsNat
  <1> QED
    BY <1>1, <1>2, <1>3, <1>4 DEF PanelTypes, VaultTypes

LEMMA ConflictsTypes ==
    ASSUME VaultTypes, NEW r \in Rows, ConflictsAppear(r)
    PROVE  row' \in Rows /\ copies' \subseteq Artifacts /\ orphans' \subseteq Artifacts
  <1>1. CASE UNCHANGED conflicts /\ row' = r
    BY <1>1 DEF VaultTypes, conflicts
  <1>2. CASE \E x \in Artifacts :
                /\ \/ copies' = copies \cup {x} /\ UNCHANGED orphans
                   \/ orphans' = orphans \cup {x} /\ UNCHANGED copies
                /\ row' = [r EXCEPT !.has_unresolved_conflicts = TRUE]
    BY <1>2, RowWith DEF VaultTypes
  <1> QED
    BY <1>1, <1>2 DEF ConflictsAppear

LEMMA RecoveriesKeepTypes ==
    ASSUME PanelTypes, NEW a \in Actors,
           RecoverCommit(a) \/ RecoverOrphaned(a) \/ RecoverPullApply(a) \/ CleanUp(a)
    PROVE  PanelTypes'
  <1>0. JobsAreSound /\ VaultTypes
    BY DEF PanelTypes
  <1>1. CASE RecoverCommit(a)
    <2>1. PICK valid \in BOOLEAN : row' = Unlocked(valid) /\ \E b \in BOOLEAN : Done(a, b)
      <3>1. row.valid \in BOOLEAN
        BY <1>0 DEF VaultTypes, Rows
      <3>2. CASE intent = "submitted"
        BY <1>1, <3>1, <3>2 DEF RecoverCommit
      <3>3. CASE intent # "submitted"
        BY <1>1, <3>1, <3>3 DEF RecoverCommit
      <3> QED
        BY <3>2, <3>3
    <2>2. ~Stage(a, "idle")
      BY <1>0, <1>1, AtWork DEF RecoverCommit
    <2>3. JobsAreSound'
      BY <1>0, <2>1, <2>2, DoneSound
    <2>4. VaultTypes'
      BY <1>0, <1>1, <2>1, UnlockedTypes DEF RecoverCommit, VaultTypes, apply, conflicts, world
    <2> QED
      BY <2>3, <2>4 DEF PanelTypes
  <1>2. CASE RecoverOrphaned(a)
    <2>1. ~Stage(a, "idle")
      BY <1>0, <1>2, AtWork DEF RecoverOrphaned
    <2>2. JobsAreSound'
      <3>1. (~leftovers) \in BOOLEAN /\ Done(a, ~leftovers)
        BY <1>2 DEF RecoverOrphaned
      <3> QED
        BY <1>0, <2>1, <3>1, DoneSound
    <2>3. row' \in Rows
      <3> DEFINE v == row.valid /\ ~leftovers
      <3>1. row' = [row EXCEPT !.valid = v]
        BY <1>2 DEF RecoverOrphaned
      <3>2. v \in BOOLEAN /\ row \in Rows
        BY <1>0 DEF VaultTypes, Rows
      <3> HIDE DEF v
      <3> QED
        BY <3>1, <3>2, RowWith
    <2>4. leftovers' = FALSE /\ UNCHANGED <<applying, broken, intent, conflicts, world, mishaps>>
      BY <1>2 DEF RecoverOrphaned
    <2>5. VaultTypes'
      BY <1>0, <2>3, <2>4 DEF VaultTypes, conflicts, world
    <2> QED
      BY <2>2, <2>5 DEF PanelTypes
  <1>3. CASE RecoverPullApply(a)
    <2>1. a = "worker" => loop.left > 0
      BY <1>0, <1>3, AtWork DEF RecoverPullApply
    <2>2. row' \in Rows /\ copies' \subseteq Artifacts /\ orphans' \subseteq Artifacts
      <3>1. [row EXCEPT !.valid = TRUE] \in Rows /\ [row EXCEPT !.valid = FALSE] \in Rows
        BY <1>0, RowWith DEF VaultTypes
      <3>2. CASE row' = [row EXCEPT !.valid = FALSE] /\ UNCHANGED conflicts
        BY <1>0, <3>1, <3>2 DEF VaultTypes, conflicts
      <3>3. CASE ConflictsAppear([row EXCEPT !.valid = TRUE])
        BY <1>0, <3>1, <3>3, ConflictsTypes
      <3> QED
        BY <1>3, <3>2, <3>3 DEF RecoverPullApply
    <2>3. JobsAreSound'
      <3> DEFINE p == job[a].pulled \/ (a = "worker" /\ ~row'.valid)
                 j == [job[a] EXCEPT !.at = "apply clean", !.pulled = p]
      <3>1. p \in BOOLEAN
        BY <1>0, <2>2 DEF JobsAreSound, Job, Rows
      <3>2. job' = [job EXCEPT ![a] = j] /\ loop' = loop /\ health' = health
        BY <1>3 DEF RecoverPullApply, worker
      <3> HIDE DEF p
      <3>3. j \in Job
        BY <1>0, <3>1 DEF JobsAreSound, Job, Steps
      <3> HIDE DEF j
      <3> QED
        BY <1>0, <2>1, <3>2, <3>3, JobChanged DEF JobsAreSound
    <2>4. /\ applying' = FALSE /\ broken' = FALSE /\ leftovers' = TRUE
          /\ UNCHANGED <<intent, world, mishaps>>
      BY <1>3 DEF RecoverPullApply
    <2>5. VaultTypes'
      BY <1>0, <2>2, <2>4 DEF VaultTypes, world
    <2> QED
      BY <2>3, <2>5 DEF PanelTypes
  <1>4. CASE CleanUp(a)
    <2>1. ~Stage(a, "idle")
      BY <1>4 DEF CleanUp, Stage
    <2>2. JobsAreSound'
      BY <1>0, <1>4, <2>1, DoneSound DEF CleanUp
    <2>3. /\ leftovers' = FALSE /\ broken' \in {broken, applying}
          /\ UNCHANGED <<applying, intent, row, conflicts, world, mishaps>>
      BY <1>4 DEF CleanUp
    <2>4. broken' \in BOOLEAN /\ (broken' => applying')
      BY <1>0, <2>3 DEF VaultTypes
    <2>5. VaultTypes'
      BY <1>0, <2>3, <2>4 DEF VaultTypes, conflicts, world
    <2> QED
      BY <2>2, <2>5 DEF PanelTypes
  <1> QED
    BY <1>1, <1>2, <1>3, <1>4

LEMMA PullsKeepTypes ==
    ASSUME PanelTypes, NEW a \in Actors, Pull(a) \/ PullWrite(a) \/ PullStage(a) \/ PullFinish(a)
    PROVE  PanelTypes'
  <1>0. JobsAreSound /\ VaultTypes
    BY DEF PanelTypes
  <1>s. "pull write" \in Steps /\ "pull stage" \in Steps /\ "pull finish" \in Steps
        /\ "pull clean" \in Steps
    BY DEF Steps
  <1>1. CASE Pull(a)
    <2>1. ~Stage(a, "idle") /\ (a = "worker" => loop.left > 0)
      BY <1>0, <1>1, AtWork DEF Pull
    <2>2. JobsAreSound'
      <3> DEFINE seen == [Nothing EXCEPT !.row.valid = row.valid, !.copies = copies,
                                         !.differs = differs]
      <3>1. Raise(a) \/ Proceed(a, "pull write", seen)
        BY <1>1 DEF Pull
      <3>2. row \in Rows /\ row.valid \in BOOLEAN /\ copies \in SUBSET Artifacts
            /\ differs \in BOOLEAN
        BY <1>0 DEF VaultTypes, Rows
      <3>3. seen \in SeenByJob
        BY <3>2, SeenWith
      <3> HIDE DEF seen
      <3> QED
        BY <1>0, <1>s, <2>1, <3>1, <3>3, RaiseSound, ProceedSound
    <2>3. VaultTypes'
      BY <1>0, <1>1 DEF Pull, VaultTypes, apply, conflicts
    <2> QED
      BY <2>2, <2>3 DEF PanelTypes
  <1>2. CASE PullWrite(a)
    <2>1. ~Stage(a, "idle") /\ (a = "worker" => loop.left > 0)
      BY <1>0, <1>2, AtWork DEF PullWrite
    <2>2. JobsAreSound'
      <3> DEFINE seen == [Nothing EXCEPT !.differs = job[a].seen.differs]
      <3>1. Proceed(a, "pull stage", seen) \/ Raise(a)
        BY <1>2 DEF PullWrite
      <3>2. seen \in SeenByJob
        BY <1>0, SeenTypes, SeenWith, FreshRowIsOne
      <3> HIDE DEF seen
      <3> QED
        BY <1>0, <1>s, <2>1, <3>1, <3>2, RaiseSound, ProceedSound
    <2>3. row' \in Rows /\ copies' \subseteq Artifacts
      <3>1. row' \in {row, [row EXCEPT !.valid = TRUE]} /\ copies' \in {copies, job[a].seen.copies}
        BY <1>2 DEF PullWrite
      <3> QED
        BY <1>0, <3>1, SeenTypes, RowWith DEF VaultTypes
    <2>4. /\ ahead' \in {ahead, FALSE} /\ differs' \in {differs, FALSE}
          /\ overtaken' \subseteq overtaken \cup Actors
          /\ UNCHANGED <<apply, intent, orphans, changed, mishaps>>
      BY <1>2 DEF PullWrite, Pulling
    <2>5. VaultTypes'
      BY <1>0, <2>3, <2>4 DEF VaultTypes, apply
    <2> QED
      BY <2>2, <2>5 DEF PanelTypes
  <1>3. CASE PullStage(a)
    <2>1. ~Stage(a, "idle") /\ (a = "worker" => loop.left > 0)
      BY <1>0, <1>3, AtWork DEF PullStage
    <2>2. JobsAreSound'
      <3>1. Raise(a) \/ Done(a, TRUE) \/ Goto(a, "pull finish")
        BY <1>3 DEF PullStage
      <3> QED
        BY <1>0, <1>s, <2>1, <3>1, RaiseSound, GotoSound, DoneSound
    <2>3. /\ applying' = applying \/ applying' = TRUE
          /\ leftovers' \in {leftovers, FALSE}
          /\ UNCHANGED <<broken, intent, row, conflicts, world, mishaps>>
      BY <1>3 DEF PullStage
    <2>4. applying' \in BOOLEAN /\ leftovers' \in BOOLEAN
      BY <1>0, <2>3 DEF VaultTypes
    <2>5. broken' \in BOOLEAN /\ (broken' => applying')
      <3>1. broken' = broken
        BY <2>3
      <3> QED
        BY <1>0, <2>3, <3>1 DEF VaultTypes
    <2>6. VaultTypes'
      BY <1>0, <2>3, <2>4, <2>5 DEF VaultTypes, conflicts, world
    <2> QED
      BY <2>2, <2>6 DEF PanelTypes
  <1>4. CASE PullFinish(a)
    <2>1. ~Stage(a, "idle") /\ (a = "worker" => loop.left > 0)
      BY <1>0, <1>4, AtWork DEF PullFinish
    <2>2. JobsAreSound'
      <3>1. Raise(a) \/ Goto(a, "pull clean")
        BY <1>4 DEF PullFinish
      <3> QED
        BY <1>0, <1>s, <2>1, <3>1, RaiseSound, GotoSound
    <2>3. row' \in Rows /\ copies' \subseteq Artifacts /\ orphans' \subseteq Artifacts
      <3>1. [row EXCEPT !.valid = TRUE] \in Rows /\ row \in Rows
        BY <1>0, RowWith DEF VaultTypes
      <3>2. ConflictsAppear([row EXCEPT !.valid = TRUE]) \/ ConflictsAppear(row)
        BY <1>4 DEF PullFinish
      <3> QED
        BY <1>0, <3>1, <3>2, ConflictsTypes
    <2>4. /\ applying' \in BOOLEAN /\ leftovers' \in BOOLEAN /\ (broken => applying')
          /\ UNCHANGED <<broken, intent, world, mishaps>>
      BY <1>0, <1>4 DEF PullFinish, VaultTypes
    <2>5. VaultTypes'
      BY <1>0, <2>3, <2>4 DEF VaultTypes, world
    <2> QED
      BY <2>2, <2>5 DEF PanelTypes
  <1> QED
    BY <1>1, <1>2, <1>3, <1>4

LEMMA SubmitsKeepTypes ==
    ASSUME PanelTypes, NEW a \in Actors,
           Submit(a) \/ SubmitLock(a) \/ SubmitFinish(a) \/ LockCut(a)
    PROVE  PanelTypes'
  <1>0. JobsAreSound /\ VaultTypes
    BY DEF PanelTypes
  <1>1. CASE Submit(a)
    <2>1. ~Stage(a, "idle") /\ (a = "worker" => loop.left > 0)
      BY <1>0, <1>1, AtWork DEF Submit
    <2>2. JobsAreSound'
      <3>1. Reading(a, "submit lock") \/ Done(a, TRUE)
        BY <1>1 DEF Submit
      <3>2. "submit lock" \in Steps
        BY DEF Steps
      <3> QED
        BY <1>0, <2>1, <3>1, <3>2, DoneSound, ReadingSound
    <2>3. VaultTypes'
      BY <1>0, <1>1 DEF Submit, VaultTypes, apply, conflicts, world
    <2> QED
      BY <2>2, <2>3 DEF PanelTypes
  <1>2. CASE SubmitLock(a)
    <2>1. ~Stage(a, "idle") /\ (a = "worker" => loop.left > 0)
      BY <1>0, <1>2, AtWork DEF SubmitLock
    <2>2. JobsAreSound'
      <3> DEFINE seen == [Nothing EXCEPT !.copies = job[a].seen.copies]
      <3>1. Raise(a) \/ Proceed(a, "submit finish", seen)
        BY <1>2 DEF SubmitLock
      <3>2. "submit finish" \in Steps
        BY DEF Steps
      <3>3. seen \in SeenByJob
        BY <1>0, SeenTypes, SeenWith, FreshRowIsOne
      <3> HIDE DEF seen
      <3> QED
        BY <1>0, <2>1, <3>1, <3>2, <3>3, RaiseSound, ProceedSound
    <2>3. intent' \in {intent, "submitted"}
      BY <1>2 DEF SubmitLock
    <2>4. row' \in Rows
      <3>1. \/ row' = row \/ Promote(job[a].seen)
            \/ row' = [job[a].seen.row EXCEPT !.commit_in_progress = TRUE]
        BY <1>2 DEF SubmitLock
      <3>2. job[a].seen.row \in Rows
        BY <1>0, SeenTypes
      <3>3. row \in Rows
        BY <1>0 DEF VaultTypes
      <3> QED
        BY <1>0, <3>1, <3>2, <3>3, PromoteTypes, RowWith
    <2>5. VaultTypes'
      BY <1>0, <1>2, <2>3, <2>4 DEF SubmitLock, VaultTypes, apply, conflicts, world
    <2> QED
      BY <2>2, <2>5 DEF PanelTypes
  <1>3. CASE SubmitFinish(a)
    <2>1. ~Stage(a, "idle")
      BY <1>0, <1>3, AtWork DEF SubmitFinish
    <2>2. JobsAreSound'
      <3>1. (~ahead) \in BOOLEAN
        OBVIOUS
      <3>2. Raise(a) \/ Done(a, ~ahead)
        BY <1>3 DEF SubmitFinish
      <3> QED
        BY <1>0, <2>1, <3>1, <3>2, RaiseSound, DoneSound
    <2>3. /\ row' \in Rows /\ intent' \in {intent, "none"} /\ ahead' \in {ahead, TRUE}
          /\ copies' \in {copies, job[a].seen.copies} /\ changed' \in {changed, FALSE}
          /\ differs' \in {differs, FALSE} /\ overtaken' \subseteq overtaken \cup Actors
      <3>1. CASE intent # "submitted"
        BY <1>0, <1>3, <3>1 DEF SubmitFinish, VaultTypes, Pulling
      <3>2. CASE intent = "submitted"
        <4>1. row' = Unlocked(~ahead)
          BY <1>3, <3>2 DEF SubmitFinish
        <4>2. row' \in Rows
          BY <1>0, <4>1, UnlockedTypes
        <4> QED
          BY <1>3, <3>2, <4>2 DEF SubmitFinish, Pulling
      <3> QED
        BY <3>1, <3>2
    <2>4. VaultTypes'
      BY <1>0, <1>3, <2>3, SeenTypes DEF SubmitFinish, VaultTypes, apply
    <2> QED
      BY <2>2, <2>4 DEF PanelTypes
  <1>4. CASE LockCut(a)
    <2>1. ~Stage(a, "idle")
      BY <1>0, <1>4, AtWork DEF LockCut
    <2>2. JobsAreSound'
      BY <1>0, <1>4, <2>1, RaiseSound DEF LockCut
    <2>3. row' \in Rows
      BY <1>0, <1>4, SeenTypes, RowWith DEF LockCut, VaultTypes
    <2>4. mishaps' \in 0 .. MaxMishaps
      BY <1>0, <1>4, MishapCounts DEF LockCut
    <2>5. VaultTypes'
      BY <1>0, <1>4, <2>3, <2>4 DEF LockCut, VaultTypes, apply, conflicts, world
    <2> QED
      BY <2>2, <2>5 DEF PanelTypes
  <1> QED
    BY <1>1, <1>2, <1>3, <1>4

LEMMA PanelKeepsTypes ==
    ASSUME PanelTypes,
           \/ StartCycle \/ EndLoop \/ OpenPanel \/ ClosePanel
           \/ \E command \in Remedies \cup {"submit"} : Choose(command)
           \/ Resolve \/ ResolveFilemap \/ ResolveRow
    PROVE  PanelTypes'
  <1>0. JobsAreSound /\ VaultTypes /\ "panel" \in Actors /\ "worker" \in Actors
    BY DEF PanelTypes, Actors
  <1>s. /\ "recover" \in Steps /\ "look" \in Steps /\ "idle" \in Steps
        /\ "resolve filemap" \in Steps /\ "resolve row" \in Steps
        /\ Remedies \cup {"submit"} \subseteq Steps
    BY DEF Steps, Remedies
  <1>p. "panel" # "worker"
    OBVIOUS
  <1>1. CASE StartCycle
    <2>1. JobsAreSound'
      BY <1>0, <1>s, <1>1, GotoSound DEF StartCycle
    <2>2. VaultTypes'
      BY <1>0, <1>1 DEF StartCycle, VaultTypes, apply, conflicts, world
    <2> QED
      BY <2>1, <2>2 DEF PanelTypes
  <1>2. CASE EndLoop
    <2>1. JobsAreSound'
      BY <1>0, <1>2, NewLoopIsOne DEF EndLoop, JobsAreSound, Healths, Stage
    <2>2. VaultTypes'
      BY <1>0, <1>2 DEF EndLoop, VaultTypes, apply, conflicts, world
    <2> QED
      BY <2>1, <2>2 DEF PanelTypes
  <1>3. CASE OpenPanel
    <2>1. JobsAreSound'
      BY <1>0, <1>s, <1>p, <1>3, ReadingSound DEF OpenPanel
    <2>2. VaultTypes'
      BY <1>0, <1>3 DEF OpenPanel, VaultTypes, apply, conflicts, world
    <2> QED
      BY <2>1, <2>2 DEF PanelTypes
  <1>4. ASSUME NEW step \in Steps, Promote(job["panel"].seen), Goto("panel", step),
               UNCHANGED <<apply, intent, conflicts, world, mishaps>>
        PROVE  PanelTypes'
    <2>1. JobsAreSound'
      BY <1>0, <1>p, <1>4, GotoSound
    <2>2. row' \in Rows
      BY <1>0, <1>4, SeenTypes, PromoteTypes
    <2>3. VaultTypes'
      BY <1>0, <1>4, <2>2 DEF VaultTypes, apply, conflicts, world
    <2> QED
      BY <2>1, <2>3 DEF PanelTypes
  <1>5. CASE ClosePanel
    BY <1>s, <1>4, <1>5 DEF ClosePanel
  <1>6. ASSUME NEW command \in Remedies \cup {"submit"}, Choose(command) PROVE PanelTypes'
    BY <1>s, <1>4, <1>6 DEF Choose
  <1>7. CASE Resolve
    <2>1. ~Stage("panel", "idle")
      BY <1>0, <1>7, AtWork DEF Resolve
    <2>2. JobsAreSound'
      <3> DEFINE seen == [Nothing EXCEPT !.row = row]
      <3>1. Raise("panel") \/ Proceed("panel", "resolve filemap", seen)
        BY <1>7 DEF Resolve
      <3>2. seen \in SeenByJob
        BY <1>0, SeenWith DEF VaultTypes
      <3> HIDE DEF seen
      <3> QED
        BY <1>0, <1>s, <1>p, <2>1, <3>1, <3>2, RaiseSound, ProceedSound
    <2>3. orphans' \in {orphans, {}}
      BY <1>7 DEF Resolve
    <2>4. VaultTypes'
      BY <1>0, <1>7, <2>3 DEF Resolve, VaultTypes, apply, world
    <2> QED
      BY <2>2, <2>4 DEF PanelTypes
  <1>8. CASE ResolveFilemap
    <2>1. JobsAreSound'
      BY <1>0, <1>s, <1>p, <1>8, SeenTypes, ProceedSound DEF ResolveFilemap
    <2>2. VaultTypes'
      BY <1>0, <1>8 DEF ResolveFilemap, VaultTypes, apply, world
    <2> QED
      BY <2>1, <2>2 DEF PanelTypes
  <1>9. CASE ResolveRow
    <2>1. ~Stage("panel", "idle")
      BY <1>0, <1>9, AtWork DEF ResolveRow
    <2>2. JobsAreSound'
      BY <1>0, <1>9, <2>1, DoneSound DEF ResolveRow
    <2>3. row' \in Rows
      <3> DEFINE left == orphans # {}
      <3>1. row' = row \/ row' = [job["panel"].seen.row EXCEPT !.has_unresolved_conflicts = left]
        BY <1>9 DEF ResolveRow
      <3>2. left \in BOOLEAN
        OBVIOUS
      <3>3. row \in Rows /\ job["panel"].seen.row \in Rows
        BY <1>0, SeenTypes DEF VaultTypes
      <3> HIDE DEF left
      <3> QED
        BY <3>1, <3>2, <3>3, RowWith
    <2>4. VaultTypes'
      BY <1>0, <1>9, <2>3 DEF ResolveRow, VaultTypes, apply, conflicts, world
    <2> QED
      BY <2>2, <2>4 DEF PanelTypes
  <1> QED
    BY <1>1, <1>2, <1>3, <1>5, <1>6, <1>7, <1>8, <1>9

LEMMA TroubleKeepsTypes ==
    ASSUME PanelTypes, NEW a \in Actors,
           Fails(a) \/ Kill(a) \/ NoteChanges \/ OthersCommit \/ UNCHANGED yvars
    PROVE  PanelTypes'
  <1>0. JobsAreSound /\ VaultTypes
    BY DEF PanelTypes
  <1>b. ASSUME LeavesApply(a), applying' = applying
        PROVE  broken' \in BOOLEAN /\ (broken' => applying') /\ leftovers' \in BOOLEAN
    BY <1>0, <1>b DEF LeavesApply, VaultTypes
  <1>1. CASE Fails(a)
    <2>1. ~Stage(a, "idle")
      BY <1>1 DEF Fails, Stage
    <2>2. JobsAreSound'
      BY <1>0, <1>1, <2>1, RaiseSound DEF Fails
    <2>3. row' \in Rows /\ intent' \in {intent, "none"}
      <3>1. row.valid \in BOOLEAN /\ row \in Rows
        BY <1>0 DEF VaultTypes, Rows
      <3>2. Unlocked(row.valid) \in Rows
        BY <1>0, <3>1, UnlockedTypes
      <3> QED
        BY <1>1, <3>1, <3>2 DEF Fails
    <2>4. mishaps' \in 0 .. MaxMishaps
      BY <1>0, <1>1, MishapCounts DEF Fails
    <2>5. broken' \in BOOLEAN /\ (broken' => applying') /\ leftovers' \in BOOLEAN
      BY <1>b, <1>1 DEF Fails
    <2>6. VaultTypes'
      BY <1>0, <1>1, <2>3, <2>4, <2>5 DEF Fails, VaultTypes, conflicts, world
    <2> QED
      BY <2>2, <2>6 DEF PanelTypes
  <1>2. CASE Kill(a)
    <2>1. JobsAreSound'
      <3>1. job' = Rest(a) /\ health' = health
            /\ loop' = IF a = "worker" THEN NewLoop ELSE loop
        BY <1>2 DEF Kill
      <3> QED
        BY <1>0, <3>1, NewLoopIsOne, RestSound DEF JobsAreSound
    <2>2. mishaps' \in 0 .. MaxMishaps
      BY <1>0, <1>2, MishapCounts DEF Kill
    <2>3. broken' \in BOOLEAN /\ (broken' => applying') /\ leftovers' \in BOOLEAN
      BY <1>b, <1>2 DEF Kill
    <2>4. VaultTypes'
      BY <1>0, <1>2, <2>2, <2>3 DEF Kill, VaultTypes, conflicts, world
    <2> QED
      BY <2>1, <2>4 DEF PanelTypes
  <1>3. CASE NoteChanges
    <2>1. mishaps' \in 0 .. MaxMishaps /\ differs' \in BOOLEAN
      BY <1>0, <1>3, MishapCounts DEF NoteChanges, VaultTypes
    <2> QED
      BY <1>3, <2>1 DEF NoteChanges, PanelTypes, JobsAreSound, VaultTypes, apply, conflicts, worker
  <1>4. CASE OthersCommit
    <2>1. mishaps' \in 0 .. MaxMishaps
      BY <1>0, <1>4, MishapCounts DEF OthersCommit
    <2> QED
      BY <1>4, <2>1 DEF OthersCommit, PanelTypes, JobsAreSound, VaultTypes, apply, conflicts, worker
  <1>5. CASE UNCHANGED yvars
    BY <1>5 DEF yvars, PanelTypes, JobsAreSound, VaultTypes, apply, conflicts, world, worker
  <1> QED
    BY <1>1, <1>2, <1>3, <1>4, <1>5

LEMMA PanelTypesStep == PanelTypes /\ [YNext]_yvars => PanelTypes'
  <1> SUFFICES ASSUME PanelTypes, [YNext]_yvars PROVE PanelTypes'
    OBVIOUS
  <1>1. "panel" \in Actors
    BY DEF Actors
  <1>2. ASSUME NEW a \in Actors, Commands(a) \/ LockCut(a) PROVE PanelTypes'
    BY <1>2, RecoveriesKeepTypes, PullsKeepTypes, SubmitsKeepTypes DEF Commands
  <1>3. ASSUME NEW a \in Actors, Fails(a) \/ Kill(a) PROVE PanelTypes'
    BY <1>3, TroubleKeepsTypes
  <1>4. CASE NoteChanges \/ OthersCommit \/ UNCHANGED yvars
    BY <1>1, <1>4, TroubleKeepsTypes
  <1> QED
    BY <1>2, <1>3, <1>4, PanelKeepsTypes DEF YNext

-----------------------------------------------------------------------------
(* Both                                                                    *)

ProgressTypes == TransferInv /\ ServerTypes /\ PanelTypes

\* Whatever is cut off, expired, killed or written back stale: both components keep
\* their types; a journal whose plan is broken is there, and a worker that is at work
\* has an iteration left.
THEOREM ProgressTypeCorrect == ProgressSpec => []ProgressTypeOK
  <1>1. ProgressInit => ProgressTypes
    BY TransferInit, ServerTypesInit, PanelTypesInit DEF ProgressInit, ProgressTypes
  <1>2. ProgressTypes /\ [ProgressNext /\ UNCHANGED part]_progressvars => ProgressTypes'
    <2>1. ASSUME [ProgressNext /\ UNCHANGED part]_progressvars
          PROVE  [TNext]_tvars /\ [YNext]_yvars
      BY <2>1 DEF ProgressNext, progressvars
    <2> QED
      BY <2>1, TransferStep, ServerTypesStep, PanelTypesStep DEF ProgressTypes
  <1>3. ProgressTypes => ProgressTypeOK
    BY TransferTypes, PanelIsTyped DEF ProgressTypes, ProgressTypeOK
  <1> QED
    BY <1>1, <1>2, <1>3, PTL DEF ProgressSpec
=============================================================================
