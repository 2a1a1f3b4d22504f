-------------------------- MODULE ContentSnapshot --------------------------
(***************************************************************************)
(* What exactly a commit publishes.  The client finds the changed notes,   *)
(* reads them, reads all notes once more and compares, stages plain and    *)
(* encrypted copies, uploads these, and posts the manifest.  Every read is *)
(* of one file, its time stamp is read after its bytes, and the user saves *)
(* in between; other devices commit, and their commits are pulled.         *)
(* Notes stay at their paths here (CommitSync adds, deletes and moves).    *)
(***************************************************************************)
EXTENDS Naturals

CONSTANTS Notes, Contents,
          Unhashed,     \* content_hash of a note that was never committed
          NoToken,      \* a record without source_version_token
          MaxMtime      \* bound: writes to the folder

ASSUME UnhashedIsNoContent == Unhashed \notin Contents
ASSUME MtimesAreNat == MaxMtime \in Nat
ASSUME NoTokenIsNone == NoToken \notin (0 .. MaxMtime) \X (Contents \cup {Unhashed})

VARIABLES onDisk,    \* bytes and mtime of each note; every write has an mtime of its own
          record,    \* filemap.json: content_hash, and meta["source_version_token"]
          attempt,   \* the commit that is being made
          journal,   \* commit_intent_journal.status
          plain,     \* staging/<file id>.snapshot.plain
          cipher,    \* staging/<blob id>.blob.staging
          head,      \* the head manifest of the backend
          blobs,     \* the blobs it has
          behind,    \* others have committed since the last pull
          killed,    \* the client died and nothing was cleaned up since
          mtime,     \* of the last write
          moments    \* every state of the folder since the attempt began

svars == <<onDisk, record, attempt, journal, plain, cipher, head, blobs, behind,
           killed, mtime, moments>>
backend == <<head, blobs, behind>>
staging == <<plain, cipher>>

Blank == [hash |-> Unhashed, token |-> NoToken]
NoAttempt == [at |-> "none", todo |-> {}, open |-> {}, modified |-> {},
              plan |-> [f \in Notes |-> Blank], bytes |-> [f \in Notes |-> Unhashed]]
NoPlain == [f \in Notes |-> Unhashed]
Folder == [f \in Notes |-> onDisk[f].bytes]
SourceToken(stamp, hash) == <<stamp, hash>>

\* Each note is new, or is as this device committed it.
SInit ==
    /\ onDisk \in [Notes -> [bytes : Contents, mtime : {0}]]
    /\ \E new \in SUBSET Notes :
          record = [f \in Notes |-> IF f \in new THEN Blank
                    ELSE [hash |-> onDisk[f].bytes, token |-> SourceToken(0, onDisk[f].bytes)]]
    /\ attempt = NoAttempt /\ journal = "none"
    /\ plain = NoPlain /\ cipher = {}
    /\ head = [f \in Notes |-> record[f].hash]
    /\ blobs = {record[f].hash : f \in Notes} \ {Unhashed}
    /\ behind = FALSE /\ killed = FALSE
    /\ mtime = 0
    /\ moments = {}

At(step) == attempt.at = step
Turn(step, todo) == attempt' = [attempt EXCEPT !.at = step, !.todo = todo]
Quit == attempt' = NoAttempt /\ moments' = {}

\* The user saves a note, maybe with the same bytes.
Save(f, c) ==
    /\ mtime < MaxMtime
    /\ mtime' = mtime + 1
    /\ onDisk' = [onDisk EXCEPT ![f] = [bytes |-> c, mtime |-> mtime + 1]]
    /\ moments' = IF At("none") THEN {} ELSE moments \cup {[Folder EXCEPT ![f] = c]}
    /\ UNCHANGED <<record, attempt, journal, staging, backend, killed>>

-----------------------------------------------------------------------------
(* Planning                                                                *)

\* submit_detected_changes_if_needed.
BeginCommit ==
    /\ At("none") \/ At("pulled")
    /\ attempt' = [NoAttempt EXCEPT !.at = "detect", !.todo = Notes]
    /\ moments' = {Folder}
    /\ UNCHANGED <<onDisk, record, journal, staging, backend, killed, mtime>>

\* detect_local_workspace_changes: by content alone.
Detect(f) ==
    /\ At("detect") /\ f \in attempt.todo
    /\ attempt' = [attempt EXCEPT !.todo = @ \ {f},
           !.modified = IF onDisk[f].bytes # record[f].hash THEN @ \cup {f} ELSE @]
    /\ UNCHANGED <<onDisk, record, journal, staging, backend, killed, mtime, moments>>

Detected ==
    /\ At("detect") /\ attempt.todo = {}
    /\ IF attempt.modified = {} THEN Quit ELSE Turn("read", Notes) /\ UNCHANGED moments
    /\ UNCHANGED <<onDisk, record, journal, staging, backend, killed, mtime>>

\* read_bytes; build_tracked_change_commit_plan and, a second time,
\* _load_workspace_content_for_records.
ReadBytes(f) ==
    /\ At("read") \/ At("reload")
    /\ attempt.open = {} /\ f \in attempt.todo
    /\ attempt' = [attempt EXCEPT !.open = {f}, !.bytes[f] = onDisk[f].bytes]
    /\ UNCHANGED <<onDisk, record, journal, staging, backend, killed, mtime, moments>>

\* A modified note gets the hash and token of what was read, any other keeps its
\* record, and must still have the content in it.
PlanRecord(f) ==
    LET read == attempt.bytes[f] IN
    /\ At("read") /\ f \in attempt.open
    /\ IF f \in attempt.modified \/ read = record[f].hash
       THEN /\ attempt' = [attempt EXCEPT !.open = {}, !.todo = @ \ {f},
                   !.plan[f] = IF f \in attempt.modified
                               THEN [hash |-> read, token |-> SourceToken(onDisk[f].mtime, read)]
                               ELSE record[f]]
            /\ UNCHANGED moments
       ELSE Quit
    /\ UNCHANGED <<onDisk, record, journal, staging, backend, killed, mtime>>

Planned ==
    /\ At("read") /\ attempt.todo = {}
    /\ Turn("reload", Notes)
    /\ UNCHANGED <<onDisk, record, journal, staging, backend, killed, mtime, moments>>

\* Fault: only the notes that were found modified are compared again.
UndriftedIfModified(f, read, stamp) ==
    f \in attempt.modified => SourceToken(stamp, read) = attempt.plan[f].token

\* Neither the bytes nor the time stamp differ from the plan.
Undrifted(f, read, stamp) ==
    /\ read = attempt.plan[f].hash
    /\ SourceToken(stamp, read) = attempt.plan[f].token

Reload(f) ==
    /\ At("reload") /\ f \in attempt.open
    /\ IF Undrifted(f, attempt.bytes[f], onDisk[f].mtime)
       THEN attempt' = [attempt EXCEPT !.open = {}, !.todo = @ \ {f}] /\ UNCHANGED moments
       ELSE Quit
    /\ UNCHANGED <<onDisk, record, journal, staging, backend, killed, mtime>>

\* _document_with_current_blob_metadata, for one note.
WithCurrentMetadata(f, c, stamp) == [record EXCEPT ![f] = [hash |-> c, token |-> SourceToken(stamp, c)]]

\* restore_file_version: a version of the past is written over the note, whatever it
\* has, and a commit is begun with the records as they are otherwise.
RestoreVersion(f, c) ==
    /\ At("none") /\ mtime < MaxMtime
    /\ record[f].hash # Unhashed /\ c \in blobs
    /\ mtime' = mtime + 1
    /\ onDisk' = [onDisk EXCEPT ![f] = [bytes |-> c, mtime |-> mtime + 1]]
    /\ attempt' = [NoAttempt EXCEPT !.at = "reload", !.todo = Notes, !.modified = {f},
                                    !.plan = WithCurrentMetadata(f, c, mtime + 1)]
    /\ moments' = {[Folder EXCEPT ![f] = c]}
    /\ UNCHANGED <<record, journal, staging, backend, killed>>

-----------------------------------------------------------------------------
(* Staging and posting                                                     *)

\* No other commit is in doubt, and the last pull was of the head.
Lockable == journal = "none" /\ ~behind

\* prepare_commit_submission
Lock ==
    /\ At("reload") /\ attempt.todo = {}
    /\ IF Lockable
       THEN journal' = "submitted" /\ Turn("stage", Notes) /\ UNCHANGED moments
       ELSE Quit /\ UNCHANGED journal
    /\ UNCHANGED <<onDisk, record, staging, backend, killed, mtime>>

Manifest == [f \in Notes |-> attempt.plan[f].hash]

\* The snapshot table: each note's copy is the note of the plan, its blob is staged;
\* and the request, which must list the same notes as the table.
Staged == {plain[f] : f \in Notes}
TableAgrees == (\A f \in Notes : plain[f] = attempt.plan[f].hash) /\ Staged \subseteq cipher
RequestAgrees == plain = Manifest

\* The blobs the backend does not have.
Missing == Staged \ blobs

\* materialize_content_snapshot_plan
StagePlain(f) ==
    /\ At("stage") /\ f \in attempt.todo
    /\ plain' = [plain EXCEPT ![f] = attempt.bytes[f]]
    /\ attempt' = [attempt EXCEPT !.todo = @ \ {f},
                                  !.at = IF attempt.todo = {f} THEN "encrypt" ELSE "stage"]
    /\ UNCHANGED <<onDisk, record, journal, cipher, backend, killed, mtime, moments>>

\* materialize_blob_staging_plan: equal notes share a blob and its file.
StageCipher ==
    /\ At("encrypt")
    /\ \E c \in Staged \ cipher : cipher' = cipher \cup {c}
    /\ UNCHANGED <<onDisk, record, attempt, journal, plain, backend, killed, mtime, moments>>

\* build_commit_network_plan: the blobs the backend has not got.
PlanUpload ==
    /\ At("encrypt") /\ TableAgrees /\ RequestAgrees
    /\ Turn("upload", {})
    /\ UNCHANGED <<onDisk, record, journal, staging, backend, killed, mtime, moments>>

Upload(c) ==
    /\ At("upload") /\ c \in Missing
    /\ blobs' = blobs \cup {c}
    /\ UNCHANGED <<onDisk, record, attempt, journal, staging, head, behind, killed, mtime, moments>>

\* cleanup_failed_commit, and what comes after a commit was answered.
SweepStaging == plain' = NoPlain /\ cipher' = {}

\* Fault: the plain copies are forgotten.
EndKeepingPlain == journal' = "none" /\ killed' = FALSE /\ cipher' = {} /\ UNCHANGED plain /\ Quit

EndAttempt == journal' = "none" /\ killed' = FALSE /\ SweepStaging /\ Quit

\* The commit is taken unless another device's was first; the client that gets no
\* answer cleans up as after a failure.
Post ==
    /\ At("upload") /\ Missing = {}
    /\ \/ behind /\ EndAttempt /\ UNCHANGED <<head, behind>>
       \/ /\ ~behind
          /\ head' = Manifest
          /\ \/ /\ Turn("finalize", {})
                /\ UNCHANGED <<journal, staging, killed, moments, behind>>
             \/ EndAttempt /\ behind' = TRUE
    /\ UNCHANGED <<onDisk, record, blobs, mtime>>

Finalize ==
    /\ At("finalize")
    /\ record' = attempt.plan
    /\ EndAttempt
    /\ UNCHANGED <<onDisk, backend, mtime>>

\* Any step from staging on may raise.
AttemptFails ==
    /\ attempt.at \in {"stage", "encrypt", "upload"}
    /\ EndAttempt
    /\ UNCHANGED <<onDisk, record, backend, mtime>>

Killed ==
    /\ ~At("none")
    /\ killed' = (killed \/ journal # "none")
    /\ Quit
    /\ UNCHANGED <<onDisk, record, journal, staging, backend, mtime>>

\* resume_commit_recovery at the head of a cycle: the intent is looked up at the
\* backend and the journal cleared, taken or not, and a pull asked for.  The staged
\* copies stay until the next attempt ends.
Recover ==
    /\ At("none") /\ journal # "none"
    /\ journal' = "none"
    /\ behind' = TRUE
    /\ UNCHANGED <<onDisk, record, attempt, staging, head, blobs, killed, mtime, moments>>

-----------------------------------------------------------------------------
(* Other devices                                                           *)

\* Others change notes they have.
RemoteCommit(f, c) ==
    /\ head[f] \notin {Unhashed, c}
    /\ head' = [head EXCEPT ![f] = c]
    /\ blobs' = blobs \cup {c}
    /\ behind' = TRUE
    /\ UNCHANGED <<onDisk, record, attempt, journal, staging, killed, mtime, moments>>

\* A pull and its apply.  Records take the hash of the manifest and keep their
\* meta; bytes are written now (those that were not committed go to a copy).
Pull ==
    LET new == {f \in Notes : head[f] \notin {Unhashed, onDisk[f].bytes}} IN
    /\ At("none") /\ journal = "none" /\ behind
    /\ mtime < MaxMtime
    /\ mtime' = mtime + 1
    /\ onDisk' = [f \in Notes |-> IF f \in new THEN [bytes |-> head[f], mtime |-> mtime + 1]
                                             ELSE onDisk[f]]
    /\ record' = [f \in Notes |-> IF head[f] = Unhashed THEN Blank
                                  ELSE [record[f] EXCEPT !.hash = head[f]]]
    /\ behind' = FALSE
    /\ attempt' = [NoAttempt EXCEPT !.at = "pulled"]
    /\ UNCHANGED <<journal, staging, head, blobs, killed, moments>>

\* The cycle ends with the pull.
NoSubmit ==
    /\ At("pulled")
    /\ Quit
    /\ UNCHANGED <<onDisk, record, journal, staging, backend, killed, mtime>>

SNext ==
    \/ \E f \in Notes, c \in Contents : Save(f, c) \/ RestoreVersion(f, c) \/ RemoteCommit(f, c)
    \/ BeginCommit \/ Detected \/ Planned \/ Lock
    \/ \E f \in Notes :
          Detect(f) \/ ReadBytes(f) \/ PlanRecord(f) \/ Reload(f) \/ StagePlain(f)
    \/ StageCipher \/ PlanUpload \/ Post \/ Finalize
    \/ \E c \in Contents : Upload(c)
    \/ AttemptFails \/ Killed \/ Recover
    \/ Pull \/ NoSubmit

SSpec == SInit /\ [][SNext]_svars

-----------------------------------------------------------------------------
(* Properties                                                              *)

STypeOK ==
    /\ onDisk \in [Notes -> [bytes : Contents, mtime : 0 .. MaxMtime]]
    /\ \A f \in Notes : record[f].hash \in Contents \cup {Unhashed}
    /\ attempt.at \in {"none", "pulled", "detect", "read", "reload", "stage", "encrypt",
                       "upload", "finalize"}
    /\ attempt.todo \cup attempt.open \cup attempt.modified \subseteq Notes
    /\ journal \in {"none", "submitted"}
    /\ plain \in [Notes -> Contents \cup {Unhashed}] /\ cipher \subseteq Contents
    /\ head \in [Notes -> Contents \cup {Unhashed}] /\ blobs \subseteq Contents
    /\ behind \in BOOLEAN /\ killed \in BOOLEAN
    /\ moments \subseteq [Notes -> Contents]

\* Whatever the user saves while the notes are read one by one, a commit that gets
\* as far as staging has the folder as it was at one moment, every note in it, and
\* its blobs are these notes ("mid-flight drift aborts instead of producing a mixed
\* snapshot", clients/desktop/README.md).
CommitsAreOneMoment ==
    attempt.at \in {"stage", "encrypt", "upload", "finalize"} =>
        /\ Manifest \in moments
        /\ attempt.bytes = Manifest
        /\ At("upload") => TableAgrees

\* Copies of notes stay in staging only while an attempt runs, or since the client
\* was killed in one: every other end of an attempt takes them away, also those a
\* killed client had left, and with them the journal.
StagingIsSwept ==
    /\ At("none") /\ ~killed => plain = NoPlain /\ cipher = {}
    /\ journal # "none" /\ ~killed => attempt.at \in {"stage", "encrypt", "upload", "finalize"}

\* The cycle pulls first to have "a valid remote baseline before attempting a new
\* commit" (clients/desktop/README.md): a note that is as the pull left it does not
\* stand in the way of a commit.
PulledNotesCanBeCommitted ==
    At("pulled") =>
        \A f \in Notes : record[f].hash = onDisk[f].bytes =>
            record[f].token = SourceToken(onDisk[f].mtime, onDisk[f].bytes)
=============================================================================
