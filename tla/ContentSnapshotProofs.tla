----------------------- MODULE ContentSnapshotProofs -----------------------
(***************************************************************************)
(* A commit publishes the folder as it was at one moment, for any number   *)
(* of notes and contents and any number of saves.                          *)
(***************************************************************************)
EXTENDS ContentSnapshot, TLAPS

Hashes == Contents \cup {Unhashed}
Stamps == (0 .. mtime) \X Hashes
Metadata == [Notes -> [hash : Hashes, token : {NoToken} \cup Stamps]]
Attempts == [at : {"none", "pulled", "detect", "read", "reload", "stage", "encrypt", "upload",
                   "finalize"},
             todo : SUBSET Notes, open : SUBSET Notes, modified : SUBSET Notes,
             plan : Metadata, bytes : [Notes -> Hashes]]

\* A note is open while the notes are read one by one.
Reading(a) == a.open \subseteq a.todo /\ (a.open # {} => a.at \in {"read", "reload"})

\* No token is of a time that is still to come.
SnapshotTypes ==
    /\ mtime \in 0 .. MaxMtime
    /\ onDisk \in [Notes -> [bytes : Contents, mtime : 0 .. mtime]]
    /\ record \in Metadata
    /\ attempt \in Attempts
    /\ Reading(attempt)
    /\ moments \subseteq [Notes -> Contents]
    /\ head \in [Notes -> Hashes]
    /\ blobs \subseteq Contents

\* The note has not been written since its plan was made.
Untouched(f) == \E b \in Hashes : attempt.plan[f].token = SourceToken(onDisk[f].mtime, b)

\* The second reading compares the notes with the folder of one moment m: of those it
\* is done with the plan is as it was then, and any other has been written since,
\* or is as it was then.
AsAt(m, f) ==
    IF f \in attempt.todo
    THEN Untouched(f) => /\ onDisk[f].bytes = m[f]
                         /\ f \in attempt.open => attempt.bytes[f] = m[f]
    ELSE attempt.plan[f].hash = m[f] /\ attempt.bytes[f] = m[f]

Running == attempt.at \notin {"none", "pulled"}

OneMoment ==
    /\ Running => Folder \in moments
    /\ At("reload") => \E m \in moments : \A f \in Notes : AsAt(m, f)
    /\ attempt.at \in {"stage", "encrypt", "upload", "finalize"} =>
           \E m \in moments : \A f \in Notes :
               attempt.plan[f].hash = m[f] /\ attempt.bytes[f] = m[f]
    /\ At("upload") => TableAgrees

-----------------------------------------------------------------------------
(* Types                                                                   *)

\* What is typed stays typed as the time of the last write grows.
LEMMA TypesGrow ==
    ASSUME NEW p \in Metadata, mtime' \in Nat, mtime \in Nat, mtime' >= mtime
    PROVE  p \in Metadata'
  <1>1. Stamps \subseteq Stamps'
    BY DEF Stamps, Hashes
  <1> QED
    BY <1>1 DEF Metadata, Hashes

LEMMA BlankTypes ==
    ASSUME SnapshotTypes
    PROVE  NoAttempt \in Attempts /\ NoAttempt.open = {} /\ Reading(NoAttempt)
  BY DEF Reading, NoAttempt, Attempts, Metadata, Blank, Hashes

LEMMA SnapshotTypesInit == SInit => SnapshotTypes
  <1> SUFFICES ASSUME SInit PROVE SnapshotTypes
    OBVIOUS
  <1>1. mtime = 0 /\ 0 \in 0 .. MaxMtime /\ 0 \in 0 .. mtime
    BY MtimesAreNat DEF SInit
  <1>2. onDisk \in [Notes -> [bytes : Contents, mtime : 0 .. mtime]]
    BY <1>1 DEF SInit
  <1>3. record \in Metadata
    BY <1>1, <1>2 DEF SInit, Metadata, Stamps, Hashes, Blank, SourceToken
  <1>4. head \in [Notes -> Hashes] /\ blobs \subseteq Contents
    BY <1>3 DEF SInit, Metadata, Hashes
  <1>5. attempt \in Attempts /\ Reading(attempt)
    BY DEF Reading, SInit, NoAttempt, Attempts, Metadata, Blank, Hashes
  <1> QED
    BY <1>1, <1>2, <1>3, <1>4, <1>5 DEF SnapshotTypes, SInit

\* A step that leaves the folder, the records and the head alone.
LEMMA AttemptTypes ==
    ASSUME SnapshotTypes, UNCHANGED <<onDisk, record, head, mtime>>, attempt' \in Attempts,
           Reading(attempt'), moments' \subseteq [Notes -> Contents], blobs' \subseteq Contents
    PROVE  SnapshotTypes'
  BY DEF SnapshotTypes, Attempts, Metadata, Stamps

LEMMA SnapshotTypesStep == SnapshotTypes /\ [SNext]_svars => SnapshotTypes'
  <1> SUFFICES ASSUME SnapshotTypes, [SNext]_svars PROVE SnapshotTypes'
    OBVIOUS
  <1>0. /\ attempt \in Attempts /\ NoAttempt \in Attempts
        /\ NoAttempt.open = {} /\ Reading(NoAttempt) /\ Reading(attempt)
        /\ moments \subseteq [Notes -> Contents] /\ blobs \subseteq Contents
    BY BlankTypes DEF SnapshotTypes
  <1>f. Folder \in [Notes -> Contents]
    BY DEF Folder, SnapshotTypes
  <1>1. ASSUME UNCHANGED <<onDisk, record, head, blobs, mtime>>,
               attempt' = attempt \/ Quit, moments' = moments \/ moments' = {}
        PROVE  SnapshotTypes'
    BY <1>0, <1>1, AttemptTypes DEF Quit
  <1>2. ASSUME UNCHANGED <<onDisk, record, head, mtime>>, UNCHANGED moments, blobs' \subseteq Contents,
               NEW step \in {"none", "pulled", "detect", "read", "reload", "stage", "encrypt",
                             "upload", "finalize"},
               NEW todo \in SUBSET Notes, attempt.open = {}, Turn(step, todo)
        PROVE  SnapshotTypes'
    <2>1. attempt'.open = attempt.open /\ attempt'.todo = todo /\ attempt' \in Attempts
      BY <1>0, <1>2 DEF Turn, Attempts
    <2>2. Reading(attempt')
      BY <1>2, <2>1 DEF Reading
    <2> QED
      BY <1>0, <1>2, <2>1, <2>2, AttemptTypes
  <1>3. ASSUME NEW f \in Notes, NEW c \in Contents, Save(f, c) PROVE SnapshotTypes'
    <2>1. mtime' = mtime + 1 /\ mtime' \in 0 .. MaxMtime /\ mtime \in 0 .. mtime' /\ mtime \in Nat
      BY <1>3, MtimesAreNat DEF Save, SnapshotTypes
    <2>2. onDisk' \in [Notes -> [bytes : Contents, mtime : 0 .. mtime']]
      BY <1>3, <2>1 DEF Save, SnapshotTypes
    <2>3. record' \in Metadata' /\ attempt.plan \in Metadata'
      BY <1>0, <1>3, <2>1, TypesGrow DEF Save, SnapshotTypes, Attempts
    <2>4. attempt' \in Attempts' /\ Reading(attempt')
      BY <1>0, <1>3, <2>3 DEF Save, Attempts, Hashes
    <2>5. moments' \subseteq [Notes -> Contents]
      BY <1>0, <1>3, <1>f DEF Save
    <2> QED
      BY <1>3, <2>1, <2>2, <2>3, <2>4, <2>5 DEF Save, SnapshotTypes, backend, Hashes
  <1>4. ASSUME NEW f \in Notes, NEW c \in Contents, RestoreVersion(f, c) PROVE SnapshotTypes'
    <2>1. mtime' = mtime + 1 /\ mtime' \in 0 .. MaxMtime /\ mtime \in 0 .. mtime' /\ mtime \in Nat
      BY <1>4, MtimesAreNat DEF RestoreVersion, SnapshotTypes
    <2>2. onDisk' \in [Notes -> [bytes : Contents, mtime : 0 .. mtime']]
      BY <1>4, <2>1 DEF RestoreVersion, SnapshotTypes
    <2>3. record' \in Metadata' /\ record \in Metadata'
      BY <1>4, <2>1, TypesGrow DEF RestoreVersion, SnapshotTypes
    <2>4. WithCurrentMetadata(f, c, mtime + 1) \in Metadata'
      BY <1>4, <2>1, <2>3 DEF WithCurrentMetadata, Metadata, Stamps, SourceToken, Hashes
    <2>5. attempt' = [NoAttempt EXCEPT !.at = "reload", !.todo = Notes, !.modified = {f},
                                      !.plan = WithCurrentMetadata(f, c, mtime + 1)]
      BY <1>4 DEF RestoreVersion
    <2>6. attempt' \in Attempts' /\ Reading(attempt')
      BY <1>0, <2>4, <2>5 DEF Attempts, Hashes, Reading
    <2>7. moments' \subseteq [Notes -> Contents]
      BY <1>4, <1>f DEF RestoreVersion
    <2> QED
      BY <1>4, <2>1, <2>2, <2>3, <2>6, <2>7 DEF RestoreVersion, SnapshotTypes, backend, Hashes
  <1>5. ASSUME NEW f \in Notes, NEW c \in Contents, RemoteCommit(f, c) PROVE SnapshotTypes'
    BY <1>5 DEF RemoteCommit, SnapshotTypes, Attempts, Metadata, Stamps, Hashes, staging
  <1>6. CASE BeginCommit
    <2>1. attempt' \in Attempts /\ Reading(attempt')
      BY <1>0, <1>6 DEF BeginCommit, Attempts, Reading
    <2> QED
      BY <1>0, <1>6, <1>f, <2>1, AttemptTypes DEF BeginCommit, backend
  <1>7. ASSUME NEW f \in Notes, Detect(f) PROVE SnapshotTypes'
    <2>1. /\ attempt' = [attempt EXCEPT !.todo = @ \ {f},
                !.modified = IF onDisk[f].bytes # record[f].hash THEN @ \cup {f} ELSE @]
          /\ At("detect")
      BY <1>7 DEF Detect
    <2>2. attempt' \in Attempts
      BY <1>0, <2>1 DEF Attempts
    <2>3. Reading(attempt')
      BY <1>0, <2>1 DEF Attempts, Reading, At
    <2> QED
      BY <1>0, <1>7, <2>2, <2>3, AttemptTypes DEF Detect, backend
  <1>8. CASE Detected
    <2>1. attempt.open = {}
      BY <1>0, <1>8 DEF Detected, At, Reading
    <2>2. CASE Quit
      BY <1>1, <1>8, <2>2 DEF Detected, backend, Quit
    <2>3. CASE Turn("read", Notes) /\ UNCHANGED moments
      BY <1>0, <1>2, <1>8, <2>1, <2>3 DEF Detected, backend
    <2> QED
      BY <1>8, <2>2, <2>3 DEF Detected
  <1>9. ASSUME NEW f \in Notes, ReadBytes(f) PROVE SnapshotTypes'
    <2>1. onDisk[f].bytes \in Hashes
      BY DEF SnapshotTypes, Hashes
    <2>2. attempt' = [attempt EXCEPT !.open = {f}, !.bytes[f] = onDisk[f].bytes]
      BY <1>9 DEF ReadBytes
    <2>3. attempt' \in Attempts
      BY <1>0, <2>1, <2>2 DEF Attempts
    <2>4. attempt'.open = {f} /\ attempt'.todo = attempt.todo /\ attempt'.at = attempt.at
      BY <1>0, <2>2 DEF Attempts
    <2>5. Reading(attempt')
      BY <1>9, <2>4 DEF ReadBytes, Reading, At
    <2> QED
      BY <1>0, <1>9, <2>3, <2>5, AttemptTypes DEF ReadBytes, backend
  <1>10. ASSUME NEW f \in Notes, PlanRecord(f) PROVE SnapshotTypes'
    <2>1. CASE Quit
      BY <1>1, <1>10, <2>1 DEF PlanRecord, backend, Quit
    <2>2. CASE /\ UNCHANGED moments
               /\ attempt' = [attempt EXCEPT !.open = {}, !.todo = @ \ {f},
                     !.plan[f] = IF f \in attempt.modified
                                 THEN [hash |-> attempt.bytes[f],
                                       token |-> SourceToken(onDisk[f].mtime, attempt.bytes[f])]
                                 ELSE record[f]]
      <3>1. attempt.bytes[f] \in Hashes /\ onDisk[f].mtime \in 0 .. mtime
        BY <1>0 DEF Attempts, SnapshotTypes
      <3>2. record[f] \in [hash : Hashes, token : {NoToken} \cup Stamps]
        BY DEF SnapshotTypes, Metadata
      <3>3. attempt' \in Attempts /\ Reading(attempt')
        BY <1>0, <2>2, <3>1, <3>2 DEF Attempts, Reading, Metadata, SourceToken, Stamps
      <3> QED
        BY <1>0, <1>10, <2>2, <3>3, AttemptTypes DEF PlanRecord, backend
    <2> QED
      BY <1>10, <2>1, <2>2 DEF PlanRecord
  <1>11. CASE Planned
    BY <1>0, <1>2, <1>11 DEF Planned, backend, Reading
  <1>12. ASSUME NEW f \in Notes, Reload(f) PROVE SnapshotTypes'
    <2>1. CASE Quit
      BY <1>1, <1>12, <2>1 DEF Reload, backend, Quit
    <2>2. CASE attempt' = [attempt EXCEPT !.open = {}, !.todo = @ \ {f}] /\ UNCHANGED moments
      <3>1. attempt' \in Attempts /\ Reading(attempt')
        BY <1>0, <2>2 DEF Attempts, Reading
      <3> QED
        BY <1>0, <1>12, <2>2, <3>1, AttemptTypes DEF Reload, backend
    <2> QED
      BY <1>12, <2>1, <2>2 DEF Reload
  <1>13. CASE Lock
    BY <1>0, <1>1, <1>2, <1>13 DEF Lock, backend, Reading, Quit
  <1>14. ASSUME NEW f \in Notes, StagePlain(f) PROVE SnapshotTypes'
    <2>1. attempt' \in Attempts /\ Reading(attempt')
      BY <1>0, <1>14 DEF StagePlain, Attempts, Reading, At
    <2> QED
      BY <1>0, <1>14, <2>1, AttemptTypes DEF StagePlain, backend
  <1>15. CASE StageCipher
    BY <1>1, <1>15 DEF StageCipher, backend
  <1>16. CASE PlanUpload
    BY <1>0, <1>2, <1>16 DEF PlanUpload, backend, Reading, At
  <1>17. ASSUME NEW c \in Contents, Upload(c) PROVE SnapshotTypes'
    BY <1>0, <1>17, AttemptTypes DEF Upload, staging
  <1>18. CASE Post
    <2>1. Manifest \in [Notes -> Hashes]
      BY <1>0 DEF Manifest, Attempts, Metadata
    <2>2. attempt' \in Attempts /\ Reading(attempt') /\ moments' \subseteq [Notes -> Contents]
      BY <1>0, <1>18 DEF Post, EndAttempt, Quit, Turn, Attempts, Reading, At
    <2>3. head' \in [Notes -> Hashes] /\ UNCHANGED <<onDisk, record, blobs, mtime>>
      BY <1>18, <2>1 DEF Post, SnapshotTypes
    <2> QED
      BY <2>2, <2>3 DEF SnapshotTypes, Attempts, Metadata, Stamps, Hashes
  <1>19. CASE Finalize
    <2>1. record' \in Metadata /\ attempt' = NoAttempt /\ moments' = {}
      BY <1>0, <1>19 DEF Finalize, Attempts, EndAttempt, Quit
    <2> QED
      BY <1>0, <1>19, <2>1 DEF Finalize, backend, SnapshotTypes, Attempts, Metadata, Stamps, Hashes
  <1>20. CASE AttemptFails \/ Killed
    BY <1>1, <1>20 DEF AttemptFails, Killed, EndAttempt, Quit, backend
  <1>21. CASE Recover
    BY <1>1, <1>21 DEF Recover
  <1>22. CASE Pull
    <2>1. mtime' = mtime + 1 /\ mtime' \in 0 .. MaxMtime /\ mtime \in 0 .. mtime' /\ mtime \in Nat
      BY <1>22, MtimesAreNat DEF Pull, SnapshotTypes
    <2>2. onDisk' \in [Notes -> [bytes : Contents, mtime : 0 .. mtime']]
      BY <1>22, <2>1 DEF Pull, SnapshotTypes, Hashes
    <2>3. record' \in Metadata
      BY <1>22 DEF Pull, SnapshotTypes, Metadata, Hashes, Blank
    <2>4. record' \in Metadata' /\ NoAttempt.plan \in Metadata'
      BY <1>0, <2>1, <2>3, TypesGrow DEF Attempts
    <2>5. attempt' = [NoAttempt EXCEPT !.at = "pulled"]
      BY <1>22 DEF Pull
    <2>6. attempt' \in Attempts' /\ Reading(attempt')
      BY <1>0, <2>4, <2>5 DEF Attempts, Reading, Hashes
    <2> QED
      BY <1>22, <2>1, <2>2, <2>4, <2>6 DEF Pull, SnapshotTypes, Hashes
  <1>23. CASE NoSubmit \/ UNCHANGED svars
    BY <1>1, <1>23 DEF NoSubmit, backend, Quit, svars
  <1> QED
    BY <1>3, <1>4, <1>5, <1>6, <1>7, <1>8, <1>9, <1>10, <1>11, <1>12, <1>13, <1>14, <1>15,
       <1>16, <1>17, <1>18, <1>19, <1>20, <1>21, <1>22, <1>23 DEF SNext

-----------------------------------------------------------------------------
(* The moment                                                              *)

\* An attempt that is over, or has not begun, has nothing to show.
LEMMA NotRunning ==
    ASSUME attempt'.at \in {"none", "pulled"}
    PROVE  OneMoment'
  BY DEF OneMoment, Running, At

\* A save adds the folder it makes.
LEMMA FolderAfterSave ==
    ASSUME SnapshotTypes, NEW f \in Notes, NEW c \in Contents,
           onDisk' = [onDisk EXCEPT ![f] = [bytes |-> c, mtime |-> mtime + 1]]
    PROVE  Folder' = [Folder EXCEPT ![f] = c]
  BY DEF Folder, SnapshotTypes

\* No plan was made with the time stamp of a write to come.
LEMMA StampIsNew ==
    ASSUME SnapshotTypes, mtime < MaxMtime, NEW f \in Notes, NEW b \in Hashes
    PROVE  attempt.plan[f].token # SourceToken(mtime + 1, b)
  <1>1. attempt.plan[f].token \in {NoToken} \cup Stamps
    BY DEF SnapshotTypes, Attempts, Metadata
  <1>2. <<mtime + 1, b>> \in (0 .. MaxMtime) \X Hashes /\ <<mtime + 1, b>> \notin Stamps
    BY MtimesAreNat DEF SnapshotTypes, Stamps
  <1> QED
    BY <1>1, <1>2, NoTokenIsNone DEF SourceToken, Hashes

LEMMA MomentSave ==
    ASSUME SnapshotTypes, OneMoment, NEW f \in Notes, NEW c \in Contents, Save(f, c)
    PROVE  OneMoment'
  <1>1. /\ attempt' = attempt /\ plain' = plain /\ cipher' = cipher
        /\ onDisk' = [onDisk EXCEPT ![f] = [bytes |-> c, mtime |-> mtime + 1]]
        /\ mtime < MaxMtime
    BY DEF Save, staging
  <1>2. ASSUME Running PROVE moments' = moments \cup {Folder'}
    BY <1>1, <1>2, FolderAfterSave DEF Save, Running, At
  <1>3. Running' => Folder' \in moments'
    BY <1>1, <1>2 DEF Running
  <1>4. ASSUME At("reload")' PROVE \E m \in moments' : \A g \in Notes : AsAt(m, g)'
    <2>1. Running /\ At("reload")
      BY <1>1, <1>4 DEF Running, At
    <2>2. PICK m \in moments : \A g \in Notes : AsAt(m, g)
      BY <2>1 DEF OneMoment
    <2>3. ASSUME NEW g \in Notes PROVE AsAt(m, g)'
      <3>1. CASE g = f
        <4>1. onDisk'[f].mtime = mtime + 1
          BY <1>1 DEF SnapshotTypes
        <4>2. ~Untouched(f)'
          BY <1>1, <4>1, StampIsNew DEF Untouched, Hashes
        <4> QED
          BY <1>1, <2>2, <3>1, <4>2 DEF AsAt
      <3>2. CASE g # f
        <4>1. onDisk'[g] = onDisk[g]
          BY <1>1, <3>2 DEF SnapshotTypes
        <4> QED
          BY <1>1, <2>2, <4>1 DEF AsAt, Untouched, Hashes
      <3> QED
        BY <3>1, <3>2
    <2> QED
      BY <1>2, <2>1, <2>2, <2>3
  <1>5. ASSUME attempt'.at \in {"stage", "encrypt", "upload", "finalize"}
        PROVE  \E m \in moments' : \A g \in Notes :
                  attempt'.plan[g].hash = m[g] /\ attempt'.bytes[g] = m[g]
    <2>1. Running
      BY <1>1, <1>5 DEF Running
    <2>2. PICK m \in moments : \A g \in Notes :
             attempt.plan[g].hash = m[g] /\ attempt.bytes[g] = m[g]
      BY <1>1, <1>5 DEF OneMoment
    <2>3. m \in moments'
      BY <1>2, <2>1, <2>2
    <2> QED
      BY <1>1, <2>2, <2>3
  <1>6. At("upload")' => TableAgrees'
    BY <1>1 DEF At, OneMoment, TableAgrees, Staged
  <1> QED
    BY <1>3, <1>4, <1>5, <1>6 DEF OneMoment

\* A restored version begins a commit of the folder it leaves.
LEMMA MomentRestore ==
    ASSUME SnapshotTypes, NEW f \in Notes, NEW c \in Contents, RestoreVersion(f, c)
    PROVE  OneMoment'
  <1>1. /\ onDisk' = [onDisk EXCEPT ![f] = [bytes |-> c, mtime |-> mtime + 1]]
        /\ attempt' = [NoAttempt EXCEPT !.at = "reload", !.todo = Notes, !.modified = {f},
                                        !.plan = WithCurrentMetadata(f, c, mtime + 1)]
        /\ moments' = {[Folder EXCEPT ![f] = c]}
    BY DEF RestoreVersion
  <1>2. Folder' \in moments'
    BY <1>1, FolderAfterSave
  <1>3. attempt'.at = "reload" /\ attempt'.todo = Notes /\ attempt'.open = {}
    BY <1>1 DEF NoAttempt
  <1>4. PICK m \in moments' : m = Folder'
    BY <1>2
  <1>5. \A g \in Notes : onDisk'[g].bytes = m[g]
    BY <1>4 DEF Folder
  <1>6. \A g \in Notes : AsAt(m, g)'
    BY <1>3, <1>5 DEF AsAt
  <1> QED
    BY <1>2, <1>3, <1>4, <1>6 DEF OneMoment, Running, At

\* The second reading begins: everything is as it is now.
LEMMA MomentPlanned ==
    ASSUME SnapshotTypes, OneMoment, Planned
    PROVE  OneMoment'
  <1>1. /\ attempt' = [attempt EXCEPT !.at = "reload", !.todo = Notes]
        /\ UNCHANGED <<onDisk, moments>>
    BY DEF Planned, Turn
  <1>2. Folder' \in moments'
    BY <1>1 DEF Planned, OneMoment, Running, At, Folder
  <1>3. attempt'.at = "reload" /\ attempt'.todo = Notes /\ attempt'.open = {}
    BY <1>1 DEF SnapshotTypes, Attempts, Reading, Planned
  <1>4. PICK m \in moments' : m = Folder'
    BY <1>2
  <1>5. \A g \in Notes : onDisk'[g].bytes = m[g]
    BY <1>4 DEF Folder
  <1>6. \A g \in Notes : AsAt(m, g)'
    BY <1>3, <1>5 DEF AsAt
  <1> QED
    BY <1>2, <1>3, <1>4, <1>6 DEF OneMoment, Running, At

\* The bytes that are read now are those of the moment, unless the note was written.
LEMMA MomentRead ==
    ASSUME SnapshotTypes, OneMoment, NEW f \in Notes, ReadBytes(f)
    PROVE  OneMoment'
  <1>1. /\ attempt' = [attempt EXCEPT !.open = {f}, !.bytes[f] = onDisk[f].bytes]
        /\ UNCHANGED <<onDisk, moments>> /\ f \in attempt.todo
        /\ At("read") \/ At("reload")
    BY DEF ReadBytes
  <1>2. /\ attempt'.at = attempt.at /\ attempt'.todo = attempt.todo /\ attempt'.open = {f}
        /\ attempt'.plan = attempt.plan /\ attempt'.bytes[f] = onDisk[f].bytes
        /\ \A g \in Notes \ {f} : attempt'.bytes[g] = attempt.bytes[g]
    BY <1>1 DEF SnapshotTypes, Attempts
  <1>3. Folder' \in moments'
    BY <1>1 DEF OneMoment, Running, At, Folder
  <1>4. ASSUME At("reload") PROVE \E m \in moments' : \A g \in Notes : AsAt(m, g)'
    <2>1. PICK m \in moments : \A g \in Notes : AsAt(m, g)
      BY <1>4 DEF OneMoment
    <2>2. ASSUME NEW g \in Notes PROVE AsAt(m, g)'
      <3>1. CASE g = f
        BY <1>1, <1>2, <2>1, <3>1 DEF AsAt, Untouched, Hashes
      <3>2. CASE g # f
        BY <1>1, <1>2, <2>1, <3>2 DEF AsAt, Untouched, Hashes
      <3> QED
        BY <3>1, <3>2
    <2> QED
      BY <1>1, <2>1, <2>2
  <1> QED
    BY <1>1, <1>2, <1>3, <1>4 DEF OneMoment, At

\* The note that is compared was not written between its plan and now, and its bytes
\* were read in between.
LEMMA MomentReload ==
    ASSUME SnapshotTypes, OneMoment, NEW f \in Notes, Reload(f)
    PROVE  OneMoment'
  <1>1. CASE Quit
    BY <1>1, NotRunning DEF Quit, NoAttempt
  <1>2. CASE /\ Undrifted(f, attempt.bytes[f], onDisk[f].mtime)
             /\ attempt' = [attempt EXCEPT !.open = {}, !.todo = @ \ {f}] /\ UNCHANGED moments
    <2>1. /\ attempt'.at = "reload" /\ attempt'.todo = attempt.todo \ {f} /\ attempt'.open = {}
          /\ attempt'.plan = attempt.plan /\ attempt'.bytes = attempt.bytes
          /\ f \in attempt.open /\ f \in attempt.todo /\ onDisk' = onDisk
      BY <1>2 DEF SnapshotTypes, Attempts, Reload, At, Reading
    <2>2. Folder' \in moments'
      BY <1>2, <2>1 DEF OneMoment, Running, At, Reload, Folder
    <2>3. PICK m \in moments : \A g \in Notes : AsAt(m, g)
      BY DEF OneMoment, Reload
    <2>4. attempt.bytes[f] \in Hashes
      BY DEF SnapshotTypes, Attempts
    <2>5. Untouched(f) /\ attempt.bytes[f] = attempt.plan[f].hash
      BY <1>2, <2>4 DEF Undrifted, Untouched
    <2>6. attempt.plan[f].hash = m[f] /\ attempt.bytes[f] = m[f]
      BY <2>1, <2>3, <2>5 DEF AsAt
    <2>7. ASSUME NEW g \in Notes PROVE AsAt(m, g)'
      <3>1. CASE g = f
        BY <2>1, <2>6, <3>1 DEF AsAt
      <3>2. CASE g # f
        BY <2>1, <2>3, <3>2 DEF AsAt, Untouched, Hashes
      <3> QED
        BY <3>1, <3>2
    <2> QED
      BY <1>2, <2>1, <2>2, <2>3, <2>7 DEF OneMoment, Running, At
  <1> QED
    BY <1>1, <1>2 DEF Reload

\* From staging on the plan and the bytes are fixed.
LEMMA MomentFixed ==
    ASSUME SnapshotTypes, OneMoment, UNCHANGED <<onDisk, moments>>,
           attempt'.plan = attempt.plan, attempt'.bytes = attempt.bytes,
           attempt.at \in {"stage", "encrypt", "upload", "finalize"},
           attempt'.at \in {"stage", "encrypt", "upload", "finalize"},
           At("upload")' => TableAgrees'
    PROVE  OneMoment'
  BY DEF OneMoment, Running, At, Folder

LEMMA MomentStep == SnapshotTypes /\ OneMoment /\ [SNext]_svars => OneMoment'
  <1> SUFFICES ASSUME SnapshotTypes, OneMoment, [SNext]_svars PROVE OneMoment'
    OBVIOUS
  <1>0. attempt \in Attempts /\ NoAttempt.at = "none"
    BY DEF SnapshotTypes, NoAttempt
  <1>q. Quit => OneMoment'
    BY NotRunning DEF Quit, NoAttempt
  <1>1. ASSUME UNCHANGED <<onDisk, attempt, moments, plain>>, cipher \subseteq cipher'
        PROVE  OneMoment'
    BY <1>1 DEF OneMoment, Running, At, Folder, AsAt, Untouched, Hashes, TableAgrees, Staged
  <1>2. ASSUME attempt'.at \in {"detect", "read"}, Folder' \in moments' PROVE OneMoment'
    BY <1>2 DEF OneMoment, Running, At
  <1>3. ASSUME NEW f \in Notes, NEW c \in Contents,
               Save(f, c) \/ RestoreVersion(f, c) \/ RemoteCommit(f, c)
        PROVE  OneMoment'
    BY <1>1, <1>3, MomentSave, MomentRestore DEF RemoteCommit, staging
  <1>4. CASE BeginCommit \/ \E f \in Notes : Detect(f) \/ PlanRecord(f)
    <2>1. CASE BeginCommit
      BY <1>0, <1>2, <2>1 DEF BeginCommit, NoAttempt, Folder
    <2>2. ASSUME NEW f \in Notes, Detect(f) PROVE OneMoment'
      <3>1. attempt'.at = "detect" /\ UNCHANGED <<onDisk, moments>>
        BY <1>0, <2>2 DEF Detect, Attempts, At
      <3>2. Folder' \in moments'
        BY <2>2, <3>1 DEF Detect, OneMoment, Running, At, Folder
      <3> QED
        BY <1>2, <3>1, <3>2
    <2>3. ASSUME NEW f \in Notes, PlanRecord(f), ~Quit PROVE OneMoment'
      <3>1. attempt'.at = "read" /\ UNCHANGED <<onDisk, moments>>
        BY <1>0, <2>3 DEF PlanRecord, Attempts, At
      <3>2. Folder' \in moments'
        BY <2>3, <3>1 DEF PlanRecord, OneMoment, Running, At, Folder
      <3> QED
        BY <1>2, <3>1, <3>2
    <2> QED
      BY <1>4, <1>q, <2>1, <2>2, <2>3
  <1>5. CASE Detected
    <2>1. ASSUME ~Quit PROVE OneMoment'
      <3>1. attempt'.at = "read" /\ UNCHANGED <<onDisk, moments>>
        BY <1>0, <1>5, <2>1 DEF Detected, Turn, Attempts
      <3>2. Folder' \in moments'
        BY <1>5, <3>1 DEF Detected, OneMoment, Running, At, Folder
      <3> QED
        BY <1>2, <3>1, <3>2
    <2> QED
      BY <1>q, <2>1
  <1>6. ASSUME NEW f \in Notes, ReadBytes(f) \/ Reload(f) PROVE OneMoment'
    BY <1>6, MomentRead, MomentReload
  <1>7. CASE Planned
    BY <1>7, MomentPlanned
  <1>8. CASE Lock
    <2>1. ASSUME ~Quit PROVE OneMoment'
      <3>1. /\ attempt'.at = "stage" /\ attempt'.plan = attempt.plan /\ attempt'.bytes = attempt.bytes
            /\ UNCHANGED <<onDisk, moments>>
        BY <1>0, <1>8, <2>1 DEF Lock, Turn, Attempts
      <3>2. PICK m \in moments : \A g \in Notes : AsAt(m, g)
        BY <1>8 DEF Lock, OneMoment
      <3>3. \A g \in Notes : attempt.plan[g].hash = m[g] /\ attempt.bytes[g] = m[g]
        BY <1>8, <3>2 DEF Lock, AsAt
      <3>4. Folder' \in moments'
        BY <1>8, <3>1 DEF Lock, OneMoment, Running, At, Folder
      <3> QED
        BY <3>1, <3>2, <3>3, <3>4 DEF OneMoment, At
    <2> QED
      BY <1>q, <2>1
  <1>9. ASSUME NEW f \in Notes, StagePlain(f) PROVE OneMoment'
    <2>1. /\ attempt.at = "stage" /\ attempt'.at \in {"stage", "encrypt"}
          /\ attempt'.plan = attempt.plan /\ attempt'.bytes = attempt.bytes
          /\ UNCHANGED <<onDisk, moments>>
      BY <1>0, <1>9 DEF StagePlain, Attempts, At
    <2>2. ~At("upload")'
      BY <2>1 DEF At
    <2> QED
      BY <2>1, <2>2, MomentFixed
  <1>10. CASE StageCipher
    BY <1>1, <1>10 DEF StageCipher
  <1>11. CASE PlanUpload
    <2>1. /\ attempt.at = "encrypt" /\ attempt'.at = "upload"
          /\ attempt'.plan = attempt.plan /\ attempt'.bytes = attempt.bytes
          /\ UNCHANGED <<onDisk, moments>>
      BY <1>0, <1>11 DEF PlanUpload, Turn, Attempts, At
    <2>2. TableAgrees'
      BY <1>11, <2>1 DEF PlanUpload, TableAgrees, Staged, staging
    <2> QED
      BY <2>1, <2>2, MomentFixed
  <1>12. ASSUME NEW c \in Contents, Upload(c) PROVE OneMoment'
    BY <1>1, <1>12 DEF Upload, staging
  <1>13. CASE Post
    <2>1. CASE Turn("finalize", {}) /\ UNCHANGED <<onDisk, moments>>
      <3>1. /\ attempt.at = "upload" /\ attempt'.at = "finalize"
            /\ attempt'.plan = attempt.plan /\ attempt'.bytes = attempt.bytes
        BY <1>0, <1>13, <2>1 DEF Post, Turn, Attempts, At
      <3>2. ~At("upload")'
        BY <3>1 DEF At
      <3> QED
        BY <2>1, <3>1, <3>2, MomentFixed
    <2>2. CASE Quit
      BY <1>q, <2>2
    <2> QED
      BY <1>13, <2>1, <2>2 DEF Post, EndAttempt
  <1>14. CASE Finalize \/ AttemptFails \/ Killed \/ NoSubmit
    BY <1>q, <1>14 DEF Finalize, AttemptFails, Killed, NoSubmit, EndAttempt
  <1>15. CASE Recover \/ UNCHANGED svars
    BY <1>1, <1>15 DEF Recover, staging, svars
  <1>16. CASE Pull
    BY <1>16, NotRunning DEF Pull, NoAttempt
  <1> QED
    BY <1>3, <1>4, <1>5, <1>6, <1>7, <1>8, <1>9, <1>10, <1>11, <1>12, <1>13, <1>14, <1>15,
       <1>16 DEF SNext

LEMMA MomentInit == SInit => OneMoment
  <1>1. SInit => attempt.at = "none"
    BY DEF SInit, NoAttempt
  <1> QED
    BY <1>1 DEF OneMoment, Running, At

\* Whatever the user saves while the notes are read one by one, what a commit stages,
\* uploads and posts is the folder as it was at one moment since it began.
THEOREM SnapshotsAreOneMoment == SSpec => []CommitsAreOneMoment
  <1>1. SInit => SnapshotTypes /\ OneMoment
    BY SnapshotTypesInit, MomentInit
  <1>2. SnapshotTypes /\ OneMoment /\ [SNext]_svars => SnapshotTypes' /\ OneMoment'
    BY SnapshotTypesStep, MomentStep
  <1>3. ASSUME SnapshotTypes, OneMoment PROVE CommitsAreOneMoment
    <2>1. ASSUME attempt.at \in {"stage", "encrypt", "upload", "finalize"}
          PROVE  Manifest \in moments /\ attempt.bytes = Manifest
      <3>1. PICK m \in moments : \A f \in Notes :
               attempt.plan[f].hash = m[f] /\ attempt.bytes[f] = m[f]
        BY <1>3, <2>1 DEF OneMoment
      <3>2. m \in [Notes -> Contents] /\ attempt.bytes \in [Notes -> Hashes]
        BY <1>3, <3>1 DEF SnapshotTypes, Attempts
      <3>3. Manifest = m /\ attempt.bytes = m
        BY <3>1, <3>2 DEF Manifest
      <3> QED
        BY <3>3
    <2> QED
      BY <1>3, <2>1 DEF CommitsAreOneMoment, OneMoment
  <1> QED
    BY <1>1, <1>2, <1>3, PTL DEF SSpec

-----------------------------------------------------------------------------
(* Staging                                                                 *)

\* Before an attempt has the journal nothing is staged, unless the client was killed;
\* while it stages, it has the journal.
Sweeping ==
    /\ attempt.at \in {"none", "pulled", "detect", "read", "reload"} /\ ~killed =>
           journal = "none" /\ plain = NoPlain /\ cipher = {}
    /\ attempt.at \in {"stage", "encrypt", "upload", "finalize"} => journal # "none"

Planning(at) == at \in {"none", "pulled", "detect", "read", "reload"}
Staging(at) == at \in {"stage", "encrypt", "upload", "finalize"}

\* What can happen to an attempt, its staged copies and the journal.
LEMMA SweepingStep == SnapshotTypes /\ Sweeping /\ [SNext]_svars => Sweeping'
  <1> SUFFICES ASSUME SnapshotTypes, Sweeping, [SNext]_svars PROVE Sweeping'
    OBVIOUS
  <1>0. attempt \in Attempts
    BY DEF SnapshotTypes
  <1>1. Planning(attempt.at) \/ Staging(attempt.at)
    BY <1>0 DEF Attempts, Planning, Staging
  <1>2. ASSUME Planning(attempt.at), Planning(attempt'.at), UNCHANGED <<plain, cipher, journal, killed>>
        PROVE  Sweeping'
    BY <1>2 DEF Sweeping, Planning, NoPlain
  <1>3. ASSUME Staging(attempt.at), Staging(attempt'.at), UNCHANGED journal
        PROVE  Sweeping'
    BY <1>3 DEF Sweeping, Staging
  <1>4. ASSUME EndAttempt PROVE Sweeping'
    BY <1>4 DEF Sweeping, EndAttempt, SweepStaging, Quit, NoAttempt, NoPlain
  <1>q. Quit => Planning(attempt'.at)
    BY DEF Quit, NoAttempt, Planning
  <1>5. ASSUME NEW f \in Notes, NEW c \in Contents, Save(f, c) \/ RestoreVersion(f, c) \/ RemoteCommit(f, c)
        PROVE  Sweeping'
    <2>1. CASE Save(f, c) \/ RemoteCommit(f, c)
      <3>1. UNCHANGED <<attempt, plain, cipher, journal, killed>>
        BY <2>1 DEF Save, RemoteCommit, staging
      <3> QED
        BY <1>1, <1>2, <1>3, <3>1
    <2>2. CASE RestoreVersion(f, c)
      <3>1. Planning(attempt.at) /\ Planning(attempt'.at) /\ UNCHANGED <<plain, cipher, journal, killed>>
        BY <2>2 DEF RestoreVersion, NoAttempt, Planning, At, staging
      <3> QED
        BY <1>2, <3>1
    <2> QED
      BY <1>5, <2>1, <2>2
  <1>6. CASE BeginCommit \/ Detected \/ Planned \/ Pull \/ NoSubmit
    <2>1. Planning(attempt.at) /\ UNCHANGED <<plain, cipher, journal, killed>>
      BY <1>6 DEF BeginCommit, Detected, Planned, Pull, NoSubmit, Planning, At, staging
    <2>2. Planning(attempt'.at)
      BY <1>0, <1>6, <1>q DEF BeginCommit, Detected, Planned, Pull, NoSubmit, Planning, NoAttempt, Turn,
                              Attempts
    <2> QED
      BY <1>2, <2>1, <2>2
  <1>7. ASSUME NEW f \in Notes, Detect(f) \/ ReadBytes(f) \/ PlanRecord(f) \/ Reload(f) PROVE Sweeping'
    <2>1. Planning(attempt.at) /\ UNCHANGED <<plain, cipher, journal, killed>>
      BY <1>7 DEF Detect, ReadBytes, PlanRecord, Reload, Planning, At, staging
    <2>2. Planning(attempt'.at)
      BY <1>0, <1>7, <1>q, <2>1 DEF Detect, ReadBytes, PlanRecord, Reload, Planning, Attempts
    <2> QED
      BY <1>2, <2>1, <2>2
  <1>8. CASE Lock
    <2>1. Planning(attempt.at) /\ UNCHANGED <<plain, cipher, killed>>
      BY <1>8 DEF Lock, Planning, At, staging
    <2>2. ASSUME Lockable PROVE Sweeping'
      <3>1. attempt'.at = "stage" /\ journal' = "submitted"
        BY <1>0, <1>8, <2>2 DEF Lock, Turn, Attempts
      <3> QED
        BY <3>1 DEF Sweeping
    <2>3. ASSUME ~Lockable PROVE Sweeping'
      BY <1>2, <1>8, <1>q, <2>1, <2>3 DEF Lock
    <2> QED
      BY <2>2, <2>3
  <1>9. ASSUME NEW f \in Notes, StagePlain(f) PROVE Sweeping'
    BY <1>0, <1>3, <1>9 DEF StagePlain, Attempts, At, Staging
  <1>10. CASE StageCipher \/ PlanUpload
    BY <1>0, <1>3, <1>10 DEF StageCipher, PlanUpload, Turn, Attempts, At, Staging
  <1>11. ASSUME NEW c \in Contents, Upload(c) PROVE Sweeping'
    BY <1>3, <1>11 DEF Upload, At, Staging
  <1>12. CASE Post
    BY <1>0, <1>3, <1>4, <1>12 DEF Post, Turn, Attempts, At, Staging
  <1>13. CASE Finalize \/ AttemptFails
    BY <1>4, <1>13 DEF Finalize, AttemptFails
  <1>14. CASE Killed
    <2>1. attempt'.at = "none" /\ UNCHANGED <<journal, plain, cipher>>
          /\ killed' = (killed \/ journal # "none")
      BY <1>14 DEF Killed, Quit, NoAttempt, staging
    <2>2. NoPlain' = NoPlain
      BY DEF NoPlain
    <2> QED
      BY <1>1, <2>1, <2>2 DEF Sweeping, Planning, Staging
  <1>15. CASE Recover
    BY <1>15 DEF Recover, Sweeping, NoPlain, At, staging
  <1>16. CASE UNCHANGED svars
    BY <1>16 DEF svars, Sweeping, NoPlain
  <1> QED
    BY <1>5, <1>6, <1>7, <1>8, <1>9, <1>10, <1>11, <1>12, <1>13, <1>14, <1>15, <1>16 DEF SNext

\* Whichever way an attempt ends, and whatever a killed client had left, no copy of a
\* note and no intent stays behind but after a kill.
THEOREM StagingLeavesNothing == SSpec => []StagingIsSwept
  <1>1. SInit => SnapshotTypes /\ Sweeping
    <2>1. SInit => attempt.at = "none" /\ journal = "none" /\ plain = NoPlain /\ cipher = {}
      BY DEF SInit, NoAttempt
    <2> QED
      BY <2>1, SnapshotTypesInit DEF Sweeping
  <1>2. SnapshotTypes /\ Sweeping /\ [SNext]_svars => SnapshotTypes' /\ Sweeping'
    BY SnapshotTypesStep, SweepingStep
  <1>3. ASSUME SnapshotTypes, Sweeping PROVE StagingIsSwept
    <2>1. attempt \in Attempts
      BY <1>3 DEF SnapshotTypes
    <2> QED
      BY <1>3, <2>1 DEF Sweeping, StagingIsSwept, Attempts, At
  <1> QED
    BY <1>1, <1>2, <1>3, PTL DEF SSpec

-----------------------------------------------------------------------------
(* Types of what is staged                                                 *)

\* A note that was staged has bytes, so its blob has.
StagedTypes ==
    /\ journal \in {"none", "submitted"}
    /\ plain \in [Notes -> Hashes] /\ cipher \subseteq Contents
    /\ behind \in BOOLEAN /\ killed \in BOOLEAN
    /\ At("stage") => \A f \in Notes \ attempt.todo : plain[f] \in Contents
    /\ At("encrypt") => \A f \in Notes : plain[f] \in Contents

LEMMA SnapshotIsTyped == SnapshotTypes /\ StagedTypes => STypeOK
  <1> SUFFICES ASSUME SnapshotTypes, StagedTypes PROVE STypeOK
    OBVIOUS
  <1>1. onDisk \in [Notes -> [bytes : Contents, mtime : 0 .. MaxMtime]]
    <2>1. 0 .. mtime \subseteq 0 .. MaxMtime
      BY MtimesAreNat DEF SnapshotTypes
    <2> QED
      BY <2>1 DEF SnapshotTypes
  <1> QED
    BY <1>1 DEF SnapshotTypes, StagedTypes, Attempts, Metadata, Hashes, STypeOK

LEMMA StagedTypesInit == SInit => StagedTypes
  <1> SUFFICES ASSUME SInit PROVE StagedTypes
    OBVIOUS
  <1>1. attempt.at = "none"
    BY DEF SInit, NoAttempt
  <1> QED
    BY <1>1 DEF SInit, StagedTypes, NoPlain, Hashes, At

LEMMA StagedTypesStep ==
    SnapshotTypes /\ OneMoment /\ StagedTypes /\ [SNext]_svars => StagedTypes'
  <1> SUFFICES ASSUME SnapshotTypes, OneMoment, StagedTypes, [SNext]_svars PROVE StagedTypes'
    OBVIOUS
  <1>0. /\ attempt \in Attempts /\ plain \in [Notes -> Hashes] /\ cipher \subseteq Contents
        /\ journal \in {"none", "submitted"} /\ behind \in BOOLEAN /\ killed \in BOOLEAN
    BY DEF SnapshotTypes, StagedTypes
  <1>1. ASSUME UNCHANGED <<plain, cipher>>, journal' \in {"none", "submitted"}, behind' \in BOOLEAN,
               killed' \in BOOLEAN, attempt' = attempt \/ attempt'.at \notin {"stage", "encrypt"}
        PROVE  StagedTypes'
    BY <1>1 DEF StagedTypes, Hashes, At
  <1>2. ASSUME Quit, UNCHANGED <<plain, cipher>>, journal' \in {"none", "submitted"},
               behind' \in BOOLEAN, killed' \in BOOLEAN
        PROVE  StagedTypes'
    BY <1>1, <1>2 DEF Quit, NoAttempt
  <1>3. ASSUME EndAttempt, behind' \in BOOLEAN PROVE StagedTypes'
    BY <1>3 DEF EndAttempt, SweepStaging, Quit, StagedTypes, NoPlain, NoAttempt, Hashes, At
  <1>4. ASSUME NEW f \in Notes, NEW c \in Contents, Save(f, c) \/ RestoreVersion(f, c) \/ RemoteCommit(f, c)
        PROVE  StagedTypes'
    <2>1. CASE RestoreVersion(f, c)
      BY <1>0, <1>1, <2>1 DEF RestoreVersion, NoAttempt, staging, backend
    <2> QED
      BY <1>0, <1>1, <1>4, <2>1 DEF Save, RemoteCommit, staging, backend
  <1>5. CASE BeginCommit \/ Planned \/ Detected
    <2>1. attempt'.at \notin {"stage", "encrypt"} \/ Quit
      BY <1>0, <1>5 DEF BeginCommit, Planned, Detected, Turn, NoAttempt, Attempts
    <2> QED
      BY <1>0, <1>1, <1>2, <1>5, <2>1 DEF BeginCommit, Planned, Detected, staging, backend
  <1>6. CASE Lock
    <2>1. CASE Quit /\ UNCHANGED journal
      BY <1>0, <1>2, <1>6, <2>1 DEF Lock, staging, backend
    <2>2. CASE journal' = "submitted" /\ Turn("stage", Notes)
      <3>1. attempt'.at = "stage" /\ attempt'.todo = Notes
        BY <1>0, <2>2 DEF Turn, Attempts
      <3> QED
        BY <1>0, <1>6, <2>2, <3>1 DEF Lock, staging, backend, StagedTypes, Hashes, At
    <2> QED
      BY <1>6, <2>1, <2>2 DEF Lock
  <1>7. ASSUME NEW f \in Notes, Detect(f) \/ ReadBytes(f) \/ PlanRecord(f) \/ Reload(f) PROVE StagedTypes'
    <2>1. attempt'.at \notin {"stage", "encrypt"} \/ Quit
      BY <1>0, <1>7 DEF Detect, ReadBytes, PlanRecord, Reload, At, Attempts
    <2> QED
      BY <1>0, <1>1, <1>2, <1>7, <2>1 DEF Detect, ReadBytes, PlanRecord, Reload, staging, backend
  <1>8. ASSUME NEW f \in Notes, StagePlain(f) PROVE StagedTypes'
    <2>1. attempt.bytes[f] \in Contents
      BY <1>8 DEF StagePlain, At, OneMoment, SnapshotTypes
    <2>2. /\ attempt'.todo = attempt.todo \ {f}
          /\ attempt'.at = IF attempt.todo = {f} THEN "encrypt" ELSE "stage"
      BY <1>0, <1>8 DEF StagePlain, Attempts
    <2>3. plain' = [plain EXCEPT ![f] = attempt.bytes[f]] /\ UNCHANGED <<journal, cipher, behind, killed>>
          /\ At("stage")
      BY <1>8 DEF StagePlain, backend
    <2>4. \A g \in Notes \ attempt'.todo : plain'[g] \in Contents
      BY <1>0, <2>1, <2>2, <2>3 DEF StagedTypes
    <2>5. plain' \in [Notes -> Hashes]
      BY <1>0, <2>1, <2>3 DEF Hashes
    <2>6. attempt'.at = "encrypt" => attempt'.todo = {}
      BY <2>2
    <2> QED
      BY <1>0, <2>2, <2>3, <2>4, <2>5, <2>6 DEF StagedTypes, At, Hashes
  <1>9. CASE StageCipher
    <2>1. Staged \subseteq Contents
      BY <1>9 DEF StageCipher, Staged, StagedTypes
    <2> QED
      BY <1>0, <1>9, <2>1 DEF StageCipher, StagedTypes, backend, At, Hashes
  <1>10. CASE PlanUpload
    <2>1. attempt'.at = "upload"
      BY <1>0, <1>10 DEF PlanUpload, Turn, Attempts
    <2> QED
      BY <1>0, <1>1, <1>10, <2>1 DEF PlanUpload, staging, backend
  <1>11. ASSUME NEW c \in Contents, Upload(c) PROVE StagedTypes'
    BY <1>0, <1>1, <1>11 DEF Upload, staging
  <1>12. CASE Post
    <2>1. CASE EndAttempt
      BY <1>0, <1>3, <1>12, <2>1 DEF Post
    <2>2. CASE Turn("finalize", {}) /\ UNCHANGED <<journal, staging, killed, moments, behind>>
      <3>1. attempt'.at = "finalize"
        BY <1>0, <2>2 DEF Turn, Attempts
      <3> QED
        BY <1>0, <1>1, <2>2, <3>1 DEF staging
    <2> QED
      BY <1>12, <2>1, <2>2 DEF Post
  <1>13. CASE Finalize \/ AttemptFails
    BY <1>0, <1>3, <1>13 DEF Finalize, AttemptFails, backend
  <1>14. CASE Killed
    <2>1. killed' \in BOOLEAN
      BY <1>14 DEF Killed
    <2> QED
      BY <1>0, <1>2, <1>14, <2>1 DEF Killed, staging, backend
  <1>15. CASE Recover
    BY <1>0, <1>1, <1>15 DEF Recover, staging
  <1>16. CASE Pull
    <2>1. attempt'.at = "pulled"
      BY <1>16 DEF Pull, NoAttempt
    <2> QED
      BY <1>0, <1>1, <1>16, <2>1 DEF Pull, staging
  <1>17. CASE NoSubmit
    BY <1>0, <1>2, <1>17 DEF NoSubmit, staging, backend
  <1>18. CASE UNCHANGED svars
    BY <1>0, <1>1, <1>18 DEF svars
  <1> QED
    BY <1>4, <1>5, <1>6, <1>7, <1>8, <1>9, <1>10, <1>11, <1>12, <1>13, <1>14, <1>15, <1>16, <1>17, <1>18
    DEF SNext
=============================================================================
