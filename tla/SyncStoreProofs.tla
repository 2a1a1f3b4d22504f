-------------------------- MODULE SyncStoreProofs --------------------------
(***************************************************************************)
(* What SyncStore guarantees for any number of devices, intents, files and *)
(* blobs, any retention window and any bound on the clock and on the calls *)
(* waiting for the lock.                                                   *)
(***************************************************************************)
EXTENDS SyncStore, TLAPS

-----------------------------------------------------------------------------
(* Facts about the operators                                               *)

\* What CommitStatus = "created" and "replayed" tell.
LEMMA StatusMeaning ==
    ASSUME NEW i \in Intents, NEW m \in Manifest
    PROVE  /\ CommitStatus(i, m) = "created" =>
                 commits[i] = NoCommit /\ m.base = HeadRev /\ RefsUploaded(m)
           /\ CommitStatus(i, m) = "replayed" =>
                 commits[i] # NoCommit /\ commits[i].hash = m
  BY DEF CommitStatus

\* Stamping leaves no null revision and touches only the null ones.
LEMMA StampedTombs ==
    ASSUME NEW tombs \in SUBSET Tombstone, NEW rev \in Nat \ {0}
    PROVE  /\ Stamped(tombs, rev) \in SUBSET Tombstone
           /\ \A t \in Stamped(tombs, rev) :
                 \/ t \in tombs /\ t.rev # 0
                 \/ t.rev = rev /\ [t EXCEPT !.rev = 0] \in tombs
  BY DEF Stamped, Tombstone

\* The file table and the tombstones of a revision have their types.
LEMMA AtTypes ==
    ASSUME TypeOK, NEW r \in 0..HeadRev
    PROVE  FilesAt(r) \in FileTable /\ TombsAt(r) \in SUBSET Tombstone
  <1>1. CASE r = 0
    BY <1>1 DEF FilesAt, TombsAt, FileTable
  <1>2. CASE r # 0
    <2>1. history[r] \in Revision
      BY <1>2 DEF TypeOK, HeadRev
    <2> QED
      BY <1>2, <2>1 DEF FilesAt, TombsAt, Revision
  <1> QED
    BY <1>1, <1>2

\* A collection keeps the types of what it writes.
LEMMA CollectTypes ==
    ASSUME TypeOK, NEW js \in SUBSET Devices, NEW rs \in SUBSET Devices,
           NEW ackOf \in [Devices -> Nat], NEW retention \in Nat,
           Collect(js, rs, ackOf, retention)
    PROVE  /\ history' \in Seq(Revision)
           /\ gcRuns' \in SUBSET [rev : Nat, active : SUBSET Devices, at : Nat,
                                  retention : Nat, reclaimed : SUBSET Tombstone]
  <1> DEFINE active == Active(js, rs)
             reclaimed == Reclaimable(TombsAt(HeadRev), active, ackOf, retention)
  <1>0. HeadRev \in Nat /\ active \in SUBSET Devices /\ now \in Nat
    BY DEF TypeOK, HeadRev, Active
  <1>1. FilesAt(HeadRev) \in FileTable /\ TombsAt(HeadRev) \in SUBSET Tombstone
    BY AtTypes, <1>0
  <1>2. reclaimed \in SUBSET Tombstone
    BY <1>1 DEF Reclaimable
  <1>3. CASE reclaimed = {}
    BY <1>3 DEF Collect, TypeOK
  <1>4. CASE reclaimed # {}
    <2>1. [by |-> Server, base |-> HeadRev, files |-> FilesAt(HeadRev),
           tombs |-> TombsAt(HeadRev) \ reclaimed] \in Revision
      BY <1>0, <1>1 DEF Revision
    <2>2. history' \in Seq(Revision)
      <3>1. history \in Seq(Revision)
        BY DEF TypeOK
      <3>2. history' = Append(history,
               [by |-> Server, base |-> HeadRev, files |-> FilesAt(HeadRev),
                tombs |-> TombsAt(HeadRev) \ reclaimed])
        BY <1>4 DEF Collect
      <3> QED
        BY <2>1, <3>1, <3>2
    <2>3. [rev |-> HeadRev + 1, active |-> active, at |-> now,
           retention |-> retention, reclaimed |-> reclaimed]
             \in [rev : Nat, active : SUBSET Devices, at : Nat,
                  retention : Nat, reclaimed : SUBSET Tombstone]
      BY <1>0, <1>2
    <2>4. gcRuns' = gcRuns \cup
             {[rev |-> HeadRev + 1, active |-> active, at |-> now,
               retention |-> retention, reclaimed |-> reclaimed]}
      BY <1>4 DEF Collect
    <2> QED
      BY <2>2, <2>3, <2>4 DEF TypeOK
  <1> QED
    BY <1>3, <1>4

\* Joining the ack table keeps it typed and acknowledges the revision.
LEMMA JoinEffect ==
    ASSUME TypeOK, NEW d \in Devices, NEW rev \in Nat, Join(d, rev)
    PROVE  /\ joined' \in SUBSET Devices /\ joined' = joined \cup {d}
           /\ acks' \in [Devices -> Nat]
           /\ \A e \in Devices : acks'[e] >= acks[e] /\ (e # d => acks'[e] = acks[e])
           /\ acks'[d] \in {acks[d], rev} /\ acks'[d] >= rev
  BY DEF Join, AckMax, TypeOK

\* What a device sends is a manifest.
LEMMA ClientManifestType ==
    ASSUME TypeOK, NEW d \in Devices, NEW base \in 0..HeadRev,
           NEW m \in ClientManifests(d, base)
    PROVE  m \in Manifest
  <1>1. PICK files \in FileTable, kept \in SUBSET TombsAt(base), pending \in SUBSET Files :
          m = [device |-> d, base |-> base, files |-> files,
               tombs |-> kept \cup PendingTombs(pending)]
    BY DEF ClientManifests
  <1>2. TombsAt(base) \in SUBSET Tombstone
    BY AtTypes
  <1>3. PendingTombs(pending) \in SUBSET Tombstone
    BY DEF TypeOK, Tombstone, PendingTombs
  <1>4. base \in Nat
    BY DEF HeadRev, TypeOK
  <1> QED
    BY <1>1, <1>2, <1>3, <1>4 DEF Manifest

\* The revision a commit writes has its type.
LEMMA CreatedType ==
    ASSUME TypeOK, NEW i \in Intents, NEW m \in Manifest, CreateRevision(i, m)
    PROVE  /\ history' \in Seq(Revision)
           /\ commits' \in [Intents -> Commit]
           /\ joined' \in SUBSET Devices /\ acks' \in [Devices -> Nat]
  <1>0. HeadRev \in Nat
    BY DEF TypeOK, HeadRev
  <1>1. Stamped(m.tombs, HeadRev + 1) \in SUBSET Tombstone
    BY <1>0, StampedTombs DEF Manifest
  <1>2. [by |-> i, base |-> m.base, files |-> m.files,
         tombs |-> Stamped(m.tombs, HeadRev + 1)] \in Revision
    BY <1>1 DEF Manifest, Revision
  <1>3. history' = Append(history,
           [by |-> i, base |-> m.base, files |-> m.files,
            tombs |-> Stamped(m.tombs, HeadRev + 1)])
    BY DEF CreateRevision
  <1>4. history' \in Seq(Revision)
    BY <1>2, <1>3 DEF TypeOK
  <1>5. [hash |-> m, rev |-> HeadRev + 1] \in Commit
    BY <1>0 DEF Commit
  <1>6. commits' = [commits EXCEPT ![i] = [hash |-> m, rev |-> HeadRev + 1]]
    BY DEF CreateRevision
  <1>7. commits' \in [Intents -> Commit]
    BY <1>5, <1>6 DEF TypeOK
  <1>8. joined' \in SUBSET Devices /\ acks' \in [Devices -> Nat]
    <2>1. m.device \in Devices
      BY DEF Manifest
    <2> QED
      BY <1>0, <2>1, JoinEffect DEF CreateRevision
  <1> QED
    BY <1>4, <1>7, <1>8

-----------------------------------------------------------------------------
(* Type correctness                                                        *)

LEMMA TypeInit == Init => TypeOK
  <1> SUFFICES ASSUME Init PROVE TypeOK
    OBVIOUS
  <1>1. history \in Seq(Revision)
    BY DEF Init
  <1>2. commits \in [Intents -> Commit]
    BY DEF Init, Commit
  <1> QED
    BY <1>1, <1>2 DEF Init, TypeOK

LEMMA TypeStep == TypeOK /\ [Next]_vars => TypeOK'
  <1> SUFFICES ASSUME TypeOK, [Next]_vars PROVE TypeOK'
    OBVIOUS
  <1> USE DEF vault, calls
  <1>0. HeadRev \in Nat
    BY DEF TypeOK, HeadRev
  <1>1. ASSUME NEW d \in Devices, NEW i \in Intents, NEW base \in 0..HeadRev,
               NEW m \in ClientManifests(d, base), AuthoriseCommit(d, i, m)
        PROVE TypeOK'
    <2>1. m \in Manifest
      BY <1>1, ClientManifestType
    <2> QED
      BY <1>1, <2>1 DEF AuthoriseCommit, TypeOK
  <1>2. ASSUME NEW i \in Intents, RetryCommit(i)
        PROVE TypeOK'
    <2>1. commits[i].hash \in Manifest
      BY <1>2 DEF RetryCommit, TypeOK, Commit
    <2> QED
      BY <1>2, <2>1 DEF RetryCommit, AuthoriseCommit, TypeOK
  <1>3. ASSUME NEW d \in Devices, NEW rev \in 1..HeadRev, AuthoriseAck(d, rev)
        PROVE TypeOK'
    BY <1>0, <1>3 DEF AuthoriseAck, TypeOK
  <1>4. ASSUME NEW c \in commitCalls, RunCommitCall(c)
        PROVE TypeOK'
    <2>0. c.intent \in Intents /\ c.manifest \in Manifest
      BY DEF TypeOK
    <2>1. CASE CreateRevision(c.intent, c.manifest)
      <3>1. /\ history' \in Seq(Revision)
            /\ commits' \in [Intents -> Commit]
            /\ joined' \in SUBSET Devices /\ acks' \in [Devices -> Nat]
        BY <2>0, <2>1, CreatedType
      <3> QED
        BY <1>4, <2>1, <3>1 DEF RunCommitCall, CreateRevision, TypeOK
    <2>2. CASE ReplayCommit(c.intent, c.manifest)
      <3>1. c.manifest.device \in Devices /\ commits[c.intent].rev \in Nat
        BY <2>0 DEF Manifest, TypeOK, Commit, NoCommit
      <3>2. joined' \in SUBSET Devices /\ acks' \in [Devices -> Nat]
        BY <2>2, <3>1, JoinEffect DEF ReplayCommit
      <3> QED
        BY <1>4, <2>2, <3>2 DEF RunCommitCall, ReplayCommit, TypeOK
    <2>3. CASE RejectCommit(c.intent, c.manifest)
      BY <1>4, <2>3 DEF RunCommitCall, RejectCommit, TypeOK
    <2> QED
      BY <1>4, <2>1, <2>2, <2>3 DEF RunCommitCall, CreateCommit
  <1>5. ASSUME NEW c \in ackCalls, RunAckCall(c)
        PROVE TypeOK'
    <2>0. c.device \in Devices /\ c.rev \in Nat
      BY DEF TypeOK
    <2>1. CASE c.rev > HeadRev
      BY <1>5, <2>1 DEF RunAckCall, AckRevisions, TypeOK
    <2>2. CASE ~ (c.rev > HeadRev)
      <3>1. Join(c.device, c.rev) /\ Collect(joined', revoked, acks', Retention)
            /\ commits' = commits
        BY <1>5, <2>2 DEF RunAckCall, AckRevisions
      <3>2. joined' \in SUBSET Devices /\ acks' \in [Devices -> Nat]
        BY <2>0, <3>1, JoinEffect
      <3>3. revoked \in SUBSET Devices
        BY DEF TypeOK
      <3>4. /\ history' \in Seq(Revision)
            /\ gcRuns' \in SUBSET [rev : Nat, active : SUBSET Devices, at : Nat,
                                   retention : Nat, reclaimed : SUBSET Tombstone]
        BY <3>1, <3>2, <3>3, CollectTypes, RetentionIsNat
      <3> QED
        BY <1>5, <3>1, <3>2, <3>4 DEF RunAckCall, TypeOK
    <2> QED
      BY <2>1, <2>2
  <1>6. ASSUME NEW retention \in {0, Retention}, RunTombstoneGC(retention)
        PROVE TypeOK'
    <2>1. /\ retention \in Nat /\ joined \in SUBSET Devices
          /\ revoked \in SUBSET Devices /\ acks \in [Devices -> Nat]
      BY RetentionIsNat DEF TypeOK
    <2>2. /\ history' \in Seq(Revision)
          /\ gcRuns' \in SUBSET [rev : Nat, active : SUBSET Devices, at : Nat,
                                 retention : Nat, reclaimed : SUBSET Tombstone]
      BY <1>6, <2>1, CollectTypes DEF RunTombstoneGC
    <2> QED
      BY <1>6, <2>2 DEF RunTombstoneGC, TypeOK
  <1>7. ASSUME NEW d \in Devices, DeleteDevice(d)
        PROVE TypeOK'
    <2>1. /\ joined \in SUBSET Devices /\ acks \in [Devices -> Nat]
          /\ revoked' \in SUBSET Devices
      BY <1>7 DEF DeleteDevice, TypeOK
    <2>2. /\ history' \in Seq(Revision)
          /\ gcRuns' \in SUBSET [rev : Nat, active : SUBSET Devices, at : Nat,
                                 retention : Nat, reclaimed : SUBSET Tombstone]
      BY <1>7, <2>1, CollectTypes, RetentionIsNat DEF DeleteDevice
    <2> QED
      BY <1>7, <2>1, <2>2 DEF DeleteDevice, TypeOK
  <1>8. ASSUME NEW b \in Blobs, UploadBlob(b)
        PROVE TypeOK'
    BY <1>8 DEF UploadBlob, TypeOK
  <1>9. CASE Tick
    BY <1>9 DEF Tick, TypeOK
  <1>10. CASE UNCHANGED vars
    BY <1>10 DEF vars, TypeOK
  <1> QED
    BY <1>1, <1>2, <1>3, <1>4, <1>5, <1>6, <1>7, <1>8, <1>9, <1>10 DEF Next

\* The store's variables keep their shape, whatever order calls run in.
THEOREM TypeCorrect == Spec => []TypeOK
  <1>1. Init => TypeOK
    BY TypeInit
  <1>2. TypeOK /\ [Next]_vars => TypeOK'
    BY TypeStep
  <1> QED
    BY <1>1, <1>2, PTL DEF Spec

-----------------------------------------------------------------------------
(* The three shapes of a step                                              *)

\* A collection that reclaims something, with what it had checked.
Collected(active, retention, reclaimed) ==
    /\ reclaimed # {}
    /\ history' = Append(history,
           [by |-> Server, base |-> HeadRev, files |-> FilesAt(HeadRev),
            tombs |-> TombsAt(HeadRev) \ reclaimed])
    /\ gcRuns' = gcRuns \cup
           {[rev |-> HeadRev + 1, active |-> active, at |-> now,
             retention |-> retention, reclaimed |-> reclaimed]}
    /\ active = joined' \ revoked'
    /\ \A t \in reclaimed : /\ t \in TombsAt(HeadRev) /\ t.rev > 0
                            /\ now >= t.at + retention
                            /\ \A d \in active : acks'[d] >= t.rev

CollectStep ==
    /\ UNCHANGED commits
    /\ \E active \in SUBSET Devices, retention \in Nat,
          reclaimed \in SUBSET TombsAt(HeadRev) :
             Collected(active, retention, reclaimed)

CreateStep ==
    \E c \in commitCalls : CreateRevision(c.intent, c.manifest)
                           /\ UNCHANGED <<ackCalls, revoked>>

QuietStep == UNCHANGED <<history, commits, gcRuns>>

LEMMA CollectShape ==
    ASSUME TypeOK, NEW retention \in Nat,
           joined' \in SUBSET Devices, revoked' \in SUBSET Devices,
           Collect(joined', revoked', acks', retention)
    PROVE  \/ UNCHANGED <<history, gcRuns>>
           \/ \E active \in SUBSET Devices, reclaimed \in SUBSET TombsAt(HeadRev) :
                 Collected(active, retention, reclaimed)
  <1> DEFINE active == Active(joined', revoked')
             reclaimed == Reclaimable(TombsAt(HeadRev), active, acks', retention)
  <1>1. CASE reclaimed = {}
    BY <1>1 DEF Collect
  <1>2. CASE reclaimed # {}
    <2>1. active \in SUBSET Devices /\ active = joined' \ revoked'
      BY DEF Active
    <2>2. reclaimed \in SUBSET TombsAt(HeadRev)
      BY DEF Reclaimable
    <2>3. \A t \in reclaimed : /\ t \in TombsAt(HeadRev) /\ t.rev > 0
                               /\ now >= t.at + retention
                               /\ \A d \in active : acks'[d] >= t.rev
      BY DEF Reclaimable
    <2>4. /\ history' = Append(history,
               [by |-> Server, base |-> HeadRev, files |-> FilesAt(HeadRev),
                tombs |-> TombsAt(HeadRev) \ reclaimed])
          /\ gcRuns' = gcRuns \cup
               {[rev |-> HeadRev + 1, active |-> active, at |-> now,
                 retention |-> retention, reclaimed |-> reclaimed]}
      BY <1>2 DEF Collect
    <2>5. Collected(active, retention, reclaimed)
      BY <1>2, <2>1, <2>3, <2>4 DEF Collected
    <2> HIDE DEF active, reclaimed
    <2> QED
      BY <2>1, <2>2, <2>5
  <1> QED
    BY <1>1, <1>2

LEMMA StepShape ==
    ASSUME TypeOK, [Next]_vars
    PROVE  /\ QuietStep \/ CreateStep \/ CollectStep
           /\ \A d \in Devices : acks'[d] >= acks[d]
  <1> DEFINE Shape == /\ QuietStep \/ CreateStep \/ CollectStep
                      /\ \A d \in Devices : acks'[d] >= acks[d]
  <1> USE DEF vault, calls
  <1>0. acks \in [Devices -> Nat]
    BY DEF TypeOK
  <1>a. ASSUME UNCHANGED vault PROVE Shape
    BY <1>0, <1>a DEF QuietStep
  <1>1. CASE \/ \E d \in Devices, i \in Intents, base \in 0..HeadRev :
                   \E m \in ClientManifests(d, base) : AuthoriseCommit(d, i, m)
             \/ \E i \in Intents : RetryCommit(i)
             \/ \E d \in Devices, rev \in 1..HeadRev : AuthoriseAck(d, rev)
             \/ \E b \in Blobs : UploadBlob(b)
             \/ Tick
             \/ UNCHANGED vars
    BY <1>1, <1>a DEF RetryCommit, AuthoriseCommit, AuthoriseAck, UploadBlob, Tick, vars
  <1>2. ASSUME NEW c \in commitCalls, RunCommitCall(c)
        PROVE Shape
    <2>0. c.intent \in Intents /\ c.manifest \in Manifest /\ c.manifest.device \in Devices
      BY DEF TypeOK, Manifest
    <2>1. CASE CreateRevision(c.intent, c.manifest)
      <3>1. HeadRev + 1 \in Nat
        BY DEF HeadRev, TypeOK
      <3>2. \A d \in Devices : acks'[d] >= acks[d]
        BY <2>0, <2>1, <3>1, JoinEffect DEF CreateRevision
      <3> QED
        BY <1>2, <2>1, <3>2 DEF CreateStep, RunCommitCall
    <2>2. CASE ReplayCommit(c.intent, c.manifest)
      <3>1. commits[c.intent].rev \in Nat
        BY <2>0 DEF TypeOK, Commit, NoCommit
      <3> QED
        BY <2>0, <2>2, <3>1, JoinEffect DEF ReplayCommit, QuietStep
    <2>3. CASE RejectCommit(c.intent, c.manifest)
      BY <2>3, <1>a DEF RejectCommit
    <2> QED
      BY <1>2, <2>1, <2>2, <2>3 DEF RunCommitCall, CreateCommit
  <1>3. ASSUME NEW c \in ackCalls, RunAckCall(c)
        PROVE Shape
    <2>0. c.device \in Devices /\ c.rev \in Nat
      BY DEF TypeOK
    <2>1. CASE c.rev > HeadRev
      BY <1>3, <2>1, <1>a DEF RunAckCall, AckRevisions
    <2>2. CASE ~ (c.rev > HeadRev)
      <3>1. Join(c.device, c.rev) /\ Collect(joined', revoked', acks', Retention)
            /\ commits' = commits
        BY <1>3, <2>2 DEF RunAckCall, AckRevisions
      <3>2. joined' \in SUBSET Devices /\ revoked' \in SUBSET Devices
            /\ \A d \in Devices : acks'[d] >= acks[d]
        BY <1>3, <2>0, <3>1, JoinEffect DEF RunAckCall, TypeOK
      <3>3. QuietStep \/ CollectStep
        BY <3>1, <3>2, CollectShape, RetentionIsNat DEF QuietStep, CollectStep
      <3> QED
        BY <3>2, <3>3
    <2> QED
      BY <2>1, <2>2
  <1>4. ASSUME NEW retention \in {0, Retention}, RunTombstoneGC(retention)
        PROVE Shape
    <2>1. retention \in Nat /\ joined' \in SUBSET Devices /\ revoked' \in SUBSET Devices
          /\ acks' = acks
      BY <1>4, RetentionIsNat DEF RunTombstoneGC, TypeOK
    <2>2. Collect(joined', revoked', acks', retention)
      BY <1>4 DEF RunTombstoneGC
    <2>3. QuietStep \/ CollectStep
      BY <1>4, <2>1, <2>2, CollectShape DEF RunTombstoneGC, QuietStep, CollectStep
    <2> QED
      BY <1>0, <2>1, <2>3
  <1>5. ASSUME NEW d \in Devices, DeleteDevice(d)
        PROVE Shape
    <2>1. joined' \in SUBSET Devices /\ revoked' \in SUBSET Devices /\ acks' = acks
      BY <1>5 DEF DeleteDevice, TypeOK
    <2>2. Collect(joined', revoked', acks', Retention)
      BY <1>5 DEF DeleteDevice
    <2>3. QuietStep \/ CollectStep
      BY <1>5, <2>1, <2>2, CollectShape, RetentionIsNat
         DEF DeleteDevice, QuietStep, CollectStep
    <2> QED
      BY <1>0, <2>1, <2>3
  <1> QED
    BY <1>1, <1>2, <1>3, <1>4, <1>5 DEF Next

\* Appending a revision leaves the past alone and moves the head by one.
LEMMA AppendEffect ==
    ASSUME TypeOK, NEW x \in Revision, history' = Append(history, x)
    PROVE  /\ HeadRev \in Nat /\ HeadRev' = HeadRev + 1
           /\ \A r \in 1..HeadRev : history'[r] = history[r]
           /\ history'[HeadRev + 1] = x
  BY DEF TypeOK, HeadRev

\* The two revisions a step can append.
LEMMA CreateAppends ==
    ASSUME TypeOK, NEW c \in commitCalls, CreateRevision(c.intent, c.manifest)
    PROVE  \E x \in Revision :
             /\ history' = Append(history, x)
             /\ x = [by |-> c.intent, base |-> c.manifest.base,
                     files |-> c.manifest.files,
                     tombs |-> Stamped(c.manifest.tombs, HeadRev + 1)]
  <1>1. c.intent \in Intents /\ c.manifest \in Manifest
    BY DEF TypeOK
  <1>2. HeadRev + 1 \in Nat \ {0}
    BY DEF TypeOK, HeadRev
  <1>3. Stamped(c.manifest.tombs, HeadRev + 1) \in SUBSET Tombstone
    BY <1>1, <1>2, StampedTombs DEF Manifest
  <1> QED
    BY <1>1, <1>3 DEF CreateRevision, Revision, Manifest

LEMMA CollectAppends ==
    ASSUME TypeOK, NEW active, NEW retention, NEW reclaimed,
           Collected(active, retention, reclaimed)
    PROVE  \E x \in Revision :
             /\ history' = Append(history, x)
             /\ x = [by |-> Server, base |-> HeadRev, files |-> FilesAt(HeadRev),
                     tombs |-> TombsAt(HeadRev) \ reclaimed]
  <1>1. HeadRev \in Nat
    BY DEF TypeOK, HeadRev
  <1>2. FilesAt(HeadRev) \in FileTable /\ TombsAt(HeadRev) \in SUBSET Tombstone
    BY <1>1, AtTypes
  <1> QED
    BY <1>1, <1>2 DEF Collected, Revision

-----------------------------------------------------------------------------
(* What a step may never do                                                *)

\* Acks never regress and no revision is ever rewritten, whoever calls what.
THEOREM PastNeverChanges == Spec => PastIsFixed
  <1> DEFINE Fixed == /\ \A d \in Devices : acks'[d] >= acks[d]
                      /\ Len(history') >= HeadRev
                      /\ \A r \in 1..HeadRev : history'[r] = history[r]
  <1>1. ASSUME TypeOK, [Next]_vars PROVE Fixed
    <2>1. QuietStep \/ CreateStep \/ CollectStep
      BY <1>1, StepShape
    <2>2. \A d \in Devices : acks'[d] >= acks[d]
      BY <1>1, StepShape
    <2>3. CASE QuietStep
      BY <1>1, <2>2, <2>3 DEF QuietStep, HeadRev, TypeOK
    <2>4. CASE CreateStep
      BY <1>1, <2>2, <2>4, CreateAppends, AppendEffect DEF CreateStep, HeadRev
    <2>5. CASE CollectStep
      BY <1>1, <2>2, <2>5, CollectAppends, AppendEffect DEF CollectStep, HeadRev
    <2> QED
      BY <2>1, <2>3, <2>4, <2>5
  <1>2. TypeOK /\ [Next]_vars => [Fixed]_vars
    BY <1>1
  <1> QED
    BY <1>2, TypeCorrect, PTL DEF Spec, PastIsFixed

\* No delete marker leaves the head by an ack, a revocation, a replay or a
\* collection while an active device has not acknowledged the deletion.
THEOREM MarkersWaitForAcks == Spec => OnlyAckedTombstonesCollected
  <1> DEFINE Waits ==
        \A t \in TombsAt(HeadRev) :
          Len(history') > HeadRev /\ t \notin history'[Len(history')].tombs
             => \/ history'[Len(history')].by # Server
                \/ \A d \in joined' \ revoked' : acks'[d] >= t.rev
  <1>1. ASSUME TypeOK, [Next]_vars PROVE Waits
    <2>1. CASE QuietStep
      BY <1>1, <2>1 DEF QuietStep, HeadRev, TypeOK
    <2>2. CASE CreateStep
      <3>1. PICK c \in commitCalls : CreateRevision(c.intent, c.manifest)
        BY <2>2 DEF CreateStep
      <3>2. c.intent # Server
        BY <1>1, ServerIsNoIntent DEF TypeOK
      <3>3. history'[Len(history')].by = c.intent
        BY <1>1, <3>1, CreateAppends, AppendEffect DEF HeadRev
      <3> QED
        BY <3>2, <3>3
    <2>3. CASE CollectStep
      <3>1. PICK active \in SUBSET Devices, retention \in Nat,
                 reclaimed \in SUBSET TombsAt(HeadRev) :
                   Collected(active, retention, reclaimed)
        BY <2>3 DEF CollectStep
      <3>2. history'[Len(history')].tombs = TombsAt(HeadRev) \ reclaimed
        BY <1>1, <3>1, CollectAppends, AppendEffect DEF HeadRev
      <3> QED
        BY <3>1, <3>2 DEF Collected
    <2> QED
      BY <1>1, <2>1, <2>2, <2>3, StepShape
  <1>2. TypeOK /\ [Next]_vars => [Waits]_vars
    BY <1>1
  <1> QED
    BY <1>2, TypeCorrect, PTL DEF Spec, OnlyAckedTombstonesCollected

-----------------------------------------------------------------------------
(* Exactly-once commits                                                    *)

LEMMA OwnerInit == Init => IntentOwnsOneRevision
  BY DEF Init, IntentOwnsOneRevision, OwnsOne, OwnedBy, HeadRev

\* A revision written by someone else changes nothing for an intent.
LEMMA OwnerUndisturbed ==
    ASSUME TypeOK, NEW i \in Intents, OwnsOne(i), commits'[i] = commits[i],
           HeadRev \in Nat, HeadRev' = HeadRev + 1,
           \A r \in 1..HeadRev : history'[r] = history[r],
           history'[HeadRev + 1].by # i
    PROVE  OwnsOne(i)'
  <1>2. OwnedBy(i)' = OwnedBy(i)
    <2>1. ASSUME NEW r \in 1..(HeadRev + 1)
          PROVE  history'[r].by = i <=> r \in 1..HeadRev /\ history[r].by = i
      <3>1. CASE r = HeadRev + 1
        BY <3>1
      <3>2. CASE r \in 1..HeadRev
        BY <3>2
      <3> QED
        BY <3>1, <3>2
    <2>2. OwnedBy(i)' = {r \in 1..(HeadRev + 1) : history'[r].by = i}
      BY DEF OwnedBy
    <2>3. 1..HeadRev \subseteq 1..(HeadRev + 1)
      OBVIOUS
    <2> QED
      BY <2>1, <2>2, <2>3 DEF OwnedBy
  <1>3. commits[i] # NoCommit => commits[i].rev \in 1..HeadRev
    BY DEF OwnsOne, OwnedBy
  <1> QED
    BY <1>2, <1>3 DEF OwnsOne

LEMMA OwnerShape ==
    ASSUME TypeOK, IntentOwnsOneRevision, QuietStep \/ CreateStep \/ CollectStep
    PROVE  IntentOwnsOneRevision'
  <1> SUFFICES ASSUME NEW i \in Intents PROVE OwnsOne(i)'
    BY DEF IntentOwnsOneRevision
  <1>0. OwnsOne(i)
    BY DEF IntentOwnsOneRevision
  <1>1. CASE QuietStep
    BY <1>0, <1>1 DEF QuietStep, HeadRev, OwnsOne, OwnedBy
  <1>2. CASE CreateStep
    <2>1. PICK c \in commitCalls : CreateRevision(c.intent, c.manifest)
      BY <1>2 DEF CreateStep
    <2>2. c.intent \in Intents /\ c.manifest \in Manifest
      BY DEF TypeOK
    <2>3. PICK x \in Revision :
            /\ history' = Append(history, x)
            /\ x = [by |-> c.intent, base |-> c.manifest.base,
                    files |-> c.manifest.files,
                    tombs |-> Stamped(c.manifest.tombs, HeadRev + 1)]
      BY <2>1, CreateAppends
    <2>4. commits' = [commits EXCEPT ![c.intent] = [hash |-> c.manifest, rev |-> HeadRev + 1]]
      BY <2>1 DEF CreateRevision
    <2>5. CASE c.intent # i
      <3>1. commits'[i] = commits[i]
        BY <2>4, <2>5 DEF TypeOK
      <3>2. /\ HeadRev \in Nat /\ HeadRev' = HeadRev + 1
            /\ \A r \in 1..HeadRev : history'[r] = history[r]
            /\ history'[HeadRev + 1] = x
            /\ x.by # i
        BY <2>3, <2>5, AppendEffect
      <3>3. history'[HeadRev + 1].by # i
        BY <3>2
      <3> QED
        BY <1>0, <3>1, <3>2, <3>3, OwnerUndisturbed
    <2>6. CASE c.intent = i
      <3>1. commits[i] = NoCommit /\ c.manifest.base = HeadRev
        BY <2>1, <2>2, <2>6, StatusMeaning DEF CreateRevision
      <3>2. commits'[i] = [hash |-> c.manifest, rev |-> HeadRev + 1]
        BY <2>4, <2>6 DEF TypeOK
      <3>3. /\ HeadRev \in Nat /\ HeadRev' = HeadRev + 1
            /\ \A r \in 1..HeadRev : history'[r] = history[r]
            /\ history'[HeadRev + 1] = x
            /\ x.by = i /\ x.files = c.manifest.files
        BY <2>3, <2>6, AppendEffect
      <3>4. OwnedBy(i)' = {HeadRev + 1}
        <4>1. \A r \in 1..HeadRev : history'[r].by # i
          BY <1>0, <3>1, <3>3 DEF OwnsOne, OwnedBy
        <4>2. \A r \in 1..(HeadRev + 1) : history'[r].by = i <=> r = HeadRev + 1
          BY <3>3, <4>1
        <4>3. OwnedBy(i)' = {r \in 1..(HeadRev + 1) : history'[r].by = i}
          BY <3>3 DEF OwnedBy
        <4> QED
          BY <3>3, <4>2, <4>3
      <3>5. commits'[i] # NoCommit
        BY <3>2, <3>3 DEF NoCommit
      <3>6. commits'[i].rev = HeadRev + 1 /\ commits'[i].hash = c.manifest
        BY <3>2
      <3>7. history'[commits'[i].rev].files = commits'[i].hash.files
        <4>1. history'[commits'[i].rev] = x
          BY <3>3, <3>6
        <4> QED
          BY <3>3, <3>6, <4>1
      <3>8. commits'[i].hash.base = commits'[i].rev - 1
        BY <3>1, <3>3, <3>6
      <3> QED
        BY <3>4, <3>5, <3>6, <3>7, <3>8 DEF OwnsOne
    <2> QED
      BY <2>5, <2>6
  <1>3. CASE CollectStep
    <2>1. PICK x \in Revision : history' = Append(history, x) /\ x.by = Server
      BY <1>3, CollectAppends DEF CollectStep
    <2>2. Server # i /\ commits'[i] = commits[i]
      BY <1>3, ServerIsNoIntent DEF CollectStep
    <2>3. /\ HeadRev \in Nat /\ HeadRev' = HeadRev + 1
          /\ \A r \in 1..HeadRev : history'[r] = history[r]
          /\ history'[HeadRev + 1].by # i
      BY <2>1, <2>2, AppendEffect
    <2> QED
      BY <1>0, <2>2, <2>3, OwnerUndisturbed
  <1> QED
    BY <1>1, <1>2, <1>3

LEMMA OwnerStep ==
    TypeOK /\ IntentOwnsOneRevision /\ [Next]_vars => IntentOwnsOneRevision'
  BY OwnerShape, StepShape

\* An intent that was committed owns exactly one revision, holding what it
\* sent and built on the revision right before it; any other intent owns none.
THEOREM ExactlyOnce == Spec => []IntentOwnsOneRevision
  <1>1. Init => IntentOwnsOneRevision
    BY OwnerInit
  <1>2. TypeOK /\ IntentOwnsOneRevision /\ [Next]_vars => IntentOwnsOneRevision'
    BY OwnerStep
  <1> QED
    BY <1>1, <1>2, TypeCorrect, PTL DEF Spec

-----------------------------------------------------------------------------
(* The refinement                                                          *)

LogOf(h) == [r \in 1..Len(h) |-> [by |-> h[r].by, on |-> h[r].base, files |-> h[r].files]]

\* Appending to the history is appending to the log.
LEMMA LogAppend ==
    ASSUME TypeOK, NEW x \in Revision, history' = Append(history, x)
    PROVE  LogOf(history)' = Append(LogOf(history),
                                    [by |-> x.by, on |-> x.base, files |-> x.files])
  <1>1. /\ HeadRev \in Nat /\ HeadRev' = HeadRev + 1
        /\ \A r \in 1..HeadRev : history'[r] = history[r]
        /\ history'[HeadRev + 1] = x
    BY AppendEffect
  <1>2. Len(LogOf(history)) = HeadRev
    BY <1>1 DEF LogOf, HeadRev
  <1>3. LogOf(history)' = [r \in 1..(HeadRev + 1) |->
           [by |-> history'[r].by, on |-> history'[r].base, files |-> history'[r].files]]
    BY <1>1 DEF LogOf, HeadRev
  <1>4. \A r \in 1..HeadRev : LogOf(history)[r] =
           [by |-> history[r].by, on |-> history[r].base, files |-> history[r].files]
    BY DEF LogOf, HeadRev
  <1>5. Append(LogOf(history), [by |-> x.by, on |-> x.base, files |-> x.files]) =
           [r \in 1..(HeadRev + 1) |->
              IF r = HeadRev + 1 THEN [by |-> x.by, on |-> x.base, files |-> x.files]
                                 ELSE LogOf(history)[r]]
    BY <1>1, <1>2
  <1>6. ASSUME NEW r \in 1..(HeadRev + 1)
        PROVE  [by |-> history'[r].by, on |-> history'[r].base, files |-> history'[r].files] =
                  IF r = HeadRev + 1 THEN [by |-> x.by, on |-> x.base, files |-> x.files]
                                     ELSE LogOf(history)[r]
    <2>1. CASE r = HeadRev + 1
      BY <1>1, <2>1
    <2>2. CASE r # HeadRev + 1
      <3>1. r \in 1..HeadRev
        BY <1>1, <2>2
      <3> QED
        BY <1>1, <1>4, <2>2, <3>1
    <2> QED
      BY <2>1, <2>2
  <1> HIDE DEF LogOf
  <1> QED
    BY <1>3, <1>5, <1>6

\* The newest entry of the log has the files of the head.
LEMMA HeadFiles ==
    ASSUME TypeOK
    PROVE  /\ Len(LogOf(history)) = HeadRev
           /\ HeadRev # 0 => LogOf(history) # << >> /\ LogOf(history)[HeadRev].files = FilesAt(HeadRev)
  <1>1. HeadRev \in Nat
    BY DEF TypeOK, HeadRev
  <1>2. Len(LogOf(history)) = HeadRev
    BY <1>1 DEF LogOf, HeadRev
  <1>3. ASSUME HeadRev # 0 PROVE LogOf(history)[HeadRev].files = FilesAt(HeadRev)
    BY <1>1, <1>3 DEF LogOf, HeadRev, FilesAt
  <1>4. ASSUME HeadRev # 0 PROVE LogOf(history) # << >>
    BY <1>1, <1>2, <1>4
  <1> QED
    BY <1>2, <1>3, <1>4

\* An intent without a commit record is in no entry of the log.
LEMMA FreshIntent ==
    ASSUME TypeOK, IntentOwnsOneRevision, NEW i \in Intents, commits[i] = NoCommit
    PROVE  \A r \in 1..Len(LogOf(history)) : LogOf(history)[r].by # i
  <1>1. OwnedBy(i) = {}
    BY DEF IntentOwnsOneRevision, OwnsOne
  <1>2. \A r \in 1..HeadRev : history[r].by # i
    BY <1>1 DEF OwnedBy
  <1>3. \A r \in 1..HeadRev : LogOf(history)[r].by = history[r].by
    BY DEF LogOf, HeadRev
  <1> QED
    BY <1>2, <1>3, HeadFiles

\* A step of the store appends at most one entry, as a commit or as a collection.
LEMMA LogShape ==
    ASSUME TypeOK, IntentOwnsOneRevision, QuietStep \/ CreateStep \/ CollectStep
    PROVE  [Log!Next]_(LogOf(history))
  <1>1. CASE QuietStep
    BY <1>1 DEF QuietStep, LogOf
  <1>2. CASE CreateStep
    <2>1. PICK c \in commitCalls : CreateRevision(c.intent, c.manifest)
      BY <1>2 DEF CreateStep
    <2>2. c.intent \in Intents /\ c.manifest \in Manifest
      BY DEF TypeOK
    <2>3. PICK x \in Revision :
            /\ history' = Append(history, x)
            /\ x = [by |-> c.intent, base |-> c.manifest.base, files |-> c.manifest.files,
                    tombs |-> Stamped(c.manifest.tombs, HeadRev + 1)]
      BY <2>1, CreateAppends
    <2>4. commits[c.intent] = NoCommit /\ c.manifest.base = HeadRev
      BY <2>1, <2>2, StatusMeaning DEF CreateRevision
    <2>5. x.by = c.intent /\ x.base = HeadRev /\ x.files = c.manifest.files
      BY <2>3, <2>4
    <2>6. LogOf(history)' = Append(LogOf(history),
             [by |-> c.intent, on |-> Len(LogOf(history)), files |-> c.manifest.files])
      BY <2>3, <2>5, LogAppend, HeadFiles
    <2>7. c.manifest.files \in FileTable
      BY <2>2 DEF Manifest
    <2>8. Log!Commit(c.intent, c.manifest.files)
      BY <2>2, <2>4, <2>6, FreshIntent DEF Log!Commit, Log!Written, LogOf
    <2> QED
      BY <2>2, <2>7, <2>8 DEF Log!Next
  <1>3. CASE CollectStep
    <2>1. PICK active, retention, reclaimed : Collected(active, retention, reclaimed)
      BY <1>3 DEF CollectStep
    <2>2. PICK x \in Revision :
            /\ history' = Append(history, x)
            /\ x = [by |-> Server, base |-> HeadRev, files |-> FilesAt(HeadRev),
                    tombs |-> TombsAt(HeadRev) \ reclaimed]
      BY <2>1, CollectAppends
    <2>3. HeadRev # 0
      BY <2>1 DEF Collected, TombsAt
    <2>4. x.by = Server /\ x.base = HeadRev /\ x.files = FilesAt(HeadRev)
      BY <2>2
    <2>5. LogOf(history)' = Append(LogOf(history),
             [by |-> Server, on |-> HeadRev, files |-> FilesAt(HeadRev)])
      BY <2>2, <2>4, LogAppend
    <2>6. Log!Collect
      BY <2>3, <2>5, HeadFiles DEF Log!Collect, Log!Written, Log!FilesOf, LogOf
    <2> QED
      BY <2>6 DEF Log!Next
  <1> QED
    BY <1>1, <1>2, <1>3

LEMMA LogStep ==
    TypeOK /\ IntentOwnsOneRevision /\ [Next]_vars => [Log!Next]_(LogOf(history))
  BY LogShape, StepShape

\* The vault is a revision log: whatever calls, replays, revocations and collections
\* come in whatever order, an intent is committed at most once, on the newest
\* revision, and a collection changes no file.
THEOREM VaultIsRevisionLog == Spec => ImplementsRevisionLog
  <1>1. Init => Log!Init
    BY DEF Init, Log!Init
  <1>2. TypeOK /\ IntentOwnsOneRevision /\ [Next]_vars => [Log!Next]_(LogOf(history))
    BY LogStep
  <1> QED
    BY <1>1, <1>2, TypeCorrect, ExactlyOnce, PTL DEF Spec, ImplementsRevisionLog, Log!Spec, LogOf

-----------------------------------------------------------------------------
(* Downloads                                                               *)

\* No call takes a blob away.
LEMMA BlobsStay ==
    ASSUME [Next]_vars
    PROVE  blobs \subseteq blobs'
  BY DEF Next, vars, vault, calls, AuthoriseCommit, RetryCommit, AuthoriseAck, RunCommitCall,
         RunAckCall, RunTombstoneGC, DeleteDevice, UploadBlob, Tick

LEMMA DownloadableShape ==
    ASSUME TypeOK, RevisionsAreDownloadable, QuietStep \/ CreateStep \/ CollectStep,
           blobs \subseteq blobs'
    PROVE  RevisionsAreDownloadable'
  <1>1. ASSUME NEW x \in Revision, history' = Append(history, x),
               \A f \in Files : x.files[f] # Absent => x.files[f] \in blobs
        PROVE  RevisionsAreDownloadable'
    <2>1. /\ HeadRev \in Nat /\ HeadRev' = HeadRev + 1
          /\ \A r \in 1..HeadRev : history'[r] = history[r]
          /\ history'[HeadRev + 1] = x
      BY <1>1, AppendEffect
    <2>2. ASSUME NEW r \in 1..HeadRev', NEW f \in Files, history'[r].files[f] # Absent
          PROVE  history'[r].files[f] \in blobs'
      <3>1. CASE r = HeadRev + 1
        BY <1>1, <2>1, <2>2, <3>1
      <3>2. CASE r # HeadRev + 1
        <4>1. r \in 1..HeadRev
          BY <2>1, <3>2
        <4>2. history[r].files[f] \in blobs
          BY <2>1, <2>2, <4>1 DEF RevisionsAreDownloadable
        <4> QED
          BY <2>1, <4>1, <4>2
      <3> QED
        BY <3>1, <3>2
    <2> QED
      BY <2>2 DEF RevisionsAreDownloadable
  <1>2. CASE QuietStep
    BY <1>2 DEF QuietStep, RevisionsAreDownloadable, HeadRev
  <1>3. CASE CreateStep
    <2>1. PICK c \in commitCalls : CreateRevision(c.intent, c.manifest)
      BY <1>3 DEF CreateStep
    <2>2. c.intent \in Intents /\ c.manifest \in Manifest
      BY DEF TypeOK
    <2>3. PICK x \in Revision :
            /\ history' = Append(history, x)
            /\ x = [by |-> c.intent, base |-> c.manifest.base, files |-> c.manifest.files,
                    tombs |-> Stamped(c.manifest.tombs, HeadRev + 1)]
      BY <2>1, CreateAppends
    <2>4. RefsUploaded(c.manifest)
      BY <2>1, <2>2, StatusMeaning DEF CreateRevision
    <2> QED
      BY <1>1, <2>3, <2>4 DEF RefsUploaded
  <1>4. CASE CollectStep
    <2>1. PICK active, retention, reclaimed : Collected(active, retention, reclaimed)
      BY <1>4 DEF CollectStep
    <2>2. PICK x \in Revision :
            /\ history' = Append(history, x)
            /\ x = [by |-> Server, base |-> HeadRev, files |-> FilesAt(HeadRev),
                    tombs |-> TombsAt(HeadRev) \ reclaimed]
      BY <2>1, CollectAppends
    <2>3. HeadRev \in Nat \ {0} /\ x.files = history[HeadRev].files
      BY <2>1, <2>2 DEF Collected, TombsAt, FilesAt, TypeOK, HeadRev
    <2>4. \A f \in Files : x.files[f] # Absent => x.files[f] \in blobs
      BY <2>3 DEF RevisionsAreDownloadable
    <2> QED
      BY <1>1, <2>2, <2>4
  <1> QED
    BY <1>2, <1>3, <1>4

LEMMA DownloadableStep ==
    TypeOK /\ RevisionsAreDownloadable /\ [Next]_vars => RevisionsAreDownloadable'
  BY DownloadableShape, BlobsStay, StepShape

\* Every file of every revision has its blob, however late the commit call runs.
THEOREM AllDownloadable == Spec => []RevisionsAreDownloadable
  <1>1. Init => RevisionsAreDownloadable
    BY DEF Init, RevisionsAreDownloadable, HeadRev
  <1>2. TypeOK /\ RevisionsAreDownloadable /\ [Next]_vars => RevisionsAreDownloadable'
    BY DownloadableStep
  <1> QED
    BY <1>1, <1>2, TypeCorrect, PTL DEF Spec

-----------------------------------------------------------------------------
(* Tombstones                                                              *)

TombsIn(h, r) == IF r = 0 THEN {} ELSE h[r].tombs

\* What a device sends: its stamped tombstones are of the revision it builds on.
Honest(h, m) ==
    /\ m.base \in 0..Len(h)
    /\ \A t \in m.tombs : t.rev # 0 => t \in TombsIn(h, m.base)

\* The invariant: what is waiting, and what may be sent again, is such a manifest.
CallsAreHonest ==
    /\ \A c \in commitCalls : Honest(history, c.manifest)
    /\ \A i \in Intents : commits[i] # NoCommit => Honest(history, commits[i].hash)

\* A manifest stays what it is when revisions are appended.
LEMMA HonestStays ==
    ASSUME TypeOK, [Next]_vars, NEW m \in Manifest, Honest(history, m)
    PROVE  Honest(history', m)
  <1>1. /\ HeadRev \in Nat /\ HeadRev' \in Nat /\ HeadRev' >= HeadRev
        /\ \A r \in 1..HeadRev : history'[r] = history[r]
    <2>1. CASE QuietStep
      BY <2>1 DEF QuietStep, HeadRev, TypeOK
    <2>2. CASE CreateStep
      <3>1. PICK x \in Revision : history' = Append(history, x)
        BY <2>2, CreateAppends DEF CreateStep
      <3>2. HeadRev \in Nat /\ HeadRev' = HeadRev + 1 /\ \A r \in 1..HeadRev : history'[r] = history[r]
        BY <3>1, AppendEffect
      <3> QED
        BY <3>2
    <2>3. CASE CollectStep
      <3>1. PICK x \in Revision : history' = Append(history, x)
        BY <2>3, CollectAppends DEF CollectStep
      <3>2. HeadRev \in Nat /\ HeadRev' = HeadRev + 1 /\ \A r \in 1..HeadRev : history'[r] = history[r]
        BY <3>1, AppendEffect
      <3> QED
        BY <3>2
    <2> QED
      BY <2>1, <2>2, <2>3, StepShape
  <1>2. m.base \in 0..Len(history')
    BY <1>1 DEF Honest, HeadRev
  <1>3. TombsIn(history', m.base) = TombsIn(history, m.base)
    BY <1>1 DEF Honest, TombsIn, HeadRev
  <1> QED
    BY <1>2, <1>3 DEF Honest

LEMMA ClientsAreHonest ==
    ASSUME TypeOK, NEW d \in Devices, NEW base \in 0..HeadRev,
           NEW m \in ClientManifests(d, base)
    PROVE  Honest(history, m)
  <1>1. PICK files \in FileTable, kept \in SUBSET TombsAt(base), pending \in SUBSET Files :
          m = [device |-> d, base |-> base, files |-> files,
               tombs |-> kept \cup PendingTombs(pending)]
    BY DEF ClientManifests
  <1>2. \A t \in PendingTombs(pending) : t.rev = 0
    BY DEF PendingTombs
  <1>3. \A t \in m.tombs : t.rev # 0 => t \in TombsIn(history, m.base)
    BY <1>1, <1>2 DEF TombsAt, TombsIn
  <1> QED
    BY <1>1, <1>3 DEF Honest, HeadRev

LEMMA HonestStep ==
    ASSUME TypeOK, CallsAreHonest, [Next]_vars
    PROVE  CallsAreHonest'
  <1> USE DEF vault, calls
  <1>0. /\ \A c \in commitCalls : c.manifest \in Manifest /\ Honest(history', c.manifest)
        /\ \A i \in Intents : commits[i] # NoCommit =>
              commits[i].hash \in Manifest /\ Honest(history', commits[i].hash)
    BY HonestStays DEF TypeOK, CallsAreHonest, Commit
  <1>1. ASSUME NEW d \in Devices, NEW i \in Intents, NEW m \in Manifest, Honest(history', m),
               AuthoriseCommit(d, i, m)
        PROVE  CallsAreHonest'
    BY <1>0, <1>1 DEF AuthoriseCommit, CallsAreHonest
  <1>2. ASSUME UNCHANGED commits, commitCalls' \subseteq commitCalls
        PROVE  CallsAreHonest'
    BY <1>0, <1>2 DEF CallsAreHonest
  <1>3. ASSUME NEW d \in Devices, NEW i \in Intents, NEW base \in 0..HeadRev,
               NEW m \in ClientManifests(d, base), AuthoriseCommit(d, i, m)
        PROVE  CallsAreHonest'
    BY <1>1, <1>3, ClientsAreHonest, ClientManifestType, HonestStays
  <1>4. ASSUME NEW i \in Intents, RetryCommit(i)
        PROVE  CallsAreHonest'
    <2>1. commits[i] # NoCommit
      BY <1>4 DEF RetryCommit
    <2>2. commits[i].hash \in Manifest /\ Honest(history', commits[i].hash)
      BY <1>0, <2>1
    <2>3. commits[i].hash.device \in Devices
      BY <2>2 DEF Manifest
    <2> QED
      BY <1>1, <1>4, <2>2, <2>3 DEF RetryCommit
  <1>5. ASSUME NEW c \in commitCalls, RunCommitCall(c)
        PROVE  CallsAreHonest'
    <2>1. CASE CreateRevision(c.intent, c.manifest)
      <3>1. c.intent \in Intents /\ commits \in [Intents -> Commit]
        BY DEF TypeOK
      <3>2. \A i \in Intents : commits'[i] = IF i = c.intent
               THEN [hash |-> c.manifest, rev |-> HeadRev + 1] ELSE commits[i]
        BY <2>1, <3>1 DEF CreateRevision
      <3>3. \A i \in Intents : commits'[i] # NoCommit => Honest(history', commits'[i].hash)
        BY <1>0, <3>2
      <3>4. commitCalls' \subseteq commitCalls
        BY <1>5 DEF RunCommitCall
      <3> QED
        BY <1>0, <3>3, <3>4 DEF CallsAreHonest
    <2>2. CASE ~CreateRevision(c.intent, c.manifest)
      BY <1>2, <1>5, <2>2 DEF RunCommitCall, CreateCommit, ReplayCommit, RejectCommit
    <2> QED
      BY <2>1, <2>2
  <1>6. ASSUME NEW c \in ackCalls, RunAckCall(c)
        PROVE  CallsAreHonest'
    BY <1>2, <1>6 DEF RunAckCall, AckRevisions
  <1>7. ASSUME NEW retention \in {0, Retention}, RunTombstoneGC(retention)
        PROVE  CallsAreHonest'
    BY <1>2, <1>7 DEF RunTombstoneGC
  <1>8. ASSUME NEW d \in Devices, DeleteDevice(d)
        PROVE  CallsAreHonest'
    BY <1>2, <1>8 DEF DeleteDevice
  <1>9. ASSUME \/ \E b \in Blobs : UploadBlob(b)
               \/ \E d \in Devices, rev \in 1..HeadRev : AuthoriseAck(d, rev)
               \/ Tick \/ UNCHANGED vars
        PROVE  CallsAreHonest'
    BY <1>2, <1>9 DEF UploadBlob, AuthoriseAck, Tick, vars
  <1> QED
    BY <1>3, <1>4, <1>5, <1>6, <1>7, <1>8, <1>9 DEF Next

\* What StampNamesItsCommit says of one tombstone of revision r.
Names(h, cs, t, r) ==
    /\ t.rev \in 1..r
    /\ h[t.rev].by # Server
    /\ t \in h[t.rev].tombs
    /\ cs[h[t.rev].by].rev = t.rev
    /\ [t EXCEPT !.rev = 0] \in cs[h[t.rev].by].hash.tombs

\* The tombstones of the new revision name their commits if they are old ones of the
\* head, or pending ones of the commit that became the revision; and a commit that
\* has become a revision stays what it is.
LEMMA AppendedTombs ==
    ASSUME TypeOK, StampNamesItsCommit, NEW x \in Revision, history' = Append(history, x),
           \A i \in Intents : commits[i] # NoCommit => commits'[i] = commits[i],
           \A t \in x.tombs :
              \/ t \in TombsAt(HeadRev)
              \/ /\ t.rev = HeadRev + 1 /\ x.by # Server
                 /\ commits'[x.by].rev = HeadRev + 1
                 /\ [t EXCEPT !.rev = 0] \in commits'[x.by].hash.tombs
    PROVE  StampNamesItsCommit'
  <1>1. /\ HeadRev \in Nat /\ HeadRev' = HeadRev + 1
        /\ \A r \in 1..HeadRev : history'[r] = history[r]
        /\ history'[HeadRev + 1] = x
    BY AppendEffect
  <1>2. ASSUME NEW r \in 1..HeadRev, NEW t \in history[r].tombs, NEW q \in {r, HeadRev + 1}
        PROVE  Names(history', commits', t, q)
    <2>1. Names(history, commits, t, r)
      BY DEF StampNamesItsCommit, Names
    <2>2. t.rev \in 1..HeadRev /\ t.rev \in 1..q
      BY <1>1, <2>1 DEF Names
    <2>3. history'[t.rev] = history[t.rev]
      BY <1>1, <2>2
    <2>4. history[t.rev] \in Revision
      BY <2>2 DEF TypeOK, HeadRev
    <2>a. history[t.rev].by \in Intents
      BY <2>1, <2>4 DEF Names, Revision
    <2>5. commits[history[t.rev].by] # NoCommit
      BY <2>1, <2>2 DEF Names, NoCommit
    <2>6. commits'[history[t.rev].by] = commits[history[t.rev].by]
      BY <2>a, <2>5
    <2> QED
      BY <2>1, <2>2, <2>3, <2>6 DEF Names
  <1>3. ASSUME NEW t \in x.tombs
        PROVE  Names(history', commits', t, HeadRev + 1)
    <2>1. CASE t \in TombsAt(HeadRev)
      <3>1. HeadRev \in 1..HeadRev /\ t \in history[HeadRev].tombs
        BY <1>1, <2>1 DEF TombsAt
      <3> QED
        BY <1>2, <3>1
    <2>2. CASE /\ t.rev = HeadRev + 1 /\ x.by # Server
               /\ commits'[x.by].rev = HeadRev + 1
               /\ [t EXCEPT !.rev = 0] \in commits'[x.by].hash.tombs
      <3>0. HeadRev + 1 \in 1..(HeadRev + 1) /\ history'[HeadRev + 1] = x
        BY <1>1
      <3>1. history'[t.rev] = x /\ t.rev \in 1..(HeadRev + 1)
        BY <2>2, <3>0, Zenon
      <3> QED
        BY <1>3, <2>2, <3>1 DEF Names
    <2> QED
      BY <2>1, <2>2
  <1>4. ASSUME NEW r \in 1..HeadRev', NEW t \in history'[r].tombs
        PROVE  Names(history', commits', t, r)
    <2>1. CASE r = HeadRev + 1
      BY <1>1, <1>3, <1>4, <2>1
    <2>2. CASE r # HeadRev + 1
      <3>0. r \in 1..HeadRev
        BY <1>1, <2>2
      <3>1. t \in history[r].tombs
        BY <1>1, <1>4, <3>0, Zenon
      <3> QED
        BY <1>2, <3>0, <3>1
    <2> QED
      BY <2>1, <2>2
  <1> QED
    BY <1>4 DEF StampNamesItsCommit, Names

LEMMA TombstoneStep ==
    ASSUME TypeOK, StampNamesItsCommit, CallsAreHonest, [Next]_vars
    PROVE  StampNamesItsCommit'
  <1>1. CASE QuietStep
    BY <1>1 DEF QuietStep, StampNamesItsCommit, HeadRev
  <1>2. CASE CreateStep
    <2>1. PICK c \in commitCalls : CreateRevision(c.intent, c.manifest)
      BY <1>2 DEF CreateStep
    <2>2. c.intent \in Intents /\ c.manifest \in Manifest
      BY DEF TypeOK
    <2>3. PICK x \in Revision :
            /\ history' = Append(history, x)
            /\ x = [by |-> c.intent, base |-> c.manifest.base, files |-> c.manifest.files,
                    tombs |-> Stamped(c.manifest.tombs, HeadRev + 1)]
      BY <2>1, CreateAppends
    <2>4. c.manifest.base = HeadRev /\ Honest(history, c.manifest)
      BY <2>1, <2>2, StatusMeaning DEF CreateRevision, CallsAreHonest
    <2>5. /\ x.by = c.intent /\ x.files = c.manifest.files
          /\ x.tombs = Stamped(c.manifest.tombs, HeadRev + 1)
      BY <2>3
    <2>6. x.by # Server
      BY <2>2, <2>5, ServerIsNoIntent
    <2>7. c.manifest.tombs \in SUBSET Tombstone /\ HeadRev + 1 \in Nat \ {0}
      BY <2>2 DEF Manifest, TypeOK, HeadRev
    <2>8. \A t \in x.tombs : \/ t \in TombsAt(HeadRev)
                             \/ /\ t.rev = HeadRev + 1
                                /\ [t EXCEPT !.rev = 0] \in c.manifest.tombs
      <3>1. ASSUME NEW t \in x.tombs
            PROVE  \/ t \in c.manifest.tombs /\ t.rev # 0
                   \/ t.rev = HeadRev + 1 /\ [t EXCEPT !.rev = 0] \in c.manifest.tombs
        <4>1. \A u \in Stamped(c.manifest.tombs, HeadRev + 1) :
                 \/ u \in c.manifest.tombs /\ u.rev # 0
                 \/ u.rev = HeadRev + 1 /\ [u EXCEPT !.rev = 0] \in c.manifest.tombs
          BY <2>7, StampedTombs, Zenon
        <4> QED
          BY <2>5, <3>1, <4>1
      <3>2. \A t \in c.manifest.tombs : t.rev # 0 => t \in TombsAt(HeadRev)
        BY <2>4 DEF Honest, TombsIn, TombsAt
      <3> QED
        BY <3>1, <3>2
    <2>9. /\ commits[c.intent] = NoCommit
          /\ commits' = [commits EXCEPT ![c.intent] = [hash |-> c.manifest, rev |-> HeadRev + 1]]
      BY <2>1, <2>2, StatusMeaning DEF CreateRevision
    <2>10. /\ commits'[c.intent] = [hash |-> c.manifest, rev |-> HeadRev + 1]
           /\ \A i \in Intents : commits[i] # NoCommit => commits'[i] = commits[i]
      BY <2>2, <2>9 DEF TypeOK
    <2>11. /\ commits'[x.by].rev = HeadRev + 1
           /\ commits'[x.by].hash.tombs = c.manifest.tombs
      BY <2>5, <2>10
    <2>12. \A t \in x.tombs :
              \/ t \in TombsAt(HeadRev)
              \/ /\ t.rev = HeadRev + 1 /\ x.by # Server
                 /\ commits'[x.by].rev = HeadRev + 1
                 /\ [t EXCEPT !.rev = 0] \in commits'[x.by].hash.tombs
      BY <2>6, <2>8, <2>11
    <2> QED
      BY <2>3, <2>10, <2>12, AppendedTombs
  <1>3. CASE CollectStep
    <2>1. PICK active, retention, reclaimed : Collected(active, retention, reclaimed)
      BY <1>3 DEF CollectStep
    <2>2. PICK x \in Revision :
            /\ history' = Append(history, x)
            /\ x = [by |-> Server, base |-> HeadRev, files |-> FilesAt(HeadRev),
                    tombs |-> TombsAt(HeadRev) \ reclaimed]
      BY <2>1, CollectAppends
    <2>3. \A t \in x.tombs : t \in TombsAt(HeadRev)
      BY <2>2
    <2>4. \A i \in Intents : commits[i] # NoCommit => commits'[i] = commits[i]
      BY <1>3 DEF CollectStep
    <2> QED
      BY <2>2, <2>3, <2>4, AppendedTombs
  <1> QED
    BY <1>1, <1>2, <1>3, StepShape

\* A tombstone is stamped with the revision of the one commit that sent it pending,
\* also when that commit lists the file, ran long after it was authorised, or was
\* sent again; replays and collections never stamp it anew.
THEOREM TombstonesAreStamped == Spec => []StampNamesItsCommit
  <1>1. Init => StampNamesItsCommit /\ CallsAreHonest
    BY DEF Init, StampNamesItsCommit, CallsAreHonest, HeadRev
  <1>2. TypeOK /\ StampNamesItsCommit /\ CallsAreHonest /\ [Next]_vars
           => StampNamesItsCommit' /\ CallsAreHonest'
    BY TombstoneStep, HonestStep
  <1> QED
    BY <1>1, <1>2, TypeCorrect, PTL DEF Spec
=============================================================================
