----------------------------- MODULE SyncStore -----------------------------
(***************************************************************************)
(* One vault of the backend's SyncStore: manifests chained by revision,    *)
(* compare-and-swap commits made idempotent by their intent, per-device    *)
(* acks, device revocation and tombstone garbage collection.               *)
(*                                                                         *)
(* Every store method runs under the store's lock and is one action.  An   *)
(* HTTP request is two: main.py authorises the token under the lock, lets  *)
(* it go, and then calls the store; a call that was authorised and has not *)
(* run yet is in commitCalls or ackCalls.                                  *)
(***************************************************************************)
EXTENDS Naturals, Sequences, FiniteSets

CONSTANTS Devices, Intents, Files, Blobs,
          Absent,        \* "this file is not in the manifest"
          Server,        \* the author of a collection revision
          Retention,     \* min_retention_ms, in clock ticks
          MaxTime,       \* bound: clock
          MaxCalls       \* bound: authorised calls waiting for the lock

ASSUME AbsentIsNoBlob == Absent \notin Blobs
ASSUME ServerIsNoIntent == Server \notin Intents
ASSUME RetentionIsNat == Retention \in Nat

VARIABLES history,      \* vault.manifests, in revision order; head = its length
          commits,      \* vault.commits: intent -> what it became
          joined,       \* keys of vault.acks
          acks,         \* vault.acks, 0 for a device that has none
          revoked,      \* devices with revoked = true
          blobs,        \* uploaded blobs
          gcRuns,       \* vault.tombstone_gc.runs that reclaimed something
          now,          \* wall clock
          commitCalls,  \* authorised create_commit calls not yet run
          ackCalls      \* authorised ack_revisions calls not yet run

vault == <<history, commits, joined, acks, gcRuns>>
calls == <<commitCalls, ackCalls>>
vars == <<history, commits, joined, acks, revoked, blobs, gcRuns, now,
          commitCalls, ackCalls>>

-----------------------------------------------------------------------------
(* Manifests                                                               *)

FileTable == [Files -> Blobs \cup {Absent}]

\* rev = 0 is a null deleted_revision: pending, to be stamped by the commit.
Tombstone == [file : Files, rev : Nat, at : Nat]

\* What a device puts in a create_commit payload.  compute_intent_manifest_hash
\* digests exactly these fields, so the manifest stands for its own hash.
Manifest == [device : Devices, base : Nat, files : FileTable,
             tombs : SUBSET Tombstone]

Revision == [by : Intents \cup {Server}, base : Nat, files : FileTable,
             tombs : SUBSET Tombstone]

NoCommit == [hash |-> Server, rev |-> 0]
Commit == [hash : Manifest, rev : Nat] \cup {NoCommit}

HeadRev == Len(history)
FilesAt(r) == IF r = 0 THEN [f \in Files |-> Absent] ELSE history[r].files
TombsAt(r) == IF r = 0 THEN {} ELSE history[r].tombs

\* Fault: stamp with the revision the commit was built on.
StampedWithBase(tombs, rev) ==
    {[t EXCEPT !.rev = IF t.rev = 0 THEN rev - 1 ELSE t.rev] : t \in tombs}

Stamped(tombs, rev) ==
    {[t EXCEPT !.rev = IF t.rev = 0 THEN rev ELSE t.rev] : t \in tombs}

\* Fault: the last ack wins.
AckLast(old, rev) == rev

AckMax(old, rev) == IF rev > old THEN rev ELSE old

\* Fault: only the blobs of files the base has too are looked up.
OldRefsUploaded(m) ==
    \A f \in Files : FilesAt(m.base)[f] # Absent /\ m.files[f] # Absent
                        => m.files[f] \in blobs

RefsUploaded(m) ==
    \A f \in Files : m.files[f] # Absent => m.files[f] \in blobs

-----------------------------------------------------------------------------
(* Tombstone garbage collection                                            *)

Active(js, rs) == js \ rs

\* Faults: one ack is enough; an ack of the deletion itself does not count.
ReclaimableByOne(tombs, active, ackOf, retention) ==
    {t \in tombs : /\ t.rev > 0
                   /\ now >= t.at + retention
                   /\ \E d \in active : ackOf[d] >= t.rev}

ReclaimableLate(tombs, active, ackOf, retention) ==
    {t \in tombs : /\ t.rev > 0
                   /\ now >= t.at + retention
                   /\ \A d \in active : ackOf[d] > t.rev}

\* A tombstone is dropped when it has been stamped, every active device has
\* acknowledged its revision and the retention window has passed since the
\* deletion time the client wrote.
Reclaimable(tombs, active, ackOf, retention) ==
    {t \in tombs : /\ t.rev > 0
                   /\ now >= t.at + retention
                   /\ \A d \in active : ackOf[d] >= t.rev}

\* The collection as every caller runs it, inside the caller's lock, on the
\* acks and revocations the caller has just written.
Collect(js, rs, ackOf, retention) ==
    LET active    == Active(js, rs)
        reclaimed == Reclaimable(TombsAt(HeadRev), active, ackOf, retention)
    IN  IF reclaimed = {} 
        THEN UNCHANGED <<history, gcRuns>>
        ELSE /\ history' = Append(history,
                    [by |-> Server, base |-> HeadRev, files |-> FilesAt(HeadRev),
                     tombs |-> TombsAt(HeadRev) \ reclaimed])
             /\ gcRuns' = gcRuns \cup
                    {[rev |-> HeadRev + 1, active |-> active, at |-> now,
                      retention |-> retention, reclaimed |-> reclaimed]}

-----------------------------------------------------------------------------
(* Store methods                                                           *)

\* Fault: vault.acks is read without its default of 0.
InitWithoutAcks ==
    /\ history = << >>
    /\ commits = [i \in Intents |-> NoCommit]
    /\ joined = {}
    /\ acks = << >>
    /\ revoked = {}
    /\ blobs = {}
    /\ gcRuns = {}
    /\ now = 0
    /\ commitCalls = {}
    /\ ackCalls = {}

Init ==
    /\ history = << >>
    /\ commits = [i \in Intents |-> NoCommit]
    /\ joined = {}
    /\ acks = [d \in Devices |-> 0]
    /\ revoked = {}
    /\ blobs = {}
    /\ gcRuns = {}
    /\ now = 0
    /\ commitCalls = {}
    /\ ackCalls = {}

Join(d, rev) ==
    /\ joined' = joined \cup {d}
    /\ acks' = [acks EXCEPT ![d] = AckMax(@, rev)]

\* Faults: the base is not compared with the head; an intent is not looked up.
StatusWithoutBase(i, m) ==
    CASE commits[i] # NoCommit /\ commits[i].hash = m -> "replayed"
      [] commits[i] # NoCommit /\ commits[i].hash # m -> "manifest_conflict"
      [] commits[i] = NoCommit /\ ~RefsUploaded(m)    -> "blob_not_uploaded"
      [] OTHER -> "created"

StatusWithoutIntent(i, m) ==
    IF m.base # HeadRev THEN "base_revision_conflict" ELSE "created"

\* What create_commit answers: 200 for a new or a replayed intent, 409 with
\* one of two codes, 400 when a blob has not been uploaded.
CommitStatus(i, m) ==
    CASE commits[i] # NoCommit /\ commits[i].hash = m -> "replayed"
      [] commits[i] # NoCommit /\ commits[i].hash # m -> "manifest_conflict"
      [] commits[i] = NoCommit /\ m.base # HeadRev       -> "base_revision_conflict"
      [] commits[i] = NoCommit /\ m.base = HeadRev /\ ~RefsUploaded(m) -> "blob_not_uploaded"
      [] OTHER -> "created"

CreateRevision(i, m) ==
    /\ CommitStatus(i, m) = "created"
    /\ history' = Append(history,
           [by |-> i, base |-> m.base, files |-> m.files,
            tombs |-> Stamped(m.tombs, HeadRev + 1)])
    /\ commits' = [commits EXCEPT ![i] = [hash |-> m, rev |-> HeadRev + 1]]
    /\ Join(m.device, HeadRev + 1)
    /\ UNCHANGED gcRuns

ReplayCommit(i, m) ==
    /\ CommitStatus(i, m) = "replayed"
    /\ Join(m.device, commits[i].rev)
    /\ UNCHANGED <<history, commits, gcRuns>>

RejectCommit(i, m) ==
    /\ CommitStatus(i, m) \notin {"created", "replayed"}
    /\ UNCHANGED vault

CreateCommit(i, m) == CreateRevision(i, m) \/ ReplayCommit(i, m) \/ RejectCommit(i, m)

AckRevisions(d, rev) ==
    IF rev > HeadRev
    THEN UNCHANGED vault                      \* ack_revision_ahead_of_head
    ELSE /\ Join(d, rev)
         /\ Collect(joined', revoked, acks', Retention)
         /\ UNCHANGED commits

\* The worker uses the configured retention; the manual endpoint lets the
\* operator override it.
RunTombstoneGC(retention) ==
    /\ Collect(joined, revoked, acks, retention)
    /\ UNCHANGED <<commits, joined, acks, revoked, blobs, now, calls>>

DeleteDevice(d) ==
    /\ Devices \ revoked # {}                 \* someone can authorise the call
    /\ revoked' = revoked \cup {d}
    /\ Collect(joined, revoked', acks, Retention)
    /\ UNCHANGED <<commits, joined, acks, blobs, now, calls>>

UploadBlob(b) ==
    /\ blobs' = blobs \cup {b}
    /\ UNCHANGED <<vault, revoked, now, calls>>

Tick ==
    /\ now < MaxTime
    /\ now' = now + 1
    /\ UNCHANGED <<vault, revoked, blobs, calls>>

-----------------------------------------------------------------------------
(* Requests.  A device writes a manifest on a revision it has pulled: it   *)
(* carries tombstones of that revision over (its ledger may hold fewer)    *)
(* and adds pending ones, of files it lists too: a pull makes the record   *)
(* of a file active again and keeps the deletion the user made before.  A  *)
(* file it removed has a tombstone, or build_commit_manifest refuses.      *)

PendingTombs(files) == {[file |-> f, rev |-> 0, at |-> now] : f \in files}

ClientManifests(d, base) ==
    {[device |-> d, base |-> base, files |-> files, tombs |-> kept \cup PendingTombs(pending)] :
        files \in FileTable, kept \in SUBSET TombsAt(base), pending \in SUBSET Files}

Sendable(m) ==
    \A f \in Files : FilesAt(m.base)[f] # Absent /\ m.files[f] = Absent
                        => \E t \in m.tombs : t.file = f

CallsFit == Cardinality(commitCalls) + Cardinality(ackCalls) < MaxCalls

AuthoriseCommit(d, i, m) ==
    /\ CallsFit
    /\ d \notin revoked
    /\ commitCalls' = commitCalls \cup {[intent |-> i, manifest |-> m]}
    /\ UNCHANGED <<vault, revoked, blobs, now, ackCalls>>

AuthoriseAck(d, rev) ==
    /\ CallsFit
    /\ d \notin revoked
    /\ ackCalls' = ackCalls \cup {[device |-> d, rev |-> rev]}
    /\ UNCHANGED <<vault, revoked, blobs, now, commitCalls>>

RunCommitCall(c) ==
    /\ CreateCommit(c.intent, c.manifest)
    /\ commitCalls' = commitCalls \ {c}
    /\ UNCHANGED <<revoked, blobs, now, ackCalls>>

RunAckCall(c) ==
    /\ AckRevisions(c.device, c.rev)
    /\ ackCalls' = ackCalls \ {c}
    /\ UNCHANGED <<revoked, blobs, now, commitCalls>>

\* A device whose answer was lost, or whose request was delivered twice, sends
\* the same payload again.
RetryCommit(i) ==
    /\ commits[i] # NoCommit
    /\ AuthoriseCommit(commits[i].hash.device, i, commits[i].hash)

Next ==
    \/ \E d \in Devices, i \in Intents, base \in 0..HeadRev :
          \E m \in ClientManifests(d, base) : Sendable(m) /\ AuthoriseCommit(d, i, m)
    \/ \E i \in Intents : RetryCommit(i)
    \/ \E d \in Devices, rev \in 1..HeadRev : AuthoriseAck(d, rev)
    \/ \E c \in commitCalls : RunCommitCall(c)
    \/ \E c \in ackCalls : RunAckCall(c)
    \/ \E retention \in {0, Retention} : RunTombstoneGC(retention)
    \/ \E d \in Devices : DeleteDevice(d)
    \/ \E b \in Blobs : UploadBlob(b)
    \/ Tick

Spec == Init /\ [][Next]_vars

\* The worker thread of main.py runs the collection on every vault at a fixed
\* cadence, and the clock runs; no device and no operator is assumed to act.
WorkerSpec == Spec /\ WF_vars(RunTombstoneGC(Retention)) /\ WF_vars(Tick)

-----------------------------------------------------------------------------
(* Properties                                                              *)

\* Every variable keeps its shape.
TypeOK ==
    /\ history \in Seq(Revision)
    /\ commits \in [Intents -> Commit]
    /\ joined \in SUBSET Devices
    /\ acks \in [Devices -> Nat]
    /\ revoked \in SUBSET Devices
    /\ blobs \in SUBSET Blobs
    /\ gcRuns \in SUBSET [rev : Nat, active : SUBSET Devices, at : Nat,
                          retention : Nat, reclaimed : SUBSET Tombstone]
    /\ now \in Nat
    /\ commitCalls \in SUBSET [intent : Intents, manifest : Manifest]
    /\ ackCalls \in SUBSET [device : Devices, rev : Nat]

\* Exactly-once commits: an intent that has a commit record owns exactly the
\* revision the record names, with the files it sent, built on the revision
\* right before it; an intent without a record owns none.  Replays, delayed
\* duplicates and collection revisions in between must not disturb it.
OwnedBy(i) == {r \in 1..HeadRev : history[r].by = i}

OwnsOne(i) ==
    IF commits[i] = NoCommit
    THEN OwnedBy(i) = {}
    ELSE /\ OwnedBy(i) = {commits[i].rev}
         /\ history[commits[i].rev].files = commits[i].hash.files
         /\ commits[i].hash.base = commits[i].rev - 1

IntentOwnsOneRevision == \A i \in Intents : OwnsOne(i)

\* The stamp of a tombstone names the one commit that brought it in: the revision
\* was written by a device, the commit that became it had sent the tombstone
\* pending, and it is not later than the revision the tombstone is found in.  The
\* stamp is what the collection compares acks with; a payload that runs late, is
\* replayed or lists the file besides must not get one of another revision.
StampNamesItsCommit ==
    \A r \in 1..HeadRev : \A t \in history[r].tombs :
        /\ t.rev \in 1..r
        /\ history[t.rev].by # Server
        /\ t \in history[t.rev].tombs
        /\ commits[history[t.rev].by].rev = t.rev
        /\ [t EXCEPT !.rev = 0] \in commits[history[t.rev].by].hash.tombs

\* Delete markers leave the head only when every joined device that has not
\* been revoked has acknowledged the deletion, or because a device committed on
\* the head without them: no ack, revocation, worker run or replay drops one
\* that a device still needs.
OnlyAckedTombstonesCollected ==
    [][ \A t \in TombsAt(HeadRev) :
          Len(history') > HeadRev /\ t \notin history'[Len(history')].tombs
             => \/ history'[Len(history')].by # Server
                \/ \A d \in joined' \ revoked' : acks'[d] >= t.rev ]_vars

\* A device never un-acknowledges, and history is never rewritten: what a
\* device has pulled stays what the server answers for that revision.
PastIsFixed ==
    [][ /\ \A d \in Devices : acks'[d] >= acks[d]
        /\ Len(history') >= HeadRev
        /\ \A r \in 1..HeadRev : history'[r] = history[r] ]_vars

\* Every file of every revision can be downloaded: its blob was uploaded before
\* the commit that named it was accepted.
RevisionsAreDownloadable ==
    \A r \in 1..HeadRev : \A f \in Files :
        history[r].files[f] # Absent => history[r].files[f] \in blobs

\* A delete marker that every active device has acknowledged does not stay for
\* ever, unless a device that has not acknowledged it joins (its first ack being
\* of an older revision).  Markers whose window ends after the bounded clock
\* are left out.
Acknowledged(t) == \A d \in joined \ revoked : acks[d] >= t.rev
Ages(t) == t.at + Retention <= MaxTime

AckedTombstonesLeave ==
    \A f \in Files :
        (\E t \in TombsAt(HeadRev) : t.file = f /\ Ages(t) /\ Acknowledged(t))
        ~> ~ \E t \in TombsAt(HeadRev) : t.file = f /\ Ages(t) /\ Acknowledged(t)

\* The vault is a revision log.
Log == INSTANCE RevisionLog WITH
           FileTables <- FileTable,
           NoFiles    <- [f \in Files |-> Absent],
           log        <- [r \in 1..Len(history) |->
                            [by |-> history[r].by, on |-> history[r].base,
                             files |-> history[r].files]]

ImplementsRevisionLog == Log!Spec
=============================================================================
