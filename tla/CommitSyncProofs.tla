-------------------------- MODULE CommitSyncProofs --------------------------
(***************************************************************************)
(* What devices and backend guarantee together, for any number of devices, *)
(* files, blobs and intents, any retention window and any number of        *)
(* crashes, lost exchanges and calls in flight.                            *)
(*                                                                         *)
(* BaseInv holds whatever the applications delete beside their workers: it *)
(* carries the types, the ledger and what the vault promises.  The other   *)
(* invariants need an application that leaves the worker its turn, and     *)
(* their theorems assume Tandem = {}: CommitInv (acks and bases are        *)
(* applied), on it StampInv (stamps name what holds the tombstone) and     *)
(* FilesInv (the filemap is a revision's, but for commits of the device's  *)
(* own).  Each has a lemma per kind of step, and one that puts them        *)
(* together.                                                               *)
(***************************************************************************)
EXTENDS CommitSync, SyncStoreProofs, FiniteSetTheorems, WellFoundedInduction

-----------------------------------------------------------------------------
(* Choosing a record                                                       *)

LEMMA LeastNatural ==
    ASSUME NEW S \in SUBSET Nat, S # {}
    PROVE  \E n \in S : \A m \in S : n <= m
  <1>1. PICK n \in S : \A m \in S : ~(<<m, n>> \in OpToRel(<, Nat))
    BY NatLessThanWellFounded, WFMin, Zenon
  <1>2. \A m \in S : ~(m < n)
    BY <1>1 DEF OpToRel
  <1> QED
    BY <1>2

LEMMA GreatestNatural ==
    ASSUME NEW S \in SUBSET Nat, S # {}, NEW n \in Nat, \A m \in S : m <= n
    PROVE  \E k \in S : \A m \in S : m <= k
  <1> DEFINE T == {n - m : m \in S}
  <1>1. T \in SUBSET Nat /\ T # {}
    <2>1. \A m \in S : m \in Nat /\ m <= n
      OBVIOUS
    <2>2. \A m \in S : n - m \in Nat
      BY <2>1
    <2>3. PICK m \in S : TRUE
      OBVIOUS
    <2>4. n - m \in T
      BY <2>3
    <2> QED
      BY <2>2, <2>4
  <1>2. PICK l \in T : \A m \in T : l <= m
    BY <1>1, LeastNatural
  <1>3. PICK k \in S : l = n - k
    OBVIOUS
  <1>4. \A m \in S : n - k <= n - m
    BY <1>2, <1>3
  <1> QED
    BY <1>4

\* No stamp names a revision that does not exist yet.
StampsUpTo(tombs, n) == \A t \in tombs : t.rev <= n

\* A ledger with several records of a file has a first one.
LEMMA FirstRecord ==
    ASSUME NEW tombs \in SUBSET LocalTombstone, NEW f, \E t \in tombs : t.file = f
    PROVE  First(tombs, f) \in tombs /\ First(tombs, f).file = f
  <1> DEFINE S == {t.seq : t \in {u \in tombs : u.file = f}}
  <1>1. S \in SUBSET Nat /\ S # {}
    BY DEF LocalTombstone
  <1>2. PICK n \in S : \A m \in S : n <= m
    BY <1>1, LeastNatural
  <1>3. \E t \in {u \in tombs : u.file = f} : \A u \in tombs : u.file = f => t.seq <= u.seq
    BY <1>2
  <1> QED
    BY <1>3 DEF First

\* A manifest with several tombstones of a file has a latest one.
LEMMA RemoteRecord ==
    ASSUME NEW tombs \in SUBSET Tombstone, NEW n \in Nat, StampsUpTo(tombs, n),
           NEW f, \E t \in tombs : t.file = f
    PROVE  Remote(tombs, f) \in tombs /\ Remote(tombs, f).file = f
  <1> DEFINE S == {t.rev : t \in {u \in tombs : u.file = f}}
  <1>1. S \in SUBSET Nat /\ S # {} /\ \A m \in S : m <= n
    BY DEF Tombstone, StampsUpTo
  <1>2. PICK k \in S : \A m \in S : m <= k
    BY <1>1, GreatestNatural
  <1>3. \E t \in {u \in tombs : u.file = f} : \A u \in tombs : u.file = f => t.rev >= u.rev
    BY <1>1, <1>2
  <1> QED
    BY <1>3 DEF Remote

-----------------------------------------------------------------------------
(* What the ledger operations return                                       *)

\* Every pending deletion of one ledger is in the other, perhaps stamped.
Kept(tombs, later) ==
    \A t \in Pending(tombs) : \E u \in later : u.file = t.file /\ u.seq = t.seq

\* The same, but for files whose records a pull reclaims together with an earlier one.
KeptOrReclaimed(tombs, later) ==
    \A t \in Pending(tombs) :
        \/ \E u \in later : u.file = t.file /\ u.seq = t.seq
        \/ /\ \E v \in tombs : v.file = t.file /\ v.rev > 0
           /\ \A u \in later : u.file # t.file

LEMMA MergedRecords ==
    ASSUME NEW tombs \in SUBSET LocalTombstone, NEW remote \in SUBSET Tombstone,
           NEW n \in Nat, StampsUpTo(tombs, n), StampsUpTo(remote, n)
    PROVE  /\ Merged(tombs, remote) \in SUBSET LocalTombstone
           /\ StampsUpTo(Merged(tombs, remote), n)
           /\ \A t \in tombs : \E u \in Merged(tombs, remote) :
                 /\ u.file = t.file /\ u.seq = t.seq
                 /\ u.rev = t.rev \/ \E v \in remote : v.file = u.file
           /\ \A u \in Merged(tombs, remote) :
                 u \in tombs \/ \E v \in remote : v.file = u.file
  <1> DEFINE inLedger   == {t.file : t \in tombs}
             inManifest == {t.file : t \in remote}
             paired     == {First(tombs, f) : f \in inLedger \cap inManifest}
             Met(t) == [t EXCEPT !.rev = IF @ = 0 THEN Remote(remote, t.file).rev ELSE @,
                                 !.at = IF Remote(remote, t.file).at > @
                                        THEN Remote(remote, t.file).at ELSE @]
             New(f) == [file |-> f, rev |-> Remote(remote, f).rev,
                        at |-> Remote(remote, f).at, seq |-> 0]
  <1>1. Merged(tombs, remote) = (tombs \ paired) \cup {Met(t) : t \in paired}
                                \cup {New(f) : f \in inManifest \ inLedger}
    BY Zenon DEF Merged
  <1>2. \A f \in inManifest : /\ Remote(remote, f) \in remote
                              /\ Remote(remote, f).file = f
    BY RemoteRecord
  <1>3. \A f \in inManifest : /\ Remote(remote, f).rev \in Nat /\ Remote(remote, f).rev <= n
                              /\ Remote(remote, f).at \in Nat /\ f \in Files
    BY <1>2 DEF Tombstone, StampsUpTo
  <1>4. \A t \in paired : t \in tombs /\ t.file \in inManifest
    BY FirstRecord
  <1>5. \A t \in paired : /\ Met(t) \in LocalTombstone /\ Met(t).rev <= n
                          /\ Met(t).file = t.file /\ Met(t).seq = t.seq
    <2> TAKE t \in paired
    <2>1. t \in LocalTombstone /\ t.rev <= n
      BY <1>4 DEF StampsUpTo
    <2>2. Remote(remote, t.file).rev \in Nat /\ Remote(remote, t.file).rev <= n
          /\ Remote(remote, t.file).at \in Nat
      BY <1>3, <1>4
    <2> HIDE DEF paired
    <2> QED
      BY <2>1, <2>2 DEF LocalTombstone
  <1>6. \A f \in inManifest : New(f) \in LocalTombstone /\ New(f).rev <= n
    BY <1>3 DEF LocalTombstone
  <1> HIDE DEF paired, Met, New
  <1>7. \A t \in tombs : \E u \in Merged(tombs, remote) :
           /\ u.file = t.file /\ u.seq = t.seq
           /\ u.rev = t.rev \/ \E v \in remote : v.file = u.file
    <2> TAKE t \in tombs
    <2>1. CASE t \notin paired
      BY <1>1, <2>1
    <2>2. CASE t \in paired
      <3>1. Met(t) \in Merged(tombs, remote)
        BY <1>1, <2>2
      <3>2. \E v \in remote : v.file = Met(t).file
        BY <1>4, <1>5, <2>2
      <3> QED
        BY <1>5, <2>2, <3>1, <3>2
    <2> QED
      BY <2>1, <2>2
  <1>8. \A u \in Merged(tombs, remote) : u \in LocalTombstone /\ u.rev <= n
    BY <1>1, <1>5, <1>6 DEF StampsUpTo
  <1>9. \A f \in inManifest : New(f).file = f
    BY DEF New
  <1>10. \A u \in Merged(tombs, remote) : u \in tombs \/ u.file \in inManifest
    BY <1>1, <1>4, <1>5, <1>9
  <1> QED
    BY <1>7, <1>8, <1>10 DEF StampsUpTo

\* A pull drops a pending deletion only together with an earlier one of the file.
LEMMA ConvergedRecords ==
    ASSUME NEW tombs \in SUBSET LocalTombstone, NEW remote \in SUBSET Tombstone,
           NEW n \in Nat, StampsUpTo(tombs, n), StampsUpTo(remote, n), NEW target
    PROVE  /\ Converged(tombs, remote, target) \in SUBSET LocalTombstone
           /\ StampsUpTo(Converged(tombs, remote, target), n)
           /\ KeptOrReclaimed(tombs, Converged(tombs, remote, target))
  <1>1. /\ Merged(tombs, remote) \in SUBSET LocalTombstone
        /\ StampsUpTo(Merged(tombs, remote), n)
        /\ \A t \in tombs : \E u \in Merged(tombs, remote) :
              /\ u.file = t.file /\ u.seq = t.seq
              /\ u.rev = t.rev \/ \E v \in remote : v.file = u.file
        /\ \A u \in Merged(tombs, remote) : u \in tombs \/ \E v \in remote : v.file = u.file
    BY MergedRecords
  <1> DEFINE gone == {t.file : t \in {u \in Merged(tombs, remote) : Covered(u, target)}}
                        \ {u.file : u \in remote}
  <1>2. Converged(tombs, remote, target) = {t \in Merged(tombs, remote) : t.file \notin gone}
    BY DEF Converged
  <1>3. \A f \in gone : \E v \in tombs : v.file = f /\ v.rev > 0
    BY <1>1 DEF Covered
  <1> HIDE DEF gone
  <1>4. KeptOrReclaimed(tombs, Converged(tombs, remote, target))
    BY <1>1, <1>2, <1>3 DEF KeptOrReclaimed, Pending
  <1> QED
    BY <1>1, <1>2, <1>4 DEF StampsUpTo

LEMMA StampedTypes ==
    ASSUME NEW tombs \in SUBSET LocalTombstone, NEW j, NEW rev \in Nat
    PROVE  StampCommitted(tombs, j, rev) \in SUBSET LocalTombstone
  BY DEF StampCommitted, LocalTombstone

\* Stamping changes nothing but null revisions.
LEMMA StampedRecords ==
    ASSUME NEW tombs \in SUBSET LocalTombstone, NEW n \in Nat, StampsUpTo(tombs, n),
           NEW j, NEW rev \in Nat, rev <= n
    PROVE  /\ StampCommitted(tombs, j, rev) \in SUBSET LocalTombstone
           /\ StampsUpTo(StampCommitted(tombs, j, rev), n)
           /\ Kept(tombs, StampCommitted(tombs, j, rev))
  <1> DEFINE Stamp(t) == [t EXCEPT !.rev = IF t.file \in Selected(tombs, j) THEN rev ELSE @]
  <1>1. StampCommitted(tombs, j, rev) = {Stamp(t) : t \in tombs}
    BY DEF StampCommitted
  <1>2. \A t \in tombs : /\ Stamp(t) \in LocalTombstone /\ Stamp(t).rev <= n
                         /\ Stamp(t).file = t.file /\ Stamp(t).seq = t.seq
    BY DEF LocalTombstone, StampsUpTo
  <1> HIDE DEF Stamp
  <1> QED
    BY <1>1, <1>2 DEF StampsUpTo, Kept, Pending

-----------------------------------------------------------------------------
(* The invariant                                                           *)

Pulling == {"fetched", "rebuilt", "converged", "acking", "applying"}

\* What the devices keep has its shape.
LocalTypes ==
    /\ st \in [Devices -> VaultState]
    /\ journal \in [Devices -> Journal]
    /\ ledger \in [Devices -> SUBSET LocalTombstone]
    /\ fmap \in [Devices -> FileMap]
    /\ disk \in [Devices -> [Paths -> Blobs \cup {Absent}]]
    /\ minted \in SUBSET (Files \cup Intents)
    /\ op \in [Devices -> Step]
    /\ faults \in Nat

\* From the plan to the answer a commit has its journal.
HasJournal(d) ==
    op[d].at \in {"locking", "freezing", "sending", "waiting", "committed", "stamped"}
        => journal[d] # NoJournal

Journaled == \A d \in Devices : HasJournal(d)

\* Nothing anywhere names a revision that does not exist yet.
DeviceInPast(d) ==
    /\ StampsUpTo(ledger[d], HeadRev)
    /\ journal[d] # NoJournal => StampsUpTo(journal[d].manifest.tombs, HeadRev)
    /\ op[d].at = "deleting" => op[d].tomb.rev = 0
    /\ op[d].at \in {"committed", "stamped"} => op[d].rev <= HeadRev
    /\ op[d].at \in Pulling => op[d].target <= HeadRev
    /\ op[d].at \in {"fetched", "rebuilt", "stamping"} => StampsUpTo(op[d].tombs, HeadRev)

VaultInPast ==
    /\ \A r \in 1..HeadRev : StampsUpTo(history[r].tombs, HeadRev)
    /\ \A c \in commitCalls : StampsUpTo(c.manifest.tombs, HeadRev)
    /\ \A i \in Intents : commits[i].rev <= HeadRev

InPast == VaultInPast /\ \A d \in Devices : DeviceInPast(d)

\* What a device acknowledges it has applied, and it commits on top of that.
DeviceCaughtUp(d) ==
    /\ st[d].pulled <= st[d].applied
    /\ journal[d] # NoJournal =>
          journal[d].manifest.device = d /\ journal[d].manifest.base <= st[d].applied

VaultCaughtUp ==
    /\ \A c \in commitCalls : c.manifest.base <= st[c.manifest.device].applied
    /\ \A i \in Intents : commits[i] # NoCommit =>
          commits[i].hash.base <= st[commits[i].hash.device].applied

CaughtUp == VaultCaughtUp /\ \A d \in Devices : DeviceCaughtUp(d)

\* The ledger an operation is about to write has every deletion of the one it read,
\* but for reclaimed files, and what it read is still there.
Reading == {"committed", "stamping", "fetched", "rebuilt"}

DeviceRemembers(d) ==
    /\ op[d].at \in Reading => op[d].read \subseteq ledger[d]
    /\ op[d].at = "stamping" => Kept(op[d].read, op[d].tombs)
    /\ op[d].at \in {"fetched", "rebuilt"} => KeptOrReclaimed(op[d].read, op[d].tombs)

Remembered == \A d \in Devices : DeviceRemembers(d)

\* With no deletion beside it, what an operation has in memory is what the device has.
DeviceUndisturbed(d) ==
    /\ op[d].at \in Reading => op[d].read = ledger[d]
    /\ op[d].at \in {"stamped", "rewriting"} => op[d].tombs = ledger[d]
    /\ op[d].at = "locking" =>
          op[d].row = [st[d] EXCEPT !.busy = TRUE, !.seq = op[d].row.seq]

Undisturbed == \A d \in Devices : DeviceUndisturbed(d)

DeviceSteady(d) == d \notin Tandem => DeviceCaughtUp(d) /\ DeviceUndisturbed(d)

\* A deletion beside another operation has not been committed when it is recorded.
BesidePending ==
    \A d \in Devices : beside[d].at \in {"removing", "recording"} => beside[d].tomb.rev = 0

\* What holds for every application, and what holds when none works beside a worker.
BaseInv ==
    /\ CTypeOK /\ Journaled /\ InPast /\ Remembered /\ BesidePending
    /\ \A d \in Devices : DeviceSteady(d)

CommitInv ==
    /\ Tandem = {}
    /\ CTypeOK /\ Journaled /\ InPast /\ CaughtUp /\ Remembered /\ Undisturbed
    /\ BesidePending

LEMMA CommitIsBase == CommitInv <=> BaseInv /\ VaultCaughtUp /\ Tandem = {}
  BY DEF CommitInv, BaseInv, CaughtUp, Undisturbed, DeviceSteady

-----------------------------------------------------------------------------
(* Type correctness                                                        *)

\* What an operation has in memory, by the point it has reached.
LEMMA StepFields ==
    ASSUME NEW s \in Step
    PROVE  /\ s.at = "deleting" => s.tomb \in LocalTombstone
           /\ s.at = "counting" => s.seq \in Nat
           /\ s.at = "locking" => s.row \in VaultState /\ s.buildable \in BOOLEAN
           /\ s.at = "failed" => s.stale \in BOOLEAN
           /\ s.at \in {"committed", "stamped"} => s.rev \in Nat
           /\ s.at \in Reading => s.read \in SUBSET LocalTombstone
           /\ s.at \in {"stamped", "rewriting", "stamping"} => s.tombs \in SUBSET LocalTombstone
           /\ s.at = "rewriting" => s.files \in FileTable
           /\ s.at \in {"fetched", "rebuilt"} =>
                 s.target \in Nat /\ s.before \in FileMap /\ s.tombs \in SUBSET LocalTombstone
           /\ s.at \in {"converged", "acking", "applying"} =>
                 s.target \in Nat /\ s.before \in FileMap
  BY DEF Step, Reading

\* A pull goes on with what it has in memory.
LEMMA PullGoesOn ==
    ASSUME NEW s \in Step
    PROVE  /\ s.at = "fetched" =>
                 /\ [s EXCEPT !.at = "rebuilt"] \in Step
                 /\ [s EXCEPT !.at = "rebuilt"].target = s.target
                 /\ [s EXCEPT !.at = "rebuilt"].tombs = s.tombs
                 /\ [s EXCEPT !.at = "rebuilt"].read = s.read
                 /\ [s EXCEPT !.at = "rebuilt"].before = s.before
                 /\ [s EXCEPT !.at = "rebuilt"].at = "rebuilt"
           /\ \A later \in {"acking", "applying"} : s.at \in {"converged", "acking"} =>
                 /\ [s EXCEPT !.at = later] \in Step
                 /\ [s EXCEPT !.at = later].target = s.target
                 /\ [s EXCEPT !.at = later].before = s.before
                 /\ [s EXCEPT !.at = later].at = later
  <1>1. ASSUME s.at = "fetched"
        PROVE s \in [at : {"fetched", "rebuilt"}, target : Nat, before : FileMap,
                     read : SUBSET LocalTombstone, tombs : SUBSET LocalTombstone]
    BY <1>1 DEF Step
  <1>2. ASSUME s.at \in {"converged", "acking"}
        PROVE s \in [at : {"converged", "acking", "applying"}, target : Nat, before : FileMap]
    BY <1>2 DEF Step
  <1>3. /\ [at : {"fetched", "rebuilt"}, target : Nat, before : FileMap,
            read : SUBSET LocalTombstone, tombs : SUBSET LocalTombstone] \subseteq Step
        /\ [at : {"converged", "acking", "applying"}, target : Nat, before : FileMap]
              \subseteq Step
    BY DEF Step
  <1> QED
    BY <1>1, <1>2, <1>3

LEMMA BesideFields ==
    ASSUME NEW s \in BesideStep
    PROVE  /\ s.at = "removing" => s.before \in FileMap /\ s.file \in Files
           /\ s.at \in {"removing", "recording"} => s.tomb \in LocalTombstone
           /\ s.at \in {"removing", "recording", "counting"} => s.row \in VaultState
  BY DEF BesideStep, Idle

LEMMA JournalFields ==
    ASSUME NEW j \in Journal, j # NoJournal
    PROVE  /\ j.status \in {"prepared", "submitted"} /\ j.intent \in Intents
           /\ j.manifest \in Manifest
           /\ [j EXCEPT !.status = "submitted"] \in Journal
           /\ [j EXCEPT !.status = "submitted"] # NoJournal
           /\ [j EXCEPT !.status = "submitted"].manifest = j.manifest
  BY DEF Journal, NoJournal

\* The operators that move one device on.
LEMMA Moved ==
    ASSUME LocalTypes, NEW d \in Devices, NEW next \in Step, Goto(d, next)
    PROVE  /\ op' \in [Devices -> Step]
           /\ op'[d] = next /\ \A e \in Devices \ {d} : op'[e] = op[e]
  BY DEF LocalTypes, Goto

LEMMA RowSet ==
    ASSUME LocalTypes, NEW d \in Devices, NEW row \in VaultState, Set(d, row)
    PROVE  /\ st' \in [Devices -> VaultState]
           /\ st'[d] = row /\ \A e \in Devices \ {d} : st'[e] = st[e]
  BY DEF LocalTypes, Set

LEMMA IdleSteps ==
    /\ Idle \in Step /\ [at |-> "freezing"] \in Step /\ [at |-> "sending"] \in Step
    /\ [at |-> "waiting"] \in Step /\ [at |-> "marking"] \in Step
  BY DEF Step, Idle

\* What a commit is planned from.
LEMMA PlanTypes ==
    ASSUME CTypeOK, NEW d \in Devices
    PROVE  /\ Cardinality(Missing(d)) \in Nat
           /\ PlanTombstones(d) \in SUBSET LocalTombstone
           /\ PlanManifest(d) \in Manifest
           /\ \A u \in PlanTombstones(d) : u.rev = 0 \/ \E t \in ledger[d] : u.rev = t.rev
           /\ \A u \in PlanManifest(d).tombs : u.rev = 0 \/ \E t \in ledger[d] : u.rev = t.rev
  <1>1. Missing(d) \in SUBSET Files
    BY DEF Missing, Live
  <1>2. Cardinality(Missing(d)) \in Nat
    BY <1>1, FilesAreFinite, FS_Subset, FS_CardinalityType
  <1>3. ledger[d] \in SUBSET LocalTombstone /\ st[d].seq \in Nat /\ st[d].applied \in Nat
        /\ now \in Nat
    BY DEF CTypeOK, TypeOK, VaultState
  <1>4. /\ PlanTombstones(d) \in SUBSET LocalTombstone
        /\ \A u \in PlanTombstones(d) : u.rev = 0 \/ \E t \in ledger[d] : u.rev = t.rev
    BY <1>1, <1>2, <1>3 DEF PlanTombstones, LocalTombstone
  <1>5. /\ Shared(PlanTombstones(d)) \in SUBSET Tombstone
        /\ \A u \in Shared(PlanTombstones(d)) :
              u.rev = 0 \/ \E t \in ledger[d] : u.rev = t.rev
    BY <1>4 DEF Shared, Tombstone, LocalTombstone
  <1>6. [f \in Files |-> IF PlanDocument(d)[f] \in Blobs
                         THEN PlanDocument(d)[f] ELSE Absent] \in FileTable
    BY DEF FileTable
  <1>7. PlanManifest(d) \in Manifest /\ PlanManifest(d).tombs = Shared(PlanTombstones(d))
    BY <1>3, <1>5, <1>6 DEF PlanManifest, Manifest
  <1> QED
    BY <1>2, <1>4, <1>5, <1>7

\* Every step of the devices keeps the shape of what they hold.
LEMMA UserTypes ==
    ASSUME CTypeOK, NEW d \in Devices,
           \/ \E p \in Paths, content \in Blobs \cup {Absent} : UserWrite(d, p, content)
           \/ \E f \in Files : DeleteNote(d, f)
           \/ ResolveConflicts(d)
    PROVE  LocalTypes'
  <1> USE DEF LocalTypes, rows
  <1>0. LocalTypes
    BY DEF CTypeOK
  <1>1. CASE \E p \in Paths, content \in Blobs \cup {Absent} : UserWrite(d, p, content)
    BY <1>0, <1>1 DEF UserWrite
  <1>2. ASSUME NEW f \in Files, DeleteNote(d, f) PROVE LocalTypes'
    <2> DEFINE next == [at |-> "deleting",
                        tomb |-> [file |-> f, rev |-> 0, at |-> now, seq |-> st[d].seq + 1]]
    <2>1. st[d].seq + 1 \in Nat /\ now \in Nat
      BY DEF CTypeOK, TypeOK, VaultState
    <2>2. next \in Step
      BY <2>1 DEF Step, LocalTombstone
    <2>3. Goto(d, next) /\ UNCHANGED <<st, journal, ledger, minted, faults>>
          /\ disk' = [disk EXCEPT ![d][PathOf[f]] = Absent]
          /\ fmap' = [fmap EXCEPT ![d][f] = Deleted]
      BY <1>2 DEF DeleteNote
    <2> HIDE DEF next
    <2>4. op' \in [Devices -> Step]
      BY <1>0, <2>2, <2>3, Moved
    <2>5. disk' \in [Devices -> [Paths -> Blobs \cup {Absent}]]
      BY <1>0, <2>3
    <2>6. fmap' \in [Devices -> FileMap]
      BY <1>0, <2>3 DEF FileMap
    <2> QED
      BY <1>0, <2>3, <2>4, <2>5, <2>6
  <1>3. CASE ResolveConflicts(d)
    <2>1. [st[d] EXCEPT !.conflict = FALSE] \in VaultState
      BY <1>0 DEF VaultState
    <2> QED
      BY <1>0, <1>3, <2>1, RowSet DEF ResolveConflicts
  <1> QED
    BY <1>1, <1>2, <1>3

LEMMA DeleteTypes ==
    ASSUME CTypeOK, NEW d \in Devices, AppendTombstone(d) \/ CountDelete(d)
    PROVE  LocalTypes'
  <1> USE DEF LocalTypes, rows
  <1>0. LocalTypes
    BY DEF CTypeOK
  <1>1. CASE AppendTombstone(d)
    <2>1. op[d].tomb \in LocalTombstone
      BY <1>0, <1>1, StepFields DEF AppendTombstone, At
    <2>2. [at |-> "counting", seq |-> op[d].tomb.seq] \in Step
      BY <2>1 DEF Step, LocalTombstone
    <2>3. op' \in [Devices -> Step]
      BY <1>0, <1>1, <2>2, Moved DEF AppendTombstone
    <2>4. ledger' \in [Devices -> SUBSET LocalTombstone]
      BY <1>0, <1>1, <2>1 DEF AppendTombstone
    <2> QED
      BY <1>0, <1>1, <2>3, <2>4 DEF AppendTombstone
  <1>2. CASE CountDelete(d)
    <2>1. op[d].seq \in Nat
      BY <1>0, <1>2, StepFields DEF CountDelete, At
    <2>2. [st[d] EXCEPT !.seq = op[d].seq] \in VaultState
      BY <1>0, <2>1 DEF VaultState
    <2> QED
      BY <1>0, <1>2, <2>2, RowSet, Moved, IdleSteps DEF CountDelete
  <1> QED
    BY <1>1, <1>2

LEMMA CommitTypes ==
    ASSUME CTypeOK, Journaled, NEW d \in Devices,
           \/ \E i \in Intents : PrepareCommit(d, i)
           \/ LockCommit(d) \/ FreezeCommit(d) \/ SendCommit(d) \/ GiveUp(d)
    PROVE  LocalTypes'
  <1> USE DEF LocalTypes, rows
  <1>0. LocalTypes
    BY DEF CTypeOK
  <1>1. ASSUME NEW i \in Intents, PrepareCommit(d, i) PROVE LocalTypes'
    <2> DEFINE seq == st[d].seq + Cardinality(Missing(d))
               next == [at |-> "locking", row |-> [st[d] EXCEPT !.busy = TRUE, !.seq = seq],
                        buildable |-> Buildable(d)]
               row == [status |-> "prepared", intent |-> i, manifest |-> PlanManifest(d),
                       upper |-> seq, known |-> Pending(ledger[d])]
    <2>1. seq \in Nat /\ PlanManifest(d) \in Manifest
      BY PlanTypes, <1>0 DEF VaultState
    <2>2. next \in Step
      <3>1. [st[d] EXCEPT !.busy = TRUE, !.seq = seq] \in VaultState
        BY <1>0, <2>1 DEF VaultState
      <3> QED
        BY <3>1 DEF Step, Buildable
    <2>3. Pending(ledger[d]) \in SUBSET LocalTombstone
      BY <1>0 DEF Pending
    <2>4. row \in Journal
      BY <2>1, <2>3 DEF Journal
    <2>5. NewIds(d) \in SUBSET Files
      BY <1>1 DEF PrepareCommit, NewIds, Fresh
    <2>6. /\ minted' = minted \cup {i} \cup NewIds(d)
          /\ journal' = [journal EXCEPT ![d] = row]
          /\ Goto(d, next)
          /\ UNCHANGED <<st, ledger, fmap, disk, faults>>
      BY <1>1 DEF PrepareCommit
    <2> HIDE DEF next, row, seq
    <2>7. op' \in [Devices -> Step]
      BY <1>0, <2>2, <2>6, Moved
    <2> QED
      BY <1>0, <2>4, <2>5, <2>6, <2>7
  <1>2. CASE LockCommit(d)
    <2>2. op[d].row \in VaultState
      BY <1>0, <1>2, StepFields DEF LockCommit, At
    <2>3. (IF op[d].buildable THEN [at |-> "freezing"] ELSE Idle) \in Step
      BY IdleSteps
    <2> QED
      BY <1>0, <1>2, <2>2, <2>3, RowSet, Moved DEF LockCommit
  <1>3. CASE FreezeCommit(d)
    <2>1. journal[d] \in Journal /\ journal[d] # NoJournal
      BY <1>0, <1>3 DEF FreezeCommit, At, Journaled, HasJournal
    <2>2. [journal[d] EXCEPT !.status = "submitted"] \in Journal
      BY <2>1, JournalFields
    <2>3. journal' = [journal EXCEPT ![d] = [journal[d] EXCEPT !.status = "submitted"]]
      BY <1>3 DEF FreezeCommit
    <2>4. journal' \in [Devices -> Journal]
      BY <1>0, <2>2, <2>3
    <2> QED
      BY <1>0, <1>3, <2>4, Moved, IdleSteps DEF FreezeCommit
  <1>4. CASE SendCommit(d)
    BY <1>0, <1>4, Moved, IdleSteps DEF SendCommit
  <1>5. CASE GiveUp(d)
    <2>1. [at |-> "failed", stale |-> FALSE] \in Step
      BY DEF Step
    <2> QED
      BY <1>0, <1>5, <2>1, Moved DEF GiveUp, Fault
  <1> QED
    BY <1>1, <1>2, <1>3, <1>4, <1>5

LEMMA AnswerTypes ==
    ASSUME CTypeOK, NEW c \in commitCalls, RunCommit(c)
    PROVE  LocalTypes' /\ Answer(c) \in Step
  <1> USE DEF LocalTypes, rows
  <1>0. LocalTypes /\ c.manifest.device \in Devices /\ c.intent \in Intents
    BY DEF CTypeOK, TypeOK, Manifest
  <1>1. commits[c.intent].rev \in Nat /\ HeadRev + 1 \in Nat
    BY <1>0 DEF CTypeOK, TypeOK, Commit, NoCommit, HeadRev
  <1>2. /\ [at |-> "committed", rev |-> HeadRev + 1,
            read |-> ledger[c.manifest.device]] \in Step
        /\ [at |-> "committed", rev |-> commits[c.intent].rev,
            read |-> ledger[c.manifest.device]] \in Step
        /\ [at |-> "failed", stale |-> TRUE] \in Step
        /\ [at |-> "failed", stale |-> FALSE] \in Step
    BY <1>0, <1>1 DEF Step
  <1>3. Answer(c) \in Step
    BY <1>2 DEF Answer
  <1> QED
    BY <1>0, <1>3 DEF RunCommit

LEMMA RebuildType ==
    ASSUME NEW files \in FileTable, NEW tombs
    PROVE  Rebuild(files, tombs) \in FileMap
  BY DEF Rebuild, FileMap, FileTable

LEMMA AppliedType ==
    ASSUME NEW row \in VaultState, NEW rev \in Nat
    PROVE  Applied(row, rev) \in VaultState
  BY DEF Applied, VaultState

LEMMA UnlockTypes ==
    ASSUME LocalTypes, NEW d \in Devices, Unlock(d)
    PROVE  /\ st' \in [Devices -> VaultState] /\ journal' \in [Devices -> Journal]
           /\ journal' = [journal EXCEPT ![d] = NoJournal]
           /\ st' = [st EXCEPT ![d] = [st[d] EXCEPT !.busy = FALSE]]
  <1>1. [st[d] EXCEPT !.busy = FALSE] \in VaultState
    BY DEF LocalTypes, VaultState
  <1>2. NoJournal \in Journal
    BY DEF Journal
  <1> QED
    BY <1>1, <1>2 DEF LocalTypes, Unlock, Set

LEMMA FinalizeTypes ==
    ASSUME CTypeOK, Journaled, InPast, NEW d \in Devices,
           \/ FinalizeLedger(d) \/ FinalizeState(d) \/ FinalizeFilemap(d)
           \/ CleanupFailed(d) \/ MarkStale(d)
    PROVE  LocalTypes'
  <1> USE DEF LocalTypes, rows
  <1>0. LocalTypes /\ HeadRev \in Nat
    BY DEF CTypeOK, TypeOK, HeadRev
  <1>1. CASE FinalizeLedger(d)
    <2> DEFINE tombs == StampCommitted(op[d].read, journal[d], op[d].rev)
    <2>1. op[d].rev \in Nat /\ op[d].read \in SUBSET LocalTombstone
      BY <1>0, <1>1, StepFields DEF FinalizeLedger, At, Reading
    <2>2. tombs \in SUBSET LocalTombstone
      BY <2>1, StampedTypes
    <2>3. [at |-> "stamped", rev |-> op[d].rev, tombs |-> tombs] \in Step
      BY <2>1, <2>2 DEF Step
    <2>4. /\ ledger' = [ledger EXCEPT ![d] = tombs]
          /\ Goto(d, [at |-> "stamped", rev |-> op[d].rev, tombs |-> tombs])
          /\ UNCHANGED <<st, journal, fmap, disk, minted, faults>>
      BY <1>1 DEF FinalizeLedger
    <2> HIDE DEF tombs
    <2> QED
      BY <1>0, <2>2, <2>3, <2>4, Moved
  <1>2. CASE FinalizeState(d)
    <2>1. op[d].rev \in Nat /\ journal[d] # NoJournal
      BY <1>0, <1>2, StepFields DEF FinalizeState, At, Journaled, HasJournal
    <2>2. Applied(st[d], op[d].rev) \in VaultState
      BY <1>0, <2>1, AppliedType
    <2>3. journal[d].manifest.files \in FileTable
      BY <1>0, <2>1, JournalFields DEF Manifest
    <2>4. [at |-> "rewriting", files |-> journal[d].manifest.files,
           tombs |-> op[d].tombs] \in Step
      <3>1. op[d].tombs \in SUBSET LocalTombstone
        BY <1>0, <1>2, StepFields DEF FinalizeState, At
      <3> QED
        BY <2>3, <3>1 DEF Step
    <2>5. NoJournal \in Journal
      BY DEF Journal
    <2> QED
      BY <1>0, <1>2, <2>2, <2>4, <2>5, RowSet, Moved DEF FinalizeState
  <1>3. CASE FinalizeFilemap(d)
    <2>1. Rebuild(op[d].files, op[d].tombs) \in FileMap
      BY <1>0, <1>3, StepFields, RebuildType DEF FinalizeFilemap, At
    <2> QED
      BY <1>0, <1>3, <2>1, Moved, IdleSteps DEF FinalizeFilemap
  <1>4. CASE CleanupFailed(d)
    <2>1. (IF op[d].stale THEN [at |-> "marking"] ELSE Idle) \in Step
      BY IdleSteps
    <2> QED
      BY <1>0, <1>4, <2>1, UnlockTypes, Moved DEF CleanupFailed
  <1>5. CASE MarkStale(d)
    <2>1. [st[d] EXCEPT !.valid = FALSE] \in VaultState
      BY <1>0 DEF VaultState
    <2> QED
      BY <1>0, <1>5, <2>1, RowSet, Moved, IdleSteps DEF MarkStale
  <1> QED
    BY <1>1, <1>2, <1>3, <1>4, <1>5

LEMMA RecoverTypes ==
    ASSUME CTypeOK, Journaled, InPast, NEW d \in Devices,
           RecoverLocal(d) \/ RecoverMatch(d) \/ RecoverLedger(d) \/ RecoverMiss(d)
    PROVE  LocalTypes'
  <1> USE DEF LocalTypes, rows
  <1>0. LocalTypes /\ HeadRev \in Nat
    BY DEF CTypeOK, TypeOK, HeadRev
  <1>1. CASE RecoverLocal(d) \/ RecoverMiss(d)
    BY <1>0, <1>1, UnlockTypes DEF RecoverLocal, RecoverMiss
  <1>2. CASE RecoverMatch(d)
    <2>1. journal[d] # NoJournal
      BY <1>2 DEF RecoverMatch, Unsettled, NoJournal
    <2>2. journal[d].intent \in Intents
      BY <1>0, <2>1, JournalFields
    <2> DEFINE rev == commits[journal[d].intent].rev
    <2>3. rev \in Nat /\ rev <= HeadRev /\ StampsUpTo(ledger[d], HeadRev)
      <3>1. rev \in Nat
        BY <2>2 DEF CTypeOK, TypeOK, Commit, NoCommit
      <3>2. rev <= HeadRev
        BY <2>2 DEF InPast, VaultInPast
      <3> QED
        BY <3>1, <3>2 DEF InPast, DeviceInPast
    <2>4. Applied(st[d], rev) \in VaultState
      BY <1>0, <2>3, AppliedType
    <2>5. StampCommitted(ledger[d], journal[d], rev) \in SUBSET LocalTombstone
      BY <1>0, <2>3, StampedRecords
    <2>6. [at |-> "stamping", read |-> ledger[d],
           tombs |-> StampCommitted(ledger[d], journal[d], rev)] \in Step
      BY <1>0, <2>5 DEF Step
    <2>7. NoJournal \in Journal
      BY DEF Journal
    <2> QED
      BY <1>0, <1>2, <2>4, <2>6, <2>7, RowSet, Moved DEF RecoverMatch
  <1>3. CASE RecoverLedger(d)
    BY <1>0, <1>3, StepFields, Moved, IdleSteps DEF RecoverLedger, At
  <1> QED
    BY <1>1, <1>2, <1>3

LEMMA PullTypes ==
    ASSUME CTypeOK, InPast, NEW d \in Devices,
           Fetch(d) \/ PullFilemap(d) \/ PullLedger(d) \/ PullState(d)
    PROVE  LocalTypes'
  <1> USE DEF LocalTypes, rows
  <1>0. LocalTypes /\ HeadRev \in Nat
    BY DEF CTypeOK, TypeOK, HeadRev
  <1>1. CASE Fetch(d)
    <2>1. /\ TombsAt(HeadRev) \in SUBSET Tombstone
          /\ StampsUpTo(TombsAt(HeadRev), HeadRev) /\ StampsUpTo(ledger[d], HeadRev)
      BY <1>0, <1>1, AtTypes
         DEF Fetch, CTypeOK, InPast, VaultInPast, DeviceInPast, TombsAt
    <2>2. Converged(ledger[d], TombsAt(HeadRev), HeadRev) \in SUBSET LocalTombstone
      BY <1>0, <2>1, ConvergedRecords
    <2>3. [at |-> "fetched", target |-> HeadRev, before |-> fmap[d], read |-> ledger[d],
           tombs |-> Converged(ledger[d], TombsAt(HeadRev), HeadRev)] \in Step
      BY <1>0, <2>2 DEF Step
    <2> QED
      BY <1>0, <1>1, <2>3, Moved DEF Fetch
  <1>2. CASE PullFilemap(d)
    <2>1. op[d].target \in 0..HeadRev /\ op[d].before \in FileMap
          /\ op[d].tombs \in SUBSET LocalTombstone /\ op[d].read \in SUBSET LocalTombstone
      BY <1>0, <1>2, StepFields DEF PullFilemap, At, InPast, DeviceInPast, Pulling, Reading
    <2>2. Rebuild(FilesAt(op[d].target), op[d].tombs) \in FileMap
      BY <2>1, AtTypes, RebuildType DEF CTypeOK
    <2>3. [op[d] EXCEPT !.at = "rebuilt"] \in Step
      BY <1>0, <1>2, PullGoesOn DEF PullFilemap, At
    <2> QED
      BY <1>0, <1>2, <2>2, <2>3, Moved DEF PullFilemap
  <1>3. CASE PullLedger(d)
    <2>1. op[d].target \in Nat /\ op[d].before \in FileMap
          /\ op[d].tombs \in SUBSET LocalTombstone
      BY <1>0, <1>3, StepFields DEF PullLedger, At
    <2>2. [at |-> "converged", target |-> op[d].target, before |-> op[d].before] \in Step
      BY <2>1 DEF Step
    <2> QED
      BY <1>0, <1>3, <2>1, <2>2, Moved DEF PullLedger
  <1>4. CASE PullState(d)
    <2>1. op[d].target \in Nat
      BY <1>0, <1>4, StepFields DEF PullState, At
    <2>2. [st[d] EXCEPT !.applied = IF op[d].target > @ THEN op[d].target ELSE @,
                        !.pulled = op[d].target, !.valid = TRUE] \in VaultState
      BY <1>0, <2>1 DEF VaultState
    <2>3. [op[d] EXCEPT !.at = "acking"] \in Step
      BY <1>0, <1>4, PullGoesOn DEF PullState, At
    <2> QED
      BY <1>0, <1>4, <2>2, <2>3, RowSet, Moved DEF PullState
  <1> QED
    BY <1>1, <1>2, <1>3, <1>4

LEMMA ApplyTypes ==
    ASSUME CTypeOK, InPast, NEW d \in Devices,
           \/ AckLost(d) \/ AcknowledgeAgain(d) \/ ApplyWorkspace(d) \/ Crash(d)
           \/ \E choice \in BOOLEAN : Acknowledge(d, choice) \/ AbandonApply(d, choice)
    PROVE  LocalTypes'
  <1> USE DEF LocalTypes, rows
  <1>0. LocalTypes /\ HeadRev \in Nat
    BY DEF CTypeOK, TypeOK, HeadRev
  <1>1. CASE AckLost(d) \/ Crash(d)
    BY <1>0, <1>1, Moved, IdleSteps DEF AckLost, Crash, Fault
  <1>2. CASE AcknowledgeAgain(d)
    BY <1>0, <1>2 DEF AcknowledgeAgain, client
  <1>3. CASE ApplyWorkspace(d)
    <2> DEFINE target  == op[d].target
               before  == op[d].before
               writes  == Writes(target, before)
               removes == Removes(target, before)
               folder  == [p \in Paths |->
                     IF \E f \in writes : PathOf[f] = p
                     THEN FilesAt(target)[CHOOSE f \in writes : PathOf[f] = p]
                     ELSE IF \E f \in removes : PathOf[f] = p THEN Absent ELSE disk[d][p]]
               row == [st[d] EXCEPT !.conflict =
                  @ \/ \E f \in (writes \cap Live(before)) \cup removes : Dirty(d, f)]
    <2>1. target \in 0..HeadRev
      BY <1>0, <1>3, StepFields DEF ApplyWorkspace, At, InPast, DeviceInPast, Pulling
    <2>2. FilesAt(target) \in FileTable /\ writes \in SUBSET Files
      BY <2>1, AtTypes DEF CTypeOK, Writes
    <2>3. folder \in [Paths -> Blobs \cup {Absent}]
      BY <1>0, <2>2 DEF FileTable
    <2>4. row \in VaultState
      BY <1>0 DEF VaultState
    <2>5. /\ disk' = [disk EXCEPT ![d] = folder] /\ Set(d, row) /\ Goto(d, Idle)
          /\ UNCHANGED <<journal, ledger, fmap, minted, faults>>
      BY <1>3, Zenon DEF ApplyWorkspace
    <2> HIDE DEF folder, row
    <2> QED
      BY <1>0, <2>3, <2>4, <2>5, RowSet, Moved, IdleSteps
  <1>4. ASSUME NEW choice \in BOOLEAN, Acknowledge(d, choice) PROVE LocalTypes'
    <2>1. op[d].target \in Nat /\ op[d].before \in FileMap
      BY <1>0, <1>4, StepFields DEF Acknowledge, At
    <2>2. [op[d] EXCEPT !.at = "applying"] \in Step
      BY <1>0, <1>4, PullGoesOn DEF Acknowledge, At
    <2>3. (IF choice THEN [op[d] EXCEPT !.at = "applying"] ELSE Idle) \in Step
      BY <2>2, IdleSteps
    <2> QED
      BY <1>0, <1>4, <2>3, Moved DEF Acknowledge, Fault
  <1>5. ASSUME NEW choice \in BOOLEAN, AbandonApply(d, choice) PROVE LocalTypes'
    <2>1. [st[d] EXCEPT !.valid = @ /\ ~choice] \in VaultState
      BY <1>0 DEF VaultState
    <2> QED
      BY <1>0, <1>5, <2>1, RowSet, Moved, IdleSteps DEF AbandonApply, Fault
  <1> QED
    BY <1>1, <1>2, <1>3, <1>4, <1>5

\* The requests of the devices keep the shape of the vault.
LEMMA CallTypes ==
    ASSUME CTypeOK, NEW c \in commitCalls, RunCommitCall(c)
    PROVE  TypeOK'
  <1>1. TypeOK
    BY DEF CTypeOK
  <1>2. [Next]_vars
    BY DEF Next
  <1> QED
    BY <1>1, <1>2, TypeStep

LEMMA AckTypes ==
    ASSUME CTypeOK, NEW d \in Devices, NEW rev \in Nat, AckRevisions(d, rev),
           UNCHANGED <<revoked, blobs, now, calls>>
    PROVE  TypeOK'
  <1> USE DEF calls, vault
  <1>0. TypeOK
    BY DEF CTypeOK
  <1>1. CASE rev > HeadRev
    BY <1>0, <1>1 DEF AckRevisions, TypeOK
  <1>2. CASE ~ (rev > HeadRev)
    <2>1. Join(d, rev) /\ Collect(joined', revoked, acks', Retention) /\ commits' = commits
      BY <1>2 DEF AckRevisions
    <2>2. joined' \in SUBSET Devices /\ acks' \in [Devices -> Nat]
      BY <1>0, <2>1, JoinEffect
    <2>3. revoked \in SUBSET Devices
      BY <1>0 DEF TypeOK
    <2>4. /\ history' \in Seq(Revision)
          /\ gcRuns' \in SUBSET [rev : Nat, active : SUBSET Devices, at : Nat,
                                 retention : Nat, reclaimed : SUBSET Tombstone]
      BY <1>0, <2>1, <2>2, <2>3, CollectTypes, RetentionIsNat
    <2> QED
      BY <1>0, <2>1, <2>2, <2>4 DEF TypeOK
  <1> QED
    BY <1>1, <1>2

LEMMA SendTypes ==
    ASSUME CTypeOK, Journaled, NEW d \in Devices, SendCommit(d)
    PROVE  TypeOK'
  <1>1. journal[d] \in Journal /\ journal[d] # NoJournal
    BY DEF SendCommit, At, Journaled, HasJournal, CTypeOK
  <1>2. journal[d].intent \in Intents /\ journal[d].manifest \in Manifest
    BY <1>1, JournalFields
  <1>3. ({journal[d].manifest.files[f] : f \in Files} \ {Absent}) \in SUBSET Blobs
    BY <1>2 DEF Manifest, FileTable
  <1>4. [intent |-> journal[d].intent, manifest |-> journal[d].manifest]
           \in [intent : Intents, manifest : Manifest]
    BY <1>2
  <1> QED
    BY <1>3, <1>4 DEF SendCommit, CTypeOK, TypeOK, vault

LEMMA CTypeInit == CInit => CTypeOK
  <1> SUFFICES ASSUME CInit PROVE CTypeOK
    OBVIOUS
  <1>1. TypeOK
    BY TypeInit DEF CInit
  <1>2. \A d \in Devices : [applied |-> 0, pulled |-> 0, seq |-> 0, busy |-> FALSE,
                            valid |-> TRUE, conflict |-> FALSE] \in VaultState
    BY DEF VaultState
  <1>3. NoJournal \in Journal
    BY DEF Journal
  <1> QED
    BY <1>1, <1>2, <1>3, IdleSteps DEF CInit, CTypeOK, FileMap, BesideStep

\* A deletion beside another operation touches nothing of the backend.
LEMMA BesideQuiet ==
    ASSUME NEW d \in Devices, DeletesBeside(d)
    PROVE  UNCHANGED <<store, journal, op>>
  BY DEF DeletesBeside, BeginBeside, RemoveBeside, RecordBeside, CountBeside, QuitBeside,
         store, rows, turns, vars, client, vault, calls

LEMMA BesideTypes ==
    ASSUME CTypeOK, NEW d \in Devices, DeletesBeside(d)
    PROVE  LocalTypes' /\ beside' \in [Devices -> BesideStep]
  <1> USE DEF LocalTypes, rows
  <1> DEFINE Goal == LocalTypes' /\ beside' \in [Devices -> BesideStep]
  <1>0. LocalTypes /\ beside \in [Devices -> BesideStep] /\ now \in Nat
    BY DEF CTypeOK, TypeOK
  <1>a. ASSUME NEW next \in BesideStep, beside' = [beside EXCEPT ![d] = next]
        PROVE beside' \in [Devices -> BesideStep]
    BY <1>0, <1>a
  <1>b. Idle \in BesideStep
    BY DEF BesideStep
  <1>1. ASSUME NEW f \in Files, BeginBeside(d, f) PROVE Goal
    <2> DEFINE next == [at |-> "removing", file |-> f, before |-> fmap[d], row |-> st[d],
                        tomb |-> [file |-> f, rev |-> 0, at |-> now, seq |-> st[d].seq + 1]]
    <2>1. [file |-> f, rev |-> 0, at |-> now, seq |-> st[d].seq + 1] \in LocalTombstone
      BY <1>0 DEF VaultState, LocalTombstone
    <2>2. next \in BesideStep
      BY <1>0, <2>1 DEF BesideStep
    <2>3. /\ beside' = [beside EXCEPT ![d] = next] /\ faults' = faults + 1
          /\ UNCHANGED <<st, journal, ledger, fmap, disk, minted, op>>
      BY <1>1 DEF BeginBeside, Fault
    <2> HIDE DEF next
    <2> QED
      BY <1>0, <1>a, <2>2, <2>3
  <1>2. CASE RemoveBeside(d)
    <2> DEFINE next == [at |-> "recording", row |-> beside[d].row, tomb |-> beside[d].tomb]
               doc == [beside[d].before EXCEPT ![beside[d].file] = Deleted]
    <2>1. /\ beside[d].before \in FileMap /\ beside[d].file \in Files
          /\ beside[d].tomb \in LocalTombstone /\ beside[d].row \in VaultState
      BY <1>0, <1>2, BesideFields DEF RemoveBeside
    <2>2. next \in BesideStep
      BY <2>1 DEF BesideStep
    <2>3. doc \in FileMap
      BY <2>1 DEF FileMap
    <2>4. /\ beside' = [beside EXCEPT ![d] = next] /\ fmap' = [fmap EXCEPT ![d] = doc]
          /\ disk' = [disk EXCEPT ![d][PathOf[beside[d].file]] = Absent]
          /\ UNCHANGED <<st, journal, ledger, minted, op, faults>>
      BY <1>2 DEF RemoveBeside
    <2> HIDE DEF next, doc
    <2>5. disk' \in [Devices -> [Paths -> Blobs \cup {Absent}]]
      BY <1>0, <2>4
    <2> QED
      BY <1>0, <1>a, <2>2, <2>3, <2>4, <2>5
  <1>3. CASE RecordBeside(d)
    <2> DEFINE next == [at |-> "counting", row |-> beside[d].row]
    <2>1. beside[d].tomb \in LocalTombstone /\ beside[d].row \in VaultState
      BY <1>0, <1>3, BesideFields DEF RecordBeside
    <2>2. next \in BesideStep
      BY <2>1 DEF BesideStep
    <2>3. /\ beside' = [beside EXCEPT ![d] = next]
          /\ ledger' = [ledger EXCEPT ![d] = ledger[d] \cup {beside[d].tomb}]
          /\ UNCHANGED <<st, journal, fmap, disk, minted, op, faults>>
      BY <1>3 DEF RecordBeside
    <2> HIDE DEF next
    <2>4. ledger' \in [Devices -> SUBSET LocalTombstone]
      BY <1>0, <2>1, <2>3
    <2> QED
      BY <1>0, <1>a, <2>2, <2>3, <2>4
  <1>4. CASE CountBeside(d)
    <2>1. beside[d].row \in VaultState
      BY <1>0, <1>4, BesideFields DEF CountBeside
    <2>2. [beside[d].row EXCEPT !.seq = @ + 1] \in VaultState
      BY <2>1 DEF VaultState
    <2> QED
      BY <1>0, <1>4, <1>a, <1>b, <2>2, RowSet DEF CountBeside
  <1>5. CASE QuitBeside(d)
    BY <1>0, <1>5, <1>a, <1>b DEF QuitBeside, turns, client
  <1> QED
    BY <1>1, <1>2, <1>3, <1>4, <1>5 DEF DeletesBeside

LEMMA CTypeStep == CTypeOK /\ Journaled /\ InPast /\ [CNext]_cvars => CTypeOK'
  <1> SUFFICES ASSUME CTypeOK, Journaled, InPast, [CNext]_cvars PROVE CTypeOK'
    OBVIOUS
  <1> DEFINE Goal == TypeOK' /\ LocalTypes'
  <1>a. ASSUME Goal, UNCHANGED beside PROVE CTypeOK'
    BY <1>a DEF CTypeOK, LocalTypes
  <1>b. ASSUME UNCHANGED store PROVE TypeOK'
    BY <1>b DEF store, vault, calls, CTypeOK, TypeOK
  <1>c. ASSUME UNCHANGED client PROVE LocalTypes'
    BY <1>c DEF client, CTypeOK, LocalTypes
  <1>d. \A d \in Devices : st[d].pulled \in Nat
    BY DEF CTypeOK, VaultState
  <1>1. ASSUME NEW d \in Devices,
               \/ \E p \in Paths, content \in Blobs \cup {Absent} : UserWrite(d, p, content)
               \/ \E f \in Files : DeleteNote(d, f)
               \/ ResolveConflicts(d)
        PROVE Goal
    BY <1>1, <1>b, UserTypes DEF UserWrite, DeleteNote, ResolveConflicts
  <1>2. ASSUME NEW d \in Devices, AppendTombstone(d) \/ CountDelete(d)
        PROVE Goal
    BY <1>2, <1>b, DeleteTypes DEF AppendTombstone, CountDelete
  <1>3. ASSUME NEW d \in Devices,
               \/ \E i \in Intents : PrepareCommit(d, i)
               \/ LockCommit(d) \/ FreezeCommit(d) \/ GiveUp(d)
        PROVE Goal
    BY <1>3, <1>b, CommitTypes DEF PrepareCommit, LockCommit, FreezeCommit, GiveUp
  <1>4. ASSUME NEW d \in Devices, SendCommit(d) PROVE Goal
    BY <1>4, CommitTypes, SendTypes
  <1>5. ASSUME NEW c \in commitCalls, RunCommit(c) PROVE Goal
    BY <1>5, AnswerTypes, CallTypes DEF RunCommit
  <1>6. ASSUME NEW d \in Devices,
               \/ FinalizeLedger(d) \/ FinalizeState(d) \/ FinalizeFilemap(d)
               \/ CleanupFailed(d) \/ MarkStale(d)
        PROVE Goal
    BY <1>6, <1>b, FinalizeTypes
       DEF FinalizeLedger, FinalizeState, FinalizeFilemap, CleanupFailed, MarkStale
  <1>7. ASSUME NEW d \in Devices,
               RecoverLocal(d) \/ RecoverMatch(d) \/ RecoverLedger(d) \/ RecoverMiss(d)
        PROVE Goal
    BY <1>7, <1>b, RecoverTypes
       DEF RecoverLocal, RecoverMatch, RecoverLedger, RecoverMiss
  <1>8. ASSUME NEW d \in Devices,
               Fetch(d) \/ PullFilemap(d) \/ PullLedger(d) \/ PullState(d)
        PROVE Goal
    BY <1>8, <1>b, PullTypes DEF Fetch, PullFilemap, PullLedger, PullState
  <1>9. ASSUME NEW d \in Devices,
               \/ AckLost(d) \/ ApplyWorkspace(d) \/ Crash(d)
               \/ \E choice \in BOOLEAN : AbandonApply(d, choice)
        PROVE Goal
    BY <1>9, <1>b, ApplyTypes DEF AckLost, ApplyWorkspace, Crash, AbandonApply
  <1>10. ASSUME NEW d \in Devices,
                AcknowledgeAgain(d) \/ \E choice \in BOOLEAN : Acknowledge(d, choice)
         PROVE Goal
    <2>1. AckRevisions(d, st[d].pulled) /\ UNCHANGED <<revoked, blobs, now, calls>>
      BY <1>10 DEF AcknowledgeAgain, Acknowledge
    <2> QED
      BY <1>10, <1>d, <2>1, ApplyTypes, AckTypes
  <1>11. ASSUME (RunTombstoneGC(Retention) \/ Tick) /\ UNCHANGED client PROVE Goal
    <2>1. [Next]_vars
      BY <1>11 DEF Next
    <2>2. TypeOK'
      BY <2>1, TypeStep DEF CTypeOK
    <2> QED
      BY <1>11, <1>c, <2>2
  <1>12. CASE UNCHANGED cvars
    BY <1>12, <1>a, <1>b, <1>c DEF cvars, turns, vars, store, vault, calls
  <1>13. CASE Turn /\ UNCHANGED beside
    <2>1. Goal
      BY <1>1, <1>2, <1>3, <1>4, <1>5, <1>6, <1>7, <1>8, <1>9, <1>10, <1>11, <1>13
         DEF Turn, DeviceStep
    <2> QED
      BY <1>13, <1>a, <2>1
  <1>14. CASE \E d \in Tandem : DeletesBeside(d)
    BY <1>14, <1>b, BesideQuiet, BesideTypes, TandemAreEditors, EditorsAreDevices
       DEF CTypeOK, LocalTypes
  <1> QED
    BY <1>12, <1>13, <1>14 DEF CNext

-----------------------------------------------------------------------------
(* The vault under the devices                                             *)

\* The steps that reach the backend; every other one is a device's own.
LEMMA StepKinds ==
    ASSUME [CNext]_cvars
    PROVE  \/ UNCHANGED store
           \/ \E d \in Devices : SendCommit(d)
           \/ \E c \in commitCalls : RunCommit(c)
           \/ \E d \in Devices : AckRevisions(d, st[d].pulled)
                                 /\ UNCHANGED <<revoked, blobs, now, calls>>
           \/ RunTombstoneGC(Retention) \/ Tick
  <1> DEFINE Kinds ==
           \/ UNCHANGED store
           \/ \E d \in Devices : SendCommit(d)
           \/ \E c \in commitCalls : RunCommit(c)
           \/ \E d \in Devices : AckRevisions(d, st[d].pulled)
                                 /\ UNCHANGED <<revoked, blobs, now, calls>>
           \/ RunTombstoneGC(Retention) \/ Tick
  <1> SUFFICES Kinds
    OBVIOUS
  <1>1. ASSUME NEW d \in Devices,
               \/ \E p \in Paths, content \in Blobs \cup {Absent} : UserWrite(d, p, content)
               \/ \E f \in Files : DeleteNote(d, f)
               \/ ResolveConflicts(d)
               \/ AppendTombstone(d) \/ CountDelete(d)
               \/ \E i \in Intents : PrepareCommit(d, i)
               \/ LockCommit(d) \/ FreezeCommit(d) \/ GiveUp(d)
               \/ FinalizeLedger(d) \/ FinalizeState(d) \/ FinalizeFilemap(d)
               \/ CleanupFailed(d) \/ MarkStale(d)
        PROVE UNCHANGED store
    BY <1>1 DEF UserWrite, DeleteNote, ResolveConflicts, AppendTombstone, CountDelete,
                PrepareCommit, LockCommit, FreezeCommit, GiveUp,
                FinalizeLedger, FinalizeState, FinalizeFilemap, CleanupFailed, MarkStale
  <1>2. ASSUME NEW d \in Devices,
               \/ RecoverLocal(d) \/ RecoverMatch(d) \/ RecoverLedger(d) \/ RecoverMiss(d)
               \/ Fetch(d) \/ PullFilemap(d) \/ PullLedger(d) \/ PullState(d)
               \/ AckLost(d) \/ ApplyWorkspace(d) \/ Crash(d)
               \/ \E choice \in BOOLEAN : AbandonApply(d, choice)
        PROVE UNCHANGED store
    BY <1>2 DEF RecoverLocal, RecoverMatch, RecoverLedger, RecoverMiss,
                Fetch, PullFilemap, PullLedger, PullState,
                AckLost, ApplyWorkspace, Crash, AbandonApply
  <1>3. ASSUME NEW d \in Devices,
               AcknowledgeAgain(d) \/ \E choice \in BOOLEAN : Acknowledge(d, choice)
        PROVE AckRevisions(d, st[d].pulled) /\ UNCHANGED <<revoked, blobs, now, calls>>
    BY <1>3 DEF AcknowledgeAgain, Acknowledge
  <1>4. CASE UNCHANGED cvars
    BY <1>4 DEF cvars, turns, vars, store, vault, calls
  <1>5. ASSUME NEW d \in Devices, DeviceStep(d) PROVE Kinds
    BY <1>5, <1>1, <1>2, <1>3 DEF DeviceStep
  <1> HIDE DEF Kinds
  <1>6. ASSUME UNCHANGED store PROVE Kinds
    BY <1>6 DEF Kinds
  <1>7. CASE \/ \E d \in Devices, p \in Paths, content \in Blobs \cup {Absent} :
                   UserWrite(d, p, content)
             \/ \E d \in Devices, f \in Files : DeleteNote(d, f)
             \/ \E d \in Devices : ResolveConflicts(d)
             \/ \E d \in Devices, i \in Intents : PrepareCommit(d, i)
    BY <1>7, <1>1, <1>6
  <1>8. CASE \E d \in Devices, choice \in BOOLEAN :
                  Acknowledge(d, choice) \/ AbandonApply(d, choice)
    BY <1>8, <1>2, <1>3 DEF Kinds
  <1>9. CASE \/ \E c \in commitCalls : RunCommit(c)
             \/ RunTombstoneGC(Retention) /\ UNCHANGED client
             \/ Tick /\ UNCHANGED client
    BY <1>9 DEF Kinds
  <1>10. CASE \E d \in Tandem : DeletesBeside(d)
    BY <1>10, <1>6, BesideQuiet, TandemAreEditors, EditorsAreDevices
  <1> QED
    BY <1>4, <1>5, <1>7, <1>8, <1>9, <1>10 DEF CNext, Turn

LEMMA VaultShape ==
    ASSUME CTypeOK, [CNext]_cvars
    PROVE  QuietStep \/ CreateStep \/ CollectStep
  <1>0. TypeOK /\ \A d \in Devices : st[d].pulled \in Nat
    BY DEF CTypeOK, VaultState
  <1>1. CASE UNCHANGED store
    BY <1>1 DEF store, vault, QuietStep
  <1>2. ASSUME NEW d \in Devices, SendCommit(d) PROVE QuietStep
    BY <1>2 DEF SendCommit, vault, QuietStep
  <1>3. CASE \/ \E c \in commitCalls : RunCommit(c)
             \/ RunTombstoneGC(Retention) \/ Tick
    <2>1. [Next]_vars
      BY <1>3 DEF RunCommit, Next
    <2> QED
      BY <1>0, <2>1, StepShape
  <1>4. ASSUME NEW d \in Devices, AckRevisions(d, st[d].pulled),
               UNCHANGED <<revoked, blobs, now, calls>>
        PROVE QuietStep \/ CollectStep
    <2>1. CASE st[d].pulled > HeadRev
      BY <1>4, <2>1 DEF AckRevisions, vault, QuietStep
    <2>2. CASE ~ (st[d].pulled > HeadRev)
      <3>1. /\ Join(d, st[d].pulled) /\ Collect(joined', revoked', acks', Retention)
            /\ commits' = commits
        BY <1>4, <2>2 DEF AckRevisions
      <3>2. joined' \in SUBSET Devices /\ revoked' \in SUBSET Devices
        BY <1>0, <1>4, <3>1, JoinEffect DEF TypeOK
      <3> QED
        BY <1>0, <3>1, <3>2, CollectShape, RetentionIsNat DEF QuietStep, CollectStep
    <2> QED
      BY <2>1, <2>2
  <1> QED
    BY <1>1, <1>2, <1>3, <1>4, StepKinds

\* The history only grows, by what a device sent or a collection left over.
LEMMA VaultGrows ==
    ASSUME CTypeOK, [CNext]_cvars
    PROVE  /\ HeadRev \in Nat /\ HeadRev' \in Nat /\ HeadRev' >= HeadRev
           /\ \A i \in Intents : commits[i] # NoCommit => commits'[i] = commits[i]
           /\ \A i \in Intents : commits'[i] # commits[i] =>
                 /\ \E c \in commitCalls : commits'[i].hash = c.manifest
                 /\ commits'[i].rev = HeadRev'
           /\ \A r \in 1..HeadRev' :
                 \/ r <= HeadRev /\ history'[r] = history[r]
                 \/ r = HeadRev + 1 /\ history'[r].tombs \subseteq TombsAt(HeadRev)
                 \/ \E c \in commitCalls :
                       r = HeadRev + 1 /\ history'[r].tombs = Stamped(c.manifest.tombs, r)
  <1>0. TypeOK /\ HeadRev \in Nat
    BY DEF CTypeOK, TypeOK, HeadRev
  <1>1. CASE QuietStep
    BY <1>0, <1>1 DEF QuietStep, HeadRev
  <1>2. CASE CreateStep
    <2>1. PICK c \in commitCalls : CreateRevision(c.intent, c.manifest)
      BY <1>2 DEF CreateStep
    <2>2. PICK x \in Revision :
             /\ history' = Append(history, x)
             /\ x = [by |-> c.intent, base |-> c.manifest.base,
                     files |-> c.manifest.files,
                     tombs |-> Stamped(c.manifest.tombs, HeadRev + 1)]
      BY <1>0, <2>1, CreateAppends
    <2>3. /\ HeadRev' = HeadRev + 1 /\ history'[HeadRev + 1] = x
          /\ \A r \in 1..HeadRev : history'[r] = history[r]
      BY <1>0, <2>2, AppendEffect
    <2>4. c.intent \in Intents /\ c.manifest \in Manifest
      BY <1>0 DEF TypeOK
    <2>5. /\ commits' = [commits EXCEPT ![c.intent] = [hash |-> c.manifest, rev |-> HeadRev + 1]]
          /\ commits[c.intent] = NoCommit
      BY <2>1, <2>4, StatusMeaning DEF CreateRevision
    <2>6. \A i \in Intents : commits'[i] = IF i = c.intent
             THEN [hash |-> c.manifest, rev |-> HeadRev + 1] ELSE commits[i]
      BY <1>0, <2>4, <2>5 DEF TypeOK
    <2>7. history'[HeadRev + 1].tombs = Stamped(c.manifest.tombs, HeadRev + 1)
      <3>1. x.tombs = Stamped(c.manifest.tombs, HeadRev + 1)
        BY <2>2
      <3> QED
        BY <2>3, <3>1
    <2> QED
      BY <1>0, <2>3, <2>5, <2>6, <2>7
  <1>3. CASE CollectStep
    <2>1. PICK active \in SUBSET Devices, retention \in Nat,
               reclaimed \in SUBSET TombsAt(HeadRev) :
                  Collected(active, retention, reclaimed)
      BY <1>3 DEF CollectStep
    <2>2. PICK x \in Revision :
             /\ history' = Append(history, x)
             /\ x = [by |-> Server, base |-> HeadRev, files |-> FilesAt(HeadRev),
                     tombs |-> TombsAt(HeadRev) \ reclaimed]
      BY <1>0, <2>1, CollectAppends
    <2>3. /\ HeadRev' = HeadRev + 1 /\ history'[HeadRev + 1] = x
          /\ \A r \in 1..HeadRev : history'[r] = history[r]
      BY <1>0, <2>2, AppendEffect
    <2>4. commits' = commits
      BY <1>3 DEF CollectStep
    <2>5. history'[HeadRev + 1].tombs \subseteq TombsAt(HeadRev)
      <3>1. x.tombs = TombsAt(HeadRev) \ reclaimed
        BY <2>2
      <3> QED
        BY <2>3, <3>1
    <2> QED
      BY <1>0, <2>3, <2>4, <2>5
  <1> QED
    BY <1>1, <1>2, <1>3, VaultShape

-----------------------------------------------------------------------------
(* What a step does to the device that takes it                            *)

DeviceInv(d) ==
    HasJournal(d) /\ DeviceInPast(d) /\ DeviceSteady(d) /\ DeviceRemembers(d)

\* The other devices are as they were; what a device has applied never shrinks, but
\* for the row an application writes back.
OnlyMoves(d) ==
    /\ \A e \in Devices \ {d} : /\ st'[e] = st[e] /\ journal'[e] = journal[e]
                                /\ ledger'[e] = ledger[e] /\ op'[e] = op[e]
    /\ d \notin Tandem => st'[d].applied >= st[d].applied

Later == HeadRev \in Nat /\ HeadRev' \in Nat /\ HeadRev' >= HeadRev

LEMMA StampsStay ==
    ASSUME NEW tombs, \A t \in tombs : t.rev \in Nat, StampsUpTo(tombs, HeadRev), Later
    PROVE  StampsUpTo(tombs, HeadRev')
  BY DEF StampsUpTo, Later

LEMMA RecordRevs ==
    ASSUME CTypeOK, NEW d \in Devices
    PROVE  /\ \A t \in ledger[d] : t.rev \in Nat
           /\ journal[d] # NoJournal =>
                 /\ journal[d].manifest \in Manifest
                 /\ \A t \in journal[d].manifest.tombs : t.rev \in Nat
           /\ op[d].at \in {"committed", "stamped"} => op[d].rev \in Nat
           /\ op[d].at \in Pulling => op[d].target \in Nat
           /\ op[d].at \in {"fetched", "rebuilt", "stamping"} =>
                 op[d].tombs \in SUBSET LocalTombstone /\ \A t \in op[d].tombs : t.rev \in Nat
           /\ op[d].at \in Reading => op[d].read \in SUBSET LocalTombstone
           /\ st[d].applied \in Nat /\ st[d].pulled \in Nat
  <1>1. ledger[d] \in SUBSET LocalTombstone /\ op[d] \in Step /\ journal[d] \in Journal
        /\ st[d] \in VaultState
    BY DEF CTypeOK
  <1>2. \A t \in LocalTombstone : t.rev \in Nat
    BY DEF LocalTombstone
  <1>3. journal[d] # NoJournal =>
           /\ journal[d].manifest \in Manifest
           /\ \A t \in journal[d].manifest.tombs : t.rev \in Nat
    BY <1>1, JournalFields DEF Manifest, Tombstone
  <1>4. /\ op[d].at \in {"committed", "stamped"} => op[d].rev \in Nat
        /\ op[d].at \in Pulling => op[d].target \in Nat
        /\ op[d].at \in {"fetched", "rebuilt", "stamping"} =>
              op[d].tombs \in SUBSET LocalTombstone
        /\ op[d].at \in Reading => op[d].read \in SUBSET LocalTombstone
    BY <1>1, StepFields DEF Pulling
  <1> QED
    BY <1>1, <1>2, <1>3, <1>4 DEF VaultState

\* A device that does nothing loses nothing by what the backend does.
LEMMA Unmoved ==
    ASSUME CTypeOK, Later, NEW e \in Devices, DeviceInv(e),
           st'[e] = st[e], journal'[e] = journal[e], ledger'[e] = ledger[e], op'[e] = op[e]
    PROVE  DeviceInv(e)'
  <1>1. HasJournal(e)' /\ DeviceSteady(e)' /\ DeviceRemembers(e)'
    BY DEF DeviceInv, HasJournal, DeviceSteady, DeviceCaughtUp,
             DeviceUndisturbed, DeviceRemembers, Reading
  <1>2. DeviceInPast(e)'
    BY RecordRevs DEF DeviceInv, DeviceInPast, StampsUpTo, Later
  <1> QED
    BY <1>1, <1>2 DEF DeviceInv

\* A device whose ledger stays and that goes to a point where it holds nothing.
LEMMA ComesToRest ==
    ASSUME CTypeOK, Later, NEW d \in Devices, DeviceInv(d),
           st'[d].pulled = st[d].pulled, st'[d].applied \in Nat,
           st'[d].applied >= st[d].applied,
           journal'[d] \in {journal[d], NoJournal}, ledger'[d] = ledger[d],
           op'[d].at \in {"idle", "counting", "failed", "marking"}
    PROVE  DeviceInv(d)'
  <1>1. HasJournal(d)' /\ DeviceRemembers(d)'
    BY DEF HasJournal, DeviceRemembers, Reading
  <1>2. DeviceSteady(d)'
    <2>1. journal[d] # NoJournal => journal[d].manifest.base \in Nat
      BY RecordRevs DEF Manifest
    <2> QED
      BY <2>1, RecordRevs DEF DeviceInv, DeviceSteady, DeviceCaughtUp, DeviceUndisturbed, Reading
  <1>3. DeviceInPast(d)'
    BY RecordRevs DEF DeviceInv, DeviceInPast, StampsUpTo, Later, Pulling
  <1> QED
    BY <1>1, <1>2, <1>3 DEF DeviceInv

\* Operations that end, fail, or are interrupted.
LEMMA RestSteps ==
    ASSUME CTypeOK, Later, NEW d \in Devices, DeviceInv(d),
           \/ CountDelete(d) \/ GiveUp(d) \/ FinalizeFilemap(d)
           \/ CleanupFailed(d) \/ MarkStale(d) \/ RecoverLocal(d) \/ RecoverMiss(d)
           \/ AckLost(d) \/ ApplyWorkspace(d) \/ Crash(d)
           \/ \E choice \in BOOLEAN : AbandonApply(d, choice)
           \/ Acknowledge(d, FALSE)
    PROVE  DeviceInv(d)' /\ OnlyMoves(d)
  <1> DEFINE Rest ==
         /\ st'[d].pulled = st[d].pulled /\ st'[d].applied = st[d].applied
         /\ journal'[d] \in {journal[d], NoJournal} /\ ledger'[d] = ledger[d]
         /\ op'[d].at \in {"idle", "counting", "failed", "marking"}
         /\ OnlyMoves(d)
  <1>0. LocalTypes /\ st[d].applied \in Nat
    BY RecordRevs DEF CTypeOK, LocalTypes
  <1> USE <1>0 DEF Set, Goto, Idle, Unlock, rows, OnlyMoves, LocalTypes, VaultState
  <1>1. ASSUME CountDelete(d) \/ MarkStale(d)
       PROVE Rest
    BY <1>1 DEF CountDelete, MarkStale
  <1>2. ASSUME GiveUp(d) \/ FinalizeFilemap(d) \/ AckLost(d) \/ Crash(d) \/ Acknowledge(d, FALSE)
       PROVE Rest
    BY <1>2 DEF GiveUp, FinalizeFilemap, AckLost, Crash, Acknowledge
  <1>3. ASSUME CleanupFailed(d)
       PROVE Rest
    BY <1>3 DEF CleanupFailed
  <1>4. ASSUME RecoverLocal(d) \/ RecoverMiss(d)
       PROVE Rest
    BY <1>4 DEF RecoverLocal, RecoverMiss, Unsettled, At
  <1>5. ASSUME ApplyWorkspace(d)
       PROVE Rest
    <2>1. \E row : row.applied = st[d].applied /\ row.pulled = st[d].pulled
                   /\ st' = [st EXCEPT ![d] = row]
      BY <1>5 DEF ApplyWorkspace
    <2>2. Goto(d, Idle) /\ UNCHANGED <<journal, ledger>>
      BY <1>5 DEF ApplyWorkspace
    <2> QED
      BY <2>1, <2>2
  <1>6. ASSUME \E choice \in BOOLEAN : AbandonApply(d, choice)
       PROVE Rest
    BY <1>6 DEF AbandonApply
  <1>7. Rest
    BY <1>1, <1>2, <1>3, <1>4, <1>5, <1>6
  <1>8. DeviceInv(d)'
    BY <1>0, <1>7, ComesToRest
  <1> QED
    BY <1>7, <1>8

\* What the user does through the program.
LEMMA DeleteSteps ==
    ASSUME CTypeOK, Later, NEW d \in Devices, DeviceInv(d),
           \/ \E f \in Files : DeleteNote(d, f)
           \/ AppendTombstone(d) \/ ResolveConflicts(d)
    PROVE  DeviceInv(d)' /\ OnlyMoves(d)
  <1>0. LocalTypes /\ st[d].applied \in Nat
    BY RecordRevs DEF CTypeOK, LocalTypes
  <1> USE <1>0 DEF rows, LocalTypes
  <1>1. ASSUME NEW f \in Files, DeleteNote(d, f) PROVE DeviceInv(d)' /\ OnlyMoves(d)
    <2>1. /\ UNCHANGED <<st, journal, ledger>>
          /\ op'[d].at = "deleting" /\ op'[d].tomb.rev = 0
          /\ \A e \in Devices \ {d} : op'[e] = op[e]
      BY <1>1 DEF DeleteNote, Goto
    <2>2. HasJournal(d)' /\ DeviceSteady(d)' /\ DeviceRemembers(d)'
      BY <2>1 DEF DeviceInv, HasJournal, DeviceSteady, DeviceCaughtUp,
             DeviceUndisturbed, DeviceRemembers, Reading
    <2>3. DeviceInPast(d)'
      BY <2>1, RecordRevs DEF DeviceInv, DeviceInPast, StampsUpTo, Later, Pulling
    <2> QED
      BY <2>1, <2>2, <2>3 DEF DeviceInv, OnlyMoves
  <1>2. CASE AppendTombstone(d)
    <2>1. /\ UNCHANGED <<st, journal>> /\ ledger'[d] = ledger[d] \cup {op[d].tomb}
          /\ op[d].tomb.rev = 0 /\ op'[d].at = "counting"
          /\ \A e \in Devices \ {d} : op'[e] = op[e] /\ ledger'[e] = ledger[e]
      BY <1>2 DEF AppendTombstone, Goto, At, DeviceInv, DeviceInPast
    <2>2. HasJournal(d)' /\ DeviceSteady(d)' /\ DeviceRemembers(d)'
      BY <2>1 DEF DeviceInv, HasJournal, DeviceSteady, DeviceCaughtUp,
             DeviceUndisturbed, DeviceRemembers, Reading
    <2>3. DeviceInPast(d)'
      BY <2>1, RecordRevs DEF DeviceInv, DeviceInPast, StampsUpTo, Later, Pulling
    <2> QED
      BY <2>1, <2>2, <2>3 DEF DeviceInv, OnlyMoves
  <1>3. CASE ResolveConflicts(d)
    <2>1. /\ UNCHANGED <<journal, ledger, op>> /\ op'[d].at = "idle"
          /\ st'[d].pulled = st[d].pulled /\ st'[d].applied = st[d].applied
          /\ \A e \in Devices \ {d} : st'[e] = st[e]
      BY <1>3 DEF ResolveConflicts, Set, At, VaultState
    <2> QED
      BY <2>1, ComesToRest DEF OnlyMoves
  <1> QED
    BY <1>1, <1>2, <1>3

\* A commit on its way to the backend.
LEMMA CommitSteps ==
    ASSUME CTypeOK, Later, NEW d \in Devices, DeviceInv(d),
           \/ \E i \in Intents : PrepareCommit(d, i)
           \/ LockCommit(d) \/ FreezeCommit(d) \/ SendCommit(d)
    PROVE  DeviceInv(d)' /\ OnlyMoves(d)
  <1>0. LocalTypes /\ st[d].applied \in Nat
    BY RecordRevs DEF CTypeOK, LocalTypes
  <1> USE <1>0 DEF rows, LocalTypes
  <1>1. ASSUME NEW i \in Intents, PrepareCommit(d, i) PROVE DeviceInv(d)' /\ OnlyMoves(d)
    <2> DEFINE seq == st[d].seq + Cardinality(Missing(d))
    <2>1. /\ UNCHANGED <<st, ledger>>
          /\ journal'[d] # NoJournal /\ journal'[d].manifest = PlanManifest(d)
          /\ op'[d] = [at |-> "locking", row |-> [st[d] EXCEPT !.busy = TRUE, !.seq = seq],
                       buildable |-> Buildable(d)]
          /\ \A e \in Devices \ {d} : op'[e] = op[e] /\ journal'[e] = journal[e]
      BY <1>1 DEF PrepareCommit, Goto, NoJournal
    <2>r. /\ op'[d].at = "locking"
          /\ op'[d].row = [st'[d] EXCEPT !.busy = TRUE, !.seq = op'[d].row.seq]
      <3> HIDE DEF seq
      <3>1. st[d] \in VaultState
        OBVIOUS
      <3>2. [st[d] EXCEPT !.busy = TRUE, !.seq = seq].seq = seq
        BY <3>1 DEF VaultState
      <3>3. /\ op'[d].at = "locking" /\ st'[d] = st[d]
            /\ op'[d].row = [st[d] EXCEPT !.busy = TRUE, !.seq = seq]
        BY <2>1
      <3>4. op'[d].row.seq = seq
        BY <3>2, <3>3
      <3> QED
        BY <3>3, <3>4, Zenon
    <2> HIDE DEF seq
    <2>2. PlanManifest(d).device = d /\ PlanManifest(d).base = st[d].applied
      BY DEF PlanManifest
    <2>3. StampsUpTo(PlanManifest(d).tombs, HeadRev)
      BY PlanTypes DEF DeviceInv, DeviceInPast, StampsUpTo, Later
    <2>4. \A t \in PlanManifest(d).tombs : t.rev \in Nat
      BY PlanTypes DEF Manifest, Tombstone
    <2>5. HasJournal(d)' /\ DeviceSteady(d)' /\ DeviceRemembers(d)'
      BY <2>1, <2>2, <2>r DEF DeviceInv, HasJournal, DeviceSteady, DeviceCaughtUp,
             DeviceUndisturbed, DeviceRemembers, Reading
    <2>6. DeviceInPast(d)'
      BY <2>1, <2>r, <2>3, <2>4, RecordRevs DEF DeviceInv, DeviceInPast, StampsUpTo, Later, Pulling
    <2> QED
      BY <2>1, <2>5, <2>6 DEF DeviceInv, OnlyMoves
  <1>2. CASE LockCommit(d)
    <2>1. /\ UNCHANGED <<journal, ledger>> /\ journal[d] # NoJournal
          /\ d \notin Tandem =>
                st'[d].pulled = st[d].pulled /\ st'[d].applied = st[d].applied
          /\ op'[d].at \in {"freezing", "idle"}
          /\ \A e \in Devices \ {d} : op'[e] = op[e] /\ st'[e] = st[e]
      BY <1>2 DEF LockCommit, Goto, Set, Idle, At, DeviceInv, HasJournal, VaultState,
                  DeviceSteady, DeviceUndisturbed
    <2>2. HasJournal(d)' /\ DeviceSteady(d)' /\ DeviceRemembers(d)'
      BY <2>1 DEF DeviceInv, HasJournal, DeviceSteady, DeviceCaughtUp,
             DeviceUndisturbed, DeviceRemembers, Reading
    <2>3. DeviceInPast(d)'
      BY <2>1, RecordRevs DEF DeviceInv, DeviceInPast, StampsUpTo, Later, Pulling
    <2> QED
      BY <2>1, <2>2, <2>3 DEF DeviceInv, OnlyMoves
  <1>3. CASE FreezeCommit(d)
    <2>1. journal[d] # NoJournal
      BY <1>3 DEF FreezeCommit, At, DeviceInv, HasJournal
    <2>2. /\ UNCHANGED <<st, ledger>>
          /\ journal'[d] = [journal[d] EXCEPT !.status = "submitted"]
          /\ op'[d].at = "sending"
          /\ \A e \in Devices \ {d} : op'[e] = op[e] /\ journal'[e] = journal[e]
      BY <1>3 DEF FreezeCommit, Goto
    <2>3. journal'[d] # NoJournal /\ journal'[d].manifest = journal[d].manifest
      BY <2>1, <2>2, JournalFields
    <2>4. HasJournal(d)' /\ DeviceSteady(d)' /\ DeviceRemembers(d)'
      BY <2>1, <2>2, <2>3 DEF DeviceInv, HasJournal, DeviceSteady, DeviceCaughtUp,
             DeviceUndisturbed, DeviceRemembers, Reading
    <2>5. DeviceInPast(d)'
      BY <2>1, <2>2, <2>3, RecordRevs DEF DeviceInv, DeviceInPast, StampsUpTo, Later, Pulling
    <2> QED
      BY <2>2, <2>4, <2>5 DEF DeviceInv, OnlyMoves
  <1>4. CASE SendCommit(d)
    <2>1. /\ UNCHANGED <<st, journal, ledger>> /\ journal[d] # NoJournal
          /\ op'[d].at = "waiting"
          /\ \A e \in Devices \ {d} : op'[e] = op[e]
      BY <1>4 DEF SendCommit, Goto, At, DeviceInv, HasJournal
    <2>2. HasJournal(d)' /\ DeviceSteady(d)' /\ DeviceRemembers(d)'
      BY <2>1 DEF DeviceInv, HasJournal, DeviceSteady, DeviceCaughtUp,
             DeviceUndisturbed, DeviceRemembers, Reading
    <2>3. DeviceInPast(d)'
      BY <2>1, RecordRevs DEF DeviceInv, DeviceInPast, StampsUpTo, Later, Pulling
    <2> QED
      BY <2>1, <2>2, <2>3 DEF DeviceInv, OnlyMoves
  <1> QED
    BY <1>1, <1>2, <1>3, <1>4

\* The answer of the backend, and what follows a commit that succeeded.
LEMMA AnswerStep ==
    ASSUME CTypeOK, Later, InPast, NEW c \in commitCalls, NEW d \in Devices,
           d = c.manifest.device, DeviceInv(d), RunCommit(c)
    PROVE  DeviceInv(d)' /\ OnlyMoves(d)
  <1>0. LocalTypes /\ TypeOK /\ st[d].applied \in Nat
    BY RecordRevs DEF CTypeOK, LocalTypes
  <1>1. /\ UNCHANGED <<st, journal, ledger>>
        /\ \A e \in Devices \ {d} : op'[e] = op[e]
        /\ \/ op'[d] = op[d]
           \/ At(d, "waiting") /\ op'[d] = Answer(c)
    <2>1. UNCHANGED <<st, journal, ledger>>
      BY DEF RunCommit, rows
    <2>2. \/ At(d, "waiting") /\ op' = [op EXCEPT ![d] = Answer(c)]
          \/ op' = op
      BY DEF RunCommit
    <2>3. op \in [Devices -> Step]
      BY <1>0 DEF LocalTypes
    <2> QED
      BY <2>1, <2>2, <2>3
  <1>2. CASE op'[d] = op[d]
    BY <1>1, <1>2, Unmoved, <1>0 DEF OnlyMoves
  <1>3. CASE At(d, "waiting") /\ op'[d] = Answer(c)
    <2>1. c.intent \in Intents /\ c.manifest \in Manifest
      BY <1>0 DEF TypeOK
    <2>2. journal[d] # NoJournal
      BY <1>3 DEF DeviceInv, HasJournal, At
    <2>3. CASE CommitStatus(c.intent, c.manifest) = "created"
      <3>1. CreateRevision(c.intent, c.manifest)
        BY <2>3 DEF RunCommit, RunCommitCall, CreateCommit, ReplayCommit, RejectCommit
      <3>2. HeadRev' = HeadRev + 1
        BY <1>0, <3>1, CreateAppends, AppendEffect
      <3>3. op'[d] = [at |-> "committed", rev |-> HeadRev + 1, read |-> ledger[d]]
        BY <1>3, <2>3 DEF Answer
      <3> QED
        BY <1>0, <1>1, <2>2, <3>2, <3>3, RecordRevs
           DEF OnlyMoves, DeviceInv, HasJournal, DeviceSteady, DeviceCaughtUp,
             DeviceUndisturbed, DeviceRemembers, Reading,
               DeviceInPast, StampsUpTo, Later, Pulling
    <2>4. CASE CommitStatus(c.intent, c.manifest) = "replayed"
      <3>1. op'[d] = [at |-> "committed", rev |-> commits[c.intent].rev, read |-> ledger[d]]
        BY <1>3, <2>4 DEF Answer
      <3>2. commits[c.intent].rev <= HeadRev /\ commits[c.intent].rev \in Nat
        BY <1>0, <2>1 DEF InPast, VaultInPast, TypeOK, Commit, NoCommit
      <3> QED
        BY <1>0, <1>1, <2>2, <3>1, <3>2, RecordRevs
           DEF OnlyMoves, DeviceInv, HasJournal, DeviceSteady, DeviceCaughtUp,
             DeviceUndisturbed, DeviceRemembers, Reading,
               DeviceInPast, StampsUpTo, Later, Pulling
    <2>5. CASE CommitStatus(c.intent, c.manifest) \notin {"created", "replayed"}
      <3>1. op'[d].at = "failed"
        BY <1>3, <2>5 DEF Answer
      <3> QED
        BY <1>0, <1>1, <3>1, ComesToRest DEF OnlyMoves
    <2> QED
      BY <2>3, <2>4, <2>5
  <1> QED
    BY <1>1, <1>2, <1>3

LEMMA FinishSteps ==
    ASSUME CTypeOK, CTypeOK', Later, VaultInPast, NEW d \in Devices, DeviceInv(d),
           \/ FinalizeLedger(d) \/ FinalizeState(d)
           \/ RecoverMatch(d) \/ RecoverLedger(d)
    PROVE  DeviceInv(d)' /\ OnlyMoves(d)
  <1>0. LocalTypes /\ TypeOK /\ st[d].applied \in Nat /\ ledger[d] \in SUBSET LocalTombstone
    BY RecordRevs DEF CTypeOK, LocalTypes
  <1> USE <1>0 DEF rows, LocalTypes
  <1>1. CASE FinalizeLedger(d)
    <2>1. /\ UNCHANGED <<st, journal>> /\ journal[d] # NoJournal
          /\ ledger'[d] = StampCommitted(op[d].read, journal[d], op[d].rev)
          /\ op'[d] = [at |-> "stamped", rev |-> op[d].rev, tombs |-> ledger'[d]]
          /\ op[d].rev \in Nat /\ op[d].rev <= HeadRev
          /\ op[d].read \in SUBSET LocalTombstone /\ op[d].read \subseteq ledger[d]
          /\ \A e \in Devices \ {d} : op'[e] = op[e] /\ ledger'[e] = ledger[e]
      BY <1>1, RecordRevs DEF FinalizeLedger, Goto, At, DeviceInv, DeviceInPast, HasJournal,
                              DeviceRemembers, Reading
    <2>2. StampsUpTo(ledger'[d], HeadRev) /\ ledger'[d] \in SUBSET LocalTombstone
      <3>1. StampsUpTo(op[d].read, HeadRev) /\ HeadRev \in Nat
        BY <2>1 DEF Later, DeviceInv, DeviceInPast, StampsUpTo
      <3>2. /\ StampCommitted(op[d].read, journal[d], op[d].rev) \in SUBSET LocalTombstone
            /\ StampsUpTo(StampCommitted(op[d].read, journal[d], op[d].rev), HeadRev)
        BY <2>1, <3>1, StampedRecords
      <3> QED
        BY <2>1, <3>2
    <2>3. HasJournal(d)' /\ DeviceSteady(d)' /\ DeviceRemembers(d)'
      BY <2>1 DEF DeviceInv, HasJournal, DeviceSteady, DeviceCaughtUp,
             DeviceUndisturbed, DeviceRemembers, Reading
    <2>4. \A t \in ledger'[d] : t.rev \in Nat
      BY <2>2 DEF LocalTombstone
    <2>5. DeviceInPast(d)'
      BY <2>1, <2>2, <2>4, RecordRevs DEF DeviceInv, DeviceInPast, StampsUpTo, Later, Pulling
    <2> QED
      BY <2>1, <2>3, <2>5 DEF DeviceInv, OnlyMoves
  <1>2. CASE FinalizeState(d)
    <2>1. op[d].rev \in Nat
      BY <1>2, RecordRevs DEF FinalizeState, At
    <2>2. /\ UNCHANGED ledger /\ journal'[d] = NoJournal
          /\ op[d].at = "stamped"
          /\ op'[d].at = "rewriting" /\ op'[d].tombs = op[d].tombs
          /\ st'[d] = Applied(st[d], op[d].rev)
          /\ \A e \in Devices \ {d} : st'[e] = st[e] /\ op'[e] = op[e]
                                      /\ journal'[e] = journal[e]
      BY <1>2 DEF FinalizeState, Goto, Set, At
    <2>3. st'[d].pulled = st[d].pulled /\ st'[d].applied >= st[d].applied
          /\ st'[d].applied \in Nat
      BY <2>1, <2>2 DEF Applied, VaultState
    <2>4. DeviceSteady(d)'
      <3>1. st[d].pulled \in Nat
        BY RecordRevs
      <3> QED
        BY <2>2, <2>3, <3>1 DEF DeviceInv, DeviceSteady, DeviceCaughtUp, DeviceUndisturbed, Reading
    <2>5. HasJournal(d)' /\ DeviceRemembers(d)'
      BY <2>2 DEF HasJournal, DeviceRemembers, Reading
    <2>6. DeviceInPast(d)'
      BY <2>2, RecordRevs DEF DeviceInv, DeviceInPast, StampsUpTo, Later, Pulling
    <2> QED
      BY <2>2, <2>3, <2>4, <2>5, <2>6 DEF DeviceInv, OnlyMoves
  <1>3. CASE RecoverMatch(d)
    <2> DEFINE rev == commits[journal[d].intent].rev
    <2>1. journal[d] # NoJournal
      BY <1>3 DEF RecoverMatch, Unsettled, NoJournal
    <2>2. journal[d].intent \in Intents
      BY <2>1, JournalFields
    <2>3. rev \in Nat
      BY <2>2 DEF TypeOK, Commit, NoCommit
    <2>4. rev <= HeadRev
      BY <2>2 DEF VaultInPast
    <2>5. /\ UNCHANGED ledger /\ journal'[d] = NoJournal
          /\ op'[d] = [at |-> "stamping", read |-> ledger[d],
                       tombs |-> StampCommitted(ledger[d], journal[d], rev)]
          /\ st'[d] = Applied(st[d], rev)
          /\ \A e \in Devices \ {d} : st'[e] = st[e] /\ op'[e] = op[e]
                                      /\ journal'[e] = journal[e]
      BY <1>3 DEF RecoverMatch, Goto, Set
    <2> DEFINE stamped == StampCommitted(ledger[d], journal[d], rev)
    <2>6. /\ stamped \in SUBSET LocalTombstone /\ StampsUpTo(stamped, HeadRev)
          /\ Kept(ledger[d], stamped)
      BY <2>3, <2>4, StampedRecords DEF Later, DeviceInv, DeviceInPast
    <2>7. st'[d].pulled = st[d].pulled /\ st'[d].applied >= st[d].applied
          /\ st'[d].applied \in Nat /\ st[d].pulled \in Nat
      BY <2>3, <2>5 DEF Applied, VaultState
    <2>8. op'[d].at = "stamping" /\ op'[d].tombs = stamped /\ op'[d].read = ledger'[d]
      BY <2>5
    <2> HIDE DEF stamped, rev
    <2>9. HasJournal(d)' /\ DeviceSteady(d)' /\ DeviceRemembers(d)'
      BY <2>5, <2>6, <2>7, <2>8 DEF DeviceInv, HasJournal, DeviceSteady, DeviceCaughtUp,
             DeviceUndisturbed, DeviceRemembers, Reading
    <2>10. \A t \in stamped : t.rev \in Nat
      BY <2>6 DEF LocalTombstone
    <2>11. DeviceInPast(d)'
      BY <2>5, <2>6, <2>8, <2>10, RecordRevs
         DEF DeviceInv, DeviceInPast, StampsUpTo, Later, Pulling
    <2> QED
      BY <2>5, <2>7, <2>9, <2>11 DEF DeviceInv, OnlyMoves
  <1>4. CASE RecoverLedger(d)
    <2>1. /\ UNCHANGED <<st, journal>> /\ op[d].at = "stamping"
          /\ ledger'[d] = op[d].tombs /\ op'[d].at = "idle"
          /\ \A e \in Devices \ {d} : op'[e] = op[e] /\ ledger'[e] = ledger[e]
      BY <1>4 DEF RecoverLedger, Goto, At, Idle
    <2>2. HasJournal(d)' /\ DeviceSteady(d)' /\ DeviceRemembers(d)'
      BY <2>1 DEF DeviceInv, HasJournal, DeviceSteady, DeviceCaughtUp,
             DeviceUndisturbed, DeviceRemembers, Reading
    <2>3. DeviceInPast(d)'
      BY <2>1, RecordRevs DEF DeviceInv, DeviceInPast, StampsUpTo, Later, Pulling
    <2> QED
      BY <2>1, <2>2, <2>3 DEF DeviceInv, OnlyMoves
  <1> QED
    BY <1>1, <1>2, <1>3, <1>4

\* A pull.
LEMMA PullSteps ==
    ASSUME CTypeOK, CTypeOK', Later, VaultInPast, NEW d \in Devices, DeviceInv(d),
           \/ Fetch(d) \/ PullFilemap(d) \/ PullLedger(d) \/ PullState(d)
           \/ Acknowledge(d, TRUE)
    PROVE  DeviceInv(d)' /\ OnlyMoves(d)
  <1>0. LocalTypes /\ TypeOK /\ st[d].applied \in Nat /\ ledger[d] \in SUBSET LocalTombstone
        /\ op[d] \in Step
    BY RecordRevs DEF CTypeOK, LocalTypes
  <1> USE <1>0 DEF rows, LocalTypes
  <1>1. CASE Fetch(d)
    <2> DEFINE new == Converged(ledger[d], TombsAt(HeadRev), HeadRev)
    <2>1. /\ TombsAt(HeadRev) \in SUBSET Tombstone
          /\ StampsUpTo(TombsAt(HeadRev), HeadRev) /\ StampsUpTo(ledger[d], HeadRev)
      BY <1>1, AtTypes
         DEF Fetch, VaultInPast, DeviceInv, DeviceInPast, TombsAt, Later
    <2>2. /\ new \in SUBSET LocalTombstone /\ StampsUpTo(new, HeadRev)
          /\ KeptOrReclaimed(ledger[d], new)
      BY <2>1, ConvergedRecords DEF Later
    <2>3. /\ UNCHANGED <<st, journal, ledger>>
          /\ op'[d] = [at |-> "fetched", target |-> HeadRev, before |-> fmap[d],
                       read |-> ledger[d], tombs |-> new]
          /\ \A e \in Devices \ {d} : op'[e] = op[e]
      BY <1>1 DEF Fetch, Goto
    <2>4. op'[d].at = "fetched" /\ op'[d].target = HeadRev /\ op'[d].tombs = new
          /\ op'[d].read = ledger'[d]
      BY <2>3
    <2>5. \A t \in new : t.rev \in Nat
      BY <2>2 DEF LocalTombstone
    <2> HIDE DEF new
    <2>6. HasJournal(d)' /\ DeviceSteady(d)' /\ DeviceRemembers(d)'
      BY <2>2, <2>3, <2>4 DEF DeviceInv, HasJournal, DeviceSteady, DeviceCaughtUp,
             DeviceUndisturbed, DeviceRemembers, Reading
    <2>7. DeviceInPast(d)'
      BY <2>2, <2>3, <2>4, <2>5, RecordRevs
         DEF DeviceInv, DeviceInPast, StampsUpTo, Later, Pulling
    <2> QED
      BY <2>3, <2>6, <2>7 DEF DeviceInv, OnlyMoves
  <1>2. CASE PullFilemap(d)
    <2>1. /\ UNCHANGED <<st, journal, ledger>> /\ op[d].at = "fetched"
          /\ op'[d] = [op[d] EXCEPT !.at = "rebuilt"]
          /\ \A e \in Devices \ {d} : op'[e] = op[e]
      BY <1>2 DEF PullFilemap, Goto, At
    <2>2. op'[d].at = "rebuilt" /\ op'[d].target = op[d].target /\ op'[d].tombs = op[d].tombs
          /\ op'[d].read = op[d].read
      BY <2>1, PullGoesOn
    <2>3. HasJournal(d)' /\ DeviceSteady(d)' /\ DeviceRemembers(d)'
      BY <2>1, <2>2 DEF DeviceInv, HasJournal, DeviceSteady, DeviceCaughtUp,
             DeviceUndisturbed, DeviceRemembers, Reading
    <2>4. DeviceInPast(d)'
      BY <2>1, <2>2, RecordRevs DEF DeviceInv, DeviceInPast, StampsUpTo, Later, Pulling
    <2> QED
      BY <2>1, <2>3, <2>4 DEF DeviceInv, OnlyMoves
  <1>3. CASE PullLedger(d)
    <2>1. /\ UNCHANGED <<st, journal>> /\ op[d].at = "rebuilt"
          /\ ledger'[d] = op[d].tombs
          /\ op'[d].at = "converged" /\ op'[d].target = op[d].target
          /\ \A e \in Devices \ {d} : op'[e] = op[e] /\ ledger'[e] = ledger[e]
      BY <1>3 DEF PullLedger, Goto, At
    <2>2. HasJournal(d)' /\ DeviceSteady(d)' /\ DeviceRemembers(d)'
      BY <2>1 DEF DeviceInv, HasJournal, DeviceSteady, DeviceCaughtUp,
             DeviceUndisturbed, DeviceRemembers, Reading
    <2>3. DeviceInPast(d)'
      BY <2>1, RecordRevs DEF DeviceInv, DeviceInPast, StampsUpTo, Later, Pulling
    <2> QED
      BY <2>1, <2>2, <2>3 DEF DeviceInv, OnlyMoves
  <1>4. CASE PullState(d)
    <2>1. /\ UNCHANGED <<journal, ledger>> /\ op[d].at = "converged"
          /\ op'[d] = [op[d] EXCEPT !.at = "acking"]
          /\ st'[d] = [st[d] EXCEPT !.applied = IF op[d].target > @ THEN op[d].target ELSE @,
                                    !.pulled = op[d].target, !.valid = TRUE]
          /\ \A e \in Devices \ {d} : op'[e] = op[e] /\ st'[e] = st[e]
      BY <1>4 DEF PullState, Goto, Set, At
    <2>2. op'[d].at = "acking" /\ op'[d].target = op[d].target /\ op[d].target \in Nat
      BY <2>1, RecordRevs, PullGoesOn DEF Pulling
    <2>3. st'[d].pulled <= st'[d].applied /\ st'[d].applied >= st[d].applied
          /\ st'[d].applied \in Nat
      BY <2>1, <2>2 DEF VaultState
    <2>4. journal[d] # NoJournal => journal[d].manifest.base \in Nat
      BY RecordRevs DEF Manifest
    <2>5. DeviceSteady(d)'
      BY <2>1, <2>2, <2>3, <2>4, RecordRevs
         DEF DeviceInv, DeviceSteady, DeviceCaughtUp, DeviceUndisturbed, Reading
    <2>6. HasJournal(d)' /\ DeviceRemembers(d)'
      BY <2>2 DEF HasJournal, DeviceRemembers, Reading
    <2>7. DeviceInPast(d)'
      BY <2>1, <2>2, RecordRevs DEF DeviceInv, DeviceInPast, StampsUpTo, Later, Pulling
    <2> QED
      BY <2>1, <2>3, <2>5, <2>6, <2>7 DEF DeviceInv, OnlyMoves
  <1>5. CASE Acknowledge(d, TRUE)
    <2>1. /\ UNCHANGED <<st, journal, ledger>> /\ op[d].at = "acking"
          /\ op'[d] = [op[d] EXCEPT !.at = "applying"]
          /\ \A e \in Devices \ {d} : op'[e] = op[e]
      BY <1>5 DEF Acknowledge, Goto, At
    <2>2. op'[d].at = "applying" /\ op'[d].target = op[d].target
      BY <2>1, PullGoesOn
    <2>3. HasJournal(d)' /\ DeviceSteady(d)' /\ DeviceRemembers(d)'
      BY <2>1, <2>2 DEF DeviceInv, HasJournal, DeviceSteady, DeviceCaughtUp,
             DeviceUndisturbed, DeviceRemembers, Reading
    <2>4. DeviceInPast(d)'
      BY <2>1, <2>2, RecordRevs DEF DeviceInv, DeviceInPast, StampsUpTo, Later, Pulling
    <2> QED
      BY <2>1, <2>3, <2>4 DEF DeviceInv, OnlyMoves
  <1> QED
    BY <1>1, <1>2, <1>3, <1>4, <1>5

-----------------------------------------------------------------------------
(* The invariant holds                                                     *)

\* A deletion beside an operation leaves alone what the operation has read.
LEMMA BesideSteps ==
    ASSUME CTypeOK, Later, BesidePending, NEW d \in Devices, d \in Tandem, DeviceInv(d),
           DeletesBeside(d)
    PROVE  DeviceInv(d)' /\ OnlyMoves(d) /\ BesidePending'
  <1>0. /\ LocalTypes /\ beside \in [Devices -> BesideStep]
        /\ journal' = journal /\ op' = op
    BY BesideQuiet DEF CTypeOK, LocalTypes
  <1> USE <1>0 DEF rows, LocalTypes
  <1>a. ASSUME st' = st, ledger' = ledger PROVE DeviceInv(d)' /\ OnlyMoves(d)
    <2>1. st[d].applied \in Nat
      BY RecordRevs
    <2> QED
      BY <1>a, <2>1, Unmoved DEF OnlyMoves
  <1>b. ASSUME NEW next, beside' = [beside EXCEPT ![d] = next],
               next.at \in {"removing", "recording"} => next.tomb.rev = 0
        PROVE BesidePending'
    BY <1>b DEF BesidePending
  <1>1. ASSUME NEW f \in Files, BeginBeside(d, f)
        PROVE DeviceInv(d)' /\ OnlyMoves(d) /\ BesidePending'
    BY <1>1, <1>a, <1>b DEF BeginBeside
  <1>2. CASE RemoveBeside(d)
    BY <1>2, <1>a, <1>b DEF RemoveBeside, BesidePending
  <1>3. CASE RecordBeside(d)
    <2>1. /\ ledger'[d] = ledger[d] \cup {beside[d].tomb} /\ beside[d].tomb.rev = 0
          /\ st' = st /\ \A e \in Devices \ {d} : ledger'[e] = ledger[e]
      BY <1>3 DEF RecordBeside, BesidePending
    <2>2. HasJournal(d)' /\ DeviceSteady(d)' /\ DeviceRemembers(d)'
      BY <2>1 DEF DeviceInv, HasJournal, DeviceSteady, DeviceRemembers
    <2>3. DeviceInPast(d)'
      BY <2>1, RecordRevs DEF DeviceInv, DeviceInPast, StampsUpTo, Later, Pulling
    <2>4. BesidePending'
      BY <1>3, <1>b DEF RecordBeside
    <2> QED
      BY <2>1, <2>2, <2>3, <2>4 DEF DeviceInv, OnlyMoves
  <1>4. CASE CountBeside(d)
    <2>1. /\ ledger' = ledger /\ \A e \in Devices \ {d} : st'[e] = st[e]
          /\ BesidePending'
      BY <1>4, <1>b DEF CountBeside, Set, Idle
    <2>2. HasJournal(d)' /\ DeviceSteady(d)' /\ DeviceRemembers(d)'
      BY <2>1 DEF DeviceInv, HasJournal, DeviceSteady, DeviceRemembers
    <2>3. DeviceInPast(d)'
      BY <2>1, RecordRevs DEF DeviceInv, DeviceInPast, StampsUpTo, Later, Pulling
    <2> QED
      BY <2>1, <2>2, <2>3 DEF DeviceInv, OnlyMoves
  <1>5. CASE QuitBeside(d)
    BY <1>5, <1>a, <1>b DEF QuitBeside, turns, client, Idle
  <1> QED
    BY <1>1, <1>2, <1>3, <1>4, <1>5 DEF DeletesBeside

\* Every device keeps its part, whichever of them moves.
LEMMA DevicesStep ==
    ASSUME BaseInv, CTypeOK', [CNext]_cvars
    PROVE  /\ \A e \in Devices : DeviceInv(e)'
           /\ \A e \in Devices \ Tandem : st'[e].applied >= st[e].applied
           /\ BesidePending'
  <1> DEFINE Goal == /\ \A e \in Devices : DeviceInv(e)'
                     /\ \A e \in Devices \ Tandem : st'[e].applied >= st[e].applied
  <1>0. /\ CTypeOK /\ Later /\ InPast /\ VaultInPast /\ BesidePending
        /\ \A e \in Devices : DeviceInv(e)
    BY VaultGrows DEF BaseInv, Later, InPast, Journaled, Remembered, DeviceInv
  <1>n. \A e \in Devices : st[e].applied \in Nat
    BY <1>0, RecordRevs
  <1>a. ASSUME NEW d \in Devices, DeviceInv(d)', OnlyMoves(d) PROVE Goal
    BY <1>0, <1>a, <1>n, Unmoved DEF OnlyMoves
  <1>b. ASSUME UNCHANGED <<st, journal, ledger, op>> PROVE Goal
    BY <1>0, <1>b, <1>n, Unmoved
  <1>1. ASSUME NEW d \in Devices,
               \/ CountDelete(d) \/ GiveUp(d) \/ FinalizeFilemap(d)
               \/ CleanupFailed(d) \/ MarkStale(d) \/ RecoverLocal(d) \/ RecoverMiss(d)
               \/ AckLost(d) \/ ApplyWorkspace(d) \/ Crash(d)
               \/ \E choice \in BOOLEAN : AbandonApply(d, choice)
               \/ Acknowledge(d, FALSE)
        PROVE Goal
    BY <1>0, <1>1, <1>a, RestSteps
  <1>2. ASSUME NEW d \in Devices,
               \/ \E f \in Files : DeleteNote(d, f)
               \/ AppendTombstone(d) \/ ResolveConflicts(d)
        PROVE Goal
    BY <1>0, <1>2, <1>a, DeleteSteps
  <1>3. ASSUME NEW d \in Devices,
               \/ \E i \in Intents : PrepareCommit(d, i)
               \/ LockCommit(d) \/ FreezeCommit(d) \/ SendCommit(d)
        PROVE Goal
    BY <1>0, <1>3, <1>a, CommitSteps
  <1>4. ASSUME NEW c \in commitCalls, RunCommit(c) PROVE Goal
    <2>1. c.manifest.device \in Devices
      BY <1>0 DEF CTypeOK, TypeOK, Manifest
    <2> QED
      BY <1>0, <1>4, <1>a, <2>1, AnswerStep
  <1>5. ASSUME NEW d \in Devices,
               \/ FinalizeLedger(d) \/ FinalizeState(d)
               \/ RecoverMatch(d) \/ RecoverLedger(d)
        PROVE Goal
    BY <1>0, <1>5, <1>a, FinishSteps
  <1>6. ASSUME NEW d \in Devices,
               \/ Fetch(d) \/ PullFilemap(d) \/ PullLedger(d) \/ PullState(d)
               \/ Acknowledge(d, TRUE)
        PROVE Goal
    BY <1>0, <1>6, <1>a, PullSteps
  <1>7. ASSUME NEW d \in Devices,
               \/ \E p \in Paths, content \in Blobs \cup {Absent} : UserWrite(d, p, content)
               \/ AcknowledgeAgain(d)
        PROVE Goal
    BY <1>7, <1>b DEF UserWrite, AcknowledgeAgain, client, rows
  <1>8. ASSUME UNCHANGED client PROVE Goal
    BY <1>8, <1>b DEF client
  <1>9. ASSUME UNCHANGED cvars PROVE Goal /\ BesidePending'
    BY <1>9, <1>8, <1>0 DEF cvars, turns, BesidePending
  <1> HIDE DEF Goal
  <1>10. ASSUME NEW d \in Devices, NEW choice \in BOOLEAN, Acknowledge(d, choice)
         PROVE Goal
    BY <1>1, <1>6, <1>10
  <1>11. ASSUME NEW d \in Devices, DeviceStep(d) PROVE Goal
    BY <1>11, <1>1, <1>2, <1>3, <1>5, <1>6, <1>7 DEF DeviceStep
  <1>12. ASSUME \E d \in Devices, p \in Paths, content \in Blobs \cup {Absent} :
                  UserWrite(d, p, content) PROVE Goal
    BY <1>12, <1>7
  <1>13. ASSUME \E d \in Devices, f \in Files : DeleteNote(d, f) PROVE Goal
    BY <1>13, <1>2
  <1>14. ASSUME \E d \in Devices : ResolveConflicts(d) PROVE Goal
    BY <1>14, <1>2
  <1>15. ASSUME \E d \in Devices, i \in Intents : PrepareCommit(d, i) PROVE Goal
    BY <1>15, <1>3
  <1>16. ASSUME \E d \in Devices : DeviceStep(d) PROVE Goal
    BY <1>16, <1>11
  <1>17. ASSUME \E d \in Devices, choice \in BOOLEAN :
                  Acknowledge(d, choice) \/ AbandonApply(d, choice) PROVE Goal
    BY <1>17, <1>1, <1>10
  <1>18. ASSUME \E c \in commitCalls : RunCommit(c) PROVE Goal
    BY <1>18, <1>4
  <1>19. CASE Turn /\ UNCHANGED beside
    <2>1. Goal
      BY <1>12, <1>13, <1>14, <1>15, <1>16, <1>17, <1>18, <1>8, <1>19 DEF Turn
    <2>2. BesidePending'
      BY <1>0, <1>19 DEF BesidePending
    <2> QED
      BY <2>1, <2>2 DEF Goal
  <1>20. CASE \E d \in Tandem : DeletesBeside(d)
    BY <1>0, <1>20, <1>a, BesideSteps, TandemAreEditors, EditorsAreDevices DEF Goal
  <1> QED
    BY <1>9, <1>19, <1>20 DEF CNext, Goal


\* A request carries what its device has frozen in the journal.
LEMMA CallsGrow ==
    ASSUME BaseInv, [CNext]_cvars
    PROVE  \A c \in commitCalls' :
              \/ c \in commitCalls
              \/ \E d \in Devices : journal[d] # NoJournal /\ c.manifest = journal[d].manifest
  <1>1. CASE UNCHANGED store
    BY <1>1 DEF store, calls
  <1>2. ASSUME NEW d \in Devices, SendCommit(d)
        PROVE \A c \in commitCalls' :
                 \/ c \in commitCalls
                 \/ journal[d] # NoJournal /\ c.manifest = journal[d].manifest
    <2>1. journal[d] # NoJournal
      BY <1>2 DEF BaseInv, Journaled, HasJournal, SendCommit, At
    <2>2. commitCalls' = commitCalls \cup
             {[intent |-> journal[d].intent, manifest |-> journal[d].manifest]}
      BY <1>2 DEF SendCommit
    <2> QED
      BY <2>1, <2>2
  <1>3. CASE \E c \in commitCalls : RunCommit(c)
    BY <1>3 DEF RunCommit, RunCommitCall
  <1>4. CASE \/ \E d \in Devices : AckRevisions(d, st[d].pulled)
                                   /\ UNCHANGED <<revoked, blobs, now, calls>>
             \/ RunTombstoneGC(Retention) \/ Tick
    BY <1>4 DEF RunTombstoneGC, Tick, calls
  <1> QED
    BY <1>1, <1>2, <1>3, <1>4, StepKinds

LEMMA VaultPastStep ==
    ASSUME BaseInv, [CNext]_cvars
    PROVE  VaultInPast'
  <1>0. CTypeOK /\ TypeOK /\ Later /\ VaultInPast
    BY VaultGrows DEF BaseInv, CTypeOK, Later, InPast
  <1>1. ASSUME NEW i \in Intents PROVE commits'[i].rev <= HeadRev'
    <2>1. commits[i].rev \in Nat /\ commits[i].rev <= HeadRev
      BY <1>0 DEF TypeOK, Commit, NoCommit, VaultInPast
    <2> QED
      BY <1>0, <2>1, VaultGrows DEF Later
  <1>2. ASSUME NEW c \in commitCalls' PROVE StampsUpTo(c.manifest.tombs, HeadRev')
    <2>1. CASE c \in commitCalls
      <3>1. \A t \in c.manifest.tombs : t.rev \in Nat
        BY <1>0, <2>1 DEF TypeOK, Manifest, Tombstone
      <3> QED
        BY <1>0, <2>1, <3>1, StampsStay DEF VaultInPast
    <2>2. ASSUME NEW d \in Devices, journal[d] # NoJournal, c.manifest = journal[d].manifest
          PROVE StampsUpTo(c.manifest.tombs, HeadRev')
      BY <1>0, <2>2, RecordRevs, StampsStay DEF BaseInv, InPast, DeviceInPast
    <2> QED
      BY <2>1, <2>2, CallsGrow
  <1>3. ASSUME NEW r \in 1..HeadRev' PROVE StampsUpTo(history'[r].tombs, HeadRev')
    <2>1. CASE r <= HeadRev /\ history'[r] = history[r]
      <3>1. r \in 1..HeadRev /\ history[r] \in Revision
        BY <1>0, <2>1 DEF TypeOK, HeadRev, Later
      <3>2. \A t \in history[r].tombs : t.rev \in Nat
        BY <3>1 DEF Revision, Tombstone
      <3> QED
        BY <1>0, <2>1, <3>1, <3>2, StampsStay DEF VaultInPast
    <2>2. CASE history'[r].tombs \subseteq TombsAt(HeadRev)
      <3>1. TombsAt(HeadRev) \in SUBSET Tombstone
        BY <1>0, AtTypes DEF Later
      <3>2. StampsUpTo(TombsAt(HeadRev), HeadRev)
        BY <1>0 DEF VaultInPast, TombsAt, StampsUpTo, Later
      <3>3. \A t \in TombsAt(HeadRev) : t.rev \in Nat
        BY <3>1 DEF Tombstone
      <3>4. StampsUpTo(TombsAt(HeadRev), HeadRev')
        BY <1>0, <3>2, <3>3, StampsStay
      <3> QED
        BY <2>2, <3>4 DEF StampsUpTo
    <2>3. ASSUME NEW c \in commitCalls, r = HeadRev + 1,
                 history'[r].tombs = Stamped(c.manifest.tombs, r)
          PROVE StampsUpTo(history'[r].tombs, HeadRev')
      <3>1. c.manifest.tombs \in SUBSET Tombstone /\ r \in Nat /\ r <= HeadRev'
        BY <1>0 DEF TypeOK, Manifest, Later
      <3>2. StampsUpTo(c.manifest.tombs, HeadRev)
        BY <1>0 DEF VaultInPast
      <3>3. \A t \in c.manifest.tombs :
               /\ [t EXCEPT !.rev = IF t.rev = 0 THEN r ELSE t.rev].rev <= HeadRev'
        BY <1>0, <2>3, <3>1, <3>2 DEF Tombstone, StampsUpTo, Later
      <3> QED
        BY <2>3, <3>3 DEF Stamped, StampsUpTo
    <2>4. \/ r <= HeadRev /\ history'[r] = history[r]
          \/ history'[r].tombs \subseteq TombsAt(HeadRev)
          \/ \E c \in commitCalls :
                r = HeadRev + 1 /\ history'[r].tombs = Stamped(c.manifest.tombs, r)
      BY <1>0, VaultGrows
    <2> QED
      BY <2>1, <2>2, <2>3, <2>4
  <1> QED
    BY <1>1, <1>2, <1>3 DEF VaultInPast

LEMMA VaultCaughtUpStep ==
    ASSUME CommitInv, CTypeOK', [CNext]_cvars
    PROVE  VaultCaughtUp'
  <1>0. /\ CTypeOK /\ TypeOK /\ VaultCaughtUp
        /\ \A e \in Devices : /\ st[e].applied \in Nat /\ st'[e].applied \in Nat
                              /\ st'[e].applied >= st[e].applied
    BY CommitIsBase, DevicesStep, RecordRevs DEF CommitInv, CTypeOK, CaughtUp, VaultState
  <1>1. ASSUME NEW m \in Manifest, m.base <= st[m.device].applied
        PROVE m.base <= st'[m.device].applied
    BY <1>0, <1>1 DEF Manifest
  <1>2. \A c \in commitCalls : c.manifest \in Manifest
    BY <1>0 DEF TypeOK
  <1>3. ASSUME NEW c \in commitCalls'
        PROVE c.manifest.base <= st'[c.manifest.device].applied
    <2>1. CASE c \in commitCalls
      BY <1>0, <1>1, <1>2, <2>1 DEF VaultCaughtUp
    <2>2. ASSUME NEW d \in Devices, journal[d] # NoJournal, c.manifest = journal[d].manifest
          PROVE c.manifest.base <= st'[c.manifest.device].applied
      <3>1. c.manifest \in Manifest /\ c.manifest.base <= st[c.manifest.device].applied
        BY <1>0, <2>2, RecordRevs DEF CommitInv, CaughtUp, DeviceCaughtUp
      <3> QED
        BY <1>1, <3>1
    <2> QED
      BY <2>1, <2>2, CallsGrow, CommitIsBase
  <1>4. ASSUME NEW i \in Intents, commits'[i] # NoCommit
        PROVE commits'[i].hash.base <= st'[commits'[i].hash.device].applied
    <2>1. CASE commits'[i] = commits[i]
      <3>1. commits[i].hash \in Manifest
        BY <1>0, <1>4, <2>1 DEF TypeOK, Commit
      <3>2. commits[i].hash.base <= st[commits[i].hash.device].applied
        BY <1>0, <1>4, <2>1 DEF VaultCaughtUp
      <3> QED
        BY <1>1, <2>1, <3>1, <3>2
    <2>2. CASE commits'[i] # commits[i]
      <3>1. PICK c \in commitCalls : commits'[i].hash = c.manifest
        BY <1>0, <2>2, VaultGrows
      <3> QED
        BY <1>0, <1>1, <1>2, <3>1 DEF VaultCaughtUp
    <2> QED
      BY <2>1, <2>2
  <1> QED
    BY <1>3, <1>4 DEF VaultCaughtUp

LEMMA BaseInit == CInit => BaseInv /\ VaultCaughtUp
  <1> SUFFICES ASSUME CInit PROVE BaseInv /\ VaultCaughtUp
    OBVIOUS
  <1>1. CTypeOK
    BY CTypeInit
  <1>2. HeadRev = 0 /\ history = << >> /\ commitCalls = {}
        /\ \A i \in Intents : commits[i] = NoCommit
    BY DEF CInit, Init, HeadRev
  <1>3. \A d \in Devices : /\ op[d].at = "idle" /\ journal[d] = NoJournal /\ ledger[d] = {}
                           /\ st[d].applied = 0 /\ st[d].pulled = 0
                           /\ beside[d].at = "idle"
    BY DEF CInit, Idle
  <1>4. VaultInPast
    BY <1>2 DEF VaultInPast, NoCommit
  <1>5. VaultCaughtUp
    BY <1>2 DEF VaultCaughtUp
  <1>6. \A d \in Devices : DeviceInv(d)
    BY <1>3 DEF DeviceInv, HasJournal, DeviceInPast, DeviceSteady, DeviceCaughtUp,
                DeviceUndisturbed, DeviceRemembers, Reading, StampsUpTo, Pulling
  <1>7. BesidePending
    BY <1>3 DEF BesidePending
  <1> QED
    BY <1>1, <1>4, <1>5, <1>6, <1>7 DEF BaseInv, Journaled, InPast, Remembered, DeviceInv

LEMMA BaseStep == BaseInv /\ [CNext]_cvars => BaseInv'
  <1> SUFFICES ASSUME BaseInv, [CNext]_cvars PROVE BaseInv'
    OBVIOUS
  <1>1. CTypeOK'
    BY CTypeStep DEF BaseInv
  <1>2. BesidePending' /\ \A d \in Devices : DeviceInv(d)'
    BY <1>1, DevicesStep
  <1>3. VaultInPast'
    BY <1>1, VaultPastStep
  <1> QED
    BY <1>1, <1>2, <1>3 DEF BaseInv, Journaled, InPast, Remembered, DeviceInv

\* With no deletion beside another operation, the vault is caught up with as well.
LEMMA CommitInit ==
    ASSUME Tandem = {}
    PROVE  CInit => CommitInv
  BY BaseInit, CommitIsBase

LEMMA CommitStep == CommitInv /\ [CNext]_cvars => CommitInv'
  <1> SUFFICES ASSUME CommitInv, [CNext]_cvars PROVE CommitInv'
    OBVIOUS
  <1>1. BaseInv' /\ Tandem = {}
    BY BaseStep, CommitIsBase
  <1>2. VaultCaughtUp'
    BY <1>1, VaultCaughtUpStep DEF BaseInv
  <1> QED
    BY <1>1, <1>2 DEF CommitInv, BaseInv, CaughtUp, Undisturbed, DeviceSteady

\* The state of the backend and of every device keeps its shape, through any
\* interleaving of commits, pulls, deletions beside them, crashes, lost exchanges and
\* collections.
THEOREM DevicesTypeCorrect == CSpec => []CTypeOK
  <1>1. CInit => BaseInv
    BY BaseInit
  <1>2. BaseInv /\ [CNext]_cvars => BaseInv'
    BY BaseStep
  <1>3. BaseInv => CTypeOK
    BY DEF BaseInv
  <1> QED
    BY <1>1, <1>2, <1>3, PTL DEF CSpec

-----------------------------------------------------------------------------
(* Acks and deletions                                                       *)

\* Where an ack comes from.
LEMMA AckOrigin ==
    ASSUME CommitInv, [CNext]_cvars, NEW d \in Devices
    PROVE  \/ acks'[d] = acks[d]
           \/ acks'[d] = st[d].pulled
           \/ \E c \in commitCalls :
                 /\ c.manifest.device = d /\ commits'[c.intent] # NoCommit
                 /\ commits'[c.intent].hash = c.manifest
                 /\ commits'[c.intent].rev = acks'[d]
  <1>0. /\ TypeOK /\ HeadRev \in Nat /\ VaultInPast
        /\ \A e \in Devices : st[e].pulled \in Nat
    BY DEF CommitInv, CTypeOK, TypeOK, HeadRev, VaultState, InPast
  <1>1. CASE \/ UNCHANGED store \/ \E e \in Devices : SendCommit(e)
             \/ RunTombstoneGC(Retention) \/ Tick
    BY <1>1 DEF store, vault, SendCommit, RunTombstoneGC, Tick
  <1>2. ASSUME NEW e \in Devices, AckRevisions(e, st[e].pulled)
        PROVE acks'[d] \in {acks[d], st[d].pulled}
    <2>1. CASE st[e].pulled > HeadRev
      BY <1>2, <2>1 DEF AckRevisions, vault
    <2>2. CASE ~ (st[e].pulled > HeadRev)
      BY <1>0, <1>2, <2>2, JoinEffect DEF AckRevisions
    <2> QED
      BY <2>1, <2>2
  <1>3. ASSUME NEW c \in commitCalls, RunCommit(c), acks'[d] # acks[d]
        PROVE /\ c.manifest.device = d /\ commits'[c.intent] # NoCommit
              /\ commits'[c.intent].hash = c.manifest
              /\ commits'[c.intent].rev = acks'[d]
    <2>0. c.intent \in Intents /\ c.manifest \in Manifest /\ c.manifest.device \in Devices
      BY <1>0 DEF TypeOK, Manifest
    <2>1. CASE CreateRevision(c.intent, c.manifest)
      <3>1. /\ Join(c.manifest.device, HeadRev + 1)
            /\ commits' = [commits EXCEPT ![c.intent] = [hash |-> c.manifest, rev |-> HeadRev + 1]]
        BY <2>1 DEF CreateRevision
      <3>2. c.manifest.device = d /\ acks'[d] = HeadRev + 1
        BY <1>0, <1>3, <2>0, <3>1, JoinEffect
      <3>3. commits'[c.intent] = [hash |-> c.manifest, rev |-> HeadRev + 1]
        BY <1>0, <2>0, <3>1 DEF TypeOK
      <3> QED
        BY <1>0, <3>2, <3>3 DEF NoCommit
    <2>2. CASE ReplayCommit(c.intent, c.manifest)
      <3>1. /\ Join(c.manifest.device, commits[c.intent].rev) /\ commits' = commits
            /\ commits[c.intent] # NoCommit /\ commits[c.intent].hash = c.manifest
        BY <2>0, <2>2, StatusMeaning DEF ReplayCommit
      <3>2. commits[c.intent].rev \in Nat
        BY <1>0, <2>0 DEF TypeOK, Commit, NoCommit
      <3> QED
        BY <1>0, <1>3, <2>0, <3>1, <3>2, JoinEffect
    <2>3. CASE RejectCommit(c.intent, c.manifest)
      BY <1>3, <2>3 DEF RejectCommit, vault
    <2> QED
      BY <1>3, <2>1, <2>2, <2>3 DEF RunCommit, RunCommitCall, CreateCommit
  <1> QED
    BY <1>1, <1>2, <1>3, StepKinds

LEMMA AckStep ==
    ASSUME CommitInv, CTypeOK', AckMeansApplied, [CNext]_cvars
    PROVE  AckMeansApplied'
  <1>0. /\ TypeOK /\ acks' \in [Devices -> Nat] /\ VaultCaughtUp
        /\ \A e \in Devices : /\ st[e].applied \in Nat /\ st'[e].applied \in Nat
                              /\ st'[e].applied >= st[e].applied
                              /\ st[e].pulled \in Nat /\ st[e].pulled <= st[e].applied
                              /\ acks[e] \in Nat
    BY DevicesStep, CommitIsBase DEF CommitInv, CTypeOK, TypeOK, CaughtUp, DeviceCaughtUp, VaultState
  <1> SUFFICES ASSUME NEW d \in Devices
               PROVE  \/ acks'[d] <= st'[d].applied
                      \/ \E i \in Intents : commits'[i] # NoCommit
                            /\ commits'[i].hash.device = d /\ commits'[i].rev = acks'[d]
                            /\ commits'[i].hash.base <= st'[d].applied
    BY DEF AckMeansApplied
  <1>1. CASE acks'[d] = acks[d]
    <2>1. CASE acks[d] <= st[d].applied
      BY <1>0, <1>1, <2>1
    <2>2. ASSUME NEW i \in Intents, commits[i] # NoCommit, commits[i].hash.device = d,
                 commits[i].rev = acks[d], commits[i].hash.base <= st[d].applied
          PROVE /\ commits'[i] # NoCommit /\ commits'[i].hash.device = d
                /\ commits'[i].rev = acks'[d] /\ commits'[i].hash.base <= st'[d].applied
      <3>1. commits'[i] = commits[i]
        BY <2>2, VaultGrows DEF CommitInv
      <3>2. commits[i].hash.base \in Nat
        BY <1>0, <2>2 DEF TypeOK, Commit, Manifest
      <3> QED
        BY <1>0, <1>1, <2>2, <3>1, <3>2
    <2> QED
      BY <2>1, <2>2 DEF AckMeansApplied
  <1>2. CASE acks'[d] = st[d].pulled
    BY <1>0, <1>2
  <1>3. ASSUME NEW c \in commitCalls, c.manifest.device = d, commits'[c.intent] # NoCommit,
               commits'[c.intent].hash = c.manifest, commits'[c.intent].rev = acks'[d]
        PROVE c.intent \in Intents /\ c.manifest.base <= st'[d].applied
    <2>1. c.manifest \in Manifest /\ c.intent \in Intents
      BY <1>0 DEF TypeOK
    <2>2. c.manifest.base \in Nat /\ c.manifest.base <= st[d].applied
      BY <1>0, <1>3, <2>1 DEF VaultCaughtUp, Manifest
    <2> QED
      BY <1>0, <2>1, <2>2
  <1> QED
    BY <1>1, <1>2, <1>3, AckOrigin

\* What the backend believes a device to have, the device has applied, or it is
\* the device's own commit on top of that: no crash, lost answer or repeated ack
\* lets a collection forget a deletion the device has not heard of.
THEOREM AcksAreApplied ==
    ASSUME Tandem = {}
    PROVE  CSpec => []AckMeansApplied
  <1>1. CInit => CommitInv /\ AckMeansApplied
    <2>1. CInit => AckMeansApplied
      BY DEF CInit, Init, AckMeansApplied
    <2> QED
      BY <2>1, CommitInit
  <1>2. CommitInv /\ AckMeansApplied /\ [CNext]_cvars => CommitInv' /\ AckMeansApplied'
    <2> SUFFICES ASSUME CommitInv, AckMeansApplied, [CNext]_cvars
                 PROVE  CommitInv' /\ AckMeansApplied'
      OBVIOUS
    <2>1. CommitInv'
      BY CommitStep
    <2>2. CTypeOK'
      BY <2>1 DEF CommitInv
    <2> QED
      BY <2>1, <2>2, AckStep
  <1> QED
    BY <1>1, <1>2, PTL DEF CSpec

\* Who writes the ledger, and what is in it then.
Remembers(d) ==
    \A t \in Pending(ledger[d]) :
        \/ \E u \in ledger'[d] : u.file = t.file /\ u.seq = t.seq
        \/ MadeSinceRead(d, t)
        \/ ReclaimedWithEarlier(d, t)

LEMMA WrittenBack ==
    ASSUME BaseInv, NEW d \in Devices, Rewrites(d),
           \/ Kept(op[d].read, ledger'[d])
           \/ At(d, "rebuilt") /\ KeptOrReclaimed(op[d].read, ledger'[d])
    PROVE  Remembers(d)
  <1>1. /\ op[d].read \subseteq ledger[d]
        /\ d \notin Tandem => op[d].read = ledger[d]
    BY DEF BaseInv, Remembered, DeviceRemembers, DeviceSteady, DeviceUndisturbed, Rewrites,
           Reading
  <1> SUFFICES ASSUME NEW t \in Pending(ledger[d])
               PROVE  \/ \E u \in ledger'[d] : u.file = t.file /\ u.seq = t.seq
                      \/ MadeSinceRead(d, t)
                      \/ ReclaimedWithEarlier(d, t)
    BY DEF Remembers
  <1>2. CASE t \notin op[d].read
    BY <1>1, <1>2 DEF MadeSinceRead, Pending
  <1>3. CASE t \in op[d].read
    <2>1. t \in Pending(op[d].read)
      BY <1>3 DEF Pending
    <2> QED
      BY <1>1, <2>1 DEF Kept, KeptOrReclaimed, ReclaimedWithEarlier
  <1> QED
    BY <1>2, <1>3

LEMMA LedgerStep ==
    ASSUME BaseInv, [CNext]_cvars
    PROVE  \A d \in Devices : Remembers(d)
  <1> DEFINE Goal == \A d \in Devices : Remembers(d)
  <1> SUFFICES Goal
    OBVIOUS
  <1>0. ledger \in [Devices -> SUBSET LocalTombstone] /\ HeadRev \in Nat
    BY DEF BaseInv, CTypeOK, TypeOK, HeadRev
  <1>a. ASSUME UNCHANGED ledger PROVE Goal
    BY <1>a DEF Remembers, Pending
  <1>b. ASSUME NEW d \in Devices, NEW tombs, ledger' = [ledger EXCEPT ![d] = tombs],
               ledger'[d] = tombs => Remembers(d)
        PROVE Goal
    BY <1>0, <1>b DEF Remembers, Pending
  <1>c. ASSUME NEW d \in Devices, NEW tomb, ledger' = [ledger EXCEPT ![d] = ledger[d] \cup {tomb}]
        PROVE Goal
    BY <1>0, <1>b, <1>c DEF Remembers, Pending
  <1>1. ASSUME NEW d \in Devices, AppendTombstone(d) PROVE Goal
    BY <1>1, <1>c DEF AppendTombstone
  <1>2. ASSUME NEW d \in Devices, FinalizeLedger(d) PROVE Goal
    <2>1. /\ op[d].rev \in Nat /\ op[d].rev <= HeadRev /\ op[d].read \in SUBSET LocalTombstone
          /\ StampsUpTo(op[d].read, HeadRev) /\ Rewrites(d)
      BY <1>2, RecordRevs DEF BaseInv, FinalizeLedger, At, InPast, DeviceInPast, Rewrites,
                              Remembered, DeviceRemembers, Reading, StampsUpTo
    <2>2. Kept(op[d].read, StampCommitted(op[d].read, journal[d], op[d].rev))
      BY <1>0, <2>1, StampedRecords
    <2>3. ledger' = [ledger EXCEPT ![d] = StampCommitted(op[d].read, journal[d], op[d].rev)]
      BY <1>2 DEF FinalizeLedger
    <2> QED
      BY <1>b, <2>1, <2>2, <2>3, WrittenBack
  <1>3. ASSUME NEW d \in Devices, RecoverLedger(d) \/ PullLedger(d) PROVE Goal
    <2>1. ledger' = [ledger EXCEPT ![d] = op[d].tombs] /\ op[d].at \in {"stamping", "rebuilt"}
      BY <1>3 DEF RecoverLedger, PullLedger, At
    <2>2. \/ Kept(op[d].read, op[d].tombs)
          \/ At(d, "rebuilt") /\ KeptOrReclaimed(op[d].read, op[d].tombs)
      BY <2>1 DEF BaseInv, Remembered, DeviceRemembers, At
    <2>3. Rewrites(d)
      BY <2>1 DEF Rewrites
    <2> QED
      BY <1>b, <2>1, <2>2, <2>3, WrittenBack
  <1>4. ASSUME NEW d \in Devices,
               \/ CountDelete(d) \/ LockCommit(d) \/ FreezeCommit(d) \/ SendCommit(d)
               \/ GiveUp(d) \/ FinalizeState(d) \/ FinalizeFilemap(d)
               \/ CleanupFailed(d) \/ MarkStale(d)
               \/ RecoverLocal(d) \/ RecoverMatch(d) \/ RecoverMiss(d)
               \/ Fetch(d) \/ PullFilemap(d) \/ PullState(d)
               \/ AckLost(d) \/ AcknowledgeAgain(d) \/ ApplyWorkspace(d) \/ Crash(d)
        PROVE UNCHANGED ledger
    BY <1>4 DEF CountDelete, LockCommit, FreezeCommit, SendCommit, GiveUp, FinalizeState,
                FinalizeFilemap, CleanupFailed, MarkStale, RecoverLocal, RecoverMatch,
                RecoverMiss, Fetch, PullFilemap, PullState, AckLost, AcknowledgeAgain,
                ApplyWorkspace, Crash, client
  <1> HIDE DEF Goal
  <1>5. ASSUME NEW d \in Devices, DeviceStep(d) PROVE Goal
    BY <1>5, <1>1, <1>2, <1>3, <1>4, <1>a DEF DeviceStep
  <1>6. CASE \/ \E d \in Devices, p \in Paths, content \in Blobs \cup {Absent} :
                   UserWrite(d, p, content)
             \/ \E d \in Devices, f \in Files : DeleteNote(d, f)
             \/ \E d \in Devices : ResolveConflicts(d)
             \/ \E d \in Devices, i \in Intents : PrepareCommit(d, i)
    BY <1>6, <1>a DEF UserWrite, DeleteNote, ResolveConflicts, PrepareCommit
  <1>7. CASE \/ \E d \in Devices, choice \in BOOLEAN :
                   Acknowledge(d, choice) \/ AbandonApply(d, choice)
             \/ \E c \in commitCalls : RunCommit(c)
    BY <1>7, <1>a DEF Acknowledge, AbandonApply, RunCommit
  <1>8. ASSUME UNCHANGED client PROVE Goal
    BY <1>8, <1>a DEF client
  <1>9. CASE UNCHANGED cvars
    BY <1>9, <1>8 DEF cvars, turns
  <1>10. ASSUME NEW d \in Devices, DeletesBeside(d) PROVE Goal
    <2>1. CASE RecordBeside(d)
      BY <1>c, <2>1 DEF RecordBeside
    <2>2. CASE ~ RecordBeside(d)
      BY <1>10, <1>a, <2>2 DEF DeletesBeside, BeginBeside, RemoveBeside, CountBeside, QuitBeside,
                               turns, client
    <2> QED
      BY <2>1, <2>2
  <1>11. CASE \E d \in Tandem : DeletesBeside(d)
    BY <1>10, <1>11, TandemAreEditors, EditorsAreDevices
  <1> QED
    BY <1>5, <1>6, <1>7, <1>8, <1>9, <1>11 DEF CNext, Turn

\* A deletion the user made leaves the ledger only stamped, whatever crashes or is
\* recovered: but for one recorded beside an operation that rewrites the ledger from
\* what it read before, and one that a pull reclaims with an earlier one of the file.
THEOREM DeletionsAreRemembered == CSpec => PendingDeletionsSurvive
  <1>1. CInit => BaseInv
    BY BaseInit
  <1>2. BaseInv /\ [CNext]_cvars => BaseInv'
    BY BaseStep
  <1>3. BaseInv /\ [CNext]_cvars =>
           [\A d \in Devices : \A t \in Pending(ledger[d]) :
               \/ \E u \in ledger'[d] : u.file = t.file /\ u.seq = t.seq
               \/ MadeSinceRead(d, t)
               \/ ReclaimedWithEarlier(d, t)]_cvars
    BY LedgerStep DEF Remembers
  <1> QED
    BY <1>1, <1>2, <1>3, PTL DEF CSpec, PendingDeletionsSurvive

-----------------------------------------------------------------------------
(* The invariant                                                           *)

\* With no deletion beside it, an operation writes what it would have read just then.
LEMMA InTurn ==
    ASSUME CommitInv, NEW d \in Devices
    PROVE  /\ FinalizeLedger(d) =>
                 ledger' = [ledger EXCEPT ![d] = StampCommitted(ledger[d], journal[d], op[d].rev)]
           /\ FinalizeFilemap(d) =>
                 fmap' = [fmap EXCEPT ![d] = Rebuild(op[d].files, ledger[d])]
           /\ LockCommit(d) =>
                 st' = [st EXCEPT ![d] = [st[d] EXCEPT !.busy = TRUE, !.seq = op[d].row.seq]]
  BY DEF CommitInv, Undisturbed, DeviceUndisturbed, Reading, FinalizeLedger, FinalizeFilemap,
         LockCommit, Set, At

LEMMA NoneBeside ==
    ASSUME CommitInv, [CNext]_cvars
    PROVE  Turn \/ UNCHANGED turns
  BY DEF CommitInv, CNext, cvars

\* A revision that a record or a marker names holds a marker of that file.
Held(f, rev) == \E u \in TombsAt(rev) : u.file = f /\ u.rev = rev
Genuine(tombs) == \A t \in tombs : t.rev > 0 => Held(t.file, t.rev)

\* Every stamp is genuine, in what a device keeps and in what it is about to write.
DeviceGenuine(d) ==
    /\ Genuine(ledger[d])
    /\ journal[d] # NoJournal => Genuine(journal[d].manifest.tombs)
    /\ op[d].at \in {"fetched", "rebuilt", "stamping"} => Genuine(op[d].tombs)

\* A deletion the commit of a journal takes along, and the ones it can be taken for.
Taken(j, f) == \E u \in j.manifest.tombs : u.file = f /\ u.rev = 0

PlanKept(d) ==
    /\ \A t \in journal[d].known : Taken(journal[d], t.file)
    /\ \A t \in Pending(ledger[d]) :
          t.seq <= journal[d].upper => Taken(journal[d], t.file)

\* From the freeze to the end of a commit its journal is submitted; until then the
\* device pulls nothing, and what the user deletes is numbered past the bound.
DeviceOrdered(d) ==
    /\ op[d].at = "locking" => PlanKept(d) /\ op[d].row.seq = journal[d].upper
    /\ op[d].at = "freezing" =>
          PlanKept(d) /\ st[d].busy /\ st[d].seq >= journal[d].upper
    /\ op[d].at \in {"sending", "waiting", "committed", "stamped"}
          => journal[d].status = "submitted"
    /\ journal[d].status = "submitted" =>
          /\ PlanKept(d) /\ st[d].busy /\ st[d].seq >= journal[d].upper
          /\ op[d].at \in {"idle", "deleting", "counting", "sending", "waiting",
                           "failed", "committed", "stamped"}
          /\ op[d].at = "deleting" => op[d].tomb.seq > journal[d].upper
          /\ op[d].at = "counting" => op[d].seq >= journal[d].upper

\* A device that has heard of its commit heard of the one in its journal.
Settled(d) ==
    op[d].at = "committed" =>
        LET found == commits[journal[d].intent]
        IN  found # NoCommit /\ found.hash = journal[d].manifest /\ found.rev = op[d].rev

DeviceStamps(d) == DeviceGenuine(d) /\ DeviceOrdered(d) /\ Settled(d)

\* A commit's revision holds its markers, stamped with that revision.
Recorded(i) ==
    commits[i] # NoCommit =>
        /\ commits[i].rev \in 1..HeadRev
        /\ TombsAt(commits[i].rev) = Stamped(commits[i].hash.tombs, commits[i].rev)

VaultStamps ==
    /\ \A r \in 1..HeadRev : Genuine(history[r].tombs)
    /\ \A c \in commitCalls : Genuine(c.manifest.tombs)
    /\ \A i \in Intents : Recorded(i)

\* An intent is one device's, and stands for one manifest.
IntentsAreOwn ==
    /\ \A d \in Devices : journal[d] # NoJournal => journal[d].intent \in minted
    /\ \A c \in commitCalls : c.intent \in minted
    /\ \A d, e \in Devices : journal[d] # NoJournal /\ journal[e] # NoJournal
                                /\ journal[d].intent = journal[e].intent => d = e
    /\ \A d \in Devices : \A c \in commitCalls :
          journal[d] # NoJournal /\ c.intent = journal[d].intent
              => c.manifest = journal[d].manifest

StampInv == VaultStamps /\ IntentsAreOwn /\ \A d \in Devices : DeviceStamps(d)

-----------------------------------------------------------------------------
(* Stamps that stay genuine                                                *)

\* No step takes a marker out of a revision.
LEMMA HeldStays ==
    ASSUME CTypeOK, [CNext]_cvars, NEW f, NEW rev \in Nat, rev > 0, rev <= HeadRev,
           Held(f, rev)
    PROVE  Held(f, rev)'
  <1>1. HeadRev \in Nat /\ HeadRev' \in Nat /\ HeadRev' >= HeadRev
    BY VaultGrows
  <1>2. rev \in 1..HeadRev'
    BY <1>1
  <1>3. history'[rev] = history[rev]
    BY <1>1, <1>2, VaultGrows
  <1> QED
    BY <1>3 DEF Held, TombsAt

LEMMA GenuineStays ==
    ASSUME CTypeOK, [CNext]_cvars, NEW tombs, \A t \in tombs : t.rev \in Nat,
           StampsUpTo(tombs, HeadRev), Genuine(tombs)
    PROVE  \A t \in tombs : t.rev > 0 => Held(t.file, t.rev)'
  BY HeldStays DEF Genuine, StampsUpTo

\* What a device keeps stays genuine as long as it keeps it.
LEMMA DeviceStays ==
    ASSUME CommitInv, [CNext]_cvars, NEW d \in Devices, DeviceGenuine(d)
    PROVE  /\ \A t \in ledger[d] : t.rev > 0 => Held(t.file, t.rev)'
           /\ journal[d] # NoJournal =>
                 \A t \in journal[d].manifest.tombs : t.rev > 0 => Held(t.file, t.rev)'
           /\ op[d].at \in {"fetched", "rebuilt", "stamping"} =>
                 \A t \in op[d].tombs : t.rev > 0 => Held(t.file, t.rev)'
  <1>1. CTypeOK /\ DeviceInPast(d)
    BY DEF CommitInv, InPast
  <1> QED
    BY <1>1, RecordRevs, GenuineStays DEF DeviceGenuine, DeviceInPast

-----------------------------------------------------------------------------
(* Stamps the ledger operations write                                      *)

LEMMA MergedStamps ==
    ASSUME NEW tombs \in SUBSET LocalTombstone, NEW remote \in SUBSET Tombstone,
           NEW n \in Nat, StampsUpTo(remote, n), Genuine(tombs), Genuine(remote)
    PROVE  Genuine(Merged(tombs, remote))
  <1> DEFINE inLedger   == {t.file : t \in tombs}
             inManifest == {t.file : t \in remote}
             paired     == {First(tombs, f) : f \in inLedger \cap inManifest}
             Met(t) == [t EXCEPT !.rev = IF @ = 0 THEN Remote(remote, t.file).rev ELSE @,
                                 !.at = IF Remote(remote, t.file).at > @
                                        THEN Remote(remote, t.file).at ELSE @]
             New(f) == [file |-> f, rev |-> Remote(remote, f).rev,
                        at |-> Remote(remote, f).at, seq |-> 0]
  <1>1. Merged(tombs, remote) = (tombs \ paired) \cup {Met(t) : t \in paired}
                                \cup {New(f) : f \in inManifest \ inLedger}
    BY Zenon DEF Merged
  <1>2. \A f \in inManifest : Remote(remote, f) \in remote /\ Remote(remote, f).file = f
    BY RemoteRecord
  <1>3. \A t \in paired : t \in tombs /\ t.file \in inManifest
    BY FirstRecord
  <1>4. \A t \in paired : /\ Met(t).file = t.file
                          /\ Met(t).rev = t.rev \/ Met(t).rev = Remote(remote, t.file).rev
    <2> TAKE t \in paired
    <2>1. t \in LocalTombstone
      BY <1>3
    <2> HIDE DEF paired
    <2> QED
      BY <2>1 DEF LocalTombstone
  <1>5. \A f \in inManifest : New(f).file = f /\ New(f).rev = Remote(remote, f).rev
    OBVIOUS
  <1> HIDE DEF inManifest, inLedger, paired, Met, New
  <1>6. \A f \in inManifest : Remote(remote, f).rev > 0 => Held(f, Remote(remote, f).rev)
    BY <1>2 DEF Genuine
  <1>7. ASSUME NEW u \in Merged(tombs, remote), u.rev > 0 PROVE Held(u.file, u.rev)
    <2>1. CASE u \in tombs
      BY <1>7, <2>1 DEF Genuine
    <2>2. ASSUME NEW t \in paired, u = Met(t) PROVE Held(u.file, u.rev)
      BY <1>3, <1>4, <1>6, <1>7, <2>2 DEF Genuine
    <2>3. ASSUME NEW f \in inManifest, u = New(f) PROVE Held(u.file, u.rev)
      BY <1>5, <1>6, <1>7, <2>3
    <2> QED
      BY <1>1, <1>7, <2>1, <2>2, <2>3
  <1> QED
    BY <1>7 DEF Genuine

\* A commit stamps what it took along, with the revision that holds the marker.
LEMMA TakenIsHeld ==
    ASSUME NEW j, NEW f, NEW rev, Taken(j, f), j.manifest.tombs \in SUBSET Tombstone,
           TombsAt(rev) = Stamped(j.manifest.tombs, rev)
    PROVE  Held(f, rev)
  <1>1. PICK u \in j.manifest.tombs : u.file = f /\ u.rev = 0
    BY DEF Taken
  <1>2. [u EXCEPT !.rev = rev].file = f /\ [u EXCEPT !.rev = rev].rev = rev
    BY <1>1 DEF Tombstone
  <1>3. [u EXCEPT !.rev = rev] \in TombsAt(rev)
    BY <1>1 DEF Stamped
  <1> QED
    BY <1>2, <1>3 DEF Held

LEMMA SelectedIsTaken ==
    ASSUME NEW d \in Devices, PlanKept(d), NEW f \in Selected(ledger[d], journal[d])
    PROVE  Taken(journal[d], f)
  BY DEF PlanKept, Selected

LEMMA StampedStamps ==
    ASSUME NEW tombs \in SUBSET LocalTombstone, NEW j, NEW rev \in Nat,
           Genuine(tombs), rev > 0 => \A f \in Selected(tombs, j) : Held(f, rev)
    PROVE  /\ Genuine(StampCommitted(tombs, j, rev))
           /\ rev > 0 => \A u \in Pending(StampCommitted(tombs, j, rev)) :
                 \E t \in Pending(tombs) : t.file = u.file /\ t.seq = u.seq
  <1> DEFINE Stamp(t) == [t EXCEPT !.rev = IF t.file \in Selected(tombs, j) THEN rev ELSE @]
  <1>1. StampCommitted(tombs, j, rev) = {Stamp(t) : t \in tombs}
    BY DEF StampCommitted
  <1>2. \A t \in tombs : /\ Stamp(t).file = t.file /\ Stamp(t).seq = t.seq
                         /\ Stamp(t).rev = IF t.file \in Selected(tombs, j)
                                           THEN rev ELSE t.rev
    BY DEF LocalTombstone
  <1> HIDE DEF Stamp
  <1> QED
    BY <1>1, <1>2 DEF Genuine, Pending

\* What a plan takes from the ledger.
LEMMA PlanStamps ==
    ASSUME CTypeOK, NEW d \in Devices
    PROVE  /\ \A u \in PlanManifest(d).tombs :
                 u.rev = 0 \/ \E t \in ledger[d] : u.file = t.file /\ u.rev = t.rev
           /\ \A t \in ledger[d] : \E u \in PlanManifest(d).tombs :
                 u.file = t.file /\ u.rev = t.rev
  <1>1. PlanManifest(d).tombs = Shared(PlanTombstones(d))
    BY DEF PlanManifest
  <1>2. /\ \A u \in PlanTombstones(d) :
              u.rev = 0 \/ \E t \in ledger[d] : u.file = t.file /\ u.rev = t.rev
        /\ ledger[d] \subseteq PlanTombstones(d)
    BY DEF PlanTombstones
  <1> DEFINE Sent(t) == [file |-> t.file, rev |-> t.rev, at |-> t.at]
  <1>3. PlanManifest(d).tombs = {Sent(t) : t \in PlanTombstones(d)}
    BY <1>1 DEF Shared
  <1>4. \A t : Sent(t).file = t.file /\ Sent(t).rev = t.rev
    OBVIOUS
  <1> HIDE DEF Sent
  <1>5. \A t \in PlanTombstones(d) : Sent(t) \in PlanManifest(d).tombs
    BY <1>3
  <1> QED
    BY <1>2, <1>3, <1>4, <1>5

-----------------------------------------------------------------------------
(* The backend's part                                                      *)

\* What becomes of an intent when it is first recorded.
LEMMA EntryShape ==
    ASSUME CTypeOK, [CNext]_cvars, NEW i \in Intents, commits'[i] # commits[i]
    PROVE  /\ commits'[i] # NoCommit /\ commits'[i].rev = HeadRev + 1
           /\ HeadRev' = HeadRev + 1
           /\ history'[HeadRev + 1].tombs = Stamped(commits'[i].hash.tombs, HeadRev + 1)
  <1>0. TypeOK /\ HeadRev \in Nat
    BY DEF CTypeOK, TypeOK, HeadRev
  <1>1. CreateStep
    BY VaultShape DEF QuietStep, CollectStep
  <1>2. PICK c \in commitCalls : CreateRevision(c.intent, c.manifest)
    BY <1>1 DEF CreateStep
  <1>3. PICK x \in Revision :
           /\ history' = Append(history, x)
           /\ x = [by |-> c.intent, base |-> c.manifest.base,
                   files |-> c.manifest.files,
                   tombs |-> Stamped(c.manifest.tombs, HeadRev + 1)]
    BY <1>0, <1>2, CreateAppends
  <1>4. HeadRev' = HeadRev + 1 /\ history'[HeadRev + 1] = x
    BY <1>0, <1>3, AppendEffect
  <1>5. x.tombs = Stamped(c.manifest.tombs, HeadRev + 1)
    BY <1>3
  <1>6. commits'[i] = [hash |-> c.manifest, rev |-> HeadRev + 1]
    BY <1>0, <1>2 DEF CreateRevision, TypeOK
  <1> QED
    BY <1>0, <1>4, <1>5, <1>6 DEF NoCommit

\* A call carries the intent and the manifest of a journal.
LEMMA CallOrigin ==
    ASSUME CommitInv, [CNext]_cvars, NEW c \in commitCalls'
    PROVE  \/ c \in commitCalls
           \/ \E d \in Devices : /\ journal[d] # NoJournal /\ UNCHANGED <<journal, minted>>
                                 /\ c.intent = journal[d].intent
                                 /\ c.manifest = journal[d].manifest
  <1>1. CASE UNCHANGED store
    BY <1>1 DEF store, calls
  <1>2. ASSUME NEW d \in Devices, SendCommit(d)
        PROVE \/ c \in commitCalls
              \/ /\ journal[d] # NoJournal /\ UNCHANGED <<journal, minted>>
                 /\ c.intent = journal[d].intent /\ c.manifest = journal[d].manifest
    <2>1. journal[d] # NoJournal
      BY <1>2 DEF CommitInv, Journaled, HasJournal, SendCommit, At
    <2>2. commitCalls' = commitCalls \cup
             {[intent |-> journal[d].intent, manifest |-> journal[d].manifest]}
      BY <1>2 DEF SendCommit
    <2>3. UNCHANGED <<journal, minted>>
      BY <1>2 DEF SendCommit, rows
    <2> QED
      BY <2>1, <2>2, <2>3
  <1>3. CASE \E e \in commitCalls : RunCommit(e)
    BY <1>3 DEF RunCommit, RunCommitCall
  <1>4. CASE \/ \E d \in Devices : AckRevisions(d, st[d].pulled)
                                   /\ UNCHANGED <<revoked, blobs, now, calls>>
             \/ RunTombstoneGC(Retention) \/ Tick
    BY <1>4 DEF RunTombstoneGC, Tick, calls
  <1> QED
    BY <1>1, <1>2, <1>3, <1>4, StepKinds

LEMMA VaultStampsStep ==
    ASSUME CommitInv, [CNext]_cvars, VaultStamps, \A d \in Devices : DeviceGenuine(d)
    PROVE  VaultStamps'
  <1>0. /\ CTypeOK /\ TypeOK /\ VaultInPast
        /\ HeadRev \in Nat /\ HeadRev' \in Nat /\ HeadRev' >= HeadRev
    BY VaultGrows DEF CommitInv, CTypeOK, InPast
  <1>a. \A c \in commitCalls : c.manifest \in Manifest /\ c.manifest.tombs \in SUBSET Tombstone
    BY <1>0 DEF TypeOK, Manifest
  <1>b. \A t \in Tombstone : t.rev \in Nat
    BY DEF Tombstone
  <1>1. ASSUME NEW c \in commitCalls
        PROVE \A t \in c.manifest.tombs : t.rev > 0 => Held(t.file, t.rev)'
    <2>1. \A t \in c.manifest.tombs : t.rev \in Nat
      BY <1>a, <1>b
    <2>2. StampsUpTo(c.manifest.tombs, HeadRev) /\ Genuine(c.manifest.tombs)
      BY <1>0 DEF VaultInPast, VaultStamps
    <2> QED
      BY <1>0, <2>1, <2>2, GenuineStays
  <1>2. ASSUME NEW c \in commitCalls' PROVE Genuine(c.manifest.tombs)'
    <2>1. CASE c \in commitCalls
      BY <1>1, <2>1 DEF Genuine
    <2>2. ASSUME NEW d \in Devices, journal[d] # NoJournal, c.manifest = journal[d].manifest
          PROVE \A t \in c.manifest.tombs : t.rev > 0 => Held(t.file, t.rev)'
      BY <2>2, DeviceStays
    <2>3. \A t \in c.manifest.tombs : t.rev > 0 => Held(t.file, t.rev)'
      BY <1>1, <2>2, CallsGrow, CommitIsBase
    <2> QED
      BY <2>3 DEF Genuine
  <1>3. ASSUME NEW r \in 1..HeadRev' PROVE Genuine(history[r].tombs)'
    <2>1. CASE r <= HeadRev /\ history'[r] = history[r]
      <3>1. r \in 1..HeadRev /\ history[r] \in Revision
        BY <1>0, <2>1 DEF TypeOK, HeadRev
      <3>2. \A t \in history[r].tombs : t.rev \in Nat
        BY <1>b, <3>1 DEF Revision
      <3>3. StampsUpTo(history[r].tombs, HeadRev) /\ Genuine(history[r].tombs)
        BY <1>0, <3>1 DEF VaultInPast, VaultStamps
      <3>4. \A t \in history[r].tombs : t.rev > 0 => Held(t.file, t.rev)'
        BY <1>0, <3>2, <3>3, GenuineStays
      <3> QED
        BY <2>1, <3>4 DEF Genuine
    <2>2. CASE history'[r].tombs \subseteq TombsAt(HeadRev)
      <3>1. \A t \in TombsAt(HeadRev) : t.rev \in Nat
        BY <1>0, <1>b, AtTypes
      <3>2. StampsUpTo(TombsAt(HeadRev), HeadRev) /\ Genuine(TombsAt(HeadRev))
        BY <1>0 DEF VaultInPast, VaultStamps, TombsAt, StampsUpTo, Genuine
      <3>3. \A t \in TombsAt(HeadRev) : t.rev > 0 => Held(t.file, t.rev)'
        BY <1>0, <3>1, <3>2, GenuineStays
      <3> QED
        BY <2>2, <3>3 DEF Genuine
    <2>3. ASSUME NEW c \in commitCalls, r = HeadRev + 1,
                 history'[r].tombs = Stamped(c.manifest.tombs, r)
          PROVE Genuine(history[r].tombs)'
      <3>1. r \in Nat \ {0}
        BY <1>0
      <3>2. ASSUME NEW t \in history'[r].tombs, t.rev > 0 PROVE Held(t.file, t.rev)'
        <4>1. t \in c.manifest.tombs \/ t.rev = r
          <5>1. c.manifest.tombs \in SUBSET Tombstone
            BY <1>a, <2>3
          <5>2. \A u \in Stamped(c.manifest.tombs, r) : u \in c.manifest.tombs \/ u.rev = r
            BY <3>1, <5>1, StampedTombs, Zenon
          <5> QED
            BY <2>3, <3>2, <5>2
        <4>2. CASE t \in c.manifest.tombs
          BY <1>1, <3>2, <4>2
        <4>3. CASE t.rev = r
          BY <3>1, <4>3 DEF Held, TombsAt
        <4> QED
          BY <4>1, <4>2, <4>3
      <3> QED
        BY <3>2 DEF Genuine
    <2> QED
      BY <1>0, <2>1, <2>2, <2>3, VaultGrows
  <1>4. ASSUME NEW i \in Intents, commits'[i] # NoCommit PROVE Recorded(i)'
    <2>1. CASE commits'[i] = commits[i]
      <3>1. PICK rev \in 1..HeadRev : /\ commits[i].rev = rev
                                      /\ TombsAt(rev) = Stamped(commits[i].hash.tombs, rev)
        BY <1>4, <2>1 DEF VaultStamps, Recorded
      <3>2. rev \in 1..HeadRev' /\ rev # 0 /\ rev <= HeadRev
        BY <1>0
      <3>3. history'[rev] = history[rev]
        BY <1>0, <3>2, VaultGrows
      <3>4. TombsAt(rev)' = TombsAt(rev)
        BY <3>3 DEF TombsAt
      <3> QED
        BY <2>1, <3>1, <3>2, <3>4 DEF Recorded, TombsAt
    <2>2. CASE commits'[i] # commits[i]
      <3>1. /\ commits'[i].rev = HeadRev + 1 /\ HeadRev' = HeadRev + 1
            /\ history'[HeadRev + 1].tombs = Stamped(commits'[i].hash.tombs, HeadRev + 1)
        BY <1>0, <2>2, EntryShape
      <3> QED
        BY <1>0, <3>1 DEF Recorded, TombsAt
    <2> QED
      BY <2>1, <2>2
  <1>5. \A i \in Intents : Recorded(i)'
    BY <1>4 DEF Recorded
  <1> QED
    BY <1>2, <1>3, <1>5 DEF VaultStamps

-----------------------------------------------------------------------------
(* What a step does to the device that takes it                            *)

\* A journal is forgotten, goes on, or is a new one under an intent of its own.
JournalStep(d) ==
    \/ journal'[d] \in {journal[d], NoJournal}
    \/ /\ journal[d] # NoJournal
       /\ journal'[d].intent = journal[d].intent
       /\ journal'[d].manifest = journal[d].manifest
    \/ /\ commitCalls' = commitCalls
       /\ journal'[d].intent \notin minted /\ journal'[d].intent \in minted'

\* The other devices are as they were.
Alone(d) ==
    /\ \A e \in Devices \ {d} : /\ st'[e] = st[e] /\ journal'[e] = journal[e]
                                /\ ledger'[e] = ledger[e] /\ op'[e] = op[e]
    /\ minted \subseteq minted' /\ JournalStep(d)

\* A device that does nothing loses nothing by what the others do.
LEMMA UnmovedStamps ==
    ASSUME CommitInv, [CNext]_cvars, NEW e \in Devices, DeviceStamps(e),
           st'[e] = st[e], journal'[e] = journal[e], ledger'[e] = ledger[e], op'[e] = op[e]
    PROVE  DeviceStamps(e)'
  <1>1. DeviceGenuine(e)'
    BY DeviceStays DEF DeviceStamps, DeviceGenuine, Genuine
  <1>2. DeviceOrdered(e)'
    BY DEF DeviceStamps, DeviceOrdered, PlanKept
  <1>3. Settled(e)'
    <2>1. op[e].at = "committed" => journal[e].intent \in Intents
      BY JournalFields DEF CommitInv, CTypeOK, Journaled, HasJournal
    <2> QED
      BY <2>1, VaultGrows DEF DeviceStamps, Settled, CommitInv
  <1> QED
    BY <1>1, <1>2, <1>3 DEF DeviceStamps

\* A device that goes to a point where it neither holds records nor commits.
LEMMA StampsAtRest ==
    ASSUME CommitInv, [CNext]_cvars, NEW d \in Devices, DeviceStamps(d),
           journal'[d] \in {journal[d], NoJournal}, ledger'[d] = ledger[d],
           op'[d].at \in {"idle", "failed", "marking", "rewriting",
                          "converged", "acking", "applying"},
           journal'[d].status = "submitted" =>
               /\ op'[d].at \in {"idle", "failed"}
               /\ st'[d].busy /\ st'[d].seq >= journal[d].upper
    PROVE  DeviceStamps(d)'
  <1>1. DeviceGenuine(d)'
    BY DeviceStays DEF DeviceStamps, DeviceGenuine, Genuine
  <1>2. ASSUME journal'[d].status = "submitted" PROVE journal'[d] = journal[d] /\ PlanKept(d)'
    <2>1. journal'[d] = journal[d]
      BY <1>2 DEF NoJournal
    <2>2. PlanKept(d)
      BY <1>2, <2>1 DEF DeviceStamps, DeviceOrdered
    <2> QED
      BY <2>1, <2>2 DEF PlanKept
  <1>3. DeviceOrdered(d)'
    BY <1>2 DEF DeviceOrdered
  <1>4. Settled(d)'
    BY DEF Settled
  <1> QED
    BY <1>1, <1>3, <1>4 DEF DeviceStamps

LEMMA RestStamps ==
    ASSUME CommitInv, [CNext]_cvars, NEW d \in Devices, DeviceStamps(d),
           \/ CountDelete(d) \/ GiveUp(d) \/ FinalizeState(d) \/ FinalizeFilemap(d)
           \/ CleanupFailed(d) \/ MarkStale(d) \/ RecoverLocal(d) \/ RecoverMiss(d)
           \/ PullState(d) \/ \E heard \in BOOLEAN : Acknowledge(d, heard)
           \/ AckLost(d) \/ ApplyWorkspace(d) \/ Crash(d) \/ ResolveConflicts(d)
           \/ \E stale \in BOOLEAN : AbandonApply(d, stale)
    PROVE  DeviceStamps(d)' /\ Alone(d)
  <1> DEFINE Rest ==
         /\ journal'[d] \in {journal[d], NoJournal} /\ ledger'[d] = ledger[d]
         /\ op'[d].at \in {"idle", "failed", "marking", "rewriting",
                           "converged", "acking", "applying"}
         /\ journal'[d].status = "submitted" =>
               /\ op'[d].at \in {"idle", "failed"}
               /\ st'[d].busy /\ st'[d].seq >= journal[d].upper
         /\ Alone(d)
  <1>0. LocalTypes /\ op[d] \in Step /\ DeviceOrdered(d)
    BY DEF CommitInv, CTypeOK, LocalTypes, DeviceStamps
  <1> USE <1>0 DEF Set, Goto, Idle, Unlock, rows, At, Alone, JournalStep, LocalTypes,
                   VaultState, NoJournal
  <1>1. ASSUME CountDelete(d) PROVE Rest
    BY <1>1 DEF CountDelete, DeviceOrdered
  <1>2. ASSUME MarkStale(d) PROVE Rest
    BY <1>2 DEF MarkStale, DeviceOrdered
  <1>3. ASSUME GiveUp(d) \/ FinalizeFilemap(d) \/ AckLost(d) \/ Crash(d) PROVE Rest
    BY <1>3 DEF GiveUp, FinalizeFilemap, AckLost, Crash, DeviceOrdered
  <1>4. ASSUME CleanupFailed(d) \/ RecoverLocal(d) \/ RecoverMiss(d) PROVE Rest
    BY <1>4 DEF CleanupFailed, RecoverLocal, RecoverMiss, Unsettled
  <1>5. ASSUME FinalizeState(d) PROVE Rest
    BY <1>5 DEF FinalizeState
  <1>6. ASSUME PullState(d) PROVE Rest
    <2>1. op'[d].at = "acking" /\ UNCHANGED <<journal, ledger, minted>>
      BY <1>6, PullGoesOn DEF PullState
    <2> QED
      BY <1>6, <2>1 DEF PullState, DeviceOrdered
  <1>7. ASSUME NEW heard \in BOOLEAN, Acknowledge(d, heard) PROVE Rest
    <2>1. op'[d].at \in {"applying", "idle"} /\ op[d].at = "acking"
          /\ UNCHANGED <<st, journal, ledger, minted>>
      BY <1>7, PullGoesOn DEF Acknowledge
    <2> QED
      BY <1>7, <2>1 DEF Acknowledge, DeviceOrdered
  <1>8. ASSUME ApplyWorkspace(d) PROVE Rest
    <2>1. \E row : row.busy = st[d].busy /\ row.seq = st[d].seq
                   /\ st' = [st EXCEPT ![d] = row]
      BY <1>8 DEF ApplyWorkspace
    <2>2. Goto(d, Idle) /\ UNCHANGED <<journal, ledger, minted>>
      BY <1>8 DEF ApplyWorkspace
    <2> QED
      BY <2>1, <2>2 DEF DeviceOrdered
  <1>9. ASSUME NEW stale \in BOOLEAN, AbandonApply(d, stale) PROVE Rest
    BY <1>9 DEF AbandonApply, DeviceOrdered
  <1>10. ASSUME ResolveConflicts(d) PROVE Rest
    BY <1>10 DEF ResolveConflicts, DeviceOrdered
  <1>11. Rest
    BY <1>1, <1>2, <1>3, <1>4, <1>5, <1>6, <1>7, <1>8, <1>9, <1>10
  <1> HIDE <1>0 DEF Set, Goto, Idle, Unlock, rows, At, Alone, JournalStep, LocalTypes,
                    VaultState, NoJournal
  <1>12. DeviceStamps(d)'
    BY <1>11, StampsAtRest
  <1> QED
    BY <1>11, <1>12

\* A deletion is numbered past the bound of a commit in doubt.
LEMMA DeleteStamps ==
    ASSUME CommitInv, [CNext]_cvars, NEW d \in Devices, DeviceStamps(d),
           \/ \E f \in Files : DeleteNote(d, f)
           \/ AppendTombstone(d)
    PROVE  DeviceStamps(d)' /\ Alone(d)
  <1>0. LocalTypes /\ op[d] \in Step /\ DeviceOrdered(d) /\ DeviceInPast(d)
        /\ st[d].seq \in Nat /\ journal[d] \in Journal
    BY DEF CommitInv, CTypeOK, LocalTypes, DeviceStamps, InPast, VaultState
  <1>u. journal[d].status = "submitted" => journal[d].upper \in Nat
    BY <1>0 DEF Journal, NoJournal
  <1>1. ASSUME NEW f \in Files, DeleteNote(d, f) PROVE DeviceStamps(d)' /\ Alone(d)
    <2>1. /\ UNCHANGED <<st, journal, ledger, minted>>
          /\ op'[d].at = "deleting" /\ op'[d].tomb.seq = st[d].seq + 1
          /\ \A e \in Devices \ {d} : op'[e] = op[e]
      BY <1>0, <1>1 DEF DeleteNote, Goto, rows, LocalTypes
    <2>2. DeviceGenuine(d)'
      BY <2>1, DeviceStays DEF DeviceStamps, DeviceGenuine, Genuine
    <2>3. DeviceOrdered(d)'
      BY <1>0, <1>u, <2>1 DEF DeviceOrdered, PlanKept
    <2> QED
      BY <2>1, <2>2, <2>3 DEF DeviceStamps, Settled, Alone, JournalStep
  <1>2. CASE AppendTombstone(d)
    <2>1. /\ UNCHANGED <<st, journal, minted>> /\ ledger'[d] = ledger[d] \cup {op[d].tomb}
          /\ op[d].at = "deleting" /\ op[d].tomb.rev = 0
          /\ op'[d].at = "counting" /\ op'[d].seq = op[d].tomb.seq
          /\ \A e \in Devices \ {d} : op'[e] = op[e] /\ ledger'[e] = ledger[e]
      BY <1>0, <1>2 DEF AppendTombstone, Goto, At, DeviceInPast, rows, LocalTypes
    <2>2. op[d].tomb.seq \in Nat
      BY <1>0, <2>1, StepFields DEF LocalTombstone
    <2>3. DeviceGenuine(d)'
      BY <2>1, DeviceStays DEF DeviceStamps, DeviceGenuine, Genuine
    <2>4. ASSUME journal[d].status = "submitted" PROVE PlanKept(d)'
      <3>1. PlanKept(d) /\ op[d].tomb.seq > journal[d].upper
        BY <1>0, <2>1, <2>4 DEF DeviceOrdered
      <3> QED
        BY <1>u, <2>1, <2>2, <2>4, <3>1 DEF PlanKept, Pending
    <2>5. DeviceOrdered(d)'
      BY <1>0, <1>u, <2>1, <2>2, <2>4 DEF DeviceOrdered
    <2> QED
      BY <2>1, <2>3, <2>5 DEF DeviceStamps, Settled, Alone, JournalStep
  <1> QED
    BY <1>1, <1>2

\* A commit on its way: its plan takes along every deletion it can be taken for.
LEMMA CommitStamps ==
    ASSUME CommitInv, [CNext]_cvars, NEW d \in Devices, DeviceStamps(d),
           \/ \E i \in Intents : PrepareCommit(d, i)
           \/ LockCommit(d) \/ FreezeCommit(d) \/ SendCommit(d)
    PROVE  DeviceStamps(d)' /\ Alone(d)
  <1>0. LocalTypes /\ CTypeOK /\ op[d] \in Step /\ DeviceOrdered(d) /\ HasJournal(d)
        /\ journal[d] \in Journal
    BY DEF CommitInv, CTypeOK, LocalTypes, DeviceStamps, Journaled
  <1>1. ASSUME NEW i \in Intents, PrepareCommit(d, i) PROVE DeviceStamps(d)' /\ Alone(d)
    <2> DEFINE seq == st[d].seq + Cardinality(Missing(d))
               plan == [status |-> "prepared", intent |-> i, manifest |-> PlanManifest(d),
                        upper |-> seq, known |-> Pending(ledger[d])]
    <2>1. /\ UNCHANGED <<st, ledger, commitCalls>> /\ i \notin minted
          /\ minted' = minted \cup {i} \cup NewIds(d)
          /\ journal'[d] = plan
          /\ op'[d] = [at |-> "locking", row |-> [st[d] EXCEPT !.busy = TRUE, !.seq = seq],
                       buildable |-> Buildable(d)]
          /\ \A e \in Devices \ {d} : op'[e] = op[e] /\ journal'[e] = journal[e]
      BY <1>0, <1>1 DEF PrepareCommit, Goto, LocalTypes, store, calls
    <2>2. /\ journal'[d].status = "prepared" /\ journal'[d].intent = i
          /\ journal'[d].manifest = PlanManifest(d) /\ journal'[d].upper = seq
          /\ journal'[d].known = Pending(ledger[d])
          /\ op'[d].at = "locking" /\ op'[d].row = [st[d] EXCEPT !.busy = TRUE, !.seq = seq]
      BY <2>1
    <2> HIDE DEF plan, seq
    <2>r. op'[d].row.seq = seq
      <3>1. st[d] \in VaultState
        BY <1>0 DEF LocalTypes
      <3> QED
        BY <2>2, <3>1 DEF VaultState
    <2>3. \A t \in PlanManifest(d).tombs : t.rev > 0 => Held(t.file, t.rev)'
      <3>1. \A t \in ledger[d] : t.rev > 0 => Held(t.file, t.rev)'
        BY DeviceStays DEF DeviceStamps
      <3> QED
        BY <1>0, <3>1, PlanStamps
    <2>4. DeviceGenuine(d)'
      BY <2>1, <2>2, <2>3, DeviceStays DEF DeviceStamps, DeviceGenuine, Genuine
    <2>5. \A t \in Pending(ledger[d]) : \E u \in PlanManifest(d).tombs :
             u.file = t.file /\ u.rev = 0
      BY <1>0, PlanStamps DEF Pending
    <2>6. PlanKept(d)'
      BY <2>1, <2>2, <2>5 DEF PlanKept, Taken
    <2>7. DeviceOrdered(d)'
      BY <2>2, <2>r, <2>6 DEF DeviceOrdered
    <2>8. Alone(d)
      BY <2>1, <2>2 DEF Alone, JournalStep
    <2> QED
      BY <2>2, <2>4, <2>7, <2>8 DEF DeviceStamps, Settled
  <1>2. CASE LockCommit(d)
    <2>0. st' = [st EXCEPT ![d] = [st[d] EXCEPT !.busy = TRUE, !.seq = op[d].row.seq]]
      BY <1>2, InTurn
    <2>1. /\ UNCHANGED <<journal, ledger, minted>> /\ op[d].at = "locking"
          /\ st'[d].busy /\ st'[d].seq = op[d].row.seq
          /\ op'[d].at \in {"freezing", "idle"}
          /\ \A e \in Devices \ {d} : op'[e] = op[e] /\ st'[e] = st[e]
      <3>1. st[d] \in VaultState
        BY <1>0 DEF LocalTypes
      <3>2. st'[d].busy /\ st'[d].seq = op[d].row.seq
            /\ \A e \in Devices \ {d} : st'[e] = st[e]
        BY <1>0, <2>0, <3>1 DEF LocalTypes, VaultState
      <3> QED
        BY <1>0, <1>2, <3>2 DEF LockCommit, Goto, Idle, At, LocalTypes
    <2>2. op[d].row.seq \in Nat
      BY <1>0, <2>1, StepFields DEF VaultState
    <2>3. DeviceGenuine(d)'
      BY <2>1, DeviceStays DEF DeviceStamps, DeviceGenuine, Genuine
    <2>4. DeviceOrdered(d)'
      BY <1>0, <2>1, <2>2 DEF DeviceOrdered, PlanKept
    <2> QED
      BY <2>1, <2>3, <2>4 DEF DeviceStamps, Settled, Alone, JournalStep
  <1>3. CASE FreezeCommit(d)
    <2>1. journal[d] # NoJournal /\ op[d].at = "freezing"
      BY <1>0, <1>3 DEF FreezeCommit, At, HasJournal
    <2>2. /\ UNCHANGED <<st, ledger, minted>>
          /\ journal'[d] = [journal[d] EXCEPT !.status = "submitted"]
          /\ op'[d].at = "sending"
          /\ \A e \in Devices \ {d} : op'[e] = op[e] /\ journal'[e] = journal[e]
      BY <1>0, <1>3 DEF FreezeCommit, Goto, LocalTypes
    <2>3. /\ journal'[d].intent = journal[d].intent /\ journal'[d].upper = journal[d].upper
          /\ journal'[d].manifest = journal[d].manifest
          /\ journal'[d].known = journal[d].known
      BY <1>0, <2>1, <2>2 DEF Journal
    <2>4. DeviceGenuine(d)'
      BY <2>1, <2>2, <2>3, DeviceStays DEF DeviceStamps, DeviceGenuine, Genuine
    <2>5. PlanKept(d)'
      BY <1>0, <2>1, <2>2, <2>3 DEF DeviceOrdered, PlanKept, Taken
    <2>6. DeviceOrdered(d)'
      BY <1>0, <2>1, <2>2, <2>3, <2>5 DEF DeviceOrdered
    <2> QED
      BY <2>1, <2>2, <2>3, <2>4, <2>6 DEF DeviceStamps, Settled, Alone, JournalStep
  <1>4. CASE SendCommit(d)
    <2>1. /\ UNCHANGED <<st, journal, ledger, minted>> /\ op[d].at = "sending"
          /\ op'[d].at = "waiting"
          /\ \A e \in Devices \ {d} : op'[e] = op[e]
      BY <1>0, <1>4 DEF SendCommit, Goto, At, rows, LocalTypes
    <2>2. DeviceGenuine(d)'
      BY <2>1, DeviceStays DEF DeviceStamps, DeviceGenuine, Genuine
    <2>3. DeviceOrdered(d)'
      BY <1>0, <2>1 DEF DeviceOrdered, PlanKept
    <2> QED
      BY <2>1, <2>2, <2>3 DEF DeviceStamps, Settled, Alone, JournalStep
  <1> QED
    BY <1>1, <1>2, <1>3, <1>4

-----------------------------------------------------------------------------
(* Answers and what follows them                                           *)

\* The answer a device hears is about the commit in its journal.
LEMMA AnswerStamps ==
    ASSUME CommitInv, [CNext]_cvars, IntentsAreOwn, NEW c \in commitCalls, NEW d \in Devices,
           d = c.manifest.device, DeviceStamps(d), RunCommit(c)
    PROVE  DeviceStamps(d)' /\ Alone(d)
  <1>0. LocalTypes /\ TypeOK /\ op \in [Devices -> Step] /\ DeviceOrdered(d) /\ HasJournal(d)
    BY DEF CommitInv, CTypeOK, LocalTypes, DeviceStamps, Journaled
  <1>1. /\ UNCHANGED <<st, journal, ledger, minted>>
        /\ \/ op' = op
           \/ /\ At(d, "waiting") /\ journal[d].intent = c.intent
              /\ op' = [op EXCEPT ![d] = Answer(c)]
    BY DEF RunCommit, rows
  <1>2. Alone(d)
    BY <1>0, <1>1 DEF Alone, JournalStep
  <1>3. ASSUME At(d, "waiting"), journal[d].intent = c.intent,
               op' = [op EXCEPT ![d] = Answer(c)]
        PROVE  DeviceStamps(d)'
    <2>1. /\ c.intent \in Intents /\ c.manifest \in Manifest
          /\ journal[d] # NoJournal /\ journal[d].status = "submitted"
          /\ c.manifest = journal[d].manifest /\ op'[d] = Answer(c)
      BY <1>0, <1>3 DEF TypeOK, HasJournal, At, DeviceOrdered, IntentsAreOwn
    <2>2. ASSUME op'[d].at = "committed", commits'[c.intent] # NoCommit,
                 commits'[c.intent].hash = c.manifest,
                 commits'[c.intent].rev = op'[d].rev
          PROVE  DeviceStamps(d)'
      <3>1. DeviceGenuine(d)'
        BY <1>1, <2>2, DeviceStays DEF DeviceStamps, DeviceGenuine, Genuine
      <3>2. DeviceOrdered(d)'
        BY <1>0, <1>1, <2>1, <2>2 DEF DeviceOrdered, PlanKept
      <3>3. Settled(d)'
        BY <1>1, <1>3, <2>1, <2>2 DEF Settled
      <3> QED
        BY <3>1, <3>2, <3>3 DEF DeviceStamps
    <2>3. CASE CommitStatus(c.intent, c.manifest) = "created"
      <3>1. CreateRevision(c.intent, c.manifest)
        BY <2>3 DEF RunCommit, RunCommitCall, CreateCommit, ReplayCommit, RejectCommit
      <3>2. commits'[c.intent] = [hash |-> c.manifest, rev |-> HeadRev + 1]
        BY <1>0, <2>1, <3>1 DEF CreateRevision, TypeOK
      <3>3. op'[d] = [at |-> "committed", rev |-> HeadRev + 1, read |-> ledger[d]]
        BY <2>1, <2>3 DEF Answer
      <3>4. HeadRev \in Nat
        BY <1>0 DEF TypeOK, HeadRev
      <3> QED
        BY <2>2, <3>2, <3>3, <3>4 DEF NoCommit
    <2>4. CASE CommitStatus(c.intent, c.manifest) = "replayed"
      <3>1. commits[c.intent] # NoCommit /\ commits[c.intent].hash = c.manifest
        BY <2>1, <2>4, StatusMeaning
      <3>2. op'[d] = [at |-> "committed", rev |-> commits[c.intent].rev, read |-> ledger[d]]
        BY <2>1, <2>4 DEF Answer
      <3>3. commits'[c.intent] = commits[c.intent]
        BY <2>1, <3>1, VaultGrows DEF CommitInv
      <3> QED
        BY <2>2, <3>1, <3>2, <3>3
    <2>5. CASE CommitStatus(c.intent, c.manifest) \notin {"created", "replayed"}
      <3>1. op'[d].at = "failed"
        BY <2>1, <2>5 DEF Answer
      <3> QED
        BY <1>0, <1>1, <2>1, <3>1, StampsAtRest DEF DeviceOrdered
    <2> QED
      BY <2>3, <2>4, <2>5
  <1>4. ASSUME op' = op PROVE DeviceStamps(d)'
    BY <1>1, <1>4, UnmovedStamps
  <1> QED
    BY <1>1, <1>2, <1>3, <1>4

\* A commit found to have succeeded stamps only what it took along.
LEMMA FinishStamps ==
    ASSUME CommitInv, [CNext]_cvars, VaultStamps, NEW d \in Devices, DeviceStamps(d),
           FinalizeLedger(d) \/ RecoverMatch(d) \/ RecoverLedger(d)
    PROVE  DeviceStamps(d)' /\ Alone(d)
  <1>0. LocalTypes /\ CTypeOK /\ TypeOK /\ op \in [Devices -> Step] /\ DeviceOrdered(d)
        /\ ledger[d] \in SUBSET LocalTombstone /\ HasJournal(d) /\ journal[d] \in Journal
    BY DEF CommitInv, CTypeOK, LocalTypes, DeviceStamps, Journaled
  <1>1. ASSUME journal[d] # NoJournal, journal[d].status = "submitted",
               commits[journal[d].intent] # NoCommit,
               commits[journal[d].intent].hash = journal[d].manifest
        PROVE  LET rev     == commits[journal[d].intent].rev
                   stamped == StampCommitted(ledger[d], journal[d], rev)
               IN  /\ Genuine(stamped) /\ stamped \in SUBSET LocalTombstone
                   /\ StampsUpTo(stamped, HeadRev)
                   /\ \A u \in Pending(stamped) :
                         \E t \in Pending(ledger[d]) : t.file = u.file /\ t.seq = u.seq
    <2>1. journal[d].intent \in Intents /\ journal[d].manifest.tombs \in SUBSET Tombstone
      BY <1>0, <1>1, JournalFields DEF Manifest
    <2>2. PICK rev \in 1..HeadRev : /\ commits[journal[d].intent].rev = rev
                                    /\ TombsAt(rev) = Stamped(journal[d].manifest.tombs, rev)
      BY <1>1, <2>1 DEF VaultStamps, Recorded
    <2>3. HeadRev \in Nat /\ rev \in Nat /\ rev > 0 /\ rev <= HeadRev
      BY <1>0 DEF TypeOK, HeadRev
    <2>4. \A f \in Selected(ledger[d], journal[d]) : Held(f, rev)
      BY <1>0, <1>1, <2>1, <2>2, SelectedIsTaken, TakenIsHeld DEF DeviceOrdered
    <2>5. Genuine(ledger[d]) /\ StampsUpTo(ledger[d], HeadRev)
      BY DEF DeviceStamps, DeviceGenuine, CommitInv, InPast, DeviceInPast
    <2> DEFINE stamped == StampCommitted(ledger[d], journal[d], rev)
    <2>6. /\ Genuine(stamped)
          /\ \A u \in Pending(stamped) :
                \E t \in Pending(ledger[d]) : t.file = u.file /\ t.seq = u.seq
      BY <1>0, <2>3, <2>4, <2>5, StampedStamps
    <2>7. stamped \in SUBSET LocalTombstone /\ StampsUpTo(stamped, HeadRev)
      BY <1>0, <2>3, <2>5, StampedRecords
    <2> QED
      BY <2>2, <2>6, <2>7
  <1>2. CASE FinalizeLedger(d)
    <2>0. /\ op[d].at = "committed"
          /\ ledger' = [ledger EXCEPT ![d] = StampCommitted(ledger[d], journal[d], op[d].rev)]
          /\ op[d].rev = commits[journal[d].intent].rev
      BY <1>2, InTurn DEF FinalizeLedger, At, DeviceStamps, Settled
    <2>1. /\ UNCHANGED <<st, journal, minted>> /\ op[d].at = "committed"
          /\ journal[d] # NoJournal /\ journal[d].status = "submitted"
          /\ commits[journal[d].intent] # NoCommit
          /\ commits[journal[d].intent].hash = journal[d].manifest
          /\ ledger'[d] = StampCommitted(ledger[d], journal[d], commits[journal[d].intent].rev)
          /\ op'[d].at = "stamped"
          /\ \A e \in Devices \ {d} : op'[e] = op[e] /\ ledger'[e] = ledger[e]
      BY <1>0, <1>2, <2>0 DEF FinalizeLedger, Goto, At, HasJournal, DeviceOrdered,
                              DeviceStamps, Settled, rows, LocalTypes
    <2>2. /\ Genuine(ledger'[d]) /\ ledger'[d] \in SUBSET LocalTombstone
          /\ StampsUpTo(ledger'[d], HeadRev)
          /\ \A u \in Pending(ledger'[d]) :
                \E t \in Pending(ledger[d]) : t.file = u.file /\ t.seq = u.seq
      BY <1>1, <2>1
    <2>3. \A t \in ledger'[d] : t.rev > 0 => Held(t.file, t.rev)'
      BY <1>0, <2>2, GenuineStays DEF LocalTombstone
    <2>4. DeviceGenuine(d)'
      BY <2>1, <2>3, DeviceStays DEF DeviceStamps, DeviceGenuine, Genuine
    <2>5. PlanKept(d)'
      BY <1>0, <2>1, <2>2 DEF DeviceOrdered, PlanKept
    <2>6. DeviceOrdered(d)'
      BY <1>0, <2>1, <2>5 DEF DeviceOrdered
    <2> QED
      BY <2>1, <2>4, <2>6 DEF DeviceStamps, Settled, Alone, JournalStep
  <1>3. CASE RecoverMatch(d)
    <2> DEFINE stamped == StampCommitted(ledger[d], journal[d], commits[journal[d].intent].rev)
    <2>1. /\ journal[d].status = "submitted" /\ journal[d] # NoJournal
          /\ commits[journal[d].intent].hash = journal[d].manifest
          /\ UNCHANGED <<ledger, minted>> /\ journal'[d] = NoJournal
          /\ op'[d] = [at |-> "stamping", read |-> ledger[d], tombs |-> stamped]
          /\ \A e \in Devices \ {d} : st'[e] = st[e] /\ op'[e] = op[e]
                                      /\ journal'[e] = journal[e]
      BY <1>0, <1>3 DEF RecoverMatch, Unsettled, Found, Goto, Set, NoJournal, LocalTypes
    <2>2. ASSUME commits[journal[d].intent] = NoCommit
          PROVE  Genuine(stamped) /\ stamped \in SUBSET LocalTombstone
                 /\ StampsUpTo(stamped, HeadRev)
      <3>1. commits[journal[d].intent].rev = 0 /\ HeadRev \in Nat
        BY <1>0, <2>2 DEF NoCommit, TypeOK, HeadRev
      <3>2. Genuine(ledger[d]) /\ StampsUpTo(ledger[d], HeadRev)
        BY DEF DeviceStamps, DeviceGenuine, CommitInv, InPast, DeviceInPast
      <3> QED
        BY <1>0, <3>1, <3>2, StampedStamps, StampedRecords
    <2>3. Genuine(stamped) /\ stamped \in SUBSET LocalTombstone /\ StampsUpTo(stamped, HeadRev)
      BY <1>1, <2>1, <2>2
    <2>4. op'[d].at = "stamping" /\ op'[d].tombs = stamped
      BY <2>1
    <2> HIDE DEF stamped
    <2>5. \A t \in stamped : t.rev > 0 => Held(t.file, t.rev)'
      BY <1>0, <2>3, GenuineStays DEF LocalTombstone
    <2>6. DeviceGenuine(d)'
      BY <2>1, <2>4, <2>5, DeviceStays DEF DeviceStamps, DeviceGenuine, Genuine
    <2>7. DeviceOrdered(d)'
      BY <2>1, <2>4 DEF DeviceOrdered, NoJournal
    <2> QED
      BY <2>1, <2>4, <2>6, <2>7 DEF DeviceStamps, Settled, Alone, JournalStep
  <1>4. CASE RecoverLedger(d)
    <2>1. /\ UNCHANGED <<st, journal, minted>> /\ op[d].at = "stamping"
          /\ ledger'[d] = op[d].tombs /\ op'[d].at = "idle"
          /\ \A e \in Devices \ {d} : op'[e] = op[e] /\ ledger'[e] = ledger[e]
      BY <1>0, <1>4 DEF RecoverLedger, Goto, At, Idle, rows, LocalTypes
    <2>2. DeviceGenuine(d)'
      BY <2>1, DeviceStays DEF DeviceStamps, DeviceGenuine, Genuine
    <2>3. DeviceOrdered(d)'
      BY <1>0, <2>1 DEF DeviceOrdered
    <2> QED
      BY <2>1, <2>2, <2>3 DEF DeviceStamps, Settled, Alone, JournalStep
  <1> QED
    BY <1>2, <1>3, <1>4

\* A pull takes stamps from the ledger and from the head.
LEMMA PullStamps ==
    ASSUME CommitInv, [CNext]_cvars, VaultStamps, NEW d \in Devices, DeviceStamps(d),
           Fetch(d) \/ PullFilemap(d) \/ PullLedger(d)
    PROVE  DeviceStamps(d)' /\ Alone(d)
  <1>0. LocalTypes /\ CTypeOK /\ TypeOK /\ op \in [Devices -> Step] /\ DeviceOrdered(d)
        /\ ledger[d] \in SUBSET LocalTombstone
    BY DEF CommitInv, CTypeOK, LocalTypes, DeviceStamps
  <1>1. CASE Fetch(d)
    <2> DEFINE new == Converged(ledger[d], TombsAt(HeadRev), HeadRev)
    <2>1. /\ TombsAt(HeadRev) \in SUBSET Tombstone /\ HeadRev \in Nat
          /\ StampsUpTo(TombsAt(HeadRev), HeadRev) /\ StampsUpTo(ledger[d], HeadRev)
          /\ Genuine(TombsAt(HeadRev)) /\ Genuine(ledger[d])
      <3>1. HeadRev \in Nat /\ HeadRev > 0
        BY <1>0, <1>1 DEF TypeOK, HeadRev, Fetch
      <3>2. TombsAt(HeadRev) = history[HeadRev].tombs /\ HeadRev \in 1..HeadRev
        BY <3>1 DEF TombsAt
      <3> QED
        BY <1>0, <3>1, <3>2, AtTypes
           DEF CommitInv, InPast, VaultInPast, DeviceInPast, VaultStamps,
               DeviceStamps, DeviceGenuine
    <2>2. Genuine(new) /\ new \in SUBSET LocalTombstone /\ StampsUpTo(new, HeadRev)
      <3>1. Genuine(Merged(ledger[d], TombsAt(HeadRev)))
        BY <1>0, <2>1, MergedStamps
      <3>2. new \subseteq Merged(ledger[d], TombsAt(HeadRev))
        BY DEF Converged
      <3>3. new \in SUBSET LocalTombstone /\ StampsUpTo(new, HeadRev)
        BY <1>0, <2>1, ConvergedRecords
      <3> QED
        BY <3>1, <3>2, <3>3 DEF Genuine
    <2>3. /\ UNCHANGED <<st, journal, ledger, minted>> /\ ~st[d].busy
          /\ op'[d] = [at |-> "fetched", target |-> HeadRev, before |-> fmap[d],
                       read |-> ledger[d], tombs |-> new]
          /\ \A e \in Devices \ {d} : op'[e] = op[e]
      BY <1>0, <1>1 DEF Fetch, Goto, rows, LocalTypes
    <2>4. op'[d].at = "fetched" /\ op'[d].tombs = new
      BY <2>3
    <2> HIDE DEF new
    <2>5. \A t \in new : t.rev > 0 => Held(t.file, t.rev)'
      BY <1>0, <2>2, GenuineStays DEF LocalTombstone
    <2>6. DeviceGenuine(d)'
      BY <2>3, <2>4, <2>5, DeviceStays DEF DeviceStamps, DeviceGenuine, Genuine
    <2>7. DeviceOrdered(d)'
      BY <1>0, <2>3, <2>4 DEF DeviceOrdered
    <2> QED
      BY <2>3, <2>4, <2>6, <2>7 DEF DeviceStamps, Settled, Alone, JournalStep
  <1>2. CASE PullFilemap(d)
    <2>1. /\ UNCHANGED <<st, journal, ledger, minted>> /\ op[d].at = "fetched"
          /\ op'[d] = [op[d] EXCEPT !.at = "rebuilt"]
          /\ \A e \in Devices \ {d} : op'[e] = op[e]
      BY <1>0, <1>2 DEF PullFilemap, Goto, At, rows, LocalTypes
    <2>2. op'[d].at = "rebuilt" /\ op'[d].tombs = op[d].tombs
      BY <1>0, <2>1, PullGoesOn
    <2>3. DeviceGenuine(d)'
      BY <2>1, <2>2, DeviceStays DEF DeviceStamps, DeviceGenuine, Genuine
    <2>4. DeviceOrdered(d)'
      BY <1>0, <2>1, <2>2 DEF DeviceOrdered
    <2> QED
      BY <2>1, <2>2, <2>3, <2>4 DEF DeviceStamps, Settled, Alone, JournalStep
  <1>3. CASE PullLedger(d)
    <2>1. /\ UNCHANGED <<st, journal, minted>> /\ op[d].at = "rebuilt"
          /\ ledger'[d] = op[d].tombs /\ op'[d].at = "converged"
          /\ \A e \in Devices \ {d} : op'[e] = op[e] /\ ledger'[e] = ledger[e]
      BY <1>0, <1>3 DEF PullLedger, Goto, At, rows, LocalTypes
    <2>2. DeviceGenuine(d)'
      BY <2>1, DeviceStays DEF DeviceStamps, DeviceGenuine, Genuine
    <2>3. DeviceOrdered(d)'
      BY <1>0, <2>1 DEF DeviceOrdered
    <2> QED
      BY <2>1, <2>2, <2>3 DEF DeviceStamps, Settled, Alone, JournalStep
  <1> QED
    BY <1>1, <1>2, <1>3

-----------------------------------------------------------------------------
(* The invariant holds                                                     *)

\* An intent stays one device's: a new one is minted, and a call repeats a journal.
LEMMA IntentsStay ==
    ASSUME CommitInv, [CNext]_cvars, IntentsAreOwn, NEW d \in Devices, Alone(d)
    PROVE  IntentsAreOwn'
  <1>1. \A e \in Devices \ {d} : journal'[e] = journal[e]
    BY DEF Alone
  <1>2. minted \subseteq minted' /\ JournalStep(d)
    BY DEF Alone
  <1>3. ASSUME NEW c \in commitCalls' PROVE c.intent \in minted'
    BY <1>2, CallOrigin DEF IntentsAreOwn
  <1>4. ASSUME NEW e \in Devices, journal'[e] # NoJournal PROVE journal'[e].intent \in minted'
    BY <1>1, <1>2, <1>4 DEF IntentsAreOwn, JournalStep
  <1>5. ASSUME NEW e \in Devices, NEW g \in Devices, e # g,
               journal'[e] # NoJournal, journal'[g] # NoJournal
        PROVE  journal'[e].intent # journal'[g].intent
    BY <1>1, <1>2, <1>5 DEF IntentsAreOwn, JournalStep
  <1>6. ASSUME NEW e \in Devices, NEW c \in commitCalls', journal'[e] # NoJournal,
               c.intent = journal'[e].intent
        PROVE  c.manifest = journal'[e].manifest
    <2>1. CASE journal'[e] = journal[e]
      <3>1. CASE c \in commitCalls
        BY <1>6, <2>1, <3>1 DEF IntentsAreOwn
      <3>2. ASSUME NEW g \in Devices, journal[g] # NoJournal,
                   c.intent = journal[g].intent, c.manifest = journal[g].manifest
            PROVE  c.manifest = journal'[e].manifest
        BY <1>6, <2>1, <3>2 DEF IntentsAreOwn
      <3> QED
        BY <3>1, <3>2, CallOrigin
    <2>2. CASE journal'[e] # journal[e]
      <3>1. e = d
        BY <1>1, <2>2
      <3>2. c \in commitCalls
        BY <2>2, CallOrigin
      <3>3. c.intent \in minted
        BY <3>2 DEF IntentsAreOwn
      <3> QED
        BY <1>2, <1>6, <2>2, <3>1, <3>2, <3>3 DEF IntentsAreOwn, JournalStep
    <2> QED
      BY <2>1, <2>2
  <1> QED
    BY <1>3, <1>4, <1>5, <1>6 DEF IntentsAreOwn

LEMMA StampInit == CInit => StampInv
  <1> SUFFICES ASSUME CInit PROVE StampInv
    OBVIOUS
  <1>1. HeadRev = 0 /\ commitCalls = {} /\ \A i \in Intents : commits[i] = NoCommit
    BY DEF CInit, Init, HeadRev
  <1>2. \A d \in Devices : op[d].at = "idle" /\ journal[d] = NoJournal /\ ledger[d] = {}
    BY DEF CInit, Idle
  <1>3. VaultStamps
    BY <1>1 DEF VaultStamps, Recorded
  <1>4. IntentsAreOwn
    BY <1>1, <1>2 DEF IntentsAreOwn
  <1>5. \A d \in Devices : DeviceStamps(d)
    BY <1>2 DEF DeviceStamps, DeviceGenuine, DeviceOrdered, Settled, Genuine, NoJournal
  <1> QED
    BY <1>3, <1>4, <1>5 DEF StampInv

LEMMA StampStep == CommitInv /\ StampInv /\ [CNext]_cvars => StampInv'
  <1> DEFINE Goal == IntentsAreOwn' /\ \A e \in Devices : DeviceStamps(e)'
  <1> SUFFICES ASSUME CommitInv, StampInv, [CNext]_cvars PROVE StampInv'
    OBVIOUS
  <1>0. VaultStamps /\ IntentsAreOwn /\ \A e \in Devices : DeviceStamps(e)
    BY DEF StampInv
  <1>v. VaultStamps'
    BY <1>0, VaultStampsStep DEF DeviceStamps
  <1> SUFFICES Goal
    BY <1>v DEF StampInv
  <1>a. ASSUME NEW d \in Devices, DeviceStamps(d)', Alone(d) PROVE Goal
    <2>1. \A e \in Devices : DeviceStamps(e)'
      BY <1>0, <1>a, UnmovedStamps DEF Alone
    <2> QED
      BY <1>0, <1>a, <2>1, IntentsStay
  <1>b. ASSUME UNCHANGED <<st, journal, ledger, minted, op>> PROVE Goal
    <2>1. \A e \in Devices : DeviceStamps(e)'
      BY <1>0, <1>b, UnmovedStamps
    <2>2. ASSUME NEW d \in Devices PROVE IntentsAreOwn'
      BY <1>0, <1>b, IntentsStay DEF Alone, JournalStep
    <2>3. ASSUME Devices = {} PROVE IntentsAreOwn'
      <3>1. \A c \in commitCalls' : c \in commitCalls
        BY <2>3, CallOrigin
      <3> QED
        BY <1>0, <1>b, <2>3, <3>1 DEF IntentsAreOwn
    <2> QED
      BY <2>1, <2>2, <2>3
  <1> HIDE DEF Goal
  <1>1. ASSUME NEW d \in Devices,
               \/ CountDelete(d) \/ GiveUp(d) \/ FinalizeState(d) \/ FinalizeFilemap(d)
               \/ CleanupFailed(d) \/ MarkStale(d) \/ RecoverLocal(d) \/ RecoverMiss(d)
               \/ PullState(d) \/ \E heard \in BOOLEAN : Acknowledge(d, heard)
               \/ AckLost(d) \/ ApplyWorkspace(d) \/ Crash(d) \/ ResolveConflicts(d)
               \/ \E stale \in BOOLEAN : AbandonApply(d, stale)
        PROVE Goal
    BY <1>0, <1>1, <1>a, RestStamps
  <1>2. ASSUME NEW d \in Devices,
               (\E f \in Files : DeleteNote(d, f)) \/ AppendTombstone(d)
        PROVE Goal
    BY <1>0, <1>2, <1>a, DeleteStamps
  <1>3. ASSUME NEW d \in Devices,
               \/ \E i \in Intents : PrepareCommit(d, i)
               \/ LockCommit(d) \/ FreezeCommit(d) \/ SendCommit(d)
        PROVE Goal
    BY <1>0, <1>3, <1>a, CommitStamps
  <1>4. ASSUME NEW c \in commitCalls, RunCommit(c) PROVE Goal
    <2>1. c.manifest.device \in Devices
      BY DEF CommitInv, CTypeOK, TypeOK, Manifest
    <2> QED
      BY <1>0, <1>4, <1>a, <2>1, AnswerStamps
  <1>5. ASSUME NEW d \in Devices, FinalizeLedger(d) \/ RecoverMatch(d) \/ RecoverLedger(d)
        PROVE Goal
    BY <1>0, <1>5, <1>a, FinishStamps
  <1>6. ASSUME NEW d \in Devices, Fetch(d) \/ PullFilemap(d) \/ PullLedger(d) PROVE Goal
    BY <1>0, <1>6, <1>a, PullStamps
  <1>7. ASSUME NEW d \in Devices,
               \/ \E p \in Paths, content \in Blobs \cup {Absent} : UserWrite(d, p, content)
               \/ AcknowledgeAgain(d)
        PROVE Goal
    BY <1>7, <1>b DEF UserWrite, AcknowledgeAgain, client, rows
  <1>8. CASE UNCHANGED turns
    BY <1>8, <1>b DEF turns, client
  <1>9. ASSUME NEW d \in Devices, DeviceStep(d) PROVE Goal
    BY <1>9, <1>1, <1>2, <1>3, <1>5, <1>6, <1>7 DEF DeviceStep
  <1>10. CASE \/ \E d \in Devices, p \in Paths, content \in Blobs \cup {Absent} :
                    UserWrite(d, p, content)
              \/ \E d \in Devices, f \in Files : DeleteNote(d, f)
              \/ \E d \in Devices : ResolveConflicts(d)
              \/ \E d \in Devices, i \in Intents : PrepareCommit(d, i)
    BY <1>1, <1>2, <1>3, <1>7, <1>10
  <1>11. CASE \E d \in Devices, choice \in BOOLEAN :
                  Acknowledge(d, choice) \/ AbandonApply(d, choice)
    BY <1>1, <1>11
  <1>12. CASE UNCHANGED client
    BY <1>12, <1>b DEF client
  <1> QED
    BY <1>4, <1>8, <1>9, <1>10, <1>11, <1>12, NoneBeside DEF Turn

\* A stamp in a ledger names a revision that holds the tombstone: a deletion made
\* while a commit was in doubt is not stamped with that commit when recovery finds
\* it, or the answer comes after all.
THEOREM LedgersAreTrue ==
    ASSUME Tandem = {}
    PROVE  CSpec => []StampsAreTrue
  <1>1. CInit => CommitInv /\ StampInv
    BY CommitInit, StampInit
  <1>2. CommitInv /\ StampInv /\ [CNext]_cvars => CommitInv' /\ StampInv'
    BY CommitStep, StampStep
  <1>3. StampInv => StampsAreTrue
    BY DEF StampInv, DeviceStamps, DeviceGenuine, Genuine, Held, StampsAreTrue
  <1> QED
    BY <1>1, <1>2, <1>3, PTL DEF CSpec

-----------------------------------------------------------------------------
(* Files: the invariant                                                    *)

\* A filemap lists only files of the table, and knows all of them.
Reflects(fm, files) ==
    \A f \in Files : /\ fm[f] \in Blobs => files[f] # Absent
                     /\ fm[f] = Absent => files[f] = Absent

\* No revision has had the file.
Unlisted(f) == \A q \in 1 .. HeadRev : FilesAt(q)[f] = Absent

\* A manifest that can still be accepted is what a revision lists, after which the
\* device accepted only what it had sent itself, with new files and without the
\* deleted ones, of which it has the tombstones.
Derives(m, buildable, r) ==
    /\ OwnSince(m.device, r, m.base)
    /\ \A f \in Files :
          /\ m.files[f] # Absent => FilesAt(r)[f] # Absent \/ Unlisted(f)
          /\ m.files[f] = Absent /\ FilesAt(r)[f] # Absent /\ buildable
                => \E t \in m.tombs : t.file = f

Planned(m, buildable) ==
    HeadRev = m.base => \E r \in 0 .. HeadRev : Derives(m, buildable, r)

\* The filemap, and the file table an operation is about to write to it, are those of
\* a revision after which the device has applied nothing but commits of its own.
MapBased(d) ==
    \E r \in 0 .. HeadRev : Reflects(fmap[d], FilesAt(r)) /\ OwnSince(d, r, st[d].applied)

OpBased(d) ==
    /\ op[d].at \in {"fetched", "rebuilt", "converged"} => st[d].applied <= op[d].target
    /\ op[d].at \in {"rebuilt", "converged"} => Reflects(fmap[d], FilesAt(op[d].target))
    /\ op[d].at = "rewriting" =>
          \E r \in 0 .. HeadRev : op[d].files = FilesAt(r) /\ OwnSince(d, r, st[d].applied)

\* From the plan to the answer nothing else is applied, and the plan can be sent.
PlanBased(d) ==
    /\ op[d].at \in {"locking", "freezing"} \/ journal[d].status = "submitted"
          => journal[d].manifest.base = st[d].applied
    /\ op[d].at = "locking" => Planned(journal[d].manifest, op[d].buildable)
    /\ op[d].at = "freezing" \/ journal[d].status = "submitted"
          => Planned(journal[d].manifest, TRUE)
    /\ op[d].at = "stamped" =>
          LET found == commits[journal[d].intent]
          IN  found # NoCommit /\ found.hash = journal[d].manifest /\ found.rev = op[d].rev

DeviceFiles(d) ==
    st[d].applied <= HeadRev /\ MapBased(d) /\ OpBased(d) /\ PlanBased(d)

\* Ids are handed out before they are listed.
Mint(files) == \A f \in Files : files[f] # Absent => f \in minted

VaultFiles ==
    /\ IntentOwnsOneRevision
    /\ \A r \in 1 .. HeadRev : /\ history[r].by = Server => FilesAt(r) = FilesAt(r - 1)
                               /\ Mint(history[r].files)
    /\ \A c \in commitCalls : Mint(c.manifest.files) /\ Planned(c.manifest, TRUE)
    /\ \A d \in Devices : journal[d] # NoJournal => Mint(journal[d].manifest.files)
    /\ \A g \in gcRuns : \A t \in g.reclaimed : \A d \in g.active : t.rev \in 1 .. acks[d]

FilesInv == VaultFiles /\ \A d \in Devices : DeviceFiles(d)

-----------------------------------------------------------------------------
(* What history keeps                                                      *)

LEMMA PastKept ==
    ASSUME HeadRev \in Nat, HeadRev' \in Nat, HeadRev <= HeadRev',
           \A r \in 1 .. HeadRev : history'[r] = history[r]
    PROVE  /\ \A r \in 1 .. HeadRev : r \in 1 .. HeadRev'
           /\ \A r \in 0 .. HeadRev : r \in 0 .. HeadRev' /\ FilesAt(r)' = FilesAt(r)
  <1>1. ASSUME NEW r \in 0 .. HeadRev PROVE FilesAt(r)' = FilesAt(r)
    <2>1. CASE r = 0
      BY <2>1 DEF FilesAt
    <2>2. CASE r # 0
      BY <2>2 DEF FilesAt
    <2> QED
      BY <2>1, <2>2
  <1> QED
    BY <1>1

LEMMA PastStays ==
    ASSUME CTypeOK, [CNext]_cvars
    PROVE  /\ HeadRev \in Nat /\ HeadRev' \in Nat /\ HeadRev <= HeadRev'
           /\ \A r \in 1 .. HeadRev : r \in 1 .. HeadRev' /\ history'[r] = history[r]
           /\ \A r \in 0 .. HeadRev : r \in 0 .. HeadRev' /\ FilesAt(r)' = FilesAt(r)
  <1>1. HeadRev \in Nat /\ HeadRev' \in Nat /\ HeadRev <= HeadRev' /\ TypeOK
    BY VaultGrows DEF CTypeOK
  <1>2. CASE QuietStep
    BY <1>1, <1>2, PastKept DEF QuietStep
  <1>3. ASSUME NEW x \in Revision, history' = Append(history, x)
        PROVE  \A r \in 1 .. HeadRev : history'[r] = history[r]
    BY <1>1, <1>3, AppendEffect
  <1>4. CASE CreateStep
    <2>1. \E x \in Revision : history' = Append(history, x)
      BY <1>1, <1>4, CreateAppends DEF CreateStep
    <2>2. \A r \in 1 .. HeadRev : history'[r] = history[r]
      BY <1>3, <2>1
    <2> QED
      BY <1>1, <2>2, PastKept
  <1>5. CASE CollectStep
    <2>1. \E x \in Revision : history' = Append(history, x)
      BY <1>1, <1>5, CollectAppends DEF CollectStep
    <2>2. \A r \in 1 .. HeadRev : history'[r] = history[r]
      BY <1>3, <2>1
    <2> QED
      BY <1>1, <2>2, PastKept
  <1> QED
    BY <1>2, <1>4, <1>5, VaultShape

\* A revision has one author for ever.
LEMMA AuthorStays ==
    ASSUME CTypeOK, IntentOwnsOneRevision, [CNext]_cvars, NEW q \in Written
    PROVE  q \in Written' /\ Author(q)' = Author(q)
  <1>1. q \in 1 .. HeadRev /\ history[q].by # Server /\ history[q] \in Revision
    BY DEF Written, CTypeOK, TypeOK, HeadRev
  <1>2. PICK i \in Intents : history[q].by = i
    BY <1>1 DEF Revision
  <1>3. commits[i] # NoCommit
    BY <1>1, <1>2 DEF IntentOwnsOneRevision, OwnsOne, OwnedBy
  <1>4. commits'[i] = commits[i]
    BY <1>3, VaultGrows
  <1> QED
    BY <1>1, <1>2, <1>4, PastStays DEF Written, Author

LEMMA OwnStays ==
    ASSUME CTypeOK, IntentOwnsOneRevision, [CNext]_cvars,
           NEW d, NEW r, NEW last, OwnSince(d, r, last)
    PROVE  OwnSince(d, r, last)'
  <1> SUFFICES ASSUME NEW q \in r + 1 .. last PROVE q \in Written' /\ Author(q)' = d
    BY DEF OwnSince
  <1> QED
    BY AuthorStays DEF OwnSince

\* A device that sends its commit adds a revision of its own.
LEMMA OwnGrows ==
    ASSUME CTypeOK, IntentOwnsOneRevision, NEW i \in Intents, commits[i] # NoCommit,
           NEW r \in Nat, NEW last \in Nat,
           OwnSince(commits[i].hash.device, r, last), commits[i].hash.base = last
    PROVE  /\ commits[i].rev = last + 1 /\ last + 1 \in Written
           /\ FilesAt(last + 1) = commits[i].hash.files
           /\ Author(last + 1) = commits[i].hash.device
           /\ OwnSince(commits[i].hash.device, r, last + 1)
  <1>1. /\ commits[i].rev \in 1 .. HeadRev /\ history[commits[i].rev].by = i
        /\ history[commits[i].rev].files = commits[i].hash.files
        /\ last = commits[i].rev - 1
    BY DEF IntentOwnsOneRevision, OwnsOne, OwnedBy
  <1>2. commits[i].rev = last + 1 /\ last + 1 # 0 /\ last + 1 \in 1 .. HeadRev
    BY <1>1
  <1>3. last + 1 \in Written /\ Author(last + 1) = commits[i].hash.device
    BY <1>1, <1>2, ServerIsNoIntent DEF Written, Author
  <1>4. FilesAt(last + 1) = commits[i].hash.files
    BY <1>1, <1>2 DEF FilesAt
  <1>5. ASSUME NEW q \in r + 1 .. last + 1
        PROVE  q \in Written /\ Author(q) = commits[i].hash.device
    <2>1. CASE q = last + 1
      BY <1>3, <2>1
    <2>2. CASE q # last + 1
      <3>1. q \in r + 1 .. last
        BY <2>2
      <3> QED
        BY <3>1 DEF OwnSince
    <2> QED
      BY <2>1, <2>2
  <1> QED
    BY <1>2, <1>3, <1>4, <1>5 DEF OwnSince

\* A plan stays good as long as it can be accepted.
LEMMA PlannedStays ==
    ASSUME CTypeOK, IntentOwnsOneRevision, [CNext]_cvars,
           NEW m \in Manifest, m.base <= HeadRev, NEW b \in BOOLEAN, Planned(m, b)
    PROVE  Planned(m, b)'
  <1>0. m.base \in Nat
    BY DEF Manifest
  <1> SUFFICES ASSUME HeadRev' = m.base PROVE \E r \in 0 .. HeadRev' : Derives(m, b, r)'
    BY DEF Planned
  <1>1. HeadRev' = HeadRev /\ HeadRev \in Nat /\ HeadRev = m.base
    BY <1>0, PastStays
  <1>2. PICK r \in 0 .. HeadRev : Derives(m, b, r)
    BY <1>1 DEF Planned
  <1>3. FilesAt(r)' = FilesAt(r) /\ \A q \in 1 .. HeadRev : FilesAt(q)' = FilesAt(q)
    BY <1>1, <1>2, PastStays
  <1>4. \A f \in Files : Unlisted(f)' <=> Unlisted(f)
    BY <1>1, <1>3 DEF Unlisted
  <1>5. OwnSince(m.device, r, m.base)'
    BY <1>2, OwnStays DEF Derives
  <1>6. Derives(m, b, r)'
    BY <1>2, <1>3, <1>4, <1>5 DEF Derives
  <1> QED
    BY <1>1, <1>6

-----------------------------------------------------------------------------
(* What a step of others leaves to a device                                *)

\* The parts of the invariants the steps of a device rest on.
FilesKnown ==
    /\ CTypeOK /\ Journaled /\ InPast /\ IntentOwnsOneRevision /\ [CNext]_cvars

LEMMA MapStays ==
    ASSUME FilesKnown, NEW d \in Devices, MapBased(d), st'[d].applied = st[d].applied,
           \A files : Reflects(fmap[d], files) => Reflects(fmap'[d], files)
    PROVE  MapBased(d)'
  <1>1. PICK r \in 0 .. HeadRev :
           Reflects(fmap[d], FilesAt(r)) /\ OwnSince(d, r, st[d].applied)
    BY DEF MapBased
  <1>2. r \in 0 .. HeadRev' /\ FilesAt(r)' = FilesAt(r)
    BY PastStays DEF FilesKnown
  <1>3. OwnSince(d, r, st[d].applied)'
    <2> DEFINE last == st[d].applied
    <2>1. OwnSince(d, r, last)
      BY <1>1
    <2>2. st'[d].applied = last
      OBVIOUS
    <2> HIDE DEF last
    <2>3. \A q \in r + 1 .. last : q \in Written' /\ Author(q)' = d
      BY <2>1, AuthorStays DEF OwnSince, FilesKnown
    <2> QED
      BY <2>2, <2>3 DEF OwnSince
  <1>4. Reflects(fmap'[d], FilesAt(r)')
    BY <1>1, <1>2
  <1>5. Reflects(fmap[d], FilesAt(r))'
    BY <1>4 DEF Reflects
  <1> QED
    BY <1>2, <1>3, <1>5 DEF MapBased

LEMMA OpStays ==
    ASSUME FilesKnown, NEW d \in Devices, OpBased(d), st'[d].applied = st[d].applied,
           op'[d] = op[d], fmap'[d] = fmap[d]
    PROVE  OpBased(d)'
  <1>1. op[d].at \in Pulling => op[d].target \in 0 .. HeadRev
    <2>1. op[d].at \in Pulling => op[d].target \in Nat
      BY RecordRevs DEF FilesKnown
    <2>2. op[d].at \in Pulling => op[d].target <= HeadRev
      BY DEF FilesKnown, InPast, DeviceInPast
    <2> QED
      BY <2>1, <2>2, PastStays DEF FilesKnown
  <1>2. (op[d].at \in {"fetched", "rebuilt", "converged"} => st[d].applied <= op[d].target)'
    BY DEF OpBased
  <1>3. (op[d].at \in {"rebuilt", "converged"} => Reflects(fmap[d], FilesAt(op[d].target)))'
    <2> SUFFICES ASSUME op[d].at \in {"rebuilt", "converged"}
                 PROVE  Reflects(fmap[d], FilesAt(op[d].target))'
      OBVIOUS
    <2>1. op[d].target \in 0 .. HeadRev /\ Reflects(fmap[d], FilesAt(op[d].target))
      BY <1>1 DEF Pulling, OpBased
    <2>2. \A r \in 0 .. HeadRev : FilesAt(r)' = FilesAt(r)
      BY PastStays DEF FilesKnown
    <2>3. FilesAt(op[d].target)' = FilesAt(op[d].target)
      <3>1. PICK r \in 0 .. HeadRev : r = op[d].target
        BY <2>1
      <3>2. FilesAt(op[d].target)' = FilesAt(r)'
        BY <3>1 DEF FilesAt
      <3> QED
        BY <2>2, <3>1, <3>2
    <2> QED
      BY <2>1, <2>3 DEF Reflects
  <1>4. ASSUME op'[d].at = "rewriting"
        PROVE  (\E r \in 0 .. HeadRev : op[d].files = FilesAt(r)
                                        /\ OwnSince(d, r, st[d].applied))'
    <2>1. PICK r \in 0 .. HeadRev : op[d].files = FilesAt(r) /\ OwnSince(d, r, st[d].applied)
      BY <1>4 DEF OpBased
    <2>2. r \in 0 .. HeadRev' /\ FilesAt(r)' = FilesAt(r)
      BY PastStays DEF FilesKnown
    <2>3. OwnSince(d, r, st[d].applied)'
      BY <2>1, AuthorStays DEF OwnSince, FilesKnown
    <2> QED
      BY <2>1, <2>2, <2>3
  <1> QED
    BY <1>2, <1>3, <1>4 DEF OpBased

\* A journal that is still worth something keeps it.
LEMMA SubmittedStays ==
    ASSUME FilesKnown, NEW d \in Devices, PlanBased(d), st[d].applied <= HeadRev,
           st'[d].applied = st[d].applied, journal'[d] = journal[d]
    PROVE  /\ journal[d].status = "submitted" =>
                 /\ (journal[d].manifest.base = st[d].applied)'
                 /\ Planned(journal[d].manifest, TRUE)'
           /\ op[d].at \in {"locking", "freezing"} =>
                 /\ (journal[d].manifest.base = st[d].applied)'
                 /\ op[d].at = "locking" =>
                       \A b \in BOOLEAN : op[d].buildable = b => Planned(journal[d].manifest, b)'
                 /\ op[d].at = "freezing" => Planned(journal[d].manifest, TRUE)'
  <1> DEFINE m == journal[d].manifest
  <1>1. ASSUME op[d].at \in {"locking", "freezing"} \/ journal[d].status = "submitted"
        PROVE  /\ m \in Manifest /\ m.base = st[d].applied /\ m.base <= HeadRev
               /\ \A b \in BOOLEAN : Planned(m, b) => Planned(m, b)'
    <2>1. journal[d] # NoJournal
      BY <1>1 DEF NoJournal, FilesKnown, Journaled, HasJournal
    <2>2. m \in Manifest /\ m.base = st[d].applied /\ m.base <= HeadRev
      BY <1>1, <2>1, RecordRevs DEF FilesKnown, PlanBased
    <2>3. (journal[d].manifest)' = m
      OBVIOUS
    <2> HIDE DEF m
    <2>4. ASSUME NEW b \in BOOLEAN, Planned(m, b) PROVE Planned(m, b)'
      <3>1. PICK n \in Manifest : n = m
        BY <2>2
      <3>2. Planned(n, b)'
        BY <2>2, <2>4, <3>1, PlannedStays DEF FilesKnown
      <3>3. m' = n
        BY <2>3, <3>1 DEF m
      <3> QED
        BY <3>2, <3>3
    <2> QED
      BY <2>2, <2>4
  <1>2. /\ op[d].at = "locking" => \A b \in BOOLEAN : op[d].buildable = b => Planned(m, b)
        /\ op[d].at = "freezing" \/ journal[d].status = "submitted" => Planned(m, TRUE)
    BY DEF PlanBased
  <1>3. (journal[d].manifest.base = st[d].applied)' <=> m.base = st[d].applied
    OBVIOUS
  <1> QED
    BY <1>1, <1>2, <1>3

LEMMA FilesUnmoved ==
    ASSUME FilesKnown, NEW d \in Devices, DeviceFiles(d), st'[d].applied = st[d].applied,
           journal'[d] = journal[d], op'[d] = op[d], fmap'[d] = fmap[d]
    PROVE  DeviceFiles(d)'
  <1>1. (st[d].applied <= HeadRev)'
    <2>1. st[d].applied \in Nat
      BY DEF FilesKnown, CTypeOK, VaultState
    <2> QED
      BY <2>1, PastStays DEF FilesKnown, DeviceFiles
  <1>2. MapBased(d)' /\ OpBased(d)'
    BY MapStays, OpStays DEF DeviceFiles
  <1>3. PlanBased(d)'
    <2>1. op[d].at = "locking" => op[d].buildable \in BOOLEAN
      BY StepFields DEF FilesKnown, CTypeOK
    <2>2. op[d].at = "stamped" => journal[d].intent \in Intents
      BY JournalFields DEF FilesKnown, Journaled, HasJournal, CTypeOK
    <2>3. \A i \in Intents : commits[i] # NoCommit => commits'[i] = commits[i]
      BY VaultGrows DEF FilesKnown
    <2>4. op[d].at = "stamped" => commits'[journal[d].intent] = commits[journal[d].intent]
      BY <2>2, <2>3 DEF DeviceFiles, PlanBased
    <2>5. op[d].at = "locking" => Planned(journal[d].manifest, op[d].buildable)'
      <3> SUFFICES ASSUME op[d].at = "locking"
                   PROVE  Planned(journal[d].manifest, op[d].buildable)'
        OBVIOUS
      <3>1. PICK b \in BOOLEAN : op[d].buildable = b
        BY <2>1
      <3>2. Planned(journal[d].manifest, b)'
        BY <3>1, SubmittedStays DEF DeviceFiles
      <3> QED
        BY <3>1, <3>2 DEF Planned, Derives
    <2> QED
      BY <2>4, <2>5, SubmittedStays DEF PlanBased, DeviceFiles
  <1> QED
    BY <1>1, <1>2, <1>3 DEF DeviceFiles

\* A device that goes to a point where it has no file table in memory.
Resting == {"idle", "deleting", "counting", "sending", "waiting", "failed", "marking",
            "committed", "stamping", "acking", "applying"}

LEMMA FilesAtRest ==
    ASSUME FilesKnown, NEW d \in Devices, DeviceFiles(d), st'[d].applied = st[d].applied,
           journal'[d] \in {journal[d], NoJournal}, op'[d].at \in Resting,
           \A files : Reflects(fmap[d], files) => Reflects(fmap'[d], files)
    PROVE  DeviceFiles(d)'
  <1>1. (st[d].applied <= HeadRev)'
    <2>1. st[d].applied \in Nat
      BY DEF FilesKnown, CTypeOK, VaultState
    <2> QED
      BY <2>1, PastStays DEF FilesKnown, DeviceFiles
  <1>2. MapBased(d)'
    BY MapStays DEF DeviceFiles
  <1>3. OpBased(d)'
    BY DEF OpBased, Resting
  <1>4. PlanBased(d)'
    <2>1. CASE journal'[d] = journal[d]
      BY <2>1, SubmittedStays DEF PlanBased, DeviceFiles, Resting
    <2>2. CASE journal'[d] = NoJournal
      <3>1. journal'[d].status # "submitted"
        BY <2>2 DEF NoJournal
      <3>2. op'[d].at \notin {"locking", "freezing", "stamped"}
        BY DEF Resting
      <3> QED
        BY <3>1, <3>2 DEF PlanBased
    <2> QED
      BY <2>1, <2>2
  <1> QED
    BY <1>1, <1>2, <1>3, <1>4 DEF DeviceFiles

\* The other devices are as they were; nothing else is minted.
FilesAlone(d) ==
    /\ \A e \in Devices \ {d} : /\ st'[e] = st[e] /\ journal'[e] = journal[e]
                                /\ op'[e] = op[e] /\ fmap'[e] = fmap[e]
    /\ minted' = minted
    /\ journal'[d] # NoJournal =>
          journal[d] # NoJournal /\ journal'[d].manifest = journal[d].manifest

LEMMA RestFiles ==
    ASSUME FilesKnown, NEW d \in Devices, DeviceFiles(d),
           \/ CountDelete(d) \/ AppendTombstone(d) \/ GiveUp(d) \/ SendCommit(d)
           \/ CleanupFailed(d) \/ MarkStale(d) \/ RecoverLocal(d) \/ RecoverMiss(d)
           \/ RecoverLedger(d) \/ \E heard \in BOOLEAN : Acknowledge(d, heard)
           \/ AckLost(d) \/ ApplyWorkspace(d) \/ Crash(d) \/ ResolveConflicts(d)
           \/ \E stale \in BOOLEAN : AbandonApply(d, stale)
           \/ \E f \in Files : DeleteNote(d, f)
    PROVE  DeviceFiles(d)' /\ FilesAlone(d)
  <1> DEFINE Rest ==
         /\ st'[d].applied = st[d].applied
         /\ journal'[d] \in {journal[d], NoJournal}
         /\ op'[d].at \in Resting
         /\ FilesAlone(d)
  <1>0. LocalTypes /\ op[d] \in Step
    BY DEF FilesKnown, CTypeOK, LocalTypes
  <1> USE <1>0 DEF Set, Goto, Idle, Unlock, rows, At, LocalTypes, VaultState,
                   FilesAlone, Resting
  <1>1. ASSUME CountDelete(d) \/ MarkStale(d) PROVE Rest /\ fmap' = fmap
    BY <1>1 DEF CountDelete, MarkStale
  <1>2. ASSUME GiveUp(d) \/ AckLost(d) \/ Crash(d) PROVE Rest /\ fmap' = fmap
    BY <1>2 DEF GiveUp, AckLost, Crash
  <1>3. ASSUME AppendTombstone(d) \/ SendCommit(d) \/ RecoverLedger(d) PROVE Rest /\ fmap' = fmap
    BY <1>3 DEF AppendTombstone, SendCommit, RecoverLedger
  <1>4. ASSUME CleanupFailed(d) \/ RecoverLocal(d) \/ RecoverMiss(d) PROVE Rest /\ fmap' = fmap
    BY <1>4 DEF CleanupFailed, RecoverLocal, RecoverMiss, Unsettled
  <1>5. ASSUME NEW heard \in BOOLEAN, Acknowledge(d, heard) PROVE Rest /\ fmap' = fmap
    <2>1. op'[d].at \in {"applying", "idle"} /\ UNCHANGED <<st, journal, fmap, minted>>
          /\ \A e \in Devices \ {d} : op'[e] = op[e]
      BY <1>5 DEF Acknowledge, Step
    <2> QED
      BY <2>1
  <1>6. ASSUME ApplyWorkspace(d) PROVE Rest /\ fmap' = fmap
    <2>1. \E row : row.applied = st[d].applied /\ st' = [st EXCEPT ![d] = row]
      BY <1>6 DEF ApplyWorkspace
    <2>2. Goto(d, Idle) /\ UNCHANGED <<journal, fmap, minted>>
      BY <1>6 DEF ApplyWorkspace
    <2> QED
      BY <2>1, <2>2
  <1>7. ASSUME NEW stale \in BOOLEAN, AbandonApply(d, stale) PROVE Rest /\ fmap' = fmap
    BY <1>7 DEF AbandonApply
  <1>8. ASSUME ResolveConflicts(d) PROVE Rest /\ fmap' = fmap
    BY <1>8 DEF ResolveConflicts
  <1>9. ASSUME NEW f \in Files, DeleteNote(d, f)
        PROVE  Rest /\ \A files : Reflects(fmap[d], files) => Reflects(fmap'[d], files)
    <2>1. Rest /\ fmap' = [fmap EXCEPT ![d][f] = Deleted]
      BY <1>9 DEF DeleteNote
    <2>2. fmap[d] \in FileMap /\ fmap'[d] = [fmap[d] EXCEPT ![f] = Deleted]
      BY <2>1
    <2>3. \A g \in Files : fmap'[d][g] = IF g = f THEN Deleted ELSE fmap[d][g]
      BY <2>2 DEF FileMap
    <2> QED
      BY <2>1, <2>3, DeletedIsNoBlob DEF Reflects
  <1> HIDE <1>0 DEF Set, Goto, Idle, Unlock, rows, At, LocalTypes, VaultState,
                    FilesAlone, Resting
  <1> HIDE DEF Rest
  <1>10. Rest /\ \A files : Reflects(fmap[d], files) => Reflects(fmap'[d], files)
    BY <1>1, <1>2, <1>3, <1>4, <1>5, <1>6, <1>7, <1>8, <1>9
  <1>11. DeviceFiles(d)'
    BY <1>10, FilesAtRest DEF Rest
  <1> QED
    BY <1>10, <1>11 DEF Rest

-----------------------------------------------------------------------------
(* A plan comes from the filemap                                           *)

Minted == \A r \in 1 .. HeadRev : Mint(history[r].files)

LEMMA NewIdsFresh ==
    ASSUME NEW d \in Devices, \A p \in Untracked(d) : Fresh(p) # {}
    PROVE  \A f \in NewIds(d) : f \in Files \ minted /\ PathOf[f] \in Untracked(d)
  <1>1. \A p \in Untracked(d) : (CHOOSE f \in Fresh(p) : TRUE) \in Fresh(p)
    OBVIOUS
  <1> QED
    BY <1>1 DEF NewIds, Fresh

\* What the plan lists the filemap listed, or it is new; what the filemap listed and
\* the plan does not has a record.
LEMMA PlanFiles ==
    ASSUME CTypeOK, NEW d \in Devices, NEW f \in Files,
           Live(fmap[d]) \subseteq minted, \A p \in Untracked(d) : Fresh(p) # {}
    PROVE  /\ PlanManifest(d).files[f] # Absent => fmap[d][f] \in Blobs \/ f \in NewIds(d)
           /\ PlanManifest(d).files[f] = Absent =>
                 \/ fmap[d][f] = Absent
                 \/ Buildable(d) => \E t \in PlanManifest(d).tombs : t.file = f
  <1>1. /\ PlanManifest(d).files[f] =
              IF PlanDocument(d)[f] \in Blobs THEN PlanDocument(d)[f] ELSE Absent
        /\ PlanManifest(d).tombs = Shared(PlanTombstones(d))
    BY DEF PlanManifest
  <1>a. ASSUME NEW t \in PlanTombstones(d), t.file = f
        PROVE  \E u \in Shared(PlanTombstones(d)) : u.file = f
    <2>1. [file |-> t.file, rev |-> t.rev, at |-> t.at] \in Shared(PlanTombstones(d))
      BY DEF Shared
    <2> QED
      BY <1>a, <2>1
  <1>2. CASE f \in Missing(d)
    <2>0. f \notin NewIds(d)
      BY <1>2, NewIdsFresh DEF Missing
    <2>1. PlanDocument(d)[f] = Deleted /\ Deleted \notin Blobs
      BY <1>2, <2>0, DeletedIsNoBlob DEF PlanDocument
    <2>2. [file |-> f, rev |-> 0, at |-> now,
           seq |-> st[d].seq + Cardinality(Missing(d))] \in PlanTombstones(d)
      BY <1>2 DEF PlanTombstones
    <2>3. \E t \in Shared(PlanTombstones(d)) : t.file = f
      BY <1>a, <2>2
    <2> QED
      BY <1>1, <2>1, <2>3
  <1>3. CASE f \in Live(fmap[d]) \ Missing(d)
    <2>1. fmap[d][f] \in Blobs
      BY <1>3 DEF Live
    <2>2. PlanDocument(d)[f] = disk[d][PathOf[f]]
      BY <1>3 DEF PlanDocument
    <2>3. disk[d][PathOf[f]] \in Blobs
      BY <1>3, PathsOfFiles DEF Missing, CTypeOK
    <2> QED
      BY <1>1, <2>1, <2>2, <2>3, AbsentIsNoBlob
  <1>4. CASE f \notin Live(fmap[d]) /\ f \in NewIds(d)
    <2>1. PlanDocument(d)[f] = disk[d][PathOf[f]]
      BY <1>4 DEF PlanDocument, Missing
    <2>2. fmap[d][f] \in {Absent, Deleted}
      BY <1>4 DEF Live, CTypeOK, FileMap
    <2>3. CASE disk[d][PathOf[f]] \in Blobs
      BY <1>1, <1>4, <2>1, <2>3, AbsentIsNoBlob
    <2>4. CASE disk[d][PathOf[f]] = Absent
      <3>1. PathOf[f] \in Untracked(d)
        BY <1>4, NewIdsFresh
      <3> QED
        BY <2>4, <3>1 DEF Untracked
    <2> QED
      BY <2>3, <2>4, PathsOfFiles DEF CTypeOK
  <1>5. CASE f \notin Live(fmap[d]) /\ f \notin NewIds(d)
    <2>1. PlanDocument(d)[f] = fmap[d][f]
      BY <1>5 DEF PlanDocument, Missing
    <2>2. fmap[d][f] \in {Absent, Deleted}
      BY <1>5 DEF Live, CTypeOK, FileMap
    <2>3. CASE fmap[d][f] = Absent
      BY <1>1, <2>1, <2>3, AbsentIsNoBlob
    <2>4. CASE fmap[d][f] = Deleted
      <3>1. Buildable(d) => \E t \in PlanTombstones(d) : t.file = f
        BY <2>1, <2>4 DEF Buildable
      <3> QED
        BY <1>1, <1>a, <2>1, <2>4, <3>1, DeletedIsNoBlob
    <2> QED
      BY <2>2, <2>3, <2>4
  <1> QED
    BY <1>2, <1>3, <1>4, <1>5 DEF Missing

LEMMA PlanDerives ==
    ASSUME CTypeOK, Minted, NEW d \in Devices, MapBased(d),
           \A p \in Untracked(d) : Fresh(p) # {}
    PROVE  /\ Planned(PlanManifest(d), Buildable(d))
           /\ \A f \in Files : PlanManifest(d).files[f] # Absent => f \in minted \cup NewIds(d)
  <1>1. PICK r \in 0 .. HeadRev :
           Reflects(fmap[d], FilesAt(r)) /\ OwnSince(d, r, st[d].applied)
    BY DEF MapBased
  <1>2. PlanManifest(d).device = d /\ PlanManifest(d).base = st[d].applied
    BY DEF PlanManifest
  <1>3. \A f \in Files : f \notin minted => Unlisted(f)
    BY DEF Minted, Mint, Unlisted, FilesAt
  <1>a. \A f \in Files : FilesAt(r)[f] # Absent => f \in minted
    <2>1. CASE r = 0
      BY <2>1 DEF FilesAt
    <2>2. CASE r # 0
      BY <2>2 DEF FilesAt, Minted, Mint
    <2> QED
      BY <2>1, <2>2
  <1>b. Live(fmap[d]) \subseteq minted
    BY <1>1, <1>a DEF Live, Reflects
  <1>4. ASSUME NEW f \in Files
        PROVE /\ PlanManifest(d).files[f] # Absent => FilesAt(r)[f] # Absent \/ Unlisted(f)
              /\ PlanManifest(d).files[f] = Absent /\ FilesAt(r)[f] # Absent /\ Buildable(d)
                    => \E t \in PlanManifest(d).tombs : t.file = f
              /\ PlanManifest(d).files[f] # Absent => f \in minted \cup NewIds(d)
    <2>1. f \in NewIds(d) => Unlisted(f)
      BY <1>3, NewIdsFresh
    <2>2. fmap[d][f] \in Blobs => FilesAt(r)[f] # Absent
      BY <1>1 DEF Reflects
    <2>3. fmap[d][f] = Absent => FilesAt(r)[f] = Absent
      BY <1>1 DEF Reflects
    <2> QED
      BY <1>a, <1>b, <2>1, <2>2, <2>3, PlanFiles
  <1>5. Derives(PlanManifest(d), Buildable(d), r)
    BY <1>1, <1>2, <1>4 DEF Derives
  <1> QED
    BY <1>4, <1>5 DEF Planned

-----------------------------------------------------------------------------
(* What a step does to the device that takes it                            *)

\* The other devices are as they were; what a new plan lists is minted.
FilesMove(d) ==
    /\ \A e \in Devices \ {d} : /\ st'[e] = st[e] /\ journal'[e] = journal[e]
                                /\ op'[e] = op[e] /\ fmap'[e] = fmap[e]
    /\ minted \subseteq minted'
    /\ journal'[d] # NoJournal =>
          \/ journal[d] # NoJournal /\ journal'[d].manifest = journal[d].manifest
          \/ \A f \in Files : journal'[d].manifest.files[f] # Absent => f \in minted'

\* With the backend as it was, so are the revisions.
LEMMA SameRevisions ==
    ASSUME UNCHANGED store
    PROVE  /\ HeadRev' = HeadRev /\ commits' = commits /\ TombsAt(HeadRev)' = TombsAt(HeadRev)
           /\ \A r : FilesAt(r)' = FilesAt(r)
           /\ \A f : Unlisted(f)' <=> Unlisted(f)
           /\ \A d, r, last : OwnSince(d, r, last)' <=> OwnSince(d, r, last)
           /\ \A m, b : Planned(m, b)' <=> Planned(m, b)
  <1>1. history' = history /\ commits' = commits
    BY DEF store, vault
  <1>2. HeadRev' = HeadRev
    BY <1>1 DEF HeadRev
  <1>3. \A r : FilesAt(r)' = FilesAt(r)
    BY <1>1 DEF FilesAt
  <1>4. \A f : Unlisted(f)' <=> Unlisted(f)
    BY <1>2, <1>3 DEF Unlisted
  <1>5. \A d, r, last : OwnSince(d, r, last)' <=> OwnSince(d, r, last)
    BY <1>1, <1>2 DEF OwnSince, Written, Author
  <1>6. \A m, b, r : Derives(m, b, r)' <=> Derives(m, b, r)
    BY <1>3, <1>4, <1>5 DEF Derives
  <1>7. \A m, b : Planned(m, b)' <=> Planned(m, b)
    BY <1>2, <1>6 DEF Planned
  <1> QED
    BY <1>1, <1>2, <1>3, <1>4, <1>5, <1>7 DEF TombsAt

LEMMA CommitFilesStep ==
    ASSUME CommitInv, FilesKnown, Minted, NEW d \in Devices, DeviceFiles(d),
           \/ \E i \in Intents : PrepareCommit(d, i)
           \/ LockCommit(d) \/ FreezeCommit(d)
    PROVE  DeviceFiles(d)' /\ FilesMove(d)
  <1>0. /\ LocalTypes /\ CTypeOK /\ op[d] \in Step /\ journal[d] \in Journal
        /\ UNCHANGED <<store, fmap>>
    BY DEF FilesKnown, CTypeOK, LocalTypes, PrepareCommit, LockCommit, FreezeCommit
  <1>1. ASSUME NEW i \in Intents, PrepareCommit(d, i) PROVE DeviceFiles(d)' /\ FilesMove(d)
    <2>1. /\ st' = st /\ op'[d].at = "locking" /\ op'[d].buildable = Buildable(d)
          /\ journal'[d].manifest = PlanManifest(d) /\ journal'[d].status = "prepared"
          /\ minted' = minted \cup {i} \cup NewIds(d)
          /\ \A e \in Devices \ {d} : journal'[e] = journal[e] /\ op'[e] = op[e]
          /\ \A p \in Untracked(d) : Fresh(p) # {}
      BY <1>0, <1>1 DEF PrepareCommit, Goto, LocalTypes
    <2>2. /\ Planned(PlanManifest(d), Buildable(d))
          /\ \A f \in Files : PlanManifest(d).files[f] # Absent => f \in minted \cup NewIds(d)
      BY <1>0, <2>1, PlanDerives DEF DeviceFiles
    <2>3. (Planned(journal[d].manifest, op[d].buildable))'
      <3>1. PICK m, b : m = PlanManifest(d) /\ b = Buildable(d)
        OBVIOUS
      <3>2. Planned(m, b)'
        BY <1>0, <2>2, <3>1, SameRevisions
      <3>3. journal'[d].manifest = m /\ op'[d].buildable = b
        BY <2>1, <3>1
      <3> QED
        BY <3>2, <3>3 DEF Planned, Derives
    <2>4. PlanBased(d)'
      <3>1. PlanManifest(d).base = st[d].applied
        BY DEF PlanManifest
      <3> QED
        BY <2>1, <2>3, <3>1 DEF PlanBased
    <2>5. MapBased(d)'
      BY <1>0, <2>1, MapStays DEF DeviceFiles
    <2>6. OpBased(d)' /\ (st[d].applied <= HeadRev)'
      BY <1>0, <2>1, SameRevisions DEF OpBased, DeviceFiles
    <2> QED
      BY <1>0, <2>1, <2>2, <2>4, <2>5, <2>6 DEF DeviceFiles, FilesMove
  <1>2. CASE LockCommit(d)
    <2>0. st' = [st EXCEPT ![d] = [st[d] EXCEPT !.busy = TRUE, !.seq = op[d].row.seq]]
      BY <1>2, InTurn
    <2>1. /\ st'[d].applied = st[d].applied /\ journal' = journal /\ op[d].at = "locking"
          /\ op'[d] = IF op[d].buildable THEN [at |-> "freezing"] ELSE Idle
          /\ \A e \in Devices \ {d} : st'[e] = st[e] /\ op'[e] = op[e]
          /\ minted' = minted
      <3>1. /\ st'[d].applied = st[d].applied
            /\ \A e \in Devices \ {d} : st'[e] = st[e]
        BY <1>0, <2>0 DEF LocalTypes, VaultState
      <3> QED
        BY <1>0, <1>2, <3>1 DEF LockCommit, Goto, At, LocalTypes
    <2>2. MapBased(d)'
      BY <1>0, <2>1, MapStays DEF DeviceFiles
    <2>3. OpBased(d)' /\ (st[d].applied <= HeadRev)'
      BY <1>0, <2>1, SameRevisions DEF OpBased, Idle, DeviceFiles
    <2>4. op[d].buildable => op[d].buildable = TRUE
      BY <1>0, <2>1, StepFields
    <2>5. PlanBased(d)'
      <3>1. CASE op[d].buildable
        <4>1. op'[d].at = "freezing" /\ op[d].buildable = TRUE
          BY <2>1, <2>4, <3>1
        <4> QED
          BY <1>0, <2>1, <4>1, SameRevisions DEF PlanBased, DeviceFiles
      <3>2. CASE ~ op[d].buildable
        <4>1. op'[d].at = "idle"
          BY <2>1, <3>2 DEF Idle
        <4> QED
          BY <1>0, <2>1, <4>1, SameRevisions DEF PlanBased, DeviceFiles
      <3> QED
        BY <3>1, <3>2
    <2> QED
      BY <1>0, <2>1, <2>2, <2>3, <2>5 DEF DeviceFiles, FilesMove
  <1>3. CASE FreezeCommit(d)
    <2>1. /\ st' = st /\ op[d].at = "freezing" /\ op'[d].at = "sending" /\ minted' = minted
          /\ journal[d] # NoJournal
          /\ journal' = [journal EXCEPT ![d].status = "submitted"]
          /\ \A e \in Devices \ {d} : op'[e] = op[e] /\ journal'[e] = journal[e]
      BY <1>0, <1>3 DEF FreezeCommit, Goto, At, LocalTypes, FilesKnown, Journaled, HasJournal
    <2>2. journal'[d].manifest = journal[d].manifest
      BY <1>0, <2>1, JournalFields DEF LocalTypes
    <2>3. MapBased(d)'
      BY <1>0, <2>1, MapStays DEF DeviceFiles
    <2>4. OpBased(d)' /\ (st[d].applied <= HeadRev)'
      BY <1>0, <2>1, SameRevisions DEF OpBased, DeviceFiles
    <2>5. PlanBased(d)'
      BY <1>0, <2>1, <2>2, SameRevisions DEF PlanBased, DeviceFiles
    <2> QED
      BY <1>0, <2>1, <2>2, <2>3, <2>4, <2>5 DEF DeviceFiles, FilesMove
  <1> QED
    BY <1>1, <1>2, <1>3

LEMMA AnswerFiles ==
    ASSUME FilesKnown, NEW c \in commitCalls, NEW d \in Devices, d = c.manifest.device,
           DeviceFiles(d), RunCommit(c)
    PROVE  DeviceFiles(d)' /\ FilesMove(d)
  <1>1. /\ UNCHANGED <<st, journal, fmap, minted>>
        /\ \/ op' = op
           \/ op' = [op EXCEPT ![d] = Answer(c)]
    BY DEF RunCommit, rows
  <1>2. FilesMove(d)
    BY <1>1 DEF FilesMove, FilesKnown, CTypeOK
  <1>3. CASE op' = op
    <2>1. /\ st'[d].applied = st[d].applied /\ journal'[d] = journal[d]
          /\ op'[d] = op[d] /\ fmap'[d] = fmap[d]
      BY <1>1, <1>3
    <2>2. DeviceFiles(d)'
      BY <2>1, FilesUnmoved
    <2> QED
      BY <1>2, <2>2
  <1>4. CASE op' = [op EXCEPT ![d] = Answer(c)]
    <2>1. op'[d] = Answer(c)
      BY <1>4 DEF FilesKnown, CTypeOK
    <2>2. Answer(c).at \in {"committed", "failed"}
      BY DEF Answer
    <2>3. op'[d].at \in Resting
      BY <2>1, <2>2 DEF Resting
    <2>4. /\ st'[d].applied = st[d].applied /\ journal'[d] \in {journal[d], NoJournal}
          /\ \A files : Reflects(fmap[d], files) => Reflects(fmap'[d], files)
      BY <1>1
    <2>5. DeviceFiles(d)'
      BY <2>3, <2>4, FilesAtRest
    <2> QED
      BY <1>2, <2>5
  <1> QED
    BY <1>1, <1>2, <1>3, <1>4

LEMMA RebuildReflects ==
    ASSUME NEW files \in FileTable, NEW tombs
    PROVE  Reflects(Rebuild(files, tombs), files)
  <1>1. ASSUME NEW f \in Files, files[f] # Absent PROVE Rebuild(files, tombs)[f] \in Blobs
    BY <1>1 DEF Rebuild, FileTable
  <1>2. ASSUME NEW f \in Files, files[f] = Absent
        PROVE  Rebuild(files, tombs)[f] \in {Deleted, Absent}
    BY <1>2 DEF Rebuild
  <1> QED
    BY <1>1, <1>2, AbsentIsNoBlob, DeletedIsNoBlob DEF Reflects

\* A device that has sent its commit has applied that, too.
LEMMA OwnCommit ==
    ASSUME FilesKnown, NEW d \in Devices, DeviceFiles(d), DeviceCaughtUp(d),
           journal[d].status = "submitted", commits[journal[d].intent] # NoCommit,
           commits[journal[d].intent].hash = journal[d].manifest
    PROVE  LET rev == commits[journal[d].intent].rev
           IN  /\ rev = st[d].applied + 1 /\ rev <= HeadRev /\ rev \in 1 .. HeadRev
               /\ FilesAt(rev) = journal[d].manifest.files
               /\ \E r \in 0 .. HeadRev : Reflects(fmap[d], FilesAt(r)) /\ OwnSince(d, r, rev)
  <1>1. journal[d] # NoJournal
    BY DEF NoJournal
  <1>2. /\ journal[d].intent \in Intents /\ journal[d].manifest.device = d
        /\ journal[d].manifest.base = st[d].applied /\ st[d].applied \in Nat
    BY <1>1, JournalFields, RecordRevs DEF FilesKnown, CTypeOK, DeviceCaughtUp, DeviceFiles,
                                           PlanBased
  <1>3. PICK r \in 0 .. HeadRev :
           Reflects(fmap[d], FilesAt(r)) /\ OwnSince(d, r, st[d].applied)
    BY DEF DeviceFiles, MapBased
  <1>4. r \in Nat
    OBVIOUS
  <1>5. PICK i \in Intents : i = journal[d].intent
    BY <1>2
  <1>6. PICK last \in Nat : last = st[d].applied
    BY <1>2
  <1>7. /\ commits[i].rev = last + 1 /\ last + 1 \in Written
        /\ FilesAt(last + 1) = commits[i].hash.files
        /\ OwnSince(commits[i].hash.device, r, last + 1)
    BY <1>2, <1>3, <1>4, <1>5, <1>6, OwnGrows DEF FilesKnown
  <1>8. last + 1 \in 1 .. HeadRev /\ last + 1 <= HeadRev
    BY <1>7 DEF Written
  <1> QED
    BY <1>2, <1>3, <1>5, <1>6, <1>7, <1>8

LEMMA FinishFiles ==
    ASSUME FilesKnown, NEW d \in Devices, DeviceFiles(d), DeviceCaughtUp(d),
           DeviceOrdered(d), Settled(d),
           FinalizeLedger(d) \/ FinalizeState(d) \/ FinalizeFilemap(d) \/ RecoverMatch(d)
    PROVE  DeviceFiles(d)' /\ FilesMove(d)
  <1>0. /\ LocalTypes /\ CTypeOK /\ op[d] \in Step /\ HasJournal(d) /\ journal[d] \in Journal
        /\ UNCHANGED <<store, minted>>
        /\ st[d].applied \in Nat /\ HeadRev \in Nat
    BY DEF FilesKnown, CTypeOK, LocalTypes, Journaled, FinalizeLedger, FinalizeState,
           FinalizeFilemap, RecoverMatch, VaultState, TypeOK, HeadRev
  <1>1. CASE FinalizeLedger(d)
    <2>1. /\ UNCHANGED <<st, journal, fmap>> /\ op[d].at = "committed"
          /\ op'[d] = [at |-> "stamped", rev |-> op[d].rev, tombs |-> ledger'[d]]
          /\ \A e \in Devices \ {d} : op'[e] = op[e]
      BY <1>0, <1>1 DEF FinalizeLedger, Goto, At, rows, LocalTypes
    <2>2. op'[d].at = "stamped" /\ op'[d].rev = op[d].rev
      BY <2>1
    <2>3. MapBased(d)'
      BY <1>0, <2>1, MapStays DEF DeviceFiles
    <2>4. OpBased(d)' /\ (st[d].applied <= HeadRev)'
      BY <1>0, <2>1, <2>2, SameRevisions DEF OpBased, DeviceFiles
    <2>5. PlanBased(d)'
      BY <1>0, <2>1, <2>2, SameRevisions DEF PlanBased, DeviceFiles, Settled
    <2> QED
      BY <1>0, <2>1, <2>3, <2>4, <2>5 DEF DeviceFiles, FilesMove
  <1>2. CASE FinalizeState(d)
    <2>1. /\ fmap' = fmap /\ op[d].at = "stamped" /\ journal[d] # NoJournal
          /\ journal'[d] = NoJournal /\ st'[d] = Applied(st[d], op[d].rev)
          /\ op'[d] = [at |-> "rewriting", files |-> journal[d].manifest.files,
                       tombs |-> op[d].tombs]
          /\ \A e \in Devices \ {d} : op'[e] = op[e] /\ st'[e] = st[e]
                                      /\ journal'[e] = journal[e]
      BY <1>0, <1>2 DEF FinalizeState, Goto, At, Set, HasJournal, LocalTypes
    <2>2. /\ op'[d].at = "rewriting" /\ op'[d].files = journal[d].manifest.files
          /\ journal'[d].status # "submitted"
      BY <2>1 DEF NoJournal
    <2>3. /\ journal[d].status = "submitted" /\ commits[journal[d].intent] # NoCommit
          /\ commits[journal[d].intent].hash = journal[d].manifest
          /\ commits[journal[d].intent].rev = op[d].rev
      BY <2>1 DEF DeviceOrdered, DeviceFiles, PlanBased
    <2>4. PICK rev \in 1 .. HeadRev : rev = op[d].rev
      BY <2>3, OwnCommit
    <2>5. /\ rev = st[d].applied + 1 /\ FilesAt(rev) = op'[d].files
          /\ \E r \in 0 .. HeadRev : Reflects(fmap[d], FilesAt(r)) /\ OwnSince(d, r, rev)
      BY <2>2, <2>3, <2>4, OwnCommit
    <2>6. st'[d].applied = rev
      BY <1>0, <2>1, <2>4, <2>5 DEF Applied, LocalTypes, VaultState
    <2>7. MapBased(d)'
      BY <1>0, <2>1, <2>5, <2>6, SameRevisions DEF MapBased
    <2>8. OwnSince(d, rev, rev)
      BY DEF OwnSince
    <2>9. rev \in 0 .. HeadRev
      OBVIOUS
    <2>10. OpBased(d)'
      BY <1>0, <2>2, <2>5, <2>6, <2>8, <2>9, SameRevisions DEF OpBased
    <2>11. PlanBased(d)'
      BY <2>2 DEF PlanBased
    <2>12. (st[d].applied <= HeadRev)'
      <3>1. rev <= HeadRev
        OBVIOUS
      <3>2. HeadRev' = HeadRev
        BY <1>0, SameRevisions
      <3> QED
        BY <2>6, <3>1, <3>2
    <2> QED
      BY <1>0, <2>1, <2>7, <2>10, <2>11, <2>12 DEF DeviceFiles, FilesMove
  <1>3. CASE FinalizeFilemap(d)
    <2>1. /\ UNCHANGED <<st, journal>> /\ op[d].at = "rewriting"
          /\ op'[d] = Idle /\ fmap'[d] = Rebuild(op[d].files, op[d].tombs)
          /\ \A e \in Devices \ {d} : op'[e] = op[e] /\ fmap'[e] = fmap[e]
      BY <1>0, <1>3 DEF FinalizeFilemap, Goto, At, rows, LocalTypes
    <2>2. op'[d].at = "idle"
      BY <2>1 DEF Idle
    <2>3. op[d].files \in FileTable
      BY <1>0, <2>1, StepFields
    <2>4. PICK r \in 0 .. HeadRev : op[d].files = FilesAt(r) /\ OwnSince(d, r, st[d].applied)
      BY <2>1 DEF DeviceFiles, OpBased
    <2>5. Reflects(fmap'[d], FilesAt(r))
      BY <2>1, <2>3, <2>4, RebuildReflects
    <2>6. MapBased(d)'
      BY <1>0, <2>1, <2>4, <2>5, SameRevisions DEF MapBased
    <2>7. OpBased(d)' /\ (st[d].applied <= HeadRev)'
      BY <1>0, <2>1, <2>2, SameRevisions DEF OpBased, DeviceFiles
    <2>8. PlanBased(d)'
      BY <1>0, <2>1, <2>2, SameRevisions DEF PlanBased, DeviceFiles
    <2> QED
      BY <1>0, <2>1, <2>6, <2>7, <2>8 DEF DeviceFiles, FilesMove
  <1>4. CASE RecoverMatch(d)
    <2>1. /\ fmap' = fmap /\ op[d].at = "idle" /\ journal[d].status = "submitted"
          /\ journal'[d] = NoJournal /\ Found(d)
          /\ st'[d] = Applied(st[d], commits[journal[d].intent].rev)
          /\ op'[d].at = "stamping"
          /\ \A e \in Devices \ {d} : op'[e] = op[e] /\ st'[e] = st[e]
                                      /\ journal'[e] = journal[e]
      BY <1>0, <1>4 DEF RecoverMatch, Unsettled, Goto, At, Set, LocalTypes
    <2>2. FilesMove(d)
      BY <1>0, <2>1 DEF FilesMove
    <2>3. ASSUME commits[journal[d].intent] = NoCommit PROVE DeviceFiles(d)'
      <3>1. st'[d].applied = st[d].applied
        BY <1>0, <2>1, <2>3 DEF NoCommit, Applied, LocalTypes, VaultState
      <3> QED
        BY <2>1, <3>1, FilesAtRest DEF Resting
    <2>4. ASSUME commits[journal[d].intent] # NoCommit PROVE DeviceFiles(d)'
      <3>1. PICK rev \in 1 .. HeadRev : rev = commits[journal[d].intent].rev
        BY <2>1, <2>4, OwnCommit DEF Found
      <3>2. /\ rev = st[d].applied + 1
            /\ \E r \in 0 .. HeadRev : Reflects(fmap[d], FilesAt(r)) /\ OwnSince(d, r, rev)
        BY <2>1, <2>4, <3>1, OwnCommit DEF Found
      <3>3. st'[d].applied = rev
        BY <1>0, <2>1, <3>1, <3>2 DEF Applied, LocalTypes, VaultState
      <3>4. MapBased(d)'
        BY <1>0, <2>1, <3>2, <3>3, SameRevisions DEF MapBased
      <3>5. journal'[d].status # "submitted"
        BY <2>1 DEF NoJournal
      <3>6. op'[d].at = "stamping"
        BY <2>1
      <3>7. OpBased(d)'
        BY <3>6 DEF OpBased
      <3>8. PlanBased(d)'
        BY <3>5, <3>6 DEF PlanBased
      <3>9. rev <= HeadRev /\ HeadRev' = HeadRev
        BY <1>0, SameRevisions
      <3>10. (st[d].applied <= HeadRev)'
        BY <3>3, <3>9
      <3> QED
        BY <3>4, <3>7, <3>8, <3>10 DEF DeviceFiles
    <2> QED
      BY <2>2, <2>3, <2>4
  <1> QED
    BY <1>1, <1>2, <1>3, <1>4

LEMMA PullFiles ==
    ASSUME FilesKnown, NEW d \in Devices, DeviceFiles(d), DeviceOrdered(d),
           Fetch(d) \/ PullFilemap(d) \/ PullLedger(d) \/ PullState(d)
    PROVE  DeviceFiles(d)' /\ FilesMove(d)
  <1>0. /\ LocalTypes /\ CTypeOK /\ TypeOK /\ op[d] \in Step /\ UNCHANGED <<store, minted>>
        /\ journal' = journal /\ st[d].applied \in Nat /\ HeadRev \in Nat
    BY RecordRevs DEF FilesKnown, CTypeOK, LocalTypes, Fetch, PullFilemap, PullLedger,
                      PullState, rows, TypeOK, HeadRev
  <1>a. op[d].at \in Pulling => op[d].target \in 0 .. HeadRev
    BY <1>0, RecordRevs DEF FilesKnown, InPast, DeviceInPast
  <1>b. HeadRev' = HeadRev
    BY <1>0, SameRevisions
  <1>c. ASSUME st'[d].applied = st[d].applied,
               op'[d].at \notin {"locking", "freezing", "stamped"}
        PROVE  PlanBased(d)' /\ (st[d].applied <= HeadRev)'
    <2>1. journal[d].status = "submitted" =>
             /\ journal[d].manifest.base = st[d].applied
             /\ Planned(journal[d].manifest, TRUE)
      BY DEF DeviceFiles, PlanBased
    <2>2. journal[d].status = "submitted" => Planned(journal[d].manifest, TRUE)'
      BY <1>0, <2>1, SameRevisions
    <2> QED
      BY <1>0, <1>b, <1>c, <2>1, <2>2 DEF DeviceFiles, PlanBased
  <1>1. CASE Fetch(d)
    <2>1. /\ UNCHANGED <<st, fmap>>
          /\ op'[d].at = "fetched" /\ op'[d].target = HeadRev
          /\ \A e \in Devices \ {d} : op'[e] = op[e]
      BY <1>0, <1>1 DEF Fetch, Goto, rows, LocalTypes
    <2>2. MapBased(d)'
      BY <1>0, <2>1, MapStays DEF DeviceFiles
    <2>3. OpBased(d)'
      BY <2>1 DEF OpBased, DeviceFiles
    <2> QED
      BY <1>0, <1>c, <2>1, <2>2, <2>3 DEF DeviceFiles, FilesMove
  <1>2. CASE PullFilemap(d)
    <2>1. /\ st' = st /\ op[d].at = "fetched"
          /\ fmap'[d] = Rebuild(FilesAt(op[d].target), op[d].tombs)
          /\ op'[d] = [op[d] EXCEPT !.at = "rebuilt"]
          /\ \A e \in Devices \ {d} : op'[e] = op[e] /\ fmap'[e] = fmap[e]
      BY <1>0, <1>2 DEF PullFilemap, Goto, At, rows, LocalTypes
    <2>2. op'[d].at = "rebuilt" /\ op'[d].target = op[d].target
      BY <1>0, <2>1 DEF Step
    <2>3. PICK r \in 0 .. HeadRev : r = op[d].target
      BY <1>a, <2>1 DEF Pulling
    <2>4. FilesAt(r) \in FileTable
      BY <1>0, AtTypes
    <2>5. Reflects(fmap'[d], FilesAt(r)) /\ FilesAt(r)' = FilesAt(r)
      BY <1>0, <2>1, <2>3, <2>4, RebuildReflects, SameRevisions
    <2>6. st[d].applied <= r
      BY <2>1, <2>3 DEF DeviceFiles, OpBased
    <2>7. OwnSince(d, r, st[d].applied)'
      BY <1>0, <2>1, <2>6 DEF OwnSince
    <2>8. MapBased(d)'
      BY <1>b, <2>3, <2>5, <2>7 DEF MapBased, Reflects
    <2>9. OpBased(d)'
      BY <2>1, <2>2, <2>3, <2>5, <2>6 DEF OpBased, Reflects, FilesAt
    <2> QED
      BY <1>0, <1>c, <2>1, <2>2, <2>8, <2>9 DEF DeviceFiles, FilesMove
  <1>3. CASE PullLedger(d)
    <2>1. /\ UNCHANGED <<st, fmap>> /\ op[d].at = "rebuilt"
          /\ op'[d].at = "converged" /\ op'[d].target = op[d].target
          /\ \A e \in Devices \ {d} : op'[e] = op[e]
      BY <1>0, <1>3 DEF PullLedger, Goto, At, rows, LocalTypes
    <2>2. MapBased(d)'
      BY <1>0, <2>1, MapStays DEF DeviceFiles
    <2>3. PICK r \in 0 .. HeadRev : r = op[d].target
      BY <1>a, <2>1 DEF Pulling
    <2>4. FilesAt(r)' = FilesAt(r)
      BY <1>0, SameRevisions
    <2>5. OpBased(d)'
      BY <2>1, <2>3, <2>4 DEF OpBased, DeviceFiles, Reflects, FilesAt
    <2> QED
      BY <1>0, <1>c, <2>1, <2>2, <2>5 DEF DeviceFiles, FilesMove
  <1>4. CASE PullState(d)
    <2>1. /\ fmap' = fmap /\ op[d].at = "converged"
          /\ op'[d] = [op[d] EXCEPT !.at = "acking"]
          /\ st'[d] = [st[d] EXCEPT !.applied = IF op[d].target > @ THEN op[d].target ELSE @,
                                    !.pulled = op[d].target, !.valid = TRUE]
          /\ \A e \in Devices \ {d} : op'[e] = op[e] /\ st'[e] = st[e]
      BY <1>0, <1>4 DEF PullState, Goto, Set, At, LocalTypes
    <2>2. op'[d].at = "acking"
      BY <1>0, <2>1 DEF Step
    <2>3. PICK r \in 0 .. HeadRev : r = op[d].target
      BY <1>a, <2>1 DEF Pulling
    <2>4. st[d].applied <= r /\ Reflects(fmap[d], FilesAt(r))
      BY <2>1, <2>3 DEF DeviceFiles, OpBased
    <2>5. st'[d].applied = r
      <3>1. st[d] \in VaultState
        BY <1>0 DEF LocalTypes
      <3>2. st'[d].applied = IF r > st[d].applied THEN r ELSE st[d].applied
        BY <2>1, <2>3, <3>1 DEF VaultState
      <3> QED
        BY <1>0, <2>4, <3>2
    <2>6. OwnSince(d, r, st[d].applied)'
      BY <2>5 DEF OwnSince
    <2>7. FilesAt(r)' = FilesAt(r)
      BY <1>0, SameRevisions
    <2>8. MapBased(d)'
      BY <1>b, <2>1, <2>4, <2>6, <2>7 DEF MapBased, Reflects
    <2>9. journal[d].status # "submitted"
      BY <2>1 DEF DeviceOrdered
    <2>10. OpBased(d)' /\ PlanBased(d)'
      BY <1>0, <2>2, <2>9 DEF OpBased, PlanBased
    <2>11. (st[d].applied <= HeadRev)'
      BY <1>b, <2>5
    <2> QED
      BY <1>0, <2>1, <2>8, <2>10, <2>11 DEF DeviceFiles, FilesMove
  <1> QED
    BY <1>1, <1>2, <1>3, <1>4

-----------------------------------------------------------------------------
(* The backend's part                                                      *)

LEMMA AcksGrow ==
    ASSUME CTypeOK, [CNext]_cvars, NEW d \in Devices
    PROVE  acks[d] \in Nat /\ acks'[d] \in Nat /\ acks[d] <= acks'[d]
  <1> DEFINE Goal == acks'[d] \in Nat /\ acks[d] <= acks'[d]
  <1>0. TypeOK /\ acks[d] \in Nat /\ \A e \in Devices : st[e].pulled \in Nat
    BY DEF CTypeOK, TypeOK, VaultState
  <1>1. CASE UNCHANGED store
    BY <1>0, <1>1 DEF store, vault
  <1>2. ASSUME NEW e \in Devices, SendCommit(e) PROVE Goal
    BY <1>0, <1>2 DEF SendCommit, vault
  <1>3. CASE \/ \E c \in commitCalls : RunCommit(c)
             \/ RunTombstoneGC(Retention) \/ Tick
    <2>1. [Next]_vars
      BY <1>3 DEF RunCommit, Next
    <2>2. TypeOK'
      BY <1>0, <2>1, TypeStep
    <2> QED
      BY <1>0, <2>1, <2>2, StepShape DEF TypeOK
  <1>4. ASSUME NEW e \in Devices, AckRevisions(e, st[e].pulled) PROVE Goal
    <2>1. CASE st[e].pulled > HeadRev
      BY <1>0, <1>4, <2>1 DEF AckRevisions, vault
    <2>2. CASE ~ (st[e].pulled > HeadRev)
      <3>1. Join(e, st[e].pulled)
        BY <1>4, <2>2 DEF AckRevisions
      <3> QED
        BY <1>0, <3>1, JoinEffect DEF TypeOK
    <2> QED
      BY <2>1, <2>2
  <1> QED
    BY <1>0, <1>1, <1>2, <1>3, <1>4, StepKinds

\* A revision is an old one, a collection or what a device sent.
LEMMA RevisionShape ==
    ASSUME CTypeOK, [CNext]_cvars, NEW r \in 1 .. HeadRev'
    PROVE  \/ r \in 1 .. HeadRev /\ history'[r] = history[r]
           \/ /\ r = HeadRev + 1 /\ HeadRev' = HeadRev + 1
              /\ history'[r].by = Server /\ history'[r].files = FilesAt(HeadRev)
           \/ \E c \in commitCalls :
                 /\ r = HeadRev + 1 /\ HeadRev' = HeadRev + 1
                 /\ history'[r].by = c.intent /\ c.intent \in Intents
                 /\ c.manifest \in Manifest /\ c.manifest.base = HeadRev
                 /\ history'[r].files = c.manifest.files
                 /\ history'[r].tombs = Stamped(c.manifest.tombs, r)
                 /\ commits'[c.intent].hash = c.manifest
  <1>0. TypeOK /\ HeadRev \in Nat
    BY DEF CTypeOK, TypeOK, HeadRev
  <1>1. CASE QuietStep
    BY <1>1 DEF QuietStep, HeadRev
  <1>2. CASE CreateStep
    <2>1. PICK c \in commitCalls : CreateRevision(c.intent, c.manifest)
      BY <1>2 DEF CreateStep
    <2>2. PICK x \in Revision :
             /\ history' = Append(history, x)
             /\ x = [by |-> c.intent, base |-> c.manifest.base,
                     files |-> c.manifest.files,
                     tombs |-> Stamped(c.manifest.tombs, HeadRev + 1)]
      BY <1>0, <2>1, CreateAppends
    <2>3. /\ HeadRev' = HeadRev + 1 /\ history'[HeadRev + 1] = x
          /\ \A q \in 1..HeadRev : history'[q] = history[q]
      BY <1>0, <2>2, AppendEffect
    <2>4. c.intent \in Intents /\ c.manifest \in Manifest
      BY <1>0 DEF TypeOK
    <2>5. /\ commits' = [commits EXCEPT ![c.intent] = [hash |-> c.manifest, rev |-> HeadRev + 1]]
          /\ c.manifest.base = HeadRev
      BY <2>1, <2>4, StatusMeaning DEF CreateRevision
    <2>6. commits'[c.intent].hash = c.manifest
      BY <1>0, <2>4, <2>5 DEF TypeOK
    <2>7. /\ x.by = c.intent /\ x.files = c.manifest.files
          /\ x.tombs = Stamped(c.manifest.tombs, HeadRev + 1)
      BY <2>2
    <2>8. CASE r = HeadRev + 1
      BY <2>3, <2>4, <2>5, <2>6, <2>7, <2>8
    <2>9. CASE r # HeadRev + 1
      BY <1>0, <2>3, <2>9
    <2> QED
      BY <2>8, <2>9
  <1>3. CASE CollectStep
    <2>1. PICK active \in SUBSET Devices, retention \in Nat,
               reclaimed \in SUBSET TombsAt(HeadRev) :
                  Collected(active, retention, reclaimed)
      BY <1>3 DEF CollectStep
    <2>2. PICK x \in Revision :
             /\ history' = Append(history, x)
             /\ x = [by |-> Server, base |-> HeadRev, files |-> FilesAt(HeadRev),
                     tombs |-> TombsAt(HeadRev) \ reclaimed]
      BY <1>0, <2>1, CollectAppends
    <2>3. /\ HeadRev' = HeadRev + 1 /\ history'[HeadRev + 1] = x
          /\ \A q \in 1..HeadRev : history'[q] = history[q]
      BY <1>0, <2>2, AppendEffect
    <2>4. x.by = Server /\ x.files = FilesAt(HeadRev)
      BY <2>2
    <2>5. CASE r = HeadRev + 1
      BY <2>3, <2>4, <2>5
    <2>6. CASE r # HeadRev + 1
      BY <1>0, <2>3, <2>6
    <2> QED
      BY <2>5, <2>6
  <1> QED
    BY <1>1, <1>2, <1>3, VaultShape

\* A collection has looked at the acks.
LEMMA RunShape ==
    ASSUME CTypeOK, [CNext]_cvars, NEW g \in gcRuns', g \notin gcRuns
    PROVE  \A t \in g.reclaimed : \A d \in g.active : t.rev \in 1 .. acks'[d]
  <1>0. TypeOK /\ HeadRev \in Nat
    BY DEF CTypeOK, TypeOK, HeadRev
  <1>1. CASE QuietStep \/ CreateStep
    BY <1>1 DEF QuietStep, CreateStep, CreateRevision
  <1>2. CASE CollectStep
    <2>1. PICK active \in SUBSET Devices, retention \in Nat,
               reclaimed \in SUBSET TombsAt(HeadRev) :
                  Collected(active, retention, reclaimed)
      BY <1>2 DEF CollectStep
    <2>2. g = [rev |-> HeadRev + 1, active |-> active, at |-> now,
               retention |-> retention, reclaimed |-> reclaimed]
      BY <2>1 DEF Collected
    <2>3. g.active = active /\ g.reclaimed = reclaimed
      BY <2>2
    <2>4. \A t \in reclaimed : t.rev \in Nat
      BY <1>0, AtTypes DEF Tombstone
    <2>5. \A t \in reclaimed : t.rev > 0 /\ \A d \in active : acks'[d] >= t.rev
      BY <2>1 DEF Collected
    <2>6. \A d \in active : acks'[d] \in Nat
      BY AcksGrow
    <2> QED
      BY <2>3, <2>4, <2>5, <2>6
  <1> QED
    BY <1>1, <1>2, VaultShape

\* A request that is not under way yet is the journal's.
LEMMA SentNow ==
    ASSUME CommitInv, [CNext]_cvars, NEW c \in commitCalls', c \notin commitCalls
    PROVE  \E d \in Devices : /\ journal[d] # NoJournal /\ op[d].at = "sending"
                              /\ c.manifest = journal[d].manifest
  <1>1. CASE UNCHANGED store
    BY <1>1 DEF store, calls
  <1>2. ASSUME NEW d \in Devices, SendCommit(d)
        PROVE  /\ journal[d] # NoJournal /\ op[d].at = "sending"
               /\ c.manifest = journal[d].manifest
    <2>1. journal[d] # NoJournal /\ op[d].at = "sending"
      BY <1>2 DEF CommitInv, Journaled, HasJournal, SendCommit, At
    <2>2. commitCalls' = commitCalls \cup
             {[intent |-> journal[d].intent, manifest |-> journal[d].manifest]}
      BY <1>2 DEF SendCommit
    <2> QED
      BY <2>1, <2>2
  <1>3. CASE \E e \in commitCalls : RunCommit(e)
    BY <1>3 DEF RunCommit, RunCommitCall
  <1>4. CASE \/ \E d \in Devices : AckRevisions(d, st[d].pulled)
                                   /\ UNCHANGED <<revoked, blobs, now, calls>>
             \/ RunTombstoneGC(Retention) \/ Tick
    BY <1>4 DEF RunTombstoneGC, Tick, calls
  <1> QED
    BY <1>1, <1>2, <1>3, <1>4, StepKinds

LEMMA VaultFilesStep ==
    ASSUME CommitInv, [CNext]_cvars, FilesInv, minted \subseteq minted',
           \A d \in Devices : DeviceOrdered(d),
           \A d \in Devices : journal'[d] # NoJournal =>
              \/ journal[d] # NoJournal /\ journal'[d].manifest = journal[d].manifest
              \/ \A f \in Files : journal'[d].manifest.files[f] # Absent => f \in minted'
    PROVE  VaultFiles'
  <1>0. /\ CTypeOK /\ TypeOK /\ VaultFiles /\ HeadRev \in Nat /\ Journaled /\ VaultCaughtUp
        /\ \A d \in Devices : DeviceFiles(d) /\ DeviceCaughtUp(d)
    BY DEF CommitInv, CTypeOK, TypeOK, HeadRev, FilesInv, CaughtUp
  <1>1. IntentOwnsOneRevision'
    BY <1>0, VaultShape, OwnerShape DEF VaultFiles
  <1>2. ASSUME NEW r \in 1 .. HeadRev'
        PROVE /\ history'[r].by = Server => FilesAt(r)' = FilesAt(r - 1)'
              /\ Mint(history[r].files)'
    <2>0. FilesAt(r)' = history'[r].files
      BY <1>0, PastStays DEF FilesAt
    <2>1. CASE r \in 1 .. HeadRev /\ history'[r] = history[r]
      <3>1. FilesAt(r)' = FilesAt(r)
        BY <2>1 DEF FilesAt
      <3>2. r - 1 \in 0 .. HeadRev
        BY <1>0, <2>1
      <3>3. FilesAt(r - 1)' = FilesAt(r - 1)
        BY <1>0, <3>2, PastStays
      <3> QED
        BY <1>0, <2>1, <3>1, <3>3 DEF VaultFiles, Mint
    <2>2. CASE r = HeadRev + 1 /\ history'[r].by = Server
               /\ history'[r].files = FilesAt(HeadRev)
      <3>1. PICK k \in 0 .. HeadRev : k = HeadRev
        BY <1>0
      <3>2. r - 1 = k /\ FilesAt(k)' = FilesAt(k)
        BY <1>0, <2>2, <3>1, PastStays
      <3>3. history'[r].files = FilesAt(k)
        BY <2>2, <3>1
      <3>4. \A f \in Files : FilesAt(k)[f] # Absent => f \in minted
        <4>1. CASE k = 0
          BY <4>1 DEF FilesAt
        <4>2. CASE k # 0
          BY <1>0, <4>2 DEF FilesAt, VaultFiles, Mint
        <4> QED
          BY <4>1, <4>2
      <3> QED
        BY <2>0, <3>2, <3>3, <3>4 DEF Mint
    <2>3. ASSUME NEW c \in commitCalls, history'[r].by = c.intent, c.intent \in Intents,
                 history'[r].files = c.manifest.files
          PROVE  history'[r].by # Server /\ Mint(history[r].files)'
      BY <1>0, <2>3, ServerIsNoIntent DEF VaultFiles, Mint
    <2> QED
      BY <1>0, <2>1, <2>2, <2>3, RevisionShape
  <1>3. ASSUME NEW c \in commitCalls' PROVE Mint(c.manifest.files)' /\ Planned(c.manifest, TRUE)'
    <2>1. ASSUME NEW m \in Manifest, m.base <= HeadRev, Planned(m, TRUE), Mint(m.files)
          PROVE  Mint(m.files)' /\ Planned(m, TRUE)'
      BY <1>0, <2>1, PlannedStays DEF VaultFiles, Mint
    <2>2. CASE c \in commitCalls
      <3>1. c.manifest \in Manifest
        BY <1>0, <2>2 DEF TypeOK
      <3>2. c.manifest.device \in Devices /\ c.manifest.base \in Nat
        BY <3>1 DEF Manifest
      <3>3. c.manifest.base <= st[c.manifest.device].applied
            /\ st[c.manifest.device].applied <= HeadRev
            /\ st[c.manifest.device].applied \in Nat
        BY <1>0, <2>2, <3>2, RecordRevs DEF VaultCaughtUp, DeviceFiles
      <3>4. c.manifest.base <= HeadRev
        BY <1>0, <3>2, <3>3
      <3> QED
        BY <1>0, <2>1, <2>2, <3>1, <3>4 DEF VaultFiles
    <2>3. CASE c \notin commitCalls
      <3>1. PICK d \in Devices : /\ journal[d] # NoJournal /\ op[d].at = "sending"
                                 /\ c.manifest = journal[d].manifest
        BY <2>3, SentNow
      <3>2. journal[d].status = "submitted" /\ c.manifest \in Manifest
        BY <1>0, <3>1, RecordRevs DEF DeviceOrdered
      <3>3. /\ c.manifest.base = st[d].applied /\ st[d].applied <= HeadRev
            /\ Planned(c.manifest, TRUE)
        BY <1>0, <3>1, <3>2 DEF DeviceFiles, PlanBased
      <3>4. Mint(c.manifest.files)
        BY <1>0, <3>1 DEF VaultFiles
      <3> QED
        BY <2>1, <3>2, <3>3, <3>4
    <2> QED
      BY <2>2, <2>3
  <1>4. ASSUME NEW d \in Devices, journal'[d] # NoJournal
        PROVE  Mint(journal[d].manifest.files)'
    BY <1>0, <1>4 DEF VaultFiles, Mint
  <1>5. ASSUME NEW g \in gcRuns', NEW t \in g.reclaimed, NEW d \in g.active
        PROVE  t.rev \in 1 .. acks'[d]
    <2>1. CASE g \in gcRuns
      <3>1. t.rev \in 1 .. acks[d] /\ d \in Devices
        BY <1>0, <2>1 DEF VaultFiles, TypeOK
      <3> QED
        BY <1>0, <3>1, AcksGrow
    <2>2. CASE g \notin gcRuns
      BY <1>0, <2>2, RunShape
    <2> QED
      BY <2>1, <2>2
  <1> QED
    BY <1>1, <1>2, <1>3, <1>4, <1>5 DEF VaultFiles

-----------------------------------------------------------------------------
(* The invariant holds                                                     *)

LEMMA FilesInit == CInit => FilesInv
  <1> SUFFICES ASSUME CInit PROVE FilesInv
    OBVIOUS
  <1>1. HeadRev = 0 /\ commitCalls = {} /\ gcRuns = {}
    BY DEF CInit, Init, HeadRev
  <1>2. \A d \in Devices : /\ op[d].at = "idle" /\ journal[d] = NoJournal
                           /\ st[d].applied = 0 /\ \A f \in Files : fmap[d][f] = Absent
    BY DEF CInit, Idle
  <1>3. IntentOwnsOneRevision
    BY OwnerInit DEF CInit
  <1>4. VaultFiles
    BY <1>1, <1>2, <1>3 DEF VaultFiles
  <1>5. ASSUME NEW d \in Devices PROVE DeviceFiles(d)
    <2>1. Reflects(fmap[d], FilesAt(0))
      BY <1>2, AbsentIsNoBlob DEF Reflects, FilesAt
    <2>2. OwnSince(d, 0, st[d].applied)
      BY <1>2 DEF OwnSince
    <2>3. MapBased(d)
      BY <1>1, <2>1, <2>2 DEF MapBased
    <2>a. op[d].at = "idle" /\ journal[d].status # "submitted"
      BY <1>2 DEF NoJournal
    <2>4. OpBased(d) /\ PlanBased(d)
      BY <2>a DEF OpBased, PlanBased
    <2> QED
      BY <1>1, <1>2, <2>3, <2>4 DEF DeviceFiles
  <1> QED
    BY <1>4, <1>5 DEF FilesInv

LEMMA FilesStep == CommitInv /\ StampInv /\ FilesInv /\ [CNext]_cvars => FilesInv'
  <1> DEFINE Goal == VaultFiles' /\ \A e \in Devices : DeviceFiles(e)'
  <1> SUFFICES ASSUME CommitInv, StampInv, FilesInv, [CNext]_cvars PROVE Goal
    BY DEF FilesInv
  <1>0. /\ FilesKnown /\ Minted
        /\ \A e \in Devices : /\ DeviceFiles(e) /\ DeviceOrdered(e) /\ Settled(e)
                              /\ DeviceCaughtUp(e)
    BY DEF FilesKnown, Minted, CommitInv, StampInv, FilesInv, VaultFiles, DeviceStamps,
           CaughtUp
  <1>a. ASSUME NEW d \in Devices, DeviceFiles(d)', FilesMove(d) PROVE Goal
    <2>1. ASSUME NEW e \in Devices PROVE DeviceFiles(e)'
      <3>1. CASE e = d
        BY <1>a, <3>1
      <3>2. CASE e # d
        BY <1>0, <1>a, <3>2, FilesUnmoved DEF FilesMove
      <3> QED
        BY <3>1, <3>2
    <2>2. VaultFiles'
      BY <1>0, <1>a, VaultFilesStep DEF FilesMove
    <2> QED
      BY <2>1, <2>2
  <1>b. ASSUME UNCHANGED <<st, journal, fmap, minted, op>> PROVE Goal
    <2>1. ASSUME NEW e \in Devices PROVE DeviceFiles(e)'
      BY <1>0, <1>b, FilesUnmoved
    <2>2. VaultFiles'
      BY <1>0, <1>b, VaultFilesStep
    <2> QED
      BY <2>1, <2>2
  <1>c. ASSUME NEW d \in Devices, DeviceFiles(d)', FilesAlone(d) PROVE Goal
    BY <1>a, <1>c DEF FilesAlone, FilesMove
  <1> HIDE DEF Goal
  <1>1. ASSUME NEW d \in Devices,
               \/ CountDelete(d) \/ AppendTombstone(d) \/ GiveUp(d) \/ SendCommit(d)
               \/ CleanupFailed(d) \/ MarkStale(d) \/ RecoverLocal(d) \/ RecoverMiss(d)
               \/ RecoverLedger(d) \/ \E heard \in BOOLEAN : Acknowledge(d, heard)
               \/ AckLost(d) \/ ApplyWorkspace(d) \/ Crash(d) \/ ResolveConflicts(d)
               \/ \E stale \in BOOLEAN : AbandonApply(d, stale)
               \/ \E f \in Files : DeleteNote(d, f)
        PROVE Goal
    BY <1>0, <1>1, <1>c, RestFiles
  <1>2. ASSUME NEW d \in Devices,
               \/ \E i \in Intents : PrepareCommit(d, i)
               \/ LockCommit(d) \/ FreezeCommit(d)
        PROVE Goal
    BY <1>0, <1>2, <1>a, CommitFilesStep
  <1>3. ASSUME NEW c \in commitCalls, RunCommit(c) PROVE Goal
    <2>1. PICK d \in Devices : d = c.manifest.device
      BY DEF CommitInv, CTypeOK, TypeOK, Manifest
    <2> QED
      BY <1>0, <1>3, <1>a, <2>1, AnswerFiles
  <1>4. ASSUME NEW d \in Devices,
               FinalizeLedger(d) \/ FinalizeState(d) \/ FinalizeFilemap(d) \/ RecoverMatch(d)
        PROVE Goal
    BY <1>0, <1>4, <1>a, FinishFiles
  <1>5. ASSUME NEW d \in Devices,
               Fetch(d) \/ PullFilemap(d) \/ PullLedger(d) \/ PullState(d)
        PROVE Goal
    BY <1>0, <1>5, <1>a, PullFiles
  <1>6. ASSUME NEW d \in Devices,
               \/ \E p \in Paths, content \in Blobs \cup {Absent} : UserWrite(d, p, content)
               \/ AcknowledgeAgain(d)
        PROVE Goal
    BY <1>6, <1>b DEF UserWrite, AcknowledgeAgain, client, rows
  <1>7. CASE UNCHANGED turns
    BY <1>7, <1>b DEF turns, client
  <1>8. ASSUME NEW d \in Devices, DeviceStep(d) PROVE Goal
    BY <1>8, <1>1, <1>2, <1>4, <1>5, <1>6 DEF DeviceStep
  <1>9. CASE \/ \E d \in Devices, p \in Paths, content \in Blobs \cup {Absent} :
                   UserWrite(d, p, content)
             \/ \E d \in Devices, f \in Files : DeleteNote(d, f)
             \/ \E d \in Devices : ResolveConflicts(d)
             \/ \E d \in Devices, i \in Intents : PrepareCommit(d, i)
    BY <1>1, <1>2, <1>6, <1>9
  <1>10. CASE \E d \in Devices, choice \in BOOLEAN :
                  Acknowledge(d, choice) \/ AbandonApply(d, choice)
    BY <1>1, <1>10
  <1>11. CASE UNCHANGED client
    BY <1>11, <1>b DEF client
  <1> QED
    BY <1>3, <1>7, <1>8, <1>9, <1>10, <1>11, NoneBeside DEF Turn

-----------------------------------------------------------------------------
(* What the invariant says of the revisions                                *)

\* A reclaimed tombstone's file is on no active device that has not deleted it.
LEMMA NoneLeft ==
    ASSUME CTypeOK, FilesInv, AckMeansApplied
    PROVE  ReclaimedEverywhere
  <1> SUFFICES ASSUME NEW g \in gcRuns, NEW t \in g.reclaimed, NEW d \in g.active,
                      fmap[d][t.file] \in Blobs
               PROVE  \/ \E r \in t.rev .. HeadRev : FilesAt(r)[t.file] # Absent
                      \/ Author(t.rev) = d /\ OwnSince(d, t.rev, st[d].applied)
    BY DEF ReclaimedEverywhere
  <1>1. /\ d \in Devices /\ t \in Tombstone /\ t.file \in Files
        /\ acks[d] \in Nat /\ st[d].applied \in Nat /\ HeadRev \in Nat
    BY RecordRevs DEF CTypeOK, TypeOK, Tombstone, HeadRev
  <1>2. /\ t.rev \in 1 .. acks[d] /\ IntentOwnsOneRevision
        /\ MapBased(d)
    BY <1>1 DEF FilesInv, VaultFiles, DeviceFiles
  <1>3. PICK r \in 0 .. HeadRev :
           Reflects(fmap[d], FilesAt(r)) /\ OwnSince(d, r, st[d].applied)
    BY <1>2 DEF MapBased
  <1>4. FilesAt(r)[t.file] # Absent
    BY <1>1, <1>3 DEF Reflects
  <1>5. CASE t.rev <= r
    BY <1>1, <1>2, <1>3, <1>4, <1>5
  <1>6. CASE r < t.rev
    <2>1. \A q \in r + 1 .. st[d].applied : q \in Written /\ Author(q) = d
      BY <1>3 DEF OwnSince
    <2>2. OwnSince(d, t.rev, st[d].applied)
      <3>1. \A q \in t.rev + 1 .. st[d].applied : q \in r + 1 .. st[d].applied
        BY <1>1, <1>2, <1>3, <1>6
      <3> QED
        BY <2>1, <3>1 DEF OwnSince
    <2>3. CASE t.rev <= st[d].applied
      <3>1. t.rev \in r + 1 .. st[d].applied
        BY <1>1, <1>2, <1>3, <1>6, <2>3
      <3> QED
        BY <2>1, <2>2, <3>1
    <2>4. CASE st[d].applied < t.rev
      <3>1. ~ (acks[d] <= st[d].applied)
        BY <1>1, <1>2, <2>4
      <3>2. PICK i \in Intents : /\ commits[i] # NoCommit /\ commits[i].hash.device = d
                                 /\ commits[i].rev = acks[d]
                                 /\ commits[i].hash.base <= st[d].applied
        BY <1>1, <3>1 DEF AckMeansApplied
      <3>3. /\ OwnedBy(i) = {commits[i].rev}
            /\ commits[i].hash.base = commits[i].rev - 1
        BY <1>2, <3>2 DEF IntentOwnsOneRevision, OwnsOne
      <3>4. history[commits[i].rev].by = i
        BY <3>3 DEF OwnedBy
      <3>5. t.rev = commits[i].rev
        BY <1>1, <1>2, <2>4, <3>2, <3>3
      <3>6. Author(t.rev) = d
        BY <3>2, <3>4, <3>5 DEF Author
      <3> QED
        BY <2>2, <3>6
    <2> QED
      BY <1>1, <1>2, <2>3, <2>4
  <1> QED
    BY <1>1, <1>2, <1>5, <1>6

\* The first member of a set of revisions after one that is not.
LEMMA FirstSince ==
    ASSUME NEW S \in SUBSET Nat, NEW r \in Nat, NEW last \in Nat, r <= last,
           r \notin S, last \in S
    PROVE  \E q \in r + 1 .. last : q \in S /\ q - 1 \notin S
  <1> DEFINE T == {q \in r + 1 .. last : q \in S}
  <1>1. T \in SUBSET Nat /\ last \in T
    OBVIOUS
  <1>2. PICK q \in T : \A k \in T : q <= k
    BY <1>1, LeastNatural
  <1>3. q \in r + 1 .. last /\ q \in S /\ q - 1 \in Nat
    BY <1>2
  <1>4. q - 1 \notin S
    <2>1. CASE q - 1 = r
      BY <2>1
    <2>2. CASE q - 1 # r
      <3>1. q - 1 \in r + 1 .. last /\ q - 1 < q
        BY <1>3, <2>2
      <3>2. q - 1 \notin T
        BY <1>2, <1>3, <3>1
      <3> QED
        BY <3>1, <3>2
    <2> QED
      BY <2>1, <2>2
  <1> QED
    BY <1>3, <1>4

\* What a device's commit drops it has a tombstone of, or had brought in since; what
\* it brings back it had dropped since.
LEMMA NewRevision ==
    ASSUME CTypeOK, NEW m \in Manifest, m.base = HeadRev, Planned(m, TRUE),
           NEW f \in Files
    PROVE  /\ FilesAt(HeadRev)[f] # Absent /\ m.files[f] = Absent =>
                 \/ \E t \in m.tombs : t.file = f
                 \/ \E q \in Written : Brought(f, q) /\ Author(q) = m.device
           /\ FilesAt(HeadRev)[f] = Absent /\ m.files[f] # Absent =>
                 \/ Unlisted(f)
                 \/ \E q \in Written : Dropped(f, q) /\ Author(q) = m.device
  <1>1. HeadRev \in Nat
    BY DEF CTypeOK, TypeOK, HeadRev
  <1>2. PICK r \in 0 .. HeadRev : Derives(m, TRUE, r)
    BY DEF Planned
  <1>3. \A q \in r + 1 .. HeadRev : q \in Written /\ Author(q) = m.device
    BY <1>2 DEF Derives, OwnSince
  <1>4. ASSUME FilesAt(HeadRev)[f] # Absent, FilesAt(r)[f] = Absent
        PROVE  \E q \in Written : Brought(f, q) /\ Author(q) = m.device
    <2> DEFINE S == {q \in Nat : FilesAt(q)[f] # Absent}
    <2>1. S \in SUBSET Nat /\ r \notin S /\ HeadRev \in S
      BY <1>1, <1>4
    <2>2. PICK q \in r + 1 .. HeadRev : q \in S /\ q - 1 \notin S
      <3>1. r \in Nat /\ r <= HeadRev
        BY <1>1
      <3> HIDE DEF S
      <3> QED
        BY <1>1, <2>1, <3>1, FirstSince
    <2>3. q \in Nat /\ q - 1 \in Nat
      OBVIOUS
    <2> QED
      BY <1>3, <2>2, <2>3 DEF Brought
  <1>5. ASSUME FilesAt(HeadRev)[f] = Absent, FilesAt(r)[f] # Absent
        PROVE  \E q \in Written : Dropped(f, q) /\ Author(q) = m.device
    <2> DEFINE S == {q \in Nat : FilesAt(q)[f] = Absent}
    <2>1. S \in SUBSET Nat /\ r \notin S /\ HeadRev \in S
      BY <1>1, <1>5
    <2>2. PICK q \in r + 1 .. HeadRev : q \in S /\ q - 1 \notin S
      <3>1. r \in Nat /\ r <= HeadRev
        BY <1>1
      <3> HIDE DEF S
      <3> QED
        BY <1>1, <2>1, <3>1, FirstSince
    <2>3. q \in Nat /\ q - 1 \in Nat
      OBVIOUS
    <2> QED
      BY <1>3, <2>2, <2>3 DEF Dropped
  <1> QED
    BY <1>2, <1>4, <1>5 DEF Derives

\* Dropped and Brought, by what became of the past.
LEMMA PastChanges ==
    ASSUME CTypeOK, IntentOwnsOneRevision, [CNext]_cvars, NEW f \in Files
    PROVE  /\ \A q \in 1 .. HeadRev : /\ Dropped(f, q)' <=> Dropped(f, q)
                                      /\ Brought(f, q)' <=> Brought(f, q)
                                      /\ Marked(f, q)' <=> Marked(f, q)
           /\ \A q \in 1 .. HeadRev : q \in Written <=> q \in Written'
           /\ \A q \in Written : q \in 1 .. HeadRev /\ Author(q)' = Author(q)
  <1> SUFFICES ASSUME NEW q \in 1 .. HeadRev
               PROVE /\ Dropped(f, q)' <=> Dropped(f, q)
                     /\ Brought(f, q)' <=> Brought(f, q)
                     /\ Marked(f, q)' <=> Marked(f, q)
                     /\ q \in Written <=> q \in Written'
    BY AuthorStays DEF Written
  <1>1. q \in 0 .. HeadRev /\ q - 1 \in 0 .. HeadRev /\ q # 0 /\ q \in 1 .. HeadRev'
    BY PastStays
  <1>2. FilesAt(q)' = FilesAt(q) /\ FilesAt(q - 1)' = FilesAt(q - 1) /\ history'[q] = history[q]
    BY <1>1, PastStays
  <1>3. TombsAt(q)' = TombsAt(q)
    BY <1>1, <1>2 DEF TombsAt
  <1> QED
    BY <1>1, <1>2, <1>3 DEF Dropped, Brought, Marked, Written

HistoryInv == OthersFilesLeaveMarkers /\ DeletionsStick

LEMMA HistoryStep ==
    CommitInv /\ FilesInv /\ HistoryInv /\ [CNext]_cvars => HistoryInv'
  <1> SUFFICES ASSUME CommitInv, FilesInv, HistoryInv, [CNext]_cvars PROVE HistoryInv'
    OBVIOUS
  <1>0. /\ CTypeOK /\ TypeOK /\ IntentOwnsOneRevision /\ HeadRev \in Nat
        /\ \A c \in commitCalls : Planned(c.manifest, TRUE)
    <2>1. CTypeOK /\ TypeOK /\ HeadRev \in Nat
      BY DEF CommitInv, CTypeOK, TypeOK, HeadRev
    <2> QED
      BY <2>1 DEF FilesInv, VaultFiles
  <1> DEFINE OldMarks(r, f) ==
         Dropped(f, r) => \/ Marked(f, r)
                          \/ \E q \in Written : q < r /\ Brought(f, q) /\ Author(q) = Author(r)
             OldSticks(r, f) ==
         Brought(f, r) /\ (\E q \in Written : q < r /\ Brought(f, q))
            => \E q \in Written : q < r /\ Dropped(f, q) /\ Author(q) = Author(r)
  <1> SUFFICES ASSUME NEW r \in Written', NEW f \in Files
               PROVE  OldMarks(r, f)' /\ OldSticks(r, f)'
    BY DEF HistoryInv, OthersFilesLeaveMarkers, DeletionsStick
  <1>1. r \in 1 .. HeadRev' /\ history'[r].by # Server
    BY DEF Written
  <1>p. /\ \A q \in 1 .. HeadRev : /\ Dropped(f, q)' <=> Dropped(f, q)
                                   /\ Brought(f, q)' <=> Brought(f, q)
                                   /\ Marked(f, q)' <=> Marked(f, q)
        /\ \A q \in 1 .. HeadRev : q \in Written <=> q \in Written'
        /\ \A q \in Written : q \in 1 .. HeadRev /\ Author(q)' = Author(q)
    BY <1>0, PastChanges
  <1>q. \A q \in Written' : q \in Nat /\ (q < HeadRev + 1 => q \in 1 .. HeadRev)
    <2>1. \A q \in Written' : q \in 1 .. HeadRev'
      BY DEF Written
    <2> QED
      BY <1>0, <2>1, PastStays
  <1>2. CASE r \in 1 .. HeadRev
    <2>1. r \in Written /\ Author(r)' = Author(r)
      BY <1>p, <1>2
    <2>2. OldMarks(r, f) /\ OldSticks(r, f)
      BY <2>1 DEF HistoryInv, OthersFilesLeaveMarkers, DeletionsStick
    <2>3. OldMarks(r, f)'
      BY <1>2, <1>p, <1>q, <2>1, <2>2
    <2>4. \A q \in Written' : q < r => q \in Written
      BY <1>0, <1>2, <1>p, <1>q
    <2>5. OldSticks(r, f)'
      BY <1>2, <1>p, <1>q, <2>1, <2>2, <2>4
    <2> QED
      BY <2>3, <2>5
  <1>3. ASSUME NEW c \in commitCalls, r = HeadRev + 1,
               history'[r].by = c.intent, c.intent \in Intents,
               c.manifest \in Manifest, c.manifest.base = HeadRev,
               history'[r].files = c.manifest.files,
               history'[r].tombs = Stamped(c.manifest.tombs, r),
               commits'[c.intent].hash = c.manifest
        PROVE  OldMarks(r, f)' /\ OldSticks(r, f)'
    <2>1. Author(r)' = c.manifest.device
      BY <1>3 DEF Author
    <2>2. PICK k \in 0 .. HeadRev : k = HeadRev
      BY <1>0
    <2>3. /\ FilesAt(r)' = c.manifest.files /\ r - 1 = k /\ FilesAt(k)' = FilesAt(k)
          /\ r # 0
      BY <1>0, <1>3, <2>2, PastStays DEF FilesAt
    <2>4. /\ Dropped(f, r)' =>
                FilesAt(HeadRev)[f] # Absent /\ c.manifest.files[f] = Absent
          /\ Brought(f, r)' =>
                FilesAt(HeadRev)[f] = Absent /\ c.manifest.files[f] # Absent
      BY <2>2, <2>3 DEF Dropped, Brought
    <2>5. /\ FilesAt(HeadRev)[f] # Absent /\ c.manifest.files[f] = Absent =>
                \/ \E t \in c.manifest.tombs : t.file = f
                \/ \E q \in Written : Brought(f, q) /\ Author(q) = c.manifest.device
          /\ FilesAt(HeadRev)[f] = Absent /\ c.manifest.files[f] # Absent =>
                \/ Unlisted(f)
                \/ \E q \in Written : Dropped(f, q) /\ Author(q) = c.manifest.device
      BY <1>0, <1>3, NewRevision
    <2>6. \A q \in Written : q \in Written' /\ q < r
      BY <1>0, <1>3, <1>p
    <2>7. (\E t \in c.manifest.tombs : t.file = f) => Marked(f, r)'
      <3> SUFFICES ASSUME NEW t \in c.manifest.tombs, t.file = f PROVE Marked(f, r)'
        OBVIOUS
      <3>1. t \in Tombstone
        BY <1>3 DEF Manifest
      <3>2. [t EXCEPT !.rev = IF t.rev = 0 THEN r ELSE t.rev] \in history'[r].tombs
        BY <1>3 DEF Stamped
      <3>3. [t EXCEPT !.rev = IF t.rev = 0 THEN r ELSE t.rev].file = f
        BY <3>1 DEF Tombstone
      <3> QED
        BY <2>3, <3>2, <3>3 DEF Marked, TombsAt
    <2>8. OldMarks(r, f)'
      BY <1>p, <2>1, <2>4, <2>5, <2>6, <2>7
    <2>9. ASSUME NEW q \in Written', q < r, Brought(f, q)' PROVE ~ Unlisted(f)
      <3>1. q \in 1 .. HeadRev /\ Brought(f, q)
        BY <1>3, <1>p, <1>q, <2>9
      <3> QED
        BY <3>1 DEF Brought, Unlisted
    <2>10. OldSticks(r, f)'
      BY <1>p, <2>1, <2>4, <2>5, <2>6, <2>9
    <2> QED
      BY <2>8, <2>10
  <1> HIDE DEF OldMarks, OldSticks
  <1>4. r = HeadRev + 1 /\ history'[r].by = Server => FALSE
    BY <1>1
  <1> QED
    BY <1>0, <1>1, <1>2, <1>3, RevisionShape

\* No device silently drops what another one contributed: a plan is built on what
\* the device has applied, whose files its filemap reflects.
THEOREM CommitsDropNothing ==
    ASSUME Tandem = {}
    PROVE  CSpec => []OthersFilesLeaveMarkers
  <1>1. CInit => CommitInv /\ StampInv /\ FilesInv
    BY CommitInit, StampInit, FilesInit
  <1>2. CInit => HistoryInv
    BY DEF CInit, Init, HistoryInv, OthersFilesLeaveMarkers, DeletionsStick, Written, HeadRev
  <1>3. /\ CommitInv /\ StampInv /\ FilesInv /\ HistoryInv /\ [CNext]_cvars
        => CommitInv' /\ StampInv' /\ FilesInv' /\ HistoryInv'
    BY CommitStep, StampStep, FilesStep, HistoryStep
  <1>4. HistoryInv => OthersFilesLeaveMarkers
    BY DEF HistoryInv
  <1> QED
    BY <1>1, <1>2, <1>3, <1>4, PTL DEF CSpec

\* A device that was offline for long does not bring a deleted file id back.
THEOREM DeletedStaysDeleted ==
    ASSUME Tandem = {}
    PROVE  CSpec => []DeletionsStick
  <1>1. CInit => CommitInv /\ StampInv /\ FilesInv
    BY CommitInit, StampInit, FilesInit
  <1>2. CInit => HistoryInv
    BY DEF CInit, Init, HistoryInv, OthersFilesLeaveMarkers, DeletionsStick, Written, HeadRev
  <1>3. /\ CommitInv /\ StampInv /\ FilesInv /\ HistoryInv /\ [CNext]_cvars
        => CommitInv' /\ StampInv' /\ FilesInv' /\ HistoryInv'
    BY CommitStep, StampStep, FilesStep, HistoryStep
  <1>4. HistoryInv => DeletionsStick
    BY DEF HistoryInv
  <1> QED
    BY <1>1, <1>2, <1>3, <1>4, PTL DEF CSpec

\* What a collection takes for granted is so: no device it counted still lists a file
\* whose tombstone it reclaimed, unless the file is back or the device deleted it.
THEOREM CollectionsAreSafe ==
    ASSUME Tandem = {}
    PROVE  CSpec => []ReclaimedEverywhere
  <1>1. CInit => CommitInv /\ StampInv /\ FilesInv
    BY CommitInit, StampInit, FilesInit
  <1>2. /\ CommitInv /\ StampInv /\ FilesInv /\ [CNext]_cvars
        => CommitInv' /\ StampInv' /\ FilesInv'
    BY CommitStep, StampStep, FilesStep
  <1>3. CommitInv /\ FilesInv /\ AckMeansApplied => ReclaimedEverywhere
    BY NoneLeft DEF CommitInv
  <1> QED
    BY <1>1, <1>2, <1>3, AcksAreApplied, PTL DEF CSpec

-----------------------------------------------------------------------------
(* What the store promises holds of the vault the devices sync             *)

LEMMA BlobsStaySynced ==
    ASSUME [CNext]_cvars
    PROVE  blobs \subseteq blobs'
  <1>1. CASE UNCHANGED store
    BY <1>1 DEF store
  <1>2. CASE \E d \in Devices : SendCommit(d)
    BY <1>2 DEF SendCommit
  <1>3. CASE \/ \E c \in commitCalls : RunCommit(c)
             \/ \E d \in Devices : AckRevisions(d, st[d].pulled)
                                   /\ UNCHANGED <<revoked, blobs, now, calls>>
             \/ RunTombstoneGC(Retention) \/ Tick
    BY <1>3 DEF RunCommit, RunCommitCall, RunTombstoneGC, Tick
  <1> QED
    BY <1>1, <1>2, <1>3, StepKinds

SyncedVaultInv == BaseInv /\ IntentOwnsOneRevision /\ RevisionsAreDownloadable

LEMMA SyncedVault ==
    /\ CInit => SyncedVaultInv
    /\ SyncedVaultInv /\ [CNext]_cvars => SyncedVaultInv'
  <1>1. CInit => SyncedVaultInv
    BY BaseInit, OwnerInit DEF SyncedVaultInv, CInit, Init, RevisionsAreDownloadable, HeadRev
  <1>2. ASSUME SyncedVaultInv, [CNext]_cvars PROVE SyncedVaultInv'
    <2>1. BaseInv'
      BY <1>2, BaseStep DEF SyncedVaultInv
    <2>2. TypeOK /\ (QuietStep \/ CreateStep \/ CollectStep)
      BY <1>2, VaultShape DEF SyncedVaultInv, BaseInv, CTypeOK
    <2>3. IntentOwnsOneRevision' /\ RevisionsAreDownloadable'
      BY <1>2, <2>2, OwnerShape, DownloadableShape, BlobsStaySynced DEF SyncedVaultInv
    <2> QED
      BY <2>1, <2>3 DEF SyncedVaultInv
  <1> QED
    BY <1>1, <1>2

\* What SyncStore guarantees for any calls holds with the calls real devices make:
\* a commit whose answer was lost and that is sent or recovered again takes effect
\* once, and every revision can be downloaded.
THEOREM SyncedCommitsAreOnce == CSpec => [](IntentOwnsOneRevision /\ RevisionsAreDownloadable)
  <1>1. SyncedVaultInv => IntentOwnsOneRevision /\ RevisionsAreDownloadable
    BY DEF SyncedVaultInv
  <1> QED
    BY <1>1, SyncedVault, PTL DEF CSpec

\* The vault the devices sync is a revision log, like the one of the store alone.
THEOREM SyncedVaultIsLog == CSpec => ImplementsRevisionLog
  <1>1. CInit => Log!Init
    BY DEF CInit, Init, Log!Init
  <1>2. SyncedVaultInv /\ [CNext]_cvars => [Log!Next]_(LogOf(history))
    <2> SUFFICES ASSUME SyncedVaultInv, [CNext]_cvars PROVE [Log!Next]_(LogOf(history))
      OBVIOUS
    <2>1. TypeOK /\ IntentOwnsOneRevision /\ (QuietStep \/ CreateStep \/ CollectStep)
      BY VaultShape DEF SyncedVaultInv, BaseInv, CTypeOK
    <2> QED
      BY <2>1, LogShape
  <1> QED
    BY <1>1, <1>2, SyncedVault, PTL DEF CSpec, ImplementsRevisionLog, Log!Spec, LogOf
==============================================================================
