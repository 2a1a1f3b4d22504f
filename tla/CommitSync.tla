----------------------------- MODULE CommitSync -----------------------------
(***************************************************************************)
(* Desktop devices syncing one vault through the backend of SyncStore.     *)
(*                                                                         *)
(* A device keeps its state in five places that no transaction spans: the  *)
(* vault_state row and the commit journal (SQLite), the tombstone ledger   *)
(* and the filemap (files rewritten atomically) and the workspace itself.  *)
(* Every action of this module is one durable write, one request, or one   *)
(* thing the user does; the process can be killed between any two.         *)
(*                                                                         *)
(* op[d] is what the device's commit, pull or recovery has in memory, one  *)
(* of them at a time.  What it read is kept in it until it writes, so that *)
(* the application of a device of Tandem can delete notes beside it: that  *)
(* deletion has a memory of its own, beside[d].  A read belongs to the     *)
(* request it comes with.  Applying a pulled manifest to the workspace is  *)
(* one step here.                                                          *)
(***************************************************************************)
EXTENDS SyncStore

CONSTANTS Paths,
          PathOf,      \* the path a file id was created for; renames are left out
          Editors,     \* devices whose user changes the workspace
          Tandem,      \* editors whose application deletes while the sync worker is
                       \* at work; the others leave them to each other in turn
          Deleted,     \* a filemap record with status "deleted"
          MaxFaults    \* bound: crashes, lost exchanges, failed applies, and
                       \* deletions beside an operation

ASSUME PathsOfFiles == PathOf \in [Files -> Paths]
ASSUME EditorsAreDevices == Editors \subseteq Devices
ASSUME TandemAreEditors == Tandem \subseteq Editors
ASSUME FilesAreFinite == IsFiniteSet(Files)
ASSUME DeletedIsNoBlob == Deleted \notin Blobs \cup {Absent}

VARIABLES st,        \* vault_state row
          journal,   \* commit_intent_journal row
          ledger,    \* tombstone ledger
          fmap,      \* filemap.json
          disk,      \* content of every synced path of the workspace
          minted,    \* uuids handed out: file ids and commit intents
          op,        \* the operation the device is in the middle of
          faults,    \* how many faults there have been
          beside     \* the deletion the application is in the middle of beside it

rows   == <<st, journal>>
client == <<st, journal, ledger, fmap, disk, minted, op, faults>>
turns  == <<vars, client>>
cvars  == <<turns, beside>>
store  == <<vault, revoked, blobs, now, calls>>

-----------------------------------------------------------------------------
(* Local state                                                             *)

\* applied stands for last_applied_revision, which acked_revision always
\* equals; pulled for the greatest of pending_ack_to_server.
VaultState == [applied : Nat, pulled : Nat, seq : Nat,
               busy : BOOLEAN,       \* commit_in_progress
               valid : BOOLEAN,      \* last_manifest_summary_status
               conflict : BOOLEAN]   \* has_unresolved_conflicts

LocalTombstone == [file : Files, rev : Nat, at : Nat, seq : Nat]

FileMap == [Files -> Blobs \cup {Absent, Deleted}]

NoJournal == [status |-> "none"]
Journal == {NoJournal} \cup
    [status : {"prepared", "submitted"}, intent : Intents, manifest : Manifest,
     upper : Nat,                       \* 0 for a null upper bound
     known : SUBSET LocalTombstone]     \* deleted_at <= created_at

Idle == [at |-> "idle"]

Live(fm) == {f \in Files : fm[f] \in Blobs}
Pending(tombs) == {t \in tombs : t.rev = 0}
Shared(tombs) == {[file |-> t.file, rev |-> t.rev, at |-> t.at] : t \in tombs}

CInit ==
    /\ Init
    /\ st = [d \in Devices |-> [applied |-> 0, pulled |-> 0, seq |-> 0, busy |-> FALSE,
                                valid |-> TRUE, conflict |-> FALSE]]
    /\ journal = [d \in Devices |-> NoJournal]
    /\ ledger = [d \in Devices |-> {}]
    /\ fmap = [d \in Devices |-> [f \in Files |-> Absent]]
    /\ disk = [d \in Devices |-> [p \in Paths |-> Absent]]
    /\ minted = {}
    /\ op = [d \in Devices |-> Idle]
    /\ faults = 0
    /\ beside = [d \in Devices |-> Idle]

At(d, step) == op[d].at = step
Goto(d, next) == op' = [op EXCEPT ![d] = next]
Set(d, row) == st' = [st EXCEPT ![d] = row]
Fault == faults < MaxFaults /\ faults' = faults + 1

-----------------------------------------------------------------------------
(* The user                                                                *)

\* Any editor may change the workspace behind the program's back, at any time.
UserWrite(d, p, content) ==
    /\ d \in Editors
    /\ disk[d][p] # content
    /\ disk' = [disk EXCEPT ![d][p] = content]
    /\ UNCHANGED <<store, rows, ledger, fmap, minted, op, faults>>

\* delete_workspace_note: workspace and filemap (a crash between these two leaves
\* what UserWrite leaves), then the ledger, then the sequence number.  Nothing
\* looks at the commit journal.  Here it takes its turn with the other operations
\* of the device; DeletesBeside is the same call while one of them runs.
DeleteNote(d, f) ==
    /\ d \in Editors
    /\ At(d, "idle") /\ beside[d] = Idle
    /\ f \in Live(fmap[d])
    /\ disk' = [disk EXCEPT ![d][PathOf[f]] = Absent]
    /\ fmap' = [fmap EXCEPT ![d][f] = Deleted]
    /\ Goto(d, [at |-> "deleting",
                tomb |-> [file |-> f, rev |-> 0, at |-> now, seq |-> st[d].seq + 1]])
    /\ UNCHANGED <<store, rows, ledger, minted, faults>>

\* Fault: the record is written without a local_delete_seq.
AppendUnnumbered(d) ==
    /\ At(d, "deleting")
    /\ ledger' = [ledger EXCEPT ![d] = @ \cup Shared({op[d].tomb})]
    /\ Goto(d, [at |-> "counting", seq |-> op[d].tomb.seq])
    /\ UNCHANGED <<store, rows, fmap, disk, minted, faults>>

AppendTombstone(d) ==
    /\ At(d, "deleting")
    /\ ledger' = [ledger EXCEPT ![d] = @ \cup {op[d].tomb}]
    /\ Goto(d, [at |-> "counting", seq |-> op[d].tomb.seq])
    /\ UNCHANGED <<store, rows, fmap, disk, minted, faults>>

CountDelete(d) ==
    /\ At(d, "counting")
    /\ Set(d, [st[d] EXCEPT !.seq = op[d].seq])
    /\ Goto(d, Idle)
    /\ UNCHANGED <<store, journal, ledger, fmap, disk, minted, faults>>

\* resolve_conflicts --all: the conflict copies go, the flag with them.
ResolveConflicts(d) ==
    /\ d \in Editors
    /\ At(d, "idle") /\ beside[d] = Idle
    /\ st[d].conflict /\ ~st[d].busy
    /\ Set(d, [st[d] EXCEPT !.conflict = FALSE])
    /\ UNCHANGED <<store, journal, ledger, fmap, disk, minted, op, faults>>

-----------------------------------------------------------------------------
(* delete_workspace_note in the application's process while the device's   *)
(* worker commits or pulls in its own: it takes no lock.  Filemap and row  *)
(* are written whole, as they were read at the start; the ledger is read   *)
(* again and appended to.  Two calls of the application never overlap.     *)

BeginBeside(d, f) ==
    /\ beside[d] = Idle
    /\ op[d].at \notin {"deleting", "counting"}
    /\ f \in Live(fmap[d])
    /\ beside' = [beside EXCEPT ![d] =
           [at |-> "removing", file |-> f, before |-> fmap[d], row |-> st[d],
            tomb |-> [file |-> f, rev |-> 0, at |-> now, seq |-> st[d].seq + 1]]]
    /\ Fault
    /\ UNCHANGED <<store, rows, ledger, fmap, disk, minted, op>>

RemoveBeside(d) ==
    /\ beside[d].at = "removing"
    /\ disk' = [disk EXCEPT ![d][PathOf[beside[d].file]] = Absent]
    /\ fmap' = [fmap EXCEPT ![d] = [beside[d].before EXCEPT ![beside[d].file] = Deleted]]
    /\ beside' = [beside EXCEPT ![d] =
           [at |-> "recording", row |-> beside[d].row, tomb |-> beside[d].tomb]]
    /\ UNCHANGED <<store, rows, ledger, minted, op, faults>>

RecordBeside(d) ==
    /\ beside[d].at = "recording"
    /\ ledger' = [ledger EXCEPT ![d] = @ \cup {beside[d].tomb}]
    /\ beside' = [beside EXCEPT ![d] = [at |-> "counting", row |-> beside[d].row]]
    /\ UNCHANGED <<store, rows, fmap, disk, minted, op, faults>>

CountBeside(d) ==
    /\ beside[d].at = "counting"
    /\ Set(d, [beside[d].row EXCEPT !.seq = @ + 1])
    /\ beside' = [beside EXCEPT ![d] = Idle]
    /\ UNCHANGED <<store, journal, ledger, fmap, disk, minted, op, faults>>

\* The application is killed.
QuitBeside(d) ==
    /\ beside[d] # Idle
    /\ beside' = [beside EXCEPT ![d] = Idle]
    /\ UNCHANGED turns

DeletesBeside(d) ==
    \/ \E f \in Files : BeginBeside(d, f)
    \/ RemoveBeside(d) \/ RecordBeside(d) \/ CountBeside(d) \/ QuitBeside(d)

-----------------------------------------------------------------------------
(* submit_detected_changes_if_needed                                       *)

Missing(d) == {f \in Live(fmap[d]) : disk[d][PathOf[f]] = Absent}
Modified(d) == {f \in Live(fmap[d]) : disk[d][PathOf[f]] \notin {Absent, fmap[d][f]}}
Untracked(d) == {p \in Paths : disk[d][p] # Absent
                               /\ \A f \in Live(fmap[d]) : PathOf[f] # p}

\* A fresh id for every untracked path; the bound on Files may have run out.
Fresh(p) == {f \in Files \ minted : PathOf[f] = p}
NewIds(d) == {CHOOSE f \in Fresh(p) : TRUE : p \in Untracked(d)}

\* build_tracked_change_commit_plan: the document the commit would publish,
\* and the ledger with a pending tombstone for each missing file.  Neither is
\* written back before the commit succeeds; the tombstones never are.
PlanDocument(d) ==
    [f \in Files |-> CASE f \in Missing(d) -> Deleted
                       [] f \in Live(fmap[d]) \ Missing(d) -> disk[d][PathOf[f]]
                       [] f \in NewIds(d) -> disk[d][PathOf[f]]
                       [] OTHER -> fmap[d][f]]

PlanTombstones(d) ==
    ledger[d] \cup {[file |-> f, rev |-> 0, at |-> now,
                     seq |-> st[d].seq + Cardinality(Missing(d))] : f \in Missing(d)}

PlanManifest(d) ==
    [device |-> d, base |-> st[d].applied,
     files |-> [f \in Files |-> IF PlanDocument(d)[f] \in Blobs
                                THEN PlanDocument(d)[f] ELSE Absent],
     tombs |-> Shared(PlanTombstones(d))]

\* build_commit_manifest refuses a document with a deleted record that no
\* tombstone stands for.
Buildable(d) ==
    \A f \in Files : PlanDocument(d)[f] = Deleted
                        => \E t \in PlanTombstones(d) : t.file = f

Submits(d) == Missing(d) \cup Modified(d) # {} \/ Untracked(d) # {} \/ Pending(ledger[d]) # {}

CanCommit(d) ==
    /\ journal[d] = NoJournal
    /\ ~st[d].busy /\ ~st[d].conflict /\ st[d].valid

PrepareCommit(d, i) ==
    /\ At(d, "idle")
    /\ Submits(d)
    /\ \A p \in Untracked(d) : Fresh(p) # {}
    /\ CanCommit(d)
    /\ i \notin minted
    /\ minted' = minted \cup {i} \cup NewIds(d)
    /\ LET seq == st[d].seq + Cardinality(Missing(d))
       IN  /\ journal' = [journal EXCEPT ![d] =
                  [status |-> "prepared", intent |-> i, manifest |-> PlanManifest(d),
                   upper |-> seq, known |-> Pending(ledger[d])]]
           /\ Goto(d, [at |-> "locking", row |-> [st[d] EXCEPT !.busy = TRUE, !.seq = seq],
                       buildable |-> Buildable(d)])
    /\ UNCHANGED <<store, st, ledger, fmap, disk, faults>>

\* The row of the snapshot is written whole, with the plan's sequence number.
LockCommit(d) ==
    /\ At(d, "locking")
    /\ Set(d, op[d].row)
    /\ Goto(d, IF op[d].buildable THEN [at |-> "freezing"] ELSE Idle)
    /\ UNCHANGED <<store, journal, ledger, fmap, disk, minted, faults>>

FreezeCommit(d) ==
    /\ At(d, "freezing")
    /\ journal' = [journal EXCEPT ![d].status = "submitted"]
    /\ Goto(d, [at |-> "sending"])
    /\ UNCHANGED <<store, st, ledger, fmap, disk, minted, faults>>

\* The missing blobs are uploaded, then the commit is posted.
SendCommit(d) ==
    /\ At(d, "sending")
    /\ CallsFit
    /\ blobs' = blobs \cup ({journal[d].manifest.files[f] : f \in Files} \ {Absent})
    /\ commitCalls' = commitCalls \cup
           {[intent |-> journal[d].intent, manifest |-> journal[d].manifest]}
    /\ Goto(d, [at |-> "waiting"])
    /\ UNCHANGED <<vault, revoked, now, ackCalls, rows, ledger, fmap, disk, minted, faults>>

\* The request does not get through, or its answer does not come in time; a
\* request that got through is still in commitCalls.
GiveUp(d) ==
    /\ op[d].at \in {"sending", "waiting"}
    /\ Goto(d, [at |-> "failed", stale |-> FALSE])
    /\ Fault
    /\ UNCHANGED <<store, rows, ledger, fmap, disk, minted>>

\* The backend runs a commit; the device that waits for it hears the answer, and
\* when it is a success reads its ledger.
Answer(c) ==
    CASE CommitStatus(c.intent, c.manifest) = "created" ->
             [at |-> "committed", rev |-> HeadRev + 1, read |-> ledger[c.manifest.device]]
      [] CommitStatus(c.intent, c.manifest) = "replayed" ->
             [at |-> "committed", rev |-> commits[c.intent].rev,
              read |-> ledger[c.manifest.device]]
      [] CommitStatus(c.intent, c.manifest)
             \in {"base_revision_conflict", "manifest_conflict"} ->
             [at |-> "failed", stale |-> TRUE]
      [] OTHER -> [at |-> "failed", stale |-> FALSE]

RunCommit(c) ==
    /\ RunCommitCall(c)
    /\ LET d == c.manifest.device
       IN  op' = IF At(d, "waiting") /\ journal[d].intent = c.intent
                 THEN [op EXCEPT ![d] = Answer(c)] ELSE op
    /\ UNCHANGED <<rows, ledger, fmap, disk, minted, faults>>

-----------------------------------------------------------------------------
(* The commit succeeded: ledger, then row and journal, then filemap.       *)

\* select_pending_tombstones_for_commit selects records, the stamp goes to
\* every record of the same file.
Selected(tombs, j) ==
    {t.file : t \in {u \in Pending(tombs) : IF j.upper > 0 THEN u.seq <= j.upper
                                                           ELSE u \in j.known}}

\* Fault: every pending record is stamped, whenever it was made.
StampAllPending(tombs, j, rev) ==
    {[t EXCEPT !.rev = IF @ = 0 THEN rev ELSE @] : t \in tombs}

StampCommitted(tombs, j, rev) ==
    {[t EXCEPT !.rev = IF t.file \in Selected(tombs, j) THEN rev ELSE @] : t \in tombs}

\* rebuild_filemap_from_manifest
Rebuild(files, tombs) ==
    [f \in Files |-> CASE files[f] # Absent -> files[f]
                       [] files[f] = Absent /\ (\E t \in tombs : t.file = f) -> Deleted
                       [] OTHER -> Absent]

Applied(row, rev) ==
    [row EXCEPT !.applied = IF rev > @ THEN rev ELSE @, !.valid = TRUE, !.busy = FALSE]

FinalizeLedger(d) ==
    /\ At(d, "committed")
    /\ LET tombs == StampCommitted(op[d].read, journal[d], op[d].rev)
       IN  /\ ledger' = [ledger EXCEPT ![d] = tombs]
           /\ Goto(d, [at |-> "stamped", rev |-> op[d].rev, tombs |-> tombs])
    /\ UNCHANGED <<store, rows, fmap, disk, minted, faults>>

FinalizeState(d) ==
    /\ At(d, "stamped")
    /\ Set(d, Applied(st[d], op[d].rev))
    /\ journal' = [journal EXCEPT ![d] = NoJournal]
    /\ Goto(d, [at |-> "rewriting", files |-> journal[d].manifest.files,
                tombs |-> op[d].tombs])
    /\ UNCHANGED <<store, ledger, fmap, disk, minted, faults>>

FinalizeFilemap(d) ==
    /\ At(d, "rewriting")
    /\ fmap' = [fmap EXCEPT ![d] = Rebuild(op[d].files, op[d].tombs)]
    /\ Goto(d, Idle)
    /\ UNCHANGED <<store, rows, ledger, disk, minted, faults>>

-----------------------------------------------------------------------------
(* The commit failed: cleanup_failed_commit forgets the journal whatever   *)
(* became of the request; a 409 also marks the summary stale.              *)

\* Fault: commit_in_progress stays set.
UnlockJournalOnly(d) ==
    /\ UNCHANGED st
    /\ journal' = [journal EXCEPT ![d] = NoJournal]

Unlock(d) ==
    /\ Set(d, [st[d] EXCEPT !.busy = FALSE])
    /\ journal' = [journal EXCEPT ![d] = NoJournal]

CleanupFailed(d) ==
    /\ At(d, "failed")
    /\ Unlock(d)
    /\ Goto(d, IF op[d].stale THEN [at |-> "marking"] ELSE Idle)
    /\ UNCHANGED <<store, ledger, fmap, disk, minted, faults>>

MarkStale(d) ==
    /\ At(d, "marking")
    /\ Set(d, [st[d] EXCEPT !.valid = FALSE])
    /\ Goto(d, Idle)
    /\ UNCHANGED <<store, journal, ledger, fmap, disk, minted, faults>>

-----------------------------------------------------------------------------
(* resume_commit_recovery                                                  *)

\* orphaned_lock and prepared_cleanup
RecoverLocal(d) ==
    /\ At(d, "idle")
    /\ journal[d].status = "prepared" \/ (journal[d] = NoJournal /\ st[d].busy)
    /\ Unlock(d)
    /\ UNCHANGED <<store, ledger, fmap, disk, minted, op, faults>>

\* submitted_confirmation: the intent is looked up at the backend.
Unsettled(d) == At(d, "idle") /\ journal[d].status = "submitted"
Found(d) == commits[journal[d].intent].hash = journal[d].manifest
NotFound(d) == commits[journal[d].intent] = NoCommit

\* Fault: the device takes the observed head for what it has applied.
RecoverMatchAtHead(d) ==
    /\ Unsettled(d) /\ Found(d)
    /\ Set(d, Applied(st[d], HeadRev))
    /\ journal' = [journal EXCEPT ![d] = NoJournal]
    /\ Goto(d, [at |-> "stamping", read |-> ledger[d],
                tombs |-> StampCommitted(ledger[d], journal[d],
                                         commits[journal[d].intent].rev)])
    /\ UNCHANGED <<store, ledger, fmap, disk, minted, faults>>

RecoverMatch(d) ==
    /\ Unsettled(d) /\ Found(d)
    /\ Set(d, Applied(st[d], commits[journal[d].intent].rev))
    /\ journal' = [journal EXCEPT ![d] = NoJournal]
    /\ Goto(d, [at |-> "stamping", read |-> ledger[d],
                tombs |-> StampCommitted(ledger[d], journal[d],
                                         commits[journal[d].intent].rev)])
    /\ UNCHANGED <<store, ledger, fmap, disk, minted, faults>>

\* The filemap is not rewritten here.
RecoverLedger(d) ==
    /\ At(d, "stamping")
    /\ ledger' = [ledger EXCEPT ![d] = op[d].tombs]
    /\ Goto(d, Idle)
    /\ UNCHANGED <<store, rows, fmap, disk, minted, faults>>

RecoverMiss(d) ==
    /\ Unsettled(d) /\ NotFound(d)
    /\ Unlock(d)
    /\ UNCHANGED <<store, ledger, fmap, disk, minted, op, faults>>

-----------------------------------------------------------------------------
(* pull_and_apply                                                          *)

\* merge_manifest_tombstones pairs every tombstone of the manifest with the
\* first ledger record of its file.
First(tombs, f) ==
    CHOOSE t \in {u \in tombs : u.file = f} :
        \A u \in tombs : u.file = f => t.seq <= u.seq

Remote(tombs, f) ==
    CHOOSE t \in {u \in tombs : u.file = f} : \A u \in tombs : u.file = f => t.rev >= u.rev

Merged(tombs, remote) ==
    LET inLedger   == {t.file : t \in tombs}
        inManifest == {t.file : t \in remote}
        paired     == {First(tombs, f) : f \in inLedger \cap inManifest}
    IN  (tombs \ paired)
        \cup {[t EXCEPT !.rev = IF @ = 0 THEN Remote(remote, t.file).rev ELSE @,
                        !.at = IF Remote(remote, t.file).at > @
                               THEN Remote(remote, t.file).at ELSE @] : t \in paired}
        \cup {[file |-> f, rev |-> Remote(remote, f).rev, at |-> Remote(remote, f).at,
               seq |-> 0] : f \in inManifest \ inLedger}

\* converge_manifest_state: when the manifest carries no tombstone of a file and the
\* revision of one of its records is covered, all records of the file are dropped,
\* a later pending one too.
Covered(t, target) == t.rev > 0 /\ t.rev <= target

\* Fault: a record that is still pending counts as covered.
ConvergedWithoutPending(tombs, remote, target) ==
    {t \in Merged(tombs, remote) : t.rev > target \/ \E u \in remote : u.file = t.file}

Converged(tombs, remote, target) ==
    LET gone == {t.file : t \in {u \in Merged(tombs, remote) : Covered(u, target)}}
                    \ {u.file : u \in remote}
    IN  {t \in Merged(tombs, remote) : t.file \notin gone}

\* Head and manifest are fetched, the ledger read.
Fetch(d) ==
    /\ At(d, "idle")
    /\ ~st[d].busy
    /\ HeadRev > 0
    /\ ~st[d].valid \/ HeadRev > st[d].applied
    /\ Goto(d, [at |-> "fetched", target |-> HeadRev, before |-> fmap[d],
                read |-> ledger[d],
                tombs |-> Converged(ledger[d], TombsAt(HeadRev), HeadRev)])
    /\ UNCHANGED <<store, rows, ledger, fmap, disk, minted, faults>>

\* Fault: the row is written before the filemap.
PullFilemapAfterState(d) ==
    /\ At(d, "fetched")
    /\ Set(d, [st[d] EXCEPT !.applied = IF op[d].target > @ THEN op[d].target ELSE @,
                            !.pulled = op[d].target, !.valid = TRUE])
    /\ Goto(d, [op[d] EXCEPT !.at = "rebuilt"])
    /\ UNCHANGED <<store, journal, ledger, fmap, disk, minted, faults>>

PullFilemap(d) ==
    /\ At(d, "fetched")
    /\ fmap' = [fmap EXCEPT ![d] = Rebuild(FilesAt(op[d].target), op[d].tombs)]
    /\ Goto(d, [op[d] EXCEPT !.at = "rebuilt"])
    /\ UNCHANGED <<store, rows, ledger, disk, minted, faults>>

PullLedger(d) ==
    /\ At(d, "rebuilt")
    /\ ledger' = [ledger EXCEPT ![d] = op[d].tombs]
    /\ Goto(d, [at |-> "converged", target |-> op[d].target, before |-> op[d].before])
    /\ UNCHANGED <<store, rows, fmap, disk, minted, faults>>

PullState(d) ==
    /\ At(d, "converged")
    /\ Set(d, [st[d] EXCEPT !.applied = IF op[d].target > @ THEN op[d].target ELSE @,
                            !.pulled = op[d].target, !.valid = TRUE])
    /\ Goto(d, [op[d] EXCEPT !.at = "acking"])
    /\ UNCHANGED <<store, journal, ledger, fmap, disk, minted, faults>>

\* Fault: the head is acknowledged, whatever was applied.
AcknowledgeHead(d, heard) ==
    /\ At(d, "acking")
    /\ AckRevisions(d, HeadRev)
    /\ Goto(d, IF heard THEN [op[d] EXCEPT !.at = "applying"] ELSE Idle)
    /\ IF heard THEN UNCHANGED faults ELSE Fault
    /\ UNCHANGED <<revoked, blobs, now, calls, rows, ledger, fmap, disk, minted>>

\* Every revision ever pulled is acknowledged again, the greatest of them
\* last.  An exchange that fails ends the pull right there.
Acknowledge(d, heard) ==
    /\ At(d, "acking")
    /\ AckRevisions(d, st[d].pulled)
    /\ Goto(d, IF heard THEN [op[d] EXCEPT !.at = "applying"] ELSE Idle)
    /\ IF heard THEN UNCHANGED faults ELSE Fault
    /\ UNCHANGED <<revoked, blobs, now, calls, rows, ledger, fmap, disk, minted>>

\* Fault: the pending revisions are forgotten when the exchange fails.
AckLostForGood(d) ==
    /\ At(d, "acking")
    /\ Goto(d, Idle)
    /\ Set(d, [st[d] EXCEPT !.pulled = 0])
    /\ Fault
    /\ UNCHANGED <<store, journal, ledger, fmap, disk, minted>>

AckLost(d) ==
    /\ At(d, "acking")
    /\ Goto(d, Idle)
    /\ Fault
    /\ UNCHANGED <<store, rows, ledger, fmap, disk, minted>>

\* With nothing to fetch the pending revisions are acknowledged all the same.
AcknowledgeAgain(d) ==
    /\ At(d, "idle")
    /\ ~st[d].busy /\ st[d].valid
    /\ HeadRev <= st[d].applied
    /\ st[d].pulled > 0
    /\ AckRevisions(d, st[d].pulled)
    /\ UNCHANGED <<revoked, blobs, now, calls, client>>

\* The plan compares the manifest with the filemap as it was before the pull:
\* new and changed files are written, files that are gone are removed, and a
\* file the user has changed meanwhile is kept as a conflict copy.
Writes(target, before) ==
    {f \in Files : FilesAt(target)[f] # Absent
                   /\ (f \notin Live(before) \/ before[f] # FilesAt(target)[f])}
Removes(target, before) == {f \in Live(before) : FilesAt(target)[f] = Absent}
Dirty(d, f) == disk[d][PathOf[f]] \notin {Absent, op[d].before[f]}

ApplyWorkspace(d) ==
    /\ At(d, "applying")
    /\ LET target  == op[d].target
           before  == op[d].before
           writes  == Writes(target, before)
           removes == Removes(target, before)
       IN  /\ disk' = [disk EXCEPT ![d] =
                  [p \in Paths |->
                     IF \E f \in writes : PathOf[f] = p
                     THEN FilesAt(target)[CHOOSE f \in writes : PathOf[f] = p]
                     ELSE IF \E f \in removes : PathOf[f] = p THEN Absent ELSE @[p]]]
           /\ Set(d, [st[d] EXCEPT !.conflict =
                  @ \/ \E f \in (writes \cap Live(before)) \cup removes : Dirty(d, f)])
    /\ Goto(d, Idle)
    /\ UNCHANGED <<store, journal, ledger, fmap, minted, faults>>

\* A blob cannot be downloaded, or the process is killed and the recovery of
\* the apply journal degrades: the workspace stays as it was.
AbandonApply(d, stale) ==
    /\ At(d, "applying")
    /\ Set(d, [st[d] EXCEPT !.valid = @ /\ ~stale])
    /\ Goto(d, Idle)
    /\ Fault
    /\ UNCHANGED <<store, journal, ledger, fmap, disk, minted>>

\* The process dies between two steps.  While the apply journal is held the
\* restart carries on with it (ApplyWorkspace) or degrades (AbandonApply).
Crash(d) ==
    /\ op[d].at \notin {"idle", "applying"}
    /\ Goto(d, Idle)
    /\ Fault
    /\ UNCHANGED <<store, rows, ledger, fmap, disk, minted>>

-----------------------------------------------------------------------------

DeviceStep(d) ==
    \/ AppendTombstone(d) \/ CountDelete(d)
    \/ LockCommit(d) \/ FreezeCommit(d) \/ SendCommit(d) \/ GiveUp(d)
    \/ FinalizeLedger(d) \/ FinalizeState(d) \/ FinalizeFilemap(d)
    \/ CleanupFailed(d) \/ MarkStale(d)
    \/ RecoverLocal(d) \/ RecoverMatch(d) \/ RecoverLedger(d) \/ RecoverMiss(d)
    \/ Fetch(d) \/ PullFilemap(d) \/ PullLedger(d) \/ PullState(d)
    \/ AckLost(d) \/ AcknowledgeAgain(d)
    \/ ApplyWorkspace(d) \/ Crash(d)

Turn ==
    \/ \E d \in Devices, p \in Paths, content \in Blobs \cup {Absent} : UserWrite(d, p, content)
    \/ \E d \in Devices, f \in Files : DeleteNote(d, f)
    \/ \E d \in Devices : ResolveConflicts(d)
    \/ \E d \in Devices, i \in Intents : PrepareCommit(d, i)
    \/ \E d \in Devices : DeviceStep(d)
    \/ \E d \in Devices, choice \in BOOLEAN : Acknowledge(d, choice) \/ AbandonApply(d, choice)
    \/ \E c \in commitCalls : RunCommit(c)
    \/ RunTombstoneGC(Retention) /\ UNCHANGED client
    \/ Tick /\ UNCHANGED client

CNext ==
    \/ Turn /\ UNCHANGED beside
    \/ \E d \in Tandem : DeletesBeside(d)

CSpec == CInit /\ [][CNext]_cvars

\* The sync worker's cycle: it recovers, submits what the workspace has changed, and
\* pulls and acknowledges.  A submit that is refused ends the cycle, so the pull is
\* reached when there is nothing to submit, or when the recovery found the row stale
\* and pulls first.  What the device has begun it goes on with; the backend answers
\* the requests it has accepted.  Users are not assumed to do anything, nor are
\* their changes assumed to be committed.
ReachesPull(d) == ~st[d].valid \/ ~Submits(d)

UnderWay(d) ==
    \/ AppendTombstone(d) \/ CountDelete(d)
    \/ LockCommit(d) \/ FreezeCommit(d) \/ SendCommit(d)
    \/ FinalizeLedger(d) \/ FinalizeState(d) \/ FinalizeFilemap(d)
    \/ CleanupFailed(d) \/ MarkStale(d) \/ RecoverLedger(d)
    \/ PullFilemap(d) \/ PullLedger(d) \/ PullState(d)
    \/ Acknowledge(d, TRUE) \/ ApplyWorkspace(d)

WorkerFairness ==
    /\ \A d \in Devices :
          /\ WF_turns(UnderWay(d))
          /\ WF_turns(RecoverLocal(d) \/ RecoverMatch(d) \/ RecoverMiss(d))
          /\ WF_turns(Fetch(d) /\ ReachesPull(d))
          /\ WF_turns(AcknowledgeAgain(d) /\ ReachesPull(d))
    /\ WF_turns(\E c \in commitCalls : RunCommit(c))
    /\ WF_turns(RunTombstoneGC(Retention) /\ UNCHANGED client)
    /\ WF_turns(Tick /\ UNCHANGED client)

-----------------------------------------------------------------------------
(* Properties                                                              *)

Step == [at : {"idle", "freezing", "sending", "waiting", "marking"}]
        \cup [at : {"deleting"}, tomb : LocalTombstone]
        \cup [at : {"counting"}, seq : Nat]
        \cup [at : {"locking"}, row : VaultState, buildable : BOOLEAN]
        \cup [at : {"failed"}, stale : BOOLEAN]
        \cup [at : {"committed"}, rev : Nat, read : SUBSET LocalTombstone]
        \cup [at : {"stamped"}, rev : Nat, tombs : SUBSET LocalTombstone]
        \cup [at : {"rewriting"}, files : FileTable, tombs : SUBSET LocalTombstone]
        \cup [at : {"stamping"}, read : SUBSET LocalTombstone, tombs : SUBSET LocalTombstone]
        \cup [at : {"fetched", "rebuilt"}, target : Nat, before : FileMap,
              read : SUBSET LocalTombstone, tombs : SUBSET LocalTombstone]
        \cup [at : {"converged", "acking", "applying"}, target : Nat, before : FileMap]

BesideStep == {Idle}
        \cup [at : {"removing"}, file : Files, before : FileMap, row : VaultState,
              tomb : LocalTombstone]
        \cup [at : {"recording"}, row : VaultState, tomb : LocalTombstone]
        \cup [at : {"counting"}, row : VaultState]

\* Every variable keeps its shape.
CTypeOK ==
    /\ TypeOK
    /\ st \in [Devices -> VaultState]
    /\ journal \in [Devices -> Journal]
    /\ ledger \in [Devices -> SUBSET LocalTombstone]
    /\ fmap \in [Devices -> FileMap]
    /\ disk \in [Devices -> [Paths -> Blobs \cup {Absent}]]
    /\ minted \in SUBSET (Files \cup Intents)
    /\ op \in [Devices -> Step]
    /\ faults \in Nat
    /\ beside \in [Devices -> BesideStep]

Author(r) == commits[history[r].by].hash.device
Written == {r \in 1..HeadRev : history[r].by # Server}

\* No device silently drops what another one contributed: when a commit drops a
\* file of the head that another device brought in, the revision carries a
\* tombstone of it.  A device that built on a revision its filemap has not caught
\* up with would drop files it never saw.  (Almost always the tombstone is stamped
\* with that revision; one of an earlier deletion does for build_commit_manifest
\* when the application died between removing the file and writing the record.)
Dropped(f, r) == FilesAt(r - 1)[f] # Absent /\ FilesAt(r)[f] = Absent
Brought(f, r) == FilesAt(r - 1)[f] = Absent /\ FilesAt(r)[f] # Absent
Marked(f, r) == \E t \in TombsAt(r) : t.file = f

OthersFilesLeaveMarkers ==
    \A r \in Written : \A f \in Files :
        Dropped(f, r) => \/ Marked(f, r)
                         \/ \E q \in Written : q < r /\ Brought(f, q) /\ Author(q) = Author(r)

\* A long-offline device does not bring a deleted id back: an id that was gone
\* from the head reappears only in a commit of the device that deleted it.
DeletionsStick ==
    \A r \in Written : \A f \in Files :
        Brought(f, r) /\ (\E q \in Written : q < r /\ Brought(f, q))
            => \E q \in Written : q < r /\ Dropped(f, q) /\ Author(q) = Author(r)

\* A stamp in a ledger is true: the revision it names exists and holds the
\* tombstone.  A deletion made while a commit was in doubt must not be stamped
\* with that commit when recovery finds it.
StampsAreTrue ==
    \A d \in Devices : \A t \in ledger[d] :
        t.rev > 0 => \E u \in TombsAt(t.rev) : u.file = t.file /\ u.rev = t.rev

\* An ack means the revision was applied: what the server believes a device has
\* is in its filemap's row, or is the device's own commit on top of that.
AckMeansApplied ==
    \A d \in Devices :
        \/ acks[d] <= st[d].applied
        \/ \E i \in Intents : commits[i] # NoCommit /\ commits[i].hash.device = d
                              /\ commits[i].rev = acks[d]
                              /\ commits[i].hash.base <= st[d].applied

\* What collection promises: once a tombstone has been reclaimed no device that
\* counted as active still lists the file, unless the file is back since, or the
\* deletion was the device's own and it has applied nothing of others after it.
OwnSince(d, r, last) == \A q \in r + 1 .. last : q \in Written /\ Author(q) = d

ReclaimedEverywhere ==
    \A g \in gcRuns : \A t \in g.reclaimed : \A d \in g.active :
        fmap[d][t.file] \in Blobs
            => \/ \E r \in t.rev .. HeadRev : FilesAt(r)[t.file] # Absent
               \/ Author(t.rev) = d /\ OwnSince(d, t.rev, st[d].applied)

\* A deletion the user made is not forgotten: a pending record leaves the ledger
\* only by being stamped, with two exceptions.  An operation that is about to
\* rewrite the ledger from what it read before loses a record made since; and a pull
\* that reclaims an earlier record of the file takes the later one with it.
Rewrites(d) == op[d].at \in {"committed", "stamping", "rebuilt"}
MadeSinceRead(d, t) == d \in Tandem /\ Rewrites(d) /\ t \notin op[d].read
ReclaimedWithEarlier(d, t) ==
    /\ At(d, "rebuilt")
    /\ \E v \in ledger[d] : v.file = t.file /\ v.rev > 0
    /\ \A u \in ledger'[d] : u.file # t.file

PendingDeletionsSurvive ==
    [][ \A d \in Devices : \A t \in Pending(ledger[d]) :
          \/ \E u \in ledger'[d] : u.file = t.file /\ u.seq = t.seq
          \/ MadeSinceRead(d, t)
          \/ ReclaimedWithEarlier(d, t) ]_cvars

\* Every device comes to have applied the head, whatever failed on the way, unless
\* its worker finds something to submit again and again.
HeldUp(d) == []<>~ReachesPull(d)
DevicesCatchUp == \A d \in Devices : <>[](st[d].applied = HeadRev) \/ HeldUp(d)

\* No delete marker stays in the head for ever: lost acks are repeated until
\* they arrive, and then the worker collects.  A device whose worker is held up by
\* what it cannot submit holds up the collection.  Markers whose window ends after
\* the bounded clock are left out.
MarkersAreCollected ==
    <>[](\A t \in TombsAt(HeadRev) : ~Ages(t)) \/ \E d \in Devices : HeldUp(d)

-----------------------------------------------------------------------------
(* What the documents promise and the code does not keep                   *)

\* A clean device brings no deleted path back: a device whose user never touches
\* the workspace publishes no path that the revision before did not have.
Listed(r) == {PathOf[f] : f \in {g \in Files : FilesAt(r)[g] # Absent}}

CleanDevicesResurrectNothing ==
    \A r \in Written : Author(r) \notin Editors => Listed(r) \subseteq Listed(r - 1)

=============================================================================
