# Personal knowledge base: models, checks and proofs

The program keeps one vault of notes in step on several devices. A FastAPI
backend (`apps/backend/noteapp-server`) stores encrypted blobs and a chain of
manifests; a desktop client (`clients/desktop` on `packages/vault-core`) detects
what changed in a folder, commits it with compare-and-swap on the revision it
has applied, pulls what others committed and writes it to the folder. This
directory holds TLA+ modules of that core, TLC configurations for them and
proofs that TLAPS checks.

## Inventory

| Part | State | Operations | What makes it correct |
| --- | --- | --- | --- |
| Vault store, `sync_store.py` | per vault: head, manifests, commits by intent, acks, collection runs | `create_commit`, `resolve_commit_intent`, `ack_revisions`, `run_tombstone_gc`, `delete_device` | history is append-only and linear, an intent takes effect at most once, a delete marker leaves only when no active device needs it, every revision can be downloaded |
| State repository, `sync_repository.py` and the scripts beside it | the whole state as a JSON file or a SQLite row | load, save, atomic update, import, backup, restore | what was answered is kept, or was taken back by an import or a restore |
| HTTP service, `main.py` | the store, the collection worker | authorise, then call | a call uses the authority it was given |
| Device: rows, `sqlite_store.py` | `vault_state`, `commit_intent_journal`, `sync_apply_journal` | transactional row updates | rows agree with the files beside them after any crash |
| Device: files | `filemap.json`, tombstone ledger, workspace, apply plan, staging | atomic rewrite of each | ids are stable, deletions are remembered |
| Commit path | in memory: plan, frozen manifest | detect, prepare, freeze, submit, finalise, clean up, recover | what is committed is what the user has, on a base the device has seen |
| Pull path | in memory: head, manifest, plan | fetch, converge, acknowledge, stage, materialise, finalise, recover | what is acknowledged is applied; local edits survive |
| Notes, `service.py` | filemap, folder, trash, drafts, search index | import, create, save, rename, move, delete, restore, purge | no operation or crash loses bytes; what is in the trash can be restored |
| AI writeback, `service.py` | confirmation token, draft | preview, apply | typed text is not replaced by an answer to an older text |
| Worker and panel, `runner.py`, `worker.py`, `service.py` | row, journals, flags, failure counter | recover, submit, pull; the actions a panel offers | every device catches up; the user is never led into a dead end |
| Blob transfer, `sync_store.py`, `sync_client.py` | capabilities, chunks, objects | init, put, complete, range read | what is offered is whole, what is assembled is the blob, uploads end |
| Accounts and sessions, `sync_store.py` | accounts, sessions, access and refresh tokens | register, login, refresh, logout, heartbeat, revoke | tokens and sessions agree; a revoked device does nothing |
| File versions, `sync_store.py` | records per file | recorded with each commit, pinned, listed, retired, restored | retention takes the oldest unpinned, a listing misses nothing that stays |
| UI, bridge, shell, CLI, ai-core, crypto, formats | none of the sync | | outside the sync state |

Devices and backend share nothing but requests. Every store method holds one
lock, but a request is authorised under the lock and runs after it was let go.
On a device five durable things are written one after the other with no
transaction around them, the process may be killed between any two, and the
user changes the folder whenever they like. That is where the hard behaviours
are: interleaved commits, lost answers, repeated calls, half finished pulls,
deletions that meet collection, two processes on one vault. PROJECT.json lists them with their lines.

## Modules

| Module | What it models |
| --- | --- |
| `RevisionLog` | the abstract promise of a vault: a log in which an intent commits at most once, on the newest entry, and collection never changes the files |
| `SyncStore` | one vault of the backend |
| `CommitSync` | devices committing and pulling through `SyncStore`, which it extends |
| `JournalledUpdate` | the abstract promise of an apply: announced before it touches the workspace, done with every file in place, dropped half way only with a row that says so |
| `PullApply` | one device writing a pulled manifest to its workspace, step by step |
| `ContentSnapshot` | one device reading, staging, uploading and posting the notes of a commit while the user saves |
| `WorkspaceNotes` | the operations on notes, write by write |
| `AiWriteback` | preview and apply of generated text |
| `SyncCenter` | worker process and panel process on one vault |
| `Accounts` | accounts, device sessions, tokens |
| `BlobTransfer`, `BlobDownload` | uploads and downloads of blobs |
| `FileVersions` | versions, pins, retention, listing |
| `StateRepository` | where the backend keeps its state |
| `SyncStoreProofs`, `CommitSyncProofs`, `PullApplyProofs`, `ContentSnapshotProofs` | theorems about the module in the name |
| `NotesProofs` | theorems about `WorkspaceNotes` and `AiWriteback` |
| `BackendProofs` | theorems about `Accounts`, `BlobDownload`, `FileVersions` and `StateRepository` |
| `PartsProofs` | theorems about `MCParts` |
| `ProgressProofs` | theorems about `BlobTransfer` and, through `MCProgress`, `SyncCenter` |
| `MCSyncStore`, `MCCommitSync`, `MCPullApply` | instances for TLC |
| `MCParts`, `MCProgress` | several components that share no state, in one instance each: the initial state chooses which of them a behaviour is about |

`CommitSync` extends `SyncStore`, so its backend is that module and nothing else.
The other modules look into one of its steps, or under its backend:
`PullApply` into `ApplyWorkspace`, `ContentSnapshot` into what `FreezeCommit`
takes for granted (the notes of a manifest were there together),
`BlobTransfer` into `UploadBlob`, `StateRepository` under every locked method,
`Accounts` before it. They are not composed with it: each makes the promise the
module above relies on, over the steps where it could be broken.

### SyncStore

`history` is `vault.manifests` in revision order; its length is the head.
`commits` holds, by intent, the payload (which stands for its digest) and the
revision; `joined` and `acks` are the keys and values of `vault.acks`;
`gcRuns` keeps the collection runs that reclaimed something. One action is one
locked method: `CreateRevision`, `ReplayCommit` and `RejectCommit` are the ways
`create_commit` can end, `AckRevisions` and `DeleteDevice` run the collection
within themselves as the code does, `RunTombstoneGC` is the worker and the
manual endpoint. `AuthoriseCommit` and `AuthoriseAck` are the step in `main.py`
before the lock: what they put in `commitCalls` and `ackCalls` runs any time
later, after revocations, collections and other commits, and may be sent again.
Devices send manifests on any revision they may have pulled, with the tombstones
of that revision they still hold and pending ones of any file, listed or not: a
pull makes the record of a file active again and keeps the deletion the user made
before (`convergence.py:87`), and the next commit sends both. What
`build_commit_manifest` refuses is a removed file without a tombstone (`Sendable`).
The backend stamps every pending tombstone of a payload, so a stamp says with which
commit the tombstone came, and not that the file left in it: that is all
`StampNamesItsCommit` claims.

Clocks: `now` is shared by devices and backend; deletion times are taken from it
and never lie in the future. Summaries are left out; versions, transfers and
sessions are in modules of their own. `WorkerSpec` adds the loop of
`TombstoneGcWorker` as fairness.

### CommitSync

| Variable | In the program |
| --- | --- |
| `st` | the `vault_state` row: applied revision, greatest pending ack, delete sequence, lock, summary valid, conflict flag |
| `journal` | the `commit_intent_journal` row with the manifest it was frozen for |
| `ledger`, `fmap` | tombstone ledger, `filemap.json` |
| `disk` | the workspace: content of each synced path |
| `minted` | ids handed out by `uuid4` |
| `op` | what the running commit, pull or recovery has in memory and how far it is |
| `beside` | the deletion the application is in the middle of beside it |
| `faults` | counter of crashes, lost exchanges, failed applies and deletions beside an operation (bound `MaxFaults`) |

An action is one durable write, one request, or one thing the user does:

- `UserWrite`, `DeleteNote` / `AppendTombstone` / `CountDelete`,
  `ResolveConflicts`: the user, directly in the folder or through the program;
- `PrepareCommit`, `LockCommit`, `FreezeCommit`, `SendCommit`, `RunCommit`,
  `FinalizeLedger`, `FinalizeState`, `FinalizeFilemap`: a commit that succeeds.
  `RunCommit` is the backend's `RunCommitCall`; a call whose device gave up may
  still run;
- `GiveUp`, `CleanupFailed`, `MarkStale`: one that does not;
- `RecoverLocal`, `RecoverMatch` / `RecoverLedger`, `RecoverMiss`: what a restart
  does with a lock or a journal it finds;
- `Fetch`, `PullFilemap`, `PullLedger`, `PullState`, `Acknowledge`, `AckLost`,
  `AcknowledgeAgain`, `ApplyWorkspace`, `AbandonApply`: a pull. Applying the
  workspace is one step, or none;
- `Crash` between any two steps;
- `BeginBeside`, `RemoveBeside`, `RecordBeside`, `CountBeside`, `QuitBeside`: the
  application deletes a note while one of the above is under way.

What an operation has read it keeps until it writes: `Fetch` takes the ledger into
`op`, and `PullLedger` writes what it made of that, whatever the ledger has become.
A read belongs to the request it comes with, before it or after. The application
runs its commands one at a time (`sync-shell-bridge.mjs:839,885,1126`, `spawnSync`),
but `sync-worker` is a process of its own and `delete_workspace_note` takes no lock,
although `docs/contracts/filemap.md:40` wants the filemap written by one writer in
turn. `Tandem` is the set of devices on which both are at work. There the application
writes the filemap and the row whole, as it read them before, and appends to the
ledger. Types, pending deletions and liveness are checked with such a device, and
types, pending deletions and the exactly-once log are proved for any; acks, stamps, dropped files and
collections are claimed for devices on which the processes take turns
(`Tandem = {}`), since a whole row or filemap written back by the other process
takes back a revision that was applied and acknowledged.

Left out: renames and moves (`PathOf` is constant), commits of chosen files,
the ledger compaction, and IO errors other than those a crash or a failed apply
stands for. It over-approximates: a device commits after a pull although the
drift check would stop it (run `commits_blocked`), so that what it promises also
holds once that is mended.

### PullApply

| Variable | In the program |
| --- | --- |
| `before`, `target` | active filemap records when the pull began, and those of the pulled manifest |
| `disk` | the workspace |
| `staging`, `orphans` | `.noteapp/staging/<file_id>.staging` and the orphans a recovery sets aside |
| `copies` | conflict copies: whose, and the bytes |
| `phase`, `planFile` | phase of the `sync_apply_journal` row, `sync-apply-plan.json` |
| `stale`, `conflict` | `last_manifest_summary_status`, `has_unresolved_conflicts` |
| `op` | the running apply: its step, the items left, the item in hand and the bytes seen |
| `touched`, `saved` | bookkeeping for the properties: what the user changed, and what counts as saved |
| `faults`, `edits` | counters (bounds `MaxFaults`, `MaxEdits`) |

The plan (`Written`, `Moved`, `Removed`, `Blocking`) is computed from `before` and
`target` as `_build_pull_apply_plan` does. `Plan`, `Prepare`, `WritePlan`,
`StageFile`, `EndStaging` and `StagingFails` are the staging;
`apply_staged_pull_plan` is a walk through five lists of items, each of which is
first looked at (`Look`: hashed, and preserved when dirty) and then acted on
(`Leave`, `Remove`, `Write`, `ArriveStaged`, `ArriveDirect`), or found
inapplicable (`Raise`). `BeginRewrite`, `BeginFinalizing`, `FinalizeApply`,
`SweepStaging` and `RemovePlan` end an apply. `Kill` may come after any of them.
`Recover` replays, finalises or degrades according to the phase; degrading is
`MarkStale`, `ClearJournal`, `Isolate` and `RemovePlan`; `Disown` and `Doubt` are
the recovery that finds no journal, or no plan. The user saves and removes files
between any two steps.

`JournalledUpdate` is what a reader of the row may think of all this. Its `status`
is the phase of the journal (the last two phases are both "done"), `missing` the
files of the manifest that are not at their paths, those whose path the user
changed excepted (`Misplaced`), `doubt` the stale mark. Steps of the apply, of
recoveries and of the user map to its steps or to stutters
(`ImplementsJournalledUpdate`).

Left out: a second pull on top of an unfinished one (the journal blocks it), a
plan file that does not parse, records that are not notes or attachments, IO
errors other than those of staging, the bounded thread pool of the downloads,
and a kill between a conflict copy and its filemap record.

### ContentSnapshot

`onDisk` is the folder, `record` hash and `source_version_token` of each filemap
record, `attempt` what a commit has in memory: its step, the notes still to do,
the one being read (`open`), what was found modified, the plan and the bytes.
`plain` and `cipher` are the two staging directories, `journal` the intent,
`head`, `blobs`, `behind` the backend and whether it moved on. `Detect`,
`ReadBytes`/`PlanRecord`, `ReadBytes`/`Reload` are the three passes over the
folder, one note a step, bytes before stat as in the code; `Save` may come
between any two. `RestoreVersion` is `restore_file_version`, which enters at the
third pass. `moments` is bookkeeping: each state the folder was in since the
attempt began. Different saves have different time stamps in the model; two in
one millisecond with equal size but other bytes are caught by the hash that is in
the token as well.

### WorkspaceNotes

`disk`, `trash`, `filemap`, `drafts`, `ledger`, `index` and `deletes` are files
and rows; `op` is the running operation with the writes it still owes, in the
order of the code; each is a step (`NextStep`), a `Crash` drops the rest and puts
the note in `cut`. Texts stand for versions that differ in more than their links.
A folder operation and the `exists()` test before it are one step.

### AiWriteback

`saved`, `draft`, `typed` are the note, its draft and what the user put in;
`confirmations` the tokens previews gave out, with the hash before and after;
`notes`, `tracked` and `creating` a folder of generated notes. `LockWord` is a
locked block, which no write-back may touch.

### SyncCenter

`row` has the three parts of `vault_state` that gate a commit; `applying`,
`intent`, `copies`, `orphans` are the journals and conflict artifacts; `job` has,
for the worker and the panel, the step of the running command and the snapshot it
read, which it writes back whole. `leftovers` are staged files or a plan no journal
belongs to: a recovery that finds them marks the row stale (`RecoverOrphaned`), and
the clean-up at the end of an apply or a recovery (`CleanUp`) takes the files of the
other process's apply for its own. `differs` says that the filemap does not list
what the head does, without which a pull has nothing to stage and makes no journal.
`overtaken` are the processes whose pull read the row before the other moved it on.
A pull downloads a manifest when the row it read is stale or behind (`Downloads`),
and then stages and applies it; with nothing new it raises ("pull manifest is
required", `service.py:5977`), and the iteration counts as failed. The worker pulls
before it submits when a recovery left no valid baseline (`PullsFirst`), otherwise
after. `Primary` and `Offered` are
`build_sync_panel_model` and `build_sync_center_model`; `Choose` runs one of
`Remedies`, the offered actions that change something. Only the last is taken by
a user who wants to get on. `loop` and `health` are the worker's counters and
state file. The initial state is a fresh vault or one imported from a package
(`import_vault_package`) with the conflicts that came along.

### Accounts, BlobTransfer, BlobDownload, FileVersions, StateRepository

`Accounts`: `owner`, sessions and the two token tables as they are in the state;
tokens are numbered by issue, expiry is by the clock. A request is authorised in
one step and runs in another; legacy devices authorise without a session. Answers
of a refresh may be lost, after which the device has the old token.

`BlobTransfer`: `object` says whether the bytes in the object store are none,
torn or whole, `available` what `state["blobs"]` lists; a method that raises or
dies between files and state is an action of its own (`BlobUploadCut`, `ChunkCut`,
`CompleteCut`). Expiry of a session is a flag.

`BlobDownload`: one device fetches one blob of `Size` bytes whole or by ranges it
chooses, in any order; a range may fail or the object be cut off. A ranged download
is put together range by range (`StartAssembly`, `JoinRange`, `Assemble`), each
taken from those left by its offset, as `_assemble_complete_resumable_downloads`
walks the sorted list.

`FileVersions`: `versions` as recorded by commits, with pins; a listing reads page
by page while commits, pins and retention go on. A page is the versions whose
positions, counted from the newest (`NewestFirst`), are the next ones.

`StateRepository`: a state is the set of calls that changed it. `profile` is JSON
(one process) or SQLite (any number); a process reads, then writes its whole
state, `SaveState` refusing when the version moved; `undone` collects the calls an
import or a restore took back.

## Runs

| Run | Instance | Shows |
| --- | --- | --- |
| `store` | 2 devices, 3 intents, 1 file, 1 blob, clock 0..1, one waiting call, one tombstone a payload (`SmallPayloads`) | the history is linear, idempotent, downloadable; acks, tombstones and collections agree with it |
| `store_live` | the same with 2 intents, fair | the vault implements `RevisionLog`; acknowledged markers are collected |
| `commit_race` | 2 editors, 1 path, 2 fresh intents; a race without faults over 2 files, one blob more on one device; or a commit in doubt the backend took, 3 files, 1 blob, application deletions on one device, and 1 more fault (`ContendedInit`, `ContendedBounds`) | racing and recovering devices drop nothing of each other, deletions stick, stamps are true |
| `commit_faults` | 1 editor, 3 files, 2 faults, 2 waiting calls | any two faults, and a commit call that arrives after its successor: what is acknowledged was applied, collection is safe |
| `commit_live` | 1 editor with worker and application at work (`Tandem`), 2 files, 1 fault or deletion beside an operation, retention 1, clock 0..1, fair | pending deletions survive; devices whose worker is not held up catch up, and markers leave |
| `apply_moves` | any two manifests of 3 files on 3 paths, 2 contents, 2 kills or failures, no edits | a finished apply is right, moved bytes are kept, no false conflicts undisturbed |
| `apply_edits` | 2 files on 3 paths, 2 faults, 1 edit, fair | the same with a user at work; saves survive; every apply ends, and implements `JournalledUpdate` |
| `parts` | `MCParts`: accounts, downloads, versions, repository, notes, AI write-back, content snapshot | tokens, downloads, listings, answered calls, trash, typed text, commits of one moment, swept staging, final revocation, retention, nothing overwritten |
| `progress` | `MCProgress`: uploads; worker and panel; fair | offered blobs are whole; uploads end; the panel leads back to a commit |
| `resurrection` | `CommitSync`, 1 editor, 1 fault | violated: a device that only lagged publishes a deleted file |
| `apply_data_loss` | `PullApply`, 1 fault | violated: a replay removes a file that had arrived |
| `commits_blocked` | `ContentSnapshot` | violated: a pulled note stands in the way of commits |

Bounds. Two devices are the writer and the one that lags behind, and both roles
are taken by both; three intents are a first commit and two that race or retry,
or one before and one after a collection; one path is enough for every conflict
between two ids of a path; two blobs tell an edit from what was there. Counters
(`history`, ledgers, `minted`) are bounded by the intents: a revision needs an
intent or a tombstone to collect. `commit_race` delays user edits to the points
where the program looks at the folder (`UserWritesWhenRead`): an edit in between
commutes with the steps it is delayed over. `SmallPayloads` keeps `store` small: a
payload has one tombstone, a pending one only of a file of its base, and lists that
file besides on top of the first revision only, which is enough for a stamp in a
revision that keeps the file, a replay of it and a collection after it. `SomeoneStays` leaves one device unrevoked
in `store`; `store_live` revokes both.
`FirstFileBeside` lets the application delete, beside another operation, the file
both devices have at first. Symmetry is used in safety runs only.
Three paths give `PullApply` swaps, rotations and a path left by one file and
taken by another while a third moves; two contents give files with equal bytes;
two faults are a killed apply and a killed recovery. Drafts differ from every
content, so that a user's bytes are told from the program's. `apply_edits` checks
liveness, so it fixes names in the initial state instead of using symmetry
(`NamedSpec`). Deadlock is not checked where the system may really stop: an
applied pull, a device that has nothing to do, counters at their bound.

In `parts`: an access token lives one tick, a refresh token two, the clock goes to
two, so both expire; one device is plain and one legacy; two requests may wait at
once. `KeepLatest` 2 and five commits retire versions with pins among them, pages
of one make every listing walk over changes. Three calls, one of them through
`update`, four versions of the row and two processes give a stale read before and
after another's write, an import and a restore. Two ids on two note paths and one
attachment path with three operations give delete, re-create at the path, restore.
Two notes and two contents with two saves give each mixed snapshot two reads can
see. The components have names in common (two notes of the folder are two paths of
the other notes, and the commit's contents are their paths), so that one symmetry
serves both. In `progress`: one device with capabilities, one with chunks, a blob of two
chunks and an empty one, two faults or expiries during an upload; one mishap
between two processes (`MaxMishaps`: a failure, a kill, a commit of others, or a
note made or removed; edits are free), one artifact.

Fairness. `WorkerSpec` has the collection thread of `main.py` and the clock;
no device is assumed to act. `WorkerFairness` has the worker of a device and a
backend that answers accepted calls. A cycle (`runner.py:139`) recovers, submits, and
then pulls and acknowledges; a submit that is refused, for the conflict flag or for
drift of a note, raises out of the cycle before its pull. So the pull is fair only
while there is nothing to submit, or the recovery found the row stale and pulls first
(`ReachesPull`). What was begun is gone on with. The next cycle comes whatever
happened in this one, because the worker goes on after errors unless told otherwise
(`worker_state.py:63`, `cli.py:1216`, `clients/desktop/README.md:153`). No user has to
act, no change has to be committed, and faults are finitely many. A device that
finds something to submit again and again is `HeldUp`: `DevicesCatchUp` does not
speak of it, and `MarkersAreCollected` of no vault with such a device, which keeps
the collection waiting for as long as it is not revoked. `FairSpec` of
`PullApply`, and `NamedSpec` with it, is weak fairness of `SyncStep` for the same
reason. `TFairness`: a device retries its upload (weak), and a session of no use
expires while the device sleeps between attempts (strong, because attempts
interrupt the wait; the fifteen minutes are longer than a cycle). `YFairness`:
commands end, the user opens the panel (weak), and a remedy that is offered again
and again is chosen at some time (strong: the worker may close the panel's window
of opportunity in between). The user need not choose anything else.

What the documents say and the code does not do has a run that TLC finds
violated, with the quotation in PROJECT.json: `resurrection`, `apply_data_loss`
and `commits_blocked`. They bound what the passing properties can say:
`OthersFilesLeaveMarkers` speaks of files of *other* devices because ids of one's
own can be lost, and asks for a tombstone of the dropped file without asking that it
be stamped with that revision; `ReclaimedEverywhere` excuses a file that is back
since, and a device that made the deletion itself and has applied only its own
commits after it; `PendingDeletionsSurvive` excuses a deletion made between the read
and the write of an operation that rewrites the ledger (`MadeSinceRead`), and one of
a file an earlier deletion of which the pull reclaims (`ReclaimedWithEarlier`). The
first two were stronger once: within the bounds TLC found nothing
against them, and the proofs showed the behaviours beyond the bounds that break
them (the entries on `convergence.py:87` and on `build_commit_manifest` below). In `PullApply`, `MovedBytesSurvive` excuses files with the same
bytes as another; `SavedBytesSurvive` speaks of saves at synced paths made while
no sync step runs; `AppliedMeansTarget` asks for empty old paths only while the
user stays out, because a recovery that takes the workspace for finished looks at
the files of the new manifest and not at what is left of the old one.
`AvailableIsWhole` excuses a blob an upload was rewriting in place when it was cut
off (`rewritten`), `TrashStaysReachable` notes whose operation was cut short,
`PanelReopensGate` the dead end `Stranded`.

Seen while modelling, each found by TLC or in reading, and left without a run, so
that the runs stay few:

- a pull makes a deleted record active again while its tombstone stays pending,
  and the next commit carries both (`convergence.py:87`); the tombstone is stamped
  with a revision in which the file did not leave, and a collection may reclaim it
  while every device lists the file;
- a deletion the application makes between a pull's read of the ledger and its write
  has its record overwritten (`service.py:4982`, `convergence.py:197`), likewise
  during the end of a commit or a recovery; the ledger is to be append-only
  (`packages/vault-core/README.md:14`). A filemap or row that was read before the
  other process wrote it is written back whole, and takes back what was applied;
- a pull that reclaims a tombstone drops every record of the file, a later pending
  one of the user's too (`convergence.py:67`);
- a submit that is refused for the conflict flag or for drift ends each cycle before
  its pull (`runner.py:139`): such a device neither catches up nor acknowledges, and
  no marker is collected;
- a pull with nothing new raises "pull manifest is required" (`service.py:5977`), so
  a quiet worker reports failures; the recoveries and clean-ups of panel and worker
  take each other's staged files for leftovers (`service.py:5009`);
- `build_commit_manifest` is content with any tombstone of a file that is gone: after
  a crash between removing a file that was deleted before and writing its record,
  an old stamped one serves, and the revision that drops the file marks no new
  deletion;
- the tombstone of a file found missing is in the commit and not in the ledger,
  so the next manifest of the device lacks it (`change_detection.py:438`);
- a crash inside `delete_workspace_note` leaves a deleted record without a
  tombstone, from which no commit can be built, or a file in the trash no record
  leads to (`service.py:4533`); one inside a restore leaves an active file with a
  pending tombstone;
- a recovery that matches a commit does not give new files their ids
  (`service.py:7458`);
- a submission that raises is cleaned up as if the backend had not taken it: the
  intent is forgotten while the commit is in doubt (`service.py:7192`);
- a replayed apply takes what the killed one wrote for a change of the user, and
  an untracked file at the path of an incoming one is overwritten without a
  conflict copy (`service.py:5833`); two files that swap paths can both vanish
  when the replay meets one of them at the other's old path (`service.py:5752`);
- an upload whose chunk files a raised completion has deleted goes on only after
  its session expired, because `uploaded_chunk_ids` still says all is there
  (`sync_store.py:1447`); capabilities that expire unused are never purged;
- a logout with an access token that was rotated away does nothing and answers 204;
- `create_workspace_note` writes the file before `add_file` refuses the path of a
  record whose file is missing (`service.py:4277`); a restore looks at the folder
  and not at other records; a rename killed half way leaves links to the old
  title; an import that replaces a filemap that was never synced gives new ids
  and orphans the drafts;
- an AI note asked for again after it was moved or deleted is made a second time;
  after a crash between file and record the retry says `base_changed` until an
  import (`service.py:3211`);
- `restore_file_version` replaces the note before it knows whether the commit can
  be made (`service.py:5338`);
- `resolve_conflicts` killed before it clears the flag leaves a gate the panel
  offers nothing against (`Stranded`, `service.py:6854`); the panel offers to
  resume commit recovery while the worker is committing;
- a commit of chosen ids with an id of no record ends in `KeyError`;
- `restore_sqlite.py` killed after the unlink leaves no database, and `--force`
  beside running servers is not refused.

## Proofs

Every theorem holds for all values of the constants under the named assumptions
of its module. The argument is the same throughout: an inductive invariant, one
lemma per action, and a temporal step at the end.

### SyncStoreProofs

From the three assumptions of `SyncStore`:

- `TypeCorrect`: `Spec => []TypeOK`. One lemma per action over `TypeOK`.
- `PastNeverChanges`: `Spec => PastIsFixed`. Every action appends to `history`,
  or leaves it, and joins through `AckMax`; `TypeOK` is enough of an invariant.
- `MarkersWaitForAcks`: `Spec => OnlyAckedTombstonesCollected`. A marker the head
  loses to the server was in `Reclaimable`, computed on the very acks and
  revocations of the next state.
- `ExactlyOnce`: `Spec => []IntentOwnsOneRevision`. Inductive with `TypeOK`
  alone: a revision is appended for an intent only when `commits` has none for
  it, in the same step that records it, and collections are by `Server`, which
  is no intent.
- `VaultIsRevisionLog`: `Spec => ImplementsRevisionLog`. `Init` maps to the empty
  log; a commit maps to the append of one entry for an intent that had none, a
  collection to one that keeps the files, everything else to a stutter.
- `AllDownloadable`: `Spec => []RevisionsAreDownloadable`. Blobs are only added,
  and a waiting call checks them again when it runs.
- `TombstonesAreStamped`: `Spec => []StampNamesItsCommit`, of every payload a client
  can send, those that list a file with its tombstone included. Needs, besides the
  property, `CallsAreHonest`: a call that waits or may be sent again carries stamped
  tombstones of the revision it builds on. That survives every append, which is why
  a late call is safe.

The lemmas named `...Shape` speak of the ways a step can change the vault (leave it,
append a commit, append a collection) and not of the actions of this module, so that
`CommitSync`, whose backend steps have the same shapes, can use them.

### CommitSyncProofs

Over devices and backend together (the assumptions of both modules;
`FilesAreFinite` makes the count of missing files a number):

- `DevicesTypeCorrect`: `CSpec => []CTypeOK`.
- `DeletionsAreRemembered`: `CSpec => PendingDeletionsSurvive`.
- `SyncedCommitsAreOnce`, `SyncedVaultIsLog`: under `CSpec` too an intent owns one
  revision, every revision can be downloaded, and the vault implements
  `RevisionLog`. `Spec` of the store sends any call; this says that the calls
  the devices really make, with their retries and recoveries, are within that.

These hold with any `Tandem`. With `Tandem = {}`, a hypothesis of the theorem:

- `AcksAreApplied`: `CSpec => []AckMeansApplied`.
- `LedgersAreTrue`: `CSpec => []StampsAreTrue`.
- `CommitsDropNothing`: `CSpec => []OthersFilesLeaveMarkers`.
- `DeletedStaysDeleted`: `CSpec => []DeletionsStick`.
- `CollectionsAreSafe`: `CSpec => []ReclaimedEverywhere`.

None is inductive alone. `BaseInv`, for the first three, joins the types with

- `Journaled`: from the plan to the answer a commit has its journal, so a step
  that sends or finishes reads a manifest and not its absence;
- `InPast`: no stamp, target or answer, stored or in flight, names a revision
  that does not exist. The newest tombstone of a file is then well defined, which
  typing a merged ledger needs: a set of stamps must have a greatest;
- `Remembered`: an operation that has read the ledger and will write it has read
  nothing that is not there any more, and what it will write has every deletion
  that was pending then, but for those a pull reclaims with an earlier one. The
  application only ever adds to the ledger, so that holds with a deletion beside the
  operation too; what is lost can only be what came after the read;
- `BesidePending`: a deletion beside an operation is recorded unstamped;
- for each device outside `Tandem`, what `CaughtUp` and `Undisturbed` say
  (`DeviceSteady`).

Two more invariants stand on it with `Tandem = {}`, and `CommitInv` collects what
they need of it:

- `CaughtUp`: a device has applied what it pulled, and the base of its journal, its
  delayed calls and its commits is at most what it has applied; an ack can only
  come from there;
- `Undisturbed`: what an operation has in memory of ledger and row is what the device
  has, because the processes take turns.

What `Merged`, `Converged` and `Stamped` return is stated once as lemmas; that their
CHOOSE finds a record rests on the well-foundedness of the naturals.

`StampInv` is for `LedgersAreTrue`. Finalising a commit chooses the records to stamp
by their number and stamps them from what the device remembers, so the argument has
to tie the two together:

- every stamp anywhere is genuine, in ledgers, journals, calls in flight, revisions
  and the ledgers operations are about to write (`DeviceGenuine`, `VaultStamps`);
- a recorded intent's revision holds the tombstones it sent, stamped (`Recorded`);
- an intent is one device's and stands for one manifest, so the answer a device
  hears, however late, is about the commit in its journal (`IntentsAreOwn`,
  `Settled`);
- every deletion the journal's bound or list can select is a pending tombstone of its
  manifest (`PlanKept`). It stays so because from the freeze on the device pulls
  nothing, and its row counts at least to the bound, so what the user deletes
  later is numbered past it (`DeviceOrdered`).

`FilesInv` is for the theorems about files over whole histories. Its core is that a
filemap is never ahead of what the device says it has applied by anything but the
device's own doing:

- `MapBased`: the filemap lists the files of some revision after which the device
  has applied nothing but commits of its own. It cannot name the applied revision
  itself, because a recovery that matches a commit advances the row and leaves the
  filemap behind;
- `OpBased`: the same of the file table an operation holds and is about to write;
- `PlanBased` and `Planned`: a manifest that can still be accepted (the head is its
  base) lists what such a revision had and ids no revision has had, and has a
  tombstone of each file of it that it drops. This holds of the journal, of every
  waiting call and, through them, of a late repetition, because the hypothesis
  "the head is its base" is lost for good as soon as anyone else commits;
- `VaultFiles`: collections keep the files; ids are handed out before they are
  listed (`Mint`), so "new" in a late call stays new.

From it a commit that is accepted drops a file only with a tombstone or against a
base of the device's own (`CommitsDropNothing`), and brings a file only if it is
new or was in the device's base (`DeletedStaysDeleted`); `HistoryInv`, the two
properties, is then inductive. `CollectionsAreSafe` needs no history: the acks a
collection looked at are applied (`AckMeansApplied`), and the filemap of a device
that applied the deletion is that of a later revision, or of an earlier one with
only own commits between. `FilesInv` was an invariant of the `commit_race` and
`commit_faults` instances before it was proved.

### PullApplyProofs

From `AbsentIsNoFile`, `DraftsAreNew` (the user's bytes are told from the program's)
and `BoundsAreNat`, for any number of files, any two manifests that put no two files
at one path, and any number of kills and edits. One invariant per theorem, on top of
`ApplyTypes`: `PTypeOK`, the journal phase that belongs to each step and the items it
may have left (`OpOK`), and `LookTrue`, that what a step saw of a file is still there
unless the user changed it, and was copied if it was not the old manifest's.

- `ApplyTypeCorrect`: `Spec => []PTypeOK`.
- `SavesSurviveApplies`: `Spec => []SavedBytesSurvive`. `SavedInv`: bytes the user
  saved over a file are at its path, or have a conflict copy; once a step is past
  the file, the copy. Every step that overwrites a path has looked at it before, and
  no item is acted on twice in a run; a replay starts again with a look.
- `AppliesReachTarget`: `Spec => []AppliedMeansTarget`. `TargetInv`: a staged payload
  is what the manifest wants (`PayloadsAreExact`), an old path only its own file wants
  to leave holds that file (`OldPathsAreOwn`), and each file is in place, or gone from
  its old path, as soon as the walk has passed it (`InPlaceNow`, `GoneNow`), with the
  order of the five lists (`Past`) saying what has been passed.
- `AppliesAreJournalledUpdates`: `Spec => ImplementsJournalledUpdate`, over `TargetInv`.
  The cases go by phase: only `materializing` takes a file from its place, the
  step to `rewriting_filemap` finds nothing missing because `TargetInv` puts every
  file in place by then, and the row is marked stale in the step before the journal
  goes.
- `GivingUpIsRecorded`: `Spec => Journalled!DroppedIsKnown`. A journal past its
  staging goes with every file in place or with the mark. This is a consequence
  of the abstract update, and holds of the apply because that implements it.
- `MovesLoseNothing`: `Spec => []MovedBytesSurvive`. `MovedInv`: the bytes of a file
  that moves are at the old path until it has left, and after that staged, copied,
  set aside or arrived (`KeptAside`).
- `QuietAppliesAreClean`: `Spec => []QuietApplyHasNoConflicts`. `QuietInv`: without
  faults and edits a file no step has treated is as the old manifest has it, so no
  look finds a difference.

### ContentSnapshotProofs

- `SnapshotsAreOneMoment`: `SSpec => []CommitsAreOneMoment`. That the plan is one
  moment is not inductive; `OneMoment` says that during the third pass there is a
  moment *m* at which every note already compared was as planned, and every note
  still to compare either has been written since its plan was made (and will be
  found drifted) or is as it was at *m* (`AsAt`). A write gives a note a stamp no
  token has yet (`SnapshotTypes`), so a note once written never looks untouched again.
- `StagingLeavesNothing`: `StagingIsSwept`. `Sweeping`: before an attempt has its
  journal nothing is staged unless the client was killed, and while it stages it has
  the journal that a recovery needs to find the staged copies.

### NotesProofs

- `OperationsKeepBytes`: `NothingIsOverwritten`, a step property over the types
  (`NotesTypes`): one lemma per operation says where the bytes it moves are after.
- `TrashCanBeRestored`: `TrashStaysReachable`. Between the writes of an operation the
  filemap and the ledger disagree with the trash, so the invariant is about what they
  *will* be: `TrashInv` says that trash, record and tombstone agree for every note
  once the operation that runs has done the writes it owes (`WillBe`, `WillPend`), and
  for every other note also if it is cut short now.
- `AnswersKeepEdits`: `EditsSurviveWriteback`. `EditsInv`: no word and no block is
  in a text twice, and the blocks in a text a preview was based on are of earlier
  previews; so a block that is in the text was put there by its own confirmation.

- The types of both, for `PartsTypeCorrect`. `NotesValues` holds with
  `DeletesAreCounted`: an operation counts its deletion last, and once, so there are
  never more deletions than operations were begun.

Assumptions: attachments are paths, the values for "nothing" and "no draft" are no
note and no text, words are no confirmation tokens, there is something a user can
type (`EditsAreSome`), bounds are numbers.

### BackendProofs

- `TokensAgree`, `RevocationIsFinal`, about `Accounts`. The invariant `AInv` joins
  the types, the agreement of the token tables with the sessions, and
  `ClosedAreClosed`: tokens are of enrolled devices, and the session of a device
  that is gone is revoked. The second is an action property over that invariant:
  nothing opens a session for a device that is shut.
- `OnlyOldestRetire`: `FSpec => RetentionTakesOldest`, about `FileVersions`. The
  lemma it rests on, `NewestStay`, is about counting: if fewer than `KeepLatest` of
  the versions above a retired one stayed, the newest of those that went would have
  fewer than `KeepLatest` above it, and would not have gone. The versions of a file
  are finitely many, one a revision at most (`FewVersions`).
- `ListingsAreWhole`: `FSpec => []ListingFindsKept`. A cursor is an offset into a list
  that changes between the pages, so the invariant (`ListingInv`) is about positions.
  `Ahead`: a version the listing wants and has not seen is past the cursor. A commit
  moves every version one down the list; retention may then move those below a
  retired version one up again. `StaysFew` says that a listing that began with
  no more unpinned versions than retention keeps, and during which no pin was taken
  away (`steady`), still has no more of them: then a commit retires at most one
  version, and it adds one, so no version is nearer to the top after a step than
  it was before, and none can slip under the cursor.
- `DownloadsAreTheBlob`: `DSpec => []DownloadsAreExact`. `DownloadInv`: each range that
  was fetched is the part of the blob its offset says (`PiecesAreExact`), and what
  has been joined so far is a beginning of the blob (`BytesAreExact`). A range is
  joined only if its offset is the number of bytes there are, so gaps and overlaps
  end the download and cannot be in one.
- `AnswersAreKept`, about `StateRepository`. `WorkIsSound` says what each process may
  have read (the version it knows has the state it knows; on JSON it is alone) and
  `DatabaseIsSound` what import and restore start from. The compare-and-swap of
  `SaveState` then makes the state read the state stored, and a restore runs with
  all processes idle.

### PartsProofs

`MCParts` puts seven components in one instance, and its properties are checked there.
`PartsAreComponents` says that this takes nothing away from the checks:
`PartsSpec` implies the specification of each of the seven, so what is proved of
a component holds of the instance. `PartsTypeCorrect`: `PartsSpec => []PartsTypeOK`.
The types are not inductive for four of the seven: a process that is busy has a
call (`BusyOnACall`), deletions are counted by operations (`DeletesAreCounted`), an
answer writes the token of a preview there was (`FolderTypes` with `EditsInv`), and
what is encrypted is a text and not "no hash", because a note that is planned was
read (`StagedTypes` with `OneMoment`).

### ProgressProofs

- `OfferedIsWhole`: `TSpec => []AvailableIsWhole`. The invariant adds that a device at
  work still has on its list what the backend lacks (`WantsTheRest`), which makes the
  "done" of a device true when its last item completes.
- `ProgressTypeCorrect`: `ProgressSpec => []ProgressTypeOK`, the types of the uploads
  and of worker and panel. The chunks a session has are those of its blob
  (`ServerTypes`, over the invariant of the uploads); a worker that is at work has an
  iteration left, and a plan is broken only where there is a journal
  (`PanelTypes`), which is what the counters and the panel's cases rely on.

### Model-checked only

The six liveness properties (`AckedTombstonesLeave`, `DevicesCatchUp`,
`MarkersAreCollected`, `ApplySettles`, `DevicesUpload`, `PanelReopensGate`), which
need fairness and ENABLED, out of the prover's reach. Every other property of a
passing run, invariant or step property, and both refinements are stated by a
theorem. That the abstract modules say what they should is a matter of reading them.

## Not modelled

Ciphers, key derivation and recovery packages apart from the row an import
writes, and the guard of an export; record validation and wire formats; HTTP
routing, metrics, rate limits; the remote object store's client; commits of
chosen file ids and matching of renamed files in detection; compilation of the
wiki and prompts of ai-core, search and context assembly; command line, web UI,
bridge, Electron shell, tests and deployment. They keep no state of the sync, or
compute values no property tells apart. The windows between an `exists()` test
and the `replace()` right after it are not opened.

## Plan

1. `CommitSync` composed with `JournalledUpdate` in place of its one step
   `ApplyWorkspace`, so that a commit may meet a workspace known to be behind.
2. Safety of `SyncCenter` beyond its types: which gates a panel may open while the
   worker is in an operation.
3. A panel that commits or pulls beside the worker in `CommitSync`, whose second
   process only deletes notes so far.
4. Renames in `CommitSync`: detection matches a missing and an untracked file with
   equal bytes and keeps the id.
