--------------------------- MODULE WorkspaceNotes ---------------------------
(***************************************************************************)
(* What the desktop client does to the notes of a workspace: create, save, *)
(* rename, move, delete to the trash, restore, purge, drafts, import of    *)
(* files found in the folder.  An operation checks, changes the folder,    *)
(* and then writes the files and tables beside it one after the other; the *)
(* process may die between two of these.  The user edits the folder too.   *)
(* Two versions of a note that differ in their links only are one text.    *)
(***************************************************************************)
EXTENDS Naturals, Sequences

CONSTANTS NoteIds, Paths,
          Texts, Edits,    \* bytes the client writes, and the user
          Attachments,     \* the paths that are not Markdown
          Nothing,         \* no file, no draft, no entry
          MaxOperations    \* bound

ASSUME AttachmentsArePaths == Attachments \subseteq Paths
ASSUME NothingIsNoText == Nothing \notin Texts \cup Edits
ASSUME NothingIsNoNote == Nothing \notin NoteIds
ASSUME OperationsAreNat == MaxOperations \in Nat
ASSUME EditsAreSome == Edits # {}

VARIABLES disk,      \* path -> bytes of the folder
          filemap,   \* filemap.json, by file id
          trash,     \* .noteapp/trash: <<file id, time of deletion>> -> bytes
          drafts,    \* ids with a file in .noteapp/drafts
          ledger,    \* pending tombstones: file id and local_delete_seq
          deletes,   \* vault_state.local_delete_sequence
          index,     \* search_index: the path and bytes a search would find
          op,        \* the rest of the operation that runs
          cut,       \* ids an interrupted operation worked on
          time

Bytes == Texts \cup Edits

nvars == <<disk, filemap, trash, drafts, ledger, deletes, index, op, cut, time>>
beside == <<filemap, drafts, ledger, deletes, index>>

Record == [path : Paths, status : {"active", "deleted"}, stamp : 0 .. MaxOperations,
           synced : BOOLEAN, purged : BOOLEAN]
NoRecord == [path |-> Nothing, status |-> "none", stamp |-> 0, synced |-> FALSE, purged |-> FALSE]
Trashed == NoteIds \X (0 .. MaxOperations)
NoOp == [todo |-> <<>>, id |-> Nothing, filemap |-> <<>>]

Active(i) == filemap[i].status = "active"
OnDisk(p) == disk[p] # Nothing
Editable(i) == Active(i) /\ filemap[i].path \notin Attachments
Unknown(i) == filemap[i] = NoRecord /\ i \notin cut /\ \A k \in Trashed : trash[k] # Nothing => k[1] # i
              /\ i \notin drafts
Occupied(p, i) == \E j \in NoteIds \ {i} : Active(j) /\ filemap[j].path = p
Made(p) == [path |-> p, status |-> "active", stamp |-> time + 1, synced |-> FALSE, purged |-> FALSE]

\* Either a new workspace, or one whose notes were committed before.
NInit ==
    /\ filemap \in [NoteIds -> {NoRecord} \cup {[path |-> p, status |-> "active", stamp |-> 0,
                                                  synced |-> TRUE, purged |-> FALSE] : p \in Paths}]
    /\ \A i \in NoteIds : ~Occupied(filemap[i].path, i)
    /\ disk = [p \in Paths |-> IF Occupied(p, Nothing) THEN CHOOSE b \in Edits : TRUE ELSE Nothing]
    /\ trash = [k \in Trashed |-> Nothing]
    /\ drafts = {}
    /\ ledger = {}
    /\ deletes = 0
    /\ index = [i \in NoteIds |-> Nothing]
    /\ op = NoOp
    /\ cut = {}
    /\ time = 0

-----------------------------------------------------------------------------
(* The steps of an operation after the first                               *)

\* Operations of the client run one at a time.
Begin(i, todo, map) ==
    /\ op = NoOp
    /\ time < MaxOperations
    /\ time' = time + 1
    /\ op' = [todo |-> todo, id |-> i, filemap |-> map]
    /\ UNCHANGED <<beside, cut>>

\* _upsert_workspace_search_index_for_record.
Indexed(i, record) ==
    IF record.status = "active" /\ record.path \notin Attachments /\ OnDisk(record.path)
    THEN <<record.path, disk[record.path]>>
    ELSE Nothing

Does(step) == Head(op.todo) = step

WriteFilemap ==
    /\ Does("filemap") /\ filemap' = op.filemap
    /\ UNCHANGED <<drafts, ledger, deletes, index>>

ClearDraft ==
    /\ Does("draft") /\ drafts' = drafts \ {op.id}
    /\ UNCHANGED <<filemap, ledger, deletes, index>>

UpsertIndex ==
    /\ Does("index") /\ index' = [index EXCEPT ![op.id] = Indexed(op.id, op.filemap[op.id])]
    /\ UNCHANGED <<filemap, drafts, ledger, deletes>>

RebuildIndex ==
    /\ Does("rebuild") /\ index' = [i \in NoteIds |-> Indexed(i, filemap[i])]
    /\ UNCHANGED <<filemap, drafts, ledger, deletes>>

\* Fault: the deletion is not counted before it is written down.
AppendUncounted ==
    /\ Does("tombstone") /\ ledger' = ledger \cup {<<op.id, deletes>>}
    /\ UNCHANGED <<filemap, drafts, deletes, index>>

\* _rewrite_workspace_note_links_for_rename: the notes that link to the old title
\* are written again, and the index follows.
RewriteLinks ==
    /\ Does("links")
    /\ \E linking \in SUBSET {i \in NoteIds \ {op.id} : Editable(i) /\ OnDisk(filemap[i].path)} :
          index' = [i \in NoteIds |-> IF i \in linking THEN Indexed(i, filemap[i]) ELSE index[i]]
    /\ UNCHANGED <<filemap, drafts, ledger, deletes>>

AppendTombstone ==
    /\ Does("tombstone") /\ ledger' = ledger \cup {<<op.id, deletes + 1>>}
    /\ UNCHANGED <<filemap, drafts, deletes, index>>

\* Fault: only the newest tombstone is taken out.
KeptOlder(i) == {t \in ledger : t[1] # i \/ t[2] # deletes}

\* restore_workspace_trash_item rewrites the ledger without the file's tombstones.
Kept(i) == {t \in ledger : t[1] # i}

ForgetTombstones ==
    /\ Does("forget") /\ ledger' = Kept(op.id)
    /\ UNCHANGED <<filemap, drafts, deletes, index>>

CountDelete ==
    /\ Does("count") /\ deletes' = deletes + 1
    /\ UNCHANGED <<filemap, drafts, ledger, index>>

NextStep ==
    /\ op.todo # <<>>
    /\ op' = IF Len(op.todo) = 1 THEN NoOp ELSE [op EXCEPT !.todo = Tail(@)]
    /\ \/ WriteFilemap \/ ClearDraft \/ UpsertIndex \/ RebuildIndex \/ RewriteLinks
       \/ AppendTombstone \/ ForgetTombstones \/ CountDelete
    /\ UNCHANGED <<disk, trash, cut, time>>

Crash ==
    /\ op # NoOp
    /\ op' = NoOp
    /\ cut' = cut \cup (IF op.id = Nothing THEN {} ELSE {op.id})
    /\ UNCHANGED <<disk, trash, beside, time>>

-----------------------------------------------------------------------------
(* Operations                                                              *)

\* create_workspace_note: the bytes go to the folder before add_file asks whether
\* a record has the path, so a refusal leaves them there.
CreateNote(i, p, text) ==
    /\ Unknown(i) /\ p \notin Attachments /\ ~OnDisk(p)
    /\ disk' = [disk EXCEPT ![p] = text]
    /\ IF Occupied(p, i)
       THEN op = NoOp /\ UNCHANGED <<beside, op, cut, time>>
       ELSE Begin(i, <<"filemap", "index">>, [filemap EXCEPT ![i] = Made(p)])
    /\ UNCHANGED trash

\* create_workspace_attachment takes a path that is free in both.
CreateAttachment(i, p, bytes) ==
    /\ Unknown(i) /\ p \in Attachments /\ ~OnDisk(p) /\ ~Occupied(p, i)
    /\ disk' = [disk EXCEPT ![p] = bytes]
    /\ Begin(i, <<"filemap", "index">>, [filemap EXCEPT ![i] = Made(p)])
    /\ UNCHANGED trash

\* write_workspace_file_content.
SaveNote(i, text) ==
    /\ Editable(i) /\ OnDisk(filemap[i].path)
    /\ disk' = [disk EXCEPT ![filemap[i].path] = text]
    /\ Begin(i, <<"draft", "index">>, filemap)
    /\ UNCHANGED trash

\* rename_file: no other live record may have the path.
PathAvailable(i, p) == ~Occupied(p, i)
Relocated(i, p) == [filemap EXCEPT ![i].path = p, ![i].stamp = time + 1]

\* rename_workspace_note and move_workspace_note: the folder, and then the rest.
Relocate(i, p, todo) ==
    LET from == filemap[i].path IN
    /\ Editable(i) /\ p \notin Attachments /\ OnDisk(from)
    /\ p # from => ~OnDisk(p)
    /\ PathAvailable(i, p)
    /\ disk' = [[disk EXCEPT ![from] = Nothing] EXCEPT ![p] = disk[from]]
    /\ Begin(i, todo, Relocated(i, p))
    /\ UNCHANGED trash

RenameNote(i, p) == p # filemap[i].path /\ Relocate(i, p, <<"filemap", "links", "index">>)
MoveNote(i, p) == Relocate(i, p, <<"filemap", "index">>)

MarkedDeleted(i) == [filemap EXCEPT ![i].status = "deleted", ![i].stamp = time + 1]

\* delete_workspace_note: a note that is not in the folder leaves nothing in the trash.
DeleteNote(i) ==
    LET p == filemap[i].path IN
    /\ Active(i)
    /\ Begin(i, <<"draft", "filemap", "index", "tombstone", "count">>, MarkedDeleted(i))
    /\ disk' = [disk EXCEPT ![p] = Nothing]
    /\ trash' = [trash EXCEPT ![<<i, time + 1>>] = disk[p]]

TrashKey(i) == <<i, filemap[i].stamp>>

\* Fault: what the user put at the path meanwhile is replaced.
RestorePathIsFreeToTake(p) == TRUE

RestorePathIsFree(p) == ~OnDisk(p)

\* restore_workspace_trash_item: looks at the folder, not at the other records.
RestoreNote(i) ==
    LET p == filemap[i].path IN
    /\ filemap[i].status = "deleted" /\ trash[TrashKey(i)] # Nothing
    /\ RestorePathIsFree(p)
    /\ disk' = [disk EXCEPT ![p] = trash[TrashKey(i)]]
    /\ trash' = [trash EXCEPT ![TrashKey(i)] = Nothing]
    /\ Begin(i, <<"filemap", "index", "forget">>,
             [filemap EXCEPT ![i].status = "active", ![i].stamp = time + 1])

\* purge_workspace_trash_item, and empty_workspace_trash for all of them at once.
PurgeNotes(ids) ==
    /\ ids # {} /\ \A i \in ids : filemap[i].status = "deleted"
    /\ trash' = [k \in Trashed |-> IF k[1] \in ids /\ k = TrashKey(k[1]) THEN Nothing ELSE trash[k]]
    /\ Begin(Nothing, <<"filemap">>,
             [i \in NoteIds |-> IF i \in ids THEN [filemap[i] EXCEPT !.purged = TRUE] ELSE filemap[i]])
    /\ UNCHANGED disk

Unpurged == {i \in NoteIds : filemap[i].status = "deleted" /\ ~filemap[i].purged}

WriteDraft(i) ==
    /\ op = NoOp /\ Active(i) /\ OnDisk(filemap[i].path)
    /\ drafts' = drafts \cup {i}
    /\ UNCHANGED <<disk, filemap, trash, ledger, deletes, index, op, cut, time>>

DiscardDraft(i) ==
    /\ op = NoOp /\ filemap[i] # NoRecord /\ i \in drafts
    /\ drafts' = drafts \ {i}
    /\ UNCHANGED <<disk, filemap, trash, ledger, deletes, index, op, cut, time>>

-----------------------------------------------------------------------------
(* Import                                                                  *)

\* _should_replace_local_import_filemap: nothing was ever synced or deleted here,
\* and the records are not those of the folder.
NeverSynced == \A i \in NoteIds : filemap[i] # NoRecord => Active(i) /\ ~filemap[i].synced

Present == {p \in Paths : OnDisk(p)}
Listed == {filemap[i].path : i \in {j \in NoteIds : filemap[j] # NoRecord}}
Replaces == NeverSynced /\ Listed # Present

\* Fresh ids for the paths, in some order.
FreshFor(paths, new) ==
    /\ \A i \in DOMAIN new : Unknown(i) /\ new[i] \in paths
    /\ \A i, j \in DOMAIN new : new[i] = new[j] => i = j
    /\ \A p \in paths : \E i \in DOMAIN new : new[i] = p

\* import_existing_workspace_files_if_empty: a folder that was never synced gets
\* records anew, any other one records for the files that have none.
Import ==
    LET paths == IF Replaces THEN Present ELSE {p \in Present : ~Occupied(p, Nothing)}
    IN \E ids \in SUBSET NoteIds : \E new \in [ids -> paths] :
        /\ paths # {}
        /\ FreshFor(paths, new)
        /\ Begin(Nothing, <<"filemap", "rebuild">>,
                 [i \in NoteIds |-> IF i \in ids THEN Made(new[i])
                                    ELSE IF Replaces THEN NoRecord ELSE filemap[i]])
        /\ UNCHANGED <<disk, trash>>

\* The user, in the folder.
UserEdit(p, bytes) ==
    /\ op = NoOp /\ time < MaxOperations
    /\ disk' = [disk EXCEPT ![p] = bytes]
    /\ UNCHANGED <<trash, beside, op, cut, time>>

Operation ==
    \/ \E i \in NoteIds, p \in Paths :
          \/ \E t \in Texts : CreateNote(i, p, t) \/ CreateAttachment(i, p, t)
          \/ RenameNote(i, p) \/ MoveNote(i, p)
    \/ \E i \in NoteIds :
          DeleteNote(i) \/ RestoreNote(i) \/ WriteDraft(i) \/ DiscardDraft(i)
    \/ Import

Overwriting ==
    \/ \E i \in NoteIds, t \in Texts : SaveNote(i, t)
    \/ \E p \in Paths, b \in Edits \cup {Nothing} : UserEdit(p, b)
    \/ \E i \in NoteIds : PurgeNotes({i})
    \/ PurgeNotes(Unpurged)

NNext == Operation \/ Overwriting \/ NextStep \/ Crash

NSpec == NInit /\ [][NNext]_nvars

-----------------------------------------------------------------------------
(* Properties                                                              *)

StepNames == {"filemap", "index", "draft", "rebuild", "links", "forget", "tombstone", "count"}

NTypeOK ==
    /\ disk \in [Paths -> Bytes \cup {Nothing}]
    /\ filemap \in [NoteIds -> Record \cup {NoRecord}]
    /\ trash \in [Trashed -> Bytes \cup {Nothing}]
    /\ drafts \subseteq NoteIds
    /\ ledger \subseteq NoteIds \X (1 .. MaxOperations)
    /\ deletes \in 0 .. MaxOperations
    /\ index \in [NoteIds -> (Paths \X Bytes) \cup {Nothing}]
    /\ op.id \in NoteIds \cup {Nothing} /\ op.todo \in Seq(StepNames)
    /\ cut \subseteq NoteIds
    /\ time \in 0 .. MaxOperations

Held == {disk[p] : p \in Paths} \cup {trash[k] : k \in Trashed}

\* Nothing but a save, the user and a purge takes bytes away: creating, moving,
\* deleting, restoring and importing, and their crashes, lose no note
\* (the exists() tests of service.py before replace()).
NothingIsOverwritten == [][Held \subseteq Held' \cup {Nothing} \/ Overwriting]_nvars

\* What is in the trash can be restored, and a deletion is pending exactly for the
\* notes in it that are deleted, whatever was deleted, restored, purged and
\* imported before; only notes whose operation was cut short are excepted
\* (delete_workspace_note, restore_workspace_trash_item, import_existing_...).
TrashStaysReachable ==
    op = NoOp =>
        \A i \in NoteIds \ cut :
            /\ \A k \in Trashed : k[1] = i /\ trash[k] # Nothing =>
                   filemap[i].status = "deleted" /\ k = TrashKey(i)
            /\ filemap[i].status = "deleted" <=> \E t \in ledger : t[1] = i

=============================================================================
