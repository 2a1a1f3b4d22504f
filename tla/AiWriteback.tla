---------------------------- MODULE AiWriteback ----------------------------
(***************************************************************************)
(* Writing an AI answer into the note that is open, or into a new note.    *)
(* A preview hands out a confirmation token that names what it saw; apply  *)
(* comes later, maybe twice, while the user goes on typing, saving and     *)
(* moving notes.  A text is the sequence of the words the user typed and   *)
(* of the blocks appended for tokens; a hash is the text itself.           *)
(***************************************************************************)
EXTENDS Naturals, Sequences, FiniteSets, SequencesExt

CONSTANTS Words,
          LockWord,      \* "locked: true" in the frontmatter
          NotePaths,     \* where new notes may go
          NoDraft, Free, \* no draft; nothing at a path
          OwnNote,       \* a note of the user's
          MaxPreviews,   \* bound: previews
          MaxLength      \* bound: texts

Tokens == 1 .. MaxPreviews
Text == Seq(Words \cup {LockWord} \cup Tokens)

ASSUME LockIsNoWord == LockWord \notin Words
ASSUME WordsAreNoTokens == (Words \cup {LockWord}) \cap Tokens = {}
ASSUME NoDraftIsNoText == NoDraft \notin Text
ASSUME PreviewsAreNat == MaxPreviews \in Nat

VARIABLES saved,         \* the open note on disk
          draft,         \* its draft, or NoDraft
          typed,         \* words the user typed and did not take back
          confirmations, \* confirmation tokens handed out, in order
          notes,         \* path -> Free, a note of the user's, or the block of a token
          tracked,       \* paths with an active record
          creating       \* the path create_workspace_note has written, not recorded

wvars == <<saved, draft, typed, confirmations, notes, tracked, creating>>

editor == <<saved, draft, typed>>
folder == <<notes, tracked, creating>>

\* _load_ai_writeback_current_note_base: the draft, if there is one.
CurrentText == IF draft = NoDraft THEN saved ELSE draft
Locked == LockWord \in Range(saved) \cup Range(CurrentText)

WInit ==
    /\ saved = <<>> /\ draft = NoDraft /\ typed = {}
    /\ confirmations = <<>>
    /\ notes = [p \in NotePaths |-> Free]
    /\ tracked = {}
    /\ creating = Free

-----------------------------------------------------------------------------
(* Preview                                                                 *)

Issue(token) ==
    /\ Len(confirmations) < MaxPreviews
    /\ confirmations' = Append(confirmations, token)
    /\ UNCHANGED <<editor, folder>>

PreviewInsert ==
    /\ ~Locked
    /\ Issue([mode |-> "insert", base |-> CurrentText, target |-> Free, live |-> TRUE])

\* _next_available_ai_writeback_note_path: neither a record nor a file has it.
TargetFree(p) == p \notin tracked /\ notes[p] = Free

PreviewCreate(p) ==
    /\ TargetFree(p)
    /\ Issue([mode |-> "create", base |-> <<>>, target |-> p, live |-> TRUE])

Expire(t) ==
    /\ confirmations[t].live
    /\ confirmations' = [confirmations EXCEPT ![t].live = FALSE]
    /\ UNCHANGED <<editor, folder>>

-----------------------------------------------------------------------------
(* Apply                                                                   *)

\* apply_ai_writeback: the token is of this request and not too old.
Confirms(t, mode) == confirmations[t].live /\ confirmations[t].mode = mode

\* Fault: the previewed text is written, whatever is there by now.
AppliedAsPreviewed(t) ==
    /\ ~Locked
    /\ draft' = Append(confirmations[t].base, t)

\* The base must be the one that was previewed, the text is made from it again,
\* and only the draft is written.
Applied(t) ==
    /\ ~Locked
    /\ CurrentText = confirmations[t].base
    /\ draft' = Append(CurrentText, t)

\* _apply_ai_writeback_insert_current_note; refused or "already_applied" otherwise.
ApplyInsert(t) ==
    /\ Confirms(t, "insert")
    /\ CurrentText # Append(confirmations[t].base, t)
    /\ Len(confirmations[t].base) < MaxLength
    /\ Applied(t)
    /\ UNCHANGED <<saved, typed, confirmations, folder>>

\* _apply_ai_writeback_create_note: a path that is taken is refused, unless by the
\* same bytes under a record ("already_applied"); create_workspace_note then writes
\* the file, and after it the record.
ApplyCreate(t) ==
    LET p == confirmations[t].target IN
    /\ Confirms(t, "create")
    /\ creating = Free /\ notes[p] = Free
    /\ notes' = [notes EXCEPT ![p] = t]
    /\ creating' = p
    /\ UNCHANGED <<editor, confirmations, tracked>>

\* add_file refuses a path a record has; the bytes stay.
RecordCreated ==
    /\ creating # Free
    /\ tracked' = tracked \cup {creating}
    /\ creating' = Free
    /\ UNCHANGED <<editor, confirmations, notes>>

CrashCreating ==
    /\ creating # Free
    /\ creating' = Free
    /\ UNCHANGED <<editor, confirmations, notes, tracked>>

-----------------------------------------------------------------------------
(* The user                                                                *)

Type(w) ==
    /\ Len(CurrentText) < MaxLength
    /\ w \notin Range(CurrentText)
    /\ draft' = Append(CurrentText, w)
    /\ typed' = typed \cup {w}
    /\ UNCHANGED <<saved, confirmations, folder>>

TakeBack(k) ==
    /\ k \in DOMAIN CurrentText
    /\ draft' = RemoveAt(CurrentText, k)
    /\ typed' = typed \ {CurrentText[k]}
    /\ UNCHANGED <<saved, confirmations, folder>>

\* write_workspace_file_content, which clears the draft; and throwing the draft away.
SaveDraft ==
    /\ draft # NoDraft
    /\ saved' = draft /\ draft' = NoDraft
    /\ UNCHANGED <<typed, confirmations, folder>>

ThrowDraftAway ==
    /\ draft # NoDraft
    /\ draft' = NoDraft
    /\ typed' = Range(saved) \ Tokens
    /\ UNCHANGED <<saved, confirmations, folder>>

\* The user makes, moves or deletes notes; an import records what has no record.
MoveCreated(p, q) ==
    /\ creating = Free
    /\ p \in tracked /\ notes[p] # Free /\ q \notin tracked /\ notes[q] = Free
    /\ notes' = [notes EXCEPT ![q] = notes[p], ![p] = Free]
    /\ tracked' = (tracked \ {p}) \cup {q}
    /\ UNCHANGED <<editor, confirmations, creating>>

RemoveCreated(p) ==
    /\ creating = Free
    /\ p \in tracked /\ notes[p] # Free
    /\ notes' = [notes EXCEPT ![p] = Free]
    /\ tracked' = tracked \ {p}
    /\ UNCHANGED <<editor, confirmations, creating>>

PutNote(p) ==
    /\ creating = Free
    /\ notes[p] = Free
    /\ notes' = [notes EXCEPT ![p] = OwnNote]
    /\ UNCHANGED <<editor, confirmations, tracked, creating>>

ImportNotes ==
    /\ creating = Free
    /\ tracked' = tracked \cup {p \in NotePaths : notes[p] # Free}
    /\ UNCHANGED <<editor, confirmations, notes, creating>>

WNext ==
    \/ PreviewInsert \/ RecordCreated \/ CrashCreating
    \/ SaveDraft \/ ThrowDraftAway \/ ImportNotes
    \/ \E w \in Words \cup {LockWord} : Type(w)
    \/ \E k \in 1 .. MaxLength : TakeBack(k)
    \/ \E p \in NotePaths : PreviewCreate(p) \/ RemoveCreated(p) \/ PutNote(p)
    \/ \E p, q \in NotePaths : MoveCreated(p, q)
    \/ \E t \in DOMAIN confirmations : Expire(t) \/ ApplyInsert(t) \/ ApplyCreate(t)

WSpec == WInit /\ [][WNext]_wvars

-----------------------------------------------------------------------------
(* Properties                                                              *)

WTypeOK ==
    /\ saved \in Text /\ draft \in Text \cup {NoDraft}
    /\ typed \subseteq Words \cup {LockWord}
    /\ confirmations \in Seq([mode : {"insert", "create"}, base : Text,
                              target : NotePaths \cup {Free}, live : BOOLEAN])
    /\ notes \in [NotePaths -> {Free, OwnNote} \cup Tokens]
    /\ tracked \subseteq NotePaths
    /\ creating \in NotePaths \cup {Free}

\* What the user typed since a preview is in the text whatever is applied, and no
\* retry puts the same block in twice (_apply_ai_writeback_insert_current_note).
EditsSurviveWriteback ==
    /\ typed \subseteq Range(CurrentText)
    /\ \A i, j \in DOMAIN CurrentText : CurrentText[i] = CurrentText[j] => i = j


=============================================================================
