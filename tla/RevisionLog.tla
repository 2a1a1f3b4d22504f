---------------------------- MODULE RevisionLog ----------------------------
(***************************************************************************)
(* What a vault of the sync backend promises to its devices: one           *)
(* append-only sequence of revisions.  A revision is written either by a   *)
(* commit intent, which takes effect at most once and only on top of the   *)
(* newest revision, or by the server's tombstone collection, which never   *)
(* changes the files.                                                      *)
(***************************************************************************)
EXTENDS Naturals, Sequences

CONSTANTS Intents,      \* commit intent identifiers
          FileTables,   \* possible file tables of a manifest
          NoFiles,      \* the file table of the empty vault
          Server        \* the author of a collection revision

VARIABLE log            \* sequence of [by, on, files]

FilesOf(l) == IF l = << >> THEN NoFiles ELSE l[Len(l)].files

Written(by, files) == [by |-> by, on |-> Len(log), files |-> files]

Init == log = << >>

Commit(i, files) ==
    /\ \A r \in 1..Len(log) : log[r].by # i
    /\ log' = Append(log, Written(i, files))

Collect ==
    /\ log # << >>
    /\ log' = Append(log, Written(Server, FilesOf(log)))

Next == Collect \/ \E i \in Intents, files \in FileTables : Commit(i, files)

Spec == Init /\ [][Next]_log
=============================================================================
