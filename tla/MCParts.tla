------------------------------ MODULE MCParts ------------------------------
(***************************************************************************)
(* Seven components that do not touch each other's state, checked side by  *)
(* side: which of them a behaviour is about is chosen in the initial state *)
(* and the others stay as they are.                                        *)
(***************************************************************************)
EXTENDS Accounts, BlobDownload, FileVersions, StateRepository,
        WorkspaceNotes, AiWriteback, ContentSnapshot, TLC

VARIABLE part

partsvars == <<avars, dvars, fvars, rvars, nvars, wvars, svars, part>>

PartsInit ==
    /\ part \in {"accounts", "download", "versions", "repository", "notes", "ai", "snapshot"}
    /\ AInit /\ DInit /\ FInit /\ RInit /\ NInit /\ WInit /\ SInit
    /\ part # "download" => stored = 0
    /\ part # "notes" => filemap = [i \in NoteIds |-> NoRecord]
    /\ part # "snapshot" => \A f, g \in Notes : record[f] = Blank /\ onDisk[f] = onDisk[g]

PartsNext ==
    \/ /\ part = "accounts" /\ ANext
       /\ UNCHANGED <<dvars, fvars, rvars, nvars, wvars, svars>>
    \/ /\ part = "download" /\ DNext
       /\ UNCHANGED <<avars, fvars, rvars, nvars, wvars, svars>>
    \/ /\ part = "versions" /\ FNext
       /\ UNCHANGED <<avars, dvars, rvars, nvars, wvars, svars>>
    \/ /\ part = "repository" /\ RNext
       /\ UNCHANGED <<avars, dvars, fvars, nvars, wvars, svars>>
    \/ /\ part = "notes" /\ NNext
       /\ UNCHANGED <<avars, dvars, fvars, rvars, wvars, svars>>
    \/ /\ part = "ai" /\ WNext
       /\ UNCHANGED <<avars, dvars, fvars, rvars, nvars, svars>>
    \/ /\ part = "snapshot" /\ SNext
       /\ UNCHANGED <<avars, dvars, fvars, rvars, nvars, wvars>>

PartsSpec == PartsInit /\ [][PartsNext /\ UNCHANGED part]_partsvars

\* The names of notes and of their contents mean nothing to a commit, nor do those
\* of notes and of their paths to the operations on them.  As one component at a
\* time takes steps, both share the names, and so the permutations.
PartsSymmetry == Permutations(Notes) \cup Permutations(Contents)

\* Every component keeps its variables in their types, whatever its code does.
PartsTypeOK ==
    /\ part = "accounts" => ATypeOK
    /\ part = "download" => DTypeOK
    /\ part = "versions" => FTypeOK
    /\ part = "repository" => RTypeOK
    /\ part = "notes" => NTypeOK
    /\ part = "ai" => WTypeOK
    /\ part = "snapshot" => STypeOK
=============================================================================
