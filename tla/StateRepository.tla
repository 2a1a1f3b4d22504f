-------------------------- MODULE StateRepository --------------------------
(***************************************************************************)
(* Where the backend keeps its state: one JSON file at first, a row of a   *)
(* SQLite database after the import script ran.  Server processes answer   *)
(* calls on it, each process one call at a time (SyncStore._lock), and may *)
(* die between any two steps; an operator imports, backs up and restores.  *)
(* A state is the set of the calls that changed it.                        *)
(***************************************************************************)
EXTENDS Naturals

CONSTANTS Processes, Calls,
          CommitCalls,     \* those that go through _update_state
          NoCall,
          MaxVersion       \* bound: versions of the row

ASSUME CommitsAreCalls == CommitCalls \subseteq Calls
ASSUME NoCallIsNone == NoCall \notin Calls
ASSUME MaxVersionIsNat == MaxVersion \in Nat

VARIABLES profile,    \* NOTEAPP_SERVER_STORAGE
          file,       \* sync-state.json
          tmp,        \* sync-state.json.tmp, and whether it was closed
          row,        \* sync_state: version (0: no row) and payload
          tables,     \* what the projected tables hold
          backup,     \* the newest backup file
          restoring,  \* restore_sqlite.py: the database is unlinked
          working,    \* what each process is doing
          answered,   \* calls answered with success
          undone      \* calls an import or a restore took back

rvars == <<profile, file, tmp, row, tables, backup, restoring, working, answered, undone>>
database == <<row, tables, backup, restoring, undone>>

Row == [version : 0 .. MaxVersion, state : SUBSET Calls]
Idle == [step |-> "idle", call |-> NoCall, read |-> [version |-> 0, state |-> {}]]

\* A JSON file is written by one process only; the SQLite file by any.
Serving(p) == ~restoring /\ (profile = "json" => \A q \in Processes \ {p} : working[q] = Idle)
Fresh(c) == c \notin answered \cup undone \cup file \cup row.state
            /\ \A p \in Processes : working[p].call # c

RInit ==
    /\ profile = "json"
    /\ file = {}
    /\ tmp = [open |-> FALSE, state |-> {}]
    /\ row = [version |-> 0, state |-> {}]
    /\ tables = {}
    /\ backup = row
    /\ restoring = FALSE
    /\ working = [p \in Processes |-> Idle]
    /\ answered = {}
    /\ undone = {}

-----------------------------------------------------------------------------
(* Calls                                                                   *)

To(p, step) == working' = [working EXCEPT ![p].step = step]

\* _load at the head of a call; the JSON repository says version 0.
Load(p, c) ==
    /\ working[p] = Idle /\ Serving(p) /\ Fresh(c)
    /\ profile = "sqlite" => c \notin CommitCalls
    /\ working' = [working EXCEPT ![p] =
           [step |-> "loaded", call |-> c,
            read |-> IF profile = "json" THEN [version |-> 0, state |-> file] ELSE row]]
    /\ UNCHANGED <<profile, file, tmp, database, answered>>

\* JsonStateRepository.save: a temporary file, closed, then renamed over the old one.
OpenTmp(p) ==
    /\ working[p].step = "loaded" /\ profile = "json"
    /\ tmp' = [open |-> TRUE, state |-> {}]
    /\ To(p, "open")
    /\ UNCHANGED <<profile, file, database, answered>>

CloseTmp(p) ==
    /\ working[p].step = "open"
    /\ tmp' = [open |-> FALSE, state |-> working[p].read.state \cup {working[p].call}]
    /\ To(p, "closed")
    /\ UNCHANGED <<profile, file, database, answered>>

ReplaceFile(p) ==
    /\ working[p].step = "closed"
    /\ file' = tmp.state
    /\ To(p, "saved")
    /\ UNCHANGED <<profile, tmp, database, answered>>

\* _write_state_locked: the payload and every projected table, in one transaction.
WriteState(version, state) ==
    /\ row' = [version |-> version, state |-> state]
    /\ tables' = state

\* Fault: any row will do.
AnyRow(read) == TRUE

\* SQLiteStateRepository._save_state, under BEGIN IMMEDIATE: the row must be the one read.
Current(read) == read.version = row.version

SaveState(p) ==
    /\ working[p].step = "loaded" /\ profile = "sqlite"
    /\ row.version < MaxVersion
    /\ IF Current(working[p].read)
       THEN WriteState(row.version + 1, working[p].read.state \cup {working[p].call})
            /\ To(p, "saved")
       ELSE \* state_write_conflict
            working' = [working EXCEPT ![p] = Idle] /\ UNCHANGED <<row, tables>>
    /\ UNCHANGED <<profile, file, tmp, backup, restoring, answered, undone>>

\* SQLiteStateRepository.update: reads and writes in one transaction.
Update(p, c) ==
    /\ working[p] = Idle /\ Serving(p) /\ Fresh(c)
    /\ profile = "sqlite" /\ c \in CommitCalls
    /\ row.version < MaxVersion
    /\ WriteState(row.version + 1, row.state \cup {c})
    /\ working' = [working EXCEPT ![p] = [step |-> "saved", call |-> c, read |-> row]]
    /\ UNCHANGED <<profile, file, tmp, backup, restoring, answered, undone>>

AnswerCall(p) ==
    /\ working[p].step = "saved"
    /\ answered' = answered \cup {working[p].call}
    /\ working' = [working EXCEPT ![p] = Idle]
    /\ UNCHANGED <<profile, file, tmp, database>>

\* The method raises before it saves, or the process dies at any step.
Abandon(p) ==
    /\ working[p] # Idle
    /\ working' = [working EXCEPT ![p] = Idle]
    /\ UNCHANGED <<profile, file, tmp, database, answered>>

-----------------------------------------------------------------------------
(* The operator                                                            *)

Stopped == \A p \in Processes : working[p] = Idle
TakenBack(state) == (undone \cup row.state) \ state

\* import_json_state_to_sqlite.py, then a start on SQLite; with --force it may run
\* again later, beside the servers, and the version of the row goes on.
NextVersion == row.version + 1

ImportState ==
    /\ ~restoring /\ (profile = "json" => Stopped)
    /\ row.version < MaxVersion
    /\ profile' = "sqlite"
    /\ WriteState(NextVersion, file)
    /\ undone' = TakenBack(file)
    /\ UNCHANGED <<file, tmp, backup, restoring, working, answered>>

\* backup_sqlite.py, beside the servers.
Backup ==
    /\ row.version > 0 /\ ~restoring
    /\ backup' = row
    /\ UNCHANGED <<profile, file, tmp, row, tables, restoring, working, answered, undone>>

\* restore_sqlite.py --force, the servers stopped: the copy is made first, then the
\* database goes and the copy takes its place; a failed restore is run again.
RestoreUnlink ==
    /\ backup.version > 0 /\ Stopped /\ ~restoring
    /\ restoring' = TRUE
    /\ undone' = TakenBack(backup.state)
    /\ row' = [version |-> 0, state |-> {}]
    /\ tables' = {}
    /\ UNCHANGED <<profile, file, tmp, backup, working, answered>>

RestoreReplace ==
    /\ restoring
    /\ restoring' = FALSE
    /\ WriteState(backup.version, backup.state)
    /\ UNCHANGED <<profile, file, tmp, backup, working, answered, undone>>

RNext ==
    \/ \E p \in Processes :
          \/ \E c \in Calls : Load(p, c) \/ Update(p, c)
          \/ OpenTmp(p) \/ CloseTmp(p) \/ ReplaceFile(p)
          \/ SaveState(p) \/ AnswerCall(p) \/ Abandon(p)
    \/ ImportState \/ Backup \/ RestoreUnlink \/ RestoreReplace

RSpec == RInit /\ [][RNext]_rvars

-----------------------------------------------------------------------------
(* Properties                                                              *)

RTypeOK ==
    /\ profile \in {"json", "sqlite"}
    /\ file \subseteq Calls
    /\ tmp \in [open : BOOLEAN, state : SUBSET Calls]
    /\ row \in Row /\ backup \in Row
    /\ tables \subseteq Calls
    /\ restoring \in BOOLEAN
    /\ working \in [Processes -> [step : {"idle", "loaded", "open", "closed", "saved"},
                                  call : Calls \cup {NoCall}, read : Row]]
    /\ answered \subseteq Calls /\ undone \subseteq Calls

Stored == IF profile = "json" THEN file ELSE row.state

\* A call that was answered stays in the state until an import or a restore takes
\* it back, and what was taken back is not written again by a process that read
\* it before (JsonStateRepository.save, SQLiteStateRepository._save_state, update,
\* import_state); the projected tables show the state that is stored.
AnsweredIsKept ==
    ~restoring =>
        /\ answered \ undone \subseteq Stored
        /\ undone \cap Stored = {}
        /\ profile = "sqlite" => tables = row.state

=============================================================================
