----------------------------- MODULE SyncCenter -----------------------------
(***************************************************************************)
(* The sync panel of the desktop client and its background worker: two     *)
(* processes on one vault.  Each command reads the vault_state row and the *)
(* filemap, works, and writes them back whole, so that one can undo what   *)
(* the other wrote; a killed process leaves a journal or a lock behind.    *)
(* The panel looks at all this and offers the user what to do next.  What  *)
(* the commands do inside is in CommitSync, ContentSnapshot and PullApply. *)
(***************************************************************************)
EXTENDS Naturals

CONSTANTS Artifacts,     \* what a conflict leaves: a conflict copy or an orphan
          Iterations,    \* of a worker loop
          MaxMishaps     \* bound: failures, kills, commits of others, notes made or removed

ASSUME IterationsIsNat == Iterations \in Nat
ASSUME MaxMishapsIsNat == MaxMishaps \in Nat

VARIABLES applying,      \* a sync_apply_journal exists
          broken,        \* and its plan cannot be carried out any more
          leftovers,     \* staged files or a plan that belong to no journal
          intent,        \* commit_intent_journal.status
          row,           \* vault_state
          copies,        \* conflict_copy records of the filemap
          orphans,       \* files in conflict-orphans/
          changed,       \* a note differs from its record
          ahead,         \* the backend is ahead of this device
          differs,       \* the filemap does not list what the head does
          overtaken,     \* the processes that pull, the other having moved the row on
          job,           \* what each process does
          loop,          \* of the worker: iterations left, and how they ended
          health,        \* the worker state file
          mishaps

apply == <<applying, broken, leftovers>>
world == <<changed, ahead, differs, overtaken>>
conflicts == <<copies, orphans>>
worker == <<loop, health>>
yvars == <<apply, intent, row, conflicts, world, job, worker, mishaps>>

Actors == {"panel", "worker"}
Rows == [commit_in_progress : BOOLEAN, has_unresolved_conflicts : BOOLEAN, valid : BOOLEAN]
FreshRow == [commit_in_progress |-> FALSE, has_unresolved_conflicts |-> FALSE, valid |-> TRUE]
NewLoop == [left |-> Iterations, good |-> FALSE, bad |-> FALSE]

\* What a command has read: nothing yet; or load_snapshot.
Nothing == [row |-> FreshRow, copies |-> {}, differs |-> FALSE]
Load == [Nothing EXCEPT !.row = row, !.copies = copies]
Resting == [at |-> "idle", seen |-> Nothing, pulled |-> FALSE]

\* import_vault_package: conflicts come with the package; the baseline is revision 0.
Imported ==
    /\ copies \in SUBSET Artifacts /\ orphans \in SUBSET Artifacts
    /\ row = [FreshRow EXCEPT !.valid = FALSE,
                              !.has_unresolved_conflicts = copies \cup orphans # {}]
    /\ ahead = TRUE

\* initialize_vault_state
Initialized == row = FreshRow /\ copies = {} /\ orphans = {} /\ ahead \in BOOLEAN

YInit ==
    /\ applying = FALSE /\ broken = FALSE /\ leftovers = FALSE /\ intent = "none"
    /\ Imported \/ Initialized
    /\ changed \in BOOLEAN /\ differs \in BOOLEAN /\ overtaken = {}
    /\ job = [a \in Actors |-> Resting]
    /\ loop = NewLoop /\ health = "none"
    /\ mishaps = 0

Stage(a, step) == job[a].at = step

\* The next step of a command, with what it knows of what it has read.
Proceed(a, step, seen) == job' = [job EXCEPT ![a].at = step, ![a].seen = seen] /\ UNCHANGED worker
Goto(a, step) == Proceed(a, step, Nothing)
Reading(a, step) == Proceed(a, step, Load)

Mishap == mishaps < MaxMishaps /\ mishaps' = mishaps + 1

-----------------------------------------------------------------------------
(* run_cycle and the worker loop                                           *)

Rest(a) == [job EXCEPT ![a] = Resting]

\* Fault: an iteration that fails is counted twice.
CountedTwice(ok) ==
    [left |-> loop.left - (IF ok THEN 1 ELSE 2), good |-> loop.good \/ ok, bad |-> loop.bad \/ ~ok]

\* An iteration is over.
Counted(ok) == [left |-> loop.left - 1, good |-> loop.good \/ ok, bad |-> loop.bad \/ ~ok]

\* run_cycle: recoveries first; the pull goes before the commit when one of them left
\* no valid baseline, otherwise after it.
PullsFirst(a, valid) ==
    job[a].pulled \/ (job[a].at \in {"recover", "recover-pull-apply"} /\ ~valid)

Following(a, valid) ==
    CASE Stage(a, "recover") -> "recover-pull-apply"
      [] job[a].at \in {"recover-pull-apply", "apply clean"} ->
            IF PullsFirst(a, valid) THEN "pull" ELSE "submit"
      [] job[a].at \in {"pull stage", "pull clean"} ->
            IF job[a].pulled THEN "submit" ELSE "idle"
      [] OTHER -> IF job[a].pulled THEN "idle" ELSE "pull"

\* A command has done what it should.
Done(a, valid) ==
    IF a = "worker" /\ Following(a, valid) # "idle"
    THEN /\ job' = [job EXCEPT ![a] = [at |-> Following(a, valid), seen |-> Nothing,
                                       pulled |-> PullsFirst(a, valid)]]
         /\ UNCHANGED worker
    ELSE /\ job' = Rest(a)
         /\ loop' = IF a = "worker" THEN Counted(TRUE) ELSE loop
         /\ UNCHANGED health

\* A command has raised: the worker counts it and goes on (continue_on_error).
Raise(a) ==
    /\ job' = Rest(a)
    /\ loop' = IF a = "worker" THEN Counted(FALSE) ELSE loop
    /\ UNCHANGED health

StartCycle ==
    /\ Stage("worker", "idle") /\ loop.left > 0
    /\ Goto("worker", "recover")
    /\ UNCHANGED <<apply, intent, row, conflicts, world, mishaps>>

\* The state file is written at the end of the loop only.
EndLoop ==
    /\ Stage("worker", "idle") /\ loop.left = 0
    /\ health' = IF ~loop.bad THEN "healthy" ELSE IF loop.good THEN "degraded" ELSE "failing"
    /\ loop' = NewLoop
    /\ UNCHANGED <<apply, intent, row, conflicts, world, job, mishaps>>

-----------------------------------------------------------------------------
(* The panel                                                               *)

HasArtifacts == copies # {} \/ orphans # {}

\* commit_gate.can_submit_commit
CanSubmit ==
    /\ ~applying /\ intent = "none"
    /\ row = FreshRow
    /\ ~HasArtifacts

\* Fault: conflicts are shown before a commit that waits for recovery.
PrimaryConflictsFirst ==
    IF applying THEN "recover-pull-apply"
    ELSE IF HasArtifacts THEN "list-conflicts"
    ELSE IF intent # "none" \/ row.commit_in_progress THEN "recover"
    ELSE IF ~row.valid THEN "pull"
    ELSE IF health \in {"degraded", "failing"} THEN "worker-health"
    ELSE IF changed THEN "submit" ELSE "pull"

\* panel.primary_action: the first that applies.
Primary ==
    IF applying THEN "recover-pull-apply"
    ELSE IF intent # "none" \/ row.commit_in_progress THEN "recover"
    ELSE IF HasArtifacts THEN "list-conflicts"
    ELSE IF ~row.valid THEN "pull"
    ELSE IF health \in {"degraded", "failing"} THEN "worker-health"
    ELSE IF changed THEN "submit" ELSE "pull"

\* The enabled actions that do something: the primary one, and those on the cards
\* for a stale baseline, for changed notes and for conflicts.
Offered ==
    ({Primary} \ {"submit"})
        \cup (IF row.valid THEN {} ELSE {"pull"})
        \cup (IF changed /\ CanSubmit THEN {"submit"} ELSE {})
        \cup (IF HasArtifacts THEN {"resolve"} ELSE {})

\* The flag of what was read is raised, and with it the whole row written.
Promote(seen) ==
    IF ~seen.row.has_unresolved_conflicts /\ (seen.copies # {} \/ orphans # {})
    THEN row' = [seen.row EXCEPT !.has_unresolved_conflicts = TRUE]
    ELSE UNCHANGED row

OpenPanel ==
    /\ Stage("panel", "idle")
    /\ Reading("panel", "look")
    /\ UNCHANGED <<apply, intent, row, conflicts, world, mishaps>>

\* execute_sync_action looks for the action again before it runs it.
Choose(command) ==
    /\ Stage("panel", "look")
    /\ command \in Offered \ {"list-conflicts", "worker-health"}
    /\ Promote(job["panel"].seen)
    /\ Goto("panel", command)
    /\ UNCHANGED <<apply, intent, conflicts, world, mishaps>>

ClosePanel ==
    /\ Stage("panel", "look")
    /\ Promote(job["panel"].seen)
    /\ Goto("panel", "idle")
    /\ UNCHANGED <<apply, intent, conflicts, world, mishaps>>

-----------------------------------------------------------------------------
(* Recoveries                                                              *)

Unlocked(valid) == [row EXCEPT !.commit_in_progress = FALSE, !.valid = valid]

\* A submitted intent is looked up at the backend: found, the baseline is its manifest
\* or none; not found, it is what it was, and no pull is asked for.
RecoverCommit(a) ==
    /\ Stage(a, "recover")
    /\ IF intent = "submitted"
       THEN \/ \E valid \in BOOLEAN : row' = Unlocked(valid) /\ Done(a, valid)
            \/ row' = Unlocked(row.valid) /\ Done(a, TRUE)
       ELSE row' = Unlocked(row.valid) /\ Done(a, row.valid)
    /\ intent' = "none"
    /\ UNCHANGED <<apply, conflicts, world, mishaps>>

\* A conflict is found while files are put in place, or none.
ConflictsAppear(reconciled) ==
    \/ UNCHANGED conflicts /\ row' = reconciled
    \/ \E x \in Artifacts :
          /\ \/ copies' = copies \cup {x} /\ UNCHANGED orphans
             \/ orphans' = orphans \cup {x} /\ UNCHANGED copies
          /\ row' = [reconciled EXCEPT !.has_unresolved_conflicts = TRUE]

\* Without a journal, what was staged is set aside, and a full pull asked for.
RecoverOrphaned(a) ==
    /\ Stage(a, "recover-pull-apply") /\ ~applying
    /\ row' = [row EXCEPT !.valid = @ /\ ~leftovers]
    /\ Done(a, ~leftovers)
    /\ leftovers' = FALSE
    /\ UNCHANGED <<applying, broken, intent, conflicts, world, mishaps>>

\* The journal's plan is replayed, or given up; what it had staged is still there.
RecoverPullApply(a) ==
    /\ Stage(a, "recover-pull-apply") /\ applying
    /\ \/ broken /\ row' = [row EXCEPT !.valid = FALSE] /\ UNCHANGED conflicts
       \/ ~broken /\ ConflictsAppear([row EXCEPT !.valid = TRUE])
    /\ applying' = FALSE /\ broken' = FALSE /\ leftovers' = TRUE
    /\ job' = [job EXCEPT ![a].at = "apply clean",
                          ![a].pulled = @ \/ (a = "worker" /\ ~row'.valid)]
    /\ UNCHANGED <<intent, world, worker, mishaps>>

\* The staged files and the plan are removed, those of an apply that the other
\* process has begun meanwhile too.
CleanUp(a) ==
    /\ job[a].at \in {"apply clean", "pull clean"}
    /\ leftovers' = FALSE
    /\ broken' \in {broken, applying}
    /\ Done(a, TRUE)
    /\ UNCHANGED <<applying, intent, row, conflicts, world, mishaps>>

-----------------------------------------------------------------------------
(* Pull                                                                    *)

Pull(a) ==
    /\ Stage(a, "pull")
    /\ IF applying \/ row.commit_in_progress
       THEN Raise(a)
       ELSE Proceed(a, "pull write", [Nothing EXCEPT !.row.valid = row.valid, !.copies = copies,
                                                  !.differs = differs])
    /\ overtaken' = overtaken \ {a}
    /\ UNCHANGED <<apply, intent, row, conflicts, changed, ahead, differs, mishaps>>

\* Those that pull from what they read before the row was brought up to the head.
Pulling(a) == {b \in Actors \ {a} : Stage(b, "pull write")}

\* plan_pull_reconcile: a manifest is downloaded for a baseline that is stale or old.
Downloads(a) == ~job[a].seen.row.valid \/ ahead \/ a \in overtaken

\* pull_and_ack: the filemap is what was read, brought up to the head; the row is
\* loaded again.  Without a manifest no plan can be built, and the pull raises.
PullWrite(a) ==
    /\ Stage(a, "pull write")
    /\ IF Downloads(a)
       THEN /\ copies' = job[a].seen.copies
            /\ row' = [row EXCEPT !.valid = TRUE]
            /\ ahead' = FALSE /\ differs' = FALSE
            /\ overtaken' = (overtaken \ {a}) \cup IF ahead THEN Pulling(a) ELSE {}
            /\ Proceed(a, "pull stage", [Nothing EXCEPT !.differs = job[a].seen.differs])
       ELSE Raise(a) /\ UNCHANGED <<copies, row, ahead, differs, overtaken>>
    /\ UNCHANGED <<apply, intent, orphans, changed, mishaps>>

\* The blobs are there.  Without a difference between the filemap that was read and the
\* manifest there is nothing to put in place, and no journal.
PullStage(a) ==
    /\ Stage(a, "pull stage")
    /\ IF applying
       THEN Raise(a) /\ UNCHANGED <<applying, leftovers>>
       ELSE \/ Done(a, TRUE) /\ UNCHANGED <<applying, leftovers>>
            \/ /\ job[a].seen.differs
               /\ applying' = TRUE /\ leftovers' = FALSE
               /\ Goto(a, "pull finish")
    /\ UNCHANGED <<broken, intent, row, conflicts, world, mishaps>>

\* finalize_applied_pull_plan: the other process may have recovered the journal, or
\* removed what is staged.
PullFinish(a) ==
    /\ Stage(a, "pull finish")
    /\ IF applying /\ ~broken
       THEN /\ ConflictsAppear([row EXCEPT !.valid = TRUE])
            /\ applying' = FALSE /\ leftovers' = TRUE
            /\ Goto(a, "pull clean")
       ELSE /\ ConflictsAppear(row)
            /\ UNCHANGED applying
            /\ leftovers' \in {leftovers, ~applying}
            /\ Raise(a)
    /\ UNCHANGED <<broken, intent, world, mishaps>>

-----------------------------------------------------------------------------
(* Commit                                                                  *)

Submit(a) ==
    /\ Stage(a, "submit")
    /\ IF changed THEN Reading(a, "submit lock") ELSE Done(a, TRUE)
    /\ UNCHANGED <<apply, intent, row, conflicts, world, mishaps>>

\* should_block_new_commit, on the row that was read
Blocks(seen) ==
    \/ intent # "none"
    \/ seen.row # FreshRow
    \/ seen.copies # {} \/ orphans # {}

SubmitLock(a) ==
    LET seen == job[a].seen IN
    /\ Stage(a, "submit lock")
    /\ IF applying
       THEN Raise(a) /\ UNCHANGED <<row, intent>>
       ELSE IF Blocks(seen)
       THEN Raise(a) /\ Promote(seen) /\ UNCHANGED intent
       ELSE /\ intent' = "submitted"
            /\ row' = [seen.row EXCEPT !.commit_in_progress = TRUE]
            /\ Proceed(a, "submit finish", [Nothing EXCEPT !.copies = seen.copies])
    /\ UNCHANGED <<apply, conflicts, world, mishaps>>

\* Committed, refused because others were first, or its journal gone: recovered by
\* the other process.
SubmitFinish(a) ==
    /\ Stage(a, "submit finish")
    /\ IF intent # "submitted"
       THEN /\ ahead' = TRUE
            /\ Raise(a)
            /\ UNCHANGED <<intent, row, copies, changed, differs, overtaken>>
       ELSE /\ intent' = "none"
            /\ row' = Unlocked(~ahead)
            /\ Done(a, ~ahead)
            /\ IF ahead THEN UNCHANGED <<copies, changed, differs, overtaken>>
                        ELSE /\ copies' = job[a].seen.copies
                             /\ changed' = FALSE /\ differs' = FALSE
                             /\ overtaken' = overtaken \cup Pulling(a)
            /\ UNCHANGED ahead
    /\ UNCHANGED <<apply, orphans, mishaps>>

-----------------------------------------------------------------------------
(* resolve_conflicts --all                                                 *)

\* The files are removed,
Resolve ==
    /\ Stage("panel", "resolve")
    /\ IF applying \/ row.commit_in_progress \/ ~HasArtifacts
       THEN Raise("panel") /\ UNCHANGED orphans
       ELSE /\ Proceed("panel", "resolve filemap", [Nothing EXCEPT !.row = row])
            /\ orphans' = {}
    /\ UNCHANGED <<apply, intent, row, copies, world, mishaps>>

\* then their records,
ResolveFilemap ==
    /\ Stage("panel", "resolve filemap")
    /\ copies' = {}
    /\ Proceed("panel", "resolve row", job["panel"].seen)
    /\ UNCHANGED <<apply, intent, row, orphans, world, mishaps>>

\* then the flag, in the row as it was read.
ResolveRow ==
    LET seen == job["panel"].seen IN
    /\ Stage("panel", "resolve row")
    /\ row' = IF seen.row.has_unresolved_conflicts = (orphans # {}) THEN row
              ELSE [seen.row EXCEPT !.has_unresolved_conflicts = orphans # {}]
    /\ Done("panel", TRUE)
    /\ UNCHANGED <<apply, intent, conflicts, world, mishaps>>

-----------------------------------------------------------------------------
(* Trouble, and the rest of the world                                      *)

\* An apply that was left may have its plan, and files for it, or not.  Leftovers that
\* a recovery found may be set aside and the row not written.
LeavesApply(a) ==
    /\ broken' \in {broken} \cup IF Stage(a, "pull finish") THEN {applying} ELSE {}
    /\ leftovers' \in {leftovers} \cup
           IF Stage(a, "recover-pull-apply") THEN {leftovers /\ applying} ELSE {}

\* The backend is not reached, or a file cannot be read or written.
Fails(a) ==
    /\ Mishap
    /\ LeavesApply(a)
    /\ \/ /\ job[a].at \in {"recover", "recover-pull-apply", "apply clean", "pull write",
                            "pull stage", "pull finish", "pull clean", "submit"}
          /\ UNCHANGED <<intent, row>>
       \/ /\ Stage(a, "submit finish")        \* cleanup_failed_commit
          /\ intent' = "none" /\ row' = Unlocked(row.valid)
    /\ Raise(a)
    /\ UNCHANGED <<applying, conflicts, world>>

\* Between the journal and the row, or after both, before the manifest is frozen.
LockCut(a) ==
    /\ Stage(a, "submit lock") /\ ~applying /\ ~Blocks(job[a].seen)
    /\ Mishap
    /\ intent' = "prepared"
    /\ row' \in {row, [job[a].seen.row EXCEPT !.commit_in_progress = TRUE]}
    /\ Raise(a)
    /\ UNCHANGED <<apply, conflicts, world>>

Kill(a) ==
    /\ ~Stage(a, "idle")
    /\ Mishap
    /\ LeavesApply(a)
    /\ job' = Rest(a)
    /\ loop' = IF a = "worker" THEN NewLoop ELSE loop
    /\ UNCHANGED <<applying, intent, row, conflicts, world, health>>

\* A note's file is edited; or the app makes or removes a note, and its record.
NoteChanges ==
    /\ changed' = TRUE
    /\ \/ UNCHANGED <<differs, mishaps>>
       \/ Mishap /\ differs' = TRUE
    /\ UNCHANGED <<apply, intent, row, conflicts, ahead, overtaken, job, worker>>

OthersCommit ==
    /\ Mishap
    /\ ahead' = TRUE /\ differs' = TRUE
    /\ UNCHANGED <<apply, intent, row, conflicts, changed, overtaken, job, worker>>

Commands(a) ==
    \/ RecoverCommit(a) \/ RecoverOrphaned(a) \/ RecoverPullApply(a) \/ CleanUp(a)
    \/ Pull(a) \/ PullWrite(a) \/ PullStage(a) \/ PullFinish(a)
    \/ Submit(a) \/ SubmitLock(a) \/ SubmitFinish(a)

Remedies == {"recover-pull-apply", "recover", "resolve", "pull"}

YNext ==
    \/ StartCycle \/ EndLoop
    \/ OpenPanel \/ ClosePanel \/ \E command \in Remedies \cup {"submit"} : Choose(command)
    \/ Resolve \/ ResolveFilemap \/ ResolveRow
    \/ \E a \in Actors : Commands(a) \/ Fails(a) \/ LockCut(a) \/ Kill(a)
    \/ NoteChanges \/ OthersCommit

\* A process does its next step; the user looks again and again, and does not for
\* ever leave aside a remedy the panel offers (nobody has to commit).
YFairness ==
    /\ WF_yvars(Commands("worker"))
    /\ WF_yvars(OpenPanel \/ Commands("panel") \/ Resolve \/ ResolveFilemap \/ ResolveRow)
    /\ \A command \in Remedies : SF_yvars(Choose(command))

YSpec == YInit /\ [][YNext]_yvars /\ YFairness

-----------------------------------------------------------------------------
(* Properties                                                              *)

YTypeOK ==
    /\ applying \in BOOLEAN /\ (broken => applying) /\ leftovers \in BOOLEAN
    /\ intent \in {"none", "prepared", "submitted"}
    /\ row \in Rows
    /\ copies \subseteq Artifacts /\ orphans \subseteq Artifacts
    /\ changed \in BOOLEAN /\ ahead \in BOOLEAN /\ differs \in BOOLEAN
    /\ overtaken \subseteq Actors
    /\ \A a \in Actors : job[a].seen.row \in Rows /\ job[a].seen.copies \subseteq Artifacts
    /\ loop.left \in 0 .. Iterations
    /\ health \in {"none", "healthy", "degraded", "failing"}
    /\ mishaps \in 0 .. MaxMishaps

\* The flag of unresolved conflicts is up and nothing is left to resolve: an
\* interrupted resolve_conflicts, or a row written back by the other process.  The
\* panel offers nothing against it.
Stranded == row.has_unresolved_conflicts /\ ~HasArtifacts

\* Whatever journals, locks and stale rows two processes, failures and kills leave
\* behind, a user who follows the panel gets back to where a commit is accepted; the
\* one dead end is Stranded.
GateReopens == []<>(CanSubmit \/ Stranded)
=============================================================================
