------------------------------ MODULE PullApply ------------------------------
(* A pull is applied to the workspace of one device.  The manifest has been  *)
(* fetched, filemap.json already says what it says; the bytes still have to  *)
(* follow.  The apply is journalled: payloads are staged, then paths that    *)
(* are both taken and wanted are cleared, files written, moved and removed.  *)
(* The process may be killed after any step and recovers when it is back;    *)
(* the user goes on saving files all the while.                              *)
(*                                                                           *)
(* A content stands for its hash, and for the blob id that is derived from   *)
(* the hash.  Manifests list no path twice (operations.py refuses a taken    *)
(* path).  Items of one list are taken in any order: the code sorts them by  *)
(* path, and any order is that of some naming.                               *)
EXTENDS Naturals, FiniteSets

CONSTANTS
    Files, Paths,
    Contents,       \* what manifests refer to
    Drafts,         \* what the user types, and nobody else has
    Absent,
    MaxFaults,      \* kills, and exceptions the disk raises while staging
    MaxEdits        \* what the user saves or removes

ASSUME AbsentIsNoFile == Absent \notin Files
ASSUME DraftsAreNew == Drafts \cap Contents = {} /\ Absent \notin Drafts \cup Contents
ASSUME BoundsAreNat == MaxFaults \in Nat /\ MaxEdits \in Nat

VARIABLES
    before,         \* active filemap records as they were when the pull began
    target,         \* files of the pulled manifest, the active records since
    disk,           \* the workspace
    staging,        \* .noteapp/staging/<file_id>.staging
    orphans,        \* bytes moved to the staging orphans
    copies,         \* conflict copies: <<source file, bytes>>
    phase,          \* sync_apply_journal: its phase, "none" without a row
    planFile,       \* sync-apply-plan.json exists
    stale,          \* last_manifest_summary_status
    conflict,       \* has_unresolved_conflicts
    op,             \* the running apply or recovery
    touched,        \* paths the user has changed since the pull
    saved,          \* by path: the draft the user saved there and still means
    faults, edits

durable == <<staging, orphans, copies, phase, planFile, stale, conflict>>
user == <<touched, saved, edits>>
pvars == <<before, target, disk, durable, op, user, faults>>

Bytes == Contents \cup Drafts
Entry == [path : Paths, content : Contents]
Live(table) == {f \in Files : table[f] # Absent}
PathsIn(table) == {table[f].path : f \in Live(table)}
Tables == {t \in [Files -> Entry \cup {Absent}] :
              \A f, g \in Live(t) : t[f].path = t[g].path => f = g}

-----------------------------------------------------------------------------
(* The plan                                                                *)

\* New and changed files are written, files whose path alone changed are moved;
\* a file that is gone, or that will be written elsewhere, leaves its old path.
Written == {f \in Live(target) :
               f \notin Live(before) \/ before[f].content # target[f].content}
Moved == {f \in Live(target) \ Written : before[f].path # target[f].path}

Removed == {f \in Live(before) :
               \/ f \notin Live(target)
               \/ f \in Written /\ before[f].path # target[f].path}

From(f) == before[f].path
To(f) == target[f].path
Hash(f) == target[f].content
InPlace(f) == f \in Live(before) /\ From(f) = To(f)

\* Paths some file has to leave before another arrives.
Blocking == {To(f) : f \in Written \cup Moved} \cap {From(f) : f \in Moved \cup Removed}
BlockingMoves == {f \in Moved : {From(f), To(f)} \cap Blocking # {}}

\* The blobs to download are those of written files and of moved files the user
\* has changed or removed; every file of the manifest with such a blob is staged.
Needed == Written \cup {f \in Moved : disk[From(f)] # Hash(f)}
ToStage == {f \in Live(target) : \E g \in Needed : Hash(g) = Hash(f)}

-----------------------------------------------------------------------------
(* The running apply                                                       *)

Op(at, left, resumed) ==
    [at |-> at, left |-> left, item |-> Absent, saw |-> Absent, resumed |-> resumed]
Idle == Op("idle", {}, "none")
At(at) == op.at = at
Goto(at) == op' = Op(at, {}, op.resumed)

Init ==
    /\ before \in Tables /\ target \in Tables /\ before # target
    /\ disk = [p \in Paths |-> IF p \in PathsIn(before)
                               THEN before[CHOOSE f \in Live(before) : From(f) = p].content
                               ELSE Absent]
    /\ staging = [f \in Files |-> Absent]
    /\ orphans = {} /\ copies = {}
    /\ phase = "none" /\ planFile = FALSE
    /\ stale = FALSE /\ conflict = FALSE
    /\ op = Op("pulled", {}, "none")
    /\ touched = {} /\ saved = [p \in Paths |-> Absent]
    /\ faults = 0 /\ edits = 0

Fault == faults < MaxFaults /\ faults' = faults + 1

\* What the user saves counts as saved for good when no sync step is running; a
\* save that races a running apply may be read before and overwritten after.
UserChanges(p, bytes) ==
    /\ edits < MaxEdits
    /\ edits' = edits + 1
    /\ disk[p] # bytes
    /\ disk' = [disk EXCEPT ![p] = bytes]
    /\ touched' = touched \cup {p}
    /\ saved' = [saved EXCEPT ![p] = IF op.at \in {"idle", "pulled"} THEN bytes ELSE Absent]
    /\ UNCHANGED <<before, target, durable, op, faults>>

-----------------------------------------------------------------------------
(* Staging                                                                 *)

Plan ==
    /\ At("pulled")
    /\ op' = Op("planned", ToStage, "none")
    /\ UNCHANGED <<before, target, disk, durable, user, faults>>

Prepare ==
    /\ At("planned") /\ phase = "none"
    /\ phase' = "preparing"
    /\ op' = [op EXCEPT !.at = "preparing"]
    /\ UNCHANGED <<before, target, disk, staging, orphans, copies, planFile, stale, conflict,
                   user, faults>>

WritePlan ==
    /\ At("preparing")
    /\ planFile' = TRUE
    /\ op' = [op EXCEPT !.at = "staging"]
    /\ UNCHANGED <<before, target, disk, staging, orphans, copies, phase, stale, conflict,
                   user, faults>>

StageFile(f) ==
    /\ At("staging") /\ f \in op.left
    /\ staging' = [staging EXCEPT ![f] = Hash(f)]
    /\ op' = [op EXCEPT !.left = @ \ {f}]
    /\ UNCHANGED <<before, target, disk, orphans, copies, phase, planFile, stale, conflict,
                   user, faults>>

EndStaging ==
    /\ At("staging") /\ op.left = {}
    /\ phase' = "staging"
    /\ Goto("starting")
    /\ UNCHANGED <<before, target, disk, staging, orphans, copies, planFile, stale, conflict,
                   user, faults>>

\* A write failed: everything is taken back, and the exception ends the cycle.
StagingFails ==
    /\ op.at \in {"preparing", "staging"}
    /\ Fault
    /\ staging' = [f \in Files |-> Absent]
    /\ phase' = "none" /\ planFile' = FALSE
    /\ op' = Idle
    /\ UNCHANGED <<before, target, disk, orphans, copies, stale, conflict, user>>

-----------------------------------------------------------------------------
(* Materializing: the steps of apply_staged_pull_plan in their order.  Each  *)
(* item is looked at, and a dirty file preserved, in Look; Leave, Write,     *)
(* Arrive and Remove then change the workspace.                              *)

Steps == {"leaving", "clearing", "writing", "arriving", "removing"}
StepItems(at) ==
    CASE at = "leaving"  -> BlockingMoves
      [] at = "clearing" -> {f \in Removed : From(f) \in Blocking}
      [] at = "writing"  -> Written
      [] at = "arriving" -> Moved
      [] at = "removing" -> {f \in Removed : From(f) \notin Blocking}
      [] OTHER           -> {}

\* Fault: files are written before the paths they need are cleared.
StepsWriteFirst(at) ==
    CASE at = "starting" -> "writing"
      [] at = "writing"  -> "leaving"
      [] at = "leaving"  -> "clearing"
      [] at = "clearing" -> "arriving"
      [] at = "arriving" -> "removing"
      [] at = "removing" -> "finishing"

StepAfter(at) ==
    CASE at = "starting" -> "leaving"
      [] at = "leaving"  -> "clearing"
      [] at = "clearing" -> "writing"
      [] at = "writing"  -> "arriving"
      [] at = "arriving" -> "removing"
      [] at = "removing" -> "finishing"
StartStep(at) == op' = Op(at, StepItems(at), op.resumed)

StartApply ==
    /\ At("starting")
    /\ phase' = "materializing"
    /\ StartStep(StepAfter("starting"))
    /\ UNCHANGED <<before, target, disk, staging, orphans, copies, planFile, stale, conflict,
                   user, faults>>

NextStep ==
    /\ op.at \in Steps /\ op.left = {}
    /\ StartStep(StepAfter(op.at))
    /\ UNCHANGED <<before, target, disk, durable, user, faults>>

\* The file whose bytes a step is about to replace, and the hash the plan expects.
\* Only a write to the path the file had before looks at what is there.

\* Fault: only removals look at what they replace.
GuardedRemovals(f) == op.at \in {"clearing", "removing"}

Guarded(f) ==
    \/ op.at \in {"leaving", "clearing", "removing"}
    \/ At("writing") /\ InPlace(f) /\ staging[f] = Hash(f)
    \/ At("arriving") /\ f \notin BlockingMoves
Dirty(f) == disk[From(f)] \notin {Absent, before[f].content}

\* The copy and its filemap record are one step: a kill between the two only
\* makes the next run write the same bytes again under another name.
Look(f) ==
    /\ op.at \in Steps /\ f \in op.left /\ op.item = Absent
    /\ op' = [op EXCEPT !.item = f,
                        !.saw = IF Guarded(f) THEN disk[From(f)] ELSE Absent]
    /\ IF Guarded(f) /\ Dirty(f)
       THEN copies' = copies \cup {<<f, disk[From(f)]>>} /\ conflict' = TRUE
       ELSE UNCHANGED <<copies, conflict>>
    /\ UNCHANGED <<before, target, disk, staging, orphans, phase, planFile, stale, user, faults>>

Done(f) == op' = [op EXCEPT !.left = @ \ {f}, !.item = Absent, !.saw = Absent]
Acting(at, f) == At(at) /\ op.item = f
OnlyFiles == UNCHANGED <<before, target, orphans, copies, phase, planFile, stale, conflict,
                         user, faults>>

\* What the step finds when it acts: the file it looked at, its payload, or the
\* work already done by a run that was killed.
Arrived(f) == disk[To(f)] = Hash(f)
HasPayload(f) == staging[f] = Hash(f) \/ (staging[f] = Absent /\ Arrived(f))
SawMine(f) == op.saw = Hash(f) /\ disk[From(f)] # Absent
SawDirty(f) == op.saw \notin {Absent, Hash(f)} /\ (Arrived(f) \/ staging[f] = Hash(f))
SawNothing(f) == op.saw = Absent /\ (Arrived(f) \/ (At("leaving") /\ staging[f] # Absent))
Ready(f) ==
    \/ At("writing") /\ HasPayload(f)
    \/ At("arriving") /\ f \in BlockingMoves /\ HasPayload(f)
    \/ /\ At("leaving") \/ (At("arriving") /\ f \notin BlockingMoves)
       /\ SawMine(f) \/ SawDirty(f) \/ SawNothing(f)

\* A file that blocks, or is blocked, goes to staging; one the user has changed is
\* dropped, its payload is in staging already.
Leave(f) ==
    /\ Acting("leaving", f) /\ Ready(f)
    /\ disk' = IF SawNothing(f) THEN disk ELSE [disk EXCEPT ![From(f)] = Absent]
    /\ staging' = IF SawMine(f) THEN [staging EXCEPT ![f] = disk[From(f)]] ELSE staging
    /\ Done(f)
    /\ OnlyFiles

Remove(f) ==
    /\ Acting("clearing", f) \/ Acting("removing", f)
    /\ disk' = [disk EXCEPT ![From(f)] = Absent]
    /\ Done(f)
    /\ UNCHANGED staging
    /\ OnlyFiles

Write(f) ==
    /\ Acting("writing", f) /\ Ready(f)
    /\ disk' = IF staging[f] = Absent THEN disk ELSE [disk EXCEPT ![To(f)] = staging[f]]
    /\ Done(f)
    /\ UNCHANGED staging
    /\ OnlyFiles

\* Blocking moves arrive from staging, the others from their old path.
ArriveStaged(f) ==
    /\ Acting("arriving", f) /\ f \in BlockingMoves /\ Ready(f)
    /\ disk' = IF staging[f] = Absent THEN disk ELSE [disk EXCEPT ![To(f)] = staging[f]]
    /\ staging' = [staging EXCEPT ![f] = Absent]
    /\ Done(f)
    /\ OnlyFiles

ArriveDirect(f) ==
    /\ Acting("arriving", f) /\ f \notin BlockingMoves /\ Ready(f)
    /\ disk' = IF SawNothing(f) THEN disk
               ELSE [disk EXCEPT ![To(f)] = IF SawMine(f) THEN disk[From(f)] ELSE Hash(f),
                                 ![From(f)] = Absent]
    /\ Done(f)
    /\ UNCHANGED staging
    /\ OnlyFiles

\* Neither the file nor its payload is where the step needs it, or the bytes are
\* others.  A first run raises; a recovery takes the workspace for finished if
\* it had begun to materialize and every active file is in place, else degrades.
AllArrived == \A f \in Live(target) : Arrived(f)

\* Fault: a recovery in the middle of materializing always calls it finished.
RaiseFinishes(f) ==
    /\ op.item = f /\ ~Ready(f)
    /\ op.at \in {"leaving", "writing", "arriving"}
    /\ op' = CASE op.resumed = "none" -> Idle
               [] op.resumed = "materializing" -> Op("matched", {}, op.resumed)
               [] OTHER -> Op("degrading", {}, op.resumed)
    /\ UNCHANGED <<before, target, disk, durable, user, faults>>

\* Fault: the journal is cleared first, the summary forgotten.
RaiseQuietly(f) ==
    /\ op.item = f /\ ~Ready(f)
    /\ op.at \in {"leaving", "writing", "arriving"}
    /\ op' = IF op.resumed = "none" THEN Idle ELSE Op("unlocking", {}, op.resumed)
    /\ UNCHANGED <<before, target, disk, durable, user, faults>>

Raise(f) ==
    /\ op.item = f /\ ~Ready(f)
    /\ op.at \in {"leaving", "writing", "arriving"}
    /\ op' = CASE op.resumed = "none" -> Idle
               [] op.resumed = "materializing" /\ AllArrived -> Op("matched", {}, op.resumed)
               [] OTHER -> Op("degrading", {}, op.resumed)
    /\ UNCHANGED <<before, target, disk, durable, user, faults>>

-----------------------------------------------------------------------------
(* The end of an apply                                                     *)

OnlyPhase == UNCHANGED <<before, target, disk, staging, orphans, copies, planFile, stale,
                         conflict, user, faults>>

BeginRewrite ==
    /\ At("finishing") /\ phase = "materializing"
    /\ phase' = "filemap_rewrite"
    /\ UNCHANGED op
    /\ OnlyPhase

BeginFinalizing ==
    /\ \/ At("finishing") /\ phase = "filemap_rewrite"
       \/ At("matched")
    /\ phase' = "finalizing"
    /\ Goto("finishing")
    /\ OnlyPhase

\* One transaction clears the journal and makes the summary valid.
FinalizeApply ==
    /\ At("finishing") /\ phase = "finalizing"
    /\ phase' = "none" /\ stale' = FALSE
    /\ Goto("sweeping")
    /\ UNCHANGED <<before, target, disk, staging, orphans, copies, planFile, conflict,
                   user, faults>>

SweepStaging ==
    /\ At("sweeping")
    /\ staging' = [f \in Files |-> Absent]
    /\ Goto("unplanning")
    /\ UNCHANGED <<before, target, disk, orphans, copies, phase, planFile, stale, conflict,
                   user, faults>>

RemovePlan ==
    /\ At("unplanning")
    /\ planFile' = FALSE
    /\ op' = Idle
    /\ UNCHANGED <<before, target, disk, staging, orphans, copies, phase, stale, conflict,
                   user, faults>>

-----------------------------------------------------------------------------
(* Recovery, which begins every cycle                                      *)

Staged == {f \in Files : staging[f] # Absent}

\* Fault: a journal that has staged nothing yet is not looked at.
RecoverStaged ==
    /\ At("idle")
    /\ \/ phase \in {"staging", "materializing"} /\ op' = Op("starting", {}, phase)
       \/ phase \in {"filemap_rewrite", "finalizing"} /\ op' = Op("finishing", {}, phase)
       \/ phase = "none" /\ (Staged # {} \/ planFile) /\ op' = Op("isolating", {}, phase)
    /\ UNCHANGED <<before, target, disk, durable, user, faults>>

\* The plan outlives the journal, so a journal past "preparing" has one.
Recover ==
    /\ At("idle")
    /\ \/ phase = "preparing" /\ op' = Op("degrading", {}, phase)
       \/ phase \in {"staging", "materializing"} /\ op' = Op("starting", {}, phase)
       \/ phase \in {"filemap_rewrite", "finalizing"} /\ op' = Op("finishing", {}, phase)
       \/ phase = "none" /\ (Staged # {} \/ planFile) /\ op' = Op("isolating", {}, phase)
    /\ UNCHANGED <<before, target, disk, durable, user, faults>>

\* The journal is given up: the next pull is told to fetch everything.
MarkStale ==
    /\ At("degrading")
    /\ stale' = TRUE
    /\ Goto("unlocking")
    /\ UNCHANGED <<before, target, disk, staging, orphans, copies, phase, planFile, conflict,
                   user, faults>>

\* Fault: the row is marked instead of deleted.
MarkJournalCleared ==
    /\ At("unlocking")
    /\ phase' = "cleared"
    /\ Goto("isolating")
    /\ OnlyPhase

ClearJournal ==
    /\ At("unlocking")
    /\ phase' = "none"
    /\ Goto("isolating")
    /\ OnlyPhase

\* Fault: staging is emptied as after an apply that succeeded.
IsolateNothing ==
    /\ At("isolating")
    /\ staging' = [f \in Files |-> Absent]
    /\ Goto(IF op.resumed = "none" THEN "disowning" ELSE "unplanning")
    /\ UNCHANGED <<before, target, disk, orphans, copies, phase, planFile, stale, conflict,
                   user, faults>>

Isolate ==
    /\ At("isolating")
    /\ orphans' = orphans \cup {staging[f] : f \in Staged}
    /\ staging' = [f \in Files |-> Absent]
    /\ Goto(IF op.resumed = "none" THEN "disowning" ELSE "unplanning")
    /\ UNCHANGED <<before, target, disk, copies, phase, planFile, stale, conflict, user, faults>>

\* Leftovers without a journal: the plan goes, then the summary is made stale.
Disown ==
    /\ At("disowning")
    /\ planFile' = FALSE
    /\ Goto("doubting")
    /\ UNCHANGED <<before, target, disk, staging, orphans, copies, phase, stale, conflict,
                   user, faults>>

Doubt ==
    /\ At("doubting")
    /\ stale' = TRUE
    /\ op' = Idle
    /\ UNCHANGED <<before, target, disk, staging, orphans, copies, phase, planFile, conflict,
                   user, faults>>

Kill ==
    /\ op.at # "idle"
    /\ Fault
    /\ op' = Idle
    /\ UNCHANGED <<before, target, disk, durable, user>>

-----------------------------------------------------------------------------

SyncStep ==
    \/ Plan \/ Prepare \/ WritePlan \/ EndStaging \/ StartApply \/ NextStep
    \/ \E f \in Files : StageFile(f) \/ Look(f) \/ Leave(f) \/ Remove(f) \/ Write(f)
                        \/ ArriveStaged(f) \/ ArriveDirect(f) \/ Raise(f)
    \/ BeginRewrite \/ BeginFinalizing \/ FinalizeApply \/ SweepStaging \/ RemovePlan
    \/ Recover \/ MarkStale \/ ClearJournal \/ Isolate \/ Disown \/ Doubt

Next ==
    \/ SyncStep \/ StagingFails \/ Kill
    \/ \E p \in Paths, bytes \in Drafts \cup {Absent} : UserChanges(p, bytes)

Spec == Init /\ [][Next]_pvars

\* The worker goes on with what it does and comes back after an error or a kill.
FairSpec == Spec /\ WF_pvars(SyncStep)

-----------------------------------------------------------------------------
(* Properties                                                              *)

PTypeOK ==
    /\ before \in Tables /\ target \in Tables
    /\ disk \in [Paths -> Bytes \cup {Absent}]
    /\ staging \in [Files -> Bytes \cup {Absent}]
    /\ orphans \subseteq Bytes /\ copies \subseteq Files \X Bytes
    /\ phase \in {"none", "preparing", "staging", "materializing", "filemap_rewrite",
                  "finalizing"}
    /\ {planFile, stale, conflict} \subseteq BOOLEAN
    /\ op.left \subseteq Files /\ op.item \in Files \cup {Absent}
    /\ op.saw \in Bytes \cup {Absent}
    /\ touched \subseteq Paths /\ saved \in [Paths -> Drafts \cup {Absent}]
    /\ faults \in 0..MaxFaults /\ edits \in 0..MaxEdits

\* Whatever kills and replays it went through, an apply that reaches its last
\* phases has put every file of the manifest where it belongs, but for paths the
\* user changed and saves that raced a move and went along.  It has also left
\* nothing at the old paths, if the user kept out of it: a recovery that takes the
\* workspace for finished does not look at those.
RodeAlong(f) == f \in Moved /\ From(f) \in touched /\ disk[To(f)] \in Drafts
InPlaceNow(f) == To(f) \in touched \/ Arrived(f) \/ RodeAlong(f)
AppliedMeansTarget ==
    phase \in {"filemap_rewrite", "finalizing"} =>
        /\ \A f \in Live(target) : InPlaceNow(f)
        /\ touched = {} => \A p \in PathsIn(before) \ PathsIn(target) : disk[p] = Absent

Kept(bytes) ==
    \/ \E p \in Paths : disk[p] = bytes
    \/ \E f \in Files : staging[f] = bytes \/ <<f, bytes>> \in copies
    \/ bytes \in orphans

\* What the user saved over a synced file while no sync ran is never lost: it is
\* still there, or in a conflict copy.
SavedBytesSurvive ==
    \A p \in PathsIn(before) : saved[p] = Absent \/ Kept(saved[p])

\* The bytes of a file that moves travel through staging and nothing downloads
\* them again: no kill, replay or clean-up loses them, as long as no other file
\* of the old manifest has the same bytes.
MovedBytesSurvive ==
    \A f \in Moved : {From(f), To(f)} \cap touched = {} =>
        \/ Kept(Hash(f))
        \/ \E g \in Live(before) \ {f} : before[g].content = Hash(f)

\* An apply nobody disturbs never takes a file of its own for the user's.
QuietApplyHasNoConflicts ==
    faults = 0 /\ touched = {} => copies = {} /\ ~conflict

\* However it is killed, replayed, given up and edited under, the apply is one
\* journalled update: it announces itself before it touches the workspace, moves a
\* file from its place only while it materializes, enters its last phases with every
\* file in place, and its journal row goes before that only with the row of the
\* vault marked stale (apply_staged_pull_plan, resume_pull_apply_recovery).
JournalStatus ==
    CASE phase = "none"          -> "none"
      [] phase = "preparing"     -> "announced"
      [] phase = "staging"       -> "staged"
      [] phase = "materializing" -> "working"
      [] OTHER                   -> "done"
Misplaced == {f \in Live(target) : ~InPlaceNow(f)}

Journalled == INSTANCE JournalledUpdate WITH
    status <- JournalStatus, missing <- Misplaced, doubt <- stale
ImplementsJournalledUpdate == Journalled!Spec

\* A journal blocks pulls: however often the apply is killed, in the end there is
\* no journal, no plan and nothing in staging.
ApplySettles == <>[](phase = "none" /\ Staged = {} /\ ~planFile)

\* chaos-test-plan.md: an interrupted apply is finalized or degraded without data
\* loss: the bytes of a file that only moved are somewhere.
NoDataLoss ==
    \A f \in Moved : {From(f), To(f)} \cap touched = {} => Kept(Hash(f))
=============================================================================
