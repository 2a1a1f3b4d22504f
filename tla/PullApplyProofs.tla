--------------------------- MODULE PullApplyProofs ---------------------------
(***************************************************************************)
(* What an apply guarantees for any number of files, paths and contents,   *)
(* any two manifests, and any number of kills and of changes the user      *)
(* makes.                                                                  *)
(***************************************************************************)
EXTENDS PullApply, TLAPS

-----------------------------------------------------------------------------
(* The running apply                                                       *)

Ats == {"idle", "pulled", "planned", "preparing", "staging", "starting", "finishing",
        "matched", "sweeping", "unplanning", "degrading", "unlocking", "isolating",
        "disowning", "doubting"} \cup Steps
Phases == {"none", "preparing", "staging", "materializing", "filemap_rewrite", "finalizing"}

\* What the journal says while the apply is there.
PhasesAt(at) ==
    CASE at = "idle" -> Phases
      [] at \in {"preparing", "staging"} -> {"preparing"}
      [] at = "starting" -> {"staging", "materializing"}
      [] at \in Steps \cup {"matched"} -> {"materializing"}
      [] at = "finishing" -> {"materializing", "filemap_rewrite", "finalizing"}
      [] at \in {"degrading", "unlocking"} -> {"preparing", "materializing"}
      [] OTHER -> {"none"}

ItemsAt(at) ==
    IF at \in {"planned", "preparing", "staging"} THEN Live(target) ELSE StepItems(at)

OpOK ==
    /\ op \in [at : Ats, left : SUBSET Files, item : Files \cup {Absent},
               saw : Bytes \cup {Absent}, resumed : Phases]
    /\ phase \in PhasesAt(op.at)
    /\ \A at \in Ats : At(at) => op.left \subseteq ItemsAt(at)
    /\ op.item # Absent => op.at \in Steps /\ op.item \in op.left

\* What was seen of a file is what is there, if the user keeps out, and the user's
\* bytes have been copied.
LookTrue ==
    op.item # Absent /\ Guarded(op.item) =>
        /\ From(op.item) \in touched \/ op.saw = disk[From(op.item)]
        /\ \/ op.saw \in {Absent, before[op.item].content}
           \/ <<op.item, op.saw>> \in copies

ApplyTypes == PTypeOK /\ OpOK /\ LookTrue

-----------------------------------------------------------------------------
(* The parts of the invariant                                              *)

\* A run has treated f in a step, or is past the step.
Later(at) ==
    CASE at = "leaving"  -> {"clearing", "writing", "arriving", "removing"}
      [] at = "clearing" -> {"writing", "arriving", "removing"}
      [] at = "writing"  -> {"arriving", "removing"}
      [] at = "arriving" -> {"removing"}
      [] at = "removing" -> {}
Past(at, f) ==
    /\ f \in StepItems(at)
    /\ \/ At(at) /\ f \notin op.left
       \/ op.at \in Later(at)
       \/ At("finishing") /\ phase = "materializing"

\* Bytes the user saved over f are there or copied; they are copied once f has been
\* looked at, or has left a path another file needs.
Copied(f) == saved[From(f)] = Absent \/ <<f, saved[From(f)]>> \in copies
SavedInv ==
    /\ \A f \in Live(before) : disk[From(f)] = saved[From(f)] \/ Copied(f)
    /\ op.item # Absent /\ Guarded(op.item) => Copied(op.item)
    /\ \A f \in Files : Past("leaving", f) \/ Past("clearing", f) => Copied(f)

\* A staged payload is what the manifest wants, unless the user changed the file it
\* was taken from.
PayloadsAreExact ==
    \A f \in Files : \/ staging[f] = Absent
                     \/ f \in Live(target) /\ staging[f] = Hash(f)
                     \/ f \in Moved /\ From(f) \in touched

\* A path only its own file wants to leave holds that file or what the user made of it.
OldPathsAreOwn ==
    \A f \in Moved \ BlockingMoves :
        \/ disk[From(f)] \in {Absent, Hash(f)}
        \/ disk[From(f)] \in Drafts /\ From(f) \in touched

Reached == \A f \in Live(target) : InPlaceNow(f)
GoneNow(f) == From(f) \in touched \cup PathsIn(target) \/ disk[From(f)] = Absent
Emptied == touched = {} => \A p \in PathsIn(before) \ PathsIn(target) : disk[p] = Absent

TargetInv ==
    /\ PayloadsAreExact
    /\ OldPathsAreOwn
    /\ \A f \in Live(target) \ (Written \cup Moved) : InPlaceNow(f)
    /\ \A f \in Files : Past("writing", f) \/ Past("arriving", f) => InPlaceNow(f)
    /\ \A f \in BlockingMoves : Past("leaving", f) => GoneNow(f)
    /\ \A f \in Moved \ BlockingMoves : Past("arriving", f) => GoneNow(f)
    /\ \A f \in Files : Past("removing", f) => GoneNow(f)
    /\ At("matched") => Reached /\ touched # {}
    /\ At("sweeping") => Reached
    /\ phase \in {"filemap_rewrite", "finalizing"} => Reached /\ Emptied
    /\ At("unlocking") => stale

\* The bytes of a file that moves, other than at the path it comes from.
KeptAside(f) ==
    \/ Arrived(f)
    \/ staging[f] = Hash(f)
    \/ \E g \in Files : <<g, Hash(f)>> \in copies
    \/ Hash(f) \in orphans
Alone(f) ==
    /\ {From(f), To(f)} \cap touched = {}
    /\ \A g \in Live(before) \ {f} : before[g].content # Hash(f)
MovedInv ==
    /\ \A f \in Moved : Alone(f) =>
          /\ KeptAside(f) \/ disk[From(f)] = Hash(f)
          /\ Past("leaving", f) => KeptAside(f)
    /\ op.at \in {"pulled", "planned"} \/ phase = "preparing" =>
          \A f \in Live(before) : From(f) \in touched \/ disk[From(f)] = before[f].content

\* A file no step has treated yet is as the old manifest has it.
Ahead(f) ==
    \/ op.at \in {"pulled", "planned", "preparing", "staging", "starting"}
    \/ \E at \in Steps : /\ f \in StepItems(at)
                         /\ at = "arriving" => f \notin BlockingMoves
                         /\ at = "writing" => InPlace(f)
                         /\ (At(at) /\ f \in op.left) \/ (op.at \in Steps /\ at \in Later(op.at))
QuietControl ==
    /\ copies = {} /\ ~conflict
    /\ op.resumed = "none"
    /\ op.at \notin {"degrading", "unlocking", "isolating", "disowning", "doubting", "matched"}
    /\ At("idle") => phase = "none" /\ ~planFile
    /\ op.at \in {"idle", "unplanning"} => Staged = {}
QuietAhead == \A f \in Live(before) : Ahead(f) => disk[From(f)] = before[f].content

\* The payloads of written files are staged when the workspace is changed, those of
\* files on their way from when they left to when they arrive.
QuietStaged ==
    \A f \in Written :
        /\ op.at \in {"planned", "preparing", "staging"} => f \in op.left \/ staging[f] = Hash(f)
        /\ op.at \in {"starting"} \cup Steps => staging[f] = Hash(f)
QuietCarried ==
    \A f \in BlockingMoves : Past("leaving", f) =>
        \/ At("arriving") /\ f \notin op.left
        \/ op.at \in {"removing", "finishing"}
        \/ staging[f] = Hash(f)
Quiet == QuietControl /\ QuietAhead /\ QuietStaged /\ QuietCarried
QuietInv == faults = 0 /\ touched = {} => Quiet

-----------------------------------------------------------------------------
(* Facts about the plan                                                    *)

\* The items of each step.
LEMMA ItemsOfSteps ==
    /\ StepItems("leaving") = BlockingMoves
    /\ StepItems("clearing") = {f \in Removed : From(f) \in Blocking}
    /\ StepItems("writing") = Written
    /\ StepItems("arriving") = Moved
    /\ StepItems("removing") = {f \in Removed : From(f) \notin Blocking}
    /\ \A at : at \notin Steps => StepItems(at) = {}
  BY DEF StepItems, Steps

\* The order of the steps.
LEMMA OrderOfSteps ==
    /\ StepAfter("starting") = "leaving" /\ StepAfter("leaving") = "clearing"
    /\ StepAfter("clearing") = "writing" /\ StepAfter("writing") = "arriving"
    /\ StepAfter("arriving") = "removing" /\ StepAfter("removing") = "finishing"
  BY DEF StepAfter

\* Which table lists the files of which part of the plan.
LEMMA PlanParts ==
    ASSUME PTypeOK
    PROVE  /\ Live(before) \subseteq Files /\ Live(target) \subseteq Files
           /\ \A f \in Live(before) : From(f) \in Paths /\ before[f].content \in Contents
           /\ \A f \in Live(target) : To(f) \in Paths /\ Hash(f) \in Contents
           /\ Written \subseteq Live(target) /\ Removed \subseteq Live(before)
           /\ Moved \subseteq Live(before) \cap Live(target)
           /\ BlockingMoves \subseteq Moved
           /\ Moved \cap Written = {} /\ Moved \cap Removed = {}
           /\ \A f \in Moved : From(f) # To(f) /\ before[f].content = Hash(f)
           /\ \A f \in Live(target) \ (Written \cup Moved) :
                 f \in Live(before) /\ From(f) = To(f) /\ before[f].content = Hash(f)
  <1>1. Live(before) \subseteq Files /\ Live(target) \subseteq Files
    BY DEF Live
  <1>2. /\ \A f \in Live(before) : From(f) \in Paths /\ before[f].content \in Contents
        /\ \A f \in Live(target) : To(f) \in Paths /\ Hash(f) \in Contents
    <2>1. before \in [Files -> Entry \cup {Absent}] /\ target \in [Files -> Entry \cup {Absent}]
      BY DEF PTypeOK, Tables
    <2>2. \A f \in Live(before) : before[f] \in Entry
      BY <2>1 DEF Live
    <2>3. \A f \in Live(target) : target[f] \in Entry
      BY <2>1 DEF Live
    <2> QED
      BY <2>2, <2>3 DEF Entry, From, To, Hash
  <1>3. /\ Written \subseteq Live(target) /\ Removed \subseteq Live(before)
        /\ Moved \subseteq Live(before) \cap Live(target)
        /\ Moved \cap Written = {} /\ Moved \cap Removed = {}
    BY DEF Written, Moved, Removed
  <1>4. \A f \in Moved : From(f) # To(f) /\ before[f].content = Hash(f)
    BY DEF Written, Moved, From, To, Hash
  <1>5. \A f \in Live(target) \ (Written \cup Moved) :
           f \in Live(before) /\ From(f) = To(f) /\ before[f].content = Hash(f)
    BY DEF Written, Moved, From, To, Hash
  <1> QED
    BY <1>1, <1>2, <1>3, <1>4, <1>5 DEF BlockingMoves

\* No manifest lists a path twice, and a file in the way of another is moved or removed.
LEMMA PathsAreOwn ==
    ASSUME PTypeOK
    PROVE  /\ \A f, g \in Live(before) : From(f) = From(g) => f = g
           /\ \A f, g \in Live(target) : To(f) = To(g) => f = g
           /\ \A f \in Live(before), g \in Live(target) :
                 To(g) = From(f) /\ g # f => f \in Moved \cup Removed
           /\ \A f \in Moved \cup Removed, g \in Written \cup Moved :
                 To(g) = From(f) => From(f) \in Blocking /\ (f \in Moved => f \in BlockingMoves)
           /\ \A f \in Moved : f \notin BlockingMoves =>
                 From(f) \notin Blocking /\ To(f) \notin Blocking
  <1>1. /\ \A f, g \in Live(before) : From(f) = From(g) => f = g
        /\ \A f, g \in Live(target) : To(f) = To(g) => f = g
    BY DEF PTypeOK, Tables, From, To
  <1>2. ASSUME NEW f \in Live(before), NEW g \in Live(target), To(g) = From(f), g # f
        PROVE  f \in Moved \cup Removed
    <2>1. CASE f \notin Live(target)
      BY <2>1 DEF Removed
    <2>2. CASE f \in Live(target)
      <3>1. To(f) # From(f)
        BY <1>1, <1>2, <2>2
      <3> QED
        BY <2>2, <3>1 DEF Moved, Removed, From, To
    <2> QED
      BY <2>1, <2>2
  <1>3. ASSUME NEW f \in Moved \cup Removed, NEW g \in Written \cup Moved, To(g) = From(f)
        PROVE  From(f) \in Blocking /\ (f \in Moved => f \in BlockingMoves)
    BY <1>3 DEF Blocking, BlockingMoves
  <1>4. \A f \in Moved : f \notin BlockingMoves => From(f) \notin Blocking /\ To(f) \notin Blocking
    BY DEF BlockingMoves
  <1> QED
    BY <1>1, <1>2, <1>3, <1>4

\* The plan is computed from two tables that a run does not change.
LEMMA PlanIsFixed ==
    ASSUME UNCHANGED <<before, target>>
    PROVE  /\ Live(before)' = Live(before) /\ Live(target)' = Live(target)
           /\ Written' = Written /\ Moved' = Moved /\ Removed' = Removed
           /\ Blocking' = Blocking /\ BlockingMoves' = BlockingMoves
           /\ PathsIn(before)' = PathsIn(before) /\ PathsIn(target)' = PathsIn(target)
           /\ \A f : From(f)' = From(f) /\ To(f)' = To(f) /\ Hash(f)' = Hash(f)
           /\ \A f : InPlace(f)' = InPlace(f)
           /\ \A at : StepItems(at)' = StepItems(at) /\ ItemsAt(at)' = ItemsAt(at)
  <1> USE DEF Live, From, To, Hash
  <1>1. /\ Live(before)' = Live(before) /\ Live(target)' = Live(target)
        /\ \A f : From(f)' = From(f) /\ To(f)' = To(f) /\ Hash(f)' = Hash(f)
        /\ PathsIn(before)' = PathsIn(before) /\ PathsIn(target)' = PathsIn(target)
    BY DEF PathsIn
  <1>2. Written' = Written /\ \A f : InPlace(f)' = InPlace(f)
    BY DEF Written, InPlace
  <1>3. Moved' = Moved /\ Removed' = Removed
    BY <1>2 DEF Moved, Removed
  <1>4. Blocking' = Blocking
    BY <1>2, <1>3 DEF Blocking
  <1>5. BlockingMoves' = BlockingMoves
    BY <1>3, <1>4 DEF BlockingMoves
  <1>6. \A at : StepItems(at)' = StepItems(at)
    BY <1>2, <1>3, <1>4, <1>5 DEF StepItems
  <1> QED
    BY <1>1, <1>2, <1>3, <1>4, <1>5, <1>6 DEF ItemsAt

\* No step changes the tables.
LEMMA TablesStay ==
    ASSUME [Next]_pvars
    PROVE  UNCHANGED <<before, target>>
  BY DEF Next, SyncStep, Plan, Prepare, WritePlan, EndStaging, StartApply, NextStep, StageFile,
         Look, Leave, Remove, Write, ArriveStaged, ArriveDirect, Raise, BeginRewrite,
         BeginFinalizing, FinalizeApply, SweepStaging, RemovePlan, Recover, MarkStale,
         ClearJournal, Isolate, Disown, Doubt, StagingFails, Kill, UserChanges, OnlyFiles,
         OnlyPhase, pvars

-----------------------------------------------------------------------------
(* Type correctness                                                        *)

\* The phases a journal can be in at each place.
LEMMA PhasesOfPlaces ==
    /\ PhasesAt("idle") = Phases
    /\ PhasesAt("preparing") = {"preparing"} /\ PhasesAt("staging") = {"preparing"}
    /\ PhasesAt("starting") = {"staging", "materializing"}
    /\ \A at \in Steps : PhasesAt(at) = {"materializing"}
    /\ PhasesAt("matched") = {"materializing"}
    /\ PhasesAt("finishing") = {"materializing", "filemap_rewrite", "finalizing"}
    /\ PhasesAt("degrading") = {"preparing", "materializing"}
    /\ PhasesAt("unlocking") = {"preparing", "materializing"}
    /\ \A at \in {"pulled", "planned", "sweeping", "unplanning", "isolating", "disowning",
                  "doubting"} : PhasesAt(at) = {"none"}
  BY DEF PhasesAt, Steps

\* Between two steps the running apply has nothing in hand.
LEMMA NothingInHand ==
    ASSUME NEW at \in Ats, NEW r \in Phases, op' = Op(at, {}, r), phase' \in PhasesAt(at)
    PROVE  OpOK' /\ op'.item = Absent /\ op'.left = {} /\ op'.saw = Absent
  BY DEF OpOK, Op, At

\* The place, the step and the phase of a running apply.
LEMMA OpParts ==
    ASSUME OpOK
    PROVE  /\ op.at \in Ats /\ op.resumed \in Phases /\ phase \in PhasesAt(op.at)
           /\ op.left \subseteq ItemsAt(op.at) /\ op.left \subseteq Files
           /\ op.item \in Files \cup {Absent} /\ op.saw \in Bytes \cup {Absent}
           /\ op.item # Absent => op.at \in Steps /\ op.item \in op.left
           /\ op.at \in Steps => phase = "materializing" /\ op.left \subseteq StepItems(op.at)
  BY PhasesOfPlaces DEF OpOK, ItemsAt, Steps, At

\* Places that only the control passes through.
LEMMA MovesOn ==
    ASSUME ApplyTypes, UNCHANGED <<before, target>>,
           NEW at \in Ats, NEW r \in Phases, op' = Op(at, {}, r), phase' \in PhasesAt(at)
    PROVE  OpOK' /\ LookTrue'
  BY NothingInHand DEF LookTrue

LEMMA TypesInit == Init => ApplyTypes
  <1> SUFFICES ASSUME Init PROVE ApplyTypes
    OBVIOUS
  <1>1. \A p \in PathsIn(before) :
           before[CHOOSE f \in Live(before) : From(f) = p].content \in Contents
    <2> SUFFICES ASSUME NEW p \in PathsIn(before)
                 PROVE  before[CHOOSE f \in Live(before) : From(f) = p].content \in Contents
      OBVIOUS
    <2>1. PICK f \in Live(before) : From(f) = p
      BY DEF PathsIn, From
    <2>2. (CHOOSE g \in Live(before) : From(g) = p) \in Live(before)
      BY <2>1
    <2>3. \A g \in Live(before) : before[g].content \in Contents
      BY DEF Init, Tables, Live, Entry
    <2> QED
      BY <2>2, <2>3
  <1>2. disk \in [Paths -> Bytes \cup {Absent}]
    BY <1>1 DEF Init, Bytes
  <1>3. PTypeOK
    <2>1. faults \in 0..MaxFaults /\ edits \in 0..MaxEdits
      BY BoundsAreNat DEF Init
    <2>2. /\ before \in Tables /\ target \in Tables
          /\ staging \in [Files -> Bytes \cup {Absent}]
          /\ saved \in [Paths -> Drafts \cup {Absent}] /\ touched \subseteq Paths
      BY DEF Init
    <2>3. op.left = {} /\ op.item = Absent /\ op.saw = Absent
      BY DEF Init, Op
    <2> QED
      BY <1>2, <2>1, <2>2, <2>3 DEF Init, PTypeOK
  <1>4. OpOK /\ LookTrue
    BY PhasesOfPlaces DEF Init, Op, OpOK, LookTrue, Ats, Phases, At
  <1> QED
    BY <1>3, <1>4 DEF ApplyTypes

\* Staging: the plan, the journal, the payloads.
LEMMA StagingTypes ==
    ASSUME ApplyTypes,
           \/ Plan \/ Prepare \/ WritePlan \/ EndStaging \/ StagingFails
           \/ \E f \in Files : StageFile(f)
    PROVE  ApplyTypes'
  <1> USE DEF ApplyTypes, At
  <1>a. UNCHANGED <<before, target>>
    BY DEF Plan, Prepare, WritePlan, EndStaging, StagingFails, StageFile
  <1>b. OpOK /\ PTypeOK
    OBVIOUS
  <1>1. CASE Plan
    <2>1. PTypeOK'
      BY <1>1 DEF Plan, PTypeOK, Op, durable, user, ToStage, Live, Bytes
    <2>2. ToStage \subseteq Live(target) /\ ToStage \subseteq Files
      BY DEF ToStage, Live
    <2>3. OpOK'
      BY <1>1, <1>b, <2>2, PhasesOfPlaces, OpParts, PlanIsFixed
         DEF Plan, OpOK, Op, durable, Ats, Phases, ItemsAt, At
    <2> QED
      BY <1>1, <2>1, <2>3 DEF Plan, Op, LookTrue
  <1>2. CASE Prepare \/ WritePlan
    <2>1. PTypeOK'
      BY <1>2, <1>b DEF Prepare, WritePlan, PTypeOK, OpOK, user
    <2>2. /\ op' = [op EXCEPT !.at = op'.at] /\ op'.at \in {"preparing", "staging"}
          /\ op.at \in {"planned", "preparing"} /\ phase' = "preparing"
      BY <1>2, <1>b, OpParts, PhasesOfPlaces DEF Prepare, WritePlan, OpOK
    <2>3. /\ op'.item = Absent /\ op'.left = op.left
          /\ op' \in [at : Ats, left : SUBSET Files, item : Files \cup {Absent},
                      saw : Bytes \cup {Absent}, resumed : Phases]
      BY <2>2, <1>b DEF OpOK, Ats, Steps
    <2>4. /\ ItemsAt(op.at) = Live(target)
          /\ \A at \in {"preparing", "staging"} : ItemsAt(at)' = Live(target)
      BY <2>2, <1>a, PlanIsFixed DEF ItemsAt
    <2>5. OpOK'
      BY <1>b, <2>2, <2>3, <2>4, OpParts, PhasesOfPlaces DEF OpOK
    <2> QED
      BY <2>1, <2>3, <2>5 DEF LookTrue
  <1>3. CASE EndStaging
    <2>1. PTypeOK'
      BY <1>3 DEF EndStaging, Goto, PTypeOK, Op, user
    <2>2. OpOK' /\ LookTrue'
      BY <1>3, <1>a, <1>b, OpParts, PhasesOfPlaces, MovesOn DEF EndStaging, Goto, Ats
    <2> QED
      BY <2>1, <2>2
  <1>4. CASE StagingFails
    <2>1. PTypeOK'
      <3>1. faults' \in 0..MaxFaults
        BY <1>4, BoundsAreNat DEF StagingFails, Fault, PTypeOK
      <3>2. op'.left = {} /\ op'.item = Absent /\ op'.saw = Absent
        BY <1>4 DEF StagingFails, Idle, Op
      <3>3. staging' \in [Files -> Bytes \cup {Absent}]
        BY <1>4 DEF StagingFails
      <3> QED
        BY <1>4, <3>1, <3>2, <3>3 DEF StagingFails, PTypeOK, user
    <2>2. OpOK' /\ LookTrue'
      BY <1>4, <1>a, <1>b, PhasesOfPlaces, MovesOn DEF StagingFails, Idle, Ats, Phases
    <2> QED
      BY <2>1, <2>2
  <1>5. ASSUME NEW f \in Files, StageFile(f)
        PROVE  ApplyTypes'
    <2>1. f \in Live(target) /\ Hash(f) \in Bytes
      BY <1>5, <1>b, OpParts, PlanParts DEF StageFile, ItemsAt, Bytes
    <2>2. PTypeOK'
      BY <1>5, <2>1 DEF StageFile, PTypeOK, user
    <2>3. op'.item = Absent /\ op'.at = "staging" /\ op'.left \subseteq op.left
          /\ op' \in [at : Ats, left : SUBSET Files, item : Files \cup {Absent},
                      saw : Bytes \cup {Absent}, resumed : Phases]
      BY <1>5, <1>b DEF StageFile, OpOK, Steps
    <2>4. ItemsAt("staging") = Live(target) /\ ItemsAt("staging")' = Live(target)
      BY <1>a, PlanIsFixed DEF ItemsAt
    <2>5. phase' = phase /\ op.at = "staging"
      BY <1>5 DEF StageFile
    <2>6. OpOK'
      BY <1>b, <2>3, <2>4, <2>5, OpParts DEF OpOK
    <2> QED
      BY <2>2, <2>3, <2>6 DEF LookTrue
  <1> QED
    BY <1>1, <1>2, <1>3, <1>4, <1>5

\* The steps of materializing begin and follow each other.
LEMMA SteppingTypes ==
    ASSUME ApplyTypes, StartApply \/ NextStep
    PROVE  ApplyTypes'
  <1> USE DEF ApplyTypes, At
  <1>1. UNCHANGED <<before, target>>
    BY DEF StartApply, NextStep
  <1> DEFINE at == op'.at
  <1>2. /\ op' = Op(at, StepItems(at), op.resumed)
        /\ at \in Steps \cup {"finishing"}
        /\ phase' = "materializing"
    BY OrderOfSteps, OpParts DEF StartApply, NextStep, StartStep, Op, Steps, durable
  <1>3. StepItems(at) \subseteq Files
    BY ItemsOfSteps, PlanParts DEF Steps
  <1>4. PTypeOK'
    BY <1>2, <1>3 DEF StartApply, NextStep, PTypeOK, Op, durable, user
  <1>5. \A x \in Steps \cup {"finishing"} : ItemsAt(x)' = StepItems(x)
    BY <1>1, PlanIsFixed DEF ItemsAt, Steps
  <1>6. OpOK'
    BY <1>2, <1>3, <1>5, OpParts, PhasesOfPlaces DEF OpOK, Op, Ats, Phases, At
  <1> QED
    BY <1>2, <1>4, <1>6 DEF LookTrue, Op

LEMMA LookTypes ==
    ASSUME ApplyTypes, NEW f \in Files, Look(f)
    PROVE  ApplyTypes'
  <1> USE DEF ApplyTypes, At
  <1>1. UNCHANGED <<before, target, disk, staging, touched, phase>>
    BY DEF Look, user
  <1>2. op.at \in Steps /\ f \in op.left /\ op.left \subseteq StepItems(op.at)
    BY OpParts DEF Look
  <1>3. op' = [op EXCEPT !.item = f, !.saw = op'.saw]
    BY DEF Look, OpOK
  <1>4. Guarded(f) => f \in Live(before)
    BY <1>2, ItemsOfSteps, PlanParts DEF Guarded, InPlace
  <1>5. Guarded(f) => disk[From(f)] \in Bytes \cup {Absent}
    BY <1>4, PlanParts DEF PTypeOK
  <1>6. op'.saw \in Bytes \cup {Absent}
    BY <1>5 DEF Look, OpOK
  <1>7. copies' \subseteq Files \X Bytes
    BY <1>5 DEF Look, Dirty, PTypeOK
  <1>8. PTypeOK'
    BY <1>3, <1>6, <1>7 DEF Look, PTypeOK, OpOK, user
  <1>9. op'.at = op.at /\ op'.left = op.left /\ op'.item = f
    BY <1>3 DEF OpOK
  <1>10. OpOK'
    <2>1. \A at : ItemsAt(at)' = ItemsAt(at)
      BY <1>1, PlanIsFixed
    <2> QED
      BY <1>1, <1>2, <1>3, <1>6, <1>9, <2>1 DEF OpOK
  <1>11. LookTrue'
    <2>1. Guarded(f)' = Guarded(f)
      BY <1>1, <1>9, PlanIsFixed DEF Guarded
    <2>2. Guarded(f) => op'.saw = disk[From(f)]
      BY DEF Look, OpOK
    <2>3. Guarded(f) => \/ disk[From(f)] \in {Absent, before[f].content}
                        \/ <<f, disk[From(f)]>> \in copies'
      BY DEF Look, Dirty
    <2> QED
      BY <1>1, <1>9, <2>1, <2>2, <2>3, PlanIsFixed DEF LookTrue
  <1> QED
    BY <1>8, <1>10, <1>11

\* Leaving, removing, writing and arriving.
Acts(f) == Leave(f) \/ Remove(f) \/ Write(f) \/ ArriveStaged(f) \/ ArriveDirect(f)

\* What every one of these does to the running apply.
LEMMA ActsFinish ==
    ASSUME ApplyTypes, NEW f \in Files, Acts(f)
    PROVE  /\ op.item = f /\ f # Absent /\ op.at \in Steps /\ f \in op.left
           /\ f \in StepItems(op.at)
           /\ op'.at = op.at /\ op'.left = op.left \ {f} /\ op'.item = Absent
           /\ op'.resumed = op.resumed
           /\ op' \in [at : Ats, left : SUBSET Files, item : Files \cup {Absent},
                       saw : Bytes \cup {Absent}, resumed : Phases]
           /\ UNCHANGED <<before, target, orphans, copies, phase, planFile, stale, conflict,
                          touched, saved, edits, faults>>
  <1>1. op.item = f /\ f # Absent /\ Done(f) /\ OnlyFiles
    BY AbsentIsNoFile DEF Acts, Leave, Remove, Write, ArriveStaged, ArriveDirect, Acting
  <1>2. op.at \in Steps /\ f \in op.left /\ f \in StepItems(op.at)
    BY <1>1, OpParts DEF ApplyTypes
  <1> QED
    BY <1>1, <1>2 DEF ApplyTypes, OpOK, Done, OnlyFiles, user

\* What they do to the workspace: a path is left empty by the file that was there and
\* was looked at, or it gets the file that belongs there.
Clears(f, p) ==
    /\ f \in Live(before) /\ p = From(f) /\ Guarded(f) /\ op.at # "writing"
    /\ disk'[p] = Absent
Fills(f, p) ==
    /\ f \in Written \cup Moved /\ p = To(f) /\ op.at \in {"writing", "arriving"}
    /\ f \in Written => (InPlace(f) => Guarded(f)) /\ disk'[p] = Hash(f) /\ At("writing")
    /\ f \in Moved => disk'[p] \in {Hash(f), disk[From(f)]} /\ At("arriving")
    /\ f \in BlockingMoves => disk'[p] = Hash(f)
    /\ disk'[p] # Absent
LEMMA ActsOnDisk ==
    ASSUME ApplyTypes, NEW f \in Files, Acts(f)
    PROVE  \A p \in Paths : disk'[p] = disk[p] \/ Clears(f, p) \/ Fills(f, p)
  <1> USE DEF ApplyTypes, At
  <1>1. op.at \in Steps /\ op.item = f /\ f \in StepItems(op.at)
    BY ActsFinish
  <1>2. PTypeOK
    OBVIOUS
  <1>d. disk \in [Paths -> Bytes \cup {Absent}]
    BY DEF PTypeOK
  <1>3. CASE Leave(f) \/ Remove(f)
    <2>1. f \in Live(before) /\ Guarded(f) /\ op.at # "writing"
      BY <1>1, <1>2, <1>3, ItemsOfSteps, PlanParts DEF Leave, Remove, Acting, Guarded
    <2>2. \A p \in Paths : disk'[p] = disk[p] \/ (p = From(f) /\ disk'[p] = Absent)
      BY <1>3, <1>d DEF Leave, Remove
    <2> QED
      BY <2>1, <2>2 DEF Clears
  <1>4. CASE Write(f)
    <2>1. f \in Written /\ op.at = "writing" /\ f \notin Moved /\ f \notin BlockingMoves
      BY <1>1, <1>2, <1>4, ItemsOfSteps, PlanParts DEF Write, Acting
    <2>2. staging[f] # Absent => staging[f] = Hash(f)
      BY <1>4, <2>1 DEF Write, Ready, HasPayload
    <2>3. staging[f] # Absent /\ InPlace(f) => Guarded(f)
      BY <2>1, <2>2 DEF Guarded
    <2>4. \A p \in Paths :
             disk'[p] = disk[p] \/ (p = To(f) /\ disk'[p] = Hash(f) /\ staging[f] # Absent)
      BY <1>4, <1>d, <2>2 DEF Write
    <2> QED
      BY <1>2, <2>1, <2>3, <2>4, PlanParts, DraftsAreNew DEF Fills
  <1>5. CASE ArriveStaged(f)
    <2>1. f \in Moved /\ op.at = "arriving" /\ f \notin Written /\ f \in BlockingMoves
      BY <1>1, <1>2, <1>5, ItemsOfSteps, PlanParts DEF ArriveStaged, Acting
    <2>2. staging[f] # Absent => staging[f] = Hash(f)
      BY <1>5, <2>1 DEF ArriveStaged, Ready, HasPayload
    <2>3. \A p \in Paths : disk'[p] = disk[p] \/ (p = To(f) /\ disk'[p] = Hash(f))
      BY <1>5, <1>d, <2>2 DEF ArriveStaged
    <2> QED
      BY <1>2, <2>1, <2>3, PlanParts, DraftsAreNew DEF Fills
  <1>6. CASE ArriveDirect(f)
    <2>1. f \in Moved /\ op.at = "arriving" /\ f \notin Written /\ f \notin BlockingMoves
      BY <1>1, <1>2, <1>6, ItemsOfSteps, PlanParts DEF ArriveDirect, Acting
    <2>2. f \in Live(before) /\ Guarded(f)
      BY <1>2, <2>1, PlanParts DEF Guarded
    <2>3. \A p \in Paths : \/ disk'[p] = disk[p]
                           \/ p = From(f) /\ disk'[p] = Absent
                           \/ /\ p = To(f) /\ disk'[p] \in {Hash(f), disk[From(f)]}
                              /\ disk'[p] = disk[From(f)] => SawMine(f) \/ disk'[p] = Hash(f)
      BY <1>6, <1>d DEF ArriveDirect
    <2> QED
      BY <1>2, <2>1, <2>2, <2>3, PlanParts, DraftsAreNew DEF Fills, Clears, SawMine
  <1> QED
    BY <1>3, <1>4, <1>5, <1>6 DEF Acts

LEMMA ActsTypes ==
    ASSUME ApplyTypes, NEW f \in Files, Acts(f)
    PROVE  ApplyTypes'
  <1>1. PTypeOK /\ OpOK
    BY DEF ApplyTypes
  <1>2. \A p \in Paths : disk'[p] \in Bytes \cup {Absent}
    <2> SUFFICES ASSUME NEW p \in Paths PROVE disk'[p] \in Bytes \cup {Absent}
      OBVIOUS
    <2>1. CASE Fills(f, p)
      <3>1. Hash(f) \in Bytes
        BY <1>1, <2>1, PlanParts DEF Fills, Bytes
      <3>2. f \in Moved => disk[From(f)] \in Bytes \cup {Absent}
        BY <1>1, PlanParts DEF PTypeOK
      <3> QED
        BY <2>1, <3>1, <3>2 DEF Fills
    <2> QED
      BY <1>1, <2>1, ActsOnDisk DEF PTypeOK, Clears
  <1>3. disk' = [p \in Paths |-> disk'[p]]
    <2>1. disk = [p \in Paths |-> disk[p]]
      BY <1>1 DEF PTypeOK
    <2> QED
      BY <2>1 DEF Acts, Leave, Remove, Write, ArriveStaged, ArriveDirect
  <1>4. staging' \in [Files -> Bytes \cup {Absent}]
    <2>1. CASE Leave(f)
      <3>1. disk[From(f)] \in Bytes \cup {Absent}
        BY <1>1, ActsFinish, <2>1, ItemsOfSteps, PlanParts DEF Leave, Acting, At, PTypeOK
      <3> QED
        BY <1>1, <2>1, <3>1 DEF Leave, PTypeOK
    <2> QED
      BY <1>1, <2>1 DEF Acts, Remove, Write, ArriveStaged, ArriveDirect, PTypeOK
  <1>5. PTypeOK'
    BY <1>1, <1>2, <1>3, <1>4, ActsFinish DEF PTypeOK
  <1>6. OpOK'
    <2>1. \A at : ItemsAt(at)' = ItemsAt(at)
      BY ActsFinish, PlanIsFixed
    <2> QED
      BY <1>1, <2>1, ActsFinish DEF OpOK, At
  <1> QED
    BY <1>5, <1>6, ActsFinish DEF ApplyTypes, LookTrue

\* The end of a run that could not go on.
LEMMA RaiseTypes ==
    ASSUME ApplyTypes, NEW f \in Files, Raise(f)
    PROVE  ApplyTypes'
  <1>1. UNCHANGED <<before, target, disk, durable, user, faults>>
    BY DEF Raise
  <1>2. op.at \in Steps
    BY DEF Raise, Steps
  <1>3. PICK at \in {"idle", "matched", "degrading"}, r \in Phases : op' = Op(at, {}, r)
    BY DEF Raise, Idle, ApplyTypes, OpOK, Phases
  <1>4. phase' \in PhasesAt(at) /\ at \in Ats
    BY <1>1, <1>2, <1>3, OpParts, PhasesOfPlaces DEF ApplyTypes, durable, Phases, Ats
  <1>5. PTypeOK'
    BY <1>1, <1>3 DEF ApplyTypes, PTypeOK, Op, durable, user
  <1> QED
    BY <1>1, <1>3, <1>4, <1>5, MovesOn DEF ApplyTypes

\* The end of an apply, its recovery and a kill.
LEMMA EndingTypes ==
    ASSUME ApplyTypes,
           \/ BeginRewrite \/ BeginFinalizing \/ FinalizeApply \/ SweepStaging \/ RemovePlan
           \/ Recover \/ MarkStale \/ ClearJournal \/ Isolate \/ Disown \/ Doubt \/ Kill
    PROVE  ApplyTypes'
  <1> USE DEF ApplyTypes, At
  <1>1. UNCHANGED <<before, target>>
    BY DEF BeginRewrite, BeginFinalizing, FinalizeApply, SweepStaging, RemovePlan, Recover,
           MarkStale, ClearJournal, Isolate, Disown, Doubt, Kill, OnlyPhase
  <1>2. OpOK /\ PTypeOK /\ op.resumed \in Phases /\ phase \in PhasesAt(op.at) /\ phase \in Phases
    BY OpParts DEF PTypeOK, Phases
  <1>3. CASE BeginRewrite
    <2>1. PTypeOK'
      BY <1>3 DEF BeginRewrite, OnlyPhase, PTypeOK, user
    <2>2. op' = op /\ op.item = Absent /\ phase' = "filemap_rewrite"
      BY <1>2, <1>3, OpParts DEF BeginRewrite, Steps
    <2>3. \A at : ItemsAt(at)' = ItemsAt(at)
      BY <1>1, PlanIsFixed
    <2>4. OpOK'
      BY <1>2, <1>3, <2>2, <2>3, PhasesOfPlaces DEF BeginRewrite, OpOK
    <2> QED
      BY <2>1, <2>2, <2>4 DEF LookTrue
  <1>4. CASE ~BeginRewrite
    <2>1. PICK at \in Ats, r \in Phases : op' = Op(at, {}, r) /\ phase' \in PhasesAt(at)
      <3>1. CASE BeginFinalizing \/ FinalizeApply \/ SweepStaging \/ RemovePlan
        BY <3>1, <1>2, PhasesOfPlaces
           DEF BeginFinalizing, FinalizeApply, SweepStaging, RemovePlan, Goto, Idle, OnlyPhase,
               Ats, Phases
      <3>2. CASE Recover
        BY <3>2, <1>2, PhasesOfPlaces DEF Recover, durable, Ats, Phases
      <3>3. CASE MarkStale \/ ClearJournal \/ Isolate \/ Disown \/ Doubt
        BY <3>3, <1>2, PhasesOfPlaces
           DEF MarkStale, ClearJournal, Isolate, Disown, Doubt, Goto, Idle, OnlyPhase, Ats, Phases
      <3>4. CASE Kill
        BY <3>4, <1>2, PhasesOfPlaces DEF Kill, Idle, durable, Ats, Phases
      <3> QED
        BY <3>1, <3>2, <3>3, <3>4, <1>4
    <2>2. op'.left = {} /\ op'.item = Absent /\ op'.saw = Absent
      BY <2>1 DEF Op
    <2>3. PTypeOK'
      <3>1. CASE BeginFinalizing \/ FinalizeApply \/ SweepStaging \/ RemovePlan \/ Recover
        BY <3>1, <2>2 DEF BeginFinalizing, FinalizeApply, SweepStaging, RemovePlan, Recover,
               OnlyPhase, PTypeOK, durable, user
      <3>2. CASE MarkStale \/ ClearJournal \/ Disown \/ Doubt
        BY <3>2, <2>2 DEF MarkStale, ClearJournal, Disown, Doubt, OnlyPhase, PTypeOK, user
      <3>3. CASE Isolate
        BY <3>3, <2>2 DEF Isolate, Staged, PTypeOK, user
      <3>4. CASE Kill
        BY <3>4, <2>2, BoundsAreNat DEF Kill, Fault, PTypeOK, durable, user
      <3> QED
        BY <3>1, <3>2, <3>3, <3>4, <1>4
    <2>4. OpOK' /\ LookTrue'
      BY <1>1, <2>1, MovesOn
    <2> QED
      BY <2>3, <2>4
  <1> QED
    BY <1>3, <1>4

LEMMA UserTypes ==
    ASSUME ApplyTypes, NEW p \in Paths, NEW bytes \in Drafts \cup {Absent},
           UserChanges(p, bytes)
    PROVE  ApplyTypes'
  <1> USE DEF ApplyTypes, At
  <1>1. UNCHANGED <<before, target, staging, copies, phase, op>>
    BY DEF UserChanges, durable
  <1>2. PTypeOK'
    BY BoundsAreNat DEF UserChanges, PTypeOK, Bytes, durable
  <1>3. OpOK'
    <2>1. \A at : ItemsAt(at)' = ItemsAt(at)
      BY <1>1, PlanIsFixed
    <2> QED
      BY <1>1, <2>1 DEF OpOK
  <1>4. LookTrue'
    <2> SUFFICES ASSUME op.item # Absent, Guarded(op.item)'
                 PROVE  /\ (From(op.item) \in touched \/ op.saw = disk[From(op.item)])'
                        /\ (\/ op.saw \in {Absent, before[op.item].content}
                            \/ <<op.item, op.saw>> \in copies)'
      BY <1>1 DEF LookTrue
    <2>1. Guarded(op.item)
      BY <1>1, PlanIsFixed DEF Guarded
    <2>2. op.item \in Live(before)
      BY <2>1, OpParts, ItemsOfSteps, PlanParts DEF Guarded, InPlace
    <2>3. From(op.item) \in Paths
      BY <2>2, PlanParts
    <2>4. touched' = touched \cup {p} /\ \A q \in Paths : q # p => disk'[q] = disk[q]
      BY DEF UserChanges, PTypeOK
    <2> QED
      BY <1>1, <2>1, <2>3, <2>4, PlanIsFixed DEF LookTrue
  <1> QED
    BY <1>2, <1>3, <1>4

LEMMA TypesStep == ApplyTypes /\ [Next]_pvars => ApplyTypes'
  <1> SUFFICES ASSUME ApplyTypes, [Next]_pvars PROVE ApplyTypes'
    OBVIOUS
  <1>1. CASE UNCHANGED pvars
    <2>1. (\A at : ItemsAt(at)' = ItemsAt(at)) /\ \A f : Guarded(f)' = Guarded(f) /\ From(f)' = From(f)
      BY <1>1, PlanIsFixed DEF pvars, Guarded, durable, At
    <2> QED
      BY <1>1, <2>1 DEF pvars, durable, user, ApplyTypes, PTypeOK, OpOK, LookTrue, At
  <1>2. CASE Next
    BY <1>2, StagingTypes, SteppingTypes, LookTypes, ActsTypes, RaiseTypes, EndingTypes,
       UserTypes DEF Next, SyncStep, Acts
  <1> QED
    BY <1>1, <1>2

\* The journal, the plan file, staging and the running apply agree in type and place:
\* sync_apply_journal has a row exactly where apply_staged_pull_plan expects one.
THEOREM ApplyTypeCorrect == Spec => []PTypeOK
  <1>1. ApplyTypes => PTypeOK
    BY DEF ApplyTypes
  <1> QED
    BY <1>1, TypesInit, TypesStep, PTL DEF Spec

-----------------------------------------------------------------------------
(* What a step can do                                                      *)

\* A step of the control changes neither the workspace nor what is kept of it.
OnlyControl ==
    /\ UNCHANGED <<disk, staging, orphans, copies, touched, saved>>
    /\ op'.item = Absent \/ UNCHANGED op

\* Payloads come and go while nothing is looked at.
OnlyStaging ==
    /\ (\E f \in Files : StageFile(f)) \/ StagingFails \/ SweepStaging \/ Isolate
    /\ UNCHANGED <<disk, copies, touched, saved>>
    /\ op'.item = Absent

LEMMA StepKinds ==
    ASSUME ApplyTypes, [Next]_pvars
    PROVE  \/ OnlyControl \/ OnlyStaging
           \/ \E f \in Files : Look(f) \/ Acts(f)
           \/ \E p \in Paths, bytes \in Drafts \cup {Absent} : UserChanges(p, bytes)
  <1> USE DEF At
  <1>1. OpOK
    BY DEF ApplyTypes
  <1>2. op.at \notin Steps => op.item = Absent
    BY <1>1, OpParts
  <1>3. ASSUME \/ Plan \/ Prepare \/ WritePlan \/ EndStaging \/ StartApply \/ NextStep
        PROVE  OnlyControl
    <2>1. UNCHANGED <<disk, staging, orphans, copies, touched, saved>>
      BY <1>3 DEF Plan, Prepare, WritePlan, EndStaging, StartApply, NextStep, durable, user
    <2>2. CASE Prepare \/ WritePlan
      BY <1>1, <1>2, <2>1, <2>2 DEF Prepare, WritePlan, OnlyControl, Steps, OpOK
    <2>3. CASE Plan \/ EndStaging \/ StartApply \/ NextStep
      BY <2>1, <2>3 DEF Plan, EndStaging, StartApply, NextStep, StartStep, Goto, Op, OnlyControl
    <2> QED
      BY <1>3, <2>2, <2>3
  <1>4. ASSUME \/ BeginRewrite \/ BeginFinalizing \/ FinalizeApply \/ RemovePlan \/ Recover
               \/ MarkStale \/ ClearJournal \/ Disown \/ Doubt \/ Kill
        PROVE  OnlyControl
    <2>1. UNCHANGED <<disk, staging, orphans, copies, touched, saved>>
      BY <1>4 DEF BeginRewrite, BeginFinalizing, FinalizeApply, RemovePlan, Recover, MarkStale,
             ClearJournal, Disown, Doubt, Kill, OnlyPhase, durable, user
    <2>2. op'.item = Absent \/ UNCHANGED op
      BY <1>4 DEF BeginRewrite, BeginFinalizing, FinalizeApply, RemovePlan, Recover, MarkStale,
             ClearJournal, Disown, Doubt, Kill, Goto, Idle, Op
    <2> QED
      BY <2>1, <2>2 DEF OnlyControl
  <1>5. ASSUME NEW f \in Files, Raise(f)
        PROVE  OnlyControl
    BY <1>5 DEF Raise, Idle, Op, OnlyControl, durable, user
  <1>6. ASSUME StagingFails \/ SweepStaging \/ Isolate \/ \E f \in Files : StageFile(f)
        PROVE  OnlyStaging
    <2>1. CASE StagingFails \/ SweepStaging \/ Isolate
      BY <2>1 DEF StagingFails, SweepStaging, Isolate, Goto, Idle, Op, user, OnlyStaging
    <2>2. CASE \E f \in Files : StageFile(f)
      BY <1>1, <1>2, <2>2 DEF StageFile, OnlyStaging, user, Steps, OpOK
    <2> QED
      BY <1>6, <2>1, <2>2
  <1>7. CASE UNCHANGED pvars
    BY <1>7 DEF pvars, durable, user, OnlyControl
  <1>8. CASE Next
    BY <1>3, <1>4, <1>5, <1>6, <1>8 DEF Next, SyncStep, Acts
  <1> QED
    BY <1>7, <1>8

\* A step treats a file when it acts on it, and in no other way.
LEMMA PastGrows ==
    ASSUME ApplyTypes, [Next]_pvars, NEW at \in Steps, NEW f \in Files, Past(at, f)'
    PROVE  Past(at, f) \/ (Acts(f) /\ At(at))
  <1> USE DEF At
  <1>1. UNCHANGED <<before, target>> /\ \A x : StepItems(x)' = StepItems(x)
    BY TablesStay, PlanIsFixed
  <1>2. /\ f \in StepItems(at)
        /\ \/ op'.at = at /\ f \notin op'.left
           \/ op'.at \in Later(at)
           \/ op'.at = "finishing" /\ phase' = "materializing"
    BY <1>1 DEF Past
  <1>3. op'.at \in Steps \/ (op'.at = "finishing" /\ phase' = "materializing")
    BY <1>2 DEF Later, Steps
  <1>5. CASE NextStep
    <2>1. op.at \in Steps /\ op.left = {} /\ op'.at = StepAfter(op.at)
          /\ op'.left = StepItems(op'.at)
      BY <1>5 DEF NextStep, StartStep, Op
    <2>2. op'.at # at
      BY <1>2, <2>1 DEF Steps, Later
    <2>3. op.at = at \/ op.at \in Later(at)
      BY <1>2, <2>1, <2>2, OrderOfSteps DEF Steps, Later
    <2> QED
      BY <1>2, <2>1, <2>3 DEF Past
  <1>6. CASE StartApply
    BY <1>2, <1>6, OrderOfSteps DEF StartApply, StartStep, Op, Later, Steps
  <1>7. CASE \E g \in Files : Look(g)
    BY <1>2, <1>7 DEF Look, Past, ApplyTypes, OpOK
  <1>8. CASE \E g \in Files : Acts(g)
    <2>1. PICK g \in Files : Acts(g)
      BY <1>8
    <2>2. /\ op'.at = op.at /\ op'.left = op.left \ {g} /\ phase' = phase
          /\ op.at \in Steps
      BY <2>1, ActsFinish
    <2> QED
      BY <1>2, <2>1, <2>2 DEF Past
  <1>9. CASE UNCHANGED pvars \/ \E p \in Paths, bytes \in Drafts \cup {Absent} : UserChanges(p, bytes)
    BY <1>2, <1>9 DEF pvars, durable, UserChanges, Past
  <1>10. CASE \/ Plan \/ Prepare \/ WritePlan \/ EndStaging \/ StagingFails
              \/ \E g \in Files : StageFile(g) \/ Raise(g)
    <2>1. op'.at \notin Steps \cup {"finishing"}
      BY <1>10 DEF Plan, Prepare, WritePlan, EndStaging, StagingFails, StageFile, Raise, Goto,
             Idle, Op, Steps, ApplyTypes, OpOK
    <2> QED
      BY <1>3, <2>1
  <1>11. CASE \/ BeginRewrite \/ BeginFinalizing \/ FinalizeApply \/ SweepStaging \/ RemovePlan
              \/ MarkStale \/ ClearJournal \/ Isolate \/ Disown \/ Doubt \/ Kill
    <2>1. op'.at \notin Steps /\ (op'.at = "finishing" => phase' # "materializing")
      BY <1>11 DEF BeginRewrite, BeginFinalizing, FinalizeApply, SweepStaging, RemovePlan,
             MarkStale, ClearJournal, Isolate, Disown, Doubt, Kill, Goto, Idle, Op, Steps, OnlyPhase
    <2> QED
      BY <1>3, <2>1
  <1>12. CASE Recover
    <2>1. op'.at \notin Steps /\ (op'.at = "finishing" => phase' # "materializing")
      BY <1>12 DEF Recover, durable, Op, Steps
    <2> QED
      BY <1>3, <2>1
  <1> QED
    BY <1>5, <1>6, <1>7, <1>8, <1>9, <1>10, <1>11, <1>12 DEF Next, SyncStep, Acts

-----------------------------------------------------------------------------
(* What the user saved                                                     *)

\* A draft the user still means is kept through a step the user takes no part in.
LEMMA CopiedStays ==
    ASSUME UNCHANGED <<before, target, saved>>, copies \subseteq copies', NEW f, Copied(f)
    PROVE  Copied(f)'
  BY PlanIsFixed DEF Copied

LEMMA SavedLook ==
    ASSUME ApplyTypes, SavedInv, [Next]_pvars, NEW f \in Files, Look(f)
    PROVE  SavedInv'
  <1>1. UNCHANGED <<before, target, disk, staging, saved, phase>> /\ copies \subseteq copies'
    BY DEF Look, user
  <1>2. op'.at = op.at /\ op'.item = f /\ op'.left = op.left /\ op.at \in Steps /\ f \in op.left
    BY DEF Look, ApplyTypes, OpOK
  <1>3. Guarded(f)' = Guarded(f)
    BY <1>1, <1>2, PlanIsFixed DEF Guarded, At
  <1>4. ASSUME Guarded(f) PROVE Copied(f)'
    <2>1. f \in Live(before) /\ From(f) \in Paths /\ before[f].content \in Contents
      BY <1>2, <1>4, OpParts, ItemsOfSteps, PlanParts DEF ApplyTypes, Guarded, At, InPlace
    <2>2. saved[From(f)] \in Drafts \cup {Absent}
      BY <2>1 DEF ApplyTypes, PTypeOK
    <2>3. CASE Copied(f)
      BY <1>1, <2>3, CopiedStays
    <2>4. CASE ~Copied(f)
      <3>1. disk[From(f)] = saved[From(f)] /\ saved[From(f)] \in Drafts
        BY <2>1, <2>2, <2>4 DEF SavedInv, Copied
      <3>2. Dirty(f)
        BY <2>1, <3>1, DraftsAreNew DEF Dirty
      <3>3. <<f, disk[From(f)]>> \in copies'
        BY <1>4, <3>2 DEF Look
      <3> QED
        BY <1>1, <3>1, <3>3, PlanIsFixed DEF Copied
    <2> QED
      BY <2>3, <2>4
  <1>5. \A g \in Live(before)' : (disk[From(g)] = saved[From(g)] \/ Copied(g))'
    BY <1>1, CopiedStays, PlanIsFixed DEF SavedInv
  <1>6. ~Acts(f) /\ \A g \in Files : Acts(g) => FALSE
    BY <1>2, AbsentIsNoFile, ActsFinish
  <1>7. \A g \in Files : Past("leaving", g)' \/ Past("clearing", g)' => Copied(g)'
    BY <1>1, <1>6, PastGrows, CopiedStays DEF SavedInv, Steps
  <1> QED
    BY <1>2, <1>3, <1>4, <1>5, <1>7 DEF SavedInv

LEMMA SavedActs ==
    ASSUME ApplyTypes, SavedInv, [Next]_pvars, NEW f \in Files, Acts(f)
    PROVE  SavedInv'
  <1>1. /\ UNCHANGED <<before, target, copies, saved, phase>>
        /\ op.item = f /\ f # Absent /\ op.at \in Steps /\ f \in StepItems(op.at)
        /\ op'.item = Absent
    BY ActsFinish
  <1>2. PTypeOK
    BY DEF ApplyTypes
  <1>3. Guarded(f) => Copied(f)
    BY <1>1 DEF SavedInv
  <1>4. ASSUME NEW g \in Live(before)
        PROVE  disk'[From(g)] = saved[From(g)] \/ Copied(g)
    <2>1. From(g) \in Paths /\ (disk[From(g)] = saved[From(g)] \/ Copied(g))
      BY <1>2, PlanParts DEF SavedInv
    <2>2. CASE disk'[From(g)] = disk[From(g)]
      BY <2>1, <2>2
    <2>3. CASE Clears(f, From(g))
      BY <1>2, <1>3, <2>3, PathsAreOwn DEF Clears
    <2>4. CASE Fills(f, From(g)) /\ f = g
      BY <1>2, <1>3, <2>4, PlanParts DEF Fills, InPlace
    <2>5. CASE Fills(f, From(g)) /\ f # g
      <3>1. f \in Written \cup Moved /\ To(f) = From(g) /\ op.at \in {"writing", "arriving"}
        BY <2>5 DEF Fills
      <3>2. g \in Moved \cup Removed
        BY <1>2, <2>5, <3>1, PathsAreOwn, PlanParts
      <3>3. From(g) \in Blocking /\ (g \in Moved => g \in BlockingMoves)
        BY <1>2, <3>1, <3>2, PathsAreOwn
      <3>4. g \in StepItems("leaving") \/ g \in StepItems("clearing")
        BY <3>2, <3>3, ItemsOfSteps
      <3>5. Past("leaving", g) \/ Past("clearing", g)
        BY <3>1, <3>4 DEF Past, Later
      <3> QED
        BY <1>2, <3>5, PlanParts DEF SavedInv
    <2> QED
      BY <2>1, <2>2, <2>3, <2>4, <2>5, ActsOnDisk
  <1>5. \A g \in Live(before)' : (disk[From(g)] = saved[From(g)] \/ Copied(g))'
    BY <1>1, <1>4, CopiedStays, PlanIsFixed
  <1>6. ASSUME NEW g \in Files, Past("leaving", g)' \/ Past("clearing", g)'
        PROVE  Copied(g)
    <2>1. CASE Past("leaving", g) \/ Past("clearing", g)
      BY <2>1 DEF SavedInv
    <2>2. CASE Acts(g) /\ op.at \in {"leaving", "clearing"}
      BY <1>1, <1>3, <2>2, ActsFinish DEF Guarded
    <2> QED
      BY <1>6, <2>1, <2>2, PastGrows DEF Steps, At
  <1>7. \A g \in Files : Past("leaving", g)' \/ Past("clearing", g)' => Copied(g)'
    BY <1>1, <1>6, CopiedStays
  <1> QED
    BY <1>1, <1>5, <1>7 DEF SavedInv

LEMMA SavedUser ==
    ASSUME ApplyTypes, SavedInv, [Next]_pvars,
           NEW p \in Paths, NEW bytes \in Drafts \cup {Absent}, UserChanges(p, bytes)
    PROVE  SavedInv'
  <1>1. UNCHANGED <<before, target, staging, copies, phase, op>>
    BY DEF UserChanges, durable
  <1>2. /\ disk'[p] = bytes /\ saved'[p] \in {bytes, Absent}
        /\ op.at \notin {"idle", "pulled"} => saved'[p] = Absent
        /\ \A q \in Paths : q # p => disk'[q] = disk[q] /\ saved'[q] = saved[q]
    BY DEF UserChanges, ApplyTypes, PTypeOK
  <1>3. \A g \in Live(before) : From(g) \in Paths
    BY PlanParts DEF ApplyTypes
  <1>4. \A g \in Live(before)' : (disk[From(g)] = saved[From(g)] \/ Copied(g))'
    BY <1>1, <1>2, <1>3, PlanIsFixed DEF SavedInv, Copied
  <1>5. ASSUME NEW g \in Live(before), Copied(g), op.at \notin {"idle", "pulled"}
        PROVE  Copied(g)'
    BY <1>1, <1>2, <1>3, <1>5, PlanIsFixed DEF Copied
  <1>6. op.item # Absent /\ Guarded(op.item)' => Copied(op.item)'
    <2> SUFFICES ASSUME NEW g \in Files, op.item = g, g # Absent, Guarded(g)' PROVE Copied(g)'
      BY <1>1, OpParts DEF ApplyTypes
    <2>1. Guarded(g) /\ op.at \in Steps /\ g \in StepItems(op.at)
      BY <1>1, PlanIsFixed, OpParts DEF Guarded, At, ApplyTypes
    <2>2. g \in Live(before)
      BY <2>1, ItemsOfSteps, PlanParts DEF ApplyTypes, Guarded, At, InPlace
    <2> QED
      BY <1>5, <2>1, <2>2 DEF SavedInv, Steps
  <1>7. ASSUME NEW g \in Files, Past("leaving", g)' \/ Past("clearing", g)'
        PROVE  Copied(g)'
    <2>1. Past("leaving", g) \/ Past("clearing", g)
      BY <1>1, <1>7, PlanIsFixed DEF Past, At
    <2>2. g \in Live(before) /\ op.at \notin {"idle", "pulled"}
      BY <2>1, ItemsOfSteps, PlanParts DEF Past, At, Later, ApplyTypes
    <2> QED
      BY <1>5, <2>1, <2>2 DEF SavedInv
  <1> QED
    BY <1>1, <1>4, <1>6, <1>7 DEF SavedInv

LEMMA SavedStep == ApplyTypes /\ SavedInv /\ [Next]_pvars => SavedInv'
  <1> SUFFICES ASSUME ApplyTypes, SavedInv, [Next]_pvars PROVE SavedInv'
    OBVIOUS
  <1>1. UNCHANGED <<before, target>>
    BY TablesStay
  <1>2. CASE (OnlyControl \/ OnlyStaging) /\ ~\E f \in Files : Acts(f)
    <2>1. UNCHANGED <<disk, copies, saved>>
      BY <1>2 DEF OnlyControl, OnlyStaging
    <2>2. \A g \in Live(before)' : (disk[From(g)] = saved[From(g)] \/ Copied(g))'
      BY <1>1, <2>1, CopiedStays, PlanIsFixed DEF SavedInv
    <2>3. \A g \in Files : Past("leaving", g)' \/ Past("clearing", g)' => Copied(g)'
      BY <1>1, <1>2, <2>1, PastGrows, CopiedStays DEF SavedInv, Steps
    <2>4. op'.item # Absent /\ Guarded(op.item)' => Copied(op.item)'
      <3> SUFFICES ASSUME op'.item # Absent, Guarded(op.item)' PROVE Copied(op.item)'
        OBVIOUS
      <3>1. UNCHANGED <<op, staging>>
        BY <1>2 DEF OnlyControl, OnlyStaging
      <3>2. PICK g \in Files : g = op.item
        BY <3>1, OpParts DEF ApplyTypes
      <3>3. Guarded(g)
        BY <1>1, <3>1, <3>2, PlanIsFixed DEF Guarded, At
      <3>4. Copied(g)'
        BY <1>1, <2>1, <3>1, <3>2, <3>3, CopiedStays DEF SavedInv
      <3> QED
        BY <3>1, <3>2, <3>4
    <2> QED
      BY <2>2, <2>3, <2>4 DEF SavedInv
  <1> QED
    BY <1>2, StepKinds, SavedLook, SavedActs, SavedUser

\* What the user saved over a synced file while no apply ran stays on disk or in a
\* conflict copy, through every kill and replay of apply_staged_pull_plan.
THEOREM SavesSurviveApplies == Spec => []SavedBytesSurvive
  <1>1. Init => SavedInv
    <2> SUFFICES ASSUME Init PROVE SavedInv
      OBVIOUS
    <2>1. \A f \in Live(before) : From(f) \in Paths
      BY TypesInit, PlanParts DEF ApplyTypes
    <2>2. op.item = Absent /\ op.at = "pulled"
      BY DEF Init, Op
    <2> QED
      BY <2>1, <2>2 DEF Init, SavedInv, Copied, Past, Later, At
  <1>2. ApplyTypes /\ SavedInv => SavedBytesSurvive
    <2> SUFFICES ASSUME ApplyTypes, SavedInv, NEW p \in PathsIn(before)
                 PROVE  saved[p] = Absent \/ Kept(saved[p])
      BY DEF SavedBytesSurvive
    <2>1. PICK f \in Live(before) : From(f) = p
      BY DEF PathsIn, From
    <2>2. f \in Files /\ p \in Paths
      BY <2>1, PlanParts DEF ApplyTypes
    <2> QED
      BY <2>1, <2>2 DEF SavedInv, Copied, Kept
  <1> QED
    BY <1>1, <1>2, TypesInit, TypesStep, SavedStep, PTL DEF Spec

-----------------------------------------------------------------------------
(* The target is reached                                                   *)

\* How an apply comes to its last places and phases.
LEMMA LastPlaces ==
    ASSUME ApplyTypes, [Next]_pvars
    PROVE  /\ op'.at = "matched" => op.at = "matched" \/ \E f \in Files : Raise(f) /\ AllArrived
           /\ op'.at = "sweeping" => op.at = "sweeping" \/ FinalizeApply
           /\ op'.at = "unlocking" => (op.at = "unlocking" /\ stale' = stale) \/ MarkStale
           /\ phase' \in {"filemap_rewrite", "finalizing"} =>
                 phase' = phase \/ BeginRewrite \/ BeginFinalizing
  <1> USE DEF At
  <1>1. CASE \E f \in Files : Acts(f)
    BY <1>1, ActsFinish
  <1>2. CASE UNCHANGED pvars \/ \E p \in Paths, bytes \in Drafts \cup {Absent} : UserChanges(p, bytes)
    BY <1>2 DEF UserChanges, pvars, durable
  <1>3. CASE Plan \/ Prepare \/ WritePlan \/ EndStaging \/ StagingFails \/ Kill
    BY <1>3 DEF Plan, Prepare, WritePlan, EndStaging, StagingFails, Kill, Goto, Idle, Op, durable,
           ApplyTypes, OpOK
  <1>7. CASE \E f \in Files : StageFile(f) \/ Look(f)
    BY <1>7 DEF StageFile, Look, ApplyTypes, OpOK
  <1>4. CASE StartApply \/ NextStep
    BY <1>4, OrderOfSteps DEF StartApply, NextStep, StartStep, Op, durable, Steps
  <1>5. CASE \E f \in Files : Raise(f)
    BY <1>5 DEF Raise, Idle, Op, durable
  <1>6. CASE \/ BeginRewrite \/ BeginFinalizing \/ FinalizeApply \/ SweepStaging \/ RemovePlan
             \/ Recover \/ MarkStale \/ ClearJournal \/ Isolate \/ Disown \/ Doubt
    BY <1>6 DEF BeginRewrite, BeginFinalizing, FinalizeApply, SweepStaging, RemovePlan, Recover,
           MarkStale, ClearJournal, Isolate, Disown, Doubt, Goto, Idle, Op, OnlyPhase, durable
  <1> QED
    BY <1>1, <1>2, <1>3, <1>4, <1>5, <1>6, <1>7 DEF Next, SyncStep, Acts

\* A file in its place stays there while nothing is written to its path.
LEMMA InPlaceStays ==
    ASSUME UNCHANGED <<before, target>>, touched \subseteq touched', NEW f, InPlaceNow(f),
           disk'[To(f)] = disk[To(f)] \/ To(f) \in touched'
    PROVE  InPlaceNow(f)'
  BY PlanIsFixed DEF InPlaceNow, Arrived, RodeAlong

LEMMA GoneStays ==
    ASSUME UNCHANGED <<before, target>>, touched \subseteq touched', NEW f, GoneNow(f),
           disk'[From(f)] \in {Absent, disk[From(f)]} \/ From(f) \in touched' \cup PathsIn(target)
    PROVE  GoneNow(f)'
  BY PlanIsFixed DEF GoneNow

\* A file that a step writes or brings is in its place then, and one that a step takes
\* away is gone.
LEMMA ActsReach ==
    ASSUME ApplyTypes, OldPathsAreOwn, NEW f \in Files, Acts(f)
    PROVE  /\ op.at \in {"writing", "arriving"} => InPlaceNow(f)'
           /\ op.at \in {"leaving", "removing"} => GoneNow(f)'
           /\ op.at = "arriving" /\ f \notin BlockingMoves => GoneNow(f)'
  <1> USE DEF At
  <1>1. /\ UNCHANGED <<before, target, touched>>
        /\ op.item = f /\ f # Absent /\ f \in StepItems(op.at) /\ op.at \in Steps
    BY ActsFinish
  <1>2. PTypeOK /\ LookTrue /\ disk \in [Paths -> Bytes \cup {Absent}]
    BY DEF ApplyTypes, PTypeOK
  <1>3. InPlaceNow(f)' <=> \/ To(f) \in touched \/ disk'[To(f)] = Hash(f)
                           \/ f \in Moved /\ From(f) \in touched /\ disk'[To(f)] \in Drafts
    BY <1>1, PlanIsFixed DEF InPlaceNow, Arrived, RodeAlong
  <1>4. GoneNow(f)' <=> From(f) \in touched \cup PathsIn(target) \/ disk'[From(f)] = Absent
    BY <1>1, PlanIsFixed DEF GoneNow
  <1>5. CASE Write(f) \/ ArriveStaged(f)
    <2>1. /\ f \in Written \cup Moved /\ op.at \in {"writing", "arriving"} /\ To(f) \in Paths
          /\ op.at = "arriving" => f \in BlockingMoves
      BY <1>1, <1>2, <1>5, ItemsOfSteps, PlanParts DEF Write, ArriveStaged, Acting
    <2>2. HasPayload(f)
      BY <1>5, <2>1 DEF Write, ArriveStaged, Ready, Acting
    <2>3. disk'[To(f)] = Hash(f)
      BY <1>2, <1>5, <2>1, <2>2, PlanParts, DraftsAreNew DEF Write, ArriveStaged, HasPayload, Arrived
    <2> QED
      BY <1>3, <2>1, <2>3
  <1>6. CASE Leave(f)
    <2>1. f \in Moved /\ op.at = "leaving" /\ From(f) \in Paths /\ Guarded(f)
      BY <1>1, <1>2, <1>6, ItemsOfSteps, PlanParts DEF Leave, Acting, Guarded
    <2>2. CASE SawNothing(f)
      BY <1>1, <1>2, <1>4, <1>6, <2>1, <2>2 DEF Leave, SawNothing, LookTrue
    <2>3. CASE ~SawNothing(f)
      BY <1>2, <1>4, <1>6, <2>1, <2>3 DEF Leave
    <2> QED
      BY <2>1, <2>2, <2>3
  <1>7. CASE Remove(f)
    <2>1. op.at \in {"clearing", "removing"} /\ From(f) \in Paths
      BY <1>1, <1>2, <1>7, ItemsOfSteps, PlanParts DEF Remove, Acting
    <2> QED
      BY <1>2, <1>4, <1>7, <2>1 DEF Remove
  <1>8. CASE ArriveDirect(f)
    <2>1. /\ f \in Moved /\ op.at = "arriving" /\ From(f) \in Paths /\ To(f) \in Paths
          /\ f \notin BlockingMoves /\ Guarded(f) /\ From(f) # To(f)
      BY <1>1, <1>2, <1>8, ItemsOfSteps, PlanParts DEF ArriveDirect, Acting, Guarded
    <2>2. CASE SawNothing(f)
      <3>1. disk' = disk /\ Arrived(f) /\ op.saw = Absent
        BY <1>8, <2>1, <2>2 DEF ArriveDirect, SawNothing
      <3> QED
        BY <1>1, <1>2, <1>3, <1>4, <2>1, <3>1 DEF LookTrue, Arrived
    <2>3. CASE ~SawNothing(f)
      <3>1. /\ disk'[From(f)] = Absent
            /\ disk'[To(f)] = IF SawMine(f) THEN disk[From(f)] ELSE Hash(f)
        BY <1>2, <1>8, <2>1, <2>3 DEF ArriveDirect
      <3>2. SawMine(f) => \/ disk[From(f)] = Hash(f)
                          \/ disk[From(f)] \in Drafts /\ From(f) \in touched
        BY <2>1 DEF SawMine, OldPathsAreOwn
      <3> QED
        BY <1>3, <1>4, <2>1, <3>1, <3>2
    <2> QED
      BY <2>2, <2>3
  <1> QED
    BY <1>5, <1>6, <1>7, <1>8 DEF Acts

LEMMA TargetActs ==
    ASSUME ApplyTypes, TargetInv, [Next]_pvars, NEW f \in Files, Acts(f)
    PROVE  TargetInv'
  <1> USE DEF At
  <1>1. /\ UNCHANGED <<before, target, touched, phase>>
        /\ op.item = f /\ f # Absent /\ f \in StepItems(op.at) /\ op.at \in Steps
        /\ op'.at = op.at /\ phase = "materializing"
    BY ActsFinish, OpParts DEF ApplyTypes
  <1>2. PTypeOK /\ LookTrue /\ PayloadsAreExact /\ OldPathsAreOwn
    BY DEF ApplyTypes, TargetInv
  <1>3. PayloadsAreExact'
    <2>1. ASSUME NEW g \in Files
          PROVE  \/ staging'[g] = staging[g] \/ staging'[g] = Absent
                 \/ /\ g = f /\ f \in Moved
                    /\ From(f) \in touched \/ staging'[f] = Hash(f)
      <3>1. CASE Leave(f)
        <4>1. f \in Moved /\ Guarded(f)
          BY <1>1, <1>2, <3>1, ItemsOfSteps, PlanParts DEF Leave, Acting, Guarded
        <4>2. SawMine(f) => From(f) \in touched \/ disk[From(f)] = Hash(f)
          BY <1>1, <1>2, <4>1 DEF LookTrue, SawMine
        <4> QED
          BY <1>2, <3>1, <4>1, <4>2 DEF Leave, PTypeOK
      <3>2. CASE ArriveStaged(f)
        BY <1>2, <3>2 DEF ArriveStaged, PTypeOK
      <3>3. CASE Remove(f) \/ Write(f) \/ ArriveDirect(f)
        BY <3>3 DEF Remove, Write, ArriveDirect
      <3> QED
        BY <3>1, <3>2, <3>3 DEF Acts
    <2>2. \A g \in Files : \/ staging'[g] = Absent
                           \/ g \in Live(target) /\ staging'[g] = Hash(g)
                           \/ g \in Moved /\ From(g) \in touched
      BY <1>2, <2>1, PlanParts DEF PayloadsAreExact
    <2> QED
      BY <1>1, <2>2, PlanIsFixed DEF PayloadsAreExact
  <1>4. OldPathsAreOwn'
    <2>1. ASSUME NEW g \in Moved \ BlockingMoves
          PROVE  disk'[From(g)] = disk[From(g)] \/ disk'[From(g)] = Absent
      <3>1. From(g) \in Paths
        BY <1>2, PlanParts
      <3>2. ~Fills(f, From(g))
        BY <1>2, PathsAreOwn DEF Fills
      <3> QED
        BY <3>1, <3>2, ActsOnDisk DEF Clears
    <2> QED
      BY <1>1, <1>2, <2>1, PlanIsFixed DEF OldPathsAreOwn
  <1>5. ASSUME NEW g \in Live(target) \ (Written \cup Moved)
        PROVE  InPlaceNow(g)'
    <2>1. /\ g \in Live(before) /\ From(g) = To(g) /\ To(g) \in Paths /\ g \in Live(target)
          /\ g \notin Removed
      BY <1>2, PlanParts DEF Removed
    <2>2. f # g
      BY <1>1, <1>2, <2>1, ItemsOfSteps, PlanParts DEF Steps
    <2>3. ~Clears(f, To(g))
      BY <1>2, <2>1, <2>2, PathsAreOwn DEF Clears
    <2>4. ~Fills(f, To(g))
      BY <1>2, <2>1, <2>2, PathsAreOwn, PlanParts DEF Fills
    <2> QED
      BY <1>1, <2>1, <2>3, <2>4, ActsOnDisk, InPlaceStays DEF TargetInv
  <1>6. ASSUME NEW g \in Files, Past("writing", g)' \/ Past("arriving", g)'
        PROVE  InPlaceNow(g)'
    <2>1. CASE Acts(g) /\ op.at \in {"writing", "arriving"}
      BY <1>2, <2>1, ActsReach
    <2>2. CASE Past("writing", g) \/ Past("arriving", g)
      <3>1. g \in Written \cup Moved /\ op.at \in {"writing", "arriving", "removing"}
        BY <1>1, <2>2, ItemsOfSteps DEF Past, Later, Steps
      <3>2. To(g) \in Paths /\ g \in Live(target)
        BY <1>2, <3>1, PlanParts
      <3>3. CASE Clears(f, To(g))
        <4>1. f \in Moved \cup Removed /\ op.at # "writing" /\ From(f) = To(g)
          BY <1>1, <1>2, <3>1, <3>3, ItemsOfSteps, PlanParts DEF Clears
        <4>2. From(f) \in Blocking /\ (f \in Moved => f \in BlockingMoves)
          BY <1>2, <3>1, <4>1, PathsAreOwn
        <4> QED
          BY <1>1, <1>2, <3>1, <3>3, <4>1, <4>2, ItemsOfSteps, PlanParts DEF Clears, Guarded
      <3>4. CASE Fills(f, To(g))
        <4>1. f = g /\ op.at \in {"writing", "arriving"}
          BY <1>2, <3>2, <3>4, PathsAreOwn, PlanParts DEF Fills
        <4> QED
          BY <1>2, <4>1, ActsReach
      <3> QED
        BY <1>1, <2>2, <3>2, <3>3, <3>4, ActsOnDisk, InPlaceStays DEF TargetInv
    <2> QED
      BY <1>6, <2>1, <2>2, PastGrows DEF Steps
  <1>7. ASSUME NEW g \in Live(before), GoneNow(g)
        PROVE  GoneNow(g)'
    <2>1. From(g) \in Paths
      BY <1>2, PlanParts
    <2>2. Fills(f, From(g)) => From(g) \in PathsIn(target)
      BY <1>2, PlanParts DEF Fills, PathsIn, To
    <2> QED
      BY <1>1, <1>7, <2>1, <2>2, ActsOnDisk, GoneStays DEF Clears
  <1>8. \A g \in BlockingMoves : Past("leaving", g)' => GoneNow(g)'
    BY <1>2, <1>7, PastGrows, PlanParts, ActsReach DEF TargetInv, Steps
  <1>9. \A g \in Moved \ BlockingMoves : Past("arriving", g)' => GoneNow(g)'
    BY <1>2, <1>7, PastGrows, PlanParts, ActsReach DEF TargetInv, Steps
  <1>10. \A g \in Files : Past("removing", g)' => GoneNow(g)'
    <2> SUFFICES ASSUME NEW g \in Files, Past("removing", g)' PROVE GoneNow(g)'
      OBVIOUS
    <2>1. CASE Past("removing", g)
      BY <1>2, <1>7, <2>1, ItemsOfSteps, PlanParts DEF TargetInv, Past
    <2>2. CASE Acts(g) /\ op.at = "removing"
      BY <1>2, <2>2, ActsReach
    <2> QED
      BY <2>1, <2>2, PastGrows DEF Steps
  <1>11. /\ op'.at \notin {"matched", "sweeping", "unlocking"}
         /\ phase' \notin {"filemap_rewrite", "finalizing"}
    BY <1>1 DEF Steps
  <1> QED
    BY <1>1, <1>3, <1>4, <1>5, <1>6, <1>8, <1>9, <1>10, <1>11, PlanIsFixed DEF TargetInv

LEMMA TargetUser ==
    ASSUME ApplyTypes, TargetInv, [Next]_pvars,
           NEW p \in Paths, NEW bytes \in Drafts \cup {Absent}, UserChanges(p, bytes)
    PROVE  TargetInv'
  <1> USE DEF At
  <1>1. UNCHANGED <<before, target, staging, copies, phase, op, stale>>
    BY DEF UserChanges, durable
  <1>2. /\ touched' = touched \cup {p} /\ disk'[p] \in Drafts \cup {Absent}
        /\ \A q \in Paths : q # p => disk'[q] = disk[q]
    BY DEF UserChanges, ApplyTypes, PTypeOK
  <1>3. PTypeOK
    BY DEF ApplyTypes
  <1>4. PayloadsAreExact'
    BY <1>1, <1>2, PlanIsFixed DEF TargetInv, PayloadsAreExact
  <1>5. OldPathsAreOwn'
    BY <1>1, <1>2, <1>3, PlanIsFixed, PlanParts DEF TargetInv, OldPathsAreOwn
  <1>6. ASSUME NEW g \in Live(target), InPlaceNow(g)
        PROVE  InPlaceNow(g)'
    BY <1>1, <1>2, <1>3, <1>6, PlanParts, InPlaceStays
  <1>7. ASSUME NEW g \in Live(before), GoneNow(g)
        PROVE  GoneNow(g)'
    BY <1>1, <1>2, <1>3, <1>7, PlanParts, GoneStays
  <1>8. \A at \in Steps, g \in Files : Past(at, g)' => Past(at, g)
    BY <1>1, PlanIsFixed DEF Past
  <1>9. \A g \in Files : Past("writing", g)' \/ Past("arriving", g)' => InPlaceNow(g)'
    BY <1>3, <1>6, <1>8, ItemsOfSteps, PlanParts DEF TargetInv, Past, Steps
  <1>10. /\ \A g \in BlockingMoves : Past("leaving", g)' => GoneNow(g)'
         /\ \A g \in Moved \ BlockingMoves : Past("arriving", g)' => GoneNow(g)'
         /\ \A g \in Files : Past("removing", g)' => GoneNow(g)'
    BY <1>3, <1>7, <1>8, ItemsOfSteps, PlanParts DEF TargetInv, Past, Steps
  <1>11. Reached => Reached'
    BY <1>1, <1>6, PlanIsFixed DEF Reached
  <1>12. touched' # {} /\ Emptied'
    BY <1>2 DEF Emptied
  <1> QED
    BY <1>1, <1>4, <1>5, <1>6, <1>9, <1>10, <1>11, <1>12, PlanIsFixed DEF TargetInv

\* A run nobody disturbed is never taken for one that was finished already.
LEMMA MatchedWasTouched ==
    ASSUME ApplyTypes, TargetInv, NEW f \in Files, Raise(f), AllArrived
    PROVE  touched # {}
  <1> SUFFICES ASSUME touched = {} PROVE FALSE
    OBVIOUS
  <1> USE DEF At
  <1>1. op.item = f /\ ~Ready(f) /\ op.at \in {"leaving", "writing", "arriving"} /\ f # Absent
    BY AbsentIsNoFile DEF Raise
  <1>2. PTypeOK /\ LookTrue
    BY DEF ApplyTypes
  <1>3. f \in StepItems(op.at)
    BY <1>1, OpParts DEF ApplyTypes, Steps
  <1>4. f \in Live(target) /\ Arrived(f)
    BY <1>1, <1>2, <1>3, ItemsOfSteps, PlanParts DEF AllArrived
  <1>5. HasPayload(f)
    BY <1>4 DEF TargetInv, PayloadsAreExact, HasPayload
  <1>6. op.at = "leaving" \/ (op.at = "arriving" /\ f \notin BlockingMoves)
    BY <1>1, <1>5 DEF Ready
  <1>7. Guarded(f)
    BY <1>6 DEF Guarded
  <1>8. op.saw = disk[From(f)]
    BY <1>1, <1>2, <1>7 DEF LookTrue
  <1>9. SawMine(f) \/ SawDirty(f) \/ SawNothing(f)
    <2>1. Hash(f) # Absent
      BY <1>2, <1>4, PlanParts, DraftsAreNew
    <2> QED
      BY <1>4, <1>8, <2>1 DEF SawMine, SawDirty, SawNothing
  <1> QED
    BY <1>1, <1>6, <1>9 DEF Ready

\* An apply that has gone through its steps has put every file in place.
LEMMA WholeRunReaches ==
    ASSUME ApplyTypes, TargetInv, At("finishing"), phase = "materializing"
    PROVE  Reached /\ Emptied
  <1>1. PTypeOK
    BY DEF ApplyTypes
  <1>2. \A at \in Steps : \A f \in StepItems(at) : Past(at, f)
    BY DEF Past
  <1>3. \A f \in Written \cup Moved : InPlaceNow(f)
    BY <1>1, <1>2, ItemsOfSteps, PlanParts DEF TargetInv, Steps
  <1>4. Reached
    BY <1>3 DEF Reached, TargetInv
  <1>5. ASSUME NEW f \in Live(before), From(f) \notin PathsIn(target)
        PROVE  GoneNow(f)
    <2>1. From(f) \notin Blocking
      BY <1>1, <1>5, PlanParts DEF Blocking, PathsIn, To
    <2>2. f \in Moved \cup Removed
      BY <1>1, <1>5, PlanParts DEF Moved, Removed, PathsIn, To, From
    <2> QED
      BY <1>1, <1>2, <2>1, <2>2, ItemsOfSteps, PlanParts DEF TargetInv, Steps
  <1>6. Emptied
    BY <1>5 DEF Emptied, GoneNow, PathsIn, From
  <1> QED
    BY <1>4, <1>6

LEMMA TargetStill ==
    ASSUME ApplyTypes, TargetInv, [Next]_pvars, UNCHANGED <<disk, touched>>,
           ~\E f \in Files : Acts(f)
    PROVE  TargetInv'
  <1> USE DEF At
  <1>1. UNCHANGED <<before, target>>
    BY TablesStay
  <1>2. PTypeOK
    BY DEF ApplyTypes
  <1>3. PayloadsAreExact'
    <2>1. \A g \in Files : \/ staging'[g] = staging[g] \/ staging'[g] = Absent
                           \/ g \in Live(target) /\ staging'[g] = Hash(g)
      <3>1. CASE \E f \in Files : StageFile(f)
        <4>1. PICK f \in Files : StageFile(f)
          BY <3>1
        <4>2. f \in Live(target)
          BY <4>1, OpParts DEF StageFile, ItemsAt, ApplyTypes
        <4> QED
          BY <1>2, <4>1, <4>2 DEF StageFile, PTypeOK
      <3>2. CASE StagingFails \/ SweepStaging \/ Isolate
        BY <3>2 DEF StagingFails, SweepStaging, Isolate
      <3>3. CASE OnlyControl \/ \E f \in Files : Look(f)
        BY <3>3 DEF OnlyControl, Look
      <3>4. CASE \E p \in Paths, bytes \in Drafts \cup {Absent} : UserChanges(p, bytes)
        BY <3>4 DEF UserChanges, durable
      <3> QED
        BY <3>1, <3>2, <3>3, <3>4, StepKinds DEF OnlyStaging
    <2> QED
      BY <1>1, <2>1, PlanIsFixed DEF TargetInv, PayloadsAreExact
  <1>4. OldPathsAreOwn'
    BY <1>1, PlanIsFixed DEF TargetInv, OldPathsAreOwn
  <1>5. /\ \A f : InPlaceNow(f) => InPlaceNow(f)'
        /\ \A f : GoneNow(f) => GoneNow(f)'
    BY <1>1, InPlaceStays, GoneStays
  <1>6. \A at \in Steps, f \in Files : Past(at, f)' => Past(at, f)
    BY PastGrows
  <1>7. /\ \A f \in Files : Past("writing", f)' \/ Past("arriving", f)' => InPlaceNow(f)'
        /\ \A f \in BlockingMoves : Past("leaving", f)' => GoneNow(f)'
        /\ \A f \in Moved \ BlockingMoves : Past("arriving", f)' => GoneNow(f)'
        /\ \A f \in Files : Past("removing", f)' => GoneNow(f)'
    BY <1>2, <1>5, <1>6, PlanParts DEF TargetInv, Steps
  <1>8. (Reached => Reached') /\ (Emptied => Emptied')
    BY <1>1, <1>5, PlanIsFixed DEF Reached, Emptied
  <1>9. op'.at = "matched" => Reached' /\ touched' # {}
    BY <1>1, <1>5, <1>8, LastPlaces, MatchedWasTouched, PlanIsFixed
       DEF TargetInv, AllArrived, Reached, InPlaceNow
  <1>10. op'.at = "sweeping" => Reached'
    BY <1>8, LastPlaces DEF TargetInv, FinalizeApply
  <1>11. op'.at = "unlocking" => stale'
    BY LastPlaces DEF TargetInv, MarkStale
  <1>12. phase' \in {"filemap_rewrite", "finalizing"} => Reached' /\ Emptied'
    <2>1. CASE phase' = phase
      BY <1>8, <2>1 DEF TargetInv
    <2>2. CASE BeginRewrite
      BY <1>8, <2>2, WholeRunReaches DEF BeginRewrite
    <2>3. CASE BeginFinalizing
      BY <1>8, <2>3 DEF BeginFinalizing, TargetInv, Emptied
    <2> QED
      BY <2>1, <2>2, <2>3, LastPlaces
  <1> QED
    BY <1>1, <1>3, <1>4, <1>5, <1>7, <1>9, <1>10, <1>11, <1>12, PlanIsFixed DEF TargetInv

LEMMA TargetStep == ApplyTypes /\ TargetInv /\ [Next]_pvars => TargetInv'
  <1> SUFFICES ASSUME ApplyTypes, TargetInv, [Next]_pvars PROVE TargetInv'
    OBVIOUS
  <1>1. CASE (OnlyControl \/ OnlyStaging \/ \E f \in Files : Look(f)) /\ ~\E f \in Files : Acts(f)
    BY <1>1, TargetStill DEF OnlyControl, OnlyStaging, Look, user
  <1> QED
    BY <1>1, StepKinds, TargetActs, TargetUser

\* Before the pull the workspace is what the old manifest says.
LEMMA InitialDisk == Init => \A f \in Live(before) : disk[From(f)] = before[f].content
  <1> SUFFICES ASSUME Init, NEW f \in Live(before) PROVE disk[From(f)] = before[f].content
    OBVIOUS
  <1>1. PTypeOK
    BY TypesInit DEF ApplyTypes
  <1>2. From(f) \in Paths /\ From(f) \in PathsIn(before)
    BY <1>1, PlanParts DEF PathsIn, From
  <1>3. (CHOOSE g \in Live(before) : From(g) = From(f)) = f
    BY <1>1, PathsAreOwn
  <1> QED
    BY <1>2, <1>3 DEF Init

LEMMA TargetInit == Init => TargetInv
  <1> SUFFICES ASSUME Init PROVE TargetInv
    OBVIOUS
  <1>1. PTypeOK
    BY TypesInit DEF ApplyTypes
  <1>2. op.at = "pulled" /\ phase = "none" /\ touched = {} /\ \A f \in Files : staging[f] = Absent
    BY DEF Init, Op
  <1>3. \A f \in Live(before) : disk[From(f)] = before[f].content
    BY InitialDisk
  <1>4. \A at, f : ~Past(at, f)
    BY <1>2 DEF Past, StepItems, Later, At
  <1>5. PayloadsAreExact
    BY <1>2 DEF PayloadsAreExact
  <1>6. OldPathsAreOwn
    BY <1>1, <1>3, PlanParts DEF OldPathsAreOwn
  <1>7. \A f \in Live(target) \ (Written \cup Moved) : InPlaceNow(f)
    BY <1>1, <1>3, PlanParts DEF InPlaceNow, Arrived
  <1> QED
    BY <1>2, <1>4, <1>5, <1>6, <1>7 DEF TargetInv, At

\* When apply_staged_pull_plan, or a recovery, reaches the last phases of the journal,
\* the workspace holds the manifest, but for what the user changed meanwhile.
THEOREM AppliesReachTarget == Spec => []AppliedMeansTarget
  <1>1. TargetInv => AppliedMeansTarget
    BY DEF TargetInv, AppliedMeansTarget, Reached, InPlaceNow, Emptied
  <1> QED
    BY <1>1, TypesInit, TypesStep, TargetInit, TargetStep, PTL DEF Spec

-----------------------------------------------------------------------------
(* The apply is a journalled update                                        *)

LEMMA StatusOfPhase ==
    /\ phase = "none" => JournalStatus = "none"
    /\ phase = "preparing" => JournalStatus = "announced"
    /\ phase = "staging" => JournalStatus = "staged"
    /\ phase = "materializing" => JournalStatus = "working"
    /\ phase \in {"filemap_rewrite", "finalizing"} => JournalStatus = "done"
  BY DEF JournalStatus

\* Where no file is written and the user keeps out, the same files are misplaced.
LEMMA MisplacedStay ==
    ASSUME UNCHANGED <<before, target, disk, touched>>
    PROVE  Misplaced' = Misplaced
  <1>1. \A f : InPlaceNow(f)' <=> InPlaceNow(f)
    BY PlanIsFixed DEF InPlaceNow, Arrived, RodeAlong
  <1> QED
    BY <1>1, PlanIsFixed DEF Misplaced

LEMMA MisplacedAreFiles == Misplaced \in SUBSET Files
  BY DEF Misplaced, Live

\* What the user saves or removes is in its place, and no other file leaves its own.
LEMMA UserKeepsPlaces ==
    ASSUME ApplyTypes, [Next]_pvars,
           NEW p \in Paths, NEW bytes \in Drafts \cup {Absent}, UserChanges(p, bytes)
    PROVE  Misplaced' \in SUBSET Misplaced
  <1>1. UNCHANGED <<before, target>> /\ touched' = touched \cup {p}
        /\ \A q \in Paths : q # p => disk'[q] = disk[q]
    BY DEF UserChanges, ApplyTypes, PTypeOK
  <1>2. PTypeOK
    BY DEF ApplyTypes
  <1>3. ASSUME NEW g \in Live(target), InPlaceNow(g) PROVE InPlaceNow(g)'
    BY <1>1, <1>2, <1>3, PlanParts, InPlaceStays
  <1> QED
    BY <1>1, <1>3, PlanIsFixed DEF Misplaced

\* Each step of the apply, of a recovery, of the user and of the disk is one of the
\* journalled update, or changes nothing of it.
LEMMA JournalStep ==
    ApplyTypes /\ TargetInv /\ [Next]_pvars
       => [Journalled!Next]_(<<JournalStatus, Misplaced, stale>>)
  <1> SUFFICES ASSUME ApplyTypes, TargetInv, [Next]_pvars
               PROVE  Journalled!Next \/ UNCHANGED <<JournalStatus, Misplaced, stale>>
    OBVIOUS
  <1> USE DEF At
  <1>0. /\ UNCHANGED <<before, target>>
        /\ phase \in PhasesAt(op.at)
        /\ op.at \in Steps => phase = "materializing"
    BY TablesStay, OpParts DEF ApplyTypes
  <1>s. /\ UNCHANGED phase => UNCHANGED JournalStatus
        /\ UNCHANGED <<disk, touched>> => UNCHANGED Misplaced
    BY <1>0, MisplacedStay DEF JournalStatus
  <1>1. ASSUME \/ Plan \/ WritePlan \/ NextStep \/ SweepStaging \/ RemovePlan \/ Recover
               \/ Isolate \/ Disown \/ Kill \/ UNCHANGED pvars
               \/ \E f \in Files : StageFile(f) \/ Look(f) \/ Raise(f)
        PROVE  UNCHANGED <<JournalStatus, Misplaced, stale>>
    <2>1. UNCHANGED <<phase, disk, touched, stale>>
      BY <1>1 DEF Plan, WritePlan, NextStep, SweepStaging, RemovePlan, Recover, Isolate, Disown,
             Kill, StageFile, Look, Raise, pvars, durable, user
    <2> QED
      BY <1>s, <2>1
  <1>2. ASSUME NEW p \in Paths, NEW bytes \in Drafts \cup {Absent}, UserChanges(p, bytes)
        PROVE  Journalled!UserSettles
    <2>1. UNCHANGED <<phase, stale>>
      BY <1>2 DEF UserChanges, durable
    <2> QED
      BY <1>2, <1>s, <2>1, UserKeepsPlaces DEF Journalled!UserSettles
  <1>3. ASSUME NEW f \in Files, Acts(f) PROVE Journalled!Work
    <2>1. op.at \in Steps /\ UNCHANGED <<phase, stale>>
      BY <1>3 DEF Acts, Leave, Remove, Write, ArriveStaged, ArriveDirect, Acting, OnlyFiles, Steps
    <2>2. JournalStatus = "working" /\ UNCHANGED JournalStatus
      BY <1>0, <1>s, <2>1, StatusOfPhase
    <2>3. Misplaced' \in SUBSET Files
      BY <1>0, MisplacedAreFiles, PlanIsFixed DEF Misplaced, Live
    <2> QED
      BY <2>1, <2>2, <2>3 DEF Journalled!Work
  <1>4. CASE Prepare
    <2>1. phase = "none" /\ phase' = "preparing" /\ UNCHANGED <<disk, touched, stale>>
      BY <1>4 DEF Prepare, user
    <2>2. JournalStatus' = "announced"
      BY <2>1 DEF JournalStatus
    <2> QED
      BY <1>s, <2>1, <2>2, StatusOfPhase DEF Journalled!Next, Journalled!Announce, Journalled!Turns
  <1>5. CASE EndStaging
    <2>1. phase = "preparing" /\ phase' = "staging" /\ UNCHANGED <<disk, touched, stale>>
      BY <1>0, <1>5, PhasesOfPlaces DEF EndStaging, user
    <2>2. JournalStatus' = "staged"
      BY <2>1 DEF JournalStatus
    <2> QED
      BY <1>s, <2>1, <2>2, StatusOfPhase DEF Journalled!Next, Journalled!Stage, Journalled!Turns
  <1>6. CASE StagingFails
    <2>1. phase = "preparing" /\ phase' = "none" /\ UNCHANGED <<disk, touched, stale>>
      BY <1>0, <1>6, PhasesOfPlaces DEF StagingFails, user
    <2>2. JournalStatus' = "none"
      BY <2>1 DEF JournalStatus
    <2> QED
      BY <1>s, <2>1, <2>2, StatusOfPhase DEF Journalled!Next, Journalled!Withdraw, Journalled!Turns
  <1>7. CASE StartApply
    <2>1. phase \in {"staging", "materializing"} /\ phase' = "materializing"
          /\ UNCHANGED <<disk, touched, stale>>
      BY <1>0, <1>7, PhasesOfPlaces DEF StartApply, user
    <2>2. JournalStatus' = "working"
      BY <2>1 DEF JournalStatus
    <2> QED
      BY <1>s, <2>1, <2>2, StatusOfPhase DEF Journalled!Next, Journalled!Begin, Journalled!Turns
  <1>8. CASE BeginRewrite \/ BeginFinalizing
    <2>1. /\ phase \in {"materializing", "filemap_rewrite"}
          /\ phase' \in {"filemap_rewrite", "finalizing"}
          /\ UNCHANGED <<disk, touched, stale>>
      BY <1>0, <1>8, PhasesOfPlaces DEF BeginRewrite, BeginFinalizing, OnlyPhase, user
    <2>2. JournalStatus' = "done"
      BY <2>1 DEF JournalStatus
    <2>3. CASE phase = "filemap_rewrite"
      BY <1>s, <2>1, <2>2, <2>3, StatusOfPhase
    <2>4. CASE phase = "materializing"
      <3>1. Reached
        BY <1>8, <2>4, WholeRunReaches DEF BeginRewrite, BeginFinalizing, TargetInv
      <3>2. Misplaced = {}
        BY <3>1 DEF Reached, Misplaced
      <3> QED
        BY <1>s, <2>1, <2>2, <2>4, <3>2, StatusOfPhase
        DEF Journalled!Next, Journalled!Finish, Journalled!Turns
    <2> QED
      BY <2>1, <2>3, <2>4
  <1>9. CASE FinalizeApply
    <2>1. phase = "finalizing" /\ phase' = "none" /\ stale' = FALSE /\ UNCHANGED <<disk, touched>>
      BY <1>9 DEF FinalizeApply, user
    <2>2. JournalStatus' = "none"
      BY <2>1 DEF JournalStatus
    <2> QED
      BY <1>s, <2>1, <2>2, StatusOfPhase DEF Journalled!Next, Journalled!Settle
  <1>10. CASE MarkStale \/ Doubt
    <2>1. /\ phase \in {"none", "preparing", "materializing"} /\ stale' = TRUE
          /\ UNCHANGED <<phase, disk, touched>>
      BY <1>0, <1>10, PhasesOfPlaces DEF MarkStale, Doubt, user
    <2> QED
      BY <1>s, <2>1, StatusOfPhase DEF Journalled!Next, Journalled!Suspect
  <1>11. CASE ClearJournal
    <2>1. /\ phase \in {"preparing", "materializing"} /\ phase' = "none" /\ stale
          /\ UNCHANGED <<disk, touched, stale>>
      BY <1>0, <1>11, PhasesOfPlaces DEF ClearJournal, OnlyPhase, user, TargetInv
    <2>2. JournalStatus' = "none"
      BY <2>1 DEF JournalStatus
    <2> QED
      BY <1>s, <2>1, <2>2, StatusOfPhase DEF Journalled!Next, Journalled!GiveUp
  <1> QED
    BY <1>1, <1>2, <1>3, <1>4, <1>5, <1>6, <1>7, <1>8, <1>9, <1>10, <1>11
    DEF Next, SyncStep, Acts, Journalled!Next

\* The apply of a pulled manifest, first run and recoveries together, implements the
\* journalled update.
THEOREM AppliesAreJournalledUpdates == Spec => ImplementsJournalledUpdate
  <1>1. Init => Journalled!Init
    <2>1. Init => phase = "none" /\ stale = FALSE
      BY DEF Init
    <2> QED
      BY <2>1, StatusOfPhase, MisplacedAreFiles DEF Journalled!Init
  <1>2. ApplyTypes /\ TargetInv /\ [Next]_pvars
           => [Journalled!Next]_(<<JournalStatus, Misplaced, stale>>)
    BY JournalStep
  <1> QED
    BY <1>1, <1>2, TypesInit, TypesStep, TargetInit, TargetStep, PTL
    DEF Spec, ImplementsJournalledUpdate, Journalled!Spec, Journalled!vars

\* A journal past staging goes only with the manifest in the workspace, or with a
\* summary that says it may not be there: the abstract update has it so.
THEOREM GivingUpIsRecorded == Spec => Journalled!DroppedIsKnown
  <1>1. ASSUME Journalled!Next, JournalStatus \notin {"none", "announced"}, JournalStatus' = "none",
               JournalStatus = "done" => Misplaced = {}
        PROVE  stale' \/ Misplaced' = {}
    BY <1>1 DEF Journalled!Next, Journalled!Announce, Journalled!Withdraw, Journalled!Stage,
           Journalled!Begin, Journalled!Finish, Journalled!Turns, Journalled!Work,
           Journalled!UserSettles, Journalled!Settle, Journalled!Suspect, Journalled!GiveUp
  <1>2. TargetInv /\ ApplyTypes => (JournalStatus = "done" => Misplaced = {})
    <2>1. ApplyTypes /\ JournalStatus = "done" => phase \in {"filemap_rewrite", "finalizing"}
      BY DEF JournalStatus, ApplyTypes, PTypeOK
    <2> QED
      BY <2>1 DEF TargetInv, Reached, Misplaced
  <1>3. ApplyTypes /\ TargetInv /\ [Next]_pvars
           => [JournalStatus \notin {"none", "announced"} /\ JournalStatus' = "none"
                  => stale' \/ Misplaced' = {}]_(<<JournalStatus, Misplaced, stale>>)
    BY <1>1, <1>2, JournalStep
  <1> QED
    BY <1>3, TypesInit, TypesStep, TargetInit, TargetStep, PTL
    DEF Spec, Journalled!DroppedIsKnown, Journalled!vars

-----------------------------------------------------------------------------
(* The bytes of files that move                                            *)

\* A file that leaves its path, and nobody else has its bytes, leaves with them.
LEMMA LeaveKeeps ==
    ASSUME ApplyTypes, PayloadsAreExact, NEW f \in Moved, Leave(f), Alone(f)
    PROVE  KeptAside(f)'
  <1> USE DEF At
  <1>1. PTypeOK /\ LookTrue /\ f \in Files /\ f \in Live(target)
    BY PlanParts DEF ApplyTypes
  <1>2. /\ UNCHANGED <<before, target, touched>>
        /\ op.item = f /\ f # Absent /\ op.at = "leaving"
    BY <1>1, ActsFinish DEF Acts, Leave, Acting
  <1>3. /\ Guarded(f) /\ From(f) \notin touched /\ From(f) # To(f)
        /\ From(f) \in Paths /\ To(f) \in Paths
    BY <1>1, <1>2, PlanParts DEF Guarded, Alone
  <1>4. op.saw = disk[From(f)]
    BY <1>1, <1>2, <1>3 DEF LookTrue
  <1>5. disk'[To(f)] = disk[To(f)]
    BY <1>1, <1>3 DEF Leave, PTypeOK
  <1>6. KeptAside(f)' <=> \/ disk'[To(f)] = Hash(f) \/ staging'[f] = Hash(f)
                          \/ \E g \in Files : <<g, Hash(f)>> \in copies'
                          \/ Hash(f) \in orphans'
    BY <1>2, PlanIsFixed DEF KeptAside, Arrived
  <1>7. CASE SawMine(f)
    BY <1>1, <1>4, <1>6, <1>7 DEF SawMine, Leave, PTypeOK
  <1>8. CASE ~SawMine(f)
    <2>1. Arrived(f) \/ staging[f] = Hash(f)
      <3>1. SawDirty(f) \/ SawNothing(f)
        BY <1>2, <1>8 DEF Leave, Ready, Acting
      <3>2. CASE SawDirty(f)
        BY <3>2 DEF SawDirty
      <3>3. CASE SawNothing(f)
        BY <1>1, <1>3, <3>3 DEF SawNothing, PayloadsAreExact
      <3> QED
        BY <3>1, <3>2, <3>3
    <2> QED
      BY <1>5, <1>6, <1>8, <2>1 DEF Leave, Arrived
  <1> QED
    BY <1>7, <1>8

\* What is kept aside stays there, whatever a step does with another file or this one.
LEMMA ActsKeepAside ==
    ASSUME ApplyTypes, TargetInv, NEW f \in Files, Acts(f), NEW g \in Moved, Alone(g),
           KeptAside(g)
    PROVE  KeptAside(g)'
  <1> USE DEF At
  <1>1. PTypeOK /\ LookTrue /\ OldPathsAreOwn /\ PayloadsAreExact
    BY DEF ApplyTypes, TargetInv
  <1>2. /\ UNCHANGED <<before, target, orphans, copies, touched>>
        /\ op.item = f /\ f # Absent /\ op.at \in Steps /\ f \in StepItems(op.at)
    BY ActsFinish
  <1>3. /\ From(g) \notin touched /\ To(g) \notin touched /\ From(g) # To(g)
        /\ g \in Files /\ g \in Live(before) /\ g \in Live(target) /\ To(g) \in Paths
        /\ Hash(g) # Absent
    BY <1>1, PlanParts, DraftsAreNew DEF Alone
  <1>4. KeptAside(g)' <=> \/ disk'[To(g)] = Hash(g) \/ staging'[g] = Hash(g)
                          \/ \E h \in Files : <<h, Hash(g)>> \in copies
                          \/ Hash(g) \in orphans
    BY <1>2, PlanIsFixed DEF KeptAside, Arrived
  <1>5. Acts(g) /\ op.at \in {"writing", "arriving"} => KeptAside(g)'
    <2>1. InPlaceNow(g)' => disk'[To(g)] = Hash(g)
      BY <1>2, <1>3, PlanIsFixed DEF InPlaceNow, Arrived, RodeAlong
    <2> QED
      BY <1>1, <1>3, <1>4, <2>1, ActsReach
  <1>6. CASE Arrived(g)
    <2>1. CASE Clears(f, To(g))
      <3>1. f \in Live(before) /\ From(f) = To(g) /\ Guarded(f) /\ f # g
        BY <1>3, <2>1 DEF Clears
      <3>2. op.saw = Hash(g)
        BY <1>1, <1>2, <1>3, <1>6, <3>1 DEF LookTrue, Arrived
      <3>3. op.saw \notin {Absent, before[f].content}
        BY <1>3, <3>1, <3>2 DEF Alone
      <3>4. <<f, Hash(g)>> \in copies
        BY <1>1, <1>2, <3>1, <3>2, <3>3 DEF LookTrue
      <3> QED
        BY <1>4, <3>4
    <2>2. CASE Fills(f, To(g))
      <3>1. f = g /\ op.at \in {"writing", "arriving"}
        BY <1>1, <1>3, <2>2, PathsAreOwn, PlanParts DEF Fills
      <3> QED
        BY <1>5, <3>1
    <2> QED
      BY <1>3, <1>4, <1>6, <2>1, <2>2, ActsOnDisk DEF Arrived
  <1>7. CASE staging[g] = Hash(g)
    <2>1. CASE Leave(g)
      BY <1>1, <2>1, LeaveKeeps
    <2>2. CASE ArriveStaged(g)
      BY <1>5, <2>2 DEF ArriveStaged, Acting, Acts
    <2>3. CASE ~Leave(g) /\ ~ArriveStaged(g)
      <3>1. staging'[g] = staging[g]
        BY <1>1, <1>3, <2>3 DEF Acts, Leave, Remove, Write, ArriveStaged, ArriveDirect, PTypeOK
      <3> QED
        BY <1>4, <1>7, <3>1
    <2> QED
      BY <2>1, <2>2, <2>3
  <1> QED
    BY <1>4, <1>6, <1>7 DEF KeptAside

LEMMA MovedActs ==
    ASSUME ApplyTypes, TargetInv, MovedInv, [Next]_pvars, NEW f \in Files, Acts(f)
    PROVE  MovedInv'
  <1> USE DEF At
  <1>1. PTypeOK /\ PayloadsAreExact /\ OldPathsAreOwn
    BY DEF ApplyTypes, TargetInv
  <1>2. /\ UNCHANGED <<before, target, touched, phase>>
        /\ op.item = f /\ op.at \in Steps /\ f \in StepItems(op.at) /\ op'.at = op.at
        /\ phase = "materializing"
    BY ActsFinish, OpParts DEF ApplyTypes
  <1>3. \A g : Alone(g)' <=> Alone(g)
    BY <1>2, PlanIsFixed DEF Alone
  <1>4. ASSUME NEW g \in Moved, Alone(g)
        PROVE  /\ (KeptAside(g) \/ disk[From(g)] = Hash(g))'
               /\ Past("leaving", g)' => KeptAside(g)'
    <2>1. KeptAside(g) => KeptAside(g)'
      BY <1>4, ActsKeepAside
    <2>2. Acts(g) /\ op.at = "leaving" => KeptAside(g)'
      BY <1>1, <1>4, LeaveKeeps DEF Acts, Leave, Remove, Write, ArriveStaged, ArriveDirect, Acting
    <2>3. Acts(g) /\ op.at = "arriving" => KeptAside(g)'
      <3>1. InPlaceNow(g)' => Arrived(g)'
        BY <1>2, <1>4, PlanIsFixed DEF InPlaceNow, RodeAlong, Alone
      <3> QED
        BY <1>1, <3>1, ActsReach, PlanParts DEF KeptAside
    <2>4. Past("leaving", g)' => KeptAside(g)'
      BY <1>1, <1>4, <2>1, <2>2, PastGrows, PlanParts DEF MovedInv, Steps
    <2>5. CASE KeptAside(g)
      BY <2>1, <2>4, <2>5
    <2>6. CASE ~KeptAside(g)
      <3>1. disk[From(g)] = Hash(g) /\ From(g) \in Paths /\ g \in Live(before)
        BY <1>1, <1>4, <2>6, PlanParts DEF MovedInv
      <3>2. CASE disk'[From(g)] = disk[From(g)]
        BY <1>2, <2>4, <3>1, <3>2, PlanIsFixed
      <3>3. CASE Clears(f, From(g))
        <4>1. f = g
          BY <1>1, <3>1, <3>3, PathsAreOwn DEF Clears
        <4>2. op.at \in {"leaving", "arriving"}
          BY <1>1, <1>2, <3>3, <4>1, ItemsOfSteps, PlanParts DEF Clears, Steps
        <4> QED
          BY <2>2, <2>3, <4>1, <4>2
      <3>4. CASE Fills(f, From(g))
        <4>1. g \in BlockingMoves /\ op.at \in {"writing", "arriving"}
          BY <1>1, <3>4, PathsAreOwn DEF Fills
        <4>2. Past("leaving", g)
          BY <4>1, ItemsOfSteps DEF Past, Later
        <4> QED
          BY <1>4, <2>6, <4>2 DEF MovedInv
      <3> QED
        BY <2>4, <3>1, <3>2, <3>3, <3>4, ActsOnDisk
    <2> QED
      BY <2>5, <2>6
  <1>5. \A g \in Moved' : Alone(g)' => /\ (KeptAside(g) \/ disk[From(g)] = Hash(g))'
                                       /\ Past("leaving", g)' => KeptAside(g)'
    BY <1>2, <1>3, <1>4, PlanIsFixed
  <1> QED
    BY <1>2, <1>5 DEF MovedInv, Steps

LEMMA MovedUser ==
    ASSUME ApplyTypes, MovedInv, [Next]_pvars,
           NEW p \in Paths, NEW bytes \in Drafts \cup {Absent}, UserChanges(p, bytes)
    PROVE  MovedInv'
  <1>1. UNCHANGED <<before, target, staging, orphans, copies, phase, op>>
    BY DEF UserChanges, durable
  <1>2. touched' = touched \cup {p} /\ \A q \in Paths : q # p => disk'[q] = disk[q]
    BY DEF UserChanges, ApplyTypes, PTypeOK
  <1>3. PTypeOK
    BY DEF ApplyTypes
  <1>4. ASSUME NEW g \in Moved, Alone(g)'
        PROVE  /\ (KeptAside(g) \/ disk[From(g)] = Hash(g))'
               /\ Past("leaving", g)' => KeptAside(g)'
    <2>1. /\ Alone(g) /\ From(g) \in Paths /\ To(g) \in Paths
          /\ From(g) # p /\ To(g) # p
      BY <1>1, <1>2, <1>3, <1>4, PlanParts, PlanIsFixed DEF Alone
    <2>2. KeptAside(g) => KeptAside(g)'
      BY <1>1, <1>2, <2>1, PlanIsFixed DEF KeptAside, Arrived
    <2>3. Past("leaving", g)' => Past("leaving", g)
      BY <1>1, PlanIsFixed DEF Past, At
    <2> QED
      BY <1>1, <1>2, <2>1, <2>2, <2>3, PlanIsFixed DEF MovedInv
  <1>5. op'.at \in {"pulled", "planned"} \/ phase' = "preparing" =>
           \A f \in Live(before)' : (From(f) \in touched \/ disk[From(f)] = before[f].content)'
    BY <1>1, <1>2, <1>3, PlanParts, PlanIsFixed DEF MovedInv
  <1> QED
    BY <1>1, <1>4, <1>5, PlanIsFixed DEF MovedInv

LEMMA MovedStill ==
    ASSUME ApplyTypes, TargetInv, MovedInv, [Next]_pvars, ~\E f \in Files : Acts(f),
           \/ OnlyControl \/ OnlyStaging \/ \E f \in Files : Look(f)
    PROVE  MovedInv'
  <1> USE DEF At
  <1>1. UNCHANGED <<before, target, disk, touched>> /\ copies \subseteq copies'
    BY TablesStay DEF OnlyControl, OnlyStaging, Look, user
  <1>2. PTypeOK
    BY DEF ApplyTypes
  <1>3. \A g : Alone(g)' <=> Alone(g)
    BY <1>1, PlanIsFixed DEF Alone
  <1>4. ASSUME NEW g \in Moved, Alone(g), KeptAside(g)
        PROVE  KeptAside(g)' \/ (disk[From(g)] = Hash(g) /\ StagingFails)
    <2>1. /\ g \in Files /\ g \in Live(target) /\ g \in Live(before) /\ Hash(g) # Absent
          /\ before[g].content = Hash(g)
      BY <1>2, PlanParts, DraftsAreNew
    <2>2. KeptAside(g)' <=> \/ disk[To(g)] = Hash(g) \/ staging'[g] = Hash(g)
                            \/ \E h \in Files : <<h, Hash(g)>> \in copies'
                            \/ Hash(g) \in orphans'
      BY <1>1, PlanIsFixed DEF KeptAside, Arrived
    <2>3. CASE UNCHANGED <<staging, orphans>>
      BY <1>1, <1>4, <2>2, <2>3 DEF KeptAside, Arrived
    <2>4. CASE \E f \in Files : StageFile(f)
      BY <1>1, <1>2, <1>4, <2>1, <2>2, <2>4 DEF KeptAside, Arrived, StageFile, PTypeOK
    <2>5. CASE Isolate
      <3>1. staging[g] = Hash(g) => Hash(g) \in orphans'
        BY <2>1, <2>5 DEF Isolate, Staged
      <3>2. orphans \subseteq orphans'
        BY <2>5 DEF Isolate
      <3> QED
        BY <1>1, <1>4, <2>2, <3>1, <3>2 DEF KeptAside, Arrived
    <2>6. CASE SweepStaging
      <3>1. Arrived(g)
        BY <1>4, <2>1, <2>6 DEF SweepStaging, TargetInv, Reached, InPlaceNow, RodeAlong, Alone
      <3> QED
        BY <2>2, <3>1 DEF Arrived
    <2>7. CASE StagingFails
      <3>1. phase = "preparing"
        BY <2>7, OpParts, PhasesOfPlaces DEF StagingFails, ApplyTypes
      <3> QED
        BY <1>4, <2>1, <2>7, <3>1 DEF MovedInv, Alone
    <2> QED
      BY <2>3, <2>4, <2>5, <2>6, <2>7 DEF OnlyControl, OnlyStaging, Look
  <1>5. ASSUME NEW g \in Moved, Alone(g)
        PROVE  /\ KeptAside(g)' \/ disk[From(g)] = Hash(g)
               /\ Past("leaving", g)' => KeptAside(g)'
    <2>1. Past("leaving", g)' => Past("leaving", g)
      BY <1>2, PastGrows, PlanParts DEF Steps
    <2>2. StagingFails => ~Past("leaving", g)
      BY DEF StagingFails, Past, Later
    <2> QED
      BY <1>4, <1>5, <2>1, <2>2 DEF MovedInv
  <1>6. \A g \in Moved' : Alone(g)' => /\ (KeptAside(g) \/ disk[From(g)] = Hash(g))'
                                       /\ Past("leaving", g)' => KeptAside(g)'
    BY <1>1, <1>3, <1>5, PlanIsFixed
  <1>7. op'.at \in {"pulled", "planned"} \/ phase' = "preparing" =>
           op.at \in {"pulled", "planned"} \/ phase = "preparing"
    <2>1. CASE \E f \in Files : Look(f)
      BY <2>1 DEF Look, ApplyTypes, OpOK
    <2>2. CASE UNCHANGED pvars \/ Plan \/ Prepare \/ WritePlan \/ EndStaging
      BY <2>2 DEF Plan, Prepare, WritePlan, EndStaging, Goto, Op, durable, pvars, ApplyTypes, OpOK
    <2>7. CASE StartApply \/ NextStep
      BY <2>7, OrderOfSteps DEF StartApply, NextStep, StartStep, Op, Steps, durable
    <2>3. CASE \E f \in Files : Raise(f)
      BY <2>3 DEF Raise, Idle, Op, durable
    <2>4. CASE \/ BeginRewrite \/ BeginFinalizing \/ FinalizeApply \/ SweepStaging \/ RemovePlan
               \/ Recover \/ MarkStale \/ ClearJournal \/ Isolate \/ Disown \/ Doubt \/ Kill
      BY <2>4 DEF BeginRewrite, BeginFinalizing, FinalizeApply, SweepStaging, RemovePlan, Recover,
             MarkStale, ClearJournal, Isolate, Disown, Doubt, Kill, Goto, Idle, Op, OnlyPhase, durable
    <2>5. CASE \E p \in Paths, bytes \in Drafts \cup {Absent} : UserChanges(p, bytes)
      BY <2>5 DEF UserChanges, durable
    <2>6. CASE StagingFails \/ \E f \in Files : StageFile(f)
      BY <2>6, OpParts DEF StagingFails, StageFile, Idle, Op, ApplyTypes, OpOK
    <2> QED
      BY <2>1, <2>2, <2>3, <2>4, <2>5, <2>6, <2>7 DEF Next, SyncStep, Acts
  <1>8. op'.at \in {"pulled", "planned"} \/ phase' = "preparing" =>
           \A f \in Live(before)' : (From(f) \in touched \/ disk[From(f)] = before[f].content)'
    BY <1>1, <1>7, PlanIsFixed DEF MovedInv
  <1> QED
    BY <1>6, <1>8 DEF MovedInv

LEMMA MovedStep == ApplyTypes /\ TargetInv /\ MovedInv /\ [Next]_pvars => MovedInv'
  <1> SUFFICES ASSUME ApplyTypes, TargetInv, MovedInv, [Next]_pvars PROVE MovedInv'
    OBVIOUS
  <1>1. CASE \E f \in Files : Acts(f)
    BY <1>1, MovedActs
  <1>2. CASE ~\E f \in Files : Acts(f)
    BY <1>2, StepKinds, MovedStill, MovedUser
  <1> QED
    BY <1>1, <1>2

LEMMA MovedInit == Init => MovedInv
  <1> SUFFICES ASSUME Init PROVE MovedInv
    OBVIOUS
  <1>1. PTypeOK
    BY TypesInit DEF ApplyTypes
  <1>2. \A f : ~Past("leaving", f)
    BY DEF Init, Op, Past, Later, At
  <1> QED
    BY <1>1, <1>2, InitialDisk, PlanParts DEF MovedInv

\* No kill, replay or clean-up of an apply loses the bytes of a file that only moves,
\* which nothing downloads again.
THEOREM MovesLoseNothing == Spec => []MovedBytesSurvive
  <1>1. ApplyTypes /\ MovedInv => MovedBytesSurvive
    <2> SUFFICES ASSUME ApplyTypes, MovedInv, NEW f \in Moved, {From(f), To(f)} \cap touched = {},
                        ~\E g \in Live(before) \ {f} : before[g].content = Hash(f)
                 PROVE  Kept(Hash(f))
      BY DEF MovedBytesSurvive
    <2>1. Alone(f)
      BY DEF Alone
    <2>2. f \in Files /\ From(f) \in Paths /\ To(f) \in Paths
      BY PlanParts DEF ApplyTypes
    <2> QED
      BY <2>1, <2>2 DEF MovedInv, KeptAside, Arrived, Kept
  <1> QED
    BY <1>1, TypesInit, TypesStep, TargetInit, TargetStep, MovedInit, MovedStep, PTL DEF Spec

-----------------------------------------------------------------------------
(* An apply nobody disturbs                                                *)

\* It finds what it needs, so it is never given up.
LEMMA QuietIsReady ==
    ASSUME ApplyTypes, Quiet, touched = {}, NEW f \in Files, op.item = f, f # Absent,
           op.at \in {"leaving", "writing", "arriving"}
    PROVE  /\ Ready(f)
           /\ op.at = "leaving" => SawMine(f) /\ disk[From(f)] = Hash(f)
  <1> USE DEF At
  <1>1. PTypeOK /\ LookTrue /\ f \in StepItems(op.at) /\ f \in op.left
    BY OpParts DEF ApplyTypes, Steps
  <1>2. f \in Live(target) /\ Hash(f) # Absent
    BY <1>1, ItemsOfSteps, PlanParts, DraftsAreNew
  <1>3. CASE op.at = "leaving" \/ (op.at = "arriving" /\ f \notin BlockingMoves)
    <2>1. f \in Moved /\ f \in Live(before) /\ before[f].content = Hash(f)
      BY <1>1, <1>3, ItemsOfSteps, PlanParts
    <2>2. Ahead(f)
      BY <1>1, <1>3, <2>1 DEF Ahead, Steps
    <2>3. disk[From(f)] = Hash(f)
      BY <2>1, <2>2 DEF Quiet, QuietAhead
    <2>4. Guarded(f)
      BY <1>3 DEF Guarded
    <2>5. op.saw = disk[From(f)]
      BY <1>1, <2>4 DEF LookTrue
    <2> QED
      BY <1>2, <1>3, <2>3, <2>5 DEF Ready, SawMine
  <1>4. CASE op.at = "writing"
    BY <1>1, <1>4, ItemsOfSteps DEF Quiet, QuietStaged, Ready, HasPayload, Steps
  <1>5. CASE op.at = "arriving" /\ f \in BlockingMoves
    <2>1. Past("leaving", f)
      BY <1>5, ItemsOfSteps DEF Past, Later
    <2>2. staging[f] = Hash(f)
      BY <1>1, <1>5, <2>1 DEF Quiet, QuietCarried
    <2> QED
      BY <1>5, <2>2 DEF Ready, HasPayload
  <1> QED
    BY <1>3, <1>4, <1>5

\* The steps that are left to it.
LEMMA QuietSteps ==
    ASSUME ApplyTypes, QuietInv, [Next]_pvars, faults' = 0, touched' = {}
    PROVE  /\ faults = 0 /\ touched = {} /\ Quiet
           /\ \/ UNCHANGED pvars
              \/ Plan \/ Prepare \/ WritePlan \/ EndStaging \/ StartApply \/ NextStep
              \/ \E f \in Files : StageFile(f) \/ Look(f) \/ Acts(f)
              \/ BeginRewrite \/ BeginFinalizing \/ FinalizeApply \/ SweepStaging \/ RemovePlan
  <1> USE DEF At
  <1>1. faults \in Nat /\ faults' # faults + 1
    BY BoundsAreNat DEF ApplyTypes, PTypeOK
  <1>2. ~StagingFails /\ ~Kill
    BY <1>1 DEF StagingFails, Kill, Fault
  <1>3. ~\E p \in Paths, bytes \in Drafts \cup {Absent} : UserChanges(p, bytes)
    BY DEF UserChanges
  <1>4. CASE UNCHANGED pvars
    BY <1>4 DEF pvars, user, QuietInv
  <1>5. CASE SyncStep
    <2>1. UNCHANGED <<faults, touched>>
      BY <1>5 DEF SyncStep, Plan, Prepare, WritePlan, EndStaging, StartApply, NextStep, StageFile,
             Look, Leave, Remove, Write, ArriveStaged, ArriveDirect, Raise, BeginRewrite,
             BeginFinalizing, FinalizeApply, SweepStaging, RemovePlan, Recover, MarkStale,
             ClearJournal, Isolate, Disown, Doubt, OnlyFiles, OnlyPhase, user
    <2>2. Quiet
      BY <2>1 DEF QuietInv
    <2>3. ~\E f \in Files : Raise(f)
      BY <2>1, <2>2, QuietIsReady, AbsentIsNoFile DEF Raise
    <2>4. ~Recover
      BY <2>2 DEF Quiet, QuietControl, Recover
    <2>5. ~MarkStale /\ ~ClearJournal /\ ~Isolate /\ ~Disown /\ ~Doubt
      BY <2>2 DEF Quiet, QuietControl, MarkStale, ClearJournal, Isolate, Disown, Doubt
    <2> QED
      BY <1>5, <2>1, <2>2, <2>3, <2>4, <2>5 DEF SyncStep, Acts
  <1> QED
    BY <1>2, <1>3, <1>4, <1>5 DEF Next

QuietNext ==
    \/ UNCHANGED pvars
    \/ Plan \/ Prepare \/ WritePlan \/ EndStaging \/ StartApply \/ NextStep
    \/ \E f \in Files : StageFile(f) \/ Look(f) \/ Acts(f)
    \/ BeginRewrite \/ BeginFinalizing \/ FinalizeApply \/ SweepStaging \/ RemovePlan

\* What a run has not treated, it had not treated a step before.
LEMMA AheadShrinks ==
    ASSUME ApplyTypes, QuietControl, QuietNext, UNCHANGED <<before, target>>,
           NEW f, Ahead(f)'
    PROVE  Ahead(f)
  <1> DEFINE Early == {"pulled", "planned", "preparing", "staging", "starting"}
             Item(at) == /\ f \in StepItems(at)
                         /\ at = "arriving" => f \notin BlockingMoves
                         /\ at = "writing" => InPlace(f)
  <1> USE DEF At
  <1>1. Ahead(f) <=> \/ op.at \in Early
                     \/ \E at \in Steps : /\ Item(at)
                                          /\ \/ op.at = at /\ f \in op.left
                                             \/ op.at \in Steps /\ at \in Later(op.at)
    BY DEF Ahead
  <1>2. \/ op'.at \in Early
        \/ \E at \in Steps : /\ Item(at)
                             /\ \/ op'.at = at /\ f \in op'.left
                                \/ op'.at \in Steps /\ at \in Later(op'.at)
    BY PlanIsFixed DEF Ahead
  <1> HIDE DEF Item
  <1>3. CASE op.at \in Early
    BY <1>1, <1>3
  <1>4. CASE UNCHANGED pvars \/ \E g \in Files : Look(g) \/ Acts(g)
    <2>1. op'.at = op.at /\ op'.left \subseteq op.left
      <3>1. CASE UNCHANGED pvars
        BY <3>1 DEF pvars
      <3>2. CASE \E g \in Files : Look(g)
        BY <3>2 DEF Look, ApplyTypes, OpOK
      <3>3. CASE \E g \in Files : Acts(g)
        BY <3>3, ActsFinish
      <3> QED
        BY <1>4, <3>1, <3>2, <3>3
    <2> QED
      BY <1>1, <1>2, <2>1
  <1>5. CASE NextStep
    <2>1. op.at \in Steps /\ op'.at = StepAfter(op.at)
      BY <1>5 DEF NextStep, StartStep, Op
    <2>2. op'.at \notin Early
      BY <2>1, OrderOfSteps DEF Steps
    <2>3. \A at \in Steps : at = op'.at \/ (op'.at \in Steps /\ at \in Later(op'.at)) =>
             at \in Later(op.at)
      BY <2>1, OrderOfSteps DEF Later, Steps
    <2> QED
      BY <1>1, <1>2, <2>1, <2>2, <2>3
  <1>6. CASE BeginRewrite \/ BeginFinalizing \/ FinalizeApply \/ SweepStaging \/ RemovePlan
    <2>1. op'.at \in {"finishing", "sweeping", "unplanning", "idle"}
      BY <1>6 DEF BeginRewrite, BeginFinalizing, FinalizeApply, SweepStaging, RemovePlan, Goto,
             Idle, Op
    <2> QED
      BY <1>2, <2>1 DEF Steps
  <1>7. op.at \notin Early =>
           /\ ~Plan /\ ~Prepare /\ ~WritePlan /\ ~EndStaging /\ ~StartApply
           /\ ~\E g \in Files : StageFile(g)
    BY DEF Plan, Prepare, WritePlan, EndStaging, StartApply, StageFile
  <1> QED
    BY <1>3, <1>4, <1>5, <1>6, <1>7 DEF QuietNext

\* A file that is looked at is as the old manifest has it.
LEMMA LookedIsAhead ==
    ASSUME ApplyTypes, NEW f \in Files, op.at \in Steps, f \in op.left, Guarded(f)
    PROVE  Ahead(f) /\ f \in Live(before)
  <1>1. f \in StepItems(op.at) /\ PTypeOK
    BY OpParts DEF ApplyTypes
  <1>2. f \in Live(before)
    BY <1>1, ItemsOfSteps, PlanParts DEF Guarded, InPlace, At
  <1>3. /\ op.at = "arriving" => f \notin BlockingMoves
        /\ op.at = "writing" => InPlace(f)
    BY DEF Guarded, At
  <1> QED
    BY <1>1, <1>2, <1>3 DEF Ahead, At

LEMMA QuietControlStep ==
    ASSUME ApplyTypes, Quiet, QuietNext, UNCHANGED <<before, target>>
    PROVE  QuietControl'
  <1> USE DEF At
  <1>1. QuietControl
    BY DEF Quiet
  <1>2. CASE UNCHANGED pvars
    BY <1>1, <1>2 DEF QuietControl, pvars, durable, Staged
  <1>3. CASE Plan \/ Prepare \/ WritePlan \/ EndStaging \/ \E f \in Files : StageFile(f)
    <2>1. /\ op'.at \in {"planned", "preparing", "staging", "starting"} /\ op'.resumed = "none"
          /\ UNCHANGED <<copies, conflict>>
      BY <1>1, <1>3 DEF QuietControl, Plan, Prepare, WritePlan, EndStaging, StageFile, Goto, Op,
             durable, ApplyTypes, OpOK
    <2> QED
      BY <1>1, <2>1 DEF QuietControl
  <1>4. CASE StartApply \/ NextStep
    <2>1. op'.at \in Steps \cup {"finishing"} /\ op'.resumed = "none"
          /\ UNCHANGED <<copies, conflict>>
      BY <1>1, <1>4, OrderOfSteps
         DEF QuietControl, StartApply, NextStep, StartStep, Op, durable, Steps
    <2> QED
      BY <1>1, <2>1 DEF QuietControl, Steps
  <1>5. CASE \E f \in Files : Look(f)
    <2>1. PICK f \in Files : Look(f)
      BY <1>5
    <2>2. op.at \in Steps /\ f \in op.left
      BY <2>1 DEF Look
    <2>3. ~(Guarded(f) /\ Dirty(f))
      BY <2>2, LookedIsAhead DEF Quiet, QuietAhead, Dirty
    <2>4. UNCHANGED <<copies, conflict>> /\ op'.at = op.at /\ op'.resumed = op.resumed
      BY <2>1, <2>3 DEF Look, ApplyTypes, OpOK
    <2> QED
      BY <1>1, <2>2, <2>4 DEF QuietControl, Steps
  <1>6. CASE \E f \in Files : Acts(f)
    BY <1>1, <1>6, ActsFinish DEF QuietControl, Steps
  <1>7. CASE BeginRewrite \/ BeginFinalizing \/ FinalizeApply
    <2>1. op'.at \in {"finishing", "sweeping"} /\ op'.resumed = "none"
          /\ UNCHANGED <<copies, conflict>>
      BY <1>1, <1>7 DEF QuietControl, BeginRewrite, BeginFinalizing, FinalizeApply, Goto, Op,
             OnlyPhase
    <2> QED
      BY <1>1, <2>1 DEF QuietControl
  <1>8. CASE SweepStaging
    BY <1>1, <1>8 DEF QuietControl, SweepStaging, Goto, Op, Staged
  <1>9. CASE RemovePlan
    <2>1. phase = "none"
      BY <1>9, OpParts, PhasesOfPlaces DEF RemovePlan, ApplyTypes
    <2> QED
      BY <1>1, <1>9, <2>1 DEF QuietControl, RemovePlan, Idle, Op, Staged
  <1> QED
    BY <1>2, <1>3, <1>4, <1>5, <1>6, <1>7, <1>8, <1>9 DEF QuietNext

LEMMA QuietAheadStep ==
    ASSUME ApplyTypes, Quiet, QuietNext, UNCHANGED <<before, target>>
    PROVE  QuietAhead'
  <1> SUFFICES ASSUME NEW f \in Live(before), Ahead(f)'
               PROVE  disk'[From(f)] = before[f].content
    BY PlanIsFixed DEF QuietAhead
  <1> USE DEF At
  <1>1. PTypeOK /\ From(f) \in Paths
    BY PlanParts DEF ApplyTypes
  <1>2. disk[From(f)] = before[f].content
    BY AheadShrinks DEF Quiet, QuietAhead
  <1>3. CASE \E g \in Files : Acts(g)
    <2>1. PICK g \in Files : Acts(g)
      BY <1>3
    <2>2. /\ op.at \in Steps /\ op'.at = op.at /\ op'.left = op.left \ {g}
          /\ g \in StepItems(op.at)
      BY <2>1, ActsFinish
    <2>3. PICK at \in Steps : /\ f \in StepItems(at)
                              /\ at = "arriving" => f \notin BlockingMoves
                              /\ at = "writing" => InPlace(f)
                              /\ \/ op.at = at /\ f # g
                                 \/ at \in Later(op.at)
      BY <2>2, PlanIsFixed DEF Ahead, Steps
    <2>4. ~Clears(g, From(f))
      <3> SUFFICES ASSUME Clears(g, From(f)) PROVE FALSE
        OBVIOUS
      <3>1. g = f /\ op.at # "writing" /\ Guarded(f)
        BY <1>1, PathsAreOwn DEF Clears
      <3>2. at \in Later(op.at) /\ f \in StepItems(op.at)
        BY <2>2, <2>3, <3>1
      <3>3. op.at \in {"leaving", "clearing", "arriving"}
        BY <2>2, <3>1, <3>2 DEF Steps, Later
      <3>4. CASE op.at = "leaving"
        BY <1>1, <2>3, <3>2, <3>4, ItemsOfSteps, PlanParts DEF Later
      <3>5. CASE op.at = "clearing"
        <4>1. f \in Removed /\ From(f) \in Blocking /\ f \notin Moved
          BY <1>1, <3>2, <3>5, ItemsOfSteps, PlanParts
        <4>2. at = "writing" /\ f \in Written /\ InPlace(f)
          BY <2>3, <3>2, <3>5, <4>1, ItemsOfSteps DEF Later
        <4> QED
          BY <4>1, <4>2, PlanParts DEF Removed, InPlace, From, To, Written
      <3>6. CASE op.at = "arriving"
        BY <1>1, <2>3, <3>2, <3>6, ItemsOfSteps, PlanParts DEF Later
      <3> QED
        BY <3>3, <3>4, <3>5, <3>6
    <2>5. ~Fills(g, From(f))
      <3> SUFFICES ASSUME Fills(g, From(f)) PROVE FALSE
        OBVIOUS
      <3>1. g \in Written \cup Moved /\ To(g) = From(f) /\ op.at \in {"writing", "arriving"}
        BY DEF Fills
      <3>2. at \in {"writing", "arriving", "removing"}
        BY <2>3, <3>1 DEF Later
      <3>3. CASE g = f
        <4>1. f \in Written /\ To(f) = From(f)
          BY <1>1, <3>1, <3>3, PlanParts
        <4>2. f \notin Moved /\ f \notin Removed
          BY <1>1, <4>1, PlanParts DEF Removed, Written, From, To
        <4>3. at = "writing"
          BY <2>3, <3>2, <4>2, ItemsOfSteps
        <4> QED
          BY <2>3, <3>1, <3>3, <4>3 DEF Later
      <3>4. CASE g # f
        <4>1. f \in Moved \cup Removed
          BY <1>1, <3>1, <3>4, PathsAreOwn, PlanParts
        <4>2. From(f) \in Blocking /\ (f \in Moved => f \in BlockingMoves)
          BY <1>1, <3>1, <4>1, PathsAreOwn
        <4>3. at = "writing" /\ f \in Written /\ InPlace(f)
          BY <1>1, <2>3, <3>2, <4>1, <4>2, ItemsOfSteps, PlanParts
        <4> QED
          BY <1>1, <4>1, <4>3, PlanParts DEF Removed, InPlace, Written, From, To
      <3> QED
        BY <3>3, <3>4
    <2> QED
      BY <1>1, <1>2, <2>1, <2>4, <2>5, ActsOnDisk
  <1>4. CASE ~\E g \in Files : Acts(g)
    <2>1. disk' = disk
      BY <1>4 DEF QuietNext, Plan, Prepare, WritePlan, EndStaging, StartApply, NextStep, StageFile,
             Look, BeginRewrite, BeginFinalizing, FinalizeApply, SweepStaging, RemovePlan,
             OnlyPhase, pvars
    <2> QED
      BY <1>2, <2>1
  <1> QED
    BY <1>3, <1>4

\* What materializing does to staging: files leave with their bytes, and arrive.
LEMMA QuietCarries ==
    ASSUME ApplyTypes, Quiet, touched = {}, NEW f \in Files, Acts(f)
    PROVE  /\ \A g \in Files : g # f => staging'[g] = staging[g]
           /\ f \notin Moved => staging'[f] = staging[f]
           /\ op.at = "leaving" => staging'[f] = Hash(f)
           /\ op.at \in {"clearing", "writing", "removing"} => staging'[f] = staging[f]
  <1> USE DEF At
  <1>1. op.item = f /\ f # Absent /\ f \in StepItems(op.at) /\ op.at \in Steps
    BY ActsFinish
  <1>2. PTypeOK /\ staging \in [Files -> Bytes \cup {Absent}]
    BY DEF ApplyTypes, PTypeOK
  <1>3. CASE Leave(f)
    <2>1. op.at = "leaving" /\ f \in Moved
      BY <1>1, <1>2, <1>3, ItemsOfSteps, PlanParts DEF Leave, Acting
    <2>2. SawMine(f) /\ disk[From(f)] = Hash(f)
      BY <1>1, <2>1, QuietIsReady
    <2> QED
      BY <1>2, <1>3, <2>1, <2>2 DEF Leave
  <1>4. CASE ArriveStaged(f)
    <2>1. op.at = "arriving" /\ f \in Moved
      BY <1>1, <1>2, <1>4, ItemsOfSteps, PlanParts DEF ArriveStaged, Acting
    <2> QED
      BY <1>2, <1>4, <2>1 DEF ArriveStaged
  <1>5. CASE Remove(f) \/ Write(f) \/ ArriveDirect(f)
    <2>1. staging' = staging /\ op.at # "leaving"
      BY <1>5 DEF Remove, Write, ArriveDirect, Acting
    <2> QED
      BY <2>1
  <1> QED
    BY <1>3, <1>4, <1>5 DEF Acts

LEMMA QuietStagedStep ==
    ASSUME ApplyTypes, Quiet, QuietNext, UNCHANGED <<before, target>>, touched = {}
    PROVE  QuietStaged'
  <1> SUFFICES ASSUME NEW f \in Written
               PROVE  /\ op'.at \in {"planned", "preparing", "staging"} =>
                            f \in op'.left \/ staging'[f] = Hash(f)
                      /\ op'.at \in {"starting"} \cup Steps => staging'[f] = Hash(f)
    BY PlanIsFixed DEF QuietStaged
  <1> USE DEF At
  <1>1. PTypeOK /\ f \in Files /\ f \in Live(target) /\ f \notin Moved
    BY PlanParts DEF ApplyTypes
  <1>2. /\ op.at \in {"planned", "preparing", "staging"} => f \in op.left \/ staging[f] = Hash(f)
        /\ op.at \in {"starting"} \cup Steps => staging[f] = Hash(f)
    BY DEF Quiet, QuietStaged
  <1>3. CASE UNCHANGED pvars \/ \E g \in Files : Look(g)
    BY <1>2, <1>3 DEF pvars, durable, Look, ApplyTypes, OpOK
  <1>4. CASE Plan
    <2>1. f \in ToStage
      BY <1>1 DEF ToStage, Needed
    <2> QED
      BY <1>4, <2>1 DEF Plan, Op, Steps
  <1>5. CASE Prepare \/ WritePlan
    BY <1>2, <1>5 DEF Prepare, WritePlan, ApplyTypes, OpOK, Steps
  <1>6. CASE \E g \in Files : StageFile(g)
    BY <1>1, <1>2, <1>6 DEF StageFile, ApplyTypes, OpOK, PTypeOK, Steps
  <1>7. CASE EndStaging
    BY <1>2, <1>7 DEF EndStaging, Goto, Op
  <1>8. CASE StartApply \/ NextStep
    <2>1. staging' = staging /\ op'.at \in Steps \cup {"finishing"}
          /\ op.at \in {"starting"} \cup Steps
      BY <1>8, OrderOfSteps DEF StartApply, NextStep, StartStep, Op, durable, Steps
    <2> QED
      BY <1>2, <2>1 DEF Steps
  <1>9. CASE \E g \in Files : Acts(g)
    BY <1>1, <1>2, <1>9, QuietCarries, ActsFinish DEF Steps
  <1>10. CASE BeginRewrite \/ BeginFinalizing \/ FinalizeApply \/ SweepStaging \/ RemovePlan
    BY <1>10 DEF BeginRewrite, BeginFinalizing, FinalizeApply, SweepStaging, RemovePlan, Goto,
           Idle, Op, Steps
  <1> QED
    BY <1>3, <1>4, <1>5, <1>6, <1>7, <1>8, <1>9, <1>10 DEF QuietNext

LEMMA QuietCarriedStep ==
    ASSUME ApplyTypes, Quiet, QuietNext, [Next]_pvars, UNCHANGED <<before, target>>, touched = {}
    PROVE  QuietCarried'
  <1> SUFFICES ASSUME NEW f \in BlockingMoves, Past("leaving", f)'
               PROVE  \/ op'.at = "arriving" /\ f \notin op'.left
                      \/ op'.at \in {"removing", "finishing"}
                      \/ staging'[f] = Hash(f)
    BY PlanIsFixed DEF QuietCarried, At
  <1> USE DEF At
  <1>1. PTypeOK /\ f \in Files /\ f \in Moved
    BY PlanParts DEF ApplyTypes
  <1>2. op'.at \in Steps \cup {"finishing"}
    BY DEF Past, Later, Steps
  <1>3. CASE Acts(f)
    <2>1. op'.at = op.at /\ f \notin op'.left /\ op.at \in Steps
      BY <1>1, <1>3, ActsFinish
    <2>2. CASE op.at = "leaving"
      BY <1>1, <1>3, <2>2, QuietCarries
    <2>3. CASE op.at \in {"clearing", "writing"}
      <3>1. f \notin StepItems(op.at)
        BY <1>1, <2>3, ItemsOfSteps, PlanParts
      <3> QED
        BY <1>1, <1>3, <3>1, ActsFinish
    <2> QED
      BY <2>1, <2>2, <2>3 DEF Steps
  <1>4. CASE ~Acts(f)
    <2>1. \/ op.at = "arriving" /\ f \notin op.left
          \/ op.at \in {"removing", "finishing"}
          \/ staging[f] = Hash(f)
      BY <1>1, <1>4, PastGrows DEF Quiet, QuietCarried, Steps
    <2>2. staging'[f] = staging[f]
      <3>1. CASE \E g \in Files : Acts(g)
        BY <1>1, <1>4, <3>1, QuietCarries
      <3>2. CASE \E g \in Files : StageFile(g)
        BY <1>2, <3>2 DEF StageFile, ApplyTypes, OpOK, Steps
      <3>3. CASE SweepStaging
        BY <1>2, <3>3 DEF SweepStaging, Goto, Op, Steps
      <3> QED
        BY <3>1, <3>2, <3>3
           DEF QuietNext, Plan, Prepare, WritePlan, EndStaging, StartApply, NextStep, Look,
               BeginRewrite, BeginFinalizing, FinalizeApply, RemovePlan, OnlyPhase, pvars, durable
    <2>3. CASE staging[f] = Hash(f)
      BY <2>2, <2>3
    <2>4. CASE op.at \in {"arriving", "removing", "finishing"}
      <3>1. CASE UNCHANGED pvars \/ \E g \in Files : Look(g) \/ Acts(g)
        <4>1. op'.at = op.at /\ op'.left \subseteq op.left
          BY <3>1, ActsFinish DEF pvars, Look, ApplyTypes, OpOK
        <4> QED
          BY <2>1, <2>2, <4>1
      <3>2. CASE NextStep
        BY <2>4, <3>2, OrderOfSteps DEF NextStep, StartStep, Op, Steps
      <3>3. CASE BeginRewrite \/ BeginFinalizing \/ FinalizeApply \/ SweepStaging \/ RemovePlan
        BY <1>2, <3>3 DEF BeginRewrite, BeginFinalizing, FinalizeApply, SweepStaging, RemovePlan,
               Goto, Idle, Op, Steps
      <3>4. ~Plan /\ ~Prepare /\ ~WritePlan /\ ~EndStaging /\ ~StartApply
            /\ ~\E g \in Files : StageFile(g)
        BY <2>4 DEF Plan, Prepare, WritePlan, EndStaging, StartApply, StageFile
      <3> QED
        BY <3>1, <3>2, <3>3, <3>4 DEF QuietNext
    <2> QED
      BY <2>1, <2>3, <2>4
  <1> QED
    BY <1>3, <1>4

LEMMA QuietStep == ApplyTypes /\ QuietInv /\ [Next]_pvars => QuietInv'
  <1> SUFFICES ASSUME ApplyTypes, QuietInv, [Next]_pvars, faults' = 0, touched' = {}
               PROVE  Quiet'
    BY DEF QuietInv
  <1>1. touched = {} /\ Quiet /\ QuietNext
    BY QuietSteps DEF QuietNext
  <1> QED
    BY <1>1, TablesStay, QuietControlStep, QuietAheadStep, QuietStagedStep, QuietCarriedStep
       DEF Quiet

LEMMA QuietInit == Init => QuietInv
  <1> SUFFICES ASSUME Init PROVE Quiet
    BY DEF QuietInv
  <1>1. op.at = "pulled" /\ op.resumed = "none"
    BY DEF Init, Op
  <1>2. QuietControl
    BY <1>1 DEF Init, QuietControl, At
  <1>3. QuietAhead
    BY InitialDisk DEF QuietAhead
  <1>4. QuietStaged /\ QuietCarried
    BY <1>1 DEF QuietStaged, QuietCarried, Past, Later, At, Steps
  <1> QED
    BY <1>2, <1>3, <1>4 DEF Quiet

\* An apply that nothing interrupts, in a workspace the user leaves alone, copies no file
\* as a conflict: every file is as the old manifest has it when a step comes to it.
THEOREM QuietAppliesAreClean == Spec => []QuietApplyHasNoConflicts
  <1>1. QuietInv => QuietApplyHasNoConflicts
    BY DEF QuietInv, Quiet, QuietControl, QuietApplyHasNoConflicts
  <1> QED
    BY <1>1, TypesInit, TypesStep, QuietInit, QuietStep, PTL DEF Spec
=============================================================================
