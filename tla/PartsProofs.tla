---------------------------- MODULE PartsProofs ----------------------------
(***************************************************************************)
(* The components that are checked side by side, for any size of each: a   *)
(* behaviour of the composition is one of every component, so that what is *)
(* proved of a component holds of the composition; and the types of all of *)
(* them, whose invariants relate more than the types say.                  *)
(***************************************************************************)
EXTENDS MCParts, BackendProofs, NotesProofs, ContentSnapshotProofs

LEMMA PartsStep ==
    ASSUME [PartsNext /\ UNCHANGED part]_partsvars
    PROVE  /\ [ANext]_avars /\ [DNext]_dvars /\ [FNext]_fvars /\ [RNext]_rvars
           /\ [NNext]_nvars /\ [WNext]_wvars /\ [SNext]_svars
  BY DEF PartsNext, partsvars

\* The composition takes no step a component would not take: every behaviour of it
\* is one of the accounts, of the downloads, of the versions, of the repository, of
\* the notes, of the AI answers and of the snapshots.
THEOREM PartsAreComponents ==
    PartsSpec => /\ ASpec /\ DSpec /\ FSpec /\ RSpec
                 /\ NSpec /\ WSpec /\ SSpec
  <1>1. PartsInit => AInit /\ DInit /\ FInit /\ RInit /\ NInit /\ WInit /\ SInit
    BY DEF PartsInit
  <1>2. [PartsNext /\ UNCHANGED part]_partsvars =>
           /\ [ANext]_avars /\ [DNext]_dvars /\ [FNext]_fvars /\ [RNext]_rvars
           /\ [NNext]_nvars /\ [WNext]_wvars /\ [SNext]_svars
    BY PartsStep
  <1> QED
    BY <1>1, <1>2, PTL DEF PartsSpec, ASpec, DSpec, FSpec, RSpec, NSpec, WSpec, SSpec

\* The types of each component, with what keeps them: a call in progress has its
\* caller, deletions are counted by the operations begun, tokens of an answer were
\* handed out, a staged note has bytes.
PartsTypes ==
    /\ ATypeOK
    /\ DownloadInv
    /\ ListingInv
    /\ RTypeOK /\ BusyOnACall
    /\ NotesTypes /\ NotesValues
    /\ EditsInv /\ FolderTypes
    /\ SnapshotTypes /\ OneMoment /\ StagedTypes

\* Every component keeps its variables in their types, for any number of devices,
\* files, notes, processes and previews.
THEOREM PartsTypeCorrect == PartsSpec => []PartsTypeOK
  <1>1. PartsInit => PartsTypes
    BY AccountsTypeInit, DownloadInit, ListingInit, RepositoryTypesInit, NotesTypesInit, NotesValuesInit,
       EditsInit, FolderTypesInit, SnapshotTypesInit, MomentInit, StagedTypesInit
    DEF PartsInit, PartsTypes
  <1>2. PartsTypes /\ [PartsNext /\ UNCHANGED part]_partsvars => PartsTypes'
    BY PartsStep, AccountsTypeStep, DownloadStep, ListingStep, RepositoryTypesStep, NotesStep, NotesValuesStep,
       EditsStep, FolderTypesStep, SnapshotTypesStep, MomentStep, StagedTypesStep
    DEF PartsTypes
  <1>3. PartsTypes => PartsTypeOK
    <2>1. DownloadInv => DTypeOK
      BY DEF DownloadInv, DownloadTypes
    <2>2. ListingInv => FTypeOK
      BY DEF ListingInv, ListingTypes
    <2> QED
      BY <2>1, <2>2, NotesAreTyped, WritebackTypes, SnapshotIsTyped DEF PartsTypes, PartsTypeOK
  <1> QED
    BY <1>1, <1>2, <1>3, PTL DEF PartsSpec
=============================================================================
