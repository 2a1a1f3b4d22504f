---------------------------- MODULE MCCommitSync ----------------------------
(* Two devices on one vault that already holds a revision.                  *)
EXTENDS CommitSync, TLC
CONSTANTS d1, d2, i1, i2, i3, f1, f2, f3, b1, b2, p1

OnePath == [f \in Files |-> p1]

MCSymmetry == Permutations({i1, i2})

\* The program looks at the workspace only when it plans a commit, deletes a note
\* or applies a pull: a change the user makes in between can be put off to there.
UserWritesWhenRead ==
    \A d \in Devices : disk'[d] # disk[d] => \/ op[d].at \in {"idle", "applying"}
                                            \/ beside'[d] # beside[d]

\* A bound on deletions beside an operation: the file both devices have at first.
FirstFileBeside ==
    \A d \in Devices : beside'[d].at = "removing" => beside'[d].file = f1

-----------------------------------------------------------------------------
(* A device has committed f1 under the intent i3.                          *)

FirstFiles == [f \in Files |-> IF f = f1 THEN b1 ELSE Absent]
NoFiles == [f \in Files |-> Absent]
FirstCommit(d) == [device |-> d, base |-> 0, files |-> FirstFiles, tombs |-> {}]

Row(applied, pulled) ==
    [applied |-> applied, pulled |-> pulled, seq |-> 0,
     busy |-> FALSE, valid |-> TRUE, conflict |-> FALSE]

FirstRevision(author) ==
    /\ history = <<[by |-> i3, base |-> 0, files |-> FirstFiles, tombs |-> {}]>>
    /\ commits = [i \in Intents |-> IF i = i3 THEN [hash |-> FirstCommit(author), rev |-> 1]
                                              ELSE NoCommit]
    /\ joined = Devices
    /\ acks = [d \in Devices |-> 1]
    /\ revoked = {} /\ gcRuns = {} /\ now = 0
    /\ blobs = {b1}
    /\ commitCalls = {} /\ ackCalls = {}
    /\ ledger = [d \in Devices |-> {}]
    /\ disk = [d \in Devices |-> [p \in Paths |-> IF p = p1 THEN b1 ELSE Absent]]
    /\ minted = {i3, f1}
    /\ op = [d \in Devices |-> Idle]
    /\ beside = [d \in Devices |-> Idle]

\* d1 knows its commit succeeded; d2 has pulled and acknowledged it.
Synced ==
    /\ FirstRevision(d1)
    /\ st = [d \in Devices |-> Row(1, IF d = d1 THEN 0 ELSE 1)]
    /\ journal = [d \in Devices |-> NoJournal]
    /\ fmap = [d \in Devices |-> FirstFiles]

\* d2 was killed before it heard the answer to its commit; d1 has pulled it.
InDoubt ==
    /\ FirstRevision(d2)
    /\ st = [d \in Devices |-> IF d = d2 THEN [Row(0, 0) EXCEPT !.busy = TRUE] ELSE Row(1, 1)]
    /\ journal = [d \in Devices |->
           IF d = d2 THEN [status |-> "submitted", intent |-> i3, manifest |-> FirstCommit(d2),
                           upper |-> 0, known |-> {}]
                     ELSE NoJournal]
    /\ fmap = [d \in Devices |-> IF d = d2 THEN NoFiles ELSE FirstFiles]

SyncedInit == Synced /\ faults = 0

\* A race in which nothing fails, or a commit in doubt and faults to come.
ContendedInit == \/ Synced /\ faults = MaxFaults
                 \/ InDoubt /\ faults = 0

\* Bounds of these two: two files, with a second content on one device; or three
\* files with one content, of which the users of both devices remove any but only
\* one of the two deletes in the application.
Deleters == {d \in Devices : \E t \in ledger[d] : t.seq > 0}

ContendedBounds ==
    IF commits[i3].hash.device = d1
    THEN f3 \notin minted' /\ \A p \in Paths : disk'[d2][p] # b2
    ELSE /\ \A d \in Devices, p \in Paths : disk'[d][p] # b2
         /\ Cardinality(Deleters') <= 1

SyncedSpec == SyncedInit /\ [][CNext]_cvars
SyncedLiveSpec == SyncedSpec /\ WorkerFairness
ContendedSpec == ContendedInit /\ [][CNext]_cvars
=============================================================================
