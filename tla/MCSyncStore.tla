---------------------------- MODULE MCSyncStore ----------------------------
(* A small vault for TLC: see the .cfg for the constants.                   *)
EXTENDS SyncStore, TLC

Symmetry == Permutations(Devices) \cup Permutations(Intents)

\* Bounds on the payloads: one tombstone each, pending only for a file of the base, and
\* a file is listed with its pending tombstone on top of the first revision only.
Relists(m) == \E t \in m.tombs : t.rev = 0 /\ m.files[t.file] # Absent

SmallPayloads ==
    \A c \in commitCalls' \ commitCalls :
        /\ Cardinality(c.manifest.tombs) <= 1
        /\ \A t \in c.manifest.tombs : t.rev = 0 => FilesAt(c.manifest.base)[t.file] # Absent
        /\ Relists(c.manifest) => c.manifest.base = 1

\* A bound on revocations: one device is left to do something.
SomeoneStays == revoked' # Devices
=============================================================================
