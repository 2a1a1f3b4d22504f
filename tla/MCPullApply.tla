---------------------------- MODULE MCPullApply ----------------------------
(* One device and a pull between any two manifests of two or three files.   *)
EXTENDS PullApply, TLC
CONSTANTS f1, f2, f3, p1, p2, p3, c1, c2, u1, u2
MCSymmetry == Permutations(Files) \cup Permutations(Paths) \cup Permutations(Contents)
              \cup Permutations(Drafts)

\* Symmetry is not sound for liveness.  Instead the names are chosen so that the
\* first file of the old manifest, if it has one, is f1, with content c1 at p1.
NamedInit ==
    Init /\ (Live(before) # {} => before[f1] = [path |-> p1, content |-> c1])
NamedSpec == NamedInit /\ FairSpec
=============================================================================
