-------------------------- MODULE JournalledUpdate --------------------------
(***************************************************************************)
(* What applying a pulled manifest promises to whoever looks at the        *)
(* workspace and at what the vault's row says of it.  An update is         *)
(* announced before it changes anything; only an update under way takes a  *)
(* file from its place; it is called done with every file in its place,    *)
(* and dropped half way only after the row says that files may be missing. *)
(***************************************************************************)

CONSTANT Files

VARIABLES status,   \* of the journal
          missing,  \* files of the manifest that are not in their place
          doubt     \* the row says that the workspace may not be the manifest

vars == <<status, missing, doubt>>

Init == status = "none" /\ missing \in SUBSET Files /\ doubt = FALSE

Turns(from, to) == status = from /\ status' = to /\ UNCHANGED <<missing, doubt>>

Announce == Turns("none", "announced")
Withdraw == Turns("announced", "none")
Stage == Turns("announced", "staged")
Begin == Turns("staged", "working")
Finish == Turns("working", "done") /\ missing = {}

\* Files come to their places, and may leave them again for a while.
Work ==
    /\ status = "working"
    /\ missing' \in SUBSET Files
    /\ UNCHANGED <<status, doubt>>

\* What the user puts in a file's place, or takes from it, is in its place.
UserSettles ==
    /\ missing' \in SUBSET missing
    /\ UNCHANGED <<status, doubt>>

\* An update that is done takes doubts away, its own and those of others before it.
Settle ==
    /\ status = "done" /\ status' = "none"
    /\ doubt' = FALSE
    /\ UNCHANGED missing

Suspect ==
    /\ status \in {"none", "announced", "working"}
    /\ doubt' = TRUE
    /\ UNCHANGED <<status, missing>>

GiveUp ==
    /\ status \in {"announced", "working"} /\ doubt
    /\ status' = "none"
    /\ UNCHANGED <<missing, doubt>>

Next ==
    \/ Announce \/ Withdraw \/ Stage \/ Begin \/ Work \/ Finish \/ Settle
    \/ Suspect \/ GiveUp \/ UserSettles

Spec == Init /\ [][Next]_vars

\* What follows of it: an update that got past its announcement goes from the
\* journal with every file in its place, or with a row that says it may not be so.
DroppedIsKnown ==
    [][status \notin {"none", "announced"} /\ status' = "none"
          => doubt' \/ missing' = {}]_vars
=============================================================================
