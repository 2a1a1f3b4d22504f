---------------------------- MODULE FileVersions ----------------------------
(***************************************************************************)
(* The versions of files a vault keeps: recorded by the commits that       *)
(* change a file or ask for a version, pinned and unpinned, retired file   *)
(* by file, and listed page by page while all that goes on.                *)
(***************************************************************************)
EXTENDS Naturals, FiniteSets

CONSTANTS VersionedFiles, VersionContents,
          Gone,          \* a file that is not in the manifest
          KeepLatest,    \* retention_policy.keep_latest
          PageSize,      \* limit of a listing
          MaxCommits     \* bound

ASSUME MaxCommitsIsNat == MaxCommits \in Nat
ASSUME KeepLatestIsPos == KeepLatest \in Nat \ {0}
ASSUME PageSizeIsPos == PageSize \in Nat \ {0}
ASSUME GoneIsNoContent == Gone \notin VersionContents

VARIABLES headRev,       \* vault.head_revision
          headContent,   \* contents in the head manifest
          versions,      \* ids in records and by_file_id: file and revision
          pins,          \* those with is_pinned
          listing        \* a device reading the versions of a file, page by page

fvars == <<headRev, headContent, versions, pins, listing>>

Version == VersionedFiles \X (1 .. MaxCommits)
NotListing == [file |-> Gone, offset |-> 0, seen |-> {}, kept |-> {}, steady |-> TRUE]

FInit ==
    /\ headRev = 0
    /\ headContent = [f \in VersionedFiles |-> Gone]
    /\ versions = {}
    /\ pins = {}
    /\ listing = NotListing

-----------------------------------------------------------------------------
(* Recording and retiring                                                  *)

Regular(f, vs, ps) == {v \in vs \ ps : v[1] = f}

\* Faults: one version too many is retired; the pins are not looked at.
RetiredOneMore(f, vs, ps) ==
    {v \in Regular(f, vs, ps) :
        Cardinality({w \in Regular(f, vs, ps) : w[2] >= v[2]}) >= KeepLatest}

RetiredPinsToo(f, vs, ps) ==
    {v \in Regular(f, vs, {}) : Cardinality({w \in Regular(f, vs, {}) : w[2] > v[2]}) >= KeepLatest}

\* _apply_file_version_retention_policy: pinned versions stay and are not counted.
Retired(f, vs, ps) ==
    {v \in Regular(f, vs, ps) :
        Cardinality({w \in Regular(f, vs, ps) : w[2] > v[2]}) >= KeepLatest}

\* _append_file_versions_for_commit: a file the commit refers to gets a version if
\* it changed, one with a directive in any case; retention looks only at these.
VersionedBy(content, referenced, directives) ==
    {f \in referenced \cup directives :
        content[f] # Gone /\ (f \in directives \/ content[f] # headContent[f])}

\* The part of create_commit that concerns versions.  A directive for a file that
\* is not in the manifest is refused.
CommitVersions(content, referenced, directives, pinned) ==
    LET new == VersionedBy(content, referenced, directives) \X {headRev + 1}
        ps  == pins \cup (pinned \X {headRev + 1})
        vs  == versions \cup new
        out == UNION {Retired(v[1], vs, ps) : v \in new}
    IN  /\ headRev < MaxCommits
        /\ \A f \in directives : content[f] # Gone
        /\ pinned \subseteq directives
        /\ headRev' = headRev + 1
        /\ headContent' = content
        /\ versions' = vs \ out
        /\ pins' = ps \ out
        /\ UNCHANGED listing

\* update_file_version, as far as it pins or unpins.
UpdateFileVersion(v, pin) ==
    /\ v \in versions
    /\ pins' = IF pin THEN pins \cup {v} ELSE pins \ {v}
    /\ listing' = [listing EXCEPT !.steady = @ /\ (pin \/ v \notin pins)]
    /\ UNCHANGED <<headRev, headContent, versions>>

-----------------------------------------------------------------------------
(* Listing                                                                 *)

\* Fault: oldest first.
OldestFirst(v) == Cardinality({w \in versions : w[1] = v[1] /\ w[2] <= v[2]})

\* Where v comes in the list of its file: the newest is the first.
NewestFirst(v) == Cardinality({w \in versions : w[1] = v[1] /\ w[2] >= v[2]})

StartListing(f) ==
    /\ listing.file = Gone
    /\ listing' = [NotListing EXCEPT !.file = f, !.kept = {v \in versions : v[1] = f},
           !.steady = Cardinality(Regular(f, versions, pins)) <= KeepLatest]
    /\ UNCHANGED <<headRev, headContent, versions, pins>>

\* list_file_versions: the cursor is an offset in the list as it is by then.
ListFileVersions ==
    LET all  == {v \in versions : v[1] = listing.file}
        upto == listing.offset + PageSize
        page == {v \in all : listing.offset < NewestFirst(v) /\ NewestFirst(v) <= upto}
    IN  /\ listing.file # Gone /\ listing.offset # MaxCommits + 1
        /\ listing' = [listing EXCEPT
               !.seen = @ \cup page,
               !.kept = @ \cap versions,
               !.offset = IF upto < Cardinality(all) THEN upto ELSE MaxCommits + 1]
        /\ UNCHANGED <<headRev, headContent, versions, pins>>

ListedVersions == listing.file # Gone /\ listing.offset = MaxCommits + 1

EndListing ==
    /\ ListedVersions
    /\ listing' = NotListing
    /\ UNCHANGED <<headRev, headContent, versions, pins>>

FNext ==
    \/ \E content \in [VersionedFiles -> VersionContents \cup {Gone}],
          referenced, directives, pinned \in SUBSET VersionedFiles :
             CommitVersions(content, referenced, directives, pinned)
    \/ \E v \in versions, pin \in BOOLEAN : UpdateFileVersion(v, pin)
    \/ \E f \in VersionedFiles : StartListing(f)
    \/ ListFileVersions
    \/ EndListing

FSpec == FInit /\ [][FNext]_fvars

-----------------------------------------------------------------------------
(* Properties                                                              *)

FTypeOK ==
    /\ headRev \in 0 .. MaxCommits
    /\ headContent \in [VersionedFiles -> VersionContents \cup {Gone}]
    /\ versions \subseteq Version
    /\ pins \subseteq versions
    /\ listing.file \in VersionedFiles \cup {Gone}
    /\ listing.seen \cup listing.kept \subseteq Version

\* A version that goes was not pinned, and KeepLatest versions of its file that
\* are newer stay: no pin, unpin or directive of another file costs one its
\* history.
RetentionTakesOldest ==
    [][\A v \in versions \ versions' :
          /\ v \notin pins
          /\ Cardinality({w \in versions' \ pins' : w[1] = v[1] /\ w[2] > v[2]}) >= KeepLatest
      ]_fvars

\* Commits may come between two pages of a listing: a version that was there from
\* the first page to the last is on one of them, as long as no more than KeepLatest
\* versions were unpinned when it began and none was unpinned since (else the next
\* commit retires several, and shifts the older ones by more than the version it
\* adds makes up for).
ListingFindsKept ==
    ListedVersions /\ listing.steady => listing.kept \cap versions \subseteq listing.seen
=============================================================================
