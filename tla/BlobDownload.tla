---------------------------- MODULE BlobDownload ----------------------------
(***************************************************************************)
(* A device fetching one blob: by a capability that is spent on the read,  *)
(* or range by range with one that is not, the pieces put together at the  *)
(* end.  The object may be short when it is read, an upload of it having   *)
(* been cut off, and may be whole again later.                             *)
(***************************************************************************)
EXTENDS Naturals, Sequences

CONSTANTS Size,        \* encrypted_size
          MaxRanges    \* bound: ranges of one request

ASSUME SizeIsNat == Size \in Nat
ASSUME MaxRangesIsNat == MaxRanges \in Nat

VARIABLES stored,     \* how many bytes of the object there are
          ticket,     \* the device's capability
          fetch,      \* what the device is doing
          payload     \* what it hands on to decryption

dvars == <<stored, ticket, fetch, payload>>

ByteRange == [offset : 0 .. Size, size : 0 .. Size + 1]
NoTicket == [kind |-> "none", live |-> FALSE, ranges |-> << >>]
NotFetching == [at |-> "idle", got |-> << >>, left |-> {}, bytes |-> << >>]
NoPayload == << >>

\* Byte number i of the blob is i.
ObjectBytes(from, n) == [i \in 1 .. n |-> from + i - 1]
Blob == ObjectBytes(0, Size)

DInit ==
    /\ stored \in {0, Size}
    /\ ticket = NoTicket
    /\ fetch = NotFetching
    /\ payload = NoPayload

GiveUpFetch == fetch' = NotFetching

-----------------------------------------------------------------------------
(* Whole blobs                                                             *)

InitBlobDownload ==
    /\ fetch.at = "idle"
    /\ ticket' = [kind |-> "download", live |-> TRUE, ranges |-> << >>]
    /\ fetch' = [NotFetching EXCEPT !.at = "read"]
    /\ UNCHANGED <<stored, payload>>

\* download_blob compares the size with that of the capability.
AcceptDownload(bytes) == Len(bytes) = Size

\* read_blob_download: spends the capability; an object that is not there leaves
\* it, as does a capability that has expired (its removal is not saved).
ReadBlobDownload ==
    /\ fetch.at = "read"
    /\ IF ticket.live /\ stored > 0
       THEN /\ ticket' = NoTicket
            /\ payload' = IF AcceptDownload(ObjectBytes(0, stored)) THEN ObjectBytes(0, stored)
                                                              ELSE payload
       ELSE UNCHANGED <<ticket, payload>>
    /\ GiveUpFetch
    /\ UNCHANGED stored

-----------------------------------------------------------------------------
(* Ranges                                                                  *)

\* _resolve_download_ranges: TRUE for requests that are not answered with 400.
RangesAllowed(ranges) ==
    \A i \in DOMAIN ranges : /\ ranges[i].size > 0
                             /\ ranges[i].offset + ranges[i].size <= Size

\* Without ranges the whole blob is meant.
Resolved(ranges) ==
    IF ranges = << >> /\ Size > 0 THEN <<[offset |-> 0, size |-> Size]>> ELSE ranges

InitResumableBlobDownload(ranges) ==
    /\ fetch.at = "idle"
    /\ RangesAllowed(ranges)
    /\ ticket' = [kind |-> "resumable_download", live |-> TRUE, ranges |-> Resolved(ranges)]
    /\ fetch' = [NotFetching EXCEPT !.at = "ranges"]
    /\ UNCHANGED <<stored, payload>>

\* _range_is_authorized: within one range of the capability.
RangeIsAuthorized(r) ==
    \E i \in DOMAIN ticket.ranges :
        /\ r.offset >= ticket.ranges[i].offset
        /\ r.offset + r.size <= ticket.ranges[i].offset + ticket.ranges[i].size

\* The next range of the capability, read from what is there now; fewer bytes than
\* asked for is 416, and the device gives up.
ReadResumableBlobDownload ==
    LET r == ticket.ranges[Len(fetch.got) + 1]
    IN  /\ fetch.at = "ranges" /\ Len(fetch.got) < Len(ticket.ranges)
        /\ IF ticket.live /\ RangeIsAuthorized(r) /\ r.offset + r.size <= stored
           THEN fetch' = [fetch EXCEPT !.got =
                             Append(@, [offset |-> r.offset, bytes |-> ObjectBytes(r.offset, r.size)])]
           ELSE GiveUpFetch
        /\ UNCHANGED <<stored, ticket, payload>>

\* _assemble_complete_resumable_downloads is a loop over what was read, by offset:
\* one range is one step.
StartAssembly ==
    /\ fetch.at = "ranges" /\ Len(fetch.got) = Len(ticket.ranges)
    /\ fetch' = [fetch EXCEPT !.at = "joining", !.left = DOMAIN fetch.got]
    /\ UNCHANGED <<stored, ticket, payload>>

\* Fault: a range may start anywhere in what there is so far, or right after it.
ContinuesLoosely(r) == r.offset <= Len(fetch.bytes)

\* Each range starts where the bytes so far end.
Continues(r) == r.offset = Len(fetch.bytes)

JoinRange(i) ==
    /\ fetch.at = "joining"
    /\ \A j \in fetch.left : fetch.got[i].offset <= fetch.got[j].offset
    /\ IF Continues(fetch.got[i])
       THEN fetch' = [fetch EXCEPT !.bytes = @ \o fetch.got[i].bytes, !.left = @ \ {i}]
       ELSE GiveUpFetch
    /\ UNCHANGED <<stored, ticket, payload>>

\* And the last one ends with the blob.
Assemble ==
    /\ fetch.at = "joining" /\ fetch.left = {}
    /\ payload' = IF Len(fetch.bytes) = Size THEN fetch.bytes ELSE payload
    /\ GiveUpFetch
    /\ UNCHANGED <<stored, ticket>>

-----------------------------------------------------------------------------
(* Meanwhile                                                               *)

ObjectCutOff(n) == n # stored /\ stored' = n /\ UNCHANGED <<ticket, fetch, payload>>

TicketExpires ==
    /\ ticket.live
    /\ ticket' = [ticket EXCEPT !.live = FALSE]
    /\ UNCHANGED <<stored, fetch, payload>>

HandOn == payload # NoPayload /\ payload' = NoPayload /\ UNCHANGED <<stored, ticket, fetch>>

DNext ==
    \/ InitBlobDownload
    \/ ReadBlobDownload
    \/ \E n \in 0 .. MaxRanges : \E rs \in [1 .. n -> ByteRange] : InitResumableBlobDownload(rs)
    \/ ReadResumableBlobDownload
    \/ StartAssembly
    \/ \E i \in fetch.left : JoinRange(i)
    \/ Assemble
    \/ \E n \in 0 .. Size : ObjectCutOff(n)
    \/ TicketExpires
    \/ HandOn

DSpec == DInit /\ [][DNext]_dvars

-----------------------------------------------------------------------------
(* Properties                                                              *)

DTypeOK ==
    /\ stored \in 0 .. Size
    /\ ticket.kind \in {"none", "download", "resumable_download"}
    /\ Len(ticket.ranges) <= MaxRanges + 1
    /\ fetch.at \in {"idle", "read", "ranges", "joining"}
    /\ Len(fetch.got) <= Len(ticket.ranges)
    /\ fetch.left \subseteq DOMAIN fetch.got

\* What goes on to decryption is the blob, byte for byte: ranges that overlap,
\* repeat or leave a hole are never taken for it, and an object that was short at
\* any read, between two ranges too, is not either.
DownloadsAreExact == payload # NoPayload => payload = Blob
=============================================================================
