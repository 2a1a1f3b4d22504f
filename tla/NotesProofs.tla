---------------------------- MODULE NotesProofs ----------------------------
(***************************************************************************)
(* What the client does to notes, for any number of notes, paths, words    *)
(* and operations: no operation loses the bytes of a note, what is in the  *)
(* trash can be restored, and an AI answer takes nothing the user typed.   *)
(***************************************************************************)
EXTENDS WorkspaceNotes, AiWriteback, SequenceTheorems, TLAPS

-----------------------------------------------------------------------------
(* Sequences                                                               *)

Distinct(s) == \A i, j \in DOMAIN s : s[i] = s[j] => i = j

LEMMA AppendedText ==
    ASSUME NEW S, NEW s \in Seq(S), NEW e \in S
    PROVE  /\ Append(s, e) \in Seq(S)
           /\ Range(Append(s, e)) = Range(s) \cup {e}
           /\ Distinct(s) /\ e \notin Range(s) => Distinct(Append(s, e))
  <1> DEFINE a == Append(s, e)
  <1>1. /\ a \in Seq(S) /\ Len(a) = Len(s) + 1
        /\ \A i \in 1 .. Len(s) : a[i] = s[i]
        /\ a[Len(s) + 1] = e
    BY AppendProperties
  <1>2. /\ Len(s) \in Nat /\ DOMAIN s = 1 .. Len(s) /\ DOMAIN a = 1 .. (Len(s) + 1)
    BY <1>1, LenProperties
  <1>3. Range(a) = Range(s) \cup {e}
    BY <1>1, <1>2 DEF Range
  <1>4. ASSUME Distinct(s), e \notin Range(s) PROVE Distinct(a)
    <2>1. ASSUME NEW i \in DOMAIN a, NEW j \in DOMAIN a, a[i] = a[j] PROVE i = j
      <3>1. \A k \in 1 .. Len(s) : a[k] # e
        BY <1>1, <1>2, <1>4 DEF Range
      <3> QED
        BY <1>1, <1>2, <1>4, <2>1, <3>1 DEF Distinct
    <2> QED
      BY <2>1 DEF Distinct
  <1> QED
    BY <1>1, <1>3, <1>4

LEMMA RemovedText ==
    ASSUME NEW S, NEW s \in Seq(S), NEW k \in DOMAIN s
    PROVE  /\ RemoveAt(s, k) \in Seq(S)
           /\ Range(RemoveAt(s, k)) \subseteq Range(s)
           /\ Range(s) \ {s[k]} \subseteq Range(RemoveAt(s, k))
           /\ Distinct(s) => Distinct(RemoveAt(s, k))
  <1> DEFINE r == RemoveAt(s, k)
             front == SubSeq(s, 1, k - 1)
             back == SubSeq(s, k + 1, Len(s))
  <1>1. /\ Len(s) \in Nat /\ DOMAIN s = 1 .. Len(s) /\ k \in 1 .. Len(s)
    BY LenProperties
  <1>2. /\ front \in Seq(S) /\ Len(front) = k - 1
        /\ \A i \in 1 .. (k - 1) : front[i] = s[i]
    <2>1. \A i \in 1 .. (k - 1) : i \in 1 .. Len(s)
      BY <1>1
    <2>2. 1 \in Int /\ k - 1 \in Int /\ (1 <= k - 1 + 1)
      BY <1>1
    <2> QED
      BY <1>1, <2>1, <2>2, SubSeqProperties
  <1>3. /\ back \in Seq(S) /\ Len(back) = Len(s) - k
        /\ \A i \in 1 .. (Len(s) - k) : back[i] = s[k + i]
    <2>1. \A i \in (k + 1) .. Len(s) : i \in 1 .. Len(s)
      BY <1>1
    <2>2. k + 1 \in Int /\ Len(s) \in Int
      BY <1>1
    <2> QED
      BY <1>1, <2>1, <2>2, SubSeqProperties
  <1>4. /\ r \in Seq(S) /\ DOMAIN r = 1 .. (Len(s) - 1)
        /\ \A i \in 1 .. (Len(s) - 1) : r[i] = IF i < k THEN s[i] ELSE s[i + 1]
    <2>1. r = front \o back
      BY DEF RemoveAt
    <2>2. r \in Seq(S) /\ Len(r) = Len(s) - 1
      BY <1>1, <1>2, <1>3, <2>1, ConcatProperties
    <2>3. \A i \in 1 .. (Len(s) - 1) : r[i] = IF i <= k - 1 THEN front[i] ELSE back[i - (k - 1)]
      <3> HIDE DEF front, back
      <3>1. Len(front) + Len(back) = Len(s) - 1
        BY <1>1, <1>2, <1>3
      <3>2. \A i \in 1 .. (Len(front) + Len(back)) :
               (front \o back)[i] = IF i <= Len(front) THEN front[i] ELSE back[i - Len(front)]
        BY <1>2, <1>3, ConcatProperties
      <3> QED
        BY <1>2, <2>1, <3>1, <3>2
    <2>4. ASSUME NEW i \in 1 .. (Len(s) - 1) PROVE r[i] = IF i < k THEN s[i] ELSE s[i + 1]
      <3>1. CASE i < k
        BY <1>1, <1>2, <2>3, <3>1
      <3>2. CASE ~(i < k)
        <4>1. i - (k - 1) \in 1 .. (Len(s) - k) /\ k + (i - (k - 1)) = i + 1
          BY <1>1, <3>2
        <4>2. r[i] = back[i - (k - 1)]
          BY <1>1, <2>3, <3>2
        <4> QED
          BY <1>3, <3>2, <4>1, <4>2
      <3> QED
        BY <3>1, <3>2
    <2> QED
      BY <2>2, <2>4, LenProperties
  <1> HIDE DEF r
  <1>5. Range(r) \subseteq Range(s)
    <2>1. ASSUME NEW i \in 1 .. (Len(s) - 1) PROVE r[i] \in Range(s)
      <3>1. i \in DOMAIN s /\ i + 1 \in DOMAIN s
        BY <1>1
      <3> QED
        BY <1>4, <3>1 DEF Range
    <2> QED
      BY <1>4, <2>1 DEF Range
  <1>6. ASSUME NEW e \in Range(s), e # s[k] PROVE e \in Range(r)
    <2>1. PICK i \in 1 .. Len(s) : e = s[i]
      BY <1>1, <1>6 DEF Range
    <2>2. CASE i < k
      BY <1>1, <1>4, <2>1, <2>2 DEF Range
    <2>3. CASE i > k
      <3>1. i - 1 \in 1 .. (Len(s) - 1) /\ ~(i - 1 < k) /\ (i - 1) + 1 = i
        BY <1>1, <2>3
      <3>2. r[i - 1] = e
        BY <1>4, <2>1, <3>1
      <3> QED
        BY <1>4, <3>1, <3>2 DEF Range
    <2> QED
      BY <1>1, <1>6, <2>1, <2>2, <2>3
  <1>7. ASSUME Distinct(s) PROVE Distinct(r)
    <2>1. ASSUME NEW i \in DOMAIN r, NEW j \in DOMAIN r, r[i] = r[j] PROVE i = j
      <3> DEFINE at(n) == IF n < k THEN n ELSE n + 1
      <3>1. r[i] = s[at(i)] /\ r[j] = s[at(j)] /\ at(i) \in 1 .. Len(s) /\ at(j) \in 1 .. Len(s)
        BY <1>1, <1>4
      <3>2. at(i) = at(j)
        BY <1>1, <1>7, <2>1, <3>1 DEF Distinct
      <3> QED
        BY <1>1, <1>4, <3>2
    <2> QED
      BY <2>1 DEF Distinct
  <1> QED
    BY <1>4, <1>5, <1>6, <1>7 DEF r

-----------------------------------------------------------------------------
(* AI answers                                                              *)

Own == Words \cup {LockWord}

\* No word and no block is in the text twice, and its blocks are of tokens that
\* were handed out before the next one.
CleanText(x, next) ==
    /\ x \in Text /\ Distinct(x)
    /\ \A t \in Range(x) \cap Tokens : t < next

EditsInv ==
    /\ confirmations \in Seq([mode : {"insert", "create"}, base : Text,
                              target : NotePaths \cup {Free}, live : BOOLEAN])
    /\ Len(confirmations) <= MaxPreviews
    /\ CleanText(saved, Len(confirmations) + 1)
    /\ draft # NoDraft => CleanText(draft, Len(confirmations) + 1)
    /\ typed \subseteq Range(CurrentText) \cap Own
    /\ \A t \in DOMAIN confirmations :
          \A u \in Range(confirmations[t].base) \cap Tokens : u < t

LEMMA EditsInit == WInit => EditsInv
  <1> SUFFICES ASSUME WInit PROVE EditsInv
    OBVIOUS
  <1>1. <<>> \in Text /\ DOMAIN <<>> = {} /\ Range(<<>>) = {}
    BY DEF Text, Range
  <1>2. CleanText(<<>>, 1)
    BY <1>1 DEF CleanText, Distinct
  <1> QED
    BY <1>1, <1>2, PreviewsAreNat DEF WInit, EditsInv

\* A step that leaves the confirmations and writes the draft only.
LEMMA EditsDraft ==
    ASSUME EditsInv, UNCHANGED <<saved, confirmations>>,
           CleanText(draft', Len(confirmations) + 1),
           typed' \subseteq Range(draft') \cap Own
    PROVE  EditsInv'
  <1>1. draft' # NoDraft
    BY NoDraftIsNoText DEF CleanText
  <1>2. CurrentText' = draft'
    BY <1>1 DEF CurrentText
  <1> QED
    BY <1>1, <1>2 DEF EditsInv, CleanText, Distinct

LEMMA EditsCurrent == EditsInv => CleanText(CurrentText, Len(confirmations) + 1)
  BY DEF EditsInv, CurrentText

LEMMA EditsIssued ==
    ASSUME EditsInv, NEW token, Issue(token),
           token \in [mode : {"insert", "create"}, base : Text,
                      target : NotePaths \cup {Free}, live : BOOLEAN],
           \A u \in Range(token.base) \cap Tokens : u < Len(confirmations) + 1
    PROVE  EditsInv'
  <1> DEFINE R == [mode : {"insert", "create"}, base : Text,
                   target : NotePaths \cup {Free}, live : BOOLEAN]
             n == Len(confirmations)
  <1>1. /\ confirmations \in Seq(R) /\ n \in Nat /\ DOMAIN confirmations = 1 .. n
    BY LenProperties DEF EditsInv
  <1>2. /\ confirmations' \in Seq(R) /\ Len(confirmations') = n + 1
        /\ \A t \in 1 .. n : confirmations'[t] = confirmations[t]
        /\ confirmations'[n + 1] = token
    BY <1>1, AppendProperties DEF Issue
  <1>3. DOMAIN confirmations' = 1 .. (n + 1)
    BY <1>2, LenProperties
  <1>4. UNCHANGED <<saved, draft, typed, CurrentText>>
    BY DEF Issue, editor, CurrentText
  <1>5. ASSUME NEW x, CleanText(x, n + 1) PROVE CleanText(x, n + 1 + 1)
    BY <1>1, <1>5, PreviewsAreNat DEF CleanText, Tokens
  <1>6. \A t \in DOMAIN confirmations' :
            \A u \in Range(confirmations'[t].base) \cap Tokens : u < t
    <2>1. ASSUME NEW t \in 1 .. (n + 1), NEW u \in Range(confirmations'[t].base) \cap Tokens
          PROVE  u < t
      <3>1. CASE t = n + 1
        BY <1>2, <2>1, <3>1
      <3>2. CASE t # n + 1
        BY <1>1, <1>2, <2>1, <3>2 DEF EditsInv
      <3> QED
        BY <3>1, <3>2
    <2> QED
      BY <1>3, <2>1
  <1>7. CleanText(saved', Len(confirmations') + 1) /\ (draft' # NoDraft => CleanText(draft', Len(confirmations') + 1))
    BY <1>2, <1>4, <1>5 DEF EditsInv
  <1> QED
    BY <1>1, <1>2, <1>4, <1>6, <1>7, PreviewsAreNat DEF EditsInv, Issue

LEMMA EditsApplied ==
    ASSUME EditsInv, NEW t \in DOMAIN confirmations, ApplyInsert(t)
    PROVE  EditsInv'
  <1> DEFINE x == CurrentText
  <1>1. CleanText(x, Len(confirmations) + 1)
    BY EditsCurrent
  <1>2. x = confirmations[t].base /\ draft' = Append(x, t) /\ UNCHANGED <<saved, typed, confirmations>>
    BY DEF ApplyInsert, Applied
  <1>3. t \in 1 .. Len(confirmations) /\ Len(confirmations) \in Nat
    BY LenProperties DEF EditsInv
  <1>4. t \in Tokens
    BY <1>3, PreviewsAreNat DEF EditsInv, Tokens
  <1>5. EditsInv'
    <2>1. t \notin Range(x)
      BY <1>2, <1>3, <1>4 DEF EditsInv
    <2>2. /\ draft' \in Text /\ Range(draft') = Range(x) \cup {t} /\ Distinct(draft')
      BY <1>1, <1>2, <1>4, <2>1, AppendedText DEF CleanText, Text
    <2>3. CleanText(draft', Len(confirmations) + 1)
      BY <1>1, <1>3, <2>2 DEF CleanText
    <2>4. typed' \subseteq Range(draft') \cap Own
      BY <1>2, <2>2 DEF EditsInv
    <2> QED
      BY <1>2, <2>3, <2>4, EditsDraft
  <1> QED
    BY <1>5

LEMMA EditsTyped ==
    ASSUME EditsInv, NEW w \in Own, Type(w)
    PROVE  EditsInv'
  <1> DEFINE x == CurrentText
  <1>1. CleanText(x, Len(confirmations) + 1)
    BY EditsCurrent
  <1>2. draft' = Append(x, w) /\ w \notin Range(x) /\ typed' = typed \cup {w}
        /\ UNCHANGED <<saved, confirmations>>
    BY DEF Type
  <1>3. draft' \in Text /\ Range(draft') = Range(x) \cup {w} /\ Distinct(draft')
    BY <1>1, <1>2, AppendedText DEF CleanText, Text, Own
  <1>4. CleanText(draft', Len(confirmations) + 1)
    BY <1>1, <1>3, WordsAreNoTokens DEF CleanText, Own
  <1>5. typed' \subseteq Range(draft') \cap Own
    BY <1>2, <1>3 DEF EditsInv
  <1> QED
    BY <1>2, <1>4, <1>5, EditsDraft

LEMMA EditsTakenBack ==
    ASSUME EditsInv, NEW k, TakeBack(k)
    PROVE  EditsInv'
  <1> DEFINE x == CurrentText
  <1>1. CleanText(x, Len(confirmations) + 1)
    BY EditsCurrent
  <1>2. k \in DOMAIN x /\ draft' = RemoveAt(x, k) /\ typed' = typed \ {x[k]}
        /\ UNCHANGED <<saved, confirmations>>
    BY DEF TakeBack
  <1>3. /\ draft' \in Text /\ Distinct(draft') /\ Range(draft') \subseteq Range(x)
        /\ Range(x) \ {x[k]} \subseteq Range(draft')
    BY <1>1, <1>2, RemovedText DEF CleanText, Text
  <1>4. CleanText(draft', Len(confirmations) + 1)
    BY <1>1, <1>3 DEF CleanText
  <1>5. typed' \subseteq Range(draft') \cap Own
    BY <1>2, <1>3 DEF EditsInv
  <1> QED
    BY <1>2, <1>4, <1>5, EditsDraft

LEMMA EditsExpired ==
    ASSUME EditsInv, NEW t \in DOMAIN confirmations, Expire(t)
    PROVE  EditsInv'
  <1> DEFINE R == [mode : {"insert", "create"}, base : Text,
                   target : NotePaths \cup {Free}, live : BOOLEAN]
  <1>1. confirmations \in Seq(R) /\ confirmations' = [confirmations EXCEPT ![t].live = FALSE]
        /\ UNCHANGED <<saved, draft, typed, CurrentText>>
    BY DEF EditsInv, Expire, editor, CurrentText
  <1>2. t \in 1 .. Len(confirmations) /\ DOMAIN confirmations = 1 .. Len(confirmations)
    BY <1>1, LenProperties
  <1>3. confirmations[t] \in R
    BY <1>1, <1>2, ElementOfSeq
  <1>4. confirmations' = [confirmations EXCEPT ![t] = [confirmations[t] EXCEPT !.live = FALSE]]
    BY <1>1
  <1>5. [confirmations[t] EXCEPT !.live = FALSE] \in R
        /\ [confirmations[t] EXCEPT !.live = FALSE].base = confirmations[t].base
    BY <1>3
  <1>6. /\ confirmations' \in Seq(R) /\ Len(confirmations') = Len(confirmations)
        /\ DOMAIN confirmations' = DOMAIN confirmations
        /\ \A u \in DOMAIN confirmations : confirmations'[u].base = confirmations[u].base
    <2>1. confirmations' \in Seq(R) /\ Len(confirmations') = Len(confirmations)
      BY <1>1, <1>2, <1>4, <1>5, ExceptSeq
    <2>2. \A u \in DOMAIN confirmations : confirmations'[u].base = confirmations[u].base
      BY <1>1, <1>2, <1>4, <1>5
    <2> QED
      BY <1>2, <2>1, <2>2, LenProperties
  <1> QED
    BY <1>1, <1>6 DEF EditsInv

LEMMA EditsStep == EditsInv /\ [WNext]_wvars => EditsInv'
  <1> SUFFICES ASSUME EditsInv, [WNext]_wvars PROVE EditsInv'
    OBVIOUS
  <1>1. CleanText(CurrentText, Len(confirmations) + 1)
    BY EditsCurrent
  <1>2. ASSUME UNCHANGED <<editor, confirmations>> PROVE EditsInv'
    BY <1>2 DEF editor, EditsInv, CurrentText
  <1>3. CASE PreviewInsert
    <2> DEFINE token == [mode |-> "insert", base |-> CurrentText, target |-> Free, live |-> TRUE]
    <2>1. token \in [mode : {"insert", "create"}, base : Text,
                     target : NotePaths \cup {Free}, live : BOOLEAN]
      BY <1>1 DEF CleanText
    <2>2. token.base = CurrentText /\ Issue(token)
      BY <1>3 DEF PreviewInsert
    <2> HIDE DEF token
    <2> QED
      BY <1>1, <2>1, <2>2, EditsIssued DEF CleanText
  <1>4. ASSUME NEW p \in NotePaths, PreviewCreate(p) PROVE EditsInv'
    <2> DEFINE token == [mode |-> "create", base |-> <<>>, target |-> p, live |-> TRUE]
    <2>1. token \in [mode : {"insert", "create"}, base : Text,
                     target : NotePaths \cup {Free}, live : BOOLEAN]
      BY DEF Text
    <2>2. token.base = <<>> /\ Issue(token) /\ Range(<<>>) = {}
      BY <1>4 DEF PreviewCreate, Range
    <2> HIDE DEF token
    <2> QED
      BY <2>1, <2>2, EditsIssued
  <1>5. CASE SaveDraft
    <2>1. saved' = draft /\ draft' = NoDraft /\ draft # NoDraft /\ UNCHANGED <<typed, confirmations>>
      BY <1>5 DEF SaveDraft
    <2>2. CurrentText' = CurrentText
      BY <2>1 DEF CurrentText
    <2> QED
      BY <2>1, <2>2 DEF EditsInv
  <1>6. CASE ThrowDraftAway
    <2>1. draft' = NoDraft /\ typed' = Range(saved) \ Tokens /\ UNCHANGED <<saved, confirmations>>
      BY <1>6 DEF ThrowDraftAway
    <2>2. CurrentText' = saved
      BY <2>1 DEF CurrentText
    <2>3. Range(saved) \subseteq Own \cup Tokens
      <3>1. \A i \in DOMAIN saved : saved[i] \in Own \cup Tokens
        BY ElementOfSeq, LenProperties DEF EditsInv, CleanText, Text, Own
      <3> QED
        BY <3>1 DEF Range
    <2> QED
      BY <2>1, <2>2, <2>3 DEF EditsInv
  <1>7. ASSUME NEW w \in Words \cup {LockWord}, Type(w) PROVE EditsInv'
    BY <1>7, EditsTyped DEF Own
  <1>8. ASSUME NEW k \in 1 .. MaxLength, TakeBack(k) PROVE EditsInv'
    BY <1>8, EditsTakenBack
  <1>9. ASSUME NEW t \in DOMAIN confirmations, Expire(t) PROVE EditsInv'
    BY <1>9, EditsExpired
  <1>10. ASSUME NEW t \in DOMAIN confirmations, ApplyInsert(t) PROVE EditsInv'
    BY <1>10, EditsApplied
  <1>11. ASSUME NEW t \in DOMAIN confirmations, ApplyCreate(t) PROVE EditsInv'
    BY <1>2, <1>11 DEF ApplyCreate
  <1>12. CASE RecordCreated \/ CrashCreating \/ ImportNotes \/ UNCHANGED wvars
    BY <1>2, <1>12 DEF RecordCreated, CrashCreating, ImportNotes, wvars, editor
  <1>13. ASSUME NEW p \in NotePaths, NEW q \in NotePaths,
                RemoveCreated(p) \/ PutNote(p) \/ MoveCreated(p, q)
         PROVE  EditsInv'
    BY <1>2, <1>13 DEF RemoveCreated, PutNote, MoveCreated
  <1> QED
    BY <1>3, <1>4, <1>5, <1>6, <1>7, <1>8, <1>9, <1>10, <1>11, <1>12, <1>13 DEF WNext

\* Whatever is previewed, applied, applied again, typed, saved and thrown away, in
\* whatever order, what the user typed is in the text and no answer is in it twice.
THEOREM AnswersKeepEdits == WSpec => []EditsSurviveWriteback
  <1>1. EditsInv => EditsSurviveWriteback
    <2> SUFFICES ASSUME EditsInv PROVE EditsSurviveWriteback
      OBVIOUS
    <2>1. CleanText(CurrentText, Len(confirmations) + 1) /\ typed \subseteq Range(CurrentText)
      BY EditsCurrent DEF EditsInv
    <2> QED
      BY <2>1 DEF CleanText, Distinct, EditsSurviveWriteback
  <1> QED
    BY <1>1, EditsInit, EditsStep, PTL DEF WSpec

\* The folder of the answers that become notes.
FolderTypes ==
    /\ notes \in [NotePaths -> {Free, OwnNote} \cup Tokens]
    /\ tracked \subseteq NotePaths
    /\ creating \in NotePaths \cup {Free}

LEMMA FolderTypesInit == WInit => FolderTypes
  BY DEF WInit, FolderTypes

LEMMA FolderTypesStep == EditsInv /\ FolderTypes /\ [WNext]_wvars => FolderTypes'
  <1> SUFFICES ASSUME EditsInv, FolderTypes, [WNext]_wvars PROVE FolderTypes'
    OBVIOUS
  <1>1. ASSUME UNCHANGED <<notes, tracked, creating>> PROVE FolderTypes'
    BY <1>1 DEF FolderTypes
  <1>2. CASE PreviewInsert \/ SaveDraft \/ ThrowDraftAway
    BY <1>1, <1>2 DEF PreviewInsert, Issue, SaveDraft, ThrowDraftAway, folder
  <1>3. CASE RecordCreated \/ CrashCreating \/ ImportNotes
    BY <1>3 DEF RecordCreated, CrashCreating, ImportNotes, FolderTypes
  <1>4. ASSUME NEW w \in Words \cup {LockWord}, Type(w) PROVE FolderTypes'
    BY <1>1, <1>4 DEF Type, folder
  <1>5. ASSUME NEW k \in 1 .. MaxLength, TakeBack(k) PROVE FolderTypes'
    BY <1>1, <1>5 DEF TakeBack, folder
  <1>6. ASSUME NEW p \in NotePaths, NEW q \in NotePaths,
               RemoveCreated(p) \/ PutNote(p) \/ MoveCreated(p, q)
        PROVE  FolderTypes'
    BY <1>6 DEF RemoveCreated, PutNote, MoveCreated, FolderTypes
  <1>7. ASSUME NEW p \in NotePaths, PreviewCreate(p) PROVE FolderTypes'
    BY <1>1, <1>7 DEF PreviewCreate, Issue, folder
  <1>8. ASSUME NEW t \in DOMAIN confirmations, Expire(t) \/ ApplyInsert(t) PROVE FolderTypes'
    BY <1>1, <1>8 DEF Expire, ApplyInsert, folder
  <1>9. ASSUME NEW t \in DOMAIN confirmations, ApplyCreate(t) PROVE FolderTypes'
    <2>1. t \in Tokens
      BY PreviewsAreNat, LenProperties DEF EditsInv, Tokens
    <2>2. confirmations[t].target \in NotePaths \cup {Free}
      <3>1. t \in 1 .. Len(confirmations)
        BY LenProperties DEF EditsInv
      <3> DEFINE R == [mode : {"insert", "create"}, base : Text, target : NotePaths \cup {Free}, live : BOOLEAN]
      <3>2. confirmations \in Seq(R)
        BY DEF EditsInv
      <3> HIDE DEF R
      <3>3. confirmations[t] \in R
        BY <3>1, <3>2, ElementOfSeq
      <3> QED
        BY <3>3 DEF R
    <2> QED
      BY <1>9, <2>1, <2>2 DEF ApplyCreate, FolderTypes
  <1>10. CASE UNCHANGED wvars
    BY <1>1, <1>10 DEF wvars
  <1> QED
    BY <1>2, <1>3, <1>4, <1>5, <1>6, <1>7, <1>8, <1>9, <1>10 DEF WNext

LEMMA WritebackTypes == EditsInv /\ FolderTypes => WTypeOK
  BY DEF EditsInv, FolderTypes, CleanText, Own, WTypeOK

-----------------------------------------------------------------------------
(* Notes: types                                                            *)

Records == Record \cup {NoRecord}

NotesTypes ==
    /\ time \in 0 .. MaxOperations
    /\ disk = [p \in Paths |-> disk[p]]
    /\ trash = [k \in Trashed |-> trash[k]]
    /\ filemap \in [NoteIds -> Records]
    /\ op = NoOp \/ op \in [todo : Seq(StepNames), id : NoteIds \cup {Nothing},
                            filemap : [NoteIds -> Records]]
    /\ \A k \in Trashed : trash[k] # Nothing => k[2] <= time

LEMMA NotesTypesInit == NInit => NotesTypes
  <1> SUFFICES ASSUME NInit PROVE NotesTypes
    OBVIOUS
  <1>1. ASSUME NEW p \in Paths
        PROVE  [path |-> p, status |-> "active", stamp |-> 0, synced |-> TRUE, purged |-> FALSE] \in Record
    BY OperationsAreNat DEF Record
  <1>2. filemap \in [NoteIds -> Records]
    BY <1>1 DEF NInit, Records
  <1>3. disk = [p \in Paths |-> disk[p]]
    BY DEF NInit
  <1>4. trash = [k \in Trashed |-> Nothing] /\ time = 0 /\ op = NoOp
    BY DEF NInit
  <1> QED
    BY <1>2, <1>3, <1>4, OperationsAreNat DEF NotesTypes

LEMMA MadeTypes ==
    ASSUME NEW p \in Paths, time \in 0 .. MaxOperations, time < MaxOperations
    PROVE  Made(p) \in Record /\ Made(p).status = "active" /\ Made(p) \in Records
  BY OperationsAreNat DEF Made, Record, Records

LEMMA Restamped ==
    ASSUME NEW r \in Record, NEW p \in Paths, NEW s \in {"active", "deleted"},
           time \in 0 .. MaxOperations, time < MaxOperations
    PROVE  /\ [[r EXCEPT !.path = p] EXCEPT !.stamp = time + 1] \in Record
           /\ [[r EXCEPT !.status = s] EXCEPT !.stamp = time + 1] \in Record
  <1> DEFINE D == 0 .. MaxOperations
  <1>1. time + 1 \in D
    BY OperationsAreNat
  <1> HIDE DEF D
  <1>2. Record = [path : Paths, status : {"active", "deleted"}, stamp : D,
                  synced : BOOLEAN, purged : BOOLEAN]
    BY DEF Record, D
  <1>3. \A n \in D : /\ [[r EXCEPT !.path = p] EXCEPT !.stamp = n] \in Record
                     /\ [[r EXCEPT !.status = s] EXCEPT !.stamp = n] \in Record
    BY <1>2
  <1> QED
    BY <1>1, <1>3

\* An operation begins with the records that it will write.
LEMMA BegunTypes ==
    ASSUME NotesTypes, NEW i \in NoteIds \cup {Nothing}, NEW todo \in Seq(StepNames),
           NEW map \in [NoteIds -> Records], Begin(i, todo, map),
           disk' = [p \in Paths |-> disk'[p]], trash' = [k \in Trashed |-> trash'[k]],
           \A k \in Trashed : trash'[k] # Nothing => trash[k] # Nothing \/ k[2] <= time + 1
    PROVE  NotesTypes'
  <1>1. time \in Nat /\ time' = time + 1 /\ time' \in 0 .. MaxOperations /\ filemap' = filemap
        /\ op' = [todo |-> todo, id |-> i, filemap |-> map]
    BY OperationsAreNat DEF NotesTypes, Begin, beside
  <1>2. ASSUME NEW k \in Trashed, trash'[k] # Nothing PROVE k[2] <= time'
    <2>1. k[2] \in Nat
      BY OperationsAreNat DEF Trashed
    <2> QED
      BY <1>1, <1>2, <2>1 DEF NotesTypes
  <1> QED
    BY <1>1, <1>2 DEF NotesTypes, Records, Record, NoRecord, NoOp, Trashed

\* The records of the notes that are active and deleted, and where their bytes are.
LEMMA ActiveRecord ==
    ASSUME NotesTypes, NEW i \in NoteIds, Active(i) \/ filemap[i].status = "deleted"
    PROVE  filemap[i] \in Record /\ filemap[i].path \in Paths /\ filemap[i].stamp \in 0 .. MaxOperations
           /\ TrashKey(i) \in Trashed
  <1>1. filemap[i] \in Record
    BY DEF NotesTypes, Records, NoRecord, Active
  <1> QED
    BY <1>1 DEF Record, TrashKey, Trashed

\* The lists of what is left to do.
LEMMA Listed1 ==
    ASSUME NEW S, NEW a \in S
    PROVE  <<a>> \in Seq(S) /\ Range(<<a>>) = {a}
  <1>1. DOMAIN <<a>> = {1}
    OBVIOUS
  <1>2. <<a>> \in Seq(S)
    OBVIOUS
  <1> QED
    BY <1>1, <1>2 DEF Range

LEMMA Listed2 ==
    ASSUME NEW S, NEW a \in S, NEW b \in S
    PROVE  <<a, b>> \in Seq(S) /\ Range(<<a, b>>) = {a, b}
  <1>1. DOMAIN <<a, b>> = {1, 2}
    OBVIOUS
  <1>2. <<a, b>> \in Seq(S)
    OBVIOUS
  <1> QED
    BY <1>1, <1>2 DEF Range

LEMMA Listed3 ==
    ASSUME NEW S, NEW a \in S, NEW b \in S, NEW c \in S
    PROVE  <<a, b, c>> \in Seq(S) /\ Range(<<a, b, c>>) = {a, b, c}
  <1>1. DOMAIN <<a, b, c>> = {1, 2, 3}
    OBVIOUS
  <1>2. <<a, b, c>> \in Seq(S)
    OBVIOUS
  <1> QED
    BY <1>1, <1>2 DEF Range

LEMMA Listed5 ==
    ASSUME NEW S, NEW a \in S, NEW b \in S, NEW c \in S, NEW d \in S, NEW e \in S
    PROVE  <<a, b, c, d, e>> \in Seq(S) /\ Range(<<a, b, c, d, e>>) = {a, b, c, d, e}
  <1>1. DOMAIN <<a, b, c, d, e>> = {1, 2, 3, 4, 5}
    OBVIOUS
  <1>2. <<a, b, c, d, e>> \in Seq(S)
    OBVIOUS
  <1> QED
    BY <1>1, <1>2 DEF Range

LEMMA StepLists ==
    /\ <<"filemap">> \in Seq(StepNames) /\ <<"filemap", "index">> \in Seq(StepNames)
    /\ <<"draft", "index">> \in Seq(StepNames) /\ <<"filemap", "rebuild">> \in Seq(StepNames)
    /\ <<"filemap", "links", "index">> \in Seq(StepNames)
    /\ <<"filemap", "index", "forget">> \in Seq(StepNames)
    /\ <<"draft", "filemap", "index", "tombstone", "count">> \in Seq(StepNames)
  <1>1. /\ <<"filemap">> \in Seq(StepNames) /\ <<"filemap", "index">> \in Seq(StepNames)
        /\ <<"draft", "index">> \in Seq(StepNames) /\ <<"filemap", "rebuild">> \in Seq(StepNames)
    BY Listed1, Listed2 DEF StepNames
  <1>2. /\ <<"filemap", "links", "index">> \in Seq(StepNames)
        /\ <<"filemap", "index", "forget">> \in Seq(StepNames)
    BY Listed3 DEF StepNames
  <1>3. <<"draft", "filemap", "index", "tombstone", "count">> \in Seq(StepNames)
    BY Listed5 DEF StepNames
  <1> QED
    BY <1>1, <1>2, <1>3

-----------------------------------------------------------------------------
(* Notes: no operation takes bytes away                                    *)

Loses == ~(Held \subseteq Held' \cup {Nothing})

\* What the folder or the trash had at every place is at some place afterwards.
LEMMA HeldWhere ==
    ASSUME \A p \in Paths : disk[p] = Nothing
               \/ (\E q \in Paths : disk'[q] = disk[p]) \/ (\E k \in Trashed : trash'[k] = disk[p]),
           \A k \in Trashed : trash[k] = Nothing
               \/ (\E q \in Paths : disk'[q] = trash[k]) \/ (\E n \in Trashed : trash'[n] = trash[k])
    PROVE  ~Loses
  <1>1. Held' = {disk'[p] : p \in Paths} \cup {trash'[k] : k \in Trashed}
    BY DEF Held, Trashed
  <1> QED
    BY <1>1 DEF Loses, Held

LEMMA HeldAnew ==
    ASSUME NotesTypes, NEW p \in Paths, NEW text, ~OnDisk(p), disk' = [disk EXCEPT ![p] = text],
           UNCHANGED trash
    PROVE  ~Loses
  BY HeldWhere DEF NotesTypes, OnDisk

LEMMA HeldSame == UNCHANGED <<disk, trash>> => ~Loses
  BY HeldWhere

LEMMA NotesCreate ==
    ASSUME NotesTypes, NEW i \in NoteIds, NEW p \in Paths, NEW text \in Texts,
           CreateNote(i, p, text) \/ CreateAttachment(i, p, text)
    PROVE  NotesTypes' /\ ~Loses
  <1>1. ~OnDisk(p) /\ disk' = [disk EXCEPT ![p] = text] /\ UNCHANGED trash
    BY DEF CreateNote, CreateAttachment
  <1>2. disk' = [q \in Paths |-> disk'[q]] /\ trash' = [k \in Trashed |-> trash'[k]]
    BY <1>1 DEF NotesTypes
  <1>3. CASE op = NoOp /\ UNCHANGED <<beside, op, cut, time>>
    BY <1>1, <1>2, <1>3, HeldAnew DEF beside, NotesTypes, Records, Record, NoRecord, Trashed
  <1>4. CASE Begin(i, <<"filemap", "index">>, [filemap EXCEPT ![i] = Made(p)])
    <2>1. time \in 0 .. MaxOperations /\ time < MaxOperations
      BY <1>4 DEF Begin, NotesTypes
    <2>2. [filemap EXCEPT ![i] = Made(p)] \in [NoteIds -> Records]
      BY <2>1, MadeTypes DEF NotesTypes
    <2> QED
      BY <1>1, <1>2, <1>4, <2>2, HeldAnew, BegunTypes, StepLists
  <1> QED
    BY <1>3, <1>4 DEF CreateNote, CreateAttachment

LEMMA NotesRelocate ==
    ASSUME NotesTypes, NEW i \in NoteIds, NEW p \in Paths, RenameNote(i, p) \/ MoveNote(i, p)
    PROVE  NotesTypes' /\ ~Loses
  <1> DEFINE from == filemap[i].path
  <1>1. PICK todo \in {<<"filemap", "links", "index">>, <<"filemap", "index">>} : Relocate(i, p, todo)
    BY DEF RenameNote, MoveNote
  <1>2. /\ Active(i) /\ OnDisk(from) /\ (p # from => ~OnDisk(p))
        /\ disk' = [[disk EXCEPT ![from] = Nothing] EXCEPT ![p] = disk[from]]
        /\ Begin(i, todo, Relocated(i, p)) /\ UNCHANGED trash
    BY <1>1 DEF Relocate, Editable
  <1>3. from \in Paths /\ filemap[i] \in Record
    BY <1>2, ActiveRecord
  <1>4. disk' = [q \in Paths |-> IF q = p THEN disk[from] ELSE IF q = from THEN Nothing ELSE disk[q]]
    BY <1>2, <1>3 DEF NotesTypes
  <1>5. ~Loses
    <2>1. ASSUME NEW q \in Paths, disk[q] # Nothing PROVE \E r \in Paths : disk'[r] = disk[q]
      <3>1. CASE q = from
        BY <1>4, <3>1
      <3>2. CASE q # from
        BY <1>2, <1>4, <2>1, <3>2 DEF OnDisk
      <3> QED
        BY <3>1, <3>2
    <2> QED
      BY <1>2, <2>1, HeldWhere
  <1>6. time \in 0 .. MaxOperations /\ time < MaxOperations
    BY <1>2 DEF Begin, NotesTypes
  <1>7. Relocated(i, p) \in [NoteIds -> Records]
    <2>1. [[filemap[i] EXCEPT !.path = p] EXCEPT !.stamp = time + 1] \in Record
      BY <1>3, <1>6, Restamped
    <2>2. Relocated(i, p) = [filemap EXCEPT ![i] = [[filemap[i] EXCEPT !.path = p] EXCEPT !.stamp = time + 1]]
      BY DEF Relocated, NotesTypes
    <2> QED
      BY <2>1, <2>2 DEF NotesTypes, Records
  <1>8. disk' = [q \in Paths |-> disk'[q]] /\ trash' = [k \in Trashed |-> trash'[k]]
    BY <1>2, <1>4 DEF NotesTypes
  <1>9. NotesTypes'
    BY <1>1, <1>2, <1>7, <1>8, BegunTypes, StepLists
  <1> QED
    BY <1>5, <1>9

LEMMA NotesDelete ==
    ASSUME NotesTypes, NEW i \in NoteIds, DeleteNote(i)
    PROVE  NotesTypes' /\ ~Loses
  <1> DEFINE p == filemap[i].path
             new == <<i, time + 1>>
  <1>1. /\ Active(i)
        /\ Begin(i, <<"draft", "filemap", "index", "tombstone", "count">>, MarkedDeleted(i))
        /\ disk' = [disk EXCEPT ![p] = Nothing]
        /\ trash' = [trash EXCEPT ![new] = disk[p]]
    BY DEF DeleteNote
  <1>2. p \in Paths /\ filemap[i] \in Record
    BY <1>1, ActiveRecord
  <1>3. time \in 0 .. MaxOperations /\ time < MaxOperations
    BY <1>1 DEF Begin, NotesTypes
  <1>4. new \in Trashed /\ new[2] = time + 1 /\ trash[new] = Nothing
    BY <1>3, OperationsAreNat DEF Trashed, NotesTypes
  <1>5. /\ disk' = [q \in Paths |-> IF q = p THEN Nothing ELSE disk[q]]
        /\ trash' = [k \in Trashed |-> IF k = new THEN disk[p] ELSE trash[k]]
    BY <1>1, <1>2, <1>4 DEF NotesTypes
  <1>6. ~Loses
    <2>1. ASSUME NEW q \in Paths PROVE (\E r \in Paths : disk'[r] = disk[q]) \/ (\E k \in Trashed : trash'[k] = disk[q])
      BY <1>4, <1>5
    <2>2. ASSUME NEW k \in Trashed, trash[k] # Nothing PROVE \E n \in Trashed : trash'[n] = trash[k]
      BY <1>4, <1>5, <2>2
    <2> QED
      BY <2>1, <2>2, HeldWhere
  <1>7. MarkedDeleted(i) \in [NoteIds -> Records]
    <2>1. [[filemap[i] EXCEPT !.status = "deleted"] EXCEPT !.stamp = time + 1] \in Record
      BY <1>2, <1>3, Restamped
    <2>2. MarkedDeleted(i) = [filemap EXCEPT ![i] = [[filemap[i] EXCEPT !.status = "deleted"] EXCEPT !.stamp = time + 1]]
      BY DEF MarkedDeleted, NotesTypes
    <2> QED
      BY <2>1, <2>2 DEF NotesTypes, Records
  <1>8. NotesTypes'
    <2>1. \A k \in Trashed : trash'[k] # Nothing => trash[k] # Nothing \/ k[2] <= time + 1
      BY <1>3, <1>4, <1>5
    <2>2. disk' = [q \in Paths |-> disk'[q]] /\ trash' = [k \in Trashed |-> trash'[k]]
      BY <1>5
    <2> QED
      BY <1>1, <1>7, <2>1, <2>2, BegunTypes, StepLists
  <1> QED
    BY <1>6, <1>8

LEMMA NotesRestore ==
    ASSUME NotesTypes, NEW i \in NoteIds, RestoreNote(i)
    PROVE  NotesTypes' /\ ~Loses
  <1> DEFINE p == filemap[i].path
             old == TrashKey(i)
             map == [filemap EXCEPT ![i].status = "active", ![i].stamp = time + 1]
  <1>1. /\ filemap[i].status = "deleted" /\ ~OnDisk(p)
        /\ disk' = [disk EXCEPT ![p] = trash[old]]
        /\ trash' = [trash EXCEPT ![old] = Nothing]
        /\ Begin(i, <<"filemap", "index", "forget">>, map)
    BY DEF RestoreNote, RestorePathIsFree
  <1>2. p \in Paths /\ filemap[i] \in Record /\ old \in Trashed
    BY <1>1, ActiveRecord
  <1>3. time \in 0 .. MaxOperations /\ time < MaxOperations
    BY <1>1 DEF Begin, NotesTypes
  <1>4. /\ disk' = [q \in Paths |-> IF q = p THEN trash[old] ELSE disk[q]]
        /\ trash' = [k \in Trashed |-> IF k = old THEN Nothing ELSE trash[k]]
    BY <1>1, <1>2 DEF NotesTypes
  <1>5. ~Loses
    <2>1. ASSUME NEW q \in Paths, disk[q] # Nothing PROVE \E r \in Paths : disk'[r] = disk[q]
      BY <1>1, <1>4, <2>1 DEF OnDisk
    <2>2. ASSUME NEW k \in Trashed
          PROVE (\E q \in Paths : disk'[q] = trash[k]) \/ (\E n \in Trashed : trash'[n] = trash[k])
      BY <1>2, <1>4
    <2> QED
      BY <2>1, <2>2, HeldWhere
  <1>6. map \in [NoteIds -> Records]
    <2>1. [[filemap[i] EXCEPT !.status = "active"] EXCEPT !.stamp = time + 1] \in Record
      BY <1>2, <1>3, Restamped
    <2>2. map = [filemap EXCEPT ![i] = [[filemap[i] EXCEPT !.status = "active"] EXCEPT !.stamp = time + 1]]
      BY DEF NotesTypes
    <2> QED
      BY <2>1, <2>2 DEF NotesTypes, Records
  <1>7. NotesTypes'
    <2>1. \A k \in Trashed : trash'[k] # Nothing => trash[k] # Nothing \/ k[2] <= time + 1
      BY <1>4
    <2>2. disk' = [q \in Paths |-> disk'[q]] /\ trash' = [k \in Trashed |-> trash'[k]]
      BY <1>4
    <2> HIDE DEF map
    <2> QED
      BY <1>1, <1>6, <2>1, <2>2, BegunTypes, StepLists
  <1> QED
    BY <1>5, <1>7

LEMMA NotesImport ==
    ASSUME NotesTypes, Import
    PROVE  NotesTypes' /\ ~Loses
  <1> DEFINE paths == IF Replaces THEN Present ELSE {p \in Present : ~Occupied(p, Nothing)}
             map(ids, new) == [i \in NoteIds |-> IF i \in ids THEN Made(new[i])
                                                 ELSE IF Replaces THEN NoRecord ELSE filemap[i]]
  <1>0. PICK ids \in SUBSET NoteIds : \E new \in [ids -> paths] :
            Begin(Nothing, <<"filemap", "rebuild">>, map(ids, new)) /\ UNCHANGED <<disk, trash>>
    BY DEF Import
  <1>1. PICK new \in [ids -> paths] :
            Begin(Nothing, <<"filemap", "rebuild">>, map(ids, new)) /\ UNCHANGED <<disk, trash>>
    BY <1>0
  <1>2. time \in 0 .. MaxOperations /\ time < MaxOperations
    BY <1>1 DEF Begin, NotesTypes
  <1>3. \A i \in ids : new[i] \in Paths
    BY DEF Present
  <1>4. map(ids, new) \in [NoteIds -> Records]
    <2>1. \A i \in ids : Made(new[i]) \in Records
      BY <1>2, <1>3, MadeTypes
    <2> QED
      BY <2>1 DEF NotesTypes, Records
  <1>5. disk' = [p \in Paths |-> disk'[p]] /\ trash' = [k \in Trashed |-> trash'[k]]
    BY <1>1 DEF NotesTypes
  <1> HIDE DEF map
  <1> QED
    BY <1>1, <1>4, <1>5, HeldSame, BegunTypes, StepLists

LEMMA NotesSave ==
    ASSUME NotesTypes, NEW i \in NoteIds, NEW text, SaveNote(i, text)
    PROVE  NotesTypes'
  <1>1. /\ disk' = [disk EXCEPT ![filemap[i].path] = text] /\ UNCHANGED trash
        /\ Begin(i, <<"draft", "index">>, filemap)
    BY DEF SaveNote
  <1>2. disk' = [q \in Paths |-> disk'[q]] /\ trash' = [k \in Trashed |-> trash'[k]]
    BY <1>1 DEF NotesTypes
  <1>3. filemap \in [NoteIds -> Records] /\ \A k \in Trashed : trash'[k] # Nothing => trash[k] # Nothing
    BY <1>1 DEF NotesTypes
  <1> QED
    BY <1>1, <1>2, <1>3, BegunTypes, StepLists

PurgedMap(ids) == [i \in NoteIds |-> IF i \in ids THEN [filemap[i] EXCEPT !.purged = TRUE] ELSE filemap[i]]

LEMMA NotesPurge ==
    ASSUME NotesTypes, NEW ids \in SUBSET NoteIds, PurgeNotes(ids)
    PROVE  NotesTypes'
  <1>1. /\ \A i \in ids : filemap[i].status = "deleted"
        /\ trash' = [k \in Trashed |-> IF k[1] \in ids /\ k = TrashKey(k[1]) THEN Nothing ELSE trash[k]]
        /\ Begin(Nothing, <<"filemap">>, PurgedMap(ids))
        /\ UNCHANGED disk
    BY DEF PurgeNotes, PurgedMap
  <1>2. PurgedMap(ids) \in [NoteIds -> Records]
    <2>1. \A i \in ids : [filemap[i] EXCEPT !.purged = TRUE] \in Records
      BY <1>1, ActiveRecord DEF Record, Records
    <2> QED
      BY <2>1 DEF NotesTypes, PurgedMap
  <1>3. disk' = [q \in Paths |-> disk'[q]]
    BY <1>1 DEF NotesTypes
  <1>4. /\ trash' = [k \in Trashed |-> trash'[k]]
        /\ \A k \in Trashed : trash'[k] # Nothing => trash[k] # Nothing
    BY <1>1
  <1> QED
    BY <1>1, <1>2, <1>3, <1>4, BegunTypes, StepLists

\* A step of the operation that runs takes the first of what is left to do.
LEMMA StepTaken ==
    ASSUME NotesTypes, NextStep
    PROVE  /\ op # NoOp /\ op.todo \in Seq(StepNames) /\ op.todo # <<>>
           /\ op.id \in NoteIds \cup {Nothing}
           /\ op.filemap \in [NoteIds -> Records]
           /\ \/ op' = NoOp
              \/ op' = [todo |-> Tail(op.todo), id |-> op.id, filemap |-> op.filemap]
           /\ op'.todo = Tail(op.todo) /\ op'.todo \in Seq(StepNames)
           /\ Range(op.todo) = {Head(op.todo)} \cup Range(op'.todo)
  <1> DEFINE T == [todo : Seq(StepNames), id : NoteIds \cup {Nothing}, filemap : [NoteIds -> Records]]
  <1>1. op.todo # <<>> /\ op' = IF Len(op.todo) = 1 THEN NoOp ELSE [op EXCEPT !.todo = Tail(@)]
    BY DEF NextStep
  <1>2. op # NoOp
    BY <1>1 DEF NoOp
  <1>3. op \in T
    BY <1>2 DEF NotesTypes
  <1>4. op.todo \in Seq(StepNames)
    BY <1>3
  <1>5. /\ Len(op.todo) \in Nat \ {0} /\ Tail(op.todo) \in Seq(StepNames)
        /\ Len(Tail(op.todo)) = Len(op.todo) - 1
        /\ Head(op.todo) = op.todo[1]
        /\ \A j \in 1 .. (Len(op.todo) - 1) : Tail(op.todo)[j] = op.todo[j + 1]
    BY <1>1, <1>4, HeadTailProperties, LenProperties, EmptySeq
  <1>6. \/ op' = NoOp /\ Tail(op.todo) = <<>>
        \/ op' = [todo |-> Tail(op.todo), id |-> op.id, filemap |-> op.filemap]
    <2>1. CASE Len(op.todo) = 1
      <3> DEFINE rest == Tail(op.todo)
      <3>0. rest \in Seq(StepNames) /\ Len(rest) = 0
        BY <1>5, <2>1
      <3> HIDE DEF rest
      <3>1. rest = <<>>
        BY <3>0, EmptySeq
      <3> QED
        BY <1>1, <2>1, <3>1 DEF rest
    <2>2. CASE Len(op.todo) # 1
      BY <1>1, <1>3, <2>2
    <2> QED
      BY <2>1, <2>2
  <1>7. op'.todo = Tail(op.todo)
    <2>1. NoOp.todo = <<>>
      BY DEF NoOp
    <2>2. [todo |-> Tail(op.todo), id |-> op.id, filemap |-> op.filemap].todo = Tail(op.todo)
      OBVIOUS
    <2> QED
      BY <1>6, <2>1, <2>2
  <1>8. Range(op.todo) = {Head(op.todo)} \cup Range(Tail(op.todo))
    <2>1. DOMAIN op.todo = 1 .. Len(op.todo) /\ DOMAIN Tail(op.todo) = 1 .. (Len(op.todo) - 1)
      BY <1>4, <1>5, LenProperties
    <2>2. ASSUME NEW j \in 1 .. Len(op.todo)
          PROVE op.todo[j] = Head(op.todo) \/ op.todo[j] \in Range(Tail(op.todo))
      <3>1. CASE j = 1
        BY <1>5, <3>1
      <3>2. CASE j # 1
        <4>1. j - 1 \in 1 .. (Len(op.todo) - 1) /\ (j - 1) + 1 = j
          BY <1>5, <3>2
        <4>2. Tail(op.todo)[j - 1] = op.todo[j]
          BY <1>5, <4>1
        <4> QED
          BY <2>1, <4>1, <4>2 DEF Range
      <3> QED
        BY <3>1, <3>2
    <2>3. ASSUME NEW j \in 1 .. (Len(op.todo) - 1) PROVE Tail(op.todo)[j] \in Range(op.todo)
      <3>1. j + 1 \in 1 .. Len(op.todo)
        BY <1>5
      <3> QED
        BY <1>5, <2>1, <3>1 DEF Range
    <2>4. Head(op.todo) \in Range(op.todo)
      <3>1. 1 \in 1 .. Len(op.todo)
        BY <1>5
      <3> QED
        BY <1>5, <2>1, <3>1 DEF Range
    <2> QED
      BY <2>1, <2>2, <2>3, <2>4 DEF Range
  <1> QED
    BY <1>1, <1>2, <1>3, <1>4, <1>5, <1>6, <1>7, <1>8

LEMMA NotesNextStep ==
    ASSUME NotesTypes, NextStep
    PROVE  NotesTypes' /\ ~Loses
  <1>1. UNCHANGED <<disk, trash, time>>
    BY DEF NextStep
  <1>2. filemap' = filemap \/ filemap' = op.filemap
    BY DEF NextStep, WriteFilemap, ClearDraft, UpsertIndex, RebuildIndex, RewriteLinks,
           AppendTombstone, ForgetTombstones, CountDelete
  <1>3. filemap' \in [NoteIds -> Records]
    BY <1>2, StepTaken DEF NotesTypes
  <1>4. op' = NoOp \/ op' \in [todo : Seq(StepNames), id : NoteIds \cup {Nothing},
                               filemap : [NoteIds -> Records]]
    BY StepTaken
  <1> QED
    BY <1>1, <1>3, <1>4, HeldSame DEF NotesTypes, Records, Record, NoRecord, NoOp, Trashed

LEMMA NotesStep ==
    ASSUME NotesTypes, [NNext]_nvars
    PROVE  NotesTypes' /\ (Loses => Overwriting)
  <1>1. ASSUME UNCHANGED <<disk, trash, filemap, time>>, op' = op \/ op' = NoOp
        PROVE  NotesTypes' /\ ~Loses
    BY <1>1, HeldSame DEF NotesTypes, Records, Record, NoRecord, NoOp, Trashed
  <1>2. CASE Operation
    <2>1. ASSUME NEW i \in NoteIds, WriteDraft(i) \/ DiscardDraft(i) PROVE NotesTypes' /\ ~Loses
      BY <1>1, <2>1 DEF WriteDraft, DiscardDraft
    <2>2. ASSUME NEW i \in NoteIds, NEW p \in Paths, NEW t \in Texts,
                 CreateNote(i, p, t) \/ CreateAttachment(i, p, t)
          PROVE  NotesTypes' /\ ~Loses
      BY <2>2, NotesCreate
    <2>3. ASSUME NEW i \in NoteIds, NEW p \in Paths, RenameNote(i, p) \/ MoveNote(i, p)
          PROVE  NotesTypes' /\ ~Loses
      BY <2>3, NotesRelocate
    <2>4. ASSUME NEW i \in NoteIds, DeleteNote(i) \/ RestoreNote(i) PROVE NotesTypes' /\ ~Loses
      BY <2>4, NotesDelete, NotesRestore
    <2> QED
      BY <1>2, <2>1, <2>2, <2>3, <2>4, NotesImport DEF Operation
  <1>3. CASE Overwriting
    <2>1. ASSUME NEW p \in Paths, NEW b \in Edits \cup {Nothing}, UserEdit(p, b) PROVE NotesTypes'
      <3>1. UNCHANGED <<trash, filemap, op, time>> /\ disk' = [disk EXCEPT ![p] = b]
        BY <2>1 DEF UserEdit, beside
      <3>2. disk' = [q \in Paths |-> disk'[q]]
        BY <3>1 DEF NotesTypes
      <3> QED
        BY <3>1, <3>2 DEF NotesTypes, Records, Record, NoRecord, NoOp, Trashed
    <2>2. ASSUME NEW i \in NoteIds, PurgeNotes({i}) PROVE NotesTypes'
      BY <2>2, NotesPurge
    <2>3. CASE PurgeNotes(Unpurged)
      <3>1. Unpurged \in SUBSET NoteIds
        BY DEF Unpurged
      <3> QED
        BY <1>3, <2>3, <3>1, NotesPurge
    <2> QED
      BY <1>3, <2>1, <2>2, <2>3, NotesSave DEF Overwriting
  <1>4. CASE NextStep
    BY <1>4, NotesNextStep
  <1>5. CASE Crash
    BY <1>1, <1>5 DEF Crash, beside
  <1>6. CASE UNCHANGED nvars
    BY <1>1, <1>6 DEF nvars
  <1> QED
    BY <1>2, <1>3, <1>4, <1>5, <1>6 DEF NNext

\* The bytes of the folder and of the trash are taken away by a save, a purge and the
\* user only, whatever operations run, fail halfway and are cut short.
THEOREM OperationsKeepBytes == NSpec => NothingIsOverwritten
  <1>1. NotesTypes /\ [NNext]_nvars => NotesTypes'
    BY NotesStep
  <1>2. NotesTypes /\ [NNext]_nvars => [Held \subseteq Held' \cup {Nothing} \/ Overwriting]_nvars
    BY NotesStep DEF Loses
  <1> QED
    BY <1>1, <1>2, NotesTypesInit, PTL DEF NSpec, NothingIsOverwritten

-----------------------------------------------------------------------------
(* Notes: what is in the trash can be restored                             *)

Pending(i) == \E t \in ledger : t[1] = i

\* The record r of a note, the trash and the ledger agree about it.
Fits(in, i, r, pending) ==
    /\ \A k \in Trashed : k[1] = i /\ in[k] # Nothing => r.status = "deleted" /\ k = <<i, r.stamp>>
    /\ r.status = "deleted" <=> pending

\* The records and tombstones once the operation that runs is through.
ToDo == Range(op.todo)
WillBe == IF "filemap" \in ToDo THEN op.filemap ELSE filemap
WillPend(i) == \/ i = op.id /\ "tombstone" \in ToDo
               \/ ~(i = op.id /\ "forget" \in ToDo) /\ Pending(i)

\* They agree then, and those of all other notes agree if it is cut short.
TrashInv ==
    /\ ~({"tombstone", "forget"} \subseteq ToDo)
    /\ \A i \in NoteIds \ cut : Fits(trash, i, WillBe[i], WillPend(i))
    /\ op # NoOp => \A i \in NoteIds \ cut : i # op.id => Fits(trash, i, filemap[i], Pending(i))

LEMMA AtRest ==
    ASSUME op = NoOp
    PROVE  ToDo = {} /\ WillBe = filemap /\ (\A i : WillPend(i) <=> Pending(i))
  <1>1. ToDo = {}
    BY DEF NoOp, ToDo, Range
  <1> QED
    BY <1>1 DEF WillBe, WillPend

LEMMA TrashSame ==
    ASSUME TrashInv, UNCHANGED <<trash, filemap, ledger, op, cut>>
    PROVE  TrashInv'
  BY DEF TrashInv, ToDo, WillBe, WillPend, Pending, Fits, Trashed, NoOp

LEMMA TrashBegun ==
    ASSUME NotesTypes, TrashInv, NEW i \in NoteIds \cup {Nothing}, NEW todo, NEW map,
           Begin(i, todo, map), ~({"tombstone", "forget"} \subseteq Range(todo)),
           "filemap" \in Range(todo) \/ map = filemap,
           \A j \in NoteIds \ cut : j # i =>
               Fits(trash', j, filemap[j], Pending(j)) /\ Fits(trash', j, map[j], Pending(j)),
           i \in NoteIds \ cut =>
               Fits(trash', i, map[i], \/ "tombstone" \in Range(todo)
                                       \/ "forget" \notin Range(todo) /\ Pending(i))
    PROVE  TrashInv'
  <1>1. op' = [todo |-> todo, id |-> i, filemap |-> map] /\ UNCHANGED <<filemap, ledger, cut>>
    BY DEF Begin, beside
  <1>2. ToDo' = Range(todo) /\ op'.id = i /\ op'.filemap = map
    BY <1>1 DEF ToDo
  <1>3. WillBe' = map /\ \A j : Pending(j)' <=> Pending(j)
    BY <1>1, <1>2 DEF WillBe, Pending
  <1>4. \A j : WillPend(j)' <=> \/ j = i /\ "tombstone" \in Range(todo)
                                \/ ~(j = i /\ "forget" \in Range(todo)) /\ Pending(j)
    BY <1>2, <1>3 DEF WillPend
  <1>5. ASSUME NEW j \in NoteIds \ cut PROVE Fits(trash', j, WillBe'[j], WillPend(j)')
    <2>1. CASE j = i
      BY <1>3, <1>4, <2>1 DEF Fits
    <2>2. CASE j # i
      <3>1. WillPend(j)' <=> Pending(j)
        BY <1>4, <2>2
      <3> QED
        BY <1>3, <2>2, <3>1 DEF Fits
    <2> QED
      BY <2>1, <2>2
  <1>6. ASSUME NEW j \in NoteIds \ cut, j # i PROVE Fits(trash', j, filemap'[j], Pending(j)')
    BY <1>1, <1>3, <1>6 DEF Fits
  <1> QED
    BY <1>1, <1>2, <1>5, <1>6 DEF TrashInv, Fits, Trashed

\* Between two operations all notes agree that no operation was cut short on.
LEMMA TrashAgrees ==
    ASSUME TrashInv, op = NoOp
    PROVE  \A j \in NoteIds \ cut : Fits(trash, j, filemap[j], Pending(j))
  <1>1. WillBe = filemap /\ (\A j : WillPend(j) <=> Pending(j))
    BY AtRest
  <1> QED
    BY <1>1 DEF TrashInv, Fits

LEMMA TrashCreate ==
    ASSUME NotesTypes, TrashInv, NEW i \in NoteIds, NEW p \in Paths, NEW text,
           CreateNote(i, p, text) \/ CreateAttachment(i, p, text)
    PROVE  TrashInv'
  <1>1. UNCHANGED trash /\ Unknown(i)
    BY DEF CreateNote, CreateAttachment
  <1>2. CASE UNCHANGED <<beside, op, cut, time>>
    BY <1>1, <1>2, TrashSame DEF beside
  <1>3. CASE Begin(i, <<"filemap", "index">>, [filemap EXCEPT ![i] = Made(p)])
    <2> DEFINE map == [filemap EXCEPT ![i] = Made(p)]
    <2>1. op = NoOp /\ \A j \in NoteIds \ cut : Fits(trash, j, filemap[j], Pending(j))
      BY <1>3, TrashAgrees DEF Begin
    <2>2. filemap[i] = NoRecord /\ i \notin cut /\ \A k \in Trashed : k[1] = i => trash[k] = Nothing
      BY <1>1 DEF Unknown
    <2>3. ~Pending(i)
      BY <2>1, <2>2 DEF Fits, NoRecord
    <2>4. map[i] = Made(p) /\ Made(p).status = "active" /\ \A j \in NoteIds \ {i} : map[j] = filemap[j]
      BY DEF NotesTypes, Made
    <2>5. Fits(trash', i, map[i], FALSE)
      BY <1>1, <2>2, <2>4 DEF Fits
    <2>6. Range(<<"filemap", "index">>) = {"filemap", "index"}
      BY Listed2 DEF StepNames
    <2>7. \A j \in NoteIds \ cut : j # i =>
             Fits(trash', j, filemap[j], Pending(j)) /\ Fits(trash', j, map[j], Pending(j))
      BY <1>1, <2>1, <2>4
    <2>8. Fits(trash', i, map[i], \/ "tombstone" \in {"filemap", "index"}
                                  \/ "forget" \notin {"filemap", "index"} /\ Pending(i))
      BY <2>3, <2>5 DEF Fits
    <2> HIDE DEF map
    <2> QED
      BY <1>3, <2>6, <2>7, <2>8, TrashBegun DEF map
  <1> QED
    BY <1>2, <1>3 DEF CreateNote, CreateAttachment

\* An operation on an active note that leaves the trash and its status.
LEMMA TrashActive ==
    ASSUME NotesTypes, TrashInv, NEW i \in NoteIds, NEW todo, NEW map, Begin(i, todo, map),
           UNCHANGED trash, Active(i), map[i].status = "active",
           \A j \in NoteIds \ {i} : map[j] = filemap[j],
           "tombstone" \notin Range(todo), "forget" \notin Range(todo),
           "filemap" \in Range(todo) \/ map = filemap
    PROVE  TrashInv'
  <1>1. \A j \in NoteIds \ cut : Fits(trash, j, filemap[j], Pending(j))
    BY TrashAgrees DEF Begin
  <1>2. \A j \in NoteIds \ cut : j # i =>
           Fits(trash', j, filemap[j], Pending(j)) /\ Fits(trash', j, map[j], Pending(j))
    BY <1>1
  <1>3. i \in NoteIds \ cut => Fits(trash', i, map[i], Pending(i))
    BY <1>1 DEF Fits, Active
  <1>4. i \in NoteIds \ cut => Fits(trash', i, map[i], \/ "tombstone" \in Range(todo)
                                                       \/ "forget" \notin Range(todo) /\ Pending(i))
    BY <1>3 DEF Fits
  <1> QED
    BY <1>2, <1>4, TrashBegun

LEMMA TrashRelocate ==
    ASSUME NotesTypes, TrashInv, NEW i \in NoteIds, NEW p \in Paths,
           RenameNote(i, p) \/ MoveNote(i, p)
    PROVE  TrashInv'
  <1>1. PICK todo \in {<<"filemap", "links", "index">>, <<"filemap", "index">>} : Relocate(i, p, todo)
    BY DEF RenameNote, MoveNote
  <1>2. Active(i) /\ Begin(i, todo, Relocated(i, p)) /\ UNCHANGED trash
    BY <1>1 DEF Relocate, Editable
  <1>3. Relocated(i, p)[i].status = "active" /\ \A j \in NoteIds \ {i} : Relocated(i, p)[j] = filemap[j]
    <2>1. filemap[i] \in Record
      BY <1>2, ActiveRecord
    <2>2. Relocated(i, p) = [filemap EXCEPT ![i] = [[filemap[i] EXCEPT !.path = p] EXCEPT !.stamp = time + 1]]
      BY DEF Relocated, NotesTypes
    <2>3. [[filemap[i] EXCEPT !.path = p] EXCEPT !.stamp = time + 1].status = "active"
      BY <1>2, <2>1 DEF Active, Record
    <2> QED
      BY <2>2, <2>3 DEF NotesTypes
  <1>4. Range(todo) \in {{"filemap", "links", "index"}, {"filemap", "index"}}
    <2>1. Range(<<"filemap", "links", "index">>) = {"filemap", "links", "index"}
      BY Listed3 DEF StepNames
    <2>2. Range(<<"filemap", "index">>) = {"filemap", "index"}
      BY Listed2 DEF StepNames
    <2> QED
      BY <2>1, <2>2
  <1>5. "filemap" \in Range(todo) /\ "tombstone" \notin Range(todo) /\ "forget" \notin Range(todo)
    BY <1>4
  <1> QED
    BY <1>2, <1>3, <1>5, TrashActive

LEMMA TrashSave ==
    ASSUME NotesTypes, TrashInv, NEW i \in NoteIds, NEW text, SaveNote(i, text)
    PROVE  TrashInv'
  <1>1. Begin(i, <<"draft", "index">>, filemap) /\ UNCHANGED trash /\ Active(i)
    BY DEF SaveNote, Editable
  <1>2. Range(<<"draft", "index">>) = {"draft", "index"}
    BY Listed2 DEF StepNames
  <1>3. "tombstone" \notin Range(<<"draft", "index">>) /\ "forget" \notin Range(<<"draft", "index">>)
    BY <1>2
  <1> QED
    BY <1>1, <1>3, TrashActive DEF Active

LEMMA TrashDelete ==
    ASSUME NotesTypes, TrashInv, NEW i \in NoteIds, DeleteNote(i)
    PROVE  TrashInv'
  <1> DEFINE todo == <<"draft", "filemap", "index", "tombstone", "count">>
             new == <<i, time + 1>>
             map == MarkedDeleted(i)
  <1>1. /\ Active(i) /\ Begin(i, todo, map)
        /\ trash' = [trash EXCEPT ![new] = disk[filemap[i].path]]
    BY DEF DeleteNote
  <1>2. \A j \in NoteIds \ cut : Fits(trash, j, filemap[j], Pending(j))
    BY <1>1, TrashAgrees DEF Begin
  <1>3. /\ map[i].status = "deleted" /\ map[i].stamp = time + 1
        /\ \A j \in NoteIds \ {i} : map[j] = filemap[j]
    <2>1. filemap[i] \in Record
      BY <1>1, ActiveRecord
    <2>2. map = [filemap EXCEPT ![i] = [[filemap[i] EXCEPT !.status = "deleted"] EXCEPT !.stamp = time + 1]]
      BY DEF MarkedDeleted, NotesTypes
    <2>3. /\ [[filemap[i] EXCEPT !.status = "deleted"] EXCEPT !.stamp = time + 1].status = "deleted"
          /\ [[filemap[i] EXCEPT !.status = "deleted"] EXCEPT !.stamp = time + 1].stamp = time + 1
      BY <2>1 DEF Record
    <2> QED
      BY <2>2, <2>3 DEF NotesTypes
  <1>4. \A k \in Trashed : k # new => trash'[k] = trash[k]
    BY <1>1 DEF NotesTypes
  <1>5. \A j \in NoteIds \ cut : j # i =>
           Fits(trash', j, filemap[j], Pending(j)) /\ Fits(trash', j, map[j], Pending(j))
    BY <1>2, <1>3, <1>4 DEF Fits
  <1>6. i \in NoteIds \ cut => Fits(trash', i, map[i], TRUE)
    <2>1. ASSUME i \in NoteIds \ cut, NEW k \in Trashed, k[1] = i, trash'[k] # Nothing PROVE k = new
      <3>1. ASSUME k # new PROVE FALSE
        BY <1>1, <1>2, <1>4, <2>1, <3>1 DEF Fits, Active
      <3> QED
        BY <3>1
    <2> QED
      BY <1>3, <2>1 DEF Fits
  <1>7. Range(todo) = {"draft", "filemap", "index", "tombstone", "count"}
    <2>1. /\ "draft" \in StepNames /\ "filemap" \in StepNames /\ "index" \in StepNames
          /\ "tombstone" \in StepNames /\ "count" \in StepNames
      BY DEF StepNames
    <2> QED
      BY <2>1, Listed5
  <1>8. /\ "filemap" \in Range(todo) /\ "tombstone" \in Range(todo) /\ "forget" \notin Range(todo)
    BY <1>7
  <1>9. i \in NoteIds \ cut => Fits(trash', i, map[i], \/ "tombstone" \in Range(todo)
                                                       \/ "forget" \notin Range(todo) /\ Pending(i))
    BY <1>6, <1>8 DEF Fits
  <1> HIDE DEF todo, map
  <1> QED
    BY <1>1, <1>5, <1>8, <1>9, TrashBegun

LEMMA TrashRestore ==
    ASSUME NotesTypes, TrashInv, NEW i \in NoteIds, RestoreNote(i)
    PROVE  TrashInv'
  <1> DEFINE todo == <<"filemap", "index", "forget">>
             old == TrashKey(i)
             map == [filemap EXCEPT ![i].status = "active", ![i].stamp = time + 1]
  <1>1. /\ filemap[i].status = "deleted" /\ Begin(i, todo, map)
        /\ trash' = [trash EXCEPT ![old] = Nothing]
    BY DEF RestoreNote
  <1>2. \A j \in NoteIds \ cut : Fits(trash, j, filemap[j], Pending(j))
    BY <1>1, TrashAgrees DEF Begin
  <1>3. map[i].status = "active" /\ \A j \in NoteIds \ {i} : map[j] = filemap[j]
    <2>1. filemap[i] \in Record
      BY <1>1, ActiveRecord
    <2>2. map = [filemap EXCEPT ![i] = [[filemap[i] EXCEPT !.status = "active"] EXCEPT !.stamp = time + 1]]
      BY DEF NotesTypes
    <2>3. [[filemap[i] EXCEPT !.status = "active"] EXCEPT !.stamp = time + 1].status = "active"
      BY <2>1 DEF Record
    <2> QED
      BY <2>2, <2>3 DEF NotesTypes
  <1>4. old = <<i, filemap[i].stamp>> /\ old \in Trashed /\ trash'[old] = Nothing
        /\ \A k \in Trashed : k # old => trash'[k] = trash[k]
    BY <1>1, ActiveRecord DEF NotesTypes, TrashKey
  <1>5. \A j \in NoteIds \ cut : j # i =>
           Fits(trash', j, filemap[j], Pending(j)) /\ Fits(trash', j, map[j], Pending(j))
    <2> SUFFICES ASSUME NEW j \in NoteIds \ cut, j # i
                 PROVE  Fits(trash', j, filemap[j], Pending(j)) /\ Fits(trash', j, map[j], Pending(j))
      OBVIOUS
    <2>1. \A k \in Trashed : k[1] = j => trash'[k] = trash[k]
      BY <1>4
    <2>2. Fits(trash', j, filemap[j], Pending(j))
      BY <1>2, <2>1 DEF Fits
    <2>3. map[j] = filemap[j]
      BY <1>3
    <2> HIDE DEF map
    <2> QED
      BY <2>2, <2>3
  <1>6. i \in NoteIds \ cut => Fits(trash', i, map[i], FALSE)
    <2>1. ASSUME i \in NoteIds \ cut, NEW k \in Trashed, k[1] = i, trash'[k] # Nothing PROVE FALSE
      <3>1. k # old
        BY <1>4, <2>1
      <3>2. trash[k] # Nothing
        BY <1>4, <2>1, <3>1
      <3> QED
        BY <1>2, <1>4, <2>1, <3>1, <3>2 DEF Fits
    <2> QED
      BY <1>3, <2>1 DEF Fits
  <1>7. Range(todo) = {"filemap", "index", "forget"}
    BY Listed3 DEF StepNames
  <1>8. /\ "filemap" \in Range(todo) /\ "tombstone" \notin Range(todo) /\ "forget" \in Range(todo)
    BY <1>7
  <1>9. i \in NoteIds \ cut => Fits(trash', i, map[i], \/ "tombstone" \in Range(todo)
                                                       \/ "forget" \notin Range(todo) /\ Pending(i))
    BY <1>6, <1>8 DEF Fits
  <1> HIDE DEF todo, map
  <1> QED
    BY <1>1, <1>5, <1>8, <1>9, TrashBegun

LEMMA TrashPurge ==
    ASSUME NotesTypes, TrashInv, NEW ids \in SUBSET NoteIds, PurgeNotes(ids)
    PROVE  TrashInv'
  <1> DEFINE map == PurgedMap(ids)
  <1>1. /\ \A i \in ids : filemap[i].status = "deleted"
        /\ trash' = [k \in Trashed |-> IF k[1] \in ids /\ k = TrashKey(k[1]) THEN Nothing ELSE trash[k]]
        /\ Begin(Nothing, <<"filemap">>, map)
    BY DEF PurgeNotes, PurgedMap
  <1>2. \A j \in NoteIds \ cut : Fits(trash, j, filemap[j], Pending(j))
    BY <1>1, TrashAgrees DEF Begin
  <1>3. \A j \in NoteIds : map[j].status = filemap[j].status /\ map[j].stamp = filemap[j].stamp
    <2>1. ASSUME NEW j \in ids
          PROVE  /\ [filemap[j] EXCEPT !.purged = TRUE].status = filemap[j].status
                 /\ [filemap[j] EXCEPT !.purged = TRUE].stamp = filemap[j].stamp
      BY <1>1, ActiveRecord DEF Record
    <2> QED
      BY <2>1 DEF PurgedMap
  <1>4. \A k \in Trashed : trash'[k] = Nothing \/ trash'[k] = trash[k]
    BY <1>1
  <1>5. \A j \in NoteIds \ cut :
           Fits(trash', j, filemap[j], Pending(j)) /\ Fits(trash', j, map[j], Pending(j))
    <2>1. ASSUME NEW j \in NoteIds \ cut PROVE Fits(trash', j, filemap[j], Pending(j))
      BY <1>2, <1>4 DEF Fits
    <2>2. ASSUME NEW j \in NoteIds \ cut PROVE Fits(trash', j, map[j], Pending(j))
      <3> HIDE DEF map
      <3> QED
        BY <1>3, <2>1 DEF Fits
    <2> QED
      BY <2>1, <2>2
  <1>6. Range(<<"filemap">>) = {"filemap"}
    BY Listed1 DEF StepNames
  <1>7. "filemap" \in Range(<<"filemap">>) /\ ~({"tombstone", "forget"} \subseteq Range(<<"filemap">>))
    BY <1>6
  <1> HIDE DEF map
  <1> QED
    BY <1>1, <1>5, <1>7, NothingIsNoNote, TrashBegun

LEMMA TrashImport == ASSUME NotesTypes, TrashInv, Import PROVE TrashInv'
  <1> DEFINE paths == IF Replaces THEN Present ELSE {p \in Present : ~Occupied(p, Nothing)}
             map(ids, new) == [i \in NoteIds |-> IF i \in ids THEN Made(new[i])
                                                 ELSE IF Replaces THEN NoRecord ELSE filemap[i]]
  <1>0. PICK ids \in SUBSET NoteIds : \E new \in [ids -> paths] :
            /\ FreshFor(paths, new) /\ UNCHANGED <<disk, trash>>
            /\ Begin(Nothing, <<"filemap", "rebuild">>, map(ids, new))
    BY DEF Import
  <1>1. PICK new \in [ids -> paths] :
            /\ FreshFor(paths, new) /\ UNCHANGED <<disk, trash>>
            /\ Begin(Nothing, <<"filemap", "rebuild">>, map(ids, new))
    BY <1>0
  <1>2. \A j \in NoteIds \ cut : Fits(trash, j, filemap[j], Pending(j))
    BY <1>1, TrashAgrees DEF Begin
  <1>3. ASSUME NEW j \in NoteIds \ cut PROVE Fits(trash, j, map(ids, new)[j], Pending(j))
    <2>1. CASE j \in ids
      <3>1. Unknown(j)
        BY <1>1, <2>1 DEF FreshFor
      <3>2. filemap[j] = NoRecord /\ \A k \in Trashed : k[1] = j => trash[k] = Nothing
        BY <3>1 DEF Unknown
      <3>3. ~Pending(j)
        BY <1>2, <3>2 DEF Fits, NoRecord
      <3>4. map(ids, new)[j].status = "active"
        BY <2>1 DEF Made
      <3> HIDE DEF map
      <3> QED
        BY <3>2, <3>3, <3>4 DEF Fits
    <2>2. CASE j \notin ids /\ Replaces
      <3>1. filemap[j].status # "deleted"
        BY <2>2 DEF Replaces, NeverSynced, Active, NoRecord
      <3>2. map(ids, new)[j] = NoRecord
        BY <2>2
      <3>3. NoRecord.status # "deleted"
        BY DEF NoRecord
      <3> HIDE DEF map
      <3> QED
        BY <1>2, <3>1, <3>2, <3>3 DEF Fits
    <2>3. CASE j \notin ids /\ ~Replaces
      <3>1. map(ids, new)[j] = filemap[j]
        BY <2>3
      <3> HIDE DEF map
      <3> QED
        BY <1>2, <3>1
    <2> QED
      BY <2>1, <2>2, <2>3
  <1>4. Range(<<"filemap", "rebuild">>) = {"filemap", "rebuild"}
    BY Listed2 DEF StepNames
  <1>5. /\ "filemap" \in Range(<<"filemap", "rebuild">>)
        /\ ~({"tombstone", "forget"} \subseteq Range(<<"filemap", "rebuild">>))
    BY <1>4
  <1>6. \A j \in NoteIds \ cut : Fits(trash', j, filemap[j], Pending(j))
                                 /\ Fits(trash', j, map(ids, new)[j], Pending(j))
    BY <1>1, <1>2, <1>3
  <1> HIDE DEF map
  <1> QED
    BY <1>1, <1>5, <1>6, NothingIsNoNote, TrashBegun

LEMMA TrashNextStep == ASSUME NotesTypes, TrashInv, NextStep PROVE TrashInv'
  <1> DEFINE head == Head(op.todo)
             rest == Range(op'.todo)
  <1>1. /\ op # NoOp /\ ToDo = {head} \cup rest /\ ToDo' = rest
        /\ op' = NoOp \/ (op'.id = op.id /\ op'.filemap = op.filemap)
        /\ op' = NoOp => rest = {}
    <2>1. op' = NoOp => ToDo' = {}
      BY DEF NoOp, ToDo, Range
    <2> QED
      BY <2>1, StepTaken DEF ToDo
  <1>2. UNCHANGED <<trash, cut>>
    BY DEF NextStep
  <1>3. ~({"tombstone", "forget"} \subseteq rest)
    BY <1>1 DEF TrashInv
  <1> HIDE DEF head, rest
  <1>4. WillBe' = WillBe
    <2>1. CASE head = "filemap" /\ filemap' = op.filemap
      BY <1>1, <2>1 DEF WillBe
    <2>2. CASE head # "filemap" /\ filemap' = filemap
      BY <1>1, <2>2 DEF WillBe
    <2> QED
      BY <2>1, <2>2 DEF NextStep, Does, WriteFilemap, ClearDraft, UpsertIndex, RebuildIndex,
         RewriteLinks, AppendTombstone, ForgetTombstones, CountDelete, head
  <1>5. /\ \A j \in NoteIds : j # op.id => (Pending(j)' <=> Pending(j))
        /\ \A j \in NoteIds : WillPend(j)' <=> WillPend(j)
    <2>1. CASE head = "tombstone" /\ AppendTombstone
      <3>1. ledger' = ledger \cup {<<op.id, deletes + 1>>}
        BY <2>1 DEF AppendTombstone
      <3>2. ASSUME NEW j PROVE Pending(j)' <=> Pending(j) \/ j = op.id
        <4>1. <<op.id, deletes + 1>>[1] = op.id
          OBVIOUS
        <4>2. Pending(j)' <=> \E t \in ledger \cup {<<op.id, deletes + 1>>} : t[1] = j
          BY <3>1 DEF Pending
        <4> QED
          BY <4>1, <4>2 DEF Pending
      <3>3. "forget" \notin ToDo
        BY <1>1, <2>1 DEF TrashInv
      <3> QED
        BY <1>1, <2>1, <3>2, <3>3 DEF WillPend
    <2>2. CASE head = "forget" /\ ForgetTombstones
      <3>1. ledger' = {t \in ledger : t[1] # op.id}
        BY <2>2 DEF ForgetTombstones, Kept
      <3>2. \A j : Pending(j)' <=> Pending(j) /\ j # op.id
        BY <3>1 DEF Pending
      <3>3. "tombstone" \notin ToDo
        BY <1>1, <2>2 DEF TrashInv
      <3> QED
        BY <1>1, <2>2, <3>2, <3>3 DEF WillPend
    <2>3. CASE head \notin {"tombstone", "forget"} /\ ledger' = ledger
      <3>1. \A j : Pending(j)' <=> Pending(j)
        BY <2>3 DEF Pending
      <3> QED
        BY <1>1, <2>3, <3>1 DEF WillPend
    <2> QED
      BY <2>1, <2>2, <2>3 DEF NextStep, Does, WriteFilemap, ClearDraft, UpsertIndex, RebuildIndex,
         RewriteLinks, AppendTombstone, ForgetTombstones, CountDelete, head
  <1>6. ASSUME NEW j \in NoteIds \ cut, j # op.id PROVE Fits(trash, j, filemap'[j], Pending(j)')
    <2>1. filemap' = filemap \/ (filemap' = op.filemap /\ "filemap" \in ToDo)
      <3>1. filemap' = filemap \/ (filemap' = op.filemap /\ head = "filemap")
        BY DEF NextStep, Does, WriteFilemap, ClearDraft, UpsertIndex, RebuildIndex,
               RewriteLinks, AppendTombstone, ForgetTombstones, CountDelete, head
      <3> QED
        BY <1>1, <3>1
    <2>2. Fits(trash, j, filemap[j], Pending(j))
      BY <1>1, <1>6 DEF TrashInv
    <2>3. "filemap" \in ToDo => Fits(trash, j, op.filemap[j], Pending(j))
      <3>1. WillPend(j) <=> Pending(j)
        BY <1>6 DEF WillPend
      <3> QED
        BY <1>6, <3>1 DEF TrashInv, WillBe, Fits
    <2>4. Pending(j)' <=> Pending(j)
      BY <1>5, <1>6
    <2>5. Fits(trash, j, filemap'[j], Pending(j))
      BY <2>1, <2>2, <2>3
    <2> QED
      BY <2>4, <2>5 DEF Fits
  <1>7. ASSUME NEW j \in NoteIds \ cut PROVE Fits(trash, j, WillBe'[j], WillPend(j)')
    BY <1>4, <1>5 DEF TrashInv, Fits
  <1> QED
    BY <1>1, <1>2, <1>3, <1>6, <1>7 DEF TrashInv, Fits, Trashed, NoOp

LEMMA TrashCrash == ASSUME TrashInv, Crash PROVE TrashInv'
  <1>1. /\ op # NoOp /\ op' = NoOp /\ UNCHANGED <<trash, filemap, ledger>>
        /\ \A j \in NoteIds \ cut' : j \in NoteIds \ cut /\ j # op.id
    BY NothingIsNoNote DEF Crash, beside
  <1>2. ToDo' = {}
    BY <1>1 DEF NoOp, ToDo, Range
  <1>3. WillBe' = filemap /\ \A j : (WillPend(j)' <=> Pending(j)) /\ (Pending(j)' <=> Pending(j))
    BY <1>1, <1>2 DEF WillBe, WillPend, Pending
  <1>4. ASSUME NEW j \in NoteIds \ cut' PROVE Fits(trash', j, WillBe'[j], WillPend(j)')
    <2>1. Fits(trash, j, filemap[j], Pending(j))
      BY <1>1 DEF TrashInv
    <2> QED
      BY <1>1, <1>3, <2>1 DEF Fits
  <1> QED
    BY <1>1, <1>2, <1>4 DEF TrashInv, Fits, Trashed, NoOp

LEMMA TrashStep == NotesTypes /\ TrashInv /\ [NNext]_nvars => TrashInv'
  <1> SUFFICES ASSUME NotesTypes, TrashInv, [NNext]_nvars PROVE TrashInv'
    OBVIOUS
  <1>1. CASE Operation
    <2>1. ASSUME NEW i \in NoteIds, WriteDraft(i) \/ DiscardDraft(i) PROVE TrashInv'
      BY <2>1, TrashSame DEF WriteDraft, DiscardDraft
    <2>2. ASSUME NEW i \in NoteIds, NEW p \in Paths, NEW t \in Texts,
                 CreateNote(i, p, t) \/ CreateAttachment(i, p, t)
          PROVE  TrashInv'
      BY <2>2, TrashCreate
    <2>3. ASSUME NEW i \in NoteIds, NEW p \in Paths, RenameNote(i, p) \/ MoveNote(i, p)
          PROVE  TrashInv'
      BY <2>3, TrashRelocate
    <2>4. ASSUME NEW i \in NoteIds, DeleteNote(i) \/ RestoreNote(i) PROVE TrashInv'
      BY <2>4, TrashDelete, TrashRestore
    <2> QED
      BY <1>1, <2>1, <2>2, <2>3, <2>4, TrashImport DEF Operation
  <1>2. CASE Overwriting
    <2>1. ASSUME NEW p \in Paths, NEW b, UserEdit(p, b) PROVE TrashInv'
      BY <2>1, TrashSame DEF UserEdit, beside
    <2>2. ASSUME NEW i \in NoteIds, PurgeNotes({i}) PROVE TrashInv'
      BY <2>2, TrashPurge
    <2>3. CASE PurgeNotes(Unpurged)
      <3>1. Unpurged \in SUBSET NoteIds
        BY DEF Unpurged
      <3> QED
        BY <2>3, <3>1, TrashPurge
    <2> QED
      BY <1>2, <2>1, <2>2, <2>3, TrashSave DEF Overwriting
  <1>3. CASE UNCHANGED nvars
    BY <1>3, TrashSame DEF nvars
  <1> QED
    BY <1>1, <1>2, <1>3, TrashNextStep, TrashCrash DEF NNext

\* What is in the trash can be restored, and a deletion waits to be committed exactly
\* for the notes that are deleted, after any operations, finished or cut short.
THEOREM TrashCanBeRestored == NSpec => []TrashStaysReachable
  <1>1. NInit => TrashInv
    <2> SUFFICES ASSUME NInit PROVE TrashInv
      OBVIOUS
    <2>1. /\ op = NoOp /\ ledger = {} /\ \A k \in Trashed : trash[k] = Nothing
      BY DEF NInit
    <2>2. \A i \in NoteIds : filemap[i].status # "deleted"
      <3> DEFINE kept == {[path |-> p, status |-> "active", stamp |-> 0, synced |-> TRUE,
                           purged |-> FALSE] : p \in Paths}
      <3>1. \A r \in {NoRecord} \cup kept : r.status # "deleted"
        BY DEF NoRecord
      <3>2. filemap \in [NoteIds -> {NoRecord} \cup kept]
        BY DEF NInit
      <3> HIDE DEF kept
      <3> QED
        BY <3>1, <3>2
    <2>3. \A i \in NoteIds : Fits(trash, i, filemap[i], Pending(i))
      BY <2>1, <2>2 DEF Fits, Pending
    <2>4. ToDo = {} /\ WillBe = filemap /\ (\A i : WillPend(i) <=> Pending(i))
      BY <2>1, AtRest
    <2> QED
      BY <2>1, <2>3, <2>4 DEF TrashInv, Fits
  <1>2. TrashInv => TrashStaysReachable
    <2> SUFFICES ASSUME TrashInv, op = NoOp, NEW i \in NoteIds \ cut
                 PROVE  /\ \A k \in Trashed : k[1] = i /\ trash[k] # Nothing =>
                               filemap[i].status = "deleted" /\ k = TrashKey(i)
                        /\ filemap[i].status = "deleted" <=> \E t \in ledger : t[1] = i
      BY DEF TrashStaysReachable
    <2>1. Fits(trash, i, filemap[i], Pending(i))
      BY TrashAgrees
    <2> QED
      BY <2>1 DEF Fits, Pending, TrashKey
  <1>3. NotesTypes /\ TrashInv /\ [NNext]_nvars => NotesTypes' /\ TrashInv'
    BY NotesStep, TrashStep
  <1> QED
    BY <1>1, <1>2, <1>3, NotesTypesInit, PTL DEF NSpec

-----------------------------------------------------------------------------
(* Notes: what the folder, the trash and the tables hold                   *)

Found == Bytes \cup {Nothing}
Entry == (Paths \X Bytes) \cup {Nothing}

\* A deletion is written down before it is counted, counted last, and no more are
\* counted than operations were begun.
DeletesAreCounted ==
    /\ deletes \in 0 .. time
    /\ ledger \subseteq NoteIds \X (1 .. MaxOperations)
    /\ \A k \in DOMAIN op.todo :
          /\ op.todo[k] \in {"tombstone", "count"} => op.id \in NoteIds /\ deletes < time
          /\ op.todo[k] = "count" => k = Len(op.todo)

NotesValues ==
    /\ disk \in [Paths -> Found]
    /\ trash \in [Trashed -> Found]
    /\ drafts \subseteq NoteIds
    /\ index \in [NoteIds -> Entry]
    /\ cut \subseteq NoteIds
    /\ DeletesAreCounted

LEMMA NotesAreTyped == NotesTypes /\ NotesValues => NTypeOK
  <1> SUFFICES ASSUME NotesTypes, NotesValues PROVE NTypeOK
    OBVIOUS
  <1>1. op.id \in NoteIds \cup {Nothing} /\ op.todo \in Seq(StepNames)
    <2>1. NoOp.id = Nothing /\ NoOp.todo = <<>>
      BY DEF NoOp
    <2>2. <<>> \in Seq(StepNames)
      OBVIOUS
    <2> QED
      BY <2>1, <2>2 DEF NotesTypes
  <1>2. deletes \in 0 .. MaxOperations
    BY OperationsAreNat DEF NotesTypes, NotesValues, DeletesAreCounted
  <1> QED
    BY <1>1, <1>2 DEF NotesTypes, NotesValues, DeletesAreCounted, Found, Entry, Records, NTypeOK

LEMMA NotesValuesInit == NInit => NotesValues
  <1> SUFFICES ASSUME NInit PROVE NotesValues
    OBVIOUS
  <1>1. (CHOOSE b \in Edits : TRUE) \in Edits
    BY EditsAreSome
  <1>2. op.todo = <<>> /\ DOMAIN <<>> = {}
    BY DEF NInit, NoOp
  <1>3. disk \in [Paths -> Found]
    BY <1>1 DEF NInit, Found, Bytes
  <1> QED
    BY <1>2, <1>3, OperationsAreNat DEF NInit, NotesValues, DeletesAreCounted, Found, Entry

Uncounting(todo) == \A k \in DOMAIN todo : todo[k] \notin {"tombstone", "count"}

LEMMA ListsCount ==
    /\ Uncounting(<<"filemap">>) /\ Uncounting(<<"filemap", "index">>)
    /\ Uncounting(<<"draft", "index">>) /\ Uncounting(<<"filemap", "rebuild">>)
    /\ Uncounting(<<"filemap", "links", "index">>)
    /\ Uncounting(<<"filemap", "index", "forget">>)
  BY DEF Uncounting

\* An operation that begins leaves the tables, and counts a deletion at most last.
LEMMA BegunValues ==
    ASSUME NotesTypes, NotesValues, NEW i, NEW todo, NEW map, Begin(i, todo, map),
           disk' \in [Paths -> Found], trash' \in [Trashed -> Found],
           \/ Uncounting(todo)
           \/ i \in NoteIds /\ \A k \in DOMAIN todo : todo[k] = "count" => k = Len(todo)
    PROVE  NotesValues'
  <1>1. /\ UNCHANGED <<filemap, drafts, ledger, deletes, index, cut>> /\ time' = time + 1
        /\ op'.todo = todo /\ op'.id = i
    BY DEF Begin, beside
  <1>2. time \in Nat /\ deletes \in Nat /\ deletes <= time
    BY OperationsAreNat DEF NotesTypes, NotesValues, DeletesAreCounted
  <1>3. DeletesAreCounted'
    BY <1>1, <1>2 DEF NotesValues, DeletesAreCounted, Uncounting
  <1> QED
    BY <1>1, <1>3 DEF NotesValues, Found, Entry, Trashed, Bytes

LEMMA IndexedTypes ==
    ASSUME NotesValues, NEW i, NEW record \in Records PROVE Indexed(i, record) \in Entry
  BY DEF NotesValues, Indexed, OnDisk, Found, Entry, Records, Record, NoRecord

LEMMA ValuesNextStep ==
    ASSUME NotesTypes, NotesValues, NextStep PROVE NotesValues'
  <1>1. /\ op.todo \in Seq(StepNames) /\ op.todo # <<>>
        /\ op.id \in NoteIds \cup {Nothing}
        /\ op.filemap \in [NoteIds -> Records]
        /\ op' = NoOp \/ op' = [todo |-> Tail(op.todo), id |-> op.id, filemap |-> op.filemap]
        /\ op'.todo = Tail(op.todo) /\ op'.todo \in Seq(StepNames)
    BY StepTaken
  <1>2. /\ Len(op.todo) \in Nat \ {0} /\ Len(op'.todo) = Len(op.todo) - 1
        /\ Head(op.todo) = op.todo[1]
        /\ \A j \in 1 .. (Len(op.todo) - 1) : op'.todo[j] = op.todo[j + 1]
        /\ DOMAIN op.todo = 1 .. Len(op.todo) /\ DOMAIN op'.todo = 1 .. (Len(op.todo) - 1)
    BY <1>1, HeadTailProperties, LenProperties, EmptySeq
  <1>3. op'.id = op.id \/ op'.todo = <<>>
    <2>1. NoOp.todo = <<>>
      BY DEF NoOp
    <2>2. [todo |-> Tail(op.todo), id |-> op.id, filemap |-> op.filemap].id = op.id
      OBVIOUS
    <2>3. op' = NoOp \/ op' = [todo |-> Tail(op.todo), id |-> op.id, filemap |-> op.filemap]
      BY StepTaken
    <2> QED
      BY <2>1, <2>2, <2>3
  <1>4. UNCHANGED <<disk, trash, cut, time>> /\ time \in Nat /\ time <= MaxOperations
    BY OperationsAreNat DEF NextStep, NotesTypes
  <1>5. filemap \in [NoteIds -> Records]
    BY DEF NotesTypes
  <1>6. ASSUME NEW k \in DOMAIN op'.todo
        PROVE  /\ op'.todo[k] \in {"tombstone", "count"} => op'.id \in NoteIds /\ deletes < time
               /\ op'.todo[k] = "count" => k = Len(op'.todo)
    <2>1. k + 1 \in DOMAIN op.todo /\ op'.todo[k] = op.todo[k + 1] /\ k \in Nat
      BY <1>2
    <2>2. op'.id = op.id
      <3>1. DOMAIN <<>> = {}
        OBVIOUS
      <3> QED
        BY <1>3, <3>1
    <2> QED
      BY <1>2, <2>1, <2>2 DEF NotesValues, DeletesAreCounted
  <1>7. deletes' \in 0 .. time /\ ledger' \subseteq NoteIds \X (1 .. MaxOperations)
        /\ (deletes' = deletes \/ op'.todo = <<>>)
    <2>1. 1 \in DOMAIN op.todo /\ deletes \in 0 .. time /\ ledger \subseteq NoteIds \X (1 .. MaxOperations)
      BY <1>2 DEF NotesValues, DeletesAreCounted
    <2>2. CASE AppendTombstone
      <3>1. op.todo[1] = "tombstone" /\ ledger' = ledger \cup {<<op.id, deletes + 1>>} /\ deletes' = deletes
        BY <1>2, <2>2 DEF AppendTombstone, Does
      <3>2. op.id \in NoteIds /\ deletes < time
        BY <2>1, <3>1 DEF NotesValues, DeletesAreCounted
      <3>3. <<op.id, deletes + 1>> \in NoteIds \X (1 .. MaxOperations)
        BY <1>4, <2>1, <3>2, OperationsAreNat
      <3> QED
        BY <2>1, <3>1, <3>3
    <2>3. CASE CountDelete
      <3>1. op.todo[1] = "count" /\ deletes' = deletes + 1 /\ ledger' = ledger
        BY <1>2, <2>3 DEF CountDelete, Does
      <3>2. deletes < time /\ 1 = Len(op.todo)
        BY <2>1, <3>1 DEF NotesValues, DeletesAreCounted
      <3>3. op'.todo = <<>>
        <4> DEFINE rest == op'.todo
        <4>1. rest \in Seq(StepNames) /\ Len(rest) = 0
          BY <1>1, <1>2, <3>2
        <4> HIDE DEF rest
        <4>2. rest = <<>>
          BY <4>1, EmptySeq
        <4> QED
          BY <4>2 DEF rest
      <3> QED
        BY <1>4, <2>1, <3>1, <3>2, <3>3
    <2>4. CASE ForgetTombstones
      BY <2>1, <2>4 DEF ForgetTombstones, Kept
    <2>5. CASE WriteFilemap \/ ClearDraft \/ UpsertIndex \/ RebuildIndex \/ RewriteLinks
      BY <2>1, <2>5 DEF WriteFilemap, ClearDraft, UpsertIndex, RebuildIndex, RewriteLinks
    <2> QED
      BY <2>2, <2>3, <2>4, <2>5 DEF NextStep
  <1>8. DeletesAreCounted'
    <2>1. DOMAIN <<>> = {}
      OBVIOUS
    <2> QED
      BY <1>4, <1>6, <1>7, <2>1 DEF DeletesAreCounted
  <1>9. drafts' \subseteq NoteIds /\ index' \in [NoteIds -> Entry]
    <2>1. drafts \subseteq NoteIds /\ index \in [NoteIds -> Entry]
      BY DEF NotesValues
    <2>2. CASE ClearDraft
      BY <2>1, <2>2 DEF ClearDraft
    <2>3. CASE UpsertIndex
      <3>1. op.id \in NoteIds => Indexed(op.id, op.filemap[op.id]) \in Entry
        BY <1>1, IndexedTypes
      <3> QED
        BY <2>1, <2>3, <3>1 DEF UpsertIndex
    <2>4. CASE RebuildIndex
      BY <1>5, <2>1, <2>4, IndexedTypes DEF RebuildIndex
    <2>5. CASE RewriteLinks
      BY <1>5, <2>1, <2>5, IndexedTypes DEF RewriteLinks
    <2>6. CASE WriteFilemap \/ AppendTombstone \/ ForgetTombstones \/ CountDelete
      BY <2>1, <2>6 DEF WriteFilemap, AppendTombstone, ForgetTombstones, CountDelete
    <2> QED
      BY <2>2, <2>3, <2>4, <2>5, <2>6 DEF NextStep
  <1> QED
    BY <1>4, <1>8, <1>9 DEF NotesValues, Found, Entry, Trashed, Bytes

LEMMA NotesValuesStep == NotesTypes /\ NotesValues /\ [NNext]_nvars => NotesValues'
  <1> SUFFICES ASSUME NotesTypes, NotesValues, [NNext]_nvars PROVE NotesValues'
    OBVIOUS
  <1>0. /\ disk \in [Paths -> Found] /\ trash \in [Trashed -> Found]
        /\ drafts \subseteq NoteIds /\ cut \subseteq NoteIds /\ index \in [NoteIds -> Entry]
        /\ DeletesAreCounted
    BY DEF NotesValues
  <1>1. \A p \in Paths : disk[p] \in Found
    BY <1>0
  <1>2. ASSUME UNCHANGED <<ledger, deletes, index, time>>, op' = op \/ op' = NoOp,
               disk' \in [Paths -> Found], trash' \in [Trashed -> Found],
               drafts' \subseteq NoteIds, cut' \subseteq NoteIds
        PROVE  NotesValues'
    <2>1. op'.todo = <<>> \/ op' = op
      BY <1>2 DEF NoOp
    <2>2. DOMAIN <<>> = {}
      OBVIOUS
    <2>3. DeletesAreCounted'
      BY <1>0, <1>2, <2>1, <2>2 DEF DeletesAreCounted
    <2> QED
      BY <1>0, <1>2, <2>3 DEF NotesValues, Found, Entry, Trashed, Bytes
  <1>3. ASSUME NEW i \in NoteIds, WriteDraft(i) \/ DiscardDraft(i) PROVE NotesValues'
    BY <1>0, <1>2, <1>3 DEF WriteDraft, DiscardDraft
  <1>4. ASSUME NEW i \in NoteIds, NEW p \in Paths, NEW text \in Texts,
               CreateNote(i, p, text) \/ CreateAttachment(i, p, text)
        PROVE  NotesValues'
    <2>1. disk' = [disk EXCEPT ![p] = text] /\ UNCHANGED trash /\ text \in Found
      BY <1>4 DEF CreateNote, CreateAttachment, Found, Bytes
    <2>2. disk' \in [Paths -> Found] /\ trash' \in [Trashed -> Found]
      BY <1>0, <2>1
    <2>3. CASE UNCHANGED <<beside, op, cut, time>>
      BY <1>0, <1>2, <2>2, <2>3 DEF beside
    <2>4. CASE Begin(i, <<"filemap", "index">>, [filemap EXCEPT ![i] = Made(p)])
      BY <2>2, <2>4, BegunValues, ListsCount
    <2> QED
      BY <1>4, <2>3, <2>4 DEF CreateNote, CreateAttachment
  <1>5. ASSUME NEW i \in NoteIds, NEW p \in Paths, RenameNote(i, p) \/ MoveNote(i, p)
        PROVE  NotesValues'
    <2>1. PICK todo \in {<<"filemap", "links", "index">>, <<"filemap", "index">>} : Relocate(i, p, todo)
      BY <1>5 DEF RenameNote, MoveNote
    <2>2. /\ Active(i) /\ UNCHANGED trash /\ Begin(i, todo, Relocated(i, p))
          /\ disk' = [[disk EXCEPT ![filemap[i].path] = Nothing] EXCEPT ![p] = disk[filemap[i].path]]
      BY <2>1 DEF Relocate, Editable
    <2>3. disk[filemap[i].path] \in Found
      BY <1>1, <2>2, ActiveRecord
    <2>4. disk' \in [Paths -> Found] /\ trash' \in [Trashed -> Found]
      BY <1>0, <2>2, <2>3 DEF Found
    <2> QED
      BY <2>1, <2>2, <2>4, BegunValues, ListsCount
  <1>6. ASSUME NEW i \in NoteIds, DeleteNote(i) PROVE NotesValues'
    <2> DEFINE todo == <<"draft", "filemap", "index", "tombstone", "count">>
    <2>1. /\ Active(i) /\ Begin(i, todo, MarkedDeleted(i))
          /\ disk' = [disk EXCEPT ![filemap[i].path] = Nothing]
          /\ trash' = [trash EXCEPT ![<<i, time + 1>>] = disk[filemap[i].path]]
      BY <1>6 DEF DeleteNote
    <2>2. disk[filemap[i].path] \in Found
      BY <1>1, <2>1, ActiveRecord
    <2>3. disk' \in [Paths -> Found] /\ trash' \in [Trashed -> Found]
      BY <1>0, <2>1, <2>2 DEF Found
    <2>4. \A k \in DOMAIN todo : todo[k] = "count" => k = Len(todo)
      OBVIOUS
    <2> HIDE DEF todo
    <2> QED
      BY <2>1, <2>3, <2>4, BegunValues
  <1>7. ASSUME NEW i \in NoteIds, RestoreNote(i) PROVE NotesValues'
    <2> DEFINE map == [filemap EXCEPT ![i].status = "active", ![i].stamp = time + 1]
    <2>1. /\ filemap[i].status = "deleted"
          /\ disk' = [disk EXCEPT ![filemap[i].path] = trash[TrashKey(i)]]
          /\ trash' = [trash EXCEPT ![TrashKey(i)] = Nothing]
          /\ Begin(i, <<"filemap", "index", "forget">>, map)
      BY <1>7 DEF RestoreNote
    <2> HIDE DEF map
    <2>2. trash[TrashKey(i)] \in Found
      BY <1>0, <2>1, ActiveRecord
    <2>3. disk' \in [Paths -> Found] /\ trash' \in [Trashed -> Found]
      BY <1>0, <2>1, <2>2 DEF Found
    <2> QED
      BY <2>1, <2>3, BegunValues, ListsCount
  <1>8. CASE Import
    <2>1. PICK map : Begin(Nothing, <<"filemap", "rebuild">>, map) /\ UNCHANGED <<disk, trash>>
      BY <1>8 DEF Import
    <2>2. disk' \in [Paths -> Found] /\ trash' \in [Trashed -> Found]
      BY <1>0, <2>1
    <2> QED
      BY <2>1, <2>2, BegunValues, ListsCount
  <1>9. ASSUME NEW i \in NoteIds, NEW text \in Texts, SaveNote(i, text) PROVE NotesValues'
    <2>1. /\ disk' = [disk EXCEPT ![filemap[i].path] = text] /\ UNCHANGED trash
          /\ Begin(i, <<"draft", "index">>, filemap) /\ text \in Found
      BY <1>9 DEF SaveNote, Found, Bytes
    <2>2. disk' \in [Paths -> Found] /\ trash' \in [Trashed -> Found]
      BY <1>0, <2>1
    <2> QED
      BY <2>1, <2>2, BegunValues, ListsCount
  <1>10. ASSUME NEW p \in Paths, NEW b \in Edits \cup {Nothing}, UserEdit(p, b) PROVE NotesValues'
    <2>1. disk' = [disk EXCEPT ![p] = b] /\ UNCHANGED <<trash, ledger, deletes, index, drafts, op, cut, time>>
      BY <1>10 DEF UserEdit, beside
    <2>2. disk' \in [Paths -> Found]
      BY <1>0, <2>1 DEF Found, Bytes
    <2> QED
      BY <1>0, <1>2, <2>1, <2>2
  <1>11. ASSUME NEW ids, PurgeNotes(ids) PROVE NotesValues'
    <2>1. /\ trash' = [k \in Trashed |-> IF k[1] \in ids /\ k = TrashKey(k[1]) THEN Nothing ELSE trash[k]]
          /\ Begin(Nothing, <<"filemap">>, PurgedMap(ids))
          /\ UNCHANGED disk
      BY <1>11 DEF PurgeNotes, PurgedMap
    <2>2. disk' \in [Paths -> Found] /\ trash' \in [Trashed -> Found]
      BY <1>0, <2>1 DEF Found
    <2> QED
      BY <2>1, <2>2, BegunValues, ListsCount
  <1>12. CASE Crash
    <2>1. op # NoOp => op.id \in NoteIds \cup {Nothing}
      BY DEF NotesTypes
    <2>2. UNCHANGED <<disk, trash, drafts, ledger, deletes, index, time>> /\ op' = NoOp /\ cut' \subseteq NoteIds
      BY <1>0, <1>12, <2>1 DEF Crash, beside
    <2> QED
      BY <1>0, <1>2, <2>2
  <1>13. CASE UNCHANGED nvars
    BY <1>0, <1>2, <1>13 DEF nvars
  <1> QED
    BY <1>3, <1>4, <1>5, <1>6, <1>7, <1>8, <1>9, <1>10, <1>11, <1>12, <1>13, ValuesNextStep
    DEF NNext, Operation, Overwriting
=============================================================================
