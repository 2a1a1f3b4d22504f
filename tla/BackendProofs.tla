---------------------------- MODULE BackendProofs ----------------------------
(***************************************************************************)
(* What four parts of the backend guarantee: Accounts for any number of    *)
(* users, devices, passwords and requests and any lifetimes of tokens,     *)
(* FileVersions for any files, contents, pages and number of versions to   *)
(* keep, BlobDownload for a blob and requests of any size, and             *)
(* StateRepository for any number of processes, calls, imports, backups    *)
(* and restores.                                                           *)
(***************************************************************************)
EXTENDS Accounts, BlobDownload, FileVersions, StateRepository,
        SequenceTheorems, FiniteSetTheorems, WellFoundedInduction, TLAPS

Session == [token : 0 .. MaxTokens, accessUntil : Nat, refreshUntil : Nat, revoked : BOOLEAN]

\* Tokens are of enrolled devices, and what is revoked has no live session: with
\* the types and TokensFollowSessions, this is inductive.
ClosedAreClosed ==
    /\ \A t \in tokens : Enrolled(t[1])
    /\ \A d \in gone : Enrolled(d) /\ (HasSession(d) => session[d].revoked)

AInv == ATypeOK /\ TokensFollowSessions /\ ClosedAreClosed

-----------------------------------------------------------------------------
(* Types                                                                   *)

LEMMA AccountsTypeInit == AInit => ATypeOK
  BY TimesAreNat, LegacyAreDevices DEF AInit, ATypeOK, Token, Request, NoSession

LEMMA CreateTypes ==
    ASSUME ATypeOK, NEW u \in Users, NEW d \in Devices, CreateDeviceSession(u, d)
    PROVE  /\ owner' \in [Devices -> Users \cup {NoUser}]
           /\ session' \in [Devices -> Session]
           /\ tokens' \subseteq Token /\ refreshTokens' \subseteq Token
           /\ gone' \subseteq Devices /\ seen' \in [Devices -> 0 .. MaxTime]
           /\ requests' \subseteq Request /\ clock' \in 0 .. MaxTime
  BY TimesAreNat DEF ATypeOK, CreateDeviceSession, Session, Token

LEMMA AccountsTypeStep == ATypeOK /\ [ANext]_avars => ATypeOK'
  <1> SUFFICES ASSUME ATypeOK, [ANext]_avars PROVE ATypeOK'
    OBVIOUS
  <1>1. CASE UNCHANGED avars
    BY <1>1 DEF ATypeOK, avars
  <1>2. ASSUME NEW u \in Users, NEW d \in Devices, RegisterDevice(u, d) PROVE ATypeOK'
    BY <1>2, CreateTypes DEF RegisterDevice, ATypeOK, Session
  <1>3. ASSUME NEW u \in Users, NEW d \in Devices, NEW p \in Passwords,
               RegisterPasswordAccount(u, p, d)
        PROVE  ATypeOK'
    BY <1>3, CreateTypes DEF RegisterPasswordAccount, ATypeOK, Session
  <1>4. ASSUME NEW u \in Users, NEW d \in Devices, NEW p \in Passwords,
               LoginPasswordAccount(u, p, d)
        PROVE  ATypeOK'
    BY <1>4, CreateTypes DEF LoginPasswordAccount, ATypeOK, Session
  <1>5. ASSUME NEW d \in Devices, NEW n \in 0 .. MaxTokens, RefreshSession(d, n)
        PROVE  ATypeOK'
    <2>1. session[d].token + 1 \in 0 .. MaxTokens
      BY <1>5, TimesAreNat DEF ATypeOK, RefreshSession
    <2>2. Rotated(d) \in Session
      BY <2>1, TimesAreNat DEF ATypeOK, Rotated, Session
    <2>3. session' \in [Devices -> Session]
      BY <1>5, <2>2 DEF ATypeOK, RefreshSession, Session
    <2>4. tokens' \subseteq Token /\ refreshTokens' \subseteq Token
      BY <1>5, <2>1 DEF ATypeOK, RefreshSession, Token
    <2> QED
      BY <1>5, <2>3, <2>4 DEF ATypeOK, RefreshSession, Session
  <1>6. ASSUME NEW d \in Devices, NEW n \in 0 .. MaxTokens, RevokeSessionForToken(d, n)
        PROVE  ATypeOK'
    BY <1>6 DEF ATypeOK, RevokeSessionForToken
  <1>7. ASSUME NEW d \in Devices, NEW n \in 0 .. MaxTokens, NEW target \in Devices,
               Authorize(d, n, "heartbeat", d) \/ Authorize(d, n, "delete", target)
        PROVE  ATypeOK'
    BY <1>7 DEF ATypeOK, Authorize, Request, identity
  <1>8. ASSUME NEW r \in requests, TouchDevice(r) PROVE ATypeOK'
    BY <1>8 DEF ATypeOK, TouchDevice, Request, identity
  <1>9. ASSUME NEW r \in requests, HeartbeatDevice(r) PROVE ATypeOK'
    BY <1>9 DEF ATypeOK, HeartbeatDevice, Answer, Request, identity
  <1>10. ASSUME NEW r \in requests, DeleteDeviceCall(r) PROVE ATypeOK'
    <2>1. r.device \in Devices
      BY DEF ATypeOK, Request
    <2>2. CASE UNCHANGED <<gone, session, refreshTokens>>
      BY <1>10, <2>2 DEF ATypeOK, DeleteDeviceCall, Answer
    <2>3. CASE gone' = gone \cup {r.device} /\ RevokeDeviceSessions(r.device)
      BY <1>10, <2>1, <2>3 DEF ATypeOK, DeleteDeviceCall, Answer, RevokeDeviceSessions, HasSession
    <2> QED
      BY <1>10, <2>2, <2>3 DEF DeleteDeviceCall
  <1>11. CASE AdvanceClock
    BY <1>11, TimesAreNat DEF ATypeOK, AdvanceClock, identity
  <1> QED
    BY <1>1, <1>2, <1>3, <1>4, <1>5, <1>6, <1>7, <1>8, <1>9, <1>10, <1>11 DEF ANext

-----------------------------------------------------------------------------
(* Tokens and sessions                                                     *)

Vouched == TokensFollowSessions /\ ClosedAreClosed

LEMMA CreateVouched ==
    ASSUME ATypeOK, Vouched, NEW u \in Users, NEW d \in Devices, CreateDeviceSession(u, d)
    PROVE  Vouched'
  <1>1. ~Enrolled(d) /\ d \notin gone
    BY DEF CreateDeviceSession, Vouched, ClosedAreClosed
  <1>2. /\ owner'[d] = u /\ u # NoUser
        /\ session'[d].token = 0 /\ ~session'[d].revoked
        /\ \A e \in Devices \ {d} : owner'[e] = owner[e] /\ session'[e] = session[e]
        /\ gone' = gone
    BY NoUserIsNone DEF CreateDeviceSession, ATypeOK
  <1>3. /\ tokens' = tokens \cup {<<d, 0>>} /\ refreshTokens' = refreshTokens \cup {<<d, 0>>}
        /\ \A t \in tokens \cup refreshTokens : t[1] \in Devices \ {d}
    <2>1. \A t \in tokens \cup refreshTokens : t[1] \in Devices
      BY DEF ATypeOK, Token
    <2>2. \A t \in tokens : t[1] # d
      BY <1>1 DEF Vouched, ClosedAreClosed
    <2>3. \A t \in refreshTokens : t[1] # d
      BY <1>1 DEF Vouched, TokensFollowSessions, Live, HasSession, Enrolled
    <2> QED
      BY <2>1, <2>2, <2>3 DEF CreateDeviceSession
  <1>4. \A e \in Devices \ {d} : /\ HasSession(e)' = HasSession(e) /\ Live(e)' = Live(e)
                                 /\ Enrolled(e)' = Enrolled(e)
    BY <1>2 DEF HasSession, Live, Enrolled
  <1>5. HasSession(d)' /\ Live(d)' /\ Enrolled(d)'
    BY <1>1, <1>2 DEF HasSession, Live, Enrolled
  <1>6. TokensFollowSessions'
    <2>1. \A t \in tokens' : HasSession(t[1])' => t[2] = session'[t[1]].token
      BY <1>2, <1>3, <1>4 DEF Vouched, TokensFollowSessions
    <2>2. \A t \in refreshTokens' : Live(t[1])' /\ t[2] = session'[t[1]].token
      BY <1>2, <1>3, <1>4, <1>5 DEF Vouched, TokensFollowSessions
    <2>3. \A e \in Devices : Live(e)' => <<e, session'[e].token>> \in tokens' \cap refreshTokens'
      BY <1>2, <1>3, <1>4 DEF Vouched, TokensFollowSessions
    <2> QED
      BY <2>1, <2>2, <2>3 DEF TokensFollowSessions, HasSession, Live
  <1>7. ClosedAreClosed'
    <2>1. \A t \in tokens' : Enrolled(t[1])'
      BY <1>3, <1>4, <1>5 DEF Vouched, ClosedAreClosed
    <2>2. \A e \in gone' : Enrolled(e)' /\ (HasSession(e)' => session'[e].revoked)
      BY <1>1, <1>2, <1>4 DEF Vouched, ClosedAreClosed, ATypeOK
    <2> QED
      BY <2>1, <2>2 DEF ClosedAreClosed, Enrolled, HasSession
  <1> QED
    BY <1>6, <1>7 DEF Vouched

LEMMA RefreshVouched ==
    ASSUME ATypeOK, Vouched, NEW d \in Devices, NEW n \in 0 .. MaxTokens, RefreshSession(d, n)
    PROVE  Vouched'
  <1>1. Live(d) /\ n = session[d].token /\ session[d].token \in Nat
    BY DEF RefreshSession, CanRefresh, Vouched, TokensFollowSessions, ATypeOK
  <1>2. /\ session'[d].token = session[d].token + 1 /\ ~session'[d].revoked
        /\ \A e \in Devices \ {d} : session'[e] = session[e]
        /\ owner' = owner /\ gone' = gone
    BY DEF RefreshSession, Rotated, ATypeOK
  <1>3. \A e \in Devices : /\ HasSession(e)' = HasSession(e) /\ Enrolled(e)' = Enrolled(e)
                           /\ Live(e)' = Live(e)
    BY <1>1, <1>2 DEF HasSession, Live, Enrolled
  <1>4. /\ \A t \in tokens \cup refreshTokens : t[1] \in Devices /\ t = <<t[1], t[2]>>
        /\ \A t \in tokens' : \/ t \in tokens /\ t # <<d, session[d].token>>
                              \/ t = <<d, session[d].token + 1>>
        /\ \A t \in refreshTokens' : \/ t \in refreshTokens /\ t # <<d, session[d].token>>
                                     \/ t = <<d, session[d].token + 1>>
    BY <1>1 DEF RefreshSession, ATypeOK, Token
  <1>5. HasSession(d)
    BY <1>1 DEF Live
  <1>6. \A t \in tokens' : HasSession(t[1])' => t[2] = session'[t[1]].token
    BY <1>2, <1>3, <1>4, <1>5 DEF Vouched, TokensFollowSessions
  <1>7. \A t \in refreshTokens' : Live(t[1])' /\ t[2] = session'[t[1]].token
    BY <1>1, <1>2, <1>3, <1>4 DEF Vouched, TokensFollowSessions
  <1>8. ASSUME NEW e \in Devices, Live(e)'
        PROVE  <<e, session'[e].token>> \in tokens' \cap refreshTokens'
    <2>1. CASE e = d
      BY <1>2, <2>1 DEF RefreshSession
    <2>2. CASE e # d
      BY <1>2, <1>3, <1>8, <2>2 DEF RefreshSession, Vouched, TokensFollowSessions
    <2> QED
      BY <2>1, <2>2
  <1>9. \A t \in tokens' : Enrolled(t[1])'
    BY <1>3, <1>4, <1>5 DEF Vouched, ClosedAreClosed, HasSession, Enrolled
  <1>10. \A e \in gone' : Enrolled(e)' /\ (HasSession(e)' => session'[e].revoked)
    BY <1>1, <1>2, <1>3 DEF Vouched, ClosedAreClosed, Live, ATypeOK
  <1> QED
    BY <1>6, <1>7, <1>8, <1>9, <1>10
       DEF Vouched, TokensFollowSessions, ClosedAreClosed, HasSession, Live, Enrolled

LEMMA LogoutVouched ==
    ASSUME ATypeOK, Vouched, NEW d \in Devices, NEW n \in 0 .. MaxTokens,
           RevokeSessionForToken(d, n)
    PROVE  Vouched'
  <1>1. /\ session'[d].token = session[d].token /\ session'[d].revoked
        /\ \A e \in Devices \ {d} : session'[e] = session[e]
        /\ owner' = owner /\ gone' = gone
    BY DEF RevokeSessionForToken, ATypeOK
  <1>2. /\ \A e \in Devices : HasSession(e)' = HasSession(e) /\ Enrolled(e)' = Enrolled(e)
        /\ \A e \in Devices \ {d} : Live(e)' = Live(e)
        /\ ~Live(d)'
    BY <1>1 DEF HasSession, Live, Enrolled
  <1>3. \A t \in tokens \cup refreshTokens : t[1] \in Devices /\ t = <<t[1], t[2]>>
    BY DEF ATypeOK, Token
  <1>4. \A t \in tokens' : t \in tokens
    BY DEF RevokeSessionForToken
  <1>5. \A t \in refreshTokens' : t \in refreshTokens /\ t[1] # d
    BY <1>3 DEF RevokeSessionForToken, Vouched, TokensFollowSessions
  <1>6. \A t \in tokens' : HasSession(t[1])' => t[2] = session'[t[1]].token
    BY <1>1, <1>2, <1>3, <1>4 DEF Vouched, TokensFollowSessions
  <1>7. \A t \in refreshTokens' : Live(t[1])' /\ t[2] = session'[t[1]].token
    BY <1>1, <1>2, <1>3, <1>5 DEF Vouched, TokensFollowSessions
  <1>8. \A e \in Devices : Live(e)' => <<e, session'[e].token>> \in tokens' \cap refreshTokens'
    BY <1>1, <1>2 DEF RevokeSessionForToken, Vouched, TokensFollowSessions
  <1>9. \A t \in tokens' : Enrolled(t[1])'
    BY <1>2, <1>3, <1>4 DEF Vouched, ClosedAreClosed
  <1>10. \A e \in gone' : Enrolled(e)' /\ (HasSession(e)' => session'[e].revoked)
    BY <1>1, <1>2 DEF Vouched, ClosedAreClosed, ATypeOK
  <1> QED
    BY <1>6, <1>7, <1>8, <1>9, <1>10
       DEF Vouched, TokensFollowSessions, ClosedAreClosed, HasSession, Live, Enrolled

LEMMA DeleteVouched ==
    ASSUME ATypeOK, Vouched, NEW d \in Devices, Enrolled(d), UNCHANGED <<owner, tokens>>,
           gone' = gone \cup {d}, RevokeDeviceSessions(d)
    PROVE  Vouched'
  <1>1. /\ session'[d].token = session[d].token /\ session'[d].revoked = HasSession(d)
        /\ \A e \in Devices \ {d} : session'[e] = session[e]
    BY DEF RevokeDeviceSessions, ATypeOK
  <1>2. /\ \A e \in Devices : HasSession(e)' = HasSession(e) /\ Enrolled(e)' = Enrolled(e)
        /\ \A e \in Devices \ {d} : Live(e)' = Live(e)
        /\ ~Live(d)'
    BY <1>1 DEF HasSession, Live, Enrolled
  <1>3. \A t \in tokens \cup refreshTokens : t[1] \in Devices /\ t = <<t[1], t[2]>>
    BY DEF ATypeOK, Token
  <1>4. \A t \in refreshTokens' : t \in refreshTokens /\ t[1] # d
    BY <1>3 DEF RevokeDeviceSessions, Vouched, TokensFollowSessions
  <1>5. \A t \in tokens' : HasSession(t[1])' => t[2] = session'[t[1]].token
    BY <1>1, <1>2, <1>3 DEF Vouched, TokensFollowSessions
  <1>6. \A t \in refreshTokens' : Live(t[1])' /\ t[2] = session'[t[1]].token
    BY <1>1, <1>2, <1>3, <1>4 DEF Vouched, TokensFollowSessions
  <1>7. \A e \in Devices : Live(e)' => <<e, session'[e].token>> \in tokens' \cap refreshTokens'
    BY <1>1, <1>2 DEF RevokeDeviceSessions, Vouched, TokensFollowSessions
  <1>8. \A t \in tokens' : Enrolled(t[1])'
    BY <1>2, <1>3 DEF Vouched, ClosedAreClosed
  <1>9. \A e \in gone' : Enrolled(e)' /\ (HasSession(e)' => session'[e].revoked)
    BY <1>1, <1>2 DEF Vouched, ClosedAreClosed, ATypeOK
  <1> QED
    BY <1>5, <1>6, <1>7, <1>8, <1>9
       DEF Vouched, TokensFollowSessions, ClosedAreClosed, HasSession, Live, Enrolled

LEMMA VouchedStep == ATypeOK /\ Vouched /\ [ANext]_avars => Vouched'
  <1> SUFFICES ASSUME ATypeOK, Vouched, [ANext]_avars PROVE Vouched'
    OBVIOUS
  <1>1. ASSUME UNCHANGED identity PROVE Vouched'
    BY <1>1 DEF identity, Vouched, TokensFollowSessions, ClosedAreClosed, Live, HasSession, Enrolled
  <1>2. ASSUME NEW u \in Users, NEW d \in Devices,
               \/ RegisterDevice(u, d)
               \/ \E p \in Passwords :
                     RegisterPasswordAccount(u, p, d) \/ LoginPasswordAccount(u, p, d)
        PROVE  Vouched'
    BY <1>2, CreateVouched DEF RegisterDevice, RegisterPasswordAccount, LoginPasswordAccount
  <1>3. ASSUME NEW d \in Devices, NEW n \in 0 .. MaxTokens,
               RefreshSession(d, n) \/ RevokeSessionForToken(d, n)
        PROVE  Vouched'
    BY <1>3, RefreshVouched, LogoutVouched
  <1>4. ASSUME NEW d \in Devices, NEW n \in 0 .. MaxTokens, NEW target \in Devices,
               Authorize(d, n, "heartbeat", d) \/ Authorize(d, n, "delete", target)
        PROVE  Vouched'
    BY <1>1, <1>4 DEF Authorize
  <1>5. ASSUME NEW r \in requests, TouchDevice(r) \/ HeartbeatDevice(r) PROVE Vouched'
    BY <1>1, <1>5 DEF TouchDevice, HeartbeatDevice
  <1>6. ASSUME NEW r \in requests, DeleteDeviceCall(r) PROVE Vouched'
    <2>1. r.device \in Devices
      BY DEF ATypeOK, Request
    <2>2. CASE UNCHANGED <<gone, session, refreshTokens>>
      BY <1>1, <1>6, <2>2 DEF DeleteDeviceCall, identity
    <2>3. CASE Enrolled(r.device) /\ gone' = gone \cup {r.device} /\ RevokeDeviceSessions(r.device)
      BY <1>6, <2>1, <2>3, DeleteVouched DEF DeleteDeviceCall
    <2> QED
      BY <1>6, <2>2, <2>3 DEF DeleteDeviceCall
  <1>7. CASE AdvanceClock \/ UNCHANGED avars
    BY <1>1, <1>7 DEF AdvanceClock, avars, identity
  <1> QED
    BY <1>2, <1>3, <1>4, <1>5, <1>6, <1>7 DEF ANext

LEMMA AccountsInvariant == ASpec => []AInv
  <1>1. AInit => ATypeOK
    BY AccountsTypeInit
  <1>2. AInit => Vouched
    <2> SUFFICES ASSUME AInit PROVE Vouched
      OBVIOUS
    <2>1. \A d \in Devices : ~HasSession(d) /\ ~Live(d)
      BY DEF AInit, HasSession, Live
    <2>2. \A t \in tokens : t[1] \in LegacyDevices
      BY DEF AInit
    <2> QED
      BY <2>1, <2>2, LegacyAreDevices
         DEF AInit, Vouched, TokensFollowSessions, ClosedAreClosed, Enrolled
  <1>3. ATypeOK /\ Vouched /\ [ANext]_avars => ATypeOK' /\ Vouched'
    BY AccountsTypeStep, VouchedStep
  <1>4. ATypeOK /\ Vouched <=> AInv
    BY DEF AInv, Vouched
  <1> QED
    BY <1>1, <1>2, <1>3, <1>4, PTL DEF ASpec

\* However refreshes, logouts and revocations interleave: access and refresh tokens
\* are those of the newest generation of their session, a live session has both, and
\* a session or device that was revoked has no refresh token.
THEOREM TokensAgree == ASpec => []TokensFollowSessions
  <1>1. AInv => TokensFollowSessions
    BY DEF AInv
  <1> QED
    BY <1>1, AccountsInvariant, PTL

-----------------------------------------------------------------------------
(* Revoked devices                                                         *)

Shut(d) ==
    /\ d \in gone'
    /\ seen'[d] = seen[d]
    /\ HasSession(d) => session'[d].revoked
    /\ \A n \in 0 .. MaxTokens :
          <<d, n>> \in tokens' \cup refreshTokens' => <<d, n>> \in tokens \cup refreshTokens

LEMMA ShutStep ==
    ASSUME AInv, [ANext]_avars, NEW d \in gone
    PROVE  Shut(d)
  <1>0. d \in Devices /\ Enrolled(d) /\ ~Live(d) /\ (HasSession(d) => session[d].revoked)
    BY DEF AInv, ClosedAreClosed, ATypeOK, Live
  <1>a. ATypeOK
    BY DEF AInv
  <1>1. ASSUME UNCHANGED identity, seen'[d] = seen[d] PROVE Shut(d)
    BY <1>0, <1>1 DEF Shut, identity
  <1>2. ASSUME NEW u \in Users, NEW e \in Devices, CreateDeviceSession(u, e) PROVE Shut(d)
    BY <1>0, <1>a, <1>2 DEF CreateDeviceSession, Shut, ATypeOK
  <1>3. ASSUME NEW u \in Users, NEW e \in Devices,
               \/ RegisterDevice(u, e)
               \/ \E p \in Passwords :
                     RegisterPasswordAccount(u, p, e) \/ LoginPasswordAccount(u, p, e)
        PROVE  Shut(d)
    BY <1>2, <1>3 DEF RegisterDevice, RegisterPasswordAccount, LoginPasswordAccount
  <1>4. ASSUME NEW e \in Devices, NEW n \in 0 .. MaxTokens, RefreshSession(e, n) PROVE Shut(d)
    <2>1. e # d
      BY <1>0, <1>4 DEF RefreshSession, CanRefresh
    <2> QED
      BY <1>0, <1>a, <1>4, <2>1 DEF RefreshSession, Shut, ATypeOK
  <1>5. ASSUME NEW e \in Devices, NEW n \in 0 .. MaxTokens, RevokeSessionForToken(e, n)
        PROVE  Shut(d)
    BY <1>0, <1>a, <1>5 DEF RevokeSessionForToken, Shut, ATypeOK
  <1>6. ASSUME NEW e \in Devices, NEW n \in 0 .. MaxTokens, NEW target \in Devices,
               Authorize(e, n, "heartbeat", e) \/ Authorize(e, n, "delete", target)
        PROVE  Shut(d)
    BY <1>1, <1>6 DEF Authorize
  <1>7. ASSUME NEW r \in requests, TouchDevice(r) \/ HeartbeatDevice(r) PROVE Shut(d)
    <2>1. seen'[d] = seen[d]
      BY <1>0, <1>a, <1>7 DEF TouchDevice, HeartbeatDevice, ATypeOK, Request
    <2> QED
      BY <1>1, <1>7, <2>1 DEF TouchDevice, HeartbeatDevice
  <1>8. ASSUME NEW r \in requests, DeleteDeviceCall(r) PROVE Shut(d)
    <2>1. CASE UNCHANGED <<gone, session, refreshTokens>>
      BY <1>1, <1>8, <2>1 DEF DeleteDeviceCall, identity
    <2>2. CASE gone' = gone \cup {r.device} /\ RevokeDeviceSessions(r.device)
      <3>1. HasSession(d) => session'[d].revoked
        BY <1>0, <1>a, <2>2 DEF RevokeDeviceSessions, ATypeOK
      <3> QED
        BY <1>0, <1>8, <2>2, <3>1 DEF DeleteDeviceCall, RevokeDeviceSessions, Shut
    <2> QED
      BY <1>8, <2>1, <2>2 DEF DeleteDeviceCall
  <1>9. CASE AdvanceClock \/ UNCHANGED avars
    BY <1>1, <1>9 DEF AdvanceClock, avars, identity
  <1> QED
    BY <1>3, <1>4, <1>5, <1>6, <1>7, <1>8, <1>9 DEF ANext

\* Nothing that was authorised before a revocation opens the device's record again.
THEOREM RevocationIsFinal == ASpec => RevokedStaysClosed
  <1>1. AInv /\ [ANext]_avars => [\A d \in gone : Shut(d)]_avars
    BY ShutStep
  <1> QED
    BY <1>1, AccountsInvariant, PTL DEF ASpec, RevokedStaysClosed, Shut

-----------------------------------------------------------------------------
(* Versions of files: what retention takes                                 *)

\* What retention needs of the types: it does not read the listing.
VersionTypes ==
    /\ headRev \in 0 .. MaxCommits
    /\ versions \subseteq Version
    /\ pins \subseteq versions

LEMMA LeastNatural ==
    ASSUME NEW T \in SUBSET Nat, T # {}
    PROVE  \E n \in T : \A m \in T : n <= m
  <1>1. \E n \in T : \A m \in T : ~(m < n)
    <2>1. \E n \in T : \A m \in T : ~(<<m, n>> \in OpToRel(<, Nat))
      BY NatLessThanWellFounded, WFMin, Zenon
    <2> QED
      BY <2>1 DEF OpToRel
  <1> QED
    BY <1>1

\* The versions of a file are at most as many as there are revisions.
LEMMA FewVersions ==
    ASSUME NEW f, NEW vs \in SUBSET Version, NEW ps, NEW T \in SUBSET Regular(f, vs, ps)
    PROVE  IsFiniteSet(T) /\ Cardinality(T) \in Nat
  <1> DEFINE R   == Regular(f, vs, ps)
             rev == [v \in R |-> v[2]]
  <1>1. /\ \A v \in R : v = <<f, v[2]>> /\ v[2] \in 1 .. MaxCommits
    BY DEF Regular, Version
  <1>2. rev \in Injection(R, 1 .. MaxCommits)
    <2>1. rev \in [R -> 1 .. MaxCommits]
      BY <1>1
    <2>2. \A v, w \in R : rev[v] = rev[w] => v = w
      BY <1>1, Zenon
    <2> HIDE DEF rev, R
    <2> QED
      BY <2>1, <2>2 DEF Injection, IsInjective
  <1>3. IsFiniteSet(1 .. MaxCommits)
    BY MaxCommitsIsNat, FS_Interval
  <1>4. IsFiniteSet(R)
    <2> HIDE DEF rev, R
    <2> QED
      BY <1>2, <1>3, FS_Injection, Zenon
  <1> QED
    BY <1>4, FS_Subset, FS_CardinalityType

\* Of the newer versions of a retired one, the KeepLatest newest are not retired:
\* were they fewer, the newest that is would have fewer than KeepLatest above it.
LEMMA NewestStay ==
    ASSUME NEW f, NEW vs \in SUBSET Version, NEW ps, NEW v \in Retired(f, vs, ps)
    PROVE  Cardinality({w \in Regular(f, vs, ps) \ Retired(f, vs, ps) : w[2] > v[2]})
              >= KeepLatest
  <1> DEFINE R        == Regular(f, vs, ps)
             Above(n) == {w \in R : w[2] > n}
             A        == Above(v[2])
             B        == {w \in R \ Retired(f, vs, ps) : w[2] > v[2]}
  <1>1. \A w \in R : w[2] \in 1 .. MaxCommits
    BY DEF Regular, Version
  <1>2. \A T \in SUBSET R : IsFiniteSet(T) /\ Cardinality(T) \in Nat
    BY FewVersions
  <1>3. v \in R /\ Cardinality(A) >= KeepLatest
    BY DEF Retired
  <1>4. B \subseteq A /\ A \subseteq R
    OBVIOUS
  <1>5. \A w \in A \ B : Cardinality(Above(w[2])) >= KeepLatest
    BY DEF Retired
  <1>6. SUFFICES ASSUME Cardinality(B) < KeepLatest PROVE FALSE
    BY <1>2, <1>4, KeepLatestIsPos
  <1>7. A \ B # {}
    <2>1. Cardinality(A) \in Nat /\ Cardinality(B) \in Nat
      BY <1>2, <1>4
    <2>2. Cardinality(A) # Cardinality(B)
      BY <1>3, <1>6, <2>1, KeepLatestIsPos
    <2>3. ASSUME A \ B = {} PROVE A = B
      <3> HIDE DEF A, B
      <3> QED
        BY <1>4, <2>3
    <2> HIDE DEF A, B
    <2> QED
      BY <2>2, <2>3
  <1>8. PICK w \in A \ B : \A x \in A \ B : x[2] <= w[2]
    <2> DEFINE T == {MaxCommits - x[2] : x \in A \ B}
    <2>1. T \in SUBSET Nat /\ T # {}
      BY <1>1, <1>4, <1>7, MaxCommitsIsNat
    <2>2. PICK t \in T : \A y \in T : t <= y
      BY <2>1, LeastNatural
    <2>3. PICK w \in A \ B : t = MaxCommits - w[2]
      BY <2>2
    <2>4. \A x \in A \ B : t <= MaxCommits - x[2]
      BY <2>2
    <2>5. \A x \in A \ B : x[2] \in Nat
      BY <1>1, <1>4
    <2> HIDE DEF A, B
    <2> QED
      BY <2>3, <2>4, <2>5, MaxCommitsIsNat
  <1>9. Above(w[2]) \subseteq B
    BY <1>1, <1>3, <1>4, <1>8
  <1>10. Cardinality(Above(w[2])) <= Cardinality(B)
    <2> HIDE DEF Above, A, B, R
    <2> QED
      BY <1>2, <1>4, <1>9, FS_Subset
  <1>11. /\ Cardinality(Above(w[2])) \in Nat /\ Cardinality(B) \in Nat
         /\ Cardinality(Above(w[2])) >= KeepLatest
    BY <1>2, <1>5, <1>8
  <1> HIDE DEF Above, A, B, R
  <1> QED
    BY <1>6, <1>10, <1>11, KeepLatestIsPos

\* The parts of a commit: the versions it adds, the pins and the versions there are
\* before retention looks at the files it adds versions of.
Added(content, referenced, directives) ==
    VersionedBy(content, referenced, directives) \X {headRev + 1}

PinsBefore(pinned) == pins \cup (pinned \X {headRev + 1})

VersionsBefore(content, referenced, directives) ==
    versions \cup Added(content, referenced, directives)

Out(content, referenced, directives, pinned) ==
    UNION {Retired(v[1], VersionsBefore(content, referenced, directives), PinsBefore(pinned)) :
             v \in Added(content, referenced, directives)}

LEMMA CommitVersionsParts ==
    ASSUME VersionTypes, NEW content, NEW referenced \in SUBSET VersionedFiles,
           NEW directives \in SUBSET VersionedFiles, NEW pinned,
           CommitVersions(content, referenced, directives, pinned)
    PROVE  /\ VersionsBefore(content, referenced, directives) \subseteq Version
           /\ PinsBefore(pinned) \subseteq VersionsBefore(content, referenced, directives)
           /\ versions' = VersionsBefore(content, referenced, directives)
                             \ Out(content, referenced, directives, pinned)
           /\ pins' = PinsBefore(pinned) \ Out(content, referenced, directives, pinned)
           /\ headRev' \in 0 .. MaxCommits
  <1>1. /\ headRev < MaxCommits /\ headRev' = headRev + 1
        /\ versions' = VersionsBefore(content, referenced, directives)
                          \ Out(content, referenced, directives, pinned)
        /\ pins' = PinsBefore(pinned) \ Out(content, referenced, directives, pinned)
        /\ pinned \subseteq directives /\ \A f \in directives : content[f] # Gone
    BY Zenon DEF CommitVersions, VersionsBefore, PinsBefore, Out, Added
  <1>2. headRev + 1 \in 1 .. MaxCommits /\ headRev + 1 \in 0 .. MaxCommits
    BY <1>1, MaxCommitsIsNat DEF VersionTypes
  <1>3. /\ VersionedBy(content, referenced, directives) \subseteq VersionedFiles
        /\ pinned \subseteq VersionedBy(content, referenced, directives)
    BY <1>1 DEF VersionedBy
  <1>4. /\ Added(content, referenced, directives) \subseteq Version
        /\ pinned \X {headRev + 1} \subseteq Added(content, referenced, directives)
    BY <1>2, <1>3 DEF Version, Added
  <1> QED
    BY <1>1, <1>2, <1>4 DEF VersionTypes, VersionsBefore, PinsBefore

LEMMA VersionTypesInit == FInit => VersionTypes
  BY MaxCommitsIsNat DEF FInit, VersionTypes

LEMMA VersionTypesStep == VersionTypes /\ [FNext]_fvars => VersionTypes'
  <1> SUFFICES ASSUME VersionTypes, [FNext]_fvars PROVE VersionTypes'
    OBVIOUS
  <1>1. ASSUME NEW content \in [VersionedFiles -> VersionContents \cup {Gone}],
               NEW referenced \in SUBSET VersionedFiles,
               NEW directives \in SUBSET VersionedFiles,
               NEW pinned \in SUBSET VersionedFiles,
               CommitVersions(content, referenced, directives, pinned)
        PROVE  VersionTypes'
    BY <1>1, CommitVersionsParts DEF VersionTypes
  <1>2. ASSUME NEW v \in versions, NEW pin \in BOOLEAN, UpdateFileVersion(v, pin)
        PROVE  VersionTypes'
    BY <1>2 DEF UpdateFileVersion, VersionTypes
  <1>3. CASE UNCHANGED <<headRev, versions, pins>>
    BY <1>3 DEF VersionTypes
  <1> QED
    BY <1>1, <1>2, <1>3 DEF FNext, fvars, StartListing, ListFileVersions, EndListing

\* A version that goes was not pinned, and KeepLatest newer ones of its file stay,
\* whatever files the commit changes and whatever it pins.
LEMMA CommitTakesOldest ==
    ASSUME VersionTypes, NEW content, NEW referenced \in SUBSET VersionedFiles,
           NEW directives \in SUBSET VersionedFiles, NEW pinned,
           CommitVersions(content, referenced, directives, pinned),
           NEW z \in versions \ versions'
    PROVE  /\ z \notin pins
           /\ Cardinality({w \in versions' \ pins' : w[1] = z[1] /\ w[2] > z[2]}) >= KeepLatest
  <1> DEFINE vs  == VersionsBefore(content, referenced, directives)
             ps  == PinsBefore(pinned)
             new == Added(content, referenced, directives)
             out == Out(content, referenced, directives, pinned)
  <1>1. /\ versions \subseteq vs /\ vs \subseteq Version /\ pins \subseteq ps
        /\ out = UNION {Retired(v[1], vs, ps) : v \in new}
        /\ versions' = vs \ out /\ pins' = ps \ out
    <2>1. versions \subseteq vs /\ pins \subseteq ps
      BY DEF VersionsBefore, PinsBefore
    <2>2. out = UNION {Retired(v[1], vs, ps) : v \in new}
      BY Zenon DEF Out
    <2>3. vs \subseteq Version /\ versions' = vs \ out /\ pins' = ps \ out
      BY CommitVersionsParts, Zenon
    <2> QED
      BY <2>1, <2>2, <2>3
  <1> HIDE DEF vs, ps, new, out
  <1>2. PICK u \in new : z \in Retired(u[1], vs, ps)
    BY <1>1
  <1>3. u[1] = z[1] /\ z \notin ps
    BY <1>2 DEF Retired, Regular
  <1>4. {w \in Regular(z[1], vs, ps) \ Retired(z[1], vs, ps) : w[2] > z[2]}
        = {w \in versions' \ pins' : w[1] = z[1] /\ w[2] > z[2]}
    <2>1. \A x \in new : \A w \in Retired(x[1], vs, ps) : w[1] = x[1]
      BY DEF Retired, Regular
    <2>2. \A w : w \in out => \E x \in new : w \in Retired(x[1], vs, ps)
      BY <1>1
    <2>3. \A w : w \in out /\ w[1] = z[1] => w \in Retired(z[1], vs, ps)
      BY <2>1, <2>2
    <2>4. Retired(z[1], vs, ps) \subseteq out
      BY <1>1, <1>2, <1>3
    <2>5. versions' \ pins' = (vs \ ps) \ out
      BY <1>1
    <2>6. Regular(z[1], vs, ps) = {w \in vs \ ps : w[1] = z[1]}
      BY DEF Regular
    <2> QED
      BY <2>3, <2>4, <2>5, <2>6
  <1>5. z \in Retired(z[1], vs, ps) /\ z \notin pins
    BY <1>1, <1>2, <1>3
  <1>6. Cardinality({w \in Regular(z[1], vs, ps) \ Retired(z[1], vs, ps) : w[2] > z[2]})
           >= KeepLatest
    BY <1>1, <1>5, NewestStay
  <1> QED
    BY <1>4, <1>5, <1>6

\* A pin, an unpin and the retirement of another file's versions cost no file its
\* history: a version that goes was not pinned, and KeepLatest newer ones stay.
THEOREM OnlyOldestRetire == FSpec => RetentionTakesOldest
  <1> DEFINE Step == \A v \in versions \ versions' :
          /\ v \notin pins
          /\ Cardinality({w \in versions' \ pins' : w[1] = v[1] /\ w[2] > v[2]}) >= KeepLatest
  <1>1. ASSUME VersionTypes, [FNext]_fvars PROVE [Step]_fvars
    <2>1. CASE versions' = versions
      BY <2>1
    <2>2. CASE versions' # versions
      <3>1. PICK content \in [VersionedFiles -> VersionContents \cup {Gone}],
                 referenced \in SUBSET VersionedFiles, directives \in SUBSET VersionedFiles,
                 pinned \in SUBSET VersionedFiles :
                    CommitVersions(content, referenced, directives, pinned)
        BY <1>1, <2>2 DEF FNext, fvars, UpdateFileVersion, StartListing,
                          ListFileVersions, EndListing
      <3> QED
        BY <1>1, <3>1, CommitTakesOldest
    <2> QED
      BY <2>1, <2>2
  <1> QED
    BY <1>1, VersionTypesInit, VersionTypesStep, PTL DEF FSpec, RetentionTakesOldest

-----------------------------------------------------------------------------
(* Versions of files: what a listing finds                                 *)

\* What a listing adds to the types: what it wants was there when it began, and
\* the next commit makes no revision there is.
ListingTypes ==
    /\ FTypeOK
    /\ listing \in [file : VersionedFiles \cup {Gone}, offset : Nat, seen : SUBSET Version,
                    kept : SUBSET Version, steady : BOOLEAN]
    /\ \A v \in versions \cup listing.kept : v[2] <= headRev
    /\ \A v \in listing.kept : v[1] = listing.file

\* A steady listing is one of a file that retention takes at most one version of in
\* a commit that adds one.
StaysFew ==
    listing.file # Gone /\ listing.steady
       => Cardinality(Regular(listing.file, versions, pins)) <= KeepLatest

\* What was not seen yet is past the cursor.
Ahead ==
    listing.file # Gone /\ listing.steady /\ listing.offset # MaxCommits + 1
       => \A v \in listing.kept \cap versions :
             v \in listing.seen \/ NewestFirst(v) > listing.offset

ListingInv == ListingTypes /\ StaysFew /\ Ahead /\ ListingFindsKept

OfFile(f, vs) == {v \in vs : v[1] = f}

LEMMA FileIsFinite ==
    ASSUME NEW f, NEW vs \in SUBSET Version, NEW T \in SUBSET OfFile(f, vs)
    PROVE  IsFiniteSet(T) /\ Cardinality(T) \in Nat
  <1>1. T \in SUBSET Regular(f, vs, {})
    BY DEF OfFile, Regular
  <1> QED
    BY <1>1, FewVersions

\* However many there were, retention leaves KeepLatest of the versions it looks at.
LEMMA RetainedFew ==
    ASSUME NEW f, NEW vs \in SUBSET Version, NEW ps
    PROVE  Cardinality(Regular(f, vs, ps) \ Retired(f, vs, ps)) <= KeepLatest
  <1> DEFINE R        == Regular(f, vs, ps)
             B        == R \ Retired(f, vs, ps)
             Above(n) == {w \in R : w[2] > n}
  <1>1. /\ \A w \in R : w[2] \in 1 .. MaxCommits /\ w = <<f, w[2]>>
    BY DEF Regular, Version
  <1>2. \A T \in SUBSET R : IsFiniteSet(T) /\ Cardinality(T) \in Nat
    BY FewVersions
  <1>3. B \subseteq R /\ \A w \in B : ~(Cardinality(Above(w[2])) >= KeepLatest)
    BY DEF Retired
  <1>4. CASE B = {}
    BY <1>4, FS_EmptySet, KeepLatestIsPos
  <1>5. CASE B # {}
    <2>1. PICK w \in B : \A x \in B : w[2] <= x[2]
      <3> DEFINE T == {x[2] : x \in B}
      <3> HIDE DEF B, R
      <3>1. T \in SUBSET Nat /\ T # {}
        BY <1>1, <1>3, <1>5, MaxCommitsIsNat
      <3>2. PICK t \in T : \A y \in T : t <= y
        BY <3>1, LeastNatural
      <3> QED
        BY <3>2
    <2>2. B \subseteq Above(w[2]) \cup {w}
      <3>1. ASSUME NEW x \in B, x # w PROVE x[2] > w[2]
        <4>1. w[2] <= x[2] /\ x[2] # w[2]
          BY <1>1, <1>3, <2>1, <3>1
        <4>2. w[2] \in 1 .. MaxCommits /\ x[2] \in 1 .. MaxCommits
          BY <1>1, <1>3
        <4> QED
          BY <4>1, <4>2, MaxCommitsIsNat
      <3> QED
        BY <1>3, <3>1
    <2>3. Above(w[2]) \subseteq R /\ w \in R
      BY <1>3
    <2> HIDE DEF Above, B, R
    <2>4. /\ IsFiniteSet(Above(w[2])) /\ Cardinality(Above(w[2])) \in Nat
          /\ IsFiniteSet(B) /\ Cardinality(B) \in Nat
          /\ Cardinality(Above(w[2])) < KeepLatest
      <3>1. IsFiniteSet(Above(w[2])) /\ Cardinality(Above(w[2])) \in Nat
        BY <1>2, <2>3
      <3>2. IsFiniteSet(B) /\ Cardinality(B) \in Nat
        BY <1>2, <1>3
      <3>3. ~(Cardinality(Above(w[2])) >= KeepLatest)
        BY <1>3
      <3> QED
        BY <3>1, <3>2, <3>3, KeepLatestIsPos
    <2>5. /\ IsFiniteSet(Above(w[2]) \cup {w})
          /\ Cardinality(Above(w[2]) \cup {w}) <= Cardinality(Above(w[2])) + 1
      <3>1. /\ IsFiniteSet(Above(w[2]) \cup {w})
            /\ Cardinality(Above(w[2]) \cup {w})
                  = IF w \in Above(w[2]) THEN Cardinality(Above(w[2]))
                                         ELSE Cardinality(Above(w[2])) + 1
        BY <2>4, FS_AddElement
      <3> QED
        BY <2>4, <3>1
    <2>6. Cardinality(B) <= Cardinality(Above(w[2]) \cup {w})
      BY <2>2, <2>5, FS_Subset
    <2>7. Cardinality(Above(w[2]) \cup {w}) \in Nat
      BY <2>5, FS_CardinalityType
    <2>8. Cardinality(B) <= KeepLatest
      BY <2>4, <2>5, <2>6, <2>7, KeepLatestIsPos
    <2> QED
      BY <2>8 DEF B, R
  <1> QED
    BY <1>4, <1>5

\* When there is one version more than are kept, one goes.
LEMMA RetiredAtMostOne ==
    ASSUME NEW f, NEW vs \in SUBSET Version, NEW ps,
           Cardinality(Regular(f, vs, ps)) <= KeepLatest + 1,
           NEW a \in Retired(f, vs, ps), NEW b \in Retired(f, vs, ps)
    PROVE  a = b
  <1> DEFINE R        == Regular(f, vs, ps)
             Above(n) == {w \in R : w[2] > n}
  <1>1. ASSUME NEW x \in Retired(f, vs, ps), NEW y \in Retired(f, vs, ps), x[2] < y[2]
        PROVE  FALSE
    <2>1. /\ x \in R /\ y \in R /\ Cardinality(Above(y[2])) >= KeepLatest
          /\ Above(y[2]) \subseteq R
      BY DEF Retired
    <2>2. /\ x[2] \in Nat /\ y[2] \in Nat /\ x # y
      BY <1>1, <2>1, MaxCommitsIsNat DEF Regular, Version
    <2>3. Above(y[2]) \subseteq (R \ {x}) \ {y}
      BY <1>1, <2>1, <2>2
    <2>4. /\ IsFiniteSet(R) /\ Cardinality(R) \in Nat
          /\ Cardinality(Above(y[2])) \in Nat /\ Cardinality(R) <= KeepLatest + 1
      BY <2>1, FewVersions
    <2> HIDE DEF R, Above
    <2>5. /\ IsFiniteSet(R \ {x}) /\ Cardinality(R \ {x}) = Cardinality(R) - 1
      BY <2>1, <2>4, FS_RemoveElement
    <2>6. /\ IsFiniteSet((R \ {x}) \ {y}) /\ Cardinality((R \ {x}) \ {y}) = Cardinality(R) - 2
      <3>1. y \in R \ {x}
        BY <2>1, <2>2
      <3>2. /\ IsFiniteSet((R \ {x}) \ {y})
            /\ Cardinality((R \ {x}) \ {y}) = Cardinality(R \ {x}) - 1
        BY <2>5, <3>1, FS_RemoveElement
      <3> QED
        BY <2>4, <2>5, <3>2
    <2>7. Cardinality(Above(y[2])) <= Cardinality((R \ {x}) \ {y})
      BY <2>3, <2>6, FS_Subset
    <2> QED
      BY <2>1, <2>4, <2>6, <2>7, KeepLatestIsPos
  <1>2. a \in R /\ b \in R
    BY DEF Retired
  <1>3. /\ a[2] \in Nat /\ b[2] \in Nat /\ a = <<f, a[2]>> /\ b = <<f, b[2]>>
    BY <1>2, MaxCommitsIsNat DEF Regular, Version
  <1>4. ~(a[2] < b[2]) /\ ~(b[2] < a[2])
    BY <1>1
  <1> QED
    BY <1>3, <1>4

\* A commit leaves the versions of a file as they are, or adds one at the end and
\* takes what retention takes.
SameVersions(f) ==
    /\ OfFile(f, versions') = OfFile(f, versions)
    /\ Regular(f, versions', pins') = Regular(f, versions, pins)

OneVersionMore(f, vs, ps) ==
    /\ vs \subseteq versions \cup (VersionedFiles \X {headRev + 1})
    /\ Regular(f, vs, ps) \subseteq Regular(f, versions, pins) \cup {<<f, headRev + 1>>}
    /\ OfFile(f, versions')
          = (OfFile(f, versions) \cup {<<f, headRev + 1>>}) \ Retired(f, vs, ps)
    /\ Regular(f, versions', pins') = Regular(f, vs, ps) \ Retired(f, vs, ps)

LEMMA CommitOfFile ==
    ASSUME VersionTypes, NEW content, NEW referenced \in SUBSET VersionedFiles,
           NEW directives \in SUBSET VersionedFiles, NEW pinned, NEW f,
           CommitVersions(content, referenced, directives, pinned)
    PROVE  SameVersions(f) \/ \E vs \in SUBSET Version : \E ps : OneVersionMore(f, vs, ps)
  <1> DEFINE vs  == VersionsBefore(content, referenced, directives)
             ps  == PinsBefore(pinned)
             by  == VersionedBy(content, referenced, directives)
             new == Added(content, referenced, directives)
             out == Out(content, referenced, directives, pinned)
  <1>1. /\ vs = versions \cup new /\ vs \subseteq Version /\ new = by \X {headRev + 1}
        /\ ps = pins \cup (pinned \X {headRev + 1}) /\ pinned \subseteq by
        /\ out = UNION {Retired(v[1], vs, ps) : v \in new}
        /\ versions' = vs \ out /\ pins' = ps \ out /\ by \subseteq VersionedFiles
    <2>1. vs = versions \cup new /\ ps = pins \cup (pinned \X {headRev + 1})
      BY DEF VersionsBefore, PinsBefore
    <2>2. out = UNION {Retired(v[1], vs, ps) : v \in new}
      BY Zenon DEF Out
    <2>3. vs \subseteq Version /\ versions' = vs \ out /\ pins' = ps \ out
      BY CommitVersionsParts, Zenon
    <2>4. new = by \X {headRev + 1}
      BY DEF Added
    <2>5. pinned \subseteq directives /\ \A g \in directives : content[g] # Gone
      BY Zenon DEF CommitVersions
    <2>6. pinned \subseteq by /\ by \subseteq VersionedFiles
      BY <2>5 DEF VersionedBy
    <2> QED
      BY <2>1, <2>2, <2>3, <2>4, <2>6
  <1> HIDE DEF vs, ps, by, new, out
  <1>2. \A x \in new : \A w \in Retired(x[1], vs, ps) : w[1] = x[1] /\ w \notin ps /\ w \in vs
    BY DEF Retired, Regular
  <1>3. \A x \in new : x[1] \in by /\ x = <<x[1], headRev + 1>>
    BY <1>1
  <1>4. CASE f \notin by
    <2>1. \A w \in out : w[1] # f
      <3>1. ASSUME NEW w \in out PROVE w[1] # f
        <4>1. PICK x \in new : w \in Retired(x[1], vs, ps)
          BY <1>1
        <4>2. x[1] = w[1] /\ x[1] \in by
          BY <1>2, <1>3, <4>1
        <4> QED
          BY <1>4, <4>2
      <3> QED
        BY <3>1
    <2>2. \A w \in new : w[1] # f
      BY <1>3, <1>4
    <2>3. \A w \in pinned \X {headRev + 1} : w[1] # f
      BY <1>1, <1>4
    <2>4. OfFile(f, versions') = OfFile(f, versions)
      BY <1>1, <2>1, <2>2 DEF OfFile
    <2>5. Regular(f, versions', pins') = Regular(f, versions, pins)
      BY <1>1, <2>1, <2>2, <2>3 DEF Regular
    <2> QED
      BY <2>4, <2>5 DEF SameVersions
  <1>5. CASE f \in by
    <2>1. <<f, headRev + 1>> \in new
      BY <1>1, <1>5
    <2>2. Retired(f, vs, ps) \subseteq out
      <3>1. <<f, headRev + 1>>[1] = f
        OBVIOUS
      <3> QED
        BY <1>1, <2>1, <3>1
    <2>3. \A w \in out : w[1] = f => w \in Retired(f, vs, ps)
      <3>1. ASSUME NEW w \in out, w[1] = f PROVE w \in Retired(f, vs, ps)
        <4>1. PICK x \in new : w \in Retired(x[1], vs, ps)
          BY <1>1
        <4>2. x[1] = f
          BY <1>2, <3>1, <4>1
        <4> QED
          BY <4>1, <4>2
      <3> QED
        BY <3>1
    <2>4. OfFile(f, new) = {<<f, headRev + 1>>}
      BY <1>3, <2>1 DEF OfFile
    <2>5. OfFile(f, versions') = (OfFile(f, versions) \cup {<<f, headRev + 1>>}) \ Retired(f, vs, ps)
      <3>1. OfFile(f, versions') = OfFile(f, vs) \ Retired(f, vs, ps)
        BY <1>1, <2>2, <2>3 DEF OfFile
      <3>2. OfFile(f, vs) = OfFile(f, versions) \cup OfFile(f, new)
        BY <1>1 DEF OfFile
      <3> QED
        BY <2>4, <3>1, <3>2
    <2>6. Regular(f, versions', pins') = Regular(f, vs, ps) \ Retired(f, vs, ps)
      <3>1. versions' \ pins' = (vs \ ps) \ out
        BY <1>1
      <3>2. Retired(f, vs, ps) \subseteq Regular(f, vs, ps)
        BY DEF Retired
      <3> QED
        BY <2>2, <2>3, <3>1, <3>2 DEF Regular
    <2>7. Regular(f, vs, ps) \subseteq Regular(f, versions, pins) \cup {<<f, headRev + 1>>}
      BY <1>1, <1>3 DEF Regular
    <2>8. vs \subseteq versions \cup (VersionedFiles \X {headRev + 1})
      BY <1>1
    <2>9. vs \in SUBSET Version
      BY <1>1
    <2>10. OneVersionMore(f, vs, ps)
      BY <2>5, <2>6, <2>7, <2>8 DEF OneVersionMore
    <2> QED
      BY <2>9, <2>10
  <1> QED
    BY <1>4, <1>5

\* What the steps do to the listing, field by field.
LEMMA PinningListing ==
    ASSUME ListingTypes, NEW v, NEW pin \in BOOLEAN, UpdateFileVersion(v, pin)
    PROVE  /\ listing'.file = listing.file /\ listing'.offset = listing.offset
           /\ listing'.seen = listing.seen /\ listing'.kept = listing.kept
           /\ listing'.steady \in BOOLEAN
           /\ listing'.steady => listing.steady /\ (pin \/ v \notin pins)
           /\ listing' \in [file : VersionedFiles \cup {Gone}, offset : Nat,
                            seen : SUBSET Version, kept : SUBSET Version, steady : BOOLEAN]
  <1> DEFINE s == listing.steady /\ (pin \/ v \notin pins)
  <1>1. listing' = [listing EXCEPT !.steady = s]
    BY DEF UpdateFileVersion
  <1>2. s \in BOOLEAN /\ (s => listing.steady /\ (pin \/ v \notin pins))
    OBVIOUS
  <1>3. listing \in [file : VersionedFiles \cup {Gone}, offset : Nat, seen : SUBSET Version,
                     kept : SUBSET Version, steady : BOOLEAN]
    BY DEF ListingTypes
  <1> HIDE DEF s
  <1>4. /\ listing'.file = listing.file /\ listing'.offset = listing.offset
        /\ listing'.seen = listing.seen /\ listing'.kept = listing.kept
        /\ listing'.steady = s
        /\ listing' \in [file : VersionedFiles \cup {Gone}, offset : Nat,
                         seen : SUBSET Version, kept : SUBSET Version, steady : BOOLEAN]
    BY <1>1, <1>2, <1>3
  <1> QED
    BY <1>2, <1>4

LEMMA StartingListing ==
    ASSUME ListingTypes, NEW f \in VersionedFiles, StartListing(f)
    PROVE  /\ listing'.file = f /\ listing'.offset = 0 /\ listing'.seen = {}
           /\ listing'.kept = OfFile(f, versions)
           /\ listing'.steady = (Cardinality(Regular(f, versions, pins)) <= KeepLatest)
           /\ listing' \in [file : VersionedFiles \cup {Gone}, offset : Nat,
                            seen : SUBSET Version, kept : SUBSET Version, steady : BOOLEAN]
           /\ UNCHANGED <<headRev, headContent, versions, pins>>
  <1> DEFINE s == Cardinality(Regular(f, versions, pins)) <= KeepLatest
  <1>1. /\ listing' = [file |-> f, offset |-> 0, seen |-> {}, kept |-> OfFile(f, versions),
                       steady |-> s]
        /\ UNCHANGED <<headRev, headContent, versions, pins>>
    BY DEF StartListing, NotListing, OfFile
  <1>2. s \in BOOLEAN /\ OfFile(f, versions) \in SUBSET Version /\ {} \in SUBSET Version
    BY DEF ListingTypes, FTypeOK, OfFile
  <1> HIDE DEF s
  <1>3. /\ listing'.file = f /\ listing'.offset = 0 /\ listing'.seen = {}
        /\ listing'.kept = OfFile(f, versions) /\ listing'.steady = s
    BY <1>1
  <1>4. listing' \in [file : VersionedFiles \cup {Gone}, offset : Nat,
                      seen : SUBSET Version, kept : SUBSET Version, steady : BOOLEAN]
    BY <1>1, <1>2
  <1> QED
    BY <1>1, <1>3, <1>4 DEF s

\* A page is what comes after the cursor; it is the last one when nothing is left.
LEMMA ReadingPage ==
    ASSUME ListingTypes, ListFileVersions
    PROVE  /\ listing.file # Gone /\ listing.offset # MaxCommits + 1
           /\ listing'.file = listing.file /\ listing'.steady = listing.steady
           /\ listing'.kept = listing.kept \cap versions
           /\ listing'.seen = listing.seen \cup
                 {v \in OfFile(listing.file, versions) :
                     listing.offset < NewestFirst(v) /\ NewestFirst(v) <= listing.offset + PageSize}
           /\ \/ /\ listing.offset + PageSize < Cardinality(OfFile(listing.file, versions))
                 /\ listing'.offset = listing.offset + PageSize
              \/ /\ ~(listing.offset + PageSize < Cardinality(OfFile(listing.file, versions)))
                 /\ listing'.offset = MaxCommits + 1
           /\ listing' \in [file : VersionedFiles \cup {Gone}, offset : Nat,
                            seen : SUBSET Version, kept : SUBSET Version, steady : BOOLEAN]
           /\ UNCHANGED <<headRev, headContent, versions, pins>>
  <1> DEFINE all  == OfFile(listing.file, versions)
             upto == listing.offset + PageSize
             page == {v \in all : listing.offset < NewestFirst(v) /\ NewestFirst(v) <= upto}
             next == IF upto < Cardinality(all) THEN upto ELSE MaxCommits + 1
  <1>1. /\ listing.file # Gone /\ listing.offset # MaxCommits + 1
        /\ listing' = [listing EXCEPT !.seen = listing.seen \cup page,
                                      !.kept = listing.kept \cap versions, !.offset = next]
        /\ UNCHANGED <<headRev, headContent, versions, pins>>
    BY Zenon DEF ListFileVersions, OfFile
  <1>2. /\ listing \in [file : VersionedFiles \cup {Gone}, offset : Nat, seen : SUBSET Version,
                        kept : SUBSET Version, steady : BOOLEAN]
        /\ page \subseteq Version /\ next \in Nat
    BY PageSizeIsPos, MaxCommitsIsNat DEF ListingTypes, FTypeOK, OfFile
  <1>3. \/ upto < Cardinality(all) /\ next = upto
        \/ ~(upto < Cardinality(all)) /\ next = MaxCommits + 1
    OBVIOUS
  <1> HIDE DEF page, next, all, upto
  <1>4. /\ listing'.file = listing.file /\ listing'.steady = listing.steady
        /\ listing'.kept = listing.kept \cap versions /\ listing'.offset = next
        /\ listing'.seen = listing.seen \cup page
    BY <1>1, <1>2
  <1>5. listing' \in [file : VersionedFiles \cup {Gone}, offset : Nat,
                      seen : SUBSET Version, kept : SUBSET Version, steady : BOOLEAN]
    BY <1>1, <1>2
  <1> QED
    BY <1>1, <1>3, <1>4, <1>5 DEF page, all, upto

LEMMA AtMostMaxCommits ==
    ASSUME NEW f, NEW vs \in SUBSET Version
    PROVE  Cardinality(OfFile(f, vs)) <= MaxCommits
  <1> DEFINE R   == OfFile(f, vs)
             rev == [v \in R |-> v[2]]
  <1>1. \A v \in R : v = <<f, v[2]>> /\ v[2] \in 1 .. MaxCommits
    BY DEF OfFile, Version
  <1>2. rev \in Injection(R, 1 .. MaxCommits)
    <2>1. rev \in [R -> 1 .. MaxCommits]
      BY <1>1
    <2>2. \A v, w \in R : rev[v] = rev[w] => v = w
      BY <1>1, Zenon
    <2> HIDE DEF rev, R
    <2> QED
      BY <2>1, <2>2 DEF Injection, IsInjective
  <1>3. IsFiniteSet(1 .. MaxCommits) /\ Cardinality(1 .. MaxCommits) = MaxCommits
    BY MaxCommitsIsNat, FS_Interval
  <1> HIDE DEF rev, R
  <1>4. Cardinality(R) <= Cardinality(1 .. MaxCommits)
    BY <1>2, <1>3, FS_Injection, Zenon
  <1> QED
    BY <1>3, <1>4 DEF R

LEMMA PositionIsNat ==
    ASSUME NEW v, NEW vs \in SUBSET Version
    PROVE  Cardinality({w \in vs : w[1] = v[1] /\ w[2] >= v[2]}) \in Nat
  <1>1. {w \in vs : w[1] = v[1] /\ w[2] >= v[2]} \in SUBSET OfFile(v[1], vs)
    BY DEF OfFile
  <1> QED
    BY <1>1, FileIsFinite

\* The version a commit adds to the file makes up, before every older one, for the
\* one that goes.
LEMMA CommitKeepsPosition ==
    ASSUME ListingTypes, NEW content, NEW referenced \in SUBSET VersionedFiles,
           NEW directives \in SUBSET VersionedFiles, NEW pinned, NEW v \in versions \cap versions',
           Cardinality(Regular(v[1], versions, pins)) <= KeepLatest,
           CommitVersions(content, referenced, directives, pinned)
    PROVE  NewestFirst(v)' >= NewestFirst(v)
  <1> DEFINE f       == v[1]
             new     == <<f, headRev + 1>>
             Upto(s) == {w \in s : w[2] >= v[2]}
             old     == OfFile(f, versions)
             now     == OfFile(f, versions')
  <1>1. /\ VersionTypes /\ versions \in SUBSET Version /\ headRev \in Nat
        /\ \A w \in versions : w[2] <= headRev /\ w[2] \in Nat
    BY MaxCommitsIsNat DEF ListingTypes, FTypeOK, VersionTypes, Version
  <1>2. NewestFirst(v) = Cardinality(Upto(old)) /\ NewestFirst(v)' = Cardinality(Upto(now))
    <2>1. /\ {w \in versions : w[1] = v[1] /\ w[2] >= v[2]} = Upto(old)
          /\ {w \in versions' : w[1] = v[1] /\ w[2] >= v[2]} = Upto(now)
      BY DEF OfFile
    <2> QED
      BY <2>1 DEF NewestFirst
  <1>3. versions' \in SUBSET Version
    BY <1>1, CommitVersionsParts
  <1>4. /\ IsFiniteSet(Upto(old)) /\ Cardinality(Upto(old)) \in Nat
        /\ IsFiniteSet(Upto(now)) /\ Cardinality(Upto(now)) \in Nat
    <2>1. Upto(old) \in SUBSET OfFile(f, versions) /\ Upto(now) \in SUBSET OfFile(f, versions')
      OBVIOUS
    <2> HIDE DEF Upto, f
    <2> QED
      BY <1>1, <1>3, <2>1, FileIsFinite
  <1>5. CASE now = old
    BY <1>2, <1>4, <1>5
  <1>6. CASE now # old
    <2>1. PICK vs \in SUBSET Version : \E ps : OneVersionMore(f, vs, ps)
      <3>1. SameVersions(f) \/ \E vs \in SUBSET Version : \E ps : OneVersionMore(f, vs, ps)
        BY <1>1, CommitOfFile
      <3> QED
        BY <1>6, <3>1 DEF SameVersions
    <2>2. PICK ps :
             /\ vs \subseteq versions \cup (VersionedFiles \X {headRev + 1})
             /\ Regular(f, vs, ps) \subseteq Regular(f, versions, pins) \cup {new}
             /\ now = (old \cup {new}) \ Retired(f, vs, ps)
      BY <2>1 DEF OneVersionMore
    <2> DEFINE out == Retired(f, vs, ps)
    <2>3. Cardinality(Regular(f, vs, ps)) <= KeepLatest + 1
      <3> DEFINE R == Regular(f, versions, pins)
      <3>1. IsFiniteSet(R) /\ Cardinality(R) \in Nat /\ Cardinality(R) <= KeepLatest
        BY <1>1, FewVersions
      <3> HIDE DEF R
      <3>2. /\ IsFiniteSet(R \cup {new})
            /\ Cardinality(R \cup {new}) = IF new \in R THEN Cardinality(R) ELSE Cardinality(R) + 1
        BY <3>1, FS_AddElement
      <3>3. Cardinality(Regular(f, vs, ps)) <= Cardinality(R \cup {new})
        BY <2>2, <3>2, FS_Subset DEF R
      <3>4. Cardinality(Regular(f, vs, ps)) \in Nat
        BY FewVersions
      <3> HIDE DEF new
      <3> QED
        BY <3>1, <3>2, <3>3, <3>4, KeepLatestIsPos
    <2>4. new \notin out
      <3>1. {w \in Regular(f, vs, ps) : w[2] > new[2]} = {}
        <4>1. \A w \in vs : w[2] <= headRev + 1
          <5>1. \A w \in VersionedFiles \X {headRev + 1} : w[2] = headRev + 1
            OBVIOUS
          <5>2. \A w \in versions : w[2] <= headRev + 1
            BY <1>1
          <5> QED
            BY <1>1, <2>2, <5>1, <5>2
        <4>2. \A w \in vs : w[2] \in Nat
          BY MaxCommitsIsNat DEF Version
        <4>3. new[2] = headRev + 1
          OBVIOUS
        <4> HIDE DEF new
        <4> QED
          BY <1>1, <4>1, <4>2, <4>3 DEF Regular
      <3>2. Cardinality({w \in Regular(f, vs, ps) : w[2] > new[2]}) = 0
        BY <3>1, FS_EmptySet
      <3> HIDE DEF new
      <3> QED
        BY <3>2, KeepLatestIsPos DEF Retired
    <2>5. new \notin old
      BY <1>1 DEF OfFile
    <2>6. new \in Upto(now)
      <3>1. new \in now
        BY <2>2, <2>4
      <3>2. v[2] <= headRev + 1 /\ new[2] = headRev + 1
        BY <1>1
      <3> HIDE DEF new, now
      <3> QED
        BY <3>1, <3>2
    <2>7. CASE out = {}
      <3>1. Upto(old) \subseteq Upto(now)
        BY <2>2, <2>7
      <3> HIDE DEF Upto
      <3> QED
        BY <1>2, <1>4, <3>1, FS_Subset
    <2>8. CASE out # {}
      <3>1. PICK r : out = {r}
        BY <2>3, <2>8, RetiredAtMostOne
      <3>2. (Upto(old) \ {r}) \cup {new} \subseteq Upto(now)
        <4>1. Upto(old) \ {r} \subseteq Upto(now)
          BY <2>2, <3>1
        <4> HIDE DEF Upto, new
        <4> QED
          BY <2>6, <4>1
      <3>3. new \notin Upto(old)
        BY <2>5
      <3> HIDE DEF Upto, new, out, f, old, now
      <3> DEFINE most == Upto(old) \ {r}
      <3>4. /\ IsFiniteSet(most) /\ Cardinality(most) \in Nat
            /\ Cardinality(Upto(old)) <= Cardinality(most) + 1
        <4>1. /\ IsFiniteSet(most)
              /\ Cardinality(most) = IF r \in Upto(old) THEN Cardinality(Upto(old)) - 1
                                                        ELSE Cardinality(Upto(old))
          BY <1>4, FS_RemoveElement
        <4>2. Cardinality(most) \in Nat
          BY <4>1, FS_CardinalityType
        <4> HIDE DEF most
        <4> QED
          BY <1>4, <4>1, <4>2
      <3>5. new \notin most
        BY <3>3
      <3>6. most \cup {new} \subseteq Upto(now)
        BY <3>2
      <3> HIDE DEF most
      <3>7. Cardinality(most \cup {new}) = Cardinality(most) + 1
        BY <3>4, <3>5, FS_AddElement
      <3>8. Cardinality(most \cup {new}) <= Cardinality(Upto(now))
        BY <1>4, <3>6, FS_Subset
      <3> QED
        BY <1>2, <1>4, <3>4, <3>7, <3>8
    <2> QED
      BY <2>7, <2>8
  <1> QED
    BY <1>5, <1>6

LEMMA ListingInit == FInit => ListingInv
  <1> SUFFICES ASSUME FInit PROVE ListingInv
    OBVIOUS
  <1>1. /\ listing.file = Gone /\ listing.offset = 0 /\ listing.seen = {} /\ listing.kept = {}
        /\ listing.steady = TRUE
        /\ listing = [file |-> Gone, offset |-> 0, seen |-> {}, kept |-> {}, steady |-> TRUE]
    BY DEF FInit, NotListing
  <1>2. listing \in [file : VersionedFiles \cup {Gone}, offset : Nat, seen : SUBSET Version,
                     kept : SUBSET Version, steady : BOOLEAN]
    BY <1>1
  <1>3. FTypeOK
    BY <1>1, MaxCommitsIsNat DEF FInit, FTypeOK
  <1>4. ListingTypes
    BY <1>1, <1>2, <1>3 DEF FInit, ListingTypes
  <1> QED
    BY <1>1, <1>4 DEF ListingInv, StaysFew, Ahead, ListingFindsKept, ListedVersions

LEMMA CommitKeepsListing ==
    ASSUME ListingInv, NEW content \in [VersionedFiles -> VersionContents \cup {Gone}],
           NEW referenced \in SUBSET VersionedFiles, NEW directives \in SUBSET VersionedFiles,
           NEW pinned \in SUBSET VersionedFiles,
           CommitVersions(content, referenced, directives, pinned)
    PROVE  ListingInv'
  <1>1. /\ ListingTypes /\ FTypeOK /\ VersionTypes /\ headRev \in Nat
    BY MaxCommitsIsNat DEF ListingInv, ListingTypes, FTypeOK, VersionTypes
  <1>2. listing' = listing /\ headContent' = content /\ headRev' = headRev + 1
    BY Zenon DEF CommitVersions
  <1>3. VersionTypes' /\ versions' \subseteq Version /\ pins' \subseteq versions'
    BY <1>1, CommitVersionsParts DEF VersionTypes
  <1>4. \A v \in versions' : v \in versions \/ v[2] = headRev + 1
    BY <1>1, CommitVersionsParts DEF VersionsBefore, Added
  <1>5. FTypeOK'
    BY <1>1, <1>2, <1>3 DEF FTypeOK, VersionTypes
  <1>6. ListingTypes'
    <2>1. \A v \in versions \cup listing.kept : v[2] <= headRev /\ v[2] \in Nat
      BY <1>1, MaxCommitsIsNat DEF ListingTypes, FTypeOK, Version
    <2>2. \A v \in versions' \cup listing.kept : v[2] <= headRev + 1
      BY <1>1, <1>4, <2>1
    <2> QED
      BY <1>1, <1>2, <1>5, <2>2 DEF ListingTypes
  <1>7. listing.kept \cap versions' \subseteq listing.kept \cap versions
    <2>1. \A v \in listing.kept : v[2] <= headRev /\ v[2] \in Nat
      BY <1>1, MaxCommitsIsNat DEF ListingTypes, FTypeOK, Version
    <2> QED
      BY <1>1, <1>4, <2>1
  <1>8. StaysFew'
    <2> SUFFICES ASSUME listing.file # Gone, listing.steady
                 PROVE  Cardinality(Regular(listing.file, versions', pins')) <= KeepLatest
      BY <1>2 DEF StaysFew
    <2>1. Cardinality(Regular(listing.file, versions, pins)) <= KeepLatest
      BY DEF ListingInv, StaysFew
    <2>2. CASE Regular(listing.file, versions', pins') = Regular(listing.file, versions, pins)
      BY <2>1, <2>2
    <2>3. CASE \E vs \in SUBSET Version : \E ps : OneVersionMore(listing.file, vs, ps)
      BY <2>3, RetainedFew DEF OneVersionMore
    <2> QED
      BY <1>1, <2>2, <2>3, CommitOfFile DEF SameVersions
  <1>9. Ahead'
    <2> SUFFICES ASSUME listing.file # Gone, listing.steady, listing.offset # MaxCommits + 1,
                        NEW v \in listing.kept \cap versions', v \notin listing.seen
                 PROVE  NewestFirst(v)' > listing.offset
      BY <1>2 DEF Ahead
    <2>1. v \in versions \cap versions' /\ v[1] = listing.file
      BY <1>1, <1>7 DEF ListingTypes
    <2>2. NewestFirst(v) > listing.offset
      BY <1>7 DEF ListingInv, Ahead
    <2>3. NewestFirst(v)' >= NewestFirst(v)
      <3>1. Cardinality(Regular(v[1], versions, pins)) <= KeepLatest
        BY <2>1 DEF ListingInv, StaysFew
      <3> QED
        BY <1>1, <2>1, <3>1, CommitKeepsPosition
    <2>4. NewestFirst(v) \in Nat /\ NewestFirst(v)' \in Nat
      <3>1. versions \in SUBSET Version /\ versions' \in SUBSET Version
        BY <1>1, <1>3 DEF VersionTypes
      <3> QED
        BY <3>1, PositionIsNat DEF NewestFirst
    <2>5. listing.offset \in Nat
      BY <1>1 DEF ListingTypes
    <2> QED
      BY <2>2, <2>3, <2>4, <2>5
  <1>10. ListingFindsKept'
    BY <1>2, <1>7 DEF ListingInv, ListingFindsKept, ListedVersions
  <1> QED
    BY <1>6, <1>8, <1>9, <1>10 DEF ListingInv

LEMMA PinKeepsListing ==
    ASSUME ListingInv, NEW v \in versions, NEW pin \in BOOLEAN, UpdateFileVersion(v, pin)
    PROVE  ListingInv'
  <1>1. ListingTypes /\ FTypeOK
    BY DEF ListingInv, ListingTypes
  <1>2. /\ UNCHANGED <<headRev, headContent, versions>>
        /\ pins' = IF pin THEN pins \cup {v} ELSE pins \ {v}
    BY DEF UpdateFileVersion
  <1>3. /\ listing'.file = listing.file /\ listing'.offset = listing.offset
        /\ listing'.seen = listing.seen /\ listing'.kept = listing.kept
        /\ listing'.steady \in BOOLEAN
        /\ listing'.steady => listing.steady /\ (pin \/ v \notin pins)
        /\ listing' \in [file : VersionedFiles \cup {Gone}, offset : Nat,
                         seen : SUBSET Version, kept : SUBSET Version, steady : BOOLEAN]
    BY <1>1, PinningListing
  <1>4. FTypeOK'
    BY <1>1, <1>2, <1>3 DEF FTypeOK
  <1>5. ListingTypes'
    BY <1>1, <1>2, <1>3, <1>4 DEF ListingTypes
  <1>6. StaysFew'
    <2> SUFFICES ASSUME listing'.file # Gone, listing'.steady
                 PROVE  Cardinality(Regular(listing.file, versions, pins')) <= KeepLatest
      BY <1>2, <1>3 DEF StaysFew
    <2>1. Regular(listing.file, versions, pins') \subseteq Regular(listing.file, versions, pins)
      BY <1>2, <1>3 DEF Regular
    <2>2. /\ IsFiniteSet(Regular(listing.file, versions, pins))
          /\ Cardinality(Regular(listing.file, versions, pins)) \in Nat
          /\ Cardinality(Regular(listing.file, versions, pins')) \in Nat
      BY <1>1, FewVersions DEF FTypeOK
    <2>3. Cardinality(Regular(listing.file, versions, pins')) <=
             Cardinality(Regular(listing.file, versions, pins))
      BY <2>1, <2>2, FS_Subset
    <2>4. Cardinality(Regular(listing.file, versions, pins)) <= KeepLatest
      BY <1>3 DEF ListingInv, StaysFew
    <2> QED
      BY <2>2, <2>3, <2>4, KeepLatestIsPos
  <1>7. \A w : NewestFirst(w)' = NewestFirst(w)
    BY <1>2 DEF NewestFirst
  <1>8. Ahead'
    BY <1>2, <1>3, <1>7 DEF ListingInv, Ahead
  <1>9. ListingFindsKept'
    BY <1>2, <1>3 DEF ListingInv, ListingFindsKept, ListedVersions
  <1> QED
    BY <1>5, <1>6, <1>8, <1>9 DEF ListingInv

LEMMA StartKeepsListing ==
    ASSUME ListingInv, NEW f \in VersionedFiles, StartListing(f)
    PROVE  ListingInv'
  <1>1. ListingTypes /\ FTypeOK
    BY DEF ListingInv, ListingTypes
  <1>2. /\ listing'.file = f /\ listing'.offset = 0 /\ listing'.seen = {}
        /\ listing'.kept = OfFile(f, versions)
        /\ listing'.steady = (Cardinality(Regular(f, versions, pins)) <= KeepLatest)
        /\ listing' \in [file : VersionedFiles \cup {Gone}, offset : Nat,
                         seen : SUBSET Version, kept : SUBSET Version, steady : BOOLEAN]
        /\ UNCHANGED <<headRev, headContent, versions, pins>>
    BY <1>1, StartingListing
  <1>3. OfFile(f, versions) \subseteq versions /\ \A v \in OfFile(f, versions) : v[1] = f
    BY DEF OfFile
  <1>4. FTypeOK'
    BY <1>1, <1>2, <1>3 DEF FTypeOK
  <1>5. ListingTypes'
    BY <1>1, <1>2, <1>3, <1>4 DEF ListingTypes
  <1>6. StaysFew'
    BY <1>2 DEF StaysFew
  <1>7. Ahead'
    <2>1. \A v \in versions : NewestFirst(v) > 0
      <3> SUFFICES ASSUME NEW v \in versions PROVE NewestFirst(v) > 0
        OBVIOUS
      <3> DEFINE S == {w \in versions : w[1] = v[1] /\ w[2] >= v[2]}
      <3>1. v[2] \in Nat
        BY <1>1, MaxCommitsIsNat DEF FTypeOK, Version
      <3>2. v \in S
        BY <3>1
      <3>3. S \in SUBSET OfFile(v[1], versions)
        BY DEF OfFile
      <3>4. IsFiniteSet(S) /\ Cardinality(S) \in Nat
        BY <1>1, <3>3, FileIsFinite DEF FTypeOK
      <3> HIDE DEF S
      <3>5. Cardinality(S) # 0
        BY <3>2, <3>4, FS_EmptySet
      <3> QED
        BY <3>4, <3>5 DEF NewestFirst, S
    <2>2. \A v : NewestFirst(v)' = NewestFirst(v)
      BY <1>2 DEF NewestFirst
    <2> QED
      BY <1>2, <1>3, <2>1, <2>2 DEF Ahead
  <1>8. ListingFindsKept'
    BY <1>2, MaxCommitsIsNat DEF ListingFindsKept, ListedVersions
  <1> QED
    BY <1>5, <1>6, <1>7, <1>8 DEF ListingInv

LEMMA PageKeepsListing ==
    ASSUME ListingInv, ListFileVersions
    PROVE  ListingInv'
  <1> DEFINE all  == OfFile(listing.file, versions)
             upto == listing.offset + PageSize
             page == {v \in all : listing.offset < NewestFirst(v) /\ NewestFirst(v) <= upto}
  <1>1. ListingTypes /\ FTypeOK
    BY DEF ListingInv, ListingTypes
  <1>2. /\ listing.file # Gone /\ listing.offset # MaxCommits + 1
        /\ listing'.file = listing.file /\ listing'.steady = listing.steady
        /\ listing'.kept = listing.kept \cap versions
        /\ listing'.seen = listing.seen \cup page
        /\ \/ upto < Cardinality(all) /\ listing'.offset = upto
           \/ ~(upto < Cardinality(all)) /\ listing'.offset = MaxCommits + 1
        /\ listing' \in [file : VersionedFiles \cup {Gone}, offset : Nat,
                         seen : SUBSET Version, kept : SUBSET Version, steady : BOOLEAN]
        /\ UNCHANGED <<headRev, headContent, versions, pins>>
    BY <1>1, ReadingPage
  <1>3. \A v : NewestFirst(v)' = NewestFirst(v)
    BY <1>2 DEF NewestFirst
  <1>4. IsFiniteSet(all) /\ Cardinality(all) \in Nat
    BY <1>1, FileIsFinite DEF FTypeOK
  <1>5. \A v \in all : NewestFirst(v) \in Nat /\ NewestFirst(v) <= Cardinality(all)
    <2> SUFFICES ASSUME NEW v \in all
                 PROVE  NewestFirst(v) \in Nat /\ NewestFirst(v) <= Cardinality(all)
      OBVIOUS
    <2>1. {w \in versions : w[1] = v[1] /\ w[2] >= v[2]} \subseteq all
      BY DEF OfFile
    <2> QED
      BY <1>4, <2>1, FS_Subset, FS_CardinalityType DEF NewestFirst
  <1>6. upto \in Nat /\ listing.offset \in Nat
    BY <1>1, PageSizeIsPos DEF ListingTypes
  <1>7. listing.kept \cap versions \subseteq all
    BY <1>1 DEF ListingTypes, OfFile
  <1> HIDE DEF all, upto
  <1>8. ASSUME listing.steady, NEW v \in listing.kept \cap versions, v \notin listing'.seen
        PROVE  NewestFirst(v) > upto
    <2>1. NewestFirst(v) > listing.offset
      BY <1>2, <1>8 DEF ListingInv, Ahead
    <2>2. v \in all /\ v \notin page
      BY <1>2, <1>7, <1>8
    <2> QED
      BY <1>5, <1>6, <2>1, <2>2
  <1>9. FTypeOK'
    BY <1>1, <1>2 DEF FTypeOK
  <1>10. ListingTypes'
    BY <1>1, <1>2, <1>9 DEF ListingTypes
  <1>11. StaysFew'
    BY <1>2 DEF ListingInv, StaysFew
  <1>12. CASE upto < Cardinality(all) /\ listing'.offset = upto
    <2>1. listing'.offset # MaxCommits + 1
      <3>1. Cardinality(all) <= MaxCommits
        BY <1>1, AtMostMaxCommits DEF all, FTypeOK
      <3> QED
        BY <1>4, <1>6, <1>12, <3>1, MaxCommitsIsNat
    <2>2. ListingFindsKept'
      BY <2>1 DEF ListingFindsKept, ListedVersions
    <2>3. Ahead'
      BY <1>2, <1>3, <1>8, <1>12 DEF Ahead
    <2> QED
      BY <1>10, <1>11, <2>2, <2>3 DEF ListingInv
  <1>13. CASE ~(upto < Cardinality(all)) /\ listing'.offset = MaxCommits + 1
    <2>1. ASSUME listing.steady, NEW v \in listing.kept \cap versions PROVE v \in listing'.seen
      <3>1. SUFFICES ASSUME v \notin listing'.seen PROVE FALSE
        OBVIOUS
      <3>2. NewestFirst(v) > upto
        BY <1>8, <2>1, <3>1
      <3>3. v \in all
        BY <1>7
      <3> QED
        BY <1>4, <1>5, <1>6, <1>13, <3>2, <3>3
    <2>2. ListingFindsKept'
      BY <1>2, <2>1 DEF ListingFindsKept
    <2>3. Ahead'
      BY <1>13 DEF Ahead
    <2> QED
      BY <1>10, <1>11, <2>2, <2>3 DEF ListingInv
  <1> QED
    BY <1>2, <1>12, <1>13

LEMMA ListingStep == ListingInv /\ [FNext]_fvars => ListingInv'
  <1> SUFFICES ASSUME ListingInv, [FNext]_fvars PROVE ListingInv'
    OBVIOUS
  <1>1. ASSUME NEW content \in [VersionedFiles -> VersionContents \cup {Gone}],
               NEW referenced \in SUBSET VersionedFiles,
               NEW directives \in SUBSET VersionedFiles,
               NEW pinned \in SUBSET VersionedFiles,
               CommitVersions(content, referenced, directives, pinned)
        PROVE  ListingInv'
    BY <1>1, CommitKeepsListing
  <1>2. ASSUME NEW v \in versions, NEW pin \in BOOLEAN, UpdateFileVersion(v, pin)
        PROVE  ListingInv'
    BY <1>2, PinKeepsListing
  <1>3. ASSUME NEW f \in VersionedFiles, StartListing(f) PROVE ListingInv'
    BY <1>3, StartKeepsListing
  <1>4. CASE ListFileVersions
    BY <1>4, PageKeepsListing
  <1>5. CASE EndListing
    <2>1. /\ listing' = [file |-> Gone, offset |-> 0, seen |-> {}, kept |-> {}, steady |-> TRUE]
          /\ UNCHANGED <<headRev, headContent, versions, pins>>
      BY <1>5 DEF EndListing, NotListing
    <2>2. /\ listing'.file = Gone /\ listing'.seen = {} /\ listing'.kept = {}
          /\ listing' \in [file : VersionedFiles \cup {Gone}, offset : Nat,
                           seen : SUBSET Version, kept : SUBSET Version, steady : BOOLEAN]
      BY <2>1
    <2>3. ListingTypes'
      BY <2>1, <2>2 DEF ListingInv, ListingTypes, FTypeOK
    <2> QED
      BY <2>2, <2>3 DEF ListingInv, StaysFew, Ahead, ListingFindsKept, ListedVersions
  <1>6. CASE UNCHANGED fvars
    BY <1>6 DEF fvars, ListingInv, ListingTypes, FTypeOK, StaysFew, Ahead, ListingFindsKept,
                ListedVersions, NewestFirst
  <1> QED
    BY <1>1, <1>2, <1>3, <1>4, <1>5, <1>6 DEF FNext

\* Read page by page, a file's list shows every version that was there from the first
\* page to the last, whatever is committed and pinned in between, as long as retention
\* takes no more from the file than its commits add.
THEOREM ListingsAreWhole == FSpec => []ListingFindsKept
  <1>1. ListingInv => ListingFindsKept
    BY DEF ListingInv
  <1> QED
    BY <1>1, ListingInit, ListingStep, PTL DEF FSpec

-----------------------------------------------------------------------------
(* Downloads: the types                                                    *)

Piece == [offset : Nat, bytes : Seq(Nat)]

DownloadTypes ==
    /\ DTypeOK
    /\ ticket \in [kind : {"none", "download", "resumable_download"}, live : BOOLEAN,
                   ranges : Seq(ByteRange)]
    /\ fetch \in [at : {"idle", "read", "ranges", "joining"}, got : Seq(Piece),
                  left : SUBSET Nat, bytes : Seq(Nat)]

\* Every piece is a part of the blob, and what is joined is a beginning of it.
PiecesAreExact ==
    \A i \in DOMAIN fetch.got : \E n \in Nat :
        fetch.got[i].bytes = ObjectBytes(fetch.got[i].offset, n)
BytesAreExact == \E n \in Nat : fetch.bytes = ObjectBytes(0, n)

DownloadInv == DownloadTypes /\ PiecesAreExact /\ BytesAreExact /\ DownloadsAreExact

LEMMA ObjectBytesShape ==
    ASSUME NEW from \in Nat, NEW n \in Nat
    PROVE  /\ ObjectBytes(from, n) \in Seq(Nat)
           /\ Len(ObjectBytes(from, n)) = n
           /\ DOMAIN ObjectBytes(from, n) = 1 .. n
           /\ \A i \in 1 .. n : ObjectBytes(from, n)[i] = from + i - 1
  <1>1. ObjectBytes(from, n) \in [1 .. n -> Nat]
    BY DEF ObjectBytes
  <1>2. ObjectBytes(from, n) \in Seq(Nat)
    BY <1>1, SeqDef
  <1>3. DOMAIN ObjectBytes(from, n) = 1 .. n
    BY DEF ObjectBytes
  <1>4. Len(ObjectBytes(from, n)) = n
    BY <1>2, <1>3, LenProperties
  <1> QED
    BY <1>2, <1>3, <1>4 DEF ObjectBytes

\* A piece that starts where a beginning of the blob ends makes it a longer one.
LEMMA ObjectBytesJoin ==
    ASSUME NEW m \in Nat, NEW n \in Nat
    PROVE  ObjectBytes(0, m) \o ObjectBytes(m, n) = ObjectBytes(0, m + n)
  <1> DEFINE a == ObjectBytes(0, m)
             b == ObjectBytes(m, n)
             c == ObjectBytes(0, m + n)
  <1>1. /\ a \in Seq(Nat) /\ Len(a) = m /\ \A i \in 1 .. m : a[i] = 0 + i - 1
        /\ b \in Seq(Nat) /\ Len(b) = n /\ \A i \in 1 .. n : b[i] = m + i - 1
        /\ c \in Seq(Nat) /\ Len(c) = m + n /\ \A i \in 1 .. m + n : c[i] = 0 + i - 1
    <2>1. m + n \in Nat /\ 0 \in Nat
      OBVIOUS
    <2>2. a \in Seq(Nat) /\ Len(a) = m /\ \A i \in 1 .. m : a[i] = 0 + i - 1
      BY <2>1, ObjectBytesShape
    <2>3. b \in Seq(Nat) /\ Len(b) = n /\ \A i \in 1 .. n : b[i] = m + i - 1
      BY ObjectBytesShape
    <2>4. c \in Seq(Nat) /\ Len(c) = m + n /\ \A i \in 1 .. m + n : c[i] = 0 + i - 1
      BY <2>1, ObjectBytesShape
    <2> QED
      BY <2>2, <2>3, <2>4
  <1> HIDE DEF a, b, c
  <1>2. /\ a \o b \in Seq(Nat) /\ Len(a \o b) = m + n
        /\ \A i \in 1 .. m + n : (a \o b)[i] = IF i <= m THEN a[i] ELSE b[i - m]
    BY <1>1, ConcatProperties
  <1>3. \A i \in 1 .. m + n : (a \o b)[i] = c[i]
    <2>1. \A i \in 1 .. m + n : ~(i <= m) => i - m \in 1 .. n
      OBVIOUS
    <2> QED
      BY <1>1, <1>2, <2>1
  <1>4. a \o b = c
    BY <1>1, <1>2, <1>3, SeqEqual
  <1> QED
    BY <1>4 DEF a, b, c

LEMMA DownloadInit == DInit => DownloadInv
  <1> SUFFICES ASSUME DInit PROVE DownloadInv
    OBVIOUS
  <1>1. << >> \in Seq(ByteRange) /\ << >> \in Seq(Piece) /\ << >> \in Seq(Nat) /\ Len(<< >>) = 0
        /\ DOMAIN << >> = {}
    BY EmptySeq
  <1>2. ObjectBytes(0, 0) = << >>
    BY ObjectBytesShape, EmptySeq
  <1>3. fetch = NotFetching /\ ticket = NoTicket /\ payload = NoPayload /\ stored \in 0 .. Size
    BY SizeIsNat DEF DInit
  <1>4. DownloadTypes
    BY <1>1, <1>3, MaxRangesIsNat DEF DownloadTypes, DTypeOK, NotFetching, NoTicket
  <1> QED
    BY <1>1, <1>2, <1>3, <1>4 DEF DownloadInv, PiecesAreExact, BytesAreExact, DownloadsAreExact,
                                  NotFetching

LEMMA FetchAfreshTypes ==
    ASSUME NEW f, NEW where \in {"idle", "read", "ranges"},
           f = [at |-> where, got |-> << >>, left |-> {}, bytes |-> << >>]
    PROVE  /\ f.at = where /\ f.got = << >> /\ f.left = {} /\ f.bytes = << >>
           /\ f \in [at : {"idle", "read", "ranges", "joining"}, got : Seq(Piece),
                          left : SUBSET Nat, bytes : Seq(Nat)]
  <1> DEFINE none == << >>
  <1>1. where \in {"idle", "read", "ranges", "joining"} /\ {} \in SUBSET Nat
    OBVIOUS
  <1>2. none \in Seq(Piece) /\ none \in Seq(Nat)
    BY EmptySeq
  <1>3. f = [at |-> where, got |-> none, left |-> {}, bytes |-> none]
    OBVIOUS
  <1> HIDE DEF none
  <1>4. /\ f.at = where /\ f.got = none /\ f.left = {} /\ f.bytes = none
    BY <1>3
  <1>5. f \in [at : {"idle", "read", "ranges", "joining"}, got : Seq(Piece),
                   left : SUBSET Nat, bytes : Seq(Nat)]
    BY <1>1, <1>2, <1>3
  <1> QED
    BY <1>4, <1>5 DEF none

\* Giving up, and beginning again, leaves nothing behind.
LEMMA FetchAfresh ==
    ASSUME NEW where \in {"idle", "read", "ranges"},
           fetch' = [NotFetching EXCEPT !.at = where],
           stored' \in 0 .. Size, DownloadsAreExact',
           ticket' \in [kind : {"none", "download", "resumable_download"}, live : BOOLEAN,
                        ranges : Seq(ByteRange)],
           Len(ticket'.ranges) <= MaxRanges + 1
    PROVE  DownloadInv'
  <1>1. << >> \in Seq(Piece) /\ << >> \in Seq(Nat) /\ Len(<< >>) = 0 /\ DOMAIN << >> = {}
    BY EmptySeq
  <1>2. ObjectBytes(0, 0) = << >>
    BY ObjectBytesShape, EmptySeq
  <1>3. fetch' = [at |-> where, got |-> << >>, left |-> {}, bytes |-> << >>]
    BY DEF NotFetching
  <1>4. DownloadTypes'
    <2>1. Len(ticket'.ranges) \in Nat
      BY LenProperties
    <2>2. /\ fetch'.at = where /\ fetch'.got = << >> /\ fetch'.left = {} /\ fetch'.bytes = << >>
          /\ fetch' \in [at : {"idle", "read", "ranges", "joining"}, got : Seq(Piece),
                         left : SUBSET Nat, bytes : Seq(Nat)]
      BY <1>3, FetchAfreshTypes
    <2>3. ticket'.kind \in {"none", "download", "resumable_download"}
      OBVIOUS
    <2>4. Len(fetch'.got) = 0
      BY <1>1, <2>2
    <2>5. DTypeOK'
      BY <2>1, <2>2, <2>3, <2>4 DEF DTypeOK
    <2> QED
      BY <2>2, <2>5 DEF DownloadTypes
  <1> QED
    BY <1>1, <1>2, <1>3, <1>4 DEF DownloadInv, PiecesAreExact, BytesAreExact

LEMMA GiveUpKeeps ==
    ASSUME DownloadInv, GiveUpFetch, UNCHANGED <<stored, ticket>>,
           payload' \in {payload, NoPayload, Blob}
    PROVE  DownloadInv'
  <1>1. DownloadsAreExact'
    BY DEF DownloadInv, DownloadsAreExact, Blob, ObjectBytes
  <1>2. fetch' = [NotFetching EXCEPT !.at = "idle"]
    BY DEF GiveUpFetch, NotFetching
  <1> QED
    BY <1>1, <1>2, FetchAfresh DEF DownloadInv, DownloadTypes, DTypeOK

LEMMA DownloadStep == DownloadInv /\ [DNext]_dvars => DownloadInv'
  <1> SUFFICES ASSUME DownloadInv, [DNext]_dvars PROVE DownloadInv'
    OBVIOUS
  <1>0. /\ DownloadTypes /\ DTypeOK /\ DownloadsAreExact
        /\ Len(fetch.got) \in Nat /\ DOMAIN fetch.got = 1 .. Len(fetch.got)
        /\ Len(ticket.ranges) \in Nat
    BY LenProperties DEF DownloadInv, DownloadTypes
  <1>1. CASE InitBlobDownload
    <2>1. << >> \in Seq(ByteRange) /\ Len(<< >>) = 0
      BY EmptySeq
    <2>2. DownloadsAreExact'
      BY <1>0, <1>1 DEF InitBlobDownload, DownloadsAreExact
    <2> QED
      BY <1>0, <1>1, <2>1, <2>2, FetchAfresh, MaxRangesIsNat DEF InitBlobDownload, DTypeOK
  <1>2. CASE ReadBlobDownload
    <2>1. /\ GiveUpFetch /\ UNCHANGED stored
          /\ ticket' \in {ticket, NoTicket}
      BY <1>2 DEF ReadBlobDownload
    <2>2. payload' = payload \/ payload' = Blob
      <3>1. CASE payload' # payload
        <4>1. AcceptDownload(ObjectBytes(0, stored)) /\ payload' = ObjectBytes(0, stored)
          BY <1>2, <3>1 DEF ReadBlobDownload
        <4>2. stored = Size
          BY <1>0, <4>1, ObjectBytesShape DEF AcceptDownload, DTypeOK
        <4> QED
          BY <4>1, <4>2 DEF Blob
      <3> QED
        BY <3>1
    <2>3. DownloadsAreExact'
      BY <1>0, <2>2 DEF DownloadsAreExact, Blob, ObjectBytes
    <2>4. << >> \in Seq(ByteRange) /\ Len(<< >>) = 0
      BY EmptySeq
    <2>5. fetch' = [NotFetching EXCEPT !.at = "idle"]
      BY <2>1 DEF GiveUpFetch, NotFetching
    <2>6. /\ ticket' \in [kind : {"none", "download", "resumable_download"}, live : BOOLEAN,
                          ranges : Seq(ByteRange)]
          /\ Len(ticket'.ranges) <= MaxRanges + 1
      <3>1. CASE ticket' = ticket
        BY <1>0, <3>1 DEF DTypeOK, DownloadTypes
      <3>2. CASE ticket' = NoTicket
        BY <2>4, <3>2, MaxRangesIsNat DEF NoTicket
      <3> QED
        BY <2>1, <3>1, <3>2
    <2>7. stored' \in 0 .. Size
      BY <1>0, <2>1 DEF DTypeOK
    <2> QED
      BY <2>3, <2>5, <2>6, <2>7, FetchAfresh
  <1>3. ASSUME NEW n \in 0 .. MaxRanges, NEW rs \in [1 .. n -> ByteRange],
               InitResumableBlobDownload(rs)
        PROVE  DownloadInv'
    <2>1. n \in Nat /\ n <= MaxRanges
      BY MaxRangesIsNat
    <2>2. rs \in Seq(ByteRange) /\ Len(rs) = n
      <3>1. rs \in Seq(ByteRange)
        BY <2>1, SeqDef
      <3> QED
        BY <2>1, <3>1, LenProperties
    <2>3. Resolved(rs) \in Seq(ByteRange) /\ Len(Resolved(rs)) <= MaxRanges + 1
      <3>1. CASE rs = << >> /\ Size > 0
        <4>1. [offset |-> 0, size |-> Size] \in ByteRange
          BY SizeIsNat DEF ByteRange
        <4>2. /\ <<[offset |-> 0, size |-> Size]>> \in Seq(ByteRange)
              /\ Len(<<[offset |-> 0, size |-> Size]>>) = 1
          BY <4>1
        <4> QED
          BY <3>1, <4>2, MaxRangesIsNat DEF Resolved
      <3>2. CASE ~(rs = << >> /\ Size > 0)
        BY <2>1, <2>2, <3>2, MaxRangesIsNat DEF Resolved
      <3> QED
        BY <3>1, <3>2
    <2>4. DownloadsAreExact'
      BY <1>0, <1>3 DEF InitResumableBlobDownload, DownloadsAreExact
    <2> QED
      BY <1>0, <1>3, <2>3, <2>4, FetchAfresh DEF InitResumableBlobDownload, DTypeOK
  <1>4. CASE ReadResumableBlobDownload
    <2> DEFINE r == ticket.ranges[Len(fetch.got) + 1]
               new == [offset |-> r.offset, bytes |-> ObjectBytes(r.offset, r.size)]
    <2>1. /\ fetch.at = "ranges" /\ Len(fetch.got) < Len(ticket.ranges)
          /\ UNCHANGED <<stored, ticket, payload>>
          /\ \/ fetch' = [fetch EXCEPT !.got = Append(@, new)]
             \/ GiveUpFetch
      BY <1>4 DEF ReadResumableBlobDownload
    <2>2. r \in ByteRange
      <3>1. Len(fetch.got) + 1 \in 1 .. Len(ticket.ranges)
        BY <1>0, <2>1
      <3> QED
        BY <1>0, <3>1, ElementOfSeq DEF DownloadTypes
    <2>3. r.offset \in Nat /\ r.size \in Nat
      BY <2>2, SizeIsNat DEF ByteRange
    <2>4. new \in Piece /\ new.bytes = ObjectBytes(new.offset, r.size)
      BY <2>3, ObjectBytesShape DEF Piece
    <2>5. CASE fetch' = [fetch EXCEPT !.got = Append(@, new)]
      <3> HIDE DEF new, r
      <3>1. /\ fetch'.at = "ranges" /\ fetch'.got = Append(fetch.got, new)
            /\ fetch'.left = fetch.left /\ fetch'.bytes = fetch.bytes
            /\ fetch' = [at |-> "ranges", got |-> Append(fetch.got, new),
                         left |-> fetch.left, bytes |-> fetch.bytes]
        BY <1>0, <2>1, <2>5 DEF DownloadTypes
      <3>2. /\ fetch'.got \in Seq(Piece) /\ Len(fetch'.got) = Len(fetch.got) + 1
            /\ \A i \in 1 .. Len(fetch.got) : fetch'.got[i] = fetch.got[i]
            /\ fetch'.got[Len(fetch.got) + 1] = new
        BY <1>0, <2>4, <3>1, AppendProperties DEF DownloadTypes
      <3>3. DOMAIN fetch'.got = 1 .. (Len(fetch.got) + 1)
        BY <3>2, LenProperties
      <3>4. DownloadTypes'
        BY <1>0, <2>1, <3>1, <3>2, <3>3 DEF DownloadTypes, DTypeOK
      <3>5. PiecesAreExact'
        <4>1. ASSUME NEW i \in 1 .. Len(fetch.got)
              PROVE  \E k \in Nat : fetch'.got[i].bytes = ObjectBytes(fetch'.got[i].offset, k)
          BY <1>0, <3>2 DEF DownloadInv, PiecesAreExact
        <4>2. \E k \in Nat : fetch'.got[Len(fetch.got) + 1].bytes
                                = ObjectBytes(fetch'.got[Len(fetch.got) + 1].offset, k)
          BY <2>3, <2>4, <3>2
        <4> QED
          BY <1>0, <3>3, <4>1, <4>2 DEF PiecesAreExact
      <3> QED
        BY <2>1, <3>1, <3>4, <3>5 DEF DownloadInv, BytesAreExact, DownloadsAreExact
    <2> QED
      BY <2>1, <2>5, GiveUpKeeps
  <1>5. CASE StartAssembly
    <2>1. /\ UNCHANGED <<stored, ticket, payload>>
          /\ fetch' = [at |-> "joining", got |-> fetch.got, left |-> DOMAIN fetch.got,
                       bytes |-> fetch.bytes]
      BY <1>0, <1>5 DEF StartAssembly, DownloadTypes
    <2>2. DownloadTypes'
      BY <1>0, <2>1 DEF DownloadTypes, DTypeOK
    <2> QED
      BY <2>1, <2>2 DEF DownloadInv, PiecesAreExact, BytesAreExact, DownloadsAreExact
  <1>6. ASSUME NEW i \in fetch.left, JoinRange(i) PROVE DownloadInv'
    <2>1. CASE ~Continues(fetch.got[i])
      BY <1>6, <2>1, GiveUpKeeps DEF JoinRange
    <2>2. CASE Continues(fetch.got[i])
      <3>1. i \in DOMAIN fetch.got /\ i \in 1 .. Len(fetch.got) /\ fetch.got[i] \in Piece
        BY <1>0, ElementOfSeq DEF DTypeOK, DownloadTypes
      <3>2. /\ UNCHANGED <<stored, ticket, payload>> /\ fetch.at = "joining"
            /\ fetch' = [at |-> "joining", got |-> fetch.got, left |-> fetch.left \ {i},
                         bytes |-> fetch.bytes \o fetch.got[i].bytes]
        BY <1>0, <1>6, <2>2 DEF JoinRange, DownloadTypes
      <3>3. PICK m \in Nat : fetch.bytes = ObjectBytes(0, m)
        BY DEF DownloadInv, BytesAreExact
      <3>4. PICK n \in Nat : fetch.got[i].bytes = ObjectBytes(fetch.got[i].offset, n)
        BY <3>1 DEF DownloadInv, PiecesAreExact
      <3>5. fetch.got[i].offset = m
        BY <2>2, <3>3, ObjectBytesShape DEF Continues
      <3>6. fetch'.bytes = ObjectBytes(0, m + n)
        BY <3>2, <3>3, <3>4, <3>5, ObjectBytesJoin
      <3>7. BytesAreExact' /\ fetch'.bytes \in Seq(Nat)
        <4>1. m + n \in Nat /\ 0 \in Nat
          OBVIOUS
        <4> QED
          BY <3>6, <4>1, ObjectBytesShape DEF BytesAreExact
      <3>8. DownloadTypes'
        BY <1>0, <3>2, <3>7 DEF DownloadTypes, DTypeOK
      <3> QED
        BY <3>2, <3>7, <3>8 DEF DownloadInv, PiecesAreExact, DownloadsAreExact
    <2> QED
      BY <2>1, <2>2
  <1>7. CASE Assemble
    <2>1. PICK m \in Nat : fetch.bytes = ObjectBytes(0, m)
      BY DEF DownloadInv, BytesAreExact
    <2>2. payload' \in {payload, Blob}
      BY <1>7, <2>1, ObjectBytesShape DEF Assemble, Blob
    <2> QED
      BY <1>7, <2>2, GiveUpKeeps DEF Assemble
  <1>8. ASSUME NEW n \in 0 .. Size, ObjectCutOff(n) PROVE DownloadInv'
    BY <1>0, <1>8 DEF ObjectCutOff, DownloadInv, DownloadTypes, DTypeOK, PiecesAreExact,
                      BytesAreExact, DownloadsAreExact
  <1>9. CASE TicketExpires
    <2>1. /\ UNCHANGED <<stored, fetch, payload>> /\ ticket'.kind = ticket.kind
          /\ ticket'.ranges = ticket.ranges
          /\ ticket' \in [kind : {"none", "download", "resumable_download"}, live : BOOLEAN,
                          ranges : Seq(ByteRange)]
      BY <1>0, <1>9 DEF TicketExpires, DownloadTypes
    <2> QED
      BY <1>0, <2>1 DEF DownloadInv, DownloadTypes, DTypeOK, PiecesAreExact, BytesAreExact,
                        DownloadsAreExact
  <1>10. CASE HandOn
    BY <1>0, <1>10 DEF HandOn, DownloadInv, DownloadTypes, DTypeOK, PiecesAreExact,
                       BytesAreExact, DownloadsAreExact
  <1>11. CASE UNCHANGED dvars
    BY <1>0, <1>11 DEF dvars, DownloadInv, DownloadTypes, DTypeOK, PiecesAreExact,
                       BytesAreExact, DownloadsAreExact
  <1> QED
    BY <1>1, <1>2, <1>3, <1>4, <1>5, <1>6, <1>7, <1>8, <1>9, <1>10, <1>11 DEF DNext

\* What goes on to decryption is the blob, however the ranges a device asked for
\* overlap or repeat, and wherever the object was cut off between two reads.
THEOREM DownloadsAreTheBlob == DSpec => []DownloadsAreExact
  <1>1. DownloadInv => DownloadsAreExact
    BY DEF DownloadInv
  <1> QED
    BY <1>1, DownloadInit, DownloadStep, PTL DEF DSpec

-----------------------------------------------------------------------------
(* The state repository                                                    *)

Unsaved(p) == working[p].step \in {"loaded", "open", "closed"}

\* What a process is at.  Its call is its own; what it read is the state of that
\* version; on the JSON file it is alone.
WorkOf(p) ==
    /\ working[p].step = "idle" => working[p] = Idle
    /\ Unsaved(p) => working[p].call \notin undone \cup file \cup row.state
    /\ working[p].step = "saved" => working[p].call \in undone \cup Stored
    /\ working[p].step \in {"open", "closed"} => profile = "json"
    /\ profile = "json" /\ Unsaved(p) => working[p].read.state = file
    /\ working[p].step = "closed" => tmp.state = file \cup {working[p].call}
    /\ profile = "sqlite" /\ working[p].step = "loaded" =>
          /\ working[p].read.version <= row.version
          /\ working[p].read.version = row.version => working[p].read.state = row.state

Apart(p, q) ==
    p # q => /\ profile = "json" => working[p].step = "idle" \/ working[q].step = "idle"
             /\ working[p].step # "idle" /\ working[q].step # "idle" =>
                    working[p].call # working[q].call

WorkIsSound == /\ \A p \in Processes : WorkOf(p)
               /\ \A p, q \in Processes : Apart(p, q)

\* Before the import there is no database; a restore has it unlinked, and goes on
\* from a backup that holds what is not taken back.
DatabaseIsSound ==
    /\ profile = "json" => /\ row.version = 0 /\ row.state = {} /\ backup.version = 0
                           /\ undone = {} /\ ~restoring
    /\ restoring => /\ \A p \in Processes : working[p].step = "idle"
                    /\ row.state = {}
                    /\ answered \ undone \subseteq backup.state
                    /\ undone \cap backup.state = {}

KeepsAnswers == WorkIsSound /\ DatabaseIsSound /\ AnsweredIsKept

BusyOnACall == \A p \in Processes : working[p].step # "idle" => working[p].call \in Calls

-----------------------------------------------------------------------------
(* Types                                                                   *)

LEMMA VersionsCount == ASSUME RTypeOK, row.version < MaxVersion PROVE row.version + 1 \in 0 .. MaxVersion
  BY MaxVersionIsNat DEF RTypeOK, Row

LEMMA RepositoryTypesInit == RInit => RTypeOK /\ BusyOnACall
  <1> SUFFICES ASSUME RInit PROVE RTypeOK /\ BusyOnACall
    OBVIOUS
  <1>1. 0 \in 0 .. MaxVersion
    BY MaxVersionIsNat
  <1>2. [version |-> 0, state |-> {}] \in Row
    BY <1>1 DEF Row
  <1>3. Idle \in [step : {"idle", "loaded", "open", "closed", "saved"},
                  call : Calls \cup {NoCall}, read : Row]
    BY <1>2 DEF Idle
  <1> QED
    BY <1>2, <1>3 DEF RInit, RTypeOK, Idle, BusyOnACall

LEMMA RepositoryTypesStep ==
    RTypeOK /\ BusyOnACall /\ [RNext]_rvars => (RTypeOK /\ BusyOnACall)'
  <1> SUFFICES ASSUME RTypeOK, BusyOnACall, [RNext]_rvars PROVE (RTypeOK /\ BusyOnACall)'
    OBVIOUS
  <1> USE DEF database
  <1>0. Idle \in [step : {"idle", "loaded", "open", "closed", "saved"},
                  call : Calls \cup {NoCall}, read : Row]
    BY MaxVersionIsNat DEF Idle, Row
  <1>1. ASSUME NEW p \in Processes, NEW c \in Calls, Load(p, c) PROVE (RTypeOK /\ BusyOnACall)'
    BY <1>1, MaxVersionIsNat DEF Load, RTypeOK, BusyOnACall, Row
  <1>2. ASSUME NEW p \in Processes, NEW c \in Calls, Update(p, c) PROVE (RTypeOK /\ BusyOnACall)'
    BY <1>2, VersionsCount DEF Update, WriteState, RTypeOK, BusyOnACall, Row
  <1>3. ASSUME NEW p \in Processes, OpenTmp(p) PROVE (RTypeOK /\ BusyOnACall)'
    BY <1>3 DEF OpenTmp, To, RTypeOK, BusyOnACall
  <1>4. ASSUME NEW p \in Processes, CloseTmp(p) PROVE (RTypeOK /\ BusyOnACall)'
    <2>1. working[p].read.state \subseteq Calls /\ working[p].call \in Calls
      BY <1>4 DEF CloseTmp, RTypeOK, BusyOnACall, Row
    <2> QED
      BY <1>4, <2>1 DEF CloseTmp, To, RTypeOK, BusyOnACall
  <1>5. ASSUME NEW p \in Processes, ReplaceFile(p) PROVE (RTypeOK /\ BusyOnACall)'
    BY <1>5 DEF ReplaceFile, To, RTypeOK, BusyOnACall
  <1>6. ASSUME NEW p \in Processes, SaveState(p) PROVE (RTypeOK /\ BusyOnACall)'
    <2>1. working[p].read.state \subseteq Calls /\ working[p].call \in Calls
      BY <1>6 DEF SaveState, RTypeOK, BusyOnACall, Row
    <2>2. working' \in [Processes -> [step : {"idle", "loaded", "open", "closed", "saved"},
                                      call : Calls \cup {NoCall}, read : Row]]
      BY <1>6, <1>0 DEF SaveState, To, RTypeOK
    <2>3. row' \in Row /\ tables' \subseteq Calls
      BY <1>6, <2>1, VersionsCount DEF SaveState, WriteState, RTypeOK, Row
    <2>4. BusyOnACall'
      BY <1>6 DEF SaveState, To, RTypeOK, BusyOnACall, Idle
    <2> QED
      BY <1>6, <2>2, <2>3, <2>4 DEF SaveState, RTypeOK
  <1>7. ASSUME NEW p \in Processes, AnswerCall(p) PROVE (RTypeOK /\ BusyOnACall)'
    BY <1>7, <1>0 DEF AnswerCall, RTypeOK, BusyOnACall, Idle
  <1>8. ASSUME NEW p \in Processes, Abandon(p) PROVE (RTypeOK /\ BusyOnACall)'
    BY <1>8, <1>0 DEF Abandon, RTypeOK, BusyOnACall, Idle
  <1>9. CASE ImportState
    BY <1>9, VersionsCount DEF ImportState, NextVersion, WriteState, TakenBack, RTypeOK, BusyOnACall, Row
  <1>10. CASE Backup
    BY <1>10 DEF Backup, RTypeOK, BusyOnACall
  <1>11. CASE RestoreUnlink
    BY <1>11, MaxVersionIsNat DEF RestoreUnlink, TakenBack, RTypeOK, BusyOnACall, Row
  <1>12. CASE RestoreReplace
    BY <1>12 DEF RestoreReplace, WriteState, RTypeOK, BusyOnACall, Row
  <1>13. CASE UNCHANGED rvars
    BY <1>13 DEF rvars, RTypeOK, BusyOnACall
  <1> QED
    BY <1>1, <1>2, <1>3, <1>4, <1>5, <1>6, <1>7, <1>8, <1>9, <1>10, <1>11, <1>12, <1>13 DEF RNext

LEMMA RepositoryTypes == RSpec => [](RTypeOK /\ BusyOnACall)
  BY RepositoryTypesInit, RepositoryTypesStep, PTL DEF RSpec

-----------------------------------------------------------------------------
(* The steps of a call                                                     *)

Sound == RTypeOK /\ BusyOnACall /\ KeepsAnswers

LEMMA Steps ==
    ASSUME RTypeOK, NEW p \in Processes, NEW step, To(p, step)
    PROVE  /\ working'[p].step = step
           /\ working'[p].call = working[p].call
           /\ working'[p].read = working[p].read
           /\ \A q \in Processes \ {p} : working'[q] = working[q]
  BY DEF To, RTypeOK

LEMMA Stops ==
    ASSUME RTypeOK, NEW p \in Processes, working' = [working EXCEPT ![p] = Idle]
    PROVE  /\ working'[p] = Idle
           /\ \A q \in Processes \ {p} : working'[q] = working[q]
  BY DEF RTypeOK

LEMMA LoadKeeps ==
    ASSUME Sound, NEW p \in Processes, NEW c \in Calls, Load(p, c) PROVE KeepsAnswers'
  <1> DEFINE work == [step |-> "loaded", call |-> c,
                      read |-> IF profile = "json" THEN [version |-> 0, state |-> file] ELSE row]
  <1> USE DEF database
  <1>1. working'[p] = work /\ \A q \in Processes \ {p} : working'[q] = working[q]
    BY DEF Load, Sound, RTypeOK
  <1>2. \A q \in Processes : WorkOf(q)'
    <2> SUFFICES ASSUME NEW q \in Processes PROVE WorkOf(q)'
      OBVIOUS
    <2>1. CASE q = p
      BY <2>1, <1>1 DEF Load, Fresh, Sound, RTypeOK, Row, WorkOf, Unsaved
    <2>2. CASE q # p
      BY <2>2, <1>1 DEF Load, Sound, KeepsAnswers, WorkIsSound, WorkOf, Unsaved, Stored
    <2> QED
      BY <2>1, <2>2
  <1>3. \A q, r \in Processes : Apart(q, r)'
    BY <1>1 DEF Load, Fresh, Serving, Idle, Sound, KeepsAnswers, WorkIsSound, Apart
  <1>4. DatabaseIsSound' /\ AnsweredIsKept'
    BY <1>1 DEF Load, Serving, Sound, KeepsAnswers, DatabaseIsSound, AnsweredIsKept, Stored
  <1> QED
    BY <1>2, <1>3, <1>4 DEF KeepsAnswers, WorkIsSound

LEMMA OpenTmpKeeps ==
    ASSUME Sound, NEW p \in Processes, OpenTmp(p) PROVE KeepsAnswers'
  <1> USE DEF database
  <1>1. /\ working'[p].step = "open"
        /\ working'[p].call = working[p].call
        /\ working'[p].read = working[p].read
        /\ \A q \in Processes \ {p} : working'[q] = working[q]
    BY Steps DEF OpenTmp, Sound
  <1>2. \A q \in Processes : WorkOf(q)'
    <2> SUFFICES ASSUME NEW q \in Processes PROVE WorkOf(q)'
      OBVIOUS
    <2>1. CASE q = p
      BY <2>1, <1>1 DEF OpenTmp, Sound, KeepsAnswers, WorkIsSound, WorkOf, Unsaved
    <2>2. CASE q # p
      <3>1. working[q].step = "idle"
        BY <2>2 DEF OpenTmp, Sound, KeepsAnswers, WorkIsSound, Apart
      <3> QED
        BY <3>1, <2>2, <1>1 DEF OpenTmp, Sound, KeepsAnswers, WorkIsSound, WorkOf, Unsaved
    <2> QED
      BY <2>1, <2>2
  <1>3. \A q, r \in Processes : Apart(q, r)'
    BY <1>1 DEF OpenTmp, Sound, KeepsAnswers, WorkIsSound, Apart
  <1>4. DatabaseIsSound' /\ AnsweredIsKept'
    BY <1>1 DEF OpenTmp, Sound, KeepsAnswers, DatabaseIsSound, AnsweredIsKept, Stored
  <1> QED
    BY <1>2, <1>3, <1>4 DEF KeepsAnswers, WorkIsSound

LEMMA CloseTmpKeeps ==
    ASSUME Sound, NEW p \in Processes, CloseTmp(p) PROVE KeepsAnswers'
  <1> USE DEF database
  <1>1. /\ working'[p].step = "closed"
        /\ working'[p].call = working[p].call
        /\ working'[p].read = working[p].read
        /\ \A q \in Processes \ {p} : working'[q] = working[q]
    BY Steps DEF CloseTmp, Sound
  <1>2. profile = "json" /\ working[p].read.state = file
    BY DEF CloseTmp, Sound, KeepsAnswers, WorkIsSound, WorkOf, Unsaved
  <1>3. \A q \in Processes : WorkOf(q)'
    <2> SUFFICES ASSUME NEW q \in Processes PROVE WorkOf(q)'
      OBVIOUS
    <2>1. CASE q = p
      BY <2>1, <1>1, <1>2 DEF CloseTmp, Sound, KeepsAnswers, WorkIsSound, WorkOf, Unsaved
    <2>2. CASE q # p
      <3>1. working[q].step = "idle"
        BY <2>2, <1>2 DEF CloseTmp, Sound, KeepsAnswers, WorkIsSound, Apart
      <3> QED
        BY <3>1, <2>2, <1>1 DEF CloseTmp, Sound, KeepsAnswers, WorkIsSound, WorkOf, Unsaved
    <2> QED
      BY <2>1, <2>2
  <1>4. \A q, r \in Processes : Apart(q, r)'
    BY <1>1 DEF CloseTmp, Sound, KeepsAnswers, WorkIsSound, Apart
  <1>5. DatabaseIsSound' /\ AnsweredIsKept'
    BY <1>1, <1>2 DEF CloseTmp, Sound, KeepsAnswers, DatabaseIsSound, AnsweredIsKept, Stored
  <1> QED
    BY <1>3, <1>4, <1>5 DEF KeepsAnswers, WorkIsSound

LEMMA ReplaceFileKeeps ==
    ASSUME Sound, NEW p \in Processes, ReplaceFile(p) PROVE KeepsAnswers'
  <1> USE DEF database
  <1>1. /\ working'[p].step = "saved"
        /\ working'[p].call = working[p].call
        /\ working'[p].read = working[p].read
        /\ \A q \in Processes \ {p} : working'[q] = working[q]
    BY Steps DEF ReplaceFile, Sound
  <1>2. /\ profile = "json" /\ file' = file \cup {working[p].call}
        /\ working[p].call \notin undone
    BY DEF ReplaceFile, Sound, KeepsAnswers, WorkIsSound, WorkOf, Unsaved
  <1>3. \A q \in Processes : WorkOf(q)'
    <2> SUFFICES ASSUME NEW q \in Processes PROVE WorkOf(q)'
      OBVIOUS
    <2>1. CASE q = p
      BY <2>1, <1>1, <1>2 DEF ReplaceFile, WorkOf, Unsaved, Stored
    <2>2. CASE q # p
      <3>1. working[q].step = "idle"
        BY <2>2, <1>2 DEF ReplaceFile, Sound, KeepsAnswers, WorkIsSound, Apart
      <3> QED
        BY <3>1, <2>2, <1>1 DEF ReplaceFile, Sound, KeepsAnswers, WorkIsSound, WorkOf, Unsaved
    <2> QED
      BY <2>1, <2>2
  <1>4. \A q, r \in Processes : Apart(q, r)'
    BY <1>1 DEF ReplaceFile, Sound, KeepsAnswers, WorkIsSound, Apart
  <1>5. DatabaseIsSound' /\ AnsweredIsKept'
    BY <1>1, <1>2 DEF ReplaceFile, Sound, KeepsAnswers, DatabaseIsSound, AnsweredIsKept, Stored
  <1> QED
    BY <1>3, <1>4, <1>5 DEF KeepsAnswers, WorkIsSound

\* A write of the row: the other processes that have loaded it are now behind.
LEMMA SaveStateKeeps ==
    ASSUME Sound, NEW p \in Processes, SaveState(p) PROVE KeepsAnswers'
  <1> USE DEF database
  <1>1. CASE Current(working[p].read)
    <2>1. /\ working'[p].step = "saved"
          /\ working'[p].call = working[p].call
          /\ \A q \in Processes \ {p} : working'[q] = working[q]
      BY <1>1, Steps DEF SaveState, Sound
    <2>2. /\ row'.version = row.version + 1
          /\ row'.state = row.state \cup {working[p].call}
          /\ tables' = row'.state
          /\ profile = "sqlite" /\ profile' = "sqlite" /\ ~restoring
          /\ working[p].step = "loaded"
          /\ UNCHANGED <<file, tmp, backup, restoring, answered, undone>>
      BY <1>1 DEF SaveState, WriteState, Current, Sound, KeepsAnswers, WorkIsSound, WorkOf, DatabaseIsSound
    <2>3. working[p].call \notin undone
      BY <2>2 DEF Sound, KeepsAnswers, WorkIsSound, WorkOf, Unsaved
    <2>4. \A q \in Processes : WorkOf(q)'
      <3> SUFFICES ASSUME NEW q \in Processes PROVE WorkOf(q)'
        OBVIOUS
      <3>1. CASE q = p
        BY <3>1, <2>1, <2>2 DEF WorkOf, Unsaved, Stored
      <3>2. CASE q # p
        <4>1. working[q].step # "idle" => working[q].call # working[p].call
          BY <3>2, <2>2 DEF Sound, KeepsAnswers, WorkIsSound, Apart
        <4>2. row.version \in Nat /\ working[q].read.version \in Nat
          BY MaxVersionIsNat DEF Sound, RTypeOK, Row
        <4> QED
          BY <3>2, <4>1, <4>2, <2>1, <2>2
          DEF Sound, KeepsAnswers, WorkIsSound, WorkOf, Unsaved, Stored
      <3> QED
        BY <3>1, <3>2
    <2>5. \A q, r \in Processes : Apart(q, r)'
      BY <2>1, <2>2 DEF Sound, KeepsAnswers, WorkIsSound, Apart
    <2>6. DatabaseIsSound' /\ AnsweredIsKept'
      BY <2>2, <2>3 DEF Sound, KeepsAnswers, DatabaseIsSound, AnsweredIsKept, Stored
    <2> QED
      BY <2>4, <2>5, <2>6 DEF KeepsAnswers, WorkIsSound
  <1>2. CASE ~Current(working[p].read)
    <2>1. /\ UNCHANGED <<profile, file, tmp, row, tables, backup, restoring, answered, undone>>
          /\ working'[p] = Idle /\ \A q \in Processes \ {p} : working'[q] = working[q]
      BY <1>2, Stops DEF SaveState, Sound
    <2>2. \A q \in Processes : WorkOf(q)'
      BY <2>1 DEF Idle, Sound, KeepsAnswers, WorkIsSound, WorkOf, Unsaved, Stored
    <2>3. \A q, r \in Processes : Apart(q, r)'
      BY <2>1 DEF Idle, Sound, KeepsAnswers, WorkIsSound, Apart
    <2>4. DatabaseIsSound' /\ AnsweredIsKept'
      BY <2>1 DEF Idle, Sound, KeepsAnswers, DatabaseIsSound, AnsweredIsKept, Stored
    <2> QED
      BY <2>2, <2>3, <2>4 DEF KeepsAnswers, WorkIsSound
  <1> QED
    BY <1>1, <1>2

LEMMA UpdateKeeps ==
    ASSUME Sound, NEW p \in Processes, NEW c \in Calls, Update(p, c) PROVE KeepsAnswers'
  <1> USE DEF database
  <1>1. /\ working'[p].step = "saved"
        /\ working'[p].call = c
        /\ \A q \in Processes \ {p} : working'[q] = working[q]
    BY DEF Update, Sound, RTypeOK
  <1>2. /\ row'.version = row.version + 1
        /\ row'.state = row.state \cup {c}
        /\ tables' = row'.state
        /\ profile = "sqlite" /\ profile' = "sqlite" /\ ~restoring
        /\ c \notin undone
        /\ \A q \in Processes : working[q].call # c
        /\ UNCHANGED <<file, tmp, backup, restoring, answered, undone>>
    BY DEF Update, WriteState, Fresh, Serving
  <1>3. \A q \in Processes : WorkOf(q)'
    <2> SUFFICES ASSUME NEW q \in Processes PROVE WorkOf(q)'
      OBVIOUS
    <2>1. CASE q = p
      BY <2>1, <1>1, <1>2 DEF WorkOf, Unsaved, Stored
    <2>2. CASE q # p
      <3>1. row.version \in Nat /\ working[q].read.version \in Nat
        BY MaxVersionIsNat DEF Sound, RTypeOK, Row
      <3> QED
        BY <2>2, <3>1, <1>1, <1>2 DEF Sound, KeepsAnswers, WorkIsSound, WorkOf, Unsaved, Stored
    <2> QED
      BY <2>1, <2>2
  <1>4. \A q, r \in Processes : Apart(q, r)'
    BY <1>1, <1>2 DEF Sound, KeepsAnswers, WorkIsSound, Apart
  <1>5. DatabaseIsSound' /\ AnsweredIsKept'
    BY <1>2 DEF Sound, KeepsAnswers, DatabaseIsSound, AnsweredIsKept, Stored
  <1> QED
    BY <1>3, <1>4, <1>5 DEF KeepsAnswers, WorkIsSound

LEMMA AnswerCallKeeps ==
    ASSUME Sound, NEW p \in Processes, AnswerCall(p) PROVE KeepsAnswers'
  <1> USE DEF database
  <1>1. working'[p] = Idle /\ \A q \in Processes \ {p} : working'[q] = working[q]
    BY Stops DEF AnswerCall, Sound
  <1>2. working[p].call \in undone \cup Stored /\ ~restoring
    BY DEF AnswerCall, Sound, KeepsAnswers, WorkIsSound, WorkOf, DatabaseIsSound
  <1>3. \A q \in Processes : WorkOf(q)'
    <2> SUFFICES ASSUME NEW q \in Processes PROVE WorkOf(q)'
      OBVIOUS
    <2>1. CASE q = p
      BY <2>1, <1>1 DEF Idle, WorkOf, Unsaved
    <2>2. CASE q # p
      BY <2>2, <1>1 DEF AnswerCall, Sound, KeepsAnswers, WorkIsSound, WorkOf, Unsaved, Stored
    <2> QED
      BY <2>1, <2>2
  <1>4. \A q, r \in Processes : Apart(q, r)'
    BY <1>1 DEF AnswerCall, Idle, Sound, KeepsAnswers, WorkIsSound, Apart
  <1>5. DatabaseIsSound' /\ AnsweredIsKept'
    BY <1>2 DEF AnswerCall, Sound, KeepsAnswers, DatabaseIsSound, AnsweredIsKept, Stored
  <1> QED
    BY <1>3, <1>4, <1>5 DEF KeepsAnswers, WorkIsSound

LEMMA AbandonKeeps ==
    ASSUME Sound, NEW p \in Processes, Abandon(p) PROVE KeepsAnswers'
  <1> USE DEF database
  <1>1. working'[p] = Idle /\ \A q \in Processes \ {p} : working'[q] = working[q]
    BY Stops DEF Abandon, Sound
  <1>2. \A q \in Processes : WorkOf(q)'
    BY <1>1 DEF Abandon, Idle, Sound, KeepsAnswers, WorkIsSound, WorkOf, Unsaved, Stored
  <1>3. \A q, r \in Processes : Apart(q, r)'
    BY <1>1 DEF Abandon, Idle, Sound, KeepsAnswers, WorkIsSound, Apart
  <1>4. DatabaseIsSound' /\ AnsweredIsKept'
    BY <1>1 DEF Abandon, Idle, Sound, KeepsAnswers, DatabaseIsSound, AnsweredIsKept, Stored
  <1> QED
    BY <1>2, <1>3, <1>4 DEF KeepsAnswers, WorkIsSound

-----------------------------------------------------------------------------
(* The operator's steps                                                    *)

LEMMA ImportStateKeeps == ASSUME Sound, ImportState PROVE KeepsAnswers'
  <1> USE DEF database
  <1>1. /\ row'.version = row.version + 1 /\ row'.state = file /\ tables' = file
        /\ profile' = "sqlite" /\ ~restoring
        /\ undone' = (undone \cup row.state) \ file
        /\ UNCHANGED <<file, tmp, backup, restoring, working, answered>>
    BY DEF ImportState, NextVersion, WriteState, TakenBack
  <1>2. profile = "json" => \A p \in Processes : working[p].step = "idle"
    BY DEF ImportState, Stopped, Idle
  <1>3. profile \in {"json", "sqlite"} /\ row.version \in Nat
    BY MaxVersionIsNat DEF Sound, RTypeOK, Row
  <1>4. \A p \in Processes : WorkOf(p)'
    <2> SUFFICES ASSUME NEW p \in Processes PROVE WorkOf(p)'
      OBVIOUS
    <2>1. working[p].read.version \in Nat
      BY MaxVersionIsNat DEF Sound, RTypeOK, Row
    <2> QED
      BY <1>1, <1>2, <1>3, <2>1 DEF Sound, KeepsAnswers, WorkIsSound, WorkOf, Unsaved, Stored
  <1>5. \A p, q \in Processes : Apart(p, q)'
    BY <1>1 DEF Sound, KeepsAnswers, WorkIsSound, Apart
  <1>6. DatabaseIsSound' /\ AnsweredIsKept'
    BY <1>1, <1>3 DEF Sound, KeepsAnswers, DatabaseIsSound, AnsweredIsKept, Stored
  <1> QED
    BY <1>4, <1>5, <1>6 DEF KeepsAnswers, WorkIsSound

LEMMA BackupKeeps == ASSUME Sound, Backup PROVE KeepsAnswers'
  <1>1. profile = "sqlite"
    BY DEF Backup, Sound, RTypeOK, KeepsAnswers, DatabaseIsSound
  <1>2. \A p \in Processes : WorkOf(p)'
    BY DEF Backup, Sound, KeepsAnswers, WorkIsSound, WorkOf, Unsaved, Stored
  <1>3. \A p, q \in Processes : Apart(p, q)'
    BY DEF Backup, Sound, KeepsAnswers, WorkIsSound, Apart
  <1>4. DatabaseIsSound' /\ AnsweredIsKept'
    BY <1>1 DEF Backup, Sound, KeepsAnswers, DatabaseIsSound, AnsweredIsKept, Stored
  <1> QED
    BY <1>2, <1>3, <1>4 DEF KeepsAnswers, WorkIsSound

LEMMA RestoreUnlinkKeeps == ASSUME Sound, RestoreUnlink PROVE KeepsAnswers'
  <1>1. profile = "sqlite"
    BY DEF RestoreUnlink, Sound, RTypeOK, KeepsAnswers, DatabaseIsSound
  <1>2. \A p \in Processes : working[p].step = "idle" /\ working[p] = Idle
    BY DEF RestoreUnlink, Stopped, Idle
  <1>3. \A p \in Processes : WorkOf(p)'
    BY <1>2 DEF RestoreUnlink, WorkOf, Unsaved
  <1>4. \A p, q \in Processes : Apart(p, q)'
    BY <1>2 DEF RestoreUnlink, Apart
  <1>5. DatabaseIsSound' /\ AnsweredIsKept'
    BY <1>1, <1>2 DEF RestoreUnlink, TakenBack, Sound, KeepsAnswers, DatabaseIsSound,
                      AnsweredIsKept, Stored
  <1> QED
    BY <1>3, <1>4, <1>5 DEF KeepsAnswers, WorkIsSound

LEMMA RestoreReplaceKeeps == ASSUME Sound, RestoreReplace PROVE KeepsAnswers'
  <1>1. profile = "sqlite"
    BY DEF RestoreReplace, Sound, RTypeOK, KeepsAnswers, DatabaseIsSound
  <1>2. \A p \in Processes : working[p].step = "idle" /\ working[p] = Idle
    BY DEF RestoreReplace, Sound, KeepsAnswers, DatabaseIsSound, WorkIsSound, WorkOf
  <1>3. \A p \in Processes : WorkOf(p)'
    BY <1>2 DEF RestoreReplace, WorkOf, Unsaved
  <1>4. \A p, q \in Processes : Apart(p, q)'
    BY <1>2 DEF RestoreReplace, Apart
  <1>5. DatabaseIsSound' /\ AnsweredIsKept'
    BY <1>1 DEF RestoreReplace, WriteState, Sound, KeepsAnswers, DatabaseIsSound, AnsweredIsKept, Stored
  <1> QED
    BY <1>3, <1>4, <1>5 DEF KeepsAnswers, WorkIsSound

-----------------------------------------------------------------------------
(* A call that was answered stays in the state, whoever writes it next,    *)
(* until an import or a restore takes it back; and it does not return.     *)
THEOREM AnswersAreKept == RSpec => []AnsweredIsKept
  <1>1. RInit => KeepsAnswers
    BY DEF RInit, Idle, KeepsAnswers, WorkIsSound, WorkOf, Unsaved, Apart, DatabaseIsSound,
           AnsweredIsKept, Stored
  <1>2. Sound /\ [RNext]_rvars => KeepsAnswers'
    <2> SUFFICES ASSUME Sound, [RNext]_rvars PROVE KeepsAnswers'
      OBVIOUS
    <2>1. CASE RNext
      BY <2>1, LoadKeeps, UpdateKeeps, OpenTmpKeeps, CloseTmpKeeps, ReplaceFileKeeps, SaveStateKeeps,
         AnswerCallKeeps, AbandonKeeps, ImportStateKeeps, BackupKeeps, RestoreUnlinkKeeps,
         RestoreReplaceKeeps DEF RNext
    <2>2. CASE UNCHANGED rvars
      BY <2>2 DEF rvars, Sound, KeepsAnswers, WorkIsSound, WorkOf, Unsaved, Apart, DatabaseIsSound,
                  AnsweredIsKept, Stored
    <2> QED
      BY <2>1, <2>2
  <1>3. KeepsAnswers => AnsweredIsKept
    BY DEF KeepsAnswers
  <1> QED
    BY <1>1, <1>2, <1>3, RepositoryTypes, PTL DEF RSpec, Sound
=============================================================================
