------------------------------ MODULE Accounts ------------------------------
(***************************************************************************)
(* Users, devices, sessions and tokens of the backend's SyncStore.         *)
(*                                                                         *)
(* A device is enrolled together with its only session, so the session is  *)
(* named by the device.  A token is a pair of the device and the           *)
(* generation of its session it was issued for.  Each store method is one  *)
(* action; a request that needs a token is three: main.py authorises it,   *)
(* touches the device, and calls the method, the lock let go in between.   *)
(***************************************************************************)
EXTENDS Naturals, FiniteSets

CONSTANTS Users, Devices, Passwords,
          LegacyDevices,       \* devices of states written before sessions
          NoPassword, NoUser,
          AccessTtl, RefreshTtl,
          MaxTime,             \* bound: clock
          MaxTokens,           \* bound: refreshes of one session
          MaxRequests          \* bound: requests at a time

ASSUME NoPasswordIsNone == NoPassword \notin Passwords
ASSUME NoUserIsNone == NoUser \notin Users
ASSUME LegacyAreDevices == LegacyDevices \subseteq Devices
ASSUME TimesAreNat == AccessTtl \in Nat /\ RefreshTtl \in Nat /\ MaxTime \in Nat /\ MaxTokens \in Nat

VARIABLES users,         \* state["user_logins"]
          password,      \* users[u]["password_auth"]
          owner,         \* devices[d]["user_id"]; NoUser: unknown, or legacy
          session,       \* state["sessions"], by device
          tokens,        \* state["tokens"]
          refreshTokens, \* state["refresh_tokens"]
          gone,          \* devices with revoked = true
          seen,          \* devices[d]["last_seen_at_ms"]
          requests,      \* requests past authorisation
          clock

avars == <<users, password, owner, session, tokens, refreshTokens, gone, seen,
           requests, clock>>
identity == <<users, password, owner, session, tokens, refreshTokens, gone>>

Token == Devices \X (0 .. MaxTokens)
Request == [kind : {"heartbeat", "delete"}, actor : Devices, device : Devices,
            step : {"touch", "call"}]

NoSession == [token |-> 0, accessUntil |-> 0, refreshUntil |-> 0, revoked |-> FALSE]

Enrolled(d) == owner[d] # NoUser \/ d \in LegacyDevices
HasSession(d) == owner[d] # NoUser

AInit ==
    /\ users = {}
    /\ password = [u \in Users |-> NoPassword]
    /\ owner = [d \in Devices |-> NoUser]
    /\ session = [d \in Devices |-> NoSession]
    /\ tokens = LegacyDevices \X {0}
    /\ refreshTokens = {}
    /\ gone = {}
    /\ seen = [d \in Devices |-> 0]
    /\ requests = {}
    /\ clock = 0

-----------------------------------------------------------------------------
(* Enrolment                                                               *)

\* _create_device_session_locked: a device and its session, live at once.
CreateDeviceSession(u, d) ==
    /\ ~Enrolled(d)
    /\ owner' = [owner EXCEPT ![d] = u]
    /\ session' = [session EXCEPT ![d] =
           [token |-> 0, accessUntil |-> clock + AccessTtl,
            refreshUntil |-> clock + RefreshTtl, revoked |-> FALSE]]
    /\ tokens' = tokens \cup {<<d, 0>>}
    /\ refreshTokens' = refreshTokens \cup {<<d, 0>>}
    /\ seen' = [seen EXCEPT ![d] = clock]
    /\ UNCHANGED <<gone, requests, clock>>

\* register_device: creates the user if need be, but not under a password.
RegisterDevice(u, d) ==
    /\ password[u] = NoPassword
    /\ users' = users \cup {u}
    /\ UNCHANGED password
    /\ CreateDeviceSession(u, d)

RegisterPasswordAccount(u, p, d) ==
    /\ u \notin users
    /\ users' = users \cup {u}
    /\ password' = [password EXCEPT ![u] = p]
    /\ CreateDeviceSession(u, d)

PasswordMatches(u, p) == password[u] = p

LoginPasswordAccount(u, p, d) ==
    /\ u \in users
    /\ PasswordMatches(u, p)
    /\ UNCHANGED <<users, password>>
    /\ CreateDeviceSession(u, d)

-----------------------------------------------------------------------------
(* Tokens                                                                  *)

Live(d) == HasSession(d) /\ d \notin gone /\ ~session[d].revoked

\* authorize_access_token.  A legacy token names its device and never expires.
Authorizes(d, n) ==
    /\ <<d, n>> \in tokens
    /\ d \notin gone
    /\ HasSession(d) => Live(d) /\ session[d].accessUntil > clock

CanRefresh(d, n) ==
    /\ <<d, n>> \in refreshTokens
    /\ Live(d)
    /\ session[d].refreshUntil > clock

Rotated(d) ==
    [token |-> session[d].token + 1, accessUntil |-> clock + AccessTtl,
     refreshUntil |-> clock + RefreshTtl, revoked |-> FALSE]

\* Fault: the access token that is replaced stays valid.
RefreshKeepsAccessToken(d, n) ==
    /\ CanRefresh(d, n)
    /\ session[d].token < MaxTokens
    /\ session' = [session EXCEPT ![d] = Rotated(d)]
    /\ tokens' = tokens \cup {<<d, session[d].token + 1>>}
    /\ refreshTokens' = (refreshTokens \ {<<d, n>>}) \cup {<<d, session[d].token + 1>>}
    /\ seen' = [seen EXCEPT ![d] = clock]
    /\ UNCHANGED <<users, password, owner, gone, requests, clock>>

\* refresh_session: both tokens are replaced.  One that fails raises before the
\* state is saved, the removal of an expired token included.
RefreshSession(d, n) ==
    /\ CanRefresh(d, n)
    /\ session[d].token < MaxTokens
    /\ session' = [session EXCEPT ![d] = Rotated(d)]
    /\ tokens' = (tokens \ {<<d, session[d].token>>}) \cup {<<d, session[d].token + 1>>}
    /\ refreshTokens' = (refreshTokens \ {<<d, n>>}) \cup {<<d, session[d].token + 1>>}
    /\ seen' = [seen EXCEPT ![d] = clock]
    /\ UNCHANGED <<users, password, owner, gone, requests, clock>>

\* revoke_session_for_token: expired or not.  For a legacy token, or one that
\* has been replaced, nothing is saved.
RevokeSessionForToken(d, n) ==
    /\ <<d, n>> \in tokens
    /\ HasSession(d)
    /\ tokens' = tokens \ {<<d, n>>}
    /\ session' = [session EXCEPT ![d].revoked = TRUE]
    /\ refreshTokens' = refreshTokens \ {<<d, session[d].token>>}
    /\ UNCHANGED <<users, password, owner, gone, seen, requests, clock>>

-----------------------------------------------------------------------------
(* Requests                                                                *)

\* _required_auth_context, up to the answer of authorize_access_token.
Authorize(d, n, kind, target) ==
    LET r == [kind |-> kind, actor |-> d, device |-> target, step |-> "touch"]
    IN  /\ Authorizes(d, n)
        /\ Cardinality(requests) < MaxRequests
        /\ requests' = requests \cup {r}
        /\ UNCHANGED <<identity, seen, clock>>

TouchDevice(r) ==
    /\ r.step = "touch"
    /\ requests' = (requests \ {r}) \cup {[r EXCEPT !.step = "call"]}
    /\ seen' = IF r.actor \in gone THEN seen ELSE [seen EXCEPT ![r.actor] = clock]
    /\ UNCHANGED <<identity, clock>>

Answer(r) == requests' = requests \ {r}

\* Fault: the device is not looked at again.
HeartbeatOfAuthorized(r) ==
    /\ r.step = "call" /\ r.kind = "heartbeat"
    /\ Answer(r)
    /\ seen' = [seen EXCEPT ![r.actor] = clock]
    /\ UNCHANGED <<identity, clock>>

\* heartbeat_device: a device revoked since it was authorised gets an error.
HeartbeatDevice(r) ==
    /\ r.step = "call" /\ r.kind = "heartbeat"
    /\ Answer(r)
    /\ seen' = IF r.actor \in gone THEN seen ELSE [seen EXCEPT ![r.actor] = clock]
    /\ UNCHANGED <<identity, clock>>

\* _revoke_device_sessions_locked and the refresh token on the device record.
RevokeDeviceSessions(d) ==
    /\ session' = [session EXCEPT ![d].revoked = HasSession(d)]
    /\ refreshTokens' = refreshTokens \ {<<d, session[d].token>>}

\* delete_device, as far as it changes users and sessions.
DeleteDeviceCall(r) ==
    /\ r.step = "call" /\ r.kind = "delete"
    /\ Answer(r)
    /\ IF Enrolled(r.device) /\ owner[r.actor] = owner[r.device]
       THEN /\ gone' = gone \cup {r.device}
            /\ RevokeDeviceSessions(r.device)
       ELSE UNCHANGED <<gone, session, refreshTokens>>
    /\ UNCHANGED <<users, password, owner, tokens, seen, clock>>

AdvanceClock ==
    /\ clock < MaxTime
    /\ clock' = clock + 1
    /\ UNCHANGED <<identity, seen, requests>>

ANext ==
    \/ \E u \in Users, d \in Devices :
          \/ RegisterDevice(u, d)
          \/ \E p \in Passwords : RegisterPasswordAccount(u, p, d)
          \/ \E p \in Passwords : LoginPasswordAccount(u, p, d)
    \/ \E d \in Devices, n \in 0 .. MaxTokens :
          \/ RefreshSession(d, n)
          \/ RevokeSessionForToken(d, n)
          \/ Authorize(d, n, "heartbeat", d)
          \/ \E target \in Devices : Authorize(d, n, "delete", target)
    \/ \E r \in requests : TouchDevice(r) \/ HeartbeatDevice(r) \/ DeleteDeviceCall(r)
    \/ AdvanceClock

ASpec == AInit /\ [][ANext]_avars

-----------------------------------------------------------------------------
(* Properties                                                              *)

ATypeOK ==
    /\ users \subseteq Users
    /\ password \in [Users -> Passwords \cup {NoPassword}]
    /\ owner \in [Devices -> Users \cup {NoUser}]
    /\ session \in [Devices -> [token : 0 .. MaxTokens, accessUntil : Nat,
                                refreshUntil : Nat, revoked : BOOLEAN]]
    /\ tokens \subseteq Token
    /\ refreshTokens \subseteq Token
    /\ gone \subseteq Devices
    /\ seen \in [Devices -> 0 .. MaxTime]
    /\ requests \subseteq Request
    /\ clock \in 0 .. MaxTime

\* However refreshes, logouts and revocations interleave, three maps agree: an
\* access token or refresh token on record is the newest of its session, a live
\* session has both on record (so it is never locked out by the server), and no
\* refresh token outlives its session or its device.
TokensFollowSessions ==
    /\ \A t \in tokens : HasSession(t[1]) => t[2] = session[t[1]].token
    /\ \A t \in refreshTokens : Live(t[1]) /\ t[2] = session[t[1]].token
    /\ \A d \in Devices : Live(d) =>
          <<d, session[d].token>> \in tokens \cap refreshTokens

\* Once a device is revoked its record is closed: a request it had authorised
\* before does not refresh its presence, no token of it appears, and no session
\* of it comes back.
RevokedStaysClosed ==
    [][\A d \in gone :
          /\ d \in gone'
          /\ seen'[d] = seen[d]
          /\ HasSession(d) => session'[d].revoked
          /\ \A n \in 0 .. MaxTokens :
                <<d, n>> \in tokens' \cup refreshTokens' => <<d, n>> \in tokens \cup refreshTokens
      ]_avars
=============================================================================
