------------------------------ MODULE Sessions ------------------------------
(***************************************************************************)
(* Sessions and refresh tokens: the tables iam_sessions and                *)
(* iam_refresh_tokens and every handler of the core-auth, account and      *)
(* admin services that writes them, with the garbage collector, and the    *)
(* token endpoint of the OIDC provider, whose refresh tokens are rows of   *)
(* the same table (module Oidc has the provider itself).                   *)
(*                                                                         *)
(* Every handler below runs in one SERIALIZABLE transaction (withTx,       *)
(* retried on a serialization failure), so it is one action.  The two      *)
(* exceptions are the request authenticator, which reads a session row and *)
(* writes its last_active_at in two statements, with the request in        *)
(* between held in "bumps", and the OIDC refresh, which spends a token in  *)
(* one transaction and mints the next in another, with the request in      *)
(* between held in "owed".                                                 *)
(***************************************************************************)
EXTENDS Integers, FiniteSets

CONSTANTS
    Users,          \* accounts of one project
    Envs,           \* environments of the project (live, test, ...)
    Home,           \* [Users -> Envs]: the environment a user row lives in
    SessionIds,     \* uuids available for iam_sessions rows
    TokenIds,       \* uuids available for iam_refresh_tokens rows
    NoUser, NoSession, NoEnv, NoToken,
    Policies,       \* [Envs -> SUBSET Policy]: the session_policy documents
                    \* that an instance may see for an environment; more than
                    \* one when an edit races the per-instance config cache
    TrustDurations, \* durations TrustSession may be called with
    OidcTTLs,       \* refresh-token lifetimes of the OIDC clients
    ActivityThrottle,
    MaxBumps,       \* authenticated requests in flight at the same time
    MaxOwed,        \* bound on the OIDC mints outstanding at the same time
    MaxTime         \* bound on the clock

\* EffectiveSessionPolicy: 0 disables a timeout.
Policy == [refreshTTL : Nat \ {0}, absolute : Nat, idle : Nat, reuse : BOOLEAN]

ASSUME SessionsAssumption ==
    /\ Home \in [Users -> Envs]
    /\ Policies \in [Envs -> SUBSET Policy]
    /\ TrustDurations \subseteq Nat /\ OidcTTLs \subseteq Nat
    /\ ActivityThrottle \in Nat
    /\ MaxBumps \in Nat /\ MaxOwed \in Nat
    /\ MaxTime \in Nat
    /\ NoUser \notin Users /\ NoSession \notin SessionIds /\ NoEnv \notin Envs
    /\ NoToken \notin TokenIds

VARIABLES
    now,        \* the clock (nowUTC; the test-clock offset is zero in live)
    status,     \* status[u]: "active", "barred" (banned, deactivated) or "deleted"
    sessions,   \* rows of iam_sessions
    tokens,     \* rows of iam_refresh_tokens
    bumps,      \* last_active_at writes the authenticator has yet to issue
    owed,       \* OIDC refresh tokens yet to be minted: for the outstanding
                \* codes of a session, or for a token that has been spent
    crossed     \* sessions an OIDC token of which core Refresh has rotated

vars == <<now, status, sessions, tokens, bumps, owed, crossed>>

(* "unused" ids have no row yet; "revoked" and "swept" session rows are      *)
(* deleted (by revokeSessionRecord, by the collector); a "revoked" token row *)
(* stays until it is "swept".  The line of a token is the token its holder   *)
(* got first, at a sign-in or for a code: each rotation continues it.        *)
SessionRow == [st : {"unused", "live", "revoked", "swept"}, user : Users \cup {NoUser},
               created : Nat, active : Nat, expires : Nat]
TokenRow == [st : {"unused", "active", "revoked", "swept"}, kind : {"none", "core", "oidc"},
             line : TokenIds \cup {NoToken}, sess : SessionIds \cup {NoSession},
             user : Users \cup {NoUser}, env : Envs \cup {NoEnv}, expires : Nat]
Owed == [sess : SessionIds, user : Users, env : Envs, line : TokenIds \cup {NoToken}]

NoSessionRow(st) == [st |-> st, user |-> NoUser, created |-> 0, active |-> 0, expires |-> 0]
NoTokenRow(st) == [st |-> st, kind |-> "none", line |-> NoToken, sess |-> NoSession,
                   user |-> NoUser, env |-> NoEnv, expires |-> 0]

Init ==
    /\ now = 0
    /\ status = [u \in Users |-> "active"]
    /\ sessions = [s \in SessionIds |-> NoSessionRow("unused")]
    /\ tokens = [t \in TokenIds |-> NoTokenRow("unused")]
    /\ bumps = {} /\ owed = {} /\ crossed = {}

-----------------------------------------------------------------------------
(* Reading the tables *)

Live(s) == sessions[s].st = "live"
LiveOf(u) == {s \in SessionIds : Live(s) /\ sessions[s].user = u}

\* Mutant: the deadline anchored on the envelope's timestamp, which every
\* rotation rewrites.
RefreshHorizonSliding(at, created, p) ==
    IF p.absolute > 0 /\ p.absolute < p.refreshTTL THEN at + p.absolute ELSE at + p.refreshTTL

\* coreAuthRefreshHorizon: expiry stamped on a token and on its session row.
RefreshHorizon(at, created, p) ==
    IF p.absolute > 0 /\ created + p.absolute < at + p.refreshTTL
    THEN created + p.absolute
    ELSE at + p.refreshTTL

\* The idle and absolute timeouts, each enforced only when configured.
TimedOut(s, p) ==
    \/ p.absolute > 0 /\ now > sessions[s].created + p.absolute
    \/ p.idle > 0 /\ now > sessions[s].active + p.idle

-----------------------------------------------------------------------------
(* Writing the tables *)

\* Mutant: the row is deleted without flagging its refresh tokens.
RevokedTokensForgotten(S) == tokens

\* revokeSessionRecord on every session of S: flag the unrevoked refresh
\* tokens, then delete the row.
RevokedRows(S) == [s \in SessionIds |-> IF s \in S THEN NoSessionRow("revoked") ELSE sessions[s]]
RevokedTokens(S) ==
    [t \in TokenIds |-> IF tokens[t].st = "active" /\ tokens[t].sess \in S
                        THEN [tokens[t] EXCEPT !.st = "revoked"]
                        ELSE tokens[t]]
RevokeSessions(S) == sessions' = RevokedRows(S) /\ tokens' = RevokedTokens(S)

\* coreAuthMintSession for user u under policy p, after revoking the sessions
\* in S in the same transaction: a session row s and its first refresh token t.
MintAfterRevoking(S, u, s, t, p) ==
    /\ sessions[s].st = "unused"
    /\ tokens[t].st = "unused"
    /\ LET horizon == RefreshHorizon(now, now, p)
       IN  /\ sessions' = [RevokedRows(S) EXCEPT
                 ![s] = [st |-> "live", user |-> u, created |-> now, active |-> now, expires |-> horizon]]
           /\ tokens' = [RevokedTokens(S) EXCEPT
                 ![t] = [st |-> "active", kind |-> "core", line |-> t, sess |-> s,
                         user |-> u, env |-> Home[u], expires |-> horizon]]

-----------------------------------------------------------------------------
(* Signing in *)

\* AuthenticatePassword and ExchangeCode mint only for an active account.
PasswordSignIn(u, s, t, p) ==
    /\ status[u] = "active"
    /\ MintAfterRevoking({}, u, s, t, p)
    /\ UNCHANGED <<now, status, bumps, owed, crossed>>

\* The other sign-in paths (verification code, magic link, social, SAML, MFA,
\* passkey, impersonation) mint for any account whose row exists.
ProofSignIn(u, s, t, p) ==
    /\ status[u] # "deleted"
    /\ MintAfterRevoking({}, u, s, t, p)
    /\ UNCHANGED <<now, status, bumps, owed, crossed>>

\* ResetPassword: revoke every session, then mint a fresh one.
ResetPassword(u, s, t, p) ==
    /\ status[u] # "deleted"
    /\ MintAfterRevoking(LiveOf(u), u, s, t, p)
    /\ UNCHANGED <<now, status, bumps, owed, crossed>>

\* SwitchGroup: revoke the current session, then mint its replacement.
SwitchGroup(old, s, t, p) ==
    /\ Live(old)
    /\ status[sessions[old].user] # "deleted"
    /\ MintAfterRevoking({old}, sessions[old].user, s, t, p)
    /\ UNCHANGED <<now, status, bumps, owed, crossed>>

-----------------------------------------------------------------------------
(* Refresh *)

\* Presenting a revoked token: with reuse detection every session of the
\* token's user is revoked and the refresh is rejected; without it nothing
\* changes.  p is the policy of the environment stamped on the token.
RefreshReused(t, p) ==
    /\ tokens[t].st = "revoked"
    /\ p.reuse
    /\ RevokeSessions(LiveOf(tokens[t].user))
    /\ UNCHANGED <<now, status, bumps, owed, crossed>>

\* What coreAuthRefreshInTx has established before it looks at the request:
\* the token is unrevoked and unexpired, the account is active and the session
\* row exists (each failure rolls back with no effect).  The row is looked up by
\* the token's hash alone, so that it may be one of the OIDC provider's.
Refreshable(t) ==
    /\ tokens[t].st = "active"
    /\ now <= tokens[t].expires
    /\ status[tokens[t].user] = "active"
    /\ Live(tokens[t].sess)

\* The device fingerprint of the request differs from the session's.
RefreshDeviceMismatch(t) ==
    /\ Refreshable(t)
    /\ RevokeSessions({tokens[t].sess})
    /\ UNCHANGED <<now, status, bumps, owed, crossed>>

RefreshTimedOut(t, p) ==
    /\ Refreshable(t)
    /\ TimedOut(tokens[t].sess, p)
    /\ RevokeSessions({tokens[t].sess})
    /\ UNCHANGED <<now, status, bumps, owed, crossed>>

\* What a rotation writes for token t: the token keeps status old, the row
\* expires at rowExpiry, the new token t2 at horizon.
Rotation(t, t2, e, old, rowExpiry, horizon) ==
    LET s == tokens[t].sess
    IN  /\ tokens[t2].st = "unused"
        /\ sessions' = [sessions EXCEPT ![s].active = now, ![s].expires = rowExpiry]
        /\ tokens' = [tokens EXCEPT
              ![t].st = old,
              ![t2] = [st |-> "active", kind |-> "core", line |-> tokens[t].line, sess |-> s,
                       user |-> tokens[t].user, env |-> e, expires |-> horizon]]
        /\ crossed' = IF tokens[t].kind = "oidc" THEN crossed \cup {s} ELSE crossed
        /\ UNCHANGED <<now, status, bumps, owed>>

\* Mutants: the presented token stays redeemable; the timeouts are not enforced
\* on refresh.
RefreshRotateKeepsOld(t, t2, e, p, q) ==
    LET horizon == RefreshHorizon(now, sessions[tokens[t].sess].created, q)
    IN  Refreshable(t) /\ ~TimedOut(tokens[t].sess, p) /\ Rotation(t, t2, e, "active", horizon, horizon)
RefreshRotateNoTimeout(t, t2, e, p, q) ==
    LET horizon == RefreshHorizon(now, sessions[tokens[t].sess].created, q)
    IN  Refreshable(t) /\ Rotation(t, t2, e, "revoked", horizon, horizon)

\* coreAuthRotateRefresh: revoke the presented token and issue t2, a core-auth
\* token whatever the first was, on the same session.  The new expiry comes from
\* q, the policy of the environment e of the REQUEST, and e is stamped on the
\* new token.
RefreshRotate(t, t2, e, p, q) ==
    /\ Refreshable(t)
    /\ ~TimedOut(tokens[t].sess, p)
    /\ LET horizon == RefreshHorizon(now, sessions[tokens[t].sess].created, q)
       IN  Rotation(t, t2, e, "revoked", horizon, horizon)

-----------------------------------------------------------------------------
(* Ending sessions *)

\* SignOut, Revoke by session id or access token, RevokeSession, DeleteSession.
SignOut(s) ==
    /\ Live(s)
    /\ RevokeSessions({s})
    /\ UNCHANGED <<now, status, bumps, owed, crossed>>

\* SignOut everywhere, SignOutAll, RevokeSessions, ChangePassword with
\* revoke_other_sessions, an admin password set, a role change: every session
\* of u but the ones in keep (at most the caller's own).
SignOutAll(u, keep) ==
    /\ LiveOf(u) \ keep # {}
    /\ RevokeSessions(LiveOf(u) \ keep)
    /\ UNCHANGED <<now, status, bumps, owed, crossed>>

\* Revoke of a refresh token, at either endpoint, flags that token only; its
\* session stays.
RevokeToken(t) ==
    /\ tokens[t].st = "active"
    /\ tokens' = [tokens EXCEPT ![t].st = "revoked"]
    /\ UNCHANGED <<now, status, sessions, bumps, owed, crossed>>

-----------------------------------------------------------------------------
(* The token endpoint of the OIDC provider *)

\* A code is issued to a client of session s in environment e.  One member of
\* owed stands for every outstanding code of the session.
IssueCode(s, e) ==
    /\ Live(s)
    /\ Cardinality(owed) < MaxOwed
    /\ owed' = owed \cup {[sess |-> s, user |-> sessions[s].user, env |-> e, line |-> NoToken]}
    /\ UNCHANGED <<now, status, sessions, tokens, bumps, crossed>>

\* oidcRedeemRefreshToken: the presented token is spent, in a transaction of
\* its own.
SpendOidc(t) ==
    /\ tokens[t].kind = "oidc" /\ tokens[t].st = "active" /\ now <= tokens[t].expires
    /\ Cardinality(owed) < MaxOwed
    /\ tokens' = [tokens EXCEPT ![t].st = "revoked"]
    /\ owed' = owed \cup {[sess |-> tokens[t].sess, user |-> tokens[t].user,
                           env |-> tokens[t].env, line |-> tokens[t].line]}
    /\ UNCHANGED <<now, status, sessions, bumps, crossed>>

\* Mutant: a refresh that has been answered may be answered again.
MintOidcAgain(o, t, ttl) ==
    /\ tokens[t].st = "unused"
    /\ tokens' = [tokens EXCEPT
          ![t] = [st |-> "active", kind |-> "oidc", line |-> IF o.line = NoToken THEN t ELSE o.line,
                  sess |-> o.sess, user |-> o.user, env |-> o.env, expires |-> now + ttl]]
    /\ UNCHANGED <<now, status, sessions, bumps, owed, crossed>>

\* storeOIDCRefreshToken, for a code or after the spend.  Nothing asks whether
\* the session is still there.
MintOidc(o, t, ttl) ==
    /\ tokens[t].st = "unused"
    /\ tokens' = [tokens EXCEPT
          ![t] = [st |-> "active", kind |-> "oidc", line |-> IF o.line = NoToken THEN t ELSE o.line,
                  sess |-> o.sess, user |-> o.user, env |-> o.env, expires |-> now + ttl]]
    /\ owed' = IF o.line = NoToken THEN owed ELSE owed \ {o}
    /\ UNCHANGED <<now, status, sessions, bumps, crossed>>

\* The last code of the session expires, is deleted or is exchanged, or the
\* request that spent a token fails before it mints the next.
ForgetOidc(o) ==
    /\ owed' = owed \ {o}
    /\ UNCHANGED <<now, status, sessions, tokens, bumps, crossed>>

\* burnSessionRefreshTokens, when a spent OIDC token is presented again: every
\* token of its session is flagged, those of core-auth too; the session stays.
ReplayOidc(t) ==
    /\ tokens[t].kind = "oidc" /\ tokens[t].st = "revoked"
    /\ tokens' = RevokedTokens({tokens[t].sess})
    /\ UNCHANGED <<now, status, sessions, bumps, owed, crossed>>

-----------------------------------------------------------------------------
(* The account's status *)

Ban(u) ==
    /\ status[u] # "deleted"
    /\ status' = [status EXCEPT ![u] = "barred"]
    /\ RevokeSessions(LiveOf(u))
    /\ UNCHANGED <<now, bumps, owed, crossed>>

\* Anonymize deactivates the account and leaves its sessions alone.
Anonymize(u) ==
    /\ status[u] = "active"
    /\ status' = [status EXCEPT ![u] = "barred"]
    /\ UNCHANGED <<now, sessions, tokens, bumps, owed, crossed>>

Unban(u) ==
    /\ status[u] = "barred"
    /\ status' = [status EXCEPT ![u] = "active"]
    /\ UNCHANGED <<now, sessions, tokens, bumps, owed, crossed>>

\* Account deletion by the user or by an admin.
DeleteUser(u) ==
    /\ status[u] # "deleted"
    /\ status' = [status EXCEPT ![u] = "deleted"]
    /\ RevokeSessions(LiveOf(u))
    /\ UNCHANGED <<now, bumps, owed, crossed>>

\* The deletion worker signs the account out, then deletes its token rows, those
\* that bear the environment the account is in.
PurgeUser(u) ==
    /\ status[u] # "deleted"
    /\ status' = [status EXCEPT ![u] = "deleted"]
    /\ sessions' = RevokedRows(LiveOf(u))
    /\ tokens' = [t \in TokenIds |->
           IF tokens[t].st \in {"active", "revoked"} /\ tokens[t].user = u /\ tokens[t].env = Home[u]
           THEN NoTokenRow("swept") ELSE RevokedTokens(LiveOf(u))[t]]
    /\ UNCHANGED <<now, bumps, owed, crossed>>

-----------------------------------------------------------------------------
(* Activity, renaming, trusting *)

\* checkSessionLive accepts a request on session s and, past the throttle,
\* goes on to write the time it read.
Authenticate(s, p) ==
    /\ Live(s)
    /\ now <= sessions[s].expires
    /\ ~TimedOut(s, p)
    /\ now - sessions[s].active > ActivityThrottle
    /\ Cardinality(bumps) < MaxBumps
    /\ bumps' = bumps \cup {[sess |-> s, at |-> now]}
    /\ UNCHANGED <<now, status, sessions, tokens, owed, crossed>>

\* The UPDATE by id: a row that is gone by now is not touched.
BumpLastActive(b) ==
    /\ bumps' = bumps \ {b}
    /\ sessions' = IF Live(b.sess) THEN [sessions EXCEPT ![b.sess].active = b.at] ELSE sessions
    /\ UNCHANGED <<now, status, tokens, owed, crossed>>

\* RenameSession rewrites the envelope and sets last_active_at.
RenameSession(s) ==
    /\ Live(s)
    /\ sessions' = [sessions EXCEPT ![s].active = now]
    /\ UNCHANGED <<now, status, tokens, bumps, owed, crossed>>

\* TrustSession replaces expires_at, whatever the refresh token's expiry.
TrustSession(s, d) ==
    /\ Live(s)
    /\ sessions' = [sessions EXCEPT ![s].expires = now + d]
    /\ UNCHANGED <<now, status, tokens, bumps, owed, crossed>>

-----------------------------------------------------------------------------
(* The collector and the clock *)

ExpiredSessions == {s \in SessionIds : Live(s) /\ sessions[s].expires < now}
ExpiredTokens == {t \in TokenIds : tokens[t].st \in {"active", "revoked"} /\ tokens[t].expires < now}

\* gcSweepAll issues one DELETE per table, each its own statement.
GcSessions ==
    /\ ExpiredSessions # {}
    /\ sessions' = [s \in SessionIds |-> IF s \in ExpiredSessions THEN NoSessionRow("swept") ELSE sessions[s]]
    /\ UNCHANGED <<now, status, tokens, bumps, owed, crossed>>

\* Mutant: only unrevoked token rows are collected.
GcActiveTokens ==
    /\ \E t \in ExpiredTokens : tokens[t].st = "active"
    /\ tokens' = [t \in TokenIds |-> IF t \in ExpiredTokens /\ tokens[t].st = "active"
                                     THEN NoTokenRow("swept") ELSE tokens[t]]
    /\ UNCHANGED <<now, status, sessions, bumps, owed, crossed>>

GcTokens ==
    /\ ExpiredTokens # {}
    /\ tokens' = [t \in TokenIds |-> IF t \in ExpiredTokens THEN NoTokenRow("swept") ELSE tokens[t]]
    /\ UNCHANGED <<now, status, sessions, bumps, owed, crossed>>

Tick ==
    /\ now < MaxTime
    /\ now' = now + 1
    /\ UNCHANGED <<status, sessions, tokens, bumps, owed, crossed>>

-----------------------------------------------------------------------------
Mint(u, s, t, p) ==
    \/ PasswordSignIn(u, s, t, p)
    \/ ProofSignIn(u, s, t, p)
    \/ ResetPassword(u, s, t, p)
    \/ \E old \in LiveOf(u) : SwitchGroup(old, s, t, p)

Refresh(t) ==
    \/ \E p \in Policies[tokens[t].env] : RefreshReused(t, p) \/ RefreshTimedOut(t, p)
    \/ RefreshDeviceMismatch(t)
    \/ \E t2 \in TokenIds, e \in Envs : \E p \in Policies[tokens[t].env], q \in Policies[e] :
            RefreshRotate(t, t2, e, p, q)

EndSessions ==
    \/ \E s \in SessionIds : SignOut(s)
    \/ \E u \in Users : \E keep \in {{}} \cup {{s} : s \in LiveOf(u)} : SignOutAll(u, keep)
    \/ \E t \in TokenIds : RevokeToken(t)
    \/ \E u \in Users : Ban(u) \/ Anonymize(u) \/ Unban(u) \/ DeleteUser(u) \/ PurgeUser(u)

Activity ==
    \/ \E s \in SessionIds : Live(s) /\ \E p \in Policies[Home[sessions[s].user]] : Authenticate(s, p)
    \/ \E b \in bumps : BumpLastActive(b)

OidcTokens ==
    \/ \E s \in SessionIds, e \in Envs : IssueCode(s, e)
    \/ \E t \in TokenIds : SpendOidc(t) \/ ReplayOidc(t)
    \/ \E o \in owed : ForgetOidc(o) \/ \E t \in TokenIds, ttl \in OidcTTLs : MintOidc(o, t, ttl)

Gc == GcSessions \/ GcTokens

\* The handlers that create, refresh, use and end sessions.
CoreNext ==
    \/ \E u \in Users, s \in SessionIds, t \in TokenIds : \E p \in Policies[Home[u]] : Mint(u, s, t, p)
    \/ \E t \in TokenIds : tokens[t].st \in {"active", "revoked"} /\ Refresh(t)
    \/ EndSessions
    \/ OidcTokens
    \/ Activity
    \/ Gc
    \/ Tick

\* The account-settings handlers that edit a session row from outside it.
EditNext ==
    \E s \in SessionIds : RenameSession(s) \/ \E d \in TrustDurations : TrustSession(s, d)

Next == CoreNext \/ EditNext

CoreSpec == Init /\ [][CoreNext]_vars /\ WF_vars(GcSessions) /\ WF_vars(GcTokens)
Spec == Init /\ [][Next]_vars /\ WF_vars(GcSessions) /\ WF_vars(GcTokens)

-----------------------------------------------------------------------------
(* Properties *)

\* The tables hold rows of the right shape.
TypeOK ==
    /\ now \in Nat
    /\ status \in [Users -> {"active", "barred", "deleted"}]
    /\ sessions \in [SessionIds -> SessionRow]
    /\ tokens \in [TokenIds -> TokenRow]
    /\ bumps \in SUBSET [sess : SessionIds, at : Nat]
    /\ owed \in SUBSET Owed /\ crossed \in SUBSET SessionIds

CoreActive(t) == tokens[t].st = "active" /\ tokens[t].kind = "core"

\* Rotation revokes the presented token before it issues the next one
\* (coreAuthRotateRefresh), whatever requests race: a session never has two
\* redeemable core-auth refresh tokens, unless core Refresh was given an OIDC
\* token of that session, for which it issues one more.
OneActiveToken ==
    \A t1, t2 \in TokenIds :
        CoreActive(t1) /\ CoreActive(t2) /\ tokens[t1].sess = tokens[t2].sess =>
            t1 = t2 \/ tokens[t1].sess \in crossed

\* revokeSessionRecord "guarantees refresh tokens are invalidated before the
\* session disappears": no sign-out, ban, reset, reuse or timeout leaves an
\* unrevoked core-auth token behind on a session it revoked, then or later.
\* (The OIDC provider may mint one there, which core Refresh refuses.)
RevokedSessionHasNoActiveToken ==
    \A t \in TokenIds : CoreActive(t) => sessions[tokens[t].sess].st \in {"live", "swept"}

\* coreAuthSessionLifetime keeps "the row alive for as long as the refresh
\* token it anchors can be redeemed": neither the collector nor a revocation
\* removes the session under a core-auth token a client can still present,
\* unless an OIDC token has moved the row's expiry.
RowOutlivesToken ==
    \A t \in TokenIds : CoreActive(t) /\ now <= tokens[t].expires =>
        Live(tokens[t].sess) \/ tokens[t].sess \in crossed

\* coreAuthUpdateRotatedSession slides expires_at "to the same horizon": the
\* row the access-token check reads and the core-auth token the refresh check
\* reads expire at the same moment, unless an OIDC token has moved the row's.
HorizonAgreement ==
    \A t \in TokenIds : CoreActive(t) /\ Live(tokens[t].sess) =>
        tokens[t].expires = sessions[tokens[t].sess].expires \/ tokens[t].sess \in crossed

\* However often it is refreshed, and whichever of the configured policies
\* each refresh saw, a session never gets an expiry past the widest absolute
\* deadline, which is anchored on its creation (coreAuthRefreshHorizon).
AbsoluteDeadline ==
    \A s \in SessionIds : Live(s) =>
        \E e \in Envs : \E p \in Policies[e] :
            p.absolute = 0 \/ sessions[s].expires <= sessions[s].created + p.absolute

\* Every policy of its own environment has the session timed out, and no
\* accepted request is about to bump it.
Dead(s) ==
    /\ Live(s)
    /\ \A p \in Policies[Home[sessions[s].user]] : TimedOut(s, p)
    /\ \A b \in bumps : b.sess # s

\* "the session itself lives only while it keeps being refreshed within the
\* idle window and under the absolute lifetime" (coreAuthCheckSessionTimeout):
\* a session that timed out never comes back.
TimedOutStaysDead == [][\A s \in SessionIds : Dead(s) => Dead(s)' \/ ~Live(s)']_vars

\* The policy a refresh is judged by is the one of the session's own
\* environment (coreAuthLoadRefreshRow resolves it from the token's stamp).
PolicyFollowsSession ==
    \A t \in TokenIds : tokens[t].st = "active" /\ Live(tokens[t].sess) =>
        tokens[t].env = Home[sessions[tokens[t].sess].user]

\* gcSweepAll leaves no row past its expiry: the token rows are removed, a session
\* row is removed or TrustSession has given it a later expiry.
ExpiredRowsAreSwept ==
    /\ \A s \in SessionIds : (s \in ExpiredSessions) ~> (s \notin ExpiredSessions)
    /\ \A t \in TokenIds : (t \in ExpiredTokens) ~> tokens[t].st = "swept"

\* The token store keeps the promise of module TokenLease to whoever was given a
\* refresh token, by core-auth or the OIDC provider: at most one redeemable
\* successor, every one fresh, and none once the line has ended, whichever of
\* the two endpoints each token is presented to and whatever revokes it.
Lease == INSTANCE TokenLease WITH
    Keys <- TokenIds,
    held <- {l \in TokenIds : \/ \E t \in TokenIds : tokens[t].st = "active" /\ tokens[t].line = l
                              \/ \E o \in owed : o.line = l},
    keys <- [l \in TokenIds |-> {t \in TokenIds : tokens[t].st = "active" /\ tokens[t].line = l}],
    issued <- {t \in TokenIds : tokens[t].st # "unused"}

ImplementsLease == Lease!LeaseSpec

=============================================================================
