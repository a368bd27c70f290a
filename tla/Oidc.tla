-------------------------------- MODULE Oidc --------------------------------
(***************************************************************************)
(* The OpenID Connect provider for one client: pushed requests, the login  *)
(* and consent interaction, silent sign-on, authorization codes, the       *)
(* device grant, and the refresh tokens that come of them (oidc_pg.go,     *)
(* oidc_tokens_pg.go).                                                     *)
(*                                                                         *)
(* A transaction is one action.  What runs between transactions is held in *)
(* reqs: the principal the API authenticated before the handler opened its *)
(* transaction, a silent request between its checks and its insert, and a  *)
(* refresh between the spend of the old token and the mint of the new one. *)
(* Left out: expiry and the collector, signatures, scopes, PKCE and        *)
(* redirect_uri comparison, and the gate on account deletion; each can     *)
(* only refuse what is allowed here, and a row that has expired does       *)
(* nothing that a row nobody presents does not do.                         *)
(***************************************************************************)
EXTENDS Naturals

CONSTANTS
    Sessions, Accounts, Owner,   \* Owner[s] is the account of session s
    Requests,                    \* requests in progress at the same time
    Interactions, Codes, Devices, Tokens, Pushed,
    MaxGrants,                   \* bound on remembered grants of an account
    None

ASSUME OidcAssumption ==
    /\ Owner \in [Sessions -> Accounts]
    /\ MaxGrants \in Nat
    /\ Requests \cap (Tokens \cup Interactions \cup Codes) = {}
    /\ Interactions \cap Codes = {}
    /\ Codes \cap Devices = {}
    /\ None \notin Sessions \cup Accounts \cup Interactions \cup Codes \cup Devices \cup Pushed

VARIABLES
    sessions,       \* iam_sessions
    pushed,         \* iam_par_requests
    interactions,   \* iam_interactions; first is the session that claimed the row
    grants,         \* how many iam_oauth_grants rows the account has
    codes,          \* iam_auth_codes
    devices,        \* iam_device_codes
    tokens,         \* iam_refresh_tokens of kind oidc
    reqs            \* requests between two of their transactions

vars == <<sessions, pushed, interactions, grants, codes, devices, tokens, reqs>>

Idle == [pc |-> "idle", session |-> None, push |-> None, origin |-> None]
NoInteraction == [st |-> "none", session |-> None, first |-> None, push |-> None]
NoCode == [st |-> "none", session |-> None, via |-> None, push |-> None]
NoToken == [st |-> "none", session |-> None, origin |-> None]

SessionOrNone == Sessions \cup {None}

InteractionRow ==
    [st : {"none", "open", "consented", "closed"},
     session : SessionOrNone, first : SessionOrNone, push : Pushed \cup {None}]
CodeRow ==
    [st : {"none", "open", "consumed"}, session : SessionOrNone,
     via : Interactions \cup {None}, push : Pushed \cup {None}]
TokenRow ==
    [st : {"none", "active", "revoked"}, session : SessionOrNone, origin : Codes \cup Devices \cup {None}]
Request ==
    [pc : {"idle", "arrived", "authorize", "silent", "spent"},
     session : SessionOrNone, push : Pushed \cup {None}, origin : Codes \cup Devices \cup {None}]

\* The tables hold rows of the schema's shape.
TypeOK ==
    /\ sessions \in [Sessions -> {"live", "ended"}]
    /\ pushed \in [Pushed -> {"none", "lodged", "gone"}]
    /\ interactions \in [Interactions -> InteractionRow]
    /\ grants \in [Accounts -> 0..MaxGrants]
    /\ codes \in [Codes -> CodeRow]
    /\ devices \in [Devices -> {"none", "pending", "approved", "denied"}]
    /\ tokens \in [Tokens -> TokenRow]
    /\ reqs \in [Requests -> Request]

Init ==
    /\ sessions = [s \in Sessions |-> "live"]
    /\ pushed = [p \in Pushed |-> "none"]
    /\ interactions = [i \in Interactions |-> NoInteraction]
    /\ grants = [a \in Accounts |-> 0]
    /\ codes = [c \in Codes |-> NoCode]
    /\ devices = [d \in Devices |-> "none"]
    /\ tokens = [t \in Tokens |-> NoToken]
    /\ reqs = [r \in Requests |-> Idle]

Done(r) == reqs' = [reqs EXCEPT ![r] = Idle]

-----------------------------------------------------------------------------
(* Requests and sessions *)

\* requirePrincipal and SoftPrincipalFrom: the session is looked up before the
\* handler runs; an authorization request or a rejection may have none.
Arrive(r, s) ==
    /\ reqs[r].pc = "idle"
    /\ s # None => sessions[s] = "live"
    /\ reqs' = [reqs EXCEPT ![r] = [Idle EXCEPT !.pc = "arrived", !.session = s]]
    /\ UNCHANGED <<sessions, pushed, interactions, grants, codes, devices, tokens>>

Arrived(r) == reqs[r].pc = "arrived" /\ reqs[r].session # None

\* A refused request, a cut connection or a crash.
Drop(r) ==
    /\ reqs[r].pc # "idle"
    /\ Done(r)
    /\ UNCHANGED <<sessions, pushed, interactions, grants, codes, devices, tokens>>

\* The tokens after every unrevoked one of session s is revoked.
Burnt(s) ==
    [t \in Tokens |-> IF tokens[t].session = s /\ tokens[t].st = "active"
                      THEN [tokens[t] EXCEPT !.st = "revoked"] ELSE tokens[t]]

\* terminateSession, and every other caller of revokeSessionRecord.
Logout(s) ==
    /\ sessions[s] = "live"
    /\ sessions' = [sessions EXCEPT ![s] = "ended"]
    /\ tokens' = Burnt(s)
    /\ UNCHANGED <<pushed, interactions, grants, codes, devices, reqs>>

-----------------------------------------------------------------------------
(* Authorization requests *)

PushAuthorizationRequest(p) ==
    /\ pushed[p] = "none"
    /\ pushed' = [pushed EXCEPT ![p] = "lodged"]
    /\ UNCHANGED <<sessions, interactions, grants, codes, devices, tokens, reqs>>

\* Mutant: the pushed request is left in place.
ConsumeKeeping(p) == pushed[p] = "lodged" /\ UNCHANGED pushed

\* consumePushedRequest: any refusal rolls the delete back, so only the accepted
\* request changes the row.
Consume(p) ==
    /\ pushed[p] = "lodged"
    /\ pushed' = [pushed EXCEPT ![p] = "gone"]

\* resolveAuthorizeRequest commits before authorize looks at anything else.
ResolveRequest(r, p) ==
    /\ reqs[r].pc = "arrived"
    /\ IF p = None THEN UNCHANGED pushed ELSE Consume(p)
    /\ reqs' = [reqs EXCEPT ![r].pc = "authorize", ![r].push = p]
    /\ UNCHANGED <<sessions, interactions, grants, codes, devices, tokens>>

\* authorizeSilently finds the session live and a grant remembered.
CheckSilently(r) ==
    /\ reqs[r].pc = "authorize" /\ reqs[r].session # None
    /\ sessions[reqs[r].session] = "live"
    /\ grants[Owner[reqs[r].session]] > 0
    /\ reqs' = [reqs EXCEPT ![r].pc = "silent"]
    /\ UNCHANGED <<sessions, pushed, interactions, grants, codes, devices, tokens>>

\* issueAuthorizationCode.
IssueCode(c, s, i, p) ==
    /\ codes[c].st = "none"
    /\ codes' = [codes EXCEPT ![c] = [st |-> "open", session |-> s, via |-> i, push |-> p]]

IssueSilently(r, c) ==
    /\ reqs[r].pc = "silent"
    /\ IssueCode(c, reqs[r].session, None, reqs[r].push)
    /\ Done(r)
    /\ UNCHANGED <<sessions, pushed, interactions, grants, devices, tokens>>

\* startInteraction, where the checks failed or the prompt forbids silence.
StartInteraction(r, i) ==
    /\ reqs[r].pc = "authorize"
    /\ interactions[i].st = "none"
    /\ interactions' = [interactions EXCEPT ![i] = [NoInteraction EXCEPT !.st = "open", !.push = reqs[r].push]]
    /\ Done(r)
    /\ UNCHANGED <<sessions, pushed, grants, codes, devices, tokens>>

-----------------------------------------------------------------------------
(* The interaction *)

\* The session becomes the row's; the first one to do so is remembered.
Bind(i, s) ==
    [interactions EXCEPT ![i].session = s,
                         ![i].first = IF @ = None THEN s ELSE @]

\* Mutant: a later session takes the interaction over.
MayClaimAnew(i, s) == interactions[i].st = "open"

MayClaim(i, s) == interactions[i].st = "open" /\ interactions[i].session \in {None, s}

CompleteLogin(r, i) ==
    /\ Arrived(r)
    /\ MayClaim(i, reqs[r].session)
    /\ interactions' = Bind(i, reqs[r].session)
    /\ Done(r)
    /\ UNCHANGED <<sessions, pushed, grants, codes, devices, tokens>>

\* persistGrant inserts a row each time.
RememberGrant(a, remember) ==
    IF remember
    THEN /\ grants[a] < MaxGrants
         /\ grants' = [grants EXCEPT ![a] = @ + 1]
    ELSE UNCHANGED grants

\* Either verdict deletes the row.
Decide(i, verdict) == interactions' = [interactions EXCEPT ![i].st = verdict, ![i].session = None]

\* Consent, by the session that claimed the row (claimedInteraction).
Consent(r, i, c, remember) ==
    /\ Arrived(r)
    /\ interactions[i].st = "open" /\ interactions[i].session = reqs[r].session
    /\ RememberGrant(Owner[reqs[r].session], remember)
    /\ Decide(i, "consented")
    /\ IssueCode(c, reqs[r].session, i, interactions[i].push)
    /\ Done(r)
    /\ UNCHANGED <<sessions, pushed, devices, tokens>>

\* Anyone may cancel a request nobody has claimed.
Reject(r, i) ==
    /\ reqs[r].pc = "arrived"
    /\ interactions[i].st = "open" /\ interactions[i].session \in {None, reqs[r].session}
    /\ Decide(i, "closed")
    /\ Done(r)
    /\ UNCHANGED <<sessions, pushed, grants, codes, devices, tokens>>

\* RevokeGrant finds a row whose user_id is the caller.
OwnsGrant(a) == grants[a] > 0

RevokeGrant(r) ==
    /\ Arrived(r)
    /\ OwnsGrant(Owner[reqs[r].session])
    /\ grants' = [grants EXCEPT ![Owner[reqs[r].session]] = @ - 1]
    /\ Done(r)
    /\ UNCHANGED <<sessions, pushed, interactions, codes, devices, tokens>>

-----------------------------------------------------------------------------
(* The token endpoint *)

\* storeOIDCRefreshToken.
StoreToken(t, s, o) ==
    /\ tokens[t].st = "none"
    /\ tokens' = [tokens EXCEPT ![t] = [st |-> "active", session |-> s, origin |-> o]]

\* Mutant: the code is left unconsumed.
ConsumeCodeLate(c) == codes[c].st = "open" /\ UNCHANGED codes

ConsumeCode(c) ==
    /\ codes[c].st = "open"
    /\ codes' = [codes EXCEPT ![c].st = "consumed"]

\* tokenAuthorizationCodeGrant: consume and mint share the transaction.  A
\* refresh token is stored when offline_access was asked for.
ExchangeCode(c, t, offline) ==
    /\ ConsumeCode(c)
    /\ grants[Owner[codes[c].session]] > 0
    /\ IF offline THEN StoreToken(t, codes[c].session, c) ELSE UNCHANGED tokens
    /\ UNCHANGED <<sessions, pushed, interactions, grants, devices, reqs>>

\* Mutant: a token already revoked can be spent once more.
SpendableStale(t) == tokens[t].st \in {"active", "revoked"}

Spendable(t) == tokens[t].st = "active"

\* oidcRedeemRefreshToken, in a transaction of its own.
Spend(r, t) ==
    /\ reqs[r].pc = "idle"
    /\ Spendable(t)
    /\ tokens' = [tokens EXCEPT ![t].st = "revoked"]
    /\ reqs' = [reqs EXCEPT ![r] = [pc |-> "spent", session |-> tokens[t].session,
                                    push |-> None, origin |-> tokens[t].origin]]
    /\ UNCHANGED <<sessions, pushed, interactions, grants, codes, devices>>

\* tokenRefreshGrant mints after the spend has committed.
MintRotated(r, t) ==
    /\ reqs[r].pc = "spent"
    /\ StoreToken(t, reqs[r].session, reqs[r].origin)
    /\ Done(r)
    /\ UNCHANGED <<sessions, pushed, interactions, grants, codes, devices>>

\* A revoked token is presented: burnSessionRefreshTokens, on the pool; nothing
\* for a token without a session.
Replay(t) ==
    /\ tokens[t].st = "revoked" /\ tokens[t].session # None
    /\ tokens' = Burnt(tokens[t].session)
    /\ UNCHANGED <<sessions, pushed, interactions, grants, codes, devices, reqs>>

\* Revoke, of a code or of a refresh token.
RevokeCode(c) ==
    /\ codes[c].st = "open"
    /\ codes' = [codes EXCEPT ![c].st = "consumed"]
    /\ UNCHANGED <<sessions, pushed, interactions, grants, devices, tokens, reqs>>

RevokeToken(t) ==
    /\ tokens[t].st = "active"
    /\ tokens' = [tokens EXCEPT ![t].st = "revoked"]
    /\ UNCHANGED <<sessions, pushed, interactions, grants, codes, devices, reqs>>

-----------------------------------------------------------------------------
(* The device grant *)

DeviceAuthorization(d) ==
    /\ devices[d] = "none"
    /\ devices' = [devices EXCEPT ![d] = "pending"]
    /\ UNCHANGED <<sessions, pushed, interactions, grants, codes, tokens, reqs>>

\* deviceDecision asks that the row has not expired, not that it is pending.
DecideDevice(r, d, verdict) ==
    /\ Arrived(r)
    /\ devices[d] # "none"
    /\ devices' = [devices EXCEPT ![d] = verdict]
    /\ Done(r)
    /\ UNCHANGED <<sessions, pushed, interactions, grants, codes, tokens>>

\* tokenDeviceCodeGrant mints for an approved row and leaves it approved.
ExchangeDevice(d, t, offline) ==
    /\ devices[d] = "approved"
    /\ IF offline THEN StoreToken(t, None, d) ELSE UNCHANGED tokens
    /\ UNCHANGED <<sessions, pushed, interactions, grants, codes, devices, reqs>>

-----------------------------------------------------------------------------
Next ==
    \/ \E r \in Requests, s \in SessionOrNone : Arrive(r, s)
    \/ \E r \in Requests : Drop(r) \/ CheckSilently(r) \/ RevokeGrant(r)
    \/ \E s \in Sessions : Logout(s)
    \/ \E p \in Pushed : PushAuthorizationRequest(p)
    \/ \E r \in Requests, p \in Pushed \cup {None} : ResolveRequest(r, p)
    \/ \E r \in Requests, c \in Codes : IssueSilently(r, c)
    \/ \E r \in Requests, i \in Interactions :
        \/ StartInteraction(r, i)
        \/ CompleteLogin(r, i)
        \/ Reject(r, i)
        \/ \E c \in Codes, remember \in BOOLEAN : Consent(r, i, c, remember)
    \/ \E c \in Codes : RevokeCode(c)
    \/ \E c \in Codes, t \in Tokens, offline \in BOOLEAN : ExchangeCode(c, t, offline)
    \/ \E r \in Requests, t \in Tokens : Spend(r, t) \/ MintRotated(r, t)
    \/ \E t \in Tokens : Replay(t) \/ RevokeToken(t)
    \/ \E d \in Devices : DeviceAuthorization(d)
    \/ \E r \in Requests, d \in Devices, v \in {"approved", "denied"} : DecideDevice(r, d, v)
    \/ \E d \in Devices, t \in Tokens, offline \in BOOLEAN : ExchangeDevice(d, t, offline)

Spec == Init /\ [][Next]_vars

-----------------------------------------------------------------------------
(* Properties *)

AtMostOne(S) == \A x, y \in S : x = y

\* The tokens that can be redeemed and the mints under way that stem from c.
Line(c) ==
    {t \in Tokens : tokens[t].st = "active" /\ tokens[t].origin = c}
    \cup {r \in Requests : reqs[r].pc = "spent" /\ reqs[r].origin = c}

\* An authorization code gives rise to one line of refresh tokens: whatever is
\* exchanged, rotated, replayed and revoked at the same time, at most one token
\* that descends from it can be redeemed or is about to be minted.
OneTokenPerCode == \A c \in Codes : AtMostOne(Line(c))

\* An interaction is decided once, by the session that claimed it first: a
\* consented one has exactly one code, bound to that session, and one rejected,
\* expired or still open has none (CompleteLogin, Consent, Reject).
ClaimantDecides ==
    \A i \in Interactions :
        LET issued == {c \in Codes : codes[c].via = i}
        IN  /\ AtMostOne(issued)
            /\ issued # {} <=> interactions[i].st = "consented"
            /\ \A c \in issued : codes[c].session = interactions[i].first

\* A pushed request is redeemed once: it starts one interaction or is answered
\* with one code (consumePushedRequest).
PushedOnce ==
    \A p \in Pushed : AtMostOne(
        {i \in Interactions : interactions[i].push = p}
        \cup {c \in Codes : codes[c].push = p /\ codes[c].via = None}
        \cup {r \in Requests : reqs[r].push = p})

\* Session s was revoked and nothing of it is left to be redeemed.
Quiet(s) ==
    /\ sessions[s] = "ended"
    /\ \A t \in Tokens : tokens[t].session = s => tokens[t].st # "active"
    /\ \A c \in Codes : codes[c].session = s => codes[c].st # "open"
    /\ \A r \in Requests : reqs[r].session # s

\* Once a revoked session has no request under way and no code outstanding, no
\* token of it ever comes back (oidcRedeemRefreshToken, Revoke, Logout).
QuietStaysQuiet == [][\A s \in Sessions : Quiet(s) => Quiet(s)']_vars

\* "the same table core-auth uses, so rotation, reuse detection and "revoke the
\* session" all work on OIDC grants too": a revoked session has no redeemable
\* token.  Not kept: neither the exchange of a code nor a refresh looks at the
\* session.
RevokedSessionHasNoToken ==
    \A t \in Tokens : tokens[t].st = "active" /\ tokens[t].session # None
                      => sessions[tokens[t].session] # "ended"
=============================================================================
