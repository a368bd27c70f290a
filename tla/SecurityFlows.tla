--------------------------- MODULE SecurityFlows ---------------------------
(***************************************************************************)
(* Account security for one account: incidents that events open, review    *)
(* and recovery flows, the guard an account is protected with, support     *)
(* cases and the single-use links that carry all of them.                  *)
(*                                                                         *)
(* Every request is one serializable transaction and so one action.        *)
(* RequireProof and RecordFailure commit on a transaction of their own     *)
(* while the sign-in that called them rolls back.                          *)
(*                                                                         *)
(* Left out because they only make a request fail, which leaves more       *)
(* behaviours: the expiry of flows, codes and links, attempts, throttles   *)
(* and the choice of a factor before it is used.  A failed attempt changes *)
(* nothing else.  Versions, rotated tokens and repeated requests are the   *)
(* subject of FlowTokens, sign-out that of Sessions, proofs for a deletion *)
(* and its cancellation that of Deletion.  The verified contact of the     *)
(* account is its email.  A known device, which lets a sign-in pass        *)
(* without a proof, is a choice of SignIn.  Email and SMS factors stay     *)
(* pending in this code and prove nothing, so they have no place here.     *)
(***************************************************************************)
EXTENDS Integers, FiniteSets

CONSTANTS
    Flows, Incidents, Cases, Links, Sessions,   \* rows there is room for
    Contacts,       \* email addresses
    Identifiers,    \* those given as the identifier of an account
    Totps, Keys,    \* TOTP and WebAuthn factors in iam_factors
    Codes,          \* recovery codes, each used once
    Passkeys,
    None,
    MaxTime,        \* bound on the clock
    Scenarios       \* the credentials an account has at first, and bounds on what is
                    \* done with it: account changes, flows of each kind, cases

SecondFactors == Totps \cup Keys
Creds == SecondFactors \cup Codes \cup Passkeys

ASSUME SecurityAssumption ==
    /\ Identifiers \subseteq Contacts
    /\ None \notin Flows \cup Incidents \cup Cases \cup Sessions \cup Contacts
    /\ (Codes \cup Passkeys) \cap SecondFactors = {}
    /\ MaxTime \in Nat
    /\ Scenarios \subseteq [creds : SUBSET Creds, changes : Nat, reviews : Nat, supports : Nat, cases : Nat]

VARIABLES
    now,
    account,    \* the row of iam_users and the account's credentials
    sessions,   \* iam_sessions
    guard,      \* flow_id of the row in iam_security_guards, or None
    incidents,  \* iam_security_incidents
    cases,      \* iam_security_cases
    links,      \* iam_security_continuations
    flows,      \* iam_flows, the security kinds
    cleared,    \* all sessions were revoked and the guard is still there
    room        \* what is left of the bounds

vars == <<now, account, sessions, guard, incidents, cases, links, flows, cleared, room>>

Steps == {"verify_identity", "verify_contact", "verify_mfa", "review", "restore_access",
          "awaiting_support", "completed"}
Outcomes == {"none", "sign_in_approved", "sign_in_proof_consumed", "activity_confirmed",
             "account_secured"}
Purposes == {"review", "support_grant", "support_status"}
Contact == Contacts \cup {None}

Cred == [state : {"none", "pending", "active"}, at : Nat]
Account == [email : Contact, creds : [Creds -> Cred], recovered : Nat]
Session == [status : {"none", "live", "revoked"}, proof : Flows \cup {None}]
Incident == [status : {"none", "open", "protecting", "resolved"}, at : Nat,
             session : Sessions \cup {None}, contact : Contact, mfa : BOOLEAN,
             before : [email : Contact, mfa : BOOLEAN]]
Case == [status : {"none", "pending", "needs_information", "approved", "rejected", "completed"},
         identifier : Contact, contact : Contact, known : BOOLEAN, prot : BOOLEAN,
         grant : Flows \cup {None}]
Link == [purpose : Purposes \cup {"none"}, incident : Incidents \cup {None},
         case : Cases \cup {None}, consumed : BOOLEAN]
Flow == [status : {"none", "pending", "completed", "aborted"}, step : Steps, signin : BOOLEAN,
         known : BOOLEAN, identifier : Contact, recipient : Contact, verified : BOOLEAN,
         contact : Contact, mfa : BOOLEAN, proved : BOOLEAN, grant : BOOLEAN, prot : BOOLEAN,
         target : Sessions \cup {None}, incident : Incidents \cup {None},
         case : Cases \cup {None}, cutoff : Nat,
         outcome : Outcomes, factor : BOOLEAN, done : Nat]

NoCred == [state |-> "none", at |-> 0]
NoSession == [status |-> "none", proof |-> None]
NoIncident == [status |-> "none", at |-> 0, session |-> None, contact |-> None, mfa |-> FALSE,
               before |-> [email |-> None, mfa |-> FALSE]]
NoCase == [status |-> "none", identifier |-> None, contact |-> None, known |-> FALSE,
           prot |-> FALSE, grant |-> None]
NoLink == [purpose |-> "none", incident |-> None, case |-> None, consumed |-> FALSE]
NoFlow == [status |-> "none", step |-> "verify_contact", signin |-> FALSE, known |-> FALSE,
           identifier |-> None, recipient |-> None, verified |-> FALSE, contact |-> None,
           mfa |-> FALSE, proved |-> FALSE, grant |-> FALSE, prot |-> FALSE, target |-> None,
           incident |-> None, case |-> None, cutoff |-> 0,
           outcome |-> "none", factor |-> FALSE, done |-> 0]

\* The rows keep the types the schema gives them.
TypeOK ==
    /\ now \in 0..MaxTime /\ account \in Account /\ sessions \in [Sessions -> Session]
    /\ guard \in Flows \cup {None} /\ incidents \in [Incidents -> Incident]
    /\ cases \in [Cases -> Case] /\ links \in [Links -> Link] /\ flows \in [Flows -> Flow]
    /\ cleared \in BOOLEAN
    /\ room \in [creds : SUBSET Creds, changes : Nat, reviews : Nat, supports : Nat, cases : Nat]

-----------------------------------------------------------------------------
(* What is asked of the account *)

Active(x) == account.creds[x].state = "active"
MFAActive == \E x \in SecondFactors : Active(x)

\* Created_at is the time of enrolment.
Established(x, t) == account.creds[x].at <= t

\* priorMFARequired
PriorMFA(t) == \E x \in SecondFactors : Active(x) /\ Established(x, t)

\* Mutant: a recovery since does not matter.
AuthorityOfCase(f) ==
    flows[f].grant => cases[flows[f].case].status = "approved" /\ cases[flows[f].case].grant = f

\* Mutant: the case of a grant does not matter.
AuthorityOfTime(f) == flows[f].known => account.recovered <= flows[f].cutoff

\* validateFlowAuthority
Authority(f) ==
    /\ flows[f].grant => /\ cases[flows[f].case].status = "approved"
                         /\ cases[flows[f].case].grant = f
    /\ flows[f].known => account.recovered <= flows[f].cutoff

\* mutateSecurityFlow, before it acts on a submission.
Submits(f, step) == flows[f].status = "pending" /\ flows[f].step = step /\ Authority(f)

-----------------------------------------------------------------------------
(* Writes that several requests share *)

\* The account has or has not a verified email and has any of its credentials.
Init ==
    /\ now = 0 /\ guard = None /\ room \in Scenarios
    /\ \E c \in Identifiers \cup {None} :
        account = [email |-> c, recovered |-> 0, creds |-> [x \in Creds |->
                    [NoCred EXCEPT !.state = IF x \in room.creds THEN "active" ELSE "none"]]]
    /\ cleared = FALSE
    /\ sessions = [s \in Sessions |-> NoSession] /\ incidents = [i \in Incidents |-> NoIncident]
    /\ cases = [c \in Cases |-> NoCase] /\ links = [k \in Links |-> NoLink]
    /\ flows = [f \in Flows |-> NoFlow]

\* Rows get the next free id.
FreeLink == CHOOSE k \in Links : links[k].purpose = "none"
FreeFlow == CHOOSE f \in Flows : flows[f].status = "none"

\* A request that starts a flow: a review, or one about support.
NewFlow(f, row, kind) ==
    /\ flows[f].status = "none" /\ f = FreeFlow /\ room[kind] > 0
    /\ flows' = [flows EXCEPT ![f] = row]
    /\ room' = [room EXCEPT ![kind] = @ - 1]

\* A change of the account from outside the flows.
Change ==
    /\ room.changes > 0
    /\ room' = [room EXCEPT !.changes = @ - 1]

\* recordIncident, as observe and recordFailure call it: a policy that does not
\* report the event, or an incident open for the same reason, leaves no new row;
\* the policy and a contact to write to decide whether a link is sent.  "before"
\* is for the properties: the account before the event.
Record(s, contact, mfa) ==
    \/ UNCHANGED <<incidents, links>>
    \/ \E i \in Incidents :
        /\ incidents[i].status = "none"
        /\ incidents' = [incidents EXCEPT ![i] = [status |-> "open", at |-> now, session |-> s,
                                                  contact |-> contact, mfa |-> mfa,
                before |-> [email |-> account.email, mfa |-> MFAActive]]]
        /\ \/ UNCHANGED links
           \/ /\ contact # None
              /\ \E k \in Links : /\ links[k].purpose = "none" /\ k = FreeLink
                                  /\ links' = [links EXCEPT ![k] = [NoLink EXCEPT !.purpose = "review",
                                                                                 !.incident = i]]

\* continuation: a new grant takes the place of the earlier ones of its case.
SendLink(c, purpose) ==
    \E k \in Links :
        /\ links[k].purpose = "none" /\ k = FreeLink
        /\ links' = [j \in Links |->
            IF j = k THEN [NoLink EXCEPT !.purpose = purpose, !.case = c]
            ELSE IF purpose = "support_grant" /\ links[j].purpose = "support_grant" /\ links[j].case = c
                 THEN [links[j] EXCEPT !.consumed = TRUE] ELSE links[j]]

\* resumeSupportCase
ResumeCase(f, row, c) ==
    /\ cases' = [cases EXCEPT ![c].prot = @ \/ row.prot]
    /\ flows' = [flows EXCEPT ![f] = [row EXCEPT !.case = c, !.step = "awaiting_support"]]
    /\ IF cases[c].status = "approved" THEN SendLink(c, "support_grant") ELSE UNCHANGED links

\* openCase, of the flow f with the changes the request has made to it.
OpenCase(f, changed) ==
    LET id  == IF changed.identifier = None /\ changed.known THEN account.email ELSE changed.identifier
        row == [changed EXCEPT !.identifier = id]
        Same(c) == /\ cases[c].identifier = id /\ cases[c].contact = row.recipient
                   /\ cases[c].status \in {"pending", "needs_information", "approved"}
    IN  /\ id # None
        /\ \/ \E c \in Cases : Same(c) /\ ResumeCase(f, row, c) /\ UNCHANGED room
           \/ \E c \in Cases :
                /\ \A d \in Cases : ~Same(d)
                /\ cases[c].status = "none" /\ room.cases > 0
                /\ room' = [room EXCEPT !.cases = @ - 1]
                /\ cases' = [cases EXCEPT ![c] =
                    [status |-> "pending", identifier |-> id, contact |-> row.recipient,
                     known |-> row.known \/ id = account.email, prot |-> row.prot, grant |-> None]]
                /\ flows' = [flows EXCEPT ![f] = [row EXCEPT !.case = c, !.step = "awaiting_support"]]
                /\ SendLink(c, "support_status")

\* startReview: the row of a flow that reviews incident i, or a session.
ReviewFlow(i, s, signin) ==
    LET at == IF i = None THEN now ELSE incidents[i].at
        to == IF i = None THEN account.email ELSE incidents[i].contact
    IN  [NoFlow EXCEPT !.status = "pending", !.known = TRUE, !.signin = signin, !.incident = i,
            !.target = IF i = None THEN s ELSE incidents[i].session,
            !.cutoff = at, !.contact = to, !.recipient = to,
            !.mfa = PriorMFA(at) \/ (i # None /\ incidents[i].mfa),
            !.step = IF to = None THEN "verify_mfa" ELSE "verify_identity"]

\* A proof of ownership succeeded.
Prove(f, row) ==
    flows' = [flows EXCEPT ![f] =
        IF row.signin
        THEN [row EXCEPT !.proved = TRUE, !.status = "completed", !.step = "completed",
                         !.outcome = "sign_in_approved"]
        ELSE [row EXCEPT !.proved = TRUE, !.step = "review"]]

\* complete: the flow, its incident and, if support granted it, its case.
Complete(f, outcome) ==
    /\ flows' = [flows EXCEPT ![f].status = "completed", ![f].step = "completed",
                              ![f].outcome = outcome, ![f].done = now]
    /\ incidents' = [i \in Incidents |->
            IF i = flows[f].incident THEN [incidents[i] EXCEPT !.status = "resolved"] ELSE incidents[i]]
    /\ cases' = [c \in Cases |->
            IF flows[f].grant /\ c = flows[f].case THEN [cases[c] EXCEPT !.status = "completed"]
            ELSE cases[c]]

-----------------------------------------------------------------------------
(* The account, outside the flows *)

\* The session a request is made with, if any.
Caller == {s \in Sessions : sessions[s].status = "live"} \cup {None}

Tick ==
    /\ now < MaxTime /\ now' = now + 1
    /\ UNCHANGED <<account, sessions, guard, incidents, cases, links, flows, cleared, room>>

\* Mutant: the guard is not looked at.
AnyGuard == TRUE

\* guardSignIn
GuardSignIn == guard = None

\* Mutant: the proof is looked at and left as it is.
ProofSeen(p) == flows[p].signin /\ flows[p].proved /\ Authority(p) /\ UNCHANGED flows

\* consumeSignInProof
ConsumeSignInProof(p) ==
    /\ flows[p].signin /\ flows[p].proved /\ flows[p].outcome = "sign_in_approved" /\ Authority(p)
    /\ flows' = [flows EXCEPT ![p].proved = FALSE, ![p].outcome = "sign_in_proof_consumed"]

\* coreAuthMintSession after guardSignIn: by the policy or a known device, or
\* with a sign-in proof, which is spent.
SignIn(s, p) ==
    /\ Change
    /\ GuardSignIn /\ sessions[s].status = "none"
    /\ sessions' = [sessions EXCEPT ![s] = [status |-> "live", proof |-> p]]
    /\ \/ p = None /\ UNCHANGED flows
       \/ p \in Flows /\ ConsumeSignInProof(p)
    /\ Record(s, account.email, MFAActive)
    /\ UNCHANGED <<now, account, guard, cases, cleared>>

\* requireSignInProof: the sign-in, which did ask the guard, fails; the flow stays.
RequireProof(f) ==
    /\ NewFlow(f, ReviewFlow(None, None, TRUE), "reviews")
    /\ UNCHANGED <<now, account, sessions, guard, incidents, cases, links, cleared>>

\* recordFailure past the threshold, for a password or a factor.
RecordFailure(mfa) ==
    /\ Change
    /\ Record(None, account.email, MFAActive \/ mfa)
    /\ UNCHANGED <<now, account, sessions, guard, cases, flows, cleared>>

\* observe, of an event that leaves all this as it is: a refresh token used twice,
\* another device, a new password, an identity linked or unlinked.
Observe(s) ==
    /\ Change
    /\ Record(s, account.email, MFAActive)
    /\ UNCHANGED <<now, account, sessions, guard, cases, flows, cleared>>

\* Mutant: the incident records the account as the change has left it.
ObserveContactAfter(c) == c

\* securityOldContactKey: the contact an event about the contact records.
ObservedContact(c) == account.email

\* ConfirmEmailChange: observe refuses it under a guard and records the contact
\* the account had before.
ChangeEmail(c, s) ==
    /\ Change
    /\ guard = None /\ c # account.email
    /\ account' = [account EXCEPT !.email = c]
    /\ Record(s, ObservedContact(c), MFAActive)
    /\ UNCHANGED <<now, sessions, guard, cases, flows, cleared>>

\* EnrollTOTP and EnrollWebAuthnVerify, whose factor is active at once: observe
\* does not look at enrolment, so the guard is not asked and nothing is recorded.
EnrollFactor(x) ==
    /\ Change
    /\ x \in SecondFactors /\ account.creds[x].state = "none"
    /\ account' = [account EXCEPT !.creds[x] =
            [state |-> IF x \in Keys THEN "active" ELSE "pending", at |-> now]]
    /\ UNCHANGED <<now, sessions, guard, incidents, cases, links, flows, cleared>>

\* VerifyTOTP activates the factor and leaves its created_at.
ActivateFactor(x, s) ==
    /\ Change
    /\ guard = None /\ account.creds[x].state = "pending"
    /\ account' = [account EXCEPT !.creds[x].state = "active"]
    /\ Record(s, account'.email, TRUE)
    /\ UNCHANGED <<now, sessions, guard, cases, flows, cleared>>

\* GenerateRecoveryCodes, which replaces earlier codes, and registering a passkey.
AddCredential(x, s) ==
    /\ Change
    /\ guard = None /\ x \in Codes \cup Passkeys
    /\ x \in Codes \/ account.creds[x].state = "none"
    /\ account' = [account EXCEPT !.creds[x] = [state |-> "active", at |-> now]]
    /\ Record(s, account'.email, MFAActive)
    /\ UNCHANGED <<now, sessions, guard, cases, flows, cleared>>

\* Mutant: the factors are counted after the removal.
FactorsLeft(x) == \E y \in SecondFactors \ {x} : Active(y)

\* observe, of mfa.factor.removed: whatever is left, the factor counts.
FactorsBefore(x) == x \in SecondFactors \/ MFAActive

\* RemoveFactor, of a pending or an active one, and removing a passkey.
RemoveFactor(x, s) ==
    /\ Change
    /\ guard = None /\ x \notin Codes /\ account.creds[x].state # "none"
    /\ account' = [account EXCEPT !.creds[x] = NoCred]
    /\ Record(s, account'.email, FactorsBefore(x))
    /\ UNCHANGED <<now, sessions, guard, cases, flows, cleared>>

-----------------------------------------------------------------------------
(* Starting a flow *)

\* Start in review mode, by the signed-in account.
StartReview(f, i, s) ==
    /\ i # None => incidents[i].status \in {"open", "protecting"}
    /\ s # None => sessions[s].status # "none"
    /\ NewFlow(f, ReviewFlow(i, s, FALSE), "reviews")
    /\ UNCHANGED <<now, account, sessions, guard, incidents, cases, links, cleared>>

\* Start in recovery mode: anyone names an account and a contact of their own.
StartRecovery(f, id, c) ==
    /\ NewFlow(f, [NoFlow EXCEPT !.status = "pending", !.identifier = id, !.recipient = c,
                                 !.cutoff = now], "supports")
    /\ UNCHANGED <<now, account, sessions, guard, incidents, cases, links, cleared>>

\* exchange of the link an incident sent.
ExchangeReview(f, k) ==
    /\ links[k].purpose = "review" /\ ~links[k].consumed
    /\ incidents[links[k].incident].status # "resolved"
    /\ links' = [links EXCEPT ![k].consumed = TRUE]
    /\ NewFlow(f, ReviewFlow(links[k].incident, None, FALSE), "reviews")
    /\ UNCHANGED <<now, account, sessions, guard, incidents, cases, cleared>>

\* exchange of the link that tells how a case stands.
ExchangeStatus(f, k) ==
    LET c == links[k].case
    IN  /\ links[k].purpose = "support_status" /\ ~links[k].consumed
        /\ links' = [links EXCEPT ![k].consumed = TRUE]
        /\ NewFlow(f, [NoFlow EXCEPT !.status = "pending", !.step = "awaiting_support", !.case = c,
                !.known = cases[c].known, !.recipient = cases[c].contact, !.cutoff = now], "supports")
        /\ UNCHANGED <<now, account, sessions, guard, incidents, cases, cleared>>

\* exchange of the link an approval sent: the flow may act for the case, and takes
\* over the guard if the request for support came from a protected account.
ExchangeGrant(f, k) ==
    LET c == links[k].case
    IN  /\ links[k].purpose = "support_grant" /\ ~links[k].consumed
        /\ cases[c].status = "approved"
        /\ links' = [links EXCEPT ![k].consumed = TRUE]
        /\ cases' = [cases EXCEPT ![c].grant = f]
        /\ NewFlow(f, [NoFlow EXCEPT !.status = "pending", !.case = c, !.known = TRUE,
                !.proved = TRUE, !.grant = TRUE, !.recipient = cases[c].contact, !.cutoff = now,
                !.step = IF cases[c].prot THEN "restore_access" ELSE "review"], "supports")
        /\ guard' = IF cases[c].prot /\ guard # None THEN f ELSE guard
        /\ UNCHANGED <<now, account, sessions, incidents, cleared>>

-----------------------------------------------------------------------------
(* Submitting to a flow *)

\* advanceContactProof of a review: the contact captured before the incident.
VerifyIdentity(f) ==
    LET row == [flows[f] EXCEPT !.verified = TRUE]
    IN  /\ Submits(f, "verify_identity")
        /\ IF MFAActive \/ row.mfa
           THEN flows' = [flows EXCEPT ![f] = [row EXCEPT !.mfa = TRUE, !.step = "verify_mfa"]]
           ELSE Prove(f, row)
        /\ UNCHANGED <<now, account, sessions, guard, incidents, cases, links, cleared, room>>

\* advanceContactProof of a contact named for support.
VerifyContact(f) ==
    /\ Submits(f, "verify_contact")
    /\ OpenCase(f, [flows[f] EXCEPT !.verified = TRUE, !.proved = FALSE])
    /\ UNCHANGED <<now, account, sessions, guard, incidents, cleared>>

\* advanceFactorProof: with a credential as old as the incident; a WebAuthn factor
\* is not offered, and a recovery code is spent.
VerifyFactor(f, x) ==
    /\ Submits(f, "verify_mfa")
    /\ x \notin Keys /\ Active(x) /\ Established(x, flows[f].cutoff)
    /\ Prove(f, [flows[f] EXCEPT !.factor = TRUE])
    /\ IF x \in Codes THEN account' = [account EXCEPT !.creds[x] = NoCred]
       ELSE UNCHANGED account
    /\ UNCHANGED <<now, sessions, guard, incidents, cases, links, cleared, room>>

\* advanceReview, "It was me".
Confirm(f) ==
    /\ Submits(f, "review") /\ flows[f].proved /\ ~flows[f].grant
    /\ Complete(f, "activity_confirmed")
    /\ UNCHANGED <<now, account, sessions, guard, links, cleared, room>>

\* advanceReview, "This was not me", and protect: a session is named unless the
\* incident has one, all are meant, or there is none; the guard of another flow
\* is only taken over with a support grant.
Report(f, all, s) ==
    LET target == IF flows[f].target = None /\ ~all THEN s ELSE flows[f].target
    IN  /\ Submits(f, "review") /\ flows[f].proved
        /\ IF flows[f].target # None \/ all \/ \A t \in Sessions : sessions[t].status = "none"
           THEN s = None
           ELSE s # None /\ sessions[s].status # "none"
        /\ guard \in {None, f} \/ flows[f].grant
        /\ guard' = f
        /\ sessions' = [t \in Sessions |->
                IF (all \/ t = target) /\ sessions[t].status = "live"
                THEN [sessions[t] EXCEPT !.status = "revoked"] ELSE sessions[t]]
        /\ flows' = [flows EXCEPT ![f].target = target, ![f].prot = TRUE, ![f].step = "restore_access"]
        /\ incidents' = [i \in Incidents |->
                IF i = flows[f].incident THEN [incidents[i] EXCEPT !.status = "protecting"]
                ELSE incidents[i]]
        /\ cleared' = (cleared \/ all)
        /\ UNCHANGED <<now, account, cases, links, room>>

\* invalidateRecoveryCredentials: what was added since the incident goes, and all
\* of them under a support grant.
Kept(f, x) == ~flows[f].grant /\ account.creds[x].at <= flows[f].cutoff

\* restoreAccountContacts
RestoredContact(f) == IF flows[f].grant THEN flows[f].recipient ELSE flows[f].contact

\* restoreWithoutPassword registers a passkey, or none.
NewPasskeys(f) == {{}} \cup {{x} : x \in {y \in Passkeys : ~Kept(f, y) \/ ~Active(y)}}

\* advanceRestore with any of its methods; the flow's own guard is released.
Restore(f, new) ==
    LET row == flows[f]
    IN  /\ Submits(f, "restore_access") /\ row.proved /\ new \in NewPasskeys(f)
        /\ account' = [email |-> RestoredContact(f), recovered |-> now,
                creds |-> [x \in Creds |-> IF x \in new THEN [state |-> "active", at |-> now]
                                          ELSE IF Kept(f, x) THEN account.creds[x] ELSE NoCred]]
        /\ guard' = IF guard = f THEN None ELSE guard
        /\ cleared' = (cleared /\ guard' # None)
        /\ Complete(f, "account_secured")
        /\ UNCHANGED <<now, sessions, links, room>>

Abandon(f) ==
    /\ flows[f].status = "pending" /\ Authority(f) /\ flows[f].step # "restore_access"
    /\ flows' = [flows EXCEPT ![f].status = "aborted"]
    /\ UNCHANGED <<now, account, sessions, guard, incidents, cases, links, cleared, room>>

\* requestSupport at any step: with a contact of one's own, which is verified
\* first, or with the contact verified already.
NewContact(f, id, c) ==
    /\ flows[f].status = "pending" /\ Authority(f) /\ c # flows[f].recipient
    /\ room.supports > 0 /\ room' = [room EXCEPT !.supports = @ - 1]
    /\ flows' = [flows EXCEPT ![f] =
            [flows[f] EXCEPT !.identifier = IF id = None THEN @ ELSE id, !.recipient = c, !.verified = FALSE,
                             !.grant = FALSE, !.proved = FALSE, !.step = "verify_contact"]]
    /\ UNCHANGED <<now, account, sessions, guard, incidents, cases, links, cleared>>

RequestSupport(f, id) ==
    /\ flows[f].status = "pending" /\ Authority(f)
    /\ flows[f].verified \/ flows[f].proved
    /\ flows[f].recipient # None
    /\ OpenCase(f, [flows[f] EXCEPT !.identifier = IF id = None THEN @ ELSE id])
    /\ UNCHANGED <<now, account, sessions, guard, incidents, cleared>>

\* caseMessage
SupportMessage(f) ==
    LET c == flows[f].case
    IN  /\ Submits(f, "awaiting_support") /\ cases[c].status \in {"pending", "needs_information"}
        /\ cases' = [cases EXCEPT ![c].status = "pending"]
        /\ UNCHANGED <<now, account, sessions, guard, incidents, links, flows, cleared, room>>

-----------------------------------------------------------------------------
(* Support *)

DecideCase(c, status) ==
    /\ cases[c].status \in {"pending", "needs_information"}
    /\ status = "approved" => cases[c].known
    /\ cases' = [cases EXCEPT ![c].status = status]
    /\ SendLink(c, IF status = "approved" THEN "support_grant" ELSE "support_status")
    /\ UNCHANGED <<now, account, sessions, guard, incidents, flows, cleared, room>>

AccountStep ==
    \/ Tick
    \/ \E s \in Sessions, p \in Flows \cup {None} : SignIn(s, p)
    \/ \E f \in Flows : RequireProof(f)
    \/ \E mfa \in BOOLEAN : RecordFailure(mfa)
    \/ \E s \in Caller : Observe(s)
    \/ \E c \in Contacts, s \in Caller : ChangeEmail(c, s)
    \/ \E x \in Creds : EnrollFactor(x)
    \/ \E x \in Creds, s \in Caller :
        ActivateFactor(x, s) \/ AddCredential(x, s) \/ RemoveFactor(x, s)

FlowStep(f) ==
    \/ \E i \in Incidents \cup {None}, s \in Sessions \cup {None} : StartReview(f, i, s)
    \/ \E id \in Identifiers, c \in Contacts : StartRecovery(f, id, c)
    \/ \E k \in Links : ExchangeReview(f, k) \/ ExchangeStatus(f, k) \/ ExchangeGrant(f, k)
    \/ VerifyIdentity(f) \/ VerifyContact(f)
    \/ \E x \in Creds : VerifyFactor(f, x)
    \/ Confirm(f)
    \/ \E all \in BOOLEAN, s \in Sessions \cup {None} : Report(f, all, s)
    \/ \E new \in SUBSET Passkeys : Restore(f, new)
    \/ Abandon(f)
    \/ \E id \in Identifiers \cup {None}, c \in Contacts : NewContact(f, id, c)
    \/ \E id \in Identifiers \cup {None} : RequestSupport(f, id)
    \/ SupportMessage(f)

Next ==
    \/ AccountStep
    \/ \E f \in Flows : FlowStep(f)
    \/ \E c \in Cases, status \in {"approved", "rejected", "needs_information"} : DecideCase(c, status)

Spec == Init /\ [][Next]_vars

-----------------------------------------------------------------------------
(* Properties *)

\* The flow g is used up in this step: it secures the account, confirms activity
\* or lets somebody sign in.
Spends(g) ==
    /\ flows'[g].outcome # flows[g].outcome
    /\ flows'[g].outcome \in {"account_secured", "activity_confirmed", "sign_in_proof_consumed"}

\* Once the account was secured, no proof of ownership from before that moment is
\* worth anything: whatever was secured, confirmed or signed in later rests on a
\* flow that looks back no further than the recovery (validateFlowAuthority).
RecoveriesDoNotCross ==
    [][\A f, g \in Flows : flows[f].outcome = "account_secured" /\ Spends(g)
                           => flows[f].done <= flows[g].cutoff]_vars

\* One approval of a case restores access once, however many grants were sent and
\* exchanged for it (exchange, continuation, complete).
OneRecoveryPerCase ==
    \A f, g \in Flows :
        /\ flows[f].outcome = "account_secured" /\ flows[f].grant
        /\ flows[g].outcome = "account_secured" /\ flows[g].grant
        /\ flows[f].case = flows[g].case
        => f = g

\* A sign-in proof buys one session (consumeSignInProof).
ProofBuysOneSession ==
    \A s, t \in Sessions : sessions[s].proof # None /\ sessions[s].proof = sessions[t].proof => s = t

\* When all sessions were revoked, the account has none until a recovery releases
\* the guard: no sign-in slips in between (guardSignIn, protect, complete).
NoSessionWhileCleared == cleared => \A s \in Sessions : sessions[s].status # "live"

\* An incident of an account that had a second factor before the event is reviewed
\* with one, also if the event, or one since, removed it (observe, priorMFARequired,
\* advanceContactProof).
FactorStillRequired ==
    \A f \in Flows : LET i == flows[f].incident IN
        i # None /\ flows[f].proved /\ incidents[i].before.mfa => flows[f].factor

\* A recovery without support gives the account back the contact it had before the
\* event under review, whatever the event and those since have made of it (observe,
\* restoreAccountContacts).
RestoresEarlierContact ==
    [][\A f \in Flows : LET i == flows[f].incident IN
        Spends(f) /\ flows'[f].outcome = "account_secured" /\ ~flows[f].grant /\ i # None
        => account'.email = incidents[i].before.email]_vars
=============================================================================
