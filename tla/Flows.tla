------------------------------- MODULE Flows -------------------------------
(***************************************************************************)
(* One resumable auth flow: its row of iam_flows, the challenges issued    *)
(* for it and the sessions minted on its way, driven by concurrent Create, *)
(* Submit, Resend and Abandon requests.                                    *)
(*                                                                         *)
(* The engine loads the row without a transaction, runs the step's own     *)
(* transactions, and then writes every field of the row back from the copy *)
(* it loaded (flowSave), with a new token when the step completes the flow *)
(* (flowRotate).  A request is therefore several steps, and req holds the  *)
(* copy it works on.                                                       *)
(***************************************************************************)
EXTENDS Integers, FiniteSets

CONSTANTS
    Requests,       \* requests in progress at the same time
    Challenges,     \* ids available for rows of iam_challenges
    NoChallenge,    \* f.ActiveChallenge = nil
    Fake,           \* the id of a challenge that has no row (unknown account)
    Sessions,       \* ids available for sessions
    NoSession,
    Plans,          \* what the flow's creator asked for, and the project's policy
    MaxAttempts,    \* flowMaxAttempts, maxOTPAttempts, mfaMaxVerifyAttempts
    FlowTTL, ChallengeTTL,
    Cooloff,        \* flowResendCooloff
    MaxTime         \* bound on the clock

Kinds == {"signup", "signin", "recovery"}
FirstSteps == {"verify_email", "verify_phone", "mfa_required"}
Steps == FirstSteps \cup {"set_password", "accept_consents", "completed"}
Types == {"email", "link", "otp", "mfa", "password_reset", "phone"}

\* first: the step the flow is created at; a password sign-in without a second
\* factor is created completed.  afterVerify: the password strategy.
\* required, given: whether the project requires consents, and whether the
\* creator already accepted them.  known: whether the account exists.
Plan == [kind : Kinds, first : FirstSteps \cup {"completed"}, afterVerify : BOOLEAN,
         required : BOOLEAN, given : BOOLEAN, known : BOOLEAN]

\* A sign-up starts by verifying the address, a recovery by verifying either
\* contact.
ASSUME FlowsAssumption ==
    /\ Plans \subseteq Plan /\ IsFiniteSet(Sessions)
    /\ \A p \in Plans : /\ p.kind = "signup" => p.first = "verify_email"
                        /\ p.kind = "recovery" => p.first \in {"verify_email", "verify_phone"}
    /\ MaxAttempts \in Nat \ {0} /\ MaxTime \in Nat
    /\ FlowTTL \in Nat /\ ChallengeTTL \in Nat /\ Cooloff \in Nat
    /\ NoChallenge \notin Challenges \cup {Fake} /\ Fake \notin Challenges
    /\ NoSession \notin Sessions

VARIABLES
    now,
    plan,
    flow,       \* the row, without its token
    token,      \* generation of the token the row answers to; 0: no row
    chal,
    sess,
    account,    \* whether the account exists
    surfaced,   \* sessions returned to the client
    consents,   \* the flow's documents are still configured; acceptance recorded;
                \* a read of the consent configuration failed
    req,
    overlapped  \* two requests have been in progress at once

vars == <<now, plan, flow, token, chal, sess, account, surfaced, consents, req, overlapped>>

Flow == [status : {"pending", "completed", "aborted"}, step : Steps,
         active : Challenges \cup {NoChallenge, Fake}, left : 0..MaxAttempts, resend : Nat,
         required : BOOLEAN, user : BOOLEAN, expires : Nat]
Challenge == [type : Types \cup {"none"}, used : BOOLEAN, until : Nat, wrong : 0..(MaxAttempts + 1)]
Session == [state : {"none", "live", "revoked"},
            from : Challenges \cup {"none", "register", "password", "consents"}]
Consents == [configured : BOOLEAN, recorded : BOOLEAN, misread : BOOLEAN]
Request == [at : {"idle", "registered", "created", "submit", "resend", "switch", "abandon",
                  "save", "rotate", "revoke", "fresh"},
            flow : Flow, sess : Sessions \cup {NoSession}]

NewFlow == [status |-> "pending", step |-> plan.first, active |-> NoChallenge, left |-> MaxAttempts,
            resend |-> 0, required |-> FALSE, user |-> FALSE, expires |-> now + FlowTTL]
Idle == [at |-> "idle", flow |-> [NewFlow EXCEPT !.expires = 0], sess |-> NoSession]

Init ==
    /\ now = 0
    /\ plan \in Plans
    /\ flow = Idle.flow /\ token = 0
    /\ chal = [c \in Challenges |-> [type |-> "none", used |-> FALSE, until |-> 0, wrong |-> 0]]
    /\ \E old \in SUBSET Sessions :
          /\ Cardinality(old) <= (IF plan.kind = "recovery" /\ plan.known THEN 1 ELSE 0)
          /\ sess = [s \in Sessions |-> IF s \in old THEN [state |-> "live", from |-> "password"]
                                        ELSE [state |-> "none", from |-> "none"]]
    /\ account = (plan.kind # "signup" /\ plan.known)
    /\ surfaced = {}
    /\ consents = [configured |-> TRUE, recorded |-> FALSE, misread |-> FALSE]
    /\ req = [r \in Requests |-> Idle] /\ overlapped = FALSE

-----------------------------------------------------------------------------
(* What the steps are made of *)

\* The challenge type each step's verifier accepts.
Accepts(step) ==
    CASE step = "mfa_required" -> "mfa"
      [] step = "verify_phone" -> IF plan.kind = "recovery" THEN "phone" ELSE "otp"
      [] step = "verify_email" -> (CASE plan.kind = "signup" -> "email"
                                     [] plan.kind = "signin" -> "link"
                                     [] plan.kind = "recovery" -> "password_reset")

\* Mutant: every email is re-issued as an address verification.
ReissuedAsVerification(step) == IF step = "verify_phone" THEN {"otp"} ELSE {"email"}

\* flowReissueChallenge picks the type by channel and method; at mfa_required
\* the channel is the factor's: sms, or email and authenticator apps.
ReissuedTypes(step) ==
    CASE step = "verify_phone" -> {"otp"}
      [] step = "verify_email" -> {Accepts(step)}
      [] step = "mfa_required" -> {"otp", "email"}

Unissued(c) == chal[c].type = "none"
Issued(c, type) ==
    [chal EXCEPT ![c] = [type |-> type, used |-> FALSE, until |-> now + ChallengeTTL, wrong |-> 0]]
Challenged(f, c) == [f EXCEPT !.active = c, !.left = MaxAttempts, !.resend = now + Cooloff]

Unminted(s) == sess[s].state = "none"
Minted(s, from) == [sess EXCEPT ![s] = [state |-> "live", from |-> from]]
SignedOutAll(table) ==
    [s \in Sessions |-> IF table[s].state = "live" THEN [table[s] EXCEPT !.state = "revoked"] ELSE table[s]]

Completed(f) == [f EXCEPT !.status = "completed", !.step = "completed", !.active = NoChallenge,
                          !.required = FALSE]

Moved(r, at, f, s) == req' = [req EXCEPT ![r] = [at |-> at, flow |-> f, sess |-> s]]
Done(r) == req' = [req EXCEPT ![r] = Idle]

-----------------------------------------------------------------------------
(* Create *)

NobodyCreating == token = 0 /\ \A r \in Requests : req[r].at \notin {"registered", "created"}

\* Register commits the account with a session of its own, which is dropped.
\* flowRequiredConsents then notes what the project requires; when it cannot
\* read that, it notes that nothing is required.
Register(r, s, required) ==
    /\ plan.kind = "signup" /\ ~account
    /\ req[r].at = "idle" /\ NobodyCreating /\ Unminted(s)
    /\ required \in {plan.required, FALSE}
    /\ account' = TRUE
    /\ sess' = Minted(s, "register")
    /\ consents' = [consents EXCEPT !.misread = @ \/ required # plan.required]
    /\ Moved(r, "registered", [NewFlow EXCEPT !.user = TRUE, !.required = required], NoSession)
    /\ UNCHANGED <<now, plan, overlapped, flow, token, chal, surfaced>>

SignupChallenge(r, c) ==
    /\ req[r].at = "registered" /\ Unissued(c)
    /\ chal' = Issued(c, "email")
    /\ Moved(r, "created", Challenged(req[r].flow, c), NoSession)
    /\ UNCHANGED <<now, plan, overlapped, flow, token, sess, account, surfaced, consents>>

\* createSigninPassword with a second factor, createSigninPhoneOTP,
\* createSigninMagicLink; only the first knows the account already.
SigninChallenge(r, c) ==
    /\ plan.kind = "signin" /\ plan.first \in FirstSteps
    /\ req[r].at = "idle" /\ NobodyCreating /\ Unissued(c)
    /\ chal' = Issued(c, Accepts(plan.first))
    /\ Moved(r, "created", Challenged([NewFlow EXCEPT !.user = plan.first = "mfa_required"], c), NoSession)
    /\ UNCHANGED <<now, plan, overlapped, flow, token, sess, account, surfaced, consents>>

\* recoveryEmailChallenge, recoveryPhoneChallenge for a real account.
RecoveryChallenge(r, c) ==
    /\ plan.kind = "recovery" /\ plan.known
    /\ req[r].at = "idle" /\ NobodyCreating /\ Unissued(c)
    /\ chal' = Issued(c, Accepts(plan.first))
    /\ Moved(r, "created", Challenged([NewFlow EXCEPT !.user = TRUE], c), NoSession)
    /\ UNCHANGED <<now, plan, overlapped, flow, token, sess, account, surfaced, consents>>

\* Recovery of an unknown contact answers with a challenge that has no row.
CreateFake(r) ==
    /\ plan.kind = "recovery" /\ ~plan.known
    /\ req[r].at = "idle" /\ NobodyCreating
    /\ Moved(r, "created", Challenged(NewFlow, Fake), NoSession)
    /\ UNCHANGED <<now, plan, overlapped, flow, token, chal, sess, account, surfaced, consents>>

\* A password sign-in that needs no second factor mints its session first.
CreateSignedIn(r, s) ==
    /\ plan.kind = "signin" /\ plan.first = "completed"
    /\ req[r].at = "idle" /\ NobodyCreating /\ Unminted(s)
    /\ sess' = Minted(s, "password")
    /\ Moved(r, "created", Completed([NewFlow EXCEPT !.user = TRUE]), s)
    /\ UNCHANGED <<now, plan, overlapped, flow, token, chal, account, surfaced, consents>>

Insert(r) ==
    /\ req[r].at = "created"
    /\ flow' = req[r].flow /\ token' = 1
    /\ surfaced' = surfaced \cup ({req[r].sess} \ {NoSession})
    /\ Done(r)
    /\ UNCHANGED <<now, plan, overlapped, chal, sess, account, consents>>

-----------------------------------------------------------------------------
(* Load, and the steps of Submit *)

Load(r, op) ==
    /\ req[r].at = "idle" /\ token > 0
    /\ flow.status = "pending"
    /\ now <= flow.expires
    /\ Moved(r, op, flow, NoSession)
    /\ overlapped' = (overlapped \/ \E q \in Requests : req[q].at # "idle")
    /\ UNCHANGED <<now, plan, flow, token, chal, sess, account, surfaced, consents>>

\* The magic link is looked up by its own token, whatever the active challenge.
IsLink(f) == plan.kind = "signin" /\ f.step = "verify_email"
MayVerify(f) == f.step \in FirstSteps /\ (IsLink(f) \/ (f.active # NoChallenge /\ f.left > 0))
Presented(f) == IF IsLink(f) THEN Challenges ELSE {f.active} \cap Challenges

Unused(c, type) == chal[c].type = type /\ ~chal[c].used /\ now <= chal[c].until

\* Mutant: the consents are asked for after the session is handed out.
GatedLate(r, f, s) == Moved(r, "rotate", Completed(f), s)

\* flowCompleteOrGateConsents.
Gated(r, f, s) ==
    IF f.required THEN Moved(r, "revoke", f, s) ELSE Moved(r, "rotate", Completed(f), s)

\* The request's challenge accepts the submitted code or link, and is consumed.
Consumed(r, c) ==
    /\ req[r].at = "submit" /\ MayVerify(req[r].flow)
    /\ c \in Presented(req[r].flow) /\ Unused(c, Accepts(req[r].flow.step))
    /\ chal' = [chal EXCEPT ![c].used = TRUE]

\* VerifyEmail consumes the challenge and mints a session in one transaction.
\* When the password is still to be set, that session is not returned.
SignupVerifyEmail(r, c, s) ==
    /\ plan.kind = "signup" /\ Consumed(r, c) /\ Unminted(s)
    /\ sess' = Minted(s, c)
    /\ LET f == [req[r].flow EXCEPT !.active = NoChallenge, !.user = TRUE]
       IN  IF plan.afterVerify THEN Moved(r, "save", [f EXCEPT !.step = "set_password"], NoSession)
                               ELSE Gated(r, f, s)
    /\ UNCHANGED <<now, plan, overlapped, flow, token, account, surfaced, consents>>

\* mfa.Verify, VerifyOTP and VerifyMagicLink also consume and mint at once.
SigninVerify(r, c, s) ==
    /\ plan.kind = "signin" /\ Consumed(r, c) /\ Unminted(s)
    /\ sess' = Minted(s, c)
    /\ Moved(r, "rotate", Completed(req[r].flow), s)
    /\ UNCHANGED <<now, plan, overlapped, flow, token, account, surfaced, consents>>

\* recoveryVerifyEmail, recoveryVerifyPhone: consume only.
RecoveryVerify(r, c) ==
    /\ plan.kind = "recovery" /\ Consumed(r, c)
    /\ Moved(r, "save", [req[r].flow EXCEPT !.step = "set_password", !.active = NoChallenge, !.user = TRUE],
             NoSession)
    /\ UNCHANGED <<now, plan, overlapped, flow, token, sess, account, surfaced, consents>>

Missed(f) == IF f.active = NoChallenge THEN f ELSE [f EXCEPT !.left = @ - 1]

\* A code that does not verify.  Tested against a usable challenge it is a
\* wrong guess, and OTP and MFA challenges count those themselves (see
\* OneTimeCodes); a used, expired or missing challenge fails the same way.
WrongCode(r) ==
    LET f == req[r].flow
        c == f.active
        tested == c \in Challenges /\ ~IsLink(f) /\ Unused(c, Accepts(f.step))
    IN  /\ req[r].at = "submit" /\ MayVerify(f)
        /\ IsLink(f) => f.left > 0               \* bound: a magic link has no attempt limit
        /\ chal' = IF tested
                   THEN [chal EXCEPT ![c].wrong = IF @ > MaxAttempts THEN @ ELSE @ + 1,    \* bound
                                     ![c].used = @ \/ (chal[c].type \in {"otp", "mfa"}
                                                       /\ chal[c].wrong + 1 >= MaxAttempts)]
                   ELSE chal
        /\ Moved(r, "save", Missed(f), NoSession)
        /\ UNCHANGED <<now, plan, overlapped, flow, token, sess, account, surfaced, consents>>

\* signupSetPassword: the credential and a session, then the consent gate.
SignupSetPassword(r, s) ==
    /\ plan.kind = "signup" /\ req[r].at = "submit"
    /\ req[r].flow.step = "set_password" /\ req[r].flow.user /\ Unminted(s)
    /\ sess' = Minted(s, "password")
    /\ Gated(r, req[r].flow, s)
    /\ UNCHANGED <<now, plan, overlapped, flow, token, chal, account, surfaced, consents>>

\* Mutant: the other sessions are left alone.
ResetKeepingSessions(s) == Minted(s, "password")

\* recoveryResetPassword: sign out everywhere and mint, in one transaction.
ResetSessions(s) == [SignedOutAll(sess) EXCEPT ![s] = [state |-> "live", from |-> "password"]]

RecoverySetPassword(r, s) ==
    /\ plan.kind = "recovery" /\ req[r].at = "submit"
    /\ req[r].flow.step = "set_password" /\ req[r].flow.user /\ Unminted(s)
    /\ sess' = ResetSessions(s)
    /\ Moved(r, "rotate", Completed(req[r].flow), s)
    /\ UNCHANGED <<now, plan, overlapped, flow, token, chal, account, surfaced, consents>>

\* Mutant: with the consents given, the provisional session is returned.
RevokeThenReturn(r) ==
    /\ req[r].at = "revoke"
    /\ sess' = [sess EXCEPT ![req[r].sess].state = "revoked"]
    /\ IF plan.given
       THEN Moved(r, "rotate", Completed(req[r].flow), req[r].sess)
       ELSE Moved(r, "save", [req[r].flow EXCEPT !.step = "accept_consents"], NoSession)
    /\ UNCHANGED <<now, plan, overlapped, flow, token, chal, account, surfaced, consents>>

\* signupRevokeProvisionalSession, then complete at once or ask for consents.
RevokeProvisional(r) ==
    /\ req[r].at = "revoke"
    /\ sess' = [sess EXCEPT ![req[r].sess].state = "revoked"]
    /\ IF plan.given
       THEN Moved(r, "fresh", req[r].flow, NoSession)
       ELSE Moved(r, "save", [req[r].flow EXCEPT !.step = "accept_consents"], NoSession)
    /\ UNCHANGED <<now, plan, overlapped, flow, token, chal, account, surfaced, consents>>

AcceptConsents(r) ==
    /\ req[r].at = "submit"
    /\ req[r].flow.step = "accept_consents" /\ req[r].flow.user
    /\ Moved(r, "fresh", req[r].flow, NoSession)
    /\ UNCHANGED <<now, plan, overlapped, flow, token, chal, sess, account, surfaced, consents>>

\* What signupRecordAcceptedConsents leaves behind: it skips documents that are
\* not configured any more, and all of them when it cannot read which are.
Recorded ==
    {[consents EXCEPT !.recorded = @ \/ consents.configured], [consents EXCEPT !.misread = TRUE]}

\* signupCompleteWithFreshSession: record, mint and rotate in one transaction.
CompleteFresh(r, s) ==
    /\ req[r].at = "fresh" /\ Unminted(s)
    /\ consents' \in Recorded
    /\ sess' = Minted(s, "consents")
    /\ flow' = Completed(req[r].flow) /\ token' = token + 1
    /\ surfaced' = surfaced \cup {s}
    /\ Done(r)
    /\ UNCHANGED <<now, plan, overlapped, chal, account>>

\* Mutant: the loaded status is written back.
RotatedPending(r) ==
    /\ req[r].at = "rotate"
    /\ flow' = [req[r].flow EXCEPT !.status = "pending", !.step = flow.step]
    /\ token' = token + 1
    /\ surfaced' = surfaced \cup {req[r].sess}
    /\ Done(r)
    /\ UNCHANGED <<now, plan, overlapped, chal, sess, account, consents>>

\* flowRotate: the copy, a new token, and the session in the response.  A
\* sign-up also records what its creator accepted, in the same transaction
\* (signupCompleteWithExistingSession).
Rotate(r) ==
    /\ req[r].at = "rotate"
    /\ consents' \in IF plan.kind = "signup" /\ plan.given THEN Recorded ELSE {consents}
    /\ flow' = req[r].flow /\ token' = token + 1
    /\ surfaced' = surfaced \cup {req[r].sess}
    /\ Done(r)
    /\ UNCHANGED <<now, plan, overlapped, chal, sess, account>>

\* flowSave: the copy, under the same token.
Save(r) ==
    /\ req[r].at = "save"
    /\ flow' = req[r].flow
    /\ Done(r)
    /\ UNCHANGED <<now, plan, overlapped, token, chal, sess, account, surfaced, consents>>

-----------------------------------------------------------------------------
(* Resend, switch_method, Abandon *)

Reissue(r, c, type) ==
    LET f == req[r].flow
    IN  /\ req[r].at = "resend"
        /\ f.active # NoChallenge /\ f.step \in FirstSteps
        /\ now >= f.resend
        /\ IF plan.known \/ f.step = "verify_phone"
           THEN type \in ReissuedTypes(f.step) /\ Unissued(c) /\ chal' = Issued(c, type)
                /\ Moved(r, "save", Challenged(f, c), NoSession)
           ELSE UNCHANGED chal /\ Moved(r, "save", Challenged(f, Fake), NoSession)
        /\ UNCHANGED <<now, plan, overlapped, flow, token, sess, account, surfaced, consents>>

\* Mutant: the second factor may be switched away too.
SwitchMethodAnywhere(r, c, step) ==
    /\ req[r].at = "switch" /\ plan.kind = "signin"
    /\ step \in {"verify_phone", "verify_email"} \ {req[r].flow.step} /\ Unissued(c)
    /\ chal' = Issued(c, Accepts(step))
    /\ Moved(r, "save", Challenged([req[r].flow EXCEPT !.step = step], c), NoSession)
    /\ UNCHANGED <<now, plan, overlapped, flow, token, sess, account, surfaced, consents>>

SwitchMethod(r, c, step) ==
    /\ req[r].at = "switch" /\ plan.kind = "signin"
    /\ req[r].flow.step # "mfa_required"
    /\ step \in {"verify_phone", "verify_email"} \ {req[r].flow.step} /\ Unissued(c)
    /\ chal' = Issued(c, Accepts(step))
    /\ Moved(r, "save", Challenged([req[r].flow EXCEPT !.step = step], c), NoSession)
    /\ UNCHANGED <<now, plan, overlapped, flow, token, sess, account, surfaced, consents>>

Abandon(r) ==
    /\ req[r].at = "abandon"
    /\ Moved(r, "save", [req[r].flow EXCEPT !.status = "aborted"], NoSession)
    /\ UNCHANGED <<now, plan, overlapped, flow, token, chal, sess, account, surfaced, consents>>

\* An early return, a cancelled request or a crash between two transactions.
Drop(r) ==
    /\ req[r].at # "idle"
    /\ Done(r)
    /\ UNCHANGED <<now, plan, overlapped, flow, token, chal, sess, account, surfaced, consents>>

\* The project's consent documents get a new version; this matters only to a
\* sign-up that was created under the old one.
EditConsents ==
    /\ plan.required /\ account /\ consents.configured
    /\ consents' = [consents EXCEPT !.configured = FALSE]
    /\ UNCHANGED <<now, plan, overlapped, flow, token, chal, sess, account, surfaced, req>>

Tick ==
    /\ now < MaxTime
    /\ now' = now + 1
    /\ UNCHANGED <<plan, overlapped, flow, token, chal, sess, account, surfaced, consents, req>>

CreateStep(r) ==
    \/ \E s \in Sessions, required \in BOOLEAN : Register(r, s, required)
    \/ \E c \in Challenges : SignupChallenge(r, c)
    \/ \E c \in Challenges : SigninChallenge(r, c)
    \/ \E c \in Challenges : RecoveryChallenge(r, c)
    \/ CreateFake(r)
    \/ \E s \in Sessions : CreateSignedIn(r, s)
    \/ Insert(r)

SubmitStep(r) ==
    \/ \E c \in Challenges, s \in Sessions : SignupVerifyEmail(r, c, s)
    \/ \E c \in Challenges, s \in Sessions : SigninVerify(r, c, s)
    \/ \E c \in Challenges : RecoveryVerify(r, c)
    \/ WrongCode(r)
    \/ \E s \in Sessions : SignupSetPassword(r, s)
    \/ \E s \in Sessions : RecoverySetPassword(r, s)
    \/ RevokeProvisional(r)
    \/ AcceptConsents(r)
    \/ \E s \in Sessions : CompleteFresh(r, s)
    \/ Rotate(r)
    \/ Save(r)

OtherStep(r) ==
    \/ \E op \in {"submit", "resend", "switch", "abandon"} : Load(r, op)
    \/ \E c \in Challenges, type \in Types : Reissue(r, c, type)
    \/ \E c \in Challenges, step \in FirstSteps : SwitchMethod(r, c, step)
    \/ Abandon(r)
    \/ Drop(r)

Next ==
    \/ \E r \in Requests : CreateStep(r) \/ SubmitStep(r) \/ OtherStep(r)
    \/ EditConsents
    \/ Tick

Spec == Init /\ [][Next]_vars

-----------------------------------------------------------------------------
(* Properties *)

TypeOK ==
    /\ now \in 0..MaxTime /\ plan \in Plans
    /\ flow \in Flow /\ token \in Nat
    /\ chal \in [Challenges -> Challenge]
    /\ sess \in [Sessions -> Session]
    /\ account \in BOOLEAN /\ surfaced \subseteq Sessions
    /\ consents \in Consents
    /\ req \in [Requests -> Request] /\ overlapped \in BOOLEAN

\* A sign-up that requires consents hands out a session only after their
\* acceptance is recorded, whatever stale copies of the flow are written back,
\* unless the documents it was created with have been replaced meanwhile or the
\* configuration that names them could not be read.
ConsentsBeforeSession ==
    plan.kind = "signup" /\ plan.required /\ surfaced # {} =>
       consents.recorded \/ ~consents.configured \/ consents.misread

\* Resetting the password signs out everything else, so an account being
\* recovered never has two live sessions, even when two resets race.
RecoveryLeavesOneSession ==
    plan.kind = "recovery" => Cardinality({s \in Sessions : sess[s].state = "live"}) <= 1

\* Once a password sign-in is told to present a second factor, the flow returns
\* no session that did not come from one: switch_method and Resend included.
SecondFactorKept ==
    plan.first = "mfa_required" =>
       \A s \in surfaced : sess[s].from \in Challenges /\ chal[sess[s].from].type = "mfa"

Verifiable(f) == f.active \in Challenges => chal[f.active].type = Accepts(f.step)

\* The challenge a pending flow waits for at verify_email is one that its
\* verifier accepts, after any number of resends and method switches.
EmailStepVerifiable ==
    token > 0 /\ flow.status = "pending" /\ flow.step = "verify_email" => Verifiable(flow)

\* While requests come one at a time, cut off between transactions or not, the
\* flow returns a session once.
SessionOnce == ~overlapped => Cardinality(surfaced) <= 1

\* While requests come one at a time, the session in a response is live when it
\* is returned.
ReturnedLive == [][~overlapped => \A s \in surfaced' \ surfaced : sess'[s].state = "live"]_vars

-----------------------------------------------------------------------------
(* What the design document and the comments say, and the code does not keep *)

\* "the flow row is then terminal": a completed or aborted flow never changes.
TerminalIsFinal == [][token > 0 /\ flow.status # "pending" => UNCHANGED <<flow, token>>]_vars

\* "`session` is returned exactly once."
SessionReturnedOnce == Cardinality(surfaced) <= 1

\* "attempts_left decrements on a wrong code; at 0 the challenge is dead": no
\* more than flowMaxAttempts wrong codes are tested against a challenge.
AttemptsBounded == \A c \in Challenges : chal[c].wrong <= MaxAttempts

\* "re-issues the flow's active challenge": the challenge a pending flow waits
\* for is one that its step's verifier accepts.
EveryStepVerifiable ==
    token > 0 /\ flow.status = "pending" /\ flow.step \in FirstSteps => Verifiable(flow)

\* "a transient read error must propagate (the gate denies) rather than silently
\* skip the step" (ConsentConfig): the same without the last exception.
ConsentGateFailsClosed ==
    plan.kind = "signup" /\ plan.required /\ surfaced # {} => consents.recorded \/ ~consents.configured

\* "no valid (even if unsurfaced) session/refresh token lingers": while the flow
\* waits for consents, no session of the new account is live.
NoLingeringSession ==
    token > 0 /\ flow.status = "pending" /\ flow.step = "accept_consents" =>
       \A s \in Sessions : sess[s].state # "live"
=============================================================================
