------------------------------ MODULE Deletion ------------------------------
(***************************************************************************)
(* Self-service deletion of one account: requests to schedule and cancel   *)
(* it, the proofs they need, cancellation and deletion by an administrator *)
(* and the workers that carry a due request out.                           *)
(*                                                                         *)
(* MutateDeletion checks the password, then looks whether a proof is       *)
(* needed, and then opens the transaction that decides: Check, and StepUp  *)
(* or Mutate.  A worker scans outside any transaction and finishes each    *)
(* account it found in one: Scan and Finish.                               *)
(*                                                                         *)
(* Time is counted in days.  Expiry of a proof, the attempt throttle, the  *)
(* recovery guard and signing out only make an operation fail, so leaving  *)
(* them out leaves more behaviours.  The account has one session; a proof  *)
(* is bound to it.                                                         *)
(***************************************************************************)
EXTENDS Integers

CONSTANTS
    Requests,       \* user requests being served at the same time
    Workers,        \* replicas running RunDeletionWorker
    Tokens,         \* proof flows
    Passwords,
    Graces,         \* values GraceDays is set to
    None,
    MaxTime,        \* bound on the clock
    MaxIds          \* bound on the deletion requests

ASSUME DeletionAssumption ==
    /\ Graces \subseteq Nat \ {0} /\ Graces # {} /\ MaxTime \in Nat /\ MaxIds \in Nat
    /\ None \notin Passwords /\ None \notin Tokens

VARIABLES
    now,
    grace,      \* the environment's DeletionPolicy
    user,       \* the row of iam_users is there
    password,   \* the password in iam_credentials, or None
    factor,     \* the account has an active MFA factor
    session,    \* the account has a session
    rec,        \* the row of iam_account_deletions
    proof,      \* proof flows in iam_flows
    req,        \* what each request has checked
    scanned,    \* workers that found the account due
    finished,   \* user.deleted events the workers emitted
    used        \* changes each proof has authorised

vars == <<now, grace, user, password, factor, session, rec, proof, req, scanned, finished, used>>

Actions == {"request", "cancel"}
Record == [status : {"none", "pending", "cancelled", "deleted"}, id : Nat, at : Nat]
Proof == [status : {"none", "open", "authorized", "consumed"}, purpose : Actions]
Request == [at : {"idle", "checked"}, action : Actions, password : Passwords \cup {None},
            token : Tokens \cup {None}]
NoProof == [status |-> "none", purpose |-> "request"]
Idle == [at |-> "idle", action |-> "request", password |-> None, token |-> None]

TypeOK ==
    /\ now \in Nat /\ grace \in Graces /\ user \in BOOLEAN
    /\ password \in Passwords \cup {None} /\ factor \in BOOLEAN /\ session \in BOOLEAN
    /\ rec \in Record /\ proof \in [Tokens -> Proof] /\ req \in [Requests -> Request]
    /\ scanned \in SUBSET Workers /\ finished \in Nat /\ used \in [Tokens -> Nat]

Init ==
    /\ now = 0 /\ grace \in Graces /\ user = TRUE
    /\ password \in Passwords \cup {None} /\ factor \in BOOLEAN /\ session = FALSE
    /\ rec = [status |-> "none", id |-> 0, at |-> 0]
    /\ proof = [t \in Tokens |-> NoProof] /\ req = [r \in Requests |-> Idle]
    /\ scanned = {} /\ finished = 0 /\ used = [t \in Tokens |-> 0]

-----------------------------------------------------------------------------
(* The account around the deletion *)

\* accountDeletionAccess: refused from the deadline on.
Access == ~(rec.status \in {"pending", "deleted"} /\ rec.at <= now)

Tick ==
    /\ now < MaxTime /\ now' = now + 1
    /\ UNCHANGED <<grace, user, password, factor, session, rec, proof, req, scanned, finished, used>>

SetDeletionPolicy(g) ==
    /\ grace' = g
    /\ UNCHANGED <<now, user, password, factor, session, rec, proof, req, scanned, finished, used>>

SignIn ==
    /\ user /\ Access /\ session' = TRUE
    /\ UNCHANGED <<now, grace, user, password, factor, rec, proof, req, scanned, finished, used>>

ChangePassword(p) ==
    /\ user /\ Access /\ password # None /\ password' = p
    /\ UNCHANGED <<now, grace, user, factor, session, rec, proof, req, scanned, finished, used>>

\* ResetPassword: also where there was none, and it signs in.
ResetPassword(p) ==
    /\ user /\ Access /\ password' = p /\ session' = TRUE
    /\ UNCHANGED <<now, grace, user, factor, rec, proof, req, scanned, finished, used>>

EnrollFactor ==
    /\ user /\ factor' = TRUE
    /\ UNCHANGED <<now, grace, user, password, session, rec, proof, req, scanned, finished, used>>

RemoveFactor ==
    /\ factor /\ factor' = FALSE
    /\ UNCHANGED <<now, grace, user, password, session, rec, proof, req, scanned, finished, used>>

\* pgAdminUsers.Delete: the user and the sessions go, credentials, flows and the
\* deletion request stay.
AdminDelete ==
    /\ user /\ user' = FALSE /\ session' = FALSE
    /\ UNCHANGED <<now, grace, password, factor, rec, proof, req, scanned, finished, used>>

-----------------------------------------------------------------------------
(* Requests of the user *)

\* deletionNeedsProof
NeedsProof(r) == req[r].password = None \/ factor

\* MutateDeletion up to deletionPassword: the account guard, and the password,
\* which is the right one if the account has one.  The proof token is one that
\* was handed out.
Check(r, action, t) ==
    /\ req[r].at = "idle" /\ user /\ session /\ Access
    /\ t # None => proof[t].status # "none"
    /\ req' = [req EXCEPT ![r] = [at |-> "checked", action |-> action, password |-> password,
                                  token |-> t]]
    /\ UNCHANGED <<now, grace, user, password, factor, session, rec, proof, scanned, finished, used>>

\* requireDeletionProof, in a transaction of its own: a proof flow for the
\* operation, and step_up_required to the caller.
StepUp(r, t) ==
    /\ req[r].at = "checked" /\ req[r].token = None /\ NeedsProof(r)
    /\ user /\ session /\ proof[t].status = "none" /\ used[t] = 0
    /\ proof' = [proof EXCEPT ![t] = [status |-> "open", purpose |-> req[r].action]]
    /\ req' = [req EXCEPT ![r] = Idle]
    /\ UNCHANGED <<now, grace, user, password, factor, session, rec, scanned, finished, used>>

\* The flow's own steps, up to authorize_deletion (authorizeDeletionProof).
Authorize(t) ==
    /\ user /\ proof[t].status = "open"
    /\ proof' = [proof EXCEPT ![t].status = "authorized"]
    /\ UNCHANGED <<now, grace, user, password, factor, session, rec, req, scanned, finished, used>>

\* Mutant: the password checked before the transaction is good enough.
RecheckNothing(r) == TRUE

\* recheckDeletionPassword: as it was, and there only if it was there.
Recheck(r) == req[r].password = password

\* consumeDeletionProof
Consumed(r) ==
    IF NeedsProof(r) THEN [proof EXCEPT ![req[r].token].status = "consumed"] ELSE proof

Proved(r) ==
    NeedsProof(r) =>
        /\ req[r].token # None
        /\ proof[req[r].token] = [status |-> "authorized", purpose |-> req[r].action]

\* Mutant: a second request starts the waiting period again.
DueAgain(action) == IF action = "request" THEN TRUE ELSE rec.status = "pending"

\* mutateDeletionLocked: a request already pending, and the cancellation of none,
\* change nothing.
Due(action) ==
    IF action = "request" THEN rec.status # "pending" ELSE rec.status = "pending"

\* changeDeletion, saveDeletion
Changed(action) ==
    IF action = "request"
    THEN [status |-> "pending", id |-> rec.id + 1, at |-> now + grace]
    ELSE [rec EXCEPT !.status = "cancelled"]

\* The transaction of MutateDeletion, which locks the user row.
Mutate(r) ==
    /\ req[r].at = "checked" /\ (req[r].token # None \/ ~NeedsProof(r))
    /\ req[r].action = "request" => rec.id < MaxIds              \* bound
    /\ req' = [req EXCEPT ![r] = Idle]
    /\ IF user /\ Recheck(r) /\ Access /\ Due(req[r].action) /\ Proved(r)
       THEN /\ rec' = Changed(req[r].action) /\ proof' = Consumed(r)
            /\ used' = IF NeedsProof(r) THEN [used EXCEPT ![req[r].token] = @ + 1]
                                                 ELSE used
       ELSE UNCHANGED <<rec, proof, used>>
    /\ UNCHANGED <<now, grace, user, password, factor, session, scanned, finished>>

\* The request is cut off.
Drop(r) ==
    /\ req[r].at = "checked" /\ req' = [req EXCEPT ![r] = Idle]
    /\ UNCHANGED <<now, grace, user, password, factor, session, rec, proof, scanned, finished, used>>

Cancellable(id) == user /\ rec.id = id /\ rec.status = "pending" /\ now < rec.at

\* AdminCancelDeletion, and cancelRecoveryDeletion of a proven recovery flow: the
\* request that was looked at, by its id, in one transaction.
CancelById(id) ==
    /\ Cancellable(id) /\ rec' = Changed("cancel")
    /\ UNCHANGED <<now, grace, user, password, factor, session, proof, req, scanned, finished, used>>

-----------------------------------------------------------------------------
(* Workers *)

\* SweepDeletions: the account is pending and due.
Overdue == rec.status = "pending" /\ rec.at <= now

Scan(w) ==
    /\ w \notin scanned /\ Overdue /\ scanned' = scanned \cup {w}
    /\ UNCHANGED <<now, grace, user, password, factor, session, rec, proof, req, finished, used>>

\* Mutant: an account whose user is gone is an error.
StillDueWithUser == user /\ Overdue

StillDue == Overdue

\* purgeDeletedAccount: sessions, credentials, factors, flows and the user.
Purge ==
    /\ user' = FALSE /\ session' = FALSE /\ password' = None /\ factor' = FALSE
    /\ proof' = [t \in Tokens |-> NoProof]

\* finishDeletion: one transaction that locks the user row, if there is one, and
\* the request, and looks at the request again.
Finish(w) ==
    /\ w \in scanned /\ scanned' = scanned \ {w}
    /\ IF StillDue
       THEN /\ Purge /\ rec' = [rec EXCEPT !.status = "deleted"] /\ finished' = finished + 1
       ELSE UNCHANGED <<user, password, factor, session, rec, proof, finished>>
    /\ UNCHANGED <<now, grace, req, used>>

\* The transaction rolls back, or the process dies: nothing is written.
Fail(w) ==
    /\ w \in scanned /\ scanned' = scanned \ {w}
    /\ UNCHANGED <<now, grace, user, password, factor, session, rec, proof, req, finished, used>>

Next ==
    \/ Tick \/ SignIn \/ EnrollFactor \/ RemoveFactor \/ AdminDelete
    \/ \E g \in Graces : SetDeletionPolicy(g)
    \/ \E p \in Passwords : ChangePassword(p) \/ ResetPassword(p)
    \/ \E r \in Requests, action \in Actions, t \in Tokens \cup {None} : Check(r, action, t)
    \/ \E r \in Requests, t \in Tokens : StepUp(r, t)
    \/ \E t \in Tokens : Authorize(t)
    \/ \E r \in Requests : Mutate(r) \/ Drop(r)
    \/ \E id \in 1..MaxIds : CancelById(id)
    \/ \E w \in Workers : Scan(w) \/ Finish(w) \/ Fail(w)

\* RunDeletionWorker scans on startup and every minute for as long as some
\* replica runs, and a failure of the transaction does not repeat for ever.
Fairness == \A w \in Workers : WF_vars(Scan(w)) /\ SF_vars(Finish(w))

Spec == Init /\ [][Next]_vars /\ Fairness

-----------------------------------------------------------------------------
(* Properties *)

P == INSTANCE DeletionPromise

\* Whatever requests, cancellations, logins, policy changes and workers do at the
\* same time, the deletion record moves as promised: the deadline of a request is
\* fixed, cancellation comes before it and execution not before it, and an
\* executed deletion is final ("Repeating a pending request returns the same
\* request ID and deadline. Cancellation is explicit").
KeepsPromise == P!Spec

\* The workers emit user.deleted at most once for the account, however many of
\* them found it due, and also when an administrator removed the user first
\* ("Two workers must not finalize an orphan twice").
FinishedOnce == finished <= 1

\* Once the record says deleted, user, password, factor, session and proof flows
\* are gone, and no request that was under way brings one back
\* (purgeDeletedAccount).
NothingLeft ==
    rec.status = "deleted" =>
        /\ ~user /\ ~session /\ password = None /\ ~factor
        /\ \A t \in Tokens : proof[t].status = "none"

\* A proof authorises one change at most, however many requests present it at the
\* same time (consumeDeletionProof).
ProofUsedOnce == \A t \in Tokens : used[t] <= 1

\* A request that changes the record presented the password the account has at
\* that moment: "a password changed while the first check ran cannot authorize
\* deletion" (recheckDeletionPassword).
CurrentPasswordDecides ==
    [][\A r \in Requests :
          req[r].at = "checked" /\ req'[r].at = "idle" /\ rec' # rec
              => req[r].password = password]_vars

\* A request whose deadline has passed is carried out, even if the transaction
\* fails a number of times or the user row is already gone
\* (RunDeletionWorker "resumes committed deletion requests after restarts").
DueIsFinished == Overdue ~> rec.status = "deleted"
=============================================================================
