------------------------------ MODULE Lockout ------------------------------
(***************************************************************************)
(* The password credential of one account and its lockout counter: the     *)
(* "secret" column and the "data" envelope (hash, failed attempts, locked  *)
(* until) of its row of iam_credentials.                                   *)
(*                                                                         *)
(* AuthenticatePassword reads the row inside its transaction, checks the   *)
(* lock, tests the password, and then writes the whole envelope through    *)
(* the pool, outside that transaction, so that the count survives the      *)
(* rollback of a failed sign-in.  An attempt is therefore three steps, and *)
(* the envelope it writes is the one it read.  The write may fail, with    *)
(* the statement or with the request's context; its error is discarded.    *)
(* The handlers that change the password are single transactions: a pool   *)
(* write that lands inside one makes it retry.                             *)
(***************************************************************************)
EXTENDS Integers

CONSTANTS
    Attempts,       \* password sign-ins in progress at the same time
    Passwords,      \* passwords, and the hashes that stand for them
    NoPassword,
    CredIds,        \* uuids available for credential rows
    NoCred,
    MaxFailures,    \* coreAuthMaxLoginFailures
    LockDuration,   \* coreAuthLockoutDuration
    MaxTime,        \* bound on the clock
    MaxLost         \* bound on the failures in a row that are not counted

ASSUME LockoutAssumption ==
    /\ MaxFailures \in Nat \ {0}
    /\ LockDuration \in Nat \ {0}
    /\ MaxTime \in Nat /\ MaxLost \in Nat
    /\ NoPassword \notin Passwords /\ NoCred \notin CredIds

VARIABLES
    now,
    cred,       \* the row: id, secret column, data envelope
    used,       \* ids of credential rows that have existed
    attempt,    \* where each sign-in stands, and the row it read
    streak,     \* wrong passwords tested since a lock, a success (whose write,
                \* if any, went through) or a new row, and how many of them were
                \* lost, not counted because the write failed
    overlapped  \* two sign-ins have been in progress at once

vars == <<now, cred, used, attempt, streak, overlapped>>

Data == [hash : Passwords \cup {NoPassword}, failures : Nat, locked : Nat]
Row == [id : CredIds \cup {NoCred}, secret : Passwords \cup {NoPassword}, data : Data]
Attempt == [at : {"idle", "loaded", "testing", "signing_in"}, guess : Passwords \cup {NoPassword},
            row : Row, first : Nat, prior : Nat]

Streak == [wrong : Nat, lost : Nat]

FreshData(h) == [hash |-> h, failures |-> 0, locked |-> 0]
NoRow == [id |-> NoCred, secret |-> NoPassword, data |-> FreshData(NoPassword)]
Idle == [at |-> "idle", guess |-> NoPassword, row |-> NoRow, first |-> 0, prior |-> 0]
NoStreak == [wrong |-> 0, lost |-> 0]

\* Registration inserts the credential; nobody has tried it yet.
Init ==
    /\ now = 0
    /\ \E id \in CredIds, pw \in Passwords :
          cred = [id |-> id, secret |-> pw, data |-> FreshData(pw)] /\ used = {id}
    /\ attempt = [a \in Attempts |-> Idle]
    /\ streak = NoStreak /\ overlapped = FALSE

-----------------------------------------------------------------------------
(* One password sign-in *)

\* coreAuthLoadPasswordCredential.
Load(a, guess) ==
    /\ attempt[a].at = "idle"
    /\ cred.id # NoCred
    /\ attempt' = [attempt EXCEPT ![a] =
          [at |-> "loaded", guess |-> guess, row |-> cred, first |-> cred.data.failures, prior |-> 0]]
    /\ overlapped' = (overlapped \/ \E b \in Attempts : attempt[b].at # "idle")
    /\ UNCHANGED <<now, cred, used, streak>>

\* While locked, the sign-in is refused without testing the password.
Refuse(a) ==
    /\ attempt[a].at = "loaded"
    /\ attempt[a].row.data.locked > now
    /\ attempt' = [attempt EXCEPT ![a] = Idle]
    /\ UNCHANGED <<now, overlapped, cred, used, streak>>

Test(a) ==
    /\ attempt[a].at = "loaded"
    /\ attempt[a].row.data.locked <= now
    /\ attempt' = [attempt EXCEPT ![a].at = "testing"]
    /\ UNCHANGED <<now, overlapped, cred, used, streak>>

\* coreAuthPersistCredentialLock: replace the envelope of the row that was
\* read, if that row still exists.
Persisted(row, data) == IF cred.id = row.id THEN [cred EXCEPT !.data = data] ELSE cred

\* coreAuthRecordLoginFailure on the envelope that was read.
Counted(data) ==
    IF data.failures + 1 >= MaxFailures
    THEN [data EXCEPT !.failures = 0, !.locked = now + LockDuration]
    ELSE [data EXCEPT !.failures = @ + 1]

\* A wrong password: count it, or fail to, and fail the sign-in.
Fail(a) ==
    /\ attempt[a].at = "testing"
    /\ attempt[a].guess # attempt[a].row.secret
    /\ \/ /\ cred' = Persisted(attempt[a].row, Counted(attempt[a].row.data))
          /\ streak' = IF cred.id # attempt[a].row.id THEN streak
                       ELSE IF cred'.data.locked > now THEN NoStreak
                       ELSE [streak EXCEPT !.wrong = streak.wrong + 1]
       \/ /\ streak.lost < MaxLost
          /\ cred' = cred
          /\ streak' = IF cred.id # attempt[a].row.id THEN streak
                       ELSE [wrong |-> streak.wrong + 1, lost |-> streak.lost + 1]
    /\ attempt' = [attempt EXCEPT ![a] = Idle]
    /\ UNCHANGED <<now, overlapped, used>>

\* Mutant: a success leaves the counter alone.
SucceedUncleared(a) ==
    /\ attempt[a].at = "testing"
    /\ attempt[a].guess = attempt[a].row.secret
    /\ streak' = IF cred.id = attempt[a].row.id THEN NoStreak ELSE streak
    /\ attempt' = [attempt EXCEPT ![a].at = "signing_in", ![a].prior = attempt[a].row.data.failures]
    /\ UNCHANGED <<now, overlapped, cred, used>>

\* The right password: clear the envelope when there is something to clear, or
\* fail to, and go on to the risk rules with the count that was read.
Succeed(a) ==
    LET data == attempt[a].row.data
        clears == data.failures > 0 \/ data.locked > 0
    IN  /\ attempt[a].at = "testing"
        /\ attempt[a].guess = attempt[a].row.secret
        /\ \/ /\ cred' = IF clears THEN Persisted(attempt[a].row, [data EXCEPT !.failures = 0, !.locked = 0])
                       ELSE cred
              /\ streak' = IF cred.id = attempt[a].row.id THEN NoStreak ELSE streak
           \/ clears /\ UNCHANGED <<cred, streak>>
        /\ attempt' = [attempt EXCEPT ![a].at = "signing_in", ![a].prior = data.failures]
        /\ UNCHANGED <<now, overlapped, used>>

\* The transaction that evaluates the risk rules and mints the session commits,
\* or an account that is not active or a rule that blocks rolls it back.
Conclude(a) ==
    /\ attempt[a].at = "signing_in"
    /\ attempt' = [attempt EXCEPT ![a] = Idle]
    /\ UNCHANGED <<now, overlapped, cred, used, streak>>

\* It fails to serialize and withTxRet runs the whole sign-in again.
Retry(a) ==
    /\ attempt[a].at = "signing_in"
    /\ cred.id # NoCred
    /\ attempt' = [attempt EXCEPT ![a].at = "loaded", ![a].row = cred, ![a].prior = 0]
    /\ UNCHANGED <<now, overlapped, cred, used, streak>>

-----------------------------------------------------------------------------
(* Changing the password *)

\* A new row for the account, carrying hash h in its envelope.
Inserted(id, pw, h) ==
    /\ id \notin used
    /\ cred' = [id |-> id, secret |-> pw, data |-> FreshData(h)]
    /\ used' = used \cup {id}
    /\ streak' = NoStreak

\* coreAuthUpsertPasswordCredential (ChangePassword, ResetPassword, the flows).
UpsertPassword(pw) ==
    /\ IF cred.id # NoCred
       THEN /\ cred' = [cred EXCEPT !.secret = pw, !.data.hash = pw]
            /\ UNCHANGED <<used, streak>>
       ELSE \E id \in CredIds : Inserted(id, pw, pw)
    /\ UNCHANGED <<now, overlapped, attempt>>

\* The admin's SetPassword writes the secret column only, and an envelope
\* without a hash when it inserts.
SetPassword(pw) ==
    /\ IF cred.id # NoCred
       THEN /\ cred' = [cred EXCEPT !.secret = pw]
            /\ UNCHANGED <<used, streak>>
       ELSE \E id \in CredIds : Inserted(id, pw, NoPassword)
    /\ UNCHANGED <<now, overlapped, attempt>>

\* prepareRestoredCredentials deletes the row.
DeleteCredential ==
    /\ cred.id # NoCred
    /\ cred' = NoRow
    /\ streak' = NoStreak
    /\ UNCHANGED <<now, overlapped, used, attempt>>

Tick ==
    /\ now < MaxTime
    /\ now' = now + 1
    /\ UNCHANGED <<overlapped, cred, used, attempt, streak>>

SignIn(a) ==
    \/ \E guess \in Passwords : Load(a, guess)
    \/ Refuse(a) \/ Test(a) \/ Fail(a) \/ Succeed(a) \/ Conclude(a) \/ Retry(a)

Next ==
    \/ \E a \in Attempts : SignIn(a)
    \/ \E pw \in Passwords : UpsertPassword(pw) \/ SetPassword(pw)
    \/ DeleteCredential
    \/ Tick

Spec == Init /\ [][Next]_vars

-----------------------------------------------------------------------------
(* Properties *)

TypeOK ==
    /\ now \in Nat
    /\ cred \in Row
    /\ used \in SUBSET CredIds
    /\ attempt \in [Attempts -> Attempt]
    /\ streak \in Streak /\ overlapped \in BOOLEAN

\* "A short duration bounds the account-lockout": whatever stale envelopes are
\* written back, the credential is never locked for longer than the lockout
\* duration from now.
LockIsBounded == cred.data.locked <= now + LockDuration

\* The counter restarts when it reaches the threshold, so it stays below it
\* even when failures are counted from stale envelopes; otherwise one failure
\* after a lock would lock again.
CounterBelowThreshold ==
    /\ cred.data.failures < MaxFailures
    /\ \A a \in Attempts : attempt[a].row.data.failures < MaxFailures

\* While sign-ins come one at a time, coreAuthMaxLoginFailures "is the
\* consecutive wrong-password count that locks the password credential", and of
\* a write that fails "the worst case is one un-counted attempt"
\* (coreAuthRecordLoginFailure): the stored count is the number of wrong
\* passwords tested in a row less those lost, whatever password changes come
\* between, and it never reaches the threshold without a lock.
CountsConsecutiveFailures ==
    ~overlapped /\ cred.id # NoCred =>
        /\ cred.data.failures + streak.lost = streak.wrong
        /\ cred.data.failures < MaxFailures

-----------------------------------------------------------------------------
(* What the comments say, and the code does not keep *)

\* "The read-modify-write can lose a concurrent increment, which only means
\* marginally more attempts before the lock, never a missed lock"
\* (coreAuthPersistCredentialLock): a lock that was set stays until it expires
\* or the credential is replaced.
LockIsNotLost ==
    [][cred.data.locked > now /\ cred'.id = cred.id => cred'.data.locked >= cred.data.locked]_vars

\* "The secret column mirrors Hash for lookups" (coreAuthCredential).
SecretMirrorsHash == cred.secret = cred.data.hash

\* coreAuthVerifyPassword "Returns the failure count as it stood BEFORE this
\* attempt", which the risk rules read: with no other sign-in around, it is the
\* count the sign-in found when it started.
PriorFailuresAsFound ==
    \A a \in Attempts : attempt[a].at = "signing_in" /\ attempt[a].row.id = cred.id =>
        attempt[a].prior = attempt[a].first

=============================================================================
