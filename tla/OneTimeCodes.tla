---------------------------- MODULE OneTimeCodes ----------------------------
(***************************************************************************)
(* One row of iam_challenges holding a one-time code: a passwordless OTP   *)
(* (VerifyOTP) or an MFA challenge (Verify), tried by concurrent requests. *)
(*                                                                         *)
(* The row has a "consumed" column and a data envelope.  The OTP adapter   *)
(* reads the row outside any transaction and writes the envelope it read   *)
(* back with one more attempt; a right code is re-read and consumed in a   *)
(* transaction.  The MFA adapter reads and consumes in one transaction,    *)
(* and counts a wrong code through the pool, because that transaction is   *)
(* about to roll back.                                                     *)
(***************************************************************************)
EXTENDS Integers

CONSTANTS
    Verifiers,      \* requests trying a code at the same time
    MaxAttempts,    \* maxOTPAttempts, mfaMaxVerifyAttempts
    TTL,            \* otpTTL, mfaChallengeTTL
    MaxAge,         \* bound on the age of the challenge
    MaxWrong        \* bound on the wrong codes counted by the ghost

ASSUME CodesAssumption ==
    /\ MaxAttempts \in Nat \ {0} /\ TTL \in Nat /\ MaxAge \in Nat /\ MaxWrong \in Nat

VARIABLES
    age,        \* time since the challenge was issued
    kind,       \* which adapter issued the challenge
    row,        \* the row
    try,        \* where each request stands, and the envelope it read
    wrong,      \* wrong codes compared with the stored one
    lost,       \* of those, the ones whose count was never written
    sessions,   \* sessions minted from the challenge
    ended,      \* why the challenge was consumed first
    crossed     \* two requests have been between read and write at once

codeVars == <<age, kind, row, try, wrong, lost, sessions, ended, crossed>>

Envelope == [attempts : 0..MaxAttempts, consumed : BOOLEAN]
Fresh == [attempts |-> 0, consumed |-> FALSE]
NoTry == [at |-> "idle", data |-> Fresh]

CodeTypeOK ==
    /\ age \in 0..MaxAge /\ kind \in {"otp", "mfa"}
    /\ row \in [consumed : BOOLEAN, data : Envelope]
    /\ try \in [Verifiers -> [at : {"idle", "bump", "confirm"}, data : Envelope]]
    /\ wrong \in 0..MaxWrong /\ lost \in Nat /\ sessions \in Nat
    /\ ended \in {"no", "verified", "locked"} /\ crossed \in BOOLEAN

\* StartOTP or Challenge has committed the row.
CodeInit ==
    /\ age = 0 /\ kind \in {"otp", "mfa"}
    /\ row = [consumed |-> FALSE, data |-> Fresh]
    /\ try = [v \in Verifiers |-> NoTry]
    /\ wrong = 0 /\ lost = 0 /\ sessions = 0 /\ ended = "no"
    /\ crossed = FALSE

-----------------------------------------------------------------------------

\* Mutant: the column is not looked at.
OpenIgnoringColumn == ~row.data.consumed /\ age <= TTL

\* loadChallengeForVerify, and the same checks of mfaVerifyChallengeCode: not
\* consumed, not expired.
Open == ~row.consumed /\ ~row.data.consumed /\ age <= TTL

Ended(why) == IF ended = "no" THEN why ELSE ended

Exhausted(data) == data.attempts >= MaxAttempts

Cross == crossed' = (crossed \/ \E w \in Verifiers : try[w].at # "idle")

\* A wrong code: the comparison fails, and the count is still to be written.
TryWrong(v) ==
    /\ try[v].at = "idle" /\ Open /\ ~Exhausted(row.data)
    /\ wrong < MaxWrong                         \* bound
    /\ wrong' = wrong + 1
    /\ try' = [try EXCEPT ![v] = [at |-> "bump", data |-> row.data]]
    /\ Cross
    /\ UNCHANGED <<age, kind, row, lost, sessions, ended>>

\* Mutant: the counter restarts.
CountedOnce(data) == [data EXCEPT !.attempts = IF @ = 0 THEN 1 ELSE @]

Bumped(data) == [data EXCEPT !.attempts = @ + 1]

\* (The count and the column are written together, so VerifyOTP's branch for a
\* count at the limit with the column unset is never taken.)
\* bumpAttempts, mfaBumpChallengeAttempts: the envelope as it was read, one
\* attempt more, and the column set at the limit.
Bump(v) ==
    /\ try[v].at = "bump"
    /\ LET data == Bumped(try[v].data)
           lock == Exhausted(data)
       IN  /\ row' = [consumed |-> row.consumed \/ lock, data |-> data]
           /\ ended' = IF lock THEN Ended("locked") ELSE ended
    /\ try' = [try EXCEPT ![v] = NoTry]
    /\ UNCHANGED <<age, kind, crossed, wrong, lost, sessions>>

\* VerifyOTP with the right code: read outside the transaction.
TryRight(v) ==
    /\ kind = "otp" /\ try[v].at = "idle" /\ Open /\ ~Exhausted(row.data)
    /\ try' = [try EXCEPT ![v] = [at |-> "confirm", data |-> row.data]]
    /\ Cross
    /\ UNCHANGED <<age, kind, row, wrong, lost, sessions, ended>>

\* The transaction re-reads the row, consumes it and mints the session.
Confirm(v) ==
    /\ try[v].at = "confirm"
    /\ IF Open
       THEN /\ row' = [consumed |-> TRUE, data |-> [row.data EXCEPT !.consumed = TRUE]]
            /\ sessions' = sessions + 1 /\ ended' = Ended("verified")
       ELSE UNCHANGED <<row, sessions, ended>>
    /\ try' = [try EXCEPT ![v] = NoTry]
    /\ UNCHANGED <<age, kind, crossed, wrong, lost>>

\* mfa.Verify with the right code: one transaction.  A count written to the row
\* meanwhile makes it fail to serialize and run again.
VerifyMfa(v) ==
    /\ kind = "mfa" /\ try[v].at = "idle" /\ Open /\ ~Exhausted(row.data)
    /\ row' = [row EXCEPT !.consumed = TRUE]
    /\ sessions' = sessions + 1 /\ ended' = Ended("verified")
    /\ UNCHANGED <<age, kind, crossed, try, wrong, lost>>

\* The request is cut off before its write.
Drop(v) ==
    /\ try[v].at # "idle"
    /\ lost' = IF try[v].at = "bump" THEN lost + 1 ELSE lost
    /\ try' = [try EXCEPT ![v] = NoTry]
    /\ UNCHANGED <<age, kind, crossed, row, wrong, sessions, ended>>

Older ==
    /\ age < MaxAge /\ age' = age + 1
    /\ UNCHANGED <<kind, crossed, row, try, wrong, lost, sessions, ended>>

CodeNext ==
    \/ \E v \in Verifiers :
          TryWrong(v) \/ Bump(v) \/ TryRight(v) \/ Confirm(v) \/ VerifyMfa(v) \/ Drop(v)
    \/ Older

CodeSpec == CodeInit /\ [][CodeNext]_codeVars

-----------------------------------------------------------------------------
(* Properties *)

\* A code is worth one session, however many requests present it at once.
OneSession == sessions <= 1

\* What consumed the challenge first settles it: once the limit of wrong codes
\* has locked it no session is minted from it, by requests under way included.
LockedForGood == ended = "locked" => sessions = 0

\* While requests come one at a time, no more wrong codes are compared with the
\* stored one than the limit, plus one for every count whose write failed.
GuessesBounded == ~crossed => wrong <= MaxAttempts + lost

\* "The queryable columns [...] mirror it": not kept by bumpAttempts.  The
\* consumed column and the flag in the OTP's envelope agree.
ColumnMirrorsEnvelope == kind = "otp" => row.consumed = row.data.consumed
=============================================================================
