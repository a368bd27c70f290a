-------------------------- MODULE GuessLimitsProof --------------------------
(***************************************************************************)
(* Proofs about the two limits on guesses: of a password (Lockout) and of  *)
(* a one-time code (OneTimeCodes), for any number of concurrent requests   *)
(* and any limit.  What is said of a stored envelope holds because it also *)
(* holds of every envelope some request has read and may still write back. *)
(* Of requests that come one at a time, the counts are exact.              *)
(***************************************************************************)
EXTENDS Lockout, OneTimeCodes, TLAPS

\* What every envelope, stored or read, satisfies.
Sane(data) == data.failures < MaxFailures /\ data.locked <= now + LockDuration

Inv ==
    /\ TypeOK
    /\ Sane(cred.data)
    /\ \A a \in Attempts : Sane(attempt[a].row.data)

\* Envelopes without failures or lock are sane.
LEMMA FreshSane ==
    ASSUME now \in Nat, NEW h \in Passwords \cup {NoPassword}
    PROVE  FreshData(h) \in Data /\ Sane(FreshData(h))
  BY LockoutAssumption DEF FreshData, Data, Sane

\* No failure yet, none lost.
LEMMA NoStreakType == NoStreak \in Streak /\ NoStreak.wrong = 0 /\ NoStreak.lost = 0
  BY DEF NoStreak, Streak

\* The initial row satisfies the invariant.
LEMMA InitInv == Init => Inv
<1> SUFFICES ASSUME Init PROVE Inv BY Zenon
<1>1. now \in Nat BY Zenon DEF Init
<1>2. NoRow \in Row /\ NoRow.data = FreshData(NoPassword) BY <1>1, FreshSane, Zenon DEF NoRow, Row
<1>3. Idle \in Attempt /\ Idle.row = NoRow BY <1>2, Zenon DEF Idle, Attempt
<1>4. PICK id \in CredIds, pw \in Passwords : cred = [id |-> id, secret |-> pw, data |-> FreshData(pw)] /\ used = {id}
  BY Zenon DEF Init
<1>5. cred \in Row /\ cred.data = FreshData(pw) BY <1>1, <1>4, FreshSane, Zenon DEF Row
<1>6. TypeOK BY <1>1, <1>3, <1>4, <1>5, NoStreakType, Zenon DEF Init, TypeOK
<1> QED BY <1>1, <1>2, <1>3, <1>5, <1>6, FreshSane, Zenon DEF Init, Inv

\* Counting a failure keeps an envelope sane: at the threshold the count
\* restarts and the lock starts now.
LEMMA CountedSane ==
    ASSUME now \in Nat, NEW data \in Data, Sane(data)
    PROVE  Counted(data) \in Data /\ Sane(Counted(data))
<1> DEFINE new == [data EXCEPT !.failures = 0, !.locked = now + LockDuration]
           more == [data EXCEPT !.failures = @ + 1]
<1>1. data.failures \in Nat /\ data.locked \in Nat /\ now + LockDuration \in Nat
  BY LockoutAssumption DEF Data
<1>2. new \in Data /\ new.failures = 0 /\ new.locked = now + LockDuration BY <1>1, Zenon DEF Data
<1>3. more \in Data /\ more.failures = data.failures + 1 /\ more.locked = data.locked
  BY <1>1 DEF Data
<1>4. Counted(data) = IF data.failures + 1 >= MaxFailures THEN new ELSE more BY Zenon DEF Counted
<1> HIDE DEF new, more
<1>5. CASE data.failures + 1 >= MaxFailures BY <1>1, <1>2, <1>4, <1>5, LockoutAssumption DEF Sane
<1>6. CASE ~(data.failures + 1 >= MaxFailures) BY <1>1, <1>3, <1>4, <1>6, LockoutAssumption DEF Sane
<1> QED BY <1>5, <1>6, Zenon

\* Clearing an envelope keeps it sane.
LEMMA ClearedSane ==
    ASSUME now \in Nat, NEW data \in Data
    PROVE  /\ [data EXCEPT !.failures = 0, !.locked = 0] \in Data
           /\ Sane([data EXCEPT !.failures = 0, !.locked = 0])
<1> DEFINE new == [data EXCEPT !.failures = 0, !.locked = 0]
<1>1. new \in Data /\ new.failures = 0 /\ new.locked = 0 BY Zenon DEF Data
<1> HIDE DEF new
<1>2. Sane(new) BY <1>1, LockoutAssumption DEF Sane
<1> QED BY <1>1, <1>2, Zenon DEF new

\* Writing a sane envelope back gives a sane row.
LEMMA PersistedSane ==
    ASSUME Inv, NEW old \in Row, NEW data \in Data, Sane(data)
    PROVE  Persisted(old, data) \in Row /\ Sane(Persisted(old, data).data)
  BY Zenon DEF Persisted, Inv, TypeOK, Row

\* An attempt that is replaced by one whose row is sane.
LEMMA AttemptStep ==
    ASSUME Inv, NEW a \in Attempts, NEW r \in Attempt, Sane(r.row.data),
           attempt' = [attempt EXCEPT ![a] = r], cred' \in Row, Sane(cred'.data),
           streak' \in Streak, overlapped' \in BOOLEAN, UNCHANGED <<now, used>>
    PROVE  Inv'
<1>1. TypeOK' BY Zenon DEF Inv, TypeOK
<1>2. \A b \in Attempts : attempt'[b].row.data = attempt[b].row.data \/ attempt'[b] = r
  BY Zenon DEF Inv, TypeOK
<1> QED BY <1>1, <1>2, Zenon DEF Inv, Sane

\* Each step of one sign-in.
LEMMA SignInStep ==
    ASSUME Inv, NEW a \in Attempts, SignIn(a)
    PROVE  Inv'
<1>1. /\ now \in Nat /\ cred \in Row /\ cred.data \in Data /\ Sane(cred.data) /\ streak \in Streak
      /\ overlapped \in BOOLEAN
      /\ attempt[a] \in Attempt /\ attempt[a].row \in Row /\ attempt[a].row.data \in Data
      /\ Sane(attempt[a].row.data)
  BY Zenon DEF Inv, TypeOK, Attempt, Row
<1>2. Idle \in Attempt /\ Sane(Idle.row.data)
  <2>1. NoRow \in Row /\ NoRow.data = FreshData(NoPassword) BY <1>1, FreshSane, Zenon DEF NoRow, Row
  <2>2. Idle \in Attempt /\ Idle.row = NoRow BY <2>1, Zenon DEF Idle, Attempt
  <2> QED BY <1>1, <2>1, <2>2, FreshSane, Zenon
<1>3. ASSUME NEW guess \in Passwords, Load(a, guess) PROVE Inv'
  <2> DEFINE r == [at |-> "loaded", guess |-> guess, row |-> cred, first |-> cred.data.failures, prior |-> 0]
  <2>1. r \in Attempt /\ r.row = cred BY <1>1, Zenon DEF Attempt, Data
  <2>2. attempt' = [attempt EXCEPT ![a] = r] /\ UNCHANGED <<now, cred, used, streak>> /\ overlapped' \in BOOLEAN
    BY <1>1, <1>3, Zenon DEF Load
  <2> HIDE DEF r
  <2> QED BY <1>1, <2>1, <2>2, AttemptStep, Zenon
<1>4. CASE Refuse(a) \/ Conclude(a)
  BY <1>1, <1>2, <1>4, AttemptStep, Zenon DEF Refuse, Conclude
<1>5. CASE Test(a)
  <2> DEFINE r == [attempt[a] EXCEPT !.at = "testing"]
  <2>1. r \in Attempt /\ r.row = attempt[a].row BY <1>1, Zenon DEF Attempt
  <2>2. attempt' = [attempt EXCEPT ![a] = r] /\ UNCHANGED <<now, overlapped, cred, used, streak>>
    BY <1>5, Zenon DEF Test
  <2> HIDE DEF r
  <2> QED BY <1>1, <2>1, <2>2, AttemptStep, Zenon
<1>6. CASE Fail(a)
  <2>1. Counted(attempt[a].row.data) \in Data /\ Sane(Counted(attempt[a].row.data)) BY <1>1, CountedSane, Zenon
  <2>2. cred' \in Row /\ Sane(cred'.data) BY <1>1, <1>6, <2>1, PersistedSane, Zenon DEF Fail
  <2>3. streak' \in Streak BY <1>1, <1>6, NoStreakType DEF Fail, Streak
  <2>4. attempt' = [attempt EXCEPT ![a] = Idle] /\ UNCHANGED <<now, overlapped, used>>
    BY <1>6, Zenon DEF Fail
  <2> QED BY <1>1, <1>2, <2>2, <2>3, <2>4, AttemptStep, Zenon
<1>7. CASE Succeed(a)
  <2> DEFINE data == attempt[a].row.data
             r == [attempt[a] EXCEPT !.at = "signing_in", !.prior = data.failures]
  <2>1. r \in Attempt /\ r.row = attempt[a].row BY <1>1, Zenon DEF Attempt, Data
  <2>2. attempt' = [attempt EXCEPT ![a] = r] BY <1>7, Zenon DEF Succeed
  <2>3. cred' \in Row /\ Sane(cred'.data)
    <3>1. /\ [data EXCEPT !.failures = 0, !.locked = 0] \in Data
          /\ Sane([data EXCEPT !.failures = 0, !.locked = 0])
      BY <1>1, ClearedSane, Zenon
    <3>2. /\ Persisted(attempt[a].row, [data EXCEPT !.failures = 0, !.locked = 0]) \in Row
          /\ Sane(Persisted(attempt[a].row, [data EXCEPT !.failures = 0, !.locked = 0]).data)
      BY <1>1, <3>1, PersistedSane, Zenon
    <3> QED BY <1>1, <1>7, <3>2, Zenon DEF Succeed
  <2>4. streak' \in Streak /\ UNCHANGED <<now, overlapped, used>> BY <1>1, <1>7, NoStreakType, Zenon DEF Succeed
  <2> HIDE DEF r, data
  <2> QED BY <1>1, <2>1, <2>2, <2>3, <2>4, AttemptStep, Zenon
<1>8. CASE Retry(a)
  <2> DEFINE r == [attempt[a] EXCEPT !.at = "loaded", !.row = cred, !.prior = 0]
  <2>1. r \in Attempt /\ r.row = cred BY <1>1, Zenon DEF Attempt
  <2>2. attempt' = [attempt EXCEPT ![a] = r] /\ UNCHANGED <<now, overlapped, cred, used, streak>>
    BY <1>8, Zenon DEF Retry
  <2> HIDE DEF r
  <2> QED BY <1>1, <2>1, <2>2, AttemptStep, Zenon
<1> QED BY <1>3, <1>4, <1>5, <1>6, <1>7, <1>8, Zenon DEF SignIn

\* A step that leaves the attempts alone and the row sane.
LEMMA RowStep ==
    ASSUME Inv, cred' \in Row, Sane(cred'.data), used' \in SUBSET CredIds, streak' \in Streak,
           UNCHANGED <<now, overlapped, attempt>>
    PROVE  Inv'
  BY Zenon DEF Inv, TypeOK, Sane

\* The handlers that change the password.
LEMMA PasswordStep ==
    ASSUME Inv, (\E pw \in Passwords : UpsertPassword(pw) \/ SetPassword(pw)) \/ DeleteCredential
    PROVE  Inv'
<1>1. /\ now \in Nat /\ cred \in Row /\ Sane(cred.data) /\ cred.data \in Data
      /\ used \in SUBSET CredIds /\ streak \in Streak
  BY Zenon DEF Inv, TypeOK, Row
<1>2. ASSUME NEW id \in CredIds, NEW pw \in Passwords, NEW h \in Passwords \cup {NoPassword},
             Inserted(id, pw, h), UNCHANGED <<now, overlapped, attempt>>
      PROVE  Inv'
  <2>1. FreshData(h) \in Data /\ Sane(FreshData(h)) BY <1>1, FreshSane, Zenon
  <2>2. cred' \in Row /\ cred'.data = FreshData(h) BY <1>2, <2>1, Zenon DEF Inserted, Row
  <2> QED BY <1>1, <1>2, <2>1, <2>2, RowStep, NoStreakType, Zenon DEF Inserted
<1>3. ASSUME NEW pw \in Passwords, UpsertPassword(pw) PROVE Inv'
  <2>1. CASE cred.id # NoCred
    <3>1. cred' = [cred EXCEPT !.secret = pw, !.data = [cred.data EXCEPT !.hash = pw]]
      BY <1>1, <1>3, <2>1, Zenon DEF UpsertPassword, Row
    <3>2. /\ [cred.data EXCEPT !.hash = pw] \in Data
          /\ [cred.data EXCEPT !.hash = pw].failures = cred.data.failures
          /\ [cred.data EXCEPT !.hash = pw].locked = cred.data.locked
      BY <1>1, Zenon DEF Data
    <3>3. cred' \in Row /\ cred'.data = [cred.data EXCEPT !.hash = pw]
      BY <1>1, <3>1, <3>2, Zenon DEF Row
    <3>4. cred' \in Row /\ Sane(cred'.data) BY <1>1, <3>2, <3>3, Zenon DEF Sane
    <3> QED BY <1>1, <1>3, <2>1, <3>4, RowStep, Zenon DEF UpsertPassword
  <2>2. CASE cred.id = NoCred BY <1>2, <1>3, <2>2, Zenon DEF UpsertPassword
  <2> QED BY <2>1, <2>2, Zenon
<1>4. ASSUME NEW pw \in Passwords, SetPassword(pw) PROVE Inv'
  <2>1. CASE cred.id # NoCred
    <3>1. cred' \in Row /\ Sane(cred'.data) BY <1>1, <1>4, <2>1, Zenon DEF SetPassword, Row, Sane
    <3> QED BY <1>1, <1>4, <2>1, <3>1, RowStep, Zenon DEF SetPassword
  <2>2. CASE cred.id = NoCred BY <1>2, <1>4, <2>2, Zenon DEF SetPassword
  <2> QED BY <2>1, <2>2, Zenon
<1>5. CASE DeleteCredential
  <2>1. FreshData(NoPassword) \in Data /\ Sane(FreshData(NoPassword)) BY <1>1, FreshSane, Zenon
  <2>2. cred' \in Row /\ cred'.data = FreshData(NoPassword)
    BY <1>5, <2>1, Zenon DEF DeleteCredential, NoRow, Row
  <2> QED BY <1>1, <1>5, <2>1, <2>2, RowStep, NoStreakType, Zenon DEF DeleteCredential
<1> QED BY <1>3, <1>4, <1>5, Zenon

\* Every step preserves the invariant.
LEMMA NextInv ==
    ASSUME Inv, [Next]_vars
    PROVE  Inv'
<1>1. CASE UNCHANGED vars BY <1>1, Zenon DEF vars, Inv, TypeOK, Sane
<1>2. CASE Tick
  <2>1. /\ cred.data.locked \in Nat /\ now \in Nat /\ LockDuration \in Nat
        /\ \A a \in Attempts : attempt[a].row.data.locked \in Nat
    BY LockoutAssumption, Zenon DEF Inv, TypeOK, Row, Data, Attempt
  <2>2. TypeOK' BY <1>2 DEF Inv, TypeOK, Tick
  <2> QED BY <1>2, <2>1, <2>2 DEF Inv, Tick, Sane
<1> QED BY <1>1, <1>2, SignInStep, PasswordStep, Zenon DEF Next

\* The envelope invariant holds in every reachable state.
THEOREM Invariance == Spec => []Inv
<1>1. Inv /\ [Next]_vars => Inv' BY NextInv, Zenon
<1> QED BY <1>1, InitInv, PTL DEF Spec

\* However many sign-ins race, the credential is never locked for longer than
\* coreAuthLockoutDuration from now.
THEOREM LockBounded == Spec => []LockIsBounded
<1>1. Inv => LockIsBounded BY Zenon DEF Inv, Sane, LockIsBounded
<1> QED BY <1>1, Invariance, PTL

\* However many sign-ins race, the counter stays below the threshold, stored
\* and read alike (coreAuthRecordLoginFailure restarts it).
THEOREM CounterBounded == Spec => []CounterBelowThreshold
<1>1. Inv => CounterBelowThreshold BY Zenon DEF Inv, Sane, CounterBelowThreshold
<1> QED BY <1>1, Invariance, PTL

-----------------------------------------------------------------------------
\* A sign-in under way, and one that may still count or clear.
Busy(a) == attempt[a].at # "idle"
Counting(a) == attempt[a].at \in {"loaded", "testing"}

\* Ids of credential rows never come back, so a sign-in that finds the row it
\* read finds the same row; and a password is tested only past the lock.
Known ==
    /\ cred.id # NoCred => cred.id \in used
    /\ \A a \in Attempts : Busy(a) => attempt[a].row.id \in used
    /\ \A a \in Attempts : attempt[a].at = "testing" => attempt[a].row.data.locked <= now

\* While sign-ins come one at a time, the stored count is the streak less what
\* was lost of it, and the sign-in under way holds that count.
Tally ==
    /\ \A a, b \in Attempts : Busy(a) /\ Busy(b) => a = b
    /\ cred.id # NoCred => cred.data.failures + streak.lost = streak.wrong
    /\ \A a \in Attempts : Counting(a) /\ attempt[a].row.id = cred.id =>
          attempt[a].row.data.failures = cred.data.failures

Serial == Known /\ (~overlapped => Tally)

\* A step of sign-in a that goes on with the row it has, or ends.
LEMMA GoesOn ==
    ASSUME Inv, Serial, NEW a \in Attempts, NEW r \in Attempt, attempt' = [attempt EXCEPT ![a] = r],
           UNCHANGED <<now, overlapped, cred, used, streak>>,
           Busy(a),
           \/ r.at = "idle"
           \/ r.row = attempt[a].row /\ r.at = "testing" /\ Counting(a) /\ r.row.data.locked <= now
           \/ r.row = cred /\ r.at = "loaded" /\ cred.id # NoCred
    PROVE  Serial'
<1>1. attempt'[a] = r /\ \A b \in Attempts : b # a => attempt'[b] = attempt[b]
  BY Zenon DEF Inv, TypeOK
<1>2. Known'
  <2>1. r.at # "idle" => r.row.id \in used BY Zenon DEF Serial, Known
  <2> QED BY <1>1, <2>1 DEF Serial, Known, Busy
<1>3. ASSUME ~overlapped PROVE Tally'
  <2>1. Tally BY <1>3, Zenon DEF Serial
  <2>2. \A b \in Attempts : Busy(b)' => Busy(b) BY <1>1, Zenon DEF Busy
  <2>3. \A b, c \in Attempts : Busy(b)' /\ Busy(c)' => b = c BY <2>1, <2>2, Zenon DEF Tally
  <2>4. ASSUME NEW b \in Attempts, Counting(b)', attempt'[b].row.id = cred.id
        PROVE  attempt'[b].row.data.failures = cred.data.failures
    <3>1. CASE b # a BY <1>1, <2>1, <2>4, <3>1, Zenon DEF Tally, Counting
    <3>2. CASE b = a BY <1>1, <2>1, <2>4, <3>2, Zenon DEF Tally, Counting
    <3> QED BY <3>1, <3>2, Zenon
  <2> QED BY <2>1, <2>3, <2>4, Zenon DEF Tally
<1> QED BY <1>2, <1>3, Zenon DEF Serial

\* Coming one at a time, a sign-in reads the count as it stands.
LEMMA LoadSerial ==
    ASSUME Inv, Serial, NEW a \in Attempts, NEW guess \in Passwords, Load(a, guess)
    PROVE  Serial'
<1>1. /\ attempt'[a].at = "loaded" /\ attempt'[a].row = cred
      /\ \A b \in Attempts : b # a => attempt'[b] = attempt[b]
  BY Zenon DEF Inv, TypeOK, Load
<1>2. /\ UNCHANGED <<now, cred, used, streak>> /\ cred.id # NoCred
      /\ overlapped' = (overlapped \/ \E b \in Attempts : Busy(b))
  BY Zenon DEF Load, Busy
<1>3. Known' BY <1>1, <1>2, Zenon DEF Serial, Known, Busy
<1>4. ASSUME ~overlapped' PROVE Tally'
  <2>1. Tally /\ \A b \in Attempts : ~Busy(b) BY <1>2, <1>4, Zenon DEF Serial, Inv, TypeOK
  <2> QED BY <1>1, <1>2, <2>1, Zenon DEF Tally, Busy, Counting
<1> QED BY <1>3, <1>4, Zenon DEF Serial

\* The wrong password: the count goes up with the streak, or both restart, or
\* the write is lost and the streak says so.
LEMMA FailSerial ==
    ASSUME Inv, Serial, NEW a \in Attempts, Fail(a)
    PROVE  Serial'
<1> DEFINE data == attempt[a].row.data
<1>1. /\ attempt'[a] = Idle /\ Idle.at = "idle"
      /\ \A b \in Attempts : b # a => attempt'[b] = attempt[b]
  BY Zenon DEF Inv, TypeOK, Fail, Idle
<1>2. UNCHANGED <<now, used, overlapped>> /\ attempt[a].at = "testing" BY Zenon DEF Fail
<1>3. \/ UNCHANGED <<cred, streak>> /\ cred.id # attempt[a].row.id
      \/ /\ cred.id = attempt[a].row.id /\ cred' = [cred EXCEPT !.data = Counted(data)]
         /\ streak' = IF cred'.data.locked > now THEN NoStreak ELSE [streak EXCEPT !.wrong = streak.wrong + 1]
      \/ /\ cred.id = attempt[a].row.id /\ cred' = cred
         /\ streak' = [wrong |-> streak.wrong + 1, lost |-> streak.lost + 1]
  BY Zenon DEF Fail, Persisted
<1>4. /\ now \in Nat /\ cred \in Row /\ cred.data.failures \in Nat /\ data \in Data
      /\ streak \in Streak /\ streak.wrong \in Nat /\ streak.lost \in Nat
  BY Zenon DEF Inv, TypeOK, Attempt, Row, Data, Streak
<1>5. cred'.id = cred.id BY <1>3, <1>4, Zenon DEF Row
<1>6. Known' BY <1>1, <1>2, <1>5, Zenon DEF Serial, Known, Busy
<1>7. ASSUME ~overlapped PROVE Tally'
  <2>1. Tally /\ Busy(a) BY <1>2, <1>7, Zenon DEF Serial, Busy
  <2>2. \A b \in Attempts : ~Busy(b)' /\ ~Counting(b)'
    BY <1>1, <2>1, Zenon DEF Tally, Busy, Counting
  <2>3. CASE UNCHANGED <<cred, streak>> BY <2>1, <2>2, <2>3, Zenon DEF Tally
  <2>4. ASSUME cred.id = attempt[a].row.id
        PROVE  /\ data.failures = cred.data.failures /\ data.locked <= now
               /\ data.failures + streak.lost = streak.wrong
    <3>1. attempt[a].row.id \in used BY <2>1, Zenon DEF Serial, Known
    <3>2. cred.id # NoCred BY <2>4, <3>1, LockoutAssumption, Zenon DEF Inv, TypeOK
    <3> QED BY <1>2, <2>1, <2>4, <3>2, Zenon DEF Serial, Known, Tally, Counting
  <2>5. CASE /\ cred.id = attempt[a].row.id /\ cred' = [cred EXCEPT !.data = Counted(data)]
             /\ streak' = IF cred'.data.locked > now THEN NoStreak ELSE [streak EXCEPT !.wrong = streak.wrong + 1]
    <3>1. cred'.data = Counted(data) BY <1>4, <2>5, Zenon DEF Row
    <3>2. data.failures \in Nat /\ data.locked \in Nat BY <1>4, Zenon DEF Data
    <3>3. CASE data.failures + 1 >= MaxFailures
      <4>1. Counted(data).failures = 0 /\ Counted(data).locked = now + LockDuration
        BY <1>4, <3>3, Zenon DEF Counted, Data
      <4>2. streak' = NoStreak BY <1>4, <2>5, <3>1, <4>1, LockoutAssumption
      <4>3. cred'.data.failures + streak'.lost = streak'.wrong BY <3>1, <4>1, <4>2, NoStreakType
      <4> QED BY <2>2, <4>3, Zenon DEF Tally
    <3>4. CASE ~(data.failures + 1 >= MaxFailures)
      <4>1. Counted(data).failures = data.failures + 1 /\ Counted(data).locked = data.locked
        BY <1>4, <3>4, Zenon DEF Counted, Data
      <4>2. streak' = [streak EXCEPT !.wrong = streak.wrong + 1]
        BY <1>4, <2>4, <2>5, <3>1, <3>2, <4>1
      <4>3. streak'.wrong = streak.wrong + 1 /\ streak'.lost = streak.lost BY <1>4, <4>2, Zenon DEF Streak
      <4>4. cred'.data.failures + streak'.lost = streak'.wrong
        BY <1>4, <2>4, <2>5, <3>1, <3>2, <4>1, <4>3
      <4> QED BY <2>2, <4>4, Zenon DEF Tally
    <3> QED BY <3>3, <3>4, Zenon
  <2>6. CASE /\ cred.id = attempt[a].row.id /\ cred' = cred
             /\ streak' = [wrong |-> streak.wrong + 1, lost |-> streak.lost + 1]
    <3>1. streak'.wrong = streak.wrong + 1 /\ streak'.lost = streak.lost + 1 BY <2>6, Zenon
    <3>2. cred'.data.failures + streak'.lost = streak'.wrong BY <1>4, <2>4, <2>6, <3>1
    <3> QED BY <2>2, <3>2, Zenon DEF Tally
  <2> QED BY <1>3, <2>3, <2>5, <2>6, Zenon
<1> QED BY <1>2, <1>6, <1>7, Zenon DEF Serial

\* The right password: the count and the streak restart, or neither does.
LEMMA SucceedSerial ==
    ASSUME Inv, Serial, NEW a \in Attempts, Succeed(a)
    PROVE  Serial'
<1> DEFINE data == attempt[a].row.data
           clear == [data EXCEPT !.failures = 0, !.locked = 0]
<1>1. /\ attempt'[a].at = "signing_in" /\ attempt'[a].row = attempt[a].row
      /\ \A b \in Attempts : b # a => attempt'[b] = attempt[b]
  BY Zenon DEF Inv, TypeOK, Succeed, Attempt
<1>2. UNCHANGED <<now, used, overlapped>> /\ attempt[a].at = "testing" BY Zenon DEF Succeed
<1>3. \/ UNCHANGED <<cred, streak>>
      \/ /\ cred.id = attempt[a].row.id /\ streak' = NoStreak
         /\ cred' = IF data.failures > 0 \/ data.locked > 0 THEN [cred EXCEPT !.data = clear] ELSE cred
  BY Zenon DEF Succeed, Persisted
<1>4. now \in Nat /\ cred \in Row /\ data \in Data
  BY Zenon DEF Inv, TypeOK, Attempt, Row
<1>5. cred'.id = cred.id BY <1>3, <1>4, Zenon DEF Row
<1>6. Known' BY <1>1, <1>2, <1>5, Zenon DEF Serial, Known, Busy
<1>7. ASSUME ~overlapped PROVE Tally'
  <2>1. Tally /\ Busy(a) BY <1>2, <1>7, Zenon DEF Serial, Busy
  <2>2. \A b \in Attempts : Busy(b)' => b = a BY <1>1, <2>1, Zenon DEF Tally, Busy
  <2>3. \A b \in Attempts : ~Counting(b)' BY <1>1, <2>2, Zenon DEF Busy, Counting
  <2>4. CASE UNCHANGED <<cred, streak>> BY <2>1, <2>2, <2>3, <2>4, Zenon DEF Tally
  <2>5. CASE /\ cred.id = attempt[a].row.id /\ streak' = NoStreak
             /\ cred' = IF data.failures > 0 \/ data.locked > 0 THEN [cred EXCEPT !.data = clear] ELSE cred
    <3>1. cred'.data.failures = 0
      <4>1. CASE data.failures > 0 \/ data.locked > 0
        <5>1. cred'.data = clear BY <1>4, <2>5, <4>1, Zenon DEF Row
        <5>2. clear.failures = 0 BY <1>4, Zenon DEF Data
        <5> QED BY <5>1, <5>2, Zenon
      <4>2. CASE ~(data.failures > 0 \/ data.locked > 0)
        <5>1. data.failures = 0 BY <1>4, <4>2 DEF Data
        <5>2. data.failures = cred.data.failures BY <1>2, <2>1, <2>5, Zenon DEF Tally, Counting
        <5> QED BY <2>5, <4>2, <5>1, <5>2, Zenon
      <4> QED BY <4>1, <4>2, Zenon
    <3>2. cred'.data.failures + streak'.lost = streak'.wrong BY <2>5, <3>1, NoStreakType
    <3> QED BY <2>2, <2>3, <3>2, Zenon DEF Tally
  <2> QED BY <1>3, <2>4, <2>5, Zenon
<1> QED BY <1>2, <1>6, <1>7, Zenon DEF Serial

\* Changing the password keeps the count and the ids it is kept under.
LEMMA PasswordSerial ==
    ASSUME Inv, Serial, (\E pw \in Passwords : UpsertPassword(pw) \/ SetPassword(pw)) \/ DeleteCredential
    PROVE  Serial'
<1>1. cred \in Row /\ cred.data \in Data /\ used \in SUBSET CredIds BY Zenon DEF Inv, TypeOK, Row
<1>2. UNCHANGED <<now, overlapped, attempt>>
  BY Zenon DEF UpsertPassword, SetPassword, DeleteCredential
<1>3. ASSUME cred'.id = cred.id, cred'.data.failures = cred.data.failures, UNCHANGED <<used, streak>>
      PROVE  Serial'
  BY <1>2, <1>3, Zenon DEF Serial, Known, Tally, Busy, Counting
<1>4. ASSUME NEW id \in CredIds, NEW pw \in Passwords, NEW h \in Passwords \cup {NoPassword}, Inserted(id, pw, h)
      PROVE  Serial'
  <2>1. /\ cred'.id = id /\ cred'.data.failures = 0 /\ streak' = NoStreak
        /\ used' = used \cup {id} /\ id \notin used
    BY <1>4, Zenon DEF Inserted, FreshData
  <2>2. Known' BY <1>2, <2>1, Zenon DEF Serial, Known, Busy
  <2>3. \A a \in Attempts : Counting(a) => attempt[a].row.id # id
    BY <2>1, Zenon DEF Serial, Known, Busy, Counting
  <2>4. cred'.data.failures + streak'.lost = streak'.wrong BY <2>1, NoStreakType
  <2>5. (~overlapped => Tally)' BY <1>2, <2>1, <2>3, <2>4, Zenon DEF Serial, Tally, Busy, Counting
  <2> QED BY <2>2, <2>5, Zenon DEF Serial
<1>5. ASSUME NEW pw \in Passwords, UpsertPassword(pw) PROVE Serial'
  <2>1. CASE cred.id # NoCred
    <3>1. cred' = [cred EXCEPT !.secret = pw, !.data = [cred.data EXCEPT !.hash = pw]]
      BY <1>1, <1>5, <2>1, Zenon DEF UpsertPassword, Row
    <3>2. [cred.data EXCEPT !.hash = pw].failures = cred.data.failures BY <1>1, Zenon DEF Data
    <3>3. cred'.id = cred.id /\ cred'.data = [cred.data EXCEPT !.hash = pw]
      BY <1>1, <3>1, Zenon DEF Row
    <3> QED BY <1>3, <1>5, <2>1, <3>2, <3>3, Zenon DEF UpsertPassword
  <2>2. CASE cred.id = NoCred BY <1>4, <1>5, <2>2, Zenon DEF UpsertPassword
  <2> QED BY <2>1, <2>2, Zenon
<1>6. ASSUME NEW pw \in Passwords, SetPassword(pw) PROVE Serial'
  <2>1. CASE cred.id # NoCred
    <3>1. cred'.id = cred.id /\ cred'.data = cred.data
      BY <1>1, <1>6, <2>1, Zenon DEF SetPassword, Row
    <3> QED BY <1>3, <1>6, <2>1, <3>1, Zenon DEF SetPassword
  <2>2. CASE cred.id = NoCred BY <1>4, <1>6, <2>2, Zenon DEF SetPassword
  <2> QED BY <2>1, <2>2, Zenon
<1>7. CASE DeleteCredential
  <2>1. cred'.id = NoCred /\ used' = used BY <1>7, Zenon DEF DeleteCredential, NoRow
  <2>2. \A a \in Attempts : Counting(a) => attempt[a].row.id # NoCred
    BY <1>1, LockoutAssumption, Zenon DEF Serial, Known, Busy, Counting
  <2>3. Known' BY <1>2, <2>1, Zenon DEF Serial, Known, Busy
  <2>4. (~overlapped => Tally)' BY <1>2, <2>1, <2>2, Zenon DEF Serial, Tally, Busy, Counting
  <2> QED BY <2>3, <2>4, Zenon DEF Serial
<1> QED BY <1>5, <1>6, <1>7, Zenon

\* Every step keeps the tally.
LEMMA SerialStep ==
    ASSUME Inv, Serial, [Next]_vars
    PROVE  Serial'
<1>1. CASE UNCHANGED vars BY <1>1, Zenon DEF vars, Serial, Known, Tally, Busy, Counting
<1>2. CASE Tick
  <2>1. \A a \in Attempts : attempt[a].row.data.locked \in Nat
    BY Zenon DEF Inv, TypeOK, Attempt, Row, Data
  <2>2. Known' BY <1>2, <2>1 DEF Tick, Inv, TypeOK, Serial, Known, Busy
  <2>3. (~overlapped => Tally)' BY <1>2, Zenon DEF Tick, Serial, Tally, Busy, Counting
  <2> QED BY <2>2, <2>3, Zenon DEF Serial
<1>3. ASSUME NEW a \in Attempts, SignIn(a) PROVE Serial'
  <2>1. attempt[a] \in Attempt /\ cred \in Row BY Zenon DEF Inv, TypeOK
  <2>2. Idle \in Attempt /\ Idle.at = "idle"
    <3>1. NoRow \in Row BY FreshSane, Zenon DEF NoRow, Row, Inv, TypeOK
    <3> QED BY <3>1, Zenon DEF Idle, Attempt
  <2>3. CASE Refuse(a) \/ Conclude(a)
    <3>1. /\ attempt' = [attempt EXCEPT ![a] = Idle] /\ Busy(a)
          /\ UNCHANGED <<now, overlapped, cred, used, streak>>
      BY <2>3, Zenon DEF Refuse, Conclude, Busy
    <3> QED BY <2>2, <3>1, GoesOn, Zenon
  <2>4. CASE Test(a)
    <3> DEFINE r == [attempt[a] EXCEPT !.at = "testing"]
    <3>1. r \in Attempt /\ r.row = attempt[a].row /\ r.at = "testing" BY <2>1, Zenon DEF Attempt
    <3>2. /\ attempt' = [attempt EXCEPT ![a] = r] /\ UNCHANGED <<now, overlapped, cred, used, streak>>
          /\ Busy(a) /\ Counting(a) /\ attempt[a].row.data.locked <= now
      BY <2>4, Zenon DEF Test, Busy, Counting
    <3> HIDE DEF r
    <3> QED BY <3>1, <3>2, GoesOn, Zenon
  <2>5. CASE Retry(a)
    <3> DEFINE r == [attempt[a] EXCEPT !.at = "loaded", !.row = cred, !.prior = 0]
    <3>1. r \in Attempt /\ r.row = cred /\ r.at = "loaded" BY <2>1, Zenon DEF Attempt
    <3>2. /\ attempt' = [attempt EXCEPT ![a] = r] /\ UNCHANGED <<now, overlapped, cred, used, streak>>
          /\ Busy(a) /\ cred.id # NoCred
      BY <2>5, Zenon DEF Retry, Busy
    <3> HIDE DEF r
    <3> QED BY <3>1, <3>2, GoesOn, Zenon
  <2> QED BY <1>3, <2>3, <2>4, <2>5, LoadSerial, FailSerial, SucceedSerial, Zenon DEF SignIn
<1> QED BY <1>1, <1>2, <1>3, PasswordSerial, Zenon DEF Next

\* While sign-ins come one at a time, coreAuthRecordLoginFailure counts exactly
\* the wrong passwords in a row, but one for each of its writes that failed, for
\* every threshold, lockout duration and sequence of password changes.
THEOREM SerialCountIsExact == Spec => []CountsConsecutiveFailures
<1>1. Init => Serial
  <2> SUFFICES ASSUME Init PROVE Serial BY Zenon
  <2>1. \A a \in Attempts : attempt[a].at = "idle" BY Zenon DEF Init, Idle
  <2>2. cred.data.failures + streak.lost = streak.wrong /\ cred.id \in used
    BY NoStreakType DEF Init, FreshData
  <2> QED BY <2>1, <2>2, Zenon DEF Serial, Known, Tally, Busy, Counting
<1>2. Inv /\ Serial => CountsConsecutiveFailures
  BY Zenon DEF Inv, Sane, Serial, Tally, CountsConsecutiveFailures
<1>3. Inv /\ Serial /\ [Next]_vars => Serial' BY SerialStep, Zenon
<1> QED BY <1>1, <1>2, <1>3, Invariance, PTL DEF Spec

-----------------------------------------------------------------------------
(* One-time codes: a challenge is worth one session, for any number of     *)
(* concurrent requests, and bounds the wrong codes of requests that come   *)
(* one at a time.                                                          *)

\* A count still to be written was read below the limit.
ReadBelowLimit == \A v \in Verifiers : try[v].at = "bump" => try[v].data.attempts < MaxAttempts

\* The session and the lock both leave the column set, and the column is what
\* every later attempt is refused by.
Settled ==
    /\ sessions > 0 => row.consumed /\ ended = "verified"
    /\ ended = "locked" => row.consumed

CodeInv == CodeTypeOK /\ ReadBelowLimit /\ Settled /\ OneSession /\ LockedForGood

\* A challenge starts open, with no session.
LEMMA CodeInitInv == CodeInit => CodeInv
  <1> SUFFICES ASSUME CodeInit PROVE CodeInv
    BY Zenon
  <1>1. Fresh \in Envelope /\ Fresh.attempts = 0
    BY CodesAssumption DEF Fresh, Envelope
  <1>2. NoTry \in [at : {"idle", "bump", "confirm"}, data : Envelope] /\ NoTry.at = "idle"
    BY <1>1, Zenon DEF NoTry
  <1>3. row \in [consumed : BOOLEAN, data : Envelope] /\ age \in 0..MaxAge /\ wrong \in 0..MaxWrong
    BY <1>1, CodesAssumption DEF CodeInit
  <1>4. CodeTypeOK
    BY <1>2, <1>3, Zenon DEF CodeInit, CodeTypeOK
  <1>5. ReadBelowLimit /\ Settled
    BY <1>2 DEF CodeInit, ReadBelowLimit, Settled
  <1>6. QED
    BY <1>4, <1>5 DEF CodeInit, CodeInv, OneSession, LockedForGood

\* Reading the row for a wrong code.
LEMMA TryWrongInv == ASSUME CodeInv, NEW v \in Verifiers, TryWrong(v) PROVE CodeInv'
  <1>1. CodeTypeOK'
    BY CodesAssumption DEF CodeInv, CodeTypeOK, TryWrong, Envelope, Cross
  <1>2. ReadBelowLimit'
    <2>1. row.data.attempts < MaxAttempts
      BY CodesAssumption DEF CodeInv, CodeTypeOK, TryWrong, Exhausted, Envelope
    <2>2. QED
      BY <2>1, Zenon DEF CodeInv, CodeTypeOK, ReadBelowLimit, TryWrong
  <1>3. QED
    BY <1>1, <1>2, Zenon DEF CodeInv, TryWrong, Settled, OneSession, LockedForGood

\* Counting a wrong code: the column is never cleared.
LEMMA BumpInv == ASSUME CodeInv, NEW v \in Verifiers, Bump(v) PROVE CodeInv'
  <1> DEFINE data == Bumped(try[v].data)
  <1>1. data \in Envelope
    BY CodesAssumption DEF CodeInv, CodeTypeOK, ReadBelowLimit, Bump, Bumped, Envelope
  <1>2. row' = [consumed |-> row.consumed \/ Exhausted(data), data |-> data]
    BY Zenon DEF Bump
  <1>3. ended' = IF Exhausted(data) THEN Ended("locked") ELSE ended
    BY Zenon DEF Bump
  <1>4. Exhausted(data) \in BOOLEAN
    BY DEF Exhausted
  <1>5. try' = [try EXCEPT ![v] = NoTry] /\ UNCHANGED <<age, kind, crossed, wrong, lost, sessions>>
    BY Zenon DEF Bump
  <1> HIDE DEF data
  <1>6. CodeTypeOK'
    <2>1. row' \in [consumed : BOOLEAN, data : Envelope]
      BY <1>1, <1>2, <1>4, Zenon DEF CodeInv, CodeTypeOK
    <2>2. ended' \in {"no", "verified", "locked"}
      BY <1>3, Zenon DEF CodeInv, CodeTypeOK, Ended
    <2>3. try' \in [Verifiers -> [at : {"idle", "bump", "confirm"}, data : Envelope]]
      BY <1>5, CodesAssumption DEF CodeInv, CodeTypeOK, NoTry, Fresh, Envelope
    <2>4. QED
      BY <1>5, <2>1, <2>2, <2>3, Zenon DEF CodeInv, CodeTypeOK
  <1>7. ReadBelowLimit'
    BY <1>5, Zenon DEF CodeInv, CodeTypeOK, ReadBelowLimit, NoTry
  <1>8. row.consumed => row'.consumed
    BY <1>2, Zenon
  <1>9. ended' = "locked" => row'.consumed /\ sessions = 0
    <2>1. CASE ended = "locked"
      BY <2>1, <1>8, Zenon DEF CodeInv, Settled, LockedForGood
    <2>2. CASE ended # "locked" /\ ended' = "locked"
      <3>1. Exhausted(data) /\ ended = "no"
        BY <2>2, <1>3, Zenon DEF Ended
      <3>2. row'.consumed
        BY <3>1, <1>2, Zenon
      <3>3. sessions = 0
        BY <3>1 DEF CodeInv, CodeTypeOK, Settled
      <3>4. QED
        BY <3>2, <3>3, Zenon
    <2>3. QED
      BY <2>1, <2>2, Zenon
  <1>10. sessions > 0 => row'.consumed /\ ended' = "verified"
    BY <1>3, <1>8, Zenon DEF CodeInv, Settled, Ended
  <1>11. QED
    BY <1>5, <1>6, <1>7, <1>9, <1>10, Zenon DEF CodeInv, Settled, OneSession, LockedForGood

\* Reading the row for a right OTP, or giving up, changes nothing that matters.
LEMMA WaitInv ==
  ASSUME CodeInv, NEW v \in Verifiers, TryRight(v) \/ Drop(v) PROVE CodeInv'
  <1>1. UNCHANGED <<age, kind, row, wrong, sessions, ended>> /\ lost' \in Nat /\ crossed' \in BOOLEAN
    <2>1. CASE TryRight(v)
      BY <2>1, Zenon DEF CodeInv, CodeTypeOK, TryRight, Cross
    <2>2. CASE Drop(v)
      BY <2>2 DEF CodeInv, CodeTypeOK, Drop
    <2>3. QED
      BY <2>1, <2>2, Zenon
  <1>2. try' \in [Verifiers -> [at : {"idle", "bump", "confirm"}, data : Envelope]]
    <2>1. CASE TryRight(v)
      BY <2>1, Zenon DEF CodeInv, CodeTypeOK, TryRight
    <2>2. CASE Drop(v)
      <3>1. NoTry \in [at : {"idle", "bump", "confirm"}, data : Envelope]
        BY CodesAssumption DEF NoTry, Fresh, Envelope
      <3>2. QED
        BY <2>2, <3>1, Zenon DEF CodeInv, CodeTypeOK, Drop
    <2>3. QED
      BY <2>1, <2>2, Zenon
  <1>3. ReadBelowLimit'
    BY DEF CodeInv, CodeTypeOK, ReadBelowLimit, TryRight, Drop, NoTry
  <1>4. QED
    BY <1>1, <1>2, <1>3, Zenon DEF CodeInv, CodeTypeOK, Settled, OneSession, LockedForGood

\* An open challenge has minted no session and was not locked; the transaction
\* that finds it open closes it and mints the only one.
LEMMA ConsumeInv ==
  ASSUME CodeInv, Open, row'.consumed = TRUE, row' \in [consumed : BOOLEAN, data : Envelope],
         sessions' = sessions + 1, ended' = Ended("verified")
  PROVE  Settled' /\ OneSession' /\ LockedForGood' /\ ended' = "verified"
  <1>1. sessions = 0 /\ ended # "locked"
    BY DEF CodeInv, CodeTypeOK, Open, Settled
  <1>2. ended' = "verified" /\ sessions' = 1
    BY <1>1 DEF CodeInv, CodeTypeOK, Ended
  <1>3. QED
    BY <1>2 DEF Settled, OneSession, LockedForGood

\* The OTP's transaction, which re-reads the row.
LEMMA ConfirmInv == ASSUME CodeInv, NEW v \in Verifiers, Confirm(v) PROVE CodeInv'
  <1>1. try' = [try EXCEPT ![v] = NoTry] /\ UNCHANGED <<age, kind, crossed, wrong, lost>>
    BY Zenon DEF Confirm
  <1>2. try' \in [Verifiers -> [at : {"idle", "bump", "confirm"}, data : Envelope]]
    BY <1>1, CodesAssumption DEF CodeInv, CodeTypeOK, NoTry, Fresh, Envelope
  <1>3. ReadBelowLimit'
    BY <1>1, Zenon DEF CodeInv, CodeTypeOK, ReadBelowLimit, NoTry
  <1>4. CASE Open
    <2>1. row' = [consumed |-> TRUE, data |-> [row.data EXCEPT !.consumed = TRUE]]
      BY <1>4, Zenon DEF Confirm
    <2>2. row' \in [consumed : BOOLEAN, data : Envelope]
      BY <2>1, Zenon DEF CodeInv, CodeTypeOK, Envelope
    <2>3. sessions' = sessions + 1 /\ ended' = Ended("verified")
      BY <1>4, Zenon DEF Confirm
    <2>4. Settled' /\ OneSession' /\ LockedForGood' /\ ended' = "verified"
      BY <1>4, <2>1, <2>2, <2>3, ConsumeInv, Zenon
    <2>5. CodeTypeOK'
      BY <1>1, <1>2, <2>2, <2>3, <2>4 DEF CodeInv, CodeTypeOK
    <2>6. QED
      BY <1>3, <2>4, <2>5, Zenon DEF CodeInv
  <1>5. CASE ~Open
    <2>1. UNCHANGED <<row, sessions, ended>>
      BY <1>5, Zenon DEF Confirm
    <2>2. QED
      BY <1>1, <1>2, <1>3, <2>1, Zenon DEF CodeInv, CodeTypeOK, Settled, OneSession, LockedForGood
  <1>6. QED
    BY <1>4, <1>5, Zenon

\* The MFA transaction, which reads and consumes at once.
LEMMA VerifyMfaInv == ASSUME CodeInv, NEW v \in Verifiers, VerifyMfa(v) PROVE CodeInv'
  <1>1. UNCHANGED <<age, kind, crossed, try, wrong, lost>> /\ Open
        /\ sessions' = sessions + 1 /\ ended' = Ended("verified")
    BY Zenon DEF VerifyMfa
  <1>2. row' \in [consumed : BOOLEAN, data : Envelope] /\ row'.consumed = TRUE
    BY Zenon DEF VerifyMfa, CodeInv, CodeTypeOK
  <1>3. Settled' /\ OneSession' /\ LockedForGood' /\ ended' = "verified"
    BY <1>1, <1>2, ConsumeInv, Zenon
  <1>4. CodeTypeOK' /\ ReadBelowLimit'
    BY <1>1, <1>2, <1>3 DEF CodeInv, CodeTypeOK, ReadBelowLimit
  <1>5. QED
    BY <1>3, <1>4, Zenon DEF CodeInv

\* Every step keeps the invariant.
LEMMA CodeNextInv == CodeInv /\ [CodeNext]_codeVars => CodeInv'
  <1> SUFFICES ASSUME CodeInv, [CodeNext]_codeVars PROVE CodeInv'
    BY Zenon
  <1>1. ASSUME NEW v \in Verifiers, TryWrong(v) PROVE CodeInv'
    BY <1>1, TryWrongInv, Zenon
  <1>2. ASSUME NEW v \in Verifiers, Bump(v) PROVE CodeInv'
    BY <1>2, BumpInv, Zenon
  <1>3. ASSUME NEW v \in Verifiers, TryRight(v) \/ Drop(v) PROVE CodeInv'
    BY <1>3, WaitInv, Zenon
  <1>4. ASSUME NEW v \in Verifiers, Confirm(v) PROVE CodeInv'
    BY <1>4, ConfirmInv, Zenon
  <1>5. ASSUME NEW v \in Verifiers, VerifyMfa(v) PROVE CodeInv'
    BY <1>5, VerifyMfaInv, Zenon
  <1>6. CASE Older
    BY <1>6, CodesAssumption
       DEF Older, CodeInv, CodeTypeOK, ReadBelowLimit, Settled, OneSession, LockedForGood
  <1>7. CASE UNCHANGED codeVars
    BY <1>7, Zenon
       DEF codeVars, CodeInv, CodeTypeOK, ReadBelowLimit, Settled, OneSession, LockedForGood
  <1>8. QED
    BY <1>1, <1>2, <1>3, <1>4, <1>5, <1>6, <1>7, Zenon DEF CodeNext

\* The invariant holds in every behaviour.
THEOREM CodeInvariance == CodeSpec => []CodeInv
  <1>1. QED
    BY CodeInitInv, CodeNextInv, PTL DEF CodeSpec

\* However many requests present the right code, VerifyOTP and mfa.Verify mint
\* at most one session from a challenge.
THEOREM OneSessionPerCode == CodeSpec => []OneSession
  <1>1. CodeInv => OneSession
    BY Zenon DEF CodeInv
  <1>2. QED
    BY <1>1, CodeInvariance, PTL

\* A challenge locked by wrong codes mints no session, whatever requests were
\* under way when it was locked.
THEOREM LockIsFinal == CodeSpec => []LockedForGood
  <1>1. CodeInv => LockedForGood
    BY Zenon DEF CodeInv
  <1>2. QED
    BY <1>1, CodeInvariance, PTL

-----------------------------------------------------------------------------
\* Request v stands between its read and its write; it has a count to write.
CodeBusy(v) == try[v].at # "idle"
Pending(v) == try[v].at = "bump"

\* While requests come one at a time, the row has counted every wrong code but
\* the lost ones and the one under way, which was read from the row as it is.
CodeTally ==
    /\ \A v, w \in Verifiers : CodeBusy(v) /\ CodeBusy(w) => v = w
    /\ \A v \in Verifiers : Pending(v) =>
          try[v].data.attempts = row.data.attempts /\ wrong = row.data.attempts + lost + 1
    /\ (\A v \in Verifiers : ~Pending(v)) => wrong = row.data.attempts + lost

CodeSerial == ~crossed => CodeTally

\* A step that starts no request and writes no count.
LEMMA CodeTallyKept ==
  ASSUME CodeSerial, UNCHANGED <<try, wrong, lost, crossed>>, row'.data.attempts = row.data.attempts
  PROVE  CodeSerial'
  BY Zenon DEF CodeSerial, CodeTally, CodeBusy, Pending

\* A request that starts alone finds no other under way.
LEMMA StartsAlone ==
  ASSUME CodeInv, CodeSerial, Cross, ~crossed'
  PROVE  CodeTally /\ \A w \in Verifiers : ~CodeBusy(w) /\ ~Pending(w)
  BY Zenon DEF CodeInv, CodeTypeOK, CodeSerial, Cross, CodeBusy, Pending

\* Every step of requests that come one at a time keeps the tally.
LEMMA CodeSerialStep == CodeInv /\ CodeSerial /\ [CodeNext]_codeVars => CodeSerial'
  <1> SUFFICES ASSUME CodeInv, CodeSerial, [CodeNext]_codeVars PROVE CodeSerial'
    BY Zenon
  <1>0. /\ try \in [Verifiers -> [at : {"idle", "bump", "confirm"}, data : Envelope]]
        /\ wrong \in Nat /\ lost \in Nat /\ row.data.attempts \in Nat
        /\ row \in [consumed : BOOLEAN, data : Envelope]
    BY CodesAssumption DEF CodeInv, CodeTypeOK, Envelope
  <1>i. NoTry.at = "idle"
    BY Zenon DEF NoTry
  <1>1. ASSUME NEW v \in Verifiers, TryWrong(v), ~crossed' PROVE CodeTally'
    <2>1. CodeTally /\ \A w \in Verifiers : ~CodeBusy(w) /\ ~Pending(w)
      BY <1>1, StartsAlone, Zenon DEF TryWrong
    <2>2. wrong = row.data.attempts + lost
      BY <2>1, Zenon DEF CodeTally
    <2>3. row' = row /\ lost' = lost /\ wrong' = row.data.attempts + lost + 1
      BY <1>0, <1>1, <2>2, Zenon DEF TryWrong
    <2>4. /\ try'[v].at = "bump" /\ try'[v].data = row.data
          /\ \A w \in Verifiers : w # v => try'[w] = try[w]
      BY <1>0, <1>1, Zenon DEF TryWrong
    <2>5. QED
      BY <2>1, <2>3, <2>4, Zenon DEF CodeTally, CodeBusy, Pending
  <1>2. ASSUME NEW v \in Verifiers, TryRight(v), ~crossed' PROVE CodeTally'
    <2>1. CodeTally /\ \A w \in Verifiers : ~CodeBusy(w) /\ ~Pending(w)
      BY <1>2, StartsAlone, Zenon DEF TryRight
    <2>2. row' = row /\ lost' = lost /\ wrong' = wrong
      BY <1>2, Zenon DEF TryRight
    <2>3. try'[v].at = "confirm" /\ \A w \in Verifiers : w # v => try'[w] = try[w]
      BY <1>0, <1>2, Zenon DEF TryRight
    <2>4. QED
      BY <2>1, <2>2, <2>3, Zenon DEF CodeTally, CodeBusy, Pending
  <1>3. ASSUME NEW v \in Verifiers, Bump(v) \/ Confirm(v) \/ Drop(v), ~crossed' PROVE CodeTally'
    <2>1. CodeTally /\ CodeBusy(v) /\ wrong' = wrong /\ try' = [try EXCEPT ![v] = NoTry]
      BY <1>3 DEF CodeSerial, Bump, Confirm, Drop, CodeBusy
    <2>2. \A w \in Verifiers : ~CodeBusy(w)' /\ ~Pending(w)'
      BY <1>0, <1>i, <2>1, Zenon DEF CodeTally, CodeBusy, Pending
    <2>3. wrong' = row'.data.attempts + lost'
      <3>1. CASE Bump(v)
        <4>1. row'.data = Bumped(try[v].data) /\ lost' = lost /\ Pending(v)
          BY <3>1, Zenon DEF Bump, Pending
        <4>2. Bumped(try[v].data).attempts = try[v].data.attempts + 1
          BY <1>0, Zenon DEF Bumped, Envelope
        <4>3. try[v].data.attempts = row.data.attempts /\ wrong = row.data.attempts + lost + 1
          BY <2>1, <4>1, Zenon DEF CodeTally
        <4>4. QED
          BY <1>0, <2>1, <4>1, <4>2, <4>3
      <3>2. CASE Confirm(v)
        <4>1. \A w \in Verifiers : ~Pending(w)
          BY <2>1, <3>2, Zenon DEF CodeTally, Confirm, CodeBusy, Pending
        <4>2. row'.data.attempts = row.data.attempts /\ lost' = lost
          BY <1>0, <3>2 DEF Confirm, Envelope
        <4>3. QED
          BY <2>1, <4>1, <4>2, Zenon DEF CodeTally
      <3>3. CASE Drop(v) /\ Pending(v)
        <4>1. row' = row /\ lost' = lost + 1
          BY <3>3, Zenon DEF Drop, Pending
        <4>2. wrong = row.data.attempts + lost + 1
          BY <2>1, <3>3, Zenon DEF CodeTally
        <4>3. QED
          BY <1>0, <2>1, <4>1, <4>2
      <3>4. CASE Drop(v) /\ ~Pending(v)
        <4>1. row' = row /\ lost' = lost
          BY <3>4, Zenon DEF Drop, Pending
        <4>2. \A w \in Verifiers : ~Pending(w)
          BY <2>1, <3>4, Zenon DEF CodeTally, CodeBusy, Pending
        <4>3. QED
          BY <2>1, <4>1, <4>2, Zenon DEF CodeTally
      <3>5. QED
        BY <1>3, <3>1, <3>2, <3>3, <3>4, Zenon
    <2>4. QED
      BY <2>2, <2>3, Zenon DEF CodeTally
  <1>4. ASSUME NEW v \in Verifiers, VerifyMfa(v) PROVE CodeSerial'
    <2>1. row'.data.attempts = row.data.attempts
      BY <1>0, <1>4, Zenon DEF VerifyMfa
    <2>2. QED
      BY <1>4, <2>1, CodeTallyKept, Zenon DEF VerifyMfa
  <1>5. CASE Older
    BY <1>5, CodeTallyKept, Zenon DEF Older
  <1>6. CASE UNCHANGED codeVars
    BY <1>6, CodeTallyKept, Zenon DEF codeVars
  <1>7. QED
    BY <1>1, <1>2, <1>3, <1>4, <1>5, <1>6, Zenon DEF CodeNext, CodeSerial

\* Of requests that come one at a time, VerifyOTP and mfa.Verify compare no more
\* wrong codes than the limit and the counts that were lost.
THEOREM SerialGuessesBounded == CodeSpec => []GuessesBounded
  <1>1. CodeInit => CodeSerial
    <2> SUFFICES ASSUME CodeInit PROVE CodeSerial
      BY Zenon
    <2>1. \A v \in Verifiers : ~CodeBusy(v) /\ ~Pending(v)
      BY Zenon DEF CodeInit, NoTry, CodeBusy, Pending
    <2>2. wrong = row.data.attempts + lost
      BY DEF CodeInit, Fresh
    <2>3. QED
      BY <2>1, <2>2, Zenon DEF CodeSerial, CodeTally
  <1>2. CodeInv /\ CodeSerial => GuessesBounded
    <2> SUFFICES ASSUME CodeInv, CodeSerial, ~crossed PROVE wrong <= MaxAttempts + lost
      BY Zenon DEF GuessesBounded
    <2>1. row.data.attempts \in 0..MaxAttempts /\ lost \in Nat
      BY Zenon DEF CodeInv, CodeTypeOK, Envelope
    <2>2. CASE \A v \in Verifiers : ~Pending(v)
      <3>1. wrong = row.data.attempts + lost
        BY <2>2, Zenon DEF CodeSerial, CodeTally
      <3>2. QED
        BY <2>1, <3>1, CodesAssumption
    <2>3. ASSUME NEW v \in Verifiers, Pending(v) PROVE wrong <= MaxAttempts + lost
      <3>1. try[v].data.attempts = row.data.attempts /\ wrong = row.data.attempts + lost + 1
        BY <2>3, Zenon DEF CodeSerial, CodeTally
      <3>2. row.data.attempts < MaxAttempts
        BY <2>3, <3>1, Zenon DEF CodeInv, ReadBelowLimit, Pending
      <3>3. QED
        BY <2>1, <3>1, <3>2, CodesAssumption
    <2>4. QED
      BY <2>2, <2>3, Zenon
  <1>3. QED
    BY <1>1, <1>2, CodeSerialStep, CodeInvariance, PTL DEF CodeSpec
=============================================================================
