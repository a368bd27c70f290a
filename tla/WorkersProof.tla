---------------------------- MODULE WorkersProof ----------------------------
(***************************************************************************)
(* Proofs about the background workers, for any number of replicas: the    *)
(* jobs (Jobs) and the deletion of accounts (Deletion).  The argument for  *)
(* the jobs: a row is pending only until its one claim, so the worker that *)
(* made it is the only one that ever has the job; what that worker has     *)
(* counted is what it did; and an export that is not finished still names  *)
(* the person, so that the deletion finds it.                              *)
(***************************************************************************)
EXTENDS Jobs, Deletion, TLAPS

\* A job is claimed while it is pending, and then by one worker.
OnceInv ==
    /\ \A j \in Jobs : runs[j] <= 1 /\ (status[j] = "pending" \/ j > count => runs[j] = 0)
    /\ \A j \in Jobs : j > count => status[j] = "none"
    /\ \A w \in Runners : job[w] # 0 =>
            /\ runs[job[w]] = 1 /\ status[job[w]] \in {"running", "cancelled", "none"}
    /\ \A v, w \in Runners : job[v] = job[w] /\ job[v] # 0 => v = w

\* A worker has counted the rows behind it.
CountInv ==
    /\ \A w \in Runners : job[w] # 0 /\ kind[job[w]] = "import_users" =>
            /\ done[w] = made[job[w]] /\ done[w] + bad[w] = next[w] - 1
            /\ next[w] <= Len(list[job[w]]) + 1
    /\ \A j \in Jobs : runs[j] = 0 => made[j] = 0

\* An export under way names the person, unless there is nobody left to name.
OwnerInv ==
    /\ \A j \in Jobs : kind[j] = "data_export" /\ status[j] \in {"pending", "running"} => owned[j]
    /\ purged => ~person /\ \A j \in Jobs : ~owned[j]

JobsInv == JobsTypeOK /\ OnceInv /\ CountInv /\ OwnerInv /\ TallyIsTrue

\* What a worker has is a job, and its list has a length.
LEMMA JobFacts ==
    ASSUME JobsTypeOK, NEW w \in Runners, job[w] # 0
    PROVE  /\ job[w] \in Jobs /\ list[job[w]] \in Seq(Emails) /\ Len(list[job[w]]) \in Nat
           /\ next[w] \in Nat /\ done[w] \in Nat /\ bad[w] \in Nat /\ made[job[w]] \in Nat
<1>1. job[w] \in 0..MaxJobs /\ MaxJobs \in Nat
    BY JobsAssumption, Zenon DEF JobsTypeOK
<1>2. job[w] \in Jobs
    BY <1>1 DEF Jobs
<1>3. list[job[w]] \in Seq(Emails) /\ made[job[w]] \in Nat
    BY <1>2, Zenon DEF JobsTypeOK
<1>4. next[w] \in Nat /\ done[w] \in Nat /\ bad[w] \in Nat
    BY Zenon DEF JobsTypeOK
<1> QED BY <1>2, <1>3, <1>4

\* The first state satisfies the invariant.
LEMMA JobsInitInv == JobsInit => JobsInv
<1> SUFFICES ASSUME JobsInit PROVE JobsInv
    BY Zenon
<1> USE JobsAssumption
<1>1. JobsTypeOK
  <2>1. NoTally \in [processed : Nat, failed : Nat] /\ <<>> \in Seq(Emails) /\ 0 \in 0..MaxJobs
    BY DEF NoTally
  <2>2. "none" \in Statuses /\ "audit_export" \in Kinds
    BY Zenon DEF Statuses, Kinds
  <2> QED BY <2>1, <2>2, Zenon DEF JobsInit, JobsTypeOK
<1>2. OnceInv /\ CountInv /\ OwnerInv /\ TallyIsTrue
    BY DEF JobsInit, OnceInv, CountInv, OwnerInv, TallyIsTrue, Jobs
<1> QED BY <1>1, <1>2, Zenon DEF JobsInv

\* A new job is nobody's (createJob, StartExport, Export).
LEMMA InsertStep ==
    ASSUME JobsInv, NEW k \in Kinds, NEW l \in Seq(Emails), NEW o \in BOOLEAN, Insert(k, l, o),
           k = "data_export" => o, o => person
    PROVE  JobsInv'
<1> USE JobsAssumption
<1> DEFINE n == count + 1
<1>1. /\ count < MaxJobs /\ count' = n
      /\ status' = [status EXCEPT ![n] = "pending"] /\ kind' = [kind EXCEPT ![n] = k]
      /\ list' = [list EXCEPT ![n] = l] /\ owned' = [owned EXCEPT ![n] = o]
      /\ UNCHANGED <<tally, job, next, done, bad, read, users, person, purged, runs, made, lost>>
    BY Zenon DEF Insert, runners, ghosts
<1>2. n \in Jobs /\ n > count /\ count \in Nat /\ n # 0
    BY <1>1 DEF JobsInv, JobsTypeOK, Jobs
<1> HIDE DEF n
<1>3. JobsTypeOK'
  <2>1. count' \in 0..MaxJobs
    BY <1>1, <1>2 DEF Jobs
  <2>2. status' \in [Jobs -> Statuses] /\ kind' \in [Jobs -> Kinds]
    BY <1>1, Zenon DEF JobsInv, JobsTypeOK, Statuses
  <2>3. list' \in [Jobs -> Seq(Emails)] /\ owned' \in [Jobs -> BOOLEAN]
    BY <1>1, Zenon DEF JobsInv, JobsTypeOK
  <2> QED BY <1>1, <2>1, <2>2, <2>3, Zenon DEF JobsInv, JobsTypeOK
<1>4. \A w \in Runners : job[w] # n
  <2>1. runs[n] = 0
    BY <1>2, Zenon DEF JobsInv, OnceInv
  <2> SUFFICES ASSUME NEW w \in Runners, job[w] = n PROVE FALSE
    BY Zenon
  <2>2. runs[job[w]] = 1
    BY <1>2, Zenon DEF JobsInv, OnceInv
  <2> QED BY <2>1, <2>2
<1>5. \A j \in Jobs : j \in Nat
    BY DEF Jobs
<1>6. OnceInv'
  <2>1. \A j \in Jobs : j > count' => j > count /\ j # n
    BY <1>1, <1>2, <1>5 DEF n
  <2>2. runs[n] = 0
    BY <1>2, Zenon DEF JobsInv, OnceInv
  <2>3. \A w \in Runners : job[w] # 0 => job[w] \in Jobs
    BY DEF JobsInv, JobsTypeOK, Jobs
  <2> QED BY <1>1, <1>2, <1>4, <2>1, <2>2, <2>3, Zenon DEF JobsInv, OnceInv, JobsTypeOK
<1>7. CountInv'
    BY <1>1, <1>2, <1>4 DEF JobsInv, CountInv, JobsTypeOK
<1>8. OwnerInv'
    BY <1>1, <1>2, Zenon DEF JobsInv, OwnerInv, JobsTypeOK
<1>9. TallyIsTrue'
    BY <1>1, <1>2, Zenon DEF JobsInv, TallyIsTrue, JobsTypeOK
<1> QED BY <1>3, <1>6, <1>7, <1>8, <1>9, Zenon DEF JobsInv

\* A job is claimed (drainOneJob).
LEMMA ClaimStep ==
    ASSUME JobsInv, NEW w \in Runners, NEW j \in Jobs, Claim(w, j) PROVE JobsInv'
<1> USE JobsAssumption
<1>1. /\ job[w] = 0 /\ status[j] = "pending"
      /\ status' = [status EXCEPT ![j] = "running"] /\ job' = [job EXCEPT ![w] = j]
      /\ next' = [next EXCEPT ![w] = 1] /\ done' = [done EXCEPT ![w] = 0] /\ bad' = [bad EXCEPT ![w] = 0]
      /\ read' = [read EXCEPT ![w] = "nothing"] /\ runs' = [runs EXCEPT ![j] = runs[j] + 1]
      /\ UNCHANGED <<count, kind, list, owned, tally, users, person, purged, made, lost>>
    BY Zenon DEF Claim, Claimable
<1>2. j \in 1..MaxJobs /\ j \in Nat /\ j # 0 /\ runs[j] = 0 /\ made[j] = 0 /\ ~(j > count)
    BY <1>1 DEF JobsInv, OnceInv, CountInv, Jobs
<1>3. JobsTypeOK'
  <2>1. status' \in [Jobs -> Statuses] /\ job' \in [Runners -> 0..MaxJobs] /\ runs' \in [Jobs -> Nat]
    BY <1>1, <1>2 DEF JobsInv, JobsTypeOK, Statuses
  <2>2. next' \in [Runners -> Nat] /\ done' \in [Runners -> Nat] /\ bad' \in [Runners -> Nat]
    BY <1>1, Zenon DEF JobsInv, JobsTypeOK
  <2>3. read' \in [Runners -> {"nothing", "data", "error"}]
    BY <1>1, Zenon DEF JobsInv, JobsTypeOK
  <2> QED BY <1>1, <2>1, <2>2, <2>3, Zenon DEF JobsInv, JobsTypeOK
<1>4. \A v \in Runners : job[v] # j
    BY <1>1, <1>2, Zenon DEF JobsInv, OnceInv
<1>5. OnceInv'
    BY <1>1, <1>2, <1>4, SMTT(30) DEF JobsInv, OnceInv, JobsTypeOK
<1>6. CountInv'
  <2>1. Len(list[j]) \in Nat
    BY DEF JobsInv, JobsTypeOK
  <2>2. job'[w] = j /\ done'[w] = 0 /\ bad'[w] = 0 /\ next'[w] = 1
    BY <1>1, Zenon DEF JobsInv, JobsTypeOK
  <2>3. \A v \in Runners : v # w => /\ job'[v] = job[v] /\ done'[v] = done[v]
                                    /\ bad'[v] = bad[v] /\ next'[v] = next[v]
    BY <1>1, Zenon DEF JobsInv, JobsTypeOK
  <2>4. \A i \in Jobs : runs'[i] = 0 => runs[i] = 0
    BY <1>1, <1>2, Zenon DEF JobsInv, JobsTypeOK
  <2> QED BY <1>1, <1>2, <2>1, <2>2, <2>3, <2>4 DEF JobsInv, CountInv
<1>7. OwnerInv' /\ TallyIsTrue'
    BY <1>1, Zenon DEF JobsInv, OwnerInv, TallyIsTrue, JobsTypeOK
<1> QED BY <1>3, <1>5, <1>6, <1>7, Zenon DEF JobsInv

\* A row of an import is done (importOneUser, processImportUsers).
LEMMA RowStep ==
    ASSUME JobsInv, NEW w \in Runners, ImportRow(w) \/ FailRow(w) PROVE JobsInv'
<1> USE JobsAssumption
<1> DEFINE j == job[w]
<1>1. /\ j # 0 /\ kind[j] = "import_users" /\ next[w] <= Len(list[j])
      /\ next' = [next EXCEPT ![w] = next[w] + 1]
      /\ UNCHANGED <<count, status, kind, list, owned, tally, job, read, person, purged, runs, lost>>
    BY Zenon DEF ImportRow, FailRow, Importing, rows, ghosts
<1>2. /\ j \in Jobs /\ Len(list[j]) \in Nat /\ next[w] \in Nat /\ done[w] \in Nat /\ bad[w] \in Nat
      /\ made[j] \in Nat /\ list[j] \in Seq(Emails)
    BY <1>1, JobFacts, Zenon DEF JobsInv
<1>3. \/ /\ done' = [done EXCEPT ![w] = done[w] + 1] /\ bad' = bad
         /\ made' = [made EXCEPT ![j] = made[j] + 1] /\ users' = users \cup {list[j][next[w]]}
      \/ done' = done /\ bad' = [bad EXCEPT ![w] = bad[w] + 1] /\ made' = made /\ users' = users
    BY Zenon DEF ImportRow, FailRow, ghosts
<1>4. done[w] = made[j] /\ done[w] + bad[w] = next[w] - 1
    BY <1>1, Zenon DEF JobsInv, CountInv
<1>5. /\ runs[j] = 1 /\ status[j] \in {"running", "cancelled", "none"}
      /\ \A v \in Runners : v # w /\ job[v] # 0 => job[v] # j
    BY <1>1, Zenon DEF JobsInv, OnceInv
<1>6. list[j][next[w]] \in Emails
  <2>1. next[w] >= 1
    BY <1>2, <1>4
  <2> QED BY <1>1, <1>2, <2>1
<1> HIDE DEF j
<1>7. JobsTypeOK'
  <2>1. users' \subseteq Emails
    BY <1>3, <1>6, Zenon DEF JobsInv, JobsTypeOK
  <2>2. next' \in [Runners -> Nat] /\ done' \in [Runners -> Nat] /\ bad' \in [Runners -> Nat]
    <3>1. next \in [Runners -> Nat] /\ done \in [Runners -> Nat] /\ bad \in [Runners -> Nat]
      BY Zenon DEF JobsInv, JobsTypeOK
    <3>2. next' \in [Runners -> Nat]
      BY <1>1, <1>2, <3>1
    <3>3. done' \in [Runners -> Nat] /\ bad' \in [Runners -> Nat]
      <4>1. \A f \in [Runners -> Nat] : [f EXCEPT ![w] = f[w] + 1] \in [Runners -> Nat]
        OBVIOUS
      <4> QED BY <1>3, <3>1, <4>1, Zenon
    <3> QED BY <3>2, <3>3, Zenon
  <2>3. made' \in [Jobs -> Nat]
    <3>1. made \in [Jobs -> Nat]
      BY Zenon DEF JobsInv, JobsTypeOK
    <3> QED BY <1>2, <1>3, <3>1
  <2> QED BY <1>1, <2>1, <2>2, <2>3, Zenon DEF JobsInv, JobsTypeOK
<1>8. OnceInv' /\ OwnerInv'
    BY <1>1, Zenon DEF JobsInv, OnceInv, OwnerInv
<1>9. CountInv'
  <2>1. /\ next'[w] = next[w] + 1 /\ done'[w] = made'[j] /\ done'[w] + bad'[w] = next'[w] - 1
    <3>1. /\ next \in [Runners -> Nat] /\ done \in [Runners -> Nat] /\ bad \in [Runners -> Nat]
          /\ made \in [Jobs -> Nat]
      BY Zenon DEF JobsInv, JobsTypeOK
    <3>2. next'[w] = next[w] + 1
      BY <1>1, <3>1, Zenon
    <3>3. \/ done'[w] = done[w] + 1 /\ bad'[w] = bad[w] /\ made'[j] = made[j] + 1
          \/ done'[w] = done[w] /\ bad'[w] = bad[w] + 1 /\ made'[j] = made[j]
      BY <1>2, <1>3, <3>1, Zenon
    <3> QED BY <1>2, <1>4, <3>2, <3>3, SMTT(30)
  <2>2. \A v \in Runners : v # w => done'[v] = done[v] /\ bad'[v] = bad[v] /\ next'[v] = next[v]
    BY <1>1, <1>3, Zenon DEF JobsInv, JobsTypeOK
  <2>3. \A i \in Jobs : i # j => made'[i] = made[i]
    BY <1>3, Zenon DEF JobsInv, JobsTypeOK
  <2>4. \A v \in Runners : job[v] # 0 => job[v] \in Jobs
    BY DEF JobsInv, JobsTypeOK, Jobs
  <2>5. \A i \in Jobs : runs'[i] = 0 => made'[i] = 0
    BY <1>1, <1>5, <2>3 DEF JobsInv, CountInv
  <2>6. job'[w] = j /\ kind' = kind /\ list' = list /\ job' = job
    BY <1>1, Zenon DEF j
  <2>7. ASSUME NEW v \in Runners, job'[v] # 0, kind'[job'[v]] = "import_users"
        PROVE  /\ done'[v] = made'[job'[v]] /\ done'[v] + bad'[v] = next'[v] - 1
               /\ next'[v] <= Len(list'[job'[v]]) + 1
    <3>1. CASE v = w
      BY <1>1, <1>2, <2>1, <2>6, <3>1
    <3>2. CASE v # w
      BY <1>5, <2>2, <2>3, <2>4, <2>6, <2>7, <3>2, Zenon DEF JobsInv, CountInv
    <3> QED BY <3>1, <3>2, Zenon
  <2> QED BY <2>5, <2>7, Zenon DEF CountInv
<1>10. TallyIsTrue'
  <2>1. \A i \in Jobs : status[i] = "completed" => i # j
    BY <1>5, Zenon
  <2>2. \A i \in Jobs : i # j => made'[i] = made[i]
    BY <1>3, Zenon DEF JobsInv, JobsTypeOK
  <2> QED BY <1>1, <2>1, <2>2, Zenon DEF JobsInv, TallyIsTrue
<1> QED BY <1>7, <1>8, <1>9, <1>10, Zenon DEF JobsInv

\* A worker writes the outcome of its job (finishJob).
LEMMA FinishStep ==
    ASSUME JobsInv, NEW w \in Runners, FinishJob(w) PROVE JobsInv'
<1> USE JobsAssumption
<1> DEFINE j == job[w]
<1>1. /\ j # 0 /\ job' = [job EXCEPT ![w] = 0] /\ ~Importing(w)
      /\ UNCHANGED <<count, kind, list, next, done, bad, read, users, person, purged, runs, made, lost>>
    BY Zenon DEF FinishJob, Processed, ghosts
<1>2. /\ j \in Jobs /\ Len(list[j]) \in Nat /\ next[w] \in Nat /\ done[w] \in Nat /\ bad[w] \in Nat
      /\ runs[j] = 1
    BY <1>1, JobFacts, Zenon DEF JobsInv, OnceInv
<1>3. PICK s \in {"completed", "failed"} :
        \/ UNCHANGED <<status, tally, owned>>
        \/ /\ status[j] = "running" /\ status' = [status EXCEPT ![j] = s]
           /\ tally' = [tally EXCEPT ![j] = [processed |-> done[w], failed |-> bad[w]]]
           /\ owned' = [owned EXCEPT ![j] = FALSE]
    BY Zenon DEF FinishJob, StillRunning
<1>4. ASSUME kind[j] = "import_users" PROVE done[w] = made[j] /\ done[w] + bad[w] = Len(list[j])
  <2>1. done[w] = made[j] /\ done[w] + bad[w] = next[w] - 1 /\ next[w] <= Len(list[j]) + 1
    BY <1>1, <1>4, Zenon DEF JobsInv, CountInv
  <2>2. ~(next[w] <= Len(list[j]))
    BY <1>1, <1>4, Zenon DEF Importing
  <2> QED BY <1>2, <2>1, <2>2
<1>5. \A v \in Runners : v # w /\ job[v] # 0 => job[v] # j
    BY <1>1, Zenon DEF JobsInv, OnceInv
<1> HIDE DEF j
<1>6. job' \in [Runners -> 0..MaxJobs] /\ \A v \in Runners : job'[v] # 0 => v # w /\ job'[v] = job[v]
    BY <1>1 DEF JobsInv, JobsTypeOK
<1>7. CASE UNCHANGED <<status, tally, owned>>
  <2>1. JobsTypeOK' /\ OwnerInv' /\ TallyIsTrue'
    BY <1>1, <1>6, <1>7, Zenon DEF JobsInv, JobsTypeOK, OwnerInv, TallyIsTrue
  <2>2. OnceInv' /\ CountInv'
    BY <1>1, <1>6, <1>7, Zenon DEF JobsInv, OnceInv, CountInv
  <2> QED BY <2>1, <2>2, Zenon DEF JobsInv
<1>8. CASE /\ status[j] = "running" /\ status' = [status EXCEPT ![j] = s]
           /\ tally' = [tally EXCEPT ![j] = [processed |-> done[w], failed |-> bad[w]]]
           /\ owned' = [owned EXCEPT ![j] = FALSE]
  <2>1. status'[j] = s /\ \A i \in Jobs : i # j => status'[i] = status[i] /\ tally'[i] = tally[i]
                                                   /\ owned'[i] = owned[i]
    BY <1>2, <1>8, Zenon DEF JobsInv, JobsTypeOK
  <2>2. tally'[j].processed = done[w] /\ tally'[j].failed = bad[w] /\ owned'[j] = FALSE
    BY <1>2, <1>8, Zenon DEF JobsInv, JobsTypeOK
  <2>3. JobsTypeOK'
    <3>1. status' \in [Jobs -> Statuses] /\ owned' \in [Jobs -> BOOLEAN]
      BY <1>8, Zenon DEF JobsInv, JobsTypeOK, Statuses
    <3>2. tally' \in [Jobs -> [processed : Nat, failed : Nat]]
      BY <1>2, <1>8, Zenon DEF JobsInv, JobsTypeOK
    <3> QED BY <1>1, <1>6, <3>1, <3>2, Zenon DEF JobsInv, JobsTypeOK
  <2>4. OnceInv'
    <3>1. \A v \in Runners : job[v] # 0 => job[v] \in Jobs
      BY DEF JobsInv, JobsTypeOK, Jobs
    <3>2. ~(j > count)
      BY <1>2 DEF JobsInv, OnceInv
    <3> QED BY <1>1, <1>2, <1>5, <1>6, <2>1, <3>1, <3>2 DEF JobsInv, OnceInv
  <2>5. CountInv'
    BY <1>1, <1>6, Zenon DEF JobsInv, CountInv
  <2>6. OwnerInv'
    BY <1>1, <1>2, <2>1, <2>2, Zenon DEF JobsInv, OwnerInv
  <2>7. TallyIsTrue'
    BY <1>1, <1>2, <1>4, <2>1, <2>2, Zenon DEF JobsInv, TallyIsTrue
  <2> QED BY <2>3, <2>4, <2>5, <2>6, <2>7, Zenon DEF JobsInv
<1> QED BY <1>3, <1>7, <1>8, Zenon

\* A job changes its status or an account its state, and no worker is concerned
\* (Cancel, SignUp, Delete, finishDeletion, an export that reads), or a worker is (Lose).
LEMMA OtherStep ==
    ASSUME JobsInv, \/ \E j \in Jobs : Cancel(j)
                    \/ \E e \in Emails : SignUp(e)
                    \/ DeletePerson
                    \/ PurgeExports
                    \/ \E w \in Runners : Read(w)
                    \/ \E w \in Runners : Lose(w)
                    \/ UNCHANGED jobsVars
    PROVE  JobsInv'
<1> USE JobsAssumption
<1>1. ASSUME NEW j \in Jobs, Cancel(j) PROVE JobsInv'
  <2>1. /\ status[j] \in {"pending", "running"} /\ status' = [status EXCEPT ![j] = "cancelled"]
        /\ UNCHANGED <<count, kind, list, owned, tally, job, next, done, bad, read, users, person, purged,
                       runs, made, lost>>
    BY <1>1, Zenon DEF Cancel, runners, ghosts
  <2>2. status' \in [Jobs -> Statuses] /\ \A i \in Jobs : status'[i] \in {status[i], "cancelled"}
    BY <2>1, Zenon DEF JobsInv, JobsTypeOK, Statuses
  <2>3. \A i \in Jobs : status'[i] # status[i] => i = j
    BY <2>1, Zenon DEF JobsInv, JobsTypeOK
  <2>4. JobsTypeOK'
    BY <2>1, <2>2, Zenon DEF JobsInv, JobsTypeOK
  <2>5. OnceInv'
    <3>1. \A w \in Runners : job[w] # 0 => job[w] \in Jobs
      BY JobFacts, Zenon DEF JobsInv
    <3>2. \A i \in Jobs : i > count => status'[i] = "none"
      BY <2>1, <2>3, Zenon DEF JobsInv, OnceInv
    <3> QED BY <2>1, <2>2, <3>1, <3>2 DEF JobsInv, OnceInv
  <2>6. CountInv' /\ OwnerInv' /\ TallyIsTrue'
    BY <2>1, <2>2, Zenon DEF JobsInv, CountInv, OwnerInv, TallyIsTrue
  <2> QED BY <2>4, <2>5, <2>6, Zenon DEF JobsInv
<1>2. ASSUME NEW e \in Emails, SignUp(e) PROVE JobsInv'
    BY <1>2
       DEF SignUp, rows, runners, ghosts, JobsInv, JobsTypeOK, OnceInv, CountInv, OwnerInv,
           TallyIsTrue
<1>3. ASSUME DeletePerson PROVE JobsInv'
    BY <1>3, Zenon
       DEF DeletePerson, rows, runners, ghosts, JobsInv, JobsTypeOK, OnceInv, CountInv, OwnerInv,
           TallyIsTrue
<1>4. ASSUME PurgeExports PROVE JobsInv'
  <2>1. /\ status' = [j \in Jobs |-> IF owned[j] THEN "none" ELSE status[j]]
        /\ owned' = [j \in Jobs |-> FALSE] /\ person' = FALSE /\ purged' = TRUE
        /\ UNCHANGED <<count, kind, list, tally, job, next, done, bad, read, users, runs, made, lost>>
    BY <1>4, Zenon DEF PurgeExports, OwnedBy, runners, ghosts
  <2>2. \A i \in Jobs : status'[i] \in {status[i], "none"} /\ (owned[i] => status'[i] = "none")
    BY <2>1, Zenon
  <2>3. JobsTypeOK'
    <3>1. status' \in [Jobs -> Statuses]
      BY <2>1, Zenon DEF JobsInv, JobsTypeOK, Statuses
    <3> QED BY <2>1, <3>1, Zenon DEF JobsInv, JobsTypeOK
  <2>4. OnceInv'
    <3>1. \A w \in Runners : job[w] # 0 => job[w] \in Jobs
      BY JobFacts, Zenon DEF JobsInv
    <3> QED BY <2>1, <2>2, <3>1, Zenon DEF JobsInv, OnceInv
  <2>5. CountInv' /\ OwnerInv' /\ TallyIsTrue'
    BY <2>1, <2>2, Zenon DEF JobsInv, CountInv, OwnerInv, TallyIsTrue
  <2> QED BY <2>3, <2>4, <2>5, Zenon DEF JobsInv
<1>5. ASSUME NEW w \in Runners, Read(w) PROVE JobsInv'
  <2>1. /\ UNCHANGED <<count, status, kind, list, owned, tally, job, next, done, bad, users, person, purged,
                       runs, made, lost>>
        /\ \E r \in {"data", "error"} : read' = [read EXCEPT ![w] = r]
    BY <1>5, Zenon DEF Read, rows, ghosts
  <2>2. read' \in [Runners -> {"nothing", "data", "error"}]
    BY <2>1, Zenon DEF JobsInv, JobsTypeOK
  <2>3. JobsTypeOK'
    BY <2>1, <2>2, Zenon DEF JobsInv, JobsTypeOK
  <2>4. OnceInv' /\ CountInv' /\ OwnerInv' /\ TallyIsTrue'
    BY <2>1, Zenon DEF JobsInv, OnceInv, CountInv, OwnerInv, TallyIsTrue
  <2> QED BY <2>3, <2>4, Zenon DEF JobsInv
<1>6. ASSUME NEW w \in Runners, Lose(w) PROVE JobsInv'
  <2>1. /\ job' = [job EXCEPT ![w] = 0] /\ lost' = [lost EXCEPT ![job[w]] = TRUE]
        /\ UNCHANGED <<count, status, kind, list, owned, tally, next, done, bad, read, users, person, purged,
                       runs, made>>
    BY <1>6, Zenon DEF Lose, rows
  <2>2. job' \in [Runners -> 0..MaxJobs] /\ \A v \in Runners : job'[v] # 0 => job'[v] = job[v]
    BY <2>1 DEF JobsInv, JobsTypeOK
  <2>3. JobsTypeOK'
    BY <2>1, <2>2, Zenon DEF JobsInv, JobsTypeOK
  <2>4. OnceInv' /\ CountInv' /\ OwnerInv' /\ TallyIsTrue'
    BY <2>1, <2>2 DEF JobsInv, OnceInv, CountInv, OwnerInv, TallyIsTrue
  <2> QED BY <2>3, <2>4, Zenon DEF JobsInv
<1>7. ASSUME UNCHANGED jobsVars PROVE JobsInv'
    BY <1>7, Zenon
       DEF jobsVars, rows, runners, ghosts, JobsInv, JobsTypeOK, OnceInv, CountInv, OwnerInv,
           TallyIsTrue
<1> QED BY <1>1, <1>2, <1>3, <1>4, <1>5, <1>6, <1>7, Zenon

\* Every step of the users, the administrators and the workers keeps the invariant.
LEMMA JobsInvStep == JobsInv /\ [JobsNext]_jobsVars => JobsInv'
<1> SUFFICES ASSUME JobsInv, [JobsNext]_jobsVars PROVE JobsInv'
    BY Zenon
<1>0. <<>> \in Seq(Emails)
    OBVIOUS
<1>1. ASSUME NEW l \in Imports, CreateImportUsers(l) PROVE JobsInv'
    BY <1>1, InsertStep, JobsAssumption, Zenon DEF CreateImportUsers, Kinds
<1>2. CASE CreateAuditExport
    BY <1>0, <1>2, InsertStep, Zenon DEF CreateAuditExport, Kinds
<1>3. CASE StartExport
    BY <1>0, <1>3, InsertStep, Zenon DEF StartExport, Kinds
<1>4. ASSUME NEW w \in Runners, NEW j \in Jobs, Claim(w, j) PROVE JobsInv'
  BY <1>4, ClaimStep, Zenon
<1>5. ASSUME NEW w \in Runners, Work(w) PROVE JobsInv'
  BY <1>5, RowStep, FinishStep, OtherStep, Zenon DEF Work
<1>6. ASSUME \/ \E j \in Jobs : Cancel(j)
             \/ \E e \in Emails : SignUp(e)
             \/ DeletePerson \/ PurgeExports
             \/ \E w \in Runners : Lose(w)
             \/ UNCHANGED jobsVars
      PROVE  JobsInv'
  BY <1>6, OtherStep, Zenon
<1> QED BY <1>1, <1>2, <1>3, <1>4, <1>5, <1>6, Zenon DEF JobsNext

\* The invariant holds throughout.
THEOREM JobsInvariance == JobsSpec => []JobsInv
BY JobsInitInv, JobsInvStep, PTL DEF JobsSpec

\* No job is run twice (drainOneJob).
THEOREM NoJobRunsTwice == JobsSpec => []RunsOnce
<1>1. JobsInv => RunsOnce
    BY Zenon DEF JobsInv, OnceInv, RunsOnce
<1> QED BY <1>1, JobsInvariance, PTL

\* A completed import reports what it did (processImportUsers, finishJob).
THEOREM TalliesAreTrue == JobsSpec => []TallyIsTrue
<1>1. JobsInv => TallyIsTrue
    BY Zenon DEF JobsInv
<1> QED BY <1>1, JobsInvariance, PTL

\* What a step may do to the status of a job.
LEMMA StatusStep ==
    ASSUME JobsInv, [JobsNext]_jobsVars, NEW j \in Jobs
    PROVE  \/ status'[j] \in {status[j], "none"}
           \/ status[j] = "none" /\ status'[j] = "pending"
           \/ status[j] = "pending" /\ status'[j] \in {"running", "cancelled"}
           \/ status[j] = "running" /\ status'[j] = "cancelled"
           \/ status[j] = "running" /\ status'[j] \in {"completed", "failed"}
<1> USE JobsAssumption
<1>0. status \in [Jobs -> Statuses]
    BY Zenon DEF JobsInv, JobsTypeOK
<1>1. ASSUME NEW k, NEW l, NEW o, Insert(k, l, o)
      PROVE  status'[j] = status[j] \/ (status[j] = "none" /\ status'[j] = "pending")
  <2>1. status' = [status EXCEPT ![count + 1] = "pending"] /\ count \in Nat
    BY <1>1 DEF Insert, JobsInv, JobsTypeOK
  <2>2. CASE j = count + 1
    <3>1. status[j] = "none"
      BY <2>1, <2>2 DEF JobsInv, OnceInv
    <3> QED BY <1>0, <2>1, <2>2, <3>1, Zenon
  <2>3. CASE j # count + 1
    BY <1>0, <2>1, <2>3, Zenon
  <2> QED BY <2>2, <2>3, Zenon
<1>2. ASSUME NEW i \in Jobs, Cancel(i)
      PROVE  \/ status'[j] = status[j]
             \/ status[j] \in {"pending", "running"} /\ status'[j] = "cancelled"
    BY <1>0, <1>2, Zenon DEF Cancel
<1>3. ASSUME PurgeExports PROVE status'[j] \in {status[j], "none"}
    BY <1>3, Zenon DEF PurgeExports
<1>4. ASSUME NEW w \in Runners, NEW i \in Jobs, Claim(w, i)
      PROVE  status'[j] = status[j] \/ (status[j] = "pending" /\ status'[j] = "running")
    BY <1>0, <1>4, Zenon DEF Claim, Claimable
<1>5. ASSUME NEW w \in Runners, FinishJob(w)
      PROVE  \/ status'[j] = status[j]
             \/ status[j] = "running" /\ status'[j] \in {"completed", "failed"}
    BY <1>0, <1>5, Zenon DEF FinishJob, StillRunning
<1>6. ASSUME \/ \E e \in Emails : SignUp(e)
             \/ DeletePerson
             \/ \E w \in Runners : ImportRow(w) \/ FailRow(w) \/ Read(w) \/ Lose(w)
             \/ UNCHANGED jobsVars
      PROVE  status' = status
    BY <1>6, Zenon DEF SignUp, DeletePerson, ImportRow, FailRow, Read, Lose, rows, jobsVars
<1> QED
  BY <1>1, <1>2, <1>3, <1>4, <1>5, <1>6, Zenon
     DEF JobsNext, Work, CreateImportUsers, CreateAuditExport, StartExport

\* How a job ended is never rewritten (Cancel, finishJob).
THEOREM EndingsStand == JobsSpec => EndingStands
<1> DEFINE Step == \A j \in Jobs : status[j] \in {"completed", "failed", "cancelled"}
                                   => status'[j] \in {status[j], "none"}
<1>1. ASSUME JobsInv, [JobsNext]_jobsVars PROVE Step
    BY <1>1, StatusStep, Zenon
<1>2. JobsInv /\ [JobsNext]_jobsVars => [Step]_jobsVars
    BY <1>1, Zenon
<1> QED BY <1>2, JobsInvariance, PTL DEF JobsSpec, EndingStands

\* After the purge no export of the person's data is completed (purgeDeletionEnvelopes, finishJob).
THEOREM PurgeEndsExports == JobsSpec => NoExportAfterPurge
<1> DEFINE Step == purged => \A j \in Jobs : kind[j] = "data_export" /\ status'[j] = "completed"
                                             => status[j] = "completed"
<1>1. ASSUME JobsInv, [JobsNext]_jobsVars PROVE Step
  <2> SUFFICES ASSUME purged, NEW j \in Jobs, kind[j] = "data_export", status'[j] = "completed"
               PROVE  status[j] = "completed"
    BY Zenon
  <2>1. status[j] # "running"
    BY <1>1, Zenon DEF JobsInv, OwnerInv
  <2> QED BY <1>1, <2>1, StatusStep, Zenon
<1>2. JobsInv /\ [JobsNext]_jobsVars => [Step]_jobsVars
    BY <1>1, Zenon
<1> QED BY <1>2, JobsInvariance, PTL DEF JobsSpec, NoExportAfterPurge

-----------------------------------------------------------------------------
(* Account deletion, for any number of requests, workers and proofs.       *)

\* A proof that can still be used has not been used, and none is used twice.
ProofsFresh ==
    \A t \in Tokens : /\ used[t] <= 1
                      /\ proof[t].status \in {"open", "authorized"} => used[t] = 0

\* The event has been emitted exactly when the record says so.
EmittedWhenDeleted == finished = IF rec.status = "deleted" THEN 1 ELSE 0

IInv == TypeOK /\ ProofsFresh /\ EmittedWhenDeleted /\ NothingLeft

\* The state in which a deletion flow starts satisfies the invariant.
LEMMA InitIInv == Init => IInv
  <1> SUFFICES ASSUME Init PROVE IInv
    BY Zenon
  <1>1. TypeOK
    BY DeletionAssumption, Zenon DEF Init, TypeOK, Record, Proof, Request, NoProof, Idle, Actions
  <1>2. ProofsFresh /\ EmittedWhenDeleted /\ NothingLeft
    BY DEF Init, ProofsFresh, EmittedWhenDeleted, NothingLeft, NoProof
  <1> QED
    BY <1>1, <1>2, Zenon DEF IInv

\* What a change of the record by a user request, or by the id of the request,
\* makes of it: a record again, never a deleted one (changeDeletion).
LEMMA ChangedType ==
    ASSUME TypeOK, NEW action \in Actions
    PROVE  Changed(action) \in Record /\ Changed(action).status # "deleted"
  BY DeletionAssumption DEF TypeOK, Changed, Record, Actions

\* A request that passed the checks of mutateDeletionLocked was not made on a
\* deleted account: its user row is still there.
LEMMA UserMeansLive ==
    ASSUME IInv, user PROVE rec.status # "deleted"
  BY Zenon DEF IInv, NothingLeft

\* Consuming a proof keeps the table well-typed and every usable proof unused
\* (consumeDeletionProof).
LEMMA ConsumeKeeps ==
    ASSUME IInv, NEW r \in Requests, req[r].at = "checked", Proved(r),
           proof' = Consumed(r),
           used' = IF NeedsProof(r) THEN [used EXCEPT ![req[r].token] = @ + 1] ELSE used
    PROVE  /\ proof' \in [Tokens -> Proof] /\ used' \in [Tokens -> Nat]
           /\ ProofsFresh'
  <1> DEFINE t == req[r].token
  <1> USE DEF IInv, TypeOK
  <1>1. CASE ~NeedsProof(r)
    BY <1>1, Zenon DEF Consumed, ProofsFresh
  <1>2. CASE NeedsProof(r)
    <2>1. t \in Tokens
      BY <1>2, Zenon DEF Proved, Request
    <2>2. proof[t].status = "authorized" /\ used[t] = 0
      BY <1>2, <2>1 DEF Proved, ProofsFresh
    <2>3. proof' = [proof EXCEPT ![t].status = "consumed"] /\ used' = [used EXCEPT ![t] = @ + 1]
      BY <1>2, Zenon DEF Consumed
    <2>4. proof' \in [Tokens -> Proof] /\ used' \in [Tokens -> Nat]
      BY <2>1, <2>3 DEF Proof
    <2>5. ASSUME NEW u \in Tokens
          PROVE  /\ used'[u] <= 1
                 /\ proof'[u].status \in {"open", "authorized"} => used'[u] = 0
      <3>1. CASE u = t
        BY <2>1, <2>2, <2>3, <3>1 DEF Proof
      <3>2. CASE u # t
        BY <2>1, <2>3, <3>2, Zenon DEF ProofsFresh
      <3> QED
        BY <3>1, <3>2, Zenon
    <2> QED
      BY <2>4, <2>5, Zenon DEF ProofsFresh
  <1> QED
    BY <1>1, <1>2, Zenon

\* Every step keeps the invariant.
LEMMA NextIInv == IInv /\ [Next]_vars => IInv'
  <1> SUFFICES ASSUME IInv, [Next]_vars PROVE IInv'
    BY Zenon
  <1> USE DEF IInv
  <1>1. CASE UNCHANGED vars
    BY <1>1, Zenon DEF vars, TypeOK, ProofsFresh, EmittedWhenDeleted, NothingLeft
  <1>2. CASE Tick
    BY <1>2 DEF Tick, TypeOK, ProofsFresh, EmittedWhenDeleted, NothingLeft
  <1>3. ASSUME NEW g \in Graces, SetDeletionPolicy(g) PROVE IInv'
    BY <1>3, Zenon DEF SetDeletionPolicy, TypeOK, ProofsFresh, EmittedWhenDeleted, NothingLeft
  <1>4. CASE SignIn
    BY <1>4, UserMeansLive, Zenon DEF SignIn, TypeOK, ProofsFresh, EmittedWhenDeleted, NothingLeft
  <1>5. ASSUME NEW p \in Passwords, ChangePassword(p) \/ ResetPassword(p) PROVE IInv'
    BY <1>5, UserMeansLive, Zenon
       DEF ChangePassword, ResetPassword, TypeOK, ProofsFresh, EmittedWhenDeleted, NothingLeft
  <1>6. CASE EnrollFactor \/ RemoveFactor
    BY <1>6, UserMeansLive, Zenon
       DEF EnrollFactor, RemoveFactor, TypeOK, ProofsFresh, EmittedWhenDeleted, NothingLeft
  <1>7. CASE AdminDelete
    BY <1>7, Zenon DEF AdminDelete, TypeOK, ProofsFresh, EmittedWhenDeleted, NothingLeft
  <1>8. ASSUME NEW r \in Requests, NEW action \in Actions, NEW t \in Tokens \cup {None},
               Check(r, action, t)
        PROVE  IInv'
    <2>1. req' \in [Requests -> Request]
      BY <1>8, Zenon DEF Check, TypeOK, Request
    <2> QED
      BY <1>8, <2>1, Zenon DEF Check, TypeOK, ProofsFresh, EmittedWhenDeleted, NothingLeft
  <1>9. ASSUME NEW r \in Requests, NEW t \in Tokens, StepUp(r, t) PROVE IInv'
    <2>1. proof' \in [Tokens -> Proof] /\ req' \in [Requests -> Request]
      BY <1>9, DeletionAssumption, Zenon DEF StepUp, TypeOK, Proof, Request, Idle, Actions
    <2>2. ProofsFresh'
      BY <1>9, Zenon DEF StepUp, TypeOK, ProofsFresh
    <2>3. NothingLeft' /\ EmittedWhenDeleted'
      BY <1>9, UserMeansLive, Zenon DEF StepUp, EmittedWhenDeleted, NothingLeft
    <2> QED
      BY <1>9, <2>1, <2>2, <2>3, Zenon DEF StepUp, TypeOK
  <1>10. ASSUME NEW t \in Tokens, Authorize(t) PROVE IInv'
    <2>1. proof' \in [Tokens -> Proof]
      BY <1>10, Zenon DEF Authorize, TypeOK, Proof
    <2>2. ProofsFresh'
      BY <1>10, Zenon DEF Authorize, TypeOK, Proof, ProofsFresh
    <2>3. NothingLeft' /\ EmittedWhenDeleted'
      BY <1>10, UserMeansLive, Zenon DEF Authorize, EmittedWhenDeleted, NothingLeft
    <2> QED
      BY <1>10, <2>1, <2>2, <2>3, Zenon DEF Authorize, TypeOK
  <1>11. ASSUME NEW r \in Requests, Mutate(r) PROVE IInv'
    <2>1. req' \in [Requests -> Request]
      BY <1>11, Zenon DEF Mutate, TypeOK, Request, Idle, Actions
    <2>2. CASE user /\ Recheck(r) /\ Access /\ Due(req[r].action) /\ Proved(r)
      <3>1. rec' = Changed(req[r].action) /\ req[r].action \in Actions /\ req[r].at = "checked"
        BY <1>11, <2>2, Zenon DEF Mutate, TypeOK, Request
      <3>2. rec' \in Record /\ rec'.status # "deleted" /\ rec.status # "deleted"
        BY <2>2, <3>1, ChangedType, UserMeansLive, Zenon
      <3>3. proof' \in [Tokens -> Proof] /\ used' \in [Tokens -> Nat] /\ ProofsFresh'
        BY <1>11, <2>2, <3>1, ConsumeKeeps, Zenon DEF Mutate
      <3> QED
        BY <1>11, <2>1, <3>2, <3>3, Zenon DEF Mutate, TypeOK, EmittedWhenDeleted, NothingLeft
    <2>3. CASE ~(user /\ Recheck(r) /\ Access /\ Due(req[r].action) /\ Proved(r))
      BY <1>11, <2>1, <2>3, Zenon DEF Mutate, TypeOK, ProofsFresh, EmittedWhenDeleted, NothingLeft
    <2> QED
      BY <2>2, <2>3, Zenon
  <1>12. ASSUME NEW r \in Requests, Drop(r) PROVE IInv'
    <2>1. req' \in [Requests -> Request]
      BY <1>12, Zenon DEF Drop, TypeOK, Request, Idle, Actions
    <2> QED
      BY <1>12, <2>1, Zenon DEF Drop, TypeOK, ProofsFresh, EmittedWhenDeleted, NothingLeft
  <1>13. ASSUME NEW id \in 1..MaxIds, CancelById(id) PROVE IInv'
    <2>1. rec' \in Record /\ rec'.status # "deleted" /\ rec.status # "deleted"
      BY <1>13, ChangedType, UserMeansLive, Zenon DEF CancelById, Cancellable, Actions
    <2> QED
      BY <1>13, <2>1, Zenon DEF CancelById, TypeOK, ProofsFresh, EmittedWhenDeleted, NothingLeft
  <1>14. ASSUME NEW w \in Workers, Scan(w) \/ Fail(w) PROVE IInv'
    BY <1>14 DEF Scan, Fail, TypeOK, ProofsFresh, EmittedWhenDeleted, NothingLeft
  <1>15. ASSUME NEW w \in Workers, Finish(w) PROVE IInv'
    <2>1. CASE StillDue
      <3>1. rec.status = "pending" /\ rec' = [rec EXCEPT !.status = "deleted"]
        BY <1>15, <2>1, Zenon DEF Finish, StillDue, Overdue
      <3>2. rec' \in Record /\ rec'.status = "deleted"
        BY <3>1, Zenon DEF TypeOK, Record
      <3>3. proof' \in [Tokens -> Proof] /\ \A t \in Tokens : proof'[t].status = "none"
        BY <1>15, <2>1 DEF Finish, Purge, NoProof, Proof, Actions
      <3>4. TypeOK'
        <4>1. /\ user' = FALSE /\ session' = FALSE /\ password' = None /\ factor' = FALSE
              /\ finished' = finished + 1 /\ scanned' = scanned \ {w}
              /\ UNCHANGED <<now, grace, req, used>>
          BY <1>15, <2>1, Zenon DEF Finish, Purge
        <4>2. user' \in BOOLEAN /\ session' \in BOOLEAN /\ factor' \in BOOLEAN
          BY <4>1, Zenon
        <4>3. /\ now' \in Nat /\ grace' \in Graces /\ finished' \in Nat
              /\ password' \in Passwords \cup {None} /\ scanned' \in SUBSET Workers
              /\ req' \in [Requests -> Request] /\ used' \in [Tokens -> Nat]
          BY <4>1 DEF TypeOK
        <4> QED
          BY <4>2, <4>3, <3>2, <3>3, Zenon DEF TypeOK
      <3>5. ProofsFresh'
        BY <1>15, <3>3, Zenon DEF Finish, ProofsFresh
      <3>6. EmittedWhenDeleted' /\ NothingLeft'
        BY <1>15, <2>1, <3>1, <3>2, <3>3
        DEF Finish, Purge, EmittedWhenDeleted, NothingLeft, TypeOK
      <3> QED
        BY <3>4, <3>5, <3>6, Zenon
    <2>2. CASE ~StillDue
      BY <1>15, <2>2 DEF Finish, TypeOK, ProofsFresh, EmittedWhenDeleted, NothingLeft
    <2> QED
      BY <2>1, <2>2, Zenon
  <1> QED
    BY <1>1, <1>2, <1>3, <1>4, <1>5, <1>6, <1>7, <1>8, <1>9, <1>10, <1>11, <1>12, <1>13,
       <1>14, <1>15, Zenon DEF Next

\* The invariant holds in every reachable state.
THEOREM Invariance == Spec => []IInv
  BY InitIInv, NextIInv, PTL DEF Spec

\* For any number of workers, the event user.deleted is emitted by at most one of
\* them (finishDeletion looks at the status again under the lock).
THEOREM DeletedOnce == Spec => []FinishedOnce
  <1>1. IInv => FinishedOnce
    BY DEF IInv, EmittedWhenDeleted, FinishedOnce
  <1> QED
    BY <1>1, Invariance, PTL

\* Nothing of the account is left once its record says deleted, whatever requests
\* were under way (purgeDeletedAccount).
THEOREM PurgeIsComplete == Spec => []NothingLeft
  <1>1. IInv => NothingLeft
    BY Zenon DEF IInv
  <1> QED
    BY <1>1, Invariance, PTL

\* A proof authorises at most one change (consumeDeletionProof).
THEOREM ProofIsSpent == Spec => []ProofUsedOnce
  <1>1. IInv => ProofUsedOnce
    BY Zenon DEF IInv, ProofsFresh, ProofUsedOnce
  <1> QED
    BY <1>1, Invariance, PTL

\* Every step of the service is a step of the promise, or leaves clock and record
\* alone: MutateDeletion and the cancellations schedule and cancel before the
\* deadline, finishDeletion carries out from the deadline on.
LEMMA StepKeepsPromise == IInv /\ [Next]_vars => [P!Next]_<<now, rec>>
  <1> SUFFICES ASSUME IInv, [Next]_vars, ~UNCHANGED <<now, rec>> PROVE P!Next
    BY Zenon
  <1> USE DEF IInv
  <1>1. CASE Tick
    BY <1>1 DEF Tick, TypeOK, P!Next, P!Wait
  <1>2. ASSUME NEW r \in Requests, Mutate(r) PROVE P!Next
    <2>1. user /\ Access /\ Due(req[r].action) /\ rec' = Changed(req[r].action) /\ now' = now
      BY <1>2, Zenon DEF Mutate
    <2>2. rec.status # "deleted"
      BY <2>1, UserMeansLive, Zenon
    <2>3. CASE req[r].action = "request"
      <3>1. rec' = [status |-> "pending", id |-> rec.id + 1, at |-> now + grace]
        BY <2>1, <2>3, Zenon DEF Changed
      <3>2. rec.status \in {"none", "cancelled"}
        BY <2>1, <2>2, <2>3, Zenon DEF Due, TypeOK, Record
      <3>3. now + grace > now
        BY DeletionAssumption DEF TypeOK
      <3> QED
        BY <2>1, <3>1, <3>2, <3>3 DEF P!Next, P!Schedule
    <2>4. CASE req[r].action = "cancel"
      <3>1. rec.status = "pending" /\ rec' = [rec EXCEPT !.status = "cancelled"]
        BY <2>1, <2>4, Zenon DEF Due, Changed
      <3>2. now < rec.at
        BY <2>1, <3>1 DEF Access, TypeOK, Record
      <3> QED
        BY <2>1, <3>1, <3>2, Zenon DEF P!Next, P!Cancel
    <2> QED
      BY <2>3, <2>4, Zenon DEF TypeOK, Request, Actions
  <1>3. ASSUME NEW id \in 1..MaxIds, CancelById(id) PROVE P!Next
    BY <1>3, Zenon DEF CancelById, Cancellable, Changed, P!Next, P!Cancel
  <1>4. ASSUME NEW w \in Workers, Finish(w) PROVE P!Next
    BY <1>4, Zenon DEF Finish, StillDue, Overdue, P!Next, P!CarryOut
  <1> QED
    BY <1>1, <1>2, <1>3, <1>4, Zenon
       DEF Next, vars, SetDeletionPolicy, SignIn, ChangePassword, ResetPassword, EnrollFactor,
        RemoveFactor, AdminDelete, Check, StepUp, Authorize, Drop, Scan, Fail

\* The service implements the promise: for any number of concurrent requests and
\* workers the deadline of a request is fixed, cancellation comes before it and
\* execution not before it.
THEOREM ImplementsPromise == Spec => KeepsPromise
  <1>1. Init => P!Init
    BY Zenon DEF Init, P!Init
  <1> QED
    BY <1>1, StepKeepsPromise, Invariance, PTL DEF Spec, KeepsPromise, P!Spec

\* A request that changes the record presented the password the account has at
\* that moment, whatever changed since it was first checked
\* (recheckDeletionPassword).
THEOREM OnlyCurrentPassword == Spec => CurrentPasswordDecides
  <1> DEFINE Step == \A r \in Requests :
                req[r].at = "checked" /\ req'[r].at = "idle" /\ rec' # rec
                    => req[r].password = password
  <1>1. IInv /\ [Next]_vars => [Step]_vars
    <2> SUFFICES ASSUME IInv, Next, NEW r \in Requests,
                        req[r].at = "checked", req'[r].at = "idle", rec' # rec
                 PROVE  req[r].password = password
      BY Zenon
    <2>1. ASSUME NEW q \in Requests, Mutate(q) PROVE req[r].password = password
      <3>1. q = r
        BY <2>1, Zenon DEF Mutate, IInv, TypeOK
      <3> QED
        BY <2>1, <3>1, Zenon DEF Mutate, Recheck
    <2> QED
      BY <2>1, Zenon
         DEF Next, Tick, SetDeletionPolicy, SignIn, ChangePassword, ResetPassword, EnrollFactor,
          RemoveFactor, AdminDelete, Check, StepUp, Authorize, Drop, CancelById, Scan, Fail,
          Finish
  <1> QED
    BY <1>1, Invariance, PTL DEF Spec, CurrentPasswordDecides
=============================================================================
