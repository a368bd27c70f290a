-------------------------------- MODULE Jobs --------------------------------
(***************************************************************************)
(* Background jobs: imports of users, exports of one person's data and of  *)
(* the audit log, the worker of every replica that runs them, cancellation *)
(* by an administrator, and the deletion of the person.                    *)
(*                                                                         *)
(* A worker claims a job in one statement, works on it in as many          *)
(* transactions as it takes and writes the outcome in one statement; the   *)
(* process may stop in between, and the last write may fail.  Jobs are     *)
(* numbered as they are created.  The subject of every export is the same  *)
(* person; of an import's rows only the address matters, and a row may     *)
(* fail for reasons of its own.                                            *)
(***************************************************************************)
EXTENDS Integers, Sequences

CONSTANTS
    Runners,    \* replicas running RunJobsWorker
    Emails,
    Imports,    \* lists of addresses to import
    MaxJobs     \* bound on the jobs created

Jobs == 1..MaxJobs
Kinds == {"import_users", "audit_export", "data_export"}
Statuses == {"none", "pending", "running", "completed", "failed", "cancelled"}

ASSUME JobsAssumption ==
    MaxJobs \in Nat /\ Imports \subseteq Seq(Emails)

VARIABLES
    count,              \* jobs created
    status, kind, list, \* rows of iam_jobs
    owned,              \* the data of the row names the person outside its spec
    tally,              \* processed and failed rows in the result
    job,                \* the job each worker runs, 0 for none
    next, done, bad,    \* its place in the list and what it has counted
    read,               \* what an export has read: nothing, its data, or an error
    users,              \* addresses that have an account
    person,             \* the person whose data is exported has an account
    purged,             \* the deletion worker has removed what it left
    runs, made, lost    \* what happened to each job: claims, accounts created, its outcome lost

rows == <<count, status, kind, list, owned, tally>>
runners == <<job, next, done, bad, read>>
ghosts == <<runs, made, lost>>
jobsVars == <<rows, runners, users, person, purged, ghosts>>

\* Rows, workers and counters keep their types.
JobsTypeOK ==
    /\ count \in 0..MaxJobs /\ status \in [Jobs -> Statuses] /\ kind \in [Jobs -> Kinds]
    /\ list \in [Jobs -> Seq(Emails)] /\ owned \in [Jobs -> BOOLEAN]
    /\ tally \in [Jobs -> [processed : Nat, failed : Nat]]
    /\ job \in [Runners -> 0..MaxJobs] /\ next \in [Runners -> Nat]
    /\ done \in [Runners -> Nat] /\ bad \in [Runners -> Nat]
    /\ read \in [Runners -> {"nothing", "data", "error"}]
    /\ users \subseteq Emails /\ person \in BOOLEAN /\ purged \in BOOLEAN
    /\ runs \in [Jobs -> Nat] /\ made \in [Jobs -> Nat] /\ lost \in [Jobs -> BOOLEAN]

NoTally == [processed |-> 0, failed |-> 0]

JobsInit ==
    /\ count = 0 /\ status = [j \in Jobs |-> "none"] /\ kind = [j \in Jobs |-> "audit_export"]
    /\ list = [j \in Jobs |-> <<>>] /\ owned = [j \in Jobs |-> FALSE] /\ tally = [j \in Jobs |-> NoTally]
    /\ job = [w \in Runners |-> 0] /\ next = [w \in Runners |-> 1] /\ done = [w \in Runners |-> 0]
    /\ bad = [w \in Runners |-> 0] /\ read = [w \in Runners |-> "nothing"]
    /\ users = {} /\ person = TRUE /\ purged = FALSE
    /\ runs = [j \in Jobs |-> 0] /\ made = [j \in Jobs |-> 0] /\ lost = [j \in Jobs |-> FALSE]

-----------------------------------------------------------------------------
(* Administrators and users *)

\* A row is inserted as pending.
Insert(k, l, o) ==
    /\ count < MaxJobs /\ count' = count + 1
    /\ status' = [status EXCEPT ![count + 1] = "pending"] /\ kind' = [kind EXCEPT ![count + 1] = k]
    /\ list' = [list EXCEPT ![count + 1] = l] /\ owned' = [owned EXCEPT ![count + 1] = o]
    /\ UNCHANGED <<tally, runners, users, person, purged, ghosts>>

CreateImportUsers(l) == Insert("import_users", l, FALSE)

CreateAuditExport == Insert("audit_export", <<>>, FALSE)

\* StartExport, and Export for an administrator: the data names the person beside the spec.
StartExport == person /\ Insert("data_export", <<>>, TRUE)

Cancel(j) ==
    /\ status[j] \in {"pending", "running"} /\ status' = [status EXCEPT ![j] = "cancelled"]
    /\ UNCHANGED <<count, kind, list, owned, tally, runners, users, person, purged, ghosts>>

\* Somebody else takes the address.
SignUp(e) ==
    /\ e \notin users /\ users' = users \cup {e}
    /\ UNCHANGED <<rows, runners, person, purged, ghosts>>

\* Delete of an administrator leaves the jobs alone.
DeletePerson ==
    /\ person /\ person' = FALSE
    /\ UNCHANGED <<rows, runners, users, purged, ghosts>>

\* Mutant: only jobs that have not begun are removed.
OwnedPending(j) == owned[j] /\ status[j] = "pending"

\* The jobs purgeDeletionEnvelopes finds.
OwnedBy(j) == owned[j]

\* finishDeletion
PurgeExports ==
    /\ ~purged /\ purged' = TRUE /\ person' = FALSE
    /\ status' = [j \in Jobs |-> IF OwnedBy(j) THEN "none" ELSE status[j]]
    /\ owned' = [j \in Jobs |-> FALSE]
    /\ UNCHANGED <<count, kind, list, tally, runners, users, ghosts>>

-----------------------------------------------------------------------------
(* The worker *)

\* Mutant: jobs left running are taken over, without asking whether anyone runs them.
Reclaimable(j) == status[j] \in {"pending", "running"} /\ \A i \in 1..(j - 1) : status[i] # "pending"

\* Mutant: nobody claims while a job is running.
ClaimableAlone(j) ==
    /\ status[j] = "pending" /\ \A i \in 1..(j - 1) : status[i] # "pending"
    /\ \A i \in Jobs : status[i] # "running"

\* The oldest pending row.
Claimable(j) == status[j] = "pending" /\ \A i \in 1..(j - 1) : status[i] # "pending"

\* drainOneJob: the claim
Claim(w, j) ==
    /\ job[w] = 0 /\ Claimable(j)
    /\ status' = [status EXCEPT ![j] = "running"] /\ job' = [job EXCEPT ![w] = j]
    /\ next' = [next EXCEPT ![w] = 1] /\ done' = [done EXCEPT ![w] = 0] /\ bad' = [bad EXCEPT ![w] = 0]
    /\ read' = [read EXCEPT ![w] = "nothing"] /\ runs' = [runs EXCEPT ![j] = @ + 1]
    /\ UNCHANGED <<count, kind, list, owned, tally, users, person, purged, made, lost>>

Importing(w) == job[w] # 0 /\ kind[job[w]] = "import_users" /\ next[w] <= Len(list[job[w]])

\* importOneUser and the count of it in processImportUsers
ImportRow(w) ==
    LET e == list[job[w]][next[w]]
    IN  /\ Importing(w) /\ e \notin users /\ users' = users \cup {e}
        /\ done' = [done EXCEPT ![w] = @ + 1] /\ next' = [next EXCEPT ![w] = @ + 1]
        /\ made' = [made EXCEPT ![job[w]] = @ + 1]
        /\ UNCHANGED <<rows, job, bad, read, person, purged, runs, lost>>

\* Mutant: an address that has an account counts as imported.
FailRowCounted(w) ==
    /\ Importing(w)
    /\ done' = [done EXCEPT ![w] = @ + 1] /\ next' = [next EXCEPT ![w] = @ + 1]
    /\ UNCHANGED <<rows, job, bad, read, users, person, purged, ghosts>>

\* The row is refused: an address that has an account, or another error.
FailRow(w) ==
    /\ Importing(w)
    /\ bad' = [bad EXCEPT ![w] = @ + 1] /\ next' = [next EXCEPT ![w] = @ + 1]
    /\ UNCHANGED <<rows, job, done, read, users, person, purged, ghosts>>

\* processAuditExport, and processDataExport, whose first query needs the person's row;
\* any query may fail.
Read(w) ==
    /\ job[w] # 0 /\ kind[job[w]] # "import_users" /\ read[w] = "nothing"
    /\ \E r \in {"data", "error"} :
        /\ r = "data" /\ kind[job[w]] = "data_export" => person
        /\ read' = [read EXCEPT ![w] = r]
    /\ UNCHANGED <<rows, job, next, done, bad, users, person, purged, ghosts>>

\* The worker is through with its job.
Processed(w) ==
    /\ job[w] # 0 /\ ~Importing(w)
    /\ kind[job[w]] # "import_users" => read[w] # "nothing"

\* Mutant: the outcome is written whatever became of the job.
StillThere(j) == status[j] # "none"

StillRunning(j) == status[j] = "running"

\* finishJob: the data becomes spec and result, and only they.
FinishJob(w) ==
    LET j == job[w]
    IN  /\ Processed(w) /\ job' = [job EXCEPT ![w] = 0]
        /\ \/ /\ StillRunning(j)
              /\ status' = [status EXCEPT ![j] = IF read[w] = "error" THEN "failed" ELSE "completed"]
              /\ tally' = [tally EXCEPT ![j] = [processed |-> done[w], failed |-> bad[w]]]
              /\ owned' = [owned EXCEPT ![j] = FALSE]
           \/ ~StillRunning(j) /\ UNCHANGED <<status, tally, owned>>
        /\ UNCHANGED <<count, kind, list, next, done, bad, read, users, person, purged, ghosts>>

\* The process stops, or the write of the outcome fails.
Lose(w) ==
    /\ job[w] # 0
    /\ job' = [job EXCEPT ![w] = 0] /\ lost' = [lost EXCEPT ![job[w]] = TRUE]
    /\ UNCHANGED <<rows, next, done, bad, read, users, person, purged, runs, made>>

Work(w) == ImportRow(w) \/ FailRow(w) \/ Read(w) \/ FinishJob(w)

JobsNext ==
    \/ \E l \in Imports : CreateImportUsers(l)
    \/ CreateAuditExport \/ StartExport
    \/ \E j \in Jobs : Cancel(j)
    \/ \E e \in Emails : SignUp(e)
    \/ DeletePerson \/ PurgeExports
    \/ \E w \in Runners : (\E j \in Jobs : Claim(w, j)) \/ Work(w) \/ Lose(w)

\* Every replica polls, and works until its queue is empty (RunJobsWorker).
JobsFairness == \A w \in Runners : WF_jobsVars(\E j \in Jobs : Claim(w, j)) /\ WF_jobsVars(Work(w))

JobsSpec == JobsInit /\ [][JobsNext]_jobsVars /\ JobsFairness

-----------------------------------------------------------------------------
(* Properties *)

\* No job is run twice, by whatever replicas and after whatever crash (drainOneJob).
RunsOnce == \A j \in Jobs : runs[j] <= 1

\* A completed import accounts for every row: what it says it imported are the accounts
\* it created, the rest are failures (processImportUsers, finishJob).
TallyIsTrue ==
    \A j \in Jobs : kind[j] = "import_users" /\ status[j] = "completed"
                    => /\ tally[j].processed = made[j]
                       /\ tally[j].processed + tally[j].failed = Len(list[j])

\* How a job ended stays: an outcome written late does not undo a cancellation, and
\* cancelling a job that has ended changes nothing (Cancel, finishJob).
EndingStands ==
    [][\A j \in Jobs : status[j] \in {"completed", "failed", "cancelled"}
                       => status'[j] \in {status[j], "none"}]_jobsVars

\* Once the deletion worker is through with the person no export of their data is
\* completed, even if it had been read before (purgeDeletionEnvelopes, finishJob).
NoExportAfterPurge ==
    [][purged => \A j \in Jobs : kind[j] = "data_export" /\ status'[j] = "completed"
                                 => status[j] = "completed"]_jobsVars

\* A job that was created ends, unless the replica that ran it lost its outcome; one
\* lost job does not hold up the others (RunJobsWorker).
JobsSettle ==
    \A j \in Jobs : status[j] = "pending" ~> status[j] \notin {"pending", "running"} \/ lost[j]
=============================================================================
