------------------------------ MODULE Webhooks ------------------------------
(***************************************************************************)
(* Delivery of public events to webhooks: the outbox relay that publishes  *)
(* an event, the retry workers (one on every replica) that drain failed    *)
(* deliveries, and the admin operations that retry, replay and test.       *)
(*                                                                         *)
(* deliver() reads the delivery row, sends the request and writes the      *)
(* outcome with statements of their own, and nothing locks the row in      *)
(* between: Attempt is the read and the send, Record the write.            *)
(*                                                                         *)
(* The relay (pg-outbox) is external: it hands a message to one replica at *)
(* a time, and hands it out again when the publisher failed or died, up to *)
(* a number of times.  Secrets, signatures and payloads are left out.      *)
(***************************************************************************)
EXTENDS Integers, FiniteSets, Sequences, Functions

CONSTANTS
    NHooks,         \* webhooks, numbered in the order of their creation
    NEvents,        \* events, numbered in the order they are emitted
    Relays,         \* replicas publishing from the outbox
    Retriers,       \* replicas running RunRetryWorker
    Admins,         \* admin requests
    MaxAttempts,    \* webhookMaxDeliveryAttempts
    OutboxAttempts, \* outboxMaxAttempts
    Batch,          \* webhookRetryBatch
    MaxTrouble,     \* bound on the admin requests and the replicas that die
    MaxQueued,      \* bound on the messages in the outbox
    Most,           \* bound on the webhooks and events together
    Few             \* bound on them where there is any of that trouble, or
                    \* updates and deletions of webhooks

ASSUME WebhooksAssumption ==
    /\ MaxAttempts \in Nat \ {0} /\ OutboxAttempts \in Nat \ {0} /\ Batch \in Nat \ {0}
    /\ NHooks \in Nat /\ NEvents \in Nat
    /\ MaxTrouble \in Nat /\ MaxQueued \in Nat /\ Most \in Nat /\ Few \in Nat

Workers == Relays \cup Retriers \cup Admins
Hooks == 1..NHooks
Events == 1..NEvents
Deliveries == Hooks \X Events

VARIABLES
    hook,       \* iam_webhooks: not yet created, enabled, disabled, deleted
    event,      \* iam_events
    outbox,     \* the relay's message and how often publishing it failed
    row,        \* iam_webhook_deliveries, unique by webhook and event
    due,        \* the rows whose next_attempt_at has passed, earliest first
    work,       \* the pass each worker is in the middle of
    trouble,
    steady,     \* webhooks enabled ever since the event was emitted
    accepted,   \* deliveries some request of which was answered 2xx
    confirmed,  \* deliveries recorded as succeeded, and not forced again since
    resent,     \* confirmed deliveries sent again by the relay or a retrier
    muddled     \* deliveries two workers attempted at once, or one died in;
                \* what is said above is given up for them

tables == <<hook, event, outbox, row, due>>
ghosts == <<steady, accepted, confirmed, resent, muddled>>
vars == <<tables, work, trouble, ghosts>>

NoDelivery == [status |-> "none", count |-> 0, next |-> FALSE]
Pass == [at |-> "next", msg |-> {}, todo |-> {}, ensure |-> FALSE, force |-> FALSE,
         err |-> FALSE, cur |-> <<>>, read |-> 0, ok |-> FALSE]
Idle == [Pass EXCEPT !.at = "idle"]

TypeOK ==
    /\ hook \in [Hooks -> {"new", "on", "off", "deleted"}]
    /\ event \in [Events -> {"none", "archived", "published", "swept"}]
    /\ outbox \in [Events -> [at : {"none", "queued", "claimed", "done", "dead"},
                              tries : 0..OutboxAttempts]]
    /\ row \in [Deliveries -> [status : {"none", "pending", "failed", "succeeded"},
                               count : Nat, next : BOOLEAN]]
    /\ due \in Seq(Deliveries) /\ IsInjective(due)
    /\ \A d \in Range(due) : row[d].status = "failed" /\ row[d].next
    /\ work \in [Workers -> [at : {"idle", "next", "record"}, msg : SUBSET Events,
                             todo : SUBSET Deliveries, ensure : BOOLEAN, force : BOOLEAN,
                             err : BOOLEAN, cur : Deliveries \cup {<<>>}, read : Nat,
                             ok : BOOLEAN]]
    /\ trouble \in 0..MaxTrouble
    /\ steady \in [Events -> SUBSET Hooks]
    /\ UNION {accepted, confirmed, resent, muddled} \subseteq Deliveries

Init ==
    /\ \E n \in 0..NHooks : hook = [h \in Hooks |-> IF h <= n THEN "on" ELSE "new"]
    /\ event = [e \in Events |-> "none"]
    /\ outbox = [e \in Events |-> [at |-> "none", tries |-> 0]]
    /\ row = [d \in Deliveries |-> NoDelivery] /\ due = <<>>
    /\ work = [w \in Workers |-> Idle] /\ trouble = 0
    /\ steady = [e \in Events |-> {}]
    /\ accepted = {} /\ confirmed = {} /\ resent = {} /\ muddled = {}

Enabled == {h \in Hooks : hook[h] = "on"}
Exists(h) == hook[h] \in {"on", "off"}
Stored(e) == event[e] \in {"archived", "published"}
Created == {h \in Hooks : hook[h] # "new"}
Seen == {e \in Events : event[e] # "none" \/ outbox[e].at # "none"}
Without(d) == SelectSeq(due, LAMBDA x : x # d)

\* Bounds: the disturbances happen among few webhooks and events.
Size == Cardinality(Created) + Cardinality(Seen)
MayGrow ==
    /\ Size < Most
    /\ Size < Few \/ (trouble = 0 /\ "deleted" \notin Range(hook))

-----------------------------------------------------------------------------
(* Webhooks and events *)

Create(h, state) ==
    /\ h = Cardinality(Created) + 1
    /\ MayGrow                                              \* bound
    /\ hook' = [hook EXCEPT ![h] = state]
    /\ UNCHANGED <<event, outbox, row, due, work, trouble, ghosts>>

\* Update, as far as it enables or disables the webhook.
Update(h) ==
    /\ Size <= Few                                          \* bound
    /\ Exists(h) /\ hook' = [hook EXCEPT ![h] = IF @ = "on" THEN "off" ELSE "on"]
    /\ steady' = [e \in Events |-> steady[e] \ {h}]
    /\ UNCHANGED <<event, outbox, row, due, work, trouble,
                   accepted, confirmed, resent, muddled>>

\* Delete: the webhook and its deliveries, in one transaction.
Delete(h) ==
    /\ Size <= Few                                          \* bound
    /\ Exists(h) /\ hook' = [hook EXCEPT ![h] = "deleted"]
    /\ row' = [d \in Deliveries |-> IF d[1] = h THEN NoDelivery ELSE row[d]]
    /\ due' = SelectSeq(due, LAMBDA d : d[1] # h)
    /\ steady' = [e \in Events |-> steady[e] \ {h}]
    /\ confirmed' = {d \in confirmed : d[1] # h}
    /\ UNCHANGED <<event, outbox, work, trouble, accepted, resent, muddled>>

\* A transaction that emits a public event commits its outbox message.
Emit(e) ==
    /\ e \notin Seen /\ 1..(e - 1) \subseteq Seen
    /\ MayGrow                                              \* bound
    /\ Cardinality({o \in Events : outbox[o].at \in {"queued", "claimed"}}) < MaxQueued   \* bound
    /\ outbox' = [outbox EXCEPT ![e].at = "queued"]
    /\ steady' = [steady EXCEPT ![e] = Enabled]
    /\ UNCHANGED <<hook, event, row, due, work, trouble,
                   accepted, confirmed, resent, muddled>>

\* gcRetentionSweep deletes the archived event once it is old enough.
SweepEvent(e) ==
    /\ Stored(e) /\ event' = [event EXCEPT ![e] = "swept"]
    /\ UNCHANGED <<hook, outbox, row, due, work, trouble, ghosts>>

-----------------------------------------------------------------------------
(* Passes of the relay, of a retry worker and of an admin request *)

Archived(e) == [event EXCEPT ![e] = IF Stored(e) THEN @ ELSE "archived"]

\* PublishEvent: archiveEvent, then enabledForEvent.
Publish(w, e) ==
    /\ work[w] = Idle /\ outbox[e].at = "queued"
    /\ outbox' = [outbox EXCEPT ![e].at = "claimed"]
    /\ event' = Archived(e)
    /\ work' = [work EXCEPT ![w] =
                 [Pass EXCEPT !.msg = {e}, !.todo = Enabled \X {e}, !.ensure = TRUE]]
    /\ UNCHANGED <<hook, row, due, trouble, ghosts>>

\* drainDueDeliveries: the first of the due rows that are below the limit.
Scan(w) ==
    /\ work[w] = Idle
    /\ LET open  == SelectSeq(due, LAMBDA d : row[d].count < MaxAttempts)
           found == SubSeq(open, 1, IF Len(open) < Batch THEN Len(open) ELSE Batch)
       IN  /\ found # <<>>
           /\ work' = [work EXCEPT ![w] = [Pass EXCEPT !.todo = Range(found)]]
    /\ UNCHANGED <<tables, trouble, ghosts>>

Manually(w, todo, ensure) ==
    /\ trouble < MaxTrouble /\ Size <= Few                   \* bounds
    /\ work[w] = Idle
    /\ trouble' = trouble + 1
    /\ work' = [work EXCEPT ![w] =
                 [Pass EXCEPT !.todo = todo, !.ensure = ensure, !.force = TRUE]]

\* RetryDelivery: the row goes back to pending and loses its next_attempt_at.
RetryDelivery(w, d) ==
    /\ row[d].status # "none" /\ Stored(d[2]) /\ Manually(w, {d}, FALSE)
    /\ row' = [row EXCEPT ![d].status = "pending", ![d].next = FALSE]
    /\ due' = Without(d) /\ confirmed' = confirmed \ {d}
    /\ UNCHANGED <<hook, event, outbox, steady, accepted, resent, muddled>>

\* ReplayEvent: to one webhook, or to all that are enabled.
ReplayEvent(w, e, hooks) ==
    /\ Stored(e)
    /\ hooks = Enabled \/ \E h \in Hooks : Exists(h) /\ hooks = {h}
    /\ Manually(w, hooks \X {e}, TRUE)
    /\ UNCHANGED <<tables, ghosts>>

\* Test: an event of its own, archived and never put in the outbox.
Test(w, h, e) ==
    /\ Exists(h) /\ e \notin Seen /\ 1..(e - 1) \subseteq Seen
    /\ Size < Few                                           \* bound
    /\ event' = Archived(e) /\ Manually(w, {<<h, e>>}, TRUE)
    /\ UNCHANGED <<hook, outbox, row, due, ghosts>>

\* An admin request gives up at the first error; the relay and the retry worker
\* go on with the rest of their pass.
Failed(pass, rest) == [pass EXCEPT !.at = "next", !.err = TRUE,
                                   !.todo = IF pass.force THEN {} ELSE rest]

\* Mutant: a succeeded delivery is sent again.
SettledNever(pass, r) == FALSE

Settled(pass, r) == r.status = "succeeded" /\ ~pass.force

\* ensureDelivery where the pass has it, then the first half of deliver: load the
\* delivery, its webhook and its event, leave a succeeded one alone, send the
\* rest.  Nothing keeps the row as it was read.
Attempt(w, d) ==
    LET pass  == work[w]
        rest  == pass.todo \ {d}
        r     == IF pass.ensure /\ row[d].status = "none"
                 THEN [row[d] EXCEPT !.status = "pending"] ELSE row[d]
        found == r.status # "none" /\ Exists(d[1]) /\ Stored(d[2])
    IN  /\ pass.at = "next" /\ d \in pass.todo
        /\ row' = [row EXCEPT ![d] = r]
        /\ \/ /\ ~found /\ work' = [work EXCEPT ![w] = Failed(pass, rest)]
              /\ UNCHANGED <<accepted, resent, muddled>>
           \/ /\ found /\ Settled(pass, r)
              /\ work' = [work EXCEPT ![w].todo = rest]
              /\ UNCHANGED <<accepted, resent, muddled>>
           \/ /\ found /\ ~Settled(pass, r)
              /\ \E ok \in BOOLEAN :
                    /\ work' = [work EXCEPT ![w] = [pass EXCEPT
                                  !.at = "record", !.todo = rest, !.cur = d,
                                  !.read = r.count, !.ok = ok]]
                    /\ accepted' = IF ok THEN accepted \cup {d} ELSE accepted
              /\ muddled' = IF \E v \in Workers : work[v].at = "record" /\ work[v].cur = d
                            THEN muddled \cup {d} ELSE muddled
              /\ resent' = IF d \in confirmed \ muddled' /\ ~pass.force
                           THEN resent \cup {d} ELSE resent
        /\ UNCHANGED <<hook, event, outbox, due, trouble, steady, confirmed>>

\* Mutant: a failed attempt is not scheduled again.
OutcomeUnscheduled(pass) ==
    IF pass.ok THEN [status |-> "succeeded", count |-> pass.read + 1, next |-> FALSE]
               ELSE [status |-> "failed", count |-> pass.read + 1, next |-> FALSE]

\* recordWebhookSuccess, recordWebhookFailure: the count that was read, plus one,
\* and the time of the next attempt after a failure.
Outcome(pass) ==
    IF pass.ok THEN [status |-> "succeeded", count |-> pass.read + 1, next |-> FALSE]
               ELSE [status |-> "failed", count |-> pass.read + 1, next |-> TRUE]

\* The second half of deliver: write the outcome, if the row is still there, and
\* read the row back.  (A row of a deleted webhook is one that ensureDelivery
\* inserted since, under another id.)
Record(w) ==
    LET pass == work[w]
        d    == pass.cur
        kept == Exists(d[1])
        done == [pass EXCEPT !.at = "next", !.cur = <<>>, !.read = 0, !.ok = FALSE]
    IN  /\ pass.at = "record"
        /\ row' = [row EXCEPT ![d] = IF kept THEN Outcome(pass) ELSE @]
        /\ due' = IF kept THEN Without(d) ELSE due
        /\ work' = [work EXCEPT ![w] = IF pass.ok /\ kept /\ Stored(d[2]) THEN done
                                       ELSE Failed(done, pass.todo)]
        /\ confirmed' = IF kept /\ pass.ok /\ d \notin muddled THEN confirmed \cup {d}
                        ELSE IF pass.force THEN confirmed \ {d} ELSE confirmed
        /\ UNCHANGED <<hook, event, outbox, trouble,
                       steady, accepted, resent, muddled>>

\* Mutant: the event counts as published whatever became of the deliveries.
PublishedAnyway(err) == TRUE

Published(err) == ~err

\* Mutant: a failed try is not counted.
AgainForever(o) == [o EXCEPT !.at = "queued"]

\* The relay offers the message again, until the limit.
Again(o) == [at |-> IF o.tries + 1 < OutboxAttempts THEN "queued" ELSE "dead",
             tries |-> o.tries + 1]

\* The pass is over.  PublishEvent marks the event, or asks for another try.
Finish(w) ==
    LET pass == work[w] IN
    /\ pass.at = "next" /\ pass.todo = {}
    /\ work' = [work EXCEPT ![w] = Idle]
    /\ event' = [e \in Events |-> IF e \in pass.msg /\ Published(pass.err) /\ Stored(e)
                                  THEN "published" ELSE event[e]]
    /\ outbox' = [e \in Events |->
          IF e \notin pass.msg THEN outbox[e]
          ELSE IF Published(pass.err) THEN [outbox[e] EXCEPT !.at = "done"]
          ELSE Again(outbox[e])]
    /\ UNCHANGED <<hook, row, due, trouble, ghosts>>

\* A replica dies, or a request is cancelled, in the middle of its pass.
Crash(w) ==
    /\ work[w] # Idle
    /\ \/ w \in Admins /\ UNCHANGED trouble
       \/ trouble < MaxTrouble /\ Size <= Few /\ trouble' = trouble + 1      \* bounds
    /\ work' = [work EXCEPT ![w] = Idle]
    /\ outbox' = [e \in Events |-> IF e \in work[w].msg THEN [outbox[e] EXCEPT !.at = "queued"]
                                                       ELSE outbox[e]]
    /\ muddled' = IF work[w].at = "record" THEN muddled \cup {work[w].cur} ELSE muddled
    /\ UNCHANGED <<hook, event, row, due, steady, accepted, confirmed, resent>>

\* The clock passes a delivery's next_attempt_at.
Elapse(d) ==
    /\ row[d].next /\ d \notin Range(due) /\ due' = Append(due, d)
    /\ UNCHANGED <<hook, event, outbox, row, work, trouble, ghosts>>

Next ==
    \/ \E h \in Hooks, state \in {"on", "off"} : Create(h, state)
    \/ \E h \in Hooks : Update(h) \/ Delete(h)
    \/ \E e \in Events : Emit(e) \/ SweepEvent(e)
    \/ \E w \in Relays, e \in Events : Publish(w, e)
    \/ \E w \in Retriers : Scan(w)
    \/ \E w \in Admins, d \in Deliveries : RetryDelivery(w, d)
    \/ \E w \in Admins, e \in Events, hooks \in SUBSET Hooks : ReplayEvent(w, e, hooks)
    \/ \E w \in Admins, h \in Hooks, e \in Events : Test(w, h, e)
    \/ \E w \in Workers, d \in Deliveries : Attempt(w, d)
    \/ \E w \in Workers : Record(w) \/ Finish(w) \/ Crash(w)
    \/ \E d \in Deliveries : Elapse(d)

Go(w) ==
    \/ w \in Relays /\ \E e \in Events : Publish(w, e)
    \/ w \in Retriers /\ Scan(w)
    \/ (\E d \in Deliveries : Attempt(w, d)) \/ Record(w) \/ Finish(w)

\* RunRetryWorker and the relay loop for as long as the process runs, the HTTP
\* client times out, and the clock goes on: a queued message is published, a due
\* row is scanned, and a pass that was started goes on to its end.
Fairness ==
    /\ \A w \in Relays \cup Retriers : WF_vars(Go(w))
    /\ \A d \in Deliveries : WF_vars(Elapse(d))

Spec == Init /\ [][Next]_vars /\ Fairness

-----------------------------------------------------------------------------
(* Properties *)

\* An event marked published was accepted at least once by every webhook that
\* was enabled ever since the event was emitted, whichever worker sent it and
\* however many tries it took (PublishEvent, deliver).
PublishedReachedAll ==
    \A e \in Events : event[e] = "published" =>
        \A h \in steady[e] : <<h, e>> \in accepted

\* "Succeeded deliveries are skipped on the retry, avoiding duplicate sends to
\* healthy endpoints": once a success is recorded neither the relay nor a retry
\* worker sends the event again, unless two workers attempted it at once or one
\* died in it, or an admin forced it (deliver with force = false).
NotResent == resent = {}

\* Rows the scan keeps finding although no attempt changes them: their event is
\* gone, so deliver fails before it writes.
Stuck == {d \in Range(due) : row[d].count < MaxAttempts /\ ~Stored(d[2])}

\* A failed delivery below the attempt limit does not stay so for ever: it is
\* retried until it succeeds or reaches the limit, unless an admin request takes
\* it over, its webhook or event is deleted, or rows of deleted events fill the
\* batch (drainDueDeliveries and the next_attempt_at that every failure writes).
FailedIsRetried ==
    \A d \in Deliveries :
        (row[d].status = "failed" /\ row[d].count < MaxAttempts)
            ~> \/ row[d].status # "failed" \/ row[d].count >= MaxAttempts
               \/ ~Stored(d[2]) \/ Cardinality(Stuck) >= Batch

\* An emitted event leaves the outbox: published, or given up after the limit of
\* tries (PublishEvent returns in every case).
OutboxSettles == \A e \in Events : outbox[e].at = "queued" ~> outbox[e].at \in {"done", "dead"}
=============================================================================
