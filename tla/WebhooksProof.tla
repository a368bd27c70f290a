---------------------------- MODULE WebhooksProof ----------------------------
(***************************************************************************)
(* Proofs about Webhooks, for any number of webhooks, events and workers   *)
(* of each kind, and all limits.  What a published event promises rests on *)
(* what the relay's pass still has to do (PassOK); that a success is not   *)
(* sent again rests on what the other workers in the middle of the same    *)
(* delivery will write (Sole, Settles).                                    *)
(***************************************************************************)
EXTENDS Webhooks, FiniteSetTheorems, TLAPS

Fields == {"at", "msg", "todo", "ensure", "force", "err", "cur", "read", "ok"}

\* The fields of a pass; what is left to do may be any set.
Shape(p) ==
    /\ DOMAIN p = Fields
    /\ p.at \in {"idle", "next", "record"} /\ p.msg \subseteq Events /\ p.read \in Nat

\* Webhook h, that event e must reach, accepted it or is still to be sent it.
Owed(p, e) == \A h \in steady[e] : <<h, e>> \in accepted \/ <<h, e>> \in p.todo

\* What a pass in progress says of the delivery it is in and of its message.
PassOK(p) ==
    /\ Shape(p)
    /\ p.at = "record" => p.cur \in Deliveries /\ (p.ok => p.cur \in accepted)
    /\ \A e \in p.msg : outbox[e].at # "none" /\ (p.err \/ (p.at = "record" /\ ~p.ok) \/ Owed(p, e))

Status == {"none", "pending", "failed", "succeeded"}
Delivery == [status : Status, count : Nat, next : BOOLEAN]

Types ==
    /\ hook \in [Hooks -> {"new", "on", "off", "deleted"}] /\ \E n \in 0..NHooks : Created = 1..n
    /\ event \in [Events -> {"none", "archived", "published", "swept"}]
    /\ outbox \in [Events -> [at : {"none", "queued", "claimed", "done", "dead"}, tries : Nat]]
    /\ row \in [Deliveries -> Delivery]
    /\ work = [w \in Workers |-> work[w]]
    /\ steady \in [Events -> SUBSET Hooks] /\ confirmed \subseteq Deliveries

\* A recorded success was accepted.
RowsOK == \A d \in Deliveries : row[d].status = "succeeded" => d \in accepted

\* Two workers in the middle of one delivery muddle it.
Sole ==
    \A v, w \in Workers : work[v].at = "record" /\ work[w].at = "record" /\ work[v].cur = work[w].cur
                             => v = w \/ work[v].cur \in muddled

\* A confirmed success stays recorded: only an admin's pass is in the middle of it.
Settles ==
    \A d \in confirmed \ muddled :
       /\ row[d].status = "succeeded"
       /\ \A w \in Workers : work[w].at = "record" /\ work[w].cur = d => work[w].force

Inv ==
    /\ Types /\ RowsOK /\ \A w \in Workers : PassOK(work[w])
    /\ \A e \in Events : steady[e] \subseteq Enabled
    /\ PublishedReachedAll /\ Sole /\ Settles /\ NotResent

-----------------------------------------------------------------------------
(* What a step keeps *)

\* Nothing that was accepted is forgotten, no message of the outbox is lost, and
\* no webhook joins those an emitted event must reach.
Grown ==
    /\ accepted \subseteq accepted'
    /\ \A e \in Events : outbox[e].at # "none" => outbox'[e].at # "none" /\ steady'[e] \subseteq steady[e]

\* What was true of a pass stays true of it.
LEMMA PassKept ==
  ASSUME Grown, NEW p, PassOK(p) PROVE PassOK(p)'
  <1>1. Shape(p)' /\ p.msg \subseteq Events
    BY Zenon DEF PassOK, Shape
  <1>2. ASSUME p.at = "record" PROVE p.cur \in Deliveries /\ (p.ok => p.cur \in accepted')
    BY <1>2, Zenon DEF PassOK, Grown
  <1>3. ASSUME NEW e \in p.msg
        PROVE  outbox'[e].at # "none" /\ (p.err \/ (p.at = "record" /\ ~p.ok) \/ Owed(p, e)')
    <2>1. e \in Events /\ outbox[e].at # "none"
      BY <1>1, <1>3, Zenon DEF PassOK
    <2>2. outbox'[e].at # "none" /\ steady'[e] \subseteq steady[e] /\ accepted \subseteq accepted'
      BY <2>1, Zenon DEF Grown
    <2>3. Owed(p, e) => Owed(p, e)'
      BY <2>2, Zenon DEF Owed
    <2>4. QED
      BY <1>3, <2>2, <2>3, Zenon DEF PassOK
  <1>4. QED
    BY <1>1, <1>2, <1>3, Zenon DEF PassOK

\* A step that leaves the passes alone.
LEMMA TableStep ==
  ASSUME Inv, Grown, Types', RowsOK', (\A e \in Events : steady[e] \subseteq Enabled)',
         PublishedReachedAll', UNCHANGED <<work, resent, muddled>>,
         \A d \in confirmed' : d \in confirmed /\ row'[d].status = row[d].status
  PROVE  Inv'
  <1>1. ASSUME NEW w \in Workers PROVE PassOK(work[w])'
    <2>1. PICK p : p = work[w]
      BY Zenon
    <2>2. PassOK(p)'
      BY <2>1, PassKept, Zenon DEF Inv
    <2>3. QED
      BY <2>1, <2>2, Zenon DEF PassOK, Shape, Owed
  <1>2. Sole'
    BY Zenon DEF Inv, Sole
  <1>3. Settles'
    BY Zenon DEF Inv, Settles
  <1>4. NotResent'
    BY Zenon DEF Inv, NotResent
  <1>5. QED
    BY <1>1, <1>2, <1>3, <1>4, Zenon DEF Inv

\* Worker w's pass becomes x.
LEMMA WorkFacts ==
  ASSUME Inv, NEW w \in Workers, NEW x, work' = [work EXCEPT ![w] = x]
  PROVE  /\ work' = [v \in Workers |-> work'[v]] /\ work'[w] = x
         /\ \A v \in Workers : v # w => work'[v] = work[v]
  <1>1. work = [v \in Workers |-> work[v]]
    BY Zenon DEF Inv, Types
  <1>2. QED
    BY <1>1, Zenon

\* So what is said of passes is kept when the new one satisfies it.
LEMMA PassesOK ==
  ASSUME Inv, Grown, NEW w \in Workers, NEW x, work' = [work EXCEPT ![w] = x], PassOK(x)'
  PROVE  (\A v \in Workers : PassOK(work[v]))'
  <1> SUFFICES ASSUME NEW v \in Workers PROVE PassOK(work[v])'
    BY Zenon
  <1>1. work'[w] = x /\ (v # w => work'[v] = work[v])
    BY WorkFacts, Zenon
  <1>2. PICK p : p = work'[v]
    BY Zenon
  <1>3. PassOK(p)'
    <2>1. CASE v = w
      BY <1>1, <1>2, <2>1, Zenon
    <2>2. CASE v # w
      BY <1>1, <1>2, <2>2, PassKept, Zenon DEF Inv
    <2>3. QED
      BY <2>1, <2>2, Zenon
  <1>4. QED
    BY <1>2, <1>3, Zenon DEF PassOK, Shape, Owed

\* A step of worker w that does not leave it in the middle of a delivery.
LEMMA PassStep ==
  ASSUME Inv, Grown, NEW w \in Workers, NEW x, work' = [work EXCEPT ![w] = x], PassOK(x)',
         x.at # "record", Types', RowsOK', (\A e \in Events : steady[e] \subseteq Enabled)',
         PublishedReachedAll', resent' = resent, muddled \subseteq muddled',
         \A d \in confirmed' \ muddled : d \in confirmed /\ row'[d].status = "succeeded"
  PROVE  Inv'
  <1>1. (\A v \in Workers : PassOK(work[v]))'
    BY PassesOK, Zenon
  <1>2. \A v \in Workers : work'[v].at = "record" => v # w /\ work'[v] = work[v]
    BY WorkFacts, Zenon
  <1>3. Sole'
    BY <1>2 DEF Inv, Sole
  <1>4. Settles'
    BY <1>2, Zenon DEF Inv, Settles
  <1>5. NotResent'
    BY Zenon DEF Inv, NotResent
  <1>6. QED
    BY <1>1, <1>3, <1>4, <1>5, Zenon DEF Inv

-----------------------------------------------------------------------------
(* Webhooks and events *)

\* A pass that has not started, and an idle worker.
LEMMA IdleFacts ==
  /\ Shape(Pass) /\ Pass.at = "next" /\ Pass.msg = {} /\ Pass.err = FALSE
  /\ Shape(Idle) /\ Idle.at = "idle" /\ Idle.msg = {}
  <1>1. Shape(Pass) /\ Pass.at = "next" /\ Pass.msg = {} /\ Pass.err = FALSE
    BY Zenon DEF Pass, Shape, Fields
  <1>2. Shape(Idle) /\ Idle.at = "idle" /\ Idle.msg = {}
    BY <1>1, Zenon DEF Shape, Idle, Fields
  <1>3. QED
    BY <1>1, <1>2, Zenon

\* Before anything was emitted.
LEMMA InitInv == Init => Inv
  <1> SUFFICES ASSUME Init PROVE Inv
    BY Zenon
  <1>1. Types
    <2>1. PICK n \in 0..NHooks : hook = [h \in Hooks |-> IF h <= n THEN "on" ELSE "new"]
      BY Zenon DEF Init
    <2>2. Created = 1..n
      BY <2>1, WebhooksAssumption DEF Created, Hooks
    <2>3. hook \in [Hooks -> {"new", "on", "off", "deleted"}]
      BY <2>1, Zenon
    <2>4. row \in [Deliveries -> Delivery]
      BY Zenon DEF Init, NoDelivery, Delivery, Status
    <2>5. work = [w \in Workers |-> work[w]]
      BY Zenon DEF Init
    <2>6. outbox \in [Events -> [at : {"none", "queued", "claimed", "done", "dead"}, tries : Nat]]
      BY Zenon DEF Init
    <2>7. event \in [Events -> {"none", "archived", "published", "swept"}]
          /\ steady \in [Events -> SUBSET Hooks] /\ confirmed \subseteq Deliveries
      BY Zenon DEF Init
    <2>8. QED
      BY <2>1, <2>2, <2>3, <2>4, <2>5, <2>6, <2>7, Zenon DEF Types
  <1>2. \A w \in Workers : work[w] = Idle
    BY Zenon DEF Init
  <1>3. PassOK(Idle)
    BY IdleFacts, Zenon DEF PassOK
  <1>4. RowsOK
    BY Zenon DEF Init, RowsOK, NoDelivery
  <1>5. Sole /\ Settles /\ NotResent
    BY <1>2, IdleFacts, Zenon DEF Init, Sole, Settles, NotResent
  <1>6. (\A e \in Events : steady[e] \subseteq Enabled) /\ PublishedReachedAll
    BY Zenon DEF Init, PublishedReachedAll
  <1>7. QED
    BY <1>1, <1>2, <1>3, <1>4, <1>5, <1>6, Zenon DEF Inv

\* Webhooks are numbered as they are created, so Create adds one that was not there.
LEMMA CreateFacts ==
  ASSUME Types, NEW h \in Hooks, NEW state \in {"on", "off"}, Create(h, state)
  PROVE  /\ hook[h] = "new" /\ hook' \in [Hooks -> {"new", "on", "off", "deleted"}]
         /\ \E n \in 0..NHooks : Created' = 1..n
         /\ \A k \in Hooks : k # h => hook'[k] = hook[k]
  <1>0. hook \in [Hooks -> {"new", "on", "off", "deleted"}] /\ NHooks \in Nat
    BY WebhooksAssumption, Zenon DEF Types
  <1>1. PICK n \in 0..NHooks : Created = 1..n
    BY Zenon DEF Types
  <1>2. n \in Nat
    BY <1>0
  <1>3. Cardinality(1..n) = n
    BY <1>2, FS_Interval
  <1>4. h = n + 1
    BY <1>1, <1>3, Zenon DEF Create
  <1>5. h \notin Created
    BY <1>1, <1>2, <1>4
  <1>6. hook[h] = "new"
    BY <1>5, Zenon DEF Created
  <1>7. hook' = [hook EXCEPT ![h] = state] /\ state # "new"
    BY Zenon DEF Create
  <1>8. \A k \in Hooks : hook'[k] = IF k = h THEN state ELSE hook[k]
    BY <1>0, <1>7, Zenon
  <1>9. Created' = Created \cup {h}
    BY <1>7, <1>8, Zenon DEF Created
  <1>10. Created' = 1..(n + 1) /\ n + 1 \in 0..NHooks
    BY <1>0, <1>1, <1>2, <1>4, <1>9 DEF Hooks
  <1>11. QED
    BY <1>0, <1>6, <1>7, <1>8, <1>10, Zenon

\* A new webhook receives what is emitted from then on.
LEMMA CreateInv ==
  ASSUME Inv, NEW h \in Hooks, NEW state \in {"on", "off"}, Create(h, state)
  PROVE  Inv'
  <1>1. Types /\ UNCHANGED <<event, outbox, row, due, work, trouble, ghosts>>
    BY Zenon DEF Inv, Create
  <1>2. UNCHANGED <<event, outbox, row, work, steady, accepted, confirmed, resent, muddled>>
    BY <1>1, Zenon DEF ghosts
  <1>3. /\ hook[h] = "new" /\ hook' \in [Hooks -> {"new", "on", "off", "deleted"}]
        /\ \E n \in 0..NHooks : Created' = 1..n
        /\ \A k \in Hooks : k # h => hook'[k] = hook[k]
    BY <1>1, CreateFacts, Zenon
  <1>4. Types'
    BY <1>1, <1>2, <1>3, Zenon DEF Types
  <1>5. (\A e \in Events : steady[e] \subseteq Enabled)'
    BY <1>2, <1>3, Zenon DEF Inv, Enabled
  <1>6. RowsOK' /\ PublishedReachedAll'
    BY <1>2, Zenon DEF Inv, RowsOK, PublishedReachedAll
  <1>7. Grown
    BY <1>2, Zenon DEF Grown
  <1>8. QED
    BY <1>2, <1>4, <1>5, <1>6, <1>7, TableStep, Zenon

\* Updating or deleting a webhook keeps which ones were ever created.
LEMMA CreatedSame ==
  ASSUME Types, NEW h \in Hooks, Exists(h), NEW state \in {"on", "off", "deleted"},
         hook' = [hook EXCEPT ![h] = state]
  PROVE  /\ hook' \in [Hooks -> {"new", "on", "off", "deleted"}]
         /\ \E n \in 0..NHooks : Created' = 1..n
         /\ \A k \in Hooks : k # h => hook'[k] = hook[k]
  <1>1. /\ hook' \in [Hooks -> {"new", "on", "off", "deleted"}] /\ hook'[h] # "new" /\ hook[h] # "new"
        /\ \A k \in Hooks : k # h => hook'[k] = hook[k]
    BY Zenon DEF Types, Exists
  <1>2. Created' = Created
    BY <1>1, Zenon DEF Created
  <1>3. QED
    BY <1>1, <1>2, Zenon DEF Types

\* A webhook that is switched off or on is not owed what was emitted before.
LEMMA UpdateInv ==
  ASSUME Inv, NEW h \in Hooks, Update(h)
  PROVE  Inv'
  <1>1. /\ Types /\ Exists(h) /\ steady' = [e \in Events |-> steady[e] \ {h}]
        /\ UNCHANGED <<event, outbox, row, work, accepted, confirmed, resent, muddled>>
    BY Zenon DEF Inv, Update
  <1>2. PICK state \in {"on", "off", "deleted"} : hook' = [hook EXCEPT ![h] = state]
    BY <1>1, Zenon DEF Update, Types
  <1>3. /\ hook' \in [Hooks -> {"new", "on", "off", "deleted"}]
        /\ \E n \in 0..NHooks : Created' = 1..n
        /\ \A k \in Hooks : k # h => hook'[k] = hook[k]
    BY <1>1, <1>2, CreatedSame, Zenon
  <1>4. steady' \in [Events -> SUBSET Hooks] /\ \A e \in Events : steady'[e] = steady[e] \ {h}
    BY <1>1, Zenon DEF Types
  <1>5. Types'
    BY <1>1, <1>3, <1>4, Zenon DEF Types
  <1>6. (\A e \in Events : steady[e] \subseteq Enabled)'
    BY <1>3, <1>4 DEF Inv, Enabled
  <1>7. RowsOK' /\ PublishedReachedAll'
    BY <1>1, <1>4, Zenon DEF Inv, RowsOK, PublishedReachedAll
  <1>8. Grown
    BY <1>1, <1>4, Zenon DEF Grown
  <1>9. QED
    BY <1>1, <1>5, <1>6, <1>7, <1>8, TableStep, Zenon

\* A deleted webhook takes its deliveries with it.
LEMMA DeleteInv ==
  ASSUME Inv, NEW h \in Hooks, Delete(h)
  PROVE  Inv'
  <1>1. /\ Types /\ Exists(h) /\ steady' = [e \in Events |-> steady[e] \ {h}]
        /\ hook' = [hook EXCEPT ![h] = "deleted"]
        /\ row' = [d \in Deliveries |-> IF d[1] = h THEN NoDelivery ELSE row[d]]
        /\ confirmed' = {d \in confirmed : d[1] # h}
        /\ UNCHANGED <<event, outbox, work, accepted, resent, muddled>>
    BY Zenon DEF Inv, Delete
  <1>2. /\ hook' \in [Hooks -> {"new", "on", "off", "deleted"}]
        /\ \E n \in 0..NHooks : Created' = 1..n
        /\ \A k \in Hooks : k # h => hook'[k] = hook[k]
    BY <1>1, CreatedSame, Zenon
  <1>3. steady' \in [Events -> SUBSET Hooks] /\ \A e \in Events : steady'[e] = steady[e] \ {h}
    BY <1>1, Zenon DEF Types
  <1>4. NoDelivery \in Delivery /\ NoDelivery.status = "none"
    BY Zenon DEF NoDelivery, Delivery, Status
  <1>5. row' \in [Deliveries -> Delivery]
    BY <1>1, <1>4, Zenon DEF Types
  <1>6. /\ \A d \in Deliveries : row'[d].status = "succeeded" => row[d].status = "succeeded"
        /\ \A d \in Deliveries : d[1] # h => row'[d] = row[d]
    BY <1>1, <1>4, Zenon
  <1>7. Types'
    BY <1>1, <1>2, <1>3, <1>5, Zenon DEF Types
  <1>8. (\A e \in Events : steady[e] \subseteq Enabled)'
    BY <1>2, <1>3 DEF Inv, Enabled
  <1>9. RowsOK' /\ PublishedReachedAll'
    BY <1>1, <1>3, <1>6, Zenon DEF Inv, RowsOK, PublishedReachedAll
  <1>10. Grown
    BY <1>1, <1>3, Zenon DEF Grown
  <1>11. \A d \in confirmed' : d \in confirmed /\ row'[d].status = row[d].status
    BY <1>1, <1>6, Zenon DEF Types
  <1>12. QED
    BY <1>1, <1>7, <1>8, <1>9, <1>10, <1>11, TableStep, Zenon

\* An event is owed to the webhooks enabled when it is emitted.
LEMMA EmitInv ==
  ASSUME Inv, NEW e \in Events, Emit(e)
  PROVE  Inv'
  <1>1. /\ Types /\ outbox[e].at = "none" /\ event[e] = "none"
        /\ outbox' = [outbox EXCEPT ![e].at = "queued"] /\ steady' = [steady EXCEPT ![e] = Enabled]
        /\ UNCHANGED <<hook, event, row, work, accepted, confirmed, resent, muddled>>
    BY Zenon DEF Inv, Emit, Seen
  <1>2. /\ outbox' \in [Events -> [at : {"none", "queued", "claimed", "done", "dead"}, tries : Nat]]
        /\ \A f \in Events : f # e => outbox'[f] = outbox[f]
    BY <1>1, Zenon DEF Types
  <1>3. /\ steady' \in [Events -> SUBSET Hooks] /\ steady'[e] = Enabled
        /\ \A f \in Events : f # e => steady'[f] = steady[f]
    BY <1>1, Zenon DEF Types, Enabled
  <1>4. Types'
    BY <1>1, <1>2, <1>3 DEF Types, Created
  <1>5. Enabled' = Enabled
    BY <1>1, Zenon DEF Enabled
  <1>6. (\A f \in Events : steady[f] \subseteq Enabled)'
    BY <1>3, <1>5, Zenon DEF Inv
  <1>7. RowsOK' /\ PublishedReachedAll'
    BY <1>1, <1>3, Zenon DEF Inv, RowsOK, PublishedReachedAll
  <1>8. Grown
    BY <1>1, <1>2, <1>3, Zenon DEF Grown
  <1>9. QED
    BY <1>1, <1>4, <1>6, <1>7, <1>8, TableStep, Zenon

\* The retention sweep, the clock, and stuttering.
LEMMA OtherInv ==
  ASSUME Inv, \/ \E e \in Events : SweepEvent(e)
              \/ \E d \in Deliveries : Elapse(d)
              \/ UNCHANGED vars
  PROVE  Inv'
  <1>1. UNCHANGED <<hook, outbox, row, work, steady, accepted, confirmed, resent, muddled>>
    BY Zenon DEF SweepEvent, Elapse, vars, tables, ghosts
  <1>2. /\ event' \in [Events -> {"none", "archived", "published", "swept"}]
        /\ \A e \in Events : event'[e] = "published" => event[e] = "published"
    <2>1. event \in [Events -> {"none", "archived", "published", "swept"}]
      BY Zenon DEF Inv, Types
    <2>2. event' = event \/ \E e \in Events : event' = [event EXCEPT ![e] = "swept"]
      BY Zenon DEF SweepEvent, Elapse, vars, tables
    <2>3. QED
      BY <2>1, <2>2, Zenon
  <1>3. Types'
    BY <1>1, <1>2, Zenon DEF Inv, Types, Created
  <1>4. (\A e \in Events : steady[e] \subseteq Enabled)'
    BY <1>1, Zenon DEF Inv, Enabled
  <1>5. RowsOK' /\ PublishedReachedAll'
    BY <1>1, <1>2, Zenon DEF Inv, RowsOK, PublishedReachedAll
  <1>6. Grown
    BY <1>1, Zenon DEF Grown
  <1>7. QED
    BY <1>1, <1>3, <1>4, <1>5, <1>6, TableStep, Zenon

-----------------------------------------------------------------------------
(* Passes *)

\* How the pass of a retry worker starts.
LEMMA ScanPass ==
  ASSUME NEW todo, NEW x, x = [Pass EXCEPT !.todo = todo]
  PROVE  Shape(x) /\ x.at = "next" /\ x.msg = {}
  BY IdleFacts, Zenon DEF Shape, Fields

\* An event that is archived again stays published if it was, and never becomes so.
LEMMA ArchivedFacts ==
  ASSUME Types, NEW e \in Events, event' = Archived(e)
  PROVE  /\ event' \in [Events -> {"none", "archived", "published", "swept"}]
         /\ \A f \in Events : event'[f] = "published" => event[f] = "published"
  BY Zenon DEF Types, Archived, Stored

\* The relay's pass starts with every webhook that is owed the event.
LEMMA PublishInv ==
  ASSUME Inv, NEW w \in Workers, NEW e \in Events, Publish(w, e)
  PROVE  Inv'
  <1>1. /\ Types /\ outbox[e].at = "queued" /\ outbox' = [outbox EXCEPT ![e].at = "claimed"]
        /\ UNCHANGED <<hook, row, steady, accepted, confirmed, resent, muddled>>
        /\ event' = Archived(e)
    BY Zenon DEF Inv, Publish, ghosts
  <1>2. /\ event' \in [Events -> {"none", "archived", "published", "swept"}]
        /\ \A f \in Events : event'[f] = "published" => event[f] = "published"
    BY <1>1, ArchivedFacts, Zenon
  <1>3. /\ outbox' \in [Events -> [at : {"none", "queued", "claimed", "done", "dead"}, tries : Nat]]
        /\ outbox'[e].at = "claimed" /\ \A f \in Events : f # e => outbox'[f] = outbox[f]
    BY <1>1, Zenon DEF Types
  <1>t. PICK todo : todo = Enabled \X {e}
    BY Zenon
  <1>4. PICK x : x = [Pass EXCEPT !.msg = {e}, !.todo = todo, !.ensure = TRUE]
    BY Zenon
  <1>5. Shape(x) /\ x.at = "next" /\ x.msg = {e} /\ x.todo = Enabled \X {e}
    <2>1. Shape(x) /\ x.at = "next" /\ x.msg = {e} /\ x.todo = todo
      BY <1>4, IdleFacts, Zenon DEF Shape, Fields
    <2>2. QED
      BY <1>t, <2>1, Zenon
  <1>6. work' = [work EXCEPT ![w] = x]
    BY <1>t, <1>4, Zenon DEF Publish
  <1>7. work' = [v \in Workers |-> work'[v]]
    BY <1>6, WorkFacts, Zenon
  <1>8. Types'
    BY <1>1, <1>2, <1>3, <1>7 DEF Types, Created
  <1>9. Grown
    BY <1>1, <1>3, Zenon DEF Grown
  <1>10. PassOK(x)'
    <2>1. steady[e] \subseteq Enabled
      BY Zenon DEF Inv
    <2>2. \A h \in steady'[e] : <<h, e>> \in x.todo
      BY <1>1, <1>5, <2>1, Zenon
    <2>3. Owed(x, e)'
      BY <2>2, Zenon DEF Owed
    <2>4. QED
      BY <1>3, <1>5, <2>3, Zenon DEF PassOK, Shape
  <1>11. (\A f \in Events : steady[f] \subseteq Enabled)' /\ RowsOK' /\ PublishedReachedAll'
    BY <1>1, <1>2, Zenon DEF Inv, Enabled, RowsOK, PublishedReachedAll
  <1>12. \A d \in confirmed' \ muddled : d \in confirmed /\ row'[d].status = "succeeded"
    BY <1>1, Zenon DEF Inv, Settles
  <1>13. QED
    BY <1>1, <1>5, <1>6, <1>8, <1>9, <1>10, <1>11, <1>12, PassStep, Zenon

\* A pass that has no message starts.
LEMMA BeginStep ==
  ASSUME Inv, NEW w \in Workers, NEW x, work' = [work EXCEPT ![w] = x],
         Shape(x), x.at = "next", x.msg = {},
         UNCHANGED <<hook, outbox, steady, accepted, resent, muddled>>,
         event' \in [Events -> {"none", "archived", "published", "swept"}],
         \A e \in Events : event'[e] = "published" => event[e] = "published",
         row' \in [Deliveries -> Delivery], confirmed' \subseteq confirmed,
         \A d \in Deliveries : row'[d].status = "succeeded" => row[d].status = "succeeded",
         \A d \in confirmed' : row'[d].status = row[d].status
  PROVE  Inv'
  <1>1. work' = [v \in Workers |-> work'[v]]
    BY WorkFacts, Zenon
  <1>2. Types'
    BY <1>1, Zenon DEF Inv, Types, Created
  <1>3. Grown
    BY Zenon DEF Grown
  <1>4. PassOK(x)'
    BY Zenon DEF PassOK, Shape
  <1>5. (\A e \in Events : steady[e] \subseteq Enabled)' /\ RowsOK' /\ PublishedReachedAll'
    <2>1. (\A e \in Events : steady[e] \subseteq Enabled)'
      BY Zenon DEF Inv, Enabled
    <2>2. RowsOK'
      BY Zenon DEF Inv, RowsOK
    <2>3. PublishedReachedAll'
      BY Zenon DEF Inv, PublishedReachedAll
    <2>4. QED
      BY <2>1, <2>2, <2>3, Zenon
  <1>6. \A d \in confirmed' \ muddled : d \in confirmed /\ row'[d].status = "succeeded"
    BY Zenon DEF Inv, Settles
  <1>7. QED
    BY <1>2, <1>3, <1>4, <1>5, <1>6, PassStep, Zenon

\* drainDueDeliveries takes on no message.
LEMMA ScanInv ==
  ASSUME Inv, NEW w \in Workers, Scan(w)
  PROVE  Inv'
  <1> DEFINE open  == SelectSeq(due, LAMBDA d : row[d].count < MaxAttempts)
             found == SubSeq(open, 1, IF Len(open) < Batch THEN Len(open) ELSE Batch)
  <1>1. PICK todo : work' = [work EXCEPT ![w] = [Pass EXCEPT !.todo = todo]]
    <2>1. work' = [work EXCEPT ![w] = [Pass EXCEPT !.todo = Range(found)]]
      BY Zenon DEF Scan
    <2>2. PICK S : S = Range(found)
      BY Zenon
    <2>3. work' = [work EXCEPT ![w] = [Pass EXCEPT !.todo = S]]
      BY <2>1, <2>2, Zenon
    <2>4. QED
      BY <2>3, Zenon
  <1> HIDE DEF open, found
  <1>2. PICK x : x = [Pass EXCEPT !.todo = todo]
    BY Zenon
  <1>3. Shape(x) /\ x.at = "next" /\ x.msg = {}
    BY <1>2, ScanPass, Zenon
  <1>4. UNCHANGED <<hook, event, outbox, row, steady, accepted, confirmed, resent, muddled>>
    BY Zenon DEF Scan, tables, ghosts
  <1>5. QED
    BY <1>1, <1>2, <1>3, <1>4, BeginStep, Zenon DEF Inv, Types

\* RetryDelivery withdraws the success it is about to repeat.
LEMMA RetryDeliveryInv ==
  ASSUME Inv, NEW w \in Workers, NEW d \in Deliveries, RetryDelivery(w, d)
  PROVE  Inv'
  <1>1. PICK todo : todo = {d}
    BY Zenon
  <1>2. PICK x : x = [Pass EXCEPT !.todo = todo, !.ensure = FALSE, !.force = TRUE]
    BY Zenon
  <1>3. Shape(x) /\ x.at = "next" /\ x.msg = {}
    BY <1>2, IdleFacts, Zenon DEF Shape, Fields
  <1>4. work' = [work EXCEPT ![w] = x]
    BY <1>1, <1>2, Zenon DEF RetryDelivery, Manually
  <1>5. /\ UNCHANGED <<hook, event, outbox, steady, accepted, resent, muddled>>
        /\ confirmed' = confirmed \ {d}
        /\ row' = [row EXCEPT ![d].status = "pending", ![d].next = FALSE]
    BY Zenon DEF RetryDelivery
  <1>6. row \in [Deliveries -> Delivery] /\ confirmed \subseteq Deliveries
        /\ event \in [Events -> {"none", "archived", "published", "swept"}]
    BY Zenon DEF Inv, Types
  <1>7. /\ row' \in [Deliveries -> Delivery] /\ row'[d].status = "pending"
        /\ \A k \in Deliveries : k # d => row'[k] = row[k]
    <2>1. row' = [row EXCEPT ![d] = [row[d] EXCEPT !.status = "pending", !.next = FALSE]]
      BY <1>5, <1>6, Zenon
    <2>2. /\ [row[d] EXCEPT !.status = "pending", !.next = FALSE] \in Delivery
          /\ [row[d] EXCEPT !.status = "pending", !.next = FALSE].status = "pending"
      BY <1>6, Zenon DEF Delivery, Status
    <2>3. QED
      BY <1>6, <2>1, <2>2, Zenon
  <1>8. /\ \A k \in Deliveries : row'[k].status = "succeeded" => row[k].status = "succeeded"
        /\ \A k \in confirmed' : row'[k].status = row[k].status
    BY <1>5, <1>6, <1>7, Zenon
  <1>9. QED
    BY <1>3, <1>4, <1>5, <1>6, <1>7, <1>8, BeginStep, Zenon

\* A replay, or a test with an event of its own.
LEMMA ReplayInv ==
  ASSUME Inv, NEW w \in Workers, NEW e \in Events,
         \/ \E hooks \in SUBSET Hooks : ReplayEvent(w, e, hooks)
         \/ \E h \in Hooks : Test(w, h, e)
  PROVE  Inv'
  <1>1. PICK todo : Manually(w, todo, TRUE)
    <2>1. CASE \E hooks \in SUBSET Hooks : ReplayEvent(w, e, hooks)
      <3>1. PICK hooks \in SUBSET Hooks : ReplayEvent(w, e, hooks)
        BY <2>1, Zenon
      <3>2. Manually(w, hooks \X {e}, TRUE)
        BY <3>1, Zenon DEF ReplayEvent
      <3>3. QED
        BY <3>2, Zenon
    <2>2. CASE \E h \in Hooks : Test(w, h, e)
      <3>1. PICK h \in Hooks : Test(w, h, e)
        BY <2>2, Zenon
      <3>2. Manually(w, {<<h, e>>}, TRUE)
        BY <3>1, Zenon DEF Test
      <3>3. QED
        BY <3>2, Zenon
    <2>3. QED
      BY <2>1, <2>2, Zenon
  <1>2. PICK x : x = [Pass EXCEPT !.todo = todo, !.ensure = TRUE, !.force = TRUE]
    BY Zenon
  <1>3. Shape(x) /\ x.at = "next" /\ x.msg = {}
    BY <1>2, IdleFacts, Zenon DEF Shape, Fields
  <1>4. work' = [work EXCEPT ![w] = x]
    BY <1>1, <1>2, Zenon DEF Manually
  <1>5. UNCHANGED <<hook, outbox, row, steady, accepted, confirmed, resent, muddled>>
    BY Zenon DEF ReplayEvent, Test, tables, ghosts
  <1>6. /\ event' \in [Events -> {"none", "archived", "published", "swept"}]
        /\ \A f \in Events : event'[f] = "published" => event[f] = "published"
    <2>1. event' = event \/ event' = Archived(e)
      BY Zenon DEF ReplayEvent, Test, tables
    <2>2. QED
      BY <2>1, ArchivedFacts, Zenon DEF Inv, Types
  <1>7. row' \in [Deliveries -> Delivery]
    BY <1>5, Zenon DEF Inv, Types
  <1>8. QED
    BY <1>3, <1>4, <1>5, <1>6, <1>7, BeginStep, Zenon

-----------------------------------------------------------------------------
(* The steps of a pass *)

\* A pass that failed has an error to report.
LEMMA FailedFacts ==
  ASSUME NEW p, Shape(p), NEW rest, NEW x, x = Failed(p, rest)
  PROVE  Shape(x) /\ x.at = "next" /\ x.msg = p.msg /\ x.err
  BY Zenon DEF Failed, Shape, Fields

\* The row as deliver reads it: one that ensureDelivery inserts is pending.
ReadRow(p, d) ==
    IF p.ensure /\ row[d].status = "none" THEN [row[d] EXCEPT !.status = "pending"] ELSE row[d]

\* Reading a delivery neither makes nor undoes a success.
LEMMA ReadFacts ==
  ASSUME Inv, NEW d \in Deliveries, NEW r, NEW p, r = ReadRow(p, d), row' = [row EXCEPT ![d] = r]
  PROVE  /\ r \in Delivery /\ r.count \in Nat /\ row' \in [Deliveries -> Delivery]
         /\ r.status = "succeeded" <=> row[d].status = "succeeded"
         /\ \A k \in Deliveries : row'[k].status = "succeeded" <=> row[k].status = "succeeded"
  <1>1. row \in [Deliveries -> Delivery] /\ row[d] \in Delivery
    BY Zenon DEF Inv, Types
  <1>2. r = row[d] \/ (row[d].status = "none" /\ r = [row[d] EXCEPT !.status = "pending"])
    BY Zenon DEF ReadRow
  <1>3. r \in Delivery /\ r.count \in Nat /\ (r.status = "succeeded" <=> row[d].status = "succeeded")
    BY <1>1, <1>2, Zenon DEF Delivery, Status
  <1>4. QED
    BY <1>1, <1>3, Zenon

\* What the steps of Attempt have in common.
LEMMA AttemptKeeps ==
  ASSUME Inv, NEW w \in Workers, NEW x, work' = [work EXCEPT ![w] = x],
         UNCHANGED <<hook, event, outbox, steady, confirmed>>, accepted \subseteq accepted',
         row' \in [Deliveries -> Delivery],
         \A k \in Deliveries : row'[k].status = "succeeded" <=> row[k].status = "succeeded"
  PROVE  /\ Types' /\ RowsOK' /\ Grown /\ (\A e \in Events : steady[e] \subseteq Enabled)'
         /\ PublishedReachedAll'
         /\ \A k \in confirmed' \ muddled : k \in confirmed /\ row'[k].status = "succeeded"
  <1>1. Types /\ work' = [v \in Workers |-> work'[v]]
    BY WorkFacts, Zenon DEF Inv
  <1>2. Types'
    BY <1>1, Zenon DEF Types, Created
  <1>3. RowsOK'
    BY Zenon DEF Inv, RowsOK
  <1>4. Grown
    BY Zenon DEF Grown
  <1>5. (\A e \in Events : steady[e] \subseteq Enabled)'
    BY Zenon DEF Inv, Enabled
  <1>6. PublishedReachedAll'
    BY Zenon DEF Inv, PublishedReachedAll
  <1>7. \A k \in confirmed' \ muddled : k \in confirmed /\ row'[k].status = "succeeded"
    BY <1>1, Zenon DEF Inv, Settles, Types
  <1>8. QED
    BY <1>2, <1>3, <1>4, <1>5, <1>6, <1>7, Zenon

\* A delivery is left alone only when its success was recorded, and a success
\* that is confirmed and not muddled is left alone by all but an admin.
LEMMA AttemptInv ==
  ASSUME Inv, NEW w \in Workers, NEW d \in Deliveries, Attempt(w, d)
  PROVE  Inv'
  <1>1. PICK p : p = work[w]
    BY Zenon
  <1>2. PICK r : r = ReadRow(p, d)
    BY Zenon
  <1>3. PICK rest : rest = p.todo \ {d}
    BY Zenon
  <1>a. /\ p.at = "next" /\ d \in p.todo /\ row' = [row EXCEPT ![d] = r]
        /\ UNCHANGED <<hook, event, outbox, steady, confirmed>>
    BY <1>1, <1>2, Zenon DEF Attempt, ReadRow
  <1>c. \/ /\ work' = [work EXCEPT ![w] = Failed(p, rest)]
           /\ UNCHANGED <<accepted, resent, muddled>>
        \/ /\ r.status = "succeeded" /\ work' = [work EXCEPT ![w].todo = rest]
           /\ UNCHANGED <<accepted, resent, muddled>>
        \/ /\ ~(r.status = "succeeded" /\ ~p.force)
           /\ \E ok \in BOOLEAN :
                 /\ work' = [work EXCEPT ![w] = [p EXCEPT !.at = "record", !.todo = rest, !.cur = d,
                                                         !.read = r.count, !.ok = ok]]
                 /\ accepted' = IF ok THEN accepted \cup {d} ELSE accepted
           /\ muddled' = IF \E v \in Workers : work[v].at = "record" /\ work[v].cur = d
                         THEN muddled \cup {d} ELSE muddled
           /\ resent' = IF d \in confirmed \ muddled' /\ ~p.force THEN resent \cup {d} ELSE resent
    BY <1>1, <1>2, <1>3, Zenon DEF Attempt, ReadRow, Settled
  <1>4. /\ PassOK(p) /\ Shape(p) /\ p.at = "next" /\ d \in p.todo
        /\ UNCHANGED <<hook, event, outbox, steady, confirmed>>
        /\ row' = [row EXCEPT ![d] = r]
    BY <1>1, <1>a, Zenon DEF Inv, PassOK
  <1>5. /\ r.count \in Nat /\ row' \in [Deliveries -> Delivery]
        /\ (r.status = "succeeded" <=> row[d].status = "succeeded")
        /\ \A k \in Deliveries : row'[k].status = "succeeded" <=> row[k].status = "succeeded"
    BY <1>2, <1>4, ReadFacts, Zenon
  <1>6. \A e \in p.msg : outbox'[e].at # "none" /\ (p.err \/ Owed(p, e))
    BY <1>4, Zenon DEF PassOK
  <1>7. CASE work' = [work EXCEPT ![w] = Failed(p, rest)] /\ UNCHANGED <<accepted, resent, muddled>>
    <2>1. PICK x : x = Failed(p, rest)
      BY Zenon
    <2>2. Shape(x) /\ x.at = "next" /\ x.msg = p.msg /\ x.err
      BY <1>4, <2>1, FailedFacts, Zenon
    <2>3. PassOK(x)'
      BY <1>6, <2>2, Zenon DEF PassOK, Shape
    <2>4. QED
      BY <1>4, <1>5, <1>7, <2>1, <2>2, <2>3, AttemptKeeps, PassStep, Zenon
  <1>8. CASE r.status = "succeeded" /\ work' = [work EXCEPT ![w].todo = rest]
             /\ UNCHANGED <<accepted, resent, muddled>>
    <2>1. PICK x : x = [p EXCEPT !.todo = rest]
      BY Zenon
    <2>2. Shape(x) /\ x.at = "next" /\ x.msg = p.msg /\ x.todo = rest /\ x.err = p.err
      BY <1>4, <2>1, Zenon DEF Shape, Fields
    <2>3. d \in accepted
      BY <1>5, <1>8, Zenon DEF Inv, RowsOK
    <2>4. \A e \in p.msg : Owed(p, e) => Owed(x, e)'
      BY <1>3, <1>4, <1>8, <2>2, <2>3, Zenon DEF Owed
    <2>5. PassOK(x)'
      BY <1>6, <2>2, <2>4, Zenon DEF PassOK, Shape
    <2>6. work' = [work EXCEPT ![w] = x]
      BY <1>1, <1>8, <2>1, Zenon
    <2>7. QED
      BY <1>4, <1>5, <1>8, <2>2, <2>5, <2>6, AttemptKeeps, PassStep, Zenon
  <1>9. ASSUME NEW ok \in BOOLEAN, ~(r.status = "succeeded" /\ ~p.force),
               work' = [work EXCEPT ![w] = [p EXCEPT !.at = "record", !.todo = rest, !.cur = d,
                                                     !.read = r.count, !.ok = ok]],
               accepted' = IF ok THEN accepted \cup {d} ELSE accepted,
               muddled' = IF \E v \in Workers : work[v].at = "record" /\ work[v].cur = d
                          THEN muddled \cup {d} ELSE muddled,
               resent' = IF d \in confirmed \ muddled' /\ ~p.force THEN resent \cup {d} ELSE resent
        PROVE  Inv'
    <2>1. PICK x : x = [p EXCEPT !.at = "record", !.todo = rest, !.cur = d, !.read = r.count, !.ok = ok]
      BY Zenon
    <2>2. /\ Shape(x) /\ x.at = "record" /\ x.msg = p.msg /\ x.todo = rest /\ x.cur = d
          /\ x.err = p.err /\ x.ok = ok /\ x.force = p.force
      BY <1>4, <1>5, <2>1, Zenon DEF Shape, Fields
    <2>3. work' = [work EXCEPT ![w] = x] /\ accepted \subseteq accepted' /\ (ok => d \in accepted')
      BY <1>9, <2>1, Zenon
    <2>4. muddled \subseteq muddled'
      BY <1>9, Zenon
    <2>5. ok => \A e \in p.msg : Owed(p, e) => Owed(x, e)'
      BY <1>3, <1>4, <2>2, <2>3, Zenon DEF Owed
    <2>6. PassOK(x)'
      BY <1>6, <2>2, <2>3, <2>5, Zenon DEF PassOK, Shape
    <2>7. /\ Types' /\ RowsOK' /\ Grown /\ (\A e \in Events : steady[e] \subseteq Enabled)'
          /\ PublishedReachedAll'
          /\ \A k \in confirmed' \ muddled : k \in confirmed /\ row'[k].status = "succeeded"
      BY <1>4, <1>5, <2>3, AttemptKeeps, Zenon
    <2>8. (\A v \in Workers : PassOK(work[v]))'
      BY <2>3, <2>6, <2>7, PassesOK, Zenon
    <2>9. work'[w] = x /\ \A v \in Workers : v # w => work'[v] = work[v]
      BY <2>3, WorkFacts, Zenon
    <2>10. d \in confirmed \ muddled => p.force
      BY <1>5, <1>9, Zenon DEF Inv, Settles
    <2>11. Sole'
      <3> SUFFICES ASSUME NEW u \in Workers, NEW v \in Workers, work'[u].at = "record",
                          work'[v].at = "record", work'[u].cur = work'[v].cur, u # v
                   PROVE  work'[u].cur \in muddled'
        BY Zenon DEF Sole
      <3>1. CASE u # w /\ v # w
        BY <2>4, <2>9, <3>1, Zenon DEF Inv, Sole
      <3>2. CASE u = w \/ v = w
        <4>1. \E y \in Workers : work[y].at = "record" /\ work[y].cur = d
          BY <2>2, <2>9, <3>2, Zenon
        <4>2. d \in muddled' /\ work'[u].cur = d
          BY <1>9, <2>2, <2>9, <3>2, <4>1, Zenon
        <4>3. QED
          BY <4>2, Zenon
      <3>3. QED
        BY <3>1, <3>2, Zenon
    <2>12. Settles'
      <3> SUFFICES ASSUME NEW k \in confirmed' \ muddled', NEW v \in Workers
                   PROVE  /\ row'[k].status = "succeeded"
                          /\ work'[v].at = "record" /\ work'[v].cur = k => work'[v].force
        BY Zenon DEF Settles
      <3>1. k \in confirmed \ muddled /\ row'[k].status = "succeeded"
        BY <1>4, <2>4, <2>7, Zenon
      <3>2. CASE v = w
        BY <2>2, <2>9, <2>10, <3>1, <3>2, Zenon
      <3>3. CASE v # w
        BY <2>9, <3>1, <3>3, Zenon DEF Inv, Settles
      <3>4. QED
        BY <3>1, <3>2, <3>3, Zenon
    <2>13. NotResent'
      BY <1>9, <2>4, <2>10, Zenon DEF Inv, NotResent
    <2>14. QED
      BY <2>7, <2>8, <2>11, <2>12, <2>13, Zenon DEF Inv
  <1>10. QED
    BY <1>c, <1>7, <1>8, <1>9, Zenon

\* The outcome that is written is the one the request had.
LEMMA RecordInv ==
  ASSUME Inv, NEW w \in Workers, Record(w)
  PROVE  Inv'
  <1>1. PICK p : p = work[w]
    BY Zenon
  <1>2. PICK d : d = p.cur
    BY Zenon
  <1>3. PICK q : q = [p EXCEPT !.at = "next", !.cur = <<>>, !.read = 0, !.ok = FALSE]
    BY Zenon
  <1>4. PICK x : x = IF p.ok /\ Exists(d[1]) /\ Stored(d[2]) THEN q ELSE Failed(q, p.todo)
    BY Zenon
  <1>a. /\ p.at = "record" /\ work' = [work EXCEPT ![w] = x]
        /\ row' = [row EXCEPT ![d] = IF Exists(d[1]) THEN Outcome(p) ELSE @]
        /\ confirmed' = IF Exists(d[1]) /\ p.ok /\ d \notin muddled THEN confirmed \cup {d}
                        ELSE IF p.force THEN confirmed \ {d} ELSE confirmed
        /\ UNCHANGED <<hook, event, outbox, steady, accepted, resent, muddled>>
    BY <1>1, <1>2, <1>3, <1>4, Zenon DEF Record
  <1>5. /\ Types /\ PassOK(p) /\ Shape(p) /\ d \in Deliveries /\ (p.ok => d \in accepted)
        /\ row \in [Deliveries -> Delivery] /\ confirmed \subseteq Deliveries
    BY <1>1, <1>2, <1>a, Zenon DEF Inv, PassOK, Types
  <1>6. Outcome(p) \in Delivery /\ (Outcome(p).status = "succeeded" <=> p.ok)
    BY <1>5 DEF Outcome, Delivery, Status, Shape
  <1>7. /\ row' \in [Deliveries -> Delivery]
        /\ \A k \in Deliveries : k # d => row'[k] = row[k]
        /\ Exists(d[1]) => (row'[d].status = "succeeded" <=> p.ok)
        /\ ~Exists(d[1]) => row'[d] = row[d]
    BY <1>5, <1>6, <1>a, Zenon
  <1>8. Shape(q) /\ q.at = "next" /\ q.msg = p.msg /\ q.todo = p.todo /\ q.err = p.err
    BY <1>3, <1>5, Zenon DEF Shape, Fields
  <1>9. /\ Shape(x) /\ x.at = "next" /\ x.msg = p.msg
        /\ x.err \/ (p.ok /\ x.err = p.err /\ x.todo = p.todo)
    BY <1>4, <1>8, FailedFacts
  <1>10. PassOK(x)'
    <2>1. \A e \in p.msg : outbox'[e].at # "none" /\ (p.err \/ ~p.ok \/ Owed(p, e))
      BY <1>5, <1>a, Zenon DEF PassOK
    <2>2. \A e \in p.msg : Owed(p, e) /\ x.todo = p.todo => Owed(x, e)'
      BY <1>a, Zenon DEF Owed
    <2>3. QED
      BY <1>9, <2>1, <2>2, Zenon DEF PassOK, Shape
  <1>11. work' = [v \in Workers |-> work'[v]]
         /\ \A v \in Workers : work'[v].at = "record" => v # w /\ work'[v] = work[v]
    BY <1>9, <1>a, WorkFacts, Zenon
  <1>12. Types'
    <2>1. confirmed' \subseteq Deliveries
      BY <1>5, <1>a, Zenon
    <2>2. QED
      BY <1>5, <1>7, <1>11, <1>a, <2>1, Zenon DEF Types, Created
  <1>13. Grown
    BY <1>a, Zenon DEF Grown
  <1>14. (\A v \in Workers : PassOK(work[v]))'
    BY <1>10, <1>13, <1>a, PassesOK, Zenon
  <1>15. RowsOK'
    BY <1>5, <1>7, <1>a, Zenon DEF Inv, RowsOK
  <1>16. (\A e \in Events : steady[e] \subseteq Enabled)' /\ PublishedReachedAll' /\ NotResent'
    BY <1>a, Zenon DEF Inv, Enabled, PublishedReachedAll, NotResent
  <1>17. Sole'
    BY <1>11, <1>a, Zenon DEF Inv, Sole
  <1>18. Settles'
    <2> SUFFICES ASSUME NEW k \in confirmed' \ muddled'
                 PROVE  /\ row'[k].status = "succeeded"
                        /\ \A v \in Workers : work'[v].at = "record" /\ work'[v].cur = k => work'[v].force
      BY Zenon DEF Settles
    <2>1. k \notin muddled /\ k \in Deliveries
      BY <1>12, <1>a, Zenon DEF Types
    <2>2. CASE k # d
      <3>1. k \in confirmed \ muddled
        BY <1>a, <2>1, <2>2, Zenon
      <3>2. QED
        BY <1>7, <1>11, <2>1, <2>2, <3>1, Zenon DEF Inv, Settles
    <2>3. CASE k = d
      <3>1. CASE Exists(d[1]) /\ p.ok
        <4>1. row'[d].status = "succeeded"
          BY <1>7, <3>1, Zenon
        <4>2. \A v \in Workers : work'[v].at = "record" => work'[v].cur # d
          BY <1>1, <1>2, <1>11, <1>a, <2>1, <2>3, Zenon DEF Inv, Sole
        <4>3. QED
          BY <2>3, <4>1, <4>2, Zenon
      <3>2. CASE ~(Exists(d[1]) /\ p.ok)
        <4>1. d \in confirmed \ muddled /\ ~p.force
          BY <1>a, <2>1, <2>3, <3>2, Zenon
        <4>2. FALSE
          BY <1>1, <1>2, <1>a, <4>1, Zenon DEF Inv, Settles
        <4>3. QED
          BY <4>2, Zenon
      <3>3. QED
        BY <3>1, <3>2, Zenon
    <2>4. QED
      BY <2>2, <2>3, Zenon
  <1>19. QED
    BY <1>12, <1>14, <1>15, <1>16, <1>17, <1>18, Zenon DEF Inv

\* PublishEvent marks an event only when every delivery of its pass went through.
LEMMA FinishInv ==
  ASSUME Inv, NEW w \in Workers, Finish(w)
  PROVE  Inv'
  <1>1. PICK p : p = work[w]
    BY Zenon
  <1>2. /\ p.at = "next" /\ p.todo = {} /\ work' = [work EXCEPT ![w] = Idle]
        /\ event' = [e \in Events |-> IF e \in p.msg /\ ~p.err /\ Stored(e)
                                      THEN "published" ELSE event[e]]
        /\ outbox' = [e \in Events |->
              IF e \notin p.msg THEN outbox[e]
              ELSE IF ~p.err THEN [outbox[e] EXCEPT !.at = "done"]
              ELSE Again(outbox[e])]
        /\ UNCHANGED <<hook, row, steady, accepted, confirmed, resent, muddled>>
    BY <1>1, Zenon DEF Finish, Published, ghosts
  <1>3. Types /\ PassOK(p)
    BY <1>1, Zenon DEF Inv
  <1>4. /\ event' \in [Events -> {"none", "archived", "published", "swept"}]
        /\ \A e \in Events : event'[e] = "published" => event[e] = "published" \/ (e \in p.msg /\ ~p.err)
    BY <1>2, <1>3, Zenon DEF Types
  <1>5. /\ outbox' \in [Events -> [at : {"none", "queued", "claimed", "done", "dead"}, tries : Nat]]
        /\ \A e \in Events : outbox[e].at # "none" => outbox'[e].at # "none"
    <2> SUFFICES ASSUME NEW e \in Events
                 PROVE  /\ outbox'[e] \in [at : {"none", "queued", "claimed", "done", "dead"}, tries : Nat]
                        /\ outbox[e].at # "none" => outbox'[e].at # "none"
      BY <1>2, Zenon
    <2>1. outbox[e] \in [at : {"none", "queued", "claimed", "done", "dead"}, tries : Nat]
      BY <1>3, Zenon DEF Types
    <2>2. PICK o : o = outbox[e]
      BY Zenon
    <2>3. /\ Again(o) \in [at : {"none", "queued", "claimed", "done", "dead"}, tries : Nat]
          /\ Again(o).at # "none"
      BY <2>1, <2>2 DEF Again
    <2>4. /\ [o EXCEPT !.at = "done"] \in [at : {"none", "queued", "claimed", "done", "dead"}, tries : Nat]
          /\ [o EXCEPT !.at = "done"].at # "none"
      BY <2>1, <2>2, Zenon
    <2>5. outbox'[e] = o \/ outbox'[e] = [o EXCEPT !.at = "done"] \/ outbox'[e] = Again(o)
      BY <1>2, <2>2, Zenon
    <2>6. QED
      BY <2>1, <2>2, <2>3, <2>4, <2>5, Zenon
  <1>6. PICK x : x = Idle
    BY Zenon
  <1>7. Shape(x) /\ x.at = "idle" /\ x.msg = {} /\ work' = [work EXCEPT ![w] = x]
    BY <1>2, <1>6, IdleFacts, Zenon
  <1>8. work' = [v \in Workers |-> work'[v]]
    BY <1>7, WorkFacts, Zenon
  <1>9. Types'
    <2>1. /\ hook' \in [Hooks -> {"new", "on", "off", "deleted"}] /\ row' \in [Deliveries -> Delivery]
          /\ steady' \in [Events -> SUBSET Hooks] /\ confirmed' \subseteq Deliveries
      BY <1>2, <1>3, Zenon DEF Types
    <2>2. (\E n \in 0..NHooks : Created = 1..n)'
      BY <1>2, <1>3, Zenon DEF Types, Created
    <2>3. QED
      BY <1>4, <1>5, <1>8, <2>1, <2>2, Zenon DEF Types
  <1>10. Grown
    BY <1>2, <1>5, Zenon DEF Grown
  <1>11. PassOK(x)'
    BY <1>7, Zenon DEF PassOK, Shape
  <1>12. PublishedReachedAll'
    <2>1. \A e \in p.msg : ~p.err => \A h \in steady[e] : <<h, e>> \in accepted
      BY <1>2, <1>3, Zenon DEF PassOK, Owed
    <2>2. QED
      BY <1>2, <1>4, <2>1, Zenon DEF Inv, PublishedReachedAll
  <1>13. (\A e \in Events : steady[e] \subseteq Enabled)'
    BY <1>2, Zenon DEF Inv, Enabled
  <1>14. RowsOK'
    BY <1>2, Zenon DEF Inv, RowsOK
  <1>15. \A d \in confirmed' \ muddled : d \in confirmed /\ row'[d].status = "succeeded"
    BY <1>2, Zenon DEF Inv, Settles
  <1>16. QED
    BY <1>2, <1>7, <1>9, <1>10, <1>11, <1>12, <1>13, <1>14, <1>15, PassStep, Zenon

\* The message of a worker that dies is offered again.
LEMMA CrashInv ==
  ASSUME Inv, NEW w \in Workers, Crash(w)
  PROVE  Inv'
  <1>1. PICK p : p = work[w]
    BY Zenon
  <1>2. /\ work' = [work EXCEPT ![w] = Idle]
        /\ outbox' = [e \in Events |-> IF e \in p.msg THEN [outbox[e] EXCEPT !.at = "queued"]
                                                      ELSE outbox[e]]
        /\ UNCHANGED <<hook, event, row, steady, accepted, confirmed, resent>>
        /\ muddled \subseteq muddled'
    BY <1>1, Zenon DEF Crash
  <1>3. Types
    BY Zenon DEF Inv
  <1>4. /\ outbox' \in [Events -> [at : {"none", "queued", "claimed", "done", "dead"}, tries : Nat]]
        /\ \A e \in Events : outbox[e].at # "none" => outbox'[e].at # "none"
    BY <1>2, <1>3, Zenon DEF Types
  <1>5. PICK x : x = Idle
    BY Zenon
  <1>6. Shape(x) /\ x.at = "idle" /\ x.msg = {} /\ work' = [work EXCEPT ![w] = x]
    BY <1>2, <1>5, IdleFacts, Zenon
  <1>7. work' = [v \in Workers |-> work'[v]]
    BY <1>6, WorkFacts, Zenon
  <1>8. Types'
    BY <1>2, <1>3, <1>4, <1>7, Zenon DEF Types, Created
  <1>9. Grown
    BY <1>2, <1>4, Zenon DEF Grown
  <1>10. PassOK(x)'
    BY <1>6, Zenon DEF PassOK, Shape
  <1>11. (\A e \in Events : steady[e] \subseteq Enabled)' /\ RowsOK' /\ PublishedReachedAll'
    BY <1>2, Zenon DEF Inv, Enabled, RowsOK, PublishedReachedAll
  <1>12. \A d \in confirmed' \ muddled : d \in confirmed /\ row'[d].status = "succeeded"
    BY <1>2, Zenon DEF Inv, Settles
  <1>13. QED
    BY <1>2, <1>6, <1>8, <1>9, <1>10, <1>11, <1>12, PassStep, Zenon

-----------------------------------------------------------------------------
(* The properties *)

\* Every step keeps the invariant.
LEMMA NextInv == Inv /\ [Next]_vars => Inv'
  <1> SUFFICES ASSUME Inv, [Next]_vars PROVE Inv'
    BY Zenon
  <1>0. Relays \subseteq Workers /\ Retriers \subseteq Workers /\ Admins \subseteq Workers
    BY Zenon DEF Workers
  <1>1. ASSUME NEW h \in Hooks, Update(h) \/ Delete(h) \/ \E state \in {"on", "off"} : Create(h, state)
        PROVE  Inv'
    BY <1>1, UpdateInv, DeleteInv, CreateInv, Zenon
  <1>2. ASSUME NEW w \in Workers,
               \/ (\E e \in Events : Publish(w, e)) \/ Scan(w)
               \/ \E d \in Deliveries : RetryDelivery(w, d) \/ Attempt(w, d)
               \/ \E e \in Events, hooks \in SUBSET Hooks : ReplayEvent(w, e, hooks)
               \/ \E h \in Hooks, e \in Events : Test(w, h, e)
               \/ Record(w) \/ Finish(w) \/ Crash(w)
        PROVE  Inv'
    BY <1>2, PublishInv, ScanInv, RetryDeliveryInv, ReplayInv, AttemptInv, RecordInv, FinishInv,
       CrashInv, Zenon
  <1>3. ASSUME NEW e \in Events, Emit(e) PROVE Inv'
    BY <1>3, EmitInv, Zenon
  <1>4. ASSUME \/ \E e \in Events : SweepEvent(e)
               \/ \E d \in Deliveries : Elapse(d)
               \/ UNCHANGED vars
        PROVE  Inv'
    BY <1>4, OtherInv, Zenon
  <1>5. QED
    BY <1>0, <1>1, <1>2, <1>3, <1>4, Zenon DEF Next

\* Inv holds of every reachable state.
THEOREM Invariance == Spec => []Inv
  BY InitInv, NextInv, PTL DEF Spec

\* An event marked published was accepted by every webhook enabled ever since it
\* was emitted.
THEOREM PublishedReached == Spec => []PublishedReachedAll
  <1>1. Inv => PublishedReachedAll
    BY Zenon DEF Inv
  <1>2. QED
    BY <1>1, Invariance, PTL

\* A recorded success is not sent again by the relay or a retry worker, unless
\* two workers were in the middle of it, one died in it, or an admin forced it.
THEOREM SuccessNotResent == Spec => []NotResent
  <1>1. Inv => NotResent
    BY Zenon DEF Inv
  <1>2. QED
    BY <1>1, Invariance, PTL
=============================================================================
