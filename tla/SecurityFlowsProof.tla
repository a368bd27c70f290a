------------------------- MODULE SecurityFlowsProof -------------------------
(***************************************************************************)
(* Proofs about SecurityFlows, for any number of flows, incidents, cases,  *)
(* links, sessions and credentials and for every scenario.  The argument:  *)
(* what a flow row says rests on an incident, a case and the time of the   *)
(* last recovery, and those only move one way: incidents keep what they    *)
(* recorded, a completed case stays completed, and recoveries come later.  *)
(***************************************************************************)
EXTENDS SecurityFlows, TLAPS

\* What a flow row may say, with the last recovery, the cases and the incidents.
Row(r, recovered, cs, is) ==
    /\ r.outcome # "none" => r.status = "completed"
    /\ r.proved \/ r.step \in {"verify_identity", "verify_mfa"} => r.known
    /\ r.outcome = "account_secured" => r.done <= recovered
    /\ r.grant => r.case \in Cases
    /\ r.outcome = "account_secured" /\ r.grant => cs[r.case].status = "completed"
    /\ r.incident # None => /\ is[r.incident].status # "none"
                            /\ r.contact = is[r.incident].contact
                            /\ is[r.incident].mfa => r.mfa /\ (r.proved => r.factor)

\* An incident asks for at least what the account had before it.
IncidentRow(i) == i.status # "none" => (i.before.mfa => i.mfa) /\ i.contact = i.before.email

\* A link leads to an incident or a case.
LinkRow(k, is) ==
    /\ k.purpose = "review" => k.incident \in Incidents /\ is[k.incident].status # "none"
    /\ k.purpose \in {"support_grant", "support_status"} => k.case \in Cases

\* A session signed in with a proof has spent it.
SessionRow(s, fs) == s.proof # None => fs[s.proof].outcome = "sign_in_proof_consumed"

FlowInv == \A f \in Flows : Row(flows[f], account.recovered, cases, incidents)
IncidentInv == \A i \in Incidents : IncidentRow(incidents[i])
LinkInv == \A k \in Links : LinkRow(links[k], incidents)
SessionInv == \A s \in Sessions : SessionRow(sessions[s], flows)
ClearedInv == cleared => guard # None /\ \A s \in Sessions : sessions[s].status # "live"

IInv ==
    /\ TypeOK /\ account.recovered <= now
    /\ FlowInv /\ IncidentInv /\ LinkInv /\ SessionInv /\ ClearedInv
    /\ ProofBuysOneSession /\ OneRecoveryPerCase

\* Outcomes of a flow that has not been used up.
Unused == {"none", "sign_in_approved"}

\* A flow is used up while its authority holds, and an account that it secures gets
\* the contact of the flow.
SpentWell ==
    \A g \in Flows : Spends(g) =>
        /\ Authority(g) /\ flows[g].known
        /\ flows'[g].outcome = "account_secured" => account'.email = RestoredContact(g)
-----------------------------------------------------------------------------
(* What several actions need *)

\* What other rows rest on only moves one way.
Later ==
    /\ account.recovered <= account'.recovered /\ account'.recovered <= now'
    /\ \A c \in Cases : cases[c].status = "completed" => cases'[c].status = "completed"
    /\ \A i \in Incidents : incidents[i].status # "none" =>
        /\ incidents'[i].status # "none"
        /\ incidents'[i].mfa = incidents[i].mfa /\ incidents'[i].contact = incidents[i].contact
        /\ incidents'[i].before = incidents[i].before

\* The fields of a row that Row does not mention do not matter to it.
LEMMA RowOfFields ==
    ASSUME NEW r, NEW q, NEW n, NEW cs, NEW is, Row(q, n, cs, is),
           r.outcome = q.outcome, r.status = q.status, r.proved = q.proved, r.step = q.step,
           r.known = q.known, r.done = q.done, r.grant = q.grant, r.case = q.case,
           r.incident = q.incident, r.contact = q.contact, r.mfa = q.mfa, r.factor = q.factor
    PROVE  Row(r, n, cs, is)
BY Zenon DEF Row

\* A row that nothing has touched still says what it may.
LEMMA RowKept ==
    ASSUME TypeOK, TypeOK', Later, NEW r \in Flow,
           Row(r, account.recovered, cases, incidents)
    PROVE  Row(r, account'.recovered, cases', incidents')
<1>1. r.done \in Nat /\ account.recovered \in Nat /\ account'.recovered \in Nat
    BY Zenon DEF TypeOK, Flow, Account
<1>2. r.outcome = "account_secured" => r.done <= account'.recovered
    <2> SUFFICES ASSUME r.outcome = "account_secured" PROVE r.done <= account'.recovered
        BY Zenon
    <2>1. r.done <= account.recovered
        BY Zenon DEF Row
    <2> QED
        BY <1>1, <2>1, SMT DEF Later
<1>3. r.grant => r.case \in Cases
    BY Zenon DEF Row
<1>4. r.outcome = "account_secured" /\ r.grant => cases'[r.case].status = "completed"
    BY <1>3, Zenon DEF Row, Later
<1>5. r.incident \in Incidents \cup {None}
    BY Zenon DEF Flow
<1>6. r.incident # None => /\ incidents'[r.incident].status # "none"
                           /\ r.contact = incidents'[r.incident].contact
                           /\ incidents'[r.incident].mfa => r.mfa /\ (r.proved => r.factor)
    BY <1>5, Zenon DEF Row, Later
<1> QED
    BY <1>2, <1>3, <1>4, <1>6, Zenon DEF Row

\* The flow f is written by a request that found it open.
LEMMA FlowWritten ==
    ASSUME IInv, TypeOK', Later, NEW f \in Flows, NEW row \in Flow, flows[f].status # "completed",
           flows' = [flows EXCEPT ![f] = row],
           Row(row, account'.recovered, cases', incidents'),
           row.outcome = "account_secured" /\ row.grant => cases[row.case].status # "completed",
           \A s \in Sessions : sessions'[s].proof = sessions[s].proof
    PROVE  FlowInv' /\ SessionInv' /\ ProofBuysOneSession' /\ OneRecoveryPerCase'
<1>1. flows'[f] = row /\ \A g \in Flows : g # f => flows'[g] = flows[g]
    BY Zenon DEF IInv, TypeOK
<1>2. TypeOK /\ FlowInv /\ SessionInv /\ ProofBuysOneSession /\ OneRecoveryPerCase
    BY Zenon DEF IInv
<1>3. \A g \in Flows : flows[g] \in Flow
    BY <1>2, Zenon DEF TypeOK
<1>4. FlowInv'
    <2> SUFFICES ASSUME NEW g \in Flows
                 PROVE  Row(flows'[g], account'.recovered, cases', incidents')
        BY Zenon DEF FlowInv
    <2>1. CASE g = f
        BY <1>1, <2>1, Zenon
    <2>2. CASE g # f
        <3>1. Row(flows[g], account.recovered, cases, incidents)
            BY <1>2, Zenon DEF FlowInv
        <3>2. flows'[g] = flows[g] /\ flows[g] \in Flow
            BY <1>1, <1>3, <2>2, Zenon
        <3> QED
            BY <1>2, <3>1, <3>2, RowKept, Zenon
    <2> QED
        BY <2>1, <2>2, Zenon
<1>5. flows[f].outcome = "none"
    BY <1>2, Zenon DEF FlowInv, Row
<1>6. SessionInv'
    <2> SUFFICES ASSUME NEW s \in Sessions, sessions'[s].proof # None
                 PROVE  flows'[sessions'[s].proof].outcome = "sign_in_proof_consumed"
        BY Zenon DEF SessionInv, SessionRow
    <2>1. sessions[s].proof # None /\ sessions'[s].proof = sessions[s].proof
        BY Zenon
    <2>2. flows[sessions[s].proof].outcome = "sign_in_proof_consumed"
        BY <1>2, <2>1, Zenon DEF SessionInv, SessionRow
    <2>3. sessions[s].proof \in Flows
        BY <1>2, <2>1, Zenon DEF TypeOK, Session
    <2>4. sessions[s].proof # f
        BY <1>5, <2>2, Zenon
    <2> QED
        BY <1>1, <2>1, <2>2, <2>3, <2>4, Zenon
<1>7. ProofBuysOneSession'
    BY <1>2, Zenon DEF ProofBuysOneSession
<1>8. \A g \in Flows : flows[g].outcome = "account_secured" /\ flows[g].grant
                       => cases[flows[g].case].status = "completed"
    BY <1>2, Zenon DEF FlowInv, Row
<1>9. OneRecoveryPerCase'
    <2> SUFFICES ASSUME NEW g \in Flows, NEW h \in Flows, g # h,
                        flows'[g].outcome = "account_secured", flows'[g].grant,
                        flows'[h].outcome = "account_secured", flows'[h].grant,
                        flows'[g].case = flows'[h].case
                 PROVE  FALSE
        BY Zenon DEF OneRecoveryPerCase
    <2>1. CASE g = f
        <3>1. flows'[g] = row /\ flows'[h] = flows[h]
            BY <1>1, <2>1, Zenon
        <3>2. cases[flows[h].case].status = "completed"
            BY <1>8, <3>1, Zenon
        <3> QED
            BY <3>1, <3>2, Zenon
    <2>2. CASE h = f
        <3>1. flows'[h] = row /\ flows'[g] = flows[g]
            BY <1>1, <2>2, Zenon
        <3>2. cases[flows[g].case].status = "completed"
            BY <1>8, <3>1, Zenon
        <3> QED
            BY <3>1, <3>2, Zenon
    <2>3. CASE g # f /\ h # f
        BY <1>1, <1>2, <2>3, Zenon DEF OneRecoveryPerCase
    <2> QED
        BY <2>1, <2>2, <2>3, Zenon
<1> QED
    BY <1>4, <1>6, <1>7, <1>9, Zenon

\* No flow is written.
LEMMA FlowsLeft ==
    ASSUME IInv, TypeOK', Later, flows' = flows,
           \A s \in Sessions : sessions'[s].proof = sessions[s].proof
    PROVE  FlowInv' /\ SessionInv' /\ ProofBuysOneSession' /\ OneRecoveryPerCase'
<1>1. TypeOK /\ FlowInv /\ SessionInv /\ ProofBuysOneSession /\ OneRecoveryPerCase
    BY Zenon DEF IInv
<1>2. \A g \in Flows : flows[g] \in Flow
    BY <1>1, Zenon DEF TypeOK
<1>3. FlowInv'
    BY <1>1, <1>2, RowKept, Zenon DEF FlowInv
<1>4. SessionInv'
    BY <1>1, Zenon DEF SessionInv, SessionRow
<1>5. ProofBuysOneSession' /\ OneRecoveryPerCase'
    BY <1>1, Zenon DEF ProofBuysOneSession, OneRecoveryPerCase
<1> QED
    BY <1>3, <1>4, <1>5, Zenon

Room == [creds : SUBSET Creds, changes : Nat, reviews : Nat, supports : Nat, cases : Nat]

\* An event leaves the incidents there are, and a new one asks for what the account
\* had before it.
LEMMA RecordFacts ==
    ASSUME IInv, NEW s \in Sessions \cup {None}, NEW mfa \in BOOLEAN, MFAActive => mfa,
           Record(s, account.email, mfa)
    PROVE  /\ incidents' \in [Incidents -> Incident] /\ links' \in [Links -> Link]
           /\ IncidentInv' /\ LinkInv'
           /\ \A i \in Incidents : incidents[i].status # "none" => incidents'[i] = incidents[i]
<1>1. /\ incidents \in [Incidents -> Incident] /\ links \in [Links -> Link]
      /\ account.email \in Contact /\ now \in Nat
    BY DEF IInv, TypeOK, Account
<1>2. IncidentInv /\ LinkInv
    BY Zenon DEF IInv
<1>3. CASE UNCHANGED <<incidents, links>>
    <2>1. incidents' = incidents /\ links' = links
        BY <1>3, Zenon
    <2> QED
        BY <1>1, <1>2, <2>1, Zenon DEF IncidentInv, LinkInv
<1>4. ASSUME NEW i \in Incidents, NEW before, before = [email |-> account.email, mfa |-> MFAActive],
             NEW row, row = [status |-> "open", at |-> now, session |-> s, contact |-> account.email,
                             mfa |-> mfa, before |-> before],
             incidents[i].status = "none", incidents' = [incidents EXCEPT ![i] = row],
             \/ UNCHANGED links
             \/ \E k \in Links : links' = [links EXCEPT ![k] = [NoLink EXCEPT !.purpose = "review",
                                                                             !.incident = i]]
      PROVE  /\ incidents' \in [Incidents -> Incident] /\ links' \in [Links -> Link]
             /\ IncidentInv' /\ LinkInv'
             /\ \A j \in Incidents : incidents[j].status # "none" => incidents'[j] = incidents[j]
    <2>0. MFAActive \in BOOLEAN
        BY Zenon DEF MFAActive
    <2>1. before \in [email : Contact, mfa : BOOLEAN]
        BY <1>1, <1>4, <2>0, Zenon
    <2>2. row \in Incident
        BY <1>1, <1>4, <2>1, Zenon DEF Incident
    <2>3. incidents'[i] = row /\ \A j \in Incidents : j # i => incidents'[j] = incidents[j]
        BY <1>1, <1>4, Zenon
    <2>4. incidents' \in [Incidents -> Incident]
        BY <1>1, <1>4, <2>2, Zenon
    <2>5. /\ row.status = "open" /\ row.contact = account.email /\ row.mfa = mfa
          /\ row.before.email = account.email /\ row.before.mfa = MFAActive
        BY <1>4, Zenon
    <2>6. IncidentRow(row)
        BY <2>5, Zenon DEF IncidentRow
    <2>7. IncidentInv'
        BY <1>2, <2>3, <2>6, Zenon DEF IncidentInv
    <2>8. \A j \in Incidents : incidents[j].status # "none" => incidents'[j] = incidents[j]
        BY <1>4, <2>3, Zenon
    <2>9. \A k \in Links : LinkRow(links[k], incidents')
        BY <1>2, <2>8, Zenon DEF LinkInv, LinkRow
    <2>10. CASE UNCHANGED links
        BY <1>1, <2>4, <2>7, <2>8, <2>9, <2>10, Zenon DEF LinkInv
    <2>11. ASSUME NEW k \in Links, NEW l, l = [NoLink EXCEPT !.purpose = "review", !.incident = i],
                  links' = [links EXCEPT ![k] = l]
           PROVE  links' \in [Links -> Link] /\ LinkInv'
        <3>1. l \in Link /\ l.purpose = "review" /\ l.incident = i
            BY <2>11, Zenon DEF Link, NoLink, Purposes
        <3>2. LinkRow(l, incidents')
            BY <2>3, <2>5, <3>1, Zenon DEF LinkRow
        <3>3. links'[k] = l /\ \A j \in Links : j # k => links'[j] = links[j]
            BY <1>1, <2>11, Zenon
        <3>4. links' \in [Links -> Link]
            BY <1>1, <2>11, <3>1, Zenon
        <3> QED
            BY <2>9, <3>2, <3>3, <3>4, Zenon DEF LinkInv
    <2> QED
        BY <1>4, <2>4, <2>7, <2>8, <2>10, <2>11, Zenon
<1>5. CASE ~UNCHANGED <<incidents, links>>
    <2>1. PICK i \in Incidents :
            /\ incidents[i].status = "none"
            /\ incidents' = [incidents EXCEPT ![i] = [status |-> "open", at |-> now, session |-> s,
                    contact |-> account.email, mfa |-> mfa,
                    before |-> [email |-> account.email, mfa |-> MFAActive]]]
            /\ \/ UNCHANGED links
               \/ \E k \in Links : links' = [links EXCEPT ![k] = [NoLink EXCEPT !.purpose = "review",
                                                                               !.incident = i]]
        BY <1>5, Zenon DEF Record
    <2> QED
        BY <1>4, <2>1, Zenon
<1> QED
    BY <1>3, <1>5, Zenon

\* A link to a case leads to it, and the links there are stay what they were.
LEMMA SendLinkFacts ==
    ASSUME IInv, NEW c \in Cases, NEW purpose \in {"support_grant", "support_status"},
           SendLink(c, purpose)
    PROVE  links' \in [Links -> Link] /\ \A k \in Links : LinkRow(links'[k], incidents)
<1>1. links \in [Links -> Link] /\ LinkInv
    BY Zenon DEF IInv, TypeOK
<1>2. PICK k \in Links : links' = [j \in Links |->
            IF j = k THEN [NoLink EXCEPT !.purpose = purpose, !.case = c]
            ELSE IF purpose = "support_grant" /\ links[j].purpose = "support_grant" /\ links[j].case = c
                 THEN [links[j] EXCEPT !.consumed = TRUE] ELSE links[j]]
    BY Zenon DEF SendLink
<1>3. ASSUME NEW j \in Links
      PROVE  links'[j] \in Link /\ LinkRow(links'[j], incidents)
    <2>1. links[j] \in Link /\ LinkRow(links[j], incidents)
        BY <1>1, Zenon DEF LinkInv
    <2>2. CASE links'[j] = [NoLink EXCEPT !.purpose = purpose, !.case = c]
        <3>1. links'[j] \in Link /\ links'[j].purpose = purpose /\ links'[j].case = c
            BY <2>2, Zenon DEF Link, NoLink, Purposes
        <3> QED
            BY <3>1, Zenon DEF LinkRow
    <2>3. CASE links'[j] = [links[j] EXCEPT !.consumed = TRUE]
        <3>1. /\ links'[j] \in Link /\ links'[j].purpose = links[j].purpose
              /\ links'[j].case = links[j].case /\ links'[j].incident = links[j].incident
            BY <2>1, <2>3, Zenon DEF Link
        <3> QED
            BY <2>1, <3>1, Zenon DEF LinkRow
    <2>4. CASE links'[j] = links[j]
        BY <2>1, <2>4, Zenon
    <2> QED
        BY <1>2, <2>2, <2>3, <2>4, Zenon
<1> QED
    BY <1>2, <1>3, Zenon

\* A review of an incident asks for the factor the incident asks for.
LEMMA ReviewFlowFacts ==
    ASSUME IInv, NEW i \in Incidents \cup {None}, i # None => incidents[i].status # "none",
           NEW s \in Sessions \cup {None}, NEW signin \in BOOLEAN
    PROVE  /\ ReviewFlow(i, s, signin) \in Flow
           /\ ReviewFlow(i, s, signin).outcome = "none"
           /\ Row(ReviewFlow(i, s, signin), account.recovered, cases, incidents)
<1> DEFINE at == IF i = None THEN now ELSE incidents[i].at
           to == IF i = None THEN account.email ELSE incidents[i].contact
           mfa == PriorMFA(at) \/ (i # None /\ incidents[i].mfa)
           target == IF i = None THEN s ELSE incidents[i].session
           step == IF to = None THEN "verify_mfa" ELSE "verify_identity"
           row == [NoFlow EXCEPT !.status = "pending", !.known = TRUE, !.signin = signin, !.incident = i,
                      !.target = target, !.cutoff = at, !.contact = to, !.recipient = to,
                      !.mfa = mfa, !.step = step]
<1>1. i # None => incidents[i] \in Incident
    BY Zenon DEF IInv, TypeOK
<1>2. account.email \in Contact /\ now \in Nat
    BY DEF IInv, TypeOK, Account
<1>3. at \in Nat /\ to \in Contact /\ target \in Sessions \cup {None}
    BY <1>1, <1>2, Zenon DEF Incident
<1>4. mfa \in BOOLEAN
    BY Zenon
<1>5. step \in {"verify_mfa", "verify_identity"}
    BY Zenon
<1>6. ReviewFlow(i, s, signin) = row
    BY Zenon DEF ReviewFlow
<1>7. i # None => to = incidents[i].contact /\ (incidents[i].mfa => mfa)
    BY Zenon
<1> HIDE DEF at, to, mfa, target, step
<1>8. row \in Flow
    BY <1>3, <1>4, <1>5 DEF Flow, NoFlow, Contact, Steps, Outcomes
<1>9. /\ row.status = "pending" /\ row.known = TRUE /\ row.incident = i /\ row.contact = to
      /\ row.mfa = mfa /\ row.outcome = "none" /\ row.proved = FALSE /\ row.grant = FALSE
    BY Zenon DEF NoFlow
<1> HIDE DEF row
<1>10. Row(row, account.recovered, cases, incidents)
    BY <1>7, <1>9, Zenon DEF Row
<1> QED
    BY <1>6, <1>8, <1>9, <1>10, Zenon

\* A proof of ownership that the flow's incident accepts.
LEMMA ProveFacts ==
    ASSUME IInv, NEW f \in Flows, NEW row \in Flow, Prove(f, row), row.known = TRUE, row.outcome = "none",
           row.grant => row.case \in Cases,
           row.incident # None => /\ incidents[row.incident].status # "none"
                                  /\ row.contact = incidents[row.incident].contact
                                  /\ incidents[row.incident].mfa => row.mfa /\ row.factor
    PROVE  \E r \in Flow : /\ flows' = [flows EXCEPT ![f] = r] /\ r.outcome \in Unused
                           /\ Row(r, account.recovered, cases, incidents)
<1>1. CASE row.signin
    <2> DEFINE r == [row EXCEPT !.proved = TRUE, !.status = "completed", !.step = "completed",
                                !.outcome = "sign_in_approved"]
    <2>1. flows' = [flows EXCEPT ![f] = r]
        BY <1>1, Zenon DEF Prove
    <2>2. r \in Flow
        BY Zenon DEF Flow, Steps, Outcomes
    <2>3. /\ r.status = "completed" /\ r.known = TRUE /\ r.outcome = "sign_in_approved"
          /\ r.grant = row.grant /\ r.case = row.case /\ r.incident = row.incident
          /\ r.contact = row.contact /\ r.mfa = row.mfa /\ r.factor = row.factor
        BY Zenon DEF Flow
    <2> HIDE DEF r
    <2>4. r.outcome # "none" /\ r.outcome # "account_secured" /\ r.outcome \in Unused
        BY <2>3, Zenon DEF Unused
    <2>5. Row(r, account.recovered, cases, incidents)
        BY <2>3, <2>4, Zenon DEF Row
    <2> QED
        BY <2>1, <2>2, <2>4, <2>5, Zenon
<1>2. CASE ~row.signin
    <2> DEFINE r == [row EXCEPT !.proved = TRUE, !.step = "review"]
    <2>1. flows' = [flows EXCEPT ![f] = r]
        BY <1>2, Zenon DEF Prove
    <2>2. r \in Flow
        BY Zenon DEF Flow, Steps
    <2>3. /\ r.known = TRUE /\ r.outcome = "none"
          /\ r.grant = row.grant /\ r.case = row.case /\ r.incident = row.incident
          /\ r.contact = row.contact /\ r.mfa = row.mfa /\ r.factor = row.factor
        BY Zenon DEF Flow
    <2> HIDE DEF r
    <2>4. r.outcome # "account_secured" /\ r.outcome \in Unused
        BY <2>3, Zenon DEF Unused
    <2>5. Row(r, account.recovered, cases, incidents)
        BY <2>3, <2>4, Zenon DEF Row
    <2> QED
        BY <2>1, <2>2, <2>4, <2>5, Zenon
<1> QED
    BY <1>1, <1>2, Zenon

\* A flow that ends takes its incident and its case with it.
LEMMA CompleteFacts ==
    ASSUME IInv, NEW f \in Flows, NEW outcome \in {"activity_confirmed", "account_secured"},
           flows[f].status = "pending", Authority(f), Complete(f, outcome),
           NEW n \in Nat, outcome = "account_secured" => now <= n
    PROVE  /\ incidents' \in [Incidents -> Incident] /\ cases' \in [Cases -> Case]
           /\ \A i \in Incidents : incidents[i].status # "none" =>
                /\ incidents'[i].status # "none"
                /\ incidents'[i].mfa = incidents[i].mfa /\ incidents'[i].contact = incidents[i].contact
                /\ incidents'[i].before = incidents[i].before
           /\ IncidentInv' /\ \A k \in Links : LinkRow(links[k], incidents')
           /\ \A c \in Cases : cases[c].status = "completed" => cases'[c].status = "completed"
           /\ \E r \in Flow : /\ flows' = [flows EXCEPT ![f] = r] /\ Row(r, n, cases', incidents')
                              /\ r.grant => cases[r.case].status # "completed"
<1>1. /\ incidents \in [Incidents -> Incident] /\ cases \in [Cases -> Case]
      /\ flows \in [Flows -> Flow] /\ flows[f] \in Flow /\ now \in Nat
    BY DEF IInv, TypeOK
<1>2. FlowInv /\ IncidentInv /\ LinkInv
    BY Zenon DEF IInv
<1>3. Row(flows[f], account.recovered, cases, incidents)
    BY <1>2, Zenon DEF FlowInv
<1>4. ASSUME NEW i \in Incidents
      PROVE  /\ incidents'[i] \in Incident
             /\ incidents'[i].mfa = incidents[i].mfa /\ incidents'[i].contact = incidents[i].contact
             /\ incidents'[i].before = incidents[i].before
             /\ incidents'[i].status # "none" <=> incidents[i].status # "none"
    <2>1. CASE i = flows[f].incident
        <3>1. i # None
            BY SecurityAssumption, Zenon
        <3>2. incidents[i].status # "none"
            BY <1>3, <2>1, <3>1, Zenon DEF Row
        <3>3. incidents'[i] = [incidents[i] EXCEPT !.status = "resolved"] /\ incidents[i] \in Incident
            BY <1>1, <2>1, Zenon DEF Complete
        <3> QED
            BY <3>2, <3>3, Zenon DEF Incident
    <2>2. CASE i # flows[f].incident
        BY <1>1, <2>2, Zenon DEF Complete
    <2> QED
        BY <2>1, <2>2, Zenon
<1>5. incidents' \in [Incidents -> Incident]
    BY <1>4, Zenon DEF Complete
<1>6. IncidentInv'
    BY <1>2, <1>4, Zenon DEF IncidentInv, IncidentRow
<1>7. \A k \in Links : LinkRow(links[k], incidents')
    BY <1>2, <1>4, Zenon DEF LinkInv, LinkRow
<1>8. ASSUME NEW c \in Cases
      PROVE  /\ cases'[c] \in Case
             /\ cases[c].status = "completed" => cases'[c].status = "completed"
             /\ flows[f].grant /\ c = flows[f].case => cases'[c].status = "completed"
    <2>1. cases[c] \in Case
        BY <1>1, Zenon
    <2>2. CASE flows[f].grant /\ c = flows[f].case
        <3>1. cases'[c] = [cases[c] EXCEPT !.status = "completed"]
            BY <2>2, Zenon DEF Complete
        <3> QED
            BY <2>1, <3>1, Zenon DEF Case
    <2>3. CASE ~(flows[f].grant /\ c = flows[f].case)
        <3>1. cases'[c] = cases[c]
            BY <2>3, Zenon DEF Complete
        <3> QED
            BY <2>1, <2>3, <3>1, Zenon
    <2> QED
        BY <2>2, <2>3, Zenon
<1>9. cases' \in [Cases -> Case]
    BY <1>8, Zenon DEF Complete
<1> DEFINE r == [flows[f] EXCEPT !.status = "completed", !.step = "completed", !.outcome = outcome, !.done = now]
<1>10. flows' = [flows EXCEPT ![f] = r]
    BY <1>1, Zenon DEF Complete
<1>11. r \in Flow
    BY <1>1, Zenon DEF Flow, Steps, Outcomes
<1>12. /\ r.status = "completed" /\ r.step = "completed" /\ r.outcome = outcome /\ r.done = now
       /\ r.proved = flows[f].proved /\ r.known = flows[f].known /\ r.grant = flows[f].grant
       /\ r.case = flows[f].case /\ r.incident = flows[f].incident /\ r.contact = flows[f].contact
       /\ r.mfa = flows[f].mfa /\ r.factor = flows[f].factor
    BY <1>1, Zenon DEF Flow
<1> HIDE DEF r
<1>13. r.grant => r.case \in Cases /\ cases'[r.case].status = "completed" /\ cases[r.case].status # "completed"
    <2> SUFFICES ASSUME r.grant PROVE r.case \in Cases /\ cases'[r.case].status = "completed"
                                      /\ cases[r.case].status = "approved"
        BY Zenon
    <2>1. r.case \in Cases
        BY <1>3, <1>12, Zenon DEF Row
    <2> QED
        BY <1>8, <1>12, <2>1, Zenon DEF Authority
<1>14. r.incident # None => /\ incidents'[r.incident].status # "none"
                            /\ r.contact = incidents'[r.incident].contact
                            /\ incidents'[r.incident].mfa => r.mfa /\ (r.proved => r.factor)
    <2> SUFFICES ASSUME r.incident # None
                 PROVE  /\ incidents'[r.incident].status # "none"
                        /\ r.contact = incidents'[r.incident].contact
                        /\ incidents'[r.incident].mfa => r.mfa /\ (r.proved => r.factor)
        BY Zenon
    <2>1. r.incident \in Incidents
        BY <1>11, Zenon DEF Flow
    <2> QED
        BY <1>3, <1>4, <1>12, <2>1, Zenon DEF Row
<1>15. r.step \notin {"verify_identity", "verify_mfa"}
    BY <1>12, Zenon
<1>16. Row(r, n, cases', incidents')
    BY <1>3, <1>12, <1>13, <1>14, <1>15, Zenon DEF Row
<1> QED
    BY <1>4, <1>5, <1>6, <1>7, <1>8, <1>9, <1>10, <1>11, <1>13, <1>16, Zenon

\* A case is opened, or resumed, for the flow: a completed one stays completed.
LEMMA OpenCaseFacts ==
    ASSUME IInv, NEW f \in Flows, NEW changed \in Flow, OpenCase(f, changed)
    PROVE  /\ cases' \in [Cases -> Case] /\ links' \in [Links -> Link] /\ room' \in Room
           /\ \A c \in Cases : cases[c].status = "completed" => cases'[c].status = "completed"
           /\ \A k \in Links : LinkRow(links'[k], incidents)
           /\ \E id \in Contact, c \in Cases :
                flows' = [flows EXCEPT ![f] = [[changed EXCEPT !.identifier = id]
                                                EXCEPT !.case = c, !.step = "awaiting_support"]]
<1> DEFINE id == IF changed.identifier = None /\ changed.known THEN account.email ELSE changed.identifier
           row == [changed EXCEPT !.identifier = id]
           New(c) == [status |-> "pending", identifier |-> id, contact |-> row.recipient,
                      known |-> row.known \/ id = account.email, prot |-> row.prot, grant |-> None]
<1>1. /\ cases \in [Cases -> Case] /\ links \in [Links -> Link] /\ room \in Room
      /\ account.email \in Contact /\ LinkInv
    BY Zenon DEF IInv, TypeOK, Account, Room
<1>2. id \in Contact
    BY <1>1, Zenon DEF Flow
<1>3. \/ \E c \in Cases : ResumeCase(f, row, c) /\ UNCHANGED room
      \/ \E c \in Cases : /\ cases[c].status = "none" /\ room.cases > 0
                          /\ room' = [room EXCEPT !.cases = @ - 1]
                          /\ cases' = [cases EXCEPT ![c] = New(c)]
                          /\ flows' = [flows EXCEPT ![f] = [row EXCEPT !.case = c, !.step = "awaiting_support"]]
                          /\ SendLink(c, "support_status")
    BY Zenon DEF OpenCase
<1> HIDE DEF id
<1>4. row \in Flow
    BY <1>2, Zenon DEF Flow
<1>5. ASSUME NEW c \in Cases, ResumeCase(f, row, c), UNCHANGED room
      PROVE  /\ cases' \in [Cases -> Case] /\ links' \in [Links -> Link] /\ room' \in Room
             /\ \A d \in Cases : cases[d].status = "completed" => cases'[d].status = "completed"
             /\ \A k \in Links : LinkRow(links'[k], incidents)
             /\ flows' = [flows EXCEPT ![f] = [row EXCEPT !.case = c, !.step = "awaiting_support"]]
    <2> DEFINE n == [cases[c] EXCEPT !.prot = @ \/ row.prot]
    <2>1. cases[c] \in Case
        BY <1>1, Zenon
    <2>2. (cases[c].prot \/ row.prot) \in BOOLEAN
        BY Zenon
    <2>3. n \in Case /\ n.status = cases[c].status
        BY <2>1, <2>2, Zenon DEF Case
    <2>4. cases' = [cases EXCEPT ![c] = n]
        BY <1>1, <1>5, Zenon DEF ResumeCase
    <2> HIDE DEF n
    <2>5. /\ cases' \in [Cases -> Case]
          /\ \A d \in Cases : cases[d].status = "completed" => cases'[d].status = "completed"
        BY <1>1, <2>3, <2>4, Zenon
    <2>6. links' \in [Links -> Link] /\ \A k \in Links : LinkRow(links'[k], incidents)
        <3>1. CASE SendLink(c, "support_grant")
            BY <3>1, SendLinkFacts, Zenon
        <3>2. CASE links' = links
            BY <1>1, <3>2, Zenon DEF LinkInv
        <3> QED
            BY <1>5, <3>1, <3>2, Zenon DEF ResumeCase
    <2>7. flows' = [flows EXCEPT ![f] = [row EXCEPT !.case = c, !.step = "awaiting_support"]]
        BY <1>5, Zenon DEF ResumeCase
    <2> QED
        BY <1>1, <1>5, <2>5, <2>6, <2>7, Zenon
<1>6. ASSUME NEW c \in Cases, cases[c].status = "none", room.cases > 0,
             room' = [room EXCEPT !.cases = @ - 1], cases' = [cases EXCEPT ![c] = New(c)],
             SendLink(c, "support_status")
      PROVE  /\ cases' \in [Cases -> Case] /\ links' \in [Links -> Link] /\ room' \in Room
             /\ \A d \in Cases : cases[d].status = "completed" => cases'[d].status = "completed"
             /\ \A k \in Links : LinkRow(links'[k], incidents)
    <2>1. (row.known \/ id = account.email) \in BOOLEAN
        BY Zenon
    <2>2. New(c) \in Case
        BY <1>2, <1>4, <2>1, Zenon DEF Case, Flow
    <2>3. room' \in Room
        BY <1>1, <1>6 DEF Room
    <2>4. links' \in [Links -> Link] /\ \A k \in Links : LinkRow(links'[k], incidents)
        BY <1>6, SendLinkFacts, Zenon
    <2>5. \A d \in Cases : cases[d].status = "completed" => d # c
        BY <1>6, Zenon
    <2> HIDE DEF New
    <2>6. /\ cases' \in [Cases -> Case]
          /\ \A d \in Cases : cases[d].status = "completed" => cases'[d].status = "completed"
        BY <1>1, <1>6, <2>2, <2>5, Zenon
    <2> QED
        BY <2>3, <2>4, <2>6, Zenon
<1> HIDE DEF New
<1> QED
    BY <1>2, <1>3, <1>5, <1>6, Zenon
-----------------------------------------------------------------------------
(* What is kept when the rest stays as it is *)

\* No flow is written and nobody signs in.
LEMMA OutsideFlows ==
    ASSUME IInv, account' \in Account, account'.recovered = account.recovered,
           now' \in 0..MaxTime, now <= now', room' \in Room,
           incidents' \in [Incidents -> Incident], links' \in [Links -> Link], cases' \in [Cases -> Case],
           IncidentInv', LinkInv',
           \A i \in Incidents : incidents[i].status # "none" => incidents'[i] = incidents[i],
           \A c \in Cases : cases[c].status = "completed" => cases'[c].status = "completed",
           sessions' = sessions, guard' = guard, flows' = flows, cleared' = cleared
    PROVE  IInv' /\ SpentWell
<1>1. TypeOK /\ account.recovered <= now /\ ClearedInv
    BY Zenon DEF IInv
<1>2. TypeOK'
    BY <1>1, Zenon DEF TypeOK, Room
<1>3. account.recovered \in Nat /\ now \in Nat /\ now' \in Nat
    BY <1>1 DEF TypeOK, Account
<1>4. account'.recovered <= now' /\ account.recovered <= account'.recovered
    BY <1>1, <1>3
<1>5. Later
    BY <1>4, Zenon DEF Later
<1>6. FlowInv' /\ SessionInv' /\ ProofBuysOneSession' /\ OneRecoveryPerCase'
    BY <1>2, <1>5, FlowsLeft, Zenon
<1>7. ClearedInv'
    BY <1>1, Zenon DEF ClearedInv
<1>8. SpentWell
    BY Zenon DEF SpentWell, Spends
<1> QED
    BY <1>2, <1>4, <1>6, <1>7, <1>8, Zenon DEF IInv

\* A flow is written and does not end with the account secured.
LEMMA InFlow ==
    ASSUME IInv, NEW f \in Flows, NEW row \in Flow, flows[f].status # "completed",
           flows' = [flows EXCEPT ![f] = row], row.outcome \in Unused,
           Row(row, account.recovered, cases, incidents),
           account' \in Account, account'.recovered = account.recovered, room' \in Room,
           links' \in [Links -> Link], \A k \in Links : LinkRow(links'[k], incidents),
           cases' \in [Cases -> Case],
           \A c \in Cases : cases[c].status = "completed" => cases'[c].status = "completed",
           guard' \in Flows \cup {None}, guard # None => guard' # None,
           now' = now, sessions' = sessions, incidents' = incidents, cleared' = cleared
    PROVE  IInv' /\ SpentWell
<1>1. TypeOK /\ account.recovered <= now /\ ClearedInv /\ IncidentInv
    BY Zenon DEF IInv
<1>2. flows' \in [Flows -> Flow]
    BY <1>1, Zenon DEF TypeOK
<1>3. TypeOK'
    BY <1>1, <1>2, Zenon DEF TypeOK, Room
<1>4. account.recovered \in Nat /\ now \in Nat
    BY <1>1 DEF TypeOK, Account
<1>5. account'.recovered <= now' /\ account.recovered <= account'.recovered
    BY <1>1, <1>4
<1>6. Later
    BY <1>5, Zenon DEF Later
<1>7. Row(row, account'.recovered, cases', incidents')
    BY <1>1, <1>3, <1>6, RowKept, Zenon
<1>8. FlowInv' /\ SessionInv' /\ ProofBuysOneSession' /\ OneRecoveryPerCase'
    <2>1. row.outcome # "account_secured"
        BY Zenon DEF Unused
    <2> QED
        BY <1>3, <1>6, <1>7, <2>1, FlowWritten, Zenon
<1>9. ClearedInv' /\ IncidentInv' /\ LinkInv'
    BY <1>1, Zenon DEF ClearedInv, IncidentInv, LinkInv
<1>10. SpentWell
    <2>1. flows'[f] = row /\ \A g \in Flows : g # f => flows'[g] = flows[g]
        BY <1>1, Zenon DEF TypeOK
    <2>2. \A g \in Flows : ~Spends(g)
        BY <2>1, Zenon DEF Spends, Unused
    <2> QED
        BY <2>2, Zenon DEF SpentWell
<1> QED
    BY <1>3, <1>5, <1>8, <1>9, <1>10, Zenon DEF IInv
-----------------------------------------------------------------------------
(* The invariant holds at first, and every step keeps it *)

\* The account is fresh: no flow, incident, case, link or session.
LEMMA InitHolds == Init => IInv
<1> SUFFICES ASSUME Init PROVE IInv
    BY Zenon
<1>1. now = 0 /\ guard = None /\ room \in Scenarios /\ cleared = FALSE
    BY Zenon DEF Init
<1>2. PICK e \in Identifiers \cup {None} :
        account = [email |-> e, recovered |-> 0, creds |-> [x \in Creds |->
                    [NoCred EXCEPT !.state = IF x \in room.creds THEN "active" ELSE "none"]]]
    BY Zenon DEF Init
<1>3. account \in Account /\ account.recovered = 0
    <2> DEFINE cr == [x \in Creds |-> [NoCred EXCEPT !.state = IF x \in room.creds THEN "active" ELSE "none"]]
    <2>1. cr \in [Creds -> Cred]
        BY Zenon DEF Cred, NoCred
    <2>2. account = [email |-> e, recovered |-> 0, creds |-> cr]
        BY <1>2, Zenon
    <2> HIDE DEF cr
    <2>3. e \in Contact
        BY SecurityAssumption, Zenon DEF Contact
    <2> QED
        BY <2>1, <2>2, <2>3, Zenon DEF Account
<1>4. \A s \in Sessions : sessions[s] = NoSession
    BY Zenon DEF Init
<1>5. \A i \in Incidents : incidents[i] = NoIncident
    BY Zenon DEF Init
<1>6. \A f \in Flows : flows[f] = NoFlow
    BY Zenon DEF Init
<1>7. \A k \in Links : links[k] = NoLink
    BY Zenon DEF Init
<1>8. NoSession \in Session /\ NoSession.proof = None /\ NoSession.status # "live"
    BY Zenon DEF Session, NoSession
<1>9. NoIncident \in Incident /\ NoIncident.status = "none"
    BY Zenon DEF Incident, NoIncident, Contact
<1>10. NoLink \in Link /\ NoLink.purpose = "none"
    BY Zenon DEF Link, NoLink
<1>11. NoCase \in Case
    BY Zenon DEF Case, NoCase, Contact
<1>12. /\ NoFlow \in Flow /\ NoFlow.outcome = "none" /\ NoFlow.proved = FALSE /\ NoFlow.grant = FALSE
       /\ NoFlow.incident = None /\ NoFlow.step \notin {"verify_identity", "verify_mfa"}
    BY Zenon DEF Flow, NoFlow, Contact, Steps, Outcomes
<1>13. NoFlow.outcome # "account_secured"
    BY <1>12, Zenon
<1>14. TypeOK
    <2>1. now \in 0..MaxTime /\ guard \in Flows \cup {None} /\ cleared \in BOOLEAN
        <3>1. MaxTime \in Nat
            BY SecurityAssumption, Zenon
        <3>2. 0 \in 0..MaxTime
            BY <3>1
        <3> QED
            BY <1>1, <3>2, Zenon
    <2>2. room \in Room
        BY <1>1, SecurityAssumption, Zenon DEF Room
    <2>3. sessions \in [Sessions -> Session] /\ incidents \in [Incidents -> Incident]
        BY <1>8, <1>9, Zenon DEF Init
    <2>4. cases \in [Cases -> Case] /\ links \in [Links -> Link] /\ flows \in [Flows -> Flow]
        BY <1>10, <1>11, <1>12, Zenon DEF Init
    <2> QED
        BY <1>3, <2>1, <2>2, <2>3, <2>4, Zenon DEF TypeOK, Room
<1>15. FlowInv
    BY <1>6, <1>12, <1>13, Zenon DEF FlowInv, Row
<1>16. IncidentInv
    BY <1>5, <1>9, Zenon DEF IncidentInv, IncidentRow
<1>17. LinkInv
    BY <1>7, <1>10, Zenon DEF LinkInv, LinkRow
<1>18. SessionInv /\ ProofBuysOneSession
    BY <1>4, <1>8, Zenon DEF SessionInv, SessionRow, ProofBuysOneSession
<1>19. ClearedInv /\ OneRecoveryPerCase
    BY <1>1, <1>6, <1>13, Zenon DEF ClearedInv, OneRecoveryPerCase
<1>20. account.recovered <= now
    BY <1>1, <1>3
<1> QED
    BY <1>14, <1>15, <1>16, <1>17, <1>18, <1>19, <1>20, Zenon DEF IInv

\* A change of the account uses up some of the bound on changes.
LEMMA ChangeFacts ==
    ASSUME IInv, Change
    PROVE  room' \in Room
<1>1. room \in Room
    BY Zenon DEF IInv, TypeOK, Room
<1> QED
    BY <1>1 DEF Change, Room

\* An event that leaves flows, cases and sessions alone and records an incident.
LEMMA EventKeeps ==
    ASSUME IInv, Change, account' \in Account, account'.recovered = account.recovered,
           NEW s \in Sessions \cup {None}, NEW mfa \in BOOLEAN, MFAActive => mfa,
           Record(s, account.email, mfa),
           now' = now, sessions' = sessions, guard' = guard, cases' = cases, flows' = flows,
           cleared' = cleared
    PROVE  IInv' /\ SpentWell
<1>1. now \in Nat /\ now \in 0..MaxTime /\ cases \in [Cases -> Case]
    BY DEF IInv, TypeOK
<1>2. room' \in Room
    BY ChangeFacts, Zenon
<1>3. now <= now' /\ now' \in 0..MaxTime
    BY <1>1
<1>4. /\ incidents' \in [Incidents -> Incident] /\ links' \in [Links -> Link]
      /\ IncidentInv' /\ LinkInv'
      /\ \A i \in Incidents : incidents[i].status # "none" => incidents'[i] = incidents[i]
    BY RecordFacts, Zenon
<1>5. cases' \in [Cases -> Case] /\ \A c \in Cases : cases[c].status = "completed" => cases'[c].status = "completed"
    BY <1>1, Zenon
<1> QED
    BY <1>2, <1>3, <1>4, <1>5, OutsideFlows, Zenon

\* A credential of the account is written.
LEMMA CredWritten ==
    ASSUME IInv, NEW x \in Creds, NEW cred \in Cred,
           account' = [account EXCEPT !.creds[x] = cred]
    PROVE  account' \in Account /\ account'.recovered = account.recovered /\ account'.email = account.email
<1>1. account \in Account
    BY Zenon DEF IInv, TypeOK
<1> QED
    BY <1>1, Zenon DEF Account

\* A sign-in spends the proof it rests on, and finds no guard.
LEMMA SignInKeeps ==
    ASSUME IInv, NEW s \in Sessions, NEW p \in Flows \cup {None}, SignIn(s, p)
    PROVE  IInv' /\ SpentWell
<1>1. TypeOK /\ account.recovered <= now /\ FlowInv /\ SessionInv /\ ClearedInv /\ ProofBuysOneSession
      /\ OneRecoveryPerCase
    BY Zenon DEF IInv
<1>2. /\ now' = now /\ account' = account /\ guard' = guard /\ cases' = cases /\ cleared' = cleared
      /\ guard = None /\ sessions[s].status = "none"
      /\ sessions' = [sessions EXCEPT ![s] = [status |-> "live", proof |-> p]]
      /\ Record(s, account.email, MFAActive) /\ Change
    BY Zenon DEF SignIn, GuardSignIn
<1>3. /\ incidents' \in [Incidents -> Incident] /\ links' \in [Links -> Link]
      /\ IncidentInv' /\ LinkInv'
      /\ \A i \in Incidents : incidents[i].status # "none" => incidents'[i] = incidents[i]
    <2>1. MFAActive \in BOOLEAN
        BY Zenon DEF MFAActive
    <2> QED
        BY <1>2, <2>1, RecordFacts, Zenon
<1>4. room' \in Room
    BY <1>2, ChangeFacts, Zenon
<1>5. /\ sessions' \in [Sessions -> Session] /\ sessions'[s].proof = p
      /\ \A t \in Sessions : t # s => sessions'[t] = sessions[t]
    BY <1>1, <1>2, Zenon DEF TypeOK, Session
<1>6. account.recovered \in Nat
    BY <1>1, Zenon DEF TypeOK, Account
<1>7. account'.recovered <= now' /\ account.recovered <= account'.recovered
    BY <1>1, <1>2, <1>6
<1>8. Later
    BY <1>2, <1>3, <1>7, Zenon DEF Later
<1>9. ClearedInv'
    BY <1>1, <1>2, Zenon DEF ClearedInv
<1>10. CASE p = None
    <2>1. flows' = flows
        BY <1>10, SecurityAssumption, Zenon DEF SignIn
    <2>2. TypeOK'
        BY <1>1, <1>2, <1>3, <1>4, <1>5, <2>1, Zenon DEF TypeOK, Room
    <2>3. \A g \in Flows : flows[g] \in Flow
        BY <1>1, Zenon DEF TypeOK
    <2>4. FlowInv'
        BY <1>1, <1>8, <2>1, <2>2, <2>3, RowKept, Zenon DEF FlowInv
    <2>5. SessionInv'
        BY <1>1, <1>5, <1>10, <2>1, Zenon DEF SessionInv, SessionRow
    <2>6. ProofBuysOneSession'
        BY <1>1, <1>5, <1>10, Zenon DEF ProofBuysOneSession
    <2>7. OneRecoveryPerCase'
        BY <1>1, <2>1, Zenon DEF OneRecoveryPerCase
    <2>8. SpentWell
        BY <2>1, Zenon DEF SpentWell, Spends
    <2> QED
        BY <1>3, <1>7, <1>9, <2>2, <2>4, <2>5, <2>6, <2>7, <2>8, Zenon DEF IInv
<1>11. CASE p \in Flows
    <2>1. p # None
        BY <1>11, SecurityAssumption, Zenon
    <2>2. /\ flows[p].outcome = "sign_in_approved"
          /\ flows' = [flows EXCEPT ![p].proved = FALSE, ![p].outcome = "sign_in_proof_consumed"]
        BY <2>1, Zenon DEF SignIn, ConsumeSignInProof
    <2> DEFINE r == [flows[p] EXCEPT !.proved = FALSE, !.outcome = "sign_in_proof_consumed"]
    <2>3. flows \in [Flows -> Flow] /\ flows[p] \in Flow
        BY <1>1, <1>11, Zenon DEF TypeOK
    <2>4. flows' = [flows EXCEPT ![p] = r]
        BY <2>2, <2>3, Zenon
    <2>5. r \in Flow
        BY <2>3, Zenon DEF Flow, Outcomes
    <2>6. /\ r.outcome = "sign_in_proof_consumed" /\ r.status = flows[p].status /\ r.proved = FALSE
          /\ r.step = flows[p].step /\ r.known = flows[p].known /\ r.grant = flows[p].grant
          /\ r.case = flows[p].case /\ r.incident = flows[p].incident
          /\ r.contact = flows[p].contact /\ r.mfa = flows[p].mfa
        BY <2>3, Zenon DEF Flow
    <2> HIDE DEF r
    <2>7. flows' \in [Flows -> Flow] /\ flows'[p] = r /\ \A g \in Flows : g # p => flows'[g] = flows[g]
        BY <1>11, <2>3, <2>4, <2>5, Zenon
    <2>8. TypeOK'
        BY <1>1, <1>2, <1>3, <1>4, <1>5, <2>7, Zenon DEF TypeOK, Room
    <2>9. flows[p].outcome # "none" /\ r.outcome # "account_secured"
        BY <2>2, <2>6, Zenon
    <2>10. Row(flows[p], account.recovered, cases, incidents)
        BY <1>1, <1>11, Zenon DEF FlowInv
    <2>11. Row(r, account.recovered, cases, incidents)
        BY <2>6, <2>9, <2>10, Zenon DEF Row
    <2>12. \A g \in Flows : /\ flows'[g] \in Flow
                            /\ Row(flows'[g], account.recovered, cases, incidents)
        BY <1>1, <2>3, <2>5, <2>7, <2>11, Zenon DEF FlowInv
    <2>13. FlowInv'
        BY <1>1, <1>8, <2>8, <2>12, RowKept, Zenon DEF FlowInv
    <2>14. \A t \in Sessions : sessions[t].proof # p
        <3>1. "sign_in_approved" # "sign_in_proof_consumed"
            BY Zenon
        <3> QED
            BY <1>1, <2>1, <2>2, <3>1, Zenon DEF SessionInv, SessionRow
    <2>15. SessionInv'
        <3> SUFFICES ASSUME NEW t \in Sessions, sessions'[t].proof # None
                     PROVE  flows'[sessions'[t].proof].outcome = "sign_in_proof_consumed"
            BY Zenon DEF SessionInv, SessionRow
        <3>1. CASE t = s
            BY <1>5, <2>6, <2>7, <3>1, Zenon
        <3>2. CASE t # s
            <4>1. sessions'[t] = sessions[t] /\ sessions[t].proof # p
                BY <1>5, <2>14, <3>2, Zenon
            <4>2. sessions[t].proof \in Flows
                BY <1>1, <4>1, Zenon DEF TypeOK, Session
            <4>3. flows[sessions[t].proof].outcome = "sign_in_proof_consumed"
                BY <1>1, <4>1, Zenon DEF SessionInv, SessionRow
            <4> QED
                BY <2>7, <4>1, <4>2, <4>3, Zenon
        <3> QED
            BY <3>1, <3>2, Zenon
    <2>16. ProofBuysOneSession'
        <3> SUFFICES ASSUME NEW t \in Sessions, NEW u \in Sessions, t # u,
                            sessions'[t].proof # None, sessions'[t].proof = sessions'[u].proof
                     PROVE  FALSE
            BY Zenon DEF ProofBuysOneSession
        <3>1. CASE t # s /\ u # s
            BY <1>1, <1>5, <3>1, Zenon DEF ProofBuysOneSession
        <3>2. CASE t = s
            <4>1. sessions'[t].proof = p /\ sessions'[u] = sessions[u]
                BY <1>5, <3>2, Zenon
            <4> QED
                BY <2>14, <4>1, Zenon
        <3>3. CASE u = s
            <4>1. sessions'[u].proof = p /\ sessions'[t] = sessions[t]
                BY <1>5, <3>3, Zenon
            <4> QED
                BY <2>14, <4>1, Zenon
        <3> QED
            BY <3>1, <3>2, <3>3, Zenon
    <2>17. OneRecoveryPerCase'
        <3>1. \A g \in Flows : flows'[g].outcome = "account_secured" => flows'[g] = flows[g]
            BY <2>7, <2>9, Zenon
        <3> SUFFICES ASSUME NEW g \in Flows, NEW h \in Flows,
                            flows'[g].outcome = "account_secured", flows'[g].grant,
                            flows'[h].outcome = "account_secured", flows'[h].grant,
                            flows'[g].case = flows'[h].case
                     PROVE  g = h
            BY Zenon DEF OneRecoveryPerCase
        <3>2. flows'[g] = flows[g] /\ flows'[h] = flows[h]
            BY <3>1, Zenon
        <3> QED
            BY <1>1, <3>2, Zenon DEF OneRecoveryPerCase
    <2>18. SpentWell
        <3>1. Authority(p) /\ flows[p].proved
            BY <2>1, Zenon DEF SignIn, ConsumeSignInProof
        <3>2. flows[p].known
            BY <2>10, <3>1, Zenon DEF Row
        <3>3. \A g \in Flows : Spends(g) => g = p
            BY <2>7, Zenon DEF Spends
        <3>4. flows'[p].outcome # "account_secured"
            BY <2>7, <2>9, Zenon
        <3> QED
            BY <3>1, <3>2, <3>3, <3>4, Zenon DEF SpentWell
    <2> QED
        BY <1>3, <1>7, <1>9, <2>8, <2>13, <2>15, <2>16, <2>17, <2>18, Zenon DEF IInv
<1> QED
    BY <1>10, <1>11, Zenon

\* What happens to the account outside the flows.
LEMMA AccountStepKeeps ==
    ASSUME IInv, AccountStep
    PROVE  IInv' /\ SpentWell
<1>1. /\ account \in Account /\ account.email \in Contact /\ account.creds \in [Creds -> Cred]
      /\ now \in 0..MaxTime /\ now \in Nat /\ room \in Room
      /\ incidents \in [Incidents -> Incident] /\ cases \in [Cases -> Case] /\ links \in [Links -> Link]
      /\ guard \in Flows \cup {None}
    BY DEF IInv, TypeOK, Account, Room
<1>2. IncidentInv /\ LinkInv
    BY Zenon DEF IInv
<1>3. \A s \in Caller : s \in Sessions \cup {None}
    BY Zenon DEF Caller
<1>4. MFAActive \in BOOLEAN
    BY Zenon DEF MFAActive
<1>5. /\ \A c \in Cases : cases[c].status = "completed" => cases[c].status = "completed"
      /\ now <= now
    BY <1>1
<1>6. CASE Tick
    <2>1. now' \in 0..MaxTime /\ now <= now'
        BY <1>1, <1>6, SecurityAssumption DEF Tick
    <2>2. /\ account' = account /\ sessions' = sessions /\ guard' = guard /\ incidents' = incidents
          /\ cases' = cases /\ links' = links /\ flows' = flows /\ cleared' = cleared /\ room' = room
        BY <1>6, Zenon DEF Tick
    <2>3. IncidentInv' /\ LinkInv'
        BY <1>2, <2>2, Zenon DEF IncidentInv, LinkInv
    <2> QED
        BY <1>1, <2>1, <2>2, <2>3, OutsideFlows, Zenon
<1>7. ASSUME NEW s \in Sessions, NEW p \in Flows \cup {None}, SignIn(s, p)
      PROVE  IInv' /\ SpentWell
    BY <1>7, SignInKeeps, Zenon
<1>8. ASSUME NEW f \in Flows, RequireProof(f)
      PROVE  IInv' /\ SpentWell
    <2> DEFINE row == ReviewFlow(None, None, TRUE)
    <2>1. row \in Flow /\ row.outcome = "none" /\ Row(row, account.recovered, cases, incidents)
        BY ReviewFlowFacts, Zenon
    <2> HIDE DEF row
    <2>2. /\ flows[f].status = "none" /\ flows' = [flows EXCEPT ![f] = row] /\ room.reviews > 0
          /\ room' = [room EXCEPT !.reviews = @ - 1]
        BY <1>8, Zenon DEF RequireProof, NewFlow, row
    <2>3. room' \in Room
        BY <1>1, <2>2 DEF Room
    <2>4. flows[f].status # "completed" /\ row.outcome \in Unused
        BY <2>1, <2>2, Zenon DEF Unused
    <2>5. /\ now' = now /\ account' = account /\ sessions' = sessions /\ guard' = guard
          /\ incidents' = incidents /\ cases' = cases /\ links' = links /\ cleared' = cleared
        BY <1>8, Zenon DEF RequireProof
    <2> QED
        BY <1>1, <1>2, <2>1, <2>2, <2>3, <2>4, <2>5, InFlow, Zenon DEF LinkInv
<1>9. ASSUME NEW mfa \in BOOLEAN, RecordFailure(mfa)
      PROVE  IInv' /\ SpentWell
    <2>1. /\ Change /\ Record(None, account.email, MFAActive \/ mfa)
          /\ now' = now /\ account' = account /\ sessions' = sessions /\ guard' = guard /\ cases' = cases
          /\ flows' = flows /\ cleared' = cleared
        BY <1>9, Zenon DEF RecordFailure
    <2>2. (MFAActive \/ mfa) \in BOOLEAN /\ (MFAActive => MFAActive \/ mfa)
        BY Zenon
    <2> QED
        BY <1>1, <2>1, <2>2, EventKeeps, Zenon
<1>10. ASSUME NEW s \in Caller, Observe(s)
       PROVE  IInv' /\ SpentWell
    <2>1. /\ Change /\ Record(s, account.email, MFAActive)
          /\ now' = now /\ account' = account /\ sessions' = sessions /\ guard' = guard /\ cases' = cases
          /\ flows' = flows /\ cleared' = cleared
        BY <1>10, Zenon DEF Observe
    <2> QED
        BY <1>1, <1>3, <1>4, <2>1, EventKeeps, Zenon
<1>11. ASSUME NEW c \in Contacts, NEW s \in Caller, ChangeEmail(c, s)
       PROVE  IInv' /\ SpentWell
    <2>1. /\ Change /\ Record(s, account.email, MFAActive)
          /\ now' = now /\ sessions' = sessions /\ guard' = guard /\ cases' = cases
          /\ flows' = flows /\ cleared' = cleared /\ account' = [account EXCEPT !.email = c]
        BY <1>11, Zenon DEF ChangeEmail, ObservedContact
    <2>2. account' \in Account /\ account'.recovered = account.recovered
        BY <1>1, <2>1, Zenon DEF Account, Contact
    <2> QED
        BY <1>3, <1>4, <2>1, <2>2, EventKeeps, Zenon
<1>12. ASSUME NEW x \in Creds, EnrollFactor(x)
       PROVE  IInv' /\ SpentWell
    <2> DEFINE cred == [state |-> IF x \in Keys THEN "active" ELSE "pending", at |-> now]
    <2>1. cred \in Cred
        BY <1>1, Zenon DEF Cred
    <2>2. /\ account' = [account EXCEPT !.creds[x] = cred]
          /\ now' = now /\ sessions' = sessions /\ guard' = guard /\ incidents' = incidents
          /\ cases' = cases /\ links' = links /\ flows' = flows /\ cleared' = cleared /\ Change
        BY <1>12, Zenon DEF EnrollFactor
    <2> HIDE DEF cred
    <2>3. account' \in Account /\ account'.recovered = account.recovered
        BY <2>1, <2>2, CredWritten, Zenon
    <2>4. room' \in Room
        BY <2>2, ChangeFacts, Zenon
    <2>5. IncidentInv' /\ LinkInv'
        BY <1>2, <2>2, Zenon DEF IncidentInv, LinkInv
    <2> QED
        BY <1>1, <1>5, <2>2, <2>3, <2>4, <2>5, OutsideFlows, Zenon
<1>13. ASSUME NEW x \in Creds, NEW s \in Caller, ActivateFactor(x, s)
       PROVE  IInv' /\ SpentWell
    <2> DEFINE cred == [account.creds[x] EXCEPT !.state = "active"]
    <2>1. cred \in Cred
        BY <1>1, Zenon DEF Cred
    <2>2. /\ now' = now /\ sessions' = sessions /\ guard' = guard /\ cases' = cases
          /\ flows' = flows /\ cleared' = cleared /\ Change /\ Record(s, account'.email, TRUE)
        BY <1>13, Zenon DEF ActivateFactor
    <2>3. account' = [account EXCEPT !.creds[x] = cred]
        BY <1>1, <1>13, Zenon DEF ActivateFactor, Account
    <2> HIDE DEF cred
    <2>4. account' \in Account /\ account'.recovered = account.recovered /\ account'.email = account.email
        BY <2>1, <2>3, CredWritten, Zenon
    <2>5. Record(s, account.email, TRUE)
        BY <2>2, <2>4, Zenon
    <2> QED
        BY <1>3, <2>2, <2>4, <2>5, EventKeeps, Zenon
<1>14. ASSUME NEW x \in Creds, NEW s \in Caller, AddCredential(x, s)
       PROVE  IInv' /\ SpentWell
    <2> DEFINE cred == [state |-> "active", at |-> now]
    <2>1. cred \in Cred
        BY <1>1, Zenon DEF Cred
    <2>2. /\ now' = now /\ sessions' = sessions /\ guard' = guard /\ cases' = cases
          /\ flows' = flows /\ cleared' = cleared /\ Change /\ Record(s, account'.email, MFAActive)
          /\ account' = [account EXCEPT !.creds[x] = cred]
        BY <1>14, Zenon DEF AddCredential
    <2> HIDE DEF cred
    <2>3. account' \in Account /\ account'.recovered = account.recovered /\ account'.email = account.email
        BY <2>1, <2>2, CredWritten, Zenon
    <2>4. Record(s, account.email, MFAActive)
        BY <2>2, <2>3, Zenon
    <2> QED
        BY <1>3, <1>4, <2>2, <2>3, <2>4, EventKeeps, Zenon
<1>15. ASSUME NEW x \in Creds, NEW s \in Caller, RemoveFactor(x, s)
       PROVE  IInv' /\ SpentWell
    <2>1. NoCred \in Cred
        BY Zenon DEF Cred, NoCred
    <2>2. /\ now' = now /\ sessions' = sessions /\ guard' = guard /\ cases' = cases
          /\ flows' = flows /\ cleared' = cleared /\ Change /\ Record(s, account'.email, FactorsBefore(x))
          /\ account' = [account EXCEPT !.creds[x] = NoCred]
        BY <1>15, Zenon DEF RemoveFactor
    <2>3. account' \in Account /\ account'.recovered = account.recovered /\ account'.email = account.email
        BY <2>1, <2>2, CredWritten, Zenon
    <2>4. Record(s, account.email, FactorsBefore(x))
        BY <2>2, <2>3, Zenon
    <2>5. FactorsBefore(x) \in BOOLEAN /\ (MFAActive => FactorsBefore(x))
        BY Zenon DEF FactorsBefore
    <2> QED
        BY <1>3, <2>2, <2>3, <2>4, <2>5, EventKeeps, Zenon
<1> QED
    BY <1>6, <1>7, <1>8, <1>9, <1>10, <1>11, <1>12, <1>13, <1>14, <1>15, Zenon DEF AccountStep

\* A request that starts a flow writes a row that was not in use.
LEMMA StartedFacts ==
    ASSUME IInv, NEW f \in Flows, NEW row, NEW kind \in {"reviews", "supports"}, NewFlow(f, row, kind)
    PROVE  flows[f].status # "completed" /\ flows' = [flows EXCEPT ![f] = row] /\ room' \in Room
<1>1. room \in Room
    BY Zenon DEF IInv, TypeOK, Room
<1>2. room[kind] > 0 /\ room' = [room EXCEPT ![kind] = @ - 1] /\ flows[f].status = "none"
    BY Zenon DEF NewFlow
<1>3. room' \in Room
    BY <1>1, <1>2 DEF Room
<1>4. flows[f].status # "completed"
    BY <1>2, Zenon
<1> QED
    BY <1>3, <1>4, Zenon DEF NewFlow

\* A link is used.
LEMMA LinkUsed ==
    ASSUME IInv, NEW k \in Links, links' = [links EXCEPT ![k].consumed = TRUE]
    PROVE  links' \in [Links -> Link] /\ \A l \in Links : LinkRow(links'[l], incidents)
<1>1. links \in [Links -> Link] /\ LinkInv
    BY Zenon DEF IInv, TypeOK
<1>2. ASSUME NEW l \in Links
      PROVE  /\ links'[l] \in Link /\ links'[l].purpose = links[l].purpose
             /\ links'[l].incident = links[l].incident /\ links'[l].case = links[l].case
    BY <1>1, Zenon DEF Link
<1>3. links' \in [Links -> Link]
    BY <1>1, <1>2, Zenon
<1>4. \A l \in Links : LinkRow(links'[l], incidents)
    BY <1>1, <1>2, Zenon DEF LinkInv, LinkRow
<1> QED
    BY <1>3, <1>4, Zenon

\* The ways in which a flow starts.
LEMMA StartKeeps ==
    ASSUME IInv, NEW f \in Flows,
           \/ \E i \in Incidents \cup {None}, s \in Sessions \cup {None} : StartReview(f, i, s)
           \/ \E id \in Identifiers, c \in Contacts : StartRecovery(f, id, c)
           \/ \E k \in Links : ExchangeReview(f, k) \/ ExchangeStatus(f, k) \/ ExchangeGrant(f, k)
    PROVE  IInv' /\ SpentWell
<1>1. /\ account \in Account /\ now \in Nat /\ guard \in Flows \cup {None}
      /\ cases \in [Cases -> Case] /\ links \in [Links -> Link] /\ incidents \in [Incidents -> Incident]
    BY DEF IInv, TypeOK
<1>2. LinkInv /\ \A k \in Links : LinkRow(links[k], incidents)
    BY Zenon DEF IInv, LinkInv
<1>3. "reviews" \in {"reviews", "supports"} /\ "supports" \in {"reviews", "supports"}
      /\ "none" \in Unused /\ TRUE \in BOOLEAN /\ FALSE \in BOOLEAN
    BY Zenon DEF Unused
<1>4. ASSUME NEW i \in Incidents \cup {None}, NEW s \in Sessions \cup {None}, StartReview(f, i, s)
      PROVE  IInv' /\ SpentWell
    <2> DEFINE row == ReviewFlow(i, s, FALSE)
    <2>1. i # None => incidents[i].status # "none"
        BY <1>4, Zenon DEF StartReview
    <2>2. row \in Flow /\ row.outcome = "none" /\ Row(row, account.recovered, cases, incidents)
        BY <1>3, <2>1, ReviewFlowFacts, Zenon
    <2>3. /\ NewFlow(f, row, "reviews")
          /\ now' = now /\ account' = account /\ sessions' = sessions /\ guard' = guard
          /\ incidents' = incidents /\ cases' = cases /\ links' = links /\ cleared' = cleared
        BY <1>4, Zenon DEF StartReview
    <2> HIDE DEF row
    <2>4. flows[f].status # "completed" /\ flows' = [flows EXCEPT ![f] = row] /\ room' \in Room
        BY <1>3, <2>3, StartedFacts, Zenon
    <2> QED
        BY <1>1, <1>2, <1>3, <2>2, <2>3, <2>4, InFlow, Zenon
<1>5. ASSUME NEW id \in Identifiers, NEW c \in Contacts, StartRecovery(f, id, c)
      PROVE  IInv' /\ SpentWell
    <2> DEFINE row == [NoFlow EXCEPT !.status = "pending", !.identifier = id, !.recipient = c, !.cutoff = now]
    <2>1. id \in Contact /\ c \in Contact
        BY SecurityAssumption, Zenon DEF Contact
    <2>2. row \in Flow
        BY <1>1, <2>1, Zenon DEF Flow, NoFlow, Contact, Steps, Outcomes
    <2>3. /\ row.outcome = "none" /\ row.proved = FALSE /\ row.grant = FALSE /\ row.incident = None
          /\ row.step \notin {"verify_identity", "verify_mfa"}
        BY Zenon DEF NoFlow
    <2>4. /\ NewFlow(f, row, "supports")
          /\ now' = now /\ account' = account /\ sessions' = sessions /\ guard' = guard
          /\ incidents' = incidents /\ cases' = cases /\ links' = links /\ cleared' = cleared
        BY <1>5, Zenon DEF StartRecovery
    <2> HIDE DEF row
    <2>5. Row(row, account.recovered, cases, incidents)
        BY <1>3, <2>3, Zenon DEF Row
    <2>6. flows[f].status # "completed" /\ flows' = [flows EXCEPT ![f] = row] /\ room' \in Room
        BY <1>3, <2>4, StartedFacts, Zenon
    <2> QED
        BY <1>1, <1>2, <1>3, <2>2, <2>3, <2>4, <2>5, <2>6, InFlow, Zenon
<1>6. ASSUME NEW k \in Links, ExchangeReview(f, k)
      PROVE  IInv' /\ SpentWell
    <2> DEFINE row == ReviewFlow(links[k].incident, None, FALSE)
    <2>1. links[k].purpose = "review" /\ links' = [links EXCEPT ![k].consumed = TRUE]
        BY <1>6, Zenon DEF ExchangeReview
    <2>2. links[k].incident \in Incidents /\ incidents[links[k].incident].status # "none"
        BY <1>2, <2>1, Zenon DEF LinkRow
    <2>3. row \in Flow /\ row.outcome = "none" /\ Row(row, account.recovered, cases, incidents)
        BY <1>3, <2>2, ReviewFlowFacts, Zenon
    <2>4. /\ NewFlow(f, row, "reviews")
          /\ now' = now /\ account' = account /\ sessions' = sessions /\ guard' = guard
          /\ incidents' = incidents /\ cases' = cases /\ cleared' = cleared
        BY <1>6, Zenon DEF ExchangeReview
    <2> HIDE DEF row
    <2>5. flows[f].status # "completed" /\ flows' = [flows EXCEPT ![f] = row] /\ room' \in Room
        BY <1>3, <2>4, StartedFacts, Zenon
    <2>6. links' \in [Links -> Link] /\ \A l \in Links : LinkRow(links'[l], incidents)
        BY <2>1, LinkUsed, Zenon
    <2> QED
        BY <1>1, <1>3, <2>3, <2>4, <2>5, <2>6, InFlow, Zenon
<1>7. ASSUME NEW k \in Links, ExchangeStatus(f, k)
      PROVE  IInv' /\ SpentWell
    <2> DEFINE c == links[k].case
               row == [NoFlow EXCEPT !.status = "pending", !.step = "awaiting_support", !.case = c,
                          !.known = cases[c].known, !.recipient = cases[c].contact, !.cutoff = now]
    <2>1. links[k].purpose = "support_status" /\ links' = [links EXCEPT ![k].consumed = TRUE]
        BY <1>7, Zenon DEF ExchangeStatus
    <2>2. c \in Cases
        BY <1>2, <2>1, Zenon DEF LinkRow
    <2>3. cases[c] \in Case
        BY <1>1, <2>2, Zenon
    <2>4. /\ NewFlow(f, row, "supports")
          /\ now' = now /\ account' = account /\ sessions' = sessions /\ guard' = guard
          /\ incidents' = incidents /\ cases' = cases /\ cleared' = cleared
        BY <1>7, Zenon DEF ExchangeStatus
    <2> HIDE DEF c
    <2>5. row \in Flow
        BY <1>1, <2>2, <2>3 DEF Flow, NoFlow, Contact, Steps, Outcomes, Case
    <2>6. /\ row.outcome = "none" /\ row.proved = FALSE /\ row.grant = FALSE /\ row.incident = None
          /\ row.step \notin {"verify_identity", "verify_mfa"}
        BY Zenon DEF NoFlow
    <2> HIDE DEF row
    <2>7. Row(row, account.recovered, cases, incidents)
        BY <1>3, <2>6, Zenon DEF Row
    <2>8. flows[f].status # "completed" /\ flows' = [flows EXCEPT ![f] = row] /\ room' \in Room
        BY <1>3, <2>4, StartedFacts, Zenon
    <2>9. links' \in [Links -> Link] /\ \A l \in Links : LinkRow(links'[l], incidents)
        BY <2>1, LinkUsed, Zenon
    <2> QED
        BY <1>1, <1>3, <2>4, <2>5, <2>6, <2>7, <2>8, <2>9, InFlow, Zenon
<1>8. ASSUME NEW k \in Links, ExchangeGrant(f, k)
      PROVE  IInv' /\ SpentWell
    <2> DEFINE c == links[k].case
               step == IF cases[c].prot THEN "restore_access" ELSE "review"
               row == [NoFlow EXCEPT !.status = "pending", !.case = c, !.known = TRUE,
                          !.proved = TRUE, !.grant = TRUE, !.recipient = cases[c].contact, !.cutoff = now,
                          !.step = step]
    <2>1. links[k].purpose = "support_grant" /\ links' = [links EXCEPT ![k].consumed = TRUE]
        BY <1>8, Zenon DEF ExchangeGrant
    <2>2. c \in Cases
        BY <1>2, <2>1, Zenon DEF LinkRow
    <2>3. cases[c] \in Case
        BY <1>1, <2>2, Zenon
    <2>4. /\ NewFlow(f, row, "supports") /\ cases' = [cases EXCEPT ![c].grant = f]
          /\ guard' = IF cases[c].prot /\ guard # None THEN f ELSE guard
          /\ now' = now /\ account' = account /\ sessions' = sessions
          /\ incidents' = incidents /\ cleared' = cleared
        BY <1>8, Zenon DEF ExchangeGrant
    <2> HIDE DEF c
    <2>5. step \in {"restore_access", "review"}
        BY Zenon
    <2> HIDE DEF step
    <2>6. row \in Flow
        BY <1>1, <2>2, <2>3, <2>5 DEF Flow, NoFlow, Contact, Steps, Outcomes, Case
    <2>7. /\ row.outcome = "none" /\ row.known = TRUE /\ row.grant = TRUE /\ row.incident = None
          /\ row.case = c
        BY Zenon DEF NoFlow
    <2> HIDE DEF row
    <2>8. Row(row, account.recovered, cases, incidents)
        BY <1>3, <2>2, <2>7, Zenon DEF Row
    <2>9. flows[f].status # "completed" /\ flows' = [flows EXCEPT ![f] = row] /\ room' \in Room
        BY <1>3, <2>4, StartedFacts, Zenon
    <2>10. links' \in [Links -> Link] /\ \A l \in Links : LinkRow(links'[l], incidents)
        BY <2>1, LinkUsed, Zenon
    <2>11. f # None
        BY SecurityAssumption, Zenon
    <2>12. guard' \in Flows \cup {None} /\ (guard # None => guard' # None)
        BY <1>1, <2>4, <2>11, Zenon
    <2>13. ASSUME NEW d \in Cases
           PROVE  cases'[d] \in Case /\ cases'[d].status = cases[d].status
        BY <1>1, <2>4, Zenon DEF Case
    <2>14. cases' \in [Cases -> Case]
        BY <1>1, <2>4, <2>13, Zenon
    <2>15. \A d \in Cases : cases[d].status = "completed" => cases'[d].status = "completed"
        BY <2>13, Zenon
    <2>16. row.outcome \in Unused /\ account' \in Account /\ account'.recovered = account.recovered
        BY <1>1, <1>3, <2>4, <2>7, Zenon
    <2> QED
        BY <2>4, <2>6, <2>8, <2>9, <2>10, <2>12, <2>14, <2>15, <2>16, InFlow, Zenon
<1> QED
    BY <1>4, <1>5, <1>6, <1>7, <1>8, Zenon

\* The submissions after which the flow goes on, waits for support or is given up.
LEMMA SubmitKeeps ==
    ASSUME IInv, NEW f \in Flows,
           \/ VerifyIdentity(f) \/ VerifyContact(f)
           \/ \E x \in Creds : VerifyFactor(f, x)
           \/ Abandon(f)
           \/ \E id \in Identifiers \cup {None}, c \in Contacts : NewContact(f, id, c)
           \/ \E id \in Identifiers \cup {None} : RequestSupport(f, id)
    PROVE  IInv' /\ SpentWell
<1> DEFINE old == flows[f]
<1>1. /\ account \in Account /\ now \in Nat /\ guard \in Flows \cup {None} /\ room \in Room
      /\ cases \in [Cases -> Case] /\ links \in [Links -> Link] /\ incidents \in [Incidents -> Incident]
      /\ flows \in [Flows -> Flow] /\ old \in Flow
    BY DEF IInv, TypeOK, Room
<1>2. \A k \in Links : LinkRow(links[k], incidents)
    BY Zenon DEF IInv, LinkInv
<1>3. Row(old, account.recovered, cases, incidents)
    BY Zenon DEF IInv, FlowInv
<1>4. old.status = "pending"
    BY Zenon DEF VerifyIdentity, VerifyContact, VerifyFactor, Abandon, NewContact, RequestSupport, Submits
<1>5. old.status # "completed" /\ "pending" # "completed"
    BY <1>4, Zenon
<1>6. old.outcome = "none" /\ "none" \in Unused /\ "none" # "account_secured"
    BY <1>3, <1>5, Zenon DEF Row, Unused
<1>7. CASE VerifyIdentity(f)
    <2> DEFINE row == [old EXCEPT !.verified = TRUE]
    <2>1. /\ now' = now /\ account' = account /\ sessions' = sessions /\ guard' = guard
          /\ incidents' = incidents /\ cases' = cases /\ links' = links /\ cleared' = cleared
          /\ room' = room /\ old.step = "verify_identity"
        BY <1>7, Zenon DEF VerifyIdentity, Submits
    <2>2. old.known = TRUE
        <3>1. old.known \in BOOLEAN
            BY <1>1, Zenon DEF Flow
        <3> QED
            BY <1>3, <2>1, <3>1, Zenon DEF Row
    <2>3. row \in Flow
        BY <1>1, Zenon DEF Flow
    <2>4. /\ row.known = old.known /\ row.outcome = old.outcome /\ row.grant = old.grant
          /\ row.case = old.case /\ row.incident = old.incident /\ row.contact = old.contact
          /\ row.mfa = old.mfa /\ row.proved = old.proved /\ row.factor = old.factor
        BY <1>1, Zenon DEF Flow
    <2>5. CASE MFAActive \/ row.mfa
        <3> DEFINE r == [row EXCEPT !.mfa = TRUE, !.step = "verify_mfa"]
        <3>1. flows' = [flows EXCEPT ![f] = r]
            BY <1>7, <2>5, Zenon DEF VerifyIdentity
        <3> HIDE DEF row
        <3>2. r \in Flow
            BY <2>3, Zenon DEF Flow, Steps
        <3>3. /\ r.known = row.known /\ r.outcome = row.outcome /\ r.grant = row.grant
              /\ r.case = row.case /\ r.incident = row.incident /\ r.contact = row.contact
              /\ r.mfa = TRUE /\ r.proved = row.proved /\ r.factor = row.factor
            BY <2>3, Zenon DEF Flow
        <3> HIDE DEF r
        <3>4. Row(r, account.recovered, cases, incidents)
            BY <1>3, <1>6, <2>2, <2>4, <3>3, Zenon DEF Row
        <3> HIDE DEF old
        <3> QED
            BY <1>1, <1>2, <1>5, <1>6, <2>1, <2>4, <3>1, <3>2, <3>3, <3>4, InFlow, Zenon DEF old
    <2>6. CASE ~(MFAActive \/ row.mfa)
        <3>1. Prove(f, row)
            BY <1>7, <2>6, Zenon DEF VerifyIdentity
        <3> HIDE DEF row
        <3>2. row.grant => row.case \in Cases
            BY <1>3, <2>4, Zenon DEF Row
        <3>3. row.incident # None => /\ incidents[row.incident].status # "none"
                                     /\ row.contact = incidents[row.incident].contact
                                     /\ incidents[row.incident].mfa => row.mfa /\ row.factor
            BY <1>3, <2>4, <2>6, Zenon DEF Row
        <3>4. PICK r \in Flow : /\ flows' = [flows EXCEPT ![f] = r] /\ r.outcome \in Unused
                                /\ Row(r, account.recovered, cases, incidents)
            BY <1>6, <2>2, <2>3, <2>4, <3>1, <3>2, <3>3, ProveFacts, Zenon
        <3> QED
            BY <1>1, <1>2, <1>5, <2>1, <3>4, InFlow, Zenon
    <2> QED
        BY <2>5, <2>6, Zenon
<1>8. ASSUME NEW x \in Creds, VerifyFactor(f, x)
      PROVE  IInv' /\ SpentWell
    <2> DEFINE row == [old EXCEPT !.factor = TRUE]
    <2>1. /\ now' = now /\ sessions' = sessions /\ guard' = guard
          /\ incidents' = incidents /\ cases' = cases /\ links' = links /\ cleared' = cleared
          /\ room' = room /\ old.step = "verify_mfa" /\ Prove(f, row)
        BY <1>8, Zenon DEF VerifyFactor, Submits
    <2>2. old.known = TRUE
        <3>1. old.known \in BOOLEAN
            BY <1>1, Zenon DEF Flow
        <3> QED
            BY <1>3, <2>1, <3>1, Zenon DEF Row
    <2>3. row \in Flow
        BY <1>1, Zenon DEF Flow
    <2>4. /\ row.known = old.known /\ row.outcome = old.outcome /\ row.grant = old.grant
          /\ row.case = old.case /\ row.incident = old.incident /\ row.contact = old.contact
          /\ row.mfa = old.mfa /\ row.factor = TRUE
        BY <1>1, Zenon DEF Flow
    <2>5. account' \in Account /\ account'.recovered = account.recovered
        <3>1. NoCred \in Cred
            BY Zenon DEF Cred, NoCred
        <3>2. CASE account' = [account EXCEPT !.creds[x] = NoCred]
            BY <3>1, <3>2, CredWritten, Zenon
        <3>3. CASE account' = account
            BY <1>1, <3>3, Zenon
        <3> QED
            BY <1>8, <3>2, <3>3, Zenon DEF VerifyFactor
    <2> HIDE DEF row
    <2>6. row.grant => row.case \in Cases
        BY <1>3, <2>4, Zenon DEF Row
    <2>7. row.incident # None => /\ incidents[row.incident].status # "none"
                                 /\ row.contact = incidents[row.incident].contact
                                 /\ incidents[row.incident].mfa => row.mfa /\ row.factor
        BY <1>3, <2>4, Zenon DEF Row
    <2>8. PICK r \in Flow : /\ flows' = [flows EXCEPT ![f] = r] /\ r.outcome \in Unused
                            /\ Row(r, account.recovered, cases, incidents)
        BY <1>6, <2>1, <2>2, <2>3, <2>4, <2>6, <2>7, ProveFacts, Zenon
    <2> QED
        BY <1>1, <1>2, <1>5, <2>1, <2>5, <2>8, InFlow, Zenon
<1>9. CASE Abandon(f)
    <2> DEFINE r == [old EXCEPT !.status = "aborted"]
    <2>1. /\ now' = now /\ account' = account /\ sessions' = sessions /\ guard' = guard
          /\ incidents' = incidents /\ cases' = cases /\ links' = links /\ cleared' = cleared
          /\ room' = room /\ flows' = [flows EXCEPT ![f].status = "aborted"]
        BY <1>9, Zenon DEF Abandon
    <2>2. flows' = [flows EXCEPT ![f] = r]
        BY <1>1, <2>1, Zenon
    <2>3. r \in Flow
        BY <1>1, Zenon DEF Flow
    <2>4. /\ r.known = old.known /\ r.outcome = old.outcome /\ r.grant = old.grant
          /\ r.case = old.case /\ r.incident = old.incident /\ r.contact = old.contact
          /\ r.mfa = old.mfa /\ r.factor = old.factor /\ r.proved = old.proved /\ r.step = old.step
        BY <1>1, Zenon DEF Flow
    <2> HIDE DEF r
    <2>5. Row(r, account.recovered, cases, incidents)
        BY <1>3, <1>6, <2>4, Zenon DEF Row
    <2>6. r.outcome \in Unused
        BY <1>6, <2>4, Zenon
    <2> QED
        BY <1>1, <1>2, <1>5, <2>1, <2>2, <2>3, <2>5, <2>6, InFlow, Zenon
<1>10. ASSUME NEW id \in Identifiers \cup {None}, NEW c \in Contacts, NewContact(f, id, c)
       PROVE  IInv' /\ SpentWell
    <2> DEFINE to == IF id = None THEN old.identifier ELSE id
               r == [old EXCEPT !.identifier = to, !.recipient = c, !.verified = FALSE,
                                !.grant = FALSE, !.proved = FALSE, !.step = "verify_contact"]
    <2>1. /\ now' = now /\ account' = account /\ sessions' = sessions /\ guard' = guard
          /\ incidents' = incidents /\ cases' = cases /\ links' = links /\ cleared' = cleared
          /\ room.supports > 0 /\ room' = [room EXCEPT !.supports = @ - 1]
        BY <1>10, Zenon DEF NewContact
    <2>2. to \in Contact /\ c \in Contact
        BY <1>1, SecurityAssumption, Zenon DEF Flow, Contact
    <2>3. flows' = [flows EXCEPT ![f] = r]
        BY <1>1, <1>10, Zenon DEF NewContact, Flow
    <2> HIDE DEF to
    <2>4. r \in Flow
        BY <1>1, <2>2, Zenon DEF Flow, Steps
    <2>5. /\ r.outcome = old.outcome /\ r.grant = FALSE /\ r.proved = FALSE
          /\ r.incident = old.incident /\ r.contact = old.contact /\ r.mfa = old.mfa
          /\ r.step \notin {"verify_identity", "verify_mfa"}
        BY <1>1, Zenon DEF Flow
    <2> HIDE DEF r
    <2>6. Row(r, account.recovered, cases, incidents)
        BY <1>3, <1>6, <2>5, Zenon DEF Row
    <2>7. room' \in Room
        BY <1>1, <2>1 DEF Room
    <2> QED
        BY <1>1, <1>2, <1>5, <1>6, <2>1, <2>3, <2>4, <2>5, <2>6, <2>7, InFlow, Zenon
<1>11. ASSUME NEW changed \in Flow, OpenCase(f, changed),
              changed.outcome = old.outcome, changed.known = old.known, changed.incident = old.incident,
              changed.contact = old.contact, changed.mfa = old.mfa, changed.factor = old.factor,
              changed.proved => old.proved,
              now' = now, account' = account, sessions' = sessions, guard' = guard,
              incidents' = incidents, cleared' = cleared
       PROVE  IInv' /\ SpentWell
    <2>1. /\ cases' \in [Cases -> Case] /\ links' \in [Links -> Link] /\ room' \in Room
          /\ \A c \in Cases : cases[c].status = "completed" => cases'[c].status = "completed"
          /\ \A k \in Links : LinkRow(links'[k], incidents)
        BY <1>11, OpenCaseFacts, Zenon
    <2>2. PICK id \in Contact, c \in Cases :
                flows' = [flows EXCEPT ![f] = [[changed EXCEPT !.identifier = id]
                                                EXCEPT !.case = c, !.step = "awaiting_support"]]
        BY <1>11, OpenCaseFacts, Zenon
    <2> DEFINE q == [changed EXCEPT !.identifier = id]
               r == [q EXCEPT !.case = c, !.step = "awaiting_support"]
    <2>3. flows' = [flows EXCEPT ![f] = r]
        BY <2>2, Zenon
    <2>4. /\ q \in Flow /\ q.outcome = changed.outcome /\ q.known = changed.known
          /\ q.incident = changed.incident /\ q.contact = changed.contact /\ q.mfa = changed.mfa
          /\ q.factor = changed.factor /\ q.proved = changed.proved
        BY Zenon DEF Flow
    <2> HIDE DEF q
    <2>5. r \in Flow
        BY <2>4, Zenon DEF Flow, Steps
    <2>6. /\ r.outcome = q.outcome /\ r.known = q.known /\ r.incident = q.incident
          /\ r.contact = q.contact /\ r.mfa = q.mfa /\ r.factor = q.factor /\ r.proved = q.proved
          /\ r.case = c /\ r.step \notin {"verify_identity", "verify_mfa"}
        BY <2>4, Zenon DEF Flow
    <2> HIDE DEF r
    <2>7. /\ r.outcome = "none" /\ r.known = old.known /\ r.incident = old.incident
          /\ r.contact = old.contact /\ r.mfa = old.mfa /\ r.factor = old.factor
          /\ r.proved => old.proved
        BY <1>6, <1>11, <2>4, <2>6, Zenon
    <2>8. Row(r, account.recovered, cases, incidents)
        BY <1>3, <1>6, <2>6, <2>7, Zenon DEF Row
    <2> QED
        BY <1>1, <1>5, <1>6, <1>11, <2>1, <2>3, <2>5, <2>7, <2>8, InFlow, Zenon
<1>12. CASE VerifyContact(f)
    <2> DEFINE changed == [old EXCEPT !.verified = TRUE, !.proved = FALSE]
    <2>1. /\ OpenCase(f, changed)
          /\ now' = now /\ account' = account /\ sessions' = sessions /\ guard' = guard
          /\ incidents' = incidents /\ cleared' = cleared
        BY <1>12, Zenon DEF VerifyContact
    <2>2. changed \in Flow
        BY <1>1, Zenon DEF Flow
    <2>3. /\ changed.outcome = old.outcome /\ changed.known = old.known /\ changed.incident = old.incident
          /\ changed.contact = old.contact /\ changed.mfa = old.mfa /\ changed.factor = old.factor
          /\ changed.proved = FALSE
        BY <1>1, Zenon DEF Flow
    <2> HIDE DEF changed, old
    <2> QED
        BY <1>11, <2>1, <2>2, <2>3, Zenon
<1>13. ASSUME NEW id \in Identifiers \cup {None}, RequestSupport(f, id)
       PROVE  IInv' /\ SpentWell
    <2> DEFINE to == IF id = None THEN old.identifier ELSE id
               changed == [old EXCEPT !.identifier = to]
    <2>1. /\ OpenCase(f, changed)
          /\ now' = now /\ account' = account /\ sessions' = sessions /\ guard' = guard
          /\ incidents' = incidents /\ cleared' = cleared
        BY <1>13, Zenon DEF RequestSupport
    <2>2. to \in Contact
        BY <1>1, SecurityAssumption, Zenon DEF Flow, Contact
    <2> HIDE DEF to
    <2>3. changed \in Flow
        BY <1>1, <2>2, Zenon DEF Flow
    <2>4. /\ changed.outcome = old.outcome /\ changed.known = old.known /\ changed.incident = old.incident
          /\ changed.contact = old.contact /\ changed.mfa = old.mfa /\ changed.factor = old.factor
          /\ changed.proved = old.proved
        BY <1>1, Zenon DEF Flow
    <2> HIDE DEF changed, old
    <2> QED
        BY <1>11, <2>1, <2>3, <2>4, Zenon
<1> QED
    BY <1>7, <1>8, <1>9, <1>10, <1>12, <1>13, Zenon

\* The flow ends, its activity confirmed.
LEMMA ConfirmKeeps ==
    ASSUME IInv, NEW f \in Flows, Confirm(f)
    PROVE  IInv' /\ SpentWell
<1>1. TypeOK /\ account.recovered <= now /\ ClearedInv
    BY Zenon DEF IInv
<1>2. /\ flows \in [Flows -> Flow] /\ account.recovered \in Nat /\ now \in Nat
    BY <1>1 DEF TypeOK, Account
<1>3. /\ flows[f].status = "pending" /\ Authority(f) /\ Complete(f, "activity_confirmed")
      /\ now' = now /\ account' = account /\ sessions' = sessions /\ guard' = guard /\ links' = links
      /\ cleared' = cleared /\ room' = room
    BY Zenon DEF Confirm, Submits
<1>4. "activity_confirmed" \in {"activity_confirmed", "account_secured"}
      /\ "activity_confirmed" # "account_secured"
    BY Zenon
<1>5. /\ incidents' \in [Incidents -> Incident] /\ cases' \in [Cases -> Case]
      /\ \A i \in Incidents : incidents[i].status # "none" =>
            /\ incidents'[i].status # "none"
            /\ incidents'[i].mfa = incidents[i].mfa /\ incidents'[i].contact = incidents[i].contact
            /\ incidents'[i].before = incidents[i].before
      /\ IncidentInv' /\ \A k \in Links : LinkRow(links[k], incidents')
      /\ \A c \in Cases : cases[c].status = "completed" => cases'[c].status = "completed"
      /\ \E r \in Flow : /\ flows' = [flows EXCEPT ![f] = r] /\ Row(r, account.recovered, cases', incidents')
                         /\ r.grant => cases[r.case].status # "completed"
    BY <1>2, <1>3, <1>4, CompleteFacts, Zenon
<1>6. PICK r \in Flow : /\ flows' = [flows EXCEPT ![f] = r] /\ Row(r, account.recovered, cases', incidents')
                        /\ r.grant => cases[r.case].status # "completed"
    BY <1>5, Zenon
<1>7. flows' \in [Flows -> Flow]
    BY <1>2, <1>6, Zenon
<1>8. TypeOK'
    BY <1>1, <1>3, <1>5, <1>7, Zenon DEF TypeOK
<1>9. account'.recovered <= now' /\ account.recovered <= account'.recovered
    BY <1>1, <1>2, <1>3
<1>10. Later
    BY <1>5, <1>9, Zenon DEF Later
<1>11. flows[f].status # "completed"
    BY <1>3, Zenon
<1>12. FlowInv' /\ SessionInv' /\ ProofBuysOneSession' /\ OneRecoveryPerCase'
    BY <1>3, <1>6, <1>8, <1>10, <1>11, FlowWritten, Zenon
<1>13. ClearedInv' /\ LinkInv'
    BY <1>1, <1>3, <1>5, Zenon DEF ClearedInv, LinkInv
<1>14. SpentWell
    <2>1. flows[f].proved
        BY Zenon DEF Confirm
    <2>2. flows[f].known
        BY <2>1, Zenon DEF IInv, FlowInv, Row
    <2>3. \A g \in Flows : Spends(g) => g = f
        BY <1>2, <1>6, Zenon DEF Spends
    <2>4. flows'[f].outcome # "account_secured"
        <3>1. flows[f] \in Flow
            BY <1>2, Zenon
        <3> QED
            BY <1>2, <1>3, <3>1, Zenon DEF Complete, Flow
    <2> QED
        BY <1>3, <2>2, <2>3, <2>4, Zenon DEF SpentWell
<1> QED
    BY <1>5, <1>8, <1>9, <1>12, <1>13, <1>14, Zenon DEF IInv

\* The account is protected: the flow takes the guard, sessions are revoked.
LEMMA ReportKeeps ==
    ASSUME IInv, NEW f \in Flows, NEW all \in BOOLEAN, NEW s \in Sessions \cup {None}, Report(f, all, s)
    PROVE  IInv' /\ SpentWell
<1> DEFINE old == flows[f]
           target == IF old.target = None /\ ~all THEN s ELSE old.target
           row == [old EXCEPT !.target = target, !.prot = TRUE, !.step = "restore_access"]
<1>1. TypeOK /\ account.recovered <= now /\ ClearedInv /\ IncidentInv /\ LinkInv
    BY Zenon DEF IInv
<1>2. /\ flows \in [Flows -> Flow] /\ old \in Flow /\ account.recovered \in Nat /\ now \in Nat
      /\ sessions \in [Sessions -> Session] /\ incidents \in [Incidents -> Incident]
    BY <1>1 DEF TypeOK, Account
<1>3. Row(old, account.recovered, cases, incidents)
    BY Zenon DEF IInv, FlowInv
<1>4. /\ old.status = "pending" /\ guard' = f /\ cleared' = (cleared \/ all)
      /\ now' = now /\ account' = account /\ cases' = cases /\ links' = links /\ room' = room
    BY Zenon DEF Report, Submits
<1>5. old.status # "completed" /\ "none" # "account_secured"
    BY <1>4, Zenon
<1>6. old.outcome = "none"
    BY <1>3, <1>5, Zenon DEF Row
<1>7. sessions' = [t \in Sessions |-> IF (all \/ t = target) /\ sessions[t].status = "live"
                                      THEN [sessions[t] EXCEPT !.status = "revoked"] ELSE sessions[t]]
    BY Zenon DEF Report
<1>8. flows' = [flows EXCEPT ![f] = row]
    BY <1>2, Zenon DEF Report
<1>9. target \in Sessions \cup {None}
    BY <1>2, Zenon DEF Flow
<1> HIDE DEF target
<1>10. row \in Flow
    BY <1>2, <1>9, Zenon DEF Flow, Steps
<1>11. /\ row.outcome = old.outcome /\ row.status = old.status /\ row.proved = old.proved
       /\ row.known = old.known /\ row.grant = old.grant /\ row.case = old.case
       /\ row.incident = old.incident /\ row.contact = old.contact /\ row.mfa = old.mfa
       /\ row.factor = old.factor /\ row.step \notin {"verify_identity", "verify_mfa"}
    BY <1>2, Zenon DEF Flow
<1> HIDE DEF row
<1>12. ASSUME NEW t \in Sessions
       PROVE  /\ sessions'[t] \in Session /\ sessions'[t].proof = sessions[t].proof
              /\ sessions'[t].status = "live" => sessions[t].status = "live" /\ ~all
    <2>1. sessions[t] \in Session
        BY <1>2, Zenon
    <2>2. CASE (all \/ t = target) /\ sessions[t].status = "live"
        <3>1. sessions'[t] = [sessions[t] EXCEPT !.status = "revoked"]
            BY <1>7, <2>2, Zenon
        <3> QED
            BY <2>1, <3>1, Zenon DEF Session
    <2>3. CASE ~((all \/ t = target) /\ sessions[t].status = "live")
        <3>1. sessions'[t] = sessions[t]
            BY <1>7, <2>3, Zenon
        <3> QED
            BY <2>1, <2>3, <3>1, Zenon
    <2> QED
        BY <2>2, <2>3, Zenon
<1>13. sessions' \in [Sessions -> Session]
    BY <1>7, <1>12, Zenon
<1>14. ASSUME NEW i \in Incidents
       PROVE  /\ incidents'[i] \in Incident
              /\ incidents'[i].mfa = incidents[i].mfa /\ incidents'[i].contact = incidents[i].contact
              /\ incidents'[i].before = incidents[i].before
              /\ incidents'[i].status # "none" <=> incidents[i].status # "none"
    <2>1. CASE i = old.incident
        <3>1. i # None
            BY SecurityAssumption, Zenon
        <3>2. incidents[i].status # "none"
            BY <1>3, <2>1, <3>1, Zenon DEF Row
        <3>3. incidents'[i] = [incidents[i] EXCEPT !.status = "protecting"] /\ incidents[i] \in Incident
            BY <1>2, <2>1, Zenon DEF Report
        <3> QED
            BY <3>2, <3>3, Zenon DEF Incident
    <2>2. CASE i # old.incident
        BY <1>2, <2>2, Zenon DEF Report
    <2> QED
        BY <2>1, <2>2, Zenon
<1>15. incidents' \in [Incidents -> Incident]
    BY <1>14, Zenon DEF Report
<1>16. IncidentInv'
    BY <1>1, <1>14, Zenon DEF IncidentInv, IncidentRow
<1>17. LinkInv'
    BY <1>1, <1>4, <1>14, Zenon DEF LinkInv, LinkRow
<1>18. flows' \in [Flows -> Flow] /\ guard' \in Flows \cup {None} /\ guard' # None
    BY <1>2, <1>4, <1>8, <1>10, SecurityAssumption, Zenon
<1>19. cleared' \in BOOLEAN
    BY <1>4, Zenon
<1>20. TypeOK'
    BY <1>1, <1>4, <1>13, <1>15, <1>18, <1>19, Zenon DEF TypeOK
<1>21. account'.recovered <= now' /\ account.recovered <= account'.recovered
    BY <1>1, <1>2, <1>4
<1>22. Later
    BY <1>4, <1>14, <1>21, Zenon DEF Later
<1>23. Row(row, account.recovered, cases, incidents)
    BY <1>3, <1>5, <1>6, <1>11, Zenon DEF Row
<1>24. Row(row, account'.recovered, cases', incidents')
    BY <1>1, <1>10, <1>20, <1>22, <1>23, RowKept, Zenon
<1>25. row.outcome # "account_secured"
    BY <1>6, <1>11, Zenon
<1>26. FlowInv' /\ SessionInv' /\ ProofBuysOneSession' /\ OneRecoveryPerCase'
    BY <1>5, <1>8, <1>10, <1>12, <1>20, <1>22, <1>24, <1>25, FlowWritten, Zenon
<1>27. ClearedInv'
    BY <1>1, <1>4, <1>12, <1>18, Zenon DEF ClearedInv
<1>28. SpentWell
    <2>1. \A g \in Flows : flows'[g].outcome = flows[g].outcome
        BY <1>2, <1>8, <1>11, Zenon
    <2> QED
        BY <2>1, Zenon DEF SpentWell, Spends
<1> QED
    BY <1>16, <1>17, <1>20, <1>21, <1>26, <1>27, <1>28, Zenon DEF IInv

\* The account is secured, its flow, incident and case end, and the guard goes.
LEMMA RestoreKeeps ==
    ASSUME IInv, NEW f \in Flows, NEW new \in SUBSET Passkeys, Restore(f, new)
    PROVE  IInv' /\ SpentWell
<1>1. TypeOK /\ account.recovered <= now /\ ClearedInv /\ FlowInv
    BY Zenon DEF IInv
<1>2. /\ flows \in [Flows -> Flow] /\ flows[f] \in Flow /\ account.recovered \in Nat /\ now \in Nat
      /\ account.creds \in [Creds -> Cred] /\ guard \in Flows \cup {None}
    BY <1>1 DEF TypeOK, Account
<1>3. /\ flows[f].status = "pending" /\ Authority(f) /\ flows[f].proved /\ Complete(f, "account_secured")
      /\ now' = now /\ sessions' = sessions /\ links' = links /\ room' = room
      /\ guard' = IF guard = f THEN None ELSE guard
      /\ cleared' = (cleared /\ guard' # None)
    BY Zenon DEF Restore, Submits
<1> DEFINE creds == [x \in Creds |-> IF x \in new THEN [state |-> "active", at |-> now]
                                     ELSE IF Kept(f, x) THEN account.creds[x] ELSE NoCred]
<1>4. account' = [email |-> RestoredContact(f), recovered |-> now, creds |-> creds]
    BY Zenon DEF Restore
<1>5. creds \in [Creds -> Cred]
    BY <1>2, Zenon DEF Cred, NoCred
<1> HIDE DEF creds
<1>6. RestoredContact(f) \in Contact
    BY <1>2, Zenon DEF RestoredContact, Flow
<1>7. account' \in Account /\ account'.recovered = now /\ account'.email = RestoredContact(f)
    BY <1>2, <1>4, <1>5, <1>6, Zenon DEF Account
<1>8. "account_secured" \in {"activity_confirmed", "account_secured"} /\ now <= now
    BY <1>2
<1>9. /\ incidents' \in [Incidents -> Incident] /\ cases' \in [Cases -> Case]
      /\ \A i \in Incidents : incidents[i].status # "none" =>
            /\ incidents'[i].status # "none"
            /\ incidents'[i].mfa = incidents[i].mfa /\ incidents'[i].contact = incidents[i].contact
            /\ incidents'[i].before = incidents[i].before
      /\ IncidentInv' /\ \A k \in Links : LinkRow(links[k], incidents')
      /\ \A c \in Cases : cases[c].status = "completed" => cases'[c].status = "completed"
      /\ \E r \in Flow : /\ flows' = [flows EXCEPT ![f] = r] /\ Row(r, now, cases', incidents')
                         /\ r.grant => cases[r.case].status # "completed"
    BY <1>2, <1>3, <1>8, CompleteFacts, Zenon
<1>10. PICK r \in Flow : /\ flows' = [flows EXCEPT ![f] = r] /\ Row(r, now, cases', incidents')
                         /\ r.grant => cases[r.case].status # "completed"
    BY <1>9, Zenon
<1>11. flows' \in [Flows -> Flow] /\ \A g \in Flows : g # f => flows'[g] = flows[g]
    BY <1>2, <1>10, Zenon
<1>12. guard' \in Flows \cup {None}
    BY <1>2, <1>3, Zenon
<1>13. cleared' \in BOOLEAN
    BY <1>3, Zenon
<1>14. TypeOK'
    BY <1>1, <1>3, <1>7, <1>9, <1>11, <1>12, <1>13, Zenon DEF TypeOK
<1>15. account'.recovered <= now' /\ account.recovered <= account'.recovered
    BY <1>1, <1>2, <1>3, <1>7
<1>16. Later
    BY <1>9, <1>15, Zenon DEF Later
<1>17. flows[f].status # "completed"
    BY <1>3, Zenon
<1>18. Row(r, account'.recovered, cases', incidents')
    BY <1>7, <1>10, Zenon
<1>19. FlowInv' /\ SessionInv' /\ ProofBuysOneSession' /\ OneRecoveryPerCase'
    BY <1>3, <1>10, <1>14, <1>16, <1>17, <1>18, FlowWritten, Zenon
<1>20. ClearedInv' /\ LinkInv'
    BY <1>1, <1>3, <1>9, Zenon DEF ClearedInv, LinkInv
<1>21. SpentWell
    <2>1. flows[f].known
        BY <1>1, <1>3, Zenon DEF FlowInv, Row
    <2>2. \A g \in Flows : Spends(g) => g = f
        BY <1>11, Zenon DEF Spends
    <2> QED
        BY <1>3, <1>7, <2>1, <2>2, Zenon DEF SpentWell
<1> QED
    BY <1>9, <1>14, <1>15, <1>19, <1>20, <1>21, Zenon DEF IInv

\* Support and the account exchange messages, and support decides.
LEMMA CaseStepKeeps ==
    ASSUME IInv,
           \/ \E f \in Flows : SupportMessage(f)
           \/ \E c \in Cases, status \in {"approved", "rejected", "needs_information"} : DecideCase(c, status)
    PROVE  IInv' /\ SpentWell
<1>1. /\ account \in Account /\ now \in 0..MaxTime /\ now \in Nat /\ room \in Room
      /\ cases \in [Cases -> Case] /\ links \in [Links -> Link] /\ incidents \in [Incidents -> Incident]
    BY DEF IInv, TypeOK, Room
<1>2. now <= now /\ IncidentInv /\ LinkInv
    BY <1>1 DEF IInv
<1>3. ASSUME NEW c, NEW status \in {"pending", "approved", "rejected", "needs_information"},
             cases[c].status \in {"pending", "needs_information"}, cases' = [cases EXCEPT ![c].status = status]
      PROVE  /\ cases' \in [Cases -> Case]
             /\ \A d \in Cases : cases[d].status = "completed" => cases'[d].status = "completed"
    <2>1. ASSUME NEW d \in Cases
          PROVE  cases'[d] \in Case /\ (cases[d].status = "completed" => cases'[d].status = "completed")
        <3>1. cases[d] \in Case
            BY <1>1, Zenon
        <3>2. CASE d = c
            <4>1. cases'[d] = [cases[d] EXCEPT !.status = status]
                BY <1>1, <1>3, <3>2, Zenon
            <4> QED
                BY <1>3, <3>1, <3>2, <4>1 DEF Case
        <3>3. CASE d # c
            BY <1>1, <1>3, <3>1, <3>3, Zenon
        <3> QED
            BY <3>2, <3>3, Zenon
    <2> QED
        BY <1>1, <1>3, <2>1, Zenon
<1>4. ASSUME NEW f \in Flows, SupportMessage(f)
      PROVE  IInv' /\ SpentWell
    <2> DEFINE c == flows[f].case
    <2>1. /\ cases[c].status \in {"pending", "needs_information"}
          /\ cases' = [cases EXCEPT ![c].status = "pending"]
          /\ now' = now /\ account' = account /\ sessions' = sessions /\ guard' = guard
          /\ incidents' = incidents /\ links' = links /\ flows' = flows /\ cleared' = cleared /\ room' = room
        BY <1>4, Zenon DEF SupportMessage
    <2> HIDE DEF c
    <2>2. /\ cases' \in [Cases -> Case]
          /\ \A d \in Cases : cases[d].status = "completed" => cases'[d].status = "completed"
        BY <1>3, <2>1, Zenon
    <2>3. IncidentInv' /\ LinkInv'
        BY <1>2, <2>1, Zenon DEF IncidentInv, LinkInv
    <2> QED
        BY <1>1, <1>2, <2>1, <2>2, <2>3, OutsideFlows, Zenon
<1>5. ASSUME NEW c \in Cases, NEW status \in {"approved", "rejected", "needs_information"},
             DecideCase(c, status)
      PROVE  IInv' /\ SpentWell
    <2> DEFINE purpose == IF status = "approved" THEN "support_grant" ELSE "support_status"
    <2>1. /\ cases[c].status \in {"pending", "needs_information"}
          /\ cases' = [cases EXCEPT ![c].status = status] /\ SendLink(c, purpose)
          /\ now' = now /\ account' = account /\ sessions' = sessions /\ guard' = guard
          /\ incidents' = incidents /\ flows' = flows /\ cleared' = cleared /\ room' = room
        BY <1>5, Zenon DEF DecideCase
    <2>2. purpose \in {"support_grant", "support_status"}
        BY Zenon
    <2> HIDE DEF purpose
    <2>3. /\ cases' \in [Cases -> Case]
          /\ \A d \in Cases : cases[d].status = "completed" => cases'[d].status = "completed"
        BY <1>3, <2>1, Zenon
    <2>4. links' \in [Links -> Link] /\ \A k \in Links : LinkRow(links'[k], incidents)
        BY <2>1, <2>2, SendLinkFacts, Zenon
    <2>5. IncidentInv' /\ LinkInv'
        BY <1>2, <2>1, <2>4, Zenon DEF IncidentInv, LinkInv
    <2> QED
        BY <1>1, <1>2, <2>1, <2>3, <2>4, <2>5, OutsideFlows, Zenon
<1> QED
    BY <1>4, <1>5, Zenon

\* Every step keeps the invariant and uses flows up as it should.
LEMMA NextKeeps ==
    ASSUME IInv, [Next]_vars
    PROVE  IInv' /\ SpentWell
<1>1. CASE AccountStep
    BY <1>1, AccountStepKeeps, Zenon
<1>2. ASSUME NEW f \in Flows, FlowStep(f)
      PROVE  IInv' /\ SpentWell
    BY <1>2, StartKeeps, SubmitKeeps, ConfirmKeeps, ReportKeeps, RestoreKeeps, CaseStepKeeps, Zenon
       DEF FlowStep
<1>3. ASSUME NEW c \in Cases, NEW status \in {"approved", "rejected", "needs_information"},
             DecideCase(c, status)
      PROVE  IInv' /\ SpentWell
    BY <1>3, CaseStepKeeps, Zenon
<1>4. CASE UNCHANGED vars
    <2>1. /\ account \in Account /\ now \in 0..MaxTime /\ now \in Nat /\ room \in Room
          /\ cases \in [Cases -> Case] /\ links \in [Links -> Link] /\ incidents \in [Incidents -> Incident]
        BY DEF IInv, TypeOK, Room
    <2>2. now <= now /\ IncidentInv /\ LinkInv
        BY <2>1 DEF IInv
    <2>3. /\ now' = now /\ account' = account /\ sessions' = sessions /\ guard' = guard
          /\ incidents' = incidents /\ cases' = cases /\ links' = links /\ flows' = flows
          /\ cleared' = cleared /\ room' = room
        BY <1>4, Zenon DEF vars
    <2>4. IncidentInv' /\ LinkInv'
        BY <2>2, <2>3, Zenon DEF IncidentInv, LinkInv
    <2> QED
        BY <2>1, <2>2, <2>3, <2>4, OutsideFlows, Zenon
<1> QED
    BY <1>1, <1>2, <1>3, <1>4, Zenon DEF Next
-----------------------------------------------------------------------------
(* What follows *)

\* The inductive invariant.
THEOREM Invariance == Spec => []IInv
<1>1. Init => IInv
    BY InitHolds, Zenon
<1>2. IInv /\ [Next]_vars => IInv'
    BY NextKeeps, Zenon
<1> QED
    BY <1>1, <1>2, PTL DEF Spec

\* One approval of a case restores access once.
THEOREM OneRecovery == Spec => []OneRecoveryPerCase
<1>1. IInv => OneRecoveryPerCase
    BY Zenon DEF IInv
<1> QED
    BY <1>1, Invariance, PTL

\* A sign-in proof buys one session.
THEOREM OneSession == Spec => []ProofBuysOneSession
<1>1. IInv => ProofBuysOneSession
    BY Zenon DEF IInv
<1> QED
    BY <1>1, Invariance, PTL

\* An account whose sessions were all revoked has none until it is recovered.
THEOREM StaysCleared == Spec => []NoSessionWhileCleared
<1>1. IInv => NoSessionWhileCleared
    BY Zenon DEF IInv, ClearedInv, NoSessionWhileCleared
<1> QED
    BY <1>1, Invariance, PTL

\* The review of an event asks for the second factor from before it.
THEOREM FactorRequired == Spec => []FactorStillRequired
<1>1. IInv => FactorStillRequired
    <2> SUFFICES ASSUME IInv, NEW f \in Flows, flows[f].incident # None, flows[f].proved,
                        incidents[flows[f].incident].before.mfa
                 PROVE  flows[f].factor
        BY Zenon DEF FactorStillRequired
    <2>1. flows[f].incident \in Incidents
        BY Zenon DEF IInv, TypeOK, Flow
    <2>2. Row(flows[f], account.recovered, cases, incidents)
        BY Zenon DEF IInv, FlowInv
    <2>3. IncidentRow(incidents[flows[f].incident])
        BY <2>1, Zenon DEF IInv, IncidentInv
    <2> QED
        BY <2>2, <2>3, Zenon DEF Row, IncidentRow
<1> QED
    BY <1>1, Invariance, PTL

\* Nothing proved before a recovery is worth anything after it.
THEOREM NoCrossing == Spec => RecoveriesDoNotCross
<1>1. ASSUME IInv, [Next]_vars
      PROVE  [\A f, g \in Flows : flows[f].outcome = "account_secured" /\ Spends(g)
                                  => flows[f].done <= flows[g].cutoff]_vars
    <2> SUFFICES ASSUME NEW f \in Flows, NEW g \in Flows,
                        flows[f].outcome = "account_secured", Spends(g)
                 PROVE  flows[f].done <= flows[g].cutoff
        BY Zenon
    <2>1. SpentWell
        BY <1>1, NextKeeps, Zenon
    <2>2. account.recovered <= flows[g].cutoff
        BY <2>1, Zenon DEF SpentWell, Authority
    <2>3. flows[f].done <= account.recovered
        BY <1>1, Zenon DEF IInv, FlowInv, Row
    <2>4. flows[f].done \in Nat /\ flows[g].cutoff \in Nat /\ account.recovered \in Nat
        BY <1>1, Zenon DEF IInv, TypeOK, Flow, Account
    <2> QED
        BY <2>2, <2>3, <2>4
<1> QED
    BY <1>1, Invariance, PTL DEF Spec, RecoveriesDoNotCross

\* A recovery without support gives back the contact from before the event.
THEOREM EarlierContact == Spec => RestoresEarlierContact
<1> DEFINE Restores(f) ==
        LET i == flows[f].incident IN
        Spends(f) /\ flows'[f].outcome = "account_secured" /\ ~flows[f].grant /\ i # None
        => account'.email = incidents[i].before.email
<1>1. ASSUME IInv, [Next]_vars
      PROVE  [\A f \in Flows : Restores(f)]_vars
    <2> SUFFICES ASSUME NEW f \in Flows, Spends(f), flows'[f].outcome = "account_secured",
                        ~flows[f].grant, flows[f].incident # None
                 PROVE  account'.email = incidents[flows[f].incident].before.email
        BY Zenon
    <2>1. account'.email = flows[f].contact
        <3>1. SpentWell
            BY <1>1, NextKeeps, Zenon
        <3> QED
            BY <3>1, Zenon DEF SpentWell, RestoredContact
    <2>2. flows[f].incident \in Incidents
        BY <1>1, Zenon DEF IInv, TypeOK, Flow
    <2>3. Row(flows[f], account.recovered, cases, incidents)
        BY <1>1, Zenon DEF IInv, FlowInv
    <2>4. IncidentRow(incidents[flows[f].incident])
        BY <1>1, <2>2, Zenon DEF IInv, IncidentInv
    <2> QED
        BY <2>1, <2>3, <2>4, Zenon DEF Row, IncidentRow
<1> QED
    BY <1>1, Invariance, PTL DEF Spec, RestoresEarlierContact
=============================================================================
