----------------------------- MODULE FlowsProof -----------------------------
(***************************************************************************)
(* Proofs about Flows, for any number of requests, challenges and          *)
(* sessions, all lifetimes and every plan.  The engine writes back the     *)
(* copy of the row it loaded, so what is said of the row must be said of   *)
(* every copy some request still holds (ReqOK): a copy that is pending     *)
(* still asks for the consents, if those could be read when the flow was   *)
(* created, and for the second factor, and waits for a challenge its       *)
(* verifier accepts.                                                       *)
(***************************************************************************)
EXTENDS Flows, FiniteSetTheorems, TLAPS

\* What the row and every copy of it say, an idle request's included.
FlowOK(f) ==
    /\ f.step = "accept_consents" => plan.kind = "signup"
    /\ plan.first = "mfa_required" /\ f.status = "pending" => f.step = "mfa_required"
    /\ f.status = "pending" /\ f.step = "verify_email" => Verifiable(f)

\* What the row says once it is there, and every copy that may be written to it.
GateOK(f) ==
    plan.kind = "signup" /\ plan.required /\ f.status = "pending" => f.required \/ consents.misread

\* Session s was minted from a second factor.
FromFactor(s) ==
    /\ s \in Sessions /\ sess[s].state # "none"
    /\ sess[s].from \in Challenges /\ chal[sess[s].from].type = "mfa"

\* What the place a request has reached says of its copy and its session.
PlaceOK(x) ==
    /\ x.at \in {"registered", "submit", "resend", "switch", "abandon", "revoke", "fresh"}
          => x.flow.status = "pending"
    /\ x.at \in {"registered", "revoke", "fresh"} => plan.kind = "signup"
    /\ x.at = "revoke" => x.sess \in Sessions
    /\ x.at = "created" /\ x.sess # NoSession
          => plan.kind = "signin" /\ plan.first = "completed" /\ x.flow.status = "completed"
    /\ x.at = "rotate" =>
          /\ x.flow.status = "completed" /\ x.sess \in Sessions
          /\ plan.kind = "signup" /\ plan.required => consents.misread
          /\ plan.first = "mfa_required" => FromFactor(x.sess)

ReqOK(x) == FlowOK(x.flow) /\ (x.at # "idle" => GateOK(x.flow)) /\ PlaceOK(x)

RowOK == FlowOK(flow) /\ (token > 0 => GateOK(flow))

SurfacedOK == plan.first = "mfa_required" => \A s \in surfaced : FromFactor(s)

OneLive ==
    plan.kind = "recovery" =>
       \A s, t \in Sessions : sess[s].state = "live" /\ sess[t].state = "live" => s = t

Inv ==
    /\ TypeOK /\ RowOK /\ \A q \in Requests : ReqOK(req[q])
    /\ ConsentsBeforeSession /\ SurfacedOK /\ OneLive

\* Request x is in progress; it has a session to return.
Busy(x) == x.at # "idle"
Carries(x) == x.at = "rotate" \/ (x.at = "created" /\ x.sess # NoSession)

\* Of requests that come one at a time: only one is in progress, it has the row
\* or is about to insert it, the session it carries is live, and once a session
\* was returned there is no row to load and no request left.
Alone ==
    /\ \A p, q \in Requests : Busy(req[p]) /\ Busy(req[q]) => p = q
    /\ \A q \in Requests : Busy(req[q]) =>
          (token = 0 <=> req[q].at \in {"registered", "created"})
    /\ \A q \in Requests : Carries(req[q]) => sess[req[q].sess].state = "live"
    /\ surfaced # {} => /\ token > 0 /\ flow.status # "pending"
                        /\ \A q \in Requests : ~Busy(req[q])
    /\ \A s, t \in surfaced : s = t

Serial == ~overlapped => Alone

-----------------------------------------------------------------------------
(* What the steps are made of *)

\* What the assumption says of the plan a flow was created with.
LEMMA PlanFacts ==
  ASSUME plan \in Plans
  PROVE  /\ plan.kind \in Kinds /\ plan.first \in FirstSteps \cup {"completed"}
         /\ plan.required \in BOOLEAN
         /\ plan.kind = "signup" => plan.first = "verify_email"
         /\ plan.kind = "recovery" => plan.first \in {"verify_email", "verify_phone"}
         /\ plan.first = "mfa_required" => plan.kind = "signin"
  <1>1. plan \in Plan
    BY FlowsAssumption, Zenon
  <1>2. /\ plan.kind \in Kinds /\ plan.first \in FirstSteps \cup {"completed"}
        /\ plan.required \in BOOLEAN
    BY <1>1, Zenon DEF Plan
  <1>3. /\ plan.kind = "signup" => plan.first = "verify_email"
        /\ plan.kind = "recovery" => plan.first \in {"verify_email", "verify_phone"}
    BY FlowsAssumption, Zenon
  <1>4. QED
    BY <1>2, <1>3, Zenon DEF Kinds

\* The types the verifiers accept.
LEMMA AcceptsFacts ==
  ASSUME plan \in Plans
  PROVE  /\ Accepts("verify_email") \in {"email", "link", "password_reset"}
         /\ plan.kind = "signup" => Accepts("verify_email") = "email"
         /\ Accepts("verify_phone") \in {"phone", "otp"}
         /\ Accepts("mfa_required") = "mfa"
         /\ \A step \in FirstSteps : Accepts(step) \in Types
  <1>0. plan.kind \in {"signup", "signin", "recovery"}
    BY PlanFacts, Zenon DEF Kinds
  <1>1. Accepts("mfa_required") = "mfa"
    BY Zenon DEF Accepts
  <1>2. Accepts("verify_phone") = IF plan.kind = "recovery" THEN "phone" ELSE "otp"
    BY Zenon DEF Accepts
  <1>3. Accepts("verify_email") = CASE plan.kind = "signup" -> "email"
                                    [] plan.kind = "signin" -> "link"
                                    [] plan.kind = "recovery" -> "password_reset"
    BY Zenon DEF Accepts
  <1>4. /\ plan.kind = "signup" => Accepts("verify_email") = "email"
        /\ plan.kind = "signin" => Accepts("verify_email") = "link"
        /\ plan.kind = "recovery" => Accepts("verify_email") = "password_reset"
    BY <1>3, Zenon
  <1>5. QED
    BY <1>0, <1>1, <1>2, <1>4, Zenon DEF FirstSteps, Types

\* A new copy of the row, and an idle request.
LEMMA NewFlowFacts ==
  ASSUME plan \in Plans, now \in Nat
  PROVE  /\ NewFlow \in Flow /\ NewFlow.status = "pending" /\ NewFlow.step = plan.first
         /\ NewFlow.active = NoChallenge
         /\ Idle \in Request /\ Idle.at = "idle" /\ Idle.sess = NoSession
         /\ Idle.flow.status = "pending" /\ Idle.flow.step = plan.first
         /\ Idle.flow.active = NoChallenge
  <1>1. now + FlowTTL \in Nat /\ MaxAttempts \in 0..MaxAttempts
    BY FlowsAssumption
  <1>2. plan.first \in Steps
    BY PlanFacts, Zenon DEF Steps
  <1>3. NewFlow \in Flow /\ NewFlow.status = "pending" /\ NewFlow.step = plan.first
        /\ NewFlow.active = NoChallenge
    BY <1>1, <1>2, Zenon DEF NewFlow, Flow
  <1>4. /\ [NewFlow EXCEPT !.expires = 0] \in Flow
        /\ [NewFlow EXCEPT !.expires = 0].status = "pending"
        /\ [NewFlow EXCEPT !.expires = 0].step = plan.first
        /\ [NewFlow EXCEPT !.expires = 0].active = NoChallenge
    BY <1>3, Zenon DEF Flow
  <1>5. QED
    BY <1>3, <1>4, Zenon DEF Idle, Request

\* The copy with a challenge issued for it.
LEMMA ChallengedFacts ==
  ASSUME now \in Nat, NEW f \in Flow, NEW c \in Challenges \cup {Fake}
  PROVE  /\ Challenged(f, c) \in Flow /\ Challenged(f, c).active = c
         /\ Challenged(f, c).status = f.status /\ Challenged(f, c).step = f.step
         /\ Challenged(f, c).required = f.required
  <1>1. now + Cooloff \in Nat /\ MaxAttempts \in 0..MaxAttempts
    BY FlowsAssumption
  <1>2. QED
    BY <1>1, Zenon DEF Challenged, Flow

\* The completed copy.
LEMMA CompletedFacts ==
  ASSUME NEW f \in Flow
  PROVE  /\ Completed(f) \in Flow /\ Completed(f).status = "completed"
         /\ Completed(f).step = "completed"
  BY Zenon DEF Completed, Flow, Steps

\* Issuing an unissued challenge changes no other.
LEMMA IssuedFacts ==
  ASSUME TypeOK, NEW c \in Challenges, NEW type \in Types, Unissued(c), chal' = Issued(c, type)
  PROVE  /\ chal' \in [Challenges -> Challenge] /\ chal'[c].type = type
         /\ \A d \in Challenges : chal[d].type # "none" => chal'[d].type = chal[d].type
  <1>1. [type |-> type, used |-> FALSE, until |-> now + ChallengeTTL, wrong |-> 0] \in Challenge
    BY FlowsAssumption DEF TypeOK, Challenge
  <1>2. QED
    BY <1>1, Zenon DEF TypeOK, Issued, Unissued

\* Minting an unminted session changes no other.
LEMMA MintedFacts ==
  ASSUME TypeOK, NEW s \in Sessions, NEW from \in Challenges \cup {"register", "password", "consents"},
         Unminted(s), sess' = Minted(s, from)
  PROVE  /\ sess' \in [Sessions -> Session]
         /\ sess'[s].state = "live" /\ sess'[s].from = from
         /\ \A t \in Sessions : sess[t].state # "none" => sess'[t] = sess[t]
  BY Zenon DEF TypeOK, Minted, Unminted, Session

-----------------------------------------------------------------------------
(* The inductive invariant *)

\* No step changes the type of a challenge once issued, or where a session once
\* minted came from, or forgets that the consents could not be read.
Kept ==
    /\ plan' = plan
    /\ consents.misread => consents'.misread
    /\ chal' \in [Challenges -> Challenge] /\ sess' \in [Sessions -> Session]
    /\ \A c \in Challenges : chal[c].type # "none" => chal'[c].type = chal[c].type
    /\ \A s \in Sessions : sess[s].state # "none" =>
                              sess'[s].state # "none" /\ sess'[s].from = sess[s].from

\* What was true of a session stays true of it.
LEMMA FactorKept ==
  ASSUME TypeOK, Kept, NEW s, FromFactor(s) PROVE FromFactor(s)'
  BY Zenon DEF TypeOK, Kept, FromFactor

\* What was true of a copy stays true of it.
LEMMA FlowKept ==
  ASSUME TypeOK, Kept, NEW f \in Flow, FlowOK(f) PROVE FlowOK(f)'
  <1>1. plan' = plan
    BY Zenon DEF Kept
  <1>2. ASSUME f.status = "pending", f.step = "verify_email", f.active \in Challenges
        PROVE  chal'[f.active].type = Accepts(f.step)'
    <2>1. chal[f.active].type = Accepts(f.step)
      BY <1>2, Zenon DEF FlowOK, Verifiable
    <2>2. Accepts(f.step) # "none"
      BY <1>2, AcceptsFacts, Zenon DEF TypeOK
    <2>3. chal'[f.active].type = chal[f.active].type
      BY <1>2, <2>1, <2>2, Zenon DEF Kept
    <2>4. Accepts(f.step)' = Accepts(f.step)
      BY <1>1, Zenon DEF Accepts
    <2>5. QED
      BY <2>1, <2>3, <2>4, Zenon
  <1>3. (f.status = "pending" /\ f.step = "verify_email" => Verifiable(f))'
    BY <1>2, Zenon DEF Verifiable
  <1>4. QED
    BY <1>1, <1>3, Zenon DEF FlowOK

\* What was true of a request stays true of it.
LEMMA ReqKept ==
  ASSUME TypeOK, Kept, NEW x \in Request, ReqOK(x) PROVE ReqOK(x)'
  <1>1. plan' = plan /\ (consents.misread => consents'.misread)
    BY Zenon DEF Kept
  <1>2. x.flow \in Flow
    BY Zenon DEF Request
  <1>3. FlowOK(x.flow)'
    BY <1>2, FlowKept, Zenon DEF ReqOK
  <1>4. (x.at # "idle" => GateOK(x.flow))'
    BY <1>1, Zenon DEF ReqOK, GateOK
  <1>5. PlaceOK(x)'
    <2>1. FromFactor(x.sess) => FromFactor(x.sess)'
      BY FactorKept, Zenon
    <2>2. QED
      BY <1>1, <2>1, Zenon DEF ReqOK, PlaceOK
  <1>6. QED
    BY <1>3, <1>4, <1>5, Zenon DEF ReqOK

\* A step of request r that leaves it with record x, and the row alone, and may
\* fail to read the consents.
LEMMA CopyStepReading ==
  ASSUME Inv, Kept, NEW r \in Requests, NEW x \in Request,
         req' = [req EXCEPT ![r] = x], ReqOK(x)', OneLive',
         UNCHANGED <<now, flow, token, surfaced>>, consents' \in Consents,
         consents'.configured = consents.configured, consents'.recorded = consents.recorded,
         account' \in BOOLEAN, overlapped' \in BOOLEAN
  PROVE  Inv'
  <1>0. TypeOK /\ plan' = plan
    BY Zenon DEF Inv, Kept
  <1>1. req' \in [Requests -> Request] /\ req'[r] = x /\ \A q \in Requests : q # r => req'[q] = req[q]
    BY <1>0, Zenon DEF TypeOK
  <1>2. TypeOK'
    BY <1>0, <1>1, Zenon DEF TypeOK, Kept
  <1>3. RowOK'
    <2>1. flow \in Flow /\ FlowOK(flow)
      BY <1>0, Zenon DEF TypeOK, Inv, RowOK
    <2>2. PICK f : f = flow
      BY Zenon
    <2>3. FlowOK(f)'
      BY <1>0, <2>1, <2>2, FlowKept, Zenon
    <2>4. FlowOK(flow)'
      BY <2>2, <2>3, Zenon DEF FlowOK, Verifiable
    <2>5. QED
      BY <1>0, <2>4, Zenon DEF Inv, RowOK, GateOK, Kept
  <1>4. ASSUME NEW q \in Requests PROVE ReqOK(req[q])'
    <2>1. PICK y : y = req'[q]
      BY Zenon
    <2>2. ReqOK(y)'
      <3>1. CASE q = r
        BY <1>1, <2>1, <3>1, Zenon
      <3>2. CASE q # r
        BY <1>0, <1>1, <2>1, <3>2, ReqKept, Zenon DEF Inv, TypeOK
      <3>3. QED
        BY <3>1, <3>2, Zenon
    <2>3. QED
      BY <2>1, <2>2, Zenon DEF ReqOK, FlowOK, GateOK, PlaceOK, Verifiable, FromFactor
  <1>5. ConsentsBeforeSession'
    BY <1>0, Zenon DEF Inv, ConsentsBeforeSession, Kept
  <1>6. SurfacedOK'
    <2>1. \A s : FromFactor(s) => FromFactor(s)'
      BY <1>0, FactorKept, Zenon
    <2>2. QED
      BY <1>0, <2>1, Zenon DEF Inv, SurfacedOK
  <1>7. QED
    BY <1>2, <1>3, <1>4, <1>5, <1>6, Zenon DEF Inv

\* A step of request r that leaves it with record x, and the row alone.
LEMMA CopyStep ==
  ASSUME Inv, Kept, NEW r \in Requests, NEW x \in Request,
         req' = [req EXCEPT ![r] = x], ReqOK(x)', OneLive',
         UNCHANGED <<now, flow, token, surfaced, consents>>,
         account' \in BOOLEAN, overlapped' \in BOOLEAN
  PROVE  Inv'
  <1>1. consents' \in Consents
    BY Zenon DEF Inv, TypeOK
  <1>2. QED
    BY <1>1, CopyStepReading, Zenon

\* An idle request satisfies what is said of requests.
LEMMA IdleOK ==
  ASSUME plan \in Plans, now \in Nat PROVE Idle \in Request /\ ReqOK(Idle)
  <1>1. /\ Idle \in Request /\ Idle.at = "idle" /\ Idle.flow.step = plan.first
        /\ Idle.flow.active = NoChallenge
    BY NewFlowFacts, Zenon
  <1>2. plan.first # "accept_consents" /\ NoChallenge \notin Challenges
    BY PlanFacts, FlowsAssumption, Zenon DEF FirstSteps
  <1>3. QED
    BY <1>1, <1>2, Zenon DEF ReqOK, FlowOK, PlaceOK, Verifiable

\* A step of request r that writes the row, and ends the request.
LEMMA WriteStep ==
  ASSUME Inv, Kept, NEW r \in Requests, NEW f \in Flow,
         req' = [req EXCEPT ![r] = Idle], flow' = f, FlowOK(f)', GateOK(f)', token' \in Nat,
         surfaced' \subseteq Sessions, SurfacedOK', OneLive', ConsentsBeforeSession',
         consents' \in Consents,
         UNCHANGED <<now, account, overlapped>>
  PROVE  Inv'
  <1>0. TypeOK /\ plan' = plan
    BY Zenon DEF Inv, Kept
  <1>i. Idle \in Request /\ ReqOK(Idle)
    BY <1>0, FlowsAssumption, IdleOK DEF TypeOK
  <1>1. req' \in [Requests -> Request] /\ req'[r] = Idle /\ \A q \in Requests : q # r => req'[q] = req[q]
    BY <1>0, <1>i, Zenon DEF TypeOK
  <1>2. TypeOK'
    BY <1>0, <1>1, Zenon DEF TypeOK, Kept
  <1>3. RowOK'
    BY Zenon DEF RowOK, FlowOK, GateOK, Verifiable
  <1>4. ASSUME NEW q \in Requests PROVE ReqOK(req[q])'
    <2>1. PICK y : y = req'[q]
      BY Zenon
    <2>2. y \in Request /\ ReqOK(y)
      BY <1>0, <1>i, <1>1, <2>1, Zenon DEF Inv, TypeOK
    <2>3. ReqOK(y)'
      BY <1>0, <2>2, ReqKept, Zenon
    <2>4. QED
      BY <2>1, <2>3, Zenon DEF ReqOK, FlowOK, GateOK, PlaceOK, Verifiable, FromFactor
  <1>5. QED
    BY <1>2, <1>3, <1>4, Zenon DEF Inv

\* A finite set has at most one element exactly when its cardinality says so.
LEMMA AtMostOne ==
  ASSUME NEW S, IsFiniteSet(S)
  PROVE  Cardinality(S) <= 1 <=> \A s, t \in S : s = t
  <1>0. Cardinality(S) \in Nat
    BY FS_CardinalityType, Zenon
  <1>1. (Cardinality(S) = 0 <=> S = {}) /\ (Cardinality(S) = 1 <=> \E s : S = {s})
    BY FS_EmptySet, FS_Singleton, Zenon
  <1>2. ASSUME Cardinality(S) <= 1 PROVE \A s, t \in S : s = t
    <2>1. S = {} \/ \E s : S = {s}
      BY <1>0, <1>1, <1>2
    <2>2. QED
      BY <2>1, Zenon
  <1>3. ASSUME \A s, t \in S : s = t PROVE Cardinality(S) <= 1
    <2>1. S = {} \/ \E s : S = {s}
      BY <1>3
    <2>2. QED
      BY <1>1, <2>1
  <1>4. QED
    BY <1>2, <1>3, Zenon

\* Before the flow is created.
LEMMA InitInv == Init => Inv
  <1> SUFFICES ASSUME Init PROVE Inv
    BY Zenon
  <1>0. plan \in Plans /\ now \in Nat /\ now \in 0..MaxTime
    BY FlowsAssumption DEF Init
  <1>1. Idle \in Request /\ ReqOK(Idle)
    BY <1>0, IdleOK, Zenon
  <1>2. Idle.flow \in Flow /\ FlowOK(Idle.flow)
    BY <1>1, Zenon DEF Request, ReqOK
  <1>3. PICK old \in SUBSET Sessions :
          /\ Cardinality(old) <= (IF plan.kind = "recovery" /\ plan.known THEN 1 ELSE 0)
          /\ sess = [s \in Sessions |-> IF s \in old THEN [state |-> "live", from |-> "password"]
                                        ELSE [state |-> "none", from |-> "none"]]
    BY Zenon DEF Init
  <1>4. sess \in [Sessions -> Session]
    BY <1>3, Zenon DEF Session
  <1>5. chal \in [Challenges -> Challenge]
    BY FlowsAssumption DEF Init, Challenge
  <1>6. account \in BOOLEAN /\ consents \in Consents
    BY Zenon DEF Init, Consents
  <1>7. TypeOK
    BY <1>0, <1>1, <1>2, <1>4, <1>5, <1>6, Zenon DEF Init, TypeOK
  <1>8. OneLive
    <2>1. IsFiniteSet(old)
      BY FlowsAssumption, FS_Subset, Zenon
    <2>2. Cardinality(old) <= 1
      <3>1. Cardinality(old) \in Nat
        BY <2>1, FS_CardinalityType, Zenon
      <3>2. QED
        BY <1>3, <3>1
    <2>3. \A s, t \in old : s = t
      BY <2>1, <2>2, AtMostOne, Zenon
    <2>4. \A s \in Sessions : sess[s].state = "live" => s \in old
      BY <1>3, Zenon
    <2>5. QED
      BY <2>3, <2>4, Zenon DEF OneLive
  <1>9. QED
    BY <1>1, <1>2, <1>7, <1>8 DEF Init, Inv, RowOK, ConsentsBeforeSession, SurfacedOK

-----------------------------------------------------------------------------
(* The steps that create a flow *)

\* A step that leaves the tables alone.
LEMMA KeptSame ==
  ASSUME TypeOK, UNCHANGED <<plan, chal, sess>>, consents.misread => consents'.misread
  PROVE  Kept
  BY Zenon DEF TypeOK, Kept

\* Minting a session keeps what the tables say of the others.
LEMMA KeptMint ==
  ASSUME TypeOK, UNCHANGED <<plan, chal>>, consents.misread => consents'.misread,
         NEW s \in Sessions, Unminted(s),
         NEW from \in Challenges \cup {"register", "password", "consents"}, sess' = Minted(s, from)
  PROVE  Kept
  BY MintedFacts, Zenon DEF TypeOK, Kept

\* Issuing a challenge keeps what the tables say of the others.
LEMMA KeptIssue ==
  ASSUME TypeOK, UNCHANGED <<plan, sess>>, consents.misread => consents'.misread,
         NEW c \in Challenges, NEW type \in Types,
         Unissued(c), chal' = Issued(c, type)
  PROVE  Kept
  BY IssuedFacts, Zenon DEF TypeOK, Kept

\* What has to be shown of the record a request is left with.
LEMMA CopyOK ==
  ASSUME Kept, NEW x,
         x.flow.step = "accept_consents" => plan.kind = "signup",
         plan.first = "mfa_required" /\ x.flow.status = "pending" => x.flow.step = "mfa_required",
         x.flow.status = "pending" /\ x.flow.step = "verify_email" /\ x.flow.active \in Challenges
            => chal'[x.flow.active].type = Accepts("verify_email"),
         GateOK(x.flow), PlaceOK(x)'
  PROVE  ReqOK(x)'
  <1>0. plan' = plan /\ (consents.misread => consents'.misread)
    BY Zenon DEF Kept
  <1>1. Accepts("verify_email")' = Accepts("verify_email")
    BY <1>0, Zenon DEF Accepts
  <1>2. (x.flow.status = "pending" /\ x.flow.step = "verify_email" => Verifiable(x.flow))'
    BY <1>1, Zenon DEF Verifiable
  <1>3. FlowOK(x.flow)'
    BY <1>0, <1>2, Zenon DEF FlowOK
  <1>4. GateOK(x.flow)'
    BY <1>0, Zenon DEF GateOK
  <1>5. QED
    BY <1>3, <1>4, Zenon DEF ReqOK

\* The facts each of the steps below starts from.
LEMMA Base ==
  ASSUME Inv, NEW r \in Requests
  PROVE  /\ TypeOK /\ plan \in Plans /\ now \in Nat
         /\ req[r] \in Request /\ req[r].flow \in Flow /\ ReqOK(req[r])
         /\ NoChallenge \notin Challenges /\ Fake \notin Challenges /\ NoSession \notin Sessions
  <1>1. TypeOK /\ ReqOK(req[r])
    BY Zenon DEF Inv
  <1>2. req[r] \in Request /\ plan \in Plans /\ now \in Nat
    BY <1>1, FlowsAssumption DEF TypeOK
  <1>3. QED
    BY <1>1, <1>2, FlowsAssumption, Zenon DEF Request

\* Registering commits the account before the flow has a row.
LEMMA RegisterInv ==
  ASSUME Inv, NEW r \in Requests, NEW s \in Sessions, NEW required \in BOOLEAN, Register(r, s, required)
  PROVE  Inv'
  <1>0. /\ TypeOK /\ plan \in Plans /\ now \in Nat /\ NoChallenge \notin Challenges
        /\ NewFlow \in Flow /\ NewFlow.status = "pending" /\ NewFlow.step = plan.first
        /\ NewFlow.active = NoChallenge
    BY Base, NewFlowFacts, Zenon
  <1>1. plan.kind = "signup" /\ plan.first = "verify_email" /\ plan.required \in BOOLEAN
    BY <1>0, PlanFacts, Zenon DEF Register
  <1>2. PICK x : x = [at |-> "registered", flow |-> [NewFlow EXCEPT !.user = TRUE, !.required = required],
                      sess |-> NoSession]
    BY Zenon
  <1>3. /\ x \in Request /\ x.at = "registered" /\ x.sess = NoSession /\ x.flow.status = "pending"
        /\ x.flow.step = "verify_email" /\ x.flow.active = NoChallenge /\ x.flow.required = required
    BY <1>0, <1>1, <1>2, Zenon DEF Request, Flow
  <1>4. /\ consents' \in Consents /\ consents'.misread = (consents.misread \/ required # plan.required)
        /\ consents'.configured = consents.configured /\ consents'.recorded = consents.recorded
    <2>1. PICK b \in BOOLEAN : b = (consents.misread \/ required # plan.required)
      BY Zenon
    <2>2. consents' = [consents EXCEPT !.misread = b] /\ consents \in Consents
      BY <1>0, <2>1, Zenon DEF Register, TypeOK
    <2>3. QED
      BY <2>1, <2>2, Zenon DEF Consents
  <1>5. Kept
    BY <1>0, <1>4, KeptMint, Zenon DEF Register
  <1>6. ReqOK(x)'
    <2>1. plan' = plan
      BY Zenon DEF Register
    <2>2. PlaceOK(x)'
      BY <1>1, <1>3, <2>1, Zenon DEF PlaceOK
    <2>3. FlowOK(x.flow)'
      BY <1>0, <1>1, <1>3, <2>1, Zenon DEF FlowOK, Verifiable
    <2>4. GateOK(x.flow)'
      BY <1>3, <1>4, <2>1, Zenon DEF GateOK
    <2>5. QED
      BY <2>2, <2>3, <2>4, Zenon DEF ReqOK
  <1>7. OneLive'
    BY <1>1, Zenon DEF Register, OneLive
  <1>8. QED
    BY <1>0, <1>2, <1>3, <1>4, <1>5, <1>6, <1>7, CopyStepReading, Zenon DEF Register, Moved, TypeOK

\* Issuing a challenge for copy g, at creation, on a resend or on a switch.
LEMMA IssueStep ==
  ASSUME Inv, NEW r \in Requests, NEW g \in Flow, NEW c \in Challenges, NEW type \in Types,
         Unissued(c), chal' = Issued(c, type), NEW at \in {"created", "save"},
         Moved(r, at, Challenged(g, c), NoSession),
         UNCHANGED <<now, plan, overlapped, flow, token, sess, account, surfaced, consents>>,
         g.step = "accept_consents" => plan.kind = "signup",
         plan.first = "mfa_required" /\ g.status = "pending" => g.step = "mfa_required",
         g.status = "pending" /\ g.step = "verify_email" => type = Accepts("verify_email"),
         GateOK(g)
  PROVE  Inv'
  <1>0. TypeOK /\ plan \in Plans /\ now \in Nat /\ NoSession \notin Sessions
    BY Base, Zenon
  <1>1. /\ Challenged(g, c) \in Flow /\ Challenged(g, c).active = c
        /\ Challenged(g, c).status = g.status /\ Challenged(g, c).step = g.step
        /\ Challenged(g, c).required = g.required
    BY <1>0, ChallengedFacts, Zenon
  <1>2. PICK x : x = [at |-> at, flow |-> Challenged(g, c), sess |-> NoSession]
    BY Zenon
  <1>3. /\ x \in Request /\ x.at = at /\ x.sess = NoSession /\ x.flow.status = g.status
        /\ x.flow.step = g.step /\ x.flow.active = c /\ x.flow.required = g.required
    BY <1>1, <1>2, Zenon DEF Request
  <1>4. Kept /\ chal'[c].type = type
    BY <1>0, KeptIssue, IssuedFacts, Zenon
  <1>5. ReqOK(x)'
    <2>1. PlaceOK(x)'
      BY <1>3, Zenon DEF PlaceOK
    <2>2. GateOK(x.flow)
      BY <1>3, Zenon DEF GateOK
    <2>3. QED
      BY <1>3, <1>4, <2>1, <2>2, CopyOK, Zenon
  <1>6. OneLive'
    BY Zenon DEF Inv, OneLive
  <1>7. QED
    BY <1>0, <1>2, <1>3, <1>4, <1>5, <1>6, CopyStep, Zenon DEF Moved, TypeOK

\* A sign-up's first challenge verifies its address.
LEMMA SignupChallengeInv ==
  ASSUME Inv, NEW r \in Requests, NEW c \in Challenges, SignupChallenge(r, c)
  PROVE  Inv'
  <1>0. TypeOK /\ plan \in Plans /\ req[r].flow \in Flow /\ ReqOK(req[r])
    BY Base, Zenon
  <1>1. req[r].at = "registered" /\ req[r].flow.status = "pending" /\ plan.kind = "signup"
    BY <1>0, Zenon DEF SignupChallenge, ReqOK, PlaceOK
  <1>2. PICK g : g = req[r].flow
    BY Zenon
  <1>3. /\ g \in Flow /\ GateOK(g) /\ FlowOK(g)
    BY <1>0, <1>1, <1>2, Zenon DEF ReqOK
  <1>4. Accepts("verify_email") = "email" /\ "email" \in Types /\ plan.first # "mfa_required"
    BY <1>0, <1>1, AcceptsFacts, PlanFacts, Zenon DEF Types
  <1>5. QED
    BY <1>1, <1>2, <1>3, <1>4, IssueStep, Zenon DEF SignupChallenge

\* A sign-in's first challenge is of the type its first step accepts.
LEMMA SigninChallengeInv ==
  ASSUME Inv, NEW r \in Requests, NEW c \in Challenges, SigninChallenge(r, c)
  PROVE  Inv'
  <1>0. /\ TypeOK /\ plan \in Plans /\ now \in Nat /\ NoChallenge \notin Challenges
        /\ NewFlow \in Flow /\ NewFlow.status = "pending" /\ NewFlow.step = plan.first
    BY Base, NewFlowFacts, Zenon
  <1>1. plan.kind = "signin" /\ plan.first \in FirstSteps /\ Accepts(plan.first) \in Types
    BY <1>0, AcceptsFacts, Zenon DEF SigninChallenge
  <1>2. PICK g : g = [NewFlow EXCEPT !.user = plan.first = "mfa_required"]
    BY Zenon
  <1>b. (plan.first = "mfa_required") \in BOOLEAN
    BY Zenon
  <1>3. g \in Flow /\ g.status = "pending" /\ g.step = plan.first
    BY <1>0, <1>2, <1>b, Zenon DEF Flow
  <1>4. GateOK(g)
    BY <1>1, Zenon DEF GateOK
  <1>5. g.step # "accept_consents"
    BY <1>1, <1>3, Zenon DEF FirstSteps
  <1>6. PICK type : type = Accepts(plan.first)
    BY Zenon
  <1>7. QED
    BY <1>1, <1>2, <1>3, <1>4, <1>5, <1>6, IssueStep, Zenon DEF SigninChallenge

\* So is a recovery's.
LEMMA RecoveryChallengeInv ==
  ASSUME Inv, NEW r \in Requests, NEW c \in Challenges, RecoveryChallenge(r, c)
  PROVE  Inv'
  <1>0. /\ TypeOK /\ plan \in Plans /\ now \in Nat /\ NoChallenge \notin Challenges
        /\ NewFlow \in Flow /\ NewFlow.status = "pending" /\ NewFlow.step = plan.first
    BY Base, NewFlowFacts, Zenon
  <1>1. plan.kind = "recovery" /\ plan.first \in {"verify_email", "verify_phone"}
    BY <1>0, PlanFacts, Zenon DEF RecoveryChallenge
  <1>2. Accepts(plan.first) \in Types
    BY <1>0, <1>1, AcceptsFacts, Zenon DEF FirstSteps
  <1>3. PICK g : g = [NewFlow EXCEPT !.user = TRUE]
    BY Zenon
  <1>4. g \in Flow /\ g.status = "pending" /\ g.step = plan.first
    BY <1>0, <1>3, Zenon DEF Flow
  <1>5. GateOK(g)
    BY <1>1, Zenon DEF GateOK
  <1>6. PICK type : type = Accepts(plan.first)
    BY Zenon
  <1>7. QED
    BY <1>1, <1>2, <1>3, <1>4, <1>5, <1>6, IssueStep, Zenon DEF RecoveryChallenge

\* A step after which request r holds a record that was in order before it.
LEMMA HeldStep ==
  ASSUME Inv, Kept, NEW r \in Requests, NEW x \in Request, ReqOK(x), req' = [req EXCEPT ![r] = x],
         UNCHANGED <<now, flow, token, sess, account, surfaced, consents>>, overlapped' \in BOOLEAN
  PROVE  Inv'
  <1>1. TypeOK /\ OneLive /\ account' \in BOOLEAN /\ plan' = plan
    BY Zenon DEF Inv, TypeOK, Kept
  <1>2. OneLive'
    BY <1>1, Zenon DEF OneLive
  <1>3. ReqOK(x)'
    BY <1>1, ReqKept, Zenon
  <1>4. QED
    BY <1>1, <1>2, <1>3, CopyStep, Zenon

\* Answering with a challenge that has no row, at creation or on a resend.
LEMMA FakeStep ==
  ASSUME Inv, NEW r \in Requests, NEW g \in Flow, FlowOK(g), GateOK(g), NEW at \in {"created", "save"},
         Moved(r, at, Challenged(g, Fake), NoSession),
         UNCHANGED <<now, plan, overlapped, flow, token, chal, sess, account, surfaced, consents>>
  PROVE  Inv'
  <1>0. TypeOK /\ now \in Nat /\ Fake \notin Challenges /\ NoSession \notin Sessions
    BY Base, Zenon
  <1>1. /\ Challenged(g, Fake) \in Flow /\ Challenged(g, Fake).active = Fake
        /\ Challenged(g, Fake).status = g.status /\ Challenged(g, Fake).step = g.step
        /\ Challenged(g, Fake).required = g.required
    BY <1>0, ChallengedFacts, Zenon
  <1>2. PICK x : x = [at |-> at, flow |-> Challenged(g, Fake), sess |-> NoSession]
    BY Zenon
  <1>3. /\ x \in Request /\ x.at = at /\ x.sess = NoSession /\ x.flow.status = g.status
        /\ x.flow.step = g.step /\ x.flow.active = Fake /\ x.flow.required = g.required
    BY <1>1, <1>2, Zenon DEF Request
  <1>4. Kept
    BY <1>0, KeptSame, Zenon
  <1>5. ReqOK(x)
    BY <1>0, <1>3, Zenon DEF ReqOK, FlowOK, GateOK, PlaceOK, Verifiable
  <1>6. QED
    BY <1>0, <1>2, <1>3, <1>4, <1>5, HeldStep, Zenon DEF Moved, TypeOK

\* A recovery of an unknown contact.
LEMMA CreateFakeInv ==
  ASSUME Inv, NEW r \in Requests, CreateFake(r)
  PROVE  Inv'
  <1>0. /\ TypeOK /\ plan \in Plans /\ now \in Nat /\ NoChallenge \notin Challenges
        /\ NewFlow \in Flow /\ NewFlow.status = "pending" /\ NewFlow.step = plan.first
        /\ NewFlow.active = NoChallenge
    BY Base, NewFlowFacts, Zenon
  <1>1. plan.kind = "recovery" /\ plan.first \in {"verify_email", "verify_phone"}
    BY <1>0, PlanFacts, Zenon DEF CreateFake
  <1>2. PICK g : g = NewFlow
    BY Zenon
  <1>3. g \in Flow /\ FlowOK(g) /\ GateOK(g)
    BY <1>0, <1>1, <1>2, Zenon DEF FlowOK, GateOK, Verifiable
  <1>4. QED
    BY <1>2, <1>3, FakeStep, Zenon DEF CreateFake

\* The session of a password sign-in is minted before the row is inserted.
LEMMA CreateSignedInInv ==
  ASSUME Inv, NEW r \in Requests, NEW s \in Sessions, CreateSignedIn(r, s)
  PROVE  Inv'
  <1>0. /\ TypeOK /\ plan \in Plans /\ now \in Nat /\ NoSession \notin Sessions
        /\ NewFlow \in Flow
    BY Base, NewFlowFacts, Zenon
  <1>1. plan.kind = "signin" /\ plan.first = "completed"
    BY Zenon DEF CreateSignedIn
  <1>2. PICK g : g = [NewFlow EXCEPT !.user = TRUE]
    BY Zenon
  <1>3. g \in Flow
    BY <1>0, <1>2, Zenon DEF Flow
  <1>4. Completed(g) \in Flow /\ Completed(g).status = "completed" /\ Completed(g).step = "completed"
    BY <1>3, CompletedFacts, Zenon
  <1>5. PICK x : x = [at |-> "created", flow |-> Completed(g), sess |-> s]
    BY Zenon
  <1>6. /\ x \in Request /\ x.at = "created" /\ x.sess = s /\ x.flow.status = "completed"
        /\ x.flow.step = "completed"
    BY <1>4, <1>5, Zenon DEF Request
  <1>7. Kept
    BY <1>0, KeptMint, Zenon DEF CreateSignedIn
  <1>8. ReqOK(x)'
    <2>1. plan' = plan
      BY Zenon DEF CreateSignedIn
    <2>2. PlaceOK(x)' /\ GateOK(x.flow)
      BY <1>1, <1>6, <2>1, Zenon DEF PlaceOK, GateOK
    <2>3. QED
      BY <1>6, <1>7, <2>2, CopyOK, Zenon
  <1>9. OneLive'
    BY <1>1, Zenon DEF CreateSignedIn, OneLive
  <1>10. QED
    BY <1>0, <1>2, <1>5, <1>6, <1>7, <1>8, <1>9, CopyStep, Zenon DEF CreateSignedIn, Moved, TypeOK

\* Writing the copy a request holds to the row.
LEMMA RowStep ==
  ASSUME Inv, NEW r \in Requests, req[r].at # "idle", flow' = req[r].flow, Done(r), token' \in Nat,
         surfaced' \subseteq Sessions, SurfacedOK', ConsentsBeforeSession',
         consents' \in Consents, consents.misread => consents'.misread,
         UNCHANGED <<now, plan, overlapped, chal, sess, account>>
  PROVE  Inv'
  <1>0. TypeOK /\ req[r].flow \in Flow /\ ReqOK(req[r])
    BY Base, Zenon
  <1>1. PICK f : f = req[r].flow
    BY Zenon
  <1>2. f \in Flow /\ FlowOK(f) /\ GateOK(f)
    BY <1>0, <1>1, Zenon DEF ReqOK
  <1>3. Kept
    BY <1>0, KeptSame, Zenon
  <1>4. FlowOK(f)'
    BY <1>0, <1>2, <1>3, FlowKept, Zenon
  <1>5. GateOK(f)'
    BY <1>2, Zenon DEF GateOK
  <1>6. OneLive'
    BY Zenon DEF Inv, OneLive
  <1>7. QED
    BY <1>1, <1>2, <1>3, <1>4, <1>5, <1>6, WriteStep, Zenon DEF Done

\* A session that came from a second factor still did.
LEMMA SurfacedSame ==
  ASSUME Inv, UNCHANGED <<plan, chal, sess>>,
         plan.first = "mfa_required" => \A s \in surfaced' : s \in surfaced \/ FromFactor(s)
  PROVE  SurfacedOK'
  BY Zenon DEF Inv, SurfacedOK, FromFactor

\* The row is inserted, and a completed sign-in returns its session.
LEMMA InsertInv ==
  ASSUME Inv, NEW r \in Requests, Insert(r)
  PROVE  Inv'
  <1>0. TypeOK /\ plan \in Plans /\ req[r] \in Request /\ ReqOK(req[r])
    BY Base, Zenon
  <1>1. req[r].at = "created" /\ req[r].sess \in Sessions \cup {NoSession}
    BY <1>0, Zenon DEF Insert, Request
  <1>2. req[r].sess # NoSession => plan.kind = "signin" /\ plan.first = "completed"
    BY <1>0, <1>1, Zenon DEF ReqOK, PlaceOK
  <1>3. surfaced' = surfaced \cup ({req[r].sess} \ {NoSession}) /\ token' \in Nat
    BY Zenon DEF Insert
  <1>4. surfaced' \subseteq Sessions
    BY <1>0, <1>1, <1>3, Zenon DEF TypeOK
  <1>5. SurfacedOK'
    BY <1>2, <1>3, SurfacedSame, Zenon DEF Insert
  <1>6. ConsentsBeforeSession'
    BY <1>2, <1>3, Zenon DEF Inv, Insert, ConsentsBeforeSession
  <1>7. QED
    BY <1>0, <1>1, <1>3, <1>4, <1>5, <1>6, RowStep, Zenon DEF Insert, TypeOK

\* flowSave returns no session.
LEMMA SaveInv ==
  ASSUME Inv, NEW r \in Requests, Save(r)
  PROVE  Inv'
  <1>1. token' \in Nat /\ surfaced' \subseteq Sessions
    BY Zenon DEF Inv, TypeOK, Save
  <1>2. SurfacedOK'
    BY SurfacedSame, Zenon DEF Save
  <1>3. ConsentsBeforeSession'
    BY Zenon DEF Inv, Save, ConsentsBeforeSession
  <1>4. QED
    BY <1>1, <1>2, <1>3, RowStep, Zenon DEF Save, Inv, TypeOK

\* Recording the accepted consents forgets nothing, and leaves nothing to record
\* of documents that are configured and could be read.
LEMMA RecordedFacts ==
  ASSUME TypeOK, NEW c \in Recorded
  PROVE  /\ c \in Consents /\ (consents.misread => c.misread)
         /\ c.recorded \/ ~c.configured \/ c.misread
  <1>1. consents \in Consents
    BY Zenon DEF TypeOK
  <1>2. PICK b \in BOOLEAN : b = (consents.recorded \/ consents.configured)
    BY Zenon
  <1>3. c = [consents EXCEPT !.recorded = b] \/ c = [consents EXCEPT !.misread = TRUE]
    BY <1>2, Zenon DEF Recorded
  <1>4. QED
    BY <1>1, <1>2, <1>3, Zenon DEF Consents

\* flowRotate returns the session the request carries.
LEMMA RotateInv ==
  ASSUME Inv, NEW r \in Requests, Rotate(r)
  PROVE  Inv'
  <1>0. TypeOK /\ plan \in Plans /\ req[r] \in Request /\ ReqOK(req[r])
    BY Base, Zenon
  <1>1. /\ req[r].at = "rotate" /\ req[r].sess \in Sessions
        /\ plan.kind = "signup" /\ plan.required => consents.misread
        /\ plan.first = "mfa_required" => FromFactor(req[r].sess)
    BY <1>0, Zenon DEF Rotate, ReqOK, PlaceOK
  <1>2. surfaced' = surfaced \cup {req[r].sess}
    BY Zenon DEF Rotate
  <1>3. surfaced' \subseteq Sessions /\ token' \in Nat
    BY <1>0, <1>1, <1>2 DEF TypeOK, Rotate
  <1>4. SurfacedOK'
    BY <1>1, <1>2, SurfacedSame, Zenon DEF Rotate
  <1>5. consents' \in Consents /\ (consents.misread => consents'.misread)
    BY <1>0, RecordedFacts, Zenon DEF Rotate, TypeOK
  <1>6. ConsentsBeforeSession'
    BY <1>1, <1>5, Zenon DEF Rotate, ConsentsBeforeSession
  <1>7. QED
    BY <1>1, <1>3, <1>4, <1>5, <1>6, RowStep, Zenon DEF Rotate

\* Consents are recorded in the transaction that returns the session.
LEMMA CompleteFreshInv ==
  ASSUME Inv, NEW r \in Requests, NEW s \in Sessions, CompleteFresh(r, s)
  PROVE  Inv'
  <1>0. /\ TypeOK /\ plan \in Plans /\ now \in Nat /\ req[r].flow \in Flow /\ ReqOK(req[r])
        /\ plan' = plan
    BY Base, Zenon DEF CompleteFresh
  <1>1. plan.kind = "signup" /\ plan.first # "mfa_required"
    BY <1>0, PlanFacts, Zenon DEF CompleteFresh, ReqOK, PlaceOK
  <1>2. PICK f : f = Completed(req[r].flow)
    BY Zenon
  <1>3. f \in Flow /\ f.status = "completed" /\ f.step = "completed"
    BY <1>0, <1>2, CompletedFacts, Zenon
  <1>4. FlowOK(f)' /\ GateOK(f)'
    BY <1>3, Zenon DEF FlowOK, GateOK
  <1>5. /\ consents' \in Consents /\ (consents.misread => consents'.misread)
        /\ consents'.recorded \/ ~consents'.configured \/ consents'.misread
    BY <1>0, RecordedFacts, Zenon DEF CompleteFresh
  <1>6. Kept
    BY <1>0, <1>5, KeptMint, Zenon DEF CompleteFresh
  <1>7. ConsentsBeforeSession'
    BY <1>5, Zenon DEF ConsentsBeforeSession
  <1>8. SurfacedOK' /\ OneLive'
    BY <1>0, <1>1, Zenon DEF SurfacedOK, OneLive
  <1>9. surfaced' \subseteq Sessions /\ token' \in Nat
    BY <1>0 DEF TypeOK, CompleteFresh
  <1>10. QED
    BY <1>2, <1>3, <1>4, <1>5, <1>6, <1>7, <1>8, <1>9, WriteStep, Zenon DEF CompleteFresh, Done

-----------------------------------------------------------------------------
(* The steps of a submission *)

\* Completing the copy with session s, to be written by flowRotate.
LEMMA SignedStep ==
  ASSUME Inv, Kept, NEW r \in Requests, NEW g \in Flow, NEW s \in Sessions,
         Moved(r, "rotate", Completed(g), s), OneLive',
         plan.kind = "signup" /\ plan.required => consents.misread,
         plan.first = "mfa_required" => FromFactor(s)',
         UNCHANGED <<now, overlapped, flow, token, account, surfaced, consents>>
  PROVE  Inv'
  <1>0. TypeOK /\ plan' = plan
    BY Base, Zenon DEF Kept
  <1>1. Completed(g) \in Flow /\ Completed(g).status = "completed" /\ Completed(g).step = "completed"
    BY CompletedFacts, Zenon
  <1>2. PICK x : x = [at |-> "rotate", flow |-> Completed(g), sess |-> s]
    BY Zenon
  <1>3. /\ x \in Request /\ x.at = "rotate" /\ x.sess = s /\ x.flow.status = "completed"
        /\ x.flow.step = "completed"
    BY <1>1, <1>2, Zenon DEF Request
  <1>4. PlaceOK(x)'
    BY <1>0, <1>3, Zenon DEF PlaceOK
  <1>5. GateOK(x.flow)
    BY <1>3, Zenon DEF GateOK
  <1>6. ReqOK(x)'
    BY <1>0, <1>3, <1>4, <1>5, CopyOK, Zenon
  <1>7. QED
    BY <1>0, <1>2, <1>3, <1>6, CopyStep, Zenon DEF Moved, TypeOK

\* flowCompleteOrGateConsents: a sign-up that requires consents does not return
\* the session it was given.
LEMMA GatedStep ==
  ASSUME Inv, Kept, NEW r \in Requests, NEW g \in Flow, NEW s \in Sessions, Gated(r, g, s),
         plan.kind = "signup", FlowOK(g), GateOK(g), g.status = "pending",
         UNCHANGED <<now, overlapped, flow, token, account, surfaced, consents>>
  PROVE  Inv'
  <1>0. TypeOK /\ plan' = plan /\ plan.first # "mfa_required"
    BY Base, PlanFacts, Zenon DEF Kept
  <1>1. OneLive'
    BY <1>0, Zenon DEF OneLive
  <1>2. CASE g.required
    <2>1. PICK x : x = [at |-> "revoke", flow |-> g, sess |-> s]
      BY Zenon
    <2>2. x \in Request /\ x.at = "revoke" /\ x.sess = s /\ x.flow = g
      BY <2>1, Zenon DEF Request
    <2>3. ReqOK(x)
      BY <2>2, Zenon DEF ReqOK, PlaceOK
    <2>4. ReqOK(x)'
      BY <1>0, <2>2, <2>3, ReqKept, Zenon
    <2>5. QED
      BY <1>0, <1>1, <1>2, <2>1, <2>2, <2>4, CopyStep, Zenon DEF Gated, Moved, TypeOK
  <1>3. CASE ~g.required
    <2>1. plan.required => consents.misread
      BY <1>3, Zenon DEF GateOK
    <2>2. QED
      BY <1>0, <1>1, <1>3, <2>1, SignedStep, Zenon DEF Gated
  <1>4. QED
    BY <1>2, <1>3, Zenon

\* Consuming a challenge keeps its type.
LEMMA UsedFacts ==
  ASSUME TypeOK, NEW c \in Challenges, chal' = [chal EXCEPT ![c].used = TRUE]
  PROVE  chal' \in [Challenges -> Challenge] /\ \A d \in Challenges : chal'[d].type = chal[d].type
  BY Zenon DEF TypeOK, Challenge

\* What a verified copy is.
LEMMA ConsumedFacts ==
  ASSUME Inv, NEW r \in Requests, NEW c \in Challenges, Consumed(r, c)
  PROVE  /\ req[r].flow \in Flow /\ FlowOK(req[r].flow) /\ GateOK(req[r].flow)
         /\ req[r].flow.status = "pending" /\ req[r].flow.step \in FirstSteps
         /\ chal[c].type = Accepts(req[r].flow.step)
         /\ chal' = [chal EXCEPT ![c].used = TRUE]
  <1>0. req[r].flow \in Flow /\ ReqOK(req[r])
    BY Base, Zenon
  <1>1. req[r].at = "submit"
    BY Zenon DEF Consumed
  <1>2. FlowOK(req[r].flow) /\ GateOK(req[r].flow) /\ req[r].flow.status = "pending"
    BY <1>0, <1>1, Zenon DEF ReqOK, PlaceOK
  <1>3. QED
    BY <1>0, <1>2, Zenon DEF Consumed, MayVerify, Unused

\* A challenge is consumed and a session minted from it.
LEMMA KeptVerify ==
  ASSUME TypeOK, UNCHANGED <<plan, consents>>, NEW c \in Challenges, chal' = [chal EXCEPT ![c].used = TRUE],
         NEW s \in Sessions, Unminted(s), sess' = Minted(s, c)
  PROVE  Kept /\ sess'[s].state = "live" /\ sess'[s].from = c /\ chal'[c].type = chal[c].type
  BY UsedFacts, MintedFacts, Zenon DEF Kept

\* A verified sign-up goes on to the password or to the consent gate.
LEMMA SignupVerifyEmailInv ==
  ASSUME Inv, NEW r \in Requests, NEW c \in Challenges, NEW s \in Sessions, SignupVerifyEmail(r, c, s)
  PROVE  Inv'
  <1>0. TypeOK /\ plan \in Plans /\ plan' = plan /\ plan.kind = "signup" /\ NoChallenge \notin Challenges
    BY Base, Zenon DEF SignupVerifyEmail
  <1>1. /\ req[r].flow \in Flow /\ FlowOK(req[r].flow) /\ GateOK(req[r].flow)
        /\ req[r].flow.status = "pending" /\ req[r].flow.step \in FirstSteps
        /\ chal' = [chal EXCEPT ![c].used = TRUE]
    BY ConsumedFacts, Zenon DEF SignupVerifyEmail
  <1>2. Kept
    BY <1>0, <1>1, KeptVerify, Zenon DEF SignupVerifyEmail
  <1>3. plan.first # "mfa_required"
    BY <1>0, PlanFacts, Zenon
  <1>4. PICK f : f = [req[r].flow EXCEPT !.active = NoChallenge, !.user = TRUE]
    BY Zenon
  <1>5. /\ f \in Flow /\ f.status = "pending" /\ f.step = req[r].flow.step /\ f.active = NoChallenge
        /\ f.required = req[r].flow.required
    BY <1>1, <1>4, Zenon DEF Flow
  <1>6. FlowOK(f) /\ GateOK(f)
    BY <1>0, <1>1, <1>3, <1>5, Zenon DEF FlowOK, GateOK, Verifiable
  <1>7. CASE plan.afterVerify
    <2>1. PICK x : x = [at |-> "save", flow |-> [f EXCEPT !.step = "set_password"], sess |-> NoSession]
      BY Zenon
    <2>2. /\ x \in Request /\ x.at = "save" /\ x.flow.status = "pending" /\ x.flow.step = "set_password"
          /\ x.flow.required = f.required
      BY <1>5, <2>1, Zenon DEF Request, Flow, Steps
    <2>3. ReqOK(x)
      BY <1>3, <1>5, <1>6, <2>2, Zenon DEF ReqOK, FlowOK, GateOK, PlaceOK
    <2>4. ReqOK(x)'
      BY <1>0, <1>2, <2>2, <2>3, ReqKept, Zenon
    <2>5. OneLive'
      BY <1>0, Zenon DEF OneLive
    <2>6. req' = [req EXCEPT ![r] = x]
      BY <1>4, <1>7, <2>1, Zenon DEF SignupVerifyEmail, Moved
    <2>7. QED
      BY <1>0, <1>2, <2>2, <2>4, <2>5, <2>6, CopyStep, Zenon DEF SignupVerifyEmail, TypeOK
  <1>8. CASE ~plan.afterVerify
    <2>1. Gated(r, f, s)
      BY <1>4, <1>8, Zenon DEF SignupVerifyEmail
    <2>2. QED
      BY <1>0, <1>2, <1>5, <1>6, <2>1, GatedStep, Zenon DEF SignupVerifyEmail
  <1>9. QED
    BY <1>7, <1>8, Zenon

\* At mfa_required, the session comes from a second factor.
LEMMA SigninVerifyInv ==
  ASSUME Inv, NEW r \in Requests, NEW c \in Challenges, NEW s \in Sessions, SigninVerify(r, c, s)
  PROVE  Inv'
  <1>0. TypeOK /\ plan \in Plans /\ plan' = plan /\ plan.kind = "signin"
    BY Base, Zenon DEF SigninVerify
  <1>1. /\ req[r].flow \in Flow /\ FlowOK(req[r].flow) /\ req[r].flow.status = "pending"
        /\ chal[c].type = Accepts(req[r].flow.step) /\ chal' = [chal EXCEPT ![c].used = TRUE]
    BY ConsumedFacts, Zenon DEF SigninVerify
  <1>2. Kept /\ sess'[s].state = "live" /\ sess'[s].from = c /\ chal'[c].type = chal[c].type
    BY <1>0, <1>1, KeptVerify, Zenon DEF SigninVerify
  <1>3. ASSUME plan.first = "mfa_required" PROVE FromFactor(s)'
    <2>1. chal[c].type = "mfa"
      BY <1>0, <1>1, <1>3, AcceptsFacts, Zenon DEF FlowOK
    <2>2. QED
      BY <1>2, <2>1, Zenon DEF FromFactor
  <1>4. OneLive'
    BY <1>0, Zenon DEF OneLive
  <1>5. PICK g : g = req[r].flow
    BY Zenon
  <1>6. QED
    BY <1>0, <1>1, <1>2, <1>3, <1>4, <1>5, SignedStep, Zenon DEF SigninVerify

\* A verified recovery has yet to set a password.
LEMMA RecoveryVerifyInv ==
  ASSUME Inv, NEW r \in Requests, NEW c \in Challenges, RecoveryVerify(r, c)
  PROVE  Inv'
  <1>0. TypeOK /\ plan \in Plans /\ plan' = plan /\ plan.kind = "recovery" /\ sess' = sess
    BY Base, Zenon DEF RecoveryVerify
  <1>1. req[r].flow \in Flow /\ chal' = [chal EXCEPT ![c].used = TRUE]
    BY ConsumedFacts, Zenon DEF RecoveryVerify
  <1>2. Kept
    BY <1>0, <1>1, UsedFacts, Zenon DEF Kept, RecoveryVerify, TypeOK
  <1>3. plan.first # "mfa_required"
    BY <1>0, PlanFacts, Zenon
  <1>4. PICK x : x = [at |-> "save", flow |-> [req[r].flow EXCEPT !.step = "set_password",
                                                !.active = NoChallenge, !.user = TRUE],
                      sess |-> NoSession]
    BY Zenon
  <1>5. x \in Request /\ x.at = "save" /\ x.flow.step = "set_password"
    BY <1>1, <1>4, Zenon DEF Request, Flow, Steps
  <1>6. ReqOK(x)
    BY <1>0, <1>3, <1>5, Zenon DEF ReqOK, FlowOK, GateOK, PlaceOK
  <1>7. QED
    BY <1>0, <1>2, <1>4, <1>5, <1>6, HeldStep, Zenon DEF RecoveryVerify, Moved, TypeOK

\* A wrong code costs an attempt and keeps the challenge the flow waits for.
LEMMA WrongCodeInv ==
  ASSUME Inv, NEW r \in Requests, WrongCode(r)
  PROVE  Inv'
  <1>0. TypeOK /\ plan \in Plans /\ req[r].flow \in Flow /\ ReqOK(req[r])
    BY Base, Zenon
  <1>1. PICK f : f = req[r].flow
    BY Zenon
  <1>2. /\ f \in Flow /\ FlowOK(f) /\ GateOK(f)
    BY <1>0, <1>1, Zenon DEF WrongCode, ReqOK
  <1>3. /\ req[r].at = "submit" /\ MayVerify(f) /\ (IsLink(f) => f.left > 0)
        /\ Moved(r, "save", Missed(f), NoSession)
        /\ UNCHANGED <<now, plan, overlapped, flow, token, sess, account, surfaced, consents>>
    BY <1>1, Zenon DEF WrongCode
  <1>4. /\ Missed(f) \in Flow /\ Missed(f).status = f.status /\ Missed(f).step = f.step
        /\ Missed(f).active = f.active /\ Missed(f).required = f.required
    <2>1. CASE f.active = NoChallenge
      BY <1>2, <2>1, Zenon DEF Missed
    <2>2. CASE f.active # NoChallenge
      <3>1. f.left \in 0..MaxAttempts /\ f.left > 0
        BY <1>2, <1>3, <2>2, Zenon DEF MayVerify, Flow
      <3>2. f.left - 1 \in 0..MaxAttempts
        BY <3>1, FlowsAssumption
      <3>3. QED
        BY <1>2, <2>2, <3>2, Zenon DEF Missed, Flow
    <2>3. QED
      BY <2>1, <2>2, Zenon
  <1>5. chal' \in [Challenges -> Challenge] /\ \A c \in Challenges : chal'[c].type = chal[c].type
    <2>0. chal \in [Challenges -> Challenge] /\ MaxAttempts \in Nat
      BY <1>0, FlowsAssumption, Zenon DEF TypeOK
    <2>1. \/ chal' = chal
          \/ \E c \in Challenges, b \in BOOLEAN :
                chal' = [chal EXCEPT ![c].wrong = IF @ > MaxAttempts THEN @ ELSE @ + 1,
                                     ![c].used = @ \/ b]
      <3>1. PICK b \in BOOLEAN : b = (chal[f.active].type \in {"otp", "mfa"}
                                     /\ chal[f.active].wrong + 1 >= MaxAttempts)
        BY Zenon
      <3>2. \/ chal' = chal
            \/ /\ f.active \in Challenges
               /\ chal' = [chal EXCEPT ![f.active].wrong = IF @ > MaxAttempts THEN @ ELSE @ + 1,
                                       ![f.active].used = @ \/ b]
        BY <1>1, <3>1, Zenon DEF WrongCode
      <3>3. QED
        BY <3>2, Zenon
    <2>2. ASSUME NEW c \in Challenges, NEW b \in BOOLEAN,
                 chal' = [chal EXCEPT ![c].wrong = IF @ > MaxAttempts THEN @ ELSE @ + 1,
                                      ![c].used = @ \/ b]
          PROVE  chal' \in [Challenges -> Challenge] /\ \A d \in Challenges : chal'[d].type = chal[d].type
      <3>1. (IF chal[c].wrong > MaxAttempts THEN chal[c].wrong ELSE chal[c].wrong + 1) \in 0..(MaxAttempts + 1)
        BY <2>0 DEF Challenge
      <3>2. PICK w \in 0..(MaxAttempts + 1) :
               w = IF chal[c].wrong > MaxAttempts THEN chal[c].wrong ELSE chal[c].wrong + 1
        BY <3>1, Zenon
      <3>3. PICK u \in BOOLEAN : u = (chal[c].used \/ b)
        BY Zenon
      <3>4. chal' = [chal EXCEPT ![c] = [chal[c] EXCEPT !.wrong = w, !.used = u]]
        BY <2>0, <2>2, <3>2, <3>3, Zenon
      <3>5. [chal[c] EXCEPT !.wrong = w, !.used = u] \in Challenge
            /\ [chal[c] EXCEPT !.wrong = w, !.used = u].type = chal[c].type
        BY <2>0, Zenon DEF Challenge
      <3>6. QED
        BY <2>0, <3>4, <3>5, Zenon
    <2>3. QED
      BY <2>0, <2>1, <2>2, Zenon
  <1>6. Kept
    BY <1>0, <1>3, <1>5, Zenon DEF Kept, TypeOK
  <1>7. PICK x : x = [at |-> "save", flow |-> Missed(f), sess |-> NoSession]
    BY Zenon
  <1>8. x \in Request /\ x.at = "save" /\ x.flow = Missed(f)
    BY <1>4, <1>7, Zenon DEF Request
  <1>9. ReqOK(x)
    BY <1>2, <1>4, <1>8, Zenon DEF ReqOK, FlowOK, GateOK, PlaceOK, Verifiable
  <1>10. QED
    BY <1>0, <1>3, <1>6, <1>7, <1>8, <1>9, HeldStep, Zenon DEF Moved, TypeOK

\* A sign-up's password is followed by the consent gate.
LEMMA SignupSetPasswordInv ==
  ASSUME Inv, NEW r \in Requests, NEW s \in Sessions, SignupSetPassword(r, s)
  PROVE  Inv'
  <1>0. TypeOK /\ plan \in Plans /\ req[r].flow \in Flow /\ ReqOK(req[r]) /\ plan.kind = "signup"
    BY Base, Zenon DEF SignupSetPassword
  <1>1. FlowOK(req[r].flow) /\ GateOK(req[r].flow) /\ req[r].flow.status = "pending"
    BY <1>0, Zenon DEF SignupSetPassword, ReqOK, PlaceOK
  <1>2. Kept
    BY <1>0, KeptMint, Zenon DEF SignupSetPassword
  <1>3. PICK g : g = req[r].flow
    BY Zenon
  <1>4. QED
    BY <1>0, <1>1, <1>2, <1>3, GatedStep, Zenon DEF SignupSetPassword

\* Of all sessions, only the one a reset mints is live after it.
LEMMA ResetFacts ==
  ASSUME TypeOK, NEW s \in Sessions, Unminted(s), sess' = ResetSessions(s)
  PROVE  /\ sess' \in [Sessions -> Session] /\ sess'[s].state = "live"
         /\ \A t \in Sessions : sess'[t].state = "live" => t = s
         /\ \A t \in Sessions : sess[t].state # "none" =>
               sess'[t].state # "none" /\ sess'[t].from = sess[t].from
  <1>0. sess \in [Sessions -> Session]
    BY Zenon DEF TypeOK
  <1>1. ASSUME NEW t \in Sessions
        PROVE  /\ SignedOutAll(sess)[t] \in Session /\ SignedOutAll(sess)[t].state # "live"
               /\ SignedOutAll(sess)[t].from = sess[t].from
               /\ sess[t].state # "none" => SignedOutAll(sess)[t].state # "none"
    <2>1. sess[t] \in Session
      BY <1>0, Zenon
    <2>2. SignedOutAll(sess)[t] = IF sess[t].state = "live" THEN [sess[t] EXCEPT !.state = "revoked"]
                                  ELSE sess[t]
      BY Zenon DEF SignedOutAll
    <2>3. QED
      BY <2>1, <2>2, Zenon DEF Session
  <1>2. SignedOutAll(sess) = [t \in Sessions |-> SignedOutAll(sess)[t]]
    BY Zenon DEF SignedOutAll
  <1>3. [state |-> "live", from |-> "password"] \in Session
    BY Zenon DEF Session
  <1>4. /\ sess' \in [Sessions -> Session] /\ sess'[s] = [state |-> "live", from |-> "password"]
        /\ \A t \in Sessions : t # s => sess'[t] = SignedOutAll(sess)[t]
    BY <1>1, <1>2, <1>3, Zenon DEF ResetSessions
  <1>5. QED
    BY <1>1, <1>4 DEF Unminted

\* A reset signs out everything else.
LEMMA RecoverySetPasswordInv ==
  ASSUME Inv, NEW r \in Requests, NEW s \in Sessions, RecoverySetPassword(r, s)
  PROVE  Inv'
  <1>0. TypeOK /\ plan \in Plans /\ req[r].flow \in Flow /\ plan.kind = "recovery" /\ plan' = plan
    BY Base, Zenon DEF RecoverySetPassword
  <1>1. /\ sess' \in [Sessions -> Session]
        /\ \A t \in Sessions : sess'[t].state = "live" => t = s
        /\ \A t \in Sessions : sess[t].state # "none" =>
              sess'[t].state # "none" /\ sess'[t].from = sess[t].from
    BY <1>0, ResetFacts, Zenon DEF RecoverySetPassword
  <1>2. Kept
    BY <1>0, <1>1, Zenon DEF Kept, RecoverySetPassword, TypeOK
  <1>3. OneLive'
    BY <1>1, Zenon DEF OneLive
  <1>4. plan.first # "mfa_required"
    BY <1>0, PlanFacts, Zenon
  <1>5. PICK g : g = req[r].flow
    BY Zenon
  <1>6. QED
    BY <1>0, <1>2, <1>3, <1>4, <1>5, SignedStep, Zenon DEF RecoverySetPassword

\* The provisional session is revoked, and the request carries none any more.
LEMMA RevokeProvisionalInv ==
  ASSUME Inv, NEW r \in Requests, RevokeProvisional(r)
  PROVE  Inv'
  <1>0. /\ TypeOK /\ plan \in Plans /\ plan' = plan /\ req[r] \in Request /\ req[r].flow \in Flow
        /\ ReqOK(req[r]) /\ req[r].at = "revoke"
    BY Base, Zenon DEF RevokeProvisional
  <1>1. /\ plan.kind = "signup" /\ req[r].sess \in Sessions
        /\ FlowOK(req[r].flow) /\ GateOK(req[r].flow) /\ req[r].flow.status = "pending"
    BY <1>0, Zenon DEF ReqOK, PlaceOK
  <1>2. plan.first # "mfa_required"
    BY <1>0, <1>1, PlanFacts, Zenon
  <1>3. Kept
    <2>1. sess \in [Sessions -> Session] /\ chal \in [Challenges -> Challenge]
      BY <1>0, Zenon DEF TypeOK
    <2>2. PICK s \in Sessions : s = req[r].sess
      BY <1>1, Zenon
    <2>3. sess' = [sess EXCEPT ![s] = [sess[s] EXCEPT !.state = "revoked"]]
      BY <2>2, Zenon DEF RevokeProvisional
    <2>4. /\ [sess[s] EXCEPT !.state = "revoked"] \in Session
          /\ [sess[s] EXCEPT !.state = "revoked"].state = "revoked"
          /\ [sess[s] EXCEPT !.state = "revoked"].from = sess[s].from
      BY <2>1, Zenon DEF Session
    <2>5. QED
      BY <1>0, <2>1, <2>3, <2>4, Zenon DEF Kept, RevokeProvisional
  <1>4. OneLive'
    BY <1>0, <1>1, Zenon DEF OneLive
  <1>5. PICK x : x = IF plan.given
                     THEN [at |-> "fresh", flow |-> req[r].flow, sess |-> NoSession]
                     ELSE [at |-> "save", flow |-> [req[r].flow EXCEPT !.step = "accept_consents"],
                           sess |-> NoSession]
    BY Zenon
  <1>6. req' = [req EXCEPT ![r] = x]
    BY <1>5, Zenon DEF RevokeProvisional, Moved
  <1>7. x \in Request /\ ReqOK(x)
    <2>1. CASE plan.given
      <3>1. x \in Request /\ x.at = "fresh" /\ x.flow = req[r].flow
        BY <1>0, <1>5, <2>1, Zenon DEF Request
      <3>2. QED
        BY <1>1, <3>1, Zenon DEF ReqOK, PlaceOK
    <2>2. CASE ~plan.given
      <3>1. /\ x \in Request /\ x.at = "save" /\ x.flow.step = "accept_consents"
            /\ x.flow.status = "pending" /\ x.flow.required = req[r].flow.required
        BY <1>0, <1>1, <1>5, <2>2, Zenon DEF Request, Flow, Steps
      <3>2. QED
        BY <1>1, <1>2, <3>1, Zenon DEF ReqOK, FlowOK, GateOK, PlaceOK
    <2>3. QED
      BY <2>1, <2>2, Zenon
  <1>8. ReqOK(x)'
    BY <1>0, <1>3, <1>7, ReqKept, Zenon
  <1>9. QED
    BY <1>0, <1>3, <1>4, <1>6, <1>7, <1>8, CopyStep, Zenon DEF RevokeProvisional, TypeOK

\* Only a sign-up is asked for consents.
LEMMA AcceptConsentsInv ==
  ASSUME Inv, NEW r \in Requests, AcceptConsents(r)
  PROVE  Inv'
  <1>0. TypeOK /\ req[r].flow \in Flow /\ ReqOK(req[r])
    BY Base, Zenon
  <1>1. /\ FlowOK(req[r].flow) /\ GateOK(req[r].flow) /\ req[r].flow.status = "pending"
        /\ plan.kind = "signup"
    BY <1>0, Zenon DEF AcceptConsents, ReqOK, PlaceOK, FlowOK
  <1>2. PICK x : x = [at |-> "fresh", flow |-> req[r].flow, sess |-> NoSession]
    BY Zenon
  <1>3. x \in Request /\ x.at = "fresh" /\ x.flow = req[r].flow
    BY <1>0, <1>2, Zenon DEF Request
  <1>4. ReqOK(x)
    BY <1>1, <1>3, Zenon DEF ReqOK, PlaceOK
  <1>5. Kept
    BY <1>0, KeptSame, Zenon DEF AcceptConsents
  <1>6. QED
    BY <1>0, <1>2, <1>3, <1>4, <1>5, HeldStep, Zenon DEF AcceptConsents, Moved, TypeOK

-----------------------------------------------------------------------------
(* Resend, switch_method, Abandon, and what is not a request's *)

\* Every request works on a copy of a pending row.
LEMMA LoadInv ==
  ASSUME Inv, NEW r \in Requests, NEW op \in {"submit", "resend", "switch", "abandon"}, Load(r, op)
  PROVE  Inv'
  <1>0. TypeOK /\ flow \in Flow /\ FlowOK(flow) /\ GateOK(flow) /\ flow.status = "pending"
    BY Zenon DEF Inv, TypeOK, RowOK, Load
  <1>1. PICK x : x = [at |-> op, flow |-> flow, sess |-> NoSession]
    BY Zenon
  <1>2. x \in Request /\ x.at = op /\ x.flow = flow
    BY <1>0, <1>1, Zenon DEF Request
  <1>3. ReqOK(x)
    BY <1>0, <1>2, Zenon DEF ReqOK, PlaceOK
  <1>4. Kept
    BY <1>0, KeptSame, Zenon DEF Load
  <1>5. overlapped' \in BOOLEAN
    BY Zenon DEF Load
  <1>6. QED
    BY <1>1, <1>2, <1>3, <1>4, <1>5, HeldStep, Zenon DEF Load, Moved

\* A resend at verify_email issues what its verifier accepts.
LEMMA ReissueInv ==
  ASSUME Inv, NEW r \in Requests, NEW c \in Challenges, NEW type \in Types, Reissue(r, c, type)
  PROVE  Inv'
  <1>0. TypeOK /\ plan \in Plans /\ req[r].flow \in Flow /\ ReqOK(req[r])
    BY Base, Zenon
  <1>1. PICK g : g = req[r].flow
    BY Zenon
  <1>2. req[r].at = "resend" /\ g.step \in FirstSteps
    BY <1>1, Zenon DEF Reissue
  <1>3. g \in Flow /\ FlowOK(g) /\ GateOK(g)
    BY <1>0, <1>1, <1>2, Zenon DEF ReqOK
  <1>4. CASE plan.known \/ g.step = "verify_phone"
    <2>1. /\ type \in ReissuedTypes(g.step) /\ Unissued(c) /\ chal' = Issued(c, type)
          /\ Moved(r, "save", Challenged(g, c), NoSession)
      BY <1>1, <1>4, Zenon DEF Reissue
    <2>2. g.step = "verify_email" => type = Accepts("verify_email")
      BY <2>1, Zenon DEF ReissuedTypes
    <2>3. QED
      BY <1>3, <2>1, <2>2, IssueStep, Zenon DEF Reissue, FlowOK
  <1>5. CASE ~(plan.known \/ g.step = "verify_phone")
    <2>1. chal' = chal /\ Moved(r, "save", Challenged(g, Fake), NoSession)
      BY <1>1, <1>5, Zenon DEF Reissue
    <2>2. QED
      BY <1>3, <2>1, FakeStep, Zenon DEF Reissue
  <1>6. QED
    BY <1>4, <1>5, Zenon

\* switch_method is refused at mfa_required.
LEMMA SwitchMethodInv ==
  ASSUME Inv, NEW r \in Requests, NEW c \in Challenges, NEW step \in FirstSteps, SwitchMethod(r, c, step)
  PROVE  Inv'
  <1>0. TypeOK /\ plan \in Plans /\ req[r].flow \in Flow /\ ReqOK(req[r])
    BY Base, Zenon
  <1>1. /\ plan.kind = "signin" /\ req[r].flow.step # "mfa_required" /\ req[r].at = "switch"
        /\ step \in {"verify_phone", "verify_email"}
    BY Zenon DEF SwitchMethod
  <1>2. FlowOK(req[r].flow) /\ req[r].flow.status = "pending"
    BY <1>0, <1>1, Zenon DEF ReqOK, PlaceOK
  <1>3. plan.first # "mfa_required"
    BY <1>1, <1>2, Zenon DEF FlowOK
  <1>4. PICK g : g = [req[r].flow EXCEPT !.step = step]
    BY Zenon
  <1>5. g \in Flow /\ g.step = step
    BY <1>0, <1>4, Zenon DEF Flow, Steps
  <1>6. GateOK(g)
    BY <1>1, Zenon DEF GateOK
  <1>7. PICK type \in Types : type = Accepts(step)
    BY <1>0, AcceptsFacts, Zenon
  <1>8. QED
    BY <1>1, <1>3, <1>4, <1>5, <1>6, <1>7, IssueStep, Zenon DEF SwitchMethod

\* An aborted copy is not pending.
LEMMA AbandonInv ==
  ASSUME Inv, NEW r \in Requests, Abandon(r)
  PROVE  Inv'
  <1>0. TypeOK /\ req[r].flow \in Flow /\ ReqOK(req[r])
    BY Base, Zenon
  <1>1. FlowOK(req[r].flow)
    BY <1>0, Zenon DEF ReqOK
  <1>2. PICK x : x = [at |-> "save", flow |-> [req[r].flow EXCEPT !.status = "aborted"],
                      sess |-> NoSession]
    BY Zenon
  <1>3. /\ x \in Request /\ x.at = "save" /\ x.flow.status = "aborted"
        /\ x.flow.step = req[r].flow.step
    BY <1>0, <1>2, Zenon DEF Request, Flow
  <1>4. ReqOK(x)
    BY <1>1, <1>3, Zenon DEF ReqOK, FlowOK, GateOK, PlaceOK
  <1>5. Kept
    BY <1>0, KeptSame, Zenon DEF Abandon
  <1>6. QED
    BY <1>0, <1>2, <1>3, <1>4, <1>5, HeldStep, Zenon DEF Abandon, Moved, TypeOK

\* A request cut off between two transactions leaves everything as it is.
LEMMA DropInv ==
  ASSUME Inv, NEW r \in Requests, Drop(r)
  PROVE  Inv'
  <1>0. TypeOK /\ plan \in Plans /\ now \in Nat
    BY Base, Zenon
  <1>1. PICK x : x = Idle
    BY Zenon
  <1>2. x \in Request /\ ReqOK(x)
    BY <1>0, <1>1, IdleOK, Zenon
  <1>3. Kept
    BY <1>0, KeptSame, Zenon DEF Drop
  <1>4. QED
    BY <1>0, <1>1, <1>2, <1>3, HeldStep, Zenon DEF Drop, Done, TypeOK

\* The clock, an edit of the project's consents, and stuttering.
LEMMA IdleStepInv ==
  ASSUME Inv, EditConsents \/ Tick \/ UNCHANGED vars
  PROVE  Inv'
  <1>1. UNCHANGED <<plan, overlapped, flow, token, chal, sess, account, surfaced, req>>
    BY Zenon DEF EditConsents, Tick, vars
  <1>2. TypeOK'
    <2>1. now' \in 0..MaxTime
      BY FlowsAssumption DEF Inv, TypeOK, EditConsents, Tick, vars
    <2>2. consents' \in Consents
      BY Zenon DEF Inv, TypeOK, EditConsents, Tick, vars, Consents
    <2>3. QED
      BY <1>1, <2>1, <2>2, Zenon DEF Inv, TypeOK
  <1>3. ConsentsBeforeSession'
    <2>1. \/ consents' = consents
          \/ ~consents'.configured
      BY Zenon DEF Inv, TypeOK, EditConsents, Tick, vars, Consents
    <2>2. QED
      BY <1>1, <2>1, Zenon DEF Inv, ConsentsBeforeSession
  <1>4. consents'.misread = consents.misread
    BY Zenon DEF Inv, TypeOK, EditConsents, Tick, vars, Consents
  <1>5. Kept
    BY <1>1, <1>4, KeptSame, Zenon DEF Inv
  <1>6. RowOK' /\ SurfacedOK' /\ OneLive'
    <2>1. PICK f : f = flow
      BY Zenon
    <2>2. FlowOK(f)'
      BY <1>5, <2>1, FlowKept, Zenon DEF Inv, RowOK, TypeOK
    <2>3. QED
      BY <1>1, <1>4, <2>1, <2>2, Zenon
         DEF Inv, RowOK, SurfacedOK, OneLive, FromFactor, FlowOK, GateOK, Verifiable
  <1>7. ASSUME NEW q \in Requests PROVE ReqOK(req[q])'
    <2>1. PICK y : y = req[q]
      BY Zenon
    <2>2. ReqOK(y)'
      BY <1>5, <2>1, ReqKept, Zenon DEF Inv, TypeOK
    <2>3. QED
      BY <1>1, <2>1, <2>2, Zenon DEF ReqOK, FlowOK, GateOK, PlaceOK, Verifiable, FromFactor
  <1>8. QED
    BY <1>2, <1>3, <1>6, <1>7, Zenon DEF Inv

\* Every step keeps the invariant.
LEMMA NextInv == Inv /\ [Next]_vars => Inv'
  <1> SUFFICES ASSUME Inv, [Next]_vars PROVE Inv'
    BY Zenon
  <1>1. ASSUME NEW r \in Requests, CreateStep(r) PROVE Inv'
    BY <1>1, RegisterInv, SignupChallengeInv, SigninChallengeInv, RecoveryChallengeInv,
       CreateFakeInv,
       CreateSignedInInv, InsertInv, Zenon DEF CreateStep
  <1>2. ASSUME NEW r \in Requests, SubmitStep(r) PROVE Inv'
    BY <1>2, SignupVerifyEmailInv, SigninVerifyInv, RecoveryVerifyInv, WrongCodeInv,
       SignupSetPasswordInv,
       RecoverySetPasswordInv, RevokeProvisionalInv, AcceptConsentsInv, CompleteFreshInv,
       RotateInv, SaveInv, Zenon DEF SubmitStep
  <1>3. ASSUME NEW r \in Requests, OtherStep(r) PROVE Inv'
    BY <1>3, LoadInv, ReissueInv, SwitchMethodInv, AbandonInv, DropInv, Zenon DEF OtherStep
  <1>4. ASSUME EditConsents \/ Tick \/ UNCHANGED vars PROVE Inv'
    BY <1>4, IdleStepInv, Zenon
  <1>5. QED
    BY <1>1, <1>2, <1>3, <1>4, Zenon DEF Next

\* Inv holds of every reachable state.
THEOREM Invariance == Spec => []Inv
  BY InitInv, NextInv, PTL DEF Spec

\* Type correctness, for any number of requests, challenges and sessions.
THEOREM TypeCorrect == Spec => []TypeOK
  <1>1. Inv => TypeOK
    BY Zenon DEF Inv
  <1>2. QED
    BY <1>1, Invariance, PTL

\* A sign-up that requires consents returns a session only once their acceptance
\* is recorded, unless the documents were replaced or could not be read, whatever
\* copies are written back.
THEOREM ConsentsFirst == Spec => []ConsentsBeforeSession
  <1>1. Inv => ConsentsBeforeSession
    BY Zenon DEF Inv
  <1>2. QED
    BY <1>1, Invariance, PTL

\* Racing resets leave an account being recovered with at most one live session.
THEOREM RecoveryOneSession == Spec => []RecoveryLeavesOneSession
  <1>1. Inv => RecoveryLeavesOneSession
    <2> SUFFICES ASSUME Inv, plan.kind = "recovery"
                 PROVE  Cardinality({s \in Sessions : sess[s].state = "live"}) <= 1
      BY Zenon DEF RecoveryLeavesOneSession
    <2> DEFINE live == {s \in Sessions : sess[s].state = "live"}
    <2>1. IsFiniteSet(live)
      <3>1. IsFiniteSet(Sessions) /\ live \subseteq Sessions
        BY FlowsAssumption, Zenon
      <3>2. QED
        BY <3>1, FS_Subset, Zenon
    <2>2. \A s, t \in live : s = t
      BY Zenon DEF Inv, OneLive
    <2>3. QED
      BY <2>1, <2>2, AtMostOne, Zenon
  <1>2. QED
    BY <1>1, Invariance, PTL

\* A sign-in told to present a second factor returns no session without one.
THEOREM SecondFactor == Spec => []SecondFactorKept
  <1>1. Inv => SecondFactorKept
    BY Zenon DEF Inv, SurfacedOK, FromFactor, SecondFactorKept
  <1>2. QED
    BY <1>1, Invariance, PTL

\* A pending flow at verify_email waits for a challenge its verifier accepts.
THEOREM EmailVerifiable == Spec => []EmailStepVerifiable
  <1>1. Inv => EmailStepVerifiable
    BY Zenon DEF Inv, RowOK, FlowOK, EmailStepVerifiable
  <1>2. QED
    BY <1>1, Invariance, PTL

-----------------------------------------------------------------------------
(* Requests that come one at a time *)

\* The request in progress is the only one, and nothing was returned yet.
LEMMA BusyFacts ==
  ASSUME Alone, NEW r \in Requests, Busy(req[r])
  PROVE  /\ \A q \in Requests : q # r => ~Busy(req[q])
         /\ surfaced = {} /\ (token = 0 <=> req[r].at \in {"registered", "created"})
  BY Zenon DEF Alone

\* Where no row is there and nobody is inserting one, no request is in progress.
LEMMA NobodyBusy ==
  ASSUME Alone, NobodyCreating
  PROVE  token = 0 /\ surfaced = {} /\ \A q \in Requests : ~Busy(req[q])
  BY DEF Alone, NobodyCreating

\* A step that leaves request r, and only r, in progress with record x.
LEMMA AloneMove ==
  ASSUME TypeOK, NEW r \in Requests, NEW x, req' = [req EXCEPT ![r] = x],
         \A q \in Requests : q # r => ~Busy(req[q]), surfaced = {}, UNCHANGED <<token, surfaced>>,
         x.at # "idle", token = 0 <=> x.at \in {"registered", "created"},
         Carries(x) => sess'[x.sess].state = "live"
  PROVE  Alone'
  <1>1. req'[r] = x /\ \A q \in Requests : q # r => req'[q] = req[q]
    BY Zenon DEF TypeOK
  <1>2. \A q \in Requests : q # r => req'[q].at = "idle"
    BY <1>1, Zenon DEF Busy
  <1>3. \A q \in Requests : Busy(req[q])' => q = r
    BY <1>2, Zenon DEF Busy
  <1>4. \A q \in Requests : Carries(req[q])' => q = r
    BY <1>2, Zenon DEF Carries
  <1>5. (Carries(req[r]) => sess[req[r].sess].state = "live")'
    BY <1>1, Zenon DEF Carries
  <1>6. (Busy(req[r]) => (token = 0 <=> req[r].at \in {"registered", "created"}))'
    BY <1>1, Zenon
  <1>7. QED
    BY <1>3, <1>4, <1>5, <1>6, Zenon DEF Alone

\* A step that ends the only request in progress.
LEMMA AloneEnd ==
  ASSUME TypeOK, NEW r \in Requests, Done(r), \A q \in Requests : q # r => ~Busy(req[q]),
         surfaced' # {} => token' > 0 /\ flow'.status # "pending",
         \A s, t \in surfaced' : s = t
  PROVE  Alone'
  <1>1. req'[r] = Idle /\ \A q \in Requests : q # r => req'[q] = req[q]
    BY Zenon DEF TypeOK, Done
  <1>2. \A q \in Requests : req'[q].at = "idle"
    BY <1>1 DEF Busy, Idle
  <1>3. \A q \in Requests : ~Busy(req[q])' /\ ~Carries(req[q])'
    BY <1>2, Zenon DEF Busy, Carries
  <1>4. QED
    BY <1>3, Zenon DEF Alone

\* The steps that create a flow.
LEMMA CreateAlone ==
  ASSUME Inv, Alone, NEW r \in Requests, CreateStep(r)
  PROVE  Alone'
  <1>0. TypeOK /\ req[r] \in Request /\ ReqOK(req[r]) /\ NoSession \notin Sessions
    BY Base, Zenon
  <1>1. ASSUME NEW s \in Sessions, NEW required \in BOOLEAN, Register(r, s, required) PROVE Alone'
    <2>1. token = 0 /\ surfaced = {} /\ \A q \in Requests : ~Busy(req[q])
      BY <1>1, NobodyBusy, Zenon DEF Register
    <2>2. PICK x : x = [at |-> "registered",
                        flow |-> [NewFlow EXCEPT !.user = TRUE, !.required = required],
                        sess |-> NoSession]
      BY Zenon
    <2>3. x.at = "registered" /\ ~Carries(x)
      BY <2>2, Zenon DEF Carries
    <2>4. QED
      BY <1>0, <1>1, <2>1, <2>2, <2>3, AloneMove, Zenon DEF Register, Moved
  <1>2. ASSUME NEW f, NobodyCreating, Moved(r, "created", f, NoSession), UNCHANGED <<token, surfaced>>
        PROVE  Alone'
    <2>1. token = 0 /\ surfaced = {} /\ \A q \in Requests : ~Busy(req[q])
      BY <1>2, NobodyBusy, Zenon
    <2>2. PICK x : x = [at |-> "created", flow |-> f, sess |-> NoSession]
      BY Zenon
    <2>3. x.at = "created" /\ ~Carries(x)
      BY <2>2, Zenon DEF Carries
    <2>4. QED
      BY <1>0, <1>2, <2>1, <2>2, <2>3, AloneMove, Zenon DEF Moved
  <1>3. ASSUME NEW c \in Challenges, SignupChallenge(r, c) PROVE Alone'
    <2>1. Busy(req[r]) /\ req[r].at = "registered"
      BY <1>3, Zenon DEF SignupChallenge, Busy
    <2>2. (\A q \in Requests : q # r => ~Busy(req[q])) /\ surfaced = {} /\ token = 0
      BY <2>1, BusyFacts, Zenon
    <2>3. PICK x : x = [at |-> "created", flow |-> Challenged(req[r].flow, c), sess |-> NoSession]
      BY Zenon
    <2>4. x.at = "created" /\ ~Carries(x)
      BY <2>3, Zenon DEF Carries
    <2>5. QED
      BY <1>0, <1>3, <2>2, <2>3, <2>4, AloneMove, Zenon DEF SignupChallenge, Moved
  <1>4. ASSUME NEW c \in Challenges, SigninChallenge(r, c) \/ RecoveryChallenge(r, c) PROVE Alone'
    <2>1. \E f : NobodyCreating /\ Moved(r, "created", f, NoSession) /\ UNCHANGED <<token, surfaced>>
      BY <1>4, Zenon DEF SigninChallenge, RecoveryChallenge
    <2>2. PICK f : NobodyCreating /\ Moved(r, "created", f, NoSession) /\ UNCHANGED <<token, surfaced>>
      BY <2>1, Zenon
    <2>3. QED
      BY <1>2, <2>2, Zenon
  <1>5. ASSUME CreateFake(r) PROVE Alone'
    <2>1. PICK f : f = Challenged(NewFlow, Fake)
      BY Zenon
    <2>2. NobodyCreating /\ Moved(r, "created", f, NoSession) /\ UNCHANGED <<token, surfaced>>
      BY <1>5, <2>1, Zenon DEF CreateFake
    <2>3. QED
      BY <1>2, <2>2, Zenon
  <1>6. ASSUME NEW s \in Sessions, CreateSignedIn(r, s) PROVE Alone'
    <2>1. token = 0 /\ surfaced = {} /\ \A q \in Requests : ~Busy(req[q])
      BY <1>6, NobodyBusy, Zenon DEF CreateSignedIn
    <2>2. PICK x : x = [at |-> "created", flow |-> Completed([NewFlow EXCEPT !.user = TRUE]), sess |-> s]
      BY Zenon
    <2>3. x.at = "created" /\ x.sess = s
      BY <2>2, Zenon
    <2>4. sess'[s].state = "live"
      BY <1>0, <1>6, MintedFacts, Zenon DEF CreateSignedIn
    <2>5. QED
      BY <1>0, <1>6, <2>1, <2>2, <2>3, <2>4, AloneMove, Zenon DEF CreateSignedIn, Moved
  <1>7. ASSUME Insert(r) PROVE Alone'
    <2>1. Busy(req[r]) /\ req[r].at = "created"
      BY <1>7, Zenon DEF Insert, Busy
    <2>2. (\A q \in Requests : q # r => ~Busy(req[q])) /\ surfaced = {}
      BY <2>1, BusyFacts, Zenon
    <2>3. surfaced' = {req[r].sess} \ {NoSession} /\ token' > 0 /\ flow' = req[r].flow
      BY <1>7, <2>2 DEF Insert
    <2>4. req[r].sess # NoSession => req[r].flow.status # "pending"
      BY <1>0, <2>1, Zenon DEF ReqOK, PlaceOK
    <2>5. surfaced' # {} => token' > 0 /\ flow'.status # "pending"
      BY <2>3, <2>4, Zenon
    <2>6. \A s, t \in surfaced' : s = t
      BY <2>3, Zenon
    <2>7. QED
      BY <1>0, <1>7, <2>2, <2>5, <2>6, AloneEnd, Zenon DEF Insert
  <1>8. QED
    BY <1>1, <1>3, <1>4, <1>5, <1>6, <1>7, Zenon DEF CreateStep

\* A step of a submission that goes on to another of its transactions.
LEMMA AloneOn ==
  ASSUME Inv, Alone, NEW r \in Requests, req[r].at \notin {"idle", "registered", "created"},
         NEW at \in {"save", "rotate", "revoke", "fresh"}, NEW f, NEW s, Moved(r, at, f, s),
         at = "rotate" => sess'[s].state = "live", UNCHANGED <<token, surfaced>>
  PROVE  Alone'
  <1>1. Busy(req[r]) /\ TypeOK
    BY Zenon DEF Busy, Inv
  <1>2. (\A q \in Requests : q # r => ~Busy(req[q])) /\ surfaced = {} /\ token # 0
    BY <1>1, BusyFacts, Zenon
  <1>3. PICK x : x = [at |-> at, flow |-> f, sess |-> s]
    BY Zenon
  <1>4. x.at = at /\ x.sess = s /\ (Carries(x) => sess'[s].state = "live")
    BY <1>3, Zenon DEF Carries
  <1>5. QED
    BY <1>1, <1>2, <1>3, <1>4, AloneMove, Zenon DEF Moved

\* The same behind the consent gate.
LEMMA AloneGated ==
  ASSUME Inv, Alone, NEW r \in Requests, req[r].at = "submit", NEW f, NEW s, Gated(r, f, s),
         sess'[s].state = "live", UNCHANGED <<token, surfaced>>
  PROVE  Alone'
  <1>1. Moved(r, "revoke", f, s) \/ Moved(r, "rotate", Completed(f), s)
    BY Zenon DEF Gated
  <1>2. PICK g : g = Completed(f)
    BY Zenon
  <1>3. Moved(r, "revoke", f, s) \/ Moved(r, "rotate", g, s)
    BY <1>1, <1>2, Zenon
  <1>4. QED
    BY <1>3, AloneOn, Zenon

\* The steps of a submission.
LEMMA SubmitAlone ==
  ASSUME Inv, Alone, NEW r \in Requests, SubmitStep(r)
  PROVE  Alone'
  <1>0. TypeOK /\ req[r] \in Request /\ ReqOK(req[r]) /\ NoSession \notin Sessions
    BY Base, Zenon
  <1>1. ASSUME NEW c \in Challenges, NEW s \in Sessions, SignupVerifyEmail(r, c, s) PROVE Alone'
    <2>1. /\ sess'[s].state = "live" /\ req[r].at = "submit" /\ UNCHANGED <<token, surfaced>>
      BY <1>0, <1>1, MintedFacts, Zenon DEF SignupVerifyEmail, Consumed
    <2>2. PICK f : f = [req[r].flow EXCEPT !.active = NoChallenge, !.user = TRUE]
      BY Zenon
    <2>3. PICK g : g = [f EXCEPT !.step = "set_password"]
      BY Zenon
    <2>4. Moved(r, "save", g, NoSession) \/ Gated(r, f, s)
      BY <1>1, <2>2, <2>3, Zenon DEF SignupVerifyEmail
    <2>5. CASE Moved(r, "save", g, NoSession)
      BY <2>1, <2>5, AloneOn, Zenon
    <2>6. CASE Gated(r, f, s)
      BY <2>1, <2>6, AloneGated, Zenon
    <2>7. QED
      BY <2>4, <2>5, <2>6, Zenon
  <1>2. ASSUME NEW c \in Challenges, NEW s \in Sessions, SigninVerify(r, c, s) PROVE Alone'
    <2>1. /\ sess'[s].state = "live" /\ req[r].at = "submit" /\ UNCHANGED <<token, surfaced>>
      BY <1>0, <1>2, MintedFacts, Zenon DEF SigninVerify, Consumed
    <2>2. PICK g : g = Completed(req[r].flow)
      BY Zenon
    <2>3. QED
      BY <1>2, <2>1, <2>2, AloneOn, Zenon DEF SigninVerify
  <1>3. ASSUME NEW c \in Challenges, RecoveryVerify(r, c) PROVE Alone'
    <2>1. PICK g : g = [req[r].flow EXCEPT !.step = "set_password", !.active = NoChallenge, !.user = TRUE]
      BY Zenon
    <2>2. Moved(r, "save", g, NoSession) /\ req[r].at = "submit" /\ UNCHANGED <<token, surfaced>>
      BY <1>3, <2>1, Zenon DEF RecoveryVerify, Consumed
    <2>3. QED
      BY <2>2, AloneOn, Zenon
  <1>4. ASSUME WrongCode(r) PROVE Alone'
    <2>1. PICK g : g = Missed(req[r].flow)
      BY Zenon
    <2>2. Moved(r, "save", g, NoSession) /\ req[r].at = "submit" /\ UNCHANGED <<token, surfaced>>
      BY <1>4, <2>1, Zenon DEF WrongCode
    <2>3. QED
      BY <2>2, AloneOn, Zenon
  <1>5. ASSUME NEW s \in Sessions, SignupSetPassword(r, s) PROVE Alone'
    <2>1. /\ sess'[s].state = "live" /\ req[r].at = "submit" /\ UNCHANGED <<token, surfaced>>
      BY <1>0, <1>5, MintedFacts, Zenon DEF SignupSetPassword
    <2>2. PICK f : f = req[r].flow
      BY Zenon
    <2>3. QED
      BY <1>5, <2>1, <2>2, AloneGated, Zenon DEF SignupSetPassword
  <1>6. ASSUME NEW s \in Sessions, RecoverySetPassword(r, s) PROVE Alone'
    <2>1. /\ sess'[s].state = "live" /\ req[r].at = "submit" /\ UNCHANGED <<token, surfaced>>
      BY <1>0, <1>6, ResetFacts, Zenon DEF RecoverySetPassword
    <2>2. PICK g : g = Completed(req[r].flow)
      BY Zenon
    <2>3. QED
      BY <1>6, <2>1, <2>2, AloneOn, Zenon DEF RecoverySetPassword
  <1>7. ASSUME RevokeProvisional(r) PROVE Alone'
    <2>1. PICK f : f = req[r].flow
      BY Zenon
    <2>2. PICK g : g = [f EXCEPT !.step = "accept_consents"]
      BY Zenon
    <2>3. /\ Moved(r, "fresh", f, NoSession) \/ Moved(r, "save", g, NoSession)
          /\ req[r].at = "revoke" /\ UNCHANGED <<token, surfaced>>
      BY <1>7, <2>1, <2>2, Zenon DEF RevokeProvisional
    <2>4. QED
      BY <2>3, AloneOn, Zenon
  <1>8. ASSUME AcceptConsents(r) PROVE Alone'
    <2>1. PICK f : f = req[r].flow
      BY Zenon
    <2>2. Moved(r, "fresh", f, NoSession) /\ req[r].at = "submit" /\ UNCHANGED <<token, surfaced>>
      BY <1>8, <2>1, Zenon DEF AcceptConsents
    <2>3. QED
      BY <2>2, AloneOn, Zenon
  <1>9. ASSUME req[r].at # "idle" PROVE (\A q \in Requests : q # r => ~Busy(req[q])) /\ surfaced = {}
    BY <1>9, BusyFacts, Zenon DEF Busy
  <1>10. ASSUME NEW s \in Sessions, CompleteFresh(r, s) PROVE Alone'
    <2>1. (\A q \in Requests : q # r => ~Busy(req[q])) /\ surfaced = {}
      BY <1>9, <1>10, Zenon DEF CompleteFresh
    <2>2. surfaced' = {s} /\ token' > 0 /\ flow' = Completed(req[r].flow) /\ Done(r)
      BY <1>0, <1>10, <2>1 DEF CompleteFresh, TypeOK
    <2>3. flow'.status = "completed"
      BY <1>0, <2>2, CompletedFacts, Zenon DEF Request
    <2>4. QED
      BY <1>0, <2>1, <2>2, <2>3, AloneEnd, Zenon
  <1>11. ASSUME Rotate(r) PROVE Alone'
    <2>1. (\A q \in Requests : q # r => ~Busy(req[q])) /\ surfaced = {}
      BY <1>9, <1>11, Zenon DEF Rotate
    <2>2. surfaced' = {req[r].sess} /\ token' > 0 /\ flow' = req[r].flow /\ Done(r)
      BY <1>0, <1>11, <2>1 DEF Rotate, TypeOK
    <2>3. flow'.status = "completed"
      BY <1>0, <1>11, <2>2, Zenon DEF Rotate, ReqOK, PlaceOK
    <2>4. QED
      BY <1>0, <2>1, <2>2, <2>3, AloneEnd, Zenon
  <1>12. ASSUME Save(r) PROVE Alone'
    <2>1. (\A q \in Requests : q # r => ~Busy(req[q])) /\ surfaced = {}
      BY <1>9, <1>12, Zenon DEF Save
    <2>2. QED
      BY <1>0, <1>12, <2>1, AloneEnd, Zenon DEF Save
  <1>13. QED
    BY <1>1, <1>2, <1>3, <1>4, <1>5, <1>6, <1>7, <1>8, <1>10, <1>11, <1>12, Zenon DEF SubmitStep

\* Load, and the operations other than Submit.
LEMMA OtherAlone ==
  ASSUME Inv, Alone, NEW r \in Requests, OtherStep(r), ~overlapped'
  PROVE  Alone'
  <1>0. TypeOK
    BY Base, Zenon
  <1>1. ASSUME NEW op \in {"submit", "resend", "switch", "abandon"}, Load(r, op) PROVE Alone'
    <2>1. \A q \in Requests : ~Busy(req[q])
      BY <1>1, Zenon DEF Load, Busy
    <2>2. surfaced = {} /\ token # 0
      BY <1>0, <1>1 DEF Load, Alone, TypeOK
    <2>3. PICK x : x = [at |-> op, flow |-> flow, sess |-> NoSession]
      BY Zenon
    <2>4. x.at = op /\ ~Carries(x)
      BY <2>3, Zenon DEF Carries
    <2>5. QED
      BY <1>0, <1>1, <2>1, <2>2, <2>3, <2>4, AloneMove, Zenon DEF Load, Moved
  <1>2. ASSUME NEW c \in Challenges, NEW type \in Types, Reissue(r, c, type) PROVE Alone'
    <2>1. PICK f : f = Challenged(req[r].flow, c)
      BY Zenon
    <2>2. PICK g : g = Challenged(req[r].flow, Fake)
      BY Zenon
    <2>3. /\ Moved(r, "save", f, NoSession) \/ Moved(r, "save", g, NoSession)
          /\ req[r].at = "resend" /\ UNCHANGED <<token, surfaced>>
      BY <1>2, <2>1, <2>2, Zenon DEF Reissue
    <2>4. QED
      BY <2>3, AloneOn, Zenon
  <1>3. ASSUME NEW c \in Challenges, NEW step \in FirstSteps, SwitchMethod(r, c, step) PROVE Alone'
    <2>1. PICK f : f = Challenged([req[r].flow EXCEPT !.step = step], c)
      BY Zenon
    <2>2. Moved(r, "save", f, NoSession) /\ req[r].at = "switch" /\ UNCHANGED <<token, surfaced>>
      BY <1>3, <2>1, Zenon DEF SwitchMethod
    <2>3. QED
      BY <2>2, AloneOn, Zenon
  <1>4. ASSUME Abandon(r) PROVE Alone'
    <2>1. PICK f : f = [req[r].flow EXCEPT !.status = "aborted"]
      BY Zenon
    <2>2. Moved(r, "save", f, NoSession) /\ req[r].at = "abandon" /\ UNCHANGED <<token, surfaced>>
      BY <1>4, <2>1, Zenon DEF Abandon
    <2>3. QED
      BY <2>2, AloneOn, Zenon
  <1>5. ASSUME Drop(r) PROVE Alone'
    <2>1. (\A q \in Requests : q # r => ~Busy(req[q])) /\ surfaced = {}
      BY <1>5, BusyFacts, Zenon DEF Drop, Busy
    <2>2. QED
      BY <1>0, <1>5, <2>1, AloneEnd, Zenon DEF Drop
  <1>6. QED
    BY <1>1, <1>2, <1>3, <1>4, <1>5, Zenon DEF OtherStep

\* Requests that overlapped once have overlapped.
LEMMA OverlappedStays ==
  ASSUME [Next]_vars, ~overlapped' PROVE ~overlapped
  <1>1. ASSUME NEW r \in Requests, CreateStep(r) PROVE overlapped' = overlapped
    BY <1>1, Zenon
       DEF CreateStep, Register, SignupChallenge, SigninChallenge, RecoveryChallenge, CreateFake,
                CreateSignedIn, Insert
  <1>2. ASSUME NEW r \in Requests, SubmitStep(r) PROVE overlapped' = overlapped
    BY <1>2, Zenon
       DEF SubmitStep, SignupVerifyEmail, SigninVerify, RecoveryVerify, WrongCode,
           SignupSetPassword,
                RecoverySetPassword, RevokeProvisional, AcceptConsents, CompleteFresh, Rotate, Save
  <1>3. ASSUME NEW r \in Requests, OtherStep(r) PROVE overlapped => overlapped'
    BY <1>3, Zenon DEF OtherStep, Load, Reissue, SwitchMethod, Abandon, Drop
  <1>4. ASSUME EditConsents \/ Tick \/ UNCHANGED vars PROVE overlapped' = overlapped
    BY <1>4, Zenon DEF EditConsents, Tick, vars
  <1>5. QED
    BY <1>1, <1>2, <1>3, <1>4, Zenon DEF Next

\* Every step keeps what is said of requests that come one at a time.
LEMMA NextSerial == Inv /\ Serial /\ [Next]_vars => Serial'
  <1> SUFFICES ASSUME Inv, Serial, [Next]_vars, ~overlapped' PROVE Alone'
    BY Zenon DEF Serial
  <1>1. Alone
    BY OverlappedStays, Zenon DEF Serial
  <1>2. ASSUME EditConsents \/ Tick \/ UNCHANGED vars PROVE Alone'
    <2>1. UNCHANGED <<req, token, sess, surfaced, flow>>
      BY <1>2, Zenon DEF EditConsents, Tick, vars
    <2>2. QED
      BY <1>1, <2>1, Zenon DEF Alone, Busy, Carries
  <1>3. QED
    BY <1>1, <1>2, CreateAlone, SubmitAlone, OtherAlone, Zenon DEF Next

\* Serial holds of every reachable state.
LEMMA SerialInvariance == Spec => []Serial
  <1>1. Init => Serial
    <2> SUFFICES ASSUME Init PROVE Alone
      BY Zenon DEF Serial
    <2>1. \A q \in Requests : req[q].at = "idle"
      BY Zenon DEF Init, Idle
    <2>2. QED
      BY <2>1, Zenon DEF Init, Alone, Busy, Carries
  <1>2. QED
    BY <1>1, NextSerial, Invariance, PTL DEF Spec

\* While requests come one at a time, cut off between transactions or not, the
\* flow returns a session once.
THEOREM ReturnedOnce == Spec => []SessionOnce
  <1>1. Inv /\ Serial => SessionOnce
    <2> SUFFICES ASSUME Inv, Alone PROVE Cardinality(surfaced) <= 1
      BY Zenon DEF Serial, SessionOnce
    <2>1. IsFiniteSet(surfaced)
      BY FlowsAssumption, FS_Subset, Zenon DEF Inv, TypeOK
    <2>2. QED
      BY <2>1, AtMostOne, Zenon DEF Alone
  <1>2. QED
    BY <1>1, Invariance, SerialInvariance, PTL

\* While requests come one at a time, the session in a response is live when it
\* is returned.
THEOREM ReturnsLive == Spec => ReturnedLive
  <1>1. ASSUME Inv, Serial, [Next]_vars, ~overlapped, NEW s \in surfaced' \ surfaced
        PROVE  sess'[s].state = "live"
    <2>0. Alone /\ TypeOK /\ \A r \in Requests : ReqOK(req[r])
      BY <1>1, Zenon DEF Serial, Inv
    <2>1. \/ \E r \in Requests : Insert(r) \/ Rotate(r) \/ \E t \in Sessions : CompleteFresh(r, t)
          \/ surfaced' = surfaced
      <3>1. ASSUME NEW r \in Requests, CreateStep(r) PROVE Insert(r) \/ surfaced' = surfaced
        BY <3>1, Zenon
           DEF CreateStep, Register, SignupChallenge, SigninChallenge, RecoveryChallenge,
                    CreateFake, CreateSignedIn
      <3>2. ASSUME NEW r \in Requests, SubmitStep(r)
            PROVE  Rotate(r) \/ (\E t \in Sessions : CompleteFresh(r, t)) \/ surfaced' = surfaced
        BY <3>2, Zenon DEF SubmitStep, SignupVerifyEmail, SigninVerify, RecoveryVerify, WrongCode,
                    SignupSetPassword, RecoverySetPassword, RevokeProvisional, AcceptConsents, Save
      <3>3. ASSUME NEW r \in Requests, OtherStep(r) PROVE surfaced' = surfaced
        BY <3>3, Zenon DEF OtherStep, Load, Reissue, SwitchMethod, Abandon, Drop
      <3>4. ASSUME EditConsents \/ Tick \/ UNCHANGED vars PROVE surfaced' = surfaced
        BY <3>4, Zenon DEF EditConsents, Tick, vars
      <3>5. QED
        BY <1>1, <3>1, <3>2, <3>3, <3>4, Zenon DEF Next
    <2>2. ASSUME NEW r \in Requests, Insert(r) \/ Rotate(r) PROVE sess'[s].state = "live"
      <3>1. s = req[r].sess /\ s # NoSession /\ sess' = sess
        BY <1>1, <2>0, <2>2, FlowsAssumption, Zenon DEF Insert, Rotate, ReqOK, PlaceOK
      <3>2. Carries(req[r])
        BY <2>2, <3>1, Zenon DEF Insert, Rotate, Carries
      <3>3. QED
        BY <2>0, <3>1, <3>2, Zenon DEF Alone
    <2>3. ASSUME NEW r \in Requests, NEW t \in Sessions, CompleteFresh(r, t)
          PROVE  sess'[s].state = "live"
      <3>1. s = t
        BY <1>1, <2>3, Zenon DEF CompleteFresh
      <3>2. QED
        BY <2>0, <2>3, <3>1, MintedFacts, Zenon DEF CompleteFresh
    <2>4. QED
      BY <1>1, <2>1, <2>2, <2>3, Zenon
  <1>2. Inv /\ Serial /\ [Next]_vars
          => [~overlapped => \A s \in surfaced' \ surfaced : sess'[s].state = "live"]_vars
    BY <1>1, Zenon
  <1>3. QED
    BY <1>2, Invariance, SerialInvariance, PTL DEF Spec, ReturnedLive
=============================================================================
