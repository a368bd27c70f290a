----------------------------- MODULE OidcProof -----------------------------
(* Type correctness of Oidc; that a code has one line of tokens, an interaction one
   decider, and that a pushed request is redeemed once. *)
EXTENDS Oidc, TLAPS

\* The records that stand for no row are rows of their tables.
LEMMA EmptyRows == Idle \in Request /\ NoInteraction \in InteractionRow /\ NoCode \in CodeRow /\ NoToken \in TokenRow
    BY Zenon DEF Idle, Request, NoInteraction, InteractionRow, NoCode, CodeRow, NoToken, TokenRow, SessionOrNone

\* Ending a request leaves the others as they are.
LEMMA DoneType ==
    ASSUME TypeOK, NEW r \in Requests, Done(r)
    PROVE  reqs' \in [Requests -> Request]
    BY EmptyRows, Zenon DEF Done, TypeOK

\* issueAuthorizationCode inserts a code row.
LEMMA IssueCodeType ==
    ASSUME TypeOK, NEW c \in Codes, NEW s \in SessionOrNone, NEW i \in Interactions \cup {None},
           NEW p \in Pushed \cup {None}, IssueCode(c, s, i, p)
    PROVE  codes' \in [Codes -> CodeRow]
<1>1. [st |-> "open", session |-> s, via |-> i, push |-> p] \in CodeRow
    BY Zenon DEF CodeRow
<1>2. QED
    BY <1>1, Zenon DEF IssueCode, TypeOK

\* storeOIDCRefreshToken inserts a token row.
LEMMA StoreTokenType ==
    ASSUME TypeOK, NEW t \in Tokens, NEW s \in SessionOrNone, NEW o \in Codes \cup Devices \cup {None},
           StoreToken(t, s, o)
    PROVE  tokens' \in [Tokens -> TokenRow]
<1>1. [st |-> "active", session |-> s, origin |-> o] \in TokenRow
    BY Zenon DEF TokenRow
<1>2. QED
    BY <1>1, Zenon DEF StoreToken, TypeOK

\* Revoking the tokens of a session keeps every row a token row.
LEMMA BurntType ==
    ASSUME TypeOK, NEW s, tokens' = Burnt(s)
    PROVE  tokens' \in [Tokens -> TokenRow]
<1>1. \A t \in Tokens : [tokens[t] EXCEPT !.st = "revoked"] \in TokenRow
    BY DEF TypeOK, TokenRow
<1>2. QED
    BY <1>1, Zenon DEF Burnt, TypeOK

\* Deciding an interaction keeps it a row.
LEMMA DecideType ==
    ASSUME TypeOK, NEW i \in Interactions, NEW verdict \in {"consented", "closed"}, Decide(i, verdict)
    PROVE  interactions' \in [Interactions -> InteractionRow]
<1>1. [interactions[i] EXCEPT !.st = verdict, !.session = None] \in InteractionRow
    BY DEF TypeOK, InteractionRow, SessionOrNone
<1>2. interactions' = [interactions EXCEPT ![i] = [interactions[i] EXCEPT !.st = verdict, !.session = None]]
    BY Zenon DEF Decide, TypeOK, InteractionRow
<1>3. QED
    BY <1>1, <1>2, Zenon DEF TypeOK

\* Every handler keeps the rows it writes well formed.
LEMMA TypeStep == TypeOK /\ [Next]_vars => TypeOK'
<1> SUFFICES ASSUME TypeOK, [Next]_vars PROVE TypeOK'
    BY Zenon
<1>0. /\ sessions \in [Sessions -> {"live", "ended"}]
      /\ pushed \in [Pushed -> {"none", "lodged", "gone"}]
      /\ interactions \in [Interactions -> InteractionRow]
      /\ grants \in [Accounts -> 0..MaxGrants]
      /\ codes \in [Codes -> CodeRow]
      /\ devices \in [Devices -> {"none", "pending", "approved", "denied"}]
      /\ tokens \in [Tokens -> TokenRow]
      /\ reqs \in [Requests -> Request]
    BY Zenon DEF TypeOK
<1>1. ASSUME NEW r \in Requests, NEW s \in SessionOrNone, Arrive(r, s) PROVE TypeOK'
  <2>1. [Idle EXCEPT !.pc = "arrived", !.session = s] \in Request
    BY Zenon DEF Idle, Request
  <2>2. QED
    BY <1>0, <1>1, <2>1, Zenon DEF Arrive, TypeOK
<1>2. ASSUME NEW r \in Requests, Drop(r) PROVE TypeOK'
    BY <1>0, <1>2, DoneType, Zenon DEF Drop, TypeOK
<1>3. ASSUME NEW r \in Requests, CheckSilently(r) PROVE TypeOK'
  <2>1. [reqs[r] EXCEPT !.pc = "silent"] \in Request
    BY <1>0 DEF Request
  <2>2. QED
    BY <1>0, <1>3, <2>1, Zenon DEF CheckSilently, TypeOK
<1>4. ASSUME NEW r \in Requests, RevokeGrant(r) PROVE TypeOK'
  <2>1. reqs[r].session \in Sessions
    BY <1>0, <1>4, Zenon DEF RevokeGrant, Arrived, Request, SessionOrNone
  <2>2. Owner[reqs[r].session] \in Accounts
    BY <2>1, OidcAssumption, Zenon
  <2>3. grants' \in [Accounts -> 0..MaxGrants]
    BY <1>0, <1>4, <2>2, OidcAssumption DEF RevokeGrant, OwnsGrant
  <2>4. QED
    BY <1>0, <1>4, <2>3, DoneType, Zenon DEF RevokeGrant, TypeOK
<1>5. ASSUME NEW s \in Sessions, Logout(s) PROVE TypeOK'
    BY <1>0, <1>5, BurntType, Zenon DEF Logout, TypeOK
<1>6. ASSUME NEW p \in Pushed, PushAuthorizationRequest(p) PROVE TypeOK'
    BY <1>0, <1>6, Zenon DEF PushAuthorizationRequest, TypeOK
<1>7. ASSUME NEW r \in Requests, NEW p \in Pushed \cup {None}, ResolveRequest(r, p) PROVE TypeOK'
  <2>1. [reqs[r] EXCEPT !.pc = "authorize", !.push = p] \in Request
    BY <1>0, Zenon DEF Request
  <2>2. reqs' = [reqs EXCEPT ![r] = [reqs[r] EXCEPT !.pc = "authorize", !.push = p]]
    BY <1>0, <1>7, Zenon DEF ResolveRequest, Request
  <2>3. pushed' \in [Pushed -> {"none", "lodged", "gone"}]
    BY <1>0, <1>7, Zenon DEF ResolveRequest, Consume
  <2>4. QED
    BY <1>0, <1>7, <2>1, <2>2, <2>3 DEF ResolveRequest, TypeOK
<1>8. ASSUME NEW r \in Requests, NEW c \in Codes, IssueSilently(r, c) PROVE TypeOK'
  <2>1. reqs[r].session \in SessionOrNone /\ reqs[r].push \in Pushed \cup {None}
    BY <1>0, Zenon DEF Request
  <2>2. QED
    BY <1>0, <1>8, <2>1, DoneType, IssueCodeType, Zenon DEF IssueSilently, TypeOK
<1>9. ASSUME NEW r \in Requests, NEW i \in Interactions, StartInteraction(r, i) PROVE TypeOK'
  <2>1. [NoInteraction EXCEPT !.st = "open", !.push = reqs[r].push] \in InteractionRow
    BY <1>0, Zenon DEF Request, NoInteraction, InteractionRow, SessionOrNone
  <2>2. QED
    BY <1>0, <1>9, <2>1, DoneType, Zenon DEF StartInteraction, TypeOK
<1>10. ASSUME NEW r \in Requests, NEW i \in Interactions, CompleteLogin(r, i) PROVE TypeOK'
  <2> DEFINE s == reqs[r].session
             row == [interactions[i] EXCEPT !.session = s, !.first = IF @ = None THEN s ELSE @]
  <2>1. s \in SessionOrNone
    BY <1>0, Zenon DEF Request
  <2>2. row \in InteractionRow
    BY <1>0, <2>1, ZenonT(30) DEF InteractionRow
  <2>3. interactions' = [interactions EXCEPT ![i] = row]
    BY <1>0, <1>10, Zenon DEF CompleteLogin, Bind, InteractionRow
  <2>4. QED
    BY <1>0, <1>10, <2>2, <2>3, DoneType DEF CompleteLogin, TypeOK
<1>11. ASSUME NEW r \in Requests, NEW i \in Interactions, Reject(r, i) PROVE TypeOK'
    BY <1>0, <1>11, DoneType, DecideType, Zenon DEF Reject, TypeOK
<1>12. ASSUME NEW r \in Requests, NEW i \in Interactions, NEW c \in Codes, NEW remember \in BOOLEAN,
              Consent(r, i, c, remember)
       PROVE  TypeOK'
  <2>1. reqs[r].session \in Sessions
    BY <1>0, <1>12, Zenon DEF Consent, Arrived, Request, SessionOrNone
  <2>2. Owner[reqs[r].session] \in Accounts
    BY <2>1, OidcAssumption, Zenon
  <2>3. grants' \in [Accounts -> 0..MaxGrants]
    BY <1>0, <1>12, <2>2, OidcAssumption DEF Consent, RememberGrant
  <2>4. interactions[i].push \in Pushed \cup {None} /\ reqs[r].session \in SessionOrNone
    BY <1>0, <2>1, Zenon DEF InteractionRow, SessionOrNone
  <2>5. codes' \in [Codes -> CodeRow]
    BY <1>12, <2>4, IssueCodeType, Zenon DEF Consent
  <2>6. QED
    BY <1>0, <1>12, <2>3, <2>5, DoneType, DecideType, Zenon DEF Consent, TypeOK
<1>13. ASSUME NEW c \in Codes, RevokeCode(c) PROVE TypeOK'
  <2>1. [codes[c] EXCEPT !.st = "consumed"] \in CodeRow
    BY <1>0 DEF CodeRow
  <2>2. QED
    BY <1>0, <1>13, <2>1, Zenon DEF RevokeCode, TypeOK
<1>14. ASSUME NEW c \in Codes, NEW t \in Tokens, NEW offline \in BOOLEAN, ExchangeCode(c, t, offline)
       PROVE  TypeOK'
  <2>1. [codes[c] EXCEPT !.st = "consumed"] \in CodeRow /\ codes[c].session \in SessionOrNone
    BY <1>0 DEF CodeRow
  <2>2. tokens' \in [Tokens -> TokenRow]
    BY <1>0, <1>14, <2>1, StoreTokenType, Zenon DEF ExchangeCode
  <2>3. QED
    BY <1>0, <1>14, <2>1, <2>2, Zenon DEF ExchangeCode, ConsumeCode, TypeOK
<1>15. ASSUME NEW r \in Requests, NEW t \in Tokens, Spend(r, t) PROVE TypeOK'
  <2>1. [tokens[t] EXCEPT !.st = "revoked"] \in TokenRow
    BY <1>0, Zenon DEF TokenRow
  <2>2. [pc |-> "spent", session |-> tokens[t].session, push |-> None, origin |-> tokens[t].origin] \in Request
    BY <1>0, Zenon DEF TokenRow, Request
  <2>3. QED
    BY <1>0, <1>15, <2>1, <2>2, Zenon DEF Spend, TypeOK
<1>16. ASSUME NEW r \in Requests, NEW t \in Tokens, MintRotated(r, t) PROVE TypeOK'
  <2>1. reqs[r].session \in SessionOrNone /\ reqs[r].origin \in Codes \cup Devices \cup {None}
    BY <1>0, Zenon DEF Request
  <2>2. QED
    BY <1>0, <1>16, <2>1, DoneType, StoreTokenType, Zenon DEF MintRotated, TypeOK
<1>17. ASSUME NEW t \in Tokens, Replay(t) PROVE TypeOK'
    BY <1>0, <1>17, BurntType, Zenon DEF Replay, TypeOK
<1>18. ASSUME NEW t \in Tokens, RevokeToken(t) PROVE TypeOK'
  <2>1. [tokens[t] EXCEPT !.st = "revoked"] \in TokenRow
    BY <1>0, Zenon DEF TokenRow
  <2>2. QED
    BY <1>0, <1>18, <2>1, Zenon DEF RevokeToken, TypeOK
<1>19. ASSUME NEW d \in Devices, DeviceAuthorization(d) PROVE TypeOK'
    BY <1>0, <1>19, Zenon DEF DeviceAuthorization, TypeOK
<1>20. ASSUME NEW r \in Requests, NEW d \in Devices, NEW v \in {"approved", "denied"}, DecideDevice(r, d, v)
       PROVE  TypeOK'
    BY <1>0, <1>20, DoneType, Zenon DEF DecideDevice, TypeOK
<1>21. ASSUME NEW d \in Devices, NEW t \in Tokens, NEW offline \in BOOLEAN, ExchangeDevice(d, t, offline)
       PROVE  TypeOK'
    BY <1>0, <1>21, StoreTokenType, Zenon DEF ExchangeDevice, TypeOK, SessionOrNone
<1>22. CASE UNCHANGED vars
    BY <1>0, <1>22, Zenon DEF vars, TypeOK
<1>23. QED
    BY <1>1, <1>2, <1>3, <1>4, <1>5, <1>6, <1>7, <1>8, <1>9, <1>10, <1>11, <1>12, <1>13, <1>14, <1>15,
       <1>16, <1>17, <1>18, <1>19, <1>20, <1>21, <1>22, Zenon DEF Next

-----------------------------------------------------------------------------
\* A code not yet exchanged has no line; one that was has a single holder.
LineOK(c) ==
    /\ AtMostOne(Line(c))
    /\ codes[c].st \in {"none", "open"} => Line(c) = {}

Inv == TypeOK /\ \A c \in Codes : LineOK(c)

\* No token becomes redeemable and no mint starts.
NoNewHolder ==
    /\ \A t \in Tokens : tokens'[t].st = "active" => tokens'[t] = tokens[t]
    /\ \A r \in Requests : reqs'[r].pc = "spent" => reqs'[r] = reqs[r]

\* A code once issued is never open again.
CodesAdvance == \A c \in Codes : codes'[c].st \in {"none", "open"} => codes[c].st \in {"none", "open"}

\* A step that adds no holder keeps every line.
LEMMA Shrinks ==
    ASSUME Inv, NoNewHolder, CodesAdvance
    PROVE  \A c \in Codes : LineOK(c)'
<1> SUFFICES ASSUME NEW c \in Codes PROVE LineOK(c)'
    BY Zenon
<1>1. Line(c)' \subseteq Line(c)
    BY Zenon DEF Line, NoNewHolder
<1>2. LineOK(c)
    BY Zenon DEF Inv
<1>3. QED
    BY <1>1, <1>2, Zenon DEF LineOK, AtMostOne, CodesAdvance

\* A step that leaves the codes alone lets none go back.
LEMMA CodesStay == codes' = codes => CodesAdvance
    BY Zenon DEF CodesAdvance

\* A request that ends holds nothing.
LEMMA DoneHolds ==
    ASSUME TypeOK, NEW r \in Requests, Done(r)
    PROVE  \A q \in Requests : reqs'[q].pc = "spent" => reqs'[q] = reqs[q] /\ q # r
<1>1. Idle.pc # "spent"
    BY Zenon DEF Idle
<1>2. \A q \in Requests : reqs'[q] = IF q = r THEN Idle ELSE reqs[q]
    BY Zenon DEF Done, TypeOK
<1>3. QED
    BY <1>1, <1>2, Zenon

\* Revocation makes no token redeemable.
LEMMA BurntHolds ==
    ASSUME TypeOK, NEW s, tokens' = Burnt(s)
    PROVE  \A t \in Tokens : tokens'[t].st = "active" => tokens'[t] = tokens[t]
<1>1. \A t \in Tokens : [tokens[t] EXCEPT !.st = "revoked"].st = "revoked"
    BY Zenon DEF TypeOK, TokenRow
<1>2. QED
    BY <1>1, Zenon DEF Burnt

\* Issuing a code opens one that was never issued.
LEMMA IssueAdvances ==
    ASSUME TypeOK, NEW c \in Codes, NEW s, NEW i, NEW p, IssueCode(c, s, i, p)
    PROVE  CodesAdvance
    BY Zenon DEF IssueCode, CodesAdvance, TypeOK

\* tokenAuthorizationCodeGrant starts the line of the code it consumes.
LEMMA ExchangeCodeLine ==
    ASSUME Inv, NEW c \in Codes, NEW t \in Tokens, NEW offline \in BOOLEAN, ExchangeCode(c, t, offline)
    PROVE  \A d \in Codes : LineOK(d)'
<1> SUFFICES ASSUME NEW d \in Codes PROVE LineOK(d)'
    BY Zenon
<1>1. TypeOK /\ LineOK(c) /\ LineOK(d)
    BY Zenon DEF Inv
<1>2. codes[c].st = "open" /\ \A e \in Codes : codes'[e].st = IF e = c THEN "consumed" ELSE codes[e].st
    BY <1>1, Zenon DEF ExchangeCode, ConsumeCode, TypeOK, CodeRow
<1>3. Line(c) = {}
    BY <1>1, <1>2, Zenon DEF LineOK
<1>4. \A u \in Tokens : tokens'[u] = tokens[u] \/ (u = t /\ tokens'[u].origin = c)
    BY <1>1 DEF ExchangeCode, StoreToken, TypeOK
<1>5. reqs' = reqs
    BY Zenon DEF ExchangeCode
<1>6. Line(c)' \subseteq {t}
    BY <1>3, <1>4, <1>5, Zenon DEF Line
<1>7. d # c => Line(d)' \subseteq Line(d)
    BY <1>4, <1>5, Zenon DEF Line
<1>8. CASE d = c
    BY <1>2, <1>6, <1>8, Zenon DEF LineOK, AtMostOne
<1>9. CASE d # c
    BY <1>1, <1>2, <1>7, <1>9, Zenon DEF LineOK, AtMostOne
<1>10. QED
    BY <1>8, <1>9, Zenon

\* oidcRedeemRefreshToken passes the line from the token to the request.
LEMMA SpendLine ==
    ASSUME Inv, NEW r \in Requests, NEW t \in Tokens, Spend(r, t)
    PROVE  \A d \in Codes : LineOK(d)'
<1> SUFFICES ASSUME NEW d \in Codes PROVE LineOK(d)'
    BY Zenon
<1>1. TypeOK /\ LineOK(d)
    BY Zenon DEF Inv
<1>2. codes' = codes /\ reqs[r].pc = "idle" /\ tokens[t].st = "active"
    BY Zenon DEF Spend, Spendable
<1>3. \A u \in Tokens : tokens'[u].st = "active" => u # t /\ tokens'[u] = tokens[u]
    BY <1>1, Zenon DEF Spend, TypeOK, TokenRow
<1>4. \A q \in Requests : q # r => reqs'[q] = reqs[q]
    BY <1>1, Zenon DEF Spend, TypeOK
<1>5. reqs'[r].origin = tokens[t].origin
    BY <1>1, Zenon DEF Spend, TypeOK
<1>6. CASE tokens[t].origin = d
  <2>1. t \in Line(d)
    BY <1>2, <1>6, Zenon DEF Line
  <2>2. Line(d) = {t} /\ codes[d].st \notin {"none", "open"}
    BY <1>1, <2>1, Zenon DEF LineOK, AtMostOne
  <2>3. Line(d)' \subseteq {r}
    BY <1>3, <1>4, <2>2, OidcAssumption DEF Line
  <2>4. QED
    BY <1>2, <2>2, <2>3, Zenon DEF LineOK, AtMostOne
<1>7. CASE tokens[t].origin # d
  <2>1. Line(d)' \subseteq Line(d)
    BY <1>3, <1>4, <1>5, <1>7, Zenon DEF Line
  <2>2. QED
    BY <1>1, <1>2, <2>1, Zenon DEF LineOK, AtMostOne
<1>8. QED
    BY <1>6, <1>7, Zenon

\* The mint of a rotation passes the line from the request to the new token.
LEMMA MintLine ==
    ASSUME Inv, NEW r \in Requests, NEW t \in Tokens, MintRotated(r, t)
    PROVE  \A d \in Codes : LineOK(d)'
<1> SUFFICES ASSUME NEW d \in Codes PROVE LineOK(d)'
    BY Zenon
<1>1. TypeOK /\ LineOK(d)
    BY Zenon DEF Inv
<1>2. codes' = codes /\ reqs[r].pc = "spent" /\ Done(r)
    BY Zenon DEF MintRotated
<1>3. \A u \in Tokens : u # t => tokens'[u] = tokens[u]
    BY <1>1, Zenon DEF MintRotated, StoreToken, TypeOK
<1>4. tokens'[t].origin = reqs[r].origin
    BY <1>1, Zenon DEF MintRotated, StoreToken, TypeOK
<1>5. \A q \in Requests : reqs'[q].pc = "spent" => reqs'[q] = reqs[q] /\ q # r
    BY <1>1, <1>2, DoneHolds, Zenon
<1>6. CASE reqs[r].origin = d
  <2>1. r \in Line(d)
    BY <1>2, <1>6, Zenon DEF Line
  <2>2. Line(d) = {r} /\ codes[d].st \notin {"none", "open"}
    BY <1>1, <2>1, Zenon DEF LineOK, AtMostOne
  <2>3. Line(d)' \subseteq {t}
    BY <1>3, <1>5, <2>2, OidcAssumption DEF Line
  <2>4. QED
    BY <1>2, <2>2, <2>3, Zenon DEF LineOK, AtMostOne
<1>7. CASE reqs[r].origin # d
  <2>1. Line(d)' \subseteq Line(d)
    BY <1>3, <1>4, <1>5, <1>7, Zenon DEF Line
  <2>2. QED
    BY <1>1, <1>2, <2>1, Zenon DEF LineOK, AtMostOne
<1>8. QED
    BY <1>6, <1>7, Zenon

\* tokenDeviceCodeGrant stores a token that stems from no code.
LEMMA ExchangeDeviceLine ==
    ASSUME Inv, NEW e \in Devices, NEW t \in Tokens, NEW offline \in BOOLEAN, ExchangeDevice(e, t, offline)
    PROVE  \A d \in Codes : LineOK(d)'
<1> SUFFICES ASSUME NEW d \in Codes PROVE LineOK(d)'
    BY Zenon
<1>1. TypeOK /\ LineOK(d)
    BY Zenon DEF Inv
<1>2. codes' = codes /\ reqs' = reqs
    BY Zenon DEF ExchangeDevice
<1>3. \A u \in Tokens : tokens'[u] = tokens[u] \/ tokens'[u].origin = e
    BY <1>1 DEF ExchangeDevice, StoreToken, TypeOK
<1>4. Line(d)' \subseteq Line(d)
    BY <1>2, <1>3, OidcAssumption, Zenon DEF Line
<1>5. QED
    BY <1>1, <1>2, <1>4, Zenon DEF LineOK, AtMostOne

\* Every step keeps the lines.
LEMMA LineStep == Inv /\ [Next]_vars => \A d \in Codes : LineOK(d)'
<1> SUFFICES ASSUME Inv, [Next]_vars PROVE \A d \in Codes : LineOK(d)'
    BY Zenon
<1>0. TypeOK
    BY Zenon DEF Inv
<1>1. ASSUME NEW r \in Requests, NEW s \in SessionOrNone, Arrive(r, s) PROVE NoNewHolder /\ CodesAdvance
    BY <1>0, <1>1, CodesStay, Zenon DEF Arrive, NoNewHolder, TypeOK, Idle, Request
<1>2. ASSUME NEW r \in Requests, Drop(r) PROVE NoNewHolder /\ CodesAdvance
    BY <1>0, <1>2, CodesStay, DoneHolds, Zenon DEF Drop, NoNewHolder
<1>3. ASSUME NEW r \in Requests, CheckSilently(r) PROVE NoNewHolder /\ CodesAdvance
    BY <1>0, <1>3, CodesStay, Zenon DEF CheckSilently, NoNewHolder, TypeOK, Request
<1>4. ASSUME NEW r \in Requests, RevokeGrant(r) PROVE NoNewHolder /\ CodesAdvance
    BY <1>0, <1>4, CodesStay, DoneHolds, Zenon DEF RevokeGrant, NoNewHolder
<1>5. ASSUME NEW s \in Sessions, Logout(s) PROVE NoNewHolder /\ CodesAdvance
    BY <1>0, <1>5, CodesStay, BurntHolds, Zenon DEF Logout, NoNewHolder
<1>6. ASSUME NEW p \in Pushed, PushAuthorizationRequest(p) PROVE NoNewHolder /\ CodesAdvance
    BY <1>6, CodesStay, Zenon DEF PushAuthorizationRequest, NoNewHolder
<1>7. ASSUME NEW r \in Requests, NEW p \in Pushed \cup {None}, ResolveRequest(r, p)
      PROVE  NoNewHolder /\ CodesAdvance
    BY <1>0, <1>7, CodesStay, Zenon DEF ResolveRequest, NoNewHolder, TypeOK, Request
<1>8. ASSUME NEW r \in Requests, NEW c \in Codes, IssueSilently(r, c) PROVE NoNewHolder /\ CodesAdvance
    BY <1>0, <1>8, IssueAdvances, DoneHolds, Zenon DEF IssueSilently, NoNewHolder
<1>9. ASSUME NEW r \in Requests, NEW i \in Interactions, StartInteraction(r, i) PROVE NoNewHolder /\ CodesAdvance
    BY <1>0, <1>9, CodesStay, DoneHolds, Zenon DEF StartInteraction, NoNewHolder
<1>10. ASSUME NEW r \in Requests, NEW i \in Interactions, CompleteLogin(r, i) PROVE NoNewHolder /\ CodesAdvance
    BY <1>0, <1>10, CodesStay, DoneHolds, Zenon DEF CompleteLogin, NoNewHolder
<1>11. ASSUME NEW r \in Requests, NEW i \in Interactions, Reject(r, i) PROVE NoNewHolder /\ CodesAdvance
    BY <1>0, <1>11, CodesStay, DoneHolds, Zenon DEF Reject, NoNewHolder
<1>12. ASSUME NEW r \in Requests, NEW i \in Interactions, NEW c \in Codes, NEW remember \in BOOLEAN,
              Consent(r, i, c, remember)
       PROVE  NoNewHolder /\ CodesAdvance
    BY <1>0, <1>12, IssueAdvances, DoneHolds, Zenon DEF Consent, NoNewHolder
<1>13. ASSUME NEW c \in Codes, RevokeCode(c) PROVE NoNewHolder /\ CodesAdvance
    BY <1>0, <1>13, Zenon DEF RevokeCode, NoNewHolder, CodesAdvance, TypeOK, CodeRow
<1>17. ASSUME NEW t \in Tokens, Replay(t) PROVE NoNewHolder /\ CodesAdvance
    BY <1>0, <1>17, CodesStay, BurntHolds, Zenon DEF Replay, NoNewHolder
<1>18. ASSUME NEW t \in Tokens, RevokeToken(t) PROVE NoNewHolder /\ CodesAdvance
    BY <1>0, <1>18, CodesStay, Zenon DEF RevokeToken, NoNewHolder, TypeOK, TokenRow
<1>19. ASSUME NEW d \in Devices, DeviceAuthorization(d) PROVE NoNewHolder /\ CodesAdvance
    BY <1>19, CodesStay, Zenon DEF DeviceAuthorization, NoNewHolder
<1>20. ASSUME NEW r \in Requests, NEW d \in Devices, NEW v \in {"approved", "denied"}, DecideDevice(r, d, v)
       PROVE  NoNewHolder /\ CodesAdvance
    BY <1>0, <1>20, CodesStay, DoneHolds, Zenon DEF DecideDevice, NoNewHolder
<1>22. CASE UNCHANGED vars
    BY <1>22, Shrinks, CodesStay, Zenon DEF vars, NoNewHolder
<1>23. QED
    BY <1>1, <1>2, <1>3, <1>4, <1>5, <1>6, <1>7, <1>8, <1>9, <1>10, <1>11, <1>12, <1>13,
       <1>17, <1>18, <1>19, <1>20, <1>22, Shrinks, ExchangeCodeLine, SpendLine, MintLine, ExchangeDeviceLine, Zenon DEF Next

\* At the start no code is issued and no token exists.
LEMMA InitInv == Init => Inv
<1> SUFFICES ASSUME Init PROVE Inv
    BY Zenon
<1>1. TypeOK
    BY EmptyRows, OidcAssumption DEF Init, TypeOK
<1>2. (\A t \in Tokens : tokens[t].st = "none") /\ (\A r \in Requests : reqs[r].pc = "idle")
    BY Zenon DEF Init, NoToken, Idle
<1>3. \A c \in Codes : Line(c) = {}
    BY <1>2, Zenon DEF Line
<1>4. QED
    BY <1>1, <1>3, Zenon DEF Inv, LineOK, AtMostOne

\* The inductive invariant: the tables are well formed, a code not exchanged has
\* no token, and the line of an exchanged one has at most one holder, which a
\* refresh passes on from token to request to token.
THEOREM Invariance == Spec => []Inv
<1>1. Inv /\ [Next]_vars => Inv'
    BY TypeStep, LineStep, Zenon DEF Inv
<1>2. QED
    BY InitInv, <1>1, PTL DEF Spec

\* The tables keep their shape under every handler.
THEOREM TypeCorrect == Spec => []TypeOK
<1>1. Inv => TypeOK
    BY Zenon DEF Inv
<1>2. QED
    BY Invariance, <1>1, PTL

\* For any number of sessions, requests, codes and tokens, an authorization code
\* has at most one refresh token that can be redeemed or is being minted.
THEOREM CodeHasOneLine == Spec => []OneTokenPerCode
<1>1. Inv => OneTokenPerCode
    BY Zenon DEF Inv, LineOK, OneTokenPerCode
<1>2. QED
    BY Invariance, <1>1, PTL

-----------------------------------------------------------------------------
\* Nothing of session s can be redeemed after the step that could not before.
NothingNew(s) ==
    /\ sessions'[s] = "ended"
    /\ \A t \in Tokens : tokens'[t].session = s /\ tokens'[t].st = "active" => tokens'[t] = tokens[t]
    /\ \A c \in Codes : codes'[c].session = s /\ codes'[c].st = "open" => codes'[c] = codes[c]
    /\ \A r \in Requests : reqs'[r].session = s => reqs'[r] = reqs[r]

\* A step that brings nothing new keeps the session quiet.
LEMMA StaysQuiet == ASSUME NEW s \in Sessions, Quiet(s), NothingNew(s) PROVE Quiet(s)'
    BY Zenon DEF Quiet, NothingNew

\* A request that ends has no session.
LEMMA DoneQuiet ==
    ASSUME TypeOK, NEW s \in Sessions, NEW r \in Requests, Done(r)
    PROVE  \A q \in Requests : reqs'[q].session = s => reqs'[q] = reqs[q]
<1>1. Idle.session # s
    BY OidcAssumption, Zenon DEF Idle
<1>2. QED
    BY <1>1, Zenon DEF Done, TypeOK

\* A code issued for another session is not one of s.
LEMMA IssueQuiet ==
    ASSUME TypeOK, NEW s \in Sessions, NEW c \in Codes, NEW q, NEW i, NEW p, IssueCode(c, q, i, p), q # s
    PROVE  \A d \in Codes : codes'[d].session = s /\ codes'[d].st = "open" => codes'[d] = codes[d]
    BY Zenon DEF IssueCode, TypeOK

\* A token stored for another session is not one of s.
LEMMA StoreQuiet ==
    ASSUME TypeOK, NEW s \in Sessions, NEW t \in Tokens, NEW q, NEW o, StoreToken(t, q, o), q # s
    PROVE  \A u \in Tokens : tokens'[u].session = s /\ tokens'[u].st = "active" => tokens'[u] = tokens[u]
    BY Zenon DEF StoreToken, TypeOK

\* No handler wakes a quiet session.
LEMMA QuietStep ==
    ASSUME TypeOK, NEW s \in Sessions, Quiet(s), [Next]_vars
    PROVE  Quiet(s)'
<1>0. /\ sessions[s] = "ended" /\ None # s
      /\ \A t \in Tokens : tokens[t].session = s => tokens[t].st # "active"
      /\ \A c \in Codes : codes[c].session = s => codes[c].st # "open"
      /\ \A r \in Requests : reqs[r].session # s
    BY OidcAssumption, Zenon DEF Quiet
<1>1. ASSUME NEW r \in Requests, NEW q \in SessionOrNone, Arrive(r, q) PROVE NothingNew(s)
    BY <1>0, <1>1, OidcAssumption, Zenon DEF Arrive, NothingNew, TypeOK, Idle, Request, SessionOrNone
<1>2. ASSUME NEW r \in Requests, Drop(r) PROVE NothingNew(s)
    BY <1>0, <1>2, DoneQuiet, Zenon DEF Drop, NothingNew
<1>3. ASSUME NEW r \in Requests, CheckSilently(r) PROVE NothingNew(s)
    BY <1>0, <1>3, Zenon DEF CheckSilently, NothingNew, TypeOK, Request
<1>4. ASSUME NEW r \in Requests, RevokeGrant(r) PROVE NothingNew(s)
    BY <1>0, <1>4, DoneQuiet, Zenon DEF RevokeGrant, NothingNew
<1>5. ASSUME NEW q \in Sessions, Logout(q) PROVE NothingNew(s)
    BY <1>0, <1>5, BurntHolds, Zenon DEF Logout, NothingNew, TypeOK
<1>6. ASSUME NEW p \in Pushed, PushAuthorizationRequest(p) PROVE NothingNew(s)
    BY <1>0, <1>6, Zenon DEF PushAuthorizationRequest, NothingNew
<1>7. ASSUME NEW r \in Requests, NEW p \in Pushed \cup {None}, ResolveRequest(r, p) PROVE NothingNew(s)
    BY <1>0, <1>7, Zenon DEF ResolveRequest, NothingNew, TypeOK, Request
<1>8. ASSUME NEW r \in Requests, NEW c \in Codes, IssueSilently(r, c) PROVE NothingNew(s)
    BY <1>0, <1>8, IssueQuiet, DoneQuiet, Zenon DEF IssueSilently, NothingNew
<1>9. ASSUME NEW r \in Requests, NEW i \in Interactions, StartInteraction(r, i) PROVE NothingNew(s)
    BY <1>0, <1>9, DoneQuiet, Zenon DEF StartInteraction, NothingNew
<1>10. ASSUME NEW r \in Requests, NEW i \in Interactions, CompleteLogin(r, i) PROVE NothingNew(s)
    BY <1>0, <1>10, DoneQuiet, Zenon DEF CompleteLogin, NothingNew
<1>11. ASSUME NEW r \in Requests, NEW i \in Interactions, Reject(r, i) PROVE NothingNew(s)
    BY <1>0, <1>11, DoneQuiet, Zenon DEF Reject, NothingNew
<1>12. ASSUME NEW r \in Requests, NEW i \in Interactions, NEW c \in Codes, NEW remember \in BOOLEAN,
              Consent(r, i, c, remember)
       PROVE  NothingNew(s)
    BY <1>0, <1>12, IssueQuiet, DoneQuiet, Zenon DEF Consent, NothingNew
<1>13. ASSUME NEW c \in Codes, RevokeCode(c) PROVE NothingNew(s)
    BY <1>0, <1>13, Zenon DEF RevokeCode, NothingNew, TypeOK, CodeRow
<1>14. ASSUME NEW c \in Codes, NEW t \in Tokens, NEW offline \in BOOLEAN, ExchangeCode(c, t, offline)
       PROVE  NothingNew(s)
  <2>1. codes[c].st = "open" /\ codes[c].session # s
    BY <1>0, <1>14, Zenon DEF ExchangeCode, ConsumeCode
  <2>2. \A u \in Tokens : tokens'[u].session = s /\ tokens'[u].st = "active" => tokens'[u] = tokens[u]
    BY <1>14, <2>1, StoreQuiet, Zenon DEF ExchangeCode
  <2>3. \A d \in Codes : codes'[d].st = "open" => codes'[d] = codes[d]
    BY <1>14, Zenon DEF ExchangeCode, ConsumeCode, TypeOK, CodeRow
  <2>4. QED
    BY <1>0, <1>14, <2>2, <2>3, Zenon DEF ExchangeCode, NothingNew
<1>15. ASSUME NEW r \in Requests, NEW t \in Tokens, Spend(r, t) PROVE NothingNew(s)
  <2>1. tokens[t].session # s
    BY <1>0, <1>15, Zenon DEF Spend, Spendable
  <2>2. \A q \in Requests : reqs'[q].session = s => reqs'[q] = reqs[q]
    BY <1>15, <2>1, Zenon DEF Spend, TypeOK
  <2>3. \A u \in Tokens : tokens'[u].st = "active" => tokens'[u] = tokens[u]
    BY <1>15, Zenon DEF Spend, TypeOK, TokenRow
  <2>4. QED
    BY <1>0, <1>15, <2>2, <2>3, Zenon DEF Spend, NothingNew
<1>16. ASSUME NEW r \in Requests, NEW t \in Tokens, MintRotated(r, t) PROVE NothingNew(s)
    BY <1>0, <1>16, StoreQuiet, DoneQuiet, Zenon DEF MintRotated, NothingNew
<1>17. ASSUME NEW t \in Tokens, Replay(t) PROVE NothingNew(s)
    BY <1>0, <1>17, BurntHolds, Zenon DEF Replay, NothingNew
<1>18. ASSUME NEW t \in Tokens, RevokeToken(t) PROVE NothingNew(s)
    BY <1>0, <1>18, Zenon DEF RevokeToken, NothingNew, TypeOK, TokenRow
<1>19. ASSUME NEW d \in Devices, DeviceAuthorization(d) PROVE NothingNew(s)
    BY <1>0, <1>19, Zenon DEF DeviceAuthorization, NothingNew
<1>20. ASSUME NEW r \in Requests, NEW d \in Devices, NEW v \in {"approved", "denied"}, DecideDevice(r, d, v)
       PROVE  NothingNew(s)
    BY <1>0, <1>20, DoneQuiet, Zenon DEF DecideDevice, NothingNew
<1>21. ASSUME NEW d \in Devices, NEW t \in Tokens, NEW offline \in BOOLEAN, ExchangeDevice(d, t, offline)
       PROVE  NothingNew(s)
    BY <1>0, <1>21, StoreQuiet, Zenon DEF ExchangeDevice, NothingNew
<1>22. CASE UNCHANGED vars
    BY <1>22, <1>0, StaysQuiet, Zenon DEF vars, NothingNew
<1>23. QED
    BY <1>1, <1>2, <1>3, <1>4, <1>5, <1>6, <1>7, <1>8, <1>9, <1>10, <1>11, <1>12, <1>13, <1>14, <1>15,
       <1>16, <1>17, <1>18, <1>19, <1>20, <1>21, <1>22, StaysQuiet, Zenon DEF Next

\* For any number of them, a revoked session with no request under way and no
\* code outstanding never has a redeemable refresh token again.
THEOREM RevokedSessionStaysQuiet == Spec => QuietStaysQuiet
<1>1. TypeOK /\ [Next]_vars => [\A s \in Sessions : Quiet(s) => Quiet(s)']_vars
    BY QuietStep, Zenon
<1>2. QED
    BY TypeCorrect, <1>1, PTL DEF Spec, QuietStaysQuiet

-----------------------------------------------------------------------------
\* The codes issued by the decision on interaction i.
Issued(i) == {c \in Codes : codes[c].via = i}

\* The session an open interaction is bound to is the first that claimed it, and
\* only a consent has issued a code.
ClaimOK(i) ==
    /\ AtMostOne(Issued(i))
    /\ Issued(i) # {} <=> interactions[i].st = "consented"
    /\ \A c \in Issued(i) : codes[c].session = interactions[i].first
    /\ interactions[i].st = "open" => interactions[i].session = interactions[i].first

ClaimInv == (\A i \in Interactions : ClaimOK(i)) /\ \A c \in Codes : codes[c].st = "none" => codes[c].via = None

\* The codes stay with the interaction and session they were issued for.
CodesKept ==
    \A c \in Codes : /\ codes'[c].via = codes[c].via /\ codes'[c].session = codes[c].session
                     /\ codes'[c].st = "none" => codes[c].st = "none"

\* No code is issued and no interaction touched.
LEMMA ClaimKept ==
    ASSUME ClaimInv, interactions' = interactions, CodesKept
    PROVE  ClaimInv'
<1>1. \A i \in Interactions : Issued(i)' = Issued(i)
    BY Zenon DEF Issued, CodesKept
<1>2. \A i \in Interactions : \A c \in Issued(i) : codes'[c].session = codes[c].session
    BY Zenon DEF Issued, CodesKept
<1>3. ASSUME NEW i \in Interactions PROVE ClaimOK(i)'
  <2>1. ClaimOK(i) /\ Issued(i)' = Issued(i) /\ \A c \in Issued(i) : codes'[c].session = codes[c].session
    BY <1>1, <1>2, Zenon DEF ClaimInv
  <2>2. QED
    BY <2>1, Zenon DEF ClaimOK
<1>4. \A c \in Codes : codes'[c].st = "none" => codes'[c].via = None
    BY Zenon DEF ClaimInv, CodesKept
<1>5. QED
    BY <1>3, <1>4, Zenon DEF ClaimInv

\* One interaction is written, and not to consent.
LEMMA ClaimWritten ==
    ASSUME ClaimInv, NEW i \in Interactions, codes' = codes,
           interactions[i].st # "consented", interactions'[i].st # "consented",
           interactions'[i].st = "open" => interactions'[i].session = interactions'[i].first,
           \A j \in Interactions : j # i => interactions'[j] = interactions[j]
    PROVE  ClaimInv'
<1>1. \A j \in Interactions : Issued(j)' = Issued(j)
    BY Zenon DEF Issued
<1>2. ASSUME NEW j \in Interactions PROVE ClaimOK(j)'
  <2>1. ClaimOK(j) /\ Issued(j)' = Issued(j)
    BY <1>1, Zenon DEF ClaimInv
  <2>2. CASE j = i
    BY <2>1, <2>2, Zenon DEF ClaimOK
  <2>3. CASE j # i
    BY <2>1, <2>3, Zenon DEF ClaimOK
  <2>4. QED
    BY <2>2, <2>3, Zenon
<1>3. QED
    BY <1>2, Zenon DEF ClaimInv

\* Consent issues the one code of the interaction, to the session that claimed it.
LEMMA ConsentClaim ==
    ASSUME TypeOK, ClaimInv, NEW r \in Requests, NEW i \in Interactions, NEW c \in Codes,
           NEW remember \in BOOLEAN, Consent(r, i, c, remember)
    PROVE  ClaimInv'
<1>1. /\ interactions[i].st = "open" /\ interactions[i].session = reqs[r].session /\ codes[c].st = "none"
      /\ codes[c].via = None
    BY Zenon DEF Consent, IssueCode, ClaimInv
<1>2. /\ \A d \in Codes : d # c => codes'[d] = codes[d]
      /\ codes'[c].via = i /\ codes'[c].session = reqs[r].session /\ codes'[c].st = "open"
    BY Zenon DEF Consent, IssueCode, TypeOK
<1>3. interactions \in [Interactions -> InteractionRow] /\ None \notin Interactions
    BY OidcAssumption, Zenon DEF TypeOK
<1>4. /\ \A j \in Interactions : j # i => interactions'[j] = interactions[j]
      /\ interactions'[i].st = "consented" /\ interactions'[i].first = interactions[i].first
    BY <1>3, Zenon DEF Consent, Decide, InteractionRow
<1>5. ClaimOK(i) /\ Issued(i) = {}
    BY <1>1, Zenon DEF ClaimInv, ClaimOK
<1>6. Issued(i)' = {c}
    BY <1>2, <1>5, Zenon DEF Issued
<1>7. ClaimOK(i)'
  <2>1. codes'[c].session = interactions'[i].first
    BY <1>1, <1>2, <1>4, <1>5, Zenon DEF ClaimOK
  <2>2. QED
    BY <1>4, <1>6, <2>1, Zenon DEF ClaimOK, AtMostOne
<1>8. ASSUME NEW j \in Interactions, j # i PROVE ClaimOK(j)'
  <2>1. Issued(j)' = Issued(j) /\ c \notin Issued(j)
    BY <1>1, <1>2, <1>3, <1>8, Zenon DEF Issued
  <2>2. ClaimOK(j) /\ interactions'[j] = interactions[j]
    BY <1>4, <1>8, Zenon DEF ClaimInv
  <2>3. \A d \in Issued(j) : codes'[d] = codes[d]
    BY <1>2, <2>1, Zenon DEF Issued
  <2>4. QED
    BY <2>1, <2>2, <2>3, Zenon DEF ClaimOK
<1>9. \A d \in Codes : codes'[d].st = "none" => codes'[d].via = None
    BY <1>2, Zenon DEF ClaimInv
<1>10. QED
    BY <1>7, <1>8, <1>9, Zenon DEF ClaimInv

\* A silent code belongs to no interaction.
LEMMA SilentClaim ==
    ASSUME TypeOK, ClaimInv, NEW r \in Requests, NEW c \in Codes, IssueSilently(r, c)
    PROVE  ClaimInv'
<1>1. codes[c].st = "none" /\ codes[c].via = None /\ interactions' = interactions
    BY Zenon DEF IssueSilently, IssueCode, ClaimInv
<1>2. /\ \A d \in Codes : d # c => codes'[d] = codes[d]
      /\ codes'[c].via = None
    BY Zenon DEF IssueSilently, IssueCode, TypeOK
<1>3. ASSUME NEW j \in Interactions PROVE ClaimOK(j)'
  <2>1. Issued(j)' = Issued(j) /\ c \notin Issued(j)
    BY <1>1, <1>2, OidcAssumption, Zenon DEF Issued
  <2>2. ClaimOK(j)
    BY Zenon DEF ClaimInv
  <2>3. \A d \in Issued(j) : codes'[d] = codes[d]
    BY <1>2, <2>1, Zenon DEF Issued
  <2>4. QED
    BY <1>1, <2>1, <2>2, <2>3, Zenon DEF ClaimOK
<1>4. \A d \in Codes : codes'[d].st = "none" => codes'[d].via = None
    BY <1>2, Zenon DEF ClaimInv
<1>5. QED
    BY <1>3, <1>4, Zenon DEF ClaimInv

\* Consuming a code leaves what it was issued for.
LEMMA ConsumedKept ==
    ASSUME TypeOK, NEW c \in Codes, codes' = [codes EXCEPT ![c].st = "consumed"]
    PROVE  CodesKept
    BY Zenon DEF TypeOK, CodeRow, CodesKept

\* Every step keeps the claims.
LEMMA ClaimStep == TypeOK /\ ClaimInv /\ [Next]_vars => ClaimInv'
<1> SUFFICES ASSUME TypeOK, ClaimInv, [Next]_vars PROVE ClaimInv'
    BY Zenon
<1>0. interactions \in [Interactions -> InteractionRow] /\ reqs \in [Requests -> Request]
    BY Zenon DEF TypeOK
<1>1. ASSUME interactions' = interactions, codes' = codes PROVE ClaimInv'
    BY <1>1, ClaimKept, Zenon DEF CodesKept
<1>2. ASSUME NEW r \in Requests, NEW s \in SessionOrNone, Arrive(r, s) PROVE ClaimInv'
    BY <1>1, <1>2, Zenon DEF Arrive
<1>3. ASSUME NEW r \in Requests, Drop(r) \/ CheckSilently(r) \/ RevokeGrant(r) PROVE ClaimInv'
    BY <1>1, <1>3, Zenon DEF Drop, CheckSilently, RevokeGrant
<1>4. ASSUME NEW s \in Sessions, Logout(s) PROVE ClaimInv'
    BY <1>1, <1>4, Zenon DEF Logout
<1>5. ASSUME NEW p \in Pushed, PushAuthorizationRequest(p) PROVE ClaimInv'
    BY <1>1, <1>5, Zenon DEF PushAuthorizationRequest
<1>6. ASSUME NEW r \in Requests, NEW p \in Pushed \cup {None}, ResolveRequest(r, p) PROVE ClaimInv'
    BY <1>1, <1>6, Zenon DEF ResolveRequest
<1>7. ASSUME NEW r \in Requests, NEW i \in Interactions, StartInteraction(r, i) PROVE ClaimInv'
  <2>1. /\ codes' = codes /\ interactions[i].st = "none"
        /\ interactions' = [interactions EXCEPT ![i] = [NoInteraction EXCEPT !.st = "open", !.push = reqs[r].push]]
    BY <1>7, Zenon DEF StartInteraction
  <2>2. /\ interactions'[i].st = "open" /\ interactions'[i].session = interactions'[i].first
        /\ \A j \in Interactions : j # i => interactions'[j] = interactions[j]
    BY <1>0, <2>1, Zenon DEF NoInteraction
  <2>3. QED
    BY <2>1, <2>2, ClaimWritten, Zenon
<1>8. ASSUME NEW r \in Requests, NEW i \in Interactions, CompleteLogin(r, i) PROVE ClaimInv'
  <2> DEFINE s == reqs[r].session
             row == [interactions[i] EXCEPT !.session = s, !.first = IF @ = None THEN s ELSE @]
  <2>1. codes' = codes /\ interactions[i].st = "open" /\ interactions[i].session \in {None, s}
    BY <1>8, Zenon DEF CompleteLogin, MayClaim
  <2>2. interactions' = [interactions EXCEPT ![i] = row]
    BY <1>0, <1>8, Zenon DEF CompleteLogin, Bind, InteractionRow
  <2>3. interactions[i].session = interactions[i].first
    BY <2>1, Zenon DEF ClaimInv, ClaimOK
  <2>4. row.st = "open" /\ row.session = s /\ row.first = s
    BY <1>0, <2>1, <2>3, Zenon DEF InteractionRow
  <2> HIDE DEF row
  <2>5. interactions'[i] = row /\ \A j \in Interactions : j # i => interactions'[j] = interactions[j]
    BY <1>0, <2>2, Zenon
  <2>6. QED
    BY <2>1, <2>4, <2>5, ClaimWritten, Zenon
<1>9. ASSUME NEW r \in Requests, NEW i \in Interactions, Reject(r, i) PROVE ClaimInv'
  <2>1. codes' = codes /\ interactions[i].st = "open" /\ Decide(i, "closed")
    BY <1>9, Zenon DEF Reject
  <2>2. /\ interactions'[i].st = "closed"
        /\ \A j \in Interactions : j # i => interactions'[j] = interactions[j]
    BY <1>0, <2>1, Zenon DEF Decide, InteractionRow
  <2>3. QED
    BY <2>1, <2>2, ClaimWritten, Zenon
<1>10. ASSUME NEW c \in Codes, RevokeCode(c) PROVE ClaimInv'
    BY <1>10, ClaimKept, ConsumedKept, Zenon DEF RevokeCode
<1>11. ASSUME NEW c \in Codes, NEW t \in Tokens, NEW offline \in BOOLEAN, ExchangeCode(c, t, offline)
       PROVE  ClaimInv'
    BY <1>11, ClaimKept, ConsumedKept, Zenon DEF ExchangeCode, ConsumeCode
<1>12. ASSUME NEW r \in Requests, NEW t \in Tokens, Spend(r, t) \/ MintRotated(r, t) PROVE ClaimInv'
    BY <1>1, <1>12, Zenon DEF Spend, MintRotated
<1>13. ASSUME NEW t \in Tokens, Replay(t) \/ RevokeToken(t) PROVE ClaimInv'
    BY <1>1, <1>13, Zenon DEF Replay, RevokeToken
<1>14. ASSUME NEW d \in Devices, DeviceAuthorization(d) PROVE ClaimInv'
    BY <1>1, <1>14, Zenon DEF DeviceAuthorization
<1>15. ASSUME NEW r \in Requests, NEW d \in Devices, NEW v \in {"approved", "denied"}, DecideDevice(r, d, v)
       PROVE  ClaimInv'
    BY <1>1, <1>15, Zenon DEF DecideDevice
<1>16. ASSUME NEW d \in Devices, NEW t \in Tokens, NEW offline \in BOOLEAN, ExchangeDevice(d, t, offline)
       PROVE  ClaimInv'
    BY <1>1, <1>16, Zenon DEF ExchangeDevice
<1>17. CASE UNCHANGED vars
    BY <1>1, <1>17, Zenon DEF vars
<1>18. QED
    BY <1>2, <1>3, <1>4, <1>5, <1>6, <1>7, <1>8, <1>9, <1>10, <1>11, <1>12, <1>13, <1>14, <1>15, <1>16,
       <1>17, ConsentClaim, SilentClaim, Zenon DEF Next

\* For any number of sessions and requests, an interaction is decided once, and by
\* the session that claimed it first.
THEOREM InteractionHasOneDecider == Spec => []ClaimantDecides
<1>1. Init => ClaimInv
  <2> SUFFICES ASSUME Init PROVE ClaimInv
    BY Zenon
  <2>1. /\ \A c \in Codes : codes[c].st = "none" /\ codes[c].via = None
        /\ \A i \in Interactions : interactions[i].st = "none"
    BY Zenon DEF Init, NoCode, NoInteraction
  <2>2. \A i \in Interactions : Issued(i) = {}
    BY <2>1, OidcAssumption, Zenon DEF Issued
  <2>3. QED
    BY <2>1, <2>2, Zenon DEF ClaimInv, ClaimOK, AtMostOne
<1>2. ClaimInv => ClaimantDecides
    BY Zenon DEF ClaimInv, ClaimOK, Issued, ClaimantDecides
<1>3. QED
    BY <1>1, <1>2, ClaimStep, TypeCorrect, PTL DEF Spec

-----------------------------------------------------------------------------
\* What a pushed request has become: a request under way, an interaction or a
\* code issued silently.
Held(p) ==
    {i \in Interactions : interactions[i].push = p}
    \cup {c \in Codes : codes[c].push = p /\ codes[c].via = None}
    \cup {r \in Requests : reqs[r].push = p}

\* A pushed request that was not redeemed has become nothing yet.
PushOK(p) == AtMostOne(Held(p)) /\ (pushed[p] # "gone" => Held(p) = {})

PushInv == \A p \in Pushed : PushOK(p)

\* No pushed request changes hands.
PushKept ==
    /\ \A i \in Interactions : interactions'[i].push = interactions[i].push
    /\ \A c \in Codes : codes'[c].push # None /\ codes'[c].via = None
                        => codes'[c].push = codes[c].push /\ codes[c].via = None
    /\ \A r \in Requests : reqs'[r].push # None => reqs'[r].push = reqs[r].push
    /\ \A p \in Pushed : pushed'[p] # "gone" => pushed[p] # "gone"

\* Then none is redeemed anew.
LEMMA PushStays ==
    ASSUME PushInv, PushKept
    PROVE  PushInv'
<1> SUFFICES ASSUME NEW p \in Pushed PROVE PushOK(p)'
    BY Zenon DEF PushInv
<1>1. PushOK(p) /\ p # None
    BY OidcAssumption, Zenon DEF PushInv
<1>2. Held(p)' \subseteq Held(p)
    BY <1>1, Zenon DEF Held, PushKept
<1>3. QED
    BY <1>1, <1>2, Zenon DEF PushOK, AtMostOne, PushKept

\* A request that ends lets go of its pushed request.
LEMMA DonePush ==
    ASSUME TypeOK, NEW r \in Requests, Done(r)
    PROVE  /\ \A q \in Requests : reqs'[q].push # None => reqs'[q].push = reqs[q].push
           /\ reqs'[r].push = None /\ \A q \in Requests : q # r => reqs'[q] = reqs[q]
<1>1. Idle.push = None
    BY Zenon DEF Idle
<1>2. \A q \in Requests : reqs'[q] = IF q = r THEN Idle ELSE reqs[q]
    BY Zenon DEF Done, TypeOK
<1>3. QED
    BY <1>1, <1>2, Zenon

\* The pushed request passes from the caller to the interaction it starts.
LEMMA StartPush ==
    ASSUME TypeOK, PushInv, NEW r \in Requests, NEW i \in Interactions, StartInteraction(r, i)
    PROVE  PushInv'
<1> SUFFICES ASSUME NEW p \in Pushed PROVE PushOK(p)'
    BY Zenon DEF PushInv
<1>1. PushOK(p) /\ p # None
    BY OidcAssumption, Zenon DEF PushInv
<1>2. pushed' = pushed /\ codes' = codes /\ Done(r)
    BY Zenon DEF StartInteraction
<1>3. interactions'[i].push = reqs[r].push /\ \A j \in Interactions : j # i => interactions'[j] = interactions[j]
    BY Zenon DEF StartInteraction, TypeOK, NoInteraction
<1>4. reqs'[r].push = None /\ \A q \in Requests : q # r => reqs'[q] = reqs[q]
    BY <1>2, DonePush, Zenon
<1>5. CASE reqs[r].push = p
  <2>1. r \in Held(p)
    BY <1>5, Zenon DEF Held
  <2>2. Held(p) = {r} /\ pushed[p] = "gone"
    BY <1>1, <2>1, Zenon DEF PushOK, AtMostOne
  <2>3. Held(p)' \subseteq {i}
    BY <1>1, <1>2, <1>3, <1>4, <2>2, OidcAssumption DEF Held
  <2>4. QED
    BY <1>2, <2>2, <2>3, Zenon DEF PushOK, AtMostOne
<1>6. CASE reqs[r].push # p
  <2>1. Held(p)' \subseteq Held(p)
    BY <1>1, <1>2, <1>3, <1>4, <1>6, Zenon DEF Held
  <2>2. QED
    BY <1>1, <1>2, <2>1, Zenon DEF PushOK, AtMostOne
<1>7. QED
    BY <1>5, <1>6, Zenon

\* The pushed request passes from the caller to the code it is answered with.
LEMMA SilentPush ==
    ASSUME TypeOK, PushInv, NEW r \in Requests, NEW c \in Codes, IssueSilently(r, c)
    PROVE  PushInv'
<1> SUFFICES ASSUME NEW p \in Pushed PROVE PushOK(p)'
    BY Zenon DEF PushInv
<1>1. PushOK(p) /\ p # None
    BY OidcAssumption, Zenon DEF PushInv
<1>2. pushed' = pushed /\ interactions' = interactions /\ Done(r)
    BY Zenon DEF IssueSilently
<1>3. codes'[c].push = reqs[r].push /\ \A d \in Codes : d # c => codes'[d] = codes[d]
    BY Zenon DEF IssueSilently, IssueCode, TypeOK
<1>4. reqs'[r].push = None /\ \A q \in Requests : q # r => reqs'[q] = reqs[q]
    BY <1>2, DonePush, Zenon
<1>5. CASE reqs[r].push = p
  <2>1. r \in Held(p)
    BY <1>5, Zenon DEF Held
  <2>2. Held(p) = {r} /\ pushed[p] = "gone"
    BY <1>1, <2>1, Zenon DEF PushOK, AtMostOne
  <2>3. Held(p)' \subseteq {c}
    BY <1>1, <1>2, <1>3, <1>4, <2>2, OidcAssumption DEF Held
  <2>4. QED
    BY <1>2, <2>2, <2>3, Zenon DEF PushOK, AtMostOne
<1>6. CASE reqs[r].push # p
  <2>1. Held(p)' \subseteq Held(p)
    BY <1>1, <1>2, <1>3, <1>4, <1>6, Zenon DEF Held
  <2>2. QED
    BY <1>1, <1>2, <2>1, Zenon DEF PushOK, AtMostOne
<1>7. QED
    BY <1>5, <1>6, Zenon

\* consumePushedRequest hands a request to the first caller that names it.
LEMMA ResolvePush ==
    ASSUME TypeOK, PushInv, NEW r \in Requests, NEW q \in Pushed \cup {None}, ResolveRequest(r, q)
    PROVE  PushInv'
<1> SUFFICES ASSUME NEW p \in Pushed PROVE PushOK(p)'
    BY Zenon DEF PushInv
<1>1. PushOK(p) /\ p # None
    BY OidcAssumption, Zenon DEF PushInv
<1>2. interactions' = interactions /\ codes' = codes
    BY Zenon DEF ResolveRequest
<1>3. reqs'[r].push = q /\ \A s \in Requests : s # r => reqs'[s] = reqs[s]
    BY Zenon DEF ResolveRequest, TypeOK, Request
<1>4. CASE p = q
  <2>1. pushed[p] = "lodged" /\ pushed'[p] = "gone"
    BY <1>1, <1>4, Zenon DEF ResolveRequest, Consume, TypeOK
  <2>2. Held(p) = {}
    BY <1>1, <2>1, Zenon DEF PushOK
  <2>3. Held(p)' \subseteq {r}
    BY <1>2, <1>3, <2>2, Zenon DEF Held
  <2>4. QED
    BY <2>1, <2>3, Zenon DEF PushOK, AtMostOne
<1>5. CASE p # q
  <2>1. pushed'[p] = pushed[p]
    BY <1>5, Zenon DEF ResolveRequest, Consume, TypeOK
  <2>2. Held(p)' \subseteq Held(p)
    BY <1>2, <1>3, <1>5, Zenon DEF Held
  <2>3. QED
    BY <1>1, <2>1, <2>2, Zenon DEF PushOK, AtMostOne
<1>6. QED
    BY <1>4, <1>5, Zenon

\* Every step hands a pushed request on at most once.
LEMMA PushStep == TypeOK /\ PushInv /\ [Next]_vars => PushInv'
<1> SUFFICES ASSUME TypeOK, PushInv, [Next]_vars PROVE PushInv'
    BY Zenon
<1>0. /\ interactions \in [Interactions -> InteractionRow] /\ reqs \in [Requests -> Request]
      /\ codes \in [Codes -> CodeRow] /\ pushed \in [Pushed -> {"none", "lodged", "gone"}]
    BY Zenon DEF TypeOK
<1>1. ASSUME interactions' = interactions, codes' = codes, pushed' = pushed,
             \A r \in Requests : reqs'[r].push # None => reqs'[r].push = reqs[r].push
      PROVE  PushInv'
  <2>1. PushKept
    BY <1>1, Zenon DEF PushKept
  <2>2. QED
    BY <2>1, PushStays, Zenon
<1>2. ASSUME NEW r \in Requests, NEW s \in SessionOrNone, Arrive(r, s) PROVE PushInv'
  <2>1. \A q \in Requests : reqs'[q].push # None => reqs'[q].push = reqs[q].push
    BY <1>0, <1>2, Zenon DEF Arrive, Idle
  <2>2. QED
    BY <1>1, <1>2, <2>1, Zenon DEF Arrive
<1>3. ASSUME NEW r \in Requests, Drop(r) \/ CheckSilently(r) \/ RevokeGrant(r) PROVE PushInv'
  <2>1. CASE Drop(r) \/ RevokeGrant(r)
    BY <1>1, <2>1, DonePush, Zenon DEF Drop, RevokeGrant
  <2>2. CASE CheckSilently(r)
    <3>1. \A q \in Requests : reqs'[q].push = reqs[q].push
      BY <1>0, <2>2, Zenon DEF CheckSilently, Request
    <3>2. QED
      BY <1>1, <2>2, <3>1, Zenon DEF CheckSilently
  <2>3. QED
    BY <1>3, <2>1, <2>2, Zenon
<1>4. ASSUME NEW s \in Sessions, Logout(s) PROVE PushInv'
    BY <1>1, <1>4, Zenon DEF Logout
<1>5. ASSUME NEW p \in Pushed, PushAuthorizationRequest(p) PROVE PushInv'
  <2>1. \A q \in Pushed : pushed'[q] # "gone" => pushed[q] # "gone"
    BY <1>0, <1>5, Zenon DEF PushAuthorizationRequest
  <2>2. PushKept
    BY <1>5, <2>1, Zenon DEF PushAuthorizationRequest, PushKept
  <2>3. QED
    BY <2>2, PushStays, Zenon
<1>6. ASSUME NEW r \in Requests, NEW i \in Interactions, CompleteLogin(r, i) PROVE PushInv'
  <2>1. \A j \in Interactions : interactions'[j].push = interactions[j].push
    BY <1>0, <1>6, Zenon DEF CompleteLogin, Bind, InteractionRow
  <2>2. PushKept
    BY <1>6, <2>1, DonePush, Zenon DEF CompleteLogin, PushKept
  <2>3. QED
    BY <2>2, PushStays, Zenon
<1>7. ASSUME NEW r \in Requests, NEW i \in Interactions, Reject(r, i) PROVE PushInv'
  <2>1. \A j \in Interactions : interactions'[j].push = interactions[j].push
    BY <1>0, <1>7, Zenon DEF Reject, Decide, InteractionRow
  <2>2. PushKept
    BY <1>7, <2>1, DonePush, Zenon DEF Reject, PushKept
  <2>3. QED
    BY <2>2, PushStays, Zenon
<1>8. ASSUME NEW r \in Requests, NEW i \in Interactions, NEW c \in Codes, NEW remember \in BOOLEAN,
             Consent(r, i, c, remember)
      PROVE  PushInv'
  <2>1. \A j \in Interactions : interactions'[j].push = interactions[j].push
    BY <1>0, <1>8, Zenon DEF Consent, Decide, InteractionRow
  <2>2. codes'[c].via = i /\ \A d \in Codes : d # c => codes'[d] = codes[d]
    BY <1>0, <1>8, Zenon DEF Consent, IssueCode
  <2>3. i # None
    BY OidcAssumption, Zenon
  <2>4. PushKept
    BY <1>8, <2>1, <2>2, <2>3, DonePush, Zenon DEF Consent, PushKept
  <2>5. QED
    BY <2>4, PushStays, Zenon
<1>9. ASSUME NEW c \in Codes, codes' = [codes EXCEPT ![c].st = "consumed"],
             interactions' = interactions, reqs' = reqs, pushed' = pushed
      PROVE  PushInv'
  <2>1. \A d \in Codes : codes'[d].push = codes[d].push /\ codes'[d].via = codes[d].via
    BY <1>0, <1>9, Zenon DEF CodeRow
  <2>2. PushKept
    BY <1>9, <2>1, Zenon DEF PushKept
  <2>3. QED
    BY <2>2, PushStays, Zenon
<1>10. ASSUME NEW c \in Codes, RevokeCode(c) PROVE PushInv'
    BY <1>9, <1>10, Zenon DEF RevokeCode
<1>11. ASSUME NEW c \in Codes, NEW t \in Tokens, NEW offline \in BOOLEAN, ExchangeCode(c, t, offline)
       PROVE  PushInv'
    BY <1>9, <1>11, Zenon DEF ExchangeCode, ConsumeCode
<1>12. ASSUME NEW r \in Requests, NEW t \in Tokens, Spend(r, t) \/ MintRotated(r, t) PROVE PushInv'
  <2>1. CASE MintRotated(r, t)
    BY <1>1, <2>1, DonePush, Zenon DEF MintRotated
  <2>2. CASE Spend(r, t)
    <3>1. \A q \in Requests : reqs'[q].push # None => reqs'[q].push = reqs[q].push
      BY <1>0, <2>2, Zenon DEF Spend, Idle, Request
    <3>2. QED
      BY <1>1, <2>2, <3>1, Zenon DEF Spend
  <2>3. QED
    BY <1>12, <2>1, <2>2, Zenon
<1>13. ASSUME NEW t \in Tokens, Replay(t) \/ RevokeToken(t) PROVE PushInv'
    BY <1>1, <1>13, Zenon DEF Replay, RevokeToken
<1>14. ASSUME NEW d \in Devices, DeviceAuthorization(d) PROVE PushInv'
    BY <1>1, <1>14, Zenon DEF DeviceAuthorization
<1>15. ASSUME NEW r \in Requests, NEW d \in Devices, NEW v \in {"approved", "denied"}, DecideDevice(r, d, v)
       PROVE  PushInv'
    BY <1>1, <1>15, DonePush, Zenon DEF DecideDevice
<1>16. ASSUME NEW d \in Devices, NEW t \in Tokens, NEW offline \in BOOLEAN, ExchangeDevice(d, t, offline)
       PROVE  PushInv'
    BY <1>1, <1>16, Zenon DEF ExchangeDevice
<1>17. CASE UNCHANGED vars
    BY <1>1, <1>17, Zenon DEF vars
<1>18. QED
    BY <1>2, <1>3, <1>4, <1>5, <1>6, <1>7, <1>8, <1>10, <1>11, <1>12, <1>13, <1>14, <1>15, <1>16,
       <1>17, StartPush, SilentPush, ResolvePush, Zenon DEF Next

\* For any number of requests racing for it, a pushed authorization request
\* becomes at most one interaction or silently issued code.
THEOREM PushedRequestUsedOnce == Spec => []PushedOnce
<1>1. Init => PushInv
  <2> SUFFICES ASSUME Init PROVE PushInv
    BY Zenon
  <2>1. /\ \A i \in Interactions : interactions[i].push = None
        /\ \A c \in Codes : codes[c].push = None
        /\ \A r \in Requests : reqs[r].push = None
    BY Zenon DEF Init, NoCode, NoInteraction, Idle
  <2>2. \A p \in Pushed : p # None
    BY OidcAssumption, Zenon
  <2>3. \A p \in Pushed : Held(p) = {}
    BY <2>1, <2>2, Zenon DEF Held
  <2>4. QED
    BY <2>3, Zenon DEF PushInv, PushOK, AtMostOne
<1>2. PushInv => PushedOnce
    BY Zenon DEF PushInv, PushOK, Held, PushedOnce
<1>3. QED
    BY <1>1, <1>2, PushStep, TypeCorrect, PTL DEF Spec
=============================================================================
