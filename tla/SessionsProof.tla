---------------------------- MODULE SessionsProof ----------------------------
(***************************************************************************)
(* Proofs about Sessions, for every set of users, sessions, tokens and     *)
(* environments and every policy: type correctness, at most one redeemable *)
(* core-auth token per session, no unrevoked one on a revoked session, the *)
(* expiry of rows and tokens, that the store implements TokenLease, and    *)
(* that a session that timed out does not come back.                       *)
(***************************************************************************)
EXTENDS Sessions, TLAPS

\* Token rows and owed mints point at what was created before them.
References ==
    /\ \A t \in TokenIds : tokens[t].st \in {"active", "revoked"} =>
          /\ tokens[t].kind \in {"core", "oidc"}
          /\ tokens[t].line \in TokenIds /\ tokens[tokens[t].line].st # "unused"
          /\ tokens[t].user \in Users /\ tokens[t].env \in Envs
          /\ tokens[t].sess \in SessionIds /\ sessions[tokens[t].sess].st # "unused"
    /\ \A s \in SessionIds : Live(s) => sessions[s].user \in Users
    /\ \A o \in owed : /\ sessions[o.sess].st # "unused"
                       /\ o.line \in TokenIds => tokens[o.line].st # "unused"

\* A line of tokens has one redeemable token, or one mint that is owed to it.
Lines ==
    /\ \A t1, t2 \in TokenIds : tokens[t1].st = "active" /\ tokens[t2].st = "active"
                                /\ tokens[t1].line = tokens[t2].line => t1 = t2
    /\ \A o \in owed, t \in TokenIds : tokens[t].st = "active" => tokens[t].line # o.line
    /\ \A o1, o2 \in owed : o1.line = o2.line /\ o1.line \in TokenIds => o1 = o2

Inv == TypeOK /\ References /\ Lines /\ OneActiveToken /\ RevokedSessionHasNoActiveToken

\* The empty tables satisfy the invariant.
LEMMA InitInv == Init => Inv
  BY SessionsAssumption
  DEF Init, Inv, TypeOK, References, Lines, OneActiveToken, RevokedSessionHasNoActiveToken,
      CoreActive, Live,
      SessionRow, TokenRow, Owed, NoSessionRow, NoTokenRow

-----------------------------------------------------------------------------
(* What a step may do to a token row and to a session row *)

\* The row keeps what it says about whose token it is.
SameToken(x) ==
    /\ tokens'[x].kind = tokens[x].kind /\ tokens'[x].line = tokens[x].line
    /\ tokens'[x].sess = tokens[x].sess /\ tokens'[x].user = tokens[x].user /\ tokens'[x].env = tokens[x].env
Falls(x) ==
    \/ tokens'[x] = tokens[x]
    \/ tokens[x].st = "active" /\ tokens'[x].st = "revoked" /\ SameToken(x)
    \/ tokens[x].st \in {"active", "revoked"} /\ tokens'[x].st = "swept"
Issued(x) ==
    /\ tokens[x].st = "unused" /\ tokens'[x].st = "active" /\ tokens'[x].kind \in {"core", "oidc"}
    /\ tokens'[x].line \in TokenIds /\ tokens'[x].user \in Users /\ tokens'[x].env \in Envs
    /\ tokens'[x].sess \in SessionIds

Steady(s) == sessions'[s].st = sessions[s].st /\ sessions'[s].user = sessions[s].user
Ended(s) ==
    /\ Live(s)
    /\ \/ sessions'[s].st = "swept"
       \/ /\ sessions'[s].st = "revoked"
          /\ \A x \in TokenIds : tokens[x].sess = s /\ tokens[x].st = "active" => tokens'[x].st # "active"
Opened(s) == sessions[s].st = "unused" /\ sessions'[s].st = "live" /\ sessions'[s].user \in Users

\* A step in which tokens only fall, but for one that may be issued, preserves
\* the invariant but for Lines.
LEMMA TablesStep ==
    ASSUME Inv, TypeOK', crossed \subseteq crossed', NEW T \in SUBSET TokenIds,
           \A x \in TokenIds : x \notin T => Falls(x),
           \A x \in T : Issued(x) /\ tokens'[tokens'[x].line].st # "unused"
                        /\ sessions'[tokens'[x].sess].st # "unused",
           \A x \in T : tokens'[x].kind = "core" =>
               /\ sessions'[tokens'[x].sess].st = "live"
               /\ \A y \in TokenIds : CoreActive(y)' /\ tokens'[y].sess = tokens'[x].sess =>
                      y = x \/ tokens'[x].sess \in crossed',
           \A s \in SessionIds : Steady(s) \/ Ended(s) \/ Opened(s),
           \A o \in owed' : \/ o \in owed
                            \/ /\ sessions[o.sess].st # "unused"
                               /\ o.line \in TokenIds => tokens[o.line].st # "unused"
    PROVE  References' /\ OneActiveToken' /\ RevokedSessionHasNoActiveToken'
<1>1. \A s \in SessionIds : sessions[s].st # "unused" => sessions'[s].st # "unused"
  BY Zenon DEF Steady, Ended, Opened
<1>2. \A x \in TokenIds : tokens[x].st # "unused" => tokens'[x].st # "unused"
  BY Zenon DEF Falls, Issued
<1>3. \A x \in TokenIds : x \notin T /\ tokens'[x].st \in {"active", "revoked"} =>
         tokens[x].st \in {"active", "revoked"} /\ SameToken(x)
  BY Zenon DEF Falls, SameToken
<1>4. \A x \in TokenIds : x \notin T /\ tokens'[x].st = "active" => tokens[x].st = "active" /\ SameToken(x)
  BY Zenon DEF Falls, SameToken
<1>5. References'
  <2>1. ASSUME NEW t \in TokenIds, tokens'[t].st \in {"active", "revoked"}
        PROVE  /\ tokens'[t].kind \in {"core", "oidc"}
               /\ tokens'[t].line \in TokenIds /\ tokens'[tokens'[t].line].st # "unused"
               /\ tokens'[t].user \in Users /\ tokens'[t].env \in Envs
               /\ tokens'[t].sess \in SessionIds /\ sessions'[tokens'[t].sess].st # "unused"
    <3>1. CASE t \in T BY <3>1, Zenon DEF Issued
    <3>2. CASE t \notin T BY <1>1, <1>2, <1>3, <2>1, <3>2 DEF Inv, References, SameToken
    <3> QED BY <3>1, <3>2, Zenon
  <2>2. ASSUME NEW s \in SessionIds, Live(s)' PROVE sessions'[s].user \in Users
    BY <2>2, Zenon DEF Inv, References, Live, Steady, Ended, Opened
  <2>3. ASSUME NEW o \in owed'
        PROVE  sessions'[o.sess].st # "unused" /\ (o.line \in TokenIds => tokens'[o.line].st # "unused")
    <3>1. o.sess \in SessionIds BY Zenon DEF TypeOK, Owed
    <3> QED BY <1>1, <1>2, <3>1, Zenon DEF Inv, References
  <2> QED BY <2>1, <2>2, <2>3, Zenon DEF References
<1>6. OneActiveToken'
  <2> SUFFICES ASSUME NEW t1 \in TokenIds, NEW t2 \in TokenIds, CoreActive(t1)', CoreActive(t2)',
                      tokens'[t1].sess = tokens'[t2].sess
               PROVE  t1 = t2 \/ tokens'[t1].sess \in crossed'
    BY Zenon DEF OneActiveToken
  <2>1. CASE t1 \in T BY <2>1, Zenon DEF CoreActive
  <2>2. CASE t2 \in T BY <2>2, Zenon DEF CoreActive
  <2>3. CASE t1 \notin T /\ t2 \notin T
    BY <1>4, <2>3 DEF Inv, OneActiveToken, CoreActive, SameToken
  <2> QED BY <2>1, <2>2, <2>3, Zenon
<1>7. RevokedSessionHasNoActiveToken'
  <2> SUFFICES ASSUME NEW t \in TokenIds, CoreActive(t)'
               PROVE  sessions'[tokens'[t].sess].st \in {"live", "swept"}
    BY Zenon DEF RevokedSessionHasNoActiveToken
  <2>1. CASE t \in T BY <2>1, Zenon DEF CoreActive
  <2>2. CASE t \notin T
    <3>1. CoreActive(t) /\ SameToken(t) BY <1>4, <2>2, Zenon DEF CoreActive, SameToken
    <3>2. tokens[t].sess \in SessionIds /\ sessions[tokens[t].sess].st \in {"live", "swept"}
      BY <3>1, Zenon DEF Inv, References, RevokedSessionHasNoActiveToken, CoreActive
    <3>3. Steady(tokens[t].sess) \/ Ended(tokens[t].sess) BY <3>2, Zenon DEF Opened
    <3> QED BY <3>1, <3>2, <3>3, Zenon DEF Steady, Ended, CoreActive, SameToken
  <2> QED BY <2>1, <2>2, Zenon
<1> QED BY <1>5, <1>6, <1>7, Zenon

-----------------------------------------------------------------------------
(* Lines of tokens, and the leases they are *)

\* The leases that are held, their keys, and the keys handed out.
HeldOf == {l \in TokenIds : \/ \E t \in TokenIds : tokens[t].st = "active" /\ tokens[t].line = l
                            \/ \E o \in owed : o.line = l}
KeysOf == [l \in TokenIds |-> {t \in TokenIds : tokens[t].st = "active" /\ tokens[t].line = l}]
IssuedOf == {t \in TokenIds : tokens[t].st # "unused"}

LeaseStep == Lease!LeaseNext \/ UNCHANGED <<HeldOf, KeysOf, IssuedOf>>

\* Where tokens fall, the lines that are left without a token end.
LEMMA FallLines ==
    ASSUME Inv, \A x \in TokenIds : Falls(x), \A o \in owed' : o \in owed \/ o.line = NoToken
    PROVE  Lines' /\ LeaseStep
<1>0. PICK L \in SUBSET HeldOf : L = HeldOf \ HeldOf' BY Zenon
<1>1. \A x \in TokenIds : tokens'[x].st = "active" => tokens[x].st = "active" /\ tokens'[x].line = tokens[x].line
  BY Zenon DEF Falls, SameToken
<1>2. \A x \in TokenIds : tokens[x].st = "active" => tokens[x].line \in TokenIds
  BY Zenon DEF Inv, References
<1>3. NoToken \notin TokenIds BY SessionsAssumption, Zenon
<1>4. Lines' BY <1>1, <1>2, <1>3 DEF Inv, Lines
<1>5. HeldOf' \subseteq HeldOf BY <1>1, <1>3, Zenon DEF HeldOf
<1>6. L \in SUBSET HeldOf /\ HeldOf' = HeldOf \ L BY <1>0, <1>5
<1>7. ASSUME NEW l \in TokenIds PROVE KeysOf'[l] = IF l \in L THEN {} ELSE KeysOf[l]
  <2>1. CASE l \in L
    <3>1. l \notin HeldOf' BY <1>0, <2>1
    <3>2. \A t \in TokenIds : ~(tokens'[t].st = "active" /\ tokens'[t].line = l)
      BY <3>1, Zenon DEF HeldOf
    <3> QED BY <2>1, <3>2, Zenon DEF KeysOf
  <2>2. CASE l \notin L
    <3>1. ASSUME NEW t \in TokenIds, tokens[t].st = "active", tokens[t].line = l
          PROVE  tokens'[t].st = "active" /\ tokens'[t].line = l
      <4>1. l \in HeldOf' BY <1>0, <2>2, <3>1 DEF HeldOf
      <4>2. \A o \in owed' : o.line # l BY <1>3, <3>1, Zenon DEF Inv, Lines
      <4>3. PICK x \in TokenIds : tokens'[x].st = "active" /\ tokens'[x].line = l
        BY <4>1, <4>2, Zenon DEF HeldOf
      <4> QED BY <1>1, <3>1, <4>3, Zenon DEF Inv, Lines
    <3> QED BY <1>1, <2>2, <3>1 DEF KeysOf
  <2> QED BY <2>1, <2>2, Zenon
<1>8. IssuedOf' = IssuedOf BY Zenon DEF IssuedOf, Falls
<1>9. KeysOf' = [l \in TokenIds |-> IF l \in L THEN {} ELSE KeysOf[l]] BY <1>7, Zenon DEF KeysOf
<1>10. Lease!End(L) BY <1>6, <1>8, <1>9, Zenon DEF Lease!End, HeldOf, KeysOf, IssuedOf
<1>11. Lease!LeaseNext BY <1>6, <1>10, Zenon DEF Lease!LeaseNext, HeldOf
<1> QED BY <1>4, <1>11, Zenon DEF LeaseStep

\* A token that begins a line of its own is the first key of a new lease.
LEMMA GrantLines ==
    ASSUME Inv, NEW t \in TokenIds, tokens[t].st = "unused", tokens'[t].st = "active", tokens'[t].line = t,
           \A x \in TokenIds : x # t => Falls(x), \A o \in owed' : o \in owed \/ o.line = NoToken
    PROVE  Lines' /\ LeaseStep
<1>0. PICK L \in SUBSET HeldOf : L = HeldOf \ HeldOf' BY Zenon
<1>1. \A x \in TokenIds : x # t /\ tokens'[x].st = "active" =>
         tokens[x].st = "active" /\ tokens'[x].line = tokens[x].line
  BY Zenon DEF Falls, SameToken
<1>2. \A x \in TokenIds : tokens[x].st = "active" => tokens[x].line \in TokenIds /\ tokens[x].line # t
  BY Zenon DEF Inv, References
<1>3. NoToken \notin TokenIds /\ \A o \in owed' : o.line # t
  BY SessionsAssumption, Zenon DEF Inv, References
<1>4. Lines' BY <1>1, <1>2, <1>3 DEF Inv, Lines
<1>5. t \notin HeldOf /\ t \in HeldOf' /\ \A l \in HeldOf' : l \in HeldOf \/ l = t
  <2>1. t \notin HeldOf BY <1>2, Zenon DEF HeldOf, Inv, References
  <2>2. t \in HeldOf' BY Zenon DEF HeldOf
  <2>3. \A l \in HeldOf' : l \in HeldOf \/ l = t BY <1>1, <1>3 DEF HeldOf
  <2> QED BY <2>1, <2>2, <2>3, Zenon
<1>6. L \in SUBSET HeldOf /\ HeldOf' = (HeldOf \ L) \cup {t} BY <1>0, <1>5
<1>7. ASSUME NEW l \in TokenIds PROVE KeysOf'[l] = IF l = t THEN {t} ELSE IF l \in L THEN {} ELSE KeysOf[l]
  <2>0. CASE l = t
    <3>1. \A x \in TokenIds : tokens'[x].st = "active" /\ tokens'[x].line = t <=> x = t BY <1>1, <1>2, Zenon
    <3> QED BY <2>0, <3>1 DEF KeysOf
  <2>1. CASE l # t /\ l \in L
    <3>1. l \notin HeldOf' BY <1>0, <2>1
    <3>2. \A x \in TokenIds : ~(tokens'[x].st = "active" /\ tokens'[x].line = l)
      BY <3>1, Zenon DEF HeldOf
    <3> QED BY <2>1, <3>2, Zenon DEF KeysOf
  <2>2. CASE l # t /\ l \notin L
    <3>1. ASSUME NEW x \in TokenIds, tokens[x].st = "active", tokens[x].line = l
          PROVE  tokens'[x].st = "active" /\ tokens'[x].line = l
      <4>1. l \in HeldOf' BY <1>0, <2>2, <3>1 DEF HeldOf
      <4>2. \A o \in owed' : o.line # l BY <1>3, <3>1, Zenon DEF Inv, Lines
      <4>3. PICK y \in TokenIds : tokens'[y].st = "active" /\ tokens'[y].line = l
        BY <4>1, <4>2, Zenon DEF HeldOf
      <4> QED BY <1>1, <2>2, <3>1, <4>3, Zenon DEF Inv, Lines
    <3>2. \A x \in TokenIds : tokens'[x].st = "active" /\ tokens'[x].line = l
                              <=> tokens[x].st = "active" /\ tokens[x].line = l
      BY <1>1, <2>2, <3>1, Zenon
    <3> QED BY <2>2, <3>2 DEF KeysOf
  <2> QED BY <2>0, <2>1, <2>2, Zenon
<1>8. t \in TokenIds \ IssuedOf /\ IssuedOf' = IssuedOf \cup {t} BY DEF IssuedOf, Falls
<1>9. KeysOf' = [l \in TokenIds |-> IF l = t THEN {t} ELSE IF l \in L THEN {} ELSE KeysOf[l]]
  BY <1>7, Zenon DEF KeysOf
<1>10. Lease!Grant(L, t) BY <1>6, <1>8, <1>9, Zenon DEF Lease!Grant, HeldOf, KeysOf, IssuedOf
<1>11. Lease!LeaseNext BY <1>6, <1>8, <1>10, Zenon DEF Lease!LeaseNext, HeldOf, IssuedOf
<1> QED BY <1>4, <1>11, Zenon DEF LeaseStep

\* A token that continues the line of a token that falls in the same step, or of
\* a mint that is no longer owed, is the next key of that lease.
LEMMA RenewLines ==
    ASSUME Inv, NEW l \in HeldOf, NEW t \in TokenIds, tokens[t].st = "unused", tokens'[t].st = "active",
           tokens'[t].line = l, \A x \in TokenIds : x # t => Falls(x),
           \A x \in TokenIds : x # t /\ tokens[x].st = "active" =>
               IF tokens[x].line = l THEN tokens'[x].st # "active" ELSE tokens'[x] = tokens[x],
           owed' = {o \in owed : o.line # l}
    PROVE  Lines' /\ LeaseStep
<1>1. \A x \in TokenIds : x # t =>
         (tokens'[x].st = "active" <=> tokens[x].st = "active" /\ tokens[x].line # l)
         /\ (tokens'[x].st = "active" => tokens'[x].line = tokens[x].line)
  BY Zenon DEF Falls, SameToken
<1>2. Lines' BY <1>1 DEF Inv, Lines
<1>0. l \in TokenIds BY Zenon DEF HeldOf
<1>3. HeldOf' = HeldOf
  <2>1. \A m \in TokenIds : m \in HeldOf' <=> m \in HeldOf
    <3>1. ASSUME NEW m \in TokenIds, m # l PROVE m \in HeldOf' <=> m \in HeldOf
      BY <1>1, <3>1 DEF HeldOf
    <3>2. l \in HeldOf' BY Zenon DEF HeldOf
    <3> QED BY <3>1, <3>2, Zenon
  <2> QED BY <2>1 DEF HeldOf
<1>4. ASSUME NEW m \in TokenIds PROVE KeysOf'[m] = IF m = l THEN {t} ELSE KeysOf[m]
  <2>1. CASE m = l
    <3>1. \A x \in TokenIds : tokens'[x].st = "active" /\ tokens'[x].line = l <=> x = t BY <1>1, Zenon
    <3> QED BY <2>1, <3>1 DEF KeysOf
  <2>2. CASE m # l
    <3>1. \A x \in TokenIds : tokens'[x].st = "active" /\ tokens'[x].line = m
                              <=> tokens[x].st = "active" /\ tokens[x].line = m
      BY <1>1, <2>2, Zenon
    <3> QED BY <2>2, <3>1 DEF KeysOf
  <2> QED BY <2>1, <2>2, Zenon
<1>5. t \in TokenIds \ IssuedOf /\ IssuedOf' = IssuedOf \cup {t} BY DEF IssuedOf, Falls
<1>6. KeysOf' = [KeysOf EXCEPT ![l] = {t}]
  <2>1. KeysOf' = [m \in TokenIds |-> IF m = l THEN {t} ELSE KeysOf[m]]
    <3>1. KeysOf' = [m \in TokenIds |-> KeysOf'[m]] BY Zenon DEF KeysOf
    <3> QED BY <1>4, <3>1, Zenon
  <2>2. DOMAIN KeysOf = TokenIds BY Zenon DEF KeysOf
  <2> QED BY <1>0, <2>1, <2>2
<1>7. Lease!Renew(l, t) BY <1>3, <1>5, <1>6, Zenon DEF Lease!Renew, HeldOf, KeysOf, IssuedOf
<1>8. Lease!LeaseNext BY <1>5, <1>7, Zenon DEF Lease!LeaseNext, HeldOf, IssuedOf
<1> QED BY <1>2, <1>8, Zenon DEF LeaseStep

\* Spending a token leaves its line waiting for the next.
LEMMA SpendLines ==
    ASSUME Inv, NEW t \in TokenIds, tokens[t].st = "active", tokens'[t].st = "revoked",
           \A x \in TokenIds : x # t => tokens'[x] = tokens[x],
           NEW o, o.line = tokens[t].line, owed' = owed \cup {o}
    PROVE  Lines' /\ LeaseStep
<1>1. PICK l \in TokenIds : l = tokens[t].line BY Zenon DEF Inv, References
<1>2. \A x \in TokenIds : tokens'[x].st = "active" =>
         x # t /\ tokens'[x] = tokens[x] /\ tokens[x].line # l
  BY <1>1, Zenon DEF Inv, Lines
<1>3. \A p \in owed : p.line # l BY <1>1, Zenon DEF Inv, Lines
<1>4. Lines' BY <1>1, <1>2, <1>3 DEF Inv, Lines
<1>5. HeldOf' = HeldOf
  <2>1. ASSUME NEW m \in TokenIds PROVE m \in HeldOf' <=> m \in HeldOf
    <3>1. CASE m = l BY <1>1, <3>1 DEF HeldOf
    <3>2. CASE m # l BY <1>1, <1>2, <3>2 DEF HeldOf
    <3> QED BY <3>1, <3>2, Zenon
  <2> QED BY <2>1 DEF HeldOf
<1>6. l \in HeldOf BY <1>1, Zenon DEF HeldOf
<1>7. ASSUME NEW m \in TokenIds PROVE KeysOf'[m] = IF m = l THEN {} ELSE KeysOf[m]
  <2>1. CASE m = l BY <1>2, <2>1 DEF KeysOf
  <2>2. CASE m # l
    <3>1. \A x \in TokenIds : tokens'[x].st = "active" /\ tokens'[x].line = m
                              <=> tokens[x].st = "active" /\ tokens[x].line = m
      BY <1>1, <2>2, Zenon
    <3> QED BY <2>2, <3>1 DEF KeysOf
  <2> QED BY <2>1, <2>2, Zenon
<1>8. IssuedOf' = IssuedOf BY DEF IssuedOf
<1>9. KeysOf' = [KeysOf EXCEPT ![l] = {}]
  <2>1. KeysOf' = [m \in TokenIds |-> IF m = l THEN {} ELSE KeysOf[m]] BY <1>7, Zenon DEF KeysOf
  <2>2. DOMAIN KeysOf = TokenIds BY Zenon DEF KeysOf
  <2> QED BY <1>1, <2>1, <2>2
<1>10. Lease!Spend(l) BY <1>5, <1>8, <1>9, Zenon DEF Lease!Spend, HeldOf, KeysOf, IssuedOf
<1>11. Lease!LeaseNext BY <1>6, <1>10, Zenon DEF Lease!LeaseNext, HeldOf
<1> QED BY <1>4, <1>11, Zenon DEF LeaseStep

-----------------------------------------------------------------------------
(* Every step preserves the invariant and is a step of the lease, or of none *)

Good == Inv' /\ LeaseStep

\* A step in which tokens only fall.
LEMMA FallStep ==
    ASSUME Inv, TypeOK', crossed' = crossed, \A x \in TokenIds : Falls(x),
           \A s \in SessionIds : Steady(s) \/ Ended(s),
           \A o \in owed' : o \in owed \/ (sessions[o.sess].st # "unused" /\ o.line = NoToken)
    PROVE  Good
<1>1. Lines' /\ LeaseStep BY FallLines, Zenon
<1>2. NoToken \notin TokenIds BY SessionsAssumption, Zenon
<1>3. \A o \in owed' : \/ o \in owed
                       \/ sessions[o.sess].st # "unused" /\ (o.line \in TokenIds => tokens[o.line].st # "unused")
  BY <1>2, Zenon
<1>4. {} \in SUBSET TokenIds /\ \A x \in {} : FALSE BY Zenon
<1>5. References' /\ OneActiveToken' /\ RevokedSessionHasNoActiveToken'
  BY <1>3, <1>4, TablesStep, Zenon
<1> QED BY <1>1, <1>5, Zenon DEF Good, Inv

\* A step that writes neither table.
LEMMA IdleStep ==
    ASSUME Inv, TypeOK', UNCHANGED <<tokens, crossed>>,
           \A s \in SessionIds : sessions'[s].st = sessions[s].st /\ sessions'[s].user = sessions[s].user,
           \A o \in owed' : o \in owed \/ (sessions[o.sess].st # "unused" /\ o.line = NoToken)
    PROVE  Good
  BY FallStep, Zenon DEF Falls, Steady

\* RefreshHorizon computes a time.
LEMMA HorizonType ==
    ASSUME NEW at \in Nat, NEW created \in Nat, NEW p \in Policy
    PROVE  RefreshHorizon(at, created, p) \in Nat
  BY DEF RefreshHorizon, Policy

\* What the revocation primitive leaves in the two tables.
LEMMA RevokedTables ==
    ASSUME TypeOK, NEW S \in SUBSET SessionIds
    PROVE  /\ RevokedRows(S) \in [SessionIds -> SessionRow]
           /\ RevokedTokens(S) \in [TokenIds -> TokenRow]
           /\ \A s \in SessionIds : /\ s \in S => RevokedRows(S)[s].st = "revoked"
                                    /\ s \notin S => RevokedRows(S)[s] = sessions[s]
           /\ \A t \in TokenIds :
                 \/ RevokedTokens(S)[t] = tokens[t] /\ (tokens[t].st = "active" => tokens[t].sess \notin S)
                 \/ /\ tokens[t].st = "active" /\ RevokedTokens(S)[t].st = "revoked"
                    /\ RevokedTokens(S)[t].kind = tokens[t].kind /\ RevokedTokens(S)[t].line = tokens[t].line
                    /\ RevokedTokens(S)[t].sess = tokens[t].sess /\ RevokedTokens(S)[t].user = tokens[t].user
                    /\ RevokedTokens(S)[t].env = tokens[t].env
<1>1. RevokedRows(S) \in [SessionIds -> SessionRow]
  BY Zenon DEF TypeOK, RevokedRows, NoSessionRow, SessionRow
<1>2. RevokedTokens(S) \in [TokenIds -> TokenRow]
  BY DEF TypeOK, RevokedTokens, TokenRow
<1>3. \A s \in SessionIds : /\ s \in S => RevokedRows(S)[s].st = "revoked"
                            /\ s \notin S => RevokedRows(S)[s] = sessions[s]
  BY Zenon DEF RevokedRows, NoSessionRow
<1>4. ASSUME NEW t \in TokenIds, tokens[t].st = "active", tokens[t].sess \in S
      PROVE  /\ RevokedTokens(S)[t].st = "revoked"
             /\ RevokedTokens(S)[t].kind = tokens[t].kind /\ RevokedTokens(S)[t].line = tokens[t].line
             /\ RevokedTokens(S)[t].sess = tokens[t].sess /\ RevokedTokens(S)[t].user = tokens[t].user
             /\ RevokedTokens(S)[t].env = tokens[t].env
  <2>1. RevokedTokens(S)[t] = [tokens[t] EXCEPT !.st = "revoked"] BY <1>4, Zenon DEF RevokedTokens
  <2>2. tokens[t] \in TokenRow BY Zenon DEF TypeOK
  <2> QED BY <2>1, <2>2, Zenon DEF TokenRow
<1>5. ASSUME NEW t \in TokenIds, ~(tokens[t].st = "active" /\ tokens[t].sess \in S)
      PROVE  RevokedTokens(S)[t] = tokens[t]
  BY <1>5, Zenon DEF RevokedTokens
<1> QED BY <1>1, <1>2, <1>3, <1>4, <1>5, Zenon

\* Revoking any set of live sessions.
LEMMA RevokeStep ==
    ASSUME Inv, NEW S \in SUBSET SessionIds, \A s \in S : Live(s),
           RevokeSessions(S), UNCHANGED <<now, bumps, owed, crossed>>,
           status' \in [Users -> {"active", "barred", "deleted"}]
    PROVE  Good
<1>1. sessions' = RevokedRows(S) /\ tokens' = RevokedTokens(S) /\ TypeOK
  BY Zenon DEF RevokeSessions, Inv
<1>2. TypeOK' BY <1>1, RevokedTables, Zenon DEF TypeOK
<1>3. \A x \in TokenIds : Falls(x) /\ (tokens[x].sess \in S => tokens'[x].st # "active")
  BY <1>1, RevokedTables DEF Falls, SameToken
<1>4. \A s \in SessionIds : Steady(s) \/ Ended(s)
  BY <1>1, <1>3, RevokedTables DEF Steady, Ended
<1> QED BY <1>2, <1>3, <1>4, FallStep, Zenon

\* A revocation that leaves the accounts alone.
LEMMA SignOutStep ==
    ASSUME Inv, NEW S \in SUBSET SessionIds, \A s \in S : Live(s),
           RevokeSessions(S), UNCHANGED <<now, status, bumps, owed, crossed>>
    PROVE  Good
<1>1. status' \in [Users -> {"active", "barred", "deleted"}] BY Zenon DEF Inv, TypeOK
<1> QED BY <1>1, RevokeStep, Zenon

\* Minting a session, after revoking others.
LEMMA MintPreserves ==
    ASSUME Inv, NEW S \in SUBSET SessionIds, \A x \in S : Live(x),
           NEW u \in Users, NEW s \in SessionIds, NEW t \in TokenIds, NEW p \in Policy,
           MintAfterRevoking(S, u, s, t, p), UNCHANGED <<now, status, bumps, owed, crossed>>
    PROVE  Good
<1> DEFINE h == RefreshHorizon(now, now, p)
           R == RevokedRows(S)
           T == RevokedTokens(S)
           row == [st |-> "live", user |-> u, created |-> now, active |-> now, expires |-> h]
           tok == [st |-> "active", kind |-> "core", line |-> t, sess |-> s,
                   user |-> u, env |-> Home[u], expires |-> h]
<1>1. h \in Nat BY HorizonType, Zenon DEF Inv, TypeOK
<1>2. Home[u] \in Envs BY SessionsAssumption, Zenon
<1>3. /\ sessions' = [R EXCEPT ![s] = row]
      /\ tokens' = [T EXCEPT ![t] = tok]
      /\ sessions[s].st = "unused" /\ tokens[t].st = "unused" /\ s \notin S
  BY Zenon DEF MintAfterRevoking, Live
<1>4. row \in SessionRow /\ tok \in TokenRow
  BY <1>1, <1>2, Zenon DEF Inv, TypeOK, SessionRow, TokenRow
<1>5. /\ row.st = "live" /\ row.user = u /\ tok.st = "active" /\ tok.kind = "core" /\ tok.line = t
      /\ tok.sess = s /\ tok.user = u /\ tok.env = Home[u]
  BY Zenon
<1>6. TypeOK BY Zenon DEF Inv
<1> HIDE DEF h, R, T, row, tok
<1>7. R \in [SessionIds -> SessionRow] /\ T \in [TokenIds -> TokenRow]
  BY <1>6, RevokedTables, Zenon DEF R, T
<1>8. TypeOK' BY <1>3, <1>4, <1>6, <1>7, Zenon DEF TypeOK
<1>9. /\ tokens'[t] = tok /\ sessions'[s] = row
      /\ \A x \in TokenIds : x # t => tokens'[x] = T[x]
      /\ \A x \in SessionIds : x # s => sessions'[x] = R[x]
  BY <1>3, <1>7, Zenon
<1>10. \A x \in TokenIds : x # t => Falls(x) /\ (tokens[x].sess \in S => tokens'[x].st # "active")
  BY <1>6, <1>9, RevokedTables DEF T, Falls, SameToken
<1>12. ASSUME NEW x \in SessionIds PROVE Steady(x) \/ Ended(x) \/ Opened(x)
  <2>1. CASE x = s BY <1>3, <1>5, <1>9, <2>1 DEF Opened
  <2>2. CASE x # s /\ x \notin S BY <1>6, <1>9, <2>2, RevokedTables DEF R, Steady
  <2>3. CASE x # s /\ x \in S BY <1>3, <1>6, <1>9, <1>10, <2>3, RevokedTables DEF R, Ended
  <2> QED BY <2>1, <2>2, <2>3, Zenon
<1>13. Issued(t) BY <1>2, <1>3, <1>5, <1>9, Zenon DEF Issued
<1>14. ASSUME NEW y \in TokenIds, CoreActive(y)', tokens'[y].sess = s PROVE y = t
  BY <1>3, <1>10, <1>14, Zenon DEF Inv, References, CoreActive, Falls, SameToken
<1>15. References' /\ OneActiveToken' /\ RevokedSessionHasNoActiveToken'
  <2>1. {t} \in SUBSET TokenIds /\ \A x \in {t} : x = t BY Zenon
  <2>2. tokens'[t].sess = s /\ tokens'[t].line = t /\ tokens'[t].st # "unused" /\ sessions'[s].st = "live"
    BY <1>5, <1>9, Zenon
  <2> QED BY <1>8, <1>10, <1>12, <1>13, <1>14, <2>1, <2>2, TablesStep
<1>16. Lines' /\ LeaseStep BY <1>3, <1>5, <1>9, <1>10, GrantLines, Zenon
<1> QED BY <1>8, <1>15, <1>16, Zenon DEF Good, Inv

\* Rotating a token: the presented token stops being redeemable in the step that
\* makes the next one so.
LEMMA RotationPreserves ==
    ASSUME Inv, NEW t \in TokenIds, NEW t2 \in TokenIds, NEW e \in Envs, NEW x \in Nat,
           Refreshable(t), Rotation(t, t2, e, "revoked", x, x)
    PROVE  Good
<1> DEFINE s == tokens[t].sess
           l == tokens[t].line
           row == [sessions[s] EXCEPT !.active = now, !.expires = x]
           tok == [st |-> "active", kind |-> "core", line |-> l, sess |-> s,
                   user |-> tokens[t].user, env |-> e, expires |-> x]
           old == [tokens[t] EXCEPT !.st = "revoked"]
<1>1. /\ s \in SessionIds /\ Live(s) /\ tokens[t].user \in Users
      /\ l \in TokenIds /\ tokens[l].st # "unused"
      /\ tokens[t].st = "active" /\ tokens[t2].st = "unused" /\ t # t2
      /\ tokens[t].kind \in {"core", "oidc"}
  BY Zenon DEF Inv, References, Refreshable, Rotation
<1>2. TypeOK BY Zenon DEF Inv
<1>3. /\ sessions' = [sessions EXCEPT ![s] = row]
      /\ tokens' = [tokens EXCEPT ![t] = old, ![t2] = tok]
      /\ crossed' = IF tokens[t].kind = "oidc" THEN crossed \cup {s} ELSE crossed
      /\ UNCHANGED <<now, status, bumps, owed>>
  BY <1>1, <1>2, Zenon DEF Rotation, TypeOK, SessionRow, TokenRow
<1>4. /\ row \in SessionRow /\ row.st = "live" /\ row.user = sessions[s].user
      /\ tok \in TokenRow /\ tok.st = "active" /\ tok.kind = "core" /\ tok.line = l
      /\ tok.sess = s /\ tok.user = tokens[t].user /\ tok.env = e
      /\ old \in TokenRow /\ old.st = "revoked" /\ old.kind = tokens[t].kind /\ old.line = l
      /\ old.sess = s /\ old.user = tokens[t].user /\ old.env = tokens[t].env
  <2>1. sessions[s] \in SessionRow /\ tokens[t] \in TokenRow /\ now \in Nat
    BY <1>1, <1>2, Zenon DEF TypeOK
  <2>2. row \in SessionRow /\ row.st = "live" /\ row.user = sessions[s].user
    BY <1>1, <2>1, Zenon DEF SessionRow, Live
  <2>3. /\ tok \in TokenRow /\ tok.st = "active" /\ tok.kind = "core" /\ tok.line = l
        /\ tok.sess = s /\ tok.user = tokens[t].user /\ tok.env = e
    BY <1>1, Zenon DEF TokenRow
  <2>4. /\ old \in TokenRow /\ old.st = "revoked" /\ old.kind = tokens[t].kind /\ old.line = l
        /\ old.sess = s /\ old.user = tokens[t].user /\ old.env = tokens[t].env
    BY <2>1, Zenon DEF TokenRow
  <2> QED BY <2>2, <2>3, <2>4, Zenon
<1> HIDE DEF row, tok, old
<1>5. crossed \subseteq crossed' /\ crossed' \in SUBSET SessionIds /\ (tokens[t].kind = "oidc" => s \in crossed')
  BY <1>1, <1>2, <1>3 DEF TypeOK
<1>6. TypeOK' BY <1>2, <1>3, <1>4, <1>5, Zenon DEF TypeOK
<1>7. /\ tokens'[t] = old /\ tokens'[t2] = tok
      /\ \A y \in TokenIds : y # t /\ y # t2 => tokens'[y] = tokens[y]
      /\ sessions'[s] = row
      /\ \A y \in SessionIds : y # s => sessions'[y] = sessions[y]
  BY <1>1, <1>2, <1>3, Zenon DEF TypeOK
<1>8. \A y \in TokenIds : y # t2 => Falls(y)
  BY <1>1, <1>4, <1>7, Zenon DEF Falls, SameToken
<1>9. \A y \in SessionIds : Steady(y) BY <1>1, <1>4, <1>7, Zenon DEF Live, Steady
<1>10. Issued(t2) BY <1>1, <1>4, <1>7, Zenon DEF Issued
<1>11. ASSUME NEW y \in TokenIds, CoreActive(y)', tokens'[y].sess = s PROVE y = t2 \/ s \in crossed'
  <2>1. CASE y = t BY <1>4, <1>7, <1>11, <2>1, Zenon DEF CoreActive
  <2>2. CASE y # t /\ y # t2
    <3>1. CoreActive(y) /\ tokens[y].sess = s BY <1>7, <1>11, <2>2, Zenon DEF CoreActive
    <3> QED BY <1>1, <1>5, <2>2, <3>1, Zenon DEF Inv, OneActiveToken, CoreActive
  <2> QED BY <2>1, <2>2, Zenon
<1>12. References' /\ OneActiveToken' /\ RevokedSessionHasNoActiveToken'
  <2>1. {t2} \in SUBSET TokenIds /\ \A y \in {t2} : y = t2 BY Zenon
  <2>2. /\ tokens'[t2].sess = s /\ tokens'[t2].line = l /\ sessions'[s].st = "live"
        /\ tokens'[l].st # "unused"
    BY <1>1, <1>4, <1>7, Zenon
  <2> QED BY <1>3, <1>5, <1>6, <1>8, <1>9, <1>10, <1>11, <2>1, <2>2, TablesStep
<1>13. Lines' /\ LeaseStep
  <2>1. l \in HeldOf BY <1>1, Zenon DEF HeldOf
  <2>2. \A y \in TokenIds : y # t2 /\ tokens[y].st = "active" =>
           IF tokens[y].line = l THEN tokens'[y].st # "active" ELSE tokens'[y] = tokens[y]
    BY <1>1, <1>4, <1>7, Zenon DEF Inv, Lines
  <2>3. owed' = {o \in owed : o.line # l} BY <1>1, <1>3 DEF Inv, Lines
  <2> HIDE DEF s, l
  <2> QED BY <1>1, <1>4, <1>7, <1>8, <2>1, <2>2, <2>3, RenewLines, Zenon
<1> QED BY <1>6, <1>12, <1>13, Zenon DEF Good, Inv

\* Signing in, by any of the four paths.
LEMMA MintStep ==
    ASSUME Inv, NEW u \in Users, NEW s \in SessionIds, NEW t \in TokenIds,
           NEW p \in Policies[Home[u]], Mint(u, s, t, p)
    PROVE  Good
<1>1. p \in Policy BY SessionsAssumption, Zenon
<1>2. CASE PasswordSignIn(u, s, t, p)
  BY <1>1, <1>2, MintPreserves, {} \subseteq SessionIds, Zenon DEF PasswordSignIn
<1>3. CASE ProofSignIn(u, s, t, p)
  BY <1>1, <1>3, MintPreserves, {} \subseteq SessionIds, Zenon DEF ProofSignIn
<1>4. CASE ResetPassword(u, s, t, p)
  <2>1. LiveOf(u) \subseteq SessionIds /\ \A x \in LiveOf(u) : Live(x) BY Zenon DEF LiveOf
  <2> QED BY <1>1, <1>4, <2>1, MintPreserves, Zenon DEF ResetPassword
<1>5. CASE \E old \in LiveOf(u) : SwitchGroup(old, s, t, p)
  <2>1. PICK old \in LiveOf(u) : SwitchGroup(old, s, t, p) BY <1>5, Zenon
  <2>2. old \in SessionIds /\ Live(old) /\ sessions[old].user = u BY <2>1, Zenon DEF LiveOf
  <2>3. {old} \subseteq SessionIds /\ \A x \in {old} : Live(x) BY <2>2, Zenon
  <2> QED BY <1>1, <2>1, <2>2, <2>3, MintPreserves, Zenon DEF SwitchGroup
<1> QED BY <1>2, <1>3, <1>4, <1>5, Zenon DEF Mint

\* Presenting a refresh token to core-auth, whatever comes of it.
LEMMA RefreshStep ==
    ASSUME Inv, NEW t \in TokenIds, tokens[t].st \in {"active", "revoked"}, Refresh(t)
    PROVE  Good
<1>1. tokens[t].env \in Envs /\ tokens[t].sess \in SessionIds BY Zenon DEF Inv, References
<1>2. CASE \E p \in Policies[tokens[t].env] : RefreshReused(t, p)
  <2>1. LiveOf(tokens[t].user) \subseteq SessionIds /\ \A x \in LiveOf(tokens[t].user) : Live(x)
    BY Zenon DEF LiveOf
  <2> QED BY <1>2, <2>1, SignOutStep, Zenon DEF RefreshReused
<1>3. CASE \E p \in Policies[tokens[t].env] : RefreshTimedOut(t, p)
  <2>1. {tokens[t].sess} \subseteq SessionIds /\ Live(tokens[t].sess)
    BY <1>1, <1>3, Zenon DEF RefreshTimedOut, Refreshable
  <2> QED BY <1>3, <2>1, SignOutStep, Zenon DEF RefreshTimedOut
<1>4. CASE RefreshDeviceMismatch(t)
  <2>1. {tokens[t].sess} \subseteq SessionIds /\ Live(tokens[t].sess)
    BY <1>1, <1>4, Zenon DEF RefreshDeviceMismatch, Refreshable
  <2> QED BY <1>4, <2>1, SignOutStep, Zenon DEF RefreshDeviceMismatch
<1>5. ASSUME NEW t2 \in TokenIds, NEW e \in Envs, NEW p \in Policies[tokens[t].env],
             NEW q \in Policies[e], RefreshRotate(t, t2, e, p, q)
      PROVE  Good
  <2>1. Refreshable(t) BY <1>5, Zenon DEF RefreshRotate
  <2> DEFINE h == RefreshHorizon(now, sessions[tokens[t].sess].created, q)
  <2>2. q \in Policy BY SessionsAssumption, Zenon
  <2>3. now \in Nat /\ sessions[tokens[t].sess].created \in Nat
    BY <1>1, Zenon DEF Inv, TypeOK, SessionRow
  <2>4. h \in Nat BY <2>2, <2>3, HorizonType, Zenon
  <2>5. Rotation(t, t2, e, "revoked", h, h) BY <1>5, Zenon DEF RefreshRotate
  <2> HIDE DEF h
  <2> QED BY <2>1, <2>4, <2>5, RotationPreserves, Zenon
<1> QED BY <1>2, <1>3, <1>4, <1>5, Zenon DEF Refresh

\* Flagging one token: its row, and every other.
LEMMA FlagToken ==
    ASSUME TypeOK, NEW t \in TokenIds, tokens[t].st = "active", tokens' = [tokens EXCEPT ![t].st = "revoked"]
    PROVE  /\ tokens' \in [TokenIds -> TokenRow] /\ \A x \in TokenIds : Falls(x)
           /\ tokens'[t].st = "revoked" /\ \A x \in TokenIds : x # t => tokens'[x] = tokens[x]
<1> DEFINE old == [tokens[t] EXCEPT !.st = "revoked"]
<1>1. tokens[t] \in TokenRow BY Zenon DEF TypeOK
<1>2. /\ old \in TokenRow /\ old.st = "revoked" /\ old.kind = tokens[t].kind /\ old.line = tokens[t].line
      /\ old.sess = tokens[t].sess /\ old.user = tokens[t].user /\ old.env = tokens[t].env
  BY <1>1, Zenon DEF TokenRow
<1>3. tokens' = [tokens EXCEPT ![t] = old] BY Zenon
<1> HIDE DEF old
<1>4. tokens' \in [TokenIds -> TokenRow] /\ tokens'[t] = old /\ \A x \in TokenIds : x # t => tokens'[x] = tokens[x]
  BY <1>2, <1>3, Zenon DEF TypeOK
<1> QED BY <1>2, <1>4, Zenon DEF Falls, SameToken

\* Signing out, revoking a token, changing the account's status.
LEMMA EndStep ==
    ASSUME Inv, EndSessions
    PROVE  Good
<1>1. ASSUME NEW s \in SessionIds, SignOut(s) PROVE Good
  <2>1. {s} \in SUBSET SessionIds /\ \A x \in {s} : Live(x) BY <1>1, Zenon DEF SignOut
  <2> QED BY <1>1, <2>1, SignOutStep, Zenon DEF SignOut
<1>2. ASSUME NEW u \in Users, NEW keep, SignOutAll(u, keep) PROVE Good
  <2>1. LiveOf(u) \ keep \in SUBSET SessionIds /\ \A x \in LiveOf(u) \ keep : Live(x)
    BY Zenon DEF LiveOf
  <2> QED BY <1>2, <2>1, SignOutStep, Zenon DEF SignOutAll
<1>3. ASSUME NEW t \in TokenIds, RevokeToken(t) PROVE Good
  <2>1. tokens' \in [TokenIds -> TokenRow] /\ \A x \in TokenIds : Falls(x)
    BY <1>3, FlagToken, Zenon DEF RevokeToken, Inv
  <2>2. TypeOK' BY <1>3, <2>1, Zenon DEF Inv, TypeOK, RevokeToken
  <2> QED BY <1>3, <2>1, <2>2, FallStep, Zenon DEF RevokeToken, Steady
<1>4. ASSUME NEW u \in Users, Ban(u) \/ DeleteUser(u) PROVE Good
  <2>1. LiveOf(u) \in SUBSET SessionIds /\ \A x \in LiveOf(u) : Live(x) BY Zenon DEF LiveOf
  <2>2. status' \in [Users -> {"active", "barred", "deleted"}]
    BY <1>4, Zenon DEF Inv, TypeOK, Ban, DeleteUser
  <2> QED BY <1>4, <2>1, <2>2, RevokeStep, Zenon DEF Ban, DeleteUser
<1>5. ASSUME NEW u \in Users, Anonymize(u) \/ Unban(u) PROVE Good
  <2>1. TypeOK' BY <1>5, Zenon DEF Inv, TypeOK, Anonymize, Unban
  <2>2. UNCHANGED <<sessions, tokens, owed, crossed>> BY <1>5, Zenon DEF Anonymize, Unban
  <2> QED BY <2>1, <2>2, IdleStep, Zenon
<1>6. ASSUME NEW u \in Users, PurgeUser(u) PROVE Good
  <2>1. PICK S \in SUBSET SessionIds : S = LiveOf(u) BY Zenon DEF LiveOf
  <2>2. /\ TypeOK /\ sessions' = RevokedRows(S) /\ crossed' = crossed /\ owed' = owed
        /\ tokens' = [t \in TokenIds |->
               IF tokens[t].st \in {"active", "revoked"} /\ tokens[t].user = u /\ tokens[t].env = Home[u]
               THEN NoTokenRow("swept") ELSE RevokedTokens(S)[t]]
    BY <1>6, <2>1, Zenon DEF PurgeUser, Inv
  <2>3. NoTokenRow("swept") \in TokenRow /\ NoTokenRow("swept").st = "swept"
    BY Zenon DEF TokenRow, NoTokenRow
  <2>4. sessions' \in [SessionIds -> SessionRow] /\ tokens' \in [TokenIds -> TokenRow]
    BY <2>2, <2>3, RevokedTables, Zenon
  <2>5. TypeOK' BY <1>6, <2>4, Zenon DEF Inv, TypeOK, PurgeUser
  <2>6. ASSUME NEW x \in TokenIds PROVE Falls(x) /\ (tokens[x].sess \in S => tokens'[x].st # "active")
    <3>1. CASE tokens[x].st \in {"active", "revoked"} /\ tokens[x].user = u /\ tokens[x].env = Home[u]
      BY <2>2, <2>3, <3>1, Zenon DEF Falls
    <3>2. CASE ~(tokens[x].st \in {"active", "revoked"} /\ tokens[x].user = u /\ tokens[x].env = Home[u])
      <4>1. tokens'[x] = RevokedTokens(S)[x] BY <2>2, <3>2, Zenon
      <4> QED BY <2>2, <4>1, RevokedTables DEF Falls, SameToken
    <3> QED BY <3>1, <3>2, Zenon
  <2>7. \A s \in SessionIds : Steady(s) \/ Ended(s)
    BY <2>1, <2>2, <2>6, RevokedTables DEF Steady, Ended, LiveOf
  <2> QED BY <2>2, <2>5, <2>6, <2>7, FallStep, Zenon
<1> QED BY <1>1, <1>2, <1>3, <1>4, <1>5, <1>6, Zenon DEF EndSessions

\* The token endpoint of the OIDC provider: issuing, spending, minting,
\* forgetting and replaying.
LEMMA OidcStep ==
    ASSUME Inv, OidcTokens
    PROVE  Good
<1>1. TypeOK BY Zenon DEF Inv
<1>2. ASSUME NEW s \in SessionIds, NEW e \in Envs, IssueCode(s, e) PROVE Good
  <2> DEFINE o == [sess |-> s, user |-> sessions[s].user, env |-> e, line |-> NoToken]
  <2>1. sessions[s].st = "live" /\ sessions[s].user \in Users
    BY <1>2, Zenon DEF IssueCode, Inv, References, Live
  <2>2. o \in Owed /\ o.sess = s /\ o.line = NoToken BY <2>1, Zenon DEF Owed
  <2>3. owed' = owed \cup {o} /\ UNCHANGED <<now, status, sessions, tokens, bumps, crossed>>
    BY <1>2, Zenon DEF IssueCode
  <2> HIDE DEF o
  <2>4. TypeOK' BY <1>1, <2>2, <2>3 DEF TypeOK
  <2>5. \A x \in owed' : x \in owed \/ x = o BY <2>3, Zenon
  <2> QED BY <2>1, <2>2, <2>3, <2>4, <2>5, IdleStep
<1>3. ASSUME NEW t \in TokenIds, SpendOidc(t) PROVE Good
  <2> DEFINE o == [sess |-> tokens[t].sess, user |-> tokens[t].user, env |-> tokens[t].env, line |-> tokens[t].line]
  <2>1. /\ tokens[t].st = "active" /\ tokens[t].sess \in SessionIds /\ tokens[t].user \in Users
        /\ tokens[t].env \in Envs /\ sessions[tokens[t].sess].st # "unused"
        /\ tokens[t].line \in TokenIds /\ tokens[tokens[t].line].st # "unused"
    BY <1>3, Zenon DEF SpendOidc, Inv, References
  <2>2. o \in Owed /\ o.sess = tokens[t].sess /\ o.line = tokens[t].line BY <2>1, Zenon DEF Owed
  <2>3. /\ tokens' = [tokens EXCEPT ![t].st = "revoked"]
        /\ owed' = owed \cup {o} /\ UNCHANGED <<now, status, sessions, bumps, crossed>>
    BY <1>3, Zenon DEF SpendOidc
  <2> HIDE DEF o
  <2>4. /\ tokens' \in [TokenIds -> TokenRow] /\ \A x \in TokenIds : Falls(x)
        /\ tokens'[t].st = "revoked" /\ \A x \in TokenIds : x # t => tokens'[x] = tokens[x]
    BY <1>1, <2>1, <2>3, FlagToken, Zenon
  <2>5. TypeOK' BY <1>1, <2>2, <2>3, <2>4 DEF TypeOK
  <2>6. Lines' /\ LeaseStep BY <2>1, <2>2, <2>3, <2>4, SpendLines, Zenon
  <2>7. References' /\ OneActiveToken' /\ RevokedSessionHasNoActiveToken'
    <3>1. {} \in SUBSET TokenIds /\ (\A x \in {} : FALSE) /\ \A s \in SessionIds : Steady(s)
      BY <2>3, Zenon DEF Steady
    <3>2. \A x \in owed' : x \in owed \/ x = o BY <2>3, Zenon
    <3>3. \A x \in owed' : \/ x \in owed
                           \/ /\ sessions[x.sess].st # "unused"
                              /\ x.line \in TokenIds => tokens[x.line].st # "unused"
      BY <2>1, <2>2, <3>2
    <3> QED BY <2>3, <2>4, <2>5, <3>1, <3>3, TablesStep, Zenon
  <2> QED BY <2>5, <2>6, <2>7, Zenon DEF Good, Inv
<1>4. ASSUME NEW t \in TokenIds, ReplayOidc(t) PROVE Good
  <2>1. PICK S \in SUBSET SessionIds : S = {tokens[t].sess}
    BY <1>4, Zenon DEF ReplayOidc, Inv, References
  <2>2. tokens' = RevokedTokens(S) /\ UNCHANGED <<now, status, sessions, bumps, owed, crossed>>
    BY <1>4, <2>1, Zenon DEF ReplayOidc
  <2>3. TypeOK' BY <1>1, <2>2, RevokedTables, Zenon DEF TypeOK
  <2>4. \A x \in TokenIds : Falls(x) BY <1>1, <2>2, RevokedTables DEF Falls, SameToken
  <2> QED BY <2>2, <2>3, <2>4, FallStep, Zenon DEF Steady
<1>5. ASSUME NEW o \in owed, ForgetOidc(o) PROVE Good
  <2>1. TypeOK' BY <1>1, <1>5, Zenon DEF TypeOK, ForgetOidc
  <2> QED BY <1>5, <2>1, IdleStep, Zenon DEF ForgetOidc
<1>6. ASSUME NEW o \in owed, NEW t \in TokenIds, NEW ttl \in OidcTTLs, MintOidc(o, t, ttl) PROVE Good
  <2> DEFINE tok == [st |-> "active", kind |-> "oidc", line |-> IF o.line = NoToken THEN t ELSE o.line,
                     sess |-> o.sess, user |-> o.user, env |-> o.env, expires |-> now + ttl]
  <2>1. /\ o.sess \in SessionIds /\ o.user \in Users /\ o.env \in Envs /\ o.line \in TokenIds \cup {NoToken}
        /\ sessions[o.sess].st # "unused" /\ (o.line \in TokenIds => tokens[o.line].st # "unused")
    BY <1>1, Zenon DEF Inv, References, TypeOK, Owed
  <2>2. now + ttl \in Nat BY <1>1, SessionsAssumption DEF TypeOK
  <2>3. NoToken \notin TokenIds BY SessionsAssumption, Zenon
  <2>4. /\ tok \in TokenRow /\ tok.st = "active" /\ tok.kind = "oidc"
        /\ tok.line = (IF o.line = NoToken THEN t ELSE o.line)
        /\ tok.sess = o.sess /\ tok.user = o.user /\ tok.env = o.env
    BY <2>1, <2>2, Zenon DEF TokenRow
  <2>5. /\ tokens[t].st = "unused" /\ tokens' = [tokens EXCEPT ![t] = tok]
        /\ owed' = IF o.line = NoToken THEN owed ELSE owed \ {o}
        /\ UNCHANGED <<now, status, sessions, bumps, crossed>>
    BY <1>6, Zenon DEF MintOidc
  <2> HIDE DEF tok
  <2>6. owed' \subseteq owed BY <2>5, Zenon
  <2>7. TypeOK' BY <1>1, <2>4, <2>5, <2>6, Zenon DEF TypeOK
  <2>8. tokens'[t] = tok /\ \A x \in TokenIds : x # t => tokens'[x] = tokens[x] /\ Falls(x)
    BY <1>1, <2>5, Zenon DEF TypeOK, Falls
  <2>9. tokens'[t].line \in TokenIds /\ tokens'[tokens'[t].line].st # "unused"
    BY <2>1, <2>3, <2>4, <2>8
  <2>10. Issued(t) BY <2>1, <2>4, <2>5, <2>8, <2>9, Zenon DEF Issued
  <2>11. References' /\ OneActiveToken' /\ RevokedSessionHasNoActiveToken'
    <3>1. {t} \in SUBSET TokenIds /\ (\A x \in {t} : x = t) /\ \A s \in SessionIds : Steady(s)
      BY <2>5, Zenon DEF Steady
    <3>2. tokens'[t].kind = "oidc" /\ sessions'[tokens'[t].sess].st # "unused" BY <2>1, <2>4, <2>5, <2>8, Zenon
    <3> QED BY <2>5, <2>6, <2>7, <2>8, <2>9, <2>10, <3>1, <3>2, TablesStep
  <2>12. CASE o.line = NoToken
    <3>1. tokens'[t].st = "active" /\ tokens'[t].line = t BY <2>4, <2>8, <2>12, Zenon
    <3>2. Lines' /\ LeaseStep BY <2>5, <2>6, <2>8, <3>1, GrantLines, Zenon
    <3> QED BY <2>7, <2>11, <3>2, Zenon DEF Good, Inv
  <2>13. CASE o.line # NoToken
    <3>1. tokens'[t].st = "active" /\ tokens'[t].line = o.line /\ o.line \in HeldOf
      BY <2>1, <2>4, <2>8, <2>13 DEF HeldOf
    <3>2. owed' = {x \in owed : x.line # o.line} BY <2>1, <2>5, <2>13 DEF Inv, Lines
    <3>3. \A x \in TokenIds : x # t /\ tokens[x].st = "active" =>
             IF tokens[x].line = o.line THEN tokens'[x].st # "active" ELSE tokens'[x] = tokens[x]
      BY <2>8, Zenon DEF Inv, Lines
    <3>4. Lines' /\ LeaseStep BY <2>5, <2>8, <3>1, <3>2, <3>3, RenewLines, Zenon
    <3> QED BY <2>7, <2>11, <3>4, Zenon DEF Good, Inv
  <2> QED BY <2>12, <2>13, Zenon
<1> QED BY <1>2, <1>3, <1>4, <1>5, <1>6, Zenon DEF OidcTokens

\* Writing two timestamps of a live session row.
LEMMA TimestampStep ==
    ASSUME Inv, NEW s \in SessionIds, NEW a \in Nat, NEW x \in Nat, NEW B \in SUBSET bumps,
           sessions' = [sessions EXCEPT ![s] = [sessions[s] EXCEPT !.active = a, !.expires = x]],
           bumps' = B, UNCHANGED <<now, status, tokens, owed, crossed>>
    PROVE  Good
<1> DEFINE row == [sessions[s] EXCEPT !.active = a, !.expires = x]
<1>1. row \in SessionRow /\ row.st = sessions[s].st /\ row.user = sessions[s].user
  BY Zenon DEF Inv, TypeOK, SessionRow
<1>2. sessions' = [sessions EXCEPT ![s] = row] BY Zenon
<1> HIDE DEF row
<1>3. TypeOK' BY <1>1, <1>2, Zenon DEF Inv, TypeOK
<1>4. \A y \in SessionIds : sessions'[y].st = sessions[y].st /\ sessions'[y].user = sessions[y].user
  BY <1>1, <1>2, Zenon DEF Inv, TypeOK
<1> QED BY <1>3, <1>4, IdleStep, Zenon

\* The authenticator's two steps.
LEMMA ActivityStep ==
    ASSUME Inv, Activity
    PROVE  Good
<1>1. ASSUME NEW s \in SessionIds, NEW p, Authenticate(s, p) PROVE Good
  <2>1. TypeOK' BY <1>1 DEF Inv, TypeOK, Authenticate
  <2>2. UNCHANGED <<sessions, tokens, owed, crossed>> BY <1>1, Zenon DEF Authenticate
  <2> QED BY <2>1, <2>2, IdleStep, Zenon
<1>2. ASSUME NEW b \in bumps, BumpLastActive(b) PROVE Good
  <2>1. b.sess \in SessionIds /\ b.at \in Nat BY Zenon DEF Inv, TypeOK
  <2>2. bumps \ {b} \in SUBSET bumps BY Zenon
  <2>3. CASE Live(b.sess)
    <3>1. sessions[b.sess] \in SessionRow BY <2>1, Zenon DEF Inv, TypeOK
    <3>2. [sessions[b.sess] EXCEPT !.active = b.at]
            = [sessions[b.sess] EXCEPT !.active = b.at, !.expires = sessions[b.sess].expires]
      BY <3>1, Zenon DEF SessionRow
    <3>3. sessions[b.sess].expires \in Nat BY <3>1, Zenon DEF SessionRow
    <3> QED BY <1>2, <2>1, <2>2, <2>3, <3>2, <3>3, TimestampStep, Zenon DEF BumpLastActive
  <2>4. CASE ~Live(b.sess)
    <3>1. TypeOK' BY <1>2, <2>4, Zenon DEF Inv, TypeOK, BumpLastActive
    <3>2. UNCHANGED <<sessions, tokens, owed, crossed>> BY <1>2, <2>4, Zenon DEF BumpLastActive
    <3> QED BY <3>1, <3>2, IdleStep, Zenon
  <2> QED BY <2>3, <2>4, Zenon
<1> QED BY <1>1, <1>2, Zenon DEF Activity

\* Renaming and trusting.
LEMMA EditStep ==
    ASSUME Inv, EditNext
    PROVE  Good
<1>1. ASSUME NEW s \in SessionIds, RenameSession(s) PROVE Good
  <2>1. sessions[s] \in SessionRow /\ now \in Nat BY Zenon DEF Inv, TypeOK
  <2>2. [sessions[s] EXCEPT !.active = now]
          = [sessions[s] EXCEPT !.active = now, !.expires = sessions[s].expires]
    BY <2>1, Zenon DEF SessionRow
  <2>3. sessions[s].expires \in Nat BY <2>1, Zenon DEF SessionRow
  <2> QED BY <1>1, <2>1, <2>2, <2>3, TimestampStep, Zenon DEF RenameSession
<1>2. ASSUME NEW s \in SessionIds, NEW d \in TrustDurations, TrustSession(s, d) PROVE Good
  <2>1. sessions[s] \in SessionRow /\ now + d \in Nat BY SessionsAssumption DEF Inv, TypeOK
  <2>2. [sessions[s] EXCEPT !.expires = now + d]
          = [sessions[s] EXCEPT !.active = sessions[s].active, !.expires = now + d]
    BY <2>1, Zenon DEF SessionRow
  <2>3. sessions[s].active \in Nat BY <2>1, Zenon DEF SessionRow
  <2> QED BY <1>2, <2>1, <2>2, <2>3, TimestampStep, Zenon DEF TrustSession
<1> QED BY <1>1, <1>2, Zenon DEF EditNext

\* The collector's two statements.
LEMMA GcStep ==
    ASSUME Inv, Gc
    PROVE  Good
<1>1. CASE GcSessions
  <2>1. NoSessionRow("swept") \in SessionRow /\ NoSessionRow("swept").st = "swept"
    BY Zenon DEF SessionRow, NoSessionRow
  <2>2. TypeOK' BY <1>1, <2>1, Zenon DEF Inv, TypeOK, GcSessions
  <2>3. \A s \in SessionIds : Steady(s) \/ Ended(s)
    BY <1>1, <2>1, Zenon DEF GcSessions, ExpiredSessions, Steady, Ended
  <2> QED BY <1>1, <2>2, <2>3, FallStep, Zenon DEF GcSessions, Falls
<1>2. CASE GcTokens
  <2>1. NoTokenRow("swept") \in TokenRow /\ NoTokenRow("swept").st = "swept"
    BY Zenon DEF TokenRow, NoTokenRow
  <2>2. TypeOK' BY <1>2, <2>1, Zenon DEF Inv, TypeOK, GcTokens
  <2>3. \A t \in TokenIds : Falls(t)
    BY <1>2, <2>1, Zenon DEF GcTokens, ExpiredTokens, Falls
  <2> QED BY <1>2, <2>2, <2>3, FallStep, Zenon DEF GcTokens, Steady
<1> QED BY <1>1, <1>2, Zenon DEF Gc

\* Every step of the store preserves the invariant, and is a step of the lease
\* or of none.
LEMMA NextGood ==
    ASSUME Inv, [Next]_vars
    PROVE  Good
<1>1. CASE UNCHANGED vars
  <2>1. TypeOK' BY <1>1, Zenon DEF vars, Inv, TypeOK
  <2> QED BY <1>1, <2>1, IdleStep, Zenon DEF vars
<1>2. CASE Tick
  <2>1. TypeOK' BY <1>2 DEF Inv, TypeOK, Tick
  <2> QED BY <1>2, <2>1, IdleStep, Zenon DEF Tick
<1>3. CASE \E u \in Users, s \in SessionIds, t \in TokenIds : \E p \in Policies[Home[u]] : Mint(u, s, t, p)
  BY <1>3, MintStep, Zenon
<1>4. CASE \E t \in TokenIds : tokens[t].st \in {"active", "revoked"} /\ Refresh(t)
  BY <1>4, RefreshStep, Zenon
<1>5. CASE EndSessions BY <1>5, EndStep, Zenon
<1>6. CASE OidcTokens BY <1>6, OidcStep, Zenon
<1>7. CASE Activity BY <1>7, ActivityStep, Zenon
<1>8. CASE Gc BY <1>8, GcStep, Zenon
<1>9. CASE EditNext BY <1>9, EditStep, Zenon
<1> QED BY <1>1, <1>2, <1>3, <1>4, <1>5, <1>6, <1>7, <1>8, <1>9, Zenon DEF Next, CoreNext

\* The inductive invariant holds in every state of every behaviour.
THEOREM Invariance == Spec => []Inv
<1>1. Init => Inv BY InitInv, Zenon
<1>2. Inv /\ [Next]_vars => Inv' BY NextGood, Zenon DEF Good
<1> QED BY <1>1, <1>2, PTL DEF Spec

\* The tables keep their shape under every handler.
THEOREM TypeCorrect == Spec => []TypeOK
<1>1. Inv => TypeOK BY Zenon DEF Inv
<1> QED BY <1>1, Invariance, PTL

\* A session never has two redeemable core-auth refresh tokens, whatever
\* sign-ins, refreshes, revocations and collections interleave, unless an OIDC
\* token of it was presented to core Refresh.
THEOREM AtMostOneActiveToken == Spec => []OneActiveToken
<1>1. Inv => OneActiveToken BY Zenon DEF Inv
<1> QED BY <1>1, Invariance, PTL

\* revokeSessionRecord leaves no unrevoked core-auth token behind, and no later
\* handler issues one for a revoked session.
THEOREM RevocationIsComplete == Spec => []RevokedSessionHasNoActiveToken
<1>1. Inv => RevokedSessionHasNoActiveToken BY Zenon DEF Inv
<1> QED BY <1>1, Invariance, PTL

\* The token store keeps the promise of TokenLease for every set of users,
\* sessions, tokens and policies: whichever endpoint a token is presented to, a
\* line of tokens has at most one redeemable one, each fresh, and once the line
\* has ended it has none ever again.
THEOREM StoreImplementsLease == Spec => ImplementsLease
<1>1. Init => Lease!LeaseInit
  <2> SUFFICES ASSUME Init PROVE Lease!LeaseInit BY Zenon
  <2>1. owed = {} /\ \A t \in TokenIds : tokens[t].st = "unused" BY Zenon DEF Init, NoTokenRow
  <2> QED BY <2>1, Zenon DEF Lease!LeaseInit
<1>2. Inv /\ [Next]_vars => [Lease!LeaseNext]_(Lease!leaseVars)
  BY NextGood, Zenon DEF Good, LeaseStep, HeldOf, KeysOf, IssuedOf, Lease!leaseVars
<1> QED BY <1>1, <1>2, Invariance, PTL DEF Spec, ImplementsLease, Lease!LeaseSpec

-----------------------------------------------------------------------------
(* The expiry of rows and tokens, for the handlers of CoreNext *)

\* A row the collector removed under an unrevoked core-auth token took an
\* expired token with it.
SweptTokenHasExpired ==
    \A t \in TokenIds : CoreActive(t) /\ sessions[tokens[t].sess].st = "swept" =>
        tokens[t].expires < now \/ tokens[t].sess \in crossed

Expiry == HorizonAgreement /\ AbsoluteDeadline /\ SweptTokenHasExpired

\* Steps that extend no expiry: revocations, activity, collection, time, and
\* what the OIDC provider does.
LEMMA ExpiryFrame ==
    ASSUME Inv, Expiry, Inv', now <= now', crossed' = crossed,
           \A s \in SessionIds : Live(s)' =>
               Live(s) /\ sessions'[s].expires = sessions[s].expires /\ sessions'[s].created = sessions[s].created,
           \A s \in SessionIds : sessions'[s].st = "swept" =>
               sessions[s].st = "swept" \/ (Live(s) /\ sessions[s].expires < now),
           \A t \in TokenIds : CoreActive(t)' => tokens'[t] = tokens[t]
    PROVE  Expiry'
<1>1. \A t \in TokenIds : CoreActive(t)' => CoreActive(t) /\ tokens[t].sess \in SessionIds /\ tokens[t].expires \in Nat
  BY Zenon DEF Inv, References, TypeOK, TokenRow, CoreActive
<1>2. now \in Nat /\ now' \in Nat BY Zenon DEF Inv, TypeOK
<1>3. HorizonAgreement' BY <1>1 DEF Expiry, HorizonAgreement, Live
<1>4. AbsoluteDeadline' BY Zenon DEF Expiry, AbsoluteDeadline, Live
<1>5. SweptTokenHasExpired'
  BY <1>1, <1>2 DEF Expiry, HorizonAgreement, SweptTokenHasExpired, Live
<1> QED BY <1>3, <1>4, <1>5, Zenon DEF Expiry

\* Revoking sessions extends no expiry.
LEMMA RevokeExpiry ==
    ASSUME Inv, Expiry, Inv', NEW S \in SUBSET SessionIds, sessions' = RevokedRows(S),
           \A t \in TokenIds : CoreActive(t)' => tokens'[t] = RevokedTokens(S)[t], UNCHANGED <<now, crossed>>
    PROVE  Expiry'
<1>1. \A s \in SessionIds : sessions'[s].st = "revoked" \/ sessions'[s] = sessions[s]
  BY RevokedTables DEF Inv
<1>2. \A t \in TokenIds : CoreActive(t)' => tokens'[t] = tokens[t]
  BY RevokedTables DEF Inv, CoreActive
<1>3. now <= now' BY DEF Inv, TypeOK
<1> QED BY <1>1, <1>2, <1>3, ExpiryFrame, Zenon DEF Live

\* The horizon respects the policy's absolute deadline.
LEMMA HorizonBound ==
    ASSUME NEW at \in Nat, NEW created \in Nat, NEW p \in Policy
    PROVE  p.absolute = 0 \/ RefreshHorizon(at, created, p) <= created + p.absolute
  BY DEF RefreshHorizon, Policy

\* A minted session and its token share one expiry, under the deadline.
LEMMA MintExpiry ==
    ASSUME Inv, Expiry, Inv', NEW S \in SUBSET SessionIds,
           NEW u \in Users, NEW s \in SessionIds, NEW t \in TokenIds, NEW p \in Policies[Home[u]],
           MintAfterRevoking(S, u, s, t, p), UNCHANGED <<now, crossed>>
    PROVE  Expiry'
<1> DEFINE h == RefreshHorizon(now, now, p)
           R == RevokedRows(S)
           T == RevokedTokens(S)
           row == [st |-> "live", user |-> u, created |-> now, active |-> now, expires |-> h]
           tok == [st |-> "active", kind |-> "core", line |-> t, sess |-> s,
                   user |-> u, env |-> Home[u], expires |-> h]
<1>1. p \in Policy /\ Home[u] \in Envs /\ now \in Nat BY SessionsAssumption, Zenon DEF Inv, TypeOK
<1>2. /\ sessions' = [R EXCEPT ![s] = row]
      /\ tokens' = [T EXCEPT ![t] = tok]
      /\ sessions[s].st = "unused"
  BY Zenon DEF MintAfterRevoking
<1>3. p.absolute = 0 \/ h <= now + p.absolute BY <1>1, HorizonBound, Zenon
<1>4. row.st = "live" /\ row.created = now /\ row.expires = h /\ tok.sess = s /\ tok.expires = h
  BY Zenon
<1> HIDE DEF h, R, T, row, tok
<1>5. R \in [SessionIds -> SessionRow] /\ T \in [TokenIds -> TokenRow]
  BY RevokedTables, Zenon DEF R, T, Inv
<1>6. /\ sessions'[s] = row
      /\ \A x \in SessionIds : x # s => sessions'[x].st = "revoked" \/ sessions'[x] = sessions[x]
  BY <1>2, <1>5, RevokedTables DEF R, Inv
<1>7. /\ tokens'[t] = tok
      /\ \A x \in TokenIds : x # t /\ CoreActive(x)' =>
            CoreActive(x) /\ tokens'[x] = tokens[x] /\ tokens[x].sess \in SessionIds /\ tokens[x].sess # s
  <2>1. \A x \in TokenIds : T[x].st = "active" => T[x] = tokens[x] BY RevokedTables DEF T, Inv
  <2>2. \A x \in TokenIds : tokens[x].st = "active" => tokens[x].sess \in SessionIds /\ tokens[x].sess # s
    BY <1>2, Zenon DEF Inv, References
  <2> QED BY <1>2, <1>5, <2>1, <2>2, Zenon DEF CoreActive
<1>8. HorizonAgreement'
  BY <1>4, <1>6, <1>7 DEF Expiry, HorizonAgreement, Live
<1>9. AbsoluteDeadline'
  BY <1>1, <1>3, <1>4, <1>6 DEF Expiry, AbsoluteDeadline, Live
<1>10. SweptTokenHasExpired'
  BY <1>4, <1>6, <1>7 DEF Expiry, SweptTokenHasExpired
<1> QED BY <1>8, <1>9, <1>10, Zenon DEF Expiry

\* A rotation moves the row's expiry together with the token's.
LEMMA RotationExpiry ==
    ASSUME Inv, Expiry, Inv', NEW t \in TokenIds, NEW t2 \in TokenIds, NEW e \in Envs, NEW p \in Policies[tokens[t].env],
           NEW q \in Policies[e], RefreshRotate(t, t2, e, p, q)
    PROVE  Expiry'
<1> DEFINE s == tokens[t].sess
           x == RefreshHorizon(now, sessions[s].created, q)
           row == [sessions[s] EXCEPT !.active = now, !.expires = x]
           tok == [st |-> "active", kind |-> "core", line |-> tokens[t].line, sess |-> s,
                   user |-> tokens[t].user, env |-> e, expires |-> x]
           old == [tokens[t] EXCEPT !.st = "revoked"]
<1>1. /\ s \in SessionIds /\ Live(s) /\ tokens[t].st = "active" /\ tokens[t2].st = "unused" /\ t # t2
  BY Zenon DEF Inv, References, RefreshRotate, Refreshable, Rotation
<1>2. q \in Policy /\ now \in Nat /\ sessions[s] \in SessionRow /\ tokens[t] \in TokenRow
  BY <1>1, SessionsAssumption, Zenon DEF Inv, TypeOK
<1>3. sessions[s].created \in Nat BY <1>2, Zenon DEF SessionRow
<1>4. q.absolute = 0 \/ x <= sessions[s].created + q.absolute BY <1>2, <1>3, HorizonBound, Zenon
<1>5. /\ sessions' = [sessions EXCEPT ![s] = row]
      /\ tokens' = [tokens EXCEPT ![t] = old, ![t2] = tok]
      /\ now' = now /\ crossed' = IF tokens[t].kind = "oidc" THEN crossed \cup {s} ELSE crossed
  BY <1>1, <1>2, Zenon DEF RefreshRotate, Rotation, Inv, TypeOK
<1>6. /\ row.st = "live" /\ row.created = sessions[s].created /\ row.expires = x
      /\ tok.sess = s /\ tok.expires = x /\ old.st = "revoked"
  BY <1>1, <1>2, Zenon DEF SessionRow, TokenRow, Live
<1> HIDE DEF x, row, tok, old
<1>7. /\ tokens'[t] = old /\ tokens'[t2] = tok
      /\ \A y \in TokenIds : y # t /\ y # t2 => tokens'[y] = tokens[y]
      /\ sessions'[s] = row
      /\ \A y \in SessionIds : y # s => sessions'[y] = sessions[y]
  BY <1>1, <1>5, Zenon DEF Inv, TypeOK
<1>8. ASSUME NEW y \in TokenIds, CoreActive(y)'
      PROVE  \/ tokens'[y].sess \in crossed'
             \/ y = t2
             \/ /\ CoreActive(y) /\ tokens'[y] = tokens[y] /\ tokens[y].sess \in SessionIds
                /\ sessions'[tokens[y].sess] = sessions[tokens[y].sess]
  <2>1. CASE y = t BY <1>6, <1>7, <1>8, <2>1, Zenon DEF CoreActive
  <2>2. CASE y # t /\ y # t2
    <3>1. CoreActive(y) /\ tokens'[y] = tokens[y] /\ tokens[y].sess \in SessionIds
      BY <1>7, <1>8, <2>2, Zenon DEF CoreActive, Inv, References
    <3>2. CASE tokens[y].sess # s BY <1>7, <3>1, <3>2, Zenon
    <3>3. CASE tokens[y].sess = s
      <4>1. tokens[t].kind \in {"core", "oidc"} BY <1>1, Zenon DEF Inv, References
      <4>2. s \in crossed' BY <1>1, <1>5, <2>2, <3>1, <3>3, <4>1 DEF Inv, OneActiveToken, CoreActive
      <4> QED BY <3>1, <3>3, <4>2, Zenon
    <3> QED BY <3>2, <3>3, Zenon
  <2> QED BY <2>1, <2>2, Zenon
<1>9. crossed \subseteq crossed' BY <1>5
<1>10. HorizonAgreement'
  <2> SUFFICES ASSUME NEW y \in TokenIds, CoreActive(y)', sessions'[tokens'[y].sess].st = "live",
                      tokens'[y].sess \notin crossed'
               PROVE  tokens'[y].expires = sessions'[tokens'[y].sess].expires
    BY Zenon DEF HorizonAgreement, Live
  <2>1. CASE y = t2 BY <1>6, <1>7, <2>1, Zenon
  <2>2. CASE y # t2
    <3>1. /\ CoreActive(y) /\ tokens'[y] = tokens[y] /\ tokens[y].sess \notin crossed
          /\ sessions'[tokens[y].sess] = sessions[tokens[y].sess]
      BY <1>8, <1>9, <2>2, Zenon
    <3> QED BY <3>1, Zenon DEF Expiry, HorizonAgreement, Live
  <2> QED BY <2>1, <2>2, Zenon
<1>11. AbsoluteDeadline'
  BY <1>1, <1>4, <1>6, <1>7 DEF Expiry, AbsoluteDeadline, Live
<1>12. SweptTokenHasExpired'
  <2> SUFFICES ASSUME NEW y \in TokenIds, CoreActive(y)', sessions'[tokens'[y].sess].st = "swept",
                      tokens'[y].sess \notin crossed'
               PROVE  tokens'[y].expires < now'
    BY Zenon DEF SweptTokenHasExpired
  <2>1. y # t2 BY <1>6, <1>7, Zenon
  <2>2. /\ CoreActive(y) /\ tokens'[y] = tokens[y] /\ tokens[y].sess \notin crossed
        /\ sessions'[tokens[y].sess] = sessions[tokens[y].sess]
    BY <1>8, <1>9, <2>1, Zenon
  <2> QED BY <1>5, <2>2, Zenon DEF Expiry, SweptTokenHasExpired
<1> QED BY <1>10, <1>11, <1>12, Zenon DEF Expiry

\* Every step of CoreNext preserves the expiry facts.
LEMMA CoreNextExpiry ==
    ASSUME Inv, Expiry, [CoreNext]_vars
    PROVE  Expiry'
<1>1. Inv' BY NextGood, Zenon DEF Next, Good
<1>2. now \in Nat BY Zenon DEF Inv, TypeOK
<1>3. CASE UNCHANGED vars
  BY <1>3, Zenon
     DEF vars, Expiry, HorizonAgreement, AbsoluteDeadline, SweptTokenHasExpired, CoreActive, Live
<1>4. CASE Tick
  BY <1>1, <1>2, <1>4, ExpiryFrame DEF Tick, Live
<1>5. ASSUME NEW u \in Users, NEW s \in SessionIds, NEW t \in TokenIds, NEW p \in Policies[Home[u]], Mint(u, s, t, p)
      PROVE  Expiry'
  <2>1. PICK S \in SUBSET SessionIds : MintAfterRevoking(S, u, s, t, p) /\ UNCHANGED <<now, crossed>>
    <3>1. {} \in SUBSET SessionIds /\ LiveOf(u) \in SUBSET SessionIds /\ \A y \in LiveOf(u) : {y} \in SUBSET SessionIds
      BY Zenon DEF LiveOf
    <3>2. \A y \in LiveOf(u) : sessions[y].user = u BY Zenon DEF LiveOf
    <3> QED
      BY <1>5, <3>1, <3>2, Zenon DEF Mint, PasswordSignIn, ProofSignIn, ResetPassword, SwitchGroup
  <2> QED BY <1>1, <2>1, MintExpiry, Zenon
<1>6. ASSUME NEW S \in SUBSET SessionIds, RevokeSessions(S), UNCHANGED <<now, crossed>> PROVE Expiry'
  BY <1>1, <1>6, RevokeExpiry, Zenon DEF RevokeSessions
<1>7. ASSUME NEW t \in TokenIds, tokens[t].st \in {"active", "revoked"}, Refresh(t)
      PROVE  Expiry'
  <2>1. tokens[t].sess \in SessionIds BY <1>7, Zenon DEF Inv, References
  <2>2. {tokens[t].sess} \in SUBSET SessionIds /\ LiveOf(tokens[t].user) \in SUBSET SessionIds
    BY <2>1, Zenon DEF LiveOf
  <2>3. CASE \E p \in Policies[tokens[t].env] : RefreshReused(t, p) \/ RefreshTimedOut(t, p)
    BY <1>6, <2>2, <2>3, Zenon DEF RefreshReused, RefreshTimedOut
  <2>4. CASE RefreshDeviceMismatch(t)
    BY <1>6, <2>2, <2>4, Zenon DEF RefreshDeviceMismatch
  <2>5. CASE \E t2 \in TokenIds, e \in Envs : \E p \in Policies[tokens[t].env], q \in Policies[e] :
                RefreshRotate(t, t2, e, p, q)
    BY <1>1, <2>5, RotationExpiry, Zenon
  <2> QED BY <1>7, <2>3, <2>4, <2>5, Zenon DEF Refresh
<1>8. ASSUME UNCHANGED <<now, sessions, crossed>>, \A y \in TokenIds : CoreActive(y)' => tokens'[y] = tokens[y]
      PROVE  Expiry'
  BY <1>1, <1>2, <1>8, ExpiryFrame DEF Live
<1>9. CASE EndSessions
  <2>1. \A u \in Users : LiveOf(u) \in SUBSET SessionIds BY Zenon DEF LiveOf
  <2>2. CASE \E s \in SessionIds : SignOut(s) BY <1>6, <2>2, Zenon DEF SignOut
  <2>3. CASE \E u \in Users : \E keep \in {{}} \cup {{s} : s \in LiveOf(u)} : SignOutAll(u, keep)
    BY <1>6, <2>1, <2>3, Zenon DEF SignOutAll
  <2>4. CASE \E u \in Users : Ban(u) \/ DeleteUser(u) BY <1>6, <2>1, <2>4, Zenon DEF Ban, DeleteUser
  <2>5. CASE \E u \in Users : Anonymize(u) \/ Unban(u) BY <1>8, <2>5, Zenon DEF Anonymize, Unban
  <2>6. ASSUME NEW t \in TokenIds, RevokeToken(t) PROVE Expiry'
    <3>1. \A y \in TokenIds : CoreActive(y)' => tokens'[y] = tokens[y]
      BY <2>6, FlagToken DEF RevokeToken, Inv, CoreActive
    <3> QED BY <1>8, <2>6, <3>1, Zenon DEF RevokeToken
  <2>7. ASSUME NEW u \in Users, PurgeUser(u) PROVE Expiry'
    <3>1. PICK S \in SUBSET SessionIds : S = LiveOf(u) BY <2>1, Zenon
    <3>2. /\ sessions' = RevokedRows(S) /\ UNCHANGED <<now, crossed>>
          /\ \A t \in TokenIds : CoreActive(t)' => tokens'[t] = RevokedTokens(S)[t]
      BY <2>7, <3>1, Zenon DEF PurgeUser, CoreActive, NoTokenRow
    <3> QED BY <1>1, <3>2, RevokeExpiry, Zenon
  <2> QED BY <1>9, <2>2, <2>3, <2>4, <2>5, <2>6, <2>7, Zenon DEF EndSessions
<1>10. CASE OidcTokens
  <2>1. CASE (\E s \in SessionIds, e \in Envs : IssueCode(s, e)) \/ \E o \in owed : ForgetOidc(o)
    BY <1>8, <2>1, Zenon DEF IssueCode, ForgetOidc
  <2>2. ASSUME NEW t \in TokenIds, SpendOidc(t) PROVE Expiry'
    <3>1. \A y \in TokenIds : CoreActive(y)' => tokens'[y] = tokens[y]
      BY <2>2, FlagToken DEF SpendOidc, Inv, CoreActive
    <3> QED BY <1>8, <2>2, <3>1, Zenon DEF SpendOidc
  <2>3. ASSUME NEW t \in TokenIds, ReplayOidc(t) PROVE Expiry'
    <3>1. {tokens[t].sess} \in SUBSET SessionIds BY <2>3, Zenon DEF ReplayOidc, Inv, References
    <3>2. \A y \in TokenIds : CoreActive(y)' => tokens'[y] = tokens[y]
      BY <2>3, <3>1, RevokedTables DEF ReplayOidc, Inv, CoreActive
    <3> QED BY <1>8, <2>3, <3>2, Zenon DEF ReplayOidc
  <2>4. ASSUME NEW o \in owed, NEW t \in TokenIds, NEW ttl \in OidcTTLs, MintOidc(o, t, ttl) PROVE Expiry'
    <3>1. \A y \in TokenIds : CoreActive(y)' => tokens'[y] = tokens[y]
      BY <2>4, Zenon DEF MintOidc, Inv, TypeOK, CoreActive
    <3> QED BY <1>8, <2>4, <3>1, Zenon DEF MintOidc
  <2> QED BY <1>10, <2>1, <2>2, <2>3, <2>4, Zenon DEF OidcTokens
<1>11. CASE Activity
  <2>1. ASSUME NEW s \in SessionIds, NEW p, Authenticate(s, p) PROVE Expiry'
    BY <1>8, <2>1, Zenon DEF Authenticate
  <2>2. ASSUME NEW b \in bumps, BumpLastActive(b) PROVE Expiry'
    <3>1. \A s \in SessionIds : /\ sessions'[s].st = sessions[s].st
                               /\ sessions'[s].expires = sessions[s].expires
                               /\ sessions'[s].created = sessions[s].created
      BY <2>2, Zenon DEF BumpLastActive, Inv, TypeOK, SessionRow
    <3> QED BY <1>1, <1>2, <2>2, <3>1, ExpiryFrame DEF BumpLastActive, Live
  <2> QED BY <1>11, <2>1, <2>2, Zenon DEF Activity
<1>12. CASE GcSessions
  <2>1. \A s \in SessionIds : sessions'[s] = sessions[s]
                              \/ (sessions'[s].st = "swept" /\ Live(s) /\ sessions[s].expires < now)
    BY <1>12, Zenon DEF GcSessions, ExpiredSessions, NoSessionRow
  <2> QED BY <1>1, <1>2, <1>12, <2>1, ExpiryFrame DEF GcSessions, Live
<1>13. CASE GcTokens
  <2>1. \A t \in TokenIds : CoreActive(t)' => tokens'[t] = tokens[t]
    BY <1>13, Zenon DEF GcTokens, NoTokenRow, CoreActive
  <2> QED BY <1>8, <1>13, <2>1, Zenon DEF GcTokens
<1> QED BY <1>3, <1>4, <1>5, <1>7, <1>9, <1>10, <1>11, <1>12, <1>13, Zenon DEF CoreNext, Gc

\* The invariant of the core handlers.
THEOREM CoreInvariance == CoreSpec => [](Inv /\ Expiry)
<1>1. Init => Inv /\ Expiry
  <2>1. Init => Expiry
    BY DEF Init, Expiry, HorizonAgreement, AbsoluteDeadline, SweptTokenHasExpired, CoreActive, Live,
           NoSessionRow, NoTokenRow
  <2> QED BY <2>1, InitInv, Zenon
<1>2. Inv /\ Expiry /\ [CoreNext]_vars => Inv' /\ Expiry'
  BY NextGood, CoreNextExpiry, Zenon DEF Next, Good
<1> QED BY <1>1, <1>2, PTL DEF CoreSpec

\* Neither a revocation nor the collector removes a session row under a core-auth
\* token that can still be redeemed, unless an OIDC token of the session was
\* presented to core Refresh (coreAuthSessionLifetime, gcSweeps).
THEOREM RowOutlives == CoreSpec => []RowOutlivesToken
<1>1. Inv /\ Expiry => RowOutlivesToken
  <2> SUFFICES ASSUME Inv, Expiry, NEW t \in TokenIds, CoreActive(t), now <= tokens[t].expires
               PROVE  Live(tokens[t].sess) \/ tokens[t].sess \in crossed
    BY Zenon DEF RowOutlivesToken
  <2>1. sessions[tokens[t].sess].st \in {"live", "swept"}
    BY Zenon DEF Inv, RevokedSessionHasNoActiveToken
  <2>2. now \in Nat /\ tokens[t].expires \in Nat BY Zenon DEF Inv, TypeOK, TokenRow
  <2> QED BY <2>1, <2>2 DEF Expiry, SweptTokenHasExpired, Live
<1> QED BY <1>1, CoreInvariance, PTL

\* The session row and its redeemable core-auth token expire at the same moment,
\* unless an OIDC token of the session was presented to core Refresh
\* (coreAuthUpdateRotatedSession slides both).
THEOREM HorizonsAgree == CoreSpec => []HorizonAgreement
<1>1. Expiry => HorizonAgreement BY Zenon DEF Expiry
<1> QED BY <1>1, CoreInvariance, PTL

\* No sequence of refreshes, with tokens of either kind, carries a session past
\* the widest absolute deadline configured (coreAuthRefreshHorizon).
THEOREM DeadlineHolds == CoreSpec => []AbsoluteDeadline
<1>1. Expiry => AbsoluteDeadline BY Zenon DEF Expiry
<1> QED BY <1>1, CoreInvariance, PTL

-----------------------------------------------------------------------------
(* A session that timed out *)

Gone(s) == Dead(s) => Dead(s)' \/ ~Live(s)'

\* A timed-out session whose row is not written, and which no request is about
\* to bump, stays timed out as the clock goes on.
LEMMA DeadFrame ==
    ASSUME Inv, NEW s \in SessionIds, sessions'[s] = sessions[s] \/ sessions'[s].st # "live",
           now' = now \/ now' = now + 1, \A b \in bumps' : b.sess = s => b \in bumps
    PROVE  Gone(s)
<1> SUFFICES ASSUME Dead(s), sessions'[s] = sessions[s] PROVE Dead(s)'
  BY Zenon DEF Gone, Live
<1>1. /\ sessions[s].created \in Nat /\ sessions[s].active \in Nat /\ now \in Nat
      /\ sessions[s].user \in Users
  BY Zenon DEF Inv, TypeOK, SessionRow, References, Dead
<1>2. Home[sessions[s].user] \in Envs BY <1>1, SessionsAssumption, Zenon
<1>3. ASSUME NEW p \in Policies[Home[sessions[s].user]] PROVE TimedOut(s, p)'
  <2>1. TimedOut(s, p) BY Zenon DEF Dead
  <2>2. p \in Policy BY <1>2, SessionsAssumption, Zenon
  <2>3. p.absolute \in Nat /\ p.idle \in Nat BY <2>2, Zenon DEF Policy
  <2> QED BY <1>1, <2>1, <2>3 DEF TimedOut
<1> QED BY <1>3, Zenon DEF Dead, Live

\* Revoking sessions, after which one may be minted, writes no other live row.
LEMMA DeadRevoke ==
    ASSUME Inv, NEW s \in SessionIds, NEW S \in SUBSET SessionIds, UNCHANGED <<now, bumps>>,
           \/ sessions' = RevokedRows(S)
           \/ \E u, x, t, p : MintAfterRevoking(S, u, x, t, p)
    PROVE  Gone(s)
<1>1. TypeOK BY Zenon DEF Inv
<1>2. RevokedRows(S)[s] = sessions[s] \/ RevokedRows(S)[s].st # "live" BY <1>1, RevokedTables
<1>3. CASE sessions' = RevokedRows(S) BY <1>2, <1>3, DeadFrame, Zenon
<1>4. ASSUME NEW u, NEW x, NEW t, NEW p, MintAfterRevoking(S, u, x, t, p) PROVE Gone(s)
  <2>1. CASE x = s
    BY <1>4, <2>1, Zenon DEF MintAfterRevoking, Gone, Dead, Live
  <2>2. CASE x # s
    <3>1. sessions'[s] = RevokedRows(S)[s] BY <1>4, <2>2, Zenon DEF MintAfterRevoking, RevokedRows
    <3> QED BY <1>2, <3>1, DeadFrame, Zenon
  <2> QED BY <2>1, <2>2, Zenon
<1> QED BY <1>3, <1>4, Zenon

\* With one environment no step of the core handlers wakes a timed-out session.
LEMMA DeadStep ==
    ASSUME \A e, f \in Envs : e = f, Inv, [CoreNext]_vars, NEW s \in SessionIds
    PROVE  Gone(s)
<1>1. TypeOK BY Zenon DEF Inv
<1>2. ASSUME NEW u \in Users PROVE LiveOf(u) \in SUBSET SessionIds
  BY Zenon DEF LiveOf
<1>3. ASSUME NEW u \in Users, NEW x \in SessionIds, NEW t \in TokenIds, NEW p, Mint(u, x, t, p) PROVE Gone(s)
  <2>1. CASE PasswordSignIn(u, x, t, p) \/ ProofSignIn(u, x, t, p)
    <3>1. /\ {} \in SUBSET SessionIds /\ MintAfterRevoking({}, u, x, t, p) /\ UNCHANGED <<now, bumps>>
      BY <2>1, Zenon DEF PasswordSignIn, ProofSignIn
    <3> QED BY <3>1, DeadRevoke, Zenon
  <2>2. CASE ResetPassword(u, x, t, p)
    BY <1>2, <2>2, DeadRevoke, Zenon DEF ResetPassword
  <2>3. ASSUME NEW old \in LiveOf(u), SwitchGroup(old, x, t, p) PROVE Gone(s)
    <3>1. {old} \in SUBSET SessionIds BY <2>3, Zenon DEF LiveOf
    <3> QED BY <2>3, <3>1, DeadRevoke, Zenon DEF SwitchGroup
  <2> QED BY <1>3, <2>1, <2>2, <2>3, Zenon DEF Mint
<1>4. ASSUME NEW t \in TokenIds, tokens[t].st \in {"active", "revoked"}, Refresh(t) PROVE Gone(s)
  <2>1. tokens[t].sess \in SessionIds /\ tokens[t].user \in Users /\ tokens[t].env \in Envs
    BY <1>4, Zenon DEF Inv, References
  <2>2. CASE \E p \in Policies[tokens[t].env] : RefreshReused(t, p)
    BY <1>2, <2>1, <2>2, DeadRevoke, Zenon DEF RefreshReused, RevokeSessions
  <2>3. CASE (\E p \in Policies[tokens[t].env] : RefreshTimedOut(t, p)) \/ RefreshDeviceMismatch(t)
    <3>1. {tokens[t].sess} \in SUBSET SessionIds BY <2>1, Zenon
    <3> QED
      BY <2>3, <3>1, DeadRevoke, Zenon DEF RefreshTimedOut, RefreshDeviceMismatch, RevokeSessions
  <2>4. ASSUME NEW t2 \in TokenIds, NEW e \in Envs, NEW p \in Policies[tokens[t].env], NEW q,
               RefreshRotate(t, t2, e, p, q)
        PROVE  Gone(s)
    <3>1. CASE tokens[t].sess # s
      <4>1. sessions'[s] = sessions[s] /\ UNCHANGED <<now, bumps>>
        BY <1>1, <2>4, <3>1, Zenon DEF RefreshRotate, Rotation, TypeOK
      <4> QED BY <4>1, DeadFrame, Zenon
    <3>2. CASE tokens[t].sess = s
      <4>1. ~TimedOut(s, p) BY <2>4, <3>2, Zenon DEF RefreshRotate
      <4>2. Live(s) => Home[sessions[s].user] \in Envs
        BY SessionsAssumption, Zenon DEF Inv, References
      <4>3. Live(s) => Home[sessions[s].user] = tokens[t].env BY <2>1, <4>2, Zenon
      <4> QED BY <4>1, <4>3, Zenon DEF Gone, Dead
    <3> QED BY <3>1, <3>2, Zenon
  <2> QED BY <1>4, <2>2, <2>3, <2>4, Zenon DEF Refresh
<1>5. ASSUME EndSessions PROVE Gone(s)
  <2>1. ASSUME NEW x \in SessionIds, SignOut(x) PROVE Gone(s)
    <3>1. {x} \in SUBSET SessionIds BY Zenon
    <3> QED BY <2>1, <3>1, DeadRevoke, Zenon DEF SignOut, RevokeSessions
  <2>2. ASSUME NEW u \in Users, NEW keep, SignOutAll(u, keep) PROVE Gone(s)
    <3>1. LiveOf(u) \ keep \in SUBSET SessionIds BY <1>2, Zenon
    <3> QED BY <2>2, <3>1, DeadRevoke, Zenon DEF SignOutAll, RevokeSessions
  <2>3. ASSUME NEW t \in TokenIds, RevokeToken(t) PROVE Gone(s)
    BY <2>3, DeadFrame, Zenon DEF RevokeToken
  <2>4. ASSUME NEW u \in Users, Ban(u) \/ DeleteUser(u) PROVE Gone(s)
    BY <1>2, <2>4, DeadRevoke, Zenon DEF Ban, DeleteUser, RevokeSessions
  <2>5. ASSUME NEW u \in Users, Anonymize(u) \/ Unban(u) PROVE Gone(s)
    BY <2>5, DeadFrame, Zenon DEF Anonymize, Unban
  <2>6. ASSUME NEW u \in Users, PurgeUser(u) PROVE Gone(s)
    BY <1>2, <2>6, DeadRevoke, Zenon DEF PurgeUser
  <2> QED BY <1>5, <2>1, <2>2, <2>3, <2>4, <2>5, <2>6, Zenon DEF EndSessions
<1>6. ASSUME Activity PROVE Gone(s)
  <2>1. ASSUME NEW x \in SessionIds, NEW p \in Policies[Home[sessions[x].user]], Authenticate(x, p) PROVE Gone(s)
    <3>1. CASE x = s BY <2>1, <3>1, Zenon DEF Authenticate, Gone, Dead
    <3>2. CASE x # s BY <2>1, <3>2, DeadFrame DEF Authenticate
    <3> QED BY <3>1, <3>2, Zenon
  <2>2. ASSUME NEW b \in bumps, BumpLastActive(b) PROVE Gone(s)
    <3>1. CASE b.sess = s BY <3>1, Zenon DEF Gone, Dead
    <3>2. CASE b.sess # s
      <4>1. sessions'[s] = sessions[s] BY <1>1, <2>2, <3>2, Zenon DEF BumpLastActive, TypeOK
      <4> QED BY <2>2, <4>1, DeadFrame, Zenon DEF BumpLastActive
    <3> QED BY <3>1, <3>2, Zenon
  <2> QED BY <1>6, <2>1, <2>2, Zenon DEF Activity
<1>7. CASE GcSessions
  <2>1. sessions'[s] = sessions[s] \/ sessions'[s].st # "live"
    BY <1>7, Zenon DEF GcSessions, NoSessionRow
  <2> QED BY <1>7, <2>1, DeadFrame, Zenon DEF GcSessions
<1>8. CASE GcTokens \/ Tick \/ UNCHANGED vars BY <1>8, DeadFrame, Zenon DEF GcTokens, Tick, vars
<1>9. CASE OidcTokens
  <2>1. UNCHANGED <<now, sessions, bumps>>
    BY <1>9, Zenon DEF OidcTokens, IssueCode, SpendOidc, ReplayOidc, ForgetOidc, MintOidc
  <2> QED BY <2>1, DeadFrame, Zenon
<1> QED BY <1>3, <1>4, <1>5, <1>6, <1>7, <1>8, <1>9, Zenon DEF CoreNext, Gc

\* In a project with one environment, whatever policies its instances see, a
\* session past its idle or absolute lifetime is never refreshed or used again
\* (coreAuthCheckSessionTimeout, checkSessionLive).
THEOREM TimedOutIsFinal ==
    ASSUME \A e, f \in Envs : e = f
    PROVE  CoreSpec => TimedOutStaysDead
<1>1. Inv /\ [CoreNext]_vars => [\A s \in SessionIds : Dead(s) => Dead(s)' \/ ~Live(s)']_vars
  BY DeadStep, Zenon DEF Gone
<1>2. CoreSpec => []Inv
  <2>1. CoreSpec => [](Inv /\ Expiry) BY CoreInvariance, Zenon
  <2> QED BY <2>1, PTL
<1> QED BY <1>1, <1>2, PTL DEF CoreSpec, TimedOutStaysDead
=============================================================================
