-------------------------- MODULE FlowTokensProof --------------------------
(***************************************************************************)
(* Proofs about FlowTokens, for any number of tabs, calls and tokens.      *)
(* The argument: tokens only grow, so an entry of the log was made with an *)
(* older token than the flow has, and the last entry is what the row       *)
(* remembers for a retry; a capability is open for submissions only as     *)
(* long as the flow has not ended; keys never leave the tab that drew      *)
(* them, so the key of the link says who holds the flow.                   *)
(***************************************************************************)
EXTENDS FlowTokens, TLAPS

\* Exchange keys of a tab: the one in its storage and those it has sent.
KeyOf(c, k) == k # 0 /\ (pending[c] = k \/ \E r \in net : r.from = c /\ r.key = k)

\* A tab has the flow, or is about to.
Has(c) == state[c].token # 0 \/ stored[c] # 0 \/ reply[c].tag = "ok"

\* The flow begins with the exchange of its link and counts versions as tokens.
RowInv ==
    /\ flow.version = flow.token
    /\ flow.token \in Nat
    /\ ~link.consumed => flow.token = 0 /\ flow.prev = 0 /\ flow.status = "none" /\ log = <<>>
    /\ link.consumed => flow.token >= 1 /\ link.token = 1 /\ flow.status # "none"

\* Tokens in the log grow and are older than the flow's; the last is the previous one.
LogInv ==
    /\ \A k \in 1..Len(log) : log[k].token \in Tokens /\ log[k].token < flow.token
    /\ flow.prev < flow.token \/ flow.prev = 0
    /\ \A k \in 1..Len(log) : log[k].token <= flow.prev
    /\ \A k \in 1..Len(log) : log[k].token = flow.prev =>
            /\ log[k].input = flow.hash.input /\ flow.until = log[k].at + Grace
            /\ log[k].input # None => flow.hash.kind = "submit" /\ flow.hash.version = flow.prev
    /\ flow.prev # 0 => \E k \in 1..Len(log) : log[k].token = flow.prev

\* A view that shows the flow open is not one of a flow that has ended.
OpenAt(t) == t <= flow.token /\ (t = flow.token => flow.status # "closed")

ViewInv ==
    \A c \in Tabs :
        /\ state[c].open => OpenAt(state[c].token)
        /\ reply[c].view.open => OpenAt(reply[c].view.token)
        /\ state[c].version = state[c].token
        /\ reply[c].view.version = reply[c].view.token
        /\ reply[c].tag = "ok" => reply[c].view.token # 0
        /\ reply[c].tag # "none" => call[c] # None
        /\ call[c] # None => call[c].from = c

\* A submission was made with an open view.
RequestInv ==
    \A r \in net : /\ r.kind = "submit" => /\ r.token # 0 /\ r.version = r.token
                                           /\ r.input # None /\ OpenAt(r.token)
                   /\ r.kind = "resend" => r.input = None
                   /\ r.kind # "exchange" => r.token # 0

\* What an answer says of the action is so.
AnswerInv ==
    \A c \in Tabs : LET r == call[c] IN
        r # None =>
            /\ r.kind = "submit" /\ reply[c].tag = "ok" =>
                 /\ r.input # None /\ r.token \in Tokens
                 /\ \E k \in 1..Len(log) : log[k].token = r.token /\ log[k].input = r.input
            /\ r.kind = "submit" /\ reply[c].tag = "conflict" => r.token < flow.token
            /\ r.kind = "submit" /\ reply[c].tag = "conflict" =>
                 \A k \in 1..Len(log) : log[k].token = r.token /\ log[k].input = r.input
                                        => log[k].at + Grace <= now

\* Keys belong to one tab, and only the tab with the key of the link has the flow.
KeyInv ==
    /\ \A c \in Tabs, k \in Nat : KeyOf(c, k) => k <= keys
    /\ \A c, d \in Tabs, k \in Nat : KeyOf(c, k) /\ KeyOf(d, k) => c = d
    /\ link.key <= keys
    /\ \A r \in net : r.kind = "exchange" => r.key # 0
    /\ \A c \in Tabs : Has(c) => link.consumed /\ \A d \in Tabs : KeyOf(d, link.key) => d = c
    /\ \A c, d \in Tabs : Has(c) /\ Has(d) => c = d
    /\ \A c \in Tabs : call[c] # None /\ call[c].kind # "exchange" => state[c].token # 0 \/ stored[c] # 0

IInv == TypeOK /\ RowInv /\ LogInv /\ ViewInv /\ RequestInv /\ AnswerInv /\ KeyInv

-----------------------------------------------------------------------------
(* Types *)

\* A call leaves well-typed calls and requests behind (Call).
LEMMA CallType ==
    ASSUME TypeOK, NEW c \in Tabs, NEW kind \in Kinds, NEW token \in Nat, NEW key \in Nat,
           NEW input \in Input, NEW version \in Nat, Call(c, kind, token, key, input, version)
    PROVE  /\ sent' \in [Tabs -> Nat] /\ call' \in [Tabs -> Request \cup {None}] /\ net' \subseteq Request
           /\ now' \in Nat /\ link' \in Link /\ flow' \in Flow /\ log' \in Seq(Entry)
           /\ reply' \in [Tabs -> Reply] /\ acked' \subseteq [token : Nat, input : Input]
<1> DEFINE r == [from |-> c, n |-> sent[c] + 1, kind |-> kind, token |-> token, key |-> key,
                 input |-> input, version |-> version]
<1>1. r \in Request
    BY DEF TypeOK, Request
<1>2. call' = [call EXCEPT ![c] = r] /\ net' = net \cup {r} /\ sent' = [sent EXCEPT ![c] = @ + 1]
    BY Zenon DEF Call
<1> HIDE DEF r
<1> QED BY <1>1, <1>2 DEF TypeOK, Call, server

\* An answer is well typed (Answer).
LEMMA AnswerType ==
    ASSUME TypeOK, NEW r \in Request, NEW tag \in {"ok", "invalid", "conflict", "refused", "gone"},
           NEW view \in View, Answer(r, tag, view)
    PROVE  reply' \in [Tabs -> Reply]
<1>1. [tag |-> tag, view |-> view] \in Reply
    BY Zenon DEF Reply
<1>2. r.from \in Tabs
    BY Zenon DEF Request
<1> QED BY <1>1, <1>2, Zenon DEF TypeOK, Answer

\* A step of a tab leaves all types as they are.
LEMMA TabType ==
    ASSUME TypeOK, NEW c \in Tabs,
           \/ OpenLink(c) \/ Resume(c) \/ Resend(c) \/ \E i \in Inputs : Submit(c, i)
           \/ Receive(c) \/ GiveUp(c) \/ Reload(c)
    PROVE  TypeOK'
<1>0. /\ NoView \in View /\ NoReply \in Reply /\ keys \in Nat /\ keys + 1 \in Nat
      /\ state[c].token \in Nat /\ state[c].version \in Nat /\ stored[c] \in Nat /\ pending[c] \in Nat
  <2>1. NoView \in View /\ NoReply \in Reply
    BY Zenon DEF NoView, NoReply, View, Reply
  <2>2. state[c] \in View /\ stored[c] \in Nat /\ pending[c] \in Nat /\ keys \in Nat
    BY Zenon DEF TypeOK
  <2> QED BY <2>1, <2>2 DEF View
<1>1. CASE OpenLink(c)
  <2>1. CASE Call(c, "exchange", 0, pending[c], None, 0) /\ UNCHANGED <<storage, keys>>
    BY <1>0, <2>1, CallType, Zenon DEF Kinds, TypeOK, Input, storage
  <2>2. CASE /\ Call(c, "exchange", 0, keys + 1, None, 0)
             /\ keys' = keys + 1 /\ pending' = [pending EXCEPT ![c] = keys + 1]
             /\ stored' = [stored EXCEPT ![c] = 0] /\ state' = [state EXCEPT ![c] = NoView]
    <3>1. pending' \in [Tabs -> Nat] /\ stored' \in [Tabs -> Nat] /\ keys' \in Nat
      BY <1>0, <2>2, Zenon DEF TypeOK
    <3>2. state' \in [Tabs -> View]
      BY <1>0, <2>2, Zenon DEF TypeOK
    <3> QED BY <1>0, <2>2, <3>1, <3>2, CallType, Zenon DEF Kinds, TypeOK, Input
  <2> QED BY <1>1, <2>1, <2>2, Zenon DEF OpenLink
<1>2. CASE Resume(c)
    BY <1>0, <1>2, CallType, Zenon DEF Resume, Kinds, TypeOK, Input, storage
<1>3. CASE Resend(c)
    BY <1>0, <1>3, CallType, Zenon DEF Resend, Kinds, TypeOK, Input, storage
<1>4. ASSUME NEW i \in Inputs, Submit(c, i) PROVE TypeOK'
    BY <1>0, <1>4, CallType, Zenon DEF Submit, Kinds, TypeOK, Input, storage
<1>5. CASE Receive(c)
  <2>1. reply[c].view \in View /\ reply[c].view.token \in Nat
    <3>1. reply[c] \in Reply
      BY Zenon DEF TypeOK
    <3> QED BY <3>1, Zenon DEF Reply, View
  <2>2. [token |-> call[c].token, input |-> call[c].input] \in [token : Nat, input : Input]
    BY <1>5, Zenon DEF Receive, TypeOK, Request
  <2>3. state' \in [Tabs -> View] /\ stored' \in [Tabs -> Nat]
    <3>1. \/ \E v \in View, t \in Nat : state' = [state EXCEPT ![c] = v] /\ stored' = [stored EXCEPT ![c] = t]
          \/ UNCHANGED <<state, stored>>
      BY <1>0, <1>5, <2>1, Zenon DEF Receive
    <3> QED BY <3>1, Zenon DEF TypeOK
  <2>4. pending' \in [Tabs -> Nat]
    BY <1>0, <1>5, Zenon DEF TypeOK, Receive
  <2>5. acked' \subseteq [token : Nat, input : Input]
    BY <1>5, <2>2, Zenon DEF TypeOK, Receive
  <2> QED BY <1>0, <1>5, <2>3, <2>4, <2>5, Zenon DEF TypeOK, Receive, EndCall, server
<1>6. CASE GiveUp(c)
    BY <1>0, <1>6, Zenon DEF GiveUp, TypeOK, EndCall, server, storage
<1>7. CASE Reload(c)
    BY <1>0, <1>7, Zenon DEF Reload, TypeOK, EndCall, server
<1> QED BY <1>1, <1>2, <1>3, <1>4, <1>5, <1>6, <1>7, Zenon

\* The requests that are answered without a write, the exchange that is not and the
\* action that is carried out: an arriving request is one of these.
LEMMA DeliverCases ==
    ASSUME NEW r \in net, Deliver(r)
    PROVE  \/ Unwritten /\ Answer(r, "ok", CurrentView) /\ r.kind = "exchange" /\ link.consumed /\ Replayable(r)
           \/ Unwritten /\ Answer(r, "ok", CurrentView) /\ r.kind = "get" /\ r.token = flow.token
           \/ Unwritten /\ Answer(r, "ok", CurrentView) /\ r.kind \in {"submit", "resend"} /\ Retry(r)
           \/ Unwritten /\ Answer(r, "ok", CurrentView) /\ r.kind \in {"submit", "resend"} /\ Found(r.token)
              /\ r.token = flow.token /\ flow.status # "pending"
           \/ Unwritten /\ Answer(r, "conflict", NoView) /\ r.kind = "get"
           \/ Unwritten /\ Answer(r, "conflict", NoView) /\ r.kind \in {"submit", "resend"} /\ Found(r.token)
              /\ r.token # flow.token /\ ~Retry(r)
           \/ Unwritten /\ Answer(r, "conflict", NoView) /\ r.kind = "submit"
              /\ r.token = flow.token /\ r.version # flow.version
           \/ Unwritten /\ \E tag \in {"invalid", "refused", "gone"} : Answer(r, tag, NoView)
           \/ r.kind = "exchange" /\ Consume(r)
           \/ r.kind \in {"submit", "resend"} /\ r.token = flow.token /\ flow.status = "pending" /\ Apply(r)
BY Zenon DEF Deliver, Exchange, Replay, Get, Mutate

\* An arriving request leaves well-typed rows and answers.
LEMMA DeliverType ==
    ASSUME TypeOK, NEW r \in net, Deliver(r) PROVE TypeOK'
<1> USE TokensAssumption
<1>0. /\ NoView \in View /\ CurrentView \in View /\ r \in Request /\ flow \in Flow /\ link \in Link
      /\ now \in Nat /\ r.token \in Nat /\ r.key \in Nat /\ r.input \in Input
      /\ r.kind \in Kinds /\ r.version \in Nat
  <2>1. r \in Request /\ flow \in Flow /\ link \in Link /\ now \in Nat
    BY Zenon DEF TypeOK
  <2>2. NoView \in View /\ CurrentView \in View
    BY <2>1, Zenon DEF NoView, CurrentView, View, Flow
  <2> QED BY <2>1, <2>2, Zenon DEF Request
<1>1. CASE Unwritten /\ \E tag \in {"ok", "invalid", "conflict", "refused", "gone"}, view \in View :
                            Answer(r, tag, view)
  <2>1. reply' \in [Tabs -> Reply]
    BY <1>0, <1>1, AnswerType, Zenon
  <2> QED BY <1>1, <2>1, Zenon DEF TypeOK, Unwritten, Deliver, server, storage
<1>2. CASE r.kind = "exchange" /\ Consume(r)
  <2>1. link' \in Link /\ flow' \in Flow
    <3>1. link' = [consumed |-> TRUE, key |-> r.key, token |-> 1, until |-> now + Grace]
      BY <1>2, Zenon DEF Consume
    <3>2. flow' = [flow EXCEPT !.status = "pending", !.version = 1, !.token = 1]
      BY <1>2, Zenon DEF Consume
    <3>3. link' \in Link
      BY <1>0, <3>1 DEF Link
    <3>4. flow' \in Flow
      BY <1>0, <3>2, Zenon DEF Flow
    <3> QED BY <3>3, <3>4, Zenon
  <2>2. [token |-> 1, version |-> 1, open |-> TRUE] \in View
    BY Zenon DEF View
  <2>3. reply' \in [Tabs -> Reply]
    BY <1>0, <1>2, <2>2, AnswerType, Zenon DEF Consume
  <2> QED BY <1>2, <2>1, <2>3, Zenon DEF TypeOK, Consume, Deliver, storage
<1>3. CASE Apply(r)
  <2>1. Hash(r) \in Digest /\ NextToken \in Nat
    BY <1>0 DEF Hash, Digest, NextToken, Flow
  <2>2. flow' \in Flow
    BY <1>0, <1>3, <2>1 DEF Apply, Flow
  <2>3. [token |-> flow'.token, version |-> flow'.version, open |-> flow'.status = "pending"] \in View
    BY <2>2, Zenon DEF View, Flow
  <2>4. reply' \in [Tabs -> Reply]
    BY <1>0, <1>3, <2>3, AnswerType, Zenon DEF Apply
  <2>5. [token |-> r.token, input |-> r.input, at |-> now] \in Entry
    BY <1>0, Zenon DEF Entry
  <2>6. log' \in Seq(Entry)
    BY <1>3, <2>5 DEF TypeOK, Apply
  <2> QED BY <1>3, <2>2, <2>4, <2>6, Zenon DEF TypeOK, Apply, Deliver, storage
<1> QED BY <1>0, <1>1, <1>2, <1>3, DeliverCases, Zenon

\* Every step keeps rows, controllers and requests of their types.
LEMMA TypeStep == TypeOK /\ [Next]_vars => TypeOK'
<1> SUFFICES ASSUME TypeOK, [Next]_vars PROVE TypeOK'
    BY Zenon
<1>1. CASE Expire
    BY <1>1, Zenon DEF TypeOK, Expire, Flow, storage
<1>2. CASE Tick
    BY <1>2 DEF TypeOK, Tick, server, storage
<1>3. CASE UNCHANGED vars
    BY <1>3, Zenon DEF TypeOK, vars, server, storage
<1> QED BY <1>1, <1>2, <1>3, TabType, DeliverType, Zenon DEF Next

-----------------------------------------------------------------------------
(* The invariant *)

\* A tab that keeps its flow and its key makes a call (Call).
LEMMA CallStep ==
    ASSUME IInv, NEW c \in Tabs, NEW kind \in Kinds, NEW token \in Nat, NEW key \in Nat,
           NEW input \in Input, NEW version \in Nat, Call(c, kind, token, key, input, version),
           UNCHANGED <<storage, keys>>,
           kind = "submit" => /\ token # 0 /\ version = token /\ input # None /\ OpenAt(token),
           kind = "resend" => input = None,
           kind = "exchange" => key = pending[c] /\ key # 0,
           kind # "exchange" => key = 0 /\ token # 0 /\ (state[c].token # 0 \/ stored[c] # 0)
    PROVE  RowInv' /\ LogInv' /\ ViewInv' /\ RequestInv' /\ AnswerInv' /\ KeyInv'
<1> DEFINE r == [from |-> c, n |-> sent[c] + 1, kind |-> kind, token |-> token, key |-> key,
                 input |-> input, version |-> version]
<1>1. /\ call[c] = None /\ call' = [call EXCEPT ![c] = r] /\ net' = net \cup {r}
      /\ UNCHANGED <<now, link, flow, log, reply, acked, state, stored, pending, keys>>
    BY Zenon DEF Call, server, storage
<1>2. r.from = c /\ r.kind = kind /\ r.token = token /\ r.key = key /\ r.input = input /\ r.version = version
    BY Zenon
<1> HIDE DEF r
<1>3. reply[c].tag = "none" /\ call \in [Tabs -> Request \cup {None}]
    BY <1>1, Zenon DEF IInv, ViewInv, TypeOK, Reply
<1>4. RowInv' /\ LogInv'
    BY <1>1, Zenon DEF IInv, RowInv, LogInv
<1>5. ViewInv'
    BY <1>1, <1>2, <1>3, Zenon DEF IInv, ViewInv, OpenAt
<1>6. RequestInv'
    BY <1>1, <1>2, Zenon DEF IInv, RequestInv, OpenAt
<1>7. AnswerInv'
    BY <1>1, <1>3, Zenon DEF IInv, AnswerInv
<1>8. KeyInv'
  <2>1. \A d \in Tabs, k \in Nat : KeyOf(d, k)' <=> KeyOf(d, k)
    BY <1>1, <1>2, Zenon DEF KeyOf
  <2>2. \A d \in Tabs : Has(d)' <=> Has(d)
    BY <1>1, Zenon DEF Has
  <2>4. link.key \in Nat /\ link' = link /\ keys' = keys
    BY <1>1, Zenon DEF IInv, TypeOK, Link
  <2>5. \A q \in net' : q.kind = "exchange" => q.key # 0
    BY <1>1, <1>2, Zenon DEF IInv, KeyInv
  <2>6. \A d \in Tabs : call'[d] # None /\ call'[d].kind # "exchange"
                        => state'[d].token # 0 \/ stored'[d] # 0
    BY <1>1, <1>2, <1>3, Zenon DEF IInv, KeyInv
  <2> QED BY <2>1, <2>2, <2>4, <2>5, <2>6 DEF IInv, KeyInv
<1> QED BY <1>4, <1>5, <1>6, <1>7, <1>8, Zenon

\* A tab draws a key and forgets the flow it had (OpenLink).
LEMMA OpenStep ==
    ASSUME IInv, NEW c \in Tabs, Call(c, "exchange", 0, keys + 1, None, 0),
           keys' = keys + 1, pending' = [pending EXCEPT ![c] = keys + 1],
           stored' = [stored EXCEPT ![c] = 0], state' = [state EXCEPT ![c] = NoView]
    PROVE  RowInv' /\ LogInv' /\ ViewInv' /\ RequestInv' /\ AnswerInv' /\ KeyInv'
<1> DEFINE r == [from |-> c, n |-> sent[c] + 1, kind |-> "exchange", token |-> 0, key |-> keys + 1,
                 input |-> None, version |-> 0]
<1>1. /\ call[c] = None /\ call' = [call EXCEPT ![c] = r] /\ net' = net \cup {r}
      /\ UNCHANGED <<now, link, flow, log, reply, acked>>
    BY Zenon DEF Call, server
<1>2. r.from = c /\ r.kind = "exchange" /\ r.key = keys + 1
    BY Zenon
<1> HIDE DEF r
<1>3. /\ reply[c].tag = "none" /\ call \in [Tabs -> Request \cup {None}]
      /\ state \in [Tabs -> View] /\ stored \in [Tabs -> Nat] /\ pending \in [Tabs -> Nat]
      /\ keys \in Nat /\ link.key \in Nat
    BY <1>1, Zenon DEF IInv, ViewInv, TypeOK, Reply, Link
<1>4. RowInv' /\ LogInv'
    BY <1>1, Zenon DEF IInv, RowInv, LogInv
<1>5. ViewInv'
  <2>1. NoView.version = NoView.token /\ NoView.open = FALSE
    BY Zenon DEF NoView
  <2>2. \A n \in Nat : OpenAt(n)' <=> OpenAt(n)
    BY <1>1, Zenon DEF OpenAt
  <2>3. \A d \in Tabs : state[d].token \in Nat /\ reply[d].view.token \in Nat
    BY Zenon DEF IInv, TypeOK, View, Reply
  <2> QED BY <1>1, <1>2, <1>3, <2>1, <2>2, <2>3, Zenon DEF IInv, ViewInv
<1>6. RequestInv'
    BY <1>1, <1>2, Zenon DEF IInv, RequestInv, OpenAt
<1>7. AnswerInv'
    BY <1>1, <1>3, Zenon DEF IInv, AnswerInv
<1>8. KeyInv'
  <2>1. \A d \in Tabs, k \in Nat : KeyOf(d, k)' => KeyOf(d, k) \/ (d = c /\ k = keys + 1)
    BY <1>1, <1>2, <1>3, Zenon DEF KeyOf
  <2>2. \A d \in Tabs : Has(d)' => Has(d)
    BY <1>1, <1>3, Zenon DEF Has, NoView
  <2>4. \A d \in Tabs, k \in Nat : KeyOf(d, k) => k <= keys
    BY Zenon DEF IInv, KeyInv
  <2>5. \A q \in net' : q.kind = "exchange" => q.key # 0
    BY <1>1, <1>2, <1>3 DEF IInv, KeyInv
  <2>6. \A d \in Tabs : call'[d] # None /\ call'[d].kind # "exchange"
                        => state'[d].token # 0 \/ stored'[d] # 0
    BY <1>1, <1>2, <1>3, Zenon DEF IInv, KeyInv
  <2>7. \A d, e \in Tabs, k \in Nat : KeyOf(d, k)' /\ KeyOf(e, k)' => d = e
    BY <1>3, <2>1, <2>4 DEF IInv, KeyInv
  <2>8. link.key <= keys
    BY Zenon DEF IInv, KeyInv
  <2>9. \A d \in Tabs : Has(d)' => link.consumed /\ \A e \in Tabs : KeyOf(e, link.key)' => e = d
    <3>1. \A e \in Tabs : KeyOf(e, link.key)' => KeyOf(e, link.key)
      BY <1>1, <1>3, <2>1, <2>8
    <3> QED BY <2>2, <3>1, Zenon DEF IInv, KeyInv
  <2>10. \A d, e \in Tabs : Has(d)' /\ Has(e)' => d = e
    BY <2>2, Zenon DEF IInv, KeyInv
  <2>11. \A d \in Tabs, k \in Nat : KeyOf(d, k)' => k <= keys + 1
    BY <1>3, <2>1, <2>4
  <2> QED BY <1>1, <1>3, <2>5, <2>6, <2>7, <2>8, <2>9, <2>10, <2>11 DEF KeyInv
<1> QED BY <1>4, <1>5, <1>6, <1>7, <1>8, Zenon

\* A call ends: the tab has the flow it had, none, or the one it was told of (Receive,
\* GiveUp, Reload).
LEMMA EndStep ==
    ASSUME IInv, NEW c \in Tabs, EndCall(c), UNCHANGED <<now, link, flow, log, net, keys>>,
           NEW v \in View, NEW t \in Nat, NEW p \in Nat,
           state' = [state EXCEPT ![c] = v], stored' = [stored EXCEPT ![c] = t],
           pending' = [pending EXCEPT ![c] = p],
           p \in {0, pending[c]},
           \/ v \in {state[c], NoView} /\ t \in {0, stored[c]}
           \/ reply[c].tag = "ok" /\ v = reply[c].view
    PROVE  RowInv' /\ LogInv' /\ ViewInv' /\ RequestInv' /\ AnswerInv' /\ KeyInv'
<1>1. call' = [call EXCEPT ![c] = None] /\ reply' = [reply EXCEPT ![c] = NoReply]
    BY Zenon DEF EndCall
<1>2. /\ call \in [Tabs -> Request \cup {None}] /\ reply \in [Tabs -> Reply]
      /\ state \in [Tabs -> View] /\ stored \in [Tabs -> Nat] /\ pending \in [Tabs -> Nat] /\ link.key \in Nat
    BY Zenon DEF IInv, TypeOK, Link
<1>3. NoReply.tag = "none" /\ NoReply.view = NoView
      /\ NoView.token = 0 /\ NoView.version = 0 /\ NoView.open = FALSE
    BY Zenon DEF NoReply, NoView
<1>4. RowInv' /\ LogInv'
    BY Zenon DEF IInv, RowInv, LogInv
<1>5. ViewInv'
  <2>1. v.version = v.token /\ (v.open => OpenAt(v.token))
    BY <1>3, Zenon DEF IInv, ViewInv
  <2>2. \A n \in Nat : OpenAt(n)' <=> OpenAt(n)
    BY Zenon DEF OpenAt
  <2>3. \A d \in Tabs : state[d].token \in Nat /\ reply[d].view.token \in Nat
    BY <1>2, Zenon DEF View, Reply
  <2>4. v.token \in Nat
    BY Zenon DEF View
  <2> QED BY <1>1, <1>2, <1>3, <2>1, <2>2, <2>3, <2>4, Zenon DEF IInv, ViewInv
<1>6. RequestInv'
    BY Zenon DEF IInv, RequestInv, OpenAt
<1>7. AnswerInv'
    BY <1>1, <1>2, Zenon DEF IInv, AnswerInv
<1>8. KeyInv'
  <2>1. \A d \in Tabs, k \in Nat : KeyOf(d, k)' => KeyOf(d, k)
    BY <1>2, Zenon DEF KeyOf
  <2>2. \A d \in Tabs : Has(d)' => Has(d)
    BY <1>1, <1>2, <1>3, Zenon DEF Has
  <2>4. \A d \in Tabs : call'[d] # None /\ call'[d].kind # "exchange"
                        => state'[d].token # 0 \/ stored'[d] # 0
    BY <1>1, <1>2, Zenon DEF IInv, KeyInv
  <2> QED BY <1>2, <2>1, <2>2, <2>4, Zenon DEF IInv, KeyInv
<1> QED BY <1>4, <1>5, <1>6, <1>7, <1>8, Zenon

\* An arriving request is answered and nothing is written (Answer).
LEMMA AnswerStep ==
    ASSUME IInv, NEW r \in net, NEW tag \in {"ok", "invalid", "conflict", "refused", "gone"}, NEW view \in View,
           Answer(r, tag, view), Unwritten, net' = net \ {r},
           UNCHANGED <<now, storage, sent, call, keys, acked>>,
           view.version = view.token, view.open => OpenAt(view.token), tag = "ok" => view.token # 0,
           r.kind = "submit" /\ tag = "ok" =>
                /\ r.token \in Tokens
                /\ \E k \in 1..Len(log) : log[k].token = r.token /\ log[k].input = r.input,
           r.kind = "exchange" /\ tag = "ok" => link.consumed /\ r.key = link.key,
           r.kind = "submit" /\ tag = "conflict" =>
                /\ r.token < flow.token
                /\ \A k \in 1..Len(log) : log[k].token = r.token /\ log[k].input = r.input
                                          => log[k].at + Grace <= now
    PROVE  RowInv' /\ LogInv' /\ ViewInv' /\ RequestInv' /\ AnswerInv' /\ KeyInv'
<1>1. /\ UNCHANGED <<link, flow, log, state, stored, pending>>
      /\ UNCHANGED <<now, call, keys>>
    BY Zenon DEF Unwritten, server, storage
<1>2. /\ call \in [Tabs -> Request \cup {None}] /\ reply \in [Tabs -> Reply]
      /\ link.key \in Nat /\ r \in Request /\ r.from \in Tabs /\ r.key \in Nat
    BY Zenon DEF IInv, TypeOK, Link, Request
<1>3. \/ reply' = reply
      \/ /\ call[r.from] = r
         /\ reply' = [reply EXCEPT ![r.from] = [tag |-> tag, view |-> view]]
    BY Zenon DEF Answer
<1>4. RowInv' /\ LogInv'
    BY <1>1, Zenon DEF IInv, RowInv, LogInv
<1>5. RequestInv'
    BY <1>1, Zenon DEF IInv, RequestInv, OpenAt
<1>6. r.kind = "submit" => r.input # None
    BY Zenon DEF IInv, RequestInv
<1>7. ViewInv'
  <2>1. \A n \in Nat : OpenAt(n)' <=> OpenAt(n)
    BY <1>1, Zenon DEF OpenAt
  <2>2. \A d \in Tabs : state[d].token \in Nat /\ reply[d].view.token \in Nat
    BY Zenon DEF IInv, TypeOK, View, Reply
  <2>3. view.token \in Nat
    BY Zenon DEF View
  <2>4. r # None
    BY <1>2, TokensAssumption, Zenon
  <2> QED BY <1>1, <1>2, <1>3, <2>1, <2>2, <2>3, <2>4 DEF IInv, ViewInv
<1>8. AnswerInv'
    BY <1>1, <1>2, <1>3, <1>6 DEF IInv, AnswerInv
<1>9. KeyInv'
  <2>1. \A d \in Tabs, k \in Nat : KeyOf(d, k)' => KeyOf(d, k)
    BY <1>1, Zenon DEF KeyOf
  <2>2. \A d \in Tabs : Has(d)' => Has(d) \/ (d = r.from /\ call[d] = r /\ tag = "ok")
    BY <1>1, <1>2, <1>3 DEF Has
  <2>3. r.key # 0 => KeyOf(r.from, r.key)
    BY <1>2, Zenon DEF KeyOf
  <2>4. \A d \in Tabs : Has(d)' =>
            Has(d) \/ (d = r.from /\ link.consumed /\ r.key = link.key /\ r.key # 0)
    <3>1. call[r.from] = r /\ r.kind # "exchange" => Has(r.from)
      BY <1>2, TokensAssumption DEF IInv, KeyInv, Has
    <3>2. r.kind = "exchange" => r.key # 0
      BY Zenon DEF IInv, KeyInv
    <3> QED BY <2>2, <3>1, <3>2, Zenon
  <2>5. \A d \in Tabs : Has(d)' => link.consumed /\ \A e \in Tabs : KeyOf(e, link.key) => e = d
    BY <1>2, <2>3, <2>4, Zenon DEF IInv, KeyInv
  <2>6. \A d, e \in Tabs : Has(d)' /\ Has(e)' => d = e
    BY <1>2, <2>3, <2>4 DEF IInv, KeyInv
  <2>7. \A e \in Tabs : KeyOf(e, link.key)' => KeyOf(e, link.key)
    BY <1>1, <1>2, <2>1, Zenon
  <2> QED BY <1>1, <1>2, <2>1, <2>5, <2>6, <2>7 DEF IInv, KeyInv
<1> QED BY <1>4, <1>5, <1>7, <1>8, <1>9, Zenon

\* The link is exchanged for the flow (Consume).
LEMMA ExchangeStep ==
    ASSUME IInv, NEW r \in net, r.kind = "exchange", Consume(r), net' = net \ {r},
           UNCHANGED <<now, storage, sent, call, keys, acked>>
    PROVE  RowInv' /\ LogInv' /\ ViewInv' /\ RequestInv' /\ AnswerInv' /\ KeyInv'
<1> DEFINE v == [token |-> 1, version |-> 1, open |-> TRUE]
<1>1. /\ link' = [consumed |-> TRUE, key |-> r.key, token |-> 1, until |-> now + Grace]
      /\ flow' = [flow EXCEPT !.status = "pending", !.version = 1, !.token = 1]
      /\ Answer(r, "ok", v)
      /\ ~link.consumed /\ UNCHANGED <<log, now, call, keys, state, stored, pending>>
    BY Zenon DEF Consume, storage
<1>2. v.token = 1 /\ v.version = 1 /\ v.open = TRUE
    BY Zenon
<1> HIDE DEF v
<1>3. /\ call \in [Tabs -> Request \cup {None}] /\ reply \in [Tabs -> Reply] /\ flow \in Flow
      /\ r \in Request /\ r # None /\ r.from \in Tabs /\ r.key \in Nat /\ net \subseteq Request
    BY TokensAssumption, Zenon DEF IInv, TypeOK, Request
<1>4. link'.consumed /\ link'.key = r.key /\ link'.token = 1
    BY <1>1, Zenon
<1>5. /\ flow'.token = 1 /\ flow'.version = 1 /\ flow'.status = "pending" /\ flow'.prev = flow.prev
      /\ flow.token = 0 /\ flow.prev = 0 /\ log = <<>>
    BY <1>1, <1>3, Zenon DEF IInv, RowInv, Flow
<1>6. \/ reply' = reply
      \/ call[r.from] = r /\ reply' = [reply EXCEPT ![r.from] = [tag |-> "ok", view |-> v]]
    BY <1>1, Zenon DEF Answer
<1>7. RowInv'
    BY <1>4, <1>5 DEF RowInv
<1>8. LogInv'
    BY <1>1, <1>5 DEF LogInv
<1>9. ViewInv'
  <2>1. \A n \in Nat : OpenAt(n) => OpenAt(n)'
    BY <1>5 DEF OpenAt
  <2>2. OpenAt(1)'
    BY <1>5 DEF OpenAt
  <2>3. \A d \in Tabs : state[d].token \in Nat /\ reply[d].view.token \in Nat
    BY Zenon DEF IInv, TypeOK, View, Reply
  <2> QED BY <1>1, <1>2, <1>3, <1>6, <2>1, <2>2, <2>3 DEF IInv, ViewInv
<1>10. RequestInv'
  <2>1. \A q \in net : q.token \in Nat
    BY <1>3, Zenon DEF Request
  <2> QED BY <1>5, <2>1 DEF IInv, RequestInv, OpenAt
<1>11. \A d \in Tabs : ~Has(d)
    BY <1>1, Zenon DEF IInv, KeyInv
<1>12. AnswerInv'
  <2>1. \A d \in Tabs : call[d] # None /\ reply[d].tag = "conflict" /\ call[d].kind = "submit" =>
            call[d].token < 0
    BY <1>5, Zenon DEF IInv, AnswerInv
  <2>2. \A d \in Tabs : call[d] # None => call[d].token \in Nat
    BY <1>3, Zenon DEF Request
  <2>3. \A d \in Tabs : reply[d].tag # "ok"
    BY <1>11, Zenon DEF Has
  <2> QED BY <1>1, <1>2, <1>3, <1>5, <1>6, <2>1, <2>2, <2>3 DEF AnswerInv
<1>13. KeyInv'
  <2>1. \A d \in Tabs, k \in Nat : KeyOf(d, k)' => KeyOf(d, k)
    BY <1>1, Zenon DEF KeyOf
  <2>2. r.key # 0 /\ KeyOf(r.from, r.key)
    BY <1>3, Zenon DEF IInv, KeyInv, KeyOf
  <2>3. \A d \in Tabs : Has(d)' => d = r.from
    BY <1>1, <1>3, <1>6, <1>11, Zenon DEF Has
  <2>4. \A e \in Tabs : KeyOf(e, link.key)' => e = r.from
    BY <1>3, <1>4, <2>1, <2>2, Zenon DEF IInv, KeyInv
  <2>5. r.key <= keys
    BY <1>3, <2>2, Zenon DEF IInv, KeyInv
  <2>6. \A d \in Tabs : call'[d] # None /\ call'[d].kind # "exchange"
                        => state'[d].token # 0 \/ stored'[d] # 0
    BY <1>1, Zenon DEF IInv, KeyInv
  <2> QED BY <1>1, <1>4, <2>1, <2>3, <2>4, <2>5, <2>6 DEF IInv, KeyInv
<1> QED BY <1>7, <1>8, <1>9, <1>10, <1>12, <1>13, Zenon

\* An action is carried out and the token rotates (Apply).
LEMMA ApplyStep ==
    ASSUME IInv, NEW r \in net, r.kind \in {"submit", "resend"}, r.token = flow.token,
           flow.status = "pending", Apply(r), net' = net \ {r},
           UNCHANGED <<now, storage, sent, call, keys, acked>>
    PROVE  RowInv' /\ LogInv' /\ ViewInv' /\ RequestInv' /\ AnswerInv' /\ KeyInv'
<1> DEFINE v == [token |-> flow'.token, version |-> flow'.version, open |-> flow'.status = "pending"]
           e == [token |-> r.token, input |-> r.input, at |-> now]
<1>1. Answer(r, "ok", v) /\ log' = Append(log, e) /\ flow.token < MaxToken
      /\ UNCHANGED <<link, now, call, keys, state, stored, pending>>
    BY Zenon DEF Apply, storage
<1>2. PICK status \in {"pending", "closed"} :
        flow' = [status |-> status, version |-> flow.version + 1, token |-> NextToken,
                 prev |-> r.token, hash |-> Hash(r), until |-> now + Grace]
    BY Zenon DEF Apply
<1>3. /\ flow'.status = status /\ flow'.version = flow.version + 1 /\ flow'.token = flow.token + 1
      /\ flow'.prev = r.token /\ flow'.until = now + Grace
      /\ flow'.hash.kind = r.kind /\ flow'.hash.input = r.input /\ flow'.hash.version = r.version
    BY <1>2, Zenon DEF NextToken, Hash
<1>4. v.token = flow'.token /\ v.version = flow'.version /\ (v.open <=> flow'.status = "pending")
      /\ e.token = r.token /\ e.input = r.input /\ e.at = now
    BY Zenon
<1> HIDE DEF v, e
<1>5. /\ call \in [Tabs -> Request \cup {None}] /\ reply \in [Tabs -> Reply] /\ flow.token \in Nat
      /\ r \in Request /\ r # None /\ r.from \in Tabs /\ log \in Seq(Entry) /\ now \in Nat
      /\ net \subseteq Request /\ link.key \in Nat /\ r.key \in Nat
    BY TokensAssumption, Zenon DEF IInv, TypeOK, Request, Flow, Link
<1>6. /\ link.consumed /\ flow.token >= 1 /\ flow.version = flow.token /\ link.token = 1
      /\ r.token \in Tokens
    BY <1>1, <1>5, TokensAssumption DEF IInv, RowInv, Tokens
<1>7. /\ Len(log') = Len(log) + 1 /\ Len(log) \in Nat /\ log'[Len(log) + 1] = e
      /\ \A k \in 1..Len(log) : log'[k] = log[k]
    BY <1>1, <1>5
<1>8. \A k \in 1..Len(log') : k \in 1..Len(log) \/ k = Len(log) + 1
    BY <1>7
<1>9. /\ r.kind = "submit" => r.input # None /\ r.version = r.token
      /\ r.kind = "resend" => r.input = None
    BY Zenon DEF IInv, RequestInv
<1>10. RowInv'
    BY <1>1, <1>3, <1>5, <1>6 DEF RowInv
<1>11. LogInv'
  <2>1. \A k \in 1..Len(log) : log[k].token \in Tokens /\ log[k].token < flow.token
    BY Zenon DEF IInv, LogInv
  <2>2. \A k \in 1..Len(log) : log[k].token \in Nat
    BY <2>1, TokensAssumption DEF Tokens
  <2>3. \A k \in 1..Len(log') : log'[k].token \in Tokens /\ log'[k].token < flow'.token
    BY <1>3, <1>4, <1>5, <1>6, <1>7, <1>8, <2>1, <2>2
  <2>4. \A k \in 1..Len(log') : log'[k].token <= flow'.prev
    BY <1>3, <1>4, <1>5, <1>7, <1>8, <2>1, <2>2, SMTT(30)
  <2>5. \A k \in 1..Len(log') : log'[k].token = flow'.prev => k = Len(log) + 1
    BY <1>3, <1>5, <1>7, <1>8, <2>1, <2>2
  <2>6. Len(log) + 1 \in 1..Len(log')
    BY <1>7
  <2>7. /\ e.input = flow'.hash.input /\ flow'.until = e.at + Grace
        /\ e.input # None => flow'.hash.kind = "submit" /\ flow'.hash.version = flow'.prev
    BY <1>3, <1>4, <1>9, Zenon
  <2>8. flow'.prev < flow'.token
    BY <1>3, <1>5
  <2> QED BY <1>3, <1>4, <1>7, <2>3, <2>4, <2>5, <2>6, <2>7, <2>8, Zenon DEF LogInv
<1>12. \A n \in Nat : OpenAt(n) => OpenAt(n)'
    BY <1>3, <1>5 DEF OpenAt
<1>13. \/ reply' = reply
       \/ call[r.from] = r /\ reply' = [reply EXCEPT ![r.from] = [tag |-> "ok", view |-> v]]
    BY <1>1, Zenon DEF Answer
<1>14. ViewInv'
  <2>1. /\ v.open => v.token <= flow'.token /\ (v.token = flow'.token => flow'.status # "closed")
        /\ v.token \in Nat
    BY <1>3, <1>4, <1>5
  <2>2. \A d \in Tabs : state[d].token \in Nat /\ reply[d].view.token \in Nat
    BY Zenon DEF IInv, TypeOK, View, Reply
  <2>3. v.version = v.token /\ v.token # 0
    BY <1>3, <1>4, <1>5, <1>6
  <2>4. \A n \in Nat : OpenAt(n)' <=> n <= flow'.token /\ (n = flow'.token => flow'.status # "closed")
    BY Zenon DEF OpenAt
  <2>5. CASE reply' = reply
    BY <1>1, <1>12, <2>2, <2>5, Zenon DEF IInv, ViewInv
  <2>6. CASE call[r.from] = r /\ reply' = [reply EXCEPT ![r.from] = [tag |-> "ok", view |-> v]]
    <3>1. reply'[r.from].view = v /\ \A d \in Tabs \ {r.from} : reply'[d] = reply[d]
      BY <1>5, <2>6, Zenon
    <3>2. v.open => OpenAt(reply[r.from].view.token)'
      BY <1>5, <2>1, <2>4, <3>1, Zenon
    <3> QED BY <1>1, <1>5, <1>12, <2>2, <2>3, <2>6, <3>1, <3>2 DEF IInv, ViewInv
  <2> QED BY <1>13, <2>5, <2>6, Zenon
<1>15. RequestInv'
  <2>1. \A q \in net : q.token \in Nat
    BY <1>5, Zenon DEF Request
  <2> QED BY <1>12, <2>1, Zenon DEF IInv, RequestInv
<1>16. AnswerInv'
  <2>1. \A d \in Tabs : call[d] # None /\ call[d].kind = "submit" => call[d].token \in Nat
    BY <1>5, Zenon DEF Request
  <2>2. flow.token < flow'.token
    BY <1>3, <1>5
  <2>3. \A k \in 1..Len(log) : k \in 1..Len(log') /\ log'[k] = log[k]
    BY <1>7
  <2>4. Len(log) + 1 \in 1..Len(log')
    BY <1>7
  <2>5. \A d \in Tabs : reply'[d].tag = "conflict" => reply[d].tag = "conflict"
    BY <1>5, <1>13
  <2>6. \A d \in Tabs : reply'[d].tag = "ok" /\ call[d] # r => reply'[d] = reply[d]
    BY <1>5, <1>13, Zenon
  <2> SUFFICES ASSUME NEW d \in Tabs, call[d] # None
               PROVE  /\ call[d].kind = "submit" /\ reply'[d].tag = "ok" =>
                           /\ call[d].input # None /\ call[d].token \in Tokens
                           /\ \E k \in 1..Len(log') : log'[k].token = call[d].token /\ log'[k].input = call[d].input
                      /\ call[d].kind = "submit" /\ reply'[d].tag = "conflict" => call[d].token < flow'.token
                      /\ call[d].kind = "submit" /\ reply'[d].tag = "conflict" =>
                           \A k \in 1..Len(log') : log'[k].token = call[d].token /\ log'[k].input = call[d].input
                                                   => log'[k].at + Grace <= now
    BY <1>1 DEF AnswerInv
  <2>7. /\ call[d].kind = "submit" /\ reply[d].tag = "ok" =>
             /\ call[d].input # None /\ call[d].token \in Tokens
             /\ \E k \in 1..Len(log) : log[k].token = call[d].token /\ log[k].input = call[d].input
        /\ call[d].kind = "submit" /\ reply[d].tag = "conflict" => call[d].token < flow.token
        /\ call[d].kind = "submit" /\ reply[d].tag = "conflict" =>
             \A k \in 1..Len(log) : log[k].token = call[d].token /\ log[k].input = call[d].input
                                     => log[k].at + Grace <= now
    BY Zenon DEF IInv, AnswerInv
  <2>8. call[d].kind = "submit" /\ reply'[d].tag = "ok" =>
             /\ call[d].input # None /\ call[d].token \in Tokens
             /\ \E k \in 1..Len(log') : log'[k].token = call[d].token /\ log'[k].input = call[d].input
    <3>1. CASE call[d] = r
      BY <1>4, <1>6, <1>7, <1>9, <2>4, <3>1, Zenon
    <3>2. CASE call[d] # r
      BY <2>3, <2>6, <2>7, <3>2, Zenon
    <3> QED BY <3>1, <3>2, Zenon
  <2>9. call[d].kind = "submit" /\ reply'[d].tag = "conflict" => call[d].token < flow'.token
    BY <1>3, <1>5, <2>1, <2>5, <2>7
  <2>10. call[d].kind = "submit" /\ reply'[d].tag = "conflict" =>
             \A k \in 1..Len(log') : log'[k].token = call[d].token /\ log'[k].input = call[d].input
                                     => log'[k].at + Grace <= now
    BY <1>4, <1>5, <1>7, <1>8, <2>1, <2>3, <2>5, <2>7, SMTT(30)
  <2> QED BY <2>8, <2>9, <2>10, Zenon
<1>17. KeyInv'
  <2>1. \A d \in Tabs, k \in Nat : KeyOf(d, k)' => KeyOf(d, k)
    BY <1>1, Zenon DEF KeyOf
  <2>2. \A d \in Tabs : Has(d)' => Has(d)
    <3>1. call[r.from] = r => Has(r.from)
      BY <1>5, Zenon DEF IInv, KeyInv, Has
    <3> QED BY <1>1, <1>5, <1>13, <3>1, Zenon DEF Has
  <2>3. \A e1 \in Tabs : KeyOf(e1, link.key)' => KeyOf(e1, link.key)
    BY <1>1, <1>5, <2>1, Zenon
  <2> QED BY <1>1, <1>5, <2>1, <2>2, <2>3 DEF IInv, KeyInv
<1> QED BY <1>10, <1>11, <1>14, <1>15, <1>16, <1>17, Zenon

\* What the server answers of the flow is what the flow is (CurrentView).
LEMMA CurrentViewFacts ==
    ASSUME IInv
    PROVE  /\ CurrentView \in View /\ CurrentView.version = CurrentView.token
           /\ CurrentView.token = flow.token
           /\ CurrentView.open => OpenAt(CurrentView.token)
<1>1. flow \in Flow /\ flow.version = flow.token /\ flow.token \in Nat
    BY Zenon DEF IInv, TypeOK, RowInv
<1>2. CurrentView \in View
    BY <1>1, Zenon DEF CurrentView, View, Flow
<1>3. CurrentView.token = flow.token /\ CurrentView.version = flow.version
      /\ (CurrentView.open <=> flow.status = "pending")
    BY Zenon DEF CurrentView
<1> QED BY <1>1, <1>2, <1>3 DEF OpenAt

\* A request arrives (Deliver).
LEMMA DeliverStep ==
    ASSUME IInv, NEW r \in net, Deliver(r)
    PROVE  RowInv' /\ LogInv' /\ ViewInv' /\ RequestInv' /\ AnswerInv' /\ KeyInv'
<1>1. net' = net \ {r} /\ UNCHANGED <<now, storage, sent, call, keys, acked>>
    BY Zenon DEF Deliver
<1>2. /\ r \in Request /\ flow \in Flow /\ link \in Link /\ r.token \in Nat /\ flow.token \in Nat
      /\ now \in Nat /\ flow.prev \in Nat /\ log \in Seq(Entry)
    BY Zenon DEF IInv, TypeOK, Request, Flow
<1>3. NoView \in View /\ NoView.version = NoView.token /\ NoView.token = 0 /\ ~NoView.open
    BY Zenon DEF NoView, View
<1>4. /\ r.kind = "submit" => r.token # 0 /\ r.version = r.token /\ r.input # None /\ OpenAt(r.token)
      /\ r.kind = "exchange" => r.key # 0
      /\ r.kind # "exchange" => r.token # 0
    BY Zenon DEF IInv, RequestInv, KeyInv
<1>5. flow.version = flow.token /\ (flow.token # 0 => link.consumed /\ link.token = 1 /\ flow.status # "none")
    BY Zenon DEF IInv, RowInv
<1>6. CASE Unwritten /\ Answer(r, "ok", CurrentView) /\ r.kind = "exchange" /\ link.consumed /\ Replayable(r)
  <2>1. CurrentView.token # 0 /\ r.key = link.key
    BY <1>5, <1>6, CurrentViewFacts DEF Replayable, KeyMatches, IInv, RowInv
  <2> QED BY <1>1, <1>6, <2>1, AnswerStep, CurrentViewFacts, Zenon
<1>7. CASE Unwritten /\ Answer(r, "ok", CurrentView) /\ r.kind = "get" /\ r.token = flow.token
  <2>1. CurrentView.token # 0
    BY <1>4, <1>7, CurrentViewFacts, Zenon
  <2> QED BY <1>1, <1>7, <2>1, AnswerStep, CurrentViewFacts, Zenon
<1>8. CASE Unwritten /\ Answer(r, "ok", CurrentView) /\ r.kind \in {"submit", "resend"} /\ Retry(r)
  <2>1. r.token = flow.prev /\ r.token # 0 /\ flow.prev < flow.token /\ CurrentView.token # 0
    BY <1>2, <1>4, <1>8, CurrentViewFacts DEF Retry, IInv, LogInv
  <2>2. flow.hash.input = r.input
    BY <1>8 DEF Retry, Hash
  <2>3. r.token \in Tokens /\ \E k \in 1..Len(log) : log[k].token = r.token /\ log[k].input = r.input
    BY <2>1, <2>2, Zenon DEF IInv, LogInv
  <2> QED BY <1>1, <1>8, <2>1, <2>3, AnswerStep, CurrentViewFacts, Zenon
<1>9. CASE Unwritten /\ Answer(r, "ok", CurrentView) /\ r.kind \in {"submit", "resend"} /\ Found(r.token)
           /\ r.token = flow.token /\ flow.status # "pending"
  <2>1. r.kind # "submit" /\ CurrentView.token # 0
    BY <1>2, <1>4, <1>5, <1>9, CurrentViewFacts, Zenon DEF Found, Flow, OpenAt
  <2> QED BY <1>1, <1>9, <2>1, AnswerStep, CurrentViewFacts, Zenon
<1>10. CASE Unwritten /\ Answer(r, "conflict", NoView) /\ r.kind = "get"
    BY <1>1, <1>3, <1>10, AnswerStep, Zenon
<1>11. CASE Unwritten /\ Answer(r, "conflict", NoView) /\ r.kind \in {"submit", "resend"} /\ Found(r.token)
            /\ r.token # flow.token /\ ~Retry(r)
  <2>1. r.kind = "submit" => r.token < flow.token
    BY <1>2, <1>4, <1>11 DEF OpenAt
  <2>2. r.kind = "submit" => \A k \in 1..Len(log) : log[k].token = r.token /\ log[k].input = r.input
                                                    => log[k].at + Grace <= now
    <3> SUFFICES ASSUME r.kind = "submit", NEW k \in 1..Len(log), log[k].token = r.token, log[k].input = r.input
                 PROVE  log[k].at + Grace <= now
        BY Zenon
    <3>1. r.token = flow.prev
        BY <1>11, Zenon DEF Found
    <3>2. /\ flow.hash.input = r.input /\ flow.until = log[k].at + Grace
          /\ flow.hash.kind = "submit" /\ flow.hash.version = r.version
        BY <1>4, <3>1, Zenon DEF IInv, LogInv
    <3>3. Hash(r) = flow.hash
        BY <1>2, <3>2, Zenon DEF Hash, Flow, Digest
    <3>4. flow.until \in Nat
        BY <1>2, Zenon DEF Flow
    <3> QED BY <1>2, <1>11, <3>1, <3>2, <3>3, <3>4 DEF Retry
  <2> QED BY <1>1, <1>3, <1>11, <2>1, <2>2, AnswerStep, Zenon
<1>12. CASE Unwritten /\ Answer(r, "conflict", NoView) /\ r.kind = "submit"
            /\ r.token = flow.token /\ r.version # flow.version
    BY <1>4, <1>5, <1>12, Zenon
<1>13. CASE Unwritten /\ \E tag \in {"invalid", "refused", "gone"} : Answer(r, tag, NoView)
  <2>1. PICK tag \in {"invalid", "refused", "gone"} : Answer(r, tag, NoView)
    BY <1>13, Zenon
  <2> QED BY <1>1, <1>3, <1>13, <2>1, AnswerStep, Zenon
<1>14. CASE r.kind = "exchange" /\ Consume(r)
    BY <1>1, <1>14, ExchangeStep, Zenon
<1>15. CASE r.kind \in {"submit", "resend"} /\ r.token = flow.token /\ flow.status = "pending" /\ Apply(r)
    BY <1>1, <1>15, ApplyStep, Zenon
<1> QED BY <1>6, <1>7, <1>8, <1>9, <1>10, <1>11, <1>12, <1>13, <1>14, <1>15, DeliverCases, Zenon

-----------------------------------------------------------------------------
(* The theorems *)

\* The first state satisfies the invariant.
LEMMA InitInv == Init => IInv
<1> SUFFICES ASSUME Init PROVE IInv
    BY Zenon
<1>1. NoView \in View /\ NoReply \in Reply /\ NoReply.tag = "none" /\ NoReply.view = NoView
      /\ NoView.token = 0 /\ NoView.version = 0 /\ NoView.open = FALSE
    BY Zenon DEF NoView, NoReply, View, Reply
<1>2. TypeOK
    BY <1>1 DEF Init, TypeOK, Link, Flow, NoHash, Digest, Kinds, Input
<1>3. RowInv /\ LogInv /\ RequestInv
    BY DEF Init, RowInv, LogInv, RequestInv
<1>4. ViewInv /\ AnswerInv
    BY <1>1, Zenon DEF Init, ViewInv, AnswerInv
<1>5. KeyInv
    BY <1>1 DEF Init, KeyInv, KeyOf, Has
<1> QED BY <1>2, <1>3, <1>4, <1>5, Zenon DEF IInv

\* Every step of the tabs, the server and the clock keeps the invariant.
LEMMA InvStep == IInv /\ [Next]_vars => IInv'
<1> SUFFICES ASSUME IInv, [Next]_vars PROVE RowInv' /\ LogInv' /\ ViewInv' /\ RequestInv' /\ AnswerInv' /\ KeyInv'
    BY TypeStep, Zenon DEF IInv
<1>1. /\ state \in [Tabs -> View] /\ stored \in [Tabs -> Nat] /\ pending \in [Tabs -> Nat]
      /\ reply \in [Tabs -> Reply] /\ keys \in Nat /\ None \in Input /\ NoView \in View
    BY Zenon DEF IInv, TypeOK, Input, NoView, View
<1>2. \A c \in Tabs : state[c].token \in Nat /\ state[c].version \in Nat
    BY <1>1, Zenon DEF View
<1>3. ASSUME NEW c \in Tabs, OpenLink(c) PROVE RowInv' /\ LogInv' /\ ViewInv' /\ RequestInv' /\ AnswerInv' /\ KeyInv'
  <2>1. CASE pending[c] # 0 /\ Call(c, "exchange", 0, pending[c], None, 0) /\ UNCHANGED <<storage, keys>>
    BY <1>1, <2>1, CallStep, Zenon DEF Kinds
  <2> QED BY <1>3, <2>1, OpenStep, Zenon DEF OpenLink
<1>4. ASSUME NEW c \in Tabs, Resume(c) PROVE RowInv' /\ LogInv' /\ ViewInv' /\ RequestInv' /\ AnswerInv' /\ KeyInv'
  <2>1. CASE state[c].token # 0
    <3>1. Call(c, "get", state[c].token, 0, None, 0) /\ UNCHANGED <<storage, keys>>
        BY <1>4, <2>1, Zenon DEF Resume
    <3> QED BY <1>1, <1>2, <2>1, <3>1, CallStep, Zenon DEF Kinds
  <2>2. CASE state[c].token = 0 /\ stored[c] # 0
    <3>1. Call(c, "get", stored[c], 0, None, 0) /\ UNCHANGED <<storage, keys>>
        BY <1>4, <2>2, Zenon DEF Resume
    <3> QED BY <1>1, <1>2, <2>2, <3>1, CallStep, Zenon DEF Kinds
  <2>3. CASE state[c].token = 0 /\ stored[c] = 0
    <3>1. pending[c] # 0 /\ Call(c, "exchange", 0, pending[c], None, 0) /\ UNCHANGED <<storage, keys>>
        BY <1>4, <2>3, Zenon DEF Resume
    <3> QED BY <1>1, <3>1, CallStep, Zenon DEF Kinds
  <2> QED BY <2>1, <2>2, <2>3, Zenon
<1>5. ASSUME NEW c \in Tabs, Resend(c) PROVE RowInv' /\ LogInv' /\ ViewInv' /\ RequestInv' /\ AnswerInv' /\ KeyInv'
    BY <1>1, <1>2, <1>5, CallStep, Zenon DEF Resend, Kinds
<1>6. ASSUME NEW c \in Tabs, NEW i \in Inputs, Submit(c, i)
      PROVE  RowInv' /\ LogInv' /\ ViewInv' /\ RequestInv' /\ AnswerInv' /\ KeyInv'
  <2>1. i \in Input /\ i # None
    BY TokensAssumption, Zenon DEF Input
  <2>2. OpenAt(state[c].token) /\ state[c].version = state[c].token
    BY <1>6, Zenon DEF Submit, IInv, ViewInv
  <2> QED BY <1>1, <1>2, <1>6, <2>1, <2>2, CallStep, Zenon DEF Submit, Kinds
<1>7. ASSUME NEW c \in Tabs, Receive(c) PROVE RowInv' /\ LogInv' /\ ViewInv' /\ RequestInv' /\ AnswerInv' /\ KeyInv'
  <2> DEFINE p == IF call[c].kind = "exchange" /\ reply[c].tag \in {"ok", "invalid", "gone"} THEN 0 ELSE pending[c]
             t == IF reply[c].view.open THEN reply[c].view.token ELSE 0
  <2>1. /\ EndCall(c) /\ UNCHANGED <<now, link, flow, log, net, keys>>
        /\ pending' = [pending EXCEPT ![c] = p] /\ p \in Nat /\ p \in {0, pending[c]}
    BY <1>1, <1>7, Zenon DEF Receive, server
  <2>2. reply[c].view \in View /\ t \in Nat
    BY <1>1, Zenon DEF Reply, View
  <2> HIDE DEF p, t
  <2>3. CASE reply[c].tag = "ok"
    <3>1. state' = [state EXCEPT ![c] = reply[c].view] /\ stored' = [stored EXCEPT ![c] = t]
        BY <1>7, <2>3, Zenon DEF Receive, t
    <3> QED BY <2>1, <2>2, <2>3, <3>1, EndStep, Zenon
  <2>4. CASE reply[c].tag = "gone"
    <3>1. state' = [state EXCEPT ![c] = NoView] /\ stored' = [stored EXCEPT ![c] = 0]
        BY <1>7, <2>4, Zenon DEF Receive
    <3> QED BY <1>1, <2>1, <3>1, EndStep, Zenon
  <2>5. CASE reply[c].tag \notin {"ok", "gone"}
    <3>1. state' = [state EXCEPT ![c] = state[c]] /\ stored' = [stored EXCEPT ![c] = stored[c]]
        BY <1>1, <1>7, <2>5, Zenon DEF Receive
    <3> QED BY <1>1, <2>1, <3>1, EndStep, Zenon
  <2> QED BY <2>3, <2>4, <2>5, Zenon
<1>8. ASSUME NEW c \in Tabs, GiveUp(c) \/ Reload(c)
      PROVE  RowInv' /\ LogInv' /\ ViewInv' /\ RequestInv' /\ AnswerInv' /\ KeyInv'
  <2>1. PICK v \in {state[c], NoView} :
            /\ EndCall(c) /\ UNCHANGED <<now, link, flow, log, net, keys>>
            /\ state' = [state EXCEPT ![c] = v] /\ stored' = [stored EXCEPT ![c] = stored[c]]
            /\ pending' = [pending EXCEPT ![c] = pending[c]]
    BY <1>1, <1>8, Zenon DEF GiveUp, Reload, server, storage
  <2> QED BY <1>1, <2>1, EndStep, Zenon
<1>9. CASE Expire
  <2>1. /\ flow' = [flow EXCEPT !.status = "gone"] /\ flow.status # "none" /\ flow \in Flow
        /\ UNCHANGED <<now, link, log, state, stored, pending, call, reply, net, keys>>
    BY <1>9, Zenon DEF Expire, storage, IInv, TypeOK
  <2>2. /\ flow'.version = flow.version /\ flow'.token = flow.token /\ flow'.prev = flow.prev
        /\ flow'.hash = flow.hash /\ flow'.until = flow.until /\ flow'.status = "gone"
    BY <2>1, Zenon DEF Flow
  <2>3. RowInv' /\ LogInv' /\ RequestInv'
    BY <2>1, <2>2 DEF IInv, RowInv, LogInv, RequestInv, OpenAt
  <2>4. ViewInv' /\ AnswerInv'
    BY <2>1, <2>2, Zenon DEF IInv, ViewInv, AnswerInv, OpenAt
  <2>5. KeyInv'
    BY <2>1 DEF IInv, KeyInv, KeyOf, Has
  <2> QED BY <2>3, <2>4, <2>5, Zenon
<1>10. CASE Tick
  <2>1. now' = now + 1 /\ now \in Nat /\ log \in Seq(Entry)
        /\ UNCHANGED <<flow, link, log, state, stored, pending, call, reply, net, keys>>
    BY <1>10, Zenon DEF Tick, server, storage, IInv, TypeOK
  <2>2. RowInv' /\ LogInv' /\ RequestInv' /\ ViewInv'
    BY <2>1, Zenon DEF IInv, RowInv, LogInv, RequestInv, ViewInv, OpenAt
  <2>3. AnswerInv'
    <3>1. \A k \in 1..Len(log) : log[k].at + Grace \in Nat
      <4>1. \A k \in 1..Len(log) : log[k] \in Entry
        BY <2>1
      <4> QED BY <4>1, TokensAssumption DEF Entry
    <3>2. \A n \in Nat : n <= now => n <= now'
      BY <2>1
    <3> QED BY <2>1, <3>1, <3>2, Zenon DEF IInv, AnswerInv
  <2>4. KeyInv'
    BY <2>1 DEF IInv, KeyInv, KeyOf, Has
  <2> QED BY <2>2, <2>3, <2>4, Zenon
<1>11. CASE UNCHANGED vars
  <2>1. UNCHANGED <<now, link, flow, log, state, stored, pending, sent, call, reply, net, keys, acked>>
    BY <1>11, Zenon DEF vars, server, storage
  <2>2. TypeOK' /\ RowInv' /\ LogInv'
    BY <2>1, Zenon DEF IInv, TypeOK, RowInv, LogInv
  <2>3. ViewInv' /\ RequestInv'
    BY <2>1, Zenon DEF IInv, ViewInv, RequestInv, OpenAt
  <2>4. AnswerInv'
    BY <2>1, Zenon DEF IInv, AnswerInv
  <2>5. KeyInv'
    BY <2>1 DEF IInv, KeyInv, KeyOf, Has
  <2> QED BY <2>2, <2>3, <2>4, <2>5, Zenon DEF IInv
<1> QED BY <1>3, <1>4, <1>5, <1>6, <1>7, <1>8, <1>9, <1>10, <1>11, DeliverStep, Zenon DEF Next

\* The invariant holds throughout.
THEOREM Invariance == Spec => []IInv
BY InitInv, InvStep, PTL DEF Spec

\* No two tabs ever hold the flow of one link (exchange, replayContinuation).
THEOREM HolderIsUnique == Spec => []OneHolder
<1>1. IInv => OneHolder
    BY Zenon DEF IInv, KeyInv, Has, OneHolder
<1> QED BY <1>1, Invariance, PTL

\* Within the grace a refused action was not carried out (mutateSecurityFlow).
THEOREM RefusalIsTrue == Spec => []RefusedNotDone
<1>1. IInv => RefusedNotDone
    BY Zenon DEF IInv, AnswerInv, ViewInv, RefusedNotDone
<1> QED BY <1>1, Invariance, PTL

\* What the promise sees of the log (Promise).
Actions == [k \in 1..Len(log) |-> [token |-> log[k].token, input |-> log[k].input]]

\* Only an action that is carried out changes the log, with a token that was never used,
\* and only an answer that reaches its tab acknowledges one, which is in the log.
LEMMA StepKeepsPromise == IInv /\ [Next]_vars => [Promise!Next]_<<Actions, acked>>
<1> SUFFICES ASSUME IInv, [Next]_vars PROVE Promise!Next \/ UNCHANGED <<Actions, acked>>
    BY Zenon
<1>0. /\ log \in Seq(Entry) /\ Len(log) \in Nat /\ net \subseteq Request
      /\ call \in [Tabs -> Request \cup {None}] /\ flow.token \in Nat
    BY DEF IInv, TypeOK, RowInv
<1>1. CASE UNCHANGED <<log, acked>>
    BY <1>1, Zenon DEF Actions
<1>2. ASSUME NEW c \in Tabs, Receive(c) PROVE Promise!Next \/ UNCHANGED <<Actions, acked>>
  <2>1. UNCHANGED log
    BY <1>2, Zenon DEF Receive, server
  <2>2. CASE call[c].kind = "submit" /\ reply[c].tag = "ok"
    <3> DEFINE r == [token |-> call[c].token, input |-> call[c].input]
    <3>1. acked' = acked \cup {r} /\ call[c] # None
      BY <1>2, <2>2, Zenon DEF Receive
    <3>2. r \in [token : Tokens, input : Input]
      BY <1>0, <2>2, <3>1, Zenon DEF IInv, AnswerInv, Request
    <3>3. PICK k \in 1..Len(log) : log[k].token = call[c].token /\ log[k].input = call[c].input
      BY <2>2, <3>1, Zenon DEF IInv, AnswerInv
    <3>4. Len(Actions) = Len(log) /\ Actions[k] = r
      BY <1>0, <3>3 DEF Actions
    <3>5. Actions' = Actions
      BY <2>1, Zenon DEF Actions
    <3> HIDE DEF r
    <3>6. Promise!Ack(r)
      BY <3>1, <3>3, <3>4, <3>5, Zenon DEF Promise!Ack, Actions
    <3> QED BY <3>2, <3>6, Zenon DEF Promise!Next, Promise!Requests
  <2>3. CASE ~(call[c].kind = "submit" /\ reply[c].tag = "ok")
    BY <1>2, <2>1, <2>3, Zenon DEF Receive, Actions
  <2> QED BY <2>2, <2>3, Zenon
<1>3. ASSUME NEW r \in net, Deliver(r) PROVE Promise!Next \/ UNCHANGED <<Actions, acked>>
  <2>1. UNCHANGED acked
    BY <1>3, Zenon DEF Deliver
  <2>2. CASE UNCHANGED log
    BY <1>1, <2>1, <2>2, Zenon
  <2>3. CASE r.kind \in {"submit", "resend"} /\ r.token = flow.token /\ flow.status = "pending" /\ Apply(r)
    <3> DEFINE a == [token |-> r.token, input |-> r.input]
               e == [token |-> r.token, input |-> r.input, at |-> now]
    <3>1. log' = Append(log, e) /\ flow.token < MaxToken
      BY <2>3, Zenon DEF Apply
    <3>2. link.consumed => flow.token >= 1
      BY Zenon DEF IInv, RowInv
    <3>3. a \in [token : Tokens, input : Input]
      <4>1. r \in Request /\ r.input \in Input /\ r.token \in Nat /\ r.token # 0
        BY <1>0, <2>3, Zenon DEF Request, IInv, RequestInv
      <4>2. r.token = flow.token
        BY <2>3, Zenon
      <4>3. r.token \in Tokens
        BY <3>1, <4>1, <4>2, TokensAssumption DEF Tokens
      <4> QED BY <4>1, <4>3, Zenon
    <3>4. \A k \in 1..Len(log) : log[k].token # r.token
      <4>1. \A k \in 1..Len(log) : log[k].token < flow.token
        BY Zenon DEF IInv, LogInv
      <4> QED BY <1>0, <2>3, <4>1
    <3>5. e.token = a.token /\ e.input = a.input /\ a.token = r.token /\ a = [token |-> e.token, input |-> e.input]
      BY Zenon
    <3> HIDE DEF a, e
    <3>6. Actions' = Append(Actions, a)
      <4>1. Len(Actions) = Len(log) /\ Actions \in Seq({Actions[k] : k \in 1..Len(log)})
        BY <1>0 DEF Actions
      <4>2. /\ Len(log') = Len(log) + 1 /\ log'[Len(log) + 1] = e
            /\ \A k \in 1..Len(log) : log'[k] = log[k]
        BY <1>0, <3>1
      <4>3. DOMAIN Append(Actions, a) = 1..(Len(log) + 1)
        BY <1>0, <4>1
      <4>4. DOMAIN Actions' = 1..(Len(log) + 1)
        BY <4>2, Zenon DEF Actions
      <4>5. \A k \in 1..Len(log) : Actions'[k] = Append(Actions, a)[k]
        BY <1>0, <4>1, <4>2 DEF Actions
      <4>6. Actions'[Len(log) + 1] = Append(Actions, a)[Len(log) + 1]
        BY <1>0, <3>5, <4>1, <4>2 DEF Actions
      <4> QED BY <1>0, <4>1, <4>3, <4>4, <4>5, <4>6 DEF Actions
    <3>7. \A k \in 1..Len(Actions) : Actions[k].token # a.token
      BY <1>0, <3>4, <3>5 DEF Actions
    <3>8. Promise!Do(a)
      BY <2>1, <3>6, <3>7, Zenon DEF Promise!Do, Actions
    <3> QED BY <3>3, <3>8, Zenon DEF Promise!Next, Promise!Requests
  <2>4. UNCHANGED log \/ (r.kind \in {"submit", "resend"} /\ r.token = flow.token /\ flow.status = "pending" /\ Apply(r))
    BY <1>3, DeliverCases, Zenon DEF Unwritten, server, Consume
  <2> QED BY <2>2, <2>3, <2>4, Zenon
<1>4. ASSUME NEW c \in Tabs,
             OpenLink(c) \/ Resume(c) \/ Resend(c) \/ (\E i \in Inputs : Submit(c, i)) \/ GiveUp(c) \/ Reload(c)
      PROVE  UNCHANGED <<log, acked>>
    BY <1>4, Zenon DEF OpenLink, Resume, Resend, Submit, GiveUp, Reload, Call, server
<1>5. Expire \/ Tick \/ UNCHANGED vars => UNCHANGED <<log, acked>>
    BY Zenon DEF Expire, Tick, vars, server
<1> QED BY <1>1, <1>2, <1>3, <1>4, <1>5, Zenon DEF Next

\* The flow's rotating token and the controller that holds it keep the promise of a
\* capability that is good for one action (mutateSecurityFlow, SecurityFlowController).
THEOREM ImplementsAtMostOnce == Spec => KeepsPromise
<1>1. Init => Promise!Init
    BY DEF Init, Promise!Init
<1> QED BY <1>1, StepKeepsPromise, Invariance, PTL DEF Spec, KeepsPromise, Promise!Spec, Actions
=============================================================================
