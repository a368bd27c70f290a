----------------------------- MODULE FlowTokens -----------------------------
(***************************************************************************)
(* The capability of a security flow and the client that holds it: one     *)
(* link, the flow it is exchanged for, browser tabs with the SDK's flow    *)
(* controller and a network that delays requests (for ever, if it loses    *)
(* them) and loses answers.                                                *)
(*                                                                         *)
(* Every request is one serializable transaction at the server (Deliver).  *)
(* A tab has one call under way; it may give up on it, and be reloaded, at *)
(* any time, and the request may then still arrive.  What the flow does    *)
(* with an action is SecurityFlows; here an action is an input, which may  *)
(* be refused or end the flow.  Tokens and exchange keys are numbers in    *)
(* the order of their creation, 0 for none.                                *)
(***************************************************************************)
EXTENDS Integers, Sequences

CONSTANTS
    Tabs, Inputs,
    None,
    Grace,      \* securityRetryGrace
    MaxTime,    \* bound on the clock
    MaxSends,   \* bound on the calls of each tab
    MaxToken    \* bound on the tokens of the flow

VARIABLES
    now,
    link,       \* the row of iam_security_continuations
    flow,       \* the row of iam_flows
    state,      \* the flow a controller has in memory
    stored,     \* the token in its session storage
    pending,    \* the key of the exchange in its session storage
    sent,       \* the calls it has made
    call, reply,    \* the call under way and the answer to it
    net,        \* requests that have not arrived
    keys,       \* exchange keys drawn so far
    log,        \* actions carried out, and when
    acked       \* actions a tab was told are carried out

server == <<link, flow, log>>
storage == <<state, stored, pending>>
vars == <<now, server, storage, sent, call, reply, net, keys, acked>>

Tokens == 1..MaxToken
Input == Inputs \cup {None}
Kinds == {"exchange", "get", "submit", "resend"}
Request == [from : Tabs, n : Nat, kind : Kinds, token : Nat, key : Nat, input : Input, version : Nat]
Digest == [kind : Kinds, input : Input, version : Nat]
Link == [consumed : BOOLEAN, key : Nat, token : Nat, until : Nat]
Flow == [status : {"none", "pending", "closed", "gone"}, version : Nat, token : Nat, prev : Nat,
         hash : Digest, until : Nat]
Entry == [token : Nat, input : Input, at : Nat]
View == [token : Nat, version : Nat, open : BOOLEAN]
Reply == [tag : {"none", "ok", "invalid", "conflict", "refused", "gone"}, view : View]

ASSUME TokensAssumption ==
    /\ None \notin Inputs /\ None \notin Request
    /\ Grace \in Nat /\ MaxTime \in Nat /\ MaxSends \in [Tabs -> Nat] /\ MaxToken \in Nat

NoView == [token |-> 0, version |-> 0, open |-> FALSE]
NoReply == [tag |-> "none", view |-> NoView]
NoHash == [kind |-> "get", input |-> None, version |-> 0]

\* Rows, controllers and requests keep their types.
TypeOK ==
    /\ now \in Nat /\ keys \in Nat /\ link \in Link /\ flow \in Flow
    /\ state \in [Tabs -> View] /\ stored \in [Tabs -> Nat] /\ pending \in [Tabs -> Nat]
    /\ sent \in [Tabs -> Nat] /\ call \in [Tabs -> Request \cup {None}] /\ reply \in [Tabs -> Reply]
    /\ net \subseteq Request /\ log \in Seq(Entry) /\ acked \subseteq [token : Nat, input : Input]

Init ==
    /\ now = 0 /\ net = {} /\ keys = 0 /\ log = <<>> /\ acked = {}
    /\ link = [consumed |-> FALSE, key |-> 0, token |-> 0, until |-> 0]
    /\ flow = [status |-> "none", version |-> 0, token |-> 0, prev |-> 0, hash |-> NoHash, until |-> 0]
    /\ state = [c \in Tabs |-> NoView] /\ stored = [c \in Tabs |-> 0] /\ pending = [c \in Tabs |-> 0]
    /\ sent = [c \in Tabs |-> 0] /\ call = [c \in Tabs |-> None] /\ reply = [c \in Tabs |-> NoReply]

-----------------------------------------------------------------------------
(* The controller in a tab *)

\* serial: one call at a time.
Call(c, kind, token, key, input, version) ==
    LET r == [from |-> c, n |-> sent[c] + 1, kind |-> kind, token |-> token, key |-> key,
              input |-> input, version |-> version]
    IN  /\ call[c] = None /\ sent[c] < MaxSends[c]
        /\ sent' = [sent EXCEPT ![c] = @ + 1] /\ call' = [call EXCEPT ![c] = r]
        /\ net' = net \cup {r}
        /\ UNCHANGED <<now, server, reply, acked>>

\* exchange and continueFromURL: prepareExchange keeps the key of an exchange that
\* is under way, or draws one and forgets the flow the tab had.
OpenLink(c) ==
    \/ /\ pending[c] # 0 /\ Call(c, "exchange", 0, pending[c], None, 0)
       /\ UNCHANGED <<storage, keys>>
    \/ /\ pending[c] = 0 /\ Call(c, "exchange", 0, keys + 1, None, 0)
       /\ keys' = keys + 1 /\ pending' = [pending EXCEPT ![c] = keys + 1]
       /\ stored' = [stored EXCEPT ![c] = 0] /\ state' = [state EXCEPT ![c] = NoView]

\* resume: the flow in memory or in storage, else an exchange under way.
Resume(c) ==
    LET token == IF state[c].token # 0 THEN state[c].token ELSE stored[c]
    IN  /\ \/ token # 0 /\ Call(c, "get", token, 0, None, 0)
           \/ token = 0 /\ pending[c] # 0 /\ Call(c, "exchange", 0, pending[c], None, 0)
        /\ UNCHANGED <<storage, keys>>

\* submit, of an action the state in memory offers.
Submit(c, i) ==
    /\ state[c].token # 0 /\ state[c].open
    /\ Call(c, "submit", state[c].token, 0, i, state[c].version)
    /\ UNCHANGED <<storage, keys>>

Resend(c) ==
    /\ state[c].token # 0
    /\ Call(c, "resend", state[c].token, 0, None, 0)
    /\ UNCHANGED <<storage, keys>>

\* The call under way ends.
EndCall(c) == call' = [call EXCEPT ![c] = None] /\ reply' = [reply EXCEPT ![c] = NoReply]

\* handle, and what exchangePending does after it.
Receive(c) ==
    LET a == reply[c]
    IN  /\ call[c] # None /\ a.tag # "none" /\ EndCall(c)
        /\ \/ /\ a.tag = "ok" /\ state' = [state EXCEPT ![c] = a.view]
              /\ stored' = [stored EXCEPT ![c] = IF a.view.open THEN a.view.token ELSE 0]
           \/ /\ a.tag = "gone" /\ state' = [state EXCEPT ![c] = NoView]
              /\ stored' = [stored EXCEPT ![c] = 0]
           \/ a.tag \notin {"ok", "gone"} /\ UNCHANGED <<state, stored>>
        /\ pending' = [pending EXCEPT ![c] =
                IF call[c].kind = "exchange" /\ a.tag \in {"ok", "invalid", "gone"} THEN 0 ELSE @]
        /\ acked' = IF call[c].kind = "submit" /\ a.tag = "ok"
                    THEN acked \cup {[token |-> call[c].token, input |-> call[c].input]} ELSE acked
        /\ UNCHANGED <<now, server, sent, net, keys>>

\* serial: the call ends with network_error.
GiveUp(c) ==
    /\ call[c] # None /\ EndCall(c)
    /\ UNCHANGED <<now, server, storage, sent, net, keys, acked>>

\* The page is loaded again: session storage is what is left.
Reload(c) ==
    /\ EndCall(c) /\ state' = [state EXCEPT ![c] = NoView]
    /\ UNCHANGED <<now, server, stored, pending, sent, net, keys, acked>>

-----------------------------------------------------------------------------
(* The server *)

CurrentView == [token |-> flow.token, version |-> flow.version, open |-> flow.status = "pending"]

\* The answer reaches the tab only if it still waits for it.
Answer(r, tag, view) ==
    reply' = IF call[r.from] = r THEN [reply EXCEPT ![r.from] = [tag |-> tag, view |-> view]] ELSE reply

Unwritten == UNCHANGED server

\* loadFlow
Found(token) == flow.status # "gone" /\ token \in {flow.token, flow.prev}

\* startSecurityFlow in exchange mode, of a link that is not consumed
Consume(r) ==
    /\ ~link.consumed
    /\ link' = [consumed |-> TRUE, key |-> r.key, token |-> 1, until |-> now + Grace]
    /\ flow' = [flow EXCEPT !.status = "pending", !.version = 1, !.token = 1]
    /\ Answer(r, "ok", [token |-> 1, version |-> 1, open |-> TRUE])
    /\ UNCHANGED log

KeyMatches(r) == r.key = link.key /\ now < link.until

\* Mutant: any key retrieves the flow.
ReplayForAnyKey(r) == now < link.until /\ flow.token = link.token /\ flow.status = "pending"

Replayable(r) == KeyMatches(r) /\ flow.token = link.token /\ flow.status = "pending"

\* replayContinuation; the flow may have lost its authority (SecurityFlows).
Replay(r) ==
    /\ link.consumed /\ Unwritten
    /\ \/ Replayable(r) /\ Answer(r, "ok", CurrentView)
       \/ Replayable(r) /\ \E tag \in {"invalid", "gone"} : Answer(r, tag, NoView)
       \/ /\ ~Replayable(r)
          /\ Answer(r, IF KeyMatches(r) /\ ~Found(link.token) THEN "gone" ELSE "invalid", NoView)

\* The link may have expired, or been withdrawn with its case.
Exchange(r) == Consume(r) \/ Replay(r) \/ (~link.consumed /\ Unwritten /\ Answer(r, "invalid", NoView))

\* Flow in get mode
Get(r) ==
    /\ Unwritten
    /\ IF r.token = flow.token THEN Answer(r, "ok", CurrentView) ELSE Answer(r, "conflict", NoView)

Hash(r) == [kind |-> r.kind, input |-> r.input, version |-> r.version]

\* The token a mutation rotates to.
NextToken == flow.token + 1

\* mutateSecurityFlow once the action has succeeded; it may have ended the flow.
Apply(r) ==
    /\ flow.token < MaxToken
    /\ \E status \in {"pending", "closed"} :
        flow' = [status |-> status, version |-> flow.version + 1, token |-> NextToken,
                 prev |-> r.token, hash |-> Hash(r), until |-> now + Grace]
    /\ log' = Append(log, [token |-> r.token, input |-> r.input, at |-> now])
    /\ Answer(r, "ok", [token |-> flow'.token, version |-> flow'.version, open |-> flow'.status = "pending"])
    /\ UNCHANGED link

\* Mutant: any request with the previous token is a retry.
RetryOfAnything(r) == r.token = flow.prev /\ now < flow.until

\* Mutant: the grace is over at once.
RetryTooLate(r) == r.token = flow.prev /\ Hash(r) = flow.hash /\ now + 1 < flow.until

\* mutateSecurityFlow, of a request with another than the current token
Retry(r) == r.token = flow.prev /\ Hash(r) = flow.hash /\ now < flow.until

\* mutateSecurityFlow; what the action is, and whether it is refused, is SecurityFlows.
Mutate(r) ==
    \/ r.token # flow.token /\ Unwritten
       /\ IF Retry(r) THEN Answer(r, "ok", CurrentView) ELSE Answer(r, "conflict", NoView)
    \/ r.token = flow.token /\ flow.status # "pending" /\ Unwritten /\ Answer(r, "ok", CurrentView)
    \/ r.token = flow.token /\ flow.status = "pending" /\ r.kind = "submit" /\ r.version # flow.version
       /\ Unwritten /\ Answer(r, "conflict", NoView)
    \/ r.token = flow.token /\ flow.status = "pending" /\ (r.kind = "resend" \/ r.version = flow.version)
       /\ \/ Apply(r)
          \/ Unwritten /\ \E tag \in {"refused", "gone"} : Answer(r, tag, NoView)

Deliver(r) ==
    /\ r \in net /\ net' = net \ {r}
    /\ \/ r.kind = "exchange" /\ Exchange(r)
       \/ r.kind = "get" /\ Found(r.token) /\ Get(r)
       \/ r.kind \in {"submit", "resend"} /\ Found(r.token) /\ Mutate(r)
       \/ r.kind # "exchange" /\ ~Found(r.token) /\ Unwritten /\ Answer(r, "gone", NoView)
    /\ UNCHANGED <<now, storage, sent, call, keys, acked>>

Expire ==
    /\ flow.status \in {"pending", "closed"} /\ flow' = [flow EXCEPT !.status = "gone"]
    /\ UNCHANGED <<now, link, log, storage, sent, call, reply, net, keys, acked>>

Tick ==
    /\ now < MaxTime /\ now' = now + 1
    /\ UNCHANGED <<server, storage, sent, call, reply, net, keys, acked>>

Next ==
    \/ \E c \in Tabs : \/ OpenLink(c) \/ Resume(c) \/ Resend(c) \/ \E i \in Inputs : Submit(c, i)
                       \/ Receive(c) \/ GiveUp(c) \/ Reload(c)
    \/ \E r \in net : Deliver(r)
    \/ Expire \/ Tick

Spec == Init /\ [][Next]_vars

-----------------------------------------------------------------------------
(* Properties *)

Promise == INSTANCE AtMostOnce WITH
    Capabilities <- Tokens, Inputs <- Input,
    log <- [k \in 1..Len(log) |-> [token |-> log[k].token, input |-> log[k].input]], acked <- acked

\* However requests are repeated, delayed and lost, a capability is good for one
\* action, and an action the client was told of was carried out (mutateSecurityFlow,
\* SecurityFlowController).
KeepsPromise == Promise!Spec

\* A link gives its flow to one tab: no two tabs ever hold its capability, in memory
\* or in storage (exchange, replayContinuation).
OneHolder ==
    \A c, d \in Tabs :
        (state[c].token # 0 \/ stored[c] # 0) /\ (state[d].token # 0 \/ stored[d] # 0)
        => c = d

\* Within the grace "conflict" tells the client that its action was not carried out:
\* repeated unchanged, one that was is answered as it was the first time
\* (mutateSecurityFlow).
RefusedNotDone ==
    \A c \in Tabs : LET r == call[c] IN
        reply[c].tag = "conflict" /\ r.kind = "submit"
        => \A k \in 1..Len(log) : log[k].token = r.token /\ log[k].input = r.input
                                  => log[k].at + Grace <= now
=============================================================================
