----------------------------- MODULE AtMostOnce -----------------------------
(***************************************************************************)
(* What rotating capabilities promise a client: a capability is good for   *)
(* one action, whoever repeats the request and however often, and a        *)
(* request that was acknowledged was carried out.                          *)
(***************************************************************************)
EXTENDS Sequences, Naturals

CONSTANTS Capabilities, Inputs

VARIABLES
    log,    \* the requests carried out, in their order
    acked   \* the requests the client knows to be carried out

Requests == [token : Capabilities, input : Inputs]

Init == log = <<>> /\ acked = {}

Do(r) ==
    /\ \A k \in 1..Len(log) : log[k].token # r.token
    /\ log' = Append(log, r) /\ UNCHANGED acked

Ack(r) ==
    /\ \E k \in 1..Len(log) : log[k] = r
    /\ acked' = acked \cup {r} /\ UNCHANGED log

Next == \E r \in Requests : Do(r) \/ Ack(r)

Spec == Init /\ [][Next]_<<log, acked>>
=============================================================================
