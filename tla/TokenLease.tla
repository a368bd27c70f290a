----------------------------- MODULE TokenLease -----------------------------
(***************************************************************************)
(* What the token store promises whoever is given a refresh token.  The    *)
(* token is the first key of a lease, which is named after it.  A held     *)
(* lease has at most one key; renewing it swaps that key for one never     *)
(* handed out before, in one step or with a time without any key in        *)
(* between.  A lease that has ended is never held again.                   *)
(***************************************************************************)
CONSTANT Keys

VARIABLES
    held,       \* the leases that are held
    keys,       \* keys[l]: the keys that can renew l, at most one
    issued      \* keys handed out so far

leaseVars == <<held, keys, issued>>

LeaseInit ==
    /\ held = {}
    /\ keys = [l \in Keys |-> {}]
    /\ issued = {}

\* End the leases in L, then grant one whose first key is k.
Grant(L, k) ==
    /\ held' = (held \ L) \cup {k}
    /\ keys' = [l \in Keys |-> IF l = k THEN {k} ELSE IF l \in L THEN {} ELSE keys[l]]
    /\ issued' = issued \cup {k}

\* The key of a held lease is taken in, and the next is yet to come.
Spend(l) ==
    /\ keys' = [keys EXCEPT ![l] = {}]
    /\ UNCHANGED <<held, issued>>

Renew(l, k) ==
    /\ keys' = [keys EXCEPT ![l] = {k}]
    /\ issued' = issued \cup {k}
    /\ UNCHANGED held

End(L) ==
    /\ held' = held \ L
    /\ keys' = [l \in Keys |-> IF l \in L THEN {} ELSE keys[l]]
    /\ UNCHANGED issued

LeaseNext ==
    \/ \E L \in SUBSET held : End(L) \/ \E k \in Keys \ issued : Grant(L, k)
    \/ \E l \in held : Spend(l) \/ \E k \in Keys \ issued : Renew(l, k)

LeaseSpec == LeaseInit /\ [][LeaseNext]_leaseVars
=============================================================================
