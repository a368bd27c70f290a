------------------------------- MODULE MCOidc -------------------------------
(* A small instance of Oidc for TLC. *)
EXTENDS Oidc, TLC

CONSTANTS s1, s2, a1, r1, r2, i1, c1, c2, d1, t1, t2, p1

MCSessions == {s1, s2}
MCAccounts == {a1}
MCOwner == [s \in MCSessions |-> a1]
MCRequests == {r1, r2}
MCInteractions == {i1}
MCCodes == {c1, c2}
MCDevices == {d1}
MCTokens == {t1, t2}
MCPushed == {p1}

Symmetry == Permutations(MCSessions) \cup Permutations(MCRequests)
            \cup Permutations(MCCodes) \cup Permutations(MCTokens)
=============================================================================
