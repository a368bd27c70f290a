----------------------------- MODULE MCSessions -----------------------------
(* Small instances of Sessions for TLC. *)
EXTENDS Sessions, TLC

CONSTANTS u1, s1, s2, t1, t2, t3

MCUsers == {u1}
MCSessionIds == {s1, s2}
MCTokenIds == {t1, t2, t3}
OneSession == {s1}

Strict == [refreshTTL |-> 2, absolute |-> 3, idle |-> 1, reuse |-> TRUE]
Short == [refreshTTL |-> 1, absolute |-> 2, idle |-> 0, reuse |-> TRUE]

\* One environment whose policy was tightened while an instance still caches
\* the older document.
OneEnv == {"live"}
HomeLive == [u \in MCUsers |-> "live"]
EditedPolicy == [e \in OneEnv |-> {Strict, Short}]

\* One policy under which tokens, and then the session, expire.
ShortPolicy == [e \in OneEnv |-> {Short}]

Trust == {0}
NoTrust == {}

Symmetry == Permutations(MCSessionIds) \cup Permutations(MCTokenIds)
=============================================================================
