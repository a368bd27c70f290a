-------------------------- MODULE MCSecurityFlows --------------------------
(* Instances of SecurityFlows. *)
EXTENDS SecurityFlows

\* Accounts that change while they are reviewed, accounts with two reviews, and
\* accounts for which support is asked.
MCScenarios ==
    [creds : {{}, Totps, Totps \cup Codes, Keys \cup Passkeys}, changes : {2}, reviews : {1}, supports : {0}, cases : {0}]
    \cup [creds : SUBSET Totps, changes : {1}, reviews : {2}, supports : {0}, cases : {0}]
    \cup [creds : SUBSET Totps, changes : {0}, reviews : {1}, supports : {2}, cases : {1}]
    \cup [creds : {{}}, changes : {0}, reviews : {0}, supports : {3}, cases : {1}]
=============================================================================
