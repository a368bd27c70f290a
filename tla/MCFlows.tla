------------------------------ MODULE MCFlows ------------------------------
(* Instances of Flows. *)
EXTENDS Flows, TLC

Signup(after, required, given) ==
    [kind |-> "signup", first |-> "verify_email", afterVerify |-> after,
     required |-> required, given |-> given, known |-> TRUE]
Signin(first) ==
    [kind |-> "signin", first |-> first, afterVerify |-> FALSE,
     required |-> FALSE, given |-> FALSE, known |-> TRUE]
Recovery(first, known) ==
    [kind |-> "recovery", first |-> first, afterVerify |-> FALSE,
     required |-> FALSE, given |-> FALSE, known |-> known]

SignupPlans == {Signup(a, FALSE, FALSE) : a \in BOOLEAN} \cup {Signup(a, TRUE, g) : a \in BOOLEAN, g \in BOOLEAN}
SigninPlans == {Signin(f) : f \in FirstSteps \cup {"completed"}}
RecoveryPlans == {Recovery(f, k) : f \in {"verify_email", "verify_phone"}, k \in BOOLEAN}
AllPlans == SignupPlans \cup SigninPlans \cup RecoveryPlans

Symmetry == Permutations(Requests) \cup Permutations(Challenges) \cup Permutations(Sessions)
=============================================================================
