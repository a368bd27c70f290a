---------------------------- MODULE MCFlowTokens ----------------------------
(* Instances of FlowTokens. *)
EXTENDS FlowTokens, TLC

CONSTANTS t1, t2

\* One tab that works with the flow and one that opens the link too.
MCSends == t1 :> 4 @@ t2 :> 1

\* Which input an action carries makes no difference.
MCSymmetry == Permutations(Inputs)
=============================================================================
