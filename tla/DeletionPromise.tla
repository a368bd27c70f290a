--------------------------- MODULE DeletionPromise ---------------------------
(***************************************************************************)
(* What self-service account deletion promises: a request gets a deadline  *)
(* that nothing moves, it can be cancelled before that deadline only, and  *)
(* it is carried out from the deadline on, once.                           *)
(***************************************************************************)
EXTENDS Integers

VARIABLES now, rec

\* The clock only goes forward.
Wait == now' > now /\ rec' = rec

Schedule ==
    /\ rec.status \in {"none", "cancelled"}
    /\ rec'.status = "pending" /\ rec'.id = rec.id + 1 /\ rec'.at > now
    /\ now' = now

Cancel ==
    /\ rec.status = "pending" /\ now < rec.at
    /\ rec' = [rec EXCEPT !.status = "cancelled"] /\ now' = now

CarryOut ==
    /\ rec.status = "pending" /\ rec.at <= now
    /\ rec' = [rec EXCEPT !.status = "deleted"] /\ now' = now

Init == now = 0 /\ rec = [status |-> "none", id |-> 0, at |-> 0]
Next == Wait \/ Schedule \/ Cancel \/ CarryOut
Spec == Init /\ [][Next]_<<now, rec>>
=============================================================================
