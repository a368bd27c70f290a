----------------------------- MODULE MCWebhooks -----------------------------
(* Instances of Webhooks. *)
EXTENDS Webhooks

\* Model values of the same kind are interchangeable, but the runs check
\* liveness, so no symmetry set is given.
=============================================================================
