------------------------------- MODULE MCJobs -------------------------------
(* An instance of Jobs: imports that share an address and repeat one. *)
EXTENDS Jobs

CONSTANTS e1, e2

MCEmails == {e1, e2}
MCImports == {<<e1, e1, e2>>, <<e2, e1>>}
=============================================================================
