----------------------------- MODULE MCLockout -----------------------------
(* Instances of Lockout for TLC. *)
EXTENDS Lockout, TLC

CONSTANTS a1, a2, p1, p2, c1, c2

TwoAttempts == {a1, a2}
PasswordPair == {p1, p2}
OneCred == {c1}
TwoCreds == {c1, c2}

Symmetry == Permutations(PasswordPair) \cup Permutations(TwoCreds) \cup Permutations(TwoAttempts)
=============================================================================
