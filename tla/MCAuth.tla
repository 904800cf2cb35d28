------------------------------- MODULE MCAuth -------------------------------
(* Model-checking instance of accounts and tokens.                         *)
EXTENDS Auth, TLC

(* In seconds of the model: short enough for every token to expire.        *)
MCLifetime == [access |-> 1, refresh |-> 2, mfa |-> 1, reset |-> 1,
               verify |-> 1]

MCSymmetry == Permutations(Slots) \cup Permutations(Passwords)
=============================================================================
