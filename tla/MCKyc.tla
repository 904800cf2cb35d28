------------------------------- MODULE MCKyc -------------------------------
(* Model-checking instance of identity verification.                       *)
EXTENDS Kyc
=============================================================================
