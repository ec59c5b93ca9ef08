------------------------------ MODULE MCOtpFlow ------------------------------
(* Instances of OtpFlow for TLC. *)
EXTENDS OtpFlow, TLC
=============================================================================
