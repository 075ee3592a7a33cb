------------------------------ MODULE MCAccess ------------------------------
(* A small instance of Access for TLC: ann is guardian, is given roles and *)
(* is enlisted as a verifier; bob competes for the one allowlist slot.     *)
EXTENDS Access

CONSTANTS ann, bob

=============================================================================
