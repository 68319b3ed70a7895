-------------------------- MODULE MCSecretConnection -------------------------
(* SecretConnection with two application IDs and two keys.                   *)
EXTENDS SecretConnection
============================================================================
