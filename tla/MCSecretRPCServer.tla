-------------------------- MODULE MCSecretRPCServer --------------------------
(* SecretRPCServer with two clients, two keys and one fault: one client may  *)
(* fall silent, or its accept fail, while the other connects.                *)
EXTENDS SecretRPCServer
============================================================================
