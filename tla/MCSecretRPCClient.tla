-------------------------- MODULE MCSecretRPCClient --------------------------
(* SecretRPCClient with three calls of getMain(): before the set-up resolves, *)
(* between that and the continuation of the first, and after.                *)
EXTENDS SecretRPCClient
============================================================================
