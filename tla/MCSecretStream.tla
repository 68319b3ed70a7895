--------------------------- MODULE MCSecretStream ----------------------------
(* SecretStream with bytes of two values, so messages of at most three.      *)
EXTENDS SecretStream

(* The odd messages are enciphered to zeroes, the even ones to ones.         *)
MCCipher == [x \in (1 .. MaxBytes) \X (1 .. 7) |-> (x[1] + 1) % 2]
============================================================================
