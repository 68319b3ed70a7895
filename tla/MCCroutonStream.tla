--------------------------- MODULE MCCroutonStream ---------------------------
(* CroutonStream with messages of at most three bytes.                       *)
EXTENDS CroutonStream

(* One byte, or two buffers of one byte each.                                *)
MCWriteSizes == {<<1>>, <<1, 1>>}

(* The odd messages are enciphered to zeroes, the even ones to ones.         *)
MCCipher == [x \in (1 .. MaxBytes) \X (1 .. 7) |-> (x[1] + 1) % 2]
============================================================================
