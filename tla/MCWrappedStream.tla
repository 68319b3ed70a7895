--------------------------- MODULE MCWrappedStream ---------------------------
(* WrappedStream with messages of at most three bytes.                       *)
EXTENDS WrappedStream

(* One byte, or three pieces that together need two messages.                *)
MCWriteSizes == {<<1>>, <<1, 2, 1>>}
(* At least one byte or at least two; room for one, two or four.             *)
MCReadSizes == {<<1, 1>>, <<1, 4>>, <<2, 2>>}

(* The odd messages are enciphered to zeroes, the even ones to ones.         *)
MCCipher == [x \in (1 .. MaxBytes) \X (1 .. 7) |-> (x[1] + 1) % 2]
============================================================================
