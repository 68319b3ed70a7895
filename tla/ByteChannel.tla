----------------------------- MODULE ByteChannel -----------------------------
(***************************************************************************)
(* What every layer over an encrypted stream promises, whatever it does    *)
(* with messages, buffers and cuts: the receiver gets the bytes written,   *)
(* in order, each once; it finds the stream corrupt only if something did  *)
(* happen to it on the way; and from then on it gets nothing more.  The    *)
(* bytes written are 1, 2, 3, ...                                          *)
(***************************************************************************)
EXTENDS Naturals, Sequences

VARIABLES
    written,    \* the number of bytes the sender has written
    received,   \* the bytes the receiver has, or can have without reading more
    damaged,    \* the transport has damaged or cut the stream
    corrupt     \* the receiver has been told that the stream is corrupt

vars == <<written, received, damaged, corrupt>>

Init == written = 0 /\ received = <<>> /\ ~damaged /\ ~corrupt

Write ==
    /\ written' > written
    /\ UNCHANGED <<received, damaged, corrupt>>

Damage ==
    /\ damaged' = TRUE
    /\ UNCHANGED <<written, received, corrupt>>

(* Some bytes arrive, possibly none, possibly with bad news behind them. *)
Receive ==
    /\ ~corrupt
    /\ \E n \in Len(received) .. written : received' = [i \in 1 .. n |-> i]
    /\ corrupt' => damaged
    /\ UNCHANGED <<written, damaged>>

Next == Write \/ Damage \/ Receive

Spec == Init /\ [][Next]_vars
============================================================================
