----------------------------- MODULE AdapterLink -----------------------------
(***************************************************************************)
(* What the two adapters have in common once their handshake is over: one  *)
(* direction of a connection, with the EncryptionStream of the sender, the *)
(* stream below, and the DecryptionStream of the receiver.  Both adapters  *)
(* construct their streams with the default protocol, Compact.             *)
(*                                                                         *)
(* The stream below is given a pointer to the sender's buffer and sends    *)
(* from it a few bytes at a time: a byte is what the buffer holds when the *)
(* byte is sent, not when write() was called.                              *)
(***************************************************************************)
EXTENDS CryptoStreams

CONSTANTS WriteSizes,   \* what is written at once: sizes of the buffers
          MaxBytes,     \* cleartext bytes the sender writes
          MaxFaults     \* damaged bytes and broken connections, together

ASSUME LinkConstants == {MaxBytes, MaxFaults} \subseteq Nat /\ WriteSizes \subseteq Seq(Nat)

VARIABLES
    pushed,     \* cleartext bytes the application has written
    enc,        \* the sender's EncryptionStream
    writing,    \* the write in progress below: its size, and the bytes sent
    wire,       \* bytes sent and not yet read
    eof,        \* the sender's side of the connection has ended
    dec,        \* the receiver's DecryptionStream
    arrived,    \* history: all ciphertext the receiver has read
    got,        \* history: all cleartext the application has read
    faults,
    reading,    \* the application's call that waits for the stream below
    result      \* what its last call came to

link == <<protocol, sealed, pushed, enc, writing, wire, eof, dec, arrived, got, faults>>

Idle == [size |-> 0, sent |-> 0]

LinkInit ==
    /\ protocol = "Compact" /\ sealed = <<>> /\ pushed = 0
    /\ enc = [out |-> <<>>, in |-> <<>>, nonce |-> 0]
    /\ writing = Idle /\ wire = <<>> /\ eof = FALSE
    /\ dec = [out |-> <<>>, in |-> <<>>, nonce |-> 0, status |-> "IncompleteInput"]
    /\ arrived = <<>> /\ got = <<>> /\ faults = 0

(* pushPartial() of pieces of those sizes, one after the other, then       *)
(* flush(): what becomes of encryption stream e, and of pushed.            *)
Piece(p, n) ==
    [e |-> PushedPartial(p.e, [k \in 1 .. n |-> p.pushed + k]), pushed |-> p.pushed + n]
Pieces(e, sizes) ==
    LET after[i \in 0 .. Len(sizes)] ==
            IF i = 0 THEN [e |-> [out |-> e.out, in |-> e.in, nonce |-> e.nonce,
                                  sealed |-> sealed],
                           pushed |-> pushed]
            ELSE Piece(after[i - 1], sizes[i])
    IN  after
EncryptsUnflushed(e, sizes) == Pieces(e, sizes)[Len(sizes)]
Encrypts(e, sizes) ==
    LET p == Pieces(e, sizes)[Len(sizes)] IN [p EXCEPT !.e = Flushed(p.e)]
EncryptorBecomes(e) ==
    /\ enc' = [out |-> e.out, in |-> e.in, nonce |-> e.nonce]
    /\ sealed' = e.sealed

(* push() of the next n bytes off the wire: what becomes of dec. *)
Decrypts(n) == Decrypted([dec EXCEPT !.in = @ \o SubSeq(wire, 1, n)])
TakesOff(n) ==
    /\ arrived' = arrived \o SubSeq(wire, 1, n)
    /\ wire' = SubSeq(wire, n + 1, Len(wire))

----------------------------------------------------------------------------
(* The stream below.                                                       *)

Sends(n) ==
    /\ ~eof /\ writing.sent + n <= writing.size
    /\ wire' = wire \o SubSeq(enc.out, writing.sent + 1, writing.sent + n)
    /\ writing' = [writing EXCEPT !.sent = @ + n]
    /\ UNCHANGED <<protocol, sealed, pushed, enc, eof, dec, arrived, got, faults>>

(* The sender's application ends the stream; the connection breaks. *)
Ends ==
    /\ ~eof /\ writing = Idle
    /\ eof' = TRUE
    /\ UNCHANGED <<protocol, sealed, pushed, enc, writing, wire, dec, arrived, got, faults>>

Breaks ==
    /\ ~eof /\ faults < MaxFaults
    /\ eof' = TRUE /\ faults' = faults + 1
    /\ UNCHANGED <<protocol, sealed, pushed, enc, writing, wire, dec, arrived, got>>

(* The byte sent last gets another value. *)
Damages ==
    /\ faults < MaxFaults /\ wire # <<>>
    /\ \E v \in 0 .. Base - 1 \ {Last(wire).val} :
          wire' = [wire EXCEPT ![Len(wire)].val = v]
    /\ faults' = faults + 1
    /\ UNCHANGED <<protocol, sealed, pushed, enc, writing, eof, dec, arrived, got>>

LinkNext ==
    (\E n \in 1 .. writing.size - writing.sent : Sends(n)) \/ Ends \/ Breaks \/ Damages

(* The bytes read so far are the bytes written, in order, and no more than *)
(* the whole undamaged messages that arrived.                              *)
InOrder == got = [i \in 1 .. Len(got) |-> i] /\ Len(got) <= CleartextSize(arrived)
============================================================================
