---------------------------- MODULE SecretStream -----------------------------
(***************************************************************************)
(* One direction of an encrypted connection: an EncryptionStream, a byte   *)
(* transport and a DecryptionStream, with the EncryptoBox and DecryptoBox  *)
(* they wrap, in both wire formats.  The application pushes the numbers    *)
(* 1, 2, 3, ... as cleartext bytes, so that a lost, repeated, reordered or *)
(* invented byte shows.                                                    *)
(***************************************************************************)
EXTENDS CryptoStreams

CONSTANTS MaxBytes,     \* cleartext bytes the sender pushes
          MaxFaults     \* damaged bytes and truncations, together

ASSUME StreamConstants == {MaxBytes, MaxFaults} \subseteq Nat

VARIABLES
    pushed,     \* cleartext bytes pushed so far
    encOut,     \* EncryptionStream::_buffer: its _processedBytes
    encIn,      \*   and the cleartext behind them
    encNonce,   \* nonce increments of the EncryptoBox
    wire,       \* bytes pulled by the sender, not yet pushed by the receiver
    eof,        \* the sender's stream has ended
    decOut,     \* DecryptionStream::_buffer: its _processedBytes
    decIn,      \*   and the ciphertext behind them
    decNonce,   \* nonce increments of the DecryptoBox
    status,     \* what ended the last push(): it returned true (IncompleteInput),
                \*   false (CorruptData) or threw (OutTooSmall)
    received,   \* cleartext the receiver has pulled
    closed,     \* "open", or what close() returned: "clean" or "dirty"
    arrived,    \* history: all ciphertext the receiver has pushed
    faults      \* faults so far

encVars == <<pushed, encIn, encNonce, sealed>>
decVars == <<decOut, decIn, decNonce, status, received, closed, arrived>>
vars == <<protocol, encOut, encVars, wire, eof, decVars, faults>>

Init ==
    /\ protocol \in {"Compact", "BoxStream"}
    /\ pushed = 0
    /\ encOut = <<>> /\ encIn = <<>> /\ encNonce = 0 /\ sealed = <<>>
    /\ wire = <<>> /\ eof = FALSE
    /\ decOut = <<>> /\ decIn = <<>> /\ decNonce = 0
    /\ status = "IncompleteInput" /\ received = <<>> /\ closed = "open"
    /\ arrived = <<>> /\ faults = 0

----------------------------------------------------------------------------
(* EncryptionStream.                                                       *)

Encryptor == [out |-> encOut, in |-> encIn, nonce |-> encNonce, sealed |-> sealed]
EncryptorBecomes(e) ==
    encOut' = e.out /\ encIn' = e.in /\ encNonce' = e.nonce /\ sealed' = e.sealed

(* The next n cleartext bytes of the application. *)
Cleartext(n) == [i \in 1 .. n |-> pushed + i]

PushPartial(n) ==
    /\ ~eof /\ pushed + n <= MaxBytes
    /\ EncryptorBecomes(PushedPartial(Encryptor, Cleartext(n)))
    /\ pushed' = pushed + n
    /\ UNCHANGED <<protocol, wire, eof, decVars, faults>>

Push(n) ==
    /\ ~eof /\ pushed + n <= MaxBytes
    /\ EncryptorBecomes(Flushed(PushedPartial(Encryptor, Cleartext(n))))
    /\ pushed' = pushed + n
    /\ UNCHANGED <<protocol, wire, eof, decVars, faults>>

Flush ==
    /\ ~eof /\ encIn # <<>>
    /\ EncryptorBecomes(Flushed(Encryptor))
    /\ UNCHANGED <<protocol, pushed, wire, eof, decVars, faults>>

EncPull(n) ==
    /\ encOut # <<>>
    /\ wire'   = wire \o Taken(encOut, n)
    /\ encOut' = Kept(encOut, n)
    /\ UNCHANGED <<protocol, encVars, eof, decVars, faults>>

(* The sender ends its stream, with everything flushed and sent. *)
EndStream ==
    /\ ~eof /\ encIn = <<>> /\ encOut = <<>>
    /\ eof' = TRUE
    /\ UNCHANGED <<protocol, encOut, encVars, wire, decVars, faults>>

----------------------------------------------------------------------------
(* DecryptionStream.                                                       *)

Decryptor == [out |-> decOut, in |-> decIn, nonce |-> decNonce, status |-> "Success"]

(* push() of the next n bytes.  An application may go on after a failure.  *)
DecPush(n) ==
    /\ closed = "open" /\ n <= Len(wire)
    /\ \E d \in {Decrypted([Decryptor EXCEPT !.in = @ \o SubSeq(wire, 1, n)])} :
          /\ decOut' = d.out /\ decIn' = d.in /\ decNonce' = d.nonce
          /\ status' = d.status
    /\ arrived' = arrived \o SubSeq(wire, 1, n)
    /\ wire'    = SubSeq(wire, n + 1, Len(wire))
    /\ UNCHANGED <<protocol, encOut, encVars, eof, received, closed, faults>>

DecPull(n) ==
    /\ decOut # <<>>
    /\ received' = received \o Taken(decOut, n)
    /\ decOut'   = Kept(decOut, n)
    /\ UNCHANGED <<protocol, encOut, encVars, wire, eof, decIn, decNonce, status,
                   closed, arrived, faults>>

(* close() at the end of the stream, once all that was decrypted has been  *)
(* pulled: it empties the buffer.                                          *)
CloseIgnoringRest ==
    /\ closed = "open" /\ eof /\ wire = <<>> /\ decOut = <<>>
    /\ closed' = "clean"
    /\ decIn' = <<>>
    /\ UNCHANGED <<protocol, encOut, encVars, wire, eof, decOut, decNonce, status,
                   received, arrived, faults>>
Close ==
    /\ closed = "open" /\ eof /\ wire = <<>> /\ decOut = <<>>
    /\ closed' = IF decIn = <<>> THEN "clean" ELSE "dirty"
    /\ decIn' = <<>>
    /\ UNCHANGED <<protocol, encOut, encVars, wire, eof, decOut, decNonce, status,
                   received, arrived, faults>>

----------------------------------------------------------------------------
(* The transport.                                                          *)

(* The byte sent last gets another value.  (EncPull sends any number of    *)
(* bytes, so any byte can be the one.)                                     *)
Damage ==
    /\ faults < MaxFaults /\ wire # <<>>
    /\ \E v \in 0 .. Base - 1 \ {Last(wire).val} :
          wire' = [wire EXCEPT ![Len(wire)].val = v]
    /\ faults' = faults + 1
    /\ UNCHANGED <<protocol, encOut, encVars, eof, decVars>>

(* The connection breaks: the receiver gets no more than was sent by now. *)
Truncate ==
    /\ faults < MaxFaults /\ ~eof
    /\ eof' = TRUE
    /\ encOut' = <<>>
    /\ faults' = faults + 1
    /\ UNCHANGED <<protocol, encVars, wire, decVars>>

Done == closed # "open" /\ UNCHANGED vars

----------------------------------------------------------------------------
Sender ==
    \/ \E n \in 1 .. MaxBytes : PushPartial(n) \/ Push(n)
    \/ Flush \/ EndStream
    \/ \E n \in 1 .. Len(encOut) : EncPull(n)
Receiver ==
    \/ \E n \in 1 .. Len(wire) : DecPush(n)
    \/ \E n \in 1 .. Len(decOut) : DecPull(n)
    \/ Close

Next == Sender \/ Receiver \/ Damage \/ Truncate \/ Done

Spec == Init /\ [][Next]_vars

----------------------------------------------------------------------------
(* Properties.                                                             *)

Channel == INSTANCE ByteChannel WITH
    written <- pushed, received <- received \o decOut,
    damaged <- faults > 0, corrupt <- status = "CorruptData"

(* The receiver has decrypted exactly the whole undamaged messages that    *)
(* have arrived, however the ciphertext was cut up on the way: each of     *)
(* their bytes, once and in order, nothing of a damaged or partial message *)
(* or of one behind it, and without waiting for bytes it does not need.    *)
ExactDelivery ==
    closed = "open" =>
        received \o decOut = [i \in 1 .. CleartextSize(arrived) |-> i]

(* close() tells the end of the sender's stream from a connection cut off  *)
(* in the middle of a message, and calls no stream clean of which a byte   *)
(* was damaged, with one exception: damage that makes the length of a      *)
(* Compact message read 0, which DecryptoBox::decrypt() takes for an empty *)
(* message.  An undisturbed stream has been received to the last byte      *)
(* pushed.                                                                 *)
CloseVerdict ==
    closed # "open" =>
        /\ Whole(arrived) = Len(arrived) => closed = "clean"
        /\ closed = "clean" => Whole(arrived) = Len(arrived) \/ ReadsEmpty(arrived)
        /\ faults = 0 => closed = "clean" /\ Len(received) = pushed

(* What SecretStream.hh says of close(): true "if this is a clean close,   *)
(* false if there's an incomplete message"; and of push(): "false if the   *)
(* data is corrupted".  The damage that CloseVerdict excepts refutes both: *)
(* once the length of a message reads 0, what there is of it can be        *)
(* dropped as empty messages, to the last byte, though it was never        *)
(* decrypted.                                                              *)
CleanIsWhole == closed = "clean" => Whole(arrived) = Len(arrived)

(* No exception: every message encrypted holds at least one and at most    *)
(* kMaxMessageSize bytes, so that its length fits the two length bytes,    *)
(* whatever mix of push, pushPartial and flush produced it; and a receiver *)
(* that decrypts in place never lacks room for the cleartext, whatever     *)
(* length a message claims.                                                *)
NeverThrows ==
    /\ Len(encIn) <= kMaxMessageSize
    /\ \A i \in DOMAIN sealed : Len(sealed[i].data) \in 1 .. kMaxMessageSize
    /\ status # "OutTooSmall"

(* The streams keep the promise of a ByteChannel: also after a push() that *)
(* returned false nothing more is decrypted, and without damage no push()  *)
(* does.                                                                   *)
ImplementsChannel == Channel!Spec
============================================================================
