---------------------------- MODULE CryptoStreams ----------------------------
(***************************************************************************)
(* EncryptoBox, DecryptoBox, EncryptionStream and DecryptionStream as      *)
(* operators on their state, in both wire formats: what SecretStream and   *)
(* the specifications of the two adapters are built from.                  *)
(*                                                                         *)
(* A byte of ciphertext is a record [msg, pos, val]: the encrypted message *)
(* it belongs to, its place in it, and a value.  The two length bytes of a *)
(* Compact message hold digits in base Base; the others hold any values at *)
(* all, given by Cipher (behind a damaged length they may be read as one). *)
(* What message m holds, and the nonces it was made with, is sealed[m]: a  *)
(* box or a lock opens only if its bytes are all in place and undamaged    *)
(* and the nonce is the right one (ideal ciphers).                         *)
(***************************************************************************)
EXTENDS Naturals, Sequences, SequencesExt, FiniteSets, FiniteSetsExt

CONSTANTS Base,         \* values of a byte; 256 in the code
          MacSize,      \* sizeof(MAC); 16 in the code
          Cipher        \* the ciphertext: byte i of message m is Cipher[m, i]

ASSUME BoxConstants == Base \in Nat \ {0, 1} /\ MacSize \in Nat \ {0}
ASSUME CipherConstants == \A x \in DOMAIN Cipher : Cipher[x] \in 0 .. Base - 1

kMaxMessageSize == Base * Base - 1

VARIABLES
    protocol,   \* CryptoBox::_protocol, the same on both sides
    sealed      \* the messages encrypted so far

----------------------------------------------------------------------------
(* CryptoBox: the two formats.                                             *)

(* writeUint16At and readUint16At *)
writeUint16At(n) == <<n \div Base, n % Base>>
readUint16At(b) == b[1].val * Base + b[2].val

(* sizeof(BoxStreamHeader), and the boxed header at the front of a message *)
HeaderSize == 2 + MacSize
PrefixSize == MacSize + HeaderSize

encryptedSize(n) ==
    IF protocol = "BoxStream" THEN HeaderSize + MacSize + n ELSE 2 + MacSize + n

(* What the cipher makes of byte i of message m: some value of a byte. *)
CipherByte(m, i) == IF <<m, i>> \in DOMAIN Cipher THEN Cipher[<<m, i>>] ELSE 0

(* The value encrypt() gives byte i of message m, of n bytes. *)
ByteOf(m, n, i) ==
    IF protocol = "Compact" /\ i <= 2 THEN writeUint16At(n)[i] ELSE CipherByte(m, i)

(* encrypt() as the m-th message: its bytes, what is sealed in it, and the *)
(* nonce afterwards.  A BoxStream body is locked first and its header      *)
(* boxed with the nonce after that.                                        *)
encrypt(data, nonce, m) ==
    [bytes  |-> [i \in 1 .. encryptedSize(Len(data)) |->
                    [msg |-> m, pos |-> i, val |-> ByteOf(m, Len(data), i)]],
     sealed |-> [data |-> data, nonce |-> nonce, headerNonce |-> nonce + 1],
     nonce  |-> IF protocol = "BoxStream" THEN nonce + 2 ELSE nonce + 1]

(* in[first .. last] are those bytes of message m, undamaged. *)
Intact(in, m, first, last) ==
    \A i \in first .. last : in[i] = [msg |-> m, pos |-> i, val |-> CipherByte(m, i)]

minPeekSize == IF protocol = "BoxStream" THEN PrefixSize ELSE 2

(* peek(), decryptBoxStreamHeader() included.                              *)
peek(in, nonce) ==
    LET m == in[1].msg
        result(st, dec, enc) ==
            [status |-> st, decryptedSize |-> dec, encryptedSize |-> enc]
    IN  IF Len(in) < minPeekSize THEN result("IncompleteInput", 0, minPeekSize)
        ELSE IF protocol = "Compact"
        THEN result("Success", readUint16At(in), encryptedSize(readUint16At(in)))
        ELSE IF Intact(in, m, 1, PrefixSize) /\ sealed[m].headerNonce = nonce + 1
        THEN result("Success", Len(sealed[m].data), PrefixSize + Len(sealed[m].data))
        ELSE result("CorruptData", 0, 0)

(* unlock() or unbox() of the message of that size at the front of in. *)
Opens(in, size, nonce) ==
    LET m == in[1].msg
        first == IF protocol = "BoxStream" THEN PrefixSize + 1 ELSE 3
    IN  /\ sealed[m].nonce = nonce
        /\ size = encryptedSize(Len(sealed[m].data))
        /\ Intact(in, m, first, size)

(* unbox(): what it returns when it fails is empty, and that is how its    *)
(* callers tell: by the size of what it returns.                           *)
Unboxed(in, size, nonce) ==
    IF Opens(in, size, nonce) THEN sealed[in[1].msg].data ELSE <<>>

(* decrypt() refuses the message that peek found.  It asks unlock() whether *)
(* that failed, but of unbox() it only compares the size: a failure passes  *)
(* for a message whose length reads 0.                                      *)
Refuses(in, r, nonce) ==
    IF protocol = "BoxStream" THEN ~Opens(in, r.encryptedSize, nonce)
    ELSE Len(Unboxed(in, r.encryptedSize, nonce)) # r.decryptedSize

(* The message that peek found in front of in is all there. *)
Complete(in, r) == Len(in) >= r.encryptedSize

(* The nonce after a successful decrypt(). *)
OneNonceOn(nonce) == nonce + 1
NextNonce(nonce) == IF protocol = "BoxStream" THEN nonce + 2 ELSE nonce + 1

(* decrypt() into a buffer of outSize bytes: the status, and on success    *)
(* the cleartext, the number of bytes consumed and the nonce afterwards.   *)
decrypt(in, outSize, nonce) ==
    LET r == peek(in, nonce)
        stop(st) == [status |-> st]
    IN  IF r.status # "Success" THEN stop(r.status)
        ELSE IF ~Complete(in, r) THEN stop("IncompleteInput")
        ELSE IF outSize < r.decryptedSize THEN stop("OutTooSmall")
        ELSE IF Refuses(in, r, nonce) THEN stop("CorruptData")
        ELSE [status |-> "Success", data |-> Unboxed(in, r.encryptedSize, nonce),
              used |-> r.encryptedSize, nonce |-> NextNonce(nonce)]

----------------------------------------------------------------------------
(* EncryptionStream.  Its state is passed as [out, in, nonce, sealed].     *)

Flushed(e) ==
    IF e.in = <<>> THEN e
    ELSE LET c == encrypt(e.in, e.nonce, Len(e.sealed) + 1)
         IN  [out |-> e.out \o c.bytes, in |-> <<>>, nonce |-> c.nonce,
              sealed |-> Append(e.sealed, c.sealed)]

(* pushPartial(): a turn of its loop, on stream e and the rest of the data *)
(* fills e up to kMaxMessageSize, and flushes it when more is to come.     *)
(* Every turn but the first takes at least a byte.                         *)
RoomForOneMore(e) == kMaxMessageSize + 1 - Len(e.in)
Room(e) == kMaxMessageSize - Len(e.in)

Filled(s) ==
    LET chunk == Min({Len(s.rest), Room(s.e)})
        rest == SubSeq(s.rest, chunk + 1, Len(s.rest))
        e == [s.e EXCEPT !.in = @ \o SubSeq(s.rest, 1, chunk)]
    IN  IF s.rest = <<>> THEN s
        ELSE [e |-> IF rest = <<>> THEN e ELSE Flushed(e), rest |-> rest]

Fillings(e, data) ==
    LET after[n \in 0 .. Len(data) + 1] ==
            IF n = 0 THEN [e |-> e, rest |-> data] ELSE Filled(after[n - 1])
    IN  after

PushedPartial(e, data) == Fillings(e, data)[Len(data) + 1].e

(* pull() or skip() of up to n bytes, of the processed bytes buf: what is  *)
(* taken, and what stays.                                                  *)
Taken(buf, n) == SubSeq(buf, 1, Min({n, Len(buf)}))
Kept(buf, n) == SubSeq(buf, Min({n, Len(buf)}) + 1, Len(buf))

----------------------------------------------------------------------------
(* DecryptionStream.  Its state is passed as [out, in, nonce, status].     *)

(* The loop of push(): a turn decrypts the message in front, if it can be  *)
(* done.  As that takes at least a byte, Len(d.in) turns are enough.  (The *)
(* stream after each turn is kept as a set of one element, so that TLC     *)
(* evaluates it once only.)                                                *)
Opened(d) ==
    LET r == decrypt(d.in, Len(d.in), d.nonce)
    IN  IF r.status = "Success"
        THEN [d EXCEPT !.out = @ \o r.data,
                       !.in = SubSeq(@, r.used + 1, Len(@)),
                       !.nonce = r.nonce]
        ELSE d

Openings(d) ==
    LET after[n \in 0 .. Len(d.in)] ==
            IF n = 0 THEN {d} ELSE {Opened(e) : e \in after[n - 1]}
    IN  after

(* How the loop ends: with what decrypt() says of the rest. *)
EndedSkippingCorrupt(d) ==
    LET st == decrypt(d.in, Len(d.in), d.nonce).status
    IN  IF st = "CorruptData"
        THEN [d EXCEPT !.status = st, !.in = <<>>, !.nonce = NextNonce(@)]
        ELSE [d EXCEPT !.status = st]
Ended(d) == [d EXCEPT !.status = decrypt(d.in, Len(d.in), d.nonce).status]

Decrypted(d) == CHOOSE e \in {Ended(b) : b \in Openings(d)[Len(d.in)]} : TRUE

----------------------------------------------------------------------------
(* For the properties: the length of the longest run of whole undamaged    *)
(* messages at the front of the ciphertext in ...                          *)
Whole(in) ==
    LET size(b) == Len(sealed[b.msg].data)
        damaged == {i \in DOMAIN in :
                        in[i].val # ByteOf(in[i].msg, size(in[i]), in[i].pos)}
    IN  Max({0} \cup {n \in DOMAIN in : /\ in[n].pos = encryptedSize(size(in[n]))
                                        /\ \A i \in damaged : n < i})

(* ... the number of cleartext bytes in it ...                             *)
CleartextSize(in) ==
    IF Whole(in) = 0 THEN 0 ELSE Last(sealed[in[Whole(in)].msg].data)

(* ... and whether what follows reads as an empty message, as no encrypted *)
(* message does.                                                           *)
ReadsEmpty(in) ==
    /\ protocol = "Compact" /\ Len(in) >= Whole(in) + encryptedSize(0)
    /\ in[Whole(in) + 1].val = 0 /\ in[Whole(in) + 2].val = 0
============================================================================
