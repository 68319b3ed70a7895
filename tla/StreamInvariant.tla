--------------------------- MODULE StreamInvariant ---------------------------
(***************************************************************************)
(* The inductive invariant of the encrypted streams, as predicates on the  *)
(* state of one stream: what is sealed, what an EncryptionStream and a     *)
(* DecryptionStream hold of it, and where each byte of ciphertext stands.  *)
(* SecretStreamProofs and LinkProofs state it of their variables.          *)
(***************************************************************************)
EXTENDS CryptoStreams

Message == [data : Seq(Nat), nonce : Nat, headerNonce : Nat]
Byte == [msg : Nat, pos : Nat, val : Nat]

(* The cleartext in the first m of the messages s, its ciphertext, and the *)
(* nonce behind them.                                                      *)
TotalIn(s, m) == IF m = 0 THEN 0 ELSE Last(s[m].data)
Offset(s, m) == m * encryptedSize(0) + TotalIn(s, m)
NonceAfter(m) == IF protocol = "BoxStream" THEN 2 * m ELSE m

(* The bytes 1, 2, 3, ..., cut into messages that are neither empty nor    *)
(* too long, sealed with one nonce after the other.                        *)
SealedOK(s) ==
    /\ s \in Seq(Message)
    /\ \A m \in 1 .. Len(s) :
          /\ Len(s[m].data) \in 1 .. kMaxMessageSize
          /\ \A j \in 1 .. Len(s[m].data) : s[m].data[j] = TotalIn(s, m - 1) + j
          /\ s[m].nonce = NonceAfter(m - 1)
          /\ s[m].headerNonce = NonceAfter(m - 1) + 1

(* Messages t are s, and perhaps more behind them. *)
Extends(s, t) == Len(s) <= Len(t) /\ \A m \in 1 .. Len(s) : t[m] = s[m]

(* b is the i-th byte of the ciphertext of s, but for its value. *)
IsByte(s, b, i) ==
    /\ b \in Byte /\ b.val < Base
    /\ b.msg \in 1 .. Len(s)
    /\ b.pos \in 1 .. encryptedSize(Len(s[b.msg].data))
    /\ i = Offset(s, b.msg - 1) + b.pos
Undamaged(s, b) == b.val = ByteOf(b.msg, Len(s[b.msg].data), b.pos)

(* f is ciphertext of s, from its byte i + 1 on. *)
IsCiphertext(s, f, i) ==
    f \in Seq(Byte) /\ \A j \in 1 .. Len(f) : IsByte(s, f[j], i + j)
AllUndamaged(s, f) == \A j \in 1 .. Len(f) : Undamaged(s, f[j])

(* An encryption stream that was given n bytes: what waits in its buffer   *)
(* is the end of the cleartext, behind the end of the ciphertext.          *)
SentBefore(e) == Offset(e.sealed, Len(e.sealed)) - Len(e.out)
EncryptorOK(e, n) ==
    LET total == TotalIn(e.sealed, Len(e.sealed))
    IN  /\ e \in [out : Seq(Byte), in : Seq(Nat), nonce : Nat, sealed : Seq(Message)]
        /\ SealedOK(e.sealed)
        /\ e.nonce = NonceAfter(Len(e.sealed))
        /\ Len(e.in) <= kMaxMessageSize /\ n = total + Len(e.in)
        /\ \A j \in 1 .. Len(e.in) : e.in[j] = total + j
        /\ SentBefore(e) \in Nat
        /\ IsCiphertext(e.sealed, e.out, SentBefore(e)) /\ AllUndamaged(e.sealed, e.out)

(* A decryption stream that was given the ciphertext all of the messages s *)
(* and has decrypted the first k, of which the bytes got were pulled.  It  *)
(* stands behind them, unless it has strayed: the length of the next       *)
(* message read 0, and it has since dropped what reads as empty messages,  *)
(* at the price of a nonce each.                                           *)
Statuses == {"Success", "IncompleteInput", "OutTooSmall", "CorruptData"}
Decryptors == [out : Seq(Nat), in : Seq(Byte), nonce : Nat, status : Statuses]
Place(s, d, k) == Offset(s, k) + (d.nonce - NonceAfter(k)) * encryptedSize(0)
Strayed(s, d, all, k) ==
    /\ protocol = "Compact" /\ d.nonce > k
    /\ all[Offset(s, k) + 1].val = 0 /\ all[Offset(s, k) + 2].val = 0
Holds(s, d, all, got, k) ==
    /\ k \in 0 .. Len(s)
    /\ d \in Decryptors /\ got \in Seq(Nat)
    /\ Len(all) = Place(s, d, k) + Len(d.in)
    /\ \A j \in 1 .. Len(d.in) : d.in[j] = all[Place(s, d, k) + j]
    /\ d.nonce = NonceAfter(k) \/ Strayed(s, d, all, k)
    /\ Len(got) + Len(d.out) = TotalIn(s, k)
    /\ \A j \in 1 .. Len(got) : got[j] = j
    /\ \A j \in 1 .. Len(d.out) : d.out[j] = Len(got) + j
    /\ \A i \in 1 .. Offset(s, k) : Undamaged(s, all[i])

(* The loop of push() has come to its end. *)
Stopped(d) ==
    /\ d.status = decrypt(d.in, Len(d.in), d.nonce).status
    /\ d.status # "Success"

DecryptorOK(d, all, got) ==
    Stopped(d) /\ \E k \in 0 .. Len(sealed) : Holds(sealed, d, all, got, k)
============================================================================
