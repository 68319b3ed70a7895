------------------------- MODULE SecretStreamProofs --------------------------
(***************************************************************************)
(* The safety properties of SecretStream, for streams of any length, any   *)
(* mix of push, pushPartial, flush and pull, any cut of the ciphertext and *)
(* any number of faults: what has been decrypted is exactly what arrived   *)
(* whole and undamaged, close() is right about the end of the stream,      *)
(* nothing throws, and the two streams implement a ByteChannel.            *)
(***************************************************************************)
EXTENDS SecretStream, CryptoStreamsProofs

(***************************************************************************)
(* The inductive invariant.  What was sent and what the encryption stream  *)
(* holds are the ciphertext of sealed, without gap; only faults damage it. *)
(***************************************************************************)
TypeInv ==
    /\ protocol \in Protocols /\ pushed \in Nat /\ faults \in Nat /\ eof \in BOOLEAN
    /\ wire \in Seq(Byte) /\ arrived \in Seq(Byte)
    /\ status \in {"IncompleteInput", "CorruptData"}

EncInv == EncryptorOK(Encryptor, pushed)

FlowInv ==
    /\ IsCiphertext(sealed, arrived \o wire, 0)
    /\ faults = 0 => AllUndamaged(sealed, arrived \o wire)
    /\ ~eof => Len(arrived) + Len(wire) = SentBefore(Encryptor)
    /\ eof => encOut = <<>>
    /\ eof /\ faults = 0 => encIn = <<>> /\ Len(arrived) + Len(wire) = SentBefore(Encryptor)

Dec == [out |-> decOut, in |-> decIn, nonce |-> decNonce, status |-> status]
DecInv == closed = "open" => DecryptorOK(Dec, arrived, received)

ClosedInv ==
    closed # "open" =>
        /\ eof /\ wire = <<>> /\ decOut = <<>>
        /\ Whole(arrived) = Len(arrived) => closed = "clean"
        /\ closed = "clean" => Whole(arrived) = Len(arrived) \/ ReadsEmpty(arrived)
        /\ faults = 0 => closed = "clean" /\ Len(received) = pushed

IInv == TypeInv /\ EncInv /\ FlowInv /\ DecInv /\ ClosedInv

----------------------------------------------------------------------------
(* The invariant holds at first. *)
LEMMA InitInv == Init => IInv
<1> SUFFICES ASSUME Init PROVE IInv
    OBVIOUS
<1> USE DEF Init
<1>1. TypeInv
  <2>1. <<>> \in Seq(Byte)
      OBVIOUS
  <2>2. protocol \in Protocols /\ eof \in BOOLEAN
      BY DEF Protocols
  <2> QED BY <2>1, <2>2 DEF TypeInv
<1>2. SealedOK(<<>>) /\ Offset(<<>>, 0) = 0 /\ TotalIn(<<>>, 0) = 0 /\ NonceAfter(0) = 0
  <2>1. 0 * encryptedSize(0) = 0
      BY Overhead
  <2> QED BY <2>1 DEF SealedOK, Offset, TotalIn, NonceAfter
<1>3. /\ \A i : IsCiphertext(<<>>, <<>>, i) /\ AllUndamaged(<<>>, <<>>)
    BY DEF IsCiphertext, AllUndamaged
<1>4. SentBefore(Encryptor) = 0
    BY <1>2 DEF SentBefore, Encryptor
<1>5. EncInv
    BY <1>2, <1>3, <1>4, MaxSize DEF EncInv, EncryptorOK, Encryptor
<1>6. FlowInv
    BY <1>3, <1>4 DEF FlowInv
<1>7. Holds(<<>>, Dec, <<>>, <<>>, 0)
  <2>1. Place(<<>>, Dec, 0) = 0
      BY <1>2, Overhead DEF Place, Dec
  <2> QED BY <1>2, <2>1 DEF Holds, Dec, Decryptors, Statuses
<1>8. Stopped(Dec)
  <2>1. Len(<<>>) < minPeekSize
      BY Overhead
  <2>2. peek(<<>>, 0).status = "IncompleteInput"
      BY <2>1 DEF peek
  <2>3. decrypt(<<>>, 0, 0).status = "IncompleteInput"
      BY <2>2 DEF decrypt
  <2> QED BY <2>3 DEF Stopped, Dec
<1>9. DecInv
    BY <1>7, <1>8 DEF DecInv, DecryptorOK
<1> QED BY <1>1, <1>5, <1>6, <1>9 DEF IInv, ClosedInv

(* The invariant after a step, in terms of the values after it. *)
LEMMA IInvPrimed ==
    ASSUME protocol' = protocol, NEW e, NEW d,
           e = [out |-> encOut', in |-> encIn', nonce |-> encNonce', sealed |-> sealed'],
           d = [out |-> decOut', in |-> decIn', nonce |-> decNonce', status |-> status']
    PROVE  /\ EncInv' <=> EncryptorOK(e, pushed')
           /\ SentBefore(Encryptor)' = SentBefore(e)
           /\ IsCiphertext(sealed, arrived \o wire, 0)' <=> IsCiphertext(sealed', arrived' \o wire', 0)
           /\ AllUndamaged(sealed, arrived \o wire)' <=> AllUndamaged(sealed', arrived' \o wire')
           /\ Encryptor' = e /\ Dec' = d
<1>1. Encryptor' = e /\ Dec' = d
    BY DEF Encryptor, Dec
<1>2. EncInv' <=> EncryptorOK(e, pushed')
    BY <1>1, EncryptorPrimed DEF EncInv
<1>3. SentBefore(Encryptor)' = SentBefore(e)
    BY <1>1, EncryptorPrimed
<1>4. /\ IsCiphertext(sealed, arrived \o wire, 0)' <=> IsCiphertext(sealed', arrived' \o wire', 0)
      /\ AllUndamaged(sealed, arrived \o wire)' <=> AllUndamaged(sealed', arrived' \o wire')
    BY CiphertextPrimed
<1> QED BY <1>1, <1>2, <1>3, <1>4

----------------------------------------------------------------------------
(* The sender.                                                             *)

(* PushPartial, Push and Flush: something becomes of the encryption stream *)
(* that fits n bytes and goes on where it was.                             *)
LEMMA Encrypting ==
    ASSUME IInv, ~eof, NEW e, NEW n \in Nat, EncryptorOK(e, n), Extends(sealed, e.sealed),
           SentBefore(e) = SentBefore(Encryptor), EncryptorBecomes(e), pushed' = n,
           UNCHANGED <<protocol, wire, eof, decVars, faults>>
    PROVE  IInv'
<1> DEFINE f == arrived \o wire
<1>1. e = [out |-> encOut', in |-> encIn', nonce |-> encNonce', sealed |-> sealed']
  <2>1. e \in [out : Seq(Byte), in : Seq(Nat), nonce : Nat, sealed : Seq(Message)]
      BY DEF EncryptorOK
  <2>2. e = [out |-> e.out, in |-> e.in, nonce |-> e.nonce, sealed |-> e.sealed]
      BY <2>1
  <2> QED BY <2>2 DEF EncryptorBecomes
<1>2. /\ protocol' = protocol /\ wire' = wire /\ eof' = eof /\ faults' = faults
      /\ decOut' = decOut /\ decIn' = decIn /\ decNonce' = decNonce /\ status' = status
      /\ received' = received /\ closed' = closed /\ arrived' = arrived
      /\ sealed' = e.sealed /\ encOut' = e.out /\ encIn' = e.in
    BY DEF decVars, EncryptorBecomes
<1>3. /\ EncInv' <=> EncryptorOK(e, pushed')
      /\ SentBefore(Encryptor)' = SentBefore(e)
      /\ IsCiphertext(sealed, arrived \o wire, 0)' <=> IsCiphertext(sealed', arrived' \o wire', 0)
      /\ AllUndamaged(sealed, arrived \o wire)' <=> AllUndamaged(sealed', arrived' \o wire')
    BY <1>1, <1>2, IInvPrimed
<1>4. TypeInv' /\ EncInv'
    BY <1>2, <1>3 DEF TypeInv, IInv
<1>5. SealedOK(sealed) /\ SealedOK(e.sealed)
    BY DEF IInv, EncInv, EncryptorOK, Encryptor
<1>6. IsCiphertext(sealed, f, 0) /\ (faults = 0 => AllUndamaged(sealed, f))
    BY DEF IInv, FlowInv
<1>7. IsCiphertext(e.sealed, f, 0) /\ (AllUndamaged(sealed, f) => AllUndamaged(e.sealed, f))
  <2> HIDE DEF f
  <2> QED BY <1>5, <1>6, CiphertextExtends
<1>8. FlowInv'
    BY <1>2, <1>3, <1>6, <1>7 DEF IInv, FlowInv
<1>9. closed = "open"
    BY DEF IInv, ClosedInv
<1>10. DecInv'
  <2>1. IsCiphertext(sealed, arrived, 0)
    <3>1. arrived \in Seq(Byte) /\ wire \in Seq(Byte)
        BY DEF IInv, TypeInv
    <3>2. Len(f) = Len(arrived) + Len(wire) /\ \A j \in 1 .. Len(arrived) : f[j] = arrived[j]
        BY <3>1
    <3>3. Len(arrived) \in Nat /\ Len(wire) \in Nat
        BY <3>1
    <3> HIDE DEF f
    <3>4. \A j \in 1 .. Len(arrived) : j \in 1 .. Len(f)
        BY <3>2, <3>3
    <3> QED BY <1>6, <3>1, <3>2, <3>4 DEF IsCiphertext
  <2>2. DecryptorOK(Dec, arrived, received)
      BY <1>9 DEF IInv, DecInv
  <2>3. Extends(sealed, sealed') /\ SealedOK(sealed')
      BY <1>2, <1>5
  <2>4. ASSUME NEW d, NEW a, NEW g, DecryptorOK(d, a, g), IsCiphertext(sealed, a, 0)
        PROVE  DecryptorOK(d, a, g)'
      BY <1>2, <1>5, <2>3, <2>4, DecryptorExtends
  <2>5. Dec' = Dec
      BY <1>2 DEF Dec
  <2> QED BY <1>2, <2>1, <2>2, <2>4, <2>5 DEF DecInv
<1>11. ClosedInv'
    BY <1>2, <1>9 DEF ClosedInv
<1> QED BY <1>4, <1>8, <1>10, <1>11 DEF IInv

(* The cleartext that the application pushes next. *)
LEMMA CleartextIs ==
    ASSUME pushed \in Nat, NEW n \in Nat
    PROVE  /\ Cleartext(n) \in Seq(Nat) /\ Len(Cleartext(n)) = n
           /\ \A j \in 1 .. Len(Cleartext(n)) : Cleartext(n)[j] = pushed + j
    BY DEF Cleartext

(* pushPartial() in terms of the invariant. *)
LEMMA PushesOK ==
    ASSUME IInv, NEW n \in Nat
    PROVE  LET e == PushedPartial(Encryptor, Cleartext(n))
           IN  /\ EncryptorOK(e, pushed + n) /\ Extends(sealed, e.sealed)
               /\ SentBefore(e) = SentBefore(Encryptor)
<1> DEFINE x == Cleartext(n)
<1>1. pushed \in Nat /\ EncryptorOK(Encryptor, pushed)
    BY DEF IInv, TypeInv, EncInv
<1>2. x \in Seq(Nat) /\ Len(x) = n /\ \A j \in 1 .. Len(x) : x[j] = pushed + j
    BY <1>1, CleartextIs
<1>3. Encryptor.sealed = sealed
    BY DEF Encryptor
<1> HIDE DEF x
<1>4. /\ EncryptorOK(PushedPartial(Encryptor, x), pushed + Len(x))
      /\ Extends(Encryptor.sealed, PushedPartial(Encryptor, x).sealed)
      /\ SentBefore(PushedPartial(Encryptor, x)) = SentBefore(Encryptor)
    BY <1>1, <1>2, PushedPartialOK
<1> QED BY <1>2, <1>3, <1>4 DEF x

(* pushPartial() keeps the invariant, ... *)
LEMMA PushPartialStep ==
    ASSUME IInv, NEW n \in Nat, PushPartial(n) PROVE IInv'
<1>1. pushed + n \in Nat
    BY DEF IInv, TypeInv
<1> QED BY <1>1, PushesOK, Encrypting DEF PushPartial

(* ... push() does, ... *)
LEMMA PushStep ==
    ASSUME IInv, NEW n \in Nat, Push(n) PROVE IInv'
<1> DEFINE e == PushedPartial(Encryptor, Cleartext(n))
<1>1. pushed + n \in Nat
    BY DEF IInv, TypeInv
<1>2. /\ EncryptorOK(e, pushed + n) /\ Extends(sealed, e.sealed)
      /\ SentBefore(e) = SentBefore(Encryptor)
    BY PushesOK
<1>3. ~eof /\ EncryptorBecomes(Flushed(e)) /\ pushed' = pushed + n
      /\ UNCHANGED <<protocol, wire, eof, decVars, faults>>
    BY DEF Push
<1> HIDE DEF e
<1>4. /\ EncryptorOK(Flushed(e), pushed + n)
      /\ Extends(e.sealed, Flushed(e).sealed) /\ SentBefore(Flushed(e)) = SentBefore(e)
    BY <1>2, FlushedOK
<1>5. Extends(sealed, Flushed(e).sealed)
  <2>1. /\ sealed \in Seq(Message) /\ e.sealed \in Seq(Message)
        /\ Flushed(e).sealed \in Seq(Message)
      BY <1>2, <1>4 DEF IInv, EncInv, EncryptorOK, Encryptor
  <2>2. Len(sealed) \in Nat /\ Len(e.sealed) \in Nat /\ Len(Flushed(e).sealed) \in Nat
      BY <2>1
  <2> QED BY <1>2, <1>4, <2>2 DEF Extends
<1>6. SentBefore(Flushed(e)) = SentBefore(Encryptor)
    BY <1>2, <1>4
<1> QED BY <1>1, <1>3, <1>4, <1>5, <1>6, Encrypting

(* ... and flush(). *)
LEMMA FlushStep ==
    ASSUME IInv, Flush PROVE IInv'
<1>1. pushed \in Nat /\ EncryptorOK(Encryptor, pushed) /\ Encryptor.sealed = sealed
    BY DEF IInv, TypeInv, EncInv, Encryptor
<1>2. /\ EncryptorOK(Flushed(Encryptor), pushed) /\ Extends(sealed, Flushed(Encryptor).sealed)
      /\ SentBefore(Flushed(Encryptor)) = SentBefore(Encryptor)
    BY <1>1, FlushedOK
<1>3. ~eof /\ EncryptorBecomes(Flushed(Encryptor)) /\ pushed' = pushed
      /\ UNCHANGED <<protocol, wire, eof, decVars, faults>>
    BY DEF Flush
<1> QED BY <1>1, <1>2, <1>3, Encrypting

(* Steps that leave the receiver alone. *)
LEMMA ReceiverWaits ==
    ASSUME IInv, closed = "open", UNCHANGED <<protocol, sealed, decVars>>
    PROVE  DecInv' /\ ClosedInv'
<1>1. IsCiphertext(sealed, arrived, 0) /\ SealedOK(sealed)
  <2>1. SealedOK(sealed) /\ IsCiphertext(sealed, arrived \o wire, 0)
      BY DEF IInv, EncInv, EncryptorOK, Encryptor, FlowInv
  <2>2. arrived \in Seq(Byte) /\ wire \in Seq(Byte)
      BY DEF IInv, TypeInv
  <2> QED BY <2>1, <2>2, FlowArrived
<1>2. DecryptorOK(Dec, arrived, received)
    BY DEF IInv, DecInv
<1>3. sealed' = sealed /\ protocol' = protocol /\ Dec' = Dec /\ arrived' = arrived
      /\ received' = received /\ closed' = closed
    BY DEF decVars, Dec
<1>4. Extends(sealed, sealed')
  <2>1. sealed \in Seq(Message)
      BY <1>1 DEF SealedOK
  <2> QED BY <1>3, <2>1 DEF Extends
<1>5. ASSUME NEW d, NEW a, NEW g, DecryptorOK(d, a, g), IsCiphertext(sealed, a, 0)
      PROVE  DecryptorOK(d, a, g)'
    BY <1>1, <1>3, <1>4, <1>5, DecryptorExtends
<1> QED BY <1>1, <1>2, <1>3, <1>5 DEF DecInv, ClosedInv

(* Pulling ciphertext puts it on the wire. *)
LEMMA EncPullStep ==
    ASSUME IInv, NEW n \in Nat, EncPull(n) PROVE IInv'
<1>1. PICK c \in 0 .. Len(encOut) :
          /\ Taken(encOut, n) = SubSeq(encOut, 1, c)
          /\ Kept(encOut, n) = SubSeq(encOut, c + 1, Len(encOut))
  <2>1. encOut \in Seq(Byte)
      BY DEF IInv, EncInv, EncryptorOK, Encryptor
  <2> QED BY <2>1, TakenAndKept
<1>2. /\ encOut # <<>> /\ wire' = wire \o SubSeq(encOut, 1, c)
      /\ encOut' = SubSeq(encOut, c + 1, Len(encOut))
      /\ protocol' = protocol /\ pushed' = pushed /\ encIn' = encIn /\ encNonce' = encNonce
      /\ sealed' = sealed /\ eof' = eof /\ faults' = faults /\ UNCHANGED decVars
    BY <1>1 DEF EncPull, encVars
<1>3. /\ protocol \in Protocols /\ pushed \in Nat /\ faults \in Nat /\ eof \in BOOLEAN
      /\ wire \in Seq(Byte) /\ arrived \in Seq(Byte)
    BY DEF IInv, TypeInv
<1>4. ~eof
    BY <1>2 DEF IInv, FlowInv
<1> DEFINE f == [out |-> encOut', in |-> encIn', nonce |-> encNonce', sealed |-> sealed']
           x == SubSeq(encOut, 1, c)
<1>5. /\ encOut \in Seq(Byte) /\ encIn \in Seq(Nat) /\ encNonce \in Nat /\ sealed \in Seq(Message)
      /\ EncryptorOK(Encryptor, pushed)
    BY DEF IInv, EncInv, EncryptorOK, Encryptor
<1>6. encOut' \in Seq(Byte)
  <2>1. c \in 0 .. Len(encOut) /\ Len(encOut) \in c .. Len(encOut)
      BY <1>5
  <2> QED BY <1>2, <1>5, <2>1, SubSeqFacts
<1>7. f \in [out : Seq(Byte), in : Seq(Nat), nonce : Nat, sealed : Seq(Message)]
    BY <1>2, <1>5, <1>6
<1>8. /\ f.out = SubSeq(encOut, c + 1, Len(encOut)) /\ f.in = Encryptor.in
      /\ f.nonce = Encryptor.nonce /\ f.sealed = Encryptor.sealed /\ Encryptor.out = encOut
      /\ Encryptor.sealed = sealed
    BY <1>2 DEF Encryptor
<1> HIDE DEF f
<1>9. /\ EncryptorOK(f, pushed) /\ SentBefore(f) = SentBefore(Encryptor) + c
      /\ IsCiphertext(sealed, x, SentBefore(Encryptor))
      /\ AllUndamaged(sealed, x)
    BY <1>5, <1>7, <1>8, PulledOK
<1>10. /\ IsCiphertext(sealed, arrived \o wire, 0)
       /\ faults = 0 => AllUndamaged(sealed, arrived \o wire)
       /\ Len(arrived) + Len(wire) = SentBefore(Encryptor)
    BY <1>4 DEF IInv, FlowInv
<1>11. Len(x) = c
  <2>1. 0 \in 0 .. Len(encOut) /\ c \in 0 .. Len(encOut) /\ 0 + 1 = 1 /\ c - 0 = c /\ c \in Nat
      BY <1>5
  <2>2. Len(SubSeq(encOut, 0 + 1, c)) = c - 0
      BY <1>5, <2>1, SubSeqFacts
  <2> QED BY <2>1, <2>2
<1> HIDE DEF x
<1>12. IsCiphertext(sealed, x, Len(arrived) + Len(wire))
    BY <1>9, <1>10
<1>13. /\ wire \o x \in Seq(Byte) /\ Len(wire \o x) = Len(wire) + Len(x) /\ Len(x) \in Nat
       /\ IsCiphertext(sealed, arrived \o (wire \o x), 0)
       /\ AllUndamaged(sealed, arrived \o wire) /\ AllUndamaged(sealed, x) =>
              AllUndamaged(sealed, arrived \o (wire \o x))
    BY <1>3, <1>10, <1>12, FlowGrows
<1>14. wire' = wire \o x /\ arrived' = arrived
    BY <1>2 DEF x, decVars
<1>15. Len(arrived) + Len(wire \o x) = SentBefore(f)
  <2>1. Len(arrived) \in Nat /\ Len(wire) \in Nat
      BY <1>3
  <2> QED BY <1>9, <1>10, <1>11, <1>13, <2>1
<1>16. /\ EncInv' <=> EncryptorOK(f, pushed')
       /\ SentBefore(Encryptor)' = SentBefore(f)
       /\ IsCiphertext(sealed, arrived \o wire, 0)' <=> IsCiphertext(sealed', arrived' \o wire', 0)
       /\ AllUndamaged(sealed, arrived \o wire)' <=> AllUndamaged(sealed', arrived' \o wire')
    BY <1>2, IInvPrimed DEF f
<1>17. TypeInv'
    BY <1>2, <1>3, <1>13, <1>14 DEF TypeInv, decVars, IInv
<1>18. EncInv'
    BY <1>2, <1>9, <1>16
<1>19. FlowInv'
    BY <1>2, <1>4, <1>9, <1>10, <1>13, <1>14, <1>15, <1>16 DEF FlowInv
<1>20. closed = "open"
    BY <1>4 DEF IInv, ClosedInv
<1>21. DecInv' /\ ClosedInv'
    BY <1>2, <1>20, ReceiverWaits
<1> QED BY <1>17, <1>18, <1>19, <1>21 DEF IInv

(* EndStream, Truncate: the stream of the sender ends, and what was not    *)
(* pulled by then is gone.                                                 *)
LEMMA EndStep ==
    ASSUME IInv, EndStream \/ Truncate PROVE IInv'
<1>1. /\ ~eof /\ eof' = TRUE /\ encOut' = <<>> /\ faults' \in Nat
      /\ protocol' = protocol /\ pushed' = pushed /\ encIn' = encIn /\ encNonce' = encNonce
      /\ sealed' = sealed /\ wire' = wire /\ UNCHANGED decVars
      /\ faults' = 0 => faults = 0 /\ encIn = <<>> /\ encOut = <<>>
    BY DEF EndStream, Truncate, encVars, IInv, TypeInv
<1>2. /\ EncryptorOK(Encryptor, pushed) /\ encOut \in Seq(Byte) /\ encIn \in Seq(Nat)
      /\ encNonce \in Nat /\ sealed \in Seq(Message)
    BY DEF IInv, EncInv, EncryptorOK, Encryptor
<1> DEFINE f == [out |-> encOut', in |-> encIn', nonce |-> encNonce', sealed |-> sealed']
           c == Len(encOut)
<1>3. /\ c \in Nat /\ c \in 0 .. c /\ SubSeq(encOut, c + 1, c) = <<>>
  <2>1. c \in Nat /\ c \in 0 .. c /\ c \in c .. c /\ c - c = 0
      BY <1>2
  <2>2. SubSeq(encOut, c + 1, c) \in Seq(Byte) /\ Len(SubSeq(encOut, c + 1, c)) = c - c
      BY <1>2, <2>1, SubSeqFacts
  <2>3. Len(SubSeq(encOut, c + 1, c)) = 0
      BY <2>1, <2>2
  <2> QED BY <2>1, <2>2, <2>3, EmptyFacts
<1>4. f \in [out : Seq(Byte), in : Seq(Nat), nonce : Nat, sealed : Seq(Message)]
    BY <1>1, <1>2
<1>5. /\ f.out = <<>> /\ f.in = Encryptor.in /\ f.nonce = Encryptor.nonce
      /\ f.sealed = Encryptor.sealed /\ Encryptor.out = encOut
    BY <1>1 DEF Encryptor
<1> HIDE DEF f
<1>6. EncryptorOK(f, pushed) /\ SentBefore(f) = SentBefore(Encryptor) + c
    BY <1>2, <1>3, <1>4, <1>5, PulledOK
<1>7. /\ EncInv' <=> EncryptorOK(f, pushed')
      /\ SentBefore(Encryptor)' = SentBefore(f)
      /\ IsCiphertext(sealed, arrived \o wire, 0)' <=> IsCiphertext(sealed', arrived' \o wire', 0)
      /\ AllUndamaged(sealed, arrived \o wire)' <=> AllUndamaged(sealed', arrived' \o wire')
    BY <1>1, IInvPrimed DEF f
<1>8. arrived' = arrived
    BY <1>1 DEF decVars
<1>9. TypeInv' /\ EncInv'
    BY <1>1, <1>6, <1>7 DEF TypeInv, decVars, IInv
<1>10. ASSUME faults' = 0 PROVE Len(arrived) + Len(wire) = SentBefore(f)
  <2>1. c = 0 /\ Len(arrived) + Len(wire) = SentBefore(Encryptor)
      BY <1>1, <1>10 DEF IInv, FlowInv
  <2>2. SentBefore(Encryptor) \in Nat
      BY <1>2 DEF EncryptorOK
  <2> QED BY <1>6, <2>1, <2>2
<1>11. FlowInv'
  <2>1. IsCiphertext(sealed, arrived \o wire, 0) /\ (faults = 0 => AllUndamaged(sealed, arrived \o wire))
      BY DEF IInv, FlowInv
  <2>2. faults' = 0 => AllUndamaged(sealed, arrived \o wire)'
      BY <1>1, <1>7, <1>8, <2>1
  <2>3. IsCiphertext(sealed, arrived \o wire, 0)'
      BY <1>1, <1>7, <1>8, <2>1
  <2>4. faults' = 0 => Len(arrived') + Len(wire') = SentBefore(Encryptor)' /\ encIn' = <<>>
      BY <1>1, <1>7, <1>8, <1>10
  <2> QED BY <1>1, <2>2, <2>3, <2>4 DEF FlowInv
<1>12. closed = "open"
    BY <1>1 DEF IInv, ClosedInv
<1>13. DecInv' /\ ClosedInv'
    BY <1>1, <1>12, ReceiverWaits
<1> QED BY <1>9, <1>11, <1>13 DEF IInv

(* The transport damages a byte. *)
LEMMA DamageStep ==
    ASSUME IInv, Damage PROVE IInv'
<1>1. \E v \in 0 .. Base - 1 : wire' = [wire EXCEPT ![Len(wire)].val = v]
    BY DEF Damage
<1>2. /\ wire # <<>> /\ faults' = faults + 1 /\ protocol' = protocol /\ encOut' = encOut
      /\ pushed' = pushed /\ encIn' = encIn /\ encNonce' = encNonce /\ sealed' = sealed
      /\ eof' = eof /\ UNCHANGED decVars /\ arrived' = arrived
    BY DEF Damage, encVars, decVars
<1>3. wire \in Seq(Byte) /\ arrived \in Seq(Byte) /\ faults \in Nat
    BY DEF IInv, TypeInv
<1>4. Len(wire) > 0
    BY <1>2, <1>3
<1>5. IsCiphertext(sealed, arrived \o wire, 0)
    BY DEF IInv, FlowInv
<1>6. wire' \in Seq(Byte) /\ Len(wire') = Len(wire) /\ IsCiphertext(sealed, arrived \o wire', 0)
  <2>1. DamagesLast(sealed, arrived, wire, wire')
      BY <1>1, <1>3, <1>4, <1>5 DEF DamagesLast
  <2> QED BY <2>1, DamagedCiphertext
<1> DEFINE f == [out |-> encOut', in |-> encIn', nonce |-> encNonce', sealed |-> sealed']
<1>7. f = Encryptor
    BY <1>2 DEF Encryptor
<1>8. /\ EncInv' <=> EncryptorOK(f, pushed')
      /\ SentBefore(Encryptor)' = SentBefore(f)
      /\ IsCiphertext(sealed, arrived \o wire, 0)' <=> IsCiphertext(sealed', arrived' \o wire', 0)
    BY <1>2, IInvPrimed
<1> HIDE DEF f
<1>9. TypeInv' /\ EncInv'
    BY <1>2, <1>3, <1>6, <1>7, <1>8 DEF TypeInv, decVars, IInv, EncInv
<1>10. FlowInv'
  <2>1. faults' # 0
      BY <1>2, <1>3
  <2>2. IsCiphertext(sealed, arrived \o wire, 0)'
      BY <1>2, <1>6, <1>8
  <2>3. ~eof => Len(arrived') + Len(wire') = SentBefore(Encryptor)'
      BY <1>2, <1>6, <1>7, <1>8 DEF IInv, FlowInv
  <2>4. eof => encOut = <<>>
      BY DEF IInv, FlowInv
  <2> QED BY <1>2, <2>1, <2>2, <2>3, <2>4 DEF FlowInv
<1>11. closed = "open"
    BY <1>2 DEF IInv, ClosedInv
<1>12. DecInv' /\ ClosedInv'
    BY <1>2, <1>11, ReceiverWaits
<1> QED BY <1>9, <1>10, <1>12 DEF IInv

----------------------------------------------------------------------------
(* The receiver.                                                           *)

(* Steps that leave the sender and its ciphertext alone. *)
LEMMA SenderWaits ==
    ASSUME IInv, UNCHANGED <<protocol, encOut, encVars, eof, faults>>,
           arrived' \in Seq(Byte), wire' \in Seq(Byte), arrived' \o wire' = arrived \o wire,
           Len(arrived') + Len(wire') = Len(arrived) + Len(wire),
           status' \in {"IncompleteInput", "CorruptData"}
    PROVE  TypeInv' /\ EncInv' /\ FlowInv'
<1>1. /\ protocol' = protocol /\ encOut' = encOut /\ pushed' = pushed /\ encIn' = encIn
      /\ encNonce' = encNonce /\ sealed' = sealed /\ eof' = eof /\ faults' = faults
    BY DEF encVars
<1> DEFINE f == [out |-> encOut', in |-> encIn', nonce |-> encNonce', sealed |-> sealed']
<1>2. f = Encryptor
    BY <1>1 DEF Encryptor
<1>3. /\ EncInv' <=> EncryptorOK(f, pushed')
      /\ SentBefore(Encryptor)' = SentBefore(f)
      /\ IsCiphertext(sealed, arrived \o wire, 0)' <=> IsCiphertext(sealed', arrived' \o wire', 0)
      /\ AllUndamaged(sealed, arrived \o wire)' <=> AllUndamaged(sealed', arrived' \o wire')
    BY <1>1, IInvPrimed
<1> HIDE DEF f
<1>4. TypeInv' /\ EncInv'
    BY <1>1, <1>2, <1>3 DEF TypeInv, EncInv, IInv
<1>5. FlowInv'
    BY <1>1, <1>2, <1>3 DEF FlowInv, IInv
<1> QED BY <1>4, <1>5

(* What push() of the next n bytes does, in terms of the invariant. *)
LEMMA DecPushOK ==
    ASSUME IInv, NEW n \in Nat, DecPush(n)
    PROVE  LET f == [out |-> decOut', in |-> decIn', nonce |-> decNonce', status |-> status']
           IN  /\ DecryptorOK(f, arrived', received) /\ arrived' \in Seq(Byte)
               /\ IsCiphertext(sealed, arrived', 0) /\ wire' \in Seq(Byte)
               /\ arrived' \o wire' = arrived \o wire
               /\ Len(arrived') + Len(wire') = Len(arrived) + Len(wire)
               /\ status' \in {"IncompleteInput", "CorruptData"}
               /\ status' = "CorruptData" => faults > 0
               /\ status = "CorruptData" => decOut' = decOut /\ status' = "CorruptData"
               /\ Len(received) \in Nat /\ Len(decOut) \in Nat /\ Len(decOut') \in Nat
               /\ Len(decOut) <= Len(decOut')
<1> DEFINE x == SubSeq(wire, 1, n)
           y == SubSeq(wire, n + 1, Len(wire))
           e == [Decryptor EXCEPT !.in = @ \o x]
           d == Decrypted(e)
           f == [out |-> decOut', in |-> decIn', nonce |-> decNonce', status |-> status']
<1>1. /\ closed = "open" /\ n <= Len(wire) /\ arrived' = arrived \o x /\ wire' = y
      /\ decOut' = d.out /\ decIn' = d.in /\ decNonce' = d.nonce /\ status' = d.status
    BY DEF DecPush
<1>2. wire \in Seq(Byte) /\ arrived \in Seq(Byte) /\ faults \in Nat /\ protocol \in Protocols
      /\ SealedOK(sealed)
    BY DEF IInv, TypeInv, EncInv, EncryptorOK, Encryptor
<1>3. n \in 0 .. Len(wire)
    BY <1>1, <1>2
<1>4. /\ x \in Seq(Byte) /\ y \in Seq(Byte) /\ arrived \o x \in Seq(Byte)
      /\ (arrived \o x) \o y = arrived \o wire
      /\ Len(arrived \o x) + Len(y) = Len(arrived) + Len(wire)
  <2>1. Moves(arrived, wire, n, x, y)
      BY <1>2, <1>3 DEF Moves
  <2> HIDE DEF x, y
  <2> QED BY <2>1, FlowMoves, SMTT(60)
<1> HIDE DEF x, y
<1>5. IsCiphertext(sealed, arrived \o wire, 0) /\ (faults = 0 => AllUndamaged(sealed, arrived \o wire))
    BY DEF IInv, FlowInv
<1>6. IsCiphertext(sealed, arrived \o x, 0) /\ (faults = 0 => AllUndamaged(sealed, arrived \o x))
  <2> DEFINE a == arrived \o x
  <2>1. a \in Seq(Byte) /\ IsCiphertext(sealed, a \o y, 0) /\ (faults = 0 => AllUndamaged(sealed, a \o y))
      BY <1>4, <1>5
  <2> HIDE DEF a
  <2>2. IsCiphertext(sealed, a, 0) /\ (AllUndamaged(sealed, a \o y) => AllUndamaged(sealed, a))
      BY <1>4, <2>1, FlowArrived
  <2> QED BY <2>1, <2>2 DEF a
<1>7. DecryptorOK(Dec, arrived, received)
    BY <1>1 DEF IInv, DecInv
<1>8. /\ decOut \in Seq(Nat) /\ decIn \in Seq(Byte) /\ decNonce \in Nat
  <2>1. Dec \in Decryptors
      BY <1>7 DEF DecryptorOK, Holds
  <2> QED BY <2>1 DEF Dec, Decryptors
<1>9. decIn \o x \in Seq(Byte)
    BY <1>4, <1>8
<1>10. e = [out |-> decOut, in |-> decIn \o x, nonce |-> decNonce, status |-> "Success"]
  <2> DEFINE z == decIn \o x
  <2>1. Decryptor = [out |-> decOut, in |-> decIn, nonce |-> decNonce, status |-> "Success"]
      BY DEF Decryptor
  <2>2. e = [Decryptor EXCEPT !.in = z]
      BY <2>1
  <2> HIDE DEF z, e
  <2>3. e = [out |-> decOut, in |-> z, nonce |-> decNonce, status |-> "Success"]
      BY <2>1, <2>2
  <2> QED BY <2>3 DEF z
<1> HIDE DEF e
<1>11. /\ e \in Decryptors /\ e.in = Dec.in \o x /\ e.out = Dec.out /\ e.nonce = Dec.nonce
    BY <1>8, <1>9, <1>10 DEF Decryptors, Statuses, Dec
<1>12. d = Decrypted(e)
    OBVIOUS
<1> HIDE DEF d
<1>13. /\ DecryptorOK(d, arrived \o x, received)
       /\ d.status \in {"IncompleteInput", "CorruptData"}
       /\ d.status = "CorruptData" => ~AllUndamaged(sealed, arrived \o x)
       /\ Dec.status = "CorruptData" => d.out = Dec.out /\ d.status = "CorruptData"
       /\ Len(received) \in Nat /\ Len(Dec.out) \in Nat /\ Len(d.out) \in Nat
       /\ Len(Dec.out) <= Len(d.out)
  <2>1. Pushing(Dec, arrived, received, x, e)
      BY <1>2, <1>4, <1>6, <1>7, <1>11 DEF Pushing
  <2> QED BY <1>12, <2>1, PushOK
<1>14. d = f
  <2>1. d \in Decryptors
      BY <1>13 DEF DecryptorOK, Holds
  <2>2. d = [out |-> d.out, in |-> d.in, nonce |-> d.nonce, status |-> d.status]
      BY <2>1 DEF Decryptors
  <2> QED BY <1>1, <2>2
<1>15. Dec.status = status /\ Dec.out = decOut
    BY DEF Dec
<1> HIDE DEF f
<1>16. status' = "CorruptData" => faults > 0
    BY <1>1, <1>2, <1>6, <1>13
<1> QED BY <1>1, <1>4, <1>6, <1>13, <1>14, <1>15, <1>16 DEF f

(* DecryptionStream::push(). *)
LEMMA DecPushStep ==
    ASSUME IInv, NEW n \in Nat, DecPush(n) PROVE IInv'
<1> DEFINE f == [out |-> decOut', in |-> decIn', nonce |-> decNonce', status |-> status']
<1>1. /\ DecryptorOK(f, arrived', received) /\ arrived' \in Seq(Byte)
      /\ IsCiphertext(sealed, arrived', 0) /\ wire' \in Seq(Byte)
      /\ arrived' \o wire' = arrived \o wire
      /\ Len(arrived') + Len(wire') = Len(arrived) + Len(wire)
      /\ status' \in {"IncompleteInput", "CorruptData"}
    BY DecPushOK
<1>2. /\ UNCHANGED <<protocol, encOut, encVars, eof, faults>> /\ sealed' = sealed
      /\ received' = received /\ closed' = closed /\ closed = "open"
    BY DEF DecPush, encVars
<1>3. TypeInv' /\ EncInv' /\ FlowInv'
    BY <1>1, <1>2, SenderWaits
<1>4. SealedOK(sealed) /\ Extends(sealed, sealed')
  <2>1. SealedOK(sealed) /\ sealed \in Seq(Message)
      BY DEF IInv, EncInv, EncryptorOK, Encryptor
  <2> QED BY <1>2, <2>1 DEF Extends
<1>5. ASSUME NEW d, NEW a, NEW g, DecryptorOK(d, a, g), IsCiphertext(sealed, a, 0)
      PROVE  DecryptorOK(d, a, g)'
    BY <1>2, <1>4, <1>5, DecryptorExtends
<1>6. Dec' = f
    BY DEF Dec
<1> HIDE DEF f
<1>7. DecInv' /\ ClosedInv'
    BY <1>1, <1>2, <1>5, <1>6 DEF DecInv, ClosedInv
<1> QED BY <1>3, <1>7 DEF IInv

(* What pull() does, in terms of the invariant. *)
LEMMA DecPullOK ==
    ASSUME IInv, NEW n \in Nat, DecPull(n)
    PROVE  LET f == [out |-> decOut', in |-> decIn', nonce |-> decNonce', status |-> status']
           IN  /\ closed = "open" /\ DecryptorOK(f, arrived, received')
               /\ received' \o decOut' = received \o decOut
<1>1. closed = "open"
    BY DEF DecPull, IInv, ClosedInv
<1>2. DecryptorOK(Dec, arrived, received)
    BY <1>1 DEF IInv, DecInv
<1>3. decOut \in Seq(Nat) /\ decIn \in Seq(Byte) /\ decNonce \in Nat /\ status \in Statuses
  <2>1. Dec \in Decryptors
      BY <1>2 DEF DecryptorOK, Holds
  <2> QED BY <2>1 DEF Dec, Decryptors
<1>4. PICK c \in 0 .. Len(decOut) :
          /\ Taken(decOut, n) = SubSeq(decOut, 1, c)
          /\ Kept(decOut, n) = SubSeq(decOut, c + 1, Len(decOut))
    BY <1>3, TakenAndKept
<1> DEFINE f == [out |-> decOut', in |-> decIn', nonce |-> decNonce', status |-> status']
<1>5. /\ received' = received \o SubSeq(decOut, 1, c)
      /\ decOut' = SubSeq(decOut, c + 1, Len(decOut))
      /\ decIn' = decIn /\ decNonce' = decNonce /\ status' = status
    BY <1>4 DEF DecPull
<1>6. decOut' \in Seq(Nat)
  <2>1. c \in 0 .. Len(decOut) /\ Len(decOut) \in c .. Len(decOut)
      BY <1>3
  <2> QED BY <1>3, <1>5, <2>1, SubSeqFacts
<1>7. f \in Decryptors /\ f.in = Dec.in /\ f.nonce = Dec.nonce /\ f.status = Dec.status
      /\ f.out = SubSeq(Dec.out, c + 1, Len(Dec.out)) /\ Dec.out = decOut /\ f.out = decOut'
    BY <1>3, <1>5, <1>6 DEF Decryptors, Dec
<1> HIDE DEF f
<1>8. /\ DecryptorOK(f, arrived, received \o SubSeq(Dec.out, 1, c))
      /\ (received \o SubSeq(Dec.out, 1, c)) \o f.out = received \o Dec.out
  <2>1. c \in 0 .. Len(Dec.out)
      BY <1>7
  <2> QED BY <1>2, <1>7, <2>1, PullOK
<1> QED BY <1>1, <1>5, <1>7, <1>8 DEF f

(* Pulling cleartext from the decryption stream. *)
LEMMA DecPullStep ==
    ASSUME IInv, NEW n \in Nat, DecPull(n) PROVE IInv'
<1> DEFINE f == [out |-> decOut', in |-> decIn', nonce |-> decNonce', status |-> status']
<1>1. closed = "open" /\ DecryptorOK(f, arrived, received')
    BY DecPullOK
<1>2. /\ UNCHANGED <<protocol, encOut, encVars, eof, faults>> /\ sealed' = sealed
      /\ wire' = wire /\ arrived' = arrived /\ closed' = closed /\ status' = status
    BY DEF DecPull, encVars
<1>3. arrived \in Seq(Byte) /\ wire \in Seq(Byte) /\ status \in {"IncompleteInput", "CorruptData"}
    BY DEF IInv, TypeInv
<1>4. TypeInv' /\ EncInv' /\ FlowInv'
    BY <1>2, <1>3, SenderWaits
<1>5. SealedOK(sealed) /\ Extends(sealed, sealed') /\ IsCiphertext(sealed, arrived, 0)
  <2>1. SealedOK(sealed) /\ sealed \in Seq(Message) /\ IsCiphertext(sealed, arrived \o wire, 0)
      BY DEF IInv, EncInv, EncryptorOK, Encryptor, FlowInv
  <2>2. IsCiphertext(sealed, arrived, 0)
      BY <1>3, <2>1, FlowArrived
  <2> QED BY <1>2, <2>1, <2>2 DEF Extends
<1>6. ASSUME NEW d, NEW a, NEW g, DecryptorOK(d, a, g), IsCiphertext(sealed, a, 0)
      PROVE  DecryptorOK(d, a, g)'
    BY <1>2, <1>5, <1>6, DecryptorExtends
<1>7. Dec' = f
    BY DEF Dec
<1> HIDE DEF f
<1>8. DecInv' /\ ClosedInv'
    BY <1>1, <1>2, <1>5, <1>6, <1>7 DEF DecInv, ClosedInv
<1> QED BY <1>4, <1>8 DEF IInv


(* What the invariant says of a receiver that has not closed. *)
LEMMA Decrypts ==
    ASSUME IInv, closed = "open"
    PROVE  \E k \in 0 .. Len(sealed) :
              /\ received \o decOut = [i \in 1 .. TotalIn(sealed, k) |-> i]
              /\ Len(received) \in Nat /\ Len(decOut) \in Nat
              /\ Len(received) + Len(decOut) = TotalIn(sealed, k)
              /\ TotalIn(sealed, k) \in Nat /\ TotalIn(sealed, k) <= pushed
              /\ Whole(arrived) = Offset(sealed, k)
              /\ CleartextSize(arrived) = TotalIn(sealed, k)
              /\ decIn \in Seq(Byte)
              /\ Len(decIn) > 0 => Whole(arrived) # Len(arrived)
              /\ Len(decIn) = 0 => Whole(arrived) = Len(arrived) \/ ReadsEmpty(arrived)
              /\ eof /\ wire = <<>> /\ faults = 0 =>
                    decIn = <<>> /\ TotalIn(sealed, k) = pushed
<1>1. /\ protocol \in Protocols /\ wire \in Seq(Byte) /\ arrived \in Seq(Byte)
      /\ SealedOK(sealed) /\ IsCiphertext(sealed, arrived \o wire, 0)
      /\ faults = 0 => AllUndamaged(sealed, arrived \o wire)
    BY DEF IInv, TypeInv, EncInv, EncryptorOK, Encryptor, FlowInv
<1>2. IsCiphertext(sealed, arrived, 0) /\ (AllUndamaged(sealed, arrived \o wire) => AllUndamaged(sealed, arrived))
    BY <1>1, FlowArrived
<1>3. Stopped(Dec) /\ \E k \in 0 .. Len(sealed) : Holds(sealed, Dec, arrived, received, k)
    BY DEF IInv, DecInv, DecryptorOK
<1>4. PICK k \in 0 .. Len(sealed) : Holds(sealed, Dec, arrived, received, k)
    BY <1>3
<1>5. Dec.out = decOut /\ Dec.in = decIn
    BY DEF Dec
<1>6. /\ received \o decOut = [i \in 1 .. TotalIn(sealed, k) |-> i]
      /\ Len(received) \in Nat /\ Len(decOut) \in Nat
      /\ Len(received) + Len(decOut) = TotalIn(sealed, k)
      /\ TotalIn(sealed, k) \in Nat
    BY <1>1, <1>4, <1>5, ReceivedIs
<1>7. /\ Whole(arrived) = Offset(sealed, k) /\ CleartextSize(arrived) = TotalIn(sealed, k)
      /\ Len(Dec.in) > 0 => Whole(arrived) # Len(arrived)
      /\ Len(Dec.in) = 0 => Whole(arrived) = Len(arrived) \/ ReadsEmpty(arrived)
    BY <1>1, <1>2, <1>3, <1>4, WholeIs
<1>8. decIn \in Seq(Byte)
  <2>1. Dec \in Decryptors
      BY <1>4 DEF Holds
  <2> QED BY <1>5, <2>1 DEF Decryptors
<1> DEFINE M == Len(sealed)
<1>9. /\ M \in 0 .. M /\ pushed = TotalIn(sealed, M) + Len(encIn) /\ encIn \in Seq(Nat)
      /\ SentBefore(Encryptor) = Offset(sealed, M) - Len(encOut)
      /\ M \in Nat
    BY <1>1 DEF IInv, EncInv, EncryptorOK, Encryptor, SentBefore, SealedOK
<1>10. TotalIn(sealed, k) <= TotalIn(sealed, M) /\ TotalIn(sealed, M) \in Nat /\ Offset(sealed, M) \in Nat
  <2>1. k <= M
      BY <1>9
  <2> QED BY <1>1, <1>9, <2>1, OffsetMonotone, TotalInNat, OffsetNat
<1>11. TotalIn(sealed, k) <= pushed
  <2>1. Len(encIn) \in Nat
      BY <1>9
  <2> QED BY <1>6, <1>9, <1>10, <2>1, SMTT(60)
<1>12. ASSUME eof /\ wire = <<>> /\ faults = 0 PROVE decIn = <<>> /\ TotalIn(sealed, k) = pushed
  <2>1. encIn = <<>> /\ encOut = <<>> /\ Len(arrived) + Len(wire) = SentBefore(Encryptor)
      BY <1>12 DEF IInv, FlowInv
  <2>2. Len(arrived) = Offset(sealed, M)
    <3>1. Len(wire) = 0 /\ Len(encOut) = 0 /\ Len(arrived) \in Nat
        BY <1>1, <1>12, <2>1
    <3> QED BY <1>9, <1>10, <2>1, <3>1
  <2>3. AllUndamaged(sealed, arrived)
      BY <1>1, <1>2, <1>12
  <2>4. k = M /\ Dec.in = <<>>
      BY <1>1, <1>2, <1>3, <1>4, <2>2, <2>3, AllDecrypted
  <2>5. Len(encIn) = 0
      BY <2>1
  <2> QED BY <1>5, <1>9, <1>10, <2>4, <2>5
<1> QED BY <1>5, <1>6, <1>7, <1>8, <1>11, <1>12

(* DecryptionStream::close(). *)
LEMMA CloseStep ==
    ASSUME IInv, Close PROVE IInv'
<1>1. /\ UNCHANGED <<protocol, encOut, encVars, eof, faults>> /\ sealed' = sealed
      /\ wire' = wire /\ arrived' = arrived /\ status' = status /\ protocol' = protocol
      /\ closed = "open" /\ eof /\ wire = <<>> /\ decOut = <<>> /\ decOut' = <<>>
      /\ received' = received /\ pushed' = pushed /\ faults' = faults /\ eof' = eof
      /\ closed' = IF decIn = <<>> THEN "clean" ELSE "dirty"
    BY DEF Close, encVars
<1>2. arrived \in Seq(Byte) /\ wire \in Seq(Byte) /\ status \in {"IncompleteInput", "CorruptData"}
    BY DEF IInv, TypeInv
<1>3. TypeInv' /\ EncInv' /\ FlowInv'
    BY <1>1, <1>2, SenderWaits
<1>4. Whole(arrived)' = Whole(arrived) /\ (ReadsEmpty(arrived)' <=> ReadsEmpty(arrived))
    BY <1>1, WholePrimed
<1>5. /\ Whole(arrived) = Len(arrived) => decIn = <<>>
      /\ decIn = <<>> => Whole(arrived) = Len(arrived) \/ ReadsEmpty(arrived)
      /\ faults = 0 => decIn = <<>> /\ Len(received) = pushed
  <2>1. PICK k \in 0 .. Len(sealed) :
              /\ Len(received) \in Nat /\ Len(decOut) \in Nat
              /\ Len(received) + Len(decOut) = TotalIn(sealed, k)
              /\ Whole(arrived) = Offset(sealed, k)
              /\ decIn \in Seq(Byte)
              /\ Len(decIn) > 0 => Whole(arrived) # Len(arrived)
              /\ Len(decIn) = 0 => Whole(arrived) = Len(arrived) \/ ReadsEmpty(arrived)
              /\ eof /\ wire = <<>> /\ faults = 0 =>
                    decIn = <<>> /\ TotalIn(sealed, k) = pushed
      BY <1>1, Decrypts
  <2>2. Len(decIn) \in Nat /\ (decIn = <<>> <=> Len(decIn) = 0)
      BY <2>1, EmptyFacts
  <2>3. /\ Whole(arrived) = Len(arrived) => Len(decIn) = 0
        /\ Len(decIn) = 0 => Whole(arrived) = Len(arrived) \/ ReadsEmpty(arrived)
      BY <2>1, <2>2
  <2>4. Len(decOut) = 0
      BY <1>1
  <2>5. faults = 0 => decIn = <<>> /\ Len(received) = pushed
      BY <1>1, <2>1, <2>4
  <2> QED BY <2>2, <2>3, <2>5
<1>6. closed' # "open" /\ (closed' = "clean" <=> decIn = <<>>)
    BY <1>1
<1>7. DecInv'
    BY <1>6 DEF DecInv
<1>8. ClosedInv'
    BY <1>1, <1>4, <1>5, <1>6 DEF ClosedInv
<1> QED BY <1>3, <1>7, <1>8 DEF IInv

(* A step that changes nothing. *)
LEMMA StutterStep ==
    ASSUME IInv, UNCHANGED vars PROVE IInv'
<1>1. /\ UNCHANGED <<protocol, encOut, encVars, eof, faults>> /\ sealed' = sealed
      /\ wire' = wire /\ arrived' = arrived /\ status' = status /\ protocol' = protocol
      /\ decOut' = decOut /\ received' = received /\ closed' = closed /\ pushed' = pushed
      /\ eof' = eof /\ faults' = faults
      /\ UNCHANGED <<protocol, sealed, decVars>>
    BY DEF vars, encVars, decVars
<1>2. arrived \in Seq(Byte) /\ wire \in Seq(Byte) /\ status \in {"IncompleteInput", "CorruptData"}
    BY DEF IInv, TypeInv
<1>3. TypeInv' /\ EncInv' /\ FlowInv'
    BY <1>1, <1>2, SenderWaits
<1>4. CASE closed = "open"
    BY <1>1, <1>3, <1>4, ReceiverWaits DEF IInv
<1>5. CASE closed # "open"
  <2>1. Whole(arrived)' = Whole(arrived) /\ (ReadsEmpty(arrived)' <=> ReadsEmpty(arrived))
      BY <1>1, WholePrimed
  <2>2. DecInv' /\ ClosedInv'
      BY <1>1, <1>5, <2>1 DEF IInv, DecInv, ClosedInv
  <2> QED BY <1>3, <2>2 DEF IInv
<1> QED BY <1>4, <1>5

(* Every step keeps the invariant. *)
LEMMA StepInv == IInv /\ [Next]_vars => IInv'
<1> SUFFICES ASSUME IInv, [Next]_vars PROVE IInv'
    OBVIOUS
<1>0. MaxBytes \in Nat /\ Len(encOut) \in Nat /\ Len(wire) \in Nat
  <2>1. encOut \in Seq(Byte) /\ wire \in Seq(Byte)
      BY DEF IInv, TypeInv, EncInv, EncryptorOK, Encryptor
  <2> QED BY <2>1, StreamConstants
<1>1. CASE \E n \in 1 .. MaxBytes : PushPartial(n) \/ Push(n)
  <2>1. PICK n \in 1 .. MaxBytes : PushPartial(n) \/ Push(n)
      BY <1>1
  <2>2. n \in Nat
      BY <1>0
  <2> QED BY <2>1, <2>2, PushPartialStep, PushStep
<1>2. CASE Flush
    BY <1>2, FlushStep
<1>3. CASE EndStream \/ Truncate
    BY <1>3, EndStep
<1>4. CASE \E n \in 1 .. Len(encOut) : EncPull(n)
    BY <1>0, <1>4, EncPullStep
<1>5. CASE \E n \in 1 .. Len(wire) : DecPush(n)
  <2>1. PICK n \in 1 .. Len(wire) : DecPush(n)
      BY <1>5
  <2>2. n \in Nat
      BY <1>0
  <2> QED BY <2>1, <2>2, DecPushStep
<1>6. CASE \E n \in 1 .. Len(decOut) : DecPull(n)
  <2>1. PICK n \in 1 .. Len(decOut) : DecPull(n)
      BY <1>6
  <2>2. n \in Nat
    <3>1. closed = "open"
        BY <2>1 DEF DecPull, IInv, ClosedInv
    <3>2. Len(decOut) \in Nat
        BY <3>1, Decrypts
    <3> QED BY <3>2
  <2> QED BY <2>1, <2>2, DecPullStep
<1>7. CASE Close
    BY <1>7, CloseStep
<1>8. CASE Damage
    BY <1>8, DamageStep
<1>9. CASE Done \/ UNCHANGED vars
    BY <1>9, StutterStep DEF Done
<1> QED BY <1>1, <1>2, <1>3, <1>4, <1>5, <1>6, <1>7, <1>8, <1>9 DEF Next, Sender, Receiver

(* The inductive invariant: all ciphertext in the buffers and on the wire  *)
(* is, in order, that of the messages encrypted; the decryption stream has *)
(* decrypted the whole undamaged messages at its front, and holds what     *)
(* follows, but for what it dropped since the next length read 0.          *)
THEOREM Invariance == Spec => []IInv
    BY InitInv, StepInv, PTL DEF Spec

----------------------------------------------------------------------------
(* The receiver has decrypted exactly the whole undamaged messages that    *)
(* have arrived, however push(), pushPartial() and flush() made them, in   *)
(* both formats, and however the ciphertext was cut up on the way.         *)
THEOREM DeliveryIsExact == Spec => []ExactDelivery
<1>1. IInv => ExactDelivery
  <2> SUFFICES ASSUME IInv, closed = "open"
               PROVE  received \o decOut = [i \in 1 .. CleartextSize(arrived) |-> i]
      BY DEF ExactDelivery
  <2>1. PICK k \in 0 .. Len(sealed) :
              /\ received \o decOut = [i \in 1 .. TotalIn(sealed, k) |-> i]
              /\ CleartextSize(arrived) = TotalIn(sealed, k)
      BY Decrypts
  <2> QED BY <2>1
<1> QED BY <1>1, Invariance, PTL

(* DecryptionStream::close() returns true if the ciphertext ended behind a *)
(* whole message and none of it was damaged, and otherwise only behind     *)
(* damage that made a Compact message read as an empty one; an undisturbed *)
(* stream has then been received to the last byte pushed.                  *)
THEOREM CloseIsRight == Spec => []CloseVerdict
<1>1. IInv => CloseVerdict
    BY DEF IInv, ClosedInv, CloseVerdict
<1> QED BY <1>1, Invariance, PTL

(* None of the exceptions of the streams is ever thrown: messages fit      *)
(* their length bytes, and decrypting in place always has room.            *)
THEOREM NothingThrows == Spec => []NeverThrows
<1>1. IInv => NeverThrows
  <2> SUFFICES ASSUME IInv PROVE NeverThrows
      OBVIOUS
  <2>1. Len(encIn) <= kMaxMessageSize /\ SealedOK(sealed)
      BY DEF IInv, EncInv, EncryptorOK, Encryptor
  <2>2. \A i \in DOMAIN sealed : Len(sealed[i].data) \in 1 .. kMaxMessageSize
      BY <2>1 DEF SealedOK
  <2>3. status # "OutTooSmall"
      BY DEF IInv, TypeInv
  <2> QED BY <2>1, <2>2, <2>3 DEF NeverThrows
<1> QED BY <1>1, Invariance, PTL

----------------------------------------------------------------------------
(* Refinement.                                                             *)

(* The streams start as a channel does. *)
LEMMA ChannelInit == Init => Channel!Init
<1> SUFFICES ASSUME Init PROVE Channel!Init
    OBVIOUS
<1>1. received \o decOut = <<>>
    BY DEF Init
<1>2. ~(faults > 0) /\ pushed = 0 /\ status # "CorruptData"
    BY DEF Init
<1> QED BY <1>1, <1>2 DEF Channel!Init

(* What was pulled and what can be pulled are the first bytes pushed, also *)
(* after a step.                                                           *)
HasPrefix ==
    \E n \in Nat : /\ received \o decOut = [i \in 1 .. n |-> i]
                   /\ Len(received) + Len(decOut) = n /\ n <= pushed

(* What was received and what waits are the first bytes of what was        *)
(* pushed, ...                                                             *)
LEMMA Prefix == IInv /\ closed = "open" => HasPrefix
<1> SUFFICES ASSUME IInv, closed = "open" PROVE HasPrefix
    OBVIOUS
<1>1. PICK k \in 0 .. Len(sealed) :
          /\ received \o decOut = [i \in 1 .. TotalIn(sealed, k) |-> i]
          /\ Len(received) + Len(decOut) = TotalIn(sealed, k)
          /\ TotalIn(sealed, k) \in Nat /\ TotalIn(sealed, k) <= pushed
    BY Decrypts
<1> QED BY <1>1 DEF HasPrefix

(* ... also after a step. *)
LEMMA PrefixNext == (IInv /\ closed = "open" => HasPrefix)'
    BY Prefix, PTL

(* Every step of the streams is a step of the channel, or none. *)
LEMMA ChannelStep == IInv /\ [Next]_vars => [Channel!Next]_(Channel!vars)
<1> SUFFICES ASSUME IInv, [Next]_vars PROVE [Channel!Next]_(Channel!vars)
    OBVIOUS
<1>0. pushed \in Nat /\ faults \in Nat /\ Len(wire) \in Nat
  <2>1. wire \in Seq(Byte)
      BY DEF IInv, TypeInv
  <2> QED BY <2>1 DEF IInv, TypeInv
<1>1. CASE \E n \in 1 .. MaxBytes : PushPartial(n) \/ Push(n)
  <2>1. PICK n \in 1 .. MaxBytes : PushPartial(n) \/ Push(n)
      BY <1>1
  <2>2. /\ pushed' = pushed + n /\ received' = received /\ decOut' = decOut
        /\ faults' = faults /\ status' = status
      BY <2>1 DEF PushPartial, Push, decVars
  <2>3. pushed' > pushed
      BY <1>0, <2>2
  <2> QED BY <2>2, <2>3 DEF Channel!Next, Channel!Write
<1>2. CASE Flush \/ EndStream \/ (\E n \in 1 .. Len(encOut) : EncPull(n)) \/ Close \/ Done \/ UNCHANGED vars
  <2>1. /\ pushed' = pushed /\ received' = received /\ decOut' = decOut
        /\ faults' = faults /\ status' = status
      BY <1>2 DEF Flush, EndStream, EncPull, Close, Done, vars, encVars, decVars
  <2> QED BY <2>1 DEF Channel!vars
<1>3. CASE Damage \/ Truncate
  <2>1. /\ pushed' = pushed /\ received' = received /\ decOut' = decOut
        /\ faults' = faults + 1 /\ status' = status
      BY <1>3 DEF Damage, Truncate, encVars, decVars
  <2>2. (faults' > 0) = TRUE
      BY <1>0, <2>1
  <2> QED BY <2>1, <2>2 DEF Channel!Next, Channel!Damage
<1>4. CASE \E n \in 1 .. Len(decOut) : DecPull(n)
  <2>1. PICK n \in 1 .. Len(decOut) : DecPull(n)
      BY <1>4
  <2>2. n \in Nat
    <3>1. closed = "open"
        BY <2>1 DEF DecPull, IInv, ClosedInv
    <3>2. Len(decOut) \in Nat
        BY <3>1, Decrypts
    <3> QED BY <3>2
  <2>3. received' \o decOut' = received \o decOut
      BY <2>1, <2>2, DecPullOK
  <2>4. pushed' = pushed /\ faults' = faults /\ status' = status
      BY <2>1 DEF DecPull, encVars
  <2> QED BY <2>3, <2>4 DEF Channel!vars
<1>5. CASE \E n \in 1 .. Len(wire) : DecPush(n)
  <2>1. PICK n \in 1 .. Len(wire) : DecPush(n)
      BY <1>5
  <2>2. n \in Nat
      BY <1>0
  <2>3. /\ status' = "CorruptData" => faults > 0
        /\ status = "CorruptData" => decOut' = decOut /\ status' = "CorruptData"
        /\ Len(received) \in Nat /\ Len(decOut) \in Nat /\ Len(decOut') \in Nat
        /\ Len(decOut) <= Len(decOut')
      BY <2>1, <2>2, DecPushOK
  <2>4. pushed' = pushed /\ faults' = faults /\ received' = received /\ closed' = closed
        /\ closed = "open"
      BY <2>1 DEF DecPush, encVars
  <2>5. CASE status = "CorruptData"
      BY <2>3, <2>4, <2>5 DEF Channel!vars
  <2>6. CASE status # "CorruptData"
    <3>1. IInv'
        BY <2>1, <2>2, DecPushStep
    <3>2. PICK T \in Nat : /\ received' \o decOut' = [i \in 1 .. T |-> i]
                           /\ Len(received') + Len(decOut') = T /\ T <= pushed'
        BY <2>4, <3>1, PrefixNext DEF HasPrefix
    <3>3. Len(received \o decOut) = Len(received) + Len(decOut)
      <4>1. HasPrefix
          BY <2>4, Prefix
      <4> QED BY <4>1 DEF HasPrefix
    <3>4. T \in Len(received \o decOut) .. pushed
      <4>1. T \in Nat /\ T <= pushed /\ Len(received) + Len(decOut') = T
          BY <2>4, <3>2
      <4> QED BY <1>0, <2>3, <3>3, <4>1
    <3>5. received' \o decOut' = [i \in 1 .. T |-> i]
        BY <3>2
    <3>6. Channel!Receive
        BY <2>3, <2>4, <2>6, <3>4, <3>5 DEF Channel!Receive
    <3> QED BY <3>6 DEF Channel!Next
  <2> QED BY <2>5, <2>6
<1> QED BY <1>1, <1>2, <1>3, <1>4, <1>5 DEF Next, Sender, Receiver

(* The two streams over a transport that may damage and cut implement a    *)
(* ByteChannel: bytes arrive in order, each once, corruption is reported   *)
(* only if there is some, and nothing is decrypted after it.               *)
THEOREM StreamsImplementChannel == Spec => ImplementsChannel
<1>1. Init => Channel!Init
    BY ChannelInit
<1>2. IInv /\ [Next]_vars => [Channel!Next]_(Channel!vars)
    BY ChannelStep
<1> QED BY <1>1, <1>2, Invariance, PTL DEF Spec, ImplementsChannel, Channel!Spec
============================================================================
