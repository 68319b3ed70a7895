----------------------------- MODULE LinkProofs ------------------------------
(***************************************************************************)
(* The safety properties of the two adapters once they are connected, for  *)
(* any sequence of writes of any sizes, any cut of the ciphertext on the   *)
(* way, any sizes asked for by the reader, any number of faults, and a     *)
(* close() of either side at any time: WrappedStream (Cap'n Proto) and     *)
(* CroutonStream.                                                          *)
(***************************************************************************)
EXTENDS WrappedStream, CroutonStream, CryptoStreamsProofs

(* The sender's stream as CryptoStreams has it. *)
Enc == [out |-> enc.out, in |-> enc.in, nonce |-> enc.nonce, sealed |-> sealed]

----------------------------------------------------------------------------
(* The pieces of a write.                                                  *)

(* g says what each of the first N pieces of a write makes of x.           *)
ArePieces(g, x, sizes, N) ==
    g = [n \in 0 .. N |-> IF n = 0 THEN x ELSE Piece(g[n - 1], sizes[n])]

(* There is such a function, so that Pieces conforms to its definition. *)
LEMMA PiecesExist ==
    ASSUME NEW x, NEW sizes, NEW N \in Nat
    PROVE  \E g : ArePieces(g, x, sizes, N)
<1> DEFINE F(n, g) == [i \in 0 .. n |-> IF i = 0 THEN x ELSE Piece(g[i - 1], sizes[i])]
           G == {n \in 0 .. N : \E g : g = F(n, g)}
<1>1. 0 \in G
  <2> DEFINE g0 == [i \in 0 .. 0 |-> x]
  <2>1. g0 = F(0, g0) /\ 0 \in 0 .. N
      OBVIOUS
  <2> HIDE DEF g0, F
  <2> QED BY <2>1
<1>2. ASSUME NEW n \in 0 .. N - 1, n \in G PROVE n + 1 \in G
  <2>1. PICK g : g = F(n, g)
      BY <1>2
  <2> DEFINE h == [i \in 0 .. n + 1 |-> IF i = n + 1 THEN Piece(g[n], sizes[n + 1]) ELSE g[i]]
  <2>2. \A i \in 0 .. n : h[i] = g[i]
      OBVIOUS
  <2>3. \A i \in 0 .. n : g[i] = IF i = 0 THEN x ELSE Piece(g[i - 1], sizes[i])
    <3> HIDE DEF h
    <3> QED BY <2>1
  <2>4. ASSUME NEW i \in 0 .. n + 1 PROVE h[i] = IF i = 0 THEN x ELSE Piece(h[i - 1], sizes[i])
    <3>1. CASE i = n + 1
      <4>1. h[i] = Piece(g[n], sizes[n + 1]) /\ h[i - 1] = g[n]
          BY <2>2, <3>1
      <4> HIDE DEF h
      <4> QED BY <3>1, <4>1
    <3>2. CASE i # n + 1
      <4>1. i \in 0 .. n
          BY <3>2
      <4>2. i # 0 => h[i - 1] = g[i - 1]
          BY <2>2, <4>1
      <4> HIDE DEF h
      <4> QED BY <2>2, <2>3, <4>1, <4>2
    <3> QED BY <3>1, <3>2
  <2>5. h = [i \in 0 .. n + 1 |-> h[i]]
      OBVIOUS
  <2>6. h = F(n + 1, h)
    <3> HIDE DEF h
    <3> QED BY <2>4, <2>5
  <2>7. n + 1 \in 0 .. N
      OBVIOUS
  <2> HIDE DEF h, F
  <2> QED BY <2>6, <2>7
<1> HIDE DEF G
<1>3. N \in G
  <2>1. \A n \in 0 .. N : n \in G
      BY <1>1, <1>2, InductionUpTo
  <2> QED BY <2>1
<1> QED BY <1>3 DEF G, ArePieces

(* The turns of write()'s loop over its pieces follow one another. *)
LEMMA PiecesRec ==
    ASSUME NEW e, NEW sizes, Len(sizes) \in Nat
    PROVE  /\ Pieces(e, sizes)[0] =
                 [e |-> [out |-> e.out, in |-> e.in, nonce |-> e.nonce, sealed |-> sealed],
                  pushed |-> pushed]
           /\ \A n \in 0 .. Len(sizes) - 1 :
                 Pieces(e, sizes)[n + 1] = Piece(Pieces(e, sizes)[n], sizes[n + 1])
<1> DEFINE x == [e |-> [out |-> e.out, in |-> e.in, nonce |-> e.nonce, sealed |-> sealed],
                 pushed |-> pushed]
           N == Len(sizes)
           f == Pieces(e, sizes)
<1>1. f = CHOOSE g : g = [n \in 0 .. N |-> IF n = 0 THEN x ELSE Piece(g[n - 1], sizes[n])]
    BY DEF Pieces
<1>2. N \in Nat
    OBVIOUS
<1> HIDE DEF x, N, f
<1>3. \E g : g = [n \in 0 .. N |-> IF n = 0 THEN x ELSE Piece(g[n - 1], sizes[n])]
  <2>1. \E g : ArePieces(g, x, sizes, N)
      BY <1>2, PiecesExist
  <2> QED BY <2>1 DEF ArePieces
<1>4. f = [n \in 0 .. N |-> IF n = 0 THEN x ELSE Piece(f[n - 1], sizes[n])]
    BY <1>1, <1>3
<1>5. ASSUME NEW n \in 0 .. N PROVE f[n] = IF n = 0 THEN x ELSE Piece(f[n - 1], sizes[n])
    BY <1>4
<1>6. f[0] = x
    BY <1>2, <1>5
<1>7. ASSUME NEW n \in 0 .. N - 1 PROVE f[n + 1] = Piece(f[n], sizes[n + 1])
  <2>1. n + 1 \in 0 .. N /\ n + 1 # 0 /\ (n + 1) - 1 = n
      BY <1>2
  <2> QED BY <1>5, <2>1
<1> QED BY <1>6, <1>7 DEF f, x, N

(* A write in progress, p, of an encryption stream that was e when n bytes *)
(* had been written: it fits what was written since.                       *)
Writes(e, n, p) ==
    /\ p = [e |-> p.e, pushed |-> p.pushed] /\ p.pushed \in Nat /\ n <= p.pushed
    /\ EncryptorOK(p.e, p.pushed) /\ Extends(e.sealed, p.e.sealed)
    /\ SentBefore(p.e) = SentBefore(e)

(* What extends an extension extends the whole. *)
LEMMA ExtendsTransitive ==
    ASSUME NEW s \in Seq(Message), NEW t \in Seq(Message), NEW u \in Seq(Message),
           Extends(s, t), Extends(t, u)
    PROVE  Extends(s, u)
<1>1. Len(s) \in Nat /\ Len(t) \in Nat /\ Len(u) \in Nat
    OBVIOUS
<1> QED BY <1>1 DEF Extends

(* One more piece pushed keeps the encryption stream in order. *)
LEMMA PieceOK ==
    ASSUME NEW e, e.sealed \in Seq(Message), NEW n \in Nat, NEW p, Writes(e, n, p),
           NEW k \in Nat
    PROVE  Writes(e, n, Piece(p, k))
<1> DEFINE x == [j \in 1 .. k |-> p.pushed + j]
           f == PushedPartial(p.e, x)
<1>1. p.pushed \in Nat /\ n <= p.pushed /\ EncryptorOK(p.e, p.pushed)
      /\ Extends(e.sealed, p.e.sealed) /\ SentBefore(p.e) = SentBefore(e)
    BY DEF Writes
<1>2. x \in Seq(Nat) /\ Len(x) = k /\ \A j \in 1 .. Len(x) : x[j] = p.pushed + j
    BY <1>1
<1> HIDE DEF x
<1>3. /\ EncryptorOK(f, p.pushed + Len(x)) /\ Extends(p.e.sealed, f.sealed)
      /\ SentBefore(f) = SentBefore(p.e)
    BY <1>1, <1>2, PushedPartialOK
<1>4. Piece(p, k) = [e |-> f, pushed |-> p.pushed + k]
    BY DEF Piece, x
<1> HIDE DEF f
<1>5. Extends(e.sealed, f.sealed)
  <2>1. p.e.sealed \in Seq(Message) /\ f.sealed \in Seq(Message)
      BY <1>1, <1>3 DEF EncryptorOK
  <2> QED BY <1>1, <1>3, <2>1, ExtendsTransitive
<1>6. p.pushed + k \in Nat /\ n <= p.pushed + k
    BY <1>1
<1> QED BY <1>1, <1>2, <1>3, <1>4, <1>5, <1>6 DEF Writes

(* A write() of any pieces, flush() included: what was waiting and all of  *)
(* the pieces are encrypted behind what was there.                         *)
LEMMA EncryptsOK ==
    ASSUME NEW e, NEW f, f = [out |-> e.out, in |-> e.in, nonce |-> e.nonce, sealed |-> sealed],
           pushed \in Nat, EncryptorOK(f, pushed), NEW sizes \in Seq(Nat)
    PROVE  Writes(f, pushed, Encrypts(e, sizes)) /\ Encrypts(e, sizes).e.in = <<>>
<1> DEFINE t == Pieces(e, sizes)
           N == Len(sizes)
           G == {i \in 0 .. N : Writes(f, pushed, t[i])}
<1>1. N \in Nat /\ f.sealed \in Seq(Message)
    BY DEF EncryptorOK
<1>2. t[0] = [e |-> f, pushed |-> pushed] /\ \A n \in 0 .. N - 1 : t[n + 1] = Piece(t[n], sizes[n + 1])
    BY <1>1, PiecesRec
<1> HIDE DEF t
<1>3. Writes(f, pushed, t[0])
  <2>1. Extends(f.sealed, f.sealed)
      BY <1>1 DEF Extends
  <2> QED BY <1>2, <2>1 DEF Writes
<1>4. ASSUME NEW i \in 0 .. N - 1, Writes(f, pushed, t[i]) PROVE Writes(f, pushed, t[i + 1])
  <2>1. sizes[i + 1] \in Nat
      BY <1>1
  <2> QED BY <1>1, <1>2, <1>4, <2>1, PieceOK
<1>5. Writes(f, pushed, t[N])
  <2>1. 0 \in G
      BY <1>1, <1>3
  <2>2. ASSUME NEW i \in 0 .. N - 1, i \in G PROVE i + 1 \in G
      BY <1>1, <1>4, <2>2
  <2> HIDE DEF G
  <2>3. N \in G
    <3>1. \A i \in 0 .. N : i \in G
        BY <1>1, <2>1, <2>2, InductionUpTo
    <3> QED BY <1>1, <3>1
  <2> QED BY <2>3 DEF G
<1> DEFINE p == t[N]
<1>6. Encrypts(e, sizes) = [p EXCEPT !.e = Flushed(p.e)]
    BY DEF Encrypts, t
<1> HIDE DEF p
<1>7. /\ p = [e |-> p.e, pushed |-> p.pushed] /\ p.pushed \in Nat /\ pushed <= p.pushed
      /\ EncryptorOK(p.e, p.pushed) /\ Extends(f.sealed, p.e.sealed)
      /\ SentBefore(p.e) = SentBefore(f)
    BY <1>5 DEF Writes, p
<1>8. Encrypts(e, sizes) = [e |-> Flushed(p.e), pushed |-> p.pushed]
    BY <1>6, <1>7
<1>9. /\ EncryptorOK(Flushed(p.e), p.pushed) /\ Flushed(p.e).in = <<>>
      /\ Extends(p.e.sealed, Flushed(p.e).sealed) /\ SentBefore(Flushed(p.e)) = SentBefore(p.e)
    BY <1>7, FlushedOK
<1>10. Extends(f.sealed, Flushed(p.e).sealed)
  <2>1. p.e.sealed \in Seq(Message) /\ Flushed(p.e).sealed \in Seq(Message)
      BY <1>7, <1>9 DEF EncryptorOK
  <2> QED BY <1>1, <1>7, <1>9, <2>1, ExtendsTransitive
<1> QED BY <1>7, <1>8, <1>9, <1>10 DEF Writes

----------------------------------------------------------------------------
(* The flow of ciphertext, which both adapters share.                      *)

(* Of an encryption stream e that was given n bytes and whose ciphertext   *)
(* up to the first c bytes of e.out was sent, a has arrived and w is under *)
(* way, without gap; only f faults damage it.  Once the sender's side has  *)
(* ended (o), nothing more is sent.                                        *)
LinkOK(e, n, a, w, f, o, c) ==
    /\ n \in Nat /\ a \in Seq(Byte) /\ w \in Seq(Byte) /\ f \in Nat /\ c \in Nat
    /\ EncryptorOK(e, n)
    /\ IsCiphertext(e.sealed, a \o w, 0) /\ (f = 0 => AllUndamaged(e.sealed, a \o w))
    /\ ~o => Len(a) + Len(w) = SentBefore(e) + c

(* LinkOK depends on its arguments and the protocol only. *)
LEMMA LinkPrimed ==
    ASSUME protocol' = protocol, NEW e, NEW n, NEW a, NEW w, NEW f, NEW o, NEW c
    PROVE  LinkOK(e, n, a, w, f, o, c)' <=> LinkOK(e, n, a, w, f, o, c)
<1>1. EncryptorOK(e, n)' <=> EncryptorOK(e, n)
    BY EncryptorPrimed
<1>2. SentBefore(e)' = SentBefore(e)
    BY EncryptorPrimed
<1>3. IsCiphertext(e.sealed, a \o w, 0)' <=> IsCiphertext(e.sealed, a \o w, 0)
    BY CiphertextPrimed
<1>4. AllUndamaged(e.sealed, a \o w)' <=> AllUndamaged(e.sealed, a \o w)
    BY CiphertextPrimed
<1> QED BY <1>1, <1>2, <1>3, <1>4 DEF LinkOK

(* A write. *)
LEMMA LinkWrites ==
    ASSUME NEW e, NEW n, NEW a, NEW w, NEW f, NEW o, NEW c, LinkOK(e, n, a, w, f, o, c),
           NEW p, Writes(e, n, p)
    PROVE  LinkOK(p.e, p.pushed, a, w, f, o, c)
<1>1. SealedOK(e.sealed) /\ SealedOK(p.e.sealed) /\ Extends(e.sealed, p.e.sealed)
    BY DEF LinkOK, Writes, EncryptorOK
<1> DEFINE g == a \o w
<1>2. IsCiphertext(e.sealed, g, 0) /\ (f = 0 => AllUndamaged(e.sealed, g))
    BY DEF LinkOK
<1>3. IsCiphertext(p.e.sealed, g, 0) /\ (AllUndamaged(e.sealed, g) => AllUndamaged(p.e.sealed, g))
  <2> HIDE DEF g
  <2> QED BY <1>1, <1>2, CiphertextExtends
<1> QED BY <1>2, <1>3 DEF LinkOK, Writes

(* skip() of all that the encryption stream holds. *)
LEMMA LinkSkips ==
    ASSUME NEW e, NEW n, NEW a, NEW w, NEW f, NEW o, NEW c, LinkOK(e, n, a, w, f, o, c),
           c = Len(e.out), NEW g,
           g = [out |-> <<>>, in |-> e.in, nonce |-> e.nonce, sealed |-> e.sealed]
    PROVE  LinkOK(g, n, a, w, f, o, 0)
<1>1. e \in [out : Seq(Byte), in : Seq(Nat), nonce : Nat, sealed : Seq(Message)]
      /\ EncryptorOK(e, n) /\ SentBefore(e) \in Nat
    BY DEF LinkOK, EncryptorOK
<1>2. g \in [out : Seq(Byte), in : Seq(Nat), nonce : Nat, sealed : Seq(Message)]
      /\ g.in = e.in /\ g.nonce = e.nonce /\ g.sealed = e.sealed /\ g.out = <<>>
    BY <1>1
<1>3. c \in Nat /\ c \in 0 .. Len(e.out) /\ SubSeq(e.out, c + 1, Len(e.out)) = <<>>
  <2>1. e.out \in Seq(Byte) /\ c \in Nat /\ c \in 0 .. Len(e.out) /\ Len(e.out) \in c .. Len(e.out)
        /\ Len(e.out) - c = 0
      BY <1>1
  <2>2. SubSeq(e.out, c + 1, Len(e.out)) \in Seq(Byte) /\ Len(SubSeq(e.out, c + 1, Len(e.out))) = 0
      BY <2>1, SubSeqFacts
  <2> QED BY <2>1, <2>2, EmptyFacts
<1>4. EncryptorOK(g, n) /\ SentBefore(g) = SentBefore(e) + c
    BY <1>1, <1>2, <1>3, PulledOK
<1>5. SentBefore(g) + 0 = SentBefore(e) + c
    BY <1>1, <1>3, <1>4
<1> QED BY <1>2, <1>4, <1>5 DEF LinkOK

(* The stream below sends m bytes more. *)
LEMMA LinkSends ==
    ASSUME NEW e, NEW n, NEW a, NEW w, NEW f, NEW c, LinkOK(e, n, a, w, f, FALSE, c),
           NEW m \in Nat, c + m <= Len(e.out), NEW x, x = SubSeq(e.out, c + 1, c + m)
    PROVE  LinkOK(e, n, a, w \o x, f, FALSE, c + m)
<1>1. /\ a \in Seq(Byte) /\ w \in Seq(Byte) /\ c \in Nat /\ e.out \in Seq(Byte)
      /\ IsCiphertext(e.sealed, e.out, SentBefore(e)) /\ AllUndamaged(e.sealed, e.out)
      /\ SentBefore(e) \in Nat /\ IsCiphertext(e.sealed, a \o w, 0)
      /\ f = 0 => AllUndamaged(e.sealed, a \o w)
      /\ Len(a) + Len(w) = SentBefore(e) + c
    BY DEF LinkOK, EncryptorOK
<1>2. c \in 0 .. Len(e.out) /\ c + m \in c .. Len(e.out) /\ (c + m) - c = m
    BY <1>1
<1>3. IsCiphertext(e.sealed, x, SentBefore(e) + c) /\ AllUndamaged(e.sealed, x)
    BY <1>1, <1>2, CiphertextCut
<1>4. Len(x) = m
    BY <1>1, <1>2, SubSeqFacts
<1>5. IsCiphertext(e.sealed, x, Len(a) + Len(w))
    BY <1>1, <1>3
<1>6. /\ w \o x \in Seq(Byte) /\ Len(w \o x) = Len(w) + Len(x)
      /\ IsCiphertext(e.sealed, a \o (w \o x), 0)
      /\ AllUndamaged(e.sealed, a \o w) /\ AllUndamaged(e.sealed, x) =>
             AllUndamaged(e.sealed, a \o (w \o x))
    BY <1>1, <1>5, FlowGrows, SMTT(60)
<1>7. Len(a) + Len(w \o x) = SentBefore(e) + (c + m)
  <2>1. Len(a) \in Nat /\ Len(w) \in Nat
      BY <1>1
  <2>2. Len(w \o x) = Len(w) + m
      BY <1>4, <1>6
  <2> DEFINE i == Len(a)
             j == Len(w)
             k == SentBefore(e)
  <2>3. i \in Nat /\ j \in Nat /\ k \in Nat /\ c \in Nat /\ i + j = k + c
      BY <1>1, <2>1
  <2> HIDE DEF i, j, k
  <2>4. i + (j + m) = k + (c + m)
      BY <2>3
  <2> QED BY <2>2, <2>4 DEF i, j, k
<1>8. c + m \in Nat
    BY <1>1
<1> QED BY <1>1, <1>3, <1>6, <1>7, <1>8 DEF LinkOK

(* The sender's side ends, or breaks, or has ended. *)
LEMMA LinkEnds ==
    ASSUME NEW e, NEW n, NEW a, NEW w, NEW f, NEW o, NEW c, LinkOK(e, n, a, w, f, o, c),
           NEW g \in Nat, g = 0 => f = 0, NEW d \in Nat
    PROVE  LinkOK(e, n, a, w, g, TRUE, d)
    BY DEF LinkOK

(* The byte sent last is damaged. *)
LEMMA LinkDamages ==
    ASSUME NEW e, NEW n, NEW a, NEW w, NEW f, NEW o, NEW c, LinkOK(e, n, a, w, f, o, c),
           NEW u, DamagesLast(e.sealed, a, w, u)
    PROVE  LinkOK(e, n, a, u, f + 1, o, c)
<1>1. u \in Seq(Byte) /\ Len(u) = Len(w) /\ IsCiphertext(e.sealed, a \o u, 0)
    BY DamagedCiphertext
<1>2. f \in Nat
    BY DEF LinkOK
<1>3. f + 1 \in Nat /\ f + 1 # 0
    BY <1>2
<1> QED BY <1>1, <1>3 DEF LinkOK

(* The receiver takes some bytes off the wire. *)
LEMMA LinkMoves ==
    ASSUME NEW e, NEW n, NEW a, NEW w, NEW f, NEW o, NEW c, LinkOK(e, n, a, w, f, o, c),
           NEW x, NEW y, NEW k, Moves(a, w, k, x, y)
    PROVE  /\ LinkOK(e, n, a \o x, y, f, o, c) /\ x \in Seq(Byte)
           /\ IsCiphertext(e.sealed, a \o x, 0) /\ (f = 0 => AllUndamaged(e.sealed, a \o x))
<1> DEFINE b == a \o x
<1>1. /\ x \in Seq(Byte) /\ y \in Seq(Byte) /\ b \in Seq(Byte)
      /\ b \o y = a \o w /\ Len(b) + Len(y) = Len(a) + Len(w)
    BY FlowMoves, SMTT(60)
<1> HIDE DEF b
<1>2. LinkOK(e, n, b, y, f, o, c)
    BY <1>1 DEF LinkOK
<1>3. IsCiphertext(e.sealed, b \o y, 0) /\ (f = 0 => AllUndamaged(e.sealed, b \o y))
    BY <1>2 DEF LinkOK
<1>4. IsCiphertext(e.sealed, b, 0) /\ (AllUndamaged(e.sealed, b \o y) => AllUndamaged(e.sealed, b))
    BY <1>1, <1>3, FlowArrived
<1> QED BY <1>1, <1>2, <1>3, <1>4 DEF b

----------------------------------------------------------------------------
(* The receiver, as both adapters have it.                                 *)

(* push() of the next k bytes, x, of the wire w makes b of the decryption  *)
(* stream d and leaves y on the wire.                                      *)
PushesNext(d, w, k, x, y, b) ==
    /\ k \in 0 .. Len(w) /\ x = SubSeq(w, 1, k) /\ y = SubSeq(w, k + 1, Len(w))
    /\ b = Decrypted([d EXCEPT !.in = @ \o x])

(* Bytes read off the wire and pushed: the link and the decryption stream  *)
(* stay in order.                                                          *)
LEMMA ReadsOK ==
    ASSUME protocol \in Protocols, NEW e, e.sealed = sealed, NEW n, NEW a, NEW w, NEW f, NEW o,
           NEW c, LinkOK(e, n, a, w, f, o, c), NEW d, NEW g, DecryptorOK(d, a, g),
           NEW k, NEW x, NEW y, NEW b, PushesNext(d, w, k, x, y, b)
    PROVE  /\ LinkOK(e, n, a \o x, y, f, o, c) /\ DecryptorOK(b, a \o x, g)
           /\ IsCiphertext(sealed, a \o x, 0)
           /\ b.status \in {"IncompleteInput", "CorruptData"}
           /\ b.status = "CorruptData" => f > 0
           /\ d.status = "CorruptData" => b.out = d.out /\ b.status = "CorruptData"
           /\ Len(g) \in Nat /\ Len(d.out) \in Nat /\ Len(b.out) \in Nat
           /\ Len(d.out) <= Len(b.out)
<1>1. a \in Seq(Byte) /\ w \in Seq(Byte) /\ f \in Nat /\ SealedOK(sealed)
    BY DEF LinkOK, EncryptorOK
<1>2. Moves(a, w, k, x, y)
    BY <1>1 DEF Moves, PushesNext
<1>3. /\ LinkOK(e, n, a \o x, y, f, o, c) /\ x \in Seq(Byte)
      /\ IsCiphertext(sealed, a \o x, 0) /\ (f = 0 => AllUndamaged(sealed, a \o x))
    BY <1>2, LinkMoves
<1>4. d \in Decryptors
    BY DEF DecryptorOK, Holds
<1>5. d.in \in Seq(Byte) /\ d.out \in Seq(Nat) /\ d.nonce \in Nat /\ d.status \in Statuses
      /\ d = [out |-> d.out, in |-> d.in, nonce |-> d.nonce, status |-> d.status]
    BY <1>4 DEF Decryptors
<1> DEFINE h == [d EXCEPT !.in = @ \o x]
<1>6. h = [out |-> d.out, in |-> d.in \o x, nonce |-> d.nonce, status |-> d.status]
  <2> DEFINE z == d.in \o x
  <2>1. h = [d EXCEPT !.in = z]
      OBVIOUS
  <2> HIDE DEF z, h
  <2>2. h = [out |-> d.out, in |-> z, nonce |-> d.nonce, status |-> d.status]
      BY <1>5, <2>1
  <2> QED BY <2>2 DEF z
<1>7. b = Decrypted(h)
    BY DEF PushesNext
<1> HIDE DEF h
<1>8. h \in Decryptors /\ h.in = d.in \o x /\ h.out = d.out /\ h.nonce = d.nonce
  <2>1. d.in \o x \in Seq(Byte)
      BY <1>3, <1>5
  <2> QED BY <1>5, <1>6, <2>1 DEF Decryptors
<1>9. Pushing(d, a, g, x, h)
    BY <1>1, <1>3, <1>8 DEF Pushing
<1>10. /\ DecryptorOK(b, a \o x, g)
       /\ b.status \in {"IncompleteInput", "CorruptData"}
       /\ b.status = "CorruptData" => ~AllUndamaged(sealed, a \o x)
       /\ d.status = "CorruptData" => b.out = d.out /\ b.status = "CorruptData"
       /\ Len(g) \in Nat /\ Len(d.out) \in Nat /\ Len(b.out) \in Nat
       /\ Len(d.out) <= Len(b.out)
    BY <1>7, <1>9, PushOK
<1>11. b.status = "CorruptData" => f > 0
    BY <1>1, <1>3, <1>10
<1> QED BY <1>3, <1>10, <1>11

(* pull() or skip() of up to n bytes: what is taken goes to the reader. *)
Takes(d, n, t, r, e) ==
    /\ n \in Nat /\ t = Taken(d.out, n) /\ r = Kept(d.out, n) /\ e = [d EXCEPT !.out = r]

Joins(g, t, r, f) == (g \o t) \o r = g \o f

(* pull() or skip() moves cleartext from the decryption stream to what was *)
(* read, in order.                                                         *)
LEMMA TakesOK ==
    ASSUME NEW d, NEW a, NEW g, DecryptorOK(d, a, g), NEW n, NEW t, NEW r, NEW e,
           Takes(d, n, t, r, e)
    PROVE  /\ DecryptorOK(e, a, g \o t) /\ Joins(g, t, r, d.out)
           /\ e.out = r /\ e.in = d.in /\ e.nonce = d.nonce /\ e.status = d.status
           /\ t \in Seq(Nat) /\ r \in Seq(Nat)
<1>0. n \in Nat /\ t = Taken(d.out, n) /\ r = Kept(d.out, n) /\ e = [d EXCEPT !.out = r]
    BY DEF Takes
<1>1. d \in Decryptors
    BY DEF DecryptorOK, Holds
<1>2. d.in \in Seq(Byte) /\ d.out \in Seq(Nat) /\ d.nonce \in Nat /\ d.status \in Statuses
      /\ d = [out |-> d.out, in |-> d.in, nonce |-> d.nonce, status |-> d.status]
    BY <1>1 DEF Decryptors
<1>3. PICK c \in 0 .. Len(d.out) : t = SubSeq(d.out, 1, c) /\ r = SubSeq(d.out, c + 1, Len(d.out))
    BY <1>0, <1>2, TakenAndKept
<1>4. r \in Seq(Nat) /\ t \in Seq(Nat)
  <2>1. Len(d.out) \in c .. Len(d.out) /\ c \in 0 .. c /\ 0 \in 0 .. Len(d.out) /\ c \in 0 .. Len(d.out)
      BY <1>2
  <2>2. r \in Seq(Nat)
      BY <1>2, <1>3, <2>1, SubSeqFacts
  <2>3. SubSeq(d.out, 0 + 1, c) \in Seq(Nat)
      BY <1>2, <2>1, SubSeqFacts
  <2> QED BY <1>3, <2>2, <2>3
<1>5. e = [out |-> r, in |-> d.in, nonce |-> d.nonce, status |-> d.status]
    BY <1>0, <1>2
<1>6. e \in Decryptors /\ e.in = d.in /\ e.out = r /\ e.nonce = d.nonce /\ e.status = d.status
    BY <1>2, <1>4, <1>5 DEF Decryptors
<1>7. DecryptorOK(e, a, g \o t) /\ (g \o t) \o e.out = g \o d.out
    BY <1>3, <1>6, PullOK
<1> QED BY <1>4, <1>5, <1>6, <1>7 DEF Joins

----------------------------------------------------------------------------
(* The two together.                                                       *)

(* A direction of a connection whose sender has sent the first c bytes of  *)
(* its buffer and whose decryption stream, as the reader sees it, is d.    *)
Holding(c, d) ==
    /\ protocol = "Compact"
    /\ LinkOK(Enc, pushed, arrived, wire, faults, eof, c)
    /\ DecryptorOK(d, arrived, got)

(* What is used most often of Holding. *)
LEMMA HoldingFacts ==
    ASSUME NEW c, NEW d, Holding(c, d)
    PROVE  /\ protocol \in Protocols /\ SealedOK(sealed) /\ sealed \in Seq(Message)
           /\ arrived \in Seq(Byte) /\ wire \in Seq(Byte) /\ IsCiphertext(sealed, arrived, 0)
           /\ IsCiphertext(sealed, arrived \o wire, 0)
           /\ pushed \in Nat /\ faults \in Nat /\ c \in Nat
           /\ enc.out \in Seq(Byte) /\ enc.in \in Seq(Nat) /\ enc.nonce \in Nat
           /\ d \in Decryptors /\ got \in Seq(Nat)
<1>1. LinkOK(Enc, pushed, arrived, wire, faults, eof, c) /\ protocol \in Protocols
    BY DEF Holding, Protocols
<1>2. /\ arrived \in Seq(Byte) /\ wire \in Seq(Byte) /\ SealedOK(sealed)
      /\ IsCiphertext(sealed, arrived \o wire, 0)
      /\ pushed \in Nat /\ faults \in Nat /\ c \in Nat
      /\ Enc \in [out : Seq(Byte), in : Seq(Nat), nonce : Nat, sealed : Seq(Message)]
    BY <1>1 DEF LinkOK, EncryptorOK, Enc
<1>3. enc.out \in Seq(Byte) /\ enc.in \in Seq(Nat) /\ enc.nonce \in Nat /\ sealed \in Seq(Message)
    BY <1>2 DEF Enc
<1>4. IsCiphertext(sealed, arrived, 0)
    BY <1>2, FlowArrived
<1>5. d \in Decryptors /\ got \in Seq(Nat)
    BY DEF Holding, DecryptorOK, Holds
<1> QED BY <1>1, <1>2, <1>3, <1>4, <1>5

(* How a step keeps it: what it does to the sender's side, and to the      *)
(* reader's.                                                               *)
LEMMA HoldingNext ==
    ASSUME protocol = "Compact", protocol' = protocol, SealedOK(sealed), Extends(sealed, sealed'),
           NEW e, e = [out |-> enc'.out, in |-> enc'.in, nonce |-> enc'.nonce, sealed |-> sealed'],
           NEW c, LinkOK(e, pushed', arrived', wire', faults', eof', c),
           IsCiphertext(sealed, arrived', 0),
           NEW d, DecryptorOK(d, arrived', got')
    PROVE  Holding(c, d)'
<1>1. Enc' = e
    BY DEF Enc
<1>2. ASSUME NEW n, NEW a, NEW w, NEW f, NEW o, LinkOK(e, n, a, w, f, o, c)
      PROVE  LinkOK(e, n, a, w, f, o, c)'
    BY <1>2, LinkPrimed
<1>3. LinkOK(Enc, pushed, arrived, wire, faults, eof, c)'
    BY <1>1, <1>2
<1>4. SealedOK(sealed')
    BY DEF LinkOK, EncryptorOK
<1>5. ASSUME NEW a, NEW g, DecryptorOK(d, a, g), IsCiphertext(sealed, a, 0)
      PROVE  DecryptorOK(d, a, g)'
    BY <1>4, <1>5, DecryptorExtends
<1>6. DecryptorOK(d, arrived, got)'
    BY <1>5
<1> QED BY <1>3, <1>6 DEF Holding


(* The write in progress, if there is one, is of all that the encryption   *)
(* stream holds.                                                           *)
WritingOK ==
    /\ writing \in [size : Nat, sent : Nat] /\ writing.sent <= writing.size
    /\ writing # Idle => writing.size = Len(enc.out)
    /\ enc = [out |-> enc.out, in |-> enc.in, nonce |-> enc.nonce]

(* The streams a connection starts with. *)
LEMMA HoldingInit == LinkInit => Holding(0, dec) /\ WritingOK
<1> SUFFICES ASSUME LinkInit PROVE Holding(0, dec) /\ WritingOK
    OBVIOUS
<1> USE DEF LinkInit
<1>1. SealedOK(<<>>) /\ Offset(<<>>, 0) = 0 /\ TotalIn(<<>>, 0) = 0 /\ NonceAfter(0) = 0
  <2>1. 0 * encryptedSize(0) = 0
      BY Overhead
  <2> QED BY <2>1 DEF SealedOK, Offset, TotalIn, NonceAfter
<1>2. /\ \A i : IsCiphertext(<<>>, <<>>, i) /\ AllUndamaged(<<>>, <<>>)
    BY DEF IsCiphertext, AllUndamaged
<1>3. Enc = [out |-> <<>>, in |-> <<>>, nonce |-> 0, sealed |-> <<>>]
    BY DEF Enc
<1>4. SentBefore(Enc) = 0
    BY <1>1, <1>3 DEF SentBefore
<1>5. EncryptorOK(Enc, 0)
    BY <1>1, <1>2, <1>3, <1>4, MaxSize DEF EncryptorOK
<1>6. LinkOK(Enc, pushed, arrived, wire, faults, eof, 0)
  <2>1. <<>> \in Seq(Byte) /\ <<>> \o <<>> = <<>> /\ Len(<<>>) = 0
      OBVIOUS
  <2> QED BY <1>2, <1>3, <1>4, <1>5, <2>1 DEF LinkOK
<1>7. Holds(<<>>, dec, <<>>, <<>>, 0)
  <2>1. Place(<<>>, dec, 0) = 0
      BY <1>1, Overhead DEF Place
  <2> QED BY <1>1, <2>1 DEF Holds, Decryptors, Statuses
<1>8. Stopped(dec)
  <2>1. Len(<<>>) < minPeekSize
      BY Overhead
  <2>2. peek(<<>>, 0).status = "IncompleteInput"
      BY <2>1 DEF peek
  <2>3. decrypt(<<>>, 0, 0).status = "IncompleteInput"
      BY <2>2 DEF decrypt
  <2> QED BY <2>3 DEF Stopped
<1>9. DecryptorOK(dec, arrived, got)
    BY <1>7, <1>8 DEF DecryptorOK
<1>10. WritingOK
    BY DEF WritingOK, Idle
<1> QED BY <1>6, <1>9, <1>10 DEF Holding

(* A step of the stream below. *)
LEMMA LinkStep ==
    ASSUME NEW c, NEW d, Holding(c, d), WritingOK, eof \in BOOLEAN,
           writing # Idle => c = writing.sent,
           LinkNext, NEW b, b = IF writing' = Idle THEN c ELSE writing'.sent
    PROVE  /\ Holding(b, d)' /\ WritingOK' /\ (writing' = Idle <=> writing = Idle)
           /\ eof' \in BOOLEAN /\ (eof => eof') /\ faults' \in Nat /\ faults <= faults'
           /\ UNCHANGED <<protocol, sealed, pushed, enc, dec, arrived, got>>
<1>1. /\ protocol = "Compact" /\ SealedOK(sealed) /\ sealed \in Seq(Message)
      /\ arrived \in Seq(Byte) /\ wire \in Seq(Byte) /\ IsCiphertext(sealed, arrived, 0)
      /\ pushed \in Nat /\ faults \in Nat /\ c \in Nat /\ enc.out \in Seq(Byte)
  <2>1. protocol = "Compact"
      BY DEF Holding
  <2> QED BY <2>1, HoldingFacts
<1>2. LinkOK(Enc, pushed, arrived, wire, faults, eof, c) /\ DecryptorOK(d, arrived, got)
    BY DEF Holding
<1>3. Len(enc.out) \in Nat /\ Len(wire) \in Nat
    BY <1>1
<1>4. writing \in [size : Nat, sent : Nat] /\ writing.sent <= writing.size
      /\ (writing # Idle => writing.size = Len(enc.out))
      /\ writing = [size |-> writing.size, sent |-> writing.sent]
    BY DEF WritingOK
<1>5. Enc.out = enc.out /\ Enc.sealed = sealed
    BY DEF Enc
<1>6. ASSUME UNCHANGED <<protocol, sealed, pushed, enc, dec, arrived, got>>,
             LinkOK(Enc, pushed, arrived, wire', faults', eof', b)
      PROVE  Holding(b, d)'
  <2>1. Extends(sealed, sealed')
      BY <1>1, <1>6 DEF Extends
  <2>2. Enc = [out |-> enc'.out, in |-> enc'.in, nonce |-> enc'.nonce, sealed |-> sealed']
      BY <1>6 DEF Enc
  <2>3. /\ protocol' = protocol /\ LinkOK(Enc, pushed', arrived', wire', faults', eof', b)
        /\ IsCiphertext(sealed, arrived', 0) /\ DecryptorOK(d, arrived', got')
      BY <1>1, <1>2, <1>6
  <2> QED BY <1>1, <2>1, <2>2, <2>3, HoldingNext
<1>7. ASSUME NEW n \in 1 .. writing.size - writing.sent, Sends(n)
      PROVE  /\ LinkOK(Enc, pushed, arrived, wire', faults', eof', b)
             /\ WritingOK' /\ (writing' = Idle <=> writing = Idle)
             /\ eof' = eof /\ faults' = faults
             /\ UNCHANGED <<protocol, sealed, pushed, enc, dec, arrived, got>>
  <2>1. /\ ~eof /\ writing.sent + n <= writing.size
        /\ wire' = wire \o SubSeq(enc.out, writing.sent + 1, writing.sent + n)
        /\ writing' = [writing EXCEPT !.sent = @ + n]
        /\ UNCHANGED <<protocol, sealed, pushed, enc, eof, dec, arrived, got, faults>>
      BY <1>7 DEF Sends
  <2>2. n \in Nat
      BY <1>4, <1>7
  <2>3. writing' = [size |-> writing.size, sent |-> writing.sent + n]
      BY <1>4, <2>1
  <2>4. writing.size # 0 /\ writing # Idle /\ writing' # Idle
    <3> DEFINE i == writing.size
               j == writing.sent
    <3>1. i \in Nat /\ j \in Nat /\ j + n <= i
        BY <1>4, <2>1
    <3>2. writing'.size = i /\ Idle.size = 0
        BY <2>3 DEF Idle
    <3> HIDE DEF i, j
    <3>3. i # 0
        BY <1>7, <2>2, <3>1
    <3> QED BY <3>2, <3>3 DEF i
  <2>5. c = writing.sent /\ b = c + n /\ c + n <= Len(enc.out) /\ writing.size = Len(enc.out)
      BY <1>4, <2>1, <2>3, <2>4
  <2>6. LinkOK(Enc, pushed, arrived, wire', faults, FALSE, c + n)
    <3>1. LinkOK(Enc, pushed, arrived, wire, faults, FALSE, c)
        BY <1>2, <2>1
    <3>2. c + n <= Len(Enc.out) /\ wire' = wire \o SubSeq(Enc.out, c + 1, c + n)
        BY <1>5, <2>1, <2>5
    <3> DEFINE x == SubSeq(Enc.out, c + 1, c + n)
    <3> HIDE DEF x
    <3>3. LinkOK(Enc, pushed, arrived, wire \o x, faults, FALSE, c + n)
        BY <2>2, <3>1, <3>2, LinkSends DEF x
    <3> QED BY <3>2, <3>3 DEF x
  <2>7. LinkOK(Enc, pushed, arrived, wire', faults', eof', b)
      BY <2>1, <2>5, <2>6
  <2>8. WritingOK'
    <3>1. writing' \in [size : Nat, sent : Nat] /\ writing'.sent <= writing'.size
          /\ writing'.size = Len(enc'.out)
      <4> DEFINE i == writing.size
                 j == writing.sent
      <4>1. i \in Nat /\ j \in Nat /\ j + n <= i /\ enc' = enc /\ i = Len(enc.out)
          BY <1>4, <2>1, <2>5
      <4>2. writing' = [size |-> i, sent |-> j + n]
          BY <2>3
      <4> HIDE DEF i, j
      <4>3. j + n \in Nat
          BY <2>2, <4>1
      <4> QED BY <4>1, <4>2, <4>3
    <3> QED BY <2>1, <3>1 DEF WritingOK
  <2> QED BY <2>1, <2>4, <2>7, <2>8
<1>8. ASSUME Ends \/ Breaks \/ Damages
      PROVE  /\ LinkOK(Enc, pushed, arrived, wire', faults', eof', b)
             /\ eof' \in BOOLEAN /\ (eof => eof') /\ faults' \in Nat /\ faults <= faults'
             /\ UNCHANGED <<protocol, sealed, pushed, enc, writing, dec, arrived, got>>
  <2>1. writing' = writing /\ UNCHANGED <<protocol, sealed, pushed, enc, dec, arrived, got>>
      BY <1>8 DEF Ends, Breaks, Damages
  <2>2. b = c
      BY <2>1
  <2>3. CASE Ends \/ Breaks
    <3>1. /\ eof' = TRUE /\ wire' = wire /\ faults' \in Nat /\ (faults' = 0 => faults = 0)
          /\ faults <= faults'
        BY <1>1, <2>3 DEF Ends, Breaks
    <3>2. LinkOK(Enc, pushed, arrived, wire, faults', TRUE, c)
        BY <1>1, <1>2, <3>1, LinkEnds
    <3> QED BY <2>1, <2>2, <3>1, <3>2
  <2>4. CASE Damages
    <3>1. PICK v \in 0 .. Base - 1 \ {Last(wire).val} : wire' = [wire EXCEPT ![Len(wire)].val = v]
        BY <2>4 DEF Damages
    <3>2. wire # <<>> /\ faults' = faults + 1 /\ eof' = eof
        BY <2>4 DEF Damages
    <3>3. v \in 0 .. Base - 1
        OBVIOUS
    <3>4. arrived \in Seq(Byte) /\ wire \in Seq(Byte) /\ IsCiphertext(Enc.sealed, arrived \o wire, 0)
        BY <1>2 DEF LinkOK
    <3>5. Len(wire) > 0
        BY <3>2, <3>4
    <3>6. DamagesLast(Enc.sealed, arrived, wire, wire')
        BY <3>1, <3>3, <3>4, <3>5 DEF DamagesLast
    <3>7. LinkOK(Enc, pushed, arrived, wire', faults + 1, eof, c)
        BY <1>2, <3>6, LinkDamages
    <3> QED BY <1>1, <2>1, <2>2, <3>2, <3>7
  <2> QED BY <1>8, <2>3, <2>4
<1>9. CASE \E n \in 1 .. writing.size - writing.sent : Sends(n)
  <2>1. /\ LinkOK(Enc, pushed, arrived, wire', faults', eof', b)
        /\ WritingOK' /\ (writing' = Idle <=> writing = Idle)
        /\ eof' = eof /\ faults' = faults
        /\ UNCHANGED <<protocol, sealed, pushed, enc, dec, arrived, got>>
      BY <1>7, <1>9
  <2> QED BY <1>1, <1>6, <2>1
<1>10. CASE Ends \/ Breaks \/ Damages
  <2>1. /\ LinkOK(Enc, pushed, arrived, wire', faults', eof', b)
        /\ eof' \in BOOLEAN /\ (eof => eof') /\ faults' \in Nat /\ faults <= faults'
        /\ UNCHANGED <<protocol, sealed, pushed, enc, writing, dec, arrived, got>>
      BY <1>8, <1>10
  <2>2. WritingOK'
      BY <2>1 DEF WritingOK
  <2> QED BY <1>6, <2>1, <2>2
<1> QED BY <1>9, <1>10 DEF LinkNext

(* A write of some pieces by an encryption stream e that has sent nothing  *)
(* of what it holds: of pieces that are all there again.                   *)
LEMMA WriteStep ==
    ASSUME NEW e, NEW f, f = [out |-> e.out, in |-> e.in, nonce |-> e.nonce, sealed |-> sealed],
           protocol = "Compact", NEW c, LinkOK(f, pushed, arrived, wire, faults, eof, c),
           NEW d, DecryptorOK(d, arrived, got), NEW sizes \in Seq(Nat),
           NEW w, w = Encrypts(e, sizes), pushed' = w.pushed, EncryptorBecomes(w.e),
           UNCHANGED <<protocol, wire, eof, arrived, got, faults>>
    PROVE  /\ Holding(c, d)' /\ pushed' \in Nat /\ pushed <= pushed'
           /\ enc' = [out |-> enc'.out, in |-> enc'.in, nonce |-> enc'.nonce]
           /\ enc'.out = w.e.out /\ Len(w.e.out) \in Nat
<1>1. /\ pushed \in Nat /\ EncryptorOK(f, pushed) /\ SealedOK(sealed) /\ f.sealed = sealed
      /\ arrived \in Seq(Byte) /\ wire \in Seq(Byte) /\ IsCiphertext(sealed, arrived \o wire, 0)
    BY DEF LinkOK, EncryptorOK
<1>2. Writes(f, pushed, w)
    BY <1>1, EncryptsOK
<1>3. /\ w.pushed \in Nat /\ pushed <= w.pushed /\ EncryptorOK(w.e, w.pushed)
      /\ Extends(sealed, w.e.sealed)
    BY <1>1, <1>2 DEF Writes
<1>4. LinkOK(w.e, w.pushed, arrived, wire, faults, eof, c)
    BY <1>2, LinkWrites
<1>5. enc' = [out |-> w.e.out, in |-> w.e.in, nonce |-> w.e.nonce] /\ sealed' = w.e.sealed
    BY DEF EncryptorBecomes
<1>6. enc'.out = w.e.out /\ enc'.in = w.e.in /\ enc'.nonce = w.e.nonce
    BY <1>5
<1>7. w.e = [out |-> w.e.out, in |-> w.e.in, nonce |-> w.e.nonce, sealed |-> w.e.sealed]
      /\ w.e.out \in Seq(Byte)
  <2>1. w.e \in [out : Seq(Byte), in : Seq(Nat), nonce : Nat, sealed : Seq(Message)]
      BY <1>3 DEF EncryptorOK
  <2> QED BY <2>1
<1>8. w.e = [out |-> enc'.out, in |-> enc'.in, nonce |-> enc'.nonce, sealed |-> sealed']
    BY <1>5, <1>6, <1>7
<1>9. IsCiphertext(sealed, arrived', 0) /\ DecryptorOK(d, arrived', got')
    BY <1>1, FlowArrived
<1>10. LinkOK(w.e, pushed', arrived', wire', faults', eof', c) /\ Extends(sealed, sealed')
    BY <1>3, <1>4, <1>5
<1>11. Holding(c, d)'
    BY <1>1, <1>8, <1>9, <1>10, HoldingNext
<1>12. Len(w.e.out) \in Nat
    BY <1>7
<1> QED BY <1>3, <1>5, <1>6, <1>11, <1>12


(* A step of the reader alone. *)
LEMMA ReaderStep ==
    ASSUME protocol = "Compact", SealedOK(sealed), NEW c,
           LinkOK(Enc, pushed, arrived', wire', faults, eof, c),
           IsCiphertext(sealed, arrived', 0), NEW d, DecryptorOK(d, arrived', got'),
           UNCHANGED <<protocol, sealed, pushed, enc, eof, faults>>
    PROVE  Holding(c, d)'
<1>1. sealed \in Seq(Message)
    BY DEF SealedOK
<1>2. Extends(sealed, sealed')
    BY <1>1 DEF Extends
<1>3. Enc = [out |-> enc'.out, in |-> enc'.in, nonce |-> enc'.nonce, sealed |-> sealed']
    BY DEF Enc
<1>4. LinkOK(Enc, pushed', arrived', wire', faults', eof', c) /\ protocol' = protocol
    OBVIOUS
<1> QED BY <1>2, <1>3, <1>4, HoldingNext

(* What the whole says of the bytes that the reader got and can get. *)
LEMMA HoldingReceived ==
    ASSUME NEW c, NEW d, Holding(c, d)
    PROVE  \E k \in 0 .. Len(sealed) :
              /\ got \o d.out = [i \in 1 .. TotalIn(sealed, k) |-> i]
              /\ Len(got) \in Nat /\ Len(d.out) \in Nat
              /\ Len(got) + Len(d.out) = TotalIn(sealed, k)
              /\ TotalIn(sealed, k) \in Nat /\ TotalIn(sealed, k) <= pushed
              /\ Whole(arrived) = Offset(sealed, k)
              /\ CleartextSize(arrived) = TotalIn(sealed, k)
              /\ Len(d.in) > 0 => Whole(arrived) # Len(arrived)
              /\ Len(d.in) = 0 => Whole(arrived) = Len(arrived) \/ ReadsEmpty(arrived)
<1>1. /\ protocol \in Protocols /\ SealedOK(sealed) /\ sealed \in Seq(Message)
      /\ IsCiphertext(sealed, arrived, 0)
    BY HoldingFacts
<1>2. Stopped(d) /\ \E k \in 0 .. Len(sealed) : Holds(sealed, d, arrived, got, k)
    BY DEF Holding, DecryptorOK
<1>3. PICK k \in 0 .. Len(sealed) : Holds(sealed, d, arrived, got, k)
    BY <1>2
<1>4. /\ got \o d.out = [i \in 1 .. TotalIn(sealed, k) |-> i]
      /\ Len(got) \in Nat /\ Len(d.out) \in Nat
      /\ Len(got) + Len(d.out) = TotalIn(sealed, k) /\ TotalIn(sealed, k) \in Nat
    BY <1>1, <1>3, ReceivedIs
<1>5. /\ Whole(arrived) = Offset(sealed, k) /\ CleartextSize(arrived) = TotalIn(sealed, k)
      /\ Len(d.in) > 0 => Whole(arrived) # Len(arrived)
      /\ Len(d.in) = 0 => Whole(arrived) = Len(arrived) \/ ReadsEmpty(arrived)
    BY <1>1, <1>2, <1>3, WholeIs
<1> DEFINE M == Len(sealed)
<1>8. M \in Nat /\ M \in 0 .. M /\ k <= M
    BY <1>1
<1>9. pushed = TotalIn(sealed, M) + Len(enc.in) /\ enc.in \in Seq(Nat)
  <2>1. EncryptorOK(Enc, pushed) /\ Enc.sealed = sealed /\ Enc.in = enc.in
      BY DEF Holding, LinkOK, Enc
  <2> QED BY <2>1, HoldingFacts DEF EncryptorOK
<1>10. TotalIn(sealed, k) <= TotalIn(sealed, M) /\ TotalIn(sealed, M) \in Nat
    BY <1>1, <1>8, OffsetMonotone, TotalInNat
<1>11. TotalIn(sealed, k) <= pushed
  <2>1. Len(enc.in) \in Nat
      BY <1>9
  <2> DEFINE i == TotalIn(sealed, k)
             j == TotalIn(sealed, M)
             l == Len(enc.in)
  <2>2. i \in Nat /\ j \in Nat /\ l \in Nat /\ i <= j /\ pushed = j + l
      BY <1>4, <1>9, <1>10, <2>1
  <2> HIDE DEF i, j, l
  <2>3. i <= pushed
      BY <2>2
  <2> QED BY <2>3 DEF i
<1> QED BY <1>4, <1>5, <1>11

----------------------------------------------------------------------------
(* WrappedStream.                                                          *)

WrappedInv ==
    /\ Holding(writing.sent, dec) /\ WritingOK /\ eof \in BOOLEAN
    /\ reading \in ReadSizes \cup {NoRead}
    /\ dec.status \in {"IncompleteInput", "CorruptData"}

(* The invariant holds at first. *)
LEMMA WrappedInitInv == WrappedInit => WrappedInv
<1> SUFFICES ASSUME WrappedInit PROVE WrappedInv
    OBVIOUS
<1>1. LinkInit /\ reading = NoRead
    BY DEF WrappedInit
<1>2. writing.sent = 0 /\ eof = FALSE /\ dec.status = "IncompleteInput"
    BY <1>1 DEF LinkInit, Idle
<1>3. Holding(0, dec) /\ WritingOK
    BY <1>1, HoldingInit
<1> QED BY <1>1, <1>2, <1>3 DEF WrappedInv

(* The stream below sends, ends, breaks or damages a byte. *)
LEMMA WrappedLinkStep ==
    ASSUME WrappedInv, LinkNext, UNCHANGED <<reading, result>>
    PROVE  /\ WrappedInv' /\ faults \in Nat /\ faults' \in Nat /\ faults <= faults'
           /\ UNCHANGED <<pushed, dec, got>>
<1> SUFFICES ASSUME NEW c, c = writing.sent, NEW d, d = dec,
                    NEW b, b = IF writing' = Idle THEN c ELSE writing'.sent
             PROVE  /\ WrappedInv' /\ faults \in Nat /\ faults' \in Nat /\ faults <= faults'
                    /\ UNCHANGED <<pushed, dec, got>>
    OBVIOUS
<1>1. Holding(c, d) /\ WritingOK /\ eof \in BOOLEAN
    BY DEF WrappedInv
<1>4. /\ Holding(b, d)' /\ WritingOK' /\ (writing' = Idle <=> writing = Idle)
      /\ eof' \in BOOLEAN /\ faults' \in Nat /\ faults <= faults'
      /\ UNCHANGED <<protocol, sealed, pushed, enc, dec, arrived, got>>
    BY <1>1, LinkStep
<1>5. b = writing'.sent /\ d = dec'
    BY <1>4
<1>6. Holding(writing.sent, dec)'
    BY <1>4, <1>5
<1>7. faults \in Nat
    BY <1>1, HoldingFacts
<1> QED BY <1>4, <1>6, <1>7 DEF WrappedInv


(* write() and _endWrite() up to the write below. *)
LEMMA WrappedWriteStep ==
    ASSUME WrappedInv, NEW sizes \in WriteSizes, WrappedWrite(sizes)
    PROVE  WrappedInv' /\ pushed \in Nat /\ pushed' \in Nat /\ pushed <= pushed'
<1> SUFFICES ASSUME NEW d, d = dec, NEW w, w = Encrypts(enc, sizes)
             PROVE  WrappedInv' /\ pushed \in Nat /\ pushed' \in Nat /\ pushed <= pushed'
    OBVIOUS
<1>1. /\ writing = Idle /\ pushed' = w.pushed /\ EncryptorBecomes(w.e)
      /\ writing' = [size |-> Len(w.e.out), sent |-> 0]
      /\ UNCHANGED <<protocol, wire, eof, dec, arrived, got, faults, reading, result>>
    BY DEF WrappedWrite
<1>2. writing.sent = 0
    BY <1>1 DEF Idle
<1>3. /\ protocol = "Compact" /\ LinkOK(Enc, pushed, arrived, wire, faults, eof, 0)
      /\ DecryptorOK(d, arrived, got) /\ pushed \in Nat
    BY <1>2 DEF WrappedInv, Holding, LinkOK
<1>4. sizes \in Seq(Nat)
    BY LinkConstants
<1>5. Enc = [out |-> enc.out, in |-> enc.in, nonce |-> enc.nonce, sealed |-> sealed]
    BY DEF Enc
<1>6. /\ Holding(0, d)' /\ pushed' \in Nat /\ pushed <= pushed'
      /\ enc' = [out |-> enc'.out, in |-> enc'.in, nonce |-> enc'.nonce]
      /\ enc'.out = w.e.out /\ Len(w.e.out) \in Nat
    BY <1>1, <1>3, <1>4, <1>5, WriteStep
<1>7. writing'.sent = 0 /\ writing'.size = Len(enc'.out) /\ writing' \in [size : Nat, sent : Nat]
      /\ writing'.sent <= writing'.size
    BY <1>1, <1>6
<1>8. WritingOK'
    BY <1>6, <1>7 DEF WritingOK
<1>9. Holding(writing.sent, dec)'
    BY <1>1, <1>6, <1>7
<1> QED BY <1>1, <1>3, <1>6, <1>8, <1>9 DEF WrappedInv

(* skip() of as many bytes as there are. *)
LEMMA KeptNothing ==
    ASSUME NEW S, NEW f \in Seq(S), NEW n \in Nat, n >= Len(f)
    PROVE  Kept(f, n) = <<>>
<1>1. PICK c \in 0 .. Len(f) : /\ Kept(f, n) = SubSeq(f, c + 1, Len(f))
                               /\ c = IF n < Len(f) THEN n ELSE Len(f)
    BY TakenAndKept
<1>2. c = Len(f) /\ Len(f) \in Nat /\ Len(f) \in c .. Len(f) /\ Len(f) - c = 0
    BY <1>1
<1>3. Kept(f, n) \in Seq(S) /\ Len(Kept(f, n)) = 0
    BY <1>1, <1>2, SubSeqFacts
<1> QED BY <1>3, EmptyFacts

(* The write below ends or fails. *)
LEMMA WrittenStep ==
    ASSUME WrappedInv, Written \/ WriteFails PROVE WrappedInv'
<1> SUFFICES ASSUME NEW d, d = dec, NEW c, c = writing.sent PROVE WrappedInv'
    OBVIOUS
<1>1. Holding(c, d) /\ WritingOK /\ eof \in BOOLEAN
    BY DEF WrappedInv
<1>2. /\ protocol = "Compact" /\ LinkOK(Enc, pushed, arrived, wire, faults, eof, c)
      /\ DecryptorOK(d, arrived, got)
    BY <1>1 DEF Holding
<1>3. /\ SealedOK(sealed) /\ sealed \in Seq(Message) /\ IsCiphertext(sealed, arrived, 0)
      /\ enc.out \in Seq(Byte) /\ faults \in Nat
    BY <1>1, HoldingFacts
<1>4. /\ writing # Idle /\ writing' = Idle
      /\ UNCHANGED <<protocol, sealed, pushed, wire, eof, dec, arrived, got, faults, reading, result>>
    BY DEF Written, WriteFails
<1>5. PICK e : /\ e = [out |-> enc'.out, in |-> enc'.in, nonce |-> enc'.nonce, sealed |-> sealed']
               /\ LinkOK(e, pushed, arrived, wire, faults, eof, 0)
               /\ enc' = [out |-> enc'.out, in |-> enc'.in, nonce |-> enc'.nonce]
  <2>1. CASE Written
    <3>1. writing.sent = writing.size /\ enc' = [enc EXCEPT !.out = Kept(enc.out, writing.size)]
        BY <2>1 DEF Written
    <3>2. writing.size = Len(enc.out) /\ enc = [out |-> enc.out, in |-> enc.in, nonce |-> enc.nonce]
        BY <1>1, <1>4 DEF WritingOK
    <3>3. Kept(enc.out, writing.size) = <<>>
      <4>1. Len(enc.out) \in Nat /\ Len(enc.out) >= Len(enc.out)
          BY <1>3
      <4> QED BY <1>3, <3>2, <4>1, KeptNothing
    <3>4. enc' = [out |-> <<>>, in |-> enc.in, nonce |-> enc.nonce]
        BY <3>1, <3>2, <3>3
    <3> DEFINE e == [out |-> <<>>, in |-> enc.in, nonce |-> enc.nonce, sealed |-> sealed]
    <3>5. Enc.out = enc.out /\ Enc.in = enc.in /\ Enc.nonce = enc.nonce /\ Enc.sealed = sealed
        BY DEF Enc
    <3>6. c = Len(Enc.out)
        BY <3>1, <3>2, <3>5
    <3>7. LinkOK(e, pushed, arrived, wire, faults, eof, 0)
        BY <1>2, <3>5, <3>6, LinkSkips
    <3>8. enc'.out = <<>> /\ enc'.in = enc.in /\ enc'.nonce = enc.nonce
        BY <3>4
    <3>9. e = [out |-> enc'.out, in |-> enc'.in, nonce |-> enc'.nonce, sealed |-> sealed']
        BY <1>4, <3>8
    <3>10. enc' = [out |-> enc'.out, in |-> enc'.in, nonce |-> enc'.nonce]
        BY <3>4, <3>8
    <3> HIDE DEF e
    <3> QED BY <3>7, <3>9, <3>10
  <2>2. CASE WriteFails
    <3>1. eof /\ enc' = enc
        BY <2>2 DEF WriteFails
    <3>2. LinkOK(Enc, pushed, arrived, wire, faults, TRUE, 0)
        BY <1>2, <1>3, LinkEnds
    <3>3. Enc = [out |-> enc'.out, in |-> enc'.in, nonce |-> enc'.nonce, sealed |-> sealed']
        BY <1>4, <3>1 DEF Enc
    <3>4. enc' = [out |-> enc'.out, in |-> enc'.in, nonce |-> enc'.nonce]
        BY <1>1, <3>1 DEF WritingOK
    <3>5. eof = TRUE
        BY <1>1, <3>1
    <3> QED BY <3>2, <3>3, <3>4, <3>5
  <2> QED BY <2>1, <2>2
<1>6. Extends(sealed, sealed')
    BY <1>3, <1>4 DEF Extends
<1>7. /\ LinkOK(e, pushed', arrived', wire', faults', eof', 0) /\ protocol' = protocol
      /\ IsCiphertext(sealed, arrived', 0) /\ DecryptorOK(d, arrived', got')
    BY <1>2, <1>3, <1>4, <1>5
<1>8. Holding(0, d)'
    BY <1>2, <1>3, <1>5, <1>6, <1>7, HoldingNext
<1>9. writing'.sent = 0 /\ dec' = d /\ writing' \in [size : Nat, sent : Nat] /\ writing'.sent <= writing'.size
    BY <1>4 DEF Idle
<1>10. Holding(writing.sent, dec)'
    BY <1>8, <1>9
<1>11. WritingOK'
    BY <1>4, <1>5, <1>9 DEF WritingOK
<1> QED BY <1>1, <1>4, <1>10, <1>11 DEF WrappedInv

(* The end of a tryRead(), on a decryption stream d. *)
LEMMA PullsOK ==
    ASSUME NEW d, NEW a, DecryptorOK(d, a, got), NEW args \in ReadSizes, PullsOrReads(d, args),
           d.status \in {"IncompleteInput", "CorruptData"}
    PROVE  /\ DecryptorOK(dec', a, got') /\ got' \o dec'.out = got \o d.out
           /\ dec'.status = d.status /\ reading' \in ReadSizes \cup {NoRead}
<1>1. args[2] \in Nat
    BY ReadSizesAssumption
<1>2. CASE Enough(d, args)
  <2>1. /\ got' = got \o Taken(d.out, args[2]) /\ dec' = [d EXCEPT !.out = Kept(d.out, args[2])]
        /\ reading' = NoRead
      BY <1>2 DEF PullsOrReads, Left
  <2> SUFFICES ASSUME NEW n, NEW t, NEW r, NEW e, Takes(d, n, t, r, e),
                      got' = got \o t, dec' = e
               PROVE  /\ DecryptorOK(dec', a, got') /\ got' \o dec'.out = got \o d.out
                      /\ dec'.status = d.status /\ reading' \in ReadSizes \cup {NoRead}
      BY <1>1, <2>1 DEF Takes
  <2>2. /\ DecryptorOK(e, a, got \o t) /\ Joins(got, t, r, d.out)
        /\ e.out = r /\ e.status = d.status
      BY TakesOK
  <2> QED BY <2>1, <2>2 DEF Joins
<1>3. CASE ~Enough(d, args)
  <2>1. dec' = d /\ got' = got /\ reading' = args
      BY <1>3 DEF PullsOrReads
  <2> QED BY <2>1
<1> QED BY <1>2, <1>3

(* tryRead() moves bytes to the application, or waits. *)
LEMMA TryReadStep ==
    ASSUME WrappedInv, NEW args \in ReadSizes, TryRead(args)
    PROVE  WrappedInv' /\ got' \o dec'.out = got \o dec.out /\ dec'.status = dec.status
<1> SUFFICES ASSUME NEW c, c = writing.sent, NEW d, d = dec'
             PROVE  WrappedInv' /\ got' \o dec'.out = got \o dec.out /\ dec'.status = dec.status
    OBVIOUS
<1>1. Holding(c, dec) /\ WritingOK /\ eof \in BOOLEAN
      /\ dec.status \in {"IncompleteInput", "CorruptData"}
    BY DEF WrappedInv
<1>2. /\ protocol = "Compact" /\ LinkOK(Enc, pushed, arrived, wire, faults, eof, c)
      /\ DecryptorOK(dec, arrived, got)
    BY <1>1 DEF Holding
<1>3. SealedOK(sealed) /\ IsCiphertext(sealed, arrived, 0)
    BY <1>1, HoldingFacts
<1>4. PullsOrReads(dec, args)
      /\ UNCHANGED <<protocol, sealed, pushed, enc, writing, wire, eof, arrived, faults>>
    BY DEF TryRead
<1>5. /\ DecryptorOK(dec', arrived, got') /\ got' \o dec'.out = got \o dec.out
      /\ dec'.status = dec.status /\ reading' \in ReadSizes \cup {NoRead}
    BY <1>1, <1>2, <1>4, PullsOK
<1>6. Holding(c, d)'
    BY <1>2, <1>3, <1>4, <1>5, ReaderStep
<1>7. Holding(writing.sent, dec)'
    BY <1>4, <1>6
<1>8. WritingOK'
    BY <1>1, <1>4 DEF WritingOK
<1> QED BY <1>1, <1>4, <1>5, <1>7, <1>8 DEF WrappedInv


(* What the continuation of a read does, in terms of the invariant: d is   *)
(* the decryption stream after the push().                                 *)
LEMMA InnerReadOK ==
    ASSUME WrappedInv, NEW n \in Nat, InnerRead(n), NEW d, d = Decrypts(n), NEW c, c = writing.sent
    PROVE  /\ LinkOK(Enc, pushed, arrived', wire', faults, eof, c)
           /\ IsCiphertext(sealed, arrived', 0) /\ DecryptorOK(dec', arrived', got')
           /\ got' \o dec'.out = got \o d.out /\ dec'.status = d.status
           /\ d.status \in {"IncompleteInput", "CorruptData"}
           /\ reading' \in ReadSizes \cup {NoRead}
           /\ d.status = "CorruptData" => faults > 0
           /\ dec.status = "CorruptData" => d.out = dec.out /\ d.status = "CorruptData"
           /\ Len(got) \in Nat /\ Len(dec.out) \in Nat /\ Len(d.out) \in Nat
           /\ Len(dec.out) <= Len(d.out) /\ d.out \in Seq(Nat)
<1>1. Holding(c, dec) /\ reading \in ReadSizes \cup {NoRead}
    BY DEF WrappedInv
<1>2. /\ protocol \in Protocols /\ LinkOK(Enc, pushed, arrived, wire, faults, eof, c)
      /\ DecryptorOK(dec, arrived, got) /\ wire \in Seq(Byte)
    BY <1>1, HoldingFacts DEF Holding
<1>3. /\ reading # NoRead /\ n <= Min({Len(wire), reading[2]})
      /\ arrived' = arrived \o SubSeq(wire, 1, n) /\ wire' = SubSeq(wire, n + 1, Len(wire))
    BY DEF InnerRead, TakesOff
<1>4. reading \in ReadSizes /\ reading[2] \in Nat
    BY <1>1, <1>3, ReadSizesAssumption
<1>5. n \in 0 .. Len(wire)
  <2>1. Len(wire) \in Nat
      BY <1>2
  <2>2. Min({Len(wire), reading[2]}) = IF Len(wire) < reading[2] THEN Len(wire) ELSE reading[2]
      BY <1>4, <2>1, MinOfTwo
  <2> QED BY <1>3, <1>4, <2>1, <2>2
<1>6. Enc.sealed = sealed
    BY DEF Enc
<1>7. /\ LinkOK(Enc, pushed, arrived', wire', faults, eof, c) /\ DecryptorOK(d, arrived', got)
      /\ IsCiphertext(sealed, arrived', 0)
      /\ d.status \in {"IncompleteInput", "CorruptData"}
      /\ d.status = "CorruptData" => faults > 0
      /\ dec.status = "CorruptData" => d.out = dec.out /\ d.status = "CorruptData"
      /\ Len(got) \in Nat /\ Len(dec.out) \in Nat /\ Len(d.out) \in Nat
      /\ Len(dec.out) <= Len(d.out)
  <2> DEFINE x == SubSeq(wire, 1, n)
             y == SubSeq(wire, n + 1, Len(wire))
  <2>1. PushesNext(dec, wire, n, x, y, d)
      BY <1>5 DEF Decrypts, PushesNext
  <2> HIDE DEF x, y
  <2>2. /\ LinkOK(Enc, pushed, arrived \o x, y, faults, eof, c) /\ DecryptorOK(d, arrived \o x, got)
        /\ IsCiphertext(sealed, arrived \o x, 0)
        /\ d.status \in {"IncompleteInput", "CorruptData"}
        /\ d.status = "CorruptData" => faults > 0
        /\ dec.status = "CorruptData" => d.out = dec.out /\ d.status = "CorruptData"
        /\ Len(got) \in Nat /\ Len(dec.out) \in Nat /\ Len(d.out) \in Nat
        /\ Len(dec.out) <= Len(d.out)
      BY <1>2, <1>6, <2>1, ReadsOK
  <2>3. arrived' = arrived \o x /\ wire' = y
      BY <1>3 DEF x, y
  <2> QED BY <2>2, <2>3
<1>8. d.out \in Seq(Nat)
    BY <1>7 DEF DecryptorOK, Holds, Decryptors
<1>9. CASE d.status = "CorruptData"
  <2>1. dec' = d /\ reading' = NoRead /\ got' = got
      BY <1>9 DEF InnerRead
  <2> QED BY <1>7, <1>8, <2>1
<1>10. CASE d.status # "CorruptData"
  <2>1. PullsOrReads(d, reading)
      BY <1>10 DEF InnerRead
  <2> SUFFICES ASSUME NEW a, a = arrived'
               PROVE  /\ DecryptorOK(dec', a, got') /\ got' \o dec'.out = got \o d.out
                      /\ dec'.status = d.status /\ reading' \in ReadSizes \cup {NoRead}
      BY <1>7, <1>8
  <2>2. DecryptorOK(d, a, got)
      BY <1>7
  <2> SUFFICES ASSUME NEW args \in ReadSizes, PullsOrReads(d, args)
               PROVE  /\ DecryptorOK(dec', a, got') /\ got' \o dec'.out = got \o d.out
                      /\ dec'.status = d.status /\ reading' \in ReadSizes \cup {NoRead}
      BY <1>4, <2>1
  <2> QED BY <1>7, <2>2, PullsOK
<1> QED BY <1>7, <1>9, <1>10

(* The continuation of the read below. *)
LEMMA InnerReadStep ==
    ASSUME WrappedInv, NEW n \in Nat, InnerRead(n) PROVE WrappedInv'
<1> SUFFICES ASSUME NEW d, d = dec', NEW c, c = writing.sent PROVE WrappedInv'
    OBVIOUS
<1>1. Holding(c, dec) /\ WritingOK /\ eof \in BOOLEAN
    BY DEF WrappedInv
<1>2. protocol = "Compact" /\ SealedOK(sealed)
    BY <1>1, HoldingFacts DEF Holding
<1>3. UNCHANGED <<protocol, sealed, pushed, enc, writing, eof, faults>>
    BY DEF InnerRead
<1>4. /\ LinkOK(Enc, pushed, arrived', wire', faults, eof, c)
      /\ IsCiphertext(sealed, arrived', 0) /\ DecryptorOK(dec', arrived', got')
      /\ dec'.status \in {"IncompleteInput", "CorruptData"}
      /\ reading' \in ReadSizes \cup {NoRead}
    BY InnerReadOK
<1>5. Holding(c, d)'
    BY <1>2, <1>3, <1>4, ReaderStep
<1>6. Holding(writing.sent, dec)'
    BY <1>3, <1>5
<1>7. WritingOK'
    BY <1>1, <1>3 DEF WritingOK
<1> QED BY <1>1, <1>3, <1>4, <1>6, <1>7 DEF WrappedInv

(* Steps that leave the link alone. *)
LEMMA LinkStays ==
    ASSUME UNCHANGED link, NEW c, NEW d, Holding(c, d), WritingOK
    PROVE  Holding(c, d)' /\ WritingOK'
<1>1. UNCHANGED <<protocol, sealed, pushed, enc, writing, wire, eof, dec, arrived, got, faults>>
    BY DEF link
<1>2. protocol = "Compact" /\ SealedOK(sealed) /\ IsCiphertext(sealed, arrived, 0)
    BY HoldingFacts DEF Holding
<1>3. /\ LinkOK(Enc, pushed, arrived', wire', faults, eof, c)
      /\ IsCiphertext(sealed, arrived', 0) /\ DecryptorOK(d, arrived', got')
    BY <1>1, <1>2 DEF Holding
<1>4. Holding(c, d)'
    BY <1>1, <1>2, <1>3, ReaderStep
<1> QED BY <1>1, <1>4 DEF WritingOK

(* A read may end with the link as it was. *)
LEMMA WrappedStays ==
    ASSUME WrappedInv, UNCHANGED link, reading' \in {reading, NoRead} PROVE WrappedInv'
<1> SUFFICES ASSUME NEW d, d = dec, NEW c, c = writing.sent PROVE WrappedInv'
    OBVIOUS
<1>1. Holding(c, d) /\ WritingOK
    BY DEF WrappedInv
<1>2. Holding(c, d)' /\ WritingOK'
    BY <1>1, LinkStays
<1>3. dec' = d /\ writing'.sent = c /\ eof' = eof /\ dec' = dec
    BY DEF link
<1>4. Holding(writing.sent, dec)'
    BY <1>2, <1>3
<1> QED BY <1>2, <1>3, <1>4 DEF WrappedInv

(* The sizes of the reads below that are considered are numbers. *)
LEMMA InnerSizes ==
    ASSUME WrappedInv, reading # NoRead
    PROVE  1 .. Min({Len(wire), reading[2]}) \subseteq Nat
<1>1. wire \in Seq(Byte)
    BY HoldingFacts DEF WrappedInv
<1>2. Len(wire) \in Nat /\ reading[2] \in Nat
    BY <1>1, ReadSizesAssumption DEF WrappedInv
<1>3. Min({Len(wire), reading[2]}) \in Nat
    BY <1>2, MinOfTwo
<1> QED BY <1>3

(* Every step keeps the invariant. *)
LEMMA WrappedStepInv == WrappedInv /\ [WrappedNext]_wrappedVars => WrappedInv'
<1> SUFFICES ASSUME WrappedInv, [WrappedNext]_wrappedVars PROVE WrappedInv'
    OBVIOUS
<1>1. CASE LinkNext /\ UNCHANGED <<reading, result>>
    BY <1>1, WrappedLinkStep
<1>2. CASE \E sizes \in WriteSizes : WrappedWrite(sizes)
    BY <1>2, WrappedWriteStep
<1>3. CASE Written \/ WriteFails
    BY <1>3, WrittenStep
<1>4. CASE \E args \in ReadSizes : TryRead(args)
    BY <1>4, TryReadStep
<1>5. CASE \E n \in 1 .. Min({Len(wire), reading[2]}) : InnerRead(n)
  <2>1. PICK n \in 1 .. Min({Len(wire), reading[2]}) : InnerRead(n)
      BY <1>5
  <2>2. reading # NoRead
      BY <2>1 DEF InnerRead
  <2>3. n \in Nat
      BY <2>2, InnerSizes
  <2> QED BY <2>1, <2>3, InnerReadStep
<1>6. CASE InnerEof \/ UNCHANGED wrappedVars
  <2>1. UNCHANGED link /\ reading' \in {reading, NoRead}
      BY <1>6 DEF InnerEof, wrappedVars
  <2> QED BY <2>1, WrappedStays
<1> QED BY <1>1, <1>2, <1>3, <1>4, <1>5, <1>6 DEF WrappedNext

(* The inductive invariant: the encryption stream, the wire and the        *)
(* decryption stream between them hold the ciphertext of all that write()  *)
(* was given, without gap, and the decryption stream holds nothing it      *)
(* could have decrypted.                                                   *)
THEOREM WrappedInvariance == WrappedSpec => []WrappedInv
<1>1. WrappedInit => WrappedInv
    BY WrappedInitInv
<1>2. WrappedInv /\ [WrappedNext]_wrappedVars => WrappedInv'
    BY WrappedStepInv
<1> QED BY <1>1, <1>2, PTL DEF WrappedSpec

(* Whatever minBytes and maxBytes tryRead() is given and however they cut  *)
(* the ciphertext, no decrypted byte is lost, repeated or put out of       *)
(* order.                                                                  *)
THEOREM WrapperLosesNothing == WrappedSpec => []NothingLost
<1>1. WrappedInv => NothingLost
  <2> SUFFICES ASSUME WrappedInv PROVE NothingLost
      OBVIOUS
  <2>1. Holding(writing.sent, dec)
      BY DEF WrappedInv
  <2>2. PICK k \in 0 .. Len(sealed) : /\ got \o dec.out = [i \in 1 .. TotalIn(sealed, k) |-> i]
                                      /\ CleartextSize(arrived) = TotalIn(sealed, k)
      BY <2>1, HoldingReceived
  <2> QED BY <2>2 DEF NothingLost
<1> QED BY <1>1, WrappedInvariance, PTL


(* Ciphertext from its first byte on: each message once, in order. *)
LEMMA BytesInOrder ==
    ASSUME NEW s, SealedOK(s), NEW f, IsCiphertext(s, f, 0)
    PROVE  /\ \A i \in DOMAIN f : f[i].pos # 1 =>
                 i > 1 /\ f[i].msg = f[i - 1].msg /\ f[i].pos = f[i - 1].pos + 1
           /\ \A i, j \in DOMAIN f : f[i].pos = 1 /\ i < j =>
                 f[i].msg <= f[j].msg /\ (f[j].pos = 1 => f[i].msg < f[j].msg)
<1>1. f \in Seq(Byte) /\ Len(f) \in Nat /\ DOMAIN f = 1 .. Len(f) /\ s \in Seq(Message)
    BY DEF IsCiphertext, SealedOK
<1>2. ASSUME NEW i \in DOMAIN f
      PROVE  IsByte(s, f[i], i) /\ i \in Nat \ {0}
  <2>1. i \in 1 .. Len(f) /\ 0 + i = i
      BY <1>1
  <2> QED BY <2>1 DEF IsCiphertext
<1>3. ASSUME NEW i \in DOMAIN f
      PROVE  \E k \in 0 .. Len(s) :
                /\ f[i].msg = k + 1 /\ k + 1 \in 1 .. Len(s) /\ Offset(s, k) \in Nat
                /\ i = Offset(s, k) + f[i].pos /\ f[i].pos \in Nat \ {0}
                /\ f[i].pos <= encryptedSize(Len(s[k + 1].data))
  <2> DEFINE m == f[i].msg
             k == m - 1
  <2>1. /\ m \in 1 .. Len(s) /\ f[i].pos \in Nat
        /\ f[i].pos \in 1 .. encryptedSize(Len(s[m].data)) /\ i = Offset(s, k) + f[i].pos
      BY <1>2 DEF IsByte, Byte
  <2>2. Len(s) \in Nat
      BY <1>1
  <2> HIDE DEF m
  <2>3. k \in 0 .. Len(s) /\ k + 1 = m /\ k + 1 \in 1 .. Len(s)
      BY <2>1, <2>2
  <2> HIDE DEF k
  <2>4. Offset(s, k) \in Nat
      BY <2>3, OffsetNat
  <2>5. encryptedSize(Len(s[k + 1].data)) \in Nat
    <3>1. Len(s[k + 1].data) \in Nat
        BY <2>3 DEF SealedOK
    <3> QED BY <3>1, Overhead
  <2>6. f[i].pos <= encryptedSize(Len(s[k + 1].data)) /\ f[i].pos \in Nat \ {0}
      BY <2>1, <2>3, <2>5
  <2> QED BY <2>1, <2>3, <2>4, <2>6 DEF m
<1>4. ASSUME NEW i \in DOMAIN f, f[i].pos # 1
      PROVE  i > 1 /\ f[i].msg = f[i - 1].msg /\ f[i].pos = f[i - 1].pos + 1
  <2>1. PICK k \in 0 .. Len(s) :
            /\ f[i].msg = k + 1 /\ k + 1 \in 1 .. Len(s) /\ Offset(s, k) \in Nat
            /\ i = Offset(s, k) + f[i].pos /\ f[i].pos \in Nat \ {0}
            /\ f[i].pos <= encryptedSize(Len(s[k + 1].data))
      BY <1>3
  <2> DEFINE p == f[i].pos
             o == Offset(s, k)
             z == encryptedSize(Len(s[k + 1].data))
  <2>2. p \in Nat \ {0} /\ p # 1 /\ o \in Nat /\ i = o + p /\ p <= z
      BY <1>4, <2>1
  <2>3. z \in Nat
    <3>1. Len(s[k + 1].data) \in Nat
        BY <2>1 DEF SealedOK
    <3> QED BY <3>1, Overhead
  <2> HIDE DEF p, o, z
  <2>4. i > 1 /\ i - 1 = o + (p - 1) /\ p - 1 \in Nat \ {0} /\ p - 1 <= z /\ i - 1 \in DOMAIN f
      BY <1>1, <2>2, <2>3
  <2>5. IsByte(s, f[i - 1], Offset(s, k) + (p - 1))
      BY <1>2, <2>4 DEF o
  <2>6. f[i - 1].msg = k + 1 /\ f[i - 1].pos = p - 1
    <3> DEFINE b == f[i - 1]
               j == p - 1
    <3>1. IsByte(s, b, Offset(s, k) + j) /\ j \in Nat \ {0}
          /\ j <= encryptedSize(Len(s[k + 1].data))
        BY <2>4, <2>5 DEF z
    <3> HIDE DEF b, j
    <3>2. b.msg = k + 1 /\ b.pos = j
        BY <3>1, BytePlace
    <3> QED BY <3>2 DEF b, j
  <2>7. f[i].pos = f[i - 1].pos + 1
    <3>1. p = (p - 1) + 1
        BY <2>2
    <3> QED BY <2>6, <3>1 DEF p
  <2> QED BY <2>1, <2>4, <2>6, <2>7
<1>5. ASSUME NEW i \in DOMAIN f, NEW j \in DOMAIN f, f[i].pos = 1, i < j
      PROVE  f[i].msg <= f[j].msg /\ (f[j].pos = 1 => f[i].msg < f[j].msg)
  <2>1. PICK k \in 0 .. Len(s) :
            /\ f[i].msg = k + 1 /\ k + 1 \in 1 .. Len(s) /\ Offset(s, k) \in Nat
            /\ i = Offset(s, k) + f[i].pos
      BY <1>3
  <2>2. PICK l \in 0 .. Len(s) :
            /\ f[j].msg = l + 1 /\ Offset(s, l) \in Nat /\ j = Offset(s, l) + f[j].pos
      BY <1>3
  <2>3. k \in Nat /\ l \in Nat
      BY <1>1
  <2> DEFINE o == Offset(s, k)
             q == j - o
  <2>4. o \in Nat /\ i = o + 1 /\ i \in Nat /\ j \in Nat
      BY <1>1, <1>5, <2>1
  <2> HIDE DEF o
  <2>5. q \in Nat \ {0} /\ j = o + q
      BY <1>5, <2>4
  <2> HIDE DEF q
  <2>6. IsByte(s, f[j], Offset(s, k) + q)
      BY <1>2, <2>5 DEF o
  <2>7. f[j].msg > k
    <3> DEFINE b == f[j]
    <3>1. IsByte(s, b, Offset(s, k) + q)
        BY <2>6
    <3> HIDE DEF b
    <3>2. b.msg > k
        BY <2>5, <3>1, BytePlace
    <3> QED BY <3>2 DEF b
  <2>8. l >= k
      BY <2>2, <2>3, <2>7
  <2>9. f[j].pos = 1 => l # k
    <3> SUFFICES ASSUME f[j].pos = 1, l = k PROVE FALSE
        OBVIOUS
    <3>1. j = o + 1
        BY <2>2 DEF o
    <3> QED BY <1>5, <2>4, <3>1
  <2> QED BY <2>1, <2>2, <2>3, <2>8, <2>9
<1> QED BY <1>4, <1>5

(* What write() has given to the stream below is each message once, in     *)
(* order, also when a write below failed and its ciphertext stayed in the  *)
(* buffer.                                                                 *)
THEOREM WrapperSendsOnce == WrappedSpec => []SentOnce
<1>1. WrappedInv => SentOnce
  <2> SUFFICES ASSUME WrappedInv PROVE SentOnce
      OBVIOUS
  <2>1. Holding(writing.sent, dec)
      BY DEF WrappedInv
  <2> DEFINE f == arrived \o wire
  <2>2. SealedOK(sealed) /\ IsCiphertext(sealed, f, 0)
      BY <2>1, HoldingFacts
  <2> HIDE DEF f
  <2>3. /\ \A i \in DOMAIN f : f[i].pos # 1 =>
              i > 1 /\ f[i].msg = f[i - 1].msg /\ f[i].pos = f[i - 1].pos + 1
        /\ \A i, j \in DOMAIN f : f[i].pos = 1 /\ i < j =>
              f[i].msg <= f[j].msg /\ (f[j].pos = 1 => f[i].msg < f[j].msg)
      BY <2>2, BytesInOrder
  <2>4. f = arrived \o wire
      BY DEF f
  <2> QED BY <2>3, <2>4 DEF SentOnce
<1> QED BY <1>1, WrappedInvariance, PTL

(* x is the first of the bytes written, for a ByteChannel. *)
HasPrefix(x) == \E n \in Nat : x = [i \in 1 .. n |-> i] /\ Len(x) = n /\ n <= pushed

(* What was read and what waits are the first bytes of what was pushed. *)
LEMMA HoldingPrefix ==
    ASSUME NEW c, NEW d, Holding(c, d) PROVE HasPrefix(got \o d.out)
<1>1. PICK k \in 0 .. Len(sealed) :
          /\ got \o d.out = [i \in 1 .. TotalIn(sealed, k) |-> i]
          /\ TotalIn(sealed, k) \in Nat /\ TotalIn(sealed, k) <= pushed
    BY HoldingReceived
<1> DEFINE n == TotalIn(sealed, k)
           x == got \o d.out
<1>2. x = [i \in 1 .. n |-> i] /\ n \in Nat /\ n <= pushed
    BY <1>1
<1> HIDE DEF n, x
<1>3. Len(x) = n
    BY <1>2
<1>4. HasPrefix(x)
    BY <1>2, <1>3 DEF HasPrefix
<1> QED BY <1>4 DEF x

(* So it is for the wrapper, ... *)
LEMMA WrappedPrefix == WrappedInv => HasPrefix(got \o dec.out)
    BY HoldingPrefix DEF WrappedInv

(* ... also after a step. *)
LEMMA WrappedPrefixNext == (WrappedInv => HasPrefix(got \o dec.out))'
    BY WrappedPrefix, PTL

(* Every step of the wrapper is a step of the channel, or none. *)
LEMMA WrapperChannelStep ==
    WrappedInv /\ [WrappedNext]_wrappedVars =>
        [WrappedChannel!Next]_(WrappedChannel!vars)
<1> SUFFICES ASSUME WrappedInv, [WrappedNext]_wrappedVars
             PROVE  [WrappedChannel!Next]_(WrappedChannel!vars)
    OBVIOUS
<1>0. pushed \in Nat /\ faults \in Nat
    BY HoldingFacts DEF WrappedInv
<1>1. CASE LinkNext /\ UNCHANGED <<reading, result>>
  <2>1. faults' \in Nat /\ faults <= faults' /\ pushed' = pushed /\ dec' = dec /\ got' = got
      BY <1>1, WrappedLinkStep
  <2>2. CASE faults' = faults
      BY <2>1, <2>2 DEF WrappedChannel!vars
  <2>3. CASE faults' # faults
    <3>1. (faults' > 0) = TRUE
        BY <1>0, <2>1, <2>3
    <3> QED BY <2>1, <3>1 DEF WrappedChannel!Next, WrappedChannel!Damage
  <2> QED BY <2>2, <2>3
<1>2. CASE \E sizes \in WriteSizes : WrappedWrite(sizes)
  <2>1. PICK sizes \in WriteSizes : WrappedWrite(sizes)
      BY <1>2
  <2>2. pushed' \in Nat /\ pushed <= pushed'
      BY <2>1, WrappedWriteStep
  <2>3. dec' = dec /\ got' = got /\ faults' = faults
      BY <2>1 DEF WrappedWrite
  <2>4. CASE pushed' = pushed
      BY <2>3, <2>4 DEF WrappedChannel!vars
  <2>5. CASE pushed' # pushed
    <3>1. pushed' > pushed
        BY <1>0, <2>2, <2>5
    <3> QED BY <2>3, <3>1 DEF WrappedChannel!Next, WrappedChannel!Write
  <2> QED BY <2>4, <2>5
<1>3. CASE Written \/ WriteFails \/ InnerEof \/ UNCHANGED wrappedVars
  <2>1. pushed' = pushed /\ dec' = dec /\ got' = got /\ faults' = faults
      BY <1>3 DEF Written, WriteFails, InnerEof, wrappedVars, link
  <2> QED BY <2>1 DEF WrappedChannel!vars
<1>4. CASE \E args \in ReadSizes : TryRead(args)
  <2>1. PICK args \in ReadSizes : TryRead(args)
      BY <1>4
  <2>2. got' \o dec'.out = got \o dec.out /\ dec'.status = dec.status
      BY <2>1, TryReadStep
  <2>3. pushed' = pushed /\ faults' = faults
      BY <2>1 DEF TryRead
  <2> QED BY <2>2, <2>3 DEF WrappedChannel!vars
<1>5. CASE \E n \in 1 .. Min({Len(wire), reading[2]}) : InnerRead(n)
  <2>1. PICK n \in 1 .. Min({Len(wire), reading[2]}) : InnerRead(n)
      BY <1>5
  <2>2. reading # NoRead
      BY <2>1 DEF InnerRead
  <2>3. n \in Nat
      BY <2>2, InnerSizes
  <2> SUFFICES ASSUME NEW d, d = Decrypts(n), NEW c, c = writing.sent
               PROVE  [WrappedChannel!Next]_(WrappedChannel!vars)
      OBVIOUS
  <2>4. /\ got' \o dec'.out = got \o d.out /\ dec'.status = d.status
        /\ d.status = "CorruptData" => faults > 0
        /\ dec.status = "CorruptData" => d.out = dec.out /\ d.status = "CorruptData"
        /\ Len(got) \in Nat /\ Len(dec.out) \in Nat /\ Len(d.out) \in Nat
        /\ Len(dec.out) <= Len(d.out) /\ d.out \in Seq(Nat)
      BY <2>1, <2>3, InnerReadOK
  <2>5. pushed' = pushed /\ faults' = faults
      BY <2>1 DEF InnerRead
  <2>6. CASE dec.status = "CorruptData"
      BY <2>4, <2>5, <2>6 DEF WrappedChannel!vars
  <2>7. CASE dec.status # "CorruptData"
    <3>1. WrappedInv'
        BY <2>1, <2>3, InnerReadStep
    <3>2. HasPrefix(got \o dec.out)
        BY WrappedPrefix
    <3>3. PICK T \in Nat : got' \o dec'.out = [i \in 1 .. T |-> i] /\ T <= pushed
        BY <2>5, <3>1, WrappedPrefixNext DEF HasPrefix
    <3> DEFINE x == got \o dec.out
               y == got' \o dec'.out
    <3>4. Len(x) \in Nat /\ Len(y) \in Nat /\ Len(x) <= Len(y)
      <4>1. got \in Seq(Nat) /\ dec.out \in Seq(Nat)
          BY HoldingFacts DEF WrappedInv, Decryptors
      <4>2. Len(x) = Len(got) + Len(dec.out) /\ Len(y) = Len(got) + Len(d.out)
          BY <2>4, <4>1, ConcatFacts
      <4> QED BY <2>4, <4>2
    <3>5. \E k \in Len(x) .. pushed : y = [i \in 1 .. k |-> i]
      <4>1. y = [i \in 1 .. T |-> i]
          BY <3>3
      <4> HIDE DEF x, y
      <4>2. Len(y) = T
          BY <4>1
      <4>3. T \in Len(x) .. pushed
          BY <1>0, <3>3, <3>4, <4>2
      <4> QED BY <4>1, <4>3
    <3>6. WrappedChannel!Receive
        BY <2>4, <2>5, <2>7, <3>5 DEF WrappedChannel!Receive
    <3> QED BY <3>6 DEF WrappedChannel!Next
  <2> QED BY <2>6, <2>7
<1> QED BY <1>1, <1>2, <1>3, <1>4, <1>5 DEF WrappedNext

(* The wrapper starts as a channel does. *)
LEMMA WrapperChannelInit == WrappedInit => WrappedChannel!Init
<1> SUFFICES ASSUME WrappedInit PROVE WrappedChannel!Init
    OBVIOUS
<1>1. got \o dec.out = <<>>
    BY DEF WrappedInit, LinkInit
<1>2. ~(faults > 0) /\ pushed = 0 /\ dec.status # "CorruptData"
    BY DEF WrappedInit, LinkInit
<1> QED BY <1>1, <1>2 DEF WrappedChannel!Init

(* write() at one end and tryRead() at the other implement a ByteChannel.  *)
THEOREM WrapperImplementsChannel == WrappedSpec => WrapperIsChannel
<1>1. WrappedInit => WrappedChannel!Init
    BY WrapperChannelInit
<1>2. WrappedInv /\ [WrappedNext]_wrappedVars => [WrappedChannel!Next]_(WrappedChannel!vars)
    BY WrapperChannelStep
<1> QED BY <1>1, <1>2, WrappedInvariance, PTL
        DEF WrappedSpec, WrapperIsChannel, WrappedChannel!Spec


----------------------------------------------------------------------------
(* CroutonStream.                                                          *)

(* The writer sends from the front of a buffer it only skips at the next   *)
(* write().                                                                *)
SentSoFar == IF writing = Idle THEN lastWriteSize ELSE writing.sent
WriterInv == WritingOK /\ eof \in BOOLEAN /\ lastWriteSize = Len(enc.out)

(* The reader's decryption stream without what the last read returned; and *)
(* with the bytes x that close() drops when they are the start of a        *)
(* message.                                                                *)
Seen(x) == [out |-> Kept(dec.out, lastReadSize), in |-> x, nonce |-> dec.nonce,
            status |-> dec.status]

CroutonHolds(x) ==
    /\ x \in Seq(Byte) /\ Holding(SentSoFar, Seen(x))
    /\ open \/ reading # None => x = dec.in
    /\ result.kind = "eof" => x = <<>> /\ Kept(dec.out, lastReadSize) = <<>>
    /\ result.kind = "DataError" => x # <<>>

ReaderInv ==
    /\ dec \in Decryptors /\ dec.status \in {"IncompleteInput", "CorruptData"}
    /\ lastReadSize \in 0 .. Len(dec.out) /\ reading \in Calls \cup {None}
    /\ reading # None => dec.out = <<>> /\ lastReadSize = 0 /\ result = Nothing
    /\ result.kind \in {"DataError", "InvalidState"} => ~open /\ reading = None
    /\ result.kind = "peek" => lastReadSize = 0 /\ result.bytes = dec.out
    /\ result.kind = "read" => result.bytes = SubSeq(dec.out, 1, lastReadSize)
    /\ result.kind \notin {"peek", "read"} => result.bytes = <<>>

CroutonInv == WriterInv /\ ReaderInv /\ \E x : CroutonHolds(x)

(* skip() of nothing. *)
LEMMA KeptAll ==
    ASSUME NEW S, NEW f \in Seq(S) PROVE Kept(f, 0) = f
<1>1. PICK c \in 0 .. Len(f) : /\ Kept(f, 0) = SubSeq(f, c + 1, Len(f))
                               /\ c = IF 0 < Len(f) THEN 0 ELSE Len(f)
    BY TakenAndKept
<1>2. c = 0 /\ Len(f) \in Nat /\ Len(f) \in c .. Len(f) /\ Len(f) - c = Len(f)
    BY <1>1
<1> DEFINE g == SubSeq(f, 0 + 1, Len(f))
<1>3. g \in Seq(S) /\ Len(g) = Len(f) - 0 /\ \A j \in 1 .. Len(f) - 0 : g[j] = f[0 + j]
    BY <1>2, SubSeqFacts
<1>4. Kept(f, 0) = g
    BY <1>1, <1>2
<1> HIDE DEF g
<1>5. Len(g) = Len(f) /\ \A j \in 1 .. Len(f) : g[j] = f[j]
    BY <1>2, <1>3
<1> QED BY <1>3, <1>4, <1>5, SameElements

(* The invariant holds at first. *)
LEMMA CroutonInitInv == Init => CroutonInv
<1> SUFFICES ASSUME Init PROVE CroutonInv
    OBVIOUS
<1>1. /\ LinkInit /\ lastWriteSize = 0 /\ open = TRUE /\ lastReadSize = 0 /\ reading = None
      /\ result = Nothing
    BY DEF Init
<1>2. /\ writing = Idle /\ eof = FALSE /\ enc = [out |-> <<>>, in |-> <<>>, nonce |-> 0]
      /\ dec = [out |-> <<>>, in |-> <<>>, nonce |-> 0, status |-> "IncompleteInput"]
    BY <1>1 DEF LinkInit
<1>3. Holding(0, dec) /\ WritingOK
    BY <1>1, HoldingInit
<1>4. WriterInv
    BY <1>1, <1>2, <1>3 DEF WriterInv
<1>5. dec \in Decryptors
    BY <1>3, HoldingFacts
<1>6. Nothing.kind = "none" /\ Nothing.bytes = <<>>
    BY DEF Nothing
<1>7. ReaderInv
    BY <1>1, <1>2, <1>5, <1>6 DEF ReaderInv
<1>8. Kept(<<>>, 0) = <<>>
  <2>1. <<>> \in Seq(Nat)
      OBVIOUS
  <2> QED BY <2>1, KeptAll
<1>9. Seen(<<>>) = dec /\ SentSoFar = 0
    BY <1>1, <1>2, <1>8 DEF Seen, SentSoFar
<1>10. CroutonHolds(<<>>)
  <2>1. <<>> \in Seq(Byte) /\ dec.in = <<>>
      BY <1>2
  <2> QED BY <1>1, <1>3, <1>6, <1>9, <2>1 DEF CroutonHolds
<1> QED BY <1>4, <1>7, <1>10 DEF CroutonInv

(* A step of the writer or of the stream below. *)
LEMMA WriterMoves ==
    ASSUME ReaderInv, NEW x, CroutonHolds(x), UNCHANGED <<dec, readVars>>,
           NEW b, NEW s, s = Seen(x), Holding(b, s)', b = SentSoFar', WriterInv'
    PROVE  CroutonInv'
<1>1. /\ dec' = dec /\ open' = open /\ lastReadSize' = lastReadSize /\ reading' = reading
      /\ result' = result
    BY DEF readVars
<1>2. Seen(x)' = s
    BY <1>1 DEF Seen
<1>3. Holding(SentSoFar, Seen(x))'
    BY <1>2
<1>4. CroutonHolds(x)'
    BY <1>1, <1>3 DEF CroutonHolds
<1>5. ReaderInv'
    BY <1>1 DEF ReaderInv
<1> QED BY <1>4, <1>5 DEF CroutonInv

(* The stream below sends, ends, breaks or damages a byte. *)
LEMMA CroutonLinkStep ==
    ASSUME CroutonInv, LinkNext, UNCHANGED <<writerOpen, lastWriteSize, readVars>>
    PROVE  /\ CroutonInv' /\ faults \in Nat /\ faults' \in Nat /\ faults <= faults'
           /\ UNCHANGED <<pushed, dec, got, lastReadSize>>
<1>1. PICK x : CroutonHolds(x)
    BY DEF CroutonInv
<1> SUFFICES ASSUME NEW c, c = SentSoFar, NEW s, s = Seen(x),
                    NEW b, b = IF writing' = Idle THEN c ELSE writing'.sent
             PROVE  /\ CroutonInv' /\ faults \in Nat /\ faults' \in Nat /\ faults <= faults'
                    /\ UNCHANGED <<pushed, dec, got, lastReadSize>>
    OBVIOUS
<1>2. /\ Holding(c, s) /\ WritingOK /\ eof \in BOOLEAN /\ ReaderInv
      /\ lastWriteSize = Len(enc.out)
    BY <1>1 DEF CroutonInv, WriterInv, CroutonHolds
<1>3. writing # Idle => c = writing.sent
    BY DEF SentSoFar
<1>4. /\ Holding(b, s)' /\ WritingOK' /\ (writing' = Idle <=> writing = Idle)
      /\ eof' \in BOOLEAN /\ faults' \in Nat /\ faults <= faults'
      /\ UNCHANGED <<protocol, sealed, pushed, enc, dec, arrived, got>>
    BY <1>2, <1>3, LinkStep
<1>5. lastReadSize' = lastReadSize
    BY DEF readVars
<1>6. b = SentSoFar'
    BY <1>4 DEF SentSoFar
<1>7. WriterInv'
    BY <1>2, <1>4 DEF WriterInv
<1>8. CroutonInv'
    BY <1>1, <1>2, <1>4, <1>6, <1>7, WriterMoves
<1>9. faults \in Nat
    BY <1>2, HoldingFacts
<1> QED BY <1>4, <1>5, <1>8, <1>9

(* skip() of what the last write() sent. *)
LEMMA SkippedOK ==
    ASSUME CroutonInv, NEW x, CroutonHolds(x), writing = Idle,
           NEW e, e = [enc EXCEPT !.out = Skipped],
           NEW f, f = [out |-> e.out, in |-> e.in, nonce |-> e.nonce, sealed |-> sealed]
    PROVE  /\ e = [out |-> <<>>, in |-> enc.in, nonce |-> enc.nonce]
           /\ LinkOK(f, pushed, arrived, wire, faults, eof, 0)
<1> SUFFICES ASSUME NEW c, c = SentSoFar, NEW s, s = Seen(x)
             PROVE  /\ e = [out |-> <<>>, in |-> enc.in, nonce |-> enc.nonce]
                    /\ LinkOK(f, pushed, arrived, wire, faults, eof, 0)
    OBVIOUS
<1>1. Holding(c, s) /\ WritingOK /\ lastWriteSize = Len(enc.out)
    BY DEF CroutonInv, WriterInv, CroutonHolds
<1>2. enc.out \in Seq(Byte)
    BY <1>1, HoldingFacts
<1>3. Skipped = <<>>
  <2>1. Len(enc.out) \in Nat /\ Len(enc.out) >= Len(enc.out)
      BY <1>2
  <2> QED BY <1>1, <1>2, <2>1, KeptNothing DEF Skipped
<1>4. enc = [out |-> enc.out, in |-> enc.in, nonce |-> enc.nonce]
    BY <1>1 DEF WritingOK
<1>5. e = [out |-> <<>>, in |-> enc.in, nonce |-> enc.nonce]
    BY <1>3, <1>4
<1>6. Enc.out = enc.out /\ Enc.in = enc.in /\ Enc.nonce = enc.nonce /\ Enc.sealed = sealed
    BY DEF Enc
<1>7. c = Len(Enc.out)
    BY <1>1, <1>6 DEF SentSoFar
<1>8. f = [out |-> <<>>, in |-> Enc.in, nonce |-> Enc.nonce, sealed |-> Enc.sealed]
    BY <1>5, <1>6
<1>9. LinkOK(Enc, pushed, arrived, wire, faults, eof, c)
    BY <1>1 DEF Holding
<1>10. LinkOK(f, pushed, arrived, wire, faults, eof, 0)
    BY <1>7, <1>8, <1>9, LinkSkips
<1> QED BY <1>5, <1>10

(* write(): what the last write sent is dropped first. *)
LEMMA CroutonWriteStep ==
    ASSUME CroutonInv, NEW sizes \in WriteSizes, Write(sizes)
    PROVE  CroutonInv' /\ pushed \in Nat /\ pushed' \in Nat /\ pushed <= pushed'
<1>1. PICK x : CroutonHolds(x)
    BY DEF CroutonInv
<1> SUFFICES ASSUME NEW s, s = Seen(x), NEW e, e = [enc EXCEPT !.out = Skipped],
                    NEW f, f = [out |-> e.out, in |-> e.in, nonce |-> e.nonce, sealed |-> sealed],
                    NEW w, w = Encrypts(e, sizes)
             PROVE  CroutonInv' /\ pushed \in Nat /\ pushed' \in Nat /\ pushed <= pushed'
    OBVIOUS
<1>2. /\ writing = Idle /\ pushed' = w.pushed /\ EncryptorBecomes(w.e)
      /\ lastWriteSize' = Len(w.e.out) /\ writing' = [size |-> Len(w.e.out), sent |-> 0]
      /\ UNCHANGED <<protocol, wire, eof, dec, arrived, got, faults, writerOpen, readVars>>
    BY DEF Write
<1>3. LinkOK(f, pushed, arrived, wire, faults, eof, 0)
    BY <1>1, <1>2, SkippedOK
<1>4. protocol = "Compact" /\ DecryptorOK(s, arrived, got) /\ pushed \in Nat
    BY <1>1, <1>3 DEF CroutonHolds, Holding, LinkOK
<1>5. sizes \in Seq(Nat)
    BY LinkConstants
<1>6. /\ Holding(0, s)' /\ pushed' \in Nat /\ pushed <= pushed'
      /\ enc' = [out |-> enc'.out, in |-> enc'.in, nonce |-> enc'.nonce]
      /\ enc'.out = w.e.out /\ Len(w.e.out) \in Nat
    BY <1>2, <1>3, <1>4, <1>5, WriteStep
<1>7. writing'.sent = 0 /\ writing'.size = Len(enc'.out) /\ writing' \in [size : Nat, sent : Nat]
      /\ writing'.sent <= writing'.size
    BY <1>2, <1>6
<1>8. WriterInv'
    BY <1>2, <1>6, <1>7 DEF WriterInv, WritingOK, CroutonInv
<1>9. 0 = SentSoFar'
  <2>1. CASE writing' = Idle
    <3>1. Len(w.e.out) = 0
        BY <1>2, <2>1 DEF Idle
    <3> QED BY <1>2, <2>1, <3>1 DEF SentSoFar
  <2>2. CASE writing' # Idle
      BY <1>7, <2>2 DEF SentSoFar
  <2> QED BY <2>1, <2>2
<1>10. CroutonInv'
    BY <1>1, <1>2, <1>6, <1>8, <1>9, WriterMoves DEF CroutonInv
<1> QED BY <1>4, <1>6, <1>10


(* The other steps of the writing stream. *)
LEMMA WriterOtherStep ==
    ASSUME CroutonInv, WriteRefused \/ WriteEnds \/ WriterCloses
    PROVE  CroutonInv' /\ UNCHANGED <<pushed, dec, got, faults, lastReadSize>>
<1>1. PICK x : CroutonHolds(x)
    BY DEF CroutonInv
<1> SUFFICES ASSUME NEW s, s = Seen(x), NEW c, c = SentSoFar
             PROVE  CroutonInv' /\ UNCHANGED <<pushed, dec, got, faults, lastReadSize>>
    OBVIOUS
<1>2. /\ Holding(c, s) /\ WritingOK /\ eof \in BOOLEAN /\ ReaderInv
      /\ lastWriteSize = Len(enc.out)
    BY <1>1 DEF CroutonInv, WriterInv, CroutonHolds
<1>3. /\ protocol = "Compact" /\ LinkOK(Enc, pushed, arrived, wire, faults, eof, c)
      /\ DecryptorOK(s, arrived, got)
    BY <1>2 DEF Holding
<1>4. /\ SealedOK(sealed) /\ sealed \in Seq(Message) /\ IsCiphertext(sealed, arrived, 0)
      /\ enc.out \in Seq(Byte) /\ faults \in Nat /\ c \in Nat
    BY <1>2, HoldingFacts
<1>5. UNCHANGED <<protocol, sealed, pushed, wire, dec, arrived, got, faults, readVars>>
    BY DEF WriteRefused, WriteEnds, WriterCloses
<1>6. PICK e, b : /\ e = [out |-> enc'.out, in |-> enc'.in, nonce |-> enc'.nonce, sealed |-> sealed']
                  /\ LinkOK(e, pushed, arrived, wire, faults, eof', b)
                  /\ b = SentSoFar' /\ WriterInv'
  <2>1. CASE WriteRefused
    <3>1. /\ writing = Idle /\ writing' = writing /\ lastWriteSize' = 0 /\ eof' = eof
          /\ enc' = [enc EXCEPT !.out = Skipped] /\ sealed' = sealed
        BY <2>1 DEF WriteRefused
    <3> SUFFICES ASSUME NEW e, e = [enc EXCEPT !.out = Skipped],
                        NEW f, f = [out |-> e.out, in |-> e.in, nonce |-> e.nonce, sealed |-> sealed]
                 PROVE  /\ f = [out |-> enc'.out, in |-> enc'.in, nonce |-> enc'.nonce, sealed |-> sealed']
                        /\ LinkOK(f, pushed, arrived, wire, faults, eof', 0)
                        /\ 0 = SentSoFar' /\ WriterInv'
        OBVIOUS
    <3>2. /\ e = [out |-> <<>>, in |-> enc.in, nonce |-> enc.nonce]
          /\ LinkOK(f, pushed, arrived, wire, faults, eof, 0)
        BY <1>1, <3>1, SkippedOK
    <3>3. enc' = e /\ enc'.out = <<>> /\ enc'.in = enc.in /\ enc'.nonce = enc.nonce
        BY <3>1, <3>2
    <3>4. WriterInv'
      <4>1. writing' = Idle /\ Len(enc'.out) = 0
            /\ enc' = [out |-> enc'.out, in |-> enc'.in, nonce |-> enc'.nonce]
          BY <3>1, <3>2, <3>3
      <4>2. writing' \in [size : Nat, sent : Nat] /\ writing'.sent <= writing'.size
          BY <4>1 DEF Idle
      <4> QED BY <1>2, <3>1, <4>1, <4>2 DEF WriterInv, WritingOK
    <3>5. 0 = SentSoFar'
        BY <3>1 DEF SentSoFar
    <3> QED BY <3>1, <3>2, <3>3, <3>4, <3>5
  <2>2. CASE WriteEnds
    <3>1. /\ writing # Idle /\ (writing.sent = writing.size \/ eof) /\ writing' = Idle
          /\ enc' = enc /\ sealed' = sealed /\ eof' = eof /\ lastWriteSize' = lastWriteSize
        BY <2>2 DEF WriteEnds
    <3>2. SentSoFar' = lastWriteSize /\ c = writing.sent /\ writing.size = Len(enc.out)
        BY <1>2, <3>1 DEF SentSoFar, WritingOK
    <3>3. Len(enc.out) \in Nat
        BY <1>4
    <3>4. LinkOK(Enc, pushed, arrived, wire, faults, eof, lastWriteSize)
      <4>1. CASE eof
        <5>1. LinkOK(Enc, pushed, arrived, wire, faults, TRUE, lastWriteSize)
            BY <1>2, <1>3, <1>4, <3>3, LinkEnds
        <5>2. eof = TRUE
            BY <1>2, <4>1
        <5> QED BY <5>1, <5>2
      <4>2. CASE ~eof
          BY <1>2, <1>3, <3>1, <3>2, <4>2
      <4> QED BY <4>1, <4>2
    <3>5. Enc = [out |-> enc'.out, in |-> enc'.in, nonce |-> enc'.nonce, sealed |-> sealed']
        BY <3>1 DEF Enc
    <3>6. WriterInv'
      <4>1. writing' \in [size : Nat, sent : Nat] /\ writing'.sent <= writing'.size
          BY <3>1 DEF Idle
      <4> QED BY <1>2, <3>1, <4>1 DEF WriterInv, WritingOK
    <3> QED BY <3>1, <3>2, <3>4, <3>5, <3>6
  <2>3. CASE WriterCloses
    <3>1. /\ eof' = TRUE /\ writing' = writing /\ enc' = enc /\ sealed' = sealed
          /\ lastWriteSize' = lastWriteSize
        BY <2>3 DEF WriterCloses
    <3>2. LinkOK(Enc, pushed, arrived, wire, faults, TRUE, c)
        BY <1>3, <1>4, LinkEnds
    <3>3. Enc = [out |-> enc'.out, in |-> enc'.in, nonce |-> enc'.nonce, sealed |-> sealed']
        BY <3>1 DEF Enc
    <3>4. c = SentSoFar' /\ WriterInv'
        BY <1>2, <3>1 DEF SentSoFar, WriterInv, WritingOK
    <3> QED BY <3>1, <3>2, <3>3, <3>4
  <2> QED BY <2>1, <2>2, <2>3
<1>7. Extends(sealed, sealed')
    BY <1>4, <1>5 DEF Extends
<1>8. /\ LinkOK(e, pushed', arrived', wire', faults', eof', b) /\ protocol' = protocol
      /\ IsCiphertext(sealed, arrived', 0) /\ DecryptorOK(s, arrived', got')
    BY <1>3, <1>4, <1>5, <1>6
<1>9. Holding(b, s)'
    BY <1>3, <1>4, <1>6, <1>7, <1>8, HoldingNext
<1>10. CroutonInv'
    BY <1>1, <1>2, <1>5, <1>6, <1>9, WriterMoves
<1> QED BY <1>5, <1>10 DEF readVars

(* What a read or a peek of a decryption stream d returns; s is d without  *)
(* the first n bytes.                                                      *)
Without(s, d, n) ==
    s = [out |-> Kept(d.out, n), in |-> d.in, nonce |-> d.nonce, status |-> d.status]

(* What readNoCopy() or peekNoCopy() returns, and leaves for the next call *)
(* to skip.                                                                *)
LEMMA GivesOK ==
    ASSUME NEW d, NEW a, DecryptorOK(d, a, got), NEW op \in Calls, Gives(op, d.out), dec' = d,
           NEW s, Without(s, d, lastReadSize')
    PROVE  /\ DecryptorOK(s, a, got') /\ got' \o s.out = got \o d.out
           /\ lastReadSize' \in 0 .. Len(d.out) /\ reading' = None
           /\ result'.kind \in {"peek", "read"}
           /\ result'.kind = "peek" => lastReadSize' = 0 /\ result'.bytes = d.out
           /\ result'.kind = "read" => result'.bytes = SubSeq(d.out, 1, lastReadSize')
<1>1. d \in Decryptors /\ d.out \in Seq(Nat) /\ Len(d.out) \in Nat
      /\ d = [out |-> d.out, in |-> d.in, nonce |-> d.nonce, status |-> d.status]
    BY DEF DecryptorOK, Holds, Decryptors
<1>2. op.op \in {"peek", "read"} /\ op.maxLen \in Nat /\ reading' = None
    BY ReaderConstants DEF Calls, Gives
<1>3. CASE op.op = "read"
  <2>1. PICK c \in 0 .. Len(d.out) :
            /\ Taken(d.out, op.maxLen) = SubSeq(d.out, 1, c)
            /\ Kept(d.out, op.maxLen) = SubSeq(d.out, c + 1, Len(d.out))
      BY <1>1, <1>2, TakenAndKept
  <2>2. Len(SubSeq(d.out, 1, c)) = c
    <3>1. Len(SubSeq(d.out, 0 + 1, c)) = c - 0
      <4>1. 0 \in 0 .. Len(d.out) /\ c \in 0 .. Len(d.out)
          BY <1>1
      <4> QED BY <1>1, <4>1, SubSeqFacts
    <3> QED BY <3>1
  <2>3. /\ result' = [kind |-> "read", bytes |-> SubSeq(d.out, 1, c)] /\ lastReadSize' = c
        /\ got' = got \o SubSeq(d.out, 1, c)
      BY <1>3, <2>1, <2>2 DEF Gives, LastRead
  <2>4. Taken(d.out, c) = SubSeq(d.out, 1, c)
    <3>1. PICK k \in 0 .. Len(d.out) : /\ Taken(d.out, c) = SubSeq(d.out, 1, k)
                                       /\ k = IF c < Len(d.out) THEN c ELSE Len(d.out)
      <4>1. c \in Nat
          BY <1>1
      <4> QED BY <1>1, <4>1, TakenAndKept
    <3>2. k = c
        BY <1>1, <3>1
    <3> QED BY <3>1, <3>2
  <2> SUFFICES ASSUME NEW t, NEW r, Takes(d, c, t, r, s), got' = got \o t
               PROVE  DecryptorOK(s, a, got') /\ got' \o s.out = got \o d.out
    <3>1. Takes(d, c, SubSeq(d.out, 1, c), Kept(d.out, c), s)
      <4>1. c \in Nat
          BY <1>1
      <4>2. s = [d EXCEPT !.out = Kept(d.out, c)]
        <5> DEFINE z == Kept(d.out, c)
        <5>1. s = [out |-> z, in |-> d.in, nonce |-> d.nonce, status |-> d.status]
            BY <2>3 DEF Without
        <5> HIDE DEF z
        <5>2. s = [d EXCEPT !.out = z]
            BY <1>1, <5>1
        <5> QED BY <5>2 DEF z
      <4> QED BY <2>4, <4>1, <4>2 DEF Takes
    <3> QED BY <1>2, <2>3, <3>1
  <2>5. DecryptorOK(s, a, got \o t) /\ Joins(got, t, r, d.out) /\ s.out = r
      BY TakesOK
  <2> QED BY <2>5 DEF Joins
<1>4. CASE op.op = "peek"
  <2>1. result' = [kind |-> "peek", bytes |-> d.out] /\ lastReadSize' = 0 /\ got' = got
      BY <1>4 DEF Gives, LastRead
  <2>2. Kept(d.out, 0) = d.out
      BY <1>1, KeptAll
  <2>3. s = d
      BY <1>1, <2>1, <2>2 DEF Without
  <2> QED BY <1>1, <1>2, <2>1, <2>3
<1> QED BY <1>2, <1>3, <1>4


(* A step of the reader. *)
LEMMA ReaderMoves ==
    ASSUME CroutonInv,
           UNCHANGED <<protocol, sealed, pushed, enc, writing, eof, faults, writerOpen, lastWriteSize>>,
           NEW c, c = SentSoFar, LinkOK(Enc, pushed, arrived', wire', faults, eof, c),
           IsCiphertext(sealed, arrived', 0), NEW x, x \in Seq(Byte), NEW s, s = Seen(x)',
           DecryptorOK(s, arrived', got'),
           open' \/ reading' # None => x = dec'.in,
           result'.kind = "eof" => x = <<>> /\ s.out = <<>>,
           result'.kind = "DataError" => x # <<>>, ReaderInv'
    PROVE  CroutonInv'
<1>1. PICK y : CroutonHolds(y)
    BY DEF CroutonInv
<1>2. protocol = "Compact" /\ SealedOK(sealed)
    BY <1>1, HoldingFacts DEF CroutonHolds, Holding
<1>3. Holding(c, s)'
    BY <1>2, ReaderStep
<1>4. c = SentSoFar'
    BY DEF SentSoFar
<1>5. s.out = Kept(dec'.out, lastReadSize')
    BY DEF Seen
<1>6. Holding(SentSoFar, Seen(x))'
    BY <1>3, <1>4
<1>7. CroutonHolds(x)'
    BY <1>5, <1>6 DEF CroutonHolds
<1>8. WriterInv'
    BY DEF CroutonInv, WriterInv, WritingOK
<1> QED BY <1>7, <1>8 DEF CroutonInv

(* A call of either, up to its first AWAIT. *)
LEMMA CallStep ==
    ASSUME CroutonInv, NEW op \in Calls, Call(op)
    PROVE  /\ CroutonInv' /\ dec'.status = dec.status
           /\ got' \o Kept(dec'.out, lastReadSize') = got \o Kept(dec.out, lastReadSize)
<1>1. PICK x : CroutonHolds(x)
    BY DEF CroutonInv
<1> SUFFICES ASSUME NEW c, c = SentSoFar, NEW d, d = Seen(x), NEW s, s = Seen(x)'
             PROVE  /\ CroutonInv' /\ dec'.status = dec.status
                    /\ got' \o Kept(dec'.out, lastReadSize') = got \o Kept(dec.out, lastReadSize)
    OBVIOUS
<1>2. /\ Holding(c, d) /\ x \in Seq(Byte) /\ ReaderInv /\ (open => x = dec.in)
    BY <1>1 DEF CroutonHolds, CroutonInv
<1>3. /\ LinkOK(Enc, pushed, arrived, wire, faults, eof, c) /\ DecryptorOK(d, arrived, got)
      /\ IsCiphertext(sealed, arrived, 0) /\ d \in Decryptors
    BY <1>2, HoldingFacts DEF Holding
<1>4. /\ open /\ reading = None /\ x = dec.in /\ open' = open
      /\ dec' = [dec EXCEPT !.out = Kept(dec.out, lastReadSize)]
      /\ UNCHANGED <<protocol, sealed, pushed, enc, writing, wire, eof, arrived, faults,
                     writerOpen, lastWriteSize>>
    BY <1>2 DEF Call
<1>5. dec = [out |-> dec.out, in |-> dec.in, nonce |-> dec.nonce, status |-> dec.status]
    BY <1>2 DEF ReaderInv, Decryptors
<1>6. dec' = d
  <2> DEFINE z == Kept(dec.out, lastReadSize)
  <2>1. dec' = [dec EXCEPT !.out = z] /\ d = [out |-> z, in |-> dec.in, nonce |-> dec.nonce, status |-> dec.status]
      BY <1>4 DEF Seen
  <2> HIDE DEF z
  <2> QED BY <1>5, <2>1
<1>7. d.out = Kept(dec.out, lastReadSize) /\ d.in = x /\ d.status = dec.status
    BY DEF Seen
<1>8. /\ Without(s, d, lastReadSize') /\ s.out = Kept(dec'.out, lastReadSize')
      /\ s = [out |-> Kept(d.out, lastReadSize'), in |-> d.in, nonce |-> d.nonce, status |-> d.status]
    BY <1>6, <1>7 DEF Seen, Without
<1>9. d.status \in {"IncompleteInput", "CorruptData"}
    BY <1>2, <1>7 DEF ReaderInv
<1>10. CASE d.out # <<>>
  <2>1. Gives(op, d.out)
      BY <1>6, <1>7, <1>4, <1>10 DEF Call
  <2>2. /\ DecryptorOK(s, arrived, got') /\ got' \o s.out = got \o d.out
        /\ lastReadSize' \in 0 .. Len(d.out) /\ reading' = None
        /\ result'.kind \in {"peek", "read"}
        /\ result'.kind = "peek" => lastReadSize' = 0 /\ result'.bytes = d.out
        /\ result'.kind = "read" => result'.bytes = SubSeq(d.out, 1, lastReadSize')
    <3> SUFFICES ASSUME NEW a, a = arrived
                 PROVE  /\ DecryptorOK(s, a, got') /\ got' \o s.out = got \o d.out
                        /\ lastReadSize' \in 0 .. Len(d.out) /\ reading' = None
                        /\ result'.kind \in {"peek", "read"}
                        /\ result'.kind = "peek" => lastReadSize' = 0 /\ result'.bytes = d.out
                        /\ result'.kind = "read" => result'.bytes = SubSeq(d.out, 1, lastReadSize')
        OBVIOUS
    <3> QED BY <1>3, <1>6, <1>8, <2>1, GivesOK
  <2>3. ReaderInv'
      BY <1>3, <1>6, <1>9, <2>2 DEF ReaderInv
  <2>4. CroutonInv'
    <3>1. /\ LinkOK(Enc, pushed, arrived', wire', faults, eof, c)
          /\ IsCiphertext(sealed, arrived', 0) /\ DecryptorOK(s, arrived', got')
        BY <1>3, <1>4, <2>2
    <3>2. /\ open' \/ reading' # None => x = dec'.in
          /\ result'.kind \notin {"eof", "DataError"}
        BY <1>6, <1>7, <2>2
    <3> QED BY <1>2, <1>4, <2>3, <3>1, <3>2, ReaderMoves
  <2> QED BY <1>6, <1>7, <1>8, <2>2, <2>4
<1>11. CASE d.out = <<>>
  <2>1. reading' = op /\ lastReadSize' = 0 /\ result' = Nothing /\ got' = got
      BY <1>4, <1>6, <1>7, <1>11 DEF Call
  <2>2. Kept(<<>>, 0) = <<>>
    <3>1. <<>> \in Seq(Nat)
        OBVIOUS
    <3> QED BY <3>1, KeptAll
  <2>3. s = d
    <3>1. d = [out |-> d.out, in |-> d.in, nonce |-> d.nonce, status |-> d.status]
        BY <1>3 DEF Decryptors
    <3> QED BY <1>8, <1>11, <2>1, <2>2, <3>1
  <2>4. Nothing.kind = "none" /\ Nothing.bytes = <<>>
      BY DEF Nothing
  <2>5. ReaderInv'
    <3>1. Len(d.out) = 0
        BY <1>11
    <3>2. lastReadSize' \in 0 .. Len(dec'.out)
        BY <1>6, <2>1, <3>1
    <3> QED BY <1>3, <1>6, <1>9, <1>11, <2>1, <2>4, <3>2 DEF ReaderInv
  <2>6. CroutonInv'
    <3>1. /\ LinkOK(Enc, pushed, arrived', wire', faults, eof, c)
          /\ IsCiphertext(sealed, arrived', 0) /\ DecryptorOK(s, arrived', got')
        BY <1>3, <1>4, <2>1, <2>3
    <3>2. /\ open' \/ reading' # None => x = dec'.in
          /\ result'.kind \notin {"eof", "DataError"}
        BY <1>6, <1>7, <2>1, <2>4
    <3> QED BY <1>2, <1>4, <2>5, <3>1, <3>2, ReaderMoves
  <2>7. got' \o Kept(dec'.out, lastReadSize') = got \o d.out
      BY <1>8, <2>1, <2>3
  <2> QED BY <1>6, <1>7, <2>6, <2>7
<1> QED BY <1>10, <1>11

(* Steps of the reader that leave the link alone. *)
LEMMA ReaderStays ==
    ASSUME CroutonInv, UNCHANGED <<link, writerOpen, lastWriteSize, lastReadSize>>,
           reading' \in {reading, None}, open' => open,
           \/ result' = result /\ reading' = reading
           \/ /\ reading' = None /\ result'.bytes = <<>>
              /\ (result'.kind = "InvalidState" /\ ~open') \/ result'.kind = "IOError"
    PROVE  CroutonInv'
<1>1. PICK x : CroutonHolds(x)
    BY DEF CroutonInv
<1> SUFFICES ASSUME NEW c, c = SentSoFar, NEW d, d = Seen(x)
             PROVE  CroutonInv'
    OBVIOUS
<1>2. Holding(c, d) /\ ReaderInv /\ WriterInv
    BY <1>1 DEF CroutonHolds, CroutonInv
<1>3. UNCHANGED <<protocol, sealed, pushed, enc, writing, wire, eof, dec, arrived, got, faults>>
    BY DEF link
<1>4. Holding(c, d)'
    BY <1>2, LinkStays DEF WriterInv
<1>5. c = SentSoFar' /\ d = Seen(x)' /\ WriterInv'
    BY <1>2, <1>3 DEF SentSoFar, Seen, WriterInv, WritingOK
<1>6. Holding(SentSoFar, Seen(x))'
    BY <1>4, <1>5
<1>7. ReaderInv'
    BY <1>2, <1>3 DEF ReaderInv
<1>8. CroutonHolds(x)'
    BY <1>1, <1>3, <1>6 DEF CroutonHolds
<1> QED BY <1>5, <1>7, <1>8 DEF CroutonInv


(* An exception for corrupt input leaves that input in the buffer. *)
LEMMA CorruptIsHeld ==
    ASSUME protocol = "Compact", NEW d, NEW a, NEW g, DecryptorOK(d, a, g), d.status = "CorruptData"
    PROVE  d.in # <<>>
<1>1. d.in \in Seq(Byte) /\ d.nonce \in Nat
    BY DEF DecryptorOK, Holds, Decryptors
<1>2. decrypt(d.in, Len(d.in), d.nonce).status = "CorruptData"
    BY DEF DecryptorOK, Stopped
<1>3. Len(d.in) < 2 => decrypt(d.in, Len(d.in), d.nonce).status = "IncompleteInput"
    BY <1>1, DecryptCompact
<1>4. d.in = <<>> => Len(d.in) < 2
    OBVIOUS
<1> QED BY <1>2, <1>3, <1>4

(* What a read below that got n bytes makes of the decryption stream. *)
LEMMA ReadsBelowOK ==
    ASSUME CroutonInv, NEW n \in Nat, ReadsBelow(n), NEW d, d = Decrypts(n),
           NEW c, c = SentSoFar
    PROVE  /\ LinkOK(Enc, pushed, arrived', wire', faults, eof, c) /\ DecryptorOK(d, arrived', got)
           /\ IsCiphertext(sealed, arrived', 0) /\ dec' = d
           /\ d.status \in {"IncompleteInput", "CorruptData"}
           /\ d.status = "CorruptData" => faults > 0 /\ d.in # <<>>
           /\ dec.status = "CorruptData" => d.out = dec.out /\ d.status = "CorruptData"
           /\ d.out \in Seq(Nat) /\ d.in \in Seq(Byte)
           /\ dec.out = <<>> /\ lastReadSize = 0 /\ Kept(dec.out, lastReadSize) = <<>>
           /\ reading \in Calls
<1>1. PICK x : CroutonHolds(x)
    BY DEF CroutonInv
<1>2. /\ reading # None /\ n <= Len(wire) /\ dec' = d
      /\ arrived' = arrived \o SubSeq(wire, 1, n) /\ wire' = SubSeq(wire, n + 1, Len(wire))
    BY DEF ReadsBelow, TakesOff
<1>3. /\ dec.out = <<>> /\ lastReadSize = 0 /\ x = dec.in /\ dec \in Decryptors /\ reading \in Calls
    BY <1>1, <1>2 DEF CroutonInv, ReaderInv, CroutonHolds
<1>4. Kept(dec.out, lastReadSize) = <<>>
  <2>1. <<>> \in Seq(Nat)
      OBVIOUS
  <2> QED BY <1>3, <2>1, KeptAll
<1>5. Seen(x) = dec
  <2>1. dec = [out |-> dec.out, in |-> dec.in, nonce |-> dec.nonce, status |-> dec.status]
      BY <1>3 DEF Decryptors
  <2> QED BY <1>3, <1>4, <2>1 DEF Seen
<1>6. Holding(c, dec)
    BY <1>1, <1>5 DEF CroutonHolds
<1>7. /\ protocol \in Protocols /\ LinkOK(Enc, pushed, arrived, wire, faults, eof, c)
      /\ DecryptorOK(dec, arrived, got) /\ wire \in Seq(Byte) /\ protocol = "Compact"
    BY <1>6, HoldingFacts DEF Holding
<1>8. n \in 0 .. Len(wire)
    BY <1>2, <1>7
<1>9. Enc.sealed = sealed
    BY DEF Enc
<1> DEFINE x1 == SubSeq(wire, 1, n)
           y1 == SubSeq(wire, n + 1, Len(wire))
<1>10. PushesNext(dec, wire, n, x1, y1, d)
    BY <1>8 DEF Decrypts, PushesNext
<1>11. arrived' = arrived \o x1 /\ wire' = y1
    BY <1>2
<1> HIDE DEF x1, y1
<1>12. /\ LinkOK(Enc, pushed, arrived \o x1, y1, faults, eof, c) /\ DecryptorOK(d, arrived \o x1, got)
       /\ IsCiphertext(sealed, arrived \o x1, 0)
       /\ d.status \in {"IncompleteInput", "CorruptData"}
       /\ d.status = "CorruptData" => faults > 0
       /\ dec.status = "CorruptData" => d.out = dec.out /\ d.status = "CorruptData"
    BY <1>7, <1>9, <1>10, ReadsOK
<1>13. d.status = "CorruptData" => d.in # <<>>
    BY <1>7, <1>12, CorruptIsHeld
<1>14. d.out \in Seq(Nat) /\ d.in \in Seq(Byte)
    BY <1>12 DEF DecryptorOK, Holds, Decryptors
<1> QED BY <1>2, <1>3, <1>4, <1>11, <1>12, <1>13, <1>14

(* The AWAIT of the stream below ends with n bytes. *)
LEMMA ReadsBelowStep ==
    ASSUME CroutonInv, NEW n \in Nat, ReadsBelow(n), NEW d, d = Decrypts(n)
    PROVE  CroutonInv' /\ got' \o Kept(dec'.out, lastReadSize') = got \o d.out
<1> SUFFICES ASSUME NEW c, c = SentSoFar, NEW x, x = d.in, NEW s, s = Seen(x)'
             PROVE  CroutonInv' /\ got' \o Kept(dec'.out, lastReadSize') = got \o d.out
    OBVIOUS
<1>1. /\ LinkOK(Enc, pushed, arrived', wire', faults, eof, c) /\ DecryptorOK(d, arrived', got)
      /\ IsCiphertext(sealed, arrived', 0) /\ dec' = d
      /\ d.status \in {"IncompleteInput", "CorruptData"}
      /\ d.status = "CorruptData" => d.in # <<>>
      /\ d.out \in Seq(Nat) /\ d.in \in Seq(Byte)
      /\ lastReadSize = 0 /\ reading \in Calls
    BY ReadsBelowOK
<1>2. UNCHANGED <<protocol, sealed, pushed, enc, writing, eof, faults, writerOpen, lastWriteSize>>
    BY DEF ReadsBelow
<1>3. d \in Decryptors
    BY <1>1 DEF DecryptorOK, Holds
<1>4. d = [out |-> d.out, in |-> d.in, nonce |-> d.nonce, status |-> d.status]
    BY <1>3 DEF Decryptors
<1>5. Without(s, d, lastReadSize') /\ s.out = Kept(dec'.out, lastReadSize')
    BY <1>1 DEF Seen, Without
<1>6. lastReadSize' = 0 => s = d
  <2> SUFFICES ASSUME lastReadSize' = 0 PROVE s = d
      OBVIOUS
  <2>1. Kept(d.out, 0) = d.out
      BY <1>1, KeptAll
  <2> QED BY <1>4, <1>5, <2>1 DEF Without
<1>7. reading # None /\ ReaderInv
    BY DEF ReadsBelow, CroutonInv
<1>8. CASE d.status = "CorruptData"
  <2>1. Fails("DataError")
      BY <1>1, <1>8 DEF ReadsBelow
  <2>2. /\ open' = FALSE /\ result' = Returned("DataError") /\ reading' = None
        /\ lastReadSize' = 0 /\ got' = got
      BY <1>1, <2>1 DEF Fails, CloseBegins
  <2>3. result'.kind = "DataError" /\ result'.bytes = <<>>
      BY <2>2 DEF Returned, Nothing
  <2>4. ReaderInv'
    <3>1. lastReadSize' \in 0 .. Len(dec'.out)
        BY <1>1, <2>2
    <3> QED BY <1>1, <1>3, <2>2, <2>3, <3>1 DEF ReaderInv
  <2>5. s = d /\ DecryptorOK(s, arrived', got')
      BY <1>1, <1>6, <2>2
  <2>6. CroutonInv'
      BY <1>1, <1>2, <1>8, <2>2, <2>3, <2>4, <2>5, ReaderMoves
  <2> QED BY <1>5, <2>2, <2>5, <2>6
<1>9. CASE d.status # "CorruptData" /\ d.out = <<>>
  <2>1. UNCHANGED <<reading, result, lastReadSize, got, open, rawClosed, closing>>
      BY <1>1, <1>9 DEF ReadsBelow
  <2>2. result = Nothing
      BY <1>7 DEF ReaderInv
  <2>3. result'.kind = "none" /\ result'.bytes = <<>>
      BY <2>1, <2>2 DEF Nothing
  <2>4. ReaderInv'
    <3>1. lastReadSize' \in 0 .. Len(dec'.out)
        BY <1>1, <2>1
    <3> QED BY <1>1, <1>3, <1>7, <1>9, <2>1, <2>2, <2>3, <3>1 DEF ReaderInv
  <2>5. s = d /\ DecryptorOK(s, arrived', got')
      BY <1>1, <1>6, <2>1
  <2>6. CroutonInv'
      BY <1>1, <1>2, <2>1, <2>3, <2>4, <2>5, ReaderMoves
  <2> QED BY <1>5, <2>1, <2>5, <2>6
<1>10. CASE d.status # "CorruptData" /\ d.out # <<>>
  <2>1. Gives(reading, d.out) /\ open' = open
      BY <1>1, <1>10 DEF ReadsBelow
  <2>2. /\ DecryptorOK(s, arrived', got') /\ got' \o s.out = got \o d.out
        /\ lastReadSize' \in 0 .. Len(d.out) /\ reading' = None
        /\ result'.kind \in {"peek", "read"}
        /\ result'.kind = "peek" => lastReadSize' = 0 /\ result'.bytes = d.out
        /\ result'.kind = "read" => result'.bytes = SubSeq(d.out, 1, lastReadSize')
    <3> SUFFICES ASSUME NEW a, a = arrived', NEW op \in Calls, Gives(op, d.out)
                 PROVE  /\ DecryptorOK(s, a, got') /\ got' \o s.out = got \o d.out
                        /\ lastReadSize' \in 0 .. Len(d.out) /\ reading' = None
                        /\ result'.kind \in {"peek", "read"}
                        /\ result'.kind = "peek" => lastReadSize' = 0 /\ result'.bytes = d.out
                        /\ result'.kind = "read" => result'.bytes = SubSeq(d.out, 1, lastReadSize')
        BY <1>1, <2>1
    <3> QED BY <1>1, <1>5, GivesOK
  <2>3. ReaderInv'
      BY <1>1, <1>3, <2>2 DEF ReaderInv
  <2>4. CroutonInv'
    <3>1. result'.kind \notin {"eof", "DataError"}
        BY <2>2
    <3> QED BY <1>1, <1>2, <2>2, <2>3, <3>1, ReaderMoves
  <2> QED BY <1>5, <2>2, <2>4
<1> QED BY <1>8, <1>9, <1>10

(* It ends with none. *)
LEMMA EndsBelowStep ==
    ASSUME CroutonInv, EndsBelow
    PROVE  /\ CroutonInv' /\ dec'.status = dec.status /\ dec'.out = dec.out
           /\ UNCHANGED <<pushed, faults, got, lastReadSize>>
<1>1. PICK x : CroutonHolds(x)
    BY DEF CroutonInv
<1> SUFFICES ASSUME NEW c, c = SentSoFar, NEW d, d = Seen(x), NEW s, s = Seen(x)'
             PROVE  /\ CroutonInv' /\ dec'.status = dec.status /\ dec'.out = dec.out
                    /\ UNCHANGED <<pushed, faults, got, lastReadSize>>
    OBVIOUS
<1>2. Holding(c, d) /\ ReaderInv /\ x \in Seq(Byte)
    BY <1>1 DEF CroutonHolds, CroutonInv
<1>3. /\ LinkOK(Enc, pushed, arrived, wire, faults, eof, c) /\ DecryptorOK(d, arrived, got)
      /\ IsCiphertext(sealed, arrived, 0)
    BY <1>2, HoldingFacts DEF Holding
<1>4. /\ reading # None /\ dec' = [dec EXCEPT !.in = <<>>] /\ reading' = None
      /\ UNCHANGED <<protocol, sealed, pushed, enc, writing, wire, eof, arrived, faults,
                     writerOpen, lastWriteSize, got, lastReadSize>>
      /\ dec.in # <<>> => open' = FALSE /\ result' = Returned("DataError")
      /\ dec.in = <<>> => result' = Returned("eof")
    BY DEF EndsBelow, Fails, CloseBegins
<1>5. x = dec.in /\ dec.out = <<>> /\ lastReadSize = 0 /\ dec \in Decryptors
    BY <1>1, <1>2, <1>4 DEF CroutonHolds, ReaderInv
<1>6. dec' = [out |-> dec.out, in |-> <<>>, nonce |-> dec.nonce, status |-> dec.status]
  <2>1. dec = [out |-> dec.out, in |-> dec.in, nonce |-> dec.nonce, status |-> dec.status]
      BY <1>5 DEF Decryptors
  <2> QED BY <1>4, <2>1
<1>7. dec'.out = dec.out /\ dec'.in = <<>> /\ dec'.nonce = dec.nonce /\ dec'.status = dec.status
    BY <1>6
<1>8. s = d
    BY <1>4, <1>7 DEF Seen
<1>9. s.out = <<>>
  <2>1. <<>> \in Seq(Nat)
      OBVIOUS
  <2>2. Kept(<<>>, 0) = <<>>
      BY <2>1, KeptAll
  <2> QED BY <1>5, <1>8, <2>2 DEF Seen
<1>10. dec' \in Decryptors
    BY <1>5, <1>6 DEF Decryptors
<1>11. /\ result'.bytes = <<>>
       /\ dec.in # <<>> => result'.kind = "DataError"
       /\ dec.in = <<>> => result'.kind = "eof"
    BY <1>4 DEF Returned, Nothing
<1>12. ReaderInv'
    BY <1>2, <1>4, <1>5, <1>7, <1>10, <1>11 DEF ReaderInv
<1>13. /\ LinkOK(Enc, pushed, arrived', wire', faults, eof, c)
       /\ IsCiphertext(sealed, arrived', 0) /\ DecryptorOK(s, arrived', got')
    BY <1>3, <1>4, <1>8
<1>14. /\ open' \/ reading' # None => x = dec'.in
       /\ result'.kind = "eof" => x = <<>> /\ s.out = <<>>
       /\ result'.kind = "DataError" => x # <<>>
    BY <1>4, <1>5, <1>7, <1>9, <1>11
<1>15. CroutonInv'
    BY <1>2, <1>4, <1>12, <1>13, <1>14, ReaderMoves
<1> QED BY <1>4, <1>7, <1>15


(* Every step keeps the invariant. *)
LEMMA CroutonStepInv == CroutonInv /\ [Next]_vars => CroutonInv'
<1> SUFFICES ASSUME CroutonInv, [Next]_vars PROVE CroutonInv'
    OBVIOUS
<1>1. CASE LinkNext /\ UNCHANGED <<writerOpen, lastWriteSize, readVars>>
    BY <1>1, CroutonLinkStep
<1>2. CASE \E sizes \in WriteSizes : Write(sizes)
    BY <1>2, CroutonWriteStep
<1>3. CASE WriteRefused \/ WriteEnds \/ WriterCloses
    BY <1>3, WriterOtherStep
<1>4. CASE \E op \in Calls : Call(op)
    BY <1>4, CallStep
<1>5. CASE \E n \in 1 .. Len(wire) : ReadsBelow(n)
  <2>1. PICK n \in 1 .. Len(wire) : ReadsBelow(n)
      BY <1>5
  <2>2. PICK x : CroutonHolds(x)
      BY DEF CroutonInv
  <2>3. wire \in Seq(Byte)
      BY <2>2, HoldingFacts DEF CroutonHolds
  <2>4. n \in Nat
      BY <2>3
  <2> QED BY <2>1, <2>4, ReadsBelowStep
<1>6. CASE EndsBelow
    BY <1>6, EndsBelowStep
<1>7. CASE CallRefused
  <2>1. /\ UNCHANGED <<link, writerOpen, lastWriteSize, lastReadSize>> /\ ~open /\ open' = open
        /\ reading' = None /\ result' = Returned("InvalidState")
      BY <1>7 DEF CallRefused
  <2>2. result'.kind = "InvalidState" /\ result'.bytes = <<>>
      BY <2>1 DEF Returned, Nothing
  <2> QED BY <2>1, <2>2, ReaderStays
<1>8. CASE FailsBelow
  <2>1. /\ UNCHANGED <<link, writerOpen, lastWriteSize, lastReadSize>> /\ open' = open
        /\ reading' = None /\ result' = Returned("IOError")
      BY <1>8 DEF FailsBelow
  <2>2. result'.kind = "IOError" /\ result'.bytes = <<>>
      BY <2>1 DEF Returned, Nothing
  <2> QED BY <2>1, <2>2, ReaderStays
<1>9. CASE Close \/ CloseEnds \/ UNCHANGED vars
  <2>1. /\ UNCHANGED <<link, writerOpen, lastWriteSize, lastReadSize>> /\ (open' => open)
        /\ result' = result /\ reading' = reading
      BY <1>9 DEF Close, CloseBegins, CloseEnds, vars, readVars
  <2> QED BY <2>1, ReaderStays
<1> QED BY <1>1, <1>2, <1>3, <1>4, <1>5, <1>6, <1>7, <1>8, <1>9 DEF Next

(* The inductive invariant: as WrappedInv, with what the writer has sent   *)
(* and not yet skipped, what the last read has returned and not yet        *)
(* skipped, and what close() has dropped of a message that was cut off.    *)
THEOREM CroutonInvariance == Spec => []CroutonInv
<1>1. Init => CroutonInv
    BY CroutonInitInv
<1>2. CroutonInv /\ [Next]_vars => CroutonInv'
    BY CroutonStepInv
<1> QED BY <1>1, <1>2, PTL DEF Spec

(* Reads of any sizes, mixed with peeks, give the bytes written, each once *)
(* and in order, and the bytes a read or peek returned stay at the front   *)
(* of the reader's buffer until the next call.                             *)
THEOREM CroutonReadsExactly == Spec => []ReadsExact
<1>1. CroutonInv => ReadsExact
  <2> SUFFICES ASSUME CroutonInv PROVE ReadsExact
      OBVIOUS
  <2>1. PICK x : CroutonHolds(x)
      BY DEF CroutonInv
  <2> DEFINE s == Seen(x)
  <2>2. Holding(SentSoFar, s) /\ ReaderInv
      BY <2>1 DEF CroutonHolds, CroutonInv
  <2>3. s.out = Kept(dec.out, lastReadSize)
      BY DEF Seen
  <2> HIDE DEF s
  <2>4. PICK k \in 0 .. Len(sealed) :
            /\ got \o s.out = [i \in 1 .. TotalIn(sealed, k) |-> i]
            /\ Len(got) \in Nat /\ Len(s.out) \in Nat
            /\ Len(got) + Len(s.out) = TotalIn(sealed, k) /\ TotalIn(sealed, k) \in Nat
            /\ CleartextSize(arrived) = TotalIn(sealed, k)
      BY <2>2, HoldingReceived
  <2>5. got \in Seq(Nat) /\ s.out \in Seq(Nat)
      BY <2>2, HoldingFacts DEF Decryptors
  <2> DEFINE T == TotalIn(sealed, k)
             g == got
             r == s.out
             w == [i \in 1 .. T |-> i]
  <2>6. /\ g \in Seq(Nat) /\ r \in Seq(Nat) /\ T \in Nat /\ Len(g) + Len(r) = T /\ g \o r = w
        /\ Len(g) \in Nat /\ Len(r) \in Nat
      BY <2>4, <2>5
  <2> HIDE DEF T, g, r
  <2>7. \A j \in 1 .. Len(g) : g[j] = j
    <3>1. ASSUME NEW j \in 1 .. Len(g) PROVE g[j] = j
      <4>1. (g \o r)[j] = g[j]
        <5>1. g \in Seq(Nat) /\ r \in Seq(Nat)
            BY <2>6
        <5> QED BY <5>1, ConcatFacts
      <4>2. w[j] = j
        <5>1. j \in 1 .. T
            BY <2>6
        <5> QED BY <5>1
      <4> HIDE DEF w
      <4> QED BY <2>6, <4>1, <4>2
    <3> QED BY <3>1
  <2>8. \A j \in 1 .. Len(r) : r[j] = Len(g) + j
    <3>1. ASSUME NEW j \in 1 .. Len(r) PROVE r[j] = Len(g) + j
      <4>1. (g \o r)[Len(g) + j] = r[j]
        <5>1. g \in Seq(Nat) /\ r \in Seq(Nat)
            BY <2>6
        <5> QED BY <5>1, ConcatFacts
      <4>2. w[Len(g) + j] = Len(g) + j
        <5>1. Len(g) + j \in 1 .. T
            BY <2>6
        <5> QED BY <5>1
      <4> HIDE DEF w
      <4> QED BY <2>6, <4>1, <4>2
    <3> QED BY <3>1
  <2>9. InOrder
    <3>1. g = [i \in 1 .. Len(g) |-> i]
        BY <2>6, <2>7
    <3>2. Len(g) <= T
        BY <2>6
    <3> QED BY <2>4, <3>1, <3>2 DEF InOrder, g, T
  <2>10. dec.out \in Seq(Nat) /\ Len(dec.out) \in Nat
      BY <2>2 DEF ReaderInv, Decryptors
  <2>11. result.kind = "peek" => result.bytes = [i \in DOMAIN result.bytes |-> Len(got) + i]
    <3> SUFFICES ASSUME result.kind = "peek"
                 PROVE  result.bytes = [i \in DOMAIN result.bytes |-> Len(got) + i]
        OBVIOUS
    <3>1. lastReadSize = 0 /\ result.bytes = dec.out
        BY <2>2 DEF ReaderInv
    <3>2. s.out = dec.out
        BY <2>3, <2>10, <3>1, KeptAll
    <3>3. r = [i \in DOMAIN r |-> Len(g) + i]
      <4>1. r \in Seq(Nat)
          BY <2>6
      <4>2. DOMAIN r = 1 .. Len(r) /\ r = [i \in 1 .. Len(r) |-> r[i]]
          BY <4>1
      <4> QED BY <2>8, <4>2
    <3> QED BY <3>1, <3>2, <3>3 DEF r, g
  <2>12. IsPrefix(result.bytes, dec.out)
    <3> DEFINE o == dec.out
               n == lastReadSize
    <3>1. o \in Seq(Nat) /\ n \in 0 .. Len(o) /\ Len(o) \in Nat
        BY <2>2, <2>10 DEF ReaderInv
    <3>2. \/ result.bytes = o \/ result.bytes = SubSeq(o, 1, n) \/ result.bytes = <<>>
        BY <2>2 DEF ReaderInv
    <3> HIDE DEF o, n
    <3>3. IsPrefix(o, o) /\ IsPrefix(<<>>, o)
        BY <3>1 DEF IsPrefix
    <3>4. IsPrefix(SubSeq(o, 1, n), o)
        BY <3>1 DEF IsPrefix
    <3> QED BY <3>2, <3>3, <3>4 DEF o
  <2> QED BY <2>9, <2>11, <2>12 DEF ReadsExact
<1> QED BY <1>1, CroutonInvariance, PTL

(* End of file is reported only after everything decrypted was read, and   *)
(* only between two messages or behind damage that reads as an empty       *)
(* message; DataError only for a message that arrived damaged or cut off.  *)
THEOREM CroutonEndsRight == Spec => []EndVerdict
<1>1. CroutonInv => EndVerdict
  <2> SUFFICES ASSUME CroutonInv PROVE EndVerdict
      OBVIOUS
  <2>1. PICK x : CroutonHolds(x)
      BY DEF CroutonInv
  <2> DEFINE s == Seen(x)
  <2>2. /\ Holding(SentSoFar, s) /\ x \in Seq(Byte)
        /\ result.kind = "eof" => x = <<>> /\ s.out = <<>>
        /\ result.kind = "DataError" => x # <<>>
        /\ s.in = x
      BY <2>1 DEF CroutonHolds, Seen
  <2> HIDE DEF s
  <2>3. PICK k \in 0 .. Len(sealed) :
            /\ Len(got) \in Nat /\ Len(s.out) \in Nat
            /\ Len(got) + Len(s.out) = TotalIn(sealed, k)
            /\ Whole(arrived) = Offset(sealed, k)
            /\ CleartextSize(arrived) = TotalIn(sealed, k)
            /\ Len(s.in) > 0 => Whole(arrived) # Len(arrived)
            /\ Len(s.in) = 0 => Whole(arrived) = Len(arrived) \/ ReadsEmpty(arrived)
      BY <2>2, HoldingReceived
  <2>4. Len(x) \in Nat /\ (x = <<>> <=> Len(x) = 0)
      BY <2>2
  <2>5. result.kind = "eof" => /\ Whole(arrived) = Len(arrived) \/ ReadsEmpty(arrived)
                               /\ Len(got) = CleartextSize(arrived)
    <3> SUFFICES ASSUME result.kind = "eof"
                 PROVE  /\ Whole(arrived) = Len(arrived) \/ ReadsEmpty(arrived)
                        /\ Len(got) = CleartextSize(arrived)
        OBVIOUS
    <3>1. Len(s.in) = 0 /\ Len(s.out) = 0
        BY <2>2
    <3> QED BY <2>3, <3>1
  <2>6. result.kind = "DataError" => Whole(arrived) # Len(arrived)
      BY <2>2, <2>3, <2>4
  <2> QED BY <2>5, <2>6 DEF EndVerdict
<1> QED BY <1>1, CroutonInvariance, PTL


(* A stream that has reported DataError, or that it is closed, never       *)
(* reports anything else: readNoCopy() and peekNoCopy() check _open first. *)
THEOREM CroutonErrorIsFinal == Spec => ErrorIsFinal
<1> DEFINE Errors == {"DataError", "InvalidState"}
<1>1. CroutonInv /\ [Next]_vars => (result.kind \in Errors => result'.kind \in Errors)
  <2> SUFFICES ASSUME CroutonInv, [Next]_vars, result.kind \in Errors PROVE result'.kind \in Errors
      OBVIOUS
  <2>1. ~open /\ reading = None
      BY DEF CroutonInv, ReaderInv
  <2>2. CASE CallRefused
      BY <2>2 DEF CallRefused, Returned, Nothing
  <2>3. CASE ~CallRefused
    <3>1. result' = result
      <4>1. CASE \/ LinkNext /\ UNCHANGED <<writerOpen, lastWriteSize, readVars>>
                 \/ UNCHANGED vars
          BY <4>1 DEF vars, readVars
      <4>2. CASE \/ \E sizes \in WriteSizes : Write(sizes)
                 \/ WriteRefused \/ WriteEnds \/ WriterCloses
          BY <4>2 DEF Write, WriteRefused, WriteEnds, WriterCloses, readVars
      <4>3. CASE Close \/ CloseEnds
          BY <4>3 DEF Close, CloseEnds
      <4>4. CASE \/ \E op \in Calls : Call(op)
                 \/ \E n \in 1 .. Len(wire) : ReadsBelow(n)
                 \/ EndsBelow \/ FailsBelow
          BY <2>1, <4>4 DEF Call, ReadsBelow, EndsBelow, FailsBelow
      <4> QED BY <2>3, <4>1, <4>2, <4>3, <4>4 DEF Next
    <3> QED BY <3>1
  <2> QED BY <2>2, <2>3
<1>2. CroutonInv /\ [Next]_vars => [result.kind \in Errors => result'.kind \in Errors]_vars
    BY <1>1
<1> QED BY <1>2, CroutonInvariance, PTL DEF Spec, ErrorIsFinal

(* What was read and what a next call can give are the first bytes of what *)
(* was pushed, ...                                                         *)
LEMMA CroutonPrefix == CroutonInv => HasPrefix(got \o Kept(dec.out, lastReadSize))
<1> SUFFICES ASSUME CroutonInv PROVE HasPrefix(got \o Kept(dec.out, lastReadSize))
    OBVIOUS
<1>1. PICK x : CroutonHolds(x)
    BY DEF CroutonInv
<1>2. Holding(SentSoFar, Seen(x)) /\ Seen(x).out = Kept(dec.out, lastReadSize)
    BY <1>1 DEF CroutonHolds, Seen
<1>3. HasPrefix(got \o Seen(x).out)
    BY <1>2, HoldingPrefix
<1> QED BY <1>2, <1>3

(* ... also after a step. *)
LEMMA CroutonPrefixNext == (CroutonInv => HasPrefix(got \o Kept(dec.out, lastReadSize)))'
    BY CroutonPrefix, PTL

(* Every step of the crouton streams is a step of the channel, or none. *)
LEMMA CroutonChannelStep == CroutonInv /\ [Next]_vars => [Channel!Next]_(Channel!vars)
<1> SUFFICES ASSUME CroutonInv, [Next]_vars PROVE [Channel!Next]_(Channel!vars)
    OBVIOUS
<1>0. pushed \in Nat /\ faults \in Nat /\ wire \in Seq(Byte) /\ got \in Seq(Nat)
  <2>1. PICK x : CroutonHolds(x)
      BY DEF CroutonInv
  <2> QED BY <2>1, HoldingFacts DEF CroutonHolds
<1>1. CASE LinkNext /\ UNCHANGED <<writerOpen, lastWriteSize, readVars>>
  <2>1. /\ faults' \in Nat /\ faults <= faults' /\ pushed' = pushed /\ dec' = dec /\ got' = got
        /\ lastReadSize' = lastReadSize
      BY <1>1, CroutonLinkStep
  <2>2. CASE faults' = faults
      BY <2>1, <2>2 DEF Channel!vars
  <2>3. CASE faults' # faults
    <3>1. (faults' > 0) = TRUE
        BY <1>0, <2>1, <2>3
    <3> QED BY <2>1, <3>1 DEF Channel!Next, Channel!Damage
  <2> QED BY <2>2, <2>3
<1>2. CASE \E sizes \in WriteSizes : Write(sizes)
  <2>1. PICK sizes \in WriteSizes : Write(sizes)
      BY <1>2
  <2>2. pushed' \in Nat /\ pushed <= pushed'
      BY <2>1, CroutonWriteStep
  <2>3. dec' = dec /\ got' = got /\ faults' = faults /\ lastReadSize' = lastReadSize
      BY <2>1 DEF Write, readVars
  <2>4. CASE pushed' = pushed
      BY <2>3, <2>4 DEF Channel!vars
  <2>5. CASE pushed' # pushed
    <3>1. pushed' > pushed
        BY <1>0, <2>2, <2>5
    <3> QED BY <2>3, <3>1 DEF Channel!Next, Channel!Write
  <2> QED BY <2>4, <2>5
<1>3. CASE \/ WriteRefused \/ WriteEnds \/ WriterCloses \/ CallRefused \/ FailsBelow
           \/ Close \/ CloseEnds \/ UNCHANGED vars
  <2>1. /\ pushed' = pushed /\ dec' = dec /\ got' = got /\ faults' = faults
        /\ lastReadSize' = lastReadSize
      BY <1>3 DEF WriteRefused, WriteEnds, WriterCloses, CallRefused, FailsBelow, Close, CloseEnds,
                  vars, readVars, link
  <2> QED BY <2>1 DEF Channel!vars
<1>4. CASE \E op \in Calls : Call(op)
  <2>1. PICK op \in Calls : Call(op)
      BY <1>4
  <2>2. /\ dec'.status = dec.status
        /\ got' \o Kept(dec'.out, lastReadSize') = got \o Kept(dec.out, lastReadSize)
      BY <2>1, CallStep
  <2>3. pushed' = pushed /\ faults' = faults
      BY <2>1 DEF Call
  <2> QED BY <2>2, <2>3 DEF Channel!vars
<1>5. CASE EndsBelow
  <2>1. /\ dec'.status = dec.status /\ dec'.out = dec.out /\ pushed' = pushed /\ faults' = faults
        /\ got' = got /\ lastReadSize' = lastReadSize
      BY <1>5, EndsBelowStep
  <2> QED BY <2>1 DEF Channel!vars
<1>6. CASE \E n \in 1 .. Len(wire) : ReadsBelow(n)
  <2>1. PICK n \in 1 .. Len(wire) : ReadsBelow(n)
      BY <1>6
  <2>2. n \in Nat
      BY <1>0
  <2> SUFFICES ASSUME NEW d, d = Decrypts(n), NEW c, c = SentSoFar
               PROVE  [Channel!Next]_(Channel!vars)
      OBVIOUS
  <2>3. /\ d.status = "CorruptData" => faults > 0
        /\ dec.status = "CorruptData" => d.out = dec.out /\ d.status = "CorruptData"
        /\ d.out \in Seq(Nat) /\ dec.out = <<>> /\ Kept(dec.out, lastReadSize) = <<>>
      BY <2>1, <2>2, ReadsBelowOK
  <2>4. dec' = d
      BY <2>1, <2>2, ReadsBelowOK
  <2>5. CroutonInv' /\ got' \o Kept(dec'.out, lastReadSize') = got \o d.out
      BY <2>1, <2>2, ReadsBelowStep
  <2>6. pushed' = pushed /\ faults' = faults
      BY <2>1 DEF ReadsBelow
  <2> DEFINE x == got \o Kept(dec.out, lastReadSize)
             y == got' \o Kept(dec'.out, lastReadSize')
  <2>7. CASE dec.status = "CorruptData"
    <3>1. d.out = <<>> /\ d.status = "CorruptData"
        BY <2>3, <2>7
    <3>2. y = x
        BY <2>3, <2>5, <3>1
    <3> QED BY <2>4, <2>6, <2>7, <3>1, <3>2 DEF Channel!vars
  <2>8. CASE dec.status # "CorruptData"
    <3>1. PICK T \in Nat : y = [i \in 1 .. T |-> i] /\ T <= pushed
        BY <2>5, <2>6, CroutonPrefixNext DEF HasPrefix
    <3>2. Len(x) \in Nat /\ Len(y) \in Nat /\ Len(x) <= Len(y)
      <4>1. Len(got) \in Nat /\ Len(d.out) \in Nat
          BY <1>0, <2>3
      <4>2. x = got
          BY <1>0, <2>3, EmptyFacts
      <4>3. y = got \o d.out
          BY <2>5
      <4>4. Len(got \o d.out) = Len(got) + Len(d.out)
          BY <1>0, <2>3, ConcatFacts
      <4> QED BY <4>1, <4>2, <4>3, <4>4
    <3>3. \E k \in Len(x) .. pushed : y = [i \in 1 .. k |-> i]
      <4> HIDE DEF x, y
      <4>1. Len(y) = T
          BY <3>1
      <4>2. T \in Len(x) .. pushed
          BY <1>0, <3>1, <3>2, <4>1
      <4> QED BY <3>1, <4>2
    <3>4. dec'.status = "CorruptData" => faults > 0
        BY <2>3, <2>4
    <3>5. Channel!Receive
        BY <2>6, <2>8, <3>3, <3>4 DEF Channel!Receive
    <3> QED BY <3>5 DEF Channel!Next
  <2> QED BY <2>7, <2>8
<1> QED BY <1>1, <1>2, <1>3, <1>4, <1>5, <1>6 DEF Next

(* They start as a channel does. *)
LEMMA CroutonChannelInit == Init => Channel!Init
<1> SUFFICES ASSUME Init PROVE Channel!Init
    OBVIOUS
<1>1. /\ got = <<>> /\ lastReadSize = 0 /\ dec.out = <<>> /\ dec.status = "IncompleteInput"
      /\ faults = 0 /\ pushed = 0
    BY DEF Init, LinkInit
<1>2. Kept(<<>>, 0) = <<>>
  <2>1. <<>> \in Seq(Nat)
      OBVIOUS
  <2> QED BY <2>1, KeptAll
<1>3. got \o Kept(dec.out, lastReadSize) = <<>>
    BY <1>1, <1>2
<1>4. ~(faults > 0)
    BY <1>1
<1> QED BY <1>1, <1>3, <1>4 DEF Channel!Init

(* write(), readNoCopy() and peekNoCopy() implement a ByteChannel. *)
THEOREM CroutonImplementsChannel == Spec => ImplementsChannel
<1>1. Init => Channel!Init
    BY CroutonChannelInit
<1>2. CroutonInv /\ [Next]_vars => [Channel!Next]_(Channel!vars)
    BY CroutonChannelStep
<1> QED BY <1>1, <1>2, CroutonInvariance, PTL DEF Spec, ImplementsChannel, Channel!Spec
============================================================================
