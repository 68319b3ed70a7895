------------------------ MODULE CryptoStreamsProofs --------------------------
(***************************************************************************)
(* What the operators of CryptoStreams do to the invariant of              *)
(* StreamInvariant, for bytes of any number of values, MACs of any size    *)
(* and streams of any length: the loop of pushPartial() keeps the          *)
(* encryption stream right, decrypt() succeeds for the next whole          *)
(* undamaged message and for damage that reads as an empty one, and the    *)
(* loop of push() decrypts exactly the whole undamaged messages that have  *)
(* arrived: a stream that took damage for empty messages opens nothing     *)
(* any more.                                                               *)
(***************************************************************************)
EXTENDS StreamInvariant, Integers, WellFoundedInduction, TLAPS

----------------------------------------------------------------------------
(* Induction.                                                              *)

(* A set of numbers that is not empty has a least element.  (The loops of  *)
(* the streams are proved about by induction over their turns.)            *)
LEMMA LeastNumber ==
    ASSUME NEW T \in SUBSET Nat, T # {}
    PROVE  \E x \in T : \A y \in T : x <= y
<1> DEFINE R == OpToRel(<, Nat)
<1>1. \A x, y \in Nat : <<x, y>> \in R <=> x < y
    BY DEF OpToRel
<1>2. IsWellFoundedOn(R, Nat)
    BY NatLessThanWellFounded
<1> HIDE DEF R
<1>3. PICK x \in T : \A y \in T : ~(<<y, x>> \in R)
    BY <1>2, WFMin
<1>4. ASSUME NEW y \in T PROVE x <= y
  <2>1. x \in Nat /\ y \in Nat
      OBVIOUS
  <2>2. ~(y < x)
      BY <1>1, <1>3, <2>1
  <2> QED BY <2>1, <2>2
<1> QED BY <1>4

(* A set that holds 0 and with every n below N also n + 1 holds 0 .. N. *)
LEMMA InductionUpTo ==
    ASSUME NEW N \in Nat, NEW G, 0 \in G, \A n \in 0 .. N - 1 : n \in G => n + 1 \in G
    PROVE  \A n \in 0 .. N : n \in G
<1> SUFFICES ASSUME NEW n \in 0 .. N, n \notin G PROVE FALSE
    OBVIOUS
<1> DEFINE T == {i \in 0 .. N : i \notin G}
<1>1. n \in T
    OBVIOUS
<1>2. T \in SUBSET Nat
    OBVIOUS
<1>3. PICK x \in T : \A y \in T : x <= y
    BY <1>1, <1>2, LeastNumber
<1>4. x # 0 /\ x \in 0 .. N /\ x \notin G
    OBVIOUS
<1>5. x - 1 \in 0 .. N - 1
    BY <1>4
<1>6. x - 1 \in G
  <2>1. SUFFICES ASSUME x - 1 \notin G PROVE FALSE
      OBVIOUS
  <2>2. x - 1 \in T
      BY <1>5, <2>1
  <2>3. x <= x - 1
      BY <1>3, <2>2
  <2> QED BY <1>4, <2>3
<1>7. (x - 1) + 1 \in G
    BY <1>5, <1>6
<1> QED BY <1>4, <1>7

----------------------------------------------------------------------------
(* Numbers.                                                                *)

(* Multiplication one step on. *)
LEMMA TimesStep ==
    ASSUME NEW m \in Nat, NEW c \in Nat
    PROVE  (m + 1) * c = m * c + c /\ m * c \in Nat
    OBVIOUS

(* writeUint16At() and readUint16At(): a number below Base * Base has two  *)
(* digits, and they determine it.                                          *)
LEMMA Digits ==
    ASSUME NEW B \in Nat \ {0}, NEW n \in 0 .. B * B - 1
    PROVE  /\ n \div B \in 0 .. B - 1 /\ n % B \in 0 .. B - 1
           /\ n = (n \div B) * B + (n % B)
<1>1. n \div B \in Nat /\ n % B \in 0 .. B - 1
    OBVIOUS
<1>2. n = (n \div B) * B + (n % B)
    OBVIOUS
<1>3. ASSUME n \div B >= B PROVE FALSE
  <2> DEFINE q == n \div B
  <2>1. q \in Nat /\ q >= B /\ q * B <= n /\ n < B * B
      BY <1>1, <1>2, <1>3
  <2> HIDE DEF q
  <2>2. q * B >= B * B
      BY <2>1
  <2> QED BY <2>1, <2>2
<1> QED BY <1>1, <1>2, <1>3

(* Two digits in a base determine each other's number: what readUint16At() *)
(* needs.                                                                  *)
LEMMA DigitsUnique ==
    ASSUME NEW B \in Nat \ {0}, NEW a \in Nat, NEW b \in 0 .. B - 1,
           NEW c \in Nat, NEW d \in 0 .. B - 1, a * B + b = c * B + d
    PROVE  a = c /\ b = d
<1>1. ~(a < c)
    OBVIOUS
<1>2. ~(c < a)
    OBVIOUS
<1> QED BY <1>1, <1>2

----------------------------------------------------------------------------
(* Where the messages stand.                                               *)

(* The code behaviour: both formats add a fixed number of bytes, at least  *)
(* the length and the MAC, to a message (encryptedSize).                   *)
LEMMA Overhead ==
    /\ encryptedSize(0) \in Nat /\ encryptedSize(0) >= 3
    /\ minPeekSize \in Nat /\ minPeekSize >= 2
    /\ PrefixSize \in Nat
    /\ \A n \in Nat : encryptedSize(n) \in Nat /\ encryptedSize(n) = encryptedSize(0) + n
    /\ protocol = "BoxStream" => minPeekSize = PrefixSize /\ encryptedSize(0) = PrefixSize
    /\ protocol # "BoxStream" => minPeekSize = 2
    BY BoxConstants DEF encryptedSize, minPeekSize, PrefixSize, HeaderSize

(* kMaxMessageSize is a number, and leaves room for some bytes. *)
LEMMA MaxSize ==
    kMaxMessageSize \in Nat /\ kMaxMessageSize >= 3
<1>1. Base \in Nat /\ Base >= 2
    BY BoxConstants
<1>2. Base * Base >= 4 /\ Base * Base \in Nat
    BY <1>1
<1> QED BY <1>2 DEF kMaxMessageSize

(* The cleartext of the first m messages has a length. *)
LEMMA TotalInNat ==
    ASSUME NEW s, SealedOK(s), NEW m \in 0 .. Len(s)
    PROVE  TotalIn(s, m) \in Nat
<1>1. CASE m = 0
    BY <1>1 DEF TotalIn
<1>2. CASE m # 0
  <2>1. m \in 1 .. Len(s) /\ s[m] \in Message /\ s \in Seq(Message)
      BY <1>2 DEF SealedOK
  <2>2. Len(s[m].data) \in 1 .. kMaxMessageSize /\ s[m].data \in Seq(Nat)
      BY <2>1 DEF SealedOK, Message
  <2>3. s[m].data[Len(s[m].data)] \in Nat
      BY <2>2, SMTT(60)
  <2> QED BY <1>2, <2>3 DEF TotalIn, Last
<1> QED BY <1>1, <1>2

(* One message more: its cleartext and its ciphertext. *)
LEMMA OffsetStep ==
    ASSUME NEW s, SealedOK(s), NEW m \in 1 .. Len(s)
    PROVE  /\ Len(s[m].data) \in 1 .. kMaxMessageSize
           /\ TotalIn(s, m) = TotalIn(s, m - 1) + Len(s[m].data)
           /\ Offset(s, m) = Offset(s, m - 1) + encryptedSize(Len(s[m].data))
<1> DEFINE n == Len(s[m].data)
<1>1. s \in Seq(Message) /\ Len(s) \in Nat
    BY DEF SealedOK
<1>2. n \in 1 .. kMaxMessageSize /\ n \in Nat /\ m - 1 \in 0 .. Len(s) /\ m # 0
    BY <1>1, MaxSize DEF SealedOK
<1>3. s[m].data[n] = TotalIn(s, m - 1) + n
    BY <1>1, <1>2, SMTT(60) DEF SealedOK
<1>4. TotalIn(s, m) = s[m].data[n]
    BY <1>2 DEF TotalIn, Last
<1>5. TotalIn(s, m - 1) \in Nat
    BY <1>2, TotalInNat
<1> HIDE DEF n
<1>6. m * encryptedSize(0) = (m - 1) * encryptedSize(0) + encryptedSize(0)
  <2>1. m - 1 \in Nat /\ encryptedSize(0) \in Nat /\ (m - 1) + 1 = m
      BY <1>1, Overhead
  <2> QED BY <2>1, TimesStep
<1>7. (m - 1) * encryptedSize(0) \in Nat
  <2>1. m - 1 \in Nat /\ encryptedSize(0) \in Nat
      BY <1>1, Overhead
  <2> QED BY <2>1, TimesStep
<1>8. encryptedSize(n) = encryptedSize(0) + n /\ encryptedSize(0) \in Nat
    BY <1>2, Overhead
<1>9. Offset(s, m) = m * encryptedSize(0) + TotalIn(s, m)
    BY DEF Offset
<1>10. Offset(s, m - 1) = (m - 1) * encryptedSize(0) + TotalIn(s, m - 1)
    BY DEF Offset
<1>11. Offset(s, m) = Offset(s, m - 1) + encryptedSize(n)
  <2> DEFINE p == (m - 1) * encryptedSize(0)
             c == encryptedSize(0)
             t == TotalIn(s, m - 1)
  <2>1. p \in Nat /\ c \in Nat /\ t \in Nat /\ n \in Nat
      BY <1>2, <1>5, <1>7, <1>8
  <2>2. /\ Offset(s, m) = (p + c) + (t + n) /\ Offset(s, m - 1) = p + t
        /\ encryptedSize(n) = c + n
      BY <1>3, <1>4, <1>6, <1>8, <1>9, <1>10
  <2> HIDE DEF p, c, t
  <2> QED BY <2>1, <2>2
<1> QED BY <1>2, <1>3, <1>4, <1>11 DEF n

(* So has their ciphertext, and it is no shorter. *)
LEMMA OffsetNat ==
    ASSUME NEW s, SealedOK(s), NEW m \in 0 .. Len(s)
    PROVE  Offset(s, m) \in Nat /\ Offset(s, m) >= TotalIn(s, m) /\ Offset(s, 0) = 0
<1>1. Len(s) \in Nat
    BY DEF SealedOK
<1>2. TotalIn(s, m) \in Nat
    BY TotalInNat
<1>3. m * encryptedSize(0) \in Nat
  <2>1. m \in Nat /\ encryptedSize(0) \in Nat
      BY <1>1, Overhead
  <2> QED BY <2>1, TimesStep
<1>4. 0 * encryptedSize(0) = 0
  <2>1. encryptedSize(0) \in Nat
      BY Overhead
  <2> QED BY <2>1
<1>5. Offset(s, 0) = 0
    BY <1>4 DEF Offset, TotalIn
<1>6. Offset(s, m) = m * encryptedSize(0) + TotalIn(s, m)
    BY DEF Offset
<1> QED
  <2> DEFINE p == m * encryptedSize(0)
  <2>1. p \in Nat /\ Offset(s, m) = p + TotalIn(s, m)
      BY <1>3, <1>6
  <2> HIDE DEF p
  <2> QED BY <2>1, <1>2, <1>5

(* Later messages stand behind earlier ones. *)
LEMMA OffsetMonotone ==
    ASSUME NEW s, SealedOK(s), NEW a \in 0 .. Len(s), NEW b \in 0 .. Len(s), a <= b
    PROVE  /\ TotalIn(s, a) <= TotalIn(s, b)
           /\ Offset(s, a) <= Offset(s, b)
           /\ a < b => Offset(s, a) < Offset(s, b)
<1> DEFINE P(n) == /\ TotalIn(s, a) <= TotalIn(s, a + n)
                   /\ Offset(s, a) <= Offset(s, a + n)
                   /\ n > 0 => Offset(s, a) < Offset(s, a + n)
           G == {n \in 0 .. Len(s) - a : P(n)}
<1>1. Len(s) \in Nat /\ Len(s) - a \in Nat
    BY DEF SealedOK
<1>2. P(0)
  <2>1. TotalIn(s, a) \in Nat /\ Offset(s, a) \in Nat
      BY TotalInNat, OffsetNat
  <2>2. a + 0 = a
      BY <1>1
  <2> QED BY <2>1, <2>2
<1>3. ASSUME NEW n \in 0 .. Len(s) - a - 1, P(n) PROVE P(n + 1)
  <2> DEFINE m == a + n + 1
  <2>1. m \in 1 .. Len(s) /\ m - 1 = a + n /\ a + (n + 1) = m /\ a + n \in 0 .. Len(s)
      BY <1>1
  <2>2. /\ Len(s[m].data) \in 1 .. kMaxMessageSize
        /\ TotalIn(s, m) = TotalIn(s, a + n) + Len(s[m].data)
        /\ Offset(s, m) = Offset(s, a + n) + encryptedSize(Len(s[m].data))
    <3>1. /\ Len(s[m].data) \in 1 .. kMaxMessageSize
          /\ TotalIn(s, m) = TotalIn(s, m - 1) + Len(s[m].data)
          /\ Offset(s, m) = Offset(s, m - 1) + encryptedSize(Len(s[m].data))
      <4> HIDE DEF m
      <4> QED BY <2>1, OffsetStep
    <3> QED BY <2>1, <3>1
  <2>3. /\ TotalIn(s, a) \in Nat /\ Offset(s, a) \in Nat
        /\ TotalIn(s, a + n) \in Nat /\ Offset(s, a + n) \in Nat
      BY <2>1, TotalInNat, OffsetNat
  <2> HIDE DEF m
  <2>4. /\ Len(s[m].data) \in Nat
        /\ encryptedSize(Len(s[m].data)) \in Nat /\ encryptedSize(Len(s[m].data)) > 0
    <3> DEFINE l == Len(s[m].data)
    <3>1. l \in Nat
        BY <2>2, MaxSize
    <3> HIDE DEF l
    <3>2. encryptedSize(l) = encryptedSize(0) + l /\ encryptedSize(0) \in Nat /\ encryptedSize(0) >= 3
        BY <3>1, Overhead
    <3>3. encryptedSize(l) \in Nat /\ encryptedSize(l) > 0
        BY <3>1, <3>2
    <3> QED BY <3>1, <3>3 DEF l
  <2>5. /\ TotalIn(s, a) <= TotalIn(s, m)
        /\ Offset(s, a) < Offset(s, m)
    <3>1. TotalIn(s, a) <= TotalIn(s, a + n) /\ Offset(s, a) <= Offset(s, a + n)
        BY <1>3
    <3> QED BY <2>2, <2>3, <2>4, <3>1, SMTT(60)
  <2>6. Offset(s, a) <= Offset(s, m)
    <3>1. m \in 0 .. Len(s)
        BY <2>1, <1>1
    <3>2. Offset(s, m) \in Nat
        BY <3>1, OffsetNat
    <3> QED BY <2>3, <2>5, <3>2
  <2> QED BY <2>1, <2>5, <2>6
<1>4. \A n \in 0 .. Len(s) - a : P(n)
  <2>1. 0 \in G
      BY <1>1, <1>2
  <2>2. \A n \in 0 .. Len(s) - a - 1 : n \in G => n + 1 \in G
    <3> TAKE n \in 0 .. Len(s) - a - 1
    <3> HAVE n \in G
    <3>1. P(n + 1)
        BY <1>3
    <3> HIDE DEF P
    <3> QED BY <1>1, <3>1
  <2> HIDE DEF G
  <2>3. \A n \in 0 .. Len(s) - a : n \in G
    <3> DEFINE N == Len(s) - a
    <3> HIDE DEF N
    <3> SUFFICES \A n \in 0 .. N : n \in G
        BY DEF N
    <3>1. N \in Nat /\ 0 \in G /\ \A n \in 0 .. N - 1 : n \in G => n + 1 \in G
        BY <1>1, <2>1, <2>2 DEF N
    <3> QED BY <3>1, InductionUpTo
  <2> QED BY <2>3 DEF G
<1>5. b - a \in 0 .. Len(s) - a /\ a + (b - a) = b
    BY <1>1
<1>6. P(b - a)
    BY <1>4, <1>5
<1> QED BY <1>5, <1>6

----------------------------------------------------------------------------
(* Sequences.                                                              *)

(* What a piece of a sequence is: its type, its length and its elements. *)
LEMMA SubSeqFacts ==
    ASSUME NEW S, NEW f \in Seq(S), NEW a \in 0 .. Len(f), NEW b \in a .. Len(f)
    PROVE  /\ SubSeq(f, a + 1, b) \in Seq(S) /\ Len(SubSeq(f, a + 1, b)) = b - a
           /\ \A j \in 1 .. b - a : SubSeq(f, a + 1, b)[j] = f[a + j]
    BY SMTT(60)

(* The same of two sequences joined. *)
LEMMA ConcatFacts ==
    ASSUME NEW S, NEW f \in Seq(S), NEW g \in Seq(S)
    PROVE  /\ f \o g \in Seq(S) /\ Len(f \o g) = Len(f) + Len(g)
           /\ \A j \in 1 .. Len(f) : (f \o g)[j] = f[j]
           /\ \A j \in 1 .. Len(g) : (f \o g)[Len(f) + j] = g[j]
    OBVIOUS

(* Sequences with the same elements are equal. *)
LEMMA SameElements ==
    ASSUME NEW S, NEW f \in Seq(S), NEW g \in Seq(S), Len(f) = Len(g),
           \A j \in 1 .. Len(f) : f[j] = g[j]
    PROVE  f = g
    OBVIOUS

(* The empty sequence, and joining it. *)
LEMMA EmptyFacts ==
    ASSUME NEW S, NEW f \in Seq(S)
    PROVE  /\ <<>> \in Seq(S) /\ Len(<<>>) = 0 /\ (f = <<>> <=> Len(f) = 0)
           /\ f \o <<>> = f /\ <<>> \o f = f
    OBVIOUS

(* Min of the community modules, for two numbers. *)
LEMMA MinOfTwo ==
    ASSUME NEW a \in Nat, NEW b \in Nat
    PROVE  Min({a, b}) = IF a < b THEN a ELSE b
    BY DEF Min

(* pull() and skip(): what is taken and what is kept are the two parts of  *)
(* the buffer, whatever is asked for.                                      *)
LEMMA TakenAndKept ==
    ASSUME NEW S, NEW f \in Seq(S), NEW n \in Nat
    PROVE  \E c \in 0 .. Len(f) :
              /\ Taken(f, n) = SubSeq(f, 1, c) /\ Kept(f, n) = SubSeq(f, c + 1, Len(f))
              /\ c = IF n < Len(f) THEN n ELSE Len(f)
<1> DEFINE c == IF n < Len(f) THEN n ELSE Len(f)
<1>1. Len(f) \in Nat
    OBVIOUS
<1>2. c \in 0 .. Len(f)
    BY <1>1
<1>3. Min({n, Len(f)}) = c
    BY <1>1, MinOfTwo
<1> HIDE DEF c
<1>4. Taken(f, n) = SubSeq(f, 1, c) /\ Kept(f, n) = SubSeq(f, c + 1, Len(f))
    BY <1>3 DEF Taken, Kept
<1> QED BY <1>2, <1>4 DEF c

----------------------------------------------------------------------------
(* The bytes of the ciphertext.                                            *)

(* A byte behind the first k messages belongs to a later one, and the next *)
(* bytes are those of message k + 1, in order.                             *)
LEMMA BytePlace ==
    ASSUME NEW s, SealedOK(s), NEW k \in 0 .. Len(s), NEW b, NEW j \in Nat \ {0},
           IsByte(s, b, Offset(s, k) + j)
    PROVE  /\ k < Len(s) /\ b.msg > k
           /\ j <= encryptedSize(Len(s[k + 1].data)) => b.msg = k + 1 /\ b.pos = j
<1> DEFINE m == b.msg
           p == b.pos
<1>1. /\ Len(s) \in Nat /\ m \in 1 .. Len(s) /\ m - 1 \in 0 .. Len(s) /\ m \in 0 .. Len(s)
      /\ p \in 1 .. encryptedSize(Len(s[m].data))
      /\ Offset(s, k) + j = Offset(s, m - 1) + p
    BY SMTT(60) DEF IsByte, SealedOK
<1> HIDE DEF m, p
<1>2. Offset(s, k) \in Nat /\ Offset(s, m - 1) \in Nat /\ Offset(s, m) \in Nat
    BY <1>1, OffsetNat
<1>3. Offset(s, m) = Offset(s, m - 1) + encryptedSize(Len(s[m].data))
    BY <1>1, OffsetStep
<1>4. p \in Nat /\ p >= 1 /\ encryptedSize(Len(s[m].data)) \in Nat
  <2> DEFINE l == Len(s[m].data)
  <2>1. l \in 1 .. kMaxMessageSize /\ l \in Nat
      BY <1>1, OffsetStep, MaxSize
  <2> HIDE DEF l
  <2>2. encryptedSize(l) \in Nat
      BY <2>1, Overhead
  <2> QED BY <1>1, <2>2 DEF l
<1>5. Offset(s, k) < Offset(s, m)
    BY <1>1, <1>2, <1>3, <1>4, SMTT(60)
<1>6. k < m
  <2>1. SUFFICES ASSUME m <= k PROVE FALSE
      BY <1>1
  <2>2. Offset(s, m) <= Offset(s, k)
      BY <1>1, <2>1, OffsetMonotone
  <2> QED BY <1>2, <1>5, <2>2
<1>7. k < Len(s)
    BY <1>1, <1>6
<1>8. ASSUME j <= encryptedSize(Len(s[k + 1].data)) PROVE m = k + 1 /\ p = j
  <2>1. k + 1 \in 1 .. Len(s) /\ (k + 1) - 1 = k /\ k + 1 \in 0 .. Len(s)
      BY <1>1, <1>7
  <2>2. Offset(s, k + 1) = Offset(s, k) + encryptedSize(Len(s[k + 1].data))
      BY <2>1, OffsetStep
  <2>3. encryptedSize(Len(s[k + 1].data)) \in Nat
    <3> DEFINE l == Len(s[k + 1].data)
    <3>1. l \in 1 .. kMaxMessageSize /\ l \in Nat
        BY <2>1, OffsetStep, MaxSize
    <3> HIDE DEF l
    <3>2. encryptedSize(l) \in Nat
        BY <3>1, Overhead
    <3> QED BY <3>2 DEF l
  <2>4. Offset(s, m - 1) < Offset(s, k + 1)
      BY <1>1, <1>2, <1>4, <1>8, <2>2, <2>3, SMTT(60)
  <2>5. m - 1 < k + 1
    <3>1. SUFFICES ASSUME k + 1 <= m - 1 PROVE FALSE
        BY <1>1
    <3>2. Offset(s, k + 1) <= Offset(s, m - 1)
        BY <1>1, <2>1, <3>1, OffsetMonotone
    <3>3. Offset(s, k + 1) \in Nat
        BY <2>1, OffsetNat
    <3> QED BY <1>2, <2>4, <3>2, <3>3
  <2>6. m = k + 1
      BY <1>1, <1>6, <2>5
  <2>7. m - 1 = k
      BY <2>1, <2>6
  <2>8. Offset(s, k) + j = Offset(s, k) + p
      BY <1>1, <2>7
  <2> QED BY <1>2, <1>4, <2>6, <2>8
<1> QED BY <1>6, <1>7, <1>8 DEF m, p

(* Sealing more messages moves none of the earlier ones. *)
LEMMA OffsetExtends ==
    ASSUME NEW s, NEW t, SealedOK(s), Extends(s, t), NEW m \in 0 .. Len(s)
    PROVE  TotalIn(t, m) = TotalIn(s, m) /\ Offset(t, m) = Offset(s, m)
<1>1. Len(s) \in Nat
    BY DEF SealedOK
<1>2. m # 0 => t[m] = s[m]
    BY <1>1 DEF Extends
<1>3. TotalIn(t, m) = TotalIn(s, m)
    BY <1>2 DEF TotalIn
<1> QED BY <1>3 DEF Offset

(* A byte of a message stays one, damaged or not, when more is encrypted. *)
LEMMA ByteExtends ==
    ASSUME NEW s, NEW t, SealedOK(s), SealedOK(t), Extends(s, t), NEW b, NEW i, IsByte(s, b, i)
    PROVE  IsByte(t, b, i) /\ (Undamaged(t, b) <=> Undamaged(s, b))
<1>1. /\ Len(s) \in Nat /\ Len(t) \in Nat /\ Len(s) <= Len(t)
      /\ b.msg \in 1 .. Len(s) /\ t[b.msg] = s[b.msg]
    BY DEF IsByte, SealedOK, Extends
<1>2. Offset(t, b.msg - 1) = Offset(s, b.msg - 1)
  <2>1. b.msg - 1 \in 0 .. Len(s)
      BY <1>1
  <2> QED BY <2>1, OffsetExtends
<1>3. b.msg \in 1 .. Len(t)
    BY <1>1
<1>4. IsByte(t, b, i)
    BY <1>1, <1>2, <1>3 DEF IsByte
<1> QED BY <1>1, <1>4 DEF Undamaged

(* And so does ciphertext. *)
LEMMA CiphertextExtends ==
    ASSUME NEW s, NEW t, SealedOK(s), SealedOK(t), Extends(s, t), NEW f, NEW i,
           IsCiphertext(s, f, i)
    PROVE  IsCiphertext(t, f, i) /\ (AllUndamaged(s, f) => AllUndamaged(t, f))
<1>1. f \in Seq(Byte) /\ \A j \in 1 .. Len(f) : IsByte(s, f[j], i + j)
    BY DEF IsCiphertext
<1>2. \A j \in 1 .. Len(f) :
         IsByte(t, f[j], i + j) /\ (Undamaged(t, f[j]) <=> Undamaged(s, f[j]))
    BY <1>1, ByteExtends
<1> QED BY <1>1, <1>2 DEF IsCiphertext, AllUndamaged

(* Ciphertext put together, and cut. *)
LEMMA CiphertextConcat ==
    ASSUME NEW s, NEW f, NEW g, NEW i \in Nat,
           IsCiphertext(s, f, i), IsCiphertext(s, g, i + Len(f))
    PROVE  /\ IsCiphertext(s, f \o g, i)
           /\ AllUndamaged(s, f \o g) <=> AllUndamaged(s, f) /\ AllUndamaged(s, g)
<1>1. f \in Seq(Byte) /\ g \in Seq(Byte) /\ Len(f) \in Nat /\ Len(g) \in Nat
    BY DEF IsCiphertext
<1>2. /\ f \o g \in Seq(Byte) /\ Len(f \o g) = Len(f) + Len(g)
      /\ \A j \in 1 .. Len(f) : (f \o g)[j] = f[j]
      /\ \A j \in 1 .. Len(g) : (f \o g)[Len(f) + j] = g[j]
    BY <1>1, ConcatFacts
<1> DEFINE h == f \o g
<1> HIDE DEF h
<1>3. ASSUME NEW j \in 1 .. Len(h) PROVE IsByte(s, h[j], i + j)
  <2>1. CASE j <= Len(f)
    <3>1. j \in 1 .. Len(f) /\ h[j] = f[j]
        BY <1>1, <1>2, <2>1 DEF h
    <3> QED BY <3>1 DEF IsCiphertext
  <2>2. CASE j > Len(f)
    <3>1. j - Len(f) \in 1 .. Len(g) /\ Len(f) + (j - Len(f)) = j
        BY <1>1, <1>2, <2>2 DEF h
    <3>2. h[j] = g[j - Len(f)]
        BY <1>2, <3>1 DEF h
    <3>3. IsByte(s, g[j - Len(f)], (i + Len(f)) + (j - Len(f)))
        BY <3>1 DEF IsCiphertext
    <3>4. (i + Len(f)) + (j - Len(f)) = i + j
        BY <1>1, <3>1
    <3> QED BY <3>2, <3>3, <3>4
  <2> QED BY <1>1, <1>2, <2>1, <2>2 DEF h
<1>4. IsCiphertext(s, f \o g, i)
    BY <1>2, <1>3 DEF h, IsCiphertext
<1>5. ASSUME AllUndamaged(s, h) PROVE AllUndamaged(s, f) /\ AllUndamaged(s, g)
  <2>1. \A j \in 1 .. Len(f) : Undamaged(s, f[j])
    <3> TAKE j \in 1 .. Len(f)
    <3>1. j \in 1 .. Len(h) /\ h[j] = f[j]
        BY <1>1, <1>2 DEF h
    <3> QED BY <1>5, <3>1 DEF AllUndamaged
  <2>2. \A j \in 1 .. Len(g) : Undamaged(s, g[j])
    <3> TAKE j \in 1 .. Len(g)
    <3>1. Len(f) + j \in 1 .. Len(h) /\ h[Len(f) + j] = g[j]
        BY <1>1, <1>2 DEF h
    <3> QED BY <1>5, <3>1 DEF AllUndamaged
  <2> QED BY <2>1, <2>2 DEF AllUndamaged
<1>6. ASSUME AllUndamaged(s, f), AllUndamaged(s, g) PROVE AllUndamaged(s, h)
  <2> SUFFICES ASSUME NEW j \in 1 .. Len(h) PROVE Undamaged(s, h[j])
      BY DEF AllUndamaged
  <2>1. CASE j <= Len(f)
    <3>1. j \in 1 .. Len(f) /\ h[j] = f[j]
        BY <1>1, <1>2, <2>1 DEF h
    <3> QED BY <1>6, <3>1 DEF AllUndamaged
  <2>2. CASE j > Len(f)
    <3>1. j - Len(f) \in 1 .. Len(g) /\ Len(f) + (j - Len(f)) = j
        BY <1>1, <1>2, <2>2 DEF h
    <3>2. h[j] = g[j - Len(f)]
        BY <1>2, <3>1 DEF h
    <3> QED BY <1>6, <3>1, <3>2 DEF AllUndamaged
  <2> QED BY <1>1, <1>2, <2>1, <2>2 DEF h
<1> QED BY <1>4, <1>5, <1>6 DEF h

(* A piece of ciphertext is ciphertext, from a later place on. *)
LEMMA CiphertextCut ==
    ASSUME NEW s, NEW f, NEW i \in Nat, IsCiphertext(s, f, i),
           NEW a \in 0 .. Len(f), NEW b \in a .. Len(f)
    PROVE  /\ IsCiphertext(s, SubSeq(f, a + 1, b), i + a)
           /\ AllUndamaged(s, f) => AllUndamaged(s, SubSeq(f, a + 1, b))
<1>1. f \in Seq(Byte) /\ Len(f) \in Nat
    BY DEF IsCiphertext
<1>2. /\ SubSeq(f, a + 1, b) \in Seq(Byte) /\ Len(SubSeq(f, a + 1, b)) = b - a
      /\ \A j \in 1 .. b - a : SubSeq(f, a + 1, b)[j] = f[a + j]
    BY <1>1, SubSeqFacts
<1> DEFINE h == SubSeq(f, a + 1, b)
<1> HIDE DEF h
<1>3. ASSUME NEW j \in 1 .. Len(h)
      PROVE  /\ IsByte(s, h[j], (i + a) + j)
             /\ AllUndamaged(s, f) => Undamaged(s, h[j])
  <2>1. a + j \in 1 .. Len(f) /\ h[j] = f[a + j] /\ i + (a + j) = (i + a) + j
      BY <1>1, <1>2, SMTT(60) DEF h
  <2>2. IsByte(s, f[a + j], i + (a + j))
      BY <2>1 DEF IsCiphertext
  <2> QED BY <2>1, <2>2 DEF AllUndamaged
<1> QED BY <1>2, <1>3 DEF h, IsCiphertext, AllUndamaged

----------------------------------------------------------------------------
(* EncryptionStream.                                                       *)

(* Every byte encrypt() makes fits a byte: the length bytes too. *)
LEMMA ByteOfFits ==
    ASSUME NEW m, NEW l \in 1 .. kMaxMessageSize, NEW i \in Nat \ {0}
    PROVE  ByteOf(m, l, i) \in Nat /\ ByteOf(m, l, i) < Base
<1>0. CipherByte(m, i) \in 0 .. Base - 1
    BY CipherConstants, BoxConstants DEF CipherByte
<1>1. Base \in Nat \ {0} /\ Base \in Nat /\ Base >= 2
    BY BoxConstants
<1>2. l \in 0 .. Base * Base - 1
    BY MaxSize DEF kMaxMessageSize
<1>3. l \div Base \in 0 .. Base - 1 /\ l % Base \in 0 .. Base - 1
    BY <1>1, <1>2, Digits
<1>4. CASE i <= 2
  <2>1. i = 1 \/ i = 2
      BY <1>4
  <2>2. writeUint16At(l)[i] \in 0 .. Base - 1
      BY <1>3, <2>1 DEF writeUint16At
  <2> QED BY <1>0, <1>1, <2>2 DEF ByteOf
<1>5. CASE ~(i <= 2)
    BY <1>0, <1>1, <1>5 DEF ByteOf
<1> QED BY <1>4, <1>5

(* One message more. *)
LEMMA SealedAppend ==
    ASSUME NEW s, SealedOK(s), NEW data \in Seq(Nat), Len(data) \in 1 .. kMaxMessageSize,
           \A j \in 1 .. Len(data) : data[j] = TotalIn(s, Len(s)) + j,
           NEW c, c = [data |-> data, nonce |-> NonceAfter(Len(s)),
                       headerNonce |-> NonceAfter(Len(s)) + 1]
    PROVE  /\ SealedOK(Append(s, c)) /\ Extends(s, Append(s, c))
           /\ Len(Append(s, c)) = Len(s) + 1 /\ Append(s, c)[Len(s) + 1] = c
           /\ TotalIn(Append(s, c), Len(s) + 1) = TotalIn(s, Len(s)) + Len(data)
           /\ Offset(Append(s, c), Len(s) + 1) = Offset(s, Len(s)) + encryptedSize(Len(data))
<1> DEFINE t == Append(s, c)
<1>1. s \in Seq(Message) /\ Len(s) \in Nat
    BY DEF SealedOK
<1>2. NonceAfter(Len(s)) \in Nat
    BY <1>1 DEF NonceAfter
<1>3. c \in Message
    BY <1>2 DEF Message
<1>4. /\ t \in Seq(Message) /\ Len(t) = Len(s) + 1 /\ t[Len(s) + 1] = c
      /\ \A m \in 1 .. Len(s) : t[m] = s[m]
    BY <1>1, <1>3
<1> HIDE DEF t
<1>5. Extends(s, t)
    BY <1>1, <1>4 DEF Extends
<1>6. \A m \in 0 .. Len(s) : TotalIn(t, m) = TotalIn(s, m) /\ Offset(t, m) = Offset(s, m)
    BY <1>5, OffsetExtends
<1>7. SealedOK(t)
  <2> SUFFICES ASSUME NEW m \in 1 .. Len(t)
               PROVE  /\ Len(t[m].data) \in 1 .. kMaxMessageSize
                      /\ \A j \in 1 .. Len(t[m].data) : t[m].data[j] = TotalIn(t, m - 1) + j
                      /\ t[m].nonce = NonceAfter(m - 1)
                      /\ t[m].headerNonce = NonceAfter(m - 1) + 1
      BY <1>4 DEF SealedOK
  <2>1. m - 1 \in 0 .. Len(s) /\ TotalIn(t, m - 1) = TotalIn(s, m - 1)
      BY <1>1, <1>4, <1>6
  <2>2. CASE m \in 1 .. Len(s)
      BY <1>4, <2>1, <2>2, SMTT(60) DEF SealedOK
  <2>3. CASE m = Len(s) + 1
    <3>1. t[m] = c /\ m - 1 = Len(s)
        BY <1>1, <1>4, <2>3
    <3> QED BY <2>1, <3>1
  <2> QED BY <1>1, <1>4, <2>2, <2>3
<1>8. /\ TotalIn(t, Len(s) + 1) = TotalIn(t, (Len(s) + 1) - 1) + Len(data)
      /\ Offset(t, Len(s) + 1) = Offset(t, (Len(s) + 1) - 1) + encryptedSize(Len(data))
  <2>1. Len(s) + 1 \in 1 .. Len(t) /\ t[Len(s) + 1].data = data
      BY <1>1, <1>4
  <2> QED BY <1>7, <2>1, OffsetStep
<1>9. (Len(s) + 1) - 1 = Len(s) /\ Len(s) \in 0 .. Len(s)
    BY <1>1
<1> QED BY <1>4, <1>5, <1>6, <1>7, <1>8, <1>9 DEF t

(* flush() seals what waits as one message, and puts its ciphertext behind *)
(* the rest.                                                               *)
LEMMA FlushedOK ==
    ASSUME NEW e, NEW n, EncryptorOK(e, n)
    PROVE  /\ EncryptorOK(Flushed(e), n) /\ Flushed(e).in = <<>>
           /\ Extends(e.sealed, Flushed(e).sealed) /\ SentBefore(Flushed(e)) = SentBefore(e)
<1> DEFINE s == e.sealed
           l == Len(e.in)
           c == encrypt(e.in, e.nonce, Len(e.sealed) + 1)
           t == Append(s, c.sealed)
           f == Flushed(e)
<1>1. /\ e \in [out : Seq(Byte), in : Seq(Nat), nonce : Nat, sealed : Seq(Message)]
      /\ SealedOK(s) /\ e.nonce = NonceAfter(Len(s))
      /\ l <= kMaxMessageSize /\ n = TotalIn(s, Len(s)) + l
      /\ \A j \in 1 .. l : e.in[j] = TotalIn(s, Len(s)) + j
      /\ SentBefore(e) \in Nat
      /\ IsCiphertext(s, e.out, SentBefore(e)) /\ AllUndamaged(s, e.out)
    BY DEF EncryptorOK
<1>2. /\ e.out \in Seq(Byte) /\ e.in \in Seq(Nat) /\ s \in Seq(Message)
      /\ l \in Nat /\ Len(s) \in Nat /\ Len(e.out) \in Nat /\ Len(s) \in 0 .. Len(s)
    BY <1>1
<1>3. CASE e.in = <<>>
  <2>1. Flushed(e) = e
      BY <1>3 DEF Flushed
  <2>2. Extends(s, s)
      BY <1>2 DEF Extends
  <2> QED BY <1>3, <2>1, <2>2
<1>4. CASE e.in # <<>>
  <2>1. l \in 1 .. kMaxMessageSize
      BY <1>1, <1>2, <1>4, MaxSize
  <2>2. /\ c.sealed = [data |-> e.in, nonce |-> NonceAfter(Len(s)),
                       headerNonce |-> NonceAfter(Len(s)) + 1]
        /\ c.nonce = NonceAfter(Len(s) + 1)
        /\ c.bytes = [i \in 1 .. encryptedSize(l) |->
                         [msg |-> Len(s) + 1, pos |-> i, val |-> ByteOf(Len(s) + 1, l, i)]]
    <3>1. NonceAfter(Len(s) + 1) = IF protocol = "BoxStream" THEN e.nonce + 2 ELSE e.nonce + 1
        BY <1>1, <1>2 DEF NonceAfter
    <3> QED BY <1>1, <3>1 DEF encrypt
  <2>3. f = [out |-> e.out \o c.bytes, in |-> <<>>, nonce |-> c.nonce, sealed |-> t]
      BY <1>4 DEF Flushed
  <2> HIDE DEF c
  <2>4. /\ SealedOK(t) /\ Extends(s, t) /\ Len(t) = Len(s) + 1 /\ t[Len(s) + 1] = c.sealed
        /\ TotalIn(t, Len(s) + 1) = TotalIn(s, Len(s)) + l
        /\ Offset(t, Len(s) + 1) = Offset(s, Len(s)) + encryptedSize(l)
      BY <1>1, <1>2, <2>1, <2>2, SealedAppend, SMTT(60)
  <2> HIDE DEF t, f
  <2>5. encryptedSize(l) \in Nat
    <3> HIDE DEF l
    <3> QED BY <1>2, Overhead
  <2>6. IsCiphertext(t, c.bytes, Offset(s, Len(s))) /\ AllUndamaged(t, c.bytes)
    <3>1. ASSUME NEW i \in 1 .. encryptedSize(l)
          PROVE  /\ c.bytes[i] = [msg |-> Len(s) + 1, pos |-> i, val |-> ByteOf(Len(s) + 1, l, i)]
                 /\ c.bytes[i] \in Byte /\ c.bytes[i].val < Base
      <4>1. i \in Nat \ {0}
          BY <2>5
      <4>2. ByteOf(Len(s) + 1, l, i) \in Nat /\ ByteOf(Len(s) + 1, l, i) < Base
          BY <2>1, <4>1, ByteOfFits
      <4>3. c.bytes[i] = [msg |-> Len(s) + 1, pos |-> i, val |-> ByteOf(Len(s) + 1, l, i)]
          BY <2>2
      <4> QED BY <1>2, <4>1, <4>2, <4>3 DEF Byte
    <3>2. c.bytes \in Seq(Byte) /\ Len(c.bytes) = encryptedSize(l)
      <4>1. c.bytes \in [1 .. encryptedSize(l) -> Byte]
          BY <2>2, <3>1
      <4> QED BY <2>5, <4>1
    <3>3. ASSUME NEW i \in 1 .. Len(c.bytes)
          PROVE  IsByte(t, c.bytes[i], Offset(s, Len(s)) + i) /\ Undamaged(t, c.bytes[i])
      <4> DEFINE b == c.bytes[i]
      <4>0. i \in 1 .. encryptedSize(l)
          BY <3>2
      <4>1. /\ b.msg = Len(s) + 1 /\ b.pos = i /\ b.val = ByteOf(Len(s) + 1, l, i)
            /\ b \in Byte /\ b.val < Base /\ i \in 1 .. encryptedSize(l)
        <5>1. b = [msg |-> Len(s) + 1, pos |-> i, val |-> ByteOf(Len(s) + 1, l, i)] /\ b \in Byte /\ b.val < Base
            BY <3>1, <4>0
        <5> HIDE DEF b
        <5> QED BY <4>0, <5>1
      <4> HIDE DEF b
      <4>2. Len(t[b.msg].data) = l
          BY <2>2, <2>4, <4>1
      <4>3. b.msg \in 1 .. Len(t) /\ b.msg - 1 = Len(s)
          BY <1>2, <2>4, <4>1
      <4>4. Offset(t, Len(s)) = Offset(s, Len(s))
          BY <1>1, <1>2, <2>4, OffsetExtends
      <4>5. IsByte(t, b, Offset(s, Len(s)) + i)
          BY <4>1, <4>2, <4>3, <4>4 DEF IsByte
      <4>6. Undamaged(t, b)
          BY <4>1, <4>2 DEF Undamaged
      <4> QED BY <4>5, <4>6 DEF b
    <3> QED BY <3>2, <3>3 DEF IsCiphertext, AllUndamaged
  <2>7. IsCiphertext(t, e.out, SentBefore(e)) /\ AllUndamaged(t, e.out)
      BY <1>1, <2>4, CiphertextExtends
  <2>8. SentBefore(e) + Len(e.out) = Offset(s, Len(s)) /\ Offset(s, Len(s)) \in Nat
    <3>1. Offset(s, Len(s)) \in Nat
        BY <1>1, <1>2, OffsetNat
    <3> QED BY <1>2, <3>1 DEF SentBefore
  <2>9. /\ IsCiphertext(t, e.out \o c.bytes, SentBefore(e))
        /\ AllUndamaged(t, e.out \o c.bytes)
      BY <1>1, <2>6, <2>7, <2>8, CiphertextConcat, SMTT(60)
  <2>10. Len(c.bytes) = encryptedSize(l) /\ c.bytes \in Seq(Byte)
    <3>1. DOMAIN c.bytes = 1 .. encryptedSize(l) /\ c.bytes \in Seq(Byte)
        BY <2>2, <2>6 DEF IsCiphertext
    <3> QED BY <2>5, <3>1
  <2>11. Len(e.out \o c.bytes) = Len(e.out) + encryptedSize(l) /\ e.out \o c.bytes \in Seq(Byte)
    <3> DEFINE g == c.bytes
    <3>1. g \in Seq(Byte) /\ Len(g) = encryptedSize(l)
        BY <2>10
    <3> HIDE DEF g
    <3>2. Len(e.out \o g) = Len(e.out) + Len(g) /\ e.out \o g \in Seq(Byte)
        BY <1>2, <3>1, ConcatFacts, ZenonT(60)
    <3> QED BY <3>1, <3>2 DEF g
  <2>12. SentBefore(f) = SentBefore(e)
    <3>1. SentBefore(f) = Offset(t, Len(t)) - Len(e.out \o c.bytes)
        BY <2>3 DEF SentBefore
    <3>2. SentBefore(e) = Offset(s, Len(s)) - Len(e.out)
        BY DEF SentBefore
    <3> QED BY <1>2, <2>4, <2>5, <2>8, <2>11, <3>1, <3>2
  <2>13. NonceAfter(Len(s) + 1) \in Nat
      BY <1>2 DEF NonceAfter
  <2>14. f \in [out : Seq(Byte), in : Seq(Nat), nonce : Nat, sealed : Seq(Message)]
    <3>1. t \in Seq(Message)
        BY <2>4 DEF SealedOK
    <3> QED BY <2>2, <2>3, <2>11, <2>13, <3>1
  <2>15. n = TotalIn(t, Len(t)) + Len(f.in) /\ Len(f.in) = 0 /\ f.in = <<>>
    <3>1. TotalIn(s, Len(s)) \in Nat
        BY <1>1, <1>2, TotalInNat
    <3> QED BY <1>1, <1>2, <2>3, <2>4, <3>1
  <2>16. /\ f.sealed = t /\ f.out = e.out \o c.bytes /\ f.nonce = NonceAfter(Len(t))
      BY <2>2, <2>3, <2>4
  <2>17. EncryptorOK(f, n)
      BY <1>1, <2>4, <2>9, <2>12, <2>14, <2>15, <2>16, MaxSize DEF EncryptorOK
  <2> QED BY <2>4, <2>12, <2>15, <2>16, <2>17 DEF f
<1> QED BY <1>3, <1>4

(* Cleartext put behind what waits. *)
LEMMA BufferedOK ==
    ASSUME NEW e, NEW n \in Nat, EncryptorOK(e, n), NEW p \in Seq(Nat),
           \A j \in 1 .. Len(p) : p[j] = n + j, Len(e.in) + Len(p) <= kMaxMessageSize,
           NEW f \in [out : Seq(Byte), in : Seq(Nat), nonce : Nat, sealed : Seq(Message)],
           f.in = e.in \o p, f.out = e.out, f.nonce = e.nonce, f.sealed = e.sealed
    PROVE  EncryptorOK(f, n + Len(p)) /\ SentBefore(f) = SentBefore(e)
<1> DEFINE t == TotalIn(e.sealed, Len(e.sealed))
<1>1. /\ e \in [out : Seq(Byte), in : Seq(Nat), nonce : Nat, sealed : Seq(Message)]
      /\ n = t + Len(e.in) /\ \A j \in 1 .. Len(e.in) : e.in[j] = t + j
      /\ SealedOK(e.sealed)
    BY DEF EncryptorOK
<1>2. /\ f \in [out : Seq(Byte), in : Seq(Nat), nonce : Nat, sealed : Seq(Message)]
      /\ f.in = e.in \o p /\ f.out = e.out /\ f.nonce = e.nonce /\ f.sealed = e.sealed
    OBVIOUS
<1>3. t \in Nat
  <2>1. Len(e.sealed) \in 0 .. Len(e.sealed)
      BY <1>1
  <2> QED BY <1>1, <2>1, TotalInNat
<1> DEFINE q == e.in
<1> HIDE DEF t, q
<1>4. /\ q \in Seq(Nat) /\ Len(q) \in Nat /\ Len(p) \in Nat
      /\ n = t + Len(q) /\ \A j \in 1 .. Len(q) : q[j] = t + j
    BY <1>1 DEF q
<1>5. /\ Len(q \o p) = Len(q) + Len(p)
      /\ \A j \in 1 .. Len(q) : (q \o p)[j] = q[j]
      /\ \A j \in 1 .. Len(p) : (q \o p)[Len(q) + j] = p[j]
    BY <1>4, ConcatFacts
<1>6. n + Len(p) = t + Len(q \o p)
    BY <1>3, <1>4, <1>5
<1>7. ASSUME NEW j \in 1 .. Len(q \o p) PROVE (q \o p)[j] = t + j
  <2>1. CASE j <= Len(q)
    <3>1. j \in 1 .. Len(q)
        BY <1>4, <1>5, <2>1
    <3> QED BY <1>4, <1>5, <3>1
  <2>2. CASE j > Len(q)
    <3>1. j - Len(q) \in 1 .. Len(p) /\ Len(q) + (j - Len(q)) = j
        BY <1>4, <1>5, <2>2
    <3>2. (q \o p)[j] = n + (j - Len(q))
        BY <1>5, <3>1
    <3> QED BY <1>3, <1>4, <3>1, <3>2
  <2> QED BY <1>4, <1>5, <2>1, <2>2, SMTT(60)
<1>8. SentBefore(f) = SentBefore(e)
    BY <1>2 DEF SentBefore
<1>9. EncryptorOK(f, n + Len(p))
    BY <1>2, <1>5, <1>6, <1>7, <1>8 DEF EncryptorOK, t, q
<1> QED BY <1>8, <1>9

(* The loop of pushPartial() under way: the rest are the bytes up to N. *)
Filling(s, N) ==
    /\ s.rest \in Seq(Nat) /\ EncryptorOK(s.e, N - Len(s.rest))
    /\ \A j \in 1 .. Len(s.rest) : s.rest[j] = (N - Len(s.rest)) + j

(* A turn of it keeps the stream right and leaves it room for a byte. *)
LEMMA FilledOK ==
    ASSUME NEW s, NEW N \in Nat, Filling(s, N), s.rest # <<>>, NEW t, t = Filled(s)
    PROVE  /\ Filling(t, N) /\ Extends(s.e.sealed, t.e.sealed)
           /\ SentBefore(t.e) = SentBefore(s.e)
           /\ t.rest # <<>> => t.e.in = <<>>
           /\ Len(t.rest) <= Len(s.rest)
           /\ s.e.in = <<>> => Len(t.rest) < Len(s.rest)
<1> DEFINE r == s.rest
           chunk == Min({Len(r), Room(s.e)})
           p == SubSeq(r, 1, chunk)
           rest == SubSeq(r, chunk + 1, Len(r))
           e == [s.e EXCEPT !.in = @ \o p]
           n == N - Len(r)
<1>1. /\ r \in Seq(Nat) /\ Len(r) \in Nat /\ Len(r) # 0 /\ EncryptorOK(s.e, n)
      /\ \A j \in 1 .. Len(r) : r[j] = n + j
  <2>1. r \in Seq(Nat) /\ EncryptorOK(s.e, n) /\ \A j \in 1 .. Len(r) : r[j] = n + j
      BY DEF Filling
  <2>2. r # <<>>
      OBVIOUS
  <2> HIDE DEF r, n
  <2> QED BY <2>1, <2>2, EmptyFacts
<1>2. /\ s.e.in \in Seq(Nat) /\ Len(s.e.in) \in Nat /\ Len(s.e.in) <= kMaxMessageSize
      /\ n \in Nat /\ SealedOK(s.e.sealed) /\ s.e.sealed \in Seq(Message)
  <2>1. /\ s.e \in [out : Seq(Byte), in : Seq(Nat), nonce : Nat, sealed : Seq(Message)]
        /\ n = TotalIn(s.e.sealed, Len(s.e.sealed)) + Len(s.e.in)
        /\ Len(s.e.in) <= kMaxMessageSize /\ SealedOK(s.e.sealed)
      BY <1>1 DEF EncryptorOK
  <2>2. Len(s.e.sealed) \in 0 .. Len(s.e.sealed)
      BY <2>1
  <2>3. TotalIn(s.e.sealed, Len(s.e.sealed)) \in Nat
      BY <2>1, <2>2, TotalInNat
  <2> HIDE DEF n
  <2> QED BY <2>1, <2>3, SMTT(60)
<1>3. Room(s.e) \in Nat /\ Room(s.e) = kMaxMessageSize - Len(s.e.in)
    BY <1>2, MaxSize DEF Room
<1>4. /\ chunk \in 0 .. Len(r) /\ chunk <= Room(s.e)
      /\ chunk = Len(r) \/ chunk = Room(s.e)
  <2>1. chunk = IF Len(r) < Room(s.e) THEN Len(r) ELSE Room(s.e)
      BY <1>1, <1>3, MinOfTwo
  <2> HIDE DEF chunk, r
  <2> QED BY <1>1, <1>3, <2>1
<1> HIDE DEF chunk
<1>5. /\ p \in Seq(Nat) /\ Len(p) = chunk /\ \A j \in 1 .. chunk : p[j] = n + j
  <2>1. /\ p \in Seq(Nat) /\ Len(p) = chunk /\ \A j \in 1 .. chunk : p[j] = r[0 + j]
    <3>1. 0 \in 0 .. Len(r) /\ chunk \in 0 .. Len(r) /\ 0 + 1 = 1 /\ chunk - 0 = chunk
        BY <1>1, <1>4
    <3> QED BY <1>1, <3>1, SubSeqFacts, SMTT(60)
  <2> HIDE DEF p, r, n
  <2> QED BY <1>1, <1>4, <2>1, SMTT(60)
<1>6. /\ rest \in Seq(Nat) /\ Len(rest) = Len(r) - chunk
      /\ \A j \in 1 .. Len(rest) : rest[j] = (n + chunk) + j
  <2>1. /\ rest \in Seq(Nat) /\ Len(rest) = Len(r) - chunk
        /\ \A j \in 1 .. Len(r) - chunk : rest[j] = r[chunk + j]
    <3>1. Len(r) \in chunk .. Len(r)
        BY <1>1, <1>4
    <3> QED BY <1>1, <1>4, <3>1, SubSeqFacts, SMTT(60)
  <2> HIDE DEF rest, r, n
  <2>2. ASSUME NEW j \in 1 .. Len(rest) PROVE rest[j] = (n + chunk) + j
    <3>1. j \in 1 .. Len(r) - chunk /\ chunk + j \in 1 .. Len(r) /\ j \in Nat
        BY <1>1, <1>4, <2>1
    <3>2. rest[j] = n + (chunk + j)
        BY <1>1, <2>1, <3>1
    <3> QED BY <1>2, <1>4, <3>1, <3>2
  <2> QED BY <2>1, <2>2
<1>7. /\ EncryptorOK(e, n + chunk) /\ e.sealed = s.e.sealed /\ e.in = s.e.in \o p
      /\ SentBefore(e) = SentBefore(s.e)
  <2>1. Len(s.e.in) + Len(p) <= kMaxMessageSize
    <3> HIDE DEF p
    <3> QED BY <1>2, <1>3, <1>4, <1>5, MaxSize
  <2>2. \A j \in 1 .. Len(p) : p[j] = n + j
      BY <1>5
  <2> DEFINE w == s.e
             ip == w.in \o p
  <2>3. /\ e = [w EXCEPT !.in = ip] /\ EncryptorOK(w, n) /\ p \in Seq(Nat)
        /\ Len(w.in) + Len(p) <= kMaxMessageSize /\ w.in \in Seq(Nat)
      BY <1>1, <1>2, <1>5, <2>1
  <2>4. ip \in Seq(Nat)
      BY <2>3, ConcatFacts
  <2> HIDE DEF p, n, e, w, ip
  <2>5. w \in [out : Seq(Byte), in : Seq(Nat), nonce : Nat, sealed : Seq(Message)]
      BY <2>3 DEF EncryptorOK
  <2>6. /\ e \in [out : Seq(Byte), in : Seq(Nat), nonce : Nat, sealed : Seq(Message)]
        /\ e.in = ip /\ e.out = w.out /\ e.nonce = w.nonce /\ e.sealed = w.sealed
      BY <2>3, <2>4, <2>5
  <2>7. EncryptorOK(e, n + Len(p)) /\ SentBefore(e) = SentBefore(w)
    <3>1. e.in = w.in \o p
        BY <2>6 DEF ip
    <3> HIDE DEF n
    <3>2. n \in Nat /\ EncryptorOK(w, n) /\ p \in Seq(Nat) /\ Len(w.in) + Len(p) <= kMaxMessageSize
        BY <1>2, <2>3
    <3>3. /\ e \in [out : Seq(Byte), in : Seq(Nat), nonce : Nat, sealed : Seq(Message)]
          /\ e.out = w.out /\ e.nonce = w.nonce /\ e.sealed = w.sealed
        BY <2>6
    <3> HIDE DEF r, rest
    <3> QED BY <2>2, <3>1, <3>2, <3>3, BufferedOK, ZenonT(60)
  <2> QED BY <1>5, <2>6, <2>7 DEF w, ip
<1>8. t = [e |-> IF rest = <<>> THEN e ELSE Flushed(e), rest |-> rest]
    BY DEF Filled, chunk
<1>9. N - Len(rest) = n + chunk
  <2> HIDE DEF rest, r
  <2> QED BY <1>1, <1>4, <1>6
<1>10. /\ EncryptorOK(t.e, n + chunk) /\ Extends(s.e.sealed, t.e.sealed)
       /\ SentBefore(t.e) = SentBefore(s.e)
       /\ t.rest # <<>> => t.e.in = <<>>
  <2> HIDE DEF rest, e, n
  <2>1. CASE rest = <<>>
    <3>1. t.e = e /\ t.rest = <<>>
        BY <1>8, <2>1
    <3>2. Extends(s.e.sealed, s.e.sealed)
        BY <1>2 DEF Extends
    <3> QED BY <1>7, <3>1, <3>2
  <2>2. CASE rest # <<>>
    <3>1. t.e = Flushed(e)
        BY <1>8, <2>2
    <3> QED BY <1>7, <3>1, FlushedOK
  <2> QED BY <2>1, <2>2
<1>11. t.rest = rest
  <2> HIDE DEF rest, e
  <2> QED BY <1>8
<1>12. Filling(t, N)
  <2> HIDE DEF rest, n
  <2> QED BY <1>6, <1>9, <1>10, <1>11 DEF Filling
<1>13. Len(rest) <= Len(r)
  <2> HIDE DEF rest, r
  <2> QED BY <1>1, <1>4, <1>6
<1>14. ASSUME s.e.in = <<>> PROVE Len(rest) < Len(r)
  <2>1. Room(s.e) > 0
      BY <1>3, <1>14, MaxSize
  <2> HIDE DEF rest, r
  <2> QED BY <1>1, <1>3, <1>4, <1>6, <2>1, SMTT(60)
<1> HIDE DEF rest, n, e
<1> QED BY <1>10, <1>11, <1>12, <1>13, <1>14

(* The recursive function behind pushPartial() exists, and so conforms to  *)
(* its definition.                                                         *)
LEMMA FillingsExist ==
    ASSUME NEW x, NEW N \in Nat
    PROVE  \E g : g = [n \in 0 .. N |-> IF n = 0 THEN x ELSE Filled(g[n - 1])]
<1> DEFINE F(n, g) == [i \in 0 .. n |-> IF i = 0 THEN x ELSE Filled(g[i - 1])]
           G == {n \in 0 .. N : \E g : g = F(n, g)}
<1>1. 0 \in G
  <2> DEFINE g0 == [i \in 0 .. 0 |-> x]
  <2>1. g0 = F(0, g0) /\ 0 \in 0 .. N
      OBVIOUS
  <2> HIDE DEF g0, F
  <2> QED BY <2>1
<1>2. ASSUME NEW n \in 0 .. N - 1, n \in G PROVE n + 1 \in G
  <2>1. PICK g : g = F(n, g)
      BY <1>2
  <2> DEFINE h == [i \in 0 .. n + 1 |-> IF i = n + 1 THEN Filled(g[n]) ELSE g[i]]
  <2>2. \A i \in 0 .. n : h[i] = g[i]
      OBVIOUS
  <2>3. \A i \in 0 .. n : g[i] = IF i = 0 THEN x ELSE Filled(g[i - 1])
    <3> HIDE DEF h
    <3> QED BY <2>1
  <2>4. ASSUME NEW i \in 0 .. n + 1 PROVE h[i] = IF i = 0 THEN x ELSE Filled(h[i - 1])
    <3>1. CASE i = n + 1
      <4>1. h[i] = Filled(g[n]) /\ h[i - 1] = g[n]
          BY <2>2, <3>1
      <4> HIDE DEF h
      <4> QED BY <3>1, <4>1
    <3>2. CASE i # n + 1
      <4>1. i \in 0 .. n
          BY <3>2
      <4>2. i # 0 => h[i - 1] = g[i - 1]
          BY <2>2, <4>1
      <4> HIDE DEF h
      <4> QED BY <2>2, <2>3, <4>1, <4>2
    <3> QED BY <3>1, <3>2
  <2>5. h = [i \in 0 .. n + 1 |-> h[i]]
      OBVIOUS
  <2>6. h = F(n + 1, h)
    <3> HIDE DEF h
    <3> QED BY <2>4, <2>5
  <2>7. n + 1 \in 0 .. N
      OBVIOUS
  <2> HIDE DEF h, F
  <2> QED BY <2>6, <2>7
<1> HIDE DEF G
<1>3. N \in G
  <2>1. \A n \in 0 .. N : n \in G
      BY <1>1, <1>2, InductionUpTo
  <2> QED BY <2>1
<1> QED BY <1>3 DEF G

(* The turns of pushPartial()'s loop follow one another. *)
LEMMA FillingsRec ==
    ASSUME NEW e, NEW data, Len(data) \in Nat
    PROVE  /\ Fillings(e, data)[0] = [e |-> e, rest |-> data]
           /\ \A n \in 0 .. Len(data) : Fillings(e, data)[n + 1] = Filled(Fillings(e, data)[n])
<1> DEFINE x == [e |-> e, rest |-> data]
           N == Len(data) + 1
           f == Fillings(e, data)
<1>1. f = CHOOSE g : g = [n \in 0 .. N |-> IF n = 0 THEN x ELSE Filled(g[n - 1])]
    BY DEF Fillings
<1>2. N \in Nat
    OBVIOUS
<1> HIDE DEF x, N, f
<1>3. \E g : g = [n \in 0 .. N |-> IF n = 0 THEN x ELSE Filled(g[n - 1])]
    BY <1>2, FillingsExist, ZenonT(60)
<1>4. f = [n \in 0 .. N |-> IF n = 0 THEN x ELSE Filled(f[n - 1])]
    BY <1>1, <1>3
<1>5. ASSUME NEW n \in 0 .. N PROVE f[n] = IF n = 0 THEN x ELSE Filled(f[n - 1])
    BY <1>4
<1>6. f[0] = x
    BY <1>2, <1>5
<1>7. ASSUME NEW n \in 0 .. Len(data) PROVE f[n + 1] = Filled(f[n])
  <2>1. n + 1 \in 0 .. N /\ n + 1 # 0 /\ (n + 1) - 1 = n
      BY DEF N
  <2> QED BY <1>5, <2>1
<1> QED BY <1>6, <1>7 DEF f, x

(* pushPartial(), of any amount of data: the stream afterwards is right    *)
(* for all of it, every message sealed on the way has a length that fits,  *)
(* and the ciphertext made follows on what was there.                      *)
LEMMA PushedPartialOK ==
    ASSUME NEW e, NEW n \in Nat, EncryptorOK(e, n),
           NEW data \in Seq(Nat), \A j \in 1 .. Len(data) : data[j] = n + j
    PROVE  LET f == PushedPartial(e, data)
           IN  /\ EncryptorOK(f, n + Len(data))
               /\ Extends(e.sealed, f.sealed) /\ SentBefore(f) = SentBefore(e)
<1> DEFINE L == Len(data)
           N == n + L
           t == Fillings(e, data)
           P(i) == /\ Filling(t[i], N) /\ Extends(e.sealed, t[i].e.sealed)
                   /\ SentBefore(t[i].e) = SentBefore(e)
                   /\ i > 0 /\ t[i].rest # <<>> =>
                         t[i].e.in = <<>> /\ Len(t[i].rest) <= L - (i - 1)
                   /\ Len(t[i].rest) <= L
           G == {i \in 0 .. L + 1 : P(i)}
<1>1. L \in Nat /\ N \in Nat /\ N - L = n
    OBVIOUS
<1>2. t[0] = [e |-> e, rest |-> data] /\ \A i \in 0 .. L : t[i + 1] = Filled(t[i])
    BY FillingsRec
<1> HIDE DEF t
<1>3. e.sealed \in Seq(Message)
    BY DEF EncryptorOK
<1>4. P(0)
  <2>1. t[0].e = e /\ t[0].rest = data
      BY <1>2
  <2>2. Filling(t[0], N)
    <3> HIDE DEF L, N
    <3>1. Len(data) = L
        BY DEF L
    <3> QED BY <1>1, <2>1, <3>1 DEF Filling
  <2>3. Extends(e.sealed, e.sealed)
      BY <1>3 DEF Extends
  <2> QED BY <1>1, <2>1, <2>2, <2>3
<1>5. ASSUME NEW i \in 0 .. L, P(i) PROVE P(i + 1)
  <2> DEFINE a == t[i]
             b == t[i + 1]
  <2>1. b = Filled(a)
      BY <1>2
  <2>2. /\ Filling(a, N) /\ Extends(e.sealed, a.e.sealed) /\ SentBefore(a.e) = SentBefore(e)
        /\ Len(a.rest) <= L
      BY <1>5
  <2>3. i > 0 /\ a.rest # <<>> => a.e.in = <<>> /\ Len(a.rest) <= L - (i - 1)
      BY <1>5
  <2> HIDE DEF a, b
  <2>4. a.rest \in Seq(Nat) /\ Len(a.rest) \in Nat /\ i \in Nat /\ i + 1 > 0 /\ (i + 1) - 1 = i
      BY <1>1, <2>2 DEF Filling
  <2>5. CASE a.rest = <<>>
    <3>1. b = a
        BY <2>1, <2>5 DEF Filled
    <3> QED BY <2>2, <2>5, <3>1 DEF a, b
  <2>6. CASE a.rest # <<>>
    <3>1. /\ Filling(b, N) /\ Extends(a.e.sealed, b.e.sealed)
          /\ SentBefore(b.e) = SentBefore(a.e)
          /\ b.rest # <<>> => b.e.in = <<>>
          /\ Len(b.rest) <= Len(a.rest)
          /\ a.e.in = <<>> => Len(b.rest) < Len(a.rest)
      <4> HIDE DEF N
      <4> QED BY <1>1, <2>1, <2>2, <2>6, FilledOK
    <3>2. b.rest \in Seq(Nat) /\ Len(b.rest) \in Nat /\ Len(a.rest) # 0
        BY <2>4, <2>6, <3>1 DEF Filling
    <3>3. Extends(e.sealed, b.e.sealed)
      <4>1. Len(e.sealed) \in Nat /\ Len(a.e.sealed) \in Nat /\ Len(b.e.sealed) \in Nat
        <5>1. a.e.sealed \in Seq(Message) /\ b.e.sealed \in Seq(Message)
            BY <2>2, <3>1 DEF Filling, EncryptorOK
        <5> QED BY <1>3, <5>1
      <4> QED BY <2>2, <3>1, <4>1, SMTT(60) DEF Extends
    <3>4. SentBefore(b.e) = SentBefore(e) /\ Len(b.rest) <= L
        BY <1>1, <2>2, <2>4, <3>1, <3>2
    <3>5. ASSUME b.rest # <<>> PROVE b.e.in = <<>> /\ Len(b.rest) <= L - i
      <4>1. CASE i = 0
          BY <1>1, <3>1, <3>4, <3>5, <4>1
      <4>2. CASE i # 0
        <5>1. a.e.in = <<>> /\ Len(a.rest) <= L - (i - 1)
            BY <2>3, <2>4, <2>6, <4>2
        <5>2. Len(b.rest) < Len(a.rest)
            BY <3>1, <5>1
        <5> HIDE DEF L
        <5> QED BY <1>1, <2>4, <3>1, <3>2, <3>5, <5>1, <5>2, SMTT(60)
      <4> QED BY <4>1, <4>2
    <3> QED BY <2>4, <3>1, <3>3, <3>4, <3>5 DEF b
  <2> QED BY <2>5, <2>6
<1>6. P(L + 1)
  <2>1. 0 \in G
      BY <1>1, <1>4
  <2>2. ASSUME NEW i \in 0 .. (L + 1) - 1, i \in G PROVE i + 1 \in G
    <3>1. i \in 0 .. L /\ i + 1 \in 0 .. L + 1 /\ P(i)
        BY <1>1, <2>2
    <3>2. P(i + 1)
        BY <1>5, <3>1
    <3> HIDE DEF P
    <3> QED BY <3>1, <3>2
  <2> HIDE DEF G
  <2>3. L + 1 \in G
    <3>1. L + 1 \in Nat /\ L + 1 \in 0 .. L + 1
        BY <1>1
    <3>2. \A i \in 0 .. L + 1 : i \in G
        BY <2>1, <2>2, <3>1, InductionUpTo
    <3> QED BY <3>1, <3>2
  <2> HIDE DEF P
  <2> QED BY <2>3 DEF G
<1> DEFINE z == t[L + 1]
<1>7. z.rest = <<>> /\ Filling(z, N) /\ Extends(e.sealed, z.e.sealed) /\ SentBefore(z.e) = SentBefore(e)
  <2>1. /\ Filling(z, N) /\ Extends(e.sealed, z.e.sealed) /\ SentBefore(z.e) = SentBefore(e)
        /\ z.rest # <<>> => Len(z.rest) <= L - ((L + 1) - 1)
      BY <1>1, <1>6
  <2> HIDE DEF z, L, N
  <2>2. z.rest \in Seq(Nat) /\ L - ((L + 1) - 1) = 0
      BY <1>1, <2>1 DEF Filling
  <2> QED BY <2>1, <2>2, EmptyFacts
<1>8. EncryptorOK(z.e, N)
  <2>1. Len(z.rest) = 0 /\ N - 0 = N
      BY <1>1, <1>7
  <2> HIDE DEF z, N
  <2> QED BY <1>7, <2>1 DEF Filling
<1>9. PushedPartial(e, data) = z.e
    BY DEF PushedPartial, t
<1> HIDE DEF z
<1> QED BY <1>7, <1>8, <1>9

----------------------------------------------------------------------------
(* DecryptoBox.                                                            *)

(* decrypt() in the two formats.  An output buffer of the size of the      *)
(* input is never too small.                                               *)
LEMMA DecryptCompact ==
    ASSUME protocol = "Compact", NEW in \in Seq(Byte), NEW nonce \in Nat,
           NEW L, L = readUint16At(in), NEW d, d = decrypt(in, Len(in), nonce),
           Len(in) >= 2 => Len(sealed[in[1].msg].data) \in Nat
    PROVE  /\ Len(in) < 2 => d.status = "IncompleteInput"
           /\ Len(in) >= 2 =>
                 /\ L \in Nat /\ encryptedSize(L) \in Nat /\ encryptedSize(L) >= 3
                 /\ Len(in) < encryptedSize(L) => d.status = "IncompleteInput"
                 /\ Len(in) >= encryptedSize(L) /\ ~Opens(in, encryptedSize(L), nonce) =>
                       IF L = 0 THEN d = [status |-> "Success", data |-> <<>>,
                                          used |-> encryptedSize(0), nonce |-> nonce + 1]
                       ELSE d.status = "CorruptData"
                 /\ Len(in) >= encryptedSize(L) /\ Opens(in, encryptedSize(L), nonce) =>
                       d = [status |-> "Success", data |-> sealed[in[1].msg].data,
                            used |-> encryptedSize(L), nonce |-> nonce + 1]
<1>1. Len(in) \in Nat
    OBVIOUS
<1>2. minPeekSize = 2
    BY DEF minPeekSize
<1>3. CASE Len(in) < 2
  <2>1. peek(in, nonce).status = "IncompleteInput"
      BY <1>2, <1>3 DEF peek
  <2>2. d.status = "IncompleteInput"
      BY <2>1 DEF decrypt
  <2> QED BY <1>1, <1>3, <2>2
<1>4. CASE Len(in) >= 2
  <2>1. in[1] \in Byte /\ in[2] \in Byte
      BY <1>4
  <2>2. in[1].val \in Nat /\ in[2].val \in Nat /\ Base \in Nat
      BY <2>1, BoxConstants DEF Byte
  <2>3. in[1].val * Base \in Nat
      BY <2>2, TimesStep
  <2>4. L \in Nat
      BY <2>2, <2>3, SMTT(60) DEF readUint16At
  <2>5. encryptedSize(L) \in Nat /\ encryptedSize(L) = encryptedSize(0) + L /\ encryptedSize(0) >= 3
        /\ encryptedSize(0) \in Nat
      BY <2>4, Overhead
  <2>6. peek(in, nonce) = [status |-> "Success", decryptedSize |-> L,
                           encryptedSize |-> encryptedSize(L)]
      BY <1>1, <1>2, <1>4 DEF peek
  <2>7. Complete(in, peek(in, nonce)) <=> Len(in) >= encryptedSize(L)
      BY <2>6 DEF Complete
  <2>8. CASE Len(in) < encryptedSize(L)
    <3>1. d.status = "IncompleteInput"
        BY <1>1, <2>5, <2>6, <2>7, <2>8 DEF decrypt
    <3> QED BY <1>1, <1>4, <2>4, <2>5, <2>8, <3>1
  <2>9. CASE Len(in) >= encryptedSize(L)
    <3>1. ~(Len(in) < L)
        BY <1>1, <2>4, <2>5, <2>9
    <3>4. /\ NextNonce(nonce) = nonce + 1
          /\ Refuses(in, peek(in, nonce), nonce) <=> Len(Unboxed(in, encryptedSize(L), nonce)) # L
        BY <2>6 DEF NextNonce, Refuses
    <3>2. CASE ~Opens(in, encryptedSize(L), nonce)
      <4>1. Unboxed(in, encryptedSize(L), nonce) = <<>> /\ Len(<<>>) = 0
          BY <3>2 DEF Unboxed
      <4>2. CASE L = 0
        <5>1. ~Refuses(in, peek(in, nonce), nonce)
            BY <3>4, <4>1, <4>2
        <5>2. d = [status |-> "Success", data |-> <<>>,
                   used |-> encryptedSize(L), nonce |-> nonce + 1]
            BY <2>6, <2>7, <2>9, <3>1, <3>4, <4>1, <5>1 DEF decrypt
        <5> QED BY <1>1, <1>4, <2>4, <2>5, <2>9, <3>2, <4>2, <5>2
      <4>3. CASE L # 0
        <5>1. Refuses(in, peek(in, nonce), nonce)
            BY <3>4, <4>1, <4>3
        <5>2. d.status = "CorruptData"
            BY <2>6, <2>7, <2>9, <3>1, <5>1 DEF decrypt
        <5> QED BY <1>1, <1>4, <2>4, <2>5, <2>9, <3>2, <4>3, <5>2
      <4> QED BY <4>2, <4>3
    <3>3. CASE Opens(in, encryptedSize(L), nonce)
      <4> DEFINE x == sealed[in[1].msg].data
      <4>1. Unboxed(in, encryptedSize(L), nonce) = x
          BY <3>3 DEF Unboxed
      <4>2. encryptedSize(L) = encryptedSize(Len(x)) /\ Len(x) \in Nat
          BY <1>4, <3>3 DEF Opens
      <4> HIDE DEF x
      <4>3. Len(x) = L
        <5>1. \A n \in Nat : encryptedSize(n) = encryptedSize(0) + n
            BY Overhead
        <5> QED BY <2>4, <2>5, <4>2, <5>1, SMTT(60)
      <4>4. ~Refuses(in, peek(in, nonce), nonce)
          BY <3>4, <4>1, <4>3
      <4>5. d = [status |-> "Success", data |-> x,
                 used |-> encryptedSize(L), nonce |-> nonce + 1]
          BY <2>6, <2>7, <2>9, <3>1, <3>4, <4>1, <4>4 DEF decrypt
      <4> QED BY <1>1, <1>4, <2>4, <2>5, <2>9, <3>3, <4>5 DEF x
    <3> QED BY <3>2, <3>3
  <2> QED BY <1>1, <2>5, <2>8, <2>9
<1> QED BY <1>1, <1>3, <1>4

(* The boxed header in front of in opens. *)
HeaderOpens(in, nonce) ==
    Intact(in, in[1].msg, 1, PrefixSize) /\ sealed[in[1].msg].headerNonce = nonce + 1

(* decrypt() in BoxStream format, case by case. *)
LEMMA DecryptBoxStream ==
    ASSUME protocol = "BoxStream", NEW in \in Seq(Byte), NEW nonce \in Nat,
           NEW l \in Nat, l = Len(sealed[in[1].msg].data),
           NEW d, d = decrypt(in, Len(in), nonce)
    PROVE  /\ PrefixSize \in Nat
           /\ Len(in) < PrefixSize => d.status = "IncompleteInput"
           /\ Len(in) >= PrefixSize =>
                 /\ ~HeaderOpens(in, nonce) => d.status = "CorruptData"
                 /\ HeaderOpens(in, nonce) =>
                       /\ Len(in) < PrefixSize + l => d.status = "IncompleteInput"
                       /\ Len(in) >= PrefixSize + l /\ ~Opens(in, PrefixSize + l, nonce) =>
                             d.status = "CorruptData"
                       /\ Len(in) >= PrefixSize + l /\ Opens(in, PrefixSize + l, nonce) =>
                             d = [status |-> "Success", data |-> sealed[in[1].msg].data,
                                  used |-> PrefixSize + l, nonce |-> nonce + 2]
<1>1. Len(in) \in Nat
    OBVIOUS
<1>2. minPeekSize = PrefixSize /\ PrefixSize \in Nat
    BY Overhead
<1>3. CASE Len(in) < PrefixSize
  <2>1. peek(in, nonce).status = "IncompleteInput"
      BY <1>2, <1>3 DEF peek
  <2>2. d.status = "IncompleteInput"
      BY <2>1 DEF decrypt
  <2> QED BY <1>1, <1>2, <1>3, <2>2
<1>4. CASE Len(in) >= PrefixSize
  <2>1. CASE ~HeaderOpens(in, nonce)
    <3>1. peek(in, nonce).status = "CorruptData"
        BY <1>1, <1>2, <1>4, <2>1 DEF peek, HeaderOpens
    <3>2. d.status = "CorruptData"
        BY <3>1 DEF decrypt
    <3> QED BY <1>1, <1>2, <1>4, <2>1, <3>2
  <2>2. CASE HeaderOpens(in, nonce)
    <3>1. peek(in, nonce) = [status |-> "Success", decryptedSize |-> l,
                             encryptedSize |-> PrefixSize + l]
        BY <1>1, <1>2, <1>4, <2>2 DEF peek, HeaderOpens
    <3>2. Complete(in, peek(in, nonce)) <=> Len(in) >= PrefixSize + l
        BY <3>1 DEF Complete
    <3>3. CASE Len(in) < PrefixSize + l
      <4>1. d.status = "IncompleteInput"
          BY <1>1, <1>2, <3>1, <3>2, <3>3 DEF decrypt
      <4> QED BY <1>1, <1>2, <1>4, <2>2, <3>3, <4>1
    <3>4. CASE Len(in) >= PrefixSize + l
      <4>1. ~(Len(in) < l)
          BY <1>1, <1>2, <3>4
      <4>2. CASE ~Opens(in, PrefixSize + l, nonce)
        <5>1. d.status = "CorruptData"
            BY <3>1, <3>2, <3>4, <4>1, <4>2 DEF decrypt, Refuses
        <5> QED BY <1>1, <1>2, <1>4, <2>2, <3>4, <4>2, <5>1, SMTT(60)
      <4>3. CASE Opens(in, PrefixSize + l, nonce)
        <5>1. NextNonce(nonce) = nonce + 2
            BY DEF NextNonce
        <5>2. d = [status |-> "Success", data |-> sealed[in[1].msg].data,
                   used |-> PrefixSize + l, nonce |-> nonce + 2]
            BY <3>1, <3>2, <3>4, <4>1, <4>3, <5>1 DEF decrypt, Refuses, Unboxed
        <5> QED BY <1>1, <1>2, <1>4, <2>2, <3>4, <4>3, <5>2, SMTT(60)
      <4> QED BY <4>2, <4>3
    <3> QED BY <1>1, <1>2, <3>3, <3>4
  <2> QED BY <2>1, <2>2
<1> QED BY <1>1, <1>2, <1>3, <1>4

(* The next message of the ciphertext in, behind k messages, is whole and  *)
(* undamaged.                                                              *)
NextWhole(in, k) ==
    /\ k < Len(sealed)
    /\ Len(in) >= encryptedSize(Len(sealed[k + 1].data))
    /\ \A j \in 1 .. encryptedSize(Len(sealed[k + 1].data)) : Undamaged(sealed, in[j])

(* in reads as an empty message, in Compact format. *)
NextEmpty(in) ==
    /\ protocol = "Compact" /\ Len(in) >= encryptedSize(0)
    /\ in[1].val = 0 /\ in[2].val = 0

Protocols == {"Compact", "BoxStream"}

(* The bytes in front of in are those of the next message. *)
LEMMA NextBytes ==
    ASSUME SealedOK(sealed), NEW k \in 0 .. Len(sealed), NEW in,
           IsCiphertext(sealed, in, Offset(sealed, k)), Len(in) > 0
    PROVE  /\ k + 1 \in 1 .. Len(sealed)
           /\ Len(sealed[k + 1].data) \in 1 .. kMaxMessageSize
           /\ sealed[k + 1].nonce = NonceAfter(k) /\ sealed[k + 1].headerNonce = NonceAfter(k) + 1
           /\ \A j \in 1 .. Len(in) :
                 j <= encryptedSize(Len(sealed[k + 1].data)) =>
                    /\ in[j] \in Byte /\ in[j].val < Base
                    /\ in[j].msg = k + 1 /\ in[j].pos = j
                    /\ Undamaged(sealed, in[j]) <=>
                          in[j].val = ByteOf(k + 1, Len(sealed[k + 1].data), j)
<1>1. in \in Seq(Byte) /\ Len(in) \in Nat /\ Len(sealed) \in Nat
    BY DEF IsCiphertext, SealedOK
<1>2. \A j \in 1 .. Len(in) : IsByte(sealed, in[j], Offset(sealed, k) + j)
    BY DEF IsCiphertext
<1>3. k < Len(sealed)
  <2>1. 1 \in 1 .. Len(in) /\ 1 \in Nat \ {0}
      BY <1>1
  <2>2. IsByte(sealed, in[1], Offset(sealed, k) + 1)
      BY <1>2, <2>1
  <2> QED BY <2>1, <2>2, BytePlace
<1>4. k + 1 \in 1 .. Len(sealed) /\ (k + 1) - 1 = k
    BY <1>1, <1>3
<1>5. /\ Len(sealed[k + 1].data) \in 1 .. kMaxMessageSize
      /\ sealed[k + 1].nonce = NonceAfter(k) /\ sealed[k + 1].headerNonce = NonceAfter(k) + 1
    BY <1>4 DEF SealedOK
<1>6. ASSUME NEW j \in 1 .. Len(in), j <= encryptedSize(Len(sealed[k + 1].data))
      PROVE  /\ in[j] \in Byte /\ in[j].val < Base
             /\ in[j].msg = k + 1 /\ in[j].pos = j
             /\ Undamaged(sealed, in[j]) <=>
                   in[j].val = ByteOf(k + 1, Len(sealed[k + 1].data), j)
  <2>1. j \in Nat \ {0} /\ IsByte(sealed, in[j], Offset(sealed, k) + j)
      BY <1>1, <1>2
  <2>2. in[j].msg = k + 1 /\ in[j].pos = j
      BY <1>6, <2>1, BytePlace
  <2>3. in[j] \in Byte /\ in[j].val < Base
      BY <2>1 DEF IsByte
  <2> QED BY <2>2, <2>3 DEF Undamaged
<1> QED BY <1>4, <1>5, <1>6

(* The two length bytes are undamaged if and only if they say the length.  *)
LEMMA LengthBytes ==
    ASSUME protocol = "Compact", NEW in \in Seq(Byte), Len(in) >= 2,
           in[1].val < Base, in[2].val < Base, NEW n, NEW l \in 1 .. kMaxMessageSize
    PROVE  /\ readUint16At(in) = l <=> in[1].val = ByteOf(n, l, 1) /\ in[2].val = ByteOf(n, l, 2)
           /\ readUint16At(in) = 0 <=> in[1].val = 0 /\ in[2].val = 0
<1> DEFINE a == in[1].val
           b == in[2].val
<1>1. in[1] \in Byte /\ in[2] \in Byte
    OBVIOUS
<1>2. a \in Nat /\ b \in Nat /\ Base \in Nat \ {0} /\ a < Base /\ b < Base
    BY <1>1, BoxConstants DEF Byte
<1>3. l \in 0 .. Base * Base - 1 /\ l \in Nat
    BY MaxSize DEF kMaxMessageSize
<1>4. /\ l \div Base \in 0 .. Base - 1 /\ l % Base \in 0 .. Base - 1
      /\ l = (l \div Base) * Base + (l % Base)
    BY <1>2, <1>3, Digits
<1>5. ByteOf(n, l, 1) = l \div Base /\ ByteOf(n, l, 2) = l % Base
    BY DEF ByteOf, writeUint16At
<1>6. readUint16At(in) = a * Base + b
    BY DEF readUint16At
<1> HIDE DEF a, b
<1> DEFINE q == l \div Base
           m == l % Base
<1>7. q \in Nat /\ m \in 0 .. Base - 1 /\ l = q * Base + m /\ b \in 0 .. Base - 1
    BY <1>2, <1>4
<1> HIDE DEF q, m
<1>8. a * Base + b = l <=> a = q /\ b = m
  <2>1. ASSUME a * Base + b = l PROVE a = q /\ b = m
    <3>1. a * Base + b = q * Base + m
        BY <1>7, <2>1
    <3> QED BY <1>2, <1>7, <3>1, DigitsUnique
  <2> QED BY <1>7, <2>1
<1>9. a * Base + b = 0 <=> a = 0 /\ b = 0
  <2>1. ASSUME a * Base + b = 0 PROVE a = 0 /\ b = 0
    <3>1. a * Base + b = 0 * Base + 0 /\ 0 \in Nat /\ 0 \in 0 .. Base - 1
        BY <1>2, <2>1
    <3> QED BY <1>2, <1>7, <3>1, DigitsUnique
  <2>2. 0 * Base + 0 = 0
      BY <1>2
  <2> QED BY <2>1, <2>2
<1> QED BY <1>5, <1>6, <1>8, <1>9 DEF a, b, q, m

(* decrypt() of the ciphertext behind k messages succeeds for the next     *)
(* whole undamaged message and for damage that reads as an empty one, and  *)
(* for nothing else; it never lacks room, and finds the input corrupt only *)
(* if a byte of it is damaged.                                             *)
LEMMA DecryptNextCompact ==
    ASSUME protocol = "Compact", SealedOK(sealed), NEW k \in 0 .. Len(sealed), NEW in,
           IsCiphertext(sealed, in, Offset(sealed, k)),
           NEW d, d = decrypt(in, Len(in), NonceAfter(k))
    PROVE  /\ d.status \in {"Success", "IncompleteInput", "CorruptData"}
           /\ d.status = "Success" <=> NextWhole(in, k) \/ NextEmpty(in)
           /\ NextWhole(in, k) =>
                 /\ d.data = sealed[k + 1].data
                 /\ d.used = encryptedSize(Len(sealed[k + 1].data))
                 /\ d.nonce = NonceAfter(k + 1)
           /\ NextEmpty(in) =>
                 /\ d.data = <<>> /\ d.used = encryptedSize(0) /\ d.nonce = NonceAfter(k) + 1
                 /\ ~NextWhole(in, k)
           /\ d.status = "CorruptData" \/ NextEmpty(in) => ~AllUndamaged(sealed, in)
<1> DEFINE l == Len(sealed[k + 1].data)
           L == readUint16At(in)
           nonce == NonceAfter(k)
<1>1. in \in Seq(Byte) /\ Len(in) \in Nat /\ Len(sealed) \in Nat
    BY DEF IsCiphertext, SealedOK
<1>2. nonce \in Nat /\ NonceAfter(k + 1) = nonce + 1
    BY <1>1 DEF NonceAfter
<1>6. Len(in) >= 2 => Len(sealed[in[1].msg].data) \in Nat
  <2> SUFFICES ASSUME Len(in) >= 2 PROVE Len(sealed[in[1].msg].data) \in Nat
      OBVIOUS
  <2>1. 1 \in 1 .. Len(in)
      BY <1>1
  <2>2. in[1].msg \in 1 .. Len(sealed)
      BY <2>1 DEF IsCiphertext, IsByte
  <2> QED BY <2>2, OffsetStep, MaxSize
<1>3. /\ Len(in) < 2 => d.status = "IncompleteInput"
      /\ Len(in) >= 2 =>
            /\ L \in Nat /\ encryptedSize(L) \in Nat /\ encryptedSize(L) >= 3
            /\ Len(in) < encryptedSize(L) => d.status = "IncompleteInput"
            /\ Len(in) >= encryptedSize(L) /\ ~Opens(in, encryptedSize(L), nonce) =>
                  IF L = 0 THEN d = [status |-> "Success", data |-> <<>>,
                                     used |-> encryptedSize(0), nonce |-> nonce + 1]
                  ELSE d.status = "CorruptData"
            /\ Len(in) >= encryptedSize(L) /\ Opens(in, encryptedSize(L), nonce) =>
                  d = [status |-> "Success", data |-> sealed[in[1].msg].data,
                       used |-> encryptedSize(L), nonce |-> nonce + 1]
    BY <1>1, <1>2, <1>6, DecryptCompact
<1>4. CASE Len(in) < 2
  <2>1. ~NextWhole(in, k)
    <3> SUFFICES ASSUME NextWhole(in, k) PROVE FALSE
        OBVIOUS
    <3>1. k + 1 \in 1 .. Len(sealed)
        BY <1>1 DEF NextWhole
    <3>2. l \in Nat
        BY <3>1, OffsetStep, MaxSize
    <3>3. Len(in) >= encryptedSize(l)
        BY DEF NextWhole
    <3> HIDE DEF l
    <3>4. encryptedSize(l) >= 3 /\ encryptedSize(l) \in Nat
      <4>1. encryptedSize(l) = encryptedSize(0) + l /\ encryptedSize(0) \in Nat /\ encryptedSize(0) >= 3
          BY <3>2, Overhead
      <4> QED BY <3>2, <4>1
    <3> QED BY <1>1, <1>4, <3>3, <3>4
  <2>2. ~NextEmpty(in)
      BY <1>1, <1>4, Overhead DEF NextEmpty
  <2> QED BY <1>3, <1>4, <2>1, <2>2
<1>5. CASE Len(in) >= 2
  <2>1. /\ k + 1 \in 1 .. Len(sealed) /\ l \in 1 .. kMaxMessageSize /\ l \in Nat
        /\ sealed[k + 1].nonce = nonce
    <3>1. Len(in) > 0
        BY <1>1, <1>5
    <3> QED BY <3>1, NextBytes, MaxSize
  <2>2. \A j \in 1 .. Len(in) :
           j <= encryptedSize(l) =>
              /\ in[j] \in Byte /\ in[j].val < Base /\ in[j].msg = k + 1 /\ in[j].pos = j
              /\ Undamaged(sealed, in[j]) <=> in[j].val = ByteOf(k + 1, l, j)
    <3>1. Len(in) > 0
        BY <1>1, <1>5
    <3> QED BY <3>1, NextBytes
  <2> HIDE DEF l, L, nonce
  <2>3. /\ L \in Nat /\ encryptedSize(L) = encryptedSize(0) + L
        /\ encryptedSize(l) = encryptedSize(0) + l
        /\ encryptedSize(0) \in Nat /\ encryptedSize(0) >= 3
      BY <1>3, <1>5, <2>1, Overhead
  <2>4. 1 \in 1 .. Len(in) /\ 2 \in 1 .. Len(in) /\ 1 <= encryptedSize(l) /\ 2 <= encryptedSize(l)
      BY <1>1, <1>5, <2>1, <2>3, SMTT(60)
  <2>5. L = l <=> Undamaged(sealed, in[1]) /\ Undamaged(sealed, in[2])
    <3>1. in[1].val < Base /\ in[2].val < Base
        BY <2>2, <2>4
    <3>2. L = l <=> in[1].val = ByteOf(k + 1, l, 1) /\ in[2].val = ByteOf(k + 1, l, 2)
        BY <1>1, <1>5, <2>1, <3>1, LengthBytes DEF L
    <3> QED BY <2>2, <2>4, <3>2
  <2>6. in[1].msg = k + 1
      BY <2>2, <2>4
  <2>7. ASSUME NEW j \in 1 .. Len(in), j <= encryptedSize(l), j >= 3
        PROVE  Undamaged(sealed, in[j]) <=> in[j] = [msg |-> k + 1, pos |-> j, val |-> CipherByte(k + 1, j)]
    <3>1. ByteOf(k + 1, l, j) = CipherByte(k + 1, j)
        BY <1>1, <2>7 DEF ByteOf
    <3>2. /\ in[j] \in Byte /\ in[j].msg = k + 1 /\ in[j].pos = j
          /\ Undamaged(sealed, in[j]) <=> in[j].val = CipherByte(k + 1, j)
        BY <2>2, <2>7, <3>1
    <3> DEFINE b == in[j]
    <3> HIDE DEF b
    <3>3. b \in Byte /\ b.msg = k + 1 /\ b.pos = j
        BY <3>2 DEF b
    <3>4. b.val = CipherByte(k + 1, j) <=> b = [msg |-> k + 1, pos |-> j, val |-> CipherByte(k + 1, j)]
        BY <3>3 DEF Byte
    <3> QED BY <3>2, <3>4 DEF b
  <2>8. ASSUME Len(in) >= encryptedSize(L)
        PROVE  Opens(in, encryptedSize(L), nonce) <=> NextWhole(in, k)
    <3>1. Opens(in, encryptedSize(L), nonce) <=>
             encryptedSize(L) = encryptedSize(l) /\ Intact(in, k + 1, 3, encryptedSize(L))
        BY <2>1, <2>6 DEF Opens, l
    <3>2. ASSUME Opens(in, encryptedSize(L), nonce) PROVE NextWhole(in, k)
      <4>1. L = l
          BY <2>1, <2>3, <3>1, <3>2
      <4>2. ASSUME NEW j \in 1 .. encryptedSize(l) PROVE Undamaged(sealed, in[j])
        <5>1. j \in 1 .. Len(in) /\ j <= encryptedSize(l)
            BY <1>1, <2>1, <2>3, <2>8, <4>1
        <5>2. CASE j >= 3
          <6>1. in[j] = [msg |-> k + 1, pos |-> j, val |-> CipherByte(k + 1, j)]
            <7>1. j \in 3 .. encryptedSize(L)
                BY <2>1, <2>3, <4>1, <5>2
            <7> QED BY <3>1, <3>2, <7>1 DEF Intact
          <6> QED BY <2>7, <5>1, <5>2, <6>1
        <5>3. CASE ~(j >= 3)
          <6>1. j = 1 \/ j = 2
              BY <5>1, <5>3
          <6> QED BY <2>5, <4>1, <6>1
        <5> QED BY <5>2, <5>3
      <4>3. k < Len(sealed)
          BY <1>1, <2>1
      <4> QED BY <2>8, <4>1, <4>2, <4>3 DEF NextWhole, l
    <3>3. ASSUME NextWhole(in, k) PROVE Opens(in, encryptedSize(L), nonce)
      <4>1. /\ Len(in) >= encryptedSize(l)
            /\ \A j \in 1 .. encryptedSize(l) : Undamaged(sealed, in[j])
          BY <3>3 DEF NextWhole, l
      <4>2. 1 \in 1 .. encryptedSize(l) /\ 2 \in 1 .. encryptedSize(l)
          BY <2>1, <2>3
      <4>3. L = l
          BY <2>5, <4>1, <4>2
      <4>4. ASSUME NEW j \in 3 .. encryptedSize(L)
            PROVE  in[j] = [msg |-> k + 1, pos |-> j, val |-> CipherByte(k + 1, j)]
        <5>1. j \in 1 .. Len(in) /\ j <= encryptedSize(l) /\ j >= 3 /\ j \in 1 .. encryptedSize(l)
            BY <1>1, <2>1, <2>3, <4>1, <4>3
        <5> QED BY <2>7, <4>1, <5>1
      <4> QED BY <3>1, <4>3, <4>4 DEF Intact
    <3> QED BY <3>2, <3>3
  <2>9. NextWhole(in, k) => L = l /\ Len(in) >= encryptedSize(L)
    <3> SUFFICES ASSUME NextWhole(in, k) PROVE L = l /\ Len(in) >= encryptedSize(L)
        OBVIOUS
    <3>1. /\ Len(in) >= encryptedSize(l)
          /\ \A j \in 1 .. encryptedSize(l) : Undamaged(sealed, in[j])
        BY DEF NextWhole, l
    <3>2. 1 \in 1 .. encryptedSize(l) /\ 2 \in 1 .. encryptedSize(l)
        BY <2>1, <2>3
    <3> QED BY <2>5, <3>1, <3>2
  <2>13. NextEmpty(in) <=> L = 0 /\ Len(in) >= encryptedSize(L)
    <3>1. in[1].val < Base /\ in[2].val < Base
        BY <2>2, <2>4
    <3>2. L = 0 <=> in[1].val = 0 /\ in[2].val = 0
        BY <1>1, <1>5, <2>1, <3>1, LengthBytes DEF L
    <3> QED BY <3>2 DEF NextEmpty
  <2>14. NextEmpty(in) => ~NextWhole(in, k)
      BY <2>1, <2>9, <2>13
  <2>10. CASE Len(in) < encryptedSize(L)
    <3>1. ~NextWhole(in, k) /\ ~NextEmpty(in)
        BY <1>1, <2>3, <2>9, <2>10, <2>13
    <3>2. d.status = "IncompleteInput"
        BY <1>3, <1>5, <2>10
    <3> QED BY <3>1, <3>2
  <2>11. CASE Len(in) >= encryptedSize(L) /\ ~Opens(in, encryptedSize(L), nonce)
    <3>1. ~NextWhole(in, k)
        BY <2>8, <2>11
    <3>2. ~AllUndamaged(sealed, in)
      <4> SUFFICES ASSUME AllUndamaged(sealed, in) PROVE FALSE
          OBVIOUS
      <4>1. L = l
          BY <2>4, <2>5 DEF AllUndamaged
      <4>2. \A j \in 1 .. encryptedSize(l) : Undamaged(sealed, in[j])
        <5> TAKE j \in 1 .. encryptedSize(l)
        <5>1. j \in 1 .. Len(in)
            BY <1>1, <2>1, <2>3, <2>11, <4>1
        <5> QED BY <5>1 DEF AllUndamaged
      <4>3. k < Len(sealed) /\ Len(in) >= encryptedSize(l)
          BY <1>1, <2>1, <2>11, <4>1
      <4>4. NextWhole(in, k)
          BY <4>2, <4>3 DEF NextWhole, l
      <4> QED BY <3>1, <4>4
    <3>3. CASE L = 0
      <4>1. d = [status |-> "Success", data |-> <<>>, used |-> encryptedSize(0),
                 nonce |-> nonce + 1]
          BY <1>3, <1>5, <2>11, <3>3
      <4> QED BY <2>11, <2>13, <3>1, <3>2, <3>3, <4>1 DEF nonce
    <3>4. CASE L # 0
      <4>1. d.status = "CorruptData"
          BY <1>3, <1>5, <2>11, <3>4
      <4> QED BY <2>13, <3>1, <3>2, <3>4, <4>1
    <3> QED BY <3>3, <3>4
  <2>12. CASE Len(in) >= encryptedSize(L) /\ Opens(in, encryptedSize(L), nonce)
    <3>1. NextWhole(in, k) /\ L = l
        BY <2>8, <2>9, <2>12
    <3>2. d = [status |-> "Success", data |-> sealed[k + 1].data,
               used |-> encryptedSize(L), nonce |-> nonce + 1]
        BY <1>3, <1>5, <2>6, <2>12
    <3> QED BY <1>2, <2>14, <3>1, <3>2 DEF l
  <2> QED BY <1>1, <1>3, <1>5, <2>10, <2>11, <2>12
<1> QED BY <1>1, <1>4, <1>5

(* decrypt() in BoxStream format of ciphertext that begins with message k  *)
(* + 1.                                                                    *)
LEMMA DecryptNextBoxStream ==
    ASSUME protocol = "BoxStream", SealedOK(sealed), NEW k \in 0 .. Len(sealed), NEW in,
           IsCiphertext(sealed, in, Offset(sealed, k)),
           NEW d, d = decrypt(in, Len(in), NonceAfter(k))
    PROVE  /\ d.status \in {"Success", "IncompleteInput", "CorruptData"}
           /\ d.status = "Success" <=> NextWhole(in, k)
           /\ d.status = "Success" =>
                 /\ d.data = sealed[k + 1].data
                 /\ d.used = encryptedSize(Len(sealed[k + 1].data))
                 /\ d.nonce = NonceAfter(k + 1)
           /\ d.status = "CorruptData" => ~AllUndamaged(sealed, in)
<1> DEFINE l == Len(sealed[k + 1].data)
           nonce == NonceAfter(k)
<1>1. in \in Seq(Byte) /\ Len(in) \in Nat /\ Len(sealed) \in Nat
    BY DEF IsCiphertext, SealedOK
<1>2. nonce \in Nat /\ NonceAfter(k + 1) = nonce + 2
    BY <1>1 DEF NonceAfter
<1>3. PrefixSize \in Nat /\ PrefixSize = encryptedSize(0) /\ PrefixSize >= 3 /\ minPeekSize = PrefixSize
    BY Overhead
<1>4. CASE Len(in) < PrefixSize
  <2>1. d.status = "IncompleteInput"
    <3>1. peek(in, nonce).status = "IncompleteInput"
        BY <1>3, <1>4 DEF peek
    <3> QED BY <3>1 DEF decrypt
  <2>2. ~NextWhole(in, k)
    <3> SUFFICES ASSUME NextWhole(in, k) PROVE FALSE
        OBVIOUS
    <3>1. k + 1 \in 1 .. Len(sealed)
        BY <1>1 DEF NextWhole
    <3>2. l \in Nat
        BY <3>1, OffsetStep, MaxSize
    <3>3. Len(in) >= encryptedSize(l)
        BY DEF NextWhole
    <3> HIDE DEF l
    <3>4. encryptedSize(l) = encryptedSize(0) + l
        BY <3>2, Overhead
    <3> QED BY <1>1, <1>3, <1>4, <3>2, <3>3, <3>4
  <2> QED BY <2>1, <2>2
<1>5. CASE Len(in) >= PrefixSize
  <2>1. Len(in) > 0
      BY <1>1, <1>3, <1>5
  <2>2. /\ k + 1 \in 1 .. Len(sealed) /\ l \in 1 .. kMaxMessageSize /\ l \in Nat
        /\ sealed[k + 1].nonce = nonce /\ sealed[k + 1].headerNonce = nonce + 1
      BY <2>1, NextBytes, MaxSize
  <2>3. \A j \in 1 .. Len(in) :
           j <= encryptedSize(l) =>
              /\ in[j] \in Byte /\ in[j].val < Base /\ in[j].msg = k + 1 /\ in[j].pos = j
              /\ Undamaged(sealed, in[j]) <=> in[j].val = ByteOf(k + 1, l, j)
      BY <2>1, NextBytes
  <2>4. encryptedSize(l) = PrefixSize + l
    <3> HIDE DEF l
    <3> QED BY <1>3, <2>2, Overhead
  <2>5. in[1].msg = k + 1
    <3>1. 1 \in 1 .. Len(in) /\ 1 <= encryptedSize(l)
        BY <1>1, <1>3, <2>1, <2>2, <2>4
    <3> QED BY <2>3, <3>1
  <2>6. /\ ~HeaderOpens(in, nonce) => d.status = "CorruptData"
        /\ HeaderOpens(in, nonce) =>
              /\ Len(in) < PrefixSize + l => d.status = "IncompleteInput"
              /\ Len(in) >= PrefixSize + l /\ ~Opens(in, PrefixSize + l, nonce) =>
                    d.status = "CorruptData"
              /\ Len(in) >= PrefixSize + l /\ Opens(in, PrefixSize + l, nonce) =>
                    d = [status |-> "Success", data |-> sealed[k + 1].data,
                         used |-> PrefixSize + l, nonce |-> nonce + 2]
    <3>1. l = Len(sealed[in[1].msg].data)
        BY <2>5
    <3> HIDE DEF l
    <3> QED BY <1>1, <1>2, <1>5, <2>2, <2>5, <3>1, DecryptBoxStream, SMTT(60)
  <2> HIDE DEF l, nonce
  <2>7. ASSUME NEW j \in 1 .. Len(in), j <= encryptedSize(l)
        PROVE  Undamaged(sealed, in[j]) <=> in[j] = [msg |-> k + 1, pos |-> j, val |-> CipherByte(k + 1, j)]
    <3>1. ByteOf(k + 1, l, j) = CipherByte(k + 1, j)
        BY DEF ByteOf
    <3>2. /\ in[j] \in Byte /\ in[j].msg = k + 1 /\ in[j].pos = j
          /\ Undamaged(sealed, in[j]) <=> in[j].val = CipherByte(k + 1, j)
        BY <2>3, <2>7, <3>1
    <3> DEFINE b == in[j]
    <3> HIDE DEF b
    <3>3. b \in Byte /\ b.msg = k + 1 /\ b.pos = j
        BY <3>2 DEF b
    <3>4. b.val = CipherByte(k + 1, j) <=> b = [msg |-> k + 1, pos |-> j, val |-> CipherByte(k + 1, j)]
        BY <3>3 DEF Byte
    <3> QED BY <3>2, <3>4 DEF b
  <2>8. HeaderOpens(in, nonce) <=> \A j \in 1 .. PrefixSize : Undamaged(sealed, in[j])
    <3>1. HeaderOpens(in, nonce) <=> Intact(in, k + 1, 1, PrefixSize)
        BY <2>2, <2>5 DEF HeaderOpens
    <3>2. \A j \in 1 .. PrefixSize : j \in 1 .. Len(in) /\ j <= encryptedSize(l)
        BY <1>1, <1>3, <1>5, <2>2, <2>4
    <3> QED BY <2>7, <3>1, <3>2 DEF Intact
  <2>9. ASSUME Len(in) >= PrefixSize + l
        PROVE  Opens(in, PrefixSize + l, nonce) <=>
                  \A j \in PrefixSize + 1 .. PrefixSize + l : Undamaged(sealed, in[j])
    <3>1. Opens(in, PrefixSize + l, nonce) <=> Intact(in, k + 1, PrefixSize + 1, PrefixSize + l)
        BY <2>2, <2>4, <2>5 DEF Opens, l
    <3>2. \A j \in PrefixSize + 1 .. PrefixSize + l : j \in 1 .. Len(in) /\ j <= encryptedSize(l)
        BY <1>1, <1>3, <2>2, <2>4, <2>9, SMTT(60)
    <3> QED BY <2>7, <3>1, <3>2 DEF Intact
  <2>10. NextWhole(in, k) <=>
            /\ Len(in) >= PrefixSize + l
            /\ \A j \in 1 .. PrefixSize + l : Undamaged(sealed, in[j])
    <3>1. k < Len(sealed)
        BY <1>1, <2>2
    <3>2. NextWhole(in, k) <=> /\ k < Len(sealed) /\ Len(in) >= encryptedSize(l)
                               /\ \A j \in 1 .. encryptedSize(l) : Undamaged(sealed, in[j])
        BY DEF NextWhole, l
    <3> QED BY <2>4, <3>1, <3>2
  <2>11. CASE ~HeaderOpens(in, nonce)
    <3>1. PICK j \in 1 .. PrefixSize : ~Undamaged(sealed, in[j])
        BY <2>8, <2>11
    <3>2. j \in 1 .. Len(in) /\ j \in 1 .. PrefixSize + l
        BY <1>1, <1>3, <1>5, <2>2
    <3>3. ~NextWhole(in, k) /\ ~AllUndamaged(sealed, in)
        BY <2>10, <3>1, <3>2 DEF AllUndamaged
    <3> QED BY <2>6, <2>11, <3>3
  <2>12. CASE HeaderOpens(in, nonce) /\ Len(in) < PrefixSize + l
    <3>1. ~NextWhole(in, k)
        BY <1>1, <1>3, <2>2, <2>10, <2>12
    <3> QED BY <2>6, <2>12, <3>1
  <2>13. CASE /\ HeaderOpens(in, nonce) /\ Len(in) >= PrefixSize + l
              /\ ~Opens(in, PrefixSize + l, nonce)
    <3>1. PICK j \in PrefixSize + 1 .. PrefixSize + l : ~Undamaged(sealed, in[j])
        BY <2>9, <2>13
    <3>2. j \in 1 .. Len(in) /\ j \in 1 .. PrefixSize + l
        BY <1>1, <1>3, <2>2, <2>13, SMTT(60)
    <3>3. ~NextWhole(in, k) /\ ~AllUndamaged(sealed, in)
        BY <2>10, <3>1, <3>2 DEF AllUndamaged
    <3> QED BY <2>6, <2>13, <3>3
  <2>14. CASE /\ HeaderOpens(in, nonce) /\ Len(in) >= PrefixSize + l
              /\ Opens(in, PrefixSize + l, nonce)
    <3>1. ASSUME NEW j \in 1 .. PrefixSize + l PROVE Undamaged(sealed, in[j])
      <4>1. j \in 1 .. PrefixSize \/ j \in PrefixSize + 1 .. PrefixSize + l
          BY <1>3, <2>2
      <4> QED BY <2>8, <2>9, <2>14, <4>1
    <3>2. NextWhole(in, k)
        BY <2>10, <2>14, <3>1
    <3>3. d = [status |-> "Success", data |-> sealed[k + 1].data,
               used |-> PrefixSize + l, nonce |-> nonce + 2]
        BY <2>6, <2>14
    <3> QED BY <1>2, <2>4, <3>2, <3>3 DEF l
  <2> QED BY <1>1, <1>3, <2>2, <2>11, <2>12, <2>13, <2>14
<1> QED BY <1>1, <1>3, <1>4, <1>5

(* The same in either format: decrypt() succeeds if that message is all    *)
(* there and undamaged, and gives its cleartext, or if it reads as an      *)
(* empty one.                                                              *)
LEMMA DecryptNext ==
    ASSUME protocol \in Protocols, SealedOK(sealed), NEW k \in 0 .. Len(sealed), NEW in,
           IsCiphertext(sealed, in, Offset(sealed, k)),
           NEW d, d = decrypt(in, Len(in), NonceAfter(k))
    PROVE  /\ d.status \in {"Success", "IncompleteInput", "CorruptData"}
           /\ d.status = "Success" <=> NextWhole(in, k) \/ NextEmpty(in)
           /\ NextWhole(in, k) =>
                 /\ d.data = sealed[k + 1].data
                 /\ d.used = encryptedSize(Len(sealed[k + 1].data))
                 /\ d.nonce = NonceAfter(k + 1)
           /\ NextEmpty(in) =>
                 /\ d.data = <<>> /\ d.used = encryptedSize(0) /\ d.nonce = NonceAfter(k) + 1
                 /\ ~NextWhole(in, k)
           /\ d.status = "CorruptData" \/ NextEmpty(in) => ~AllUndamaged(sealed, in)
<1>1. protocol = "Compact" \/ protocol = "BoxStream"
    BY DEF Protocols
<1>2. protocol = "BoxStream" => ~NextEmpty(in)
    BY DEF NextEmpty
<1> QED BY <1>1, <1>2, DecryptNextCompact, DecryptNextBoxStream

(* What decrypt() has found corrupt stays corrupt, whatever arrives behind *)
(* it: a push() after one that returned false fails again.                 *)
LEMMA CorruptStays ==
    ASSUME protocol \in Protocols, SealedOK(sealed), NEW p,
           NEW in, IsCiphertext(sealed, in, p), NEW more, IsCiphertext(sealed, more, p),
           Len(in) <= Len(more), \A j \in 1 .. Len(in) : more[j] = in[j],
           NEW nonce \in Nat, decrypt(in, Len(in), nonce).status = "CorruptData"
    PROVE  decrypt(more, Len(more), nonce).status = "CorruptData"
<1> DEFINE d == decrypt(in, Len(in), nonce)
           e == decrypt(more, Len(more), nonce)
           l == Len(sealed[in[1].msg].data)
<1>1. /\ in \in Seq(Byte) /\ Len(in) \in Nat /\ Len(sealed) \in Nat
      /\ more \in Seq(Byte) /\ Len(more) \in Nat
    BY DEF IsCiphertext, SealedOK
<1>2. Len(in) > 0 => l \in Nat /\ more[1] = in[1]
  <2> SUFFICES ASSUME Len(in) > 0 PROVE l \in Nat /\ more[1] = in[1]
      OBVIOUS
  <2>1. 1 \in 1 .. Len(in)
      BY <1>1
  <2>2. in[1].msg \in 1 .. Len(sealed)
      BY <2>1 DEF IsCiphertext, IsByte
  <2> QED BY <2>1, <2>2, OffsetStep, MaxSize, SMTT(60)
<1>3. ASSUME NEW m, NEW a \in Nat \ {0}, NEW b \in 0 .. Len(in)
      PROVE  Intact(more, m, a, b) <=> Intact(in, m, a, b)
  <2>1. \A i \in a .. b : i \in 1 .. Len(in)
      BY <1>1
  <2>2. \A i \in a .. b : more[i] = in[i]
      BY <2>1
  <2> QED BY <2>2 DEF Intact
<1>4. CASE protocol = "Compact"
  <2> DEFINE L == readUint16At(in)
  <2>0. /\ Len(in) >= 2 => Len(sealed[in[1].msg].data) \in Nat
        /\ Len(in) >= 2 => Len(sealed[more[1].msg].data) \in Nat
      BY <1>1, <1>2
  <2>1. /\ Len(in) < 2 => d.status = "IncompleteInput"
        /\ Len(in) >= 2 =>
              /\ L \in Nat /\ encryptedSize(L) \in Nat /\ encryptedSize(L) >= 3
              /\ Len(in) < encryptedSize(L) => d.status = "IncompleteInput"
              /\ Len(in) >= encryptedSize(L) /\ Opens(in, encryptedSize(L), nonce) =>
                    d.status = "Success"
              /\ Len(in) >= encryptedSize(L) /\ L = 0 => d.status = "Success"
    <3>1. /\ Len(in) < 2 => d.status = "IncompleteInput"
          /\ Len(in) >= 2 =>
                /\ L \in Nat /\ encryptedSize(L) \in Nat /\ encryptedSize(L) >= 3
                /\ Len(in) < encryptedSize(L) => d.status = "IncompleteInput"
                /\ Len(in) >= encryptedSize(L) /\ ~Opens(in, encryptedSize(L), nonce) =>
                      IF L = 0 THEN d = [status |-> "Success", data |-> <<>>,
                                         used |-> encryptedSize(0), nonce |-> nonce + 1]
                      ELSE d.status = "CorruptData"
                /\ Len(in) >= encryptedSize(L) /\ Opens(in, encryptedSize(L), nonce) =>
                      d = [status |-> "Success", data |-> sealed[in[1].msg].data,
                           used |-> encryptedSize(L), nonce |-> nonce + 1]
        BY <1>1, <1>4, <2>0, DecryptCompact
    <3> HIDE DEF d, L
    <3> QED BY <3>1
  <2>2. /\ Len(in) >= 2 /\ L \in Nat /\ encryptedSize(L) \in Nat
        /\ Len(in) >= encryptedSize(L) /\ ~Opens(in, encryptedSize(L), nonce)
        /\ encryptedSize(L) >= 3 /\ L # 0
    <3> HIDE DEF L
    <3>1. d.status = "CorruptData"
        OBVIOUS
    <3> HIDE DEF d
    <3> QED BY <1>1, <2>1, <3>1
  <2>3. more[1] = in[1] /\ more[2] = in[2]
      BY <1>1, <2>2
  <2>4. readUint16At(more) = L
      BY <2>3 DEF readUint16At
  <2> HIDE DEF L
  <2>5. ~Opens(more, encryptedSize(L), nonce)
    <3>1. 3 \in Nat \ {0} /\ encryptedSize(L) \in 0 .. Len(in)
        BY <1>1, <2>2
    <3> QED BY <1>3, <1>4, <2>2, <2>3, <3>1 DEF Opens
  <2>6. Len(more) >= 2 /\ Len(more) >= encryptedSize(L)
      BY <1>1, <2>2
  <2> HIDE DEF d, e
  <2>7. e.status = "CorruptData"
      BY <1>1, <1>4, <2>0, <2>2, <2>4, <2>5, <2>6, DecryptCompact DEF e
  <2> QED BY <2>7 DEF e
<1>5. CASE protocol = "BoxStream"
  <2>1. PrefixSize \in Nat /\ PrefixSize >= 3 /\ minPeekSize = PrefixSize
    <3>1. PrefixSize \in Nat /\ PrefixSize = encryptedSize(0) /\ encryptedSize(0) >= 3
          /\ minPeekSize = PrefixSize
        BY <1>5, Overhead
    <3> QED BY <3>1
  <2>2. Len(in) >= PrefixSize
    <3> SUFFICES ASSUME Len(in) < PrefixSize PROVE FALSE
        BY <1>1, <2>1
    <3>1. peek(in, nonce).status = "IncompleteInput"
        BY <2>1 DEF peek
    <3>2. d.status = "IncompleteInput"
        BY <3>1 DEF decrypt
    <3> QED BY <3>2
  <2>3. Len(in) > 0 /\ Len(more) > 0
      BY <1>1, <2>1, <2>2
  <2>4. l \in Nat /\ more[1] = in[1]
      BY <1>2, <2>3
  <2>6. l = Len(sealed[in[1].msg].data) /\ l = Len(sealed[more[1].msg].data)
      BY <2>4
  <2> HIDE DEF l
  <2>7. /\ ~HeaderOpens(in, nonce) \/ (/\ HeaderOpens(in, nonce) /\ Len(in) >= PrefixSize + l
                                       /\ ~Opens(in, PrefixSize + l, nonce))
    <3>1. HeaderOpens(in, nonce) =>
             /\ Len(in) < PrefixSize + l => d.status = "IncompleteInput"
             /\ Len(in) >= PrefixSize + l /\ Opens(in, PrefixSize + l, nonce) =>
                   d.status = "Success"
      <4>1. d = decrypt(in, Len(in), nonce)
          OBVIOUS
      <4> HIDE DEF d
      <4> DEFINE x == sealed[in[1].msg].data
      <4>2. HeaderOpens(in, nonce) =>
               /\ Len(in) < PrefixSize + l => d.status = "IncompleteInput"
               /\ Len(in) >= PrefixSize + l /\ Opens(in, PrefixSize + l, nonce) =>
                     d = [status |-> "Success", data |-> x,
                          used |-> PrefixSize + l, nonce |-> nonce + 2]
          BY <1>1, <1>5, <2>2, <2>4, <2>6, <4>1, DecryptBoxStream, ZenonT(60)
      <4> HIDE DEF x
      <4> QED BY <4>2
    <3>2. d.status = "CorruptData"
        OBVIOUS
    <3> HIDE DEF d
    <3> QED BY <1>1, <2>1, <2>4, <3>1, <3>2
  <2>8. HeaderOpens(more, nonce) <=> HeaderOpens(in, nonce)
    <3>1. 1 \in Nat \ {0} /\ PrefixSize \in 0 .. Len(in)
        BY <1>1, <2>1, <2>2
    <3> QED BY <1>3, <2>4, <3>1 DEF HeaderOpens
  <2>9. Len(in) >= PrefixSize + l =>
           (Opens(more, PrefixSize + l, nonce) <=> Opens(in, PrefixSize + l, nonce))
    <3> SUFFICES ASSUME Len(in) >= PrefixSize + l
                 PROVE  Opens(more, PrefixSize + l, nonce) <=> Opens(in, PrefixSize + l, nonce)
        OBVIOUS
    <3>1. PrefixSize + 1 \in Nat \ {0} /\ PrefixSize + l \in 0 .. Len(in)
        BY <1>1, <2>1, <2>4
    <3> QED BY <1>3, <1>5, <2>4, <3>1 DEF Opens
  <2>10. Len(more) >= PrefixSize /\ (Len(in) >= PrefixSize + l => Len(more) >= PrefixSize + l)
      BY <1>1, <2>1, <2>2, <2>4
  <2> HIDE DEF d, e
  <2>11. e.status = "CorruptData"
      BY <1>1, <1>5, <2>4, <2>6, <2>7, <2>8, <2>9, <2>10, DecryptBoxStream DEF e
  <2> QED BY <2>11 DEF e
<1> QED BY <1>4, <1>5 DEF Protocols

----------------------------------------------------------------------------
(* DecryptionStream.                                                       *)

(* Where a decryption stream stands: behind its k messages, or further on  *)
(* if it has strayed.                                                      *)
LEMMA PlaceNat ==
    ASSUME NEW s, SealedOK(s), NEW d, NEW all, NEW got, NEW k, Holds(s, d, all, got, k)
    PROVE  /\ Place(s, d, k) \in Nat /\ Offset(s, k) \in Nat /\ Offset(s, k) <= Place(s, d, k)
           /\ d.nonce = NonceAfter(k) => Place(s, d, k) = Offset(s, k)
           /\ Strayed(s, d, all, k) => Offset(s, k) + encryptedSize(0) <= Place(s, d, k)
           /\ Len(all) \in Nat /\ Place(s, d, k) <= Len(all)
<1> DEFINE O == Offset(s, k)
           c == encryptedSize(0)
           x == d.nonce - NonceAfter(k)
<1>1. /\ k \in 0 .. Len(s) /\ Len(s) \in Nat /\ d.nonce \in Nat /\ Len(d.in) \in Nat
      /\ Len(all) = Place(s, d, k) + Len(d.in)
      /\ d.nonce = NonceAfter(k) \/ Strayed(s, d, all, k)
    BY DEF Holds, Decryptors, SealedOK
<1>2. O \in Nat /\ c \in Nat /\ NonceAfter(k) \in Nat
    BY <1>1, OffsetNat, Overhead DEF NonceAfter
<1>3. Place(s, d, k) = O + x * c
    BY DEF Place
<1>4. Strayed(s, d, all, k) => x \in Nat /\ x >= 1
    BY <1>1, SMTT(60) DEF Strayed, NonceAfter
<1>5. d.nonce = NonceAfter(k) => x = 0
    BY <1>1
<1> HIDE DEF O, c, x
<1>6. CASE d.nonce = NonceAfter(k) /\ ~Strayed(s, d, all, k)
  <2>1. x * c = 0
      BY <1>2, <1>5, <1>6
  <2> QED BY <1>1, <1>2, <1>3, <1>6, <2>1 DEF O, c
<1>7. CASE Strayed(s, d, all, k)
  <2>1. x - 1 \in Nat /\ (x - 1) + 1 = x
      BY <1>4, <1>7
  <2>2. x * c = (x - 1) * c + c /\ (x - 1) * c \in Nat
      BY <1>2, <2>1, TimesStep
  <2>3. x # 0
      BY <1>4, <1>7
  <2> DEFINE y == (x - 1) * c
  <2>4. Place(s, d, k) = O + (y + c) /\ y \in Nat
      BY <1>3, <2>2
  <2> HIDE DEF y
  <2> QED BY <1>1, <1>2, <1>5, <2>3, <2>4, SMTT(60) DEF O, c
<1> QED BY <1>1, <1>6, <1>7

(* What waits in the decryption stream is the ciphertext from there on. *)
LEMMA HeldCiphertext ==
    ASSUME SealedOK(sealed), NEW all, IsCiphertext(sealed, all, 0), NEW d, NEW got, NEW k,
           Holds(sealed, d, all, got, k)
    PROVE  IsCiphertext(sealed, d.in, Place(sealed, d, k))
<1> DEFINE p == Place(sealed, d, k)
<1>1. /\ d \in Decryptors /\ d.in \in Seq(Byte) /\ Len(d.in) \in Nat
      /\ Len(all) = p + Len(d.in)
      /\ \A j \in 1 .. Len(d.in) : d.in[j] = all[p + j]
    BY DEF Holds, Decryptors
<1>2. p \in Nat
    BY PlaceNat
<1> HIDE DEF p
<1>3. ASSUME NEW j \in 1 .. Len(d.in) PROVE IsByte(sealed, d.in[j], p + j)
  <2>1. p + j \in 1 .. Len(all) /\ 0 + (p + j) = p + j
      BY <1>1, <1>2
  <2>2. IsByte(sealed, all[p + j], 0 + (p + j))
      BY <2>1 DEF IsCiphertext
  <2> QED BY <1>1, <2>1, <2>2
<1> QED BY <1>1, <1>3 DEF IsCiphertext, p

(* A message that reads as an empty one has been damaged. *)
LEMMA EmptyIsDamaged ==
    ASSUME protocol = "Compact", SealedOK(sealed), NEW all, IsCiphertext(sealed, all, 0),
           NEW k \in 0 .. Len(sealed), Len(all) >= Offset(sealed, k) + 2,
           all[Offset(sealed, k) + 1].val = 0, all[Offset(sealed, k) + 2].val = 0
    PROVE  /\ k + 1 \in 1 .. Len(sealed)
           /\ ~(/\ Undamaged(sealed, all[Offset(sealed, k) + 1])
                /\ Undamaged(sealed, all[Offset(sealed, k) + 2]))
<1> DEFINE O == Offset(sealed, k)
           l == Len(sealed[k + 1].data)
           in == <<all[O + 1], all[O + 2]>>
<1>1. O \in Nat /\ all \in Seq(Byte) /\ Len(all) \in Nat /\ Len(sealed) \in Nat
    BY OffsetNat DEF IsCiphertext, SealedOK
<1>2. O + 1 \in 1 .. Len(all) /\ O + 2 \in 1 .. Len(all)
    BY <1>1
<1>3. IsByte(sealed, all[O + 1], O + 1) /\ IsByte(sealed, all[O + 2], O + 2)
  <2>1. 0 + (O + 1) = O + 1 /\ 0 + (O + 2) = O + 2
      BY <1>1
  <2>2. \A j \in 1 .. Len(all) : IsByte(sealed, all[j], 0 + j)
      BY DEF IsCiphertext
  <2> QED BY <1>2, <2>1, <2>2
<1>4. k < Len(sealed)
    BY <1>3, BytePlace
<1>5. k + 1 \in 1 .. Len(sealed) /\ l \in 1 .. kMaxMessageSize /\ l \in Nat
  <2>1. k + 1 \in 1 .. Len(sealed)
      BY <1>1, <1>4
  <2> QED BY <2>1, OffsetStep, MaxSize
<1>6. 1 <= encryptedSize(l) /\ 2 <= encryptedSize(l)
  <2> HIDE DEF l
  <2>1. encryptedSize(l) = encryptedSize(0) + l /\ encryptedSize(0) \in Nat /\ encryptedSize(0) >= 3
      BY <1>5, Overhead
  <2> QED BY <1>5, <2>1
<1>7. /\ all[O + 1].msg = k + 1 /\ all[O + 1].pos = 1
      /\ all[O + 2].msg = k + 1 /\ all[O + 2].pos = 2
    BY <1>3, <1>6, BytePlace
<1>8. /\ all[O + 1] \in Byte /\ all[O + 1].val < Base
      /\ all[O + 2] \in Byte /\ all[O + 2].val < Base
    BY <1>3 DEF IsByte
<1>9. in \in Seq(Byte) /\ Len(in) >= 2 /\ in[1] = all[O + 1] /\ in[2] = all[O + 2]
    BY <1>8
<1> HIDE DEF in, l
<1>10. /\ readUint16At(in) = l <=> /\ in[1].val = ByteOf(k + 1, l, 1)
                                   /\ in[2].val = ByteOf(k + 1, l, 2)
       /\ readUint16At(in) = 0
    BY <1>5, <1>8, <1>9, LengthBytes
<1>11. /\ Undamaged(sealed, all[O + 1]) => in[1].val = ByteOf(k + 1, l, 1)
       /\ Undamaged(sealed, all[O + 2]) => in[2].val = ByteOf(k + 1, l, 2)
    BY <1>7, <1>9 DEF Undamaged, l
<1>12. l # 0
    BY <1>5
<1> QED BY <1>5, <1>10, <1>11, <1>12

(* So a stream that has strayed was given a damaged message, the next one. *)
LEMMA StrayedIsDamaged ==
    ASSUME SealedOK(sealed), NEW all, IsCiphertext(sealed, all, 0), NEW d, NEW got, NEW k,
           Holds(sealed, d, all, got, k), Strayed(sealed, d, all, k)
    PROVE  /\ k + 1 \in 1 .. Len(sealed) /\ Len(all) >= Offset(sealed, k) + encryptedSize(0)
           /\ \E i \in {Offset(sealed, k) + 1, Offset(sealed, k) + 2} :
                 i \in 1 .. Len(all) /\ ~Undamaged(sealed, all[i])
           /\ ~AllUndamaged(sealed, all)
<1> DEFINE O == Offset(sealed, k)
           c == encryptedSize(0)
           P == Place(sealed, d, k)
<1>1. /\ O \in Nat /\ P \in Nat /\ O + c <= P /\ Len(all) \in Nat /\ P <= Len(all)
      /\ c \in Nat /\ c >= 3
    BY PlaceNat, Overhead
<1>2. k \in 0 .. Len(sealed) /\ protocol = "Compact" /\ all[O + 1].val = 0 /\ all[O + 2].val = 0
    BY DEF Holds, Strayed
<1> HIDE DEF c, P
<1>3. Len(all) >= O + c /\ Len(all) >= O + 2 /\ O + 1 \in 1 .. Len(all) /\ O + 2 \in 1 .. Len(all)
    BY <1>1
<1>4. k + 1 \in 1 .. Len(sealed) /\ ~(Undamaged(sealed, all[O + 1]) /\ Undamaged(sealed, all[O + 2]))
    BY <1>2, <1>3, EmptyIsDamaged
<1> QED BY <1>3, <1>4 DEF AllUndamaged, c

(* A stream that has strayed opens nothing any more: no message stands     *)
(* where it is and has its nonce.                                          *)
LEMMA StrayedOpensNothing ==
    ASSUME SealedOK(sealed), NEW all, IsCiphertext(sealed, all, 0), NEW d, NEW got, NEW k,
           Holds(sealed, d, all, got, k), Strayed(sealed, d, all, k),
           NEW size \in Nat, size >= 3, size <= Len(d.in)
    PROVE  ~Opens(d.in, size, d.nonce)
<1> SUFFICES ASSUME Opens(d.in, size, d.nonce) PROVE FALSE
    OBVIOUS
<1> DEFINE m == d.in[1].msg
           n == d.nonce
           c == encryptedSize(0)
           P == Place(sealed, d, k)
<1>1. /\ protocol = "Compact" /\ n > k /\ n \in Nat /\ k \in 0 .. Len(sealed)
      /\ Len(sealed) \in Nat /\ d.in \in Seq(Byte) /\ Len(d.in) \in Nat
    BY DEF Holds, Strayed, Decryptors, SealedOK
<1>2. P \in Nat /\ P = Offset(sealed, k) + (n - k) * c /\ c \in Nat /\ Offset(sealed, k) \in Nat
    BY <1>1, PlaceNat, Overhead DEF Place, NonceAfter
<1>3. sealed[m].nonce = n /\ d.in[3] = [msg |-> m, pos |-> 3, val |-> CipherByte(m, 3)]
  <2>1. 3 \in 3 .. size
      OBVIOUS
  <2> QED BY <1>1, <2>1 DEF Opens, Intact
<1>4. IsByte(sealed, d.in[3], P + 3)
  <2>1. 3 \in 1 .. Len(d.in)
      BY <1>1
  <2> QED BY <2>1, HeldCiphertext DEF IsCiphertext
<1>5. m \in 1 .. Len(sealed) /\ P + 3 = Offset(sealed, m - 1) + 3
    BY <1>3, <1>4 DEF IsByte
<1>6. n = m - 1
    BY <1>1, <1>3, <1>5 DEF SealedOK, NonceAfter
<1> HIDE DEF m, n
<1>7. n \in 1 .. Len(sealed) /\ n - 1 \in 0 .. Len(sealed) /\ n \in 0 .. Len(sealed) /\ k <= n - 1
    BY <1>1, <1>5, <1>6
<1>8. P = Offset(sealed, n) /\ Offset(sealed, n) \in Nat
  <2>1. Offset(sealed, n) \in Nat
      BY <1>7, OffsetNat
  <2> QED BY <1>2, <1>5, <1>6, <2>1
<1>9. /\ TotalIn(sealed, k) <= TotalIn(sealed, n - 1)
      /\ TotalIn(sealed, n) = TotalIn(sealed, n - 1) + Len(sealed[n].data)
      /\ Len(sealed[n].data) \in Nat /\ Len(sealed[n].data) >= 1
    BY <1>1, <1>7, OffsetMonotone, OffsetStep, MaxSize
<1>10. TotalIn(sealed, k) \in Nat /\ TotalIn(sealed, n - 1) \in Nat
    BY <1>1, <1>7, TotalInNat
<1>11. Offset(sealed, k) = k * c + TotalIn(sealed, k) /\ Offset(sealed, n) = n * c + TotalIn(sealed, n)
    BY DEF Offset
<1> DEFINE a == TotalIn(sealed, k)
           b == TotalIn(sealed, n)
<1>12. a \in Nat /\ b \in Nat /\ a < b
    BY <1>9, <1>10
<1>13. (k * c + a) + (n - k) * c = n * c + b
    BY <1>2, <1>8, <1>11
<1> HIDE DEF a, b, c
<1>14. k * c + (n - k) * c = n * c /\ k * c \in Int /\ (n - k) * c \in Int
    BY <1>1, <1>2
<1> DEFINE x == k * c
           y == (n - k) * c
           z == n * c
<1>15. x \in Int /\ y \in Int /\ x + y = z /\ (x + a) + y = z + b
    BY <1>13, <1>14
<1> HIDE DEF x, y, z
<1> QED BY <1>12, <1>15

(* What decrypt() makes of what waits in a decryption stream: the next     *)
(* message, if it is whole and undamaged and the stream has not strayed;   *)
(* an empty message; or nothing.                                           *)
LEMMA DecryptHeld ==
    ASSUME protocol \in Protocols, SealedOK(sealed), NEW all, IsCiphertext(sealed, all, 0),
           NEW d, NEW got, NEW k, Holds(sealed, d, all, got, k),
           NEW r, r = decrypt(d.in, Len(d.in), d.nonce)
    PROVE  /\ r.status \in {"Success", "IncompleteInput", "CorruptData"}
           /\ r.status = "Success" =>
                 \/ /\ d.nonce = NonceAfter(k) /\ NextWhole(d.in, k)
                    /\ r.data = sealed[k + 1].data
                    /\ r.used = encryptedSize(Len(sealed[k + 1].data))
                    /\ r.nonce = NonceAfter(k + 1)
                 \/ /\ NextEmpty(d.in)
                    /\ r.data = <<>> /\ r.used = encryptedSize(0) /\ r.nonce = d.nonce + 1
           /\ d.nonce = NonceAfter(k) /\ NextWhole(d.in, k) => r.status = "Success"
           /\ r.status = "CorruptData" => ~AllUndamaged(sealed, all)
<1> DEFINE p == Place(sealed, d, k)
<1>1. /\ d.in \in Seq(Byte) /\ Len(d.in) \in Nat /\ k \in 0 .. Len(sealed) /\ d.nonce \in Nat
      /\ Len(sealed) \in Nat /\ Len(all) = p + Len(d.in)
      /\ \A j \in 1 .. Len(d.in) : d.in[j] = all[p + j]
      /\ d.nonce = NonceAfter(k) \/ Strayed(sealed, d, all, k)
    BY DEF Holds, Decryptors, SealedOK
<1>2. IsCiphertext(sealed, d.in, p)
    BY HeldCiphertext
<1>3. CASE d.nonce = NonceAfter(k)
  <2>1. p = Offset(sealed, k) /\ p \in Nat
      BY <1>3, PlaceNat
  <2>2. /\ r.status \in {"Success", "IncompleteInput", "CorruptData"}
        /\ r.status = "Success" <=> NextWhole(d.in, k) \/ NextEmpty(d.in)
        /\ NextWhole(d.in, k) =>
              /\ r.data = sealed[k + 1].data
              /\ r.used = encryptedSize(Len(sealed[k + 1].data))
              /\ r.nonce = NonceAfter(k + 1)
        /\ NextEmpty(d.in) =>
              /\ r.data = <<>> /\ r.used = encryptedSize(0) /\ r.nonce = NonceAfter(k) + 1
        /\ r.status = "CorruptData" => ~AllUndamaged(sealed, d.in)
      BY <1>1, <1>2, <1>3, <2>1, DecryptNext
  <2>3. ASSUME r.status = "CorruptData" PROVE ~AllUndamaged(sealed, all)
    <3>1. PICK j \in 1 .. Len(d.in) : ~Undamaged(sealed, d.in[j])
        BY <2>2, <2>3 DEF AllUndamaged
    <3>2. p + j \in 1 .. Len(all) /\ d.in[j] = all[p + j]
      <4> HIDE DEF p
      <4> QED BY <1>1, <2>1, SMTT(60)
    <3> QED BY <3>1, <3>2 DEF AllUndamaged
  <2> QED BY <1>3, <2>2, <2>3
<1>4. CASE d.nonce # NonceAfter(k)
  <2>1. Strayed(sealed, d, all, k) /\ protocol = "Compact"
      BY <1>1, <1>4 DEF Strayed
  <2>2. ~AllUndamaged(sealed, all)
      BY <2>1, StrayedIsDamaged
  <2> DEFINE L == readUint16At(d.in)
  <2>3. Len(d.in) >= 2 => /\ Len(sealed[d.in[1].msg].data) \in Nat
                          /\ L = 0 <=> d.in[1].val = 0 /\ d.in[2].val = 0
    <3> SUFFICES ASSUME Len(d.in) >= 2
                 PROVE  /\ Len(sealed[d.in[1].msg].data) \in Nat
                        /\ L = 0 <=> d.in[1].val = 0 /\ d.in[2].val = 0
        OBVIOUS
    <3>1. 1 \in 1 .. Len(d.in) /\ 2 \in 1 .. Len(d.in)
        BY <1>1
    <3>2. d.in[1].msg \in 1 .. Len(sealed) /\ d.in[1].val < Base /\ d.in[2].val < Base
        BY <1>2, <3>1 DEF IsCiphertext, IsByte
    <3>3. Len(sealed[d.in[1].msg].data) \in 1 .. kMaxMessageSize
        BY <3>2, OffsetStep
    <3>4. L = 0 <=> d.in[1].val = 0 /\ d.in[2].val = 0
        BY <1>1, <2>1, <3>2, <3>3, LengthBytes
    <3> QED BY <3>3, <3>4, MaxSize, SMTT(60)
  <2>4. /\ Len(d.in) < 2 => r.status = "IncompleteInput"
        /\ Len(d.in) >= 2 =>
              /\ L \in Nat /\ encryptedSize(L) \in Nat /\ encryptedSize(L) >= 3
              /\ Len(d.in) < encryptedSize(L) => r.status = "IncompleteInput"
              /\ Len(d.in) >= encryptedSize(L) /\ ~Opens(d.in, encryptedSize(L), d.nonce) =>
                    IF L = 0 THEN r = [status |-> "Success", data |-> <<>>,
                                       used |-> encryptedSize(0), nonce |-> d.nonce + 1]
                    ELSE r.status = "CorruptData"
      BY <1>1, <2>1, <2>3, DecryptCompact, SMTT(60)
  <2>5. Len(d.in) >= 2 /\ Len(d.in) >= encryptedSize(L) => ~Opens(d.in, encryptedSize(L), d.nonce)
    <3> HIDE DEF L
    <3> QED BY <1>1, <2>1, <2>4, StrayedOpensNothing
  <2> HIDE DEF L
  <2>6. CASE Len(d.in) < 2 \/ Len(d.in) < encryptedSize(L)
      BY <1>1, <1>4, <2>4, <2>6
  <2>7. CASE Len(d.in) >= 2 /\ Len(d.in) >= encryptedSize(L) /\ L # 0
      BY <1>4, <2>2, <2>4, <2>5, <2>7
  <2>8. CASE Len(d.in) >= 2 /\ Len(d.in) >= encryptedSize(L) /\ L = 0
    <3>1. NextEmpty(d.in)
        BY <2>1, <2>3, <2>8 DEF NextEmpty
    <3>2. r = [status |-> "Success", data |-> <<>>, used |-> encryptedSize(0),
               nonce |-> d.nonce + 1]
        BY <2>4, <2>5, <2>8
    <3> QED BY <1>4, <3>1, <3>2
  <2> QED BY <1>1, <2>4, <2>6, <2>7, <2>8
<1> QED BY <1>3, <1>4

(* A turn of the loop of push() with the result r of decrypt() ...         *)
Consumed(d, r, e) ==
    e = [d EXCEPT !.out = @ \o r.data, !.in = SubSeq(@, r.used + 1, Len(@)), !.nonce = r.nonce]

(* ... takes the next message from the ciphertext to the cleartext ...     *)
LEMMA OpenedWhole ==
    ASSUME protocol \in Protocols, SealedOK(sealed), NEW all, IsCiphertext(sealed, all, 0),
           NEW d, NEW got, NEW k, Holds(sealed, d, all, got, k), d.nonce = NonceAfter(k),
           NEW r, NextWhole(d.in, k), r.data = sealed[k + 1].data,
           r.used = encryptedSize(Len(sealed[k + 1].data)), r.nonce = NonceAfter(k + 1),
           NEW e, Consumed(d, r, e)
    PROVE  /\ k + 1 \in 0 .. Len(sealed) /\ Holds(sealed, e, all, got, k + 1)
           /\ Len(e.in) < Len(d.in)
<1> DEFINE l == Len(sealed[k + 1].data)
           E == encryptedSize(l)
           O == Offset(sealed, k)
<1>1. /\ d \in Decryptors /\ d.in \in Seq(Byte) /\ Len(d.in) \in Nat /\ d.out \in Seq(Nat)
      /\ Len(d.out) \in Nat /\ got \in Seq(Nat) /\ Len(got) \in Nat
      /\ k \in 0 .. Len(sealed) /\ Len(sealed) \in Nat /\ d.nonce = NonceAfter(k)
      /\ Len(all) = O + Len(d.in)
      /\ \A j \in 1 .. Len(d.in) : d.in[j] = all[O + j]
      /\ Len(got) + Len(d.out) = TotalIn(sealed, k)
      /\ \A j \in 1 .. Len(got) : got[j] = j
      /\ \A j \in 1 .. Len(d.out) : d.out[j] = Len(got) + j
      /\ \A i \in 1 .. O : Undamaged(sealed, all[i])
  <2>1. Place(sealed, d, k) = O
      BY PlaceNat
  <2> QED BY <2>1 DEF Holds, Decryptors, SealedOK
<1>5. /\ Len(d.in) \in Nat /\ Len(d.out) \in Nat /\ Len(got) \in Nat
      /\ Len(all) = O + Len(d.in) /\ Len(got) + Len(d.out) = TotalIn(sealed, k)
    BY <1>1
<1>104. /\ k + 1 \in 1 .. Len(sealed) /\ (k + 1) - 1 = k /\ Len(d.in) >= E
        /\ \A j \in 1 .. E : Undamaged(sealed, d.in[j])
    BY <1>1, SMTT(60) DEF NextWhole
<1>105. /\ l \in 1 .. kMaxMessageSize /\ l \in Nat
        /\ TotalIn(sealed, k + 1) = TotalIn(sealed, k) + l
        /\ Offset(sealed, k + 1) = O + E
    BY <1>104, OffsetStep, MaxSize
<1>106. O \in Nat /\ TotalIn(sealed, k) \in Nat
    BY <1>1, OffsetNat, TotalInNat
<1>107. E \in Nat /\ E > 0
  <2> HIDE DEF l
  <2>1. encryptedSize(l) = encryptedSize(0) + l /\ encryptedSize(0) \in Nat /\ encryptedSize(0) >= 3
      BY <1>105, Overhead
  <2> QED BY <1>105, <2>1
<1> DEFINE x == sealed[k + 1].data
           o == d.out \o x
           i == SubSeq(d.in, E + 1, Len(d.in))
<1>108. x \in Seq(Nat) /\ Len(x) = l /\ \A j \in 1 .. l : x[j] = TotalIn(sealed, k) + j
  <2>1. sealed \in Seq(Message) /\ sealed[k + 1] \in Message
      BY <1>104 DEF SealedOK
  <2>2. x \in Seq(Nat)
      BY <2>1 DEF Message
  <2>3. \A j \in 1 .. l : x[j] = TotalIn(sealed, (k + 1) - 1) + j
      BY <1>104 DEF SealedOK
  <2> QED BY <1>104, <2>2, <2>3
<1>109. NonceAfter(k + 1) \in Nat
    BY <1>1, SMTT(60) DEF NonceAfter
<1> HIDE DEF E, O, l, x
<1>110. /\ o \in Seq(Nat) /\ Len(o) = Len(d.out) + l
        /\ \A j \in 1 .. Len(d.out) : o[j] = d.out[j]
        /\ \A j \in 1 .. l : o[Len(d.out) + j] = x[j]
  <2>1. /\ o \in Seq(Nat) /\ Len(o) = Len(d.out) + Len(x)
        /\ \A j \in 1 .. Len(d.out) : o[j] = d.out[j]
        /\ \A j \in 1 .. Len(x) : o[Len(d.out) + j] = x[j]
    <3> DEFINE p == d.out
    <3>1. p \in Seq(Nat) /\ x \in Seq(Nat)
        BY <1>1, <1>108
    <3> HIDE DEF p
    <3>2. /\ p \o x \in Seq(Nat) /\ Len(p \o x) = Len(p) + Len(x)
          /\ \A j \in 1 .. Len(p) : (p \o x)[j] = p[j]
          /\ \A j \in 1 .. Len(x) : (p \o x)[Len(p) + j] = x[j]
        BY <3>1
    <3> QED BY <3>2 DEF p
  <2> HIDE DEF o
  <2> QED BY <1>108, <2>1
<1>111. /\ i \in Seq(Byte) /\ Len(i) = Len(d.in) - E
        /\ \A j \in 1 .. Len(d.in) - E : i[j] = d.in[E + j]
  <2> DEFINE p == d.in
  <2>1. E \in 0 .. Len(p) /\ Len(p) \in E .. Len(p) /\ p \in Seq(Byte)
      BY <1>1, <1>104, <1>107
  <2> HIDE DEF p
  <2>2. /\ SubSeq(p, E + 1, Len(p)) \in Seq(Byte) /\ Len(SubSeq(p, E + 1, Len(p))) = Len(p) - E
        /\ \A j \in 1 .. Len(p) - E : SubSeq(p, E + 1, Len(p))[j] = p[E + j]
      BY <2>1, SubSeqFacts
  <2> QED BY <2>2 DEF p
<1>112. e = [d EXCEPT !.out = o, !.in = i, !.nonce = NonceAfter(k + 1)]
    BY DEF Consumed, x, E, l
<1> HIDE DEF o, i
<1>113. e \in Decryptors /\ e.out = o /\ e.in = i /\ e.nonce = NonceAfter(k + 1)
    BY <1>1, <1>109, <1>110, <1>111, <1>112 DEF Decryptors
<1>114. Len(all) = Offset(sealed, k + 1) + Len(e.in) /\ Len(e.in) < Len(d.in)
  <2>1. Len(e.in) = Len(d.in) - E
      BY <1>111, <1>113
  <2> QED BY <1>5, <1>104, <1>105, <1>106, <1>107, <2>1, SMTT(60)
<1>115. ASSUME NEW j \in 1 .. Len(e.in) PROVE e.in[j] = all[Offset(sealed, k + 1) + j]
  <2>1. j \in 1 .. Len(d.in) - E /\ E + j \in 1 .. Len(d.in) /\ j \in Nat
      BY <1>1, <1>104, <1>107, <1>111, <1>113, SMTT(60)
  <2>2. e.in[j] = all[O + (E + j)]
      BY <1>1, <1>111, <1>113, <2>1
  <2>3. O + (E + j) = Offset(sealed, k + 1) + j
      BY <1>105, <1>106, <1>107, <2>1
  <2> QED BY <2>2, <2>3
<1>116. Len(got) + Len(e.out) = TotalIn(sealed, k + 1)
  <2>1. Len(e.out) = Len(d.out) + l
      BY <1>110, <1>113
  <2> QED BY <1>5, <1>105, <1>106, <2>1
<1>117. ASSUME NEW j \in 1 .. Len(e.out) PROVE e.out[j] = Len(got) + j
  <2>0. Len(e.out) = Len(d.out) + l
      BY <1>110, <1>113
  <2>1. CASE j <= Len(d.out)
    <3>1. j \in 1 .. Len(d.out)
        BY <1>5, <1>105, <2>0, <2>1
    <3> QED BY <1>1, <1>110, <1>113, <3>1
  <2>2. CASE j > Len(d.out)
    <3>1. j - Len(d.out) \in 1 .. l /\ Len(d.out) + (j - Len(d.out)) = j
        BY <1>5, <1>105, <2>0, <2>2
    <3>2. e.out[j] = TotalIn(sealed, k) + (j - Len(d.out))
      <4>1. e.out[j] = x[j - Len(d.out)]
          BY <1>110, <1>113, <3>1
      <4> QED BY <1>108, <3>1, <4>1
    <3> QED BY <1>5, <1>105, <1>106, <3>1, <3>2
  <2> QED BY <1>5, <1>105, <2>0, <2>1, <2>2
<1>118. ASSUME NEW m \in 1 .. Offset(sealed, k + 1) PROVE Undamaged(sealed, all[m])
  <2>1. CASE m <= O
    <3>1. m \in 1 .. O
        BY <1>105, <1>106, <1>107, <2>1
    <3> QED BY <1>1, <3>1
  <2>2. CASE m > O
    <3>1. m - O \in 1 .. E /\ m - O \in 1 .. Len(d.in) /\ O + (m - O) = m
        BY <1>1, <1>104, <1>105, <1>106, <1>107, <2>2
    <3> QED BY <1>1, <1>104, <3>1
  <2> QED BY <1>105, <1>106, <1>107, <2>1, <2>2
<1>119. k + 1 \in 0 .. Len(sealed)
    BY <1>1, <1>104
<1>121. Place(sealed, e, k + 1) = Offset(sealed, k + 1)
  <2> DEFINE c == encryptedSize(0)
             n == NonceAfter(k + 1)
  <2>1. c \in Nat /\ n \in Nat
      BY <1>109, Overhead
  <2>2. Place(sealed, e, k + 1) = Offset(sealed, k + 1) + (n - n) * c
      BY <1>113 DEF Place
  <2> HIDE DEF c, n
  <2>3. (n - n) * c = 0
      BY <2>1
  <2>4. Offset(sealed, k + 1) \in Nat
      BY <1>119, OffsetNat
  <2> QED BY <2>2, <2>3, <2>4
<1>120. Holds(sealed, e, all, got, k + 1)
    BY <1>121, <1>1, <1>113, <1>114, <1>115, <1>116, <1>117, <1>118, <1>119 DEF Holds
<1> QED BY <1>114, <1>119, <1>120

(* ... or drops what reads as an empty message, and from then on strays    *)
(* ...                                                                     *)
LEMMA OpenedEmpty ==
    ASSUME protocol \in Protocols, SealedOK(sealed), NEW all, IsCiphertext(sealed, all, 0),
           NEW d, NEW got, NEW k, Holds(sealed, d, all, got, k),
           NEW r, NextEmpty(d.in), r.data = <<>>, r.used = encryptedSize(0), r.nonce = d.nonce + 1,
           NEW e, Consumed(d, r, e)
    PROVE  Holds(sealed, e, all, got, k) /\ Strayed(sealed, e, all, k) /\ Len(e.in) < Len(d.in)
<1> DEFINE c == encryptedSize(0)
           O == Offset(sealed, k)
           P == Place(sealed, d, k)
           Q == Place(sealed, e, k)
           i == SubSeq(d.in, c + 1, Len(d.in))
<1>1. /\ d \in Decryptors /\ d.in \in Seq(Byte) /\ Len(d.in) \in Nat /\ d.out \in Seq(Nat)
      /\ k \in 0 .. Len(sealed) /\ Len(sealed) \in Nat /\ d.nonce \in Nat
      /\ Len(all) = P + Len(d.in)
      /\ \A j \in 1 .. Len(d.in) : d.in[j] = all[P + j]
      /\ d.nonce = NonceAfter(k) \/ Strayed(sealed, d, all, k)
    BY DEF Holds, Decryptors, SealedOK
<1>2. protocol = "Compact" /\ Len(d.in) >= c /\ d.in[1].val = 0 /\ d.in[2].val = 0
    BY DEF NextEmpty
<1>3. c \in Nat /\ c >= 3 /\ NonceAfter(k) = k /\ k \in Nat
    BY <1>1, <1>2, Overhead DEF NonceAfter
<1>4. P \in Nat /\ O \in Nat /\ (d.nonce = k => P = O)
    BY <1>3, PlaceNat
<1>5. d.nonce >= k
    BY <1>1, <1>3 DEF Strayed
<1>6. d.out \o <<>> = d.out
    BY <1>1
<1>7. /\ i \in Seq(Byte) /\ Len(i) = Len(d.in) - c
      /\ \A j \in 1 .. Len(d.in) - c : i[j] = d.in[c + j]
  <2> DEFINE p == d.in
  <2>1. c \in 0 .. Len(p) /\ Len(p) \in c .. Len(p) /\ p \in Seq(Byte)
      BY <1>1, <1>2, <1>3
  <2> HIDE DEF p, c
  <2>2. /\ SubSeq(p, c + 1, Len(p)) \in Seq(Byte) /\ Len(SubSeq(p, c + 1, Len(p))) = Len(p) - c
        /\ \A j \in 1 .. Len(p) - c : SubSeq(p, c + 1, Len(p))[j] = p[c + j]
      BY <2>1, SubSeqFacts
  <2> QED BY <2>2 DEF p
<1>8. e = [d EXCEPT !.out = d.out, !.in = i, !.nonce = d.nonce + 1]
    BY <1>6 DEF Consumed
<1> HIDE DEF i
<1>9. /\ e \in Decryptors /\ e.out = d.out /\ e.in = i /\ e.nonce = d.nonce + 1
  <2> DEFINE n == d.nonce + 1
  <2>1. n \in Nat /\ e = [d EXCEPT !.out = d.out, !.in = i, !.nonce = n]
      BY <1>1, <1>8
  <2> HIDE DEF n
  <2>2. e \in Decryptors /\ e.out = d.out /\ e.in = i /\ e.nonce = n
      BY <1>1, <1>7, <2>1 DEF Decryptors
  <2> QED BY <2>2 DEF n
<1>10. Q = P + c
  <2> DEFINE x == d.nonce - k
  <2>1. x \in Nat /\ (d.nonce + 1) - k = x + 1
      BY <1>1, <1>3, <1>5, SMTT(60)
  <2>2. P = O + x * c /\ Q = O + (x + 1) * c
    <3>1. P = O + (d.nonce - k) * c /\ Q = O + ((d.nonce + 1) - k) * c
        BY <1>3, <1>9 DEF Place
    <3> QED BY <2>1, <3>1
  <2> HIDE DEF x, c, P, Q, O
  <2> DEFINE y == x * c
             z == (x + 1) * c
  <2>3. z = y + c /\ y \in Nat
      BY <1>3, <2>1, TimesStep
  <2>4. P = O + y /\ Q = O + z
      BY <2>2
  <2> HIDE DEF y, z
  <2> QED BY <1>3, <1>4, <2>3, <2>4
<1> DEFINE a == Len(d.in)
           b == Len(e.in)
<1>16. a \in Nat /\ a >= c /\ b = a - c /\ Len(all) = P + a
    BY <1>1, <1>2, <1>7, <1>9
<1> HIDE DEF P, Q, c, O, a, b
<1>11. Len(all) = Q + Len(e.in) /\ Len(e.in) < Len(d.in)
  <2>1. Len(all) = Q + b /\ b < a
      BY <1>3, <1>4, <1>10, <1>16
  <2> QED BY <2>1 DEF a, b
<1>12. ASSUME NEW j \in 1 .. Len(e.in) PROVE e.in[j] = all[Q + j]
  <2>1. j \in 1 .. Len(d.in) - c /\ c + j \in 1 .. Len(d.in) /\ P + (c + j) = Q + j
    <3>1. j \in 1 .. b
        BY DEF b
    <3>2. j \in 1 .. a - c /\ c + j \in 1 .. a /\ P + (c + j) = Q + j
        BY <1>3, <1>4, <1>10, <1>16, <3>1
    <3> QED BY <3>2 DEF a
  <2>2. e.in[j] = d.in[c + j] /\ d.in[c + j] = all[P + (c + j)]
      BY <1>1, <1>7, <1>9, <2>1
  <2> QED BY <2>1, <2>2
<1>13. all[O + 1].val = 0 /\ all[O + 2].val = 0
  <2>1. CASE d.nonce = k
    <3>1. 1 \in 1 .. Len(d.in) /\ 2 \in 1 .. Len(d.in) /\ P = O
      <4>1. 1 \in 1 .. a /\ 2 \in 1 .. a /\ P = O
          BY <1>3, <1>4, <1>16, <2>1
      <4> QED BY <4>1 DEF a
    <3> QED BY <1>1, <1>2, <3>1
  <2>2. CASE Strayed(sealed, d, all, k)
      BY <2>2 DEF Strayed, O
  <2> QED BY <1>1, <1>3, <2>1, <2>2
<1>14. Strayed(sealed, e, all, k)
  <2>1. e.nonce > k
      BY <1>1, <1>3, <1>5, <1>9
  <2> QED BY <1>2, <1>13, <2>1 DEF Strayed, O
<1>15. Holds(sealed, e, all, got, k)
    BY <1>9, <1>11, <1>12, <1>14 DEF Holds, Q
<1> QED BY <1>11, <1>14, <1>15

(* ... or changes nothing.                                                 *)
LEMMA OpenedOK ==
    ASSUME protocol \in Protocols, SealedOK(sealed), NEW all, IsCiphertext(sealed, all, 0),
           NEW d, NEW got, NEW k, Holds(sealed, d, all, got, k)
    PROVE  LET e == Opened(d)
               r == decrypt(d.in, Len(d.in), d.nonce)
           IN  /\ r.status # "Success" => e = d
               /\ r.status = "Success" =>
                     /\ \E m \in k .. Len(sealed) : Holds(sealed, e, all, got, m)
                     /\ Len(e.in) < Len(d.in)
<1> DEFINE e == Opened(d)
           r == decrypt(d.in, Len(d.in), d.nonce)
<1>1. k \in 0 .. Len(sealed) /\ Len(sealed) \in Nat
    BY DEF Holds, SealedOK
<1>2. CASE r.status # "Success"
  <2>1. e = d
      BY <1>2 DEF Opened
  <2> QED BY <1>2, <2>1
<1>3. CASE r.status = "Success"
  <2>1. Consumed(d, r, e)
      BY <1>3 DEF Opened, Consumed
  <2>2. \/ /\ d.nonce = NonceAfter(k) /\ NextWhole(d.in, k)
           /\ r.data = sealed[k + 1].data
           /\ r.used = encryptedSize(Len(sealed[k + 1].data))
           /\ r.nonce = NonceAfter(k + 1)
        \/ /\ NextEmpty(d.in)
           /\ r.data = <<>> /\ r.used = encryptedSize(0) /\ r.nonce = d.nonce + 1
    <3>1. r = decrypt(d.in, Len(d.in), d.nonce)
        OBVIOUS
    <3> HIDE DEF r
    <3> QED BY <1>3, <3>1, DecryptHeld
  <2> HIDE DEF r, e
  <2>3. CASE /\ d.nonce = NonceAfter(k) /\ NextWhole(d.in, k)
             /\ r.data = sealed[k + 1].data
             /\ r.used = encryptedSize(Len(sealed[k + 1].data))
             /\ r.nonce = NonceAfter(k + 1)
    <3>1. /\ k + 1 \in 0 .. Len(sealed) /\ Holds(sealed, e, all, got, k + 1)
          /\ Len(e.in) < Len(d.in)
        BY <2>1, <2>3, OpenedWhole
    <3>2. k + 1 \in k .. Len(sealed)
        BY <1>1, <3>1
    <3> QED BY <1>3, <3>1, <3>2 DEF e, r
  <2>4. CASE /\ NextEmpty(d.in)
             /\ r.data = <<>> /\ r.used = encryptedSize(0) /\ r.nonce = d.nonce + 1
    <3>1. Holds(sealed, e, all, got, k) /\ Len(e.in) < Len(d.in)
        BY <2>1, <2>4, OpenedEmpty
    <3>2. k \in k .. Len(sealed)
        BY <1>1
    <3> QED BY <1>3, <3>1, <3>2 DEF e, r
  <2> QED BY <2>2, <2>3, <2>4
<1> QED BY <1>2, <1>3

(* The same of the loop of push().                                         *)
OpenedAll(S) == {Opened(e) : e \in S}

(* The recursive function of push()'s loop exists. *)
LEMMA OpeningsExist ==
    ASSUME NEW x, NEW N \in Nat
    PROVE  \E g : g = [n \in 0 .. N |-> IF n = 0 THEN x ELSE OpenedAll(g[n - 1])]
<1> DEFINE F(n, g) == [i \in 0 .. n |-> IF i = 0 THEN x ELSE OpenedAll(g[i - 1])]
           G == {n \in 0 .. N : \E g : g = F(n, g)}
<1>1. 0 \in G
  <2> DEFINE g0 == [i \in 0 .. 0 |-> x]
  <2>1. g0 = F(0, g0) /\ 0 \in 0 .. N
      OBVIOUS
  <2> HIDE DEF g0, F
  <2> QED BY <2>1
<1>2. ASSUME NEW n \in 0 .. N - 1, n \in G PROVE n + 1 \in G
  <2>1. PICK g : g = F(n, g)
      BY <1>2
  <2> DEFINE h == [i \in 0 .. n + 1 |-> IF i = n + 1 THEN OpenedAll(g[n]) ELSE g[i]]
  <2>2. \A i \in 0 .. n : h[i] = g[i]
      OBVIOUS
  <2>3. \A i \in 0 .. n : g[i] = IF i = 0 THEN x ELSE OpenedAll(g[i - 1])
    <3> HIDE DEF h
    <3> QED BY <2>1
  <2>4. ASSUME NEW i \in 0 .. n + 1 PROVE h[i] = IF i = 0 THEN x ELSE OpenedAll(h[i - 1])
    <3>1. CASE i = n + 1
      <4>1. h[i] = OpenedAll(g[n]) /\ h[i - 1] = g[n]
          BY <2>2, <3>1
      <4> HIDE DEF h
      <4> QED BY <3>1, <4>1
    <3>2. CASE i # n + 1
      <4>1. i \in 0 .. n
          BY <3>2
      <4>2. i # 0 => h[i - 1] = g[i - 1]
          BY <2>2, <4>1
      <4> HIDE DEF h
      <4> QED BY <2>2, <2>3, <4>1, <4>2
    <3> QED BY <3>1, <3>2
  <2>5. h = [i \in 0 .. n + 1 |-> h[i]]
      OBVIOUS
  <2>6. h = F(n + 1, h)
    <3> HIDE DEF h
    <3> QED BY <2>4, <2>5
  <2>7. n + 1 \in 0 .. N
      OBVIOUS
  <2> HIDE DEF h, F
  <2> QED BY <2>6, <2>7
<1> HIDE DEF G
<1>3. N \in G
  <2>1. \A n \in 0 .. N : n \in G
      BY <1>1, <1>2, InductionUpTo
  <2> QED BY <2>1
<1> QED BY <1>3 DEF G

(* The turns of push()'s loop follow one another. *)
LEMMA OpeningsRec ==
    ASSUME NEW d, Len(d.in) \in Nat
    PROVE  /\ Openings(d)[0] = {d}
           /\ \A n \in 0 .. Len(d.in) - 1 :
                 Openings(d)[n + 1] = OpenedAll(Openings(d)[n])
<1> DEFINE x == {d}
           N == Len(d.in)
           f == Openings(d)
<1>1. f = CHOOSE g : g = [n \in 0 .. N |-> IF n = 0 THEN x ELSE OpenedAll(g[n - 1])]
    BY DEF Openings, OpenedAll
<1>2. N \in Nat
    OBVIOUS
<1> HIDE DEF x, N, f
<1>3. \E g : g = [n \in 0 .. N |-> IF n = 0 THEN x ELSE OpenedAll(g[n - 1])]
    BY <1>2, OpeningsExist, ZenonT(60)
<1>4. f = [n \in 0 .. N |-> IF n = 0 THEN x ELSE OpenedAll(f[n - 1])]
    BY <1>1, <1>3
<1>5. ASSUME NEW n \in 0 .. N PROVE f[n] = IF n = 0 THEN x ELSE OpenedAll(f[n - 1])
    BY <1>4
<1>6. f[0] = x
    BY <1>2, <1>5
<1>7. ASSUME NEW n \in 0 .. N - 1 PROVE f[n + 1] = OpenedAll(f[n])
  <2>1. n + 1 \in 0 .. N /\ n + 1 # 0 /\ (n + 1) - 1 = n
      BY <1>2
  <2> QED BY <1>5, <2>1
<1> QED BY <1>6, <1>7 DEF f, x, N

(* push() of a decryption stream: it decrypts messages while it can, ends  *)
(* with a verdict on the rest, never lacks room, finds corruption only     *)
(* where there is some, and does nothing more on a stream found corrupt.   *)
LEMMA DecryptedOK ==
    ASSUME protocol \in Protocols, SealedOK(sealed), NEW all, IsCiphertext(sealed, all, 0),
           NEW d, NEW got, NEW k, Holds(sealed, d, all, got, k), NEW f, f = Decrypted(d)
    PROVE  /\ Stopped(f) /\ \E m \in k .. Len(sealed) : Holds(sealed, f, all, got, m)
           /\ f.status \in {"IncompleteInput", "CorruptData"}
           /\ f.status = "CorruptData" => ~AllUndamaged(sealed, all)
           /\ decrypt(d.in, Len(d.in), d.nonce).status = "CorruptData" =>
                 f.out = d.out /\ f.status = "CorruptData"
<1> DEFINE Stuck(e) == decrypt(e.in, Len(e.in), e.nonce).status # "Success"
           N == Len(d.in)
           O == Openings(d)
           P(n) == \E e : \E m \in k .. Len(sealed) :
                      /\ O[n] = {e} /\ Holds(sealed, e, all, got, m)
                      /\ Stuck(e) \/ Len(e.in) + n <= N
                      /\ Stuck(d) => e = d
           G == {n \in 0 .. N : P(n)}
<1>1. N \in Nat /\ k \in 0 .. Len(sealed) /\ Len(sealed) \in Nat
    BY DEF Holds, Decryptors, SealedOK
<1>2. O[0] = {d} /\ \A n \in 0 .. N - 1 : O[n + 1] = OpenedAll(O[n])
    BY <1>1, OpeningsRec
<1> HIDE DEF O, Stuck
<1>3. P(0)
  <2>1. k \in k .. Len(sealed) /\ Len(d.in) + 0 <= N
      BY <1>1
  <2> QED BY <1>2, <2>1
<1>4. ASSUME NEW n \in 0 .. N - 1, P(n) PROVE P(n + 1)
  <2>0. PICK e : \E m \in k .. Len(sealed) :
              /\ O[n] = {e} /\ Holds(sealed, e, all, got, m)
              /\ Stuck(e) \/ Len(e.in) + n <= N
              /\ Stuck(d) => e = d
      BY <1>4
  <2>1. PICK m \in k .. Len(sealed) :
              /\ O[n] = {e} /\ Holds(sealed, e, all, got, m)
              /\ Stuck(e) \/ Len(e.in) + n <= N
              /\ Stuck(d) => e = d
      BY <2>0
  <2> DEFINE g == Opened(e)
  <2>2. O[n + 1] = {g}
    <3>1. O[n + 1] = OpenedAll({e})
        BY <1>2, <2>1
    <3>2. OpenedAll({e}) = {g}
        BY DEF OpenedAll
    <3> QED BY <3>1, <3>2
  <2>3. /\ Stuck(e) => g = e
        /\ ~Stuck(e) => /\ \E q \in m .. Len(sealed) : Holds(sealed, g, all, got, q)
                        /\ Len(g.in) < Len(e.in)
      BY <2>1, OpenedOK DEF Stuck
  <2> HIDE DEF g
  <2>4. CASE Stuck(e)
      BY <2>1, <2>2, <2>3, <2>4
  <2>5. CASE ~Stuck(e)
    <3> DEFINE a == Len(e.in)
               b == Len(g.in)
    <3>0. PICK q \in m .. Len(sealed) : Holds(sealed, g, all, got, q)
        BY <2>3, <2>5
    <3>1. Holds(sealed, g, all, got, q) /\ b < a /\ a + n <= N
        BY <2>1, <2>3, <2>5, <3>0
    <3>2. a \in Nat /\ b \in Nat
      <4>1. e \in Decryptors /\ g \in Decryptors
          BY <2>1, <3>1 DEF Holds
      <4>2. e.in \in Seq(Byte) /\ g.in \in Seq(Byte)
          BY <4>1 DEF Decryptors
      <4> QED BY <4>2
    <3> HIDE DEF a, b, N
    <3>3. b + (n + 1) <= N /\ q \in k .. Len(sealed)
        BY <1>1, <3>1, <3>2
    <3>4. ~Stuck(d)
        BY <2>1, <2>5
    <3> QED BY <2>2, <3>1, <3>3, <3>4 DEF b
  <2> QED BY <2>4, <2>5
<1>5. P(N)
  <2>1. 0 \in G
      BY <1>1, <1>3
  <2>2. ASSUME NEW n \in 0 .. N - 1, n \in G PROVE n + 1 \in G
    <3>1. n + 1 \in 0 .. N /\ P(n)
        BY <1>1, <2>2
    <3>2. P(n + 1)
        BY <1>4, <3>1
    <3> HIDE DEF P
    <3> QED BY <3>1, <3>2
  <2> HIDE DEF G
  <2>3. N \in G
    <3>1. \A n \in 0 .. N : n \in G
        BY <1>1, <2>1, <2>2, InductionUpTo
    <3> QED BY <1>1, <3>1
  <2> HIDE DEF P
  <2> QED BY <2>3 DEF G
<1>60. PICK e : \E m \in k .. Len(sealed) :
            /\ O[N] = {e} /\ Holds(sealed, e, all, got, m)
            /\ Stuck(e) \/ Len(e.in) + N <= N
            /\ Stuck(d) => e = d
    BY <1>5
<1>6. PICK m \in k .. Len(sealed) :
            /\ O[N] = {e} /\ Holds(sealed, e, all, got, m)
            /\ Stuck(e) \/ Len(e.in) + N <= N
            /\ Stuck(d) => e = d
    BY <1>60
<1> DEFINE r == decrypt(e.in, Len(e.in), e.nonce)
<1>7. e \in Decryptors /\ e.in \in Seq(Byte) /\ Len(e.in) \in Nat
    BY <1>6 DEF Holds, Decryptors
<1>8. /\ r.status \in {"Success", "IncompleteInput", "CorruptData"}
      /\ r.status = "CorruptData" => ~AllUndamaged(sealed, all)
    BY <1>6, DecryptHeld
<1>9. Stuck(e)
  <2> SUFFICES ASSUME ~Stuck(e) PROVE FALSE
      OBVIOUS
  <2>1. Len(Opened(e).in) < Len(e.in) /\ \E q \in m .. Len(sealed) : Holds(sealed, Opened(e), all, got, q)
      BY <1>6, OpenedOK DEF Stuck
  <2>2. Opened(e) \in Decryptors
      BY <2>1 DEF Holds
  <2>3. Len(Opened(e).in) \in Nat
      BY <2>2 DEF Decryptors
  <2> DEFINE a == Len(e.in)
             b == Len(Opened(e).in)
  <2>4. a \in Nat /\ b \in Nat /\ b < a /\ a + N <= N
      BY <1>6, <1>7, <2>1, <2>3
  <2> HIDE DEF a, b, N
  <2> QED BY <1>1, <2>4
<1>10. f = [e EXCEPT !.status = r.status]
  <2>1. {Ended(b) : b \in O[N]} = {Ended(e)}
      BY <1>6
  <2>2. f = Ended(e)
      BY <2>1 DEF Decrypted, O
  <2> QED BY <2>2 DEF Ended
<1> HIDE DEF r
<1>11. r.status \in Statuses
    BY <1>8 DEF Statuses
<1>12. f \in Decryptors /\ f.in = e.in /\ f.out = e.out /\ f.nonce = e.nonce /\ f.status = r.status
    BY <1>7, <1>10, <1>11 DEF Decryptors
<1>13. Stopped(f)
    BY <1>9, <1>12 DEF Stopped, Stuck, r
<1>14. Holds(sealed, f, all, got, m)
    BY <1>6, <1>12 DEF Holds, Place, Strayed
<1>15. r.status \in {"IncompleteInput", "CorruptData"}
    BY <1>8, <1>9 DEF Stuck, r
<1>17. ASSUME decrypt(d.in, Len(d.in), d.nonce).status = "CorruptData"
       PROVE  f.out = d.out /\ f.status = "CorruptData"
  <2>1. Stuck(d)
      BY <1>17 DEF Stuck
  <2>2. e = d
      BY <1>6, <2>1
  <2> QED BY <1>12, <1>17, <2>2 DEF r
<1> QED BY <1>8, <1>12, <1>13, <1>14, <1>15, <1>17


----------------------------------------------------------------------------
(* The first k messages are whole and undamaged in the ciphertext all. *)
Arrived(all, k) ==
    /\ k \in 0 .. Len(sealed) /\ Offset(sealed, k) <= Len(all)
    /\ \A i \in 1 .. Offset(sealed, k) : Undamaged(sealed, all[i])

(* The reference definitions Whole and CleartextSize count the messages    *)
(* that are, up to the first that is not.                                  *)
LEMMA WholeUpTo ==
    ASSUME SealedOK(sealed), NEW all, IsCiphertext(sealed, all, 0),
           NEW k, Arrived(all, k), ~Arrived(all, k + 1)
    PROVE  Whole(all) = Offset(sealed, k) /\ CleartextSize(all) = TotalIn(sealed, k)
<1> DEFINE O == Offset(sealed, k)
           size(b) == Len(sealed[b.msg].data)
           damaged == {i \in DOMAIN all :
                           all[i].val # ByteOf(all[i].msg, size(all[i]), all[i].pos)}
           Ends == {n \in DOMAIN all : /\ all[n].pos = encryptedSize(size(all[n]))
                                       /\ \A i \in damaged : n < i}
           L == Len(all)
<1>1. /\ k \in 0 .. Len(sealed) /\ Len(sealed) \in Nat /\ all \in Seq(Byte) /\ L \in Nat
      /\ DOMAIN all = 1 .. L /\ O <= L
      /\ \A i \in 1 .. O : Undamaged(sealed, all[i])
      /\ \A j \in 1 .. L : IsByte(sealed, all[j], 0 + j)
    BY DEF Arrived, SealedOK, IsCiphertext
<1>2. O \in Nat /\ Offset(sealed, 0) = 0
    BY <1>1, OffsetNat
<1>3. \A i \in 1 .. L : i \in damaged <=> ~Undamaged(sealed, all[i])
    BY <1>1 DEF Undamaged
<1>4. ASSUME k > 0
      PROVE  O > 0 /\ O \in Ends /\ all[O].msg = k
  <2> DEFINE m == k - 1
             E == encryptedSize(Len(sealed[k].data))
  <2>1. m \in 0 .. Len(sealed) /\ k \in 1 .. Len(sealed) /\ m + 1 = k
      BY <1>1, <1>4
  <2>2. O = Offset(sealed, m) + E /\ Len(sealed[k].data) \in Nat
      BY <2>1, OffsetStep, MaxSize
  <2>3. E \in Nat \ {0}
    <3> DEFINE l == Len(sealed[k].data)
    <3>0. l \in Nat
        BY <2>2
    <3> HIDE DEF l
    <3>1. encryptedSize(l) = encryptedSize(0) + l /\ encryptedSize(0) \in Nat /\ encryptedSize(0) >= 3
        BY <3>0, Overhead
    <3>2. encryptedSize(l) \in Nat \ {0}
        BY <3>0, <3>1
    <3> QED BY <3>2 DEF l
  <2>4. Offset(sealed, m) \in Nat
      BY <2>1, OffsetNat
  <2> HIDE DEF E, m
  <2>5. O > 0 /\ O \in 1 .. L /\ 0 + O = Offset(sealed, m) + E
    <3> DEFINE o == O
    <3>1. o \in Nat /\ o <= L /\ L \in Nat /\ o = Offset(sealed, m) + E
        BY <1>1, <1>2, <2>2
    <3> HIDE DEF o, L
    <3>2. o > 0 /\ o \in 1 .. L /\ 0 + o = Offset(sealed, m) + E
        BY <2>3, <2>4, <3>1
    <3> QED BY <3>2 DEF o
  <2>6. IsByte(sealed, all[O], Offset(sealed, m) + E)
      BY <1>1, <2>5
  <2>7. /\ E <= encryptedSize(Len(sealed[m + 1].data)) => all[O].msg = m + 1 /\ all[O].pos = E
    <3> HIDE DEF O
    <3> QED BY <2>1, <2>3, <2>6, BytePlace
  <2>8. all[O].msg = k /\ all[O].pos = encryptedSize(size(all[O]))
      BY <2>1, <2>3, <2>7 DEF E
  <2>9. \A i \in damaged : O < i
    <3> SUFFICES ASSUME NEW i \in damaged PROVE O < i
        OBVIOUS
    <3>1. i \in 1 .. L /\ ~Undamaged(sealed, all[i])
        BY <1>1, <1>3
    <3>2. i \notin 1 .. O
        BY <1>1, <3>1
    <3> HIDE DEF O, damaged, L
    <3> QED BY <1>2, <3>1, <3>2
  <2> HIDE DEF damaged
  <2> QED BY <1>1, <2>5, <2>8, <2>9
<1>5. ASSUME NEW n \in Ends, n > O PROVE FALSE
  <2> DEFINE b == all[n]
             m == b.msg
             j == n - O
  <2>1. n \in 1 .. L /\ b.pos = encryptedSize(Len(sealed[m].data)) /\ \A i \in damaged : n < i
      BY <1>1, <1>5
  <2>2. j \in Nat \ {0} /\ O + j = n /\ 0 + n = n
    <3> DEFINE o == O
    <3>1. o \in Nat /\ L \in Nat /\ n > o
        BY <1>1, <1>2, <1>5
    <3> HIDE DEF o, L
    <3>2. n - o \in Nat \ {0} /\ o + (n - o) = n /\ 0 + n = n
        BY <2>1, <3>1
    <3> QED BY <3>2 DEF o
  <2>3. IsByte(sealed, b, n)
      BY <1>1, <2>1, <2>2
  <2> HIDE DEF b, j, Ends, damaged
  <2>4. k < Len(sealed) /\ m > k
      BY <1>1, <2>2, <2>3, BytePlace
  <2>5. m \in 1 .. Len(sealed) /\ n = Offset(sealed, m - 1) + b.pos
      BY <2>3 DEF IsByte
  <2>6. n = Offset(sealed, m)
      BY <2>1, <2>5, OffsetStep
  <2>7. k + 1 \in 1 .. Len(sealed) /\ m \in 0 .. Len(sealed) /\ k + 1 \in 0 .. Len(sealed)
        /\ k + 1 <= m /\ (k + 1) - 1 = k
      BY <1>1, <2>4, <2>5
  <2>8. Offset(sealed, k + 1) <= n
      BY <2>6, <2>7, OffsetMonotone
  <2> DEFINE z == Offset(sealed, k + 1)
  <2>9. z \in Nat /\ z <= n
      BY <2>7, <2>8, OffsetNat
  <2> HIDE DEF z, L
  <2>10. z <= L
      BY <1>1, <2>1, <2>9
  <2>11. ASSUME NEW i \in 1 .. z PROVE Undamaged(sealed, all[i])
    <3>1. i \in 1 .. L /\ i <= n /\ ~(n < i)
        BY <1>1, <2>1, <2>9, <2>10
    <3> QED BY <1>3, <2>1, <3>1
  <2>12. Arrived(all, k + 1)
      BY <2>7, <2>10, <2>11 DEF Arrived, z, L
  <2> QED BY <2>12
<1>6. O \in {0} \cup Ends /\ \A n \in {0} \cup Ends : O >= n
  <2>1. O \in {0} \cup Ends
    <3>1. CASE k = 0
        BY <1>2, <3>1
    <3>2. CASE k > 0
        BY <1>4, <3>2
    <3> QED BY <1>1, <3>1, <3>2
  <2>2. \A n \in Ends : n \in Nat
      BY <1>1
  <2> HIDE DEF Ends, O
  <2> QED BY <1>2, <1>5, <2>1, <2>2
<1>7. \A n \in {0} \cup Ends : n \in Nat
    BY <1>1
<1>8. Whole(all) = O
  <2>1. Whole(all) = Max({0} \cup Ends)
      BY DEF Whole
  <2> HIDE DEF Ends, O
  <2>2. \A n \in {0} \cup Ends : (\A y \in {0} \cup Ends : n >= y) => n = O
      BY <1>2, <1>6, <1>7
  <2>3. Max({0} \cup Ends) = O
      BY <1>6, <2>2 DEF Max
  <2> QED BY <2>1, <2>3
<1>9. CleartextSize(all) = TotalIn(sealed, k)
  <2> HIDE DEF O
  <2>1. CASE k = 0
    <3>1. O = 0
        BY <1>2, <2>1 DEF O
    <3> QED BY <1>8, <2>1, <3>1 DEF CleartextSize, TotalIn
  <2>2. CASE k > 0
    <3>1. O # 0 /\ k # 0 /\ all[O].msg = k
        BY <1>2, <1>4, <2>2
    <3> QED BY <1>8, <3>1 DEF CleartextSize, TotalIn
  <2> QED BY <1>1, <2>1, <2>2
<1> QED BY <1>8, <1>9

(* They agree with what a decryption stream has decrypted when its loop    *)
(* has come to its end; what it holds then tells whether a message was cut *)
(* off or damaged, unless it strayed.                                      *)
LEMMA WholeIs ==
    ASSUME protocol \in Protocols, SealedOK(sealed), NEW all, IsCiphertext(sealed, all, 0),
           NEW d, NEW got, NEW k, Holds(sealed, d, all, got, k), Stopped(d)
    PROVE  /\ Whole(all) = Offset(sealed, k) /\ CleartextSize(all) = TotalIn(sealed, k)
           /\ Len(d.in) > 0 => Whole(all) # Len(all)
           /\ Len(d.in) = 0 => Whole(all) = Len(all) \/ ReadsEmpty(all)
<1> DEFINE O == Offset(sealed, k)
           P == Place(sealed, d, k)
           a == Len(d.in)
           L == Len(all)
           c == encryptedSize(0)
<1>1. /\ k \in 0 .. Len(sealed) /\ Len(sealed) \in Nat /\ a \in Nat /\ L = P + a
      /\ \A j \in 1 .. a : d.in[j] = all[P + j]
      /\ d.nonce = NonceAfter(k) \/ Strayed(sealed, d, all, k)
      /\ \A i \in 1 .. O : Undamaged(sealed, all[i])
    BY DEF Holds, Decryptors, SealedOK
<1>2. /\ O \in Nat /\ P \in Nat /\ O <= P /\ P <= L /\ L \in Nat /\ c \in Nat
      /\ d.nonce = NonceAfter(k) => P = O
    BY PlaceNat, Overhead
<1>3. Arrived(all, k)
  <2>1. O <= L
    <3> HIDE DEF O, P, L
    <3> QED BY <1>2
  <2> QED BY <1>1, <2>1 DEF Arrived
<1>4. ASSUME Arrived(all, k + 1) PROVE FALSE
  <2> DEFINE l == Len(sealed[k + 1].data)
             E == encryptedSize(l)
  <2>1. k + 1 \in 1 .. Len(sealed) /\ (k + 1) - 1 = k /\ k < Len(sealed)
    <3>1. k + 1 \in 0 .. Len(sealed)
        BY <1>4 DEF Arrived
    <3> QED BY <1>1, <3>1
  <2>2. Offset(sealed, k + 1) = O + E /\ l \in Nat /\ l >= 1
      BY <2>1, OffsetStep, MaxSize
  <2>3. E \in Nat /\ E >= 3
    <3> HIDE DEF l
    <3>1. E = encryptedSize(0) + l /\ encryptedSize(0) \in Nat /\ encryptedSize(0) >= 3
        BY <2>2, Overhead
    <3> QED BY <2>2, <3>1
  <2> HIDE DEF E, l
  <2>4. O + E <= L /\ \A i \in 1 .. O + E : Undamaged(sealed, all[i])
      BY <1>4, <2>2 DEF Arrived
  <2>5. CASE Strayed(sealed, d, all, k)
    <3>1. PICK i \in {O + 1, O + 2} : ~Undamaged(sealed, all[i])
        BY <2>5, StrayedIsDamaged
    <3> HIDE DEF O
    <3>2. i \in 1 .. O + E
        BY <1>2, <2>3
    <3> QED BY <2>4, <3>1, <3>2
  <2>6. CASE d.nonce = NonceAfter(k)
    <3>1. P = O /\ E <= a
      <4>1. P = O
          BY <1>2, <2>6
      <4> HIDE DEF O, P, a, L
      <4> QED BY <1>1, <1>2, <2>3, <2>4, <4>1
    <3>2. ASSUME NEW j \in 1 .. E PROVE Undamaged(sealed, d.in[j])
      <4> HIDE DEF O, P, a
      <4>1. j \in 1 .. a /\ O + j \in 1 .. O + E
          BY <1>1, <1>2, <2>3, <3>1
      <4>2. d.in[j] = all[O + j]
          BY <1>1, <3>1, <4>1
      <4> QED BY <2>4, <4>1, <4>2
    <3>3. NextWhole(d.in, k)
        BY <2>1, <3>1, <3>2 DEF NextWhole, E, l
    <3>4. decrypt(d.in, Len(d.in), d.nonce).status = "Success"
        BY <2>6, <3>3, DecryptHeld
    <3> QED BY <3>4 DEF Stopped
  <2> QED BY <1>1, <2>5, <2>6
<1>5. Whole(all) = O /\ CleartextSize(all) = TotalIn(sealed, k)
    BY <1>3, <1>4, WholeUpTo
<1>6. a > 0 => O # L
  <2> HIDE DEF O, P, a, L
  <2> QED BY <1>1, <1>2
<1>7. ASSUME a = 0 PROVE O = L \/ ReadsEmpty(all)
  <2>1. CASE d.nonce = NonceAfter(k)
    <3>1. P = O
        BY <1>2, <2>1
    <3> HIDE DEF O, P, a, L
    <3> QED BY <1>1, <1>2, <1>7, <3>1
  <2>2. CASE Strayed(sealed, d, all, k)
    <3>1. Len(all) >= O + c
        BY <2>2, StrayedIsDamaged
    <3>2. protocol = "Compact" /\ all[O + 1].val = 0 /\ all[O + 2].val = 0
        BY <2>2 DEF Strayed
    <3> HIDE DEF O
    <3> QED BY <1>5, <3>1, <3>2 DEF ReadsEmpty
  <2> QED BY <1>1, <2>1, <2>2
<1> QED BY <1>5, <1>6, <1>7

(* A stream that arrived complete and undamaged has been decrypted to its  *)
(* end.                                                                    *)
LEMMA AllDecrypted ==
    ASSUME protocol \in Protocols, SealedOK(sealed), NEW all, IsCiphertext(sealed, all, 0),
           AllUndamaged(sealed, all), Len(all) = Offset(sealed, Len(sealed)),
           NEW d, NEW got, NEW k, Holds(sealed, d, all, got, k), Stopped(d)
    PROVE  k = Len(sealed) /\ d.in = <<>>
<1> DEFINE O == Offset(sealed, k)
           a == Len(d.in)
           M == Len(sealed)
<1>1. /\ k \in 0 .. M /\ M \in Nat /\ all \in Seq(Byte)
      /\ d.in \in Seq(Byte) /\ a \in Nat /\ Len(all) = O + a
      /\ d.nonce = NonceAfter(k)
      /\ \A j \in 1 .. a : d.in[j] = all[O + j]
  <2>1. ~Strayed(sealed, d, all, k)
      BY StrayedIsDamaged
  <2>2. d.nonce = NonceAfter(k)
      BY <2>1 DEF Holds
  <2>3. Place(sealed, d, k) = O
      BY <2>2, PlaceNat
  <2> QED BY <2>2, <2>3 DEF Holds, Decryptors, SealedOK, IsCiphertext
<1>2. O \in Nat /\ M \in 0 .. M /\ Offset(sealed, M) \in Nat
    BY <1>1, OffsetNat
<1>3. ASSUME k < M PROVE FALSE
  <2> DEFINE l == Len(sealed[k + 1].data)
             E == encryptedSize(l)
  <2>1. k + 1 \in 1 .. M /\ k + 1 \in 0 .. M /\ k + 1 <= M /\ (k + 1) - 1 = k
      BY <1>1, <1>3
  <2>2. Offset(sealed, k + 1) = O + E /\ l \in Nat
      BY <2>1, OffsetStep, MaxSize
  <2>3. E \in Nat
    <3> HIDE DEF l
    <3> QED BY <2>2, Overhead
  <2>4. Offset(sealed, k + 1) <= Offset(sealed, M)
      BY <1>2, <2>1, OffsetMonotone
  <2> HIDE DEF E, l
  <2>5. E <= a
    <3> DEFINE z == Offset(sealed, M)
    <3>1. z \in Nat /\ O + E <= z /\ z = O + a
        BY <1>1, <1>2, <2>2, <2>4
    <3> HIDE DEF z, a, O
    <3> QED BY <1>1, <1>2, <2>3, <3>1
  <2>6. ASSUME NEW i \in 1 .. E PROVE Undamaged(sealed, d.in[i])
    <3>1. O + i \in 1 .. Len(all) /\ i \in 1 .. a
      <4> HIDE DEF O, a
      <4> QED BY <1>1, <1>2, <2>3, <2>5
    <3> QED BY <1>1, <3>1 DEF AllUndamaged
  <2>7. NextWhole(d.in, k)
      BY <1>3, <2>5, <2>6 DEF NextWhole, E, l
  <2>8. decrypt(d.in, Len(d.in), d.nonce).status = "Success"
      BY <1>1, <2>7, DecryptHeld
  <2> QED BY <2>8 DEF Stopped
<1>4. k = M
    BY <1>1, <1>3
<1>5. a = 0
  <2>1. O = Offset(sealed, M)
      BY <1>4
  <2> HIDE DEF O, a
  <2> QED BY <1>1, <1>2, <2>1
<1> QED BY <1>1, <1>4, <1>5

(* More is encrypted meanwhile: nothing changes for the decryption stream. *)
LEMMA HoldsExtends ==
    ASSUME NEW s, NEW t, SealedOK(s), SealedOK(t), Extends(s, t), NEW all, IsCiphertext(s, all, 0),
           NEW d, NEW got, NEW k, Holds(s, d, all, got, k)
    PROVE  k \in 0 .. Len(t) /\ Holds(t, d, all, got, k)
<1>1. /\ k \in 0 .. Len(s) /\ Len(s) \in Nat /\ Len(t) \in Nat /\ Len(s) <= Len(t)
      /\ \A i \in 1 .. Offset(s, k) : Undamaged(s, all[i])
      /\ \A j \in 1 .. Len(all) : IsByte(s, all[j], 0 + j)
    BY DEF Holds, Decryptors, SealedOK, Extends, IsCiphertext
<1>2. TotalIn(t, k) = TotalIn(s, k) /\ Offset(t, k) = Offset(s, k)
    BY <1>1, OffsetExtends
<1>3. Offset(s, k) \in Nat /\ Len(all) \in Nat /\ Offset(s, k) <= Len(all)
  <2> DEFINE O == Offset(s, k)
             P == Place(s, d, k)
  <2>1. O \in Nat /\ P \in Nat /\ O <= P /\ Len(all) \in Nat /\ P <= Len(all)
      BY PlaceNat
  <2> HIDE DEF O, P
  <2>2. O <= Len(all)
      BY <2>1
  <2> QED BY <2>1, <2>2 DEF O
<1>4. ASSUME NEW i \in 1 .. Offset(s, k) PROVE Undamaged(t, all[i])
  <2>1. i \in 1 .. Len(all)
      BY <1>1, <1>3
  <2> QED BY <1>1, <2>1, ByteExtends
<1>5. k \in 0 .. Len(t)
    BY <1>1
<1>6. Place(t, d, k) = Place(s, d, k)
    BY <1>2 DEF Place
<1>7. Strayed(t, d, all, k) <=> Strayed(s, d, all, k)
    BY <1>2 DEF Strayed
<1> QED BY <1>2, <1>4, <1>5, <1>6, <1>7 DEF Holds

----------------------------------------------------------------------------
(* A step leaves the protocol alone: what is said of a message, a byte or  *)
(* a stream, and does not mention sealed, holds after it as before.        *)

(* The formats depend on nothing but the protocol: what is said of them in *)
(* one state holds in the next.                                            *)
LEMMA SizesPrimed ==
    ASSUME protocol' = protocol
    PROVE  /\ \A n : encryptedSize(n)' = encryptedSize(n)
           /\ \A n : NonceAfter(n)' = NonceAfter(n)
           /\ \A m, n, i : ByteOf(m, n, i)' = ByteOf(m, n, i)
           /\ \A s, m : Offset(s, m)' = Offset(s, m)
           /\ minPeekSize' = minPeekSize
<1>1. \A n : encryptedSize(n)' = encryptedSize(n)
    BY DEF encryptedSize
<1>2. \A s, m : Offset(s, m)' = Offset(s, m)
    BY <1>1 DEF Offset
<1> QED BY <1>1, <1>2 DEF NonceAfter, ByteOf, minPeekSize, CipherByte

(* The same of the messages encrypted, ... *)
LEMMA SealedPrimed ==
    ASSUME protocol' = protocol, NEW s
    PROVE  SealedOK(s)' <=> SealedOK(s)
    BY SizesPrimed DEF SealedOK

(* ... of ciphertext, ... *)
LEMMA CiphertextPrimed ==
    ASSUME protocol' = protocol, NEW s, NEW f, NEW i
    PROVE  /\ IsCiphertext(s, f, i)' <=> IsCiphertext(s, f, i)
           /\ AllUndamaged(s, f)' <=> AllUndamaged(s, f)
<1>1. \A b, j : IsByte(s, b, j)' <=> IsByte(s, b, j)
    BY SizesPrimed DEF IsByte
<1>2. \A b : Undamaged(s, b)' <=> Undamaged(s, b)
    BY SizesPrimed DEF Undamaged
<1>3. IsCiphertext(s, f, i)' <=> IsCiphertext(s, f, i)
    BY <1>1 DEF IsCiphertext
<1>4. AllUndamaged(s, f)' <=> AllUndamaged(s, f)
    BY <1>2 DEF AllUndamaged
<1> QED BY <1>3, <1>4

(* ... of the encryption stream, ... *)
LEMMA EncryptorPrimed ==
    ASSUME protocol' = protocol, NEW e, NEW n
    PROVE  /\ EncryptorOK(e, n)' <=> EncryptorOK(e, n)
           /\ SentBefore(e)' = SentBefore(e)
<1>1. SentBefore(e)' = SentBefore(e)
    BY SizesPrimed DEF SentBefore
<1>2. SealedOK(e.sealed)' <=> SealedOK(e.sealed)
    BY SealedPrimed
<1>3. /\ IsCiphertext(e.sealed, e.out, SentBefore(e))' <=> IsCiphertext(e.sealed, e.out, SentBefore(e))
      /\ AllUndamaged(e.sealed, e.out)' <=> AllUndamaged(e.sealed, e.out)
    BY <1>1, CiphertextPrimed
<1>4. NonceAfter(Len(e.sealed))' = NonceAfter(Len(e.sealed))
    BY SizesPrimed
<1> QED BY <1>1, <1>2, <1>3, <1>4 DEF EncryptorOK

(* ... and of the decryption stream. *)
LEMMA HoldsPrimed ==
    ASSUME protocol' = protocol, NEW s, NEW d, NEW all, NEW got, NEW k
    PROVE  Holds(s, d, all, got, k)' <=> Holds(s, d, all, got, k)
<1>1. \A b : Undamaged(s, b)' <=> Undamaged(s, b)
    BY SizesPrimed DEF Undamaged
<1>2. Offset(s, k)' = Offset(s, k) /\ NonceAfter(k)' = NonceAfter(k)
    BY SizesPrimed
<1>3. Place(s, d, k)' = Place(s, d, k)
    BY <1>2, SizesPrimed DEF Place
<1>4. Strayed(s, d, all, k)' <=> Strayed(s, d, all, k)
    BY <1>2 DEF Strayed
<1> QED BY <1>1, <1>2, <1>3, <1>4 DEF Holds

(* decrypt() reads sealed at one message only. *)
LEMMA DecryptPrimed ==
    ASSUME protocol' = protocol, NEW in, NEW n, NEW nonce,
           sealed'[in[1].msg] = sealed[in[1].msg]
    PROVE  decrypt(in, n, nonce)' = decrypt(in, n, nonce)
<1>1. \A i : encryptedSize(i)' = encryptedSize(i)
    BY SizesPrimed
<1>2. minPeekSize' = minPeekSize
    BY SizesPrimed
<1>3. peek(in, nonce)' = peek(in, nonce)
    BY <1>1, <1>2 DEF peek
<1>4. \A size : Opens(in, size, nonce)' <=> Opens(in, size, nonce)
    BY <1>1 DEF Opens
<1>5. NextNonce(nonce)' = NextNonce(nonce)
    BY DEF NextNonce
<1>6. \A size : Unboxed(in, size, nonce)' = Unboxed(in, size, nonce)
    BY <1>4 DEF Unboxed
<1>7. \A x : Refuses(in, x, nonce)' <=> Refuses(in, x, nonce)
    BY <1>4, <1>6 DEF Refuses
<1> QED BY <1>3, <1>5, <1>6, <1>7 DEF decrypt, Complete


(* Encrypting more does not disturb the decryption stream. *)
LEMMA DecryptorExtends ==
    ASSUME protocol' = protocol, SealedOK(sealed), SealedOK(sealed'), Extends(sealed, sealed'),
           NEW all, IsCiphertext(sealed, all, 0), NEW d, NEW got, DecryptorOK(d, all, got)
    PROVE  DecryptorOK(d, all, got)'
<1>1. PICK k \in 0 .. Len(sealed) : Holds(sealed, d, all, got, k)
    BY DEF DecryptorOK
<1>2. k \in 0 .. Len(sealed') /\ Holds(sealed', d, all, got, k)
    BY <1>1, HoldsExtends
<1>3. Holds(sealed, d, all, got, k)'
    BY <1>2, HoldsPrimed
<1>4. /\ d.in \in Seq(Byte) /\ IsCiphertext(sealed, d.in, Place(sealed, d, k))
      /\ sealed \in Seq(Message)
  <2>1. IsCiphertext(sealed, d.in, Place(sealed, d, k))
      BY <1>1, HeldCiphertext
  <2> QED BY <2>1 DEF IsCiphertext, SealedOK
<1>5. decrypt(d.in, Len(d.in), d.nonce)' = decrypt(d.in, Len(d.in), d.nonce)
  <2> DEFINE i == d.in
  <2>1. CASE Len(i) = 0
    <3>1. minPeekSize' = minPeekSize /\ Len(i) < minPeekSize
        BY <2>1, SizesPrimed, Overhead
    <3> HIDE DEF i
    <3>2. peek(i, d.nonce).status = "IncompleteInput" /\ peek(i, d.nonce)'.status = "IncompleteInput"
        BY <3>1 DEF peek
    <3>3. /\ decrypt(i, Len(i), d.nonce) = [status |-> "IncompleteInput"]
          /\ decrypt(i, Len(i), d.nonce)' = [status |-> "IncompleteInput"]
        BY <3>2 DEF decrypt
    <3> QED BY <3>3 DEF i
  <2>2. CASE Len(i) # 0
    <3>1. 1 \in 1 .. Len(i)
        BY <1>4, <2>2
    <3>2. i[1].msg \in 1 .. Len(sealed)
        BY <1>4, <3>1 DEF IsCiphertext, IsByte
    <3>3. sealed'[i[1].msg] = sealed[i[1].msg]
        BY <3>2 DEF Extends
    <3> QED BY <3>3, DecryptPrimed
  <2> QED BY <2>1, <2>2
<1>6. Stopped(d)'
    BY <1>5 DEF Stopped, DecryptorOK
<1> QED BY <1>2, <1>3, <1>6 DEF DecryptorOK

----------------------------------------------------------------------------
(* What the specifications do with the streams, in terms of the invariant. *)

(* What was pulled and what can be pulled are the first bytes written. *)
LEMMA ReceivedIs ==
    ASSUME NEW d, NEW all, NEW got, NEW k, SealedOK(sealed), Holds(sealed, d, all, got, k)
    PROVE  /\ got \o d.out = [i \in 1 .. TotalIn(sealed, k) |-> i]
           /\ Len(got) \in Nat /\ Len(d.out) \in Nat /\ Len(got) + Len(d.out) = TotalIn(sealed, k)
           /\ TotalIn(sealed, k) \in Nat
<1> DEFINE o == d.out
           T == TotalIn(sealed, k)
<1>1. /\ got \in Seq(Nat) /\ o \in Seq(Nat) /\ Len(got) + Len(o) = T
      /\ \A j \in 1 .. Len(got) : got[j] = j
      /\ \A j \in 1 .. Len(o) : o[j] = Len(got) + j
      /\ k \in 0 .. Len(sealed)
    BY DEF Holds, Decryptors
<1>2. T \in Nat
    BY <1>1, TotalInNat
<1> HIDE DEF o, T
<1>3. Len(got) \in Nat /\ Len(o) \in Nat
    BY <1>1
<1>4. /\ got \o o \in Seq(Nat) /\ Len(got \o o) = Len(got) + Len(o)
      /\ \A j \in 1 .. Len(got) : (got \o o)[j] = got[j]
      /\ \A j \in 1 .. Len(o) : (got \o o)[Len(got) + j] = o[j]
  <2>1. got \in Seq(Nat) /\ o \in Seq(Nat)
      BY <1>1
  <2> QED BY <2>1
<1>5. ASSUME NEW i \in 1 .. T PROVE (got \o o)[i] = i
  <2>1. CASE i <= Len(got)
    <3>1. i \in 1 .. Len(got)
        BY <1>2, <1>3, <2>1
    <3> QED BY <1>1, <1>4, <3>1
  <2>2. CASE i > Len(got)
    <3>1. i - Len(got) \in 1 .. Len(o) /\ Len(got) + (i - Len(got)) = i
      <4>1. Len(got) + Len(o) = T
          BY <1>1
      <4> QED BY <1>2, <1>3, <2>2, <4>1
    <3>2. (got \o o)[Len(got) + (i - Len(got))] = Len(got) + (i - Len(got))
        BY <1>1, <1>4, <3>1
    <3> QED BY <3>1, <3>2
  <2>3. i <= Len(got) \/ i > Len(got)
      BY <1>2, <1>3
  <2> QED BY <2>1, <2>2, <2>3
<1> DEFINE g == [i \in 1 .. T |-> i]
<1>6. g \in Seq(Nat) /\ Len(g) = T /\ \A i \in 1 .. T : g[i] = i
    BY <1>2
<1> HIDE DEF g
<1>7. got \o o = g
  <2>1. Len(got \o o) = T /\ got \o o \in Seq(Nat)
      BY <1>1, <1>4
  <2> HIDE DEF o
  <2> DEFINE h == got \o o
  <2>2. h \in Seq(Nat) /\ Len(h) = Len(g) /\ \A j \in 1 .. Len(h) : h[j] = g[j]
      BY <1>5, <1>6, <2>1, SMTT(60)
  <2> HIDE DEF h
  <2>3. h = g
      BY <1>6, <2>2, SameElements
  <2> QED BY <2>3 DEF h
<1> QED BY <1>1, <1>2, <1>3, <1>7 DEF g, o, T

(* push() of more ciphertext: e is d with more in its buffer. *)
Pushing(d, all, got, more, e) ==
    /\ protocol \in Protocols /\ SealedOK(sealed)
    /\ all \in Seq(Byte) /\ more \in Seq(Byte) /\ IsCiphertext(sealed, all \o more, 0)
    /\ DecryptorOK(d, all, got) /\ e \in Decryptors
    /\ e.in = d.in \o more /\ e.out = d.out /\ e.nonce = d.nonce

(* push() of what comes next: the decryption stream holds no more than it  *)
(* must, reports corruption only if there is some, and decrypts nothing    *)
(* after it.                                                               *)
LEMMA PushOK ==
    ASSUME NEW d, NEW all, NEW got, NEW more, NEW e, Pushing(d, all, got, more, e),
           NEW f, f = Decrypted(e)
    PROVE  /\ DecryptorOK(f, all \o more, got)
           /\ f.status \in {"IncompleteInput", "CorruptData"}
           /\ f.status = "CorruptData" => ~AllUndamaged(sealed, all \o more)
           /\ d.status = "CorruptData" => f.out = d.out /\ f.status = "CorruptData"
           /\ Len(got) \in Nat /\ Len(d.out) \in Nat /\ Len(f.out) \in Nat
           /\ Len(d.out) <= Len(f.out)
<1> DEFINE all2 == all \o more
<1> SUFFICES ASSUME /\ protocol \in Protocols /\ SealedOK(sealed)
                    /\ all \in Seq(Byte) /\ more \in Seq(Byte)
                    /\ IsCiphertext(sealed, all \o more, 0)
                    /\ DecryptorOK(d, all, got) /\ e \in Decryptors
                    /\ e.in = d.in \o more /\ e.out = d.out /\ e.nonce = d.nonce
             PROVE  /\ DecryptorOK(f, all2, got)
                    /\ f.status \in {"IncompleteInput", "CorruptData"}
                    /\ f.status = "CorruptData" => ~AllUndamaged(sealed, all2)
                    /\ d.status = "CorruptData" => f.out = d.out /\ f.status = "CorruptData"
                    /\ Len(got) \in Nat /\ Len(d.out) \in Nat /\ Len(f.out) \in Nat
                    /\ Len(d.out) <= Len(f.out)
    BY DEF Pushing
<1>1. PICK k \in 0 .. Len(sealed) : Holds(sealed, d, all, got, k)
    BY DEF DecryptorOK
<1>2. /\ d \in Decryptors /\ d.in \in Seq(Byte) /\ Len(d.in) \in Nat /\ got \in Seq(Nat)
      /\ Len(all) = Place(sealed, d, k) + Len(d.in)
      /\ \A j \in 1 .. Len(d.in) : d.in[j] = all[Place(sealed, d, k) + j]
      /\ d.nonce \in Nat /\ (d.nonce = NonceAfter(k) \/ Strayed(sealed, d, all, k))
      /\ \A i \in 1 .. Offset(sealed, k) : Undamaged(sealed, all[i])
      /\ Len(sealed) \in Nat
    BY <1>1, SMTT(60) DEF Holds, Decryptors, SealedOK
<1>3. /\ Place(sealed, d, k) \in Nat /\ Offset(sealed, k) \in Nat
      /\ Offset(sealed, k) <= Place(sealed, d, k)
      /\ Strayed(sealed, d, all, k) =>
            Offset(sealed, k) + encryptedSize(0) <= Place(sealed, d, k)
    BY <1>1, PlaceNat
<1>4. /\ Len(all2) = Len(all) + Len(more)
      /\ \A j \in 1 .. Len(all) : all2[j] = all[j]
      /\ \A j \in 1 .. Len(more) : all2[Len(all) + j] = more[j]
      /\ Len(all) \in Nat /\ Len(more) \in Nat
    OBVIOUS
<1>5. /\ Len(e.in) = Len(d.in) + Len(more)
      /\ \A j \in 1 .. Len(d.in) : e.in[j] = d.in[j]
      /\ \A j \in 1 .. Len(more) : e.in[Len(d.in) + j] = more[j]
  <2> DEFINE p == d.in
  <2>1. p \in Seq(Byte)
      BY <1>2
  <2> HIDE DEF p
  <2>2. /\ Len(p \o more) = Len(p) + Len(more)
        /\ \A j \in 1 .. Len(p) : (p \o more)[j] = p[j]
        /\ \A j \in 1 .. Len(more) : (p \o more)[Len(p) + j] = more[j]
      BY <2>1, SMTT(60)
  <2> QED BY <2>2 DEF p
<1> HIDE DEF all2
<1>6. Holds(sealed, e, all2, got, k)
  <2> DEFINE O == Place(sealed, d, k)
             b == Offset(sealed, k)
             a == Len(d.in)
             c == Len(more)
  <2>0. /\ O \in Nat /\ b \in Nat /\ b <= O /\ a \in Nat /\ c \in Nat /\ Len(all) = O + a /\ Len(all) \in Nat
        /\ Len(all2) = Len(all) + c /\ Len(e.in) = a + c
      BY <1>2, <1>3, <1>4, <1>5
  <2> HIDE DEF O, a, b, c
  <2>1. Len(all2) = O + Len(e.in)
      BY <2>0
  <2>2. ASSUME NEW j \in 1 .. Len(e.in) PROVE e.in[j] = all2[O + j]
    <3>1. CASE j <= a
      <4>1. j \in 1 .. a /\ O + j \in 1 .. Len(all)
          BY <2>0, <3>1
      <4>2. e.in[j] = d.in[j] /\ d.in[j] = all[O + j] /\ all2[O + j] = all[O + j]
          BY <1>2, <1>4, <1>5, <4>1 DEF O, a
      <4> QED BY <4>2
    <3>2. CASE j > a
      <4>1. j - a \in 1 .. c /\ a + (j - a) = j /\ Len(all) + (j - a) = O + j
          BY <2>0, <3>2
      <4>2. e.in[a + (j - a)] = more[j - a] /\ all2[Len(all) + (j - a)] = more[j - a]
          BY <1>4, <1>5, <4>1 DEF a, c
      <4> QED BY <4>1, <4>2
    <3> QED BY <2>0, <3>1, <3>2, SMTT(60)
  <2>3. ASSUME NEW i \in 1 .. b PROVE Undamaged(sealed, all2[i])
    <3>1. i \in 1 .. Len(all)
        BY <2>0, SMTT(60)
    <3> QED BY <1>2, <1>4, <3>1 DEF b
  <2>4. Strayed(sealed, d, all, k) => Strayed(sealed, e, all2, k)
    <3> SUFFICES ASSUME Strayed(sealed, d, all, k) PROVE Strayed(sealed, e, all2, k)
        OBVIOUS
    <3> DEFINE x == encryptedSize(0)
    <3>1. x \in Nat /\ x >= 3 /\ b + x <= O
        BY <1>3, Overhead DEF O, b
    <3> HIDE DEF x
    <3>2. b + 1 \in 1 .. Len(all) /\ b + 2 \in 1 .. Len(all)
        BY <2>0, <3>1
    <3>3. all2[b + 1] = all[b + 1] /\ all2[b + 2] = all[b + 2]
        BY <1>4, <3>2
    <3> QED BY <3>3 DEF Strayed, b
  <2>5. Place(sealed, e, k) = O
      BY DEF Place, O
  <2> QED BY <1>1, <1>2, <2>1, <2>2, <2>3, <2>4, <2>5 DEF Holds, b
<1>7. /\ Stopped(f) /\ \E m \in k .. Len(sealed) : Holds(sealed, f, all2, got, m)
      /\ f.status \in {"IncompleteInput", "CorruptData"}
      /\ f.status = "CorruptData" => ~AllUndamaged(sealed, all2)
      /\ decrypt(e.in, Len(e.in), e.nonce).status = "CorruptData" =>
             f.out = e.out /\ f.status = "CorruptData"
  <2>1. IsCiphertext(sealed, all2, 0)
      BY DEF all2
  <2> QED BY <1>6, <2>1, DecryptedOK, ZenonT(60)
<1>8. PICK m \in k .. Len(sealed) : Holds(sealed, f, all2, got, m)
    BY <1>7
<1>9. m \in 0 .. Len(sealed) /\ k <= m
    BY <1>2
<1>10. DecryptorOK(f, all2, got)
    BY <1>7, <1>8, <1>9 DEF DecryptorOK
<1>11. ASSUME d.status = "CorruptData" PROVE decrypt(e.in, Len(e.in), e.nonce).status = "CorruptData"
  <2> DEFINE p == Place(sealed, d, k)
  <2>1. decrypt(d.in, Len(d.in), d.nonce).status = "CorruptData"
      BY <1>11 DEF DecryptorOK, Stopped
  <2>2. IsCiphertext(sealed, d.in, p) /\ IsCiphertext(sealed, e.in, p)
    <3>1. Place(sealed, e, k) = p
        BY DEF Place
    <3>2. IsCiphertext(sealed, e.in, p)
        BY <1>6, <3>1, HeldCiphertext DEF all2
    <3> HIDE DEF p
    <3>3. IsCiphertext(sealed, d.in, p)
      <4>1. ASSUME NEW j \in 1 .. Len(d.in)
            PROVE  IsByte(sealed, d.in[j], p + j)
        <5>1. j \in 1 .. Len(e.in) /\ e.in[j] = d.in[j]
            BY <1>2, <1>4, <1>5
        <5> QED BY <3>2, <5>1 DEF IsCiphertext
      <4> QED BY <1>2, <4>1 DEF IsCiphertext
    <3> QED BY <3>2, <3>3
  <2>3. Len(d.in) <= Len(e.in) /\ \A j \in 1 .. Len(d.in) : e.in[j] = d.in[j]
      BY <1>2, <1>4, <1>5, SMTT(60)
  <2>4. decrypt(e.in, Len(e.in), d.nonce).status = "CorruptData"
    <3>1. d.nonce \in Nat
        BY <1>2
    <3> DEFINE u == d.in
               v == e.in
               n == d.nonce
    <3>2. /\ protocol \in Protocols /\ SealedOK(sealed)
          /\ IsCiphertext(sealed, u, p) /\ IsCiphertext(sealed, v, p)
          /\ Len(u) <= Len(v) /\ \A j \in 1 .. Len(u) : v[j] = u[j]
          /\ n \in Nat /\ decrypt(u, Len(u), n).status = "CorruptData"
        BY <2>1, <2>2, <2>3, <3>1
    <3> HIDE DEF p, u, v, n
    <3>3. decrypt(v, Len(v), n).status = "CorruptData"
        BY <3>2, CorruptStays, SMTT(60)
    <3> QED BY <3>3 DEF v, n
  <2> QED BY <2>4
<1>12. Len(got) \in Nat /\ Len(d.out) \in Nat /\ Len(f.out) \in Nat /\ Len(d.out) <= Len(f.out)
  <2>1. Len(got) \in Nat /\ Len(d.out) \in Nat /\ Len(got) + Len(d.out) = TotalIn(sealed, k)
      BY <1>1, ReceivedIs
  <2>2. Len(f.out) \in Nat /\ Len(got) + Len(f.out) = TotalIn(sealed, m)
      BY <1>8, ReceivedIs
  <2>3. TotalIn(sealed, k) <= TotalIn(sealed, m) /\ TotalIn(sealed, k) \in Nat /\ TotalIn(sealed, m) \in Nat
      BY <1>9, OffsetMonotone, TotalInNat
  <2> DEFINE x == TotalIn(sealed, k)
             y == TotalIn(sealed, m)
             b == Len(d.out)
             c == Len(f.out)
  <2>4. /\ x \in Nat /\ y \in Nat /\ b \in Nat /\ c \in Nat /\ x <= y
        /\ Len(got) + b = x /\ Len(got) + c = y
      BY <2>1, <2>2, <2>3
  <2> HIDE DEF x, y, b, c
  <2>5. b <= c
      BY <2>1, <2>4
  <2> QED BY <2>1, <2>2, <2>5 DEF b, c
<1> QED BY <1>7, <1>10, <1>11, <1>12 DEF all2

(* A sequence is cut in two, or its two parts are put together again. *)
Rejoins(f, g, c) == (f \o SubSeq(g, 1, c)) \o SubSeq(g, c + 1, Len(g)) = f \o g

(* A sequence cut in two, joined behind another one. *)
LEMMA CutAndJoin ==
    ASSUME NEW S, NEW f \in Seq(S), NEW g \in Seq(S), NEW c \in 0 .. Len(g)
    PROVE  Rejoins(f, g, c)
<1> DEFINE x == SubSeq(g, 1, c)
           y == SubSeq(g, c + 1, Len(g))
<1>1. /\ x \in Seq(S) /\ Len(x) = c
      /\ \A j \in 1 .. c : x[j] = g[j]
    OBVIOUS
<1>2. /\ y \in Seq(S) /\ Len(y) = Len(g) - c
      /\ \A j \in 1 .. Len(g) - c : y[j] = g[c + j]
    OBVIOUS
<1> HIDE DEF x, y
<1>3. (f \o x) \o y = f \o g
  <2>1. (f \o x) \o y \in Seq(S) /\ f \o g \in Seq(S)
      BY <1>1, <1>2
  <2>2. Len((f \o x) \o y) = Len(f \o g)
      BY <1>1, <1>2
  <2> DEFINE a == Len(f)
             b == Len(g)
  <2>4. a \in Nat /\ b \in Nat /\ c \in Nat /\ c <= b /\ Len(f \o g) = a + b
      OBVIOUS
  <2>5. /\ Len(f \o x) = a + c /\ f \o x \in Seq(S)
        /\ \A j \in 1 .. a : (f \o x)[j] = f[j]
        /\ \A j \in 1 .. c : (f \o x)[a + j] = x[j]
    <3>1. x \in Seq(S)
        BY <1>1
    <3>2. /\ f \o x \in Seq(S) /\ Len(f \o x) = Len(f) + Len(x)
          /\ \A j \in 1 .. Len(f) : (f \o x)[j] = f[j]
          /\ \A j \in 1 .. Len(x) : (f \o x)[Len(f) + j] = x[j]
        BY <3>1, ConcatFacts
    <3>3. Len(x) = c
        BY <1>1
    <3> QED BY <3>2, <3>3
  <2>6. /\ \A j \in 1 .. a : (f \o g)[j] = f[j]
        /\ \A j \in 1 .. b : (f \o g)[a + j] = g[j]
      BY ConcatFacts
  <2>7. /\ \A j \in 1 .. a + c : ((f \o x) \o y)[j] = (f \o x)[j]
        /\ \A j \in 1 .. b - c : ((f \o x) \o y)[(a + c) + j] = y[j]
    <3> DEFINE h == f \o x
    <3>1. h \in Seq(S) /\ Len(h) = a + c
        BY <2>5
    <3> HIDE DEF h
    <3>2. /\ \A j \in 1 .. Len(h) : (h \o y)[j] = h[j]
          /\ \A j \in 1 .. Len(y) : (h \o y)[Len(h) + j] = y[j]
        BY <1>2, <3>1, ConcatFacts, SMTT(60)
    <3> QED BY <1>2, <3>1, <3>2 DEF h
  <2> HIDE DEF a, b
  <2>3. ASSUME NEW j \in 1 .. Len(f \o g) PROVE ((f \o x) \o y)[j] = (f \o g)[j]
    <3>1. CASE j \in 1 .. a
      <4>1. j \in 1 .. a + c
          BY <2>4, <3>1
      <4> QED BY <2>5, <2>6, <2>7, <3>1, <4>1
    <3>2. CASE j \in a + 1 .. a + c
      <4>1. j \in 1 .. a + c /\ j - a \in 1 .. c /\ j - a \in 1 .. b /\ a + (j - a) = j
          BY <2>4, <3>2
      <4> QED BY <1>1, <2>5, <2>6, <2>7, <4>1
    <3>3. CASE j \in (a + c) + 1 .. a + b
      <4>1. /\ j - (a + c) \in 1 .. b - c /\ (a + c) + (j - (a + c)) = j
            /\ c + (j - (a + c)) = j - a /\ j - a \in 1 .. b /\ a + (j - a) = j
          BY <2>4, <3>3
      <4>2. ((f \o x) \o y)[j] = y[j - (a + c)] /\ (f \o g)[j] = g[j - a]
          BY <2>6, <2>7, <4>1
      <4>3. y[j - (a + c)] = g[c + (j - (a + c))]
          BY <1>2, <4>1 DEF b
      <4> QED BY <4>1, <4>2, <4>3
    <3>4. j \in 1 .. a \/ j \in a + 1 .. a + c \/ j \in (a + c) + 1 .. a + b
        BY <2>4
    <3> QED BY <3>1, <3>2, <3>3, <3>4
  <2> QED BY <2>1, <2>2, <2>3, SameElements
<1> QED BY <1>3 DEF x, y, Rejoins

(* pull() of some of the cleartext. *)
LEMMA PullOK ==
    ASSUME NEW d, NEW all, NEW got, DecryptorOK(d, all, got), NEW c \in 0 .. Len(d.out),
           NEW e \in Decryptors, e.in = d.in, e.out = SubSeq(d.out, c + 1, Len(d.out)),
           e.nonce = d.nonce, e.status = d.status
    PROVE  /\ DecryptorOK(e, all, got \o SubSeq(d.out, 1, c))
           /\ (got \o SubSeq(d.out, 1, c)) \o e.out = got \o d.out
<1> DEFINE o == d.out
           x == SubSeq(o, 1, c)
           y == SubSeq(o, c + 1, Len(o))
           g == got \o x
<1>1. PICK k \in 0 .. Len(sealed) : Holds(sealed, d, all, got, k)
    BY DEF DecryptorOK
<1>2. /\ got \in Seq(Nat) /\ o \in Seq(Nat) /\ Len(got) + Len(o) = TotalIn(sealed, k)
      /\ \A j \in 1 .. Len(got) : got[j] = j
      /\ \A j \in 1 .. Len(o) : o[j] = Len(got) + j
    BY <1>1 DEF Holds, Decryptors
<1>3. c \in 0 .. Len(o) /\ e.out = y
    OBVIOUS
<1> HIDE DEF o
<1>4. /\ x \in Seq(Nat) /\ Len(x) = c /\ \A j \in 1 .. c : x[j] = o[j]
  <2>1. o \in Seq(Nat)
      BY <1>2
  <2> QED BY <1>3, <2>1, SMTT(60)
<1>5. /\ y \in Seq(Nat) /\ Len(y) = Len(o) - c /\ \A j \in 1 .. Len(o) - c : y[j] = o[c + j]
  <2>1. o \in Seq(Nat) /\ Len(o) \in c .. Len(o)
      BY <1>2, <1>3
  <2> QED BY <1>3, <2>1, SubSeqFacts, ZenonT(60)
<1>6. g \o y = got \o o
  <2>1. o \in Seq(Nat) /\ got \in Seq(Nat) /\ c \in 0 .. Len(o)
      BY <1>2, <1>3
  <2> HIDE DEF x, y
  <2>2. (got \o SubSeq(o, 1, c)) \o SubSeq(o, c + 1, Len(o)) = got \o o
    <3>1. Rejoins(got, o, c)
        BY <2>1, CutAndJoin
    <3> QED BY <3>1 DEF Rejoins
  <2> QED BY <2>2 DEF x, y
<1> HIDE DEF x, y
<1>7. /\ g \in Seq(Nat) /\ Len(g) = Len(got) + c
      /\ \A j \in 1 .. Len(got) : g[j] = got[j]
      /\ \A j \in 1 .. c : g[Len(got) + j] = x[j]
  <2>0. Len(x) = c
      BY <1>4
  <2>1. got \in Seq(Nat) /\ x \in Seq(Nat)
      BY <1>2, <1>4
  <2>2. /\ got \o x \in Seq(Nat) /\ Len(got \o x) = Len(got) + Len(x)
        /\ \A j \in 1 .. Len(got) : (got \o x)[j] = got[j]
        /\ \A j \in 1 .. Len(x) : (got \o x)[Len(got) + j] = x[j]
      BY <2>1, ConcatFacts
  <2> QED BY <2>0, <2>2
<1> HIDE DEF g
<1>8. Len(got) \in Nat /\ Len(o) \in Nat /\ c \in Nat /\ c <= Len(o)
    BY <1>2, <1>3
<1>9. ASSUME NEW j \in 1 .. Len(g) PROVE g[j] = j
  <2>1. CASE j <= Len(got)
    <3>1. j \in 1 .. Len(got)
        BY <1>7, <1>8, <2>1
    <3> QED BY <1>2, <1>7, <3>1
  <2>2. CASE j > Len(got)
    <3>1. j - Len(got) \in 1 .. c /\ j - Len(got) \in 1 .. Len(o) /\ Len(got) + (j - Len(got)) = j
        BY <1>7, <1>8, <2>2, SMTT(60)
    <3> QED BY <1>2, <1>4, <1>7, <3>1, ZenonT(60)
  <2>3. j <= Len(got) \/ j > Len(got)
      BY <1>7, <1>8
  <2> QED BY <2>1, <2>2, <2>3
<1>10. ASSUME NEW j \in 1 .. Len(y) PROVE y[j] = Len(g) + j
  <2>1. j \in 1 .. Len(o) - c /\ c + j \in 1 .. Len(o) /\ Len(got) + (c + j) = Len(g) + j
      BY <1>5, <1>7, <1>8
  <2> QED BY <1>2, <1>5, <2>1
<1>11. Len(g) + Len(y) = TotalIn(sealed, k)
  <2>1. Len(got) + Len(o) = Len(g) + Len(y)
      BY <1>5, <1>7, <1>8
  <2> QED BY <1>2, <2>1
<1>12. Holds(sealed, e, all, g, k)
    BY <1>1, <1>3, <1>7, <1>9, <1>10, <1>11 DEF Holds, Place, Strayed
<1>13. Stopped(e)
    BY DEF Stopped, DecryptorOK
<1>14. DecryptorOK(e, all, g)
    BY <1>12, <1>13 DEF DecryptorOK
<1> QED BY <1>3, <1>6, <1>14 DEF g, x, o

(* The transport gives the last byte of w another value. *)
DamagesLast(s, a, w, u) ==
    /\ a \in Seq(Byte) /\ w \in Seq(Byte) /\ Len(w) > 0 /\ IsCiphertext(s, a \o w, 0)
    /\ \E v \in 0 .. Base - 1 : u = [w EXCEPT ![Len(w)].val = v]

(* Ciphertext whose last byte got another value still is ciphertext. *)
LEMMA DamagedCiphertext ==
    ASSUME NEW s, NEW a, NEW w, NEW u, DamagesLast(s, a, w, u)
    PROVE  u \in Seq(Byte) /\ Len(u) = Len(w) /\ IsCiphertext(s, a \o u, 0)
<1>0. a \in Seq(Byte) /\ w \in Seq(Byte) /\ Len(w) > 0 /\ IsCiphertext(s, a \o w, 0)
    BY DEF DamagesLast
<1>00. PICK v \in 0 .. Base - 1 : u = [w EXCEPT ![Len(w)].val = v]
    BY DEF DamagesLast
<1> DEFINE l == Len(w)
<1>1. l \in Nat /\ l \in 1 .. l /\ w[l] \in Byte /\ v \in Nat /\ v < Base
    BY <1>0, BoxConstants
<1> DEFINE b == [w[l] EXCEPT !.val = v]
<1>2. b \in Byte /\ b.msg = w[l].msg /\ b.pos = w[l].pos /\ b.val = v
    BY <1>1 DEF Byte
<1>3. u = [w EXCEPT ![l] = b]
    BY <1>00
<1> HIDE DEF b
<1> HIDE DEF l
<1>4. u \in Seq(Byte) /\ Len(u) = l /\ u[l] = b /\ \A j \in 1 .. l : j # l => u[j] = w[j]
  <2>1. w \in Seq(Byte) /\ Len(w) = l /\ l \in 1 .. Len(w) /\ b \in Byte
      BY <1>0, <1>1, <1>2 DEF l
  <2>2. [w EXCEPT ![l] = b] \in Seq(Byte) /\ Len([w EXCEPT ![l] = b]) = Len(w)
      BY <2>1
  <2>3. [w EXCEPT ![l] = b][l] = b /\ \A j \in 1 .. l : j # l => [w EXCEPT ![l] = b][j] = w[j]
      BY <2>1
  <2> QED BY <1>3, <2>1, <2>2, <2>3
<1>5. Len(a) \in Nat /\ Len(w) = l
    BY <1>0 DEF l
<1>6. /\ a \o w \in Seq(Byte) /\ Len(a \o w) = Len(a) + l
      /\ \A j \in 1 .. Len(a) : (a \o w)[j] = a[j]
      /\ \A j \in 1 .. l : (a \o w)[Len(a) + j] = w[j]
    BY <1>0, ConcatFacts DEF l
<1>7. /\ a \o u \in Seq(Byte) /\ Len(a \o u) = Len(a) + l
      /\ \A j \in 1 .. Len(a) : (a \o u)[j] = a[j]
      /\ \A j \in 1 .. l : (a \o u)[Len(a) + j] = u[j]
  <2>1. u \in Seq(Byte) /\ a \in Seq(Byte)
      BY <1>0, <1>4
  <2>2. /\ a \o u \in Seq(Byte) /\ Len(a \o u) = Len(a) + Len(u)
        /\ \A j \in 1 .. Len(a) : (a \o u)[j] = a[j]
        /\ \A j \in 1 .. Len(u) : (a \o u)[Len(a) + j] = u[j]
      BY <2>1, ConcatFacts
  <2>3. Len(u) = l
      BY <1>4
  <2> QED BY <2>2, <2>3
<1>8. \A j \in 1 .. Len(a) + l : IsByte(s, (a \o w)[j], 0 + j)
    BY <1>0, <1>6 DEF IsCiphertext
<1>9. ASSUME NEW j \in 1 .. Len(a) + l PROVE IsByte(s, (a \o u)[j], 0 + j)
  <2>0. IsByte(s, (a \o w)[j], 0 + j)
      BY <1>8
  <2>1. CASE j <= Len(a)
    <3>1. j \in 1 .. Len(a)
        BY <1>1, <1>5, <2>1
    <3>2. (a \o u)[j] = (a \o w)[j]
        BY <1>6, <1>7, <3>1
    <3> QED BY <2>0, <3>2
  <2>2. CASE j > Len(a) /\ j # Len(a) + l
    <3>1. j - Len(a) \in 1 .. l /\ j - Len(a) # l /\ Len(a) + (j - Len(a)) = j
        BY <1>1, <1>5, <2>2
    <3>2. (a \o u)[Len(a) + (j - Len(a))] = (a \o w)[Len(a) + (j - Len(a))]
        BY <1>4, <1>6, <1>7, <3>1
    <3>3. (a \o u)[j] = (a \o w)[j]
        BY <3>1, <3>2
    <3> QED BY <2>0, <3>3
  <2>3. CASE j = Len(a) + l
    <3>1. (a \o u)[j] = b /\ (a \o w)[j] = w[l]
        BY <1>1, <1>4, <1>6, <1>7, <2>3
    <3>2. IsByte(s, w[l], 0 + j)
        BY <2>0, <3>1
    <3>3. IsByte(s, b, 0 + j)
        BY <1>1, <1>2, <3>2 DEF IsByte
    <3> QED BY <3>1, <3>3
  <2>4. j <= Len(a) \/ j > Len(a)
      BY <1>1, <1>5
  <2> QED BY <2>1, <2>2, <2>3, <2>4
<1>10. IsCiphertext(s, a \o u, 0)
    BY <1>7, <1>9 DEF IsCiphertext
<1> QED BY <1>4, <1>5, <1>10

(* pull() or skip() of the first c bytes of an encryption stream. *)
LEMMA PulledOK ==
    ASSUME NEW e, NEW n, EncryptorOK(e, n), NEW c \in 0 .. Len(e.out),
           NEW f \in [out : Seq(Byte), in : Seq(Nat), nonce : Nat, sealed : Seq(Message)],
           f.out = SubSeq(e.out, c + 1, Len(e.out)),
           f.in = e.in, f.nonce = e.nonce, f.sealed = e.sealed
    PROVE  /\ EncryptorOK(f, n) /\ SentBefore(f) = SentBefore(e) + c
           /\ IsCiphertext(e.sealed, SubSeq(e.out, 1, c), SentBefore(e))
           /\ AllUndamaged(e.sealed, SubSeq(e.out, 1, c))
<1> DEFINE o == e.out
           i == SentBefore(e)
<1>1. /\ IsCiphertext(e.sealed, o, i) /\ AllUndamaged(e.sealed, o) /\ i \in Nat
      /\ i = Offset(e.sealed, Len(e.sealed)) - Len(o)
      /\ SealedOK(e.sealed) /\ o \in Seq(Byte)
    BY DEF EncryptorOK, SentBefore
<1>2. Offset(e.sealed, Len(e.sealed)) \in Nat
  <2>1. Len(e.sealed) \in 0 .. Len(e.sealed)
      BY <1>1 DEF SealedOK
  <2> QED BY <1>1, <2>1, OffsetNat
<1>3. c \in 0 .. Len(o) /\ Len(o) \in Nat /\ f.out = SubSeq(o, c + 1, Len(o))
    BY <1>1
<1> HIDE DEF o, i
<1>4. /\ 0 \in 0 .. Len(o) /\ c \in 0 .. Len(o) /\ Len(o) \in c .. Len(o) /\ 0 + 1 = 1
      /\ i + 0 = i
    BY <1>1, <1>3
<1>5. /\ IsCiphertext(e.sealed, SubSeq(o, 1, c), i) /\ AllUndamaged(e.sealed, SubSeq(o, 1, c))
  <2>1. /\ IsCiphertext(e.sealed, SubSeq(o, 0 + 1, c), i + 0)
        /\ AllUndamaged(e.sealed, o) => AllUndamaged(e.sealed, SubSeq(o, 0 + 1, c))
      BY <1>1, <1>4, CiphertextCut
  <2> QED BY <1>1, <1>4, <2>1
<1>6. /\ IsCiphertext(e.sealed, f.out, i + c) /\ AllUndamaged(e.sealed, f.out)
  <2>1. /\ IsCiphertext(e.sealed, SubSeq(o, c + 1, Len(o)), i + c)
        /\ AllUndamaged(e.sealed, o) => AllUndamaged(e.sealed, SubSeq(o, c + 1, Len(o)))
      BY <1>1, <1>4, CiphertextCut
  <2> QED BY <1>1, <1>3, <2>1
<1>7. Len(f.out) = Len(o) - c
  <2>1. Len(SubSeq(o, c + 1, Len(o))) = Len(o) - c
      BY <1>1, <1>4, SubSeqFacts
  <2> QED BY <1>3, <2>1
<1>8. SentBefore(f) = i + c /\ i + c \in Nat
  <2>1. SentBefore(f) = Offset(e.sealed, Len(e.sealed)) - Len(f.out)
      BY DEF SentBefore
  <2> QED BY <1>1, <1>2, <1>3, <1>7, <2>1, SMTT(60)
<1>9. EncryptorOK(f, n)
    BY <1>6, <1>8 DEF EncryptorOK
<1> QED BY <1>5, <1>8, <1>9 DEF o, i

(* The stream below sends x. *)
LEMMA FlowGrows ==
    ASSUME NEW s, NEW a \in Seq(Byte), NEW w \in Seq(Byte), NEW x,
           IsCiphertext(s, a \o w, 0), IsCiphertext(s, x, Len(a) + Len(w))
    PROVE  /\ w \o x \in Seq(Byte) /\ Len(w \o x) = Len(w) + Len(x) /\ Len(x) \in Nat
           /\ IsCiphertext(s, a \o (w \o x), 0)
           /\ AllUndamaged(s, a \o w) /\ AllUndamaged(s, x) => AllUndamaged(s, a \o (w \o x))
<1>1. x \in Seq(Byte)
    BY DEF IsCiphertext
<1> DEFINE f == a \o w
<1>2. Len(f) = Len(a) + Len(w) /\ 0 + Len(f) = Len(a) + Len(w)
    OBVIOUS
<1>3. f \o x = a \o (w \o x)
    BY <1>1, SMTT(60)
<1> HIDE DEF f
<1>4. IsCiphertext(s, f, 0) /\ IsCiphertext(s, x, 0 + Len(f))
    BY <1>2 DEF f
<1>5. /\ IsCiphertext(s, f \o x, 0)
      /\ AllUndamaged(s, f \o x) <=> AllUndamaged(s, f) /\ AllUndamaged(s, x)
    BY <1>4, CiphertextConcat
<1>6. w \o x \in Seq(Byte) /\ Len(w \o x) = Len(w) + Len(x) /\ Len(x) \in Nat
    BY <1>1
<1> QED BY <1>3, <1>5, <1>6 DEF f

(* What has arrived is a part of what was sent. *)
LEMMA FlowArrived ==
    ASSUME NEW s, NEW a \in Seq(Byte), NEW w \in Seq(Byte), IsCiphertext(s, a \o w, 0)
    PROVE  IsCiphertext(s, a, 0) /\ (AllUndamaged(s, a \o w) => AllUndamaged(s, a))
<1> DEFINE f == a \o w
<1>1. Len(f) = Len(a) + Len(w) /\ \A j \in 1 .. Len(a) : f[j] = a[j]
    OBVIOUS
<1>2. \A j \in 1 .. Len(a) : j \in 1 .. Len(f)
    BY <1>1
<1> HIDE DEF f
<1>3. IsCiphertext(s, f, 0)
    BY DEF f
<1>4. IsCiphertext(s, a, 0)
    BY <1>1, <1>2, <1>3 DEF IsCiphertext
<1>5. AllUndamaged(s, f) => AllUndamaged(s, a)
    BY <1>1, <1>2 DEF AllUndamaged
<1> QED BY <1>4, <1>5 DEF f

(* The receiver takes c bytes off the wire. *)
Moves(a, w, c, x, y) ==
    /\ a \in Seq(Byte) /\ w \in Seq(Byte) /\ c \in 0 .. Len(w)
    /\ x = SubSeq(w, 1, c) /\ y = SubSeq(w, c + 1, Len(w))

(* Bytes that move from the wire to those that arrived are neither lost    *)
(* nor made.                                                               *)
LEMMA FlowMoves ==
    ASSUME NEW a, NEW w, NEW c, NEW x, NEW y, Moves(a, w, c, x, y)
    PROVE  /\ x \in Seq(Byte) /\ y \in Seq(Byte) /\ a \o x \in Seq(Byte)
           /\ (a \o x) \o y = a \o w /\ Len(a \o x) + Len(y) = Len(a) + Len(w)
<1>00. a \in Seq(Byte) /\ w \in Seq(Byte) /\ c \in 0 .. Len(w)
    BY DEF Moves
<1>0. x = SubSeq(w, 1, c) /\ y = SubSeq(w, c + 1, Len(w))
    BY DEF Moves
<1>1. x \in Seq(Byte) /\ Len(x) = c /\ y \in Seq(Byte) /\ Len(y) = Len(w) - c
  <2>1. 0 \in 0 .. Len(w) /\ c \in 0 .. Len(w) /\ Len(w) \in c .. Len(w) /\ 0 + 1 = 1 /\ c - 0 = c
      BY <1>00
  <2>2. SubSeq(w, c + 1, Len(w)) \in Seq(Byte) /\ Len(SubSeq(w, c + 1, Len(w))) = Len(w) - c
      BY <1>00, <2>1, SubSeqFacts
  <2>3. SubSeq(w, 0 + 1, c) \in Seq(Byte) /\ Len(SubSeq(w, 0 + 1, c)) = c - 0
      BY <1>00, <2>1, SubSeqFacts
  <2> QED BY <1>0, <2>1, <2>2, <2>3
<1>2. (a \o x) \o y = a \o w
  <2>1. Rejoins(a, w, c)
      BY <1>00, CutAndJoin
  <2> QED BY <1>0, <2>1 DEF Rejoins
<1>3. a \o x \in Seq(Byte) /\ Len(a \o x) = Len(a) + Len(x)
    BY <1>00, <1>1, ConcatFacts
<1>4. Len(a \o x) + Len(y) = Len(a) + Len(w)
  <2>1. Len(a) \in Nat /\ Len(w) \in Nat /\ c \in Nat
      BY <1>00
  <2>2. Len(a \o x) = Len(a) + c /\ Len(y) = Len(w) - c
      BY <1>1, <1>3
  <2> DEFINE p == Len(a \o x)
             q == Len(y)
             r == Len(a)
             t == Len(w)
  <2>3. p = r + c /\ q = t - c /\ r \in Nat /\ t \in Nat /\ c \in Nat
      BY <2>1, <2>2
  <2> HIDE DEF p, q, r, t
  <2>4. p + q = r + t
      BY <2>3
  <2> QED BY <2>4 DEF p, q, r, t
<1> QED BY <1>1, <1>2, <1>3, <1>4

(* The reference definitions change with the messages encrypted only. *)
LEMMA WholePrimed ==
    ASSUME protocol' = protocol, sealed' = sealed, NEW all
    PROVE  /\ Whole(all)' = Whole(all) /\ CleartextSize(all)' = CleartextSize(all)
           /\ ReadsEmpty(all)' <=> ReadsEmpty(all)
<1> DEFINE size(b) == Len(sealed[b.msg].data)
           damaged == {i \in DOMAIN all :
                           all[i].val # ByteOf(all[i].msg, size(all[i]), all[i].pos)}
           Ends == {n \in DOMAIN all : /\ all[n].pos = encryptedSize(size(all[n]))
                                       /\ \A i \in damaged : n < i}
<1>1. Whole(all)' = Whole(all)
  <2>1. \A b : size(b)' = size(b)
      OBVIOUS
  <2> HIDE DEF size
  <2>2. damaged' = damaged
      BY <2>1, SizesPrimed
  <2> HIDE DEF damaged
  <2>3. Ends' = Ends
      BY <2>1, <2>2, SizesPrimed
  <2>4. Whole(all) = Max({0} \cup Ends) /\ Whole(all)' = Max({0} \cup Ends')
      BY DEF Whole, damaged, size
  <2> QED BY <2>3, <2>4
<1>2. ReadsEmpty(all)' <=> ReadsEmpty(all)
    BY <1>1, SizesPrimed DEF ReadsEmpty
<1> QED BY <1>1, <1>2 DEF CleartextSize
============================================================================
