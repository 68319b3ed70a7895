-------------------------- MODULE HandshakeIOProofs --------------------------
(***************************************************************************)
(* Proofs that HandshakeIO, for messages of any size cut in any way,       *)
(* implements Handshake and keeps its buffers and the connection in order. *)
(***************************************************************************)
EXTENDS HandshakeIOInvariant, Integers, TLAPS

USE DEF Client, Server, Peers, Other, Failed, ClientChallenge,
        ServerChallenge, ClientAuth, ServerAck, Finished

----------------------------------------------------------------------------
(* Sequences.                                                              *)

(* Sequences are equal if their elements are. *)
LEMMA SameSeq ==
    ASSUME NEW S, NEW a \in Seq(S), NEW b \in Seq(S), Len(a) = Len(b),
           \A i \in 1 .. Len(a) : a[i] = b[i]
    PROVE  a = b
  OBVIOUS

(* Concatenation. *)
LEMMA Concatenation ==
    ASSUME NEW S, NEW a \in Seq(S), NEW b \in Seq(S)
    PROVE  /\ a \o b \in Seq(S) /\ Len(a \o b) = Len(a) + Len(b)
           /\ \A i \in 1 .. Len(a) : (a \o b)[i] = a[i]
           /\ \A i \in 1 .. Len(b) : (a \o b)[Len(a) + i] = b[i]
           /\ a = <<>> => a \o b = b
           /\ b = <<>> => a \o b = a
  OBVIOUS

(* Moving the head of b to the end of a. *)
LEMMA MoveOne ==
    ASSUME NEW S, NEW a \in Seq(S), NEW b \in Seq(S), b # <<>>
    PROVE  /\ Append(a, Head(b)) \in Seq(S) /\ Tail(b) \in Seq(S)
           /\ Len(Append(a, Head(b))) = Len(a) + 1
           /\ Append(a, Head(b)) \o Tail(b) = a \o b
  <1>1. Head(b) \in S /\ Tail(b) \in Seq(S) /\ Len(Tail(b)) = Len(b) - 1
    OBVIOUS
  <1>2. Len(b) \in Nat /\ Len(a) \in Nat /\ Len(b) > 0
    OBVIOUS
  <1>3. /\ Append(a, Head(b)) \o Tail(b) \in Seq(S) /\ a \o b \in Seq(S)
        /\ Len(Append(a, Head(b)) \o Tail(b)) = Len(a) + Len(b)
        /\ Len(a \o b) = Len(a) + Len(b)
    BY <1>1, <1>2
  <1>4. ASSUME NEW i \in 1 .. Len(a) + Len(b)
        PROVE  (Append(a, Head(b)) \o Tail(b))[i] = (a \o b)[i]
    BY <1>1, <1>2
  <1> QED BY <1>1, <1>3, <1>4

(* Moving the first k elements of b. *)
LEMMA MoveSome ==
    ASSUME NEW S, NEW a \in Seq(S), NEW b \in Seq(S), NEW k \in 0 .. Len(b)
    PROVE  /\ SubSeq(b, 1, k) \in Seq(S) /\ Len(SubSeq(b, 1, k)) = k
           /\ SubSeq(b, k + 1, Len(b)) \in Seq(S)
           /\ Len(SubSeq(b, k + 1, Len(b))) = Len(b) - k
           /\ \A i \in 1 .. k : SubSeq(b, 1, k)[i] = b[i]
           /\ \A i \in 1 .. Len(b) - k : SubSeq(b, k + 1, Len(b))[i] = b[i + k]
           /\ a \o SubSeq(b, 1, k) \in Seq(S)
           /\ Len(a \o SubSeq(b, 1, k)) = Len(a) + k
  <1>1. /\ SubSeq(b, 1, k) \in Seq(S) /\ Len(SubSeq(b, 1, k)) = k
        /\ SubSeq(b, k + 1, Len(b)) \in Seq(S)
        /\ Len(SubSeq(b, k + 1, Len(b))) = Len(b) - k
    OBVIOUS
  <1>2. /\ \A i \in 1 .. k : SubSeq(b, 1, k)[i] = b[i]
        /\ \A i \in 1 .. Len(b) - k : SubSeq(b, k + 1, Len(b))[i] = b[i + k]
    BY SMTT(60)
  <1>3. /\ a \o SubSeq(b, 1, k) \in Seq(S)
        /\ Len(a \o SubSeq(b, 1, k)) = Len(a) + Len(SubSeq(b, 1, k))
    BY <1>1, Concatenation
  <1> QED BY <1>1, <1>2, <1>3

(* The two parts together are b. *)
LEMMA Rejoined ==
    ASSUME NEW S, NEW a \in Seq(S), NEW b \in Seq(S), NEW k \in 0 .. Len(b)
    PROVE  (a \o SubSeq(b, 1, k)) \o SubSeq(b, k + 1, Len(b)) = a \o b
  <1> DEFINE x == SubSeq(b, 1, k)
             y == SubSeq(b, k + 1, Len(b))
  <1>1. x \in Seq(S) /\ Len(x) = k /\ y \in Seq(S) /\ Len(y) = Len(b) - k
    OBVIOUS
  <1>2. /\ \A i \in 1 .. k : x[i] = b[i]
        /\ \A i \in 1 .. Len(b) - k : y[i] = b[i + k]
    OBVIOUS
  <1> HIDE DEF x, y
  <1> USE <1>1, <1>2
  <1>3. a \o x \in Seq(S) /\ Len(a \o x) = Len(a) + k
    <2>1. a \o x \in Seq(S) /\ Len(a \o x) = Len(a) + Len(x)
      BY Concatenation, ZenonT(60)
    <2> QED BY <2>1
  <1>4. /\ (a \o x) \o y \in Seq(S) /\ a \o b \in Seq(S)
        /\ Len((a \o x) \o y) = Len(a) + Len(b) /\ Len(a \o b) = Len(a) + Len(b)
    <2> DEFINE z == a \o x
    <2>1. z \in Seq(S) /\ Len(z) = Len(a) + k
      BY <1>3
    <2> HIDE DEF z
    <2>2. /\ z \o y \in Seq(S) /\ Len(z \o y) = Len(z) + Len(y)
          /\ a \o b \in Seq(S) /\ Len(a \o b) = Len(a) + Len(b)
      BY <2>1, Concatenation, ZenonT(60)
    <2>3. Len(a) \in Nat /\ Len(b) \in Nat /\ k \in Nat
      OBVIOUS
    <2>4. Len(z \o y) = Len(a) + Len(b)
      BY <2>1, <2>2, <2>3
    <2> QED BY <2>2, <2>4 DEF z
  <1>5. ASSUME NEW i \in 1 .. Len(a) + Len(b)
        PROVE  ((a \o x) \o y)[i] = (a \o b)[i]
    <2>1. CASE i <= Len(a)
      BY <2>1, <1>3
    <2>2. CASE i > Len(a) /\ i <= Len(a) + k
      BY <2>2, <1>3, SMTT(60)
    <2>3. CASE i > Len(a) + k
      <3>1. ((a \o x) \o y)[i] = y[i - (Len(a) + k)]
        BY <2>3, <1>3, SMTT(60)
      <3>2. (a \o b)[i] = b[i - Len(a)]
        BY <2>3
      <3>3. i - (Len(a) + k) \in 1 .. Len(b) - k
        BY <2>3
      <3>4. y[i - (Len(a) + k)] = b[(i - (Len(a) + k)) + k]
        BY <3>3
      <3>5. (i - (Len(a) + k)) + k = i - Len(a)
        BY <1>4
      <3> QED BY <3>1, <3>2, <3>4, <3>5
    <2> QED BY <2>1, <2>2, <2>3, SMTT(60)
  <1>6. (a \o x) \o y = a \o b
    BY <1>4, <1>5, SameSeq
  <1> QED BY <1>6 DEF x, y

(* ... is associative. *)
LEMMA Associative ==
    ASSUME NEW S, NEW a \in Seq(S), NEW b \in Seq(S), NEW d \in Seq(S)
    PROVE  a \o (b \o d) = (a \o b) \o d
  <1>1. /\ a \o (b \o d) \in Seq(S) /\ (a \o b) \o d \in Seq(S)
        /\ Len(a \o (b \o d)) = Len(a) + Len(b) + Len(d)
        /\ Len((a \o b) \o d) = Len(a) + Len(b) + Len(d)
    OBVIOUS
  <1>2. ASSUME NEW i \in 1 .. Len(a) + Len(b) + Len(d)
        PROVE  (a \o (b \o d))[i] = ((a \o b) \o d)[i]
    <2>1. /\ b \o d \in Seq(S) /\ Len(b \o d) = Len(b) + Len(d)
          /\ a \o b \in Seq(S) /\ Len(a \o b) = Len(a) + Len(b)
      OBVIOUS
    <2>2. CASE i <= Len(a)
      BY <2>1, <2>2
    <2>3. CASE i > Len(a) /\ i <= Len(a) + Len(b)
      BY <2>1, <2>3
    <2>4. CASE i > Len(a) + Len(b)
      BY <2>1, <2>4
    <2> QED BY <2>2, <2>3, <2>4
  <1> QED BY <1>1, <1>2, SMTT(60)

(* An element behind the second of two. *)
LEMMA AppendLast ==
    ASSUME NEW S, NEW a \in Seq(S), NEW b \in Seq(S), NEW x \in S
    PROVE  /\ a \o Append(b, x) = Append(a \o b, x)
           /\ Append(b, x) = b \o <<x>>
  OBVIOUS

----------------------------------------------------------------------------
(* Where the peers are.                                                    *)

(* No message is empty. *)
LEMMA Sizes == \A n \in 1 .. 4 : MessageSize(n) \in Nat /\ MessageSize(n) > 0
  <1>1. {ChallengeSize, AuthSize, AckSize} \subseteq Nat \ {0}
    BY SizesAssumption
  <1>2. MessageSize(1) = ChallengeSize /\ MessageSize(2) = ChallengeSize
    BY DEF MessageSize
  <1>3. MessageSize(3) = AuthSize
    BY DEF MessageSize
  <1>4. MessageSize(4) = AckSize
    BY DEF MessageSize
  <1> QED BY <1>1, <1>2, <1>3, <1>4

(* What position, step and buffers of a peer have to do with each other.   *)
Placed(p) ==
    /\ Pos(p) \in 0 .. 5 /\ Want(p) \in Nat /\ Len(outBuf[p]) \in Nat
    /\ isSent[p] => Sends(p, step[p]) /\ Pos(p) = step[p] + 1
    /\ ~isSent[p] => Pos(p) = step[p]
    /\ isSent[p] <=> (outBuf[p] # <<>> /\ written[p] = Len(outBuf[p]))
    /\ step[p] \in {Failed, Finished} =>
          Pos(p) = step[p] /\ Want(p) = 0 /\ ~AboutToSend(p) /\ ~isSent[p]
    /\ step[p] # Failed => Pos(p) > 0
    /\ AboutToSend(p) => /\ Pos(p) = step[p] /\ Want(p) = 0 /\ step[p] \in 1 .. 4
                         /\ Rest(p) \in 1 .. MessageSize(step[p])
    /\ Receives(p, step[p]) =>
          /\ Pos(p) = step[p] /\ ~AboutToSend(p) /\ step[p] \in 1 .. 4
          /\ Want(p) = MessageSize(step[p]) /\ byteCountNeeded(p) = Want(p)
          /\ Want(p) > 0 /\ outBuf[p] = <<>> /\ ~isSent[p]
    /\ ~Receives(p, step[p]) => byteCountNeeded(p) = 0
    /\ ~Receives(p, step[p]) /\ step[p] # Failed => inBuf[p] = <<>>
    /\ Sends(p, step[p]) /\ Pos(Other(p)) = step[p] =>
          Want(Other(p)) = MessageSize(step[p])

(* ... in every state. *)
LEMMA Places ==
    TypeInv /\ BuffersMatchStep /\ (\A p \in Peers : OutputInv(p))
        => \A p \in Peers : Placed(p)
  <1> SUFFICES ASSUME TypeInv, BuffersMatchStep, NEW p \in Peers,
                      \A r \in Peers : OutputInv(r)
               PROVE  Placed(p)
    OBVIOUS
  <1>1. /\ step[p] \in 0 .. 5 /\ Len(outBuf[p]) \in Nat /\ written[p] \in Nat
        /\ outBuf[p] # <<>> => Len(outBuf[p]) > 0
        /\ Len(inBuf[p]) \in Nat /\ (Len(inBuf[p]) = 0 => inBuf[p] = <<>>)
    BY DEF TypeInv, Steps
  <1>2. isSent[p] <=> (outBuf[p] # <<>> /\ written[p] = Len(outBuf[p]))
    BY DEF isSent
  <1>3. /\ outBuf[p] # <<>> => Sends(p, step[p]) /\ Len(outBuf[p]) <= MessageSize(step[p])
        /\ written[p] <= Len(outBuf[p])
        /\ step[p] # 0 => Len(inBuf[p]) <= byteCountNeeded(p)
    BY DEF BuffersMatchStep, BuffersMatch, OutputInv
  <1>4. \A n \in 1 .. 4 : MessageSize(n) \in Nat /\ MessageSize(n) > 0
    BY Sizes
  <1>5. /\ Pos(p) \in 0 .. 5 /\ (step[p] # 0 => Pos(p) > 0)
        /\ isSent[p] => Sends(p, step[p]) /\ Pos(p) = step[p] + 1
        /\ ~isSent[p] => Pos(p) = step[p]
        /\ step[p] \in {0, 5} => Pos(p) = step[p] /\ ~AboutToSend(p) /\ ~isSent[p]
    BY <1>1, <1>2, <1>3 DEF Pos, Sends, AboutToSend
  <1>6. /\ Want(p) \in Nat /\ (step[p] \in {0, 5} => Want(p) = 0)
    BY <1>4, <1>5 DEF Want, Receives
  <1>7. ASSUME AboutToSend(p)
        PROVE  /\ Pos(p) = step[p] /\ Want(p) = 0 /\ step[p] \in 1 .. 4
               /\ Rest(p) \in 1 .. MessageSize(step[p])
    <2>1. Pos(p) = step[p] /\ step[p] \in 1 .. 4 /\ ~isSent[p]
      BY <1>5, <1>7 DEF AboutToSend, Sends
    <2>2. Want(p) = 0
      BY <1>7, <2>1 DEF Want, Receives, AboutToSend, Sends
    <2>3. Rest(p) \in 1 .. MessageSize(step[p])
      BY <1>1, <1>2, <1>3, <1>4, <2>1, SMTT(60) DEF Rest
    <2> QED BY <2>1, <2>2, <2>3
  <1>8. ASSUME Receives(p, step[p])
        PROVE  /\ Pos(p) = step[p] /\ ~AboutToSend(p) /\ step[p] \in 1 .. 4
               /\ Want(p) = MessageSize(step[p]) /\ byteCountNeeded(p) = Want(p)
               /\ Want(p) > 0 /\ outBuf[p] = <<>> /\ ~isSent[p]
    <2>1. ~Sends(p, step[p]) /\ step[p] \in 1 .. 4
      BY <1>8 DEF Sends, Receives
    <2>2. outBuf[p] = <<>> /\ ~isSent[p] /\ Pos(p) = step[p] /\ ~AboutToSend(p)
      BY <1>2, <1>3, <1>5, <2>1 DEF AboutToSend
    <2>3. Want(p) = MessageSize(step[p]) /\ byteCountNeeded(p) = MessageSize(step[p])
      BY <1>8, <2>2 DEF Want, byteCountNeeded
    <2> QED BY <1>4, <2>1, <2>2, <2>3
  <1>9. ASSUME ~Receives(p, step[p])
        PROVE  byteCountNeeded(p) = 0 /\ (step[p] # 0 => inBuf[p] = <<>>)
    BY <1>1, <1>3, <1>9 DEF byteCountNeeded
  <1>10. Sends(p, step[p]) /\ Pos(Other(p)) = step[p] =>
            Want(Other(p)) = MessageSize(step[p])
    BY DEF Want, Sends, Receives
  <1> QED BY <1>1, <1>2, <1>5, <1>6, <1>7, <1>8, <1>9, <1>10 DEF Placed

(* ... before and after each step. *)
LEMMA PlacesNext ==
    (TypeInv /\ BuffersMatchStep /\ (\A p \in Peers : OutputInv(p)))'
        => (\A p \in Peers : Placed(p))'
  BY Places, PTL

----------------------------------------------------------------------------
(* What is under way.                                                      *)

(* InFlight without its conditions. *)
Flown(p) ==
    /\ InFlight(p) \in Seq(ByteSet) /\ Len(InFlight(p)) \in Nat
    /\ Len(InFlight(p)) = 0 => InFlight(p) = <<>>
    /\ inBuf[Other(p)] \in Seq(ByteSet) /\ wire[p] \in Seq(ByteSet)
    /\ Len(wire[p]) \in Nat
    /\ step[Other(p)] = Failed => InFlight(p) = wire[p]
    /\ step[Other(p)] # Failed => InFlight(p) = inBuf[Other(p)] \o wire[p]

(* InFlight has that form in every state.                                  *)
LEMMA Flights == TypeInv => \A p \in Peers : Flown(p)
  <1> SUFFICES ASSUME TypeInv, NEW p \in Peers PROVE Flown(p)
    OBVIOUS
  <1>1. /\ inBuf[Other(p)] \in Seq(ByteSet) /\ wire[p] \in Seq(ByteSet)
    BY DEF TypeInv
  <1>2. CASE step[Other(p)] = Failed
    <2>1. InFlight(p) = <<>> \o wire[p]
      BY <1>2 DEF InFlight
    <2>2. InFlight(p) = wire[p]
      BY <1>1, <2>1
    <2> QED BY <1>1, <1>2, <2>2 DEF Flown
  <1>3. CASE step[Other(p)] # Failed
    <2>1. InFlight(p) = inBuf[Other(p)] \o wire[p]
      BY <1>3 DEF InFlight
    <2>2. InFlight(p) \in Seq(ByteSet)
      BY <1>1, <2>1
    <2>3. /\ Len(InFlight(p)) \in Nat /\ Len(wire[p]) \in Nat
          /\ Len(InFlight(p)) = 0 => InFlight(p) = <<>>
      BY <1>1, <2>2
    <2> QED BY <1>1, <1>3, <2>1, <2>2, <2>3, Zenon DEF Flown
  <1> QED BY <1>2, <1>3

(* ... after each step. *)
LEMMA FlightsNext == TypeInv' => (\A p \in Peers : Flown(p))'
  BY Flights, PTL

(* What peer r's place depends on. *)
Stands(r) ==
    step'[r] = step[r] /\ outBuf'[r] = outBuf[r] /\ written'[r] = written[r]
Kept(r) == Stands(r) /\ open'[r] = open[r] /\ data'[r] = data[r]

(* A peer whose step and output stay has its place in the handshake kept.  *)
LEMMA Keeps ==
    ASSUME NEW r \in Peers, Stands(r)
    PROVE  /\ isSent'[r] = isSent[r] /\ Pos(r)' = Pos(r) /\ Want(r)' = Want(r)
           /\ AboutToSend(r)' = AboutToSend(r) /\ Rest(r)' = Rest(r)
  <1>1. isSent'[r] = isSent[r]
    BY DEF isSent, Stands
  <1>2. Pos(r)' = Pos(r)
    BY <1>1 DEF Pos, Stands
  <1>3. AboutToSend(r)' = AboutToSend(r)
    BY <1>1 DEF AboutToSend, Stands
  <1> QED BY <1>1, <1>2, <1>3 DEF Want, Rest, Stands

(* A peer stays where it is: the step of sendCompleted() was counted when  *)
(* the last byte was written.                                              *)
SamePlace(r) ==
    /\ Pos(r)' = Pos(r) /\ Want(r)' = Want(r)
    /\ AboutToSend(r)' = AboutToSend(r)
    /\ AboutToSend(r) => Rest(r)' = Rest(r) /\ outBuf'[r] = outBuf[r]
    /\ (step'[r] = Failed) = (step[r] = Failed)
    /\ open'[r] = open[r] /\ data'[r] = data[r]

(* A peer that a step leaves alone stays where it is.                      *)
LEMMA KeptPlace == ASSUME NEW r \in Peers, Kept(r) PROVE SamePlace(r)
  BY Keeps DEF Kept, Stands, SamePlace

(* A step that moves nothing but bytes of the same flight keeps FlightInv. *)
LEMMA FlightKept ==
    ASSUME \A r \in Peers : FlightInv(r),
           \A r \in Peers : SamePlace(r) /\ InFlight(r)' = InFlight(r)
    PROVE  \A r \in Peers : FlightInv(r)'
  <1> SUFFICES ASSUME NEW r \in Peers PROVE FlightInv(r)'
    OBVIOUS
  <1>1. /\ FlightInv(r) /\ SamePlace(r) /\ SamePlace(Other(r))
        /\ InFlight(r)' = InFlight(r)
    OBVIOUS
  <1>2. TurnInv(r)'
    BY <1>1 DEF TurnInv, FlightInv, SamePlace
  <1>3. FlowInv(r)'
    BY <1>1 DEF FlowInv, FlightInv, SamePlace
  <1>4. LengthInv(r)'
    BY <1>1 DEF LengthInv, Due, FlightInv, SamePlace
  <1>5. FailedInv(r)'
    BY <1>1 DEF FailedInv, FlightInv, SamePlace
  <1> QED BY <1>2, <1>3, <1>4, <1>5 DEF FlightInv

----------------------------------------------------------------------------
(* The shape of what is under way.                                         *)

(* The bytes of a message. *)
LEMMA MessageBytes ==
    ASSUME NEW m \in Messages, NEW n \in Nat
    PROVE  /\ Bytes(m, n) \in Seq(ByteSet) /\ Len(Bytes(m, n)) = n
           /\ \A i \in 1 .. n :
                 Bytes(m, n)[i] = [msg |-> m, left |-> n - i, good |-> TRUE]
  <1>1. \A i \in 1 .. n : [msg |-> m, left |-> n - i, good |-> TRUE] \in ByteSet
    BY DEF ByteSet
  <1> QED BY <1>1 DEF Bytes

(* More bytes of the message ... *)
LEMMA ShapeGrows ==
    ASSUME NEW w \in Seq(ByteSet), NEW n \in Nat, NEW rest \in 1 .. n,
           NEW v \in Seq(ByteSet), NEW m
    PROVE  /\ Len(w) = n - rest /\ Len(v) <= rest /\ Shape(w, n) /\ m # Unset
           /\ w # <<>> => w[1].msg = m
           /\ \A i \in 1 .. Len(v) : v[i].msg = m /\ v[i].left = rest - i
           => /\ Shape(w \o v, n)
              /\ w \o v # <<>> => (w \o v)[1].msg = m
  <1> DEFINE u == w \o v
  <1>1. /\ u \in Seq(ByteSet) /\ Len(u) = Len(w) + Len(v)
        /\ \A i \in 1 .. Len(w) : u[i] = w[i]
        /\ \A i \in 1 .. Len(v) : u[Len(w) + i] = v[i]
    OBVIOUS
  <1>2. Len(w) \in Nat /\ Len(v) \in Nat
    OBVIOUS
  <1> HIDE DEF u
  <1> SUFFICES ASSUME Len(w) = n - rest, Len(v) <= rest, Shape(w, n), m # Unset,
                      w # <<>> => w[1].msg = m,
                      \A i \in 1 .. Len(v) : v[i].msg = m /\ v[i].left = rest - i
               PROVE  Shape(u, n) /\ (u # <<>> => u[1].msg = m)
    BY Zenon DEF u
  <1>3. ASSUME NEW i \in 1 .. Len(w) + Len(v)
        PROVE  u[i].msg = m /\ u[i].left = n - i
    <2>1. CASE i <= Len(w)
      <3>1. u[i] = w[i] /\ i \in DOMAIN w /\ i <= n /\ w # <<>>
        BY <1>1, <1>2, <2>1, SMTT(60)
      <3> QED BY <3>1 DEF Shape
    <2>2. CASE i > Len(w)
      <3>1. i - Len(w) \in 1 .. Len(v) /\ i = Len(w) + (i - Len(w))
        BY <1>2, <2>2, SMTT(60)
      <3>2. u[i] = v[i - Len(w)]
        BY <1>1, <3>1, Zenon
      <3>3. v[i - Len(w)].msg = m /\ v[i - Len(w)].left = rest - (i - Len(w))
        BY <3>1, Zenon
      <3>4. rest - (i - Len(w)) = n - i
        BY <1>2
      <3> QED BY <3>2, <3>3, <3>4
    <2> QED BY <1>2, <2>1, <2>2
  <1>4. /\ DOMAIN u = 1 .. Len(w) + Len(v) /\ Len(w) + Len(v) <= n
        /\ u # <<>> => 1 \in 1 .. Len(w) + Len(v)
    BY <1>1, <1>2
  <1>5. Shape(u, n)
    <2>1. ASSUME NEW i \in 1 .. Len(w) + Len(v)
          PROVE  /\ i <= n /\ u[i].msg = u[1].msg
                 /\ u[i].msg # Unset /\ u[i].left = n - i
      <3>1. 1 \in 1 .. Len(w) + Len(v) /\ i <= n
        BY <1>2, <1>4
      <3> QED BY <1>3, <3>1
    <2>2. ASSUME NEW i \in DOMAIN u
          PROVE  /\ i <= n => /\ u[i].msg = u[1].msg /\ u[i].msg # Unset
                              /\ u[i].left = n - i
                 /\ i > n => u[i] = DataByte(i - n)
      <3>1. i \in 1 .. Len(w) + Len(v) /\ i <= n /\ ~(i > n)
        BY <1>2, <1>4
      <3> QED BY <2>1, <3>1, Zenon
    <2> QED BY <2>2, Zenon DEF Shape
  <1> QED BY <1>3, <1>4, <1>5

(* ... session data behind it ... *)
LEMMA ShapeData ==
    ASSUME NEW w \in Seq(ByteSet), NEW n \in Nat, NEW d \in Nat,
           Len(w) = n + d, Shape(w, n)
    PROVE  Shape(Append(w, DataByte(d + 1)), n)
  <1>1. DataByte(d + 1) \in ByteSet
    BY DEF DataByte, ByteSet
  <1> DEFINE v == Append(w, DataByte(d + 1))
  <1>2. /\ DOMAIN v = 1 .. Len(w) + 1 /\ DOMAIN w = 1 .. Len(w)
        /\ \A i \in 1 .. Len(w) : v[i] = w[i]
        /\ v[Len(w) + 1] = DataByte(d + 1)
    BY <1>1
  <1>3. Len(w) \in Nat
    OBVIOUS
  <1> HIDE DEF v
  <1> SUFFICES ASSUME NEW i \in 1 .. Len(w) + 1
               PROVE  /\ i <= n => /\ v[i].msg = v[1].msg /\ v[i].msg # Unset
                                   /\ v[i].left = n - i
                      /\ i > n => v[i] = DataByte(i - n)
    BY <1>2 DEF Shape, v
  <1>4. CASE i <= Len(w)
    <2>1. i \in DOMAIN w /\ 1 \in 1 .. Len(w) /\ i \in 1 .. Len(w)
      BY <1>2, <1>3, <1>4
    <2> QED BY <1>2, <2>1 DEF Shape
  <1>5. CASE i = Len(w) + 1
    BY <1>2, <1>5
  <1> QED BY <1>3, <1>4, <1>5

(* ... and behind the message, once it has been read. *)
LEMMA ShapeRest ==
    ASSUME NEW w \in Seq(ByteSet), NEW n \in Nat, NEW v \in Seq(ByteSet),
           n <= Len(w), Len(v) = Len(w) - n,
           \A i \in 1 .. Len(v) : v[i] = w[n + i], Shape(w, n)
    PROVE  Shape(v, 0)
  <1>1. DOMAIN v = 1 .. Len(v) /\ DOMAIN w = 1 .. Len(w) /\ Len(w) \in Nat
    OBVIOUS
  <1> SUFFICES ASSUME NEW i \in 1 .. Len(v) PROVE v[i] = DataByte(i)
    BY <1>1 DEF Shape
  <1>2. n + i \in DOMAIN w /\ n + i > n /\ v[i] = w[n + i] /\ (n + i) - n = i
    BY <1>1
  <1> QED BY <1>2 DEF Shape

----------------------------------------------------------------------------
(* The flight of bytes, step by step.                                      *)

(* When p has the turn the other one waits for its message, has sent       *)
(* nothing that p has not read, and has got all that p sent so far.        *)
LEMMA OnTurn ==
    ASSUME IOInv, NEW p \in Peers, AboutToSend(p), open[p]
    PROVE  /\ step[p] # Failed /\ step[Other(p)] # Failed
           /\ Pos(Other(p)) = Pos(p) /\ Pos(p) \in 1 .. 4
           /\ Want(Other(p)) = MessageSize(step[p]) /\ Want(Other(p)) \in Nat
           /\ Rest(p) \in 1 .. Want(Other(p)) /\ ~AboutToSend(Other(p))
           /\ Len(InFlight(p)) = Want(Other(p)) - Rest(p)
           /\ InFlight(Other(p)) = <<>> /\ data[p] = 0 /\ data[Other(p)] = 0
           /\ Want(Other(p)) > 0
  <1> DEFINE q == Other(p)
  <1>1. q \in Peers /\ Other(q) = p
    OBVIOUS
  <1>2. Placed(p) /\ Placed(q) /\ Flown(p) /\ Flown(q)
    BY <1>1, Places, Flights DEF IOInv
  <1>3. FlightInv(p) /\ FlightInv(q) /\ OutputInv(p) /\ OutputInv(q)
    BY <1>1 DEF IOInv
  <1>4. data[p] \in Nat /\ data[q] \in Nat /\ step[q] \in 0 .. 5
    BY <1>1 DEF IOInv, TypeInv, Steps
  <1> HIDE DEF q
  <1>5. /\ step[p] \in 1 .. 4 /\ Pos(p) = step[p]
        /\ Rest(p) \in 1 .. MessageSize(step[p]) /\ Sends(p, step[p])
    BY <1>2 DEF Placed, AboutToSend
  <1>6. step[q] # Failed
    BY <1>1, <1>3 DEF FlightInv, FailedInv
  <1>7. Pos(q) = Pos(p)
    BY <1>3, <1>5, <1>6 DEF FlightInv, TurnInv, q
  <1>8. Want(q) = MessageSize(step[p]) /\ MessageSize(step[p]) \in Nat /\ MessageSize(step[p]) > 0
    BY <1>2, <1>5, <1>7, Sizes DEF Placed, q
  <1>9. ~AboutToSend(q)
    BY <1>2, <1>8 DEF Placed
  <1>10. Len(InFlight(p)) = Want(q) - Rest(p)
    BY <1>3, <1>5 DEF FlightInv, LengthInv, Due, q
  <1>11. data[p] = 0 /\ data[q] = 0
    <2>1. data[p] = 0
      BY <1>3, <1>4, <1>5 DEF OutputInv
    <2>2. step[q] # 5
      BY <1>2, <1>5, <1>7 DEF Placed
    <2> QED BY <1>3, <1>4, <2>1, <2>2 DEF OutputInv
  <1>12. InFlight(q) = <<>>
    <2>1. Len(InFlight(q)) <= Due(q)
      BY <1>1, <1>3, <1>5, <1>6 DEF FlightInv, LengthInv
    <2>2. Pos(q) # Pos(p) + 1
      BY <1>5, <1>7
    <2>3. Due(q) = 0
      BY <1>1, <1>9, <1>11, <2>2 DEF Due
    <2> QED BY <1>2, <2>1, <2>3 DEF Flown
  <1> QED BY <1>5, <1>6, <1>7, <1>8, <1>9, <1>10, <1>11, <1>12 DEF q

(* When p has the whole message it waits for, the other one has sent it,   *)
(* waits itself (or has finished), and has read all that p sent.           *)
LEMMA OnRead ==
    ASSUME IOInv, NEW p \in Peers, Receives(p, step[p]), open[p],
           Len(InFlight(Other(p))) >= Want(p)
    PROVE  /\ step[p] # Failed /\ step[Other(p)] # Failed
           /\ Pos(Other(p)) = Pos(p) + 1 /\ ~AboutToSend(Other(p))
           /\ Pos(p) = step[p] /\ step[p] \in 1 .. 4
           /\ InFlight(p) = <<>> /\ data[p] = 0
  <1> DEFINE q == Other(p)
  <1>1. q \in Peers /\ Other(q) = p
    OBVIOUS
  <1>2. Placed(p) /\ Placed(q) /\ Flown(p) /\ Flown(q)
    BY <1>1, Places, Flights DEF IOInv
  <1>3. FlightInv(p) /\ FlightInv(q) /\ OutputInv(p) /\ OutputInv(q)
    BY <1>1 DEF IOInv
  <1>4. data[p] \in Nat /\ data[q] \in Nat /\ step[q] \in 0 .. 5
    BY <1>1 DEF IOInv, TypeInv, Steps
  <1>5. Len(InFlight(q)) >= Want(p)
    OBVIOUS
  <1> HIDE DEF q
  <1>6. /\ Pos(p) = step[p] /\ step[p] \in 1 .. 4 /\ Want(p) \in Nat /\ Want(p) > 0
        /\ ~AboutToSend(p)
    BY <1>2 DEF Placed
  <1>7. step[q] # Failed
    <2>1. InFlight(q) # <<>>
      BY <1>5, <1>6
    <2> QED BY <1>1, <1>3, <2>1 DEF FlightInv, FailedInv
  <1>8. Len(InFlight(q)) <= Due(q)
    BY <1>1, <1>3, <1>6, <1>7 DEF FlightInv, LengthInv
  <1>9. ~AboutToSend(q)
    <2> SUFFICES ASSUME AboutToSend(q) PROVE FALSE
      OBVIOUS
    <2>1. Due(q) = Want(p) - Rest(q)
      BY <1>1 DEF Due
    <2>2. step[q] \in 1 .. 4 /\ Rest(q) \in 1 .. MessageSize(step[q])
      BY <1>2 DEF Placed
    <2>3. MessageSize(step[q]) \in Nat
      BY <2>2, Sizes
    <2>4. Rest(q) > 0 /\ Rest(q) \in Nat
      BY <2>2, <2>3
    <2> QED BY <1>2, <1>5, <1>6, <1>8, <2>1, <2>4 DEF Flown
  <1>10. Pos(q) = Pos(p) + 1
    <2> SUFFICES ASSUME Pos(q) # Pos(p) + 1 PROVE FALSE
      OBVIOUS
    <2>1. Due(q) = data[q]
      BY <1>1, <1>4, <1>9 DEF Due
    <2>2. data[q] > 0
      BY <1>2, <1>4, <1>5, <1>6, <1>8, <2>1 DEF Flown
    <2>3. step[q] = 5 /\ Pos(q) = 5
      BY <1>2, <1>3, <2>2 DEF OutputInv, Placed
    <2>4. Pos(q) <= Pos(p) + 1
      BY <1>1, <1>3, <1>6, <1>7 DEF FlightInv, TurnInv
    <2> QED BY <1>6, <2>3, <2>4
  <1>11. data[p] = 0
    BY <1>3, <1>4, <1>6 DEF OutputInv
  <1>12. InFlight(p) = <<>>
    <2>1. Len(InFlight(p)) <= Due(p)
      BY <1>1, <1>3, <1>6, <1>7 DEF FlightInv, LengthInv, q
    <2>2. Pos(p) # Pos(q) + 1
      BY <1>6, <1>10
    <2>3. Due(p) = 0
      BY <1>1, <1>6, <1>11, <2>2 DEF Due, q
    <2> QED BY <1>2, <2>1, <2>3 DEF Flown
  <1> QED BY <1>6, <1>7, <1>9, <1>10, <1>11, <1>12 DEF q

(* p sends the bytes v of message m, none, some or the last of them.       *)
Emits(p, m, v) ==
    /\ AboutToSend(p) /\ open[p] /\ Len(v) <= Rest(p) /\ m # Unset
    /\ outBuf[p] # <<>> => outBuf[p][1].msg = m
    /\ \A i \in 1 .. Len(v) : v[i].msg = m /\ v[i].left = Rest(p) - i
    /\ \A i \in 1 .. Len(v) : v[i].good
    /\ Kept(Other(p)) /\ InFlight(Other(p))' = InFlight(Other(p))
    /\ step'[p] # Failed /\ data'[p] = data[p]
    /\ InFlight(p)' = InFlight(p) \o v
    /\ Len(v) = Rest(p) => Pos(p)' = Pos(p) + 1 /\ ~AboutToSend(p)'
    /\ Len(v) < Rest(p) => /\ Pos(p)' = Pos(p) /\ AboutToSend(p)'
                           /\ Rest(p)' = Rest(p) - Len(v)
                           /\ outBuf'[p] # <<>> /\ outBuf'[p][1].msg = m

(* Sending bytes of the message on turn keeps the flight in order.         *)
LEMMA EmitsFlight ==
    ASSUME IOInv, NEW p \in Peers, NEW m, NEW v \in Seq(ByteSet), Emits(p, m, v)
    PROVE  FlightInv(p)' /\ FlightInv(Other(p))'
  <1> DEFINE q == Other(p)
             n == Want(Other(p))
  <1>1. q \in Peers /\ Other(q) = p
    OBVIOUS
  <1>2. /\ step[p] # Failed /\ step[q] # Failed /\ Pos(q) = Pos(p)
        /\ Pos(p) \in 1 .. 4 /\ n \in Nat /\ Rest(p) \in 1 .. n
        /\ ~AboutToSend(q) /\ Len(InFlight(p)) = n - Rest(p)
        /\ InFlight(q) = <<>> /\ data[p] = 0 /\ data[q] = 0
    BY OnTurn DEF Emits
  <1>3. /\ step'[q] = step[q] /\ data'[q] = data[q] /\ Pos(q)' = Pos(q)
        /\ Want(q)' = n /\ ~AboutToSend(q)'
    BY <1>1, <1>2, Keeps DEF Emits, Kept, Stands
  <1>4. Flown(p) /\ FlightInv(p) /\ Len(v) \in Nat
    BY Flights DEF IOInv
  <1>5. /\ InFlight(p)' = InFlight(p) \o v /\ InFlight(q)' = <<>>
        /\ Len(InFlight(p))' = (n - Rest(p)) + Len(v)
        /\ step'[p] # Failed /\ data'[p] = 0 /\ Len(v) <= Rest(p)
    <2>1. /\ InFlight(p)' = InFlight(p) \o v /\ InFlight(q)' = InFlight(q)
          /\ step'[p] # Failed /\ data'[p] = data[p] /\ Len(v) <= Rest(p)
      BY DEF Emits
    <2>2. InFlight(p) \in Seq(ByteSet)
      BY <1>4 DEF Flown
    <2>3. Len(InFlight(p) \o v) = Len(InFlight(p)) + Len(v)
      BY <2>2, Concatenation
    <2> QED BY <1>2, <2>1, <2>3
  <1>6. /\ Shape(InFlight(p) \o v, n)
        /\ InFlight(p) \o v # <<>> => (InFlight(p) \o v)[1].msg = m
    <2>1. InFlight(p) # <<>> => InFlight(p)[1].msg = m
      <3> SUFFICES ASSUME InFlight(p) # <<>> PROVE InFlight(p)[1].msg = m
        OBVIOUS
      <3>1. Rest(p) # n
        BY <1>2, <1>4 DEF Flown
      <3>2. outBuf[p] # <<>>
        BY <3>1, OnTurn DEF Rest, Emits
      <3> QED BY <1>4, <3>2 DEF Emits, FlightInv, FlowInv
    <2>2. Shape(InFlight(p), n) /\ InFlight(p) \in Seq(ByteSet)
      BY <1>4 DEF FlightInv, FlowInv, Flown
    <2>3. /\ Len(v) <= Rest(p) /\ m # Unset
          /\ \A i \in 1 .. Len(v) : v[i].msg = m /\ v[i].left = Rest(p) - i
      BY DEF Emits
    <2> HIDE DEF n
    <2> QED BY <1>2, <2>1, <2>2, <2>3, ShapeGrows, Zenon
  <1> HIDE DEF q, n
  <1>7. CASE Len(v) = Rest(p)
    <2>1. Pos(p)' = Pos(p) + 1 /\ ~AboutToSend(p)'
      BY <1>7 DEF Emits
    <2>2. TurnInv(p)' /\ TurnInv(q)'
      BY <1>1, <1>2, <1>3, <2>1 DEF TurnInv, q
    <2>3. FlowInv(p)'
      BY <1>3, <1>5, <1>6, <2>1 DEF FlowInv, q
    <2>4. FlowInv(q)'
      BY <1>1, <1>3, <1>5 DEF FlowInv, Shape
    <2>5. Due(p)' = n /\ Due(q)' = 0
      <3>1. Pos(p)' = Pos(q)' + 1 /\ Pos(q)' # Pos(p)' + 1
        BY <1>2, <1>3, <2>1
      <3> QED BY <1>1, <1>2, <1>3, <1>5, <2>1, <3>1 DEF Due, q
    <2>6. LengthInv(p)' /\ LengthInv(q)'
      BY <1>1, <1>2, <1>5, <1>7, <2>5, SMTT(60) DEF LengthInv, q
    <2>7. FailedInv(p)' /\ FailedInv(q)'
      BY <1>2, <1>3, <1>5 DEF FailedInv
    <2> QED BY <2>2, <2>3, <2>4, <2>6, <2>7 DEF FlightInv, q
  <1>8. CASE Len(v) < Rest(p)
    <2>1. /\ Pos(p)' = Pos(p) /\ AboutToSend(p)' /\ Rest(p)' = Rest(p) - Len(v)
          /\ outBuf'[p] # <<>> /\ outBuf'[p][1].msg = m
      BY <1>8 DEF Emits
    <2>2. TurnInv(p)' /\ TurnInv(q)'
      BY <1>1, <1>2, <1>3, <2>1 DEF TurnInv, q
    <2>3. FlowInv(p)'
      BY <1>3, <1>5, <1>6, <2>1 DEF FlowInv, q
    <2>4. FlowInv(q)'
      BY <1>1, <1>3, <1>5 DEF FlowInv, Shape
    <2>5. Due(p)' = n - (Rest(p) - Len(v)) /\ Due(q)' = 0
      <3>1. Pos(q)' # Pos(p)' + 1
        BY <1>2, <1>3, <2>1
      <3> QED BY <1>1, <1>2, <1>3, <1>5, <2>1, <3>1 DEF Due, q
    <2>6. Len(InFlight(p))' = n - (Rest(p) - Len(v))
      BY <1>2, <1>4, <1>5
    <2>7. LengthInv(p)' /\ LengthInv(q)'
      BY <1>1, <1>2, <1>4, <1>5, <2>5, <2>6 DEF LengthInv, q
    <2>8. FailedInv(p)' /\ FailedInv(q)'
      BY <1>2, <1>3, <1>5 DEF FailedInv
    <2> QED BY <2>2, <2>3, <2>4, <2>7, <2>8 DEF FlightInv, q
  <1> QED BY <1>2, <1>4, <1>5, <1>7, <1>8

(* p reads the message it waited for, accepts it or fails.                 *)
Reads(p) ==
    /\ Receives(p, step[p]) /\ open[p] /\ Len(InFlight(Other(p))) >= Want(p)
    /\ Kept(Other(p)) /\ InFlight(p)' = InFlight(p)
    /\ outBuf'[p] = outBuf[p] /\ data'[p] = data[p]
    /\ step'[p] \in {step[p] + 1, Failed}
    /\ Len(InFlight(Other(p))') = Len(InFlight(Other(p))) - Want(p)
    /\ \A i \in 1 .. Len(InFlight(Other(p))') :
            InFlight(Other(p))'[i] = InFlight(Other(p))[Want(p) + i]

(* Reading the complete message keeps it in order.                         *)
LEMMA ReadsFlight ==
    ASSUME IOInv, NEW p \in Peers, Reads(p), Flown(Other(p))',
           Placed(p)', Placed(Other(p))'
    PROVE  FlightInv(p)' /\ FlightInv(Other(p))'
  <1> DEFINE q == Other(p)
  <1>1. q \in Peers /\ Other(q) = p
    OBVIOUS
  <1>2. /\ step[p] # Failed /\ step[q] # Failed /\ Pos(q) = Pos(p) + 1
        /\ ~AboutToSend(q) /\ Pos(p) = step[p] /\ step[p] \in 1 .. 4
        /\ InFlight(p) = <<>> /\ data[p] = 0
    BY OnRead DEF Reads
  <1>3. /\ step'[q] = step[q] /\ open'[q] = open[q] /\ data'[q] = data[q]
        /\ Pos(q)' = Pos(q) /\ Want(q)' = Want(q) /\ ~AboutToSend(q)'
    BY <1>1, <1>2, Keeps DEF Reads, Kept, Stands
  <1>4. Placed(p) /\ Flown(q) /\ FlightInv(q) /\ data[q] \in Nat
    BY <1>1, Places, Flights DEF IOInv, TypeInv
  <1>5. /\ InFlight(p)' = <<>> /\ data'[p] = 0 /\ outBuf'[p] = <<>>
        /\ Want(p) \in Nat /\ Want(p) > 0
    BY <1>2, <1>4 DEF Reads, Placed
  <1>6. Shape(InFlight(q)', 0)
    <2>1. /\ InFlight(q) \in Seq(ByteSet) /\ InFlight(q)' \in Seq(ByteSet)
          /\ Shape(InFlight(q), Want(p)) /\ Want(p) <= Len(InFlight(q))
      BY <1>1, <1>4, <1>5 DEF Flown, FlightInv, FlowInv, Reads
    <2>2. /\ Len(InFlight(q)') = Len(InFlight(q)) - Want(p)
          /\ \A i \in 1 .. Len(InFlight(q)') :
                InFlight(q)'[i] = InFlight(q)[Want(p) + i]
      BY DEF Reads
    <2> QED BY <1>5, <2>1, <2>2, ShapeRest
  <1>7. /\ Len(InFlight(q)') = Len(InFlight(q)) - Want(p)
        /\ Len(InFlight(q)) \in Nat /\ Len(InFlight(q)) >= Want(p)
    BY <1>4 DEF Reads, Flown
  <1>8. /\ open[q] => Len(InFlight(q)) = data[q] + Want(p)
        /\ Len(InFlight(q)) <= data[q] + Want(p)
    <2>1. Due(q) = data[q] + Want(p)
      BY <1>1, <1>2 DEF Due
    <2> QED BY <1>1, <1>2, <1>4, <2>1 DEF FlightInv, LengthInv
  <1>9. ~isSent'[p] /\ Pos(p)' = step'[p] /\ Want(p)' = 0
    <2>1. ~isSent'[p] /\ Pos(p)' = step'[p]
      BY <1>5 DEF Placed
    <2>2. ~Receives(p, step'[p])
      BY DEF Reads, Receives
    <2> QED BY <2>1, <2>2 DEF Want
  <1> HIDE DEF q
  <1>10. FlowInv(p)' /\ FlowInv(q)'
    <2>1. FlowInv(p)'
      BY <1>5 DEF FlowInv, Shape
    <2>2. FlowInv(q)'
      BY <1>1, <1>3, <1>6, <1>9 DEF FlowInv
    <2> QED BY <2>1, <2>2
  <1>11. CASE step'[p] = Failed
    <2>1. TurnInv(p)' /\ TurnInv(q)' /\ LengthInv(p)' /\ FailedInv(q)'
      BY <1>1, <1>2, <1>3, <1>11 DEF TurnInv, LengthInv, FailedInv
    <2>2. Due(q)' = data[q]
      BY <1>1, <1>3, <1>4, <1>9 DEF Due
    <2>3. LengthInv(q)'
      BY <1>1, <1>3, <1>4, <1>5, <1>7, <1>8, <1>11, <2>2 DEF LengthInv
    <2>4. FailedInv(p)'
      BY <1>3, <1>5, <1>11 DEF FailedInv, q
    <2> QED BY <1>10, <2>1, <2>3, <2>4 DEF FlightInv, q
  <1>12. CASE step'[p] = step[p] + 1
    <2>1. Pos(p)' = Pos(q)' /\ Pos(p)' \in Nat
      BY <1>2, <1>3, <1>9, <1>12
    <2>2. TurnInv(p)' /\ TurnInv(q)'
      BY <1>1, <1>3, <2>1 DEF TurnInv, q
    <2>3. FailedInv(p)' /\ FailedInv(q)'
      BY <1>2, <1>3, <1>12 DEF FailedInv
    <2>4. Due(q)' = data[q]
      BY <1>1, <1>3, <1>4, <1>9, <2>1 DEF Due
    <2>5. LengthInv(q)'
      BY <1>1, <1>3, <1>4, <1>5, <1>7, <1>8, <2>4 DEF LengthInv
    <2>6. Due(p)' = 0
      <3>1. CASE AboutToSend(p)'
        <4>1. Sends(p, step'[p]) /\ Pos(q)' = step'[p]
          BY <1>9, <2>1, <3>1 DEF AboutToSend
        <4>2. Want(q)' = MessageSize(step'[p]) /\ MessageSize(step'[p]) \in Nat
          BY <4>1, Sizes DEF Placed, q, Sends
        <4>3. Rest(p)' = MessageSize(step'[p])
          BY <1>5 DEF Rest
        <4> QED BY <3>1, <4>2, <4>3 DEF Due, q
      <3>2. CASE ~AboutToSend(p)'
        BY <1>5, <2>1, <3>2 DEF Due, q
      <3> QED BY <3>1, <3>2
    <2>7. LengthInv(p)'
      BY <1>5, <2>6 DEF LengthInv
    <2> QED BY <1>10, <2>2, <2>3, <2>5, <2>7 DEF FlightInv, q
  <1> QED BY <1>11, <1>12 DEF Reads

(* p finds the end of the connection instead of the message.               *)
ReadsEnd(p) ==
    /\ Receives(p, step[p]) /\ open[p] /\ ~open[Other(p)]
    /\ Kept(Other(p)) /\ InFlight(p)' = InFlight(p)
    /\ step'[p] = Failed /\ outBuf'[p] = outBuf[p]
    /\ InFlight(Other(p))' = <<>>

(* So does failing at the end of the file.                                 *)
LEMMA ReadsEndFlight ==
    ASSUME IOInv, NEW p \in Peers, ReadsEnd(p), Placed(p)'
    PROVE  FlightInv(p)' /\ FlightInv(Other(p))'
  <1> DEFINE q == Other(p)
  <1>1. q \in Peers /\ Other(q) = p
    OBVIOUS
  <1>2. /\ ~open[q] /\ ~open'[q] /\ step'[q] = step[q] /\ Want(q)' = Want(q)
        /\ InFlight(p)' = InFlight(p) /\ InFlight(q)' = <<>>
        /\ step'[p] = Failed
    BY <1>1, Keeps DEF ReadsEnd, Kept, Stands
  <1>3. ~AboutToSend(p)'
    BY <1>2 DEF Placed
  <1>4. Placed(p) /\ FlightInv(p) /\ OutputInv(p) /\ data[p] \in Nat /\ Flown(p)
    BY Places, Flights DEF IOInv, TypeInv
  <1>5. /\ Pos(p) = step[p] /\ step[p] \in 1 .. 4 /\ ~AboutToSend(p) /\ open[p]
    BY <1>4 DEF Placed, ReadsEnd
  <1>6. data[p] = 0
    BY <1>4, <1>5 DEF OutputInv
  <1>7. InFlight(p) = <<>> \/ Len(InFlight(p)) >= Want(q)
    <2>1. Len(InFlight(p)) = Due(p)
      BY <1>4, <1>5 DEF FlightInv, LengthInv
    <2>2. Want(q) \in Nat
      BY <1>1, Places DEF IOInv, Placed
    <2>3. Due(p) = 0 \/ Due(p) = Want(q)
      BY <1>5, <1>6, <2>2 DEF Due
    <2> QED BY <1>4, <2>1, <2>2, <2>3 DEF Flown
  <1> HIDE DEF q
  <1>8. TurnInv(p)' /\ TurnInv(q)' /\ LengthInv(p)'
    BY <1>1, <1>2 DEF TurnInv, LengthInv
  <1>9. LengthInv(q)'
    BY <1>1, <1>2 DEF LengthInv
  <1>10. FlowInv(p)' /\ FlowInv(q)'
    <2>1. FlowInv(p)'
      BY <1>2, <1>3, <1>4 DEF FlightInv, FlowInv, q
    <2>2. FlowInv(q)'
      BY <1>2 DEF FlowInv, Shape
    <2> QED BY <2>1, <2>2
  <1>11. FailedInv(p)' /\ FailedInv(q)'
    BY <1>1, <1>2, <1>3, <1>7 DEF FailedInv, q
  <1> QED BY <1>8, <1>9, <1>10, <1>11 DEF FlightInv, q

(* p sends a byte of its session. *)
SendsDataByte(p) ==
    /\ step[p] = Finished /\ open[p] /\ Stands(p) /\ open'[p] = open[p]
    /\ data'[p] = data[p] + 1
    /\ Kept(Other(p)) /\ InFlight(Other(p))' = InFlight(Other(p))
    /\ InFlight(p)' = Append(InFlight(p), DataByte(data[p] + 1))

(* So does a byte of session data behind the last message.                 *)
LEMMA SendsDataFlight ==
    ASSUME IOInv, NEW p \in Peers, SendsDataByte(p)
    PROVE  FlightInv(p)' /\ FlightInv(Other(p))'
  <1> DEFINE q == Other(p)
             n == Want(Other(p))
  <1>1. q \in Peers /\ Other(q) = p
    OBVIOUS
  <1>2. /\ Placed(p) /\ Placed(q) /\ FlightInv(p) /\ FlightInv(q) /\ Flown(p)
        /\ data[p] \in Nat
    BY <1>1, Places, Flights DEF IOInv, TypeInv
  <1>3. /\ Pos(p) = 5 /\ ~AboutToSend(p) /\ Want(p) = 0 /\ n \in Nat /\ Pos(q) \in Nat
    BY <1>2 DEF Placed, SendsDataByte
  <1>4. /\ step'[p] = step[p] /\ Pos(p)' = Pos(p) /\ ~AboutToSend(p)'
        /\ Want(p)' = Want(p) /\ data'[p] = data[p] + 1 /\ open'[p] = open[p]
    BY <1>3, Keeps DEF SendsDataByte, Stands
  <1>5. /\ step'[q] = step[q] /\ open'[q] = open[q] /\ data'[q] = data[q]
        /\ outBuf'[q] = outBuf[q]
        /\ Pos(q)' = Pos(q) /\ Want(q)' = Want(q)
        /\ AboutToSend(q)' = AboutToSend(q) /\ Rest(q)' = Rest(q)
        /\ InFlight(q)' = InFlight(q)
    BY <1>1, Keeps DEF SendsDataByte, Kept, Stands
  <1>6. Len(InFlight(p)) = n + data[p]
    <2>1. Len(InFlight(p)) = data[p] + IF Pos(p) = Pos(q) + 1 THEN n ELSE 0
      BY <1>2, <1>3 DEF FlightInv, LengthInv, Due, SendsDataByte
    <2>2. CASE Pos(p) = Pos(q) + 1
      BY <1>2, <1>3, <2>1, <2>2
    <2>3. CASE Pos(p) # Pos(q) + 1
      <3>1. n = 0
        <4>1. CASE step[q] = Failed
          BY <1>2, <4>1 DEF Placed
        <4>2. CASE step[q] # Failed
          <5>1. Pos(p) <= Pos(q) + 1
            BY <1>2, <4>2 DEF FlightInv, TurnInv, SendsDataByte
          <5>2. Pos(q) = 5
            BY <1>2, <1>3, <2>3, <5>1 DEF Placed
          <5> QED BY <5>2 DEF Want, Receives
        <4> QED BY <4>1, <4>2
      <3> QED BY <1>2, <2>1, <2>3, <3>1
    <2> QED BY <2>2, <2>3
  <1>7. /\ InFlight(p)' = Append(InFlight(p), DataByte(data[p] + 1))
        /\ Len(InFlight(p)') = Len(InFlight(p)) + 1
    <2>1. InFlight(p)' = Append(InFlight(p), DataByte(data[p] + 1))
      BY DEF SendsDataByte
    <2>2. DataByte(data[p] + 1) \in ByteSet
      BY <1>2 DEF DataByte, ByteSet
    <2> QED BY <1>2, <2>1, <2>2 DEF Flown
  <1>8. Shape(InFlight(p)', n)
    <2>1. InFlight(p) \in Seq(ByteSet) /\ Shape(InFlight(p), n)
      BY <1>2 DEF Flown, FlightInv, FlowInv
    <2> HIDE DEF n
    <2>2. Shape(Append(InFlight(p), DataByte(data[p] + 1)), n)
      BY <1>2, <1>3, <1>6, <2>1, ShapeData
    <2> QED BY <1>7, <2>2
  <1>9. FlowInv(p)'
    BY <1>4, <1>5, <1>8 DEF FlowInv
  <1>10. TurnInv(p)'
    BY <1>2, <1>4, <1>5 DEF FlightInv, TurnInv
  <1>11. LengthInv(p)'
    <2>1. Due(p)' = Due(p) + 1
      BY <1>2, <1>3, <1>4, <1>5 DEF Due
    <2>2. Len(InFlight(p)) = Due(p)
      BY <1>2, <1>3 DEF FlightInv, LengthInv, SendsDataByte
    <2>3. Len(InFlight(p)') = Due(p)' /\ Due(p)' \in Nat
      BY <1>2, <1>7, <2>1, <2>2 DEF Flown
    <2> QED BY <2>3 DEF LengthInv
  <1>12. FailedInv(p)'
    BY <1>4 DEF FailedInv, SendsDataByte
  <1> HIDE DEF q, n
  <1>13. TurnInv(q)' /\ FlowInv(q)'
    BY <1>1, <1>2, <1>4, <1>5 DEF FlightInv, TurnInv, FlowInv
  <1>14. LengthInv(q)'
    BY <1>1, <1>2, <1>4, <1>5 DEF FlightInv, LengthInv, Due
  <1>15. FailedInv(q)'
    BY <1>1, <1>2, <1>3, <1>4, <1>5 DEF FlightInv, FailedInv
  <1> QED BY <1>9, <1>10, <1>11, <1>12, <1>13, <1>14, <1>15 DEF FlightInv, q

(* p closes, and what it had under way loses its end, or bytes of the      *)
(* message are damaged.                                                    *)
Damages(p) ==
    /\ Kept(Other(p)) /\ InFlight(Other(p))' = InFlight(Other(p))
    /\ Stands(p) /\ data'[p] = data[p]
    /\ open'[p] => open[p] /\ Len(InFlight(p)') = Len(InFlight(p))
    /\ Len(InFlight(p)') <= Len(InFlight(p))
    /\ \A i \in 1 .. Len(InFlight(p)') :
          LET b == InFlight(p)[i]
              d == InFlight(p)'[i]
          IN  d.msg = b.msg /\ d.left = b.left /\ (b.msg = Unset => d = b)

(* So do a crash and a damaged byte.                                       *)
LEMMA DamagesFlight ==
    ASSUME IOInv, NEW p \in Peers, Damages(p), Flown(p)'
    PROVE  FlightInv(p)' /\ FlightInv(Other(p))'
  <1> DEFINE q == Other(p)
  <1>1. q \in Peers /\ Other(q) = p
    OBVIOUS
  <1>2. /\ Placed(p) /\ Placed(q) /\ FlightInv(p) /\ FlightInv(q) /\ Flown(p)
        /\ data[p] \in Nat
    BY <1>1, Places, Flights DEF IOInv, TypeInv
  <1>3. /\ step'[p] = step[p] /\ Pos(p)' = Pos(p) /\ AboutToSend(p)' = AboutToSend(p)
        /\ Want(p)' = Want(p) /\ data'[p] = data[p] /\ outBuf'[p] = outBuf[p]
        /\ Rest(p)' = Rest(p)
    BY Keeps DEF Damages, Stands
  <1>4. /\ step'[q] = step[q] /\ open'[q] = open[q] /\ data'[q] = data[q]
        /\ outBuf'[q] = outBuf[q]
        /\ Pos(q)' = Pos(q) /\ Want(q)' = Want(q)
        /\ AboutToSend(q)' = AboutToSend(q) /\ Rest(q)' = Rest(q)
        /\ InFlight(q)' = InFlight(q)
    BY <1>1, Keeps DEF Damages, Kept, Stands
  <1>5. /\ open'[p] => open[p] /\ Len(InFlight(p)') = Len(InFlight(p))
        /\ Len(InFlight(p)') <= Len(InFlight(p))
        /\ Len(InFlight(p)') \in Nat /\ Len(InFlight(p)) \in Nat
        /\ InFlight(p) \in Seq(ByteSet) /\ InFlight(p)' \in Seq(ByteSet)
        /\ Len(InFlight(p)') = 0 => InFlight(p)' = <<>>
    BY <1>2 DEF Damages, Flown
  <1>6. ASSUME NEW i \in 1 .. Len(InFlight(p)')
        PROVE  /\ InFlight(p)'[i].msg = InFlight(p)[i].msg
               /\ InFlight(p)'[i].left = InFlight(p)[i].left
               /\ InFlight(p)[i].msg = Unset => InFlight(p)'[i] = InFlight(p)[i]
    BY DEF Damages
  <1>7. Shape(InFlight(p)', Want(q))
    <2> DEFINE w == InFlight(p)
               v == InFlight(p)'
               n == Want(q)
    <2>1. Shape(w, n) /\ n \in Nat
      BY <1>2 DEF FlightInv, FlowInv, Placed
    <2>2. ASSUME NEW i \in DOMAIN v
          PROVE  /\ i <= n => /\ v[i].msg = v[1].msg /\ v[i].msg # Unset
                              /\ v[i].left = n - i
                 /\ i > n => v[i] = DataByte(i - n)
      <3>1. /\ i \in 1 .. Len(v) /\ 1 \in 1 .. Len(v) /\ i \in DOMAIN w
            /\ i \in Nat
        BY <1>5
      <3>2. CASE i <= n
        <4>1. w[i].msg = w[1].msg /\ w[i].msg # Unset /\ w[i].left = n - i
          BY <2>1, <3>1, <3>2 DEF Shape
        <4>2. v[i].msg = w[i].msg /\ v[i].left = w[i].left /\ v[1].msg = w[1].msg
          BY <1>6, <3>1
        <4>3. ~(i > n)
          BY <2>1, <3>1, <3>2
        <4> QED BY <4>1, <4>2, <4>3
      <3>3. CASE i > n
        <4>1. w[i] = DataByte(i - n)
          BY <2>1, <3>1, <3>3 DEF Shape
        <4>2. w[i].msg = Unset
          BY <4>1 DEF DataByte
        <4>3. v[i] = w[i]
          BY <1>6, <3>1, <4>2
        <4>4. ~(i <= n)
          BY <2>1, <3>1, <3>3
        <4> QED BY <4>1, <4>3, <4>4
      <3> QED BY <2>1, <3>1, <3>2, <3>3
    <2> QED BY <2>2, Zenon DEF Shape
  <1>8. FlowInv(p)'
    <2>1. InFlight(p)' # <<>> =>
            InFlight(p) # <<>> /\ InFlight(p)'[1].msg = InFlight(p)[1].msg
      <3> SUFFICES ASSUME InFlight(p)' # <<>>
                   PROVE  InFlight(p) # <<>> /\ InFlight(p)'[1].msg = InFlight(p)[1].msg
        OBVIOUS
      <3>1. 1 \in 1 .. Len(InFlight(p)') /\ Len(InFlight(p)) > 0
        BY <1>5
      <3> QED BY <1>5, <1>6, <3>1
    <2> QED BY <1>2, <1>3, <1>4, <1>7, <2>1 DEF FlightInv, FlowInv
  <1>9. TurnInv(p)' /\ TurnInv(q)'
    BY <1>1, <1>2, <1>3, <1>4 DEF FlightInv, TurnInv
  <1>10. LengthInv(p)'
    <2>1. Due(p)' = Due(p)
      BY <1>3, <1>4 DEF Due
    <2>2. /\ step[p] # Failed /\ open[p] => Len(InFlight(p)) = Due(p)
          /\ step[p] # Failed /\ step[q] # Failed => Len(InFlight(p)) <= Due(p)
      BY <1>2 DEF FlightInv, LengthInv
    <2>3. Due(p) \in Int
      <3>1. AboutToSend(p) => Rest(p) \in Int
        BY <1>2, Sizes DEF Placed
      <3> QED BY <1>2, <3>1 DEF Due, Placed
    <2> QED BY <1>3, <1>4, <1>5, <2>1, <2>2, <2>3 DEF LengthInv
  <1>11. LengthInv(q)'
    BY <1>1, <1>2, <1>3, <1>4 DEF FlightInv, LengthInv, Due
  <1>12. FailedInv(p)'
    <2>1. InFlight(p) = <<>> => InFlight(p)' = <<>>
      BY <1>5
    <2> QED BY <1>2, <1>3, <1>4, <1>5, <2>1 DEF FlightInv, FailedInv
  <1>13. FailedInv(q)'
    BY <1>1, <1>2, <1>3, <1>4, <1>5 DEF FlightInv, FailedInv
  <1>14. FlowInv(q)'
    BY <1>1, <1>2, <1>3, <1>4 DEF FlightInv, FlowInv
  <1> QED BY <1>8, <1>9, <1>10, <1>11, <1>12, <1>13, <1>14 DEF FlightInv

----------------------------------------------------------------------------
(* The actions, one by one: buffers, and what they do to the flight.       *)

Buffered(r) == BuffersMatch(r) /\ OutputInv(r)

(* A peer with no part in the step. *)
Untouched(r) ==
    /\ Kept(r) /\ inBuf'[r] = inBuf[r] /\ asked'[r] = asked[r]
    /\ style'[r] = style[r] /\ boxed \subseteq boxed'

(* Buffers that a step leaves alone stay in order.                         *)
LEMMA UntouchedBuffers ==
    ASSUME NEW r \in Peers, Buffered(r), Untouched(r)
    PROVE  Buffered(r)'
  <1>1. BuffersMatch(r)'
    BY DEF Buffered, BuffersMatch, Untouched, Kept, Stands, byteCountNeeded
  <1>2. OutputInv(r)'
    <2>1. Boxes(step[r], outBuf[r][1].msg)' = Boxes(step[r], outBuf[r][1].msg)
      BY DEF Untouched, Kept, Stands, Boxes
    <2> QED BY <2>1 DEF Buffered, OutputInv, Untouched, Kept, Stands
  <1> QED BY <1>1, <1>2 DEF Buffered

(* The flight to a peer with no part in the step. *)
LEMMA SameFlight ==
    ASSUME NEW p \in Peers, wire'[p] = wire[p], step'[Other(p)] = step[Other(p)],
           inBuf'[Other(p)] = inBuf[Other(p)]
    PROVE  InFlight(p)' = InFlight(p)
  BY DEF InFlight

(* What is left to show when each action is known by its effect.           *)
LEMMA Together ==
    ASSUME NEW p \in Peers, TypeInv', Buffered(p)', Buffered(Other(p))',
           FlightInv(p)', FlightInv(Other(p))'
    PROVE  IOInv'
  BY DEF IOInv, Buffered, BuffersMatchStep

(* Nothing moves but bytes within one flight. *)
Still == \A r \in Peers : SamePlace(r) /\ InFlight(r)' = InFlight(r)

(* bytesToRead() moves no byte.                                            *)
LEMMA BytesToReadStep ==
    ASSUME IOInv, NEW p \in Peers, BytesToRead(p)
    PROVE  IOInv' /\ Still
  <1>1. TypeInv'
    BY DEF IOInv, TypeInv, BytesToRead
  <1>2. \A r \in Peers : Kept(r) /\ InFlight(r)' = InFlight(r)
    BY DEF BytesToRead, Kept, Stands, InFlight
  <1>3. Still
    BY <1>2, KeptPlace DEF Still
  <1>4. \A r \in Peers : FlightInv(r)'
    BY <1>3, FlightKept DEF Still, IOInv
  <1>5. \A r \in Peers : Buffered(r)'
    <2> SUFFICES ASSUME NEW r \in Peers PROVE Buffered(r)'
      OBVIOUS
    <2>1. Buffered(r)
      BY DEF IOInv, Buffered, BuffersMatchStep
    <2>2. BuffersMatch(r)'
      BY <2>1 DEF Buffered, BuffersMatch, BytesToRead, byteCountNeeded, IOInv, TypeInv
    <2>3. OutputInv(r)'
      BY <2>1 DEF Buffered, OutputInv, BytesToRead, Boxes, IOInv, TypeInv
    <2> QED BY <2>2, <2>3 DEF Buffered
  <1> QED BY <1>1, <1>3, <1>4, <1>5 DEF IOInv, Buffered, BuffersMatchStep

(* A byte put into the input buffer stays in the flight.                   *)
LEMMA FillStep ==
    ASSUME IOInv, NEW p \in Peers, Fill(p)
    PROVE  IOInv' /\ Still
  <1> DEFINE q == Other(p)
  <1>1. q \in Peers /\ Other(q) = p /\ q # p
    OBVIOUS
  <1>2. /\ Append(inBuf[p], Head(wire[q])) \in Seq(ByteSet) /\ Tail(wire[q]) \in Seq(ByteSet)
        /\ Len(Append(inBuf[p], Head(wire[q]))) = Len(inBuf[p]) + 1
        /\ Append(inBuf[p], Head(wire[q])) \o Tail(wire[q]) = inBuf[p] \o wire[q]
    <2>1. inBuf[p] \in Seq(ByteSet) /\ wire[q] \in Seq(ByteSet) /\ wire[q] # <<>>
      BY <1>1 DEF IOInv, TypeInv, Fill
    <2> HIDE DEF q
    <2> QED BY <2>1, MoveOne, ZenonT(60)
  <1>3. /\ inBuf' = [inBuf EXCEPT ![p] = Append(@, Head(wire[q]))]
        /\ wire' = [wire EXCEPT ![q] = Tail(@)]
        /\ inBuf \in [Peers -> Seq(ByteSet)] /\ wire \in [Peers -> Seq(ByteSet)]
    BY DEF Fill, IOInv, TypeInv
  <1>4. /\ inBuf'[p] = Append(inBuf[p], Head(wire[q])) /\ wire'[q] = Tail(wire[q])
        /\ inBuf'[q] = inBuf[q] /\ wire'[p] = wire[p]
        /\ inBuf' \in [Peers -> Seq(ByteSet)] /\ wire' \in [Peers -> Seq(ByteSet)]
    BY <1>1, <1>2, <1>3
  <1>5. TypeInv'
    BY <1>4 DEF IOInv, TypeInv, Fill
  <1>6. \A r \in Peers : Kept(r)
    BY DEF Fill, Kept, Stands
  <1>7. Buffered(p) /\ Buffered(q) /\ Placed(p) /\ Flown(q)
    BY <1>1, Places, Flights DEF IOInv, Buffered, BuffersMatchStep
  <1>8. step[p] # Failed
    <2>1. byteCountNeeded(p) # 0
      BY <1>1 DEF Fill, IOInv, TypeInv
    <2> QED BY <1>7, <2>1 DEF Placed, Receives
  <1>9. InFlight(p)' = InFlight(p) /\ InFlight(q)' = InFlight(q)
    <2>1. InFlight(p)' = InFlight(p)
      BY <1>4, SameFlight DEF Fill
    <2>2. InFlight(q)' = inBuf'[p] \o wire'[q]
      BY <1>1, <1>5, <1>8, FlightsNext DEF Flown, Fill
    <2>3. InFlight(q) = inBuf[p] \o wire[q]
      BY <1>1, <1>7, <1>8 DEF Flown
    <2> QED BY <1>2, <1>4, <2>1, <2>2, <2>3
  <1>10. Still
    BY <1>6, <1>9, KeptPlace DEF Still
  <1>11. \A r \in Peers : FlightInv(r)'
    BY <1>10, FlightKept DEF Still, IOInv
  <1>12. Buffered(q)'
    <2>1. Untouched(q)
      BY <1>1, <1>4, <1>6 DEF Untouched, Fill
    <2> QED BY <1>1, <1>7, <2>1, UntouchedBuffers
  <1>13. Buffered(p)'
    <2>1. Len(inBuf'[p]) <= byteCountNeeded(p)
      <3>1. Len(inBuf[p]) < byteCountNeeded(p) /\ Len(inBuf[p]) \in Nat /\ byteCountNeeded(p) \in Nat
        BY <1>7, SMTT(60) DEF Fill, IOInv, TypeInv, Placed
      <3> QED BY <1>2, <1>4, <3>1
    <2>2. BuffersMatch(p)'
      BY <1>7, <2>1 DEF Buffered, BuffersMatch, Fill, byteCountNeeded
    <2>3. OutputInv(p)'
      BY <1>7 DEF Buffered, OutputInv, Fill, Boxes
    <2> QED BY <2>2, <2>3 DEF Buffered
  <1> QED BY <1>5, <1>10, <1>11, <1>12, <1>13, Together

(* sendCompleted() reports what was counted when the last byte left.       *)
LEMMA SendCompletedStep ==
    ASSUME IOInv, NEW p \in Peers, SendCompleted(p)
    PROVE  IOInv' /\ Still
  <1> DEFINE q == Other(p)
  <1>1. q \in Peers /\ Other(q) = p /\ q # p
    OBVIOUS
  <1>2. Buffered(p) /\ Buffered(q) /\ Placed(p) /\ Placed(q)
    BY <1>1, Places DEF IOInv, Buffered, BuffersMatchStep
  <1>3. /\ isSent[p] /\ Sends(p, step[p]) /\ step[p] \in 1 .. 4
        /\ Pos(p) = step[p] + 1 /\ ~AboutToSend(p)
    <2>1. isSent[p]
      BY <1>2 DEF SendCompleted, Placed
    <2> QED BY <1>2, <2>1 DEF Placed, Sends, AboutToSend
  <1>4. /\ step'[p] = step[p] + 1 /\ step'[q] = step[q]
        /\ outBuf'[p] = <<>> /\ outBuf'[q] = outBuf[q]
        /\ written'[p] = 0 /\ written'[q] = written[q]
    BY <1>1 DEF SendCompleted, NextStep, IOInv, TypeInv
  <1>5. TypeInv'
    <2>1. step' \in [Peers -> Steps]
      BY <1>3, SMTT(60) DEF SendCompleted, NextStep, IOInv, TypeInv, Steps
    <2> QED BY <2>1 DEF SendCompleted, IOInv, TypeInv
  <1>6. SamePlace(q)
    <2>1. Kept(q)
      BY <1>1, <1>4 DEF Kept, Stands, SendCompleted
    <2> QED BY <1>1, <2>1, KeptPlace
  <1>7. SamePlace(p)
    <2>1. ~isSent'[p]
      BY <1>4 DEF isSent
    <2>2. Pos(p)' = Pos(p)
      BY <1>3, <1>4, <2>1 DEF Pos
    <2>3. ~AboutToSend(p)'
      BY <1>3, <1>4 DEF AboutToSend, Sends
    <2>4. Want(p)' = Want(p)
      BY <2>2 DEF Want
    <2>5. AboutToSend(p)' = AboutToSend(p)
      BY <1>3, <2>3 DEF AboutToSend, Sends
    <2>6. step'[p] # Failed /\ step[p] # Failed /\ open' = open /\ data' = data
      BY <1>3, <1>4 DEF SendCompleted
    <2> QED BY <1>3, <2>2, <2>4, <2>5, <2>6 DEF SamePlace
  <1>8. InFlight(p)' = InFlight(p) /\ InFlight(q)' = InFlight(q)
    <2>1. InFlight(p)' = InFlight(p)
      BY <1>4, SameFlight DEF SendCompleted
    <2>2. step'[p] # Failed /\ step[p] # Failed /\ inBuf' = inBuf /\ wire' = wire
      BY <1>3, <1>4 DEF SendCompleted
    <2> HIDE DEF q
    <2>3. InFlight(q)' = InFlight(q)
      BY <1>1, <2>2 DEF InFlight
    <2> QED BY <2>1, <2>3
  <1>9. Still
    BY <1>6, <1>7, <1>8 DEF Still
  <1>10. \A r \in Peers : FlightInv(r)'
    BY <1>9, FlightKept DEF Still, IOInv
  <1>11. Buffered(q)'
    <2>1. Untouched(q)
      BY <1>1, <1>4 DEF Untouched, Kept, Stands, SendCompleted
    <2> QED BY <1>1, <1>2, <2>1, UntouchedBuffers
  <1>12. Buffered(p)'
    <2>1. inBuf[p] = <<>> /\ ~asked[p]
      <3>1. ~Receives(p, step[p]) /\ step[p] # Failed
        BY <1>3 DEF Sends, Receives
      <3>2. byteCountNeeded(p) = 0
        BY <3>1 DEF byteCountNeeded
      <3>3. ~asked[p]
        BY <1>2, <3>1, <3>2 DEF Buffered, BuffersMatch
      <3> QED BY <1>2, <3>1, <3>3 DEF Placed
    <2>2. byteCountNeeded(p)' \in Nat
      BY <1>3, <1>4, Sizes DEF byteCountNeeded, Receives
    <2>3. BuffersMatch(p)'
      BY <1>4, <2>1, <2>2 DEF BuffersMatch, SendCompleted
    <2>4. OutputInv(p)'
      <3>1. /\ data'[p] = data[p] /\ style'[p] = style[p]
            /\ data[p] \in Nat /\ (data[p] > 0 => step[p] = Finished)
        BY <1>2 DEF Buffered, OutputInv, SendCompleted, IOInv, TypeInv
      <3>2. data[p] = 0
        BY <1>3, <3>1
      <3>3. ~asked'[p]
        BY <2>1 DEF SendCompleted
      <3> QED BY <1>4, <3>1, <3>2, <3>3 DEF OutputInv
    <2> QED BY <2>3, <2>4 DEF Buffered
  <1> QED BY <1>5, <1>9, <1>10, <1>11, <1>12, Together

(* readFailed() gives up what came in of the message.                      *)
LEMMA ReadFailedStep ==
    ASSUME IOInv, NEW p \in Peers, ReadFailed(p)
    PROVE  IOInv' /\ ReadsEnd(p) /\ InFlight(Other(p)) = inBuf[p]
  <1> DEFINE q == Other(p)
  <1>1. q \in Peers /\ Other(q) = p /\ q # p
    OBVIOUS
  <1>2. Buffered(p) /\ Buffered(q) /\ Placed(p) /\ Flown(q)
    BY <1>1, Places, Flights DEF IOInv, Buffered, BuffersMatchStep
  <1>3. Receives(p, step[p]) /\ step[p] # Failed
    <2>1. byteCountNeeded(p) # 0
      BY DEF ReadFailed, IOInv, TypeInv
    <2> QED BY <1>2, <2>1 DEF Placed, Receives
  <1>4. step'[p] = Failed /\ step'[q] = step[q]
    BY <1>1 DEF ReadFailed, Fails, IOInv, TypeInv
  <1>5. TypeInv'
    BY SMTT(60) DEF ReadFailed, Fails, IOInv, TypeInv, Steps
  <1>6. ReadsEnd(p)
    <2>1. InFlight(p)' = InFlight(p)
      BY <1>4, SameFlight DEF ReadFailed
    <2>2. InFlight(q)' = <<>>
      BY <1>1, <1>4, <1>5, FlightsNext DEF Flown, ReadFailed
    <2> QED BY <1>1, <1>3, <1>4, <2>1, <2>2 DEF ReadsEnd, Kept, Stands, ReadFailed
  <1>7. Buffered(q)'
    <2>1. Untouched(q)
      BY <1>1, <1>4 DEF Untouched, Kept, Stands, ReadFailed
    <2> QED BY <1>1, <1>2, <2>1, UntouchedBuffers
  <1>8. Buffered(p)'
    <2>1. outBuf[p] = <<>> /\ data[p] = 0 /\ written[p] = 0
      BY <1>2, <1>3, SMTT(60) DEF Buffered, BuffersMatch, OutputInv, Placed, Receives, IOInv, TypeInv
    <2> QED BY <1>2, <1>4, <2>1 DEF Buffered, BuffersMatch, OutputInv, ReadFailed
  <1>9. Placed(p)'
    BY <1>1, <1>5, <1>7, <1>8, PlacesNext DEF Buffered, BuffersMatchStep
  <1>10. FlightInv(p)' /\ FlightInv(q)'
    BY <1>6, <1>9, ReadsEndFlight
  <1>11. InFlight(q) = inBuf[p]
    BY <1>1, <1>2, <1>3 DEF Flown, ReadFailed, IOInv, TypeInv
  <1> QED BY <1>5, <1>6, <1>7, <1>8, <1>10, <1>11, Together

(* A finished peer sends a byte of session data.                           *)
LEMMA SendDataStep ==
    ASSUME IOInv, NEW p \in Peers, SendData(p)
    PROVE  IOInv' /\ SendsDataByte(p)
  <1> DEFINE q == Other(p)
             x == DataByte(data[p] + 1)
  <1>1. q \in Peers /\ Other(q) = p /\ q # p
    OBVIOUS
  <1>2. /\ Buffered(p) /\ Buffered(q) /\ Flown(p) /\ data[p] \in Nat
    BY <1>1, Flights DEF IOInv, Buffered, BuffersMatchStep, TypeInv
  <1>3. x \in ByteSet
    BY <1>2 DEF DataByte, ByteSet
  <1>4. /\ data'[p] = data[p] + 1 /\ data'[q] = data[q]
        /\ wire'[p] = Append(wire[p], x) /\ wire'[q] = wire[q]
    BY <1>1 DEF SendData, IOInv, TypeInv
  <1>5. TypeInv'
    <2>1. wire' \in [Peers -> Seq(ByteSet)] /\ data' \in [Peers -> Nat]
      BY <1>2, <1>3, SMTT(60) DEF SendData, IOInv, TypeInv
    <2> QED BY <2>1 DEF SendData, IOInv, TypeInv
  <1>6. InFlight(p)' = Append(InFlight(p), x)
    <2> HIDE DEF x
    <2>1. /\ inBuf[q] \in Seq(ByteSet) /\ wire[p] \in Seq(ByteSet)
          /\ step'[q] = step[q] /\ inBuf'[q] = inBuf[q] /\ Flown(p)'
      BY <1>1, <1>2, <1>5, FlightsNext DEF Flown, SendData
    <2>2. CASE step[q] = Failed
      BY <1>2, <1>4, <2>1, <2>2 DEF Flown
    <2>3. CASE step[q] # Failed
      <3>1. InFlight(p)' = inBuf[q] \o Append(wire[p], x)
        BY <1>4, <2>1, <2>3 DEF Flown
      <3>2. InFlight(p) = inBuf[q] \o wire[p]
        BY <1>2, <2>3 DEF Flown
      <3>3. inBuf[q] \o Append(wire[p], x) = Append(inBuf[q] \o wire[p], x)
        <4> DEFINE a == inBuf[q]
                   b == wire[p]
        <4>1. a \in Seq(ByteSet) /\ b \in Seq(ByteSet)
          BY <2>1
        <4> HIDE DEF a, b, q
        <4>2. a \o Append(b, x) = Append(a \o b, x)
          BY <1>3, <4>1, AppendLast
        <4> QED BY <4>2 DEF a, b
      <3> QED BY <3>1, <3>2, <3>3
    <2> QED BY <2>2, <2>3
  <1>7. InFlight(q)' = InFlight(q)
    BY <1>1, <1>4, SameFlight DEF SendData
  <1>8. SendsDataByte(p)
    BY <1>1, <1>4, <1>6, <1>7 DEF SendsDataByte, Kept, Stands, SendData
  <1>9. Buffered(q)'
    <2>1. Untouched(q)
      BY <1>1, <1>4 DEF Untouched, Kept, Stands, SendData
    <2> QED BY <1>1, <1>2, <2>1, UntouchedBuffers
  <1>10. Buffered(p)'
    BY <1>2 DEF Buffered, BuffersMatch, OutputInv, SendData, byteCountNeeded, Boxes
  <1>11. FlightInv(p)' /\ FlightInv(q)'
    BY <1>8, SendsDataFlight
  <1> QED BY <1>5, <1>8, <1>9, <1>10, <1>11, Together

(* Closing a connection moves no byte.                                     *)
LEMMA CloseStep ==
    ASSUME IOInv, NEW p \in Peers, Close(p)
    PROVE  IOInv' /\ \A r \in Peers : InFlight(r)' = InFlight(r)
  <1> DEFINE q == Other(p)
  <1>1. q \in Peers /\ Other(q) = p /\ q # p
    OBVIOUS
  <1>2. TypeInv' /\ open'[q] = open[q] /\ open'[p] = FALSE
    BY <1>1 DEF Close, IOInv, TypeInv
  <1>3. \A r \in Peers : InFlight(r)' = InFlight(r)
    BY DEF Close, InFlight
  <1>4. Buffered(p) /\ Buffered(q) /\ Flown(p) /\ Flown(p)'
    BY <1>1, <1>2, Flights, FlightsNext DEF IOInv, Buffered, BuffersMatchStep
  <1>5. Damages(p)
    BY <1>1, <1>2, <1>3, <1>4 DEF Damages, Kept, Stands, Close, Flown
  <1>6. Buffered(p)' /\ Buffered(q)'
    BY <1>4 DEF Buffered, BuffersMatch, OutputInv, Close, byteCountNeeded, Boxes
  <1>7. FlightInv(p)' /\ FlightInv(q)'
    BY <1>4, <1>5, DamagesFlight
  <1> QED BY <1>2, <1>3, <1>6, <1>7, Together

(* Only the first k elements of b, behind a. *)
LEMMA CutBehind ==
    ASSUME NEW S, NEW a \in Seq(S), NEW b \in Seq(S), NEW k \in 0 .. Len(b)
    PROVE  /\ SubSeq(b, 1, k) \in Seq(S) /\ Len(SubSeq(b, 1, k)) = k
           /\ Len(a \o SubSeq(b, 1, k)) = Len(a) + k
           /\ Len(a \o b) = Len(a) + Len(b)
           /\ \A i \in 1 .. Len(a) + k : (a \o SubSeq(b, 1, k))[i] = (a \o b)[i]
  <1>1. /\ SubSeq(b, 1, k) \in Seq(S) /\ Len(SubSeq(b, 1, k)) = k
        /\ \A i \in 1 .. k : SubSeq(b, 1, k)[i] = b[i]
    OBVIOUS
  <1> DEFINE d == SubSeq(b, 1, k)
  <1> HIDE DEF d
  <1>2. /\ d \in Seq(S) /\ Len(d) = k /\ \A i \in 1 .. k : d[i] = b[i]
    BY <1>1 DEF d
  <1>3. Len(a \o d) = Len(a) + k /\ Len(a \o b) = Len(a) + Len(b)
    BY <1>2, SMTT(60)
  <1>4. Len(a) \in Nat /\ k \in Nat
    OBVIOUS
  <1>5. ASSUME NEW i \in 1 .. Len(a) + k PROVE (a \o d)[i] = (a \o b)[i]
    <2>1. CASE i <= Len(a)
      BY <1>2, <2>1
    <2>2. CASE i > Len(a)
      BY <1>2, <2>2
    <2>3. i <= Len(a) \/ i > Len(a)
      BY <1>4
    <2> QED BY <2>1, <2>2, <2>3, Zenon
  <1> QED BY <1>1, <1>3, <1>5, Zenon DEF d

Spoiled(b, k) == [b EXCEPT ![k].good = FALSE]

(* One byte damaged, behind a. *)
LEMMA SpoilBehind ==
    ASSUME NEW a \in Seq(ByteSet), NEW b \in Seq(ByteSet), NEW k \in 1 .. Len(b)
    PROVE  LET d == Spoiled(b, k)
           IN  /\ d \in Seq(ByteSet) /\ Len(d) = Len(b)
               /\ Len(a \o d) = Len(a \o b) /\ Len(a) + k \in 1 .. Len(a \o b)
               /\ (a \o b)[Len(a) + k] = b[k]
               /\ (a \o d)[Len(a) + k].msg = b[k].msg
               /\ (a \o d)[Len(a) + k].left = b[k].left
               /\ ~(a \o d)[Len(a) + k].good
               /\ \A i \in 1 .. Len(a \o b) :
                     i # Len(a) + k => (a \o d)[i] = (a \o b)[i]
  <1> DEFINE d == Spoiled(b, k)
  <1>1. b[k] \in ByteSet /\ DOMAIN b = 1 .. Len(b) /\ Len(a) \in Nat /\ Len(b) \in Nat
    OBVIOUS
  <1> DEFINE x == [b[k] EXCEPT !.good = FALSE]
  <1>2. x \in ByteSet /\ x.msg = b[k].msg /\ x.left = b[k].left /\ ~x.good
    BY <1>1 DEF ByteSet
  <1>3. d = [b EXCEPT ![k] = x]
    BY DEF Spoiled, d
  <1> HIDE DEF x, d
  <1>4. /\ d \in Seq(ByteSet) /\ Len(d) = Len(b) /\ d[k] = x
        /\ \A i \in 1 .. Len(b) : i # k => d[i] = b[i]
    <2>1. /\ d \in [1 .. Len(b) -> ByteSet] /\ d[k] = x
          /\ \A i \in 1 .. Len(b) : i # k => d[i] = b[i]
      <3>1. b \in [1 .. Len(b) -> ByteSet]
        BY <1>1
      <3> QED BY <1>2, <1>3, <3>1
    <2>2. d \in Seq(ByteSet) /\ Len(d) = Len(b)
      BY <1>1, <2>1
    <2> QED BY <2>1, <2>2
  <1>5. Len(a \o d) = Len(a) + Len(b) /\ Len(a \o b) = Len(a) + Len(b)
    <2>1. d \in Seq(ByteSet) /\ Len(d) = Len(b)
      BY <1>4, Zenon
    <2>2. Len(a \o d) = Len(a) + Len(d) /\ Len(a \o b) = Len(a) + Len(b)
      BY <2>1, Concatenation, ZenonT(60)
    <2> QED BY <2>1, <2>2, Zenon
  <1>6. (a \o d)[Len(a) + k] = x /\ (a \o b)[Len(a) + k] = b[k]
    <2>1. \A i \in 1 .. Len(b) : (a \o b)[Len(a) + i] = b[i]
      BY Concatenation
    <2>2. \A i \in 1 .. Len(d) : (a \o d)[Len(a) + i] = d[i]
      BY <1>4, Concatenation
    <2> QED BY <1>4, <2>1, <2>2
  <1>7. ASSUME NEW i \in 1 .. Len(a) + Len(b), i # Len(a) + k
        PROVE  (a \o d)[i] = (a \o b)[i]
    <2>1. CASE i <= Len(a)
      BY <1>4, <2>1
    <2>2. CASE i > Len(a)
      <3>1. i - Len(a) \in 1 .. Len(b) /\ i - Len(a) # k
        BY <1>1, <1>7, <2>2
      <3>2. (a \o d)[i] = d[i - Len(a)] /\ (a \o b)[i] = b[i - Len(a)]
        BY <1>1, <1>4, <2>2
      <3> QED BY <1>4, <3>1, <3>2
    <2>3. i <= Len(a) \/ i > Len(a)
      BY <1>1
    <2> QED BY <2>1, <2>2, <2>3, Zenon
  <1>8. Len(a) + k \in 1 .. Len(a \o b)
    BY <1>1, <1>5
  <1>9. \A i \in 1 .. Len(a \o b) : i # Len(a) + k => (a \o d)[i] = (a \o b)[i]
    BY <1>5, <1>7
  <1> QED BY <1>2, <1>4, <1>5, <1>6, <1>8, <1>9 DEF d

(* Bytes under way are lost from some point on. *)
Truncates(p) ==
    /\ Len(InFlight(p)') <= Len(InFlight(p))
    /\ \A i \in 1 .. Len(InFlight(p)') : InFlight(p)'[i] = InFlight(p)[i]

(* A crash or timeout keeps the order of what is left. *)
LEMMA DropStep ==
    ASSUME IOInv, NEW p \in Peers, Drop(p)
    PROVE  IOInv' /\ Truncates(p) /\ InFlight(Other(p))' = InFlight(Other(p))
  <1> DEFINE q == Other(p)
  <1>1. q \in Peers /\ Other(q) = p /\ q # p
    OBVIOUS
  <1>2. Buffered(p) /\ Buffered(q) /\ Flown(p)
    BY <1>1, Flights DEF IOInv, Buffered, BuffersMatchStep
  <1>3. PICK n \in 0 .. Len(wire[p]) : wire' = [wire EXCEPT ![p] = SubSeq(@, 1, n)]
    BY DEF Drop
  <1>4. wire \in [Peers -> Seq(ByteSet)] /\ wire[p] \in Seq(ByteSet)
    BY DEF IOInv, TypeInv
  <1>5. /\ SubSeq(wire[p], 1, n) \in Seq(ByteSet) /\ Len(SubSeq(wire[p], 1, n)) = n
        /\ \A i \in 1 .. n : SubSeq(wire[p], 1, n)[i] = wire[p][i]
    BY <1>4, MoveSome
  <1>6. wire'[p] = SubSeq(wire[p], 1, n) /\ wire'[q] = wire[q]
    BY <1>1, <1>3, <1>4
  <1>7. TypeInv'
    <2>1. wire' \in [Peers -> Seq(ByteSet)]
      BY <1>3, <1>4, <1>5
    <2> QED BY <2>1 DEF Drop, IOInv, TypeInv
  <1>8. open'[p] = FALSE /\ open'[q] = open[q]
    BY <1>1 DEF Drop, IOInv, TypeInv
  <1>9. Flown(p)'
    BY <1>7, FlightsNext
  <1>10. Truncates(p)
    <2>1. CASE step[q] = Failed
      <3>1. InFlight(p) = wire[p] /\ InFlight(p)' = SubSeq(wire[p], 1, n)
        BY <1>2, <1>6, <1>9, <2>1 DEF Flown, Drop
      <3> QED BY <1>4, <1>5, <3>1 DEF Truncates
    <2>2. CASE step[q] # Failed
      <3> DEFINE a == inBuf[q]
                 b == wire[p]
                 d == SubSeq(wire[p], 1, n)
      <3>1. InFlight(p) = a \o b /\ InFlight(p)' = a \o d
        BY <1>2, <1>6, <1>9, <2>2 DEF Flown, Drop
      <3>2. a \in Seq(ByteSet) /\ b \in Seq(ByteSet) /\ n \in 0 .. Len(b)
        BY <1>1, <1>4 DEF IOInv, TypeInv
      <3>3. d = SubSeq(b, 1, n)
        OBVIOUS
      <3> HIDE DEF a, b, d, q
      <3>4. /\ Len(a \o d) = Len(a) + n /\ Len(a \o b) = Len(a) + Len(b)
            /\ \A i \in 1 .. Len(a) + n : (a \o d)[i] = (a \o b)[i]
        BY <3>2, <3>3, CutBehind
      <3>5. Len(a) + n <= Len(a) + Len(b)
        BY <3>2
      <3> QED BY <3>1, <3>4, <3>5 DEF Truncates
    <2> QED BY <2>1, <2>2
  <1>11. InFlight(q)' = InFlight(q)
    BY <1>1, <1>6, SameFlight DEF Drop
  <1>12. Damages(p)
    <2>1. Kept(q) /\ Stands(p) /\ data'[p] = data[p]
      BY <1>8 DEF Kept, Stands, Drop
    <2> HIDE DEF q
    <2> QED BY <1>8, <1>10, <1>11, <2>1 DEF Damages, Truncates, q
  <1>13. Buffered(p)' /\ Buffered(q)'
    BY <1>2 DEF Buffered, BuffersMatch, OutputInv, Drop, byteCountNeeded, Boxes
  <1>14. FlightInv(p)' /\ FlightInv(q)'
    BY <1>9, <1>12, DamagesFlight
  <1> QED BY <1>7, <1>10, <1>11, <1>13, <1>14, Together

(* One byte of the message under way is damaged. *)
Spoils(p) ==
    /\ Len(InFlight(p)') = Len(InFlight(p))
    /\ \E k \in 1 .. Len(InFlight(p)) :
          /\ InFlight(p)[k].msg # Unset
          /\ InFlight(p)'[k].msg = InFlight(p)[k].msg
          /\ InFlight(p)'[k].left = InFlight(p)[k].left
          /\ ~InFlight(p)'[k].good
          /\ \A i \in 1 .. Len(InFlight(p)) :
                i # k => InFlight(p)'[i] = InFlight(p)[i]

(* Damage changes no byte's place. *)
LEMMA CorruptStep ==
    ASSUME IOInv, NEW p \in Peers, Corrupt(p)
    PROVE  IOInv' /\ Spoils(p) /\ InFlight(Other(p))' = InFlight(Other(p))
  <1> DEFINE q == Other(p)
  <1>1. q \in Peers /\ Other(q) = p /\ q # p
    OBVIOUS
  <1>2. Buffered(p) /\ Buffered(q) /\ Flown(p)
    BY <1>1, Flights DEF IOInv, Buffered, BuffersMatchStep
  <1>3. PICK k \in DOMAIN wire[p] :
            wire[p][k].msg # Unset /\ wire' = [wire EXCEPT ![p][k].good = FALSE]
    BY DEF Corrupt
  <1>4. wire \in [Peers -> Seq(ByteSet)] /\ wire[p] \in Seq(ByteSet) /\ k \in 1 .. Len(wire[p])
    BY SMTT(60) DEF IOInv, TypeInv
  <1>5. wire'[p] = [wire[p] EXCEPT ![k].good = FALSE] /\ wire'[q] = wire[q]
    BY <1>1, <1>3, <1>4
  <1> DEFINE u == IF step[q] = Failed THEN <<>> ELSE inBuf[q]
             v == wire[p]
             w == Spoiled(v, k)
  <1>6. u \in Seq(ByteSet) /\ v \in Seq(ByteSet) /\ k \in 1 .. Len(v)
    BY <1>1, <1>4 DEF IOInv, TypeInv
  <1>7. InFlight(p) = u \o v /\ InFlight(p)' = u \o w
    BY <1>5 DEF InFlight, Corrupt, Spoiled, v
  <1>8. w = Spoiled(v, k) /\ v[k].msg # Unset
    BY <1>3
  <1> HIDE DEF u, v, w
  <1>9. /\ w \in Seq(ByteSet) /\ Len(w) = Len(v)
        /\ Len(u \o w) = Len(u \o v) /\ Len(u) + k \in 1 .. Len(u \o v)
        /\ (u \o v)[Len(u) + k] = v[k]
        /\ (u \o w)[Len(u) + k].msg = v[k].msg
        /\ (u \o w)[Len(u) + k].left = v[k].left
        /\ ~(u \o w)[Len(u) + k].good
        /\ \A i \in 1 .. Len(u \o v) : i # Len(u) + k => (u \o w)[i] = (u \o v)[i]
    BY <1>6, SpoilBehind DEF w
  <1>10. Spoils(p)
    <2>1. /\ Len(u) + k \in 1 .. Len(InFlight(p))
          /\ InFlight(p)[Len(u) + k].msg # Unset
          /\ InFlight(p)'[Len(u) + k].msg = InFlight(p)[Len(u) + k].msg
          /\ InFlight(p)'[Len(u) + k].left = InFlight(p)[Len(u) + k].left
          /\ ~InFlight(p)'[Len(u) + k].good
          /\ \A i \in 1 .. Len(InFlight(p)) :
                i # Len(u) + k => InFlight(p)'[i] = InFlight(p)[i]
      BY <1>7, <1>8, <1>9, Zenon
    <2>2. Len(InFlight(p)') = Len(InFlight(p))
      BY <1>7, <1>9, Zenon
    <2> QED BY <2>1, <2>2, Zenon DEF Spoils
  <1>11. TypeInv'
    <2>1. wire' \in [Peers -> Seq(ByteSet)]
      <3>1. wire' = [wire EXCEPT ![p] = w]
        BY <1>3, <1>4 DEF w, v, Spoiled
      <3> QED BY <1>4, <1>9, <3>1
    <2> QED BY <2>1 DEF Corrupt, IOInv, TypeInv
  <1>12. InFlight(q)' = InFlight(q)
    BY <1>1, <1>5, SameFlight DEF Corrupt
  <1>13. Damages(p)
    <2>1. Kept(q) /\ Stands(p) /\ data'[p] = data[p] /\ open'[p] = open[p]
      BY DEF Kept, Stands, Corrupt
    <2>2. ASSUME NEW i \in 1 .. Len(u \o w)
          PROVE  /\ (u \o w)[i].msg = (u \o v)[i].msg
                 /\ (u \o w)[i].left = (u \o v)[i].left
                 /\ (u \o v)[i].msg = Unset => (u \o w)[i] = (u \o v)[i]
      BY <1>8, <1>9
    <2>3. Len(u \o w) <= Len(u \o v)
      BY <1>6, <1>9
    <2> HIDE DEF q
    <2> QED BY <1>7, <1>9, <1>12, <2>1, <2>2, <2>3 DEF Damages, q
  <1>14. Buffered(p)' /\ Buffered(q)'
    BY <1>2 DEF Buffered, BuffersMatch, OutputInv, Corrupt, byteCountNeeded, Boxes
  <1>15. FlightInv(p)' /\ FlightInv(q)'
    BY <1>11, <1>13, FlightsNext, DamagesFlight
  <1> QED BY <1>10, <1>11, <1>12, <1>14, <1>15, Together

(* More bytes on the wire. *)
LEMMA WireGrows ==
    ASSUME TypeInv, TypeInv', NEW p \in Peers, NEW v \in Seq(ByteSet),
           wire'[p] = wire[p] \o v, step'[Other(p)] = step[Other(p)],
           inBuf'[Other(p)] = inBuf[Other(p)]
    PROVE  InFlight(p)' = InFlight(p) \o v
  <1> DEFINE a == inBuf[Other(p)]
             b == wire[p]
  <1>1. Flown(p) /\ Flown(p)'
    BY Flights, FlightsNext
  <1>2. a \in Seq(ByteSet) /\ b \in Seq(ByteSet) /\ wire'[p] = b \o v
    BY <1>1 DEF Flown
  <1>3. CASE step[Other(p)] = Failed
    BY <1>1, <1>3 DEF Flown
  <1>4. CASE step[Other(p)] # Failed
    <2>1. InFlight(p)' = a \o (b \o v) /\ InFlight(p) = a \o b
      BY <1>1, <1>4 DEF Flown
    <2> HIDE DEF a, b
    <2>2. a \o (b \o v) = (a \o b) \o v
      BY <1>2, Associative, SMTT(60)
    <2> QED BY <2>1, <2>2
  <1> QED BY <1>3, <1>4

(* What a message is sent from: _fillOutputBuffer() composes one.          *)
Composes(p) == Sends(p, step[p]) => FillOutput(p).msg \in Messages

(* bytesToSend() fills the buffer and sends nothing. *)
LEMMA BytesToSendStep ==
    ASSUME IOInv, NEW p \in Peers, BytesToSend(p), Composes(p)
    PROVE  /\ IOInv' /\ Emits(p, FillOutput(p).msg, <<>>)
           /\ outBuf'[p] # <<>> /\ outBuf'[p][1].msg = FillOutput(p).msg
           /\ ~isSent[p] /\ ~isSent'[p] /\ Kept(Other(p))
  <1> DEFINE q == Other(p)
             m == FillOutput(p).msg
             n == MessageSize(step[p])
             o == Bytes(FillOutput(p).msg, MessageSize(step[p]))
  <1>1. q \in Peers /\ Other(q) = p /\ q # p
    OBVIOUS
  <1>2. /\ Buffered(p) /\ Buffered(q) /\ Placed(p) /\ Flown(p)
        /\ Sends(p, step[p]) /\ outBuf[p] = <<>> /\ open[p] /\ style[p] = "whole"
    BY <1>1, Places, Flights DEF IOInv, Buffered, BuffersMatchStep, BytesToSend
  <1>3. m \in Messages /\ m # Unset
    BY <1>2, TermsAssumption DEF Composes, TermsAssumption
  <1>4. n \in Nat /\ n > 0
    BY <1>2, Sizes DEF Sends
  <1>5. /\ o \in Seq(ByteSet) /\ Len(o) = n /\ o = Bytes(m, n)
        /\ o[1] = [msg |-> m, left |-> n - 1, good |-> TRUE]
    <2> HIDE DEF m, n
    <2>1. /\ Bytes(m, n) \in Seq(ByteSet) /\ Len(Bytes(m, n)) = n
          /\ \A i \in 1 .. n :
                Bytes(m, n)[i] = [msg |-> m, left |-> n - i, good |-> TRUE]
      BY <1>3, <1>4, MessageBytes
    <2>2. o = Bytes(m, n)
      BY DEF m, n
    <2> HIDE DEF o
    <2>3. 1 \in 1 .. n
      BY <1>4
    <2> QED BY <2>1, <2>2, <2>3
  <1>6. /\ outBuf' = [outBuf EXCEPT ![p] = o] /\ outBuf \in [Peers -> Seq(ByteSet)]
        /\ boxed' = boxed \cup Boxes(step[p], m)
        /\ written[p] \in Nat /\ inBuf' = inBuf /\ wire' = wire /\ step' = step
        /\ written' = written /\ data' = data /\ open' = open /\ asked' = asked
        /\ style' = style
    BY DEF BytesToSend, IOInv, TypeInv
  <1>7. written[p] = 0
    BY <1>2, <1>6 DEF Buffered, BuffersMatch
  <1> HIDE DEF m, n, o
  <1>8. outBuf'[p] = o /\ outBuf'[q] = outBuf[q] /\ outBuf' \in [Peers -> Seq(ByteSet)]
    BY <1>1, <1>5, <1>6
  <1>9. TypeInv'
    BY <1>6, <1>8 DEF IOInv, TypeInv
  <1>10. o # <<>> /\ o[1].msg = m
    BY <1>4, <1>5
  <1>11. ~isSent[p] /\ AboutToSend(p) /\ Rest(p) = n
    <2>1. ~isSent[p]
      BY <1>2 DEF isSent
    <2> QED BY <1>2, <2>1 DEF AboutToSend, Rest, n
  <1>12. ~isSent'[p] /\ AboutToSend(p)' /\ Rest(p)' = n
    <2>1. ~isSent'[p]
      <3>1. Len(outBuf'[p]) = n /\ written'[p] = 0
        BY <1>5, <1>6, <1>7, <1>8
      <3>2. isSent'[p] <=> (outBuf'[p] # <<>> /\ written'[p] = Len(outBuf'[p]))
        BY DEF isSent
      <3> QED BY <1>4, <3>1, <3>2
    <2>2. Rest(p)' = n
      BY <1>4, <1>5, <1>6, <1>7, <1>8, <1>10 DEF Rest
    <2> QED BY <1>2, <1>6, <2>1, <2>2 DEF AboutToSend
  <1>13. Pos(p)' = Pos(p)
    BY <1>6, <1>11, <1>12 DEF Pos
  <1>14. Kept(q)
    BY <1>6, <1>8 DEF Kept, Stands
  <1>15. InFlight(q)' = InFlight(q) /\ InFlight(p)' = InFlight(p) \o <<>>
    <2>1. InFlight(q)' = InFlight(q) /\ InFlight(p)' = InFlight(p)
      BY <1>6 DEF InFlight
    <2>2. InFlight(p) \in Seq(ByteSet)
      BY <1>2 DEF Flown
    <2> QED BY <2>1, <2>2
  <1>16. Emits(p, m, <<>>)
    <2>1. step[p] # Failed
      BY <1>2 DEF Sends
    <2>2. Len(<<>>) = 0 /\ n - 0 = n /\ 0 < n
      BY <1>4
    <2> QED BY <1>2, <1>3, <1>4, <1>6, <1>8, <1>10, <1>11, <1>12, <1>13, <1>14,
               <1>15, <2>1, <2>2 DEF Emits, q
  <1>17. FlightInv(p)' /\ FlightInv(q)'
    <2>1. <<>> \in Seq(ByteSet)
      OBVIOUS
    <2> QED BY <1>16, <2>1, EmitsFlight, Zenon DEF q
  <1>18. Buffered(q)'
    <2>1. Untouched(q)
      BY <1>6, <1>14 DEF Untouched
    <2> QED BY <1>1, <1>2, <2>1, UntouchedBuffers
  <1>19. Buffered(p)'
    <2>1. BuffersMatch(p)'
      BY <1>2, <1>4, <1>5, <1>6, <1>7, <1>8 DEF Buffered, BuffersMatch, byteCountNeeded
    <2>2. OutputInv(p)'
      <3>1. Len(outBuf'[p]) <= MessageSize(step'[p])
        BY <1>4, <1>5, <1>6, <1>8 DEF n
      <3>2. outBuf'[p] = Bytes(outBuf'[p][1].msg, Len(outBuf'[p]))
        BY <1>5, <1>8, <1>10
      <3>3. outBuf'[p][1].msg # Unset
        BY <1>3, <1>8, <1>10
      <3>4. (Boxes(step[p], outBuf[p][1].msg) \subseteq boxed)'
        BY <1>6, <1>8, <1>10 DEF Boxes
      <3> QED BY <1>2, <1>6, <3>1, <3>2, <3>3, <3>4 DEF Buffered, OutputInv
    <2> QED BY <2>1, <2>2 DEF Buffered
  <1>20. IOInv'
    BY <1>9, <1>17, <1>18, <1>19, Together, Zenon DEF q
  <1> QED BY <1>8, <1>10, <1>11, <1>12, <1>14, <1>16, <1>20 DEF m, q

(* The application writes the next byte of the buffer. *)
LEMMA WriteStep ==
    ASSUME IOInv, NEW p \in Peers, Write(p)
    PROVE  /\ IOInv'
           /\ Emits(p, outBuf[p][1].msg, <<outBuf[p][written[p] + 1]>>)
           /\ outBuf' = outBuf /\ outBuf[p] # <<>> /\ ~isSent[p]
           /\ isSent'[p] <=> Rest(p) = 1
  <1> DEFINE q == Other(p)
             o == outBuf[p]
             m == outBuf[p][1].msg
             x == outBuf[p][written[p] + 1]
  <1>1. q \in Peers /\ Other(q) = p /\ q # p
    OBVIOUS
  <1>2. /\ Buffered(p) /\ Buffered(q) /\ Placed(p)
        /\ open[p] /\ style[p] = "whole"
    BY <1>1, Places DEF IOInv, Buffered, BuffersMatchStep, Write
  <1>3. /\ o \in Seq(ByteSet) /\ Len(o) \in Nat /\ written[p] \in Nat
        /\ written[p] < Len(o) /\ o # <<>> /\ step[p] \in Steps
    BY SMTT(60) DEF Write, IOInv, TypeInv
  <1>4. Sends(p, step[p]) /\ o = Bytes(m, Len(o)) /\ m # Unset
    BY <1>2, <1>3 DEF Buffered, BuffersMatch, OutputInv
  <1>5. /\ x \in ByteSet /\ x.msg = m /\ x.left = Len(o) - (written[p] + 1)
        /\ x.good
    <2> HIDE DEF m
    <2>1. written[p] + 1 \in 1 .. Len(o)
      BY <1>3
    <2>2. x = [msg |-> m, left |-> Len(o) - (written[p] + 1), good |-> TRUE]
      BY <1>4, <2>1 DEF Bytes
    <2> QED BY <1>3, <2>1, <2>2
  <1>6. /\ wire' = [wire EXCEPT ![p] = Append(@, x)] /\ wire \in [Peers -> Seq(ByteSet)]
        /\ written' = [written EXCEPT ![p] = @ + 1] /\ written \in [Peers -> Nat]
        /\ inBuf' = inBuf /\ step' = step /\ outBuf' = outBuf
        /\ data' = data /\ open' = open /\ asked' = asked
        /\ style' = style /\ boxed' = boxed
    BY DEF Write, IOInv, TypeInv
  <1> HIDE DEF m, x
  <1>7. /\ wire'[p] = Append(wire[p], x) /\ wire'[q] = wire[q]
        /\ written'[p] = written[p] + 1 /\ written'[q] = written[q]
        /\ wire' \in [Peers -> Seq(ByteSet)] /\ written' \in [Peers -> Nat]
    BY <1>1, <1>5, <1>6
  <1>8. TypeInv'
    BY <1>6, <1>7 DEF IOInv, TypeInv
  <1>9. ~isSent[p] /\ AboutToSend(p) /\ Rest(p) = Len(o) - written[p]
    <2>1. ~isSent[p]
      BY <1>2, <1>3 DEF Placed
    <2> QED BY <1>3, <1>4, <2>1 DEF AboutToSend, Rest
  <1>10. isSent'[p] <=> Rest(p) = 1
    <2>1. isSent'[p] <=> (outBuf'[p] # <<>> /\ written'[p] = Len(outBuf'[p]))
      BY DEF isSent
    <2> QED BY <1>3, <1>6, <1>7, <1>9, <2>1, SMTT(60)
  <1>11. Kept(q)
    BY <1>6, <1>7 DEF Kept, Stands
  <1>12. InFlight(q)' = InFlight(q) /\ InFlight(p)' = InFlight(p) \o <<x>>
    <2>1. InFlight(q)' = InFlight(q)
      BY <1>1, <1>6, <1>7, SameFlight
    <2>2. wire'[p] = wire[p] \o <<x>> /\ <<x>> \in Seq(ByteSet)
      <3>1. wire[p] \in Seq(ByteSet) /\ x \in ByteSet
        BY <1>5, <1>6
      <3> QED BY <1>7, <3>1, AppendLast, SMTT(60)
    <2>3. InFlight(p)' = InFlight(p) \o <<x>>
      BY <1>6, <1>8, <2>2, WireGrows DEF IOInv
    <2> QED BY <2>1, <2>3
  <1>13. Emits(p, m, <<x>>)
    <2>1. Len(<<x>>) = 1 /\ <<x>>[1] = x /\ Rest(p) \in Nat /\ Rest(p) >= 1
      BY <1>3, <1>9
    <2>2. step'[p] # Failed /\ outBuf[p][1].msg = m /\ x.left = Rest(p) - 1
      <3>1. step'[p] # Failed
        <4>1. Sends(p, step[p]) /\ step' = step
          BY <1>4, <1>6
        <4> QED BY <4>1 DEF Sends
      <3>2. x.left = Rest(p) - 1
        BY <1>3, <1>5, <1>9
      <3> QED BY <3>1, <3>2 DEF m
    <2>3. /\ \A i \in 1 .. Len(<<x>>) : <<x>>[i].msg = m /\ <<x>>[i].left = Rest(p) - i
          /\ \A i \in 1 .. Len(<<x>>) : <<x>>[i].good
      BY <1>5, <2>1, <2>2
    <2>4. Rest(p) = 1 => Pos(p)' = Pos(p) + 1 /\ ~AboutToSend(p)'
      BY <1>6, <1>9, <1>10 DEF Pos, AboutToSend
    <2>5. Rest(p) > 1 => /\ Pos(p)' = Pos(p) /\ AboutToSend(p)'
                         /\ Rest(p)' = Rest(p) - 1
                         /\ outBuf'[p] # <<>> /\ outBuf'[p][1].msg = m
      <3> SUFFICES ASSUME Rest(p) > 1
                   PROVE  /\ Pos(p)' = Pos(p) /\ AboutToSend(p)'
                          /\ Rest(p)' = Rest(p) - 1
                          /\ outBuf'[p] # <<>> /\ outBuf'[p][1].msg = m
        OBVIOUS
      <3>1. ~isSent'[p]
        BY <1>10, <2>1
      <3>2. Rest(p)' = Rest(p) - 1
        BY <1>3, <1>6, <1>7, <1>9, SMTT(60) DEF Rest
      <3> QED BY <1>3, <1>4, <1>6, <1>9, <2>2, <3>1, <3>2 DEF Pos, AboutToSend
    <2> QED BY <1>2, <1>4, <1>6, <1>9, <1>11, <1>12, <2>1, <2>2, <2>3, <2>4, <2>5
            DEF Emits
  <1>14. FlightInv(p)' /\ FlightInv(q)'
    <2>1. <<x>> \in Seq(ByteSet)
      BY <1>5
    <2> QED BY <1>13, <2>1, EmitsFlight, Zenon DEF q
  <1>15. Buffered(q)'
    <2>1. Untouched(q)
      BY <1>6, <1>11 DEF Untouched
    <2> QED BY <1>1, <1>2, <2>1, UntouchedBuffers
  <1>16. Buffered(p)'
    <2>1. BuffersMatch(p)'
      BY <1>2, <1>3, <1>6, <1>7 DEF Buffered, BuffersMatch, byteCountNeeded
    <2>2. OutputInv(p)'
      BY <1>2, <1>6 DEF Buffered, OutputInv, Boxes
    <2> QED BY <2>1, <2>2 DEF Buffered
  <1>17. IOInv'
    BY <1>8, <1>14, <1>15, <1>16, Together, Zenon DEF q
  <1> QED BY <1>3, <1>6, <1>9, <1>10, <1>13, <1>17 DEF m, x

(* v and w are the first k bytes of the last n of message m, and the rest. *)
Parts(m, n, k, v, w) ==
    /\ v \in Seq(ByteSet) /\ Len(v) = k
    /\ \A i \in 1 .. k : v[i].msg = m /\ v[i].left = n - i
    /\ \A i \in 1 .. k : v[i].good
    /\ w = Bytes(m, n - k) /\ w \in Seq(ByteSet) /\ Len(w) = n - k
    /\ k < n => w[1].msg = m
    /\ n > 0 => Bytes(m, n)[1].msg = m

(* The rest of a message is again the end of it. *)
LEMMA BytesCut ==
    ASSUME NEW m \in Messages, NEW n \in Nat, NEW k \in 0 .. n
    PROVE  Parts(m, n, k, SubSeq(Bytes(m, n), 1, k), SubSeq(Bytes(m, n), k + 1, n))
  <1> DEFINE b == Bytes(m, n)
             v == SubSeq(b, 1, k)
             w == SubSeq(b, k + 1, n)
             d == Bytes(m, n - k)
  <1>1. /\ b \in Seq(ByteSet) /\ Len(b) = n
        /\ \A i \in 1 .. n : b[i] = [msg |-> m, left |-> n - i, good |-> TRUE]
    BY MessageBytes
  <1>2. n - k \in Nat
    OBVIOUS
  <1>3. /\ d \in Seq(ByteSet) /\ Len(d) = n - k
        /\ \A i \in 1 .. n - k : d[i] = [msg |-> m, left |-> (n - k) - i, good |-> TRUE]
    BY <1>2, MessageBytes
  <1> HIDE DEF b, d
  <1>4. /\ v \in Seq(ByteSet) /\ Len(v) = k /\ w \in Seq(ByteSet) /\ Len(w) = n - k
        /\ \A i \in 1 .. k : v[i] = b[i]
        /\ \A i \in 1 .. n - k : w[i] = b[i + k]
    BY <1>1, MoveSome
  <1> HIDE DEF v, w
  <1>5. ASSUME NEW i \in 1 .. k PROVE v[i].msg = m /\ v[i].left = n - i /\ v[i].good
    <2>1. i \in 1 .. n
      OBVIOUS
    <2> QED BY <1>1, <1>4, <2>1
  <1>6. ASSUME NEW i \in 1 .. n - k PROVE w[i] = d[i]
    <2>1. i + k \in 1 .. n /\ n - (i + k) = (n - k) - i
      OBVIOUS
    <2>2. w[i] = b[i + k]
      BY <1>4, Zenon
    <2>3. b[i + k] = [msg |-> m, left |-> n - (i + k), good |-> TRUE]
      BY <1>1, <2>1, Zenon
    <2>4. d[i] = [msg |-> m, left |-> (n - k) - i, good |-> TRUE]
      BY <1>3, Zenon
    <2> QED BY <2>1, <2>2, <2>3, <2>4
  <1>7. w = d
    BY <1>3, <1>4, <1>6, SameSeq
  <1>8. k < n => w[1].msg = m
    <2> SUFFICES ASSUME k < n PROVE w[1].msg = m
      OBVIOUS
    <2>1. 1 \in 1 .. n - k
      OBVIOUS
    <2>2. d[1] = [msg |-> m, left |-> (n - k) - 1, good |-> TRUE]
      BY <1>3, <2>1, Zenon
    <2> QED BY <1>7, <2>2
  <1>9. n > 0 => b[1].msg = m
    <2> SUFFICES ASSUME n > 0 PROVE b[1].msg = m
      OBVIOUS
    <2>1. 1 \in 1 .. n
      OBVIOUS
    <2> QED BY <1>1, <2>1
  <1>10. Parts(m, n, k, v, w)
    BY <1>4, <1>5, <1>7, <1>8, <1>9, Zenon DEF Parts, b, d
  <1> QED BY <1>10 DEF b, v, w

(* What copyBytesToSend() copies from. *)
LEMMA Pending ==
    ASSUME IOInv, NEW p \in Peers, Sends(p, step[p]), style[p] = "chunked",
           Composes(p)
    PROVE  \E m \in Messages :
             /\ PendingOutput(p) = Bytes(m, Rest(p)) /\ m # Unset
             /\ PendingOutput(p)[1].msg = m
             /\ outBuf[p] # <<>> => outBuf[p][1].msg = m
             /\ outBuf[p] = <<>> => m = FillOutput(p).msg
             /\ Rest(p) \in 1 .. MessageSize(step[p]) /\ AboutToSend(p)
             /\ written[p] = 0
  <1>1. Buffered(p) /\ Placed(p) /\ outBuf[p] \in Seq(ByteSet)
    BY Places DEF IOInv, Buffered, BuffersMatchStep, TypeInv
  <1>2. written[p] = 0 /\ ~isSent[p] /\ AboutToSend(p)
    <2>1. written[p] = 0
      BY <1>1 DEF Buffered, OutputInv
    <2>2. ~isSent[p]
      BY <1>1, <2>1 DEF Placed
    <2> QED BY <2>1, <2>2 DEF AboutToSend
  <1>3. Rest(p) \in 1 .. MessageSize(step[p])
    BY <1>1, <1>2 DEF Placed
  <1>4. Rest(p) \in Nat /\ Rest(p) > 0
    <2>1. MessageSize(step[p]) \in Nat
      BY Sizes DEF Sends
    <2> QED BY <1>3, <2>1
  <1>5. ASSUME NEW m \in Messages
        PROVE  Bytes(m, Rest(p))[1].msg = m /\ m # Unset
    <2>1. 0 \in 0 .. Rest(p)
      BY <1>4
    <2> DEFINE n == Rest(p)
    <2>2. n \in Nat /\ n > 0 /\ 0 \in 0 .. n
      BY <1>4
    <2> HIDE DEF n
    <2>3. Bytes(m, n)[1].msg = m
      BY <2>2, BytesCut DEF Parts
    <2> QED BY <2>3, TermsAssumption DEF TermsAssumption, n
  <1>6. CASE outBuf[p] = <<>>
    <2> DEFINE m == FillOutput(p).msg
    <2>1. m \in Messages
      BY DEF Composes
    <2>2. PendingOutput(p) = Bytes(m, Rest(p))
      BY <1>6 DEF PendingOutput, Rest
    <2> HIDE DEF m
    <2> QED BY <1>2, <1>3, <1>5, <1>6, <2>1, <2>2, Zenon DEF m
  <1>7. CASE outBuf[p] # <<>>
    <2> DEFINE m == outBuf[p][1].msg
    <2>1. /\ Rest(p) = Len(outBuf[p]) /\ outBuf[p] = Bytes(m, Len(outBuf[p]))
          /\ m # Unset
      <3>1. Len(outBuf[p]) - 0 = Len(outBuf[p])
        BY <1>1
      <3> QED BY <1>1, <1>2, <1>7, <3>1 DEF Rest, Buffered, OutputInv
    <2>2. outBuf[p][1] \in ByteSet
      BY <1>1, <1>7
    <2>3. m \in Messages
      BY <2>1, <2>2 DEF ByteSet
    <2>4. PendingOutput(p) = Bytes(m, Rest(p))
      BY <1>7, <2>1 DEF PendingOutput
    <2> HIDE DEF m
    <2> QED BY <1>2, <1>3, <1>5, <1>7, <2>3, <2>4, ZenonT(60) DEF m
  <1> QED BY <1>6, <1>7

(* copyBytesToSend(dst, n): some bytes of the message leave, or all that   *)
(* are left and the step is done.                                          *)
LEMMA CopyBytesToSendStep ==
    ASSUME IOInv, NEW p \in Peers, NEW k \in Nat, CopyBytesToSend(p, k), Composes(p)
    PROVE  /\ IOInv' /\ ~isSent[p] /\ ~isSent'[p]
           /\ outBuf[p] = <<>> => PendingOutput(p)[1].msg = FillOutput(p).msg
           /\ \E v \in Seq(ByteSet) :
                /\ Emits(p, PendingOutput(p)[1].msg, v)
                /\ Len(v) = Rest(p) => NextStep(p) /\ outBuf'[p] = <<>>
                /\ Len(v) # Rest(p) => /\ UNCHANGED <<step, error>>
                                       /\ outBuf'[p] # <<>>
  <1> DEFINE q == Other(p)
             buf == PendingOutput(p)
             n == Rest(p)
             count == IF k < Len(PendingOutput(p)) THEN k ELSE Len(PendingOutput(p))
             v == SubSeq(buf, 1, count)
             w == SubSeq(buf, count + 1, n)
  <1>1. q \in Peers /\ Other(q) = p /\ q # p
    OBVIOUS
  <1>2. /\ Buffered(p) /\ Buffered(q) /\ Placed(p)
        /\ open[p] /\ style[p] = "chunked" /\ Sends(p, step[p])
    BY <1>1, Places DEF IOInv, Buffered, BuffersMatchStep, CopyBytesToSend
  <1>3. PICK m \in Messages :
             /\ buf = Bytes(m, n) /\ m # Unset /\ buf[1].msg = m
             /\ outBuf[p] # <<>> => outBuf[p][1].msg = m
             /\ outBuf[p] = <<>> => m = FillOutput(p).msg
             /\ n \in 1 .. MessageSize(step[p]) /\ AboutToSend(p)
             /\ written[p] = 0
    BY <1>2, Pending, Zenon
  <1>4. MessageSize(step[p]) \in Nat /\ step[p] \in 1 .. 4
    BY <1>2, Sizes DEF Sends
  <1>5. n \in Nat /\ n > 0 /\ n <= MessageSize(step[p])
    BY <1>3, <1>4
  <1>6. Len(buf) = n
    BY <1>3, <1>5, MessageBytes
  <1>7. count \in 0 .. n
    BY <1>5, <1>6
  <1>8. /\ boxed' = boxed \cup Boxes(step[p], m)
        /\ wire' = [wire EXCEPT ![p] = @ \o v] /\ wire \in [Peers -> Seq(ByteSet)]
        /\ outBuf' = [outBuf EXCEPT ![p] = w] /\ outBuf \in [Peers -> Seq(ByteSet)]
        /\ inBuf' = inBuf /\ data' = data /\ open' = open /\ asked' = asked
        /\ style' = style /\ written' = written
        /\ count = n => NextStep(p)
        /\ count # n => UNCHANGED <<step, error>>
    <2>1. buf[1].msg = m
      BY <1>3
    <2> QED BY <1>6, <2>1 DEF CopyBytesToSend, IOInv, TypeInv
  <1> HIDE DEF buf, n, count, v, w
  <1>9. /\ v \in Seq(ByteSet) /\ Len(v) = count
        /\ \A i \in 1 .. count : v[i].msg = m /\ v[i].left = n - i
        /\ \A i \in 1 .. count : v[i].good
        /\ w = Bytes(m, n - count) /\ w \in Seq(ByteSet) /\ Len(w) = n - count
        /\ count < n => w[1].msg = m
    <2>1. v = SubSeq(Bytes(m, n), 1, count) /\ w = SubSeq(Bytes(m, n), count + 1, n)
      BY <1>3, Zenon DEF v, w
    <2>2. Parts(m, n, count, v, w)
      BY <1>5, <1>7, <2>1, BytesCut, Zenon
    <2> QED BY <2>2, Zenon DEF Parts
  <1>10. /\ wire'[p] = wire[p] \o v /\ wire'[q] = wire[q]
         /\ outBuf'[p] = w /\ outBuf'[q] = outBuf[q]
         /\ wire' \in [Peers -> Seq(ByteSet)] /\ outBuf' \in [Peers -> Seq(ByteSet)]
    <2>1. wire[p] \o v \in Seq(ByteSet)
      BY <1>8, <1>9
    <2>2. wire'[p] = wire[p] \o v /\ wire'[q] = wire[q] /\ wire' \in [Peers -> Seq(ByteSet)]
      BY <1>1, <1>8, <2>1
    <2>3. w \in Seq(ByteSet)
      BY <1>9, Zenon
    <2>4. outBuf'[p] = w /\ outBuf'[q] = outBuf[q] /\ outBuf' \in [Peers -> Seq(ByteSet)]
      BY <1>1, <1>8, <2>3
    <2> QED BY <2>2, <2>4
  <1>11. /\ step'[q] = step[q] /\ step' \in [Peers -> Steps]
         /\ count = n => step'[p] = step[p] + 1
         /\ count # n => step'[p] = step[p]
    <2>1. step \in [Peers -> Steps]
      BY DEF IOInv, TypeInv
    <2>2. CASE count = n
      <3>1. step' = [step EXCEPT ![p] = @ + 1]
        BY <1>8, <2>2 DEF NextStep
      <3> QED BY <1>1, <1>4, <2>1, <2>2, <3>1 DEF Steps
    <2>3. CASE count # n
      BY <1>8, <2>1, <2>3
    <2> QED BY <2>2, <2>3
  <1>12. TypeInv'
    BY <1>8, <1>10, <1>11 DEF IOInv, TypeInv
  <1>13. /\ count = n => w = <<>>
         /\ count # n => w # <<>> /\ n - count > 0
    BY <1>5, <1>7, <1>9
  <1>14. Kept(q)
    BY <1>8, <1>10, <1>11 DEF Kept, Stands
  <1>15. InFlight(q)' = InFlight(q) /\ InFlight(p)' = InFlight(p) \o v
    <2>1. InFlight(p)' = InFlight(p) \o v
      BY <1>8, <1>9, <1>10, <1>11, <1>12, WireGrows DEF IOInv, q
    <2>2. step[p] # Failed /\ step'[p] # Failed
      BY <1>4, <1>11
    <2>3. InFlight(q)' = InFlight(q)
      BY <1>1, <1>8, <1>10, <2>2 DEF InFlight
    <2> QED BY <2>1, <2>3
  <1>16. ~isSent[p] /\ ~isSent'[p] /\ Pos(p) = step[p] /\ Pos(p)' = step'[p]
    <2>1. ~isSent[p]
      BY <1>3 DEF AboutToSend
    <2>2. isSent'[p] <=> (outBuf'[p] # <<>> /\ written'[p] = Len(outBuf'[p]))
      BY DEF isSent
    <2>3. ~isSent'[p]
      <3>1. w # <<>> => Len(w) # 0
        BY <1>9
      <3>2. written'[p] = 0
        BY <1>3, <1>8
      <3> QED BY <1>10, <2>2, <3>1, <3>2
    <2> QED BY <2>1, <2>3 DEF Pos
  <1>17. ASSUME count = n PROVE Emits(p, m, v) /\ Buffered(p)'
    <2>1. ~AboutToSend(p)' /\ Pos(p)' = Pos(p) + 1
      BY <1>2, <1>11, <1>16, <1>17 DEF AboutToSend, Sends
    <2>2. step'[p] # Failed
      BY <1>4, <1>11, <1>17
    <2>3. Len(v) = n /\ n <= n /\ ~(n < n)
      BY <1>5, <1>9, <1>17
    <2>4. /\ \A i \in 1 .. Len(v) : v[i].msg = m /\ v[i].left = Rest(p) - i
          /\ \A i \in 1 .. Len(v) : v[i].good
      BY <1>9, Zenon DEF n
    <2>5. Emits(p, m, v)
      BY <1>2, <1>3, <1>8, <1>14, <1>15, <2>1, <2>2, <2>3, <2>4, Zenon DEF Emits, n, q
    <2>6. OutputInv(p)'
      <3>1. data[p] = 0
        BY <1>2, <1>4, SMTT(60) DEF Buffered, OutputInv, IOInv, TypeInv
      <3>2. outBuf'[p] = <<>> /\ written'[p] = 0 /\ ~asked'[p] /\ data'[p] = 0
        BY <1>2, <1>3, <1>8, <1>10, <1>13, <1>17, <3>1 DEF Buffered, OutputInv
      <3> QED BY <3>2 DEF OutputInv
    <2>7. BuffersMatch(p)'
      <3>1. outBuf'[p] = <<>> /\ written'[p] = 0 /\ ~asked'[p] /\ Len(<<>>) = 0
        BY <1>2, <1>3, <1>8, <1>10, <1>13, <1>17 DEF Buffered, OutputInv
      <3>2. inBuf'[p] = <<>>
        <4>1. ~Receives(p, step[p]) /\ step[p] # Failed
          BY <1>2 DEF Sends, Receives
        <4> QED BY <1>2, <1>8, <4>1 DEF Placed
      <3>3. byteCountNeeded(p)' \in Nat
        <4>1. step'[p] \in 0 .. 5
          BY <1>11 DEF Steps
        <4> QED BY <4>1, Sizes DEF byteCountNeeded, Receives
      <3> QED BY <3>1, <3>2, <3>3 DEF BuffersMatch
    <2> QED BY <2>5, <2>6, <2>7 DEF Buffered
  <1>18. ASSUME count # n PROVE Emits(p, m, v) /\ Buffered(p)'
    <2>1. AboutToSend(p)' /\ Pos(p)' = Pos(p) /\ step'[p] # Failed
      BY <1>2, <1>4, <1>11, <1>16, <1>18 DEF AboutToSend
    <2>2. outBuf'[p] # <<>> /\ outBuf'[p][1].msg = m /\ Len(outBuf'[p]) = n - count
      <3>1. count < n
        BY <1>5, <1>7, <1>18
      <3> QED BY <1>9, <1>10, <1>13, <1>18, <3>1
    <2>3. Rest(p)' = n - count
      <3>1. Rest(p)' = Len(outBuf'[p]) - 0
        BY <1>3, <1>8, <2>2 DEF Rest
      <3> QED BY <1>5, <1>7, <2>2, <3>1
    <2>4. Len(v) = count /\ count <= n /\ count < n
      BY <1>5, <1>7, <1>9, <1>18
    <2>5. /\ \A i \in 1 .. Len(v) : v[i].msg = m /\ v[i].left = Rest(p) - i
          /\ \A i \in 1 .. Len(v) : v[i].good
      BY <1>9, Zenon DEF n
    <2>6. Emits(p, m, v)
      BY <1>2, <1>3, <1>8, <1>14, <1>15, <1>18, <2>1, <2>2, <2>3, <2>4, <2>5, Zenon
         DEF Emits, n, q
    <2>7. BuffersMatch(p)'
      <3>1. written'[p] = 0 /\ step'[p] = step[p] /\ 0 <= n - count
        BY <1>3, <1>5, <1>7, <1>8, <1>11, <1>18
      <3>2. byteCountNeeded(p)' = byteCountNeeded(p)
        BY <3>1 DEF byteCountNeeded
      <3> QED BY <1>2, <1>8, <2>2, <3>1, <3>2 DEF Buffered, BuffersMatch
    <2>8. OutputInv(p)'
      <3>1. step'[p] = step[p]
        BY <1>11, <1>18
      <3>2. Len(outBuf'[p]) <= MessageSize(step'[p])
        BY <1>4, <1>5, <1>7, <2>2, <3>1
      <3>3. outBuf'[p] = Bytes(outBuf'[p][1].msg, Len(outBuf'[p]))
        BY <1>9, <1>10, <2>2
      <3>4. (Boxes(step[p], outBuf[p][1].msg) \subseteq boxed)'
        BY <1>8, <2>2, <3>1 DEF Boxes
      <3> QED BY <1>2, <1>3, <1>8, <2>2, <3>1, <3>2, <3>3, <3>4 DEF Buffered, OutputInv
    <2> QED BY <2>6, <2>7, <2>8 DEF Buffered
  <1>19. Emits(p, m, v) /\ Buffered(p)'
    BY <1>17, <1>18
  <1>20. FlightInv(p)' /\ FlightInv(q)'
    BY <1>9, <1>19, EmitsFlight, Zenon DEF q
  <1>21. Buffered(q)'
    <2>1. Untouched(q)
      BY <1>8, <1>14 DEF Untouched
    <2> QED BY <1>1, <1>2, <2>1, UntouchedBuffers
  <1>22. IOInv'
    BY <1>12, <1>19, <1>20, <1>21, Together, Zenon DEF q
  <1>23. /\ Len(v) = Rest(p) => NextStep(p) /\ outBuf'[p] = <<>>
         /\ Len(v) # Rest(p) => UNCHANGED <<step, error>> /\ outBuf'[p] # <<>>
    BY <1>8, <1>9, <1>10, <1>13 DEF n
  <1>24. PendingOutput(p)[1].msg = m /\ (outBuf[p] = <<>> => m = FillOutput(p).msg)
    BY <1>3 DEF buf
  <1> QED BY <1>9, <1>16, <1>19, <1>22, <1>23, <1>24, Zenon

(* A message taken off a flight. *)
LEMMA TakeOff ==
    ASSUME NEW a \in Seq(ByteSet), NEW b \in Seq(ByteSet)
    PROVE  /\ a \o b \in Seq(ByteSet) /\ Len(a \o b) >= Len(a)
           /\ Len(b) = Len(a \o b) - Len(a)
           /\ \A i \in 1 .. Len(b) : b[i] = (a \o b)[Len(a) + i]
  <1>1. /\ a \o b \in Seq(ByteSet) /\ Len(a \o b) = Len(a) + Len(b)
        /\ \A i \in 1 .. Len(b) : (a \o b)[Len(a) + i] = b[i]
    BY Concatenation
  <1>2. Len(a) \in Nat /\ Len(b) \in Nat
    OBVIOUS
  <1> QED BY <1>1, <1>2

(* The verdict on a full buffer. *)
LEMMA Consumed ==
    ASSUME IOInv, NEW p \in Peers, NEW buf \in Seq(ByteSet),
           Receives(p, step[p]), open[p], Len(buf) = Want(p), Consume(p, buf),
           buf \o wire'[Other(p)] = inBuf[p] \o wire[Other(p)],
           wire' \in [Peers -> Seq(ByteSet)], wire'[p] = wire[p],
           asked' \in [Peers -> BOOLEAN], asked'[Other(p)] = asked[Other(p)],
           ~asked'[p], UNCHANGED <<open, boxed, style, outBuf, written, data>>
    PROVE  /\ IOInv' /\ Reads(p)
           /\ InFlight(Other(p)) = buf \o wire'[Other(p)]
           /\ InFlight(Other(p))' = wire'[Other(p)]
  <1> DEFINE q == Other(p)
             ok == ReceivedBytes(p, step[p], impl[p], clientAuth, Message(buf)).ok
  <1>1. q \in Peers /\ Other(q) = p /\ q # p
    OBVIOUS
  <1>2. /\ Buffered(p) /\ Buffered(q) /\ Placed(p) /\ Flown(p) /\ Flown(q)
        /\ step \in [Peers -> Steps] /\ inBuf \in [Peers -> Seq(ByteSet)]
    BY <1>1, Places, Flights DEF IOInv, Buffered, BuffersMatchStep, TypeInv
  <1>3. step[p] \in 1 .. 4 /\ outBuf[p] = <<>> /\ ~AboutToSend(p)
    BY <1>2 DEF Placed
  <1>4. /\ IF ok THEN NextStep(p) ELSE Fails(p)
        /\ inBuf' = [inBuf EXCEPT ![p] = IF ok THEN <<>> ELSE buf]
    BY DEF Consume
  <1> HIDE DEF ok
  <1>5. /\ step'[q] = step[q] /\ step' \in [Peers -> Steps]
        /\ inBuf'[q] = inBuf[q] /\ inBuf' \in [Peers -> Seq(ByteSet)]
        /\ \/ step'[p] = step[p] + 1 /\ inBuf'[p] = <<>>
           \/ step'[p] = Failed /\ inBuf'[p] = buf
    <2>1. CASE ok
      <3>1. step' = [step EXCEPT ![p] = @ + 1] /\ inBuf' = [inBuf EXCEPT ![p] = <<>>]
        BY <1>4, <2>1 DEF NextStep
      <3> QED BY <1>1, <1>2, <1>3, <3>1 DEF Steps
    <2>2. CASE ~ok
      <3>1. step' = [step EXCEPT ![p] = Failed] /\ inBuf' = [inBuf EXCEPT ![p] = buf]
        BY <1>4, <2>2 DEF Fails
      <3> QED BY <1>1, <1>2, <1>3, <3>1 DEF Steps
    <2> QED BY <2>1, <2>2
  <1>6. TypeInv'
    BY <1>5 DEF IOInv, TypeInv
  <1>7. Flown(p)' /\ Flown(q)'
    BY <1>1, <1>6, FlightsNext
  <1> DEFINE w == wire'[q]
  <1>8. w \in Seq(ByteSet) /\ buf \o w = inBuf[p] \o wire[q]
    BY <1>1
  <1>9. InFlight(q) = buf \o w
    <2>1. step[p] # Failed
      BY <1>3
    <2> QED BY <1>1, <1>2, <1>8, <2>1 DEF Flown
  <1>10. InFlight(q)' = w
    <2>1. CASE step'[p] = Failed
      BY <1>1, <1>7, <2>1 DEF Flown
    <2>2. CASE step'[p] # Failed
      <3>1. inBuf'[p] = <<>>
        BY <1>5, <2>2
      <3>2. InFlight(q)' = <<>> \o w
        BY <1>1, <1>7, <2>2, <3>1 DEF Flown
      <3> QED BY <1>8, <3>2
    <2> QED BY <2>1, <2>2
  <1>11. InFlight(p)' = InFlight(p)
    BY <1>5, SameFlight
  <1>12. Reads(p)
    <2> HIDE DEF w
    <2>1. /\ Len(buf \o w) >= Len(buf) /\ Len(w) = Len(buf \o w) - Len(buf)
          /\ \A i \in 1 .. Len(w) : w[i] = (buf \o w)[Len(buf) + i]
      BY <1>8, TakeOff
    <2>2. Kept(q)
      BY <1>5 DEF Kept, Stands
    <2> HIDE DEF q
    <2>3. /\ Len(InFlight(q)) >= Want(p)
          /\ Len(InFlight(q)') = Len(InFlight(q)) - Want(p)
          /\ \A i \in 1 .. Len(InFlight(q)') : InFlight(q)'[i] = InFlight(q)[Want(p) + i]
      BY <1>9, <1>10, <2>1, Zenon
    <2>4. step'[p] \in {step[p] + 1, Failed}
      BY <1>5
    <2> QED BY <1>11, <2>2, <2>3, <2>4, Zenon DEF Reads, q
  <1>13. Buffered(q)'
    <2>1. Untouched(q)
      BY <1>1, <1>5 DEF Untouched, Kept, Stands
    <2> QED BY <1>1, <1>2, <2>1, UntouchedBuffers
  <1>14. Buffered(p)'
    <2>1. outBuf'[p] = <<>> /\ written'[p] = 0 /\ data'[p] = 0 /\ style'[p] = style[p]
      <3>1. written[p] \in Nat /\ Len(outBuf[p]) = 0 /\ data[p] \in Nat
        BY <1>3 DEF IOInv, TypeInv
      <3> QED BY <1>2, <1>3, <3>1, SMTT(60) DEF Buffered, BuffersMatch, OutputInv
    <2>2. step'[p] # Failed => Len(inBuf'[p]) <= byteCountNeeded(p)'
      <3>1. byteCountNeeded(p)' \in Nat
        <4>1. step'[p] \in 0 .. 5
          BY <1>5 DEF Steps
        <4> QED BY <4>1, Sizes, SMTT(60) DEF byteCountNeeded, Receives
      <3> QED BY <1>5, <3>1
    <2> QED BY <2>1, <2>2 DEF Buffered, BuffersMatch, OutputInv
  <1>15. Placed(p)' /\ Placed(q)'
    BY <1>1, <1>6, <1>13, <1>14, PlacesNext DEF Buffered, BuffersMatchStep
  <1> HIDE DEF w
  <1>16. FlightInv(p)' /\ FlightInv(q)'
    BY <1>7, <1>12, <1>15, ReadsFlight, Zenon
  <1>17. IOInv'
    BY <1>6, <1>13, <1>14, <1>16, Together, Zenon
  <1> QED BY <1>9, <1>10, <1>12, <1>17, Zenon DEF w

(* readCompleted() *)
LEMMA ReadCompletedStep ==
    ASSUME IOInv, NEW p \in Peers, ReadCompleted(p)
    PROVE  /\ IOInv' /\ Reads(p) /\ Len(inBuf[p]) = Want(p)
           /\ InFlight(Other(p)) = inBuf[p] \o wire'[Other(p)]
           /\ InFlight(Other(p))' = wire'[Other(p)]
  <1>1. Placed(p) /\ inBuf[p] \in Seq(ByteSet)
    BY Places DEF IOInv, TypeInv
  <1>2. Receives(p, step[p]) /\ Len(inBuf[p]) = Want(p)
    BY <1>1 DEF ReadCompleted, Placed
  <1>3. /\ wire' = wire /\ wire \in [Peers -> Seq(ByteSet)]
        /\ asked' = [asked EXCEPT ![p] = FALSE] /\ asked \in [Peers -> BOOLEAN]
        /\ open[p] /\ Consume(p, inBuf[p])
        /\ UNCHANGED <<open, boxed, style, outBuf, written, data>>
    BY DEF ReadCompleted, IOInv, TypeInv
  <1>4. /\ asked' \in [Peers -> BOOLEAN] /\ asked'[Other(p)] = asked[Other(p)]
        /\ ~asked'[p]
    BY <1>3
  <1>5. inBuf[p] \o wire'[Other(p)] = inBuf[p] \o wire[Other(p)] /\ wire'[p] = wire[p]
    BY <1>3
  <1>6. wire' \in [Peers -> Seq(ByteSet)]
    BY <1>3
  <1> QED BY <1>1, <1>2, <1>3, <1>4, <1>5, <1>6, Consumed, Zenon

(* The buffer that receivedBytes(src, k) makes. *)
Taken(p, k) == inBuf[p] \o SubSeq(wire[Other(p)], 1, TakeCount(p, k))

(* receivedBytes() takes no more than the message lacks. *)
LEMMA TakesEnough ==
    ASSUME IOInv, NEW p \in Peers, NEW k \in 1 .. Len(wire[Other(p)]),
           receivedBytes(p, k)
    PROVE  /\ Receives(p, step[p]) /\ byteCountNeeded(p) = Want(p) /\ Want(p) \in Nat
           /\ Taken(p, k) \in Seq(ByteSet) /\ Len(Taken(p, k)) <= Want(p)
           /\ Len(Taken(p, k)) \in Nat
           /\ Taken(p, k) \o wire'[Other(p)] = inBuf[p] \o wire[Other(p)]
           /\ wire' \in [Peers -> Seq(ByteSet)] /\ wire'[p] = wire[p]
           /\ ~asked'[p] /\ asked' = asked
  <1> DEFINE q == Other(p)
             a == inBuf[p]
             b == wire[Other(p)]
             c == TakeCount(p, k)
  <1>1. q \in Peers /\ q # p
    OBVIOUS
  <1>2. /\ Placed(p) /\ Buffered(p) /\ a \in Seq(ByteSet) /\ b \in Seq(ByteSet)
        /\ Len(a) \in Nat /\ Len(b) \in Nat /\ wire \in [Peers -> Seq(ByteSet)]
    BY Places DEF IOInv, TypeInv, Buffered, BuffersMatchStep
  <1>3. Receives(p, step[p]) /\ step[p] # Failed
    <2>1. byteCountNeeded(p) # 0
      BY <1>2 DEF receivedBytes, Placed
    <2> QED BY <1>2, <2>1 DEF Placed, Receives
  <1>4. byteCountNeeded(p) = Want(p) /\ Want(p) \in Nat
    BY <1>2, <1>3 DEF Placed
  <1>5. Len(a) <= Want(p)
    BY <1>2, <1>3, <1>4 DEF Buffered, BuffersMatch
  <1>6. k \in 1 .. Len(b)
    OBVIOUS
  <1>7. c = IF k < Want(p) - Len(a) THEN k ELSE Want(p) - Len(a)
    BY <1>4 DEF TakeCount
  <1>8. wire' = [wire EXCEPT ![q] = SubSeq(@, c + 1, Len(@))]
    BY DEF receivedBytes
  <1>9. Taken(p, k) = a \o SubSeq(b, 1, c)
    BY DEF Taken
  <1>10. ~asked'[p] /\ asked' = asked
    BY <1>2 DEF receivedBytes, Buffered, OutputInv
  <1>11. wire'[q] = SubSeq(b, c + 1, Len(b)) /\ wire'[p] = wire[p]
    BY <1>1, <1>2, <1>8
  <1> HIDE DEF a, b, c
  <1>12. c \in 0 .. Len(b) /\ Len(a) + c <= Want(p) /\ Len(a) + c \in Nat
    BY <1>2, <1>4, <1>5, <1>6, <1>7
  <1>13. /\ SubSeq(b, c + 1, Len(b)) \in Seq(ByteSet)
         /\ a \o SubSeq(b, 1, c) \in Seq(ByteSet)
         /\ Len(a \o SubSeq(b, 1, c)) = Len(a) + c
         /\ (a \o SubSeq(b, 1, c)) \o SubSeq(b, c + 1, Len(b)) = a \o b
    <2>1. a \in Seq(ByteSet) /\ b \in Seq(ByteSet) /\ c \in 0 .. Len(b)
      BY <1>2, <1>12, Zenon
    <2>2. a \o SubSeq(b, 1, c) \in Seq(ByteSet) /\ SubSeq(b, c + 1, Len(b)) \in Seq(ByteSet)
      BY <2>1, MoveSome
    <2>3. Len(a \o SubSeq(b, 1, c)) = Len(a) + c
      <3> DEFINE d == SubSeq(b, 1, c)
      <3>1. d \in Seq(ByteSet) /\ Len(d) = c
        BY <2>1
      <3> HIDE DEF d
      <3>2. Len(a \o d) = Len(a) + Len(d)
        BY <2>1, <3>1, Concatenation, ZenonT(60)
      <3> QED BY <3>1, <3>2, Zenon DEF d
    <2>4. (a \o SubSeq(b, 1, c)) \o SubSeq(b, c + 1, Len(b)) = a \o b
      BY <2>1, Rejoined, Zenon
    <2> QED BY <2>2, <2>3, <2>4, Zenon
  <1>14. wire' \in [Peers -> Seq(ByteSet)]
    <2>1. wire' = [wire EXCEPT ![q] = SubSeq(b, c + 1, Len(b))]
      BY <1>8 DEF b
    <2> QED BY <1>1, <1>2, <1>13, <2>1
  <1>15. Taken(p, k) \o wire'[q] = a \o b
    <2>1. Taken(p, k) \o wire'[q] = (a \o SubSeq(b, 1, c)) \o SubSeq(b, c + 1, Len(b))
      BY <1>9, <1>11, Zenon
    <2> QED BY <1>13, <2>1, Zenon
  <1>16. /\ Taken(p, k) \in Seq(ByteSet) /\ Len(Taken(p, k)) = Len(a) + c
    BY <1>9, <1>13, Zenon
  <1> QED BY <1>3, <1>4, <1>10, <1>11, <1>12, <1>14, <1>15, <1>16, Zenon DEF a, b

(* receivedBytes() with the last bytes of the message ... *)
LEMMA ReceivedAllStep ==
    ASSUME IOInv, NEW p \in Peers, NEW k \in 1 .. Len(wire[Other(p)]),
           receivedBytes(p, k), Len(Taken(p, k)) = Want(p)
    PROVE  /\ IOInv' /\ Reads(p) /\ Consume(p, Taken(p, k))
           /\ InFlight(Other(p)) = Taken(p, k) \o wire'[Other(p)]
           /\ InFlight(Other(p))' = wire'[Other(p)]
  <1>1. /\ Receives(p, step[p]) /\ byteCountNeeded(p) = Want(p) /\ Want(p) \in Nat
        /\ Taken(p, k) \in Seq(ByteSet) /\ asked' = asked /\ ~asked'[p]
        /\ Taken(p, k) \o wire'[Other(p)] = inBuf[p] \o wire[Other(p)]
        /\ wire' \in [Peers -> Seq(ByteSet)] /\ wire'[p] = wire[p]
    BY TakesEnough, Zenon
  <1>2. Consume(p, Taken(p, k))
    <2>1. ~(Len(Taken(p, k)) < byteCountNeeded(p))
      BY <1>1
    <2> QED BY <2>1 DEF receivedBytes, Taken
  <1>3. open[p] /\ UNCHANGED <<open, boxed, style, outBuf, written, data>>
    BY DEF receivedBytes
  <1>4. asked' \in [Peers -> BOOLEAN] /\ asked'[Other(p)] = asked[Other(p)]
    BY <1>1 DEF IOInv, TypeInv
  <1> QED BY <1>1, <1>2, <1>3, <1>4, Consumed, Zenon

(* ... and before. *)
LEMMA ReceivedSomeStep ==
    ASSUME IOInv, NEW p \in Peers, NEW k \in 1 .. Len(wire[Other(p)]),
           receivedBytes(p, k), Len(Taken(p, k)) # Want(p)
    PROVE  IOInv' /\ Still /\ UNCHANGED <<step, error, impl>>
  <1> DEFINE q == Other(p)
             t == Taken(p, k)
  <1>1. q \in Peers /\ Other(q) = p /\ q # p
    OBVIOUS
  <1>2. /\ Receives(p, step[p]) /\ byteCountNeeded(p) = Want(p) /\ Want(p) \in Nat
        /\ t \in Seq(ByteSet) /\ asked' = asked /\ Len(t) \in Nat
        /\ t \o wire'[q] = inBuf[p] \o wire[q] /\ Len(t) <= Want(p)
        /\ wire' \in [Peers -> Seq(ByteSet)] /\ wire'[p] = wire[p]
    BY TakesEnough, Zenon
  <1>3. inBuf' = [inBuf EXCEPT ![p] = t] /\ UNCHANGED <<step, error, impl>>
    <2>1. Len(Taken(p, k)) < byteCountNeeded(p)
      BY <1>2
    <2> QED BY <2>1 DEF receivedBytes, Taken
  <1>4. UNCHANGED <<open, boxed, style, outBuf, written, data>>
    BY DEF receivedBytes
  <1> HIDE DEF t
  <1>5. /\ inBuf'[p] = t /\ inBuf'[q] = inBuf[q]
        /\ inBuf' \in [Peers -> Seq(ByteSet)]
    BY <1>1, <1>2, <1>3 DEF IOInv, TypeInv
  <1>6. TypeInv'
    BY <1>2, <1>3, <1>4, <1>5 DEF IOInv, TypeInv
  <1>7. Buffered(p) /\ Buffered(q) /\ Flown(q) /\ Flown(q)' /\ step[p] # Failed
    <2>1. step[p] # Failed
      <3>1. Receives(p, step[p])
        BY <1>2, Zenon
      <3> QED BY <3>1 DEF Receives
    <2>2. Flown(q) /\ Flown(q)'
      BY <1>1, <1>6, Flights, FlightsNext DEF IOInv
    <2>3. Buffered(p) /\ Buffered(q)
      BY <1>1 DEF IOInv, Buffered, BuffersMatchStep
    <2> QED BY <2>1, <2>2, <2>3
  <1>8. InFlight(p)' = InFlight(p) /\ InFlight(q)' = InFlight(q)
    <2>1. InFlight(p)' = InFlight(p)
      BY <1>2, <1>3, <1>5, SameFlight
    <2>2. InFlight(q)' = t \o wire'[q] /\ InFlight(q) = inBuf[p] \o wire[q]
      BY <1>1, <1>3, <1>5, <1>7 DEF Flown
    <2> QED BY <1>2, <2>1, <2>2, Zenon
  <1>9. \A r \in Peers : Kept(r)
    BY <1>3, <1>4 DEF Kept, Stands
  <1>10. Still
    BY <1>8, <1>9, KeptPlace DEF Still
  <1>11. \A r \in Peers : FlightInv(r)'
    BY <1>10, FlightKept DEF Still, IOInv
  <1>12. Buffered(q)'
    <2>1. Untouched(q)
      BY <1>1, <1>2, <1>4, <1>5, <1>9 DEF Untouched
    <2> QED BY <1>1, <1>7, <2>1, UntouchedBuffers
  <1>13. Buffered(p)'
    <2>1. BuffersMatch(p)'
      BY <1>2, <1>3, <1>4, <1>5, <1>7 DEF Buffered, BuffersMatch, byteCountNeeded
    <2>2. OutputInv(p)'
      BY <1>2, <1>3, <1>4, <1>7 DEF Buffered, OutputInv, Boxes
    <2> QED BY <2>1, <2>2 DEF Buffered
  <1> QED BY <1>3, <1>6, <1>10, <1>11, <1>12, <1>13, Together

----------------------------------------------------------------------------
(* The message level.                                                      *)

(* What the refinement mapping sees of the bytes under way from p. *)
NetView(p) ==
    LET w == InFlight(p)
        n == Want(Other(p))
    IN  /\ n = 0 \/ Len(w) < n => netMsg[p] = Unset
        /\ n > 0 /\ Len(w) >= n => netMsg[p] = w[1].msg /\ netMsg[p] # Unset
        /\ isGarbled[p] <=> \E i \in 1 .. Len(w) : i <= n /\ ~w[i].good

(* A message is on the net when all its bytes are under way, and is        *)
(* garbled when a byte of it is, whether or not all are there.             *)
LEMMA NetViews == IOInv => \A p \in Peers : NetView(p)
  <1> SUFFICES ASSUME IOInv, NEW p \in Peers PROVE NetView(p)
    OBVIOUS
  <1> DEFINE w == InFlight(p)
             n == Want(Other(p))
  <1>1. /\ w \in Seq(ByteSet) /\ Len(w) \in Nat /\ n \in Nat
        /\ DOMAIN w = 1 .. Len(w)
    <2>1. Flown(p) /\ Placed(Other(p))
      BY Flights, Places DEF IOInv
    <2> QED BY <2>1 DEF Flown, Placed
  <1>2. Shape(w, n)
    BY DEF IOInv, FlightInv, FlowInv
  <1>3. OnNet(p) = {b \in {w[i] : i \in DOMAIN w} : b.msg # Unset}
    BY DEF OnNet
  <1>a. netMsg[p] = IF \E b \in OnNet(p) : b.left = 0
                    THEN (CHOOSE b \in OnNet(p) : b.left = 0).msg ELSE Unset
    BY DEF netMsg
  <1>b. isGarbled[p] <=> \E b \in OnNet(p) : ~b.good
    BY DEF isGarbled
  <1> HIDE DEF w, n
  <1>4. /\ \A i \in 1 .. Len(w) : i <= n =>
              w[i].msg = w[1].msg /\ w[i].msg # Unset /\ w[i].left = n - i
        /\ \A i \in 1 .. Len(w) : i > n => w[i].msg = Unset
    BY <1>1, <1>2, SMTT(60) DEF Shape, DataByte
  <1>5. \A b : b \in OnNet(p) <=> \E i \in 1 .. Len(w) : i <= n /\ b = w[i]
    <2>1. ASSUME NEW b, b \in OnNet(p) PROVE \E i \in 1 .. Len(w) : i <= n /\ b = w[i]
      <3>1. PICK i \in 1 .. Len(w) : b = w[i]
        BY <1>1, <1>3, <2>1
      <3>2. w[i].msg # Unset
        BY <1>3, <2>1, <3>1
      <3>3. i <= n
        BY <1>1, <1>4, <3>2
      <3> QED BY <3>1, <3>3
    <2>2. ASSUME NEW i \in 1 .. Len(w), i <= n PROVE w[i] \in OnNet(p)
      BY <1>1, <1>3, <1>4, <2>2
    <2> QED BY <2>1, <2>2
  <1>6. ASSUME n = 0 \/ Len(w) < n PROVE netMsg[p] = Unset
    <2>1. ~\E b \in OnNet(p) : b.left = 0
      <3> SUFFICES ASSUME NEW b \in OnNet(p), b.left = 0 PROVE FALSE
        OBVIOUS
      <3>1. PICK i \in 1 .. Len(w) : i <= n /\ b = w[i]
        BY <1>5
      <3>2. w[i].left = n - i
        BY <1>4, <3>1
      <3> QED BY <1>1, <1>6, <3>1, <3>2
    <2> QED BY <1>a, <2>1
  <1>7. ASSUME n > 0 /\ Len(w) >= n PROVE netMsg[p] = w[1].msg /\ netMsg[p] # Unset
    <2>1. n \in 1 .. Len(w) /\ w[n].left = 0 /\ w[n] \in OnNet(p)
      BY <1>1, <1>4, <1>5, <1>7
    <2>2. ASSUME NEW b \in OnNet(p) PROVE b.msg = w[1].msg /\ b.msg # Unset
      BY <1>4, <1>5
    <2> QED BY <1>a, <2>1, <2>2
  <1>8. isGarbled[p] <=> \E i \in 1 .. Len(w) : i <= n /\ ~w[i].good
    BY <1>b, <1>5
  <1> QED BY <1>6, <1>7, <1>8 DEF NetView, w, n

(* ... after each step. *)
LEMMA NetViewsNext == IOInv' => (\A p \in Peers : NetView(p))'
  BY NetViews, PTL

(* ... and depends on nothing else. *)
LEMMA SameNet ==
    ASSUME NEW p \in Peers, InFlight(p)' = InFlight(p)
    PROVE  netMsg'[p] = netMsg[p] /\ (isGarbled'[p] <=> isGarbled[p])
  <1>1. OnNet(p)' = OnNet(p)
    BY DEF OnNet
  <1> QED BY <1>1 DEF netMsg, isGarbled

(* A buffer with all the bytes of a message holds it, or noise. *)
LEMMA WholeMessage ==
    ASSUME NEW buf \in Seq(ByteSet), Len(buf) > 0,
           \A i \in 1 .. Len(buf) : buf[i].msg = buf[1].msg /\ buf[i].left = Len(buf) - i
    PROVE  Message(buf) = IF \E i \in 1 .. Len(buf) : ~buf[i].good
                          THEN Noise ELSE buf[1].msg
  <1> DEFINE n == Len(buf)
             m == buf[1].msg
  <1>1. n \in Nat /\ n > 0 /\ \A i \in 1 .. n : buf[i] \in ByteSet
    OBVIOUS
  <1>2. buf = [i \in 1 .. n |-> buf[i]]
    OBVIOUS
  <1>3. \A i \in 1 .. n : buf[i].msg = m /\ buf[i].left = n - i
    OBVIOUS
  <1>4. Message(buf) = IF buf = Bytes(m, n) THEN m ELSE Noise
    BY DEF Message
  <1> HIDE DEF n, m
  <1>5. ASSUME NEW i \in 1 .. n
        PROVE  buf[i].good <=> buf[i] = [msg |-> m, left |-> n - i, good |-> TRUE]
    <2>1. buf[i].msg = m /\ buf[i].left = n - i /\ buf[i].good \in BOOLEAN
      BY <1>1, <1>3 DEF ByteSet
    <2>2. buf[i] = [msg |-> buf[i].msg, left |-> buf[i].left, good |-> buf[i].good]
      BY <1>1 DEF ByteSet
    <2>3. ASSUME buf[i].good
          PROVE  buf[i] = [msg |-> m, left |-> n - i, good |-> TRUE]
      <3>1. buf[i].good = TRUE
        BY <2>1, <2>3
      <3> QED BY <2>1, <2>2, <3>1
    <2>4. ASSUME buf[i] = [msg |-> m, left |-> n - i, good |-> TRUE]
          PROVE  buf[i].good
      BY <2>4
    <2> QED BY <2>3, <2>4
  <1>6. ASSUME \A i \in 1 .. n : buf[i].good PROVE buf = Bytes(m, n)
    BY <1>2, <1>5, <1>6 DEF Bytes
  <1>7. ASSUME buf = Bytes(m, n), NEW i \in 1 .. n PROVE buf[i].good
    <2>1. buf[i] = [msg |-> m, left |-> n - i, good |-> TRUE]
      BY <1>7 DEF Bytes
    <2> QED BY <1>5, <2>1
  <1>8. Message(buf) = IF \E i \in 1 .. n : ~buf[i].good THEN Noise ELSE m
    BY <1>4, <1>6, <1>7
  <1> QED BY <1>8 DEF n, m

(* What a reader has all of is the message on the net, or noise. *)
LEMMA Arrives ==
    ASSUME IOInv, NEW p \in Peers, NEW buf \in Seq(ByteSet), NEW rest \in Seq(ByteSet)
    PROVE  InFlight(Other(p)) = buf \o rest /\ Len(buf) = Want(p) /\ Want(p) > 0
           => /\ netMsg[Other(p)] # Unset
              /\ Message(buf) = IF isGarbled[Other(p)] THEN Noise ELSE netMsg[Other(p)]
  <1> DEFINE q == Other(p)
             w == InFlight(q)
             n == Want(p)
  <1>1. q \in Peers /\ Other(q) = p
    OBVIOUS
  <1>2. NetView(q)
    BY <1>1, NetViews
  <1>3. Shape(w, n)
    BY <1>1 DEF IOInv, FlightInv, FlowInv
  <1>4. n \in Nat
    BY Places DEF IOInv, Placed
  <1>5. /\ n > 0 /\ Len(w) >= n => netMsg[q] = w[1].msg /\ netMsg[q] # Unset
        /\ isGarbled[q] <=> \E i \in 1 .. Len(w) : i <= n /\ ~w[i].good
    BY <1>1, <1>2 DEF NetView
  <1> HIDE DEF q, w, n
  <1> SUFFICES ASSUME w = buf \o rest, Len(buf) = n, n > 0
               PROVE  /\ netMsg[q] # Unset
                      /\ Message(buf) = IF isGarbled[q] THEN Noise ELSE netMsg[q]
    BY Zenon DEF q, w, n
  <1>6. /\ w \in Seq(ByteSet) /\ Len(w) = Len(buf) + Len(rest)
        /\ \A i \in 1 .. Len(buf) : w[i] = buf[i]
    BY Concatenation, ZenonT(60)
  <1>7. Len(w) >= n /\ Len(w) \in Nat /\ DOMAIN w = 1 .. Len(w)
    BY <1>4, <1>6
  <1>8. \A i \in 1 .. n : w[i] = buf[i] /\ w[i].msg = w[1].msg /\ w[i].left = n - i
    BY <1>3, <1>4, <1>6, <1>7 DEF Shape
  <1>9. \A i \in 1 .. Len(buf) : buf[i].msg = buf[1].msg /\ buf[i].left = Len(buf) - i
    BY <1>4, <1>8
  <1>10. netMsg[q] = buf[1].msg /\ netMsg[q] # Unset
    BY <1>4, <1>5, <1>7, <1>8
  <1>11. isGarbled[q] <=> \E i \in 1 .. Len(buf) : ~buf[i].good
    BY <1>4, <1>5, <1>7, <1>8
  <1>12. Message(buf) = IF \E i \in 1 .. Len(buf) : ~buf[i].good
                        THEN Noise ELSE buf[1].msg
    BY <1>9, WholeMessage
  <1> QED BY <1>10, <1>11, <1>12

(* The mapped variables are functions on the peers. *)
Mapped == /\ outMsg = [r \in Peers |-> outMsg[r]] /\ isSent = [r \in Peers |-> isSent[r]]
          /\ netMsg = [r \in Peers |-> netMsg[r]]
          /\ isGarbled = [r \in Peers |-> isGarbled[r]]
          /\ \A r \in Peers : isSent[r] \in BOOLEAN /\ isGarbled[r] \in BOOLEAN

(* ... in every state. *)
LEMMA Maps == Mapped
  <1>1. \A r \in Peers : isSent[r] \in BOOLEAN /\ isGarbled[r] \in BOOLEAN
    BY Zenon DEF isSent, isGarbled
  <1> QED BY <1>1, Zenon DEF Mapped, outMsg, isSent, netMsg, isGarbled

(* ... and after each step. *)
LEMMA MapsNext == Mapped'
  BY Maps, PTL

(* A step of peer p as the mapping sees it, when it leaves alone what the  *)
(* other one sends and has under way.                                      *)
LEMMA OutChanges ==
    ASSUME NEW p \in Peers, outBuf'[Other(p)] = outBuf[Other(p)],
           written'[Other(p)] = written[Other(p)]
    PROVE  /\ outMsg' = [outMsg EXCEPT ![p] = outMsg'[p]]
           /\ isSent' = [isSent EXCEPT ![p] = isSent'[p]]
  <1>1. outMsg'[Other(p)] = outMsg[Other(p)] /\ isSent'[Other(p)] = isSent[Other(p)]
    BY DEF outMsg, isSent
  <1>2. Mapped /\ Mapped'
    BY Maps, MapsNext
  <1> QED BY <1>1, <1>2 DEF Mapped

(* The same for what is under way.                                         *)
LEMMA NetChanges ==
    ASSUME NEW p \in Peers, InFlight(Other(p))' = InFlight(Other(p))
    PROVE  /\ netMsg' = [netMsg EXCEPT ![p] = netMsg'[p]]
           /\ isGarbled' = [isGarbled EXCEPT ![p] = isGarbled'[p]]
  <1>1. netMsg'[Other(p)] = netMsg[Other(p)] /\ (isGarbled'[Other(p)] <=> isGarbled[Other(p)])
    BY SameNet
  <1>2. Mapped /\ Mapped'
    BY Maps, MapsNext
  <1>3. isGarbled'[Other(p)] = isGarbled[Other(p)]
    <2>1. isGarbled'[Other(p)] \in BOOLEAN /\ isGarbled[Other(p)] \in BOOLEAN
      BY <1>2 DEF Mapped
    <2> QED BY <1>1, <2>1
  <1> QED BY <1>1, <1>2, <1>3 DEF Mapped

(* Nothing to be seen. *)
LEMMA NetSame ==
    ASSUME \A r \in Peers : InFlight(r)' = InFlight(r)
    PROVE  netMsg' = netMsg /\ isGarbled' = isGarbled
  <1>1. \A r \in Peers : OnNet(r)' = OnNet(r)
    BY DEF OnNet
  <1> QED BY <1>1, Zenon DEF netMsg, isGarbled

(* Buffers that stay are the same message.                                 *)
LEMMA OutSame ==
    ASSUME outBuf' = outBuf, written' = written
    PROVE  outMsg' = outMsg /\ isSent' = isSent
  BY DEF outMsg, isSent

(* The net while p sends. *)
LEMMA EmitsNet ==
    ASSUME IOInv, IOInv', NEW p \in Peers, NEW m, NEW v \in Seq(ByteSet), Emits(p, m, v)
    PROVE  /\ isGarbled' = isGarbled
           /\ Len(v) # Rest(p) => netMsg' = netMsg
           /\ Len(v) = Rest(p) => netMsg' = [netMsg EXCEPT ![p] = m]
  <1> DEFINE q == Other(p)
             w == InFlight(p)
             n == Want(q)
  <1>1. q \in Peers /\ Other(q) = p
    OBVIOUS
  <1>2. NetView(p) /\ NetView(p)' /\ Mapped /\ Mapped'
    BY NetViews, NetViewsNext, Maps, MapsNext
  <1>3. /\ AboutToSend(p) /\ open[p] /\ Kept(q) /\ InFlight(q)' = InFlight(q)
        /\ InFlight(p)' = w \o v /\ Len(v) <= Rest(p)
        /\ \A i \in 1 .. Len(v) : v[i].msg = m /\ v[i].good
    BY DEF Emits
  <1>4. n \in Nat /\ n > 0 /\ Rest(p) \in 1 .. n /\ Len(w) = n - Rest(p)
    BY <1>3, OnTurn
  <1>5. Want(q)' = n
    BY <1>1, <1>3, Keeps DEF Kept
  <1>6. w \in Seq(ByteSet) /\ Shape(w, n)
    BY Flights DEF IOInv, Flown, FlightInv, FlowInv
  <1>7. w # <<>> => w[1].msg = m
    <2>1. CASE outBuf[p] # <<>>
      BY <1>3, <2>1 DEF IOInv, FlightInv, FlowInv, Emits
    <2>2. CASE outBuf[p] = <<>>
      <3>1. Rest(p) = n
        BY <1>3, <2>2, OnTurn DEF Rest
      <3> QED BY <1>4, <1>6, <3>1
    <2> QED BY <2>1, <2>2
  <1>8. /\ n = 0 \/ Len(w) < n => netMsg[p] = Unset
        /\ isGarbled[p] <=> \E i \in 1 .. Len(w) : i <= n /\ ~w[i].good
    BY <1>2 DEF NetView
  <1> DEFINE u == InFlight(p)'
  <1>9. /\ n = 0 \/ Len(u) < n => netMsg'[p] = Unset
        /\ n > 0 /\ Len(u) >= n => netMsg'[p] = u[1].msg
        /\ isGarbled'[p] <=> \E i \in 1 .. Len(u) : i <= n /\ ~u[i].good
    BY <1>2, <1>5 DEF NetView
  <1>10. /\ netMsg' = [netMsg EXCEPT ![p] = netMsg'[p]]
         /\ isGarbled' = [isGarbled EXCEPT ![p] = isGarbled'[p]]
    BY <1>3, NetChanges
  <1>11. u = w \o v
    BY <1>3
  <1>a. Len(v) <= Rest(p) /\ \A i \in 1 .. Len(v) : v[i].msg = m /\ v[i].good
    BY <1>3
  <1> HIDE DEF u, w, n, q
  <1>12. /\ Len(u) = Len(w) + Len(v) /\ Len(w) \in Nat /\ Len(v) \in Nat
         /\ \A i \in 1 .. Len(w) : u[i] = w[i]
         /\ \A i \in 1 .. Len(v) : u[Len(w) + i] = v[i]
    BY <1>6, <1>11, Concatenation
  <1>13. isGarbled'[p] <=> isGarbled[p]
    <2>1. \A i \in 1 .. Len(u) : i > Len(w) => u[i].good
      <3> SUFFICES ASSUME NEW i \in 1 .. Len(u), i > Len(w) PROVE u[i].good
        OBVIOUS
      <3>1. i - Len(w) \in 1 .. Len(v) /\ i = Len(w) + (i - Len(w))
        BY <1>12
      <3>2. u[i] = v[i - Len(w)]
        BY <1>12, <3>1
      <3> QED BY <1>a, <3>1, <3>2
    <2> QED BY <1>4, <1>8, <1>9, <1>12, <2>1
  <1>14. isGarbled'[p] = isGarbled[p]
    BY <1>2, <1>13 DEF Mapped
  <1>15. isGarbled' = isGarbled
    BY <1>2, <1>10, <1>14 DEF Mapped
  <1>16. ASSUME Len(v) # Rest(p) PROVE netMsg' = netMsg
    <2>1. netMsg'[p] = netMsg[p]
      BY <1>4, <1>8, <1>9, <1>12, <1>a, <1>16
    <2> QED BY <1>2, <1>10, <2>1 DEF Mapped
  <1>17. ASSUME Len(v) = Rest(p) PROVE netMsg' = [netMsg EXCEPT ![p] = m]
    <2>1. Len(u) = n /\ u[1].msg = m
      <3>1. Len(u) = n
        BY <1>4, <1>12, <1>17
      <3>2. CASE w # <<>>
        <4>1. 1 \in 1 .. Len(w)
          BY <1>6, <3>2
        <4> QED BY <1>7, <1>12, <3>1, <3>2, <4>1
      <3>3. CASE w = <<>>
        <4>1. Len(w) = 0 /\ 1 \in 1 .. Len(v)
          BY <1>4, <1>12, <1>17, <3>3
        <4>2. u[1] = v[1]
          BY <1>12, <4>1
        <4> QED BY <1>a, <3>1, <4>1, <4>2
      <3> QED BY <3>1, <3>2, <3>3
    <2>2. netMsg'[p] = m
      BY <1>4, <1>9, <2>1
    <2> QED BY <1>10, <2>2
  <1> QED BY <1>15, <1>16, <1>17

----------------------------------------------------------------------------
(* Handshake's own proofs.                                                 *)

(* Handshake with its proofs, under the refinement mapping of HandshakeIO. *)
MP == INSTANCE HandshakeProofs WITH
    out <- outMsg, sent <- isSent, net <- netMsg, garbled <- isGarbled

USE DEF MP!Client, Msgs!Client, MP!Server, Msgs!Server, MP!Peers, Msgs!Peers,
        MP!Other, Msgs!Other, MP!Failed, Msgs!Failed, MP!ClientChallenge,
        Msgs!ClientChallenge, MP!ServerChallenge, Msgs!ServerChallenge,
        MP!ClientAuth, Msgs!ClientAuth, MP!ServerAck, Msgs!ServerAck,
        MP!Finished, Msgs!Finished, MP!ProtocolError, Msgs!ProtocolError,
        MP!AuthError, Msgs!AuthError, MP!Noise, Msgs!Noise

(* Both levels make the same messages ...                                  *)
LEMMA Fills ==
    \A p, t, h :
        /\ MP!FillOutputBuffer(p, t, h) = FillOutputBuffer(p, t, h)
        /\ Msgs!FillOutputBuffer(p, t, h) = FillOutputBuffer(p, t, h)
  <1>1. \A p, t, h : MP!FillOutputBuffer(p, t, h) = FillOutputBuffer(p, t, h)
    BY DEF MP!FillOutputBuffer, FillOutputBuffer, MP!createChallenge,
           createChallenge, MP!createClientAuth, createClientAuth,
           MP!createServerAck, createServerAck, MP!hmac, hmac, MP!box, box,
           MP!sign, sign, MP!hash, hash, MP!hashab, hashab, MP!DH, DH,
           MP!clientAuthKey, clientAuthKey, MP!serverAckKey, serverAckKey,
           MP!makeBoxKey, makeBoxKey
  <1>2. \A p, t, h : Msgs!FillOutputBuffer(p, t, h) = FillOutputBuffer(p, t, h)
    BY DEF Msgs!FillOutputBuffer, FillOutputBuffer, Msgs!createChallenge,
           createChallenge, Msgs!createClientAuth, createClientAuth,
           Msgs!createServerAck, createServerAck, Msgs!hmac, hmac, Msgs!box,
           box, Msgs!sign, sign, Msgs!hash, hash, Msgs!hashab, hashab,
           Msgs!DH, DH, Msgs!clientAuthKey, clientAuthKey, Msgs!serverAckKey,
           serverAckKey, Msgs!makeBoxKey, makeBoxKey
  <1> QED BY <1>1, <1>2

(* ... and judge them alike.                                               *)
LEMMA Verdicts ==
    \A p, t, h, a, m :
        /\ MP!ReceivedBytes(p, t, h, a, m) = ReceivedBytes(p, t, h, a, m)
        /\ Msgs!ReceivedBytes(p, t, h, a, m) = ReceivedBytes(p, t, h, a, m)
  <1>1. \A p, t, h, a, m : MP!ReceivedBytes(p, t, h, a, m) = ReceivedBytes(p, t, h, a, m)
    BY DEF MP!ReceivedBytes, ReceivedBytes, MP!verifyChallenge,
           verifyChallenge, MP!verifyClientAuth, verifyClientAuth,
           MP!verifyServerAck, verifyServerAck, MP!hmac, hmac, MP!unbox,
           unbox, MP!sign, sign, MP!hash, hash, MP!hashab, hashab, MP!DH, DH,
           MP!clientAuthKey, clientAuthKey, MP!serverAckKey, serverAckKey,
           MP!makeBoxKey, makeBoxKey, MP!check, check, MP!Authorizes,
           Authorizes
  <1>2. \A p, t, h, a, m : Msgs!ReceivedBytes(p, t, h, a, m) = ReceivedBytes(p, t, h, a, m)
    BY DEF Msgs!ReceivedBytes, ReceivedBytes, Msgs!verifyChallenge,
           verifyChallenge, Msgs!verifyClientAuth, verifyClientAuth,
           Msgs!verifyServerAck, verifyServerAck, Msgs!hmac, hmac, Msgs!unbox,
           unbox, Msgs!sign, sign, Msgs!hash, hash, Msgs!hashab, hashab,
           Msgs!DH, DH, Msgs!clientAuthKey, clientAuthKey, Msgs!serverAckKey,
           serverAckKey, Msgs!makeBoxKey, makeBoxKey, Msgs!check, check,
           Msgs!Authorizes, Authorizes
  <1> QED BY <1>1, <1>2

(* A step of the specification ImplementsMessages names is one of the      *)
(* instance that the proofs of Handshake are about.                        *)
LEMMA Bridge == [Msgs!Next]_(Msgs!vars) => [MP!Next]_(MP!vars)
  <1>1. ASSUME NEW p \in Peers, Msgs!BytesToSend(p) PROVE MP!BytesToSend(p)
    BY <1>1, Fills DEF MP!BytesToSend, Msgs!BytesToSend, MP!Fill, Msgs!Fill, MP!Boxes,
        Msgs!Boxes, MP!Sends, Msgs!Sends
  <1>2. ASSUME NEW p \in Peers, Msgs!Write(p) PROVE MP!Write(p)
    BY <1>2 DEF MP!Write, Msgs!Write
  <1>3. ASSUME NEW p \in Peers, Msgs!SendCompleted(p) PROVE MP!SendCompleted(p)
    BY <1>3 DEF MP!SendCompleted, Msgs!SendCompleted, MP!NextStep, Msgs!NextStep
  <1>4. ASSUME NEW p \in Peers, Msgs!CopyBytesToSend(p) PROVE MP!CopyBytesToSend(p)
    BY <1>4, Fills DEF MP!CopyBytesToSend, Msgs!CopyBytesToSend, MP!Fill, Msgs!Fill,
        MP!Boxes, Msgs!Boxes, MP!Sends, Msgs!Sends, MP!NextStep, Msgs!NextStep
  <1>5. ASSUME NEW p \in Peers, Msgs!ReadCompleted(p) PROVE MP!ReadCompleted(p)
    BY <1>5, Verdicts DEF MP!ReadCompleted, Msgs!ReadCompleted, MP!Arrived, Msgs!Arrived,
        MP!Receives, Msgs!Receives, MP!NextStep, Msgs!NextStep, MP!Fails,
        Msgs!Fails, MP!FailureError, Msgs!FailureError
  <1>6. ASSUME NEW p \in Peers, Msgs!ReadFailed(p) PROVE MP!ReadFailed(p)
    BY <1>6 DEF MP!ReadFailed, Msgs!ReadFailed, MP!Receives, Msgs!Receives, MP!Fails,
        Msgs!Fails, MP!FailureError, Msgs!FailureError
  <1>7. ASSUME NEW p \in Peers, Msgs!Close(p) PROVE MP!Close(p)
    BY <1>7 DEF MP!Close, Msgs!Close
  <1>8. ASSUME NEW p \in Peers, Msgs!WriteFailed(p) PROVE MP!WriteFailed(p)
    BY <1>8 DEF MP!WriteFailed, Msgs!WriteFailed
  <1>9. ASSUME NEW p \in Peers, Msgs!Drop(p) PROVE MP!Drop(p)
    BY <1>9 DEF MP!Drop, Msgs!Drop
  <1>10. ASSUME NEW p \in Peers, Msgs!Corrupt(p) PROVE MP!Corrupt(p)
    BY <1>10 DEF MP!Corrupt, Msgs!Corrupt
  <1>11. Msgs!Done => MP!Done
    BY DEF MP!Done, Msgs!Done, MP!Over, Msgs!Over, MP!vars, Msgs!vars
  <1>12. UNCHANGED Msgs!vars => UNCHANGED MP!vars
    BY DEF MP!vars, Msgs!vars
  <1> QED BY <1>1, <1>2, <1>3, <1>4, <1>5, <1>6, <1>7, <1>8, <1>9, <1>10,
             <1>11, <1>12
          DEF MP!Next, Msgs!Next, MP!Own, Msgs!Own

----------------------------------------------------------------------------
(* Each step at the message level.                                         *)

(* The message level takes no step. *)
Unseen == UNCHANGED <<step, error, impl, outMsg, isSent, netMsg, isGarbled,
                      open, clientAuth, boxed, faults>>

(* Asking for the input buffer is not seen. *)
LEMMA BytesToReadUnseen == ASSUME IOInv, NEW p \in Peers, BytesToRead(p) PROVE Unseen
  <1>1. netMsg' = netMsg /\ isGarbled' = isGarbled
    BY BytesToReadStep, NetSame DEF Still
  <1>2. outMsg' = outMsg /\ isSent' = isSent
    BY OutSame DEF BytesToRead
  <1> QED BY <1>1, <1>2 DEF BytesToRead, Unseen

(* Filling the input buffer is not seen.                                   *)
LEMMA FillUnseen == ASSUME IOInv, NEW p \in Peers, Fill(p) PROVE Unseen
  <1>1. netMsg' = netMsg /\ isGarbled' = isGarbled
    BY FillStep, NetSame DEF Still
  <1>2. outMsg' = outMsg /\ isSent' = isSent
    BY OutSame DEF Fill
  <1> QED BY <1>1, <1>2 DEF Fill, Unseen

(* A call of receivedBytes() that leaves the message incomplete is not     *)
(* seen.                                                                   *)
LEMMA ReceivedSomeUnseen ==
    ASSUME IOInv, NEW p \in Peers, NEW k \in 1 .. Len(wire[Other(p)]),
           receivedBytes(p, k), Len(Taken(p, k)) # Want(p)
    PROVE  Unseen
  <1>1. Still /\ UNCHANGED <<step, error, impl>>
    BY ReceivedSomeStep
  <1>2. netMsg' = netMsg /\ isGarbled' = isGarbled
    BY <1>1, NetSame DEF Still
  <1>3. UNCHANGED <<open, clientAuth, boxed, faults, outBuf, written>>
    BY DEF receivedBytes
  <1>4. outMsg' = outMsg /\ isSent' = isSent
    BY <1>3, OutSame
  <1> QED BY <1>1, <1>2, <1>3, <1>4 DEF Unseen

(* Session data are not seen. *)
LEMMA SendDataUnseen == ASSUME IOInv, NEW p \in Peers, SendData(p) PROVE Unseen
  <1> DEFINE q == Other(p)
             w == InFlight(p)
             n == Want(q)
             u == InFlight(p)'
  <1>1. q \in Peers /\ Other(q) = p
    OBVIOUS
  <1>2. IOInv' /\ SendsDataByte(p)
    BY SendDataStep
  <1>3. outMsg' = outMsg /\ isSent' = isSent
    BY OutSame DEF SendData
  <1>4. NetView(p) /\ NetView(p)' /\ Mapped /\ Mapped'
    BY <1>2, NetViews, NetViewsNext, Maps, MapsNext
  <1>5. Want(q)' = n
    BY <1>1, <1>2, Keeps DEF SendsDataByte, Kept
  <1>6. /\ netMsg' = [netMsg EXCEPT ![p] = netMsg'[p]]
        /\ isGarbled' = [isGarbled EXCEPT ![p] = isGarbled'[p]]
    BY <1>2, NetChanges DEF SendsDataByte
  <1>7. /\ n = 0 \/ Len(w) < n => netMsg[p] = Unset
        /\ n > 0 /\ Len(w) >= n => netMsg[p] = w[1].msg
        /\ isGarbled[p] <=> \E i \in 1 .. Len(w) : i <= n /\ ~w[i].good
    BY <1>4 DEF NetView
  <1>8. /\ n = 0 \/ Len(u) < n => netMsg'[p] = Unset
        /\ n > 0 /\ Len(u) >= n => netMsg'[p] = u[1].msg
        /\ isGarbled'[p] <=> \E i \in 1 .. Len(u) : i <= n /\ ~u[i].good
    BY <1>4, <1>5 DEF NetView
  <1>9. u = Append(w, DataByte(data[p] + 1)) /\ w \in Seq(ByteSet) /\ n \in Nat
    BY <1>1, <1>2, Flights, Places DEF SendsDataByte, IOInv, Flown, Placed
  <1>10. Len(w) >= n
    <2>1. Pos(p) = 5 /\ ~AboutToSend(p) /\ step[p] = 5 /\ open[p]
      BY <1>2, Places DEF IOInv, Placed, SendsDataByte
    <2>2. Len(w) = Due(p)
      BY <2>1 DEF IOInv, FlightInv, LengthInv
    <2>3. step[q] # 0 => Pos(p) <= Pos(q) + 1
      BY <1>1, <2>1 DEF IOInv, FlightInv, TurnInv
    <2>4. CASE Pos(q) = 4
      <3>1. data[p] \in Nat
        BY DEF IOInv, TypeInv
      <3>2. Due(p) = data[p] + n
        BY <2>1, <2>4 DEF Due
      <3> QED BY <1>9, <2>2, <3>1, <3>2
    <2>5. CASE Pos(q) # 4
      <3>1. Placed(q)
        BY <1>1, Places DEF IOInv
      <3>2. n = 0
        BY <3>1, <2>3, <2>5, <2>1, <1>1 DEF Placed, Want, Receives
      <3> QED BY <3>2, <1>9
    <2> QED BY <2>4, <2>5
  <1> HIDE DEF q, w, u, n
  <1>11. /\ Len(u) = Len(w) + 1 /\ Len(w) \in Nat
         /\ \A i \in 1 .. Len(w) : u[i] = w[i]
    BY <1>9
  <1>12. netMsg'[p] = netMsg[p]
    BY <1>7, <1>8, <1>9, <1>10, <1>11
  <1>13. isGarbled'[p] <=> isGarbled[p]
    BY <1>7, <1>8, <1>9, <1>10, <1>11
  <1>14. netMsg' = netMsg /\ isGarbled' = isGarbled
    BY <1>4, <1>6, <1>12, <1>13 DEF Mapped
  <1> QED BY <1>3, <1>14 DEF SendData, Unseen

(* Handing out the buffer. *)
LEMMA BytesToSendImplements ==
    ASSUME IOInv, NEW p \in Peers, BytesToSend(p), Composes(p)
    PROVE  Msgs!BytesToSend(p)
  <1> DEFINE m == FillOutput(p).msg
  <1>1. /\ IOInv' /\ Emits(p, m, <<>>)
        /\ outBuf'[p] # <<>> /\ outBuf'[p][1].msg = m
        /\ ~isSent[p] /\ ~isSent'[p] /\ Kept(Other(p))
    BY BytesToSendStep
  <1>2. Rest(p) # 0
    BY <1>1, OnTurn DEF Emits
  <1>3. netMsg' = netMsg /\ isGarbled' = isGarbled
    <2>1. <<>> \in Seq(ByteSet) /\ Len(<<>>) = 0
      OBVIOUS
    <2> QED BY <1>1, <1>2, <2>1, EmitsNet
  <1>4. Mapped /\ Mapped'
    BY Maps, MapsNext
  <1>5. /\ outMsg' = [outMsg EXCEPT ![p] = outMsg'[p]]
        /\ isSent' = [isSent EXCEPT ![p] = isSent'[p]]
    BY <1>1, OutChanges DEF Kept, Stands
  <1>6. outMsg[p] = Unset /\ outMsg'[p] = m
    BY <1>1 DEF BytesToSend, outMsg
  <1>7. isSent' = isSent
    BY <1>1, <1>4, <1>5 DEF Mapped
  <1>8. outMsg' = [outMsg EXCEPT ![p] = m]
    BY <1>5, <1>6
  <1>9. Msgs!Fill(p) = FillOutput(p)
    BY Fills DEF Msgs!Fill, FillOutput
  <1> HIDE DEF m
  <1>10. /\ open[p] /\ Sends(p, step[p])
         /\ impl'   = [impl EXCEPT ![p] = FillOutput(p).h]
         /\ boxed'  = boxed \cup Boxes(step[p], m)
         /\ UNCHANGED <<step, error, open, clientAuth, faults>>
    BY DEF BytesToSend, m
  <1> QED BY <1>3, <1>6, <1>7, <1>8, <1>9, <1>10
        DEF Msgs!BytesToSend, m, Msgs!Sends, Sends, Msgs!Boxes, Boxes

(* The last byte of the buffer makes the message; the others do not count. *)
LEMMA WriteImplements ==
    ASSUME IOInv, NEW p \in Peers, Write(p)
    PROVE  Msgs!Write(p) \/ Unseen
  <1> DEFINE m == outBuf[p][1].msg
             v == <<outBuf[p][written[p] + 1]>>
  <1>1. /\ IOInv' /\ Emits(p, m, v) /\ outBuf' = outBuf /\ outBuf[p] # <<>>
        /\ ~isSent[p] /\ (isSent'[p] <=> Rest(p) = 1)
    BY WriteStep
  <1>2. v \in Seq(ByteSet) /\ Len(v) = 1
    <2>1. outBuf[p] \in Seq(ByteSet) /\ written[p] \in Nat
      BY DEF IOInv, TypeInv
    <2>2. written[p] + 1 \in 1 .. Len(outBuf[p])
      BY <2>1 DEF Write
    <2>3. outBuf[p][written[p] + 1] \in ByteSet
      BY <2>1, <2>2
    <2> QED BY <2>3
  <1>3. written'[Other(p)] = written[Other(p)]
    BY <1>1 DEF Emits, Kept, Stands
  <1>4. /\ isGarbled' = isGarbled
        /\ Len(v) # Rest(p) => netMsg' = netMsg
        /\ Len(v) = Rest(p) => netMsg' = [netMsg EXCEPT ![p] = m]
    <2> HIDE DEF m, v
    <2> QED BY <1>1, <1>2, EmitsNet
  <1>5. outMsg' = outMsg
    BY <1>1 DEF outMsg
  <1>6. isSent' = [isSent EXCEPT ![p] = isSent'[p]]
    BY <1>1, <1>3, OutChanges
  <1>7. Mapped /\ Mapped'
    BY Maps, MapsNext
  <1>8. outMsg[p] = m /\ m # Unset
    BY <1>1 DEF outMsg, Emits
  <1>9. open[p] /\ UNCHANGED <<step, error, impl, open, clientAuth, boxed, faults>>
    BY DEF Write
  <1> HIDE DEF m, v
  <1>10. CASE Rest(p) = 1
    <2>1. isSent' = [isSent EXCEPT ![p] = TRUE]
      BY <1>1, <1>6, <1>7, <1>10 DEF Mapped
    <2> QED BY <1>1, <1>2, <1>4, <1>5, <1>8, <1>9, <1>10, <2>1 DEF Msgs!Write
  <1>11. CASE Rest(p) # 1
    <2>1. isSent' = isSent
      BY <1>1, <1>6, <1>7, <1>11 DEF Mapped
    <2> QED BY <1>2, <1>4, <1>5, <1>9, <1>11, <2>1 DEF Unseen
  <1> QED BY <1>10, <1>11

(* Reporting it. *)
LEMMA SendCompletedImplements ==
    ASSUME IOInv, NEW p \in Peers, SendCompleted(p)
    PROVE  Msgs!SendCompleted(p)
  <1>1. netMsg' = netMsg /\ isGarbled' = isGarbled
    BY SendCompletedStep, NetSame DEF Still
  <1>2. /\ outBuf[p] # <<>> /\ written[p] = Len(outBuf[p]) /\ outBuf'[p] = <<>>
        /\ outBuf'[Other(p)] = outBuf[Other(p)]
        /\ written'[Other(p)] = written[Other(p)]
    BY DEF SendCompleted, IOInv, TypeInv
  <1>3. outMsg[p] # Unset /\ isSent[p] /\ outMsg'[p] = Unset /\ ~isSent'[p]
    BY <1>2 DEF outMsg, isSent, IOInv, OutputInv
  <1>4. /\ outMsg' = [outMsg EXCEPT ![p] = Unset]
        /\ isSent' = [isSent EXCEPT ![p] = FALSE]
    <2>1. isSent'[p] = FALSE
      BY <1>3, MapsNext DEF Mapped
    <2> QED BY <1>2, <1>3, <2>1, OutChanges
  <1>5. /\ open[p] /\ NextStep(p)
        /\ UNCHANGED <<impl, open, clientAuth, boxed, faults>>
    BY DEF SendCompleted
  <1> QED BY <1>1, <1>3, <1>4, <1>5 DEF Msgs!SendCompleted, Msgs!NextStep, NextStep

(* copyBytesToSend() that takes all of the rest is the message's; one that *)
(* fills the buffer and leaves some of it there hands out the buffer; and  *)
(* the others are not seen.                                                *)
LEMMA CopyBytesToSendImplements ==
    ASSUME IOInv, NEW p \in Peers, NEW k \in Nat, CopyBytesToSend(p, k), Composes(p),
           impl = [r \in Peers |-> impl[r]]
    PROVE  Msgs!CopyBytesToSend(p) \/ Msgs!BytesToSend(p) \/ Unseen
  <1> DEFINE m == PendingOutput(p)[1].msg
  <1>1. /\ IOInv' /\ ~isSent[p] /\ ~isSent'[p]
        /\ outBuf[p] = <<>> => m = FillOutput(p).msg
    BY CopyBytesToSendStep
  <1>2. PICK v \in Seq(ByteSet) :
                /\ Emits(p, m, v)
                /\ Len(v) = Rest(p) => NextStep(p) /\ outBuf'[p] = <<>>
                /\ Len(v) # Rest(p) => /\ UNCHANGED <<step, error>>
                                       /\ outBuf'[p] # <<>>
    BY CopyBytesToSendStep
  <1>3. /\ open[p] /\ Sends(p, step[p]) /\ boxed' = boxed \cup Boxes(step[p], m)
        /\ impl' = [impl EXCEPT ![p] = IF outBuf[p] = <<>> THEN FillOutput(p).h ELSE @]
        /\ UNCHANGED <<open, clientAuth, faults>>
    BY DEF CopyBytesToSend
  <1> HIDE DEF m
  <1>4. /\ isGarbled' = isGarbled
        /\ Len(v) # Rest(p) => netMsg' = netMsg
        /\ Len(v) = Rest(p) => netMsg' = [netMsg EXCEPT ![p] = m]
    BY <1>1, <1>2, EmitsNet
  <1>5. /\ outMsg' = [outMsg EXCEPT ![p] = outMsg'[p]]
        /\ isSent' = [isSent EXCEPT ![p] = isSent'[p]]
    BY <1>2, OutChanges DEF Emits, Kept, Stands
  <1>6. isSent' = isSent
    BY <1>1, <1>5, Maps, MapsNext DEF Mapped
  <1>7. Msgs!Fill(p) = FillOutput(p)
    BY Fills DEF Msgs!Fill, FillOutput
  <1>8. /\ outBuf[p] = <<>> => outMsg[p] = Unset
        /\ outBuf[p] # <<>> => outMsg[p] # Unset /\ outMsg[p] = m
                               /\ Boxes(step[p], m) \subseteq boxed
    <2>1. outBuf[p] # <<>> => m = outBuf[p][1].msg
      BY <1>2 DEF Emits
    <2>2. outBuf[p] # <<>> => /\ outBuf[p][1].msg # Unset
                              /\ Boxes(step[p], outBuf[p][1].msg) \subseteq boxed
      BY DEF IOInv, OutputInv
    <2> QED BY <2>1, <2>2 DEF outMsg
  <1>9. \A s : Msgs!Boxes(s, m) = Boxes(s, m)
    BY DEF Msgs!Boxes, Boxes
  <1>10. Msgs!Sends(p, step[p])
    BY <1>3 DEF Msgs!Sends, Sends
  <1>11. CASE Len(v) = Rest(p)
    <2>1. NextStep(p) /\ outMsg'[p] = Unset /\ netMsg' = [netMsg EXCEPT ![p] = m]
      BY <1>2, <1>4, <1>11 DEF outMsg
    <2>2. Msgs!NextStep(p)
      BY <2>1 DEF Msgs!NextStep, NextStep
    <2>3. outMsg' = [outMsg EXCEPT ![p] = Unset]
      BY <1>5, <2>1
    <2>4. CASE outBuf[p] = <<>>
      BY <1>1, <1>3, <1>4, <1>6, <1>7, <1>8, <1>9, <1>10, <2>1, <2>2, <2>3, <2>4
         DEF Msgs!CopyBytesToSend
    <2>5. CASE outBuf[p] # <<>>
      BY <1>1, <1>3, <1>4, <1>6, <1>7, <1>8, <1>9, <1>10, <2>1, <2>2, <2>3, <2>5
         DEF Msgs!CopyBytesToSend
    <2> QED BY <2>4, <2>5
  <1>12. CASE Len(v) # Rest(p)
    <2>1. Len(v) < Rest(p)
      <3>1. Len(v) <= Rest(p) /\ Rest(p) \in Nat
        BY <1>2, OnTurn DEF Emits
      <3> QED BY <1>12, <3>1
    <2>2. outBuf'[p] # <<>> /\ outBuf'[p][1].msg = m
      BY <1>2, <2>1 DEF Emits
    <2>3. outMsg' = [outMsg EXCEPT ![p] = m]
      BY <1>5, <2>2 DEF outMsg
    <2>4. UNCHANGED <<step, error, netMsg>>
      BY <1>2, <1>4, <1>12
    <2>5. CASE outBuf[p] = <<>>
      BY <1>1, <1>3, <1>4, <1>6, <1>7, <1>8, <1>9, <1>10, <2>3, <2>4, <2>5
         DEF Msgs!BytesToSend
    <2>6. CASE outBuf[p] # <<>>
      <3>1. impl' = impl /\ boxed' = boxed
        BY <1>3, <1>8, <2>6
      <3>2. outMsg' = outMsg
        BY <1>8, <2>3, <2>6, Maps DEF Mapped
      <3> QED BY <1>3, <1>4, <1>6, <2>4, <3>1, <3>2 DEF Unseen
    <2> QED BY <2>5, <2>6
  <1> QED BY <1>11, <1>12

(* A complete message is read off the net. *)
LEMMA ConsumeImplements ==
    ASSUME IOInv, IOInv', NEW p \in Peers, NEW buf \in Seq(ByteSet), Reads(p),
           Len(buf) = Want(p), Consume(p, buf),
           InFlight(Other(p)) = buf \o wire'[Other(p)],
           UNCHANGED <<open, clientAuth, boxed, faults, outBuf, written>>
    PROVE  Msgs!ReadCompleted(p)
  <1> DEFINE q == Other(p)
  <1>1. q \in Peers /\ Other(q) = p
    OBVIOUS
  <1>2. /\ Receives(p, step[p]) /\ open[p] /\ step'[p] \in {step[p] + 1, 0}
        /\ outBuf' = outBuf /\ InFlight(p)' = InFlight(p)
    BY DEF Reads
  <1>3. /\ Want(p) \in Nat /\ Want(p) > 0 /\ outBuf[p] = <<>>
        /\ step[p] \in 1 .. 4
    BY <1>2, Places DEF IOInv, Placed
  <1>4. wire'[q] \in Seq(ByteSet)
    BY <1>1 DEF IOInv, TypeInv
  <1>5. /\ netMsg[q] # Unset
        /\ Message(buf) = IF isGarbled[q] THEN Noise ELSE netMsg[q]
    BY <1>3, <1>4, Arrives
  <1>6. Want(p)' = 0
    <2>1. ~isSent'[p]
      BY <1>2, <1>3 DEF isSent
    <2>2. Pos(p)' = step'[p]
      BY <2>1 DEF Pos
    <2>3. ~Receives(p, step'[p])
      <3>1. CASE p = Client
        <4>1. step[p] \in {2, 4}
          BY <1>2, <3>1 DEF Receives
        <4>2. step'[p] \in {0, 3, 5}
          BY <1>2, <4>1
        <4> QED BY <3>1, <4>2 DEF Receives
      <3>2. CASE p = Server
        <4>1. step[p] \in {1, 3}
          BY <1>2, <3>2 DEF Receives
        <4>2. step'[p] \in {0, 2, 4}
          BY <1>2, <4>1
        <4> QED BY <3>2, <4>2 DEF Receives
      <3> QED BY <3>1, <3>2
    <2> QED BY <2>2, <2>3 DEF Want, Receives
  <1>7. NetView(q)' /\ Mapped /\ Mapped'
    BY <1>1, NetViewsNext, Maps, MapsNext
  <1>8. netMsg'[q] = Unset /\ ~isGarbled'[q]
    <2> DEFINE u == InFlight(q)'
    <2>1. /\ 0 = 0 \/ Len(u) < 0 => netMsg'[q] = Unset
          /\ isGarbled'[q] <=> \E i \in 1 .. Len(u) : i <= 0 /\ ~u[i].good
      BY <1>1, <1>6, <1>7 DEF NetView
    <2> HIDE DEF u
    <2> QED BY <2>1
  <1>9. /\ netMsg' = [netMsg EXCEPT ![q] = netMsg'[q]]
        /\ isGarbled' = [isGarbled EXCEPT ![q] = isGarbled'[q]]
    BY <1>1, <1>2, NetChanges
  <1>10. /\ netMsg' = [netMsg EXCEPT ![q] = Unset]
         /\ isGarbled' = [isGarbled EXCEPT ![q] = FALSE]
    BY <1>1, <1>7, <1>8, <1>9 DEF Mapped
  <1>11. outMsg' = outMsg /\ isSent' = isSent
    BY OutSame
  <1>12. Msgs!Arrived(q) = Message(buf)
    BY <1>5 DEF Msgs!Arrived, Noise
  <1> DEFINE r == ReceivedBytes(p, step[p], impl[p], clientAuth, Message(buf))
  <1>13. /\ impl' = [impl EXCEPT ![p] = r.h]
         /\ IF r.ok THEN NextStep(p) ELSE Fails(p)
    BY <1>2 DEF Consume
  <1>14. Msgs!ReceivedBytes(p, step[p], impl[p], clientAuth, Msgs!Arrived(q)) = r
    BY <1>12, Verdicts
  <1> HIDE DEF r
  <1>15. IF r.ok THEN Msgs!NextStep(p) ELSE Msgs!Fails(p)
    BY <1>13 DEF Msgs!NextStep, Msgs!Fails, NextStep, Fails, Msgs!FailureError,
                 FailureError, ProtocolError, AuthError
  <1>16. Msgs!Receives(p, step[p])
    BY <1>2 DEF Msgs!Receives, Receives
  <1> QED BY <1>2, <1>5, <1>10, <1>11, <1>13, <1>14, <1>15, <1>16
          DEF Msgs!ReadCompleted

(* Through readCompleted() ... *)
LEMMA ReadCompletedImplements ==
    ASSUME IOInv, NEW p \in Peers, ReadCompleted(p)
    PROVE  Msgs!ReadCompleted(p)
  <1>1. /\ IOInv' /\ Reads(p) /\ Len(inBuf[p]) = Want(p)
        /\ InFlight(Other(p)) = inBuf[p] \o wire'[Other(p)]
    BY ReadCompletedStep
  <1>2. /\ Consume(p, inBuf[p])
        /\ UNCHANGED <<open, clientAuth, boxed, faults, outBuf, written>>
    BY DEF ReadCompleted
  <1>3. inBuf[p] \in Seq(ByteSet)
    BY DEF IOInv, TypeInv
  <1> QED BY <1>1, <1>2, <1>3, ConsumeImplements

(* ... or through receivedBytes(). *)
LEMMA ReceivedBytesImplements ==
    ASSUME IOInv, NEW p \in Peers, NEW k \in 1 .. Len(wire[Other(p)]),
           receivedBytes(p, k)
    PROVE  Msgs!ReadCompleted(p) \/ Unseen
  <1>1. CASE Len(Taken(p, k)) = Want(p)
    <2>1. /\ IOInv' /\ Reads(p) /\ Consume(p, Taken(p, k))
          /\ InFlight(Other(p)) = Taken(p, k) \o wire'[Other(p)]
      BY <1>1, ReceivedAllStep
    <2>2. Taken(p, k) \in Seq(ByteSet)
      BY TakesEnough
    <2>3. UNCHANGED <<open, clientAuth, boxed, faults, outBuf, written>>
      BY DEF receivedBytes
    <2> QED BY <1>1, <2>1, <2>2, <2>3, ConsumeImplements
  <1>2. CASE Len(Taken(p, k)) # Want(p)
    BY <1>2, ReceivedSomeUnseen
  <1> QED BY <1>1, <1>2

(* The end of the file. *)
LEMMA ReadFailedImplements ==
    ASSUME IOInv, NEW p \in Peers, ReadFailed(p)
    PROVE  Msgs!ReadFailed(p)
  <1> DEFINE q == Other(p)
  <1>1. q \in Peers /\ Other(q) = p
    OBVIOUS
  <1>2. IOInv' /\ ReadsEnd(p) /\ InFlight(q) = inBuf[p]
    BY ReadFailedStep
  <1>3. /\ Receives(p, step[p]) /\ open[p] /\ ~open[q] /\ InFlight(p)' = InFlight(p)
        /\ InFlight(q)' = <<>>
    BY <1>2 DEF ReadsEnd
  <1>4. Len(inBuf[p]) < Want(p)
    BY <1>3, Places DEF IOInv, Placed, ReadFailed
  <1>5. NetView(q) /\ NetView(q)' /\ Mapped /\ Mapped'
    BY <1>1, <1>2, NetViews, NetViewsNext, Maps, MapsNext
  <1>6. netMsg[q] = Unset
    BY <1>1, <1>2, <1>4, <1>5 DEF NetView
  <1>7. netMsg'[q] = Unset /\ ~isGarbled'[q]
    <2>1. (Want(p)' = 0 \/ 0 < Want(p)')
      BY <1>2, PlacesNext DEF IOInv, Placed
    <2>2. Len(<<>>) = 0
      OBVIOUS
    <2> QED BY <1>1, <1>3, <1>5, <2>1, <2>2 DEF NetView
  <1>8. /\ netMsg' = [netMsg EXCEPT ![q] = netMsg'[q]]
        /\ isGarbled' = [isGarbled EXCEPT ![q] = isGarbled'[q]]
    BY <1>1, <1>3, NetChanges
  <1>9. netMsg' = netMsg /\ isGarbled' = [isGarbled EXCEPT ![q] = FALSE]
    BY <1>1, <1>5, <1>6, <1>7, <1>8 DEF Mapped
  <1>10. outMsg' = outMsg /\ isSent' = isSent
    BY OutSame DEF ReadFailed
  <1>11. Msgs!Fails(p)
    BY DEF ReadFailed, Msgs!Fails, Fails, Msgs!FailureError, FailureError,
           ProtocolError, AuthError
  <1>12. Msgs!Receives(p, step[p])
    BY <1>3 DEF Msgs!Receives, Receives
  <1>13. UNCHANGED <<impl, open, clientAuth, boxed, faults>>
    BY DEF ReadFailed
  <1> QED BY <1>3, <1>6, <1>9, <1>10, <1>11, <1>12, <1>13 DEF Msgs!ReadFailed

(* A peer that failed, or could not write, closes. *)
LEMMA CloseImplements ==
    ASSUME IOInv, NEW p \in Peers, Close(p)
    PROVE  Msgs!Close(p) \/ Msgs!WriteFailed(p)
  <1>1. netMsg' = netMsg /\ isGarbled' = isGarbled
    BY CloseStep, NetSame
  <1>2. outMsg' = outMsg /\ isSent' = isSent
    BY OutSame DEF Close
  <1>3. /\ open[p] /\ open' = [open EXCEPT ![p] = FALSE]
        /\ UNCHANGED <<step, error, impl, clientAuth, boxed, faults>>
    BY DEF Close
  <1>4. CASE step[p] = Failed
    BY <1>1, <1>2, <1>3, <1>4 DEF Msgs!Close
  <1>5. CASE step[p] # Failed
    <2>1. ~open[Other(p)] /\ written[p] < Len(outBuf[p])
      BY <1>5 DEF Close
    <2>2. outBuf[p] \in Seq(ByteSet) /\ written[p] \in Nat
      BY DEF IOInv, TypeInv
    <2>3. outBuf[p] # <<>> /\ ~isSent[p]
      <3>1. outBuf[p] # <<>> /\ written[p] # Len(outBuf[p])
        BY <2>1, <2>2
      <3> QED BY <3>1 DEF isSent
    <2>4. outMsg[p] # Unset
      BY <2>3 DEF outMsg, IOInv, OutputInv
    <2> QED BY <1>1, <1>2, <1>3, <2>1, <2>3, <2>4 DEF Msgs!WriteFailed
  <1> QED BY <1>4, <1>5

(* A crash loses the message that was under way, or a part of it. *)
LEMMA DropImplements ==
    ASSUME IOInv, NEW p \in Peers, Drop(p)
    PROVE  Msgs!Drop(p)
  <1> DEFINE q == Other(p)
             n == Want(q)
             w == InFlight(p)
             u == InFlight(p)'
  <1>1. q \in Peers /\ Other(q) = p
    OBVIOUS
  <1>2. IOInv' /\ Truncates(p) /\ InFlight(q)' = InFlight(q)
    BY DropStep
  <1>3. /\ open[p] /\ faults < MaxFaults /\ open' = [open EXCEPT ![p] = FALSE]
        /\ faults' = faults + 1
        /\ UNCHANGED <<step, error, impl, clientAuth, boxed, outBuf, written>>
    BY DEF Drop
  <1>4. Want(q)' = n
    BY <1>1, <1>3, Keeps DEF Stands
  <1>5. NetView(p) /\ NetView(p)' /\ Mapped /\ Mapped'
    BY <1>2, NetViews, NetViewsNext, Maps, MapsNext
  <1>6. /\ n = 0 \/ Len(w) < n => netMsg[p] = Unset
        /\ n > 0 /\ Len(w) >= n => netMsg[p] = w[1].msg
        /\ isGarbled[p] <=> \E i \in 1 .. Len(w) : i <= n /\ ~w[i].good
    BY <1>5 DEF NetView
  <1>7. /\ n = 0 \/ Len(u) < n => netMsg'[p] = Unset
        /\ n > 0 /\ Len(u) >= n => netMsg'[p] = u[1].msg
        /\ isGarbled'[p] <=> \E i \in 1 .. Len(u) : i <= n /\ ~u[i].good
    BY <1>4, <1>5 DEF NetView
  <1>8. Len(u) <= Len(w) /\ \A i \in 1 .. Len(u) : u[i] = w[i]
    BY <1>2 DEF Truncates
  <1>9. Len(u) \in Nat /\ Len(w) \in Nat /\ n \in Nat
    BY <1>1, <1>2, Flights, FlightsNext, Places DEF IOInv, Flown, Placed
  <1>10. /\ netMsg' = [netMsg EXCEPT ![p] = netMsg'[p]]
         /\ isGarbled' = [isGarbled EXCEPT ![p] = isGarbled'[p]]
    BY <1>2, NetChanges
  <1>11. outMsg' = outMsg /\ isSent' = isSent
    BY <1>3, OutSame
  <1> HIDE DEF q, n, w, u
  <1>12. netMsg'[p] \in {netMsg[p], Unset}
    BY <1>6, <1>7, <1>8, <1>9
  <1>13. isGarbled'[p] => isGarbled[p]
    BY <1>6, <1>7, <1>8, <1>9
  <1>14. isGarbled'[p] \in {isGarbled[p], FALSE}
    BY <1>5, <1>13 DEF Mapped
  <1>15. \E x \in {netMsg[p], Unset}, g \in {isGarbled[p], FALSE} :
            /\ netMsg'    = [netMsg EXCEPT ![p] = x]
            /\ isGarbled' = [isGarbled EXCEPT ![p] = g]
    BY <1>10, <1>12, <1>14
  <1> QED BY <1>3, <1>11, <1>15 DEF Msgs!Drop

(* A damaged byte is one of the message on the net, or of the one whose    *)
(* first bytes are under way.                                              *)
LEMMA CorruptImplements ==
    ASSUME IOInv, NEW p \in Peers, Corrupt(p)
    PROVE  Msgs!Corrupt(p)
  <1> DEFINE q == Other(p)
             n == Want(q)
             w == InFlight(p)
             u == InFlight(p)'
  <1>1. q \in Peers /\ Other(q) = p
    OBVIOUS
  <1>2. IOInv' /\ Spoils(p) /\ InFlight(q)' = InFlight(q)
    BY CorruptStep
  <1>3. /\ open[p] /\ faults < MaxFaults /\ faults' = faults + 1
        /\ UNCHANGED <<step, error, impl, open, clientAuth, boxed, outBuf, written>>
    BY DEF Corrupt
  <1>4. Want(q)' = n
    BY <1>1, <1>3, Keeps DEF Stands
  <1>5. NetView(p) /\ NetView(p)' /\ Mapped /\ Mapped'
    BY <1>2, NetViews, NetViewsNext, Maps, MapsNext
  <1>6. /\ n = 0 \/ Len(w) < n => netMsg[p] = Unset
        /\ n > 0 /\ Len(w) >= n => netMsg[p] = w[1].msg /\ netMsg[p] # Unset
    BY <1>5 DEF NetView
  <1>7. /\ n = 0 \/ Len(u) < n => netMsg'[p] = Unset
        /\ n > 0 /\ Len(u) >= n => netMsg'[p] = u[1].msg
        /\ isGarbled'[p] <=> \E i \in 1 .. Len(u) : i <= n /\ ~u[i].good
    BY <1>4, <1>5 DEF NetView
  <1>8. PICK k \in 1 .. Len(w) :
          /\ Len(u) = Len(w) /\ w[k].msg # Unset /\ u[k].msg = w[k].msg /\ ~u[k].good
          /\ \A i \in 1 .. Len(w) : i # k => u[i] = w[i]
    BY <1>2 DEF Spoils
  <1>9. w \in Seq(ByteSet) /\ Len(w) \in Nat /\ n \in Nat /\ Placed(p) /\ Placed(q)
    BY <1>1, <1>2, Flights, Places DEF IOInv, Flown, Placed
  <1>10. /\ netMsg' = [netMsg EXCEPT ![p] = netMsg'[p]]
         /\ isGarbled' = [isGarbled EXCEPT ![p] = isGarbled'[p]]
    BY <1>2, NetChanges
  <1>11. outMsg' = outMsg /\ isSent' = isSent
    BY <1>3, OutSame
  <1>12. k <= n
    <2>1. Shape(w, n)
      BY DEF IOInv, FlightInv, FlowInv
    <2>2. k \in DOMAIN w
      BY <1>8, <1>9
    <2>3. k > n => w[k].msg = Unset
      BY <2>1, <2>2 DEF Shape, DataByte
    <2> QED BY <1>8, <1>9, <2>3
  <1>13. ASSUME Len(w) < n PROVE outMsg[p] # Unset /\ ~isSent[p]
    <2>1. Len(w) > 0 /\ w # <<>> /\ n > 0
      BY <1>8, <1>9, <1>13
    <2>2. FlightInv(p) /\ FlightInv(q) /\ OutputInv(p) /\ OutputInv(q) /\ data[p] \in Nat
      BY <1>1 DEF IOInv, TypeInv
    <2>3. step[p] # Failed
      BY <1>3, <1>13, <2>1, <2>2, <1>9 DEF FlightInv, FailedInv
    <2>4. Len(w) = Due(p)
      BY <1>3, <2>2, <2>3 DEF FlightInv, LengthInv
    <2>5. AboutToSend(p)
      <3> SUFFICES ASSUME ~AboutToSend(p) PROVE FALSE
        OBVIOUS
      <3>1. Due(p) = data[p] + IF Pos(p) = Pos(q) + 1 THEN n ELSE 0
        BY DEF Due
      <3>2. Pos(p) # Pos(q) + 1 /\ data[p] > 0
        BY <1>9, <1>13, <2>1, <2>2, <2>4, <3>1
      <3>3. step[p] = Finished /\ Pos(p) = 5
        BY <1>9, <2>2, <3>2 DEF OutputInv, Placed
      <3>4. step[q] # Failed
        BY <1>9, <2>1 DEF Placed
      <3>5. Pos(p) <= Pos(q) + 1
        BY <2>2, <2>3, <3>4 DEF FlightInv, TurnInv
      <3>6. Pos(q) = 5
        BY <1>9, <3>2, <3>3, <3>5 DEF Placed
      <3> QED BY <2>1, <3>6, <1>1 DEF Want, Receives
    <2>6. outBuf[p] # <<>>
      <3>1. Len(w) = n - Rest(p) /\ n = MessageSize(step[p])
        BY <1>3, <2>5, OnTurn
      <3> QED BY <1>9, <2>1, <3>1 DEF Rest
    <2> QED BY <2>2, <2>5, <2>6 DEF OutputInv, outMsg, AboutToSend
  <1> HIDE DEF q, n, w, u
  <1>14. isGarbled'[p] /\ netMsg'[p] = netMsg[p]
    <2>1. isGarbled'[p]
      BY <1>7, <1>8, <1>12
    <2>2. Len(w) > 0 => u[1].msg = w[1].msg
      <3>1. CASE k = 1
        BY <1>8, <3>1
      <3>2. CASE k # 1
        <4>1. 1 \in 1 .. Len(w)
          BY <1>8, <1>9
        <4> QED BY <1>8, <3>2, <4>1
      <3> QED BY <3>1, <3>2
    <2>3. Len(w) > 0 /\ Len(u) = Len(w)
      BY <1>8, <1>9
    <2> QED BY <1>6, <1>7, <1>9, <2>1, <2>2, <2>3
  <1>15. netMsg' = netMsg /\ isGarbled' = [isGarbled EXCEPT ![p] = TRUE]
    BY <1>5, <1>10, <1>14 DEF Mapped
  <1>16. netMsg[p] # Unset \/ (outMsg[p] # Unset /\ ~isSent[p])
    BY <1>6, <1>8, <1>9, <1>12, <1>13
  <1> QED BY <1>3, <1>11, <1>15, <1>16 DEF Msgs!Corrupt

(* The assumptions of the message level are those of this one. *)
LEMMA SameAssumptions ==
    MP!UnsetAssumption /\ MP!KeysAssumption /\ MP!TermsAssumption /\ MP!MaxFaultsAssumption
    /\ MP!Messages = Messages
  <1>1. MP!UnsetAssumption /\ MP!KeysAssumption
    BY UnsetAssumption, KeysAssumption DEF MP!UnsetAssumption, MP!KeysAssumption
  <1>2. MP!AB = AB
    BY DEF AB, MP!AB, DH, MP!DH
  <1>3. \A K, X, Y : MP!ProofOf(K, X, Y) = ProofOf(K, X, Y)
    BY <1>2 DEF MP!ProofOf, ProofOf, sign, hash, MP!sign, MP!hash
  <1>4. \A K, X, Y : MP!AckKey(K, X, Y) = AckKey(K, X, Y)
    BY <1>2 DEF MP!AckKey, AckKey, DH, MP!DH, hash, MP!hash
  <1>5. MP!Proofs = Proofs
    BY <1>3 DEF MP!Proofs, Proofs
  <1>6. MP!Challenges = Challenges
    BY DEF MP!Challenges, Challenges, MP!hmac, hmac
  <1>7. MP!Auths = Auths
    BY <1>2, <1>3 DEF MP!Auths, Auths, MP!box, box, hash, MP!hash, DH, MP!DH
  <1>8. MP!Acks = Acks
    BY <1>2, <1>3, <1>4 DEF MP!Acks, Acks, MP!box, box, hash, MP!hash, MP!sign, sign
  <1>9. MP!Messages = Messages
    BY <1>6, <1>7, <1>8 DEF MP!Messages, Messages
  <1>10. MP!TermsAssumption
    BY TermsAssumption, <1>2, <1>3, <1>4, <1>5, <1>9
       DEF TermsAssumption, MP!TermsAssumption, sign, MP!sign, hash, MP!hash
  <1>11. MP!MaxFaultsAssumption
    BY MaxFaultsAssumption DEF MP!MaxFaultsAssumption
  <1> QED BY <1>1, <1>9, <1>10, <1>11

(* What the message level gives: every message made is one of the protocol. *)
LEMMA Compose == MP!IInv => /\ \A p \in Peers : Composes(p)
                            /\ impl = [r \in Peers |-> impl[r]]
  <1> SUFFICES ASSUME MP!IInv PROVE /\ \A p \in Peers : Composes(p)
                                    /\ impl = [r \in Peers |-> impl[r]]
    OBVIOUS
  <1>1. \A p \in Peers : MP!Sends(p, step[p]) => MP!Fill(p).msg \in MP!Messages
    BY MP!FillIsMessage, SameAssumptions
       DEF MP!TermsAssumption, MP!MaxFaultsAssumption, MP!UnsetAssumption, MP!KeysAssumption
  <1>2. \A p \in Peers : MP!Fill(p) = FillOutput(p) /\ MP!Sends(p, step[p]) = Sends(p, step[p])
    BY Fills DEF MP!Fill, FillOutput, MP!Sends, Sends
  <1>3. impl = [r \in Peers |-> impl[r]]
    BY DEF MP!IInv, MP!TypeOK
  <1> QED BY <1>1, <1>2, <1>3, SameAssumptions DEF Composes

(* Initially the buffers are empty and nothing is under way ... *)
LEMMA InitIO == Init => IOInv
  <1> SUFFICES ASSUME Init PROVE IOInv
    OBVIOUS
  <1>1. TypeInv
    <2>1. <<>> \in Seq(ByteSet)
      OBVIOUS
    <2> QED BY <2>1 DEF Init, TypeInv, Steps
  <1>2. BuffersMatchStep /\ \A p \in Peers : OutputInv(p)
    <2>1. \A p \in Peers : byteCountNeeded(p) \in Nat
      BY Sizes DEF Init, byteCountNeeded
    <2>2. Len(<<>>) = 0
      OBVIOUS
    <2> QED BY <2>1, <2>2 DEF Init, BuffersMatchStep, BuffersMatch, OutputInv
  <1>3. \A p \in Peers : Placed(p) /\ Flown(p)
    BY <1>1, <1>2, Places, Flights
  <1>4. ASSUME NEW p \in Peers PROVE FlightInv(p)
    <2>1. step[p] = 1 /\ step[Other(p)] = 1 /\ ~isSent[p] /\ ~isSent[Other(p)] /\ data[p] = 0
      BY DEF Init, isSent
    <2>2. Pos(p) = 1 /\ Pos(Other(p)) = 1
      BY <2>1 DEF Pos
    <2>3. InFlight(p) = <<>> /\ Len(InFlight(p)) = 0
      <3>1. InFlight(p) = <<>> \o <<>>
        BY <2>1 DEF Init, InFlight
      <3> QED BY <3>1
    <2>4. TurnInv(p)
      BY <2>1, <2>2 DEF TurnInv
    <2>5. FlowInv(p)
      BY <2>3 DEF FlowInv, Shape
    <2>6. Due(p) = 0
      <3>1. CASE AboutToSend(p)
        <4>1. outBuf[p] = <<>>
          BY DEF Init
        <4>2. Want(Other(p)) = MessageSize(step[p]) /\ Want(Other(p)) \in Nat
          BY <1>3, <2>1, <2>2, <3>1 DEF Placed, AboutToSend
        <4> QED BY <3>1, <4>1, <4>2 DEF Due, Rest
      <3>2. CASE ~AboutToSend(p)
        BY <2>1, <2>2, <3>2 DEF Due
      <3> QED BY <3>1, <3>2
    <2>7. LengthInv(p)
      BY <2>3, <2>6 DEF LengthInv
    <2>8. FailedInv(p)
      BY <2>1 DEF FailedInv
    <2> QED BY <2>4, <2>5, <2>7, <2>8 DEF FlightInv
  <1> QED BY <1>1, <1>2, <1>4 DEF IOInv

(* ... and neither is a message. *)
LEMMA InitImplements == Init => Msgs!Init /\ MP!Init /\ MP!IInv
  <1> SUFFICES ASSUME Init PROVE Msgs!Init /\ MP!Init /\ MP!IInv
    OBVIOUS
  <1>1. ASSUME NEW p \in Peers
        PROVE  outMsg[p] = Unset /\ ~isSent[p] /\ netMsg[p] = Unset /\ ~isGarbled[p]
    <2>1. outMsg[p] = Unset /\ ~isSent[p]
      BY DEF Init, outMsg, isSent
    <2>2. InFlight(p) = <<>>
      <3>1. InFlight(p) = <<>> \o <<>>
        BY DEF Init, InFlight
      <3> QED BY <3>1
    <2>3. OnNet(p) = {}
      BY <2>2 DEF OnNet
    <2> QED BY <2>1, <2>3 DEF netMsg, isGarbled
  <1>2. /\ outMsg = [p \in Peers |-> Unset] /\ isSent = [p \in Peers |-> FALSE]
        /\ netMsg = [p \in Peers |-> Unset] /\ isGarbled = [p \in Peers |-> FALSE]
    BY <1>1, Maps DEF Mapped
  <1>3. /\ step  = [p \in Peers |-> ClientChallenge]
        /\ error = [p \in Peers |-> NoError]
        /\ \E c \in ClientHandshakes, s \in ServerHandshakes :
                impl = [p \in Peers |-> IF p = Client THEN c ELSE s]
        /\ open = [p \in Peers |-> TRUE]
        /\ clientAuth \in {Unset} \cup SUBSET Keys
        /\ boxed = {}
        /\ faults = 0
    BY DEF Init
  <1>4. /\ Msgs!ClientHandshakes = ClientHandshakes /\ MP!ClientHandshakes = ClientHandshakes
        /\ Msgs!ServerHandshakes = ServerHandshakes /\ MP!ServerHandshakes = ServerHandshakes
    BY DEF Msgs!ClientHandshakes, ClientHandshakes, MP!ClientHandshakes, Msgs!handshake,
           handshake, MP!handshake, Msgs!setServerPublicKey, setServerPublicKey,
           MP!setServerPublicKey, Msgs!ServerHandshakes, MP!ServerHandshakes, ServerHandshakes
  <1>5. Msgs!Init
    BY <1>2, <1>3, <1>4 DEF Msgs!Init, NoError, Msgs!NoError
  <1>6. MP!Init
    BY <1>2, <1>3, <1>4 DEF MP!Init, NoError, MP!NoError
  <1>7. MP!Init => MP!IInv
    BY MP!InitHolds, SameAssumptions
       DEF MP!TermsAssumption, MP!MaxFaultsAssumption, MP!UnsetAssumption, MP!KeysAssumption
  <1> QED BY <1>5, <1>6, <1>7

(* A step that changes nothing. *)
LEMMA StutterStep == IOInv /\ UNCHANGED vars => IOInv' /\ Unseen
  <1> SUFFICES ASSUME IOInv, UNCHANGED vars PROVE IOInv' /\ Unseen
    OBVIOUS
  <1>1. UNCHANGED <<step, error, impl, open, clientAuth, boxed, faults, style,
                    inBuf, asked, outBuf, written, wire, data>>
    BY DEF vars
  <1>2. \A r \in Peers : InFlight(r)' = InFlight(r)
    BY <1>1 DEF InFlight
  <1>3. outMsg' = outMsg /\ isSent' = isSent /\ netMsg' = netMsg /\ isGarbled' = isGarbled
    BY <1>1, <1>2, NetSame, OutSame
  <1>4. Unseen
    BY <1>1, <1>3 DEF Unseen
  <1>5. \A r \in Peers : Kept(r) /\ Untouched(r)
    BY <1>1 DEF Kept, Stands, Untouched
  <1>6. \A r \in Peers : FlightInv(r)'
    BY <1>2, <1>5, KeptPlace, FlightKept DEF IOInv
  <1>7. \A r \in Peers : Buffered(r)'
    BY <1>5, UntouchedBuffers DEF IOInv, Buffered, BuffersMatchStep
  <1>8. TypeInv'
    BY <1>1 DEF IOInv, TypeInv
  <1> QED BY <1>4, <1>6, <1>7, <1>8, Together

(* Every step keeps the invariant, and is a step of the message level or   *)
(* none.                                                                   *)
LEMMA OwnStep ==
    ASSUME IOInv, MP!IInv, NEW p \in Peers, Own(p)
    PROVE  IOInv' /\ (Msgs!Own(p) \/ Unseen)
  <1>1. Composes(p) /\ impl = [r \in Peers |-> impl[r]]
    BY Compose
  <1>2. CASE BytesToRead(p)
    BY <1>2, BytesToReadStep, BytesToReadUnseen
  <1>3. CASE Fill(p)
    BY <1>3, FillStep, FillUnseen
  <1>4. CASE ReadCompleted(p)
    BY <1>4, ReadCompletedStep, ReadCompletedImplements DEF Msgs!Own
  <1>5. CASE \E n \in 1 .. Len(wire[Other(p)]) : receivedBytes(p, n)
    <2>1. PICK n \in 1 .. Len(wire[Other(p)]) : receivedBytes(p, n)
      BY <1>5
    <2>2. IOInv'
      BY <2>1, ReceivedAllStep, ReceivedSomeStep
    <2> QED BY <2>1, <2>2, ReceivedBytesImplements DEF Msgs!Own
  <1>6. CASE ReadFailed(p)
    BY <1>6, ReadFailedStep, ReadFailedImplements DEF Msgs!Own
  <1>7. CASE BytesToSend(p)
    BY <1>1, <1>7, BytesToSendStep, BytesToSendImplements DEF Msgs!Own
  <1>8. CASE Write(p)
    BY <1>8, WriteStep, WriteImplements DEF Msgs!Own
  <1>9. CASE SendCompleted(p)
    BY <1>9, SendCompletedStep, SendCompletedImplements DEF Msgs!Own
  <1>10. CASE \E n \in 0 .. AuthSize : CopyBytesToSend(p, n)
    <2>1. PICK n \in 0 .. AuthSize : CopyBytesToSend(p, n)
      BY <1>10
    <2>2. n \in Nat
      BY SizesAssumption
    <2> QED BY <1>1, <2>1, <2>2, CopyBytesToSendStep, CopyBytesToSendImplements
            DEF Msgs!Own
  <1>11. CASE SendData(p)
    BY <1>11, SendDataStep, SendDataUnseen
  <1>12. CASE Close(p)
    BY <1>12, CloseStep, CloseImplements DEF Msgs!Own
  <1> QED BY <1>2, <1>3, <1>4, <1>5, <1>6, <1>7, <1>8, <1>9, <1>10, <1>11, <1>12
          DEF Own

(* The same of Next: with the invariant of the bytes, Handshake's own      *)
(* invariant is preserved under the mapping.                               *)
LEMMA NextImplements ==
    IOInv /\ MP!IInv /\ [Next]_vars => IOInv' /\ MP!IInv' /\ [Msgs!Next]_(Msgs!vars)
  <1> SUFFICES ASSUME IOInv, MP!IInv, [Next]_vars
               PROVE  IOInv' /\ MP!IInv' /\ [Msgs!Next]_(Msgs!vars)
    OBVIOUS
  <1>1. Unseen => UNCHANGED Msgs!vars
    BY DEF Unseen, Msgs!vars
  <1>2. IOInv' /\ [Msgs!Next]_(Msgs!vars)
    <2>1. CASE UNCHANGED vars
      BY <1>1, <2>1, StutterStep
    <2>2. CASE Done
      BY <1>1, <2>2, StutterStep DEF Done
    <2>3. ASSUME NEW p \in Peers, Own(p) PROVE IOInv' /\ [Msgs!Next]_(Msgs!vars)
      BY <1>1, <2>3, OwnStep DEF Msgs!Next
    <2>4. ASSUME NEW p \in Peers, Drop(p) PROVE IOInv' /\ [Msgs!Next]_(Msgs!vars)
      BY <2>4, DropStep, DropImplements DEF Msgs!Next
    <2>5. ASSUME NEW p \in Peers, Corrupt(p) PROVE IOInv' /\ [Msgs!Next]_(Msgs!vars)
      BY <2>5, CorruptStep, CorruptImplements DEF Msgs!Next
    <2> QED BY <2>1, <2>2, <2>3, <2>4, <2>5 DEF Next
  <1>3. [MP!Next]_(MP!vars)
    BY <1>2, Bridge
  <1>4. MP!IInv /\ [MP!Next]_(MP!vars) => MP!IInv'
    BY MP!NextPreserves, SameAssumptions
       DEF MP!TermsAssumption, MP!MaxFaultsAssumption, MP!UnsetAssumption, MP!KeysAssumption
  <1> QED BY <1>2, <1>3, <1>4

(* Through every cut, crash and damaged byte, the bytes in the two buffers *)
(* and on the wire are those of the one message whose turn it is, and      *)
(* Handshake's invariant holds of the messages they make up.               *)
THEOREM BytesInvariant == Spec => [](IOInv /\ MP!IInv)
  <1>1. Init => IOInv /\ MP!IInv
    BY InitIO, InitImplements
  <1>2. (IOInv /\ MP!IInv) /\ [Next]_vars => (IOInv /\ MP!IInv)'
    BY NextImplements
  <1> QED BY <1>1, <1>2, PTL DEF Spec

(* Class Handshake with its buffers, for messages of any size, through     *)
(* either interface and in pieces of any size, takes the steps of the      *)
(* message-level specification and no others.                              *)
THEOREM BytesImplementMessages == Spec => ImplementsMessages
  <1>1. Init => Msgs!Init
    BY InitImplements
  <1>2. (IOInv /\ MP!IInv) /\ [Next]_vars => [Msgs!Next]_(Msgs!vars)
    BY NextImplements
  <1> QED BY <1>1, <1>2, BytesInvariant, PTL DEF Spec, ImplementsMessages, Msgs!Spec

(* Whatever is proved of Handshake holds of its bytes: the agreement of    *)
(* the two peers, the server's authentication of the client, boxes that    *)
(* never share a key, strict alternation, errors that mean what they say,  *)
(* and verdicts that stand.                                                *)
THEOREM BytesInherit ==
    Spec => /\ [](MP!Agreement /\ MP!ServerAuthenticatesClient)
            /\ [](MP!EachKeyOnce /\ MP!LockStep /\ MP!ErrorMeaning)
            /\ MP!VerdictIsFinal
  <1>1. Init => MP!Init
    BY InitImplements
  <1>2. (IOInv /\ MP!IInv) /\ [Next]_vars => [MP!Next]_(MP!vars)
    BY NextImplements, Bridge
  <1>3. Spec => MP!Spec
    BY <1>1, <1>2, BytesInvariant, PTL DEF Spec, MP!Spec
  <1>4. MP!Spec => [](MP!Agreement /\ MP!ServerAuthenticatesClient)
    BY MP!AgreementHolds, MP!ServerAuthentication, SameAssumptions, PTL
  <1>5. MP!Spec => [](MP!EachKeyOnce /\ MP!LockStep /\ MP!ErrorMeaning)
    BY MP!KeysUsedOnce, MP!StrictAlternation, MP!ErrorsMeanWhatTheySay,
       SameAssumptions, PTL
  <1>6. MP!Spec => MP!VerdictIsFinal
    BY MP!VerdictStands, SameAssumptions, PTL
  <1> QED BY <1>3, <1>4, <1>5, <1>6, PTL

(* readCompleted() and sendCompleted() never throw: the input buffer never *)
(* holds more than the message awaited, and output waits in a sending step *)
(* only.                                                                   *)
THEOREM BuffersKeepStep == Spec => []BuffersMatchStep
  <1>1. IOInv => BuffersMatchStep
    BY DEF IOInv
  <1> QED BY <1>1, BytesInvariant, PTL

(* What is read, up to the size awaited, is of a message. *)
LEMMA InputShape ==
    ASSUME IOInv, NEW p \in Peers, NEW buf \in Seq(ByteSet), NEW rest \in Seq(ByteSet)
    PROVE  InFlight(Other(p)) = buf \o rest /\ Len(buf) <= Want(p)
           => \A i \in DOMAIN buf : buf[i].msg # Unset
  <1> DEFINE w == InFlight(Other(p))
             n == Want(p)
  <1>1. Shape(w, n)
    BY DEF IOInv, FlightInv, FlowInv
  <1>2. n \in Nat
    BY Places DEF IOInv, Placed
  <1> HIDE DEF w, n
  <1> SUFFICES ASSUME w = buf \o rest, Len(buf) <= n, NEW i \in DOMAIN buf
               PROVE  buf[i].msg # Unset
    BY Zenon DEF w, n
  <1>3. /\ w \in Seq(ByteSet) /\ Len(w) = Len(buf) + Len(rest)
        /\ \A k \in 1 .. Len(buf) : w[k] = buf[k]
    BY Concatenation
  <1>4. i \in 1 .. Len(buf) /\ i \in DOMAIN w /\ i <= n
    BY <1>2, <1>3
  <1> QED BY <1>1, <1>3, <1>4 DEF Shape

(* No peer fails, or gets done, and nothing new is under way from one that *)
(* has failed: what was left stays.                                        *)
LEMMA LeftKept ==
    ASSUME LeftInv,
           \A r \in Peers : step'[r] = Failed =>
               /\ step[r] = Failed /\ inBuf'[r] = inBuf[r]
               /\ Pos(Other(r))' = Finished => Pos(Other(r)) = Finished
               /\ InFlight(r) = <<>> => InFlight(r)' = <<>>
    PROVE  LeftInv'
  BY Zenon DEF LeftInv

(* A step that moves bytes, if any, into the buffer of a peer that reads. *)
LEMMA StillLeft ==
    ASSUME LeftInv, Still, NEW p \in Peers,
           inBuf'[p] = inBuf[p] \/ step[p] # Failed,
           inBuf'[Other(p)] = inBuf[Other(p)]
    PROVE  LeftInv'
  <1> SUFFICES ASSUME NEW r \in Peers, step'[r] = Failed
               PROVE  /\ step[r] = Failed /\ inBuf'[r] = inBuf[r]
                      /\ Pos(Other(r))' = Finished => Pos(Other(r)) = Finished
                      /\ InFlight(r) = <<>> => InFlight(r)' = <<>>
    BY LeftKept, Zenon
  <1>1. SamePlace(r) /\ SamePlace(Other(r)) /\ InFlight(r)' = InFlight(r)
    BY DEF Still
  <1>2. step[r] = Failed
    BY <1>1 DEF SamePlace
  <1>3. inBuf'[r] = inBuf[r]
    BY <1>2
  <1> QED BY <1>1, <1>2, <1>3 DEF SamePlace

(* Sending: neither peer has failed. *)
LEMMA EmitsLeft ==
    ASSUME IOInv, NEW p \in Peers, NEW m, NEW v, Emits(p, m, v)
    PROVE  LeftInv'
  <1>1. step[Other(p)] # Failed /\ step'[Other(p)] = step[Other(p)] /\ step'[p] # Failed
    BY OnTurn DEF Emits, Kept, Stands
  <1>2. \A r \in Peers : step'[r] # Failed
    BY <1>1
  <1> QED BY <1>2, Zenon DEF LeftInv

(* Reading a message: the other one has not failed; what is refused stays  *)
(* in the buffer, and is a message.                                        *)
LEMMA ReadsLeft ==
    ASSUME IOInv, NEW p \in Peers, NEW buf \in Seq(ByteSet), NEW rest \in Seq(ByteSet),
           Reads(p), Consume(p, buf), Len(buf) = Want(p), InFlight(Other(p)) = buf \o rest
    PROVE  LeftInv'
  <1>1. /\ step[Other(p)] # Failed /\ step'[Other(p)] = step[Other(p)]
        /\ InFlight(p)' = InFlight(p) /\ InFlight(p) = <<>>
    BY OnRead DEF Reads, Kept, Stands
  <1>2. inBuf'[p] \in {<<>>, buf}
    <2>1. inBuf \in [Peers -> Seq(ByteSet)]
      BY DEF IOInv, TypeInv
    <2> QED BY <2>1 DEF Consume
  <1>3. Want(p) \in Nat
    BY Places DEF IOInv, Placed
  <1>4. \A i \in DOMAIN buf : buf[i].msg # Unset
    <2>1. Len(buf) <= Want(p)
      BY <1>3
    <2> QED BY <2>1, InputShape, Zenon
  <1>5. \A i \in DOMAIN inBuf'[p] : inBuf'[p][i].msg # Unset
    <2>1. CASE inBuf'[p] = <<>>
      BY <2>1
    <2>2. CASE inBuf'[p] = buf
      BY <1>4, <2>2, Zenon
    <2> QED BY <1>2, <2>1, <2>2
  <1>6. ASSUME NEW r \in Peers, step'[r] = Failed PROVE r = p
    BY <1>1, <1>6
  <1> QED BY <1>1, <1>5, <1>6 DEF LeftInv

(* The end of the file: a part of a message is left. *)
LEMMA ReadFailedLeft ==
    ASSUME IOInv, LeftInv, NEW p \in Peers, ReadFailed(p)
    PROVE  LeftInv'
  <1> DEFINE q == Other(p)
  <1>1. q \in Peers /\ Other(q) = p
    OBVIOUS
  <1>2. IOInv' /\ ReadsEnd(p) /\ InFlight(q) = inBuf[p]
    BY ReadFailedStep
  <1>3. /\ Receives(p, step[p]) /\ Kept(q) /\ InFlight(p)' = InFlight(p)
        /\ InFlight(q)' = <<>> /\ step'[p] = 0
    BY <1>2 DEF ReadsEnd
  <1>4. /\ Len(inBuf[p]) <= Want(p) /\ Pos(p) = step[p] /\ step[p] \in 1 .. 4
        /\ ~AboutToSend(p) /\ inBuf[p] \in Seq(ByteSet)
    <2>1. Placed(p) /\ inBuf[p] \in Seq(ByteSet)
      BY Places DEF IOInv, TypeInv
    <2>2. Len(inBuf[p]) < byteCountNeeded(p)
      BY DEF ReadFailed
    <2>3. Len(inBuf[p]) \in Nat
      BY <2>1
    <2> QED BY <1>3, <2>1, <2>2, <2>3 DEF Placed
  <1>5. inBuf' = inBuf
    BY DEF ReadFailed
  <1>6. \A i \in DOMAIN inBuf'[p] : inBuf'[p][i].msg # Unset
    <2>1. <<>> \in Seq(ByteSet) /\ inBuf[p] \o <<>> = inBuf[p]
      BY <1>4
    <2>2. InFlight(Other(p)) = inBuf[p] \o <<>>
      BY <1>2, <2>1
    <2> QED BY <1>4, <1>5, <2>1, <2>2, InputShape
  <1>7. Pos(p)' = 0 /\ Pos(q)' = Pos(q) /\ step'[q] = step[q]
    BY <1>1, <1>2, <1>3, PlacesNext, Keeps DEF IOInv, Placed, Kept, Stands
  <1>8. Pos(q) = Finished => InFlight(p) = <<>>
    <2> SUFFICES ASSUME Pos(q) = Finished PROVE InFlight(p) = <<>>
      OBVIOUS
    <2>1. step[q] # Failed
      BY <1>1, Places DEF IOInv, Placed
    <2>2. Len(InFlight(p)) <= Due(p)
      BY <1>4, <2>1 DEF IOInv, FlightInv, LengthInv
    <2>3. data[p] = 0
      BY <1>4, SMTT(60) DEF IOInv, OutputInv, TypeInv
    <2>4. Due(p) = 0
      BY <1>4, <2>3 DEF Due
    <2> QED BY <2>2, <2>4, Flights DEF IOInv, Flown
  <1>9. ASSUME NEW r \in Peers, step'[r] = Failed
        PROVE  /\ \A i \in DOMAIN inBuf'[r] : inBuf'[r][i].msg # Unset
               /\ Pos(Other(r))' = Finished => InFlight(r)' = <<>>
    <2>1. CASE r = p
      BY <1>3, <1>6, <1>7, <1>8, <2>1
    <2>2. CASE r = q
      BY <1>1, <1>3, <1>5, <1>7, <1>9, <2>2 DEF LeftInv
    <2> QED BY <2>1, <2>2
  <1> QED BY <1>9, Zenon DEF LeftInv

(* Nothing that is left to one that is done, or from one that failed, is   *)
(* touched by the others.                                                  *)
LEMMA LeftNext == IOInv /\ LeftInv /\ MP!IInv /\ [Next]_vars => LeftInv'
  <1> SUFFICES ASSUME IOInv, LeftInv, MP!IInv, [Next]_vars PROVE LeftInv'
    OBVIOUS
  <1>1. ASSUME NEW p \in Peers, BytesToRead(p) PROVE LeftInv'
    BY <1>1, BytesToReadStep, StillLeft DEF BytesToRead
  <1>2. ASSUME NEW p \in Peers, Fill(p) PROVE LeftInv'
    <2>1. inBuf'[Other(p)] = inBuf[Other(p)]
      BY <1>2 DEF Fill, IOInv, TypeInv
    <2>2. Receives(p, step[p])
      <3>1. byteCountNeeded(p) > Len(inBuf[p]) /\ Len(inBuf[p]) \in Nat
        BY <1>2 DEF Fill, IOInv, TypeInv
      <3> QED BY <3>1 DEF byteCountNeeded
    <2>3. step[p] # Failed
      BY <2>2 DEF Receives
    <2> QED BY <1>2, <2>1, <2>3, FillStep, StillLeft
  <1>3. ASSUME NEW p \in Peers, ReadCompleted(p) PROVE LeftInv'
    <2>1. /\ IOInv' /\ Reads(p) /\ Len(inBuf[p]) = Want(p)
          /\ InFlight(Other(p)) = inBuf[p] \o wire'[Other(p)]
      BY <1>3, ReadCompletedStep
    <2>2. Consume(p, inBuf[p])
      BY <1>3 DEF ReadCompleted
    <2>3. inBuf[p] \in Seq(ByteSet) /\ wire'[Other(p)] \in Seq(ByteSet)
      BY <2>1 DEF IOInv, TypeInv
    <2> QED BY <2>1, <2>2, <2>3, ReadsLeft
  <1>4. ASSUME NEW p \in Peers, NEW k \in 1 .. Len(wire[Other(p)]), receivedBytes(p, k)
        PROVE  LeftInv'
    <2>1. CASE Len(Taken(p, k)) = Want(p)
      <3>1. /\ IOInv' /\ Reads(p) /\ Consume(p, Taken(p, k))
            /\ InFlight(Other(p)) = Taken(p, k) \o wire'[Other(p)]
        BY <1>4, <2>1, ReceivedAllStep
      <3>2. Taken(p, k) \in Seq(ByteSet) /\ wire'[Other(p)] \in Seq(ByteSet)
        BY <1>4, <3>1, TakesEnough DEF IOInv, TypeInv
      <3> QED BY <2>1, <3>1, <3>2, ReadsLeft
    <2>2. CASE Len(Taken(p, k)) # Want(p)
      <3>1. IOInv' /\ Still
        BY <1>4, <2>2, ReceivedSomeStep
      <3>2. Receives(p, step[p]) /\ Len(Taken(p, k)) < byteCountNeeded(p)
        <4>1. /\ Receives(p, step[p]) /\ byteCountNeeded(p) = Want(p)
              /\ Want(p) \in Nat /\ Len(Taken(p, k)) <= Want(p)
              /\ Len(Taken(p, k)) \in Nat
          BY <1>4, TakesEnough
        <4> QED BY <2>2, <4>1
      <3>3. step[p] # Failed
        BY <3>2 DEF Receives
      <3>4. inBuf'[Other(p)] = inBuf[Other(p)]
        <4>1. inBuf' = [inBuf EXCEPT ![p] = Taken(p, k)]
          BY <1>4, <3>2 DEF receivedBytes, Taken
        <4> QED BY <4>1 DEF IOInv, TypeInv
      <3> QED BY <3>1, <3>3, <3>4, StillLeft
    <2> QED BY <2>1, <2>2
  <1>5. ASSUME NEW p \in Peers, ReadFailed(p) PROVE LeftInv'
    BY <1>5, ReadFailedLeft
  <1>6. ASSUME NEW p \in Peers, BytesToSend(p) PROVE LeftInv'
    BY <1>6, Compose, BytesToSendStep, EmitsLeft
  <1>7. ASSUME NEW p \in Peers, Write(p) PROVE LeftInv'
    BY <1>7, WriteStep, EmitsLeft
  <1>8. ASSUME NEW p \in Peers, SendCompleted(p) PROVE LeftInv'
    BY <1>8, SendCompletedStep, StillLeft DEF SendCompleted
  <1>9. ASSUME NEW p \in Peers, NEW k \in 0 .. AuthSize, CopyBytesToSend(p, k)
        PROVE  LeftInv'
    <2>1. k \in Nat
      BY SizesAssumption
    <2> QED BY <1>9, <2>1, Compose, CopyBytesToSendStep, EmitsLeft
  <1>10. ASSUME NEW p \in Peers, SendData(p) PROVE LeftInv'
    <2>1. SendsDataByte(p)
      BY <1>10, SendDataStep
    <2>2. /\ Stands(p) /\ Stands(Other(p)) /\ step[p] # 0
          /\ InFlight(Other(p))' = InFlight(Other(p))
      BY <2>1 DEF SendsDataByte, Kept
    <2>3. Pos(p)' = Pos(p)
      BY <2>2, Keeps
    <2>4. inBuf' = inBuf /\ step' = step
      BY <1>10 DEF SendData
    <2>5. ASSUME NEW r \in Peers, step'[r] = Failed PROVE r = Other(p)
      BY <2>2, <2>4, <2>5
    <2>6. Other(Other(p)) = p
      OBVIOUS
    <2> QED BY <2>2, <2>3, <2>4, <2>5, <2>6, LeftKept
  <1>11. ASSUME NEW p \in Peers, Close(p) PROVE LeftInv'
    <2>1. \A r \in Peers : Stands(r) /\ inBuf'[r] = inBuf[r] /\ InFlight(r)' = InFlight(r)
      BY <1>11, CloseStep DEF Close, Stands
    <2>2. \A r \in Peers : Pos(r)' = Pos(r) /\ step'[r] = step[r]
      BY <2>1, Keeps DEF Stands
    <2> QED BY <2>1, <2>2, LeftKept
  <1>12. ASSUME NEW p \in Peers, Drop(p) \/ Corrupt(p) PROVE LeftInv'
    <2>1. /\ IOInv' /\ (Truncates(p) \/ Spoils(p))
          /\ InFlight(Other(p))' = InFlight(Other(p))
      BY <1>12, DropStep, CorruptStep
    <2>2. Flown(p) /\ Flown(p)'
      BY <2>1, Flights, FlightsNext DEF IOInv
    <2>3. InFlight(p) = <<>> => InFlight(p)' = <<>>
      <3>1. InFlight(p) = <<>> => Len(InFlight(p)) = 0
        OBVIOUS
      <3>2. Len(InFlight(p)') <= Len(InFlight(p))
        BY <2>1, <2>2 DEF Truncates, Spoils, Flown
      <3> QED BY <2>2, <3>1, <3>2 DEF Flown
    <2>4. \A r \in Peers : Stands(r) /\ inBuf'[r] = inBuf[r]
      BY <1>12 DEF Drop, Corrupt, Stands
    <2>5. \A r \in Peers : Pos(r)' = Pos(r) /\ step'[r] = step[r]
      BY <2>4, Keeps DEF Stands
    <2>6. \A r \in Peers : r = p \/ r = Other(p)
      OBVIOUS
    <2> QED BY <2>1, <2>3, <2>4, <2>5, <2>6, LeftKept
  <1>13. CASE UNCHANGED vars
    <2>1. UNCHANGED <<step, inBuf, outBuf, written, wire>>
      BY <1>13 DEF vars
    <2>2. \A r \in Peers : Stands(r) /\ inBuf'[r] = inBuf[r] /\ InFlight(r)' = InFlight(r)
      BY <2>1 DEF Stands, InFlight
    <2>3. \A r \in Peers : Pos(r)' = Pos(r) /\ step'[r] = step[r]
      BY <2>2, Keeps DEF Stands
    <2> QED BY <2>2, <2>3, LeftKept
  <1> QED BY <1>1, <1>2, <1>3, <1>4, <1>5, <1>6, <1>7, <1>8, <1>9, <1>10, <1>11,
             <1>12, <1>13 DEF Next, Own, Done

(* The two invariants give StreamIntact. *)
LEMMA LeftIntact == IOInv /\ LeftInv => StreamIntact
  <1> SUFFICES ASSUME IOInv, LeftInv, NEW p \in Peers
               PROVE  /\ \A i \in DOMAIN inBuf[p] : inBuf[p][i].msg # Unset
                      /\ step[p] = Finished =>
                           LET w == wire[Other(p)]
                           IN  /\ w = [i \in DOMAIN w |-> DataByte(i)]
                               /\ open[Other(p)] => Len(w) = data[Other(p)]
    BY Zenon DEF StreamIntact
  <1> DEFINE q == Other(p)
             w == wire[q]
  <1>1. q \in Peers /\ Other(q) = p
    OBVIOUS
  <1>2. /\ Placed(p) /\ Placed(q) /\ Flown(q) /\ FlightInv(p) /\ FlightInv(q)
        /\ OutputInv(q) /\ BuffersMatch(p) /\ data[q] \in Nat
        /\ inBuf[p] \in Seq(ByteSet) /\ w \in Seq(ByteSet)
    BY <1>1, Places, Flights DEF IOInv, BuffersMatchStep, TypeInv
  <1>3. \A i \in DOMAIN inBuf[p] : inBuf[p][i].msg # Unset
    <2>1. CASE step[p] = Failed
      BY <2>1 DEF LeftInv
    <2>2. CASE step[p] # Failed
      <3>1. InFlight(q) = inBuf[p] \o w
        BY <1>1, <1>2, <2>2 DEF Flown
      <3>2. Len(inBuf[p]) <= byteCountNeeded(p)
        BY <1>2, <2>2 DEF BuffersMatch
      <3>3. CASE Receives(p, step[p])
        <4>1. Len(inBuf[p]) <= Want(p)
          BY <1>2, <3>2, <3>3 DEF Placed
        <4> QED BY <1>2, <3>1, <4>1, InputShape
      <3>4. CASE ~Receives(p, step[p])
        BY <1>2, <2>2, <3>4 DEF Placed
      <3> QED BY <3>3, <3>4
    <2> QED BY <2>1, <2>2
  <1>4. ASSUME step[p] = Finished
        PROVE  /\ w = [i \in DOMAIN w |-> DataByte(i)]
               /\ open[q] => Len(w) = data[q]
    <2>1. Want(p) = 0 /\ Pos(p) = 5 /\ inBuf[p] = <<>>
      BY <1>2, <1>4 DEF Placed, Receives
    <2>2. InFlight(q) = w
      <3>1. InFlight(q) = inBuf[p] \o w
        <4>1. step[p] # Failed
          BY <1>4
        <4> QED BY <1>1, <1>2, <4>1 DEF Flown
      <3>2. <<>> \o w = w
        BY <1>2
      <3> QED BY <2>1, <3>1, <3>2
    <2>3. Shape(w, 0)
      BY <1>1, <1>2, <2>1, <2>2 DEF FlightInv, FlowInv
    <2>4. \A i \in DOMAIN w : w[i] = DataByte(i)
      <3> SUFFICES ASSUME NEW i \in DOMAIN w PROVE w[i] = DataByte(i)
        OBVIOUS
      <3>1. i \in Nat /\ i > 0
        BY <1>2
      <3>2. i - 0 = i
        BY <3>1
      <3>3. w[i] = DataByte(i - 0)
        BY <2>3, <3>1 DEF Shape
      <3> QED BY <3>2, <3>3
    <2>5. w = [i \in DOMAIN w |-> DataByte(i)]
      <3>1. w = [i \in DOMAIN w |-> w[i]]
        BY <1>2
      <3> QED BY <2>4, <3>1, Zenon
    <2>6. ASSUME open[q] PROVE Len(w) = data[q]
      <3>1. CASE step[q] = Failed
        <4>1. data[q] = 0
          BY <1>2, <3>1 DEF OutputInv
        <4>2. w = <<>>
          BY <1>1, <2>1, <2>2, <3>1 DEF LeftInv
        <4> QED BY <4>1, <4>2
      <3>2. CASE step[q] # Failed
        <4>1. Len(w) = Due(q)
          BY <1>2, <2>2, <2>6, <3>2 DEF FlightInv, LengthInv
        <4>2. ~AboutToSend(q)
          BY <1>1, <1>2, <1>4, <2>1, <3>2 DEF FlightInv, TurnInv, Placed
        <4>3. Pos(q) # Pos(p) + 1
          BY <1>2, <2>1 DEF Placed
        <4> QED BY <1>1, <1>2, <4>1, <4>2, <4>3 DEF Due
      <3> QED BY <3>1, <3>2
    <2> QED BY <2>5, <2>6
  <1> QED BY <1>3, <1>4

(* Session data right behind the last message are all left, in order, for  *)
(* the stream that follows: receivedBytes() never takes a byte too many.   *)
THEOREM StreamLeftIntact == Spec => []StreamIntact
  <1>1. Init => LeftInv
    BY DEF Init, LeftInv
  <1>2. (IOInv /\ MP!IInv) /\ LeftInv /\ [Next]_vars => LeftInv'
    BY LeftNext
  <1>3. (IOInv /\ MP!IInv) /\ LeftInv => StreamIntact
    BY LeftIntact
  <1> QED BY <1>1, <1>2, <1>3, BytesInvariant, PTL DEF Spec
============================================================================
