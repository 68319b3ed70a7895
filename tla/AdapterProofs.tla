---------------------------- MODULE AdapterProofs ----------------------------
(***************************************************************************)
(* Proofs about the two adapters while they connect, for any application   *)
(* IDs, keys, authorizer or delegates, timeouts, close() calls and number  *)
(* of faults.  First the steps from which both adapters are built: each    *)
(* keeps the invariant of AdapterInvariant, g being the client's Handshake *)
(* object and h the server's.  Then the Cap'n Proto adapter, and the       *)
(* crouton adapter, side by side.                                          *)
(***************************************************************************)
EXTENDS SecretConnection, CroutonOpen, AdapterInvariant, HandshakeTermsProofs

USE DEF Client, Server, Peers, Other, Failed, ClientChallenge,
        ServerChallenge, ClientAuth, ServerAck, Finished

----------------------------------------------------------------------------
(* A Handshake object that takes a step.                                   *)

(* nextStep() and failed() change the step, and the error, only. *)
LEMMA StepFields ==
    ASSUME NEW p \in Peers, NEW h \in HandshakesOf(p), h.step \in 1 .. 4
    PROVE  /\ Stepped(h) \in HandshakesOf(p) /\ Stepped(h).step = h.step + 1
           /\ Stepped(h).impl = h.impl /\ Stepped(h).error = h.error
           /\ FailedAt(h) \in HandshakesOf(p) /\ FailedAt(h).step = Failed
           /\ FailedAt(h).impl = h.impl /\ FailedAt(h).error = FailureError(h.step)
  <1> DEFINE e == FailureError(h.step)
  <1>1. e \in Errors
    BY DEF FailureError, Errors
  <1>2. Stepped(h) \in HandshakesOf(p) /\ Stepped(h).step = h.step + 1
        /\ Stepped(h).impl = h.impl /\ Stepped(h).error = h.error
    BY DEF Stepped, HandshakesOf, Steps
  <1> DEFINE b == [h EXCEPT !.step = Failed, !.error = e]
  <1>3. FailedAt(h) = b
    BY DEF FailedAt
  <1>4. b \in HandshakesOf(p) /\ b.step = Failed /\ b.impl = h.impl /\ b.error = e
    <2> HIDE DEF e
    <2>1. b.step = Failed
      BY DEF HandshakesOf
    <2>2. b.error = e
      BY DEF HandshakesOf
    <2>3. b.impl = h.impl
      BY DEF HandshakesOf
    <2>4. b \in HandshakesOf(p)
      <3> DEFINE a == [h EXCEPT !.step = Failed]
      <3>1. a \in HandshakesOf(p)
        BY DEF HandshakesOf, Steps
      <3>2. b = [a EXCEPT !.error = e]
        OBVIOUS
      <3> HIDE DEF a
      <3>3. [a EXCEPT !.error = e] \in HandshakesOf(p)
        BY <1>1, <3>1 DEF HandshakesOf
      <3> QED BY <3>2, <3>3
    <2> QED BY <2>1, <2>2, <2>3, <2>4
  <1> HIDE DEF b
  <1> QED BY <1>2, <1>3, <1>4

(* A call that replaces the crypto object keeps step and error. *)
LEMMA ImplFields ==
    ASSUME NEW p \in Peers, NEW h \in HandshakesOf(p), NEW i \in Objects(p)
    PROVE  LET h2 == [h EXCEPT !.impl = i]
           IN  /\ h2 \in HandshakesOf(p) /\ h2.impl = i
               /\ h2.step = h.step /\ h2.error = h.error
  BY DEF HandshakesOf

(* What no later call undoes: configurations, the client's proof, and the  *)
(* server's ack.                                                           *)
ClientGrows(g, g2) ==
    /\ g2.impl.K = g.impl.K /\ g2.impl.X = g.impl.X /\ g2.impl.x = g.impl.x
    /\ g2.impl.Yp = g.impl.Yp
    /\ g.impl.H # Unset => g2.impl.H # Unset
ServerGrows(h, h2) ==
    /\ h2.impl.K = h.impl.K /\ h2.impl.X = h.impl.X /\ h2.impl.x = h.impl.x
    /\ Acked(h) => Acked(h2) /\ h2.impl.Yp = h.impl.Yp

(* A message stays one of its sender's, whatever calls the peers make      *)
(* after it was sent.                                                      *)
LEMMA StaysSent ==
    ASSUME NEW q, NEW g, NEW h, NEW g2, NEW h2, NEW m,
           ClientGrows(g, g2), ServerGrows(h, h2), SentBy(q, g, h, m)
    PROVE  SentBy(q, g2, h2, m)
  <1>1. createChallenge(g2.impl) = createChallenge(g.impl)
        /\ createChallenge(h2.impl) = createChallenge(h.impl)
    BY DEF createChallenge, ClientGrows, ServerGrows
  <1>2. AuthOf(g2.impl) = AuthOf(g.impl)
    BY DEF AuthOf, ClientGrows
  <1>3. Acked(h) => AckOf(h2.impl) = AckOf(h.impl) /\ Acked(h2)
    BY DEF AckOf, ServerGrows
  <1> QED BY <1>1, <1>2, <1>3 DEF SentBy, ClientGrows

(* Nothing undone when nothing is done. *)
LEMMA Reflexive ==
    ASSUME NEW g, NEW h
    PROVE  ClientGrows(g, g) /\ ServerGrows(h, h)
  BY DEF ClientGrows, ServerGrows

(* sendCompleted() on the client. *)
LEMMA ClientWritten ==
    ASSUME NEW g, NEW h, NEW m, Paired(g, h), Outgoing(Client, g, h, m)
    PROVE  Paired(Stepped(g), h) /\ ClientGrows(g, Stepped(g))
  <1>1. g \in HandshakesOf(Client) /\ g.step \in {1, 3} /\ (g.step = 3 => g.impl.H # Unset)
    BY DEF Paired, Outgoing
  <1>2. /\ Stepped(g) \in HandshakesOf(Client) /\ Stepped(g).step = g.step + 1
        /\ Stepped(g).impl = g.impl
    BY <1>1, StepFields
  <1>3. ClientFits(Stepped(g), h)
    BY <1>1, <1>2 DEF Paired, ClientFits
  <1>4. ServerFits(Stepped(g), h)
    BY <1>2 DEF Paired, ServerFits
  <1> QED BY <1>2, <1>3, <1>4 DEF Paired, ClientGrows

(* sendCompleted() on the server. *)
LEMMA ServerWritten ==
    ASSUME NEW g, NEW h, NEW m, Paired(g, h), Outgoing(Server, g, h, m)
    PROVE  Paired(g, Stepped(h)) /\ ServerGrows(h, Stepped(h))
  <1>1. h \in HandshakesOf(Server) /\ h.step \in {2, 4} /\ (h.step = 4 => Acked(h))
    BY DEF Paired, Outgoing
  <1>2. /\ Stepped(h) \in HandshakesOf(Server) /\ Stepped(h).step = h.step + 1
        /\ Stepped(h).impl = h.impl
    BY <1>1, StepFields
  <1>3. Acked(h) => Acked(Stepped(h))
    BY <1>1, <1>2 DEF Acked
  <1>4. ClientFits(g, Stepped(h))
    BY <1>2, <1>3 DEF Paired, ClientFits
  <1>5. ServerFits(g, Stepped(h))
    BY <1>1, <1>2, <1>3 DEF Paired, ServerFits
  <1> QED BY <1>2, <1>3, <1>4, <1>5 DEF Paired, ServerGrows

(* failed() on the client. *)
LEMMA ClientFails ==
    ASSUME NEW g, NEW h, Paired(g, h), g.step \in 1 .. 4
    PROVE  Paired(FailedAt(g), h) /\ ClientGrows(g, FailedAt(g))
  <1>1. g \in HandshakesOf(Client)
    BY DEF Paired
  <1>2. /\ FailedAt(g) \in HandshakesOf(Client) /\ FailedAt(g).step = Failed
        /\ FailedAt(g).impl = g.impl
    BY <1>1, StepFields
  <1> QED BY <1>2 DEF Paired, ClientFits, ServerFits, ClientGrows

(* failed() on the server, at a step that reads. *)
LEMMA ServerFails ==
    ASSUME NEW g, NEW h, Paired(g, h), h.step \in {1, 3}
    PROVE  Paired(g, FailedAt(h)) /\ ServerGrows(h, FailedAt(h))
  <1>1. h \in HandshakesOf(Server) /\ ~Acked(h)
    BY DEF Paired, Acked
  <1>2. /\ FailedAt(h) \in HandshakesOf(Server) /\ FailedAt(h).step = Failed
        /\ FailedAt(h).impl = h.impl
    BY <1>1, StepFields
  <1> QED BY <1>1, <1>2 DEF Paired, ClientFits, ServerFits, ServerGrows

(* readCompleted() of peer p on message m, with authorizer auth. *)
Judged(p, h, auth, m) ==
    LET r  == ReceivedBytes(p, h.step, h.impl, auth, m)
        h2 == [h EXCEPT !.impl = r.h]
    IN  IF r.ok THEN Stepped(h2) ELSE FailedAt(h2)

(* The client reads what the server sent: an undamaged challenge for its   *)
(* application, and an undamaged ack, are accepted.                        *)
LEMMA ClientJudges ==
    ASSUME NEW g, NEW h, NEW auth, NEW m, Paired(g, h),
           g.step \in {ServerChallenge, ServerAck}, SentBy(Server, g, h, m)
    PROVE  LET g2 == Judged(Client, g, auth, m)
           IN  /\ Paired(g2, h) /\ ClientGrows(g, g2)
               /\ \/ g2.step = g.step + 1 /\ g2.error = g.error
                  \/ /\ g2.step = Failed /\ g2.error = FailureError(g.step)
                     /\ g.step = ServerChallenge /\ m = createChallenge(h.impl) =>
                           g.impl.K # h.impl.K
                     /\ g.step = ServerAck => m # AckOf(h.impl)
  <1> DEFINE r == ReceivedBytes(Client, g.step, g.impl, auth, m)
             g1 == [g EXCEPT !.impl = r.h]
             g2 == Judged(Client, g, auth, m)
  <1>1. /\ g \in HandshakesOf(Client) /\ h \in HandshakesOf(Server)
        /\ g.impl \in Objects(Client) /\ h.impl \in Objects(Server)
        /\ ClientFits(g, h) /\ ServerFits(g, h)
    BY DEF Paired, HandshakesOf
  <1>2. /\ r.h \in Objects(Client)
        /\ r.h.K = g.impl.K /\ r.h.X = g.impl.X /\ r.h.x = g.impl.x /\ r.h.Yp = g.impl.Yp
        /\ r.h.H = g.impl.H /\ r.h.aB = g.impl.aB /\ r.h.Ab = g.impl.Ab
        /\ r.h.yp # Unset => g.impl.K = h.impl.K /\ r.h.ab = AB
        /\ g.impl.yp # Unset => r.h.yp # Unset
        /\ r.ok => /\ r.h.yp # Unset
                   /\ g.step = ServerAck =>
                        Acked(h) /\ r.h.serverAckKey = AckKey(g.impl.K, g.impl.X, g.impl.Yp)
        /\ ~r.ok => /\ g.step = ServerChallenge /\ m = createChallenge(h.impl) =>
                          g.impl.K # h.impl.K
                    /\ g.step = ServerAck => m # AckOf(h.impl)
    <2>1. CASE g.step = ServerChallenge
      <3>1. m = createChallenge(h.impl) \/ \A k, x : m[1] # hmac(k, x)
        BY Forms DEF SentBy
      <3>2. \/ /\ r.ok /\ r.h = Learned(g.impl, Server) /\ h.impl.K = g.impl.K
            \/ /\ ~r.ok /\ r.h = g.impl
               /\ m = createChallenge(h.impl) => h.impl.K # g.impl.K
        <4> HIDE DEF r
        <4>1. r = ReceivedBytes(Client, ServerChallenge, g.impl, auth, m)
          BY <2>1 DEF r
        <4> QED BY <1>1, <3>1, <4>1, ChallengeVerdict
      <3> DEFINE l == Learned(g.impl, Server)
      <3>3. /\ l \in Objects(Client) /\ l.yp = Server /\ l.ab = AB
            /\ l.K = g.impl.K /\ l.X = g.impl.X /\ l.x = g.impl.x /\ l.Yp = g.impl.Yp
            /\ l.H = g.impl.H /\ l.aB = g.impl.aB /\ l.Ab = g.impl.Ab
        BY <1>1, LearnedFields
      <3> HIDE DEF r, l
      <3> QED BY <1>1, <2>1, <3>2, <3>3, UnsetAssumption DEF l, ClientFits
    <2>2. CASE g.step = ServerAck
      <3>1. m = AckOf(h.impl) \/ \A x : m[1] # hash(x)
        BY Forms DEF SentBy
      <3>2. m = AckOf(h.impl) => Acked(h)
        <4>1. m = AckOf(h.impl) => m # createChallenge(h.impl) /\ m # Noise
          BY Forms, Terms DEF AckOf, box, AckKey
        <4> QED BY <4>1 DEF SentBy
      <3>3. /\ g.impl.Yp # Unset /\ g.impl.ab = AB /\ g.impl.aB = DH(Client, g.impl.Yp)
            /\ g.impl.Ab = DH(Server, g.impl.X)
            /\ g.impl.H = ProofOf(g.impl.K, g.impl.X, g.impl.Yp)
            /\ g.impl.yp # Unset /\ g.impl.K = h.impl.K
        BY <1>1, <2>2 DEF ClientFits
      <3>4. Acked(h) => h.impl.K = g.impl.K /\ h.impl.X = g.impl.Yp /\ h.impl.Yp = g.impl.X
        BY <1>1, <3>3 DEF ServerFits, Acked
      <3>5. r = ReceivedBytes(Client, ServerAck, g.impl, auth, m)
        BY <2>2
      <3> HIDE DEF r
      <3>6. /\ r.h \in Objects(Client) /\ SameSecrets(r.h, g.impl)
            /\ r.h.H = g.impl.H /\ r.h.aB = g.impl.aB /\ r.h.Ab = g.impl.Ab
            /\ r.h.serverAckKey = AckKey(g.impl.K, g.impl.X, g.impl.Yp)
            /\ r.ok => m = AckOf(h.impl)
            /\ ~r.ok => ~(m = AckOf(h.impl) /\ h.impl.K = g.impl.K
                            /\ h.impl.X = g.impl.Yp /\ h.impl.Yp = g.impl.X)
        BY <1>1, <3>1, <3>3, <3>5, AckVerdict
      <3> QED BY <2>2, <3>2, <3>3, <3>4, <3>6 DEF SameSecrets
    <2> QED BY <2>1, <2>2
  <1> HIDE DEF r
  <1>3. /\ g1 \in HandshakesOf(Client) /\ g1.impl = r.h
        /\ g1.step = g.step /\ g1.error = g.error
    BY <1>1, <1>2, ImplFields
  <1> HIDE DEF g1
  <1>4. g2 = IF r.ok THEN Stepped(g1) ELSE FailedAt(g1)
    BY DEF Judged, r, g1
  <1> HIDE DEF g2
  <1>5. CASE r.ok
    <2>1. /\ g2 \in HandshakesOf(Client) /\ g2.step = g.step + 1
          /\ g2.impl = r.h /\ g2.error = g.error
      BY <1>3, <1>4, <1>5, StepFields
    <2>2. ClientFits(g2, h)
      BY <1>1, <1>2, <1>5, <2>1 DEF ClientFits
    <2>3. ServerFits(g2, h)
      BY <1>1, <1>2, <2>1 DEF ServerFits
    <2> QED BY <1>1, <1>2, <2>1, <2>2, <2>3 DEF Paired, ClientGrows, g2
  <1>6. CASE ~r.ok
    <2>1. /\ g2 \in HandshakesOf(Client) /\ g2.step = Failed
          /\ g2.impl = r.h /\ g2.error = FailureError(g.step)
      BY <1>3, <1>4, <1>6, StepFields
    <2>2. ClientFits(g2, h)
      BY <1>1, <1>2, <2>1 DEF ClientFits
    <2>3. ServerFits(g2, h)
      BY <1>1, <1>2, <2>1 DEF ServerFits
    <2> QED BY <1>1, <1>2, <1>6, <2>1, <2>2, <2>3 DEF Paired, ClientGrows, g2
  <1> QED BY <1>5, <1>6

(* The server reads what the client sent: an undamaged challenge for its   *)
(* application, and an undamaged proof for this server of a client that    *)
(* the authorizer admits, are accepted, and no other.                      *)
LEMMA ServerJudges ==
    ASSUME NEW g, NEW h, NEW auth, NEW m, Paired(g, h),
           h.step \in {ClientChallenge, ClientAuth}, SentBy(Client, g, h, m)
    PROVE  LET h2 == Judged(Server, h, auth, m)
           IN  /\ Paired(g, h2) /\ ServerGrows(h, h2)
               /\ \/ /\ h2.step = h.step + 1 /\ h2.error = h.error
                     /\ h.step = ClientAuth => Authorizes(auth, g.impl.X)
                  \/ /\ h2.step = Failed /\ h2.error = FailureError(h.step)
                     /\ h.step = ClientChallenge /\ m = createChallenge(g.impl) =>
                           g.impl.K # h.impl.K
                     /\ h.step = ClientAuth /\ m = AuthOf(g.impl) =>
                           ~(g.impl.Yp = h.impl.X /\ Authorizes(auth, g.impl.X))
  <1> DEFINE r == ReceivedBytes(Server, h.step, h.impl, auth, m)
             h1 == [h EXCEPT !.impl = r.h]
             h2 == Judged(Server, h, auth, m)
  <1>1. /\ g \in HandshakesOf(Client) /\ h \in HandshakesOf(Server)
        /\ g.impl \in Objects(Client) /\ h.impl \in Objects(Server)
        /\ ClientFits(g, h) /\ ServerFits(g, h) /\ ~Acked(h)
    BY DEF Paired, HandshakesOf, Acked
  <1>2. /\ r.h \in Objects(Server)
        /\ r.h.K = h.impl.K /\ r.h.X = h.impl.X /\ r.h.x = h.impl.x
        /\ r.h.yp # Unset => g.impl.K = h.impl.K /\ r.h.ab = AB
        /\ r.ok => /\ r.h.yp # Unset
                   /\ h.step = ClientAuth =>
                        /\ Authorizes(auth, g.impl.X)
                        /\ g.impl.Yp = h.impl.X /\ g.impl.H # Unset
                        /\ r.h.H = g.impl.H /\ r.h.Yp = g.impl.X
                        /\ r.h.aB = DH(Client, h.impl.X) /\ r.h.Ab = DH(Server, g.impl.X)
        /\ ~r.ok => /\ h.step = ClientChallenge /\ m = createChallenge(g.impl) =>
                          g.impl.K # h.impl.K
                    /\ h.step = ClientAuth /\ m = AuthOf(g.impl) =>
                          ~(g.impl.Yp = h.impl.X /\ Authorizes(auth, g.impl.X))
    <2>1. CASE h.step = ClientChallenge
      <3>1. m = createChallenge(g.impl) \/ \A k, x : m[1] # hmac(k, x)
        BY Forms DEF SentBy
      <3>2. \/ /\ r.ok /\ r.h = Learned(h.impl, Client) /\ g.impl.K = h.impl.K
            \/ /\ ~r.ok /\ r.h = h.impl
               /\ m = createChallenge(g.impl) => g.impl.K # h.impl.K
        <4> HIDE DEF r
        <4>1. r = ReceivedBytes(Server, ClientChallenge, h.impl, auth, m)
          BY <2>1 DEF r
        <4> QED BY <1>1, <3>1, <4>1, ChallengeVerdict
      <3> DEFINE l == Learned(h.impl, Client)
      <3>3. /\ l \in Objects(Server) /\ l.yp = Client /\ l.ab = AB
            /\ l.K = h.impl.K /\ l.X = h.impl.X /\ l.x = h.impl.x
        BY <1>1, LearnedFields
      <3> HIDE DEF r, l
      <3> QED BY <1>1, <2>1, <3>2, <3>3, UnsetAssumption DEF l, ServerFits
    <2>2. CASE h.step = ClientAuth
      <3>1. m = AuthOf(g.impl) \/ \A x : m[1] # hash(x)
        BY Forms DEF SentBy
      <3>2. m = AuthOf(g.impl) => /\ g.impl.H # Unset
                                  /\ g.impl.H = ProofOf(g.impl.K, g.impl.X, g.impl.Yp)
        <4>1. m = AuthOf(g.impl) => m # createChallenge(g.impl) /\ m # Noise
          BY Forms, Terms DEF AuthOf, box
        <4>2. m = AuthOf(g.impl) => g.impl.H # Unset
          BY <4>1 DEF SentBy
        <4> QED BY <1>1, <4>2 DEF ClientFits
      <3>3. h.impl.yp # Unset /\ h.impl.ab = AB /\ g.impl.K = h.impl.K /\ g.impl.Yp # Unset
        BY <1>1, <2>2 DEF ClientFits, ServerFits
      <3>4. r = ReceivedBytes(Server, ClientAuth, h.impl, auth, m)
        BY <2>2
      <3> HIDE DEF r
      <3>5. /\ r.h \in Objects(Server)
            /\ r.h.K = h.impl.K /\ r.h.X = h.impl.X /\ r.h.x = h.impl.x
            /\ r.h.yp = h.impl.yp /\ r.h.ab = h.impl.ab
            /\ r.ok => /\ m = AuthOf(g.impl) /\ g.impl.Yp = h.impl.X
                       /\ Authorizes(auth, g.impl.X)
                       /\ r.h.H = ProofOf(g.impl.K, g.impl.X, g.impl.Yp)
                       /\ r.h.Yp = g.impl.X
                       /\ r.h.aB = DH(Client, h.impl.X) /\ r.h.Ab = DH(Server, g.impl.X)
            /\ ~r.ok => ~(m = AuthOf(g.impl) /\ g.impl.Yp = h.impl.X
                            /\ Authorizes(auth, g.impl.X))
        BY <1>1, <3>1, <3>3, <3>4, AuthVerdict
      <3> QED BY <2>2, <3>2, <3>3, <3>5
    <2> QED BY <2>1, <2>2
  <1> HIDE DEF r
  <1>3. /\ h1 \in HandshakesOf(Server) /\ h1.impl = r.h
        /\ h1.step = h.step /\ h1.error = h.error
    BY <1>1, <1>2, ImplFields
  <1> HIDE DEF h1
  <1>4. h2 = IF r.ok THEN Stepped(h1) ELSE FailedAt(h1)
    BY DEF Judged, r, h1
  <1> HIDE DEF h2
  <1>5. CASE r.ok
    <2>1. /\ h2 \in HandshakesOf(Server) /\ h2.step = h.step + 1
          /\ h2.impl = r.h /\ h2.error = h.error
      BY <1>3, <1>4, <1>5, StepFields
    <2>2. ClientFits(g, h2)
      BY <1>1, <1>2, <2>1 DEF ClientFits
    <2>3. ServerFits(g, h2)
      BY <1>1, <1>2, <1>5, <2>1 DEF ServerFits
    <2> QED BY <1>1, <1>2, <1>5, <2>1, <2>2, <2>3 DEF Paired, ServerGrows, h2
  <1>6. CASE ~r.ok
    <2>1. /\ h2 \in HandshakesOf(Server) /\ h2.step = Failed
          /\ h2.impl = r.h /\ h2.error = FailureError(h.step)
      BY <1>3, <1>4, <1>6, StepFields
    <2>2. ClientFits(g, h2)
      BY <1>1, <1>2, <2>1 DEF ClientFits
    <2>3. ServerFits(g, h2)
      BY <1>1, <1>2, <2>1 DEF ServerFits
    <2> QED BY <1>1, <1>2, <1>6, <2>1, <2>2, <2>3 DEF Paired, ServerGrows, h2
  <1> QED BY <1>5, <1>6

(* bytesToSend() on the client. *)
LEMMA ClientFills ==
    ASSUME NEW g, NEW h, Paired(g, h), Sends(Client, g.step)
    PROVE  LET f  == FillOutputBuffer(Client, g.step, g.impl)
               g2 == [g EXCEPT !.impl = f.h]
           IN  /\ Paired(g2, h) /\ ClientGrows(g, g2) /\ Outgoing(Client, g2, h, f.msg)
               /\ g2.step = g.step /\ g2.error = g.error
  <1> DEFINE f  == FillOutputBuffer(Client, g.step, g.impl)
             g2 == [g EXCEPT !.impl = f.h]
  <1>1. /\ g \in HandshakesOf(Client) /\ h \in HandshakesOf(Server)
        /\ g.impl \in Objects(Client)
        /\ ClientFits(g, h) /\ ServerFits(g, h) /\ g.step \in {1, 3}
    BY DEF Paired, HandshakesOf, Sends
  <1>2. /\ f.h \in Objects(Client)
        /\ SameSecrets(f.h, g.impl) /\ f.h.serverAckKey = g.impl.serverAckKey
        /\ \/ g.step = 1 /\ f.msg = createChallenge(g.impl) /\ f.h = g.impl
           \/ /\ g.step = 3 /\ f.msg = AuthOf(g.impl)
              /\ f.h.H = ProofOf(g.impl.K, g.impl.X, g.impl.Yp) /\ f.h.H # Unset
              /\ f.h.aB = DH(Client, g.impl.Yp) /\ f.h.Ab = DH(Server, g.impl.X)
              /\ g.impl.H # Unset => f.h.H = g.impl.H
    <2>1. CASE g.step = 1
      <3>1. f.msg = createChallenge(g.impl) /\ f.h = g.impl
        BY <2>1, ChallengeMade
      <3> QED BY <1>1, <2>1, <3>1 DEF SameSecrets
    <2>2. CASE g.step = 3
      <3>1. g.impl.Yp # Unset /\ g.impl.yp # Unset /\ g.impl.ab = AB
        BY <1>1, <2>2 DEF ClientFits
      <3>2. f = FillOutputBuffer(Client, ClientAuth, g.impl)
        BY <2>2
      <3> HIDE DEF f
      <3>3. /\ f.msg = AuthOf(g.impl)
            /\ f.h \in Objects(Client) /\ SameSecrets(f.h, g.impl)
            /\ f.h.serverAckKey = g.impl.serverAckKey
            /\ f.h.H = ProofOf(g.impl.K, g.impl.X, g.impl.Yp)
            /\ f.h.aB = DH(Client, g.impl.Yp) /\ f.h.Ab = DH(Server, g.impl.X)
        BY <1>1, <3>1, <3>2, ClientAuthMade
      <3>4. f.h.H # Unset
        <4>1. g.impl.K \in AppIDs /\ g.impl.X \in Keys /\ g.impl.Yp \in Keys
          BY <1>1, <3>1 DEF Objects
        <4>2. f.h.H \in Proofs
          BY <3>3, <4>1 DEF Proofs
        <4> QED BY <4>2, TermsAssumption
      <3>5. g.impl.H # Unset => f.h.H = g.impl.H
        BY <1>1, <3>3 DEF ClientFits
      <3> QED BY <2>2, <3>3, <3>4, <3>5
    <2> QED BY <1>1, <2>1, <2>2
  <1> HIDE DEF f
  <1>3. /\ g2 \in HandshakesOf(Client) /\ g2.impl = f.h
        /\ g2.step = g.step /\ g2.error = g.error
    BY <1>1, <1>2, ImplFields
  <1> HIDE DEF g2
  <1>4. ClientFits(g2, h)
    BY <1>1, <1>2, <1>3 DEF ClientFits, SameSecrets
  <1>5. ServerFits(g2, h)
    <2>1. h.step \in {4, 5} => f.h.H = g.impl.H
      BY <1>1, <1>2 DEF ServerFits
    <2> QED BY <1>1, <1>2, <1>3, <2>1 DEF ServerFits, SameSecrets
  <1>6. createChallenge(g2.impl) = createChallenge(g.impl) /\ AuthOf(g2.impl) = AuthOf(g.impl)
    BY <1>2, <1>3 DEF createChallenge, AuthOf, SameSecrets
  <1>7. ClientGrows(g, g2) /\ Outgoing(Client, g2, h, f.msg)
    BY <1>2, <1>3, <1>6 DEF ClientGrows, Outgoing, SameSecrets
  <1> QED BY <1>1, <1>3, <1>4, <1>5, <1>7 DEF Paired, f, g2

(* bytesToSend() on the server. *)
LEMMA ServerFills ==
    ASSUME NEW g, NEW h, Paired(g, h), Sends(Server, h.step)
    PROVE  LET f  == FillOutputBuffer(Server, h.step, h.impl)
               h2 == [h EXCEPT !.impl = f.h]
           IN  /\ Paired(g, h2) /\ ServerGrows(h, h2) /\ Outgoing(Server, g, h2, f.msg)
               /\ h2.step = h.step /\ h2.error = h.error
  <1> DEFINE f  == FillOutputBuffer(Server, h.step, h.impl)
             h2 == [h EXCEPT !.impl = f.h]
  <1>1. /\ g \in HandshakesOf(Client) /\ h \in HandshakesOf(Server)
        /\ g.impl \in Objects(Client) /\ h.impl \in Objects(Server)
        /\ ClientFits(g, h) /\ ServerFits(g, h) /\ h.step \in {2, 4}
    BY DEF Paired, HandshakesOf, Sends
  <1>2. /\ f.h \in Objects(Server) /\ SameSecrets(f.h, h.impl)
        /\ f.h.H = h.impl.H /\ f.h.aB = h.impl.aB /\ f.h.Ab = h.impl.Ab
        /\ \/ h.step = 2 /\ f.msg = createChallenge(h.impl)
           \/ /\ h.step = 4 /\ f.msg = AckOf(h.impl)
              /\ f.h.serverAckKey = AckKey(h.impl.K, h.impl.Yp, h.impl.X)
    <2>1. CASE h.step = 2
      <3>1. f.msg = createChallenge(h.impl) /\ f.h = h.impl
        BY <2>1, ChallengeMade
      <3> QED BY <1>1, <2>1, <3>1 DEF SameSecrets
    <2>2. CASE h.step = 4
      <3>1. /\ h.impl.ab = AB /\ h.impl.aB = DH(Client, h.impl.X)
            /\ h.impl.Ab = DH(Server, h.impl.Yp)
            /\ h.impl.H = ProofOf(h.impl.K, h.impl.Yp, h.impl.X)
        BY <1>1, <2>2 DEF ClientFits, ServerFits
      <3>2. h.impl.Yp # Unset
        <4>1. h.impl.Yp = g.impl.X
          BY <1>1, <2>2 DEF ServerFits
        <4> QED BY <1>1, <4>1, UnsetAssumption DEF Objects
      <3>3. f = FillOutputBuffer(Server, ServerAck, h.impl)
        BY <2>2
      <3> HIDE DEF f
      <3> QED BY <1>1, <2>2, <3>1, <3>2, <3>3, ServerAckMade
    <2> QED BY <1>1, <2>1, <2>2
  <1> HIDE DEF f
  <1>3. /\ h2 \in HandshakesOf(Server) /\ h2.impl = f.h
        /\ h2.step = h.step /\ h2.error = h.error
    BY <1>1, <1>2, ImplFields
  <1> HIDE DEF h2
  <1>4. h.step = 4 => Acked(h2)
    BY <1>2, <1>3 DEF Acked, SameSecrets
  <1>5. ClientFits(g, h2)
    <2>1. Acked(h) => Acked(h2)
      BY <1>1, <1>4 DEF Acked
    <2> QED BY <1>1, <1>2, <1>3, <2>1 DEF ClientFits, SameSecrets
  <1>6. ServerFits(g, h2)
    BY <1>1, <1>2, <1>3, <1>4 DEF ServerFits, SameSecrets
  <1>7. createChallenge(h2.impl) = createChallenge(h.impl) /\ AckOf(h2.impl) = AckOf(h.impl)
    BY <1>2, <1>3 DEF createChallenge, AckOf, SameSecrets
  <1>8. ServerGrows(h, h2) /\ Outgoing(Server, g, h2, f.msg)
    BY <1>1, <1>2, <1>3, <1>4, <1>7 DEF ServerGrows, Outgoing, SameSecrets, Acked
  <1> QED BY <1>1, <1>3, <1>5, <1>6, <1>8 DEF Paired, f, h2

(* A server that accepted the client's proof agrees with the client on     *)
(* application and identities.                                             *)
LEMMA ServerAgrees ==
    ASSUME NEW g, NEW h, Paired(g, h), h.step \in {ServerAck, Finished}
    PROVE  g.impl.K = h.impl.K /\ g.impl.Yp = h.impl.X /\ h.impl.Yp = g.impl.X
  BY DEF Paired, ServerFits

(* A client that finished has a server that acknowledged it, and their     *)
(* sessions fit.                                                           *)
LEMMA ClientAgrees ==
    ASSUME NEW g, NEW h, Paired(g, h), g.step = Finished
    PROVE  /\ h.step \in {ServerAck, Finished}
           /\ Fit(getOutcome(g.impl), getOutcome(h.impl))
  <1>1. /\ Acked(h) /\ g.impl.serverAckKey = AckKey(g.impl.K, g.impl.X, g.impl.Yp)
        /\ g.impl.yp # Unset
    BY DEF Paired, ClientFits
  <1>2. h.step \in {4, 5} /\ h.impl.serverAckKey = AckKey(h.impl.K, h.impl.Yp, h.impl.X)
    BY <1>1 DEF Acked
  <1>3. /\ g.impl.K = h.impl.K /\ g.impl.Yp = h.impl.X /\ h.impl.Yp = g.impl.X
        /\ h.impl.yp # Unset
    BY <1>2, ServerAgrees DEF Paired, ServerFits
  <1>4. /\ g.impl.x = Client /\ h.impl.x = Server
        /\ g.impl.yp = Server /\ h.impl.yp = Client
    BY <1>1, <1>3 DEF Paired, HandshakesOf, Objects
  <1>5. g.impl.serverAckKey = h.impl.serverAckKey
    BY <1>1, <1>2, <1>3
  <1>6. hmac(g.impl.K, Server) # hmac(g.impl.K, Client)
    BY Terms
  <1> QED BY <1>2, <1>3, <1>4, <1>5, <1>6 DEF Fit, getOutcome

----------------------------------------------------------------------------
(* The adapters' state.                                                    *)

(* The two objects once peer p's is h. *)
ClientWith(p, h) == IF p = Client THEN h ELSE hs[Client]
ServerWith(p, h) == IF p = Server THEN h ELSE hs[Server]

(* Peer p's object may become h. *)
Follows(p, h) ==
    /\ Paired(ClientWith(p, h), ServerWith(p, h))
    /\ ClientGrows(hs[Client], ClientWith(p, h))
    /\ ServerGrows(hs[Server], ServerWith(p, h))

(* Both adapters begin in the invariant. *)
LEMMA DriverStarts ==
    ASSUME DriverInit
    PROVE  DriverInv
  <1>1. PICK c \in ClientHandshakes, s \in ServerHandshakes :
            hs = [p \in Peers |-> [step |-> ClientChallenge, error |-> NoError,
                                   impl |-> IF p = Client THEN c ELSE s]]
    BY DEF DriverInit
  <1>2. /\ c \in Objects(Client) /\ c.Yp \in Keys /\ c.yp = Unset /\ c.H = Unset
        /\ s \in Objects(Server) /\ s.yp = Unset
    BY Constructed
  <1>3. /\ hs[Client] = [step |-> 1, error |-> NoError, impl |-> c]
        /\ hs[Server] = [step |-> 1, error |-> NoError, impl |-> s]
    BY <1>1
  <1>4. hs[Client] \in HandshakesOf(Client) /\ hs[Server] \in HandshakesOf(Server)
    BY <1>2, <1>3 DEF HandshakesOf, Steps, Errors
  <1>5. ClientFits(hs[Client], hs[Server]) /\ ServerFits(hs[Client], hs[Server])
    BY <1>2, <1>3, UnsetAssumption DEF ClientFits, ServerFits
  <1>6. ASSUME NEW p \in Peers
        PROVE  PeerInv(p)
    BY <1>1 DEF DriverInit, PeerInv
  <1> QED BY <1>1, <1>4, <1>5, <1>6 DEF DriverInv, Paired, DriverInit

(* What Reported() makes of the object when the stream is done. *)
LEMMA Reports ==
    ASSUME DriverInv, NEW p \in Peers, NEW auth, pc[p] \in {"start", "written", "read"}
    PROVE  LET h == Reported(p, auth)
           IN  /\ Follows(p, h)
               /\ \/ pc[p] = "start" /\ h = hs[p]
                  \/ /\ pc[p] = "written" \/ pc[p] = "read"
                     /\ h.step = hs[p].step + 1 /\ h.error = hs[p].error
                     /\ p = Server /\ h.step = ServerAck => Authorizes(auth, hs[Client].impl.X)
                  \/ /\ pc[p] = "read" /\ h.step = Failed
                     /\ h.error = FailureError(hs[p].step)
                     /\ hs[p].step \in {1, 2} /\ buf[p] = createChallenge(hs[Other(p)].impl) =>
                            ~SameApp
                     /\ hs[p].step = 3 /\ buf[p] = AuthOf(hs[Client].impl) =>
                            ~(RightServer /\ Authorizes(auth, hs[Client].impl.X))
                     /\ hs[p].step = 4 => buf[p] # AckOf(hs[Server].impl)
  <1> DEFINE g == hs[Client]
             h == hs[Server]
             m == buf[p]
             n == Reported(p, auth)
  <1>1. Paired(g, h) /\ PeerInv(p)
    BY DEF DriverInv
  <1>2. CASE pc[p] = "start"
    <2>1. n = hs[p]
      BY <1>2 DEF Reported
    <2>2. ClientWith(p, hs[p]) = g /\ ServerWith(p, hs[p]) = h
      BY DEF ClientWith, ServerWith
    <2>3. ClientGrows(g, g) /\ ServerGrows(h, h)
      BY Reflexive
    <2>4. Follows(p, hs[p])
      BY <1>1, <2>2, <2>3 DEF Follows
    <2> QED BY <1>2, <2>1, <2>4
  <1>3. CASE pc[p] = "written"
    <2>1. n = Stepped(hs[p])
      BY <1>3 DEF Reported
    <2>2. Outgoing(p, g, h, m)
      BY <1>1, <1>3 DEF PeerInv
    <2>3. CASE p = Client
      <3>1. Paired(Stepped(g), h) /\ ClientGrows(g, Stepped(g))
        BY <1>1, <2>2, <2>3, ClientWritten
      <3>2. ServerGrows(h, h)
        BY Reflexive
      <3>3. Follows(p, n)
        BY <2>1, <2>3, <3>1, <3>2 DEF Follows, ClientWith, ServerWith
      <3>4. n.step = g.step + 1 /\ n.error = g.error
        BY <1>1, <2>1, <2>2, <2>3, StepFields DEF Paired, Outgoing
      <3> QED BY <1>3, <2>3, <3>3, <3>4
    <2>4. CASE p = Server
      <3>1. Paired(g, Stepped(h)) /\ ServerGrows(h, Stepped(h))
        BY <1>1, <2>2, <2>4, ServerWritten
      <3>2. ClientGrows(g, g)
        BY Reflexive
      <3>3. Follows(p, n)
        BY <2>1, <2>4, <3>1, <3>2 DEF Follows, ClientWith, ServerWith
      <3>4. h.step \in {2, 4} /\ n.step = h.step + 1 /\ n.error = h.error
        BY <1>1, <2>1, <2>2, <2>4, StepFields DEF Paired, Outgoing
      <3> QED BY <1>3, <2>4, <3>3, <3>4
    <2> QED BY <2>3, <2>4
  <1>4. CASE pc[p] = "read"
    <2>1. n = Judged(p, hs[p], auth, m)
      BY <1>4 DEF Reported, Judged
    <2>2. Receives(p, hs[p].step) /\ SentBy(Other(p), g, h, m)
      BY <1>1, <1>4 DEF PeerInv
    <2>3. CASE p = Client
      <3>1. g.step \in {2, 4} /\ SentBy(Server, g, h, m)
        BY <2>2, <2>3 DEF Receives
      <3> HIDE DEF n
      <3>2. /\ Paired(n, h) /\ ClientGrows(g, n)
            /\ \/ n.step = g.step + 1 /\ n.error = g.error
               \/ /\ n.step = Failed /\ n.error = FailureError(g.step)
                  /\ g.step = ServerChallenge /\ m = createChallenge(h.impl) =>
                        g.impl.K # h.impl.K
                  /\ g.step = ServerAck => m # AckOf(h.impl)
        BY <1>1, <2>1, <2>3, <3>1, ClientJudges
      <3>3. ServerGrows(h, h)
        BY Reflexive
      <3>4. Follows(p, n)
        BY <2>3, <3>2, <3>3 DEF Follows, ClientWith, ServerWith
      <3> QED BY <1>4, <2>3, <3>1, <3>2, <3>4 DEF n, SameApp
    <2>4. CASE p = Server
      <3>1. h.step \in {1, 3} /\ SentBy(Client, g, h, m)
        BY <2>2, <2>4 DEF Receives
      <3> HIDE DEF n
      <3>2. /\ Paired(g, n) /\ ServerGrows(h, n)
            /\ \/ /\ n.step = h.step + 1 /\ n.error = h.error
                  /\ h.step = ClientAuth => Authorizes(auth, g.impl.X)
               \/ /\ n.step = Failed /\ n.error = FailureError(h.step)
                  /\ h.step = ClientChallenge /\ m = createChallenge(g.impl) =>
                        g.impl.K # h.impl.K
                  /\ h.step = ClientAuth /\ m = AuthOf(g.impl) =>
                        ~(g.impl.Yp = h.impl.X /\ Authorizes(auth, g.impl.X))
        BY <1>1, <2>1, <2>4, <3>1, ServerJudges
      <3>3. ClientGrows(g, g)
        BY Reflexive
      <3>4. Follows(p, n)
        BY <2>4, <3>2, <3>3 DEF Follows, ClientWith, ServerWith
      <3> QED BY <1>4, <2>4, <3>1, <3>2, <3>4 DEF n, SameApp, RightServer
    <2> QED BY <2>3, <2>4
  <1> QED BY <1>2, <1>3, <1>4

(* bytesToSend() after that, on object h. *)
LEMMA Fills ==
    ASSUME NEW p \in Peers, NEW h, Follows(p, h), Sends(p, h.step)
    PROVE  LET f  == FillOutputBuffer(p, h.step, h.impl)
               h2 == [h EXCEPT !.impl = f.h]
           IN  /\ Follows(p, h2) /\ h2.step = h.step /\ h2.error = h.error
               /\ Outgoing(p, ClientWith(p, h2), ServerWith(p, h2), f.msg)
  <1> DEFINE f  == FillOutputBuffer(p, h.step, h.impl)
             h2 == [h EXCEPT !.impl = f.h]
  <1>1. CASE p = Client
    <2>1. Paired(h, hs[Server]) /\ ClientGrows(hs[Client], h)
      BY <1>1 DEF Follows, ClientWith, ServerWith
    <2>2. /\ Paired(h2, hs[Server]) /\ ClientGrows(h, h2)
          /\ Outgoing(Client, h2, hs[Server], f.msg)
          /\ h2.step = h.step /\ h2.error = h.error
      BY <1>1, <2>1, ClientFills
    <2> HIDE DEF f, h2
    <2>3. ClientGrows(hs[Client], h2) /\ ServerGrows(hs[Server], hs[Server])
      BY <2>1, <2>2, Reflexive DEF ClientGrows
    <2> QED BY <1>1, <2>2, <2>3 DEF Follows, ClientWith, ServerWith, f, h2
  <1>2. CASE p = Server
    <2>1. Paired(hs[Client], h) /\ ServerGrows(hs[Server], h)
      BY <1>2 DEF Follows, ClientWith, ServerWith
    <2>2. /\ Paired(hs[Client], h2) /\ ServerGrows(h, h2)
          /\ Outgoing(Server, hs[Client], h2, f.msg)
          /\ h2.step = h.step /\ h2.error = h.error
      BY <1>2, <2>1, ServerFills
    <2> HIDE DEF f, h2
    <2>3. ServerGrows(hs[Server], h2) /\ ClientGrows(hs[Client], hs[Client])
      BY <2>1, <2>2, Reflexive DEF ServerGrows
    <2> QED BY <1>2, <2>2, <2>3 DEF Follows, ClientWith, ServerWith, f, h2
  <1> QED BY <1>1, <1>2

(* The adapter may be at label l with object h and message m. *)
Placed(p, h, l, m) ==
    /\ l \in {"start", "opening"} => h.step = ClientChallenge
    /\ l \in {"writing", "written"} => Outgoing(p, ClientWith(p, h), ServerWith(p, h), m)
    /\ l \in {"reading", "read"} => Receives(p, h.step)
    /\ l # "read"

(* A step of the adapter that leaves the network alone. *)
LEMMA Moves ==
    ASSUME DriverInv, NEW p \in Peers, NEW h, NEW l, NEW m, Follows(p, h), Placed(p, h, l, m),
           hs' = [hs EXCEPT ![p] = h], pc' = [pc EXCEPT ![p] = l],
           buf' = [buf EXCEPT ![p] = m], net' = net
    PROVE  DriverInv'
  <1> DEFINE g2 == ClientWith(p, h)
             h2 == ServerWith(p, h)
  <1>1. /\ hs = [q \in Peers |-> hs[q]] /\ pc = [q \in Peers |-> pc[q]]
        /\ buf = [q \in Peers |-> buf[q]] /\ net = [q \in Peers |-> net[q]]
    BY DEF DriverInv
  <1>2. /\ hs' = [q \in Peers |-> hs'[q]] /\ pc' = [q \in Peers |-> pc'[q]]
        /\ buf' = [q \in Peers |-> buf'[q]] /\ net' = [q \in Peers |-> net'[q]]
    BY <1>1
  <1>3. hs'[Client] = g2 /\ hs'[Server] = h2
    BY <1>1 DEF ClientWith, ServerWith
  <1>4. /\ hs'[p] = h /\ pc'[p] = l /\ buf'[p] = m
        /\ \A q \in Peers : q # p => hs'[q] = hs[q] /\ pc'[q] = pc[q] /\ buf'[q] = buf[q]
    BY <1>1
  <1>5. \A q, n : SentBy(q, hs[Client], hs[Server], n) => SentBy(q, g2, h2, n)
    <2>1. ClientGrows(hs[Client], g2) /\ ServerGrows(hs[Server], h2)
      BY DEF Follows
    <2> HIDE DEF g2, h2
    <2> QED BY <2>1, StaysSent
  <1>6. ASSUME NEW q \in Peers
        PROVE  PeerInv(q)'
    <2>1. PeerInv(q)
      BY DEF DriverInv
    <2>2. net'[q] # Unset => SentBy(q, g2, h2, net'[q])
      BY <1>5, <2>1 DEF PeerInv
    <2>3. CASE q = p
      BY <1>3, <1>4, <2>2, <2>3 DEF PeerInv, Placed
    <2>4. CASE q # p
      <3>1. \A n : Outgoing(q, hs[Client], hs[Server], n) => Outgoing(q, g2, h2, n)
        BY <2>4 DEF Outgoing, ClientWith, ServerWith
      <3> HIDE DEF g2, h2
      <3> QED BY <1>3, <1>4, <1>5, <2>1, <2>2, <2>4, <3>1 DEF PeerInv
    <2> QED BY <2>3, <2>4
  <1>7. Paired(hs[Client], hs[Server])'
    BY <1>3 DEF Follows
  <1> QED BY <1>2, <1>6, <1>7 DEF DriverInv

(* The adapter goes on until it suspends on the stream. *)
LEMMA SuspendsStep ==
    ASSUME DriverInv, NEW p \in Peers, NEW h, Follows(p, h), Suspends(p, h), net' = net
    PROVE  /\ DriverInv'
           /\ Follows(p, hs'[p]) /\ hs' = [hs EXCEPT ![p] = hs'[p]]
           /\ hs'[p].step = h.step /\ hs'[p].error = h.error
           /\ pc' = [pc EXCEPT ![p] = IF Sends(p, h.step) THEN "writing" ELSE "reading"]
  <1>1. hs = [q \in Peers |-> hs[q]]
    BY DEF DriverInv
  <1>2. CASE Sends(p, h.step)
    <2> DEFINE f  == FillOutputBuffer(p, h.step, h.impl)
               h2 == [h EXCEPT !.impl = f.h]
    <2>1. /\ Follows(p, h2) /\ h2.step = h.step /\ h2.error = h.error
          /\ Outgoing(p, ClientWith(p, h2), ServerWith(p, h2), f.msg)
      BY <1>2, Fills
    <2>2. /\ hs' = [hs EXCEPT ![p] = h2] /\ buf' = [buf EXCEPT ![p] = f.msg]
          /\ pc' = [pc EXCEPT ![p] = "writing"]
      BY <1>2 DEF Suspends
    <2> HIDE DEF h2, f
    <2>3. Placed(p, h2, "writing", f.msg)
      BY <2>1 DEF Placed
    <2>4. DriverInv'
      BY <2>1, <2>2, <2>3, Moves
    <2>5. hs'[p] = h2
      BY <1>1, <2>2
    <2> QED BY <1>2, <2>1, <2>2, <2>4, <2>5
  <1>3. CASE ~Sends(p, h.step)
    <2>1. /\ hs' = [hs EXCEPT ![p] = h] /\ buf' = [buf EXCEPT ![p] = Unset]
          /\ pc' = [pc EXCEPT ![p] = "reading"] /\ Receives(p, h.step)
      BY <1>3 DEF Suspends
    <2>2. Placed(p, h, "reading", Unset)
      BY <2>1 DEF Placed
    <2>3. DriverInv'
      BY <2>1, <2>2, Moves
    <2>4. hs'[p] = h
      BY <1>1, <2>1
    <2> QED BY <1>3, <2>1, <2>3, <2>4
  <1> QED BY <1>2, <1>3

(* Where an adapter neither writes nor reads. *)
Working == {"start", "opening", "writing", "written", "reading", "read"}

(* The adapter goes on to where it neither writes nor reads. *)
LEMMA GoesStep ==
    ASSUME DriverInv, NEW p \in Peers, NEW h, NEW l, Follows(p, h), Goes(p, h, l),
           l \notin Working, net' = net
    PROVE  DriverInv'
  <1>1. Placed(p, h, l, Unset)
    BY DEF Placed, Working
  <1> QED BY <1>1, Moves DEF Goes

(* The object may stay as it is. *)
LEMMA Stays ==
    ASSUME DriverInv, NEW p \in Peers
    PROVE  Follows(p, hs[p])
  <1>1. ClientWith(p, hs[p]) = hs[Client] /\ ServerWith(p, hs[p]) = hs[Server]
    BY DEF ClientWith, ServerWith
  <1>2. ClientGrows(hs[Client], hs[Client]) /\ ServerGrows(hs[Server], hs[Server])
    BY Reflexive
  <1> QED BY <1>1, <1>2 DEF Follows, DriverInv

(* Only the place changes, to where the adapter neither writes nor reads. *)
LEMMA LeavesStep ==
    ASSUME DriverInv, NEW p \in Peers, NEW l, l \notin Working,
           pc' = [pc EXCEPT ![p] = l], UNCHANGED <<hs, buf, net>>
    PROVE  DriverInv'
  <1>1. Placed(p, hs[p], l, buf[p])
    BY DEF Placed, Working
  <1>2. hs' = [hs EXCEPT ![p] = hs[p]] /\ buf' = [buf EXCEPT ![p] = buf[p]]
    BY DEF DriverInv
  <1> QED BY <1>1, <1>2, Stays, Moves

(* Nothing of what the invariant is about changes. *)
LEMMA IdleStep ==
    ASSUME DriverInv, UNCHANGED <<hs, pc, buf, net>>
    PROVE  DriverInv'
  BY DEF DriverInv, PeerInv

(* The stream below takes a message, or delivers one. *)
LEMMA TransportStep ==
    ASSUME DriverInv, NEW p \in Peers, Transmits(p) \/ Arrives(p)
    PROVE  DriverInv'
  <1>1. /\ pc = [q \in Peers |-> pc[q]]
        /\ buf = [q \in Peers |-> buf[q]] /\ net = [q \in Peers |-> net[q]]
    BY DEF DriverInv
  <1>2. hs' = hs /\ PeerInv(Client) /\ PeerInv(Server)
    BY DEF DriverInv, Transmits, Arrives
  <1>3. CASE Transmits(p)
    <2>1. /\ pc[p] = "writing" /\ net'[p] = buf[p] /\ pc'[p] = "written" /\ buf' = buf
          /\ \A q \in Peers : q # p => pc'[q] = pc[q] /\ net'[q] = net[q]
          /\ pc' = [q \in Peers |-> pc'[q]] /\ net' = [q \in Peers |-> net'[q]]
      BY <1>1, <1>3 DEF Transmits
    <2>2. Outgoing(p, hs[Client], hs[Server], buf[p])
      BY <1>2, <2>1 DEF PeerInv
    <2>3. SentBy(p, hs[Client], hs[Server], buf[p])
      BY <2>2 DEF Outgoing, SentBy
    <2>4. \A q \in Peers : PeerInv(q)'
      BY <1>2, <2>1, <2>2, <2>3 DEF PeerInv
    <2> QED BY <1>1, <1>2, <2>1, <2>4 DEF DriverInv
  <1>4. CASE Arrives(p)
    <2> DEFINE o == Other(p)
    <2>1. /\ pc[p] = "reading" /\ buf'[p] = net[o] /\ pc'[p] = "read"
          /\ net[o] # Unset /\ net'[o] = Unset
          /\ \A q \in Peers : q # p => pc'[q] = pc[q] /\ buf'[q] = buf[q]
          /\ \A q \in Peers : q # o => net'[q] = net[q]
          /\ pc' = [q \in Peers |-> pc'[q]] /\ net' = [q \in Peers |-> net'[q]]
          /\ buf' = [q \in Peers |-> buf'[q]]
      BY <1>1, <1>4 DEF Arrives
    <2>2. SentBy(o, hs[Client], hs[Server], buf'[p])
      BY <1>2, <2>1 DEF PeerInv
    <2>3. \A q \in Peers : PeerInv(q)'
      BY <1>2, <2>1, <2>2 DEF PeerInv
    <2> QED BY <1>2, <2>1, <2>3 DEF DriverInv
  <1> QED BY <1>3, <1>4

(* A peer hangs or crashes, or a message is damaged. *)
LEMMA FaultsStep ==
    ASSUME DriverInv, NEW p \in Peers, Faults(p)
    PROVE  DriverInv' /\ UNCHANGED <<hs, pc, buf, authorizer>>
  <1>1. CASE Hangs(p)
    BY <1>1, IdleStep DEF Hangs
  <1>2. CASE Damages(p)
    <2>1. UNCHANGED <<hs, pc, buf, authorizer>> /\ net' = [net EXCEPT ![p] = Noise]
      BY <1>2 DEF Damages
    <2>2. net'[p] = Noise /\ net' = [q \in Peers |-> net'[q]]
          /\ \A q \in Peers : q # p => net'[q] = net[q]
      BY <2>1 DEF DriverInv
    <2>3. \A q \in Peers : PeerInv(q)'
      BY <2>1, <2>2 DEF DriverInv, PeerInv, SentBy
    <2> QED BY <2>1, <2>2, <2>3 DEF DriverInv
  <1> QED BY <1>1, <1>2 DEF Faults

----------------------------------------------------------------------------
(***************************************************************************)
(* The Cap'n Proto adapter.                                                *)
(***************************************************************************)

(* Peer p's promise is, or is about to be, a stream: its Handshake object  *)
(* finished, the session is that object's, and a server's client was       *)
(* admitted.                                                               *)
SessionInv(p) ==
    /\ pc[p] = "resolved" \/ result[p] = "stream" =>
          /\ hs[p].step = Finished /\ session[p] = getOutcome(hs[p].impl)
          /\ p = Server => Welcome
    /\ result[p] = "stream" => pc[p] = "settled"

ConnInv ==
    /\ DriverInv
    /\ session = [p \in Peers |-> session[p]] /\ result = [p \in Peers |-> result[p]]
    /\ \A p \in Peers : SessionInv(p)

(* The invariant holds when wrap() is called. *)
LEMMA ConnInit == WrapInit => ConnInv
  <1> SUFFICES ASSUME WrapInit PROVE ConnInv
    OBVIOUS
  <1>1. DriverInv
    BY DriverStarts DEF WrapInit
  <1>2. \A p \in Peers : pc[p] = "start" /\ result[p] = "pending"
    BY DEF WrapInit, DriverInit
  <1> QED BY <1>1, <1>2 DEF ConnInv, SessionInv, WrapInit

(* A step of p that may end p's own promise leaves the other's alone: p's  *)
(* object and the authorizer are all that the other's session depends on.  *)
LEMMA OthersSession ==
    ASSUME ConnInv, NEW p \in Peers, NEW q \in Peers, q # p,
           hs'[q] = hs[q], pc'[q] = pc[q], session'[q] = session[q],
           result'[q] = result[q], authorizer' = authorizer,
           hs'[Client].impl.X = hs[Client].impl.X
    PROVE  SessionInv(q)'
  BY DEF ConnInv, SessionInv, Welcome

(* runHandshake() keeps the invariant. *)
LEMMA RunHandshakeStep ==
    ASSUME ConnInv, NEW p \in Peers, RunHandshake(p)
    PROVE  ConnInv'
  <1> DEFINE h == Reported(p, Unset)
             s == getOutcome(h.impl)
  <1>1. /\ DriverInv /\ pc[p] \in {"start", "written", "read"}
        /\ net' = net /\ authorizer' = authorizer /\ result' = result
        /\ hs = [q \in Peers |-> hs[q]] /\ pc = [q \in Peers |-> pc[q]]
        /\ session = [q \in Peers |-> session[q]] /\ result = [q \in Peers |-> result[q]]
    BY DEF ConnInv, RunHandshake, DriverInv
  <1>2. Follows(p, h)
    BY <1>1, Reports
  <1>3. result[p] # "stream"
    BY <1>1 DEF ConnInv, SessionInv
  <1>4. CASE h.step = Finished
    <2> DEFINE l == IF Admits(p, s.peerPublicKey) THEN "resolved" ELSE "rejected"
    <2>1. session' = [session EXCEPT ![p] = s] /\ Goes(p, h, l)
      <3>1. ~(Sends(p, h.step) \/ Receives(p, h.step))
        BY <1>4 DEF Sends, Receives
      <3> QED BY <1>4, <3>1 DEF RunHandshake
    <2>2. DriverInv'
      <3>1. l \notin Working
        BY DEF Working
      <3> HIDE DEF l, h
      <3> QED BY <1>1, <1>2, <2>1, <3>1, GoesStep
    <2> HIDE DEF h
    <2>3. /\ hs'[p] = h /\ pc'[p] = l /\ session'[p] = s
          /\ session' = [q \in Peers |-> session'[q]]
          /\ \A q \in Peers : q # p => hs'[q] = hs[q] /\ pc'[q] = pc[q]
                                        /\ session'[q] = session[q]
      BY <1>1, <2>1 DEF Goes
    <2>4. hs'[Client].impl.X = hs[Client].impl.X
      BY <1>2, <2>3 DEF Follows, ClientWith, ClientGrows
    <2>5. SessionInv(p)'
      <3>1. p = Server /\ l = "resolved" => Welcome'
        <4> SUFFICES ASSUME p = Server, l = "resolved" PROVE Welcome'
          OBVIOUS
        <4>1. Paired(hs[Client], h)
          BY <1>2 DEF Follows, ClientWith, ServerWith
        <4>2. h.impl.Yp = hs[Client].impl.X
          BY <1>4, <4>1, ServerAgrees
        <4>3. Authorizes(authorizer, h.impl.Yp)
          BY DEF Admits, getOutcome
        <4> QED BY <1>1, <2>4, <4>2, <4>3 DEF Welcome
      <3> HIDE DEF l
      <3> QED BY <1>1, <1>3, <1>4, <2>3, <3>1 DEF SessionInv
    <2>6. \A q \in Peers : q # p => SessionInv(q)'
      BY <1>1, <2>3, <2>4, OthersSession
    <2> QED BY <1>1, <2>2, <2>3, <2>5, <2>6 DEF ConnInv
  <1>5. CASE h.step # Finished
    <2>1. session' = session
      BY <1>5 DEF RunHandshake
    <2>2. Suspends(p, h) \/ Goes(p, h, "rejected")
      BY <1>5 DEF RunHandshake
    <2> HIDE DEF h
    <2>3. /\ DriverInv' /\ pc'[p] \in {"writing", "reading", "rejected"}
          /\ \A q \in Peers : q # p => hs'[q] = hs[q] /\ pc'[q] = pc[q]
          /\ hs'[Client].impl.X = hs[Client].impl.X
      <3>1. CASE Suspends(p, h)
        <4>1. /\ DriverInv' /\ Follows(p, hs'[p]) /\ hs' = [hs EXCEPT ![p] = hs'[p]]
              /\ pc' = [pc EXCEPT ![p] = IF Sends(p, h.step) THEN "writing" ELSE "reading"]
          BY <1>1, <1>2, <3>1, SuspendsStep
        <4>2. pc'[p] \in {"writing", "reading", "rejected"}
          BY <1>1, <4>1
        <4>3. \A q \in Peers : q # p => hs'[q] = hs[q] /\ pc'[q] = pc[q]
          BY <1>1, <4>1
        <4>4. hs'[Client].impl.X = hs[Client].impl.X
          BY <4>1, <4>3 DEF Follows, ClientWith, ClientGrows
        <4> QED BY <4>1, <4>2, <4>3, <4>4
      <3>2. CASE Goes(p, h, "rejected")
        <4>1. DriverInv'
          BY <1>1, <1>2, <3>2, GoesStep DEF Working
        <4>2. /\ hs'[p] = h /\ pc'[p] = "rejected"
              /\ \A q \in Peers : q # p => hs'[q] = hs[q] /\ pc'[q] = pc[q]
          BY <1>1, <3>2 DEF Goes
        <4>3. hs'[Client].impl.X = hs[Client].impl.X
          BY <1>2, <4>2 DEF Follows, ClientWith, ClientGrows
        <4> QED BY <4>1, <4>2, <4>3
      <3> QED BY <2>2, <3>1, <3>2
    <2>4. SessionInv(p)'
      BY <1>1, <1>3, <2>3 DEF SessionInv
    <2>5. \A q \in Peers : q # p => SessionInv(q)'
      BY <1>1, <2>1, <2>3, OthersSession
    <2> QED BY <1>1, <2>1, <2>3, <2>4, <2>5 DEF ConnInv
  <1> QED BY <1>4, <1>5

(* So does a runHandshake() that cannot name its peer. *)
LEMMA PeerNameFailsStep ==
    ASSUME ConnInv, NEW p \in Peers, PeerNameFails(p)
    PROVE  ConnInv'
  <1> DEFINE h == Reported(p, Unset)
  <1>1. /\ DriverInv /\ pc[p] \in {"start", "written", "read"}
        /\ net' = net /\ authorizer' = authorizer /\ result' = result /\ session' = session
        /\ hs = [q \in Peers |-> hs[q]] /\ pc = [q \in Peers |-> pc[q]]
        /\ session = [q \in Peers |-> session[q]] /\ result = [q \in Peers |-> result[q]]
        /\ Goes(p, h, "rejected")
    BY DEF ConnInv, PeerNameFails, DriverInv
  <1>2. Follows(p, h)
    BY <1>1, Reports
  <1>3. result[p] # "stream"
    BY <1>1 DEF ConnInv, SessionInv
  <1> HIDE DEF h
  <1>4. DriverInv'
    BY <1>1, <1>2, GoesStep DEF Working
  <1>5. /\ hs'[p] = h /\ pc'[p] = "rejected"
        /\ \A q \in Peers : q # p => hs'[q] = hs[q] /\ pc'[q] = pc[q]
    BY <1>1 DEF Goes
  <1>6. hs'[Client].impl.X = hs[Client].impl.X
    BY <1>2, <1>5 DEF Follows, ClientWith, ClientGrows
  <1>7. SessionInv(p)'
    BY <1>1, <1>3, <1>5 DEF SessionInv
  <1>8. \A q \in Peers : q # p => SessionInv(q)'
    BY <1>1, <1>5, <1>6, OthersSession
  <1> QED BY <1>1, <1>4, <1>7, <1>8 DEF ConnInv

(* A step that changes p's place, and its promise, and no object: of       *)
(* InnerThrows, the continuations of connect() or the timer.               *)
LEMMA PlaceStep ==
    ASSUME ConnInv, NEW p \in Peers, NEW l \in {"rejected", "settled"}, NEW v,
           pc' = [pc EXCEPT ![p] = l], result' = [result EXCEPT ![p] = v],
           UNCHANGED <<hs, buf, net, authorizer, session>>,
           v = "stream" => l = "settled" /\ (pc[p] = "resolved" \/ result[p] = "stream")
    PROVE  ConnInv'
  <1>1. DriverInv'
    BY LeavesStep DEF ConnInv, Working
  <1>2. /\ pc'[p] = l /\ result'[p] = v /\ result' = [q \in Peers |-> result'[q]]
        /\ \A q \in Peers : q # p => pc'[q] = pc[q] /\ result'[q] = result[q]
    BY DEF ConnInv, DriverInv
  <1>3. SessionInv(p)'
    BY <1>2 DEF ConnInv, SessionInv, Welcome
  <1>4. \A q \in Peers : q # p => SessionInv(q)'
    BY <1>2, OthersSession
  <1> QED BY <1>1, <1>2, <1>3, <1>4 DEF ConnInv

(* Every step keeps the invariant. *)
LEMMA ConnNext == ConnInv /\ [WrapNext]_wrapVars => ConnInv'
  <1> SUFFICES ASSUME ConnInv, [WrapNext]_wrapVars PROVE ConnInv'
    OBVIOUS
  <1>1. CASE UNCHANGED wrapVars
    BY <1>1, IdleStep DEF wrapVars, driver, ConnInv, SessionInv, Welcome
  <1>2. CASE WrapDone
    BY <1>2, IdleStep DEF WrapDone, wrapVars, driver, ConnInv, SessionInv, Welcome
  <1>3. ASSUME NEW p \in Peers, RunHandshake(p)
        PROVE  ConnInv'
    BY <1>3, RunHandshakeStep
  <1>n. ASSUME NEW p \in Peers, PeerNameFails(p)
        PROVE  ConnInv'
    BY <1>n, PeerNameFailsStep
  <1>4. ASSUME NEW p \in Peers, InnerThrows(p)
        PROVE  ConnInv'
    <2>1. result' = [result EXCEPT ![p] = result[p]]
      BY <1>4 DEF InnerThrows, ConnInv
    <2>2. result[p] # "stream"
      BY <1>4 DEF InnerThrows, Cut, ConnInv, SessionInv
    <2> QED BY <1>4, <2>1, <2>2, PlaceStep DEF InnerThrows
  <1>5. ASSUME NEW p \in Peers, Connected(p)
        PROVE  ConnInv'
    BY <1>5, PlaceStep DEF Connected, Settles
  <1>6. ASSUME NEW p \in Peers, ConnectFails(p) \/ Timeout(p)
        PROVE  ConnInv'
    BY <1>6, PlaceStep DEF ConnectFails, Timeout, Settles
  <1>7. ASSUME NEW p \in Peers, ReadsEnd(p)
        PROVE  ConnInv'
    BY <1>7, IdleStep DEF ReadsEnd, driver, ConnInv, SessionInv, Welcome
  <1>8. ASSUME NEW p \in Peers, WrapBelow(p)
        PROVE  ConnInv'
    <2>1. DriverInv'
      BY <1>8, TransportStep DEF WrapBelow, Transport, ConnInv
    <2>2. /\ UNCHANGED <<hs, authorizer, session, result>>
          /\ \A q \in Peers : pc'[q] # pc[q] => pc'[q] \in Working /\ pc[q] \in Working
      BY <1>8 DEF WrapBelow, Transport, Transmits, Arrives, ConnInv, DriverInv, Working
    <2> QED BY <2>1, <2>2 DEF ConnInv, SessionInv, Welcome, Working
  <1>9. ASSUME NEW p \in Peers, Faults(p), UNCHANGED <<timed, session, result, sawEnd>>
        PROVE  ConnInv'
    BY <1>9, FaultsStep DEF ConnInv, SessionInv, Welcome
  <1> QED BY <1>1, <1>2, <1>3, <1>n, <1>4, <1>5, <1>6, <1>7, <1>8, <1>9 DEF WrapNext, WrapOwn

(* A wrap() that yields a stream has authenticated and admitted its peer:  *)
(* the server's stream leads to the client whose identity it shows, which  *)
(* the authorizer admits, the client's to the server it meant, and two     *)
(* streams fit.  For all applications, keys, authorizers and faults.       *)
THEOREM WrapAuthenticates == WrapSpec => []Admission
  <1>1. ConnInv => Admission
    <2> SUFFICES ASSUME ConnInv PROVE Admission
      OBVIOUS
    <2>1. Paired(hs[Client], hs[Server])
      BY DEF ConnInv, DriverInv
    <2>2. \A p \in Peers : result[p] = "stream" =>
             /\ hs[p].step = Finished /\ session[p] = getOutcome(hs[p].impl)
             /\ p = Server => Welcome
      BY DEF ConnInv, SessionInv
    <2>3. result[Server] = "stream" =>
             /\ SameApp /\ RightServer /\ Welcome
             /\ session[Server].peerPublicKey = hs[Client].impl.X
      BY <2>1, <2>2, ServerAgrees DEF SameApp, RightServer, getOutcome
    <2>4. result[Client] = "stream" => SameApp /\ RightServer
      BY <2>1, <2>2, ClientAgrees, ServerAgrees DEF SameApp, RightServer
    <2>5. (\A p \in Peers : result[p] = "stream") => Fit(session[Client], session[Server])
      BY <2>1, <2>2, ClientAgrees
    <2> QED BY <2>3, <2>4, <2>5 DEF Admission
  <1>2. WrapSpec => []ConnInv
    BY ConnInit, ConnNext, PTL DEF WrapSpec
  <1> QED BY <1>1, <1>2, PTL

----------------------------------------------------------------------------
(***************************************************************************)
(* The crouton adapter.                                                    *)
(***************************************************************************)

(* What open() has done and reported on p's side. *)
ReportInv(p) ==
    /\ pc[p] \in Working => result[p] = "pending"
    /\ isOpen[p] => result[p] = "ok"
    /\ result[p] = "ok" => pc[p] = "ended" /\ hs[p].step = Finished
    /\ pc[p] = "closing" => p \in down
    /\ result[p] \in Failures =>
          /\ p \in down
          /\ \/ pc[p] = "closing"
             \/ /\ pc[p] = "ended"
                /\ delegate[p] => told[p] \/ result[p] = "CloseError"

OpenInv ==
    /\ DriverInv
    /\ result = [p \in Peers |-> result[p]] /\ isOpen = [p \in Peers |-> isOpen[p]]
    /\ told = [p \in Peers |-> told[p]] /\ closers = [p \in Peers |-> closers[p]]
    /\ hs[Server].step \in {ServerAck, Finished} => Welcome
    /\ \A p \in Peers : ReportInv(p)

(* How far a peer is: its step, counting a message as soon as it is sent.  *)
Pos(p) == IF pc[p] = "written" THEN hs[p].step + 1 ELSE hs[p].step

(* Peer q's message m is under way, or in the hands of the other's         *)
(* handshake(); or nothing of q's is.                                      *)
UnderWay(q, m) ==
    \/ net[q] = m /\ pc[Other(q)] # "read"
    \/ net[q] = Unset /\ pc[Other(q)] = "read" /\ buf[Other(q)] = m
Idle(q) == net[q] = Unset /\ pc[Other(q)] # "read"

(* The phases of an undisturbed open(): each message is written, then read *)
(* and accepted.                                                           *)
Running ==
    \/ Idle(Client) /\ Idle(Server) /\ Pos(Client) = Pos(Server) /\ Pos(Client) \in 1 .. 5
    \/ /\ Pos(Client) = 2 /\ Pos(Server) = 1
       /\ UnderWay(Client, createChallenge(hs[Client].impl)) /\ Idle(Server)
    \/ /\ Pos(Client) = 2 /\ Pos(Server) = 3
       /\ UnderWay(Server, createChallenge(hs[Server].impl)) /\ Idle(Client)
    \/ /\ Pos(Client) = 4 /\ Pos(Server) = 3
       /\ UnderWay(Client, AuthOf(hs[Client].impl)) /\ Idle(Server)
    \/ /\ Pos(Client) = 4 /\ Pos(Server) = 5
       /\ UnderWay(Server, AckOf(hs[Server].impl)) /\ Idle(Client)

(* No failure on either side; but open() of a client with a delegate has   *)
(* no chance.                                                              *)
Healthy ==
    /\ Running /\ down = {}
    /\ \A p \in Peers :
          /\ hs[p].step # Failed
          /\ \/ result[p] \in {"pending", "ok"}
             \/ /\ result[p] = "bad_cast" /\ p = Client /\ delegate[p]
                /\ pc[p] = "ended" /\ hs[p].step = ClientChallenge

(* The server has refused the client's message, and the client waits for   *)
(* an answer, or has found the connection closed.                          *)
Refused(e, pos) ==
    /\ Idle(Client) /\ Idle(Server) /\ hs[Server].step = Failed /\ result[Server] = e
    /\ \/ Pos(Client) = pos /\ result[Client] = "pending"
       \/ pc[Client] \in {"closing", "ended"} /\ result[Client] \in {e, "IOError"}

Phases ==
    \/ Healthy
    \/ Refused(ProtocolError, 2) /\ ~SameApp
    \/ Refused(AuthError, 4) /\ SameApp /\ ~(RightServer /\ Welcome)

PhaseInv == faults \in Nat /\ (Undisturbed => hung = {} /\ Phases)

----------------------------------------------------------------------------
(* The invariant of open().                                                *)

(* It holds before open() is called. *)
LEMMA OpenInit == Init => OpenInv
  <1> SUFFICES ASSUME Init PROVE OpenInv
    OBVIOUS
  <1>1. DriverInv
    BY DriverStarts DEF Init
  <1>2. \A p \in Peers : pc[p] = "start" /\ result[p] = "pending" /\ ~isOpen[p]
    BY DEF Init, DriverInit
  <1>3. hs[Server].step = 1
    BY DEF Init, DriverInit
  <1>4. \A p \in Peers : ReportInv(p)
    BY <1>2 DEF ReportInv, Failures, ProtocolError, AuthError
  <1> QED BY <1>1, <1>3, <1>4 DEF OpenInv, Init

(* A step of p leaves alone what the other's open() has done, and a client *)
(* admitted stays so.                                                      *)
LEMMA OpenFrame ==
    ASSUME OpenInv, NEW p \in Peers, DriverInv', Follows(p, hs'[p]), ReportInv(p)',
           hs' = [hs EXCEPT ![p] = hs'[p]], pc' = [pc EXCEPT ![p] = pc'[p]],
           result' = [result EXCEPT ![p] = result'[p]],
           isOpen' = [isOpen EXCEPT ![p] = isOpen'[p]],
           told' = [told EXCEPT ![p] = told'[p]],
           closers' = [closers EXCEPT ![p] = closers'[p]],
           UNCHANGED <<delegate, authorizer>>, down \subseteq down',
           p = Server /\ hs'[p].step \in {ServerAck, Finished} =>
               hs[p].step \in {ServerAck, Finished} \/ Welcome
    PROVE  OpenInv'
  <1>1. /\ hs = [q \in Peers |-> hs[q]] /\ pc = [q \in Peers |-> pc[q]]
        /\ result = [q \in Peers |-> result[q]] /\ isOpen = [q \in Peers |-> isOpen[q]]
        /\ told = [q \in Peers |-> told[q]] /\ closers = [q \in Peers |-> closers[q]]
    BY DEF OpenInv, DriverInv
  <1>2. /\ result' = [q \in Peers |-> result'[q]] /\ isOpen' = [q \in Peers |-> isOpen'[q]]
        /\ told' = [q \in Peers |-> told'[q]] /\ closers' = [q \in Peers |-> closers'[q]]
    BY <1>1
  <1>3. \A q \in Peers : q # p => /\ hs'[q] = hs[q] /\ pc'[q] = pc[q] /\ result'[q] = result[q]
                                  /\ isOpen'[q] = isOpen[q] /\ told'[q] = told[q]
    BY <1>1
  <1>4. \A q \in Peers : q # p => ReportInv(q)'
    BY <1>3 DEF OpenInv, ReportInv
  <1>5. hs'[Client].impl.X = hs[Client].impl.X
    BY <1>3 DEF Follows, ClientWith, ClientGrows
  <1>6. Welcome' = Welcome
    BY <1>5 DEF Welcome
  <1>7. hs'[Server].step \in {ServerAck, Finished} => Welcome'
    BY <1>3, <1>6 DEF OpenInv
  <1> QED BY <1>2, <1>4, <1>7 DEF OpenInv

(* open() suspends on the stream below, or goes on to l, with object h. *)
LEMMA Advances ==
    ASSUME OpenInv, NEW p \in Peers, NEW h, Follows(p, h), net' = net,
           Suspends(p, h) \/ \E l \in {"opening", "closing", "ended"} :
               Goes(p, h, l) /\ (l = "opening" => h.step = ClientChallenge)
    PROVE  /\ DriverInv' /\ Follows(p, hs'[p])
           /\ hs' = [hs EXCEPT ![p] = hs'[p]] /\ pc' = [pc EXCEPT ![p] = pc'[p]]
           /\ hs'[p].step = h.step /\ hs'[p].error = h.error
           /\ Suspends(p, h) => pc'[p] \in {"writing", "reading"}
           /\ \A l : Goes(p, h, l) => hs'[p] = h /\ pc'[p] = l
           /\ \A q \in Peers : q # p => buf'[q] = buf[q]
  <1>1. /\ DriverInv /\ hs = [q \in Peers |-> hs[q]] /\ pc = [q \in Peers |-> pc[q]]
        /\ buf = [q \in Peers |-> buf[q]]
    BY DEF OpenInv, DriverInv
  <1>2. ASSUME NEW l, Goes(p, h, l)
        PROVE  hs'[p] = h /\ pc'[p] = l
    BY <1>1, <1>2 DEF Goes
  <1>3. \A q \in Peers : q # p => buf'[q] = buf[q]
    BY <1>1 DEF Goes, Suspends
  <1>4. CASE Suspends(p, h)
    <2>1. /\ DriverInv' /\ Follows(p, hs'[p]) /\ hs' = [hs EXCEPT ![p] = hs'[p]]
          /\ hs'[p].step = h.step /\ hs'[p].error = h.error
          /\ pc' = [pc EXCEPT ![p] = IF Sends(p, h.step) THEN "writing" ELSE "reading"]
      BY <1>1, <1>4, SuspendsStep
    <2>2. pc' = [pc EXCEPT ![p] = pc'[p]] /\ pc'[p] \in {"writing", "reading"}
      BY <1>1, <2>1
    <2> QED BY <1>2, <1>3, <2>1, <2>2
  <1>5. ASSUME NEW l \in {"opening", "closing", "ended"}, Goes(p, h, l),
               l = "opening" => h.step = ClientChallenge
        PROVE  /\ DriverInv' /\ hs' = [hs EXCEPT ![p] = h] /\ pc' = [pc EXCEPT ![p] = l]
    <2>1. Placed(p, h, l, Unset)
      BY <1>5 DEF Placed
    <2> QED BY <1>1, <1>5, <2>1, Moves DEF Goes
  <1>6. Suspends(p, h) => pc'[p] \in {"writing", "reading"}
    BY <1>1 DEF Suspends
  <1> QED BY <1>2, <1>3, <1>4, <1>5, <1>6

(* open() up to its first AWAIT. *)
LEMMA OpenStep ==
    ASSUME OpenInv, NEW p \in Peers, Open(p) \/ RawOpens(p)
    PROVE  /\ OpenInv' /\ Follows(p, hs'[p])
           /\ hs' = [hs EXCEPT ![p] = hs'[p]] /\ hs'[p].step = hs[p].step
           /\ pc[p] \in {"start", "opening"} /\ pc' = [pc EXCEPT ![p] = pc'[p]]
           /\ pc'[p] \in {"opening", "writing", "reading", "ended"}
           /\ \A q \in Peers : q # p => buf'[q] = buf[q] /\ result'[q] = result[q]
           /\ \/ result' = result
              \/ result'[p] = "bad_cast" /\ p = Client /\ delegate[p]
  <1>1. /\ DriverInv /\ ReportInv(p) /\ Follows(p, hs[p])
        /\ result = [q \in Peers |-> result[q]] /\ isOpen = [q \in Peers |-> isOpen[q]]
        /\ told = [q \in Peers |-> told[q]] /\ closers = [q \in Peers |-> closers[q]]
    BY Stays DEF OpenInv
  <1>2. /\ UNCHANGED <<net, down, authorizer, delegate, isOpen, closers, told>>
        /\ pc[p] \in {"start", "opening"}
    BY DEF Open, RawOpens
  <1>3. \/ Suspends(p, hs[p]) /\ result' = result
        \/ Goes(p, hs[p], "opening") /\ result' = result
        \/ /\ Goes(p, hs[p], "ended") /\ p = Client /\ delegate[p]
           /\ result' = [result EXCEPT ![p] = "bad_cast"]
    <2>1. CASE Open(p)
      BY <2>1 DEF Open
    <2>2. CASE RawOpens(p)
      BY <2>2 DEF RawOpens
    <2> QED BY <2>1, <2>2
  <1>4. hs[p].step = ClientChallenge
    BY <1>1, <1>2 DEF DriverInv, PeerInv
  <1>5. /\ DriverInv' /\ Follows(p, hs'[p])
        /\ hs' = [hs EXCEPT ![p] = hs'[p]] /\ pc' = [pc EXCEPT ![p] = pc'[p]]
        /\ hs'[p].step = hs[p].step
        /\ Suspends(p, hs[p]) => pc'[p] \in {"writing", "reading"}
        /\ \A l : Goes(p, hs[p], l) => pc'[p] = l
        /\ \A q \in Peers : q # p => buf'[q] = buf[q]
    BY <1>1, <1>2, <1>3, <1>4, Advances
  <1>6. \/ result' = result /\ pc'[p] \in {"opening", "writing", "reading"}
        \/ /\ result'[p] = "bad_cast" /\ p = Client /\ delegate[p]
           /\ pc'[p] = "ended"
    BY <1>1, <1>3, <1>5
  <1>7. /\ result' = [result EXCEPT ![p] = result'[p]]
        /\ \A q \in Peers : q # p => result'[q] = result[q]
    BY <1>1, <1>3
  <1>8. ReportInv(p)'
    <2>1. result[p] = "pending" /\ ~isOpen[p]
      BY <1>1, <1>2 DEF ReportInv, Working
    <2> QED BY <1>2, <1>6, <2>1 DEF ReportInv, Working, Failures, ProtocolError, AuthError
  <1>9. /\ isOpen' = [isOpen EXCEPT ![p] = isOpen'[p]]
        /\ told' = [told EXCEPT ![p] = told'[p]]
        /\ closers' = [closers EXCEPT ![p] = closers'[p]]
    BY <1>1, <1>2
  <1>10. OpenInv'
    BY <1>2, <1>4, <1>5, <1>7, <1>8, <1>9, OpenFrame
  <1> QED BY <1>2, <1>5, <1>6, <1>7, <1>10

(* The handshake fails: open() closes the stream below. *)
LEMMA FailsStep ==
    ASSUME OpenInv, NEW p \in Peers, NEW h, NEW e, Follows(p, h), Fails(p, h, e),
           pc[p] \in Working, e # "ok", UNCHANGED <<net, delegate, authorizer, told, closers>>,
           h.step \in {ServerAck, Finished} => hs[p].step \in {ServerAck, Finished}
    PROVE  /\ OpenInv' /\ hs' = [hs EXCEPT ![p] = h] /\ hs'[p] = h
           /\ pc' = [pc EXCEPT ![p] = "closing"] /\ pc'[p] = "closing"
           /\ result' = [result EXCEPT ![p] = e] /\ result'[p] = e
           /\ down' = down \cup {p}
           /\ \A q \in Peers : q # p => buf'[q] = buf[q]
  <1>1. /\ DriverInv /\ ReportInv(p)
        /\ result = [q \in Peers |-> result[q]] /\ isOpen = [q \in Peers |-> isOpen[q]]
        /\ told = [q \in Peers |-> told[q]] /\ closers = [q \in Peers |-> closers[q]]
    BY DEF OpenInv
  <1>2. /\ Goes(p, h, "closing") /\ result' = [result EXCEPT ![p] = e]
        /\ down' = down \cup {p} /\ isOpen' = isOpen
    BY DEF Fails
  <1>3. /\ DriverInv' /\ Follows(p, hs'[p]) /\ hs' = [hs EXCEPT ![p] = hs'[p]]
        /\ pc' = [pc EXCEPT ![p] = pc'[p]] /\ hs'[p] = h /\ pc'[p] = "closing"
        /\ \A q \in Peers : q # p => buf'[q] = buf[q]
    BY <1>2, Advances
  <1>4. result' = [result EXCEPT ![p] = result'[p]] /\ result'[p] = e
    BY <1>1, <1>2
  <1>5. /\ isOpen' = [isOpen EXCEPT ![p] = isOpen'[p]]
        /\ told' = [told EXCEPT ![p] = told'[p]]
        /\ closers' = [closers EXCEPT ![p] = closers'[p]]
    BY <1>1, <1>2
  <1>6. ReportInv(p)'
    <2>1. ~isOpen[p]
      BY <1>1 DEF ReportInv
    <2> QED BY <1>2, <1>3, <1>4, <2>1 DEF ReportInv, Working
  <1>7. OpenInv'
    BY <1>2, <1>3, <1>4, <1>5, <1>6, OpenFrame
  <1> QED BY <1>2, <1>3, <1>4, <1>7

(* The loop in handshake() goes on after a write or read, or is over. *)
LEMMA ResumeStep ==
    ASSUME OpenInv, NEW p \in Peers, Resume(p)
    PROVE  LET h == Reported(p, DelegateAuthorizer)
           IN  /\ OpenInv' /\ Follows(p, hs'[p])
               /\ hs' = [hs EXCEPT ![p] = hs'[p]] /\ hs'[p].step = h.step
               /\ pc' = [pc EXCEPT ![p] = pc'[p]]
               /\ \A q \in Peers : q # p => buf'[q] = buf[q] /\ result'[q] = result[q]
               /\ \/ /\ h.step = Failed /\ pc'[p] = "closing" /\ result'[p] = h.error
                  \/ /\ h.step # Failed /\ down' = down
                     /\ \/ pc'[p] \in {"writing", "reading"} /\ result' = result
                        \/ pc'[p] = "ended" /\ result'[p] = "ok"
  <1> DEFINE h == Reported(p, DelegateAuthorizer)
  <1>1. /\ DriverInv /\ ReportInv(p) /\ pc[p] \in {"written", "read"}
        /\ result = [q \in Peers |-> result[q]] /\ isOpen = [q \in Peers |-> isOpen[q]]
        /\ told = [q \in Peers |-> told[q]] /\ closers = [q \in Peers |-> closers[q]]
        /\ hs = [q \in Peers |-> hs[q]] /\ pc = [q \in Peers |-> pc[q]]
    BY DEF OpenInv, Resume, DriverInv
  <1>2. UNCHANGED <<net, hung, authorizer, faults, raw, delegate, closers, told>>
    BY DEF Resume
  <1>3. /\ Follows(p, h)
        /\ \/ /\ h.step = hs[p].step + 1
              /\ p = Server /\ h.step = ServerAck => Authorizes(authorizer, hs[Client].impl.X)
           \/ h.step = Failed /\ h.error = FailureError(hs[p].step)
    BY <1>1, Reports DEF DelegateAuthorizer
  <1>4. \/ h.step \notin {Finished, Failed} /\ Suspends(p, h) /\ UNCHANGED <<down, isOpen, result>>
        \/ h.step = Failed /\ Fails(p, h, h.error)
        \/ /\ h.step = Finished /\ Goes(p, h, "ended") /\ down' = down
           /\ isOpen' = [isOpen EXCEPT ![p] = TRUE] /\ result' = [result EXCEPT ![p] = "ok"]
    <2>1. CASE h.step \notin {Finished, Failed}
      BY <2>1 DEF Resume, LoopOver
    <2>2. CASE h.step = Failed
      BY <2>2 DEF Resume, LoopOver
    <2>3. CASE h.step = Finished
      BY <2>3 DEF Resume, LoopOver
    <2> QED BY <2>1, <2>2, <2>3
  <1>5. p = Server /\ h.step \in {ServerAck, Finished} =>
            hs[p].step \in {ServerAck, Finished} \/ Welcome
    <2>1. hs[Server].step \in 0 .. 5
      BY <1>1 DEF DriverInv, Paired, HandshakesOf, Steps
    <2> HIDE DEF h
    <2> QED BY <1>3, <2>1 DEF Welcome
  <1>6. /\ told' = [told EXCEPT ![p] = told'[p]]
        /\ closers' = [closers EXCEPT ![p] = closers'[p]]
    BY <1>1, <1>2
  <1>7. result[p] = "pending" /\ ~isOpen[p]
    BY <1>1 DEF ReportInv, Working
  <1> HIDE DEF h
  <1>8. CASE h.step = Failed
    <2>1. Fails(p, h, h.error) /\ h.error # "ok"
      <3>1. hs[p].step \in 0 .. 5
        BY <1>1 DEF DriverInv, Paired, HandshakesOf, Steps
      <3> QED BY <1>3, <1>4, <1>8, <3>1 DEF FailureError, ProtocolError, AuthError
    <2>2. /\ OpenInv' /\ hs' = [hs EXCEPT ![p] = h] /\ hs'[p] = h
          /\ pc' = [pc EXCEPT ![p] = "closing"] /\ pc'[p] = "closing"
          /\ result' = [result EXCEPT ![p] = h.error] /\ result'[p] = h.error
          /\ \A q \in Peers : q # p => buf'[q] = buf[q]
      BY <1>1, <1>2, <1>3, <1>8, <2>1, FailsStep DEF Working
    <2>3. \A q \in Peers : q # p => result'[q] = result[q]
      BY <1>1, <2>2
    <2> QED BY <1>3, <1>8, <2>2, <2>3 DEF h
  <1>9. CASE h.step # Failed
    <2>1. \/ Suspends(p, h) /\ UNCHANGED <<down, isOpen, result>>
          \/ /\ h.step = Finished /\ Goes(p, h, "ended") /\ down' = down
             /\ isOpen' = [isOpen EXCEPT ![p] = TRUE] /\ result' = [result EXCEPT ![p] = "ok"]
      BY <1>4, <1>9
    <2>2. /\ DriverInv' /\ Follows(p, hs'[p])
          /\ hs' = [hs EXCEPT ![p] = hs'[p]] /\ pc' = [pc EXCEPT ![p] = pc'[p]]
          /\ hs'[p].step = h.step
          /\ Suspends(p, h) => pc'[p] \in {"writing", "reading"}
          /\ \A l : Goes(p, h, l) => pc'[p] = l
          /\ \A q \in Peers : q # p => buf'[q] = buf[q]
      BY <1>2, <1>3, <2>1, Advances
    <2>3. /\ result' = [result EXCEPT ![p] = result'[p]]
          /\ isOpen' = [isOpen EXCEPT ![p] = isOpen'[p]]
          /\ \A q \in Peers : q # p => result'[q] = result[q]
      BY <1>1, <2>1
    <2>4. \/ /\ pc'[p] \in {"writing", "reading"} /\ UNCHANGED <<isOpen, result>>
          \/ pc'[p] = "ended" /\ result'[p] = "ok" /\ hs'[p].step = Finished
      BY <1>1, <2>1, <2>2
    <2>5. ReportInv(p)'
      BY <1>7, <2>4 DEF ReportInv, Working, Failures, ProtocolError, AuthError
    <2>6. down' = down
      BY <2>1
    <2>7. OpenInv'
      BY <1>2, <1>5, <1>6, <2>2, <2>3, <2>5, <2>6, OpenFrame
    <2> QED BY <1>9, <2>2, <2>3, <2>4, <2>6, <2>7 DEF h
  <1> QED BY <1>8, <1>9

(* A read that ends short. *)
LEMMA ShortReadStep ==
    ASSUME OpenInv, NEW p \in Peers, ShortRead(p)
    PROVE  /\ OpenInv' /\ Cut(p) /\ pc[p] = "reading" /\ Follows(p, hs'[p])
           /\ hs' = [hs EXCEPT ![p] = hs'[p]] /\ pc' = [pc EXCEPT ![p] = "closing"]
           /\ result' = [result EXCEPT ![p] = FailureError(hs[p].step)]
           /\ \A q \in Peers : q # p => buf'[q] = buf[q]
  <1> DEFINE h == FailedAt(hs[p])
  <1>1. /\ DriverInv /\ Cut(p) /\ pc[p] = "reading" /\ Fails(p, h, h.error)
        /\ UNCHANGED <<net, hung, authorizer, faults, raw, delegate, closers, told>>
    BY DEF OpenInv, ShortRead
  <1>2. /\ Receives(p, hs[p].step) /\ Paired(hs[Client], hs[Server])
        /\ hs[p] \in HandshakesOf(p)
    BY <1>1 DEF DriverInv, PeerInv, Paired
  <1>3. h.step = Failed /\ h.error = FailureError(hs[p].step)
    BY <1>2, StepFields DEF Receives
  <1>4. Follows(p, h)
    <2>1. CASE p = Client
      <3>1. Paired(h, hs[Server]) /\ ClientGrows(hs[Client], h)
        BY <1>2, <2>1, ClientFails DEF Receives
      <3> HIDE DEF h
      <3> QED BY <2>1, <3>1, Reflexive DEF Follows, ClientWith, ServerWith
    <2>2. CASE p = Server
      <3>1. Paired(hs[Client], h) /\ ServerGrows(hs[Server], h)
        BY <1>2, <2>2, ServerFails DEF Receives
      <3> HIDE DEF h
      <3> QED BY <2>2, <3>1, Reflexive DEF Follows, ClientWith, ServerWith
    <2> QED BY <2>1, <2>2
  <1> HIDE DEF h
  <1>5. h.error # "ok"
    BY <1>3 DEF FailureError, ProtocolError, AuthError
  <1>6. /\ OpenInv' /\ hs' = [hs EXCEPT ![p] = h] /\ hs'[p] = h
        /\ pc' = [pc EXCEPT ![p] = "closing"]
        /\ result' = [result EXCEPT ![p] = h.error]
        /\ \A q \in Peers : q # p => buf'[q] = buf[q]
    BY <1>1, <1>3, <1>4, <1>5, FailsStep DEF Working
  <1> QED BY <1>1, <1>3, <1>4, <1>6

(* An error of the stream below. *)
LEMMA RaisesStep ==
    ASSUME OpenInv, NEW p \in Peers, Raises(p)
    PROVE  /\ OpenInv' /\ hs' = hs
           /\ pc' = [pc EXCEPT ![p] = "closing"]
           /\ result' = [result EXCEPT ![p] = "IOError"]
           /\ \A q \in Peers : q # p => buf'[q] = buf[q]
  <1>1. /\ DriverInv /\ Fails(p, hs[p], "IOError") /\ Follows(p, hs[p])
        /\ UNCHANGED <<net, hung, authorizer, raw, delegate, closers, told>>
        /\ hs = [q \in Peers |-> hs[q]]
    BY Stays DEF OpenInv, Raises, DriverInv
  <1>2. pc[p] \in Working
    BY DEF Raises, Cut, Working
  <1>3. /\ OpenInv' /\ hs' = [hs EXCEPT ![p] = hs[p]]
        /\ pc' = [pc EXCEPT ![p] = "closing"]
        /\ result' = [result EXCEPT ![p] = "IOError"]
        /\ \A q \in Peers : q # p => buf'[q] = buf[q]
    BY <1>1, <1>2, FailsStep
  <1> QED BY <1>1, <1>3

(* open() of a failed handshake ends. *)
LEMMA OpenFailedStep ==
    ASSUME OpenInv, NEW p \in Peers, OpenFailed(p)
    PROVE  OpenInv'
  <1>1. /\ DriverInv /\ ReportInv(p) /\ Follows(p, hs[p])
        /\ result = [q \in Peers |-> result[q]] /\ isOpen = [q \in Peers |-> isOpen[q]]
        /\ told = [q \in Peers |-> told[q]] /\ closers = [q \in Peers |-> closers[q]]
        /\ hs = [q \in Peers |-> hs[q]] /\ pc = [q \in Peers |-> pc[q]]
    BY Stays DEF OpenInv, DriverInv
  <1>2. /\ pc[p] = "closing" /\ pc' = [pc EXCEPT ![p] = "ended"]
        /\ UNCHANGED <<hs, buf, net, down, hung, authorizer, raw, delegate, isOpen, closers>>
        /\ \/ told' = Told(p) /\ result' = result
           \/ result' = [result EXCEPT ![p] = "CloseError"] /\ told' = told
    BY DEF OpenFailed
  <1>3. DriverInv'
    BY <1>1, <1>2, LeavesStep DEF Working
  <1>4. /\ hs' = [hs EXCEPT ![p] = hs'[p]] /\ pc' = [pc EXCEPT ![p] = pc'[p]]
        /\ pc'[p] = "ended"
        /\ isOpen' = [isOpen EXCEPT ![p] = isOpen'[p]]
        /\ closers' = [closers EXCEPT ![p] = closers'[p]]
        /\ Follows(p, hs'[p])
    BY <1>1, <1>2
  <1>5. /\ result' = [result EXCEPT ![p] = result'[p]] /\ told' = [told EXCEPT ![p] = told'[p]]
        /\ \/ result'[p] = result[p] /\ (delegate[p] => told'[p])
           \/ result'[p] = "CloseError"
    BY <1>1, <1>2 DEF Told
  <1>6. ReportInv(p)'
    BY <1>1, <1>2, <1>4, <1>5 DEF ReportInv, Working, Failures, ProtocolError, AuthError
  <1> QED BY <1>2, <1>3, <1>4, <1>5, <1>6, OpenFrame

(* close(), and what follows its AWAIT. *)
LEMMA CloseStep ==
    ASSUME OpenInv, NEW p \in Peers, Close(p) \/ CloseEnds(p)
    PROVE  OpenInv'
  <1>1. /\ DriverInv /\ ReportInv(p) /\ Follows(p, hs[p])
        /\ result = [q \in Peers |-> result[q]] /\ isOpen = [q \in Peers |-> isOpen[q]]
        /\ told = [q \in Peers |-> told[q]] /\ closers = [q \in Peers |-> closers[q]]
        /\ hs = [q \in Peers |-> hs[q]] /\ pc = [q \in Peers |-> pc[q]]
    BY Stays DEF OpenInv, DriverInv
  <1>2. /\ UNCHANGED <<hs, pc, buf, net, authorizer, delegate, result>> /\ down \subseteq down'
        /\ \/ isOpen' = [isOpen EXCEPT ![p] = FALSE] /\ told' = told
           \/ isOpen' = isOpen /\ told' = Told(p)
        /\ closers' = [closers EXCEPT ![p] = closers'[p]]
    BY <1>1 DEF Close, CloseEnds, driver
  <1>3. DriverInv'
    BY <1>1, <1>2, IdleStep
  <1>4. /\ hs' = [hs EXCEPT ![p] = hs'[p]] /\ pc' = [pc EXCEPT ![p] = pc'[p]]
        /\ result' = [result EXCEPT ![p] = result'[p]] /\ Follows(p, hs'[p])
    BY <1>1, <1>2
  <1>5. /\ isOpen' = [isOpen EXCEPT ![p] = isOpen'[p]] /\ told' = [told EXCEPT ![p] = told'[p]]
        /\ (isOpen'[p] => isOpen[p]) /\ (told[p] => told'[p])
    BY <1>1, <1>2 DEF Told
  <1>6. ReportInv(p)'
    BY <1>1, <1>2, <1>5 DEF ReportInv
  <1> QED BY <1>2, <1>3, <1>4, <1>5, <1>6, OpenFrame

(* The stream below, and faults: no open() has done anything. *)
LEMMA BelowStep ==
    ASSUME OpenInv, NEW p \in Peers, Transmits(p) \/ Arrives(p) \/ Faults(p),
           UNCHANGED <<raw, delegate, isOpen, result, closers, told>>
    PROVE  OpenInv'
  <1>1. DriverInv'
    BY TransportStep, FaultsStep DEF OpenInv
  <1>2. UNCHANGED <<hs, authorizer>> /\ down \subseteq down'
    BY DEF Transmits, Arrives, Faults, Hangs, Damages
  <1>3. \A q \in Peers : pc'[q] # pc[q] => pc'[q] \in Working /\ pc[q] \in Working
    BY DEF Transmits, Arrives, Faults, Hangs, Damages, OpenInv, DriverInv, Working
  <1>4. \A q \in Peers : ReportInv(q)'
    BY <1>2, <1>3 DEF OpenInv, ReportInv, Working
  <1> QED BY <1>1, <1>2, <1>4 DEF OpenInv, Welcome

(* Every step keeps the invariant. *)
LEMMA OpenNext == OpenInv /\ [Next]_vars => OpenInv'
  <1> SUFFICES ASSUME OpenInv, [Next]_vars PROVE OpenInv'
    OBVIOUS
  <1>1. CASE UNCHANGED vars \/ Done
    <2>1. UNCHANGED <<hs, pc, buf, net, down, authorizer, delegate, isOpen, result, closers, told>>
      BY <1>1 DEF Done, vars, driver
    <2> QED BY <2>1, IdleStep DEF OpenInv, ReportInv, Welcome
  <1>2. ASSUME NEW p \in Peers, Own(p)
        PROVE  OpenInv'
    BY <1>2, OpenStep, ResumeStep, ShortReadStep, OpenFailedStep DEF Own
  <1>3. ASSUME NEW p \in Peers, Raises(p)
        PROVE  OpenInv'
    BY <1>3, RaisesStep
  <1>4. ASSUME NEW p \in Peers, Close(p) \/ CloseEnds(p)
        PROVE  OpenInv'
    BY <1>4, CloseStep
  <1>5. ASSUME NEW p \in Peers,
               \/ Below(p)
               \/ Faults(p) /\ UNCHANGED <<raw, delegate, isOpen, result, closers, told>>
        PROVE  OpenInv'
    BY <1>5, BelowStep DEF Below, Transport
  <1> QED BY <1>1, <1>2, <1>3, <1>4, <1>5 DEF Next

(* The invariant holds in every reachable state. *)
THEOREM OpenInvariant == Spec => []OpenInv
  BY OpenInit, OpenNext, PTL DEF Spec

(* An open() that succeeds, on either side, has the peer it meant, admitted *)
(* by the server's delegate, and the two sessions fit; for all             *)
(* applications, keys, delegates, close() calls and faults.                *)
THEOREM OpenAuthenticates == Spec => []OpenMeansAdmitted
  <1>1. OpenInv => OpenMeansAdmitted
    <2> SUFFICES ASSUME OpenInv PROVE OpenMeansAdmitted
      OBVIOUS
    <2>1. Paired(hs[Client], hs[Server])
      BY DEF OpenInv, DriverInv
    <2>2. \A p \in Peers : result[p] = "ok" => hs[p].step = Finished
      BY DEF OpenInv, ReportInv
    <2>3. \A p \in Peers : result[p] = "ok" => hs[Server].step \in {ServerAck, Finished}
      BY <2>1, <2>2, ClientAgrees
    <2>4. \A p \in Peers : result[p] = "ok" =>
             SameApp /\ RightServer /\ Welcome /\ hs[Server].impl.Yp = hs[Client].impl.X
      BY <2>1, <2>3, ServerAgrees DEF OpenInv, SameApp, RightServer
    <2>5. (\A p \in Peers : result[p] = "ok") =>
             Fit(getOutcome(hs[Client].impl), getOutcome(hs[Server].impl))
      BY <2>1, <2>2, ClientAgrees
    <2> QED BY <2>4, <2>5 DEF OpenMeansAdmitted
  <1> QED BY <1>1, OpenInvariant, PTL

(* An open() that fails once it has begun has closed the stream below and, *)
(* unless that very close() raised, told the delegate, whatever close()    *)
(* calls came before or in between.                                        *)
THEOREM FailureLeavesNothingOpen == Spec => []FailedOpenIsTidy
  <1>1. OpenInv => FailedOpenIsTidy
    BY DEF OpenInv, ReportInv, FailedOpenIsTidy, Failures, ProtocolError, AuthError
  <1> QED BY <1>1, OpenInvariant, PTL

----------------------------------------------------------------------------
(* The phases of an undisturbed open().                                    *)

(* Initially nothing is under way. *)
LEMMA PhaseInit == Init => PhaseInv
  <1> SUFFICES ASSUME Init PROVE PhaseInv
    OBVIOUS
  <1>1. /\ \A p \in Peers : /\ hs[p].step = 1 /\ pc[p] = "start" /\ net[p] = Unset
                             /\ result[p] = "pending"
        /\ down = {} /\ hung = {} /\ faults = 0
    BY DEF Init, DriverInit
  <1>2. Healthy
    BY <1>1 DEF Healthy, Running, Idle, Pos
  <1> QED BY <1>1, <1>2 DEF PhaseInv, Phases

(* Only steps of open() and of the stream below keep a connection          *)
(* undisturbed.                                                            *)
LEMMA Calm ==
    ASSUME OpenInv, faults \in Nat, [Next]_vars
    PROVE  /\ faults' \in Nat
           /\ Undisturbed' =>
                 /\ Undisturbed /\ faults' = faults
                 /\ UNCHANGED vars \/ \E p \in Peers : Own(p) \/ Raises(p) \/ Below(p)
  <1>1. CASE UNCHANGED vars \/ Done
    BY <1>1 DEF Done, vars, driver, Undisturbed
  <1>2. ASSUME NEW p \in Peers, Close(p) \/ CloseEnds(p)
        PROVE  faults' = faults /\ ~Undisturbed'
    BY <1>2 DEF Close, CloseEnds, driver, Undisturbed, OpenInv
  <1>3. ASSUME NEW p \in Peers, Faults(p)
        PROVE  faults' \in Nat /\ ~Undisturbed'
    BY <1>3 DEF Faults, Hangs, Damages, Undisturbed
  <1>4. ASSUME NEW p \in Peers, Own(p) \/ Raises(p) \/ Below(p)
        PROVE  faults' \in {faults, faults + 1} /\ closers' = closers
    <2>1. CASE Open(p)
      BY <2>1 DEF Open
    <2>2. CASE Resume(p)
      BY <2>2 DEF Resume
    <2>3. CASE RawOpens(p) \/ ShortRead(p) \/ OpenFailed(p) \/ Raises(p) \/ Below(p)
      BY <2>3 DEF RawOpens, ShortRead, OpenFailed, Raises, Below, Transport, Transmits, Arrives
    <2> QED BY <1>4, <2>1, <2>2, <2>3 DEF Own
  <1> QED BY <1>1, <1>2, <1>3, <1>4 DEF Next, Undisturbed

(* Facts about positions. *)
LEMMA Positions ==
    ASSUME DriverInv, NEW p \in Peers
    PROVE  /\ hs[p].step \in 0 .. 5
           /\ pc[p] \in {"start", "opening"} => hs[p].step = 1 /\ Pos(p) = 1
           /\ pc[p] = "writing" => Sends(p, hs[p].step) /\ Pos(p) = hs[p].step
           /\ pc[p] = "written" => Sends(p, hs[p].step) /\ Pos(p) = hs[p].step + 1
           /\ pc[p] \in {"reading", "read"} => Receives(p, hs[p].step) /\ Pos(p) = hs[p].step
           /\ pc[p] \in {"closing", "ended"} => Pos(p) = hs[p].step
           /\ hs[p].step = Failed => Pos(p) = 0
           /\ p = Server /\ Pos(p) = 5 => Acked(hs[Server])
  <1>1. hs[p].step \in 0 .. 5 /\ PeerInv(p) /\ Paired(hs[Client], hs[Server])
    BY DEF DriverInv, Paired, HandshakesOf, Steps
  <1>2. pc[p] \in {"writing", "written"} =>
            Sends(p, hs[p].step) /\ (p = Server /\ hs[p].step = 4 => Acked(hs[Server]))
    BY <1>1 DEF PeerInv, Outgoing, Sends
  <1>3. hs[Server].step = 5 => Acked(hs[Server])
    BY <1>1 DEF Paired, ServerFits
  <1>4. pc[p] \in {"reading", "read"} => Receives(p, hs[p].step)
    BY <1>1 DEF PeerInv
  <1>5. pc[p] \in {"start", "opening"} => hs[p].step = 1
    BY <1>1 DEF PeerInv
  <1> QED BY <1>1, <1>2, <1>3, <1>4, <1>5 DEF Pos, Sends

(* What a step of p with its Handshake object leaves alone. *)
LEMMA Steady ==
    ASSUME DriverInv, NEW p \in Peers, hs' = [hs EXCEPT ![p] = hs'[p]], Follows(p, hs'[p]),
           authorizer' = authorizer
    PROVE  /\ \A q \in Peers : createChallenge(hs'[q].impl) = createChallenge(hs[q].impl)
           /\ AuthOf(hs'[Client].impl) = AuthOf(hs[Client].impl)
           /\ Acked(hs[Server]) => AckOf(hs'[Server].impl) = AckOf(hs[Server].impl)
           /\ SameApp' = SameApp /\ RightServer' = RightServer /\ Welcome' = Welcome
           /\ \A q \in Peers : q # p => hs'[q] = hs[q]
  <1>1. hs = [q \in Peers |-> hs[q]]
    BY DEF DriverInv
  <1>2. hs'[Client] = ClientWith(p, hs'[p]) /\ hs'[Server] = ServerWith(p, hs'[p])
    BY <1>1 DEF ClientWith, ServerWith
  <1>3. ClientGrows(hs[Client], hs'[Client]) /\ ServerGrows(hs[Server], hs'[Server])
    BY <1>2 DEF Follows
  <1>4. \A q \in Peers : createChallenge(hs'[q].impl) = createChallenge(hs[q].impl)
    BY <1>3 DEF ClientGrows, ServerGrows, createChallenge
  <1>5. AuthOf(hs'[Client].impl) = AuthOf(hs[Client].impl)
    BY <1>3 DEF ClientGrows, AuthOf
  <1>6. Acked(hs[Server]) => AckOf(hs'[Server].impl) = AckOf(hs[Server].impl)
    BY <1>3 DEF ServerGrows, AckOf
  <1>7. SameApp' = SameApp /\ RightServer' = RightServer /\ Welcome' = Welcome
    BY <1>3 DEF SameApp, RightServer, Welcome, ClientGrows, ServerGrows
  <1> QED BY <1>1, <1>4, <1>5, <1>6, <1>7

(* A step that reads or sends no message and keeps the positions keeps the *)
(* phase.                                                                  *)
LEMMA SamePhase ==
    ASSUME DriverInv, NEW p \in Peers, hs' = [hs EXCEPT ![p] = hs'[p]], Follows(p, hs'[p]),
           pc' = [pc EXCEPT ![p] = pc'[p]], Pos(p)' = Pos(p),
           pc[p] # "read", pc'[p] # "read",
           \A q \in Peers : q # p => buf'[q] = buf[q],
           UNCHANGED <<net, authorizer>>
    PROVE  /\ Running => Running'
           /\ \A q \in Peers : Idle(q)' = Idle(q) /\ Pos(q)' = Pos(q) /\ (q # p => pc'[q] = pc[q])
           /\ SameApp' = SameApp /\ RightServer' = RightServer /\ Welcome' = Welcome
           /\ \A q \in Peers : q # p => hs'[q] = hs[q]
  <1>1. /\ \A q \in Peers : createChallenge(hs'[q].impl) = createChallenge(hs[q].impl)
        /\ AuthOf(hs'[Client].impl) = AuthOf(hs[Client].impl)
        /\ Acked(hs[Server]) => AckOf(hs'[Server].impl) = AckOf(hs[Server].impl)
        /\ SameApp' = SameApp /\ RightServer' = RightServer /\ Welcome' = Welcome
        /\ \A q \in Peers : q # p => hs'[q] = hs[q]
    BY Steady
  <1>2. \A q \in Peers : q # p => pc'[q] = pc[q]
    BY DEF DriverInv
  <1>3. \A q \in Peers : Idle(q)' = Idle(q) /\ Pos(q)' = Pos(q)
    BY <1>1, <1>2 DEF Idle, Pos
  <1>4. Pos(Server) = 5 => Acked(hs[Server])
    BY Positions
  <1>5. Running => Running'
    <2>1. /\ Pos(Client)' = Pos(Client) /\ Pos(Server)' = Pos(Server)
          /\ Idle(Client)' = Idle(Client) /\ Idle(Server)' = Idle(Server)
      BY <1>3
    <2>2. /\ UnderWay(Client, createChallenge(hs[Client].impl)) =>
                 UnderWay(Client, createChallenge(hs[Client].impl))'
          /\ UnderWay(Server, createChallenge(hs[Server].impl)) =>
                 UnderWay(Server, createChallenge(hs[Server].impl))'
          /\ UnderWay(Client, AuthOf(hs[Client].impl)) =>
                 UnderWay(Client, AuthOf(hs[Client].impl))'
          /\ Pos(Server) = 5 /\ UnderWay(Server, AckOf(hs[Server].impl)) =>
                 UnderWay(Server, AckOf(hs[Server].impl))'
      BY <1>1, <1>2, <1>4 DEF UnderWay
    <2> QED BY <2>1, <2>2 DEF Running
  <1> QED BY <1>1, <1>2, <1>3, <1>5

(* The stream below takes the message of the peer whose turn it is. *)
LEMMA PhaseTransmits ==
    ASSUME OpenInv, Phases, NEW p \in Peers, Transmits(p), UNCHANGED <<delegate, result>>
    PROVE  Phases'
  <1>1. /\ DriverInv /\ pc[p] = "writing" /\ Outgoing(p, hs[Client], hs[Server], buf[p])
        /\ UNCHANGED <<hs, buf, down, authorizer>>
    BY DEF OpenInv, DriverInv, PeerInv, Transmits
  <1>2. /\ net'[p] = buf[p] /\ pc'[p] = "written"
        /\ \A q \in Peers : q # p => net'[q] = net[q] /\ pc'[q] = pc[q]
    BY <1>1 DEF DriverInv, Transmits
  <1>3. Sends(p, hs[p].step) /\ Pos(p) = hs[p].step
    BY <1>1, Positions
  <1>4. Pos(p)' = Pos(p) + 1 /\ \A q \in Peers : q # p => Pos(q)' = Pos(q)
    BY <1>1, <1>2, <1>3 DEF Pos
  <1>5. Healthy
    BY <1>1, <1>3 DEF Phases, Refused, Sends
  <1>6. Idle(Client) /\ Idle(Server) /\ Pos(Client) = Pos(Server)
    BY <1>3, <1>5 DEF Healthy, Running, Sends
  <1>7. Idle(Other(p))' /\ UnderWay(p, buf[p])'
    BY <1>1, <1>2, <1>6 DEF Idle, UnderWay
  <1>8. Running'
    <2>1. CASE p = Client
      <3>1. \/ hs[Client].step = 1 /\ buf[p] = createChallenge(hs[Client].impl)
            \/ hs[Client].step = 3 /\ buf[p] = AuthOf(hs[Client].impl)
        BY <1>1, <2>1 DEF Outgoing
      <3>2. \/ UnderWay(Client, createChallenge(hs[Client].impl))' /\ hs[Client].step = 1
            \/ UnderWay(Client, AuthOf(hs[Client].impl))' /\ hs[Client].step = 3
        BY <1>1, <1>7, <2>1, <3>1
      <3> QED BY <1>3, <1>4, <1>6, <1>7, <2>1, <3>2 DEF Running
    <2>2. CASE p = Server
      <3>1. \/ hs[Server].step = 2 /\ buf[p] = createChallenge(hs[Server].impl)
            \/ hs[Server].step = 4 /\ buf[p] = AckOf(hs[Server].impl)
        BY <1>1, <2>2 DEF Outgoing
      <3>2. \/ UnderWay(Server, createChallenge(hs[Server].impl))' /\ hs[Server].step = 2
            \/ UnderWay(Server, AckOf(hs[Server].impl))' /\ hs[Server].step = 4
        BY <1>1, <1>7, <2>2, <3>1
      <3> QED BY <1>3, <1>4, <1>6, <1>7, <2>2, <3>2 DEF Running
    <2> QED BY <2>1, <2>2
  <1> QED BY <1>1, <1>2, <1>5, <1>8 DEF Phases, Healthy

(* The stream below delivers it. *)
LEMMA PhaseArrives ==
    ASSUME OpenInv, Phases, NEW p \in Peers, Arrives(p), UNCHANGED <<delegate, result>>
    PROVE  Phases'
  <1> DEFINE o == Other(p)
  <1>1. DriverInv /\ pc[p] = "reading" /\ net[o] # Unset /\ UNCHANGED <<hs, down, authorizer>>
    BY DEF OpenInv, Arrives
  <1>2. /\ buf'[p] = net[o] /\ pc'[p] = "read" /\ net'[o] = Unset /\ net'[p] = net[p]
        /\ \A q \in Peers : q # p => pc'[q] = pc[q]
    BY <1>1 DEF DriverInv, Arrives
  <1>3. Healthy
    BY <1>1 DEF Phases, Refused, Idle
  <1>4. \A q \in Peers : Pos(q)' = Pos(q)
    BY <1>1, <1>2 DEF Pos
  <1>5. \A m : UnderWay(o, m) => UnderWay(o, m)'
    BY <1>1, <1>2 DEF UnderWay
  <1>6. Idle(p) => Idle(p)'
    BY <1>2 DEF Idle
  <1>7. ~Idle(o)
    BY <1>1 DEF Idle
  <1>8. Running'
    <2>1. CASE p = Server
      <3>1. /\ UnderWay(Client, createChallenge(hs[Client].impl)) =>
                   UnderWay(Client, createChallenge(hs[Client].impl))'
            /\ UnderWay(Client, AuthOf(hs[Client].impl)) =>
                   UnderWay(Client, AuthOf(hs[Client].impl))'
        BY <1>1, <1>5, <2>1
      <3> QED BY <1>3, <1>4, <1>6, <1>7, <2>1, <3>1 DEF Healthy, Running
    <2>2. CASE p = Client
      <3>1. /\ UnderWay(Server, createChallenge(hs[Server].impl)) =>
                   UnderWay(Server, createChallenge(hs[Server].impl))'
            /\ UnderWay(Server, AckOf(hs[Server].impl)) =>
                   UnderWay(Server, AckOf(hs[Server].impl))'
        BY <1>1, <1>5, <2>2
      <3> QED BY <1>3, <1>4, <1>6, <1>7, <2>2, <3>1 DEF Healthy, Running
    <2> QED BY <2>1, <2>2
  <1> QED BY <1>1, <1>2, <1>3, <1>8 DEF Phases, Healthy

(* open() up to its first AWAIT. *)
LEMMA PhaseOpens ==
    ASSUME OpenInv, Phases, NEW p \in Peers, Open(p) \/ RawOpens(p)
    PROVE  Phases'
  <1>1. /\ DriverInv /\ Follows(p, hs'[p])
        /\ hs' = [hs EXCEPT ![p] = hs'[p]] /\ hs'[p].step = hs[p].step
        /\ pc[p] \in {"start", "opening"} /\ pc' = [pc EXCEPT ![p] = pc'[p]]
        /\ pc'[p] \in {"opening", "writing", "reading", "ended"}
        /\ \A q \in Peers : q # p => buf'[q] = buf[q] /\ result'[q] = result[q]
        /\ \/ result' = result
           \/ result'[p] = "bad_cast" /\ p = Client /\ delegate[p]
    BY OpenStep DEF OpenInv
  <1>2. UNCHANGED <<net, down, authorizer, delegate>> /\ ReportInv(p)'
    BY OpenStep DEF Open, RawOpens, OpenInv
  <1>3. hs[p].step = 1 /\ Pos(p) = 1
    BY <1>1, Positions
  <1>4. Healthy
    BY <1>1, <1>3 DEF Phases, Refused
  <1>5. Pos(p)' = Pos(p)
    BY <1>1 DEF Pos
  <1>6. /\ Running => Running'
        /\ \A q \in Peers : q # p => hs'[q] = hs[q] /\ pc'[q] = pc[q]
    BY <1>1, <1>2, <1>5, SamePhase
  <1>7. result[p] = "pending"
    BY <1>1 DEF OpenInv, ReportInv, Working
  <1>8. result'[p] = "bad_cast" => pc'[p] = "ended"
    BY <1>1, <1>2 DEF ReportInv, Working
  <1> QED BY <1>1, <1>2, <1>3, <1>4, <1>6, <1>7, <1>8 DEF Phases, Healthy

(* handshake() goes on after a write. *)
LEMMA PhaseWritten ==
    ASSUME OpenInv, Phases, NEW p \in Peers, Resume(p), pc[p] = "written"
    PROVE  Phases'
  <1> DEFINE h == Reported(p, DelegateAuthorizer)
  <1>1. /\ DriverInv /\ hs[p].step \in 0 .. 5 /\ Sends(p, hs[p].step)
        /\ Pos(p) = hs[p].step + 1
    BY Positions DEF OpenInv
  <1>2. h.step = hs[p].step + 1
    BY <1>1, Reports
  <1> HIDE DEF h
  <1>3. /\ Follows(p, hs'[p]) /\ ReportInv(p)'
        /\ hs' = [hs EXCEPT ![p] = hs'[p]] /\ hs'[p].step = hs[p].step + 1
        /\ pc' = [pc EXCEPT ![p] = pc'[p]] /\ down' = down
        /\ \A q \in Peers : q # p => buf'[q] = buf[q] /\ result'[q] = result[q]
        /\ \/ pc'[p] \in {"writing", "reading"} /\ result' = result
           \/ pc'[p] = "ended" /\ result'[p] = "ok"
    <2>1. /\ OpenInv' /\ Follows(p, hs'[p])
          /\ hs' = [hs EXCEPT ![p] = hs'[p]] /\ hs'[p].step = h.step
          /\ pc' = [pc EXCEPT ![p] = pc'[p]]
          /\ \A q \in Peers : q # p => buf'[q] = buf[q] /\ result'[q] = result[q]
          /\ \/ /\ h.step = Failed /\ pc'[p] = "closing" /\ result'[p] = h.error
             \/ /\ h.step # Failed /\ down' = down
                /\ \/ pc'[p] \in {"writing", "reading"} /\ result' = result
                   \/ pc'[p] = "ended" /\ result'[p] = "ok"
      BY ResumeStep DEF h
    <2>2. h.step # Failed
      BY <1>1, <1>2
    <2>3. ReportInv(p)'
      BY <2>1 DEF OpenInv
    <2> QED BY <1>2, <2>1, <2>2, <2>3
  <1>4. Pos(p)' = Pos(p) /\ UNCHANGED <<net, authorizer, delegate>>
    BY <1>1, <1>3 DEF Pos, Resume
  <1>5. /\ Running => Running'
        /\ \A q \in Peers : Idle(q)' = Idle(q) /\ Pos(q)' = Pos(q) /\ (q # p => pc'[q] = pc[q])
        /\ SameApp' = SameApp /\ RightServer' = RightServer /\ Welcome' = Welcome
        /\ \A q \in Peers : q # p => hs'[q] = hs[q]
    BY <1>1, <1>3, <1>4, SamePhase
  <1>6. result[p] = "pending"
    BY DEF OpenInv, ReportInv, Working
  <1>7. CASE Healthy
    BY <1>1, <1>3, <1>4, <1>5, <1>6, <1>7 DEF Phases, Healthy
  <1>8. ASSUME NEW e, NEW pos \in {2, 4}, Refused(e, pos)
        PROVE  Refused(e, pos)'
    <2>1. p = Client /\ Pos(Client) = pos
      BY <1>1, <1>8 DEF Refused, Sends
    <2>2. result'[Client] # "ok"
      BY <1>1, <1>3, <2>1 DEF ReportInv
    <2> QED BY <1>3, <1>5, <1>6, <1>8, <2>1, <2>2 DEF Refused
  <1> QED BY <1>5, <1>7, <1>8 DEF Phases

(* An undamaged message read in its turn is accepted, or refused by the    *)
(* server for one of the two documented reasons.                           *)
LEMMA PhaseRead ==
    ASSUME OpenInv, Phases, NEW p \in Peers, Resume(p), pc[p] = "read"
    PROVE  Phases'
  <1> DEFINE h == Reported(p, DelegateAuthorizer)
             o == Other(p)
  <1>1. /\ DriverInv /\ Receives(p, hs[p].step) /\ Pos(p) = hs[p].step
        /\ \A q \in Peers : hs[q].step \in 0 .. 5
        /\ Paired(hs[Client], hs[Server])
    BY Positions DEF OpenInv, DriverInv
  <1>2. \/ h.step = hs[p].step + 1
        \/ /\ h.step = Failed /\ h.error = FailureError(hs[p].step)
           /\ hs[p].step \in {1, 2} /\ buf[p] = createChallenge(hs[o].impl) => ~SameApp
           /\ hs[p].step = 3 /\ buf[p] = AuthOf(hs[Client].impl) => ~(RightServer /\ Welcome)
           /\ hs[p].step = 4 => buf[p] # AckOf(hs[Server].impl)
    BY <1>1, Reports DEF DelegateAuthorizer, Welcome
  <1>3. /\ Follows(p, hs'[p]) /\ hs' = [hs EXCEPT ![p] = hs'[p]] /\ hs'[p].step = h.step
        /\ pc' = [pc EXCEPT ![p] = pc'[p]]
        /\ \A q \in Peers : q # p => buf'[q] = buf[q] /\ result'[q] = result[q]
        /\ \/ h.step = Failed /\ pc'[p] = "closing" /\ result'[p] = h.error
           \/ /\ h.step # Failed /\ down' = down
              /\ \/ pc'[p] \in {"writing", "reading"} /\ result' = result
                 \/ pc'[p] = "ended" /\ result'[p] = "ok"
    BY ResumeStep
  <1> HIDE DEF h
  <1>4. UNCHANGED <<net, authorizer, delegate>>
    BY DEF Resume
  <1>5. /\ SameApp' = SameApp /\ RightServer' = RightServer /\ Welcome' = Welcome
        /\ hs'[o] = hs[o]
    BY <1>1, <1>3, <1>4, Steady
  <1>6. pc'[o] = pc[o] /\ Pos(o)' = Pos(o) /\ Pos(p)' = h.step
    <2>1. pc'[o] = pc[o]
      BY <1>1, <1>3 DEF DriverInv
    <2> QED BY <1>3, <1>5, <2>1 DEF Pos
  <1>7. Healthy /\ ~Idle(o)
    BY DEF Phases, Refused, Idle
  <1>8. /\ \/ hs[p].step = 1 /\ Pos(Client) = 2 /\ buf[p] = createChallenge(hs[Client].impl)
           \/ hs[p].step = 2 /\ Pos(Server) = 3 /\ buf[p] = createChallenge(hs[Server].impl)
           \/ hs[p].step = 3 /\ Pos(Client) = 4 /\ buf[p] = AuthOf(hs[Client].impl)
           \/ hs[p].step = 4 /\ Pos(Server) = 5 /\ buf[p] = AckOf(hs[Server].impl)
        /\ net[o] = Unset /\ Idle(p)
    BY <1>1, <1>7 DEF Healthy, Running, UnderWay, Receives
  <1>9. Idle(p)' /\ Idle(o)'
    BY <1>3, <1>4, <1>6, <1>8 DEF Idle
  <1>10. \A q \in Peers : q # p => result[q] # "bad_cast" /\ hs'[q] = hs[q] /\ hs[q].step # Failed
    BY <1>1, <1>5, <1>7, <1>8 DEF Healthy, Pos, Receives
  <1>11. CASE h.step = hs[p].step + 1
    <2>1. Running'
      BY <1>1, <1>6, <1>8, <1>9, <1>11 DEF Running, Receives
    <2>2. h.step # Failed
      BY <1>1, <1>11
    <2>3. result[p] = "pending"
      BY DEF OpenInv, ReportInv, Working
    <2> QED BY <1>3, <1>4, <1>7, <1>10, <2>1, <2>2, <2>3 DEF Phases, Healthy
  <1>12. CASE h.step # hs[p].step + 1
    <2>1. /\ h.step = Failed /\ pc'[p] = "closing" /\ result'[p] = FailureError(hs[p].step)
      BY <1>2, <1>3, <1>12
    <2>2. hs[Server].step \in {2, 3} => SameApp
      BY <1>1 DEF Paired, ServerFits, SameApp
    <2>3. p = Server
      <3>1. hs[p].step = 2 => hs[Server].step \in {2, 3}
        BY <1>1, <1>8 DEF Pos
      <3> QED BY <1>1, <1>2, <1>8, <1>12, <2>2, <3>1 DEF Receives
    <2>4. result'[Client] = "pending"
      <3>1. result[Client] # "ok"
        BY <1>1, <1>8, <2>3 DEF OpenInv, ReportInv, Pos, Receives
      <3> QED BY <1>3, <1>7, <1>10, <2>3, <3>1 DEF Healthy
    <2>5. CASE hs[p].step = 1
      <3>1. ~SameApp' /\ Refused(ProtocolError, 2)'
        BY <1>2, <1>3, <1>5, <1>6, <1>8, <1>9, <1>12, <2>1, <2>3, <2>4, <2>5
           DEF Refused, FailureError
      <3> QED BY <3>1 DEF Phases
    <2>6. CASE hs[p].step = 3
      <3>1. SameApp' /\ ~(RightServer /\ Welcome)' /\ Refused(AuthError, 4)'
        BY <1>2, <1>3, <1>5, <1>6, <1>8, <1>9, <1>12, <2>1, <2>2, <2>3, <2>4, <2>6
           DEF Refused, FailureError
      <3> QED BY <3>1 DEF Phases
    <2> QED BY <1>1, <2>3, <2>5, <2>6 DEF Receives
  <1> QED BY <1>11, <1>12

(* The client finds the connection closed by the server that refused it. *)
LEMMA PhaseCut ==
    ASSUME OpenInv, Phases, NEW p \in Peers, ShortRead(p) \/ Raises(p), faults' = faults,
           faults \in Nat
    PROVE  Phases'
  <1>1. /\ DriverInv /\ pc' = [pc EXCEPT ![p] = "closing"] /\ Follows(p, hs'[p])
        /\ hs' = [hs EXCEPT ![p] = hs'[p]]
        /\ \/ /\ pc[p] = "reading"
              /\ result' = [result EXCEPT ![p] = FailureError(hs[p].step)]
           \/ result' = [result EXCEPT ![p] = "IOError"]
    <2>1. CASE ShortRead(p)
      BY <2>1, ShortReadStep DEF OpenInv
    <2>2. CASE Raises(p)
      <3>1. hs' = hs /\ pc' = [pc EXCEPT ![p] = "closing"]
            /\ result' = [result EXCEPT ![p] = "IOError"]
        BY <2>2, RaisesStep
      <3>2. DriverInv /\ Follows(p, hs[p]) /\ hs = [hs EXCEPT ![p] = hs[p]]
        BY Stays DEF OpenInv, DriverInv
      <3> QED BY <3>1, <3>2
    <2> QED BY <2>1, <2>2
  <1>2. pc[p] \in {"opening", "writing", "reading"} /\ down # {}
    BY DEF ShortRead, Raises, Cut
  <1>3. UNCHANGED <<net, authorizer>>
    BY DEF ShortRead, Raises
  <1>4. /\ SameApp' = SameApp /\ RightServer' = RightServer /\ Welcome' = Welcome
        /\ \A q \in Peers : q # p => hs'[q] = hs[q]
    BY <1>1, <1>3, Steady
  <1>5. /\ hs[p].step \in 1 .. 4
        /\ pc[p] = "reading" => Receives(p, hs[p].step) /\ Pos(p) = hs[p].step
    BY <1>1, <1>2, Positions DEF Sends, Receives
  <1>6. /\ pc'[p] = "closing" /\ \A q \in Peers : q # p => pc'[q] = pc[q] /\ result'[q] = result[q]
        /\ \/ pc[p] = "reading" /\ result'[p] = FailureError(hs[p].step)
           \/ result'[p] = "IOError"
    BY <1>1 DEF OpenInv, DriverInv
  <1>7. ASSUME NEW e, NEW pos \in {2, 4}, Refused(e, pos),
               (e = ProtocolError /\ pos = 2) \/ (e = AuthError /\ pos = 4)
        PROVE  Refused(e, pos)'
    <2>1. p = Client
      BY <1>5, <1>7 DEF Refused
    <2>2. Pos(Client) = pos
      BY <1>2, <1>7, <2>1 DEF Refused
    <2>3. result'[Client] \in {e, "IOError"}
      BY <1>5, <1>6, <1>7, <2>1, <2>2 DEF FailureError
    <2>4. Idle(Client)' /\ Idle(Server)'
      BY <1>3, <1>6, <1>7, <2>1 DEF Refused, Idle
    <2> QED BY <1>4, <1>6, <1>7, <2>1, <2>3, <2>4 DEF Refused
  <1>8. ~Healthy
    BY <1>2 DEF Healthy
  <1>9. /\ Refused(ProtocolError, 2) => Refused(ProtocolError, 2)'
        /\ Refused(AuthError, 4) => Refused(AuthError, 4)'
    BY <1>7
  <1> QED BY <1>4, <1>8, <1>9 DEF Phases

(* open() of a failed handshake ends. *)
LEMMA PhaseEnds ==
    ASSUME OpenInv, Phases, NEW p \in Peers, OpenFailed(p), faults' = faults, faults \in Nat
    PROVE  Phases'
  <1>1. /\ DriverInv /\ Follows(p, hs[p]) /\ hs = [q \in Peers |-> hs[q]]
        /\ pc = [q \in Peers |-> pc[q]]
    BY Stays DEF OpenInv, DriverInv
  <1>2. /\ pc[p] = "closing" /\ pc' = [pc EXCEPT ![p] = "ended"]
        /\ UNCHANGED <<hs, buf, net, down, authorizer, delegate, result>>
    BY DEF OpenFailed
  <1>3. /\ hs' = [hs EXCEPT ![p] = hs'[p]] /\ Follows(p, hs'[p])
        /\ pc' = [pc EXCEPT ![p] = pc'[p]] /\ pc'[p] = "ended" /\ Pos(p)' = Pos(p)
    BY <1>1, <1>2 DEF Pos
  <1>4. /\ Running => Running'
        /\ \A q \in Peers : Idle(q)' = Idle(q) /\ Pos(q)' = Pos(q) /\ (q # p => pc'[q] = pc[q])
        /\ SameApp' = SameApp /\ RightServer' = RightServer /\ Welcome' = Welcome
    BY <1>1, <1>2, <1>3, SamePhase
  <1>5. Healthy => Healthy'
    BY <1>2, <1>3, <1>4 DEF Healthy
  <1>6. \A e, pos : Refused(e, pos) => Refused(e, pos)'
    BY <1>2, <1>3, <1>4 DEF Refused
  <1> QED BY <1>4, <1>5, <1>6 DEF Phases

(* Every step of an undisturbed connection keeps to the phases. *)
LEMMA PhaseNext == OpenInv /\ PhaseInv /\ [Next]_vars => PhaseInv'
  <1> SUFFICES ASSUME OpenInv, PhaseInv, [Next]_vars PROVE PhaseInv'
    OBVIOUS
  <1>1. /\ faults' \in Nat /\ faults \in Nat
        /\ Undisturbed' =>
              /\ Undisturbed /\ faults' = faults
              /\ UNCHANGED vars \/ \E p \in Peers : Own(p) \/ Raises(p) \/ Below(p)
    BY Calm DEF PhaseInv
  <1> SUFFICES ASSUME Undisturbed' PROVE hung' = {} /\ Phases'
    BY <1>1 DEF PhaseInv
  <1>2. hung = {} /\ Phases
    BY <1>1 DEF PhaseInv
  <1>3. CASE UNCHANGED vars
    BY <1>2, <1>3 DEF vars, driver, Phases, Healthy, Running, Refused, Idle, UnderWay, Pos,
                      SameApp, RightServer, Welcome
  <1>4. ASSUME NEW p \in Peers, Open(p) \/ RawOpens(p)
        PROVE  hung' = {} /\ Phases'
    <2>1. hung' = hung
      BY <1>4 DEF Open, RawOpens
    <2> QED BY <1>2, <1>4, <2>1, PhaseOpens
  <1>5. ASSUME NEW p \in Peers, Resume(p)
        PROVE  hung' = {} /\ Phases'
    <2>1. hung' = hung /\ pc[p] \in {"written", "read"}
      BY <1>5 DEF Resume
    <2> QED BY <1>2, <1>5, <2>1, PhaseWritten, PhaseRead
  <1>6. ASSUME NEW p \in Peers, ShortRead(p) \/ Raises(p)
        PROVE  hung' = {} /\ Phases'
    <2>1. hung' = hung
      BY <1>6 DEF ShortRead, Raises
    <2> QED BY <1>1, <1>2, <1>6, <2>1, PhaseCut
  <1>7. ASSUME NEW p \in Peers, OpenFailed(p)
        PROVE  hung' = {} /\ Phases'
    <2>1. hung' = hung
      BY <1>7 DEF OpenFailed
    <2> QED BY <1>1, <1>2, <1>7, <2>1, PhaseEnds
  <1>8. ASSUME NEW p \in Peers, Below(p)
        PROVE  hung' = {} /\ Phases'
    <2>1. hung' = hung /\ UNCHANGED <<delegate, result>> /\ (Transmits(p) \/ Arrives(p))
      BY <1>8 DEF Below, Transport, Transmits, Arrives
    <2> QED BY <1>2, <2>1, PhaseTransmits, PhaseArrives
  <1> QED BY <1>1, <1>3, <1>4, <1>5, <1>6, <1>7, <1>8 DEF Own

(* The phases hold in every reachable state. *)
THEOREM PhasesHold == Spec => []PhaseInv
  BY OpenInvariant, PhaseInit, PhaseNext, PTL DEF Spec

(* On an undisturbed connection the errors of open() mean what             *)
(* SecretHandshakeError says, on both sides, for all applications, keys    *)
(* and delegates.                                                          *)
THEOREM OpenErrorsMeanWhatTheySay == Spec => []ErrorMeaning
  <1>1. PhaseInv => ErrorMeaning
    BY DEF PhaseInv, Phases, Healthy, Refused, ErrorMeaning, ProtocolError, AuthError
  <1> QED BY <1>1, PhasesHold, PTL

(* Two well configured peers, the client without a delegate, never see     *)
(* open() fail on an undisturbed connection.                               *)
THEOREM WellConfiguredOpens == Spec => []OpenSucceeds
  <1>1. PhaseInv => OpenSucceeds
    BY DEF PhaseInv, Phases, Healthy, OpenSucceeds
  <1> QED BY <1>1, PhasesHold, PTL
============================================================================
