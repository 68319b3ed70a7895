--------------------------- MODULE HandshakeProofs ---------------------------
(***************************************************************************)
(* Proofs that every behaviour of Handshake, for any application IDs, keys *)
(* and number of faults, satisfies its safety properties.                  *)
(***************************************************************************)
EXTENDS HandshakeInvariant, HandshakeTermsProofs

USE DEF Client, Server, Peers, Other, Failed, ClientChallenge,
        ServerChallenge, ClientAuth, ServerAck, Finished, AuthMsg, AckMsg

----------------------------------------------------------------------------
(* The crypto objects.                                                     *)

(* createClientAuth and createChallenge on the client's object give the    *)
(* messages of the protocol.                                               *)
LEMMA ClientFill ==
    ASSUME IInv, Sends(Client, step[Client])
    PROVE  /\ Fill(Client).h \in Objects(Client)
           /\ SameSecrets(Fill(Client).h, c)
           /\ Fill(Client).h.serverAckKey = c.serverAckKey
           /\ step[Client] = ClientChallenge =>
                /\ Fill(Client).h = c
                /\ Fill(Client).msg = createChallenge(c)
           /\ step[Client] = ClientAuth =>
                /\ Fill(Client).msg = AuthMsg
                /\ Fill(Client).h.H = ProofOf(c.K, c.X, c.Yp)
                /\ Fill(Client).h.aB = DH(Client, c.Yp)
                /\ Fill(Client).h.Ab = DH(Server, c.X)
  <1>1. c \in Objects(Client) /\ step[Client] \in {1, 3}
    BY DEF IInv, TypeOK, Sends, c
  <1>2. CASE step[Client] = ClientChallenge
    <2>1. Fill(Client).msg = createChallenge(c) /\ Fill(Client).h = c
      BY <1>2, ChallengeMade DEF Fill, c
    <2> QED BY <1>1, <1>2, <2>1 DEF SameSecrets
  <1>3. CASE step[Client] = ClientAuth
    <2>1. c.Yp # Unset /\ c.yp # Unset /\ c.ab = AB
      BY <1>3 DEF IInv, ClientInv
    <2>2. Fill(Client) = FillOutputBuffer(Client, ClientAuth, c)
      BY <1>3 DEF Fill, c
    <2> QED BY <1>1, <1>3, <2>1, <2>2, ClientAuthMade
  <1> QED BY <1>1, <1>2, <1>3

(* createServerAck and createChallenge on the server's object.             *)
LEMMA ServerFill ==
    ASSUME IInv, Sends(Server, step[Server])
    PROVE  /\ Fill(Server).h \in Objects(Server)
           /\ SameSecrets(Fill(Server).h, s)
           /\ Fill(Server).h.H = s.H
           /\ Fill(Server).h.aB = s.aB
           /\ Fill(Server).h.Ab = s.Ab
           /\ step[Server] = ServerChallenge =>
                /\ Fill(Server).h = s
                /\ Fill(Server).msg = createChallenge(s)
           /\ step[Server] = ServerAck =>
                /\ Fill(Server).msg = AckMsg
                /\ Fill(Server).h.serverAckKey = AckKey(s.K, s.Yp, s.X)
  <1>1. s \in Objects(Server) /\ step[Server] \in {2, 4}
    BY DEF IInv, TypeOK, Sends, s
  <1>2. CASE step[Server] = ServerChallenge
    <2>1. Fill(Server).msg = createChallenge(s) /\ Fill(Server).h = s
      BY <1>2, ChallengeMade DEF Fill, s
    <2> QED BY <1>1, <1>2, <2>1 DEF SameSecrets
  <1>3. CASE step[Server] = ServerAck
    <2>1. /\ s.ab = AB /\ s.aB = DH(Client, s.X) /\ s.Ab = DH(Server, s.Yp)
          /\ s.H = ProofOf(s.K, s.Yp, s.X)
      BY <1>3 DEF IInv, ServerInv, ClientInv, RightServer, SameApp, HasProved, c, s
    <2>2. s.Yp # Unset
      <3>1. s.Yp = c.X /\ c \in Objects(Client)
        BY <1>3 DEF IInv, TypeOK, ServerInv, c
      <3> QED BY <3>1, UnsetAssumption DEF Objects
    <2>3. Fill(Server) = FillOutputBuffer(Server, ServerAck, s)
      BY <1>3 DEF Fill, s
    <2> QED BY <1>1, <1>3, <2>1, <2>2, <2>3, ServerAckMade
  <1> QED BY <1>1, <1>2, <1>3

(* The verdict of ReadCompleted(p). *)
Verdict(p) ==
    ReceivedBytes(p, step[p], impl[p], clientAuth, Arrived(Other(p)))

(* Whatever is in flight is a challenge of its sender, its box, or noise,  *)
(* and is undamaged unless its channel is garbled.                         *)
LEMMA ArrivedForms ==
    ASSUME IInv, NEW q \in Peers, net[q] # Unset
    PROVE  /\ \/ Arrived(q) = createChallenge(impl[q])
              \/ Arrived(q) = Noise
              \/ q = Client /\ Arrived(q) = AuthMsg /\ HasProved
              \/ q = Server /\ Arrived(q) = AckMsg /\ HasAcked
           /\ ~garbled[q] => Arrived(q) = net[q]
  <1>1. \/ net[q] = createChallenge(impl[q])
        \/ q = Client /\ net[q] = AuthMsg /\ HasProved
        \/ q = Server /\ net[q] = AckMsg /\ HasAcked
    BY DEF IInv, NetInv, c, s
  <1> QED BY <1>1 DEF Arrived

(* Reading the peer's challenge: an undamaged one is refused only if the   *)
(* application IDs differ.                                                 *)
LEMMA ChallengeRead ==
    ASSUME IInv, NEW p \in Peers, net[Other(p)] # Unset,
           step[p] = IF p = Client THEN ServerChallenge ELSE ClientChallenge
    PROVE  /\ Verdict(p).ok => SameApp
           /\ Verdict(p).ok =>
                Verdict(p).h = Learned(impl[p], Other(p))
           /\ ~Verdict(p).ok => Verdict(p).h = impl[p]
           /\ ~Verdict(p).ok /\ Arrived(Other(p)) = createChallenge(impl[Other(p)]) =>
                ~SameApp
  <1> DEFINE q == Other(p)
             m == Arrived(q)
             g == impl[q]
             h == impl[p]
             st == step[p]
             r == ReceivedBytes(p, st, h, clientAuth, m)
  <1>1. q \in Peers /\ q # p /\ h \in Objects(p) /\ g \in Objects(q)
    BY DEF IInv, TypeOK
  <1>2. Verdict(p) = r
    BY DEF Verdict
  <1>3. m = createChallenge(g) \/ \A k, x : m[1] # hmac(k, x)
    <2>1. m \in {createChallenge(g), Noise, AuthMsg, AckMsg}
      BY <1>1, ArrivedForms
    <2> QED BY <2>1, Forms
  <1>4. st \in {ClientChallenge, ServerChallenge}
    OBVIOUS
  <1>5. (g.K = h.K) <=> SameApp
    BY DEF SameApp
  <1>6. \/ /\ r.ok /\ r.h = Learned(h, q)
           /\ m = createChallenge(g) /\ g.K = h.K
        \/ /\ ~r.ok /\ r.h = h
           /\ m = createChallenge(g) => g.K # h.K
    <2> HIDE DEF q, m, g, h, st
    <2> QED BY <1>1, <1>3, <1>4, ChallengeVerdict
  <1> HIDE DEF r
  <1> QED BY <1>2, <1>5, <1>6

(* The server reads a client's proof: it is accepted only if it is the     *)
(* genuine one, made for this server by a client the authorizer admits,    *)
(* and an undamaged one always is.                                         *)
LEMMA AuthRead ==
    ASSUME IInv, net[Client] # Unset, step[Server] = ClientAuth
    PROVE  /\ Verdict(Server).h \in Objects(Server)
           /\ LET g == Verdict(Server).h
              IN  g.K = s.K /\ g.X = s.X /\ g.x = s.x /\ g.yp = s.yp /\ g.ab = s.ab
           /\ Verdict(Server).ok =>
                /\ RightServer /\ Welcome /\ HasProved
                /\ Verdict(Server).h.H = c.H /\ Verdict(Server).h.Yp = c.X
                /\ Verdict(Server).h.aB = DH(Client, s.X)
                /\ Verdict(Server).h.Ab = DH(Server, c.X)
           /\ ~Verdict(Server).ok /\ Arrived(Client) = AuthMsg =>
                ~(RightServer /\ Welcome)
  <1> DEFINE m == Arrived(Client)
             r == ReceivedBytes(Server, ClientAuth, s, clientAuth, m)
  <1>1. /\ s \in Objects(Server) /\ c \in Objects(Client)
        /\ s.yp # Unset /\ s.ab = AB /\ SameApp /\ c.K = s.K /\ c.Yp # Unset
    BY DEF IInv, TypeOK, ServerInv, ClientInv, SameApp, s, c
  <1>2. Verdict(Server) = r
    BY DEF Verdict, s
  <1>3. m = AuthMsg \/ \A x : m[1] # hash(x)
    <2>1. m \in {createChallenge(c), Noise, AuthMsg}
      BY ArrivedForms DEF c
    <2> QED BY <2>1, Forms
  <1>4. m = AuthMsg => HasProved /\ c.H = ProofOf(c.K, c.X, c.Yp)
    <2>1. m = AuthMsg => m # createChallenge(c) /\ m # Noise
      BY Forms, Terms DEF AuthOf, box
    <2>2. m = AuthMsg => HasProved
      BY <2>1, ArrivedForms DEF c
    <2> QED BY <2>2 DEF IInv, ClientInv, HasProved
  <1>5. (RightServer <=> c.Yp = s.X) /\ (Welcome <=> Authorizes(clientAuth, c.X))
    BY DEF RightServer, Welcome, Authorizes, c, s
  <1> HIDE DEF m
  <1>6. /\ r.h \in Objects(Server)
        /\ r.h.K = s.K /\ r.h.X = s.X /\ r.h.x = s.x /\ r.h.yp = s.yp /\ r.h.ab = s.ab
        /\ r.ok => /\ m = AuthMsg /\ c.Yp = s.X /\ Authorizes(clientAuth, c.X)
                   /\ r.h.H = ProofOf(c.K, c.X, c.Yp) /\ r.h.Yp = c.X
                   /\ r.h.aB = DH(Client, s.X) /\ r.h.Ab = DH(Server, c.X)
        /\ ~r.ok => ~(m = AuthMsg /\ c.Yp = s.X /\ Authorizes(clientAuth, c.X))
    BY <1>1, <1>3, AuthVerdict
  <1> HIDE DEF r
  <1> QED BY <1>2, <1>4, <1>5, <1>6 DEF m

(* The client reads the server's ack: it is accepted only if the server    *)
(* has sent one, and an undamaged one always is.                           *)
LEMMA AckRead ==
    ASSUME IInv, net[Server] # Unset, step[Client] = ServerAck
    PROVE  /\ Verdict(Client).h \in Objects(Client)
           /\ SameSecrets(Verdict(Client).h, c)
           /\ LET g == Verdict(Client).h
              IN  /\ g.H = c.H /\ g.aB = c.aB /\ g.Ab = c.Ab
                  /\ g.serverAckKey = AckKey(c.K, c.X, c.Yp)
           /\ Verdict(Client).ok => HasAcked
           /\ ~Verdict(Client).ok => Arrived(Server) # AckMsg
  <1> DEFINE m == Arrived(Server)
             r == ReceivedBytes(Client, ServerAck, c, clientAuth, m)
  <1>1. /\ c \in Objects(Client) /\ s \in Objects(Server)
        /\ c.Yp # Unset /\ c.ab = AB /\ c.aB = DH(Client, c.Yp)
        /\ c.Ab = DH(Server, c.X) /\ c.H = ProofOf(c.K, c.X, c.Yp)
    BY DEF IInv, TypeOK, ClientInv, c, s
  <1>2. Verdict(Client) = r
    BY DEF Verdict, c
  <1>3. m = AckMsg \/ \A x : m[1] # hash(x)
    <2>1. m \in {createChallenge(s), Noise, AckMsg}
      BY ArrivedForms DEF s
    <2> QED BY <2>1, Forms
  <1>4. m = AckMsg => HasAcked
    <2>1. m = AckMsg => m # createChallenge(s) /\ m # Noise
      BY Forms, Terms DEF AckOf, box, AckKey
    <2> QED BY <2>1, ArrivedForms DEF s
  <1>5. HasAcked => s.K = c.K /\ s.X = c.Yp /\ s.Yp = c.X
    BY DEF IInv, ServerInv, HasAcked, RightServer, SameApp, c, s
  <1> HIDE DEF m
  <1>6. /\ r.h \in Objects(Client) /\ SameSecrets(r.h, c)
        /\ r.h.H = c.H /\ r.h.aB = c.aB /\ r.h.Ab = c.Ab
        /\ r.h.serverAckKey = AckKey(c.K, c.X, c.Yp)
        /\ r.ok => m = AckMsg
        /\ ~r.ok => ~(m = AckMsg /\ s.K = c.K /\ s.X = c.Yp /\ s.Yp = c.X)
    BY <1>1, <1>3, AckVerdict
  <1> HIDE DEF r
  <1> QED BY <1>2, <1>4, <1>5, <1>6 DEF m

----------------------------------------------------------------------------
(* The invariant is inductive: one lemma per action.                       *)

(* The messages of the protocol are well formed, and a challenge is never  *)
(* taken for a box.                                                        *)
LEMMA MessageForms ==
    ASSUME IInv
    PROVE  /\ createChallenge(c) \in Messages /\ createChallenge(s) \in Messages
           /\ AuthMsg \in Auths
           /\ s.Yp \in Keys => AckMsg \in Acks
           /\ createChallenge(c) # AuthMsg /\ createChallenge(s) # AckMsg
           /\ c.K \in AppIDs /\ c.X \in Keys /\ c.Yp \in Keys
           /\ s.K \in AppIDs /\ s.X \in Keys
  <1>1. c \in Objects(Client) /\ s \in Objects(Server)
    BY DEF IInv, TypeOK, c, s
  <1>2. /\ c.K \in AppIDs /\ c.X \in Keys /\ c.x = Client
        /\ s.K \in AppIDs /\ s.X \in Keys /\ s.x = Server
    BY <1>1 DEF Objects
  <1>3. c.Yp \in Keys
    BY <1>1 DEF IInv, ClientInv, Objects
  <1>4. createChallenge(c) \in Challenges /\ createChallenge(s) \in Challenges
    BY <1>2 DEF createChallenge, Challenges
  <1>5. AuthMsg \in Auths
    BY <1>2, <1>3 DEF AuthOf, Auths
  <1>6. s.Yp \in Keys => AckMsg \in Acks
    BY <1>2 DEF AckOf, Acks
  <1>7. createChallenge(c) # AuthMsg
    BY Terms DEF createChallenge, AuthOf, box
  <1>8. createChallenge(s) # AckMsg
    BY Terms DEF createChallenge, AckOf, box, AckKey
  <1> QED BY <1>2, <1>3, <1>4, <1>5, <1>6, <1>7, <1>8 DEF Messages

(* _fillOutputBuffer() always makes one of the messages of the protocol.   *)
LEMMA FillIsMessage ==
    IInv => \A p \in Peers : Sends(p, step[p]) => Fill(p).msg \in Messages
  <1> SUFFICES ASSUME IInv, NEW p \in Peers, Sends(p, step[p])
               PROVE  Fill(p).msg \in Messages
    OBVIOUS
  <1>1. CASE p = Client
    <2>1. step[Client] \in {1, 3} /\ Sends(Client, step[Client])
      BY <1>1 DEF Sends
    <2>2. Fill(Client).msg \in {createChallenge(c), AuthMsg}
      BY <2>1, ClientFill
    <2> QED BY <1>1, <2>2, MessageForms DEF Messages
  <1>2. CASE p = Server
    <2>1. step[Server] \in {2, 4} /\ Sends(Server, step[Server])
      BY <1>2 DEF Sends
    <2>2. CASE step[Server] = 2
      BY <1>2, <2>1, <2>2, ServerFill, MessageForms
    <2>3. CASE step[Server] = 4
      <3>1. s.Yp \in Keys
        BY <2>3, MessageForms DEF IInv, ServerInv
      <3> QED BY <1>2, <2>1, <2>3, <3>1, ServerFill, MessageForms DEF Messages
    <2> QED BY <2>1, <2>2, <2>3
  <1> QED BY <1>1, <1>2

(* A step that leaves the objects alone leaves what is said of them alone. *)
LEMMA Frame ==
    ASSUME UNCHANGED <<impl, clientAuth>>
    PROVE  /\ c' = c /\ s' = s /\ AuthMsg' = AuthMsg /\ AckMsg' = AckMsg
           /\ SameApp' = SameApp /\ RightServer' = RightServer
           /\ Welcome' = Welcome
  <1>1. c' = c /\ s' = s
    BY DEF c, s
  <1>2. AuthMsg' = AuthMsg
    BY <1>1 DEF AuthOf
  <1>3. AckMsg' = AckMsg
    BY <1>1 DEF AckOf
  <1>4. /\ SameApp' = SameApp /\ RightServer' = RightServer
        /\ Welcome' = Welcome
    BY DEF SameApp, RightServer, Welcome
  <1> QED BY <1>1, <1>2, <1>3, <1>4

(* The invariant holds of two freshly constructed handshakes. *)
LEMMA InitHolds == Init => IInv
  <1> SUFFICES ASSUME Init PROVE IInv
    OBVIOUS
  <1>1. PICK g \in ClientHandshakes, h \in ServerHandshakes :
            impl = [p \in Peers |-> IF p = Client THEN g ELSE h]
    BY DEF Init
  <1>2. c = g /\ s = h
    BY <1>1 DEF c, s
  <1>3. /\ g \in Objects(Client) /\ g.Yp \in Keys /\ g.yp = Unset /\ g.H = Unset
        /\ h \in Objects(Server) /\ h.yp = Unset
    BY Constructed
  <1>4. TypeOK
    <2>1. impl \in [Peers -> Objects(Client) \cup Objects(Server)] /\ \A p \in Peers : impl[p] \in Objects(p)
      BY <1>1, <1>3
    <2> QED BY <2>1, MaxFaultsAssumption DEF TypeOK, Init, Steps, Errors, NoError
  <1>5. ClientInv /\ ServerInv
    BY <1>2, <1>3, UnsetAssumption DEF ClientInv, ServerInv, Init, HasAcked
  <1>6. OutInv /\ NetInv /\ BoxedInv
    <2>1. out[Client] = Unset /\ out[Server] = Unset /\ ~sent[Client] /\ ~sent[Server]
          /\ net[Client] = Unset /\ net[Server] = Unset /\ boxed = {}
      BY DEF Init
    <2> QED BY <2>1 DEF OutInv, NetInv, BoxedInv
  <1> QED BY <1>4, <1>5, <1>6 DEF IInv

(* Closing, crashing and damage touch neither objects nor steps, and at    *)
(* most empty a channel.                                                   *)
LEMMA EnvironmentStep ==
    ASSUME IInv, NEW p \in Peers,
           Close(p) \/ WriteFailed(p) \/ Drop(p) \/ Corrupt(p)
    PROVE  IInv'
  <1>1. UNCHANGED <<step, error, impl, out, sent, clientAuth, boxed>>
    BY DEF Close, WriteFailed, Drop, Corrupt
  <1>2. /\ c' = c /\ s' = s /\ AuthMsg' = AuthMsg /\ AckMsg' = AckMsg
        /\ SameApp' = SameApp /\ RightServer' = RightServer
        /\ Welcome' = Welcome
    BY <1>1, Frame
  <1>3. \A q \in Peers : net'[q] \in {net[q], Unset}
    BY DEF Close, WriteFailed, Drop, Corrupt, IInv, TypeOK
  <1>4. TypeOK'
    <2>1. net' \in [Peers -> Messages \cup {Unset}]
      BY <1>3 DEF Close, WriteFailed, Drop, Corrupt, IInv, TypeOK
    <2>2. garbled' \in [Peers -> BOOLEAN]
      <3>1. garbled' = garbled \/ \E g \in BOOLEAN : garbled' = [garbled EXCEPT ![p] = g]
        BY DEF Close, WriteFailed, Drop, Corrupt, IInv, TypeOK
      <3> QED BY <3>1 DEF IInv, TypeOK
    <2>4. open' \in [Peers -> BOOLEAN]
      BY ZenonT(60) DEF Close, WriteFailed, Drop, Corrupt, IInv, TypeOK
    <2>3. faults' \in 0 .. MaxFaults
      BY MaxFaultsAssumption DEF Close, WriteFailed, Drop, Corrupt, IInv, TypeOK
    <2> QED BY <1>1, <2>1, <2>2, <2>3, <2>4 DEF IInv, TypeOK
  <1>5. HasProved' = HasProved /\ HasAcked' = HasAcked
    BY <1>1, <1>2 DEF HasProved, HasAcked
  <1>6. ClientInv' /\ ServerInv'
    BY <1>1, <1>2, <1>5 DEF IInv, ClientInv, ServerInv
  <1>7. OutInv' /\ BoxedInv'
    BY <1>1, <1>2 DEF IInv, OutInv, BoxedInv
  <1>8. NetInv'
    BY <1>2, <1>3, <1>5 DEF IInv, NetInv
  <1> QED BY <1>4, <1>6, <1>7, <1>8 DEF IInv

(* Writing the output buffer to the transport preserves the invariant. *)
LEMMA WriteStep ==
    ASSUME IInv, NEW p \in Peers, Write(p)
    PROVE  IInv'
  <1>1. UNCHANGED <<step, error, impl, out, garbled, open, clientAuth, boxed, faults>>
    BY DEF Write
  <1>2. /\ c' = c /\ s' = s /\ AuthMsg' = AuthMsg /\ AckMsg' = AckMsg
        /\ SameApp' = SameApp /\ RightServer' = RightServer
        /\ Welcome' = Welcome
    BY <1>1, Frame
  <1>3. /\ sent' \in [Peers -> BOOLEAN] /\ sent'[p]
        /\ \A q \in Peers : sent[q] => sent'[q]
        /\ \A q \in Peers : q # p => sent'[q] = sent[q] /\ net'[q] = net[q]
        /\ net' \in [Peers -> Messages \cup {Unset}] /\ net'[p] = out[p]
        /\ out[p] # Unset
    BY DEF Write, IInv, TypeOK
  <1>4. TypeOK'
    BY <1>1, <1>3 DEF IInv, TypeOK
  <1>5. (HasProved => HasProved') /\ (HasAcked => HasAcked')
    BY <1>1, <1>2, <1>3 DEF HasProved, HasAcked
  <1>6. ClientInv'
    BY <1>1, <1>2, <1>5 DEF IInv, ClientInv
  <1>7. OutInv'
    BY <1>1, <1>2, <1>3 DEF IInv, OutInv
  <1>8. ServerInv'
    <2>1. HasAcked' => s.serverAckKey = AckKey(s.K, s.Yp, s.X)
      <3>1. CASE HasAcked
        BY <3>1 DEF IInv, ServerInv
      <3>2. CASE ~HasAcked /\ HasAcked'
        <4>1. step[Server] = ServerAck /\ out[Server] # Unset
          BY <1>1, <1>3, <3>2 DEF HasAcked
        <4> QED BY <4>1 DEF IInv, OutInv
      <3> QED BY <3>1, <3>2
    <2> QED BY <1>1, <1>2, <1>5, <2>1 DEF IInv, ServerInv
  <1>9. NetInv'
    <2>1. CASE p = Client
      <3>1. net'[Client] = createChallenge(c) \/ (net'[Client] = AuthMsg /\ HasProved')
        BY <1>1, <1>2, <1>3, <2>1 DEF IInv, OutInv, HasProved
      <3> QED BY <1>2, <1>3, <1>5, <2>1, <3>1 DEF IInv, NetInv
    <2>2. CASE p = Server
      <3>1. net'[Server] = createChallenge(s) \/ (net'[Server] = AckMsg /\ HasAcked')
        BY <1>1, <1>2, <1>3, <2>2 DEF IInv, OutInv, HasAcked
      <3> QED BY <1>2, <1>3, <1>5, <2>2, <3>1 DEF IInv, NetInv
    <2> QED BY <2>1, <2>2
  <1>10. BoxedInv'
    BY <1>1, <1>2 DEF IInv, BoxedInv
  <1> QED BY <1>4, <1>6, <1>7, <1>8, <1>9, <1>10 DEF IInv

(* sendCompleted() preserves the invariant. *)
LEMMA SendCompletedStep ==
    ASSUME IInv, NEW p \in Peers, SendCompleted(p)
    PROVE  IInv'
  <1>1. UNCHANGED <<error, impl, net, garbled, open, clientAuth, boxed, faults>>
    BY DEF SendCompleted, NextStep
  <1>2. /\ c' = c /\ s' = s /\ AuthMsg' = AuthMsg /\ AckMsg' = AckMsg
        /\ SameApp' = SameApp /\ RightServer' = RightServer
        /\ Welcome' = Welcome
    BY <1>1, Frame
  <1>3. /\ sent[p] /\ out[p] # Unset /\ Sends(p, step[p])
        /\ step'[p] = step[p] + 1 /\ out'[p] = Unset /\ ~sent'[p]
        /\ \A q \in Peers : q # p => /\ step'[q] = step[q] /\ out'[q] = out[q]
                                     /\ sent'[q] = sent[q]
    BY DEF SendCompleted, NextStep, IInv, TypeOK, OutInv
  <1>4. TypeOK'
    <2>1. step[p] \in 1 .. 4
      BY <1>3 DEF Sends
    <2>2. step' \in [Peers -> Steps]
      BY <2>1 DEF SendCompleted, NextStep, IInv, TypeOK, Steps
    <2>3. out' \in [Peers -> Messages \cup {Unset}] /\ sent' \in [Peers -> BOOLEAN]
      BY DEF SendCompleted, IInv, TypeOK
    <2> QED BY <1>1, <2>2, <2>3 DEF IInv, TypeOK
  <1>5. (HasProved => HasProved') /\ (HasAcked => HasAcked')
    <2>1. CASE p = Client
      BY <1>2, <1>3, <2>1 DEF HasProved, HasAcked, Sends
    <2>2. CASE p = Server
      BY <1>2, <1>3, <2>2 DEF HasProved, HasAcked, Sends
    <2> QED BY <2>1, <2>2
  <1>6. ClientInv' /\ ServerInv'
    <2>1. CASE p = Client
      <3>1. step[Client] = ClientAuth => c.H # Unset
        BY <1>3, <2>1 DEF IInv, OutInv
      <3>2. ClientInv'
        BY <1>2, <1>3, <1>5, <2>1, <3>1 DEF IInv, ClientInv, Sends
      <3>3. HasAcked' = HasAcked
        BY <1>3, <2>1 DEF HasAcked
      <3> QED BY <1>2, <1>3, <1>5, <2>1, <3>2, <3>3 DEF IInv, ServerInv
    <2>2. CASE p = Server
      <3>1. step[Server] = ServerAck => s.serverAckKey = AckKey(s.K, s.Yp, s.X)
        BY <1>3, <2>2 DEF IInv, OutInv
      <3>2. HasAcked' => step[Server] = ServerAck
        BY <1>3, <2>2 DEF HasAcked, Sends
      <3>3. ServerInv'
        BY <1>2, <1>3, <1>5, <2>2, <3>1, <3>2 DEF IInv, ServerInv, Sends
      <3> QED BY <1>2, <1>3, <1>5, <2>2, <3>3 DEF IInv, ClientInv
    <2> QED BY <2>1, <2>2
  <1>7. OutInv'
    BY <1>2, <1>3 DEF IInv, OutInv
  <1>8. NetInv'
    BY <1>1, <1>2, <1>5 DEF IInv, NetInv
  <1>9. BoxedInv'
    BY <1>1, <1>2, <1>3 DEF IInv, BoxedInv, Sends
  <1> QED BY <1>4, <1>6, <1>7, <1>8, <1>9 DEF IInv

(* Filling the output buffer: what a peer adds to its object, and that the *)
(* rest of the invariant survives.  Shared by both sending interfaces.     *)
Filled(p) ==
    /\ Sends(p, step[p])
    /\ impl' = [impl EXCEPT ![p] = Fill(p).h]
    /\ boxed' = boxed \cup Boxes(step[p], Fill(p).msg)
    /\ clientAuth' = clientAuth

(* Filling the client's output buffer keeps what is said of both objects. *)
LEMMA ClientFilled ==
    ASSUME IInv, Filled(Client)
    PROVE  /\ s' = s /\ c' \in Objects(Client) /\ impl' \in [Peers -> Objects(Client) \cup Objects(Server)]
           /\ SameSecrets(c', c) /\ c'.serverAckKey = c.serverAckKey
           /\ AuthMsg' = AuthMsg /\ AckMsg' = AckMsg
           /\ createChallenge(c)' = createChallenge(c)
           /\ SameApp' = SameApp /\ RightServer' = RightServer
           /\ Welcome' = Welcome
           /\ c.H # Unset => c'.H = c.H /\ c'.aB = c.aB /\ c'.Ab = c.Ab
           /\ \/ /\ step[Client] = ClientChallenge
                 /\ Fill(Client).msg = createChallenge(c)
                 /\ c' = c /\ boxed' = boxed
              \/ /\ step[Client] = ClientAuth
                 /\ Fill(Client).msg = AuthMsg
                 /\ c'.H = ProofOf(c.K, c.X, c.Yp) /\ c'.H # Unset
                 /\ c'.aB = DH(Client, c.Yp) /\ c'.Ab = DH(Server, c.X)
                 /\ boxed' = boxed \cup {AuthMsg}
           /\ Fill(Client).msg \in Messages
  <1>1. impl \in [Peers -> Objects(Client) \cup Objects(Server)]
    BY DEF IInv, TypeOK
  <1>2. c' = Fill(Client).h /\ s' = s /\ impl' \in [Peers -> Objects(Client) \cup Objects(Server)]
    <2>1. c' = Fill(Client).h /\ s' = s
      BY <1>1 DEF Filled, c, s
    <2>2. Fill(Client).h \in Objects(Client)
      BY ClientFill DEF Filled
    <2>3. impl' \in [Peers -> Objects(Client) \cup Objects(Server)]
      BY <1>1, <2>2 DEF Filled
    <2> QED BY <2>1, <2>3
  <1>3. c' \in Objects(Client) /\ SameSecrets(c', c) /\ c'.serverAckKey = c.serverAckKey
    BY <1>2, ClientFill DEF Filled
  <1>4. AuthMsg' = AuthMsg
    BY <1>3 DEF AuthOf, SameSecrets
  <1>5. AckMsg' = AckMsg
    BY <1>2 DEF AckOf
  <1>6. createChallenge(c)' = createChallenge(c)
    BY <1>3 DEF createChallenge, SameSecrets
  <1>7. /\ SameApp' = SameApp /\ RightServer' = RightServer /\ Welcome' = Welcome
    BY <1>2, <1>3 DEF SameApp, RightServer, Welcome, SameSecrets, Filled, c, s
  <1>8. step[Client] \in {ClientChallenge, ClientAuth}
    BY DEF Filled, Sends
  <1>9. CASE step[Client] = ClientChallenge
    <2>1. c' = c /\ Fill(Client).msg = createChallenge(c)
      BY <1>2, <1>9, ClientFill DEF Filled
    <2>2. boxed' = boxed
      BY <1>9 DEF Filled, Boxes
    <2> QED
      BY <1>2, <1>3, <1>4, <1>5, <1>6, <1>7, <1>9, <2>1, <2>2, MessageForms
  <1>10. CASE step[Client] = ClientAuth
    <2>1. /\ Fill(Client).msg = AuthMsg
          /\ c'.H = ProofOf(c.K, c.X, c.Yp)
          /\ c'.aB = DH(Client, c.Yp) /\ c'.Ab = DH(Server, c.X)
      BY <1>2, <1>10, ClientFill DEF Filled
    <2>2. boxed' = boxed \cup {AuthMsg}
      BY <1>10, <2>1 DEF Filled, Boxes
    <2>3. ProofOf(c.K, c.X, c.Yp) \in Proofs
      BY MessageForms DEF Proofs
    <2>4. c'.H # Unset
      BY <2>1, <2>3, TermsAssumption
    <2>5. AuthMsg \in Messages
      BY MessageForms DEF Messages
    <2>6. c.H # Unset => c'.H = c.H /\ c'.aB = c.aB /\ c'.Ab = c.Ab
      BY <2>1 DEF IInv, ClientInv
    <2> QED
      BY <1>2, <1>3, <1>4, <1>5, <1>6, <1>7, <1>10, <2>1, <2>2, <2>4, <2>5, <2>6
  <1> QED BY <1>8, <1>9, <1>10

(* Filling the server's output buffer keeps what is said of both objects. *)
LEMMA ServerFilled ==
    ASSUME IInv, Filled(Server)
    PROVE  /\ c' = c /\ s' \in Objects(Server) /\ impl' \in [Peers -> Objects(Client) \cup Objects(Server)]
           /\ SameSecrets(s', s) /\ s'.H = s.H /\ s'.aB = s.aB /\ s'.Ab = s.Ab
           /\ AuthMsg' = AuthMsg /\ AckMsg' = AckMsg
           /\ createChallenge(s)' = createChallenge(s)
           /\ SameApp' = SameApp /\ RightServer' = RightServer
           /\ Welcome' = Welcome
           /\ \/ /\ step[Server] = ServerChallenge
                 /\ Fill(Server).msg = createChallenge(s)
                 /\ s' = s /\ boxed' = boxed
              \/ /\ step[Server] = ServerAck
                 /\ Fill(Server).msg = AckMsg
                 /\ s'.serverAckKey = AckKey(s.K, s.Yp, s.X)
                 /\ boxed' = boxed \cup {AckMsg}
           /\ Fill(Server).msg \in Messages
  <1>1. impl \in [Peers -> Objects(Client) \cup Objects(Server)]
    BY DEF IInv, TypeOK
  <1>2. s' = Fill(Server).h /\ c' = c /\ impl' \in [Peers -> Objects(Client) \cup Objects(Server)]
    <2>1. s' = Fill(Server).h /\ c' = c
      BY <1>1 DEF Filled, c, s
    <2>2. Fill(Server).h \in Objects(Server)
      BY ServerFill DEF Filled
    <2>3. impl' \in [Peers -> Objects(Client) \cup Objects(Server)]
      BY <1>1, <2>2 DEF Filled
    <2> QED BY <2>1, <2>3
  <1>3. /\ s' \in Objects(Server) /\ SameSecrets(s', s)
        /\ s'.H = s.H /\ s'.aB = s.aB /\ s'.Ab = s.Ab
    BY <1>2, ServerFill DEF Filled
  <1>4. AuthMsg' = AuthMsg
    BY <1>2 DEF AuthOf
  <1>5. AckMsg' = AckMsg
    BY <1>3 DEF AckOf, SameSecrets
  <1>6. createChallenge(s)' = createChallenge(s)
    BY <1>3 DEF createChallenge, SameSecrets
  <1>7. /\ SameApp' = SameApp /\ RightServer' = RightServer /\ Welcome' = Welcome
    BY <1>2, <1>3 DEF SameApp, RightServer, Welcome, SameSecrets, Filled, c, s
  <1>8. step[Server] \in {ServerChallenge, ServerAck}
    BY DEF Filled, Sends
  <1>9. CASE step[Server] = ServerChallenge
    <2>1. s' = s /\ Fill(Server).msg = createChallenge(s)
      BY <1>2, <1>9, ServerFill DEF Filled
    <2>2. boxed' = boxed
      BY <1>9 DEF Filled, Boxes
    <2> QED
      BY <1>2, <1>3, <1>4, <1>5, <1>6, <1>7, <1>9, <2>1, <2>2, MessageForms
  <1>10. CASE step[Server] = ServerAck
    <2>1. Fill(Server).msg = AckMsg /\ s'.serverAckKey = AckKey(s.K, s.Yp, s.X)
      BY <1>2, <1>10, ServerFill DEF Filled
    <2>2. boxed' = boxed \cup {AckMsg}
      BY <1>10, <2>1 DEF Filled, Boxes
    <2>3. s.Yp \in Keys
      BY <1>10, MessageForms DEF IInv, ServerInv
    <2>4. AckMsg \in Messages
      BY <2>3, MessageForms DEF Messages
    <2> QED
      BY <1>2, <1>3, <1>4, <1>5, <1>6, <1>7, <1>10, <2>1, <2>2, <2>4
  <1> QED BY <1>8, <1>9, <1>10

(* bytesToSend() preserves the invariant. *)
LEMMA BytesToSendStep ==
    ASSUME IInv, NEW p \in Peers, BytesToSend(p)
    PROVE  IInv'
  <1>1. /\ UNCHANGED <<step, error, sent, net, garbled, open, clientAuth, faults>>
        /\ Filled(p) /\ out[p] = Unset /\ ~sent[p]
        /\ out'[p] = Fill(p).msg
        /\ \A q \in Peers : q # p => out'[q] = out[q]
    BY DEF BytesToSend, Filled, IInv, TypeOK, OutInv
  <1>2. impl[Client] = c /\ impl[Server] = s
    BY DEF c, s
  <1>3. CASE p = Client
    <2>1. Filled(Client)
      BY <1>1, <1>3
    <2>2. TypeOK'
      <3>1. \A q \in Peers : impl'[q] \in Objects(q)
        BY <2>1, ClientFilled DEF IInv, TypeOK, c, s
      <3>2. out' \in [Peers -> Messages \cup {Unset}]
        BY <1>3, <2>1, ClientFilled DEF BytesToSend, IInv, TypeOK
      <3>3. boxed' \subseteq Auths \cup Acks
        BY <2>1, ClientFilled, MessageForms DEF IInv, TypeOK
      <3> QED BY <1>1, <2>1, <3>1, <3>2, <3>3, ClientFilled DEF IInv, TypeOK
    <2>3. (HasProved => HasProved') /\ HasAcked' = HasAcked
      BY <1>1, <2>1, ClientFilled DEF HasProved, HasAcked
    <2>4. ClientInv'
      BY <1>1, <2>1, <2>3, ClientFilled DEF IInv, ClientInv, SameSecrets
    <2>5. ServerInv'
      BY <1>1, <2>1, <2>3, ClientFilled DEF IInv, ServerInv, SameSecrets, HasProved
    <2>6. OutInv'
      BY <1>1, <1>3, <2>1, ClientFilled DEF IInv, OutInv, Filled
    <2>7. NetInv'
      BY <1>1, <2>1, <2>3, ClientFilled DEF IInv, NetInv
    <2>8. BoxedInv'
      BY <1>1, <2>1, ClientFilled DEF IInv, BoxedInv
    <2> QED BY <2>2, <2>4, <2>5, <2>6, <2>7, <2>8 DEF IInv
  <1>4. CASE p = Server
    <2>1. Filled(Server)
      BY <1>1, <1>4
    <2>2. TypeOK'
      <3>1. \A q \in Peers : impl'[q] \in Objects(q)
        BY <2>1, ServerFilled DEF IInv, TypeOK, c, s
      <3>2. out' \in [Peers -> Messages \cup {Unset}]
        BY <1>4, <2>1, ServerFilled DEF BytesToSend, IInv, TypeOK
      <3>3. boxed' \subseteq Auths \cup Acks
        <4>1. step[Server] = ServerAck => AckMsg \in Acks
          BY MessageForms DEF IInv, ServerInv
        <4> QED BY <2>1, <4>1, ServerFilled DEF IInv, TypeOK
      <3> QED BY <1>1, <2>1, <3>1, <3>2, <3>3, ServerFilled DEF IInv, TypeOK
    <2>3. HasProved' = HasProved /\ HasAcked' = HasAcked
      BY <1>1, <2>1, ServerFilled DEF HasProved, HasAcked
    <2>4. ClientInv'
      BY <1>1, <2>1, <2>3, ServerFilled DEF IInv, ClientInv
    <2>5. ServerInv'
      <3>1. ~HasAcked
        BY <1>1, <1>4 DEF HasAcked, Filled, Sends
      <3> QED BY <1>1, <2>1, <2>3, <3>1, ServerFilled DEF IInv, ServerInv, SameSecrets
    <2>6. OutInv'
      BY <1>1, <1>4, <2>1, ServerFilled DEF IInv, OutInv, Filled, SameSecrets
    <2>7. NetInv'
      BY <1>1, <2>1, <2>3, ServerFilled DEF IInv, NetInv
    <2>8. BoxedInv'
      BY <1>1, <2>1, ServerFilled DEF IInv, BoxedInv
    <2> QED BY <2>2, <2>4, <2>5, <2>6, <2>7, <2>8 DEF IInv
  <1> QED BY <1>3, <1>4

(* copyBytesToSend on a buffer that was empty and on one that was not are  *)
(* the same to the invariant: the second has been filled before.           *)
LEMMA CopyForms ==
    ASSUME IInv, NEW p \in Peers, CopyBytesToSend(p)
    PROVE  /\ UNCHANGED <<error, sent, garbled, open, clientAuth, faults>>
           /\ Sends(p, step[p]) /\ ~sent[p] /\ step[p] \in 1 .. 4
           /\ step' = [step EXCEPT ![p] = step[p] + 1]
           /\ out' = [out EXCEPT ![p] = Unset]
           /\ \/ Filled(p) /\ net' = [net EXCEPT ![p] = Fill(p).msg]
              \/ /\ out[p] # Unset /\ impl' = impl
                 /\ boxed' = boxed \cup Boxes(step[p], out[p])
                 /\ net' = [net EXCEPT ![p] = out[p]]
  <1>1. /\ UNCHANGED <<error, sent, garbled, open, clientAuth, faults>>
        /\ Sends(p, step[p]) /\ ~sent[p]
        /\ step' = [step EXCEPT ![p] = step[p] + 1]
        /\ out' = [out EXCEPT ![p] = Unset]
    BY DEF CopyBytesToSend, NextStep
  <1>2. step[p] \in 1 .. 4
    BY <1>1 DEF Sends
  <1>3. CASE out[p] = Unset
    BY <1>1, <1>2, <1>3 DEF CopyBytesToSend, Filled
  <1>4. CASE out[p] # Unset
    <2>1. impl' = [impl EXCEPT ![p] = impl[p]]
          /\ boxed' = boxed \cup Boxes(step[p], out[p])
          /\ net' = [net EXCEPT ![p] = out[p]]
      BY <1>4 DEF CopyBytesToSend
    <2>2. impl \in [Peers -> Objects(Client) \cup Objects(Server)]
      BY DEF IInv, TypeOK
    <2>3. impl' = impl
      BY <2>1, <2>2
    <2> QED BY <1>1, <1>2, <1>4, <2>1, <2>3
  <1> QED BY <1>3, <1>4

(* copyBytesToSend() on the client preserves the invariant. *)
LEMMA CopyClientStep ==
    ASSUME IInv, CopyBytesToSend(Client)
    PROVE  IInv'
  <1>1. /\ UNCHANGED <<error, sent, garbled, open, clientAuth, faults>>
        /\ ~sent[Client] /\ step[Client] \in {ClientChallenge, ClientAuth}
        /\ step' = [step EXCEPT ![Client] = step[Client] + 1]
        /\ out' = [out EXCEPT ![Client] = Unset]
    BY CopyForms DEF Sends
  <1>2. /\ step'[Client] = step[Client] + 1 /\ step'[Server] = step[Server]
        /\ out'[Client] = Unset /\ out'[Server] = out[Server]
    BY <1>1 DEF IInv, TypeOK
  <1>3. /\ s' = s /\ c' \in Objects(Client) /\ impl' \in [Peers -> Objects(Client) \cup Objects(Server)]
        /\ SameSecrets(c', c) /\ c'.serverAckKey = c.serverAckKey
        /\ AuthMsg' = AuthMsg /\ AckMsg' = AckMsg
        /\ createChallenge(c)' = createChallenge(c)
        /\ SameApp' = SameApp /\ RightServer' = RightServer /\ Welcome' = Welcome
        /\ c.H # Unset => c'.H = c.H /\ c'.aB = c.aB /\ c'.Ab = c.Ab
        /\ \/ /\ step[Client] = ClientChallenge
              /\ net' = [net EXCEPT ![Client] = createChallenge(c)]
              /\ c' = c /\ boxed' = boxed
           \/ /\ step[Client] = ClientAuth
              /\ net' = [net EXCEPT ![Client] = AuthMsg]
              /\ c'.H = ProofOf(c.K, c.X, c.Yp) /\ c'.H # Unset
              /\ c'.aB = DH(Client, c.Yp) /\ c'.Ab = DH(Server, c.X)
              /\ boxed' = boxed \cup {AuthMsg}
    <2>1. CASE Filled(Client) /\ net' = [net EXCEPT ![Client] = Fill(Client).msg]
      BY <2>1, ClientFilled
    <2>2. CASE /\ out[Client] # Unset /\ impl' = impl
               /\ boxed' = boxed \cup Boxes(step[Client], out[Client])
               /\ net' = [net EXCEPT ![Client] = out[Client]]
      <3>1. /\ c' = c /\ s' = s /\ AuthMsg' = AuthMsg /\ AckMsg' = AckMsg
            /\ SameApp' = SameApp /\ RightServer' = RightServer
            /\ Welcome' = Welcome
        BY <1>1, <2>2, Frame
      <3>2. c \in Objects(Client) /\ impl' \in [Peers -> Objects(Client) \cup Objects(Server)] /\ SameSecrets(c, c)
        BY <2>2 DEF IInv, TypeOK, SameSecrets, c
      <3>3. CASE step[Client] = ClientChallenge
        <4>1. out[Client] = createChallenge(c)
          BY <2>2, <3>3 DEF IInv, OutInv
        <4>2. boxed' = boxed
          BY <2>2, <3>3 DEF Boxes
        <4> QED BY <2>2, <3>1, <3>2, <3>3, <4>1, <4>2
      <3>4. CASE step[Client] = ClientAuth
        <4>1. out[Client] = AuthMsg /\ c.H # Unset
          BY <2>2, <3>4 DEF IInv, OutInv
        <4>2. boxed' = boxed \cup {AuthMsg}
          BY <2>2, <3>4, <4>1 DEF Boxes
        <4> QED BY <2>2, <3>1, <3>2, <3>4, <4>1, <4>2 DEF IInv, ClientInv
      <3> QED BY <1>1, <3>3, <3>4
    <2> QED BY <2>1, <2>2, CopyForms
  <1>4. TypeOK'
    <2>1. \A q \in Peers : impl'[q] \in Objects(q)
      BY <1>3 DEF IInv, TypeOK, c, s
    <2>2. out' \in [Peers -> Messages \cup {Unset}] /\ step' \in [Peers -> Steps]
      BY <1>1 DEF IInv, TypeOK, Steps
    <2>3. net' \in [Peers -> Messages \cup {Unset}]
      <3>1. createChallenge(c) \in Messages /\ AuthMsg \in Messages
        BY MessageForms DEF Messages
      <3> QED BY <1>3, <3>1 DEF IInv, TypeOK
    <2>4. boxed' \subseteq Auths \cup Acks
      BY <1>3, MessageForms DEF IInv, TypeOK
    <2> QED BY <1>1, <1>3, <2>1, <2>2, <2>3, <2>4 DEF IInv, TypeOK
  <1>5. (HasProved => HasProved') /\ HasAcked' = HasAcked
    BY <1>1, <1>2, <1>3 DEF HasProved, HasAcked
  <1>6. ClientInv'
    BY <1>2, <1>3, <1>5 DEF IInv, ClientInv, SameSecrets
  <1>7. ServerInv'
    BY <1>2, <1>3, <1>5 DEF IInv, ServerInv, SameSecrets, HasProved
  <1>8. OutInv'
    BY <1>1, <1>2, <1>3 DEF IInv, OutInv
  <1>9. NetInv'
    <2>1. net'[Client] = createChallenge(c) \/ (net'[Client] = AuthMsg /\ HasProved')
      BY <1>2, <1>3 DEF IInv, TypeOK, HasProved
    <2>2. net'[Server] = net[Server]
      BY <1>3 DEF IInv, TypeOK
    <2> QED BY <1>3, <1>5, <2>1, <2>2 DEF IInv, NetInv
  <1>10. BoxedInv'
    BY <1>2, <1>3 DEF IInv, BoxedInv
  <1> QED BY <1>4, <1>6, <1>7, <1>8, <1>9, <1>10 DEF IInv

(* copyBytesToSend() on the server preserves the invariant. *)
LEMMA CopyServerStep ==
    ASSUME IInv, CopyBytesToSend(Server)
    PROVE  IInv'
  <1>1. /\ UNCHANGED <<error, sent, garbled, open, clientAuth, faults>>
        /\ ~sent[Server] /\ step[Server] \in {ServerChallenge, ServerAck}
        /\ step' = [step EXCEPT ![Server] = step[Server] + 1]
        /\ out' = [out EXCEPT ![Server] = Unset]
    BY CopyForms DEF Sends
  <1>2. /\ step'[Server] = step[Server] + 1 /\ step'[Client] = step[Client]
        /\ out'[Server] = Unset /\ out'[Client] = out[Client]
    BY <1>1 DEF IInv, TypeOK
  <1>3. /\ c' = c /\ s' \in Objects(Server) /\ impl' \in [Peers -> Objects(Client) \cup Objects(Server)]
        /\ SameSecrets(s', s) /\ s'.H = s.H /\ s'.aB = s.aB /\ s'.Ab = s.Ab
        /\ AuthMsg' = AuthMsg /\ AckMsg' = AckMsg
        /\ createChallenge(s)' = createChallenge(s)
        /\ SameApp' = SameApp /\ RightServer' = RightServer /\ Welcome' = Welcome
        /\ \/ /\ step[Server] = ServerChallenge
              /\ net' = [net EXCEPT ![Server] = createChallenge(s)]
              /\ boxed' = boxed
           \/ /\ step[Server] = ServerAck
              /\ net' = [net EXCEPT ![Server] = AckMsg]
              /\ s'.serverAckKey = AckKey(s.K, s.Yp, s.X)
              /\ boxed' = boxed \cup {AckMsg}
    <2>1. CASE Filled(Server) /\ net' = [net EXCEPT ![Server] = Fill(Server).msg]
      BY <2>1, ServerFilled
    <2>2. CASE /\ out[Server] # Unset /\ impl' = impl
               /\ boxed' = boxed \cup Boxes(step[Server], out[Server])
               /\ net' = [net EXCEPT ![Server] = out[Server]]
      <3>1. /\ c' = c /\ s' = s /\ AuthMsg' = AuthMsg /\ AckMsg' = AckMsg
            /\ SameApp' = SameApp /\ RightServer' = RightServer
            /\ Welcome' = Welcome
        BY <1>1, <2>2, Frame
      <3>2. s \in Objects(Server) /\ impl' \in [Peers -> Objects(Client) \cup Objects(Server)] /\ SameSecrets(s, s)
        BY <2>2 DEF IInv, TypeOK, SameSecrets, s
      <3>3. CASE step[Server] = ServerChallenge
        <4>1. out[Server] = createChallenge(s)
          BY <2>2, <3>3 DEF IInv, OutInv
        <4>2. boxed' = boxed
          BY <2>2, <3>3 DEF Boxes
        <4> QED BY <2>2, <3>1, <3>2, <3>3, <4>1, <4>2
      <3>4. CASE step[Server] = ServerAck
        <4>1. out[Server] = AckMsg /\ s.serverAckKey = AckKey(s.K, s.Yp, s.X)
          BY <2>2, <3>4 DEF IInv, OutInv
        <4>2. boxed' = boxed \cup {AckMsg}
          BY <2>2, <3>4, <4>1 DEF Boxes
        <4> QED BY <2>2, <3>1, <3>2, <3>4, <4>1, <4>2
      <3> QED BY <1>1, <3>3, <3>4
    <2> QED BY <2>1, <2>2, CopyForms
  <1>4. step[Server] = ServerAck => AckMsg \in Acks
    BY MessageForms DEF IInv, ServerInv
  <1>5. TypeOK'
    <2>1. \A q \in Peers : impl'[q] \in Objects(q)
      BY <1>3 DEF IInv, TypeOK, c, s
    <2>2. out' \in [Peers -> Messages \cup {Unset}] /\ step' \in [Peers -> Steps]
      BY <1>1 DEF IInv, TypeOK, Steps
    <2>3. net' \in [Peers -> Messages \cup {Unset}]
      <3>1. createChallenge(s) \in Messages
            /\ (step[Server] = ServerAck => AckMsg \in Messages)
        BY <1>4, MessageForms DEF Messages
      <3> QED BY <1>3, <3>1 DEF IInv, TypeOK
    <2>4. boxed' \subseteq Auths \cup Acks
      BY <1>3, <1>4 DEF IInv, TypeOK
    <2> QED BY <1>1, <1>3, <2>1, <2>2, <2>3, <2>4 DEF IInv, TypeOK
  <1>6. HasProved' = HasProved /\ (HasAcked => HasAcked')
        /\ (HasAcked' => step[Server] = ServerAck)
    BY <1>1, <1>2, <1>3 DEF HasProved, HasAcked
  <1>7. ClientInv'
    BY <1>2, <1>3, <1>6 DEF IInv, ClientInv
  <1>8. ServerInv'
    BY <1>2, <1>3, <1>6 DEF IInv, ServerInv, SameSecrets
  <1>9. OutInv'
    BY <1>1, <1>2, <1>3 DEF IInv, OutInv
  <1>10. NetInv'
    <2>1. net'[Server] = createChallenge(s) \/ (net'[Server] = AckMsg /\ HasAcked')
      BY <1>2, <1>3 DEF IInv, TypeOK, HasAcked
    <2>2. net'[Client] = net[Client]
      BY <1>3 DEF IInv, TypeOK
    <2> QED BY <1>3, <1>6, <2>1, <2>2 DEF IInv, NetInv
  <1>11. BoxedInv'
    BY <1>2, <1>3 DEF IInv, BoxedInv
  <1> QED BY <1>5, <1>7, <1>8, <1>9, <1>10, <1>11 DEF IInv

(* What failed() does to the step and the error. *)
LEMMA FailsForm ==
    ASSUME IInv, NEW p \in Peers, Fails(p)
    PROVE  /\ step' \in [Peers -> Steps] /\ error' \in [Peers -> Errors]
           /\ step'[p] = Failed
           /\ \A q \in Peers : q # p => step'[q] = step[q]
  <1>1. FailureError(step[p]) \in Errors
    BY DEF FailureError, Errors
  <1> QED BY <1>1 DEF Fails, IInv, TypeOK, Steps

(* readFailed() preserves the invariant. *)
LEMMA ReadFailedStep ==
    ASSUME IInv, NEW p \in Peers, ReadFailed(p)
    PROVE  IInv'
  <1>1. UNCHANGED <<impl, out, sent, net, open, clientAuth, boxed, faults>>
        /\ Receives(p, step[p]) /\ Fails(p)
    BY DEF ReadFailed
  <1>2. /\ c' = c /\ s' = s /\ AuthMsg' = AuthMsg /\ AckMsg' = AckMsg
        /\ SameApp' = SameApp /\ RightServer' = RightServer
        /\ Welcome' = Welcome
    BY <1>1, Frame
  <1>3. /\ step' \in [Peers -> Steps] /\ error' \in [Peers -> Errors]
        /\ step'[p] = Failed
        /\ \A q \in Peers : q # p => step'[q] = step[q]
    BY <1>1, FailsForm
  <1>4. TypeOK'
    <2>1. garbled' \in [Peers -> BOOLEAN]
      BY DEF ReadFailed, IInv, TypeOK
    <2> QED BY <1>1, <1>3, <2>1 DEF IInv, TypeOK
  <1>5. out[p] = Unset /\ ~sent[p]
    BY <1>1 DEF IInv, OutInv, Receives, Sends
  <1>6. (HasProved => HasProved') /\ HasAcked' = HasAcked
    <2>1. CASE p = Client
      BY <1>1, <1>2, <1>3, <1>5, <2>1 DEF HasProved, HasAcked
    <2>2. CASE p = Server
      BY <1>1, <1>2, <1>3, <1>5, <2>2 DEF HasProved, HasAcked, Receives
    <2> QED BY <2>1, <2>2
  <1>7. ClientInv'
    BY <1>2, <1>3, <1>6 DEF IInv, ClientInv
  <1>8. ServerInv'
    BY <1>2, <1>3, <1>6 DEF IInv, ServerInv
  <1>9. OutInv'
    BY <1>1, <1>2, <1>3, <1>5 DEF IInv, OutInv
  <1>10. NetInv'
    BY <1>1, <1>2, <1>6 DEF IInv, NetInv
  <1>11. BoxedInv'
    BY <1>1, <1>2, <1>3 DEF IInv, BoxedInv, Receives
  <1> QED BY <1>4, <1>7, <1>8, <1>9, <1>10, <1>11 DEF IInv

(* What every readCompleted does, apart from its effect on the object. *)
LEMMA ReadForm ==
    ASSUME IInv, NEW p \in Peers, ReadCompleted(p)
    PROVE  /\ UNCHANGED <<out, sent, open, clientAuth, boxed, faults>>
           /\ Receives(p, step[p]) /\ net[Other(p)] # Unset
           /\ impl' = [impl EXCEPT ![p] = Verdict(p).h]
           /\ net'[Other(p)] = Unset /\ net'[p] = net[p]
           /\ net' \in [Peers -> Messages \cup {Unset}]
           /\ garbled' \in [Peers -> BOOLEAN]
           /\ step' \in [Peers -> Steps] /\ error' \in [Peers -> Errors]
           /\ step'[Other(p)] = step[Other(p)]
           /\ \/ Verdict(p).ok /\ step'[p] = step[p] + 1
              \/ step'[p] = Failed
           /\ out[p] = Unset /\ ~sent[p]
  <1>1. /\ UNCHANGED <<out, sent, open, clientAuth, boxed, faults>>
        /\ Receives(p, step[p]) /\ net[Other(p)] # Unset
        /\ impl' = [impl EXCEPT ![p] = Verdict(p).h]
        /\ net' = [net EXCEPT ![Other(p)] = Unset]
        /\ garbled' = [garbled EXCEPT ![Other(p)] = FALSE]
        /\ IF Verdict(p).ok THEN NextStep(p) ELSE Fails(p)
    BY DEF ReadCompleted, Verdict
  <1>2. /\ net'[Other(p)] = Unset /\ net'[p] = net[p]
        /\ net' \in [Peers -> Messages \cup {Unset}]
        /\ garbled' \in [Peers -> BOOLEAN]
    BY <1>1 DEF IInv, TypeOK
  <1>3. step[p] \in 1 .. 4
    BY <1>1 DEF Receives
  <1>4. CASE Verdict(p).ok /\ NextStep(p)
    <2>1. step' = [step EXCEPT ![p] = step[p] + 1] /\ error' = error
      BY <1>4 DEF NextStep
    <2>2. /\ step' \in [Peers -> Steps] /\ error' \in [Peers -> Errors]
          /\ step'[Other(p)] = step[Other(p)] /\ step'[p] = step[p] + 1
      BY <1>3, <2>1 DEF IInv, TypeOK, Steps
    <2>3. out[p] = Unset /\ ~sent[p]
      BY <1>1 DEF IInv, OutInv, Receives, Sends
    <2> QED BY <1>1, <1>2, <1>4, <2>2, <2>3
  <1>5. CASE Fails(p)
    <2>1. out[p] = Unset /\ ~sent[p]
      BY <1>1 DEF IInv, OutInv, Receives, Sends
    <2> QED BY <1>1, <1>2, <1>5, <2>1, FailsForm
  <1> QED BY <1>1, <1>4, <1>5

(* What readCompleted() makes of the client's object. *)
LEMMA ClientReads ==
    ASSUME IInv, ReadCompleted(Client)
    PROVE  /\ c' = Verdict(Client).h /\ s' = s
           /\ c' \in Objects(Client)
           /\ c'.K = c.K /\ c'.X = c.X /\ c'.x = c.x /\ c'.Yp = c.Yp
           /\ c'.H = c.H /\ c'.aB = c.aB /\ c'.Ab = c.Ab
           /\ c'.yp # Unset => SameApp /\ c'.ab = AB
           /\ c.yp # Unset => c'.yp # Unset
           /\ step'[Client] # Failed => c'.yp # Unset
           /\ step'[Client] = Finished =>
                 HasAcked /\ c'.serverAckKey = AckKey(c.K, c.X, c.Yp)
           /\ SameApp' = SameApp /\ RightServer' = RightServer /\ Welcome' = Welcome
  <1> DEFINE g == Verdict(Client).h
  <1>1. /\ UNCHANGED <<out, sent, open, clientAuth, boxed, faults>>
        /\ step[Client] \in {ServerChallenge, ServerAck} /\ net[Server] # Unset
        /\ impl' = [impl EXCEPT ![Client] = g]
        /\ net'[Server] = Unset /\ net'[Client] = net[Client]
        /\ step'[Server] = step[Server]
        /\ \/ Verdict(Client).ok /\ step'[Client] = step[Client] + 1
           \/ step'[Client] = Failed
        /\ out[Client] = Unset /\ ~sent[Client]
    BY ReadForm DEF Receives
  <1>2. c' = g /\ s' = s
    BY <1>1 DEF IInv, TypeOK, c, s
  <1>3. /\ g \in Objects(Client)
        /\ g.K = c.K /\ g.X = c.X /\ g.x = c.x /\ g.Yp = c.Yp
        /\ g.H = c.H /\ g.aB = c.aB /\ g.Ab = c.Ab
        /\ g.yp # Unset => SameApp /\ g.ab = AB
        /\ c.yp # Unset => g.yp # Unset
        /\ step'[Client] # Failed => g.yp # Unset
        /\ step'[Client] = Finished =>
              HasAcked /\ g.serverAckKey = AckKey(c.K, c.X, c.Yp)
    <2>1. c \in Objects(Client) /\ c = impl[Client]
      BY DEF IInv, TypeOK, c
    <2>2. CASE step[Client] = ServerChallenge
      <3>1. /\ Verdict(Client).ok => SameApp /\ g = Learned(c, Server)
            /\ ~Verdict(Client).ok => g = c
        BY <1>1, <2>1, <2>2, ChallengeRead
      <3>2. CASE Verdict(Client).ok
        <4>1. g = Learned(c, Server) /\ SameApp
          BY <3>1, <3>2
        <4>2. /\ g \in Objects(Client) /\ g.yp = Server /\ g.ab = AB
              /\ g.K = c.K /\ g.X = c.X /\ g.x = c.x /\ g.Yp = c.Yp
              /\ g.H = c.H /\ g.aB = c.aB /\ g.Ab = c.Ab
          BY <2>1, <4>1, LearnedFields
        <4> HIDE DEF g
        <4> QED BY <1>1, <2>2, <4>1, <4>2, UnsetAssumption
      <3>3. CASE ~Verdict(Client).ok
        <4>1. g = c /\ step'[Client] = Failed
          BY <1>1, <3>1, <3>3
        <4> HIDE DEF g
        <4> QED BY <2>1, <4>1 DEF IInv, ClientInv
      <3> QED BY <3>2, <3>3
    <2>3. CASE step[Client] = ServerAck
      <3>1. /\ g \in Objects(Client) /\ SameSecrets(g, c)
            /\ g.H = c.H /\ g.aB = c.aB /\ g.Ab = c.Ab
            /\ g.serverAckKey = AckKey(c.K, c.X, c.Yp)
            /\ Verdict(Client).ok => HasAcked
        BY <1>1, <2>3, AckRead
      <3>2. c.yp # Unset /\ SameApp /\ c.ab = AB
        BY <2>3 DEF IInv, ClientInv
      <3> HIDE DEF g
      <3> QED BY <1>1, <2>3, <3>1, <3>2 DEF SameSecrets
    <2> QED BY <1>1, <2>2, <2>3
  <1> HIDE DEF g
  <1>4. SameApp' = SameApp /\ RightServer' = RightServer /\ Welcome' = Welcome
    BY <1>1, <1>2, <1>3 DEF SameApp, RightServer, Welcome, c, s
  <1> QED BY <1>2, <1>3, <1>4 DEF g

(* readCompleted() on the client preserves the invariant. *)
LEMMA ReadClientStep ==
    ASSUME IInv, ReadCompleted(Client)
    PROVE  IInv'
  <1>1. /\ UNCHANGED <<out, sent, open, clientAuth, boxed, faults>>
        /\ step[Client] \in {ServerChallenge, ServerAck} /\ net[Server] # Unset
        /\ impl' = [impl EXCEPT ![Client] = Verdict(Client).h]
        /\ net'[Server] = Unset /\ net'[Client] = net[Client]
        /\ step'[Server] = step[Server]
        /\ \/ Verdict(Client).ok /\ step'[Client] = step[Client] + 1
           \/ step'[Client] = Failed
        /\ out[Client] = Unset /\ ~sent[Client]
    BY ReadForm DEF Receives
  <1>2. /\ c' = Verdict(Client).h /\ s' = s
        /\ c' \in Objects(Client)
        /\ c'.K = c.K /\ c'.X = c.X /\ c'.x = c.x /\ c'.Yp = c.Yp
        /\ c'.H = c.H /\ c'.aB = c.aB /\ c'.Ab = c.Ab
        /\ c'.yp # Unset => SameApp /\ c'.ab = AB
        /\ c.yp # Unset => c'.yp # Unset
        /\ step'[Client] # Failed => c'.yp # Unset
        /\ step'[Client] = Finished =>
              HasAcked /\ c'.serverAckKey = AckKey(c.K, c.X, c.Yp)
        /\ SameApp' = SameApp /\ RightServer' = RightServer /\ Welcome' = Welcome
    BY ClientReads
  <1>4. AuthMsg' = AuthMsg
    BY <1>2 DEF AuthOf
  <1>5. AckMsg' = AckMsg
    BY <1>2 DEF AckOf
  <1>6. createChallenge(c)' = createChallenge(c)
    BY <1>2 DEF createChallenge
  <1>8. TypeOK'
    <2>1. impl' \in [Peers -> Objects(Client) \cup Objects(Server)]
      BY <1>1, <1>2 DEF IInv, TypeOK
    <2>2. \A q \in Peers : impl'[q] \in Objects(q)
      BY <1>2 DEF IInv, TypeOK, c, s
    <2> QED BY <1>1, <2>1, <2>2, ReadForm DEF IInv, TypeOK
  <1>9. (HasProved => HasProved') /\ HasAcked' = HasAcked
    BY <1>1, <1>2 DEF HasProved, HasAcked
  <1>10. ClientInv'
    BY <1>1, <1>2, <1>9 DEF IInv, ClientInv
  <1>11. ServerInv'
    BY <1>1, <1>2, <1>9 DEF IInv, ServerInv
  <1>12. OutInv'
    BY <1>1, <1>2, <1>5 DEF IInv, OutInv
  <1>13. NetInv'
    BY <1>1, <1>4, <1>6, <1>9 DEF IInv, NetInv
  <1>14. BoxedInv'
    BY <1>1, <1>4, <1>5 DEF IInv, BoxedInv
  <1> QED BY <1>8, <1>10, <1>11, <1>12, <1>13, <1>14 DEF IInv

(* What readCompleted() makes of the server's object. *)
LEMMA ServerReads ==
    ASSUME IInv, ReadCompleted(Server)
    PROVE  /\ s' = Verdict(Server).h /\ c' = c
           /\ s' \in Objects(Server)
           /\ s'.K = s.K /\ s'.X = s.X /\ s'.x = s.x
           /\ s'.yp # Unset => SameApp /\ s'.ab = AB
           /\ step'[Server] # Failed => s'.yp # Unset
           /\ step'[Server] \in {ServerAck, Finished} =>
                 /\ RightServer /\ Welcome /\ HasProved
                 /\ s'.H = c.H /\ s'.Yp = c.X
                 /\ s'.aB = DH(Client, s.X) /\ s'.Ab = DH(Server, s'.Yp)
           /\ SameApp' = SameApp /\ RightServer' = RightServer /\ Welcome' = Welcome
  <1> DEFINE g == Verdict(Server).h
  <1>1. /\ UNCHANGED <<out, sent, open, clientAuth, boxed, faults>>
        /\ step[Server] \in {ClientChallenge, ClientAuth} /\ net[Client] # Unset
        /\ impl' = [impl EXCEPT ![Server] = g]
        /\ net'[Client] = Unset /\ net'[Server] = net[Server]
        /\ step'[Client] = step[Client]
        /\ \/ Verdict(Server).ok /\ step'[Server] = step[Server] + 1
           \/ step'[Server] = Failed
        /\ out[Server] = Unset /\ ~sent[Server]
    BY ReadForm DEF Receives
  <1>2. s' = g /\ c' = c
    BY <1>1 DEF IInv, TypeOK, c, s
  <1>3. /\ g \in Objects(Server)
        /\ g.K = s.K /\ g.X = s.X /\ g.x = s.x
        /\ g.yp # Unset => SameApp /\ g.ab = AB
        /\ step'[Server] # Failed => g.yp # Unset
        /\ step'[Server] \in {ServerAck, Finished} =>
              /\ RightServer /\ Welcome /\ HasProved
              /\ g.H = c.H /\ g.Yp = c.X
              /\ g.aB = DH(Client, s.X) /\ g.Ab = DH(Server, g.Yp)
    <2>1. s \in Objects(Server) /\ s = impl[Server]
      BY DEF IInv, TypeOK, s
    <2>2. CASE step[Server] = ClientChallenge
      <3>1. /\ Verdict(Server).ok => SameApp /\ g = Learned(s, Client)
            /\ ~Verdict(Server).ok => g = s
        BY <1>1, <2>1, <2>2, ChallengeRead
      <3>2. CASE Verdict(Server).ok
        <4>1. g = Learned(s, Client) /\ SameApp
          BY <3>1, <3>2
        <4>2. /\ g \in Objects(Server) /\ g.yp = Client /\ g.ab = AB
              /\ g.K = s.K /\ g.X = s.X /\ g.x = s.x
          BY <2>1, <4>1, LearnedFields
        <4> HIDE DEF g
        <4> QED BY <1>1, <2>2, <4>1, <4>2, UnsetAssumption
      <3>3. CASE ~Verdict(Server).ok
        <4>1. g = s /\ step'[Server] = Failed
          BY <1>1, <3>1, <3>3
        <4> HIDE DEF g
        <4> QED BY <2>1, <4>1 DEF IInv, ServerInv
      <3> QED BY <3>2, <3>3
    <2>3. CASE step[Server] = ClientAuth
      <3>1. /\ g \in Objects(Server)
            /\ g.K = s.K /\ g.X = s.X /\ g.x = s.x /\ g.yp = s.yp /\ g.ab = s.ab
            /\ Verdict(Server).ok =>
                  /\ RightServer /\ Welcome /\ HasProved
                  /\ g.H = c.H /\ g.Yp = c.X
                  /\ g.aB = DH(Client, s.X) /\ g.Ab = DH(Server, c.X)
        BY <1>1, <2>3, AuthRead
      <3>2. s.yp # Unset /\ SameApp /\ s.ab = AB
        BY <2>3 DEF IInv, ServerInv
      <3> HIDE DEF g
      <3> QED BY <1>1, <2>3, <3>1, <3>2
    <2> QED BY <1>1, <2>2, <2>3
  <1> HIDE DEF g
  <1>4. SameApp' = SameApp /\ RightServer' = RightServer /\ Welcome' = Welcome
    BY <1>1, <1>2, <1>3 DEF SameApp, RightServer, Welcome, c, s
  <1> QED BY <1>2, <1>3, <1>4 DEF g

(* readCompleted() on the server preserves the invariant. *)
LEMMA ReadServerStep ==
    ASSUME IInv, ReadCompleted(Server)
    PROVE  IInv'
  <1>1. /\ UNCHANGED <<out, sent, open, clientAuth, boxed, faults>>
        /\ step[Server] \in {ClientChallenge, ClientAuth} /\ net[Client] # Unset
        /\ impl' = [impl EXCEPT ![Server] = Verdict(Server).h]
        /\ net'[Client] = Unset /\ net'[Server] = net[Server]
        /\ step'[Client] = step[Client]
        /\ \/ Verdict(Server).ok /\ step'[Server] = step[Server] + 1
           \/ step'[Server] = Failed
        /\ out[Server] = Unset /\ ~sent[Server]
    BY ReadForm DEF Receives
  <1>2. /\ s' = Verdict(Server).h /\ c' = c
        /\ s' \in Objects(Server)
        /\ s'.K = s.K /\ s'.X = s.X /\ s'.x = s.x
        /\ s'.yp # Unset => SameApp /\ s'.ab = AB
        /\ step'[Server] # Failed => s'.yp # Unset
        /\ step'[Server] \in {ServerAck, Finished} =>
              /\ RightServer /\ Welcome /\ HasProved
              /\ s'.H = c.H /\ s'.Yp = c.X
              /\ s'.aB = DH(Client, s.X) /\ s'.Ab = DH(Server, s'.Yp)
        /\ SameApp' = SameApp /\ RightServer' = RightServer /\ Welcome' = Welcome
    BY ServerReads
  <1>4. AuthMsg' = AuthMsg
    BY <1>2 DEF AuthOf
  <1>5. createChallenge(s)' = createChallenge(s)
    BY <1>2 DEF createChallenge
  <1>7. TypeOK'
    <2>1. impl' \in [Peers -> Objects(Client) \cup Objects(Server)]
      BY <1>1, <1>2 DEF IInv, TypeOK
    <2>2. \A q \in Peers : impl'[q] \in Objects(q)
      BY <1>2 DEF IInv, TypeOK, c, s
    <2> QED BY <1>1, <2>1, <2>2, ReadForm DEF IInv, TypeOK
  <1>8. HasProved' = HasProved /\ ~HasAcked /\ ~HasAcked'
    BY <1>1, <1>2 DEF HasProved, HasAcked
  <1>9. ClientInv'
    BY <1>1, <1>2, <1>8 DEF IInv, ClientInv
  <1>10. ServerInv'
    BY <1>1, <1>2, <1>8 DEF IInv, ServerInv
  <1>11. OutInv'
    BY <1>1, <1>2, <1>4 DEF IInv, OutInv
  <1>12. NetInv'
    BY <1>1, <1>5, <1>8 DEF IInv, NetInv
  <1>13. BoxedInv'
    BY <1>1, <1>4 DEF IInv, BoxedInv
  <1> QED BY <1>7, <1>9, <1>10, <1>11, <1>12, <1>13 DEF IInv

(* Every step of either peer or of the environment preserves it. *)
LEMMA NextPreserves == IInv /\ [Next]_vars => IInv'
  <1> SUFFICES ASSUME IInv, [Next]_vars PROVE IInv'
    OBVIOUS
  <1>1. ASSUME NEW p \in Peers, Own(p) PROVE IInv'
    <2>1. CASE BytesToSend(p)
      BY <2>1, BytesToSendStep
    <2>2. CASE Write(p)
      BY <2>2, WriteStep
    <2>3. CASE SendCompleted(p)
      BY <2>3, SendCompletedStep
    <2>4. CASE CopyBytesToSend(p)
      BY <2>4, CopyClientStep, CopyServerStep
    <2>5. CASE ReadCompleted(p)
      BY <2>5, ReadClientStep, ReadServerStep
    <2>6. CASE ReadFailed(p)
      BY <2>6, ReadFailedStep
    <2>7. CASE Close(p) \/ WriteFailed(p)
      BY <2>7, EnvironmentStep
    <2> QED BY <1>1, <2>1, <2>2, <2>3, <2>4, <2>5, <2>6, <2>7 DEF Own
  <1>2. ASSUME NEW p \in Peers, Drop(p) \/ Corrupt(p) PROVE IInv'
    BY <1>2, EnvironmentStep
  <1>3. CASE UNCHANGED vars
    <2>1. UNCHANGED <<step, error, impl, out, sent, net, garbled, open,
                      clientAuth, boxed, faults>>
      BY <1>3 DEF vars
    <2>2. /\ c' = c /\ s' = s /\ AuthMsg' = AuthMsg /\ AckMsg' = AckMsg
          /\ SameApp' = SameApp /\ RightServer' = RightServer
          /\ Welcome' = Welcome
      BY <2>1, Frame
    <2>3. HasProved' = HasProved /\ HasAcked' = HasAcked
      BY <2>1, <2>2 DEF HasProved, HasAcked
    <2>4. TypeOK'
      BY <2>1 DEF IInv, TypeOK
    <2>5. ClientInv' /\ ServerInv'
      BY <2>1, <2>2, <2>3 DEF IInv, ClientInv, ServerInv
    <2>6. OutInv' /\ NetInv' /\ BoxedInv'
      BY <2>1, <2>2, <2>3 DEF IInv, OutInv, NetInv, BoxedInv
    <2> QED BY <2>4, <2>5, <2>6 DEF IInv
  <1> QED BY <1>1, <1>2, <1>3 DEF Next, Done

(* In every reachable state of shs.cc's two objects, the buffers and the   *)
(* channels hold what the protocol prescribes.                             *)
THEOREM InvariantHolds == Spec => []IInv
  BY InitHolds, NextPreserves, PTL DEF Spec

----------------------------------------------------------------------------
(* The safety properties.                                                  *)

(* Every variable keeps its type: no handler of Handshake leaves the enum  *)
(* of steps, and every object field is unset or a term of the protocol.    *)
THEOREM TypeCorrect == Spec => []TypeOK
  <1>1. IInv => TypeOK
    BY DEF IInv
  <1> QED BY <1>1, InvariantHolds, PTL

(* The outcome of an object whose protocol has completed. *)
LEMMA Outcomes ==
    ASSUME IInv, step[Client] = Finished
    PROVE  Fit(getOutcome(c), getOutcome(s))
  <1>1. /\ HasAcked /\ step[Server] \in {ServerAck, Finished}
        /\ c.serverAckKey = AckKey(c.K, c.X, c.Yp)
        /\ c.yp # Unset
    BY DEF IInv, ClientInv, HasAcked
  <1>2. /\ c.Yp = s.X /\ s.Yp = c.X /\ c.K = s.K /\ s.yp # Unset
        /\ s.serverAckKey = AckKey(s.K, s.Yp, s.X)
    BY <1>1 DEF IInv, ServerInv, RightServer, SameApp, c, s
  <1>3. c.x = Client /\ s.x = Server /\ c.yp = Server /\ s.yp = Client
    BY <1>1, <1>2 DEF IInv, TypeOK, Objects, c, s
  <1>4. c.serverAckKey = s.serverAckKey
    BY <1>1, <1>2
  <1>5. hmac(c.K, c.yp) # hmac(c.K, c.x)
    BY <1>3, Terms
  <1> QED BY <1>2, <1>3, <1>4, <1>5 DEF Fit, getOutcome

(* For all application IDs, keys and faults: a client that finishes agrees *)
(* with its server on application, identities and session keys.            *)
THEOREM AgreementHolds == Spec => []Agreement
  <1>1. IInv => Agreement
    <2> SUFFICES ASSUME IInv, step[Client] = Finished
                 PROVE  /\ \/ step[Server] = Finished
                           \/ step[Server] = ServerAck /\ sent[Server]
                        /\ SameApp /\ RightServer /\ Welcome
                        /\ getOutcome(c).peerPublicKey = s.X
                        /\ getOutcome(s).peerPublicKey = c.X
                        /\ Fit(getOutcome(c), getOutcome(s))
      BY DEF Agreement, c, s
    <2>1. HasAcked /\ c.yp # Unset
      BY DEF IInv, ClientInv
    <2>2. SameApp /\ RightServer /\ Welcome /\ s.Yp = c.X
      BY <2>1 DEF IInv, ClientInv, ServerInv, HasAcked
    <2>3. getOutcome(c).peerPublicKey = s.X /\ getOutcome(s).peerPublicKey = c.X
      BY <2>2 DEF getOutcome, RightServer, c, s
    <2> QED BY <2>1, <2>2, <2>3, Outcomes DEF HasAcked
  <1> QED BY <1>1, InvariantHolds, PTL

(* For all constants: a server sends its ack only to a client that proved  *)
(* its key to this server and that the authorizer admits.                  *)
THEOREM ServerAuthentication == Spec => []ServerAuthenticatesClient
  <1>1. IInv => ServerAuthenticatesClient
    BY DEF IInv, ServerInv, ServerAuthenticatesClient, HasProved, c, s
  <1> QED BY <1>1, InvariantHolds, PTL

(* For all constants: the all-zero nonce of shs.cc's box() is used at most *)
(* once with each key, as its comment requires.                            *)
THEOREM KeysUsedOnce == Spec => []EachKeyOnce
  <1>1. AuthMsg[1] # AckMsg[1]
    <2>1. <<c.K, AB, DH(Client, c.Yp)>>
             # <<s.K, AB, DH(Client, s.X), DH(Server, s.Yp)>>
      OBVIOUS
    <2> QED BY <2>1, Terms DEF AuthOf, AckOf, box, AckKey
  <1>2. IInv => EachKeyOnce
    BY <1>1 DEF IInv, BoxedInv, EachKeyOnce
  <1> QED BY <1>2, InvariantHolds, PTL

(* The error is set exactly in the failed step. *)
ErrorInv == \A p \in Peers : (error[p] # NoError) <=> (step[p] = Failed)

(* For all constants: no call, and no event outside, ever changes the      *)
(* verdict of a handshake that has failed or finished.                     *)
THEOREM VerdictStands == Spec => VerdictIsFinal
  <1> DEFINE Stands ==
        \A p \in Peers :
            /\ step[p] \in {Failed, Finished} => step'[p] = step[p]
            /\ error[p] # NoError => error'[p] = error[p]
            /\ (error'[p] # NoError) <=> (step'[p] = Failed)
  <1>1. Init => ErrorInv
    BY DEF Init, ErrorInv
  <1>2. IInv /\ ErrorInv /\ [Next]_vars => Stands
    <2> SUFFICES ASSUME IInv, ErrorInv, [Next]_vars PROVE Stands
      OBVIOUS
    <2>1. ASSUME NEW p \in Peers, NextStep(p), step[p] \in 1 .. 4 PROVE Stands
      <3>1. /\ step'[p] = step[p] + 1 /\ error' = error
            /\ \A q \in Peers : q # p => step'[q] = step[q]
        BY <2>1 DEF NextStep, IInv, TypeOK
      <3> QED BY <2>1, <3>1 DEF ErrorInv
    <2>2. ASSUME NEW p \in Peers, Fails(p), step[p] \in 1 .. 4 PROVE Stands
      <3>1. /\ step'[p] = Failed /\ error'[p] = FailureError(step[p])
            /\ \A q \in Peers : q # p => step'[q] = step[q] /\ error'[q] = error[q]
        BY <2>2 DEF Fails, IInv, TypeOK
      <3>2. error'[p] # NoError
        BY <3>1 DEF FailureError, ProtocolError, AuthError, NoError
      <3> QED BY <2>2, <3>1, <3>2 DEF ErrorInv
    <2>3. CASE UNCHANGED <<step, error>>
      BY <2>3 DEF ErrorInv
    <2>4. ASSUME NEW p \in Peers, Own(p) PROVE Stands
      <3>1. CASE BytesToSend(p) \/ Write(p) \/ Close(p) \/ WriteFailed(p)
        BY <2>3, <3>1 DEF BytesToSend, Write, Close, WriteFailed
      <3>2. CASE SendCompleted(p)
        <4>1. NextStep(p) /\ Sends(p, step[p])
          BY <3>2 DEF SendCompleted, IInv, OutInv
        <4> QED BY <2>1, <4>1 DEF Sends
      <3>3. CASE CopyBytesToSend(p)
        <4>1. NextStep(p) /\ Sends(p, step[p])
          BY <3>3 DEF CopyBytesToSend
        <4> QED BY <2>1, <4>1 DEF Sends
      <3>4. CASE ReadCompleted(p) \/ ReadFailed(p)
        <4>1. (NextStep(p) \/ Fails(p)) /\ Receives(p, step[p])
          BY <3>4 DEF ReadCompleted, ReadFailed
        <4> QED BY <2>1, <2>2, <4>1 DEF Receives
      <3> QED BY <2>4, <3>1, <3>2, <3>3, <3>4 DEF Own
    <2>5. ASSUME NEW p \in Peers, Drop(p) \/ Corrupt(p) PROVE Stands
      BY <2>3, <2>5 DEF Drop, Corrupt
    <2>6. CASE UNCHANGED vars
      BY <2>3, <2>6 DEF vars
    <2> QED BY <2>4, <2>5, <2>6 DEF Next, Done
  <1>3. Stands => ErrorInv'
    BY DEF ErrorInv
  <1>4. VerdictIsFinal <=> [][Stands]_vars
    BY PTL DEF VerdictIsFinal
  <1> QED BY <1>1, <1>2, <1>3, <1>4, InvariantHolds, PTL DEF Spec

----------------------------------------------------------------------------
(* The order of the messages.                                              *)

(* What the calls that send do to steps and channels: the peer had the     *)
(* turn, its message is under way, and it has the turn no longer.          *)
LEMMA SendForm ==
    ASSUME IInv, NEW p \in Peers, Write(p) \/ CopyBytesToSend(p)
    PROVE  /\ UNCHANGED <<error, garbled, open, clientAuth, faults>>
           /\ Sends(p, step[p]) /\ ~sent[p]
           /\ net'[p] # Unset /\ net'[Other(p)] = net[Other(p)]
           /\ step'[Other(p)] = step[Other(p)] /\ sent'[Other(p)] = sent[Other(p)]
           /\ \/ step'[p] = step[p] /\ sent'[p]
              \/ step'[p] = step[p] + 1 /\ ~sent'[p]
  <1>1. CASE Write(p)
    BY <1>1 DEF Write, IInv, TypeOK, OutInv
  <1>2. CASE CopyBytesToSend(p)
    <2>1. /\ UNCHANGED <<error, sent, garbled, open, clientAuth, faults>>
          /\ Sends(p, step[p]) /\ ~sent[p]
          /\ step' = [step EXCEPT ![p] = step[p] + 1]
      BY <1>2, CopyForms
    <2>2. step'[p] = step[p] + 1 /\ step'[Other(p)] = step[Other(p)]
      BY <2>1 DEF IInv, TypeOK
    <2>3. PICK m \in Messages : net' = [net EXCEPT ![p] = m]
      <3>1. CASE Filled(p) /\ net' = [net EXCEPT ![p] = Fill(p).msg]
        BY <3>1, ClientFilled, ServerFilled
      <3>2. CASE out[p] # Unset /\ net' = [net EXCEPT ![p] = out[p]]
        BY <3>2 DEF IInv, TypeOK
      <3> QED BY <1>2, <3>1, <3>2, CopyForms
    <2>4. net'[p] # Unset /\ net'[Other(p)] = net[Other(p)]
      BY <2>3, TermsAssumption DEF IInv, TypeOK
    <2> QED BY <2>1, <2>2, <2>4
  <1> QED BY <1>1, <1>2

(* What sendCompleted() does to steps: the peer counts a message it has    *)
(* already sent.                                                           *)
LEMMA CompletedForm ==
    ASSUME IInv, NEW p \in Peers, SendCompleted(p)
    PROVE  /\ UNCHANGED <<error, impl, net, garbled, open, clientAuth, faults>>
           /\ Sends(p, step[p]) /\ sent[p]
           /\ step'[p] = step[p] + 1 /\ ~sent'[p]
           /\ step'[Other(p)] = step[Other(p)] /\ sent'[Other(p)] = sent[Other(p)]
  BY DEF SendCompleted, NextStep, IInv, TypeOK, OutInv

(* Initially it is the client's turn. *)
LEMMA OrderInit == Init => OrderInv
  BY DEF Init, OrderInv, AboutToSend, Waits, Quiet, Sends, Receives

(* Every step keeps the order. *)
LEMMA OrderNext == IInv /\ OrderInv /\ [Next]_vars => OrderInv'
  <1> SUFFICES ASSUME IInv, OrderInv, [Next]_vars PROVE OrderInv'
    OBVIOUS
  <1> USE DEF OrderInv, AboutToSend, Waits, Quiet, Sends, Receives
  <1>1. ASSUME NEW p \in Peers, Write(p) \/ CopyBytesToSend(p) PROVE OrderInv'
    BY <1>1, SendForm
  <1>2. ASSUME NEW p \in Peers, SendCompleted(p) PROVE OrderInv'
    BY <1>2, CompletedForm
  <1>3. ASSUME NEW p \in Peers, ReadCompleted(p) PROVE OrderInv'
    <2>1. /\ UNCHANGED <<sent, open>> /\ ~sent[p]
          /\ Receives(p, step[p]) /\ net[Other(p)] # Unset
          /\ net'[Other(p)] = Unset /\ net'[p] = net[p]
          /\ step'[Other(p)] = step[Other(p)]
          /\ step'[p] = step[p] + 1 \/ step'[p] = Failed
      BY <1>3, ReadForm
    <2> QED BY <2>1
  <1>4. ASSUME NEW p \in Peers, ReadFailed(p) PROVE OrderInv'
    <2>1. UNCHANGED <<sent, open, net>>
      BY <1>4 DEF ReadFailed
    <2>2. step'[p] = Failed /\ step'[Other(p)] = step[Other(p)]
      BY <1>4, FailsForm DEF ReadFailed
    <2> QED BY <2>1, <2>2
  <1>5. ASSUME NEW p \in Peers,
               BytesToSend(p) \/ Close(p) \/ WriteFailed(p) \/ Drop(p) \/ Corrupt(p)
        PROVE  OrderInv'
    <2>1. /\ UNCHANGED <<step, sent>>
          /\ \A q \in Peers : net'[q] \in {net[q], Unset} /\ (open'[q] => open[q])
          /\ net' # net => ~open'[p]
      BY <1>5 DEF BytesToSend, Close, WriteFailed, Drop, Corrupt, IInv, TypeOK
    <2> QED BY <2>1
  <1>6. CASE UNCHANGED vars
    BY <1>6 DEF vars
  <1> QED BY <1>1, <1>2, <1>3, <1>4, <1>5, <1>6 DEF Next, Own, Done

(* For all constants: client and server alternate strictly, whatever is    *)
(* damaged or dropped, through both of Handshake's sending interfaces.     *)
THEOREM StrictAlternation == Spec => []LockStep
  <1>1. OrderInv => LockStep
    BY DEF OrderInv, LockStep, AboutToSend, Waits, Quiet
  <1> QED BY <1>1, OrderInit, OrderNext, InvariantHolds, PTL DEF Spec

----------------------------------------------------------------------------
(* What a failure means when nothing is damaged or dropped.                *)

(* A peer that sends puts the message of its step under way, and no step   *)
(* of sending changes a configuration or another message.                  *)
LEMMA MessageSent ==
    ASSUME IInv, NEW p \in Peers, BytesToSend(p) \/ Write(p) \/ CopyBytesToSend(p)
    PROVE  /\ createChallenge(c)' = createChallenge(c) /\ AuthMsg' = AuthMsg
           /\ createChallenge(s)' = createChallenge(s) /\ AckMsg' = AckMsg
           /\ SameApp' = SameApp /\ RightServer' = RightServer /\ Welcome' = Welcome
           /\ Write(p) \/ CopyBytesToSend(p) =>
                /\ step[p] = ClientChallenge => net'[p] = createChallenge(c)
                /\ step[p] = ServerChallenge => net'[p] = createChallenge(s)
                /\ step[p] = ClientAuth => net'[p] = AuthMsg
                /\ step[p] = ServerAck => net'[p] = AckMsg
  <1> DEFINE Kept ==
        /\ createChallenge(c)' = createChallenge(c) /\ AuthMsg' = AuthMsg
        /\ createChallenge(s)' = createChallenge(s) /\ AckMsg' = AckMsg
        /\ SameApp' = SameApp /\ RightServer' = RightServer /\ Welcome' = Welcome
  <1>1. Filled(Client) => Kept
    BY ClientFilled
  <1>2. Filled(Server) => Kept
    BY ServerFilled
  <1>3. UNCHANGED <<impl, clientAuth>> => Kept
    BY Frame
  <1>4. CASE BytesToSend(p) /\ ~Write(p) /\ ~CopyBytesToSend(p)
    <2>1. Filled(p)
      BY <1>4 DEF BytesToSend, Filled
    <2> QED BY <1>1, <1>2, <1>4, <2>1
  <1>5. out[p] # Unset =>
            /\ step[p] = ClientChallenge => out[p] = createChallenge(c)
            /\ step[p] = ServerChallenge => out[p] = createChallenge(s)
            /\ step[p] = ClientAuth => out[p] = AuthMsg
            /\ step[p] = ServerAck => out[p] = AckMsg
    BY DEF IInv, OutInv, Sends
  <1>6. CASE Write(p)
    <2>1. UNCHANGED <<impl, clientAuth>> /\ out[p] # Unset /\ net'[p] = out[p]
      BY <1>6 DEF Write, IInv, TypeOK
    <2> QED BY <1>3, <1>5, <2>1
  <1>7. CASE CopyBytesToSend(p)
    <2>1. CASE Filled(p) /\ net' = [net EXCEPT ![p] = Fill(p).msg]
      <3>1. net'[p] = Fill(p).msg
        BY <2>1 DEF IInv, TypeOK
      <3>2. CASE p = Client
        BY <1>1, <2>1, <3>1, <3>2, ClientFilled
      <3>3. CASE p = Server
        BY <1>2, <2>1, <3>1, <3>3, ServerFilled
      <3> QED BY <3>2, <3>3
    <2>2. CASE out[p] # Unset /\ impl' = impl /\ net' = [net EXCEPT ![p] = out[p]]
      <3>1. net'[p] = out[p] /\ UNCHANGED <<impl, clientAuth>>
        BY <1>7, <2>2, CopyForms DEF IInv, TypeOK
      <3> QED BY <1>3, <1>5, <2>2, <3>1
    <2> QED BY <1>7, <2>1, <2>2, CopyForms
  <1> QED BY <1>4, <1>6, <1>7

(* Initially the client is about to send its challenge. *)
LEMMA PhaseInit == Init => PhaseInv
  <1> SUFFICES ASSUME Init PROVE PhaseInv
    OBVIOUS
  <1>1. /\ ~garbled[Client] /\ ~garbled[Server] /\ open[Client] /\ open[Server]
        /\ ~sent[Client] /\ ~sent[Server]
        /\ step[Client] = 1 /\ step[Server] = 1
        /\ error[Client] = NoError /\ error[Server] = NoError
        /\ net[Client] = Unset /\ net[Server] = Unset
    BY DEF Init
  <1> QED BY <1>1 DEF PhaseInv, Running, Quiet, Pos

(* Facts about positions: a peer that has sent is at a sending step. *)
LEMMA Positions ==
    ASSUME IInv, NEW p \in Peers
    PROVE  /\ step[p] \in 0 .. 5
           /\ sent[p] => Sends(p, step[p])
           /\ Pos(p) = IF sent[p] THEN step[p] + 1 ELSE step[p]
           /\ Receives(p, step[p]) => ~sent[p] /\ Pos(p) = step[p]
           /\ step[p] = Failed => ~sent[p] /\ Pos(p) = 0
  BY DEF IInv, TypeOK, OutInv, Steps, Pos, Sends, Receives

(* Reading an undamaged message in its turn: it is accepted, or refused by *)
(* the server for one of the two documented reasons.                       *)
LEMMA PhaseRead ==
    ASSUME IInv, PhaseInv, faults = 0, NEW p \in Peers, ReadCompleted(p)
    PROVE  PhaseInv'
  <1>1. /\ UNCHANGED <<sent, open, faults>> /\ ~sent[p]
        /\ Receives(p, step[p]) /\ net[Other(p)] # Unset
        /\ net'[Other(p)] = Unset /\ net'[p] = net[p]
        /\ step'[Other(p)] = step[Other(p)]
        /\ \/ Verdict(p).ok /\ step'[p] = step[p] + 1
           \/ step'[p] = Failed
    BY ReadForm
  <1>2. /\ error'[Other(p)] = error[Other(p)]
        /\ Verdict(p).ok => step'[p] = step[p] + 1 /\ error'[p] = error[p]
        /\ ~Verdict(p).ok => step'[p] = Failed /\ error'[p] = FailureError(step[p])
    BY DEF ReadCompleted, Verdict, NextStep, Fails, IInv, TypeOK
  <1>3. \A q \in Peers : ~garbled'[q] /\ ~garbled[q]
    BY DEF ReadCompleted, PhaseInv, IInv, TypeOK
  <1>4. SameApp' = SameApp /\ RightServer' = RightServer /\ Welcome' = Welcome
    BY ClientReads, ServerReads
  <1>5. Arrived(Other(p)) = net[Other(p)]
    BY <1>1, <1>3, ArrivedForms
  <1>6. Running /\ ~Quiet /\ error[Client] = NoError /\ error[Server] = NoError
    BY <1>1 DEF PhaseInv, Refused, Quiet
  <1>7. open'[p] /\ (~open'[Other(p)] => step'[Other(p)] = Failed)
    BY <1>1 DEF ReadCompleted, PhaseInv
  <1>8. \A q \in Peers : step[q] \in 0 .. 5 /\ (sent[q] => Sends(q, step[q]))
    BY Positions
  <1>9. CASE p = Server
    <2>1. step[Server] \in {1, 3} /\ Pos(Server) = step[Server]
      BY <1>1, <1>9 DEF Receives, Pos
    <2>2. \/ step[Server] = 1 /\ Pos(Client) = 2 /\ net[Client] = createChallenge(c)
          \/ step[Server] = 3 /\ Pos(Client) = 4 /\ net[Client] = AuthMsg
      BY <1>1, <1>6, <1>9, <2>1 DEF Running, Quiet
    <2>3. Quiet' /\ Pos(Client)' = Pos(Client)
      BY <1>1, <1>6, <1>9, <2>1 DEF Running, Quiet, Pos
    <2>4. CASE Verdict(Server).ok
      <3>1. Pos(Server)' = step[Server] + 1 /\ step'[Server] = step[Server] + 1
        BY <1>1, <1>2, <1>9, <2>4 DEF Pos
      <3>2. Running'
        BY <2>2, <2>3, <3>1 DEF Running
      <3>3. error'[Client] = NoError /\ error'[Server] = NoError
        BY <1>2, <1>6, <1>9, <2>4
      <3> QED BY <1>3, <1>7, <1>9, <3>2, <3>3 DEF PhaseInv
    <2>5. CASE ~Verdict(Server).ok
      <3>1. step'[Server] = Failed /\ error'[Server] = FailureError(step[Server])
            /\ error'[Client] = NoError
        BY <1>2, <1>6, <1>9, <2>5
      <3>2. CASE step[Server] = 1
        <4>1. ~SameApp
          BY <1>1, <1>5, <1>9, <2>2, <2>5, <3>2, ChallengeRead DEF c
        <4>2. Refused(ProtocolError, 2)'
          BY <2>2, <2>3, <3>1, <3>2 DEF Refused, FailureError
        <4> QED BY <1>3, <1>4, <1>7, <1>9, <3>1, <4>1, <4>2 DEF PhaseInv
      <3>3. CASE step[Server] = 3
        <4>1. SameApp
          BY <3>3 DEF IInv, ServerInv
        <4>2. ~(RightServer /\ Welcome)
          BY <1>1, <1>5, <1>9, <2>2, <2>5, <3>3, AuthRead
        <4>3. Refused(AuthError, 4)'
          BY <2>2, <2>3, <3>1, <3>3 DEF Refused, FailureError
        <4> QED BY <1>3, <1>4, <1>7, <1>9, <3>1, <4>1, <4>2, <4>3 DEF PhaseInv
      <3> QED BY <2>1, <3>2, <3>3
    <2> QED BY <2>4, <2>5
  <1>10. CASE p = Client
    <2>1. step[Client] \in {2, 4} /\ Pos(Client) = step[Client]
      BY <1>1, <1>10 DEF Receives, Pos
    <2>2. \/ step[Client] = 2 /\ Pos(Server) = 3 /\ net[Server] = createChallenge(s)
          \/ step[Client] = 4 /\ Pos(Server) = 5 /\ net[Server] = AckMsg
      BY <1>1, <1>6, <1>10, <2>1 DEF Running, Quiet
    <2>3. Quiet' /\ Pos(Server)' = Pos(Server)
      BY <1>1, <1>6, <1>10, <2>1 DEF Running, Quiet, Pos
    <2>4. Verdict(Client).ok
      <3>1. CASE step[Client] = 2
        <4>1. step[Server] \in {2, 3}
          BY <1>8, <2>2, <3>1 DEF Pos
        <4>2. SameApp
          BY <4>1 DEF IInv, ServerInv
        <4> QED BY <1>1, <1>5, <1>10, <2>2, <3>1, <4>2, ChallengeRead DEF s
      <3>2. CASE step[Client] = 4
        BY <1>1, <1>5, <1>10, <2>2, <3>2, AckRead
      <3> QED BY <2>1, <3>1, <3>2
    <2>5. Pos(Client)' = step[Client] + 1
      BY <1>1, <1>2, <1>10, <2>4 DEF Pos
    <2>6. Running'
      BY <2>2, <2>3, <2>5 DEF Running
    <2>7. error'[Client] = NoError /\ error'[Server] = NoError
      BY <1>2, <1>6, <1>10, <2>4
    <2> QED BY <1>3, <1>7, <1>10, <2>6, <2>7 DEF PhaseInv
  <1> QED BY <1>9, <1>10

(* Every step keeps to the phases, or is a fault. *)
LEMMA PhaseNext == IInv /\ PhaseInv /\ [Next]_vars => PhaseInv'
  <1> SUFFICES ASSUME IInv, PhaseInv, [Next]_vars, faults' = 0 PROVE PhaseInv'
    BY DEF PhaseInv
  <1>1. faults = 0
    BY DEF Next, Own, Done, vars, BytesToSend, Write, SendCompleted, CopyBytesToSend,
           ReadCompleted, ReadFailed, Close, WriteFailed, Drop, Corrupt, IInv, TypeOK
  <1>2. \A q \in Peers : /\ step[q] \in 0 .. 5 /\ (sent[q] => Sends(q, step[q]))
                         /\ Pos(q) = IF sent[q] THEN step[q] + 1 ELSE step[q]
                         /\ step[q] = Failed => ~sent[q] /\ Pos(q) = 0
    BY Positions
  <1>3. ASSUME NEW p \in Peers, BytesToSend(p) PROVE PhaseInv'
    <2>1. UNCHANGED <<step, error, sent, net, garbled, open, faults>>
      BY <1>3 DEF BytesToSend
    <2>2. Quiet' = Quiet /\ \A q \in Peers : Pos(q)' = Pos(q)
      BY <2>1 DEF Quiet, Pos
    <2>3. Running' = Running
      BY <1>3, <2>1, <2>2, MessageSent DEF Running
    <2> QED BY <1>3, <2>1, <2>2, <2>3, MessageSent DEF PhaseInv, Refused
  <1>4. ASSUME NEW p \in Peers, SendCompleted(p) PROVE PhaseInv'
    <2>1. UNCHANGED <<error, impl, net, garbled, open, clientAuth, faults>>
      BY <1>4, CompletedForm
    <2>2. \A q \in Peers : Pos(q)' = Pos(q) /\ (step'[q] = Failed <=> step[q] = Failed)
      BY <1>2, <1>4, CompletedForm DEF Pos, Sends
    <2>3. /\ c' = c /\ s' = s /\ AuthMsg' = AuthMsg /\ AckMsg' = AckMsg
          /\ SameApp' = SameApp /\ RightServer' = RightServer /\ Welcome' = Welcome
      BY <2>1, Frame
    <2>4. Quiet' = Quiet /\ Running' = Running
      BY <2>1, <2>2, <2>3 DEF Running, Quiet
    <2> QED BY <2>1, <2>2, <2>3, <2>4 DEF PhaseInv, Refused
  <1>5. ASSUME NEW p \in Peers, Write(p) \/ CopyBytesToSend(p) PROVE PhaseInv'
    <2>1. /\ UNCHANGED <<error, garbled, open, clientAuth, faults>>
          /\ Sends(p, step[p]) /\ ~sent[p]
          /\ net'[Other(p)] = net[Other(p)]
          /\ step'[Other(p)] = step[Other(p)] /\ sent'[Other(p)] = sent[Other(p)]
          /\ \/ step'[p] = step[p] /\ sent'[p]
             \/ step'[p] = step[p] + 1 /\ ~sent'[p]
      BY <1>5, SendForm
    <2>2. Pos(p)' = Pos(p) + 1 /\ Pos(Other(p))' = Pos(Other(p)) /\ Pos(p) = step[p]
      BY <1>2, <2>1 DEF Pos
    <2>3. /\ Running /\ Quiet /\ Pos(Client) = Pos(Server)
          /\ error[Client] = NoError /\ error[Server] = NoError
      BY <1>1, <1>2, <2>1, <2>2 DEF PhaseInv, Running, Refused, Sends
    <2>4. /\ createChallenge(c)' = createChallenge(c) /\ AuthMsg' = AuthMsg
          /\ createChallenge(s)' = createChallenge(s) /\ AckMsg' = AckMsg
          /\ step[p] = ClientChallenge => net'[p] = createChallenge(c)
          /\ step[p] = ServerChallenge => net'[p] = createChallenge(s)
          /\ step[p] = ClientAuth => net'[p] = AuthMsg
          /\ step[p] = ServerAck => net'[p] = AckMsg
      BY <1>5, MessageSent
    <2>5. Running'
      BY <2>1, <2>2, <2>3, <2>4 DEF Running, Quiet, Sends
    <2> QED BY <1>1, <1>2, <2>1, <2>3, <2>5 DEF PhaseInv, Running
  <1>6. ASSUME NEW p \in Peers, ReadCompleted(p) PROVE PhaseInv'
    BY <1>1, <1>6, PhaseRead
  <1>7. ASSUME NEW p \in Peers, ReadFailed(p) PROVE PhaseInv'
    <2>1. /\ UNCHANGED <<impl, sent, net, open, clientAuth, faults>>
          /\ Receives(p, step[p]) /\ ~open[Other(p)] /\ open[p]
      BY <1>7 DEF ReadFailed
    <2>2. /\ step'[p] = Failed /\ error'[p] = FailureError(step[p])
          /\ step'[Other(p)] = step[Other(p)] /\ error'[Other(p)] = error[Other(p)]
      BY <1>7 DEF ReadFailed, Fails, IInv, TypeOK
    <2>3. \A q \in Peers : ~garbled'[q]
      BY <1>1, <1>7 DEF ReadFailed, PhaseInv, IInv, TypeOK
    <2>4. step[Other(p)] = Failed /\ ~sent[p]
      BY <1>1, <1>2, <2>1 DEF PhaseInv, Receives, Sends
    <2>5. SameApp' = SameApp /\ RightServer' = RightServer /\ Welcome' = Welcome
      BY <2>1, Frame
    <2>6. ~Running
      BY <1>2, <2>4 DEF Running
    <2>7. p = Client /\ Quiet' /\ Quiet
      BY <1>1, <2>1, <2>4, <2>6 DEF PhaseInv, Refused, Quiet, Receives
    <2>8. \/ step[Client] = 2 /\ error[Server] = ProtocolError /\ ~SameApp
          \/ /\ step[Client] = 4 /\ error[Server] = AuthError
             /\ SameApp /\ ~(RightServer /\ Welcome)
      BY <1>1, <1>2, <2>1, <2>4, <2>6, <2>7 DEF PhaseInv, Refused, Receives
    <2>9. error'[Client] = error[Server]
      BY <2>2, <2>7, <2>8 DEF FailureError
    <2>10. \/ Refused(ProtocolError, 2)' /\ ~SameApp
           \/ Refused(AuthError, 4)' /\ SameApp /\ ~(RightServer /\ Welcome)
      BY <2>2, <2>4, <2>7, <2>8, <2>9 DEF Refused
    <2> QED BY <1>1, <2>1, <2>2, <2>3, <2>4, <2>5, <2>7, <2>10 DEF PhaseInv
  <1>8. ASSUME NEW p \in Peers, Close(p) PROVE PhaseInv'
    <2>1. /\ UNCHANGED <<step, error, impl, sent, net, garbled, clientAuth, faults>>
          /\ step[p] = Failed
          /\ \A q \in Peers : ~open'[q] => q = p \/ ~open[q]
      BY <1>8 DEF Close, IInv, TypeOK
    <2>2. /\ c' = c /\ s' = s /\ AuthMsg' = AuthMsg /\ AckMsg' = AckMsg
          /\ SameApp' = SameApp /\ RightServer' = RightServer /\ Welcome' = Welcome
      BY <2>1, Frame
    <2>3. Running' = Running /\ Quiet' = Quiet /\ \A q \in Peers : Pos(q)' = Pos(q)
      BY <2>1, <2>2 DEF Running, Quiet, Pos
    <2> QED BY <2>1, <2>2, <2>3 DEF PhaseInv, Refused
  <1>9. ASSUME NEW p \in Peers, WriteFailed(p) PROVE PhaseInv'
    <2>1. ~open[Other(p)] /\ Sends(p, step[p]) /\ ~sent[p]
      BY <1>9 DEF WriteFailed, IInv, OutInv
    <2>2. step[Other(p)] = Failed
      BY <1>1, <2>1 DEF PhaseInv
    <2> QED BY <1>1, <1>2, <2>1, <2>2 DEF PhaseInv, Running, Refused, Sends
  <1>10. ASSUME NEW p \in Peers, Drop(p) \/ Corrupt(p) PROVE FALSE
    BY <1>1, <1>10 DEF Drop, Corrupt
  <1>11. CASE UNCHANGED vars
    <2>1. UNCHANGED <<step, error, impl, sent, net, garbled, open, clientAuth, faults>>
      BY <1>11 DEF vars
    <2>2. /\ c' = c /\ s' = s /\ AuthMsg' = AuthMsg /\ AckMsg' = AckMsg
          /\ SameApp' = SameApp /\ RightServer' = RightServer /\ Welcome' = Welcome
      BY <2>1, Frame
    <2>3. Running' = Running /\ Quiet' = Quiet /\ \A q \in Peers : Pos(q)' = Pos(q)
      BY <2>1, <2>2 DEF Running, Quiet, Pos
    <2> QED BY <2>1, <2>2, <2>3 DEF PhaseInv, Refused
  <1> QED BY <1>3, <1>4, <1>5, <1>6, <1>7, <1>8, <1>9, <1>10, <1>11 DEF Next, Own, Done

(* For all constants: on an undisturbed connection ProtocolError means     *)
(* different application IDs, and AuthError a wrong server key or an       *)
(* unwelcome client, on both sides.                                        *)
THEOREM ErrorsMeanWhatTheySay == Spec => []ErrorMeaning
  <1>1. PhaseInv => ErrorMeaning
    BY DEF PhaseInv, ErrorMeaning, Refused, NoError, ProtocolError, AuthError
  <1> QED BY <1>1, PhaseInit, PhaseNext, InvariantHolds, PTL DEF Spec
============================================================================
