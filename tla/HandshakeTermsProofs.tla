------------------------- MODULE HandshakeTermsProofs ------------------------
(***************************************************************************)
(* Lemmas about the operators of shs.cc on the objects of a client g and a *)
(* server h, for any application IDs and keys: what each message does to   *)
(* the object that makes it and to the one that reads it, and when it is   *)
(* accepted.  The proofs about each specification that drives these        *)
(* objects rest on them.                                                   *)
(***************************************************************************)
EXTENDS HandshakeTerms, TLAPS

USE DEF Client, Server, Peers, Other, Failed, ClientChallenge,
        ServerChallenge, ClientAuth, ServerAck, Finished

----------------------------------------------------------------------------
(* Terms.                                                                  *)

(* Each primitive of shs.cc is injective and tells itself from the others. *)
LEMMA Terms ==
    /\ \A x, y : hash(x) = hash(y) => x = y
    /\ \A k, l, x, y : hmac(k, x) = hmac(l, y) => k = l /\ x = y
    /\ \A k, x, y : hash(x) # hmac(k, y)
    /\ \A x : Noise[1] # hash(x)
    /\ \A k, x : Noise[1] # hmac(k, x)
  <1>1. \A x, y : hash(x) = hash(y) => x = y
    BY DEF hash
  <1>2. \A k, l, x, y : hmac(k, x) = hmac(l, y) => k = l /\ x = y
    BY DEF hmac
  <1>3. \A k, x, y : hash(x) # hmac(k, y)
    BY DEF hash, hmac
  <1>4. Noise[1] = <<"noise">>
    BY DEF Noise
  <1>5. \A x : Noise[1] # hash(x)
    BY <1>4 DEF hash
  <1>6. \A k, x : Noise[1] # hmac(k, x)
    BY <1>4 DEF hmac
  <1> QED BY <1>1, <1>2, <1>3, <1>5, <1>6

(* A shared secret does not depend on which side computes it, and names    *)
(* the long-term key it was computed from.                                 *)
LEMMA SharedSecrets ==
    /\ DH(Server, Client) = AB
    /\ \A X \in Keys : DH(X, Client) = DH(Client, X) /\ DH(X, Server) = DH(Server, X)
    /\ \A X, Y \in Keys : DH(Client, X) = DH(Client, Y) => X = Y
  BY KeysAssumption DEF DH, AB

----------------------------------------------------------------------------
(* The crypto objects.                                                     *)

(* The configuration of a crypto object and what it knows of the challenge *)
(* never change once set.                                                  *)
SameSecrets(g, h) ==
    /\ g.K = h.K /\ g.X = h.X /\ g.x = h.x /\ g.Yp = h.Yp /\ g.yp = h.yp
    /\ g.ab = h.ab

(* What the constructors and setServerPublicKey() leave. *)
LEMMA Constructed ==
    ASSUME NEW g \in ClientHandshakes, NEW h \in ServerHandshakes
    PROVE  /\ g \in Objects(Client) /\ g.Yp \in Keys /\ g.yp = Unset /\ g.H = Unset
           /\ h \in Objects(Server) /\ h.yp = Unset
  <1>1. PICK K \in AppIDs, X \in Keys, pk \in Keys :
            g = setServerPublicKey(handshake(K, X, Client), pk)
    BY DEF ClientHandshakes
  <1>2. g = [K |-> K, X |-> X, x |-> Client, Yp |-> pk, yp |-> Unset,
             ab |-> Unset, aB |-> Unset, Ab |-> Unset, serverAckKey |-> Unset,
             H |-> Unset]
    BY <1>1 DEF setServerPublicKey, handshake
  <1>3. PICK L \in AppIDs, Z \in Keys : h = handshake(L, Z, Server)
    BY DEF ServerHandshakes
  <1> QED BY <1>2, <1>3 DEF Objects, handshake

(* What verifyChallenge adds to an object. *)
Learned(h, q) == [h EXCEPT !.yp = q, !.ab = AB]

(* verifyChallenge sets _yp and _ab and leaves the other fields alone. *)
LEMMA LearnedFields ==
    ASSUME NEW p \in Peers, NEW h \in Objects(p)
    PROVE  LET g == Learned(h, Other(p))
           IN  /\ g \in Objects(p)
               /\ g.yp = Other(p) /\ g.ab = AB /\ g.K = h.K /\ g.X = h.X
               /\ g.x = h.x /\ g.Yp = h.Yp /\ g.aB = h.aB /\ g.Ab = h.Ab
               /\ g.H = h.H /\ g.serverAckKey = h.serverAckKey
  BY ZenonT(60) DEF Learned, Objects

(* A message that is not a challenge is refused by verifyChallenge, which  *)
(* then leaves the object alone.                                           *)
LEMMA NoChallenge ==
    ASSUME NEW h, NEW m, \A k, x : m[1] # hmac(k, x)
    PROVE  verifyChallenge(h, m) = [ok |-> FALSE, h |-> h]
  BY DEF verifyChallenge

(* The peer's challenge is accepted exactly when it was made for the same  *)
(* application.                                                            *)
LEMMA PeersChallenge ==
    ASSUME NEW p \in Peers, NEW h \in Objects(p), NEW m, NEW k,
           m = <<hmac(k, Other(p)), Other(p)>>
    PROVE  /\ k = h.K => verifyChallenge(h, m) =
                            [ok |-> TRUE, h |-> Learned(h, Other(p))]
           /\ k # h.K => verifyChallenge(h, m) = [ok |-> FALSE, h |-> h]
  <1>1. m[1] = hmac(k, Other(p)) /\ m[2] = Other(p)
    OBVIOUS
  <1>2. (m[1] = hmac(h.K, m[2])) <=> (k = h.K)
    BY <1>1, Terms
  <1>3. DH(h.x, Other(p)) = AB
    <2>1. h.x = p
      BY DEF Objects
    <2> QED BY <2>1, SharedSecrets DEF AB
  <1> QED BY <1>1, <1>2, <1>3 DEF verifyChallenge, Learned

(* What verifyClientAuth makes of an object: when the box does not open,   *)
(* and when it holds the proof H of a client with key X.                   *)
Unopened(h) == [[h EXCEPT !.aB = DH(Client, h.X)] EXCEPT !.H = Unset]
Opened(h, H, X) == [[h EXCEPT !.aB = DH(Client, h.X)]
                        EXCEPT !.H = H, !.Yp = X, !.Ab = DH(Server, X)]

(* The fields of the server's object after an unbox() that failed. *)
LEMMA UnopenedFields ==
    ASSUME NEW h \in Objects(Server)
    PROVE  LET g == Unopened(h)
           IN  /\ g \in Objects(Server)
               /\ g.K = h.K /\ g.X = h.X /\ g.x = h.x /\ g.yp = h.yp /\ g.ab = h.ab
  <1>1. DH(Client, h.X) \in SharedWith(Client)
    BY DEF Objects, SharedWith
  <1> QED BY <1>1, ZenonT(60) DEF Unopened, Objects

(* The fields of the server's object after an unbox() that succeeded. *)
LEMMA OpenedFields ==
    ASSUME NEW h \in Objects(Server), NEW H \in Proofs, NEW X \in Keys
    PROVE  LET g == Opened(h, H, X)
           IN  /\ g \in Objects(Server)
               /\ g.K = h.K /\ g.X = h.X /\ g.x = h.x /\ g.yp = h.yp /\ g.ab = h.ab
               /\ g.H = H /\ g.Yp = X /\ g.aB = DH(Client, h.X)
               /\ g.Ab = DH(Server, X)
  <1>1. DH(Client, h.X) \in SharedWith(Client) /\ DH(Server, X) \in SharedWith(Server)
    BY DEF Objects, SharedWith
  <1>2. Opened(h, H, X) \in Objects(Server)
    BY <1>1, ZenonT(60) DEF Opened, Objects
  <1>3. LET g == Opened(h, H, X)
        IN  /\ g.K = h.K /\ g.X = h.X /\ g.x = h.x /\ g.yp = h.yp /\ g.ab = h.ab
            /\ g.H = H /\ g.Yp = X /\ g.aB = DH(Client, h.X)
            /\ g.Ab = DH(Server, X)
    BY DEF Opened, Objects
  <1> QED BY <1>2, <1>3

(* What verifyServerAck adds to an object. *)
Keyed(h) == [h EXCEPT !.serverAckKey = AckKey(h.K, h.X, h.Yp)]

----------------------------------------------------------------------------
(* Making a message.                                                       *)

(* Both peers' challenges: the object stays as it is. *)
LEMMA ChallengeMade ==
    ASSUME NEW p, NEW h, NEW st \in {ClientChallenge, ServerChallenge}
    PROVE  /\ FillOutputBuffer(p, st, h).msg = createChallenge(h)
           /\ FillOutputBuffer(p, st, h).h = h
  BY DEF FillOutputBuffer

(* createClientAuth on a client that has accepted the server's challenge.  *)
LEMMA ClientAuthMade ==
    ASSUME NEW g \in Objects(Client), g.Yp # Unset, g.yp # Unset, g.ab = AB
    PROVE  LET f == FillOutputBuffer(Client, ClientAuth, g)
           IN  /\ f.msg = AuthOf(g)
               /\ f.h \in Objects(Client) /\ SameSecrets(f.h, g)
               /\ f.h.serverAckKey = g.serverAckKey
               /\ f.h.H = ProofOf(g.K, g.X, g.Yp)
               /\ f.h.aB = DH(Client, g.Yp) /\ f.h.Ab = DH(Server, g.X)
  <1> DEFINE H == ProofOf(g.K, g.X, g.Yp)
             g2 == [g EXCEPT !.H = H, !.Ab = DH(Server, g.X), !.aB = DH(Client, g.Yp)]
  <1>1. g.K \in AppIDs /\ g.X \in Keys /\ g.Yp \in Keys /\ g.yp = Server /\ g.x = Client
    BY DEF Objects
  <1>2. FillOutputBuffer(Client, ClientAuth, g) = createClientAuth(g)
    BY DEF FillOutputBuffer
  <1>3. H = <<sign(g.X, <<g.K, g.Yp, hashab(g)>>), g.X>>
    BY DEF ProofOf, hashab
  <1>4. DH(g.X, g.yp) = DH(Server, g.X) /\ DH(g.x, g.Yp) = DH(Client, g.Yp)
    BY <1>1, SharedSecrets
  <1>5. createClientAuth(g) = [msg |-> box(clientAuthKey(g2), H), h |-> g2]
    BY <1>3, <1>4 DEF createClientAuth
  <1>6. /\ g2 \in Objects(Client) /\ SameSecrets(g2, g)
        /\ g2.serverAckKey = g.serverAckKey /\ g2.H = H
        /\ g2.aB = DH(Client, g.Yp) /\ g2.Ab = DH(Server, g.X)
    <2>1. H \in Proofs
      BY <1>1 DEF Proofs
    <2>2. DH(Client, g.Yp) \in SharedWith(Client) /\ DH(Server, g.X) \in SharedWith(Server)
      BY <1>1 DEF SharedWith
    <2> HIDE DEF H
    <2>3. g2 \in Objects(Client)
      BY <2>1, <2>2 DEF Objects
    <2>4. /\ g2.H = H /\ g2.aB = DH(Client, g.Yp) /\ g2.Ab = DH(Server, g.X)
          /\ g2.serverAckKey = g.serverAckKey
      BY DEF Objects
    <2>5. SameSecrets(g2, g)
      BY DEF Objects, SameSecrets
    <2> QED BY <2>3, <2>4, <2>5
  <1>7. clientAuthKey(g2) = hash(<<g.K, AB, DH(Client, g.Yp)>>)
    BY <1>6 DEF clientAuthKey, makeBoxKey, SameSecrets
  <1>8. box(clientAuthKey(g2), H) = AuthOf(g)
    BY <1>7 DEF AuthOf
  <1> HIDE DEF H, g2
  <1> QED BY <1>2, <1>5, <1>6, <1>8 DEF H

(* createServerAck on a server that has accepted the client's proof. *)
LEMMA ServerAckMade ==
    ASSUME NEW h \in Objects(Server), h.Yp # Unset, h.ab = AB,
           h.aB = DH(Client, h.X), h.Ab = DH(Server, h.Yp),
           h.H = ProofOf(h.K, h.Yp, h.X)
    PROVE  LET f == FillOutputBuffer(Server, ServerAck, h)
           IN  /\ f.msg = AckOf(h)
               /\ f.h \in Objects(Server) /\ SameSecrets(f.h, h)
               /\ f.h.H = h.H /\ f.h.aB = h.aB /\ f.h.Ab = h.Ab
               /\ f.h.serverAckKey = AckKey(h.K, h.Yp, h.X)
  <1> DEFINE key == AckKey(h.K, h.Yp, h.X)
             h2 == [h EXCEPT !.serverAckKey = key]
  <1>1. FillOutputBuffer(Server, ServerAck, h) = createServerAck(h)
    BY DEF FillOutputBuffer
  <1>2. serverAckKey(h) = key
    BY DEF serverAckKey, makeBoxKey, AckKey
  <1>3. box(key, sign(h.X, <<h.K, h.H, hashab(h)>>)) = AckOf(h)
    BY DEF AckOf, hashab
  <1>4. createServerAck(h) = [msg |-> AckOf(h), h |-> h2]
    BY <1>2, <1>3 DEF createServerAck
  <1>5. h.K \in AppIDs /\ h.X \in Keys /\ h.Yp \in Keys
    BY DEF Objects
  <1>6. key \in AckKeys
    BY <1>5 DEF AckKeys
  <1>7. /\ h2 \in Objects(Server) /\ SameSecrets(h2, h) /\ h2.H = h.H
        /\ h2.aB = h.aB /\ h2.Ab = h.Ab /\ h2.serverAckKey = key
    BY <1>6 DEF Objects, SameSecrets
  <1> HIDE DEF h2, key
  <1> QED BY <1>1, <1>4, <1>7 DEF key

----------------------------------------------------------------------------
(* Reading a message.                                                      *)

(* The forms of what can arrive in place of a message: the challenge of an *)
(* object, its box, or noise.  Each tells itself from the others.          *)
LEMMA Forms ==
    ASSUME NEW h
    PROVE  /\ \A k, x : Noise[1] # hmac(k, x) /\ AuthOf(h)[1] # hmac(k, x)
                        /\ AckOf(h)[1] # hmac(k, x)
           /\ \A x : Noise[1] # hash(x) /\ createChallenge(h)[1] # hash(x)
  <1>1. \A k, x : AuthOf(h)[1] # hmac(k, x)
    BY Terms DEF AuthOf, box
  <1>2. \A k, x : AckOf(h)[1] # hmac(k, x)
    BY Terms DEF AckOf, box, AckKey
  <1>3. \A x : createChallenge(h)[1] # hash(x)
    BY Terms DEF createChallenge
  <1> QED BY <1>1, <1>2, <1>3, Terms

(* A step that waits for a challenge, given the one of an object of the    *)
(* other peer, or anything that is no challenge.                           *)
LEMMA ChallengeVerdict ==
    ASSUME NEW p \in Peers, NEW q \in Peers, q # p,
           NEW h \in Objects(p), NEW g \in Objects(q),
           NEW st \in {ClientChallenge, ServerChallenge}, NEW auth, NEW m,
           m = createChallenge(g) \/ \A k, x : m[1] # hmac(k, x)
    PROVE  LET r == ReceivedBytes(p, st, h, auth, m)
           IN  \/ /\ r.ok /\ r.h = Learned(h, q)
                  /\ m = createChallenge(g) /\ g.K = h.K
               \/ /\ ~r.ok /\ r.h = h
                  /\ m = createChallenge(g) => g.K # h.K
  <1>1. ReceivedBytes(p, st, h, auth, m) = verifyChallenge(h, m)
    BY DEF ReceivedBytes
  <1>2. q = Other(p) /\ createChallenge(g) = <<hmac(g.K, q), q>>
    BY DEF createChallenge, Objects
  <1>3. CASE m = createChallenge(g)
    <2>1. CASE g.K = h.K
      <3>1. verifyChallenge(h, m) = [ok |-> TRUE, h |-> Learned(h, q)]
        BY <1>2, <1>3, <2>1, PeersChallenge, ZenonT(120)
      <3> QED BY <1>1, <1>3, <2>1, <3>1
    <2>2. CASE g.K # h.K
      <3>1. verifyChallenge(h, m) = [ok |-> FALSE, h |-> h]
        BY <1>2, <1>3, <2>2, PeersChallenge, ZenonT(60)
      <3> QED BY <1>1, <2>2, <3>1
    <2> QED BY <2>1, <2>2
  <1>4. CASE \A k, x : m[1] # hmac(k, x)
    <2>1. verifyChallenge(h, m) = [ok |-> FALSE, h |-> h]
      BY <1>4, NoChallenge
    <2>2. m # createChallenge(g)
      BY <1>2, <1>4
    <2> QED BY <1>1, <2>1, <2>2
  <1> QED BY <1>3, <1>4

(* A server that waits for the client's proof: it accepts exactly the      *)
(* genuine one, made for this server by a client the authorizer admits.    *)
LEMMA AuthVerdict ==
    ASSUME NEW h \in Objects(Server), NEW g \in Objects(Client), NEW auth, NEW m,
           h.yp # Unset, h.ab = AB, g.K = h.K, g.Yp # Unset,
           m = AuthOf(g) \/ \A x : m[1] # hash(x)
    PROVE  LET r == ReceivedBytes(Server, ClientAuth, h, auth, m)
           IN  /\ r.h \in Objects(Server)
               /\ r.h.K = h.K /\ r.h.X = h.X /\ r.h.x = h.x
               /\ r.h.yp = h.yp /\ r.h.ab = h.ab
               /\ r.ok => /\ m = AuthOf(g) /\ g.Yp = h.X /\ Authorizes(auth, g.X)
                          /\ r.h.H = ProofOf(g.K, g.X, g.Yp) /\ r.h.Yp = g.X
                          /\ r.h.aB = DH(Client, h.X) /\ r.h.Ab = DH(Server, g.X)
               /\ ~r.ok => ~(m = AuthOf(g) /\ g.Yp = h.X /\ Authorizes(auth, g.X))
  <1> DEFINE k == hash(<<h.K, AB, DH(Client, h.X)>>)
             h2 == [h EXCEPT !.aB = DH(Client, h.X)]
             v == verifyClientAuth(h, m)
             r == ReceivedBytes(Server, ClientAuth, h, auth, m)
  <1>1. h.yp = Client /\ h.X \in Keys /\ g.K \in AppIDs /\ g.X \in Keys /\ g.Yp \in Keys
        /\ h.x = Server
    BY DEF Objects
  <1>2. r = [ok |-> v.ok /\ Authorizes(auth, v.h.Yp), h |-> v.h]
    BY DEF ReceivedBytes
  <1>3. DH(h.X, h.yp) = DH(Client, h.X)
    BY <1>1, SharedSecrets
  <1>4. clientAuthKey(h2) = k
    <2>1. h2.K = h.K /\ h2.ab = h.ab /\ h2.aB = DH(Client, h.X)
      BY DEF Objects
    <2> QED BY <2>1 DEF clientAuthKey, makeBoxKey
  <1>5. CASE m[1] # k
    <2>1. unbox(clientAuthKey(h2), m) = Unset
      BY <1>4, <1>5 DEF unbox
    <2>2. v = [ok |-> FALSE, h |-> Unopened(h)]
      BY <1>3, <2>1 DEF verifyClientAuth, Unopened
    <2>3. ~(m = AuthOf(g) /\ g.Yp = h.X)
      BY <1>5 DEF AuthOf, box
    <2> HIDE DEF v, r
    <2>4. r = [ok |-> FALSE, h |-> Unopened(h)]
      BY <1>2, <2>2
    <2> QED BY <2>3, <2>4, UnopenedFields DEF r
  <1>6. CASE m[1] = k
    <2> DEFINE H == ProofOf(g.K, g.X, g.Yp)
    <2>1. m = AuthOf(g)
      BY <1>6
    <2>2. hash(<<g.K, AB, DH(Client, g.Yp)>>) = k /\ m[2] = H
      BY <1>6, <2>1 DEF AuthOf, box
    <2>3. DH(Client, g.Yp) = DH(Client, h.X)
      BY <2>2, Terms
    <2>4. g.Yp = h.X
      BY <1>1, <2>3, SharedSecrets
    <2>5. H \in Proofs /\ H # Unset
      <3>1. H \in Proofs
        BY <1>1 DEF Proofs
      <3> QED BY <3>1, TermsAssumption
    <2>6. unbox(clientAuthKey(h2), m) = H
      BY <1>4, <1>6, <2>2 DEF unbox
    <2>7. H[2] = g.X /\ H[1] = sign(g.X, <<h.K, h.X, hashab(h)>>)
      BY <2>4 DEF ProofOf, hashab
    <2> HIDE DEF H
    <2>8. v = [ok |-> check(H[2], H[1], <<h.K, h.X, hashab(h)>>), h |-> Opened(h, H, g.X)]
      <3>1. v = [ok |-> check(H[2], H[1], <<h.K, h.X, hashab(h)>>),
                 h |-> [h2 EXCEPT !.H = H, !.Yp = H[2], !.Ab = DH(h.x, H[2])]]
        BY <1>3, <2>5, <2>6 DEF verifyClientAuth
      <3> QED BY <1>1, <2>7, <3>1 DEF Opened
    <2>9. v = [ok |-> TRUE, h |-> Opened(h, H, g.X)]
      BY <2>7, <2>8 DEF check
    <2> HIDE DEF v, r
    <2>10. /\ Opened(h, H, g.X) \in Objects(Server)
           /\ LET o == Opened(h, H, g.X)
              IN  /\ o.K = h.K /\ o.X = h.X /\ o.x = h.x /\ o.yp = h.yp /\ o.ab = h.ab
                  /\ o.H = H /\ o.Yp = g.X /\ o.aB = DH(Client, h.X)
                  /\ o.Ab = DH(Server, g.X)
      BY <1>1, <2>5, OpenedFields
    <2>11. /\ r.h = Opened(h, H, g.X)
           /\ r.ok => Authorizes(auth, g.X)
           /\ ~r.ok => ~Authorizes(auth, g.X)
      <3> DEFINE admits == Authorizes(auth, g.X)
      <3>1. v.h = Opened(h, H, g.X) /\ v.ok = TRUE
        BY <2>9
      <3>2. (v.ok /\ Authorizes(auth, v.h.Yp)) = (TRUE /\ admits)
        BY <2>10, <3>1
      <3> DEFINE good == TRUE /\ admits
      <3>3. r = [ok |-> good, h |-> Opened(h, H, g.X)]
        BY <1>2, <3>1, <3>2
      <3>4. good <=> admits
        OBVIOUS
      <3> HIDE DEF admits, good
      <3>5. r.ok = good /\ r.h = Opened(h, H, g.X)
        BY <3>3
      <3> QED BY <3>4, <3>5 DEF admits
    <2> QED BY <2>1, <2>4, <2>10, <2>11 DEF r, H
  <1> QED BY <1>5, <1>6

(* A client that waits for the ack: it accepts the ack of the server it    *)
(* meant, made for it, and otherwise only one of a server.                 *)
LEMMA AckVerdict ==
    ASSUME NEW g \in Objects(Client), NEW h \in Objects(Server), NEW auth, NEW m,
           g.Yp # Unset, g.ab = AB, g.aB = DH(Client, g.Yp), g.Ab = DH(Server, g.X),
           g.H = ProofOf(g.K, g.X, g.Yp),
           m = AckOf(h) \/ \A x : m[1] # hash(x)
    PROVE  LET r == ReceivedBytes(Client, ServerAck, g, auth, m)
           IN  /\ r.h \in Objects(Client) /\ SameSecrets(r.h, g)
               /\ r.h.H = g.H /\ r.h.aB = g.aB /\ r.h.Ab = g.Ab
               /\ r.h.serverAckKey = AckKey(g.K, g.X, g.Yp)
               /\ r.ok => m = AckOf(h)
               /\ ~r.ok => ~(m = AckOf(h) /\ h.K = g.K /\ h.X = g.Yp /\ h.Yp = g.X)
  <1> DEFINE k == AckKey(g.K, g.X, g.Yp)
             sig == unbox(k, m)
             r == ReceivedBytes(Client, ServerAck, g, auth, m)
             good == sig # Unset /\ check(g.Yp, sig, <<g.K, g.H, hashab(g)>>)
  <1>1. g.K \in AppIDs /\ g.X \in Keys /\ g.Yp \in Keys
    BY DEF Objects
  <1>2. serverAckKey(g) = k
    BY DEF serverAckKey, makeBoxKey, AckKey
  <1>3. r = verifyServerAck(g, m)
    BY DEF ReceivedBytes
  <1>4. r = [ok |-> good, h |-> Keyed(g)]
    BY <1>2, <1>3 DEF verifyServerAck, Keyed
  <1>5. good => m = AckOf(h)
    <2>1. SUFFICES ASSUME sig # Unset
                   PROVE  m = AckOf(h)
      OBVIOUS
    <2>2. m[1] = k
      BY <2>1 DEF unbox
    <2> QED BY <2>2 DEF AckKey
  <1>6. m = AckOf(h) /\ h.K = g.K /\ h.X = g.Yp /\ h.Yp = g.X => good
    <2> SUFFICES ASSUME m = AckOf(h), h.K = g.K, h.X = g.Yp, h.Yp = g.X
                 PROVE  good
      OBVIOUS
    <2> DEFINE signed == sign(g.Yp, <<g.K, ProofOf(g.K, g.X, g.Yp), hash(AB)>>)
    <2>1. m = <<k, signed>>
      BY DEF AckOf, box
    <2>2. sig = signed
      BY <2>1 DEF unbox
    <2>3. signed # Unset
      BY <1>1, TermsAssumption
    <2>4. check(g.Yp, signed, <<g.K, g.H, hashab(g)>>)
      BY DEF check, hashab
    <2> QED BY <2>2, <2>3, <2>4
  <1>7. k \in AckKeys
    BY <1>1 DEF AckKeys
  <1>8. /\ Keyed(g) \in Objects(Client) /\ SameSecrets(Keyed(g), g)
        /\ Keyed(g).H = g.H /\ Keyed(g).aB = g.aB /\ Keyed(g).Ab = g.Ab
        /\ Keyed(g).serverAckKey = k
    <2> HIDE DEF k
    <2>1. Keyed(g) = [g EXCEPT !.serverAckKey = k]
      BY DEF Keyed, k
    <2> QED BY <1>7, <2>1 DEF Objects, SameSecrets
  <1> HIDE DEF good, r
  <1>9. r.h = Keyed(g) /\ r.ok = good
    BY <1>4
  <1> QED BY <1>5, <1>6, <1>8, <1>9 DEF r
============================================================================
