----------------------------- MODULE ShsCrypto -----------------------------
(***************************************************************************)
(* The cryptographic core of Secret Handshake, class impl::handshake of    *)
(* shs.cc, in the symbolic style: a key is a name, a primitive is a tagged *)
(* tuple, and two terms are equal only when they were built the same way.  *)
(* A function of the class becomes an operator from the object (a record   *)
(* with the fields of shs.hh) to its result and the updated object.        *)
(*                                                                         *)
(* A message is a pair <<authenticator, contents>>: <<hmac, key>> for a    *)
(* challenge, <<key, plaintext>> for a box, which opens only under its key.*)
(* Each public key has the name of its secret key; the ephemeral key of a  *)
(* peer has the name of the peer.                                          *)
(***************************************************************************)

CONSTANT Unset      \* an empty std::optional, an empty buffer

(* Primitives. *)
hash(x) == <<"hash", x>>
hmac(key, x) == <<"hmac", key, x>>
sign(key, x) == <<"sign", key, x>>
check(publicKey, signature, x) == signature = sign(publicKey, x)
DH(key, publicKey) == {key, publicKey}
makeBoxKey(keyMaterial) == hash(keyMaterial)
box(key, plaintext) == <<key, plaintext>>
unbox(key, ciphertext) ==
    IF ciphertext[1] = key THEN ciphertext[2] ELSE Unset

(* What is left of a message some byte of which was damaged in transit:    *)
(* neither its hmac nor its box verifies (the primitives are ideal).       *)
Noise == <<<<"noise">>, <<"noise">>>>

----------------------------------------------------------------------------
(* The object.  hashab, set together with ab, is always hash(ab).          *)

(* K application ID, X my long-term key, x my ephemeral key *)
handshake(K, X, x) ==
    [K |-> K, X |-> X, x |-> x, Yp |-> Unset, yp |-> Unset, ab |-> Unset,
     aB |-> Unset, Ab |-> Unset, serverAckKey |-> Unset, H |-> Unset]

setServerPublicKey(h, pk) == [h EXCEPT !.Yp = pk]

hashab(h) == hash(h.ab)

createChallenge(h) == <<hmac(h.K, h.x), h.x>>

verifyChallengeOwnKey(h, challenge) ==
    LET ok == challenge[1] = hmac(h.K, challenge[2])
    IN  [ok |-> ok,
         h  |-> IF ok THEN [h EXCEPT !.yp = challenge[2], !.ab = DH(h.x, h.x)]
                      ELSE h]
verifyChallenge(h, challenge) ==
    LET yp == challenge[2]
        ok == challenge[1] = hmac(h.K, yp)
    IN  [ok |-> ok,
         h  |-> IF ok THEN [h EXCEPT !.yp = yp, !.ab = DH(h.x, yp)] ELSE h]

clientAuthKey(h) == makeBoxKey(<<h.K, h.ab, h.aB>>)

serverAckKeyWithoutAb(h) == makeBoxKey(<<h.K, h.ab, h.aB>>)
serverAckKey(h) == makeBoxKey(<<h.K, h.ab, h.aB, h.Ab>>)

----------------------------------------------------------------------------
(* Client.                                                                 *)

createClientAuth(h) ==
    LET H  == <<sign(h.X, <<h.K, h.Yp, hashab(h)>>), h.X>>
        h2 == [h EXCEPT !.H = H, !.Ab = DH(h.X, h.yp), !.aB = DH(h.x, h.Yp)]
    IN  [msg |-> box(clientAuthKey(h2), H), h |-> h2]

verifyServerAck(h, ack) ==
    LET key == serverAckKey(h)
        sig == unbox(key, ack)
    IN  [ok |-> sig # Unset /\ check(h.Yp, sig, <<h.K, h.H, hashab(h)>>),
         h  |-> [h EXCEPT !.serverAckKey = key]]

----------------------------------------------------------------------------
(* Server.                                                                 *)

verifyClientAuth(h, auth) ==
    LET h2 == [h EXCEPT !.aB = DH(h.X, h.yp)]
        H  == unbox(clientAuthKey(h2), auth)
        h3 == [h2 EXCEPT !.H = H, !.Yp = H[2], !.Ab = DH(h.x, H[2])]
    IN  IF H = Unset
        THEN [ok |-> FALSE, h |-> [h2 EXCEPT !.H = Unset]]
        ELSE [ok |-> check(H[2], H[1], <<h.K, h.X, hashab(h)>>), h |-> h3]

createServerAck(h) ==
    LET key == serverAckKey(h)
    IN  [msg |-> box(key, sign(h.X, <<h.K, h.H, hashab(h)>>)),
         h   |-> [h EXCEPT !.serverAckKey = key]]

----------------------------------------------------------------------------
(* The outcome, read once the handshake has finished.                      *)

getOutcomeOwnNonce(h) ==
    LET keyHash == hash(h.serverAckKey)
    IN  [encryptionKey   |-> hash(<<keyHash, h.Yp>>),
         encryptionNonce |-> hmac(h.K, h.x),
         decryptionKey   |-> hash(<<keyHash, h.X>>),
         decryptionNonce |-> hmac(h.K, h.x),
         peerPublicKey   |-> h.Yp]
getOutcome(h) ==
    LET keyHash == hash(h.serverAckKey)
    IN  [encryptionKey   |-> hash(<<keyHash, h.Yp>>),
         encryptionNonce |-> hmac(h.K, h.yp),
         decryptionKey   |-> hash(<<keyHash, h.X>>),
         decryptionNonce |-> hmac(h.K, h.x),
         peerPublicKey   |-> h.Yp]
============================================================================
