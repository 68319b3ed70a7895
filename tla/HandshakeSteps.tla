--------------------------- MODULE HandshakeSteps ---------------------------
(***************************************************************************)
(* What ClientHandshake and ServerHandshake add to class Handshake: which  *)
(* step sends, which receives, and what each message does to the crypto    *)
(* object.  Shared by the message-level and the byte-level specification.  *)
(***************************************************************************)
EXTENDS ShsCrypto, Naturals

CONSTANTS AppIDs,   \* application IDs a peer may be configured with
          Keys      \* long-term keys of the participants

Client == "client"
Server == "server"
Peers  == {Client, Server}
Other(p) == IF p = Client THEN Server ELSE Client

ASSUME UnsetAssumption ==
    Unset \notin AppIDs /\ Unset \notin Keys /\ Unset \notin Peers
ASSUME KeysAssumption == Keys \cap Peers = {}

(* enum Step *)
Failed          == 0
ClientChallenge == 1
ServerChallenge == 2
ClientAuth      == 3
ServerAck       == 4
Finished        == 5
Steps           == Failed .. Finished

(* enum Error *)
NoError       == "NoError"
ProtocolError == "ProtocolError"
AuthError     == "AuthError"
Errors        == {NoError, ProtocolError, AuthError}

----------------------------------------------------------------------------
(* byteCountNeeded() # 0: the step waits for a message *)
Receives(p, s) ==
    s \in IF p = Client THEN {ServerChallenge, ServerAck}
                        ELSE {ClientChallenge, ClientAuth}

(* _fillOutputBuffer() leaves something in the buffer *)
Sends(p, s) ==
    s \in IF p = Client THEN {ClientChallenge, ClientAuth}
                        ELSE {ServerChallenge, ServerAck}

(* _fillOutputBuffer(): the message of a sending step *)
FillOutputBuffer(p, s, h) ==
    IF s \in {ClientChallenge, ServerChallenge}
    THEN [msg |-> createChallenge(h), h |-> h]
    ELSE IF p = Client THEN createClientAuth(h) ELSE createServerAck(h)

(* The server's optional callback on the client's key; Unset: none is set. *)
AuthorizesListed(clientAuth, key) == clientAuth # Unset /\ key \in clientAuth
Authorizes(clientAuth, key) == clientAuth = Unset \/ key \in clientAuth

(* _receivedBytes(): the verdict on a complete message *)
ReceivedBytesNoAuthorizer(p, s, h, clientAuth, msg) ==
    IF s \in {ClientChallenge, ServerChallenge} THEN verifyChallenge(h, msg)
    ELSE IF p = Client THEN verifyServerAck(h, msg)
    ELSE verifyClientAuth(h, msg)
ReceivedBytes(p, s, h, clientAuth, msg) ==
    IF s \in {ClientChallenge, ServerChallenge} THEN verifyChallenge(h, msg)
    ELSE IF p = Client THEN verifyServerAck(h, msg)
    ELSE LET r == verifyClientAuth(h, msg)
         IN  [ok |-> r.ok /\ Authorizes(clientAuth, r.h.Yp), h |-> r.h]

(* failed(): the error reported for a failure in step s *)
FailureError(s) == IF s < ClientAuth THEN ProtocolError ELSE AuthError

(* The objects as constructed: any application ID and key pair, and for    *)
(* the client any idea of the server's public key.                         *)
ClientHandshakes ==
    {setServerPublicKey(handshake(K, X, Client), pk) :
        K \in AppIDs, X \in Keys, pk \in Keys}
ServerHandshakes == {handshake(K, X, Server) : K \in AppIDs, X \in Keys}
============================================================================
