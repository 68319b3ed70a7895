------------------------- MODULE HandshakeInvariant -------------------------
(***************************************************************************)
(* The inductive invariant behind the safety properties of Handshake: what *)
(* each peer's crypto object, buffer and channel hold at each step.        *)
(***************************************************************************)
EXTENDS Handshake

c == impl[Client]
s == impl[Server]

(* The messages these two peers send, from their configurations.           *)
AuthMsg == AuthOf(c)
AckMsg  == AckOf(s)

(* The client has sent its proof; the server has sent its ack. *)
HasProved ==
    /\ c.H # Unset
    /\ \/ step[Client] \in {Failed, ServerAck, Finished}
       \/ step[Client] = ClientAuth /\ sent[Client]
HasAcked == step[Server] = Finished \/ (step[Server] = ServerAck /\ sent[Server])

ClientInv ==
    /\ c.Yp # Unset
    /\ c.yp # Unset => SameApp /\ c.ab = AB
    /\ c.H # Unset => /\ c.yp # Unset
                      /\ c.H = ProofOf(c.K, c.X, c.Yp)
                      /\ c.aB = DH(Client, c.Yp) /\ c.Ab = DH(Server, c.X)
    /\ step[Client] \in {ClientAuth, ServerAck, Finished} => c.yp # Unset
    /\ step[Client] \in {ServerAck, Finished} => c.H # Unset
    /\ step[Client] = Finished =>
            HasAcked /\ c.serverAckKey = AckKey(c.K, c.X, c.Yp)

ServerInv ==
    /\ s.yp # Unset => SameApp /\ s.ab = AB
    /\ step[Server] \in {ServerChallenge, ClientAuth, ServerAck, Finished} =>
            s.yp # Unset
    /\ step[Server] \in {ServerAck, Finished} =>
            /\ RightServer /\ Welcome /\ HasProved
            /\ s.H = c.H /\ s.Yp = c.X
            /\ s.aB = DH(Client, s.X) /\ s.Ab = DH(Server, s.Yp)
    /\ HasAcked => s.serverAckKey = AckKey(s.K, s.Yp, s.X)

OutInv ==
    /\ \A p \in Peers : /\ out[p] # Unset => Sends(p, step[p])
                        /\ sent[p] => out[p] # Unset
    /\ out[Client] # Unset =>
            \/ step[Client] = ClientChallenge /\ out[Client] = createChallenge(c)
            \/ step[Client] = ClientAuth /\ out[Client] = AuthMsg /\ c.H # Unset
    /\ out[Server] # Unset =>
            \/ step[Server] = ServerChallenge /\ out[Server] = createChallenge(s)
            \/ /\ step[Server] = ServerAck /\ out[Server] = AckMsg
               /\ s.serverAckKey = AckKey(s.K, s.Yp, s.X)

NetInv ==
    /\ net[Client] # Unset =>
            net[Client] = createChallenge(c) \/ (net[Client] = AuthMsg /\ HasProved)
    /\ net[Server] # Unset =>
            net[Server] = createChallenge(s) \/ (net[Server] = AckMsg /\ HasAcked)

BoxedInv ==
    boxed \subseteq {AuthMsg} \cup (IF step[Server] \in {ServerAck, Finished}
                                    THEN {AckMsg} ELSE {})

(* Each crypto object, buffer and channel holds exactly what the protocol  *)
(* prescribes for the steps the two peers have reached, also after damage, *)
(* crashes and failures.                                                   *)
IInv == TypeOK /\ ClientInv /\ ServerInv /\ OutInv /\ NetInv /\ BoxedInv

----------------------------------------------------------------------------
(* The order of the messages.                                              *)

AboutToSend(p) == Sends(p, step[p]) /\ ~sent[p]
Waits(p) == Receives(p, step[p]) \/ (Sends(p, step[p]) /\ sent[p])
Quiet == net[Client] = Unset /\ net[Server] = Unset

(* Nothing is under way while a peer has the turn; at most one message is  *)
(* under way; and when both wait, one is.                                  *)
OrderInv ==
    /\ \A p \in Peers : AboutToSend(p) => Quiet /\ ~AboutToSend(Other(p))
    /\ net[Client] = Unset \/ net[Server] = Unset
    /\ (\A p \in Peers : open[p] /\ Waits(p)) => ~Quiet

(* How far a peer is: its step, counting a message as soon as it is sent.  *)
Pos(p) == IF sent[p] THEN step[p] + 1 ELSE step[p]

(* The phases of an undisturbed handshake: each message is made and sent,  *)
(* then read; until the server refuses one, for a reason, and the client   *)
(* finds the connection closed.                                            *)
Running ==
    \/ Quiet /\ Pos(Client) = Pos(Server) /\ Pos(Client) \in 1 .. 5
    \/ /\ Pos(Client) = 2 /\ Pos(Server) = 1
       /\ net[Client] = createChallenge(c) /\ net[Server] = Unset
    \/ /\ Pos(Client) = 2 /\ Pos(Server) = 3
       /\ net[Client] = Unset /\ net[Server] = createChallenge(s)
    \/ /\ Pos(Client) = 4 /\ Pos(Server) = 3
       /\ net[Client] = AuthMsg /\ net[Server] = Unset
    \/ /\ Pos(Client) = 4 /\ Pos(Server) = 5
       /\ net[Client] = Unset /\ net[Server] = AckMsg

Refused(e, pos) ==
    /\ Quiet /\ step[Server] = Failed /\ error[Server] = e
    /\ \/ Pos(Client) = pos /\ error[Client] = NoError
       \/ step[Client] = Failed /\ error[Client] = e

PhaseInv ==
    faults = 0 =>
        /\ \A p \in Peers : ~garbled[p] /\ (~open[p] => step[p] = Failed)
        /\ \/ Running /\ \A p \in Peers : error[p] = NoError
           \/ Refused(ProtocolError, 2) /\ ~SameApp
           \/ Refused(AuthError, 4) /\ SameApp /\ ~(RightServer /\ Welcome)
============================================================================
