-------------------------- MODULE AdapterInvariant ---------------------------
(***************************************************************************)
(* The inductive invariant that both adapters share while they connect:    *)
(* what the two Handshake objects, g the client's and h the server's, know *)
(* of each other, and what is in the adapters' buffers and under way.      *)
(***************************************************************************)
EXTENDS AdapterHandshake, HandshakeTerms

HandshakesOf(p) == [step : Steps, error : Errors, impl : Objects(p)]

(* The server has made its ack. *)
Acked(h) == /\ h.step \in {ServerAck, Finished}
            /\ h.impl.serverAckKey = AckKey(h.impl.K, h.impl.Yp, h.impl.X)

ClientFits(g, h) ==
    /\ g.impl.Yp # Unset
    /\ g.impl.yp # Unset => g.impl.K = h.impl.K /\ g.impl.ab = AB
    /\ g.impl.H # Unset =>
          /\ g.impl.yp # Unset
          /\ g.impl.H = ProofOf(g.impl.K, g.impl.X, g.impl.Yp)
          /\ g.impl.aB = DH(Client, g.impl.Yp) /\ g.impl.Ab = DH(Server, g.impl.X)
    /\ g.step \in {ClientAuth, ServerAck, Finished} => g.impl.yp # Unset
    /\ g.step \in {ServerAck, Finished} => g.impl.H # Unset
    /\ g.step = Finished =>
          Acked(h) /\ g.impl.serverAckKey = AckKey(g.impl.K, g.impl.X, g.impl.Yp)

ServerFits(g, h) ==
    /\ h.impl.yp # Unset => g.impl.K = h.impl.K /\ h.impl.ab = AB
    /\ h.step \in {ServerChallenge, ClientAuth, ServerAck, Finished} => h.impl.yp # Unset
    /\ h.step \in {ServerAck, Finished} =>
          /\ g.impl.Yp = h.impl.X /\ g.impl.H # Unset
          /\ h.impl.H = g.impl.H /\ h.impl.Yp = g.impl.X
          /\ h.impl.aB = DH(Client, h.impl.X) /\ h.impl.Ab = DH(Server, h.impl.Yp)
    /\ h.step = Finished => Acked(h)

Paired(g, h) ==
    /\ g \in HandshakesOf(Client) /\ h \in HandshakesOf(Server)
    /\ ClientFits(g, h) /\ ServerFits(g, h)

(* What q may have sent, or what damage left of it. *)
SentBy(q, g, h, m) ==
    \/ m = Noise
    \/ q = Client /\ m = createChallenge(g.impl)
    \/ q = Client /\ m = AuthOf(g.impl) /\ g.impl.H # Unset
    \/ q = Server /\ m = createChallenge(h.impl)
    \/ q = Server /\ m = AckOf(h.impl) /\ Acked(h)

(* The message of p's step, in its buffer. *)
Outgoing(p, g, h, m) ==
    \/ p = Client /\ g.step = ClientChallenge /\ m = createChallenge(g.impl)
    \/ p = Client /\ g.step = ClientAuth /\ m = AuthOf(g.impl) /\ g.impl.H # Unset
    \/ p = Server /\ h.step = ServerChallenge /\ m = createChallenge(h.impl)
    \/ p = Server /\ h.step = ServerAck /\ m = AckOf(h.impl) /\ Acked(h)

PeerInv(p) ==
    /\ pc[p] \in {"start", "opening"} => hs[p].step = ClientChallenge
    /\ pc[p] \in {"writing", "written"} => Outgoing(p, hs[Client], hs[Server], buf[p])
    /\ pc[p] \in {"reading", "read"} => Receives(p, hs[p].step)
    /\ pc[p] = "read" => SentBy(Other(p), hs[Client], hs[Server], buf[p])
    /\ net[p] # Unset => SentBy(p, hs[Client], hs[Server], net[p])

DriverInv ==
    /\ hs = [p \in Peers |-> hs[p]] /\ pc = [p \in Peers |-> pc[p]]
    /\ buf = [p \in Peers |-> buf[p]] /\ net = [p \in Peers |-> net[p]]
    /\ Paired(hs[Client], hs[Server])
    /\ \A p \in Peers : PeerInv(p)
============================================================================
