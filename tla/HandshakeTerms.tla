--------------------------- MODULE HandshakeTerms ----------------------------
(***************************************************************************)
(* The terms that one handshake between two peers can produce.             *)
(***************************************************************************)
EXTENDS HandshakeSteps

(* The values a run can produce: with one ephemeral key per peer, each     *)
(* message is determined by the configuration of its sender.               *)

AB == DH(Client, Server)
ProofOf(K, X, Y) == <<sign(X, <<K, Y, hash(AB)>>), X>>
AckKey(K, X, Y) == hash(<<K, AB, DH(Client, Y), DH(Server, X)>>)
Proofs == {ProofOf(K, X, Y) : K \in AppIDs, X \in Keys, Y \in Keys}
Challenges == {<<hmac(K, p), p>> : K \in AppIDs, p \in Peers}
Auths == {box(hash(<<K, AB, DH(Client, Y)>>), ProofOf(K, X, Y)) :
            K \in AppIDs, X \in Keys, Y \in Keys}
Acks == {box(AckKey(K, X, Y), sign(Y, <<K, ProofOf(K, X, Y), hash(AB)>>)) :
            K \in AppIDs, X \in Keys, Y \in Keys}
Messages == Challenges \cup Auths \cup Acks

ASSUME TermsAssumption ==
    /\ Unset \notin Messages /\ Unset \notin Proofs
    /\ \A K \in AppIDs, X, Y \in Keys :
            /\ Unset # sign(Y, <<K, ProofOf(K, X, Y), hash(AB)>>)
            /\ Unset # AckKey(K, X, Y)

SharedWith(p) == {DH(p, X) : X \in Keys}
AckKeys == {AckKey(K, X, Y) : K \in AppIDs, X \in Keys, Y \in Keys}

Objects(p) ==
    [K : AppIDs, X : Keys, x : {p}, Yp : Keys \cup {Unset},
     yp : {Unset, Other(p)}, ab : {Unset, AB},
     aB : SharedWith(Client) \cup {Unset}, Ab : SharedWith(Server) \cup {Unset},
     serverAckKey : AckKeys \cup {Unset}, H : Proofs \cup {Unset}]

(* The two boxes of the protocol: the proof of a client with object g, and *)
(* the ack of a server with object h.                                      *)
AuthOf(g) == box(hash(<<g.K, AB, DH(Client, g.Yp)>>), ProofOf(g.K, g.X, g.Yp))
AckOf(h)  == box(AckKey(h.K, h.Yp, h.X),
                 sign(h.X, <<h.K, ProofOf(h.K, h.Yp, h.X), hash(AB)>>))
============================================================================
