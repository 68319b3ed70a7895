-------------------------- MODULE SecretConnection ---------------------------
(***************************************************************************)
(* The Cap'n Proto adapter while it connects: StreamWrapper::wrap() on     *)
(* both sides of a connection, with WrappedStream::connect() and           *)
(* runHandshake().  A kj continuation runs to its end without interruption *)
(* and is one step; between the end of runHandshake() and the continuation *)
(* in connect(), the timer may fire.                                       *)
(***************************************************************************)
EXTENDS AdapterHandshake

VARIABLES
    timed,      \* wrap() of an authenticated stream with a connect timeout
    session,    \* the Session runHandshake() promises
    sawEnd      \* connected peers that have read end of file

wrapVars == <<driver, timed, session, result, sawEnd>>

WrapInit ==
    /\ DriverInit
    /\ timed \in [Peers -> BOOLEAN]
    /\ session = [p \in Peers |-> Unset]
    /\ result = [p \in Peers |-> "pending"]
    /\ sawEnd = {}

----------------------------------------------------------------------------
(* _authorizer; only a ServerWrapper has one. *)
AdmitsAll(p, key) == TRUE
Admits(p, key) == p = Client \/ Authorizes(authorizer, key)

(* runHandshake(): at the start, or in the continuation of a write or read *)
(* below.  The Handshake object itself has no authorizer.                  *)
RunHandshake(p) ==
    LET h == Reported(p, Unset)
        s == getOutcome(h.impl)
    IN  /\ p \notin hung /\ pc[p] \in {"start", "written", "read"}
        /\ CASE h.step = Finished ->
                  /\ session' = [session EXCEPT ![p] = s]
                  /\ Goes(p, h, IF Admits(p, s.peerPublicKey) THEN "resolved" ELSE "rejected")
             [] Sends(p, h.step) \/ Receives(p, h.step) ->
                  Suspends(p, h) /\ UNCHANGED session
             [] OTHER -> Goes(p, h, "rejected") /\ UNCHANGED session
        /\ UNCHANGED <<net, down, hung, authorizer, faults, timed, result, sawEnd>>

(* runHandshake() and connect() begin with getPeerName(), which throws if  *)
(* the other side has gone: at once or into the promise, wrap() fails.     *)
PeerNameFails(p) ==
    /\ p \notin hung /\ pc[p] \in {"start", "written", "read"} /\ Other(p) \in down
    /\ Goes(p, Reported(p, Unset), "rejected")
    /\ UNCHANGED <<net, down, hung, authorizer, faults, timed, session, result, sawEnd>>

(* The write or read below throws; the Handshake object is not told. *)
InnerThrowsWriting(p) ==
    /\ p \notin hung /\ Cut(p) /\ pc[p] = "writing"
    /\ pc' = [pc EXCEPT ![p] = "rejected"]
    /\ UNCHANGED <<hs, buf, net, down, hung, authorizer, faults, timed, session, result,
                   sawEnd>>
InnerThrows(p) ==
    /\ p \notin hung /\ Cut(p)
    /\ pc' = [pc EXCEPT ![p] = "rejected"]
    /\ UNCHANGED <<hs, buf, net, down, hung, authorizer, faults, timed, session, result,
                   sawEnd>>

(* The two continuations of connect(), and what wrap() adds to each: it    *)
(* hands out the stream, or destroys it and so the stream below.           *)
Settles(p, verdict) ==
    /\ result' = [result EXCEPT ![p] = verdict]
    /\ pc' = [pc EXCEPT ![p] = "settled"]
    /\ UNCHANGED <<hs, buf, net, hung, authorizer, faults, timed, session, sawEnd>>

Connected(p) ==
    /\ p \notin hung /\ pc[p] = "resolved"
    /\ Settles(p, "stream") /\ UNCHANGED down

ConnectFailsLeavingOpen(p) ==
    /\ p \notin hung /\ pc[p] = "rejected"
    /\ Settles(p, "failed") /\ UNCHANGED down
ConnectFails(p) ==
    /\ p \notin hung /\ pc[p] = "rejected"
    /\ Settles(p, "failed") /\ down' = down \cup {p}

(* exclusiveJoin: the timer wins, and the other promise is cancelled. *)
Timeout(p) ==
    /\ p \notin hung /\ timed[p] /\ result[p] = "pending"
    /\ Settles(p, "failed") /\ down' = down \cup {p}

(* A connected peer reads, and finds the other's end closed. *)
ReadsEnd(p) ==
    /\ p \notin hung /\ result[p] = "stream" /\ Other(p) \in down /\ p \notin sawEnd
    /\ sawEnd' = sawEnd \cup {p}
    /\ UNCHANGED <<driver, timed, session, result>>

WrapOver(p) ==
    \/ p \in hung \/ result[p] # "pending"
    \/ ~timed[p] /\ pc[p] = "reading" /\ Other(p) \in hung \ down
WrapDone == (\A p \in Peers : WrapOver(p)) /\ UNCHANGED wrapVars

----------------------------------------------------------------------------
WrapOwn(p) ==
    \/ RunHandshake(p) \/ PeerNameFails(p) \/ InnerThrows(p)
    \/ Connected(p) \/ ConnectFails(p) \/ ReadsEnd(p)

WrapBelow(p) == Transport(p) /\ UNCHANGED <<timed, session, result, sawEnd>>

WrapNext ==
    \/ WrapDone
    \/ \E p \in Peers :
          \/ WrapOwn(p) \/ Timeout(p) \/ WrapBelow(p)
          \/ Faults(p) /\ UNCHANGED <<timed, session, result, sawEnd>>

WrapSpec == WrapInit /\ [][WrapNext]_wrapVars

(* Each side's event loop runs what is ready, its timer included. *)
WrapFairSpec ==
    /\ WrapSpec
    /\ \A p \in Peers : /\ WF_wrapVars(WrapOwn(p)) /\ WF_wrapVars(WrapBelow(p))
                        /\ WF_wrapVars(Timeout(p))

----------------------------------------------------------------------------
(* Properties.                                                             *)

(* A server's wrap() yields a stream only for a client that proved, in     *)
(* this very handshake, the key its identity shows, and that the           *)
(* authorizer admits; then and only if both sides have streams their       *)
(* sessions fit, and the client's stream leads to the server it meant.     *)
Admission ==
    /\ result[Server] = "stream" =>
          /\ SameApp /\ RightServer /\ Welcome
          /\ session[Server].peerPublicKey = hs[Client].impl.X
    /\ result[Client] = "stream" => SameApp /\ RightServer
    /\ (\A p \in Peers : result[p] = "stream") => Fit(session[Client], session[Server])

(* A timeout ends every wrap() that has one, even if the other side hangs; *)
(* without one, wrap() ends unless the other side hangs with its           *)
(* connection open.                                                        *)
WrapSettles ==
    \A p \in Peers : <>(result[p] # "pending" \/ p \in hung
                        \/ (~timed[p] /\ Other(p) \in hung \ down))

(* A client that the server refused after its ack, or that the server gave *)
(* up, holds a stream but finds it closed.                                 *)
RefusedIsCut ==
    result[Server] = "failed" /\ result[Client] = "stream"
        ~> Client \in sawEnd \cup hung
============================================================================
