----------------------------- MODULE Handshake ------------------------------
(***************************************************************************)
(* One connection attempt: a ClientHandshake and a ServerHandshake, each   *)
(* driven by an application that follows SecretHandshake.hh, joined by a   *)
(* stream transport.  A message is sent and received in one piece here;    *)
(* HandshakeIO cuts it into bytes and implements this specification.       *)
(*                                                                         *)
(* Either peer may be misconfigured (another application ID, the wrong     *)
(* server key, a client the authorizer refuses), bytes may be damaged on   *)
(* the way, and a peer may crash or give up at any moment.                 *)
(***************************************************************************)
EXTENDS HandshakeTerms

CONSTANT MaxFaults      \* damaged messages and dropped peers, together

ASSUME MaxFaultsAssumption == MaxFaults \in Nat

VARIABLES
    step,       \* Handshake::_step of each peer
    error,      \* Handshake::_error of each peer
    impl,       \* Handshake::_impl of each peer
    out,        \* Handshake::_outputBuffer of each peer: a message, or Unset
    sent,       \* the application has written out to the transport
    net,        \* what each peer sent and the other has not read
    garbled,    \* a byte of that message (sent in part or in full) is damaged
    open,       \* the peer has its end of the connection open
    clientAuth, \* the server's authorizer: the keys it admits, or Unset
    boxed,      \* history: every box either peer has made
    faults      \* faults so far

vars == <<step, error, impl, out, sent, net, garbled, open, clientAuth, boxed,
          faults>>

Init ==
    /\ step  = [p \in Peers |-> ClientChallenge]
    /\ error = [p \in Peers |-> NoError]
    /\ \E c \in ClientHandshakes, s \in ServerHandshakes :
            impl = [p \in Peers |-> IF p = Client THEN c ELSE s]
    /\ out     = [p \in Peers |-> Unset]
    /\ sent    = [p \in Peers |-> FALSE]
    /\ net     = [p \in Peers |-> Unset]
    /\ garbled = [p \in Peers |-> FALSE]
    /\ open    = [p \in Peers |-> TRUE]
    /\ clientAuth \in {Unset} \cup SUBSET Keys
    /\ boxed = {}
    /\ faults = 0

----------------------------------------------------------------------------
(* nextStep() and failed() *)
NextStep(p) == /\ step' = [step EXCEPT ![p] = @ + 1]
               /\ error' = error

FailsSilently(p) == /\ error' = error
                    /\ step' = [step EXCEPT ![p] = Failed]
FailsThenClassifies(p) ==
    /\ step' = [step EXCEPT ![p] = Failed]
    /\ error' = [error EXCEPT ![p] = FailureError(step'[p])]
Fails(p) == /\ error' = [error EXCEPT ![p] = FailureError(step[p])]
            /\ step' = [step EXCEPT ![p] = Failed]

(* A box is one of the two encrypted messages; challenges are in the clear. *)
Boxes(s, msg) == IF s \in {ClientAuth, ServerAck} THEN {msg} ELSE {}

Fill(p) == FillOutputBuffer(p, step[p], impl[p])

(* bytesToSend() on an empty buffer; on a full one it changes nothing. *)
BytesToSend(p) ==
    /\ open[p] /\ out[p] = Unset /\ Sends(p, step[p])
    /\ out'   = [out EXCEPT ![p] = Fill(p).msg]
    /\ impl'  = [impl EXCEPT ![p] = Fill(p).h]
    /\ boxed' = boxed \cup Boxes(step[p], Fill(p).msg)
    /\ UNCHANGED <<step, error, sent, net, garbled, open, clientAuth, faults>>

(* The application writes the buffer to the transport ... *)
Write(p) ==
    /\ open[p] /\ out[p] # Unset /\ ~sent[p]
    /\ net'  = [net EXCEPT ![p] = out[p]]
    /\ sent' = [sent EXCEPT ![p] = TRUE]
    /\ UNCHANGED <<step, error, impl, out, garbled, open, clientAuth, boxed,
                   faults>>

(* ... and then says so.  The answer may already be on its way. *)
SendCompleted(p) ==
    /\ open[p] /\ out[p] # Unset /\ sent[p]
    /\ out'  = [out EXCEPT ![p] = Unset]
    /\ sent' = [sent EXCEPT ![p] = FALSE]
    /\ NextStep(p)
    /\ UNCHANGED <<impl, net, garbled, open, clientAuth, boxed, faults>>

(* The other sending interface: the buffer is handed over and the step     *)
(* taken before the application writes anything.                           *)
CopyBytesToSendAgain(p) ==
    LET f == IF out[p] = Unset THEN Fill(p) ELSE [msg |-> out[p], h |-> impl[p]]
    IN  /\ open[p] /\ Sends(p, step[p]) /\ ~sent[p]
        /\ impl'  = [impl EXCEPT ![p] = f.h]
        /\ net'   = [net EXCEPT ![p] = f.msg]
        /\ out'   = [out EXCEPT ![p] = Unset]
        /\ boxed' = boxed \cup Boxes(step[p], f.msg)
        /\ UNCHANGED <<step, error, sent, garbled, open, clientAuth, faults>>
CopyBytesToSend(p) ==
    LET f == IF out[p] = Unset THEN Fill(p) ELSE [msg |-> out[p], h |-> impl[p]]
    IN  /\ open[p] /\ Sends(p, step[p]) /\ ~sent[p]
        /\ impl'  = [impl EXCEPT ![p] = f.h]
        /\ net'   = [net EXCEPT ![p] = f.msg]
        /\ out'   = [out EXCEPT ![p] = Unset]
        /\ boxed' = boxed \cup Boxes(step[p], f.msg)
        /\ NextStep(p)
        /\ UNCHANGED <<sent, garbled, open, clientAuth, faults>>

Arrived(q) == IF garbled[q] THEN Noise ELSE net[q]

(* readCompleted(), or the call of receivedBytes() that completes a message *)
ReadCompleted(p) ==
    LET q == Other(p)
        r == ReceivedBytes(p, step[p], impl[p], clientAuth, Arrived(q))
    IN  /\ open[p] /\ Receives(p, step[p]) /\ net[q] # Unset
        /\ impl'    = [impl EXCEPT ![p] = r.h]
        /\ net'     = [net EXCEPT ![q] = Unset]
        /\ garbled' = [garbled EXCEPT ![q] = FALSE]
        /\ IF r.ok THEN NextStep(p) ELSE Fails(p)
        /\ UNCHANGED <<out, sent, open, clientAuth, boxed, faults>>

(* readFailed(): end of file instead of the message.  Damaged bytes of the  *)
(* part that did arrive are gone with it.                                  *)
ReadFailedIgnored(p) ==
    /\ open[p] /\ Receives(p, step[p])
    /\ net[Other(p)] = Unset /\ ~open[Other(p)]
    /\ UNCHANGED vars
ReadFailed(p) ==
    /\ open[p] /\ Receives(p, step[p])
    /\ net[Other(p)] = Unset /\ ~open[Other(p)]
    /\ Fails(p)
    /\ garbled' = [garbled EXCEPT ![Other(p)] = FALSE]
    /\ UNCHANGED <<impl, out, sent, net, open, clientAuth, boxed, faults>>

(* "if not None, the handshake has failed and you should close the socket" *)
Close(p) ==
    /\ open[p] /\ step[p] = Failed
    /\ open' = [open EXCEPT ![p] = FALSE]
    /\ UNCHANGED <<step, error, impl, out, sent, net, garbled, clientAuth,
                   boxed, faults>>

(* A write to a peer that has gone fails; the application gives up.  The   *)
(* Handshake has no call for this: its state stays as it is.               *)
WriteFailed(p) ==
    /\ open[p] /\ ~open[Other(p)] /\ out[p] # Unset /\ ~sent[p]
    /\ open' = [open EXCEPT ![p] = FALSE]
    /\ UNCHANGED <<step, error, impl, out, sent, net, garbled, clientAuth,
                   boxed, faults>>

----------------------------------------------------------------------------
(* The environment.                                                        *)

(* A crash, or a connection timeout; what was under way may be lost. *)
Drop(p) ==
    /\ open[p] /\ faults < MaxFaults
    /\ open' = [open EXCEPT ![p] = FALSE]
    /\ \E n \in {net[p], Unset}, g \in {garbled[p], FALSE} :
            /\ net'     = [net EXCEPT ![p] = n]
            /\ garbled' = [garbled EXCEPT ![p] = g]
    /\ faults' = faults + 1
    /\ UNCHANGED <<step, error, impl, out, sent, clientAuth, boxed>>

Corrupt(p) ==
    /\ faults < MaxFaults
    /\ net[p] # Unset \/ (out[p] # Unset /\ ~sent[p])
    /\ garbled' = [garbled EXCEPT ![p] = TRUE]
    /\ faults'  = faults + 1
    /\ UNCHANGED <<step, error, impl, out, sent, net, open, clientAuth, boxed>>

Over(p) == step[p] = Finished \/ ~open[p]

(* Nothing is left to do: the sessions, if any, take over. *)
Done == (\A p \in Peers : Over(p)) /\ UNCHANGED vars

----------------------------------------------------------------------------
Own(p) ==
    \/ BytesToSend(p) \/ Write(p) \/ SendCompleted(p) \/ CopyBytesToSend(p)
    \/ ReadCompleted(p) \/ ReadFailed(p) \/ Close(p) \/ WriteFailed(p)

Next == Done \/ \E p \in Peers : Own(p) \/ Drop(p) \/ Corrupt(p)

Spec == Init /\ [][Next]_vars

(* Each application keeps calling until its handshake is over; nothing     *)
(* obliges a fault to happen.                                              *)
FairSpec == Spec /\ \A p \in Peers : WF_vars(Own(p))

----------------------------------------------------------------------------
(* Each variable has its type. *)
TypeOK ==
    /\ step \in [Peers -> Steps]
    /\ error \in [Peers -> Errors]
    /\ impl \in [Peers -> Objects(Client) \cup Objects(Server)]
    /\ \A p \in Peers : impl[p] \in Objects(p)
    /\ out \in [Peers -> Messages \cup {Unset}]
    /\ sent \in [Peers -> BOOLEAN]
    /\ net \in [Peers -> Messages \cup {Unset}]
    /\ garbled \in [Peers -> BOOLEAN]
    /\ open \in [Peers -> BOOLEAN]
    /\ clientAuth \in {Unset} \cup SUBSET Keys
    /\ boxed \subseteq Auths \cup Acks
    /\ faults \in 0 .. MaxFaults

----------------------------------------------------------------------------
(* Properties.                                                             *)

SameApp     == impl[Client].K = impl[Server].K
RightServer == impl[Client].Yp = impl[Server].X
Welcome     == clientAuth = Unset \/ impl[Client].X \in clientAuth

(* Two sessions fit: what one encrypts with, the other decrypts with, and  *)
(* the two directions never share both key and nonce.                      *)
Fit(s, t) ==
    /\ s.encryptionKey = t.decryptionKey /\ s.encryptionNonce = t.decryptionNonce
    /\ s.decryptionKey = t.encryptionKey /\ s.decryptionNonce = t.encryptionNonce
    /\ <<s.encryptionKey, s.encryptionNonce>> # <<s.decryptionKey, s.decryptionNonce>>

(* Agreement.  When the client's handshake finishes, whatever was damaged  *)
(* or dropped on the way, the server has its ack under way or done, both   *)
(* run the same application, each holds the other's true key, the server   *)
(* admits the client, and the two sessions of session() fit.               *)
Agreement ==
    step[Client] = Finished =>
        /\ step[Server] = Finished \/ (step[Server] = ServerAck /\ sent[Server])
        /\ SameApp /\ RightServer /\ Welcome
        /\ getOutcome(impl[Client]).peerPublicKey = impl[Server].X
        /\ getOutcome(impl[Server]).peerPublicKey = impl[Client].X
        /\ Fit(getOutcome(impl[Client]), getOutcome(impl[Server]))

(* The server commits (sends the ack, opens a session) only to a client    *)
(* that itself finished proving, to this very server, that it holds the    *)
(* key the server recorded, and that the authorizer admits.                *)
ServerAuthenticatesClient ==
    step[Server] \in {ServerAck, Finished} =>
        /\ SameApp /\ RightServer /\ Welcome
        /\ impl[Server].Yp = impl[Client].X
        /\ impl[Server].H = impl[Client].H
        /\ \/ step[Client] \in {Failed, ServerAck, Finished}
           \/ step[Client] = ClientAuth /\ sent[Client]

(* The error codes of SecretHandshake.hh mean what their comments say, as  *)
(* long as nothing is damaged or dropped: ProtocolError only when the      *)
(* application IDs differ, AuthError only when the client has the wrong    *)
(* server key or the server does not like the client's; also on the side   *)
(* that sees nothing but an end of file.                                   *)
ErrorMeaning ==
    faults = 0 => \A p \in Peers :
        /\ error[p] = ProtocolError => ~SameApp
        /\ error[p] = AuthError => SameApp /\ ~(RightServer /\ Welcome)

(* The peers alternate strictly: a peer that is about to send has had its  *)
(* previous message read, so a reader never finds two messages run         *)
(* together in the stream, and the peers never both wait to receive.       *)
LockStep ==
    /\ \A p \in Peers :
          Sends(p, step[p]) /\ ~sent[p] => net[p] = Unset
    /\ ~\A p \in Peers : open[p] /\ Receives(p, step[p]) /\ net[p] = Unset

(* shs.cc boxes with an all-zero nonce, "only safe because the protocol    *)
(* uses each key only once": no two boxes ever made, by either peer and    *)
(* however often the output is asked for, share a key.                     *)
EachKeyOnce ==
    \A b1, b2 \in boxed : b1[1] = b2[1] => b1 = b2

(* The verdict stands: a peer that failed or finished never moves again,   *)
(* its error is set exactly when it fails, and never overwritten.          *)
VerdictIsFinal ==
    [][\A p \in Peers :
        /\ step[p] \in {Failed, Finished} => step'[p] = step[p]
        /\ error[p] # NoError => error'[p] = error[p]
        /\ (error'[p] # NoError) <=> (step'[p] = Failed)]_vars

(* Every handshake ends, however peers crash and bytes are damaged: no     *)
(* pair of peers waits for each other for ever.                            *)
Termination == <>(\A p \in Peers : Over(p))

(* Two well configured peers and an undisturbed transport: both finish.    *)
HonestSuccess ==
    SameApp /\ RightServer /\ Welcome =>
        <>((\A p \in Peers : step[p] = Finished) \/ faults > 0)
============================================================================
