-------------------------- MODULE AdapterHandshake ---------------------------
(***************************************************************************)
(* What the two adapters have in common while they connect: a client and a *)
(* server, each driving its Handshake object over an asynchronous stream.  *)
(* An adapter asks the object what to send or to read, starts that on the  *)
(* stream below and suspends; when the stream is done, it reports to the   *)
(* object and goes on.  How an adapter starts, fails and ends is its own.  *)
(***************************************************************************)
EXTENDS HandshakeSteps

CONSTANT MaxFaults      \* peers that hang, messages damaged, connections broken

VARIABLES
    hs,         \* each peer's _handshake: [step, error, impl]
    pc,         \* where its adapter is suspended
    buf,        \* the message it is writing, or has just read
    net,        \* the message it sent that the other has not read
    down,       \* the peers whose end of the connection is closed
    hung,       \* the peers that do nothing any more
    authorizer, \* the server's callback: the keys it admits, or Unset
    faults,
    result      \* the promise wrap() returned: "pending", "stream" or "failed";
                \* or what open() returns, once pc is "ended"

driver == <<hs, pc, buf, net, down, hung, authorizer, faults>>

DriverInit ==
    /\ \E c \in ClientHandshakes, s \in ServerHandshakes :
          hs = [p \in Peers |-> [step |-> ClientChallenge, error |-> NoError,
                                 impl |-> IF p = Client THEN c ELSE s]]
    /\ pc = [p \in Peers |-> "start"]
    /\ buf = [p \in Peers |-> Unset] /\ net = [p \in Peers |-> Unset]
    /\ down = {} /\ hung = {} /\ faults = 0
    /\ authorizer \in {Unset} \cup SUBSET Keys

----------------------------------------------------------------------------
(* The Handshake object once the stream's success is reported to it:       *)
(* sendCompleted(), or readCompleted() with its authorizer auth.           *)
Stepped(h) == [h EXCEPT !.step = @ + 1]
FailedThenClassified(h) == [h EXCEPT !.step = Failed, !.error = FailureError(Failed)]
FailedAt(h) == [h EXCEPT !.step = Failed, !.error = FailureError(h.step)]

Reported(p, auth) ==
    LET h == hs[p]
        r == ReceivedBytes(p, h.step, h.impl, auth, buf[p])
        h2 == [h EXCEPT !.impl = r.h]
    IN  CASE pc[p] = "written" -> Stepped(h)
          [] pc[p] = "read" -> IF r.ok THEN Stepped(h2) ELSE FailedAt(h2)
          [] OTHER -> h

(* bytesToSend() or bytesToRead(): the adapter goes on with object h until *)
(* it suspends on the stream.                                              *)
Suspends(p, h) ==
    /\ Sends(p, h.step) \/ Receives(p, h.step)
    /\ IF Sends(p, h.step)
       THEN LET f == FillOutputBuffer(p, h.step, h.impl)
            IN  /\ hs' = [hs EXCEPT ![p] = [h EXCEPT !.impl = f.h]]
                /\ buf' = [buf EXCEPT ![p] = f.msg]
                /\ pc' = [pc EXCEPT ![p] = "writing"]
       ELSE /\ hs' = [hs EXCEPT ![p] = h]
            /\ buf' = [buf EXCEPT ![p] = Unset]
            /\ pc' = [pc EXCEPT ![p] = "reading"]

(* The adapter goes on to label l, with object h. *)
Goes(p, h, l) ==
    /\ hs' = [hs EXCEPT ![p] = h] /\ pc' = [pc EXCEPT ![p] = l]
    /\ buf' = [buf EXCEPT ![p] = Unset]

----------------------------------------------------------------------------
(* The stream below.                                                       *)

Transmits(p) ==
    /\ pc[p] = "writing" /\ p \notin down
    /\ net' = [net EXCEPT ![p] = buf[p]]
    /\ pc' = [pc EXCEPT ![p] = "written"]
    /\ UNCHANGED <<hs, buf, down, hung, authorizer, faults>>

Arrives(p) ==
    LET q == Other(p)
    IN  /\ pc[p] = "reading" /\ p \notin down /\ net[q] # Unset
        /\ buf' = [buf EXCEPT ![p] = net[q]]
        /\ net' = [net EXCEPT ![q] = Unset]
        /\ pc' = [pc EXCEPT ![p] = "read"]
        /\ UNCHANGED <<hs, down, hung, authorizer, faults>>

(* The connection has ended for p, which waits for the stream. *)
Cut(p) ==
    \/ pc[p] \in {"writing", "reading"} /\ p \in down
    \/ pc[p] = "writing" /\ Other(p) \in down
    \/ pc[p] = "reading" /\ Other(p) \in down /\ net[Other(p)] = Unset

(* Faults: a peer hangs, with its connection open, or crashes; a message   *)
(* is damaged.                                                             *)
Hangs(p) ==
    /\ faults < MaxFaults /\ p \notin hung
    /\ hung' = hung \cup {p} /\ down' \in {down, down \cup {p}}
    /\ faults' = faults + 1
    /\ UNCHANGED <<hs, pc, buf, net, authorizer>>

Damages(p) ==
    /\ faults < MaxFaults /\ net[p] \notin {Unset, Noise}
    /\ net' = [net EXCEPT ![p] = Noise]
    /\ faults' = faults + 1
    /\ UNCHANGED <<hs, pc, buf, down, hung, authorizer>>

Transport(p) == p \notin hung /\ (Transmits(p) \/ Arrives(p))
Faults(p) == Hangs(p) \/ Damages(p)

----------------------------------------------------------------------------
(* For the properties.                                                     *)

SameApp     == hs[Client].impl.K = hs[Server].impl.K
RightServer == hs[Client].impl.Yp = hs[Server].impl.X
Welcome     == Authorizes(authorizer, hs[Client].impl.X)

(* Each can read what the other encrypts. *)
Fit(s, t) ==
    /\ s.encryptionKey = t.decryptionKey /\ s.encryptionNonce = t.decryptionNonce
    /\ s.decryptionKey = t.encryptionKey /\ s.decryptionNonce = t.encryptionNonce
============================================================================
