----------------------------- MODULE CroutonOpen -----------------------------
(***************************************************************************)
(* The crouton adapter while it connects: SecretHandshakeStream::open() on *)
(* both sides of a connection, with SecretHandshake::handshake(), and      *)
(* close(), which an application may call before or while open() runs.     *)
(* What a coroutine does between two AWAITs is one step.                   *)
(***************************************************************************)
EXTENDS AdapterHandshake

VARIABLES
    raw,        \* _stream: "none", "new" or "open"; in down once closed
    delegate,   \* _delegate is set; a server's decides by authorizer
    isOpen,     \* _open
    closers,    \* the application's close(): "no", "awaiting" or "ended"
    told        \* secretHandshakeStreamClosed() has been called

vars == <<driver, raw, delegate, isOpen, result, closers, told>>

Init ==
    /\ DriverInit
    /\ raw \in [Peers -> {"none", "new", "open"}]
    /\ raw[Server] = "open" /\ raw[Client] # "open"
    /\ delegate \in [Peers -> BOOLEAN]
    /\ delegate[Server] <=> authorizer # Unset
    /\ isOpen = [p \in Peers |-> FALSE]
    /\ result = [p \in Peers |-> "pending"]
    /\ closers = [p \in Peers |-> "no"]
    /\ told = [p \in Peers |-> FALSE]

----------------------------------------------------------------------------
(* SecretHandshakeSocket::stream(): the raw stream is made when needed. *)
RawStream(r) == IF r = "none" THEN "new" ELSE r

(* notifyClosed() *)
Told(p) == [told EXCEPT ![p] = @ \/ delegate[p]]

(* open(), and handshake() up to its first AWAIT.  A delegate's authorizer *)
(* can be set on a ServerHandshake only: the cast throws on a client's.  A *)
(* stream below that close() has closed is not open either.                *)
Open(p) ==
    /\ p \notin hung /\ pc[p] = "start" /\ raw' = [raw EXCEPT ![p] = RawStream(@)]
    /\ CASE p = Client /\ delegate[p] ->
              /\ Goes(p, hs[p], "ended")
              /\ result' = [result EXCEPT ![p] = "bad_cast"]
         [] ~(p = Client /\ delegate[p]) /\ (raw'[p] # "open" \/ p \in down) ->
              Goes(p, hs[p], "opening") /\ UNCHANGED result
         [] OTHER -> Suspends(p, hs[p]) /\ UNCHANGED result
    /\ UNCHANGED <<net, down, hung, authorizer, faults, delegate, isOpen, closers, told>>

RawOpens(p) ==
    /\ p \notin hung \cup down /\ pc[p] = "opening"
    /\ raw' = [raw EXCEPT ![p] = "open"]
    /\ Suspends(p, hs[p])
    /\ UNCHANGED <<net, down, hung, authorizer, faults, delegate, isOpen, result, closers,
                   told>>

(* The handshake has failed, with object h and error e: open() awaits      *)
(* _stream->close().                                                       *)
Fails(p, h, e) ==
    /\ Goes(p, h, "closing")
    /\ result' = [result EXCEPT ![p] = e]
    /\ down' = down \cup {p}
    /\ UNCHANGED isOpen

(* The authorizer that open() registers is the server's delegate. *)
NoAuthorizer == Unset
DelegateAuthorizer == authorizer

(* The loop in handshake() is over. *)
LoopOverIfFinished(h) == h.step = Finished
LoopOver(h) == h.step \in {Finished, Failed}

(* A write or read has ended well: the loop goes on, or open() does. *)
Resume(p) ==
    LET h == Reported(p, DelegateAuthorizer)
    IN  /\ p \notin hung /\ pc[p] \in {"written", "read"}
        /\ CASE ~LoopOver(h) -> Suspends(p, h) /\ UNCHANGED <<down, isOpen, result>>
             [] LoopOver(h) /\ h.step = Failed -> Fails(p, h, h.error)
             [] LoopOver(h) /\ h.step = Finished ->
                  /\ Goes(p, h, "ended")
                  /\ isOpen' = [isOpen EXCEPT ![p] = TRUE]
                  /\ result' = [result EXCEPT ![p] = "ok"]
                  /\ UNCHANGED down
        /\ UNCHANGED <<net, hung, authorizer, faults, raw, delegate, closers, told>>

(* A read ends short: readFailed(). *)
ShortReadEarly(p) ==
    /\ p \notin hung /\ pc[p] = "reading" /\ (Cut(p) \/ net[Other(p)] = Unset)
    /\ Fails(p, FailedAt(hs[p]), FailedAt(hs[p]).error)
    /\ UNCHANGED <<net, hung, authorizer, faults, raw, delegate, closers, told>>
ShortRead(p) ==
    /\ p \notin hung /\ pc[p] = "reading" /\ Cut(p)
    /\ Fails(p, FailedAt(hs[p]), FailedAt(hs[p]).error)
    /\ UNCHANGED <<net, hung, authorizer, faults, raw, delegate, closers, told>>

(* The stream below raises an error, which ends handshake() as it is: at   *)
(* end of connection, or when it cannot connect.                           *)
Raises(p) ==
    /\ p \notin hung
    /\ \/ Cut(p) /\ UNCHANGED faults
       \/ pc[p] = "opening" /\ p \in down /\ UNCHANGED faults
       \/ pc[p] = "opening" /\ faults < MaxFaults /\ faults' = faults + 1
    /\ Fails(p, hs[p], "IOError")
    /\ UNCHANGED <<net, hung, authorizer, raw, delegate, closers, told>>

(* The AWAIT of _stream->close() in open() ends: the delegate is told; or  *)
(* it raises, which ends open() at once, with that error.                  *)
OpenFailedUntold(p) ==
    /\ p \notin hung /\ pc[p] = "closing"
    /\ pc' = [pc EXCEPT ![p] = "ended"]
    /\ UNCHANGED <<hs, buf, net, down, hung, authorizer, faults, raw, delegate, isOpen,
                   result, closers, told>>
OpenFailed(p) ==
    /\ p \notin hung /\ pc[p] = "closing"
    /\ pc' = [pc EXCEPT ![p] = "ended"]
    /\ \/ told' = Told(p) /\ UNCHANGED <<result, faults>>
       \/ /\ faults < MaxFaults /\ faults' = faults + 1
          /\ result' = [result EXCEPT ![p] = "CloseError"] /\ UNCHANGED told
    /\ UNCHANGED <<hs, buf, net, down, hung, authorizer, raw, delegate, isOpen, closers>>

(* close(), which does nothing while there is no stream below; a stream    *)
(* below that nobody has opened has nothing to close and may be opened     *)
(* after all.  And what follows its AWAIT, however that ends (NoThrow).    *)
Close(p) ==
    /\ p \notin hung /\ closers[p] = "no"
    /\ \/ /\ raw[p] = "none" /\ UNCHANGED down
          /\ closers' = [closers EXCEPT ![p] = "ended"]
       \/ /\ raw[p] # "none"
          /\ \/ down' = down \cup {p}
             \/ raw[p] = "new" /\ pc[p] = "start" /\ UNCHANGED down
          /\ closers' = [closers EXCEPT ![p] = "awaiting"]
    /\ isOpen' = [isOpen EXCEPT ![p] = FALSE]
    /\ UNCHANGED <<hs, pc, buf, net, hung, authorizer, faults, raw, delegate, result, told>>

CloseEndsIfOpen(p) ==
    /\ p \notin hung /\ closers[p] = "awaiting"
    /\ closers' = [closers EXCEPT ![p] = "ended"]
    /\ told' = IF isOpen[p] THEN Told(p) ELSE told
    /\ UNCHANGED <<driver, raw, delegate, isOpen, result>>
CloseEnds(p) ==
    /\ p \notin hung /\ closers[p] = "awaiting"
    /\ closers' = [closers EXCEPT ![p] = "ended"]
    /\ told' = Told(p)
    /\ UNCHANGED <<driver, raw, delegate, isOpen, result>>

----------------------------------------------------------------------------
(* p does nothing any more: it hangs, or open() threw before it connected. *)
Mute(p) == p \in hung \ down \/ (result[p] = "bad_cast" /\ p \notin down)
Over(p) == pc[p] = "ended" \/ p \in hung \/ (pc[p] = "reading" /\ Mute(Other(p)))
Done == (\A p \in Peers : Over(p)) /\ UNCHANGED vars

Own(p) == Open(p) \/ RawOpens(p) \/ Resume(p) \/ ShortRead(p) \/ OpenFailed(p)
Below(p) == Transport(p) /\ UNCHANGED <<raw, delegate, isOpen, result, closers, told>>

Next ==
    \/ Done
    \/ \E p \in Peers :
          \/ Own(p) \/ Raises(p) \/ Close(p) \/ CloseEnds(p) \/ Below(p)
          \/ Faults(p) /\ UNCHANGED <<raw, delegate, isOpen, result, closers, told>>

Spec == Init /\ [][Next]_vars

(* Coroutines that can be resumed are, and the stream below goes on; no    *)
(* application is obliged to close().                                      *)
Fairness ==
    \A p \in Peers :
        WF_vars(Own(p) \/ Raises(p)) /\ WF_vars(CloseEnds(p)) /\ WF_vars(Below(p))

FairSpec == Spec /\ Fairness

----------------------------------------------------------------------------
(* Properties.                                                             *)

Undisturbed == faults = 0 /\ \A p \in Peers : closers[p] = "no"

(* open() succeeds, on either side, only between a client and the server   *)
(* it meant, with the client admitted by the server's delegate, and the    *)
(* two sessions fit: unlike the Cap'n Proto adapter, a client whose open() *)
(* has succeeded is welcome.                                               *)
OpenMeansAdmitted ==
    /\ \A p \in Peers : result[p] = "ok" =>
          SameApp /\ RightServer /\ Welcome /\ hs[Server].impl.Yp = hs[Client].impl.X
    /\ (\A p \in Peers : result[p] = "ok") =>
          Fit(getOutcome(hs[Client].impl), getOutcome(hs[Server].impl))

Failures == {ProtocolError, AuthError, "IOError", "CloseError"}

(* An open() that fails once it has begun, for whatever reason, has closed *)
(* the stream below and the stream is not open; and it has told the        *)
(* delegate, unless what it reports is the error of that very close().     *)
FailedOpenIsTidy ==
    \A p \in Peers : pc[p] = "ended" /\ result[p] \in Failures =>
        /\ p \in down /\ ~isOpen[p]
        /\ delegate[p] => told[p] \/ result[p] = "CloseError"

(* The errors open() reports mean what SecretHandshakeError says: bad      *)
(* data, or a key that was refused; also when the refusal is seen only as  *)
(* a short read.                                                           *)
ErrorMeaning ==
    Undisturbed => \A p \in Peers :
        /\ result[p] = ProtocolError => ~SameApp
        /\ result[p] = AuthError => SameApp /\ ~(RightServer /\ Welcome)

(* open() of two well configured streams over an undisturbed connection    *)
(* does not fail; a client must have no delegate, though.                  *)
OpenSucceeds ==
    Undisturbed /\ SameApp /\ RightServer /\ Welcome /\ ~delegate[Client] =>
        \A p \in Peers : result[p] \in {"pending", "ok"}

(* Every open() ends, whatever close() calls interfere, unless the other   *)
(* side says nothing with its connection open; there is no timeout.        *)
OpenEnds == \A p \in Peers : <>(Over(p))

(* Whichever of open() and close() closes the stream below, and in which   *)
(* order they do, the delegate is told in the end.  The one exception is a *)
(* _stream->close() that raises inside open(), with no close() going on.   *)
DelegateIsTold ==
    \A p \in Peers :
        delegate[p] /\ (p \in down \/ closers[p] = "awaiting") ~>
            \/ told[p] \/ p \in hung
            \/ result[p] = "CloseError" /\ closers[p] # "awaiting"
============================================================================
