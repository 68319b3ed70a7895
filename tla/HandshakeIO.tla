---------------------------- MODULE HandshakeIO -----------------------------
(***************************************************************************)
(* Class Handshake with its two buffers: messages leave and arrive a few   *)
(* bytes at a time, through either of the interfaces SecretHandshake.hh    *)
(* offers.  A peer of style "whole" uses bytesToSend/sendCompleted and     *)
(* bytesToRead/readCompleted, one of style "chunked" uses copyBytesToSend  *)
(* and receivedBytes.  A peer that has finished sends session data on the  *)
(* same connection, right behind the last message of the handshake.        *)
(***************************************************************************)
EXTENDS HandshakeTerms, Sequences

CONSTANTS ChallengeSize, AuthSize, AckSize,   \* bytes of each message
          MaxData,      \* session bytes a finished peer sends
          MaxFaults     \* damaged bytes and dropped peers, together

ASSUME SizesAssumption ==
    {ChallengeSize, AuthSize, AckSize} \subseteq Nat \ {0}
ASSUME MaxFaultsAssumption == MaxFaults \in Nat

VARIABLES
    step, error, impl, open, clientAuth, boxed, faults, \* as in Handshake
    style,      \* the interface each peer's application uses
    inBuf,      \* Handshake::_inputBuffer: the bytes received so far
    asked,      \* bytesToRead() has grown _inputBuffer to its full size
    outBuf,     \* Handshake::_outputBuffer
    written,    \* bytes of outBuf the application has written ("whole")
    wire,       \* bytes each peer sent that the other has not taken
    data        \* session bytes each peer has sent

vars == <<step, error, impl, open, clientAuth, boxed, faults, style, inBuf,
          asked, outBuf, written, wire, data>>

MessageSize(s) == CASE s \in {ClientChallenge, ServerChallenge} -> ChallengeSize
                    [] s = ClientAuth -> AuthSize
                    [] s = ServerAck -> AckSize

(* A byte knows the message it is part of and how many of it follow.       *)
Bytes(msg, n) == [i \in 1 .. n |-> [msg |-> msg, left |-> n - i, good |-> TRUE]]
DataByte(k) == [msg |-> Unset, left |-> k, good |-> TRUE]

(* The message a full buffer holds; Noise unless it is exactly one message *)
Message(buf) ==
    IF buf = Bytes(buf[1].msg, Len(buf)) THEN buf[1].msg ELSE Noise

Init ==
    /\ step  = [p \in Peers |-> ClientChallenge]
    /\ error = [p \in Peers |-> NoError]
    /\ \E c \in ClientHandshakes, s \in ServerHandshakes :
            impl = [p \in Peers |-> IF p = Client THEN c ELSE s]
    /\ open = [p \in Peers |-> TRUE]
    /\ clientAuth \in {Unset} \cup SUBSET Keys
    /\ boxed = {}
    /\ faults = 0
    /\ style \in [Peers -> {"whole", "chunked"}]
    /\ inBuf   = [p \in Peers |-> <<>>]
    /\ asked   = [p \in Peers |-> FALSE]
    /\ outBuf  = [p \in Peers |-> <<>>]
    /\ written = [p \in Peers |-> 0]
    /\ wire    = [p \in Peers |-> <<>>]
    /\ data    = [p \in Peers |-> 0]

----------------------------------------------------------------------------
NextStep(p) == /\ step' = [step EXCEPT ![p] = @ + 1]
               /\ error' = error

Fails(p) == /\ error' = [error EXCEPT ![p] = FailureError(step[p])]
            /\ step' = [step EXCEPT ![p] = Failed]

byteCountNeeded(p) == IF Receives(p, step[p]) THEN MessageSize(step[p]) ELSE 0

(* The body of readCompleted() for a buffer of the size needed: a step     *)
(* that receives nothing falls to the default of _receivedBytes(), false.  *)
(* The input buffer is cleared on success only.                            *)
ConsumeKeepsInput(p, buf) ==
    LET r == ReceivedBytes(p, step[p], impl[p], clientAuth, Message(buf))
    IN  /\ impl' = [impl EXCEPT ![p] = r.h]
        /\ IF r.ok THEN NextStep(p) ELSE Fails(p)
        /\ inBuf' = [inBuf EXCEPT ![p] = buf]
Consume(p, buf) ==
    LET r == IF Receives(p, step[p])
             THEN ReceivedBytes(p, step[p], impl[p], clientAuth, Message(buf))
             ELSE [ok |-> FALSE, h |-> impl[p]]
    IN  /\ impl' = [impl EXCEPT ![p] = r.h]
        /\ IF r.ok THEN NextStep(p) ELSE Fails(p)
        /\ inBuf' = [inBuf EXCEPT ![p] = IF r.ok THEN <<>> ELSE buf]

(* bytesToRead() on the way to a read; repeated it changes nothing. *)
BytesToRead(p) ==
    /\ open[p] /\ style[p] = "whole" /\ byteCountNeeded(p) > 0 /\ ~asked[p]
    /\ asked' = [asked EXCEPT ![p] = TRUE]
    /\ UNCHANGED <<step, error, impl, open, clientAuth, boxed, faults, style,
                   inBuf, outBuf, written, wire, data>>

(* The transport puts a byte into the buffer bytesToRead() returned. *)
Fill(p) ==
    LET q == Other(p)
    IN  /\ open[p] /\ asked[p] /\ Len(inBuf[p]) < byteCountNeeded(p)
        /\ wire[q] # <<>>
        /\ inBuf' = [inBuf EXCEPT ![p] = Append(@, Head(wire[q]))]
        /\ wire'  = [wire EXCEPT ![q] = Tail(@)]
        /\ UNCHANGED <<step, error, impl, open, clientAuth, boxed, faults,
                       style, asked, outBuf, written, data>>

ReadCompleted(p) ==
    /\ open[p] /\ asked[p]
    /\ Receives(p, step[p]) /\ Len(inBuf[p]) = byteCountNeeded(p)
    /\ Consume(p, inBuf[p])
    /\ asked' = [asked EXCEPT ![p] = FALSE]
    /\ UNCHANGED <<open, clientAuth, boxed, faults, style, outBuf, written,
                   wire, data>>

(* receivedBytes(src, n) with the first n bytes that have come in: it      *)
(* takes no more than the message still lacks.                             *)
TakeCountAll(p, n) == n
TakeCountOffByOne(p, n) ==
    LET lacking == byteCountNeeded(p) - 1 - Len(inBuf[p])
    IN  IF n < lacking THEN n ELSE lacking
TakeCount(p, n) ==
    LET lacking == byteCountNeeded(p) - Len(inBuf[p])
    IN  IF n < lacking THEN n ELSE lacking

receivedBytes(p, n) ==
    LET q == Other(p)
        count == TakeCount(p, n)
        buf == inBuf[p] \o SubSeq(wire[q], 1, count)
    IN  /\ open[p] /\ style[p] = "chunked" /\ byteCountNeeded(p) > 0
        /\ wire' = [wire EXCEPT ![q] = SubSeq(@, count + 1, Len(@))]
        /\ IF Len(buf) < byteCountNeeded(p)
           THEN /\ inBuf' = [inBuf EXCEPT ![p] = buf]
                /\ UNCHANGED <<step, error, impl>>
           ELSE Consume(p, buf)
        /\ UNCHANGED <<open, clientAuth, boxed, faults, style, asked, outBuf,
                       written, data>>

(* readFailed(), at the end of what a closed peer had sent *)
ReadFailed(p) ==
    LET q == Other(p)
    IN  /\ open[p] /\ ~open[q] /\ wire[q] = <<>>
        /\ Len(inBuf[p]) < byteCountNeeded(p)
        /\ Fails(p)
        /\ UNCHANGED <<impl, open, clientAuth, boxed, faults, style, inBuf,
                       asked, outBuf, written, wire, data>>

----------------------------------------------------------------------------
Boxes(s, msg) == IF s \in {ClientAuth, ServerAck} THEN {msg} ELSE {}

(* bytesToSend() fills an empty buffer. *)
FillOutput(p) == FillOutputBuffer(p, step[p], impl[p])

BytesToSend(p) ==
    /\ open[p] /\ style[p] = "whole" /\ outBuf[p] = <<>> /\ Sends(p, step[p])
    /\ outBuf' = [outBuf EXCEPT ![p] = Bytes(FillOutput(p).msg, MessageSize(step[p]))]
    /\ impl'   = [impl EXCEPT ![p] = FillOutput(p).h]
    /\ boxed'  = boxed \cup Boxes(step[p], FillOutput(p).msg)
    /\ UNCHANGED <<step, error, open, clientAuth, faults, style, inBuf, asked,
                   written, wire, data>>

(* The application writes the next byte of that buffer ... *)
Write(p) ==
    /\ open[p] /\ style[p] = "whole" /\ written[p] < Len(outBuf[p])
    /\ wire'    = [wire EXCEPT ![p] = Append(@, outBuf[p][written[p] + 1])]
    /\ written' = [written EXCEPT ![p] = @ + 1]
    /\ UNCHANGED <<step, error, impl, open, clientAuth, boxed, faults, style,
                   inBuf, asked, outBuf, data>>

(* ... and reports the last one. *)
SendCompleted(p) ==
    /\ open[p] /\ style[p] = "whole"
    /\ outBuf[p] # <<>> /\ written[p] = Len(outBuf[p])
    /\ outBuf'  = [outBuf EXCEPT ![p] = <<>>]
    /\ written' = [written EXCEPT ![p] = 0]
    /\ NextStep(p)
    /\ UNCHANGED <<impl, open, clientAuth, boxed, faults, style, inBuf, asked,
                   wire, data>>

(* copyBytesToSend(dst, n), with a buffer it fills when empty; what it     *)
(* copied is on its way to the peer.                                       *)
PendingOutputRefilled(p) == Bytes(FillOutput(p).msg, MessageSize(step[p]))
PendingOutput(p) ==
    IF outBuf[p] = <<>> THEN Bytes(FillOutput(p).msg, MessageSize(step[p]))
    ELSE outBuf[p]

CopyBytesToSend(p, n) ==
    LET buf == PendingOutput(p)
        count == IF n < Len(buf) THEN n ELSE Len(buf)
        fresh == outBuf[p] = <<>>
    IN  /\ open[p] /\ style[p] = "chunked" /\ Sends(p, step[p])
        /\ impl'   = [impl EXCEPT ![p] = IF fresh THEN FillOutput(p).h ELSE @]
        /\ boxed'  = boxed \cup Boxes(step[p], buf[1].msg)
        /\ wire'   = [wire EXCEPT ![p] = @ \o SubSeq(buf, 1, count)]
        /\ outBuf' = [outBuf EXCEPT ![p] = SubSeq(buf, count + 1, Len(buf))]
        /\ IF count = Len(buf) THEN NextStep(p) ELSE UNCHANGED <<step, error>>
        /\ UNCHANGED <<open, clientAuth, faults, style, inBuf, asked, written,
                       data>>

----------------------------------------------------------------------------
(* The rest of the application, and the environment.                       *)

SendData(p) ==
    /\ open[p] /\ step[p] = Finished /\ data[p] < MaxData
    /\ data' = [data EXCEPT ![p] = @ + 1]
    /\ wire' = [wire EXCEPT ![p] = Append(@, DataByte(data[p] + 1))]
    /\ UNCHANGED <<step, error, impl, open, clientAuth, boxed, faults, style,
                   inBuf, asked, outBuf, written>>

Close(p) ==
    /\ open[p]
    /\ \/ step[p] = Failed
       \/ ~open[Other(p)] /\ written[p] < Len(outBuf[p])   \* a failed write
    /\ open' = [open EXCEPT ![p] = FALSE]
    /\ UNCHANGED <<step, error, impl, clientAuth, boxed, faults, style, inBuf,
                   asked, outBuf, written, wire, data>>

(* A crash or timeout; the bytes on the way are lost from some point on. *)
Drop(p) ==
    /\ open[p] /\ faults < MaxFaults
    /\ open'   = [open EXCEPT ![p] = FALSE]
    /\ faults' = faults + 1
    /\ \E n \in 0 .. Len(wire[p]) : wire' = [wire EXCEPT ![p] = SubSeq(@, 1, n)]
    /\ UNCHANGED <<step, error, impl, clientAuth, boxed, style, inBuf, asked,
                   outBuf, written, data>>

(* One byte of the message on the way is damaged. *)
Corrupt(p) ==
    /\ open[p] /\ faults < MaxFaults
    /\ \E i \in DOMAIN wire[p] :
          /\ wire[p][i].msg # Unset /\ wire[p][i].good
          /\ wire' = [wire EXCEPT ![p][i].good = FALSE]
    /\ faults' = faults + 1
    /\ UNCHANGED <<step, error, impl, open, clientAuth, boxed, style, inBuf,
                   asked, outBuf, written, data>>

Over(p) == ~open[p] \/ (step[p] = Finished /\ data[p] = MaxData)
Done == (\A p \in Peers : Over(p)) /\ UNCHANGED vars

----------------------------------------------------------------------------
Own(p) ==
    \/ BytesToRead(p) \/ Fill(p) \/ ReadCompleted(p)
    \/ \E n \in 1 .. Len(wire[Other(p)]) : receivedBytes(p, n)
    \/ ReadFailed(p) \/ BytesToSend(p) \/ Write(p) \/ SendCompleted(p)
    \/ \E n \in 0 .. AuthSize : CopyBytesToSend(p, n)
    \/ SendData(p) \/ Close(p)

Next == Done \/ \E p \in Peers : Own(p) \/ Drop(p) \/ Corrupt(p)

Spec == Init /\ [][Next]_vars

FairSpec == Spec /\ \A p \in Peers : WF_vars(Own(p))

----------------------------------------------------------------------------
(* The refinement: a message is in the output buffer until its last byte   *)
(* has left it, and on the net from then until the reader's buffer, still  *)
(* waiting for a verdict, is consumed.                                     *)

InFlight(p) ==
    LET q == Other(p) IN (IF step[q] = Failed THEN <<>> ELSE inBuf[q]) \o wire[p]
OnNet(p) == {b \in {InFlight(p)[i] : i \in DOMAIN InFlight(p)} : b.msg # Unset}

outMsg == [p \in Peers |-> IF outBuf[p] = <<>> THEN Unset ELSE outBuf[p][1].msg]
isSent == [p \in Peers |-> outBuf[p] # <<>> /\ written[p] = Len(outBuf[p])]
netMsg == [p \in Peers |-> IF \E b \in OnNet(p) : b.left = 0
                           THEN (CHOOSE b \in OnNet(p) : b.left = 0).msg
                           ELSE Unset]
isGarbled == [p \in Peers |-> \E b \in OnNet(p) : ~b.good]

Msgs == INSTANCE Handshake WITH
    out <- outMsg, sent <- isSent, net <- netMsg, garbled <- isGarbled

(* Cut into bytes in any way and through either interface, the handshake   *)
(* takes the steps of the message-level specification and no others.       *)
ImplementsMessages == Msgs!Spec

(* The handshake takes exactly its own bytes off the connection: session   *)
(* bytes sent right behind the ack are all left, in order, for the         *)
(* SecretStream that follows, and a finished peer has left no byte of the  *)
(* handshake in front of them.                                             *)
StreamIntact ==
    \A p \in Peers :
        /\ \A i \in DOMAIN inBuf[p] : inBuf[p][i].msg # Unset
        /\ step[p] = Finished =>
              LET w == wire[Other(p)]
              IN  /\ w = [i \in DOMAIN w |-> DataByte(i)]
                  /\ open[Other(p)] => Len(w) = data[Other(p)]

(* The buffers agree with the step: input only while a message is awaited  *)
(* (or was refused), never more of it than its size; output only in a      *)
(* sending step.  So readCompleted and sendCompleted never throw and       *)
(* nextStep's assertion holds.                                             *)
BuffersMatch(p) ==
    /\ step[p] # Failed => Len(inBuf[p]) <= byteCountNeeded(p)
    /\ asked[p] => step[p] = Failed \/ byteCountNeeded(p) > 0
    /\ outBuf[p] # <<>> => Sends(p, step[p])
    /\ written[p] <= Len(outBuf[p])
BuffersMatchStep == \A p \in Peers : BuffersMatch(p)

(* Every byte-wise handshake ends. *)
Termination == <>(\A p \in Peers : Over(p))
============================================================================
