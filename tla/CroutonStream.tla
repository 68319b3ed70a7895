---------------------------- MODULE CroutonStream ----------------------------
(***************************************************************************)
(* SecretHandshakeStream once it is open: a stream that is written to and, *)
(* at the other end of the connection, one that is read from.  Crouton     *)
(* runs coroutines on one thread, so what happens between two AWAITs is    *)
(* one step.  The application awaits a write before the next write and a   *)
(* read before the next read; it may close() at any time.                  *)
(***************************************************************************)
EXTENDS AdapterLink

CONSTANTS ReadLimits,   \* arguments maxLen of readNoCopy
          MaxCloses     \* the application's calls of close()

ASSUME ReaderConstants == ReadLimits \subseteq Nat \ {0} /\ MaxCloses \in Nat

VARIABLES
    writerOpen,     \* the writing stream's _open
    lastWriteSize,  \*   and _lastWriteSize
    open,           \* the reading stream's _open
    lastReadSize,   \*   and _lastReadSize
    rawClosed,      \* close() has been called on the reader's stream below
    closing,        \* close() coroutines that await it
    told            \* calls of secretHandshakeStreamClosed()

(* reading is the call that awaits the stream below, or None. *)
readVars == <<open, lastReadSize, reading, result, rawClosed, closing, told>>
vars == <<link, writerOpen, lastWriteSize, readVars>>

None == [op |-> "none", maxLen |-> 0]
Nothing == [kind |-> "none", bytes |-> <<>>]
Returned(kind) == [Nothing EXCEPT !.kind = kind]

Init ==
    /\ LinkInit
    /\ writerOpen = TRUE /\ lastWriteSize = 0
    /\ open = TRUE /\ lastReadSize = 0 /\ reading = None /\ result = Nothing
    /\ rawClosed = FALSE /\ closing = 0 /\ told = 0

----------------------------------------------------------------------------
(* write(): first drop what the previous write() sent. *)
SkippedNothing == enc.out
Skipped == Kept(enc.out, lastWriteSize)

Write(sizes) ==
    LET w == Encrypts([enc EXCEPT !.out = Skipped], sizes)
    IN  /\ writing = Idle /\ (eof => faults > 0)    \* none after closeWrite()
        /\ pushed' = w.pushed /\ pushed' <= MaxBytes
        /\ writerOpen
        /\ EncryptorBecomes(w.e)
        /\ lastWriteSize' = Len(w.e.out)
        /\ writing' = [size |-> Len(w.e.out), sent |-> 0]
        /\ UNCHANGED <<protocol, wire, eof, dec, arrived, got, faults, writerOpen, readVars>>

(* write() on a closed stream: InvalidState. *)
WriteRefused ==
    /\ writing = Idle /\ ~writerOpen /\ lastWriteSize > 0
    /\ enc' = [enc EXCEPT !.out = Skipped]
    /\ lastWriteSize' = 0
    /\ UNCHANGED <<protocol, sealed, pushed, writing, wire, eof, dec, arrived, got,
                   faults, writerOpen, readVars>>

(* The future of the write below is fulfilled, or fails.  Neither changes  *)
(* the stream.                                                             *)
WriteEnds ==
    /\ writing # Idle /\ (writing.sent = writing.size \/ eof)
    /\ writing' = Idle
    /\ UNCHANGED <<protocol, sealed, pushed, enc, wire, eof, dec, arrived, got, faults,
                   writerOpen, lastWriteSize, readVars>>

(* close() of the writing stream; a write in progress will fail. *)
WriterCloses ==
    /\ writerOpen
    /\ writerOpen' = FALSE /\ eof' = TRUE
    /\ UNCHANGED <<protocol, sealed, pushed, enc, writing, wire, dec, arrived, got,
                   faults, lastWriteSize, readVars>>

----------------------------------------------------------------------------
(* close() up to its AWAIT. *)
CloseBegins == open' = FALSE /\ rawClosed' = TRUE /\ closing' = closing + 1

(* What peekNoCopy() or readNoCopy(maxLen) returns of the bytes available, *)
(* and readNoCopy's _lastReadSize.                                         *)
LastReadWhole(op, avail) == IF op.op = "read" THEN Len(avail) ELSE 0
LastRead(op, avail) == IF op.op = "read" THEN Len(Taken(avail, op.maxLen)) ELSE 0
Gives(op, avail) ==
    LET bytes == IF op.op = "read" THEN Taken(avail, op.maxLen) ELSE avail
    IN  /\ result' = [kind |-> op.op, bytes |-> bytes]
        /\ lastReadSize' = LastRead(op, avail)
        /\ got' = IF op.op = "read" THEN got \o bytes ELSE got
        /\ reading' = None

(* A call, up to its first AWAIT of the stream below. *)
Call(op) ==
    LET d == [dec EXCEPT !.out = Kept(@, lastReadSize)]
    IN  /\ reading = None /\ open
        /\ dec' = d
        /\ IF d.out # <<>> THEN Gives(op, d.out)
           ELSE /\ reading' = op /\ lastReadSize' = 0 /\ result' = Nothing
                /\ UNCHANGED got
        /\ UNCHANGED <<protocol, sealed, pushed, enc, writing, wire, eof, arrived, faults,
                       writerOpen, lastWriteSize, open, rawClosed, closing, told>>

CallRefused ==
    /\ reading = None /\ ~open
    /\ result' = Returned("InvalidState")
    /\ UNCHANGED <<link, writerOpen, lastWriteSize, open, lastReadSize, reading,
                   rawClosed, closing, told>>

(* The AWAIT in the loop of peekNoCopy() ends with n bytes ... *)
Fails(error) ==
    /\ CloseBegins
    /\ result' = Returned(error) /\ reading' = None
    /\ UNCHANGED <<lastReadSize, got>>

ReadsBelow(n) ==
    /\ reading # None /\ n <= Len(wire)
    /\ TakesOff(n)
    /\ dec' = Decrypts(n)
    /\ CASE dec'.status = "CorruptData" -> Fails("DataError")
         [] dec'.status # "CorruptData" /\ dec'.out = <<>> ->
                UNCHANGED <<reading, result, lastReadSize, got, open, rawClosed, closing>>
         [] OTHER -> Gives(reading, dec'.out) /\ UNCHANGED <<open, rawClosed, closing>>
    /\ UNCHANGED <<protocol, sealed, pushed, enc, writing, eof, faults, writerOpen,
                   lastWriteSize, told>>

(* ... with none, at the end of the stream or because it was closed here   *)
(* (DecryptionStream::close() decides, and empties the buffer) ...         *)
EndsBelowLeftOpen ==
    /\ reading # None /\ ((eof /\ wire = <<>>) \/ rawClosed)
    /\ dec' = [dec EXCEPT !.in = <<>>]
    /\ result' = Returned(IF dec.in = <<>> THEN "eof" ELSE "DataError") /\ reading' = None
    /\ UNCHANGED <<protocol, sealed, pushed, enc, writing, wire, eof, arrived, got, faults,
                   writerOpen, lastWriteSize, open, lastReadSize, rawClosed, closing, told>>
EndsBelow ==
    /\ reading # None /\ ((eof /\ wire = <<>>) \/ rawClosed)
    /\ dec' = [dec EXCEPT !.in = <<>>]
    /\ IF dec.in # <<>> THEN Fails("DataError")
       ELSE /\ result' = Returned("eof") /\ reading' = None
            /\ UNCHANGED <<lastReadSize, got, open, rawClosed, closing>>
    /\ UNCHANGED <<protocol, sealed, pushed, enc, writing, wire, eof, arrived, faults,
                   writerOpen, lastWriteSize, told>>

(* ... or with an error, which the call passes on. *)
FailsBelow ==
    /\ reading # None /\ rawClosed
    /\ result' = Returned("IOError") /\ reading' = None
    /\ UNCHANGED <<link, writerOpen, lastWriteSize, open, lastReadSize, rawClosed,
                   closing, told>>

(* close() called by the application; and after its AWAIT, whether the     *)
(* stream below closed well or not.                                        *)
Close ==
    /\ told + closing < MaxCloses
    /\ CloseBegins
    /\ UNCHANGED <<link, writerOpen, lastWriteSize, lastReadSize, reading, result, told>>

CloseEnds ==
    /\ closing > 0
    /\ closing' = closing - 1 /\ told' = told + 1
    /\ UNCHANGED <<link, writerOpen, lastWriteSize, open, lastReadSize, reading, result,
                   rawClosed>>

----------------------------------------------------------------------------
Calls ==
    {[op |-> "peek", maxLen |-> 0]} \cup {[op |-> "read", maxLen |-> m] : m \in ReadLimits}

Next ==
    \/ LinkNext /\ UNCHANGED <<writerOpen, lastWriteSize, readVars>>
    \/ \E sizes \in WriteSizes : Write(sizes)
    \/ WriteRefused \/ WriteEnds \/ WriterCloses
    \/ \E op \in Calls : Call(op)
    \/ CallRefused
    \/ \E n \in 1 .. Len(wire) : ReadsBelow(n)
    \/ EndsBelow \/ FailsBelow \/ Close \/ CloseEnds

Spec == Init /\ [][Next]_vars

(* The stream below gets on with what it was asked to do, and the reading  *)
(* application goes on reading.                                            *)
FairSpec ==
    /\ Spec
    /\ WF_vars(Sends(1) /\ UNCHANGED <<writerOpen, lastWriteSize, readVars>>)
    /\ WF_vars(WriteEnds) /\ WF_vars(CloseEnds)
    /\ WF_vars(ReadsBelow(1) \/ EndsBelow)
    /\ WF_vars(\E m \in ReadLimits : Call([op |-> "read", maxLen |-> m]))

----------------------------------------------------------------------------
(* Properties.                                                             *)

Channel == INSTANCE ByteChannel WITH
    written <- pushed, received <- got \o Kept(dec.out, lastReadSize),
    damaged <- faults > 0, corrupt <- dec.status = "CorruptData"

(* write(), readNoCopy() and peekNoCopy() keep the promise of a            *)
(* ByteChannel, though a read leaves the bytes it returns where they are,  *)
(* and though write() drops what it sent only at the next write().         *)
ImplementsChannel == Channel!Spec

(* Reads, of any size and mixed with peeks, give the bytes written, each   *)
(* once and in order; a peek shows the bytes that come next.  And since    *)
(* neither copies, the bytes returned stay where they are, at the front of *)
(* the reader's buffer, until the next call.                               *)
ReadsExact ==
    /\ InOrder
    /\ result.kind = "peek" => result.bytes = [i \in DOMAIN result.bytes |-> Len(got) + i]
    /\ IsPrefix(result.bytes, dec.out)

(* End of file is reported only after everything decrypted has been read,  *)
(* and only between two messages or behind damage that reads as an empty   *)
(* message (as SecretStream!CloseVerdict says of close()); DataError only  *)
(* when a message did arrive damaged or cut off.                           *)
EndVerdict ==
    /\ result.kind = "eof" => /\ Whole(arrived) = Len(arrived) \/ ReadsEmpty(arrived)
                              /\ Len(got) = CleartextSize(arrived)
    /\ result.kind = "DataError" => Whole(arrived) # Len(arrived)

(* A stream that has reported DataError never reports anything but that it *)
(* is closed: no later read takes the cut for a clean end.                 *)
ErrorIsFinal ==
    [][result.kind \in {"DataError", "InvalidState"} =>
            result'.kind \in {"DataError", "InvalidState"}]_vars

(* Everything written is read in the end, unless the connection breaks or  *)
(* one side closes it.                                                     *)
AllRead == <>[](Len(got) = pushed \/ faults > 0 \/ ~open \/ ~writerOpen)
============================================================================
