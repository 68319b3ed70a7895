---------------------------- MODULE WrappedStream ----------------------------
(***************************************************************************)
(* The Cap'n Proto adapter's WrappedStream once it is connected: write()   *)
(* at one end of a connection and tryRead() at the other.  What a kj       *)
(* continuation does is one step.  As kj demands, the application starts   *)
(* no write (read) before the last one has ended.                          *)
(***************************************************************************)
EXTENDS AdapterLink

CONSTANT ReadSizes      \* arguments <<minBytes, maxBytes>> of tryRead

ASSUME ReadSizesAssumption == ReadSizes \subseteq (Nat \ {0}) \X (Nat \ {0})

(* reading holds the arguments of the tryRead() that waits for _inner, or  *)
(* NoRead; result is "none", "data", "short" (0 bytes) or "thrown".        *)
wrappedVars == <<link, reading, result>>

NoRead == <<0, 0>>

WrappedInit == LinkInit /\ reading = NoRead /\ result = "none"

----------------------------------------------------------------------------
(* write() of one buffer or of several pieces, and _endWrite() up to the   *)
(* write below: all that is available.                                     *)
WrappedWrite(sizes) ==
    LET w == Encrypts(enc, sizes)
    IN  /\ writing = Idle /\ (eof => faults > 0)    \* none after shutdownWrite()
        /\ pushed' = w.pushed /\ pushed' <= MaxBytes
        /\ EncryptorBecomes(w.e)
        /\ writing' = [size |-> Len(w.e.out), sent |-> 0]
        /\ UNCHANGED <<protocol, wire, eof, dec, arrived, got, faults, reading, result>>

(* The continuation in _endWrite(). *)
WrittenUnskipped ==
    /\ writing # Idle /\ writing.sent = writing.size
    /\ writing' = Idle
    /\ UNCHANGED <<protocol, sealed, pushed, enc, wire, eof, dec, arrived, got, faults,
                   reading, result>>
Written ==
    /\ writing # Idle /\ writing.sent = writing.size
    /\ enc' = [enc EXCEPT !.out = Kept(@, writing.size)]
    /\ writing' = Idle
    /\ UNCHANGED <<protocol, sealed, pushed, wire, eof, dec, arrived, got, faults,
                   reading, result>>

(* The write below fails: the continuation does not run. *)
WriteFails ==
    /\ writing # Idle /\ eof
    /\ writing' = Idle
    /\ UNCHANGED <<protocol, sealed, pushed, enc, wire, eof, dec, arrived, got, faults,
                   reading, result>>

----------------------------------------------------------------------------
(* tryRead(): pull up to maxBytes if minBytes are there, else read below.  *)
EnoughAndMore(d, args) == Len(d.out) > args[1]
Enough(d, args) == Len(d.out) >= args[1]

(* What pull() leaves. *)
LeftNothing(d, args) == <<>>
Left(d, args) == Kept(d.out, args[2])

PullsOrReads(d, args) ==
    IF Enough(d, args)
    THEN /\ got' = got \o Taken(d.out, args[2])
         /\ dec' = [d EXCEPT !.out = Left(d, args)]
         /\ result' = "data" /\ reading' = NoRead
    ELSE /\ dec' = d /\ reading' = args
         /\ UNCHANGED <<got, result>>

TryRead(args) ==
    /\ reading = NoRead
    /\ PullsOrReads(dec, args)
    /\ UNCHANGED <<protocol, sealed, pushed, enc, writing, wire, eof, arrived, faults>>

(* The continuation of the read below, which got n bytes of ciphertext     *)
(* into the caller's buffer of maxBytes: push them, and tryRead() again.   *)
InnerRead(n) ==
    /\ reading # NoRead /\ n <= Min({Len(wire), reading[2]})
    /\ TakesOff(n)
    /\ \E d \in {Decrypts(n)} :
          IF d.status = "CorruptData"
          THEN /\ dec' = d /\ result' = "thrown" /\ reading' = NoRead
               /\ UNCHANGED got
          ELSE PullsOrReads(d, reading)
    /\ UNCHANGED <<protocol, sealed, pushed, enc, writing, eof, faults>>

(* End of file below: return 0 bytes. *)
InnerEof ==
    /\ reading # NoRead /\ eof /\ wire = <<>>
    /\ result' = "short" /\ reading' = NoRead
    /\ UNCHANGED link

----------------------------------------------------------------------------
WrappedNext ==
    \/ LinkNext /\ UNCHANGED <<reading, result>>
    \/ \E sizes \in WriteSizes : WrappedWrite(sizes)
    \/ Written \/ WriteFails
    \/ \E args \in ReadSizes : TryRead(args)
    \/ \E n \in 1 .. Min({Len(wire), reading[2]}) : InnerRead(n)
    \/ InnerEof

WrappedSpec == WrappedInit /\ [][WrappedNext]_wrappedVars

(* kj's event loop and the stream below go on; the reading application     *)
(* never stops for good, and asks for just one byte again and again.       *)
WrappedFairSpec ==
    /\ WrappedSpec
    /\ WF_wrappedVars(Sends(1) /\ UNCHANGED <<reading, result>>)
    /\ WF_wrappedVars(Written) /\ WF_wrappedVars(WriteFails)
    /\ WF_wrappedVars(InnerRead(1) \/ InnerEof)
    /\ SF_wrappedVars(\E args \in ReadSizes : args[1] = 1 /\ TryRead(args))

----------------------------------------------------------------------------
(* Properties.                                                             *)

WrappedChannel == INSTANCE ByteChannel WITH
    written <- pushed, received <- got \o dec.out,
    damaged <- faults > 0, corrupt <- dec.status = "CorruptData"

(* Whatever minBytes and maxBytes are asked for, and however the           *)
(* ciphertext is cut up by maxBytes, no decrypted byte is lost, repeated   *)
(* or put out of order: what was read and what waits in the decryptor are  *)
(* the whole undamaged messages that have arrived, also after end of file  *)
(* and after an exception.                                                 *)
NothingLost == got \o dec.out = [i \in 1 .. CleartextSize(arrived) |-> i]

(* Only the ciphertext of a write in progress, or of one that failed, is   *)
(* left in the encryptor, so a write sends nothing twice: what has been    *)
(* sent is each message once, in order.                                    *)
SentOnce ==
    LET sent == arrived \o wire
    IN  /\ \A i \in DOMAIN sent :
              sent[i].pos # 1 => i > 1 /\ sent[i].msg = sent[i - 1].msg
                                       /\ sent[i].pos = sent[i - 1].pos + 1
        /\ \A i, j \in DOMAIN sent : sent[i].pos = 1 /\ i < j => sent[i].msg <= sent[j].msg
                                        /\ (sent[j].pos = 1 => sent[i].msg < sent[j].msg)

(* write() and tryRead() keep the promise of a ByteChannel: in particular, *)
(* the exception for corrupt input is thrown for corrupt input only, and   *)
(* nothing is decrypted after it.                                          *)
WrapperIsChannel == WrappedChannel!Spec

(* A read that waits is answered once enough has been written, and         *)
(* everything written is read in the end, unless the connection breaks or  *)
(* a read goes on waiting for more than is ever written.                   *)
WrappedAllRead ==
    <>[](\/ Len(got) = pushed \/ faults > 0
         \/ reading # NoRead /\ Len(got) + reading[1] > pushed)

(* A tryRead() that returns short has reached the end of a stream that was *)
(* closed cleanly; DecryptionStream::close() is what tells: "Call this     *)
(* when the stream from the sender ends".                                  *)
EndIsChecked == result = "short" => dec.in = <<>>
============================================================================
