# A verification project for SecretHandshake

The repository implements the *Secret Handshake* protocol, which sets up a mutually
authenticated, encrypted connection between a client and a server, an encrypted stream for
what follows, and adapters of both to Cap'n Proto and to the Crouton coroutine library. This
directory models it in TLA+, checks the models with TLC on small instances, and proves the
central safety properties with TLAPS for all instances. `PROJECT.json` holds the machine-readable
index: components, runs, mutants, the map from definitions to source lines, findings,
hazards, theorems.

## Inventory

| Component | State | Operations | Talks to | Hard because |
|---|---|---|---|---|
| `impl::handshake` (`shs.cc`) | keys `_K _X _x`; learned `_Yp _yp _ab _aB _Ab _H _serverAckKey` | create/verify challenge, client auth, server ack; `getOutcome` | called by `Handshake` | fields are set one by one, also by a message that is then refused; two sides compute every secret separately; all-zero nonces |
| `Handshake`, `ClientHandshake`, `ServerHandshake` (`SecretHandshake.cc`) | `_step _error _impl _inputBuffer _outputBuffer`, authorizer | `bytesToRead/readCompleted/readFailed` or `receivedBytes`; `bytesToSend/sendCompleted` or `copyBytesToSend`; `session` | the application's socket | two machines that must alternate; partial reads and writes; EOF anywhere; session data behind the last message |
| `EncryptoBox`, `DecryptoBox` (`SecretStream.cc`) | key, nonce, protocol | `encrypt`, `peek`, `decrypt` | used by the streams | nonces must stay in step; two formats, one with an unauthenticated length; sizes at the 64 KB limit |
| `EncryptionStream`, `DecryptionStream` (`SecretStream.cc`) | `_buffer`, `_processedBytes` | `push pushPartial flush`, `pull skip`, `close` | the application's socket | arbitrary cutting of the byte stream; corruption; EOF in a message |
| Cap'n Proto `WrappedStream`, `StreamWrapper` (`SecretConnection.cc`) | handshake, session, both streams, inner stream | `connect`, `tryRead`, `write`, `wrap` with timeout | kj event loop | promises resolving in any order, timeouts, EOF, failed writes |
| `SecretRPCServer`, `SecretRPCClient` (`SecretRPC.cc`) | task set, listener, set-up promise | accept loop, `startConnection`, `getMain` | kj, capnp RPC | accept errors, handshake timeouts, object moves before a promise resolves |
| Crouton `SecretHandshakeStream` (`SecretHandshakeStream.cc`) | raw stream, `_open`, both streams, last sizes | `open close`, `peekNoCopy readNoCopy`, `write` | Crouton scheduler | coroutines suspended in the middle of each operation |
| `RPCContext` (`SecretRPC.cc`) | thread-local pointer, reference count | `getThreadLocal` | kj | one thread only |
| Types, C interface, logging | none of their own | conversions, forwarding | | |

What makes them correct:

* handshake: a side that finishes talks to the peer it believes it talks to, with the same
  application, the same session keys and the authorizer's consent; no key boxes twice; errors
  mean what their comments say; every handshake ends;
* handshake I/O: however bytes are cut up, the same happens, and no byte too many is taken;
* streams: exactly what was pushed is received, or a prefix of whole messages and an error (one kind
  of damage escapes the error, finding 3);
* adapters: what is read is what was written, although reads do not copy and writes send from a
  buffer that stays in use; a peer gets a stream only if it is admitted; ends, cuts and errors are
  told apart; every connection ends as open, failed or timed out, and the application is told;
* RPC: the server goes on accepting (until it meets a client whose name it cannot get, see below) and
  serves each client for the key it proved; a capability asked for early is connected or broken in the end.

## Modules

| Module | Models |
|---|---|
| `ShsCrypto` | `impl::handshake`, one operator per function, over symbolic terms |
| `HandshakeSteps` | what `ClientHandshake` and `ServerHandshake` add to `Handshake`: who sends and receives in which step, `_receivedBytes`, `_fillOutputBuffer`, the enums |
| `Handshake` | one connection attempt at the level of whole messages; its properties |
| `HandshakeTerms`, `HandshakeTermsProofs` | the terms a protocol object can hold, and lemmas: what each function of `ShsCrypto` yields on them |
| `HandshakeInvariant`, `HandshakeProofs` | the inductive invariant of `Handshake`, and proofs |
| `HandshakeIO` | the same attempt byte by byte, with both buffers and both I/O interfaces, and session data behind it; implements `Handshake` |
| `HandshakeIOInvariant`, `HandshakeIOProofs` | the inductive invariant of `HandshakeIO`; proofs, of the refinement above all |
| `CryptoStreams` | `EncryptoBox`, `DecryptoBox`, `EncryptionStream`, `DecryptionStream` as operators on their states, both formats |
| `ByteChannel` | abstract: what every layer over an encrypted stream promises |
| `SecretStream` | one direction of an encrypted connection: the sender's stream, a transport, the receiver's; implements `ByteChannel` |
| `StreamInvariant` | predicates on one direction of an encrypted connection, from which the inductive invariants of the three stream modules are made |
| `CryptoStreamsProofs` | what the loops of `pushPartial` and `push` do to any input, in both formats |
| `SecretStreamProofs` | proofs about `SecretStream` |
| `AdapterHandshake` | what both adapters do while they connect: drive a `Handshake` over an asynchronous stream |
| `CroutonOpen` | `SecretHandshakeStream::open()` and `close()` on both sides; extends `AdapterHandshake` |
| `SecretConnection` | Cap'n Proto `StreamWrapper::wrap()` on both sides; extends `AdapterHandshake` |
| `AdapterInvariant`, `AdapterProofs` | the invariant both adapters share while they connect; proofs about `SecretConnection` and `CroutonOpen` |
| `AdapterLink` | what both adapters have once connected: two crypto streams and a stream below that sends from the sender's buffer |
| `CroutonStream` | `write`, `peekNoCopy`, `readNoCopy`, `close`, `closeWrite`; extends `AdapterLink`; implements `ByteChannel` |
| `WrappedStream` | Cap'n Proto `write`, `tryRead`; extends `AdapterLink`; implements `ByteChannel` |
| `LinkProofs` | proofs about `WrappedStream` and `CroutonStream` |
| `SecretRPCServer`, `SecretRPCClient` | the RPC server and the RPC client |
| `SecretRPCProofs` | proofs about both |
| `MC...` | instances for TLC |

A proof module with two specifications extends both, side by side; nothing is composed there. That is
why `SecretConnection`, `WrappedStream` and `SecretRPCClient` have prefixes on such names as `WrapInit`,
`WrappedSpec` and `ClientNext`.

An operator whose name says a mistake (`...OwnKey`, `...Again`, `...SkippingCorrupt`) is a
plausible bug in the definition that follows it. No specification uses it; `PROJECT.json`
("mutants") says which property catches it.

### ShsCrypto

A key is a name and its public key has the same name; a primitive is a tagged tuple, so two
terms are equal only if they were built in the same way (ideal cryptography). `DH(a, b)` is the
set `{a, b}`: that both sides compute the same secret is the one algebraic law the protocol
needs. An object is a record with the fields of `shs.hh` (`_hashab`, always set together with
`_ab`, is the operator `hashab`). A function of the class maps the object to the result and the
object afterwards, with the assignments it makes before it fails: `verifyClientAuth` has set
`_aB`, `_H`, `_Yp` and `_Ab` when the signature turns out to be wrong, `verifyServerAck` has set
`_serverAckKey`. Noise is what a message becomes when one of its bytes is damaged.

### Handshake

`step`, `error`, `impl` and `out` are the members of the two objects; `out[p]` is a message or
`Unset`. `net[p]` is the message on its way from `p`, `garbled[p]` that a byte of it is damaged.
`clientAuth` is the server's authorizer, a set of keys, or `Unset` if none was registered. `Init`
takes every configuration: both application IDs, both key pairs, and whatever key the client
believes the server has.

| Action | Code |
|---|---|
| `BytesToSend` | `bytesToSend()` on an empty buffer |
| `Write`, `SendCompleted` | the application writes the buffer, and later calls `sendCompleted()`; the answer may come in between |
| `CopyBytesToSend` | `copyBytesToSend()`: the step is taken before the application writes |
| `ReadCompleted` | `readCompleted()`, with `_receivedBytes`, `nextStep` or `failed` |
| `ReadFailed` | `readFailed()` at end of file |
| `Close`, `WriteFailed` | the application closes after a failure, or when a write fails |
| `Drop`, `Corrupt` | crash or timeout (what is under way may be lost); damage |

### HandshakeIO

A byte is `[msg, left, good]`: its message, how many bytes of the message follow, and whether it
is undamaged. A full buffer is a message only if it holds exactly the bytes of one, in order.
Messages have 2, 3 and 2 bytes in the run instead of 64, 112 and 80: enough for a first, a middle
and a last byte, and for sizes that differ. `style` is the interface an application uses. A
finished peer sends `MaxData` session bytes on the same wire.

`ImplementsMessages` is the refinement. A message is in `out` until its last byte has left the
buffer and on `net` from then on until the reader's buffer is consumed; `sent` is that all of it
is written but `sendCompleted` is still to come.

### SecretStream

Cleartext bytes are 1, 2, 3, ..., so any loss, repetition or reordering shows. A ciphertext byte
knows its message and place; the length bytes of a Compact message carry real digits, in base
`Base`, so that a damaged length has the consequences it has in the code, including claims longer
than what follows (all this in `CryptoStreams`, which the adapters' modules share). The other bytes
have the values `Cipher` gives them, any at all, for behind a damaged length they may be read as one:
`unbox()` is judged by the size of its result alone, so `decrypt()` drops a message whose length reads 0
whether it opens or not, and reads on at the wrong place (`Unboxed`, `Refuses`). A BoxStream message is locked with one nonce and its header boxed with the
next, and both sides count nonces the way the code does. The loops of `pushPartial` and
`DecryptionStream::push` are recursive functions from the number of turns to the state after them
(`Fillings`, `Openings`); a turn that finds nothing to do changes nothing, so a number of turns that is
enough stands for the loop's own end.

`ByteChannel` knows nothing of messages, buffers and cuts: bytes written, bytes received, damage,
and the news of corruption. The received bytes grow only to longer prefixes of those written,
corruption is reported only after damage, and after it nothing more is received. The three stream
modules implement it with the same mapping, but for what counts as received: what was read and
what is decrypted and waits, in `CroutonStream` without the bytes that are read already but
skipped only by the next call.

### The adapters while they connect

A coroutine (Crouton) or continuation (kj) runs without interruption up to its next `AWAIT` or
promise, so that is one action, and everything else interleaves there. `pc[p]` is where peer `p` is
suspended: at a write or read of the stream below, or behind it, ready to be resumed. `Reported` is the
`Handshake` object after `sendCompleted()` or `readCompleted()`, `Suspends` what it is asked next.
The objects themselves are those of `HandshakeSteps` and `ShsCrypto`.

| Action | Code |
|---|---|
| `CroutonOpen`: `Open`, `RawOpens`, `Resume` | `open()`, and the loop of `SecretHandshake::handshake()` |
| `ShortRead`, `Raises` | a read that ends short (`readFailed()`), an error of the stream below |
| `OpenFailed` | the rest of `open()` after `_stream->close()`, which may raise (`CloseError`) |
| `Close`, `CloseEnds` | `close()` up to and after its `AWAIT`, before or during `open()` |
| `SecretConnection`: `RunHandshake` | `runHandshake()`, with the authorizer asked once it is finished |
| `PeerNameFails` | `runHandshake()` throws: it asks for the peer's name first, of a socket that has none any more |
| `InnerThrows` | the write or read below rejects |
| `Connected`, `ConnectFails` | the continuations in `connect()` and `wrap()` |
| `Timeout` | the timer of `wrap()` wins `exclusiveJoin` |
| `ReadsEnd` | external: a connected peer reads end of file |

A peer may hang, silently or by crashing, and a message may be damaged (`MaxFaults` together). Each
side calls `close()` at most once. Before `open()` there may be a stream below already, which then is
closed, or, if it was never opened, can still be opened: what Crouton's streams do is external, so both occur.

### The adapters once connected

The stream below gets a pointer to the sender's buffer, and `Sends` takes a byte from what the
buffer holds at that time: if an action moved or dropped bytes too early the wrong ones would be
sent. Both adapters use the default format, Compact.

| Action | Code |
|---|---|
| `CroutonStream`: `Write`, `WriteRefused`, `WriteEnds` | `write()`: skip what the last one sent, check `_open`, encrypt, hand down; its end |
| `Call`, `CallRefused` | `peekNoCopy()`, `readNoCopy()` up to the read below |
| `ReadsBelow`, `EndsBelow`, `FailsBelow` | the loop of `peekNoCopy()` once the read below has ended: data, none, error |
| `Close`, `CloseEnds`, `WriterCloses` | `close()`, of either stream |
| `WrappedStream`: `WrappedWrite`, `Written`, `WriteFails` | `write()` and `_endWrite()`; its continuation skips, and does not run after a failure |
| `TryRead`, `InnerRead`, `InnerEof` | `tryRead()`, and its continuation: push, then `tryRead()` again; or 0 at the end |
| `AdapterLink`: `Sends`, `Ends`, `Breaks`, `Damages` | external: the stream below |

### SecretRPCServer, SecretRPCClient

`conn[s]` is the life of a connection from the listener's backlog, or from `acceptStream()`,
through `wrap()` to a `Connection`. `accepts` counts pending accepts. What `wrap()` promises is
taken from `SecretConnection`: a stream with a key its client proved, a failure, or neither.
`silent` clients say nothing; only handshakes of the accept loop run under a timer.
The accept loop's continuation is `Accepted` if `getPeerName()` answers; if it throws, as it does once
the peer is gone, `AcceptedNameless`: the loop is not re-armed and the socket joins `nameless`.
The error handler of a failed accept returns a null promise, on which `startConnection` is
chained; `AcceptFails` leaves open whether that crashes. `restored` is what `restore()` answered.

`stage` is how far the client's set-up promise has come, `cap[c]` what became of the `c`-th
`getMain()`, `on[c]` the object its continuation captured, `owner` the object that holds `_impl`.
`MovesEarly` is whether the application moves the client while a call waits.

## Runs

| Run | Instance | Result |
|---|---|---|
| `handshake` | 2 application IDs, 2 keys, 2 faults; 38 040 states | passes |
| `handshake_io` | 2 application IDs, 2 keys, messages of 2/3/2 bytes, 2 session bytes, 1 fault; about 200 000 states | passes |
| `stream` | bytes of 2 values (messages of at most 3), MAC of 1 byte, 4 bytes pushed, 2 faults; 297 206 states | passes |
| `crouton_open` | 2 application IDs, 2 keys, 1 fault, clients with and without delegate, 1 `close()` per side; 334 032 states | passes |
| `crouton_stream` | 3 bytes written in 1 or 2 buffers, reads of 1 or 2 and peeks, 1 fault, 1 `close()`; 205 092 states | passes |
| `capnp_connect` | 2 application IDs, 2 keys, 1 fault, with and without timer; 245 368 states | passes |
| `capnp_stream` | 5 bytes written in writes of 1 and 1+2+1, reads of (1,1), (1,4), (2,2), 1 fault; 65 560 states | passes |
| `rpc_server` | 2 clients, 2 keys, with and without wrapper, 1 fault; 18 568 states | passes |
| `rpc_client` | 3 calls of `getMain`; 701 states | passes |
| `capnp_end` | as `capnp_stream` | violated: finding 1 |
| `rpc_client_moved` | `MovesEarly` | violated: finding 2 |
| `stream_empty` | as `stream` | violated: finding 3 |

**handshake.** Two application IDs and two keys suffice for every kind of misconfiguration: the
properties compare keys and IDs only for equality, and no property involves three peers. `Agreement`: when the
client finishes, each side has the other's true key, both have the same application, and what one
encrypts with the other decrypts with; stated from the client because the server cannot know
whether its ack arrives. `ServerAuthenticatesClient`: the server commits only to a client that has
proved its key to *this* server and is admitted. `ErrorMeaning`: without faults, `ProtocolError`
appears only for different application IDs, `AuthError` only for a wrong server key or an
unwelcome client, also on the side that sees nothing but the end of the connection; the comments
of `SecretHandshake.hh` say so. `LockStep`: messages never run together and the peers never both
wait. `EachKeyOnce`: what the comment in `box()` relies on. `VerdictIsFinal`, `Termination`,
`HonestSuccess`: verdicts stand, every handshake ends, and two well configured peers on a quiet
transport both finish.

**handshake_io.** `StreamIntact`: session bytes that follow the ack are all left for the stream
that comes next. `BuffersMatchStep`: the conditions under which `readCompleted` and
`sendCompleted` throw, or the assertion in `nextStep` fails, do not occur for an application
that follows the header. `ImplementsMessages` carries the safety properties of `Handshake` over to
bytes. All three are also proved, for messages of any size.

**stream.** `ExactDelivery`: at every moment the receiver has exactly the whole
undamaged messages that have arrived: nothing of a damaged message or behind it, and nothing held
back. `NeverThrows`: neither the length check of `encrypt()` nor the "impossible" case of
`DecryptionStream::push` is ever met.
`ImplementsChannel`: the promise of `ByteChannel`; in particular nothing is decrypted after a push
that returned false, though the application goes on pushing.
`CloseVerdict`: `close()` returns true if what arrived is a sequence of whole undamaged
messages, and otherwise only if the first bytes that are not read as the length 0; without faults it
returns true and every byte pushed was received. Two faults are enough to damage both bytes of a length, which
is how the exception arises; `Cipher` makes zeroes of odd messages and ones of even ones in the run, so that what
follows is read as 0 and as other lengths. Four bytes pushed exceed the maximum of three, with a remainder. There is no liveness property
here: that nothing is held back is part of `ExactDelivery`, and the adapters' `AllRead` adds that their
writes flush and their reads come round. The code's maximum is 65535 = 256*256 - 1, the model's is `Base*Base - 1`.

**crouton_open.** `OpenMeansAdmitted`: `open()` succeeds only between a client and the server it
meant, with the client admitted by the delegate, and the two sessions fit. `FailedOpenIsTidy`: a
reported failure, `IOError` included, leaves the stream below closed, the stream not open and the
delegate told, unless the error reported is that of the closing itself.
`ErrorMeaning`: its errors mean what `SecretHandshakeError` says, also when a refusal is seen only
as a short read. `OpenSucceeds`: well configured streams, left alone, do not fail (a client must have no delegate, see
below). `OpenEnds`: `open()` ends from every `AWAIT`, whatever `close()` interferes.
`DelegateIsTold`: once `open()` or `close()` has closed the stream below, or a `close()` is under way, the
delegate hears of the end; `close()` may come before `open()`, at any of its `AWAIT`s or after it. Only a closing that
raises in `open()` goes untold, and only if no `close()` is under way. By symmetry the client has the first key and the first ID; the server, and the
key the client expects, are arbitrary, so that all equalities and inequalities occur. One fault is enough for each kind at each
suspension; two on top of a racing `close()` on each side add states but no new kind of step.

**crouton_stream.** `ReadsExact`: reads of any size mixed with peeks give each byte once, in order;
the bytes returned stay in place until the next call. `EndVerdict`: end of file only after everything
was read, and only between messages or behind a length that reads 0; `DataError` only for damage or a cut. `ErrorIsFinal`: no
later call takes a cut for a clean end. `AllRead`, `ImplementsChannel`. Three bytes are up to three
messages, and a write of two buffers makes one message of two bytes: a read of part of a message,
one that empties it, and one that awaits the next all occur.

**capnp_connect.** `Admission`: a server's `wrap()` yields a stream only for an admitted client with
the key it proved. `WrapSettles`: every `wrap()` ends, except one without a timer whose peer
hangs. `RefusedIsCut`: a client refused, or timed out, after the ack finds its stream closed.

**capnp_stream.** `NothingLost`: what was read and what waits are the whole messages that arrived,
also at end of file and after an exception. `SentOnce`: the ciphertext sent is each message once,
in order, also around failed writes. `WrappedAllRead`, `WrapperIsChannel`. Writes of four bytes need two messages, reads of
two need the rest of one and the start of another, and room for one byte cuts up the ciphertext.

**rpc_server.** `OneAccept`: a listening server has exactly one accept pending, whatever becomes of
the handshakes it started and of accepts that fail, and none once `getPeerName()` has thrown in the
accept loop. `ServedForIdentity`: each connection is served
by an interface made for the key its own handshake proved, anonymously only without a wrapper, and
`restore()` leads nowhere else. `EveryClientSettles`: a client that connects is served or dropped,
though it or others fall silent, unless the accept loop was lost that way or the server crashed, which
it does only on a failed accept or for want of a wrapper. Two clients suffice since the server's tasks interact only through
the accept loop and the destructor, and the theorems below hold for any number.

**rpc_client.** `ContextIsFilled`: continuations of `getMain()` find the context, and a capability
breaks only with the set-up or the client. `EveryGetMainSettles`: every early capability is
connected or broken in the end, unless the server is silent. Three calls: one before, one between
and one after the set-up.

### Fairness

`Handshake` and `HandshakeIO` assume weak fairness of each peer's own steps: an application that
follows the header (both adapters loop until `finished()` or `error()`) keeps calling, and its
socket reports data, end of file or a failed write. No fairness is assumed of faults.

The adapters assume that an event loop runs the coroutines, continuations and timers that are
ready, and that a stream below gets on with what it was asked to do unless the peer hangs; their
readers read again and again (for `capnp_stream` strongly fair for one byte at least, because a larger minimum may be asked for
in between). No application is obliged to close, move or destroy anything, and no fault is obliged to happen.

### Findings

1. Cap'n Proto `tryRead()` never calls `DecryptionStream::close()`: a connection cut in the middle
   of a message looks like a proper end.
2. An RPC client that is moved while a `getMain()` waits: the continuation goes through the object
   that was moved from.
3. `DecryptoBox::decrypt()` takes a failed `unbox()` for success if the damaged length of a Compact message
   reads 0. What follows may be dropped as further empty messages, no `push()` returns false, and
   `close()` can call the stream clean although messages were lost. No byte that was not sent is ever
   delivered, because the nonce has then overshot that of every later message (`ExactDelivery`).

Met while modelling, without a run of their own:

* A listening RPC server with an empty wrapper, documented as "disable secrecy" (`SecretRPC.hh`),
  dereferences null at its first client (`Accepted`; an exception of `EveryClientSettles`).
* The Cap'n Proto adapter asks its authorizer after the ack has been sent, so a refused client
  completes its handshake, against the notes in `SecretHandshake.cc`, gets a stream and is cut off
  afterwards (`RefusedIsCut`). The server never admits it (`Admission`).
* The RPC server's accept loop asks for the peer's name before it re-arms itself. If that throws, nothing
  catches it but `taskFailed()`, which logs: the server listens on and never accepts again.
* If `_stream->close()` raises in the error path of the Crouton `open()`, its error replaces the
  original one and the delegate is never told.
* A delegate on a *client's* Crouton stream makes `open()` throw `std::bad_cast`: it registers the
  authorizer on whatever handshake there is.
* `readCompleted()` is meant to throw on an unexpected call, but it compares two sizes that are
  both zero exactly then; the handshake fails instead, even a finished one.
* `peek()` on too little input reports the length needed in `encryptedSize`; its documentation
  says `decryptedSize`.

Behaviours the models have that no document rules on: a `close()` that races the end of a Crouton
`open()` leaves `isOpen()` true on a closed stream, and the delegate may be told twice; at end of
file `tryRead()` returns 0 although fewer bytes than the minimum are decrypted and kept;
`wrap()` for a plain stream has no timeout (a FIXME in the code); the RPC server's `_exportMap` is
never filled, so no name restores.

## Proofs

`HandshakeProofs` proves, for any sets `AppIDs` and `Keys` and any `MaxFaults`, that `Spec`
satisfies `IInv`, `TypeOK`, `Agreement`, `ServerAuthenticatesClient`, `EachKeyOnce`, `LockStep`,
`ErrorMeaning` and `VerdictIsFinal`.

*Assumptions.* `Unset` is neither an ID, a key, a peer nor a term of the protocol; keys are not
peers (no long-term key is an ephemeral one); `MaxFaults` is a natural number. All are in the
modules that declare the constants, and TLC evaluates them in the runs. That terms are equal only
if built alike is not assumed: they are tuples.

*Argument.* `Agreement` is far from inductive: it speaks of the moment the client finishes. `IInv`
says for each step a peer has reached which fields of its object are set, to what
(`ClientInv`, `ServerInv`), which message its buffer holds (`OutInv`), which messages can be on the
way and what their sender must have done by then (`NetInv`), and which boxes have been made
(`BoxedInv`). The links between the two sides are `HasProved` (the server's `ServerAck` implies a
client that has sent its proof) and `HasAcked` (the client's `Finished` implies a server that has
sent its ack); they survive failures and crashes because a sent message determines the
configuration of its sender. The lemmas on `verifyChallenge`, `verifyClientAuth` and
`verifyServerAck` state what a peer learns from whatever arrives, noise included; one lemma per
action then shows that it preserves `IInv`. `EachKeyOnce` follows since a run makes at most the
two boxes of `BoxedInv`, whose keys are hashes of tuples of different length. `VerdictIsFinal` also
needs that the error is set exactly in the failed step. `LockStep` follows from `OrderInv`:
nothing is under way while a peer has the turn, at most one message is under way, and when both
wait, one is. `ErrorMeaning` speaks of runs without faults, and of errors that one side only infers
from an end of file; `PhaseInv` therefore lists the joint phases of such a run: `Running` (both are
well, and each message is made, then sent, then read) or `Refused` (the server has failed, for the reason its error
gives, and the client still waits for its answer, or has failed with the same error).

### The bytes

`HandshakeIOProofs` proves `ImplementsMessages`, `BuffersMatchStep` and `StreamIntact` for any
positive message sizes (`SizesAssumption`), any `MaxData` and every way to cut up reads and writes.
The step from bytes to messages is easy to state and hard to justify: `ReadCompleted` of `Handshake`
may be claimed only if the bytes in the reader's buffer are exactly those of the message that
the sender's step prescribes. `IOInv` says so for every state between: the rest of the message in the
sender's buffer (`OutputInv`), then what is on the wire and in the reader's buffer, in order and of
one message (`FlowInv`), of the length that the sender's progress implies (`LengthInv`), while the
peers are at most one message apart and the one about to send is not ahead (`TurnInv`); and a failed
peer leaves no half message to one that could read it (`FailedInv`). That a byte belongs to a
message of the protocol comes from `IInv` of `Handshake`, which holds of the bytes only through the
refinement; so `IOInv` and `IInv`, under the mapping, are proved in one induction (`BytesInvariant`).
Each action is shown to be a step of `Handshake` or to leave all its variables alone.
`BytesInherit` then carries the theorems of `HandshakeProofs` over: agreement, authentication,
alternation, single use of keys, meaning of errors and finality of verdicts hold of the bytes.
`StreamIntact` needs `LeftInv` besides: a refused input is no session data, and a failed
peer has nothing under way to one that is done.

### The adapters while they connect

`AdapterProofs` begins with what the two adapters share, `DriverInv`: the client's and the server's object fit
(`Paired`: what either has verified is true of the other), what lies in a buffer or is under way was
made by the object it is said to come from (`SentBy`), or is noise, and where a
coroutine is suspended tells which step its object is in (`PeerInv`). The lemmas on `ShsCrypto` are those of
`HandshakeTermsProofs`; a message stays its sender's, whatever that goes on to do.

For the Cap'n Proto adapter it proves `Admission`. `ConnInv` adds to `DriverInv` that a session is kept
only by a finished handshake, on the server after the authorizer's consent (`SessionInv`), also across
timeouts and rejected promises.

For the crouton adapter it proves `OpenMeansAdmitted`, `FailedOpenIsTidy`, `ErrorMeaning` and
`OpenSucceeds`. The first two follow from `OpenInv`, which adds what is true of the stream and its delegate at each end that
`open()` reports, the errors of the stream below and of its closing included (`ReportInv`), whatever `close()` does at its suspension points. The other two are
about undisturbed connections, and there `PhaseInv` lists the joint phases of the two coroutines:
`Healthy`, and `Refused` by the server for different applications or for a key that is wrong or unwelcome.

### The streams

`SecretStreamProofs` proves `ExactDelivery`, `CloseVerdict`, `NeverThrows` and `ImplementsChannel` for
both formats, any `Base` above 1, any positive `MacSize`, any sizes of pushes, pulls and cuts and any number of
faults; `LinkProofs` proves `NothingLost`, `SentOnce` and `WrapperIsChannel` of the Cap'n Proto stream, and
`ReadsExact`, `EndVerdict`, `ErrorIsFinal` and `ImplementsChannel` of the Crouton stream, for any sizes of writes and
reads and any number of `close()` calls besides. That `Base` is at least 2 and `MacSize` at least 1 is all that is assumed of the
formats (256 and 16 in the code), and of `Cipher` that its values are those of a byte; a size to write is a natural number, a size to read a positive one.

*The loops.* What `pushPartial` and `push` do to input of any length is an induction, and the library's induction
theorems cannot be used, as their operator parameters are not instantiated. `CryptoStreamsProofs` gets around
that: a set of numbers that has 0 and with each number the next one has them all, for otherwise
`WFMin` of `WellFoundedInduction` yields a least number outside it; the induction hypothesis is then
membership in a set. The same lemma shows that the recursive functions `Fillings`, `Openings` and `Pieces`
exist (a function up to `n` is extended to `n + 1`), so that `CHOOSE` finds them and their defining equations may be used.
On top of that, one lemma per loop: `pushPartial` keeps `EncryptorOK`, and `push` ends with `DecryptorOK`.

*The invariant.* None of the properties is inductive: they compare the two ends, and say nothing of
what lies between. `StreamInvariant` says of the messages sealed so far that they cut up 1, 2, 3, ... into
pieces no longer than `kMaxMessageSize`, with one nonce after another (`SealedOK`); of every byte of
ciphertext, in whatever buffer or on the wire, at which offset of the whole it stands, whether it is
damaged or not (`IsCiphertext`); of the encryptor that its buffers are the end of the cleartext behind the end of the
ciphertext (`EncryptorOK`); and of the decryptor that for some `k` it has opened exactly the first `k` messages,
that all of them arrived undamaged, that `decrypt()` has nothing more to open (`DecryptorOK`), and that it stands at message
`k + 1` with the nonce of that message, or has strayed (`Strayed`): the length of message `k + 1` read 0, and since then
it has dropped some number of messages that read as empty, with a nonce each. Its nonce then tells where it stands (`Place`).
Two steps matter. As long as it has not strayed, `decrypt()` succeeds if message `k + 1` is all there and
undamaged, or if what is there reads as an empty message, and in no other case (`DecryptNext`): in Compact format any other damaged
length makes it look for a message of another size, which can neither open nor be taken for a whole one. Once it has strayed it
never opens anything again: each message it dropped is shorter than a real one, so its nonce is ahead of that of any message
it could stand at. What `decrypt()` calls corrupt stays in front of the decryptor's buffer for good, so corruption is final.
`Whole` and `CleartextSize`, the reference definitions the properties use, are shown to be what `k` gives.

*The adapters.* `Holding(c, d)` is that invariant with `c` bytes of the encryptor's buffer handed to the wire
already (`LinkOK`) and with decryption stream `d`. For the Cap'n Proto stream `c` is what the write below has sent,
and a failed write leaves its ciphertext in the buffer while nothing more can be sent, which is why `LinkOK` speaks of a
connection that has not ended. For the Crouton stream the encryptor still holds what the last write sent (`SentSoFar`), the
decryptor still holds what the last read returned, so `d` is the decryptor without it (`Seen`), and `close()` may
have emptied the buffer of a message that was cut off: `CroutonInv` says that some `x` was there. `SentOnce` is
a corollary of the offsets; the refinements need that what was received is a prefix of what was written, before and after each step.

### The RPC layer

`SecretRPCProofs` proves `TypeOK`, `OneAccept` and `ServedForIdentity` for any clients, keys,
wrappers and faults, assuming only that nullptr (`Anonymous`) is no key. `OneAccept` needs `LoopInv`: a server that does
not listen yet has met no peer without a name. `ServedForIdentity` is not inductive: `SocketInv` adds that before
`startConnection()` nothing has been served or restored, that only a wrapped socket has an identity,
and that `wrap()` runs only where there is a wrapper, so that after it nullptr and a missing
wrapper are the same.

Of the client it proves `ContextIsFilled`, for any number of calls, from `CapInv`: which
capabilities there can be at each stage of the set-up. `PatientMovesAreSafe` is the positive side
of finding 2: if the client is moved only while no call waits, every continuation finds its
`_impl` (`OwnerInv`: a waiting call's object is the owner).

### Model-checked only

* Liveness: `Termination`, `HonestSuccess`, `OpenEnds`, `DelegateIsTold`, `WrapSettles`,
  `RefusedIsCut`, `AllRead`, `WrappedAllRead`, `EveryClientSettles`, `EveryGetMainSettles`. TLAPS does not
  reason about fairness and `ENABLED`.
* The three findings: that a property is violated is a counterexample of TLC's.

Every invariant, action property and refinement that a passing run checks is also a theorem.

## Not modelled

* Cryptographic strength: primitives are ideal, and the only adversary is a transport that
  damages, cuts and drops. A third party that makes up its own messages is not modelled.
* Overlap of input and output in `flush()`, which encrypts in place: Monocypher's matter.
* Key generation, `appIDFromString`, wiping, logging; the C interface, which forwards.
* `RPCContext`: a reference count and a thread-local pointer, used from one thread.
* Addresses, socket options and other calls the Cap'n Proto wrapper forwards; `getPort()` of a
  server that does not listen, whose promise is null; `ClientContext::restore`, which nothing
  calls; Cap'n Proto's RPC, kj and Crouton themselves (external).
* Applications that break the rules of an interface: one that goes on after a failed handshake (a second `failed()`
  would turn `AuthError` into `ProtocolError`); a Crouton `write()` before `open()` has succeeded (it uses `_writer`
  before it exists) or before the last write has ended; a second `open()`.

## Plan

1. `Handshake` and its proofs, `HandshakeIO`, `SecretStream`: done.
2. Crouton adapter (`CroutonOpen`, `CroutonStream`): done.
3. Cap'n Proto adapter and RPC (`SecretConnection`, `WrappedStream`, `SecretRPCServer`,
   `SecretRPCClient`), with proofs for the RPC part: done.
4. `ByteChannel` as the abstract promise of all streams: done.
5. Proofs of the handshake at both levels with the refinement between them, and of the adapters'
   handshakes: done.
6. Proofs of the streams and of both adapters' streams, with their refinements of `ByteChannel`: done.
   Left: liveness, which is beyond TLAPS here, and the parts listed as not modelled.
