--------------------------- MODULE SecretRPCServer ---------------------------
(***************************************************************************)
(* SecretRPCServer: the accept loop, the handshakes it leaves running, and *)
(* the RPC connections that come of them.  Everything runs on one kj event *)
(* loop; a continuation is one step, and the tasks in _tasks interleave.   *)
(* What wrap() promises is taken from SecretConnection: it yields a stream *)
(* with the key its client proved, it fails, or it never ends.             *)
(***************************************************************************)
EXTENDS Naturals

CONSTANTS Sockets,      \* the connections clients make
          Keys,         \* the public keys of clients
          Anonymous,    \* the factory's nullptr: no identity
          Secrecy,      \* whether there is a wrapper, _shsWrapper: {TRUE}, ...
          MaxFaults     \* failing accepts, peers without a name, throwing factories

ASSUME AnonymousAssumption == Anonymous \notin Keys
ASSUME SecrecyAssumption == Secrecy \subseteq BOOLEAN

VARIABLES
    server,     \* "starting", "listening", "unbound", "crashed" or "destroyed"
    secret,     \* _shsWrapper is not empty
    port,       \* _portPromise: "null", "pending", "fulfilled" or "broken"
    accepts,    \* the number of pending acceptAuthenticated() tasks
    conn,       \* each socket's life, see Lives
    timed,      \* sockets whose handshake runs under timeoutAfter()
    silent,     \* sockets whose client says nothing any more
    proven,     \* the identity the wrapped stream carries
    served,     \* the identities the factory was called with for a socket
    restored,   \* what restore() has answered over a socket's connection
    nameless,   \* sockets whose peer acceptLoop() could not name
    faults

given == <<secret, silent>>
vars  == <<given, server, port, accepts, conn, timed, proven, served, restored, nameless, faults>>

(* Not connected yet; waiting in the listener's backlog; promised to       *)
(* acceptStream(); in wrap(); through it; with a Connection; and done.     *)
Lives == {"outside", "backlog", "promised", "wrapping", "wrapped", "connected", "closed"}

Running == server \in {"starting", "listening", "unbound"}

(* The two constructors: with an address to listen on, and without. *)
Init ==
    /\ \/ server = "starting" /\ port = "pending"
       \/ server = "unbound" /\ port = "null"
    /\ secret \in Secrecy
    /\ accepts = 0 /\ faults = 0
    /\ conn = [s \in Sockets |-> "outside"]
    /\ nameless = {} /\ timed = {} /\ silent \in SUBSET Sockets
    /\ proven = [s \in Sockets |-> Anonymous]
    /\ served = [s \in Sockets |-> {}]
    /\ restored = [s \in Sockets |-> {}]

----------------------------------------------------------------------------
(* The constructor's task: parseAddress(), then listen and accept; or      *)
(* either throws, the fulfiller is destroyed and taskFailed() logs it.     *)
Listens ==
    /\ server = "starting"
    /\ server' = "listening" /\ port' = "fulfilled"
    /\ accepts' = accepts + 1
    /\ UNCHANGED <<given, conn, timed, proven, served, restored, nameless, faults>>

ListenFails ==
    /\ server = "starting"
    /\ server' = "unbound" /\ port' = "broken"
    /\ UNCHANGED <<given, accepts, conn, timed, proven, served, restored, nameless, faults>>

Becomes(s, life) == conn' = [conn EXCEPT ![s] = life]

(* A client connects to the port. *)
Incoming(s) ==
    /\ server = "listening" /\ conn[s] = "outside" /\ Becomes(s, "backlog")
    /\ UNCHANGED <<given, server, port, accepts, timed, proven, served, restored, nameless, faults>>

NoTimer(s) == timed
Timer(s) == timed \cup {s}

AcceptsNoMore == accepts - 1
AcceptsAgain == (accepts - 1) + 1

(* acceptLoop()'s continuation: once it has the peer's name the next       *)
(* accept is pending before wrap() is called, under the 15 second timer.   *)
(* Without a wrapper that call dereferences null.                          *)
Accepted(s) ==
    /\ server = "listening" /\ accepts > 0 /\ conn[s] = "backlog"
    /\ accepts' = AcceptsAgain
    /\ IF secret
       THEN Becomes(s, "wrapping") /\ timed' = Timer(s) /\ UNCHANGED server
       ELSE server' = "crashed" /\ UNCHANGED <<conn, timed>>
    /\ UNCHANGED <<given, port, proven, served, restored, nameless, faults>>

(* getPeerName() throws, of a socket whose peer has gone again, before the *)
(* loop is re-armed.  The error handler beside it does not catch that, and *)
(* taskFailed() only logs it.                                              *)
AcceptedNameless(s) ==
    /\ server = "listening" /\ accepts > 0 /\ conn[s] = "backlog" /\ faults < MaxFaults
    /\ accepts' = AcceptsNoMore
    /\ Becomes(s, "closed") /\ nameless' = nameless \cup {s}
    /\ faults' = faults + 1
    /\ UNCHANGED <<given, server, port, timed, proven, served, restored>>

(* Its error handler: accepts again, and returns a null promise, on which  *)
(* the next continuation is chained: a crash, or a task that fails.        *)
AcceptFails ==
    /\ server = "listening" /\ accepts > 0 /\ faults < MaxFaults
    /\ accepts' = AcceptsAgain
    /\ server' \in {"listening", "crashed"}
    /\ faults' = faults + 1
    /\ UNCHANGED <<given, port, conn, timed, proven, served, restored, nameless>>

(* acceptStream(), and the promised stream arrives, or does not.  Here an  *)
(* empty wrapper leaves the stream as it is, and there is no timer.        *)
AcceptStream(s) ==
    /\ Running /\ conn[s] = "outside" /\ Becomes(s, "promised")
    /\ UNCHANGED <<given, server, port, accepts, timed, proven, served, restored, nameless, faults>>

asyncWrapNothing == "wrapped"
asyncWrap == IF secret THEN "wrapping" ELSE "wrapped"
AsyncWrap(s) ==
    /\ Running /\ conn[s] = "promised" /\ Becomes(s, asyncWrap)
    /\ UNCHANGED <<given, server, port, accepts, timed, proven, served, restored, nameless, faults>>

(* wrap() yields a stream with the key that getIdentity() shows, or fails, *)
(* or the timer destroys it first.                                         *)
WrapYields(s, key) ==
    /\ Running /\ conn[s] = "wrapping" /\ s \notin silent
    /\ Becomes(s, "wrapped") /\ proven' = [proven EXCEPT ![s] = key]
    /\ UNCHANGED <<given, server, port, accepts, timed, served, restored, nameless, faults>>

Fails(s) ==
    /\ Running
    /\ \/ conn[s] = "wrapping" /\ s \notin silent
       \/ conn[s] = "wrapping" /\ s \in timed
       \/ conn[s] = "promised"
    /\ Becomes(s, "closed")
    /\ UNCHANGED <<given, server, port, accepts, timed, proven, served, restored, nameless, faults>>

(* startConnection(): asks the factory, and makes the Connection, whose    *)
(* onDisconnect() is a new task; getPeerName() may throw before that, and  *)
(* the factory may.                                                        *)
StartConnection(s) ==
    /\ Running /\ conn[s] = "wrapped"
    /\ \/ /\ served' = [served EXCEPT ![s] = @ \cup {proven[s]}]
          /\ Becomes(s, "connected") /\ UNCHANGED faults
       \/ /\ faults < MaxFaults /\ faults' = faults + 1 /\ Becomes(s, "closed")
          /\ served' \in {served, [served EXCEPT ![s] = @ \cup {proven[s]}]}
    /\ UNCHANGED <<given, server, port, accepts, timed, proven, restored, nameless>>

(* Connection::restore(): the null reference is its own main interface,    *)
(* any other is up to the server ...                                       *)
RestoreMain(s) ==
    /\ Running /\ conn[s] = "connected"
    /\ restored' = [restored EXCEPT ![s] = @ \cup served[s]]
    /\ UNCHANGED <<given, server, port, accepts, conn, timed, proven, served, nameless, faults>>

(* ... whose restore() finds no name in _exportMap, which stays empty.     *)
RestoreName(s) ==
    /\ Running /\ conn[s] = "connected"
    /\ restored' = [restored EXCEPT ![s] = @ \cup {"none"}]
    /\ UNCHANGED <<given, server, port, accepts, conn, timed, proven, served, nameless, faults>>

Disconnect(s) ==
    /\ Running /\ conn[s] = "connected" /\ Becomes(s, "closed")
    /\ UNCHANGED <<given, server, port, accepts, timed, proven, served, restored, nameless, faults>>

Ended(life) == IF life = "outside" THEN life ELSE "closed"

(* ~SecretRPCServer destroys the listener and every task. *)
Destroy ==
    /\ Running
    /\ server' = "destroyed" /\ accepts' = 0
    /\ conn' = [s \in Sockets |-> Ended(conn[s])]
    /\ UNCHANGED <<given, port, timed, proven, served, restored, nameless, faults>>

----------------------------------------------------------------------------
Over == ~Running \/ \A s \in Sockets : conn[s] \in {"closed", "wrapping", "outside"}
Done == Over /\ UNCHANGED vars

Task(s) ==
    Accepted(s) \/ AcceptedNameless(s) \/ AsyncWrap(s) \/ Fails(s) \/ StartConnection(s)
        \/ \E key \in Keys : WrapYields(s, key)

Next ==
    \/ Done \/ Listens \/ ListenFails \/ AcceptFails \/ Destroy
    \/ \E s \in Sockets :
          \/ Incoming(s) \/ AcceptStream(s) \/ Task(s)
          \/ RestoreMain(s) \/ RestoreName(s) \/ Disconnect(s)

Spec == Init /\ [][Next]_vars

(* The event loop runs the tasks that are ready, the constructor's and the *)
(* timers' included.                                                       *)
FairSpec ==
    Spec /\ WF_vars(Listens \/ ListenFails) /\ \A s \in Sockets : WF_vars(Task(s))

----------------------------------------------------------------------------
(* Properties.                                                             *)

Identities == Keys \cup {Anonymous}

(* A socket's life, its identity and what its client was given stay within *)
(* what startConnection() and restore() deal in: keys and nullptr.         *)
StateOK ==
    /\ server \in {"starting", "listening", "unbound", "crashed", "destroyed"}
    /\ port \in {"null", "pending", "fulfilled", "broken"}
    /\ accepts \in Nat /\ faults \in Nat
    /\ conn \in [Sockets -> Lives]
    /\ timed \in SUBSET Sockets /\ silent \in SUBSET Sockets /\ nameless \in SUBSET Sockets
    /\ proven \in [Sockets -> Identities]
    /\ served \in [Sockets -> SUBSET Identities]
    /\ restored \in [Sockets -> SUBSET (Identities \cup {"none"})]
TypeOK == StateOK /\ secret \in BOOLEAN

(* A server that listens has exactly one accept pending, whatever becomes  *)
(* of the handshakes it has started and of accepts that fail, for          *)
(* acceptLoop() re-arms in both continuations; with one exception: once    *)
(* getPeerName() has thrown it has none, and goes on listening in vain.    *)
(* One that does not listen has none.                                      *)
OneAccept ==
    /\ server = "listening" => /\ port = "fulfilled"
                               /\ accepts = IF nameless = {} THEN 1 ELSE 0
    /\ server \in {"starting", "unbound", "destroyed"} => accepts = 0

(* A connection is served by an interface made for exactly the identity    *)
(* its own handshake proved, a key unless secrecy is disabled, and nothing *)
(* else is ever reached through it: the factory's argument "will be        *)
(* nullptr" only "if secrecy is disabled for this server".                 *)
ServedForIdentity ==
    \A s \in Sockets :
        /\ conn[s] = "connected" => served[s] = {proven[s]}
        /\ served[s] \subseteq {proven[s]}
        /\ restored[s] \subseteq served[s] \cup {"none"}
        /\ served[s] # {} => (Anonymous \in served[s] <=> ~secret)

(* A client that connects to the port is served or dropped, though it, or  *)
(* any number of others, falls silent in its handshake, at the latest when *)
(* the timer ends it; unless the server is destroyed, acceptLoop() was     *)
(* lost to a peer without a name, or the server crashed, which it does on  *)
(* a failed accept and, at its first client, without a wrapper (though the *)
(* header calls that "empty to disable secrecy").  Streams given to        *)
(* acceptStream() have no such promise.                                    *)
EveryClientSettles ==
    \A s \in Sockets :
        conn[s] = "backlog" ~>
            \/ conn[s] \in {"connected", "closed"}
            \/ server = "destroyed" \/ nameless # {}
            \/ server = "crashed" /\ (~secret \/ faults > 0)
============================================================================
