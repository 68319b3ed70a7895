--------------------------- MODULE SecretRPCProofs ---------------------------
(***************************************************************************)
(* Proofs about SecretRPCServer, for any sets of clients and keys and any  *)
(* number of faults, and about SecretRPCClient, for any number of          *)
(* getMain() calls.  The two are proved side by side, not composed.        *)
(***************************************************************************)
EXTENDS SecretRPCServer, SecretRPCClient, TLAPS

(***************************************************************************)
(* The server.                                                             *)
(***************************************************************************)

Untold == {"outside", "backlog", "promised", "wrapping", "wrapped"}

(* What a socket's identity and answers are at each point of its life: the *)
(* part that ServedForIdentity needs to be inductive.                      *)
SocketInv ==
    \A s \in Sockets :
        /\ conn[s] \in Untold => served[s] = {} /\ restored[s] = {}
        /\ conn[s] \in Untold \ {"wrapped"} => proven[s] = Anonymous
        /\ conn[s] = "wrapping" => secret
        /\ conn[s] = "connected" => served[s] = {proven[s]}
        /\ conn[s] = "wrapped" \/ served[s] # {} => (proven[s] = Anonymous <=> ~secret)
        /\ served[s] \subseteq {proven[s]}
        /\ restored[s] \subseteq served[s] \cup {"none"}

(* Before it listens the server has failed to name nobody: the part that   *)
(* OneAccept needs.                                                        *)
LoopInv == OneAccept /\ (server = "starting" => nameless = {})

Inv == TypeOK /\ LoopInv /\ SocketInv

(* SocketInv is enough for ServedForIdentity. *)
LEMMA SocketInvSuffices == SocketInv => ServedForIdentity
<1>1. SUFFICES ASSUME SocketInv, NEW s \in Sockets
               PROVE  /\ conn[s] = "connected" => served[s] = {proven[s]}
                      /\ served[s] \subseteq {proven[s]}
                      /\ restored[s] \subseteq served[s] \cup {"none"}
                      /\ served[s] # {} => (Anonymous \in served[s] <=> ~secret)
  BY DEF ServedForIdentity
<1>2. served[s] # {} => (proven[s] = Anonymous <=> ~secret)
  BY <1>1 DEF SocketInv
<1>3. /\ conn[s] = "connected" => served[s] = {proven[s]}
      /\ served[s] \subseteq {proven[s]}
      /\ restored[s] \subseteq served[s] \cup {"none"}
  BY <1>1 DEF SocketInv
<1> QED
  BY <1>2, <1>3

(* Both constructors establish the invariant. *)
LEMMA InitInv == Init => Inv
<1>1. SUFFICES ASSUME Init PROVE Inv
  OBVIOUS
<1>2. TypeOK
  <2>1. StateOK
    BY <1>1 DEF Init, StateOK, Lives, Identities
  <2>2. secret \in BOOLEAN
    BY <1>1, SecrecyAssumption, Zenon DEF Init
  <2> QED
    BY <2>1, <2>2 DEF TypeOK
<1>3. LoopInv
  BY <1>1 DEF Init, LoopInv, OneAccept
<1>4. SocketInv
  BY <1>1 DEF Init, SocketInv, Untold
<1> QED
  BY <1>2, <1>3, <1>4 DEF Inv

(* Every step of the server preserves its types. *)
LEMMA NextStateOK == StateOK /\ [Next]_vars => StateOK'
<1>1. SUFFICES ASSUME StateOK, [Next]_vars PROVE StateOK'
  OBVIOUS
<1> USE <1>1
<1>2. CASE Listens
  BY <1>2 DEF Listens, StateOK, given
<1>3. CASE ListenFails
  BY <1>3 DEF ListenFails, StateOK, given
<1>4. CASE AcceptFails
  BY <1>4 DEF AcceptFails, AcceptsAgain, StateOK, given
<1>5. CASE Destroy
  <2>1. conn' \in [Sockets -> Lives]
    BY <1>5 DEF Destroy, Ended, StateOK, Lives
  <2> QED
    BY <1>5, <2>1 DEF Destroy, StateOK, given
<1>6. ASSUME NEW s \in Sockets, Incoming(s) \/ AcceptStream(s) \/ Disconnect(s) \/ Fails(s)
      PROVE  StateOK'
  BY <1>6 DEF Incoming, AcceptStream, Disconnect, Fails, Becomes, StateOK, given, Lives
<1>7. ASSUME NEW s \in Sockets, Accepted(s) PROVE StateOK'
  BY <1>7 DEF Accepted, AcceptsAgain, Timer, Becomes, StateOK, given, Lives
<1>n. ASSUME NEW s \in Sockets, AcceptedNameless(s) PROVE StateOK'
  BY <1>n DEF AcceptedNameless, AcceptsNoMore, Becomes, StateOK, given, Lives
<1>8. ASSUME NEW s \in Sockets, AsyncWrap(s) PROVE StateOK'
  BY <1>8 DEF AsyncWrap, asyncWrap, Becomes, StateOK, given, Lives
<1>9. ASSUME NEW s \in Sockets, NEW key \in Keys, WrapYields(s, key) PROVE StateOK'
  BY <1>9 DEF WrapYields, Becomes, StateOK, given, Lives, Identities
<1>10. ASSUME NEW s \in Sockets, StartConnection(s) PROVE StateOK'
  BY <1>10 DEF StartConnection, Becomes, StateOK, given, Lives
<1>11. ASSUME NEW s \in Sockets, RestoreMain(s) \/ RestoreName(s) PROVE StateOK'
  BY <1>11 DEF RestoreMain, RestoreName, StateOK, given
<1>12. CASE UNCHANGED vars
  BY <1>12 DEF vars, StateOK, given
<1> QED
  BY <1>2, <1>3, <1>4, <1>5, <1>6, <1>7, <1>n, <1>8, <1>9, <1>10, <1>11, <1>12
  DEF Next, Task, Done

(* Every step keeps exactly one accept pending while the server listens,   *)
(* but the one that gives the loop up.                                     *)
LEMMA NextLoopInv == StateOK /\ LoopInv /\ [Next]_vars => LoopInv'
<1>1. SUFFICES ASSUME StateOK, LoopInv, [Next]_vars PROVE LoopInv'
  OBVIOUS
<1> USE <1>1 DEF LoopInv, OneAccept
<1>2. CASE Listens \/ ListenFails
  BY <1>2 DEF Listens, ListenFails, StateOK
<1>3. CASE AcceptFails
  BY <1>3 DEF AcceptFails, AcceptsAgain, StateOK
<1>4. CASE Destroy
  BY <1>4 DEF Destroy
<1>5. ASSUME NEW s \in Sockets, Accepted(s) PROVE LoopInv'
  BY <1>5 DEF Accepted, AcceptsAgain, StateOK
<1>n. ASSUME NEW s \in Sockets, AcceptedNameless(s) PROVE LoopInv'
  BY <1>n DEF AcceptedNameless, AcceptsNoMore, StateOK
<1>6. ASSUME NEW s \in Sockets,
             \/ Incoming(s) \/ AcceptStream(s) \/ Disconnect(s) \/ Fails(s) \/ AsyncWrap(s)
             \/ StartConnection(s) \/ RestoreMain(s) \/ RestoreName(s)
             \/ \E key \in Keys : WrapYields(s, key)
      PROVE  LoopInv'
  BY <1>6 DEF Incoming, AcceptStream, Disconnect, Fails, AsyncWrap, StartConnection,
              RestoreMain, RestoreName, WrapYields
<1>7. CASE UNCHANGED vars
  BY <1>7 DEF vars
<1> QED
  BY <1>2, <1>3, <1>4, <1>5, <1>n, <1>6, <1>7 DEF Next, Task, Done

(* _shsWrapper is never replaced. *)
LEMMA NextSecret == [Next]_vars => secret' = secret
<1>1. SUFFICES ASSUME Next PROVE secret' = secret
  BY DEF vars, given
<1>2. CASE Done \/ Listens \/ ListenFails \/ AcceptFails \/ Destroy
  BY <1>2 DEF Done, Listens, ListenFails, AcceptFails, Destroy, vars, given
<1>3. ASSUME NEW s \in Sockets,
             \/ Incoming(s) \/ AcceptStream(s) \/ Disconnect(s) \/ Task(s)
             \/ RestoreMain(s) \/ RestoreName(s)
      PROVE  secret' = secret
  BY <1>3 DEF Task, Incoming, AcceptStream, Disconnect, Fails, AsyncWrap, StartConnection,
              RestoreMain, RestoreName, WrapYields, Accepted, AcceptedNameless, given
<1> QED
  BY <1>1, <1>2, <1>3 DEF Next

(* Every step preserves what is said of each socket: one step per action   *)
(* that changes a socket's life, identity or answers.                      *)
LEMMA NextSocketInv ==
    StateOK /\ SocketInv /\ secret \in BOOLEAN /\ [Next]_vars => SocketInv'
<1>1. SUFFICES ASSUME StateOK, SocketInv, [Next]_vars, NEW t \in Sockets PROVE
        /\ conn'[t] \in Untold => served'[t] = {} /\ restored'[t] = {}
        /\ conn'[t] \in Untold \ {"wrapped"} => proven'[t] = Anonymous
        /\ conn'[t] = "wrapping" => secret'
        /\ conn'[t] = "connected" => served'[t] = {proven'[t]}
        /\ conn'[t] = "wrapped" \/ served'[t] # {} => (proven'[t] = Anonymous <=> ~secret')
        /\ served'[t] \subseteq {proven'[t]}
        /\ restored'[t] \subseteq served'[t] \cup {"none"}
  BY DEF SocketInv
<1> USE <1>1 DEF Untold
<1>s. secret' = secret
  BY NextSecret
<1>t. /\ conn[t] \in Untold => served[t] = {} /\ restored[t] = {}
      /\ conn[t] \in Untold \ {"wrapped"} => proven[t] = Anonymous
      /\ conn[t] = "wrapping" => secret
      /\ conn[t] = "connected" => served[t] = {proven[t]}
      /\ conn[t] = "wrapped" \/ served[t] # {} => (proven[t] = Anonymous <=> ~secret)
      /\ served[t] \subseteq {proven[t]}
      /\ restored[t] \subseteq served[t] \cup {"none"}
  BY DEF SocketInv
<1>2. CASE UNCHANGED <<conn, proven, served, restored>>
  BY <1>2, <1>s, <1>t
<1>3. CASE Destroy
  BY <1>3, <1>s, <1>t DEF Destroy, Ended
<1>4. ASSUME NEW s \in Sockets,
             \/ Incoming(s) \/ AcceptStream(s) \/ Disconnect(s) \/ Fails(s)
             \/ AcceptedNameless(s)
      PROVE  /\ conn'[t] = conn[t] \/ conn'[t] = "closed"
                \/ (conn[t] = "outside" /\ conn'[t] \in {"backlog", "promised"})
             /\ UNCHANGED <<proven, served, restored>>
  BY <1>4 DEF Incoming, AcceptStream, Disconnect, Fails, AcceptedNameless, Becomes, StateOK
<1>5. ASSUME NEW s \in Sockets, Accepted(s) \/ AsyncWrap(s)
      PROVE  /\ \/ conn'[t] = conn[t]
                \/ conn[t] \in {"backlog", "promised"} /\ conn'[t] = "wrapping" /\ secret
                \/ conn[t] = "promised" /\ conn'[t] = "wrapped" /\ ~secret
             /\ UNCHANGED <<proven, served, restored>>
  BY <1>5 DEF Accepted, AsyncWrap, asyncWrap, Becomes, StateOK
<1>6. ASSUME NEW s \in Sockets, NEW key \in Keys, WrapYields(s, key)
      PROVE  /\ \/ conn'[t] = conn[t] /\ proven'[t] = proven[t]
                \/ conn[t] = "wrapping" /\ conn'[t] = "wrapped" /\ proven'[t] = key
             /\ UNCHANGED <<served, restored>>
  BY <1>6 DEF WrapYields, Becomes, StateOK
<1>7. ASSUME NEW s \in Sockets, StartConnection(s)
      PROVE  /\ \/ conn'[t] = conn[t] /\ served'[t] = served[t]
                \/ /\ conn[t] = "wrapped" /\ conn'[t] \in {"connected", "closed"}
                   /\ \/ served'[t] = served[t] \cup {proven[t]}
                      \/ conn'[t] = "closed" /\ served'[t] = served[t]
             /\ UNCHANGED <<proven, restored>>
  BY <1>7 DEF StartConnection, Becomes, StateOK
<1>8. ASSUME NEW s \in Sockets, RestoreMain(s) \/ RestoreName(s)
      PROVE  /\ \/ restored'[t] = restored[t]
                \/ /\ conn[t] = "connected"
                   /\ restored'[t] \subseteq restored[t] \cup served[t] \cup {"none"}
             /\ UNCHANGED <<conn, proven, served>>
  BY <1>8 DEF RestoreMain, RestoreName, StateOK
<1>9. CASE \E s \in Sockets : \/ Incoming(s) \/ AcceptStream(s) \/ Disconnect(s) \/ Fails(s)
                             \/ AcceptedNameless(s)
  BY <1>9, <1>4, <1>s, <1>t
<1>10. CASE \E s \in Sockets : Accepted(s) \/ AsyncWrap(s)
  BY <1>10, <1>5, <1>s, <1>t
<1>11. CASE \E s \in Sockets : \E key \in Keys : WrapYields(s, key)
  BY <1>11, <1>6, <1>s, <1>t, AnonymousAssumption
<1>12. CASE \E s \in Sockets : StartConnection(s)
  BY <1>12, <1>7, <1>s, <1>t
<1>13. CASE \E s \in Sockets : RestoreMain(s) \/ RestoreName(s)
  BY <1>13, <1>8, <1>s, <1>t
<1>14. CASE Listens \/ ListenFails \/ AcceptFails \/ UNCHANGED vars
  BY <1>14, <1>2 DEF Listens, ListenFails, AcceptFails, vars
<1> QED
  BY <1>3, <1>9, <1>10, <1>11, <1>12, <1>13, <1>14 DEF Next, Task, Done

(* SecretRPCServer: the inductive invariant, of which the properties below *)
(* are parts or consequences.                                              *)
THEOREM ServerInvariant == Spec => []Inv
<1>1. Inv /\ [Next]_vars => Inv'
  <2>1. SUFFICES ASSUME Inv, [Next]_vars PROVE Inv'
    OBVIOUS
  <2>2. StateOK' /\ LoopInv' /\ SocketInv'
    BY <2>1, NextStateOK, NextLoopInv, NextSocketInv DEF Inv, TypeOK
  <2>3. secret' \in BOOLEAN
    BY <2>1, NextSecret, Zenon DEF Inv, TypeOK
  <2> QED
    BY <2>2, <2>3 DEF Inv, TypeOK
<1> QED
  BY <1>1, InitInv, PTL DEF Spec

(* The server's state keeps its shape: a socket's life is one of Lives,    *)
(* identities are keys or nullptr.                                         *)
THEOREM ServerTypeCorrect == Spec => []TypeOK
  BY ServerInvariant, PTL DEF Inv

(* acceptLoop() has exactly one accept pending while it listens, for any   *)
(* number of clients, hung handshakes and failed accepts, until            *)
(* getPeerName() throws of a socket just accepted: that is the only way to *)
(* lose the loop, and a certain one.                                       *)
THEOREM AcceptLostOneWay == Spec => []OneAccept
  BY ServerInvariant, PTL DEF Inv, LoopInv

(* Each client of startConnection() is served for the identity its own     *)
(* handshake proved, and nullptr is passed only when secrecy is disabled.  *)
THEOREM ServedCorrectly == Spec => []ServedForIdentity
<1>1. Inv => ServedForIdentity
  BY SocketInvSuffices DEF Inv
<1> QED
  BY <1>1, ServerInvariant, PTL

----------------------------------------------------------------------------
(***************************************************************************)
(* The client.                                                             *)
(***************************************************************************)

(* Which capabilities can be in which state at each stage of the set-up;   *)
(* a destroyed client has none that waits.                                 *)
CapInv ==
    /\ cap \in [Caps -> {"none", "waiting", "fired", "main", "broken", "wild"}]
    /\ context <=> stage = "resolved"
    /\ \A c \in Caps :
          /\ cap[c] = "waiting" => stage \notin {"resolved", "failed"} /\ owner # "none"
          /\ cap[c] = "fired" => stage = "resolved" /\ owner # "none"
          /\ cap[c] = "broken" => stage = "failed" \/ owner = "none"
          /\ cap[c] = "main" => stage = "resolved" /\ owner # "none"

(* What holds of the client objects as long as nobody moves a client while *)
(* a call waits.                                                           *)
OwnerInv ==
    /\ on \in [Caps -> {"none", "original", "moved"}]
    /\ owner \in {"none", "original", "moved"}
    /\ \A c \in Caps : /\ cap[c] \in {"waiting", "fired"} => on[c] = owner
                       /\ cap[c] # "wild"

(* CapInv holds at first, ... *)
LEMMA InitCapInv == ClientInit => CapInv
  BY DEF ClientInit, CapInv

(* ... every step preserves it, moves included, ... *)
LEMMA NextCapInv == CapInv /\ [ClientNext]_clientVars => CapInv'
<1>1. SUFFICES ASSUME CapInv, [ClientNext]_clientVars PROVE CapInv'
  OBVIOUS
<1> USE <1>1 DEF CapInv
<1>2. CASE owner # "none" /\ (StreamConnects \/ ClientWrapYields)
  BY <1>2 DEF StreamConnects, ClientWrapYields
<1>3. CASE owner # "none" /\ SetupFails
  BY <1>3 DEF SetupFails, Rejected
<1>4. CASE owner # "none" /\ SetupResolves
  BY <1>4 DEF SetupResolves, Branched
<1>5. CASE Move
  BY <1>5 DEF Move
<1>6. CASE ClientDestroy
  BY <1>6 DEF ClientDestroy, Awaited
<1>7. ASSUME NEW c \in Caps, GetMain(c) PROVE CapInv'
  BY <1>7 DEF GetMain
<1>8. ASSUME NEW c \in Caps, Continues(c) PROVE CapInv'
  BY <1>8 DEF Continues
<1>9. CASE UNCHANGED clientVars
  BY <1>9 DEF clientVars
<1> QED
  BY <1>2, <1>3, <1>4, <1>5, <1>6, <1>7, <1>8, <1>9 DEF ClientNext, Setup, ClientDone

(* ... and it is enough for ContextIsFilled. *)
LEMMA CapInvSuffices == CapInv => ContextIsFilled
  BY DEF CapInv, ContextIsFilled

(* "Filled in before `setupPromise` resolves": every continuation of       *)
(* getMain() that runs finds _clientContext set, and capabilities break    *)
(* only with the set-up or with the client.                                *)
THEOREM ContextFilled == ClientSpec => []ContextIsFilled
  BY InitCapInv, NextCapInv, CapInvSuffices, PTL DEF ClientSpec

(* Without early moves every step keeps a waiting call's object the owner. *)
LEMMA NextOwnerInv ==
    MovesEarly = FALSE /\ CapInv /\ OwnerInv /\ [ClientNext]_clientVars => OwnerInv'
<1>1. SUFFICES ASSUME MovesEarly = FALSE, CapInv, OwnerInv, [ClientNext]_clientVars PROVE OwnerInv'
  OBVIOUS
<1> USE <1>1 DEF CapInv, OwnerInv
<1>2. CASE StreamConnects \/ ClientWrapYields
  BY <1>2 DEF StreamConnects, ClientWrapYields
<1>3. CASE SetupFails
  BY <1>3 DEF SetupFails, Rejected
<1>4. CASE SetupResolves
  BY <1>4 DEF SetupResolves, Branched
<1>5. CASE Move
  BY <1>5 DEF Move, Awaited
<1>6. CASE ClientDestroy
  BY <1>6 DEF ClientDestroy, Awaited
<1>7. ASSUME NEW c \in Caps, GetMain(c) PROVE OwnerInv'
  BY <1>7 DEF GetMain
<1>8. ASSUME NEW c \in Caps, Continues(c) PROVE OwnerInv'
  BY <1>8 DEF Continues
<1>9. CASE UNCHANGED clientVars
  BY <1>9 DEF clientVars
<1> QED
  BY <1>2, <1>3, <1>4, <1>5, <1>6, <1>7, <1>8, <1>9 DEF ClientNext, Setup, ClientDone

(* A client that is moved only while no getMain() call waits never runs a  *)
(* continuation on an object it was moved from: the finding about the move *)
(* constructor needs a call that waits.                                    *)
THEOREM PatientMovesAreSafe == MovesEarly = FALSE /\ ClientSpec => []ImplIsFound
<1>1. ClientInit => OwnerInv
  BY DEF ClientInit, OwnerInv
<1>2. OwnerInv => ImplIsFound
  BY DEF OwnerInv, ImplIsFound
<1>3. SUFFICES ASSUME MovesEarly = FALSE PROVE ClientSpec => []ImplIsFound
  OBVIOUS
<1>4. CapInv /\ OwnerInv /\ [ClientNext]_clientVars => CapInv' /\ OwnerInv'
  BY <1>3, NextCapInv, NextOwnerInv
<1> QED
  BY <1>1, <1>2, <1>4, InitCapInv, PTL DEF ClientSpec
============================================================================
