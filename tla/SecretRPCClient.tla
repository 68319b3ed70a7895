--------------------------- MODULE SecretRPCClient ---------------------------
(***************************************************************************)
(* SecretRPCClient: the set-up promise made by its constructor, the        *)
(* capabilities that getMain() returns before and after it resolves, and   *)
(* the move constructor.  getMain()'s continuation captures the client     *)
(* object it was called on, not the Impl that the object owns.  One kj     *)
(* event loop runs everything; a continuation is one step.                 *)
(***************************************************************************)
EXTENDS Naturals

CONSTANTS Caps,         \* the calls of getMain()
          MovesEarly    \* whether the application may move the client while a
                        \* getMain() call waits

ASSUME MovesEarlyAssumption == MovesEarly \in BOOLEAN

VARIABLES
    wraps,      \* _shsWrapper is not empty
    mute,       \* the server says nothing
    stage,      \* the promise chain: "connecting", "wrapping", "wrapped",
                \* "resolved" or "failed", which _setupPromise shares
    context,    \* _clientContext is set
    owner,      \* the client object that holds _impl: "original", "moved" or "none"
    cap,        \* each capability: "none", "waiting", "fired", "main", "broken" or "wild"
    on          \* the client object its continuation refers to

clientVars == <<wraps, mute, stage, context, owner, cap, on>>

ClientInit ==
    /\ wraps \in BOOLEAN /\ mute \in BOOLEAN
    /\ stage = "connecting" /\ context = FALSE
    /\ owner = "original"
    /\ cap = [c \in Caps |-> "none"]
    /\ on = [c \in Caps |-> "none"]

----------------------------------------------------------------------------
(* parseAddress(), connect() and asyncWrap(), one continuation after       *)
(* another; each may fail.  An empty wrapper leaves the stream as it is.   *)
StreamConnects ==
    /\ stage = "connecting"
    /\ stage' = IF wraps THEN "wrapping" ELSE "wrapped"
    /\ UNCHANGED <<wraps, mute, context, owner, cap, on>>

ClientWrapYields ==
    /\ stage = "wrapping" /\ ~mute /\ stage' = "wrapped"
    /\ UNCHANGED <<wraps, mute, context, owner, cap, on>>

(* The rejection reaches every branch of the forked promise. *)
Branched == [c \in Caps |-> IF cap[c] = "waiting" THEN "fired" ELSE cap[c]]
Rejected == [c \in Caps |-> IF cap[c] = "waiting" THEN "broken" ELSE cap[c]]

SetupFailsUnnoticed ==
    /\ stage \in {"connecting", "wrapping"}
    /\ stage = "wrapping" => ~mute
    /\ stage' = "failed"
    /\ UNCHANGED <<wraps, mute, context, owner, cap, on>>
SetupFails ==
    /\ stage \in {"connecting", "wrapping"}
    /\ stage = "wrapping" => ~mute
    /\ stage' = "failed" /\ cap' = Rejected
    /\ UNCHANGED <<wraps, mute, context, owner, on>>

(* The constructor's continuation fills the context, and with its end the  *)
(* set-up promise resolves: the branches' continuations are queued.        *)
SetupResolvesFirst ==
    /\ stage = "wrapped" /\ stage' = "resolved"
    /\ cap' = Branched
    /\ UNCHANGED <<wraps, mute, context, owner, on>>
SetupResolves ==
    /\ stage = "wrapped" /\ stage' = "resolved"
    /\ context' = TRUE /\ cap' = Branched
    /\ UNCHANGED <<wraps, mute, owner, on>>

(* getMain(), on the object that holds _impl. *)
GetMain(c) ==
    /\ owner # "none" /\ cap[c] = "none"
    /\ on' = [on EXCEPT ![c] = owner]
    /\ cap' = [cap EXCEPT ![c] = CASE context -> "main"
                                   [] stage = "failed" -> "broken"
                                   [] OTHER -> "waiting"]
    /\ UNCHANGED <<wraps, mute, stage, context, owner>>

(* The continuation in getMain(): through its object to the context, which *)
(* KJ_ASSERT_NONNULL checks.  An object that was moved from has no _impl.  *)
Continues(c) ==
    /\ cap[c] = "fired"
    /\ cap' = [cap EXCEPT ![c] = CASE on[c] # owner -> "wild"
                                   [] on[c] = owner /\ context -> "main"
                                   [] OTHER -> "broken"]
    /\ UNCHANGED <<wraps, mute, stage, context, owner, on>>

Awaited == \E c \in Caps : cap[c] \in {"waiting", "fired"}

(* The move constructor. *)
Move ==
    /\ MovesEarly \/ ~Awaited
    /\ owner = "original" /\ owner' = "moved"
    /\ UNCHANGED <<wraps, mute, stage, context, cap, on>>

(* ~SecretRPCClient, by an application that waits for its getMain() calls. *)
ClientDestroy ==
    /\ owner # "none" /\ owner' = "none"
    /\ ~Awaited
    /\ cap' = [c \in Caps |-> IF cap[c] = "main" THEN "broken" ELSE cap[c]]
    /\ UNCHANGED <<wraps, mute, stage, context, on>>

----------------------------------------------------------------------------
ClientDone ==
    /\ owner = "none" \/ stage \in {"resolved", "failed"} \/ (stage = "wrapping" /\ mute)
    /\ UNCHANGED clientVars

Setup ==
    /\ owner # "none"
    /\ StreamConnects \/ ClientWrapYields \/ SetupFails \/ SetupResolves

ClientNext ==
    \/ ClientDone \/ Setup \/ Move \/ ClientDestroy
    \/ \E c \in Caps : GetMain(c) \/ Continues(c)

ClientSpec == ClientInit /\ [][ClientNext]_clientVars

(* The event loop runs the continuations that are ready. *)
ClientFairSpec ==
    /\ ClientSpec /\ WF_clientVars(Setup)
    /\ \A c \in Caps : WF_clientVars(Continues(c))

----------------------------------------------------------------------------
(* Properties.                                                             *)

(* "Filled in before `setupPromise` resolves": a continuation of getMain() *)
(* finds the context, and a capability breaks only when the set-up failed  *)
(* or the client is gone; two calls of getMain() on one client never       *)
(* disagree about that.                                                    *)
ContextIsFilled ==
    \A c \in Caps :
        /\ cap[c] = "fired" => context
        /\ cap[c] = "broken" => stage = "failed" \/ owner = "none"
        /\ cap[c] = "main" => stage = "resolved" /\ owner # "none"

(* A capability that getMain() returned early is connected or broken in    *)
(* the end, unless the server falls silent: there is no timer here.        *)
EveryGetMainSettles ==
    \A c \in Caps : cap[c] = "waiting" ~> cap[c] \in {"main", "broken"} \/ mute

(* A continuation of getMain() finds the Impl of the client it was called  *)
(* on, moved or not.                                                       *)
ImplIsFound == \A c \in Caps : cap[c] # "wild"
============================================================================
