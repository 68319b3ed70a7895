------------------------ MODULE HandshakeIOInvariant -------------------------
(***************************************************************************)
(* The inductive invariant of HandshakeIO: how the bytes of the one        *)
(* message under way are spread over the sender's buffer, the wire and the *)
(* reader's buffer, and how far apart the two peers can be.                *)
(***************************************************************************)
EXTENDS HandshakeIO

ByteSet == [msg : Messages \cup {Unset}, left : Nat, good : BOOLEAN]

TypeInv ==
    /\ step \in [Peers -> Steps]
    /\ open \in [Peers -> BOOLEAN]
    /\ style \in [Peers -> {"whole", "chunked"}]
    /\ asked \in [Peers -> BOOLEAN]
    /\ inBuf \in [Peers -> Seq(ByteSet)]
    /\ outBuf \in [Peers -> Seq(ByteSet)]
    /\ wire \in [Peers -> Seq(ByteSet)]
    /\ written \in [Peers -> Nat]
    /\ data \in [Peers -> Nat]

(* It is p's turn: it has a message to send, or to go on sending.          *)
AboutToSend(p) == Sends(p, step[p]) /\ ~isSent[p]

(* How far p is, a message counting as soon as all of it is written, and   *)
(* the size of the message that p awaits there.                            *)
Pos(p)  == IF isSent[p] THEN step[p] + 1 ELSE step[p]
Want(p) == IF Receives(p, Pos(p)) THEN MessageSize(Pos(p)) ELSE 0

(* What p has still to send of its message. *)
Rest(p) == IF outBuf[p] = <<>> THEN MessageSize(step[p])
           ELSE Len(outBuf[p]) - written[p]

(* The output is the rest of one message, and goes with the interface in   *)
(* use; session data come from a finished peer only.                       *)
OutputInv(p) ==
    /\ outBuf[p] # <<>> =>
          /\ Len(outBuf[p]) <= MessageSize(step[p])
          /\ outBuf[p] = Bytes(outBuf[p][1].msg, Len(outBuf[p]))
          /\ outBuf[p][1].msg # Unset
          /\ Boxes(step[p], outBuf[p][1].msg) \subseteq boxed
    /\ style[p] = "chunked" => written[p] = 0 /\ ~asked[p]
    /\ data[p] > 0 => step[p] = Finished

(* The peers keep together, and the one about to send is not ahead.        *)
TurnInv(p) ==
    step[p] # Failed /\ step[Other(p)] # Failed =>
        /\ Pos(p) <= Pos(Other(p)) + 1
        /\ AboutToSend(p) => Pos(Other(p)) = Pos(p)

(* What is under way from p: the first bytes of the message the other peer *)
(* awaits, if it awaits one, and session data behind it.                   *)
Shape(w, n) ==
    \A i \in DOMAIN w :
        /\ i <= n => /\ w[i].msg = w[1].msg /\ w[i].msg # Unset
                     /\ w[i].left = n - i
        /\ i > n => w[i] = DataByte(i - n)
FlowInv(p) ==
    /\ Shape(InFlight(p), Want(Other(p)))
    /\ AboutToSend(p) /\ outBuf[p] # <<>> /\ InFlight(p) # <<>> =>
          InFlight(p)[1].msg = outBuf[p][1].msg

(* How much of it: all that p has sent, unless p was dropped.              *)
Due(p) ==
    IF AboutToSend(p) THEN Want(Other(p)) - Rest(p)
    ELSE data[p] + IF Pos(p) = Pos(Other(p)) + 1 THEN Want(Other(p)) ELSE 0
LengthInv(p) ==
    /\ step[p] # Failed /\ open[p] => Len(InFlight(p)) = Due(p)
    /\ step[p] # Failed /\ step[Other(p)] # Failed => Len(InFlight(p)) <= Due(p)

(* A peer that failed has nothing under way to a peer that could read it,  *)
(* nor has that one the turn.                                              *)
FailedInv(p) ==
    step[p] = Failed =>
        /\ open[Other(p)] => InFlight(p) = <<>> /\ ~AboutToSend(Other(p))
        /\ open[p] => \/ InFlight(p) = <<>>
                      \/ Len(InFlight(p)) >= Want(Other(p))

FlightInv(p) == TurnInv(p) /\ FlowInv(p) /\ LengthInv(p) /\ FailedInv(p)

(* The bytes in the buffers and under way are those of the one message     *)
(* whose turn it is, each in one place, and session data.                  *)
IOInv == /\ TypeInv /\ BuffersMatchStep
         /\ \A p \in Peers : OutputInv(p) /\ FlightInv(p)

(* A refused input is no session data either; and a peer that failed has   *)
(* nothing under way to one that is done.                                  *)
LeftInv ==
    \A p \in Peers : step[p] = Failed =>
        /\ \A i \in DOMAIN inBuf[p] : inBuf[p][i].msg # Unset
        /\ Pos(Other(p)) = Finished => InFlight(p) = <<>>
============================================================================
