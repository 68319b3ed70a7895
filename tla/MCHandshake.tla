----------------------------- MODULE MCHandshake -----------------------------
(* Handshake with two application IDs and two long-term keys, so that each  *)
(* kind of misconfiguration is present among the initial states.            *)
EXTENDS HandshakeInvariant
============================================================================
