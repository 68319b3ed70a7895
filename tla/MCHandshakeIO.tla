---------------------------- MODULE MCHandshakeIO ----------------------------
(* HandshakeIO with messages of two and three bytes.                         *)
EXTENDS HandshakeIO
============================================================================
