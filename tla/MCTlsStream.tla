----------------------------- MODULE MCTlsStream ----------------------------
(* Instance of TlsStream for TLC. *)
EXTENDS TlsStream, TLC
=============================================================================
