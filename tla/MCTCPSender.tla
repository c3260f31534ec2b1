----------------------------- MODULE MCTCPSender -----------------------------
(* Small instances of TCPSenderSpec.                                         *)
EXTENDS TCPSenderSpec
=============================================================================
