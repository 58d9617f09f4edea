---------------------------- MODULE MCConnections ----------------------------
(* Instance of the accept loop for TLC. *)
EXTENDS Connections
=============================================================================
