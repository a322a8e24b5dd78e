---------------------------- MODULE MCMulticast ----------------------------
(* The multicast sockets and two discovery instances, for TLC. *)
EXTENDS Multicast
=============================================================================
