---------------------------- MODULE MCDiscovery ----------------------------
(* Staged discoveries and a scan of the application, for TLC. *)
EXTENDS Discovery
=============================================================================
