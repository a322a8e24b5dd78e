---------------------------- MODULE MCCliReceive ----------------------------
(* One session of one file and three uploads of it, for TLC. *)
EXTENDS CliReceive
=============================================================================
