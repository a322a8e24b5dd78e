--------------------------- MODULE MCUploadSession ---------------------------
(* Instances of UploadSession for TLC. *)
EXTENDS UploadSession, TLC

Symmetric ==
    Permutations(Preps) \cup Permutations(Uploads) \cup Permutations(Peers) \cup Permutations(Files)
=============================================================================
