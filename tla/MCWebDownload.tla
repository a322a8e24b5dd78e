---------------------------- MODULE MCWebDownload ----------------------------
(* Instances of WebDownload for TLC. *)
EXTENDS WebDownload, TLC

Symmetric == Permutations(Reqs) \cup Permutations(Dls) \cup Permutations(Ips)
=============================================================================
