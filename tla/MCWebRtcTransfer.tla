------------------------ MODULE MCWebRtcTransfer ------------------------
(* Instances of WebRtcTransfer for TLC. *)
EXTENDS WebRtcTransfer

\* Files are numbers; file n is declared with n - 1 messages.
MCSize == [f \in Files |-> f - 1]
=============================================================================
