----------------------------- MODULE MCTcpChunk ------------------------------
(* Instances of TcpChunk for TLC. *)
EXTENDS TcpChunk

=============================================================================
