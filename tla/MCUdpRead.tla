------------------------------ MODULE MCUdpRead ------------------------------
(* Instances of UdpRead for TLC. *)
EXTENDS UdpRead

=============================================================================
