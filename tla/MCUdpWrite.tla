----------------------------- MODULE MCUdpWrite ------------------------------
(* Instances of UdpWrite for TLC. *)
EXTENDS UdpWrite, TLC

(* Tasks are interchangeable. *)
Symmetric == Permutations(Task)

=============================================================================
