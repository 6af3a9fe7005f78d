----------------------------- MODULE MCFailover ------------------------------
(* Instances of Failover for TLC. *)
EXTENDS Failover, TLC

(* With no compute node among them and an heir that is none of them (to    *)
(* check CopyFound), the owners are interchangeable.                       *)
Symmetric == Permutations(Node)

=============================================================================
