-------------------------- MODULE MCBlockResidency --------------------------
(* Instances of BlockResidency for TLC. *)
EXTENDS BlockResidency, TLC

(* Nodes are interchangeable, and so are the migrations. *)
Symmetric == Permutations(Node) \cup Permutations(Migration)

=============================================================================
