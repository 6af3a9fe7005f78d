---------------------------- MODULE MCTensorStore ----------------------------
(* Instances of TensorStore for TLC. *)
EXTENDS TensorStore, TLC

(* The handles that are not weights at the start are interchangeable. *)
Symmetric == Permutations(Tensor \ Initial)

=============================================================================
