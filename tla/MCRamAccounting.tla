--------------------------- MODULE MCRamAccounting ---------------------------
(* Instances of RamAccounting for TLC. *)
EXTENDS RamAccounting, TLC

(* Requests of one kind are interchangeable. *)
Symmetric == Permutations(Payload) \cup Permutations(Staging)
               \cup Permutations(Relay)

=============================================================================
