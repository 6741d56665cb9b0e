----------------------------- MODULE MCFinalize -----------------------------
(* Instances of Finalize for TLC. *)
EXTENDS Finalize, TLC

CONSTANTS o1, o2, k1, k2

MCSymmetry == Permutations(Outputs) \cup Permutations(Killers)

=============================================================================
