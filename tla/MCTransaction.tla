---------------------------- MODULE MCTransaction ----------------------------
(* Instances of Transaction for TLC.                                       *)
EXTENDS Transaction, TLC

Symmetry == Permutations(Objects) \cup Permutations(Writes)

===============================================================================
