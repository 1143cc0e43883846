----------------------------- MODULE MCSimpleApi -----------------------------
(* Instances of SimpleApi for TLC.                                         *)
EXTENDS SimpleApi, TLC

\* Names, values and blobs can be exchanged for each other.
Symmetry == Permutations(Names) \cup Permutations(Values) \cup Permutations(Blobs)

===============================================================================
