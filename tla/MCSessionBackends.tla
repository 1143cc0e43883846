--------------------------- MODULE MCSessionBackends ---------------------------
(* Instances of SessionBackends for TLC.                                   *)
EXTENDS SessionBackends, TLC

\* Sessions, other parameter objects, references and names are interchangeable.
SessionBackendsSymmetry ==
    Permutations(Names) \cup Permutations(Sessions) \cup
    Permutations(Params \ Sessions) \cup Permutations(Refs)
===============================================================================
