---------------------------- MODULE MCSessionHandle ----------------------------
(* Instances of SessionHandle for TLC.                                     *)
EXTENDS SessionHandle, TLC

\* Program-owned sessions and backends are interchangeable; positions are not.
SessionSymmetry == Permutations(Handles) \cup Permutations(Conns)
===============================================================================
