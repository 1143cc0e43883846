-------------------------- MODULE MCConnectionPoolWin --------------------------
(* Instances of ConnectionPoolWin for TLC.                                 *)
EXTENDS ConnectionPoolWin, TLC

\* Threads are interchangeable.
ThreadSymmetry == Permutations(Threads)

\* Clients that also pass a position out of range.
OutOfRange == {Size}
===============================================================================
