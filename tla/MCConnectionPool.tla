--------------------------- MODULE MCConnectionPool ---------------------------
(* Instances of ConnectionPool for TLC.                                    *)
EXTENDS ConnectionPool

\* Clients that pass a position out of range.
OutOfRange == {Size}
===============================================================================
