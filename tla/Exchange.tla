------------------------------- MODULE Exchange -------------------------------
(***************************************************************************)
(* A statement with one element, used in the one direction or the other.   *)
(***************************************************************************)
EXTENDS UseExchange, IntoExchange

Init ==
    /\ shape \in Shapes
    /\ end \in Ends
    /\ last = NotUsed
    /\ UseInit \/ IntoInit

Next == UseNext \/ IntoNext

Spec == Init /\ [][Next]_vars

===============================================================================
