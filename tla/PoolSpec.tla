------------------------------- MODULE PoolSpec -------------------------------
(***************************************************************************)
(* What soci::connection_pool promises its clients, with no mutex,         *)
(* condition variable or semaphore: a fixed number of positions, each      *)
(* leased to at most one client at a time.  A client asks for a position   *)
(* with lease() (unlimited blocking) or try_lease() (with a timeout); the  *)
(* request ends by a grant of the first unleased position or, for a        *)
(* request with a timeout, by a refusal.  Both the POSIX and the Windows   *)
(* implementations are shown to implement this module.                     *)
(***************************************************************************)
EXTENDS Integers

CONSTANTS Threads,    \* the client threads
          Size,       \* the pool size
          WaitErrors  \* may the operating system's wait primitive fail?

Slots == 0 .. Size - 1

VARIABLES leases,  \* leases[t]: the positions thread t holds
          want     \* want[t]: the request of thread t that is being served

poolVars == <<leases, want>>

Leased(s) == \E t \in Threads : s \in leases[t]

Init ==
    /\ leases = [t \in Threads |-> {}]
    /\ want = [t \in Threads |-> "none"]

\* A client calls lease() or try_lease().
Request(t, kind) ==
    /\ want[t] = "none"
    /\ want' = [want EXCEPT ![t] = kind]
    /\ UNCHANGED leases

\* The request ends with the first position nobody holds.
Grant(t, s) ==
    /\ want[t] # "none"
    /\ ~ Leased(s)
    /\ \A r \in Slots : r < s => Leased(r)
    /\ leases' = [leases EXCEPT ![t] = @ \cup {s}]
    /\ want' = [want EXCEPT ![t] = "none"]

\* The request ends with no position: only one with a timeout may, unless the
\* wait primitive itself reports an error.
Refuse(t) ==
    /\ want[t] = "timed" \/ (WaitErrors /\ want[t] = "blocking")
    /\ want' = [want EXCEPT ![t] = "none"]
    /\ UNCHANGED leases

\* give_back() of a position the thread holds.
Return(t, s) ==
    /\ want[t] = "none"
    /\ s \in leases[t]
    /\ leases' = [leases EXCEPT ![t] = @ \ {s}]
    /\ UNCHANGED want

Next ==
    \E t \in Threads :
        \/ \E kind \in {"blocking", "timed"} : Request(t, kind)
        \/ \E s \in Slots : Grant(t, s) \/ Return(t, s)
        \/ Refuse(t)

Spec == Init /\ [][Next]_poolVars
===============================================================================
