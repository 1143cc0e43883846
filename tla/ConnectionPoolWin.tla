--------------------------- MODULE ConnectionPoolWin ---------------------------
(***************************************************************************)
(* soci::connection_pool, Windows implementation                           *)
(* (src/core/connection-pool.cpp): a semaphore counts the free positions   *)
(* and a critical section protects the free flags.  The semaphore is       *)
(* waited for before the critical section is entered, so the count and the *)
(* flags disagree for a while; that they never disagree too much is what   *)
(* makes the "this should be impossible" exception unreachable.            *)
(***************************************************************************)
EXTENDS Integers, FiniteSets

CONSTANTS Threads, Size, NoThread, Stray, WaitErrors

ASSUME WinPoolAssumption ==
    /\ IsFiniteSet(Threads)
    /\ NoThread \notin Threads
    /\ Size \in Nat \ {0}
    /\ Stray \subseteq Nat
    /\ WaitErrors \in BOOLEAN

Slots == 0 .. Size - 1

VARIABLES
    free,   \* sessions_[s].first
    mtx,    \* owner of mtx_
    sem,    \* count of sem_
    pc,     \* where each thread is
    timed,  \* the thread's call has a timeout
    pos,    \* the thread's position argument
    leases  \* positions each thread was granted and has not given back

vars == <<free, mtx, sem, pc, timed, pos, leases>>

LeaseStates == {"sem", "lock", "find", "lost"}
States == {"idle", "gb_lock", "gb"} \cup LeaseStates

TypeOK ==
    /\ free \in [Slots -> BOOLEAN]
    /\ mtx \in Threads \cup {NoThread}
    /\ sem \in 0 .. Size
    /\ pc \in [Threads -> States]
    /\ timed \in [Threads -> BOOLEAN]
    /\ pos \in [Threads -> Slots]
    /\ leases \in [Threads -> SUBSET Slots]

FreeSlots == {s \in Slots : free[s]}

\* The semaphore starts at, and is limited to, the pool size.
Init ==
    /\ free = [s \in Slots |-> TRUE]
    /\ mtx = NoThread
    /\ sem = Size
    /\ pc = [t \in Threads |-> "idle"]
    /\ timed = [t \in Threads |-> FALSE]
    /\ pos = [t \in Threads |-> 0]
    /\ leases = [t \in Threads |-> {}]

-------------------------------------------------------------------------------
(* try_lease() and lease()                                                 *)

TryLease(t, b) ==
    /\ pc[t] = "idle"
    /\ pc' = [pc EXCEPT ![t] = "sem"]
    /\ timed' = [timed EXCEPT ![t] = b]
    /\ UNCHANGED <<free, mtx, sem, pos, leases>>

\* WaitForSingleObject() returns WAIT_OBJECT_0.
SemaphoreAcquired(t) ==
    /\ pc[t] = "sem"
    /\ sem > 0
    /\ sem' = sem - 1
    /\ pc' = [pc EXCEPT ![t] = "lock"]
    /\ UNCHANGED <<free, mtx, timed, pos, leases>>

\* WaitForSingleObject() returns WAIT_TIMEOUT (return false) or fails (throw).
SemaphoreWaitFails(t) ==
    /\ pc[t] = "sem"
    /\ timed[t] \/ WaitErrors
    /\ pc' = [pc EXCEPT ![t] = "idle"]
    /\ timed' = [timed EXCEPT ![t] = FALSE]
    /\ UNCHANGED <<free, mtx, sem, pos, leases>>

LockForLease(t) ==
    /\ pc[t] = "lock"
    /\ mtx = NoThread
    /\ mtx' = t
    /\ pc' = [pc EXCEPT ![t] = "find"]
    /\ UNCHANGED <<free, sem, timed, pos, leases>>

\* Mutation of FirstFree: the search runs from the end.
LastFree ==
    IF FreeSlots = {} THEN Size
    ELSE CHOOSE s \in FreeSlots : \A r \in FreeSlots : s >= r

\* The first free position; a value outside Slots when there is none.
FirstFree ==
    IF FreeSlots = {} THEN Size
    ELSE CHOOSE s \in FreeSlots : \A r \in FreeSlots : s <= r

\* find_free() and the marking of what it found, under the critical section.
\* Finding nothing throws ("this should be impossible"): the thread would be
\* "lost", with the count of the semaphore taken and not given back.
TakePosition(t) ==
    LET s == FirstFree IN
    /\ pc[t] = "find"
    /\ mtx' = NoThread
    /\ pc' = [pc EXCEPT ![t] = IF s \in Slots THEN "idle" ELSE "lost"]
    /\ free' = [r \in Slots |-> free[r] /\ r # s]
    /\ leases' = [leases EXCEPT ![t] = @ \cup ({s} \cap Slots)]
    /\ timed' = [timed EXCEPT ![t] = FALSE]
    /\ UNCHANGED <<sem, pos>>

-------------------------------------------------------------------------------
(* give_back()                                                             *)

\* Mutation of GiveBack: the semaphore is released before the critical section.
GiveBackReleasesFirst(t, p) ==
    /\ pc[t] = "idle"
    /\ p < Size
    /\ pos' = [pos EXCEPT ![t] = p]
    /\ pc' = [pc EXCEPT ![t] = "gb_lock"]
    /\ sem' = IF sem < Size THEN sem + 1 ELSE sem
    /\ UNCHANGED <<free, mtx, timed, leases>>

\* A position out of range throws before the critical section is entered.
GiveBack(t, p) ==
    /\ pc[t] = "idle"
    /\ \/ /\ p >= Size
          /\ UNCHANGED <<pc, pos>>
       \/ /\ p < Size
          /\ pos' = [pos EXCEPT ![t] = p]
          /\ pc' = [pc EXCEPT ![t] = "gb_lock"]
    /\ UNCHANGED <<free, mtx, sem, timed, leases>>

LockForGiveBack(t) ==
    /\ pc[t] = "gb_lock"
    /\ mtx = NoThread
    /\ mtx' = t
    /\ pc' = [pc EXCEPT ![t] = "gb"]
    /\ UNCHANGED <<free, sem, timed, pos, leases>>

\* Giving back a position that is already free throws; otherwise it becomes
\* free and ReleaseSemaphore() adds one to the count, unless that would exceed
\* the maximum.
FinishGiveBack(t) ==
    /\ pc[t] = "gb"
    /\ mtx' = NoThread
    /\ pc' = [pc EXCEPT ![t] = "idle"]
    /\ pos' = [pos EXCEPT ![t] = 0]
    /\ \/ /\ free[pos[t]]
          /\ UNCHANGED <<free, sem, leases>>
       \/ /\ ~ free[pos[t]]
          /\ free' = [free EXCEPT ![pos[t]] = TRUE]
          /\ leases' = [leases EXCEPT ![t] = @ \ {pos[t]}]
          /\ sem' = IF sem < Size THEN sem + 1 ELSE sem
    /\ UNCHANGED timed

-------------------------------------------------------------------------------

Next ==
    \E t \in Threads :
        \/ \E b \in BOOLEAN : TryLease(t, b)
        \/ SemaphoreAcquired(t)
        \/ SemaphoreWaitFails(t)
        \/ LockForLease(t)
        \/ TakePosition(t)
        \/ \E p \in leases[t] \cup Stray : GiveBack(t, p)
        \/ LockForGiveBack(t)
        \/ FinishGiveBack(t)

Spec == Init /\ [][Next]_vars

-------------------------------------------------------------------------------
(* Properties                                                              *)

\* Clients give back only positions they hold (or positions out of range).
Disciplined == Stray \cap Slots = {}

\* Threads that have taken one from the semaphore and no position yet.
Entitled == {t \in Threads : pc[t] \in {"lock", "find"}}

\* At every instant the semaphore and the threads between the semaphore and
\* the critical section together account for the free flags: the semaphore is
\* waited for outside the critical section and released inside it, and
\* ReleaseSemaphore() never meets its limit.
SemaphoreCountsFree ==
    sem + Cardinality(Entitled) = Cardinality(FreeSlots)

\* The exception commented "this should be impossible" is: a thread that has
\* the semaphore finds a free position, whatever clients give back.
FreeEntryFound ==
    \A t \in Threads : /\ pc[t] \in {"lock", "find"} => FreeSlots # {}
                       /\ pc[t] # "lost"

\* No position is leased to two threads, and the flags say which are leased.
ExclusiveLeases ==
    /\ \A t, u \in Threads : t # u => leases[t] \cap leases[u] = {}
    /\ \A s \in Slots : free[s] <=> \A t \in Threads : s \notin leases[t]

\* The Windows pool implements the same specification as the POSIX one.
Want == [t \in Threads |-> IF pc[t] \notin LeaseStates THEN "none"
                           ELSE IF timed[t] THEN "timed" ELSE "blocking"]

Abstract == INSTANCE PoolSpec WITH want <- Want

ImplementsPoolSpec == Abstract!Spec
===============================================================================
