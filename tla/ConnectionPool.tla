---------------------------- MODULE ConnectionPool ----------------------------
(***************************************************************************)
(* soci::connection_pool, POSIX implementation                             *)
(* (src/core/connection-pool.cpp): a vector of (free flag, session) pairs  *)
(* protected by one mutex, and one condition variable on which try_lease() *)
(* waits until a position is free.                                         *)
(*                                                                         *)
(* The mutex is explicit: every step between two releases of the mutex is  *)
(* an action, so that what happens between unblocking from the condition   *)
(* variable and owning the mutex again is an interleaving like any other.  *)
(* The deadline of try_lease() is an absolute time, computed once before   *)
(* the loop: it is modelled by "not yet passed" / "passed".                *)
(***************************************************************************)
EXTENDS Integers, FiniteSets

CONSTANTS Threads,     \* client threads
          Size,        \* number of pooled sessions
          NoThread,    \* "the mutex is free"
          Stray,       \* positions a client may give back without holding them
          WaitErrors,  \* may pthread_cond_[timed]wait() fail with EINVAL/EPERM?
          SignalLostOnTimeout
            \* may a wait that times out consume a signal that was directed
            \* at it at the same time?  (POSIX leaves this to the system.)

ASSUME PoolAssumption ==
    /\ IsFiniteSet(Threads)
    /\ NoThread \notin Threads
    /\ Size \in Nat \ {0}
    /\ Stray \subseteq Nat
    /\ WaitErrors \in BOOLEAN
    /\ SignalLostOnTimeout \in BOOLEAN

Slots == 0 .. Size - 1

VARIABLES
    free,     \* sessions_[s].first: position s is not leased
    mtx,      \* owner of mtx_
    waiters,  \* threads blocked on cond_
    pc,       \* where each thread is in try_lease() / give_back()
    timed,    \* the thread's call has a timeout (timeout >= 0)
    expired,  \* the thread's deadline has passed
    cc,       \* the thread's local variable cc
    pos,      \* the thread's position argument
    leases    \* positions each thread was granted and has not given back

vars == <<free, mtx, waiters, pc, timed, expired, cc, pos, leases>>

LeaseStates == {"lock", "loop", "wait", "relock", "exit"}
GiveBackStates == {"gb_lock", "gb"}
States == {"idle"} \cup LeaseStates \cup GiveBackStates

TypeOK ==
    /\ free \in [Slots -> BOOLEAN]
    /\ mtx \in Threads \cup {NoThread}
    /\ waiters \in SUBSET Threads
    /\ pc \in [Threads -> States]
    /\ timed \in [Threads -> BOOLEAN]
    /\ expired \in [Threads -> BOOLEAN]
    /\ cc \in [Threads -> {"0", "ETIMEDOUT", "EINVAL"}]
    /\ pos \in [Threads -> Slots]
    /\ leases \in [Threads -> SUBSET Slots]

FreeSlots == {s \in Slots : free[s]}

Init ==
    /\ free = [s \in Slots |-> TRUE]
    /\ mtx = NoThread
    /\ waiters = {}
    /\ pc = [t \in Threads |-> "idle"]
    /\ timed = [t \in Threads |-> FALSE]
    /\ expired = [t \in Threads |-> FALSE]
    /\ cc = [t \in Threads |-> "0"]
    /\ pos = [t \in Threads |-> 0]
    /\ leases = [t \in Threads |-> {}]

-------------------------------------------------------------------------------
(* try_lease() and lease()                                                 *)

\* The deadline of a call at the time tv_sec and tv_usec: the timeout, in milliseconds, is
\* added to both parts, with at most one carry.
Deadline(tv_sec, tv_usec, timeout) ==
    LET sec == tv_sec + timeout \div 1000
        nsec == tv_usec * 1000 + (timeout % 1000) * 1000 * 1000
    IN  IF nsec >= 1000 * 1000 * 1000 THEN [sec |-> sec + 1, nsec |-> nsec - 1000 * 1000 * 1000]
        ELSE [sec |-> sec, nsec |-> nsec]

\* A client calls lease() (b = FALSE) or try_lease() with a timeout (b = TRUE);
\* the deadline is computed before the mutex is taken.
TryLease(t, b) ==
    /\ pc[t] = "idle"
    /\ pc' = [pc EXCEPT ![t] = "lock"]
    /\ timed' = [timed EXCEPT ![t] = b]
    /\ UNCHANGED <<free, mtx, waiters, expired, cc, pos, leases>>

\* Time passes: the absolute deadline of a call in progress is reached.
DeadlinePasses(t) ==
    /\ pc[t] \in LeaseStates
    /\ timed[t] /\ ~ expired[t]
    /\ expired' = [expired EXCEPT ![t] = TRUE]
    /\ UNCHANGED <<free, mtx, waiters, pc, timed, cc, pos, leases>>

\* Mutation of LockForLease: the scoped lock is left out.
LockForLeaseUnlocked(t) ==
    /\ pc[t] = "lock"
    /\ mtx' = t
    /\ pc' = [pc EXCEPT ![t] = "loop"]
    /\ UNCHANGED <<free, waiters, timed, expired, cc, pos, leases>>

LockForLease(t) ==
    /\ pc[t] = "lock"
    /\ mtx = NoThread
    /\ mtx' = t
    /\ pc' = [pc EXCEPT ![t] = "loop"]
    /\ UNCHANGED <<free, waiters, timed, expired, cc, pos, leases>>

\* Mutation of FindFree: the search runs from the end.
FindFreeLast(t) ==
    /\ pc[t] = "loop"
    /\ \E s \in FreeSlots :
        /\ \A r \in FreeSlots : s >= r
        /\ pos' = [pos EXCEPT ![t] = s]
    /\ pc' = [pc EXCEPT ![t] = "exit"]
    /\ UNCHANGED <<free, mtx, waiters, timed, expired, cc, leases>>

\* find_free(): the first free position, if there is one, ends the loop.
FindFree(t) ==
    /\ pc[t] = "loop"
    /\ \E s \in FreeSlots :
        /\ \A r \in FreeSlots : s <= r
        /\ pos' = [pos EXCEPT ![t] = s]
    /\ pc' = [pc EXCEPT ![t] = "exit"]
    /\ UNCHANGED <<free, mtx, waiters, timed, expired, cc, leases>>

\* Mutation of CondWait: the deadline is computed anew for every wait.
CondWaitRelative(t) ==
    /\ pc[t] = "loop"
    /\ FreeSlots = {}
    /\ mtx' = NoThread
    /\ waiters' = waiters \cup {t}
    /\ pc' = [pc EXCEPT ![t] = "wait"]
    /\ expired' = [expired EXCEPT ![t] = FALSE]
    /\ UNCHANGED <<free, timed, cc, pos, leases>>

\* Nothing is free: pthread_cond_wait() or pthread_cond_timedwait() releases the
\* mutex and blocks.  A wait whose deadline has already passed does not block.
CondWait(t) ==
    /\ pc[t] = "loop"
    /\ FreeSlots = {}
    /\ mtx' = NoThread
    /\ IF expired[t]
       THEN /\ cc' = [cc EXCEPT ![t] = "ETIMEDOUT"]
            /\ pc' = [pc EXCEPT ![t] = "relock"]
            /\ UNCHANGED waiters
       ELSE /\ waiters' = waiters \cup {t}
            /\ pc' = [pc EXCEPT ![t] = "wait"]
            /\ UNCHANGED cc
    /\ UNCHANGED <<free, timed, expired, pos, leases>>

\* The wait fails at once (EINVAL, EPERM), still owning the mutex.
CondWaitFails(t) ==
    /\ WaitErrors
    /\ pc[t] = "loop"
    /\ FreeSlots = {}
    /\ cc' = [cc EXCEPT ![t] = "EINVAL"]
    /\ pc' = [pc EXCEPT ![t] = "exit"]
    /\ UNCHANGED <<free, mtx, waiters, timed, expired, pos, leases>>

\* A wait may return 0 without any signal.
SpuriousWakeup(t) ==
    /\ pc[t] = "wait"
    /\ waiters' = waiters \ {t}
    /\ pc' = [pc EXCEPT ![t] = "relock"]
    /\ UNCHANGED <<free, mtx, timed, expired, cc, pos, leases>>

\* The wait times out: while blocked or, where the system lets a timeout
\* consume a concurrent signal, after it had been unblocked by a signal.
CondTimeout(t) ==
    /\ expired[t]
    /\ \/ pc[t] = "wait"
       \/ SignalLostOnTimeout /\ pc[t] = "relock" /\ cc[t] = "0"
    /\ waiters' = waiters \ {t}
    /\ cc' = [cc EXCEPT ![t] = "ETIMEDOUT"]
    /\ pc' = [pc EXCEPT ![t] = "relock"]
    /\ UNCHANGED <<free, mtx, timed, expired, pos, leases>>

\* The wait returns once it owns the mutex again.  The loop goes on after 0 and
\* is left after a timeout, without another look at the free flags.
Relock(t) ==
    /\ pc[t] = "relock"
    /\ mtx = NoThread
    /\ mtx' = t
    /\ pc' = [pc EXCEPT ![t] = IF cc[t] = "0" THEN "loop" ELSE "exit"]
    /\ UNCHANGED <<free, waiters, timed, expired, cc, pos, leases>>

\* The locals of a call do not outlive it.
EndCall(t) ==
    /\ timed' = [timed EXCEPT ![t] = FALSE]
    /\ expired' = [expired EXCEPT ![t] = FALSE]
    /\ cc' = [cc EXCEPT ![t] = "0"]
    /\ pos' = [pos EXCEPT ![t] = 0]

\* After the loop: mark the position used and return true; or hand out nothing,
\* by returning false (a call with a timeout) or by throwing (one without).
\* Either way the scoped lock is released.
FinishLease(t) ==
    /\ pc[t] = "exit"
    /\ mtx' = NoThread
    /\ pc' = [pc EXCEPT ![t] = "idle"]
    /\ \/ /\ cc[t] = "0"
          /\ free' = [free EXCEPT ![pos[t]] = FALSE]
          /\ leases' = [leases EXCEPT ![t] = @ \cup {pos[t]}]
       \/ /\ cc[t] # "0"
          /\ UNCHANGED <<free, leases>>
    /\ EndCall(t)
    /\ UNCHANGED waiters

-------------------------------------------------------------------------------
(* give_back()                                                             *)

\* The position is checked against the (immutable) pool size before locking:
\* a position out of range throws and changes nothing.
GiveBack(t, p) ==
    /\ pc[t] = "idle"
    /\ \/ /\ p >= Size
          /\ UNCHANGED <<pc, pos>>
       \/ /\ p < Size
          /\ pos' = [pos EXCEPT ![t] = p]
          /\ pc' = [pc EXCEPT ![t] = "gb_lock"]
    /\ UNCHANGED <<free, mtx, waiters, timed, expired, cc, leases>>

LockForGiveBack(t) ==
    /\ pc[t] = "gb_lock"
    /\ mtx = NoThread
    /\ mtx' = t
    /\ pc' = [pc EXCEPT ![t] = "gb"]
    /\ UNCHANGED <<free, waiters, timed, expired, cc, pos, leases>>

\* Mutation of SignalAndLeave: the signal is forgotten.
LeaveWithoutSignal(t) ==
    /\ pc' = [pc EXCEPT ![t] = "idle"]
    /\ UNCHANGED waiters

\* pthread_cond_signal(): unblocks one of the waiting threads, if there are any;
\* t becomes idle in the same step.
SignalAndLeave(t) ==
    \/ /\ waiters = {}
       /\ pc' = [pc EXCEPT ![t] = "idle"]
       /\ UNCHANGED waiters
    \/ \E w \in waiters :
        /\ waiters' = waiters \ {w}
        /\ pc' = [pc EXCEPT ![t] = "idle", ![w] = "relock"]

\* Giving back a position that is already free throws; otherwise the position
\* becomes free and one waiter is signalled, all under the mutex.
FinishGiveBack(t) ==
    /\ pc[t] = "gb"
    /\ mtx' = NoThread
    /\ \/ /\ free[pos[t]]
          /\ pc' = [pc EXCEPT ![t] = "idle"]
          /\ UNCHANGED <<free, waiters, leases>>
       \/ /\ ~ free[pos[t]]
          /\ free' = [free EXCEPT ![pos[t]] = TRUE]
          /\ leases' = [leases EXCEPT ![t] = @ \ {pos[t]}]
          /\ SignalAndLeave(t)
    /\ EndCall(t)

-------------------------------------------------------------------------------

Next ==
    \E t \in Threads :
        \/ \E b \in BOOLEAN : TryLease(t, b)
        \/ DeadlinePasses(t)
        \/ LockForLease(t)
        \/ FindFree(t)
        \/ CondWait(t)
        \/ CondWaitFails(t)
        \/ SpuriousWakeup(t)
        \/ CondTimeout(t)
        \/ Relock(t)
        \/ FinishLease(t)
        \/ \E p \in leases[t] \cup Stray : GiveBack(t, p)
        \/ LockForGiveBack(t)
        \/ FinishGiveBack(t)

Spec == Init /\ [][Next]_vars

(* Fairness.  Clients need never call, and nothing makes a wait return     *)
(* spuriously or fail.  A thread that can run runs, time passes, and a     *)
(* thread asking for a mutex that is free again and again gets it.         *)
Fairness ==
    \A t \in Threads :
        /\ WF_vars(\/ FindFree(t) \/ CondWait(t) \/ CondTimeout(t)
                   \/ FinishLease(t) \/ FinishGiveBack(t))
        /\ WF_vars(DeadlinePasses(t))
        /\ SF_vars(LockForLease(t) \/ Relock(t) \/ LockForGiveBack(t))

FairSpec == Spec /\ Fairness

-------------------------------------------------------------------------------
(* Properties                                                              *)

\* Clients give back only positions they hold (or positions out of range).
Disciplined == Stray \cap Slots = {}

\* Whatever try_lease() and give_back() interleave, no position is leased to
\* two threads, and the free flags say exactly which positions are leased.
ExclusiveLeases ==
    /\ \A t, u \in Threads : t # u => leases[t] \cap leases[u] = {}
    /\ \A s \in Slots : free[s] <=> \A t \in Threads : s \notin leases[t]

\* Threads on their way to look at the free flags: woken by a return of 0 from
\* the wait, at the head of the loop, or about to mark the position they found.
Pending == {t \in Threads : \/ pc[t] = "loop"
                            \/ pc[t] \in {"relock", "exit"} /\ cc[t] = "0"}

\* No lost wakeup: while a thread is blocked on the condition variable, some
\* thread is on its way to every free position.  give_back() signals only one
\* waiter, and a barging try_lease() may take the position from it.
NoStrandedWaiter ==
    waiters # {} => Cardinality(FreeSlots) <= Cardinality(Pending)

\* A call with a timeout returns, with or without a position, however often it
\* is woken up in vain: the deadline is absolute.
TimedLeaseReturns ==
    \A t \in Threads :
        (pc[t] \in LeaseStates /\ timed[t]) ~> (pc[t] = "idle")

\* A free position and a thread blocked in lease() do not stay together for
\* ever: CHANGES names a deadlock of try_lease() as fixed.
FreePositionIsTaken ==
    (waiters # {} /\ FreeSlots # {}) ~> (waiters = {} \/ FreeSlots = {})

\* The pool implements PoolSpec: want is the request of a thread inside
\* try_lease().
Want == [t \in Threads |-> IF pc[t] \notin LeaseStates THEN "none"
                           ELSE IF timed[t] THEN "timed" ELSE "blocking"]

Abstract == INSTANCE PoolSpec WITH want <- Want

ImplementsPoolSpec == Abstract!Spec
===============================================================================
