------------------------- MODULE ConnectionPoolProofs -------------------------
(***************************************************************************)
(* Proofs about ConnectionPool, for any number of threads and positions.   *)
(* Everything rests on one inductive invariant: what the program counter   *)
(* of a thread says about the mutex, the wait set and its locals.          *)
(***************************************************************************)
EXTENDS ConnectionPool, FiniteSetTheorems, TLAPS

\* The mutex is owned exactly by the thread inside a critical section.
MutexInv == \A t \in Threads : mtx = t <=> pc[t] \in {"loop", "exit", "gb"}

\* The threads blocked on the condition variable are those inside the wait.
WaitersInv == waiters = {t \in Threads : pc[t] = "wait"}

\* cc is 0 until a wait has returned; an error has a reason.
ResultInv ==
    \A t \in Threads :
        /\ pc[t] \notin {"relock", "exit"} => cc[t] = "0"
        /\ expired[t] => timed[t] /\ pc[t] \in LeaseStates
        /\ cc[t] = "ETIMEDOUT" => timed[t]
        /\ cc[t] = "EINVAL" => WaitErrors

\* A thread about to mark a position holds the first free one.
FoundInv ==
    \A t \in Threads :
        pc[t] = "exit" /\ cc[t] = "0" =>
            free[pos[t]] /\ \A s \in Slots : free[s] => pos[t] <= s

IInv == TypeOK /\ MutexInv /\ WaitersInv /\ ResultInv /\ FoundInv

\* One thread's step, as in the body of Next.
ThreadStep(t) ==
    \/ \E b \in BOOLEAN : TryLease(t, b)
    \/ DeadlinePasses(t)
    \/ LockForLease(t)
    \/ FindFree(t)
    \/ CondWait(t)
    \/ CondWaitFails(t)
    \/ SpuriousWakeup(t)
    \/ CondTimeout(t)
    \/ Relock(t)
    \/ FinishLease(t)
    \/ \E p \in leases[t] \cup Stray : GiveBack(t, p)
    \/ LockForGiveBack(t)
    \/ FinishGiveBack(t)

LEMMA InitIInv == Init => IInv
  BY PoolAssumption
  DEF Init, IInv, TypeOK, MutexInv, WaitersInv, ResultInv, FoundInv, Slots,
      States, LeaseStates, GiveBackStates

\* Every step preserves the types.
LEMMA NextTypeOK ==
  ASSUME TypeOK, NEW t \in Threads, ThreadStep(t)
  PROVE  TypeOK'
<1> USE PoolAssumption DEF TypeOK, States, LeaseStates, GiveBackStates
<1>0. 0 \in Slots
  BY DEF Slots
<1>1. CASE \E b \in BOOLEAN : TryLease(t, b)
  BY <1>1 DEF TryLease
<1>2. CASE DeadlinePasses(t)
  BY <1>2 DEF DeadlinePasses
<1>3. CASE LockForLease(t)
  BY <1>3 DEF LockForLease
<1>4. CASE FindFree(t)
  BY <1>4 DEF FindFree, FreeSlots
<1>5. CASE CondWait(t)
  BY <1>5 DEF CondWait
<1>6. CASE CondWaitFails(t)
  BY <1>6 DEF CondWaitFails
<1>7. CASE SpuriousWakeup(t)
  BY <1>7 DEF SpuriousWakeup
<1>8. CASE CondTimeout(t)
  BY <1>8 DEF CondTimeout
<1>9. CASE Relock(t)
  BY <1>9 DEF Relock
<1>10. CASE FinishLease(t)
  <2>1. leases' \in [Threads -> SUBSET Slots]
    BY <1>10 DEF FinishLease
  <2>4. free' \in [Slots -> BOOLEAN]
    BY <1>10 DEF FinishLease
  <2>2. pos' \in [Threads -> Slots]
    BY <1>10, <1>0 DEF FinishLease, EndCall
  <2> QED
    BY <1>10, <2>1, <2>4, <2>2 DEF FinishLease, EndCall
<1>11. CASE \E p \in leases[t] \cup Stray : GiveBack(t, p)
  BY <1>11 DEF GiveBack, Slots
<1>12. CASE LockForGiveBack(t)
  BY <1>12 DEF LockForGiveBack
<1>13. CASE FinishGiveBack(t)
  <2>1. leases' \in [Threads -> SUBSET Slots]
    BY <1>13 DEF FinishGiveBack
  <2>4. free' \in [Slots -> BOOLEAN]
    BY <1>13 DEF FinishGiveBack
  <2>2. pos' \in [Threads -> Slots]
    BY <1>13, <1>0 DEF FinishGiveBack, EndCall
  <2>3. pc' \in [Threads -> States] /\ waiters' \in SUBSET Threads
    BY <1>13 DEF FinishGiveBack, SignalAndLeave
  <2> QED
    BY <1>13, <2>1, <2>4, <2>2, <2>3 DEF FinishGiveBack, EndCall
<1> QED
  BY <1>1, <1>2, <1>3, <1>4, <1>5, <1>6, <1>7, <1>8, <1>9, <1>10, <1>11,
     <1>12, <1>13 DEF ThreadStep

\* Every step preserves what the program counters say.
LEMMA NextControl ==
  ASSUME IInv, NEW t \in Threads, ThreadStep(t)
  PROVE  MutexInv' /\ WaitersInv' /\ ResultInv' /\ FoundInv'
<1> USE PoolAssumption
    DEF IInv, TypeOK, MutexInv, WaitersInv, ResultInv, FoundInv, LeaseStates
<1>1. CASE \E b \in BOOLEAN : TryLease(t, b)
  BY <1>1 DEF TryLease
<1>2. CASE DeadlinePasses(t)
  BY <1>2 DEF DeadlinePasses
<1>3. CASE LockForLease(t)
  BY <1>3 DEF LockForLease
<1>4. CASE FindFree(t)
  BY <1>4 DEF FindFree, FreeSlots
<1>5. CASE CondWait(t)
  BY <1>5 DEF CondWait
<1>6. CASE CondWaitFails(t)
  BY <1>6 DEF CondWaitFails
<1>7. CASE SpuriousWakeup(t)
  BY <1>7 DEF SpuriousWakeup
<1>8. CASE CondTimeout(t)
  BY <1>8 DEF CondTimeout
<1>9. CASE Relock(t)
  BY <1>9 DEF Relock
<1>10. CASE FinishLease(t)
  BY <1>10 DEF FinishLease, EndCall
<1>11. CASE \E p \in leases[t] \cup Stray : GiveBack(t, p)
  BY <1>11 DEF GiveBack
<1>12. CASE LockForGiveBack(t)
  BY <1>12 DEF LockForGiveBack
<1>13. CASE FinishGiveBack(t)
  BY <1>13 DEF FinishGiveBack, SignalAndLeave, EndCall
<1> QED
  BY <1>1, <1>2, <1>3, <1>4, <1>5, <1>6, <1>7, <1>8, <1>9, <1>10, <1>11,
     <1>12, <1>13 DEF ThreadStep

LEMMA NextIInv == IInv /\ [Next]_vars => IInv'
<1> SUFFICES ASSUME IInv, [Next]_vars PROVE IInv'
  OBVIOUS
<1>1. CASE Next
  <2>1. PICK t \in Threads : ThreadStep(t)
    BY <1>1 DEF Next, ThreadStep
  <2> QED
    BY <2>1, NextTypeOK, NextControl DEF IInv
<1>2. CASE UNCHANGED vars
  BY <1>2 DEF vars, IInv, TypeOK, MutexInv, WaitersInv, ResultInv, FoundInv
<1> QED
  BY <1>1, <1>2

THEOREM InductiveInvariant == Spec => []IInv
  BY InitIInv, NextIInv, PTL DEF Spec

\* Type correctness of the POSIX pool: in particular a position taken from a
\* client never indexes outside sessions_.
THEOREM TypeCorrect == Spec => []TypeOK
  BY InductiveInvariant, PTL DEF IInv

-------------------------------------------------------------------------------
(* Leases are exclusive                                                    *)

\* A thread inside give_back() holds the position it is giving back.
GiveBackInv ==
    \A t \in Threads : pc[t] \in GiveBackStates => pos[t] \in leases[t]

LEMMA NextExclusive ==
  ASSUME Disciplined, IInv, ExclusiveLeases, GiveBackInv,
         NEW t \in Threads, ThreadStep(t)
  PROVE  ExclusiveLeases' /\ GiveBackInv'
<1> USE PoolAssumption
    DEF IInv, TypeOK, ExclusiveLeases, GiveBackInv, GiveBackStates
<1>1. CASE \E b \in BOOLEAN : TryLease(t, b)
  BY <1>1 DEF TryLease
<1>2. CASE DeadlinePasses(t)
  BY <1>2 DEF DeadlinePasses
<1>3. CASE LockForLease(t)
  BY <1>3 DEF LockForLease
<1>4. CASE FindFree(t)
  BY <1>4 DEF FindFree
<1>5. CASE CondWait(t)
  BY <1>5 DEF CondWait
<1>6. CASE CondWaitFails(t)
  BY <1>6 DEF CondWaitFails
<1>7. CASE SpuriousWakeup(t)
  BY <1>7 DEF SpuriousWakeup
<1>8. CASE CondTimeout(t)
  BY <1>8 DEF CondTimeout
<1>9. CASE Relock(t)
  BY <1>9 DEF Relock
<1>10. CASE FinishLease(t)
  <2>1. CASE cc[t] = "0"
    <3>1. free[pos[t]] /\ \A u \in Threads : pos[t] \notin leases[u]
      BY <1>10, <2>1 DEF FinishLease, FoundInv
    <3>2. /\ free' = [free EXCEPT ![pos[t]] = FALSE]
          /\ leases' = [leases EXCEPT ![t] = @ \cup {pos[t]}]
      BY <1>10, <2>1 DEF FinishLease
    <3>3. ExclusiveLeases'
      BY <3>1, <3>2
    <3>4. GiveBackInv'
      BY <1>10, <3>2 DEF FinishLease, EndCall
    <3> QED
      BY <3>3, <3>4
  <2>2. CASE cc[t] # "0"
    BY <1>10, <2>2 DEF FinishLease, EndCall
  <2> QED
    BY <2>1, <2>2
<1>11. CASE \E p \in leases[t] \cup Stray : GiveBack(t, p)
  <2>1. PICK p \in leases[t] \cup Stray : GiveBack(t, p)
    BY <1>11
  <2>2. p < Size => p \in leases[t]
    BY <2>1 DEF Disciplined, Slots
  <2> QED
    BY <2>1, <2>2 DEF GiveBack
<1>12. CASE LockForGiveBack(t)
  BY <1>12 DEF LockForGiveBack
<1>13. CASE FinishGiveBack(t)
  <2>1. pos[t] \in leases[t] /\ ~ free[pos[t]]
    BY <1>13 DEF FinishGiveBack
  <2>2. /\ free' = [free EXCEPT ![pos[t]] = TRUE]
        /\ leases' = [leases EXCEPT ![t] = @ \ {pos[t]}]
        /\ SignalAndLeave(t)
    BY <1>13, <2>1 DEF FinishGiveBack
  <2>3. ExclusiveLeases'
    BY <2>1, <2>2
  <2>4. \A u \in Threads : pc'[u] \in GiveBackStates =>
            u # t /\ pc[u] \in GiveBackStates
    BY <2>2 DEF SignalAndLeave
  <2>5. GiveBackInv'
    BY <1>13, <2>2, <2>4 DEF FinishGiveBack, EndCall
  <2> QED
    BY <2>3, <2>5
<1> QED
  BY <1>1, <1>2, <1>3, <1>4, <1>5, <1>6, <1>7, <1>8, <1>9, <1>10, <1>11,
     <1>12, <1>13 DEF ThreadStep

LEMMA DisciplinedInv ==
  ASSUME Disciplined PROVE Spec => [](ExclusiveLeases /\ GiveBackInv)
<1> DEFINE Both == ExclusiveLeases /\ GiveBackInv
<1>1. Init => Both
  BY DEF Init, ExclusiveLeases, GiveBackInv, GiveBackStates
<1>2. IInv /\ Both /\ [Next]_vars => Both'
  <2> SUFFICES ASSUME IInv, Both, [Next]_vars PROVE Both'
    OBVIOUS
  <2>1. CASE Next
    <3>1. PICK t \in Threads : ThreadStep(t)
      BY <2>1 DEF Next, ThreadStep
    <3> QED
      BY <3>1, NextExclusive
  <2>2. CASE UNCHANGED vars
    BY <2>2 DEF vars, ExclusiveLeases, GiveBackInv
  <2> QED
    BY <2>1, <2>2
<1> QED
  BY <1>1, <1>2, InductiveInvariant, PTL DEF Spec

\* If clients give back only what they hold, no position of the POSIX pool is
\* ever leased to two threads.
THEOREM LeasesExclusive == Disciplined => (Spec => []ExclusiveLeases)
<1> SUFFICES ASSUME Disciplined PROVE Spec => []ExclusiveLeases
  OBVIOUS
<1>1. Spec => [](ExclusiveLeases /\ GiveBackInv)
  BY DisciplinedInv
<1> QED
  BY <1>1, PTL

-------------------------------------------------------------------------------
(* No lost wakeup                                                          *)

LEMMA SubsetsAreFinite ==
  /\ \A S \in SUBSET Slots : IsFiniteSet(S) /\ Cardinality(S) \in Nat
  /\ \A S \in SUBSET Threads : IsFiniteSet(S) /\ Cardinality(S) \in Nat
<1>1. IsFiniteSet(Slots) /\ IsFiniteSet(Threads)
  BY PoolAssumption, FS_Interval DEF Slots
<1> QED
  BY <1>1, FS_Subset, FS_CardinalityType

\* Every step keeps the promise, if a timeout does not swallow a signal.
LEMMA NextNoStranded ==
  ASSUME ~ SignalLostOnTimeout, IInv, IInv', NoStrandedWaiter,
         NEW t \in Threads, ThreadStep(t)
  PROVE  NoStrandedWaiter'
<1> USE PoolAssumption DEF IInv, TypeOK
<1>0. SUFFICES ASSUME waiters' # {}
      PROVE  Cardinality(FreeSlots') <= Cardinality(Pending')
  BY DEF NoStrandedWaiter
<1>a. /\ IsFiniteSet(FreeSlots) /\ Cardinality(FreeSlots) \in Nat
      /\ IsFiniteSet(Pending) /\ Cardinality(Pending) \in Nat
  BY SubsetsAreFinite DEF Pending, FreeSlots
<1>b. /\ IsFiniteSet(FreeSlots') /\ Cardinality(FreeSlots') \in Nat
      /\ IsFiniteSet(Pending') /\ Cardinality(Pending') \in Nat
  BY SubsetsAreFinite DEF Pending, FreeSlots
<1>c. ASSUME waiters # {}, FreeSlots' = FreeSlots, Pending \subseteq Pending'
      PROVE  Cardinality(FreeSlots') <= Cardinality(Pending')
  <2>1. Cardinality(Pending) <= Cardinality(Pending')
    BY <1>b, <1>c, FS_Subset
  <2> QED
    BY <2>1, <1>a, <1>b, <1>c DEF NoStrandedWaiter
<1>1. CASE \E b \in BOOLEAN : TryLease(t, b)
  BY <1>0, <1>1, <1>c DEF TryLease, FreeSlots, Pending
<1>2. CASE DeadlinePasses(t)
  BY <1>0, <1>2, <1>c DEF DeadlinePasses, FreeSlots, Pending
<1>3. CASE LockForLease(t)
  BY <1>0, <1>3, <1>c DEF LockForLease, FreeSlots, Pending
<1>4. CASE FindFree(t)
  <2>1. waiters # {} /\ FreeSlots' = FreeSlots
    BY <1>0, <1>4 DEF FindFree, FreeSlots
  <2>2. Pending \subseteq Pending'
    BY <1>4 DEF FindFree, Pending, ResultInv
  <2> QED
    BY <2>1, <2>2, <1>c
<1>5. CASE CondWait(t) \/ CondWaitFails(t)
  <2>1. FreeSlots' = {}
    BY <1>5 DEF CondWait, CondWaitFails, FreeSlots
  <2> QED
    BY <2>1, <1>b, FS_EmptySet
<1>7. CASE SpuriousWakeup(t)
  BY <1>0, <1>7, <1>c DEF SpuriousWakeup, FreeSlots, Pending
<1>8. CASE CondTimeout(t)
  BY <1>0, <1>8, <1>c DEF CondTimeout, FreeSlots, Pending
<1>9. CASE Relock(t)
  BY <1>0, <1>9, <1>c DEF Relock, FreeSlots, Pending
<1>10. CASE FinishLease(t)
  <2>1. CASE cc[t] = "0"
    <3>1. pos[t] \in FreeSlots /\ t \in Pending
      BY <1>10, <2>1 DEF FinishLease, FoundInv, FreeSlots, Pending
    <3>2. FreeSlots' = FreeSlots \ {pos[t]}
      BY <1>10, <2>1 DEF FinishLease, FreeSlots
    <3>3. Pending' = Pending \ {t}
      BY <1>10, <2>1 DEF FinishLease, EndCall, Pending
    <3>4. Cardinality(FreeSlots') = Cardinality(FreeSlots) - 1
      BY ONLY <3>1, <3>2, <1>a, FS_RemoveElement
    <3>6. Cardinality(Pending') = Cardinality(Pending) - 1
      BY <3>1, <3>3, <1>a, FS_RemoveElement
    <3>5. Cardinality(FreeSlots) <= Cardinality(Pending)
      BY <1>0, <1>10 DEF FinishLease, NoStrandedWaiter
    <3> QED
      BY <3>4, <3>5, <3>6, <1>a
  <2>2. CASE cc[t] # "0"
    BY <1>0, <1>10, <2>2, <1>c DEF FinishLease, EndCall, FreeSlots, Pending
  <2> QED
    BY <2>1, <2>2
<1>11. CASE \E p \in leases[t] \cup Stray : GiveBack(t, p)
  BY <1>0, <1>11, <1>c DEF GiveBack, FreeSlots, Pending
<1>12. CASE LockForGiveBack(t)
  BY <1>0, <1>12, <1>c DEF LockForGiveBack, FreeSlots, Pending
<1>13. CASE FinishGiveBack(t)
  <2>1. CASE free[pos[t]]
    BY <1>0, <1>13, <2>1, <1>c DEF FinishGiveBack, EndCall, FreeSlots, Pending
  <2>2. CASE ~ free[pos[t]]
    <3>1. PICK w \in waiters : /\ waiters' = waiters \ {w}
                               /\ pc' = [pc EXCEPT ![t] = "idle", ![w] = "relock"]
      BY <1>0, <1>13, <2>2 DEF FinishGiveBack, SignalAndLeave
    <3>2. pc[w] = "wait" /\ cc[w] = "0" /\ w \in Threads /\ w # t
      BY <1>13, <3>1 DEF WaitersInv, ResultInv, FinishGiveBack
    <3>3. Pending' = Pending \cup {w} /\ w \notin Pending
      BY <1>13, <3>1, <3>2 DEF FinishGiveBack, EndCall, Pending
    <3>4. FreeSlots' = FreeSlots \cup {pos[t]} /\ pos[t] \notin FreeSlots
      BY <1>13, <2>2 DEF FinishGiveBack, FreeSlots
    <3>5. /\ Cardinality(FreeSlots') = Cardinality(FreeSlots) + 1
          /\ Cardinality(Pending') = Cardinality(Pending) + 1
      BY <3>3, <3>4, <1>a, FS_AddElement
    <3>6. Cardinality(FreeSlots) <= Cardinality(Pending)
      BY <3>1 DEF NoStrandedWaiter
    <3> QED
      BY <3>5, <3>6, <1>a
  <2> QED
    BY <2>1, <2>2
<1> QED
  BY <1>1, <1>2, <1>3, <1>4, <1>5, <1>7, <1>8, <1>9, <1>10, <1>11,
     <1>12, <1>13 DEF ThreadStep

\* The one pthread_cond_signal() of give_back() strands nobody, for any number
\* of threads and positions and whatever positions clients give back, on a
\* system where a wait that times out does not also consume a signal.
THEOREM NoLostWakeup ==
  ~ SignalLostOnTimeout => (Spec => []NoStrandedWaiter)
<1> SUFFICES ASSUME ~ SignalLostOnTimeout PROVE Spec => []NoStrandedWaiter
  OBVIOUS
<1>1. Init => NoStrandedWaiter
  BY DEF Init, NoStrandedWaiter
<1>2. IInv /\ IInv' /\ NoStrandedWaiter /\ [Next]_vars => NoStrandedWaiter'
  <2> SUFFICES ASSUME IInv, IInv', NoStrandedWaiter, [Next]_vars
               PROVE  NoStrandedWaiter'
    OBVIOUS
  <2>1. CASE Next
    <3>1. PICK t \in Threads : ThreadStep(t)
      BY <2>1 DEF Next, ThreadStep
    <3> QED
      BY <3>1, NextNoStranded
  <2>2. CASE UNCHANGED vars
    BY <2>2 DEF vars, NoStrandedWaiter, FreeSlots, Pending
  <2> QED
    BY <2>1, <2>2
<1> QED
  BY <1>1, <1>2, InductiveInvariant, PTL DEF Spec

-------------------------------------------------------------------------------
(* The pool implements PoolSpec                                            *)

LEMMA NextAbstract ==
  ASSUME IInv, ExclusiveLeases, GiveBackInv, NEW t \in Threads, ThreadStep(t)
  PROVE  [Abstract!Next]_(Abstract!poolVars)
<1> USE PoolAssumption DEF IInv, TypeOK
<1>s. ASSUME UNCHANGED <<leases, Want>>
      PROVE  [Abstract!Next]_(Abstract!poolVars)
  BY <1>s DEF Abstract!poolVars
<1>1. CASE \E b \in BOOLEAN : TryLease(t, b)
  <2>1. PICK b \in BOOLEAN : TryLease(t, b)
    BY <1>1
  <2> DEFINE kind == IF b THEN "timed" ELSE "blocking"
  <2>2. Want[t] = "none" /\ Want' = [Want EXCEPT ![t] = kind]
    BY <2>1 DEF TryLease, Want, LeaseStates
  <2>3. Abstract!Request(t, kind)
    BY <2>1, <2>2 DEF Abstract!Request, TryLease
  <2>4. kind \in {"blocking", "timed"}
    OBVIOUS
  <2> QED
    BY <2>3, <2>4 DEF Abstract!Next
<1>2. CASE DeadlinePasses(t)
  BY <1>2, <1>s DEF DeadlinePasses, Want
<1>3. CASE LockForLease(t)
  BY <1>3, <1>s DEF LockForLease, Want, LeaseStates
<1>4. CASE FindFree(t)
  BY <1>4, <1>s DEF FindFree, Want, LeaseStates
<1>5. CASE CondWait(t)
  BY <1>5, <1>s DEF CondWait, Want, LeaseStates
<1>6. CASE CondWaitFails(t)
  BY <1>6, <1>s DEF CondWaitFails, Want, LeaseStates
<1>7. CASE SpuriousWakeup(t)
  BY <1>7, <1>s DEF SpuriousWakeup, Want, LeaseStates
<1>8. CASE CondTimeout(t)
  BY <1>8, <1>s DEF CondTimeout, Want, LeaseStates
<1>9. CASE Relock(t)
  BY <1>9, <1>s DEF Relock, Want, LeaseStates
<1>10. CASE FinishLease(t)
  <2>1. Want[t] # "none" /\ Want' = [Want EXCEPT ![t] = "none"]
    BY <1>10 DEF FinishLease, EndCall, Want, LeaseStates
  <2>2. CASE cc[t] = "0"
    <3>1. \A s \in Slots : Abstract!Leased(s) <=> ~ free[s]
      BY DEF Abstract!Leased, ExclusiveLeases
    <3>2. pos[t] \in Slots /\ free[pos[t]] /\ \A s \in Slots : free[s] => pos[t] <= s
      BY <1>10, <2>2 DEF FinishLease, FoundInv
    <3>3. \A r \in Slots : r < pos[t] => ~ free[r]
      BY <3>2 DEF Slots
    <3>4. leases' = [leases EXCEPT ![t] = @ \cup {pos[t]}]
      BY <1>10, <2>2 DEF FinishLease
    <3>5. Abstract!Grant(t, pos[t])
      BY <2>1, <3>1, <3>2, <3>3, <3>4 DEF Abstract!Grant, Abstract!Slots, Slots
    <3> QED
      BY <3>2, <3>5 DEF Abstract!Next, Abstract!Slots, Slots
  <2>3. CASE cc[t] # "0"
    <3>1. timed[t] \/ WaitErrors
      BY <2>3 DEF ResultInv
    <3>2. Want[t] = "timed" \/ (WaitErrors /\ Want[t] = "blocking")
      BY <1>10, <3>1 DEF FinishLease, Want, LeaseStates
    <3>3. Abstract!Refuse(t)
      BY <1>10, <2>3, <2>1, <3>2 DEF FinishLease, Abstract!Refuse
    <3> QED
      BY <3>3 DEF Abstract!Next
  <2> QED
    BY <2>2, <2>3
<1>11. CASE \E p \in leases[t] \cup Stray : GiveBack(t, p)
  BY <1>11, <1>s DEF GiveBack, Want, LeaseStates
<1>12. CASE LockForGiveBack(t)
  BY <1>12, <1>s DEF LockForGiveBack, Want, LeaseStates
<1>13. CASE FinishGiveBack(t)
  <2>1. pos[t] \in leases[t] /\ ~ free[pos[t]] /\ pos[t] \in Slots
    BY <1>13 DEF FinishGiveBack, GiveBackInv, GiveBackStates, ExclusiveLeases
  <2>2. \A u \in Threads : /\ pc'[u] \in LeaseStates <=> pc[u] \in LeaseStates
                           /\ u # t => timed'[u] = timed[u]
    <3>1. pc[t] = "gb" /\ SignalAndLeave(t) /\ timed' = [timed EXCEPT ![t] = FALSE]
      BY <1>13, <2>1 DEF FinishGiveBack, EndCall
    <3>2. \A w \in waiters : w \in Threads /\ pc[w] = "wait"
      BY DEF WaitersInv
    <3> QED
      BY <3>1, <3>2 DEF SignalAndLeave, LeaseStates
  <2>3. Want' = Want /\ Want[t] = "none"
    BY <1>13, <2>2 DEF Want, FinishGiveBack, LeaseStates
  <2>4. Abstract!Return(t, pos[t])
    BY <1>13, <2>1, <2>3 DEF Abstract!Return, FinishGiveBack
  <2> QED
    BY <2>1, <2>4 DEF Abstract!Next, Abstract!Slots, Slots
<1> QED
  BY <1>1, <1>2, <1>3, <1>4, <1>5, <1>6, <1>7, <1>8, <1>9, <1>10, <1>11,
     <1>12, <1>13 DEF ThreadStep

\* With clients that give back only what they hold, the POSIX pool implements
\* PoolSpec: each call is a request followed by one grant of the first free
\* position or one refusal, and what is behind the mutex is not seen.
THEOREM Refinement == Disciplined => (Spec => ImplementsPoolSpec)
<1> SUFFICES ASSUME Disciplined PROVE Spec => Abstract!Spec
  BY DEF ImplementsPoolSpec
<1> DEFINE Both == ExclusiveLeases /\ GiveBackInv
<1>1. Init => Abstract!Init
  BY DEF Init, Abstract!Init, Want, LeaseStates
<1>2. IInv /\ Both /\ [Next]_vars => [Abstract!Next]_(Abstract!poolVars)
  <2> SUFFICES ASSUME IInv, Both, [Next]_vars
               PROVE  [Abstract!Next]_(Abstract!poolVars)
    OBVIOUS
  <2>1. CASE Next
    <3>1. PICK t \in Threads : ThreadStep(t)
      BY <2>1 DEF Next, ThreadStep
    <3> QED
      BY <3>1, NextAbstract
  <2>2. CASE UNCHANGED vars
    BY <2>2 DEF vars, Abstract!poolVars, Want
  <2> QED
    BY <2>1, <2>2
<1>3. Spec => []Both
  BY DisciplinedInv
<1> QED
  BY <1>1, <1>2, <1>3, InductiveInvariant, PTL DEF Spec, Abstract!Spec

\* The deadline that try_lease() gives to pthread_cond_timedwait() is a valid timespec,
\* since one carry into the seconds is enough, and is exactly the timeout after the time of
\* the call.
THEOREM DeadlineExact ==
    ASSUME NEW sec \in Nat, NEW usec \in Nat, NEW timeout \in Nat,
           usec < 1000 * 1000, NEW d, d = Deadline(sec, usec, timeout)
    PROVE  /\ d.nsec \in Nat /\ d.nsec < 1000 * 1000 * 1000
           /\ d.sec * 1000 + d.nsec \div 1000000 = sec * 1000 + usec \div 1000 + timeout
           /\ d.nsec % 1000000 = (usec % 1000) * 1000
<1> DEFINE q == timeout \div 1000
           r == timeout % 1000
           m == usec \div 1000
           u == usec % 1000
<1>1. q \in Nat /\ r \in 0 .. 999 /\ timeout = q * 1000 + r
  OBVIOUS
<1>2. m \in 0 .. 999 /\ u \in 0 .. 999 /\ usec = m * 1000 + u
  OBVIOUS
<1> HIDE DEF q, r, m, u
<1>3. usec * 1000 + r * 1000 * 1000 = (m + r) * 1000000 + u * 1000
  BY <1>1, <1>2
<1>4. CASE m + r >= 1000
  <2>1. d = [sec |-> sec + q + 1, nsec |-> (m + r - 1000) * 1000000 + u * 1000]
    BY <1>1, <1>2, <1>3, <1>4 DEF Deadline, q, r
  <2> QED
    BY <1>1, <1>2, <1>4, <2>1 DEF m, u
<1>5. CASE m + r < 1000
  <2>1. d = [sec |-> sec + q, nsec |-> (m + r) * 1000000 + u * 1000]
    BY <1>1, <1>2, <1>3, <1>5 DEF Deadline, q, r
  <2> QED
    BY <1>1, <1>2, <1>5, <2>1 DEF m, u
<1>6. m + r >= 1000 \/ m + r < 1000
  BY <1>1, <1>2
<1> QED
  BY <1>4, <1>5, <1>6
===============================================================================
