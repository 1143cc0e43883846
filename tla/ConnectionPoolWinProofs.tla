------------------------ MODULE ConnectionPoolWinProofs ------------------------
(***************************************************************************)
(* Proofs about ConnectionPoolWin, for any number of threads and positions *)
(* and clients that give back any position at any time.                    *)
(***************************************************************************)
EXTENDS ConnectionPoolWin, FiniteSetTheorems, WellFoundedInduction, TLAPS

\* One thread's step, as in the body of Next.
ThreadStep(t) ==
    \/ \E b \in BOOLEAN : TryLease(t, b)
    \/ SemaphoreAcquired(t)
    \/ SemaphoreWaitFails(t)
    \/ LockForLease(t)
    \/ TakePosition(t)
    \/ \E p \in leases[t] \cup Stray : GiveBack(t, p)
    \/ LockForGiveBack(t)
    \/ FinishGiveBack(t)

\* The count alone is inductive together with the types.
IInv == TypeOK /\ SemaphoreCountsFree

LEMMA SubsetsAreFinite ==
  /\ \A S \in SUBSET Slots :
        IsFiniteSet(S) /\ Cardinality(S) \in Nat /\ Cardinality(S) <= Size
  /\ \A S \in SUBSET Threads : IsFiniteSet(S) /\ Cardinality(S) \in Nat
<1>1. IsFiniteSet(Slots) /\ Cardinality(Slots) = Size
  BY WinPoolAssumption, FS_Interval DEF Slots
<1>2. IsFiniteSet(Threads)
  BY WinPoolAssumption
<1> QED
  BY <1>1, <1>2, FS_Subset, FS_CardinalityType

\* find_free() finds a position whenever there is one.
LEMMA FirstFreeExists ==
  ASSUME FreeSlots # {}
  PROVE  FirstFree \in FreeSlots /\ \A r \in FreeSlots : FirstFree <= r
<1> DEFINE R == OpToRel(<, Nat)
<1>1. IsWellFoundedOn(R, Nat)
  BY NatLessThanWellFounded
<1>2. \A r, s \in Nat : r < s => <<r, s>> \in R
  BY DEF OpToRel
<1> HIDE DEF R
<1>3. FreeSlots \subseteq Nat
  BY DEF FreeSlots, Slots
<1>4. PICK s \in FreeSlots : \A r \in FreeSlots : ~ (<<r, s>> \in R)
  BY <1>1, <1>3, WFMin
<1>5. ASSUME NEW r \in FreeSlots PROVE s <= r
  <2>1. r \in Nat /\ s \in Nat
    BY <1>3
  <2>2. ~ (r < s)
    BY <1>2, <1>4, <2>1, Zenon
  <2> QED
    BY ONLY <2>1, <2>2
<1> QED
  BY <1>5 DEF FirstFree

\* A thread that took one from the semaphore is promised a free position.
LEMMA EntitledFindsFree ==
  ASSUME IInv, NEW t \in Entitled
  PROVE  FreeSlots # {}
<1>1. Entitled \in SUBSET Threads /\ FreeSlots \in SUBSET Slots
  BY DEF Entitled, FreeSlots
<1>2. Cardinality(Entitled) # 0
  BY <1>1, SubsetsAreFinite, FS_EmptySet
<1>3. Cardinality(Entitled) \in Nat /\ sem \in Nat
  BY <1>1, SubsetsAreFinite, WinPoolAssumption DEF IInv, TypeOK
<1>4. Cardinality(FreeSlots) # 0
  BY <1>2, <1>3 DEF IInv, SemaphoreCountsFree
<1> QED
  BY <1>4, FS_EmptySet

LEMMA NextTypeOK ==
  ASSUME TypeOK, NEW t \in Threads, ThreadStep(t)
  PROVE  TypeOK'
<1> USE WinPoolAssumption DEF TypeOK, States, LeaseStates
<1>0. 0 \in Slots
  BY DEF Slots
<1>1. CASE \E b \in BOOLEAN : TryLease(t, b)
  BY <1>1 DEF TryLease
<1>2. CASE SemaphoreAcquired(t)
  BY <1>2 DEF SemaphoreAcquired
<1>3. CASE SemaphoreWaitFails(t)
  BY <1>3 DEF SemaphoreWaitFails
<1>4. CASE LockForLease(t)
  BY <1>4 DEF LockForLease
<1>5. CASE TakePosition(t)
  <2>1. leases' \in [Threads -> SUBSET Slots]
    BY <1>5 DEF TakePosition
  <2>2. free' \in [Slots -> BOOLEAN]
    BY <1>5, Zenon DEF TakePosition
  <2> QED
    BY <1>5, <2>1, <2>2 DEF TakePosition
<1>6. CASE \E p \in leases[t] \cup Stray : GiveBack(t, p)
  <2>1. PICK p \in leases[t] \cup Stray : GiveBack(t, p)
    BY <1>6
  <2>2. p < Size => p \in Slots
    BY <2>1 DEF Slots
  <2> QED
    BY <2>1, <2>2 DEF GiveBack
<1>7. CASE LockForGiveBack(t)
  BY <1>7 DEF LockForGiveBack
<1>8. CASE FinishGiveBack(t)
  <2>1. leases' \in [Threads -> SUBSET Slots]
    BY <1>8 DEF FinishGiveBack
  <2>2. free' \in [Slots -> BOOLEAN]
    BY <1>8 DEF FinishGiveBack
  <2>3. pos' \in [Threads -> Slots]
    BY <1>8, <1>0 DEF FinishGiveBack
  <2>4. sem' \in 0 .. Size
    BY <1>8 DEF FinishGiveBack
  <2> QED
    BY <1>8, <2>1, <2>2, <2>3, <2>4 DEF FinishGiveBack
<1> QED
  BY <1>1, <1>2, <1>3, <1>4, <1>5, <1>6, <1>7, <1>8 DEF ThreadStep

LEMMA NextCount ==
  ASSUME IInv, NEW t \in Threads, ThreadStep(t)
  PROVE  SemaphoreCountsFree'
<1> USE WinPoolAssumption DEF IInv, TypeOK
<1>a. /\ IsFiniteSet(FreeSlots) /\ Cardinality(FreeSlots) \in Nat
      /\ Cardinality(FreeSlots) <= Size
      /\ IsFiniteSet(Entitled) /\ Cardinality(Entitled) \in Nat
  BY SubsetsAreFinite DEF Entitled, FreeSlots
<1>s. ASSUME sem' = sem, FreeSlots' = FreeSlots, Entitled' = Entitled
      PROVE  SemaphoreCountsFree'
  BY <1>s DEF SemaphoreCountsFree
<1>1. CASE \E b \in BOOLEAN : TryLease(t, b)
  BY <1>1, <1>s DEF TryLease, FreeSlots, Entitled
<1>2. CASE SemaphoreAcquired(t)
  <2>1. Entitled' = Entitled \cup {t} /\ t \notin Entitled
    BY <1>2 DEF SemaphoreAcquired, Entitled
  <2>2. Cardinality(Entitled') = Cardinality(Entitled) + 1
    BY ONLY <2>1, <1>a, FS_AddElement
  <2>3. FreeSlots' = FreeSlots
    BY <1>2 DEF SemaphoreAcquired, FreeSlots
  <2>4. sem' = sem - 1 /\ sem \in Nat
    BY <1>2 DEF SemaphoreAcquired
  <2> QED
    BY ONLY <2>2, <2>3, <2>4, <1>a, IInv DEF SemaphoreCountsFree, IInv
<1>3. CASE SemaphoreWaitFails(t)
  BY <1>3, <1>s DEF SemaphoreWaitFails, FreeSlots, Entitled
<1>4. CASE LockForLease(t)
  BY <1>4, <1>s DEF LockForLease, FreeSlots, Entitled
<1>5. CASE TakePosition(t)
  <2> DEFINE s == FirstFree
  <2>1. t \in Entitled
    BY <1>5 DEF TakePosition, Entitled
  <2>2. s \in FreeSlots
    BY <2>1, EntitledFindsFree, FirstFreeExists
  <2>3. FreeSlots' = FreeSlots \ {s}
    BY <1>5, <2>2 DEF TakePosition, FreeSlots
  <2>4. Entitled' = Entitled \ {t}
    BY <1>5, <2>2 DEF TakePosition, Entitled, FreeSlots
  <2>5. Cardinality(FreeSlots') = Cardinality(FreeSlots) - 1
    <3> HIDE DEF s
    <3> QED
      BY ONLY <2>2, <2>3, <1>a, FS_RemoveElement
  <2>6. Cardinality(Entitled') = Cardinality(Entitled) - 1
    BY ONLY <2>1, <2>4, <1>a, FS_RemoveElement
  <2>7. sem' = sem /\ sem \in Nat
    BY <1>5 DEF TakePosition
  <2> QED
    BY ONLY <2>5, <2>6, <2>7, <1>a, IInv DEF SemaphoreCountsFree, IInv
<1>6. CASE \E p \in leases[t] \cup Stray : GiveBack(t, p)
  BY <1>6, <1>s DEF GiveBack, FreeSlots, Entitled
<1>7. CASE LockForGiveBack(t)
  BY <1>7, <1>s DEF LockForGiveBack, FreeSlots, Entitled
<1>8. CASE FinishGiveBack(t)
  <2>0. Entitled' = Entitled
    BY <1>8 DEF FinishGiveBack, Entitled
  <2>1. CASE free[pos[t]]
    BY <1>8, <2>0, <2>1, <1>s DEF FinishGiveBack, FreeSlots
  <2>2. CASE ~ free[pos[t]]
    <3>1. FreeSlots' = FreeSlots \cup {pos[t]} /\ pos[t] \notin FreeSlots
      BY <1>8, <2>2 DEF FinishGiveBack, FreeSlots
    <3>2. Cardinality(FreeSlots') = Cardinality(FreeSlots) + 1
      BY ONLY <3>1, <1>a, FS_AddElement
    <3>3. Cardinality(FreeSlots') <= Size
      <4>1. FreeSlots' \in SUBSET Slots
        BY DEF FreeSlots
      <4> QED
        BY ONLY <4>1, SubsetsAreFinite
    <3>4. sem < Size
      BY ONLY <3>2, <3>3, <1>a, IInv, WinPoolAssumption
      DEF IInv, TypeOK, SemaphoreCountsFree
    <3>5. sem' = sem + 1 /\ sem \in Nat
      BY <1>8, <2>2, <3>4 DEF FinishGiveBack
    <3> QED
      BY ONLY <2>0, <3>2, <3>5, <1>a, IInv DEF SemaphoreCountsFree, IInv
  <2> QED
    BY <2>1, <2>2
<1> QED
  BY <1>1, <1>2, <1>3, <1>4, <1>5, <1>6, <1>7, <1>8 DEF ThreadStep

LEMMA InitIInv == Init => IInv
<1> SUFFICES ASSUME Init PROVE IInv
  OBVIOUS
<1>1. TypeOK
  BY WinPoolAssumption DEF Init, TypeOK, Slots, States
<1>2. FreeSlots = Slots /\ Entitled = {}
  BY DEF Init, FreeSlots, Entitled
<1>3. Cardinality(Slots) = Size /\ Cardinality({}) = 0
  BY WinPoolAssumption, FS_Interval, FS_EmptySet DEF Slots
<1> QED
  BY <1>1, <1>2, <1>3, WinPoolAssumption DEF IInv, SemaphoreCountsFree, Init

LEMMA NextIInv == IInv /\ [Next]_vars => IInv'
<1> SUFFICES ASSUME IInv, [Next]_vars PROVE IInv'
  OBVIOUS
<1>1. CASE Next
  <2>1. PICK t \in Threads : ThreadStep(t)
    BY <1>1 DEF Next, ThreadStep
  <2> QED
    BY <2>1, NextTypeOK, NextCount DEF IInv
<1>2. CASE UNCHANGED vars
  BY <1>2 DEF vars, IInv, TypeOK, SemaphoreCountsFree, FreeSlots, Entitled
<1> QED
  BY <1>1, <1>2

\* The semaphore and the threads between it and the critical section account
\* for the free flags, whatever positions clients give back.
THEOREM SemaphoreAccounts == Spec => [](TypeOK /\ SemaphoreCountsFree)
  BY InitIInv, NextIInv, PTL DEF Spec, IInv

\* No thread is ever in the exception of try_lease() that is commented "this
\* should be impossible".
THEOREM NoImpossibleThrow == Spec => []FreeEntryFound
<1> DEFINE NotLost == \A t \in Threads : pc[t] # "lost"
<1>1. Init => NotLost
  BY DEF Init
<1>2. IInv /\ NotLost /\ [Next]_vars => NotLost'
  <2> SUFFICES ASSUME IInv, NotLost, [Next]_vars PROVE NotLost'
    OBVIOUS
  <2> USE DEF IInv, TypeOK
  <2>1. ASSUME NEW t \in Threads, TakePosition(t) PROVE NotLost'
    <3>1. FirstFree \in Slots
      <4>1. t \in Entitled
        BY <2>1 DEF TakePosition, Entitled
      <4> QED
        BY <4>1, EntitledFindsFree, FirstFreeExists DEF FreeSlots
    <3> QED
      BY <2>1, <3>1 DEF TakePosition
  <2>2. CASE UNCHANGED vars
    BY <2>2 DEF vars
  <2> QED
    BY <2>1, <2>2 DEF Next, TryLease, SemaphoreAcquired, SemaphoreWaitFails,
       LockForLease, GiveBack, LockForGiveBack, FinishGiveBack
<1>3. IInv /\ NotLost => FreeEntryFound
  <2> SUFFICES ASSUME IInv, NotLost PROVE FreeEntryFound
    OBVIOUS
  <2> QED
    BY EntitledFindsFree DEF FreeEntryFound, Entitled
<1> QED
  BY <1>1, <1>2, <1>3, InitIInv, NextIInv, PTL DEF Spec

-------------------------------------------------------------------------------
(* Clients that give back only what they hold                              *)

\* What a thread inside give_back() gives back is still its own.
GiveBackInv == \A t \in Threads : pc[t] \in {"gb_lock", "gb"} => pos[t] \in leases[t]

\* A thread in the critical section takes the first position that nobody has.
LEMMA TakesFirstFree ==
  ASSUME IInv, NEW t \in Threads, TakePosition(t)
  PROVE  \E s \in Slots :
            /\ free[s] /\ \A r \in Slots : r < s => ~ free[r]
            /\ free' = [r \in Slots |-> free[r] /\ r # s]
            /\ leases' = [leases EXCEPT ![t] = @ \cup {s}]
            /\ pc' = [pc EXCEPT ![t] = "idle"] /\ pc[t] = "find"
            /\ timed' = [timed EXCEPT ![t] = FALSE] /\ UNCHANGED pos
<1> DEFINE s == FirstFree
<1>1. t \in Entitled
  BY DEF TakePosition, Entitled
<1>2. s \in FreeSlots /\ \A r \in FreeSlots : s <= r
  BY <1>1, EntitledFindsFree, FirstFreeExists
<1>t. /\ free' = [r \in Slots |-> free[r] /\ r # s]
      /\ leases' = [leases EXCEPT ![t] = @ \cup ({s} \cap Slots)]
      /\ pc' = [pc EXCEPT ![t] = IF s \in Slots THEN "idle" ELSE "lost"] /\ pc[t] = "find"
      /\ timed' = [timed EXCEPT ![t] = FALSE] /\ UNCHANGED pos
  BY DEF TakePosition
<1> HIDE DEF s
<1>3. s \in Slots /\ free[s]
  BY <1>2 DEF FreeSlots
<1>4. \A r \in Slots : r < s => ~ free[r]
  <2> SUFFICES ASSUME NEW r \in Slots, r < s, free[r] PROVE FALSE
    OBVIOUS
  <2>1. s <= r
    BY <1>2 DEF FreeSlots
  <2> QED BY <1>3, <2>1, WinPoolAssumption DEF Slots
<1>5. leases' = [leases EXCEPT ![t] = @ \cup {s}] /\ pc' = [pc EXCEPT ![t] = "idle"]
  <2>1. {s} \cap Slots = {s}
    BY <1>3
  <2> QED BY <1>t, <1>3, <2>1
<1> QED BY <1>t, <1>3, <1>4, <1>5, Zenon

LEMMA NextExclusive ==
  ASSUME Disciplined, IInv, ExclusiveLeases, GiveBackInv, NEW t \in Threads, ThreadStep(t)
  PROVE  ExclusiveLeases' /\ GiveBackInv'
<1> USE DEF IInv, TypeOK, ExclusiveLeases, GiveBackInv
<1>1. CASE \/ \E b \in BOOLEAN : TryLease(t, b)
           \/ SemaphoreAcquired(t) \/ SemaphoreWaitFails(t) \/ LockForLease(t)
  BY <1>1 DEF TryLease, SemaphoreAcquired, SemaphoreWaitFails, LockForLease
<1>2. CASE TakePosition(t)
  <2>1. PICK s \in Slots :
            /\ free[s]
            /\ free' = [r \in Slots |-> free[r] /\ r # s]
            /\ leases' = [leases EXCEPT ![t] = @ \cup {s}]
            /\ pc' = [pc EXCEPT ![t] = "idle"] /\ pc[t] = "find"
            /\ timed' = [timed EXCEPT ![t] = FALSE] /\ UNCHANGED pos
    BY <1>2, TakesFirstFree
  <2>2. ExclusiveLeases'
    <3>1. \A r \in Slots : free'[r] <=> free[r] /\ r # s
      BY <2>1, Zenon
    <3>2. leases'[t] = leases[t] \cup {s} /\ \A u \in Threads : u # t => leases'[u] = leases[u]
      BY <2>1
    <3>3. \A u \in Threads : s \notin leases[u]
      BY <2>1
    <3>4. \A u, v \in Threads : u # v => leases'[u] \cap leases'[v] = {}
      BY <3>2, <3>3
    <3>5. \A r \in Slots : free'[r] <=> \A u \in Threads : r \notin leases'[u]
      BY <3>1, <3>2, <3>3
    <3> QED BY <3>4, <3>5
  <2>3. GiveBackInv'
    BY <2>1
  <2> QED
    BY <2>2, <2>3
<1>3. CASE \E p \in leases[t] \cup Stray : GiveBack(t, p)
  <2>1. PICK p \in leases[t] \cup Stray : GiveBack(t, p)
    BY <1>3
  <2>2. p < Size => p \in leases[t]
    BY <2>1, WinPoolAssumption DEF Disciplined, Slots
  <2> QED
    BY <2>1, <2>2 DEF GiveBack
<1>4. CASE LockForGiveBack(t)
  BY <1>4 DEF LockForGiveBack
<1>5. CASE FinishGiveBack(t)
  <2>1. pos[t] \in leases[t] /\ ~ free[pos[t]]
    BY <1>5 DEF FinishGiveBack
  <2>2. /\ free' = [free EXCEPT ![pos[t]] = TRUE]
        /\ leases' = [leases EXCEPT ![t] = @ \ {pos[t]}]
        /\ pc' = [pc EXCEPT ![t] = "idle"] /\ pos' = [pos EXCEPT ![t] = 0]
    BY <1>5, <2>1 DEF FinishGiveBack
  <2>3. ExclusiveLeases'
    BY <2>1, <2>2
  <2>4. GiveBackInv'
    BY <2>2
  <2> QED
    BY <2>3, <2>4
<1> QED
  BY <1>1, <1>2, <1>3, <1>4, <1>5 DEF ThreadStep

LEMMA DisciplinedInv ==
  ASSUME Disciplined PROVE Spec => [](IInv /\ ExclusiveLeases /\ GiveBackInv)
<1> DEFINE All == IInv /\ ExclusiveLeases /\ GiveBackInv
<1>1. Init => All
  BY InitIInv DEF Init, ExclusiveLeases, GiveBackInv
<1>2. All /\ [Next]_vars => All'
  <2> SUFFICES ASSUME All, [Next]_vars PROVE All'
    OBVIOUS
  <2>1. CASE Next
    <3>1. PICK t \in Threads : ThreadStep(t)
      BY <2>1 DEF Next, ThreadStep
    <3> QED
      BY <3>1, NextExclusive, NextIInv
  <2>2. CASE UNCHANGED vars
    BY <2>2, NextIInv DEF vars, ExclusiveLeases, GiveBackInv
  <2> QED
    BY <2>1, <2>2
<1> QED
  BY <1>1, <1>2, PTL DEF Spec

\* If clients give back only what they hold, no position of the Windows pool is ever leased
\* to two threads, and the free flags say which positions are leased.
THEOREM LeasesExclusive == Disciplined => (Spec => []ExclusiveLeases)
<1> SUFFICES ASSUME Disciplined PROVE Spec => []ExclusiveLeases
  OBVIOUS
<1>1. Spec => [](IInv /\ ExclusiveLeases /\ GiveBackInv)
  BY DisciplinedInv
<1> QED
  BY <1>1, PTL

LEMMA NextAbstract ==
  ASSUME IInv, ExclusiveLeases, GiveBackInv, NEW t \in Threads, ThreadStep(t)
  PROVE  [Abstract!Next]_(Abstract!poolVars)
<1> USE DEF IInv, TypeOK
<1>s. ASSUME UNCHANGED <<leases, Want>>
      PROVE  [Abstract!Next]_(Abstract!poolVars)
  BY <1>s DEF Abstract!poolVars
<1>1. CASE \E b \in BOOLEAN : TryLease(t, b)
  <2>1. PICK b \in BOOLEAN : TryLease(t, b)
    BY <1>1
  <2> DEFINE kind == IF b THEN "timed" ELSE "blocking"
  <2>2. Want[t] = "none" /\ Want' = [Want EXCEPT ![t] = kind]
    BY <2>1 DEF TryLease, Want, LeaseStates
  <2>3. Abstract!Request(t, kind)
    BY <2>1, <2>2 DEF Abstract!Request, TryLease
  <2>4. kind \in {"blocking", "timed"}
    OBVIOUS
  <2> QED
    BY <2>3, <2>4 DEF Abstract!Next
<1>2. CASE SemaphoreAcquired(t)
  BY <1>2, <1>s DEF SemaphoreAcquired, Want, LeaseStates
<1>3. CASE SemaphoreWaitFails(t)
  <2>1. Want[t] = "timed" \/ (WaitErrors /\ Want[t] = "blocking")
    BY <1>3 DEF SemaphoreWaitFails, Want, LeaseStates
  <2>2. Want' = [Want EXCEPT ![t] = "none"]
    BY <1>3 DEF SemaphoreWaitFails, Want, LeaseStates
  <2>3. Abstract!Refuse(t)
    BY <1>3, <2>1, <2>2 DEF SemaphoreWaitFails, Abstract!Refuse
  <2> QED
    BY <2>3 DEF Abstract!Next
<1>4. CASE LockForLease(t)
  BY <1>4, <1>s DEF LockForLease, Want, LeaseStates
<1>5. CASE TakePosition(t)
  <2>1. PICK s \in Slots :
            /\ free[s] /\ \A r \in Slots : r < s => ~ free[r]
            /\ leases' = [leases EXCEPT ![t] = @ \cup {s}]
            /\ pc' = [pc EXCEPT ![t] = "idle"] /\ pc[t] = "find"
            /\ timed' = [timed EXCEPT ![t] = FALSE]
    BY <1>5, TakesFirstFree
  <2>2. \A r \in Slots : Abstract!Leased(r) <=> ~ free[r]
    BY DEF Abstract!Leased, ExclusiveLeases
  <2>3. Want[t] # "none" /\ Want' = [Want EXCEPT ![t] = "none"]
    BY <2>1 DEF Want, LeaseStates
  <2>4. Abstract!Grant(t, s)
    BY <2>1, <2>2, <2>3 DEF Abstract!Grant, Abstract!Slots, Slots
  <2> QED
    BY <2>4 DEF Abstract!Next, Abstract!Slots, Slots
<1>6. CASE \E p \in leases[t] \cup Stray : GiveBack(t, p)
  BY <1>6, <1>s DEF GiveBack, Want, LeaseStates
<1>7. CASE LockForGiveBack(t)
  BY <1>7, <1>s DEF LockForGiveBack, Want, LeaseStates
<1>8. CASE FinishGiveBack(t)
  <2>1. pos[t] \in leases[t] /\ ~ free[pos[t]] /\ pos[t] \in Slots
    BY <1>8 DEF FinishGiveBack, GiveBackInv, ExclusiveLeases
  <2>2. Want' = Want /\ Want[t] = "none"
    BY <1>8 DEF Want, FinishGiveBack, LeaseStates
  <2>3. Abstract!Return(t, pos[t])
    BY <1>8, <2>1, <2>2 DEF Abstract!Return, FinishGiveBack
  <2> QED
    BY <2>1, <2>3 DEF Abstract!Next, Abstract!Slots, Slots
<1> QED
  BY <1>1, <1>2, <1>3, <1>4, <1>5, <1>6, <1>7, <1>8 DEF ThreadStep

\* With clients that give back only what they hold, the Windows pool implements PoolSpec, as
\* the POSIX one does: that the semaphore is waited for outside the critical section is not
\* seen.
THEOREM Refinement == Disciplined => (Spec => ImplementsPoolSpec)
<1> SUFFICES ASSUME Disciplined PROVE Spec => Abstract!Spec
  BY DEF ImplementsPoolSpec
<1> DEFINE All == IInv /\ ExclusiveLeases /\ GiveBackInv
<1>1. Init => Abstract!Init
  BY DEF Init, Abstract!Init, Want, LeaseStates
<1>2. All /\ [Next]_vars => [Abstract!Next]_(Abstract!poolVars)
  <2> SUFFICES ASSUME All, [Next]_vars
               PROVE  [Abstract!Next]_(Abstract!poolVars)
    OBVIOUS
  <2>1. CASE Next
    <3>1. PICK t \in Threads : ThreadStep(t)
      BY <2>1 DEF Next, ThreadStep
    <3> QED
      BY <3>1, NextAbstract
  <2>2. CASE UNCHANGED vars
    BY <2>2 DEF vars, Abstract!poolVars, Want
  <2> QED
    BY <2>1, <2>2
<1>3. Spec => []All
  BY DisciplinedInv
<1> QED
  BY <1>1, <1>2, <1>3, PTL DEF Spec, Abstract!Spec
===============================================================================
