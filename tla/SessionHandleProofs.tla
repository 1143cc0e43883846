-------------------------- MODULE SessionHandleProofs --------------------------
(***************************************************************************)
(* Proofs about SessionHandle, for any number of sessions, any pool size   *)
(* and any backends.                                                       *)
(***************************************************************************)
EXTENDS SessionHandle, FiniteSetTheorems, TLAPS

Leases(s) == sess[s].fromPool
Owns(s) == ~ sess[s].fromPool /\ sess[s].backEnd # None

\* A pooled session is never destroyed and leases nothing; a destroyed session has
\* nothing.
AliveInv ==
    /\ \A i \in Slots : sess[i].alive /\ ~ Leases(i)
    /\ \A s \in Sessions : ~ sess[s].alive => sess[s].backEnd = None /\ ~ Leases(s)

\* A position is leased to one session or free.
LeaseInv ==
    /\ \A h \in Handles : Leases(h) => ~ free[sess[h].pos]
    /\ \A h, g \in Handles : Leases(h) /\ Leases(g) /\ sess[h].pos = sess[g].pos => h = g
    /\ \A i \in Slots : ~ free[i] => \E h \in Handles : Leases(h) /\ sess[h].pos = i

\* A backend is owned by one session or does not exist.
OwnerInv ==
    /\ \A s, u \in Sessions : Owns(s) /\ Owns(u) /\ sess[s].backEnd = sess[u].backEnd => s = u
    /\ \A s \in Sessions : Owns(s) => sess[s].backEnd \in conns
    /\ \A c \in conns : \E s \in Sessions : Owns(s) /\ sess[s].backEnd = c

\* Positions are leased and given back in balance, whatever fails.
PoolInv == TypeOK /\ AliveInv /\ LeaseInv

\* Backends are made and deleted in balance.  This needs the cached pointers: operator=
\* does not delete a backend that the other session's pointer names.
IInv == PoolInv /\ OwnerInv /\ CachedBackEndValid

-------------------------------------------------------------------------------
(* What an operation does to the fields that the invariants are about      *)

LEMMA SlotsAreSessions ==
  /\ Slots \subseteq Sessions /\ Handles \subseteq Sessions
  /\ \A h \in Handles : h \notin Slots
  /\ \A s \in Sessions : s \in Handles \/ s \in Slots
  /\ 0 \in Slots
BY SessionAssumption DEF Sessions, Slots

LEMMA FreshFields ==
  ASSUME NEW s \in Sessions
  PROVE  /\ Fresh(s) \in SessionType /\ Fresh(s).alive = TRUE
         /\ Fresh(s).backEnd = None /\ Fresh(s).fromPool = FALSE
         /\ Dead(s) \in SessionType /\ Dead(s).alive = FALSE
         /\ Dead(s).backEnd = None /\ Dead(s).fromPool = FALSE
BY SlotsAreSessions DEF Fresh, Dead, SessionType, Modes

LEMMA MovedFromFields ==
  ASSUME NEW r \in SessionType
  PROVE  /\ MovedFrom(r) \in SessionType
         /\ MovedFrom(r).alive = r.alive
         /\ MovedFrom(r).backEnd = None /\ MovedFrom(r).fromPool = FALSE
BY SlotsAreSessions DEF MovedFrom, SessionType

LEMMA SetBackEndFields ==
  ASSUME PoolInv, NEW s \in Sessions, sess[s].alive, NEW c \in Conns \cup {None},
         NEW l \in BOOLEAN, SetBackEnd(s, c, l)
  PROVE  /\ sess' \in [Sessions -> SessionType]
         /\ \A u \in Sessions : /\ sess'[u].alive = sess[u].alive
                                /\ sess'[u].fromPool = sess[u].fromPool
                                /\ sess'[u].pos = sess[u].pos
                                /\ sess'[u].backEnd = IF u \in {s, Worker(s)} THEN c
                                                      ELSE sess[u].backEnd
<1>1. sess \in [Sessions -> SessionType] /\ Worker(s) \in Sessions
  BY SlotsAreSessions DEF PoolInv, TypeOK, SessionType, Worker
<1> QED BY <1>1 DEF SetBackEnd, SessionType

-------------------------------------------------------------------------------
(* Leases                                                                  *)

LEMMA PoolFacts ==
  ASSUME PoolInv
  PROVE  /\ sess \in [Sessions -> SessionType] /\ conns \subseteq Conns
         /\ free \in [Slots -> BOOLEAN]
         /\ \A s \in Sessions : /\ sess[s] \in SessionType /\ sess[s].pos \in Slots
                                /\ sess[s].backEnd \in Conns \cup {None}
                                /\ sess[s].fromPool \in BOOLEAN /\ sess[s].alive \in BOOLEAN
                                /\ sess[s].target \in Sessions /\ sess[s].mode \in Modes
                                /\ Worker(s) \in Sessions
                                /\ ~ Leases(Worker(s)) /\ sess[Worker(s)].alive \in BOOLEAN
  <1>1. /\ sess \in [Sessions -> SessionType] /\ conns \subseteq Conns
        /\ free \in [Slots -> BOOLEAN]
    BY DEF PoolInv, TypeOK
  <1>2. \A s \in Sessions : /\ sess[s] \in SessionType /\ sess[s].pos \in Slots
                            /\ sess[s].backEnd \in Conns \cup {None}
                            /\ sess[s].fromPool \in BOOLEAN /\ sess[s].alive \in BOOLEAN
                            /\ sess[s].target \in Sessions /\ sess[s].mode \in Modes
    BY <1>1 DEF SessionType
  <1>3. \A s \in Sessions : Worker(s) \in Sessions /\ ~ Leases(Worker(s))
    BY <1>2, SlotsAreSessions DEF Worker, PoolInv, AliveInv, Leases
  <1> QED BY <1>1, <1>2, <1>3

\* An operation that leases and gives back nothing.
LEMMA KeepsLeases ==
  ASSUME PoolInv, TypeOK', AliveInv', UNCHANGED free,
         \A u \in Handles : /\ Leases(u)' <=> Leases(u)
                            /\ Leases(u) => sess'[u].pos = sess[u].pos
  PROVE  PoolInv'
BY DEF PoolInv, LeaseInv

LEMMA NewPool ==
  ASSUME PoolInv, NEW h \in Handles, ~ sess[h].alive, UNCHANGED free, conns' \subseteq Conns,
         NEW r \in SessionType, sess' = [sess EXCEPT ![h] = r], r.alive, ~ r.fromPool
  PROVE  PoolInv'
<1>1. TypeOK'
  BY PoolFacts, SlotsAreSessions DEF TypeOK
<1>2. AliveInv' /\ \A u \in Handles : /\ Leases(u)' <=> Leases(u)
                                      /\ Leases(u) => sess'[u].pos = sess[u].pos
  BY PoolFacts, SlotsAreSessions DEF AliveInv, Leases, PoolInv
<1> QED BY <1>1, <1>2, KeepsLeases

LEMMA ConstructFromPoolFields ==
  ASSUME PoolInv, NEW h \in Handles, ConstructFromPool(h)
  PROVE  \E i \in Slots :
           /\ free[i] /\ free' = [free EXCEPT ![i] = FALSE]
           /\ sess' \in [Sessions -> SessionType]
           /\ sess'[h].alive = TRUE /\ sess'[h].fromPool = TRUE /\ sess'[h].pos = i
           /\ sess'[h].backEnd = sess[i].backEnd
           /\ \A u \in Sessions : u # h => sess'[u] = sess[u]
<1>1. PICK i \in Slots :
        /\ free[i]
        /\ free' = [free EXCEPT ![i] = FALSE]
        /\ sess' = [sess EXCEPT ![h] =
                      [Fresh(h) EXCEPT !.fromPool = TRUE, !.pos = i,
                                       !.target = i, !.backEnd = sess[i].backEnd]]
  BY DEF ConstructFromPool
<1> DEFINE n == [Fresh(h) EXCEPT !.fromPool = TRUE, !.pos = i, !.target = i,
                                 !.backEnd = sess[i].backEnd]
<1>2. sess[i].backEnd \in Conns \cup {None} /\ sess \in [Sessions -> SessionType]
  BY PoolFacts, SlotsAreSessions
<1>3. /\ n \in SessionType /\ n.alive = TRUE /\ n.fromPool = TRUE /\ n.pos = i
      /\ n.backEnd = sess[i].backEnd
  BY <1>2, SlotsAreSessions DEF Fresh, SessionType, Modes
<1>4. sess' = [sess EXCEPT ![h] = n]
  BY <1>1
<1> HIDE DEF n
<1>5. /\ sess' \in [Sessions -> SessionType] /\ sess'[h] = n
      /\ \A u \in Sessions : u # h => sess'[u] = sess[u]
  BY <1>2, <1>3, <1>4, SlotsAreSessions
<1>6. WITNESS i \in Slots
<1> QED BY <1>1, <1>3, <1>5

LEMMA ConstructFromPoolPool ==
  ASSUME PoolInv, NEW h \in Handles, ConstructFromPool(h)
  PROVE  PoolInv'
<1>0. /\ AliveInv /\ LeaseInv /\ conns' = conns /\ conns \subseteq Conns
      /\ free \in [Slots -> BOOLEAN] /\ ~ sess[h].alive
      /\ \A u \in Handles : sess[u].pos \in Slots
  BY PoolFacts, SlotsAreSessions DEF PoolInv, ConstructFromPool
<1>1. PICK i \in Slots :
        /\ free[i] /\ free' = [free EXCEPT ![i] = FALSE]
        /\ sess' \in [Sessions -> SessionType]
        /\ sess'[h].alive = TRUE /\ sess'[h].fromPool = TRUE /\ sess'[h].pos = i
        /\ \A u \in Sessions : u # h => sess'[u] = sess[u]
  BY ConstructFromPoolFields
<1>2. TypeOK'
  BY <1>0, <1>1 DEF TypeOK
<1>3. AliveInv'
  BY <1>0, <1>1, SlotsAreSessions DEF AliveInv, Leases
<1>4. \A j \in Slots : free'[j] = IF j = i THEN FALSE ELSE free[j]
  BY <1>0, <1>1
<1>5. ~ Leases(h) /\ Leases(h)'
  BY <1>0, <1>1, SlotsAreSessions DEF AliveInv, Leases
<1>6. \A u \in Handles : u # h => (Leases(u)' <=> Leases(u)) /\ sess'[u].pos = sess[u].pos
  BY <1>1, SlotsAreSessions DEF Leases
<1>7. LeaseInv'
  <2>1. (\A u \in Handles : Leases(u) => ~ free[sess[u].pos])'
    BY <1>0, <1>1, <1>4, <1>6 DEF LeaseInv
  <2>2. (\A u, g \in Handles : Leases(u) /\ Leases(g) /\ sess[u].pos = sess[g].pos => u = g)'
    BY <1>0, <1>1, <1>6 DEF LeaseInv
  <2>3. (\A j \in Slots : ~ free[j] => \E u \in Handles : Leases(u) /\ sess[u].pos = j)'
    <3> SUFFICES ASSUME NEW j \in Slots, ~ free'[j]
                 PROVE  \E u \in Handles : Leases(u)' /\ sess'[u].pos = j
      OBVIOUS
    <3>1. CASE j = i
      BY <1>1, <1>5, <3>1
    <3>2. CASE j # i
      <4>1. PICK u \in Handles : Leases(u) /\ sess[u].pos = j
        BY <1>0, <1>4, <3>2 DEF LeaseInv
      <4> QED BY <1>5, <1>6, <4>1
    <3> QED BY <3>1, <3>2
  <2> QED BY <2>1, <2>2, <2>3 DEF LeaseInv
<1> QED BY <1>2, <1>3, <1>7 DEF PoolInv

LEMMA MoveConstructFields ==
  ASSUME PoolInv, NEW h \in Handles, NEW g \in Handles, MoveConstruct(h, g)
  PROVE  /\ h # g /\ ~ sess[h].alive /\ sess[g].alive /\ UNCHANGED <<conns, free>>
         /\ sess' \in [Sessions -> SessionType]
         /\ sess'[h].alive = sess[g].alive /\ sess'[h].backEnd = sess[g].backEnd
         /\ sess'[h].fromPool = sess[g].fromPool /\ sess'[h].pos = sess[g].pos
         /\ sess'[g].alive = sess[g].alive /\ sess'[g].backEnd = None
         /\ sess'[g].fromPool = FALSE
         /\ \A u \in Sessions : u # h /\ u # g => sess'[u] = sess[u]
<1>1. h # g /\ ~ sess[h].alive /\ sess[g].alive /\ UNCHANGED <<conns, free>>
  BY DEF MoveConstruct
<1> DEFINE t == IF sess[g].fromPool THEN sess[g].target ELSE h
           n == [sess[g] EXCEPT !.target = t, !.mode = "always"]
           o == MovedFrom(sess[g])
<1>0. /\ sess[g] \in SessionType /\ sess \in [Sessions -> SessionType]
      /\ g \in Sessions /\ h \in Sessions
  BY PoolFacts, SlotsAreSessions
<1>2. t \in Sessions /\ "always" \in Modes
  BY PoolFacts, SlotsAreSessions DEF Modes
<1>3. sess' = [sess EXCEPT ![h] = n, ![g] = o]
  BY DEF MoveConstruct
<1> HIDE DEF t
<1>4. /\ n \in SessionType
      /\ n.alive = sess[g].alive /\ n.backEnd = sess[g].backEnd
      /\ n.fromPool = sess[g].fromPool /\ n.pos = sess[g].pos
  BY <1>0, <1>2 DEF SessionType
<1>5. /\ o \in SessionType
      /\ o.alive = sess[g].alive /\ o.backEnd = None /\ o.fromPool = FALSE
  BY <1>0, MovedFromFields
<1> HIDE DEF n, o
<1>6. /\ sess'[h] = n /\ sess'[g] = o
      /\ \A u \in Sessions : u # h /\ u # g => sess'[u] = sess[u]
  BY <1>0, <1>1, <1>3
<1>7. sess' \in [Sessions -> SessionType]
  BY <1>0, <1>3, <1>4, <1>5
<1> QED BY <1>1, <1>4, <1>5, <1>6, <1>7

\* The lease moves along with the session.
LEMMA MoveConstructPool ==
  ASSUME PoolInv, NEW h \in Handles, NEW g \in Handles, MoveConstruct(h, g)
  PROVE  PoolInv'
<1>0. AliveInv /\ LeaseInv /\ TypeOK
  BY DEF PoolInv
<1>1. /\ h # g /\ ~ sess[h].alive /\ sess[g].alive /\ UNCHANGED <<conns, free>>
      /\ sess' \in [Sessions -> SessionType]
      /\ sess'[h].alive = sess[g].alive /\ sess'[h].backEnd = sess[g].backEnd
      /\ sess'[h].fromPool = sess[g].fromPool /\ sess'[h].pos = sess[g].pos
      /\ sess'[g].alive = sess[g].alive /\ sess'[g].backEnd = None
      /\ sess'[g].fromPool = FALSE
      /\ \A u \in Sessions : u # h /\ u # g => sess'[u] = sess[u]
  BY MoveConstructFields
<1>2. TypeOK'
  BY <1>0, <1>1 DEF TypeOK
<1>3. AliveInv'
  BY <1>0, <1>1, SlotsAreSessions DEF AliveInv, Leases
<1>4. ~ Leases(h) /\ (Leases(h)' <=> Leases(g)) /\ ~ Leases(g)'
  BY <1>0, <1>1, SlotsAreSessions DEF AliveInv, Leases
<1>5. \A u \in Handles : u # h /\ u # g =>
         (Leases(u)' <=> Leases(u)) /\ sess'[u].pos = sess[u].pos
  BY <1>1, SlotsAreSessions DEF Leases
<1>6. LeaseInv'
  BY <1>0, <1>1, <1>4, <1>5 DEF LeaseInv
<1> QED BY <1>2, <1>3, <1>6 DEF PoolInv

LEMMA MoveAssignFields ==
  ASSUME PoolInv, NEW h \in Handles, NEW g \in Handles, MoveAssign(h, g)
  PROVE  /\ h # g /\ sess[h].alive /\ sess[g].alive /\ Release(sess[h], {sess[g].backEnd})
         /\ sess' \in [Sessions -> SessionType]
         /\ sess'[h].alive = sess[g].alive /\ sess'[h].backEnd = sess[g].backEnd
         /\ sess'[h].fromPool = sess[g].fromPool /\ sess'[h].pos = sess[g].pos
         /\ sess'[g].alive = sess[g].alive /\ sess'[g].backEnd = None
         /\ sess'[g].fromPool = FALSE
         /\ \A u \in Sessions : u # h /\ u # g => sess'[u] = sess[u]
<1>1. h # g /\ sess[h].alive /\ sess[g].alive /\ Release(sess[h], {sess[g].backEnd})
  BY DEF MoveAssign
<1> DEFINE t == IF sess[g].fromPool THEN sess[g].target ELSE sess[h].target
           n == [sess[g] EXCEPT !.target = t, !.mode = sess[h].mode]
           o == MovedFrom(sess[g])
<1>0. /\ sess[g] \in SessionType /\ sess \in [Sessions -> SessionType]
      /\ g \in Sessions /\ h \in Sessions
  BY PoolFacts, SlotsAreSessions
<1>2. t \in Sessions /\ sess[h].mode \in Modes
  BY PoolFacts, SlotsAreSessions
<1>3. sess' = [sess EXCEPT ![h] = n, ![g] = o]
  BY DEF MoveAssign
<1> HIDE DEF t
<1>4. /\ n \in SessionType
      /\ n.alive = sess[g].alive /\ n.backEnd = sess[g].backEnd
      /\ n.fromPool = sess[g].fromPool /\ n.pos = sess[g].pos
  BY <1>0, <1>2 DEF SessionType
<1>5. /\ o \in SessionType
      /\ o.alive = sess[g].alive /\ o.backEnd = None /\ o.fromPool = FALSE
  BY <1>0, MovedFromFields
<1> HIDE DEF n, o
<1>6. /\ sess'[h] = n /\ sess'[g] = o
      /\ \A u \in Sessions : u # h /\ u # g => sess'[u] = sess[u]
  BY <1>0, <1>1, <1>3
<1>7. sess' \in [Sessions -> SessionType]
  BY <1>0, <1>3, <1>4, <1>5
<1> QED BY <1>1, <1>4, <1>5, <1>6, <1>7

\* Releasing what handle h has: its position becomes free, or its backend is deleted.
LEMMA ReleaseFields ==
  ASSUME PoolInv, NEW h \in Handles, NEW keep, Release(sess[h], keep)
  PROVE  /\ conns' \subseteq Conns /\ free' \in [Slots -> BOOLEAN]
         /\ \A j \in Slots : free'[j] = (free[j] \/ (Leases(h) /\ j = sess[h].pos))
         /\ Leases(h) => conns' = conns
         /\ ~ Leases(h) => conns' = conns \ ({sess[h].backEnd} \ keep)
<1>1. /\ sess[h].pos \in Slots /\ conns \subseteq Conns /\ free \in [Slots -> BOOLEAN]
  BY PoolFacts, SlotsAreSessions
<1>2. CASE Leases(h)
  <2>1. free' = [free EXCEPT ![sess[h].pos] = TRUE] /\ conns' = conns
    BY <1>2 DEF Release, Leases
  <2> QED BY <1>1, <1>2, <2>1
<1>3. CASE ~ Leases(h)
  <2>1. free' = free /\ conns' = conns \ ({sess[h].backEnd} \ keep)
    BY <1>3 DEF Release, Leases
  <2> QED BY <1>1, <1>3, <2>1
<1> QED BY <1>2, <1>3

\* The position of the target, if it had one, is given back and the source's lease moves along.
LEMMA MoveAssignPool ==
  ASSUME PoolInv, NEW h \in Handles, NEW g \in Handles, MoveAssign(h, g)
  PROVE  PoolInv'
<1>0. /\ AliveInv /\ LeaseInv
      /\ \A u \in Handles : sess[u].pos \in Slots
  BY PoolFacts, SlotsAreSessions DEF PoolInv
<1>1. /\ h # g /\ sess[h].alive /\ sess[g].alive /\ Release(sess[h], {sess[g].backEnd})
      /\ sess' \in [Sessions -> SessionType]
      /\ sess'[h].alive = sess[g].alive /\ sess'[h].backEnd = sess[g].backEnd
      /\ sess'[h].fromPool = sess[g].fromPool /\ sess'[h].pos = sess[g].pos
      /\ sess'[g].alive = sess[g].alive /\ sess'[g].backEnd = None
      /\ sess'[g].fromPool = FALSE
      /\ \A u \in Sessions : u # h /\ u # g => sess'[u] = sess[u]
  BY MoveAssignFields
<1>2. /\ conns' \subseteq Conns /\ free' \in [Slots -> BOOLEAN]
      /\ \A j \in Slots : free'[j] = (free[j] \/ (Leases(h) /\ j = sess[h].pos))
  BY <1>1, ReleaseFields
<1>3. TypeOK'
  BY <1>1, <1>2 DEF TypeOK
<1>4. AliveInv'
  BY <1>0, <1>1, SlotsAreSessions DEF AliveInv, Leases
<1>5. (Leases(h)' <=> Leases(g)) /\ ~ Leases(g)'
  BY <1>1 DEF Leases
<1>6. \A u \in Handles : u # h /\ u # g =>
         (Leases(u)' <=> Leases(u)) /\ sess'[u].pos = sess[u].pos
  BY <1>1, SlotsAreSessions DEF Leases
<1>7. LeaseInv'
  <2>1. (\A u \in Handles : Leases(u) => ~ free[sess[u].pos])'
    BY <1>0, <1>1, <1>2, <1>5, <1>6 DEF LeaseInv
  <2>2. (\A u, v \in Handles : Leases(u) /\ Leases(v) /\ sess[u].pos = sess[v].pos => u = v)'
    BY <1>0, <1>1, <1>5, <1>6 DEF LeaseInv
  <2>3. (\A j \in Slots : ~ free[j] => \E u \in Handles : Leases(u) /\ sess[u].pos = j)'
    <3> SUFFICES ASSUME NEW j \in Slots, ~ free'[j]
                 PROVE  \E u \in Handles : Leases(u)' /\ sess'[u].pos = j
      OBVIOUS
    <3>1. PICK u \in Handles : Leases(u) /\ sess[u].pos = j
      BY <1>0, <1>2 DEF LeaseInv
    <3>2. u # h
      BY <1>2, <3>1
    <3> QED BY <1>1, <1>5, <1>6, <3>1, <3>2
  <2> QED BY <2>1, <2>2, <2>3 DEF LeaseInv
<1> QED BY <1>3, <1>4, <1>7 DEF PoolInv

LEMMA DestroyPool ==
  ASSUME PoolInv, NEW h \in Handles, Destroy(h)
  PROVE  PoolInv'
<1>0. /\ AliveInv /\ LeaseInv
      /\ \A u \in Handles : sess[u].pos \in Slots
  BY PoolFacts, SlotsAreSessions DEF PoolInv
<1>1. /\ sess' \in [Sessions -> SessionType]
      /\ sess'[h] = Dead(h)
      /\ \A u \in Sessions : u # h => sess'[u] = sess[u]
  BY PoolFacts, SlotsAreSessions, FreshFields DEF Destroy
<1>2. /\ conns' \subseteq Conns /\ free' \in [Slots -> BOOLEAN]
      /\ \A j \in Slots : free'[j] = (free[j] \/ (Leases(h) /\ j = sess[h].pos))
  BY ReleaseFields DEF Destroy
<1>3. TypeOK'
  BY <1>1, <1>2 DEF TypeOK
<1>4. AliveInv'
  <2>1. h \in Sessions /\ h \notin Slots /\ Dead(h).backEnd = None /\ ~ Dead(h).fromPool
    BY SlotsAreSessions, FreshFields
  <2> QED BY <1>0, <1>1, <2>1, SlotsAreSessions DEF AliveInv, Leases
<1>5. ~ Leases(h)'
  BY <1>1, SlotsAreSessions, FreshFields DEF Leases
<1>6. \A u \in Handles : u # h => (Leases(u)' <=> Leases(u)) /\ sess'[u].pos = sess[u].pos
  BY <1>1, SlotsAreSessions DEF Leases
<1>7. LeaseInv'
  <2>1. (\A u \in Handles : Leases(u) => ~ free[sess[u].pos])'
    BY <1>0, <1>2, <1>5, <1>6 DEF LeaseInv
  <2>2. (\A u, v \in Handles : Leases(u) /\ Leases(v) /\ sess[u].pos = sess[v].pos => u = v)'
    BY <1>0, <1>5, <1>6 DEF LeaseInv
  <2>3. (\A j \in Slots : ~ free[j] => \E u \in Handles : Leases(u) /\ sess[u].pos = j)'
    <3> SUFFICES ASSUME NEW j \in Slots, ~ free'[j]
                 PROVE  \E u \in Handles : Leases(u)' /\ sess'[u].pos = j
      OBVIOUS
    <3>1. PICK u \in Handles : Leases(u) /\ sess[u].pos = j
      BY <1>0, <1>2 DEF LeaseInv
    <3> QED BY <1>2, <1>6, <3>1
  <2> QED BY <2>1, <2>2, <2>3 DEF LeaseInv
<1> QED BY <1>3, <1>4, <1>7 DEF PoolInv

\* open(), close() and reconnect() through session s put backend c, or none, in the place of
\* the worker's backend w, and in the pointer that s caches unless reconnect() failed.
Connects(s, w, c) ==
    /\ Callable(s) /\ w = Worker(s) /\ c \notin conns
    /\ conns' = (conns \ {sess[w].backEnd}) \cup ({c} \ {None})
    /\ UNCHANGED free
    /\ sess' \in [Sessions -> SessionType]
    /\ \A u \in Sessions : /\ sess'[u].alive = sess[u].alive
                           /\ sess'[u].fromPool = sess[u].fromPool
                           /\ sess'[u].pos = sess[u].pos
                           /\ u \notin {s, w} => sess'[u].backEnd = sess[u].backEnd
    /\ sess'[w].backEnd = c
    /\ sess'[s].backEnd # c => FailsThroughPool

LEMMA ConnectionConnects ==
  ASSUME PoolInv, NEW s \in Sessions,
         \/ \E c \in Conns : Open(s, c) \/ Reconnect(s, c)
         \/ Close(s) \/ ReconnectFails(s)
  PROVE  \E c \in Conns \cup {None} : Connects(s, Worker(s), c)
<1> DEFINE w == Worker(s)
<1>0. /\ w \in Sessions /\ conns \subseteq Conns /\ None \notin conns
      /\ sess \in [Sessions -> SessionType] /\ sess[w] \in SessionType /\ sess[w].last \in BOOLEAN
  <2>1. w \in Sessions /\ conns \subseteq Conns /\ sess \in [Sessions -> SessionType]
    BY PoolFacts
  <2> QED BY <2>1, SessionAssumption DEF SessionType
<1> HIDE DEF w
<1>1. ASSUME NEW c \in Conns, Open(s, c) PROVE Connects(s, w, c)
  <2>1. /\ Callable(s) /\ c \notin conns /\ sess[s].alive /\ sess[w].backEnd = None
        /\ conns' = conns \cup {c} /\ UNCHANGED free /\ SetBackEnd(s, c, TRUE)
    BY <1>1 DEF Open, Callable, w
  <2>2. conns' = (conns \ {sess[w].backEnd}) \cup ({c} \ {None})
    BY <1>0, <2>1, SessionAssumption
  <2>3. /\ sess' \in [Sessions -> SessionType]
        /\ \A u \in Sessions : /\ sess'[u].alive = sess[u].alive
                               /\ sess'[u].fromPool = sess[u].fromPool
                               /\ sess'[u].pos = sess[u].pos
                               /\ sess'[u].backEnd = IF u \in {s, Worker(s)} THEN c
                                                     ELSE sess[u].backEnd
    BY <2>1, SetBackEndFields
  <2> QED BY <1>0, <2>1, <2>2, <2>3 DEF Connects, w
<1>2. ASSUME NEW c \in Conns, Reconnect(s, c) PROVE Connects(s, w, c)
  <2>1. /\ Callable(s) /\ c \notin conns /\ sess[s].alive
        /\ conns' = (conns \ {sess[w].backEnd}) \cup {c}
        /\ UNCHANGED free /\ SetBackEnd(s, c, TRUE)
    BY <1>2 DEF Reconnect, Callable, w
  <2>2. {c} \ {None} = {c}
    BY SessionAssumption
  <2> QED BY <1>0, <2>1, <2>2, SetBackEndFields DEF Connects, w
<1>3. ASSUME Close(s) PROVE Connects(s, w, None)
  <2>1. /\ Callable(s) /\ sess[s].alive
        /\ conns' = conns \ {sess[w].backEnd}
        /\ UNCHANGED free /\ SetBackEnd(s, None, sess[w].last)
    BY <1>3 DEF Close, Callable, w
  <2>2. conns' = (conns \ {sess[w].backEnd}) \cup ({None} \ {None})
    BY <2>1
  <2> QED BY <1>0, <2>1, <2>2, SetBackEndFields DEF Connects, w
<1>4. ASSUME ReconnectFails(s) PROVE Connects(s, w, None)
  <2>1. /\ Callable(s) /\ sess[s].fromPool => FailsThroughPool
        /\ conns' = conns \ {sess[w].backEnd}
        /\ UNCHANGED free /\ sess' = [sess EXCEPT ![w].backEnd = None]
    BY <1>4 DEF ReconnectFails, Callable, w
  <2>2. conns' = (conns \ {sess[w].backEnd}) \cup ({None} \ {None})
    BY <2>1
  <2>3. /\ sess' \in [Sessions -> SessionType]
        /\ \A u \in Sessions : /\ sess'[u].alive = sess[u].alive
                               /\ sess'[u].fromPool = sess[u].fromPool
                               /\ sess'[u].pos = sess[u].pos
                               /\ u # w => sess'[u].backEnd = sess[u].backEnd
        /\ sess'[w].backEnd = None
    BY <1>0, <2>1 DEF SessionType
  <2>4. ~ FailsThroughPool => s = w
    BY <1>4 DEF ReconnectFails, w, Worker
  <2> QED BY <1>0, <1>4, <2>1, <2>2, <2>3, <2>4 DEF Connects, ReconnectFails, w
<1> QED BY <1>1, <1>2, <1>3, <1>4 DEF w

LEMMA ConnectsPool ==
  ASSUME PoolInv, NEW s \in Sessions, NEW c \in Conns \cup {None},
         Connects(s, Worker(s), c)
  PROVE  PoolInv'
<1>0. AliveInv /\ TypeOK /\ sess[s].alive /\ sess[Worker(s)].alive
  <2>1. sess[s].pos \in Slots
    BY PoolFacts
  <2> QED BY <2>1 DEF PoolInv, Connects, Callable, Worker, AliveInv
<1>1. conns' \subseteq Conns
  BY PoolFacts DEF Connects
<1>2. TypeOK'
  BY <1>0, <1>1 DEF TypeOK, Connects
<1>3. AliveInv'
  BY <1>0, SlotsAreSessions DEF Connects, AliveInv, Leases
<1> QED BY <1>2, <1>3, SlotsAreSessions, KeepsLeases DEF Connects, Leases

\* The settings leave backends and leases alone.
LEMMA SettingsFields ==
  ASSUME PoolInv, SettingsNext
  PROVE  /\ sess' \in [Sessions -> SessionType] /\ UNCHANGED <<conns, free>>
         /\ \A u \in Sessions : /\ sess'[u].alive = sess[u].alive
                                /\ sess'[u].fromPool = sess[u].fromPool
                                /\ sess'[u].pos = sess[u].pos
                                /\ sess'[u].backEnd = sess[u].backEnd
<1>1. sess \in [Sessions -> SessionType] /\ \A s \in Sessions : Worker(s) \in Sessions
  BY PoolFacts
<1>2. ASSUME NEW s \in Sessions, NEW b \in BOOLEAN, UppercaseColumnNames(s, b)
      PROVE  /\ sess' \in [Sessions -> SessionType] /\ UNCHANGED <<conns, free>>
             /\ \A u \in Sessions : /\ sess'[u].alive = sess[u].alive
                                    /\ sess'[u].fromPool = sess[u].fromPool
                                    /\ sess'[u].pos = sess[u].pos
                                    /\ sess'[u].backEnd = sess[u].backEnd
  BY <1>1, <1>2 DEF UppercaseColumnNames, SessionType
<1>3. ASSUME NEW s \in Sessions, NEW m \in Modes, SetQueryContextLoggingMode(s, m)
      PROVE  /\ sess' \in [Sessions -> SessionType] /\ UNCHANGED <<conns, free>>
             /\ \A u \in Sessions : /\ sess'[u].alive = sess[u].alive
                                    /\ sess'[u].fromPool = sess[u].fromPool
                                    /\ sess'[u].pos = sess[u].pos
                                    /\ sess'[u].backEnd = sess[u].backEnd
  BY <1>1, <1>3 DEF SetQueryContextLoggingMode, SessionType
<1> QED BY <1>2, <1>3 DEF SettingsNext

LEMMA SettingsPool ==
  ASSUME PoolInv, SettingsNext
  PROVE  PoolInv'
<1>0. TypeOK /\ AliveInv
  BY DEF PoolInv
<1>1. /\ sess' \in [Sessions -> SessionType] /\ UNCHANGED <<conns, free>>
      /\ \A u \in Sessions : /\ sess'[u].alive = sess[u].alive
                             /\ sess'[u].fromPool = sess[u].fromPool
                             /\ sess'[u].pos = sess[u].pos
                             /\ sess'[u].backEnd = sess[u].backEnd
  BY SettingsFields
<1>2. TypeOK'
  BY <1>0, <1>1 DEF TypeOK
<1>3. AliveInv'
  BY <1>0, <1>1, SlotsAreSessions DEF AliveInv, Leases
<1> QED BY <1>1, <1>2, <1>3, SlotsAreSessions, KeepsLeases DEF Leases

LEMMA PoolStep ==
  ASSUME PoolInv, [Next]_vars
  PROVE  PoolInv'
<1>1. CASE HandleNext
  <2>1. PICK h \in Handles : \/ Construct(h)
                             \/ \E c \in Conns : ConstructConnected(h, c)
                             \/ ConstructFromPool(h)
                             \/ \E g \in Handles : MoveConstruct(h, g) \/ MoveAssign(h, g)
                             \/ Destroy(h)
    BY <1>1 DEF HandleNext
  <2>2. CASE Construct(h)
    <3>1. /\ Fresh(h) \in SessionType /\ Fresh(h).alive /\ ~ Fresh(h).fromPool
      BY SlotsAreSessions, FreshFields
    <3>2. /\ ~ sess[h].alive /\ UNCHANGED free /\ conns' \subseteq Conns
          /\ sess' = [sess EXCEPT ![h] = Fresh(h)]
      BY <2>2, PoolFacts DEF Construct
    <3> QED BY <3>1, <3>2, NewPool
  <2>3. ASSUME NEW c \in Conns, ConstructConnected(h, c) PROVE PoolInv'
    <3> DEFINE n == [Fresh(h) EXCEPT !.backEnd = c, !.last = TRUE]
    <3>1. n \in SessionType /\ n.alive /\ ~ n.fromPool
      BY SlotsAreSessions DEF Fresh, SessionType, Modes
    <3>2. /\ ~ sess[h].alive /\ UNCHANGED free /\ conns' \subseteq Conns
          /\ sess' = [sess EXCEPT ![h] = n]
      BY <2>3, PoolFacts DEF ConstructConnected
    <3> HIDE DEF n
    <3> QED BY <3>1, <3>2, NewPool
  <2> QED BY <2>1, <2>2, <2>3, ConstructFromPoolPool, MoveConstructPool, MoveAssignPool, DestroyPool
<1>2. CASE ConnectionNext
  BY <1>2, ConnectionConnects, ConnectsPool DEF ConnectionNext
<1>3. CASE SettingsNext
  BY <1>3, SettingsPool
<1>4. CASE UNCHANGED vars
  BY <1>4 DEF vars, PoolInv, TypeOK, AliveInv, LeaseInv, Leases
<1> QED BY <1>1, <1>2, <1>3, <1>4 DEF Next

-------------------------------------------------------------------------------
(* Owners                                                                  *)

\* An operation after which the same sessions own the same backends.
LEMMA KeepsOwners ==
  ASSUME OwnerInv, UNCHANGED conns,
         \A u \in Sessions : /\ Owns(u)' <=> Owns(u)
                             /\ Owns(u) => sess'[u].backEnd = sess[u].backEnd
  PROVE  OwnerInv'
BY DEF OwnerInv

\* Session w replaces what it owns by backend c, or by nothing.
LEMMA ReplacesOwned ==
  ASSUME OwnerInv, PoolInv, NEW w \in Sessions, NEW c \in Conns \cup {None}, c \notin conns,
         ~ Leases(w), ~ Leases(w)', sess'[w].backEnd = c,
         conns' = (conns \ {sess[w].backEnd}) \cup ({c} \ {None}),
         \A u \in Sessions : u # w => /\ Owns(u)' <=> Owns(u)
                                      /\ Owns(u) => sess'[u].backEnd = sess[u].backEnd
  PROVE  OwnerInv'
<1>0. conns \subseteq Conns /\ None \notin conns
  BY PoolFacts, SessionAssumption
<1>1. Owns(w)' <=> c # None
  BY DEF Owns, Leases
<1>2. sess[w].backEnd # None => Owns(w)
  BY DEF Owns, Leases
<1>3. (\A s, u \in Sessions : Owns(s) /\ Owns(u) /\ sess[s].backEnd = sess[u].backEnd => s = u)'
  BY <1>1 DEF OwnerInv
<1>4. (\A s \in Sessions : Owns(s) => sess[s].backEnd \in conns)'
  BY <1>1, <1>2 DEF OwnerInv, Owns
<1>5. (\A d \in conns : \E s \in Sessions : Owns(s) /\ sess[s].backEnd = d)'
  BY <1>0, <1>1, <1>2 DEF OwnerInv
<1> QED BY <1>3, <1>4, <1>5 DEF OwnerInv

\* A session is made that owns backend c, or nothing.
LEMMA NewOwner ==
  ASSUME IInv, PoolInv', NEW h \in Handles, ~ sess[h].alive,
         NEW c \in Conns \cup {None}, c \notin conns, conns' = conns \cup ({c} \ {None}),
         NEW r \in SessionType, sess' = [sess EXCEPT ![h] = r], ~ r.fromPool, r.backEnd = c
  PROVE  IInv'
<1>0. PoolInv /\ OwnerInv /\ CachedBackEndValid /\ AliveInv
  BY DEF IInv, PoolInv
<1>1. /\ h \in Sessions /\ sess[h].backEnd = None /\ ~ Leases(h) /\ h \notin Slots
      /\ \A u \in Handles : sess[u].pos \in Slots
  BY <1>0, SlotsAreSessions, PoolFacts DEF AliveInv
<1>2. /\ sess'[h] = r
      /\ \A u \in Sessions : u # h => sess'[u] = sess[u]
  BY <1>0, <1>1, PoolFacts
<1>3. conns' = (conns \ {sess[h].backEnd}) \cup ({c} \ {None})
  BY <1>0, <1>1, PoolFacts, SessionAssumption
<1>4. OwnerInv'
  BY <1>0, <1>1, <1>2, <1>3, ReplacesOwned DEF Owns, Leases
<1>5. CachedBackEndValid'
  BY <1>0, <1>1, <1>2, SlotsAreSessions DEF CachedBackEndValid
<1> QED BY <1>4, <1>5 DEF IInv

LEMMA ConstructFromPoolOwners ==
  ASSUME IInv, PoolInv', NEW h \in Handles, ConstructFromPool(h)
  PROVE  IInv'
<1>0. PoolInv /\ OwnerInv /\ CachedBackEndValid /\ AliveInv
  BY DEF IInv, PoolInv
<1>1. /\ h \in Sessions /\ ~ Owns(h) /\ h \notin Slots /\ conns' = conns
      /\ \A u \in Handles : sess[u].pos \in Slots
  BY <1>0, SlotsAreSessions, PoolFacts DEF AliveInv, ConstructFromPool, Owns
<1>2. PICK i \in Slots :
        /\ sess'[h].fromPool = TRUE /\ sess'[h].pos = i
        /\ sess'[h].backEnd = sess[i].backEnd
        /\ \A u \in Sessions : u # h => sess'[u] = sess[u]
  BY <1>0, ConstructFromPoolFields
<1>3. OwnerInv'
  <2>1. \A u \in Sessions : /\ Owns(u)' <=> Owns(u)
                            /\ Owns(u) => sess'[u].backEnd = sess[u].backEnd
    BY <1>1, <1>2 DEF Owns
  <2> QED BY <1>0, <1>1, <2>1, KeepsOwners
<1>4. CachedBackEndValid'
  BY <1>0, <1>1, <1>2, SlotsAreSessions DEF CachedBackEndValid
<1> QED BY <1>3, <1>4 DEF IInv

\* What g owned is owned by h; what h owned before, if anything, is deleted.
LEMMA MovesOwned ==
  ASSUME IInv, PoolInv', NEW h \in Handles, NEW g \in Handles, h # g,
         sess'[h].backEnd = sess[g].backEnd,
         sess'[h].fromPool = sess[g].fromPool, sess'[h].pos = sess[g].pos,
         sess'[g].backEnd = None, sess'[g].fromPool = FALSE,
         \A u \in Sessions : u # h /\ u # g => sess'[u] = sess[u],
         Owns(h) => conns' = conns \ {sess[h].backEnd},
         ~ Owns(h) => conns' = conns
  PROVE  IInv'
<1>0. PoolInv /\ OwnerInv /\ CachedBackEndValid
  BY DEF IInv
<1>1. /\ h \in Sessions /\ g \in Sessions /\ h \notin Slots /\ g \notin Slots
      /\ \A u \in Handles : sess[u].pos \in Slots
  BY <1>0, SlotsAreSessions, PoolFacts
<1>2. (Owns(h)' <=> Owns(g)) /\ ~ Owns(g)'
  BY DEF Owns
<1>3. \A u \in Sessions : u # h /\ u # g =>
         (Owns(u)' <=> Owns(u)) /\ sess'[u].backEnd = sess[u].backEnd
  BY DEF Owns
<1>4. (\A s, u \in Sessions : Owns(s) /\ Owns(u) /\ sess[s].backEnd = sess[u].backEnd => s = u)'
  BY <1>0, <1>1, <1>2, <1>3 DEF OwnerInv
<1>5. (\A s \in Sessions : Owns(s) => sess[s].backEnd \in conns)'
  BY <1>0, <1>1, <1>2, <1>3 DEF OwnerInv
<1>6. (\A d \in conns : \E s \in Sessions : Owns(s) /\ sess[s].backEnd = d)'
  <2> SUFFICES ASSUME NEW d \in conns'
               PROVE  \E s \in Sessions : Owns(s)' /\ sess'[s].backEnd = d
    OBVIOUS
  <2>1. PICK s \in Sessions : Owns(s) /\ sess[s].backEnd = d
    BY <1>0 DEF OwnerInv
  <2>2. s # h
    BY <2>1
  <2> QED BY <1>1, <1>2, <1>3, <2>1, <2>2
<1>7. OwnerInv'
  BY <1>4, <1>5, <1>6 DEF OwnerInv
<1>8. CachedBackEndValid'
  BY <1>0, <1>1, SlotsAreSessions DEF CachedBackEndValid
<1> QED BY <1>7, <1>8 DEF IInv

LEMMA MoveAssignOwners ==
  ASSUME IInv, PoolInv', NEW h \in Handles, NEW g \in Handles, MoveAssign(h, g)
  PROVE  IInv'
<1>0. PoolInv /\ OwnerInv /\ CachedBackEndValid /\ AliveInv
  BY DEF IInv, PoolInv
<1>1. /\ h # g /\ sess[h].alive /\ sess[g].alive /\ Release(sess[h], {sess[g].backEnd})
      /\ sess' \in [Sessions -> SessionType]
      /\ sess'[h].alive = sess[g].alive /\ sess'[h].backEnd = sess[g].backEnd
      /\ sess'[h].fromPool = sess[g].fromPool /\ sess'[h].pos = sess[g].pos
      /\ sess'[g].alive = sess[g].alive /\ sess'[g].backEnd = None
      /\ sess'[g].fromPool = FALSE
      /\ \A u \in Sessions : u # h /\ u # g => sess'[u] = sess[u]
  BY <1>0, MoveAssignFields
<1>2. /\ h \in Sessions /\ g \in Sessions /\ h \notin Slots /\ sess[g].pos \in Slots
      /\ sess[g].pos \in Sessions /\ None \notin conns
  BY <1>0, SlotsAreSessions, PoolFacts, SessionAssumption
<1>3. /\ Leases(h) => conns' = conns
      /\ ~ Leases(h) => conns' = conns \ ({sess[h].backEnd} \ {sess[g].backEnd})
  BY <1>0, <1>1, ReleaseFields
<1>4. Owns(h) => sess[h].backEnd # sess[g].backEnd
  <2>1. CASE Leases(g)
    <3>1. sess[g].backEnd = sess[sess[g].pos].backEnd /\ ~ Leases(sess[g].pos)
      BY <1>0, <1>2, <2>1 DEF CachedBackEndValid, Leases, AliveInv
    <3> QED BY <1>0, <1>2, <3>1 DEF OwnerInv, Owns, Leases
  <2>2. CASE ~ Leases(g)
    BY <1>0, <1>1, <1>2, <2>2 DEF OwnerInv, Owns, Leases
  <2> QED BY <2>1, <2>2
<1>5. /\ Owns(h) => conns' = conns \ {sess[h].backEnd}
      /\ ~ Owns(h) => conns' = conns
  BY <1>2, <1>3, <1>4 DEF Owns, Leases
<1> QED BY <1>1, <1>5, MovesOwned

LEMMA DestroyOwners ==
  ASSUME IInv, PoolInv', NEW h \in Handles, Destroy(h)
  PROVE  IInv'
<1>0. PoolInv /\ OwnerInv /\ CachedBackEndValid
  BY DEF IInv
<1>1. /\ h \in Sessions /\ h \notin Slots /\ None \notin conns
      /\ \A u \in Handles : sess[u].pos \in Slots
      /\ Dead(h).fromPool = FALSE /\ Dead(h).backEnd = None
  BY <1>0, SlotsAreSessions, PoolFacts, SessionAssumption, FreshFields
<1>2. /\ sess'[h] = Dead(h)
      /\ \A u \in Sessions : u # h => sess'[u] = sess[u]
  <2>1. sess \in [Sessions -> SessionType]
    BY <1>0, PoolFacts
  <2> QED BY <1>1, <2>1 DEF Destroy
<1>3. /\ Leases(h) => conns' = conns
      /\ ~ Leases(h) => conns' = conns \ ({sess[h].backEnd} \ {})
  BY <1>0, ReleaseFields DEF Destroy
<1>4. ~ Owns(h)' /\ ~ Leases(h)' /\ sess'[h].backEnd = None
  BY <1>1, <1>2 DEF Owns, Leases
<1>5. \A u \in Sessions : u # h => /\ Owns(u)' <=> Owns(u)
                                   /\ Owns(u) => sess'[u].backEnd = sess[u].backEnd
  BY <1>2 DEF Owns
<1>6. OwnerInv'
  <2>1. CASE Leases(h)
    BY <1>0, <1>3, <1>4, <1>5, <2>1, KeepsOwners DEF Owns, Leases
  <2>2. CASE ~ Leases(h)
    <3>1. conns' = (conns \ {sess[h].backEnd}) \cup ({None} \ {None})
      BY <1>3, <2>2
    <3> QED BY <1>0, <1>1, <1>4, <1>5, <2>2, <3>1, ReplacesOwned
  <2> QED BY <2>1, <2>2
<1>7. CachedBackEndValid'
  BY <1>0, <1>1, <1>2, SlotsAreSessions DEF CachedBackEndValid
<1> QED BY <1>6, <1>7 DEF IInv

LEMMA ConnectsOwners ==
  ASSUME ~ FailsThroughPool, IInv, PoolInv', NEW s \in Sessions, NEW c \in Conns \cup {None},
         Connects(s, Worker(s), c)
  PROVE  IInv'
<1> DEFINE w == Worker(s)
<1>0. PoolInv /\ OwnerInv /\ CachedBackEndValid /\ AliveInv /\ LeaseInv
  BY DEF IInv, PoolInv
<1>1. /\ w \in Sessions /\ ~ Leases(w) /\ (w # s => Leases(s) /\ w = sess[s].pos)
      /\ \A u \in Handles : sess[u].pos \in Slots /\ sess[u].pos \in Sessions
  BY <1>0, PoolFacts, SlotsAreSessions DEF Worker, Leases
<1>2. /\ c \notin conns
      /\ conns' = (conns \ {sess[w].backEnd}) \cup ({c} \ {None})
      /\ \A u \in Sessions : /\ sess'[u].fromPool = sess[u].fromPool
                             /\ sess'[u].pos = sess[u].pos
                             /\ u \notin {s, w} => sess'[u].backEnd = sess[u].backEnd
      /\ sess'[w].backEnd = c /\ sess'[s].backEnd = c
      /\ s \in Slots => free[s]
  BY DEF Connects, Callable
<1> HIDE DEF w
<1>3. \A u \in Sessions : u # w => /\ Owns(u)' <=> Owns(u)
                                   /\ Owns(u) => sess'[u].backEnd = sess[u].backEnd
  BY <1>1, <1>2 DEF Owns, Leases
<1>4. OwnerInv'
  BY <1>0, <1>1, <1>2, <1>3, ReplacesOwned DEF Leases
<1>5. CachedBackEndValid'
  <2> SUFFICES ASSUME NEW u \in Handles, sess[u].fromPool
               PROVE  sess'[u].backEnd = sess'[sess[u].pos].backEnd
    BY <1>2, SlotsAreSessions DEF CachedBackEndValid
  <2>1. u # w
    BY <1>1 DEF Leases
  <2>2. CASE u = s
    <3>1. w = sess[s].pos
      BY <2>2 DEF w, Worker
    <3> QED BY <1>2, <2>2, <3>1
  <2>3. CASE u # s
    <3>1. sess[u].pos # w
      <4>1. CASE w = s
        BY <1>0, <1>1, <1>2, <4>1 DEF LeaseInv, Leases
      <4>2. CASE w # s
        <5>1. s \in Handles
          BY <1>0, <1>1, <4>2, SlotsAreSessions DEF AliveInv
        <5> QED BY <1>0, <1>1, <2>3, <4>2, <5>1 DEF LeaseInv, Leases
      <4> QED BY <4>1, <4>2
    <3>2. sess[u].pos # s
      BY <1>0, <1>1, <1>2 DEF LeaseInv, Leases
    <3> QED BY <1>0, <1>1, <1>2, <2>1, <2>3, <3>1, <3>2, SlotsAreSessions DEF CachedBackEndValid
  <2> QED BY <2>2, <2>3
<1> QED BY <1>4, <1>5 DEF IInv

LEMMA SettingsOwners ==
  ASSUME IInv, PoolInv', SettingsNext
  PROVE  IInv'
<1>0. PoolInv /\ OwnerInv /\ CachedBackEndValid
  BY DEF IInv
<1>1. /\ UNCHANGED conns
      /\ \A u \in Sessions : /\ sess'[u].fromPool = sess[u].fromPool
                             /\ sess'[u].pos = sess[u].pos
                             /\ sess'[u].backEnd = sess[u].backEnd
  BY <1>0, SettingsFields
<1>2. OwnerInv'
  BY <1>0, <1>1, KeepsOwners DEF Owns
<1>3. CachedBackEndValid'
  BY <1>0, <1>1, PoolFacts, SlotsAreSessions DEF CachedBackEndValid
<1> QED BY <1>2, <1>3 DEF IInv

LEMMA OwnerStep ==
  ASSUME ~ FailsThroughPool, IInv, [Next]_vars
  PROVE  IInv'
<1>0. PoolInv /\ PoolInv'
  BY PoolStep DEF IInv
<1>1. CASE HandleNext
  <2>1. PICK h \in Handles : \/ Construct(h)
                             \/ \E c \in Conns : ConstructConnected(h, c)
                             \/ ConstructFromPool(h)
                             \/ \E g \in Handles : MoveConstruct(h, g) \/ MoveAssign(h, g)
                             \/ Destroy(h)
    BY <1>1 DEF HandleNext
  <2>2. CASE Construct(h)
    <3>1. /\ Fresh(h) \in SessionType /\ ~ Fresh(h).fromPool /\ Fresh(h).backEnd = None
          /\ None \notin conns
      BY <1>0, SlotsAreSessions, FreshFields, PoolFacts, SessionAssumption
    <3>2. /\ ~ sess[h].alive /\ conns' = conns \cup ({None} \ {None})
          /\ sess' = [sess EXCEPT ![h] = Fresh(h)]
      BY <2>2 DEF Construct
    <3> QED BY <1>0, <3>1, <3>2, NewOwner
  <2>3. ASSUME NEW c \in Conns, ConstructConnected(h, c) PROVE IInv'
    <3> DEFINE n == [Fresh(h) EXCEPT !.backEnd = c, !.last = TRUE]
    <3>1. n \in SessionType /\ ~ n.fromPool /\ n.backEnd = c
      BY SlotsAreSessions DEF Fresh, SessionType, Modes
    <3>2. /\ ~ sess[h].alive /\ c \notin conns /\ conns' = conns \cup {c}
          /\ sess' = [sess EXCEPT ![h] = n]
      BY <2>3 DEF ConstructConnected
    <3>3. conns' = conns \cup ({c} \ {None})
      BY <3>2, SessionAssumption
    <3> HIDE DEF n
    <3> QED BY <1>0, <3>1, <3>2, <3>3, NewOwner
  <2>4. ASSUME NEW g \in Handles, MoveConstruct(h, g) PROVE IInv'
    <3>1. ~ Owns(h)
      BY <1>0, <2>4, SlotsAreSessions DEF MoveConstruct, PoolInv, AliveInv, Owns
    <3>2. /\ h # g /\ conns' = conns
          /\ sess'[h].backEnd = sess[g].backEnd
          /\ sess'[h].fromPool = sess[g].fromPool /\ sess'[h].pos = sess[g].pos
          /\ sess'[g].backEnd = None /\ sess'[g].fromPool = FALSE
          /\ \A u \in Sessions : u # h /\ u # g => sess'[u] = sess[u]
      BY <1>0, <2>4, MoveConstructFields
    <3> QED BY <1>0, <3>1, <3>2, MovesOwned
  <2> QED BY <1>0, <2>1, <2>2, <2>3, <2>4, ConstructFromPoolOwners, MoveAssignOwners,
             DestroyOwners
<1>2. CASE ConnectionNext
  BY <1>0, <1>2, ConnectionConnects, ConnectsOwners DEF ConnectionNext
<1>3. CASE SettingsNext
  BY <1>0, <1>3, SettingsOwners
<1>4. CASE UNCHANGED vars
  BY <1>0, <1>4 DEF vars, IInv, OwnerInv, CachedBackEndValid, Owns
<1> QED BY <1>1, <1>2, <1>3, <1>4 DEF Next

LEMMA InitPoolInv == Init => PoolInv /\ OwnerInv /\ CachedBackEndValid
<1> SUFFICES ASSUME Init PROVE PoolInv /\ OwnerInv /\ CachedBackEndValid
  OBVIOUS
<1>1. /\ \A s \in Sessions : /\ sess[s] \in SessionType /\ sess[s].backEnd = None
                             /\ sess[s].fromPool = FALSE
                             /\ s \in Slots => sess[s].alive
      /\ sess \in [Sessions -> SessionType]
      /\ conns = {} /\ free \in [Slots -> BOOLEAN] /\ \A i \in Slots : free[i]
  BY FreshFields DEF Init
<1>2. TypeOK /\ AliveInv
  BY <1>1, SlotsAreSessions DEF TypeOK, AliveInv, Leases
<1>3. LeaseInv
  BY <1>1, SlotsAreSessions DEF LeaseInv, Leases
<1>4. OwnerInv /\ CachedBackEndValid
  BY <1>1, SlotsAreSessions DEF OwnerInv, Owns, CachedBackEndValid
<1> QED BY <1>2, <1>3, <1>4 DEF PoolInv

-------------------------------------------------------------------------------

\* The types of the sessions, backends and positions.
THEOREM TypeCorrect == Spec => []TypeOK
<1>1. PoolInv => TypeOK
  BY DEF PoolInv
<1> QED BY InitPoolInv, PoolStep, <1>1, PTL DEF Spec

\* A position of the pool is leased to exactly one session or free, however sessions are made,
\* moved, assigned, reconnected and destroyed, and whatever fails.
THEOREM PositionsHaveOneLessee == Spec => []OneLessee
<1>1. PoolInv => OneLessee
  <2> SUFFICES ASSUME PoolInv, NEW i \in Slots
               PROVE  Cardinality(Lessees(i)) = IF free[i] THEN 0 ELSE 1
    BY DEF OneLessee
  <2>1. CASE free[i]
    <3>1. Lessees(i) = {}
      BY <2>1 DEF PoolInv, LeaseInv, Leases, Lessees
    <3> QED BY <2>1, <3>1, FS_EmptySet
  <2>2. CASE ~ free[i]
    <3>1. PICK h \in Handles : Leases(h) /\ sess[h].pos = i
      BY <2>2 DEF PoolInv, LeaseInv
    <3>2. Lessees(i) = {h}
      BY <3>1 DEF PoolInv, LeaseInv, Leases, Lessees
    <3> QED BY <2>2, <3>2, FS_Singleton
  <2> QED BY <2>1, <2>2
<1> QED BY InitPoolInv, PoolStep, <1>1, PTL DEF Spec

\* Every backend that exists is owned by exactly one session, so none is leaked and none deleted
\* twice, as long as reconnect() through a pooled session does not fail to connect (operator=
\* compares its backend with the other session's cached pointer, which would be stale).
THEOREM BackendsHaveOneOwner ==
  ASSUME ~ FailsThroughPool
  PROVE  Spec => []OneOwner
<1>1. IInv => OneOwner
  <2> SUFFICES ASSUME IInv, NEW c \in Conns
               PROVE  Cardinality(Owners(c)) = IF c \in conns THEN 1 ELSE 0
    BY DEF OneOwner
  <2>0. \A s \in Sessions : s \in Owners(c) <=> Owns(s) /\ sess[s].backEnd = c
    BY SessionAssumption DEF Owners, Owns
  <2>1. CASE c \notin conns
    <3>1. Owners(c) = {}
      BY <2>0, <2>1 DEF IInv, OwnerInv, Owners
    <3> QED BY <2>1, <3>1, FS_EmptySet
  <2>2. CASE c \in conns
    <3>1. PICK s \in Sessions : Owns(s) /\ sess[s].backEnd = c
      BY <2>2 DEF IInv, OwnerInv
    <3>2. Owners(c) = {s}
      BY <2>0, <3>1 DEF IInv, OwnerInv, Owners
    <3> QED BY <2>2, <3>2, FS_Singleton
  <2> QED BY <2>1, <2>2
<1>2. Init => IInv
  BY InitPoolInv DEF IInv
<1>3. IInv /\ [Next]_vars => IInv'
  BY OwnerStep
<1> QED BY <1>1, <1>2, <1>3, PTL DEF Spec

\* Under the same condition the pointer cached in a session made from the pool is the pooled
\* session's.
THEOREM CachedPointerValid ==
  ASSUME ~ FailsThroughPool
  PROVE  Spec => []CachedBackEndValid
<1>1. IInv => CachedBackEndValid
  BY DEF IInv
<1>2. Init => IInv
  BY InitPoolInv DEF IInv
<1>3. IInv /\ [Next]_vars => IInv'
  BY OwnerStep
<1> QED BY <1>1, <1>2, <1>3, PTL DEF Spec

===============================================================================
