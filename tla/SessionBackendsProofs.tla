------------------------- MODULE SessionBackendsProofs -------------------------
(***************************************************************************)
(* Proofs about SessionBackends, and so about BackendRegistry under it,    *)
(* for any names, objects and sessions and any number of loads and copies. *)
(***************************************************************************)
EXTENDS SessionBackends, FiniteSetTheorems, TLAPS

\* A loaded library belongs to one registered name; an entry that is in use is registered.
EntryInv ==
    /\ \A n \in Names : /\ reg[n].factory = Null => reg[n].use = 0
                        /\ reg[n].factory \in Libraries => reg[n].factory \in opened
    /\ \A n, m \in Names :
          reg[n].factory \in Libraries /\ reg[n].factory = reg[m].factory => n = m
    /\ opened \subseteq 1 .. loads
    /\ DeferredUnload /\ NoHandleLost

\* A reference that is not deleted uses a name, and each use of a name is one of them.
Users(n) == {r \in Live : refs[r].name = n}
UseInv ==
    /\ \A r \in Live : refs[r].name \in Names
    /\ UseCountsRefs

\* A reference has at least as many counts as holders.  It may have more: operator=(&&)
\* between two objects that share a reference counts it down for neither.
HoldInv == \A r \in Refs : Cardinality(Holders(r)) <= refs[r].count

\* An object with a reference has the factory registered under its name; one without has none
\* that would need to be kept loaded.
ParamInv ==
    \A p \in Params :
        /\ params[p].ref # None =>
              /\ params[p].ref \in Live
              /\ params[p].factory = reg[refs[params[p].ref].name].factory
        /\ params[p].ref = None => params[p].factory \in {Null, Application}
        /\ ~ params[p].alive => params[p].ref = None /\ params[p].factory = Null

ConnInv ==
    /\ conn \in [Sessions -> Factories \cup {Null}]
    /\ ReconnectsLikewise

RegInv == TypeOK /\ EntryInv /\ UseInv /\ HoldInv /\ ParamInv
IInv == RegInv /\ ConnInv

-------------------------------------------------------------------------------
(* The registry                                                            *)

EntryType == [factory : Factories \cup {Null}, use : Nat, unload : BOOLEAN]

RegTypes ==
    /\ reg \in [Names -> EntryType]
    /\ opened \in SUBSET Libraries
    /\ loads \in 0 .. MaxLoads

LEMMA EntryFields ==
  ASSUME RegTypes, NEW n \in Names
  PROVE  /\ reg[n] \in EntryType /\ reg[n].factory \in Factories \cup {Null}
         /\ reg[n].use \in Nat /\ reg[n].unload \in BOOLEAN
BY DEF RegTypes, EntryType

LEMMA NoEntryFields ==
  NoEntry \in EntryType /\ NoEntry.factory = Null /\ NoEntry.use = 0 /\ NoEntry.unload = FALSE
BY DEF NoEntry, EntryType

\* Factories change only for the names in N, to none, and their libraries are closed.
LEMMA ErasesEntries ==
  ASSUME RegTypes, EntryInv, NEW N \in SUBSET Names,
         reg' \in [Names -> EntryType], loads' = loads,
         \A n \in N : reg'[n] = NoEntry,
         \A n \in Names \ N : /\ reg'[n].factory = reg[n].factory
                              /\ reg[n].factory = Null => reg'[n].use = 0
                              /\ reg'[n].unload => reg'[n].use > 0,
         opened' = opened \ {reg[n].factory : n \in N}
  PROVE  RegTypes' /\ EntryInv'
<1>1. RegTypes'
  BY DEF RegTypes
<1>2. (\A n \in Names : /\ reg[n].factory = Null => reg[n].use = 0
                        /\ reg[n].factory \in Libraries => reg[n].factory \in opened)'
  <2> SUFFICES ASSUME NEW n \in Names
               PROVE  /\ reg'[n].factory = Null => reg'[n].use = 0
                      /\ reg'[n].factory \in Libraries => reg'[n].factory \in opened'
    OBVIOUS
  <2>1. CASE n \in N
    BY <2>1, NoEntryFields DEF Libraries, Null
  <2>2. CASE n \notin N
    BY <2>2 DEF EntryInv
  <2> QED BY <2>1, <2>2
<1>3. (\A n, m \in Names :
          reg[n].factory \in Libraries /\ reg[n].factory = reg[m].factory => n = m)'
  <2>1. \A n \in N : reg'[n].factory \notin Libraries
    BY NoEntryFields, RegistryAssumption DEF Libraries, Null
  <2> QED BY <2>1 DEF EntryInv
<1>4. (opened \subseteq 1 .. loads)'
  BY DEF EntryInv
<1>5. DeferredUnload'
  <2> SUFFICES ASSUME NEW n \in Names, reg'[n].unload
               PROVE  reg'[n].use > 0
    BY DEF DeferredUnload, InUse
  <2> QED BY NoEntryFields
<1>6. NoHandleLost'
  BY DEF EntryInv, NoHandleLost
<1> QED BY <1>1, <1>2, <1>3, <1>4, <1>5, <1>6 DEF EntryInv

\* The new entry of a name that is not in use replaces what it had: by the library that was
\* loaded last, or by an object of the application.
LEMMA ReplacesEntry ==
  ASSUME RegTypes, EntryInv, NEW n \in Names, NEW e \in EntryType, ~ e.unload,
         reg' = [reg EXCEPT ![n] = e],
         \/ /\ e.factory = Application
            /\ loads' = loads
            /\ opened' = opened \ {reg[n].factory}
         \/ /\ loads < MaxLoads /\ loads' = loads + 1
            /\ e.factory = loads + 1
            /\ opened' = (opened \ {reg[n].factory}) \cup {loads + 1}
  PROVE  RegTypes' /\ EntryInv'
<1>0. loads \in 0 .. MaxLoads /\ opened \subseteq 1 .. loads /\ opened \subseteq Libraries
      /\ reg \in [Names -> EntryType] /\ MaxLoads \in Nat
  BY RegistryAssumption DEF RegTypes, EntryInv
<1>1. /\ reg' \in [Names -> EntryType] /\ reg'[n] = e
      /\ \A m \in Names : m # n => reg'[m] = reg[m]
  BY <1>0
<1>2. RegTypes' /\ opened' \subseteq 1 .. loads'
  <2>1. CASE e.factory = Application /\ loads' = loads /\ opened' = opened \ {reg[n].factory}
    BY <1>0, <1>1, <2>1 DEF RegTypes
  <2>2. CASE /\ loads < MaxLoads /\ loads' = loads + 1
             /\ opened' = (opened \ {reg[n].factory}) \cup {loads + 1}
    <3>1. loads + 1 \in Libraries /\ loads + 1 \in 0 .. MaxLoads
      BY <1>0, <2>2 DEF Libraries
    <3>2. \A x \in opened : x \in 1 .. loads + 1
      BY <1>0
    <3>3. loads + 1 \in 1 .. loads + 1
      BY <1>0
    <3> QED BY <1>0, <1>1, <2>2, <3>1, <3>2, <3>3 DEF RegTypes
  <2> QED BY <2>1, <2>2
<1>3. \A m \in Names : reg[m].factory \in Libraries => reg[m].factory \in opened
  BY DEF EntryInv
<1>4. \A m \in Names : m # n => reg[m].factory # loads + 1
  <2> SUFFICES ASSUME NEW m \in Names, reg[m].factory = loads + 1, m # n PROVE FALSE
    OBVIOUS
  <2>1. reg[m].factory \in Factories \cup {Null}
    BY EntryFields
  <2>2. reg[m].factory \in Libraries
    BY <1>0, <2>1 DEF Factories, Libraries, Null, Application
  <2> QED BY <1>0, <1>3, <2>2
<1>5. (\A m \in Names : /\ reg[m].factory = Null => reg[m].use = 0
                        /\ reg[m].factory \in Libraries => reg[m].factory \in opened)'
  <2> SUFFICES ASSUME NEW m \in Names
               PROVE  /\ reg'[m].factory = Null => reg'[m].use = 0
                      /\ reg'[m].factory \in Libraries => reg'[m].factory \in opened'
    OBVIOUS
  <2>1. CASE m = n
    BY <1>0, <1>1, <2>1 DEF Libraries, Null, Application
  <2>2. CASE m # n
    BY <1>1, <2>2 DEF EntryInv
  <2> QED BY <2>1, <2>2
<1>6. (\A m, k \in Names :
          reg[m].factory \in Libraries /\ reg[m].factory = reg[k].factory => m = k)'
  <2>1. e.factory = Application => e.factory \notin Libraries
    BY RegistryAssumption DEF Libraries, Application
  <2> QED BY <1>1, <1>4, <2>1 DEF EntryInv
<1>7. (opened \subseteq 1 .. loads)'
  BY <1>2
<1>8. DeferredUnload'
  BY <1>1 DEF EntryInv, DeferredUnload, InUse
<1>9. NoHandleLost'
  <2> SUFFICES ASSUME NEW x \in opened'
               PROVE  \E m \in Names : x = reg'[m].factory
    BY DEF NoHandleLost
  <2>1. CASE x \in opened /\ x # reg[n].factory
    <3>1. PICK m \in Names : x = reg[m].factory
      BY <2>1 DEF EntryInv, NoHandleLost
    <3> QED BY <1>1, <2>1, <3>1
  <2>2. CASE x = e.factory
    BY <1>1, <2>2
  <2> QED BY <2>1, <2>2
<1> QED BY <1>2, <1>5, <1>6, <1>7, <1>8, <1>9 DEF EntryInv

\* What register_backend(), unload() and unload_all() leave alone: the uses, and the factory of
\* a backend in use.
KeepsUses ==
    \A m \in Names : reg'[m].use = reg[m].use /\ (InUse(m) => reg'[m].factory = reg[m].factory)

LEMMA UnloadNamesStep ==
  ASSUME RegTypes, EntryInv, NEW M \in SUBSET Names, UnloadNames(M)
  PROVE  RegTypes' /\ EntryInv' /\ KeepsUses /\ UNCHANGED <<refs, params>>
<1> DEFINE busy == {n \in M : InUse(n)}
           N == M \ busy
<1>0. reg \in [Names -> EntryType]
  BY DEF RegTypes
<1>1. \A n \in Names : /\ reg[n] \in EntryType /\ reg[n].use \in Nat
                       /\ [reg[n] EXCEPT !.unload = TRUE] \in EntryType
                       /\ [reg[n] EXCEPT !.unload = TRUE].factory = reg[n].factory
                       /\ [reg[n] EXCEPT !.unload = TRUE].use = reg[n].use
  BY <1>0 DEF EntryType
<1>2. reg' = [n \in Names |-> IF n \in busy THEN [reg[n] EXCEPT !.unload = TRUE]
                              ELSE IF n \in M THEN NoEntry
                              ELSE reg[n]]
  BY DEF UnloadNames
<1>3. opened' = opened \ {reg[n].factory : n \in N} /\ UNCHANGED <<loads, refs, params>>
  BY DEF UnloadNames
<1>4. reg' \in [Names -> EntryType]
  BY <1>1, <1>2, NoEntryFields
<1>5. \A n \in N : reg'[n] = NoEntry /\ reg[n].use = 0
  <2> SUFFICES ASSUME NEW n \in N PROVE reg'[n] = NoEntry /\ reg[n].use = 0
    OBVIOUS
  <2>0. n \in Names /\ n \in M /\ n \notin busy /\ ~ InUse(n)
    OBVIOUS
  <2>1. reg[n].use = 0
    BY <2>0, EntryFields DEF InUse
  <2> HIDE DEF busy, N
  <2> QED BY <1>2, <2>0, <2>1
<1>6. \A n \in Names \ N : /\ reg'[n].factory = reg[n].factory
                           /\ reg'[n].use = reg[n].use
                           /\ n \in busy => reg[n].use > 0
                           /\ n \notin busy => reg'[n] = reg[n]
  BY <1>1, <1>2 DEF InUse
<1>7. N \in SUBSET Names
  OBVIOUS
<1> HIDE DEF N, busy
<1>8. \A n \in Names \ N : /\ reg[n].factory = Null => reg'[n].use = 0
                           /\ reg'[n].unload => reg'[n].use > 0
  BY <1>6 DEF EntryInv, DeferredUnload, InUse
<1>9. RegTypes' /\ EntryInv'
  BY <1>3, <1>4, <1>5, <1>6, <1>7, <1>8, ErasesEntries
<1>10. KeepsUses
  BY <1>5, <1>6, NoEntryFields DEF KeepsUses, InUse
<1> QED BY <1>3, <1>9, <1>10

LEMMA LoadLibraryStep ==
  ASSUME RegTypes, EntryInv, NEW n \in Names, NEW use \in Nat, LoadLibrary(n, use)
  PROVE  /\ RegTypes' /\ EntryInv'
         /\ reg'[n].use = use /\ reg'[n].factory \in Libraries
         /\ \A m \in Names : m # n => reg'[m] = reg[m]
<1> DEFINE e == [factory |-> loads + 1, use |-> use, unload |-> FALSE]
<1>0. loads \in 0 .. MaxLoads /\ loads < MaxLoads /\ reg \in [Names -> EntryType] /\ MaxLoads \in Nat
  BY RegistryAssumption DEF RegTypes, LoadLibrary
<1>1. loads + 1 \in Libraries
  BY <1>0 DEF Libraries
<1>2. e \in EntryType /\ e.factory = loads + 1 /\ e.use = use /\ ~ e.unload
  BY <1>1 DEF EntryType, Factories
<1>3. /\ reg' = [reg EXCEPT ![n] = e] /\ loads' = loads + 1
      /\ opened' = (opened \ {reg[n].factory}) \cup {loads + 1}
  BY DEF LoadLibrary
<1> HIDE DEF e
<1>4. reg'[n] = e /\ \A m \in Names : m # n => reg'[m] = reg[m]
  BY <1>0, <1>3
<1>5. RegTypes' /\ EntryInv'
  BY <1>0, <1>2, <1>3, ReplacesEntry
<1> QED BY <1>1, <1>2, <1>4, <1>5

LEMMA RegistryStep ==
  ASSUME RegTypes, EntryInv, RegistryNext
  PROVE  RegTypes' /\ EntryInv' /\ KeepsUses /\ UNCHANGED <<refs, params>>
<1>0. reg \in [Names -> EntryType]
  BY DEF RegTypes
<1>1. ASSUME NEW n \in Names, RegisterSharedObject(n), LoadLibrary(n, 0)
      PROVE  RegTypes' /\ EntryInv' /\ KeepsUses /\ UNCHANGED <<refs, params>>
  <2>1. /\ RegTypes' /\ EntryInv' /\ reg'[n].use = 0
        /\ \A m \in Names : m # n => reg'[m] = reg[m]
    BY <1>1, LoadLibraryStep
  <2>2. ~ InUse(n) /\ reg[n].use = 0 /\ UNCHANGED <<refs, params>>
    BY <1>1, EntryFields DEF RegisterSharedObject, InUse
  <2> QED BY <2>1, <2>2 DEF KeepsUses
<1>2. ASSUME NEW n \in Names, RegisterSharedObject(n), DoUnload({n}), UNCHANGED loads
      PROVE  RegTypes' /\ EntryInv' /\ KeepsUses /\ UNCHANGED <<refs, params>>
  <2>1. ~ InUse(n) /\ reg[n].use = 0 /\ UNCHANGED <<refs, params>>
    BY <1>2, EntryFields DEF RegisterSharedObject, InUse
  <2>2. /\ reg' \in [Names -> EntryType] /\ reg'[n] = NoEntry
        /\ \A m \in Names : m # n => reg'[m] = reg[m]
        /\ opened' = opened \ {reg[m].factory : m \in {n}}
    BY <1>0, <1>2, NoEntryFields DEF DoUnload
  <2>3. \A m \in Names \ {n} : /\ reg[m].factory = Null => reg'[m].use = 0
                               /\ reg'[m].unload => reg'[m].use > 0
    BY <2>2 DEF EntryInv, DeferredUnload, InUse
  <2>4. RegTypes' /\ EntryInv'
    BY <1>2, <2>2, <2>3, ErasesEntries
  <2> QED BY <2>1, <2>2, <2>4, NoEntryFields DEF KeepsUses
<1>3. ASSUME NEW n \in Names, RegisterFactory(n)
      PROVE  RegTypes' /\ EntryInv' /\ KeepsUses /\ UNCHANGED <<refs, params>>
  <2> DEFINE e == [factory |-> Application, use |-> 0, unload |-> FALSE]
  <2>1. ~ InUse(n) /\ reg[n].use = 0 /\ UNCHANGED <<refs, params>>
    BY <1>3, EntryFields DEF RegisterFactory, InUse
  <2>2. e \in EntryType /\ e.factory = Application /\ e.use = 0 /\ ~ e.unload
    BY DEF EntryType, Factories
  <2>3. /\ reg' = [reg EXCEPT ![n] = e] /\ loads' = loads
        /\ opened' = opened \ {reg[n].factory}
    BY <1>3 DEF RegisterFactory
  <2> HIDE DEF e
  <2>4. reg'[n] = e /\ \A m \in Names : m # n => reg'[m] = reg[m]
    BY <1>0, <2>3
  <2>5. RegTypes' /\ EntryInv'
    BY <2>2, <2>3, ReplacesEntry
  <2> QED BY <2>1, <2>2, <2>4, <2>5 DEF KeepsUses
<1>4. ASSUME NEW n \in Names, Unload(n)
      PROVE  RegTypes' /\ EntryInv' /\ KeepsUses /\ UNCHANGED <<refs, params>>
  BY <1>4, UnloadNamesStep DEF Unload
<1>5. ASSUME UnloadAll
      PROVE  RegTypes' /\ EntryInv' /\ KeepsUses /\ UNCHANGED <<refs, params>>
  BY <1>5, UnloadNamesStep DEF UnloadAll
<1> QED BY <1>1, <1>2, <1>3, <1>4, <1>5 DEF RegistryNext, RegisterSharedObject

\* unget() takes one use back; the factory stays for the uses that are left.
LEMMA UngetStep ==
  ASSUME RegTypes, EntryInv, NEW n \in Names, InUse(n), Unget(n), loads' = loads
  PROVE  /\ RegTypes' /\ EntryInv'
         /\ reg'[n].use = reg[n].use - 1
         /\ reg[n].use > 1 => reg'[n].factory = reg[n].factory
         /\ \A m \in Names : m # n => reg'[m] = reg[m]
<1>0. reg \in [Names -> EntryType] /\ reg[n].use \in Nat \ {0}
  BY EntryFields DEF RegTypes, InUse
<1>1. CASE reg[n].use = 1 /\ reg[n].unload
  <2>1. /\ reg' \in [Names -> EntryType] /\ reg'[n] = NoEntry
        /\ \A m \in Names : m # n => reg'[m] = reg[m]
        /\ opened' = opened \ {reg[m].factory : m \in {n}}
    BY <1>0, <1>1, NoEntryFields DEF Unget, DoUnload
  <2>2. \A m \in Names \ {n} : /\ reg'[m].factory = reg[m].factory
                               /\ reg[m].factory = Null => reg'[m].use = 0
                               /\ reg'[m].unload => reg'[m].use > 0
    BY <2>1 DEF EntryInv, DeferredUnload, InUse
  <2>3. RegTypes' /\ EntryInv'
    <3>1. {n} \in SUBSET Names /\ \A m \in {n} : reg'[m] = NoEntry
      BY <2>1
    <3> QED BY <2>1, <2>2, <3>1, ErasesEntries
  <2> QED BY <1>1, <2>1, <2>3, NoEntryFields
<1>2. CASE ~ (reg[n].use = 1 /\ reg[n].unload)
  <2>1. reg' = [reg EXCEPT ![n].use = @ - 1] /\ opened' = opened
    BY <1>2 DEF Unget
  <2>2. /\ reg' \in [Names -> EntryType]
        /\ reg'[n].use = reg[n].use - 1 /\ reg'[n].factory = reg[n].factory
        /\ reg'[n].unload = reg[n].unload
        /\ \A m \in Names : m # n => reg'[m] = reg[m]
    BY <1>0, <2>1 DEF EntryType
  <2>3. \A m \in Names : /\ reg'[m].factory = reg[m].factory
                         /\ reg[m].factory = Null => reg'[m].use = 0
                         /\ reg'[m].unload => reg'[m].use > 0
    BY <1>0, <1>2, <2>2 DEF EntryInv, DeferredUnload, InUse
  <2>4. opened' = opened \ {reg[m].factory : m \in {}}
    BY <2>1
  <2>5. RegTypes' /\ EntryInv'
    <3>1. {} \in SUBSET Names /\ (\A m \in {} : reg'[m] = NoEntry) /\ Names \ {} = Names
      OBVIOUS
    <3> QED BY <2>2, <2>3, <2>4, <3>1, ErasesEntries
  <2> QED BY <2>2, <2>5
<1> QED BY <1>1, <1>2

-------------------------------------------------------------------------------
(* References                                                              *)

RefType == [name : Names \cup {None}, count : 0 .. MaxCount]
ParamType == [alive : BOOLEAN, ref : Refs \cup {None}, factory : Factories \cup {Null}]

LEMMA TypesSplit ==
  TypeOK <=> /\ RegTypes
             /\ refs \in [Refs -> RefType]
             /\ params \in [Params -> ParamType]
BY DEF TypeOK, RegTypes, EntryType, RefType, ParamType

LEMMA IncRefFields ==
  ASSUME NEW rs \in [Refs -> RefType], NEW r \in Refs, rs[r].count < MaxCount
  PROVE  /\ IncRef(rs, r) \in [Refs -> RefType]
         /\ IncRef(rs, r)[r].count = rs[r].count + 1
         /\ IncRef(rs, r)[r].name = rs[r].name
         /\ \A q \in Refs : q # r => IncRef(rs, r)[q] = rs[q]
BY RegistryAssumption DEF IncRef, RefType

LEMMA DecRefFields ==
  ASSUME NEW rs \in [Refs -> RefType], NEW r \in Refs, rs[r].count > 0
  PROVE  /\ DecRef(rs, r) \in [Refs -> RefType]
         /\ DecRef(rs, r)[r].count = rs[r].count - 1
         /\ rs[r].count > 1 => DecRef(rs, r)[r].name = rs[r].name
         /\ \A q \in Refs : q # r => DecRef(rs, r)[q] = rs[q]
<1>0. r # None
  BY RegistryAssumption
<1>1. CASE rs[r].count = 1
  <2>1. DecRef(rs, r) = [rs EXCEPT ![r] = Deleted]
    BY <1>0, <1>1 DEF DecRef
  <2>2. Deleted \in RefType /\ Deleted.count = 0
    BY RegistryAssumption DEF Deleted, RefType
  <2> QED BY <1>1, <2>1, <2>2
<1>2. CASE rs[r].count # 1
  <2>1. DecRef(rs, r) = [rs EXCEPT ![r].count = @ - 1]
    BY <1>0, <1>2 DEF DecRef
  <2>2. rs[r].count \in 0 .. MaxCount /\ rs[r].count - 1 \in 0 .. MaxCount
    BY RegistryAssumption DEF RefType
  <2> QED BY <2>1, <2>2 DEF RefType
<1> QED BY <1>1, <1>2

\* Live references keep their names and the factories registered under these.
KeepsFactories ==
    \A r \in Live : r \in Live' => /\ refs'[r].name = refs[r].name
                                   /\ reg'[refs[r].name].factory = reg[refs[r].name].factory

\* A name has a use for each of its references, so a live reference has a registered name.
LEMMA LiveIsUsed ==
  ASSUME TypeOK, UseInv, NEW r \in Live
  PROVE  /\ r \in Refs /\ refs[r].name \in Names /\ InUse(refs[r].name)
         /\ \A q \in Live : q # r /\ refs[q].name = refs[r].name => reg[refs[r].name].use > 1
<1> DEFINE n == refs[r].name
<1>1. r \in Refs /\ n \in Names
  BY DEF UseInv, Live
<1>2. Users(n) \subseteq Refs /\ IsFiniteSet(Refs)
  BY RegistryAssumption DEF Users, Live
<1>3. IsFiniteSet(Users(n)) /\ Cardinality(Users(n)) \in Nat
  BY <1>2, FS_Subset, FS_CardinalityType
<1>4. reg[n].use = Cardinality(Users(n))
  BY <1>1 DEF UseInv, UseCountsRefs, Users
<1>5. r \in Users(n)
  BY DEF Users
<1>6. Cardinality(Users(n)) > 0
  <2>1. Users(n) # {}
    BY <1>5
  <2> QED BY <1>3, <2>1, FS_EmptySet
<1>7. ASSUME NEW q \in Live, q # r, refs[q].name = n
      PROVE  reg[n].use > 1
  <2>1. q \in Users(n) \ {r}
    BY <1>7 DEF Users
  <2>2. IsFiniteSet(Users(n) \ {r}) /\ Cardinality(Users(n) \ {r}) = Cardinality(Users(n)) - 1
    BY <1>3, <1>5, FS_RemoveElement
  <2>3. Cardinality(Users(n) \ {r}) # 0
    BY <2>1, <2>2, FS_EmptySet
  <2> QED BY <1>3, <1>4, <1>6, <2>2, <2>3
<1> QED BY <1>1, <1>4, <1>6, <1>7 DEF InUse

\* The registry changes, the references do not.
LEMMA RegistryKeeps ==
  ASSUME TypeOK, UseInv, KeepsUses, UNCHANGED refs
  PROVE  UseInv' /\ KeepsFactories
<1>1. Live' = Live
  BY DEF Live
<1>2. UseInv'
  BY <1>1 DEF UseInv, UseCountsRefs, KeepsUses
<1>3. KeepsFactories
  BY <1>1, LiveIsUsed DEF KeepsUses, KeepsFactories
<1> QED BY <1>2, <1>3

\* One count of reference old is given back, and with the last one its use.
LEMMA DropStep ==
  ASSUME TypeOK, EntryInv, UseInv, NEW old \in Refs \cup {None}, UngetDeleted(old),
         loads' = loads, refs' \in [Refs -> RefType],
         \A r \in Refs : r # old => /\ r \in Live' <=> r \in Live
                                    /\ r \in Live => refs'[r].name = refs[r].name,
         old # None => old \in Live /\ (old \in Live' => refs'[old].name = refs[old].name)
  PROVE  RegTypes' /\ EntryInv' /\ UseInv' /\ KeepsFactories
<1>0. RegTypes
  BY TypesSplit
<1>1. CASE old = None \/ old \in Live'
  <2>1. UNCHANGED <<reg, opened>>
    BY <1>1 DEF UngetDeleted, Live
  <2>2. Live' = Live /\ \A r \in Live : refs'[r].name = refs[r].name
    BY <1>1, RegistryAssumption DEF Live
  <2>3. RegTypes' /\ EntryInv'
    BY <1>0, <2>1 DEF RegTypes, EntryInv, DeferredUnload, NoHandleLost, InUse
  <2>4. UseInv'
    <3>1. \A n \in Names : {r \in Live' : refs'[r].name = n} = {r \in Live : refs[r].name = n}
      BY <2>2
    <3>2. (\A r \in Live : refs[r].name \in Names)'
      BY <2>2 DEF UseInv
    <3>3. UseCountsRefs'
      BY <2>1, <3>1 DEF UseInv, UseCountsRefs
    <3> QED BY <3>2, <3>3 DEF UseInv
  <2>5. KeepsFactories
    BY <2>1, <2>2 DEF KeepsFactories
  <2> QED BY <2>3, <2>4, <2>5
<1>2. CASE old # None /\ old \notin Live'
  <2> DEFINE n == refs[old].name
  <2>1. old \in Refs /\ old \in Live /\ refs'[old].count = 0
    BY <1>2 DEF Live, RefType
  <2>2. n \in Names /\ InUse(n)
        /\ \A q \in Live : q # old /\ refs[q].name = n => reg[n].use > 1
    BY <2>1, LiveIsUsed
  <2>3. Unget(n)
    BY <1>2, <2>1 DEF UngetDeleted
  <2> HIDE DEF n
  <2>4. /\ RegTypes' /\ EntryInv'
        /\ reg'[n].use = reg[n].use - 1
        /\ reg[n].use > 1 => reg'[n].factory = reg[n].factory
        /\ \A m \in Names : m # n => reg'[m] = reg[m]
    BY <1>0, <2>2, <2>3, UngetStep
  <2>5. Live' = Live \ {old} /\ \A r \in Live' : refs'[r].name = refs[r].name
    BY <1>2, <2>1 DEF Live
  <2>6. (\A r \in Live : refs[r].name \in Names)'
    BY <2>5 DEF UseInv
  <2>7. UseCountsRefs'
    <3> SUFFICES ASSUME NEW m \in Names
                 PROVE  reg'[m].use = Cardinality({r \in Live' : refs'[r].name = m})
      BY DEF UseCountsRefs
    <3>1. reg[m].use = Cardinality({r \in Live : refs[r].name = m})
      BY DEF UseInv, UseCountsRefs
    <3>2. CASE m # n
      <4>1. {r \in Live' : refs'[r].name = m} = {r \in Live : refs[r].name = m}
        BY <2>5, <3>2 DEF n
      <4> QED BY <2>4, <3>1, <3>2, <4>1
    <3>3. CASE m = n
      <4> DEFINE U == {r \in Live : refs[r].name = m}
      <4>1. {r \in Live' : refs'[r].name = m} = U \ {old} /\ old \in U
        BY <2>1, <2>5, <3>3 DEF n
      <4>2. U \subseteq Refs /\ IsFiniteSet(Refs)
        BY RegistryAssumption DEF Live
      <4> HIDE DEF U
      <4>3. Cardinality(U \ {old}) = Cardinality(U) - 1
        BY <4>1, <4>2, FS_Subset, FS_RemoveElement
      <4> QED BY <2>4, <3>1, <3>3, <4>1, <4>3 DEF U
    <3> QED BY <3>2, <3>3
  <2>8. KeepsFactories
    <3> SUFFICES ASSUME NEW r \in Live, r \in Live'
                 PROVE  /\ refs'[r].name = refs[r].name
                        /\ reg'[refs[r].name].factory = reg[refs[r].name].factory
      BY DEF KeepsFactories
    <3>1. refs[r].name \in Names /\ r # old
      BY <2>5 DEF UseInv
    <3>2. refs[r].name = n => reg[n].use > 1
      BY <2>2, <3>1
    <3> QED BY <2>4, <2>5, <3>1, <3>2
  <2> QED BY <2>4, <2>6, <2>7, <2>8 DEF UseInv
<1> QED BY <1>1, <1>2

\* get(): the new reference r of name n has its use, and the factory that is registered now.
LEMMA GetStep ==
  ASSUME TypeOK, EntryInv, UseInv, NEW p \in Params, NEW n \in Names, NEW r \in Refs,
         ConstructByName(p, n, r)
  PROVE  /\ RegTypes' /\ EntryInv' /\ UseInv' /\ KeepsFactories
         /\ refs' \in [Refs -> RefType] /\ r \notin Live /\ r \in Live'
         /\ refs'[r].name = n /\ refs'[r].count = 1
         /\ \A q \in Refs : q # r => refs'[q] = refs[q]
         /\ reg'[n].factory \in Factories
<1> DEFINE e == [name |-> n, count |-> 1]
<1>0. RegTypes /\ refs \in [Refs -> RefType] /\ reg \in [Names -> EntryType]
  BY TypesSplit DEF RegTypes
<1>1. e \in RefType /\ e.name = n /\ e.count = 1
  BY RegistryAssumption DEF RefType
<1>2. refs[r].count = 0 /\ refs' = [refs EXCEPT ![r] = e]
  BY DEF ConstructByName
<1> HIDE DEF e
<1>3. /\ refs' \in [Refs -> RefType] /\ refs'[r] = e
      /\ \A q \in Refs : q # r => refs'[q] = refs[q]
  BY <1>0, <1>1, <1>2
<1>4. r \notin Live /\ Live' = Live \cup {r}
  BY <1>1, <1>2, <1>3 DEF Live
<1>5. /\ RegTypes' /\ EntryInv' /\ reg'[n].use = reg[n].use + 1
      /\ reg'[n].factory \in Factories
      /\ InUse(n) => reg'[n].factory = reg[n].factory
      /\ \A m \in Names : m # n => reg'[m] = reg[m]
  <2>0. reg[n].use \in Nat /\ reg[n].factory \in Factories \cup {Null}
    BY <1>0, EntryFields
  <2>1. CASE Registered(n)
    <3>1. reg' = [reg EXCEPT ![n].use = @ + 1] /\ UNCHANGED <<opened, loads>>
      BY <2>1 DEF ConstructByName
    <3>2. /\ reg' \in [Names -> EntryType]
          /\ reg'[n].use = reg[n].use + 1 /\ reg'[n].factory = reg[n].factory
          /\ reg'[n].unload = reg[n].unload
          /\ \A m \in Names : m # n => reg'[m] = reg[m]
      BY <1>0, <2>0, <3>1 DEF EntryType
    <3>3. \A m \in Names : /\ reg'[m].factory = reg[m].factory
                           /\ reg[m].factory = Null => reg'[m].use = 0
                           /\ reg'[m].unload => reg'[m].use > 0
      BY <2>0, <2>1, <3>2 DEF EntryInv, DeferredUnload, InUse, Registered
    <3>4. opened' = opened \ {reg[m].factory : m \in {}}
      BY <3>1
    <3>5. {} \in SUBSET Names /\ (\A m \in {} : reg'[m] = NoEntry) /\ Names \ {} = Names
      OBVIOUS
    <3>6. RegTypes' /\ EntryInv'
      BY <1>0, <3>1, <3>2, <3>3, <3>4, <3>5, ErasesEntries
    <3>7. reg[n].factory \in Factories
      BY <2>0, <2>1 DEF Registered
    <3> QED BY <3>2, <3>6, <3>7
  <2>2. CASE ~ Registered(n)
    <3>1. LoadLibrary(n, 1) /\ reg[n].use = 0
      BY <2>2 DEF ConstructByName, Registered, EntryInv
    <3>2. /\ RegTypes' /\ EntryInv'
          /\ reg'[n].use = 1 /\ reg'[n].factory \in Libraries
          /\ \A m \in Names : m # n => reg'[m] = reg[m]
      BY <1>0, <3>1, LoadLibraryStep
    <3> QED BY <3>1, <3>2 DEF InUse, Factories
  <2> QED BY <2>1, <2>2
<1>6. (\A q \in Live : refs[q].name \in Names)'
  BY <1>1, <1>3, <1>4 DEF UseInv, Live
<1>7. \A q \in Live : refs'[q] = refs[q]
  BY <1>3, <1>4 DEF Live
<1>8. UseCountsRefs'
  <2> SUFFICES ASSUME NEW m \in Names
               PROVE  reg'[m].use = Cardinality({q \in Live' : refs'[q].name = m})
    BY DEF UseCountsRefs
  <2>1. reg[m].use = Cardinality({q \in Live : refs[q].name = m})
    BY DEF UseInv, UseCountsRefs
  <2>2. CASE m # n
    <3>1. {q \in Live' : refs'[q].name = m} = {q \in Live : refs[q].name = m}
      BY <1>1, <1>3, <1>4, <1>7, <2>2
    <3> QED BY <1>5, <2>1, <2>2, <3>1
  <2>3. CASE m = n
    <3> DEFINE U == {q \in Live : refs[q].name = m}
    <3>1. {q \in Live' : refs'[q].name = m} = U \cup {r} /\ r \notin U
      BY <1>1, <1>3, <1>4, <1>7, <2>3
    <3>2. U \subseteq Refs /\ IsFiniteSet(Refs)
      BY RegistryAssumption DEF Live
    <3> HIDE DEF U
    <3>3. Cardinality(U \cup {r}) = Cardinality(U) + 1
      BY <3>1, <3>2, FS_Subset, FS_AddElement
    <3> QED BY <1>5, <2>1, <2>3, <3>1, <3>3 DEF U
  <2> QED BY <2>2, <2>3
<1>9. KeepsFactories
  <2> SUFFICES ASSUME NEW q \in Live
               PROVE  /\ refs'[q].name = refs[q].name
                      /\ reg'[refs[q].name].factory = reg[refs[q].name].factory
    BY DEF KeepsFactories
  <2> QED BY <1>5, <1>7, LiveIsUsed
<1> QED BY <1>1, <1>3, <1>4, <1>5, <1>6, <1>8, <1>9 DEF UseInv

-------------------------------------------------------------------------------
(* Holders                                                                 *)

LEMMA AddsAtMostOne ==
  ASSUME NEW H, IsFiniteSet(H), NEW p
  PROVE  /\ IsFiniteSet(H \cup {p}) /\ Cardinality(H \cup {p}) <= Cardinality(H) + 1
         /\ Cardinality(H \cup {p}) \in Nat
<1>0. Cardinality(H) \in Nat
  BY FS_CardinalityType
<1>1. CASE p \in H
  <2>1. H \cup {p} = H
    BY <1>1
  <2> QED BY <1>0, <2>1
<1>2. CASE p \notin H
  <2>1. IsFiniteSet(H \cup {p}) /\ Cardinality(H \cup {p}) = Cardinality(H) + 1
    BY <1>2, FS_AddElement
  <2> QED BY <1>0, <2>1
<1> QED BY <1>1, <1>2

\* A set of holders that loses or gains an element, or changes one for another.
LEMMA HolderBounds ==
  ASSUME NEW H \in SUBSET Params, NEW G \in SUBSET Params, NEW c \in Nat, NEW d \in Nat,
         Cardinality(H) <= c,
         \/ G \subseteq H /\ d >= c
         \/ \E p \in Params : G \subseteq H \cup {p} /\ d >= c + 1
         \/ \E p \in H : G \subseteq H \ {p} /\ d >= c - 1
         \/ \E q \in H, p \in Params : G \subseteq (H \ {q}) \cup {p} /\ d >= c
  PROVE  Cardinality(G) <= d
<1>0. IsFiniteSet(H) /\ IsFiniteSet(G) /\ Cardinality(H) \in Nat /\ Cardinality(G) \in Nat
  BY RegistryAssumption, FS_Subset, FS_CardinalityType
<1>1. ASSUME G \subseteq H, d >= c PROVE Cardinality(G) <= d
  <2>1. Cardinality(G) <= Cardinality(H)
    BY <1>0, <1>1, FS_Subset
  <2> QED BY <1>0, <1>1, <2>1
<1>2. ASSUME NEW p \in Params, G \subseteq H \cup {p}, d >= c + 1 PROVE Cardinality(G) <= d
  <2>1. /\ IsFiniteSet(H \cup {p}) /\ Cardinality(H \cup {p}) <= Cardinality(H) + 1
        /\ Cardinality(H \cup {p}) \in Nat
    BY <1>0, AddsAtMostOne
  <2>2. Cardinality(G) <= Cardinality(H \cup {p})
    BY <1>2, <2>1, FS_Subset
  <2> QED BY <1>0, <1>2, <2>1, <2>2
<1>3. ASSUME NEW p \in H, G \subseteq H \ {p}, d >= c - 1 PROVE Cardinality(G) <= d
  <2>1. /\ IsFiniteSet(H \ {p}) /\ Cardinality(H \ {p}) = Cardinality(H) - 1
        /\ Cardinality(H \ {p}) \in Nat
    BY <1>0, FS_RemoveElement, FS_CardinalityType
  <2>2. Cardinality(G) <= Cardinality(H \ {p})
    BY <1>3, <2>1, FS_Subset
  <2> QED BY <1>0, <1>3, <2>1, <2>2
<1>4. ASSUME NEW q \in H, NEW p \in Params, G \subseteq (H \ {q}) \cup {p}, d >= c
      PROVE  Cardinality(G) <= d
  <2> DEFINE K == H \ {q}
  <2>1. IsFiniteSet(K) /\ Cardinality(K) = Cardinality(H) - 1 /\ Cardinality(K) \in Nat
    BY <1>0, FS_RemoveElement, FS_CardinalityType
  <2> HIDE DEF K
  <2>2. /\ IsFiniteSet(K \cup {p}) /\ Cardinality(K \cup {p}) <= Cardinality(K) + 1
        /\ Cardinality(K \cup {p}) \in Nat
    BY <2>1, AddsAtMostOne
  <2>3. Cardinality(G) <= Cardinality(K \cup {p})
    BY <1>4, <2>2, FS_Subset DEF K
  <2> QED BY <1>0, <1>4, <2>1, <2>2, <2>3
<1> QED BY <1>1, <1>2, <1>3, <1>4

\* A reference that an object holds is not deleted.
LEMMA HolderIsLive ==
  ASSUME NEW ps, NEW rs \in [Refs -> RefType], NEW p \in Params, ps[p].ref \in Refs,
         \A r \in Refs : Cardinality({q \in Params : ps[q].ref = r}) <= rs[r].count
  PROVE  rs[ps[p].ref].count > 0
<1> DEFINE H == {q \in Params : ps[q].ref = ps[p].ref}
<1>1. IsFiniteSet(H) /\ Cardinality(H) \in Nat
  BY RegistryAssumption, FS_Subset, FS_CardinalityType
<1>2. Cardinality(H) # 0
  BY <1>1, FS_EmptySet
<1>3. Cardinality(H) <= rs[ps[p].ref].count /\ rs[ps[p].ref].count \in 0 .. MaxCount
  BY RegistryAssumption DEF RefType
<1> HIDE DEF H
<1> QED BY <1>1, <1>2, <1>3, RegistryAssumption

\* What an operation on connection_parameters may make of an object: what another was, nothing
\* that refers to a library, or a new holder of what is registered now.
LEMMA ParamsStep ==
  ASSUME RegInv, params' \in [Params -> ParamType], refs' \in [Refs -> RefType],
         RegTypes', EntryInv', UseInv', KeepsFactories, HoldInv',
         \A p \in Params :
            \/ \E q \in Params : params'[p] = params[q]
            \/ /\ params'[p].ref = None /\ params'[p].factory \in {Null, Application}
               /\ params'[p].alive \/ params'[p].factory = Null
            \/ /\ params'[p].ref # None /\ params'[p].alive
               /\ params'[p].factory = reg'[refs'[params'[p].ref].name].factory
  PROVE  RegInv'
<1>0. TypeOK'
  BY DEF TypeOK, RegTypes, EntryType, RefType, ParamType
<1>1. ParamInv /\ TypeOK
  BY DEF RegInv
<1>2. \A p \in Params : params'[p].ref # None => params'[p].ref \in Live'
  <2> SUFFICES ASSUME NEW p \in Params, params'[p].ref # None PROVE params'[p].ref \in Live'
    OBVIOUS
  <2>1. params'[p].ref \in Refs
    BY DEF ParamType
  <2>2. \A r \in Refs : Cardinality({q \in Params : params'[q].ref = r}) <= refs'[r].count
    BY DEF HoldInv, Holders
  <2>3. refs'[params'[p].ref].count > 0
    BY <2>1, <2>2, HolderIsLive
  <2> QED BY <2>1, <2>3 DEF Live
<1>3. ParamInv'
  <2> SUFFICES ASSUME NEW p \in Params
               PROVE  /\ params'[p].ref # None =>
                            params'[p].factory = reg'[refs'[params'[p].ref].name].factory
                      /\ params'[p].ref = None => params'[p].factory \in {Null, Application}
                      /\ ~ params'[p].alive => params'[p].ref = None /\ params'[p].factory = Null
    BY <1>2 DEF ParamInv
  <2>1. ASSUME NEW q \in Params, params'[p] = params[q]
        PROVE  /\ params'[p].ref # None =>
                     params'[p].factory = reg'[refs'[params'[p].ref].name].factory
               /\ params'[p].ref = None => params'[p].factory \in {Null, Application}
               /\ ~ params'[p].alive => params'[p].ref = None /\ params'[p].factory = Null
    <3>1. params[q].ref # None => /\ params[q].ref \in Live /\ params[q].ref \in Live'
                                  /\ params[q].factory = reg[refs[params[q].ref].name].factory
      BY <1>1, <1>2, <2>1 DEF ParamInv
    <3> QED BY <1>1, <2>1, <3>1 DEF ParamInv, KeepsFactories
  <2> QED BY <2>1
<1> QED BY <1>0, <1>3 DEF RegInv

LEMMA HoldStep ==
  ASSUME TypeOK, HoldInv, refs' \in [Refs -> RefType],
         \A r \in Refs :
            \/ Holders(r)' \subseteq Holders(r) /\ refs'[r].count >= refs[r].count
            \/ \E p \in Params :
                  /\ Holders(r)' \subseteq Holders(r) \cup {p}
                  /\ refs'[r].count >= refs[r].count + 1
            \/ \E p \in Holders(r) :
                  /\ Holders(r)' \subseteq Holders(r) \ {p}
                  /\ refs'[r].count >= refs[r].count - 1
            \/ \E q \in Holders(r), p \in Params :
                  /\ Holders(r)' \subseteq (Holders(r) \ {q}) \cup {p}
                  /\ refs'[r].count >= refs[r].count
  PROVE  HoldInv'
<1> SUFFICES ASSUME NEW r \in Refs PROVE Cardinality(Holders(r)') <= refs'[r].count
  BY DEF HoldInv
<1>1. refs[r].count \in Nat /\ refs'[r].count \in Nat
  BY TypesSplit, RegistryAssumption DEF RefType
<1>2. Holders(r) \in SUBSET Params /\ Holders(r)' \in SUBSET Params
  BY DEF Holders
<1>3. Cardinality(Holders(r)) <= refs[r].count
  BY DEF HoldInv
<1> QED BY <1>1, <1>2, <1>3, HolderBounds

-------------------------------------------------------------------------------
(* The operations on connection_parameters                                 *)

\* What the operations start from.
LEMMA Start ==
  ASSUME RegInv
  PROVE  /\ TypeOK /\ RegTypes /\ EntryInv /\ UseInv /\ HoldInv /\ ParamInv
         /\ refs \in [Refs -> RefType] /\ params \in [Params -> ParamType]
         /\ \A r \in Refs : refs[r].count \in 0 .. MaxCount
         /\ \A p \in Params : /\ params[p].ref \in Refs \cup {None}
                              /\ params[p].ref # None => refs[params[p].ref].count > 0
                              /\ params[p].factory \in Factories \cup {Null}
<1>1. TypeOK /\ RegTypes /\ refs \in [Refs -> RefType] /\ params \in [Params -> ParamType]
      /\ ParamInv
  BY TypesSplit DEF RegInv
<1>2. \A r \in Refs : refs[r].count \in 0 .. MaxCount
  BY <1>1 DEF RefType
<1>3. \A p \in Params : /\ params[p].ref \in Refs \cup {None}
                       /\ params[p].factory \in Factories \cup {Null}
  BY <1>1 DEF ParamType
<1>4. \A p \in Params : params[p].ref # None => refs[params[p].ref].count > 0
  BY <1>1 DEF ParamInv, Live
<1> QED BY <1>1, <1>2, <1>3, <1>4 DEF RegInv

LEMMA PlainFields ==
  /\ Moved \in ParamType /\ Moved.ref = None /\ Moved.factory = Null /\ Moved.alive
  /\ Unborn \in ParamType /\ Unborn.ref = None /\ Unborn.factory = Null /\ ~ Unborn.alive
BY DEF Moved, Unborn, ParamType

LEMMA ConstructPlainStep ==
  ASSUME RegInv, NEW p \in Params, NEW f \in {Null, Application}, ConstructPlain(p, f)
  PROVE  RegInv' /\ params'[p].factory = f /\ \A x \in Params : x # p => params'[x] = params[x]
<1> DEFINE v == [alive |-> TRUE, factory |-> f, ref |-> None]
<1>0. /\ TypeOK /\ RegTypes /\ EntryInv /\ UseInv /\ HoldInv
      /\ refs \in [Refs -> RefType] /\ params \in [Params -> ParamType]
  BY Start
<1>1. v \in ParamType /\ v.alive /\ v.factory = f /\ v.ref = None
  BY DEF ParamType, Factories
<1>2. params' = [params EXCEPT ![p] = v] /\ UNCHANGED <<reg, opened, loads, refs>>
  BY DEF ConstructPlain
<1> HIDE DEF v
<1>3. params' \in [Params -> ParamType] /\ params'[p] = v
      /\ \A x \in Params : x # p => params'[x] = params[x]
  BY <1>0, <1>1, <1>2
<1>4. RegTypes' /\ EntryInv' /\ UseInv' /\ KeepsFactories
  <2>1. UngetDeleted(None)
    BY <1>2 DEF UngetDeleted
  <2> QED BY <1>0, <1>2, <2>1, DropStep DEF Live
<1>5. HoldInv'
  <2>1. \A r \in Refs : refs'[r].count >= refs[r].count
    BY <1>0, <1>2, Start
  <2>2. \A r \in Refs : Holders(r)' \subseteq Holders(r)
    BY <1>1, <1>3, RegistryAssumption DEF Holders
  <2> QED BY <1>0, <1>2, <2>1, <2>2, HoldStep
<1>6. \A x \in Params :
            \/ \E q \in Params : params'[x] = params[q]
            \/ /\ params'[x].ref = None /\ params'[x].factory \in {Null, Application}
               /\ params'[x].alive \/ params'[x].factory = Null
  BY <1>1, <1>3
<1>7. RegInv'
  BY <1>0, <1>2, <1>3, <1>4, <1>5, <1>6, ParamsStep
<1> QED BY <1>1, <1>3, <1>7

LEMMA ConstructByNameStep ==
  ASSUME RegInv, NEW p \in Params, NEW n \in Names, NEW r \in Refs, ConstructByName(p, n, r)
  PROVE  /\ RegInv' /\ params'[p].factory = reg'[n].factory /\ reg'[n].factory \in Factories
         /\ \A x \in Params : x # p => params'[x] = params[x]
<1> DEFINE v == [alive |-> TRUE, factory |-> reg'[n].factory, ref |-> r]
<1>0. /\ TypeOK /\ RegTypes /\ EntryInv /\ UseInv /\ HoldInv
      /\ refs \in [Refs -> RefType] /\ params \in [Params -> ParamType]
  BY Start
<1>1. /\ RegTypes' /\ EntryInv' /\ UseInv' /\ KeepsFactories
      /\ refs' \in [Refs -> RefType] /\ r \notin Live /\ r \in Live'
      /\ refs'[r].name = n /\ refs'[r].count = 1
      /\ \A q \in Refs : q # r => refs'[q] = refs[q]
      /\ reg'[n].factory \in Factories
  BY <1>0, GetStep
<1>2. /\ v \in ParamType /\ v.alive /\ v.ref = r /\ v.ref # None
      /\ v.factory = reg'[n].factory
  BY <1>1, RegistryAssumption DEF ParamType
<1>3. params' = [params EXCEPT ![p] = v] /\ refs[r].count = 0
  BY DEF ConstructByName
<1> HIDE DEF v
<1>4. params' \in [Params -> ParamType] /\ params'[p] = v
      /\ \A x \in Params : x # p => params'[x] = params[x]
  BY <1>0, <1>2, <1>3
<1>5. HoldInv'
  <2>1. ASSUME NEW q \in Refs, q # r
        PROVE  Holders(q)' \subseteq Holders(q) /\ refs'[q].count >= refs[q].count
    <3>1. refs[q].count \in 0 .. MaxCount /\ refs'[q] = refs[q]
      BY <1>1, <2>1, Start
    <3> QED BY <1>2, <1>4, <2>1, <3>1, RegistryAssumption DEF Holders
  <2>2. Holders(r)' \subseteq Holders(r) \cup {p} /\ refs'[r].count >= refs[r].count + 1
    BY <1>1, <1>3, <1>4 DEF Holders
  <2> QED BY <1>0, <1>1, <2>1, <2>2, HoldStep
<1>6. \A x \in Params :
            \/ \E q \in Params : params'[x] = params[q]
            \/ /\ params'[x].ref # None /\ params'[x].alive
               /\ params'[x].factory = reg'[refs'[params'[x].ref].name].factory
  BY <1>1, <1>2, <1>4
<1>7. RegInv'
  BY <1>0, <1>1, <1>4, <1>5, <1>6, ParamsStep
<1> QED BY <1>1, <1>2, <1>4, <1>7

\* The objects change places or are reset; the use of reference old is given back if it is gone.
LEMMA ExchangeStep ==
  ASSUME RegInv, NEW old \in Refs \cup {None}, UngetDeleted(old), loads' = loads,
         params' \in [Params -> ParamType], refs' \in [Refs -> RefType],
         \A x \in Params : \/ \E y \in Params : params'[x] = params[y]
                           \/ params'[x] = Moved \/ params'[x] = Unborn,
         \A r \in Refs : /\ refs'[r].count > 0 => refs[r].count > 0
                         /\ r # old /\ refs[r].count > 0 => refs'[r].count > 0
                         /\ refs'[r].count > 0 => refs'[r].name = refs[r].name,
         old # None => refs[old].count > 0,
         HoldInv'
  PROVE  RegInv'
<1>0. TypeOK /\ EntryInv /\ UseInv
  BY Start
<1>1. RegTypes' /\ EntryInv' /\ UseInv' /\ KeepsFactories
  <2>1. \A r \in Refs : r # old => /\ r \in Live' <=> r \in Live
                                   /\ r \in Live => refs'[r].name = refs[r].name
    BY DEF Live
  <2>2. old # None => old \in Live /\ (old \in Live' => refs'[old].name = refs[old].name)
    BY DEF Live
  <2> QED BY <1>0, <2>1, <2>2, DropStep
<1>2. \A x \in Params :
         \/ \E q \in Params : params'[x] = params[q]
         \/ /\ params'[x].ref = None /\ params'[x].factory \in {Null, Application}
            /\ params'[x].alive \/ params'[x].factory = Null
  BY PlainFields
<1> QED BY <1>1, <1>2, ParamsStep

LEMMA DestroyStep ==
  ASSUME RegInv, NEW p \in Params, Destroy(p)
  PROVE  RegInv' /\ \A x \in Params : x # p => params'[x] = params[x]
<1> DEFINE a == params[p].ref
<1>0. /\ TypeOK /\ HoldInv
      /\ refs \in [Refs -> RefType] /\ params \in [Params -> ParamType]
      /\ a \in Refs \cup {None} /\ (a # None => refs[a].count > 0)
      /\ \A r \in Refs : refs[r].count \in 0 .. MaxCount
  BY Start
<1>1. /\ params' \in [Params -> ParamType] /\ params'[p] = Unborn
      /\ \A x \in Params : x # p => params'[x] = params[x]
  BY <1>0, PlainFields DEF Destroy
<1>2. refs' = DecRef(refs, a) /\ UngetDeleted(a) /\ loads' = loads
  BY DEF Destroy
<1>3. /\ refs' \in [Refs -> RefType]
      /\ \A r \in Refs : r # a => refs'[r] = refs[r]
      /\ a # None => /\ refs'[a].count = refs[a].count - 1
                     /\ refs[a].count > 1 => refs'[a].name = refs[a].name
  <2>1. CASE a = None
    BY <1>0, <1>2, <2>1 DEF DecRef
  <2>2. CASE a # None
    BY <1>0, <1>2, <2>2, DecRefFields
  <2> QED BY <2>1, <2>2
<1>4. HoldInv'
  <2>1. \A r \in Refs : Holders(r)' \subseteq Holders(r) \ {p}
    BY <1>1, PlainFields, RegistryAssumption DEF Holders
  <2>2. a \in Refs => p \in Holders(a)
    BY DEF Holders
  <2> HIDE DEF a
  <2>3. \A r \in Refs : r # a => Holders(r)' \subseteq Holders(r) /\ refs'[r].count >= refs[r].count
    BY <1>0, <1>3, <2>1, RegistryAssumption
  <2>4. a \in Refs => refs'[a].count >= refs[a].count - 1
    BY <1>0, <1>3, RegistryAssumption
  <2> QED BY <1>0, <1>3, <2>1, <2>2, <2>3, <2>4, HoldStep
<1> HIDE DEF a
<1>5. \A r \in Refs : /\ refs'[r].count > 0 => refs[r].count > 0
                      /\ r # a /\ refs[r].count > 0 => refs'[r].count > 0
                      /\ refs'[r].count > 0 => refs'[r].name = refs[r].name
  BY <1>0, <1>3, RegistryAssumption
<1>6. \A x \in Params : \/ \E y \in Params : params'[x] = params[y]
                        \/ params'[x] = Moved \/ params'[x] = Unborn
  BY <1>1
<1>7. RegInv'
  BY <1>0, <1>1, <1>2, <1>3, <1>4, <1>5, <1>6, ExchangeStep
<1> QED BY <1>1, <1>7

LEMMA CopyConstructStep ==
  ASSUME RegInv, NEW p \in Params, NEW q \in Params, CopyConstruct(p, q)
  PROVE  /\ RegInv' /\ params'[p] = params[q]
         /\ \A x \in Params : x # p => params'[x] = params[x]
<1> DEFINE b == params[q].ref
<1>0. /\ TypeOK /\ HoldInv
      /\ refs \in [Refs -> RefType] /\ params \in [Params -> ParamType]
      /\ b \in Refs \cup {None} /\ (b # None => refs[b].count > 0)
      /\ \A r \in Refs : refs[r].count \in 0 .. MaxCount
  BY Start
<1>1. /\ params' \in [Params -> ParamType] /\ params'[p] = params[q]
      /\ \A x \in Params : x # p => params'[x] = params[x]
  BY <1>0 DEF CopyConstruct
<1>2. /\ refs' = IncRef(refs, b) /\ UNCHANGED <<reg, opened, loads>>
      /\ b # None => refs[b].count < MaxCount
  BY DEF CopyConstruct, MayCopy
<1>3. /\ refs' \in [Refs -> RefType]
      /\ \A r \in Refs : r # b => refs'[r] = refs[r]
      /\ b # None => refs'[b].count = refs[b].count + 1 /\ refs'[b].name = refs[b].name
  <2>1. CASE b = None
    BY <1>0, <1>2, <2>1 DEF IncRef
  <2>2. CASE b # None
    BY <1>0, <1>2, <2>2, IncRefFields
  <2> QED BY <2>1, <2>2
<1>4. HoldInv'
  <2>1. \A r \in Refs : r # b => Holders(r)' \subseteq Holders(r)
    BY <1>1 DEF Holders
  <2>2. \A r \in Refs : Holders(r)' \subseteq Holders(r) \cup {p}
    BY <1>1 DEF Holders
  <2> HIDE DEF b
  <2>3. \A r \in Refs : r # b => Holders(r)' \subseteq Holders(r) /\ refs'[r].count >= refs[r].count
    BY <1>0, <1>3, <2>1, RegistryAssumption
  <2>4. b \in Refs => refs'[b].count >= refs[b].count + 1
    BY <1>0, <1>3, RegistryAssumption
  <2> QED BY <1>0, <1>3, <2>2, <2>3, <2>4, HoldStep
<1> HIDE DEF b
<1>5. \A r \in Refs : /\ refs'[r].count > 0 => refs[r].count > 0
                      /\ refs[r].count > 0 => refs'[r].count > 0
                      /\ refs'[r].count > 0 => refs'[r].name = refs[r].name
  BY <1>0, <1>3, RegistryAssumption
<1>6. UngetDeleted(None)
  BY <1>2 DEF UngetDeleted
<1>7. RegInv'
  BY <1>1, <1>2, <1>3, <1>4, <1>5, <1>6, ExchangeStep
<1> QED BY <1>1, <1>7

LEMMA MoveConstructStep ==
  ASSUME RegInv, NEW p \in Params, NEW q \in Params, MoveConstruct(p, q)
  PROVE  /\ RegInv' /\ p # q /\ params'[p] = params[q] /\ params'[q] = Moved
         /\ \A x \in Params : x # p /\ x # q => params'[x] = params[x]
<1>0. /\ TypeOK /\ HoldInv
      /\ refs \in [Refs -> RefType] /\ params \in [Params -> ParamType]
      /\ \A r \in Refs : refs[r].count \in 0 .. MaxCount
  BY Start
<1>1. p # q /\ UNCHANGED <<reg, opened, loads, refs>>
  BY DEF MoveConstruct
<1>2. /\ params' \in [Params -> ParamType] /\ params'[p] = params[q] /\ params'[q] = Moved
      /\ \A x \in Params : x # p /\ x # q => params'[x] = params[x]
  BY <1>0, <1>1, PlainFields DEF MoveConstruct
<1>3. HoldInv'
  <2>1. \A r \in Refs : r # params[q].ref => Holders(r)' \subseteq Holders(r)
    BY <1>2, PlainFields, RegistryAssumption DEF Holders
  <2>2. \A r \in Refs : r = params[q].ref => /\ q \in Holders(r)
                                             /\ Holders(r)' \subseteq (Holders(r) \ {q}) \cup {p}
    BY <1>2, PlainFields, RegistryAssumption DEF Holders
  <2>3. \A r \in Refs : refs'[r].count >= refs[r].count
    BY <1>0, <1>1
  <2> QED BY <1>0, <1>1, <2>1, <2>2, <2>3, HoldStep
<1>4. UngetDeleted(None)
  BY <1>1 DEF UngetDeleted
<1>5. \A x \in Params : \/ \E y \in Params : params'[x] = params[y]
                        \/ params'[x] = Moved \/ params'[x] = Unborn
  BY <1>2
<1>6. RegInv'
  BY <1>0, <1>1, <1>2, <1>3, <1>4, <1>5, ExchangeStep
<1> QED BY <1>1, <1>2, <1>6

LEMMA CopyAssignStep ==
  ASSUME RegInv, NEW p \in Params, NEW q \in Params, CopyAssign(p, q)
  PROVE  /\ RegInv' /\ params'[p] = params[q]
         /\ \A x \in Params : x # p => params'[x] = params[x]
<1> DEFINE a == params[p].ref
           b == params[q].ref
           rs == IncRef(refs, b)
<1>0. /\ TypeOK /\ HoldInv
      /\ refs \in [Refs -> RefType] /\ params \in [Params -> ParamType]
      /\ a \in Refs \cup {None} /\ (a # None => refs[a].count > 0)
      /\ b \in Refs \cup {None} /\ (b # None => refs[b].count > 0)
      /\ \A r \in Refs : refs[r].count \in 0 .. MaxCount
  BY Start
<1>1. /\ params' \in [Params -> ParamType] /\ params'[p] = params[q]
      /\ \A x \in Params : x # p => params'[x] = params[x]
  BY <1>0 DEF CopyAssign
<1>2. /\ refs' = DecRef(rs, a) /\ UngetDeleted(a) /\ loads' = loads
      /\ b # None => refs[b].count < MaxCount
  BY DEF CopyAssign, MayCopy
<1>3. /\ rs \in [Refs -> RefType]
      /\ \A r \in Refs : r # b => rs[r] = refs[r]
      /\ b # None => rs[b].count = refs[b].count + 1 /\ rs[b].name = refs[b].name
  <2>1. CASE b = None
    BY <1>0, <2>1 DEF IncRef
  <2>2. CASE b # None
    BY <1>0, <1>2, <2>2, IncRefFields
  <2> QED BY <2>1, <2>2
<1>h. /\ \A r \in Refs : r # b => Holders(r)' \subseteq Holders(r) \ {p}
      /\ \A r \in Refs : Holders(r)' \subseteq Holders(r) \cup {p}
      /\ \A r \in Refs : r = a => p \in Holders(r)
  BY <1>1 DEF Holders
<1> HIDE DEF a, b, rs
<1>4. /\ refs' \in [Refs -> RefType]
      /\ \A r \in Refs : r # a => refs'[r] = rs[r]
      /\ a # None => /\ refs'[a].count = rs[a].count - 1
                     /\ rs[a].count > 1 => refs'[a].name = rs[a].name
  <2>1. CASE a = None
    BY <1>2, <1>3, <2>1 DEF DecRef
  <2>2. CASE a # None
    <3>1. rs[a].count > 0
      BY <1>0, <1>3, <2>2, RegistryAssumption
    <3> QED BY <1>0, <1>2, <1>3, <2>2, <3>1, DecRefFields
  <2> QED BY <2>1, <2>2
<1>5. \A r \in Refs :
         /\ r # a /\ r # b => refs'[r] = refs[r]
         /\ r = b /\ a # b => refs'[r].count = refs[r].count + 1 /\ refs'[r].name = refs[r].name
         /\ r = a /\ a # b => /\ refs'[r].count = refs[r].count - 1
                              /\ refs[r].count > 1 => refs'[r].name = refs[r].name
         /\ r = a /\ r = b => refs'[r].count = refs[r].count /\ refs'[r].name = refs[r].name
  BY <1>0, <1>3, <1>4, RegistryAssumption
<1>6. HoldInv'
  <2>1. \A r \in Refs : r # a /\ r # b => /\ Holders(r)' \subseteq Holders(r)
                                          /\ refs'[r].count >= refs[r].count
    BY <1>0, <1>5, <1>h
  <2>2. \A r \in Refs : r = b /\ a # b => /\ Holders(r)' \subseteq Holders(r) \cup {p}
                                          /\ refs'[r].count >= refs[r].count + 1
    BY <1>0, <1>5, <1>h
  <2>3. \A r \in Refs : r = a /\ a # b => /\ p \in Holders(r)
                                          /\ Holders(r)' \subseteq Holders(r) \ {p}
                                          /\ refs'[r].count >= refs[r].count - 1
    BY <1>0, <1>5, <1>h
  <2>4. \A r \in Refs : r = a /\ r = b => /\ Holders(r)' \subseteq Holders(r)
                                          /\ refs'[r].count >= refs[r].count
    BY <1>0, <1>5, <1>h
  <2> QED BY <1>0, <1>4, <2>1, <2>2, <2>3, <2>4, HoldStep
<1>7. \A r \in Refs : /\ refs'[r].count > 0 => refs[r].count > 0
                      /\ r # a /\ refs[r].count > 0 => refs'[r].count > 0
                      /\ refs'[r].count > 0 => refs'[r].name = refs[r].name
  BY <1>0, <1>5, RegistryAssumption
<1>8. \A x \in Params : \/ \E y \in Params : params'[x] = params[y]
                        \/ params'[x] = Moved \/ params'[x] = Unborn
  BY <1>1
<1>9. RegInv'
  BY <1>0, <1>1, <1>2, <1>4, <1>6, <1>7, <1>8, ExchangeStep
<1> QED BY <1>1, <1>9

LEMMA MoveAssignStep ==
  ASSUME RegInv, NEW p \in Params, NEW q \in Params, MoveAssign(p, q)
  PROVE  /\ RegInv' /\ (p # q => params'[p] = params[q]) /\ params'[q] = Moved
         /\ \A x \in Params : x # p /\ x # q => params'[x] = params[x]
<1> DEFINE b == params[q].ref
           a == IF params[p].ref = params[q].ref THEN None ELSE params[p].ref
<1>0. /\ TypeOK /\ HoldInv
      /\ refs \in [Refs -> RefType] /\ params \in [Params -> ParamType]
      /\ a \in Refs \cup {None} /\ (a # None => refs[a].count > 0)
      /\ \A r \in Refs : refs[r].count \in 0 .. MaxCount
  BY Start
<1>1. /\ params' \in [Params -> ParamType] /\ (p # q => params'[p] = params[q])
      /\ params'[q] = Moved
      /\ \A x \in Params : x # p /\ x # q => params'[x] = params[x]
  BY <1>0, PlainFields DEF MoveAssign
<1>2. /\ refs' = DecRef(refs, a) /\ UngetDeleted(a) /\ loads' = loads
  BY DEF MoveAssign
<1>h. /\ \A r \in Refs : r # b => Holders(r)' \subseteq Holders(r) \ {p}
      /\ \A r \in Refs : r = b => /\ q \in Holders(r)
                                   /\ Holders(r)' \subseteq (Holders(r) \ {q}) \cup {p}
      /\ \A r \in Refs : r = a => p \in Holders(r) /\ r # b
  BY <1>1, PlainFields, RegistryAssumption DEF Holders
<1> HIDE DEF a, b
<1>3. /\ refs' \in [Refs -> RefType]
      /\ \A r \in Refs : r # a => refs'[r] = refs[r]
      /\ a # None => /\ refs'[a].count = refs[a].count - 1
                     /\ refs[a].count > 1 => refs'[a].name = refs[a].name
  <2>1. CASE a = None
    BY <1>0, <1>2, <2>1 DEF DecRef
  <2>2. CASE a # None
    BY <1>0, <1>2, <2>2, DecRefFields
  <2> QED BY <2>1, <2>2
<1>4. HoldInv'
  <2>1. \A r \in Refs : r # a /\ r # b => /\ Holders(r)' \subseteq Holders(r)
                                          /\ refs'[r].count >= refs[r].count
    BY <1>0, <1>3, <1>h
  <2>2. \A r \in Refs : r = b => /\ q \in Holders(r)
                                 /\ Holders(r)' \subseteq (Holders(r) \ {q}) \cup {p}
                                 /\ refs'[r].count >= refs[r].count
    BY <1>0, <1>3, <1>h
  <2>3. \A r \in Refs : r = a => /\ p \in Holders(r)
                                 /\ Holders(r)' \subseteq Holders(r) \ {p}
                                 /\ refs'[r].count >= refs[r].count - 1
    BY <1>0, <1>3, <1>h, RegistryAssumption
  <2> QED BY <1>0, <1>3, <2>1, <2>2, <2>3, HoldStep
<1>5. \A r \in Refs : /\ refs'[r].count > 0 => refs[r].count > 0
                      /\ r # a /\ refs[r].count > 0 => refs'[r].count > 0
                      /\ refs'[r].count > 0 => refs'[r].name = refs[r].name
  BY <1>0, <1>3, RegistryAssumption
<1>6. \A x \in Params : \/ \E y \in Params : params'[x] = params[y]
                        \/ params'[x] = Moved \/ params'[x] = Unborn
  BY <1>1
<1>7. RegInv'
  BY <1>0, <1>1, <1>2, <1>3, <1>4, <1>5, <1>6, ExchangeStep
<1> QED BY <1>1, <1>7

LEMMA ParamsNextStep ==
  ASSUME RegInv, NEW P \in SUBSET Params, ParamsNext(P)
  PROVE  RegInv' /\ \A x \in Params \ P : params'[x] = params[x]
<1>1. PICK p \in P :
        \/ \E n \in Names, r \in Refs : ConstructByName(p, n, r)
        \/ \E f \in {Null, Application} : ConstructPlain(p, f)
        \/ \E q \in P : \/ CopyConstruct(p, q) \/ MoveConstruct(p, q)
                        \/ CopyAssign(p, q) \/ MoveAssign(p, q)
        \/ Destroy(p)
  BY DEF ParamsNext
<1>2. CASE \E n \in Names, r \in Refs : ConstructByName(p, n, r)
  BY <1>2, ConstructByNameStep
<1>3. CASE \E f \in {Null, Application} : ConstructPlain(p, f)
  BY <1>3, ConstructPlainStep
<1>4. ASSUME NEW q \in P, CopyConstruct(p, q)
      PROVE  RegInv' /\ \A x \in Params \ P : params'[x] = params[x]
  BY <1>4, CopyConstructStep
<1>5. ASSUME NEW q \in P, MoveConstruct(p, q)
      PROVE  RegInv' /\ \A x \in Params \ P : params'[x] = params[x]
  BY <1>5, MoveConstructStep
<1>6. ASSUME NEW q \in P, CopyAssign(p, q)
      PROVE  RegInv' /\ \A x \in Params \ P : params'[x] = params[x]
  BY <1>6, CopyAssignStep
<1>7. ASSUME NEW q \in P, MoveAssign(p, q)
      PROVE  RegInv' /\ \A x \in Params \ P : params'[x] = params[x]
  BY <1>7, MoveAssignStep
<1>8. CASE Destroy(p)
  BY <1>8, DestroyStep
<1> QED BY <1>1, <1>2, <1>3, <1>4, <1>5, <1>6, <1>7, <1>8

LEMMA RegistryNextStep ==
  ASSUME RegInv, RegistryNext
  PROVE  RegInv' /\ UNCHANGED params
<1>0. /\ TypeOK /\ RegTypes /\ EntryInv /\ UseInv /\ HoldInv
      /\ refs \in [Refs -> RefType] /\ params \in [Params -> ParamType]
  BY Start
<1>1. RegTypes' /\ EntryInv' /\ KeepsUses /\ UNCHANGED <<refs, params>>
  BY <1>0, RegistryStep
<1>2. UseInv' /\ KeepsFactories
  BY <1>0, <1>1, RegistryKeeps
<1>3. HoldInv'
  BY <1>0, <1>1 DEF HoldInv, Holders
<1>4. \A p \in Params : \E q \in Params : params'[p] = params[q]
  BY <1>1
<1>5. RegInv'
  BY <1>0, <1>1, <1>2, <1>3, <1>4, ParamsStep
<1> QED BY <1>1, <1>5

-------------------------------------------------------------------------------
(* Sessions                                                                *)

\* Session s changes its connection and its parameters, and so may session t.
LEMMA ConnStep ==
  ASSUME ConnInv, NEW T \in SUBSET Sessions,
         conn' \in [Sessions -> Factories \cup {Null}],
         \A s \in T : conn'[s] # Null => params'[s].factory = conn'[s],
         \A s \in Sessions \ T : conn'[s] = conn[s] /\ params'[s] = params[s]
  PROVE  ConnInv'
BY DEF ConnInv, ReconnectsLikewise

LEMMA SessionStep ==
  ASSUME IInv, NEW s \in Sessions,
         \/ ConstructSession(s)
         \/ \E p \in Params \ Sessions : ConstructSessionFrom(s, p) \/ OpenSession(s, p)
         \/ \E n \in Names, r \in Refs : ConstructSessionByName(s, n, r)
         \/ CloseSession(s) \/ ReconnectSession(s)
         \/ \E t \in Sessions : MoveConstructSession(s, t) \/ MoveAssignSession(s, t)
         \/ DestroySession(s)
  PROVE  IInv'
<1>0. /\ RegInv /\ ConnInv /\ s \in Params /\ Sessions \subseteq Params
      /\ conn \in [Sessions -> Factories \cup {Null}]
      /\ \A x \in Sessions : conn[x] # Null => params[x].factory = conn[x]
      /\ \A p \in Params : params[p].factory \in Factories \cup {Null}
  BY SessionsAssumption, Start DEF IInv, ConnInv, ReconnectsLikewise
<1> DEFINE Connects(f) == conn' = [conn EXCEPT ![s] = f]
<1>1. ASSUME NEW f \in Factories \cup {Null}, Connects(f)
      PROVE  /\ conn' \in [Sessions -> Factories \cup {Null}] /\ conn'[s] = f
             /\ \A x \in Sessions \ {s} : conn'[x] = conn[x]
  BY <1>0, <1>1
<1>2. CASE ConstructSession(s)
  <2>1. ConstructPlain(s, Null) /\ conn' = conn
    BY <1>2 DEF ConstructSession
  <2>2. RegInv' /\ ~ params[s].alive /\ \A x \in Params : x # s => params'[x] = params[x]
    BY <1>0, <2>1, ConstructPlainStep DEF ConstructPlain
  <2>3. conn[s] = Null
    BY <1>0, <2>2, Start DEF ParamInv
  <2>4. ConnInv'
    BY <1>0, <2>1, <2>2, <2>3, ConnStep
  <2> QED BY <2>2, <2>4 DEF IInv
<1>3. ASSUME NEW p \in Params \ Sessions, ConstructSessionFrom(s, p)
      PROVE  IInv'
  <2>1. CopyConstruct(s, p) /\ Connects(params[p].factory)
    BY <1>3 DEF ConstructSessionFrom
  <2>2. RegInv' /\ params'[s] = params[p] /\ \A x \in Params : x # s => params'[x] = params[x]
    BY <1>0, <2>1, CopyConstructStep
  <2>3. /\ conn' \in [Sessions -> Factories \cup {Null}] /\ conn'[s] = params[p].factory
        /\ \A x \in Sessions \ {s} : conn'[x] = conn[x]
    BY <1>0, <1>1, <2>1
  <2>4. ConnInv'
    BY <1>0, <2>2, <2>3, ConnStep
  <2> QED BY <2>2, <2>4 DEF IInv
<1>4. ASSUME NEW p \in Params \ Sessions, OpenSession(s, p)
      PROVE  IInv'
  <2>1. CopyAssign(s, p) /\ Connects(params[p].factory)
    BY <1>4 DEF OpenSession
  <2>2. RegInv' /\ params'[s] = params[p] /\ \A x \in Params : x # s => params'[x] = params[x]
    BY <1>0, <2>1, CopyAssignStep
  <2>3. /\ conn' \in [Sessions -> Factories \cup {Null}] /\ conn'[s] = params[p].factory
        /\ \A x \in Sessions \ {s} : conn'[x] = conn[x]
    BY <1>0, <1>1, <2>1
  <2>4. ConnInv'
    BY <1>0, <2>2, <2>3, ConnStep
  <2> QED BY <2>2, <2>4 DEF IInv
<1>5. ASSUME NEW n \in Names, NEW r \in Refs, ConstructSessionByName(s, n, r)
      PROVE  IInv'
  <2>1. ConstructByName(s, n, r) /\ Connects(reg'[n].factory)
    BY <1>5 DEF ConstructSessionByName
  <2>2. /\ RegInv' /\ params'[s].factory = reg'[n].factory /\ reg'[n].factory \in Factories
        /\ \A x \in Params : x # s => params'[x] = params[x]
    BY <1>0, <2>1, ConstructByNameStep
  <2>3. /\ conn' \in [Sessions -> Factories \cup {Null}] /\ conn'[s] = reg'[n].factory
        /\ \A x \in Sessions \ {s} : conn'[x] = conn[x]
    BY <1>1, <2>1, <2>2
  <2>4. ConnInv'
    BY <1>0, <2>2, <2>3, ConnStep
  <2> QED BY <2>2, <2>4 DEF IInv
<1>6. CASE CloseSession(s) \/ ReconnectSession(s)
  <2>1. /\ UNCHANGED <<reg, opened, loads, refs, params>>
        /\ \E f \in {params[s].factory, Null} : Connects(f)
    BY <1>6 DEF CloseSession, ReconnectSession
  <2>2. PICK f \in {params[s].factory, Null} : Connects(f)
    BY <2>1
  <2>3. f \in Factories \cup {Null}
    BY <1>0
  <2>4. /\ conn' \in [Sessions -> Factories \cup {Null}] /\ conn'[s] = f
        /\ \A x \in Sessions \ {s} : conn'[x] = conn[x]
    BY <1>1, <2>2, <2>3
  <2>5. ConnInv'
    BY <1>0, <2>1, <2>4, ConnStep
  <2>6. RegInv'
    BY <1>0, <2>1 DEF RegInv, TypeOK, EntryInv, UseInv, HoldInv, ParamInv, DeferredUnload,
                     NoHandleLost, UseCountsRefs, Live, Holders, InUse
  <2> QED BY <2>5, <2>6 DEF IInv
<1>7. ASSUME NEW t \in Sessions, MoveConstructSession(s, t) \/ MoveAssignSession(s, t)
      PROVE  IInv'
  <2>1. /\ MoveConstruct(s, t) \/ (MoveAssign(s, t) /\ s # t)
        /\ conn' = [conn EXCEPT ![s] = conn[t], ![t] = Null]
    BY <1>7 DEF MoveConstructSession, MoveAssignSession
  <2>2. /\ RegInv' /\ s # t /\ params'[s] = params[t]
        /\ \A x \in Params : x # s /\ x # t => params'[x] = params[x]
    BY <1>0, <2>1, MoveConstructStep, MoveAssignStep
  <2>3. /\ conn' \in [Sessions -> Factories \cup {Null}]
        /\ conn'[s] = conn[t] /\ conn'[t] = Null
        /\ \A x \in Sessions \ {s, t} : conn'[x] = conn[x]
    BY <1>0, <2>1, <2>2
  <2>4. ConnInv'
    BY <1>0, <2>2, <2>3, ConnStep
  <2> QED BY <2>2, <2>4 DEF IInv
<1>8. CASE DestroySession(s)
  <2>1. Destroy(s) /\ Connects(Null)
    BY <1>8 DEF DestroySession
  <2>2. RegInv' /\ \A x \in Params : x # s => params'[x] = params[x]
    BY <1>0, <2>1, DestroyStep
  <2>3. /\ conn' \in [Sessions -> Factories \cup {Null}] /\ conn'[s] = Null
        /\ \A x \in Sessions \ {s} : conn'[x] = conn[x]
    BY <1>1, <2>1
  <2>4. ConnInv'
    BY <1>0, <2>2, <2>3, ConnStep
  <2> QED BY <2>2, <2>4 DEF IInv
<1> HIDE DEF Connects
<1> QED BY <1>2, <1>3, <1>4, <1>5, <1>6, <1>7, <1>8

LEMMA InitIInv == SessionInit => IInv
<1> SUFFICES ASSUME SessionInit PROVE IInv
  OBVIOUS
<1>1. /\ reg = [n \in Names |-> NoEntry] /\ opened = {} /\ loads = 0
      /\ refs = [r \in Refs |-> Deleted] /\ params = [p \in Params |-> Unborn]
      /\ conn = [s \in Sessions |-> Null]
  BY DEF SessionInit, Init
<1>2. Deleted \in RefType /\ Deleted.count = 0
  BY RegistryAssumption DEF Deleted, RefType
<1>3. TypeOK
  <2>1. RegTypes
    BY <1>1, NoEntryFields, RegistryAssumption DEF RegTypes
  <2>2. refs \in [Refs -> RefType] /\ params \in [Params -> ParamType]
    BY <1>1, <1>2, PlainFields
  <2> QED BY <2>1, <2>2, TypesSplit
<1>4. EntryInv
  <2>1. \A n \in Names : /\ reg[n].factory = Null /\ reg[n].use = 0 /\ reg[n].unload = FALSE
                        /\ reg[n].factory \notin Libraries
    BY <1>1, NoEntryFields DEF Libraries, Null
  <2> QED BY <1>1, <2>1 DEF EntryInv, DeferredUnload, NoHandleLost
<1>5. UseInv
  <2>1. Live = {}
    BY <1>1, <1>2 DEF Live
  <2>2. \A n \in Names : {r \in Live : refs[r].name = n} = {}
    BY <2>1
  <2>3. UseCountsRefs
    BY <1>1, <2>2, NoEntryFields, FS_EmptySet DEF UseCountsRefs
  <2> QED BY <2>1, <2>3 DEF UseInv
<1>6. HoldInv
  <2>1. \A r \in Refs : Holders(r) = {} /\ refs[r].count = 0
    BY <1>1, <1>2, PlainFields, RegistryAssumption DEF Holders
  <2> QED BY <2>1, FS_EmptySet DEF HoldInv
<1>7. ParamInv
  BY <1>1, PlainFields DEF ParamInv
<1>8. ConnInv
  BY <1>1 DEF ConnInv, ReconnectsLikewise
<1> QED BY <1>3, <1>4, <1>5, <1>6, <1>7, <1>8 DEF IInv, RegInv

LEMMA NextIInv == IInv /\ [SessionNext]_vars => IInv'
<1> SUFFICES ASSUME IInv, [SessionNext]_vars PROVE IInv'
  OBVIOUS
<1>1. ASSUME RegistryNext \/ ParamsNext(Params \ Sessions), UNCHANGED conn
      PROVE  IInv'
  <2>0. RegInv /\ ConnInv /\ Sessions \subseteq Params
    BY SessionsAssumption DEF IInv
  <2>1. RegInv' /\ \A s \in Sessions : params'[s] = params[s]
    BY <1>1, <2>0, RegistryNextStep, ParamsNextStep
  <2>2. ConnInv'
    BY <1>1, <2>0, <2>1 DEF ConnInv, ReconnectsLikewise
  <2> QED BY <2>1, <2>2 DEF IInv
<1>2. CASE UNCHANGED vars
  BY <1>2 DEF vars, IInv, RegInv, ConnInv, ReconnectsLikewise, TypeOK, EntryInv, UseInv, HoldInv,
              ParamInv, DeferredUnload, NoHandleLost, UseCountsRefs, Live, Holders, InUse
<1> QED BY <1>1, <1>2, SessionStep DEF SessionNext

-------------------------------------------------------------------------------
(* Theorems                                                                *)

\* The invariant that the others follow from is inductive: every operation of backend-loader.cpp,
\* connection-parameters.cpp and session.cpp keeps it.
THEOREM Inductive == SessionSpec => []IInv
BY InitIInv, NextIInv, PTL DEF SessionSpec

\* The registry, the references and the objects keep their types; in particular a use count never
\* goes below 0 and the count of a reference never above its bound.
THEOREM TypeCorrect == SessionSpec => []TypeOK
<1>1. IInv => TypeOK
  BY DEF IInv, RegInv
<1> QED BY <1>1, Inductive, PTL

\* get() and unget() balance: the use count of a backend is the number of its live references.
THEOREM UsesAreReferences == SessionSpec => []UseCountsRefs
<1>1. IInv => UseCountsRefs
  BY DEF IInv, RegInv, UseInv
<1> QED BY <1>1, Inductive, PTL

LEMMA InUseLoaded ==
  ASSUME RegInv
  PROVE  NoDanglingFactory
<1> SUFFICES ASSUME NEW p \in Params, params[p].ref # None
             PROVE  /\ params[p].ref \in Live
                    /\ params[p].factory = reg[refs[params[p].ref].name].factory
                    /\ params[p].factory \in opened \cup {Application}
  BY DEF NoDanglingFactory
<1> DEFINE n == refs[params[p].ref].name
<1>1. TypeOK /\ RegTypes /\ UseInv /\ EntryInv /\ ParamInv
  BY Start
<1>2. params[p].ref \in Live /\ params[p].factory = reg[n].factory
  BY <1>1 DEF ParamInv
<1>3. n \in Names /\ InUse(n)
  BY <1>1, <1>2, LiveIsUsed
<1> HIDE DEF n
<1>4. reg[n].factory \in Factories \cup {Null} /\ reg[n].use \in Nat
  BY <1>1, <1>3, EntryFields
<1>5. reg[n].factory # Null /\ (reg[n].factory \in Libraries => reg[n].factory \in opened)
  BY <1>1, <1>3, <1>4 DEF EntryInv, InUse
<1>6. reg[n].factory \in opened \cup {Application}
  BY <1>4, <1>5 DEF Factories
<1> QED BY <1>2, <1>6 DEF n

\* Whatever is registered, replaced, unloaded, copied, moved and destroyed around it, an object
\* made from a backend's name can use its factory: it is the one registered, and it is loaded.
THEOREM FactoryNeverDangles == SessionSpec => []NoDanglingFactory
<1>1. IInv => NoDanglingFactory
  BY InUseLoaded DEF IInv
<1> QED BY <1>1, Inductive, PTL

\* An unload() that had to wait is done by the unget() of the last use.
THEOREM UnloadIsNotForgotten == SessionSpec => []DeferredUnload
<1>1. IInv => DeferredUnload
  BY DEF IInv, RegInv, EntryInv
<1> QED BY <1>1, Inductive, PTL

\* Every library that is loaded is registered, so it can still be unloaded.
THEOREM HandlesAreKept == SessionSpec => []NoHandleLost
<1>1. IInv => NoHandleLost
  BY DEF IInv, RegInv, EntryInv
<1> QED BY <1>1, Inductive, PTL

\* The library with the code of a connected session's backend is loaded.
THEOREM CodeStaysLoaded == SessionSpec => []BackendCodeLoaded
<1>1. ASSUME IInv PROVE BackendCodeLoaded
  <2> SUFFICES ASSUME NEW s \in Sessions, conn[s] \in Libraries PROVE conn[s] \in opened
    BY DEF BackendCodeLoaded
  <2>0. RegInv /\ ReconnectsLikewise /\ s \in Params
    BY <1>1, SessionsAssumption DEF IInv, ConnInv
  <2>1. conn[s] # Null /\ conn[s] # Application
    BY RegistryAssumption DEF Libraries, Null, Application
  <2>2. params[s].factory = conn[s]
    BY <2>0, <2>1 DEF ReconnectsLikewise
  <2>3. params[s].ref # None
    <3>1. params[s].ref = None => params[s].factory \in {Null, Application}
      BY <2>0, Start DEF ParamInv
    <3> QED BY <2>1, <2>2, <3>1
  <2> QED BY <2>0, <2>1, <2>2, <2>3, InUseLoaded DEF NoDanglingFactory
<1> QED BY <1>1, Inductive, PTL

\* A connected session remembers the parameters of the backend it is connected to.
THEOREM ReconnectsToTheSame == SessionSpec => []ReconnectsLikewise
<1>1. IInv => ReconnectsLikewise
  BY DEF IInv, ConnInv
<1> QED BY <1>1, Inductive, PTL
===============================================================================
