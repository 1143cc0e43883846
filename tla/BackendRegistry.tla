---------------------------- MODULE BackendRegistry ----------------------------
(***************************************************************************)
(* The map of loaded backends (src/core/backend-loader.cpp) and the        *)
(* connection_parameters objects that keep backends loaded                 *)
(* (src/core/connection-parameters.cpp).                                   *)
(*                                                                         *)
(* Every function of backend-loader.cpp runs under one mutex, so each is   *)
(* one step.  A connection_parameters object made from a backend's name    *)
(* holds a dynamic_backend_ref, counted by the objects that share it; the  *)
(* reference gives back its use of the backend when its count drops to 0.  *)
(* Backends are shared libraries: a factory is the entry point of the k-th *)
(* library loaded so far, or an object of the application.                 *)
(***************************************************************************)
EXTENDS Integers, FiniteSets

CONSTANTS Names,    \* backend names
          Params,   \* connection_parameters objects of the program
          Refs,     \* dynamic_backend_ref objects: bounds how many may exist
          None,     \* null backendRef_; the name of a reference not in use
          MaxLoads, \* bounds how many times a library is loaded
          MaxCount  \* bounds the count of a reference

ASSUME RegistryAssumption ==
    /\ IsFiniteSet(Params) /\ IsFiniteSet(Refs)
    /\ None \notin Refs \cup Names
    /\ MaxLoads \in Nat /\ MaxCount \in Nat \ {0}

VARIABLES
    reg,     \* factories_: what is registered under each name
    opened,  \* shared libraries that are loaded
    loads,   \* number of libraries loaded so far
    refs,    \* dynamic_backend_ref objects
    params   \* connection_parameters objects

regVars == <<reg, opened, loads, refs, params>>

Null == 0
Application == -1  \* a factory that is an object of the application
Libraries == 1 .. MaxLoads
Factories == Libraries \cup {Application}

NoEntry == [factory |-> Null, use |-> 0, unload |-> FALSE]
Deleted == [name |-> None, count |-> 0]
Unborn == [alive |-> FALSE, factory |-> Null, ref |-> None]

TypeOK ==
    /\ reg \in [Names -> [factory : Factories \cup {Null}, use : Nat,
                          unload : BOOLEAN]]
    /\ opened \in SUBSET Libraries
    /\ loads \in 0 .. MaxLoads
    /\ refs \in [Refs -> [name : Names \cup {None}, count : 0 .. MaxCount]]
    /\ params \in [Params -> [alive : BOOLEAN, ref : Refs \cup {None},
                              factory : Factories \cup {Null}]]

Registered(n) == reg[n].factory # Null
InUse(n) == reg[n].use > 0
Live == {r \in Refs : refs[r].count > 0}
Holders(r) == {p \in Params : params[p].ref = r}

Init ==
    /\ reg = [n \in Names |-> NoEntry]
    /\ opened = {}
    /\ loads = 0
    /\ refs = [r \in Refs |-> Deleted]
    /\ params = [p \in Params |-> Unborn]

-------------------------------------------------------------------------------
(* backend-loader.cpp                                                      *)

\* do_unload(): the entry is erased and its library, if any, closed.
DoUnload(names) ==
    /\ reg' = [n \in Names |-> IF n \in names THEN NoEntry ELSE reg[n]]
    /\ opened' = opened \ {reg[n].factory : n \in names}

\* do_register_backend(): an entry that is not in use is unloaded, a library is
\* loaded and its factory becomes the new entry, used `use' times by the caller.
LoadLibrary(n, use) ==
    /\ loads < MaxLoads
    /\ loads' = loads + 1
    /\ reg' = [reg EXCEPT ![n] =
                 [factory |-> loads + 1, use |-> use, unload |-> FALSE]]
    /\ opened' = (opened \ {reg[n].factory}) \cup {loads + 1}

\* register_backend(name, shared_object).  A backend in use is left alone (the
\* call throws).  Otherwise the previous entry is gone even if the library or
\* its entry point is then not found.
RegisterSharedObject(n) ==
    /\ ~ InUse(n)
    /\ \/ LoadLibrary(n, 0)
       \/ DoUnload({n}) /\ UNCHANGED loads
    /\ UNCHANGED <<refs, params>>

\* register_backend(name, factory).
RegisterFactory(n) ==
    /\ ~ InUse(n)
    /\ reg' = [reg EXCEPT ![n] =
                 [factory |-> Application, use |-> 0, unload |-> FALSE]]
    /\ opened' = opened \ {reg[n].factory}
    /\ UNCHANGED <<loads, refs, params>>

\* Unload the registered ones of these names, or have them unloaded by the last
\* unget().
UnloadNames(names) ==
    LET busy == {n \in names : InUse(n)} IN
    /\ reg' = [n \in Names |-> IF n \in busy THEN [reg[n] EXCEPT !.unload = TRUE]
                               ELSE IF n \in names THEN NoEntry
                               ELSE reg[n]]
    /\ opened' = opened \ {reg[n].factory : n \in names \ busy}
    /\ UNCHANGED <<loads, refs, params>>

Unload(n) == UnloadNames({n})

\* unload_all(), called by applications and at the end of the program.
UnloadAll == UnloadNames(Names)

\* Mutation of Unget: the deferred unload is forgotten.
UngetOnly(n) ==
    /\ reg' = [reg EXCEPT ![n].use = @ - 1]
    /\ UNCHANGED opened

\* unget(): the last use of a backend to be unloaded unloads it.
Unget(n) ==
    IF reg[n].use = 1 /\ reg[n].unload
    THEN DoUnload({n})
    ELSE /\ reg' = [reg EXCEPT ![n].use = @ - 1]
         /\ UNCHANGED opened

-------------------------------------------------------------------------------
(* connection-parameters.cpp                                               *)

\* inc_ref() and dec_ref(), which deletes the object at 0, as functions of the
\* reference objects; neither does anything to a null reference.
IncRef(rs, r) ==
    IF r = None THEN rs ELSE [rs EXCEPT ![r].count = @ + 1]

DecRef(rs, r) ==
    IF r = None THEN rs
    ELSE IF rs[r].count = 1 THEN [rs EXCEPT ![r] = Deleted]
    ELSE [rs EXCEPT ![r].count = @ - 1]

\* The destructor of a reference that was deleted gives its use back.
UngetDeleted(r) ==
    IF r # None /\ refs'[r].count = 0
    THEN Unget(refs[r].name)
    ELSE UNCHANGED <<reg, opened>>

\* connection_parameters(backendName, ...): get() loads the backend if it is not
\* registered; if that fails the constructor throws and nothing has changed.
ConstructByName(p, n, r) ==
    /\ ~ params[p].alive
    /\ refs[r].count = 0
    /\ \/ /\ Registered(n)
          /\ reg' = [reg EXCEPT ![n].use = @ + 1]
          /\ UNCHANGED <<opened, loads>>
       \/ /\ ~ Registered(n)
          /\ LoadLibrary(n, 1)
    /\ refs' = [refs EXCEPT ![r] = [name |-> n, count |-> 1]]
    /\ params' = [params EXCEPT ![p] =
                    [alive |-> TRUE, factory |-> reg'[n].factory, ref |-> r]]

\* The default constructor (f = Null) and the one from a factory.
ConstructPlain(p, f) ==
    /\ ~ params[p].alive
    /\ params' = [params EXCEPT ![p] =
                    [alive |-> TRUE, factory |-> f, ref |-> None]]
    /\ UNCHANGED <<reg, opened, loads, refs>>

\* Copying shares the reference.
MayCopy(q) == params[q].ref # None => refs[params[q].ref].count < MaxCount

CopyConstruct(p, q) ==
    /\ ~ params[p].alive /\ params[q].alive
    /\ MayCopy(q)
    /\ params' = [params EXCEPT ![p] = params[q]]
    /\ refs' = IncRef(refs, params[q].ref)
    /\ UNCHANGED <<reg, opened, loads>>

\* What reset_after_move() leaves behind.
Moved == [alive |-> TRUE, factory |-> Null, ref |-> None]

MoveConstruct(p, q) ==
    /\ ~ params[p].alive /\ params[q].alive
    /\ params' = [params EXCEPT ![p] = params[q], ![q] = Moved]
    /\ UNCHANGED <<reg, opened, loads, refs>>

\* Mutation of CopyAssign: dec_ref() of the old reference comes first.
CopyAssignDecFirst(p, q) ==
    /\ params[p].alive /\ params[q].alive
    /\ MayCopy(q)
    /\ params' = [params EXCEPT ![p] = params[q]]
    /\ refs' = IF params[p].ref = params[q].ref
               THEN DecRef(refs, params[p].ref)
               ELSE IncRef(DecRef(refs, params[p].ref), params[q].ref)
    /\ UngetDeleted(params[p].ref)
    /\ UNCHANGED loads

\* Copy assignment: inc_ref() of the new reference, then dec_ref() of the old.
CopyAssign(p, q) ==
    /\ params[p].alive /\ params[q].alive
    /\ MayCopy(q)
    /\ params' = [params EXCEPT ![p] = params[q]]
    /\ refs' = DecRef(IncRef(refs, params[q].ref), params[p].ref)
    /\ UngetDeleted(params[p].ref)
    /\ UNCHANGED loads

\* Move assignment: dec_ref() only if the two references differ; the source is
\* reset, which is the target itself in a self-move.
MoveAssign(p, q) ==
    LET old == IF params[p].ref = params[q].ref THEN None ELSE params[p].ref IN
    /\ params[p].alive /\ params[q].alive
    /\ params' = [params EXCEPT ![p] = params[q], ![q] = Moved]
    /\ refs' = DecRef(refs, old)
    /\ UngetDeleted(old)
    /\ UNCHANGED loads

Destroy(p) ==
    /\ params[p].alive
    /\ params' = [params EXCEPT ![p] = Unborn]
    /\ refs' = DecRef(refs, params[p].ref)
    /\ UngetDeleted(params[p].ref)
    /\ UNCHANGED loads

-------------------------------------------------------------------------------

RegistryNext ==
    \/ \E n \in Names : RegisterSharedObject(n) \/ RegisterFactory(n) \/ Unload(n)
    \/ UnloadAll

\* What a program does with the connection_parameters objects in P.
ParamsNext(P) ==
    \E p \in P :
        \/ \E n \in Names, r \in Refs : ConstructByName(p, n, r)
        \/ \E f \in {Null, Application} : ConstructPlain(p, f)
        \/ \E q \in P : \/ CopyConstruct(p, q) \/ MoveConstruct(p, q)
                             \/ CopyAssign(p, q) \/ MoveAssign(p, q)
        \/ Destroy(p)

Next == RegistryNext \/ ParamsNext(Params)

Spec == Init /\ [][Next]_regVars

-------------------------------------------------------------------------------
(* Properties                                                              *)

\* The use count of a backend is the number of live references to it, through
\* every registration, unloading, copy and move: get() and unget() balance.
UseCountsRefs ==
    \A n \in Names :
        reg[n].use = Cardinality({r \in Live : refs[r].name = n})

\* A connection_parameters object made from a name can always use its factory:
\* the backend is registered, has not been replaced and its library is loaded.
NoDanglingFactory ==
    \A p \in Params :
        LET r == params[p].ref IN
        r # None =>
            /\ r \in Live
            /\ params[p].factory = reg[refs[r].name].factory
            /\ params[p].factory \in opened \cup {Application}

\* A backend whose unloading was requested is unloaded as soon as its last use
\* ends: the request never outlives the uses.
DeferredUnload == \A n \in Names : reg[n].unload => InUse(n)

\* A loaded library is one that is registered: no handle is ever lost.
NoHandleLost == opened \subseteq {reg[n].factory : n \in Names}
===============================================================================
