---------------------------- MODULE SessionBackends ----------------------------
(***************************************************************************)
(* Sessions over the registry of backends: what keeps the code of a        *)
(* session's backend loaded.  A session (src/core/session.cpp) holds its   *)
(* connection in backEnd_, an object whose code lives in the backend's     *)
(* shared library, and only its member lastConnectParameters_ holds the    *)
(* reference that keeps the library from being unloaded.                   *)
(*                                                                         *)
(* The lastConnectParameters_ of session s is the connection_parameters    *)
(* object s of BackendRegistry.                                            *)
(***************************************************************************)
EXTENDS BackendRegistry

CONSTANT Sessions

ASSUME SessionsAssumption == Sessions \subseteq Params

VARIABLE conn  \* factory whose code backEnd_ is made of; Null if not connected

vars == <<reg, opened, loads, refs, params, conn>>

SessionInit == Init /\ conn = [s \in Sessions |-> Null]

\* session()
ConstructSession(s) ==
    /\ ConstructPlain(s, Null)
    /\ UNCHANGED conn

\* session(parameters): the parameters are copied, then connected with.  If
\* connecting throws, the copy is destroyed again and nothing has changed.
ConstructSessionFrom(s, p) ==
    /\ CopyConstruct(s, p)
    /\ params[p].factory # Null
    /\ conn' = [conn EXCEPT ![s] = params[p].factory]

\* session(backendName, connectString).  If connecting throws, the backend
\* stays registered and unused, as after register_backend().
ConstructSessionByName(s, n, r) ==
    /\ ConstructByName(s, n, r)
    /\ conn' = [conn EXCEPT ![s] = reg'[n].factory]

\* Mutation of OpenSession: the parameters are not remembered.
OpenSessionForgetful(s, p) ==
    /\ params[s].alive /\ params[p].alive
    /\ conn[s] = Null
    /\ params[p].factory # Null
    /\ conn' = [conn EXCEPT ![s] = params[p].factory]
    /\ UNCHANGED <<reg, opened, loads, refs, params>>

\* open(parameters): throws if connected, if the parameters have no factory or
\* if connecting fails.
OpenSession(s, p) ==
    /\ conn[s] = Null
    /\ params[p].factory # Null
    /\ conn' = [conn EXCEPT ![s] = params[p].factory]
    /\ CopyAssign(s, p)

\* close() keeps the parameters, and so the backend loaded, for reconnect().
CloseSession(s) ==
    /\ params[s].alive
    /\ conn' = [conn EXCEPT ![s] = Null]
    /\ UNCHANGED <<reg, opened, loads, refs, params>>

\* reconnect() with the parameters of the last open(); it may fail after the
\* old connection was closed.
ReconnectSession(s) ==
    /\ params[s].alive
    /\ params[s].factory # Null
    /\ \E ok \in BOOLEAN :
        conn' = [conn EXCEPT ![s] = IF ok THEN params[s].factory ELSE Null]
    /\ UNCHANGED <<reg, opened, loads, refs, params>>

MoveConstructSession(s, t) ==
    /\ MoveConstruct(s, t)
    /\ conn' = [conn EXCEPT ![s] = conn[t], ![t] = Null]

\* Mutation of MoveAssignSession: the parameters stay where they are.
MoveAssignSessionOnly(s, t) ==
    /\ s # t
    /\ params[s].alive /\ params[t].alive
    /\ conn' = [conn EXCEPT ![s] = conn[t], ![t] = Null]
    /\ UNCHANGED <<reg, opened, loads, refs, params>>

\* operator=(session &&): the target's own connection is deleted first.
MoveAssignSession(s, t) ==
    /\ s # t
    /\ MoveAssign(s, t)
    /\ conn' = [conn EXCEPT ![s] = conn[t], ![t] = Null]

\* ~session(): backEnd_ is deleted in the body, the parameters after it.
DestroySession(s) ==
    /\ Destroy(s)
    /\ conn' = [conn EXCEPT ![s] = Null]

SessionNext ==
    \/ \E s \in Sessions :
        \/ ConstructSession(s)
        \/ \E p \in Params \ Sessions :
            ConstructSessionFrom(s, p) \/ OpenSession(s, p)
        \/ \E n \in Names, r \in Refs : ConstructSessionByName(s, n, r)
        \/ CloseSession(s)
        \/ ReconnectSession(s)
        \/ \E t \in Sessions : MoveConstructSession(s, t) \/ MoveAssignSession(s, t)
        \/ DestroySession(s)
    \/ RegistryNext /\ UNCHANGED conn
    \/ ParamsNext(Params \ Sessions) /\ UNCHANGED conn

SessionSpec == SessionInit /\ [][SessionNext]_vars

-------------------------------------------------------------------------------
(* Properties                                                              *)

\* The code of a connected session's backend is never unloaded under it,
\* whatever is unloaded, replaced, moved, copied and destroyed around it.
BackendCodeLoaded ==
    \A s \in Sessions :
        conn[s] \in Libraries => conn[s] \in opened

\* A session is connected only by the factory it remembers, so reconnect()
\* makes a connection of the same kind.
ReconnectsLikewise ==
    \A s \in Sessions : conn[s] # Null => params[s].factory = conn[s]
===============================================================================
