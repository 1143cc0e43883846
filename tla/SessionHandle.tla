---------------------------- MODULE SessionHandle ----------------------------
(***************************************************************************)
(* soci::session (src/core/session.cpp): sessions that own a backend       *)
(* connection, and sessions made from a connection_pool, which lease a     *)
(* pooled session, forward to it and cache its backend pointer.  Sessions  *)
(* can be moved, opened, closed and reconnected in any order; connecting   *)
(* may fail.  The pool is used by one thread here: ConnectionPool says     *)
(* what it does under many.                                                *)
(***************************************************************************)
EXTENDS Integers, FiniteSets

CONSTANTS Handles,  \* session objects of the program
          Size,     \* pool size: positions are sessions too
          Conns,    \* session_backend objects: bounds how many exist at once
          None,     \* null pointer
          FailsThroughPool
            \* may reconnect() of a session made from the pool fail to connect?
            \* (Any other session's may.)

ASSUME SessionAssumption ==
    /\ Size \in Nat \ {0}
    /\ None \notin Conns
    /\ IsFiniteSet(Handles)
    /\ Handles \cap (0 .. Size - 1) = {}
    /\ FailsThroughPool \in BOOLEAN

Slots == 0 .. Size - 1
Sessions == Handles \cup Slots
Modes == {"always", "never"}

VARIABLES
    sess,   \* the session objects
    conns,  \* the session_backend objects that exist
    free    \* the pool's free flags

vars == <<sess, conns, free>>

\* Fields: backEnd_; isFromPool_; poolPosition_; the session that once and
\* prepare refer to; whether lastConnectParameters_ names a factory;
\* query_ctx_logging_mode_; and uppercaseColumnNames_, which stands for every
\* setting that is forwarded to the pooled session.
SessionType ==
    [alive : BOOLEAN, backEnd : Conns \cup {None}, fromPool : BOOLEAN,
     pos : Slots, target : Sessions, last : BOOLEAN, mode : Modes,
     upper : BOOLEAN]

TypeOK ==
    /\ sess \in [Sessions -> SessionType]
    /\ conns \in SUBSET Conns
    /\ free \in [Slots -> BOOLEAN]

\* What the default constructor makes; pooled sessions are made so.
Fresh(s) ==
    [alive |-> TRUE, backEnd |-> None, fromPool |-> FALSE, pos |-> 0,
     target |-> s, last |-> FALSE, mode |-> "always", upper |-> FALSE]

Dead(s) == [Fresh(s) EXCEPT !.alive = FALSE]

Init ==
    /\ sess = [s \in Sessions |-> IF s \in Slots THEN Fresh(s) ELSE Dead(s)]
    /\ conns = {}
    /\ free = [i \in Slots |-> TRUE]

\* Sessions the program may call: its own, and pooled ones that are not leased
\* (an application opens those through connection_pool::at()).
Callable(s) == sess[s].alive /\ (s \in Slots => free[s])

\* The session that does the work of s: the pooled one for a leased handle.
Worker(s) == IF sess[s].fromPool THEN sess[s].pos ELSE s

-------------------------------------------------------------------------------
(* Constructors, moves and the destructor                                  *)

Construct(h) ==
    /\ ~ sess[h].alive
    /\ sess' = [sess EXCEPT ![h] = Fresh(h)]
    /\ UNCHANGED <<conns, free>>

\* From connection parameters; if open() throws there is no object.
ConstructConnected(h, c) ==
    /\ ~ sess[h].alive
    /\ c \notin conns
    /\ sess' = [sess EXCEPT ![h] = [Fresh(h) EXCEPT !.backEnd = c, !.last = TRUE]]
    /\ conns' = conns \cup {c}
    /\ UNCHANGED free

\* From a pool: lease() blocks until there is a free position.
ConstructFromPool(h) ==
    /\ ~ sess[h].alive
    /\ \E i \in Slots :
        /\ free[i] /\ \A j \in Slots : free[j] => i <= j
        /\ free' = [free EXCEPT ![i] = FALSE]
        /\ sess' = [sess EXCEPT ![h] =
                      [Fresh(h) EXCEPT !.fromPool = TRUE, !.pos = i,
                                       !.target = i, !.backEnd = sess[i].backEnd]]
    /\ UNCHANGED conns

\* What the move leaves in the source: reset_after_move(), and the connection
\* parameters moved away.  once, prepare and the other members stay.
MovedFrom(r) ==
    [r EXCEPT !.backEnd = None, !.fromPool = FALSE, !.pos = 0, !.last = FALSE]

MoveConstruct(h, g) ==
    LET o == sess[g] IN
    /\ ~ sess[h].alive /\ o.alive
    /\ sess' = [sess EXCEPT
         ![h] = [o EXCEPT !.target = IF o.fromPool THEN o.target ELSE h,
                          !.mode = "always"],
         ![g] = MovedFrom(o)]
    /\ UNCHANGED <<conns, free>>

\* Mutation of Release: a leased position is kept.
ReleaseOwned(s, keep) ==
    /\ conns' = IF s.fromPool THEN conns ELSE conns \ ({s.backEnd} \ keep)
    /\ UNCHANGED free

\* Give back the position of a session made from the pool, or delete its backend
\* unless it is one to keep.
Release(s, keep) ==
    IF s.fromPool
    THEN free' = [free EXCEPT ![s.pos] = TRUE] /\ UNCHANGED conns
    ELSE conns' = conns \ ({s.backEnd} \ keep) /\ UNCHANGED free

\* operator=(session &&): once and prepare are taken over only from a session
\* made from the pool; query_ctx_logging_mode_ is not assigned.
MoveAssign(h, g) ==
    LET o == sess[g] IN
    /\ h # g
    /\ sess[h].alive /\ o.alive
    /\ Release(sess[h], {o.backEnd})
    /\ sess' = [sess EXCEPT
         ![h] = [o EXCEPT !.target = IF o.fromPool THEN o.target ELSE sess[h].target,
                          !.mode = sess[h].mode],
         ![g] = MovedFrom(o)]

Destroy(h) ==
    /\ sess[h].alive
    /\ Release(sess[h], {})
    /\ sess' = [sess EXCEPT ![h] = Dead(h)]

-------------------------------------------------------------------------------
(* open(), close(), reconnect()                                            *)

\* The backend of the worker becomes c, and so does the pointer cached in s.
SetBackEnd(s, c, last) ==
    sess' = [sess EXCEPT ![Worker(s)].backEnd = c, ![Worker(s)].last = last,
                         ![s].backEnd = c]

\* open(): throws, changing nothing, if the worker is connected or if
\* make_session() fails.
Open(s, c) ==
    /\ Callable(s)
    /\ sess[Worker(s)].backEnd = None
    /\ c \notin conns
    /\ conns' = conns \cup {c}
    /\ SetBackEnd(s, c, TRUE)
    /\ UNCHANGED free

\* Mutation of Close: a session made from the pool deletes its cached pointer
\* and leaves the pooled session alone.
CloseOwn(s) ==
    /\ Callable(s)
    /\ conns' = conns \ {sess[s].backEnd}
    /\ sess' = [sess EXCEPT ![s].backEnd = None]
    /\ UNCHANGED free

Close(s) ==
    /\ Callable(s)
    /\ conns' = conns \ {sess[Worker(s)].backEnd}
    /\ SetBackEnd(s, None, sess[Worker(s)].last)
    /\ UNCHANGED free

\* Mutation of Reconnect: the cached pointer is not refreshed.
ReconnectWorker(s, c) ==
    /\ Callable(s)
    /\ sess[Worker(s)].last
    /\ c \notin conns
    /\ conns' = (conns \ {sess[Worker(s)].backEnd}) \cup {c}
    /\ sess' = [sess EXCEPT ![Worker(s)].backEnd = c]
    /\ UNCHANGED free

\* reconnect(): throws without a previous connection; otherwise the old backend
\* is deleted and a new one made.
Reconnect(s, c) ==
    /\ Callable(s)
    /\ sess[Worker(s)].last
    /\ c \notin conns
    /\ conns' = (conns \ {sess[Worker(s)].backEnd}) \cup {c}
    /\ SetBackEnd(s, c, TRUE)
    /\ UNCHANGED free

\* The new backend cannot be made: the exception leaves reconnect() after the
\* worker was closed, before a session from the pool refreshes its pointer.
ReconnectFails(s) ==
    /\ sess[s].fromPool => FailsThroughPool
    /\ Callable(s)
    /\ sess[Worker(s)].last
    /\ conns' = conns \ {sess[Worker(s)].backEnd}
    /\ sess' = [sess EXCEPT ![Worker(s)].backEnd = None]
    /\ UNCHANGED free

-------------------------------------------------------------------------------
(* Settings                                                                *)

\* uppercase_column_names(), and likewise set_logger(), set_log_stream(),
\* set_got_data(), the query stream and the query transformation.
UppercaseColumnNames(s, b) ==
    /\ Callable(s)
    /\ sess' = [sess EXCEPT ![Worker(s)].upper = b]
    /\ UNCHANGED <<conns, free>>

\* set_query_context_logging_mode() is not forwarded.
SetQueryContextLoggingMode(s, m) ==
    /\ Callable(s)
    /\ sess' = [sess EXCEPT ![s].mode = m]
    /\ UNCHANGED <<conns, free>>

-------------------------------------------------------------------------------

HandleNext ==
    \E h \in Handles :
        \/ Construct(h)
        \/ \E c \in Conns : ConstructConnected(h, c)
        \/ ConstructFromPool(h)
        \/ \E g \in Handles : MoveConstruct(h, g) \/ MoveAssign(h, g)
        \/ Destroy(h)

ConnectionNext ==
    \E s \in Sessions :
        \/ \E c \in Conns : Open(s, c) \/ Reconnect(s, c)
        \/ Close(s)
        \/ ReconnectFails(s)

SettingsNext ==
    \E s \in Sessions :
        \/ \E b \in BOOLEAN : UppercaseColumnNames(s, b)
        \/ \E m \in Modes : SetQueryContextLoggingMode(s, m)

Next == HandleNext \/ ConnectionNext \/ SettingsNext

Spec == Init /\ [][Next]_vars

-------------------------------------------------------------------------------
(* Properties                                                              *)

Owners(c) == {s \in Sessions : ~ sess[s].fromPool /\ sess[s].backEnd = c}

\* Every backend that exists is owned by exactly one session, and no session
\* owns one that does not: moves, closes and failed reconnections neither leak
\* a connection nor delete it twice.
OneOwner ==
    \A c \in Conns : Cardinality(Owners(c)) = IF c \in conns THEN 1 ELSE 0

Lessees(i) == {h \in Handles : sess[h].fromPool /\ sess[h].pos = i}

\* A position is leased as long as exactly one session has it: moving sessions
\* around neither leaks a position nor gives it back twice.
OneLessee ==
    \A i \in Slots : Cardinality(Lessees(i)) = IF free[i] THEN 0 ELSE 1

\* The backend pointer cached in a session made from the pool is the pooled
\* session's: begin() after reconnect() must not crash.
CachedBackEndValid ==
    \A h \in Handles :
        sess[h].fromPool => sess[h].backEnd = sess[sess[h].pos].backEnd

\* What a connected session executes runs on its own connection: once and
\* prepare refer to the session itself or to the one it leased.
StatementsUseOwnSession ==
    \A h \in Handles :
        sess[h].alive /\ sess[h].backEnd # None => sess[h].target = Worker(h)
===============================================================================
