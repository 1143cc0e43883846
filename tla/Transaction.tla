----------------------------- MODULE Transaction -----------------------------
(***************************************************************************)
(* soci::transaction (src/core/transaction.cpp) over one session, for each *)
(* way in which the backends implement begin(), commit() and rollback().   *)
(* Every call to the database may fail: a commit or a rollback may be      *)
(* refused with the work still pending, or throw although it ended the     *)
(* transaction, a change of autocommit may be refused, and the connection  *)
(* may be lost, before or after the call took effect.                      *)
(*                                                                         *)
(* The program has one unhandled transaction object at a time and, when    *)
(* commit() or rollback() threw, only retries either or destroys the       *)
(* object.                                                                 *)
(***************************************************************************)
EXTENDS FiniteSets

CONSTANTS Kinds,    \* the families of backends that are considered
          Objects,  \* transaction objects, constructed at most once each
          Writes,   \* statements that change the database, executed at most once
          Outside, NotYet

\* sqlite3, postgresql and mysql send BEGIN, COMMIT and ROLLBACK and differ in
\* what the server makes of a COMMIT that has no BEGIN.
SqlKinds == {"sqlite3", "postgresql", "mysql"}
\* These begin a transaction with the first statement, whoever executes it.
\* db2_manual is a DB2 connection made with the option autocommit=off.
ImplicitKinds == {"oracle", "firebird", "db2_manual"}
\* These turn the driver's autocommit off and on.
DriverKinds == {"odbc", "db2"}

ASSUME TransactionAssumption ==
    /\ Kinds \subseteq SqlKinds \cup ImplicitKinds \cup DriverKinds
    /\ Outside \notin Objects
    /\ NotYet \notin Objects \cup {Outside}

VARIABLES
    kind,   \* the backend of this session
    db,     \* the database and the backend's view of it
    objs,   \* the transaction objects
    scope,  \* the object in whose scope a write was executed
    last    \* the object constructed last

vars == <<kind, db, objs, scope, last>>

\* durable and pending: writes; up: the connection works; explicit: the server
\* is between BEGIN and its end; autocommit: the driver's attribute; trhp: the
\* firebird handle is not 0; in_transaction: of the DB2 backend.
DbType ==
    [durable : SUBSET Writes, pending : SUBSET Writes, up : BOOLEAN,
     explicit : BOOLEAN, autocommit : BOOLEAN, trhp : BOOLEAN,
     in_transaction : BOOLEAN]

\* commit: what came of the calls of commit(); "again" is success after failure.
\* threw: a call of commit() or rollback() threw, the destructor's included; swallowed:
\* the destructor's did, with the connection still up.
ObjectType ==
    [state : {"none", "alive", "dead"}, handled : BOOLEAN,
     commit : {"never", "threw", "ok", "again"}, threw : BOOLEAN, swallowed : BOOLEAN]

\* Each backend uses its own part of the state, and a write is pending or durable.
TypeOK ==
    /\ kind \in Kinds
    /\ db \in DbType
    /\ db.durable \cap db.pending = {}
    /\ db.explicit => kind \in SqlKinds
    /\ db.trhp => kind = "firebird"
    /\ db.in_transaction => kind \in {"db2", "db2_manual"}
    /\ ~ db.autocommit => kind \in DriverKinds \cup {"db2_manual"}
    /\ objs \in [Objects -> ObjectType]
    /\ scope \in [Writes -> Objects \cup {Outside, NotYet}]
    /\ last \in Objects \cup {NotYet}

Init ==
    /\ kind \in Kinds
    /\ db = [durable |-> {}, pending |-> {}, up |-> TRUE, explicit |-> FALSE,
             autocommit |-> kind # "db2_manual", trhp |-> FALSE, in_transaction |-> FALSE]
    /\ objs = [t \in Objects |-> [state |-> "none", handled |-> FALSE,
                                  commit |-> "never", threw |-> FALSE,
                                  swallowed |-> FALSE]]
    /\ scope = [w \in Writes |-> NotYet]
    /\ last = NotYet

-------------------------------------------------------------------------------
(* The database: a call gives a set of outcomes, [db, ok].                 *)

Succeeds(d) == [db |-> d, ok |-> TRUE]
Throws(d) == [db |-> d, ok |-> FALSE]

Committed(d) == [d EXCEPT !.durable = @ \cup d.pending, !.pending = {}, !.explicit = FALSE]
Discarded(d) == [d EXCEPT !.pending = {}, !.explicit = FALSE]
Lost(d) == [Discarded(d) EXCEPT !.up = FALSE]

EndCommit(d) ==
    IF d.up
    THEN {Succeeds(Committed(d)), Throws(d), Throws(Discarded(d)),
          Throws(Lost(d)), Throws(Lost(Committed(d)))}
    ELSE {Throws(d)}

EndRollback(d) ==
    IF d.up
    THEN {Succeeds(Discarded(d)), Throws(d), Throws(Discarded(d)), Throws(Lost(d))}
    ELSE {Throws(d)}

EndTran(d, how) == IF how = "commit" THEN EndCommit(d) ELSE EndRollback(d)

\* Turning autocommit on commits what is pending.  A refused change leaves the
\* connection up and the attribute as it was.
SetAutocommit(d, on) ==
    LET e == IF on THEN Committed(d) ELSE d
    IN  IF d.up
        THEN {Succeeds([e EXCEPT !.autocommit = on]), Throws(d),
              Throws(Lost(d)), Throws(Lost(e))}
        ELSE {Throws(d)}

\* Two calls in sequence, the second only if the first did not throw.
Then(first, Second(_)) ==
    UNION {IF r.ok THEN Second(r.db) ELSE {r} : r \in first}

-------------------------------------------------------------------------------
(* begin(), commit() and rollback() of the backends                        *)

\* BEGIN inside a transaction, which an earlier object may have left open: sqlite3
\* refuses it, postgresql warns and goes on, mysql commits first.
SqlBegin(d) ==
    LET e == IF kind = "mysql" THEN Committed(d) ELSE d
    IN  IF d.up /\ ~ (kind = "sqlite3" /\ d.explicit)
        THEN {Succeeds([e EXCEPT !.explicit = TRUE]), Throws(d),
              Throws(Lost(d)), Throws(Lost(e))}
        ELSE {Throws(d)}

\* sqlite3 refuses COMMIT and ROLLBACK outside a transaction; the others warn.
SqlEnd(d, how) ==
    IF kind = "sqlite3" /\ ~ d.explicit THEN {Throws(d)} ELSE EndTran(d, how)

FirebirdBegin(d) ==
    IF d.trhp THEN {Succeeds(d)}
    ELSE IF d.up THEN {Succeeds([d EXCEPT !.trhp = TRUE]), Throws(d), Throws(Lost(d))}
    ELSE {Throws(d)}

FirebirdEnd(d, how) ==
    IF d.trhp
    THEN Then(EndTran(d, how), LAMBDA e : {Succeeds([e EXCEPT !.trhp = FALSE])})
    ELSE {Succeeds(d)}

\* Mutation of OdbcBegin: autocommit is left on.
OdbcBeginNothing(d) == {Succeeds(d)}

OdbcBegin(d) == SetAutocommit(d, FALSE)

\* Mutation of OdbcEnd: reset_transaction() is not called.
OdbcEndNoReset(d, how) == EndTran(d, how)

OdbcEnd(d, how) == Then(EndTran(d, how), LAMBDA e : SetAutocommit(e, TRUE))

\* When autocommit cannot be changed, begin(), and commit() and rollback() after a
\* successful SQLEndTran, free the handles of the connection.  The driver may refuse
\* that of a connected one: the connection is gone or still up.
Db2Begin(d) ==
    Then(IF kind = "db2" THEN SetAutocommit(d, FALSE) ELSE {Succeeds(d)},
         LAMBDA e : {Succeeds([e EXCEPT !.in_transaction = TRUE])})

\* Mutation of Db2End: in_transaction is cleared before it is looked at.
Db2EndCleared(d, how) == {Succeeds([d EXCEPT !.in_transaction = FALSE])}

\* autocommit is turned on again even if SQLEndTran failed; that failure is the
\* one that is thrown.
Db2End(d, how) ==
    IF kind = "db2_manual" THEN EndTran([d EXCEPT !.in_transaction = FALSE], how)
    ELSE IF d.in_transaction
    THEN UNION {{[db |-> s.db, ok |-> r.ok /\ s.ok] : s \in SetAutocommit(r.db, TRUE)} :
                    r \in EndTran([d EXCEPT !.in_transaction = FALSE], how)}
    ELSE {Succeeds(d)}

Begin(d) ==
    CASE kind \in SqlKinds -> SqlBegin(d)
      [] kind = "oracle" -> {Succeeds(d)}
      [] kind = "firebird" -> FirebirdBegin(d)
      [] kind = "odbc" -> OdbcBegin(d)
      [] kind \in {"db2", "db2_manual"} -> Db2Begin(d)

EndWith(d, how) ==
    CASE kind \in SqlKinds -> SqlEnd(d, how)
      [] kind = "oracle" -> EndTran(d, how)
      [] kind = "firebird" -> FirebirdEnd(d, how)
      [] kind = "odbc" -> OdbcEnd(d, how)
      [] kind \in {"db2", "db2_manual"} -> Db2End(d, how)

Commit(d) == EndWith(d, "commit")
Rollback(d) == EndWith(d, "rollback")

-------------------------------------------------------------------------------
(* The transaction object and the statements                               *)

Unhandled(t) == objs[t].state = "alive" /\ ~ objs[t].handled

\* The constructor; when begin() throws there is no object.
Construct(t) ==
    /\ objs[t].state = "none"
    /\ \A u \in Objects : ~ Unhandled(u)
    /\ \E r \in Begin(db) :
        /\ db' = r.db
        /\ objs' = IF r.ok THEN [objs EXCEPT ![t].state = "alive"] ELSE objs
        /\ last' = IF r.ok THEN t ELSE last
    /\ UNCHANGED <<kind, scope>>

\* commit() of an object that is handled throws and changes nothing.
CallCommit(t) ==
    /\ Unhandled(t)
    /\ \E r \in Commit(db) :
        /\ db' = r.db
        /\ objs' = [objs EXCEPT
             ![t].handled = r.ok,
             ![t].threw = @ \/ ~ r.ok,
             ![t].commit = IF ~ r.ok THEN "threw"
                           ELSE IF objs[t].threw THEN "again" ELSE "ok"]
    /\ UNCHANGED <<kind, scope, last>>

CallRollback(t) ==
    /\ Unhandled(t)
    /\ \E r \in Rollback(db) :
        /\ db' = r.db
        /\ objs' = [objs EXCEPT ![t].handled = r.ok, ![t].threw = @ \/ ~ r.ok]
    /\ UNCHANGED <<kind, scope, last>>

\* Mutation of Destroy: an unhandled object is not rolled back.
DestroyOnly(t) ==
    /\ objs[t].state = "alive"
    /\ objs' = [objs EXCEPT ![t].state = "dead"]
    /\ UNCHANGED <<kind, db, scope, last>>

\* The destructor rolls back what is not handled and swallows the exception.
Destroy(t) ==
    /\ objs[t].state = "alive"
    /\ IF objs[t].handled
       THEN objs' = [objs EXCEPT ![t].state = "dead"] /\ UNCHANGED db
       ELSE \E r \in Rollback(db) :
                /\ db' = r.db
                /\ objs' = [objs EXCEPT ![t].state = "dead", ![t].threw = @ \/ ~ r.ok,
                                        ![t].swallowed = ~ r.ok /\ r.db.up]
    /\ UNCHANGED <<kind, scope, last>>

\* A statement is pending in a transaction and durable otherwise.  The firebird
\* backend begins one for every statement (current_transaction()).
Execute(w) ==
    LET in == \/ db.explicit
              \/ ~ db.autocommit
              \/ kind \in ImplicitKinds
        here == {t \in Objects : Unhandled(t)}
    IN  /\ db.up
        /\ scope[w] = NotYet
        /\ \A t \in here : ~ objs[t].threw
        /\ scope' = [scope EXCEPT ![w] =
                        IF here = {} THEN Outside ELSE CHOOSE t \in here : TRUE]
        /\ db' = [db EXCEPT
             !.pending = IF in THEN @ \cup {w} ELSE @,
             !.durable = IF in THEN @ ELSE @ \cup {w},
             !.trhp = @ \/ kind = "firebird"]
        /\ UNCHANGED <<kind, objs, last>>

\* The network or the server goes away; the server drops what is pending.
LoseConnection ==
    /\ db.up
    /\ db' = Lost(db)
    /\ UNCHANGED <<kind, objs, scope, last>>

\* The session's end: firebird commits, the others let the server decide.
EndSession ==
    /\ db.up
    /\ \A t \in Objects : ~ Unhandled(t)
    /\ \E r \in IF kind = "firebird" THEN FirebirdEnd(db, "commit")
                ELSE {Succeeds(db)} :
        db' = Lost(r.db)
    /\ UNCHANGED <<kind, objs, scope, last>>

Next ==
    \/ \E t \in Objects :
        Construct(t) \/ CallCommit(t) \/ CallRollback(t) \/ Destroy(t)
    \/ \E w \in Writes : Execute(w)
    \/ LoseConnection
    \/ EndSession

Spec == Init /\ [][Next]_vars

-------------------------------------------------------------------------------
(* Properties                                                              *)

Work(t) == {w \in Writes : scope[w] = t}

\* The end of t failed for good: the destructor swallowed the exception of its rollback()
\* with the connection up, or, with DB2, any call threw.  (DB2 clears in_transaction
\* before it ends the transaction, so that a second call does nothing, and turns
\* autocommit on after a failure too.)
EndFailed(t) == objs[t].swallowed \/ (kind = "db2" /\ objs[t].threw)

\* What was done under a transaction object becomes durable as a whole, whatever fails,
\* and only if commit() of that object was called or its end failed for good: never by
\* the destructor, by a rollback() that threw and was retried, by another object's
\* begin() or commit(), by a change of autocommit or by the end of the session.
AllOrNothing ==
    \A t \in Objects :
        \/ Work(t) \cap db.durable = {}
        \/ /\ objs[t].commit # "never" \/ EndFailed(t)
           /\ Work(t) \subseteq db.durable

\* When the first call of commit() returns, the work is durable, whatever
\* happens to the connection later.
CommittedIsDurable ==
    \A t \in Objects : objs[t].commit = "ok" => Work(t) \subseteq db.durable

\* A session whose transaction objects are all handled or destroyed has no open
\* transaction, unless the end of the last of them failed for good: calls that threw and
\* were retried, a begin() that threw and what earlier objects left open do not matter.
\* (The implicit kinds leave statements outside a transaction object pending.)
LeavesNoTransaction ==
    /\ db.up
    /\ \A t \in Objects : ~ Unhandled(t)
    /\ kind \notin ImplicitKinds
    /\ last \in Objects => ~ EndFailed(last)
    => db.pending = {} /\ ~ db.explicit /\ db.autocommit

\* What was executed outside every transaction object is durable at once and no
\* transaction's rollback undoes it, except with the implicit kinds and after an
\* object whose end failed for good.
PriorWorkStays ==
    kind \notin ImplicitKinds /\ (\A t \in Objects : ~ EndFailed(t))
    => Work(Outside) \subseteq db.durable

\* The ODBC backend keeps autocommit off from the construction of a transaction
\* object until the object is handled, whatever fails in between: a retried
\* commit() or the destructor's rollback() finds the transaction still open.  (The
\* DB2 backend does not: Db2End turns it on after a failure too.)
AutocommitOffUntilHandled ==
    kind = "odbc" /\ db.up /\ (\E t \in Objects : Unhandled(t)) => ~ db.autocommit

===============================================================================
