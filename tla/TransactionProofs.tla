--------------------------- MODULE TransactionProofs ---------------------------
(***************************************************************************)
(* Proofs about Transaction, for any objects, any writes and any kinds of  *)
(* backend.                                                                *)
(***************************************************************************)
EXTENDS Transaction, TLAPS

\* What the flags of the connection and of the backend say about pending work.
PendingInv(d) ==
    /\ d \in DbType
    /\ d.durable \cap d.pending = {}
    /\ d.explicit => kind \in SqlKinds
    /\ d.trhp => kind = "firebird"
    /\ d.in_transaction => kind \in {"db2", "db2_manual"}
    /\ ~ d.autocommit => kind \in DriverKinds \cup {"db2_manual"}
    /\ ~ d.up => d.pending = {}
    /\ kind \in SqlKinds /\ ~ d.explicit => d.pending = {}
    /\ kind \in DriverKinds /\ d.autocommit => d.pending = {}
    /\ kind = "firebird" /\ ~ d.trhp => d.pending = {}

\* The unhandled object, if there is one, was constructed last, and only what was executed
\* under it, under an object whose end failed for good, or outside every object, is pending;
\* nothing was executed under an object not made yet.
ScopeInv ==
    /\ \A t \in Objects : Unhandled(t) => t = last
    /\ \A w \in db.pending :
          \/ scope[w] = Outside
          \/ scope[w] \in Objects /\ (Unhandled(scope[w]) \/ EndFailed(scope[w]))
    /\ \A w \in db.durable : scope[w] # NotYet
    /\ \A t \in Objects :
          /\ objs[t].state = "none" => /\ Work(t) = {} /\ ~ objs[t].handled
                                       /\ objs[t].commit = "never" /\ ~ objs[t].threw
          /\ objs[t].swallowed => objs[t].state = "dead"
          /\ objs[t].commit = "ok" => objs[t].handled

\* An object of which no call has thrown: its transaction is open, as long as the
\* connection is up, and holds its work.
OpenInv ==
    \A t \in Objects : Unhandled(t) /\ ~ objs[t].threw =>
        /\ kind = "firebird" => db.trhp
        /\ kind = "db2" => db.in_transaction
        /\ db.up => /\ kind \in SqlKinds => db.explicit
                    /\ kind \in DriverKinds => ~ db.autocommit
                    /\ Work(t) \subseteq db.pending

\* The work of an object is pending, durable or undone as a whole, and durable only after a
\* call of commit() or when its end failed for good.
WholeInv ==
    \A t \in Objects :
        \/ Work(t) \subseteq db.pending
        \/ Work(t) \cap (db.pending \cup db.durable) = {}
        \/ Work(t) \subseteq db.durable /\ (objs[t].commit # "never" \/ EndFailed(t))

IInv ==
    /\ TypeOK /\ PendingInv(db) /\ ScopeInv /\ OpenInv /\ WholeInv
    /\ CommittedIsDurable /\ LeavesNoTransaction /\ PriorWorkStays
    /\ AutocommitOffUntilHandled

-------------------------------------------------------------------------------
(* What a call to the database may do                                      *)

Outcomes == [db : DbType, ok : BOOLEAN]

\* There is no transaction: the next statement is durable at once.
Clean(d) == d.pending = {} /\ ~ d.explicit /\ d.autocommit

\* The end of a transaction makes all of the pending work durable or undoes all of it, or
\* leaves it pending when it throws; a rollback() that throws makes it durable with DB2 only.
Ended(d, how, r) ==
    /\ r.db.up => d.up
    /\ \/ r.db.durable = d.durable /\ r.db.pending \in {d.pending, {}}
       \/ /\ how = "commit" \/ (kind = "db2" /\ ~ r.ok)
          /\ r.db.durable = d.durable \cup d.pending /\ r.db.pending = {}
    /\ r.ok /\ (kind = "db2" => d.in_transaction) =>
          /\ r.db.pending = {}
          /\ how = "commit" => r.db.durable = d.durable \cup d.pending

LEMMA CommittedFields ==
  ASSUME NEW d \in DbType
  PROVE  /\ Committed(d) \in DbType
         /\ Committed(d).durable = d.durable \cup d.pending
         /\ Committed(d).pending = {}
         /\ Committed(d).explicit = FALSE
         /\ Committed(d).up = d.up
         /\ Committed(d).autocommit = d.autocommit
         /\ Committed(d).trhp = d.trhp
         /\ Committed(d).in_transaction = d.in_transaction
BY DEF DbType, Committed

LEMMA DiscardedFields ==
  ASSUME NEW d \in DbType
  PROVE  /\ Discarded(d) \in DbType
         /\ Discarded(d).durable = d.durable
         /\ Discarded(d).pending = {}
         /\ Discarded(d).explicit = FALSE
         /\ Discarded(d).up = d.up
         /\ Discarded(d).autocommit = d.autocommit
         /\ Discarded(d).trhp = d.trhp
         /\ Discarded(d).in_transaction = d.in_transaction
BY DEF DbType, Discarded

LEMMA LostFields ==
  ASSUME NEW d \in DbType
  PROVE  /\ Lost(d) \in DbType
         /\ Lost(d).durable = d.durable
         /\ Lost(d).pending = {}
         /\ Lost(d).explicit = FALSE
         /\ Lost(d).up = FALSE
         /\ Lost(d).autocommit = d.autocommit
         /\ Lost(d).trhp = d.trhp
         /\ Lost(d).in_transaction = d.in_transaction
BY DiscardedFields DEF DbType, Lost

LEMMA OutcomeFields ==
  ASSUME NEW d
  PROVE  /\ Succeeds(d).db = d /\ Succeeds(d).ok = TRUE
         /\ Throws(d).db = d /\ Throws(d).ok = FALSE
         /\ d \in DbType => Succeeds(d) \in Outcomes /\ Throws(d) \in Outcomes
BY DEF Succeeds, Throws, Outcomes

\* Changing one flag leaves the other fields as they are.
LEMMA FlagFields ==
  ASSUME NEW d \in DbType, NEW b \in BOOLEAN
  PROVE  /\ LET e == [d EXCEPT !.explicit = b] IN
            /\ e \in DbType /\ e.explicit = b /\ e.durable = d.durable
            /\ e.pending = d.pending /\ e.up = d.up /\ e.autocommit = d.autocommit
            /\ e.trhp = d.trhp /\ e.in_transaction = d.in_transaction
         /\ LET e == [d EXCEPT !.autocommit = b] IN
            /\ e \in DbType /\ e.autocommit = b /\ e.durable = d.durable
            /\ e.pending = d.pending /\ e.up = d.up /\ e.explicit = d.explicit
            /\ e.trhp = d.trhp /\ e.in_transaction = d.in_transaction
         /\ LET e == [d EXCEPT !.trhp = b] IN
            /\ e \in DbType /\ e.trhp = b /\ e.durable = d.durable
            /\ e.pending = d.pending /\ e.up = d.up /\ e.explicit = d.explicit
            /\ e.autocommit = d.autocommit /\ e.in_transaction = d.in_transaction
         /\ LET e == [d EXCEPT !.in_transaction = b] IN
            /\ e \in DbType /\ e.in_transaction = b /\ e.durable = d.durable
            /\ e.pending = d.pending /\ e.up = d.up /\ e.explicit = d.explicit
            /\ e.autocommit = d.autocommit /\ e.trhp = d.trhp
BY DEF DbType

\* Ending a transaction, one way or another, keeps the flags truthful.
LEMMA EndKeepsPending ==
  ASSUME NEW d, PendingInv(d)
  PROVE  PendingInv(Committed(d)) /\ PendingInv(Discarded(d)) /\ PendingInv(Lost(d))
<1>0. d \in DbType
  BY DEF PendingInv
<1>1. PendingInv(Committed(d))
  BY <1>0, CommittedFields DEF PendingInv
<1>2. PendingInv(Discarded(d))
  BY <1>0, DiscardedFields DEF PendingInv
<1>3. PendingInv(Lost(d))
  BY <1>0, LostFields DEF PendingInv
<1> QED BY <1>1, <1>2, <1>3

LEMMA EndTranOutcome ==
  ASSUME NEW d, PendingInv(d), NEW how \in {"commit", "rollback"},
         NEW r \in EndTran(d, how)
  PROVE  /\ r \in Outcomes /\ PendingInv(r.db) /\ Ended(d, how, r)
         /\ r.ok => d.up /\ r.db.up /\ ~ r.db.explicit
         /\ r.ok \/ r.db.durable = d.durable \/ how = "commit"
         /\ r.ok => r.db.pending = {}
         /\ r.ok /\ how = "commit" => r.db.durable = d.durable \cup d.pending
         /\ r.db.autocommit = d.autocommit
         /\ r.db.trhp = d.trhp
         /\ r.db.in_transaction = d.in_transaction
<1> DEFINE c == Committed(d)
<1>0. d \in DbType /\ (~ d.up => d.pending = {})
  BY DEF PendingInv
<1>1. \/ r = Succeeds(c) /\ d.up /\ how = "commit"
      \/ r = Throws(d)
      \/ r = Throws(Discarded(d)) /\ d.up
      \/ r = Succeeds(Discarded(d)) /\ d.up /\ how = "rollback"
      \/ r = Throws(Lost(d)) /\ d.up
      \/ r = Throws(Lost(c)) /\ d.up /\ how = "commit"
  BY DEF EndTran, EndCommit, EndRollback
<1>2. /\ r.ok \in BOOLEAN
      /\ \/ r.db = c /\ d.up /\ how = "commit"
         \/ r.db = d /\ ~ r.ok
         \/ r.db = Discarded(d) /\ d.up /\ (r.ok => how = "rollback")
         \/ r.db = Lost(d) /\ d.up /\ ~ r.ok
         \/ r.db = Lost(c) /\ d.up /\ ~ r.ok /\ how = "commit"
  BY <1>1, OutcomeFields, Zenon
<1>3. PendingInv(c) /\ PendingInv(Discarded(d)) /\ PendingInv(Lost(d)) /\ PendingInv(Lost(c))
  BY EndKeepsPending
<1>4. r \in Outcomes
  <2>1. c \in DbType /\ Discarded(d) \in DbType /\ Lost(d) \in DbType /\ Lost(c) \in DbType
    BY <1>3 DEF PendingInv
  <2> QED BY <1>0, <1>1, <2>1, OutcomeFields
<1>5. /\ c \in DbType /\ c.durable = d.durable \cup d.pending /\ c.pending = {} /\ c.up = d.up
      /\ c.explicit = FALSE /\ c.autocommit = d.autocommit /\ c.trhp = d.trhp
      /\ c.in_transaction = d.in_transaction
  BY <1>0, CommittedFields
<1>6. /\ Lost(c).durable = c.durable /\ Lost(c).pending = {} /\ Lost(c).up = FALSE
      /\ Lost(c).autocommit = c.autocommit /\ Lost(c).trhp = c.trhp
      /\ Lost(c).in_transaction = c.in_transaction
  BY <1>5, LostFields
<1>7. /\ Lost(d).durable = d.durable /\ Lost(d).pending = {} /\ Lost(d).up = FALSE
      /\ Lost(d).autocommit = d.autocommit /\ Lost(d).trhp = d.trhp
      /\ Lost(d).in_transaction = d.in_transaction
  BY <1>0, LostFields
<1>8. /\ Discarded(d).durable = d.durable /\ Discarded(d).pending = {}
      /\ Discarded(d).up = d.up /\ Discarded(d).explicit = FALSE
      /\ Discarded(d).autocommit = d.autocommit /\ Discarded(d).trhp = d.trhp
      /\ Discarded(d).in_transaction = d.in_transaction
  BY <1>0, DiscardedFields
<1> HIDE DEF c
<1>9. Ended(d, how, r)
  BY <1>0, <1>2, <1>5, <1>6, <1>7, <1>8 DEF Ended
<1>10. PendingInv(r.db)
  BY <1>2, <1>3
<1> QED BY <1>2, <1>4, <1>5, <1>6, <1>7, <1>8, <1>9, <1>10

LEMMA SetAutocommitOutcome ==
  ASSUME NEW d, PendingInv(d), kind \in DriverKinds, NEW on \in BOOLEAN,
         NEW r \in SetAutocommit(d, on)
  PROVE  /\ r \in Outcomes /\ PendingInv(r.db)
         /\ r.db.in_transaction = d.in_transaction
         /\ r.ok => d.up /\ r.db.up /\ r.db.autocommit = on
         /\ ~ r.ok => \/ r.db = d
                      \/ /\ ~ r.db.up /\ d.up /\ r.db.pending = {}
                         /\ \/ r.db.durable = d.durable
                            \/ on /\ r.db.durable = d.durable \cup d.pending
         /\ r.ok /\ on => r.db.durable = d.durable \cup d.pending /\ r.db.pending = {}
         /\ r.ok /\ ~ on => r.db.durable = d.durable /\ r.db.pending = d.pending
<1> DEFINE c == Committed(d)
           y == [c EXCEPT !.autocommit = TRUE]
           n == [d EXCEPT !.autocommit = FALSE]
<1>0. d \in DbType /\ (~ d.up => d.pending = {})
  BY DEF PendingInv
<1>1. \/ r = Succeeds(y) /\ d.up /\ on
      \/ r = Succeeds(n) /\ d.up /\ ~ on
      \/ r = Throws(Lost(d)) /\ d.up
      \/ r = Throws(Lost(c)) /\ d.up /\ on
      \/ r = Throws(d)
  BY DEF SetAutocommit
<1>2. /\ c \in DbType /\ c.durable = d.durable \cup d.pending /\ c.pending = {} /\ c.up = d.up
      /\ c.explicit = FALSE /\ c.autocommit = d.autocommit /\ c.trhp = d.trhp
      /\ c.in_transaction = d.in_transaction
  BY <1>0, CommittedFields
<1>3. PendingInv(c) /\ PendingInv(Lost(d)) /\ PendingInv(Lost(c))
  BY EndKeepsPending
<1> HIDE DEF c
<1>4. /\ y \in DbType /\ y.durable = c.durable /\ y.pending = {} /\ y.up = d.up
      /\ y.explicit = FALSE /\ y.autocommit = TRUE /\ y.trhp = d.trhp
      /\ y.in_transaction = d.in_transaction
  BY <1>2, FlagFields
<1>5. /\ n \in DbType /\ n.durable = d.durable /\ n.pending = d.pending /\ n.up = d.up
      /\ n.explicit = d.explicit /\ n.autocommit = FALSE /\ n.trhp = d.trhp
      /\ n.in_transaction = d.in_transaction
  BY <1>0, FlagFields
<1>6. /\ Lost(d).durable = d.durable /\ Lost(d).pending = {} /\ Lost(d).up = FALSE
      /\ Lost(d).in_transaction = d.in_transaction
      /\ Lost(c).durable = c.durable /\ Lost(c).pending = {} /\ Lost(c).up = FALSE
      /\ Lost(c).in_transaction = c.in_transaction
  BY <1>0, <1>2, LostFields
<1> HIDE DEF y, n
<1>7. PendingInv(y)
  BY <1>3, <1>2, <1>4 DEF PendingInv
<1>8. PendingInv(n)
  BY <1>5 DEF PendingInv, SqlKinds, DriverKinds
<1>9. r \in Outcomes
  <2>1. Lost(d) \in DbType /\ Lost(c) \in DbType
    BY <1>3 DEF PendingInv
  <2>2. \A e \in DbType : Succeeds(e) \in Outcomes /\ Throws(e) \in Outcomes
    BY OutcomeFields
  <2> QED BY <1>0, <1>1, <1>4, <1>5, <2>1, <2>2
<1>10. /\ r.ok \in BOOLEAN
       /\ \/ r.db = y /\ r.ok /\ d.up /\ on
          \/ r.db = n /\ r.ok /\ d.up /\ ~ on
          \/ r.db = Lost(d) /\ ~ r.ok /\ d.up
          \/ r.db = Lost(c) /\ ~ r.ok /\ d.up /\ on
          \/ r.db = d /\ ~ r.ok
  BY <1>1, OutcomeFields, Zenon
<1>11. PendingInv(r.db)
  BY <1>3, <1>7, <1>8, <1>10
<1> QED BY <1>0, <1>2, <1>4, <1>5, <1>6, <1>9, <1>10, <1>11

LEMMA BeginOutcome ==
  ASSUME NEW d, PendingInv(d), kind \in Kinds, NEW r \in Begin(d)
  PROVE  /\ r \in Outcomes /\ PendingInv(r.db)
         /\ \/ r.db.durable = d.durable /\ r.db.pending \in {d.pending, {}}
            \/ r.db.durable = d.durable \cup d.pending /\ r.db.pending = {}
         /\ r.db.up => d.up
         /\ ~ r.ok /\ r.db.up => r.db = d
         /\ r.ok => /\ kind = "firebird" => r.db.trhp
                    /\ kind = "db2" => r.db.in_transaction
                    /\ kind \in SqlKinds => r.db.explicit
                    /\ kind \in DriverKinds => ~ r.db.autocommit
<1>0. d \in DbType /\ PendingInv(d) /\ (~ d.up => d.pending = {})
  BY DEF PendingInv
<1>1. Lost(d) \in DbType /\ PendingInv(Lost(d))
  BY <1>0, LostFields, EndKeepsPending
<1>2. /\ Lost(d).durable = d.durable /\ Lost(d).pending = {} /\ Lost(d).up = FALSE
  BY <1>0, LostFields
<1>3. CASE kind \in SqlKinds
  <2> DEFINE c == IF kind = "mysql" THEN Committed(d) ELSE d
             e == [c EXCEPT !.explicit = TRUE]
  <2>1. Begin(d) = SqlBegin(d)
    BY <1>3 DEF Begin, SqlKinds
  <2>2. \/ r = Succeeds(e) /\ d.up
        \/ r = Throws(d)
        \/ r = Throws(Lost(d))
        \/ r = Throws(Lost(c))
    BY <2>1 DEF SqlBegin
  <2>3. /\ c \in DbType /\ PendingInv(c) /\ c.up = d.up /\ PendingInv(Lost(c))
        /\ \/ c.durable = d.durable /\ c.pending = d.pending
           \/ c.durable = d.durable \cup d.pending /\ c.pending = {}
    <3>1. CASE kind = "mysql"
      BY <1>0, <3>1, CommittedFields, EndKeepsPending
    <3>2. CASE kind # "mysql"
      BY <1>0, <3>2, EndKeepsPending
    <3> QED BY <3>1, <3>2
  <2> HIDE DEF c
  <2>4. /\ e \in DbType /\ e.explicit = TRUE /\ e.durable = c.durable
        /\ e.pending = c.pending /\ e.up = c.up /\ e.autocommit = c.autocommit
        /\ e.trhp = c.trhp /\ e.in_transaction = c.in_transaction
    BY <2>3, FlagFields
  <2>5. /\ Lost(c) \in DbType /\ Lost(c).durable = c.durable /\ Lost(c).pending = {}
        /\ Lost(c).up = FALSE
    BY <2>3, LostFields
  <2> HIDE DEF e
  <2>6. PendingInv(e)
    BY <2>3, <2>4, <1>3 DEF PendingInv, SqlKinds, DriverKinds
  <2>7. r \in Outcomes
    BY <1>0, <1>1, <2>2, <2>4, <2>5, OutcomeFields
  <2>8. /\ r.ok \in BOOLEAN
        /\ \/ r.db = e /\ r.ok
           \/ r.db \in {d, Lost(d), Lost(c)} /\ ~ r.ok
    BY <2>2, OutcomeFields
  <2> QED BY <1>0, <1>1, <1>2, <1>3, <2>3, <2>4, <2>5, <2>6, <2>7, <2>8
          DEF SqlKinds, DriverKinds
<1>4. CASE kind = "oracle"
  <2>1. Begin(d) = {Succeeds(d)}
    BY <1>4 DEF Begin, SqlKinds
  <2>2. r \in Outcomes /\ r.db = d /\ r.ok
    BY <1>0, <2>1, OutcomeFields
  <2> QED BY <1>0, <1>4, <2>2 DEF SqlKinds, DriverKinds
<1>5. CASE kind = "firebird"
  <2> DEFINE e == [d EXCEPT !.trhp = TRUE]
  <2>1. Begin(d) = FirebirdBegin(d)
    BY <1>5 DEF Begin, SqlKinds
  <2>2. \/ r = Succeeds(d) /\ d.trhp
        \/ r = Succeeds(e) /\ d.up
        \/ r = Throws(Lost(d))
        \/ r = Throws(d)
    BY <2>1 DEF FirebirdBegin
  <2>3. /\ e \in DbType /\ e.trhp = TRUE /\ e.durable = d.durable
        /\ e.pending = d.pending /\ e.up = d.up /\ e.autocommit = d.autocommit
        /\ e.explicit = d.explicit /\ e.in_transaction = d.in_transaction
    BY <1>0, FlagFields
  <2> HIDE DEF e
  <2>4. PendingInv(e)
    BY <2>3, <1>5 DEF PendingInv, SqlKinds, DriverKinds
  <2>5. r \in Outcomes
    BY <1>0, <1>1, <2>2, <2>3, OutcomeFields
  <2>6. /\ r.ok \in BOOLEAN
        /\ \/ r.db = e /\ r.ok
           \/ r.db = d /\ r.ok /\ d.trhp
           \/ r.db \in {d, Lost(d)} /\ ~ r.ok
    BY <2>2, OutcomeFields, Zenon
  <2> QED BY <1>0, <1>1, <1>2, <1>5, <2>3, <2>4, <2>5, <2>6 DEF SqlKinds, DriverKinds
<1>6. CASE kind = "odbc"
  <2>1. r \in SetAutocommit(d, FALSE)
    BY <1>6 DEF Begin, OdbcBegin, SqlKinds
  <2>2. kind \in DriverKinds
    BY <1>6 DEF DriverKinds
  <2> QED BY <1>0, <1>6, <2>1, <2>2, SetAutocommitOutcome DEF SqlKinds
<1>7. CASE kind = "db2_manual"
  <2> DEFINE e == [d EXCEPT !.in_transaction = TRUE]
  <2>0. PICK q \in {Succeeds(d)} :
          r = IF q.ok THEN Succeeds([q.db EXCEPT !.in_transaction = TRUE]) ELSE q
    BY <1>7 DEF Begin, Db2Begin, Then, SqlKinds
  <2>1. r = Succeeds(e)
    BY <2>0, OutcomeFields
  <2>2. /\ e \in DbType /\ e.in_transaction = TRUE /\ e.durable = d.durable
        /\ e.pending = d.pending /\ e.up = d.up /\ e.autocommit = d.autocommit
        /\ e.explicit = d.explicit /\ e.trhp = d.trhp
    BY <1>0, FlagFields
  <2> HIDE DEF e
  <2>3. PendingInv(e)
    BY <2>2, <1>7 DEF PendingInv, SqlKinds, DriverKinds
  <2>4. r \in Outcomes /\ r.db = e /\ r.ok
    BY <2>1, <2>2, OutcomeFields
  <2> QED BY <1>0, <1>7, <2>2, <2>3, <2>4 DEF SqlKinds, DriverKinds
<1>8. CASE kind = "db2"
  <2>1. PICK q \in SetAutocommit(d, FALSE) :
          r = IF q.ok THEN Succeeds([q.db EXCEPT !.in_transaction = TRUE]) ELSE q
    BY <1>8 DEF Begin, Db2Begin, Then, SqlKinds
  <2> DEFINE e == [q.db EXCEPT !.in_transaction = TRUE]
  <2>2. kind \in DriverKinds
    BY <1>8 DEF DriverKinds
  <2>3. /\ q \in Outcomes /\ PendingInv(q.db)
        /\ q.ok => d.up /\ q.db.up /\ q.db.autocommit = FALSE
        /\ ~ q.ok => \/ q.db = d
                     \/ ~ q.db.up /\ q.db.durable = d.durable /\ q.db.pending = {}
        /\ q.ok => q.db.durable = d.durable /\ q.db.pending = d.pending
    BY <1>0, <2>2, SetAutocommitOutcome
  <2>4. q.db \in DbType
    BY <2>3 DEF PendingInv
  <2>5. /\ e \in DbType /\ e.in_transaction = TRUE /\ e.durable = q.db.durable
        /\ e.pending = q.db.pending /\ e.up = q.db.up /\ e.autocommit = q.db.autocommit
        /\ e.explicit = q.db.explicit /\ e.trhp = q.db.trhp
    BY <2>4, FlagFields
  <2> HIDE DEF e
  <2>6. PendingInv(e)
    BY <1>8, <2>3, <2>5 DEF PendingInv, SqlKinds, DriverKinds
  <2>7. \/ r = Succeeds(e) /\ q.ok
        \/ r = q /\ ~ q.ok
    BY <2>1 DEF e
  <2>8. \/ r \in Outcomes /\ r.db = e /\ r.ok /\ q.ok
        \/ r = q /\ ~ q.ok
    BY <2>5, <2>7, OutcomeFields, Zenon
  <2>9. ~ q.ok => PendingInv(q.db)
    BY <2>3
  <2> QED BY <1>8, <2>3, <2>5, <2>6, <2>8, <2>9 DEF SqlKinds, DriverKinds
<1> QED BY <1>3, <1>4, <1>5, <1>6, <1>7, <1>8, TransactionAssumption
        DEF SqlKinds, DriverKinds, ImplicitKinds

LEMMA EndOutcome ==
  ASSUME NEW d, PendingInv(d), kind \in Kinds, NEW how \in {"commit", "rollback"},
         NEW r \in EndWith(d, how)
  PROVE  /\ r \in Outcomes /\ PendingInv(r.db) /\ Ended(d, how, r)
         /\ r.ok /\ (kind = "db2" => d.in_transaction) /\ kind \notin ImplicitKinds
              => Clean(r.db)
         /\ r.ok /\ (kind = "firebird" => d.trhp) /\ (kind = "db2" => d.in_transaction) => d.up
         /\ kind = "odbc" /\ ~ r.ok /\ r.db.up => r.db.autocommit = d.autocommit
<1>0. d \in DbType /\ PendingInv(d) /\ (~ d.up => d.pending = {})
  BY DEF PendingInv
<1> DEFINE x == [d EXCEPT !.in_transaction = FALSE]
<1>1. /\ x \in DbType /\ x.in_transaction = FALSE /\ x.durable = d.durable
      /\ x.pending = d.pending /\ x.up = d.up /\ x.autocommit = d.autocommit
      /\ x.explicit = d.explicit /\ x.trhp = d.trhp
  BY <1>0, FlagFields
<1> HIDE DEF x
<1>2. PendingInv(x)
  BY <1>0, <1>1 DEF PendingInv
<1>3. CASE kind \in SqlKinds
  <2>1. EndWith(d, how) = SqlEnd(d, how)
    BY <1>3 DEF EndWith, SqlKinds
  <2>2. CASE kind = "sqlite3" /\ ~ d.explicit
    <3>1. r = Throws(d)
      BY <2>1, <2>2 DEF SqlEnd
    <3>2. r \in Outcomes /\ r.db = d /\ ~ r.ok
      BY <1>0, <3>1, OutcomeFields
    <3>3. Ended(d, how, r)
      BY <3>2 DEF Ended
    <3> QED BY <1>0, <2>2, <3>2, <3>3
  <2>3. CASE ~ (kind = "sqlite3" /\ ~ d.explicit)
    <3>1. r \in EndTran(d, how)
      BY <2>1, <2>3 DEF SqlEnd
    <3>2. /\ r \in Outcomes /\ PendingInv(r.db) /\ Ended(d, how, r)
          /\ r.ok => d.up /\ r.db.up /\ ~ r.db.explicit
      BY <1>0, <3>1, EndTranOutcome
    <3>3. r.ok => Clean(r.db)
      BY <1>3, <3>2 DEF Clean, Ended, PendingInv, SqlKinds, DriverKinds
    <3> QED BY <1>3, <3>2, <3>3 DEF SqlKinds
  <2> QED BY <2>2, <2>3
<1>4. CASE kind = "oracle"
  <2>1. r \in EndTran(d, how)
    BY <1>4 DEF EndWith, SqlKinds
  <2>2. /\ r \in Outcomes /\ PendingInv(r.db) /\ Ended(d, how, r) /\ (r.ok => d.up)
    BY <1>0, <2>1, EndTranOutcome
  <2> QED BY <1>4, <2>2 DEF ImplicitKinds
<1>5. CASE kind = "firebird" /\ d.trhp
  <2>1. PICK q \in EndTran(d, how) :
          r = IF q.ok THEN Succeeds([q.db EXCEPT !.trhp = FALSE]) ELSE q
    BY <1>5 DEF EndWith, FirebirdEnd, Then, SqlKinds
  <2> DEFINE e == [q.db EXCEPT !.trhp = FALSE]
  <2>2. /\ q \in Outcomes /\ PendingInv(q.db) /\ Ended(d, how, q)
        /\ q.ok => d.up /\ q.db.up /\ ~ q.db.explicit
    BY <1>0, EndTranOutcome
  <2>3. q.db \in DbType
    BY <2>2 DEF PendingInv
  <2>4. /\ e \in DbType /\ e.trhp = FALSE /\ e.durable = q.db.durable
        /\ e.pending = q.db.pending /\ e.up = q.db.up /\ e.autocommit = q.db.autocommit
        /\ e.explicit = q.db.explicit /\ e.in_transaction = q.db.in_transaction
    BY <2>3, FlagFields
  <2>5. \/ r = Succeeds(e) /\ q.ok
        \/ r = q /\ ~ q.ok
    BY <2>1
  <2> HIDE DEF e
  <2>6. q.ok => PendingInv(e)
    BY <1>5, <2>2, <2>4 DEF PendingInv, Ended, SqlKinds, DriverKinds
  <2>7. \/ r \in Outcomes /\ r.db = e /\ r.ok /\ q.ok
        \/ r = q /\ ~ q.ok
    BY <2>4, <2>5, OutcomeFields, Zenon
  <2>8. Ended(d, how, r)
    BY <2>2, <2>4, <2>7 DEF Ended
  <2> QED BY <1>5, <2>2, <2>6, <2>7, <2>8 DEF ImplicitKinds
<1>6. CASE kind = "firebird" /\ ~ d.trhp
  <2>1. r = Succeeds(d)
    BY <1>6 DEF EndWith, FirebirdEnd, SqlKinds
  <2>2. r \in Outcomes /\ r.db = d /\ r.ok
    BY <1>0, <2>1, OutcomeFields
  <2>3. d.pending = {}
    BY <1>0, <1>6 DEF PendingInv
  <2> QED BY <1>6, <2>2, <2>3 DEF Ended, ImplicitKinds
<1>7. CASE kind = "odbc"
  <2>1. PICK q \in EndTran(d, how) :
          r \in IF q.ok THEN SetAutocommit(q.db, TRUE) ELSE {q}
    BY <1>7 DEF EndWith, OdbcEnd, Then, SqlKinds
  <2>2. /\ q \in Outcomes /\ PendingInv(q.db) /\ Ended(d, how, q)
        /\ q.ok => d.up /\ q.db.up /\ q.db.pending = {}
        /\ q.db.autocommit = d.autocommit
    BY <1>0, EndTranOutcome
  <2>3. kind \in DriverKinds
    BY <1>7 DEF DriverKinds
  <2>4. CASE ~ q.ok
    BY <1>7, <2>1, <2>2, <2>4
  <2>5. CASE q.ok
    <3>1. r \in SetAutocommit(q.db, TRUE)
      BY <2>1, <2>5
    <3>2. /\ r \in Outcomes /\ PendingInv(r.db)
          /\ r.ok => q.db.up /\ r.db.up /\ r.db.autocommit = TRUE
          /\ ~ r.ok => \/ r.db = q.db
                       \/ /\ ~ r.db.up /\ r.db.pending = {}
                          /\ \/ r.db.durable = q.db.durable
                             \/ r.db.durable = q.db.durable \cup q.db.pending
          /\ r.ok => r.db.durable = q.db.durable \cup q.db.pending /\ r.db.pending = {}
      BY <2>2, <2>3, <3>1, SetAutocommitOutcome
    <3>3. r.db.durable = q.db.durable /\ r.db.pending = {} /\ (r.db.up => q.db.up)
      BY <2>2, <2>5, <3>2 DEF Outcomes
    <3>4. Ended(d, how, r)
      BY <1>7, <2>2, <2>5, <3>3 DEF Ended
    <3>5. r.ok => Clean(r.db)
      BY <1>7, <3>2 DEF Clean, PendingInv, SqlKinds
    <3>6. ~ r.ok /\ r.db.up => r.db.autocommit = d.autocommit
      BY <2>2, <3>2
    <3> QED BY <1>7, <2>2, <2>5, <3>2, <3>4, <3>5, <3>6
  <2> QED BY <2>4, <2>5, <2>2 DEF Outcomes
<1>8. CASE kind = "db2_manual"
  <2>1. r \in EndTran(x, how)
    BY <1>8 DEF EndWith, Db2End, SqlKinds, x
  <2>2. /\ r \in Outcomes /\ PendingInv(r.db) /\ Ended(x, how, r) /\ (r.ok => x.up)
    BY <1>2, <2>1, EndTranOutcome
  <2>3. Ended(d, how, r)
    BY <1>1, <1>8, <2>2 DEF Ended
  <2> QED BY <1>1, <1>8, <2>2, <2>3 DEF ImplicitKinds
<1>9. CASE kind = "db2" /\ d.in_transaction
  <2>0. PICK q \in EndTran(x, how) : \E s \in SetAutocommit(q.db, TRUE) :
          r = [db |-> s.db, ok |-> q.ok /\ s.ok]
    BY <1>9 DEF EndWith, Db2End, SqlKinds, x
  <2>1. PICK s \in SetAutocommit(q.db, TRUE) : r = [db |-> s.db, ok |-> q.ok /\ s.ok]
    BY <2>0
  <2>2. /\ q \in Outcomes /\ PendingInv(q.db) /\ Ended(x, how, q)
        /\ q.ok => x.up /\ q.db.up /\ q.db.pending = {}
        /\ q.ok \/ q.db.durable = x.durable \/ how = "commit"
        /\ q.ok /\ how = "commit" => q.db.durable = x.durable \cup x.pending
    BY <1>2, EndTranOutcome
  <2>3. kind \in DriverKinds
    BY <1>9 DEF DriverKinds
  <2>4. /\ s \in Outcomes /\ PendingInv(s.db)
        /\ s.ok => q.db.up /\ s.db.up /\ s.db.autocommit = TRUE
        /\ ~ s.ok => \/ s.db = q.db
                     \/ /\ ~ s.db.up /\ q.db.up /\ s.db.pending = {}
                        /\ \/ s.db.durable = q.db.durable
                           \/ s.db.durable = q.db.durable \cup q.db.pending
        /\ s.ok => s.db.durable = q.db.durable \cup q.db.pending /\ s.db.pending = {}
    BY <2>2, <2>3, SetAutocommitOutcome
  <2>5. r \in Outcomes /\ r.db = s.db /\ (r.ok <=> q.ok /\ s.ok)
    BY <2>1, <2>2, <2>4 DEF Outcomes
  <2>6. Ended(d, how, r)
    <3>1. /\ q.ok \in BOOLEAN /\ s.ok \in BOOLEAN
          /\ \/ s.db.durable = q.db.durable /\ s.db.pending \in {q.db.pending, {}}
             \/ s.db.durable = q.db.durable \cup q.db.pending /\ s.db.pending = {}
          /\ s.db.up => q.db.up
      BY <2>2, <2>4 DEF Outcomes
    <3>2. /\ q.db.up => d.up
          /\ \/ q.db.durable = d.durable /\ q.db.pending \in {d.pending, {}}
             \/ /\ how = "commit"
                /\ q.db.durable = d.durable \cup d.pending /\ q.db.pending = {}
          /\ q.ok /\ how = "commit" => q.db.durable = d.durable \cup d.pending
      <4>1. /\ q.db.up => d.up
            /\ \/ q.db.durable = d.durable /\ q.db.pending \in {d.pending, {}}
               \/ /\ how = "commit" \/ ~ q.ok
                  /\ q.db.durable = d.durable \cup d.pending /\ q.db.pending = {}
        BY <1>1, <2>2 DEF Ended
      <4> QED BY <1>1, <2>2, <4>1
    <3>3. CASE q.ok
      BY <1>9, <2>2, <2>5, <3>1, <3>2, <3>3 DEF Ended
    <3>4. CASE ~ q.ok
      BY <1>9, <2>5, <3>1, <3>2, <3>4 DEF Ended
    <3> QED BY <3>1, <3>3, <3>4
  <2>7. s.ok => Clean(s.db)
    BY <1>9, <2>4 DEF Clean, PendingInv, SqlKinds
  <2> QED BY <1>1, <1>9, <2>2, <2>4, <2>5, <2>6, <2>7
<1>10. CASE kind = "db2" /\ ~ d.in_transaction
  <2>1. r = Succeeds(d)
    BY <1>10 DEF EndWith, Db2End, SqlKinds
  <2>2. r \in Outcomes /\ r.db = d /\ r.ok
    BY <1>0, <2>1, OutcomeFields
  <2> QED BY <1>0, <1>10, <2>2 DEF Ended
<1> QED BY <1>3, <1>4, <1>5, <1>6, <1>7, <1>8, <1>9, <1>10, TransactionAssumption
        DEF SqlKinds, DriverKinds, ImplicitKinds

-------------------------------------------------------------------------------
(* The steps                                                               *)

\* Work pending in a state of the invariant belongs to the unhandled object, to one whose end
\* failed for good or to none.
LEMMA OthersWork ==
  ASSUME ScopeInv, NEW u \in Objects, ~ Unhandled(u), ~ EndFailed(u)
  PROVE  Work(u) \cap db.pending = {}
BY TransactionAssumption DEF ScopeInv, Work

\* Ending the transaction of the unhandled object t, by commit(), by rollback() or by the
\* destructor: the hypotheses say what the three do to the object.
LEMMA EndStep ==
  ASSUME IInv, NEW t \in Objects, Unhandled(t), NEW how \in {"commit", "rollback"},
         NEW r \in EndWith(db, how), db' = r.db, UNCHANGED <<kind, scope, last>>,
         objs' \in [Objects -> ObjectType],
         \A u \in Objects : u # t => objs'[u] = objs[u],
         objs'[t].state # "none",
         ~ r.ok \/ objs[t].threw => objs'[t].threw,
         objs'[t].swallowed => objs'[t].state = "dead",
         Unhandled(t)' => ~ r.ok,
         ~ Unhandled(t)' => r.ok \/ (r.db.up => objs'[t].swallowed),
         how = "commit" => objs'[t].commit # "never",
         how = "rollback" => objs'[t].commit = objs[t].commit,
         how = "commit" /\ objs'[t].commit = "ok"
            => objs'[t].handled /\ r.ok /\ ~ objs[t].threw
  PROVE  IInv'
<1> USE DEF Unhandled
<1>0. /\ TypeOK /\ PendingInv(db) /\ ScopeInv /\ OpenInv /\ WholeInv
      /\ CommittedIsDurable /\ LeavesNoTransaction /\ PriorWorkStays
      /\ AutocommitOffUntilHandled
  BY DEF IInv
<1>1. kind \in Kinds /\ scope \in [Writes -> Objects \cup {Outside, NotYet}] /\ db \in DbType
      /\ db.durable \subseteq Writes /\ db.pending \subseteq Writes
      /\ objs \in [Objects -> ObjectType]
  BY <1>0 DEF TypeOK, DbType
<1>2. /\ r \in Outcomes /\ PendingInv(r.db) /\ Ended(db, how, r)
      /\ r.ok /\ (kind = "db2" => db.in_transaction) /\ kind \notin ImplicitKinds
            => Clean(r.db)
      /\ r.ok /\ (kind = "firebird" => db.trhp) /\ (kind = "db2" => db.in_transaction) => db.up
      /\ kind = "odbc" /\ ~ r.ok /\ r.db.up => r.db.autocommit = db.autocommit
  BY <1>0, <1>1, EndOutcome
<1>3. PendingInv(db)'
  BY <1>2 DEF PendingInv
<1>4. TypeOK'
  BY <1>0, <1>1, <1>3 DEF TypeOK, PendingInv
<1>5. \A u \in Objects : Work(u)' = Work(u)
  BY DEF Work
<1>6. /\ \A u \in Objects : EndFailed(u) => EndFailed(u)'
      /\ \A u \in Objects : u # t => (EndFailed(u)' <=> EndFailed(u))
      /\ kind = "db2" /\ ~ r.ok => EndFailed(t)'
      /\ t = last /\ \A u \in Objects : Unhandled(u) => u = t
  <2>1. ~ objs[t].swallowed /\ t = last /\ \A u \in Objects : Unhandled(u) => u = last
    BY <1>0 DEF ScopeInv
  <2>2. EndFailed(t) => EndFailed(t)'
    BY <2>1 DEF EndFailed
  <2>3. \A u \in Objects : u # t => (EndFailed(u)' <=> EndFailed(u))
    BY DEF EndFailed
  <2>4. kind = "db2" /\ ~ r.ok => EndFailed(t)'
    BY DEF EndFailed
  <2> QED BY <2>1, <2>2, <2>3, <2>4
<1>7. \/ db'.durable = db.durable /\ db'.pending \in {db.pending, {}}
      \/ /\ how = "commit" \/ EndFailed(t)'
         /\ db'.durable = db.durable \cup db.pending /\ db'.pending = {}
  BY <1>2, <1>6 DEF Ended
<1>8. ~ Unhandled(t)' => db'.pending = {} \/ EndFailed(t)'
  <2> SUFFICES ASSUME ~ Unhandled(t)', ~ EndFailed(t)' PROVE db'.pending = {}
    OBVIOUS
  <2>1. ~ objs'[t].swallowed /\ (kind = "db2" => ~ objs'[t].threw)
    BY DEF EndFailed
  <2>2. CASE ~ r.ok
    <3>1. ~ r.db.up
      BY <2>1, <2>2
    <3> QED BY <1>2, <3>1 DEF PendingInv
  <2>3. CASE r.ok
    <3>1. kind = "db2" => db.in_transaction
      BY <1>0, <2>1 DEF OpenInv
    <3> QED BY <1>2, <2>3, <3>1 DEF Ended
  <2> QED BY <2>2, <2>3
<1>9. ScopeInv'
  <2>1. (\A u \in Objects : Unhandled(u) => u = last)'
    BY <1>6
  <2>2. (\A w \in db.pending :
          \/ scope[w] = Outside
          \/ scope[w] \in Objects /\ (Unhandled(scope[w]) \/ EndFailed(scope[w])))'
    <3> SUFFICES ASSUME NEW w \in db'.pending, scope[w] # Outside
                 PROVE  /\ scope[w] \in Objects
                        /\ Unhandled(scope[w])' \/ EndFailed(scope[w])'
      OBVIOUS
    <3>1. w \in db.pending
      BY <1>7
    <3>2. scope[w] \in Objects /\ (Unhandled(scope[w]) \/ EndFailed(scope[w]))
      BY <1>0, <3>1 DEF ScopeInv
    <3>3. CASE EndFailed(scope[w])
      BY <1>6, <3>2, <3>3
    <3>4. CASE Unhandled(scope[w])
      <4>1. scope[w] = t
        BY <1>6, <3>2, <3>4
      <4> QED BY <1>8, <3>2, <4>1
    <3> QED BY <3>2, <3>3, <3>4
  <2>3. (\A w \in db.durable : scope[w] # NotYet)'
    BY <1>0, <1>1, <1>7, TransactionAssumption DEF ScopeInv
  <2>4. (\A u \in Objects :
          /\ objs[u].state = "none" => /\ Work(u) = {} /\ ~ objs[u].handled
                                       /\ objs[u].commit = "never" /\ ~ objs[u].threw
          /\ objs[u].swallowed => objs[u].state = "dead"
          /\ objs[u].commit = "ok" => objs[u].handled)'
    BY <1>0, <1>5 DEF ScopeInv
  <2> QED BY <2>1, <2>2, <2>3, <2>4 DEF ScopeInv
<1>10. OpenInv'
  BY <1>0 DEF OpenInv, ScopeInv
<1>11. WholeInv'
  <2> SUFFICES ASSUME NEW u \in Objects
               PROVE  \/ Work(u) \subseteq db'.pending
                      \/ Work(u) \cap (db'.pending \cup db'.durable) = {}
                      \/ /\ Work(u) \subseteq db'.durable
                         /\ objs'[u].commit # "never" \/ EndFailed(u)'
    BY <1>5 DEF WholeInv
  <2>1. \/ Work(u) \subseteq db.pending
        \/ Work(u) \cap (db.pending \cup db.durable) = {}
        \/ Work(u) \subseteq db.durable /\ (objs[u].commit # "never" \/ EndFailed(u))
    BY <1>0 DEF WholeInv
  <2>2. db.durable \cap db.pending = {}
    BY <1>0 DEF TypeOK
  <2>3. CASE u # t
    <3>1. Work(u) \cap db.pending = {} \/ EndFailed(u)'
      BY <1>0, <1>6, <2>3, OthersWork
    <3>2. objs'[u].commit = objs[u].commit
      BY <2>3
    <3> QED BY <1>6, <1>7, <2>1, <2>2, <3>1, <3>2
  <2>4. CASE u = t
    <3>1. objs[t].commit # "never" => objs'[t].commit # "never"
      OBVIOUS
    <3>2. how = "commit" => objs'[t].commit # "never"
      OBVIOUS
    <3> QED BY <1>6, <1>7, <2>1, <2>2, <2>4, <3>1, <3>2
  <2> QED BY <2>3, <2>4
<1>12. db.durable \subseteq db'.durable
  BY <1>7
<1>13. CommittedIsDurable'
  <2> SUFFICES ASSUME NEW u \in Objects, objs'[u].commit = "ok"
               PROVE  Work(u) \subseteq db'.durable
    BY <1>5 DEF CommittedIsDurable
  <2>1. CASE objs[u].commit = "ok"
    BY <1>0, <1>12, <2>1 DEF CommittedIsDurable
  <2>2. CASE objs[u].commit # "ok"
    <3>1. u = t /\ how = "commit" /\ r.ok /\ ~ objs[t].threw
      BY <2>2
    <3>2. Work(t) \subseteq db.pending /\ (kind = "db2" => db.in_transaction)
      BY <1>0, <1>2, <3>1 DEF OpenInv
    <3> QED BY <1>2, <3>1, <3>2 DEF Ended
  <2> QED BY <2>1, <2>2
<1>14. LeavesNoTransaction'
  <2> SUFFICES ASSUME db'.up, ~ Unhandled(t)', kind \notin ImplicitKinds, ~ EndFailed(t)'
               PROVE  Clean(r.db)
    BY <1>6 DEF LeavesNoTransaction, Clean
  <2>1. ~ objs'[t].swallowed /\ (kind = "db2" => ~ objs'[t].threw)
    BY DEF EndFailed
  <2>2. r.ok /\ (kind = "db2" => db.in_transaction)
    BY <1>0, <2>1 DEF OpenInv
  <2> QED BY <1>2, <2>2
<1>15. PriorWorkStays'
  BY <1>0, <1>6, <1>12 DEF PriorWorkStays, Work
<1>16. AutocommitOffUntilHandled'
  <2>1. \A u \in Objects : Unhandled(u)' => u = t
    BY <1>6
  <2>2. Ended(db, how, r) /\ (r.db.up => db.up)
    BY <1>2 DEF Ended
  <2> QED BY <1>0, <1>2, <2>1, <2>2 DEF AutocommitOffUntilHandled
<1> QED BY <1>3, <1>4, <1>9, <1>10, <1>11, <1>13, <1>14, <1>15, <1>16 DEF IInv

\* A step that changes neither the objects nor what was executed under them, and after which
\* the connection is lost and what was pending is undone or, when nothing of it belongs to an
\* unhandled object, durable.
LEMMA LostStep ==
  ASSUME IInv, UNCHANGED <<kind, objs, scope, last>>, PendingInv(db)', ~ db'.up,
         db'.pending = {},
         \/ /\ db'.durable = db.durable
            /\ db'.trhp = db.trhp /\ db'.in_transaction = db.in_transaction
         \/ /\ db'.durable \in {db.durable, db.durable \cup db.pending}
            /\ \A t \in Objects : ~ Unhandled(t)
  PROVE  IInv'
<1>0. /\ TypeOK /\ PendingInv(db) /\ ScopeInv /\ OpenInv /\ WholeInv
      /\ CommittedIsDurable /\ PriorWorkStays
  BY DEF IInv
<1>1. kind \in Kinds /\ scope \in [Writes -> Objects \cup {Outside, NotYet}] /\ db \in DbType
      /\ db.durable \subseteq Writes /\ db.pending \subseteq Writes
  BY <1>0 DEF TypeOK, DbType
<1>4. TypeOK'
  BY <1>0 DEF TypeOK, PendingInv
<1>5. \A t \in Objects : /\ Work(t)' = Work(t) /\ (Unhandled(t)' <=> Unhandled(t))
                         /\ EndFailed(t)' <=> EndFailed(t)
  BY DEF Work, Unhandled, EndFailed
<1>6. \A t \in Objects : \/ Unhandled(t) \/ EndFailed(t)
                        \/ Work(t) \cap db.pending = {}
  BY <1>0, OthersWork
<1>7. ScopeInv'
  <2>1. (\A w \in db.durable : scope[w] # NotYet)'
    BY <1>0, TransactionAssumption DEF ScopeInv
  <2> QED BY <1>0, <1>5, <2>1 DEF ScopeInv
<1>8. OpenInv'
  BY <1>0, <1>5 DEF OpenInv
<1>9. WholeInv'
  <2> SUFFICES ASSUME NEW t \in Objects
               PROVE  \/ Work(t) \cap (db'.pending \cup db'.durable) = {}
                      \/ Work(t) \subseteq db'.durable /\ (objs[t].commit # "never" \/ EndFailed(t))
    BY <1>5 DEF WholeInv
  <2>1. \/ Work(t) \subseteq db.pending
        \/ Work(t) \cap (db.pending \cup db.durable) = {}
        \/ Work(t) \subseteq db.durable /\ (objs[t].commit # "never" \/ EndFailed(t))
    BY <1>0 DEF WholeInv
  <2>2. db.durable \cap db.pending = {}
    BY <1>0 DEF TypeOK
  <2>3. CASE db'.durable = db.durable
    BY <2>1, <2>2, <2>3
  <2>4. CASE \A u \in Objects : ~ Unhandled(u)
    BY <1>6, <2>1, <2>2, <2>4
  <2> QED BY <2>3, <2>4
<1>10. CommittedIsDurable'
  BY <1>0, <1>5 DEF CommittedIsDurable
<1>11. LeavesNoTransaction' /\ AutocommitOffUntilHandled'
  BY DEF LeavesNoTransaction, AutocommitOffUntilHandled
<1>12. PriorWorkStays'
  BY <1>0, <1>5 DEF PriorWorkStays, Work
<1> QED BY <1>4, <1>7, <1>8, <1>9, <1>10, <1>11, <1>12 DEF IInv

LEMMA InitIInv == Init => IInv
<1> SUFFICES ASSUME Init PROVE IInv
  OBVIOUS
<1>1. db \in DbType /\ db.durable = {} /\ db.pending = {} /\ db.explicit = FALSE /\ db.trhp = FALSE
      /\ db.in_transaction = FALSE /\ db.up = TRUE /\ (db.autocommit <=> kind # "db2_manual")
  BY DEF Init, DbType
<1>2. kind \in Kinds /\ objs \in [Objects -> ObjectType]
      /\ scope \in [Writes -> Objects \cup {Outside, NotYet}] /\ last \in Objects \cup {NotYet}
  BY DEF Init, ObjectType
<1>3. /\ \A t \in Objects : /\ objs[t].state = "none" /\ objs[t].handled = FALSE
                            /\ objs[t].commit = "never" /\ objs[t].threw = FALSE
                            /\ objs[t].swallowed = FALSE
      /\ \A w \in Writes : scope[w] = NotYet
  BY DEF Init
<1>4. (\A t \in Objects : Work(t) = {}) /\ Work(Outside) = {}
  BY <1>3, TransactionAssumption DEF Work
<1>5. TypeOK
  BY <1>1, <1>2 DEF TypeOK
<1>6. PendingInv(db)
  BY <1>1 DEF PendingInv
<1>7. ScopeInv /\ OpenInv
  BY <1>1, <1>3, <1>4 DEF ScopeInv, OpenInv, Unhandled
<1>8. WholeInv /\ CommittedIsDurable
  BY <1>3, <1>4 DEF WholeInv, CommittedIsDurable
<1>9. LeavesNoTransaction /\ AutocommitOffUntilHandled
  BY <1>1, <1>3 DEF LeavesNoTransaction, AutocommitOffUntilHandled, Unhandled, ImplicitKinds
<1>10. PriorWorkStays
  BY <1>4 DEF PriorWorkStays
<1> QED BY <1>5, <1>6, <1>7, <1>8, <1>9, <1>10 DEF IInv

LEMMA ConstructStep ==
  ASSUME IInv, NEW t \in Objects, Construct(t)
  PROVE  IInv'
<1>0. /\ TypeOK /\ PendingInv(db) /\ ScopeInv /\ OpenInv /\ WholeInv
      /\ CommittedIsDurable /\ LeavesNoTransaction /\ PriorWorkStays
      /\ AutocommitOffUntilHandled
  BY DEF IInv
<1>1. kind \in Kinds /\ scope \in [Writes -> Objects \cup {Outside, NotYet}] /\ db \in DbType
      /\ db.durable \subseteq Writes /\ db.pending \subseteq Writes
      /\ objs \in [Objects -> ObjectType]
  BY <1>0 DEF TypeOK, DbType
<1>2. PICK r \in Begin(db) :
        /\ db' = r.db /\ objs' = IF r.ok THEN [objs EXCEPT ![t].state = "alive"] ELSE objs
        /\ last' = IF r.ok THEN t ELSE last
  BY DEF Construct
<1>3. /\ r \in Outcomes /\ PendingInv(r.db)
      /\ \/ r.db.durable = db.durable /\ r.db.pending \in {db.pending, {}}
         \/ r.db.durable = db.durable \cup db.pending /\ r.db.pending = {}
      /\ r.db.up => db.up
      /\ ~ r.ok /\ r.db.up => r.db = db
      /\ r.ok => /\ kind = "firebird" => r.db.trhp
                 /\ kind = "db2" => r.db.in_transaction
                 /\ kind \in SqlKinds => r.db.explicit
                 /\ kind \in DriverKinds => ~ r.db.autocommit
  BY <1>0, <1>1, BeginOutcome
<1>4. /\ UNCHANGED <<kind, scope>> /\ objs[t].state = "none"
      /\ \A u \in Objects : ~ Unhandled(u)
  BY DEF Construct
<1>5. PendingInv(db)'
  BY <1>2, <1>3, <1>4 DEF PendingInv
<1>6. /\ objs' \in [Objects -> ObjectType]
      /\ \A u \in Objects : u # t => objs'[u] = objs[u]
      /\ objs'[t].handled = objs[t].handled /\ objs'[t].commit = objs[t].commit
      /\ objs'[t].threw = objs[t].threw /\ objs'[t].swallowed = objs[t].swallowed
      /\ r.ok => objs'[t].state = "alive"
      /\ ~ r.ok => objs' = objs
  BY <1>1, <1>2 DEF ObjectType
<1>7. TypeOK'
  BY <1>0, <1>1, <1>2, <1>4, <1>5, <1>6 DEF TypeOK, PendingInv
<1>8. (\A u \in Objects : Work(u)' = Work(u)) /\ Work(Outside)' = Work(Outside)
  BY <1>4 DEF Work
<1>9. /\ Work(t) = {} /\ ~ objs[t].handled /\ objs[t].commit = "never" /\ ~ objs[t].threw
      /\ ~ objs[t].swallowed
  BY <1>0, <1>4 DEF ScopeInv
<1>10. \A u \in Objects : Unhandled(u)' => u = t /\ r.ok
  BY <1>4, <1>6 DEF Unhandled
<1>11. /\ \A u \in Objects : EndFailed(u)' <=> EndFailed(u)
       /\ \A w \in db.pending : \/ scope[w] = Outside
                                \/ scope[w] \in Objects /\ EndFailed(scope[w])
       /\ \A u \in Objects : EndFailed(u) \/ Work(u) \cap db.pending = {}
  <2>1. \A u \in Objects : EndFailed(u)' <=> EndFailed(u)
    BY <1>4, <1>6 DEF EndFailed
  <2> QED BY <1>0, <1>4, <2>1, OthersWork DEF ScopeInv
<1>12. ScopeInv'
  <2>1. (\A w \in db.pending :
          \/ scope[w] = Outside
          \/ scope[w] \in Objects /\ (Unhandled(scope[w]) \/ EndFailed(scope[w])))'
    BY <1>2, <1>3, <1>4, <1>11
  <2>2. (\A w \in db.durable : scope[w] # NotYet)'
    BY <1>0, <1>2, <1>3, <1>4, <1>11, TransactionAssumption DEF ScopeInv
  <2>3. (\A u \in Objects :
          /\ objs[u].state = "none" => /\ Work(u) = {} /\ ~ objs[u].handled
                                       /\ objs[u].commit = "never" /\ ~ objs[u].threw
          /\ objs[u].swallowed => objs[u].state = "dead"
          /\ objs[u].commit = "ok" => objs[u].handled)'
    BY <1>0, <1>6, <1>8, <1>9 DEF ScopeInv
  <2>4. (\A u \in Objects : Unhandled(u) => u = last)'
    BY <1>2, <1>10
  <2> QED BY <2>1, <2>2, <2>3, <2>4 DEF ScopeInv
<1>13. OpenInv'
  BY <1>2, <1>3, <1>4, <1>8, <1>9, <1>10 DEF OpenInv
<1>14. WholeInv'
  <2> SUFFICES ASSUME NEW u \in Objects
               PROVE  \/ Work(u) \subseteq db'.pending
                      \/ Work(u) \cap (db'.pending \cup db'.durable) = {}
                      \/ /\ Work(u) \subseteq db'.durable
                         /\ objs'[u].commit # "never" \/ EndFailed(u)
    BY <1>8, <1>11 DEF WholeInv
  <2>1. \/ Work(u) \subseteq db.pending
        \/ Work(u) \cap (db.pending \cup db.durable) = {}
        \/ Work(u) \subseteq db.durable /\ (objs[u].commit # "never" \/ EndFailed(u))
    BY <1>0 DEF WholeInv
  <2>2. db.durable \cap db.pending = {}
    BY <1>0 DEF TypeOK
  <2>3. objs'[u].commit = objs[u].commit
    BY <1>6
  <2> QED BY <1>2, <1>3, <1>11, <2>1, <2>2, <2>3
<1>15. CommittedIsDurable'
  BY <1>0, <1>2, <1>3, <1>6, <1>8, <1>9 DEF CommittedIsDurable
<1>16. LeavesNoTransaction'
  <2>1. r.ok => Unhandled(t)'
    BY <1>6, <1>9 DEF Unhandled
  <2> QED BY <1>0, <1>2, <1>3, <1>4, <1>11, <2>1 DEF LeavesNoTransaction
<1>17. PriorWorkStays'
  BY <1>0, <1>2, <1>3, <1>4, <1>8, <1>11 DEF PriorWorkStays
<1>18. AutocommitOffUntilHandled'
  BY <1>2, <1>3, <1>4, <1>10 DEF AutocommitOffUntilHandled, DriverKinds
<1> QED BY <1>5, <1>7, <1>12, <1>13, <1>14, <1>15, <1>16, <1>17, <1>18 DEF IInv

LEMMA CallCommitStep ==
  ASSUME IInv, NEW t \in Objects, CallCommit(t)
  PROVE  IInv'
<1>1. /\ objs \in [Objects -> ObjectType] /\ db \in DbType /\ kind \in Kinds /\ PendingInv(db)
  BY DEF IInv, TypeOK
<1>2. PICK r \in EndWith(db, "commit") :
        /\ db' = r.db
        /\ objs' = [objs EXCEPT
             ![t].handled = r.ok,
             ![t].threw = @ \/ ~ r.ok,
             ![t].commit = IF ~ r.ok THEN "threw"
                           ELSE IF objs[t].threw THEN "again" ELSE "ok"]
  BY DEF CallCommit, Commit
<1>3. UNCHANGED <<kind, scope, last>> /\ Unhandled(t)
  BY DEF CallCommit
<1>4. r.ok \in BOOLEAN
  BY <1>1, EndOutcome DEF Outcomes
<1>5. /\ objs' \in [Objects -> ObjectType]
      /\ \A u \in Objects : u # t => objs'[u] = objs[u]
      /\ objs'[t].state = objs[t].state /\ objs'[t].swallowed = objs[t].swallowed
      /\ objs'[t].handled = r.ok
      /\ objs'[t].threw = (objs[t].threw \/ ~ r.ok)
      /\ objs'[t].commit = IF ~ r.ok THEN "threw"
                           ELSE IF objs[t].threw THEN "again" ELSE "ok"
  BY <1>1, <1>2, <1>4 DEF ObjectType
<1>6. objs'[t].state # "none" /\ ~ objs'[t].swallowed
  BY <1>3, <1>5 DEF Unhandled, IInv, ScopeInv
<1>7. (Unhandled(t)' => ~ r.ok) /\ (~ r.ok \/ objs[t].threw => objs'[t].threw)
  BY <1>5 DEF Unhandled
<1>8. ~ Unhandled(t)' => r.ok
  BY <1>3, <1>5 DEF Unhandled
<1>9. /\ objs'[t].commit # "never"
      /\ objs'[t].commit = "ok" => objs'[t].handled /\ r.ok /\ ~ objs[t].threw
  BY <1>4, <1>5
<1> QED BY <1>2, <1>3, <1>5, <1>6, <1>7, <1>8, <1>9, EndStep

LEMMA CallRollbackStep ==
  ASSUME IInv, NEW t \in Objects, CallRollback(t)
  PROVE  IInv'
<1>1. /\ objs \in [Objects -> ObjectType] /\ db \in DbType /\ kind \in Kinds /\ PendingInv(db)
  BY DEF IInv, TypeOK
<1>2. PICK r \in EndWith(db, "rollback") :
        /\ db' = r.db
        /\ objs' = [objs EXCEPT ![t].handled = r.ok, ![t].threw = @ \/ ~ r.ok]
  BY DEF CallRollback, Rollback
<1>3. UNCHANGED <<kind, scope, last>> /\ Unhandled(t)
  BY DEF CallRollback
<1>4. r.ok \in BOOLEAN
  BY <1>1, EndOutcome DEF Outcomes
<1>5. /\ objs' \in [Objects -> ObjectType]
      /\ \A u \in Objects : u # t => objs'[u] = objs[u]
      /\ objs'[t].state = objs[t].state /\ objs'[t].swallowed = objs[t].swallowed
      /\ objs'[t].handled = r.ok
      /\ objs'[t].threw = (objs[t].threw \/ ~ r.ok)
      /\ objs'[t].commit = objs[t].commit
  BY <1>1, <1>2, <1>4 DEF ObjectType
<1>6. objs'[t].state # "none" /\ ~ objs'[t].swallowed
  BY <1>3, <1>5 DEF Unhandled, IInv, ScopeInv
<1>7. (Unhandled(t)' => ~ r.ok) /\ (~ r.ok \/ objs[t].threw => objs'[t].threw)
  BY <1>5 DEF Unhandled
<1>8. ~ Unhandled(t)' => r.ok
  BY <1>3, <1>5 DEF Unhandled
<1> QED BY <1>2, <1>3, <1>5, <1>6, <1>7, <1>8, EndStep

LEMMA DestroyStep ==
  ASSUME IInv, NEW t \in Objects, Destroy(t)
  PROVE  IInv'
<1>1. /\ objs \in [Objects -> ObjectType] /\ UNCHANGED <<kind, scope, last>>
      /\ kind \in Kinds /\ PendingInv(db)
  BY DEF IInv, TypeOK, Destroy
<1>2. CASE ~ objs[t].handled
  <2>1. PICK r \in EndWith(db, "rollback") :
          /\ db' = r.db
          /\ objs' = [objs EXCEPT ![t].state = "dead", ![t].threw = @ \/ ~ r.ok,
                                  ![t].swallowed = ~ r.ok /\ r.db.up]
    BY <1>2 DEF Destroy, Rollback
  <2> DEFINE sw == ~ r.ok /\ r.db.up
             th == objs[t].threw \/ ~ r.ok
  <2>2. Unhandled(t)
    BY <1>2 DEF Unhandled, Destroy
  <2>3. r.ok \in BOOLEAN /\ r.db.up \in BOOLEAN
    BY <1>1, EndOutcome DEF Outcomes, DbType
  <2>4. /\ objs' \in [Objects -> ObjectType]
        /\ \A u \in Objects : u # t => objs'[u] = objs[u]
        /\ objs'[t].state = "dead"
        /\ objs'[t].threw = th
        /\ objs'[t].swallowed = sw
        /\ objs'[t].commit = objs[t].commit
    <3>1. sw \in BOOLEAN /\ th \in BOOLEAN
      OBVIOUS
    <3>2. objs' = [objs EXCEPT ![t].state = "dead", ![t].threw = th,
                               ![t].swallowed = sw]
      BY <2>1
    <3> HIDE DEF sw, th
    <3> DEFINE o == [objs[t] EXCEPT !.state = "dead", !.threw = th, !.swallowed = sw]
    <3>3. objs' = [objs EXCEPT ![t] = o]
      BY <1>1, <3>2
    <3>4. /\ o \in ObjectType /\ o.state = "dead" /\ o.threw = th /\ o.swallowed = sw
          /\ o.commit = objs[t].commit
      BY <1>1, <3>1 DEF ObjectType
    <3> HIDE DEF o
    <3> QED BY <1>1, <3>3, <3>4
  <2>5. ~ Unhandled(t)' /\ objs'[t].state # "none"
    BY <2>4 DEF Unhandled
  <2>6. /\ ~ r.ok \/ objs[t].threw => objs'[t].threw
        /\ r.ok \/ (r.db.up => objs'[t].swallowed)
    BY <2>3, <2>4
  <2> QED BY <1>1, <2>1, <2>2, <2>4, <2>5, <2>6, EndStep
<1>3. CASE objs[t].handled
  <2>0. /\ TypeOK /\ PendingInv(db) /\ ScopeInv /\ OpenInv /\ WholeInv
        /\ CommittedIsDurable /\ LeavesNoTransaction /\ PriorWorkStays
        /\ AutocommitOffUntilHandled
    BY DEF IInv
  <2>1. UNCHANGED db /\ objs' = [objs EXCEPT ![t].state = "dead"] /\ objs[t].state = "alive"
    BY <1>3 DEF Destroy
  <2>2. /\ objs' \in [Objects -> ObjectType]
        /\ \A u \in Objects : u # t => objs'[u] = objs[u]
        /\ objs'[t].state = "dead"
        /\ objs'[t].handled = objs[t].handled
        /\ objs'[t].threw = objs[t].threw
        /\ objs'[t].swallowed = objs[t].swallowed
        /\ objs'[t].commit = objs[t].commit
    BY <1>1, <2>1 DEF ObjectType
  <2>3. \A u \in Objects : /\ Unhandled(u)' <=> Unhandled(u)
                           /\ Work(u)' = Work(u)
                           /\ objs'[u].commit = objs[u].commit
                           /\ objs'[u].threw = objs[u].threw
                           /\ objs'[u].swallowed = objs[u].swallowed
                           /\ objs'[u].handled = objs[u].handled
                           /\ objs'[u].state = "none" => objs[u].state = "none"
                           /\ objs[u].state = "dead" => objs'[u].state = "dead"
    BY <1>1, <1>3, <2>2, <2>1 DEF Unhandled, Work
  <2>4. \A u \in Objects : EndFailed(u)' <=> EndFailed(u)
    BY <1>1, <2>3 DEF EndFailed
  <2>5. PendingInv(db)'
    BY <1>1, <2>0, <2>1 DEF PendingInv
  <2>6. TypeOK'
    BY <1>1, <2>0, <2>1, <2>2 DEF TypeOK
  <2>7. ScopeInv'
    BY <1>1, <2>0, <2>1, <2>3, <2>4 DEF ScopeInv
  <2>8. OpenInv'
    BY <1>1, <2>0, <2>1, <2>3 DEF OpenInv
  <2>9. WholeInv'
    BY <1>1, <2>0, <2>1, <2>3, <2>4 DEF WholeInv
  <2>10. CommittedIsDurable' /\ LeavesNoTransaction' /\ AutocommitOffUntilHandled'
    BY <1>1, <2>0, <2>1, <2>3, <2>4 DEF CommittedIsDurable, LeavesNoTransaction,
                                  AutocommitOffUntilHandled
  <2>11. PriorWorkStays'
    BY <1>1, <2>0, <2>1, <2>3, <2>4 DEF PriorWorkStays, Work
  <2> QED BY <2>5, <2>6, <2>7, <2>8, <2>9, <2>10, <2>11 DEF IInv
<1> QED BY <1>2, <1>3

LEMMA ExecuteStep ==
  ASSUME IInv, NEW w \in Writes, Execute(w)
  PROVE  IInv'
<1> DEFINE in == db.explicit \/ ~ db.autocommit \/ kind \in ImplicitKinds
           here == {t \in Objects : Unhandled(t)}
           who == IF here = {} THEN Outside ELSE CHOOSE t \in here : TRUE
<1>0. /\ TypeOK /\ PendingInv(db) /\ ScopeInv /\ OpenInv /\ WholeInv
      /\ CommittedIsDurable /\ LeavesNoTransaction /\ PriorWorkStays
      /\ AutocommitOffUntilHandled
  BY DEF IInv
<1>1. kind \in Kinds /\ scope \in [Writes -> Objects \cup {Outside, NotYet}] /\ db \in DbType
      /\ db.durable \subseteq Writes /\ db.pending \subseteq Writes
      /\ objs \in [Objects -> ObjectType] /\ db.durable \cap db.pending = {}
  BY <1>0 DEF TypeOK, DbType
<1>2. /\ db.up /\ scope[w] = NotYet /\ UNCHANGED <<kind, objs, last>>
      /\ \A t \in here : ~ objs[t].threw
      /\ scope' = [scope EXCEPT ![w] = who]
      /\ db' = [db EXCEPT !.pending = IF in THEN @ \cup {w} ELSE @,
                          !.durable = IF in THEN @ ELSE @ \cup {w},
                          !.trhp = @ \/ kind = "firebird"]
  BY DEF Execute
<1>3. /\ here = {} => who = Outside
      /\ here # {} => who \in here
  OBVIOUS
<1>4. /\ db' \in DbType
      /\ db'.pending = IF in THEN db.pending \cup {w} ELSE db.pending
      /\ db'.durable = IF in THEN db.durable ELSE db.durable \cup {w}
      /\ db'.trhp = (db.trhp \/ kind = "firebird")
      /\ db'.up = db.up /\ db'.explicit = db.explicit /\ db'.autocommit = db.autocommit
      /\ db'.in_transaction = db.in_transaction
  BY <1>1, <1>2 DEF DbType
<1>5. /\ who # NotYet /\ who \in Objects \cup {Outside}
      /\ scope' \in [Writes -> Objects \cup {Outside, NotYet}]
      /\ scope'[w] = who
      /\ \A v \in Writes : v # w => scope'[v] = scope[v]
  BY <1>1, <1>2, <1>3, TransactionAssumption
<1>6. /\ w \notin db.durable /\ w \notin db.pending
  BY <1>0, <1>2, TransactionAssumption DEF ScopeInv
<1>7. \A u : Work(u)' = IF u = who THEN Work(u) \cup {w} ELSE Work(u) \ {w}
  BY <1>5 DEF Work
<1>8. \A u \in Objects \cup {Outside} : w \notin Work(u)
  BY <1>2, TransactionAssumption DEF Work
<1>9. \A u \in Objects : /\ Unhandled(u)' <=> Unhandled(u)
                         /\ EndFailed(u)' <=> EndFailed(u)
  BY <1>2 DEF Unhandled, EndFailed
<1>10. here # {} => who \in Objects /\ Unhandled(who) /\ ~ objs[who].threw /\ in
  <2> SUFFICES ASSUME here # {} PROVE who \in Objects /\ Unhandled(who) /\ ~ objs[who].threw /\ in
    OBVIOUS
  <2>1. who \in Objects /\ Unhandled(who) /\ ~ objs[who].threw
    BY <1>2, <1>3
  <2>2. in
    BY <1>0, <1>1, <1>2, <2>1, TransactionAssumption
       DEF OpenInv, SqlKinds, DriverKinds, ImplicitKinds
  <2> QED BY <2>1, <2>2
<1>11. here = {} => \A u \in Objects : ~ Unhandled(u)
  OBVIOUS
<1>12. here = {} /\ kind \notin ImplicitKinds /\ (last \in Objects => ~ EndFailed(last))
        => ~ in
  BY <1>0, <1>2, <1>11 DEF LeavesNoTransaction
<1>13. in => \/ kind \in SqlKinds /\ db.explicit
             \/ kind \in DriverKinds /\ ~ db.autocommit
             \/ kind \in ImplicitKinds
  BY <1>0 DEF PendingInv, ImplicitKinds
<1>14. \A u \in Objects : Unhandled(u) => u = who
  BY <1>0, <1>3, <1>10, <1>11 DEF ScopeInv
<1> HIDE DEF here, who, in
<1>15. PendingInv(db)'
  <2>0. kind' = kind /\ db'.up /\ (db'.trhp <=> db.trhp \/ kind = "firebird")
    BY <1>1, <1>2, <1>4 DEF DbType
  <2>2. db'.durable \cap db'.pending = {}
    BY <1>1, <1>4, <1>6
  <2>3. /\ kind \in SqlKinds /\ ~ db'.explicit => db'.pending = {}
        /\ kind \in DriverKinds /\ db'.autocommit => db'.pending = {}
    BY <1>0, <1>4, <1>13 DEF PendingInv, SqlKinds, DriverKinds, ImplicitKinds
  <2>1. PendingInv(db)'
    BY <1>0, <1>4, <2>0, <2>2, <2>3 DEF PendingInv
  <2> QED BY <1>0, <1>2, <1>4, <2>1
<1>16. TypeOK'
  BY <1>0, <1>1, <1>2, <1>5, <1>15 DEF TypeOK, PendingInv
<1>17. ScopeInv'
  <2>1. (\A v \in db.pending :
          \/ scope[v] = Outside
          \/ scope[v] \in Objects /\ (Unhandled(scope[v]) \/ EndFailed(scope[v])))'
    BY <1>0, <1>1, <1>3, <1>4, <1>5, <1>9, <1>10 DEF ScopeInv
  <2>2. (\A v \in db.durable : scope[v] # NotYet)'
    BY <1>0, <1>1, <1>4, <1>5 DEF ScopeInv
  <2>3. (\A u \in Objects :
          /\ objs[u].state = "none" => /\ Work(u) = {} /\ ~ objs[u].handled
                                       /\ objs[u].commit = "never" /\ ~ objs[u].threw
          /\ objs[u].swallowed => objs[u].state = "dead"
          /\ objs[u].commit = "ok" => objs[u].handled)'
    <3>1. \A u \in Objects : objs[u].state = "none" => u # who
      BY <1>3, <1>10, TransactionAssumption DEF Unhandled
    <3> QED BY <1>0, <1>2, <1>7, <3>1 DEF ScopeInv
  <2>4. (\A u \in Objects : Unhandled(u) => u = last)'
    BY <1>0, <1>2, <1>9 DEF ScopeInv
  <2> QED BY <2>1, <2>2, <2>3, <2>4 DEF ScopeInv
<1>18. OpenInv'
  <2> SUFFICES ASSUME NEW u \in Objects, Unhandled(u), ~ objs[u].threw
               PROVE  /\ kind = "firebird" => db'.trhp
                      /\ kind = "db2" => db'.in_transaction
                      /\ db'.up => /\ kind \in SqlKinds => db'.explicit
                                   /\ kind \in DriverKinds => ~ db'.autocommit
                                   /\ Work(u)' \subseteq db'.pending
    BY <1>2, <1>9 DEF OpenInv
  <2>1. u = who /\ in
    BY <1>10, <1>11, <1>14
  <2>2. Work(u)' \subseteq db'.pending
    BY <1>0, <1>2, <1>4, <1>7, <2>1 DEF OpenInv
  <2> QED BY <1>0, <1>4, <2>2 DEF OpenInv
<1>19. WholeInv'
  <2> SUFFICES ASSUME NEW u \in Objects
               PROVE  \/ Work(u)' \subseteq db'.pending
                      \/ Work(u)' \cap (db'.pending \cup db'.durable) = {}
                      \/ /\ Work(u)' \subseteq db'.durable
                         /\ objs[u].commit # "never" \/ EndFailed(u)
    BY <1>2, <1>9 DEF WholeInv
  <2>1. CASE u = who
    <3>1. here # {}
      BY <1>3, <2>1, TransactionAssumption
    <3>2. Work(u) \subseteq db.pending /\ in
      BY <1>0, <1>2, <1>10, <2>1, <3>1 DEF OpenInv
    <3> QED BY <1>4, <1>7, <2>1, <3>2
  <2>2. CASE u # who
    <3>1. Work(u)' = Work(u) /\ w \notin Work(u)
      BY <1>7, <1>8, <2>2
    <3>2. \/ Work(u) \subseteq db.pending
          \/ Work(u) \cap (db.pending \cup db.durable) = {}
          \/ Work(u) \subseteq db.durable /\ (objs[u].commit # "never" \/ EndFailed(u))
      BY <1>0 DEF WholeInv
    <3> QED BY <1>4, <3>1, <3>2
  <2> QED BY <2>1, <2>2
<1>20. CommittedIsDurable'
  <2>1. \A u \in Objects : objs[u].commit = "ok" => u # who
    BY <1>0, <1>3, <1>10, TransactionAssumption DEF ScopeInv, Unhandled
  <2> QED BY <1>0, <1>2, <1>4, <1>7, <2>1 DEF CommittedIsDurable
<1>21. LeavesNoTransaction'
  <2>1. /\ \A u \in Objects : ~ Unhandled(u)
        /\ kind \notin ImplicitKinds /\ (last \in Objects => ~ EndFailed(last))
        => ~ in
    BY <1>10, <1>12
  <2> QED BY <1>0, <1>2, <1>4, <1>9, <2>1 DEF LeavesNoTransaction
<1>22. PriorWorkStays'
  <2>1. who = Outside /\ kind \notin ImplicitKinds /\ (\A u \in Objects : ~ EndFailed(u))
        => ~ in
    BY <1>3, <1>10, <1>12, TransactionAssumption
  <2> QED BY <1>0, <1>2, <1>4, <1>7, <1>9, <2>1 DEF PriorWorkStays
<1>23. AutocommitOffUntilHandled'
  BY <1>0, <1>2, <1>4, <1>9 DEF AutocommitOffUntilHandled
<1> QED BY <1>15, <1>16, <1>17, <1>18, <1>19, <1>20, <1>21, <1>22, <1>23 DEF IInv

LEMMA LoseConnectionStep ==
  ASSUME IInv, LoseConnection
  PROVE  IInv'
<1>1. db \in DbType /\ PendingInv(db)
  BY DEF IInv, TypeOK
<1>2. db' = Lost(db) /\ UNCHANGED <<kind, objs, scope, last>>
  BY DEF LoseConnection
<1>3. PendingInv(Lost(db))
  BY <1>1, EndKeepsPending
<1>4. /\ db'.durable = db.durable /\ db'.pending = {} /\ ~ db'.up
      /\ db'.trhp = db.trhp /\ db'.in_transaction = db.in_transaction
  BY <1>1, <1>2, LostFields
<1>5. PendingInv(db)'
  BY <1>2, <1>3, <1>4 DEF PendingInv
<1> QED BY <1>2, <1>4, <1>5, LostStep

LEMMA EndSessionStep ==
  ASSUME IInv, EndSession
  PROVE  IInv'
<1>1. db \in DbType /\ PendingInv(db) /\ kind \in Kinds
  BY DEF IInv, TypeOK
<1>2. /\ \A t \in Objects : ~ Unhandled(t)
      /\ UNCHANGED <<kind, objs, scope, last>>
  BY DEF EndSession
<1>3. PICK r \in (IF kind = "firebird" THEN FirebirdEnd(db, "commit") ELSE {Succeeds(db)}) :
        db' = Lost(r.db)
  BY DEF EndSession
<1>4. /\ PendingInv(r.db) /\ r.db \in DbType
      /\ r.db.durable \in {db.durable, db.durable \cup db.pending}
  <2>1. CASE kind = "firebird"
    <3>1. r \in EndWith(db, "commit")
      BY <1>3, <2>1 DEF EndWith, SqlKinds
    <3>2. PendingInv(r.db) /\ Ended(db, "commit", r)
      BY <1>1, <3>1, EndOutcome
    <3> QED BY <3>2 DEF PendingInv, Ended
  <2>2. CASE kind # "firebird"
    BY <1>1, <1>3, <2>2, OutcomeFields
  <2> QED BY <2>1, <2>2
<1>5. PendingInv(Lost(r.db))
  BY <1>4, EndKeepsPending
<1>6. /\ db'.durable = r.db.durable /\ db'.pending = {} /\ ~ db'.up
  BY <1>3, <1>4, LostFields
<1>7. PendingInv(db)'
  BY <1>2, <1>3, <1>5, <1>6 DEF PendingInv
<1> QED BY <1>2, <1>4, <1>6, <1>7, LostStep

LEMMA StutterStep ==
  ASSUME IInv, UNCHANGED vars
  PROVE  IInv'
BY DEF IInv, vars, TypeOK, PendingInv, ScopeInv, OpenInv, WholeInv, CommittedIsDurable,
       LeavesNoTransaction, PriorWorkStays, AutocommitOffUntilHandled, Unhandled, EndFailed, Work

-------------------------------------------------------------------------------

\* The inductive invariant, whatever fails and in whatever order the program commits, rolls
\* back, destroys and executes.
THEOREM Inductive == Spec => []IInv
<1>1. IInv /\ [Next]_vars => IInv'
  BY ConstructStep, CallCommitStep, CallRollbackStep, DestroyStep, ExecuteStep,
     LoseConnectionStep, EndSessionStep, StutterStep DEF Next
<1> QED BY InitIInv, <1>1, PTL DEF Spec

\* Each backend uses its own part of the state, and no write is both pending and durable.
THEOREM TypeCorrect == Spec => []TypeOK
<1>1. IInv => TypeOK
  BY DEF IInv
<1> QED BY Inductive, <1>1, PTL

\* What was executed under a transaction object becomes durable as a whole or not at all, for
\* every kind of backend and whatever calls of begin(), commit() and rollback() fail, with the
\* connection up or not; and only after commit() of that object was called, unless its
\* destructor swallowed a rollback() that failed with the connection up or, with DB2, a call
\* of the object threw.
THEOREM DurableAsAWhole == Spec => []AllOrNothing
<1>1. IInv => AllOrNothing
  <2> SUFFICES ASSUME IInv, NEW t \in Objects
               PROVE  \/ Work(t) \cap db.durable = {}
                      \/ /\ objs[t].commit # "never" \/ EndFailed(t)
                         /\ Work(t) \subseteq db.durable
    BY DEF AllOrNothing
  <2>1. db.durable \cap db.pending = {}
    BY DEF IInv, TypeOK
  <2>2. \/ Work(t) \subseteq db.pending
        \/ Work(t) \cap (db.pending \cup db.durable) = {}
        \/ Work(t) \subseteq db.durable /\ (objs[t].commit # "never" \/ EndFailed(t))
    BY DEF IInv, WholeInv
  <2> QED BY <2>1, <2>2
<1> QED BY Inductive, <1>1, PTL

\* When the first call of commit() returned, the work of the object is durable and stays so.
THEOREM CommitIsKept == Spec => []CommittedIsDurable
<1>1. IInv => CommittedIsDurable
  BY DEF IInv
<1> QED BY Inductive, <1>1, PTL

\* When every object is handled or destroyed and the connection is up, no transaction is open,
\* nothing is pending and autocommit is on, unless the end of the last object failed for good:
\* its destructor swallowed a failed rollback() or, with DB2, one of its calls threw.
THEOREM LeavesConnectionClean == Spec => []LeavesNoTransaction
<1>1. IInv => LeavesNoTransaction
  BY DEF IInv
<1> QED BY Inductive, <1>1, PTL

\* No rollback undoes what was executed outside every transaction object, as long as the end
\* of no object failed for good.
THEOREM PriorWorkIsKept == Spec => []PriorWorkStays
<1>1. IInv => PriorWorkStays
  BY DEF IInv
<1> QED BY Inductive, <1>1, PTL

\* Over ODBC autocommit stays off from the construction of a transaction object until it is
\* handled, whatever failed: a retried commit() finds the transaction open.
THEOREM AutocommitStaysOff == Spec => []AutocommitOffUntilHandled
<1>1. IInv => AutocommitOffUntilHandled
  BY DEF IInv
<1> QED BY Inductive, <1>1, PTL

===============================================================================
