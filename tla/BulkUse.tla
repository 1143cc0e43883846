------------------------------- MODULE BulkUse -------------------------------
(***************************************************************************)
(* The execution of a statement with vectors of use elements: once for     *)
(* each row of the vectors.  sqlite3, firebird and mysql loop over the     *)
(* rows; odbc and oracle give all of them to the database at once;         *)
(* postgresql sends many before it reads the results of any of them, in    *)
(* the pipeline mode of libpq.  When a row fails, the error that the       *)
(* program gets shows the values of that row: statement_impl asks the      *)
(* backend for its number, and dumps the elements of the vectors there.    *)
(*                                                                         *)
(* libpq and the server are modelled from the calls that                   *)
(* backends/postgresql makes.                                              *)
(***************************************************************************)
EXTENDS Integers, Sequences, FiniteSets, FiniteSetsExt

CONSTANTS
    Programs,       \* the backends, and how the program uses them, see ProgramType
    MaxRows,        \* bound on the size of the vectors
    PIPELINE_DEPTH  \* of postgresql

\* again: the program executes the statement again only when it went well, or always;
\* resizes: how it changes the size of the vectors in between; txn: it is in a
\* transaction; loses: the connection may be lost; callback: what failed() of its
\* failover callback answers, if it has one.
ProgramType ==
    [kind : {"postgresql", "sqlite3", "firebird", "mysql", "odbc", "oracle"},
     again : {"done", "always"}, resizes : {"grows", "any"}, txn : BOOLEAN,
     loses : BOOLEAN, callback : {"none", "declines", "retries"}]

ASSUME BulkAssumption ==
    /\ Programs \subseteq ProgramType
    /\ MaxRows \in Nat \ {0}
    /\ PIPELINE_DEPTH \in Nat \ {0, 1}

VARIABLES
    program,
    size,      \* of the vectors
    current,   \* current_row_ or error_row_
    affected,  \* what get_affected_rows() returns
    pc,        \* where execute() is
    at,        \* local variables of execute_bulk()
    conn,      \* session_.conn_, 0 is a null pointer
    guard,     \* conn_ of the pipeline_mode_guard
    link,      \* of each PGconn: what has become of it
    pipe,      \* of each PGconn: it is in the pipeline mode
    out,       \* of each PGconn: the results that PQgetResult() will return
    last       \* the last call of execute()

vars == <<program, size, current, affected, pc, at, conn, guard, link, pipe, out, last>>
libpq == <<conn, guard, link, pipe, out>>

Rows == 0 .. MaxRows - 1
Conns == 1 .. 2

\* cut: the server is gone, but libpq did not notice yet.
LinkType == {"none", "ok", "cut", "bad", "freed"}
\* A null result is "null"; a result that says that the connection failed is "lost".
ResultType == {"ok", "error", "aborted", "null", "sync", "lost"}

LocalType ==
    [pipelined : BOOLEAN, first : 0 .. MaxRows, row : 0 .. MaxRows + 1, error : BOOLEAN,
     errorRow : -1 .. MaxRows]

\* rows: how many there were; ran: those that were executed; failed: the first that the
\* database refused, if one did; dumped: the row whose values the error shows, -1 for
\* none; broken: the server went away before it ended, or libpq could not send.
LastType ==
    [res : {"none", "done", "error", "outOfRange"}, ran : SUBSET Rows,
     failed : Rows \cup {-1}, dumped : Rows \cup {-1}, rows : 0 .. MaxRows,
     broken : BOOLEAN]

TypeOK ==
    /\ program \in Programs
    /\ size \in 1 .. MaxRows
    /\ current \in -1 .. MaxRows
    /\ affected \in -1 .. MaxRows
    /\ pc \in {"idle", "execute", "send", "read", "chunk", "unwind", "drain", "caught", "undefined"}
    /\ at \in LocalType
    /\ conn \in Conns \cup {0} /\ guard \in Conns \cup {0}
    /\ link \in [Conns -> LinkType] /\ pipe \in [Conns -> BOOLEAN]
    /\ out \in [Conns -> Seq(ResultType)]
    /\ last \in LastType

NoLocals == [pipelined |-> FALSE, first |-> 0, row |-> 0, error |-> FALSE, errorRow |-> -1]
Fresh == [res |-> "none", ran |-> {}, failed |-> -1, dumped |-> -1, rows |-> 0, broken |-> FALSE]

Init ==
    /\ program \in Programs
    /\ size \in 1 .. MaxRows
    /\ current = -1 /\ affected = -1
    /\ pc = "idle" /\ at = NoLocals /\ last = Fresh
    /\ conn = 1 /\ guard = 0
    /\ link = [c \in Conns |-> IF c = 1 THEN "ok" ELSE "none"]
    /\ pipe = [c \in Conns |-> FALSE]
    /\ out = [c \in Conns |-> <<>>]

-------------------------------------------------------------------------------
(* statement_impl and the program                                          *)

\* dump_value() reads the element with at().
CanDump(r) == r = -1 \/ r < size

Resize(n) ==
    /\ pc = "idle"
    /\ program.resizes = "grows" => n >= size
    /\ size' = n
    /\ UNCHANGED <<program, current, affected, pc, at, libpq, last>>

Begun == [Fresh EXCEPT !.rows = size, !.broken = IF conn = 0 THEN TRUE ELSE link[conn] # "ok"]

\* pre_use() adds the parameters to the context of the query.  What is thrown there is
\* not a soci_error.
PreUse ==
    /\ pc = "idle"
    /\ program.again = "done" => last.res \in {"none", "done"}
    /\ IF CanDump(current)
       THEN pc' = "execute" /\ last' = Begun
       ELSE pc' = "idle" /\ last' = [Begun EXCEPT !.res = "outOfRange"]
    /\ UNCHANGED <<program, size, current, affected, at, libpq>>

\* rethrow_current_exception_with_context()
Rethrow ==
    /\ pc = "caught"
    /\ pc' = "idle"
    /\ last' = IF CanDump(current) THEN [last EXCEPT !.res = "error", !.dumped = current]
               ELSE [last EXCEPT !.res = "outOfRange"]
    /\ at' = NoLocals
    /\ UNCHANGED <<program, size, current, affected, libpq>>

\* The backend's execute() returned, or threw.
Ended(ok) ==
    IF ok THEN pc' = "idle" /\ at' = NoLocals ELSE pc' = "caught" /\ UNCHANGED at
Outcome(ok, ran, failed) ==
    last' = [last EXCEPT !.res = IF ok THEN "done" ELSE @, !.ran = ran, !.failed = failed]

-------------------------------------------------------------------------------
(* The other backends; refused are the rows that the database refuses      *)

FirstOf(refused) == IF refused = {} THEN size ELSE Min(refused)

\* n rows were executed.  current_row_ is left where the loop was stopped.
Sqlite3BindAndExecute(n) == current' = (IF n < size THEN n ELSE -1) /\ affected' = n

FirebirdExecute(n) == current' = (IF n < size THEN n ELSE -1) /\ affected' = n

\* A bulk operation keeps the count; mysql_affected_rows() is -1 after an error.
MysqlExecute(n) == affected' = (IF n = 0 THEN -1 ELSE n) /\ UNCHANGED current

ExecuteLoop(refused) ==
    LET n == FirstOf(refused) IN
    /\ pc = "execute" /\ program.kind \in {"sqlite3", "firebird", "mysql"}
    /\ CASE program.kind = "sqlite3" -> Sqlite3BindAndExecute(n)
         [] program.kind = "firebird" -> FirebirdExecute(n)
         [] program.kind = "mysql" -> MysqlExecute(n)
    /\ Ended(refused = {})
    /\ Outcome(refused = {}, 0 .. n - 1, IF refused = {} THEN -1 ELSE n)
    /\ UNCHANGED <<program, size, libpq>>

\* Mutation of OdbcExecute: all the rows that were processed are counted.
OdbcExecuteCountsAll(refused, processed) ==
    /\ affected' = processed
    /\ current' = IF refused = {} THEN current ELSE Min(refused)

\* The driver goes on after an error, or it stops there; it can also report a success
\* with information, which resets error_row_.
OdbcExecute(refused, processed) ==
    /\ affected' = processed - Cardinality(refused)
    /\ current' \in IF refused = {} THEN {current, -1} ELSE {Min(refused)}

\* OCI_BATCH_ERRORS: every row is tried.
OracleExecute(refused, processed) ==
    /\ processed = size
    /\ affected' = processed - Cardinality(refused)
    /\ current' = IF refused = {} THEN current ELSE Min(refused)

ExecuteBatch(refused, processed) ==
    /\ pc = "execute" /\ program.kind \in {"odbc", "oracle"}
    /\ refused \subseteq 0 .. processed - 1
    /\ processed < size => processed - 1 \in refused
    /\ IF program.kind = "odbc" THEN OdbcExecute(refused, processed)
       ELSE OracleExecute(refused, processed)
    /\ Ended(refused = {})
    /\ Outcome(refused = {}, (0 .. processed - 1) \ refused,
               IF refused = {} THEN -1 ELSE Min(refused))
    /\ UNCHANGED <<program, size, libpq>>

\* The statement fails as a whole.
ExecuteFails ==
    /\ pc = "execute" /\ program.kind \in {"odbc", "oracle"}
    /\ affected' = 0
    /\ Ended(FALSE)
    /\ Outcome(FALSE, {}, -1)
    /\ UNCHANGED <<program, size, current, libpq>>

-------------------------------------------------------------------------------
(* libpq                                                                   *)

\* The server goes away: what it sent may be lost in part, and the next result is that
\* of the failure.
Cut(k) ==
    /\ program.loses /\ conn # 0 /\ link[conn] = "ok"
    /\ k \in 0 .. Len(out[conn])
    /\ link' = [link EXCEPT ![conn] = "cut"]
    /\ out' = [out EXCEPT ![conn] = IF @ = <<>> THEN @ ELSE SubSeq(@, 1, k) \o << "lost" >>]
    /\ last' = [last EXCEPT !.broken = @ \/ pc # "idle"]
    /\ UNCHANGED <<program, size, current, affected, pc, at, conn, guard, pipe>>

PQstatusBad(c) == IF c = 0 THEN TRUE ELSE link[c] = "bad"

\* A call that sends can fail when the server is gone.
SendFails(c) == IF c = 0 THEN TRUE ELSE link[c] \in {"cut", "bad"}
Sendable(c) == IF c = 0 THEN FALSE ELSE link[c] \in {"ok", "cut"} /\ (pipe[c] \/ out[c] = <<>>)

\* What is to be read after something was sent: nothing comes any more when the
\* connection is cut.
Sent(c, results) ==
    IF link[c] = "ok" THEN out[c] \o results
    ELSE IF out[c] # <<>> /\ out[c][Len(out[c])] = "lost" THEN out[c]
    ELSE Append(out[c], "lost")

\* PQgetResult(): the server flushes only at a synchronization point.
Readable(c) ==
    c # 0 /\ pipe[c] /\ out[c] # <<>> => \E i \in DOMAIN out[c] : out[c][i] \in {"sync", "lost"}
PQgetResult(c) == IF c = 0 THEN "null" ELSE IF out[c] = <<>> THEN "null" ELSE Head(out[c])
Rest(c) == IF out[c] = <<>> \/ Head(out[c]) = "lost" THEN <<>> ELSE Tail(out[c])
LinkAfter(c) == IF PQgetResult(c) = "lost" THEN "bad" ELSE link[c]

Got(c) ==
    IF c = 0 THEN UNCHANGED <<out, link>>
    ELSE out' = [out EXCEPT ![c] = Rest(c)] /\ link' = [link EXCEPT ![c] = LinkAfter(c)]

\* check_for_data() of a result that says that the connection failed: the callback is
\* asked, the connection is freed, and connect() makes another one or throws.
FailoverConn(connects) ==
    IF program.callback # "retries" THEN conn ELSE IF connects THEN 2 ELSE 0

FailoverLink(connects) ==
    IF program.callback # "retries" THEN [link EXCEPT ![conn] = "bad"]
    ELSE IF connects THEN [link EXCEPT ![conn] = "freed", ![2] = "ok"]
    ELSE [link EXCEPT ![conn] = "freed"]

CanConnect(connects) == connects => program.callback = "retries" /\ conn = 1

-------------------------------------------------------------------------------
(* postgresql: execute_bulk()                                              *)

Depth == IF at.pipelined THEN PIPELINE_DEPTH ELSE 1
Last == IF at.first + Depth > size THEN size ELSE at.first + Depth

\* A single row is not sent in a pipeline, and its number is forgotten.
ExecuteSingle(res, connects) ==
    /\ pc = "execute" /\ program.kind = "postgresql" /\ size = 1
    /\ IF SendFails(conn) THEN res = "lost" ELSE res # "lost"
    /\ CanConnect(connects) /\ (connects => res = "lost")
    /\ current' = -1
    /\ affected' = IF res = "ok" THEN 1 ELSE 0
    /\ conn' = IF res = "lost" /\ conn # 0 THEN FailoverConn(connects) ELSE conn
    /\ link' = IF res = "lost" /\ conn # 0 THEN FailoverLink(connects) ELSE link
    /\ Ended(res = "ok")
    /\ Outcome(res = "ok", IF res = "ok" THEN {0} ELSE {}, IF res = "error" THEN 0 ELSE -1)
    /\ UNCHANGED <<program, size, guard, pipe, out>>

\* PQTRANS_INTRANS: a transaction whose last statement did not fail.
EnterPipelineMode(intrans) ==
    /\ pc = "execute" /\ program.kind = "postgresql" /\ size > 1
    /\ intrans => program.txn /\ conn = 1 /\ ~ PQstatusBad(conn)
    /\ at' = [NoLocals EXCEPT !.pipelined = intrans]
    /\ pipe' = IF intrans THEN [pipe EXCEPT ![conn] = TRUE] ELSE pipe
    /\ guard' = IF intrans THEN conn ELSE 0
    /\ current' = 0 /\ affected' = 0
    /\ pc' = "send"
    /\ UNCHANGED <<program, size, conn, link, out, last>>

\* After an error the rows up to the synchronization point are not executed.
SendRow(res) ==
    /\ pc = "send" /\ current # Last
    /\ Sendable(conn)
    /\ res = "aborted" <=> \E i \in DOMAIN out[conn] : out[conn][i] = "error"
    /\ out' = [out EXCEPT ![conn] = Sent(conn, << res, "null" >>)]
    /\ last' = IF link[conn] # "ok" THEN last
               ELSE [last EXCEPT !.ran = IF res = "ok" THEN @ \cup {current} ELSE @,
                                 !.failed = IF res = "error" THEN current ELSE @]
    /\ current' = current + 1
    /\ UNCHANGED <<program, size, affected, pc, at, conn, guard, link, pipe>>

\* libpq can also fail by itself, with rows queued that are not synchronized.
SendRowFails ==
    /\ pc = "send" /\ current # Last
    /\ pc' = "unwind"
    /\ last' = [last EXCEPT !.broken = TRUE]
    /\ UNCHANGED <<program, size, current, affected, at, libpq>>

PipelineSync ==
    /\ pc = "send" /\ current = Last
    /\ at.pipelined => Sendable(conn)
    /\ out' = IF at.pipelined THEN [out EXCEPT ![conn] = Sent(conn, << "sync" >>)] ELSE out
    /\ at' = [at EXCEPT !.row = at.first, !.error = FALSE, !.errorRow = -1]
    /\ pc' = "read"
    /\ UNCHANGED <<program, size, current, affected, conn, guard, link, pipe, last>>

PipelineSyncFails ==
    /\ pc = "send" /\ current = Last
    /\ at.pipelined /\ SendFails(conn)
    /\ pc' = "unwind"
    /\ UNCHANGED <<program, size, current, affected, at, libpq, last>>

\* A null result ends the results of a query; in a pipeline others follow.
ReadNull ==
    /\ pc = "read" /\ Readable(conn) /\ PQgetResult(conn) = "null"
    /\ pc' = IF ~ at.pipelined THEN "chunk" ELSE IF PQstatusBad(conn) THEN "unwind" ELSE "read"
    /\ Got(conn)
    /\ UNCHANGED <<program, size, current, affected, at, conn, guard, pipe, last>>

ReadSync ==
    /\ pc = "read" /\ Readable(conn) /\ PQgetResult(conn) = "sync"
    /\ pc' = "chunk"
    /\ Got(conn)
    /\ UNCHANGED <<program, size, current, affected, at, conn, guard, pipe, last>>

\* The result of a row, which check_for_errors() looks at unless there was an error.
ReadRow(connects) ==
    LET res == PQgetResult(conn)
        fails == ~ at.error /\ res # "ok"
    IN  /\ pc = "read" /\ Readable(conn) /\ res \in {"ok", "error", "aborted", "lost"}
        /\ CanConnect(connects) /\ (connects => fails /\ res = "lost")
        /\ at' = [at EXCEPT !.row = @ + 1,
                            !.error = @ \/ fails,
                            !.errorRow = IF fails THEN at.row ELSE @]
        /\ affected' = IF ~ at.error /\ res = "ok" THEN affected + 1 ELSE affected
        /\ IF fails /\ res = "lost"
           THEN /\ conn' = FailoverConn(connects)
                /\ link' = FailoverLink(connects)
                /\ out' = [out EXCEPT ![conn] = <<>>]
           ELSE Got(conn) /\ UNCHANGED conn
        /\ UNCHANGED <<program, size, current, pc, guard, pipe, last>>

\* Mutation of ChunkFails: current_row_ stays behind the rows that were sent.
ChunkFailsRowStays ==
    /\ pc = "chunk" /\ (at.error \/ at.row # Last)
    /\ pc' = "unwind"
    /\ UNCHANGED <<program, size, current, affected, at, libpq, last>>

\* All the results were read.
ChunkFails ==
    /\ pc = "chunk" /\ (at.error \/ at.row # Last)
    /\ current' = IF at.error THEN at.errorRow ELSE current
    /\ pc' = "unwind"
    /\ UNCHANGED <<program, size, affected, at, libpq, last>>

NextChunk ==
    /\ pc = "chunk" /\ ~ at.error /\ at.row = Last /\ Last < size
    /\ at' = [at EXCEPT !.first = Last]
    /\ current' = Last
    /\ pc' = "send"
    /\ UNCHANGED <<program, size, affected, libpq, last>>

\* guard.leave() throws when results are left unread.
Leave ==
    /\ pc = "chunk" /\ ~ at.error /\ at.row = Last /\ Last = size
    /\ guard' = 0
    /\ IF guard = 0 \/ out[guard] = <<>>
       THEN /\ pipe' = IF guard = 0 THEN pipe ELSE [pipe EXCEPT ![guard] = FALSE]
            /\ current' = -1
            /\ Ended(TRUE)
            /\ last' = [last EXCEPT !.res = "done"]
       ELSE pc' = "unwind" /\ UNCHANGED <<pipe, current, at, last>>
    /\ UNCHANGED <<program, size, affected, conn, link, out>>

\* Mutation of GuardSync: the destructor only reads.
GuardSyncNot(syncs) ==
    /\ pc = "unwind"
    /\ pc' = IF guard = 0 THEN "caught" ELSE "drain"
    /\ UNCHANGED <<program, size, current, affected, at, libpq, last>>

\* Mutation of GuardSync: there is no destructor.
GuardSyncNone(syncs) ==
    /\ pc = "unwind"
    /\ pc' = "caught"
    /\ UNCHANGED <<program, size, current, affected, at, libpq, last>>

\* ~pipeline_mode_guard(): a synchronization point ends the results to be discarded.
GuardSync(syncs) ==
    /\ pc = "unwind"
    /\ pc' = IF guard = 0 THEN "caught"
             ELSE IF link[guard] = "freed" THEN "undefined" ELSE "drain"
    /\ IF pc' = "drain" /\ pipe[guard] /\ syncs
       THEN Sendable(guard) /\ out' = [out EXCEPT ![guard] = Sent(guard, << "sync" >>)]
       ELSE (pc' = "drain" => SendFails(guard)) /\ UNCHANGED out
    /\ UNCHANGED <<program, size, current, affected, at, conn, guard, link, pipe, last>>

GuardDone == pc' = "caught" /\ guard' = 0

\* Results are discarded until the mode can be left.
GuardDrain ==
    /\ pc = "drain" /\ pipe[guard] /\ ~ PQstatusBad(guard) /\ Readable(guard)
    /\ Got(guard)
    /\ IF PQgetResult(guard) = "null" /\ Rest(guard) = <<>>
       THEN GuardDone /\ pipe' = [pipe EXCEPT ![guard] = FALSE]
       ELSE UNCHANGED <<pc, guard, pipe>>
    /\ UNCHANGED <<program, size, current, affected, at, conn, last>>

\* Nothing can be done with a connection that is lost.
GuardGivesUp ==
    /\ pc = "drain" /\ (~ pipe[guard] \/ PQstatusBad(guard))
    /\ GuardDone
    /\ UNCHANGED <<program, size, current, affected, at, conn, link, pipe, out, last>>

-------------------------------------------------------------------------------
(* The specification                                                       *)

Environment ==
    \/ \E n \in 1 .. MaxRows : Resize(n)
    \/ PreUse
    \/ \E k \in 0 .. 2 * MaxRows + 2 : Cut(k)

ExecuteBulk ==
    \/ \E intrans \in BOOLEAN : EnterPipelineMode(intrans)
    \/ \E res \in {"ok", "error", "aborted"} : SendRow(res)
    \/ SendRowFails
    \/ PipelineSync
    \/ PipelineSyncFails
    \/ ReadNull
    \/ ReadSync
    \/ \E connects \in BOOLEAN : ReadRow(connects)
    \/ ChunkFails
    \/ NextChunk
    \/ Leave
    \/ \E syncs \in BOOLEAN : GuardSync(syncs)
    \/ GuardDrain
    \/ GuardGivesUp

Execute ==
    \/ \E refused \in SUBSET (0 .. size - 1) :
          \/ ExecuteLoop(refused)
          \/ \E processed \in 1 .. size : ExecuteBatch(refused, processed)
    \/ ExecuteFails
    \/ \E res \in {"ok", "error", "lost"}, connects \in BOOLEAN : ExecuteSingle(res, connects)
    \/ ExecuteBulk
    \/ Rethrow

Next == Environment \/ Execute

\* A thread that is in execute() runs on: libpq's calls return once the server has
\* answered or the connection is known to be lost.
Spec == Init /\ [][Next]_vars /\ WF_vars(Execute)

-------------------------------------------------------------------------------
(* Properties                                                              *)

\* The vectors do not shrink, and the row of an earlier error is not looked at again: odbc
\* and oracle keep it.  The connection is not replaced while it is in the pipeline mode.
\* Only postgresql has a pipeline and a failover callback.
Usual(p) ==
    /\ p.resizes = "grows"
    /\ p.kind \in {"odbc", "oracle"} => p.again = "done"
    /\ p.kind # "postgresql" => ~ p.txn /\ ~ p.loses
    /\ p.callback = "retries" => ~ p.txn

\* execute() ends, whatever was queued, sent or read when a row failed or the connection
\* was lost: no result is awaited that does not come, and none is asked for for ever.
ExecuteEnds == (pc # "idle") ~> (pc = "idle")

\* After execute(), with or without an error, a connection that works is not left in the
\* pipeline mode and no result of it is unread: the next statement can use it.
ConnectionUsable ==
    pc = "idle" /\ conn # 0 /\ link[conn] = "ok" => ~ pipe[conn] /\ out[conn] = <<>>

\* get_affected_rows() counts the rows that the database executed in this call of
\* execute(), also when one of them failed, as long as all is sent and answered; mysql
\* says -1 when none was executed.
AffectedAreExecuted ==
    pc = "idle" /\ last.res \in {"done", "error"} /\ ~ last.broken
    => affected = Cardinality(last.ran) \/ (affected = -1 /\ last.ran = {})

\* As long as all is sent and answered, the values that an error shows are those of the first
\* row that failed, and a row that failed is never passed over in silence.  Unless the
\* connection was lost, the row to dump is one of the vectors: an error of the database is
\* never replaced by std::out_of_range.
FailedRowShown ==
    /\ last.res = "error" /\ ~ last.broken => last.dumped \in {-1, last.failed}
    /\ last.res = "done" => last.failed = -1 /\ last.ran = 0 .. last.rows - 1
    /\ last.res = "outOfRange" => link[1] # "ok"

===============================================================================
