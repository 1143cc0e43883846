------------------------------ MODULE Statement ------------------------------
(***************************************************************************)
(* statement_impl::execute() and fetch() (src/core/statement.cpp) over the *)
(* statement backends: sqlite3 steps through the result, postgresql and    *)
(* mysql hold all of it on the client, and firebird, oracle, odbc and db2  *)
(* fetch from a cursor of the server.  A statement is executed again at    *)
(* any time, with or without data exchange, and the program resizes its    *)
(* output vector between the calls.                                        *)
(*                                                                         *)
(* Row i of the result is the number i; 0 is an element the program put    *)
(* into the vector.  The program fetches only after it has executed.       *)
(***************************************************************************)
EXTENDS Integers, Sequences, FiniteSetsExt

CONSTANTS Shapes,    \* statements considered, see ShapeType
          MaxRows,   \* bound on the rows of the result
          MaxSize,   \* bound on the size of the output vector
          MaxCursor  \* bound on currentRow_, which grows with every fetch

\* into: the kind of into elements; use: the number of rows of the use elements
\* (0: none, 1: not vectors); columns: does the query return columns; min: the
\* smallest vector that the program executes with; exchange: does it also execute
\* with data exchange.  odbc_rows is odbc with a column so large that a vector is
\* fetched row by row (fetchVectorByRows_).
ShapeType ==
    [kind : {"sqlite3", "postgresql", "mysql", "firebird", "oracle", "odbc", "odbc_rows", "db2"},
     into : {"none", "value", "row", "vector"},
     use : 0 .. MaxSize, columns : BOOLEAN, min : 1 .. MaxSize, exchange : BOOLEAN]

ASSUME StatementAssumption ==
    /\ MaxRows \in Nat /\ MaxSize \in Nat \ {0} /\ MaxCursor \in Nat
    /\ Shapes \subseteq ShapeType
    \* Several rows of use elements come without into elements here.
    /\ \A s \in Shapes : s.use > 1 => s.into = "none"

VARIABLES
    shape,  \* the statement
    rows,   \* the number of rows of its result
    impl,   \* fields of statement_impl
    be,     \* fields of the statement backend
    vec,    \* the output vector, or <<the value>>
    seen,   \* what the program has read since the last execute()
    last    \* what the last call gave

vars == <<shape, rows, impl, be, vec, seen, last>>

ImplType ==
    [fetchSize : 0 .. MaxSize, initialFetchSize : 0 .. MaxSize,
     alreadyDescribed : BOOLEAN]

\* ready: databaseReady_ of sqlite3, not endOfRowSet_ of firebird, not noData_ of
\* oracle; at: the row the engine is at; cache: dataCache_ of sqlite3, the rows that
\* the last fetch put into the buffers or the vector otherwise; count: rowsFetched_,
\* numRowsFetched_, OCI_ATTR_ROWS_FETCHED.  postgresql and mysql: currentRow_,
\* rowsToConsume_, numberOfRows_ and justDescribed_.  runs counts how often the query
\* was run since execute() was called, overrun tells whether an element beyond the
\* vector's end was written.
BackendType ==
    [ready : BOOLEAN, at : 0 .. MaxRows, cache : Seq(1 .. MaxRows), count : 0 .. MaxSize,
     current : 0 .. MaxCursor + MaxSize, consume : 0 .. MaxSize, number : 0 .. MaxRows,
     justDescribed : BOOLEAN, runs : Nat, overrun : BOOLEAN]

TypeOK ==
    /\ shape \in Shapes /\ rows \in 0 .. MaxRows
    /\ impl \in ImplType
    /\ be \in BackendType
    /\ vec \in Seq(0 .. MaxRows) /\ Len(vec) <= MaxSize
    /\ seen \in Seq(0 .. MaxRows)
    /\ last \in {"prepared", "performed", "data", "end", "noroom", "threw"}

Init ==
    /\ shape \in Shapes
    /\ rows \in IF shape.columns THEN 0 .. MaxRows ELSE {0}
    /\ impl = [fetchSize |-> 1, initialFetchSize |-> 1, alreadyDescribed |-> FALSE]
    /\ be = [ready |-> TRUE, at |-> 0, cache |-> <<>>, count |-> 0, current |-> 0,
             consume |-> 0, number |-> 0, justDescribed |-> FALSE, runs |-> 0, overrun |-> FALSE]
    /\ vec = <<0>>
    /\ seen = <<>>
    /\ last = "prepared"

Stored == shape.kind \in {"postgresql", "mysql"}

Result(b, ok) == [be |-> b, ok |-> ok]  \* ok: ef_success, otherwise ef_no_data

-------------------------------------------------------------------------------
(* The sqlite3 backend                                                     *)

\* load_rowset(): up to n rows into the cache; at the end of the result, less.
LoadRowset(b, n) ==
    LET k == Min({n, rows - b.at}) IN
    IF ~ b.ready THEN Result([b EXCEPT !.cache = <<>>], FALSE)
    ELSE Result([b EXCEPT !.at = @ + k,
                          !.cache = [i \in 1 .. k |-> b.at + i],
                          !.ready = k = n,
                          !.runs = IF b.at = 0 /\ n > 0 THEN @ + 1 ELSE @],
                k = n)

\* Mutation of LoadOne: the last row is taken for the end.
LoadOneEarly(b) ==
    IF ~ b.ready THEN Result(b, FALSE)
    ELSE Result([b EXCEPT !.at = Min({rows, @ + 1}),
                          !.ready = b.at + 1 < rows,
                          !.runs = IF b.at = 0 THEN @ + 1 ELSE @],
                b.at + 1 < rows)

LoadOne(b) ==
    IF ~ b.ready THEN Result(b, FALSE)
    ELSE Result([b EXCEPT !.at = Min({rows, @ + 1}),
                          !.ready = b.at < rows,
                          !.runs = IF b.at = 0 THEN @ + 1 ELSE @],
                b.at < rows)

Sqlite3Fetch(b, n) ==
    IF shape.into = "vector" \/ n = 0 THEN LoadRowset(b, n) ELSE LoadOne(b)

\* Mutation of BindAndExecute: a vector of into elements is not considered.
BindAndExecuteOne(b, n) ==
    IF shape.use = 1 THEN LoadOne(b)
    ELSE Result([b EXCEPT !.ready = FALSE, !.runs = @ + shape.use], FALSE)

\* Several rows of use elements are executed one by one: none returns data here.
BindAndExecute(b, n) ==
    IF shape.use = 1 /\ n # 1 THEN LoadRowset(b, n)
    ELSE IF shape.use = 1 THEN LoadOne(b)
    ELSE Result([b EXCEPT !.ready = FALSE, !.runs = @ + shape.use], FALSE)

\* Mutation of Sqlite3Execute: the statement is not reset.
Sqlite3ExecuteNoReset(b, n) ==
    LET fresh == [b EXCEPT !.ready = TRUE] IN
    IF shape.use > 0 THEN BindAndExecute(fresh, n) ELSE Sqlite3Fetch(fresh, n)

Sqlite3Execute(b, n) ==
    LET fresh == [b EXCEPT !.at = 0, !.ready = TRUE] IN
    IF shape.use > 0 THEN BindAndExecute(fresh, n) ELSE Sqlite3Fetch(fresh, n)

-------------------------------------------------------------------------------
(* The postgresql and mysql backends                                       *)

\* Mutation of MysqlFetch: the last rows are counted as a full vector.
MysqlFetchGreedy(b, n) ==
    LET c == b.current + b.consume IN
    IF b.number = 0 THEN Result(b, FALSE)
    ELSE IF c >= b.number THEN Result([b EXCEPT !.current = c], FALSE)
    ELSE Result([b EXCEPT !.current = c, !.consume = n], c + n <= b.number)

\* Moves the cursor past the rows fetched last; the rows are copied later.
MysqlFetch(b, n) ==
    LET c == b.current + b.consume IN
    IF b.number = 0 THEN Result(b, FALSE)
    ELSE IF c >= b.number THEN Result([b EXCEPT !.current = c], FALSE)
    ELSE Result([b EXCEPT !.current = c, !.consume = Min({n, b.number - c})],
                c + n <= b.number)

\* Runs the query unless it has just been run to describe its columns.
MysqlExecute(b, n) ==
    LET bulk == ~ b.justDescribed /\ shape.use > 1 /\ n > 1
        run == [b EXCEPT !.runs = IF b.justDescribed THEN @
                                  ELSE @ + (IF bulk THEN n ELSE 1),
                         !.justDescribed = FALSE]
        got == [run EXCEPT !.current = 0, !.consume = 0, !.number = rows]
    IN  IF bulk THEN Result(run, FALSE)
        ELSE IF ~ shape.columns THEN Result([run EXCEPT !.number = 0], FALSE)
        ELSE IF n > 0 /\ rows > 0 THEN MysqlFetch(got, n)
        ELSE Result(got, rows > 0)

\* The same steps as in mysql; the loop over the use elements may be a pipeline.
PostgresqlFetch(b, n) == MysqlFetch(b, n)
PostgresqlExecute(b, n) == MysqlExecute(b, n)

-------------------------------------------------------------------------------
(* The firebird and oracle backends                                        *)

\* Up to n rows from the cursor into the vector or the buffers.
Advanced(b, n) ==
    LET k == Min({n, rows - b.at}) IN
    [b EXCEPT !.at = @ + k, !.count = k, !.cache = [i \in 1 .. k |-> b.at + i]]

\* Fewer rows than asked for are the end.  After it nothing is fetched and rowsFetched_
\* stays as it was.
FirebirdFetch(b, n) ==
    LET more == Advanced(b, n) IN
    IF b.ready THEN Result([more EXCEPT !.ready = more.count = n], more.count = n)
    ELSE Result([b EXCEPT !.cache = <<>>], FALSE)

FirebirdExecute(b, n) ==
    LET run == [b EXCEPT !.at = 0, !.ready = shape.columns, !.runs = @ + Max({1, shape.use})] IN
    IF shape.columns /\ n > 0 THEN FirebirdFetch(run, n) ELSE Result(run, shape.columns)

\* After the end the buffers and OCI_ATTR_ROWS_FETCHED stay as they were.
OracleFetch(b, n) ==
    LET more == Advanced(b, n) IN
    IF b.ready THEN Result([more EXCEPT !.ready = more.count = n], more.count = n)
    ELSE Result(b, FALSE)

\* OCIStmtExecute() fetches n rows of a select; any other statement it does n times,
\* and for n = 0 fails with ORA-24333, which is taken for no data.
OracleExecute(b, n) ==
    LET run == [b EXCEPT !.at = 0, !.ready = TRUE, !.count = 0, !.cache = <<>>,
                         !.runs = @ + (IF shape.columns THEN 1 ELSE n)]
    IN  IF shape.columns THEN OracleFetch(run, n)
        ELSE Result([run EXCEPT !.ready = n > 0], n > 0)

-------------------------------------------------------------------------------
(* The odbc and db2 backends                                               *)

\* SQLFetch() of a whole vector succeeds if it gives any row; fetching row by row
\* stops with no data.
OdbcFetch(b, n) ==
    LET more == Advanced(b, n) IN
    Result(more, IF shape.kind = "odbc_rows" THEN more.count = n ELSE more.count > 0)

OdbcExecute(b, n) ==
    LET run == [b EXCEPT !.at = 0, !.runs = @ + Max({1, shape.use})] IN
    IF n > 0 /\ shape.columns THEN OdbcFetch(run, n) ELSE Result(run, TRUE)

Db2Fetch(b, n) == LET more == Advanced(b, n) IN Result(more, more.count > 0)

Db2Execute(b, n) ==
    LET run == [b EXCEPT !.at = 0, !.runs = @ + Max({1, shape.use})] IN
    IF n > 0 /\ shape.columns THEN Db2Fetch(run, n) ELSE Result(run, TRUE)

-------------------------------------------------------------------------------
(* What the backends have in common                                        *)

BackendExecute(b, n) ==
    CASE shape.kind = "sqlite3" -> Sqlite3Execute(b, n)
      [] shape.kind = "mysql" -> MysqlExecute(b, n)
      [] shape.kind = "postgresql" -> PostgresqlExecute(b, n)
      [] shape.kind = "firebird" -> FirebirdExecute(b, n)
      [] shape.kind = "oracle" -> OracleExecute(b, n)
      [] shape.kind = "db2" -> Db2Execute(b, n)
      [] OTHER -> OdbcExecute(b, n)

BackendFetch(b, n) ==
    CASE shape.kind = "sqlite3" -> Sqlite3Fetch(b, n)
      [] shape.kind = "mysql" -> MysqlFetch(b, n)
      [] shape.kind = "postgresql" -> PostgresqlFetch(b, n)
      [] shape.kind = "firebird" -> FirebirdFetch(b, n)
      [] shape.kind = "oracle" -> OracleFetch(b, n)
      [] shape.kind = "db2" -> Db2Fetch(b, n)
      [] OTHER -> OdbcFetch(b, n)

\* get_number_of_rows()
NumberOfRows(b) ==
    CASE Stored -> b.number - b.current
      [] shape.kind = "sqlite3" -> Len(b.cache)
      [] OTHER -> b.count

\* Mutation of PrepareForDescribe: the result is not kept for execute().
PrepareForDescribeForgets(b) == IF Stored THEN MysqlExecute(b, 1).be ELSE b

\* prepare_for_describe()
PrepareForDescribe(b) ==
    IF Stored THEN [MysqlExecute(b, 1).be EXCEPT !.justDescribed = TRUE] ELSE b

\* The rows that post_fetch() of the into elements copies (or, with firebird, that
\* fetch() has copied).
Fetched(b) ==
    IF shape.into = "vector"
    THEN IF Stored THEN [i \in 1 .. b.consume |-> b.current + i] ELSE b.cache
    ELSE << IF Stored THEN b.current + 1 ELSE b.at >>

-------------------------------------------------------------------------------
(* statement_impl                                                          *)

IntosSize == IF shape.into = "none" THEN 0 ELSE Len(vec)

Resized(v, n) ==
    IF shape.into = "vector"
    THEN [i \in 1 .. n |-> IF i <= Len(v) THEN v[i] ELSE 0]
    ELSE v

\* resize_intos(): bound 0 means that there is none.
ResizedIntos(b, bound) ==
    LET n == Max({0, NumberOfRows(b)}) IN
    Resized(vec, IF bound # 0 /\ bound < n THEN bound ELSE n)

\* describe(): does nothing more when there are no columns.
Describe(s) ==
    IF shape.into = "row" /\ ~ s.impl.alreadyDescribed
    THEN [be |-> PrepareForDescribe(s.be),
          impl |-> [s.impl EXCEPT !.alreadyDescribed = shape.columns]]
    ELSE s

\* post_fetch() into a vector that has been given its size.
PostFetch(b, v, gotData) ==
    /\ vec' = IF gotData
              THEN [i \in 1 .. Len(v) |-> IF i <= Len(Fetched(b)) THEN Fetched(b)[i] ELSE v[i]]
              ELSE v
    /\ be' = [b EXCEPT !.overrun = gotData /\ Len(Fetched(b)) > Len(v)]

\* execute(); exchange is withDataExchange.  pre_use() and pre_fetch() of the
\* elements do not change what is modelled.
Execute(exchange) ==
    LET size == IntosSize
        num == IF exchange THEN Max({1, size, shape.use}) ELSE 0
        described == Describe([be |-> [be EXCEPT !.runs = 0],
                               impl |-> [impl EXCEPT !.fetchSize = size,
                                                     !.initialFetchSize = size]])
        r == BackendExecute(described.be, num)
        after == Describe([described EXCEPT !.be = r.be])
        resized == IF r.ok
                   THEN IF num > 0 THEN ResizedIntos(after.be, num) ELSE vec
                   ELSE IF size > 1 THEN ResizedIntos(after.be, 0) ELSE vec
        gotData == IF r.ok THEN num > 0 ELSE size > 1 /\ NumberOfRows(after.be) > 0
    IN  /\ exchange => shape.exchange
        /\ shape.into = "vector" => Len(vec) = 0 \/ Len(vec) >= shape.min
        /\ IF shape.into # "none" /\ size = 0
           THEN /\ last' = "threw"
                /\ impl' = [impl EXCEPT !.initialFetchSize = 0]
                /\ UNCHANGED <<be, vec, seen>>
           ELSE /\ impl' = after.impl
                /\ PostFetch(after.be, resized, gotData /\ num > 0)
                /\ seen' = IF gotData /\ shape.into # "none" THEN vec' ELSE <<>>
                /\ last' = IF gotData THEN "data"
                           ELSE IF exchange THEN "end" ELSE "performed"
        /\ UNCHANGED <<shape, rows>>

Fetch ==
    LET size == IntosSize
        r == BackendFetch(be, size)
        gotData == r.ok \/ (size > 1 /\ NumberOfRows(r.be) > 0)
        resized == IF r.ok THEN ResizedIntos(r.be, size)
                   ELSE IF size > 1 THEN ResizedIntos(r.be, 0) ELSE Resized(vec, 0)
    IN  /\ last # "prepared"
        /\ be.current + be.consume <= MaxCursor
        /\ \/ /\ impl.fetchSize = 0
              /\ vec' = Resized(vec, 0) /\ last' = "end"
              /\ UNCHANGED <<impl, be, seen>>
           \/ /\ impl.fetchSize # 0 /\ size > impl.initialFetchSize
              /\ last' = "threw"
              /\ UNCHANGED <<impl, be, vec, seen>>
           \/ /\ impl.fetchSize # 0 /\ size = 0
              /\ last' = "noroom"
              /\ UNCHANGED <<impl, be, vec, seen>>
           \/ /\ impl.fetchSize # 0 /\ size # 0 /\ size <= impl.initialFetchSize
              /\ impl' = [impl EXCEPT !.fetchSize = IF ~ r.ok /\ size > 1 THEN 0 ELSE size]
              /\ PostFetch(r.be, resized, gotData)
              /\ seen' = IF gotData THEN seen \o vec' ELSE seen
              /\ last' = IF gotData THEN "data" ELSE "end"
        /\ UNCHANGED <<shape, rows>>

\* The program resizes its vector.
ResizeVector(n) ==
    /\ shape.into = "vector"
    /\ vec' = Resized(vec, n)
    /\ UNCHANGED <<shape, rows, impl, be, seen, last>>

Next ==
    \/ \E exchange \in BOOLEAN : Execute(exchange)
    \/ Fetch
    \/ \E n \in 0 .. MaxSize : ResizeVector(n)

Spec == Init /\ [][Next]_vars

-------------------------------------------------------------------------------
(* Properties                                                              *)

\* What the properties ask of a statement: an into(row) has columns; with the backends that
\* fetch from a cursor so have all into elements, which they define on the columns; firebird
\* and oracle do not fill a vector in execute(); and with sqlite3 a vector of one element and
\* a use element do not go together.
Regular(s) ==
    /\ s.into = "row" => s.columns
    /\ s.kind \notin {"sqlite3", "postgresql", "mysql"} => s.columns \/ s.into = "none"
    /\ s.kind \in {"firebird", "oracle"} /\ s.into = "vector" => ~ s.exchange
    /\ s.kind = "sqlite3" /\ s.into = "vector" /\ s.use = 1 => s.min > 1

\* However the vector is resized between the calls, execute() and fetch() give
\* the rows of the result in their order, none twice and none left out.
RowsInOrder == Len(seen) <= rows /\ \A i \in 1 .. Len(seen) : seen[i] = i

\* The end is reported only when every row has been given.
EndIsComplete == last = "end" /\ shape.into # "none" => Len(seen) = rows

\* The into elements are never given more rows than the vector has room for.
NoOverrun == ~ be.overrun

\* When execute() or fetch() says that there is data the program has got rows.
DataHasRows == last = "data" /\ shape.into # "none" => Len(seen) > 0

\* A call of execute() with data exchange runs the query once, or once for each
\* row of the use elements; so do postgresql and mysql without data exchange, for
\* use elements that are not vectors.
RunsOnce ==
    /\ last \in {"data", "end"} /\ shape.into # "none" => be.runs = 1
    /\ last \in {"data", "end"} /\ shape.into = "none" => be.runs <= Max({1, shape.use})
    /\ last = "performed" /\ Stored /\ shape.use <= 1 => be.runs = 1

===============================================================================
