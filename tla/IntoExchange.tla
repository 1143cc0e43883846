----------------------------- MODULE IntoExchange -----------------------------
(***************************************************************************)
(* How an into element gives the rows of a result to the program:          *)
(* define_by_pos(), the fetch that fills what was bound, resize() and      *)
(* post_fetch(), in every backend, for single values and for vectors       *)
(* (standard-into-type.cpp and vector-into-type.cpp).  The statement is    *)
(* executed and fetched from in any order; which rows a result has is      *)
(* the subject of the module Statement, here they are any rows.            *)
(***************************************************************************)
EXTENDS ExchangeElement

\* An element in the middle of a fetch.
Now == [d |-> data, i |-> inds, end |-> end, e |-> be, throws |-> FALSE]

Resized(s, n, fill) == [k \in 1 .. n |-> IF k <= Len(s) THEN s[k] ELSE fill]

\* The first elements of s are overwritten with those of t, where they have a value.
Overlay(s, t) ==
    [k \in DOMAIN s |-> IF k \in DOMAIN t /\ t[k] # "NULL" THEN t[k] ELSE s[k]]

\* The rows are put into the vector.
Copied(d, rows) ==
    [k \in DOMAIN d |->
        IF k - Begin \in DOMAIN rows /\ rows[k - Begin] # "NULL" THEN rows[k - Begin] ELSE d[k]]

\* The indicators of the rows.
Indicated(i, rows) ==
    [k \in DOMAIN i |->
        IF k - Begin \notin DOMAIN rows THEN i[k]
        ELSE IF rows[k - Begin] = "NULL" THEN "null" ELSE "ok"]

HasNull(rows) == \E k \in DOMAIN rows : rows[k] = "NULL"
NullThrows(rows) == shape.inds = "none" /\ HasNull(rows)

\* The rows before the first null.
BeforeNull(rows) ==
    SubSeq(rows, 1, (CHOOSE k \in DOMAIN rows :
                        rows[k] = "NULL" /\ \A j \in 1 .. k - 1 : rows[j] # "NULL") - 1)

\* post_fetch() that goes from row to row and throws at a null without an indicator.
RowByRow(r, rows) ==
    IF NullThrows(rows) THEN [r EXCEPT !.d = Copied(@, BeforeNull(rows)), !.throws = TRUE]
    ELSE [r EXCEPT !.d = Copied(@, rows), !.i = Indicated(@, rows)]

\* post_fetch() that sets the indicators only.
IndicatorsOnly(r, rows) ==
    IF NullThrows(rows) THEN [r EXCEPT !.throws = TRUE]
    ELSE [r EXCEPT !.i = Indicated(@, rows)]

-------------------------------------------------------------------------------
(* Memory that the database's client library fills: oracle, odbc and db2   *)

\* n elements of buf_ and of the vector of indicators are bound.
Buffered(n, size) ==
    [Unbound(n) EXCEPT !.buf = [k \in 1 .. size |-> "junk"],
                       !.lens = [k \in 1 .. size |-> "zero"], !.bound = size]

Lens(rows) == [k \in DOMAIN rows |-> IF rows[k] = "NULL" THEN "null" ELSE "len"]

\* The library writes to the memory that was bound.
Filled(r, rows, direct) ==
    [r EXCEPT !.e.buf = Overlay(@, rows),
              !.e.lens = [k \in DOMAIN @ |-> IF k \in DOMAIN rows THEN Lens(rows)[k] ELSE @[k]],
              !.d = IF direct THEN Copied(@, rows) ELSE @]

\* The rows as the indicators that were bound tell.
AsBound(r, n) ==
    [k \in 1 .. n |-> IF k > Len(r.e.lens) THEN "junk"
                      ELSE IF r.e.lens[k] = "null" THEN "NULL"
                      ELSE r.e.buf[k]]

-------------------------------------------------------------------------------
(* sqlite3, postgresql and mysql: the rows of a result                     *)

SqliteStandardPostFetch(r, rows) == RowByRow(r, rows)
SqliteVectorPostFetch(r, rows) == RowByRow(r, rows)
SqliteResize(r, sz) == [r EXCEPT !.d = Resized(@, sz, "zero")]
SqliteIntoSize(r) == Len(r.d)

PostgresqlStandardPostFetch(r, rows) == RowByRow(r, rows)

\* Mutation of PostgresqlVectorPostFetch: the rows are put at the vector's begin.
PostgresqlVectorPostFetchFromZero(r, rows) ==
    IF NullThrows(rows) THEN RowByRow(r, rows)
    ELSE [r EXCEPT !.d = Overlay(@, rows), !.i = Indicated(@, rows)]

PostgresqlVectorPostFetch(r, rows) == RowByRow(r, rows)

\* With a range of the program's only its end is changed.
PostgresqlResize(r, sz) ==
    IF shape.range THEN [r EXCEPT !.end = Begin + sz]
    ELSE [r EXCEPT !.d = Resized(@, sz, "zero"), !.e.endVar = sz]

PostgresqlIntoSize(r) ==
    IF Len(r.d) # r.e.endVar THEN Len(r.d)
    ELSE IF shape.range THEN r.end - Begin ELSE r.e.endVar

MysqlStandardPostFetch(r, rows) == RowByRow(r, rows)
MysqlVectorPostFetch(r, rows) == RowByRow(r, rows)
MysqlResize(r, sz) == [r EXCEPT !.d = Resized(@, sz, "zero")]
MysqlIntoSize(r) == Len(r.d)

-------------------------------------------------------------------------------
(* oracle                                                                  *)

OracleIntoDirect == shape.type \in {"number", "char"}

OracleStandardDefine == Buffered(1, 1)
OracleVectorDefine(n, size) == Buffered(n, size)

\* A null leaves the value as it is.  Without an indicator the last fetched one is
\* looked at even when nothing was fetched now, unless fetch() is the caller.
OracleStandardPostFetch(r, gotData, fromFetch) ==
    LET row == AsBound(r, 1)
        copied == IF gotData /\ ~ OracleIntoDirect THEN [r EXCEPT !.d = Copied(@, row)] ELSE r
    IN  IF fromFetch /\ ~ gotData THEN copied
        ELSE IF shape.inds = "none" THEN [copied EXCEPT !.throws = HasNull(row)]
        ELSE IF gotData THEN [copied EXCEPT !.i = Indicated(@, row)]
        ELSE copied

\* Without indicators all that were ever bound are looked at.  The LOBs are read into the
\* first elements of the vector.
OracleVectorPostFetch(r, m) ==
    LET rows == AsBound(r, m)
        copied == CASE OracleIntoDirect -> r
                    [] shape.type = "long" -> [r EXCEPT !.d = Overlay(@, rows)]
                    [] OTHER -> [r EXCEPT !.d = Copied(@, rows)]
    IN  IF shape.inds # "none" THEN [copied EXCEPT !.i = Indicated(@, rows)]
        ELSE [copied EXCEPT !.throws = \E k \in DOMAIN r.e.lens : r.e.lens[k] = "null"]

OracleResize(r, sz) ==
    IF shape.range THEN [r EXCEPT !.end = Begin + sz]
    ELSE [r EXCEPT !.d = Resized(@, sz, "zero"), !.e.endVar = sz]

OracleIntoSize(r) ==
    IF Len(r.d) # r.e.endVar THEN Len(r.d)
    ELSE IF shape.range THEN r.end - Begin ELSE r.e.endVar

-------------------------------------------------------------------------------
(* odbc                                                                    *)

OdbcIntoDirect == shape.type = "number" \/ (shape.type = "bigint" /\ ~ shape.text)

OdbcStandardDefine == Buffered(1, 1)

\* Vectors of long strings are fetched row by row, through a buffer for one.
OdbcVectorDefine(n) ==
    [Buffered(n, n) EXCEPT !.buf = IF shape.type = "long" THEN << "junk" >> ELSE @]

OdbcResize(r, sz) ==
    [r EXCEPT !.d = Resized(@, sz, "zero"), !.e.lens = Resized(@, sz, "zero")]

\* Strings that are null become empty.  Of the other types, what is in the buffer is
\* converted for every element; a number in it may not be one.
OdbcDoPostFetchRows(r, n, parses) ==
    CASE OdbcIntoDirect -> r
      [] shape.type \in {"string", "long"} ->
            [r EXCEPT !.d = [k \in DOMAIN @ |-> IF r.e.lens[k] # "len" THEN "zero" ELSE r.e.buf[k]]]
      [] OTHER ->
            [r EXCEPT !.d = [k \in DOMAIN @ |-> r.e.buf[k]],
                      !.throws = shape.text /\ ~ parses /\ \E k \in 1 .. n : r.e.buf[k] = "junk"]

\* rebind_row() for each row, and its value before the next.
OdbcFetchByRows(r, rows) ==
    [r EXCEPT !.d = [k \in DOMAIN @ |->
                        IF k \notin DOMAIN rows THEN @[k]
                        ELSE IF rows[k] = "NULL" THEN "zero"
                        ELSE rows[k]],
              !.e.lens = [k \in DOMAIN @ |-> IF k \in DOMAIN rows THEN Lens(rows)[k] ELSE @[k]]]

\* fetch(): the vectors first get the size asked for.
OdbcVectorFetch(r, rows, n, parses) ==
    LET sized == OdbcResize(r, n) IN
    IF shape.type = "long" THEN OdbcFetchByRows(sized, rows)
    ELSE IF rows = <<>> THEN sized
    ELSE OdbcDoPostFetchRows(Filled(sized, rows, OdbcIntoDirect), n, parses)

\* A 64-bit integer got as text goes to a local variable.
OdbcStandardPostFetch(r) ==
    LET row == AsBound(r, 1) IN
    IF OdbcIntoDirect \/ shape.text THEN IndicatorsOnly(r, row) ELSE RowByRow(r, row)

OdbcVectorPostFetch(r, m) ==
    LET rows == [k \in 1 .. m |-> IF r.e.lens[k] = "null" THEN "NULL" ELSE "junk"] IN
    IndicatorsOnly(r, rows)

OdbcIntoSize(r) == Len(r.d)

-------------------------------------------------------------------------------
(* db2                                                                     *)

Db2IntoDirect == shape.type \in {"number", "bigint"}

Db2StandardDefine == Buffered(1, 1)
Db2VectorDefine(n) == Buffered(n, n)

Db2StandardPostFetch(r) ==
    LET row == AsBound(r, 1) IN
    IF Db2IntoDirect THEN IndicatorsOnly(r, row) ELSE RowByRow(r, row)

\* The indicators are resized like the vector: the new ones are zero, and so are the
\* lengths of the strings.
Db2Resize(r, sz) ==
    [r EXCEPT !.d = Resized(@, sz, "zero"), !.e.lens = Resized(@, sz, "zero")]

Db2VectorPostFetch(r, m) ==
    LET converted ==
            CASE Db2IntoDirect -> r.d
              [] shape.type = "string" ->
                    [k \in DOMAIN r.d |-> IF r.e.lens[k] # "len" THEN "zero" ELSE r.e.buf[k]]
              [] OTHER -> [k \in DOMAIN r.d |-> r.e.buf[k]]
        rows == [k \in 1 .. m |-> IF r.e.lens[k] = "null" THEN "NULL" ELSE "junk"]
    IN  IndicatorsOnly([r EXCEPT !.d = converted], rows)

Db2IntoSize(r) == Len(r.d)

-------------------------------------------------------------------------------
(* firebird: fetch() copies the values, row by row                         *)

FirebirdStandardDefine == Unbound(1)
FirebirdVectorDefine(n) == Unbound(n)

\* Mutation of FirebirdStandardExchange: a null is copied like a value.
FirebirdStandardExchangeNull(r, rows) ==
    [r EXCEPT !.d = Copied(@, rows), !.e.lens = [k \in DOMAIN rows |-> "len"]]

FirebirdStandardExchange(r, rows) ==
    [r EXCEPT !.d = Copied(@, rows), !.e.lens = IF rows = <<>> THEN @ ELSE Lens(rows)]

FirebirdVectorExchange(r, rows) == [r EXCEPT !.d = Copied(@, rows), !.e.lens = Lens(rows)]

FirebirdStandardPostFetch(r) ==
    IndicatorsOnly(r, << IF r.e.lens[1] = "null" THEN "NULL" ELSE "junk" >>)

FirebirdVectorPostFetch(r, m) ==
    IndicatorsOnly(r, [k \in 1 .. m |-> IF r.e.lens[k] = "null" THEN "NULL" ELSE "junk"])

FirebirdResize(r, sz) == [r EXCEPT !.d = Resized(@, sz, "zero")]
FirebirdIntoSize(r) == Len(r.d)

-------------------------------------------------------------------------------
(* What the backends have in common                                        *)

Defined(n, size) ==
    CASE shape.kind = "oracle" -> IF shape.bulk THEN OracleVectorDefine(n, size) ELSE OracleStandardDefine
      [] shape.kind = "odbc" -> IF shape.bulk THEN OdbcVectorDefine(n) ELSE OdbcStandardDefine
      [] shape.kind = "db2" -> IF shape.bulk THEN Db2VectorDefine(n) ELSE Db2StandardDefine
      [] shape.kind = "firebird" -> IF shape.bulk THEN FirebirdVectorDefine(n) ELSE FirebirdStandardDefine
      [] OTHER -> [Unbound(n) EXCEPT !.bound = size]

IntoSize(r) ==
    IF ~ shape.bulk THEN 1
    ELSE CASE shape.kind = "sqlite3" -> SqliteIntoSize(r)
           [] shape.kind = "postgresql" -> PostgresqlIntoSize(r)
           [] shape.kind = "mysql" -> MysqlIntoSize(r)
           [] shape.kind = "oracle" -> OracleIntoSize(r)
           [] shape.kind = "odbc" -> OdbcIntoSize(r)
           [] shape.kind = "db2" -> Db2IntoSize(r)
           [] shape.kind = "firebird" -> FirebirdIntoSize(r)

\* The backend's fetch(n), as far as it touches the element.
BackendFetched(r, rows, n, parses) ==
    CASE shape.kind = "oracle" -> Filled(r, rows, OracleIntoDirect)
      [] shape.kind = "db2" -> Filled(r, rows, Db2IntoDirect)
      [] shape.kind = "odbc" -> IF shape.bulk THEN OdbcVectorFetch(r, rows, n, parses)
                                ELSE Filled(r, rows, OdbcIntoDirect)
      [] shape.kind = "firebird" -> IF shape.bulk THEN FirebirdVectorExchange(r, rows)
                                    ELSE FirebirdStandardExchange(r, rows)
      [] OTHER -> r

BackendResized(r, sz) ==
    CASE shape.kind = "sqlite3" -> SqliteResize(r, sz)
      [] shape.kind = "postgresql" -> PostgresqlResize(r, sz)
      [] shape.kind = "mysql" -> MysqlResize(r, sz)
      [] shape.kind = "oracle" -> OracleResize(r, sz)
      [] shape.kind = "odbc" -> OdbcResize(r, sz)
      [] shape.kind = "db2" -> Db2Resize(r, sz)
      [] shape.kind = "firebird" -> FirebirdResize(r, sz)

\* vector_into_type::resize(): the indicators of a whole vector have its size.
IntoResized(r, sz) ==
    IF ~ shape.bulk THEN r
    ELSE LET s == BackendResized(r, sz)
         IN  [s EXCEPT !.i = IF shape.range THEN @ ELSE Resized(@, sz, "ok")]

StandardPostFetch(r, rows, gotData, fromFetch) ==
    IF shape.kind = "oracle" THEN OracleStandardPostFetch(r, gotData, fromFetch)
    ELSE IF ~ gotData THEN r
    ELSE CASE shape.kind = "sqlite3" -> SqliteStandardPostFetch(r, rows)
           [] shape.kind = "postgresql" -> PostgresqlStandardPostFetch(r, rows)
           [] shape.kind = "mysql" -> MysqlStandardPostFetch(r, rows)
           [] shape.kind = "odbc" -> OdbcStandardPostFetch(r)
           [] shape.kind = "db2" -> Db2StandardPostFetch(r)
           [] shape.kind = "firebird" -> FirebirdStandardPostFetch(r)

VectorPostFetch(r, rows, gotData) ==
    IF ~ gotData THEN r
    ELSE CASE shape.kind = "sqlite3" -> SqliteVectorPostFetch(r, rows)
           [] shape.kind = "postgresql" -> PostgresqlVectorPostFetch(r, rows)
           [] shape.kind = "mysql" -> MysqlVectorPostFetch(r, rows)
           [] shape.kind = "oracle" -> OracleVectorPostFetch(r, Len(rows))
           [] shape.kind = "odbc" -> OdbcVectorPostFetch(r, Len(rows))
           [] shape.kind = "db2" -> Db2VectorPostFetch(r, Len(rows))
           [] shape.kind = "firebird" -> FirebirdVectorPostFetch(r, Len(rows))

-------------------------------------------------------------------------------
(* statement_impl and the program                                          *)

\* The element is defined when the statement is made.
IntoInit ==
    /\ shape.dir = "into"
    /\ \E n \in VectorSizes :
          /\ data = [k \in 1 .. n |-> "zero"]
          /\ inds = [k \in 1 .. n |-> "ok"]
          /\ be = Defined(n, IF shape.range THEN end - Begin ELSE n)

\* The program, done with the rows, changes the size of its vector or of its range.
ResizeVector ==
    /\ shape.dir = "into" /\ shape.bulk /\ MayGoOn
    /\ IF shape.range
       THEN /\ end' \in {m \in Ends : shape.resizes = "any" \/ m - Begin <= be.bound}
            /\ UNCHANGED <<data, inds>>
       ELSE /\ \E n \in NewSizes : /\ data' = Resized(data, n, "zero")
                                  /\ inds' = Resized(inds, n, "ok")
            /\ UNCHANGED end
    /\ last' = NotUsed
    /\ UNCHANGED <<shape, be>>

\* execute() with data exchange, or fetch(): the database gives rows.  Only execute()
\* leaves a vector of one element as it is when there are none.
Fetch(rows, fromFetch, parses) ==
    LET n == IntoSize(Now)
        gotData == rows # <<>>
        fetched == BackendFetched(Now, rows, n, parses)
        sized == IF gotData \/ n > 1 \/ fromFetch THEN IntoResized(fetched, Len(rows)) ELSE fetched
        post == IF fetched.throws THEN fetched
                ELSE IF shape.bulk THEN VectorPostFetch(sized, rows, gotData)
                ELSE StandardPostFetch(sized, rows, gotData, fromFetch)
    IN  /\ shape.dir = "into" /\ MayGoOn
        /\ n > 0 /\ Len(rows) <= n
        /\ fromFetch => n <= be.initial
        /\ ~ parses => shape.text
        /\ data' = post.d
        /\ inds' = post.i
        /\ end' = post.end
        /\ be' = [post.e EXCEPT !.initial = IF fromFetch THEN @ ELSE n]
        /\ last' = [last EXCEPT !.res = IF post.throws THEN "failed" ELSE "done", !.sent = rows]
        /\ UNCHANGED shape

IntoNext ==
    \/ ResizeVector
    \/ \E n \in 0 .. MaxVector, fromFetch, parses \in BOOLEAN :
          \E rows \in [1 .. n -> Values \cup {"NULL"}] : Fetch(rows, fromFetch, parses)

-------------------------------------------------------------------------------
(* Properties                                                              *)

\* After execute() or fetch() every row is in the element that it belongs to, or a null
\* in its indicator, whatever the element's backend holds from earlier rows; without an
\* indicator a null throws, and nothing else does.
FetchedIsRow ==
    shape.dir = "into" =>
    /\ last.res = "failed" <=> NullThrows(last.sent)
    /\ last.res = "done" =>
          \A k \in DOMAIN last.sent : Begin + k <= Len(data) =>
             IF last.sent[k] = "NULL" THEN inds[Begin + k] = "null"
             ELSE data[Begin + k] = last.sent[k] /\ inds[Begin + k] = "ok"

\* The elements of a vector outside the range that is used, and a variable for which
\* there was no row, stay as they were.
OthersKept ==
    [][shape.dir = "into" =>
          \A k \in DOMAIN data \cap DOMAIN data' :
             k - Begin \notin DOMAIN last'.sent => data'[k] = data[k] /\ inds'[k] = inds[k]]_vars

===============================================================================
