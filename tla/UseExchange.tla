----------------------------- MODULE UseExchange -----------------------------
(***************************************************************************)
(* How a use element gives the values of the program's variables to the    *)
(* database: pre_use(), the execution that reads what was bound, and       *)
(* post_use(), in every backend, for single values and for vectors         *)
(* (standard-use-type.cpp and vector-use-type.cpp).  The program changes   *)
(* its variables between the executions, and post_use() is skipped by an   *)
(* execution that throws.                                                  *)
(***************************************************************************)
EXTENDS ExchangeElement

-------------------------------------------------------------------------------
(* The element                                                             *)

IsNull(i) == shape.inds # "none" /\ i \in DOMAIN inds /\ inds[i] = "null"

Nulls(n) == [i \in 1 .. n |-> IsNull(Begin + i)]

\* size() of a vector.
SqliteUseSize == Len(data)
PostgresqlUseSize(e) == RangeSize(e)
MysqlUseSize == Len(data)
OracleUseSize(e) == RangeSize(e)
OdbcUseSize == Len(data)
Db2UseSize == Len(data)
FirebirdUseSize == Len(data)

UseSize(e) ==
    IF ~ shape.bulk THEN 1
    ELSE CASE shape.kind = "sqlite3" -> SqliteUseSize
           [] shape.kind = "postgresql" -> PostgresqlUseSize(e)
           [] shape.kind = "mysql" -> MysqlUseSize
           [] shape.kind = "oracle" -> OracleUseSize(e)
           [] shape.kind = "odbc" -> OdbcUseSize
           [] shape.kind = "db2" -> Db2UseSize
           [] shape.kind = "firebird" -> FirebirdUseSize

\* What the program means to send.
Asked ==
    LET n == IF shape.range THEN end - Begin ELSE Len(data) IN
    [i \in 1 .. n |-> IF IsNull(Begin + i) THEN "NULL" ELSE data[Begin + i]]

-------------------------------------------------------------------------------
(* sqlite3: the columns in useData_                                        *)

\* Mutation of SqliteStandardPreUse: isNull_ is not reset.
SqliteStandardPreUseNullStays(e) ==
    [e EXCEPT !.nulls = << IsNull(1) \/ (e.nulls # <<>> /\ e.nulls[1]) >>,
              !.buf = << data[1] >>]

\* With a null only isNull_ is set.
SqliteStandardPreUse(e) ==
    [e EXCEPT !.nulls = << IsNull(1) >>,
              !.buf = IF IsNull(1) THEN @ ELSE << data[1] >>]

SqliteVectorPreUse(e) ==
    [e EXCEPT !.nulls = Nulls(SqliteUseSize),
              !.buf = [i \in 1 .. SqliteUseSize |-> IF IsNull(i) THEN "NULL" ELSE data[i]]]

\* clean_up(): only the text of a date was allocated.
SqliteCleanUp(e) ==
    IF shape.type = "tm" /\ ~ e.nulls[1] THEN [e EXCEPT !.buf = << "junk" >>] ELSE e

\* The row of useData_ that is bound.
SqliteRead(e, i) == IF e.nulls[i] THEN "NULL" ELSE e.buf[i]

-------------------------------------------------------------------------------
(* postgresql and mysql: text in buffers                                   *)

\* With a null buf_ is left as it is, a null pointer.
PostgresqlStandardPreUse(e) ==
    IF IsNull(1) THEN e ELSE [e EXCEPT !.buf = << data[1] >>]

\* Up to *end_, or the size that the vector had when it was bound.
PostgresqlVectorPreUse(e) ==
    LET vend == IF shape.range THEN end ELSE e.endVar IN
    [e EXCEPT !.buf = @ \o [i \in 1 .. vend - Begin |->
                               IF IsNull(Begin + i) THEN "NULL" ELSE Element(Begin + i)]]

MysqlStandardPreUse(e) ==
    [e EXCEPT !.buf = << IF IsNull(1) THEN "NULL" ELSE data[1] >>]

MysqlVectorPreUse(e) ==
    [e EXCEPT !.buf = @ \o [i \in 1 .. MysqlUseSize |-> IF IsNull(i) THEN "NULL" ELSE data[i]]]

\* clean_up() frees the buffer and forgets it.
BufferFreed(e) == [e EXCEPT !.buf = <<>>]

\* What the statement finds through the address of the buffers.
TextRead(e, i) ==
    IF i <= Len(e.buf) THEN e.buf[i] ELSE IF shape.bulk THEN "junk" ELSE "NULL"

-------------------------------------------------------------------------------
(* oracle                                                                  *)

\* prepare_for_bind(): OCI reads the program's variable itself.
OracleDirect ==
    /\ shape.type \in {"number", "char"}
    /\ shape.bulk \/ ~ shape.readOnly

OracleStandardPreUse(e) ==
    [e EXCEPT !.nulls = << IsNull(1) >>,
              !.buf = IF OracleDirect \/ shape.type = "long" THEN @ ELSE << data[1] >>]

\* The LOB is filled.
OraclePreExec(e) == IF shape.type = "long" THEN [e EXCEPT !.buf = << data[1] >>] ELSE e

\* The lengths of the strings are added to sizes_.
OracleVectorPrepareForBind(e) ==
    LET n == OracleUseSize(e) IN
    IF shape.type = "string"
    THEN [e EXCEPT !.sizes = @ \o SubSeq(data, Begin + 1, Begin + n),
                   !.buf = SubSeq(data, Begin + 1, Begin + n)]
    ELSE e

\* A LOB is filled with the element of the whole vector, not of the range.
OracleVectorPreUse(e) ==
    LET n == OracleUseSize(e) IN
    [OracleVectorPrepareForBind(e) EXCEPT
        !.nulls = Nulls(n),
        !.buf = IF OracleDirect \/ shape.type = "string" THEN @
                ELSE [i \in 1 .. n |-> Element(IF shape.type = "long" THEN i ELSE Begin + i)]]

OracleRead(e, i) ==
    IF e.nulls[i] THEN "NULL"
    ELSE IF OracleDirect THEN Element(Begin + i)
    ELSE IF shape.bulk /\ shape.type = "string" /\ e.sizes[i] # e.buf[i] THEN "junk"
    ELSE e.buf[i]

\* The database writes w to the parameter, also one that was sent as a null: OCI sets
\* indOCIHolder_, and with a NULL leaves the value.
OracleWrite(e, w) ==
    IF w = "nothing" THEN e
    ELSE [e EXCEPT !.nulls = << w = "NULL" >>,
                   !.buf = IF w = "NULL" \/ OracleDirect THEN @ ELSE << w >>]

\* Mutation of OraclePostUse: a string that the database wrote stays in the buffer.
OraclePostUseStringStays(e, gotData) ==
    IF gotData /\ ~ shape.bulk /\ shape.type = "tm" /\ ~ shape.readOnly THEN << e.buf[1] >> ELSE data

\* post_use() after data was got: the variable's new value.
OraclePostUse(e, gotData) ==
    IF gotData /\ ~ shape.bulk /\ shape.type \in {"string", "tm"} /\ ~ shape.readOnly
    THEN << e.buf[1] >> ELSE data

\* A const element that was modified is reported.
OracleRejects(e, gotData) ==
    /\ gotData /\ ~ shape.bulk /\ shape.readOnly /\ shape.type # "long"
    /\ e.buf[1] # data[1]

\* Mutation of OraclePostUseInd: a null that was sent or written is taken for a value.
OraclePostUseIndOk(e, gotData) == IF ~ gotData THEN inds[1] ELSE "ok"

OraclePostUseInd(e, gotData) ==
    IF ~ gotData THEN inds[1] ELSE IF e.nulls[1] THEN "null" ELSE "ok"

-------------------------------------------------------------------------------
(* odbc and db2                                                            *)

\* The driver reads the program's variable itself.
OdbcDirect == shape.type = "number" \/ (shape.type = "bigint" /\ ~ shape.text)

OdbcStandardPrepareForBind(e) ==
    IF OdbcDirect THEN e
    ELSE [e EXCEPT !.buf = << data[1] >>, !.holder = IF shape.type = "tm" THEN @ ELSE "NTS"]

OdbcStandardPreUse(e) == [OdbcStandardPrepareForBind(e) EXCEPT !.nulls = << IsNull(1) >>]

\* The strings and the characters; dates and numbers as text are in pre_use().
OdbcVectorPrepareForBind(e) == IF OdbcDirect THEN e ELSE [e EXCEPT !.buf = data]

OdbcVectorPreUse(e) == [OdbcVectorPrepareForBind(e) EXCEPT !.nulls = Nulls(OdbcUseSize)]

OdbcRead(e, i) ==
    IF e.nulls[i] THEN "NULL" ELSE IF OdbcDirect THEN Element(i) ELSE e.buf[i]

\* post_use(): the null of pre_use() is not in indHolder_.
OdbcPostUseInd(e, gotData) ==
    IF ~ gotData THEN inds[1] ELSE IF e.holder = "0" THEN "ok" ELSE "truncated"

Db2Direct == shape.type \in {"number", "bigint"}

\* A date's buffer takes the place of the program's variable in data.
Db2StandardPrepareForBind(e) ==
    [e EXCEPT !.buf = IF Db2Direct THEN @
                      ELSE << IF e.points = "variable" THEN data[1] ELSE "junk" >>,
              !.points = IF shape.type = "tm" THEN "buffer" ELSE @]

Db2StandardPreUse(e) == [Db2StandardPrepareForBind(e) EXCEPT !.nulls = << IsNull(1) >>]

Db2VectorPrepareForBind(e) == IF Db2Direct THEN e ELSE [e EXCEPT !.buf = data]

Db2VectorPreUse(e) == [Db2VectorPrepareForBind(e) EXCEPT !.nulls = Nulls(Db2UseSize)]

Db2Read(e, i) ==
    IF e.nulls[i] THEN "NULL" ELSE IF Db2Direct THEN Element(i) ELSE e.buf[i]

-------------------------------------------------------------------------------
(* firebird: execute() copies the values, row by row                       *)

FirebirdStandardPreUse(e) == [e EXCEPT !.nulls = << IsNull(1) >>]

\* pre_use() keeps the address of the indicators.
FirebirdVectorPreUse(e) == [e EXCEPT !.nulls = <<>>]

FirebirdStandardExchangeData(e) == IF e.nulls[1] THEN "NULL" ELSE data[1]

FirebirdVectorExchangeData(row) == IF IsNull(row) THEN "NULL" ELSE Element(row)

\* An indicator that is neither i_ok nor i_null throws.
FirebirdRefuses(row) == shape.inds # "none" /\ inds[row] = "truncated"

-------------------------------------------------------------------------------
(* What the backends have in common                                        *)

StandardPreUse(e) ==
    CASE shape.kind = "sqlite3" -> SqliteStandardPreUse(e)
      [] shape.kind = "postgresql" -> PostgresqlStandardPreUse(e)
      [] shape.kind = "mysql" -> MysqlStandardPreUse(e)
      [] shape.kind = "oracle" -> OraclePreExec(OracleStandardPreUse(e))
      [] shape.kind = "odbc" -> OdbcStandardPreUse(e)
      [] shape.kind = "db2" -> Db2StandardPreUse(e)
      [] shape.kind = "firebird" -> FirebirdStandardPreUse(e)

VectorPreUse(e) ==
    CASE shape.kind = "sqlite3" -> SqliteVectorPreUse(e)
      [] shape.kind = "postgresql" -> PostgresqlVectorPreUse(e)
      [] shape.kind = "mysql" -> MysqlVectorPreUse(e)
      [] shape.kind = "oracle" -> OracleVectorPreUse(e)
      [] shape.kind = "odbc" -> OdbcVectorPreUse(e)
      [] shape.kind = "db2" -> Db2VectorPreUse(e)
      [] shape.kind = "firebird" -> FirebirdVectorPreUse(e)

\* prepare_indicators() and the pre_use() of a firebird value throw.
PreUseThrows(e) ==
    \/ shape.bulk /\ shape.kind \in {"oracle", "odbc", "db2"} /\ UseSize(e) = 0
    \/ ~ shape.bulk /\ shape.kind = "firebird" /\ FirebirdRefuses(1)

\* The parameter that the database reads for row i.
Parameter(e, i) ==
    CASE shape.kind = "sqlite3" -> SqliteRead(e, i)
      [] shape.kind \in {"postgresql", "mysql"} -> TextRead(e, i)
      [] shape.kind = "oracle" -> OracleRead(e, i)
      [] shape.kind = "odbc" -> OdbcRead(e, i)
      [] shape.kind = "db2" -> Db2Read(e, i)
      [] shape.kind = "firebird" ->
            IF shape.bulk THEN FirebirdVectorExchangeData(i) ELSE FirebirdStandardExchangeData(e)

\* post_use() of single values; vectors have none.
PostUse(e) ==
    IF shape.bulk THEN e
    ELSE CASE shape.kind \in {"postgresql", "mysql", "odbc", "db2"} -> BufferFreed(e)
           [] shape.kind = "sqlite3" -> SqliteCleanUp(e)
           [] OTHER -> e

PostUseInd(e, gotData) ==
    IF shape.bulk THEN inds
    ELSE CASE shape.kind = "oracle" -> << OraclePostUseInd(e, gotData) >>
           [] shape.kind = "odbc" -> << OdbcPostUseInd(e, gotData) >>
           [] OTHER -> inds

-------------------------------------------------------------------------------
(* statement_impl and the program                                          *)

IndicatorSet ==
    CASE shape.inds = "none" -> {"ok"}
      [] shape.inds = "set" -> {"ok", "truncated"}
      [] shape.inds = "null" -> {"ok", "null"}
      [] shape.inds = "any" -> Indicators

\* The element is bound when the statement is made.
UseInit ==
    /\ shape.dir = "use"
    /\ \E n \in VectorSizes :
          /\ data \in [1 .. n -> Values]
          /\ inds = [i \in 1 .. n |-> "ok"]
          /\ be = Unbound(n)

\* The program gives its variables other values, and its vectors other sizes.
Assign ==
    /\ shape.dir = "use"
    /\ \E n \in NewSizes :
          data' \in [1 .. n -> Values] /\ inds' \in [1 .. n -> IndicatorSet]
    /\ end' \in Ends
    /\ UNCHANGED <<shape, be, last>>

\* pre_use() or uses_size() throws: nothing is executed.
Refused ==
    /\ shape.dir = "use" /\ MayGoOn
    /\ PreUseThrows(be) \/ UseSize(be) = 0
    /\ be' = IF PreUseThrows(be) THEN be ELSE VectorPreUse(be)
    /\ last' = [res |-> "refused", asked |-> Asked, sent |-> <<>>, wrote |-> "nothing"]
    /\ UNCHANGED <<shape, data, inds, end>>

\* The rows that execute() does one after the other, in some backends.
Prepared == IF shape.bulk THEN VectorPreUse(be) ELSE StandardPreUse(be)
Params(e) == [i \in 1 .. UseSize(e) |-> Parameter(e, i)]

\* execute() throws when n of the rows are done, and post_use() is not called.
ExecuteFails(n) ==
    LET e == Prepared IN
    /\ shape.dir = "use" /\ MayGoOn
    /\ ~ PreUseThrows(be) /\ n < UseSize(be)
    /\ shape.bulk /\ shape.kind = "firebird" => \A i \in 1 .. n : ~ FirebirdRefuses(i)
    /\ be' = e
    /\ last' = [res |-> "failed", asked |-> Asked, sent |-> SubSeq(Params(e), 1, n),
                wrote |-> "nothing"]
    /\ UNCHANGED <<shape, data, inds, end>>

\* execute() returns gotData.  With oracle a procedure may write w to the parameter, a value
\* or NULL; the program asks for the exchange then.
Execute(gotData, w) ==
    LET e == Prepared
        written == OracleWrite(e, w)
        rejected == shape.kind = "oracle" /\ OracleRejects(written, gotData)
    IN  /\ shape.dir = "use" /\ MayGoOn
        /\ ~ PreUseThrows(be) /\ UseSize(be) > 0
        /\ shape.bulk /\ shape.kind = "firebird" => \A i \in 1 .. UseSize(be) : ~ FirebirdRefuses(i)
        /\ w # "nothing" => /\ shape.kind = "oracle" /\ ~ shape.bulk /\ gotData
                            /\ shape.type # "long"
        /\ be' = IF rejected THEN written ELSE PostUse(written)
        /\ data' = IF shape.kind # "oracle" \/ rejected THEN data
                   ELSE IF OracleDirect /\ w \in Values THEN << w >>
                   ELSE OraclePostUse(written, gotData)
        /\ inds' = IF rejected \/ shape.inds = "none" THEN inds ELSE PostUseInd(written, gotData)
        /\ last' = [res |-> IF rejected THEN "rejected" ELSE "done",
                    asked |-> Asked, sent |-> Params(e), wrote |-> w]
        /\ UNCHANGED <<shape, end>>

UseNext ==
    \/ Assign
    \/ Refused
    \/ \E n \in 0 .. MaxVector : ExecuteFails(n)
    \/ \E gotData \in BOOLEAN, w \in Values \cup {"NULL", "nothing"} : Execute(gotData, w)

-------------------------------------------------------------------------------
(* Properties                                                              *)

\* However often a statement is executed, and whatever became of the executions before,
\* every row that the database gets is what the variables and the indicators say at
\* that call of execute().
SentIsCurrent ==
    shape.dir = "use" =>
    /\ last.sent = SubSeq(last.asked, 1, Len(last.sent))
    /\ last.res = "done" => last.sent = last.asked

\* A call of execute() neither makes a null of a use element nor takes one away, unless
\* the database writes to it.
NullsKept ==
    [][shape.dir = "use" /\ last' # last /\ last'.wrote = "nothing" =>
          \A i \in DOMAIN inds : (inds[i] = "null") <=> (inds'[i] = "null")]_vars

\* A const element is never modified: when the database writes another value to it,
\* execute() throws.  What the database wrote to another element is in the program's
\* variable, and the indicator, if there is one, says whether it is a null, whether or not
\* the parameter was sent as one; with a NULL the variable keeps its value.
WrittenBack ==
    [][shape.dir = "use" /\ last' # last /\ last'.wrote # "nothing" =>
          /\ data' = IF shape.readOnly \/ last'.wrote = "NULL" THEN data ELSE << last'.wrote >>
          /\ last'.res = "rejected" <=> shape.readOnly /\ last'.wrote \notin {"NULL", data[1]}
          /\ last'.res = "done" /\ shape.inds # "none" =>
                (inds'[1] = "null" <=> last'.wrote = "NULL")]_vars

===============================================================================
