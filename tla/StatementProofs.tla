---------------------------- MODULE StatementProofs ----------------------------
(***************************************************************************)
(* Proofs about Statement, for results and vectors of any size.  What a    *)
(* backend does for statement_impl is stated once, as a contract (Gives,   *)
(* Performs) that each of them is shown to keep; execute() and fetch() are *)
(* proved from the contract alone.                                         *)
(***************************************************************************)
EXTENDS Statement, SequenceTheorems, TLAPS

Less(a, b) == IF a <= b THEN a ELSE b

\* The backend has run the query and has given c rows of the result.
Ready(b, c) ==
    /\ b \in BackendType /\ ~ b.justDescribed
    /\ c \in 0 .. rows
    /\ Stored => b.number = rows /\ c = Less(rows, b.current + b.consume)
    /\ Stored /\ ~ shape.columns => b.current = 0 /\ b.consume = 0
    /\ ~ Stored => c = b.at
    /\ shape.kind = "sqlite3" => /\ ~ b.ready => c = rows
                                 /\ b.runs = IF b.ready /\ c = 0 THEN 0 ELSE 1
    /\ shape.kind # "sqlite3" => b.runs = 1
    /\ shape.kind \in {"firebird", "oracle"} /\ ~ b.ready => c = rows

\* The number of rows of a fetch before the end would be taken for that of another one.
Stale(b) == shape.kind \in {"firebird", "oracle"} /\ ~ b.ready /\ b.count # 0

\* Asked for n rows after c of them, a backend gives all that are left of these, and a failure is
\* the end.  When it has success, or the end after some rows, the number of rows it tells is right.
Gives(r, n, c) ==
    LET k == Less(n, rows - c) IN
    /\ Ready(r.be, c + k)
    /\ r.be.runs = 1
    /\ r.ok \in BOOLEAN
    /\ r.ok => k >= 1
    /\ ~ r.ok => k < n
    /\ r.ok \/ n = 1 => ~ Stale(r.be)
    /\ NumberOfRows(r.be) \in Int
    /\ shape.into = "vector" /\ r.ok => Less(n, NumberOfRows(r.be)) = k
    /\ shape.into = "vector" /\ ~ r.ok /\ n > 1 => NumberOfRows(r.be) = k \/ (NumberOfRows(r.be) <= 0 /\ k = 0)
    /\ k >= 1 => Len(Fetched(r.be)) = k /\ \A i \in 1 .. k : Fetched(r.be)[i] = c + i

\* Executed without data exchange, it has run the query, or will, and has given nothing.
Performs(r) ==
    /\ Ready(r.be, 0) /\ ~ Stale(r.be)
    /\ r.ok \in BOOLEAN
    /\ r.ok \/ NumberOfRows(r.be) <= 0

-------------------------------------------------------------------------------
(* Numbers                                                                 *)

LEMMA MinOf == ASSUME NEW a \in Int, NEW b \in Int PROVE Min({a, b}) = Less(a, b)
BY DEF Min, Less

LEMMA MaxOf ==
  ASSUME NEW a \in Int, NEW b \in Int
  PROVE  Max({a, b}) \in {a, b} /\ Max({a, b}) >= a /\ Max({a, b}) >= b
BY DEF Max

LEMMA MaxOfThree ==
  ASSUME NEW a \in Int, NEW b \in Int, NEW c \in Int
  PROVE  Max({a, b, c}) \in {a, b, c} /\ Max({a, b, c}) >= a /\ Max({a, b, c}) >= b /\ Max({a, b, c}) >= c
BY DEF Max

\* The rows of one fetch.
LEMMA LeftOver ==
  ASSUME rows \in 0 .. MaxRows, NEW c \in 0 .. rows, NEW n \in 0 .. MaxSize, NEW k, k = Less(n, rows - c)
  PROVE  /\ k \in 0 .. MaxSize /\ k <= n /\ c + k \in 0 .. rows /\ c + k \in 0 .. MaxRows
         /\ k < n => c + k = rows
BY StatementAssumption DEF Less

LEMMA Run ==
  ASSUME NEW k \in Nat, NEW c \in Nat, NEW m \in Nat, c + k <= m, NEW s, s = [i \in 1 .. k |-> c + i]
  PROVE  s \in Seq(1 .. m) /\ Len(s) = k /\ \A i \in 1 .. k : s[i] = c + i
OBVIOUS

LEMMA ResultFields ==
  ASSUME NEW b, NEW ok \in BOOLEAN
  PROVE  Result(b, ok).be = b /\ Result(b, ok).ok \in BOOLEAN /\ (Result(b, ok).ok <=> ok)
BY DEF Result

LEMMA BackendFields ==
  ASSUME NEW b \in BackendType
  PROVE  /\ b.ready \in BOOLEAN /\ b.at \in 0 .. MaxRows /\ b.cache \in Seq(1 .. MaxRows)
         /\ b.count \in 0 .. MaxSize /\ b.current \in 0 .. MaxCursor + MaxSize
         /\ b.consume \in 0 .. MaxSize /\ b.number \in 0 .. MaxRows
         /\ b.justDescribed \in BOOLEAN /\ b.runs \in Nat /\ b.overrun \in BOOLEAN
BY DEF BackendType

-------------------------------------------------------------------------------
(* The backends that fetch from a cursor                                   *)

LEMMA AdvancedFields ==
  ASSUME NEW b \in BackendType, rows \in 0 .. MaxRows, NEW n \in 0 .. MaxSize, b.at <= rows,
         NEW k, k = Less(n, rows - b.at), NEW a, a = Advanced(b, n)
  PROVE  /\ a \in BackendType /\ a.at = b.at + k /\ a.count = k
         /\ Len(a.cache) = k /\ \A i \in 1 .. k : a.cache[i] = b.at + i
         /\ a.ready = b.ready /\ a.runs = b.runs /\ a.justDescribed = b.justDescribed
         /\ a.current = b.current /\ a.consume = b.consume /\ a.number = b.number
         /\ a.overrun = b.overrun
<1> DEFINE s == [i \in 1 .. k |-> b.at + i]
<1>0. b.at \in 0 .. rows /\ b.at \in Nat /\ MaxRows \in Nat /\ rows \in Nat
  BY BackendFields, StatementAssumption
<1>1. /\ k \in 0 .. MaxSize /\ k \in Nat /\ b.at + k \in 0 .. MaxRows /\ b.at + k <= MaxRows
  <2>1. /\ k \in 0 .. MaxSize /\ k <= n /\ b.at + k \in 0 .. rows /\ b.at + k \in 0 .. MaxRows
        /\ k < n => b.at + k = rows
    BY <1>0, LeftOver
  <2> QED BY <2>1, StatementAssumption
<1>2. s \in Seq(1 .. MaxRows) /\ Len(s) = k /\ \A i \in 1 .. k : s[i] = b.at + i
  BY <1>0, <1>1, Run
<1>3. Min({n, rows - b.at}) = k
  <2>1. n \in Int /\ rows - b.at \in Int
    BY <1>0
  <2>2. Min({n, rows - b.at}) = Less(n, rows - b.at)
    BY <2>1, MinOf, Zenon
  <2> QED BY <2>2
<1>4. a = [b EXCEPT !.at = b.at + k, !.count = k, !.cache = s]
  BY <1>3 DEF Advanced
<1> HIDE DEF s
<1> QED BY <1>1, <1>2, <1>4 DEF BackendType

Cursors == {"firebird", "oracle", "odbc", "odbc_rows", "db2"}

LEMMA CursorGives ==
  ASSUME shape.kind \in Cursors, rows \in 0 .. MaxRows, NEW c \in 0 .. rows, NEW n \in 1 .. MaxSize,
         shape.into # "vector" => n = 1,
         NEW k, k = Less(n, rows - c), NEW r,
         r.be \in BackendType, ~ r.be.justDescribed, r.be.runs = 1, r.be.at = c + k, r.be.count = k,
         k >= 1 => Len(r.be.cache) = k /\ \A i \in 1 .. k : r.be.cache[i] = c + i,
         r.ok \in BOOLEAN, r.ok => k >= 1, ~ r.ok => k < n,
         shape.kind \in {"firebird", "oracle"} => (r.ok => r.be.ready) /\ (~ r.be.ready => k < n)
  PROVE  Gives(r, n, c)
<1> USE DEF Cursors
<1>0. ~ Stored /\ shape.kind # "sqlite3"
  BY DEF Stored
<1>1. /\ k \in 0 .. MaxSize /\ k <= n /\ c + k \in 0 .. rows /\ c + k \in 0 .. MaxRows
      /\ k < n => c + k = rows
  BY LeftOver, StatementAssumption
<1>2. Ready(r.be, c + k)
  BY <1>0, <1>1 DEF Ready
<1>3. NumberOfRows(r.be) = k
  BY <1>0 DEF NumberOfRows
<1>4. r.ok \/ n = 1 => ~ Stale(r.be)
  BY <1>1 DEF Stale
<1>5. k >= 1 => Len(Fetched(r.be)) = k /\ \A i \in 1 .. k : Fetched(r.be)[i] = c + i
  <2>1. CASE shape.into = "vector"
    BY <1>0, <2>1 DEF Fetched
  <2>2. CASE shape.into # "vector" /\ k >= 1
    <3>1. Fetched(r.be) = << c + 1 >> /\ k = 1
      BY <1>0, <1>1, <2>2 DEF Fetched
    <3> QED BY <3>1
  <2> QED BY <2>1, <2>2
<1>6. Less(n, k) = k
  BY <1>1 DEF Less
<1> QED BY <1>1, <1>2, <1>3, <1>4, <1>5, <1>6 DEF Gives

LEMMA CursorStart ==
  ASSUME shape.kind \in Cursors, rows \in 0 .. MaxRows, NEW c, NEW b, Ready(b, c), NEW n \in 1 .. MaxSize,
         NEW k, k = Less(n, rows - c), NEW a, a = Advanced(b, n)
  PROVE  /\ b \in BackendType /\ c \in 0 .. rows /\ b.at = c /\ b.runs = 1 /\ ~ b.justDescribed
         /\ a \in BackendType /\ a.at = c + k /\ a.count = k /\ a.runs = 1 /\ ~ a.justDescribed
         /\ a.ready = b.ready /\ k \in 0 .. MaxSize /\ k <= n
         /\ Len(a.cache) = k /\ \A i \in 1 .. k : a.cache[i] = c + i
<1>1. /\ b \in BackendType /\ c \in 0 .. rows /\ b.at = c /\ b.runs = 1 /\ ~ b.justDescribed
  BY DEF Ready, Cursors, Stored
<1>2. n \in 0 .. MaxSize /\ b.at <= rows
  BY <1>1, StatementAssumption
<1>3. /\ a \in BackendType /\ a.at = b.at + k /\ a.count = k
      /\ Len(a.cache) = k /\ \A i \in 1 .. k : a.cache[i] = b.at + i
      /\ a.ready = b.ready /\ a.runs = b.runs /\ a.justDescribed = b.justDescribed
  BY <1>1, <1>2, AdvancedFields
<1>4. k \in 0 .. MaxSize /\ k <= n
  BY <1>1, <1>2, LeftOver
<1> QED BY <1>1, <1>3, <1>4

LEMMA OdbcGives ==
  ASSUME shape.kind \in {"odbc", "odbc_rows", "db2"}, rows \in 0 .. MaxRows,
         NEW c, NEW b, Ready(b, c), NEW n \in 1 .. MaxSize, shape.into # "vector" => n = 1
  PROVE  Gives(OdbcFetch(b, n), n, c) /\ Gives(Db2Fetch(b, n), n, c)
<1> DEFINE k == Less(n, rows - c)
           a == Advanced(b, n)
<1>0. shape.kind \in Cursors /\ shape.kind \notin {"firebird", "oracle"}
  BY DEF Cursors
<1>1. /\ c \in 0 .. rows
      /\ a \in BackendType /\ a.at = c + k /\ a.count = k /\ a.runs = 1 /\ ~ a.justDescribed
      /\ k \in 0 .. MaxSize /\ k <= n
      /\ Len(a.cache) = k /\ \A i \in 1 .. k : a.cache[i] = c + i
  BY <1>0, CursorStart
<1>2. ASSUME NEW r, r.be = a, r.ok \in BOOLEAN, r.ok => k >= 1, ~ r.ok => k < n
      PROVE  Gives(r, n, c)
  BY <1>0, <1>1, <1>2, CursorGives
<1> DEFINE full == a.count = n
           some == a.count > 0
           ok == IF shape.kind = "odbc_rows" THEN full ELSE some
<1>3. OdbcFetch(b, n) = Result(a, ok) /\ Db2Fetch(b, n) = Result(a, some)
  BY DEF OdbcFetch, Db2Fetch
<1>4. full \in BOOLEAN /\ some \in BOOLEAN /\ ok \in BOOLEAN
  <2>1. full \in BOOLEAN /\ some \in BOOLEAN
    OBVIOUS
  <2> HIDE DEF full, some
  <2>2. CASE shape.kind = "odbc_rows"
    BY <2>1, <2>2
  <2>3. CASE shape.kind # "odbc_rows"
    BY <2>1, <2>3
  <2> QED BY <2>2, <2>3
<1> HIDE DEF a, k
<1>5. (ok => k >= 1) /\ (~ ok => k < n) /\ (some => k >= 1) /\ (~ some => k < n)
  BY <1>1, StatementAssumption
<1> HIDE DEF full, some, ok
<1> QED BY <1>2, <1>3, <1>4, <1>5, ResultFields

LEMMA FirebirdGives ==
  ASSUME shape.kind = "firebird", rows \in 0 .. MaxRows, NEW c, NEW b, Ready(b, c), ~ Stale(b),
         NEW n \in 1 .. MaxSize, shape.into # "vector" => n = 1
  PROVE  Gives(FirebirdFetch(b, n), n, c)
<1> DEFINE k == Less(n, rows - c)
           a == Advanced(b, n)
           full == a.count = n
           more == [a EXCEPT !.ready = full]
           same == [b EXCEPT !.cache = <<>>]
<1>0. shape.kind \in Cursors /\ ~ Stored
  BY DEF Cursors, Stored
<1>1. /\ b \in BackendType /\ c \in 0 .. rows /\ b.at = c /\ b.runs = 1 /\ ~ b.justDescribed
      /\ a \in BackendType /\ a.at = c + k /\ a.count = k /\ a.runs = 1 /\ ~ a.justDescribed
      /\ k \in 0 .. MaxSize /\ k <= n
      /\ Len(a.cache) = k /\ \A i \in 1 .. k : a.cache[i] = c + i
  BY <1>0, CursorStart
<1>2. FirebirdFetch(b, n) = IF b.ready THEN Result(more, full) ELSE Result(same, FALSE)
  BY DEF FirebirdFetch
<1>3. CASE b.ready
  <2>0. full \in BOOLEAN /\ (full <=> k = n)
    BY <1>1
  <2> HIDE DEF a, k, full
  <2>1. /\ more \in BackendType /\ more.at = c + k /\ more.count = k /\ more.runs = 1
        /\ ~ more.justDescribed /\ (more.ready <=> full) /\ more.cache = a.cache
    BY <1>1, <2>0 DEF BackendType
  <2> DEFINE r == FirebirdFetch(b, n)
  <2>2. r.be = more /\ r.ok \in BOOLEAN /\ (r.ok <=> full)
    BY <1>2, <1>3, <2>0, ResultFields
  <2> HIDE DEF more, r
  <2>3. (r.ok \in BOOLEAN) /\ (r.ok => k >= 1) /\ (~ r.ok => k < n)
        /\ (r.ok => more.ready) /\ (~ more.ready => k < n)
    BY <1>1, <2>0, <2>1, <2>2, StatementAssumption
  <2>4. Gives(r, n, c)
    BY <1>0, <1>1, <2>1, <2>2, <2>3, CursorGives DEF k
  <2> QED BY <2>4 DEF r
<1>4. CASE ~ b.ready
  <2>1. /\ same \in BackendType /\ same.at = c /\ same.count = b.count /\ same.runs = 1
        /\ ~ same.justDescribed /\ same.ready = b.ready
    BY <1>1, EmptySeq DEF BackendType
  <2>2. c = rows /\ b.count = 0
    BY <1>4 DEF Ready, Stale
  <2>3. k = 0
    BY <1>1, <2>2, StatementAssumption DEF Less
  <2> DEFINE r == FirebirdFetch(b, n)
  <2>4. r.be = same /\ r.ok = FALSE
    BY <1>2, <1>4 DEF Result
  <2> HIDE DEF a, k, same, r
  <2>5. same.at = c + k /\ same.count = k /\ k < n /\ ~ (k >= 1)
    BY <1>1, <2>1, <2>2, <2>3, StatementAssumption
  <2>6. Gives(r, n, c)
    BY <1>0, <1>1, <2>1, <2>4, <2>5, CursorGives DEF k
  <2> QED BY <2>6 DEF r
<1> QED BY <1>1, <1>3, <1>4, BackendFields

LEMMA OracleGives ==
  ASSUME shape.kind = "oracle", rows \in 0 .. MaxRows, NEW c, NEW b, Ready(b, c), ~ Stale(b),
         NEW n \in 1 .. MaxSize, shape.into # "vector" => n = 1
  PROVE  Gives(OracleFetch(b, n), n, c)
<1> DEFINE k == Less(n, rows - c)
           a == Advanced(b, n)
           full == a.count = n
           more == [a EXCEPT !.ready = full]
<1>0. shape.kind \in Cursors /\ ~ Stored
  BY DEF Cursors, Stored
<1>1. /\ b \in BackendType /\ c \in 0 .. rows /\ b.at = c /\ b.runs = 1 /\ ~ b.justDescribed
      /\ a \in BackendType /\ a.at = c + k /\ a.count = k /\ a.runs = 1 /\ ~ a.justDescribed
      /\ k \in 0 .. MaxSize /\ k <= n
      /\ Len(a.cache) = k /\ \A i \in 1 .. k : a.cache[i] = c + i
  BY <1>0, CursorStart
<1>2. OracleFetch(b, n) = IF b.ready THEN Result(more, full) ELSE Result(b, FALSE)
  BY DEF OracleFetch
<1>3. CASE b.ready
  <2>0. full \in BOOLEAN /\ (full <=> k = n)
    BY <1>1
  <2> HIDE DEF a, k, full
  <2>1. /\ more \in BackendType /\ more.at = c + k /\ more.count = k /\ more.runs = 1
        /\ ~ more.justDescribed /\ (more.ready <=> full) /\ more.cache = a.cache
    BY <1>1, <2>0 DEF BackendType
  <2> DEFINE r == OracleFetch(b, n)
  <2>2. r.be = more /\ r.ok \in BOOLEAN /\ (r.ok <=> full)
    BY <1>2, <1>3, <2>0, ResultFields
  <2> HIDE DEF more, r
  <2>3. (r.ok \in BOOLEAN) /\ (r.ok => k >= 1) /\ (~ r.ok => k < n)
        /\ (r.ok => more.ready) /\ (~ more.ready => k < n)
    BY <1>1, <2>0, <2>1, <2>2, StatementAssumption
  <2>4. Gives(r, n, c)
    BY <1>0, <1>1, <2>1, <2>2, <2>3, CursorGives DEF k
  <2> QED BY <2>4 DEF r
<1>4. CASE ~ b.ready
  <2>2. c = rows /\ b.count = 0
    BY <1>4 DEF Ready, Stale
  <2>3. k = 0
    BY <1>1, <2>2, StatementAssumption DEF Less
  <2> DEFINE r == OracleFetch(b, n)
  <2>4. r.be = b /\ r.ok = FALSE
    BY <1>2, <1>4 DEF Result
  <2> HIDE DEF a, k, r
  <2>5. b.at = c + k /\ b.count = k /\ k < n /\ ~ (k >= 1)
    BY <1>1, <2>2, <2>3, StatementAssumption
  <2>6. Gives(r, n, c)
    BY <1>0, <1>1, <2>4, <2>5, CursorGives DEF k
  <2> QED BY <2>6 DEF r
<1> QED BY <1>1, <1>3, <1>4, BackendFields

-------------------------------------------------------------------------------
(* The sqlite3 backend                                                     *)

LEMMA LoadRowsetFields ==
  ASSUME NEW b \in BackendType, b.ready, rows \in 0 .. MaxRows, b.at <= rows, NEW n \in 0 .. MaxSize,
         NEW k, k = Less(n, rows - b.at), NEW r, r = LoadRowset(b, n)
  PROVE  /\ r.be \in BackendType /\ r.be.at = b.at + k /\ (r.be.ready <=> k = n)
         /\ Len(r.be.cache) = k /\ \A i \in 1 .. k : r.be.cache[i] = b.at + i
         /\ r.be.runs = (IF b.at = 0 /\ n > 0 THEN b.runs + 1 ELSE b.runs)
         /\ r.be.justDescribed = b.justDescribed
         /\ r.ok \in BOOLEAN /\ (r.ok <=> k = n)
<1> DEFINE s == [i \in 1 .. k |-> b.at + i]
           full == k = n
           q == IF b.at = 0 /\ n > 0 THEN b.runs + 1 ELSE b.runs
           e == [b EXCEPT !.at = b.at + k, !.cache = s, !.ready = full, !.runs = q]
<1>0. b.at \in 0 .. rows /\ b.at \in Nat /\ MaxRows \in Nat /\ rows \in Nat /\ b.runs \in Nat
  BY BackendFields, StatementAssumption
<1>1. k \in Nat /\ b.at + k \in 0 .. MaxRows /\ b.at + k <= MaxRows
  <2>1. /\ k \in 0 .. MaxSize /\ k <= n /\ b.at + k \in 0 .. rows /\ b.at + k \in 0 .. MaxRows
        /\ k < n => b.at + k = rows
    BY <1>0, LeftOver
  <2> QED BY <2>1, StatementAssumption
<1>2. s \in Seq(1 .. MaxRows) /\ Len(s) = k /\ \A i \in 1 .. k : s[i] = b.at + i
  BY <1>0, <1>1, Run
<1>3. Min({n, rows - b.at}) = k
  <2>1. n \in Int /\ rows - b.at \in Int
    BY <1>0
  <2>2. Min({n, rows - b.at}) = Less(n, rows - b.at)
    BY <2>1, MinOf, Zenon
  <2> QED BY <2>2
<1>4. r = Result(e, full)
  BY <1>3 DEF LoadRowset
<1>5. full \in BOOLEAN /\ q \in Nat
  BY <1>0
<1>6. r.be = e /\ r.ok \in BOOLEAN /\ (r.ok <=> full)
  <2> HIDE DEF e, full
  <2> QED BY <1>4, <1>5, ResultFields
<1>7. /\ e \in BackendType /\ e.at = b.at + k /\ (e.ready <=> full) /\ e.cache = s /\ e.runs = q
      /\ e.justDescribed = b.justDescribed
  <2> HIDE DEF s, full, q
  <2> QED BY <1>1, <1>2, <1>5 DEF BackendType
<1> HIDE DEF e, s
<1> QED BY <1>2, <1>6, <1>7

LEMMA LoadOneFields ==
  ASSUME NEW b \in BackendType, b.ready, rows \in 0 .. MaxRows, b.at <= rows,
         NEW k, k = Less(1, rows - b.at), NEW r, r = LoadOne(b)
  PROVE  /\ r.be \in BackendType /\ r.be.at = b.at + k /\ (r.be.ready <=> k = 1)
         /\ r.be.runs = (IF b.at = 0 THEN b.runs + 1 ELSE b.runs)
         /\ r.be.justDescribed = b.justDescribed
         /\ r.ok \in BOOLEAN /\ (r.ok <=> k = 1)
<1> DEFINE more == b.at < rows
           q == IF b.at = 0 THEN b.runs + 1 ELSE b.runs
           e == [b EXCEPT !.at = b.at + k, !.ready = more, !.runs = q]
<1>0. b.at \in 0 .. rows /\ b.at \in Nat /\ MaxRows \in Nat /\ rows \in Nat /\ b.runs \in Nat
  BY BackendFields, StatementAssumption
<1>1. k \in Nat /\ b.at + k \in 0 .. MaxRows /\ (more <=> k = 1) /\ Less(rows, b.at + 1) = b.at + k
  BY <1>0 DEF Less
<1>3. Min({rows, b.at + 1}) = b.at + k
  <2>1. rows \in Int /\ b.at + 1 \in Int
    BY <1>0
  <2>2. Min({rows, b.at + 1}) = Less(rows, b.at + 1)
    BY <2>1, MinOf, Zenon
  <2> QED BY <1>1, <2>2
<1>4. r = Result(e, more)
  BY <1>3 DEF LoadOne
<1>5. more \in BOOLEAN /\ q \in Nat
  BY <1>0
<1>6. r.be = e /\ r.ok \in BOOLEAN /\ (r.ok <=> more)
  <2> HIDE DEF e, more
  <2> QED BY <1>4, <1>5, ResultFields
<1>7. /\ e \in BackendType /\ e.at = b.at + k /\ (e.ready <=> more) /\ e.runs = q
      /\ e.justDescribed = b.justDescribed
  <2> HIDE DEF more, q
  <2> QED BY <1>1, <1>5 DEF BackendType
<1> HIDE DEF e
<1> QED BY <1>1, <1>6, <1>7

LEMMA Sqlite3Gives ==
  ASSUME shape.kind = "sqlite3", rows \in 0 .. MaxRows, NEW c, NEW b, Ready(b, c),
         NEW n \in 1 .. MaxSize, shape.into # "vector" => n = 1
  PROVE  /\ shape.into = "vector" => Gives(LoadRowset(b, n), n, c)
         /\ shape.into # "vector" => Gives(LoadOne(b), n, c)
         /\ Gives(Sqlite3Fetch(b, n), n, c)
<1> DEFINE k == Less(n, rows - c)
<1>0. ~ Stored /\ shape.kind \notin {"firebird", "oracle"}
  BY DEF Stored
<1>1. /\ b \in BackendType /\ ~ b.justDescribed /\ c \in 0 .. rows /\ c = b.at
      /\ (~ b.ready => c = rows) /\ b.runs = (IF b.ready /\ c = 0 THEN 0 ELSE 1)
      /\ b.ready \in BOOLEAN /\ b.cache \in Seq(1 .. MaxRows)
  BY <1>0, BackendFields DEF Ready
<1>2. /\ k \in 0 .. MaxSize /\ k <= n /\ c + k \in 0 .. rows /\ c + k \in 0 .. MaxRows
      /\ k < n => c + k = rows
  <2>1. n \in 0 .. MaxSize
    BY StatementAssumption
  <2> QED BY <1>1, <2>1, LeftOver
<1>k. (c = rows => k = 0) /\ n \in 0 .. MaxSize /\ b.at <= rows /\ k = Less(n, rows - b.at)
  BY <1>1, StatementAssumption DEF Less
<1> HIDE DEF k
\* What the contract needs of the two functions.
<1>3. ASSUME NEW r, r.be \in BackendType, ~ r.be.justDescribed, r.be.at = c + k, r.be.runs = 1,
             r.be.ready \in BOOLEAN, r.ok \in BOOLEAN, r.ok <=> k = n, r.be.ready <=> k = n,
             shape.into = "vector" => Len(r.be.cache) = k /\ \A i \in 1 .. k : r.be.cache[i] = c + i
      PROVE  Gives(r, n, c)
  <2>1. Ready(r.be, c + k)
    <3>1. r.be.ready /\ c + k = 0 => FALSE
      BY <1>1, <1>2, <1>3, StatementAssumption
    <3> QED BY <1>0, <1>2, <1>3, <3>1 DEF Ready
  <2>2. NumberOfRows(r.be) = Len(r.be.cache) /\ Len(r.be.cache) \in Int
    BY <1>0, <1>3, BackendFields, LenProperties DEF NumberOfRows
  <2>3. k >= 1 => Len(Fetched(r.be)) = k /\ \A i \in 1 .. k : Fetched(r.be)[i] = c + i
    <3>1. CASE shape.into = "vector"
      BY <1>0, <1>3, <3>1 DEF Fetched
    <3>2. CASE shape.into # "vector" /\ k >= 1
      <4>1. Fetched(r.be) = << c + 1 >> /\ k = 1
        BY <1>0, <1>2, <1>3, <3>2 DEF Fetched
      <4> QED BY <4>1
    <3> QED BY <3>1, <3>2
  <2>4. Less(n, k) = k
    BY <1>2 DEF Less
  <2>5. (r.ok => k >= 1) /\ (~ r.ok => k < n)
    BY <1>2, <1>3, StatementAssumption
  <2>6. ~ Stale(r.be)
    BY <1>0 DEF Stale
  <2> QED BY <1>2, <1>3, <2>1, <2>2, <2>3, <2>4, <2>5, <2>6 DEF Gives, k
<1>4. ASSUME shape.into = "vector"
      PROVE  Gives(LoadRowset(b, n), n, c)
  <2> DEFINE r == LoadRowset(b, n)
  <2>1. CASE b.ready
    <3>1. /\ r.be \in BackendType /\ r.be.at = b.at + k /\ (r.be.ready <=> k = n)
          /\ Len(r.be.cache) = k /\ \A i \in 1 .. k : r.be.cache[i] = b.at + i
          /\ r.be.runs = (IF b.at = 0 /\ n > 0 THEN b.runs + 1 ELSE b.runs)
          /\ r.be.justDescribed = b.justDescribed
          /\ r.ok \in BOOLEAN /\ (r.ok <=> k = n)
      BY <1>1, <1>k, <2>1, LoadRowsetFields
    <3> HIDE DEF r
    <3>2. r.be.runs = 1 /\ r.be.ready \in BOOLEAN
      BY <1>1, <2>1, <3>1, BackendFields, StatementAssumption
    <3>3. Gives(r, n, c)
      BY <1>1, <1>3, <3>1, <3>2
    <3> QED BY <3>3 DEF r
  <2>2. CASE ~ b.ready
    <3> DEFINE e == [b EXCEPT !.cache = <<>>]
    <3>1. r = Result(e, FALSE)
      BY <2>2 DEF LoadRowset
    <3>2. /\ e \in BackendType /\ e.at = c /\ e.runs = b.runs /\ e.ready = b.ready
          /\ e.justDescribed = b.justDescribed /\ e.cache = <<>>
      BY <1>1, EmptySeq DEF BackendType
    <3> HIDE DEF e, r
    <3>3. r.be = e /\ r.ok \in BOOLEAN /\ ~ r.ok
      BY <3>1, ResultFields
    <3>4. k = 0 /\ k # n /\ c + k = c /\ Len(e.cache) = k
      BY <1>1, <1>k, <2>2, <3>2, StatementAssumption
    <3>5. Gives(r, n, c)
      BY <1>1, <1>3, <2>2, <3>2, <3>3, <3>4
    <3> QED BY <3>5 DEF r
  <2> QED BY <1>1, <2>1, <2>2
<1>5. ASSUME shape.into # "vector"
      PROVE  Gives(LoadOne(b), n, c)
  <2>0. n = 1
    BY <1>5
  <2> DEFINE r == LoadOne(b)
  <2>1. CASE b.ready
    <3>1. /\ r.be \in BackendType /\ r.be.at = b.at + k /\ (r.be.ready <=> k = 1)
          /\ r.be.runs = (IF b.at = 0 THEN b.runs + 1 ELSE b.runs)
          /\ r.be.justDescribed = b.justDescribed
          /\ r.ok \in BOOLEAN /\ (r.ok <=> k = 1)
      BY <1>1, <1>k, <2>0, <2>1, LoadOneFields
    <3> HIDE DEF r
    <3>2. r.be.runs = 1 /\ r.be.ready \in BOOLEAN
      BY <1>1, <2>1, <3>1, BackendFields
    <3>3. Gives(r, n, c)
      BY <1>1, <1>3, <1>5, <2>0, <3>1, <3>2
    <3> QED BY <3>3 DEF r
  <2>2. CASE ~ b.ready
    <3>1. r = Result(b, FALSE)
      BY <2>2 DEF LoadOne
    <3> HIDE DEF r
    <3>3. r.be = b /\ r.ok \in BOOLEAN /\ ~ r.ok
      BY <3>1, ResultFields
    <3>4. k = 0 /\ k # n /\ c + k = c
      BY <1>1, <1>k, <2>0, <2>2
    <3>5. Gives(r, n, c)
      BY <1>1, <1>3, <1>5, <2>2, <3>3, <3>4
    <3> QED BY <3>5 DEF r
  <2> QED BY <1>1, <2>1, <2>2
<1>6. Sqlite3Fetch(b, n) = IF shape.into = "vector" THEN LoadRowset(b, n) ELSE LoadOne(b)
  BY StatementAssumption DEF Sqlite3Fetch
<1> QED BY <1>4, <1>5, <1>6

-------------------------------------------------------------------------------
(* The postgresql and mysql backends                                       *)

\* A fetch that gives nothing.
LEMMA MysqlNothing ==
  ASSUME Stored, rows \in 0 .. MaxRows, NEW n \in 1 .. MaxSize,
         NEW e \in BackendType, ~ e.justDescribed, e.runs = 1, e.number = rows,
         e.current >= rows, ~ shape.columns => e.current = 0 /\ e.consume = 0
  PROVE  Gives(Result(e, FALSE), n, rows)
<1> DEFINE k == Less(n, rows - rows)
<1>0. shape.kind \notin {"sqlite3", "firebird", "oracle"}
  BY DEF Stored
<1>1. k = 0 /\ rows + k = rows /\ rows \in Nat
  BY StatementAssumption DEF Less
<1> HIDE DEF k
<1>2. Result(e, FALSE).be = e /\ Result(e, FALSE).ok \in BOOLEAN /\ ~ Result(e, FALSE).ok
  BY ResultFields
<1>3. e.consume \in Nat /\ e.current \in Nat
  BY BackendFields, StatementAssumption
<1>4. Less(rows, e.current + e.consume) = rows
  BY <1>1, <1>3 DEF Less
<1>5. Ready(e, rows + k)
  BY <1>0, <1>1, <1>4 DEF Ready
<1>6. NumberOfRows(e) = rows - e.current /\ NumberOfRows(e) \in Int /\ NumberOfRows(e) <= 0
  BY <1>0, <1>1, <1>3 DEF NumberOfRows, Stored
<1>7. ~ Stale(e)
  BY <1>0 DEF Stale
<1>8. k < n /\ ~ (k >= 1)
  BY <1>1, StatementAssumption
<1> QED BY <1>1, <1>2, <1>5, <1>6, <1>7, <1>8 DEF Gives, k

LEMMA MysqlGives ==
  ASSUME Stored, rows \in 0 .. MaxRows, NEW c, NEW b, Ready(b, c), b.current + b.consume <= MaxCursor,
         ~ shape.columns => rows = 0, NEW n \in 1 .. MaxSize, shape.into # "vector" => n = 1
  PROVE  Gives(MysqlFetch(b, n), n, c)
<1> DEFINE k == Less(n, rows - c)
           p == b.current + b.consume
           r == MysqlFetch(b, n)
<1>0. shape.kind \notin {"sqlite3", "firebird", "oracle"}
  BY DEF Stored
<1>1. /\ b \in BackendType /\ ~ b.justDescribed /\ c \in 0 .. rows /\ b.runs = 1
      /\ b.number = rows /\ c = Less(rows, p)
      /\ ~ shape.columns => b.current = 0 /\ b.consume = 0
  BY <1>0 DEF Ready
<1>2. /\ b.current \in Nat /\ b.consume \in 0 .. MaxSize /\ p \in Nat /\ p <= MaxCursor
      /\ p \in 0 .. MaxCursor + MaxSize /\ rows \in Nat
  BY <1>1, BackendFields, StatementAssumption
<1>3. /\ k \in 0 .. MaxSize /\ k <= n /\ c + k \in 0 .. rows /\ c + k \in 0 .. MaxRows
      /\ k < n => c + k = rows
  <2>1. n \in 0 .. MaxSize
    BY StatementAssumption
  <2> QED BY <1>1, <2>1, LeftOver
<1>4. ASSUME NEW e \in BackendType, ~ e.justDescribed, e.runs = 1, e.number = rows, c = rows,
             e.current >= rows, ~ shape.columns => e.current = 0 /\ e.consume = 0
      PROVE  Gives(Result(e, FALSE), n, c)
  BY <1>4, MysqlNothing
<1>5. CASE b.number = 0
  <2>1. r = Result(b, FALSE)
    BY <1>5 DEF MysqlFetch
  <2>2. c = rows /\ b.current >= rows
    BY <1>1, <1>2, <1>5 DEF Less
  <2> QED BY <1>1, <1>2, <1>4, <2>1, <2>2
<1>6. CASE b.number # 0 /\ p >= b.number
  <2> DEFINE e == [b EXCEPT !.current = p]
  <2>1. r = Result(e, FALSE)
    BY <1>6 DEF MysqlFetch
  <2>2. /\ e \in BackendType /\ e.current = p /\ e.consume = b.consume /\ e.number = b.number
        /\ e.runs = b.runs /\ e.justDescribed = b.justDescribed
    BY <1>1, <1>2 DEF BackendType
  <2> HIDE DEF e
  <2>3. c = rows
    BY <1>1, <1>2, <1>6 DEF Less
  <2>4. ~ shape.columns => e.current = 0 /\ e.consume = 0
    BY <1>1, <1>2, <2>2
  <2> QED BY <1>1, <1>2, <1>4, <1>6, <2>1, <2>2, <2>3, <2>4
<1>7. CASE b.number # 0 /\ ~ (p >= b.number)
  <2> DEFINE ok == p + n <= b.number
             e == [b EXCEPT !.current = p, !.consume = k]
  <2>1. c = p /\ p < rows
    BY <1>1, <1>2, <1>7 DEF Less
  <2>2. Min({n, b.number - p}) = k
    <3>1. n \in Int /\ b.number - p \in Int
      BY <1>1, <1>2
    <3>2. Min({n, b.number - p}) = Less(n, b.number - p)
      BY <3>1, MinOf, Zenon
    <3> QED BY <1>1, <2>1, <3>2
  <2>3. r = Result(e, ok)
    BY <1>7, <2>2 DEF MysqlFetch
  <2>o. ok \in BOOLEAN /\ (ok <=> k = n)
    BY <1>1, <1>2, <2>1 DEF Less
  <2>r. rows - c \in Nat /\ rows - c >= 1 /\ (~ ok => k = rows - c)
    BY <1>1, <1>2, <2>1 DEF Less
  <2> HIDE DEF k, ok
  <2>4. /\ e \in BackendType /\ e.current = p /\ e.consume = k /\ e.number = b.number
        /\ e.runs = b.runs /\ e.justDescribed = b.justDescribed
    BY <1>1, <1>2, <1>3 DEF BackendType
  <2> HIDE DEF e, r
  <2>5. r.be = e /\ r.ok \in BOOLEAN /\ (r.ok <=> k = n)
    BY <2>3, <2>o, ResultFields
  <2>6. Less(rows, p + k) = c + k
    BY <1>1, <1>2, <1>3, <2>1 DEF Less
  <2>7. shape.columns
    BY <1>2, <2>1
  <2>8. Ready(e, c + k)
    BY <1>0, <1>1, <1>3, <2>4, <2>6, <2>7 DEF Ready
  <2>9. NumberOfRows(e) = rows - c /\ NumberOfRows(e) \in Int
    BY <1>0, <1>1, <2>1, <2>4, <2>r DEF NumberOfRows, Stored
  <2>10. ~ Stale(e)
    BY <1>0 DEF Stale
  <2>11. (r.ok => k >= 1) /\ (~ r.ok => k < n)
    BY <1>3, <2>5, StatementAssumption
  <2>12. Less(n, NumberOfRows(e)) = k
    BY <2>9 DEF k
  <2>13. k >= 1 => Len(Fetched(e)) = k /\ \A i \in 1 .. k : Fetched(e)[i] = c + i
    <3>1. CASE shape.into = "vector"
      <4> DEFINE s == [i \in 1 .. k |-> c + i]
      <4>1. Fetched(e) = s
        BY <2>1, <2>4, <3>1 DEF Fetched
      <4>2. k \in Nat /\ c \in Nat /\ c + k <= rows
        BY <1>1, <1>2, <1>3
      <4>3. Len(s) = k /\ \A i \in 1 .. k : s[i] = c + i
        BY <1>2, <4>2, Run
      <4> QED BY <4>1, <4>3
    <3>2. CASE shape.into # "vector" /\ k >= 1
      <4>1. Fetched(e) = << c + 1 >> /\ k = 1
        BY <1>3, <2>1, <2>4, <3>2 DEF Fetched
      <4> QED BY <4>1
    <3> QED BY <3>1, <3>2
  <2>14. Gives(r, n, c)
    BY <1>1, <2>o, <2>r, <2>4, <2>5, <2>8, <2>9, <2>10, <2>11, <2>12, <2>13 DEF Gives, k
  <2> QED BY <2>14 DEF r
<1> QED BY <1>5, <1>6, <1>7

-------------------------------------------------------------------------------
(* Every backend keeps the contract                                        *)

\* fetch() of a statement that has been executed.
LEMMA FetchGives ==
  ASSUME shape \in ShapeType, rows \in 0 .. MaxRows, ~ shape.columns => rows = 0,
         NEW c, NEW b, Ready(b, c), ~ Stale(b), b.current + b.consume <= MaxCursor,
         NEW n \in 1 .. MaxSize, shape.into # "vector" => n = 1
  PROVE  Gives(BackendFetch(b, n), n, c)
<1>1. CASE shape.kind = "sqlite3"
  <2>1. BackendFetch(b, n) = Sqlite3Fetch(b, n)
    BY <1>1 DEF BackendFetch
  <2> QED BY <1>1, <2>1, Sqlite3Gives
<1>2. CASE shape.kind \in {"mysql", "postgresql"}
  <2>1. BackendFetch(b, n) = MysqlFetch(b, n)
    BY <1>2 DEF BackendFetch, PostgresqlFetch
  <2>2. Stored
    BY <1>2 DEF Stored
  <2> QED BY <2>1, <2>2, MysqlGives
<1>3. CASE shape.kind = "firebird"
  <2>1. BackendFetch(b, n) = FirebirdFetch(b, n)
    BY <1>3 DEF BackendFetch
  <2> QED BY <1>3, <2>1, FirebirdGives
<1>4. CASE shape.kind = "oracle"
  <2>1. BackendFetch(b, n) = OracleFetch(b, n)
    BY <1>4 DEF BackendFetch
  <2> QED BY <1>4, <2>1, OracleGives
<1>5. CASE shape.kind = "db2"
  <2>1. BackendFetch(b, n) = Db2Fetch(b, n)
    BY <1>5 DEF BackendFetch
  <2> QED BY <1>5, <2>1, OdbcGives
<1>6. CASE shape.kind \in {"odbc", "odbc_rows"}
  <2>1. BackendFetch(b, n) = OdbcFetch(b, n)
    BY <1>6 DEF BackendFetch
  <2> QED BY <1>6, <2>1, OdbcGives
<1> QED BY <1>1, <1>2, <1>3, <1>4, <1>5, <1>6 DEF ShapeType

\* What execute() of statement_impl hands to the backend.
Executable(b) ==
    /\ b \in BackendType
    /\ b.justDescribed => Stored
    /\ b.runs = IF b.justDescribed THEN 1 ELSE 0
    /\ Stored /\ ~ shape.columns => b.current = 0 /\ b.consume = 0

\* A statement with into elements, and no vector of use elements.
WithInto ==
    /\ shape \in ShapeType /\ Regular(shape) /\ shape.into # "none" /\ shape.use \in {0, 1}
    /\ rows \in 0 .. MaxRows /\ (~ shape.columns => rows = 0)

LEMMA OneUse == ASSUME WithInto PROVE Max({1, shape.use}) = 1
<1>1. shape.use \in Int /\ 1 \in Int /\ shape.use \in {0, 1}
  BY DEF WithInto
<1>2. Max({1, shape.use}) \in {1, shape.use} /\ Max({1, shape.use}) >= 1
  BY <1>1, MaxOf
<1> QED BY <1>1, <1>2

LEMMA Sqlite3Start ==
  ASSUME WithInto, shape.kind = "sqlite3", NEW b, Executable(b), NEW f, f = [b EXCEPT !.at = 0, !.ready = TRUE]
  PROVE  Ready(f, 0) /\ f \in BackendType /\ f.ready /\ f.at = 0 /\ f.runs = 0 /\ ~ f.justDescribed
<1>0. ~ Stored /\ shape.kind \notin {"firebird", "oracle"}
  BY DEF Stored
<1>1. b \in BackendType /\ b.runs = 0 /\ ~ b.justDescribed
  BY <1>0 DEF Executable
<1>2. f \in BackendType /\ f.at = 0 /\ f.ready /\ f.runs = 0 /\ ~ f.justDescribed
  <2>1. 0 \in 0 .. MaxRows /\ TRUE \in BOOLEAN
    BY StatementAssumption
  <2> QED BY <1>1, <2>1 DEF BackendType
<1>3. 0 \in 0 .. rows
  BY StatementAssumption DEF WithInto
<1> QED BY <1>0, <1>2, <1>3 DEF Ready

LEMMA Sqlite3Executes ==
  ASSUME WithInto, shape.kind = "sqlite3", NEW b, Executable(b), NEW n \in 1 .. MaxSize,
         shape.into # "vector" => n = 1, shape.into = "vector" => n >= shape.min
  PROVE  Gives(Sqlite3Execute(b, n), n, 0)
<1> DEFINE f == [b EXCEPT !.at = 0, !.ready = TRUE]
<1>1. Ready(f, 0)
  BY Sqlite3Start
<1>2. Sqlite3Execute(b, n) = IF shape.use > 0 THEN BindAndExecute(f, n) ELSE Sqlite3Fetch(f, n)
  BY DEF Sqlite3Execute
<1> HIDE DEF f
<1>3. /\ shape.into = "vector" => Gives(LoadRowset(f, n), n, 0)
      /\ shape.into # "vector" => Gives(LoadOne(f), n, 0)
      /\ Gives(Sqlite3Fetch(f, n), n, 0)
  BY <1>1, Sqlite3Gives DEF WithInto
<1>4. CASE shape.use = 1
  <2>1. shape.into = "vector" => n # 1
    BY <1>4, StatementAssumption DEF WithInto, Regular, ShapeType
  <2>2. Sqlite3Execute(b, n) = IF n # 1 THEN LoadRowset(f, n) ELSE LoadOne(f)
    BY <1>2, <1>4 DEF BindAndExecute
  <2> QED BY <1>3, <2>1, <2>2
<1>5. CASE shape.use = 0
  BY <1>2, <1>3, <1>5
<1> QED BY <1>4, <1>5 DEF WithInto

LEMMA Sqlite3Performs ==
  ASSUME WithInto, shape.kind = "sqlite3", NEW b, Executable(b)
  PROVE  Performs(Sqlite3Execute(b, 0))
<1> DEFINE f == [b EXCEPT !.at = 0, !.ready = TRUE]
           r == LoadRowset(f, 0)
<1>0. ~ Stored /\ shape.kind \notin {"firebird", "oracle"} /\ rows \in 0 .. MaxRows /\ 0 \in 0 .. MaxSize
  BY StatementAssumption DEF Stored, WithInto
<1>1. f \in BackendType /\ f.ready /\ f.at = 0 /\ f.runs = 0 /\ ~ f.justDescribed
  BY Sqlite3Start
<1>2. Sqlite3Execute(b, 0) = r
  <2> HIDE DEF f
  <2>1. Sqlite3Execute(b, 0) = IF shape.use > 0 THEN BindAndExecute(f, 0) ELSE Sqlite3Fetch(f, 0)
    BY DEF Sqlite3Execute, f
  <2>2. shape.use = 1 => BindAndExecute(f, 0) = r
    BY DEF BindAndExecute
  <2>3. Sqlite3Fetch(f, 0) = r
    BY DEF Sqlite3Fetch
  <2> QED BY <2>1, <2>2, <2>3 DEF WithInto
<1> HIDE DEF f
<1>3. Less(0, rows - f.at) = 0 /\ f.at <= rows
  BY <1>0, <1>1, StatementAssumption DEF Less
<1>4. /\ r.be \in BackendType /\ r.be.at = f.at + 0 /\ (r.be.ready <=> 0 = 0)
      /\ r.be.runs = (IF f.at = 0 /\ 0 > 0 THEN f.runs + 1 ELSE f.runs)
      /\ r.be.justDescribed = f.justDescribed
      /\ r.ok \in BOOLEAN /\ (r.ok <=> 0 = 0)
  BY <1>0, <1>1, <1>3, LoadRowsetFields
<1> HIDE DEF r
<1>5. r.be.at = 0 /\ r.be.runs = 0 /\ r.be.ready /\ 0 \in 0 .. rows
  BY <1>0, <1>1, <1>4, StatementAssumption
<1>6. Ready(r.be, 0)
  BY <1>0, <1>1, <1>4, <1>5 DEF Ready
<1>7. ~ Stale(r.be)
  BY <1>0 DEF Stale
<1> QED BY <1>2, <1>4, <1>6, <1>7 DEF Performs

\* Executed with or without data exchange.
Answers(r, n) == IF n = 0 THEN Performs(r) ELSE Gives(r, n, 0)

LEMMA MysqlExecutes ==
  ASSUME WithInto, Stored, NEW b, Executable(b), NEW n \in 0 .. MaxSize,
         shape.into # "vector" => n <= 1
  PROVE  Answers(MysqlExecute(b, n), n)
<1> DEFINE q == IF b.justDescribed THEN b.runs ELSE b.runs + 1
           run == [b EXCEPT !.runs = q, !.justDescribed = FALSE]
           got == [run EXCEPT !.current = 0, !.consume = 0, !.number = rows]
           none == [run EXCEPT !.number = 0]
           some == rows > 0
           r == MysqlExecute(b, n)
<1>0. /\ shape.kind \notin {"sqlite3", "firebird", "oracle"} /\ rows \in 0 .. MaxRows /\ rows \in Nat
      /\ 0 \in 0 .. rows /\ 0 \in 0 .. MaxSize /\ 0 \in 0 .. MaxCursor + MaxSize /\ 0 <= MaxCursor
      /\ 0 \in 0 .. MaxRows /\ FALSE \in BOOLEAN /\ ~ (shape.use > 1) /\ (~ shape.columns => rows = 0)
  BY StatementAssumption DEF Stored, WithInto
<1>1. b \in BackendType /\ q = 1 /\ q \in Nat /\ (~ shape.columns => b.current = 0 /\ b.consume = 0)
  BY BackendFields DEF Executable
<1>2. r = IF ~ shape.columns THEN Result(none, FALSE)
          ELSE IF n > 0 /\ some THEN MysqlFetch(got, n) ELSE Result(got, some)
  BY <1>0 DEF MysqlExecute
<1>3. /\ run \in BackendType /\ run.runs = 1 /\ ~ run.justDescribed
      /\ run.current = b.current /\ run.consume = b.consume
  <2> HIDE DEF q
  <2> QED BY <1>0, <1>1 DEF BackendType
<1> HIDE DEF run
<1>4. /\ got \in BackendType /\ got.runs = 1 /\ ~ got.justDescribed
      /\ got.current = 0 /\ got.consume = 0 /\ got.number = rows
  BY <1>0, <1>3 DEF BackendType
<1>5. /\ none \in BackendType /\ none.runs = 1 /\ ~ none.justDescribed
      /\ none.current = b.current /\ none.consume = b.consume /\ none.number = 0
  BY <1>0, <1>3 DEF BackendType
<1> HIDE DEF got, none
<1>6. some \in BOOLEAN /\ (~ some => rows = 0)
  BY <1>0
<1> HIDE DEF some
\* Nothing has been given yet.
<1>7. ASSUME NEW e \in BackendType, e.runs = 1, ~ e.justDescribed, e.current = 0, e.consume = 0,
             e.number = rows
      PROVE  /\ Ready(e, 0) /\ ~ Stale(e) /\ NumberOfRows(e) = rows
  <2>1. Less(rows, 0 + 0) = 0
    BY <1>0 DEF Less
  <2>2. NumberOfRows(e) = rows
    BY <1>0, <1>7 DEF NumberOfRows, Stored
  <2> QED BY <1>0, <1>7, <2>1, <2>2 DEF Ready, Stale
<1>8. CASE ~ shape.columns
  <2>1. r = Result(none, FALSE) /\ none.current = 0 /\ none.consume = 0 /\ none.number = rows /\ rows = 0
    BY <1>0, <1>1, <1>2, <1>5, <1>8
  <2>2. CASE n = 0
    <3>1. r.be = none /\ r.ok \in BOOLEAN
      BY <2>1, ResultFields
    <3>2. Ready(none, 0) /\ ~ Stale(none) /\ NumberOfRows(none) = rows
      BY <1>5, <1>7, <2>1
    <3>3. Performs(r)
      <4> HIDE DEF r
      <4>1. NumberOfRows(none) <= 0
        BY <2>1, <3>2
      <4> QED BY <3>1, <3>2, <4>1 DEF Performs
    <3> QED BY <2>2, <3>3 DEF Answers
  <2>3. CASE n # 0
    <3>1. n \in 1 .. MaxSize /\ none.current >= rows
      BY <1>0, <2>1, <2>3
    <3>2. Gives(Result(none, FALSE), n, rows)
      BY <1>0, <1>5, <2>1, <3>1, MysqlNothing
    <3>3. Gives(r, n, 0)
      <4> HIDE DEF r
      <4> QED BY <2>1, <3>2
    <3> QED BY <2>3, <3>3 DEF Answers
  <2> QED BY <2>2, <2>3
<1>9. CASE shape.columns /\ n > 0 /\ some
  <2>1. r = MysqlFetch(got, n) /\ n \in 1 .. MaxSize /\ n # 0 /\ got.current + got.consume <= MaxCursor
    BY <1>0, <1>2, <1>4, <1>9
  <2>2. Ready(got, 0)
    BY <1>4, <1>7
  <2>3. shape.into # "vector" => n = 1
    BY <2>1
  <2>4. Gives(MysqlFetch(got, n), n, 0)
    BY <1>0, <2>1, <2>2, <2>3, MysqlGives
  <2> HIDE DEF r
  <2> QED BY <2>1, <2>4 DEF Answers, r
<1>10. CASE shape.columns /\ n = 0
  <2>1. r = Result(got, some)
    BY <1>2, <1>10
  <2> HIDE DEF r
  <2>2. r.be = got /\ r.ok \in BOOLEAN /\ (r.ok <=> some)
    BY <1>6, <2>1, ResultFields
  <2>3. Ready(got, 0) /\ ~ Stale(got) /\ NumberOfRows(got) = rows
    BY <1>4, <1>7
  <2>4. ~ some => NumberOfRows(got) <= 0
    BY <1>6, <2>3
  <2>5. Performs(r)
    BY <2>2, <2>3, <2>4 DEF Performs
  <2> QED BY <1>10, <2>5 DEF Answers, r
<1>11. CASE shape.columns /\ n > 0 /\ ~ some
  <2>1. r = Result(got, some) /\ n \in 1 .. MaxSize /\ n # 0 /\ rows = 0 /\ some = FALSE
    BY <1>2, <1>6, <1>11
  <2>2. got.current >= rows
    BY <1>4, <2>1
  <2>3. Gives(Result(got, FALSE), n, rows)
    BY <1>0, <1>4, <2>1, <2>2, MysqlNothing
  <2> HIDE DEF r
  <2>4. Gives(r, n, 0)
    BY <2>1, <2>3
  <2> QED BY <2>1, <2>4 DEF Answers, r
<1>12. n > 0 \/ n = 0
  OBVIOUS
<1> QED BY <1>8, <1>9, <1>10, <1>11, <1>12

LEMMA FirebirdExecutes ==
  ASSUME WithInto, shape.kind = "firebird", NEW b, Executable(b), NEW n \in 0 .. MaxSize,
         shape.into # "vector" => n <= 1
  PROVE  Answers(FirebirdExecute(b, n), n)
<1> DEFINE q == b.runs + Max({1, shape.use})
           run == [b EXCEPT !.at = 0, !.ready = shape.columns, !.runs = q]
           r == FirebirdExecute(b, n)
<1>0. /\ ~ Stored /\ rows \in 0 .. MaxRows /\ 0 \in 0 .. rows /\ 0 \in 0 .. MaxRows
      /\ shape.columns = TRUE /\ TRUE \in BOOLEAN
  BY StatementAssumption DEF Stored, WithInto, Regular, ShapeType
<1>1. b \in BackendType /\ b.runs = 0 /\ ~ b.justDescribed
  BY <1>0 DEF Executable
<1>2. q = 1 /\ q \in Nat
  <2>1. Max({1, shape.use}) = 1
    BY OneUse
  <2> QED BY <1>1, <2>1
<1>3. r = IF n > 0 THEN FirebirdFetch(run, n) ELSE Result(run, TRUE)
  BY <1>0 DEF FirebirdExecute
<1>4. run \in BackendType /\ run.at = 0 /\ run.ready /\ run.runs = 1 /\ ~ run.justDescribed
  <2> HIDE DEF q
  <2> QED BY <1>0, <1>1, <1>2 DEF BackendType
<1> HIDE DEF run
<1>5. Ready(run, 0) /\ ~ Stale(run)
  BY <1>0, <1>4 DEF Ready, Stale
<1>6. CASE n = 0
  <2>1. r = Result(run, TRUE)
    BY <1>3, <1>6
  <2> HIDE DEF r
  <2>2. r.be = run /\ r.ok \in BOOLEAN /\ r.ok
    BY <2>1, ResultFields
  <2>3. Performs(r)
    BY <1>5, <2>2 DEF Performs
  <2> QED BY <1>6, <2>3 DEF Answers, r
<1>7. CASE n # 0
  <2>0. n > 0 /\ n \in 1 .. MaxSize
    BY <1>7, StatementAssumption
  <2>1. r = FirebirdFetch(run, n) /\ n \in 1 .. MaxSize
    BY <1>3, <2>0
  <2>2. shape.into # "vector" => n = 1
    BY <2>1
  <2>3. Gives(FirebirdFetch(run, n), n, 0)
    BY <1>0, <1>5, <2>1, <2>2, FirebirdGives
  <2> HIDE DEF r
  <2> QED BY <1>7, <2>1, <2>3 DEF Answers, r
<1> QED BY <1>6, <1>7

LEMMA OracleExecutes ==
  ASSUME WithInto, shape.kind = "oracle", NEW b, Executable(b), NEW n \in 0 .. MaxSize,
         shape.into # "vector" => n <= 1
  PROVE  Answers(OracleExecute(b, n), n)
<1> DEFINE q == b.runs + 1
           run == [b EXCEPT !.at = 0, !.ready = TRUE, !.count = 0, !.cache = <<>>, !.runs = q]
           r == OracleExecute(b, n)
<1>0. /\ ~ Stored /\ rows \in 0 .. MaxRows /\ 0 \in 0 .. rows /\ 0 \in 0 .. MaxRows
      /\ 0 \in 0 .. MaxSize /\ shape.columns = TRUE /\ TRUE \in BOOLEAN
  BY StatementAssumption DEF Stored, WithInto, Regular, ShapeType
<1>1. b \in BackendType /\ b.runs = 0 /\ ~ b.justDescribed
  BY <1>0 DEF Executable
<1>2. q = 1 /\ q \in Nat
  BY <1>1
<1>3. r = OracleFetch(run, n)
  BY <1>0 DEF OracleExecute
<1>4. /\ run \in BackendType /\ run.at = 0 /\ run.ready /\ run.runs = 1 /\ ~ run.justDescribed
      /\ run.count = 0
  <2> HIDE DEF q
  <2>1. <<>> \in Seq(1 .. MaxRows)
    BY EmptySeq
  <2> QED BY <1>0, <1>1, <1>2, <2>1 DEF BackendType
<1> HIDE DEF run
<1>5. Ready(run, 0) /\ ~ Stale(run)
  BY <1>0, <1>4 DEF Ready, Stale
<1>6. CASE n = 0
  <2> DEFINE a == Advanced(run, n)
             full == a.count = n
             e == [a EXCEPT !.ready = full]
  <2>1. Less(n, rows - run.at) = 0 /\ run.at <= rows
    BY <1>0, <1>4, <1>6, StatementAssumption DEF Less
  <2>2. /\ a \in BackendType /\ a.at = run.at /\ a.count = 0
        /\ a.ready = run.ready /\ a.runs = run.runs /\ a.justDescribed = run.justDescribed
    <3> DEFINE k == Less(n, rows - run.at)
    <3>1. /\ a \in BackendType /\ a.at = run.at + k /\ a.count = k
          /\ a.ready = run.ready /\ a.runs = run.runs /\ a.justDescribed = run.justDescribed
      <4>1. run \in BackendType /\ rows \in 0 .. MaxRows /\ n \in 0 .. MaxSize /\ run.at <= rows
        BY <1>0, <1>4, <2>1
      <4> QED BY <4>1, AdvancedFields
    <3> HIDE DEF k, a
    <3>2. k = 0
      BY <2>1 DEF k
    <3> QED BY <1>4, <3>1, <3>2
  <2>3. r = Result(e, full)
    BY <1>3, <1>4 DEF OracleFetch
  <2>4. full \in BOOLEAN /\ full
    BY <1>6, <2>2
  <2> HIDE DEF a, full, r
  <2>5. e \in BackendType /\ e.at = 0 /\ e.ready /\ e.runs = 1 /\ ~ e.justDescribed
    BY <1>4, <2>2, <2>4 DEF BackendType
  <2> HIDE DEF e
  <2>6. r.be = e /\ r.ok \in BOOLEAN /\ r.ok
    BY <2>3, <2>4, ResultFields
  <2>7. Ready(e, 0) /\ ~ Stale(e)
    BY <1>0, <2>5 DEF Ready, Stale
  <2>8. Performs(r)
    BY <2>6, <2>7 DEF Performs
  <2> QED BY <1>6, <2>8 DEF Answers, r
<1>7. CASE n # 0
  <2>1. n \in 1 .. MaxSize
    BY <1>7
  <2>2. shape.into # "vector" => n = 1
    BY <2>1
  <2>3. Gives(OracleFetch(run, n), n, 0)
    BY <1>0, <1>5, <2>1, <2>2, OracleGives
  <2> HIDE DEF r
  <2> QED BY <1>3, <1>7, <2>3 DEF Answers, r
<1> QED BY <1>6, <1>7

LEMMA OdbcExecutes ==
  ASSUME WithInto, shape.kind \in {"odbc", "odbc_rows", "db2"}, NEW b, Executable(b),
         NEW n \in 0 .. MaxSize, shape.into # "vector" => n <= 1
  PROVE  Answers(OdbcExecute(b, n), n) /\ Answers(Db2Execute(b, n), n)
<1> DEFINE q == b.runs + Max({1, shape.use})
           run == [b EXCEPT !.at = 0, !.runs = q]
<1>0. /\ ~ Stored /\ rows \in 0 .. MaxRows /\ 0 \in 0 .. rows /\ 0 \in 0 .. MaxRows
      /\ shape.columns = TRUE /\ shape.kind \notin {"sqlite3", "firebird", "oracle"}
  BY StatementAssumption DEF Stored, WithInto, Regular, ShapeType
<1>1. b \in BackendType /\ b.runs = 0 /\ ~ b.justDescribed
  BY <1>0 DEF Executable
<1>2. q = 1 /\ q \in Nat
  <2>1. Max({1, shape.use}) = 1
    BY OneUse
  <2> QED BY <1>1, <2>1
<1>3. /\ OdbcExecute(b, n) = IF n > 0 THEN OdbcFetch(run, n) ELSE Result(run, TRUE)
      /\ Db2Execute(b, n) = IF n > 0 THEN Db2Fetch(run, n) ELSE Result(run, TRUE)
  BY <1>0 DEF OdbcExecute, Db2Execute
<1>4. run \in BackendType /\ run.at = 0 /\ run.runs = 1 /\ ~ run.justDescribed
  <2> HIDE DEF q
  <2> QED BY <1>0, <1>1, <1>2 DEF BackendType
<1> HIDE DEF run
<1>5. Ready(run, 0) /\ ~ Stale(run)
  BY <1>0, <1>4 DEF Ready, Stale
<1>6. CASE n = 0
  <2>1. OdbcExecute(b, n) = Result(run, TRUE) /\ Db2Execute(b, n) = Result(run, TRUE)
    BY <1>3, <1>6
  <2> DEFINE r == Result(run, TRUE)
  <2>2. r.be = run /\ r.ok \in BOOLEAN /\ r.ok
    BY ResultFields
  <2>3. Performs(r)
    <3> HIDE DEF r
    <3> QED BY <1>5, <2>2 DEF Performs
  <2> QED BY <1>6, <2>1, <2>3 DEF Answers
<1>7. CASE n # 0
  <2>0. n > 0 /\ n \in 1 .. MaxSize
    BY <1>7, StatementAssumption
  <2>1. OdbcExecute(b, n) = OdbcFetch(run, n) /\ Db2Execute(b, n) = Db2Fetch(run, n) /\ n \in 1 .. MaxSize
    BY <1>3, <2>0
  <2>2. shape.into # "vector" => n = 1
    BY <2>1
  <2>3. Gives(OdbcFetch(run, n), n, 0) /\ Gives(Db2Fetch(run, n), n, 0)
    BY <1>0, <1>5, <2>1, <2>2, OdbcGives
  <2> QED BY <1>7, <2>1, <2>3 DEF Answers
<1> QED BY <1>6, <1>7

\* execute() of a statement with into elements; only a vector that is filled has a smallest size.
LEMMA ExecuteAnswers ==
  ASSUME WithInto, NEW b, Executable(b), NEW n \in 0 .. MaxSize,
         shape.into # "vector" => n <= 1, shape.into = "vector" /\ n # 0 => n >= shape.min
  PROVE  Answers(BackendExecute(b, n), n)
<1>1. CASE shape.kind = "sqlite3"
  <2>1. BackendExecute(b, n) = Sqlite3Execute(b, n)
    BY <1>1 DEF BackendExecute
  <2>2. CASE n = 0
    BY <1>1, <2>1, <2>2, Sqlite3Performs DEF Answers
  <2>3. CASE n # 0
    <3>1. n \in 1 .. MaxSize
      BY <2>3
    <3>2. shape.into # "vector" => n = 1
      BY <3>1
    <3>3. Gives(Sqlite3Execute(b, n), n, 0)
      BY <1>1, <2>3, <3>1, <3>2, Sqlite3Executes
    <3> QED BY <2>1, <2>3, <3>3 DEF Answers
  <2> QED BY <2>2, <2>3
<1>2. CASE shape.kind \in {"mysql", "postgresql"}
  <2>1. BackendExecute(b, n) = MysqlExecute(b, n)
    BY <1>2 DEF BackendExecute, PostgresqlExecute
  <2>2. Stored
    BY <1>2 DEF Stored
  <2> QED BY <2>1, <2>2, MysqlExecutes
<1>3. CASE shape.kind = "firebird"
  <2>1. BackendExecute(b, n) = FirebirdExecute(b, n)
    BY <1>3 DEF BackendExecute
  <2> QED BY <1>3, <2>1, FirebirdExecutes
<1>4. CASE shape.kind = "oracle"
  <2>1. BackendExecute(b, n) = OracleExecute(b, n)
    BY <1>4 DEF BackendExecute
  <2> QED BY <1>4, <2>1, OracleExecutes
<1>5. CASE shape.kind = "db2"
  <2>1. BackendExecute(b, n) = Db2Execute(b, n)
    BY <1>5 DEF BackendExecute
  <2> QED BY <1>5, <2>1, OdbcExecutes
<1>6. CASE shape.kind \in {"odbc", "odbc_rows"}
  <2>1. BackendExecute(b, n) = OdbcExecute(b, n)
    BY <1>6 DEF BackendExecute
  <2> QED BY <1>6, <2>1, OdbcExecutes
<1> QED BY <1>1, <1>2, <1>3, <1>4, <1>5, <1>6 DEF ShapeType, WithInto

-------------------------------------------------------------------------------
(* Statements without into elements                                        *)

\* Executed for n rows of use elements, or n = 0 without data exchange, a backend runs the query
\* for each of the rows; what it is at after success is a row of the result.
Runs(r, n) ==
    /\ r.be \in BackendType /\ ~ r.be.justDescribed
    /\ r.ok \in BOOLEAN
    /\ r.be.runs <= Max({1, shape.use})
    /\ Stored /\ shape.use <= 1 => r.be.runs = 1
    /\ Stored /\ ~ shape.columns => r.be.current = 0 /\ r.be.consume = 0
    /\ r.ok /\ n > 0 => (IF Stored THEN r.be.current + 1 ELSE r.be.at) \in 0 .. MaxRows

WithoutInto ==
    /\ shape \in ShapeType /\ shape.into = "none"
    /\ rows \in 0 .. MaxRows /\ (~ shape.columns => rows = 0)

LEMMA Rounds ==
  ASSUME WithoutInto, NEW m, m = Max({1, shape.use})
  PROVE  m \in 1 .. MaxSize /\ m >= 1 /\ m >= shape.use /\ m \in Nat /\ shape.use \in Nat
<1>1. shape.use \in 0 .. MaxSize /\ shape.use \in Int /\ 1 \in Int
  BY StatementAssumption DEF WithoutInto, ShapeType
<1>2. m \in {1, shape.use} /\ m >= 1 /\ m >= shape.use
  BY <1>1, MaxOf
<1> QED BY <1>1, <1>2, StatementAssumption

LEMMA Sqlite3Runs ==
  ASSUME WithoutInto, shape.kind = "sqlite3", NEW b, Executable(b), ~ b.justDescribed, NEW n \in 0 .. MaxSize
  PROVE  Runs(Sqlite3Execute(b, n), n)
<1> DEFINE f == [b EXCEPT !.at = 0, !.ready = TRUE]
           m == Max({1, shape.use})
           r == Sqlite3Execute(b, n)
<1>0. ~ Stored /\ rows \in 0 .. MaxRows /\ 0 \in 0 .. MaxRows /\ TRUE \in BOOLEAN /\ 0 <= rows
  BY StatementAssumption DEF Stored, WithoutInto
<1>1. b \in BackendType /\ b.runs = 0
  BY DEF Executable
<1>2. f \in BackendType /\ f.at = 0 /\ f.ready /\ f.runs = 0 /\ ~ f.justDescribed
  BY <1>0, <1>1 DEF BackendType
<1>3. m \in 1 .. MaxSize /\ m >= 1 /\ m >= shape.use /\ m \in Nat /\ shape.use \in Nat
  BY Rounds
<1>4. ASSUME NEW a, a.be \in BackendType, ~ a.be.justDescribed, a.ok \in BOOLEAN, a.be.runs <= m
      PROVE  Runs(a, n)
  BY <1>0, <1>4, BackendFields DEF Runs
<1>5. r = IF shape.use > 0 THEN BindAndExecute(f, n) ELSE Sqlite3Fetch(f, n)
  BY DEF Sqlite3Execute
<1> HIDE DEF f, m
<1>6. Runs(LoadRowset(f, n), n)
  <2> DEFINE a == LoadRowset(f, n)
             k == Less(n, rows - f.at)
  <2>1. /\ a.be \in BackendType
        /\ a.be.runs = (IF f.at = 0 /\ n > 0 THEN f.runs + 1 ELSE f.runs)
        /\ a.be.justDescribed = f.justDescribed
        /\ a.ok \in BOOLEAN
    BY <1>0, <1>2, LoadRowsetFields
  <2> HIDE DEF a
  <2>2. a.be.runs <= m
    BY <1>2, <1>3, <2>1
  <2>3. Runs(a, n)
    BY <1>2, <1>4, <2>1, <2>2
  <2> QED BY <2>3 DEF a
<1>7. Runs(LoadOne(f), n)
  <2> DEFINE a == LoadOne(f)
             k == Less(1, rows - f.at)
  <2>1. /\ a.be \in BackendType
        /\ a.be.runs = (IF f.at = 0 THEN f.runs + 1 ELSE f.runs)
        /\ a.be.justDescribed = f.justDescribed
        /\ a.ok \in BOOLEAN
    BY <1>0, <1>2, LoadOneFields
  <2> HIDE DEF a
  <2>2. a.be.runs <= m
    BY <1>2, <1>3, <2>1
  <2>3. Runs(a, n)
    BY <1>2, <1>4, <2>1, <2>2
  <2> QED BY <2>3 DEF a
<1>8. CASE shape.use > 1
  <2> DEFINE q == f.runs + shape.use
             e == [f EXCEPT !.ready = FALSE, !.runs = q]
  <2>1. r = Result(e, FALSE)
    <3>1. shape.use > 0 /\ shape.use # 1
      BY <1>3, <1>8
    <3>2. BindAndExecute(f, n) = Result(e, FALSE)
      BY <3>1 DEF BindAndExecute
    <3> HIDE DEF r, e
    <3> QED BY <1>5, <3>1, <3>2
  <2>2. q \in Nat /\ q <= m
    BY <1>2, <1>3
  <2>3. e \in BackendType /\ ~ e.justDescribed /\ e.runs = q
    <3> HIDE DEF q
    <3> QED BY <1>2, <2>2 DEF BackendType
  <2> HIDE DEF e, r
  <2>4. r.be = e /\ r.ok \in BOOLEAN
    BY <2>1, ResultFields
  <2>5. Runs(r, n)
    BY <1>4, <2>2, <2>3, <2>4
  <2> QED BY <2>5 DEF r
<1>9. CASE shape.use = 1
  BY <1>5, <1>6, <1>7, <1>9 DEF BindAndExecute
<1>10. CASE shape.use = 0
  BY <1>5, <1>6, <1>7, <1>10 DEF Sqlite3Fetch
<1> QED BY <1>3, <1>8, <1>9, <1>10

LEMMA MysqlRuns ==
  ASSUME WithoutInto, Stored, NEW b, Executable(b), ~ b.justDescribed, NEW n \in 0 .. MaxSize,
         n <= Max({1, shape.use})
  PROVE  Runs(MysqlExecute(b, n), n)
<1> DEFINE bulk == ~ b.justDescribed /\ shape.use > 1 /\ n > 1
           q == IF b.justDescribed THEN b.runs ELSE b.runs + (IF bulk THEN n ELSE 1)
           run == [b EXCEPT !.runs = q, !.justDescribed = FALSE]
           got == [run EXCEPT !.current = 0, !.consume = 0, !.number = rows]
           none == [run EXCEPT !.number = 0]
           some == rows > 0
           m == Max({1, shape.use})
           r == MysqlExecute(b, n)
<1>0. /\ rows \in 0 .. MaxRows /\ rows \in Nat /\ n \in Nat
      /\ 0 \in 0 .. MaxSize /\ 0 \in 0 .. MaxCursor + MaxSize
      /\ 0 \in 0 .. MaxRows /\ FALSE \in BOOLEAN /\ (~ shape.columns => rows = 0)
  BY StatementAssumption DEF WithoutInto
<1>m. m \in 1 .. MaxSize /\ m >= 1 /\ m >= shape.use /\ m \in Nat /\ shape.use \in Nat /\ n <= m
  BY Rounds
<1>1. b \in BackendType /\ b.runs = 0 /\ (~ shape.columns => b.current = 0 /\ b.consume = 0)
  BY DEF Executable
<1> HIDE DEF m
<1>q. q \in Nat /\ q <= m /\ (shape.use <= 1 => q = 1)
  BY <1>0, <1>m, <1>1
<1>2. r = IF bulk THEN Result(run, FALSE)
          ELSE IF ~ shape.columns THEN Result(none, FALSE)
          ELSE IF n > 0 /\ some THEN MysqlFetch(got, n) ELSE Result(got, some)
  BY DEF MysqlExecute
<1> HIDE DEF q
<1>3. /\ run \in BackendType /\ run.runs = q /\ ~ run.justDescribed
      /\ run.current = b.current /\ run.consume = b.consume
  BY <1>0, <1>1, <1>q DEF BackendType
<1> HIDE DEF run
<1>4. /\ got \in BackendType /\ got.runs = q /\ ~ got.justDescribed
      /\ got.current = 0 /\ got.consume = 0 /\ got.number = rows
  BY <1>0, <1>3 DEF BackendType
<1>5. /\ none \in BackendType /\ none.runs = q /\ ~ none.justDescribed
      /\ none.current = b.current /\ none.consume = b.consume
  BY <1>0, <1>3 DEF BackendType
<1> HIDE DEF got, none
<1>7. ASSUME NEW a, a.be \in BackendType, ~ a.be.justDescribed, a.ok \in BOOLEAN, a.be.runs = q,
             ~ shape.columns => a.be.current = 0 /\ a.be.consume = 0,
             a.ok /\ n > 0 => a.be.current = 0 /\ rows >= 1
      PROVE  Runs(a, n)
  <2>1. a.ok /\ n > 0 => a.be.current + 1 \in 0 .. MaxRows
    <3>1. rows >= 1 => 0 + 1 \in 0 .. MaxRows
      BY <1>0, StatementAssumption
    <3> QED BY <1>7, <3>1
  <2>2. a.be.runs <= m
    BY <1>7, <1>q
  <2> QED BY <1>7, <1>q, <2>1, <2>2 DEF Runs, m
<1>8. CASE bulk
  <2>1. r = Result(run, FALSE)
    BY <1>2, <1>8
  <2> HIDE DEF r
  <2>2. r.be = run /\ r.ok \in BOOLEAN /\ ~ r.ok
    BY <2>1, ResultFields
  <2>3. Runs(r, n)
    BY <1>1, <1>3, <1>7, <2>2
  <2> QED BY <2>3 DEF r
<1>9. CASE ~ bulk /\ ~ shape.columns
  <2>1. r = Result(none, FALSE)
    BY <1>2, <1>9
  <2> HIDE DEF r
  <2>2. r.be = none /\ r.ok \in BOOLEAN /\ ~ r.ok
    BY <2>1, ResultFields
  <2>3. Runs(r, n)
    BY <1>1, <1>5, <1>7, <2>2
  <2> QED BY <2>3 DEF r
<1>10. CASE ~ bulk /\ shape.columns /\ ~ (n > 0 /\ some)
  <2>1. r = Result(got, some)
    BY <1>2, <1>10
  <2>0. some \in BOOLEAN
    OBVIOUS
  <2> HIDE DEF r, some
  <2>2. r.be = got /\ r.ok \in BOOLEAN /\ (r.ok <=> some)
    BY <2>0, <2>1, ResultFields
  <2>3. r.ok /\ n > 0 => FALSE
    BY <1>10, <2>2
  <2>4. Runs(r, n)
    BY <1>4, <1>7, <2>2, <2>3
  <2> QED BY <2>4 DEF r
<1>11. CASE ~ bulk /\ shape.columns /\ n > 0 /\ some
  <2> DEFINE k == Less(n, rows - 0)
             ok == 0 + n <= rows
             e == [got EXCEPT !.current = 0, !.consume = k]
  <2>1. r = MysqlFetch(got, n)
    BY <1>2, <1>11
  <2>2. rows >= 1 /\ rows \in Int
    BY <1>0, <1>11
  <2>3. Min({n, rows - 0}) = k
    <3>1. n \in Int /\ rows - 0 \in Int
      BY <1>0
    <3> QED BY <3>1, MinOf, Zenon
  <2>4. r = Result(e, ok)
    <3>1. got.current + got.consume = 0 /\ got.number # 0 /\ ~ (0 >= got.number)
      BY <1>4, <2>2
    <3> HIDE DEF r, k, some, bulk
    <3> QED BY <1>4, <2>1, <2>3, <3>1 DEF MysqlFetch
  <2>5. k \in 0 .. MaxSize /\ ok \in BOOLEAN
    <3>1. k \in 0 .. MaxSize
      BY <1>0, <2>2, StatementAssumption DEF Less
    <3>2. ok \in BOOLEAN
      OBVIOUS
    <3> QED BY <3>1, <3>2
  <2> HIDE DEF k, ok, r
  <2>6. e \in BackendType /\ ~ e.justDescribed /\ e.runs = q /\ e.current = 0
    BY <1>0, <1>4, <2>5 DEF BackendType
  <2> HIDE DEF e
  <2>7. r.be = e /\ r.ok \in BOOLEAN
    BY <2>4, <2>5, ResultFields
  <2>8. Runs(r, n)
    BY <1>7, <1>11, <2>2, <2>6, <2>7
  <2> QED BY <2>8 DEF r
<1> QED BY <1>8, <1>9, <1>10, <1>11

\* The backends with a cursor: run is the statement just executed, r what a fetch from it gives.
LEMMA CursorRuns ==
  ASSUME WithoutInto, ~ Stored, NEW r, NEW n,
         r.be \in BackendType, ~ r.be.justDescribed, r.ok \in BOOLEAN, r.be.runs <= Max({1, shape.use})
  PROVE  Runs(r, n)
BY BackendFields DEF Runs

LEMMA CursorFetched ==
  ASSUME WithoutInto, NEW b \in BackendType, b.at = 0, b.ready, ~ b.justDescribed, NEW n \in 0 .. MaxSize,
         NEW a, a = Advanced(b, n)
  PROVE  /\ a \in BackendType /\ a.runs = b.runs /\ ~ a.justDescribed
         /\ FirebirdFetch(b, n).be \in BackendType /\ FirebirdFetch(b, n).ok \in BOOLEAN
         /\ FirebirdFetch(b, n).be.runs = b.runs /\ ~ FirebirdFetch(b, n).be.justDescribed
         /\ OracleFetch(b, n) = FirebirdFetch(b, n)
<1> DEFINE k == Less(n, rows - b.at)
           full == a.count = n
           e == [a EXCEPT !.ready = full]
<1>0. rows \in 0 .. MaxRows /\ b.at <= rows
  BY StatementAssumption DEF WithoutInto
<1>1. a \in BackendType /\ a.runs = b.runs /\ a.justDescribed = b.justDescribed
  BY <1>0, AdvancedFields
<1>2. FirebirdFetch(b, n) = Result(e, full) /\ OracleFetch(b, n) = Result(e, full)
  BY DEF FirebirdFetch, OracleFetch
<1>3. full \in BOOLEAN
  OBVIOUS
<1> HIDE DEF full
<1>4. e \in BackendType /\ e.runs = b.runs /\ ~ e.justDescribed
  BY <1>1, <1>3 DEF BackendType
<1> HIDE DEF e
<1>5. Result(e, full).be = e /\ Result(e, full).ok \in BOOLEAN
  BY <1>3, ResultFields
<1> QED BY <1>1, <1>2, <1>4, <1>5

LEMMA FirebirdRuns ==
  ASSUME WithoutInto, shape.kind = "firebird", NEW b, Executable(b), NEW n \in 0 .. MaxSize
  PROVE  Runs(FirebirdExecute(b, n), n)
<1> DEFINE m == Max({1, shape.use})
           q == b.runs + m
           run == [b EXCEPT !.at = 0, !.ready = shape.columns, !.runs = q]
           r == FirebirdExecute(b, n)
<1>0. ~ Stored /\ 0 \in 0 .. MaxRows /\ shape.columns \in BOOLEAN
  BY StatementAssumption DEF Stored, WithoutInto, ShapeType
<1>1. b \in BackendType /\ b.runs = 0 /\ ~ b.justDescribed
  BY <1>0 DEF Executable
<1>2. q = m /\ q \in Nat /\ q <= m
  <2>1. m \in Nat
    BY Rounds
  <2> HIDE DEF m
  <2> QED BY <1>1, <2>1
<1>3. r = IF shape.columns /\ n > 0 THEN FirebirdFetch(run, n) ELSE Result(run, shape.columns)
  BY DEF FirebirdExecute
<1>4. /\ run \in BackendType /\ run.at = 0 /\ (run.ready <=> shape.columns) /\ run.runs = q
      /\ ~ run.justDescribed
  <2> HIDE DEF q
  <2> QED BY <1>0, <1>1, <1>2 DEF BackendType
<1> HIDE DEF run, q
<1>5. CASE shape.columns /\ n > 0
  <2>1. /\ FirebirdFetch(run, n).be \in BackendType /\ FirebirdFetch(run, n).ok \in BOOLEAN
        /\ FirebirdFetch(run, n).be.runs = run.runs /\ ~ FirebirdFetch(run, n).be.justDescribed
    BY <1>4, <1>5, CursorFetched
  <2>2. r = FirebirdFetch(run, n)
    BY <1>3, <1>5
  <2> HIDE DEF r
  <2>3. r.be \in BackendType /\ r.ok \in BOOLEAN /\ ~ r.be.justDescribed /\ r.be.runs <= m
    BY <1>2, <1>4, <2>1, <2>2
  <2>4. Runs(r, n)
    BY <1>0, <2>3, CursorRuns
  <2> QED BY <2>4 DEF r
<1>6. CASE ~ (shape.columns /\ n > 0)
  <2>1. r = Result(run, shape.columns)
    BY <1>3, <1>6
  <2> HIDE DEF r
  <2>2. r.be = run /\ r.ok \in BOOLEAN
    BY <1>0, <2>1, ResultFields
  <2>3. Runs(r, n)
    BY <1>0, <1>2, <1>4, <2>2, CursorRuns
  <2> QED BY <2>3 DEF r
<1> QED BY <1>5, <1>6

LEMMA OracleRuns ==
  ASSUME WithoutInto, shape.kind = "oracle", NEW b, Executable(b), NEW n \in 0 .. MaxSize,
         n <= Max({1, shape.use})
  PROVE  Runs(OracleExecute(b, n), n)
<1> DEFINE m == Max({1, shape.use})
           q == b.runs + (IF shape.columns THEN 1 ELSE n)
           run == [b EXCEPT !.at = 0, !.ready = TRUE, !.count = 0, !.cache = <<>>, !.runs = q]
           some == n > 0
           e == [run EXCEPT !.ready = some]
           r == OracleExecute(b, n)
<1>0. ~ Stored /\ 0 \in 0 .. MaxRows /\ 0 \in 0 .. MaxSize /\ TRUE \in BOOLEAN /\ n \in Nat
  BY StatementAssumption DEF Stored
<1>1. b \in BackendType /\ b.runs = 0 /\ ~ b.justDescribed
  BY <1>0 DEF Executable
<1>2. q \in Nat /\ q <= m
  <2>1. m \in Nat /\ m >= 1 /\ n <= m
    BY Rounds
  <2> HIDE DEF m
  <2> QED BY <1>0, <1>1, <2>1
<1>3. r = IF shape.columns THEN OracleFetch(run, n) ELSE Result(e, some)
  BY DEF OracleExecute
<1>4. run \in BackendType /\ run.at = 0 /\ run.ready /\ run.runs = q /\ ~ run.justDescribed
  <2> HIDE DEF q
  <2>1. <<>> \in Seq(1 .. MaxRows)
    BY EmptySeq
  <2> QED BY <1>0, <1>1, <1>2, <2>1 DEF BackendType
<1> HIDE DEF run, q
<1>5. CASE shape.columns
  <2>1. /\ OracleFetch(run, n).be \in BackendType /\ OracleFetch(run, n).ok \in BOOLEAN
        /\ OracleFetch(run, n).be.runs = run.runs /\ ~ OracleFetch(run, n).be.justDescribed
    <3>1. /\ FirebirdFetch(run, n).be \in BackendType /\ FirebirdFetch(run, n).ok \in BOOLEAN
          /\ FirebirdFetch(run, n).be.runs = run.runs /\ ~ FirebirdFetch(run, n).be.justDescribed
          /\ OracleFetch(run, n) = FirebirdFetch(run, n)
      BY <1>4, CursorFetched
    <3> QED BY <3>1
  <2>2. r = OracleFetch(run, n)
    BY <1>3, <1>5
  <2> HIDE DEF r
  <2>3. r.be \in BackendType /\ r.ok \in BOOLEAN /\ ~ r.be.justDescribed /\ r.be.runs <= m
    BY <1>2, <1>4, <2>1, <2>2
  <2>4. Runs(r, n)
    BY <1>0, <2>3, CursorRuns
  <2> QED BY <2>4 DEF r
<1>6. CASE ~ shape.columns
  <2>0. some \in BOOLEAN
    OBVIOUS
  <2>1. r = Result(e, some)
    BY <1>3, <1>6
  <2> HIDE DEF r, some
  <2>2. e \in BackendType /\ e.runs = q /\ ~ e.justDescribed
    BY <1>4, <2>0 DEF BackendType
  <2> HIDE DEF e
  <2>3. r.be = e /\ r.ok \in BOOLEAN
    BY <2>0, <2>1, ResultFields
  <2>4. Runs(r, n)
    BY <1>0, <1>2, <2>2, <2>3, CursorRuns
  <2> QED BY <2>4 DEF r
<1> QED BY <1>5, <1>6

LEMMA OdbcRuns ==
  ASSUME WithoutInto, shape.kind \in {"odbc", "odbc_rows", "db2"}, NEW b, Executable(b),
         NEW n \in 0 .. MaxSize
  PROVE  Runs(OdbcExecute(b, n), n) /\ Runs(Db2Execute(b, n), n)
<1> DEFINE m == Max({1, shape.use})
           q == b.runs + m
           run == [b EXCEPT !.at = 0, !.runs = q]
           a == Advanced(run, n)
           full == a.count = n
           some == a.count > 0
           ok == IF shape.kind = "odbc_rows" THEN full ELSE some
           k == Less(n, rows - run.at)
<1>0. ~ Stored /\ 0 \in 0 .. MaxRows /\ rows \in 0 .. MaxRows /\ 0 <= rows
  BY StatementAssumption DEF Stored, WithoutInto
<1>1. b \in BackendType /\ b.runs = 0 /\ ~ b.justDescribed
  BY <1>0 DEF Executable
<1>2. q \in Nat /\ q <= m
  <2>1. m \in Nat
    BY Rounds
  <2> HIDE DEF m
  <2> QED BY <1>1, <2>1
<1>3. /\ OdbcExecute(b, n) = IF n > 0 /\ shape.columns THEN Result(a, ok) ELSE Result(run, TRUE)
      /\ Db2Execute(b, n) = IF n > 0 /\ shape.columns THEN Result(a, some) ELSE Result(run, TRUE)
  BY DEF OdbcExecute, Db2Execute, OdbcFetch, Db2Fetch
<1>4. run \in BackendType /\ run.at = 0 /\ run.runs = q /\ ~ run.justDescribed
  <2> HIDE DEF q
  <2> QED BY <1>0, <1>1, <1>2 DEF BackendType
<1> HIDE DEF run, q
<1>5. a \in BackendType /\ a.runs = run.runs /\ a.justDescribed = run.justDescribed
  BY <1>0, <1>4, AdvancedFields
<1>6. some \in BOOLEAN /\ ok \in BOOLEAN
  <2>1. full \in BOOLEAN /\ some \in BOOLEAN
    OBVIOUS
  <2> HIDE DEF full, some
  <2>2. CASE shape.kind = "odbc_rows"
    BY <2>1, <2>2
  <2>3. CASE shape.kind # "odbc_rows"
    BY <2>1, <2>3
  <2> QED BY <2>2, <2>3
<1> HIDE DEF a, full, some, ok
<1>7. ASSUME NEW e \in {run, a}, NEW y \in BOOLEAN
      PROVE  Runs(Result(e, y), n)
  <2>1. Result(e, y).be = e /\ Result(e, y).ok \in BOOLEAN
    BY ResultFields
  <2>2. e \in BackendType /\ ~ e.justDescribed /\ e.runs <= m
    BY <1>2, <1>4, <1>5
  <2> QED BY <1>0, <2>1, <2>2, CursorRuns
<1>8. Runs(Result(a, ok), n) /\ Runs(Result(a, some), n) /\ Runs(Result(run, TRUE), n)
  BY <1>6, <1>7
<1> QED BY <1>3, <1>8

LEMMA ExecuteRuns ==
  ASSUME WithoutInto, NEW b, Executable(b), ~ b.justDescribed, NEW n \in 0 .. MaxSize,
         n <= Max({1, shape.use})
  PROVE  Runs(BackendExecute(b, n), n)
<1>1. CASE shape.kind = "sqlite3"
  <2>1. BackendExecute(b, n) = Sqlite3Execute(b, n)
    BY <1>1 DEF BackendExecute
  <2> QED BY <1>1, <2>1, Sqlite3Runs
<1>2. CASE shape.kind \in {"mysql", "postgresql"}
  <2>1. BackendExecute(b, n) = MysqlExecute(b, n)
    BY <1>2 DEF BackendExecute, PostgresqlExecute
  <2>2. Stored
    BY <1>2 DEF Stored
  <2> QED BY <2>1, <2>2, MysqlRuns
<1>3. CASE shape.kind = "firebird"
  <2>1. BackendExecute(b, n) = FirebirdExecute(b, n)
    BY <1>3 DEF BackendExecute
  <2> QED BY <1>3, <2>1, FirebirdRuns
<1>4. CASE shape.kind = "oracle"
  <2>1. BackendExecute(b, n) = OracleExecute(b, n)
    BY <1>4 DEF BackendExecute
  <2> QED BY <1>4, <2>1, OracleRuns
<1>5. CASE shape.kind = "db2"
  <2>1. BackendExecute(b, n) = Db2Execute(b, n)
    BY <1>5 DEF BackendExecute
  <2> QED BY <1>5, <2>1, OdbcRuns
<1>6. CASE shape.kind \in {"odbc", "odbc_rows"}
  <2>1. BackendExecute(b, n) = OdbcExecute(b, n)
    BY <1>6 DEF BackendExecute
  <2> QED BY <1>6, <2>1, OdbcRuns
<1> QED BY <1>1, <1>2, <1>3, <1>4, <1>5, <1>6 DEF ShapeType, WithoutInto

-------------------------------------------------------------------------------
(* What statement_impl does with what the backend gives                    *)

LEMMA ResizedFields ==
  ASSUME NEW v \in Seq(0 .. MaxRows), NEW m \in 0 .. MaxSize, NEW w, w = Resized(v, m)
  PROVE  /\ w \in Seq(0 .. MaxRows)
         /\ Len(w) = (IF shape.into = "vector" THEN m ELSE Len(v))
<1>1. 0 \in 0 .. MaxRows /\ m \in Nat
  BY StatementAssumption
<1>2. CASE shape.into = "vector"
  <2>1. w = [i \in 1 .. m |-> IF i <= Len(v) THEN v[i] ELSE 0]
    BY <1>2 DEF Resized
  <2>2. \A i \in 1 .. m : (IF i <= Len(v) THEN v[i] ELSE 0) \in 0 .. MaxRows
    <3>1. TAKE i \in 1 .. m
    <3>2. CASE i <= Len(v)
      <4>1. Len(v) \in Nat /\ i \in 1 .. Len(v)
        BY <1>1, <3>2, LenProperties
      <4>2. v[i] \in 0 .. MaxRows
        BY <4>1, ElementOfSeq
      <4> QED BY <3>2, <4>2
    <3>3. CASE ~ (i <= Len(v))
      BY <1>1, <3>3
    <3> QED BY <3>2, <3>3
  <2>3. w \in Seq(0 .. MaxRows) /\ Len(w) = m
    BY <1>1, <2>1, <2>2
  <2> QED BY <1>2, <2>3
<1>3. CASE shape.into # "vector"
  BY <1>3 DEF Resized
<1> QED BY <1>2, <1>3

\* n rows after c of them were asked for and k of them given; resize_intos() made the vector v.
Asked(n, c, k, r, v) ==
    /\ shape \in ShapeType /\ rows \in 0 .. MaxRows /\ vec \in Seq(0 .. MaxRows)
    /\ n \in 1 .. MaxSize /\ n = Len(vec) /\ (shape.into # "vector" => n = 1)
    /\ c \in 0 .. rows /\ k = Less(n, rows - c)
    /\ Gives(r, n, c)
    /\ r.ok => v = ResizedIntos(r.be, n)
    /\ ~ r.ok /\ n > 1 => v = ResizedIntos(r.be, 0)
    /\ ~ r.ok /\ n = 1 => v = vec \/ v = Resized(vec, 0)
    /\ PostFetch(r.be, v, r.ok \/ (n > 1 /\ NumberOfRows(r.be) > 0))

\* The program has these rows and no others.
Handed(n, c, k, r) ==
    /\ r.ok \/ (n > 1 /\ NumberOfRows(r.be) > 0) <=> k >= 1
    /\ vec' \in Seq(0 .. MaxRows) /\ Len(vec') <= MaxSize
    /\ shape.into # "vector" => Len(vec') = 1
    /\ k >= 1 => Len(vec') = k /\ \A i \in 1 .. k : vec'[i] = c + i
    /\ Ready(be', c + k) /\ be'.runs = 1 /\ ~ be'.overrun
    /\ r.ok \/ n = 1 => ~ Stale(be')
    /\ r.ok \in BOOLEAN /\ (~ r.ok => c + k = rows)

LEMMA Deliver ==
  ASSUME NEW n, NEW c, NEW k, NEW r, NEW v, Asked(n, c, k, r, v)
  PROVE  Handed(n, c, k, r)
<1> USE DEF Asked
<1> DEFINE N == NumberOfRows(r.be)
           F == Fetched(r.be)
           g == r.ok \/ (n > 1 /\ NumberOfRows(r.be) > 0)
<1>1. /\ k \in 0 .. MaxSize /\ k <= n /\ c + k \in 0 .. rows /\ c + k \in 0 .. MaxRows
      /\ k < n => c + k = rows
  <2>1. n \in 0 .. MaxSize
    BY StatementAssumption
  <2> QED BY <2>1, LeftOver
<1>2. /\ Ready(r.be, c + k) /\ r.be.runs = 1 /\ r.ok \in BOOLEAN
      /\ r.ok => k >= 1
      /\ ~ r.ok => k < n
      /\ r.ok \/ n = 1 => ~ Stale(r.be)
      /\ N \in Int
      /\ shape.into = "vector" /\ r.ok => Less(n, N) = k
      /\ shape.into = "vector" /\ ~ r.ok /\ n > 1 => N = k \/ (N <= 0 /\ k = 0)
      /\ k >= 1 => Len(F) = k /\ \A i \in 1 .. k : F[i] = c + i
  BY DEF Gives
<1>g. g \in BOOLEAN /\ (g <=> r.ok \/ (n > 1 /\ NumberOfRows(r.be) > 0))
  BY <1>2
<1>p. PostFetch(r.be, v, g)
  OBVIOUS
<1> HIDE DEF N, F, g
<1>n. n \in Nat /\ k \in Nat /\ n >= 1 /\ n <= MaxSize /\ MaxSize \in Nat /\ c \in Nat /\ n \in 0 .. MaxSize
  BY <1>1, StatementAssumption
<1>3. g <=> k >= 1
  <2>1. g <=> r.ok \/ (n > 1 /\ N > 0)
    BY <1>g DEF N
  <2>2. CASE r.ok
    BY <1>2, <2>1, <2>2
  <2>3. CASE ~ r.ok /\ n = 1
    <3>1. ~ (k >= 1) /\ ~ (n > 1)
      BY <1>1, <1>2, <2>3, <1>n
    <3> QED BY <2>1, <2>3, <3>1
  <2>4. CASE ~ r.ok /\ n > 1
    <3>1. shape.into = "vector"
      BY <2>4
    <3>2. N > 0 <=> k >= 1
      BY <1>2, <1>n, <2>4, <3>1
    <3> QED BY <2>1, <2>4, <3>2
  <2>5. n = 1 \/ n > 1
    BY <1>n
  <2> QED BY <1>2, <2>2, <2>3, <2>4, <2>5
\* resize_intos() leaves room for these rows.
<1>4. /\ v \in Seq(0 .. MaxRows) /\ Len(v) <= MaxSize
      /\ shape.into # "vector" => Len(v) = 1
      /\ g => Len(v) = k
  <2> DEFINE M == Max({0, N})
  <2>0. M \in Int /\ M \in {0, N} /\ M >= 0 /\ M >= N
    <3>1. 0 \in Int /\ N \in Int
      BY <1>2
    <3> QED BY <3>1, MaxOf
  <2>1. ASSUME NEW m \in 0 .. MaxSize, v = Resized(vec, m), shape.into = "vector" /\ g => m = k
        PROVE  /\ v \in Seq(0 .. MaxRows) /\ Len(v) <= MaxSize
               /\ shape.into # "vector" => Len(v) = 1
               /\ g => Len(v) = k
    <3>1. v \in Seq(0 .. MaxRows) /\ Len(v) = (IF shape.into = "vector" THEN m ELSE Len(vec))
      BY <2>1, ResizedFields
    <3>2. shape.into # "vector" => n = 1 /\ (g => k = 1)
      BY <1>1, <1>3, <1>n
    <3>3. m <= MaxSize /\ 1 <= MaxSize
      BY <1>n
    <3> QED BY <2>1, <3>1, <3>2, <3>3
  <2>2. CASE r.ok
    <3> DEFINE m == IF n # 0 /\ n < M THEN n ELSE M
    <3>1. v = Resized(vec, m)
      BY <2>2 DEF ResizedIntos, N
    <3>2. CASE shape.into = "vector"
      <4>1. Less(n, N) = k /\ k >= 1
        BY <1>2, <2>2, <3>2
      <4>2. m = k
        BY <1>2, <1>n, <2>0, <4>1 DEF Less
      <4> HIDE DEF m
      <4>3. m \in 0 .. MaxSize
        BY <1>1, <4>2
      <4> QED BY <2>1, <3>1, <4>2, <4>3
    <3>3. CASE shape.into # "vector"
      <4> HIDE DEF m
      <4>1. v = Resized(vec, 0) /\ 0 \in 0 .. MaxSize
        BY <1>n, <3>1, <3>3 DEF Resized
      <4> QED BY <2>1, <3>3, <4>1
    <3> QED BY <3>2, <3>3
  <2>3. CASE ~ r.ok /\ n > 1
    <3>1. shape.into = "vector"
      BY <2>3
    <3>2. v = Resized(vec, M)
      BY <2>3 DEF ResizedIntos, N
    <3>3. M = k
      BY <1>2, <1>n, <2>0, <2>3, <3>1
    <3> HIDE DEF M
    <3>4. M \in 0 .. MaxSize
      BY <1>1, <3>3
    <3> QED BY <2>1, <3>2, <3>3, <3>4
  <2>4. CASE ~ r.ok /\ n = 1
    <3>1. ~ g
      BY <1>2, <1>3, <1>n, <2>4
    <3>2. 0 \in 0 .. MaxSize
      BY <1>n
    <3>3. CASE v = Resized(vec, 0)
      BY <2>1, <3>1, <3>2, <3>3
    <3>4. CASE v = vec
      BY <1>n, <2>4, <3>1, <3>4
    <3> QED BY <2>4, <3>3, <3>4
  <2>5. n = 1 \/ n > 1
    BY <1>n
  <2> QED BY <1>2, <2>2, <2>3, <2>4, <2>5
<1>5. /\ vec' = IF g THEN [i \in 1 .. Len(v) |-> IF i <= Len(F) THEN F[i] ELSE v[i]] ELSE v
      /\ be' = [r.be EXCEPT !.overrun = g /\ Len(F) > Len(v)]
  BY <1>p DEF PostFetch, F
<1>6. /\ vec' \in Seq(0 .. MaxRows) /\ Len(vec') <= MaxSize
      /\ shape.into # "vector" => Len(vec') = 1
      /\ g => Len(vec') = k /\ \A i \in 1 .. k : vec'[i] = c + i
  <2>1. CASE g
    <3>1. Len(v) = k /\ Len(F) = k /\ \A i \in 1 .. k : F[i] = c + i
      BY <1>2, <1>3, <1>4, <2>1
    <3>2. vec' = [i \in 1 .. k |-> c + i]
      BY <1>5, <1>n, <2>1, <3>1
    <3>3. MaxRows \in Nat /\ c + k <= MaxRows
      BY <1>1, StatementAssumption
    <3> DEFINE s == [i \in 1 .. k |-> c + i]
    <3>4. s \in Seq(1 .. MaxRows) /\ Len(s) = k /\ \A i \in 1 .. k : s[i] = c + i
      <4>1. k \in Nat /\ c \in Nat /\ MaxRows \in Nat /\ c + k <= MaxRows
        BY <1>n, <3>3
      <4>2. s = [i \in 1 .. k |-> c + i]
        OBVIOUS
      <4> HIDE DEF s
      <4> QED BY <4>1, <4>2, Run
    <3>5. s \in Seq(0 .. MaxRows)
      <4> HIDE DEF s
      <4> QED BY <3>3, <3>4
    <3>6. vec' = s
      BY <3>2
    <3> HIDE DEF s
    <3>7. k <= MaxSize /\ (shape.into # "vector" => k = 1)
      BY <1>1, <1>3, <1>n, <2>1
    <3> QED BY <3>4, <3>5, <3>6, <3>7
  <2>2. CASE ~ g
    BY <1>4, <1>5, <2>2
  <2> QED BY <2>1, <2>2
<1>7. /\ be' \in BackendType /\ ~ be'.overrun
      /\ be'.ready = r.be.ready /\ be'.at = r.be.at /\ be'.cache = r.be.cache
      /\ be'.count = r.be.count /\ be'.current = r.be.current /\ be'.consume = r.be.consume
      /\ be'.number = r.be.number /\ be'.justDescribed = r.be.justDescribed /\ be'.runs = r.be.runs
  <2> DEFINE over == g /\ Len(F) > Len(v)
  <2>1. over \in BOOLEAN /\ ~ over
    <3>1. CASE g
      <4>1. Len(v) = k /\ Len(F) = k
        BY <1>2, <1>3, <1>4, <3>1
      <4> QED BY <1>n, <4>1
    <3>2. CASE ~ g
      BY <3>2
    <3> QED BY <3>1, <3>2
  <2> HIDE DEF over
  <2>2. be' = [r.be EXCEPT !.overrun = over] /\ r.be \in BackendType
    BY <1>2, <1>5 DEF over, Ready
  <2> QED BY <2>1, <2>2 DEF BackendType
<1>8. Ready(be', c + k)
  BY <1>2, <1>7 DEF Ready
<1>9. r.ok \/ n = 1 => ~ Stale(be')
  BY <1>2, <1>7 DEF Stale
<1>10. r.ok \/ (n > 1 /\ NumberOfRows(r.be) > 0) <=> k >= 1
  BY <1>3, <1>g
<1>11. k >= 1 => Len(vec') = k /\ \A i \in 1 .. k : vec'[i] = c + i
  BY <1>3, <1>6
<1> QED BY <1>1, <1>2, <1>6, <1>7, <1>8, <1>9, <1>10, <1>11 DEF Handed

\* describe() leaves a backend that can execute; the call after the execution changes nothing.
DescribedAs(d, b, i) ==
    /\ Executable(d.be) /\ d.impl \in ImplType
    /\ d.impl.fetchSize = i.fetchSize /\ d.impl.initialFetchSize = i.initialFetchSize
    /\ shape.into # "row" => d.be = b
    /\ \A e : Describe([d EXCEPT !.be = e]) = [be |-> e, impl |-> d.impl]

LEMMA Describes ==
  ASSUME shape \in Shapes, Regular(shape), rows \in 0 .. MaxRows, ~ shape.columns => rows = 0,
         NEW b \in BackendType, b.runs = 0, ~ b.justDescribed,
         Stored /\ ~ shape.columns => b.current = 0 /\ b.consume = 0,
         NEW i \in ImplType, NEW d, d = Describe([be |-> b, impl |-> i])
  PROVE  DescribedAs(d, b, i)
<1> USE DEF DescribedAs
<1> DEFINE s == [be |-> b, impl |-> i]
<1>0. Executable(b)
  BY DEF Executable
<1>1. CASE shape.into # "row" \/ i.alreadyDescribed
  <2>1. d = s
    BY <1>1 DEF Describe
  <2>2. d.be = b /\ d.impl = i
    BY <2>1
  <2>3. ASSUME NEW e PROVE Describe([d EXCEPT !.be = e]) = [be |-> e, impl |-> d.impl]
    <3>1. [d EXCEPT !.be = e] = [be |-> e, impl |-> i]
      BY <2>1
    <3> QED BY <1>1, <2>2, <3>1 DEF Describe
  <2> QED BY <1>0, <2>2, <2>3
<1>2. CASE shape.into = "row" /\ ~ i.alreadyDescribed
  <2> DEFINE q == PrepareForDescribe(b)
             j == [i EXCEPT !.alreadyDescribed = shape.columns]
  <2>1. d = [be |-> q, impl |-> j]
    BY <1>2 DEF Describe
  <2>2. shape.columns = TRUE /\ TRUE \in BOOLEAN
    BY <1>2, StatementAssumption DEF Regular, ShapeType
  <2>3. j \in ImplType /\ j.alreadyDescribed /\ j.fetchSize = i.fetchSize /\ j.initialFetchSize = i.initialFetchSize
    BY <2>2 DEF ImplType
  <2> HIDE DEF q, j
  <2>4. d.be = q /\ d.impl = j
    BY <2>1
  <2>5. ASSUME NEW e PROVE Describe([d EXCEPT !.be = e]) = [be |-> e, impl |-> d.impl]
    <3>1. [d EXCEPT !.be = e] = [be |-> e, impl |-> j]
      BY <2>1
    <3> QED BY <1>2, <2>3, <2>4, <3>1 DEF Describe
  <2>6. Executable(q)
    <3>1. CASE Stored
      <4> DEFINE a == MysqlExecute(b, 1)
                 z == [a.be EXCEPT !.justDescribed = TRUE]
      <4>1. WithInto
        <5>1. shape.use \in {0, 1}
          <6>1. shape.use \in 0 .. MaxSize /\ ~ (shape.use > 1)
            BY <1>2, StatementAssumption DEF ShapeType
          <6> QED BY <6>1, StatementAssumption
        <5> QED BY <1>2, <5>1, StatementAssumption DEF WithInto
      <4>2. 1 \in 0 .. MaxSize /\ 1 <= 1 /\ 1 # 0
        BY StatementAssumption
      <4>3. Answers(a, 1)
        BY <1>0, <3>1, <4>1, <4>2, MysqlExecutes
      <4>4. a.be \in BackendType /\ a.be.runs = 1
        BY <4>2, <4>3 DEF Answers, Gives, Ready
      <4>5. q = z
        BY <3>1 DEF q, PrepareForDescribe
      <4> HIDE DEF a
      <4>6. z \in BackendType /\ z.justDescribed /\ z.runs = 1
        BY <2>2, <4>4 DEF BackendType
      <4> HIDE DEF z
      <4> QED BY <2>2, <3>1, <4>5, <4>6 DEF Executable
    <3>2. CASE ~ Stored
      BY <1>0, <3>2 DEF q, PrepareForDescribe
    <3> QED BY <3>1, <3>2
  <2> QED BY <1>2, <2>3, <2>4, <2>5, <2>6
<1> QED BY <1>1, <1>2

-------------------------------------------------------------------------------
(* The inductive invariant                                                 *)

Regulars == \A s \in Shapes : Regular(s)

\* execute() has run with a vector that had a size.
Started == last # "prepared" /\ (impl.initialFetchSize # 0 \/ impl.fetchSize = 0)

\* The backend has given what the program has read; fetchSize_ 0 remembers the end.
StartInv ==
    shape.into # "none" /\ Started =>
        /\ Ready(be, Len(seen))
        /\ impl.fetchSize # 0 => ~ Stale(be)
        /\ impl.fetchSize = 0 => Len(seen) = rows /\ be.runs = 1

ShapeInv ==
    /\ ~ shape.columns => rows = 0
    /\ shape.into # "vector" => Len(vec) = 1
    /\ shape.into = "none" => /\ be.runs <= Max({1, shape.use})
                              /\ seen = <<>>
                              /\ last # "prepared" => impl.fetchSize = 0
    /\ last = "prepared" => impl.fetchSize # 0
    /\ ~ be.justDescribed
    /\ Stored /\ ~ shape.columns => be.current = 0 /\ be.consume = 0

Promises == RowsInOrder /\ EndIsComplete /\ NoOverrun /\ DataHasRows /\ RunsOnce

IInv == TypeOK /\ StartInv /\ ShapeInv /\ Promises

LEMMA ImplFields ==
  ASSUME NEW i \in ImplType
  PROVE  i.fetchSize \in 0 .. MaxSize /\ i.initialFetchSize \in 0 .. MaxSize /\ i.alreadyDescribed \in BOOLEAN
BY DEF ImplType

LEMMA WithIntoHolds ==
  ASSUME Regulars, IInv, shape.into # "none"
  PROVE  WithInto /\ shape \in ShapeType
<1>1. shape \in Shapes /\ rows \in 0 .. MaxRows /\ (~ shape.columns => rows = 0)
  BY DEF IInv, TypeOK, ShapeInv
<1>2. shape \in ShapeType /\ Regular(shape)
  BY <1>1, StatementAssumption DEF Regulars
<1>3. shape.use \in {0, 1}
  <2>1. shape.use \in 0 .. MaxSize /\ ~ (shape.use > 1)
    BY <1>1, <1>2, StatementAssumption DEF ShapeType
  <2> QED BY <2>1, StatementAssumption
<1> QED BY <1>1, <1>2, <1>3 DEF WithInto

\* A call that the backend has answered with the rows after c.
LEMMA Delivered ==
  ASSUME IInv, shape' = shape, rows' = rows, shape.into # "none", NEW c \in Nat, NEW k \in Nat,
         NEW g \in BOOLEAN, g => k >= 1, ~ g => c + k = rows,
         vec' \in Seq(0 .. MaxRows), Len(vec') <= MaxSize, shape.into # "vector" => Len(vec') = 1,
         Ready(be', c + k), be'.runs = 1, ~ be'.overrun,
         impl' \in ImplType, impl'.fetchSize # 0 => ~ Stale(be'), impl'.fetchSize = 0 => c + k = rows,
         seen' \in Seq(0 .. MaxRows), Len(seen') = c + k, \A i \in 1 .. c + k : seen'[i] = i,
         last' = IF g THEN "data" ELSE "end"
  PROVE  IInv'
<1>0. shape \in Shapes /\ rows \in 0 .. MaxRows /\ (~ shape.columns => rows = 0) /\ rows \in Nat
  BY StatementAssumption DEF IInv, TypeOK, ShapeInv
<1>1. be' \in BackendType /\ ~ be'.justDescribed /\ c + k \in 0 .. rows
  BY DEF Ready
<1>l. last' \in {"data", "end"} /\ (last' = "data" <=> g) /\ last' # "prepared" /\ last' # "performed"
  BY DEF IInv
<1>2. TypeOK'
  BY <1>0, <1>1, <1>l DEF TypeOK
<1>3. StartInv'
  <2>1. Ready(be, Len(seen))'
    BY DEF Ready, Stored
  <2>2. Stale(be)' <=> Stale(be')
    BY DEF Stale
  <2> QED BY <2>1, <2>2 DEF StartInv
<1>4. ShapeInv'
  <2>1. Stored /\ ~ shape.columns => be'.current = 0 /\ be'.consume = 0
    BY DEF Ready
  <2>2. Stored' <=> Stored
    BY DEF Stored
  <2> QED BY <1>0, <1>1, <1>l, <2>1, <2>2 DEF ShapeInv
<1>5. RowsInOrder'
  BY <1>0, <1>1 DEF RowsInOrder
<1>6. EndIsComplete'
  BY <1>l DEF EndIsComplete
<1>7. NoOverrun'
  BY DEF NoOverrun
<1>8. DataHasRows'
  <2>1. g => c + k > 0
    OBVIOUS
  <2> QED BY <1>l, <2>1 DEF DataHasRows
<1>9. RunsOnce'
  BY <1>l DEF RunsOnce
<1> QED BY <1>2, <1>3, <1>4, <1>5, <1>6, <1>7, <1>8, <1>9 DEF IInv, Promises

LEMMA InitInv == ASSUME Regulars, Init PROVE IInv
<1>0. /\ 0 \in 0 .. MaxRows /\ 0 \in 0 .. MaxSize /\ 0 \in 0 .. MaxCursor + MaxSize /\ 1 \in 0 .. MaxSize
      /\ MaxSize \in Nat /\ 1 <= MaxSize /\ MaxRows \in Nat
  BY StatementAssumption
<1>1. shape \in Shapes /\ rows \in 0 .. MaxRows /\ (~ shape.columns => rows = 0) /\ 0 <= rows
  BY <1>0 DEF Init
<1>2. impl \in ImplType /\ impl.fetchSize = 1
  BY <1>0 DEF Init, ImplType
<1>3. /\ be \in BackendType /\ ~ be.justDescribed /\ be.current = 0 /\ be.consume = 0 /\ be.runs = 0
      /\ ~ be.overrun
  <2>1. <<>> \in Seq(1 .. MaxRows)
    BY EmptySeq
  <2> QED BY <1>0, <2>1 DEF Init, BackendType
<1>4. vec \in Seq(0 .. MaxRows) /\ Len(vec) = 1 /\ seen \in Seq(0 .. MaxRows) /\ seen = <<>> /\ Len(seen) = 0
  <2>1. <<>> \in Seq(0 .. MaxRows) /\ Len(<<>>) = 0
    BY EmptySeq
  <2>2. <<0>> \in Seq(0 .. MaxRows) /\ Len(<<0>>) = 1
    BY <1>0
  <2> QED BY <2>1, <2>2 DEF Init
<1>5. last = "prepared"
  BY DEF Init
<1>6. TypeOK
  BY <1>0, <1>1, <1>2, <1>3, <1>4, <1>5 DEF TypeOK
<1>7. StartInv
  BY <1>5 DEF StartInv, Started
<1>8. ShapeInv
  <2> DEFINE m == Max({1, shape.use})
  <2>1. shape.into = "none" => be.runs <= m
    <3>1. shape.use \in Int
      <4>1. shape.use \in 0 .. MaxSize
        BY <1>1, StatementAssumption DEF ShapeType
      <4> QED BY <4>1
    <3>2. m \in {1, shape.use} /\ m >= 1
      <4>1. 1 \in Int /\ shape.use \in Int
        BY <3>1
      <4> QED BY <4>1, MaxOf
    <3> HIDE DEF m
    <3> QED BY <1>3, <3>2
  <2> QED BY <1>1, <1>2, <1>3, <1>4, <1>5, <2>1 DEF ShapeInv
<1>9. Promises
  <2>1. RowsInOrder
    BY <1>0, <1>1, <1>4 DEF RowsInOrder
  <2> QED BY <1>3, <1>5, <2>1 DEF Promises, EndIsComplete, NoOverrun, DataHasRows, RunsOnce
<1> QED BY <1>6, <1>7, <1>8, <1>9 DEF IInv

LEMMA ResizeInv ==
  ASSUME IInv, NEW n \in 0 .. MaxSize, ResizeVector(n)
  PROVE  IInv'
<1>0. shape.into = "vector" /\ UNCHANGED <<shape, rows, impl, be, seen, last>> /\ vec' = Resized(vec, n)
  BY DEF ResizeVector
<1>1. vec' \in Seq(0 .. MaxRows) /\ Len(vec') <= MaxSize
  <2> DEFINE w == Resized(vec, n)
  <2>0. vec \in Seq(0 .. MaxRows)
    BY DEF IInv, TypeOK
  <2>1. w \in Seq(0 .. MaxRows) /\ Len(w) = (IF shape.into = "vector" THEN n ELSE Len(vec))
    BY <2>0, ResizedFields
  <2> HIDE DEF w
  <2>2. vec' = w /\ n <= MaxSize
    BY <1>0, StatementAssumption DEF w
  <2> QED BY <1>0, <2>1, <2>2
<1>2. TypeOK'
  BY <1>0, <1>1 DEF IInv, TypeOK
<1>3. StartInv'
  <2>1. Ready(be, Len(seen))' <=> Ready(be, Len(seen))
    BY <1>0 DEF Ready, Stored
  <2>2. Stale(be)' <=> Stale(be)
    BY <1>0 DEF Stale
  <2>3. Started' <=> Started
    BY <1>0 DEF Started
  <2> QED BY <1>0, <2>1, <2>2, <2>3 DEF IInv, StartInv
<1>4. ShapeInv'
  <2>1. Stored' <=> Stored
    BY <1>0 DEF Stored
  <2> QED BY <1>0, <2>1 DEF IInv, ShapeInv
<1>5. Promises'
  <2>1. Stored' <=> Stored
    BY <1>0 DEF Stored
  <2> QED BY <1>0, <2>1 DEF IInv, Promises, RowsInOrder, EndIsComplete, NoOverrun, DataHasRows, RunsOnce
<1> QED BY <1>2, <1>3, <1>4, <1>5 DEF IInv

\* A call that gives nothing and leaves the backend alone.
LEMMA NothingGiven ==
  ASSUME IInv, UNCHANGED <<shape, rows, be, seen>>, impl' \in ImplType, impl'.fetchSize = impl.fetchSize,
         impl'.initialFetchSize \in {0, impl.initialFetchSize},
         vec' \in Seq(0 .. MaxRows), Len(vec') <= MaxSize, shape.into # "vector" => Len(vec') = 1,
         \/ last' \in {"threw", "noroom"} /\ shape.into # "none"
         \/ last' = "end" /\ last # "prepared" /\ impl.fetchSize = 0,
         last = "prepared" => shape.into # "none" /\ impl'.initialFetchSize = 0
  PROVE  IInv'
<1>0. Stored' <=> Stored
  BY DEF Stored
<1>1. TypeOK'
  BY DEF IInv, TypeOK
<1>2. impl.fetchSize \in Int /\ impl'.fetchSize \in Int
  BY StatementAssumption, ImplFields DEF IInv, TypeOK
<1>3. Started' => Started
  BY DEF Started, IInv, ShapeInv
<1>4. StartInv'
  <2>1. Ready(be, Len(seen))' <=> Ready(be, Len(seen))
    BY <1>0 DEF Ready
  <2>2. Stale(be)' <=> Stale(be)
    BY DEF Stale
  <2> QED BY <1>3, <2>1, <2>2 DEF IInv, StartInv
<1>5. ShapeInv'
  BY <1>0 DEF IInv, ShapeInv
<1>6. last' = "end" /\ shape.into # "none" => Len(seen) = rows /\ be.runs = 1
  BY DEF IInv, StartInv, Started
<1>7. Promises'
  BY <1>0, <1>6 DEF IInv, Promises, ShapeInv, RowsInOrder, EndIsComplete, NoOverrun, DataHasRows, RunsOnce
<1> QED BY <1>1, <1>4, <1>5, <1>7 DEF IInv

LEMMA FetchInv == ASSUME Regulars, IInv, Fetch PROVE IInv'
<1> DEFINE size == IntosSize
           r == BackendFetch(be, size)
           gotData == r.ok \/ (size > 1 /\ NumberOfRows(r.be) > 0)
           resized == IF r.ok THEN ResizedIntos(r.be, size)
                      ELSE IF size > 1 THEN ResizedIntos(r.be, 0) ELSE Resized(vec, 0)
           left == IF ~ r.ok /\ size > 1 THEN 0 ELSE size
<1>0. /\ last # "prepared" /\ be.current + be.consume <= MaxCursor /\ UNCHANGED <<shape, rows>>
      /\ \/ /\ impl.fetchSize = 0
            /\ vec' = Resized(vec, 0) /\ last' = "end"
            /\ UNCHANGED <<impl, be, seen>>
         \/ /\ impl.fetchSize # 0 /\ size > impl.initialFetchSize
            /\ last' = "threw"
            /\ UNCHANGED <<impl, be, vec, seen>>
         \/ /\ impl.fetchSize # 0 /\ size = 0
            /\ last' = "noroom"
            /\ UNCHANGED <<impl, be, vec, seen>>
         \/ /\ impl.fetchSize # 0 /\ size # 0 /\ size <= impl.initialFetchSize
            /\ impl' = [impl EXCEPT !.fetchSize = left]
            /\ PostFetch(r.be, resized, gotData)
            /\ seen' = IF gotData THEN seen \o vec' ELSE seen
            /\ last' = IF gotData THEN "data" ELSE "end"
  BY DEF Fetch
<1> HIDE DEF r, gotData, resized, left, size
<1>1. /\ shape \in Shapes /\ rows \in 0 .. MaxRows /\ impl \in ImplType /\ vec \in Seq(0 .. MaxRows)
      /\ Len(vec) <= MaxSize /\ seen \in Seq(0 .. MaxRows) /\ (shape.into # "vector" => Len(vec) = 1)
      /\ (~ shape.columns => rows = 0)
  BY DEF IInv, TypeOK, ShapeInv
<1>2. impl.fetchSize # 0 => shape.into # "none"
  BY <1>0 DEF IInv, ShapeInv
<1>3. CASE impl.fetchSize = 0 /\ vec' = Resized(vec, 0) /\ last' = "end" /\ UNCHANGED <<impl, be, seen>>
  <2> DEFINE w == Resized(vec, 0)
  <2>0. 0 \in 0 .. MaxSize
    BY StatementAssumption
  <2>1. w \in Seq(0 .. MaxRows) /\ Len(w) = (IF shape.into = "vector" THEN 0 ELSE Len(vec))
    BY <1>1, <2>0, ResizedFields
  <2> HIDE DEF w
  <2>2. vec' = w
    BY <1>3 DEF w
  <2>3. vec' \in Seq(0 .. MaxRows) /\ Len(vec') <= MaxSize /\ (shape.into # "vector" => Len(vec') = 1)
    BY <1>1, <2>1, <2>2, StatementAssumption
  <2> QED BY <1>0, <1>1, <1>3, <2>3, NothingGiven
<1>4. CASE impl.fetchSize # 0 /\ last' \in {"threw", "noroom"} /\ UNCHANGED <<impl, be, vec, seen>>
  BY <1>0, <1>1, <1>2, <1>4, NothingGiven
<1>5. CASE /\ impl.fetchSize # 0 /\ size # 0 /\ size <= impl.initialFetchSize
           /\ impl' = [impl EXCEPT !.fetchSize = left]
           /\ PostFetch(r.be, resized, gotData)
           /\ seen' = IF gotData THEN seen \o vec' ELSE seen
           /\ last' = IF gotData THEN "data" ELSE "end"
  <2> DEFINE c == Len(seen)
             k == Less(size, rows - c)
  <2>1. size = Len(vec) /\ size \in 1 .. MaxSize /\ (shape.into # "vector" => size = 1)
        /\ shape.into # "none" /\ shape \in ShapeType
    <3>1. size = Len(vec)
      BY <1>2, <1>5 DEF size, IntosSize
    <3>2. Len(vec) \in Nat
      BY <1>1, LenProperties
    <3> QED BY <1>1, <1>2, <1>5, <3>1, <3>2, StatementAssumption
  <2>2. Started
    <3>1. impl.initialFetchSize # 0
      BY <1>1, <1>5, <2>1, ImplFields, StatementAssumption
    <3> QED BY <1>0, <3>1 DEF Started
  <2>3. Ready(be, c) /\ ~ Stale(be)
    BY <1>5, <2>1, <2>2 DEF IInv, StartInv
  <2>4. c \in 0 .. rows /\ c \in Nat
    BY <1>1, <2>3 DEF Ready
  <2> HIDE DEF c
  <2>5. Gives(r, size, c)
    BY <1>0, <1>1, <2>1, <2>3, FetchGives DEF r
  <2>6. gotData \in BOOLEAN /\ (gotData <=> r.ok \/ (size > 1 /\ NumberOfRows(r.be) > 0))
    <3>1. r.ok \in BOOLEAN
      BY <2>5 DEF Gives
    <3> QED BY <3>1, Zenon DEF gotData
  <2>7. /\ r.ok => resized = ResizedIntos(r.be, size)
        /\ ~ r.ok /\ size > 1 => resized = ResizedIntos(r.be, 0)
        /\ ~ r.ok /\ size = 1 => resized = Resized(vec, 0)
    BY <2>1 DEF resized
  <2>8. /\ r.ok \/ (size > 1 /\ NumberOfRows(r.be) > 0) <=> k >= 1
        /\ vec' \in Seq(0 .. MaxRows) /\ Len(vec') <= MaxSize
        /\ shape.into # "vector" => Len(vec') = 1
        /\ k >= 1 => Len(vec') = k /\ \A i \in 1 .. k : vec'[i] = c + i
        /\ Ready(be', c + k) /\ be'.runs = 1 /\ ~ be'.overrun
        /\ r.ok \/ size = 1 => ~ Stale(be')
        /\ r.ok \in BOOLEAN /\ (~ r.ok => c + k = rows)
    <3>1. k = Less(size, rows - c)
      OBVIOUS
    <3>2. ~ r.ok /\ size = 1 => resized = vec \/ resized = Resized(vec, 0)
      BY <2>7
    <3>3. PostFetch(r.be, resized, r.ok \/ (size > 1 /\ NumberOfRows(r.be) > 0))
      BY <1>5 DEF gotData
    <3> HIDE DEF k
    <3>4. Asked(size, c, k, r, resized)
      BY <1>1, <2>1, <2>4, <2>5, <2>7, <3>1, <3>2, <3>3 DEF Asked
    <3>5. Handed(size, c, k, r)
      BY <3>4, Deliver
    <3> QED BY <3>5 DEF Handed
  <2>9. k \in 0 .. MaxSize /\ k \in Nat
    <3>1. size \in 0 .. MaxSize
      BY <2>1, StatementAssumption
    <3>2. k \in 0 .. MaxSize
      BY <1>1, <2>4, <3>1, LeftOver
    <3> QED BY <3>2, StatementAssumption
  <2> HIDE DEF k
  <2>g. gotData <=> k >= 1
    BY <2>6, <2>8
  <2>10. ~ gotData => k = 0 /\ c + k = rows
    BY <2>4, <2>6, <2>8, <2>9, <2>g
  <2>11. seen' \in Seq(0 .. MaxRows) /\ Len(seen') = c + k /\ \A i \in 1 .. c + k : seen'[i] = i
    <3>0. \A i \in 1 .. c : seen[i] = i
      BY DEF IInv, Promises, RowsInOrder, c
    <3>1. CASE gotData
      <4> DEFINE t == vec'
      <4>0. t \in Seq(0 .. MaxRows) /\ Len(t) = k /\ \A i \in 1 .. k : t[i] = c + i
        BY <2>8, <2>g, <3>1
      <4> HIDE DEF t
      <4>1. /\ seen \o t \in Seq(0 .. MaxRows) /\ Len(seen \o t) = c + k
            /\ \A i \in 1 .. c + k : (seen \o t)[i] = IF i <= c THEN seen[i] ELSE t[i - c]
        BY <1>1, <4>0, ConcatProperties DEF c
      <4>2. ASSUME NEW i \in 1 .. c + k PROVE (seen \o t)[i] = i
        <5>1. CASE i <= c
          BY <2>4, <2>9, <3>0, <4>1, <5>1
        <5>2. CASE ~ (i <= c)
          <6>1. i - c \in 1 .. k /\ c + (i - c) = i
            BY <2>4, <2>9, <5>2
          <6>2. t[i - c] = c + (i - c)
            BY <4>0, <6>1
          <6> QED BY <4>1, <5>2, <6>1, <6>2
        <5> QED BY <5>1, <5>2
      <4>3. seen' = seen \o t
        BY <1>5, <3>1 DEF t
      <4> QED BY <4>1, <4>2, <4>3
    <3>2. CASE ~ gotData
      <4>1. seen' = seen /\ k = 0
        BY <1>5, <2>10, <3>2
      <4>2. c + k = c
        BY <2>4, <4>1
      <4> QED BY <1>1, <3>0, <4>1, <4>2 DEF c
    <3> QED BY <2>6, <3>1, <3>2
  <2>12. /\ impl' \in ImplType /\ impl'.fetchSize = left /\ left \in 0 .. MaxSize
         /\ left # 0 => r.ok \/ size = 1
         /\ left = 0 => ~ r.ok
    <3>1. left \in 0 .. MaxSize
      BY <2>1, StatementAssumption DEF left
    <3>2. (left # 0 => r.ok \/ size = 1) /\ (left = 0 => ~ r.ok)
      <4>1. size = 1 \/ size > 1
        BY <2>1
      <4>2. size # 0
        BY <1>5
      <4> QED BY <4>1, <4>2 DEF left
    <3>3. impl' = [impl EXCEPT !.fetchSize = left]
      BY <1>5
    <3> QED BY <1>1, <3>1, <3>2, <3>3 DEF ImplType
  <2>13. impl'.fetchSize # 0 => ~ Stale(be')
    BY <2>8, <2>12
  <2>14. impl'.fetchSize = 0 => c + k = rows
    BY <2>8, <2>12
  <2>15. last' = IF gotData THEN "data" ELSE "end"
    BY <1>5
  <2> QED BY <1>0, <2>1, <2>4, <2>6, <2>g, <2>8, <2>9, <2>10, <2>11, <2>12, <2>13, <2>14, <2>15, Delivered
<1> QED BY <1>0, <1>3, <1>4, <1>5

\* What execute() hands to the backend: the call of describe() before it.
ExecutableFrom(d, size) ==
    /\ Executable(d.be) /\ d.impl \in ImplType
    /\ d.impl.fetchSize = size /\ d.impl.initialFetchSize = size
    /\ shape.into = "none" => ~ d.be.justDescribed
    /\ \A e : Describe([d EXCEPT !.be = e]) = [be |-> e, impl |-> d.impl]

LEMMA Described ==
  ASSUME Regulars, IInv, NEW size \in 0 .. MaxSize, NEW b, b = [be EXCEPT !.runs = 0],
         NEW i, i = [impl EXCEPT !.fetchSize = size, !.initialFetchSize = size],
         NEW d, d = Describe([be |-> b, impl |-> i])
  PROVE  ExecutableFrom(d, size)
<1>1. /\ shape \in Shapes /\ Regular(shape) /\ rows \in 0 .. MaxRows /\ (~ shape.columns => rows = 0)
      /\ be \in BackendType /\ impl \in ImplType /\ ~ be.justDescribed
      /\ (Stored /\ ~ shape.columns => be.current = 0 /\ be.consume = 0)
  BY DEF Regulars, IInv, TypeOK, ShapeInv
<1>2. /\ b \in BackendType /\ b.runs = 0 /\ b.justDescribed = be.justDescribed
      /\ b.current = be.current /\ b.consume = be.consume
  BY <1>1 DEF BackendType
<1>3. i \in ImplType /\ i.fetchSize = size /\ i.initialFetchSize = size
  BY <1>1 DEF ImplType
<1>4. DescribedAs(d, b, i)
  BY <1>1, <1>2, <1>3, Describes
<1>5. shape.into = "none" => ~ d.be.justDescribed
  BY <1>1, <1>2, <1>4 DEF DescribedAs
<1> QED BY <1>3, <1>4, <1>5 DEF DescribedAs, ExecutableFrom

LEMMA ExecuteInv == ASSUME Regulars, IInv, NEW exchange \in BOOLEAN, Execute(exchange) PROVE IInv'
<1> DEFINE size == IntosSize
           num == IF exchange THEN Max({1, size, shape.use}) ELSE 0
           b0 == [be EXCEPT !.runs = 0]
           i0 == [impl EXCEPT !.fetchSize = size, !.initialFetchSize = size]
           described == Describe([be |-> b0, impl |-> i0])
           r == BackendExecute(described.be, num)
           after == Describe([described EXCEPT !.be = r.be])
           resized == IF r.ok
                      THEN IF num > 0 THEN ResizedIntos(after.be, num) ELSE vec
                      ELSE IF size > 1 THEN ResizedIntos(after.be, 0) ELSE vec
           gotData == IF r.ok THEN num > 0 ELSE size > 1 /\ NumberOfRows(after.be) > 0
<1>0. /\ exchange => shape.exchange
      /\ shape.into = "vector" => Len(vec) = 0 \/ Len(vec) >= shape.min
      /\ IF shape.into # "none" /\ size = 0
         THEN /\ last' = "threw"
              /\ impl' = [impl EXCEPT !.initialFetchSize = 0]
              /\ UNCHANGED <<be, vec, seen>>
         ELSE /\ impl' = after.impl
              /\ PostFetch(after.be, resized, gotData /\ num > 0)
              /\ seen' = IF gotData /\ shape.into # "none" THEN vec' ELSE <<>>
              /\ last' = IF gotData THEN "data"
                         ELSE IF exchange THEN "end" ELSE "performed"
      /\ shape' = shape /\ rows' = rows
  BY DEF Execute
<1>1. /\ shape \in Shapes /\ shape \in ShapeType /\ Regular(shape) /\ rows \in 0 .. MaxRows /\ impl \in ImplType
      /\ vec \in Seq(0 .. MaxRows) /\ Len(vec) <= MaxSize /\ Len(vec) \in Nat
      /\ (shape.into # "vector" => Len(vec) = 1) /\ (~ shape.columns => rows = 0)
      /\ MaxSize \in Nat /\ 1 <= MaxSize /\ rows \in Nat /\ MaxRows \in Nat
      /\ 0 \in 0 .. MaxSize /\ 1 \in 0 .. MaxSize
  <2>1. shape \in Shapes /\ vec \in Seq(0 .. MaxRows) /\ Len(vec) \in Nat
    BY LenProperties DEF IInv, TypeOK
  <2>2. shape \in ShapeType /\ Regular(shape)
    BY <2>1, StatementAssumption DEF Regulars
  <2> QED BY <2>1, <2>2, StatementAssumption DEF IInv, TypeOK, ShapeInv
<1>2. size \in 0 .. MaxSize /\ size = IF shape.into = "none" THEN 0 ELSE Len(vec)
  BY <1>1 DEF IntosSize
<1> HIDE DEF size, b0, i0
<1>3. /\ Executable(described.be) /\ described.impl \in ImplType
      /\ described.impl.fetchSize = size /\ described.impl.initialFetchSize = size
      /\ shape.into = "none" => ~ described.be.justDescribed
      /\ \A e : Describe([described EXCEPT !.be = e]) = [be |-> e, impl |-> described.impl]
  <2>1. ExecutableFrom(described, size)
    BY <1>2, Described DEF b0, i0
  <2> HIDE DEF described
  <2> QED BY <2>1 DEF ExecutableFrom
<1>4. after.be = r.be /\ after.impl = described.impl
  <2> HIDE DEF described, r
  <2>1. after = [be |-> r.be, impl |-> described.impl]
    BY <1>3
  <2> QED BY <2>1
<1> HIDE DEF described, r, after, num, resized, gotData
\* A vector without room: execute() throws.
<1>5. CASE shape.into # "none" /\ size = 0
  <2>1. last' = "threw" /\ impl' = [impl EXCEPT !.initialFetchSize = 0] /\ UNCHANGED <<be, vec, seen>>
    BY <1>0, <1>5
  <2>2. impl' \in ImplType /\ impl'.fetchSize = impl.fetchSize /\ impl'.initialFetchSize = 0
    BY <1>1, <2>1 DEF ImplType
  <2> QED BY <1>0, <1>1, <1>5, <2>1, <2>2, NothingGiven
<1>6. ASSUME shape.into = "none" \/ size # 0
      PROVE  /\ impl' = described.impl
             /\ PostFetch(r.be, resized, gotData /\ num > 0)
             /\ seen' = IF gotData /\ shape.into # "none" THEN vec' ELSE <<>>
             /\ last' = IF gotData THEN "data" ELSE IF exchange THEN "end" ELSE "performed"
             /\ resized = IF r.ok
                          THEN IF num > 0 THEN ResizedIntos(r.be, num) ELSE vec
                          ELSE IF size > 1 THEN ResizedIntos(r.be, 0) ELSE vec
             /\ gotData \in BOOLEAN /\ (r.ok => (gotData <=> num > 0))
             /\ ~ r.ok => (gotData <=> size > 1 /\ NumberOfRows(r.be) > 0)
  <2>1. /\ impl' = after.impl
        /\ PostFetch(after.be, resized, gotData /\ num > 0)
        /\ seen' = IF gotData /\ shape.into # "none" THEN vec' ELSE <<>>
        /\ last' = IF gotData THEN "data" ELSE IF exchange THEN "end" ELSE "performed"
    BY <1>0, <1>6
  <2>2. resized = IF r.ok
                  THEN IF num > 0 THEN ResizedIntos(r.be, num) ELSE vec
                  ELSE IF size > 1 THEN ResizedIntos(r.be, 0) ELSE vec
    BY <1>4 DEF resized
  <2>3. /\ gotData \in BOOLEAN /\ (r.ok => (gotData <=> num > 0))
        /\ ~ r.ok => (gotData <=> size > 1 /\ NumberOfRows(r.be) > 0)
    <3>1. CASE r.ok
      BY <3>1 DEF gotData
    <3>2. CASE ~ r.ok
      BY <1>4, <3>2 DEF gotData
    <3> QED BY <3>1, <3>2
  <2> QED BY <1>4, <2>1, <2>2, <2>3
<1>7. ASSUME shape.into # "none", size # 0, exchange
      PROVE  IInv'
  <2> DEFINE k == Less(size, rows - 0)
             D == r.ok \/ (size > 1 /\ NumberOfRows(r.be) > 0)
  <2>1. WithInto
    BY <1>7, WithIntoHolds
  <2>2. size = Len(vec) /\ size \in 1 .. MaxSize /\ (shape.into # "vector" => size = 1)
    BY <1>1, <1>2, <1>7
  <2>3. num = size /\ num > 0 /\ num # 0
    <3>1. shape.use \in {0, 1}
      BY <2>1 DEF WithInto
    <3>2. 1 \in Int /\ size \in Int /\ shape.use \in Int
      BY <2>2, <3>1
    <3>3. /\ Max({1, size, shape.use}) \in {1, size, shape.use} /\ Max({1, size, shape.use}) >= 1
          /\ Max({1, size, shape.use}) >= size /\ Max({1, size, shape.use}) >= shape.use
      BY <3>2, MaxOfThree
    <3>4. num = Max({1, size, shape.use})
      BY <1>7 DEF num
    <3> QED BY <2>2, <3>1, <3>3, <3>4
  <2>4. Gives(r, size, 0)
    <3>1. Answers(r, num)
      <4>1. num \in 0 .. MaxSize /\ (shape.into # "vector" => num <= 1)
        BY <1>2, <2>2, <2>3
      <4>2. shape.into = "vector" /\ num # 0 => num >= shape.min
        BY <1>0, <1>7, <2>2, <2>3
      <4> QED BY <1>3, <2>1, <4>1, <4>2, ExecuteAnswers DEF r
    <3> QED BY <2>3, <3>1 DEF Answers
  <2>5. r.ok \in BOOLEAN
    BY <2>4 DEF Gives
  <2>6. (gotData /\ num > 0) = D /\ (gotData <=> D) /\ D \in BOOLEAN
    <3>1. /\ num > 0
          /\ gotData \in BOOLEAN /\ (r.ok => (gotData <=> num > 0))
          /\ ~ r.ok => (gotData <=> size > 1 /\ NumberOfRows(r.be) > 0)
      BY <1>6, <1>7, <2>3
    <3>2. CASE r.ok
      BY <3>1, <3>2
    <3>3. CASE ~ r.ok
      BY <3>1, <3>3
    <3> QED BY <2>5, <3>2, <3>3
  <2>7. /\ r.ok => resized = ResizedIntos(r.be, size)
        /\ ~ r.ok /\ size > 1 => resized = ResizedIntos(r.be, 0)
        /\ ~ r.ok /\ size = 1 => resized = vec
    BY <1>6, <1>7, <2>3
  <2>8. Handed(size, 0, k, r)
    <3>1. PostFetch(r.be, resized, D)
      BY <1>6, <1>7, <2>6
    <3>2. 0 \in 0 .. rows /\ k = Less(size, rows - 0)
      BY <1>1
    <3> HIDE DEF k
    <3>3. Asked(size, 0, k, r, resized)
      BY <1>1, <2>2, <2>4, <2>7, <3>1, <3>2 DEF Asked
    <3> QED BY <3>3, Deliver
  <2>9. k \in Nat /\ 0 + k = k /\ (k < size => k = rows)
    BY <1>1, <2>2 DEF Less
  <2> HIDE DEF D, k
  <2>10. /\ D <=> k >= 1
         /\ vec' \in Seq(0 .. MaxRows) /\ Len(vec') <= MaxSize
         /\ shape.into # "vector" => Len(vec') = 1
         /\ k >= 1 => Len(vec') = k /\ \A i \in 1 .. k : vec'[i] = 0 + i
         /\ Ready(be', 0 + k) /\ be'.runs = 1 /\ ~ be'.overrun
         /\ r.ok \/ size = 1 => ~ Stale(be')
         /\ r.ok \in BOOLEAN /\ (~ r.ok => 0 + k = rows)
    BY <2>8 DEF Handed, D
  <2>11. (gotData <=> D) /\ gotData \in BOOLEAN
    <3>1. /\ gotData \in BOOLEAN /\ (r.ok => (gotData <=> num > 0))
          /\ ~ r.ok => (gotData <=> size > 1 /\ NumberOfRows(r.be) > 0)
      BY <1>6, <1>7
    <3> QED BY <2>6, <3>1 DEF D
  <2>12. (D => k >= 1) /\ (~ D => k = 0 /\ 0 + k = rows)
    <3>1. ~ D => k = 0
      BY <2>9, <2>10
    <3>2. k = 0 => k < size
      BY <2>2
    <3> QED BY <2>9, <2>10, <3>1, <3>2
  <2>13. seen' \in Seq(0 .. MaxRows) /\ Len(seen') = 0 + k /\ \A i \in 1 .. 0 + k : seen'[i] = i
    <3>1. CASE D
      <4>1. seen' = vec'
        BY <1>6, <1>7, <2>11, <3>1
      <4>2. \A i \in 1 .. k : vec'[i] = i
        BY <2>10, <2>12, <3>1
      <4> QED BY <2>9, <2>10, <2>12, <3>1, <4>1, <4>2
    <3>2. CASE ~ D
      <4>1. seen' = <<>> /\ k = 0
        BY <1>6, <1>7, <2>11, <2>12, <3>2
      <4>2. <<>> \in Seq(0 .. MaxRows) /\ Len(<<>>) = 0
        BY EmptySeq
      <4> QED BY <4>1, <4>2
    <3> QED BY <3>1, <3>2
  <2>14. impl' \in ImplType /\ impl'.fetchSize = size /\ impl'.fetchSize # 0
    BY <1>3, <1>6, <1>7
  <2>15. ~ Stale(be')
    <3>1. CASE shape.into = "vector"
      BY <1>0, <1>1, <1>7, <3>1 DEF Regular, Stale
    <3>2. CASE shape.into # "vector"
      BY <2>2, <2>10, <3>2
    <3> QED BY <3>1, <3>2
  <2>16. last' = IF D THEN "data" ELSE "end"
    BY <1>6, <1>7, <2>11
  <2>17. D \in BOOLEAN
    BY <2>6 DEF D
  <2> QED BY <1>0, <1>7, <2>9, <2>10, <2>12, <2>13, <2>14, <2>15, <2>16, <2>17, Delivered
\* Without data exchange nothing is given.
<1>8. ASSUME shape.into # "none", size # 0, ~ exchange
      PROVE  IInv'
  <2>1. WithInto
    BY <1>8, WithIntoHolds
  <2>2. size = Len(vec) /\ size \in 1 .. MaxSize
    BY <1>1, <1>2, <1>8
  <2>3. num = 0 /\ ~ (num > 0)
    BY <1>8 DEF num
  <2>4. Performs(r)
    <3>1. Answers(r, num)
      <4>1. num \in 0 .. MaxSize /\ num <= 1 /\ num = 0
        BY <1>1, <2>3
      <4> QED BY <1>3, <2>1, <4>1, ExecuteAnswers DEF r
    <3> QED BY <2>3, <3>1 DEF Answers
  <2>5. /\ Ready(r.be, 0) /\ ~ Stale(r.be) /\ r.ok \in BOOLEAN /\ (r.ok \/ NumberOfRows(r.be) <= 0)
    BY <2>4 DEF Performs
  <2>6. ~ gotData /\ gotData = FALSE
    <3>1. /\ gotData \in BOOLEAN /\ (r.ok => (gotData <=> num > 0))
          /\ ~ r.ok => (gotData <=> size > 1 /\ NumberOfRows(r.be) > 0)
      BY <1>6, <1>8
    <3>2. CASE r.ok
      BY <2>3, <3>1, <3>2
    <3>3. CASE ~ r.ok
      <4>1. ~ (NumberOfRows(r.be) > 0)
        <5>1. NumberOfRows(r.be) <= 0 /\ NumberOfRows(r.be) \in Int
          <6>1. NumberOfRows(r.be) \in Int
            BY <2>5, BackendFields, LenProperties, StatementAssumption DEF NumberOfRows, Ready
          <6> QED BY <2>5, <3>3, <6>1
        <5> QED BY <5>1
      <4> QED BY <3>1, <3>3, <4>1
    <3> QED BY <2>5, <3>2, <3>3
  <2>7. vec' = resized /\ be' = [r.be EXCEPT !.overrun = FALSE]
    BY <1>6, <1>8, <2>6 DEF PostFetch
  <2>8. /\ vec' \in Seq(0 .. MaxRows) /\ Len(vec') <= MaxSize /\ (shape.into # "vector" => Len(vec') = 1)
    <3>1. CASE resized = vec
      BY <1>1, <2>7, <3>1
    <3>2. CASE resized # vec
      <4> DEFINE w == Resized(vec, 0)
      <4>1. ~ r.ok /\ resized = ResizedIntos(r.be, 0)
        BY <1>6, <1>8, <2>3, <3>2
      <4>2. NumberOfRows(r.be) \in Int /\ NumberOfRows(r.be) <= 0
        <5>1. NumberOfRows(r.be) \in Int
          BY <2>5, BackendFields, LenProperties, StatementAssumption DEF NumberOfRows, Ready
        <5> QED BY <2>5, <4>1, <5>1
      <4>3. Max({0, NumberOfRows(r.be)}) = 0
        <5>1. 0 \in Int
          OBVIOUS
        <5>2. Max({0, NumberOfRows(r.be)}) \in {0, NumberOfRows(r.be)} /\ Max({0, NumberOfRows(r.be)}) >= 0
          BY <4>2, <5>1, MaxOf
        <5> QED BY <4>2, <5>2
      <4>4. resized = w
        BY <4>1, <4>3 DEF ResizedIntos
      <4>5. w \in Seq(0 .. MaxRows) /\ Len(w) = (IF shape.into = "vector" THEN 0 ELSE Len(vec))
        BY <1>1, ResizedFields
      <4> HIDE DEF w
      <4> QED BY <1>1, <2>7, <4>4, <4>5
    <3> QED BY <3>1, <3>2
  <2>9. /\ be' \in BackendType /\ ~ be'.overrun
        /\ be'.ready = r.be.ready /\ be'.at = r.be.at /\ be'.count = r.be.count
        /\ be'.current = r.be.current /\ be'.consume = r.be.consume
        /\ be'.number = r.be.number /\ be'.justDescribed = r.be.justDescribed /\ be'.runs = r.be.runs
    <3>1. r.be \in BackendType
      BY <2>5 DEF Ready
    <3> QED BY <2>7, <3>1 DEF BackendType
  <2>10. Ready(be', 0) /\ ~ Stale(be')
    BY <2>5, <2>9 DEF Ready, Stale
  <2>11. seen' = <<>> /\ seen' \in Seq(0 .. MaxRows) /\ Len(seen') = 0 /\ last' = "performed"
    <3>1. seen' = <<>> /\ last' = "performed"
      BY <1>6, <1>8, <2>6
    <3>2. <<>> \in Seq(0 .. MaxRows) /\ Len(<<>>) = 0
      BY EmptySeq
    <3> QED BY <3>1, <3>2
  <2>12. impl' \in ImplType /\ impl'.fetchSize # 0
    BY <1>3, <1>6, <1>8
  <2>13. Stored' <=> Stored
    BY <1>0 DEF Stored
  <2>14. TypeOK'
    BY <1>0, <1>1, <2>8, <2>9, <2>11, <2>12 DEF TypeOK
  <2>15. StartInv'
    <3>1. Ready(be, Len(seen))'
      BY <1>0, <2>10, <2>11, <2>13 DEF Ready
    <3>2. ~ Stale(be)'
      BY <1>0, <2>10 DEF Stale
    <3> QED BY <2>12, <3>1, <3>2 DEF StartInv
  <2>16. ShapeInv'
    <3>1. ~ be'.justDescribed /\ (Stored /\ ~ shape.columns => be'.current = 0 /\ be'.consume = 0)
      BY <2>10 DEF Ready
    <3> QED BY <1>0, <1>1, <1>8, <2>8, <2>11, <2>13, <3>1 DEF ShapeInv
  <2>17. Promises'
    <3>1. RowsInOrder'
      BY <1>0, <1>1, <2>11 DEF RowsInOrder
    <3>2. RunsOnce'
      <4>1. Stored => be'.runs = 1
        BY <2>10 DEF Ready, Stored
      <4> QED BY <1>0, <2>11, <2>13, <4>1 DEF RunsOnce
    <3> QED BY <2>9, <2>11, <3>1, <3>2 DEF Promises, EndIsComplete, NoOverrun, DataHasRows
  <2> QED BY <2>14, <2>15, <2>16, <2>17 DEF IInv
\* A statement without into elements.
<1>9. ASSUME shape.into = "none"
      PROVE  IInv'
  <2> DEFINE m == Max({1, shape.use})
             g == gotData /\ num > 0
             F == Fetched(r.be)
             over == g /\ Len(F) > Len(vec)
  <2>1. WithoutInto
    BY <1>1, <1>9 DEF WithoutInto
  <2>2. size = 0 /\ ~ (size > 1)
    BY <1>2, <1>9
  <2>3. m \in 1 .. MaxSize /\ m >= 1 /\ m \in Nat /\ shape.use \in Nat
    BY <2>1, Rounds
  <2>4. num \in 0 .. MaxSize /\ num <= m
    <3>1. CASE exchange
      <4>1. num = Max({1, 0, shape.use})
        BY <2>2, <3>1 DEF num
      <4>2. {1, 0, shape.use} \subseteq Int /\ 1 \in Int /\ 0 \in Int /\ shape.use \in Int
        BY <2>3
      <4>3. /\ Max({1, 0, shape.use}) \in {1, 0, shape.use} /\ Max({1, 0, shape.use}) >= 1
        BY <4>2, MaxOfThree
      <4>4. m >= shape.use
        BY <4>2, MaxOf
      <4> HIDE DEF m
      <4>5. num \in {1, shape.use}
        BY <4>1, <4>3
      <4> QED BY <1>1, <2>3, <4>4, <4>5
    <3>2. CASE ~ exchange
      <4> HIDE DEF m
      <4> QED BY <1>1, <2>3, <3>2 DEF num
    <3> QED BY <3>1, <3>2
  <2>5. Runs(r, num)
    BY <1>3, <1>9, <2>1, <2>4, ExecuteRuns DEF r
  <2>6. /\ r.be \in BackendType /\ ~ r.be.justDescribed /\ r.ok \in BOOLEAN /\ r.be.runs <= m
        /\ Stored /\ shape.use <= 1 => r.be.runs = 1
        /\ Stored /\ ~ shape.columns => r.be.current = 0 /\ r.be.consume = 0
        /\ r.ok /\ num > 0 => (IF Stored THEN r.be.current + 1 ELSE r.be.at) \in 0 .. MaxRows
    BY <2>5 DEF Runs
  <2>7. /\ impl' = described.impl
        /\ PostFetch(r.be, resized, g)
        /\ seen' = <<>>
        /\ last' = IF gotData THEN "data" ELSE IF exchange THEN "end" ELSE "performed"
        /\ resized = vec
        /\ gotData \in BOOLEAN /\ (gotData => r.ok /\ num > 0)
    <3>1. /\ impl' = described.impl
          /\ PostFetch(r.be, resized, g)
          /\ seen' = IF gotData /\ shape.into # "none" THEN vec' ELSE <<>>
          /\ last' = IF gotData THEN "data" ELSE IF exchange THEN "end" ELSE "performed"
          /\ resized = IF r.ok
                       THEN IF num > 0 THEN ResizedIntos(r.be, num) ELSE vec
                       ELSE IF size > 1 THEN ResizedIntos(r.be, 0) ELSE vec
          /\ gotData \in BOOLEAN /\ (r.ok => (gotData <=> num > 0))
          /\ ~ r.ok => (gotData <=> size > 1 /\ NumberOfRows(r.be) > 0)
      BY <1>6, <1>9
    <3>2. ResizedIntos(r.be, num) = vec
      BY <1>9 DEF ResizedIntos, Resized
    <3>3. resized = vec
      BY <2>2, <3>1, <3>2
    <3>4. gotData \in BOOLEAN /\ (gotData => r.ok /\ num > 0)
      <4>1. CASE r.ok
        BY <3>1, <4>1
      <4>2. CASE ~ r.ok
        BY <2>2, <3>1, <4>2
      <4> QED BY <2>6, <4>1, <4>2
    <3> HIDE DEF g
    <3> QED BY <1>9, <3>1, <3>3, <3>4
  <2>8. /\ vec' = IF g THEN [i \in 1 .. Len(vec) |-> IF i <= Len(F) THEN F[i] ELSE vec[i]] ELSE vec
        /\ be' = [r.be EXCEPT !.overrun = over]
    BY <2>7 DEF PostFetch
  <2> DEFINE row == IF Stored THEN r.be.current + 1 ELSE r.be.at
  <2>9. Len(F) = 1 /\ F[1] = row
    <3>1. F = << row >>
      BY <1>9 DEF Fetched
    <3> HIDE DEF row, F
    <3> QED BY <3>1
  <2>10. over \in BOOLEAN /\ ~ over /\ g \in BOOLEAN /\ (g => row \in 0 .. MaxRows)
    <3>1. ~ (Len(F) > Len(vec))
      BY <1>1, <1>9, <2>9
    <3>2. g \in BOOLEAN /\ (g => row \in 0 .. MaxRows)
      BY <2>6, <2>7
    <3> HIDE DEF g, F
    <3> QED BY <3>1, <3>2
  <2> HIDE DEF over, g, F, row, m
  <2>11. be' \in BackendType /\ ~ be'.overrun /\ be'.runs = r.be.runs /\ be'.justDescribed = r.be.justDescribed
         /\ be'.current = r.be.current /\ be'.consume = r.be.consume
    BY <2>6, <2>8, <2>10 DEF BackendType
  <2>12. vec' \in Seq(0 .. MaxRows) /\ Len(vec') = 1
    <3>1. CASE g
      <4> DEFINE w == [i \in 1 .. 1 |-> row]
      <4>1. vec' = w
        <5>1. Len(vec) = 1 /\ Len(F) = 1 /\ vec' = [i \in 1 .. Len(vec) |-> IF i <= Len(F) THEN F[i] ELSE vec[i]]
          BY <1>1, <1>9, <2>8, <2>9, <3>1
        <5>2. \A i \in 1 .. 1 : (IF i <= 1 THEN F[i] ELSE vec[i]) = row
          BY <2>9
        <5> QED BY <5>1, <5>2
      <4>2. w \in Seq(0 .. MaxRows) /\ Len(w) = 1
        BY <2>10, <3>1
      <4> HIDE DEF w
      <4> QED BY <4>1, <4>2
    <3>2. CASE ~ g
      BY <1>1, <1>9, <2>8, <3>2
    <3> QED BY <3>1, <3>2
  <2>13. last' \in {"data", "end", "performed"} /\ (last' = "performed" => ~ exchange)
    <3>1. CASE gotData
      BY <2>7, <3>1
    <3>2. CASE ~ gotData
      BY <2>7, <3>2
    <3> QED BY <2>7, <3>1, <3>2
  <2>14. seen' \in Seq(0 .. MaxRows) /\ Len(seen') = 0 /\ seen' = <<>>
    <3>1. <<>> \in Seq(0 .. MaxRows) /\ Len(<<>>) = 0
      BY EmptySeq
    <3> QED BY <2>7, <3>1
  <2>15. impl' \in ImplType /\ impl'.fetchSize = 0
    BY <1>3, <2>2, <2>7
  <2>16. Stored' <=> Stored
    BY <1>0 DEF Stored
  <2>17. TypeOK'
    BY <1>0, <1>1, <2>11, <2>12, <2>13, <2>14, <2>15 DEF TypeOK
  <2>18. StartInv'
    BY <1>0, <1>9 DEF StartInv
  <2>19. be'.runs <= m /\ (Stored /\ shape.use <= 1 => be'.runs = 1)
    BY <2>6, <2>11
  <2>20. ShapeInv'
    BY <1>0, <1>1, <1>9, <2>6, <2>11, <2>12, <2>13, <2>14, <2>15, <2>16, <2>19 DEF ShapeInv, m
  <2>21. Promises'
    <3>1. RowsInOrder'
      BY <1>0, <1>1, <2>14 DEF RowsInOrder
    <3>2. RunsOnce'
      BY <1>0, <1>9, <2>16, <2>19 DEF RunsOnce, m
    <3> QED BY <1>0, <1>9, <2>11, <3>1, <3>2 DEF Promises, EndIsComplete, NoOverrun, DataHasRows
  <2> QED BY <2>17, <2>18, <2>20, <2>21 DEF IInv
<1> QED BY <1>5, <1>7, <1>8, <1>9

LEMMA NextInv == ASSUME Regulars, IInv, [Next]_vars PROVE IInv'
<1>1. ASSUME NEW exchange \in BOOLEAN, Execute(exchange) PROVE IInv'
  BY <1>1, ExecuteInv
<1>2. CASE Fetch
  BY <1>2, FetchInv
<1>3. ASSUME NEW n \in 0 .. MaxSize, ResizeVector(n) PROVE IInv'
  BY <1>3, ResizeInv
<1>4. CASE UNCHANGED vars
  <2>1. (Stored' <=> Stored) /\ (Stale(be)' <=> Stale(be)) /\ (Started' <=> Started)
    BY <1>4 DEF vars, Stored, Stale, Started
  <2>2. Ready(be, Len(seen))' <=> Ready(be, Len(seen))
    BY <1>4, <2>1 DEF vars, Ready
  <2>3. TypeOK' /\ ShapeInv'
    BY <1>4, <2>1 DEF vars, IInv, TypeOK, ShapeInv
  <2>4. StartInv'
    BY <1>4, <2>1, <2>2 DEF vars, IInv, StartInv
  <2>5. Promises'
    BY <1>4, <2>1 DEF vars, IInv, Promises, RowsInOrder, EndIsComplete, NoOverrun, DataHasRows, RunsOnce
  <2> QED BY <2>3, <2>4, <2>5 DEF IInv
<1> QED BY <1>1, <1>2, <1>3, <1>4 DEF Next

-------------------------------------------------------------------------------
(* The theorems                                                            *)

\* With statements that are regular, every reachable state satisfies the inductive invariant.
THEOREM Inductive == ASSUME Regulars PROVE Spec => []IInv
<1>1. Init => IInv
  BY InitInv
<1>2. IInv /\ [Next]_vars => IInv'
  BY NextInv
<1> QED BY <1>1, <1>2, PTL DEF Spec

\* The fields of statement_impl and of the backends stay in their ranges; the column of a mysql or
\* postgresql result that is read is never beyond what fetch() allows.
THEOREM TypeCorrect == ASSUME Regulars PROVE Spec => []TypeOK
<1>1. IInv => TypeOK
  BY DEF IInv
<1> QED BY <1>1, Inductive, PTL

\* However large the result, the vector and the number of calls, execute() and fetch() of every
\* backend give the rows of the result in their order, none twice and none left out.
THEOREM RowsComeInOrder == ASSUME Regulars PROVE Spec => []RowsInOrder
<1>1. IInv => RowsInOrder
  BY DEF IInv, Promises
<1> QED BY <1>1, Inductive, PTL

\* execute() and fetch() return false only when the program has read every row.
THEOREM EndMeansAllRead == ASSUME Regulars PROVE Spec => []EndIsComplete
<1>1. IInv => EndIsComplete
  BY DEF IInv, Promises
<1> QED BY <1>1, Inductive, PTL

\* post_fetch() never writes beyond the vector that resize_intos() has left.
THEOREM VectorNotOverrun == ASSUME Regulars PROVE Spec => []NoOverrun
<1>1. IInv => NoOverrun
  BY DEF IInv, Promises
<1> QED BY <1>1, Inductive, PTL

\* execute() and fetch() return true only with rows.
THEOREM TrueMeansRows == ASSUME Regulars PROVE Spec => []DataHasRows
<1>1. IInv => DataHasRows
  BY DEF IInv, Promises
<1> QED BY <1>1, Inductive, PTL

\* Neither describe() nor the lazy execution of sqlite3 runs the query a second time.
THEOREM QueryRunsOnce == ASSUME Regulars PROVE Spec => []RunsOnce
<1>1. IInv => RunsOnce
  BY DEF IInv, Promises
<1> QED BY <1>1, Inductive, PTL

===============================================================================
