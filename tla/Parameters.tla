------------------------------ MODULE Parameters ------------------------------
(***************************************************************************)
(* The parameters of a query, written :name, and the use elements that     *)
(* give them their values.  Five backends scan the query in prepare() and  *)
(* replace each parameter by what their database understands: postgresql   *)
(* by $1, $2 ..., odbc, db2 and firebird by ?, and mysql cuts the query    *)
(* into chunks and puts the values between them.  An element is bound to a *)
(* parameter by position or by name, in define_and_bind(), and may be      *)
(* replaced by another one after bind_clean_up().                          *)
(*                                                                         *)
(* The query is a sequence of lexemes of the SQL of the backend, each a    *)
(* sequence of characters: which of them are parameters is known, while    *)
(* the backend sees only the characters.  One character stands for its     *)
(* class.  sqlite3 and oracle leave all of this to their libraries.        *)
(***************************************************************************)
EXTENDS Integers, Sequences, FiniteSets, SequencesExt

CONSTANTS
    Lexemes,     \* of each backend
    MaxLexemes,  \* bound on the length of a query
    MaxUses,     \* bound on the number of use elements
    Habits       \* <<backend, habit>>: what else the program does, see HabitType

Backends == {"postgresql", "mysql", "odbc", "db2", "firebird"}
NameChars == {"a", "b"}
Names == {<<"a">>, <<"b">>}

\* otherNumber: it does not bind as many elements as there are parameters; rebinds: after
\* bind_clean_up() it binds other elements than before; casts: it writes a cast directly
\* after a parameter; abuts: it writes a literal, a quoted identifier or another parameter
\* directly after one.
HabitType == Backends \X {"otherNumber", "rebinds", "casts", "abuts"}

ASSUME ParametersAssumption ==
    /\ Backends = DOMAIN Lexemes
    /\ MaxLexemes \in Nat \ {0} /\ MaxUses \in Nat \ {0}
    /\ Habits \subseteq HabitType

VARIABLES
    backend,
    query,     \* its lexemes
    ddl,       \* isc_dsql_sql_info() says that it is a DDL statement
    prepared,  \* what prepare() has made of it: names_, and query_ or queryChunks_
    uses,      \* uses_, the name of each or <<>>
    slots,     \* position_ of each element
    asked,     \* the elements that the program bound last
    bound,     \* boundByPos_ and boundByName_, use_binding_method_
    buffers,   \* the buffers, by position and by name, that an execution reads
    sent,      \* what the database has executed
    outcome    \* of the last call

vars == <<backend, query, ddl, prepared, uses, slots, asked, bound, buffers, sent, outcome>>

-------------------------------------------------------------------------------
(* The program's query.                                                    *)

IsParameter(lexeme) == Len(lexeme) > 1 /\ lexeme[1] = ":" /\ lexeme[2] \in NameChars
NameOf(lexeme) == Tail(lexeme)

Assignment == <<":", "=">>
IsCast(lexeme) == Len(lexeme) > 1 /\ lexeme[1] = ":" /\ lexeme[2] = ":"
Abuts(lexeme) == lexeme[1] \in {"'", "\"", "#"} \/ IsParameter(lexeme)

\* Directly after a parameter: not a name, which would be the end of its own.  The scanners
\* copy the character that ends a name without another look, so that a quote there starts
\* no literal and a colon no parameter: what the program writes there is one of its habits.
MayFollow(lexeme) ==
    /\ lexeme[1] \notin NameChars
    /\ IsCast(lexeme) => <<backend, "casts">> \in Habits
    /\ Abuts(lexeme) => <<backend, "abuts">> \in Habits

IsQuery(q) == \A i \in 1 .. Len(q) - 1 : IsParameter(q[i]) => MayFollow(q[i + 1])

ParametersOf(q) == LET found == SelectSeq(q, IsParameter)
                   IN  [k \in 1 .. Len(found) |-> NameOf(found[k])]

-------------------------------------------------------------------------------
(* prepare(): the scanners.  The state is "normal", "name", or the         *)
(* character that ends the literal or identifier the scanner is in.        *)

Scanner == [state |-> "normal", name |-> <<>>, names |-> <<>>, chunks |-> << <<>> >>,
            escaped |-> FALSE, skip |-> FALSE]

Put(s, c) == [s EXCEPT !.chunks[Len(s.chunks)] = Append(@, c)]

EndName(s) ==
    LET named == [s EXCEPT !.names = Append(@, s.name), !.name = <<>>, !.state = "normal"]
    IN  CASE backend = "postgresql" -> Put(named, "$" \o ToString(Len(named.names)))
          [] backend = "mysql"      -> [named EXCEPT !.chunks = Append(@, <<>>)]
          [] OTHER                  -> Put(named, "?")

\* One character, and the one after it.  quotes: what starts a literal or an identifier;
\* pairs: what makes an operator of a colon before it.
Step(s, c, next, quotes, pairs) ==
    IF s.skip THEN [s EXCEPT !.skip = FALSE]
    ELSE IF s.state = "name"
    THEN IF c \in NameChars THEN [s EXCEPT !.name = Append(@, c)] ELSE Put(EndName(s), c)
    ELSE IF s.state = "normal" /\ c \in quotes THEN [Put(s, c) EXCEPT !.state = c]
    ELSE IF s.state = "normal" /\ c = ":"
    THEN IF next \in pairs THEN [Put(Put(s, c), next) EXCEPT !.skip = TRUE]
         ELSE [s EXCEPT !.state = "name"]
    ELSE IF s.state = c /\ ~ s.escaped THEN [Put(s, c) EXCEPT !.state = "normal"]
    ELSE Put(s, c)

PostgresqlStep(s, c, next) ==
    IF s.state = "name" /\ c = ":" /\ next = ":"
    THEN [Put(Put(EndName(s), c), next) EXCEPT !.skip = TRUE]
    ELSE Step(s, c, next, {"'", "\""}, {":", "="})

\* Mutation of MysqlStep: a quote after a backslash ends the literal.
MysqlStepUnescaped(s, c, next) == Step(s, c, next, {"'"}, {"="})

MysqlStep(s, c, next) ==
    [Step(s, c, next, {"'"}, {"="}) EXCEPT !.escaped = s.state = "'" /\ c = "\\" /\ ~ s.escaped]

OdbcStep(s, c, next) == Step(s, c, next, {"'", "#"}, {})

Db2Step(s, c, next) == Step(s, c, next, {"'"}, {":"})

FirebirdStep(s, c, next) == Step(s, c, next, {"'"}, {})

ScanStep(s, c, next) ==
    CASE backend = "postgresql" -> PostgresqlStep(s, c, next)
      [] backend = "mysql"      -> MysqlStep(s, c, next)
      [] backend = "odbc"       -> OdbcStep(s, c, next)
      [] backend = "db2"        -> Db2Step(s, c, next)
      [] backend = "firebird"   -> FirebirdStep(s, c, next)

\* A name at the end of the query is closed there; mysql does not start a chunk after it.
Close(s) ==
    IF s.state # "name" THEN s
    ELSE IF backend = "mysql" THEN [s EXCEPT !.names = Append(@, s.name)]
    ELSE EndName(s)

Scan(text) ==
    LET next(i) == IF i < Len(text) THEN text[i + 1] ELSE ""
        step(s, i) == ScanStep(s, text[i], next(i))
    IN  Close(FoldLeftDomain(step, Scanner, text))

\* firebird gives a DDL statement to the database as it was written; the words that it
\* puts before the text of a procedure are left out.
Rewritten(text) ==
    LET s == Scan(text)
    IN  [names |-> s.names, chunks |-> IF ddl THEN <<text>> ELSE s.chunks,
         markers |-> IF ddl THEN 0 ELSE Len(s.names)]

-------------------------------------------------------------------------------
(* define_and_bind(): the elements, one after another.                     *)

NoSlot == 0
FirstNamed(name) ==
    IF \E k \in DOMAIN prepared.names : prepared.names[k] = name
    THEN SelectInSeq(prepared.names, LAMBDA n : n = name) ELSE NoSlot

Binding == [ok |-> TRUE, position |-> 1, pos |-> bound.pos, name |-> bound.name, slots |-> <<>>]

ByPosition(b) == [b EXCEPT !.slots = Append(@, b.position), !.position = @ + 1, !.pos = TRUE]

\* Mutation of LateBind: the position is not counted on.
LateBindStuck(b, name) ==
    [b EXCEPT !.slots = Append(@, IF name = <<>> THEN b.position ELSE NoSlot)]

\* postgresql and mysql look the name up when they execute.
LateBind(b, name) ==
    IF name = <<>> THEN [b EXCEPT !.slots = Append(@, b.position), !.position = @ + 1]
    ELSE [b EXCEPT !.slots = Append(@, NoSlot)]

OdbcBind(b, name) ==
    IF name = <<>> THEN IF b.name THEN [b EXCEPT !.ok = FALSE] ELSE ByPosition(b)
    ELSE IF b.pos \/ FirstNamed(name) = NoSlot THEN [b EXCEPT !.ok = FALSE]
    ELSE [b EXCEPT !.slots = Append(@, FirstNamed(name)), !.name = TRUE]

\* use_binding_method_ is set before the name is looked up.
Db2Bind(b, name) ==
    IF name # <<>> /\ ~ b.pos THEN [OdbcBind(b, name) EXCEPT !.name = TRUE]
    ELSE OdbcBind(b, name)

FirebirdBind(b, name) == OdbcBind(b, name)

BindElement(b, name) ==
    IF ~ b.ok THEN b
    ELSE CASE backend = "odbc"     -> OdbcBind(b, name)
           [] backend = "db2"      -> Db2Bind(b, name)
           [] backend = "firebird" -> FirebirdBind(b, name)
           [] OTHER                -> LateBind(b, name)

-------------------------------------------------------------------------------
(* The buffers that an execution reads: the maps of postgresql and mysql,  *)
(* the parameters bound to the handle of odbc and db2, the XSQLDA of       *)
(* firebird.  "gone" is a buffer of an element that was deleted.           *)

Element(i) == "v" \o ToString(i)
NoBuffers == [pos |-> [k \in 1 .. MaxUses |-> "none"], name |-> [n \in Names |-> "none"]]

\* What the elements put there, over what is there.
Filled(bufs, slot) ==
    [pos  |-> [k \in 1 .. MaxUses |->
                  IF \E i \in DOMAIN slot : slot[i] = k
                  THEN Element(CHOOSE i \in DOMAIN slot : slot[i] = k) ELSE bufs.pos[k]],
     name |-> [n \in Names |->
                  IF \E i \in DOMAIN slot : slot[i] = NoSlot /\ uses'[i] = n
                  THEN Element(CHOOSE i \in DOMAIN slot : slot[i] = NoSlot /\ uses'[i] = n)
                  ELSE bufs.name[n]]]

Present(f) == {k \in DOMAIN f : f[k] # "none"}
NothingNoted(bufs) == Present(bufs.pos) = {} /\ Present(bufs.name) = {}

\* The values, in the order of the parameters.
CollectUseBuffers(bufs) ==
    IF Present(bufs.pos) # {} THEN SelectSeq(bufs.pos, LAMBDA v : v # "none")
    ELSE IF Present(bufs.name) # {} THEN [k \in DOMAIN prepared.names |-> bufs.name[prepared.names[k]]]
    ELSE <<>>

Collectable(bufs) ==
    /\ Present(bufs.pos) = {} \/ Present(bufs.name) = {}
    /\ Present(bufs.name) # {} => \A k \in DOMAIN prepared.names : bufs.name[prepared.names[k]] # "none"

\* What the database makes of the text and the values.
Server(text, values) ==
    LET markers == SelectSeq([i \in DOMAIN text |-> i],
                             LAMBDA i : text[i] \in {"?"} \cup {"$" \o ToString(k) : k \in 1 .. MaxLexemes})
        numbered(c) == CHOOSE k \in 1 .. MaxLexemes : c = "$" \o ToString(k)
        value(i) == IF text[i] = "?" THEN values[SelectInSeq(markers, LAMBDA j : j = i)]
                    ELSE values[numbered(text[i])]
    IN  [i \in DOMAIN text |-> IF i \in Range(markers) THEN value(i) ELSE text[i]]

PostgresqlExecute(bufs) ==
    LET values == CollectUseBuffers(bufs)
    IN  IF Collectable(bufs) /\ Len(values) = prepared.markers
        THEN Server(prepared.chunks[1], values) ELSE <<>>

MysqlExecute(bufs) ==
    LET values == CollectUseBuffers(bufs)
        chunks == prepared.chunks
        joined == FlattenSeq([k \in DOMAIN values |-> Append(chunks[k], values[k])])
    IN  IF NothingNoted(bufs) THEN chunks[1]
        ELSE IF ~ Collectable(bufs) \/ Len(chunks) - Len(values) \notin {0, 1} THEN <<>>
        ELSE IF Len(chunks) = Len(values) THEN joined
        ELSE joined \o Last(chunks)

\* The driver wants every marker to be bound.
OdbcExecute(bufs) ==
    IF \A k \in 1 .. prepared.markers : k \in Present(bufs.pos)
    THEN Server(prepared.chunks[1], bufs.pos) ELSE <<>>

\* checkSize() compares the number of elements, not their positions.
FirebirdExecute(bufs) ==
    IF Len(uses) = prepared.markers THEN Server(prepared.chunks[1], bufs.pos) ELSE <<>>

-------------------------------------------------------------------------------
(* The statement.                                                          *)

Init ==
    /\ backend \in Backends
    /\ query \in UNION {[1 .. n -> Lexemes[backend]] : n \in 1 .. MaxLexemes}
    /\ IsQuery(query)
    /\ ddl \in {FALSE, backend = "firebird"}
    /\ prepared = [names |-> <<>>, chunks |-> <<>>, markers |-> 0]
    /\ uses = <<>> /\ slots = <<>> /\ asked = <<>>
    /\ bound = [pos |-> FALSE, name |-> FALSE]
    /\ buffers = NoBuffers
    /\ sent = <<>>
    /\ outcome = "new"

\* statement_impl::prepare().
Prepare ==
    /\ outcome = "new"
    /\ prepared' = Rewritten(FlattenSeq(query))
    /\ outcome' = "unbound"
    /\ UNCHANGED <<backend, query, ddl, uses, slots, asked, bound, buffers, sent>>

Bindings == UNION {[1 .. n -> Names \cup {<<>>}] : n \in 0 .. MaxUses}

\* No name is bound twice, and there are as many elements as parameters.
IsBinding(names) ==
    /\ \A i, j \in DOMAIN names : names[i] = names[j] /\ names[i] # <<>> => i = j
    /\ \/ <<backend, "otherNumber">> \in Habits
       \/ Len(names) = IF \E i \in DOMAIN names : names[i] # <<>>
                       THEN Cardinality(Range(ParametersOf(query))) ELSE Len(ParametersOf(query))

\* statement_impl::define_and_bind(), with the elements of these names: it stops at the
\* first that throws.  firebird points its XSQLDA to the buffers here.
DefineAndBind(names) ==
    /\ outcome = "unbound"
    /\ IsBinding(names)
    /\ \/ ~ bound.pos /\ ~ bound.name /\ NothingNoted(buffers)
       \/ <<backend, "rebinds">> \in Habits
       \/ names = asked
    /\ LET b == FoldLeft(BindElement, Binding, names)
       IN  /\ uses' = names /\ slots' = b.slots /\ asked' = names
           /\ bound' = [pos |-> b.pos, name |-> b.name]
           /\ buffers' = IF backend = "firebird" THEN Filled(buffers, b.slots) ELSE buffers
           /\ outcome' = IF b.ok THEN "bound" ELSE "refused"
    /\ UNCHANGED <<backend, query, ddl, prepared, sent>>

\* statement_impl::execute(): pre_use() of each element, then the backend.
Execute ==
    /\ outcome \in {"bound", "sent"}
    /\ uses' = uses
    /\ LET bufs == IF backend = "firebird" THEN buffers ELSE Filled(buffers, slots)
           text == CASE backend = "postgresql"       -> PostgresqlExecute(bufs)
                     [] backend = "mysql"            -> MysqlExecute(bufs)
                     [] backend \in {"odbc", "db2"}  -> OdbcExecute(bufs)
                     [] backend = "firebird"         -> FirebirdExecute(bufs)
       IN  /\ buffers' = bufs
           /\ sent' = text
           /\ outcome' = IF text = <<>> THEN "refused" ELSE "sent"
    /\ UNCHANGED <<backend, query, ddl, prepared, slots, asked, bound>>

\* statement_impl::bind_clean_up(): the elements are deleted; what the backend has noted of
\* them is not.
BindCleanUp ==
    /\ outcome \in {"bound", "sent", "refused"}
    /\ uses' = <<>> /\ slots' = <<>>
    /\ buffers' = [part \in DOMAIN buffers |->
                      [k \in DOMAIN buffers[part] |->
                          IF buffers[part][k] = "none" THEN "none" ELSE "gone"]]
    /\ sent' = <<>>
    /\ outcome' = "unbound"
    /\ UNCHANGED <<backend, query, ddl, prepared, asked, bound>>

Next ==
    \/ Prepare
    \/ \E names \in Bindings : DefineAndBind(names)
    \/ Execute
    \/ BindCleanUp

Spec == Init /\ [][Next]_vars

-------------------------------------------------------------------------------
(* Properties.                                                             *)

\* The variables keep their types; a slot is a position that prepare() or the order of
\* the elements gave.
TypeOK ==
    /\ backend \in Backends /\ ddl \in BOOLEAN
    /\ query \in Seq(Lexemes[backend])
    /\ prepared.names \in Seq(Seq(NameChars)) /\ prepared.markers \in 0 .. MaxLexemes
    /\ uses \in Bindings /\ asked \in Bindings
    /\ slots \in Seq(0 .. MaxUses)
    /\ bound \in [pos : BOOLEAN, name : BOOLEAN]
    /\ LET held == {"none", "gone"} \cup {Element(i) : i \in 1 .. MaxUses}
       IN  buffers \in [pos : [1 .. MaxUses -> held], name : [Names -> held]]
    /\ outcome \in {"new", "unbound", "bound", "sent", "refused"}

\* The element for the k-th parameter, which has this name.
Meant(k, name) ==
    IF \E i \in DOMAIN uses : uses[i] = name THEN Element(CHOOSE i \in DOMAIN uses : uses[i] = name)
    ELSE IF k \in DOMAIN uses /\ uses[k] = <<>> THEN Element(k)
    ELSE "missing"

\* The query with its parameters replaced by the elements bound to them.
Substituted ==
    FlattenSeq([i \in DOMAIN query |->
        IF IsParameter(query[i]) /\ ~ ddl
        THEN <<Meant(Len(ParametersOf(SubSeq(query, 1, i))), NameOf(query[i]))>>
        ELSE query[i]])

\* The database executes the query that the program wrote, with each parameter replaced by
\* the element that is bound to its name or position, and nothing else changed: no colon in
\* a literal, a cast or an assignment is taken for a parameter, none is missed, and the
\* buffer of an element deleted by bind_clean_up() is not read.  Habits says what the
\* program leaves out: it does not hold with abuts, nor with casts in db2.
ServerSeesQuery == outcome = "sent" => sent = Substituted

\* By name, each parameter has its element; by position, there are as many.
IsRight(names) ==
    LET params == ParametersOf(query)
    IN  \/ /\ \A i \in DOMAIN names : names[i] = <<>>
           /\ Len(names) = IF ddl THEN 0 ELSE Len(params)
        \/ /\ ~ ddl /\ names # <<>>
           /\ Range(names) = Range(params)
           /\ backend \in {"postgresql", "mysql"} \/ IsInjective(params)

\* Elements that fit the query are not refused, by bind_by_pos(), bind_by_name() or
\* execute(), nor, without the habit rebinds, when elements of the same names are bound
\* after bind_clean_up().  (odbc, db2 and firebird bind a name
\* to its first place only, and refuse a query that has it twice.)
RightBindingRuns == outcome = "refused" => ~ IsRight(asked)

===============================================================================
