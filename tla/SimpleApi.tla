------------------------------ MODULE SimpleApi ------------------------------
(***************************************************************************)
(* The C interface of core/soci-simple.cpp: a statement handle to which    *)
(* into elements are added by position and use elements by name, either    *)
(* single values or vectors of them, and which is then prepared, executed  *)
(* and fetched from.  Every call leaves in is_ok whether it went well.     *)
(*                                                                         *)
(* There is one function for each type, all alike but for                  *)
(* soci_set_use_uint8(), which looks for and sets a uint32 element: they   *)
(* are one action with the type as a parameter.  Three types stand for     *)
(* all: "int", "date" which is given as text, and "blob", a handle that is *)
(* owned by the statement or by the program.  C++ statements are behind the interface   *)
(* (statement_impl, see the module Statement): here they succeed, fail or  *)
(* give any rows.                                                          *)
(***************************************************************************)
EXTENDS Integers, Sequences, FiniteSets

CONSTANTS
    Names,      \* of use elements
    Values,
    Blobs,      \* handles of blobs
    MaxInto,    \* bound on the number of into elements
    MaxAdded,   \* bound on the number of all elements
    MaxVector,  \* bound on the size of the vectors
    Habits      \* what the program does besides, see HabitType

\* blobState: it calls soci_set_use_state() for a blob; blobLate: it sets a blob after
\* soci_prepare(); prepareAgain: it prepares a statement another time; otherKind: it calls
\* the functions for vectors when the into elements are single values, and the other way
\* round; readsVector: it calls soci_get_use_*() for a vector; blobFails: the backend has
\* no blobs; unprepared: it executes a statement that no soci_prepare() has prepared well,
\* or fetches from one that was not executed well since, with elements to fetch into.
HabitType ==
    {"blobState", "blobLate", "prepareAgain", "otherKind", "readsVector", "blobFails", "unprepared"}

ASSUME SimpleAssumption ==
    /\ MaxInto \in Nat /\ MaxAdded \in Nat /\ MaxVector \in Nat \ {0}
    /\ Habits \subseteq HabitType
    /\ Values \cap Blobs = {}
    /\ {"zero", "absent", "NULL"} \cap (Values \cup Blobs) = {}

VARIABLES
    w,          \* the statement_wrapper
    blobs,      \* what has become of each blob
    given,      \* of each name: the values and the states that the program has set
    row,        \* of each position: the values that the last fetch gave
    ub          \* undefined behaviour has happened

vars == <<w, blobs, given, row, ub>>

Types == {"int", "date", "blob"}
Kinds == {"empty", "single", "bulk"}
Positions == 0 .. MaxInto - 1
Cells == Values \cup Blobs \cup {"zero", "absent"}
Indicators == {"ok", "null"}
Fetched == Values \cup {"NULL"}

\* What was done of the statement: failed, its preparation was begun and not finished.
Stages == {"no", "failed", "prepared", "executed"}

\* Of a map with an entry for each position or name that was added: "absent" is no entry.
\* The map of the type is meant.  bound...: how often the element was given to
\* statement::exchange(), and the blob that was.
WrapperType ==
    [alive : BOOLEAN, state : {"clean", "defining", "executing"}, ok : BOOLEAN,
     into_kind : Kinds, use_kind : Kinds,
     into_types : Seq(Types), into_indicators : Seq(Indicators),
     into : [Positions -> Cells],
     into_indicators_v : Seq(Seq(Indicators)), into_v : [Positions -> Seq(Cells)],
     use_indicators : [Names -> Indicators \cup {"absent"}],
     use_type : [Names -> Types \cup {"absent"}], use : [Names -> Cells],
     use_indicators_v : [Names -> Seq(Indicators)],
     use_type_v : [Names -> Types \cup {"absent"}], use_v : [Names -> Seq(Cells)],
     boundInto : 0 .. 2, boundUse : [Names -> 0 .. 2], boundUseV : [Names -> 0 .. 2],
     boundBlob : [Names -> Blobs \cup {"absent"}], prepared : Stages,
     initial : 0 .. MaxVector, fetchSize : 0 .. MaxVector]

\* library: the statement has to destroy it; stolen: the statement destroyed a blob of the
\* program's.
BlobType == {"none", "user", "library", "gone", "stolen"}

TypeOK ==
    /\ ub \in BOOLEAN
    /\ w \in WrapperType
    /\ blobs \in [Blobs -> BlobType]
    /\ given \in [Names -> Seq([value : Cells, state : Indicators])]
    /\ row \in [Positions -> Seq(Fetched \cup {"zero"})]

Fresh ==
    [alive |-> TRUE, state |-> "clean", ok |-> TRUE, into_kind |-> "empty", use_kind |-> "empty",
     into_types |-> <<>>, into_indicators |-> <<>>, into |-> [p \in Positions |-> "absent"],
     into_indicators_v |-> <<>>, into_v |-> [p \in Positions |-> <<>>],
     use_indicators |-> [n \in Names |-> "absent"], use_type |-> [n \in Names |-> "absent"],
     use |-> [n \in Names |-> "absent"],
     use_indicators_v |-> [n \in Names |-> <<>>], use_type_v |-> [n \in Names |-> "absent"],
     use_v |-> [n \in Names |-> <<>>],
     boundInto |-> 0, boundUse |-> [n \in Names |-> 0], boundUseV |-> [n \in Names |-> 0],
     boundBlob |-> [n \in Names |-> "absent"], prepared |-> "no", initial |-> 1, fetchSize |-> 1]

NoStatement == [Fresh EXCEPT !.alive = FALSE]
NothingGiven == [n \in Names |-> <<>>]
NothingFetched == [p \in Positions |-> <<>>]

Init ==
    /\ w = NoStatement
    /\ blobs = [b \in Blobs |-> "none"]
    /\ given = NothingGiven /\ row = NothingFetched
    /\ ub = FALSE

-------------------------------------------------------------------------------
(* Helpers                                                                 *)

Resized(s, n, fill) == [k \in 1 .. n |-> IF k <= Len(s) THEN s[k] ELSE fill]
next_position == Len(w.into_types)
ValidPosition(p) == p >= 0 /\ p < next_position
ValidIndex(s, i) == i >= 0 /\ i < Len(s)

\* Bound on the elements that are added.
MayAdd ==
    next_position + Cardinality({n \in Names : w.use_type[n] # "absent" \/ w.use_type_v[n] # "absent"})
    < MaxAdded

\* The elements are left as they are.
Only(wrapper) == w' = wrapper /\ UNCHANGED <<blobs, given, row, ub>>
Refused == Only([w EXCEPT !.ok = FALSE])
Accepted == Only([w EXCEPT !.ok = TRUE])

\* Mutation of cannot_add_elements: only the state is looked at.
cannot_add_elements_state(k, kind) == w.state = "executing"

cannot_add_elements(k, kind) ==
    \/ w.state = "executing"
    \/ k = "single" /\ kind = "bulk"
    \/ k = "bulk" /\ kind = "single"

\* Whether the element is single or a vector is not looked at.
position_check_failed(p, type) ==
    IF ValidPosition(p) THEN w.into_types[p + 1] # type ELSE TRUE

\* Mutation of not_null_check_failed: the state has to be asked for.
not_null_check_failed_never(p) == FALSE

not_null_check_failed(p) ==
    IF p < Len(w.into_indicators) THEN w.into_indicators[p + 1] = "null" ELSE FALSE

not_null_check_failed_v(p, i) ==
    IF p < Len(w.into_indicators_v) THEN w.into_indicators_v[p + 1][i + 1] = "null" ELSE FALSE

name_unique_check_failed(n, k) ==
    IF k = "single" THEN w.use_indicators[n] # "absent" ELSE w.use_type_v[n] # "absent"

\* The map of the type has an entry; blobs are never vectors.
UseExists(n, type) == w.use_type[n] = type
UseVectorExists(n, type) == type # "blob" /\ w.use_type_v[n] = type
name_exists_check_failed(n, type, k) ==
    IF k = "single" THEN ~ UseExists(n, type) ELSE ~ UseVectorExists(n, type)

\* The calls for single values, or those for vectors, that the program may make.
Reads(k) == w.alive /\ (w.into_kind \in {k, "empty"} \/ "otherKind" \in Habits)

-------------------------------------------------------------------------------
(* Handles of statements and of blobs                                      *)

soci_create_statement ==
    /\ ~ w.alive
    /\ w' = Fresh
    /\ UNCHANGED <<blobs, given, row, ub>>

\* A new handle, or none if the blob cannot be made.
CreatedBlob(b) == IF b = "absent" THEN "blobFails" \in Habits ELSE blobs[b] = "none"
WithBlob(b, owner) == IF b = "absent" THEN blobs ELSE [blobs EXCEPT ![b] = owner]

soci_create_blob(b) ==
    /\ CreatedBlob(b)
    /\ blobs' = WithBlob(b, "user")
    /\ UNCHANGED <<w, given, row, ub>>

\* What is left of blobs when these are deleted.
Deleted(bs) ==
    [b \in Blobs |-> IF b \notin bs THEN blobs[b]
                     ELSE IF blobs[b] = "user" THEN "stolen" ELSE "gone"]
DeletedTwice(bs) == \E b \in bs : blobs[b] \in {"gone", "stolen"}

\* With the statement its pointers to blobs are gone: the handles are used again.
Forgotten(f) == [b \in Blobs |-> IF f[b] = "gone" THEN "none" ELSE f[b]]

\* The program destroys its own blobs, when no statement uses them.
soci_destroy_blob(b) ==
    /\ blobs[b] \in {"user", "stolen"}
    /\ \A n \in Names : w.use[n] # b /\ w.boundBlob[n] # b
    /\ blobs' = [blobs EXCEPT ![b] = "none"]
    /\ ub' = (ub \/ blobs[b] = "stolen")
    /\ UNCHANGED <<w, given, row>>

\* The blobs that a use element still owns.
OwnedBy(n) ==
    IF w.use_type[n] = "blob" /\ w.use_indicators[n] = "null" /\ w.use[n] # "absent"
    THEN {w.use[n]} ELSE {}

IntoBlobs == {w.into[p] : p \in {q \in Positions : ValidPosition(q)}} \cap Blobs

\* Mutation of soci_destroy_statement: the use elements are left to the program.
soci_destroy_statement_intos ==
    /\ w.alive
    /\ blobs' = Forgotten(Deleted(IntoBlobs))
    /\ w' = NoStatement /\ given' = NothingGiven /\ row' = NothingFetched
    /\ UNCHANGED ub

\* ~statement_wrapper()
soci_destroy_statement ==
    LET bs == IntoBlobs \cup UNION {OwnedBy(n) : n \in Names} IN
    /\ w.alive
    /\ blobs' = Forgotten(Deleted(bs))
    /\ ub' = (ub \/ DeletedTwice(bs))
    /\ w' = NoStatement /\ given' = NothingGiven /\ row' = NothingFetched

-------------------------------------------------------------------------------
(* Into elements                                                           *)

\* b is the new blob of an element of that type.
soci_into(type, b) ==
    /\ w.alive
    /\ IF cannot_add_elements("single", w.into_kind) THEN Refused /\ b = "absent"
       ELSE /\ next_position < MaxInto /\ MayAdd
            /\ IF type = "blob" THEN CreatedBlob(b) ELSE b = "absent"
            /\ w' = [w EXCEPT !.ok = TRUE, !.state = "defining", !.into_kind = "single",
                              !.into_types = Append(@, type),
                              !.into_indicators = Append(@, "ok"),
                              !.into[next_position] = IF type = "blob" THEN b ELSE "zero"]
            /\ blobs' = WithBlob(b, "library")
            /\ row' = [row EXCEPT ![next_position] = << "zero" >>]
            /\ UNCHANGED <<given, ub>>

soci_into_v(type) ==
    /\ w.alive /\ type # "blob"
    /\ IF cannot_add_elements("bulk", w.into_kind) THEN Refused
       ELSE /\ next_position < MaxInto /\ MayAdd
            /\ Only([w EXCEPT !.ok = TRUE, !.state = "defining", !.into_kind = "bulk",
                              !.into_types = Append(@, type),
                              !.into_indicators_v = Append(@, <<>>)])

\* What a function that reads an into element answers; read past the end of the
\* indicators, anything.
Answer(ok, value, defined) == [ok |-> ok, value |-> value, defined |-> defined]

GetIntoState(p) ==
    IF ~ ValidPosition(p) THEN Answer(FALSE, "-", TRUE)
    ELSE IF p < Len(w.into_indicators) THEN Answer(TRUE, w.into_indicators[p + 1], TRUE)
    ELSE Answer(TRUE, "-", FALSE)

GetInto(p, type) ==
    IF position_check_failed(p, type) THEN Answer(FALSE, "-", TRUE)
    ELSE IF p >= Len(w.into_indicators) THEN Answer(TRUE, "-", FALSE)
    ELSE IF not_null_check_failed(p) THEN Answer(FALSE, "-", TRUE)
    ELSE Answer(TRUE, w.into[p], TRUE)

GetIntoStateV(p, i) ==
    IF ~ ValidPosition(p) THEN Answer(FALSE, "-", TRUE)
    ELSE IF p >= Len(w.into_indicators_v) THEN Answer(FALSE, "-", FALSE)
    ELSE IF ~ ValidIndex(w.into_indicators_v[p + 1], i) THEN Answer(FALSE, "-", TRUE)
    ELSE Answer(TRUE, w.into_indicators_v[p + 1][i + 1], TRUE)

GetIntoV(p, type, i) ==
    IF position_check_failed(p, type) \/ ~ ValidIndex(w.into_v[p], i) THEN Answer(FALSE, "-", TRUE)
    ELSE IF not_null_check_failed_v(p, i) THEN Answer(FALSE, "-", TRUE)
    ELSE Answer(TRUE, w.into_v[p][i + 1], TRUE)

Answers(a) ==
    /\ w' = [w EXCEPT !.ok = a.ok]
    /\ ub' = (ub \/ ~ a.defined)
    /\ UNCHANGED <<blobs, given, row>>

soci_get_into_state(p) == Reads("single") /\ Answers(GetIntoState(p))
soci_get_into(p, type) == Reads("single") /\ Answers(GetInto(p, type))
soci_get_into_state_v(p, i) == Reads("bulk") /\ Answers(GetIntoStateV(p, i))
soci_get_into_v(p, type, i) == type # "blob" /\ Reads("bulk") /\ Answers(GetIntoV(p, type, i))

\* When there are vectors is_ok stays what it was.
soci_into_get_size_v == w.alive /\ w.into_kind # "bulk" /\ Refused

soci_into_resize_v(size) ==
    /\ w.alive
    /\ IF size <= 0 \/ w.into_kind # "bulk" THEN Refused
       ELSE /\ w' = [w EXCEPT
                    !.ok = TRUE,
                    !.into_indicators_v = [k \in DOMAIN @ |-> Resized(@[k], size, "ok")],
                    !.into_v = [p \in Positions |->
                                   IF ValidPosition(p) THEN Resized(@[p], size, "zero") ELSE @[p]]]
            /\ row' = [p \in Positions |->
                          IF ValidPosition(p) THEN Resized(row[p], size, "zero") ELSE row[p]]
            /\ UNCHANGED <<blobs, given, ub>>

-------------------------------------------------------------------------------
(* Use elements                                                            *)

IsGiven(n, s) == given' = [given EXCEPT ![n] = s]
Given(value, state) == [value |-> value, state |-> state]

soci_use(n, type, b) ==
    /\ w.alive
    /\ IF cannot_add_elements("single", w.use_kind) \/ name_unique_check_failed(n, "single")
       THEN Refused /\ b = "absent"
       ELSE LET value == IF type = "blob" THEN b ELSE "zero"
                state == IF type = "blob" THEN "null" ELSE "ok"
            IN  /\ MayAdd
                /\ IF type = "blob" THEN CreatedBlob(b) ELSE b = "absent"
                /\ w' = [w EXCEPT !.ok = TRUE, !.state = "defining", !.use_kind = "single",
                                  !.use_indicators[n] = state, !.use_type[n] = type,
                                  !.use[n] = value]
                /\ blobs' = WithBlob(b, "library")
                /\ IsGiven(n, << Given(value, state) >>)
                /\ UNCHANGED <<row, ub>>

soci_use_v(n, type) ==
    /\ w.alive /\ type # "blob"
    /\ IF cannot_add_elements("bulk", w.use_kind) \/ name_unique_check_failed(n, "bulk")
       THEN Refused
       ELSE /\ MayAdd
            /\ Only([w EXCEPT !.ok = TRUE, !.state = "defining", !.use_kind = "bulk",
                              !.use_type_v[n] = type])

soci_set_use_state(n, state) ==
    /\ w.alive
    /\ w.use_type[n] = "blob" => "blobState" \in Habits
    /\ IF w.use_indicators[n] = "absent" THEN Refused
       ELSE /\ w' = [w EXCEPT !.ok = TRUE, !.use_indicators[n] = state]
            /\ IsGiven(n, << Given(given[n][1].value, state) >>)
            /\ UNCHANGED <<blobs, row, ub>>

\* Mutation of soci_set_use: a null stays a null.
soci_set_use_value_only(n, type, value, converts) ==
    /\ w.alive /\ type # "blob"
    /\ ~ converts => type = "date"
    /\ IF name_exists_check_failed(n, type, "single") \/ ~ converts THEN Refused
       ELSE /\ w' = [w EXCEPT !.ok = TRUE, !.use[n] = value]
            /\ IsGiven(n, << Given(value, "ok") >>)
            /\ UNCHANGED <<blobs, row, ub>>

\* Text that is no date is refused.
soci_set_use(n, type, value, converts) ==
    /\ w.alive /\ type # "blob"
    /\ ~ converts => type = "date"
    /\ IF name_exists_check_failed(n, type, "single") \/ ~ converts THEN Refused
       ELSE /\ w' = [w EXCEPT !.ok = TRUE, !.use[n] = value, !.use_indicators[n] = "ok"]
            /\ IsGiven(n, << Given(value, "ok") >>)
            /\ UNCHANGED <<blobs, row, ub>>

\* The program gives one of its blobs.  A blob that is null is the statement's own.
soci_set_use_blob(n, b) ==
    /\ w.alive /\ blobs[b] = "user"
    /\ w.state = "executing" => "blobLate" \in Habits
    /\ IF name_exists_check_failed(n, "blob", "single") THEN Refused
       ELSE /\ w' = [w EXCEPT !.ok = TRUE, !.use[n] = b, !.use_indicators[n] = "ok"]
            /\ blobs' = Deleted(OwnedBy(n))
            /\ ub' = (ub \/ DeletedTwice(OwnedBy(n)))
            /\ IsGiven(n, << Given(b, "ok") >>)
            /\ UNCHANGED <<row>>

soci_use_get_size_v == w.alive /\ w.use_kind # "bulk" /\ Refused

soci_use_resize_v(size) ==
    /\ w.alive
    /\ IF size <= 0 \/ w.use_kind # "bulk" THEN Refused
       ELSE LET resized(f, fill) ==
                    [n \in Names |-> IF w.use_type_v[n] = "absent" THEN f[n]
                                     ELSE Resized(f[n], size, fill)]
            IN  /\ w' = [w EXCEPT !.ok = TRUE,
                                  !.use_indicators_v = resized(@, "ok"),
                                  !.use_v = resized(@, "zero")]
                /\ given' = resized(given, Given("zero", "ok"))
                /\ UNCHANGED <<blobs, row, ub>>

soci_set_use_state_v(n, i, state) ==
    /\ w.alive
    /\ IF w.use_type_v[n] = "absent" \/ ~ ValidIndex(w.use_indicators_v[n], i) THEN Refused
       ELSE /\ w' = [w EXCEPT !.ok = TRUE, !.use_indicators_v[n][i + 1] = state]
            /\ IsGiven(n, [given[n] EXCEPT ![i + 1].state = state])
            /\ UNCHANGED <<blobs, row, ub>>

\* Mutation of soci_set_use_v: the indicator is set before the date is converted.
soci_set_use_v_early(n, type, i, value, converts) ==
    /\ w.alive /\ type # "blob"
    /\ ~ converts => type = "date"
    /\ IF name_exists_check_failed(n, type, "bulk") THEN Refused
       ELSE IF ~ ValidIndex(w.use_v[n], i) THEN Refused
       ELSE /\ w' = [w EXCEPT !.ok = converts, !.use_v[n][i + 1] = IF converts THEN value ELSE @,
                              !.use_indicators_v[n][i + 1] = "ok"]
            /\ given' = IF converts THEN [given EXCEPT ![n][i + 1] = Given(value, "ok")] ELSE given
            /\ UNCHANGED <<blobs, row, ub>>

soci_set_use_v(n, type, i, value, converts) ==
    /\ w.alive /\ type # "blob"
    /\ ~ converts => type = "date"
    /\ IF name_exists_check_failed(n, type, "bulk") \/ ~ ValidIndex(w.use_v[n], i) \/ ~ converts
       THEN Refused
       ELSE /\ w' = [w EXCEPT !.ok = TRUE, !.use_v[n][i + 1] = value,
                              !.use_indicators_v[n][i + 1] = "ok"]
            /\ IsGiven(n, [given[n] EXCEPT ![i + 1] = Given(value, "ok")])
            /\ UNCHANGED <<blobs, row, ub>>

soci_get_use_state(n) ==
    /\ w.alive
    /\ IF w.use_indicators[n] = "absent" THEN Refused ELSE Accepted

\* Of all these functions the vectors are looked for, and a single value is returned, of
\* a new entry if there is none.
GetUse(n, type) ==
    IF name_exists_check_failed(n, type, "bulk") THEN Answer(FALSE, "-", TRUE)
    ELSE Answer(TRUE, IF w.use_type[n] = type THEN w.use[n] ELSE "zero", TRUE)

soci_get_use(n, type) ==
    /\ w.alive
    /\ IF ~ GetUse(n, type).ok THEN Refused
       ELSE /\ "readsVector" \in Habits
            /\ Only([w EXCEPT !.ok = TRUE, !.use_type[n] = type,
                              !.use[n] = IF @ = "absent" THEN "zero" ELSE @])

-------------------------------------------------------------------------------
(* The statement behind the interface                                      *)

\* What is given to statement::exchange().  Single values and vectors are both gone
\* through; blobs are dereferenced.
UsesBound == [n \in Names |-> IF w.use_type[n] = "absent" THEN w.boundUse[n] ELSE w.boundUse[n] + 1]
UseVectorsBound ==
    [n \in Names |-> IF w.use_type_v[n] = "absent" THEN w.boundUseV[n] ELSE w.boundUseV[n] + 1]
NullIntoIsBound ==
    \E p \in Positions :
        /\ ValidPosition(p) /\ w.into_kind = "single"
        /\ w.into_types[p + 1] = "blob" /\ w.into[p] = "absent"
NullUseIsBound == \E n \in Names : w.use_type[n] = "blob" /\ w.use[n] = "absent"

\* What it does before the database is asked does not depend on the query, whose
\* preparation may fail: then the statement has the elements, but they have no backends.
soci_prepare(goesWell) ==
    /\ w.alive
    /\ w.state = "executing" => "prepareAgain" \in Habits /\ w.boundInto < 2
    /\ w' = [w EXCEPT
            !.ok = goesWell, !.state = "executing",
            !.prepared = IF ~ goesWell THEN "failed" ELSE IF @ = "executed" THEN @ ELSE "prepared",
            !.boundInto = @ + 1,
            !.boundUse = UsesBound, !.boundUseV = UseVectorsBound,
            !.boundBlob = [n \in Names |-> IF w.use_type[n] = "blob" THEN w.use[n] ELSE "absent"],
            !.use_indicators = [n \in Names |-> IF w.use_type[n] # "absent" /\ @[n] = "absent"
                                                THEN "ok" ELSE @[n]]]
    /\ ub' = (ub \/ NullIntoIsBound \/ NullUseIsBound)
    /\ UNCHANGED <<blobs, given, row>>

Added == {p \in Positions : ValidPosition(p)}
IntoSizes ==
    IF w.boundInto = 0 THEN {}
    ELSE {IF w.into_kind = "single" THEN 1 ELSE Len(w.into_v[p]) : p \in Added}
UseSizes ==
    {1 : n \in {m \in Names : w.boundUse[m] > 0}}
    \cup {Len(w.use_v[n]) : n \in {m \in Names : w.boundUseV[m] > 0}}
Mismatch(sizes) == \E a, b \in sizes : a # b
IntoSize == IF IntoSizes = {} THEN 0 ELSE CHOOSE n \in IntoSizes : TRUE
UseSize == IF UseSizes = {} THEN 0 ELSE CHOOSE n \in UseSizes : TRUE

\* A blob that was bound is used.
BoundBlobIsGone ==
    \E n \in Names : w.boundBlob[n] # "absent" /\ blobs[w.boundBlob[n]] \in {"gone", "stolen"}

\* The elements when n rows were got, or none; the vectors get their number as size.
WithRows(n, cols) ==
    IF w.into_kind = "bulk"
    THEN [w EXCEPT
            !.into_indicators_v = [k \in DOMAIN @ |->
                [j \in 1 .. n |-> IF cols[k - 1][j] = "NULL" THEN "null" ELSE "ok"]],
            !.into_v = [p \in Positions |->
                IF p \in Added
                THEN [j \in 1 .. n |-> IF cols[p][j] = "NULL" THEN "zero" ELSE cols[p][j]]
                ELSE @[p]]]
    ELSE IF n = 0 THEN w
    ELSE [w EXCEPT
            !.into_indicators = [k \in DOMAIN @ |-> IF cols[k - 1][1] = "NULL" THEN "null" ELSE "ok"],
            !.into = [p \in Positions |->
                IF p \in Added /\ w.into_types[p + 1] # "blob" /\ cols[p][1] # "NULL"
                THEN cols[p][1] ELSE @[p]]]

RowsOf(n, cols) ==
    [p \in Positions |->
        IF p \in Added /\ (w.into_kind = "bulk" \/ n > 0) THEN cols[p] ELSE row[p]]

\* The statement throws, before or after it asked the database.
Throws(wrapper) == w' = [wrapper EXCEPT !.ok = FALSE] /\ UNCHANGED row
Returns(wrapper, rows) == w' = [wrapper EXCEPT !.ok = TRUE] /\ row' = rows

\* The backend of an element is used, which is a null pointer until the statement was
\* prepared; MySQL takes the first piece of a query that it never got.
ExecutesUnprepared ==
    w.prepared = "no" \/ (w.prepared = "failed" /\ IntoSizes \cup UseSizes # {})

\* The same; MySQL and PostgreSQL count the rows on from numbers that only an execution sets.
FetchesUnprepared ==
    /\ IntoSizes # {}
    /\ \/ w.prepared = "failed" /\ (w.into_kind = "bulk" \/ w.fetchSize # 0)
       \/ /\ w.prepared = "prepared" /\ w.fetchSize # 0
          /\ ~ Mismatch(IntoSizes) /\ IntoSize \in 1 .. w.initial

\* statement_impl::execute()
soci_execute(exchange, res, n, cols) ==
    LET started == IF Mismatch(IntoSizes) THEN w
                   ELSE IF IntoSizes = {0} THEN [w EXCEPT !.initial = 0]
                   ELSE [w EXCEPT !.initial = IntoSize, !.fetchSize = IntoSize]
        refused == \/ Mismatch(IntoSizes) \/ IntoSizes = {0}
                   \/ Mismatch(UseSizes) \/ 0 \in UseSizes
                   \/ UseSize > 1 /\ IntoSize > 1
        ran == IF w.prepared = "no" THEN "no" ELSE "executed"
        after == [WithRows(n, cols) EXCEPT !.initial = IntoSize, !.fetchSize = IntoSize,
                                           !.prepared = ran]
        before == [started EXCEPT !.prepared = ran]
    IN  /\ w.alive
        /\ w.prepared \in {"no", "failed"} => "unprepared" \in Habits
        /\ n > 0 => exchange
        /\ refused => res = "error"
        /\ ub' = \/ ub \/ ExecutesUnprepared
                 \/ BoundBlobIsGone /\ ~ Mismatch(IntoSizes) /\ IntoSizes # {0}
        /\ IF res = "error" THEN Throws(started)
           ELSE IF res = "rows" \/ (exchange /\ IntoSize > 1) THEN Returns(after, RowsOf(n, cols))
           ELSE Returns(before, row)
        /\ UNCHANGED <<blobs, given>>

\* statement_impl::fetch()
soci_fetch(res, n, cols) ==
    LET refused == Mismatch(IntoSizes) \/ IntoSize > w.initial
        fetched(size) == [WithRows(n, cols) EXCEPT !.fetchSize = size]
    IN  /\ w.alive
        /\ w.prepared \in {"failed", "prepared"} /\ IntoSizes # {} => "unprepared" \in Habits
        /\ ub' = (ub \/ FetchesUnprepared)
        /\ IF IntoSizes = {} THEN res = "none" /\ Returns(w, row)
           ELSE IF w.fetchSize = 0
           THEN res = "none" /\ Returns(WithRows(n, cols), RowsOf(n, cols))
           ELSE IF refused THEN res = "error" /\ Throws(w)
           ELSE IF IntoSize = 0 THEN res = "none" /\ Returns(w, row)
           ELSE IF res = "error" THEN Throws([w EXCEPT !.fetchSize = IntoSize])
           ELSE \E size \in {0, IntoSize} :
                    /\ size = 0 => IntoSize > 1
                    /\ n < IntoSize /\ IntoSize > 1 => size = 0
                    /\ Returns(fetched(size), RowsOf(n, cols))
        /\ UNCHANGED <<blobs, given>>

-------------------------------------------------------------------------------
(* The specification                                                       *)

HandleCalls ==
    \/ soci_create_statement
    \/ soci_destroy_statement
    \/ \E b \in Blobs : soci_create_blob(b) \/ soci_destroy_blob(b)

IntoCalls ==
    \/ \E type \in Types :
          \/ \E b \in Blobs \cup {"absent"} : soci_into(type, b)
          \/ soci_into_v(type)
    \/ \E p \in 0 .. MaxInto :
          \/ soci_get_into_state(p)
          \/ \E type \in Types : soci_get_into(p, type)
          \/ \E i \in 0 .. MaxVector :
                \/ soci_get_into_state_v(p, i)
                \/ \E type \in Types : soci_get_into_v(p, type, i)
    \/ soci_into_get_size_v
    \/ \E size \in 0 .. MaxVector : soci_into_resize_v(size)

UseCalls ==
    \/ \E n \in Names :
          \/ \E type \in Types :
                \/ \E b \in Blobs \cup {"absent"} : soci_use(n, type, b)
                \/ soci_use_v(n, type)
                \/ \E value \in Values, converts \in BOOLEAN :
                      \/ soci_set_use(n, type, value, converts)
                      \/ \E i \in 0 .. MaxVector : soci_set_use_v(n, type, i, value, converts)
                \/ soci_get_use(n, type)
          \/ \E b \in Blobs : soci_set_use_blob(n, b)
          \/ \E state \in Indicators :
                \/ soci_set_use_state(n, state)
                \/ \E i \in 0 .. MaxVector : soci_set_use_state_v(n, i, state)
          \/ soci_get_use_state(n)
    \/ soci_use_get_size_v
    \/ \E size \in 0 .. MaxVector : soci_use_resize_v(size)

StatementCalls ==
    \/ \E goesWell \in BOOLEAN : soci_prepare(goesWell)
    \/ \E n \in 0 .. IntoSize :
          \E res \in IF n > 0 THEN {"rows"} ELSE {"none", "error"},
             cols \in [Added -> [1 .. n -> Fetched]] :
                \/ \E exchange \in BOOLEAN : soci_execute(exchange, res, n, cols)
                \/ soci_fetch(res, n, cols)

Next == HandleCalls \/ IntoCalls \/ UseCalls \/ StatementCalls

Spec == Init /\ [][Next]_vars

-------------------------------------------------------------------------------
(* Properties                                                              *)

\* Whatever a program without the Habits calls, with any position, name, type and index, in
\* whatever order of adding elements, setting, resizing, preparing, executing, fetching and
\* reading: no indicator is read past its vector, no element is used before it has a
\* backend, no number of rows before it is set, and no blob after it was destroyed.
NoUndefined == ~ ub

\* Every blob that the statement made is destroyed by the time that the handle is, and the
\* program's blobs never are.
BlobsAccounted ==
    \A b \in Blobs :
        /\ blobs[b] # "stolen"
        /\ blobs[b] = "library" => b \in IntoBlobs \/ \E n \in Names : b \in OwnedBy(n)

\* A function that reads an into element finds exactly the cells of its type that the rows
\* got last have and that are not null, and answers with their values: of a null, past the
\* last row or of another type it does not say that all is well.
AnswersAreRows ==
    \A p \in Added, type \in Types \ {"blob"} :
        IF w.into_kind = "single"
        THEN LET a == GetInto(p, type)
             IN  /\ a.ok <=> w.into_types[p + 1] = type /\ row[p] # << "NULL" >>
                 /\ a.ok => a.value = row[p][1]
        ELSE \A i \in 0 .. MaxVector :
                LET a == GetIntoV(p, type, i)
                IN  /\ a.ok <=> /\ w.into_types[p + 1] = type
                                /\ i < Len(row[p]) /\ row[p][i + 1] # "NULL"
                    /\ a.ok => a.value = row[p][i + 1]

\* Once prepared, each use element is bound once and to where the program's calls put its
\* value: what an execution sends is the value and the state that were last set, of a name
\* or of each element of a vector.
SentAsSet ==
    w.state = "executing" =>
    \A n \in Names :
        /\ w.boundUse[n] + w.boundUseV[n] = (IF w.use_type[n] # "absent" \/ w.use_type_v[n] # "absent"
                                             THEN 1 ELSE 0)
        /\ w.boundUse[n] = 1 =>
              given[n] = << Given(IF w.use_type[n] = "blob" THEN w.boundBlob[n] ELSE w.use[n],
                                  w.use_indicators[n]) >>
        /\ w.boundUseV[n] = 1 =>
              /\ Len(w.use_v[n]) = Len(given[n]) /\ Len(w.use_indicators_v[n]) = Len(given[n])
              /\ \A i \in DOMAIN given[n] :
                    given[n][i] = Given(w.use_v[n][i], w.use_indicators_v[n][i])

UseElements == <<w.use_type, w.use, w.use_indicators, w.use_type_v, w.use_v, w.use_indicators_v>>

\* A call that says that it failed has left the use elements and the list of the into
\* elements as they were.
FailureLeavesElements ==
    [][w.alive /\ w'.alive /\ ~ w'.ok => UNCHANGED UseElements /\ UNCHANGED w.into_types]_vars

\* The functions that read a single use element find it.
UseReadable ==
    \A n \in Names, type \in Types : w.use_type[n] = type => GetUse(n, type).ok

===============================================================================
