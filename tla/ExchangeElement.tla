--------------------------- MODULE ExchangeElement ---------------------------
(***************************************************************************)
(* A statement with one element that exchanges data with a variable of     *)
(* the program: a use element (UseExchange) or an into element             *)
(* (IntoExchange), for a single value or for a vector.                     *)
(*                                                                         *)
(* The types of the values are told apart as far as a backend treats them  *)
(* differently: "number" stands for double and the integers of up to 32    *)
(* bits, "bigint" for those of 64 bits, "long" for long_string and         *)
(* xml_type.                                                               *)
(***************************************************************************)
EXTENDS Integers, Sequences

CONSTANTS Shapes,     \* the elements considered, see ShapeType
          Values,     \* values of the program's variables and of the database
          MaxVector   \* bound on the size of a vector, or of a range of one

Kinds == {"sqlite3", "postgresql", "mysql", "oracle", "odbc", "db2", "firebird"}
Types == {"number", "bigint", "char", "string", "tm", "long"}
Indicators == {"ok", "null", "truncated"}

\* inds: the program gives no indicators, or gives some that are never null, or that are
\* never truncated, or any (of an into element: none or "any"); range: a part of the vector is used (begin 1,
\* *end); text: what use_string_for_bigint() of odbc says; resizes: the program changes
\* the size of its vector, up to the size it had when it was bound, or to any; again: when
\* the program uses the statement another time: never, when all before went well, always.
ShapeType ==
    [dir : {"use", "into"}, kind : Kinds, type : Types, bulk : BOOLEAN, readOnly : BOOLEAN,
     inds : {"none", "set", "null", "any"}, range : BOOLEAN, text : BOOLEAN,
     resizes : {"no", "within", "any"}, again : {"never", "done", "always"}]

ASSUME ExchangeAssumption ==
    /\ Shapes \subseteq ShapeType
    /\ MaxVector \in Nat \ {0, 1}
    /\ \A s \in Shapes : s.range => s.bulk /\ s.kind \in {"postgresql", "oracle"}

VARIABLES
    shape,  \* the element
    data,   \* the program's variable, or its vector
    inds,   \* the program's indicators, one for each element of data
    end,    \* *end_
    be,     \* fields of the element's backend
    last    \* the last use of the statement

vars == <<shape, data, inds, end, be, last>>

\* "zero": a value that nothing was assigned to; "junk": memory of no defined content.
Cells == Values \cup {"NULL", "junk", "zero"}

\* buf: buf_, buffers_, the LOBs or the columns in useData_; nulls: the indicators that
\* were bound; lens: those of an into element, "zero" until something wrote to them;
\* sizes: sizes_ of oracle's use element, the strings whose lengths they are; holder:
\* indHolder_ of odbc; points: what data_ points to, the program's variable until db2
\* changes it; endVar: end_var_; bound: the size when the element was bound; initial:
\* initialFetchSize_.
BackendType ==
    [buf : Seq(Cells), nulls : Seq(BOOLEAN), lens : Seq({"null", "len", "zero"}),
     sizes : Seq(Values), holder : {"0", "NTS"},
     points : {"variable", "buffer"}, endVar : 0 .. MaxVector + 1,
     bound : 1 .. MaxVector + 1, initial : 0 .. MaxVector + 1]

\* Of a use element: asked is what the variables said when execute() was called, sent the
\* parameters of the rows that the database got, wrote what it wrote to the parameter, if
\* anything.  Of an into element: sent are the rows that the database gave.
LastType ==
    [res : {"none", "done", "failed", "refused", "rejected"},
     asked : Seq(Cells), sent : Seq(Cells), wrote : Values \cup {"NULL", "nothing"}]

TypeOK ==
    /\ shape \in Shapes
    /\ data \in Seq(Cells) /\ Len(data) <= MaxVector + 1
    /\ inds \in Seq(Indicators) /\ Len(inds) = Len(data)
    /\ end \in 0 .. MaxVector + 1
    /\ be \in BackendType
    /\ last \in LastType

Begin == IF shape.range THEN 1 ELSE 0

\* The vector's element number i, wherever that is.
Element(i) == IF i \in DOMAIN data THEN data[i] ELSE "junk"

\* The sizes that the program's vector can have, and the ends of its range.
VectorSizes ==
    CASE ~ shape.bulk -> {1}
      [] shape.range -> {MaxVector + 1}
      [] OTHER -> 1 .. MaxVector
Ends == IF shape.range THEN Begin + 1 .. MaxVector + 1 ELSE {0}

NewSizes ==
    CASE shape.resizes = "no" -> {Len(data)}
      [] shape.resizes = "within" -> 0 .. be.bound
      [] OTHER -> 0 .. MaxVector

\* size() of postgresql and oracle: a vector whose size has changed since it was bound
\* is used as a whole.
RangeSize(e) ==
    IF Len(data) # e.endVar THEN Len(data)
    ELSE IF shape.range THEN end - Begin ELSE e.endVar

Unbound(n) ==
    [buf |-> <<>>, nulls |-> <<>>, lens |-> <<>>, sizes |-> <<>>, holder |-> "0", points |-> "variable",
     endVar |-> n, bound |-> n, initial |-> 0]

NotUsed == [res |-> "none", asked |-> <<>>, sent |-> <<>>, wrote |-> "nothing"]

\* The program goes on after a failure or it does not.
MayGoOn ==
    \/ last.res = "none"
    \/ shape.again = "always"
    \/ shape.again = "done" /\ last.res = "done"

===============================================================================
