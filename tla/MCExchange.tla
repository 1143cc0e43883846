----------------------------- MODULE MCExchange -----------------------------
(* Instances of Exchange for TLC.                                          *)
EXTENDS Exchange

\* The types that a backend tells apart.
TypesOf(kind) ==
    CASE kind \in {"postgresql", "mysql", "firebird"} -> {"string"}
      [] kind = "sqlite3" -> {"string", "tm"}
      [] kind = "oracle" -> {"number", "bigint", "string", "tm", "long"}
      [] kind = "odbc" -> {"number", "bigint", "string", "tm", "long"}
      [] kind = "db2" -> {"number", "string", "tm"}

\* What the elements of a backend can be.
Possible(s) ==
    /\ s.type \in TypesOf(s.kind)
    /\ s.range => s.bulk /\ s.kind \in {"postgresql", "oracle"}
    /\ s.readOnly => s.dir = "use" /\ s.kind = "oracle" /\ ~ s.bulk
    /\ s.text => s.kind = "odbc" /\ s.type = "bigint"
    /\ s.resizes # "no" => s.bulk

\* The use elements, and what the program does with them.  Left out is what does not
\* work: postgresql and mysql send the first vector again, oracle so with the lengths of
\* its strings; postgresql keeps the size that the vector had; a date of db2 is gone after
\* the first execution; postgresql sends the old value for a null after a failure; a LOB of
\* oracle is not in the range; odbc resets the indicator of a null; oracle does not give a
\* 64-bit integer back.
GoodUse ==
    {s \in ShapeType :
        /\ s.dir = "use" /\ Possible(s)
        /\ s.again = CASE s.bulk /\ s.kind \in {"postgresql", "mysql"} -> "never"
                       [] s.bulk /\ s.kind = "oracle" /\ s.type = "string" -> "never"
                       [] ~ s.bulk /\ s.kind = "db2" /\ s.type = "tm" -> "never"
                       [] ~ s.bulk /\ s.kind = "postgresql" /\ s.inds # "none" -> "done"
                       [] OTHER -> "always"
        /\ s.resizes = IF s.bulk /\ ~ s.range /\ s.kind # "postgresql" THEN "any" ELSE "no"
        /\ s.inds \in CASE s.kind = "odbc" /\ ~ s.bulk -> {"none", "set"}
                        [] s.kind = "firebird" -> {"none", "any"}
                        [] OTHER -> {"none", "null"}
        /\ s.kind = "oracle" /\ s.type = "long" => ~ s.range
        /\ s.kind = "oracle" /\ s.type = "bigint" => s.bulk \/ s.readOnly}

\* The into elements.  Left out: a vector that grows again with db2, whose strings and
\* nulls are lost; oracle without indicators after a null; a LOB of oracle in a range;
\* odbc's 64-bit integers as text.
GoodInto ==
    {s \in ShapeType :
        /\ s.dir = "into" /\ Possible(s)
        /\ s.inds \in {"none", "any"} /\ ~ s.text
        /\ s.again = IF s.kind = "oracle" /\ s.inds = "none" THEN "done" ELSE "always"
        /\ s.resizes = IF ~ s.bulk \/ s.kind = "db2" THEN "no"
                       ELSE IF s.kind \in {"odbc", "oracle"} \/ s.range THEN "within"
                       ELSE "any"
        /\ s.kind = "oracle" /\ s.type = "long" => ~ s.range}

\* A vector of strings that the program makes smaller and larger again between fetches.
Db2Shapes ==
    {s \in ShapeType :
        /\ s.dir = "into" /\ Possible(s)
        /\ s.kind = "db2" /\ s.bulk /\ s.type = "string" /\ s.inds = "any"
        /\ s.resizes = "within" /\ s.again = "always"}

\* A single value that is null, used again.
OdbcNullShapes ==
    {s \in ShapeType :
        /\ s.dir = "use" /\ Possible(s)
        /\ s.kind = "odbc" /\ ~ s.bulk /\ s.inds = "null" /\ s.again = "done"}

GoodShapes == GoodUse \cup GoodInto

===============================================================================
