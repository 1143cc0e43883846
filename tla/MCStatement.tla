----------------------------- MODULE MCStatement -----------------------------
(* Instances of Statement for TLC.                                         *)
EXTENDS Statement

AllShapes ==
    {s \in ShapeType : s.use > 1 => s.into = "none"}

\* Of the regular statements: only those with into elements return columns, a data exchange
\* that is possible happens, and only a vector with a use element has a smallest size.
GoodShapes ==
    {s \in AllShapes :
        /\ Regular(s)
        /\ s.into = "none" => ~ s.columns
        /\ ~ s.exchange => s.kind \in {"firebird", "oracle"} /\ s.into = "vector"
        /\ s.min > 1 => s.into = "vector" /\ s.use = 1}

\* What is not regular.
VectorWithUse ==
    {s \in AllShapes : s.kind = "sqlite3" /\ s.into = "vector" /\ s.use = 1}

RowWithoutColumns ==
    {s \in AllShapes : s.kind = "postgresql" /\ s.into = "row" /\ ~ s.columns /\ s.min = 1}

FirebirdVector ==
    {s \in AllShapes : s.kind = "firebird" /\ s.into = "vector" /\ s.use = 0 /\ s.columns}

===============================================================================
