----------------------------- MODULE MCParameters -----------------------------
(* Instances of Parameters for TLC.                                        *)
EXTENDS Parameters

\* A name, a comma, two parameters, a literal with a colon, an empty literal (two literals
\* side by side are one with a quote in it).
Common == {<<"a">>, <<",">>, <<":", "a">>, <<":", "b">>, <<"'", ":", "a", "'">>, <<"'", "'">>}

Cast == <<":", ":", "a">>

SqlLexemes ==
    [b \in Backends |-> Common \cup
        CASE b = "postgresql" -> {Cast, Assignment, <<"\"", "'", ":", "\"">>, <<"'", "\"", "'">>}
          [] b = "mysql"      -> {Assignment, <<"'", "\\", "'", ":", "'">>, <<"'", "\\", "\\", "'">>}
          [] b = "odbc"       -> {<<"#", "'", ":", "#">>, <<"'", "#", "'">>}
          [] b = "db2"        -> {Cast}
          [] b = "firebird"   -> {}]

\* mysql takes one value too many, or one too few, for a part of the query, db2 does not
\* know a cast after a parameter, and no backend a literal, a quoted identifier or another
\* parameter directly after one.
UsualHabits ==
    {<<"postgresql", "casts">>} \cup {<<b, "otherNumber">> : b \in Backends \ {"mysql"}}

===============================================================================
