----------------------------- MODULE MCConvert -----------------------------
(* Constant values for model checking Convert: types the tests and the      *)
(* configuration of loggers use, and documents that fit them or do not.     *)
EXTENDS Convert

P(a)    == <<"plain", a>>
Seq2(S) == {<<"seq", <<>>>>} \cup {<<"seq", <<a>>>> : a \in S} \cup {<<"seq", <<a, b>>>> : a, b \in S}
Map2(S) == {<<"map", << <<j, a>>, <<k, b>> >> >> : j, k \in {"x", "y"}, a, b \in S}

IntT    == <<"int">>
StringT == <<"string">>
LogT    == <<"log">>
Of(c, E) == <<c>> \o E

FlatTypes == {IntT, StringT, Of("vector", IntT), Of("set", IntT), Of("map", IntT), Of("vector", StringT)}
Nested    == {Of("vector", Of("set", IntT)), Of("map", Of("vector", IntT)), Of("set", LogT)}
AllTypes  == FlatTypes \cup Nested

Scalars == {P("1"), P("2"), P("b"), <<"null">>}
Simple  == Scalars \cup Seq2({P("1"), P("2"), P("b")}) \cup Map2({P("1"), P("2")})
Deep    == Seq2({P("1"), <<"seq", <<P("1"), P("1")>>>>, <<"seq", <<P("1"), P("2")>>>>, <<"seq", <<P("2"), P("b")>>>>})
             \cup Map2({<<"seq", <<P("1"), P("2")>>>>, <<"seq", <<P("2"), P("b")>>>>})

\* Appenders: good ones, one without its file, one of no type, one unknown.
Stdout == <<"map", << <<"type", P("StdoutLogAppender")>>, <<"level", P("INFO")>> >> >>
File   == <<"map", << <<"type", P("FileLogAppender")>>, <<"file", P("f")>> >> >>
NoFile == <<"map", << <<"type", P("FileLogAppender")>> >> >>
NoType == <<"map", << <<"file", P("f")>> >> >>
Appenders == {P("b"), <<"seq", <<Stdout, File>>>>, <<"seq", <<Stdout, NoFile>>>>, <<"seq", <<NoType>>>>}

Logger(n, a) == <<"map", << <<"name", P(n)>>, <<"level", P("INFO")>>, <<"appender", a>> >> >>
Loggers == {Logger(n, a) : n \in {"x", "y"}, a \in Appenders} \cup {<<"map", << <<"level", P("INFO")>> >> >>}

Documents == [D \in AllTypes |->
                IF D = Of("set", LogT) THEN {P("b")} \cup Seq2(Loggers)
                ELSE IF D \in Nested THEN Deep ELSE Simple]

Initially == [D \in AllTypes |->
                CASE D[1] = "int" -> "2" [] D[1] = "string" -> P("b") [] D[1] = "set" -> {} [] OTHER -> <<>>]
=============================================================================
