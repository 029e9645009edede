------------------------------ MODULE Convert ------------------------------
(***************************************************************************)
(* The conversions between YAML text and values: LexicalCast of            *)
(* include/config.hpp and, for the definitions of loggers, of src/log.cpp, *)
(* as ConfigVar::fromString and ConfigVar::toString use them.              *)
(*                                                                         *)
(* A text stands for what yaml-cpp reads it as, so that a part of a        *)
(* document, which the code prints and reads again, is a text as it is:    *)
(*   <<"plain", a>>  a scalar a      <<"quoted", t>>  a scalar, the text t *)
(*   <<"seq", items>>                <<"map", list of <<key, item>>>>      *)
(*   <<"null">>      written "~"     <<"none">>       the empty text       *)
(* A type is a sequence of words: containers, "vector" (or list), "set"    *)
(* and "map" (ordered or not), from the outermost inwards, and a base:     *)
(* "int", "string", "appender" (LogAppenderDefine) or "log" (LogDefine).   *)
(* The value of a string is a text.  What recurs in the code goes through  *)
(* the words from the last one backwards.                                  *)
(***************************************************************************)
EXTENDS Naturals, Sequences, SequencesExt, FiniteSets

CONSTANTS
  VarTypes,  \* the T of the variable is one of these
  Default,   \* the default_val of each
  Docs,      \* the texts given to fromString for each
  Ints,      \* the scalars that are integers
  Levels,    \* the names of log levels, but for UNKNOW
  MaxPrints  \* bound: calls of toString

VARIABLES
  T,     \* the type of the variable
  val,   \* m_val
  text,  \* the text fromString was given last
  ok,    \* what it returned
  saved, \* the text toString returned last
  was,   \* the value it was made from
  prints \* calls of toString so far

vars == <<T, val, text, ok, saved, was, prints>>

None == <<"none">>

\* A scalar with the content t: quoted if it would be read as something else.
\* Mutant: always quoted.
ScalarQuoted(t) == <<"quoted", t>>

Scalar(t) == IF t[1] = "plain" THEN t ELSE <<"quoted", t>>

----------------------------------------------------------------------------
(* From text.  What a conversion returns is a set: no value if it throws.  *)

\* node[i] of the first size() items: a map has no such keys.
Items(t) ==
  IF t[1] = "seq" THEN t[2]
  ELSE IF t[1] = "map" THEN [k \in DOMAIN t[2] |-> None] ELSE <<>>

\* The texts that a container c in t converts, and Parts(E, t)[n] those that
\* the n-th word of E does.
Inside(c, t) ==
  IF c = "map" /\ t[1] = "map" THEN {t[2][k][2] : k \in DOMAIN t[2]} ELSE ToSet(Items(t))
Parts(E, t) ==
  LET part[n \in DOMAIN E] == IF n = 1 THEN {t} ELSE UNION {Inside(E[n - 1], x) : x \in part[n - 1]}
  IN part

\* node[key], where there is one: the first of that name.
Keys(t) == IF t[1] = "map" THEN {t[2][k][1] : k \in DOMAIN t[2]} ELSE {}
Field(t, key) == t[2][CHOOSE k \in DOMAIN t[2] :
                        t[2][k][1] = key /\ \A j \in 1 .. k - 1 : t[2][j][1] # key][2]

\* as<std::string>() of node[key], which only a scalar has.
Given(t, key) ==
  IF key \notin Keys(t) THEN {}
  ELSE LET f == Field(t, key)
       IN IF f[1] = "plain" THEN {f} ELSE IF f[1] = "quoted" THEN {f[2]} ELSE {}
Optional(t, key) == IF key \in Keys(t) THEN Given(t, key) ELSE {None}

\* The name of a level, in any case of letters.
LevelOf(t) == IF t[1] = "plain" /\ t[2] \in Levels THEN t[2] ELSE "UNKNOW"

\* insert() of a set: LogDefine::operator< compares names only.
Same(e, a, b) == IF e = "log" THEN a.name = b.name ELSE a = b
Inserted(e, s) == {s[k] : k \in {i \in DOMAIN s : \A j \in 1 .. i - 1 : ~Same(e, s[j], s[i])}}

\* Mutant: the first item of each key, as insert() would keep it.
FirstOf(keys, s) ==
  [x \in ToSet(keys) |-> s[CHOOSE k \in DOMAIN s : keys[k] = x /\ \A j \in DOMAIN s : j < k => keys[j] # x]]

\* The last item of each key.
LastOf(keys, s) ==
  [x \in ToSet(keys) |-> s[CHOOSE k \in DOMAIN s : keys[k] = x /\ \A j \in DOMAIN s : j > k => keys[j] # x]]

\* All items converted: one that throws ends the conversion.
\* Mutant: it is skipped.
InOrderSkipping(results) ==
  LET good == SelectSeq(results, LAMBDA r : r # {})
  IN {[k \in DOMAIN good |-> CHOOSE x \in good[k] : TRUE]}

InOrder(results) ==
  IF {} \in ToSet(results) THEN {} ELSE {[k \in DOMAIN results |-> CHOOSE x \in results[k] : TRUE]}

ReadAppender(t) ==
  UNION {{[type |-> ty[2], file |-> f, level |-> LevelOf(l), formatter |-> m] :
            f \in IF ty[2] = "FileLogAppender" THEN Given(t, "file") ELSE {None},
            l \in Optional(t, "level"), m \in Optional(t, "formatter")} :
         ty \in Given(t, "type") \cap {<<"plain", "FileLogAppender">>, <<"plain", "StdoutLogAppender">>}}

Logged(t) == IF "appender" \in Keys(t) THEN Items(Field(t, "appender")) ELSE <<>>

ReadLog(t) ==
  {[name |-> n, level |-> LevelOf(l), formatter |-> m, appenders |-> a] :
     n \in Given(t, "name"), l \in Optional(t, "level"), m \in Optional(t, "formatter"),
     a \in InOrder([k \in DOMAIN Logged(t) |-> ReadAppender(Logged(t)[k])])}

ReadBase(b, t) ==
  CASE b = "int" -> IF t[1] = "plain" /\ t[2] \in Ints THEN {t[2]} ELSE {}
    [] b = "string" -> {t}
    [] b = "appender" -> ReadAppender(t)
    [] b = "log" -> ReadLog(t)

\* A container c of e: item[x] is what the conversion of x returns.
ReadItems(c, e, t, item) ==
  CASE c = "vector" -> InOrder([k \in DOMAIN Items(t) |-> item[Items(t)[k]]])
    [] c = "set" -> {Inserted(e, s) : s \in InOrder([k \in DOMAIN Items(t) |-> item[Items(t)[k]]])}
    [] c = "map" /\ t[1] = "map" ->
         {LastOf([k \in DOMAIN t[2] |-> t[2][k][1]], s) :
            s \in InOrder([k \in DOMAIN t[2] |-> item[t[2][k][2]]])}
    [] c = "map" /\ t[1] # "map" -> IF Items(t) = <<>> THEN {<<>>} ELSE {}

Reads(E, t) ==
  LET read[n \in DOMAIN E] ==
        [x \in Parts(E, t)[n] |-> IF n = Len(E) THEN ReadBase(E[n], x)
                                  ELSE ReadItems(E[n], E[n + 1], x, read[n + 1])]
  IN read
Read(E, t) == Reads(E, t)[1][t]

----------------------------------------------------------------------------
(* To text.  The items are printed one by one and become scalars.  An      *)
(* unordered container gives its items in any order, so the result is one  *)
(* of a set of texts.                                                      *)
Node(kind, items) == IF items = <<>> THEN None ELSE <<kind, items>>

\* A definition's members, in the order of the assignments.
WriteAppender(v) ==
  <<"map", << <<"type", <<"plain", v.type>> >> >>
             \o (IF v.type = "FileLogAppender" THEN << <<"file", Scalar(v.file)>> >> ELSE <<>>)
             \o << <<"level", <<"plain", v.level>> >>, <<"formatter", Scalar(v.formatter)>> >> >>

WriteLog(v) ==
  <<"map", << <<"name", Scalar(v.name)>>, <<"level", <<"plain", v.level>> >>,
              <<"formatter", Scalar(v.formatter)>>,
              <<"appender", Scalar(Node("seq", [k \in DOMAIN v.appenders |->
                                                  Scalar(WriteAppender(v.appenders[k]))]))>> >> >>

WriteBase(b, v) ==
  CASE b = "int" -> <<"plain", v>>
    [] b = "string" -> v
    [] b = "appender" -> WriteAppender(v)
    [] b = "log" -> WriteLog(v)

\* printed[x] are the texts of x.
Printed(s, printed) ==
  {r \in [DOMAIN s -> UNION {printed[s[k]] : k \in DOMAIN s}] : \A k \in DOMAIN s : r[k] \in printed[s[k]]}

WriteItems(c, v, printed) ==
  LET Seqs(s) == {Node("seq", [k \in DOMAIN s |-> Scalar(r[k])]) : r \in Printed(s, printed)}
      Maps(s) == {Node("map", [k \in DOMAIN s |-> <<s[k], Scalar(r[k])>>]) :
                    r \in Printed([k \in DOMAIN s |-> v[s[k]]], printed)}
  IN
  CASE c = "vector" -> Seqs(v)
    [] c = "set" -> UNION {Seqs(s) : s \in SetToSeqs(v)}
    [] c = "map" -> UNION {Maps(s) : s \in SetToSeqs(DOMAIN v)}

\* The values in a container c, and Values(E, v)[n] those that the n-th word of
\* E is about.
Held(c, v) == IF c = "set" THEN v ELSE {v[k] : k \in DOMAIN v}
Values(E, v) ==
  LET value[n \in DOMAIN E] == IF n = 1 THEN {v} ELSE UNION {Held(E[n - 1], x) : x \in value[n - 1]}
  IN value

Writes(E, v) ==
  LET write[n \in DOMAIN E] ==
        [x \in Values(E, v)[n] |-> IF n = Len(E) THEN {WriteBase(E[n], x)}
                                   ELSE WriteItems(E[n], x, write[n + 1])]
  IN write
Write(E, v) == Writes(E, v)[1][v]

----------------------------------------------------------------------------
\* A type ends in its base; a text of items is a list; a default is a value of
\* its type.
ASSUME TypesAssumption ==
  \A E \in VarTypes :
    /\ E \in Seq({"vector", "set", "map", "int", "string", "appender", "log"}) /\ Len(E) > 0
    /\ \A n \in DOMAIN E : E[n] \in {"vector", "set", "map"} <=> n < Len(E)

ASSUME DocsAssumption ==
  \A E \in VarTypes : \A t \in Docs[E] : t[1] \in {"seq", "map"} => t[2] \in Seq(ToSet(t[2]))

Fits(E, v) ==
  /\ E[1] = "vector" => v \in Seq(ToSet(v))
  /\ E[1] = "set" => IsFiniteSet(v)
  /\ E[1] = "map" => IsFiniteSet(DOMAIN v) /\ v = [x \in DOMAIN v |-> v[x]]
  /\ E[Len(E)] = "int" => Values(E, v)[Len(E)] \subseteq Ints

ASSUME DefaultAssumption == \A E \in VarTypes : Fits(E, Default[E])

Init ==
  /\ T \in VarTypes
  /\ val = Default[T] /\ was = val
  /\ text = None /\ ok = TRUE /\ saved \in Write(T, val) /\ prints = 0

\* The value is converted as a whole before setValue; fromString catches.
FromString(t) ==
  /\ text' = t
  /\ ok' = (Read(T, t) # {})
  /\ IF ok' THEN val' \in Read(T, t) ELSE UNCHANGED val
  /\ UNCHANGED <<T, saved, was, prints>>

ToText ==
  /\ prints < MaxPrints /\ prints' = prints + 1
  /\ saved' \in Write(T, val) /\ was' = val
  /\ UNCHANGED <<T, val, text, ok>>

Load    == \E t \in Docs[T] : FromString(t)
Restore == FromString(saved)

Next == Load \/ ToText \/ Restore
Spec == Init /\ [][Next]_vars

----------------------------------------------------------------------------
(* What a text means, said without the conversions.                         *)

\* t is written as the documents write a value of type E: of the right kind
\* all the way down, and no two loggers of one name.
FormedSettings(t) ==
  /\ "level" \in Keys(t) => Field(t, "level") \in {<<"plain", l>> : l \in Levels}
  /\ "formatter" \in Keys(t) => Field(t, "formatter")[1] = "plain"

FormedAppender(t) ==
  LET file == <<"plain", "FileLogAppender">> IN
  /\ "type" \in Keys(t) /\ Field(t, "type") \in {file, <<"plain", "StdoutLogAppender">>}
  /\ Field(t, "type") = file => "file" \in Keys(t) /\ Field(t, "file")[1] = "plain"
  /\ FormedSettings(t)

FormedBase(b, t) ==
  CASE b = "int" -> t[1] = "plain" /\ t[2] \in Ints
    [] b = "string" -> t[1] = "plain"
    [] b = "appender" -> FormedAppender(t)
    [] b = "log" ->
         /\ {"name", "appender"} \subseteq Keys(t) /\ Field(t, "name")[1] = "plain"
         /\ FormedSettings(t)
         /\ Field(t, "appender")[1] = "seq" /\ \A k \in DOMAIN Logged(t) : FormedAppender(Logged(t)[k])

FormedItems(c, e, t) ==
  /\ t[1] = IF c = "map" THEN "map" ELSE "seq"
  /\ t[2] \in Seq(ToSet(t[2]))
  /\ e = "log" /\ c # "map" =>
       \A j, k \in DOMAIN t[2] : Given(t[2][j], "name") = Given(t[2][k], "name") => j = k

Formed(E, t) ==
  \A n \in DOMAIN E : \A x \in Parts(E, t)[n] :
    IF n = Len(E) THEN FormedBase(E[n], x) ELSE FormedItems(E[n], E[n + 1], x)

\* v is what such a text says: as many items, in this order, no other ones;
\* of a key given twice, the last item.
MeansSettings(t, v) ==
  /\ "level" \in Keys(t) => v.level = Field(t, "level")[2]
  /\ "formatter" \in Keys(t) => v.formatter = Field(t, "formatter")

MeansAppender(t, v) ==
  /\ v.type = Field(t, "type")[2]
  /\ v.type = "FileLogAppender" => v.file = Field(t, "file")
  /\ MeansSettings(t, v)

MeansBase(b, t, v) ==
  CASE b = "int" -> t[2] = v
    [] b = "string" -> t = v
    [] b = "appender" -> MeansAppender(t, v)
    [] b = "log" ->
         /\ v.name = Field(t, "name") /\ MeansSettings(t, v)
         /\ DOMAIN v.appenders = DOMAIN Logged(t)
         /\ \A k \in DOMAIN Logged(t) : MeansAppender(Logged(t)[k], v.appenders[k])

MeansItems(c, t, v, means) ==
  CASE c = "vector" -> DOMAIN v = DOMAIN t[2] /\ \A k \in DOMAIN v : <<t[2][k], v[k]>> \in means
    [] c = "set" ->
         /\ \A x \in v : \E k \in DOMAIN t[2] : <<t[2][k], x>> \in means
         /\ \A k \in DOMAIN t[2] : \E x \in v : <<t[2][k], x>> \in means
    [] c = "map" ->
         /\ DOMAIN v = Keys(t)
         /\ \A k \in DOMAIN t[2] :
              \/ <<t[2][k][2], v[t[2][k][1]]>> \in means
              \/ \E j \in DOMAIN t[2] : j > k /\ t[2][j][1] = t[2][k][1]

Meant(E, t, v) ==
  LET means[n \in DOMAIN E] ==
        {p \in Parts(E, t)[n] \X Values(E, v)[n] :
           IF n = Len(E) THEN MeansBase(E[n], p[1], p[2]) ELSE MeansItems(E[n], p[1], p[2], means[n + 1])}
  IN means
Means(E, t, v) == <<t, v>> \in Meant(E, t, v)[1]

\* Somewhere in t is an item that is no value of its type.
BrokenBase(b, t) ==
  CASE b = "int" -> t[1] # "plain" \/ t[2] \notin Ints
    [] b = "string" -> FALSE
    [] b = "appender" -> "type" \notin Keys(t)
    [] b = "log" -> "name" \notin Keys(t) \/ \E a \in ToSet(Logged(t)) : "type" \notin Keys(a)
Broken(E, t) == \E x \in Parts(E, t)[Len(E)] : BrokenBase(E[Len(E)], x)

\* What toString writes down for good: integers, text, and containers of
\* integers and of plain strings.
Keeps(E, v) ==
  \/ E \in {<<"int">>, <<"string">>}
  \/ Len(E) = 2 /\ E[2] = "int"
  \/ E = <<"vector", "string">> /\ \A k \in DOMAIN v : v[k][1] = "plain"

----------------------------------------------------------------------------
(* ReadMe.md:155: a document in the form the types call for is taken as it *)
(* is, nested containers and definitions of loggers included: no item is   *)
(* lost, invented, or put in another's place.                              *)
ReadsAsWritten == Formed(T, text) => ok /\ Means(T, text, val)

(* A document with an item that does not convert, however deep, changes    *)
(* nothing: the items before it are not kept (fromString, config.hpp:255). *)
NoHalfDocument == [][Broken(T, text') => val' = val]_vars

(* What toString has printed brings its value back, whatever was read in   *)
(* between: for values without containers or quotes inside containers.     *)
RoundTrip == text = saved /\ Keeps(T, was) => ok /\ val = was

\* The same for every type, which the code does not keep: nested containers
\* and definitions are printed as scalars.
RoundTripNested == text = saved => ok /\ val = was
=============================================================================
