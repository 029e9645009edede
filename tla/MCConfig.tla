------------------------------ MODULE MCConfig ------------------------------
(* Instances of Config: the values TLC's configurations refer to.           *)
EXTENDS Config, ConfigDoc

CONSTANTS i0, i1, m0, m1, junk

\* "sys" is a map variable, "sys.port" an integer one.
Sys  == <<"sys">>
Port == <<"sys", "port">>

Bad  == <<"po/rt">>

AllNames == {Sys, Port, Bad}
BadNames == {Bad}

LowerKeys == [k \in {"sys", "port", "Sys", "PORT"} |->
                CASE k = "Sys" -> "sys" [] k = "PORT" -> "port" [] OTHER -> k]

TypeValues   == [int |-> {i0, i1}, map |-> {m0, m1}]
TypeDefaults == [int |-> i0, map |-> m0]
TypeNames    == {"int", "map"}

\* The listeners of map variables set integer ones; the other two have
\* listeners that set each other's variables, or their own.
MapSetsInt  == [int |-> {}, map |-> {"int"}]
EachOther   == [int |-> {"map"}, map |-> {"int"}]
OwnVariable == [int |-> {"int"}, map |-> {}]

Leaf(v)    == [val |-> v, kids |-> <<>>]
Tree(v, s) == [val |-> v, kids |-> s]

\* A document with keys in both cases; one whose first value does not
\* convert; one that names the variable twice.
Documents ==
  {ListAllMember(<<>>, Tree(junk, <<<<"Sys", Tree(m1, <<<<"PORT", Leaf(i1)>>>>)>>>>)),
   ListAllMember(<<>>, Tree(junk, <<<<"sys", Tree(junk, <<<<"port", Leaf(i1)>>>>)>>>>)),
   ListAllMember(<<>>, Tree(junk, <<<<"sys", Tree(m1, <<<<"port", Leaf(i1)>>, <<"PORT", Leaf(i0)>>>>)>>>>))}
=============================================================================
