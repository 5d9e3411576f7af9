--------------------------- MODULE MCLinkOperators ---------------------------
(* One operator on every pair of contents, and two operators, of which the   *)
(* second reads what the first has answered, on some of them.                *)
EXTENDS StringOperators

CONSTANTS vx, vy, vz, vu, vv, vw

MCNumber == -8 .. 7
MCReals  == {<<"0", ".">>, <<"2", ".">>, <<"nan">>}

Letter == {"a", "b", "A", "B", " "}
Tag    == {"int: ", "uint: ", "float: ", "double: ", "u", ".", "nan"}
MCWritten == -10 .. 10
Piece  == Letter \cup Tag \cup {ToString(n) : n \in MCWritten}

MCLower == "A" :> "a"
MCUpper == "a" :> "A" @@ "b" :> "B"
MCRank  ==
  LET order == <<" ", ".">> \o [i \in 1 .. 21 |-> ToString(i - 11)]
                 \o <<"A", "B", "a", "b", "double: ", "float: ", "int: ", "nan", "u", "uint: ">>
  IN  [p \in Piece |-> CHOOSE i \in DOMAIN order : order[i] = p]

Numbers ==
  { <<"int: ", "5">>, <<"int: ", "-8">>, <<"int: ", "-1">>, <<"int: ", "0">>, <<"int: ", "3">>,
    <<"int: ", "9">>, <<"int: ", "a">>, <<"uint: ", "3">>, <<"2", "uint: ">>,
    <<"float: ", "2", ".">>, <<"float: ", "a">>, <<"double: ", "0", ".">>, <<"double: ", "3", ".">>,
    <<"3">>, <<"-2">>, <<"9">>, <<"2", ".">>, <<"0", ".">> }
Texts == { <<>>, <<"a">>, <<"a", " ", "b", " ">>, <<" ">>, <<"a", "b", "a", "b">>, <<"a", "b">>, <<"A", "b">> }

\* Elements: 1 the relation, 2 a node, then links; vy and vz hold links, vu, vv
\* and vw are for third texts.
World(c, d, given, steps) ==
  [ type  |-> <<{"node"}, {"node"}, {"node", "link"}, {"node", "link"}, {"node", "link"},
                {"node", "link"}, {"node", "link"}>>,
    ends  |-> <<>>,
    fresh |-> 8,
    value |-> [q \in Variable |->
                 CASE q = vy -> {3} [] q = vz -> {4} [] q = vu -> {5} [] q = vv -> {6} [] q = vw -> {7}
                   [] q = vx -> given],
    operand |-> <<>>, set |-> <<>>, out |-> "none",
    content |-> 3 :> c @@ 4 :> d @@ 5 :> <<"2">> @@ 6 :> <<"int: ", "3">> @@ 7 :> <<"a">>,
    steps |-> steps ]

Pairs == (Numbers \X Numbers) \cup (Texts \X (Texts \cup {<<"3">>, <<"-2">>, <<"int: ", "0">>, <<"uint: ", "3">>}))
           \cup {<<<<"a">>, <<"2", ".">>>>, <<<<"-2">>, <<"a">>>>}

MCWorlds ==
  {World(p[1], p[2], given, 1) : p \in Pairs, given \in {{}, {2}}}
    \cup {World(c, d, {}, 2) : c \in {<<"int: ", "5">>, <<"3">>, <<"a", "b">>}, d \in {<<"int: ", "0">>, <<"-2">>}}

Operand(q, fixed, type) == [addr |-> q, const |-> FALSE, fixed |-> fixed, type |-> type, erase |-> FALSE]
In(q)  == Operand(q, TRUE, {})
Out(q) == Operand(q, FALSE, {"node"})
Unused == [addr |-> 2, const |-> TRUE, fixed |-> TRUE, type |-> {}, erase |-> FALSE]

Job(k, operands) == [kind |-> k, operand |-> operands, set |-> [i \in {} |-> 0]]

Firsts    == {Operand(vx, fixed, type) : fixed \in BOOLEAN, type \in {{"node"}, {"node", "link"}, {}}}

MCJobs ==
  {Job(k, <<Operand(vx, fixed, {}), In(vy), In(vz)>>) : k \in Binary \cup Whole2, fixed \in BOOLEAN}
    \cup {Job(k, <<Out(vx), In(vy)>>) : k \in Function1}
    \cup {Job(k, <<In(vy), In(vz)>>) : k \in Asking \cup {"ifEq", "ifGr"}}
    \cup {Job(k, <<first, In(vy), In(vz)>>) :
            k \in {"contStringConcat", "stringSub", "stringSplit"}, first \in Firsts}
    \cup {Job(k, <<first, In(vy)>>) : k \in {"stringLen", "stringToLowerCase", "stringToUpperCase"},
                                     first \in {Out(vx), In(vx)}}
    \cup {Job(k, <<Out(vx), In(vy), In(vz), In(q), Unused>>) :
            k \in {"stringSlice", "stringReplace"}, q \in {vu, vv, vw}}
    \cup {Job(k, <<Out(vy), In(vx), In(vz)>>) : k \in {"contAdd", "contDivInt", "contStringConcat"}}
    \cup {Job("contSin", <<Out(vy), In(vx)>>), Job("ifEq", <<In(vx), In(vz)>>), Job("stringLen", <<Out(vy), In(vx)>>),
          Job("stringIfEq", <<In(vx), In(vx)>>), Job("contAdd", <<Out(vx), Out(vy), In(vz)>>),
          Job("stringSub", <<Out(vx), In(vy), Out(vz)>>), Job("stringLen", <<[Unused EXCEPT !.fixed = FALSE], In(vy)>>)}
=============================================================================
