------------------------- MODULE MCElementOperators -------------------------
(* Every combination of FIXED and ASSIGN operands and of marks, on memories  *)
(* of a few elements: two constructions, one with two relations, arcs that   *)
(* meet themselves, and none.                                                *)
EXTENDS TemplateOperators

CONSTANTS x1, x2, x3, x4, x5, y1, y2, y3, y4, y5, t1, t2

Node == {"node"}
Perm == {"arc", "perm"}

X == <<x1, x2, x3, x4, x5>>
Y == <<y1, y2, y3, y4, y5>>

\* Elements 1 to 4 are nodes, one of them a link and one a class; arcs begin
\* at 5.
Memory(arcs, values) ==
  [ type  |-> <<Node, Node, {"node", "link"}, {"node", "class"}>>
                \o [i \in DOMAIN arcs |-> arcs[i][1]],
    ends  |-> [a \in {4 + i : i \in DOMAIN arcs} |-> <<arcs[a - 4][2], arcs[a - 4][3]>>],
    fresh |-> 5 + Len(arcs),
    value |-> [v \in Variable |-> IF v \in DOMAIN values THEN values[v] ELSE {}],
    operand |-> <<>>, set |-> <<>>, out |-> "none" ]

Two    == << <<Perm, 1, 2>>, <<Perm, 1, 3>>, <<Perm, 4, 5>>, <<Perm, 4, 6>> >>
Shared == << <<Perm, 1, 2>>, <<Perm, 4, 5>>, <<Perm, 3, 5>>, <<{"arc"}, 1, 2>> >>
Loops  == << <<Perm, 1, 1>>, <<Perm, 1, 5>>, <<Perm, 4, 5>>, <<Perm, 4, 6>> >>
Bare   == << <<{"arc"}, 1, 2>> >>

MCWorlds ==
  { Memory(arcs, x1 :> v[1] @@ x2 :> {5} @@ x3 :> v[2] @@ x5 :> {4} @@ y1 :> {3} @@ y2 :> {3}) :
      arcs \in {Two, Shared, Loops, Bare}, v \in {<<{}, {1}>>, <<{1}, {2}>>, <<{1, 3}, {1}>>} }

Operand(v, fixed, type, erase) ==
  [addr |-> v, const |-> FALSE, fixed |-> fixed, type |-> type, erase |-> erase]
Constant(e, fixed, type) ==
  [addr |-> e, const |-> TRUE, fixed |-> fixed, type |-> type, erase |-> FALSE]

Types5 ==
  { <<{}, Perm, {}, Perm, {}>>,
    <<Node, Perm, {"node", "link"}, Perm, {"node", "class"}>>,
    <<Node, {"arc"}, Node, {"arc"}, Node>>,
    <<Node, Node, Node, Perm, Node>> }

\* The first `size' operands; the one at `size' may be the first one again.
Spelt(size, fixed, types, erased, again) ==
  [i \in 1 .. size |->
     Operand(IF i = size /\ again THEN x1 ELSE X[i], i \in fixed, types[i], i \in erased)]

NoSet == [i \in {} |-> 0]

Erasing  == {"eraseEl", "eraseElStr3", "eraseElStr5", "eraseSetStr3", "eraseSetStr5"}
Sized(n) == CASE n = 1 -> {"genEl", "eraseEl", "ifType", "ifVarAssign", "varErase", "printEl", "print", "printNl"}
              [] n = 2 -> {"ifCoin", "varAssign"}
              [] n = 3 -> {"genElStr3", "searchElStr3", "eraseElStr3", "eraseSetStr3"}
              [] n = 5 -> {"genElStr5", "searchElStr5", "eraseElStr5", "eraseSetStr5"}

Givens(n) == IF n = 5 THEN SUBSET {1, 3, 5} \cup {{1, 2, 5}} ELSE SUBSET (1 .. n)

PlainJobs(n) ==
  UNION { { [kind |-> k, set |-> NoSet, operand |-> Spelt(n, fixed, types, erased, again)] :
              erased \in IF k \in Erasing THEN SUBSET ((1 .. n) \ fixed) \cup {1 .. n} ELSE {{}} } :
            k \in Sized(n), fixed \in Givens(n), types \in Types5, again \in BOOLEAN }

\* Set operands: the first names a set there is, or all ask for a new one.
Sets(positions, given) ==
  [i \in positions |->
     Operand(Y[i], given /\ \A j \in positions : i <= j, Node, FALSE)]

SetJobs(k, n) ==
  UNION { { [kind |-> k, set |-> Sets(positions, given), operand |-> Spelt(n, fixed, types, {}, again)] :
              positions \in SUBSET ((1 .. n) \ fixed) \ {{}}, given \in BOOLEAN } :
            fixed \in Givens(n), types \in Types5, again \in BOOLEAN }

\* Constants, one of which may not be assigned.
ConstantJobs ==
  { [ kind |-> k, set |-> NoSet,
      operand |-> <<Operand(x1, fixed, {}, FALSE), Constant(5, FALSE, Perm), third>> ] :
      k \in Sized(3), fixed \in BOOLEAN,
      third \in {Constant(2, TRUE, {}), Operand(x3, FALSE, {}, FALSE)} }

\* Templates: two variables; several results, one, none; parameters that say a
\* variable twice, or lack a part.
Template(params, results, built) == [params |-> params, results |-> results, built |-> built]

Found ==
  { {}, {t1 :> 1}, {t1 :> 1 @@ t2 :> 2, t1 :> 1 @@ t2 :> 3}, {t1 :> 1, t2 :> 1} }
Generated == { <<>>, t1 :> Nothing @@ t2 :> 2, t1 :> Nothing @@ t2 :> Nothing }
Params    == { {}, {<<t1, 1>>}, {<<t1, 1>>, <<t1, 2>>}, {<<t1, Nothing>>} }

Templates(k) ==
  { Template(params, results, TRUE) :
      params \in Params, results \in IF k = "sys_gen" THEN {{g} : g \in Generated} \cup {{}} ELSE Found }
    \cup { Template({}, {}, FALSE) }

TemplateJobs ==
  UNION { { [kind |-> k, set |-> NoSet, template |-> t,
             operand |-> <<first, Operand(x3, fixed, {}, FALSE), Constant(2, TRUE, {})>> \o fourth] :
              t \in Templates(k), fixed \in BOOLEAN,
              first \in {Constant(3, TRUE, {}), Operand(x1, TRUE, {}, FALSE), Operand(x2, FALSE, {}, FALSE)},
              fourth \in {<<>>, <<Operand(x5, TRUE, {}, FALSE)>>, <<Operand(y3, TRUE, {}, FALSE)>>,
                          <<Operand(x3, FALSE, {}, FALSE)>>} } :
            k \in {"sys_gen", "sys_search"} }

MCJobs ==
  UNION {PlainJobs(n) : n \in {1, 2, 3, 5}} \cup ConstantJobs
    \cup TemplateJobs \cup SetJobs("searchSetStr3", 3) \cup SetJobs("searchSetStr5", 5)
=============================================================================
