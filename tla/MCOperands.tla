----------------------------- MODULE MCOperands -----------------------------
(* Operators of every kind: well formed ones, and those with one operand     *)
(* missing, doubled, without an order, or with roles that exclude each other.*)
EXTENDS Operands

CONSTANTS a1, a2, a3, a4, a5, a6

Arcs == <<a1, a2, a3, a4, a5, a6>>

Order(i)    == <<"order", i>>
SetOrder(i) == <<"set_order", i>>
Plain(r)    == <<r, 0>>
Type(t)     == <<"type", t>>

\* Operand i of an operator, and the set operand over it.
Given(i)    == {Order(i), Plain("fixed")}
Asked(i)    == {Order(i), Plain("assign"), Type("node")}
SetOver(i)  == {SetOrder(i), Plain("set")}

Odd ==
  { {Order(1)}, {Order(3), Plain("assign"), Type("node"), Type("class")}, {Order(7)},
    {Plain("erase"), Type("link")}, {SetOrder(2), Order(2)},
    {SetOrder(3), Order(1), Plain("fixed"), Plain("assign")},
    {SetOrder(1), SetOrder(2)}, {Order(4), Plain("scp_var"), Plain("scp_const")},
    SetOver(2), SetOver(3), SetOver(5) }

\* n operands, of which those at `asked' are to be assigned, and one more; the
\* same without that, or without the second.
Operator(n, asked, last) ==
  [a \in {Arcs[i] : i \in 1 .. n + 1} |->
     IF a = Arcs[n + 1] THEN last
     ELSE LET i == CHOOSE j \in 1 .. n : Arcs[j] = a
          IN  IF i \in asked THEN Asked(i) ELSE Given(i)]

Without(s, S) == [a \in DOMAIN s \ S |-> s[a]]

Versions(n, asked) ==
  UNION { LET s == Operator(n, asked, last)
          IN  {s, Without(s, {Arcs[n + 1]}), Without(s, {a2})} : last \in Odd }

MCStructures ==
  [k \in Kind |->
     CASE k = "ElStr1" -> Versions(1, {})
       [] k = "ElStr2" -> Versions(2, {2})
       [] k = "ElStr3" -> Versions(3, {2, 3}) \cup Versions(2, {2})
       [] k = "sys"    -> Versions(3, {2, 3})
       [] k = "SetStr3" -> Versions(3, {2, 3}) \cup Versions(3, {})
       [] k = "ElStr5" -> Versions(5, {2})
       [] k = "SetStr5" -> Versions(5, {2}) \cup Versions(5, {3, 5})]
=============================================================================
