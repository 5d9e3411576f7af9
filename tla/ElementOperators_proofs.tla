---------------------- MODULE ElementOperators_proofs ----------------------
(***************************************************************************)
(* The properties of the element operators, for every memory and every     *)
(* operator: what the collecting searches do; what sys_gen and sys_search  *)
(* do, by induction over the variables and the results of a template; then *)
(* the invariant that a world has been left by one of the operators of     *)
(* these modules, and the theorems.                                        *)
(***************************************************************************)
EXTENDS ElementSteps_proofs, TemplateOperators, WellFoundedInduction

-----------------------------------------------------------------------------
\* Of a step of a collecting search: it adds elements, and sets are given their
\* values.
Grows(x, y) ==
  /\ Typed(y)
  /\ SameOperands(x, y)
  /\ y.out \in {"run", "thrown"}
  /\ Kept(x, y)
  /\ DOMAIN y.set = DOMAIN x.set
  /\ \A i \in DOMAIN x.set : y.set[i].fixed = x.set[i].fixed

LEMMA AddsGrows ==
  ASSUME NEW x, NEW y, Adds(x, y)
  PROVE  Grows(x, y)
BY DEF Adds, Grows

LEMMA GrowsTwice ==
  ASSUME NEW x, NEW y, NEW z, Typed(x), Grows(x, y), Grows(y, z)
  PROVE  Grows(x, z)
<1>1. SameOperands(x, z)
  BY DEF Grows, SameOperands
<1>2. Exists(x) \subseteq Exists(y) /\ Exists(y) \subseteq Exists(z) /\ Connectors(x) \subseteq Connectors(y)
  BY DEF Grows, Kept, Restrict, Connectors, Exists, Typed, IsMemory
<1>3. Kept(x, z)
  BY <1>2 DEF Grows, Kept, Restrict, Typed, IsMemory
<1> QED
  BY <1>1, <1>3 DEF Grows

\* What is collected at place i: one new arc for each construction of S, from
\* the set to what the construction has there.
Gathers(y, z, i, S) ==
  \E g \in Bijection(S, Connectors(z) \ Connectors(y)) :
    \A u \in S : z.ends[g[u]] = <<z.set[i].value, u[i]>>

\* Nothing else changes.
OnlyAt(y, z, i) ==
  /\ \A j \in DOMAIN y.set \ {i} : z.set[j] = y.set[j]
  /\ \A j \in DOMAIN y.operand \ {i} : Value(z, j) = Value(y, j)

OpenStep(y, i, z) ==
  /\ DOMAIN z = DOMAIN y
  /\ z.type = [e \in Exists(y) \cup {y.fresh} |-> IF e = y.fresh THEN ConstNode ELSE y.type[e]]
  /\ z.ends = y.ends /\ z.fresh = y.fresh + 1
  /\ z.set = [y.set EXCEPT ![i].value = y.fresh]
  /\ z.value = [y.value EXCEPT ![y.set[i].addr] = @ \cup {y.fresh}]
  /\ z.operand = y.operand /\ z.out = y.out

LEMMA Opening ==
  ASSUME NEW y, NEW i, Fields \subseteq DOMAIN y, ~y.set[i].fixed
  PROVE  OpenStep(y, i, OpenSet(y, i))
<1> DEFINE n == GenerateNode(y, ConstNode)
           z == [n EXCEPT !.set[i].value = y.fresh, !.value[y.set[i].addr] = @ \cup {y.fresh}]
<1>1. NodeStep(y, ConstNode, n)
  BY NodeGenerated
<1>2. OpenSet(y, i) = z
  BY DEF OpenSet
<1> HIDE DEF n
<1>3. DOMAIN z = DOMAIN y /\ z.type = n.type /\ z.ends = n.ends /\ z.fresh = n.fresh
  BY <1>1 DEF NodeStep, Fields
<1>4. z.operand = n.operand /\ z.out = n.out
  BY <1>1 DEF NodeStep, Fields
<1>5. z.set = [n.set EXCEPT ![i].value = y.fresh]
  BY <1>1 DEF NodeStep, Fields
<1>6. z.value = [n.value EXCEPT ![y.set[i].addr] = @ \cup {y.fresh}]
  BY <1>1 DEF NodeStep, Fields
<1> HIDE DEF z
<1> QED
  BY <1>1, <1>2, <1>3, <1>4, <1>5, <1>6 DEF NodeStep, OpenStep

\* The set is there.
Opened(y, i, z) ==
  /\ Grows(y, z) /\ z.out = y.out
  /\ z.ends = y.ends /\ z.operand = y.operand
  /\ z.set[i].value \in Exists(z)
  /\ \A j \in DOMAIN y.set \ {i} : z.set[j] = y.set[j]

LEMMA SetOpened ==
  ASSUME NEW y, NEW i \in DOMAIN y.set, Typed(y), y.out = "run",
         y.set[i].fixed => y.set[i].value \in Exists(y)
  PROVE  Opened(y, i, OpenSet(y, i))
<1> DEFINE z == OpenSet(y, i)
<1>1. CASE y.set[i].fixed
  <2>1. z = y
    BY <1>1 DEF OpenSet
  <2>2. Grows(y, y)
    BY NothingAdded, AddsGrows
  <2> QED
    BY <1>1, <2>1, <2>2 DEF Opened
<1>2. CASE ~y.set[i].fixed
  <2>1. OpenStep(y, i, z)
    BY <1>2, Opening DEF Typed
  <2> HIDE DEF z
  <2>2. y.fresh \in Nat \ {Nothing} /\ z.fresh \in Nat /\ y.fresh <= z.fresh /\ z.fresh = y.fresh + 1
    BY <2>1 DEF OpenStep, Typed, IsMemory
  <2>3. IsMemory(z) /\ Exists(y) \subseteq Exists(z) /\ y.fresh \in Exists(z)
    BY <2>1 DEF OpenStep, Typed, IsMemory, Exists, Connectors, Source, Target, OfType, Nothing, ConstNode, Flag
  <2>4. \A j \in DOMAIN y.set : IsOperand(z, y.set[j])
    BY <2>2, OperandKept DEF Typed
  <2>5. IsOperand(z, [y.set[i] EXCEPT !.value = y.fresh])
    <3>1. y.fresh \in 1 .. z.fresh - 1
      BY <2>2 DEF Nothing
    <3> QED
      BY <2>4, <3>1 DEF IsOperand, Operands
  <2>6. \A j \in DOMAIN z.set : IsOperand(z, z.set[j])
    BY <2>1, <2>4, <2>5 DEF OpenStep
  <2>7. \A j \in DOMAIN z.operand : IsOperand(z, z.operand[j])
    BY <2>1, <2>2, OperandKept DEF OpenStep, Typed
  <2>8. z.value \in [Variable -> SUBSET Exists(z)]
    <3> DEFINE a == y.set[i].addr
    <3>1. y.value \in [Variable -> SUBSET Exists(y)]
      BY DEF Typed
    <3>2. z.value = [y.value EXCEPT ![a] = y.value[a] \cup {y.fresh}]
      BY <2>1 DEF OpenStep
    <3> HIDE DEF a
    <3>3. \A v \in Variable : z.value[v] \in SUBSET Exists(z)
      BY <2>3, <3>1, <3>2
    <3> QED
      BY <3>1, <3>2, <3>3
  <2>9. Typed(z)
    BY <2>1, <2>3, <2>6, <2>7, <2>8 DEF OpenStep, Typed
  <2>10. Kept(y, z)
    <3>1. y.fresh \notin Exists(y)
      BY FreshIsNew
    <3>2. \A e \in Exists(y) : z.type[e] = y.type[e]
      BY <2>1, <3>1 DEF OpenStep
    <3>3. y.type = [e \in Exists(y) |-> y.type[e]] /\ y.ends = [a \in Connectors(y) |-> y.ends[a]]
      BY DEF Typed, IsMemory
    <3>4. z.ends = y.ends /\ Connectors(z) = Connectors(y)
      BY <2>1 DEF OpenStep, Connectors
    <3>5. Restrict(z.type, Exists(y)) = y.type
      BY <3>2, <3>3 DEF Restrict
    <3>6. Restrict(z.ends, Connectors(y)) = y.ends
      BY <3>3, <3>4 DEF Restrict
    <3> QED
      BY <2>3, <3>4, <3>5, <3>6 DEF Kept
  <2>11. DOMAIN z.set = DOMAIN y.set /\ z.set[i].value = y.fresh /\ z.set[i].fixed = y.set[i].fixed
    <3>1. y.set[i] \in Operands(1 .. y.fresh - 1)
      BY DEF Typed, IsOperand
    <3>2. [y.set[i] EXCEPT !.value = y.fresh].value = y.fresh /\ [y.set[i] EXCEPT !.value = y.fresh].fixed = y.set[i].fixed
      BY <3>1 DEF Operands
    <3> QED
      BY <2>1, <3>2 DEF OpenStep
  <2>12. \A j \in DOMAIN y.set \ {i} : z.set[j] = y.set[j]
    BY <2>1 DEF OpenStep
  <2>13. z.out = y.out /\ z.ends = y.ends /\ z.operand = y.operand
    BY <2>1 DEF OpenStep
  <2>14. Grows(y, z)
    BY <2>9, <2>10, <2>11, <2>12, <2>13, OperandsSame DEF Grows
  <2> QED
    BY <2>3, <2>11, <2>12, <2>13, <2>14 DEF Opened, z
<1> QED
  BY <1>1, <1>2

\* The first construction at place i.
FirstStep(y, z, i, t) ==
  /\ Grows(y, z)
  /\ z.out = "run" =>
       /\ Gathers(y, z, i, {t}) /\ OnlyAt(y, z, i)
       /\ Value(z, i) = t[i] /\ t[i] # Nothing
       /\ z.set[i].value \in Exists(z)

LEMMA OneGathered ==
  ASSUME NEW y, NEW z, NEW i, NEW t, NEW a,
         Connectors(z) = Connectors(y) \cup {a}, a \notin Connectors(y),
         z.ends[a] = <<z.set[i].value, t[i]>>
  PROVE  Gathers(y, z, i, {t})
<1> DEFINE g == [u \in {t} |-> a]
<1>1. Connectors(z) \ Connectors(y) = {a}
  OBVIOUS
<1>2. g \in Bijection({t}, {a})
  BY DEF Bijection, Injection, Surjection, IsInjective
<1>3. \A u \in {t} : z.ends[g[u]] = <<z.set[i].value, u[i]>>
  OBVIOUS
<1> HIDE DEF g
<1> QED
  BY <1>1, <1>2, <1>3 DEF Gathers

LEMMA CollectedAt ==
  ASSUME NEW y, NEW i \in DOMAIN y.set, NEW t, i \in DOMAIN y.operand, Typed(y), y.out = "run",
         y.set[i].fixed => y.set[i].value \in Exists(y),
         t[i] \in Exists(y) \cup {Nothing}
  PROVE  FirstStep(y, CollectAt(y, i, t[i]), i, t)
<1> DEFINE e == t[i]
           w == OpenSet(y, i)
           v == SetValue(w, i, e)
           z == CollectAt(y, i, e)
<1>1. Opened(y, i, w)
  BY SetOpened
<1>2. z = Then(v, AddToSet(v, i, e))
  BY DEF CollectAt
<1> SUFFICES FirstStep(y, z, i, t)
  OBVIOUS
<1> HIDE DEF z, w
<1>3. Typed(w) /\ w.out = "run" /\ Grows(y, w) /\ DOMAIN w.operand = DOMAIN y.operand
      /\ Exists(y) \subseteq Exists(w) /\ Connectors(w) = Connectors(y)
  BY <1>1 DEF Opened, Grows, Kept, Connectors, SameOperands
<1>4. CASE e = Nothing
  <2>1. v = Finish(w, "thrown")
    BY <1>4 DEF SetValue
  <2> HIDE DEF v
  <2>2. v.out = "thrown" /\ Grows(w, v)
    BY <1>3, <2>1, Finishing, ExceptionAdds, AddsGrows DEF Typed
  <2>3. z = v
    BY <1>2, <2>2 DEF Then
  <2> QED
    BY <1>3, <2>2, <2>3, GrowsTwice DEF FirstStep
<1>5. CASE e \in Exists(y)
  <2>0. e \in Exists(w) /\ e # Nothing
    BY <1>3, <1>5 DEF Typed, IsMemory, Nothing
  <2>1. Adds(w, v) /\ ValueStep(w, i, e, v)
    BY <1>3, <2>0, ValueAdds
  <2> HIDE DEF v
  <2>2. v.out = "run" /\ Exists(v) = Exists(w) /\ Connectors(v) = Connectors(w) /\ v.set = w.set
    BY <1>3, <2>1 DEF ValueStep, SameElements, Exists, Connectors
  <2>3. z = GenerateConnector(v, ConstPermPosArc, v.set[i].value, e)
    BY <1>2, <2>0, <2>2 DEF Then, AddToSet
  <2>4. v.set[i].value \in Exists(v)
    BY <1>1, <2>2 DEF Opened
  <2>5. Typed(v)
    BY <2>1 DEF Adds
  <2>6. Adds(v, z)
    BY <2>0, <2>2, <2>3, <2>4, <2>5, ConnectorAdds DEF ConstPermPosArc, Flag
  <2>7. ConnectorStep(v, ConstPermPosArc, v.set[i].value, e, z)
    BY <2>3, <2>5, ConnectorGenerated DEF Typed
  <2>8. Grows(y, z)
    BY <1>3, <2>1, <2>6, AddsGrows, GrowsTwice
  <2>9. z.set = w.set /\ z.operand = v.operand
    BY <2>2, <2>7 DEF ConnectorStep
  <2>10. Connectors(z) = Connectors(y) \cup {v.fresh} /\ v.fresh \notin Connectors(y)
    BY <1>3, <2>2, <2>5, <2>7, FreshIsNew DEF ConnectorStep, Connectors
  <2>11. z.ends[v.fresh] = <<z.set[i].value, t[i]>>
    BY <2>2, <2>7, <2>9 DEF ConnectorStep
  <2>12. Gathers(y, z, i, {t})
    BY <2>10, <2>11, OneGathered
  <2>13. z.set[i].value \in Exists(z)
    BY <2>2, <2>4, <2>7, <2>9 DEF ConnectorStep, Exists
  <2>14. Value(z, i) = t[i] /\ \A j \in DOMAIN y.operand \ {i} : Value(z, j) = Value(y, j)
    <3>1. w.operand = y.operand /\ v.operand = [w.operand EXCEPT ![i].value = e]
      BY <1>1, <2>1 DEF Opened, ValueStep
    <3>2. [y.operand[i] EXCEPT !.value = e].value = e
      BY DEF Typed, IsOperand, Operands
    <3> QED
      BY <2>9, <3>1, <3>2 DEF Value
  <2>15. \A j \in DOMAIN y.set \ {i} : z.set[j] = y.set[j]
    BY <1>1, <2>9 DEF Opened
  <2> QED
    BY <2>0, <2>8, <2>12, <2>13, <2>14, <2>15 DEF FirstStep, OnlyAt
<1> QED
  BY <1>4, <1>5

-----------------------------------------------------------------------------
\* The other constructions at place i.
NewArcs(y, n) == y.fresh .. y.fresh + n - 1

MoreStep(y, i, s, n, z) ==
  /\ DOMAIN z = DOMAIN y
  /\ z.type = [e \in Exists(y) \cup NewArcs(y, n) |-> IF e \in NewArcs(y, n) THEN ConstPermPosArc ELSE y.type[e]]
  /\ z.ends = [a \in Connectors(y) \cup NewArcs(y, n) |->
                 IF a \in NewArcs(y, n) THEN <<y.set[i].value, s[a - y.fresh + 1][i]>> ELSE y.ends[a]]
  /\ z.fresh = y.fresh + n
  /\ z.set = y.set /\ z.value = y.value /\ z.operand = y.operand /\ z.out = y.out

LEMMA More ==
  ASSUME NEW y, NEW i, NEW S, Fields \subseteq DOMAIN y
  PROVE  MoreStep(y, i, SetToSeq(S), Len(SetToSeq(S)), CollectMore(y, i, S))
<1> DEFINE s == SetToSeq(S)
           z == CollectMore(y, i, S)
           arcs == NewArcs(y, Len(s))
<1> HIDE DEF s
<1>1. z = [y EXCEPT
             !.type = With(y.type, arcs, LAMBDA a : ConstPermPosArc),
             !.ends = With(y.ends, arcs, LAMBDA a : <<y.set[i].value, s[a - y.fresh + 1][i]>>),
             !.fresh = y.fresh + Len(s)]
  BY DEF CollectMore, NewArcs, s
<1> HIDE DEF z, arcs
<1>2. z.type = With(y.type, arcs, LAMBDA a : ConstPermPosArc)
  BY <1>1 DEF Fields
<1>3. z.ends = With(y.ends, arcs, LAMBDA a : <<y.set[i].value, s[a - y.fresh + 1][i]>>)
  BY <1>1 DEF Fields
<1>4. /\ DOMAIN z = DOMAIN y /\ z.fresh = y.fresh + Len(s)
      /\ z.set = y.set /\ z.value = y.value /\ z.operand = y.operand /\ z.out = y.out
  BY <1>1 DEF Fields
<1>5. z.type = [e \in Exists(y) \cup arcs |-> IF e \in arcs THEN ConstPermPosArc ELSE y.type[e]]
  BY <1>2 DEF With, Exists
<1>6. z.ends = [a \in Connectors(y) \cup arcs |->
                  IF a \in arcs THEN <<y.set[i].value, s[a - y.fresh + 1][i]>> ELSE y.ends[a]]
  BY <1>3 DEF With, Connectors
<1> QED
  BY <1>4, <1>5, <1>6 DEF MoreStep, arcs, z, s

\* One of the other constructions after the other.
RestStep(y, z, i, S) ==
  /\ Grows(y, z)
  /\ z.out = y.out
  /\ z.set = y.set /\ z.operand = y.operand
  /\ Gathers(y, z, i, S)

LEMMA NewArcsNew ==
  ASSUME NEW y, NEW n \in Nat, Typed(y)
  PROVE  /\ y.fresh \in Nat \ {0}
         /\ NewArcs(y, n) \cap Exists(y) = {} /\ NewArcs(y, n) \cap Connectors(y) = {}
         /\ Exists(y) \cup NewArcs(y, n) \subseteq 1 .. y.fresh + n - 1
<1>1. y.fresh \in Nat \ {0} /\ Exists(y) \subseteq 1 .. y.fresh - 1 /\ Connectors(y) \subseteq Exists(y)
  BY DEF Typed, IsMemory, OfType, Nothing
<1> QED
  BY <1>1 DEF NewArcs

LEMMA MoreGathers ==
  ASSUME NEW y, NEW z, NEW i, NEW S, NEW s, NEW n \in Nat, Typed(y),
         s \in Bijection(1 .. n, S), MoreStep(y, i, s, n, z)
  PROVE  Gathers(y, z, i, S)
<1> DEFINE A == NewArcs(y, n)
           at == [a \in A |-> s[a - y.fresh + 1]]
<1>1. y.fresh \in Nat /\ A \cap Connectors(y) = {}
  BY NewArcsNew
<1>2. Connectors(z) \ Connectors(y) = A
  BY <1>1 DEF MoreStep, Connectors
<1>3. s \in [1 .. n -> S] /\ IsInjective(s) /\ \A u \in S : \E k \in 1 .. n : s[k] = u
  BY DEF Bijection, Injection, Surjection
<1> DEFINE pos(u) == CHOOSE k \in 1 .. n : s[k] = u
           g == [u \in S |-> pos(u) + y.fresh - 1]
<1>4. \A u \in S : pos(u) \in 1 .. n /\ s[pos(u)] = u
  BY <1>3
<1>5. \A k \in 1 .. n : pos(s[k]) = k
  BY <1>3, <1>4 DEF IsInjective
<1> HIDE DEF pos
<1>6. \A u \in S : g[u] \in A /\ g[u] - y.fresh + 1 = pos(u)
  BY <1>1, <1>4 DEF NewArcs
<1>7. \A a \in A : a - y.fresh + 1 \in 1 .. n /\ g[s[a - y.fresh + 1]] = a
  <2> TAKE a \in A
  <2>1. a - y.fresh + 1 \in 1 .. n /\ a \in Int
    BY <1>1 DEF NewArcs
  <2> QED
    BY <1>1, <1>3, <1>5, <2>1
<1> HIDE DEF g
<1>8. g \in [S -> A]
  BY <1>6 DEF g
<1>9. IsInjective(g)
  <2> SUFFICES ASSUME NEW u \in S, NEW w \in S, g[u] = g[w]
               PROVE  u = w
    BY <1>8 DEF IsInjective
  <2>1. pos(u) = pos(w)
    BY <1>6
  <2> QED
    BY <1>4, <2>1
<1>10. \A a \in A : \E u \in S : g[u] = a
  BY <1>3, <1>7
<1>11. g \in Bijection(S, A)
  BY <1>8, <1>9, <1>10 DEF Bijection, Injection, Surjection
<1>12. \A u \in S : z.ends[g[u]] = <<z.set[i].value, u[i]>>
  <2> TAKE u \in S
  <2>1. g[u] \in A
    BY <1>6
  <2>2. z.ends[g[u]] = <<y.set[i].value, s[g[u] - y.fresh + 1][i]>>
    BY <2>1 DEF MoreStep
  <2>3. s[g[u] - y.fresh + 1] = u
    BY <1>4, <1>6
  <2> QED
    BY <2>2, <2>3 DEF MoreStep
<1> HIDE DEF A
<1> QED
  BY <1>2, <1>11, <1>12 DEF Gathers

LEMMA CollectedMore ==
  ASSUME NEW y, NEW i \in DOMAIN y.set, NEW S, IsFiniteSet(S), Typed(y), y.out = "run",
         y.set[i].value \in Exists(y), \A u \in S : u[i] \in Exists(y)
  PROVE  RestStep(y, CollectMore(y, i, S), i, S)
<1> DEFINE s == SetToSeq(S)
           z == CollectMore(y, i, S)
<1>1. PICK n \in Nat : s \in Bijection(1 .. n, S) /\ Len(s) = n
  BY SetInOrder
<1>2. MoreStep(y, i, s, n, z)
  BY <1>1, More DEF Typed
<1> HIDE DEF z, s
<1> DEFINE A == NewArcs(y, n)
<1>3. /\ y.fresh \in Nat \ {0}
      /\ A \cap Exists(y) = {} /\ A \cap Connectors(y) = {}
      /\ Exists(y) \cup A \subseteq 1 .. y.fresh + n - 1
  BY NewArcsNew
<1>4. \A a \in A : s[a - y.fresh + 1][i] \in Exists(y)
  <2> TAKE a \in A
  <2>1. a - y.fresh + 1 \in 1 .. n
    BY <1>3 DEF NewArcs
  <2> QED
    BY <1>1, <2>1 DEF Bijection, Injection
<1>5. IsMemory(y)
  BY DEF Typed
<1>6. Exists(z) = Exists(y) \cup A /\ Connectors(z) = Connectors(y) \cup A
  BY <1>2 DEF MoreStep, Exists, Connectors
<1> HIDE DEF A
<1>7. z.type \in [Exists(z) -> SUBSET Flag]
  BY <1>2, <1>5, <1>6 DEF MoreStep, IsMemory, ConstPermPosArc, Flag, A
<1>8. z.ends \in [Connectors(z) -> Exists(z) \X Exists(z)]
  BY <1>2, <1>4, <1>5, <1>6 DEF MoreStep, IsMemory, A
<1>9. Connectors(z) = OfType(z, {"arc"})
  BY <1>2, <1>3, <1>5, <1>6 DEF MoreStep, IsMemory, OfType, ConstPermPosArc, Exists, A
<1>10. z.fresh \in Nat \ {Nothing} /\ y.fresh <= z.fresh /\ Exists(z) \subseteq 1 .. z.fresh - 1
  BY <1>2, <1>3, <1>6 DEF MoreStep, Nothing
<1>11. IsMemory(z)
  BY <1>7, <1>8, <1>9, <1>10 DEF IsMemory
<1>12. Typed(z)
  BY <1>2, <1>3, <1>6, <1>10, <1>11, OperandKept DEF MoreStep, Typed
<1>13. Restrict(z.type, Exists(y)) = y.type
  BY <1>2, <1>3, <1>5 DEF MoreStep, Restrict, IsMemory, A
<1>14. Restrict(z.ends, Connectors(y)) = y.ends
  BY <1>2, <1>3, <1>5 DEF MoreStep, Restrict, IsMemory, A
<1>15. Kept(y, z)
  BY <1>6, <1>13, <1>14 DEF Kept
<1>16. Grows(y, z)
  BY <1>2, <1>12, <1>15, OperandsSame DEF MoreStep, Grows
<1>17. Gathers(y, z, i, S)
  BY <1>1, <1>2, MoreGathers
<1> QED
  BY <1>2, <1>16, <1>17 DEF MoreStep, RestStep, z

-----------------------------------------------------------------------------
\* What has been collected since r: the constructions and the places of G.
Gathered(r, y, G) ==
  \E f \in Bijection(G, Connectors(y) \ Connectors(r)) :
    \A p \in G : y.ends[f[p]] = <<y.set[p[2]].value, p[1][p[2]]>>

LEMMA NothingGathered ==
  ASSUME NEW r
  PROVE  Gathered(r, r, {})
<1> DEFINE f == [p \in {} |-> p]
<1>1. f \in Bijection({}, Connectors(r) \ Connectors(r))
  BY DEF Bijection, Injection, Surjection, IsInjective
<1> QED
  BY <1>1 DEF Gathered

LEMMA GrowsConnectors ==
  ASSUME NEW x, NEW y, Grows(x, y)
  PROVE  /\ Connectors(x) \subseteq Connectors(y) /\ Exists(x) \subseteq Exists(y)
         /\ \A a \in Connectors(x) : y.ends[a] = x.ends[a]
BY DEF Grows, Kept, Restrict, Connectors

LEMMA GatheredMore ==
  ASSUME NEW r, NEW y, NEW z, NEW G, NEW i, NEW S, Grows(r, y), Grows(y, z),
         Gathered(r, y, G), Gathers(y, z, i, S),
         \A p \in G : z.set[p[2]].value = y.set[p[2]].value,
         (S \X {i}) \cap G = {}
  PROVE  Gathered(r, z, G \cup (S \X {i}))
<1> DEFINE old == Connectors(y) \ Connectors(r)
           new == Connectors(z) \ Connectors(y)
           P == S \X {i}
<1>1. PICK f \in Bijection(G, old) : \A p \in G : y.ends[f[p]] = <<y.set[p[2]].value, p[1][p[2]]>>
  BY DEF Gathered
<1>2. PICK g \in Bijection(S, new) : \A u \in S : z.ends[g[u]] = <<z.set[i].value, u[i]>>
  BY DEF Gathers
<1>3. Connectors(z) \ Connectors(r) = old \cup new /\ old \cap new = {}
  BY GrowsConnectors
<1>4. \A a \in old : z.ends[a] = y.ends[a]
  BY GrowsConnectors
<1> DEFINE h == [p \in G \cup P |-> IF p \in G THEN f[p] ELSE g[p[1]]]
<1>5. f \in [G -> old] /\ IsInjective(f) /\ \A a \in old : \E p \in G : f[p] = a
  BY <1>1 DEF Bijection, Injection, Surjection
<1>6. g \in [S -> new] /\ IsInjective(g) /\ \A a \in new : \E u \in S : g[u] = a
  BY <1>2 DEF Bijection, Injection, Surjection
<1>7. \A p \in P : p \notin G /\ p[1] \in S /\ p[2] = i /\ p = <<p[1], i>>
  OBVIOUS
<1>8. \A u \in S : <<u, i>> \in P /\ <<u, i>>[1] = u
  OBVIOUS
<1> HIDE DEF old, new, P
<1>9. \A p \in G : h[p] = f[p] /\ h[p] \in old
  BY <1>5
<1>10. \A p \in P : h[p] = g[p[1]] /\ h[p] \in new
  BY <1>6, <1>7
<1>11. h \in [G \cup P -> old \cup new]
  BY <1>9, <1>10
<1> HIDE DEF h
<1>12. IsInjective(h)
  <2> SUFFICES ASSUME NEW p \in G \cup P, NEW q \in G \cup P, h[p] = h[q]
               PROVE  p = q
    BY <1>11 DEF IsInjective
  <2>1. CASE p \in G /\ q \in G
    BY <1>5, <1>9, <2>1 DEF IsInjective
  <2>2. CASE p \in P /\ q \in P
    BY <1>6, <1>7, <1>10, <2>2 DEF IsInjective
  <2>3. CASE (p \in G /\ q \in P) \/ (p \in P /\ q \in G)
    BY <1>3, <1>9, <1>10, <2>3
  <2> QED
    BY <2>1, <2>2, <2>3
<1>13. \A a \in old \cup new : \E p \in G \cup P : h[p] = a
  <2> TAKE a \in old \cup new
  <2>1. CASE a \in old
    BY <1>5, <1>9, <2>1
  <2>2. CASE a \in new
    <3>1. PICK u \in S : g[u] = a
      BY <1>6, <2>2
    <3>2. h[<<u, i>>] = g[<<u, i>>[1]]
      BY <1>8, <1>10
    <3> QED
      BY <1>8, <3>1, <3>2
  <2> QED
    BY <2>1, <2>2
<1>14. h \in Bijection(G \cup P, old \cup new)
  BY <1>11, <1>12, <1>13 DEF Bijection, Injection, Surjection
<1>15. \A p \in G \cup P : z.ends[h[p]] = <<z.set[p[2]].value, p[1][p[2]]>>
  <2> TAKE p \in G \cup P
  <2>1. CASE p \in G
    BY <1>1, <1>4, <1>9, <2>1
  <2>2. CASE p \in P
    BY <1>2, <1>7, <1>10, <2>2
  <2> QED
    BY <2>1, <2>2
<1> QED
  BY <1>3, <1>14, <1>15 DEF Gathered, P

\* How far a collecting search is that began at r with the construction t of C:
\* the places K of t and the places L of the others are in their sets.
Collecting(r, t, C, y, K, L) ==
  /\ Grows(r, y)
  /\ y.out = "run" =>
       /\ Gathered(r, y, ({t} \X K) \cup ((C \ {t}) \X L))
       /\ \A i \in K : Value(y, i) = t[i] /\ t[i] # Nothing /\ y.set[i].value \in Exists(y)
       /\ \A i \in DOMAIN r.set \ K : y.set[i] = r.set[i]
       /\ \A i \in DOMAIN r.operand \ K : Value(y, i) = Value(r, i)

\* The sets, and what is found, are as the search needs them.
Collectable(r, C) ==
  /\ Typed(r) /\ r.out = "run"
  /\ DOMAIN r.set \subseteq DOMAIN r.operand
  /\ \A i \in DOMAIN r.set : r.set[i].fixed => r.set[i].value \in Exists(r)
  /\ IsFiniteSet(C)
  /\ \A i \in DOMAIN r.set : (\A t \in C : t[i] \in Exists(r)) \/ (\A t \in C : t[i] = Nothing)

LEMMA FirstCollects ==
  ASSUME NEW r, NEW C, NEW t \in C, NEW y, NEW K, NEW i, NEW W, Collectable(r, C), K \subseteq DOMAIN r.set,
         i \notin K, Collecting(r, t, C, y, K, {})
  PROVE  Collecting(r, t, C, FirstAt(y, i, t, W), K \cup ({i} \cap W \cap DOMAIN r.set), {})
<1> DEFINE z == FirstAt(y, i, t, W)
           M == K \cup ({i} \cap W \cap DOMAIN r.set)
<1>1. DOMAIN y.set = DOMAIN r.set /\ DOMAIN y.operand = DOMAIN r.operand /\ Typed(y) /\ Grows(r, y)
      /\ y.out \in {"run", "thrown"}
  BY DEF Collecting, Grows, SameOperands
<1>2. CASE ~LooksAt(y, i, W)
  <2>1. z = y
    BY <1>2 DEF FirstAt
  <2>2. y.out = "run" => M = K
    BY <1>1, <1>2 DEF LooksAt, SetPositions
  <2> QED
    BY <2>1, <2>2 DEF Collecting
<1>3. CASE LooksAt(y, i, W)
  <2>1. i \in DOMAIN r.set /\ y.out = "run" /\ M = K \cup {i} /\ i \in DOMAIN y.operand
    BY <1>1, <1>3 DEF LooksAt, SetPositions, Collectable
  <2>2. Exists(r) \subseteq Exists(y)
    BY <1>1, GrowsConnectors
  <2>3. y.set[i] = r.set[i]
    BY <2>1 DEF Collecting
  <2>4. t[i] \in Exists(y) \cup {Nothing}
    BY <2>1, <2>2 DEF Collectable
  <2>5. y.set[i].fixed => y.set[i].value \in Exists(y)
    BY <2>1, <2>2, <2>3 DEF Collectable
  <2>6. FirstStep(y, z, i, t)
    BY <1>1, <1>3, <2>1, <2>4, <2>5, CollectedAt DEF FirstAt
  <2> HIDE DEF z
  <2>7. Grows(r, z) /\ Exists(y) \subseteq Exists(z)
    BY <1>1, <2>6, GrowsTwice, GrowsConnectors DEF FirstStep, Collectable
  <2>8. ASSUME z.out = "run"
        PROVE  /\ Gathered(r, z, ({t} \X M) \cup ((C \ {t}) \X {}))
               /\ \A j \in M : Value(z, j) = t[j] /\ t[j] # Nothing /\ z.set[j].value \in Exists(z)
               /\ \A j \in DOMAIN r.set \ M : z.set[j] = r.set[j]
               /\ \A j \in DOMAIN r.operand \ M : Value(z, j) = Value(r, j)
    <3>1. Grows(y, z) /\ Gathers(y, z, i, {t}) /\ OnlyAt(y, z, i)
          /\ Value(z, i) = t[i] /\ t[i] # Nothing /\ z.set[i].value \in Exists(z)
      BY <2>6, <2>8 DEF FirstStep
    <3>2. \A j \in K : z.set[j] = y.set[j] /\ Value(z, j) = Value(y, j)
      BY <1>1, <3>1 DEF OnlyAt, Collectable
    <3>3. Gathered(r, z, (({t} \X K) \cup ((C \ {t}) \X {})) \cup ({t} \X {i}))
      <4> DEFINE G == ({t} \X K) \cup ((C \ {t}) \X {})
      <4>1. \A p \in G : p[2] \in K
        OBVIOUS
      <4>2. ({t} \X {i}) \cap G = {}
        OBVIOUS
      <4>3. Gathered(r, y, G)
        BY <2>1 DEF Collecting
      <4> HIDE DEF G
      <4>4. \A p \in G : z.set[p[2]].value = y.set[p[2]].value
        BY <3>2, <4>1
      <4>5. Gathered(r, z, G \cup ({t} \X {i}))
        BY <1>1, <3>1, <4>2, <4>3, <4>4, GatheredMore
      <4> QED
        BY <4>5 DEF G
    <3>4. (({t} \X K) \cup ((C \ {t}) \X {})) \cup ({t} \X {i}) = ({t} \X M) \cup ((C \ {t}) \X {})
      BY <2>1
    <3>5. \A j \in K : Value(y, j) = t[j] /\ t[j] # Nothing /\ y.set[j].value \in Exists(z)
      BY <2>1, <2>7 DEF Collecting
    <3>6. \A j \in M : Value(z, j) = t[j] /\ t[j] # Nothing /\ z.set[j].value \in Exists(z)
      BY <2>1, <3>1, <3>2, <3>5
    <3>7. \A j \in DOMAIN r.set \ M : z.set[j] = r.set[j]
      BY <1>1, <2>1, <3>1 DEF OnlyAt, Collecting
    <3>8. \A j \in DOMAIN r.operand \ M : Value(z, j) = Value(r, j)
      BY <1>1, <2>1, <3>1 DEF OnlyAt, Collecting
    <3> QED
      BY <3>3, <3>4, <3>6, <3>7, <3>8
  <2> HIDE DEF M
  <2> QED
    BY <2>7, <2>8 DEF Collecting, z, M
<1> QED
  BY <1>2, <1>3

LEMMA RestCollects ==
  ASSUME NEW r, NEW C, NEW t \in C, NEW y, NEW L, NEW i, NEW W, Collectable(r, C),
         L \subseteq W \cap DOMAIN r.set, i \notin L, Collecting(r, t, C, y, W \cap DOMAIN r.set, L)
  PROVE  Collecting(r, t, C, MoreAt(y, i, C \ {t}, W), W \cap DOMAIN r.set, L \cup ({i} \cap W \cap DOMAIN r.set))
<1> DEFINE S == C \ {t}
           z == MoreAt(y, i, S, W)
           K == W \cap DOMAIN r.set
           M == L \cup ({i} \cap W \cap DOMAIN r.set)
<1>1. DOMAIN y.set = DOMAIN r.set /\ Typed(y) /\ Grows(r, y) /\ y.out \in {"run", "thrown"}
  BY DEF Collecting, Grows
<1>2. CASE ~LooksAt(y, i, W)
  <2>1. z = y
    BY <1>2 DEF MoreAt
  <2>2. y.out = "run" => M = L
    BY <1>1, <1>2 DEF LooksAt, SetPositions
  <2> QED
    BY <2>1, <2>2 DEF Collecting
<1>3. CASE LooksAt(y, i, W)
  <2>1. i \in DOMAIN y.set /\ i \in K /\ y.out = "run" /\ M = L \cup {i}
    BY <1>1, <1>3 DEF LooksAt, SetPositions
  <2>2. y.set[i].value \in Exists(y) /\ t[i] # Nothing
    BY <2>1 DEF Collecting
  <2>3. Exists(r) \subseteq Exists(y)
    BY <1>1, GrowsConnectors
  <2>4. \A u \in S : u[i] \in Exists(y)
    BY <2>1, <2>2, <2>3 DEF Collectable
  <2>5. IsFiniteSet(S)
    BY FS_Difference DEF Collectable
  <2>6. RestStep(y, z, i, S)
    BY <1>1, <1>3, <2>1, <2>2, <2>4, <2>5, CollectedMore DEF MoreAt
  <2> HIDE DEF z
  <2>7. Grows(r, z) /\ Exists(y) \subseteq Exists(z)
    BY <1>1, <2>6, GrowsTwice, GrowsConnectors DEF RestStep, Collectable
  <2>8. z.out = "run" /\ z.set = y.set /\ z.operand = y.operand /\ Grows(y, z) /\ Gathers(y, z, i, S)
    BY <2>1, <2>6 DEF RestStep
  <2>9. Gathered(r, z, (({t} \X K) \cup (S \X L)) \cup (S \X {i}))
    <3> DEFINE G == ({t} \X K) \cup (S \X L)
    <3>1. (S \X {i}) \cap G = {}
      OBVIOUS
    <3>2. Gathered(r, y, G)
      BY <2>1 DEF Collecting
    <3> HIDE DEF G, S
    <3>3. Gathered(r, z, G \cup (S \X {i}))
      BY <1>1, <2>8, <3>1, <3>2, GatheredMore
    <3> QED
      BY <3>3 DEF G
  <2>10. (({t} \X K) \cup (S \X L)) \cup (S \X {i}) = ({t} \X K) \cup (S \X M)
    BY <2>1
  <2>11. \A j \in K : Value(z, j) = t[j] /\ t[j] # Nothing /\ z.set[j].value \in Exists(z)
    BY <2>1, <2>7, <2>8 DEF Collecting, Value
  <2>12. /\ \A j \in DOMAIN r.set \ K : z.set[j] = r.set[j]
         /\ \A j \in DOMAIN r.operand \ K : Value(z, j) = Value(r, j)
    BY <2>1, <2>8 DEF Collecting, Value
  <2> HIDE DEF M, K
  <2> QED
    BY <2>7, <2>9, <2>10, <2>11, <2>12 DEF Collecting, z, M, K
<1> QED
  BY <1>2, <1>3

LEMMA CollectingBegins ==
  ASSUME NEW r, NEW C, NEW t \in C, Collectable(r, C)
  PROVE  Collecting(r, t, C, r, {}, {})
<1>1. Grows(r, r)
  BY NothingAdded, AddsGrows DEF Collectable
<1>2. ({t} \X {}) \cup ((C \ {t}) \X {}) = {}
  OBVIOUS
<1> QED
  BY <1>1, <1>2, NothingGathered DEF Collecting

\* One place after the other.
Places(k, W, D) == {i \in W \cap D : i <= k}

LEMMA PlacesNext ==
  ASSUME NEW W, NEW D, NEW k \in 1 .. 5, W \subseteq 1 .. 5
  PROVE  /\ Places(k - 1, W, D) \cup ({k} \cap W \cap D) = Places(k, W, D)
         /\ k \notin Places(k - 1, W, D)
         /\ Places(k - 1, W, D) \subseteq W \cap D
<1> DEFINE A == Places(k - 1, W, D) \cup ({k} \cap W \cap D)
           B == Places(k, W, D)
<1>1. ASSUME NEW i \in 1 .. 5
      PROVE  i <= k <=> i <= k - 1 \/ i = k
  OBVIOUS
<1>2. ASSUME NEW i \in A
      PROVE  i \in B
  BY <1>1, <1>2 DEF Places
<1>3. ASSUME NEW i \in B
      PROVE  i \in A
  BY <1>1, <1>3 DEF Places
<1>4. ~(k <= k - 1)
  OBVIOUS
<1>5. A = B
  BY <1>2, <1>3
<1> QED
  BY <1>4, <1>5 DEF Places

LEMMA AllPlaces ==
  ASSUME NEW W, NEW D, W \subseteq 1 .. 5
  PROVE  Places(0, W, D) = {} /\ Places(5, W, D) = W \cap D
<1>1. \A i \in W : ~(i <= 0) /\ i <= 5
  OBVIOUS
<1>2. Places(0, W, D) = {}
  BY <1>1 DEF Places
<1>3. \A i : i \in Places(5, W, D) <=> i \in W \cap D
  BY <1>1 DEF Places
<1> QED
  BY <1>2, <1>3

LEMMA FirstNext ==
  ASSUME NEW r, NEW C, NEW t \in C, NEW W, NEW y, NEW k \in 1 .. 5, Collectable(r, C), W \subseteq 1 .. 5,
         Collecting(r, t, C, y, Places(k - 1, W, DOMAIN r.set), {})
  PROVE  Collecting(r, t, C, FirstAt(y, k, t, W), Places(k, W, DOMAIN r.set), {})
<1> DEFINE K == Places(k - 1, W, DOMAIN r.set)
<1>1. /\ K \cup ({k} \cap W \cap DOMAIN r.set) = Places(k, W, DOMAIN r.set)
      /\ k \notin K /\ K \subseteq DOMAIN r.set
  BY PlacesNext
<1>2. Collecting(r, t, C, FirstAt(y, k, t, W), K \cup ({k} \cap W \cap DOMAIN r.set), {})
  <2> HIDE DEF K
  <2>1. Collecting(r, t, C, y, K, {})
    BY DEF K
  <2> QED
    BY <1>1, <2>1, FirstCollects
<1> QED
  BY <1>1, <1>2

LEMMA RestNext ==
  ASSUME NEW r, NEW C, NEW t \in C, NEW W, NEW y, NEW k \in 1 .. 5, Collectable(r, C), W \subseteq 1 .. 5,
         Collecting(r, t, C, y, W \cap DOMAIN r.set, Places(k - 1, W, DOMAIN r.set))
  PROVE  Collecting(r, t, C, MoreAt(y, k, C \ {t}, W), W \cap DOMAIN r.set, Places(k, W, DOMAIN r.set))
<1> DEFINE L == Places(k - 1, W, DOMAIN r.set)
<1>1. /\ L \cup ({k} \cap W \cap DOMAIN r.set) = Places(k, W, DOMAIN r.set)
      /\ k \notin L /\ L \subseteq W \cap DOMAIN r.set
  BY PlacesNext
<1>2. Collecting(r, t, C, MoreAt(y, k, C \ {t}, W), W \cap DOMAIN r.set, L \cup ({k} \cap W \cap DOMAIN r.set))
  <2> HIDE DEF L
  <2>1. Collecting(r, t, C, y, W \cap DOMAIN r.set, L)
    BY DEF L
  <2> QED
    BY <1>1, <2>1, RestCollects
<1> QED
  BY <1>1, <1>2

LEMMA FirstAll ==
  ASSUME NEW r, NEW C, NEW t \in C, NEW W, Collectable(r, C), W \subseteq 1 .. 5
  PROVE  Collecting(r, t, C, CollectFirst(r, t, W), W \cap DOMAIN r.set, {})
<1> DEFINE Done(k, y) == Collecting(r, t, C, y, Places(k, W, DOMAIN r.set), {})
<1>1. Done(0, r)
  <2>1. Places(0, W, DOMAIN r.set) = {}
    BY AllPlaces
  <2>2. Collecting(r, t, C, r, {}, {})
    BY CollectingBegins
  <2> QED
    BY <2>1, <2>2
<1>2. ASSUME NEW k \in 1 .. 5, NEW y, Done(k - 1, y)
      PROVE  Done(k, FirstAt(y, k, t, W))
  BY <1>2, FirstNext
<1>3. ASSUME NEW y, Done(5, y)
      PROVE  Collecting(r, t, C, y, W \cap DOMAIN r.set, {})
  BY <1>3, AllPlaces
<1> HIDE DEF Done
<1> DEFINE a == FirstAt(r, 1, t, W)
           b == FirstAt(a, 2, t, W)
           c == FirstAt(b, 3, t, W)
           d == FirstAt(c, 4, t, W)
           e == FirstAt(d, 5, t, W)
<1>4. CollectFirst(r, t, W) = e
  BY DEF CollectFirst
<1> HIDE DEF a, b, c, d, e
<1>5. Done(1, a)
  BY <1>1, <1>2 DEF a
<1>6. Done(2, b)
  BY <1>2, <1>5 DEF b
<1>7. Done(3, c)
  BY <1>2, <1>6 DEF c
<1>8. Done(4, d)
  BY <1>2, <1>7 DEF d
<1>9. Done(5, e)
  BY <1>2, <1>8 DEF e
<1> QED
  BY <1>3, <1>4, <1>9

LEMMA RestAll ==
  ASSUME NEW r, NEW C, NEW t \in C, NEW W, NEW y, Collectable(r, C), W \subseteq 1 .. 5,
         Collecting(r, t, C, y, W \cap DOMAIN r.set, {})
  PROVE  Collecting(r, t, C, CollectRest(y, C \ {t}, W), W \cap DOMAIN r.set, W \cap DOMAIN r.set)
<1> DEFINE S == C \ {t}
           Done(k, z) == Collecting(r, t, C, z, W \cap DOMAIN r.set, Places(k, W, DOMAIN r.set))
<1>1. Done(0, y)
  BY AllPlaces
<1>2. ASSUME NEW k \in 1 .. 5, NEW z, Done(k - 1, z)
      PROVE  Done(k, MoreAt(z, k, S, W))
  BY <1>2, RestNext
<1>3. ASSUME NEW z, Done(5, z)
      PROVE  Collecting(r, t, C, z, W \cap DOMAIN r.set, W \cap DOMAIN r.set)
  BY <1>3, AllPlaces
<1> HIDE DEF Done
<1> DEFINE a == MoreAt(y, 1, S, W)
           b == MoreAt(a, 2, S, W)
           c == MoreAt(b, 3, S, W)
           d == MoreAt(c, 4, S, W)
           e == MoreAt(d, 5, S, W)
<1>4. CollectRest(y, S, W) = e
  BY DEF CollectRest
<1> HIDE DEF a, b, c, d, e
<1>5. Done(1, a)
  BY <1>1, <1>2 DEF a
<1>6. Done(2, b)
  BY <1>2, <1>5 DEF b
<1>7. Done(3, c)
  BY <1>2, <1>6 DEF c
<1>8. Done(4, d)
  BY <1>2, <1>7 DEF d
<1>9. Done(5, e)
  BY <1>2, <1>8 DEF e
<1> QED
  BY <1>3, <1>4, <1>9

-----------------------------------------------------------------------------
\* What was collected, counted.
LEMMA Counted ==
  ASSUME NEW x, NEW y, NEW C, NEW D, NEW sh \in Bijection(Constructions(x), C), NEW s, NEW e,
         NEW f \in Bijection(C \X D, Connectors(y) \ Exists(x)),
         D = SetPositions(y), IsFiniteSet(Constructions(x)), IsFiniteSet(D),
         \A p \in C \X D : y.ends[f[p]] = <<y.set[p[2]].value, p[1][p[2]]>>,
         \A i \in D : y.set[i].value = s => \A t \in Constructions(x) : sh[t][i] = t[i]
  PROVE  Cardinality(Collected(x, y, s, e)) = Cardinality(Due(x, y, s, e))
<1> DEFINE T == Constructions(x)
           N == Connectors(y) \ Exists(x)
           S == Due(x, y, s, e)
           A == Collected(x, y, s, e)
           of(p) == <<sh[p[1]], p[2]>>
           g == [p \in S |-> f[of(p)]]
<1>1. \A p \in S : p = <<p[1], p[2]>> /\ p[1] \in T /\ p[2] \in D
                   /\ y.set[p[2]].value = s /\ p[1][p[2]] = e
  BY DEF Due
<1>2. \A t \in T, i \in D : y.set[i].value = s /\ t[i] = e => <<t, i>> \in S
  BY DEF Due
<1>3. \A a : a \in A <=> a \in N /\ y.ends[a] = <<s, e>>
  BY DEF Collected
<1>4. sh \in [T -> C] /\ IsInjective(sh) /\ \A c \in C : \E t \in T : sh[t] = c
  BY DEF Bijection, Injection, Surjection
<1>5. f \in [C \X D -> N] /\ IsInjective(f) /\ \A a \in N : \E p \in C \X D : f[p] = a
  BY DEF Bijection, Injection, Surjection
<1>6. IsFiniteSet(S)
  <2>1. IsFiniteSet(T \X D)
    BY FS_Product
  <2>2. S \subseteq T \X D
    BY DEF Due
  <2> HIDE DEF S
  <2> QED
    BY <2>1, <2>2, FS_Subset
<1> HIDE DEF S, A, N, T
<1>7. \A p \in S : of(p) \in C \X D /\ of(p)[1] = sh[p[1]] /\ of(p)[2] = p[2]
  BY <1>1, <1>4
<1>8. \A p \in S : f[of(p)] \in A
  <2> TAKE p \in S
  <2>1. y.ends[f[of(p)]] = <<y.set[p[2]].value, sh[p[1]][p[2]]>>
    BY <1>7
  <2>2. y.ends[f[of(p)]] = <<s, e>>
    BY <1>1, <2>1 DEF T
  <2> QED
    BY <1>3, <1>5, <1>7, <2>2
<1>9. g \in [S -> A]
  BY <1>8
<1>10. IsInjective(g)
  <2> SUFFICES ASSUME NEW p \in S, NEW q \in S, f[of(p)] = f[of(q)]
               PROVE  p = q
    BY <1>9 DEF IsInjective
  <2>1. of(p) = of(q)
    BY <1>5, <1>7 DEF IsInjective
  <2>2. sh[p[1]] = sh[q[1]] /\ p[2] = q[2]
    BY <2>1
  <2> QED
    BY <1>1, <1>4, <2>2 DEF IsInjective
<1>11. \A a \in A : \E p \in S : f[of(p)] = a
  <2> TAKE a \in A
  <2>1. a \in N /\ y.ends[a] = <<s, e>>
    BY <1>3
  <2>2. PICK q \in C \X D : f[q] = a
    BY <1>5, <2>1
  <2>3. PICK t \in T : sh[t] = q[1]
    BY <1>4
  <2>4. q = <<sh[t], q[2]>> /\ q[2] \in D
    BY <2>3
  <2>5. y.set[q[2]].value = s /\ q[1][q[2]] = e
    BY <2>1, <2>2
  <2>6. t[q[2]] = e
    BY <2>3, <2>5 DEF T
  <2>7. <<t, q[2]>> \in S
    BY <1>2, <2>4, <2>5, <2>6
  <2>8. of(<<t, q[2]>>) = q
    BY <2>4
  <2> QED
    BY <2>2, <2>7, <2>8
<1>12. g \in Bijection(S, A)
  BY <1>9, <1>10, <1>11 DEF Bijection, Injection, Surjection
<1> HIDE DEF g
<1>13. Cardinality(A) = Cardinality(S)
  BY <1>6, <1>12, FS_Bijection DEF ExistsBijection
<1> QED
  BY <1>13 DEF A, S

LEMMA GrownKept ==
  ASSUME NEW x, NEW r, NEW s, Cleared(x, r), Grows(r, s)
  PROVE  Kept(x, s)
BY DEF Cleared, SameElements, Grows, Kept, Exists, Connectors

LEMMA SameKept ==
  ASSUME NEW x, NEW y, Typed(x), SameMemory(x, y)
  PROVE  Kept(x, y)
BY DEF SameMemory, Kept, Restrict, Typed, IsMemory, Exists, Connectors

\* The connectors made are those that did not exist.
LEMMA MadeConnectors ==
  ASSUME NEW x, NEW r, NEW s, Typed(x), Cleared(x, r), Grows(r, s)
  PROVE  Connectors(s) \ Connectors(r) = Connectors(s) \ Exists(x)
<1>1. Kept(x, s) /\ Connectors(r) = Connectors(x)
  BY GrownKept DEF Cleared, SameElements, Connectors
<1>2. \A a \in Exists(x) : s.type[a] = x.type[a]
  BY <1>1 DEF Kept, Restrict
<1>3. Connectors(s) = OfType(s, {"arc"}) /\ Connectors(x) = OfType(x, {"arc"})
  BY DEF Grows, Typed, IsMemory
<1> QED
  BY <1>1, <1>2, <1>3 DEF OfType

\* When a search succeeds: the sets, one by one.
SetsFilled(x, y, k) ==
  LET right == {i \in SetPositions(y) : ~Misplaced(x, k, i)}
      wrong == {y.set[i].value : i \in SetPositions(y) \ right}
  IN  /\ \A s \in Exists(y) \ wrong, e \in Exists(y) :
           Cardinality(Collected(x, y, s, e)) = Cardinality(Due(x, y, s, e))
      /\ \E t \in Constructions(x) : \A i \in right : Value(y, i) = t[i]
      /\ \A i \in Assigned(x) \ SetPositions(y) : Value(y, i) = Nothing

LEMMA CollectedIs ==
  ASSUME NEW x, NEW y, NEW k, Kept(x, y),
         y.out = "unsuccess" => Constructions(x) = {} /\ SameMemory(x, y),
         y.out = "success" => SetsFilled(x, y, k)
  PROVE  CollectedAll(x, y, k)
BY DEF CollectedAll, SetsFilled

\* sh: how a construction is collected.
Shows(x, C, k, sh) ==
  /\ sh \in Bijection(Constructions(x), C)
  /\ \A t \in Constructions(x), i \in DOMAIN x.set : ~Misplaced(x, k, i) => sh[t][i] = t[i]

LEMMA CollectingEnds ==
  ASSUME NEW x, NEW r, NEW C, NEW u \in C, NEW s, NEW k, NEW sh, Ready(x), Cleared(x, r),
         DOMAIN x.operand \in {1 .. 3, 1 .. 5},
         Shows(x, C, k, sh),
         Collecting(r, u, C, s, DOMAIN x.set, DOMAIN x.set), s.out = "run"
  PROVE  LET y == Finish(s, "success")
         IN  Proper(y) /\ Kept(x, y) /\ SetsFilled(x, y, k)
<1> DEFINE y == Finish(s, "success")
           D == DOMAIN x.set
<1>1. Grows(r, s) /\ Typed(s) /\ r.set = x.set /\ DOMAIN s.set = D /\ Typed(x)
  BY DEF Collecting, Grows, Cleared, Ready
<1>2. y.out = "success" /\ y.type = s.type /\ y.ends = s.ends /\ y.operand = s.operand /\ y.set = s.set /\ Typed(y)
  BY <1>1, Finishing, FinishTyped DEF Typed, SameElements
<1> HIDE DEF y, D
<1>3. Kept(x, y)
  BY <1>1, <1>2, GrownKept DEF Kept, Exists, Connectors
<1>4. SetPositions(y) = D
  BY <1>1, <1>2 DEF SetPositions
<1>5. ({u} \X D) \cup ((C \ {u}) \X D) = C \X D
  OBVIOUS
<1>6. Gathered(r, s, C \X D)
  BY <1>5 DEF Collecting, D
<1>7. PICK f \in Bijection(C \X D, Connectors(s) \ Connectors(r)) :
        \A p \in C \X D : s.ends[f[p]] = <<s.set[p[2]].value, p[1][p[2]]>>
  BY <1>6 DEF Gathered
<1>8. f \in Bijection(C \X D, Connectors(y) \ Exists(x))
  <2>1. Connectors(y) = Connectors(s)
    BY <1>2 DEF Connectors
  <2>2. Connectors(s) \ Connectors(r) = Connectors(s) \ Exists(x)
    BY <1>1, MadeConnectors
  <2> QED
    BY <1>7, <2>1, <2>2
<1>9. \A p \in C \X D : y.ends[f[p]] = <<y.set[p[2]].value, p[1][p[2]]>>
  BY <1>2, <1>7
<1>10. IsFiniteSet(Constructions(x)) /\ IsFiniteSet(D)
  <2>1. D \subseteq 1 .. 5
    BY DEF D, Ready, Typed
  <2>2. IsFiniteSet(1 .. 5)
    <3>1. 1 \in Int /\ 5 \in Int
      OBVIOUS
    <3> QED
      BY <3>1, FS_Interval, Zenon
  <2> QED
    BY <1>1, <2>1, <2>2, ConstructionsFinite, FS_Subset
<1>11. \A t \in Constructions(x), i \in D : ~Misplaced(x, k, i) => sh[t][i] = t[i]
  BY DEF Shows, D
<1> DEFINE right == {i \in SetPositions(y) : ~Misplaced(x, k, i)}
           wrong == {y.set[i].value : i \in SetPositions(y) \ right}
<1>12. ASSUME NEW q \in Exists(y) \ wrong, NEW e \in Exists(y)
       PROVE  Cardinality(Collected(x, y, q, e)) = Cardinality(Due(x, y, q, e))
  <2>1. \A i \in D : y.set[i].value = q => \A t \in Constructions(x) : sh[t][i] = t[i]
    BY <1>4, <1>11, <1>12
  <2>2. sh \in Bijection(Constructions(x), C)
    BY DEF Shows
  <2> QED
    BY <1>4, <1>8, <1>9, <1>10, <2>1, <2>2, Counted
<1>13. \E t \in Constructions(x) : \A i \in right : Value(y, i) = t[i]
  <2>1. PICK t \in Constructions(x) : sh[t] = u
    BY DEF Shows, Bijection, Surjection
  <2>2. \A i \in D : Value(y, i) = u[i]
    BY <1>2 DEF Collecting, Value, D
  <2> QED
    BY <1>4, <1>11, <2>1, <2>2
<1>14. \A i \in Assigned(x) \ SetPositions(y) : Value(y, i) = Nothing
  <2>1. \A i \in DOMAIN r.operand \ D : Value(y, i) = Value(r, i)
    BY <1>2 DEF Collecting, Value, D
  <2>2. \A i \in Assigned(x) : i \in DOMAIN r.operand /\ Value(r, i) = Nothing
    BY DEF Cleared, SameOperands, Assigned, Value
  <2> QED
    BY <1>4, <2>1, <2>2
<1>15. SetsFilled(x, y, k)
  BY <1>12, <1>13, <1>14 DEF SetsFilled
<1>16. Proper(y)
  BY <1>2 DEF Proper
<1> QED
  BY <1>3, <1>15, <1>16 DEF y

LEMMA CollectCollects ==
  ASSUME NEW x, NEW r, NEW C, NEW W, NEW k, NEW sh, NEW y \in Collect(r, C, W), Ready(x), Cleared(x, r),
         DOMAIN x.operand \in {1 .. 3, 1 .. 5}, W \subseteq 1 .. 5, DOMAIN x.set \subseteq W,
         Shows(x, C, k, sh), Collectable(r, C)
  PROVE  Proper(y) /\ CollectedAll(x, y, k)
<1>1. CASE C = {}
  <2>1. y = Finish(r, "unsuccess")
    BY <1>1 DEF Collect, Unsuccess
  <2>2. Ended(x, r, y) /\ y.out = "unsuccess"
    BY <2>1, ClearedEnds
  <2>3. Constructions(x) = {}
    BY <1>1 DEF Shows, Bijection, Injection
  <2>4. Kept(x, y)
    BY <2>2, SameKept DEF Ended, Ready
  <2> QED
    BY <2>2, <2>3, <2>4, CollectedIs DEF Ended
<1>2. CASE C # {}
  <2> DEFINE all(t) == CollectRest(CollectFirst(r, t, W), C \ {t}, W)
  <2>1. y \in UNION {Results(all(t), Success(all(t))) : t \in C}
    BY <1>2 DEF Collect
  <2>2. PICK u \in C : y \in Results(all(u), Success(all(u)))
    BY <2>1
  <2> DEFINE s == all(u)
  <2>3. W \cap DOMAIN r.set = DOMAIN x.set
    BY DEF Cleared
  <2>4. Collecting(r, u, C, s, DOMAIN x.set, DOMAIN x.set)
    <3>1. Collecting(r, u, C, CollectFirst(r, u, W), W \cap DOMAIN r.set, {})
      BY FirstAll
    <3> QED
      BY <2>3, <3>1, RestAll
  <2>5. y \in Results(s, Success(s))
    BY <2>2
  <2> HIDE DEF s
  <2>6. CASE s.out = "run"
    <3>1. y = Finish(s, "success")
      BY <2>5, <2>6 DEF Results, Success
    <3>2. Proper(y) /\ Kept(x, y) /\ SetsFilled(x, y, k)
      BY <2>4, <2>6, <3>1, CollectingEnds
    <3>3. y.out = "success"
      BY <2>4, <3>1, Finishing DEF Collecting, Grows, Typed
    <3> QED
      BY <3>2, <3>3, CollectedIs
  <2>7. CASE s.out # "run"
    <3>1. y = s
      BY <2>5, <2>7 DEF Results
    <3>2. Grows(r, y)
      BY <2>4, <3>1 DEF Collecting
    <3>3. y.out = "thrown" /\ Typed(y)
      BY <2>7, <3>1, <3>2 DEF Grows
    <3> QED
      BY <3>2, <3>3, GrownKept, CollectedIs DEF Proper
  <2> QED
    BY <2>6, <2>7
<1> QED
  BY <1>1, <1>2

-----------------------------------------------------------------------------
\* searchSetStr3, searchSetStr5
LEMMA ShowsItself ==
  ASSUME NEW x, NEW k
  PROVE  \E sh : Shows(x, Constructions(x), k, sh)
<1> DEFINE T == Constructions(x)
           sh == [t \in T |-> t]
<1>1. sh \in Bijection(T, T)
  <2> HIDE DEF T
  <2> QED
    BY DEF Bijection, Injection, Surjection, IsInjective
<1>2. \A t \in T : sh[t] = t
  OBVIOUS
<1> HIDE DEF sh, T
<1> QED
  BY <1>1, <1>2 DEF Shows, T

\* Sets stand over operands to be assigned.
LEMMA SetsOverAssigned ==
  ASSUME NEW x, Ready(x)
  PROVE  DOMAIN x.set \subseteq Assigned(x) /\ DOMAIN x.set \subseteq 1 .. 5
BY DEF Ready, Typed, Assigned, Fixed

LEMMA SetsReady ==
  ASSUME NEW x, NEW r, NEW C, Ready(x), Cleared(x, r), ~ValuelessSet(r), IsFiniteSet(C),
         \A i \in DOMAIN x.set : (\A t \in C : t[i] \in Exists(x)) \/ (\A t \in C : t[i] = Nothing)
  PROVE  Collectable(r, C)
<1>1. r.set = x.set /\ Exists(r) = Exists(x) /\ DOMAIN r.operand = DOMAIN x.operand /\ Typed(r) /\ r.out = "run"
  BY DEF Cleared, SameElements, SameOperands, Exists
<1>2. \A i \in DOMAIN r.set : r.set[i].fixed => r.set[i].value \in Exists(r)
  BY <1>1 DEF Ready, ValuelessSet, SetPositions
<1>3. DOMAIN r.set \subseteq DOMAIN r.operand
  BY <1>1, SetsOverAssigned DEF Assigned
<1> QED
  BY <1>1, <1>2, <1>3 DEF Collectable

LEMMA ConstructionsReady ==
  ASSUME NEW x, NEW r, Ready(x), Cleared(x, r), ~ValuelessSet(r), DOMAIN x.operand \in {1 .. 3, 1 .. 5}
  PROVE  Collectable(r, Constructions(x))
<1>1. IsFiniteSet(Constructions(x))
  BY ConstructionsFinite DEF Ready
<1>2. \A i \in DOMAIN x.set, t \in Constructions(x) : t[i] \in Exists(x)
  BY ConstructionsExist, SetsOverAssigned DEF Ready, Assigned
<1> QED
  BY <1>1, <1>2, SetsReady

\* The places a case looks at are those to be assigned.
LEMMA ConstructionsCollected ==
  ASSUME NEW x, NEW r, NEW W, NEW k, NEW y \in Collect(r, Constructions(x), W), Ready(x), Cleared(x, r),
         ~ValuelessSet(r), DOMAIN x.operand \in {1 .. 3, 1 .. 5}, W \subseteq 1 .. 5, Assigned(x) \subseteq W
  PROVE  Proper(y) /\ CollectedAll(x, y, k)
<1>1. PICK sh : Shows(x, Constructions(x), k, sh)
  BY ShowsItself
<1>2. Collectable(r, Constructions(x))
  BY ConstructionsReady
<1>3. DOMAIN x.set \subseteq W
  BY SetsOverAssigned
<1> QED
  BY <1>1, <1>2, <1>3, CollectCollects

LEMMA SearchSetStr3Collects ==
  ASSUME NEW x, NEW y \in SearchSetStr3(x), Ready(x), DOMAIN x.operand = 1 .. 3
  PROVE  Rejected(x, y) \/ (Proper(y) /\ CollectedAll(x, y, "searchSetStr3"))
<1> DEFINE r == ResetValues(x)
           found == CASE FixedOnly(r, {1, 3}) -> CollectArcs(r)
                      [] FixedOnly(r, {3})    -> CollectSources(r)
                      [] FixedOnly(r, {1})    -> CollectTargets(r)
<1>1. r.out = "error" \/ Cleared(x, r)
  BY ResetRuns DEF Ready
<1>2. CASE r.out = "error"
  BY <1>2 DEF SearchSetStr3, Checked, Results, Rejected
<1>3. CASE Cleared(x, r) /\ RejectsSearchSetStr3(r)
  BY <1>3 DEF SearchSetStr3, Checked, Results, Error, Rejected, Cleared
<1>4. CASE Cleared(x, r) /\ ~RejectsSearchSetStr3(r)
  <2>1. y \in found
    BY <1>4 DEF SearchSetStr3, Checked, Results, Cleared
  <2> HIDE DEF r
  <2> DEFINE fixed == DOMAIN x.operand \ Assigned(x)
  <2>2. DOMAIN x.operand = {1, 2, 3} /\ Assigned(x) \subseteq {1, 2, 3}
    BY DEF Assigned
  <2>3. ~Fixed(x, 2) /\ ~FixedOnly(x, {}) /\ ~ValuelessSet(r) /\ Typed(x)
    BY <1>4, <2>2, ClearedFixed DEF RejectsSearchSetStr3, MustBeAssigned, Ready
  <2>4. \A S : FixedOnly(r, S) <=> fixed = S
    BY <1>4, ClearedFixed DEF FixedOnly
  <2>5. fixed = {1, 3} \/ fixed = {3} \/ fixed = {1}
    BY <2>2, <2>3 DEF FixedOnly, Assigned, Fixed
  <2>6. Find3(r) = Constructions(x)
    BY <1>4, <2>3, Find3Is
  <2>7. ASSUME NEW S, fixed = S
        PROVE  Assigned(x) = {1, 2, 3} \ S
    BY <2>2, <2>7
  <2> HIDE DEF fixed
  <2>8. \E W \in SUBSET (1 .. 5) : Assigned(x) \subseteq W /\ y \in Collect(r, Constructions(x), W)
    <3>1. CASE fixed = {1, 3}
      <4>1. FixedOnly(r, {1, 3}) /\ ~FixedOnly(r, {3}) /\ ~FixedOnly(r, {1})
        BY <2>4, <3>1
      <4>2. y \in Collect(r, Constructions(x), {2})
        BY <2>1, <2>6, <4>1 DEF CollectArcs
      <4> QED
        BY <2>7, <3>1, <4>2
    <3>2. CASE fixed = {3}
      <4>1. FixedOnly(r, {3}) /\ ~FixedOnly(r, {1, 3}) /\ ~FixedOnly(r, {1})
        BY <2>4, <3>2
      <4>2. y \in Collect(r, Constructions(x), {1, 2})
        BY <2>1, <2>6, <4>1 DEF CollectSources
      <4> QED
        BY <2>7, <3>2, <4>2
    <3>3. CASE fixed = {1}
      <4>1. FixedOnly(r, {1}) /\ ~FixedOnly(r, {1, 3}) /\ ~FixedOnly(r, {3})
        BY <2>4, <3>3
      <4>2. y \in Collect(r, Constructions(x), {2, 3})
        BY <2>1, <2>6, <4>1 DEF CollectTargets
      <4> QED
        BY <2>7, <3>3, <4>2
    <3> QED
      BY <2>5, <3>1, <3>2, <3>3
  <2>9. PICK W \in SUBSET (1 .. 5) : Assigned(x) \subseteq W /\ y \in Collect(r, Constructions(x), W)
    BY <2>8
  <2> QED
    BY <1>4, <2>3, <2>9, ConstructionsCollected
<1> QED
  BY <1>1, <1>2, <1>3, <1>4

\* A search by the fifth operand alone takes the arc to the arc for the arc,
\* and nothing for the arc to the arc.
Shown(t) == <<t[1], t[4], t[3], Nothing, t[5]>>

LEMMA ShowsByRelation ==
  ASSUME NEW x, DOMAIN x.operand = 1 .. 5, FixedOnly(x, {5}), Ready(x)
  PROVE  \E sh : Shows(x, {Shown(t) : t \in Constructions(x)}, "searchSetStr5", sh)
<1> DEFINE T == Constructions(x)
           C == {Shown(t) : t \in T}
           sh == [t \in T |-> Shown(t)]
<1>1. \A t \in T : \E a, b \in Connectors(x) : Target(x, b) = a /\ t = Both(x, a, b)
  BY FiveIs
<1>2. \A t \in T : t[2] = Target(x, t[4]) /\ t = <<t[1], t[2], t[3], t[4], t[5]>>
  BY <1>1 DEF Both
<1> HIDE DEF T
<1>3. \A t \in T : /\ Shown(t)[1] = t[1] /\ Shown(t)[2] = t[4] /\ Shown(t)[3] = t[3] /\ Shown(t)[5] = t[5]
  BY DEF Shown
<1>4. ASSUME NEW t \in T, NEW u \in T, Shown(t) = Shown(u)
      PROVE  t = u
  <2>1. t[1] = u[1] /\ t[4] = u[4] /\ t[3] = u[3] /\ t[5] = u[5]
    BY <1>3, <1>4
  <2>2. t[2] = u[2]
    BY <1>2, <2>1
  <2> QED
    BY <1>2, <2>1, <2>2
<1>5. sh \in Bijection(T, C)
  <2>1. sh \in [T -> C]
    OBVIOUS
  <2>2. IsInjective(sh)
    BY <1>4 DEF IsInjective
  <2>3. \A c \in C : \E t \in T : sh[t] = c
    OBVIOUS
  <2> QED
    BY <2>1, <2>2, <2>3 DEF Bijection, Injection, Surjection
<1>6. ASSUME NEW t \in T, NEW i \in DOMAIN x.set, ~Misplaced(x, "searchSetStr5", i)
      PROVE  sh[t][i] = t[i]
  <2>1. i \in 1 .. 5 /\ i # 2 /\ i # 4
    BY <1>6, SetsOverAssigned DEF Misplaced
  <2>2. i = 1 \/ i = 3 \/ i = 5
    BY <2>1
  <2>3. sh[t] = Shown(t)
    OBVIOUS
  <2> QED
    BY <1>3, <2>2, <2>3
<1> HIDE DEF sh, C
<1>7. Shows(x, C, "searchSetStr5", sh)
  BY <1>5, <1>6 DEF Shows, T
<1> QED
  BY <1>7 DEF C, T

LEMMA ByRelationCollected ==
  ASSUME NEW x, NEW r, NEW y \in Collect(r, {Shown(t) : t \in Constructions(x)}, {1, 2, 3, 4}), Ready(x), Cleared(x, r),
         ~ValuelessSet(r), DOMAIN x.operand = 1 .. 5, FixedOnly(x, {5})
  PROVE  Proper(y) /\ CollectedAll(x, y, "searchSetStr5")
<1> DEFINE C == {Shown(t) : t \in Constructions(x)}
           W == {1, 2, 3, 4}
<1>1. PICK sh : Shows(x, C, "searchSetStr5", sh)
  BY ShowsByRelation
<1>2. DOMAIN x.set \subseteq W
  <2>1. DOMAIN x.set \subseteq 1 .. 5 /\ 5 \notin DOMAIN x.set
    BY SetsOverAssigned DEF FixedOnly
  <2> QED
    BY <2>1
<1>3. IsFiniteSet(C)
  <2>1. IsFiniteSet(Constructions(x)) /\ ExistsBijection(Constructions(x), C)
    BY <1>1, ConstructionsFinite DEF Ready, Shows, ExistsBijection
  <2> HIDE DEF C
  <2> QED
    BY <2>1, FS_Bijection
<1>4. ASSUME NEW i \in DOMAIN x.set
      PROVE  (\A c \in C : c[i] \in Exists(x)) \/ (\A c \in C : c[i] = Nothing)
  <2>1. i = 1 \/ i = 2 \/ i = 3 \/ i = 4
    BY <1>2
  <2>2. \A t \in Constructions(x) : t[1] \in Exists(x) /\ t[3] \in Exists(x) /\ t[4] \in Exists(x)
    <3>1. 1 \in DOMAIN x.operand /\ 3 \in DOMAIN x.operand /\ 4 \in DOMAIN x.operand
      OBVIOUS
    <3>2. Typed(x) /\ DOMAIN x.operand \in {1 .. 3, 1 .. 5}
      BY DEF Ready
    <3> QED
      BY <3>1, <3>2, ConstructionsExist
  <2>3. \A t : Shown(t)[1] = t[1] /\ Shown(t)[2] = t[4] /\ Shown(t)[3] = t[3] /\ Shown(t)[4] = Nothing
    BY DEF Shown
  <2> QED
    BY <2>1, <2>2, <2>3
<1> HIDE DEF C
<1>5. Collectable(r, C)
  BY <1>3, <1>4, SetsReady
<1>6. y \in Collect(r, C, W)
  BY DEF C
<1>7. W \subseteq 1 .. 5
  OBVIOUS
<1> HIDE DEF W
<1> QED
  BY <1>1, <1>2, <1>5, <1>6, <1>7, CollectCollects

\* The other cases.
CollectsBy(r, y, C) ==
  \/ FixedOnly(r, {1}) /\ y \in Collect(r, C, {2, 3, 4, 5})
  \/ FixedOnly(r, {3}) /\ y \in Collect(r, C, {1, 2, 4, 5})
  \/ FixedOnly(r, {1, 3}) /\ y \in Collect(r, C, {2, 4, 5})
  \/ FixedOnly(r, {3, 5}) /\ y \in Collect(r, C, {1, 2, 4})
  \/ FixedOnly(r, {1, 5}) /\ y \in Collect(r, C, {2, 3, 4})
  \/ FixedOnly(r, {1, 3, 5}) /\ y \in Collect(r, C, {2, 4})

LEMMA SearchSetStr5Collects ==
  ASSUME NEW x, NEW y \in SearchSetStr5(x), Ready(x), DOMAIN x.operand = 1 .. 5
  PROVE  Rejected(x, y) \/ (Proper(y) /\ CollectedAll(x, y, "searchSetStr5"))
<1> DEFINE r == ResetValues(x)
           found == CASE FixedOnly(r, {1})       -> CollectGiven1(r)
                      [] FixedOnly(r, {5})       -> CollectGiven5(r)
                      [] FixedOnly(r, {3})       -> CollectGiven3(r)
                      [] FixedOnly(r, {1, 3})    -> CollectGiven13(r)
                      [] FixedOnly(r, {3, 5})    -> CollectGiven35(r)
                      [] FixedOnly(r, {1, 5})    -> CollectGiven15(r)
                      [] FixedOnly(r, {1, 3, 5}) -> CollectGiven135(r)
<1>1. r.out = "error" \/ Cleared(x, r)
  BY ResetRuns DEF Ready
<1>2. CASE r.out = "error"
  BY <1>2 DEF SearchSetStr5, Checked, Results, Rejected
<1>3. CASE Cleared(x, r) /\ RejectsSearchSetStr5(r)
  BY <1>3 DEF SearchSetStr5, Checked, Results, Error, Rejected, Cleared
<1>4. CASE Cleared(x, r) /\ ~RejectsSearchSetStr5(r)
  <2>1. y \in found
    BY <1>4 DEF SearchSetStr5, Checked, Results, Cleared
  <2> HIDE DEF r
  <2> DEFINE fixed == DOMAIN x.operand \ Assigned(x)
  <2>2. DOMAIN x.operand = {1, 2, 3, 4, 5} /\ Assigned(x) \subseteq {1, 2, 3, 4, 5}
    BY DEF Assigned
  <2>3. ~Fixed(x, 2) /\ ~Fixed(x, 4) /\ ~IsNode(Want(x, 2)) /\ ~FixedOnly(x, {}) /\ ~ValuelessSet(r) /\ Typed(x)
    BY <1>4, <2>2, ClearedFixed DEF RejectsSearchSetStr5, MustBeAssigned, MustBeArc, Ready
  <2>4. \A S : (FixedOnly(r, S) <=> fixed = S) /\ (FixedOnly(x, S) <=> fixed = S)
    BY <1>4, ClearedFixed DEF FixedOnly
  <2>5. fixed \subseteq {1, 3, 5} /\ fixed # {}
    BY <2>2, <2>3 DEF FixedOnly, Assigned, Fixed
  <2>6. Assigned(x) = {1, 2, 3, 4, 5} \ fixed
    BY <2>2
  <2> HIDE DEF fixed
  <2>7. CASE fixed = {5}
    <3>1. /\ FixedOnly(r, {5}) /\ FixedOnly(x, {5})
          /\ ~FixedOnly(r, {1}) /\ ~FixedOnly(r, {3})
          /\ ~FixedOnly(r, {1, 3}) /\ ~FixedOnly(r, {3, 5}) /\ ~FixedOnly(r, {1, 5}) /\ ~FixedOnly(r, {1, 3, 5})
      BY <2>4, <2>7
    <3>2. y \in CollectGiven5(r)
      BY <2>1, <3>1
    <3>3. "arc" \in Want(x, 2)
      BY <2>3 DEF Ready, IsNode
    <3>4. ByRelation(r) = Constructions(x)
      BY <1>4, <2>3, <3>1, <3>3, ByRelationIs
    <3>5. y \in Collect(r, {Shown(t) : t \in Constructions(x)}, {1, 2, 3, 4})
      BY <3>2, <3>4 DEF CollectGiven5, Shown
    <3> QED
      BY <1>4, <2>3, <3>1, <3>5, ByRelationCollected
  <2>8. CASE fixed # {5}
    <3>1. Find5(r) = Constructions(x)
      BY <1>4, <2>3, Find5Is
    <3>2. CollectsBy(r, y, Constructions(x))
      <4>1. ~FixedOnly(r, {5})
        BY <2>4, <2>8
      <4>2. /\ fixed = {1} \/ fixed = {3} \/ fixed = {1, 3} \/ fixed = {3, 5} \/ fixed = {1, 5} \/ fixed = {1, 3, 5}
        BY <2>5, <2>8
      <4>3. CASE fixed = {1}
        <5>1. FixedOnly(r, {1}) /\ ~FixedOnly(r, {3})
              /\ ~FixedOnly(r, {1, 3}) /\ ~FixedOnly(r, {3, 5}) /\ ~FixedOnly(r, {1, 5}) /\ ~FixedOnly(r, {1, 3, 5})
          BY <2>4, <4>3
        <5> QED
          BY <2>1, <3>1, <4>1, <5>1 DEF CollectGiven1, CollectsBy
      <4>4. CASE fixed = {3}
        <5>1. FixedOnly(r, {3}) /\ ~FixedOnly(r, {1})
              /\ ~FixedOnly(r, {1, 3}) /\ ~FixedOnly(r, {3, 5}) /\ ~FixedOnly(r, {1, 5}) /\ ~FixedOnly(r, {1, 3, 5})
          BY <2>4, <4>4
        <5> QED
          BY <2>1, <3>1, <4>1, <5>1 DEF CollectGiven3, CollectsBy
      <4>5. CASE fixed = {1, 3}
        <5>1. FixedOnly(r, {1, 3}) /\ ~FixedOnly(r, {1}) /\ ~FixedOnly(r, {3})
              /\ ~FixedOnly(r, {3, 5}) /\ ~FixedOnly(r, {1, 5}) /\ ~FixedOnly(r, {1, 3, 5})
          BY <2>4, <4>5
        <5> QED
          BY <2>1, <3>1, <4>1, <5>1 DEF CollectGiven13, CollectsBy
      <4>6. CASE fixed = {3, 5}
        <5>1. FixedOnly(r, {3, 5}) /\ ~FixedOnly(r, {1}) /\ ~FixedOnly(r, {3})
              /\ ~FixedOnly(r, {1, 3}) /\ ~FixedOnly(r, {1, 5}) /\ ~FixedOnly(r, {1, 3, 5})
          BY <2>4, <4>6
        <5> QED
          BY <2>1, <3>1, <4>1, <5>1 DEF CollectGiven35, CollectsBy
      <4>7. CASE fixed = {1, 5}
        <5>1. FixedOnly(r, {1, 5}) /\ ~FixedOnly(r, {1}) /\ ~FixedOnly(r, {3})
              /\ ~FixedOnly(r, {1, 3}) /\ ~FixedOnly(r, {3, 5}) /\ ~FixedOnly(r, {1, 3, 5})
          BY <2>4, <4>7
        <5> QED
          BY <2>1, <3>1, <4>1, <5>1 DEF CollectGiven15, CollectsBy
      <4>8. CASE fixed = {1, 3, 5}
        <5>1. FixedOnly(r, {1, 3, 5}) /\ ~FixedOnly(r, {1}) /\ ~FixedOnly(r, {3})
              /\ ~FixedOnly(r, {1, 3}) /\ ~FixedOnly(r, {3, 5}) /\ ~FixedOnly(r, {1, 5})
          BY <2>4, <4>8
        <5> QED
          BY <2>1, <3>1, <4>1, <5>1 DEF CollectGiven135, CollectsBy
      <4> QED
        BY <4>2, <4>3, <4>4, <4>5, <4>6, <4>7, <4>8
    <3>3. \E W \in SUBSET (1 .. 5) : Assigned(x) \subseteq W /\ y \in Collect(r, Constructions(x), W)
      <4>1. \A S : FixedOnly(r, S) => Assigned(x) = {1, 2, 3, 4, 5} \ S
        BY <2>4, <2>6
      <4>2. PICK S, W \in SUBSET {1, 2, 3, 4, 5} :
              FixedOnly(r, S) /\ {1, 2, 3, 4, 5} \ S \subseteq W /\ y \in Collect(r, Constructions(x), W)
        BY <3>2 DEF CollectsBy
      <4> QED
        BY <4>1, <4>2
    <3>4. PICK W \in SUBSET (1 .. 5) : Assigned(x) \subseteq W /\ y \in Collect(r, Constructions(x), W)
      BY <3>3
    <3> QED
      BY <1>4, <2>3, <3>4, ConstructionsCollected
  <2> QED
    BY <2>7, <2>8
<1> QED
  BY <1>1, <1>2, <1>3, <1>4

-----------------------------------------------------------------------------
\* What folding does for one element: one variable of a result of sys_gen, or
\* of sys_search, or one result of sys_search.
Filling(m, g, e, y) ==
  IF m = "generate" THEN GenerateFor(y, e, g[e])
  ELSE IF m = "find" THEN FoundAt(y, e, g[e])
  ELSE FindAll(y, e)

Chosen(s) == CHOOSE e \in s : TRUE

\* f says what the fold of each subset of S comes to.
IsFold(f, m, g, base, S) ==
  f = [s \in SUBSET S |-> IF s = {} THEN base ELSE Filling(m, g, Chosen(s), f[s \ {Chosen(s)}])]

LEMMA LeastNatural ==
  ASSUME NEW N \in SUBSET Nat, N # {}
  PROVE  \E n \in N : \A m \in N : n <= m
<1>1. PICK n \in N : \A m \in N : ~(<<m, n>> \in OpToRel(<, Nat))
  BY NatLessThanWellFounded, WFMin
<1>2. \A m \in N : ~(m < n)
  BY <1>1 DEF OpToRel
<1> QED
  BY <1>2

\* Induction over a finite set, one element less at a time.
LEMMA ByElements ==
  ASSUME NEW S, IsFiniteSet(S), NEW G \in SUBSET SUBSET S, {} \in G,
         \A s \in SUBSET S : s # {} /\ s \ {Chosen(s)} \in G => s \in G
  PROVE  S \in G
<1> DEFINE left == {n \in Nat : \E s \in SUBSET S : Cardinality(s) = n /\ s \notin G}
<1>1. \A s \in SUBSET S : IsFiniteSet(s) /\ Cardinality(s) \in Nat
  BY FS_Subset, FS_CardinalityType
<1>2. ASSUME left # {}
      PROVE  FALSE
  <2>1. PICK n \in left : \A m \in left : n <= m
    <3>1. left \in SUBSET Nat
      OBVIOUS
    <3> QED
      BY <1>2, <3>1, LeastNatural
  <2>2. PICK s \in SUBSET S : Cardinality(s) = n /\ s \notin G
    BY <2>1
  <2>3. Chosen(s) \in s
    BY <2>2 DEF Chosen
  <2>4. Cardinality(s \ {Chosen(s)}) = n - 1
    BY <1>1, <2>2, <2>3, FS_RemoveElement
  <2>5. s \ {Chosen(s)} \notin G
    BY <2>2, <2>3
  <2>6. n - 1 \in left
    <3>1. s \ {Chosen(s)} \in SUBSET S
      OBVIOUS
    <3> QED
      BY <1>1, <2>4, <2>5, <3>1
  <2> QED
    BY <2>1, <2>6
<1>3. \A s \in SUBSET S : s \in G
  BY <1>1, <1>2
<1> QED
  BY <1>3

\* There is such a function: what it is on smaller sets says what it is.
LEMMA FoldExists ==
  ASSUME NEW m, NEW g, NEW base, NEW S, IsFiniteSet(S)
  PROVE  \E f : IsFold(f, m, g, base, S)
<1> DEFINE upTo(n) == {s \in SUBSET S : Cardinality(s) <= n}
           next(d, s) == IF s = {} THEN base ELSE Filling(m, g, Chosen(s), d[s \ {Chosen(s)}])
           folds(f, n) == f = [s \in upTo(n) |-> next(f, s)]
           rest == {n \in Nat : ~\E f : folds(f, n)}
<1>1. \A s \in SUBSET S : IsFiniteSet(s) /\ Cardinality(s) \in Nat
  BY FS_Subset, FS_CardinalityType
<1>2. \A s \in SUBSET S : s # {} =>
        /\ s \ {Chosen(s)} \in SUBSET S /\ Cardinality(s) > 0
        /\ Cardinality(s \ {Chosen(s)}) = Cardinality(s) - 1
  <2> TAKE s \in SUBSET S
  <2> HAVE s # {}
  <2>1. Chosen(s) \in s
    BY DEF Chosen
  <2> QED
    BY <1>1, <2>1, FS_RemoveElement, FS_EmptySet
<1>3. \E f : folds(f, 0)
  <2> DEFINE f == [s \in upTo(0) |-> base]
  <2>1. \A s \in upTo(0) : s = {}
    <3> SUFFICES ASSUME NEW s \in SUBSET S, Cardinality(s) <= 0
                 PROVE  s = {}
      OBVIOUS
    <3>1. Cardinality(s) \in Nat /\ (s # {} => Cardinality(s) > 0)
      BY <1>1, <1>2
    <3> QED
      BY <3>1
  <2>2. \A s \in upTo(0) : next(f, s) = base
    <3> HIDE DEF upTo
    <3> QED
      BY <2>1
  <2>3. folds(f, 0)
    <3> HIDE DEF next, upTo
    <3> QED
      BY <2>2
  <2> HIDE DEF f, folds
  <2> QED
    BY <2>3
<1>4. ASSUME NEW n \in Nat, NEW f, folds(f, n)
      PROVE  \E h : folds(h, n + 1)
  <2> DEFINE h == [s \in upTo(n + 1) |-> next(f, s)]
  <2>1. \A s \in upTo(n) : s \in upTo(n + 1) /\ f[s] = next(f, s)
    <3>1. \A s \in upTo(n) : s \in upTo(n + 1)
      BY <1>1
    <3> HIDE DEF next, upTo
    <3> QED
      BY <1>4, <3>1
  <2>2. \A s \in upTo(n) : h[s] = f[s]
    BY <2>1
  <2>3. \A s \in upTo(n + 1) : s # {} => s \ {Chosen(s)} \in upTo(n)
    BY <1>1, <1>2
  <2>4. \A s \in upTo(n + 1) : next(h, s) = next(f, s)
    <3> TAKE s \in upTo(n + 1)
    <3>1. CASE s = {}
      BY <3>1
    <3>2. CASE s # {}
      <4>1. h[s \ {Chosen(s)}] = f[s \ {Chosen(s)}]
        BY <2>2, <2>3, <3>2
      <4> HIDE DEF h
      <4> QED
        BY <3>2, <4>1
    <3> QED
      BY <3>1, <3>2
  <2>5. h = [s \in upTo(n + 1) |-> next(h, s)]
    <3>1. \A s \in upTo(n + 1) : h[s] = next(h, s)
      <4>1. \A s \in upTo(n + 1) : h[s] = next(f, s)
        OBVIOUS
      <4> HIDE DEF h, next
      <4> QED
        BY <2>4, <4>1
    <3>2. h = [s \in upTo(n + 1) |-> h[s]]
      OBVIOUS
    <3> HIDE DEF h, next, upTo
    <3> QED
      BY <3>1, <3>2
  <2> QED
    BY <2>5
<1> HIDE DEF folds
<1>5. rest = {}
  <2> SUFFICES ASSUME rest # {}
               PROVE  FALSE
    OBVIOUS
  <2>1. PICK n \in rest : \A k \in rest : n <= k
    <3>1. rest \in SUBSET Nat
      OBVIOUS
    <3> QED
      BY <3>1, LeastNatural
  <2>2. n # 0
    BY <1>3
  <2>3. n - 1 \in Nat /\ n - 1 \notin rest
    BY <2>1, <2>2
  <2>4. PICK f : folds(f, n - 1)
    BY <2>3
  <2>5. \E h : folds(h, n - 1 + 1)
    BY <1>4, <2>3, <2>4
  <2>6. n - 1 + 1 = n
    BY <2>1
  <2> QED
    BY <2>1, <2>5, <2>6
<1>6. PICK f : folds(f, Cardinality(S))
  BY <1>1, <1>5
<1>7. upTo(Cardinality(S)) = SUBSET S
  BY <1>1, FS_Subset
<1> QED
  BY <1>6, <1>7 DEF folds, IsFold

\* The folds of the two operators are such functions.
LEMMA GenerateFold ==
  ASSUME NEW g, NEW base, IsFiniteSet(DOMAIN g)
  PROVE  \E f : IsFold(f, "generate", g, base, DOMAIN g) /\ GenerateAll(base, g) = f[DOMAIN g]
<1> DEFINE S == DOMAIN g
           one(f, s) == GenerateFor(f[s \ {Chosen(s)}], Chosen(s), g[Chosen(s)])
           goes(f) == f = [s \in SUBSET S |-> IF s = {} THEN base ELSE one(f, s)]
           fold == CHOOSE f : goes(f)
<1>1. \A f, s : Filling("generate", g, Chosen(s), f[s \ {Chosen(s)}]) = one(f, s)
  BY DEF Filling
<1>2. GenerateAll(base, g) = fold[S]
  BY DEF GenerateAll, FoldSet, MapThenFoldSet, Chosen
<1> HIDE DEF one
<1>3. \A f : goes(f) <=> IsFold(f, "generate", g, base, S)
  BY <1>1 DEF IsFold
<1> HIDE DEF goes
<1>4. goes(fold)
  BY <1>3, FoldExists
<1> HIDE DEF fold
<1> QED
  BY <1>2, <1>3, <1>4

LEMMA FindFold ==
  ASSUME NEW g, NEW base, IsFiniteSet(DOMAIN g)
  PROVE  \E f : IsFold(f, "find", g, base, DOMAIN g) /\ FindAll(base, g) = f[DOMAIN g]
<1> DEFINE S == DOMAIN g
           one(f, s) == FoundAt(f[s \ {Chosen(s)}], Chosen(s), g[Chosen(s)])
           goes(f) == f = [s \in SUBSET S |-> IF s = {} THEN base ELSE one(f, s)]
           fold == CHOOSE f : goes(f)
<1>1. \A f, s : Filling("find", g, Chosen(s), f[s \ {Chosen(s)}]) = one(f, s)
  BY DEF Filling
<1>2. FindAll(base, g) = fold[S]
  BY DEF FindAll, FoldSet, MapThenFoldSet, Chosen
<1> HIDE DEF one
<1>3. \A f : goes(f) <=> IsFold(f, "find", g, base, S)
  BY <1>1 DEF IsFold
<1> HIDE DEF goes
<1>4. goes(fold)
  BY <1>3, FoldExists
<1> HIDE DEF fold
<1> QED
  BY <1>2, <1>3, <1>4

LEMMA ResultsFold ==
  ASSUME NEW g, NEW base, NEW S, IsFiniteSet(S)
  PROVE  \E f : IsFold(f, "results", g, base, S)
                /\ AddResults(base, S) = f[S]
<1> DEFINE one(f, s) == FindAll(f[s \ {Chosen(s)}], Chosen(s))
           goes(f) == f = [s \in SUBSET S |-> IF s = {} THEN base ELSE one(f, s)]
           fold == CHOOSE f : goes(f)
<1>1. \A f, s : Filling("results", g, Chosen(s), f[s \ {Chosen(s)}]) = one(f, s)
  BY DEF Filling
<1>2. AddResults(base, S) = fold[S]
  BY DEF AddResults, FoldSet, MapThenFoldSet, Chosen
<1> HIDE DEF one
<1>3. \A f : goes(f) <=> IsFold(f, "results", g, base, S)
  BY <1>1 DEF IsFold
<1> HIDE DEF goes
<1>4. goes(fold)
  BY <1>3, FoldExists
<1> HIDE DEF fold
<1> QED
  BY <1>2, <1>3, <1>4

\* Folding fills one element after another.
LEMMA FoldFills ==
  ASSUME NEW f, NEW m, NEW g, NEW base, NEW S, IsFold(f, m, g, base, S)
  PROVE  /\ f[{}] = base
         /\ \A s \in SUBSET S : s # {} =>
              /\ Chosen(s) \in s
              /\ f[s] = Filling(m, g, Chosen(s), f[s \ {Chosen(s)}])
<1> DEFINE value(s) == IF s = {} THEN base ELSE Filling(m, g, Chosen(s), f[s \ {Chosen(s)}])
<1>1. f = [s \in SUBSET S |-> value(s)]
  BY DEF IsFold
<1>2. \A s \in SUBSET S : f[s] = value(s)
  <2> HIDE DEF value
  <2> QED
    BY <1>1
<1>3. \A s : s # {} => Chosen(s) \in s
  BY DEF Chosen
<1> QED
  BY <1>2, <1>3

-----------------------------------------------------------------------------
\* Steps of filling: elements and connectors are added, and no connector leads
\* twice from one element to another.
TemplateFields == Fields \cup {"template", "pairs"}

Grown(x, y) ==
  /\ Adds(x, y) /\ y.out = "run"
  /\ DOMAIN y = DOMAIN x /\ TemplateFields \subseteq DOMAIN y
  /\ y.operand = x.operand /\ y.value = x.value /\ y.template = x.template
  /\ \A a, c \in Connectors(y) \ Connectors(x) : y.ends[a] = y.ends[c] => a = c

LEMMA NothingGrown ==
  ASSUME NEW x, Typed(x), x.out = "run", TemplateFields \subseteq DOMAIN x
  PROVE  Grown(x, x)
BY NothingAdded DEF Grown

LEMMA MembersExist ==
  ASSUME NEW x, Typed(x), NEW s
  PROVE  /\ MembersOf(x, s) \subseteq Exists(x)
         /\ s \notin Exists(x) => MembersOf(x, s) = {}
<1>1. \A a \in Connectors(x) : Source(x, a) \in Exists(x) /\ Target(x, a) \in Exists(x)
  BY DEF Typed, IsMemory, Source, Target
<1> QED
  BY <1>1 DEF MembersOf

LEMMA NodeGrows ==
  ASSUME NEW x, NEW y, Typed(x), Grown(x, y)
  PROVE  LET z == GenerateNode(y, ConstNode)
         IN  /\ Grown(x, z) /\ z.pairs = y.pairs
             /\ Exists(z) = Exists(y) \cup {y.fresh}
             /\ y.fresh \notin Exists(y) /\ y.fresh # Nothing
             /\ \A s : MembersOf(z, s) = MembersOf(y, s)
<1> DEFINE z == GenerateNode(y, ConstNode)
<1>1. Typed(y) /\ y.out = "run" /\ TemplateFields \subseteq DOMAIN y /\ DOMAIN y = DOMAIN x
  BY DEF Grown, Adds
<1>2. NodeStep(y, ConstNode, z)
  BY <1>1, NodeGenerated DEF Typed
<1>3. z.pairs = y.pairs /\ z.template = y.template
  BY <1>1 DEF GenerateNode, TemplateFields, Fields
<1>4. ConstNode \in SUBSET Flag /\ "arc" \notin ConstNode
  BY DEF ConstNode, Flag
<1>5. Adds(y, z)
  BY <1>1, <1>4, NodeAdds
<1> HIDE DEF z
<1>6. Adds(x, z)
  BY <1>5, AddsTwice DEF Grown
<1>7. Connectors(z) = Connectors(y) /\ z.ends = y.ends
  BY <1>2 DEF NodeStep, Connectors
<1>8. Grown(x, z)
  BY <1>1, <1>2, <1>3, <1>6, <1>7 DEF Grown, NodeStep
<1>9. Exists(z) = Exists(y) \cup {y.fresh}
  BY <1>2 DEF NodeStep, Exists
<1>10. \A s : MembersOf(z, s) = MembersOf(y, s)
  BY <1>7 DEF MembersOf, Source, Target
<1>11. y.fresh \notin Exists(y) /\ y.fresh # Nothing
  BY <1>1, FreshIsNew DEF Typed, IsMemory
<1> QED
  BY <1>3, <1>8, <1>9, <1>10, <1>11 DEF z

LEMMA OnceGrows ==
  ASSUME NEW x, NEW y, Typed(x), Grown(x, y), NEW s \in Exists(y) \cup {Nothing}, NEW e \in Exists(y)
  PROVE  LET z == AddOnce(y, s, e)
         IN  /\ Grown(x, z) /\ z.pairs = y.pairs
             /\ Exists(y) \subseteq Exists(z)
             /\ \A t : MembersOf(z, t) = MembersOf(y, t) \cup IF t = s /\ s # Nothing THEN {e} ELSE {}
<1> DEFINE z == AddOnce(y, s, e)
<1>1. Typed(y) /\ y.out = "run" /\ TemplateFields \subseteq DOMAIN y /\ DOMAIN y = DOMAIN x
  BY DEF Grown, Adds
<1>2. CASE s = Nothing
  <2>1. z = y
    BY <1>2 DEF AddOnce
  <2> QED
    BY <1>2, <2>1
<1>3. CASE s # Nothing /\ IsIn(y, s, e)
  <2>1. z = y
    BY <1>3 DEF AddOnce
  <2>2. e \in MembersOf(y, s)
    BY <1>3 DEF IsIn, MembersOf, Source, Target
  <2> QED
    BY <2>1, <2>2
<1>4. CASE s # Nothing /\ ~IsIn(y, s, e)
  <2>1. z = GenerateConnector(y, ConstPermPosArc, s, e) /\ s \in Exists(y)
    BY <1>4 DEF AddOnce
  <2>2. ConnectorStep(y, ConstPermPosArc, s, e, z)
    BY <1>1, <2>1, ConnectorGenerated DEF Typed
  <2>3. z.pairs = y.pairs /\ z.template = y.template
    BY <1>1, <2>1 DEF GenerateConnector, TemplateFields, Fields
  <2>4. ConstPermPosArc \in SUBSET Flag /\ "arc" \in ConstPermPosArc
    BY DEF ConstPermPosArc, Flag
  <2>5. Adds(y, z)
    BY <1>1, <2>1, <2>4, ConnectorAdds
  <2> HIDE DEF z
  <2>6. Adds(x, z)
    BY <2>5, AddsTwice DEF Grown
  <2>7. /\ Connectors(z) = Connectors(y) \cup {y.fresh} /\ y.fresh \notin Connectors(y)
        /\ z.ends[y.fresh] = <<s, e>>
        /\ \A a \in Connectors(y) : z.ends[a] = y.ends[a]
    BY <1>1, <2>2, FreshIsNew DEF ConnectorStep, Connectors
  <2>8. \A a \in Connectors(y) : y.ends[a] # <<s, e>>
    BY <1>4 DEF IsIn
  <2>9. \A a, c \in Connectors(z) \ Connectors(x) : z.ends[a] = z.ends[c] => a = c
    BY <2>7, <2>8 DEF Grown
  <2>10. Grown(x, z)
    BY <1>1, <2>2, <2>3, <2>6, <2>9 DEF Grown, ConnectorStep
  <2>11. Exists(y) \subseteq Exists(z)
    BY <2>2 DEF ConnectorStep, Exists
  <2>12. \A t : MembersOf(z, t) = MembersOf(y, t) \cup IF t = s THEN {e} ELSE {}
    <3>1. /\ Source(z, y.fresh) = s /\ Target(z, y.fresh) = e
          /\ \A a \in Connectors(y) : Source(z, a) = Source(y, a) /\ Target(z, a) = Target(y, a)
      BY <2>7 DEF Source, Target
    <3> QED
      BY <2>7, <3>1 DEF MembersOf
  <2> QED
    BY <1>4, <2>3, <2>10, <2>11, <2>12 DEF z
<1> QED
  BY <1>2, <1>3, <1>4

\* Only the pairs change.
LEMMA PairGrows ==
  ASSUME NEW x, NEW y, Typed(x), Grown(x, y), NEW v, NEW e
  PROVE  LET z == PairWith(y, v, e)
         IN  /\ Grown(x, z) /\ Exists(z) = Exists(y)
             /\ DOMAIN z.pairs = DOMAIN y.pairs \cup {v}
             /\ \A u \in DOMAIN z.pairs : z.pairs[u] = IF u = v THEN e ELSE y.pairs[u]
             /\ \A s : MembersOf(z, s) = MembersOf(y, s)
<1> DEFINE z == PairWith(y, v, e)
<1>1. Typed(y) /\ y.out = "run" /\ TemplateFields \subseteq DOMAIN y /\ DOMAIN y = DOMAIN x
  BY DEF Grown, Adds
<1> DEFINE pairs == With(y.pairs, {v}, LAMBDA u : e)
<1>2. z = [y EXCEPT !.pairs = pairs]
  BY DEF PairWith
<1>3. /\ DOMAIN pairs = DOMAIN y.pairs \cup {v}
      /\ \A u \in DOMAIN pairs : pairs[u] = IF u = v THEN e ELSE y.pairs[u]
  BY DEF With
<1> HIDE DEF pairs
<1>4. /\ DOMAIN z = DOMAIN y
      /\ z.type = y.type /\ z.ends = y.ends /\ z.fresh = y.fresh /\ z.value = y.value
      /\ z.operand = y.operand /\ z.set = y.set /\ z.out = y.out /\ z.template = y.template
      /\ z.pairs = pairs
  BY <1>1, <1>2 DEF TemplateFields, Fields
<1> HIDE DEF z
<1>5. Exists(z) = Exists(y) /\ Connectors(z) = Connectors(y)
  BY <1>4 DEF Exists, Connectors
<1>6. Typed(z)
  BY <1>1, <1>4, <1>5 DEF Typed, IsMemory, IsOperand, OfType
<1>7. Kept(x, z)
  BY <1>4, <1>5 DEF Kept, Grown, Adds
<1>8. Grown(x, z)
  BY <1>1, <1>4, <1>5, <1>6, <1>7 DEF Grown, Adds, SameOperands
<1>9. \A s : MembersOf(z, s) = MembersOf(y, s)
  BY <1>4, <1>5 DEF MembersOf, Source, Target
<1> QED
  BY <1>3, <1>4, <1>5, <1>8, <1>9 DEF z

-----------------------------------------------------------------------------
\* sys_gen, after the variables s of a result: what is new in the set is one
\* node for each of them that no parameter gave an element.
Holes(g, s) == {v \in s : g[v] = Nothing}

GeneratedSoFar(x, g, s, y) ==
  LET set     == FoundSet(x)
      members == MembersOf(y, set)
  IN  /\ Grown(x, y) /\ DOMAIN y.pairs = s
      /\ set # Nothing =>
           /\ \A v \in s : g[v] # Nothing => g[v] \in members
           /\ members \cap Exists(x) \subseteq MembersOf(x, set) \cup {g[v] : v \in s}
           /\ IsFiniteSet(members \ Exists(x))
           /\ Cardinality(members \ Exists(x)) = Cardinality(Holes(g, s))

LEMMA GeneratedMore ==
  ASSUME NEW x, Typed(x), FoundSet(x) \in Exists(x) \cup {Nothing}, NEW g,
         NEW s, IsFiniteSet(s), NEW v, v \notin s, g[v] \in Exists(x) \cup {Nothing},
         NEW y, GeneratedSoFar(x, g, s, y)
  PROVE  GeneratedSoFar(x, g, s \cup {v}, GenerateFor(y, v, g[v]))
<1> DEFINE e == g[v]
           set == FoundSet(x)
           y1 == IF e = Nothing THEN GenerateNode(y, ConstNode) ELSE y
           added == IF e = Nothing THEN y.fresh ELSE e
           y2 == AddOnce(y1, set, added)
           y3 == GenerateNode(y2, ConstNode)
           z == PairWith(y3, v, y2.fresh)
           old == MembersOf(y, set)
           new == MembersOf(z, set)
<1>1. Grown(x, y) /\ DOMAIN y.pairs = s
  BY DEF GeneratedSoFar
<1>2. Typed(y) /\ Exists(x) \subseteq Exists(y) /\ FoundSet(y) = set
  BY <1>1 DEF Grown, Adds, Kept, FoundSet, Value
<1>3. /\ Grown(x, y1) /\ y1.pairs = y.pairs /\ Exists(y) \subseteq Exists(y1) /\ added \in Exists(y1)
      /\ \A t : MembersOf(y1, t) = MembersOf(y, t)
  <2>1. CASE e = Nothing
    BY <1>1, <2>1, NodeGrows
  <2>2. CASE e # Nothing
    BY <1>1, <1>2, <2>2
  <2> QED
    BY <2>1, <2>2
<1>4. GenerateFor(y, v, e) = z
  BY <1>2 DEF GenerateFor
<1> HIDE DEF y1, added
<1>5. /\ Grown(x, y2) /\ y2.pairs = y.pairs
      /\ \A t : MembersOf(y2, t) = MembersOf(y, t) \cup IF t = set /\ set # Nothing THEN {added} ELSE {}
  <2>1. set \in Exists(y1) \cup {Nothing}
    BY <1>2, <1>3
  <2> HIDE DEF set, old, new
  <2> QED
    BY <1>3, <2>1, OnceGrows
<1> HIDE DEF y2
<1>6. Grown(x, y3) /\ y3.pairs = y.pairs /\ \A t : MembersOf(y3, t) = MembersOf(y2, t)
  BY <1>5, NodeGrows
<1> HIDE DEF y3
<1>7. /\ Grown(x, z) /\ DOMAIN z.pairs = s \cup {v}
      /\ \A t : MembersOf(z, t) = MembersOf(y3, t)
  BY <1>1, <1>6, PairGrows
<1>8. set # Nothing => new = old \cup {added}
  BY <1>5, <1>6, <1>7
<1>9. old \subseteq Exists(y) /\ y.fresh \notin Exists(y) /\ y.fresh \notin Exists(x)
  BY <1>2, MembersExist, FreshIsNew
<1> HIDE DEF z, old, new
<1>10. ASSUME set # Nothing
       PROVE  /\ \A u \in s \cup {v} : g[u] # Nothing => g[u] \in new
              /\ new \cap Exists(x) \subseteq MembersOf(x, set) \cup {g[u] : u \in s \cup {v}}
              /\ IsFiniteSet(new \ Exists(x))
              /\ Cardinality(new \ Exists(x)) = Cardinality(Holes(g, s \cup {v}))
  <2>1. /\ \A u \in s : g[u] # Nothing => g[u] \in old
        /\ old \cap Exists(x) \subseteq MembersOf(x, set) \cup {g[u] : u \in s}
        /\ IsFiniteSet(old \ Exists(x))
        /\ Cardinality(old \ Exists(x)) = Cardinality(Holes(g, s))
    BY <1>10 DEF GeneratedSoFar, old
  <2>2. new = old \cup {added}
    BY <1>8, <1>10
  <2>3. IsFiniteSet(Holes(g, s)) /\ v \notin Holes(g, s)
    BY FS_Subset DEF Holes
  <2>4. CASE e = Nothing
    <3>1. added = y.fresh
      BY <2>4 DEF added
    <3>2. new \ Exists(x) = (old \ Exists(x)) \cup {y.fresh} /\ y.fresh \notin old \ Exists(x)
      BY <1>9, <2>2, <3>1
    <3>3. Holes(g, s \cup {v}) = Holes(g, s) \cup {v}
      BY <2>4 DEF Holes
    <3> DEFINE A == old \ Exists(x)
               B == Holes(g, s)
    <3>4. /\ IsFiniteSet(new \ Exists(x))
          /\ Cardinality(new \ Exists(x)) = Cardinality(Holes(g, s \cup {v}))
      <4>1. IsFiniteSet(A) /\ IsFiniteSet(B) /\ Cardinality(A) = Cardinality(B)
        BY <2>1, <2>3
      <4> HIDE DEF A, B
      <4>2. IsFiniteSet(A \cup {y.fresh}) /\ Cardinality(A \cup {y.fresh}) = Cardinality(A) + 1
        BY <3>2, <4>1, FS_AddElement DEF A
      <4>3. Cardinality(B \cup {v}) = Cardinality(B) + 1
        BY <2>3, <4>1, FS_AddElement DEF B
      <4> QED
        BY <3>2, <3>3, <4>1, <4>2, <4>3 DEF A, B
    <3>5. \A u \in s \cup {v} : g[u] # Nothing => g[u] \in new
      BY <2>1, <2>2, <2>4
    <3>6. new \cap Exists(x) = old \cap Exists(x)
      BY <1>9, <2>2, <3>1
    <3> QED
      BY <2>1, <3>4, <3>5, <3>6
  <2>5. CASE e # Nothing
    <3>1. added = e /\ e \in Exists(x)
      BY <2>5 DEF added
    <3>2. new \ Exists(x) = old \ Exists(x)
      BY <2>2, <3>1
    <3>3. Holes(g, s \cup {v}) = Holes(g, s)
      BY <2>5 DEF Holes
    <3>4. \A u \in s \cup {v} : g[u] # Nothing => g[u] \in new
      BY <2>1, <2>2, <3>1
    <3>5. new \cap Exists(x) \subseteq MembersOf(x, set) \cup {g[u] : u \in s \cup {v}}
      BY <2>1, <2>2, <3>1
    <3> QED
      BY <2>1, <3>2, <3>3, <3>4, <3>5
  <2> QED
    BY <2>4, <2>5
<1>11. GeneratedSoFar(x, g, s \cup {v}, z)
  BY <1>7, <1>10 DEF GeneratedSoFar, new
<1> QED
  BY <1>4, <1>11

\* The whole fold.
LEMMA GeneratedWhole ==
  ASSUME NEW x, Typed(x), x.out = "run", TemplateFields \subseteq DOMAIN x, DOMAIN x.pairs = {},
         FoundSet(x) \in Exists(x) \cup {Nothing}, NEW g, IsFiniteSet(DOMAIN g),
         \A v \in DOMAIN g : g[v] \in Exists(x) \cup {Nothing}
  PROVE  GeneratedSoFar(x, g, DOMAIN g, GenerateAll(x, g))
<1> DEFINE S == DOMAIN g
<1>1. PICK f : /\ IsFold(f, "generate", g, x, S)
               /\ GenerateAll(x, g) = f[S]
  BY GenerateFold
<1> DEFINE G == {s \in SUBSET S : GeneratedSoFar(x, g, s, f[s])}
<1>2. /\ f[{}] = x
      /\ \A s \in SUBSET S : s # {} =>
           Chosen(s) \in s /\ f[s] = GenerateFor(f[s \ {Chosen(s)}], Chosen(s), g[Chosen(s)])
  BY <1>1, FoldFills DEF Filling
<1>3. {} \in G
  <2>1. Grown(x, x)
    BY NothingGrown
  <2>2. LET members == MembersOf(x, FoundSet(x))
        IN  members \subseteq Exists(x) /\ members \ Exists(x) = {}
    BY MembersExist
  <2>3. Holes(g, {}) = {}
    BY DEF Holes
  <2>4. GeneratedSoFar(x, g, {}, x)
    BY <2>1, <2>2, <2>3, FS_EmptySet DEF GeneratedSoFar
  <2> QED
    BY <1>2, <2>4
<1>4. ASSUME NEW s \in SUBSET S, s # {}, s \ {Chosen(s)} \in G
      PROVE  s \in G
  <2> DEFINE v == Chosen(s)
             r == s \ {v}
  <2>1. v \in s /\ f[s] = GenerateFor(f[r], v, g[v]) /\ GeneratedSoFar(x, g, r, f[r])
    BY <1>2, <1>4
  <2>2. IsFiniteSet(r) /\ v \notin r /\ r \cup {v} = s
    BY <2>1, FS_Subset
  <2>3. g[v] \in Exists(x) \cup {Nothing}
    BY <2>1
  <2> HIDE DEF v, r
  <2>4. GeneratedSoFar(x, g, r \cup {v}, GenerateFor(f[r], v, g[v]))
    BY <2>1, <2>2, <2>3, GeneratedMore
  <2> QED
    BY <2>1, <2>2, <2>4
<1>5. S \in G
  <2>1. G \in SUBSET SUBSET S
    OBVIOUS
  <2> HIDE DEF G, S
  <2> QED
    BY <1>3, <1>4, <2>1, ByElements DEF S
<1> QED
  BY <1>1, <1>5

-----------------------------------------------------------------------------
\* sys_search, after the variables and elements of T were found, each a pair:
\* every variable has one node of its own, the set of its elements.
FirstsOf(T)   == {p[1] : p \in T}
FoundIn(T, v) == {p[2] : p \in {q \in T : q[1] = v}}

FoundSoFar(x, T, y) ==
  /\ Grown(x, y)
  /\ DOMAIN y.pairs = FirstsOf(T)
  /\ \A v \in DOMAIN y.pairs :
       /\ y.pairs[v] \in Exists(y) \ Exists(x)
       /\ MembersOf(y, y.pairs[v]) = FoundIn(T, v)
       /\ \A u \in DOMAIN y.pairs : y.pairs[u] = y.pairs[v] => u = v
  /\ FoundSet(x) # Nothing => \A p \in T : p[2] \in MembersOf(y, FoundSet(x))

Paired(y, v) == IF v \in DOMAIN y.pairs THEN y ELSE PairWith(GenerateNode(y, ConstNode), v, y.fresh)

LEMMA OnePairMore ==
  ASSUME NEW T, NEW q, NEW v, NEW e, q[1] = v, q[2] = e
  PROVE  /\ FirstsOf(T \cup {q}) = FirstsOf(T) \cup {v}
         /\ \A u : FoundIn(T \cup {q}, u) = FoundIn(T, u) \cup IF u = v THEN {e} ELSE {}
<1>1. FirstsOf(T \cup {q}) = FirstsOf(T) \cup {v}
  BY DEF FirstsOf
<1>2. ASSUME NEW u
      PROVE  FoundIn(T \cup {q}, u) = FoundIn(T, u) \cup IF u = v THEN {e} ELSE {}
  BY DEF FoundIn
<1> QED
  BY <1>1, <1>2

\* The variable has a node, an old one or a new one without elements.
LEMMA PairedFor ==
  ASSUME NEW x, Typed(x), NEW T, NEW y, FoundSoFar(x, T, y), NEW v
  PROVE  LET z == Paired(y, v)
         IN  /\ Grown(x, z) /\ Exists(y) \subseteq Exists(z)
             /\ DOMAIN z.pairs = FirstsOf(T) \cup {v}
             /\ \A u \in DOMAIN z.pairs :
                  /\ z.pairs[u] \in Exists(z) \ Exists(x)
                  /\ MembersOf(z, z.pairs[u]) = FoundIn(T, u)
                  /\ \A w \in DOMAIN z.pairs : z.pairs[w] = z.pairs[u] => w = u
             /\ \A s : MembersOf(z, s) = MembersOf(y, s)
<1>1. /\ Grown(x, y) /\ Typed(y) /\ Exists(x) \subseteq Exists(y)
      /\ DOMAIN y.pairs = FirstsOf(T)
  BY DEF FoundSoFar, Grown, Adds, Kept
<1>2. CASE v \in DOMAIN y.pairs
  <2>1. Paired(y, v) = y
    BY <1>2 DEF Paired
  <2> QED
    BY <1>1, <1>2, <2>1 DEF FoundSoFar
<1>3. CASE v \notin DOMAIN y.pairs
  <2> DEFINE n == GenerateNode(y, ConstNode)
             z == PairWith(n, v, y.fresh)
  <2>1. /\ Grown(x, n) /\ n.pairs = y.pairs
        /\ Exists(n) = Exists(y) \cup {y.fresh} /\ y.fresh \notin Exists(y)
        /\ \A s : MembersOf(n, s) = MembersOf(y, s)
    BY <1>1, NodeGrows
  <2> HIDE DEF n
  <2>2. /\ Grown(x, z) /\ Exists(z) = Exists(n)
        /\ DOMAIN z.pairs = DOMAIN n.pairs \cup {v}
        /\ \A u \in DOMAIN z.pairs : z.pairs[u] = IF u = v THEN y.fresh ELSE n.pairs[u]
        /\ \A s : MembersOf(z, s) = MembersOf(n, s)
    BY <2>1, PairGrows
  <2> HIDE DEF z
  <2>3. MembersOf(y, y.fresh) = {}
    BY <1>1, <2>1, MembersExist
  <2>4. FoundIn(T, v) = {}
    BY <1>1, <1>3 DEF FoundIn, FirstsOf
  <2>5. ASSUME NEW u \in DOMAIN z.pairs
        PROVE  /\ z.pairs[u] \in Exists(z) \ Exists(x)
               /\ MembersOf(z, z.pairs[u]) = FoundIn(T, u)
               /\ \A w \in DOMAIN z.pairs : z.pairs[w] = z.pairs[u] => w = u
    <3>1. \A w \in DOMAIN y.pairs : y.pairs[w] \in Exists(y) /\ y.pairs[w] # y.fresh
      BY <2>1 DEF FoundSoFar
    <3>2. CASE u = v
      BY <1>1, <2>1, <2>2, <2>3, <2>4, <3>1, <3>2
    <3>3. CASE u # v
      <4>1. u \in DOMAIN y.pairs /\ z.pairs[u] = y.pairs[u]
        BY <2>1, <2>2, <3>3
      <4>2. /\ y.pairs[u] \in Exists(y) \ Exists(x)
            /\ MembersOf(y, y.pairs[u]) = FoundIn(T, u)
            /\ \A w \in DOMAIN y.pairs : y.pairs[w] = y.pairs[u] => w = u
        BY <4>1 DEF FoundSoFar
      <4> QED
        BY <2>1, <2>2, <3>1, <4>1, <4>2
    <3> QED
      BY <3>2, <3>3
  <2>6. Paired(y, v) = z
    BY <1>3 DEF Paired, z, n
  <2> QED
    BY <1>1, <2>1, <2>2, <2>5, <2>6
<1> QED
  BY <1>2, <1>3

LEMMA FoundMore ==
  ASSUME NEW x, Typed(x), FoundSet(x) \in Exists(x) \cup {Nothing}, NEW T, NEW y, FoundSoFar(x, T, y),
         NEW q, NEW v, NEW e \in Exists(x), q[1] = v, q[2] = e
  PROVE  FoundSoFar(x, T \cup {q}, FoundAt(y, v, e))
<1> DEFINE set == FoundSet(x)
           y1 == Paired(y, v)
           p1 == y1.pairs
           y2 == AddOnce(y1, p1[v], e)
           z == AddOnce(y2, set, e)
           more == T \cup {q}
<1>1. /\ Grown(x, y) /\ FoundSet(y) = set /\ Exists(x) \subseteq Exists(y)
      /\ set # Nothing => \A p \in T : p[2] \in MembersOf(y, set)
  BY DEF FoundSoFar, Grown, Adds, Kept, FoundSet, Value
<1>2. FoundAt(y, v, e) = z
  BY <1>1 DEF FoundAt, Paired
<1>3. /\ Grown(x, y1) /\ Exists(y) \subseteq Exists(y1)
      /\ DOMAIN p1 = FirstsOf(T) \cup {v}
      /\ \A u \in DOMAIN p1 :
           /\ p1[u] \in Exists(y1) \ Exists(x)
           /\ MembersOf(y1, p1[u]) = FoundIn(T, u)
           /\ \A w \in DOMAIN p1 : p1[w] = p1[u] => w = u
      /\ \A s : MembersOf(y1, s) = MembersOf(y, s)
  BY PairedFor
<1> HIDE DEF y1
<1>4. /\ Grown(x, y2) /\ y2.pairs = p1 /\ Exists(y1) \subseteq Exists(y2)
      /\ \A t : MembersOf(y2, t) = MembersOf(y1, t) \cup IF t = p1[v] /\ p1[v] # Nothing THEN {e} ELSE {}
  <2>1. p1[v] \in Exists(y1) \cup {Nothing} /\ e \in Exists(y1)
    BY <1>1, <1>3
  <2> QED
    BY <1>3, <2>1, OnceGrows
<1> HIDE DEF y2
<1>5. /\ Grown(x, z) /\ z.pairs = p1 /\ Exists(y2) \subseteq Exists(z)
      /\ \A t : MembersOf(z, t) = MembersOf(y2, t) \cup IF t = set /\ set # Nothing THEN {e} ELSE {}
  <2>1. set \in Exists(y2) \cup {Nothing} /\ e \in Exists(y2)
    BY <1>1, <1>3, <1>4
  <2>2. Grown(x, y2) /\ y2.pairs = p1
    BY <1>4
  <2> HIDE DEF set, p1, more, z
  <2>3. LET w == AddOnce(y2, set, e)
        IN  /\ Grown(x, w) /\ w.pairs = p1 /\ Exists(y2) \subseteq Exists(w)
            /\ \A t : MembersOf(w, t) = MembersOf(y2, t) \cup IF t = set /\ set # Nothing THEN {e} ELSE {}
    BY <2>1, <2>2, OnceGrows
  <2> QED
    BY <2>3 DEF z
<1> HIDE DEF z
<1>6. /\ DOMAIN p1 = FirstsOf(more)
      /\ \A u : FoundIn(more, u) = FoundIn(T, u) \cup IF u = v THEN {e} ELSE {}
  <2>1. /\ FirstsOf(more) = FirstsOf(T) \cup {v}
        /\ \A u : FoundIn(more, u) = FoundIn(T, u) \cup IF u = v THEN {e} ELSE {}
    BY OnePairMore
  <2> HIDE DEF more, p1
  <2> QED
    BY <1>3, <2>1
<1>7. p1[v] # Nothing
  <2>1. Nothing \notin Exists(y1)
    BY <1>3 DEF Grown, Adds, Typed, IsMemory, Nothing
  <2> QED
    BY <1>3, <2>1
<1> HIDE DEF p1, set, more
<1>8. ASSUME NEW u \in DOMAIN p1
      PROVE  /\ p1[u] \in Exists(z) \ Exists(x)
             /\ MembersOf(z, p1[u]) = FoundIn(more, u)
             /\ \A w \in DOMAIN p1 : p1[w] = p1[u] => w = u
  <2>1. p1[u] \in Exists(z) \ Exists(x) /\ \A w \in DOMAIN p1 : p1[w] = p1[u] => w = u
    BY <1>3, <1>4, <1>5
  <2>2. ~(p1[u] = set /\ set # Nothing)
    BY <2>1 DEF set
  <2>3. MembersOf(z, p1[u]) = MembersOf(y2, p1[u])
    BY <1>5, <2>2
  <2>4. MembersOf(y2, p1[u]) = FoundIn(T, u) \cup IF u = v THEN {e} ELSE {}
    BY <1>3, <1>4, <1>7
  <2>5. FoundIn(more, u) = FoundIn(T, u) \cup IF u = v THEN {e} ELSE {}
    BY <1>6
  <2> QED
    BY <2>1, <2>3, <2>4, <2>5
<1>9. ASSUME set # Nothing
      PROVE  \A p \in more : p[2] \in MembersOf(z, set)
  <2>1. \A p \in T : p[2] \in MembersOf(z, set)
    BY <1>1, <1>3, <1>4, <1>5, <1>9
  <2>2. e \in MembersOf(z, set)
    BY <1>5, <1>9
  <2> QED
    BY <2>1, <2>2 DEF more
<1>10. FoundSoFar(x, more, z)
  BY <1>5, <1>6, <1>8, <1>9 DEF FoundSoFar, set, p1
<1> QED
  BY <1>2, <1>10 DEF more

-----------------------------------------------------------------------------
\* The variables of one result, and the results.
PairsOf(g) == {<<v, g[v]>> : v \in DOMAIN g}

LEMMA FoundResult ==
  ASSUME NEW x, Typed(x), FoundSet(x) \in Exists(x) \cup {Nothing}, NEW T, NEW y, FoundSoFar(x, T, y),
         NEW g, IsFiniteSet(DOMAIN g), \A v \in DOMAIN g : g[v] \in Exists(x)
  PROVE  FoundSoFar(x, T \cup PairsOf(g), FindAll(y, g))
<1> DEFINE S == DOMAIN g
           upTo(s) == T \cup {<<v, g[v]>> : v \in s}
<1>1. PICK f : IsFold(f, "find", g, y, S) /\ FindAll(y, g) = f[S]
  BY FindFold
<1> DEFINE G == {s \in SUBSET S : FoundSoFar(x, upTo(s), f[s])}
<1>2. /\ f[{}] = y
      /\ \A s \in SUBSET S : s # {} =>
           Chosen(s) \in s /\ f[s] = FoundAt(f[s \ {Chosen(s)}], Chosen(s), g[Chosen(s)])
  BY <1>1, FoldFills DEF Filling
<1>3. {} \in G
  <2>1. upTo({}) = T
    OBVIOUS
  <2> QED
    BY <1>2, <2>1
<1>4. ASSUME NEW s \in SUBSET S, s # {}, s \ {Chosen(s)} \in G
      PROVE  s \in G
  <2> DEFINE v == Chosen(s)
             r == s \ {v}
  <2>1. v \in s /\ f[s] = FoundAt(f[r], v, g[v]) /\ FoundSoFar(x, upTo(r), f[r])
    BY <1>2, <1>4
  <2>2. upTo(s) = upTo(r) \cup {<<v, g[v]>>}
    BY <2>1
  <2>3. g[v] \in Exists(x)
    BY <2>1
  <2> DEFINE q == <<v, g[v]>>
  <2>4. q[1] = v /\ q[2] = g[v]
    OBVIOUS
  <2> HIDE DEF v, r, upTo, q
  <2>5. FoundSoFar(x, upTo(r) \cup {q}, FoundAt(f[r], v, g[v]))
    BY <2>1, <2>3, <2>4, FoundMore
  <2> QED
    BY <2>1, <2>2, <2>5 DEF q
<1>5. S \in G
  <2>1. G \in SUBSET SUBSET S
    OBVIOUS
  <2> HIDE DEF G, S
  <2> QED
    BY <1>3, <1>4, <2>1, ByElements DEF S
<1> QED
  BY <1>1, <1>5 DEF PairsOf

LEMMA FoundWhole ==
  ASSUME NEW x, Typed(x), x.out = "run", TemplateFields \subseteq DOMAIN x, DOMAIN x.pairs = {},
         FoundSet(x) \in Exists(x) \cup {Nothing}, NEW R, IsFiniteSet(R),
         \A g \in R : IsFiniteSet(DOMAIN g) /\ \A v \in DOMAIN g : g[v] \in Exists(x)
  PROVE  FoundSoFar(x, UNION {PairsOf(g) : g \in R}, AddResults(x, R))
<1> DEFINE upTo(s) == UNION {PairsOf(g) : g \in s}
<1>1. PICK f : IsFold(f, "results", {}, x, R) /\ AddResults(x, R) = f[R]
  BY ResultsFold
<1> DEFINE G == {s \in SUBSET R : FoundSoFar(x, upTo(s), f[s])}
<1>2. /\ f[{}] = x
      /\ \A s \in SUBSET R : s # {} =>
           Chosen(s) \in s /\ f[s] = FindAll(f[s \ {Chosen(s)}], Chosen(s))
  BY <1>1, FoldFills DEF Filling
<1>3. {} \in G
  <2>1. upTo({}) = {}
    OBVIOUS
  <2>2. FoundSoFar(x, {}, x)
    BY NothingGrown DEF FoundSoFar, FirstsOf
  <2> QED
    BY <1>2, <2>1, <2>2
<1>4. ASSUME NEW s \in SUBSET R, s # {}, s \ {Chosen(s)} \in G
      PROVE  s \in G
  <2> DEFINE g == Chosen(s)
             r == s \ {g}
  <2>1. g \in s /\ f[s] = FindAll(f[r], g) /\ FoundSoFar(x, upTo(r), f[r])
    BY <1>2, <1>4
  <2>2. upTo(s) = upTo(r) \cup PairsOf(g)
    BY <2>1
  <2>3. g \in R
    BY <2>1
  <2> HIDE DEF g, r, upTo
  <2>4. FoundSoFar(x, upTo(r) \cup PairsOf(g), FindAll(f[r], g))
    BY <2>1, <2>3, FoundResult
  <2> QED
    BY <2>1, <2>2, <2>4
<1>5. R \in G
  <2>1. G \in SUBSET SUBSET R
    OBVIOUS
  <2> HIDE DEF G
  <2> QED
    BY <1>3, <1>4, <2>1, ByElements
<1> QED
  BY <1>1, <1>5

-----------------------------------------------------------------------------
\* An operand to be assigned is given a new set, in which nothing is yet.
ResultOpened(x, i, y) ==
  /\ Adds(x, y) /\ y.out = "run"
  /\ DOMAIN y = DOMAIN x /\ y.template = x.template /\ y.pairs = x.pairs
  /\ Connectors(y) = Connectors(x) /\ y.ends = x.ends
  /\ Exists(y) \subseteq Exists(x) \cup {x.fresh}
  /\ \A j \in DOMAIN x.operand \ {i} : Value(y, j) = Value(x, j)
  /\ IF i \in Assigned(x) THEN Value(y, i) = x.fresh /\ x.fresh \in Exists(y)
                          ELSE y = x

LEMMA OpeningResult ==
  ASSUME NEW x, Typed(x), x.out = "run", TemplateFields \subseteq DOMAIN x, NEW i
  PROVE  ResultOpened(x, i, OpenResult(x, i))
<1>1. CASE i \notin Assigned(x)
  <2>1. OpenResult(x, i) = x
    BY <1>1 DEF OpenResult
  <2>2. Adds(x, x)
    BY NothingAdded
  <2> QED
    BY <1>1, <2>1, <2>2 DEF ResultOpened
<1>2. CASE i \in Assigned(x)
  <2> DEFINE n == GenerateNode(x, ConstNode)
             a == x.operand[i].addr
             o == [x.operand[i] EXCEPT !.value = x.fresh]
             y == [n EXCEPT !.operand[i].value = x.fresh, !.value[a] = {x.fresh}]
  <2>1. NodeStep(x, ConstNode, n) /\ i \in DOMAIN x.operand
    BY <1>2, NodeGenerated DEF Typed, Assigned
  <2>2. n.pairs = x.pairs /\ n.template = x.template
    BY DEF GenerateNode, TemplateFields, Fields
  <2>3. Adds(x, n)
    <3>1. ConstNode \in SUBSET Flag /\ "arc" \notin ConstNode
      BY DEF ConstNode, Flag
    <3> QED
      BY <3>1, NodeAdds
  <2>4. OpenResult(x, i) = y
    BY <1>2 DEF OpenResult
  <2> HIDE DEF n, a
  <2>5. /\ DOMAIN y = DOMAIN x /\ y.type = n.type /\ y.ends = n.ends /\ y.fresh = n.fresh
        /\ y.set = n.set /\ y.out = "run" /\ y.pairs = x.pairs /\ y.template = x.template
        /\ y.operand = [n.operand EXCEPT ![i].value = x.fresh]
        /\ y.value = [n.value EXCEPT ![a] = {x.fresh}]
    BY <2>1, <2>2 DEF NodeStep, TemplateFields, Fields
  <2> HIDE DEF y
  <2>6. /\ DOMAIN y.operand = DOMAIN x.operand
        /\ y.operand[i] = o
        /\ \A j \in DOMAIN x.operand \ {i} : y.operand[j] = x.operand[j]
    BY <2>1, <2>5 DEF NodeStep
  <2>7. /\ Exists(y) = Exists(n) /\ Connectors(y) = Connectors(n)
        /\ Exists(n) = Exists(x) \cup {x.fresh} /\ Connectors(n) = Connectors(x)
        /\ y.ends = x.ends /\ n.fresh = x.fresh + 1
    BY <2>1, <2>5 DEF NodeStep, Exists, Connectors
  <2>8. IsOperand(n, x.operand[i]) /\ \A j \in DOMAIN x.operand : IsOperand(n, x.operand[j])
    BY <2>1, <2>3 DEF Adds, Typed, NodeStep
  <2>9. o.value = x.fresh /\ IsOperand(n, o)
    <3>1. x.fresh \in 1 .. n.fresh - 1
      BY <2>7 DEF Typed, IsMemory, Nothing
    <3> QED
      BY <2>8, <3>1 DEF IsOperand, Operands
  <2>10. /\ o.addr = x.operand[i].addr /\ o.const = x.operand[i].const /\ o.fixed = x.operand[i].fixed
         /\ o.type = x.operand[i].type /\ o.erase = x.operand[i].erase
    BY <2>8 DEF IsOperand, Operands
  <2> HIDE DEF o
  <2>11. IsMemory(y)
    BY <2>3, <2>5, <2>7 DEF Adds, Typed, IsMemory, OfType
  <2>12. y.value \in [Variable -> SUBSET Exists(y)]
    <3>1. n.value \in [Variable -> SUBSET Exists(y)] /\ x.fresh \in Exists(y)
      BY <2>3, <2>7 DEF Adds, Typed
    <3> QED
      BY <2>5, <3>1
  <2>13. \A j \in DOMAIN y.operand : IsOperand(n, y.operand[j])
    BY <2>6, <2>8, <2>9
  <2>14. Typed(y)
    <3>1. \A j \in DOMAIN y.operand : IsOperand(y, y.operand[j])
      BY <2>5, <2>13 DEF IsOperand
    <3>2. \A j \in DOMAIN y.set : IsOperand(y, y.set[j])
      BY <2>3, <2>5 DEF Adds, Typed, IsOperand
    <3>3. Fields \subseteq DOMAIN y /\ DOMAIN y.operand \subseteq 1 .. 5
      BY <2>5, <2>6 DEF Typed
    <3> QED
      BY <2>11, <2>12, <3>1, <3>2, <3>3 DEF Typed
  <2>15. SameOperands(x, y)
    BY <2>6, <2>10 DEF SameOperands
  <2>16. Kept(x, y)
    BY <2>3, <2>5, <2>7 DEF Adds, Kept
  <2>17. Adds(x, y)
    BY <2>3, <2>5, <2>14, <2>15, <2>16 DEF Adds
  <2>18. Value(y, i) = x.fresh /\ \A j \in DOMAIN x.operand \ {i} : Value(y, j) = Value(x, j)
    BY <2>6, <2>9 DEF Value
  <2> QED
    BY <1>2, <2>4, <2>5, <2>7, <2>17, <2>18 DEF ResultOpened
<1> QED
  BY <1>1, <1>2

-----------------------------------------------------------------------------
\* What an operator with a template begins with: a set of operand 4 that is
\* there, or no set, and results of elements that are there, or of none where
\* sys_gen is to generate them.
TemplateReady(k, x) ==
  /\ Typed(x) /\ x.out = "run" /\ TemplateFields \subseteq DOMAIN x /\ DOMAIN x.pairs = {}
  /\ 2 \in DOMAIN x.operand
  /\ \A i \in DOMAIN x.operand : Value(x, i) \in Exists(x) \cup {Nothing}
  /\ IsFiniteSet(x.template.results)
  /\ \A g \in x.template.results :
       /\ IsFiniteSet(DOMAIN g) /\ DOMAIN g \subseteq TemplateVar
       /\ \A v \in DOMAIN g : g[v] \in Exists(x) \/ (k = "sys_gen" /\ g[v] = Nothing)

\* The first set is open.
LEMMA FirstOpened ==
  ASSUME NEW k, NEW x, TemplateReady(k, x)
  PROVE  LET y == OpenResult(x, 4)
         IN  /\ ResultOpened(x, 4, y) /\ Typed(y) /\ TemplateFields \subseteq DOMAIN y
             /\ Exists(x) \subseteq Exists(y) /\ DOMAIN y.operand = DOMAIN x.operand
             /\ Assigned(y) = Assigned(x)
             /\ FoundSet(y) \in Exists(y) \cup {Nothing}
             /\ \A s : MembersOf(y, s) = MembersOf(x, s)
<1> DEFINE y == OpenResult(x, 4)
<1>1. ResultOpened(x, 4, y)
  BY OpeningResult DEF TemplateReady
<1> HIDE DEF y
<1>2. Typed(y) /\ TemplateFields \subseteq DOMAIN y /\ Exists(x) \subseteq Exists(y)
  BY <1>1 DEF ResultOpened, Adds, Kept, TemplateReady
<1>3. DOMAIN y.operand = DOMAIN x.operand /\ Assigned(y) = Assigned(x)
  BY <1>1 DEF ResultOpened, Adds, SameOperands, Assigned
<1>4. FoundSet(y) \in Exists(y) \cup {Nothing}
  BY <1>1, <1>2, <1>3 DEF ResultOpened, TemplateReady, FoundSet
<1>5. \A s : MembersOf(y, s) = MembersOf(x, s)
  BY <1>1 DEF ResultOpened, MembersOf, Source, Target
<1> QED
  BY <1>1, <1>2, <1>3, <1>4, <1>5 DEF y

-----------------------------------------------------------------------------
\* From the world x, with the set of operand 4 open and filled (f), to the end
\* of the operator: only the set of operand 2 is opened.
Completed(x, f, y) ==
  /\ y.pairs = f.pairs
  /\ FoundSet(y) = FoundSet(OpenResult(x, 4))
  /\ \A s : MembersOf(y, s) = MembersOf(f, s)
  /\ \A i \in {2, 4} \cap Assigned(y) : Value(y, i) \notin Exists(x)
  /\ \A a, c \in Connectors(y) \ Connectors(x) : y.ends[a] = y.ends[c] => a = c

LEMMA PairsAdded ==
  ASSUME NEW k, NEW x, TemplateReady(k, x), NEW f, Grown(OpenResult(x, 4), f)
  PROVE  LET y == AddPairs(f)
         IN  /\ Typed(y) /\ Kept(x, y) /\ y.out \in {"run", "thrown"} /\ TemplateFields \subseteq DOMAIN y
             /\ y.out = "run" => Completed(x, f, y)
<1> DEFINE m == OpenResult(x, 4)
           o == OpenResult(f, 2)
           y == AddPairs(f)
<1>1. /\ ResultOpened(x, 4, m) /\ Exists(x) \subseteq Exists(m) /\ Assigned(m) = Assigned(x)
      /\ DOMAIN m.operand = DOMAIN x.operand
  BY FirstOpened
<1> HIDE DEF m
<1>2. Grown(m, f) /\ Typed(f) /\ Exists(m) \subseteq Exists(f) /\ f.operand = m.operand
  BY DEF Grown, Adds, Kept, m
<1>3. Typed(f) /\ f.out = "run" /\ TemplateFields \subseteq DOMAIN f
  BY <1>2 DEF Grown
<1>4. ResultOpened(f, 2, o)
  BY <1>3, OpeningResult
<1>5. y = o \/ y = Finish(o, "thrown")
  BY DEF AddPairs
<1>6. y.out = "run" => y = o
  <2>1. Fields \subseteq DOMAIN o
    BY <1>4 DEF ResultOpened, Adds, Typed
  <2> HIDE DEF o, y
  <2>2. Finish(o, "thrown").out = "thrown"
    BY <2>1, Finishing
  <2> QED
    BY <1>5, <2>2
<1> HIDE DEF o, y
<1>7. Adds(x, o)
  BY <1>1, <1>2, <1>4, AddsTwice DEF ResultOpened, Grown, TemplateReady
<1>8. Typed(o) /\ TemplateFields \subseteq DOMAIN o /\ o.out = "run" /\ Kept(x, o)
  BY <1>3, <1>4, <1>7 DEF Adds, ResultOpened
<1>9. Typed(y) /\ Kept(x, y) /\ y.out \in {"run", "thrown"} /\ TemplateFields \subseteq DOMAIN y
  <2>1. CASE y = o
    BY <1>8, <2>1
  <2>2. CASE y = Finish(o, "thrown")
    <3>1. /\ DOMAIN y = DOMAIN o /\ y.out = "thrown" /\ SameElements(o, y)
      BY <1>8, <2>2, Finishing DEF Typed
    <3>2. Typed(y)
      BY <1>8, <2>2, FinishTyped
    <3>3. Kept(x, y)
      BY <1>8, <3>1 DEF Kept, SameElements, Exists, Connectors
    <3> QED
      BY <1>8, <3>1, <3>2, <3>3
  <2> QED
    BY <1>5, <2>1, <2>2
<1>10. Completed(x, f, o)
  <2>1. o.pairs = f.pairs /\ Connectors(o) = Connectors(f) /\ o.ends = f.ends
    BY <1>4 DEF ResultOpened
  <2>2. Connectors(m) = Connectors(x)
    BY <1>1 DEF ResultOpened
  <2>3. \A a, c \in Connectors(o) \ Connectors(x) : o.ends[a] = o.ends[c] => a = c
    BY <1>2, <2>1, <2>2 DEF Grown
  <2>4. \A s : MembersOf(o, s) = MembersOf(f, s)
    BY <2>1 DEF MembersOf, Source, Target
  <2>5. DOMAIN o.operand = DOMAIN m.operand /\ Assigned(o) = Assigned(x) /\ Assigned(f) = Assigned(x)
    BY <1>1, <1>2, <1>4 DEF ResultOpened, Adds, SameOperands, Assigned
  <2>6. 4 \in DOMAIN m.operand => Value(o, 4) = Value(m, 4)
    BY <1>2, <1>4 DEF ResultOpened, Value
  <2>7. FoundSet(o) = FoundSet(m)
    BY <2>5, <2>6 DEF FoundSet
  <2>8. ASSUME 4 \in Assigned(x)
        PROVE  Value(o, 4) \notin Exists(x)
    <3>1. 4 \in DOMAIN m.operand /\ Value(m, 4) = x.fresh
      BY <1>1, <2>8 DEF ResultOpened, Assigned
    <3> QED
      BY <2>6, <3>1, FreshIsNew DEF TemplateReady
  <2>9. ASSUME 2 \in Assigned(x)
        PROVE  Value(o, 2) \notin Exists(x)
    <3>1. Value(o, 2) = f.fresh
      BY <1>4, <2>5, <2>9 DEF ResultOpened
    <3> QED
      BY <1>1, <1>2, <3>1, FreshIsNew
  <2> QED
    BY <2>1, <2>3, <2>4, <2>5, <2>7, <2>8, <2>9 DEF Completed, m
<1> QED
  BY <1>6, <1>9, <1>10 DEF y

\* The end of an operator that was not rejected.
Finishes(x, y) ==
  /\ Typed(y) /\ Kept(x, y)
  /\ y.out \in {"success", "unsuccess", "thrown"}

LEMMA TemplateFinishes ==
  ASSUME NEW k, NEW x, TemplateReady(k, x), NEW f, Grown(OpenResult(x, 4), f),
         NEW o \in {"success", "unsuccess"}, NEW y,
         y \in LET z == AddPairs(f) IN Results(z, {Finish(z, o)})
  PROVE  /\ Finishes(x, y)
         /\ y.out # "thrown" => y.out = o /\ Completed(x, f, y)
<1> DEFINE z == AddPairs(f)
<1>1. /\ Typed(z) /\ Kept(x, z) /\ z.out \in {"run", "thrown"} /\ TemplateFields \subseteq DOMAIN z
      /\ z.out = "run" => Completed(x, f, z)
  BY PairsAdded
<1>2. IF z.out = "run" THEN y = Finish(z, o) ELSE y = z
  BY DEF Results
<1> HIDE DEF z
<1>3. CASE z.out = "run"
  <2>1. /\ DOMAIN y = DOMAIN z /\ y.out = o /\ SameElements(z, y)
        /\ y.operand = z.operand /\ Typed(y)
    BY <1>1, <1>2, <1>3, Finishing, FinishTyped DEF Typed
  <2>2. y.pairs = z.pairs
    BY <1>1, <1>2, <1>3 DEF Finish, TemplateFields
  <2>3. Kept(x, y)
    BY <1>1, <2>1 DEF Kept, SameElements, Exists, Connectors
  <2>4. Connectors(y) = Connectors(z) /\ y.ends = z.ends
    BY <2>1 DEF SameElements, Connectors
  <2>5. \A s : MembersOf(y, s) = MembersOf(z, s)
    BY <2>4 DEF MembersOf, Source, Target
  <2>6. Completed(x, f, y)
    BY <1>1, <1>3, <2>1, <2>2, <2>4, <2>5 DEF Completed, FoundSet, Value, Assigned
  <2> QED
    BY <2>1, <2>3, <2>6 DEF Finishes
<1>4. CASE z.out = "thrown"
  BY <1>1, <1>2, <1>4 DEF Finishes
<1> QED
  BY <1>1, <1>3, <1>4

-----------------------------------------------------------------------------
\* What all results together say of a variable.
LEMMA PairsOfResults ==
  ASSUME NEW x, NEW T, T = UNION {PairsOf(g) : g \in x.template.results}, NEW v
  PROVE  FoundIn(T, v) = FoundFor(x, v) /\ (v \in FirstsOf(T) <=> FoundFor(x, v) # {})
<1> DEFINE R == x.template.results
<1>1. \A u, e : <<u, e>>[1] = u /\ <<u, e>>[2] = e
  OBVIOUS
<1>2. ASSUME NEW p \in T
      PROVE  \E g \in R : p[1] \in DOMAIN g /\ p[2] = g[p[1]]
  <2>1. PICK g \in R : p \in PairsOf(g)
    BY <1>2
  <2>2. PICK u \in DOMAIN g : p = <<u, g[u]>>
    BY <2>1 DEF PairsOf
  <2> QED
    BY <1>1, <2>2
<1>3. ASSUME NEW g \in R, NEW u \in DOMAIN g
      PROVE  \E p \in T : p[1] = u /\ p[2] = g[u]
  <2> DEFINE p == <<u, g[u]>>
  <2>1. p \in PairsOf(g) /\ p[1] = u /\ p[2] = g[u]
    BY DEF PairsOf
  <2> HIDE DEF p
  <2> QED
    BY <2>1
<1>4. FoundIn(T, v) \subseteq FoundFor(x, v)
  BY <1>2 DEF FoundIn, FoundFor
<1>5. FoundFor(x, v) \subseteq FoundIn(T, v)
  BY <1>3 DEF FoundIn, FoundFor
<1>6. v \in FirstsOf(T) <=> FoundIn(T, v) # {}
  BY DEF FoundIn, FirstsOf
<1> QED
  BY <1>4, <1>5, <1>6

TemplateEnds(k, x, y) ==
  /\ Typed(y) /\ y.out \in Outcome
  /\ ByTemplate(k, x, y)

LEMMA TemplateRejected ==
  ASSUME NEW k, NEW x, TemplateReady(k, x), NEW y \in Error(x)
  PROVE  TemplateEnds(k, x, y)
<1>1. y = Finish(x, "error")
  BY DEF Error
<1>2. Typed(y) /\ SameMemory(x, y) /\ y.value = x.value /\ y.out = "error"
  BY <1>1, Finishing, FinishTyped DEF TemplateReady, Typed, SameElements, SameMemory
<1>3. Kept(x, y)
  BY <1>2, SameKept DEF TemplateReady
<1> QED
  BY <1>2, <1>3 DEF TemplateEnds, ByTemplate, Outcome

LEMMA SysSearchFinds ==
  ASSUME NEW x, TemplateReady("sys_search", x), NEW y \in SysSearch(x)
  PROVE  TemplateEnds("sys_search", x, y)
<1> DEFINE m == OpenResult(x, 4)
           R == x.template.results
           f == AddResults(m, R)
           T == UNION {PairsOf(g) : g \in R}
           o == IF R = {} THEN "unsuccess" ELSE "success"
           z == AddPairs(f)
<1>1. CASE RejectsTemplate(x)
  BY <1>1, TemplateRejected DEF SysSearch
<1>2. CASE ~RejectsTemplate(x)
  <2>1. /\ ResultOpened(x, 4, m) /\ Typed(m) /\ TemplateFields \subseteq DOMAIN m
        /\ Exists(x) \subseteq Exists(m) /\ FoundSet(m) \in Exists(m) \cup {Nothing}
    BY FirstOpened
  <2>2. m.out = "run" /\ DOMAIN m.pairs = {}
    BY <2>1 DEF ResultOpened, TemplateReady
  <2>3. IsFiniteSet(R) /\ \A g \in R : IsFiniteSet(DOMAIN g) /\ \A v \in DOMAIN g : g[v] \in Exists(m)
    BY <2>1 DEF TemplateReady
  <2> HIDE DEF m
  <2>4. FoundSoFar(m, T, f)
    BY <2>1, <2>2, <2>3, FoundWhole
  <2>5. y \in Results(z, {Finish(z, o)})
    BY <1>2 DEF SysSearch, Success, Unsuccess, m
  <2>6. Grown(m, f)
    BY <2>4 DEF FoundSoFar
  <2> HIDE DEF f, z
  <2>7. /\ Finishes(x, y)
        /\ y.out # "thrown" => y.out = o /\ Completed(x, f, y)
    BY <2>5, <2>6, TemplateFinishes DEF m, z
  <2>8. ASSUME y.out # "thrown"
        PROVE  SearchedByTemplate(x, y)
    <3>1. y.out = o /\ y.pairs = f.pairs /\ FoundSet(y) = FoundSet(m) /\ \A s : MembersOf(y, s) = MembersOf(f, s)
      BY <2>7, <2>8 DEF Completed, m
    <3>2. \A v : FoundIn(T, v) = FoundFor(x, v) /\ (v \in FirstsOf(T) <=> FoundFor(x, v) # {})
      BY PairsOfResults
    <3> HIDE DEF T
    <3>3. \A v \in TemplateVar :
            /\ v \in DOMAIN y.pairs <=> FoundFor(x, v) # {}
            /\ FoundFor(x, v) # {} => MembersOf(y, y.pairs[v]) = FoundFor(x, v)
      BY <2>4, <3>1, <3>2 DEF FoundSoFar
    <3>4. ASSUME FoundSet(y) # Nothing, NEW v, NEW e \in FoundFor(x, v)
          PROVE  e \in MembersOf(y, FoundSet(y))
      <4>1. PICK p \in T : p[2] = e
        BY <3>2, <3>4 DEF FoundIn
      <4> QED
        BY <2>4, <3>1, <3>4, <4>1 DEF FoundSoFar
    <3>5. y.out = "unsuccess" <=> R = {}
      BY <3>1
    <3> QED
      BY <3>3, <3>4, <3>5 DEF SearchedByTemplate
  <2>9. y.out # "thrown" => Completed(x, f, y)
    BY <2>7
  <2> QED
    BY <2>7, <2>8, <2>9 DEF TemplateEnds, ByTemplate, Finishes, Completed, Outcome
<1> QED
  BY <1>1, <1>2

LEMMA SysGenGenerates ==
  ASSUME NEW x, TemplateReady("sys_gen", x), NEW y \in SysGen(x)
  PROVE  TemplateEnds("sys_gen", x, y)
<1> DEFINE m == OpenResult(x, 4)
           R == x.template.results
           all(g) == AddPairs(GenerateAll(m, g))
<1>1. CASE RejectsTemplate(x) \/ R = {}
  BY <1>1, TemplateRejected DEF SysGen
<1>2. CASE ~(RejectsTemplate(x) \/ R = {})
  <2>1. PICK g \in R : y \in Results(all(g), {Finish(all(g), "success")})
    BY <1>2 DEF SysGen, Success
  <2> DEFINE f == GenerateAll(m, g)
             z == AddPairs(f)
             set == FoundSet(m)
             old == MembersOf(x, set)
             all4 == MembersOf(f, set)
  <2>2. /\ ResultOpened(x, 4, m) /\ Typed(m) /\ TemplateFields \subseteq DOMAIN m
        /\ Exists(x) \subseteq Exists(m) /\ set \in Exists(m) \cup {Nothing}
        /\ \A s : MembersOf(m, s) = MembersOf(x, s)
    BY FirstOpened
  <2>3. m.out = "run" /\ DOMAIN m.pairs = {}
    BY <2>2 DEF ResultOpened, TemplateReady
  <2>4. IsFiniteSet(DOMAIN g) /\ \A v \in DOMAIN g : g[v] \in Exists(x) \cup {Nothing}
    BY DEF TemplateReady
  <2> HIDE DEF m
  <2>5. GeneratedSoFar(m, g, DOMAIN g, f)
    BY <2>2, <2>3, <2>4, GeneratedWhole
  <2>6. Grown(m, f) /\ y \in Results(z, {Finish(z, "success")})
    BY <2>1, <2>5 DEF GeneratedSoFar
  <2> HIDE DEF f, z
  <2>7. /\ Finishes(x, y)
        /\ y.out # "thrown" => y.out = "success" /\ Completed(x, f, y)
    BY <2>6, TemplateFinishes DEF m, z
  <2>8. ASSUME y.out # "thrown"
        PROVE  GeneratedByTemplate(x, y)
    <3>1. y.pairs = f.pairs /\ FoundSet(y) = set /\ \A s : MembersOf(y, s) = MembersOf(f, s)
      BY <2>7, <2>8 DEF Completed, m
    <3>2. DOMAIN y.pairs = DOMAIN g
      BY <2>5, <3>1 DEF GeneratedSoFar
    <3>3. old \subseteq Exists(x) /\ Nothing \notin Exists(x)
      BY MembersExist DEF TemplateReady, Typed, IsMemory, Nothing
    <3> DEFINE new == Added(x, y, FoundSet(y))
    <3>4. new = all4 \ old
      BY <3>1 DEF Added
    <3>5. ASSUME set # Nothing
          PROVE  /\ Range(g) \ {Nothing} \subseteq all4
                 /\ (all4 \ old) \cap Exists(x) \subseteq Range(g)
                 /\ Cardinality((all4 \ old) \ Exists(x)) = Cardinality({v \in DOMAIN g : g[v] = Nothing})
      <4>1. /\ \A v \in DOMAIN g : g[v] # Nothing => g[v] \in all4
            /\ all4 \cap Exists(m) \subseteq old \cup {g[v] : v \in DOMAIN g}
            /\ Cardinality(all4 \ Exists(m)) = Cardinality(Holes(g, DOMAIN g))
        BY <2>2, <2>5, <3>5 DEF GeneratedSoFar
      <4>2. Range(g) = {g[v] : v \in DOMAIN g}
        BY DEF Range
      <4> HIDE DEF all4, old
      <4>3. x.fresh \notin all4 \/ x.fresh \notin Exists(m)
        <5>1. x.fresh \notin Exists(x) /\ x.fresh # Nothing
          BY FreshIsNew DEF TemplateReady, Typed, IsMemory
        <5> QED
          BY <2>4, <3>3, <4>1, <5>1
      <4>4. (all4 \ old) \ Exists(x) = all4 \ Exists(m)
        <5>1. Exists(m) \subseteq Exists(x) \cup {x.fresh}
          BY <2>2 DEF ResultOpened
        <5> QED
          BY <2>2, <3>3, <4>3, <5>1
      <4> QED
        BY <2>2, <4>1, <4>2, <4>4 DEF Holes
    <3> HIDE DEF set, all4, new
    <3>6. FoundSet(y) # Nothing =>
            /\ Range(g) \ {Nothing} \subseteq MembersOf(y, FoundSet(y))
            /\ new \cap Exists(x) \subseteq Range(g)
            /\ Cardinality(new \ Exists(x)) = Cardinality({v \in DOMAIN g : g[v] = Nothing})
      BY <3>1, <3>4, <3>5 DEF all4
    <3> QED
      BY <3>2, <3>6 DEF GeneratedByTemplate, new
  <2>9. y.out # "thrown" => Completed(x, f, y)
    BY <2>7
  <2> QED
    BY <2>7, <2>8, <2>9 DEF TemplateEnds, ByTemplate, Finishes, Completed, Outcome
<1> QED
  BY <1>1, <1>2

-----------------------------------------------------------------------------
\* The invariant: an operator that has not been executed finds the world as it
\* was parsed in, and one that has been has rejected it or done what it is for.
Known == Single \cup Pairing \cup Triple \cup Quint

Arity(k, x) ==
  /\ k \in Single  => DOMAIN x.operand = 1 .. 1
  /\ k \in Pairing => DOMAIN x.operand = 1 .. 2
  /\ k \in Triple  => DOMAIN x.operand = 1 .. 3
  /\ k \in Quint   => DOMAIN x.operand = 1 .. 5

Generates == {"genEl", "genElStr3", "genElStr5"}
Asks      == {"ifCoin", "ifType", "ifVarAssign", "printEl", "print", "printNl"}

Does(k, x, y) ==
  /\ k \in Generates                        => Made(x, y, k)
  /\ k \in {"searchElStr3", "searchElStr5"}   => Searched(x, y)
  /\ k \in {"searchSetStr3", "searchSetStr5"} => CollectedAll(x, y, k)
  /\ k \in {"eraseElStr3", "eraseElStr5"}     => ErasedOne(x, y)
  /\ k \in {"eraseSetStr3", "eraseSetStr5"}   => ErasedAll(x, y)
  /\ k = "varAssign"                        => Copied(x, y)
  /\ k \in Asks                             => SameMemory(x, y) /\ y.value = x.value

Ends(k, x, y) == Rejected(x, y) \/ (Proper(y) /\ Does(k, x, y))

Unparsed == kind = "none" /\ world \in Worlds

Executed ==
  /\ Typed(before) /\ before.out = "run"
  /\ kind # "none"
  /\ kind \in Known => Ready(before) /\ Arity(kind, before)
  /\ world = before \/ (kind \in Known /\ Ends(kind, before, world))

ElementInv == Unparsed \/ Executed

\* An operator as it is parsed.
LEMMA ParsedReady ==
  ASSUME NEW w \in Worlds, NEW values \in ValuesRead(w), NEW j \in Jobs
  PROVE  LET y == Parsed(w, j, values)
         IN  /\ Typed(y) /\ y.out = "run"
             /\ j.kind \in Known => Ready(y) /\ Arity(j.kind, y)
<1> DEFINE y == Parsed(w, j, values)
<1>1. ParsedStep(w, j, y) /\ Typed(y)
  BY WorldsParsable, Parsing
<1> HIDE DEF y
<1>2. Exists(y) = Exists(w)
  BY <1>1 DEF ParsedStep, SameElements, Exists
<1>3. ASSUME j.kind \in Known
       PROVE  Ready(y) /\ Arity(j.kind, y)
  <2>1. Arity(j.kind, y)
    <3>1. DOMAIN y.operand = DOMAIN j.operand
      BY <1>1 DEF ParsedStep
    <3> QED
      BY <3>1, JobsAssumption DEF Arity
  <2>2. DOMAIN y.set \subseteq {i \in DOMAIN y.operand : ~Fixed(y, i)}
    <3>1. DOMAIN j.set \subseteq {i \in DOMAIN j.operand : ~j.operand[i].fixed}
      BY JobsAssumption
    <3>2. \A i \in DOMAIN j.operand : y.operand[i].fixed = j.operand[i].fixed
      BY <1>1 DEF ParsedStep, IsRead
    <3> QED
      BY <1>1, <3>1, <3>2 DEF ParsedStep, Fixed
  <2>3. DOMAIN y.operand = 1 .. 5 => Want(y, 2) \cap {"arc", "node"} # {}
    <3> SUFFICES ASSUME DOMAIN y.operand = 1 .. 5
                 PROVE  Want(y, 2) \cap {"arc", "node"} # {}
      OBVIOUS
    <3>1. 5 \in DOMAIN y.operand /\ 2 \in DOMAIN y.operand
      OBVIOUS
    <3>2. ~(5 \in 1 .. 1) /\ ~(5 \in 1 .. 2) /\ ~(5 \in 1 .. 3)
      OBVIOUS
    <3>3. j.kind \in Quint
      BY <1>3, <2>1, <3>1, <3>2 DEF Arity, Known
    <3>4. j.operand[2].type \cap {"arc", "node"} # {}
      BY <3>3, JobsAssumption
    <3>5. Want(y, 2) = j.operand[2].type
      BY <1>1, <3>1 DEF ParsedStep, IsRead, Want
    <3> QED
      BY <3>4, <3>5
  <2>4. \A i \in DOMAIN y.operand : y.operand[i].value \in Exists(y) \cup {Nothing}
    BY <1>1, <1>2 DEF ParsedStep, IsRead
  <2>5. \A i \in DOMAIN y.set : y.set[i].value \in Exists(y) \cup {Nothing}
    BY <1>1, <1>2 DEF ParsedStep, IsRead
  <2>6. Ready(y)
    BY <1>1, <2>2, <2>3, <2>4, <2>5 DEF ParsedStep, Ready
  <2> QED
    BY <2>1, <2>6
<1> QED
  BY <1>1, <1>3 DEF ParsedStep, y

\* One execution.
Runs(k, x, y) ==
  \/ k = "genEl" /\ y \in GenEl(x)
  \/ k = "genElStr3" /\ y \in GenElStr3(x)
  \/ k = "genElStr5" /\ y \in GenElStr5(x)
  \/ k = "searchElStr3" /\ y \in SearchElStr3(x)
  \/ k = "searchElStr5" /\ y \in SearchElStr5(x)
  \/ k = "searchSetStr3" /\ y \in SearchSetStr3(x)
  \/ k = "searchSetStr5" /\ y \in SearchSetStr5(x)
  \/ k = "eraseEl" /\ y \in EraseEl(x)
  \/ k = "eraseElStr3" /\ y \in EraseElStr3(x)
  \/ k = "eraseElStr5" /\ y \in EraseElStr5(x)
  \/ k = "eraseSetStr3" /\ y \in EraseSetStr3(x)
  \/ k = "eraseSetStr5" /\ y \in EraseSetStr5(x)
  \/ k = "ifCoin" /\ y \in IfCoin(x)
  \/ k = "ifType" /\ y \in IfType(x)
  \/ k = "ifVarAssign" /\ y \in IfVarAssign(x)
  \/ k = "varAssign" /\ y \in VarAssign(x)
  \/ k = "varErase" /\ y \in VarErase(x)
  \/ k = "printEl" /\ y \in PrintEl(x)
  \/ k = "print" /\ y \in PrintContent(x)
  \/ k = "printNl" /\ y \in PrintContent(x)

LEMMA OnlyProper ==
  ASSUME NEW k \in {"eraseEl", "varErase"}, NEW x, NEW y, Proper(y)
  PROVE  Ends(k, x, y)
BY DEF Ends, Does, Generates, Asks

LEMMA OnlyAsked ==
  ASSUME NEW k \in Asks, NEW x, NEW y, Asked(x, y)
  PROVE  Ends(k, x, y)
BY DEF Ends, Does, Generates, Asks, Asked, Ended

LEMMA RunsEnd ==
  ASSUME NEW k, NEW x, NEW y, Ready(x), Arity(k, x), Runs(k, x, y)
  PROVE  k \in Known /\ Ends(k, x, y)
<1>1. Typed(x) /\ x.out = "run"
  BY DEF Ready
<1>2. CASE k = "genEl" /\ y \in GenEl(x)
  <2>1. DOMAIN x.operand = 1 .. 1 /\ k \in Known
    BY <1>2 DEF Arity, Known, Single
  <2>2. Rejected(x, y) \/ (Proper(y) /\ Made(x, y, "genEl"))
    BY <1>1, <1>2, <2>1, GenElMakes
  <2> QED
    BY <1>2, <2>1, <2>2 DEF Ends, Does, Generates, Asks
<1>3. CASE k = "genElStr3" /\ y \in GenElStr3(x)
  <2>1. DOMAIN x.operand = 1 .. 3 /\ k \in Known
    BY <1>3 DEF Arity, Known, Triple
  <2>2. Rejected(x, y) \/ (Proper(y) /\ Made(x, y, "genElStr3"))
    BY <1>1, <1>3, <2>1, GenElStr3Makes
  <2> QED
    BY <1>3, <2>1, <2>2 DEF Ends, Does, Generates, Asks
<1>4. CASE k = "genElStr5" /\ y \in GenElStr5(x)
  <2>1. DOMAIN x.operand = 1 .. 5 /\ k \in Known
    BY <1>4 DEF Arity, Known, Quint
  <2>2. Rejected(x, y) \/ (Proper(y) /\ Made(x, y, "genElStr5"))
    BY <1>1, <1>4, <2>1, GenElStr5Makes
  <2> QED
    BY <1>4, <2>1, <2>2 DEF Ends, Does, Generates, Asks
<1>5. CASE k = "searchElStr3" /\ y \in SearchElStr3(x)
  <2>1. DOMAIN x.operand = 1 .. 3 /\ k \in Known
    BY <1>5 DEF Arity, Known, Triple
  <2>2. Rejected(x, y) \/ (Proper(y) /\ Searched(x, y))
    BY <1>1, <1>5, <2>1, SearchElStr3Searches
  <2> QED
    BY <1>5, <2>1, <2>2 DEF Ends, Does, Generates, Asks
<1>6. CASE k = "searchElStr5" /\ y \in SearchElStr5(x)
  <2>1. DOMAIN x.operand = 1 .. 5 /\ k \in Known
    BY <1>6 DEF Arity, Known, Quint
  <2>2. Rejected(x, y) \/ (Proper(y) /\ Searched(x, y))
    BY <1>1, <1>6, <2>1, SearchElStr5Searches
  <2> QED
    BY <1>6, <2>1, <2>2 DEF Ends, Does, Generates, Asks
<1>7. CASE k = "searchSetStr3" /\ y \in SearchSetStr3(x)
  <2>1. DOMAIN x.operand = 1 .. 3 /\ k \in Known
    BY <1>7 DEF Arity, Known, Triple
  <2>2. Rejected(x, y) \/ (Proper(y) /\ CollectedAll(x, y, "searchSetStr3"))
    BY <1>1, <1>7, <2>1, SearchSetStr3Collects
  <2> QED
    BY <1>7, <2>1, <2>2 DEF Ends, Does, Generates, Asks
<1>8. CASE k = "searchSetStr5" /\ y \in SearchSetStr5(x)
  <2>1. DOMAIN x.operand = 1 .. 5 /\ k \in Known
    BY <1>8 DEF Arity, Known, Quint
  <2>2. Rejected(x, y) \/ (Proper(y) /\ CollectedAll(x, y, "searchSetStr5"))
    BY <1>1, <1>8, <2>1, SearchSetStr5Collects
  <2> QED
    BY <1>8, <2>1, <2>2 DEF Ends, Does, Generates, Asks
<1>9. CASE k = "eraseEl" /\ y \in EraseEl(x)
  <2>1. DOMAIN x.operand = 1 .. 1 /\ k \in Known
    BY <1>9 DEF Arity, Known, Single
  <2>2. Rejected(x, y) \/ Proper(y)
    BY <1>1, <1>9, <2>1, EraseElErases
  <2> QED
    BY <1>9, <2>1, <2>2, OnlyProper DEF Ends
<1>10. CASE k = "eraseElStr3" /\ y \in EraseElStr3(x)
  <2>1. DOMAIN x.operand = 1 .. 3 /\ k \in Known
    BY <1>10 DEF Arity, Known, Triple
  <2>2. Rejected(x, y) \/ (Proper(y) /\ ErasedOne(x, y))
    BY <1>1, <1>10, <2>1, EraseElStr3Erases
  <2> QED
    BY <1>10, <2>1, <2>2 DEF Ends, Does, Generates, Asks
<1>11. CASE k = "eraseElStr5" /\ y \in EraseElStr5(x)
  <2>1. DOMAIN x.operand = 1 .. 5 /\ k \in Known
    BY <1>11 DEF Arity, Known, Quint
  <2>2. Rejected(x, y) \/ (Proper(y) /\ ErasedOne(x, y))
    BY <1>1, <1>11, <2>1, EraseElStr5Erases
  <2> QED
    BY <1>11, <2>1, <2>2 DEF Ends, Does, Generates, Asks
<1>12. CASE k = "eraseSetStr3" /\ y \in EraseSetStr3(x)
  <2>1. DOMAIN x.operand = 1 .. 3 /\ k \in Known
    BY <1>12 DEF Arity, Known, Triple
  <2>2. Rejected(x, y) \/ (Proper(y) /\ ErasedAll(x, y))
    BY <1>1, <1>12, <2>1, EraseSetStr3Erases
  <2> QED
    BY <1>12, <2>1, <2>2 DEF Ends, Does, Generates, Asks
<1>13. CASE k = "eraseSetStr5" /\ y \in EraseSetStr5(x)
  <2>1. DOMAIN x.operand = 1 .. 5 /\ k \in Known
    BY <1>13 DEF Arity, Known, Quint
  <2>2. Rejected(x, y) \/ (Proper(y) /\ ErasedAll(x, y))
    BY <1>1, <1>13, <2>1, EraseSetStr5Erases
  <2> QED
    BY <1>13, <2>1, <2>2 DEF Ends, Does, Generates, Asks
<1>14. CASE k = "ifCoin" /\ y \in IfCoin(x)
  <2>1. DOMAIN x.operand = 1 .. 2 /\ k \in Known
    BY <1>14 DEF Arity, Known, Pairing
  <2>2. Rejected(x, y) \/ Asked(x, y)
    BY <1>1, <1>14, <2>1, IfCoinAsks
  <2> QED
    BY <1>14, <2>1, <2>2, OnlyAsked DEF Ends, Asks
<1>15. CASE k = "ifType" /\ y \in IfType(x)
  <2>1. DOMAIN x.operand = 1 .. 1 /\ k \in Known
    BY <1>15 DEF Arity, Known, Single
  <2>2. Rejected(x, y) \/ Asked(x, y)
    BY <1>1, <1>15, <2>1, IfTypeAsks
  <2> QED
    BY <1>15, <2>1, <2>2, OnlyAsked DEF Ends, Asks
<1>16. CASE k = "ifVarAssign" /\ y \in IfVarAssign(x)
  <2>1. DOMAIN x.operand = 1 .. 1 /\ k \in Known
    BY <1>16 DEF Arity, Known, Single
  <2>2. Rejected(x, y) \/ Asked(x, y)
    BY <1>1, <1>16, <2>1, IfVarAssignAsks
  <2> QED
    BY <1>16, <2>1, <2>2, OnlyAsked DEF Ends, Asks
<1>17. CASE k = "varAssign" /\ y \in VarAssign(x)
  <2>1. DOMAIN x.operand = 1 .. 2 /\ k \in Known
    BY <1>17 DEF Arity, Known, Pairing
  <2>2. Rejected(x, y) \/ (Proper(y) /\ Copied(x, y))
    BY <1>1, <1>17, <2>1, VarAssigns
  <2> QED
    BY <1>17, <2>1, <2>2 DEF Ends, Does, Generates, Asks
<1>18. CASE k = "varErase" /\ y \in VarErase(x)
  <2>1. DOMAIN x.operand = 1 .. 1 /\ k \in Known
    BY <1>18 DEF Arity, Known, Single
  <2>2. Rejected(x, y) \/ Proper(y)
    BY <1>1, <1>18, <2>1, VarErases
  <2> QED
    BY <1>18, <2>1, <2>2, OnlyProper DEF Ends
<1>19. CASE k = "printEl" /\ y \in PrintEl(x)
  <2>1. DOMAIN x.operand = 1 .. 1 /\ k \in Known
    BY <1>19 DEF Arity, Known, Single
  <2>2. Rejected(x, y) \/ Asked(x, y)
    BY <1>1, <1>19, <2>1, PrintElAsks
  <2> QED
    BY <1>19, <2>1, <2>2, OnlyAsked DEF Ends, Asks
<1>20. CASE k = "print" /\ y \in PrintContent(x)
  <2>1. DOMAIN x.operand = 1 .. 1 /\ k \in Known
    BY <1>20 DEF Arity, Known, Single
  <2>2. Rejected(x, y) \/ Asked(x, y)
    BY <1>1, <1>20, <2>1, PrintContentAsks
  <2> QED
    BY <1>20, <2>1, <2>2, OnlyAsked DEF Ends, Asks
<1>21. CASE k = "printNl" /\ y \in PrintContent(x)
  <2>1. DOMAIN x.operand = 1 .. 1 /\ k \in Known
    BY <1>21 DEF Arity, Known, Single
  <2>2. Rejected(x, y) \/ Asked(x, y)
    BY <1>1, <1>21, <2>1, PrintContentAsks
  <2> QED
    BY <1>21, <2>1, <2>2, OnlyAsked DEF Ends, Asks
<1> QED
  BY <1>2, <1>3, <1>4, <1>5, <1>6, <1>7, <1>8, <1>9, <1>10, <1>11, <1>12, <1>13, <1>14, <1>15, <1>16, <1>17, <1>18, <1>19, <1>20, <1>21 DEF Runs

-----------------------------------------------------------------------------
\* The invariant is one.
LEMMA InvInit == Init => ElementInv
BY DEF Init, ElementInv, Unparsed

LEMMA NotExecuted ==
  ASSUME ElementInv, kind = "none"
  PROVE  world \in Worlds
BY DEF ElementInv, Unparsed, Executed

LEMMA NotYetExecuted ==
  ASSUME ElementInv, world.out = "run"
  PROVE  Executed /\ world = before
<1>1. ASSUME Unparsed
      PROVE  FALSE
  BY <1>1, WorldsAssumption DEF Unparsed
<1>2. Executed
  BY <1>1 DEF ElementInv
<1>3. Rejected(before, world) => world.out = "error"
  BY <1>2, ErrorRejects DEF Executed
<1> QED
  BY <1>2, <1>3 DEF Executed, Ends, Proper

LEMMA StepRuns ==
  ASSUME Next, ~Parse
  PROVE  world.out = "run" /\ Runs(kind, world, world') /\ kind' = kind /\ before' = before
<1>1. CASE GenOperator
  BY <1>1 DEF GenOperator, Run, Runs
<1>2. CASE SearchOperator
  BY <1>2 DEF SearchOperator, Run, Runs
<1>3. CASE EraseOperator
  BY <1>3 DEF EraseOperator, Run, Runs
<1>4. CASE IfOperator
  BY <1>4 DEF IfOperator, Run, Runs
<1>5. CASE VarValueOperator
  BY <1>5 DEF VarValueOperator, Run, Runs
<1>6. CASE PrintOperator
  BY <1>6 DEF PrintOperator, Run, Runs
<1> QED
  BY <1>1, <1>2, <1>3, <1>4, <1>5, <1>6 DEF Next

LEMMA RunsOnlyKnown ==
  ASSUME NEW k, NEW x, NEW y, Runs(k, x, y)
  PROVE  k \in Known
BY DEF Runs, Known, Single, Pairing, Triple, Quint

LEMMA InvStep == ElementInv /\ [Next]_vars => ElementInv'
<1> SUFFICES ASSUME ElementInv, [Next]_vars
             PROVE  ElementInv'
  OBVIOUS
<1>1. CASE Parse
  <2>1. world \in Worlds
    BY <1>1, NotExecuted DEF Parse
  <2>2. PICK j \in {i \in Jobs : "template" \notin DOMAIN i}, values \in ValuesRead(world) :
          kind' = j.kind /\ world' = Parsed(world, j, values) /\ before' = world'
    BY <1>1 DEF Parse
  <2>4. j.kind # "none"
    BY JobsAssumption
  <2>3. /\ Typed(world') /\ world'.out = "run"
        /\ j.kind \in Known => Ready(world') /\ Arity(j.kind, world')
    BY <2>1, <2>2, ParsedReady
  <2> QED
    BY <2>2, <2>3, <2>4 DEF ElementInv, Executed
<1>2. CASE Next /\ ~Parse
  <2>1. world.out = "run" /\ Runs(kind, world, world') /\ kind' = kind /\ before' = before
    BY <1>2, StepRuns
  <2>2. Executed /\ world = before
    BY <2>1, NotYetExecuted
  <2>3. kind \in Known
    BY <2>1, RunsOnlyKnown
  <2>4. Ends(kind, before, world')
    BY <2>1, <2>2, <2>3, RunsEnd DEF Executed
  <2> QED
    BY <2>1, <2>2, <2>3, <2>4 DEF ElementInv, Executed
<1>3. CASE UNCHANGED vars
  BY <1>3 DEF vars, ElementInv, Unparsed, Executed
<1> QED
  BY <1>1, <1>2, <1>3

\* An operator with a template as it is parsed.
LEMMA ParsedTemplate ==
  ASSUME NEW w \in Worlds, NEW values \in ValuesRead(w), NEW j \in Jobs, j.kind \in Templated
  PROVE  TemplateReady(j.kind, WithTemplate(Parsed(w, j, values), j.template))
<1> DEFINE p == Parsed(w, j, values)
           y == WithTemplate(p, j.template)
<1>1. ParsedStep(w, j, p) /\ Typed(p)
  BY WorldsParsable, Parsing
<1> HIDE DEF p
<1>2. /\ DOMAIN y = DOMAIN p \cup {"template", "pairs"}
      /\ y.type = p.type /\ y.ends = p.ends /\ y.fresh = p.fresh /\ y.value = p.value
      /\ y.operand = p.operand /\ y.set = p.set /\ y.out = p.out
      /\ y.template = j.template /\ y.pairs = <<>>
  BY <1>1 DEF WithTemplate, With, Typed, Fields
<1> HIDE DEF y
<1>3. DOMAIN y.pairs = {}
  BY <1>2
<1>4. TemplateFields \subseteq DOMAIN y
  BY <1>1, <1>2 DEF TemplateFields, Typed
<1>5. Exists(y) = Exists(p) /\ Connectors(y) = Connectors(p) /\ Exists(p) = Exists(w)
  BY <1>1, <1>2 DEF Exists, Connectors, ParsedStep, SameElements
<1>6. Typed(y)
  <2>1. IsMemory(y)
    BY <1>1, <1>2, <1>5 DEF Typed, IsMemory, OfType
  <2>2. \A o : IsOperand(p, o) => IsOperand(y, o)
    BY <1>2 DEF IsOperand
  <2> QED
    BY <1>1, <1>2, <1>5, <2>1, <2>2 DEF Typed
<1>7. DOMAIN y.operand = DOMAIN j.operand /\ y.out = "run"
  BY <1>1, <1>2 DEF ParsedStep
<1>8. 2 \in DOMAIN y.operand
  BY <1>7, TemplatesAssumption
<1>9. \A i \in DOMAIN y.operand : Value(y, i) \in Exists(y) \cup {Nothing}
  BY <1>1, <1>2, <1>5 DEF ParsedStep, IsRead, Value
<1>10. /\ IsFiniteSet(j.template.results)
       /\ \A g \in j.template.results :
            /\ IsFiniteSet(DOMAIN g) /\ DOMAIN g \subseteq TemplateVar
            /\ \A v \in DOMAIN g : g[v] \in Exists(w) \/ (j.kind = "sys_gen" /\ g[v] = Nothing)
  BY TemplatesAssumption
<1> QED
  BY <1>2, <1>3, <1>4, <1>5, <1>6, <1>7, <1>8, <1>9, <1>10 DEF TemplateReady, y, p

\* Operators with templates do not meet the others: one operator is parsed and
\* executed.
TemplateExecuted ==
  /\ kind \in Templated
  /\ TemplateReady(kind, before)
  /\ world = before \/ TemplateEnds(kind, before, world)

TemplateInv == (ElementInv /\ kind \notin Templated) \/ TemplateExecuted

LEMMA TemplateInvStep == TemplateInv /\ [TemplateNext]_vars => TemplateInv'
<1> SUFFICES ASSUME TemplateInv, [TemplateNext]_vars
             PROVE  TemplateInv'
  OBVIOUS
<1>1. CASE Next /\ ElementInv /\ kind \notin Templated
  <2>1. ElementInv'
    BY <1>1, InvStep
  <2>2. kind' \notin Templated
    <3>1. CASE Parse
      BY <3>1, JobsAssumption DEF Parse
    <3>2. CASE ~Parse
      BY <1>1, <3>2, StepRuns
    <3> QED
      BY <3>1, <3>2
  <2> QED
    BY <2>1, <2>2 DEF TemplateInv
<1>2. CASE Next /\ TemplateExecuted
  <2>1. kind \notin Known /\ kind # "none"
    BY <1>2 DEF TemplateExecuted, Templated, Known, Single, Pairing, Triple, Quint
  <2> QED
    BY <1>2, <2>1, StepRuns, RunsOnlyKnown DEF Parse
<1>3. CASE ParseTemplate
  <2>1. world \in Worlds
    BY <1>3, NotExecuted DEF ParseTemplate, TemplateInv, TemplateExecuted, Templated
  <2>2. PICK j \in {i \in Jobs : "template" \in DOMAIN i}, values \in ValuesRead(world) :
          /\ kind' = j.kind /\ before' = world'
          /\ world' = WithTemplate(Parsed(world, j, values), j.template)
    BY <1>3 DEF ParseTemplate
  <2>3. j.kind \in Templated
    BY JobsAssumption
  <2>4. TemplateReady(kind', world')
    BY <2>1, <2>2, <2>3, ParsedTemplate
  <2> QED
    BY <2>2, <2>3, <2>4 DEF TemplateInv, TemplateExecuted
<1>4. CASE TemplateOperator
  <2>1. /\ kind' = kind /\ before' = before /\ world.out = "run" /\ kind \in Templated
        /\ \/ kind = "sys_gen" /\ world' \in SysGen(world)
           \/ kind = "sys_search" /\ world' \in SysSearch(world)
    BY <1>4 DEF TemplateOperator, Run, Templated
  <2>2. TemplateReady(kind, before) /\ world = before
    BY <2>1 DEF TemplateInv, TemplateExecuted, TemplateEnds, Outcome
  <2>3. TemplateEnds(kind, before, world')
    BY <2>1, <2>2, SysGenGenerates, SysSearchFinds
  <2> QED
    BY <2>1, <2>2, <2>3 DEF TemplateInv, TemplateExecuted
<1>5. CASE UNCHANGED vars
  <2>1. ElementInv => ElementInv'
    BY <1>5, InvStep
  <2> QED
    BY <1>5, <2>1 DEF vars, TemplateInv, TemplateExecuted
<1> QED
  BY <1>1, <1>2, <1>3, <1>4, <1>5 DEF TemplateInv, TemplateNext

LEMMA TemplateInvariant == TemplateSpec => []TemplateInv
<1>1. Init => TemplateInv
  BY InvInit DEF Init, TemplateInv, Templated
<1> QED
  BY <1>1, TemplateInvStep, PTL DEF TemplateSpec

\* What has changed nothing and not succeeded has done what it is for.
LEMMA NothingDone ==
  ASSUME NEW x, NEW y, NEW k, Typed(x), SameMemory(x, y), y.out \notin {"success", "unsuccess"}
  PROVE  /\ Made(x, y, k) /\ Searched(x, y) /\ CollectedAll(x, y, k)
         /\ ErasedOne(x, y) /\ ErasedAll(x, y) /\ Copied(x, y)
<1>1. Kept(x, y)
  BY SameKept
<1> QED
  BY <1>1, AllIsMade, SearchedIs, CollectedIs DEF ErasedOne, ErasedAll, Copied

LEMMA DoneOrNothing ==
  ASSUME Executed
  PROVE  \/ SameMemory(before, world) /\ world.out \notin {"success", "unsuccess"}
         \/ Does(kind, before, world)
<1>1. CASE world = before
  BY <1>1 DEF Executed, SameMemory
<1>2. CASE Rejected(before, world)
  BY <1>2, ErrorRejects DEF Executed, RejectedOnly
<1> QED
  BY <1>1, <1>2 DEF Executed, Ends

LEMMA ExecutedDoes ==
  ASSUME Executed
  PROVE  /\ kind \in Generates                        => Made(before, world, kind)
         /\ kind \in {"searchElStr3", "searchElStr5"}   => Searched(before, world)
         /\ kind \in {"searchSetStr3", "searchSetStr5"} => CollectedAll(before, world, kind)
         /\ kind \in {"eraseElStr3", "eraseElStr5"}     => ErasedOne(before, world)
         /\ kind \in {"eraseSetStr3", "eraseSetStr5"}   => ErasedAll(before, world)
         /\ kind = "varAssign"                        => Copied(before, world)
<1>1. Typed(before)
  BY DEF Executed
<1> QED
  BY <1>1, DoneOrNothing, NothingDone DEF Does

-----------------------------------------------------------------------------
LEMMA TypedOK ==
  ASSUME Typed(world), world.out \in Outcome \cup {"none", "run"}
  PROVE  TypeOK
<1>1. Range(world.operand) \cup Range(world.set) \subseteq Operands(1 .. world.fresh - 1)
  BY DEF Typed, IsOperand, Range
<1> QED
  BY <1>1 DEF TypeOK, Typed

\* The memory is a memory at every step, values of variables are elements that
\* exist and operands are of their types: whatever an operator finds, and
\* whether it succeeds, fails, is rejected or throws half-way (Execute of every
\* element operator, sys_gen and sys_search among them).
THEOREM WorldsTyped == TemplateSpec => []TypeOK
<1>1. TemplateInv => TypeOK
  <2>1. CASE Unparsed
    <3>1. world.operand = <<>> /\ world.set = <<>> /\ world.out = "none" /\ IsMemory(world)
          /\ world.value \in [Variable -> SUBSET Exists(world)]
      BY <2>1, WorldsAssumption DEF Unparsed
    <3>2. Range(world.operand) = {} /\ Range(world.set) = {}
      BY <3>1 DEF Range
    <3> QED
      BY <3>1, <3>2 DEF TypeOK
  <2>2. CASE Executed
    <3>1. Typed(world) /\ world.out \in Outcome \cup {"none", "run"}
      <4>1. CASE world = before
        BY <2>2, <4>1 DEF Executed
      <4>2. CASE Rejected(before, world)
        BY <2>2, <4>2, ErrorRejects DEF Executed, Outcome
      <4>3. CASE Proper(world)
        BY <4>3 DEF Proper, Outcome
      <4> QED
        BY <2>2, <4>1, <4>2, <4>3 DEF Executed, Ends
    <3> QED
      BY <3>1, TypedOK
  <2>3. CASE TemplateExecuted
    <3>1. Typed(world) /\ world.out \in Outcome \cup {"none", "run"}
      BY <2>3 DEF TemplateExecuted, TemplateReady, TemplateEnds
    <3> QED
      BY <3>1, TypedOK
  <2> QED
    BY <2>1, <2>2, <2>3 DEF TemplateInv, ElementInv
<1> QED
  BY <1>1, TemplateInvariant, PTL

\* searchElStr3 and searchElStr5 give the variables to be assigned the elements
\* of one construction that was there, fail only when there was none, and
\* change no memory.
THEOREM SearchCorrect == TemplateSpec => []SearchOutcome
<1>1. TemplateInv => SearchOutcome
  BY ExecutedDoes DEF TemplateInv, TemplateExecuted, Templated, ElementInv, Unparsed, SearchOutcome
<1> QED
  BY <1>1, TemplateInvariant, PTL

\* searchSetStr3 and searchSetStr5 put into each set that place of every
\* construction there was, once for each, also when two operands form the same
\* set, and change nothing else.
THEOREM CollectCorrect == TemplateSpec => []CollectOutcome
<1>1. TemplateInv => CollectOutcome
  BY ExecutedDoes DEF TemplateInv, TemplateExecuted, Templated, ElementInv, Unparsed, CollectOutcome
<1> QED
  BY <1>1, TemplateInvariant, PTL

\* eraseElStr3 and eraseElStr5 erase the marked elements of one construction
\* with what hangs on them, though the code erases only some of them itself.
THEOREM EraseCorrect == TemplateSpec => []EraseOutcome
<1>1. TemplateInv => EraseOutcome
  BY ExecutedDoes DEF TemplateInv, TemplateExecuted, Templated, ElementInv, Unparsed, EraseOutcome
<1> QED
  BY <1>1, TemplateInvariant, PTL

\* eraseSetStr3 and eraseSetStr5 leave no construction whole, in whichever order
\* the iterator yields them, and erase nothing but marked elements and what hangs
\* on them.
THEOREM EraseSetCorrect == TemplateSpec => []EraseSetOutcome
<1>1. TemplateInv => EraseSetOutcome
  BY ExecutedDoes DEF TemplateInv, TemplateExecuted, Templated, ElementInv, Unparsed, EraseSetOutcome
<1> QED
  BY <1>1, TemplateInvariant, PTL

\* genEl, genElStr3 and genElStr5 make an element for each operand to be
\* assigned, of its type and connected as a search would find it, and touch
\* nothing else.
THEOREM GenCorrect == TemplateSpec => []GenOutcome
<1>1. TemplateInv => GenOutcome
  BY ExecutedDoes DEF TemplateInv, TemplateExecuted, Templated, ElementInv, Unparsed, GenOutcome, Generates
<1> QED
  BY <1>1, TemplateInvariant, PTL

\* An operator that ends in error has changed no element and emptied the
\* variables before the first constant that stands for one.
THEOREM RejectCorrect == TemplateSpec => []RejectOutcome
<1>1. TemplateInv => RejectOutcome
  <2> SUFFICES ASSUME TemplateInv, world.out = "error", kind \notin Templated
               PROVE  RejectedOnly(before, world)
    BY DEF RejectOutcome
  <2>1. Executed
    BY WorldsAssumption DEF TemplateInv, TemplateExecuted, ElementInv, Unparsed
  <2>2. Rejected(before, world)
    BY <2>1 DEF Executed, Ends, Proper
  <2> QED
    BY <2>1, <2>2, ErrorRejects DEF Executed
<1> QED
  BY <1>1, TemplateInvariant, PTL

\* varAssign leaves its variable with the one value that was read, also when it
\* is assigned from itself; operators that ask or print change no variable.
THEOREM VariableCorrect == TemplateSpec => []VariableOutcome
<1>1. TemplateInv => VariableOutcome
  <2> SUFFICES ASSUME Executed
               PROVE  VariableOutcome
    BY DEF TemplateInv, TemplateExecuted, Templated, ElementInv, Unparsed, VariableOutcome
  <2>1. ASSUME kind = "varAssign", world.out = "success"
        PROVE  SameMemory(before, world) /\ Values(before, world, LAMBDA i : Value(before, 2))
    <3>1. /\ SameMemory(before, world)
          /\ \A v \in Variable :
               world.value[v] = IF AssignedTo(before, v) = {} THEN before.value[v]
                                ELSE {Value(before, 2) : i \in AssignedTo(before, v)} \ {Nothing}
      BY <2>1, ExecutedDoes DEF Copied
    <3> QED
      BY <3>1 DEF Values
  <2>2. ASSUME kind \in Asks
        PROVE  SameMemory(before, world) /\ (world.out # "error" => world.value = before.value)
    <3>1. CASE world = before
      BY <3>1 DEF SameMemory
    <3>2. CASE Rejected(before, world)
      BY <3>2, ErrorRejects DEF Executed, RejectedOnly
    <3>3. CASE Does(kind, before, world)
      BY <2>2, <3>3 DEF Does
    <3> QED
      BY <3>1, <3>2, <3>3 DEF Executed, Ends
  <2> QED
    BY <2>1, <2>2 DEF VariableOutcome, Asks
<1> QED
  BY <1>1, TemplateInvariant, PTL

\* sys_gen and sys_search: a rejected template changes nothing; otherwise the
\* operands to be assigned are given new sets, a search makes for each variable
\* one set of just what all results say of it, a generation adds to the set of
\* operand 4 as many new elements as variables no parameter replaced, and
\* nothing is put into one set twice.
THEOREM TemplatesCorrect == TemplateSpec => []TemplateOutcome
<1>1. TemplateInv => TemplateOutcome
  <2> SUFFICES ASSUME TemplateExecuted
               PROVE  ByTemplate(kind, before, world)
    BY DEF TemplateInv, TemplateOutcome
  <2>1. CASE world = before
    <3>1. before.out = "run" /\ Kept(before, before)
      BY SameKept DEF TemplateExecuted, TemplateReady, SameMemory
    <3> QED
      BY <2>1, <3>1 DEF ByTemplate
  <2> QED
    BY <2>1 DEF TemplateExecuted, TemplateEnds
<1> QED
  BY <1>1, TemplateInvariant, PTL
============================================================================
