----------------------- MODULE ElementSteps_proofs -----------------------
(***************************************************************************)
(* What one execution of an element operator does to the world, for every  *)
(* memory and every operand: the steps executions are made of (resetting   *)
(* operands, giving a value, making nodes and connectors, erasing with     *)
(* what hangs on it), and from them each operator but the two collecting   *)
(* searches, which module ElementOperators_proofs is about.                *)
(***************************************************************************)
EXTENDS ElementOperators, FiniteSetTheorems, TLAPS

-----------------------------------------------------------------------------
\* A world that an operator has been parsed in, whole or half-way.
Fields == {"type", "ends", "fresh", "value", "operand", "set", "out"}

IsOperand(x, o) ==
  /\ o \in Operands(1 .. x.fresh - 1)
  /\ ~o.const => o.addr \in Variable
  /\ ~({"arc", "node"} \subseteq o.type)

Typed(x) ==
  /\ Fields \subseteq DOMAIN x
  /\ IsMemory(x)
  /\ x.value \in [Variable -> SUBSET Exists(x)]
  /\ DOMAIN x.operand \subseteq 1 .. 5
  /\ \A i \in DOMAIN x.operand : IsOperand(x, x.operand[i])
  /\ \A i \in DOMAIN x.set : IsOperand(x, x.set[i])

\* What an operator leaves alone of its operands.
SameOperands(x, y) ==
  /\ DOMAIN y.operand = DOMAIN x.operand
  /\ \A i \in DOMAIN x.operand :
       /\ y.operand[i].addr = x.operand[i].addr /\ y.operand[i].const = x.operand[i].const
       /\ y.operand[i].fixed = x.operand[i].fixed /\ y.operand[i].type = x.operand[i].type
       /\ y.operand[i].erase = x.operand[i].erase

SameElements(x, y) == y.type = x.type /\ y.ends = x.ends /\ y.fresh = x.fresh

LEMMA Finishing ==
  ASSUME NEW x, NEW o, Fields \subseteq DOMAIN x
  PROVE  /\ DOMAIN Finish(x, o) = DOMAIN x
         /\ Finish(x, o).out = o
         /\ SameElements(x, Finish(x, o))
         /\ Finish(x, o).value = x.value
         /\ Finish(x, o).operand = x.operand
         /\ Finish(x, o).set = x.set
BY DEF Finish, Fields, SameElements

LEMMA FinishTyped ==
  ASSUME NEW x, NEW o, Typed(x)
  PROVE  Typed(Finish(x, o))
<1>1. Fields \subseteq DOMAIN x
  BY DEF Typed
<1> QED
  BY <1>1, Finishing DEF Typed, SameElements, IsMemory, Exists, Connectors, Source, Target, IsOperand, OfType

\* The operands that are reset.
Reset(x) == {i \in Assigned(x) : \A c \in {j \in Assigned(x) : x.operand[j].const} : i < c}

\* What each step does, field by field.
ResetStep(x, r) ==
  /\ DOMAIN r = DOMAIN x
  /\ SameElements(x, r)
  /\ r.set = x.set
  /\ r.out = IF {i \in Assigned(x) : x.operand[i].const} = {} THEN x.out ELSE "error"
  /\ r.value = [v \in Variable |->
                  IF \E i \in Reset(x) : x.operand[i].addr = v THEN {} ELSE x.value[v]]
  /\ r.operand = [i \in DOMAIN x.operand |->
                    IF i \in Reset(x) THEN [x.operand[i] EXCEPT !.value = Nothing] ELSE x.operand[i]]

NodeStep(x, t, y) ==
  /\ DOMAIN y = DOMAIN x
  /\ y.type = [e \in Exists(x) \cup {x.fresh} |-> IF e = x.fresh THEN t ELSE x.type[e]]
  /\ y.ends = x.ends /\ y.fresh = x.fresh + 1
  /\ y.value = x.value /\ y.operand = x.operand /\ y.set = x.set /\ y.out = x.out

ConnectorStep(x, t, s, u, y) ==
  /\ DOMAIN y = DOMAIN x
  /\ y.type = [e \in Exists(x) \cup {x.fresh} |-> IF e = x.fresh THEN t ELSE x.type[e]]
  /\ y.ends = [e \in Connectors(x) \cup {x.fresh} |-> IF e = x.fresh THEN <<s, u>> ELSE x.ends[e]]
  /\ y.fresh = x.fresh + 1
  /\ y.value = x.value /\ y.operand = x.operand /\ y.set = x.set /\ y.out = x.out

ValueStep(x, i, e, y) ==
  /\ DOMAIN y = DOMAIN x
  /\ SameElements(x, y)
  /\ y.set = x.set /\ y.out = x.out
  /\ y.operand = [x.operand EXCEPT ![i].value = e]
  /\ y.value = [x.value EXCEPT ![x.operand[i].addr] = @ \cup {e}]

EraseStep(x, gone, y) ==
  /\ DOMAIN y = DOMAIN x
  /\ y.type = [e \in Exists(x) \ gone |-> x.type[e]]
  /\ y.ends = [a \in Connectors(x) \ gone |-> x.ends[a]]
  /\ y.fresh = x.fresh
  /\ y.value = [v \in Variable |-> x.value[v] \ gone]
  /\ y.operand = x.operand /\ y.set = x.set /\ y.out = x.out

LEMMA Resetting ==
  ASSUME NEW x, Fields \subseteq DOMAIN x
  PROVE  ResetStep(x, ResetValues(x))
BY DEF ResetValues, Fields, SameElements, Reset, ResetStep

LEMMA NodeGenerated ==
  ASSUME NEW x, NEW t, Fields \subseteq DOMAIN x
  PROVE  NodeStep(x, t, GenerateNode(x, t))
BY DEF GenerateNode, Fields, With, Exists, NodeStep

LEMMA ConnectorGenerated ==
  ASSUME NEW x, NEW t, NEW s, NEW u, Fields \subseteq DOMAIN x
  PROVE  ConnectorStep(x, t, s, u, GenerateConnector(x, t, s, u))
BY DEF GenerateConnector, Fields, With, Exists, Connectors, ConnectorStep

LEMMA ValueAdded ==
  ASSUME NEW x, NEW i, NEW e, Fields \subseteq DOMAIN x
  PROVE  ValueStep(x, i, e, AddValue(x, i, e))
<1> DEFINE y == AddValue(x, i, e)
<1>1. DOMAIN y = DOMAIN x /\ SameElements(x, y) /\ y.set = x.set /\ y.out = x.out
  BY DEF AddValue, Fields, SameElements
<1>2. y.operand = [x.operand EXCEPT ![i].value = e]
  BY DEF AddValue, Fields
<1>3. y.value = [x.value EXCEPT ![x.operand[i].addr] = @ \cup {e}]
  BY DEF AddValue, Fields
<1> QED
  BY <1>1, <1>2, <1>3 DEF ValueStep

LEMMA ElementErased ==
  ASSUME NEW x, NEW S, Fields \subseteq DOMAIN x
  PROVE  EraseStep(x, Cascade(x, S), Erase(x, S))
<1> DEFINE gone == Cascade(x, S)
           w    == Without(x, gone)
<1>1. /\ DOMAIN w = DOMAIN x
      /\ w.type = [e \in Exists(x) \ gone |-> x.type[e]]
      /\ w.ends = [a \in Connectors(x) \ gone |-> x.ends[a]]
      /\ w.fresh = x.fresh /\ w.value = x.value
      /\ w.operand = x.operand /\ w.set = x.set /\ w.out = x.out
  <2> HIDE DEF gone
  <2> QED
    BY DEF Without, Restrict, Fields, Exists, Connectors
<1>2. Erase(x, S) = [w EXCEPT !.value = [v \in Variable |-> w.value[v] \ gone]]
  BY DEF Erase
<1> QED
  <2> HIDE DEF w, gone
  <2>1. /\ DOMAIN Erase(x, S) = DOMAIN x
        /\ Erase(x, S).type = w.type /\ Erase(x, S).ends = w.ends /\ Erase(x, S).fresh = w.fresh
        /\ Erase(x, S).value = [v \in Variable |-> w.value[v] \ gone]
        /\ Erase(x, S).operand = w.operand /\ Erase(x, S).set = w.set /\ Erase(x, S).out = w.out
    BY <1>1, <1>2 DEF Fields
  <2> QED
    BY <1>1, <2>1 DEF gone, EraseStep

-----------------------------------------------------------------------------
\* What hangs on a set of elements.
Closed(m, S, K) ==
  \A b \in Connectors(m) : Source(m, b) \in S \cup K \/ Target(m, b) \in S \cup K => b \in K

LEMMA HangsIsClosed ==
  ASSUME NEW m, NEW S
  PROVE  /\ Hangs(m, S) \subseteq Connectors(m)
         /\ Closed(m, S, Hangs(m, S))
BY DEF Hangs, Closed

LEMMA HangsIsLeast ==
  ASSUME NEW m, NEW S, NEW K \in SUBSET Connectors(m), Closed(m, S, K)
  PROVE  Hangs(m, S) \subseteq K
BY DEF Hangs, Closed

LEMMA HangsNoMore ==
  ASSUME NEW m, NEW S, NEW T, T \subseteq S \cup Hangs(m, S)
  PROVE  Hangs(m, T) \subseteq Hangs(m, S)
<1>1. Closed(m, T, Hangs(m, S))
  BY HangsIsClosed DEF Closed
<1> QED
  BY <1>1, HangsIsClosed, HangsIsLeast

LEMMA HangsOnNothing ==
  ASSUME NEW m
  PROVE  Hangs(m, {}) = {}
BY HangsIsLeast DEF Closed

LEMMA HangsOnUnion ==
  ASSUME NEW m, NEW F
  PROVE  Hangs(m, UNION F) = UNION {Hangs(m, S) : S \in F}
<1> DEFINE all == UNION {Hangs(m, S) : S \in F}
<1>1. ASSUME NEW S \in F
      PROVE  Hangs(m, S) \subseteq Hangs(m, UNION F)
  BY HangsNoMore
<1>2. all \in SUBSET Connectors(m)
  BY HangsIsClosed
<1>3. Closed(m, UNION F, all)
  <2> HIDE DEF all
  <2> SUFFICES ASSUME NEW b \in Connectors(m), NEW e \in {Source(m, b), Target(m, b)},
                      e \in UNION F \/ e \in all
               PROVE  b \in all
    BY DEF Closed
  <2>2. \E S \in F : e \in S \cup Hangs(m, S)
    <3>1. CASE e \in UNION F
      BY <3>1
    <3>2. CASE e \in all
      BY <3>2 DEF all
    <3> QED
      BY <3>1, <3>2
  <2>3. PICK S \in F : e \in S \cup Hangs(m, S)
    BY <2>2
  <2>4. b \in Hangs(m, S)
    BY <2>3, HangsIsClosed DEF Closed
  <2> QED
    BY <2>4 DEF all
<1>4. Hangs(m, UNION F) \subseteq all
  BY <1>2, <1>3, HangsIsLeast
<1> QED
  BY <1>1, <1>4

\* Erasing more of what goes anyway makes no difference.
LEMMA CascadeSame ==
  ASSUME NEW m, NEW S, NEW T, S \subseteq T, T \cap Exists(m) \subseteq S \cup Hangs(m, S),
         T \subseteq Exists(m), Connectors(m) \subseteq Exists(m)
  PROVE  Cascade(m, T) = Cascade(m, S)
<1>1. T \subseteq S \cup Hangs(m, S) /\ S \subseteq T \cup Hangs(m, T)
  OBVIOUS
<1>2. Hangs(m, T) = Hangs(m, S)
  BY <1>1, HangsNoMore
<1> QED
  BY <1>1, <1>2 DEF Cascade

-----------------------------------------------------------------------------
\* Each step of an operator leaves a world as the next one expects it.
LEMMA OperandKept ==
  ASSUME NEW x, NEW y, NEW o, IsOperand(x, o), x.fresh \in Nat, y.fresh \in Nat, x.fresh <= y.fresh
  PROVE  IsOperand(y, o)
BY DEF IsOperand, Operands, Nothing

LEMMA ResetTyped ==
  ASSUME NEW x, Typed(x)
  PROVE  /\ Typed(ResetValues(x))
         /\ SameOperands(x, ResetValues(x))
<1> DEFINE r == ResetValues(x)
<1>1. Fields \subseteq DOMAIN x
  BY DEF Typed
<1>2. \A i \in DOMAIN x.operand : IsOperand(x, x.operand[i]) /\ IsOperand(x, [x.operand[i] EXCEPT !.value = Nothing])
  BY DEF Typed, IsOperand, Operands
<1> HIDE DEF r
<1>3. ResetStep(x, r)
  BY <1>1, Resetting DEF r
<1>4. IsMemory(r) /\ Fields \subseteq DOMAIN r
  BY <1>3 DEF ResetStep, Typed, IsMemory, SameElements, Exists, Connectors, Source, Target, OfType
<1>5. r.value \in [Variable -> SUBSET Exists(r)]
  BY <1>3 DEF ResetStep, Typed, SameElements, Exists
<1>6. DOMAIN r.operand \subseteq 1 .. 5 /\ \A i \in DOMAIN r.operand : IsOperand(r, r.operand[i])
  <2>1. r.fresh = x.fresh /\ DOMAIN r.operand = DOMAIN x.operand
    BY <1>3 DEF ResetStep, SameElements
  <2>2. \A i \in DOMAIN r.operand : IsOperand(x, r.operand[i])
    BY <1>2, <1>3 DEF ResetStep
  <2> QED
    BY <2>1, <2>2 DEF IsOperand, Typed
<1>7. \A i \in DOMAIN r.set : IsOperand(r, r.set[i])
  BY <1>3 DEF ResetStep, Typed, IsOperand, SameElements
<1>8. SameOperands(x, r)
  BY <1>2, <1>3 DEF ResetStep, SameOperands, IsOperand, Operands
<1> QED
  BY <1>4, <1>5, <1>6, <1>7, <1>8 DEF Typed, r

LEMMA NodeTyped ==
  ASSUME NEW x, NEW t \in SUBSET Flag, "arc" \notin t, Typed(x)
  PROVE  Typed(GenerateNode(x, t))
<1> DEFINE y == GenerateNode(x, t)
<1>1. Fields \subseteq DOMAIN x
  BY DEF Typed
<1>2. NodeStep(x, t, y)
  BY <1>1, NodeGenerated
<1> HIDE DEF y
<1>3. x.fresh \in Nat /\ y.fresh \in Nat /\ x.fresh <= y.fresh
  BY <1>2 DEF NodeStep, Typed, IsMemory
<1>4. IsMemory(y) /\ Exists(x) \subseteq Exists(y)
  BY <1>2 DEF NodeStep, Typed, IsMemory, Exists, Connectors, Source, Target, OfType, Nothing
<1> QED
  BY <1>2, <1>3, <1>4, OperandKept DEF NodeStep, Typed, y

LEMMA ConnectorTyped ==
  ASSUME NEW x, NEW t \in SUBSET Flag, "arc" \in t, NEW s \in Exists(x), NEW u \in Exists(x), Typed(x)
  PROVE  Typed(GenerateConnector(x, t, s, u))
<1> DEFINE y == GenerateConnector(x, t, s, u)
<1>1. Fields \subseteq DOMAIN x
  BY DEF Typed
<1>2. ConnectorStep(x, t, s, u, y)
  BY <1>1, ConnectorGenerated
<1> HIDE DEF y
<1>3. x.fresh \in Nat /\ y.fresh \in Nat /\ x.fresh <= y.fresh
  BY <1>2 DEF ConnectorStep, Typed, IsMemory
<1>4. IsMemory(y) /\ Exists(x) \subseteq Exists(y)
  BY <1>2 DEF ConnectorStep, Typed, IsMemory, Exists, Connectors, Source, Target, OfType, Nothing
<1> QED
  BY <1>2, <1>3, <1>4, OperandKept DEF ConnectorStep, Typed, y

LEMMA ValueTyped ==
  ASSUME NEW x, NEW i \in DOMAIN x.operand, NEW e \in Exists(x), Typed(x)
  PROVE  /\ Typed(AddValue(x, i, e))
         /\ SameOperands(x, AddValue(x, i, e))
<1> DEFINE y == AddValue(x, i, e)
<1>1. Fields \subseteq DOMAIN x
  BY DEF Typed
<1>2. ValueStep(x, i, e, y)
  BY <1>1, ValueAdded
<1>3. e \in 1 .. x.fresh - 1
  BY DEF Typed, IsMemory
<1>4. IsOperand(x, [x.operand[i] EXCEPT !.value = e])
  BY <1>3 DEF Typed, IsOperand, Operands
<1> HIDE DEF y
<1>5. IsMemory(y) /\ Exists(y) = Exists(x)
  BY <1>2 DEF ValueStep, Typed, IsMemory, SameElements, Exists, Connectors, Source, Target, OfType
<1>6. y.value \in [Variable -> SUBSET Exists(y)]
  <2> DEFINE a == x.operand[i].addr
  <2>1. y.value = [x.value EXCEPT ![a] = @ \cup {e}]
    BY <1>2 DEF ValueStep
  <2>2. x.value \in [Variable -> SUBSET Exists(y)] /\ e \in Exists(y)
    BY <1>5 DEF Typed
  <2> HIDE DEF a
  <2> QED
    BY <2>1, <2>2
<1>7. \A j \in DOMAIN y.operand : IsOperand(x, y.operand[j])
  BY <1>2, <1>4 DEF ValueStep, Typed
<1>8. SameOperands(x, y)
  BY <1>2, <1>4 DEF ValueStep, SameOperands, Typed, IsOperand, Operands
<1> QED
  BY <1>2, <1>5, <1>6, <1>7, <1>8 DEF ValueStep, Typed, IsOperand, SameElements, y

LEMMA EraseTyped ==
  ASSUME NEW x, NEW S, Typed(x)
  PROVE  Typed(Erase(x, S))
<1> DEFINE y == Erase(x, S)
           gone == Cascade(x, S)
<1>1. Fields \subseteq DOMAIN x
  BY DEF Typed
<1>2. EraseStep(x, gone, y)
  BY <1>1, ElementErased
<1>3. \A a \in Connectors(x) : {Source(x, a), Target(x, a)} \cap gone # {} => a \in gone
  BY HangsIsClosed DEF Cascade, Closed, Typed, IsMemory
<1> HIDE DEF y, gone
<1>4. IsMemory(y) /\ Exists(y) = Exists(x) \ gone
  BY <1>2, <1>3 DEF EraseStep, Typed, IsMemory, Exists, Connectors, Source, Target, OfType
<1> QED
  BY <1>2, <1>4 DEF EraseStep, Typed, IsOperand, y

-----------------------------------------------------------------------------
\* Of a step that adds elements: an exception leaves what was there.
Adds(x, y) ==
  /\ Typed(y)
  /\ SameOperands(x, y)
  /\ y.set = x.set
  /\ y.out \in {"run", "thrown"}
  /\ Kept(x, y)

\* A new element is made for operand i.
MadeFor(x, i, y) ==
  /\ y.fresh = x.fresh + 1
  /\ y.type = [e \in Exists(x) \cup {x.fresh} |-> IF e = x.fresh THEN Want(x, i) ELSE x.type[e]]
  /\ y.operand = [x.operand EXCEPT ![i].value = x.fresh]

\* It becomes a value of the operand's variable at once.
Becomes(x, i, y) ==
  /\ MadeFor(x, i, y)
  /\ y.value = [x.value EXCEPT ![x.operand[i].addr] = @ \cup {x.fresh}]

LEMMA WantedFlags ==
  ASSUME NEW x, NEW i \in DOMAIN x.operand, Typed(x)
  PROVE  Want(x, i) \in SUBSET Flag /\ (IsNode(Want(x, i)) => "arc" \notin Want(x, i))
BY DEF Typed, IsOperand, Operands, Want, IsNode

LEMMA FreshIsNew ==
  ASSUME NEW x, Typed(x)
  PROVE  x.fresh \notin Exists(x) /\ x.fresh \notin Connectors(x)
BY DEF Typed, IsMemory, OfType

LEMMA OperandsSame ==
  ASSUME NEW x, NEW y, y.operand = x.operand
  PROVE  SameOperands(x, y)
BY DEF SameOperands

LEMMA AddsTwice ==
  ASSUME NEW x, NEW y, NEW z, Typed(x), Adds(x, y), Adds(y, z)
  PROVE  Adds(x, z)
<1>1. SameOperands(x, z)
  BY DEF Adds, SameOperands
<1>2. Exists(x) \subseteq Exists(y) /\ Exists(y) \subseteq Exists(z) /\ Connectors(x) \subseteq Connectors(y)
  BY DEF Adds, Kept, Restrict, Connectors, Exists, Typed, IsMemory
<1>3. Kept(x, z)
  BY <1>2 DEF Adds, Kept, Restrict, Typed, IsMemory
<1> QED
  BY <1>1, <1>3 DEF Adds

LEMMA NothingAdded ==
  ASSUME NEW x, Typed(x), x.out \in {"run", "thrown"}
  PROVE  Adds(x, x)
<1>1. Kept(x, x)
  BY DEF Kept, Restrict, Typed, IsMemory
<1> QED
  BY <1>1 DEF Adds, SameOperands

LEMMA ExceptionAdds ==
  ASSUME NEW x, Typed(x)
  PROVE  Adds(x, Finish(x, "thrown"))
<1> DEFINE y == Finish(x, "thrown")
<1>1. y.out = "thrown" /\ y.type = x.type /\ y.ends = x.ends /\ y.operand = x.operand /\ y.set = x.set
  BY Finishing DEF Typed, SameElements
<1>2. Typed(y)
  BY FinishTyped
<1> HIDE DEF y
<1>3. Kept(x, y)
  BY <1>1 DEF Kept, Restrict, Typed, IsMemory, Exists, Connectors
<1> QED
  BY <1>1, <1>2, <1>3 DEF Adds, SameOperands, y

LEMMA NodeAdds ==
  ASSUME NEW x, NEW t \in SUBSET Flag, "arc" \notin t, Typed(x), x.out = "run"
  PROVE  Adds(x, GenerateNode(x, t))
<1> DEFINE y == GenerateNode(x, t)
<1>1. NodeStep(x, t, y) /\ Typed(y)
  BY NodeGenerated, NodeTyped DEF Typed
<1> HIDE DEF y
<1>2. Kept(x, y)
  <2>1. Exists(x) \subseteq Exists(y)
    BY <1>1 DEF NodeStep, Exists
  <2>2. \A e \in Exists(x) : y.type[e] = x.type[e]
    BY <1>1, FreshIsNew DEF NodeStep
  <2>3. x.type = [e \in Exists(x) |-> x.type[e]] /\ x.ends = [a \in Connectors(x) |-> x.ends[a]]
    BY DEF Typed, IsMemory, Exists, Connectors
  <2>4. y.ends = x.ends
    BY <1>1 DEF NodeStep
  <2>5. Restrict(y.type, Exists(x)) = x.type
    BY <2>2, <2>3 DEF Restrict
  <2>6. Restrict(y.ends, Connectors(x)) = x.ends /\ Connectors(y) = Connectors(x)
    BY <2>3, <2>4 DEF Restrict, Connectors
  <2> QED
    BY <2>1, <2>5, <2>6 DEF Kept
<1> QED
  BY <1>1, <1>2 DEF Adds, SameOperands, NodeStep, y

LEMMA ConnectorAdds ==
  ASSUME NEW x, NEW t \in SUBSET Flag, "arc" \in t, NEW s \in Exists(x), NEW u \in Exists(x), Typed(x), x.out = "run"
  PROVE  Adds(x, GenerateConnector(x, t, s, u))
<1> DEFINE y == GenerateConnector(x, t, s, u)
<1>1. ConnectorStep(x, t, s, u, y) /\ Typed(y)
  BY ConnectorGenerated, ConnectorTyped DEF Typed
<1> HIDE DEF y
<1>2. Restrict(y.type, Exists(x)) = x.type
  BY <1>1, FreshIsNew DEF ConnectorStep, Restrict, Typed, IsMemory, Exists
<1>3. Restrict(y.ends, Connectors(x)) = x.ends
  BY <1>1, FreshIsNew DEF ConnectorStep, Restrict, Typed, IsMemory, Connectors
<1>4. Kept(x, y)
  BY <1>1, <1>2, <1>3 DEF ConnectorStep, Kept, Exists, Connectors
<1> QED
  BY <1>1, <1>4 DEF Adds, SameOperands, ConnectorStep, y

LEMMA ValueAdds ==
  ASSUME NEW x, NEW i \in DOMAIN x.operand, NEW e \in Exists(x), Typed(x), x.out = "run"
  PROVE  Adds(x, SetValue(x, i, e)) /\ ValueStep(x, i, e, SetValue(x, i, e))
<1> DEFINE y == AddValue(x, i, e)
<1>1. ValueStep(x, i, e, y) /\ Typed(y) /\ SameOperands(x, y)
  BY ValueAdded, ValueTyped DEF Typed
<1>2. e # Nothing
  BY DEF Typed, IsMemory, Nothing
<1>3. SetValue(x, i, e) = y
  BY <1>2 DEF SetValue
<1> HIDE DEF y
<1>4. Kept(x, y)
  BY <1>1 DEF ValueStep, SameElements, Kept, Restrict, Typed, IsMemory, Exists, Connectors
<1>5. y.out = "run" /\ y.set = x.set
  BY <1>1 DEF ValueStep
<1> QED
  BY <1>1, <1>3, <1>4, <1>5 DEF Adds

LEMMA CreateStep ==
  ASSUME NEW x, NEW i \in DOMAIN x.operand, Typed(x), x.out = "run"
  PROVE  LET y == CreateNodeOrLink(x, i)
         IN  /\ Adds(x, y)
             /\ y.out = "run" => Becomes(x, i, y) /\ y.ends = x.ends
<1>1. CASE ~IsNode(Want(x, i))
  <2>1. CreateNodeOrLink(x, i) = Finish(x, "thrown")
    BY <1>1 DEF CreateNodeOrLink
  <2>2. Finish(x, "thrown").out = "thrown"
    BY Finishing DEF Typed
  <2> QED
    BY <2>1, <2>2, ExceptionAdds
<1>2. CASE IsNode(Want(x, i))
  <2> DEFINE n == GenerateNode(x, Want(x, i))
             y == SetValue(n, i, x.fresh)
  <2>1. CreateNodeOrLink(x, i) = y
    BY <1>2 DEF CreateNodeOrLink
  <2>2. NodeStep(x, Want(x, i), n) /\ Adds(x, n)
    BY <1>2, NodeGenerated, NodeAdds, WantedFlags DEF Typed
  <2> HIDE DEF n
  <2>3. x.fresh \in Exists(n) /\ i \in DOMAIN n.operand /\ Typed(n) /\ n.out = "run"
    BY <2>2 DEF NodeStep, Exists, Adds
  <2>4. Adds(n, y) /\ ValueStep(n, i, x.fresh, y)
    BY <2>3, ValueAdds
  <2> HIDE DEF y
  <2>5. Becomes(x, i, y) /\ y.ends = x.ends
    BY <2>2, <2>4 DEF Becomes, MadeFor, NodeStep, ValueStep, SameElements
  <2> QED
    BY <2>1, <2>2, <2>4, <2>5, AddsTwice DEF y
<1> QED
  BY <1>1, <1>2

LEMMA ConnectStep ==
  ASSUME NEW x, NEW i \in DOMAIN x.operand, NEW s, NEW u, Typed(x), x.out = "run"
  PROVE  LET y == Connect(x, i, s, u)
         IN  /\ Adds(x, y)
             /\ y.out = "run" =>
                  /\ Becomes(x, i, y)
                  /\ y.ends = [a \in Connectors(x) \cup {x.fresh} |-> IF a = x.fresh THEN <<s, u>> ELSE x.ends[a]]
<1>1. CASE ~CanConnect(x, Want(x, i), s, u)
  <2>1. Connect(x, i, s, u) = Finish(x, "thrown")
    BY <1>1 DEF Connect
  <2>2. Finish(x, "thrown").out = "thrown"
    BY Finishing DEF Typed
  <2> QED
    BY <2>1, <2>2, ExceptionAdds
<1>2. CASE CanConnect(x, Want(x, i), s, u)
  <2> DEFINE n == GenerateConnector(x, Want(x, i), s, u)
             y == SetValue(n, i, x.fresh)
  <2>1. Connect(x, i, s, u) = y
    BY <1>2 DEF Connect
  <2>2. s \in Exists(x) /\ u \in Exists(x) /\ "arc" \in Want(x, i)
    BY <1>2 DEF CanConnect
  <2>3. ConnectorStep(x, Want(x, i), s, u, n) /\ Adds(x, n)
    BY <2>2, ConnectorGenerated, ConnectorAdds, WantedFlags DEF Typed
  <2> HIDE DEF n
  <2>4. x.fresh \in Exists(n) /\ i \in DOMAIN n.operand /\ Typed(n) /\ n.out = "run"
    BY <2>3 DEF ConnectorStep, Exists, Adds
  <2>5. Adds(n, y) /\ ValueStep(n, i, x.fresh, y)
    BY <2>4, ValueAdds
  <2> HIDE DEF y
  <2>6. /\ Becomes(x, i, y)
        /\ y.ends = [a \in Connectors(x) \cup {x.fresh} |-> IF a = x.fresh THEN <<s, u>> ELSE x.ends[a]]
    BY <2>3, <2>5 DEF Becomes, MadeFor, ConnectorStep, ValueStep, SameElements
  <2> QED
    BY <2>1, <2>3, <2>5, <2>6, AddsTwice DEF y
<1> QED
  BY <1>1, <1>2

-----------------------------------------------------------------------------
\* What the checks at the start of an Execute leave: all operands to be
\* assigned are variables, and neither they nor their variables have a value.
Cleared(x, r) ==
  /\ Typed(r) /\ r.out = "run"
  /\ SameElements(x, r)
  /\ SameOperands(x, r)
  /\ r.set = x.set
  /\ Assigned(r) = Assigned(x) /\ Marked(r) = Marked(x)
  /\ \A i \in Assigned(x) : ~x.operand[i].const /\ x.operand[i].addr \in Variable
  /\ \A i \in DOMAIN x.operand : r.operand[i].value = IF i \in Assigned(x) THEN Nothing ELSE x.operand[i].value
  /\ \A v \in Variable : r.value[v] = IF AssignedTo(x, v) = {} THEN x.value[v] ELSE {}

\* An operator that ends in error.
Rejected(x, y) ==
  LET r == ResetValues(x)
  IN  \/ r.out = "error" /\ y = r
      \/ r.out = "run" /\ y = Finish(r, "error")

LEMMA ResetClears ==
  ASSUME NEW x, Typed(x), x.out = "run", ResetValues(x).out # "error"
  PROVE  Cleared(x, ResetValues(x))
<1> DEFINE r == ResetValues(x)
<1>1. ResetStep(x, r) /\ Typed(r) /\ SameOperands(x, r)
  BY Resetting, ResetTyped DEF Typed
<1>2. r.out # "error"
  OBVIOUS
<1> HIDE DEF r
<1>3. {i \in Assigned(x) : x.operand[i].const} = {} /\ r.out = "run"
  BY <1>1, <1>2 DEF ResetStep
<1>4. Reset(x) = Assigned(x)
  BY <1>3 DEF Reset
<1>5. \A i \in Assigned(x) : ~x.operand[i].const /\ x.operand[i].addr \in Variable
  BY <1>3 DEF Typed, IsOperand, Assigned
<1>6. Assigned(r) = Assigned(x) /\ Marked(r) = Marked(x)
  BY <1>1 DEF SameOperands, Assigned, Marked
<1>7. \A i \in DOMAIN x.operand : r.operand[i].value = IF i \in Assigned(x) THEN Nothing ELSE x.operand[i].value
  BY <1>1, <1>4 DEF ResetStep, Typed, IsOperand, Operands
<1>8. \A v \in Variable : r.value[v] = IF AssignedTo(x, v) = {} THEN x.value[v] ELSE {}
  BY <1>1, <1>4 DEF ResetStep, AssignedTo
<1> QED
  BY <1>1, <1>3, <1>5, <1>6, <1>7, <1>8 DEF Cleared, ResetStep, r

\* An error has changed no element, and emptied what comes before the first
\* constant to be assigned.
LEMMA ErrorRejects ==
  ASSUME NEW x, NEW y, Typed(x), x.out = "run", Rejected(x, y)
  PROVE  /\ Typed(y) /\ y.out = "error"
         /\ RejectedOnly(x, y)
<1> DEFINE r == ResetValues(x)
<1>1. ResetStep(x, r) /\ Typed(r)
  BY Resetting, ResetTyped DEF Typed
<1>2. /\ Typed(y) /\ y.out = "error"
      /\ SameElements(r, y) /\ y.value = r.value
  <2>1. CASE y = r /\ r.out = "error"
    BY <1>1, <2>1 DEF SameElements
  <2>2. CASE y = Finish(r, "error")
    BY <1>1, <2>2, Finishing, FinishTyped DEF Typed
  <2> QED
    BY <2>1, <2>2 DEF Rejected
<1> HIDE DEF r
<1>3. SameMemory(x, y)
  BY <1>1, <1>2 DEF ResetStep, SameElements, SameMemory
<1>4. \A i, j \in Assigned(x) : i < j <=> ~(j <= i)
  BY DEF Assigned, Typed
<1>5. \A i \in Assigned(x) : i \in Reset(x) <=> \A j \in Assigned(x) : j <= i => ~x.operand[j].const
  BY <1>4 DEF Reset
<1>6. Reset(x) \subseteq Assigned(x)
  BY DEF Reset
<1>7. \A v \in Variable :
        y.value[v] = IF \E i \in Reset(x) : x.operand[i].addr = v THEN {} ELSE x.value[v]
  BY <1>1, <1>2 DEF ResetStep
<1>8. \A v \in Variable :
        (\E i \in Reset(x) : x.operand[i].addr = v)
          <=> \E i \in AssignedTo(x, v) : \A j \in Assigned(x) : j <= i => ~x.operand[j].const
  BY <1>5, <1>6 DEF AssignedTo
<1> QED
  BY <1>2, <1>3, <1>7, <1>8 DEF RejectedOnly

LEMMA ResetRuns ==
  ASSUME NEW x, Typed(x), x.out = "run"
  PROVE  LET r == ResetValues(x)
         IN  r.out = "error" \/ Cleared(x, r)
<1>1. ResetStep(x, ResetValues(x))
  BY Resetting DEF Typed
<1> QED
  BY <1>1, ResetClears DEF ResetStep

-----------------------------------------------------------------------------
\* Generation.  y has made elements for the operands P of x, and has given
\* those of Q to their variables.
Built(x, y, P, Q) ==
  /\ Adds(x, y)
  /\ y.out = "run"
  /\ P \subseteq DOMAIN x.operand /\ Q \subseteq P
  /\ Exists(y) = Exists(x) \cup {Value(y, i) : i \in P}
  /\ IsFiniteSet(P) /\ IsFiniteSet(Exists(y))
  /\ Cardinality(Exists(y)) = Cardinality(Exists(x)) + Cardinality(P)
  /\ \A i \in P : Value(y, i) \in Exists(y) \ Exists(x) /\ y.type[Value(y, i)] = Want(x, i)
  /\ \A i \in DOMAIN x.operand \ P : Value(y, i) = Value(x, i)
  /\ \A v \in Variable : y.value[v] = x.value[v] \cup {Value(y, i) : i \in {j \in Q : x.operand[j].addr = v}}

LEMMA FiniteMemory ==
  ASSUME NEW x, Typed(x)
  PROVE  IsFiniteSet(Exists(x)) /\ Cardinality(Exists(x)) \in Nat
<1>1. x.fresh - 1 \in Int /\ 1 \in Int /\ Exists(x) \in SUBSET (1 .. x.fresh - 1)
  BY DEF Typed, IsMemory, Nothing
<1>2. IsFiniteSet(1 .. x.fresh - 1)
  BY <1>1, FS_Interval
<1> QED
  BY <1>1, <1>2, FS_Subset, FS_CardinalityType

LEMMA NothingBuilt ==
  ASSUME NEW x, Typed(x), x.out = "run"
  PROVE  Built(x, x, {}, {})
BY FiniteMemory, NothingAdded, FS_EmptySet DEF Built

\* One more element for operand i: its address is that of no other one.
BuiltMore(x, y, z, P, i) ==
  /\ Adds(x, z)
  /\ P \cup {i} \subseteq DOMAIN x.operand
  /\ Exists(z) = Exists(x) \cup {Value(z, j) : j \in P \cup {i}}
  /\ IsFiniteSet(P \cup {i}) /\ IsFiniteSet(Exists(z))
  /\ Cardinality(Exists(z)) = Cardinality(Exists(x)) + Cardinality(P \cup {i})
  /\ \A j \in P \cup {i} : Value(z, j) \in Exists(z) \ Exists(x) /\ z.type[Value(z, j)] = Want(x, j)
  /\ \A j \in DOMAIN x.operand \ (P \cup {i}) : Value(z, j) = Value(x, j)
  /\ \A j \in P : Value(z, j) = Value(y, j)
  /\ Value(z, i) = y.fresh

LEMMA BuiltOneMore ==
  ASSUME NEW x, NEW y, NEW z, NEW P, NEW Q, NEW i \in DOMAIN x.operand \ P, Typed(x),
         Built(x, y, P, Q), Adds(y, z), z.out = "run", MadeFor(y, i, z)
  PROVE  BuiltMore(x, y, z, P, i)
<1>1. Adds(x, z)
  BY AddsTwice DEF Built
<1>2. Typed(y) /\ DOMAIN y.operand = DOMAIN x.operand /\ Want(y, i) = Want(x, i)
  BY DEF Built, Adds, SameOperands, Want
<1>3. y.fresh \notin Exists(y) /\ Exists(x) \subseteq Exists(y)
  BY <1>2, FreshIsNew DEF Built, Adds, Kept
<1>4. Exists(z) = Exists(y) \cup {y.fresh}
  BY DEF Exists, MadeFor
<1>5. Value(z, i) = y.fresh /\ \A j \in DOMAIN x.operand : j # i => Value(z, j) = Value(y, j)
  <2>1. y.operand[i] \in Operands(1 .. y.fresh - 1)
    BY <1>2 DEF Typed, IsOperand
  <2> QED
    BY <1>2, <2>1 DEF Value, Operands, MadeFor
<1>6. \A j \in P : Value(z, j) = Value(y, j)
  BY <1>5 DEF Built
<1>7. Exists(z) = Exists(x) \cup {Value(z, j) : j \in P \cup {i}}
  <2>1. {Value(z, j) : j \in P \cup {i}} = {Value(y, j) : j \in P} \cup {y.fresh}
    BY <1>5, <1>6
  <2> QED
    BY <1>4, <2>1 DEF Built
<1>8. /\ IsFiniteSet(P \cup {i}) /\ IsFiniteSet(Exists(z))
      /\ Cardinality(Exists(z)) = Cardinality(Exists(x)) + Cardinality(P \cup {i})
  <2>1. IsFiniteSet(P) /\ IsFiniteSet(Exists(y)) /\ i \notin P
    BY DEF Built
  <2>2. Cardinality(P \cup {i}) = Cardinality(P) + 1 /\ IsFiniteSet(P \cup {i})
    BY <2>1, FS_AddElement
  <2>3. Cardinality(Exists(z)) = Cardinality(Exists(y)) + 1 /\ IsFiniteSet(Exists(z))
    BY <1>3, <1>4, <2>1, FS_AddElement
  <2>4. Cardinality(Exists(x)) \in Nat /\ Cardinality(P) \in Nat
    BY <2>1, FiniteMemory, FS_CardinalityType
  <2> QED
    BY <2>2, <2>3, <2>4 DEF Built
<1>9. \A j \in P \cup {i} : Value(z, j) \in Exists(z) \ Exists(x) /\ z.type[Value(z, j)] = Want(x, j)
  BY <1>2, <1>3, <1>4, <1>5, <1>6 DEF Built, MadeFor
<1>10. \A j \in DOMAIN x.operand \ (P \cup {i}) : Value(z, j) = Value(x, j)
  BY <1>5 DEF Built
<1> QED
  BY <1>1, <1>5, <1>6, <1>7, <1>8, <1>9, <1>10 DEF Built, BuiltMore

LEMMA BuiltBecomes ==
  ASSUME NEW x, NEW y, NEW z, NEW P, NEW i \in DOMAIN x.operand \ P, Typed(x),
         x.operand[i].addr \in Variable,
         Built(x, y, P, P), Adds(y, z), z.out = "run", Becomes(y, i, z)
  PROVE  Built(x, z, P \cup {i}, P \cup {i})
<1>1. BuiltMore(x, y, z, P, i)
  BY BuiltOneMore DEF Becomes
<1>2. ASSUME NEW v \in Variable
      PROVE  z.value[v] = x.value[v] \cup {Value(z, j) : j \in {k \in P \cup {i} : x.operand[k].addr = v}}
  <2> DEFINE a == x.operand[i].addr
  <2>1. y.operand[i].addr = a /\ y.value \in [Variable -> SUBSET Exists(y)]
    BY DEF Built, Adds, SameOperands, Typed
  <2>2. z.value[v] = IF v = a THEN y.value[v] \cup {y.fresh} ELSE y.value[v]
    BY <2>1 DEF Becomes
  <2>3. {Value(z, j) : j \in {k \in P : x.operand[k].addr = v}} = {Value(y, j) : j \in {k \in P : x.operand[k].addr = v}}
    BY <1>1 DEF BuiltMore
  <2>4. y.value[v] = x.value[v] \cup {Value(z, j) : j \in {k \in P : x.operand[k].addr = v}}
    BY <2>3 DEF Built
  <2>5. CASE v = a
    <3>1. {k \in P \cup {i} : x.operand[k].addr = v} = {k \in P : x.operand[k].addr = v} \cup {i}
      BY <2>5
    <3> QED
      BY <1>1, <2>2, <2>4, <2>5, <3>1 DEF BuiltMore
  <2>6. CASE v # a
    <3>1. {k \in P \cup {i} : x.operand[k].addr = v} = {k \in P : x.operand[k].addr = v}
      BY <2>6
    <3> QED
      BY <2>2, <2>4, <2>6, <3>1
  <2> QED
    BY <2>5, <2>6
<1> QED
  BY <1>1, <1>2 DEF Built, BuiltMore

\* Operands that are to be assigned are variables.
Assignable(x) == \A i \in Assigned(x) : x.operand[i].addr \in Variable

Provided(x, P, i) == IF i \in Assigned(x) THEN P \cup {i} ELSE P

LEMMA BuiltProvide ==
  ASSUME NEW x, NEW y, NEW P, NEW i \in DOMAIN x.operand \ P, Typed(x), Assignable(x),
         Adds(x, y), y.out = "run" => Built(x, y, P, P)
  PROVE  LET z == Then(y, Provide(y, i))
         IN  /\ Adds(x, z)
             /\ z.out = "run" => Built(x, z, Provided(x, P, i), Provided(x, P, i))
<1> DEFINE z == Then(y, Provide(y, i))
<1>1. CASE y.out # "run"
  BY <1>1 DEF Then
<1>2. CASE y.out = "run" /\ i \notin Assigned(x)
  <2>1. Fixed(y, i)
    BY <1>2 DEF Adds, SameOperands, Assigned, Fixed
  <2>2. z = y
    BY <2>1 DEF Then, Provide
  <2> QED
    BY <1>2, <2>2 DEF Provided
<1>3. CASE y.out = "run" /\ i \in Assigned(x)
  <2>1. ~Fixed(y, i) /\ i \in DOMAIN y.operand /\ Typed(y)
    BY <1>3 DEF Adds, SameOperands, Assigned, Fixed
  <2>2. z = CreateNodeOrLink(y, i)
    BY <1>3, <2>1 DEF Then, Provide
  <2>3. /\ Adds(y, z)
        /\ z.out = "run" => Becomes(y, i, z)
    BY <1>3, <2>1, <2>2, CreateStep
  <2> HIDE DEF z
  <2>4. Adds(x, z)
    BY <2>3, AddsTwice
  <2>5. ASSUME z.out = "run"
        PROVE  Built(x, z, P \cup {i}, P \cup {i})
    BY <1>3, <2>3, <2>5, BuiltBecomes DEF Assignable
  <2> QED
    BY <1>3, <2>4, <2>5 DEF Provided, z
<1> QED
  BY <1>1, <1>2, <1>3

\* The arc made for operand i.
ArcOf(y, i, s, u) == Value(y, i) \in Connectors(y) /\ y.ends[Value(y, i)] = <<s, u>>

ArcMade(x, y, z, i, s, u) ==
  /\ ArcOf(z, i, s, u)
  /\ \A j \in DOMAIN x.operand \ {i} : Value(z, j) = Value(y, j)

LEMMA BuiltConnect ==
  ASSUME NEW x, NEW y, NEW P, NEW i \in Assigned(x) \ P, NEW s, NEW u, Typed(x), Assignable(x),
         Adds(x, y), y.out = "run" => Built(x, y, P, P)
  PROVE  LET z == Then(y, Connect(y, i, s, u))
         IN  /\ Adds(x, z)
             /\ z.out = "run" =>
                  /\ y.out = "run" /\ Adds(y, z)
                  /\ Built(x, z, P \cup {i}, P \cup {i})
                  /\ ArcMade(x, y, z, i, s, u)
<1> DEFINE z == Then(y, Connect(y, i, s, u))
<1>1. CASE y.out # "run"
  BY <1>1 DEF Then
<1>2. CASE y.out = "run"
  <2>1. i \in DOMAIN y.operand /\ Typed(y) /\ DOMAIN y.operand = DOMAIN x.operand
    BY <1>2 DEF Adds, SameOperands, Assigned
  <2>2. z = Connect(y, i, s, u)
    BY <1>2 DEF Then
  <2>3. /\ Adds(y, z)
        /\ z.out = "run" =>
             /\ Becomes(y, i, z)
             /\ z.ends = [a \in Connectors(y) \cup {y.fresh} |-> IF a = y.fresh THEN <<s, u>> ELSE y.ends[a]]
    BY <1>2, <2>1, <2>2, ConnectStep
  <2> HIDE DEF z
  <2>4. Adds(x, z)
    BY <2>3, AddsTwice
  <2>5. ASSUME z.out = "run"
        PROVE  /\ Built(x, z, P \cup {i}, P \cup {i})
               /\ ArcMade(x, y, z, i, s, u)
    <3>1. Becomes(y, i, z)
      BY <2>3, <2>5
    <3>2. Built(x, z, P \cup {i}, P \cup {i})
      BY <1>2, <2>3, <2>5, <3>1, BuiltBecomes DEF Assignable, Assigned
    <3>3. y.operand[i] \in Operands(1 .. y.fresh - 1)
      BY <2>1 DEF Typed, IsOperand
    <3>4. Value(z, i) = y.fresh /\ \A j \in DOMAIN x.operand \ {i} : Value(z, j) = Value(y, j)
      BY <2>1, <3>1, <3>3 DEF Becomes, MadeFor, Value, Operands
    <3> QED
      BY <2>3, <2>5, <3>2, <3>4 DEF ArcOf, ArcMade, Connectors
  <2> QED
    BY <1>2, <2>3, <2>4, <2>5 DEF z
<1> QED
  BY <1>1, <1>2

\* What a generation that succeeds has made, but for the ends of its arcs.
AllMade(x, y) ==
  /\ Exists(y) = Exists(x) \cup {Value(y, i) : i \in Assigned(x)}
  /\ Cardinality(Exists(y)) = Cardinality(Exists(x)) + Cardinality(Assigned(x))
  /\ \A i \in Assigned(x) : y.type[Value(y, i)] = Want(x, i)
  /\ \A v \in Variable :
       y.value[v] = IF AssignedTo(x, v) = {} THEN x.value[v]
                    ELSE {Value(y, i) : i \in AssignedTo(x, v)} \ {Nothing}

LEMMA AllIsMade ==
  ASSUME NEW x, NEW y, NEW k, Kept(x, y),
         y.out = "success" =>
           /\ AllMade(x, y)
           /\ k # "genEl" => y.ends[Value(y, 2)] = <<Value(y, 1), Value(y, 3)>>
           /\ k = "genElStr5" => y.ends[Value(y, 4)] = <<Value(y, 5), Value(y, 2)>>
  PROVE  Made(x, y, k)
BY DEF AllMade, Made, Values

\* s with the values that y keeps.
SameValues(s, y) == y.ends = s.ends /\ \A i : Value(y, i) = Value(s, i)

\* What has been built for all operands to be assigned is what a generation
\* is to make.
LEMMA BuiltIsMade ==
  ASSUME NEW x, NEW r, NEW s, Typed(x), Cleared(x, r), Built(r, s, Assigned(x), Assigned(x))
  PROVE  LET y == Finish(s, "success")
         IN  /\ Typed(y) /\ y.out = "success"
             /\ SameValues(s, y)
             /\ Kept(x, y)
             /\ AllMade(x, y)
<1> DEFINE y == Finish(s, "success")
<1>1. Typed(s)
  BY DEF Built, Adds
<1>2. Typed(y) /\ y.out = "success" /\ y.type = s.type /\ y.ends = s.ends /\ y.operand = s.operand /\ y.value = s.value
  BY <1>1, Finishing, FinishTyped DEF Typed, SameElements
<1>3. Exists(r) = Exists(x) /\ Connectors(r) = Connectors(x) /\ r.type = x.type /\ r.ends = x.ends
  BY DEF Cleared, SameElements, Exists, Connectors
<1> HIDE DEF y
<1>4. SameValues(s, y)
  BY <1>2 DEF Value, SameValues
<1>5. Kept(x, y)
  BY <1>2, <1>3 DEF Built, Adds, Kept, Exists, Connectors
<1>6. Exists(y) = Exists(s)
  BY <1>2 DEF Exists
<1>7. \A i \in Assigned(x) : Want(r, i) = Want(x, i) /\ i \in DOMAIN x.operand
  BY DEF Cleared, SameOperands, Want, Assigned
<1>8. \A i \in Assigned(x) : y.type[Value(y, i)] = Want(x, i) /\ Value(y, i) # Nothing
  BY <1>1, <1>2, <1>4, <1>7 DEF SameValues, Built, Typed, IsMemory, Nothing
<1>9. ASSUME NEW v \in Variable
      PROVE  y.value[v] = IF AssignedTo(x, v) = {} THEN x.value[v]
                          ELSE {Value(y, i) : i \in AssignedTo(x, v)} \ {Nothing}
  <2>1. {j \in Assigned(x) : r.operand[j].addr = v} = AssignedTo(x, v)
    BY DEF AssignedTo, Cleared, SameOperands, Assigned
  <2>2. s.value[v] = r.value[v] \cup {Value(s, i) : i \in {j \in Assigned(x) : r.operand[j].addr = v}}
    BY DEF Built
  <2>3. s.value[v] = r.value[v] \cup {Value(y, i) : i \in AssignedTo(x, v)}
    BY <1>4, <2>1, <2>2 DEF SameValues
  <2>4. \A i \in AssignedTo(x, v) : Value(y, i) # Nothing
    BY <1>8 DEF AssignedTo
  <2>5. r.value[v] = IF AssignedTo(x, v) = {} THEN x.value[v] ELSE {}
    BY DEF Cleared
  <2> QED
    BY <1>2, <2>3, <2>4, <2>5
<1>10. /\ Exists(y) = Exists(x) \cup {Value(y, i) : i \in Assigned(x)}
       /\ Cardinality(Exists(y)) = Cardinality(Exists(x)) + Cardinality(Assigned(x))
  BY <1>3, <1>4, <1>6 DEF Built, SameValues
<1> QED
  BY <1>2, <1>4, <1>5, <1>8, <1>9, <1>10 DEF AllMade, y

\* An execution that was not rejected.
Proper(y) == Typed(y) /\ y.out \in {"success", "unsuccess", "thrown"}

LEMMA AddedKept ==
  ASSUME NEW x, NEW r, NEW s, Cleared(x, r), Adds(r, s)
  PROVE  Kept(x, s)
BY DEF Cleared, SameElements, Adds, Kept, Exists, Connectors

\* The part of every generation after its checks.
LEMMA BuiltEnds ==
  ASSUME NEW x, NEW r, NEW s, NEW y \in Results(s, Success(s)), Typed(x), Cleared(x, r),
         Adds(r, s), s.out = "run" => Built(r, s, Assigned(x), Assigned(x))
  PROVE  /\ Proper(y) /\ Kept(x, y)
         /\ y.out = "success" => s.out = "run" /\ SameValues(s, y) /\ AllMade(x, y)
<1>1. CASE s.out # "run"
  <2>1. y = s
    BY <1>1 DEF Results
  <2>2. Kept(x, y)
    BY <2>1, AddedKept
  <2> QED
    BY <1>1, <2>1, <2>2 DEF Proper, Adds
<1>2. CASE s.out = "run"
  <2>1. y = Finish(s, "success")
    BY <1>2 DEF Results, Success
  <2>2. Built(r, s, Assigned(x), Assigned(x))
    BY <1>2
  <2>3. /\ Typed(y) /\ y.out = "success"
        /\ SameValues(s, y)
        /\ Kept(x, y)
        /\ AllMade(x, y)
    BY <2>1, <2>2, BuiltIsMade
  <2> QED
    BY <1>2, <2>3 DEF Proper
<1> QED
  BY <1>1, <1>2

LEMMA GenElMakes ==
  ASSUME NEW x, NEW y \in GenEl(x), Typed(x), x.out = "run", DOMAIN x.operand = 1 .. 1
  PROVE  \/ Rejected(x, y)
         \/ Proper(y) /\ Made(x, y, "genEl")
<1> DEFINE r == ResetValues(x)
           s == CreateNodeOrLink(r, 1)
<1>1. r.out = "error" \/ Cleared(x, r)
  BY ResetRuns
<1>2. CASE r.out = "error"
  BY <1>2 DEF GenEl, Checked, Results, Rejected
<1>3. CASE Cleared(x, r) /\ Fixed(r, 1)
  BY <1>3 DEF GenEl, Checked, Results, Error, Rejected, Cleared
<1>4. CASE Cleared(x, r) /\ ~Fixed(r, 1)
  <2>1. y \in Results(s, Success(s))
    BY <1>4 DEF GenEl, Checked, Results, Cleared
  <2>2. Typed(r) /\ r.out = "run" /\ 1 \in DOMAIN r.operand /\ Assigned(x) = {1} /\ r.operand[1].addr \in Variable
    BY <1>4 DEF Cleared, SameOperands, Assigned, Fixed
  <2> HIDE DEF r
  <2>3. /\ Adds(r, s)
        /\ s.out = "run" => Becomes(r, 1, s)
    BY <2>2, CreateStep
  <2>4. s.out = "run" => Built(r, s, {} \cup {1}, {} \cup {1})
    BY <2>2, <2>3, NothingBuilt, BuiltBecomes
  <2> HIDE DEF s
  <2>5. Adds(r, s) /\ (s.out = "run" => Built(r, s, Assigned(x), Assigned(x)))
    BY <2>2, <2>3, <2>4
  <2>6. /\ Proper(y) /\ Kept(x, y)
        /\ y.out = "success" => AllMade(x, y)
    BY <1>4, <2>1, <2>5, BuiltEnds
  <2> QED
    BY <2>6, AllIsMade
<1> QED
  BY <1>1, <1>3, <1>2, <1>4

LEMMA ConnectStr3Builds ==
  ASSUME NEW x, Typed(x), x.out = "run", Assignable(x), DOMAIN x.operand = 1 .. 3, 2 \in Assigned(x)
  PROVE  LET s == ConnectStr3(x)
         IN  /\ Adds(x, s)
             /\ s.out = "run" =>
                  /\ Built(x, s, Assigned(x), Assigned(x))
                  /\ ArcOf(s, 2, Value(s, 1), Value(s, 3))
<1> DEFINE first == Then(x, Provide(x, 1))
           P1    == Provided(x, {}, 1)
           third == Then(first, Provide(first, 3))
           P3    == Provided(x, P1, 3)
           s     == Then(third, Connect(third, 2, Value(third, 1), Value(third, 3)))
<1>1. ConnectStr3(x) = s
  BY DEF ConnectStr3, Then
<1>2. /\ Adds(x, first)
      /\ first.out = "run" => Built(x, first, P1, P1)
  BY NothingBuilt, NothingAdded, BuiltProvide
<1>3. 3 \in DOMAIN x.operand \ P1 /\ P1 \subseteq {1}
  BY DEF Provided
<1> HIDE DEF first, P1
<1>4. /\ Adds(x, third)
      /\ third.out = "run" => Built(x, third, P3, P3)
  BY <1>2, <1>3, BuiltProvide
<1>5. 2 \in Assigned(x) \ P3 /\ P3 \cup {2} = Assigned(x)
  BY <1>3 DEF Provided, P1, Assigned
<1> HIDE DEF third, P3
<1>6. /\ Adds(x, s)
      /\ s.out = "run" =>
           /\ third.out = "run" /\ Adds(third, s)
           /\ Built(x, s, P3 \cup {2}, P3 \cup {2})
           /\ ArcMade(x, third, s, 2, Value(third, 1), Value(third, 3))
  BY <1>4, <1>5, BuiltConnect
<1> HIDE DEF s
<1>7. s.out = "run" => ArcOf(s, 2, Value(s, 1), Value(s, 3))
  BY <1>6 DEF ArcMade
<1> QED
  BY <1>1, <1>5, <1>6, <1>7

LEMMA GenElStr3Makes ==
  ASSUME NEW x, NEW y \in GenElStr3(x), Typed(x), x.out = "run", DOMAIN x.operand = 1 .. 3
  PROVE  \/ Rejected(x, y)
         \/ Proper(y) /\ Made(x, y, "genElStr3")
<1> DEFINE r == ResetValues(x)
           s == ConnectStr3(r)
<1>1. r.out = "error" \/ Cleared(x, r)
  BY ResetRuns
<1>2. CASE r.out = "error"
  BY <1>2 DEF GenElStr3, Checked, Results, Rejected
<1>3. CASE Cleared(x, r) /\ RejectsGenElStr3(r)
  BY <1>3 DEF GenElStr3, Checked, Results, Error, Rejected, Cleared
<1>4. CASE Cleared(x, r) /\ ~RejectsGenElStr3(r)
  <2>1. y \in Results(s, Success(s))
    BY <1>4 DEF GenElStr3, Checked, Results, Cleared
  <2>2. ~Fixed(r, 2)
    BY <1>4 DEF RejectsGenElStr3, MustBeAssigned
  <2> HIDE DEF r
  <2>3. /\ Typed(r) /\ r.out = "run" /\ DOMAIN r.operand = 1 .. 3
        /\ Assigned(r) = Assigned(x) /\ 2 \in Assigned(r) /\ Assignable(r)
    BY <1>4, <2>2 DEF Cleared, SameOperands, Assigned, Fixed, Assignable
  <2>4. /\ Adds(r, s)
        /\ s.out = "run" =>
             /\ Built(r, s, Assigned(x), Assigned(x))
             /\ ArcOf(s, 2, Value(s, 1), Value(s, 3))
    BY <2>3, ConnectStr3Builds
  <2> HIDE DEF s
  <2>5. /\ Proper(y) /\ Kept(x, y)
        /\ y.out = "success" => s.out = "run" /\ SameValues(s, y) /\ AllMade(x, y)
    BY <1>4, <2>1, <2>4, BuiltEnds
  <2>6. y.out = "success" => y.ends[Value(y, 2)] = <<Value(y, 1), Value(y, 3)>>
    BY <2>4, <2>5 DEF ArcOf, SameValues
  <2> QED
    BY <2>5, <2>6, AllIsMade
<1> QED
  BY <1>1, <1>3, <1>2, <1>4

-----------------------------------------------------------------------------
\* genElStr5: nodes that are generated first and become values afterwards.
Holds(x, i, y) == MadeFor(x, i, y) /\ y.value = x.value /\ y.ends = x.ends

LEMMA AddNodeStep ==
  ASSUME NEW x, NEW i \in DOMAIN x.operand, Typed(x), x.out = "run"
  PROVE  LET y == AddNode(x, i)
         IN  /\ Adds(x, y)
             /\ y.out = "run" => Holds(x, i, y)
<1>1. CASE ~IsNode(Want(x, i))
  <2>1. AddNode(x, i) = Finish(x, "thrown")
    BY <1>1 DEF AddNode
  <2>2. Finish(x, "thrown").out = "thrown"
    BY Finishing DEF Typed
  <2> QED
    BY <2>1, <2>2, ExceptionAdds
<1>2. CASE IsNode(Want(x, i))
  <2> DEFINE n == GenerateNode(x, Want(x, i))
             y == [n EXCEPT !.operand[i].value = x.fresh]
  <2>1. AddNode(x, i) = y
    BY <1>2 DEF AddNode
  <2>2. NodeStep(x, Want(x, i), n) /\ Adds(x, n) /\ Typed(n)
    BY <1>2, NodeGenerated, NodeAdds, WantedFlags DEF Typed, Adds
  <2> HIDE DEF n
  <2>3. /\ DOMAIN y = DOMAIN n
        /\ SameElements(n, y)
        /\ y.value = n.value /\ y.set = n.set /\ y.out = n.out
    BY <2>2 DEF Typed, Fields, SameElements
  <2>4. y.operand = [n.operand EXCEPT ![i].value = x.fresh]
    BY <2>2 DEF Typed, Fields
  <2>5. x.fresh \in 1 .. n.fresh - 1
    BY <2>2 DEF NodeStep, Typed, IsMemory, Nothing
  <2>6. i \in DOMAIN n.operand
    BY <2>2 DEF NodeStep
  <2> HIDE DEF y
  <2>7. IsOperand(n, n.operand[i]) /\ IsOperand(n, [n.operand[i] EXCEPT !.value = x.fresh])
    BY <2>2, <2>5, <2>6 DEF Typed, IsOperand, Operands
  <2>8. \A j \in DOMAIN y.operand : IsOperand(n, y.operand[j])
    BY <2>2, <2>4, <2>7 DEF Typed
  <2>9. IsMemory(y) /\ Exists(y) = Exists(n)
    BY <2>2, <2>3 DEF Typed, IsMemory, SameElements, Exists, Connectors, Source, Target, OfType
  <2>10. Typed(y)
    BY <2>2, <2>3, <2>4, <2>8, <2>9 DEF Typed, IsOperand, SameElements
  <2>11. SameOperands(n, y)
    BY <2>2, <2>4, <2>7 DEF SameOperands, Typed, IsOperand, Operands
  <2>12. Kept(n, y)
    BY <2>2, <2>3 DEF Kept, Restrict, SameElements, Typed, IsMemory, Exists, Connectors
  <2>13. Adds(n, y)
    BY <2>2, <2>3, <2>10, <2>11, <2>12 DEF Adds
  <2>14. Holds(x, i, y)
    BY <2>2, <2>3, <2>4 DEF Holds, MadeFor, NodeStep, SameElements
  <2> QED
    BY <2>1, <2>2, <2>13, <2>14, AddsTwice DEF y
<1> QED
  BY <1>1, <1>2

LEMMA BuiltHolds ==
  ASSUME NEW x, NEW y, NEW P, NEW i \in DOMAIN x.operand \ P, Typed(x),
         Adds(x, y), y.out = "run" => Built(x, y, P, {})
  PROVE  LET z == Then(y, AddNode(y, i))
         IN  /\ Adds(x, z)
             /\ z.out = "run" => Built(x, z, P \cup {i}, {})
<1> DEFINE z == Then(y, AddNode(y, i))
<1>1. CASE y.out # "run"
  BY <1>1 DEF Then
<1>2. CASE y.out = "run"
  <2>1. i \in DOMAIN y.operand /\ Typed(y)
    BY DEF Adds, SameOperands
  <2>2. z = AddNode(y, i)
    BY <1>2 DEF Then
  <2>3. /\ Adds(y, z)
        /\ z.out = "run" => Holds(y, i, z)
    BY <1>2, <2>1, <2>2, AddNodeStep
  <2> HIDE DEF z
  <2>4. Adds(x, z)
    BY <2>3, AddsTwice
  <2>5. ASSUME z.out = "run"
        PROVE  Built(x, z, P \cup {i}, {})
    <3>1. BuiltMore(x, y, z, P, i)
      BY <1>2, <2>3, <2>5, BuiltOneMore DEF Holds
    <3>2. \A v \in Variable : z.value[v] = x.value[v]
      <4>0. \A v : {Value(y, k) : k \in {j \in {} : x.operand[j].addr = v}} = {}
        OBVIOUS
      <4>1. \A v \in Variable : y.value[v] = x.value[v] \cup {}
        BY <1>2, <4>0 DEF Built
      <4>2. z.value = y.value
        BY <2>3, <2>5 DEF Holds
      <4> QED
        BY <4>1, <4>2
    <3> QED
      BY <2>5, <3>1, <3>2 DEF Built, BuiltMore
  <2> QED
    BY <2>4, <2>5 DEF z
<1> QED
  BY <1>1, <1>2

LEMMA BuiltGiven ==
  ASSUME NEW x, NEW y, NEW P, NEW Q, NEW i \in P \ Q, Typed(x), Built(x, y, P, Q),
         x.operand[i].addr \in Variable
  PROVE  Built(x, GiveValue(y, i), P, Q \cup {i})
<1> DEFINE z == GiveValue(y, i)
           e == Value(y, i)
<1>1. /\ Typed(y) /\ y.out = "run" /\ e \in Exists(y) /\ DOMAIN y.operand = DOMAIN x.operand
      /\ i \in DOMAIN y.operand /\ y.operand[i].addr = x.operand[i].addr
  BY DEF Built, Adds, SameOperands
<1>2. Adds(y, z) /\ ValueStep(y, i, e, z)
  BY <1>1, ValueAdds DEF GiveValue
<1>3. y.operand[i] \in Operands(1 .. y.fresh - 1)
  BY <1>1 DEF Typed, IsOperand
<1> HIDE DEF z
<1>4. \A j \in DOMAIN x.operand : Value(z, j) = Value(y, j)
  BY <1>1, <1>2, <1>3 DEF ValueStep, Value, Operands
<1>5. Adds(x, z) /\ z.out = "run" /\ Exists(z) = Exists(y) /\ z.type = y.type
  BY <1>1, <1>2, AddsTwice DEF Built, ValueStep, SameElements, Exists
<1>6. ASSUME NEW v \in Variable
      PROVE  z.value[v] = x.value[v] \cup {Value(z, j) : j \in {k \in Q \cup {i} : x.operand[k].addr = v}}
  <2> DEFINE a == x.operand[i].addr
  <2>1. z.value[v] = IF v = a THEN y.value[v] \cup {Value(z, i)} ELSE y.value[v]
    BY <1>1, <1>2, <1>4 DEF ValueStep, Typed
  <2>2. {Value(z, j) : j \in {k \in Q : x.operand[k].addr = v}} = {Value(y, j) : j \in {k \in Q : x.operand[k].addr = v}}
    BY <1>4 DEF Built
  <2>3. y.value[v] = x.value[v] \cup {Value(z, j) : j \in {k \in Q : x.operand[k].addr = v}}
    BY <2>2 DEF Built
  <2>4. CASE v = a
    <3>1. {k \in Q \cup {i} : x.operand[k].addr = v} = {k \in Q : x.operand[k].addr = v} \cup {i}
      BY <2>4
    <3> QED
      BY <2>1, <2>3, <2>4, <3>1
  <2>5. CASE v # a
    <3>1. {k \in Q \cup {i} : x.operand[k].addr = v} = {k \in Q : x.operand[k].addr = v}
      BY <2>5
    <3> QED
      BY <2>1, <2>3, <2>5, <3>1
  <2> QED
    BY <2>4, <2>5
<1>7. Exists(z) = Exists(x) \cup {Value(z, j) : j \in P}
  <2>1. {Value(z, j) : j \in P} = {Value(y, j) : j \in P}
    BY <1>4 DEF Built
  <2> QED
    BY <1>5, <2>1 DEF Built
<1>8. \A j \in P : Value(z, j) \in Exists(z) \ Exists(x) /\ z.type[Value(z, j)] = Want(x, j)
  BY <1>4, <1>5 DEF Built
<1> QED
  BY <1>4, <1>5, <1>6, <1>7, <1>8 DEF Built, z

LEMMA ProvideAllBuilds ==
  ASSUME NEW x, Typed(x), x.out = "run", Assignable(x), DOMAIN x.operand = 1 .. 5, {1, 3, 5} \subseteq Assigned(x)
  PROVE  LET s == ProvideAll(x)
         IN  /\ Adds(x, s)
             /\ s.out = "run" => Built(x, s, {1, 3, 5}, {1, 3, 5})
<1> DEFINE first == AddNode(x, 1)
           third == Then(first, AddNode(first, 3))
           nodes == Then(third, AddNode(third, 5))
           one   == GiveValue(nodes, 1)
           two   == GiveValue(one, 3)
           s     == Then(nodes, GiveValue(two, 5))
<1>1. ProvideAll(x) = s
  BY DEF ProvideAll
<1>7. 3 \in DOMAIN x.operand \ {1} /\ 5 \in DOMAIN x.operand \ ({1} \cup {3})
  OBVIOUS
<1>2. /\ Adds(x, first)
      /\ first.out = "run" => Built(x, first, {1}, {})
  <2>1. first = Then(x, AddNode(x, 1))
    BY DEF Then
  <2>2. /\ Adds(x, first)
        /\ first.out = "run" => Built(x, first, {} \cup {1}, {})
    BY <2>1, NothingBuilt, NothingAdded, BuiltHolds
  <2> QED
    BY <2>2
<1> HIDE DEF first
<1>3. /\ Adds(x, third)
      /\ third.out = "run" => Built(x, third, {1} \cup {3}, {})
  BY <1>7, <1>2, BuiltHolds
<1> HIDE DEF third
<1>4. /\ Adds(x, nodes)
      /\ nodes.out = "run" => Built(x, nodes, ({1} \cup {3}) \cup {5}, {})
  BY <1>7, <1>3, BuiltHolds
<1> HIDE DEF nodes
<1>5. CASE nodes.out # "run"
  BY <1>1, <1>4, <1>5 DEF Then
<1>6. CASE nodes.out = "run"
  <2>1. \A i \in {1, 3, 5} : x.operand[i].addr \in Variable
    BY DEF Assignable
  <2>2. Built(x, nodes, {1, 3, 5}, {})
    <3>1. ({1} \cup {3}) \cup {5} = {1, 3, 5}
      OBVIOUS
    <3> QED
      BY <1>4, <1>6, <3>1
  <2>3. Built(x, one, {1, 3, 5}, {} \cup {1})
    BY <2>1, <2>2, BuiltGiven
  <2> HIDE DEF one
  <2>4. Built(x, two, {1, 3, 5}, ({} \cup {1}) \cup {3})
    BY <2>1, <2>3, BuiltGiven
  <2> HIDE DEF two
  <2>5. Built(x, GiveValue(two, 5), {1, 3, 5}, (({} \cup {1}) \cup {3}) \cup {5})
    BY <2>1, <2>4, BuiltGiven
  <2>6. (({} \cup {1}) \cup {3}) \cup {5} = {1, 3, 5}
    OBVIOUS
  <2>7. s = GiveValue(two, 5)
    BY <1>6 DEF Then
  <2>8. Built(x, s, {1, 3, 5}, {1, 3, 5})
    BY <2>5, <2>6, <2>7
  <2> QED
    BY <1>1, <2>8 DEF Built
<1> QED
  BY <1>5, <1>6

LEMMA ProvideSomeBuilds ==
  ASSUME NEW x, Typed(x), x.out = "run", Assignable(x), DOMAIN x.operand = 1 .. 5
  PROVE  LET s == ProvideSome(x)
             P == Assigned(x) \cap {1, 3, 5}
         IN  /\ Adds(x, s)
             /\ s.out = "run" => Built(x, s, P, P)
<1> DEFINE first == Then(x, Provide(x, 1))
           P1    == Provided(x, {}, 1)
           third == Then(first, Provide(first, 3))
           P3    == Provided(x, P1, 3)
           s     == Then(third, Provide(third, 5))
           P5    == Provided(x, P3, 5)
<1>1. ProvideSome(x) = s
  BY DEF ProvideSome, Then
<1>2. /\ 3 \in DOMAIN x.operand \ P1 /\ 5 \in DOMAIN x.operand \ P3
      /\ P5 = Assigned(x) \cap {1, 3, 5}
  BY DEF Provided
<1>3. /\ Adds(x, first)
      /\ first.out = "run" => Built(x, first, P1, P1)
  BY NothingBuilt, NothingAdded, BuiltProvide
<1> HIDE DEF first, P1
<1>4. /\ Adds(x, third)
      /\ third.out = "run" => Built(x, third, P3, P3)
  BY <1>2, <1>3, BuiltProvide
<1> HIDE DEF third, P3
<1>5. /\ Adds(x, s)
      /\ s.out = "run" => Built(x, s, P5, P5)
  BY <1>2, <1>4, BuiltProvide
<1> HIDE DEF s, P5
<1> QED
  BY <1>1, <1>2, <1>5

LEMMA ConnectStr5Builds ==
  ASSUME NEW x, Typed(x), x.out = "run", Assignable(x), DOMAIN x.operand = 1 .. 5, {2, 4} \subseteq Assigned(x)
  PROVE  LET s == ConnectStr5(x)
         IN  /\ Adds(x, s)
             /\ s.out = "run" =>
                  /\ Built(x, s, Assigned(x), Assigned(x))
                  /\ ArcOf(s, 2, Value(s, 1), Value(s, 3))
                  /\ ArcOf(s, 4, Value(s, 5), Value(s, 2))
<1> DEFINE nodes == IF FixedOnly(x, {}) THEN ProvideAll(x) ELSE ProvideSome(x)
           P     == Assigned(x) \cap {1, 3, 5}
           P2    == P \cup {2}
           arc   == Then(nodes, Connect(nodes, 2, Value(nodes, 1), Value(nodes, 3)))
           s     == Then(arc, Connect(arc, 4, Value(arc, 5), Value(arc, 2)))
<1>1. ConnectStr5(x) = s
  BY DEF ConnectStr5
<1>2. /\ Adds(x, nodes)
      /\ nodes.out = "run" => Built(x, nodes, P, P)
  <2>1. CASE FixedOnly(x, {})
    <3>1. {1, 3, 5} \subseteq Assigned(x) /\ P = {1, 3, 5} /\ nodes = ProvideAll(x)
      BY <2>1 DEF FixedOnly
    <3> QED
      BY <3>1, ProvideAllBuilds
  <2>2. CASE ~FixedOnly(x, {})
    BY <2>2, ProvideSomeBuilds
  <2> QED
    BY <2>1, <2>2
<1>3. 2 \in Assigned(x) \ P /\ 4 \in Assigned(x) \ P2 /\ P2 \cup {4} = Assigned(x)
  BY DEF Assigned
<1> HIDE DEF nodes, P
<1>4. /\ Adds(x, arc)
      /\ arc.out = "run" =>
           /\ nodes.out = "run" /\ Adds(nodes, arc)
           /\ Built(x, arc, P2, P2)
           /\ ArcMade(x, nodes, arc, 2, Value(nodes, 1), Value(nodes, 3))
  BY <1>2, <1>3, BuiltConnect
<1> HIDE DEF arc, P2
<1>5. /\ Adds(x, s)
      /\ s.out = "run" =>
           /\ arc.out = "run" /\ Adds(arc, s)
           /\ Built(x, s, P2 \cup {4}, P2 \cup {4})
           /\ ArcMade(x, arc, s, 4, Value(arc, 5), Value(arc, 2))
  BY <1>3, <1>4, BuiltConnect
<1> HIDE DEF s
<1>6. ASSUME s.out = "run"
      PROVE  /\ ArcOf(s, 2, Value(s, 1), Value(s, 3))
             /\ ArcOf(s, 4, Value(s, 5), Value(s, 2))
  <2>1. ArcMade(x, nodes, arc, 2, Value(nodes, 1), Value(nodes, 3)) /\ Kept(arc, s)
    BY <1>4, <1>5, <1>6 DEF Adds
  <2>2. ArcMade(x, arc, s, 4, Value(arc, 5), Value(arc, 2))
    BY <1>5, <1>6
  <2>3. ArcOf(arc, 2, Value(s, 1), Value(s, 3)) /\ Value(s, 2) = Value(arc, 2)
    BY <2>1, <2>2 DEF ArcMade
  <2>4. ArcOf(s, 2, Value(s, 1), Value(s, 3))
    BY <2>1, <2>3 DEF ArcOf, Kept, Restrict, Connectors
  <2>5. ArcOf(s, 4, Value(s, 5), Value(s, 2))
    BY <2>2 DEF ArcMade
  <2> QED
    BY <2>4, <2>5
<1> QED
  BY <1>1, <1>3, <1>5, <1>6

LEMMA GenElStr5Makes ==
  ASSUME NEW x, NEW y \in GenElStr5(x), Typed(x), x.out = "run", DOMAIN x.operand = 1 .. 5
  PROVE  \/ Rejected(x, y)
         \/ Proper(y) /\ Made(x, y, "genElStr5")
<1> DEFINE r == ResetValues(x)
           s == ConnectStr5(r)
<1>1. r.out = "error" \/ Cleared(x, r)
  BY ResetRuns
<1>2. CASE r.out = "error"
  BY <1>2 DEF GenElStr5, Checked, Results, Rejected
<1>3. CASE Cleared(x, r) /\ RejectsGenElStr5(r)
  BY <1>3 DEF GenElStr5, Checked, Results, Error, Rejected, Cleared
<1>4. CASE Cleared(x, r) /\ ~RejectsGenElStr5(r)
  <2>1. y \in Results(s, Success(s))
    BY <1>4 DEF GenElStr5, Checked, Results, Cleared
  <2>2. ~Fixed(r, 2) /\ ~Fixed(r, 4)
    BY <1>4 DEF RejectsGenElStr5, MustBeAssigned
  <2> HIDE DEF r
  <2>3. /\ Typed(r) /\ r.out = "run" /\ DOMAIN r.operand = 1 .. 5
        /\ Assigned(r) = Assigned(x) /\ {2, 4} \subseteq Assigned(r) /\ Assignable(r)
    BY <1>4, <2>2 DEF Cleared, SameOperands, Assigned, Fixed, Assignable
  <2>4. /\ Adds(r, s)
        /\ s.out = "run" =>
             /\ Built(r, s, Assigned(x), Assigned(x))
             /\ ArcOf(s, 2, Value(s, 1), Value(s, 3))
             /\ ArcOf(s, 4, Value(s, 5), Value(s, 2))
    BY <2>3, ConnectStr5Builds
  <2> HIDE DEF s
  <2>5. /\ Proper(y) /\ Kept(x, y)
        /\ y.out = "success" => s.out = "run" /\ SameValues(s, y) /\ AllMade(x, y)
    BY <1>4, <2>1, <2>4, BuiltEnds
  <2>6. y.out = "success" =>
          /\ y.ends[Value(y, 2)] = <<Value(y, 1), Value(y, 3)>>
          /\ y.ends[Value(y, 4)] = <<Value(y, 5), Value(y, 2)>>
    BY <2>4, <2>5 DEF ArcOf, SameValues
  <2> QED
    BY <2>5, <2>6, AllIsMade
<1> QED
  BY <1>1, <1>3, <1>2, <1>4

-----------------------------------------------------------------------------
\* Operators that make nothing.  Operands that have a value when an operator
\* begins have one that exists.
Ready(x) ==
  /\ Typed(x) /\ x.out = "run"
  /\ DOMAIN x.set \subseteq {i \in DOMAIN x.operand : ~Fixed(x, i)}
  /\ DOMAIN x.operand = 1 .. 5 => Want(x, 2) \cap {"arc", "node"} # {}
  /\ \A i \in DOMAIN x.operand : x.operand[i].value \in Exists(x) \cup {Nothing}
  /\ \A i \in DOMAIN x.set : x.set[i].value \in Exists(x) \cup {Nothing}

Ended(x, r, y) == Proper(y) /\ SameMemory(x, y) /\ y.value = r.value

LEMMA ClearedEnds ==
  ASSUME NEW x, NEW r, NEW o \in {"success", "unsuccess", "thrown"}, Cleared(x, r)
  PROVE  Ended(x, r, Finish(r, o)) /\ Finish(r, o).out = o
<1> DEFINE y == Finish(r, o)
<1>1. /\ Typed(y) /\ SameElements(r, y)
      /\ y.value = r.value /\ y.out = o
  BY Finishing, FinishTyped DEF Cleared, Typed
<1> QED
  BY <1>1 DEF Ended, Proper, Cleared, SameElements, SameMemory

\* What only asks.
Asked(x, y) == Ended(x, x, y)

LEMMA NothingCleared ==
  ASSUME NEW x, NEW r, Typed(x), Cleared(x, r), Assigned(x) = {}
  PROVE  r.value = x.value
<1>1. \A v \in Variable : r.value[v] = x.value[v]
  BY DEF Cleared, AssignedTo
<1> QED
  BY <1>1 DEF Cleared, Typed

LEMMA ClearedAsks ==
  ASSUME NEW x, NEW r, NEW o \in {"success", "unsuccess", "thrown"}, Typed(x), Cleared(x, r), Assigned(x) = {}
  PROVE  Asked(x, Finish(r, o))
BY ClearedEnds, NothingCleared DEF Asked, Ended

LEMMA IfCoinAsks ==
  ASSUME NEW x, NEW y \in IfCoin(x), Ready(x)
  PROVE  Rejected(x, y) \/ Asked(x, y)
<1> DEFINE r == ResetValues(x)
<1>1. r.out = "error" \/ Cleared(x, r)
  BY ResetRuns DEF Ready
<1>2. CASE r.out = "error"
  BY <1>2 DEF IfCoin, Checked, Results, Rejected
<1>3. CASE Cleared(x, r) /\ (Assigned(r) # {} \/ Valueless(r, {1, 2}))
  BY <1>3 DEF IfCoin, Checked, Results, Error, Rejected, Cleared
<1>4. CASE Cleared(x, r) /\ ~(Assigned(r) # {} \/ Valueless(r, {1, 2}))
  <2>1. y \in {Finish(r, "success"), Finish(r, "unsuccess")}
    BY <1>4 DEF IfCoin, Checked, Results, Cleared, Answer, Success, Unsuccess
  <2>2. Assigned(x) = {}
    BY <1>4 DEF Cleared
  <2> QED
    BY <1>4, <2>1, <2>2, ClearedAsks DEF Ready
<1> QED
  BY <1>1, <1>2, <1>3, <1>4

\* A question about one operand.
LEMMA QuestionAsked ==
  ASSUME NEW x, NEW r, Cleared(x, r), ~RejectsQuestion(r), DOMAIN x.operand = 1 .. 1
  PROVE  Assigned(x) = {}
BY DEF Cleared, RejectsQuestion, Fixed, Assigned

LEMMA IfTypeAsks ==
  ASSUME NEW x, NEW y \in IfType(x), Ready(x), DOMAIN x.operand = 1 .. 1
  PROVE  Rejected(x, y) \/ Asked(x, y)
<1> DEFINE r == ResetValues(x)
<1>1. r.out = "error" \/ Cleared(x, r)
  BY ResetRuns DEF Ready
<1>2. CASE r.out = "error"
  BY <1>2 DEF IfType, Checked, Results, Rejected
<1>3. CASE Cleared(x, r) /\ RejectsQuestion(r)
  BY <1>3 DEF IfType, Checked, Results, Error, Rejected, Cleared
<1>4. CASE Cleared(x, r) /\ ~RejectsQuestion(r)
  <2>1. y \in {Finish(r, "success"), Finish(r, "unsuccess")}
    BY <1>4 DEF IfType, Checked, Results, Cleared, Answer, Success, Unsuccess
  <2> QED
    BY <1>4, <2>1, QuestionAsked, ClearedAsks DEF Ready
<1> QED
  BY <1>1, <1>2, <1>3, <1>4

LEMMA IfVarAssignAsks ==
  ASSUME NEW x, NEW y \in IfVarAssign(x), Ready(x)
  PROVE  Asked(x, y)
<1>1. PICK o \in {"success", "unsuccess"} : y = Finish(x, o)
  BY DEF IfVarAssign, Answer, Success, Unsuccess
<1>2. /\ Typed(y) /\ y.out = o
      /\ SameElements(x, y) /\ y.value = x.value
  BY <1>1, Finishing, FinishTyped DEF Ready, Typed
<1> QED
  BY <1>2 DEF Asked, Ended, Proper, SameElements, SameMemory

LEMMA PrintElAsks ==
  ASSUME NEW x, NEW y \in PrintEl(x), Ready(x), DOMAIN x.operand = 1 .. 1
  PROVE  Rejected(x, y) \/ Asked(x, y)
<1> DEFINE r == ResetValues(x)
<1>1. r.out = "error" \/ Cleared(x, r)
  BY ResetRuns DEF Ready
<1>2. CASE r.out = "error"
  BY <1>2 DEF PrintEl, Checked, Results, Rejected
<1>3. CASE Cleared(x, r) /\ RejectsQuestion(r)
  BY <1>3 DEF PrintEl, Checked, Results, Error, Rejected, Cleared
<1>4. CASE Cleared(x, r) /\ ~RejectsQuestion(r)
  <2>1. y = Finish(r, "success")
    BY <1>4 DEF PrintEl, Checked, Results, Cleared, Success
  <2> QED
    BY <1>4, <2>1, QuestionAsked, ClearedAsks DEF Ready
<1> QED
  BY <1>1, <1>2, <1>3, <1>4

LEMMA PrintContentAsks ==
  ASSUME NEW x, NEW y \in PrintContent(x), Ready(x), DOMAIN x.operand = 1 .. 1
  PROVE  Rejected(x, y) \/ Asked(x, y)
<1> DEFINE r == ResetValues(x)
<1>1. r.out = "error" \/ Cleared(x, r)
  BY ResetRuns DEF Ready
<1>2. CASE r.out = "error"
  BY <1>2 DEF PrintContent, Checked, Results, Rejected
<1>3. CASE Cleared(x, r) /\ y = Finish(r, "error")
  BY <1>3 DEF Rejected, Cleared
<1>4. CASE Cleared(x, r) /\ y # Finish(r, "error")
  <2>1. ~RejectsQuestion(r)
    BY <1>4 DEF PrintContent, Checked, Results, Error, Cleared
  <2>2. y \in {Finish(r, "success"), Finish(r, "thrown")}
    BY <1>4, <2>1 DEF PrintContent, Checked, Results, Cleared, Success, Error
  <2> QED
    BY <1>4, <2>1, <2>2, QuestionAsked, ClearedAsks DEF Ready
<1> QED
  BY <1>1, <1>2, <1>3, <1>4

LEMMA VarErases ==
  ASSUME NEW x, NEW y \in VarErase(x), Ready(x)
  PROVE  Rejected(x, y) \/ Proper(y)
<1> DEFINE r == ResetValues(x)
<1>1. r.out = "error" \/ Cleared(x, r)
  BY ResetRuns DEF Ready
<1>2. CASE r.out = "error"
  BY <1>2 DEF VarErase, Checked, Results, Rejected
<1>3. CASE Cleared(x, r)
  <2>1. y = Finish(r, "success")
    BY <1>3 DEF VarErase, Checked, Results, Cleared, Success
  <2> QED
    BY <1>3, <2>1, ClearedEnds DEF Ended
<1> QED
  BY <1>1, <1>2, <1>3

\* The variable gets the value that was read.
Copied(x, y) ==
  y.out = "success" =>
    /\ SameMemory(x, y)
    /\ \A v \in Variable :
         y.value[v] = IF AssignedTo(x, v) = {} THEN x.value[v] ELSE {Value(x, 2) : i \in AssignedTo(x, v)} \ {Nothing}

LEMMA VarAssigns ==
  ASSUME NEW x, NEW y \in VarAssign(x), Ready(x), DOMAIN x.operand = 1 .. 2
  PROVE  Rejected(x, y) \/ (Proper(y) /\ Copied(x, y))
<1> DEFINE r == ResetValues(x)
           s == SetValue(r, 1, Value(r, 2))
           rejects == Fixed(r, 1) \/ ~Fixed(r, 2) \/ Valueless(r, {2})
<1>1. r.out = "error" \/ Cleared(x, r)
  BY ResetRuns DEF Ready
<1>2. CASE r.out = "error"
  BY <1>2 DEF VarAssign, Checked, Results, Rejected
<1>3. CASE Cleared(x, r) /\ rejects
  BY <1>3 DEF VarAssign, Checked, Results, Error, Rejected, Cleared
<1>4. CASE Cleared(x, r) /\ ~rejects
  <2>1. y = Finish(s, "success")
    BY <1>4 DEF VarAssign, Checked, Results, Cleared, Success
  <2>2. ~Fixed(r, 1) /\ Fixed(r, 2) /\ Value(r, 2) # Nothing
    BY <1>4 DEF Valueless
  <2> HIDE DEF r
  <2>3. /\ Typed(r) /\ r.out = "run" /\ 1 \in DOMAIN r.operand /\ SameElements(x, r) /\ Assigned(x) = {1}
        /\ r.operand[1].addr = x.operand[1].addr /\ x.operand[1].addr \in Variable
    BY <1>4, <2>2 DEF Cleared, SameOperands, Assigned, Fixed
  <2>4. Value(r, 2) = Value(x, 2) /\ Value(x, 2) \in Exists(r)
    BY <1>4, <2>2, <2>3 DEF Cleared, Value, Ready, SameElements, Exists
  <2>5. ValueStep(r, 1, Value(x, 2), s) /\ Typed(s)
    BY <2>3, <2>4, ValueAdds DEF Adds
  <2> HIDE DEF s
  <2>6. /\ Typed(y) /\ y.out = "success"
        /\ SameElements(s, y) /\ y.value = s.value
    BY <2>1, <2>5, Finishing, FinishTyped DEF Typed
  <2>7. SameMemory(x, y)
    BY <2>3, <2>5, <2>6 DEF SameMemory, SameElements, ValueStep
  <2>8. ASSUME NEW v \in Variable
        PROVE  y.value[v] = IF AssignedTo(x, v) = {} THEN x.value[v]
                            ELSE {Value(x, 2) : i \in AssignedTo(x, v)} \ {Nothing}
    <3>1. r.value \in [Variable -> SUBSET Exists(r)]
      BY <2>3 DEF Typed
    <3>2. y.value[v] = IF v = x.operand[1].addr THEN r.value[v] \cup {Value(x, 2)} ELSE r.value[v]
      BY <2>3, <2>5, <2>6, <3>1 DEF ValueStep
    <3>3. AssignedTo(x, v) = IF v = x.operand[1].addr THEN {1} ELSE {}
      BY <2>3 DEF AssignedTo
    <3>4. r.value[v] = IF AssignedTo(x, v) = {} THEN x.value[v] ELSE {}
      BY <1>4 DEF Cleared
    <3>5. Value(x, 2) # Nothing
      BY <2>2, <2>4
    <3> QED
      BY <3>2, <3>3, <3>4, <3>5
  <2> QED
    BY <2>6, <2>7, <2>8 DEF Proper, Copied
<1> QED
  BY <1>1, <1>2, <1>3, <1>4

-----------------------------------------------------------------------------
\* What the iterators find is what was to be found.
FitsAt(x, i, e) == IF Fixed(x, i) THEN e = Value(x, i) ELSE Want(x, i) \subseteq x.type[e]

LEMMA TripleFits ==
  ASSUME NEW x, NEW e1, NEW e2, NEW e3
  PROVE  Fits(x, <<e1, e2, e3>>) <=> FitsAt(x, 1, e1) /\ FitsAt(x, 2, e2) /\ FitsAt(x, 3, e3)
BY DEF Fits, FitsAt

LEMMA QuintFits ==
  ASSUME NEW x, NEW e1, NEW e2, NEW e3, NEW e4, NEW e5
  PROVE  Fits(x, <<e1, e2, e3, e4, e5>>) <=>
           /\ FitsAt(x, 1, e1) /\ FitsAt(x, 2, e2) /\ FitsAt(x, 3, e3)
           /\ FitsAt(x, 4, e4) /\ FitsAt(x, 5, e5)
<1> DEFINE t == <<e1, e2, e3, e4, e5>>
<1>1. DOMAIN t = 1 .. 5 /\ t[1] = e1 /\ t[2] = e2 /\ t[3] = e3 /\ t[4] = e4 /\ t[5] = e5
  OBVIOUS
<1> HIDE DEF t
<1>2. Fits(x, t) <=> \A i \in 1 .. 5 : FitsAt(x, i, t[i])
  BY <1>1 DEF Fits, FitsAt
<1> QED
  BY <1>1, <1>2 DEF t

LEMMA ClearedFits ==
  ASSUME NEW x, NEW r, NEW i \in DOMAIN x.operand, NEW e \in Exists(x), Cleared(x, r)
  PROVE  /\ e \in At(r, i) <=> FitsAt(x, i, e)
         /\ ~Fixed(x, i) => (e \in OfType(r, Want(r, i)) <=> FitsAt(x, i, e))
<1>1. r.type = x.type /\ Exists(r) = Exists(x) /\ Want(r, i) = Want(x, i)
  BY DEF Cleared, SameElements, SameOperands, Exists, Want
<1>2. Fixed(r, i) = Fixed(x, i) /\ (Fixed(x, i) => Value(r, i) = Value(x, i))
  BY DEF Cleared, SameOperands, Fixed, Assigned, Value
<1> QED
  BY <1>1, <1>2 DEF At, FitsAt, OfType

LEMMA ClearedEnds3 ==
  ASSUME NEW x, NEW r, Typed(x), Cleared(x, r)
  PROVE  /\ Connectors(r) = Connectors(x) /\ Connectors(x) \subseteq Exists(x) /\ Exists(r) = Exists(x)
         /\ \A a : Source(r, a) = Source(x, a) /\ Target(r, a) = Target(x, a)
         /\ \A a \in Connectors(x) : Source(x, a) \in Exists(x) /\ Target(x, a) \in Exists(x)
BY DEF Cleared, SameElements, Connectors, Exists, Source, Target, Typed, IsMemory, OfType

LEMMA Find3Is ==
  ASSUME NEW x, NEW r, Typed(x), Cleared(x, r), DOMAIN x.operand = 1 .. 3, ~Fixed(x, 2)
  PROVE  Find3(r) = Constructions(x)
<1> DEFINE arc(a) == <<Source(x, a), a, Target(x, a)>>
           found == {a \in Connectors(x) \cap OfType(r, Want(r, 2)) :
                       Source(x, a) \in At(r, 1) /\ Target(x, a) \in At(r, 3)}
<1>1. Find3(r) = {arc(a) : a \in found}
  BY ClearedEnds3 DEF Find3, Iterator3
<1>2. Constructions(x) = {t \in {arc(a) : a \in Connectors(x)} : Fits(x, t)}
  BY DEF Constructions
<1>3. ASSUME NEW a \in Connectors(x)
      PROVE  a \in found <=> Fits(x, arc(a))
  <2>1. Source(x, a) \in Exists(x) /\ Target(x, a) \in Exists(x) /\ a \in Exists(x)
    BY ClearedEnds3
  <2>2. 1 \in DOMAIN x.operand /\ 2 \in DOMAIN x.operand /\ 3 \in DOMAIN x.operand
    OBVIOUS
  <2>3. Source(x, a) \in At(r, 1) <=> FitsAt(x, 1, Source(x, a))
    BY <2>1, <2>2, ClearedFits
  <2>4. Target(x, a) \in At(r, 3) <=> FitsAt(x, 3, Target(x, a))
    BY <2>1, <2>2, ClearedFits
  <2>5. a \in OfType(r, Want(r, 2)) <=> FitsAt(x, 2, a)
    BY <2>1, <2>2, ClearedFits
  <2> QED
    BY <2>3, <2>4, <2>5, TripleFits
<1> QED
  <2> HIDE DEF arc
  <2>1. found \subseteq Connectors(x)
    OBVIOUS
  <2> HIDE DEF found
  <2> QED
    BY <1>1, <1>2, <1>3, <2>1

\* Two arcs, the second of which leads to the first.
Both(x, a, b) == <<Source(x, a), a, Target(x, a), b, Source(x, b)>>
Pairs(x) == {q \in Connectors(x) \X Connectors(x) : Target(x, q[1]) = q[2]}

LEMMA FivesAre ==
  ASSUME NEW x, DOMAIN x.operand = 1 .. 5
  PROVE  Constructions(x) = {t \in {Both(x, q[2], q[1]) : q \in Pairs(x)} : Fits(x, t)}
<1>1. 1 .. 5 # 1 .. 3
  <2>1. 5 \in 1 .. 5 /\ 5 \notin 1 .. 3
    OBVIOUS
  <2> QED
    BY <2>1
<1> QED
  BY <1>1 DEF Constructions, Both, Pairs

LEMMA BothFits ==
  ASSUME NEW x, NEW r, NEW a \in Connectors(x), NEW b \in Connectors(x),
         Typed(x), Cleared(x, r), DOMAIN x.operand = 1 .. 5, ~Fixed(x, 2), ~Fixed(x, 4)
  PROVE  Fits(x, Both(x, a, b)) <=>
           /\ Source(x, a) \in At(r, 1) /\ a \in OfType(r, Want(r, 2)) /\ Target(x, a) \in At(r, 3)
           /\ b \in OfType(r, Want(r, 4)) /\ Source(x, b) \in At(r, 5)
<1>1. /\ Source(x, a) \in Exists(x) /\ Target(x, a) \in Exists(x) /\ Source(x, b) \in Exists(x)
      /\ a \in Exists(x) /\ b \in Exists(x)
  BY ClearedEnds3
<1>2. \A i \in {1, 2, 3, 4, 5} : i \in DOMAIN x.operand
  OBVIOUS
<1>3. Source(x, a) \in At(r, 1) <=> FitsAt(x, 1, Source(x, a))
  BY <1>1, <1>2, ClearedFits
<1>4. Target(x, a) \in At(r, 3) <=> FitsAt(x, 3, Target(x, a))
  BY <1>1, <1>2, ClearedFits
<1>5. Source(x, b) \in At(r, 5) <=> FitsAt(x, 5, Source(x, b))
  BY <1>1, <1>2, ClearedFits
<1>6. a \in OfType(r, Want(r, 2)) <=> FitsAt(x, 2, a)
  BY <1>1, <1>2, ClearedFits
<1>7. b \in OfType(r, Want(r, 4)) <=> FitsAt(x, 4, b)
  BY <1>1, <1>2, ClearedFits
<1> QED
  BY <1>3, <1>4, <1>5, <1>6, <1>7, QuintFits DEF Both

LEMMA IteratorYields ==
  ASSUME NEW m, NEW S, NEW A, NEW T, NEW u
  PROVE  u \in Iterator3(m, S, A, T) <=>
           \E a \in Connectors(m) :
             /\ a \in A /\ Source(m, a) \in S /\ Target(m, a) \in T
             /\ u = <<Source(m, a), a, Target(m, a)>>
BY DEF Iterator3

LEMMA Iterator5Yields ==
  ASSUME NEW m, NEW S, NEW A, NEW T, NEW B, NEW R, NEW t
  PROVE  t \in Iterator5(m, S, A, T, B, R) <=>
           \E a, b \in Connectors(m) :
             /\ a \in A /\ Source(m, a) \in S /\ Target(m, a) \in T
             /\ b \in B /\ Source(m, b) \in R /\ Target(m, b) = a
             /\ t = Both(m, a, b)
<1> DEFINE arc(a) == <<Source(m, a), a, Target(m, a)>>
           first(a)  == a \in A /\ Source(m, a) \in S /\ Target(m, a) \in T
           second(b) == b \in B /\ Source(m, b) \in R
<1>1. t \in Iterator5(m, S, A, T, B, R) <=>
        \E u \in Iterator3(m, S, A, T) : \E w \in Iterator3(m, R, B, {u[2]}) :
          t = <<u[1], u[2], u[3], w[2], w[1]>>
  <2> DEFINE yields(u) == {<<u[1], u[2], u[3], w[2], w[1]>> : w \in Iterator3(m, R, B, {u[2]})}
  <2>1. Iterator5(m, S, A, T, B, R) = UNION {yields(u) : u \in Iterator3(m, S, A, T)}
    BY DEF Iterator5
  <2>2. \A u : t \in yields(u) <=> \E w \in Iterator3(m, R, B, {u[2]}) : t = <<u[1], u[2], u[3], w[2], w[1]>>
    OBVIOUS
  <2> HIDE DEF yields
  <2> QED
    BY <2>1, <2>2
<1>2. \A u : u \in Iterator3(m, S, A, T) <=> \E a \in Connectors(m) : first(a) /\ u = arc(a)
  BY IteratorYields
<1>3. \A e, w : w \in Iterator3(m, R, B, {e}) <=>
        \E b \in Connectors(m) : second(b) /\ Target(m, b) = e /\ w = arc(b)
  <2> SUFFICES ASSUME NEW e, NEW w
               PROVE  w \in Iterator3(m, R, B, {e}) <=>
                        \E b \in Connectors(m) : second(b) /\ Target(m, b) = e /\ w = arc(b)
    OBVIOUS
  <2> QED
    BY IteratorYields
<1>4. \A a : arc(a)[1] = Source(m, a) /\ arc(a)[2] = a /\ arc(a)[3] = Target(m, a)
  OBVIOUS
<1> HIDE DEF first, second, arc
<1>5. t \in Iterator5(m, S, A, T, B, R) <=>
        \E a, b \in Connectors(m) : first(a) /\ second(b) /\ Target(m, b) = a /\ t = Both(m, a, b)
  <2>1. ASSUME NEW a \in Connectors(m), NEW b \in Connectors(m),
               first(a), second(b), Target(m, b) = a, t = Both(m, a, b)
        PROVE  t \in Iterator5(m, S, A, T, B, R)
    <3>1. arc(a) \in Iterator3(m, S, A, T) /\ arc(b) \in Iterator3(m, R, B, {arc(a)[2]})
      BY <1>2, <1>3, <1>4, <2>1
    <3>2. t = <<arc(a)[1], arc(a)[2], arc(a)[3], arc(b)[2], arc(b)[1]>>
      BY <1>4, <2>1 DEF Both
    <3> QED
      BY <1>1, <3>1, <3>2
  <2>2. ASSUME t \in Iterator5(m, S, A, T, B, R)
        PROVE  \E a, b \in Connectors(m) : first(a) /\ second(b) /\ Target(m, b) = a /\ t = Both(m, a, b)
    <3>1. PICK u \in Iterator3(m, S, A, T) : \E w \in Iterator3(m, R, B, {u[2]}) :
                 t = <<u[1], u[2], u[3], w[2], w[1]>>
      BY <1>1, <2>2
    <3>2. PICK w \in Iterator3(m, R, B, {u[2]}) : t = <<u[1], u[2], u[3], w[2], w[1]>>
      BY <3>1
    <3>3. PICK a \in Connectors(m) : first(a) /\ u = arc(a)
      BY <1>2
    <3>4. PICK b \in Connectors(m) : second(b) /\ Target(m, b) = u[2] /\ w = arc(b)
      <4> DEFINE e == u[2]
      <4>1. w \in Iterator3(m, R, B, {e})
        OBVIOUS
      <4> HIDE DEF e
      <4>2. \E b \in Connectors(m) : second(b) /\ Target(m, b) = e /\ w = arc(b)
        BY <1>3, <4>1
      <4> QED
        BY <4>2 DEF e
    <3>5. u[1] = Source(m, a) /\ u[2] = a /\ u[3] = Target(m, a) /\ w[1] = Source(m, b) /\ w[2] = b
      BY <1>4, <3>3, <3>4
    <3>6. t = Both(m, a, b) /\ Target(m, b) = a
      BY <3>2, <3>4, <3>5 DEF Both
    <3> QED
      BY <3>3, <3>4, <3>6
  <2> QED
    BY <2>1, <2>2
<1> QED
  BY <1>5 DEF first, second

LEMMA FiveIs ==
  ASSUME NEW x, NEW t, DOMAIN x.operand = 1 .. 5
  PROVE  t \in Constructions(x) <=>
           \E a, b \in Connectors(x) : Target(x, b) = a /\ t = Both(x, a, b) /\ Fits(x, t)
<1>1. \A q : q \in Pairs(x) <=> \E b, a \in Connectors(x) : q = <<b, a>> /\ Target(x, b) = a
  BY DEF Pairs
<1>2. t \in Constructions(x) <=> Fits(x, t) /\ \E q \in Pairs(x) : t = Both(x, q[2], q[1])
  BY FivesAre
<1>3. ASSUME NEW a \in Connectors(x), NEW b \in Connectors(x), Target(x, b) = a, t = Both(x, a, b), Fits(x, t)
      PROVE  t \in Constructions(x)
  <2>1. <<b, a>> \in Pairs(x) /\ <<b, a>>[2] = a /\ <<b, a>>[1] = b
    BY <1>1, <1>3
  <2> QED
    BY <1>2, <1>3, <2>1
<1>4. ASSUME t \in Constructions(x)
      PROVE  \E a, b \in Connectors(x) : Target(x, b) = a /\ t = Both(x, a, b) /\ Fits(x, t)
  BY <1>1, <1>2, <1>4
<1> QED
  BY <1>3, <1>4

LEMMA Find5Is ==
  ASSUME NEW x, NEW r, Typed(x), Cleared(x, r), DOMAIN x.operand = 1 .. 5, ~Fixed(x, 2), ~Fixed(x, 4)
  PROVE  Find5(r) = Constructions(x)
<1> DEFINE first(a)  == a \in OfType(r, Want(r, 2)) /\ Source(x, a) \in At(r, 1) /\ Target(x, a) \in At(r, 3)
           second(b) == b \in OfType(r, Want(r, 4)) /\ Source(x, b) \in At(r, 5)
<1>1. \A t : t \in Find5(r) <=>
        \E a, b \in Connectors(x) : first(a) /\ second(b) /\ Target(x, b) = a /\ t = Both(x, a, b)
  <2>1. \A a, b : Both(r, a, b) = Both(x, a, b)
    BY ClearedEnds3 DEF Both
  <2> SUFFICES ASSUME NEW t
               PROVE  t \in Find5(r) <=>
                        \E a, b \in Connectors(x) : first(a) /\ second(b) /\ Target(x, b) = a /\ t = Both(x, a, b)
    OBVIOUS
  <2> QED
    BY <2>1, ClearedEnds3, Iterator5Yields DEF Find5
<1>2. \A t : t \in Constructions(x) <=>
        \E a, b \in Connectors(x) : Target(x, b) = a /\ t = Both(x, a, b) /\ Fits(x, t)
  BY FiveIs
<1>3. \A a, b \in Connectors(x) : Fits(x, Both(x, a, b)) <=> first(a) /\ second(b)
  BY BothFits
<1> HIDE DEF first, second
<1> QED
  BY <1>1, <1>2, <1>3

\* What is asked for as a connector is one.
LEMMA ByRelationIs ==
  ASSUME NEW x, NEW r, Typed(x), Cleared(x, r), DOMAIN x.operand = 1 .. 5,
         FixedOnly(x, {5}), "arc" \in Want(x, 2)
  PROVE  ByRelation(r) = Constructions(x)
<1> DEFINE arc(g) == <<Source(r, g[3]), g[3], Target(r, g[3]), g[2], g[1]>>
           found == Iterator3(r, {Value(r, 5)}, OfType(r, Want(r, 4)), OfType(r, Want(r, 2)))
           fits(t) == Want(r, 1) \subseteq r.type[t[1]] /\ Want(r, 3) \subseteq r.type[t[3]]
<1>1. /\ ~Fixed(x, 1) /\ ~Fixed(x, 2) /\ ~Fixed(x, 3) /\ ~Fixed(x, 4) /\ Fixed(x, 5)
      /\ \A i \in {1, 2, 3, 4, 5} : i \in DOMAIN x.operand
  BY DEF FixedOnly, Assigned, Fixed
<1>2. /\ At(r, 1) = OfType(r, Want(r, 1)) /\ At(r, 3) = OfType(r, Want(r, 3)) /\ At(r, 5) = {Value(r, 5)}
      /\ r.type = x.type /\ Exists(r) = Exists(x) /\ Want(r, 2) = Want(x, 2)
  BY <1>1 DEF At, Cleared, SameOperands, SameElements, Fixed, Exists, Want
<1>3. OfType(r, Want(r, 2)) \subseteq Connectors(x)
  BY <1>2 DEF OfType, Typed, IsMemory
<1>4. \A t : t \in ByRelation(r) <=> fits(t) /\ \E g \in found : t = arc(g)
  BY DEF ByRelation
<1>5. \A g : g \in found <=>
        \E b \in Connectors(x) :
          /\ b \in OfType(r, Want(r, 4)) /\ Source(x, b) \in {Value(r, 5)} /\ Target(x, b) \in OfType(r, Want(r, 2))
          /\ g = <<Source(x, b), b, Target(x, b)>>
  <2> SUFFICES ASSUME NEW g
               PROVE  g \in found <=>
                        \E b \in Connectors(x) :
                          /\ b \in OfType(r, Want(r, 4)) /\ Source(x, b) \in {Value(r, 5)}
                          /\ Target(x, b) \in OfType(r, Want(r, 2))
                          /\ g = <<Source(x, b), b, Target(x, b)>>
    OBVIOUS
  <2> QED
    BY IteratorYields, ClearedEnds3
<1>6. \A b \in Connectors(x) : arc(<<Source(x, b), b, Target(x, b)>>) = Both(x, Target(x, b), b)
  BY ClearedEnds3 DEF Both
<1>7. \A a, b \in Connectors(x) :
        fits(Both(x, a, b)) <=> Source(x, a) \in At(r, 1) /\ Target(x, a) \in At(r, 3)
  <2>1. \A a, b : Both(x, a, b)[1] = Source(x, a) /\ Both(x, a, b)[3] = Target(x, a)
    BY DEF Both
  <2> QED
    BY <1>2, <2>1, ClearedEnds3 DEF OfType
<1>8. \A t : t \in Constructions(x) <=>
        \E a, b \in Connectors(x) : Target(x, b) = a /\ t = Both(x, a, b) /\ Fits(x, t)
  BY FiveIs
<1>9. \A a, b \in Connectors(x) : Fits(x, Both(x, a, b)) <=>
           /\ Source(x, a) \in At(r, 1) /\ a \in OfType(r, Want(r, 2)) /\ Target(x, a) \in At(r, 3)
           /\ b \in OfType(r, Want(r, 4)) /\ Source(x, b) \in At(r, 5)
  BY <1>1, BothFits
<1> HIDE DEF arc, found, fits
<1>10. \A t : t \in ByRelation(r) <=>
        \E b \in Connectors(x) :
          /\ b \in OfType(r, Want(r, 4)) /\ Source(x, b) \in At(r, 5) /\ Target(x, b) \in OfType(r, Want(r, 2))
          /\ t = Both(x, Target(x, b), b) /\ fits(t)
  <2> DEFINE triple(b) == <<Source(x, b), b, Target(x, b)>>
             follows(b) == /\ b \in OfType(r, Want(r, 4)) /\ Source(x, b) \in At(r, 5)
                           /\ Target(x, b) \in OfType(r, Want(r, 2))
  <2>1. \A g : g \in found <=> \E b \in Connectors(x) : follows(b) /\ g = triple(b)
    BY <1>2, <1>5
  <2>2. \A b \in Connectors(x) : arc(triple(b)) = Both(x, Target(x, b), b)
    BY <1>6
  <2> HIDE DEF triple, follows
  <2>3. \A t : (\E g \in found : t = arc(g)) <=> \E b \in Connectors(x) : follows(b) /\ t = Both(x, Target(x, b), b)
    BY <2>1, <2>2
  <2>4. \A t : t \in ByRelation(r) <=>
          \E b \in Connectors(x) : follows(b) /\ t = Both(x, Target(x, b), b) /\ fits(t)
    BY <1>4, <2>3
  <2> QED
    BY <2>4 DEF follows
<1>11. \A t : t \in Constructions(x) <=>
        \E b \in Connectors(x) :
          /\ b \in OfType(r, Want(r, 4)) /\ Source(x, b) \in At(r, 5) /\ Target(x, b) \in OfType(r, Want(r, 2))
          /\ t = Both(x, Target(x, b), b) /\ fits(t)
  <2>1. ASSUME NEW t \in Constructions(x)
        PROVE  \E b \in Connectors(x) :
                 /\ b \in OfType(r, Want(r, 4)) /\ Source(x, b) \in At(r, 5)
                 /\ Target(x, b) \in OfType(r, Want(r, 2))
                 /\ t = Both(x, Target(x, b), b) /\ fits(t)
    <3>1. PICK a \in Connectors(x) : \E b \in Connectors(x) : Target(x, b) = a /\ t = Both(x, a, b) /\ Fits(x, t)
      BY <1>8
    <3>2. PICK b \in Connectors(x) : Target(x, b) = a /\ t = Both(x, a, b) /\ Fits(x, t)
      BY <3>1
    <3> QED
      BY <1>7, <1>9, <3>2
  <2>2. ASSUME NEW t, NEW b \in Connectors(x),
               b \in OfType(r, Want(r, 4)), Source(x, b) \in At(r, 5), Target(x, b) \in OfType(r, Want(r, 2)),
               t = Both(x, Target(x, b), b), fits(t)
        PROVE  t \in Constructions(x)
    <3>1. Target(x, b) \in Connectors(x)
      BY <1>3, <2>2
    <3> QED
      BY <1>7, <1>8, <1>9, <2>2, <3>1
  <2> QED
    BY <2>1, <2>2
<1> QED
  BY <1>10, <1>11

LEMMA ConstructionsExist ==
  ASSUME NEW x, NEW t \in Constructions(x), NEW i \in DOMAIN x.operand,
         Typed(x), DOMAIN x.operand \in {1 .. 3, 1 .. 5}
  PROVE  t[i] \in Exists(x)
<1>1. CASE DOMAIN x.operand = 1 .. 3
  <2>1. PICK a \in Connectors(x) : t = <<Source(x, a), a, Target(x, a)>>
    BY <1>1 DEF Constructions
  <2>2. i = 1 \/ i = 2 \/ i = 3
    BY <1>1
  <2> QED
    BY <2>1, <2>2 DEF Typed, IsMemory, OfType, Source, Target
<1>2. CASE DOMAIN x.operand = 1 .. 5
  <2>1. PICK a \in Connectors(x) : \E b \in Connectors(x) : t = Both(x, a, b)
    BY <1>2, FiveIs
  <2>2. PICK b \in Connectors(x) : t = Both(x, a, b)
    BY <2>1
  <2>3. i = 1 \/ i = 2 \/ i = 3 \/ i = 4 \/ i = 5
    BY <1>2
  <2>4. t[1] = Source(x, a) /\ t[2] = a /\ t[3] = Target(x, a) /\ t[4] = b /\ t[5] = Source(x, b)
    BY <2>2 DEF Both
  <2>5. /\ Source(x, a) \in Exists(x) /\ Target(x, a) \in Exists(x) /\ Source(x, b) \in Exists(x)
        /\ a \in Exists(x) /\ b \in Exists(x)
    BY DEF Typed, IsMemory, OfType, Source, Target
  <2> QED
    BY <2>3, <2>4, <2>5
<1> QED
  BY <1>1, <1>2

-----------------------------------------------------------------------------
\* searchElStr3, searchElStr5
AssignStep(x, t, y) ==
  /\ DOMAIN y = DOMAIN x
  /\ SameElements(x, y)
  /\ y.set = x.set /\ y.out = x.out
  /\ y.operand = [i \in DOMAIN x.operand |->
                    IF i \in Assigned(x) THEN [x.operand[i] EXCEPT !.value = t[i]] ELSE x.operand[i]]
  /\ y.value = [v \in Variable |->
                  x.value[v] \cup {t[i] : i \in {j \in Assigned(x) : x.operand[j].addr = v}}]

LEMMA Assigning ==
  ASSUME NEW x, NEW t, Fields \subseteq DOMAIN x
  PROVE  AssignStep(x, t, Assign(x, t))
BY DEF Assign, Fields, SameElements, AssignStep

LEMMA AssignTyped ==
  ASSUME NEW x, NEW t, Typed(x), \A i \in Assigned(x) : t[i] \in Exists(x)
  PROVE  Typed(Assign(x, t))
<1> DEFINE y == Assign(x, t)
<1>1. AssignStep(x, t, y)
  BY Assigning DEF Typed
<1>2. \A i \in Assigned(x) : t[i] \in 1 .. x.fresh - 1
  BY DEF Typed, IsMemory
<1>3. \A i \in DOMAIN x.operand :
        /\ IsOperand(x, x.operand[i])
        /\ i \in Assigned(x) => IsOperand(x, [x.operand[i] EXCEPT !.value = t[i]])
  BY <1>2 DEF Typed, IsOperand, Operands
<1> HIDE DEF y
<1>4. IsMemory(y) /\ Exists(y) = Exists(x)
  BY <1>1 DEF AssignStep, Typed, IsMemory, SameElements, Exists, Connectors, Source, Target, OfType
<1>5. \A i \in DOMAIN y.operand : IsOperand(x, y.operand[i])
  BY <1>1, <1>3 DEF AssignStep
<1>6. y.value \in [Variable -> SUBSET Exists(y)]
  BY <1>1, <1>4 DEF AssignStep, Typed
<1> QED
  BY <1>1, <1>4, <1>5, <1>6 DEF AssignStep, Typed, IsOperand, SameElements, y

HoldsValues(x, y, t) ==
  \A v \in Variable :
    y.value[v] = IF AssignedTo(x, v) = {} THEN x.value[v] ELSE {t[i] : i \in AssignedTo(x, v)} \ {Nothing}

LEMMA SearchedIs ==
  ASSUME NEW x, NEW y, SameMemory(x, y),
         y.out = "success" => \E t \in Constructions(x) : HoldsValues(x, y, t),
         y.out = "unsuccess" => /\ Constructions(x) = {}
                                /\ \A v \in Variable : y.value[v] = IF AssignedTo(x, v) = {} THEN x.value[v] ELSE {}
  PROVE  Searched(x, y)
<1>1. \A v \in Variable : {Nothing : i \in AssignedTo(x, v)} \ {Nothing} = {}
  OBVIOUS
<1>2. ASSUME y.out = "unsuccess"
      PROVE  Constructions(x) = {} /\ \A v \in Variable :
               y.value[v] = IF AssignedTo(x, v) = {} THEN x.value[v] ELSE {Nothing : i \in AssignedTo(x, v)} \ {Nothing}
  BY <1>1, <1>2
<1> QED
  BY <1>2 DEF Searched, Values, HoldsValues

LEMMA FirstOfSearches ==
  ASSUME NEW x, NEW r, NEW y \in FirstOf(r, Constructions(x)), Typed(x), Cleared(x, r),
         DOMAIN x.operand \in {1 .. 3, 1 .. 5}
  PROVE  Proper(y) /\ Searched(x, y)
<1>1. CASE Constructions(x) = {}
  <2>1. y = Finish(r, "unsuccess")
    BY <1>1 DEF FirstOf, Unsuccess
  <2>2. Ended(x, r, y) /\ y.out = "unsuccess"
    BY <2>1, ClearedEnds
  <2>3. \A v \in Variable : y.value[v] = IF AssignedTo(x, v) = {} THEN x.value[v] ELSE {}
    BY <2>2 DEF Ended, Cleared
  <2>4. SameMemory(x, y) /\ Proper(y) /\ y.out # "success"
    BY <2>2 DEF Ended
  <2> QED
    BY <1>1, <2>3, <2>4, SearchedIs
<1>2. CASE Constructions(x) # {}
  <2>1. PICK t \in Constructions(x) : y = Finish(Assign(r, t), "success")
    BY <1>2 DEF FirstOf
  <2> DEFINE s == Assign(r, t)
  <2>2. /\ Typed(r) /\ Exists(r) = Exists(x) /\ Assigned(r) = Assigned(x)
        /\ Assigned(x) \subseteq DOMAIN x.operand
        /\ \A i \in Assigned(x) : r.operand[i].addr = x.operand[i].addr
    BY DEF Cleared, SameElements, Exists, Assigned, SameOperands
  <2>3. \A i \in Assigned(r) : t[i] \in Exists(r)
    BY <2>2, ConstructionsExist
  <2>4. AssignStep(r, t, s) /\ Typed(s)
    BY <2>2, <2>3, Assigning, AssignTyped DEF Typed
  <2> HIDE DEF s
  <2>5. /\ Typed(y) /\ y.out = "success"
        /\ SameElements(s, y) /\ y.value = s.value
    BY <2>1, <2>4, Finishing, FinishTyped DEF Typed, s
  <2>6. SameMemory(x, y)
    BY <2>4, <2>5 DEF AssignStep, SameElements, SameMemory, Cleared
  <2>7. ASSUME NEW v \in Variable
        PROVE  y.value[v] = IF AssignedTo(x, v) = {} THEN x.value[v] ELSE {t[i] : i \in AssignedTo(x, v)} \ {Nothing}
    <3>1. {j \in Assigned(r) : r.operand[j].addr = v} = AssignedTo(x, v)
      BY <2>2 DEF AssignedTo
    <3>2. y.value[v] = r.value[v] \cup {t[i] : i \in AssignedTo(x, v)}
      BY <2>4, <2>5, <3>1 DEF AssignStep
    <3>3. r.value[v] = IF AssignedTo(x, v) = {} THEN x.value[v] ELSE {}
      BY DEF Cleared
    <3>4. \A i \in AssignedTo(x, v) : t[i] # Nothing
      BY <2>2, <2>3 DEF AssignedTo, Typed, IsMemory, Nothing
    <3> QED
      BY <3>2, <3>3, <3>4
  <2> QED
    BY <2>5, <2>6, <2>7, SearchedIs DEF Proper, HoldsValues
<1> QED
  BY <1>1, <1>2

LEMMA ClearedFixed ==
  ASSUME NEW x, NEW r, Cleared(x, r)
  PROVE  /\ DOMAIN r.operand = DOMAIN x.operand
         /\ \A i \in DOMAIN x.operand : Fixed(r, i) = Fixed(x, i) /\ Want(r, i) = Want(x, i)
         /\ \A S : FixedOnly(r, S) <=> FixedOnly(x, S)
BY DEF Cleared, SameOperands, Fixed, Want, FixedOnly

LEMMA SearchElStr3Searches ==
  ASSUME NEW x, NEW y \in SearchElStr3(x), Ready(x), DOMAIN x.operand = 1 .. 3
  PROVE  Rejected(x, y) \/ (Proper(y) /\ Searched(x, y))
<1> DEFINE r == ResetValues(x)
<1>1. r.out = "error" \/ Cleared(x, r)
  BY ResetRuns DEF Ready
<1>2. CASE r.out = "error"
  BY <1>2 DEF SearchElStr3, Checked, Results, Rejected
<1>3. CASE Cleared(x, r) /\ RejectsSearchElStr3(r)
  BY <1>3 DEF SearchElStr3, Checked, Results, Error, Rejected, Cleared
<1>4. CASE Cleared(x, r) /\ ~RejectsSearchElStr3(r)
  <2>1. y \in IF ArcIsNoArc(r) THEN Unsuccess(r) ELSE IF Fixed(r, 2) THEN SearchByArc(r) ELSE SearchByEnds(r)
    BY <1>4 DEF SearchElStr3, Checked, Results, Cleared
  <2> HIDE DEF r
  <2>2. Typed(x) /\ Fixed(r, 2) = Fixed(x, 2) /\ (Fixed(x, 2) => Value(r, 2) = Value(x, 2))
    BY <1>4 DEF Ready, Cleared, Fixed, Value, Assigned, SameOperands
  <2> DEFINE arc(a) == <<Source(x, a), a, Target(x, a)>>
  <2>3. Constructions(x) = {t \in {arc(a) : a \in Connectors(x)} : Fits(x, t)}
    BY DEF Constructions
  <2>4. \A a : Fits(x, arc(a)) <=> FitsAt(x, 1, Source(x, a)) /\ FitsAt(x, 2, a) /\ FitsAt(x, 3, Target(x, a))
    BY TripleFits
  <2>5. CASE ArcIsNoArc(r)
    <3>1. Fixed(x, 2) /\ Value(x, 2) \notin Connectors(x)
      BY <1>4, <2>2, <2>5, ClearedEnds3 DEF ArcIsNoArc
    <3>2. Constructions(x) = {}
      BY <2>3, <2>4, <3>1 DEF FitsAt
    <3>3. y = Finish(r, "unsuccess")
      BY <2>1, <2>5 DEF Unsuccess
    <3>4. y \in FirstOf(r, Constructions(x))
      BY <3>2, <3>3 DEF FirstOf, Unsuccess
    <3> QED
      BY <1>4, <2>2, <3>4, FirstOfSearches
  <2>6. CASE ~ArcIsNoArc(r) /\ Fixed(r, 2)
    <3> DEFINE a == Value(r, 2)
    <3>1. a \in Connectors(x) /\ a = Value(x, 2) /\ Fixed(x, 2)
      BY <1>4, <2>2, <2>6, ClearedEnds3 DEF ArcIsNoArc
    <3>2. <<Source(r, a), a, Target(r, a)>> = arc(a)
      BY <1>4, <2>2, ClearedEnds3
    <3>3. y \in FirstOf(r, {u \in {arc(a)} : arc(a)[1] \in At(r, 1) /\ arc(a)[3] \in At(r, 3)})
      BY <2>1, <2>6, <3>2 DEF SearchByArc
    <3>4. Source(x, a) \in Exists(x) /\ Target(x, a) \in Exists(x) /\ 1 \in DOMAIN x.operand /\ 3 \in DOMAIN x.operand
      BY <1>4, <2>2, <3>1, ClearedEnds3
    <3>5. /\ Source(x, a) \in At(r, 1) <=> FitsAt(x, 1, Source(x, a))
          /\ Target(x, a) \in At(r, 3) <=> FitsAt(x, 3, Target(x, a))
      BY <1>4, <3>4, ClearedFits
    <3>6. \A b : FitsAt(x, 2, b) <=> b = a
      BY <3>1 DEF FitsAt
    <3>7. arc(a)[1] = Source(x, a) /\ arc(a)[3] = Target(x, a)
      OBVIOUS
    <3> HIDE DEF arc, a
    <3>8. {u \in {arc(a)} : arc(a)[1] \in At(r, 1) /\ arc(a)[3] \in At(r, 3)} = Constructions(x)
      BY <2>3, <2>4, <3>1, <3>5, <3>6, <3>7
    <3> QED
      BY <1>4, <2>2, <3>3, <3>8, FirstOfSearches
  <2>7. CASE ~ArcIsNoArc(r) /\ ~Fixed(r, 2)
    <3>1. y \in FirstOf(r, Find3(r))
      BY <2>1, <2>7 DEF SearchByEnds
    <3>2. Find3(r) = Constructions(x)
      BY <1>4, <2>2, <2>7, Find3Is
    <3> QED
      BY <1>4, <2>2, <3>1, <3>2, FirstOfSearches
  <2> QED
    BY <2>5, <2>6, <2>7
<1> QED
  BY <1>1, <1>2, <1>3, <1>4

\* What the five-element operators look for, whichever way they do.
LEMMA FoundStr5 ==
  ASSUME NEW x, NEW r, Ready(x), Cleared(x, r), DOMAIN x.operand = 1 .. 5, ~RejectsSearchElStr5(r)
  PROVE  (IF FixedOnly(r, {5}) THEN ByRelation(r) ELSE Find5(r)) = Constructions(x)
<1>1. ~Fixed(x, 2) /\ ~Fixed(x, 4) /\ ~IsNode(Want(x, 2)) /\ Typed(x)
  <2>1. ~Fixed(r, 2) /\ ~Fixed(r, 4) /\ ~IsNode(Want(r, 2))
    BY DEF RejectsSearchElStr5, MustBeAssigned, MustBeArc
  <2>2. 2 \in DOMAIN x.operand /\ 4 \in DOMAIN x.operand
    OBVIOUS
  <2> QED
    BY <2>1, <2>2, ClearedFixed DEF Ready
<1>2. CASE FixedOnly(r, {5})
  <2>1. FixedOnly(x, {5}) /\ "arc" \in Want(x, 2)
    BY <1>1, <1>2, ClearedFixed DEF Ready, IsNode
  <2> QED
    BY <1>1, <1>2, <2>1, ByRelationIs
<1>3. CASE ~FixedOnly(r, {5})
  BY <1>1, <1>3, Find5Is
<1> QED
  BY <1>2, <1>3

LEMMA SearchElStr5Searches ==
  ASSUME NEW x, NEW y \in SearchElStr5(x), Ready(x), DOMAIN x.operand = 1 .. 5
  PROVE  Rejected(x, y) \/ (Proper(y) /\ Searched(x, y))
<1> DEFINE r == ResetValues(x)
<1>1. r.out = "error" \/ Cleared(x, r)
  BY ResetRuns DEF Ready
<1>2. CASE r.out = "error"
  BY <1>2 DEF SearchElStr5, Checked, Results, Rejected
<1>3. CASE Cleared(x, r) /\ RejectsSearchElStr5(r)
  BY <1>3 DEF SearchElStr5, Checked, Results, Error, Rejected, Cleared
<1>4. CASE Cleared(x, r) /\ ~RejectsSearchElStr5(r)
  <2>1. y \in FirstOf(r, IF FixedOnly(r, {5}) THEN ByRelation(r) ELSE Find5(r))
    BY <1>4 DEF SearchElStr5, Checked, Results, Cleared
  <2> HIDE DEF r
  <2>2. y \in FirstOf(r, Constructions(x))
    BY <1>4, <2>1, FoundStr5
  <2> QED
    BY <1>4, <2>2, FirstOfSearches DEF Ready
<1> QED
  BY <1>1, <1>2, <1>3, <1>4

-----------------------------------------------------------------------------
\* Erasure.  Of the marked operands, the code erases enough: the others are
\* connectors at those.
ToBeErased(x) == Marked(x) \cap Assigned(x)

Enough(x, P) ==
  /\ P \subseteq ToBeErased(x)
  /\ \A i \in ToBeErased(x) :
       \/ i \in P
       \/ i = 2 /\ {1, 3} \cap P # {}
       \/ i = 4 /\ {1, 2, 3, 5} \cap P # {}

LEMMA FirstOfOne ==
  ASSUME NEW x, NEW a
  PROVE  FirstMarked(x, <<a>>) = {a} \cap Marked(x)
<1> DEFINE p == <<a>>
<1>1. DOMAIN p = 1 .. 1 /\ p[1] = a
  OBVIOUS
<1> HIDE DEF p
<1>2. DOMAIN p = {1}
  BY <1>1
<1>3. FirstMarked(x, p) = {a} \cap Marked(x)
  BY <1>1, <1>2 DEF FirstMarked
<1> QED
  BY <1>3 DEF p

LEMMA FirstOfTwo ==
  ASSUME NEW x, NEW a, NEW b
  PROVE  FirstMarked(x, <<a, b>>) = IF a \in Marked(x) THEN {a} ELSE {b} \cap Marked(x)
<1> DEFINE p == <<a, b>>
<1>1. DOMAIN p = {1, 2} /\ p[1] = a /\ p[2] = b
  OBVIOUS
<1> HIDE DEF p
<1>2. FirstMarked(x, p) = IF a \in Marked(x) THEN {a} ELSE {b} \cap Marked(x)
  BY <1>1 DEF FirstMarked
<1> QED
  BY <1>2 DEF p

LEMMA FirstOfThree ==
  ASSUME NEW x, NEW a, NEW b, NEW c
  PROVE  FirstMarked(x, <<a, b, c>>) =
           IF a \in Marked(x) THEN {a} ELSE IF b \in Marked(x) THEN {b} ELSE {c} \cap Marked(x)
<1> DEFINE p == <<a, b, c>>
<1>1. DOMAIN p = {1, 2, 3} /\ p[1] = a /\ p[2] = b /\ p[3] = c
  OBVIOUS
<1> HIDE DEF p
<1>2. FirstMarked(x, p) = IF a \in Marked(x) THEN {a} ELSE IF b \in Marked(x) THEN {b} ELSE {c} \cap Marked(x)
  BY <1>1 DEF FirstMarked
<1> QED
  BY <1>2 DEF p

LEMMA ErasedStr3Enough ==
  ASSUME NEW x, DOMAIN x.operand = 1 .. 3, \E given \in Given3 : FixedOnly(x, given)
  PROVE  Enough(x, ErasedStr3(x))
<1>1. DOMAIN x.operand = {1, 2, 3} /\ Assigned(x) \subseteq DOMAIN x.operand
  BY DEF Assigned
<1>2. CASE FixedOnly(x, {1, 3})
  <2>1. ErasedStr3(x) = FirstMarked(x, <<2>>) /\ Assigned(x) = {2}
    BY <1>1, <1>2 DEF ErasedStr3, FixedOnly
  <2>2. FirstMarked(x, <<2>>) = {2} \cap Marked(x)
    BY FirstOfOne
  <2>3. Enough(x, FirstMarked(x, <<2>>))
    BY <2>1, <2>2 DEF Enough, ToBeErased
  <2> QED
    BY <2>1, <2>3
<1>3. CASE FixedOnly(x, {3})
  <2>1. ErasedStr3(x) = FirstMarked(x, <<1, 2>>) /\ Assigned(x) = {1, 2}
    BY <1>1, <1>3 DEF ErasedStr3, FixedOnly
  <2>2. FirstMarked(x, <<1, 2>>) = IF 1 \in Marked(x) THEN {1} ELSE {2} \cap Marked(x)
    BY FirstOfTwo
  <2>3. Enough(x, FirstMarked(x, <<1, 2>>))
    BY <2>1, <2>2 DEF Enough, ToBeErased
  <2> QED
    BY <2>1, <2>3
<1>4. CASE FixedOnly(x, {1})
  <2>1. ErasedStr3(x) = FirstMarked(x, <<3, 2>>) /\ Assigned(x) = {2, 3}
    BY <1>1, <1>4 DEF ErasedStr3, FixedOnly
  <2>2. FirstMarked(x, <<3, 2>>) = IF 3 \in Marked(x) THEN {3} ELSE {2} \cap Marked(x)
    BY FirstOfTwo
  <2>3. Enough(x, FirstMarked(x, <<3, 2>>))
    BY <2>1, <2>2 DEF Enough, ToBeErased
  <2> QED
    BY <2>1, <2>3
<1> QED
  BY <1>2, <1>3, <1>4 DEF Given3

LEMMA ErasedStr5Enough ==
  ASSUME NEW x, DOMAIN x.operand = 1 .. 5, ~FixedOnly(x, {}), ~Fixed(x, 2), ~Fixed(x, 4)
  PROVE  Enough(x, ErasedStr5(x))
<1> DEFINE fixed == DOMAIN x.operand \ Assigned(x)
           M     == Marked(x)
           P     == ErasedStr5(x)
<1>1. DOMAIN x.operand = {1, 2, 3, 4, 5} /\ Assigned(x) \subseteq DOMAIN x.operand /\ {2, 4} \subseteq Assigned(x)
  BY DEF Assigned, Fixed
<1>2. fixed \subseteq {1, 3, 5} /\ fixed # {} /\ \A S : FixedOnly(x, S) <=> fixed = S
  BY <1>1 DEF FixedOnly
<1>3. ASSUME NEW S, fixed = S
      PROVE  Assigned(x) = {1, 2, 3, 4, 5} \ S
  BY <1>1, <1>3
<1> HIDE DEF fixed
<1>4. CASE fixed = {1}
  <2>0. /\ FixedOnly(x, {1})
        /\ ~FixedOnly(x, {5}) /\ ~FixedOnly(x, {3})
        /\ ~FixedOnly(x, {1, 3}) /\ ~FixedOnly(x, {3, 5}) /\ ~FixedOnly(x, {1, 5}) /\ ~FixedOnly(x, {1, 3, 5})
    BY <1>2, <1>4
  <2>1. P = MarkedWith(x, <<3, 2>>, 5, <<5, 4>>)
    BY <2>0 DEF ErasedStr5, ErasedGiven1
  <2>2. Assigned(x) = {2, 3, 4, 5}
    BY <1>3, <1>4
  <2>4. /\ FirstMarked(x, <<3, 2>>) = IF 3 \in M THEN {3} ELSE {2} \cap M
        /\ FirstMarked(x, <<5, 4>>) = IF 5 \in M THEN {5} ELSE {4} \cap M
    BY FirstOfTwo
  <2>3. P = IF 3 \in M THEN {3} \cup ({5} \cap M) ELSE IF 2 \in M THEN {2} \cup ({5} \cap M)
            ELSE IF 5 \in M THEN {5} ELSE {4} \cap M
    BY <2>1, <2>4 DEF MarkedWith
  <2> HIDE DEF P, M
  <2>5. Enough(x, P)
    BY <2>2, <2>3 DEF Enough, ToBeErased, M
  <2> QED
    BY <2>5 DEF P
<1>5. CASE fixed = {5}
  <2>0. /\ FixedOnly(x, {5})
        /\ ~FixedOnly(x, {1}) /\ ~FixedOnly(x, {3})
        /\ ~FixedOnly(x, {1, 3}) /\ ~FixedOnly(x, {3, 5}) /\ ~FixedOnly(x, {1, 5}) /\ ~FixedOnly(x, {1, 3, 5})
    BY <1>2, <1>5
  <2>1. P = MarkedWith(x, <<1>>, 3, <<3, 2, 4>>)
    BY <2>0 DEF ErasedStr5, ErasedGiven5
  <2>2. Assigned(x) = {1, 2, 3, 4}
    BY <1>3, <1>5
  <2>4. /\ FirstMarked(x, <<1>>) = {1} \cap M
        /\ FirstMarked(x, <<3, 2, 4>>) = IF 3 \in M THEN {3} ELSE IF 2 \in M THEN {2} ELSE {4} \cap M
    <3>1. FirstMarked(x, <<1>>) = {1} \cap M
      BY FirstOfOne
    <3>2. FirstMarked(x, <<3, 2, 4>>) = IF 3 \in M THEN {3} ELSE IF 2 \in M THEN {2} ELSE {4} \cap M
      BY FirstOfThree
    <3> QED
      BY <3>1, <3>2
  <2>3. P = IF 1 \in M THEN {1} \cup ({3} \cap M) ELSE IF 3 \in M THEN {3}
            ELSE IF 2 \in M THEN {2} ELSE {4} \cap M
    BY <2>1, <2>4 DEF MarkedWith
  <2> HIDE DEF P, M
  <2>5. Enough(x, P)
    BY <2>2, <2>3 DEF Enough, ToBeErased, M
  <2> QED
    BY <2>5 DEF P
<1>6. CASE fixed = {3}
  <2>0. /\ FixedOnly(x, {3})
        /\ ~FixedOnly(x, {1}) /\ ~FixedOnly(x, {5})
        /\ ~FixedOnly(x, {1, 3}) /\ ~FixedOnly(x, {3, 5}) /\ ~FixedOnly(x, {1, 5}) /\ ~FixedOnly(x, {1, 3, 5})
    BY <1>2, <1>6
  <2>1. P = MarkedWith(x, <<1, 2>>, 5, <<5, 4>>)
    BY <2>0 DEF ErasedStr5, ErasedGiven3
  <2>2. Assigned(x) = {1, 2, 4, 5}
    BY <1>3, <1>6
  <2>4. /\ FirstMarked(x, <<1, 2>>) = IF 1 \in M THEN {1} ELSE {2} \cap M
        /\ FirstMarked(x, <<5, 4>>) = IF 5 \in M THEN {5} ELSE {4} \cap M
    BY FirstOfTwo
  <2>3. P = IF 1 \in M THEN {1} \cup ({5} \cap M) ELSE IF 2 \in M THEN {2} \cup ({5} \cap M)
            ELSE IF 5 \in M THEN {5} ELSE {4} \cap M
    BY <2>1, <2>4 DEF MarkedWith
  <2> HIDE DEF P, M
  <2>5. Enough(x, P)
    BY <2>2, <2>3 DEF Enough, ToBeErased, M
  <2> QED
    BY <2>5 DEF P
<1>7. CASE fixed = {1, 3}
  <2>0. /\ FixedOnly(x, {1, 3})
        /\ ~FixedOnly(x, {1}) /\ ~FixedOnly(x, {5}) /\ ~FixedOnly(x, {3})
        /\ ~FixedOnly(x, {3, 5}) /\ ~FixedOnly(x, {1, 5}) /\ ~FixedOnly(x, {1, 3, 5})
    BY <1>2, <1>7
  <2>1. P = MarkedWith(x, <<2>>, 5, <<5, 4>>)
    BY <2>0 DEF ErasedStr5, ErasedGiven13
  <2>2. Assigned(x) = {2, 4, 5}
    BY <1>3, <1>7
  <2>4. /\ FirstMarked(x, <<2>>) = {2} \cap M
        /\ FirstMarked(x, <<5, 4>>) = IF 5 \in M THEN {5} ELSE {4} \cap M
    BY FirstOfOne, FirstOfTwo
  <2>3. P = IF 2 \in M THEN {2} \cup ({5} \cap M) ELSE IF 5 \in M THEN {5} ELSE {4} \cap M
    BY <2>1, <2>4 DEF MarkedWith
  <2> HIDE DEF P, M
  <2>5. Enough(x, P)
    BY <2>2, <2>3 DEF Enough, ToBeErased, M
  <2> QED
    BY <2>5 DEF P
<1>8. CASE fixed = {3, 5}
  <2>0. /\ FixedOnly(x, {3, 5})
        /\ ~FixedOnly(x, {1}) /\ ~FixedOnly(x, {5}) /\ ~FixedOnly(x, {3})
        /\ ~FixedOnly(x, {1, 3}) /\ ~FixedOnly(x, {1, 5}) /\ ~FixedOnly(x, {1, 3, 5})
    BY <1>2, <1>8
  <2>1. P = FirstMarked(x, <<1, 2, 4>>)
    BY <2>0 DEF ErasedStr5, ErasedGiven35
  <2>2. Assigned(x) = {1, 2, 4}
    BY <1>3, <1>8
  <2>4. FirstMarked(x, <<1, 2, 4>>) = IF 1 \in M THEN {1} ELSE IF 2 \in M THEN {2} ELSE {4} \cap M
    BY FirstOfThree
  <2> HIDE DEF P, M
  <2>5. Enough(x, P)
    BY <2>1, <2>2, <2>4 DEF Enough, ToBeErased, M
  <2> QED
    BY <2>5 DEF P
<1>9. CASE fixed = {1, 5}
  <2>0. /\ FixedOnly(x, {1, 5})
        /\ ~FixedOnly(x, {1}) /\ ~FixedOnly(x, {5}) /\ ~FixedOnly(x, {3})
        /\ ~FixedOnly(x, {1, 3}) /\ ~FixedOnly(x, {3, 5}) /\ ~FixedOnly(x, {1, 3, 5})
    BY <1>2, <1>9
  <2>1. P = FirstMarked(x, <<3, 2, 4>>)
    BY <2>0 DEF ErasedStr5, ErasedGiven15
  <2>2. Assigned(x) = {2, 3, 4}
    BY <1>3, <1>9
  <2>4. FirstMarked(x, <<3, 2, 4>>) = IF 3 \in M THEN {3} ELSE IF 2 \in M THEN {2} ELSE {4} \cap M
    BY FirstOfThree
  <2> HIDE DEF P, M
  <2>5. Enough(x, P)
    BY <2>1, <2>2, <2>4 DEF Enough, ToBeErased, M
  <2> QED
    BY <2>5 DEF P
<1>10. CASE fixed = {1, 3, 5}
  <2>0. /\ FixedOnly(x, {1, 3, 5})
        /\ ~FixedOnly(x, {1}) /\ ~FixedOnly(x, {5}) /\ ~FixedOnly(x, {3})
        /\ ~FixedOnly(x, {1, 3}) /\ ~FixedOnly(x, {3, 5}) /\ ~FixedOnly(x, {1, 5})
    BY <1>2, <1>10
  <2>1. P = FirstMarked(x, <<2, 4>>)
    BY <2>0 DEF ErasedStr5, ErasedGiven135
  <2>2. Assigned(x) = {2, 4}
    BY <1>3, <1>10
  <2>4. FirstMarked(x, <<2, 4>>) = IF 2 \in M THEN {2} ELSE {4} \cap M
    BY FirstOfTwo
  <2> HIDE DEF P, M
  <2>5. Enough(x, P)
    BY <2>1, <2>2, <2>4 DEF Enough, ToBeErased, M
  <2> QED
    BY <2>5 DEF P
<1>11. \/ fixed = {1} \/ fixed = {5} \/ fixed = {3} \/ fixed = {1, 3}
       \/ fixed = {3, 5} \/ fixed = {1, 5} \/ fixed = {1, 3, 5}
  BY <1>2
<1> QED
  BY <1>4, <1>5, <1>6, <1>7, <1>8, <1>9, <1>10, <1>11

\* A construction loses the same elements, whichever of those that are to be
\* erased the code erases.
Part(t, P) == {t[i] : i \in P}

LEMMA EnoughErased ==
  ASSUME NEW x, NEW t \in Constructions(x), NEW P, Typed(x), DOMAIN x.operand \in {1 .. 3, 1 .. 5}, Enough(x, P)
  PROVE  Cascade(x, Part(t, P)) = Cascade(x, ToErase(x, t))
<1> DEFINE S == Part(t, P)
           T == ToErase(x, t)
           H == Hangs(x, S)
<1>1. P \subseteq ToBeErased(x) /\ ToBeErased(x) \subseteq DOMAIN x.operand
  BY DEF Enough, ToBeErased, Assigned
<1>2. S \subseteq T /\ T = {t[i] : i \in ToBeErased(x)}
  BY <1>1 DEF Part, ToErase, ToBeErased
<1>3. T \subseteq Exists(x)
  BY <1>1, <1>2, ConstructionsExist
<1>4. \A i \in P : t[i] \in S
  BY DEF Part
<1>5. PICK a \in Connectors(x) : t[2] = a /\ t[1] = Source(x, a) /\ t[3] = Target(x, a)
  <2>1. CASE DOMAIN x.operand = 1 .. 3
    <3>1. PICK a \in Connectors(x) : t = <<Source(x, a), a, Target(x, a)>>
      BY <2>1 DEF Constructions
    <3> QED
      BY <3>1
  <2>2. CASE DOMAIN x.operand = 1 .. 5
    BY <2>2, FiveIs DEF Both
  <2> QED
    BY <2>1, <2>2
<1>6. Closed(x, S, H) /\ H \subseteq Connectors(x)
  BY HangsIsClosed
<1> HIDE DEF S, H
<1>7. {1, 3} \cap P # {} => t[2] \in H
  BY <1>4, <1>5, <1>6 DEF Closed
<1>8. \A i \in ToBeErased(x) : t[i] \in S \cup H
  <2>1. CASE DOMAIN x.operand = 1 .. 3
    <3>1. 4 \notin ToBeErased(x)
      BY <1>1, <2>1
    <3> QED
      BY <1>4, <1>7, <3>1 DEF Enough
  <2>2. CASE DOMAIN x.operand = 1 .. 5
    <3>1. PICK b \in Connectors(x) : t[4] = b /\ t[5] = Source(x, b) /\ t[2] = Target(x, b)
      BY <2>2, FiveIs DEF Both
    <3>2. t[2] \in S \cup H \/ t[5] \in S => t[4] \in H
      BY <1>6, <3>1 DEF Closed
    <3> QED
      BY <1>4, <1>7, <3>2 DEF Enough
  <2> QED
    BY <2>1, <2>2
<1>9. T \subseteq S \cup H
  BY <1>2, <1>8
<1> HIDE DEF T
<1>10. Connectors(x) \subseteq Exists(x)
  BY DEF Typed, IsMemory, OfType
<1>11. Cascade(x, T) = Cascade(x, S)
  BY <1>2, <1>3, <1>9, <1>10, CascadeSame DEF H
<1> QED
  BY <1>11 DEF S, T

LEMMA ClearedCascade ==
  ASSUME NEW x, NEW r, NEW S, Cleared(x, r)
  PROVE  Cascade(r, S) = Cascade(x, S)
<1>1. r.type = x.type /\ r.ends = x.ends
  BY DEF Cleared, SameElements
<1> QED
  BY <1>1 DEF Cascade, Hangs, Connectors, Exists, Source, Target

LEMMA ErasedEnds ==
  ASSUME NEW x, NEW r, NEW S, Cleared(x, r)
  PROVE  LET y == Finish(Erase(r, S), "success")
         IN  /\ Proper(y) /\ y.out = "success"
             /\ Exists(y) = Exists(x) \ Cascade(x, S)
<1> DEFINE s == Erase(r, S)
           y == Finish(s, "success")
<1>1. Typed(s) /\ EraseStep(r, Cascade(r, S), s)
  BY EraseTyped, ElementErased DEF Cleared, Typed
<1> HIDE DEF s
<1>2. Typed(y) /\ y.out = "success" /\ y.type = s.type
  BY <1>1, Finishing, FinishTyped DEF Typed, SameElements
<1>3. Exists(y) = Exists(r) \ Cascade(r, S)
  BY <1>1, <1>2 DEF EraseStep, Exists
<1>4. Exists(r) = Exists(x)
  BY DEF Cleared, SameElements, Exists
<1> QED
  BY <1>2, <1>3, <1>4, ClearedCascade DEF Proper, s

\* What is erased of the one construction that is found.
LEMMA EraseOneErases ==
  ASSUME NEW x, NEW r, NEW P, NEW y \in EraseOne(r, Constructions(x), P),
         Typed(x), Cleared(x, r), DOMAIN x.operand \in {1 .. 3, 1 .. 5}, Enough(x, P)
  PROVE  Proper(y) /\ ErasedOne(x, y)
<1>1. CASE Constructions(x) = {}
  <2>1. y = Finish(r, "unsuccess")
    BY <1>1 DEF EraseOne, Unsuccess
  <2>2. Ended(x, r, y) /\ y.out = "unsuccess"
    BY <2>1, ClearedEnds
  <2> QED
    BY <1>1, <2>2 DEF Ended, ErasedOne
<1>2. CASE Constructions(x) # {}
  <2>1. PICK t \in Constructions(x) : y = Finish(Erase(r, Part(t, P)), "success")
    BY <1>2 DEF EraseOne, ErasePart, Part
  <2>2. Proper(y) /\ y.out = "success" /\ Exists(y) = Exists(x) \ Cascade(x, Part(t, P))
    BY <2>1, ErasedEnds
  <2> QED
    BY <2>2, EnoughErased DEF ErasedOne
<1> QED
  BY <1>1, <1>2

LEMMA EnoughCleared ==
  ASSUME NEW x, NEW r, NEW P, Cleared(x, r), Enough(r, P)
  PROVE  Enough(x, P)
BY DEF Cleared, Enough, ToBeErased

LEMMA FoundStr3 ==
  ASSUME NEW x, NEW r, Ready(x), Cleared(x, r), DOMAIN x.operand = 1 .. 3, ~RejectsEraseElStr3(r)
  PROVE  Find3(r) = Constructions(x) /\ Enough(x, ErasedStr3(r))
<1>1. DOMAIN r.operand = 1 .. 3 /\ \E given \in Given3 : FixedOnly(r, given)
  BY ClearedFixed DEF RejectsEraseElStr3
<1>2. ~Fixed(r, 2)
  <2>1. 2 \in DOMAIN r.operand /\ \A given \in Given3 : 2 \notin given
    BY <1>1 DEF Given3
  <2> QED
    BY <1>1, <2>1 DEF FixedOnly, Assigned, Fixed
<1>3. ~Fixed(x, 2) /\ Typed(x)
  BY <1>2, ClearedFixed DEF Ready
<1>4. Enough(r, ErasedStr3(r))
  BY <1>1, ErasedStr3Enough
<1> QED
  BY <1>3, <1>4, Find3Is, EnoughCleared

LEMMA EnoughStr5 ==
  ASSUME NEW x, NEW r, Ready(x), Cleared(x, r), DOMAIN x.operand = 1 .. 5, ~RejectsSearchElStr5(r)
  PROVE  Enough(x, ErasedStr5(r))
<1>1. DOMAIN r.operand = 1 .. 5 /\ ~FixedOnly(r, {}) /\ ~Fixed(r, 2) /\ ~Fixed(r, 4)
  BY ClearedFixed DEF RejectsSearchElStr5, MustBeAssigned
<1> QED
  BY <1>1, ErasedStr5Enough, EnoughCleared

LEMMA EraseElErases ==
  ASSUME NEW x, NEW y \in EraseEl(x), Ready(x)
  PROVE  Rejected(x, y) \/ Proper(y)
<1> DEFINE r == ResetValues(x)
           rejects == ~Fixed(r, 1) \/ Valueless(r, {1})
<1>1. r.out = "error" \/ Cleared(x, r)
  BY ResetRuns DEF Ready
<1>2. CASE r.out = "error"
  BY <1>2 DEF EraseEl, Checked, Results, Rejected
<1>3. CASE Cleared(x, r) /\ rejects
  BY <1>3 DEF EraseEl, Checked, Results, Error, Rejected, Cleared
<1>4. CASE Cleared(x, r) /\ ~rejects
  <2>1. y = Finish(Erase(r, {Value(r, 1)}), "success")
    BY <1>4 DEF EraseEl, Checked, Results, Cleared, Success
  <2> QED
    BY <1>4, <2>1, ErasedEnds
<1> QED
  BY <1>1, <1>2, <1>3, <1>4

LEMMA EraseElStr3Erases ==
  ASSUME NEW x, NEW y \in EraseElStr3(x), Ready(x), DOMAIN x.operand = 1 .. 3
  PROVE  Rejected(x, y) \/ (Proper(y) /\ ErasedOne(x, y))
<1> DEFINE r == ResetValues(x)
<1>1. r.out = "error" \/ Cleared(x, r)
  BY ResetRuns DEF Ready
<1>2. CASE r.out = "error"
  BY <1>2 DEF EraseElStr3, Checked, Results, Rejected
<1>3. CASE Cleared(x, r) /\ RejectsEraseElStr3(r)
  BY <1>3 DEF EraseElStr3, Checked, Results, Error, Rejected, Cleared
<1>4. CASE Cleared(x, r) /\ ~RejectsEraseElStr3(r)
  <2>1. y \in EraseOne(r, Find3(r), ErasedStr3(r))
    BY <1>4 DEF EraseElStr3, Checked, Results, Cleared
  <2> HIDE DEF r
  <2>2. y \in EraseOne(r, Constructions(x), ErasedStr3(r)) /\ Enough(x, ErasedStr3(r))
    BY <1>4, <2>1, FoundStr3
  <2> QED
    BY <1>4, <2>2, EraseOneErases DEF Ready
<1> QED
  BY <1>1, <1>2, <1>3, <1>4

LEMMA EraseElStr5Erases ==
  ASSUME NEW x, NEW y \in EraseElStr5(x), Ready(x), DOMAIN x.operand = 1 .. 5
  PROVE  Rejected(x, y) \/ (Proper(y) /\ ErasedOne(x, y))
<1> DEFINE r == ResetValues(x)
<1>1. r.out = "error" \/ Cleared(x, r)
  BY ResetRuns DEF Ready
<1>2. CASE r.out = "error"
  BY <1>2 DEF EraseElStr5, Checked, Results, Rejected
<1>3. CASE Cleared(x, r) /\ RejectsEraseElStr5(r)
  BY <1>3 DEF EraseElStr5, Checked, Results, Error, Rejected, Cleared
<1>4. CASE Cleared(x, r) /\ ~RejectsEraseElStr5(r)
  <2>1. y \in EraseOne(r, IF FixedOnly(r, {5}) THEN ByRelation(r) ELSE Find5(r), ErasedStr5(r))
    BY <1>4 DEF EraseElStr5, Checked, Results, Cleared
  <2>2. ~RejectsSearchElStr5(r)
    BY <1>4 DEF RejectsEraseElStr5
  <2> HIDE DEF r
  <2>3. y \in EraseOne(r, Constructions(x), ErasedStr5(r)) /\ Enough(x, ErasedStr5(r))
    BY <1>4, <2>1, <2>2, FoundStr5, EnoughStr5
  <2> QED
    BY <1>4, <2>3, EraseOneErases DEF Ready
<1> QED
  BY <1>1, <1>2, <1>3, <1>4

\* There are finitely many constructions.
LEMMA ConstructionsFinite ==
  ASSUME NEW x, Typed(x), DOMAIN x.operand \in {1 .. 3, 1 .. 5}
  PROVE  IsFiniteSet(Constructions(x))
<1>1. IsFiniteSet(Connectors(x))
  BY FiniteMemory, FS_Subset DEF Typed, IsMemory, OfType
<1>2. CASE DOMAIN x.operand = 1 .. 3
  <2> DEFINE all == {<<Source(x, a), a, Target(x, a)>> : a \in Connectors(x)}
             f   == [a \in Connectors(x) |-> <<Source(x, a), a, Target(x, a)>>]
  <2>1. f \in Surjection(Connectors(x), all)
    BY DEF Surjection
  <2>2. Constructions(x) \subseteq all
    BY <1>2 DEF Constructions
  <2> HIDE DEF all, f
  <2> QED
    BY <1>1, <2>1, <2>2, FS_Surjection, FS_Subset
<1>3. CASE DOMAIN x.operand = 1 .. 5
  <2> DEFINE all == {Both(x, q[2], q[1]) : q \in Pairs(x)}
             f   == [q \in Pairs(x) |-> Both(x, q[2], q[1])]
  <2>1. f \in Surjection(Pairs(x), all)
    BY DEF Surjection
  <2>2. Constructions(x) \subseteq all
    BY <1>3, FivesAre
  <2> HIDE DEF all, f
  <2>3. IsFiniteSet(Connectors(x) \X Connectors(x)) /\ Pairs(x) \subseteq Connectors(x) \X Connectors(x)
    BY <1>1, FS_Product DEF Pairs
  <2>4. IsFiniteSet(Pairs(x))
    BY <2>3, FS_Subset
  <2> QED
    BY <2>1, <2>2, <2>4, FS_Surjection, FS_Subset
<1> QED
  BY <1>2, <1>3

\* An order of the constructions has them all.
LEMMA OrderHasAll ==
  ASSUME NEW C, IsFiniteSet(C), NEW p \in SetToSeqs(C)
  PROVE  Range(p) = C
<1> DEFINE D == 1 .. Cardinality(C)
<1>1. p \in [D -> C] /\ \A i, j \in D : i # j => p[i] # p[j]
  BY DEF SetToSeqs
<1>2. Cardinality(C) \in Nat
  BY FS_CardinalityType
<1>3. IsFiniteSet(D) /\ Cardinality(D) = Cardinality(C)
  <2>1. 1 \in Int /\ Cardinality(C) \in Int
    BY <1>2
  <2> HIDE DEF D
  <2> QED
    BY <1>2, <2>1, FS_Interval DEF D
<1> HIDE DEF D
<1>4. p \in Injection(D, C)
  BY <1>1 DEF Injection, IsInjective
<1>5. p \in Surjection(D, C)
  BY <1>3, <1>4, FS_Injection
<1> QED
  BY <1>1, <1>5 DEF Surjection, Range

LEMMA CascadeParts ==
  ASSUME NEW x, NEW F, NEW e \in Cascade(x, UNION F)
  PROVE  \E S \in F : e \in Cascade(x, S)
BY HangsOnUnion DEF Cascade

LEMMA CascadeMore ==
  ASSUME NEW x, NEW S, NEW T, S \subseteq T
  PROVE  Cascade(x, S) \subseteq Cascade(x, T)
BY HangsNoMore DEF Cascade

AllParts(D, P) == UNION {Part(t, P) : t \in D}

\* Of the constructions D erased in an order, each was whole when its turn
\* came, and each of the others had lost an element to one of them.
LEMMA BrokenByAnother ==
  ASSUME NEW x, NEW r, NEW P, NEW p \in SetToSeqs(Constructions(x)), NEW D \in ErasedInOrder(r, p, P),
         Typed(x), Cleared(x, r), DOMAIN x.operand \in {1 .. 3, 1 .. 5}
  PROVE  /\ D \subseteq Constructions(x)
         /\ \A t \in Constructions(x) \ D : \E u \in D : Range(t) \cap Cascade(x, Part(u, P)) # {}
<1>1. Range(p) = Constructions(x)
  BY ConstructionsFinite, OrderHasAll
<1> DEFINE parts(E) == UNION {{t[i] : i \in P} : t \in E}
           whole(t, E) == Range(t) \cap Cascade(r, parts(E)) = {}
           earlier(k) == D \cap {p[j] : j \in 1 .. k - 1}
<1>2. /\ D \subseteq Range(p)
      /\ \A k \in DOMAIN p : p[k] \in D <=> whole(p[k], earlier(k))
  BY DEF ErasedInOrder
<1>3. \A E : parts(E) = AllParts(E, P)
  BY DEF AllParts, Part
<1>4. \A k : earlier(k) \subseteq D
  OBVIOUS
<1>5. \A t, E : whole(t, E) <=> Range(t) \cap Cascade(x, AllParts(E, P)) = {}
  <2>1. \A S : Cascade(r, S) = Cascade(x, S)
    BY ClearedCascade
  <2> HIDE DEF parts
  <2>2. \A E : Cascade(r, parts(E)) = Cascade(x, AllParts(E, P))
    BY <1>3, <2>1
  <2> QED
    BY <2>2
<1> HIDE DEF parts, whole, earlier
<1>6. ASSUME NEW t \in Constructions(x) \ D
      PROVE  \E u \in D : Range(t) \cap Cascade(x, Part(u, P)) # {}
  <2>1. PICK k \in DOMAIN p : p[k] = t
    BY <1>1 DEF Range
  <2>2. Range(t) \cap Cascade(x, AllParts(earlier(k), P)) # {}
    BY <1>2, <1>5, <2>1
  <2>3. PICK e \in Range(t) : e \in Cascade(x, AllParts(earlier(k), P))
    BY <2>2
  <2>4. PICK S \in {Part(u, P) : u \in earlier(k)} : e \in Cascade(x, S)
    BY <2>3, CascadeParts DEF AllParts
  <2>5. PICK u \in earlier(k) : e \in Cascade(x, Part(u, P))
    BY <2>4
  <2> QED
    BY <1>4, <2>3, <2>5
<1> QED
  BY <1>1, <1>2, <1>6

LEMMA EraseAllErases ==
  ASSUME NEW x, NEW r, NEW P, NEW y \in EraseAll(r, Constructions(x), P),
         Typed(x), Cleared(x, r), DOMAIN x.operand \in {1 .. 3, 1 .. 5}, Enough(x, P)
  PROVE  Proper(y) /\ ErasedAll(x, y)
<1> DEFINE C == Constructions(x)
<1>1. CASE C = {}
  <2>1. y = Finish(r, "unsuccess")
    BY <1>1 DEF EraseAll, Unsuccess
  <2>2. Ended(x, r, y) /\ y.out = "unsuccess"
    BY <2>1, ClearedEnds
  <2> QED
    BY <1>1, <2>2 DEF Ended, ErasedAll
<1>2. CASE C # {}
  <2>1. PICK D \in UNION {ErasedInOrder(r, p, P) : p \in SetToSeqs(C)} : y = Finish(Erase(r, AllParts(D, P)), "success")
    BY <1>2 DEF EraseAll, AllParts, Part
  <2>2. PICK p \in SetToSeqs(C) : D \in ErasedInOrder(r, p, P)
    BY <2>1
  <2>3. /\ D \subseteq C
        /\ \A t \in C \ D : \E u \in D : Range(t) \cap Cascade(x, Part(u, P)) # {}
    BY <2>2, BrokenByAnother
  <2> DEFINE gone == Cascade(x, AllParts(D, P))
  <2>4. Proper(y) /\ y.out = "success" /\ Exists(y) = Exists(x) \ gone
    BY <2>1, ErasedEnds
  <2>5. \A u \in D : Cascade(x, Part(u, P)) \subseteq gone
    BY CascadeMore DEF AllParts
  <2>6. \A u \in C : Cascade(x, Part(u, P)) = Cascade(x, ToErase(x, u))
    BY EnoughErased
  <2>7. \A u \in C : ToErase(x, u) \subseteq Cascade(x, ToErase(x, u))
    <3>1. \A u \in C : ToErase(x, u) \subseteq Exists(x)
      BY ConstructionsExist DEF ToErase, Assigned
    <3> QED
      BY <3>1 DEF Cascade
  <2>8. gone \subseteq Cascade(x, UNION {ToErase(x, t) : t \in C})
    <3>1. \A u \in C : Part(u, P) \subseteq ToErase(x, u)
      BY DEF Part, ToErase, Enough, ToBeErased
    <3>2. AllParts(D, P) \subseteq UNION {ToErase(x, t) : t \in C}
      BY <2>3, <3>1 DEF AllParts
    <3> QED
      BY <3>2, CascadeMore
  <2>9. ASSUME ToBeErased(x) # {}, NEW t \in D
        PROVE  ~(Range(t) \subseteq Exists(y))
    <3>1. PICK i \in P : i \in ToBeErased(x)
      BY <2>9 DEF Enough
    <3>2. t[i] \in ToErase(x, t) /\ i \in DOMAIN x.operand
      BY <3>1 DEF ToErase, ToBeErased, Assigned
    <3>3. t[i] \in gone
      BY <2>3, <2>5, <2>6, <2>7, <3>2
    <3>4. DOMAIN t = DOMAIN x.operand
      <4>1. CASE DOMAIN x.operand = 1 .. 3
        BY <2>3, <4>1 DEF Constructions
      <4>2. CASE DOMAIN x.operand = 1 .. 5
        BY <2>3, <4>2, FiveIs DEF Both
      <4> QED
        BY <4>1, <4>2
    <3>5. t[i] \in Range(t)
      BY <3>2, <3>4 DEF Range
    <3> QED
      BY <2>4, <3>3, <3>5
  <2> HIDE DEF gone, C
  <2>10. ASSUME NEW t \in C \ D
         PROVE  /\ ~(Range(t) \subseteq Exists(y))
                /\ \E u \in C \ {t} : Cascade(x, ToErase(x, u)) \cap Range(t) # {}
    <3>1. PICK u \in D : Range(t) \cap Cascade(x, Part(u, P)) # {}
      BY <2>3
    <3> QED
      BY <2>3, <2>4, <2>5, <2>6, <3>1
  <2>11. \A t \in C : \/ ToErase(x, t) \cap Exists(y) = {}
                      \/ \E u \in C \ {t} : Cascade(x, ToErase(x, u)) \cap Range(t) # {}
    BY <2>4, <2>5, <2>6, <2>7, <2>10
  <2>12. ToBeErased(x) # {} => \A t \in C : ~(Range(t) \subseteq Exists(y))
    BY <2>9, <2>10
  <2>13. Exists(x) \ Exists(y) \subseteq Cascade(x, UNION {ToErase(x, t) : t \in C})
    BY <2>4, <2>8
  <2> QED
    BY <2>4, <2>11, <2>12, <2>13 DEF ErasedAll, C, ToBeErased
<1> QED
  BY <1>1, <1>2

LEMMA EraseSetStr3Erases ==
  ASSUME NEW x, NEW y \in EraseSetStr3(x), Ready(x), DOMAIN x.operand = 1 .. 3
  PROVE  Rejected(x, y) \/ (Proper(y) /\ ErasedAll(x, y))
<1> DEFINE r == ResetValues(x)
<1>1. r.out = "error" \/ Cleared(x, r)
  BY ResetRuns DEF Ready
<1>2. CASE r.out = "error"
  BY <1>2 DEF EraseSetStr3, Checked, Results, Rejected
<1>3. CASE Cleared(x, r) /\ RejectsEraseSetStr3(r)
  BY <1>3 DEF EraseSetStr3, Checked, Results, Error, Rejected, Cleared
<1>4. CASE Cleared(x, r) /\ ~RejectsEraseSetStr3(r)
  <2>1. y \in EraseAll(r, Find3(r), ErasedStr3(r))
    BY <1>4 DEF EraseSetStr3, Checked, Results, Cleared
  <2>2. ~RejectsEraseElStr3(r)
    BY <1>4 DEF RejectsEraseSetStr3
  <2> HIDE DEF r
  <2>3. y \in EraseAll(r, Constructions(x), ErasedStr3(r)) /\ Enough(x, ErasedStr3(r))
    BY <1>4, <2>1, <2>2, FoundStr3
  <2> QED
    BY <1>4, <2>3, EraseAllErases DEF Ready
<1> QED
  BY <1>1, <1>2, <1>3, <1>4

LEMMA EraseSetStr5Erases ==
  ASSUME NEW x, NEW y \in EraseSetStr5(x), Ready(x), DOMAIN x.operand = 1 .. 5
  PROVE  Rejected(x, y) \/ (Proper(y) /\ ErasedAll(x, y))
<1> DEFINE r == ResetValues(x)
<1>1. r.out = "error" \/ Cleared(x, r)
  BY ResetRuns DEF Ready
<1>2. CASE r.out = "error"
  BY <1>2 DEF EraseSetStr5, Checked, Results, Rejected
<1>3. CASE Cleared(x, r) /\ RejectsEraseSetStr5(r)
  BY <1>3 DEF EraseSetStr5, Checked, Results, Error, Rejected, Cleared
<1>4. CASE Cleared(x, r) /\ ~RejectsEraseSetStr5(r)
  <2>1. y \in IF FixedOnly(r, {5}) THEN EraseAllByRelation(r) ELSE EraseAllByEnds(r)
    BY <1>4 DEF EraseSetStr5, Checked, Results, Cleared
  <2>2. y \in EraseAll(r, IF FixedOnly(r, {5}) THEN ByRelation(r) ELSE Find5(r), ErasedStr5(r))
    BY <2>1 DEF EraseAllByRelation, EraseAllByEnds
  <2>3. ~RejectsSearchElStr5(r)
    BY <1>4 DEF RejectsEraseSetStr5
  <2> HIDE DEF r
  <2>4. y \in EraseAll(r, Constructions(x), ErasedStr5(r)) /\ Enough(x, ErasedStr5(r))
    BY <1>4, <2>2, <2>3, FoundStr5, EnoughStr5
  <2> QED
    BY <1>4, <2>4, EraseAllErases DEF Ready
<1> QED
  BY <1>1, <1>2, <1>3, <1>4

\* The elements of a set one after the other.
LEMMA SetInOrder ==
  ASSUME NEW S, IsFiniteSet(S)
  PROVE  \E n \in Nat : /\ SetToSeq(S) \in Bijection(1 .. n, S)
                        /\ Len(SetToSeq(S)) = n
<1> DEFINE n == Cardinality(S)
           s == SetToSeq(S)
<1>1. n \in Nat /\ \E f : f \in Bijection(1 .. n, S)
  BY FS_CardinalityType DEF ExistsBijection
<1>2. \E f \in [1 .. n -> S] : IsInjective(f)
  BY <1>1 DEF Bijection, Injection
<1>3. s \in [1 .. n -> S] /\ IsInjective(s)
  BY <1>2 DEF SetToSeq
<1> HIDE DEF s
<1>4. s \in SetToSeqs(S)
  BY <1>3 DEF SetToSeqs, IsInjective
<1>5. Range(s) = S
  BY <1>4, OrderHasAll
<1> HIDE DEF n
<1>6. s \in Bijection(1 .. n, S)
  BY <1>3, <1>5 DEF Bijection, Injection, Surjection, Range
<1>7. Len(s) = n
  BY <1>1, <1>3
<1> QED
  BY <1>1, <1>6, <1>7 DEF s

-----------------------------------------------------------------------------
\* A world operators can be parsed in: what there was when the first was.
Parsable(w) ==
  /\ Fields \subseteq DOMAIN w
  /\ IsMemory(w)
  /\ w.value \in [Variable -> SUBSET Exists(w)]
  /\ \E u \in Worlds : Exists(u) \subseteq Exists(w)

LEMMA WorldsParsable ==
  ASSUME NEW w \in Worlds
  PROVE  Parsable(w)
BY WorldsAssumption DEF Parsable, Fields

\* What is read when an operator is parsed.
LEMMA ReadValues ==
  ASSUME NEW w, NEW values \in ValuesRead(w), NEW v \in Variable, Parsable(w)
  PROVE  values[v] \in Exists(w) \cup {Nothing}
<1> DEFINE several == {u \in Variable : \E d, e \in w.value[u] : d # e}
           any(u)  == IF w.value[u] = {} THEN Nothing ELSE CHOOSE e \in w.value[u] : TRUE
           found   == {f \in [several -> UNION {w.value[u] : u \in several}] : \A u \in several : f[u] \in w.value[u]}
<1>1. PICK f \in found : values = [u \in Variable |-> IF u \in several THEN f[u] ELSE any(u)]
  BY DEF ValuesRead
<1>2. w.value[v] \subseteq Exists(w)
  BY DEF Parsable
<1>3. values[v] = IF v \in several THEN f[v] ELSE any(v)
  BY <1>1
<1>4. CASE v \in several
  <2>1. f[v] \in w.value[v]
    BY <1>1, <1>4
  <2> QED
    BY <1>2, <1>3, <1>4, <2>1
<1>5. CASE v \notin several
  <2>1. any(v) \in w.value[v] \cup {Nothing}
    OBVIOUS
  <2> QED
    BY <1>2, <1>3, <1>5, <2>1
<1> QED
  BY <1>4, <1>5

\* An operand of a job.
IsRead(w, o, p) ==
  /\ IsOperand(w, p)
  /\ p.value \in Exists(w) \cup {Nothing}
  /\ p.fixed = o.fixed /\ p.type = o.type

LEMMA OperandRead ==
  ASSUME NEW w, NEW values \in ValuesRead(w), NEW j \in Jobs, Parsable(w),
         NEW o \in Range(j.operand) \cup Range(j.set)
  PROVE  IsRead(w, o, Read(o, values))
<1> DEFINE p == Read(o, values)
<1>1. /\ o.const \in BOOLEAN /\ o.fixed \in BOOLEAN /\ o.erase \in BOOLEAN
      /\ o.type \subseteq Flag /\ ~({"arc", "node"} \subseteq o.type)
      /\ o.const => o.addr \in Exists(w)
      /\ ~o.const => o.addr \in Variable
  BY JobsAssumption DEF Parsable
<1>2. Exists(w) \subseteq 1 .. w.fresh - 1
  BY DEF Parsable, IsMemory
<1>3. /\ DOMAIN p = {"addr", "const", "fixed", "type", "erase", "value"}
      /\ p = [addr |-> p.addr, const |-> p.const, fixed |-> p.fixed, type |-> p.type, erase |-> p.erase, value |-> p.value]
      /\ p.addr = o.addr /\ p.const = o.const /\ p.fixed = o.fixed /\ p.type = o.type /\ p.erase = o.erase
      /\ p.value = IF o.const THEN o.addr ELSE values[o.addr]
  BY DEF Read
<1> HIDE DEF p
<1>4. p.value \in Exists(w) \cup {Nothing}
  BY <1>1, <1>3, ReadValues
<1>5. p.addr \in Variable \cup 1 .. w.fresh - 1 /\ p.value \in 1 .. w.fresh - 1 \cup {Nothing}
  BY <1>1, <1>2, <1>3, <1>4
<1>6. p \in Operands(1 .. w.fresh - 1)
  BY <1>1, <1>3, <1>5 DEF Operands
<1>7. IsOperand(w, p)
  BY <1>1, <1>3, <1>6 DEF IsOperand
<1> QED
  BY <1>3, <1>4, <1>7 DEF IsRead, p

ParsedStep(w, j, y) ==
  /\ DOMAIN y = DOMAIN w
  /\ SameElements(w, y)
  /\ y.value = w.value /\ y.out = "run"
  /\ DOMAIN y.operand = DOMAIN j.operand /\ DOMAIN y.set = DOMAIN j.set
  /\ \A i \in DOMAIN j.operand : IsRead(w, j.operand[i], y.operand[i])
  /\ \A i \in DOMAIN j.set : IsRead(w, j.set[i], y.set[i])

LEMMA Parsing ==
  ASSUME NEW w, NEW values \in ValuesRead(w), NEW j \in Jobs, Parsable(w)
  PROVE  LET y == Parsed(w, j, values)
         IN  ParsedStep(w, j, y) /\ Typed(y)
<1> DEFINE y == Parsed(w, j, values)
           operand(i) == Read(j.operand[i], values)
           set(i)     == Read(j.set[i], values)
<1>1. Fields \subseteq DOMAIN w
  BY DEF Parsable
<1>2. \A i \in DOMAIN j.operand : IsRead(w, j.operand[i], operand(i))
  BY OperandRead DEF Range
<1>3. \A i \in DOMAIN j.set : IsRead(w, j.set[i], set(i))
  BY OperandRead DEF Range
<1> HIDE DEF operand, set
<1>4. y.operand = [i \in DOMAIN j.operand |-> operand(i)]
  BY <1>1 DEF Parsed, Fields, operand
<1>5. y.set = [i \in DOMAIN j.set |-> set(i)]
  BY <1>1 DEF Parsed, Fields, set
<1>6. DOMAIN y = DOMAIN w /\ y.out = "run" /\ SameElements(w, y) /\ y.value = w.value
  BY <1>1 DEF Parsed, Fields, SameElements
<1> HIDE DEF y
<1>7. IsMemory(y) /\ Exists(y) = Exists(w) /\ y.fresh = w.fresh
  BY <1>6 DEF SameElements, Parsable, IsMemory, Exists, Connectors, Source, Target, OfType
<1>8. y.value \in [Variable -> SUBSET Exists(y)]
  BY <1>6, <1>7 DEF Parsable
<1>9. DOMAIN j.operand \subseteq 1 .. 5
  BY JobsAssumption
<1>10. ParsedStep(w, j, y)
  BY <1>2, <1>3, <1>4, <1>5, <1>6 DEF ParsedStep
<1>11. Typed(y)
  BY <1>1, <1>6, <1>7, <1>8, <1>9, <1>10 DEF Typed, ParsedStep, IsRead, IsOperand
<1> QED
  BY <1>10, <1>11 DEF y
=============================================================================
