-------------------------- MODULE ElementOperators --------------------------
(***************************************************************************)
(* The operators that generate, search and erase elements, ask about them  *)
(* and give variables their values.  An operator is created with its       *)
(* operands, whose values are read then and kept in the operand (Parse),   *)
(* and executed later (Execute).  An execution is a function from the      *)
(* world the operator finds to the worlds it may leave: it is translated   *)
(* case by case from the `switch' of its Execute.                          *)
(*                                                                         *)
(* A world x is a memory (module Elements) with                            *)
(*    value    the values of each variable: targets of its value arcs,     *)
(*    operand  the operands of the operator,                               *)
(*    set      its set operands, at the positions that have one,           *)
(*    out      how the operator has ended, "run" until it has.             *)
(* "thrown": an exception left Execute and the operator never ends.        *)
(* Iterators yield the constructions that were there when they were made,  *)
(* in any order, but for those that have lost an element since.            *)
(***************************************************************************)
EXTENDS Elements, FiniteSetsExt, SequencesExt

CONSTANTS
  Variable,   \* scp-variables of the process
  Worlds,     \* what an operator may find: memory and values of variables
  Jobs        \* the operators considered: [kind, operand, set]

Outcome == {"success", "unsuccess", "error", "thrown"}
Flag    == {"node", "link", "class", "arc", "perm"}
ConstNode       == {"node"}
ConstPermPosArc == {"arc", "perm"}

VARIABLES
  kind,    \* the operator
  world,   \* what it works on
  before   \* history: the world when its execution began

vars == <<kind, world, before>>

\* Operators by the number of their operands.
Single  == {"genEl", "eraseEl", "ifType", "ifVarAssign", "varErase", "printEl", "print", "printNl"}
Pairing == {"ifCoin", "varAssign"}
Triple  == {"genElStr3", "searchElStr3", "searchSetStr3", "eraseElStr3", "eraseSetStr3"}
Quint   == {"genElStr5", "searchElStr5", "searchSetStr5", "eraseElStr5", "eraseSetStr5"}
Templated == {"sys_gen", "sys_search"}  \* module TemplateOperators

\* Connectors are the elements of a type of arcs, and their ends are elements.
IsMemory(m) ==
  /\ m.fresh \in Nat \ {Nothing}
  /\ Connectors(m) = OfType(m, {"arc"}) /\ Exists(m) \subseteq 1 .. m.fresh - 1
  /\ m.type \in [Exists(m) -> SUBSET Flag]
  /\ m.ends \in [Connectors(m) -> Exists(m) \X Exists(m)]

\* sc-memory is sound when an operator is created.
ASSUME WorldsAssumption ==
  \A w \in Worlds :
    /\ {"type", "ends", "fresh", "value", "operand", "set", "out"} \subseteq DOMAIN w
    /\ IsMemory(w)
    /\ w.value \in [Variable -> SUBSET Exists(w)]
    /\ w.operand = <<>> /\ w.set = <<>> /\ w.out = "none"

\* An operator is created with all its operands, elements that exist or
\* variables, of types that there are, and sets stand beside operands to be
\* assigned (module Operands: ParsedComplete).  The second of five is asked for
\* as a connector, or as a node and rejected: Execute asks for its ends.
ASSUME JobsAssumption ==
  \A j \in Jobs :
    /\ {"kind", "operand", "set"} \subseteq DOMAIN j
    /\ j.kind # "none" /\ ("template" \in DOMAIN j <=> j.kind \in Templated)
    /\ j.kind \in Single  => DOMAIN j.operand = 1 .. 1
    /\ j.kind \in Pairing => DOMAIN j.operand = 1 .. 2
    /\ j.kind \in Triple  => DOMAIN j.operand = 1 .. 3
    /\ j.kind \in Quint   => DOMAIN j.operand = 1 .. 5 /\ j.operand[2].type \cap {"arc", "node"} # {}
    /\ DOMAIN j.operand \subseteq 1 .. 5
    /\ DOMAIN j.set \subseteq {i \in DOMAIN j.operand : ~j.operand[i].fixed}
    /\ \A o \in Range(j.operand) \cup Range(j.set) :
         /\ DOMAIN o = {"addr", "const", "fixed", "type", "erase"}
         /\ {o.const, o.fixed, o.erase} \subseteq BOOLEAN
         /\ o.type \subseteq Flag /\ ~({"arc", "node"} \subseteq o.type)
         /\ IF o.const THEN \A w \in Worlds : o.addr \in Exists(w) ELSE o.addr \in Variable

-----------------------------------------------------------------------------
\* SCPOperand and SCPOperator

Fixed(x, i)    == x.operand[i].fixed
Assigned(x)    == {i \in DOMAIN x.operand : ~x.operand[i].fixed}
Marked(x)      == {i \in DOMAIN x.operand : x.operand[i].erase}
Value(x, i)    == x.operand[i].value
Want(x, i)     == x.operand[i].type
SetPositions(x) == DOMAIN x.set

Finish(x, out) == [x EXCEPT !.out = out]
Success(x)     == {Finish(x, "success")}
Unsuccess(x)   == {Finish(x, "unsuccess")}
Error(x)       == {Finish(x, "error")}

\* The element takes with it its connectors and the value arcs to them.
Erase(x, S) ==
  LET gone == Cascade(x, S)
  IN  [Without(x, gone) EXCEPT !.value = [v \in Variable |-> @[v] \ gone]]

\* Mutant: the error does not stop the loop.
ResetValues_Continues(x) ==
  LET reset == {i \in Assigned(x) : ~x.operand[i].const}
  IN  [x EXCEPT
        !.value = [v \in Variable |->
                     IF \E i \in reset : x.operand[i].addr = v THEN {} ELSE @[v]],
        !.operand = [i \in DOMAIN @ |->
                     IF i \in reset THEN [@[i] EXCEPT !.value = Nothing] ELSE @[i]],
        !.out = IF reset = Assigned(x) THEN @ ELSE "error"]

\* Operands are reset one after the other, up to a constant among those to
\* be assigned.
ResetValues(x) ==
  LET constants == {i \in Assigned(x) : x.operand[i].const}
      reset == {i \in Assigned(x) : \A c \in constants : i < c}
  IN  [x EXCEPT
        !.value = [v \in Variable |->
                     IF \E i \in reset : x.operand[i].addr = v THEN {} ELSE @[v]],
        !.operand = [i \in DOMAIN @ |->
                     IF i \in reset THEN [@[i] EXCEPT !.value = Nothing] ELSE @[i]],
        !.out = IF constants = {} THEN @ ELSE "error"]

\* The operand's variable gets a value arc more.
AddValue(x, i, e) ==
  [x EXCEPT !.operand[i].value = e, !.value[x.operand[i].addr] = @ \cup {e}]

\* Mutant: an invalid address is no exception.
SetValue_Invalid(x, i, e) == AddValue(x, i, e)

SetValue(x, i, e) == IF e = Nothing THEN Finish(x, "thrown") ELSE AddValue(x, i, e)

\* Nothing more is done after an exception or an early return.
Then(x, next)       == IF x.out = "run" THEN next ELSE x
Results(x, results) == IF x.out = "run" THEN results ELSE {x}

CreateNodeOrLink(x, i) ==
  IF ~IsNode(Want(x, i))
  THEN Finish(x, "thrown")
  ELSE SetValue(GenerateNode(x, Want(x, i)), i, x.fresh)

\* A FIXED operand without a value, among those at the given positions.
Valueless(x, positions) ==
  \E i \in positions : Fixed(x, i) /\ Value(x, i) = Nothing

MustBeAssigned(x, positions) == \E i \in positions : Fixed(x, i)
MustBeArc(x, positions)      == \E i \in positions : IsNode(Want(x, i))

\* Every Execute begins with ResetValues and its checks.
Checked(x, Rejected(_), Body(_)) ==
  LET r == ResetValues(x)
  IN  Results(r, IF Rejected(r) THEN Error(r) ELSE Body(r))

\* The elements an iterator takes at a position: the value of a FIXED
\* operand, any of its type for an ASSIGN one.
At(x, i) == IF Fixed(x, i) THEN {Value(x, i)} ELSE OfType(x, Want(x, i))

Find3(x) == Iterator3(x, At(x, 1), OfType(x, Want(x, 2)), At(x, 3))
Find5(x) == Iterator5(x, At(x, 1), OfType(x, Want(x, 2)), At(x, 3),
                         OfType(x, Want(x, 4)), At(x, 5))

FixedOnly(x, positions) == DOMAIN x.operand \ Assigned(x) = positions

-----------------------------------------------------------------------------
\* genEl, genElStr3, genElStr5

Provide(x, i) == IF Fixed(x, i) THEN x ELSE CreateNodeOrLink(x, i)

Connect(x, i, source, target) ==
  IF ~CanConnect(x, Want(x, i), source, target)
  THEN Finish(x, "thrown")
  ELSE SetValue(GenerateConnector(x, Want(x, i), source, target), i, x.fresh)

GenEl(x) ==
  Checked(x, LAMBDA r : Fixed(r, 1),
             LAMBDA r : LET s == CreateNodeOrLink(r, 1) IN Results(s, Success(s)))

RejectsGenElStr3(r) ==
  MustBeAssigned(r, {2}) \/ MustBeArc(r, {2}) \/ Valueless(r, {1, 3})

ConnectStr3(r) ==
  LET first == Provide(r, 1)
      third == Then(first, Provide(first, 3))
  IN  Then(third, Connect(third, 2, Value(third, 1), Value(third, 3)))

GenElStr3(x) ==
  Checked(x, RejectsGenElStr3, LAMBDA r : LET s == ConnectStr3(r) IN Results(s, Success(s)))

RejectsGenElStr5(r) ==
  \/ MustBeAssigned(r, {2, 4})
  \/ MustBeArc(r, {2, 4})
  \/ Valueless(r, {1, 3, 5})

\* When all are to be assigned, the nodes are generated before any of them
\* becomes a value.
AddNode(s, i) ==
  IF IsNode(Want(s, i))
  THEN [GenerateNode(s, Want(s, i)) EXCEPT !.operand[i].value = s.fresh]
  ELSE Finish(s, "thrown")

GiveValue(s, i) == SetValue(s, i, Value(s, i))

ProvideAll(r) ==
  LET first == AddNode(r, 1)
      third == Then(first, AddNode(first, 3))
      nodes == Then(third, AddNode(third, 5))
  IN  Then(nodes, GiveValue(GiveValue(GiveValue(nodes, 1), 3), 5))

ProvideSome(r) ==
  LET first == Provide(r, 1)
      third == Then(first, Provide(first, 3))
  IN  Then(third, Provide(third, 5))

\* Mutant: the second arc leads to the third element.
ConnectStr5_ToElement(r) ==
  LET nodes == IF FixedOnly(r, {}) THEN ProvideAll(r) ELSE ProvideSome(r)
      arc   == Then(nodes, Connect(nodes, 2, Value(nodes, 1), Value(nodes, 3)))
  IN  Then(arc, Connect(arc, 4, Value(arc, 5), Value(arc, 3)))

ConnectStr5(r) ==
  LET nodes == IF FixedOnly(r, {}) THEN ProvideAll(r) ELSE ProvideSome(r)
      arc   == Then(nodes, Connect(nodes, 2, Value(nodes, 1), Value(nodes, 3)))
  IN  Then(arc, Connect(arc, 4, Value(arc, 5), Value(arc, 2)))

GenElStr5(x) ==
  Checked(x, RejectsGenElStr5, LAMBDA r : LET s == ConnectStr5(r) IN Results(s, Success(s)))

-----------------------------------------------------------------------------
\* searchElStr3, searchElStr5

\* The operands to be assigned are given their part of the construction.
Assign(x, t) ==
  [x EXCEPT
     !.operand = [i \in DOMAIN @ |-> IF i \in Assigned(x) THEN [@[i] EXCEPT !.value = t[i]] ELSE @[i]],
     !.value = [v \in Variable |->
                  @[v] \cup {t[i] : i \in {j \in Assigned(x) : x.operand[j].addr = v}}]]

FirstOf(x, constructions) ==
  IF constructions = {}
  THEN Unsuccess(x)
  ELSE {Finish(Assign(x, t), "success") : t \in constructions}

\* Not an error but a failure: the second operand may be a node.
ArcIsNoArc(r) == Fixed(r, 2) /\ Value(r, 2) \notin Connectors(r)

RejectsSearchElStr3(r) ==
  \/ Valueless(r, {1, 2})
  \/ ~Fixed(r, 2) /\ MustBeArc(r, {2})
  \/ ~ArcIsNoArc(r) /\ (Valueless(r, {3}) \/ FixedOnly(r, {}))

SearchByEnds(r) == FirstOf(r, Find3(r))

\* Mutant: the target of a given arc is not compared.
SearchByArc_AnyTarget(r) ==
  LET a == Value(r, 2)
      t == <<Source(r, a), a, Target(r, a)>>
  IN  FirstOf(r, {u \in {t} : t[1] \in At(r, 1)})

\* The arc is given: its ends must be the given ones or of the given type.
SearchByArc(r) ==
  LET a == Value(r, 2)
      t == <<Source(r, a), a, Target(r, a)>>
  IN  FirstOf(r, {u \in {t} : t[1] \in At(r, 1) /\ t[3] \in At(r, 3)})

SearchElStr3(x) ==
  Checked(x, RejectsSearchElStr3,
          LAMBDA r : IF ArcIsNoArc(r) THEN Unsuccess(r)
                     ELSE IF Fixed(r, 2) THEN SearchByArc(r) ELSE SearchByEnds(r))

RejectsSearchElStr5(r) ==
  \/ MustBeAssigned(r, {2, 4})
  \/ MustBeArc(r, {2, 4})
  \/ Valueless(r, {1, 3, 5})
  \/ FixedOnly(r, {})

\* Only the fifth element is given: the arcs to its arcs' targets are
\* followed, and the ends of what they lead to are looked at one by one.
ByRelation(r) ==
  { t \in { <<Source(r, g[3]), g[3], Target(r, g[3]), g[2], g[1]>> :
              g \in Iterator3(r, {Value(r, 5)}, OfType(r, Want(r, 4)), OfType(r, Want(r, 2))) } :
      Want(r, 1) \subseteq r.type[t[1]] /\ Want(r, 3) \subseteq r.type[t[3]] }

SearchElStr5(x) ==
  Checked(x, RejectsSearchElStr5,
          LAMBDA r : FirstOf(r, IF FixedOnly(r, {5}) THEN ByRelation(r) ELSE Find5(r)))

-----------------------------------------------------------------------------
\* searchSetStr3, searchSetStr5: every construction found is collected in
\* the sets; the values are those of the first one.

\* A FIXED set operand names the set to add to, else a new one is made.
OpenSet(x, i) ==
  IF x.set[i].fixed
  THEN x
  ELSE [GenerateNode(x, ConstNode) EXCEPT
          !.set[i].value = x.fresh, !.value[x.set[i].addr] = @ \cup {x.fresh}]

AddToSet(x, i, e) ==
  IF e \notin Exists(x)
  THEN Finish(x, "thrown")
  ELSE GenerateConnector(x, ConstPermPosArc, x.set[i].value, e)

\* The first construction opens the set.
CollectAt(x, i, e) ==
  LET y == SetValue(OpenSet(x, i), i, e)
  IN  Then(y, AddToSet(y, i, e))

\* Mutant: all are collected at the place of the second operand.
CollectMore_Second(x, i, constructions) ==
  LET others == SetToSeq(constructions)
      arcs   == x.fresh .. x.fresh + Len(others) - 1
  IN  [x EXCEPT
        !.type = With(@, arcs, LAMBDA a : ConstPermPosArc),
        !.ends = With(@, arcs, LAMBDA a : <<x.set[i].value, others[a - x.fresh + 1][2]>>),
        !.fresh = @ + Len(others)]

\* The others add to it: what they consist of exists, as an iterator has
\* yielded them.
CollectMore(x, i, constructions) ==
  LET others == SetToSeq(constructions)
      arcs   == x.fresh .. x.fresh + Len(others) - 1
  IN  [x EXCEPT
        !.type = With(@, arcs, LAMBDA a : ConstPermPosArc),
        !.ends = With(@, arcs, LAMBDA a : <<x.set[i].value, others[a - x.fresh + 1][i]>>),
        !.fresh = @ + Len(others)]

\* `positions': those the case looks at, one after the other; only those with
\* a set matter.
LooksAt(y, i, positions) == i \in positions \cap SetPositions(y) /\ y.out = "run"

FirstAt(y, i, t, positions) ==
  IF LooksAt(y, i, positions) THEN CollectAt(y, i, t[i]) ELSE y

MoreAt(y, i, others, positions) ==
  IF LooksAt(y, i, positions) THEN CollectMore(y, i, others) ELSE y

CollectFirst(x, t, positions) ==
  LET a == FirstAt(x, 1, t, positions)
      b == FirstAt(a, 2, t, positions)
      c == FirstAt(b, 3, t, positions)
      d == FirstAt(c, 4, t, positions)
  IN  FirstAt(d, 5, t, positions)

CollectRest(x, others, positions) ==
  LET a == MoreAt(x, 1, others, positions)
      b == MoreAt(a, 2, others, positions)
      c == MoreAt(b, 3, others, positions)
      d == MoreAt(c, 4, others, positions)
  IN  MoreAt(d, 5, others, positions)

Collect(x, constructions, positions) ==
  LET all(t) == CollectRest(CollectFirst(x, t, positions), constructions \ {t}, positions)
  IN  IF constructions = {}
      THEN Unsuccess(x)
      ELSE UNION {Results(all(t), Success(all(t))) : t \in constructions}

ValuelessSet(r) == \E i \in SetPositions(r) : r.set[i].fixed /\ r.set[i].value = Nothing

RejectsSearchSetStr3(r) ==
  MustBeAssigned(r, {2}) \/ Valueless(r, {1, 3}) \/ ValuelessSet(r) \/ FixedOnly(r, {})

CollectArcs(r)    == Collect(r, Find3(r), {2})
CollectSources(r) == Collect(r, Find3(r), {1, 2})
CollectTargets(r) == Collect(r, Find3(r), {2, 3})

SearchSetStr3(x) ==
  Checked(x, RejectsSearchSetStr3,
          LAMBDA r : CASE FixedOnly(r, {1, 3}) -> CollectArcs(r)
                       [] FixedOnly(r, {3})    -> CollectSources(r)
                       [] FixedOnly(r, {1})    -> CollectTargets(r))

RejectsSearchSetStr5(r) ==
  \/ MustBeAssigned(r, {2, 4})
  \/ MustBeArc(r, {2, 4})
  \/ Valueless(r, {1, 3, 5})
  \/ ValuelessSet(r)
  \/ FixedOnly(r, {})

CollectGiven1(r)   == Collect(r, Find5(r), {2, 3, 4, 5})
CollectGiven3(r)   == Collect(r, Find5(r), {1, 2, 4, 5})
CollectGiven13(r)  == Collect(r, Find5(r), {2, 4, 5})
CollectGiven35(r)  == Collect(r, Find5(r), {1, 2, 4})
CollectGiven15(r)  == Collect(r, Find5(r), {2, 3, 4})
CollectGiven135(r) == Collect(r, Find5(r), {2, 4})

\* The iterator has three elements, fifth, arc to the arc and arc: its second
\* stands for the second operand, and its fourth, which it has not, for the
\* fourth.
CollectGiven5(r) ==
  Collect(r, {<<t[1], t[4], t[3], Nothing, t[5]>> : t \in ByRelation(r)}, {1, 2, 3, 4})

SearchSetStr5(x) ==
  Checked(x, RejectsSearchSetStr5,
          LAMBDA r : CASE FixedOnly(r, {1})       -> CollectGiven1(r)
                       [] FixedOnly(r, {5})       -> CollectGiven5(r)
                       [] FixedOnly(r, {3})       -> CollectGiven3(r)
                       [] FixedOnly(r, {1, 3})    -> CollectGiven13(r)
                       [] FixedOnly(r, {3, 5})    -> CollectGiven35(r)
                       [] FixedOnly(r, {1, 5})    -> CollectGiven15(r)
                       [] FixedOnly(r, {1, 3, 5}) -> CollectGiven135(r))

-----------------------------------------------------------------------------
\* eraseEl, eraseElStr3, eraseElStr5, eraseSetStr3, eraseSetStr5

EraseEl(x) ==
  Checked(x, LAMBDA r : ~Fixed(r, 1) \/ Valueless(r, {1}),
             LAMBDA r : Success(Erase(r, {Value(r, 1)})))

\* Of the positions given, in the order given, the first that is marked.
FirstMarked(x, positions) ==
  LET marked == {k \in DOMAIN positions : positions[k] \in Marked(x)}
  IN  {positions[k] : k \in {n \in marked : \A l \in marked : n <= l}}

\* The first marked of `positions', with `also' if that is marked, else the
\* first marked of `rest'.
MarkedWith(x, positions, also, rest) ==
  LET first == FirstMarked(x, positions)
  IN  IF first = {} THEN FirstMarked(x, rest) ELSE first \cup ({also} \cap Marked(x))

ErasePart(x, t, positions) == Erase(x, {t[i] : i \in positions})

EraseOne(x, constructions, positions) ==
  IF constructions = {}
  THEN Unsuccess(x)
  ELSE {Finish(ErasePart(x, t, positions), "success") : t \in constructions}

\* The constructions that are erased when all are yielded in the order p: those
\* that have lost no element yet.
ErasedInOrder(x, p, positions) ==
  LET parts(D) == UNION {{t[i] : i \in positions} : t \in D}
      whole(t, D) == Range(t) \cap Cascade(x, parts(D)) = {}
  IN  {D \in SUBSET Range(p) : \A k \in DOMAIN p :
         p[k] \in D <=> whole(p[k], D \cap {p[j] : j \in 1 .. k - 1})}

EraseAll(x, constructions, positions) ==
  IF constructions = {}
  THEN Unsuccess(x)
  ELSE {Finish(Erase(x, UNION {{t[i] : i \in positions} : t \in D}), "success") :
          D \in UNION {ErasedInOrder(x, p, positions) : p \in SetToSeqs(constructions)}}

Given3 == {{1, 3}, {3}, {1}}

RejectsEraseElStr3(r) ==
  \/ Valueless(r, {1, 2, 3})
  \/ ~Fixed(r, 2) /\ MustBeArc(r, {2})
  \/ \A given \in Given3 : ~FixedOnly(r, given)

ErasedStr3(r) ==
  CASE FixedOnly(r, {1, 3}) -> FirstMarked(r, <<2>>)
    [] FixedOnly(r, {3})    -> FirstMarked(r, <<1, 2>>)
    [] FixedOnly(r, {1})    -> FirstMarked(r, <<3, 2>>)

EraseElStr3(x) ==
  Checked(x, RejectsEraseElStr3, LAMBDA r : EraseOne(r, Find3(r), ErasedStr3(r)))

RejectsEraseSetStr3(r) == RejectsEraseElStr3(r)

EraseSetStr3(x) ==
  Checked(x, RejectsEraseSetStr3, LAMBDA r : EraseAll(r, Find3(r), ErasedStr3(r)))

RejectsEraseElStr5(r) == RejectsSearchElStr5(r)

ErasedGiven1(r)   == MarkedWith(r, <<3, 2>>, 5, <<5, 4>>)
\* Mutant: the third element is left when the first is erased.
ErasedGiven5_One(r) == FirstMarked(r, <<1, 3, 2, 4>>)
ErasedGiven5(r)   == MarkedWith(r, <<1>>, 3, <<3, 2, 4>>)
ErasedGiven3(r)   == MarkedWith(r, <<1, 2>>, 5, <<5, 4>>)
ErasedGiven13(r)  == MarkedWith(r, <<2>>, 5, <<5, 4>>)
ErasedGiven35(r)  == FirstMarked(r, <<1, 2, 4>>)
ErasedGiven15(r)  == FirstMarked(r, <<3, 2, 4>>)
ErasedGiven135(r) == FirstMarked(r, <<2, 4>>)

ErasedStr5(r) ==
  CASE FixedOnly(r, {1})       -> ErasedGiven1(r)
    [] FixedOnly(r, {5})       -> ErasedGiven5(r)
    [] FixedOnly(r, {3})       -> ErasedGiven3(r)
    [] FixedOnly(r, {1, 3})    -> ErasedGiven13(r)
    [] FixedOnly(r, {3, 5})    -> ErasedGiven35(r)
    [] FixedOnly(r, {1, 5})    -> ErasedGiven15(r)
    [] FixedOnly(r, {1, 3, 5}) -> ErasedGiven135(r)

EraseElStr5(x) ==
  Checked(x, RejectsEraseElStr5,
          LAMBDA r : EraseOne(r, IF FixedOnly(r, {5}) THEN ByRelation(r) ELSE Find5(r),
                                 ErasedStr5(r)))

RejectsEraseSetStr5(r) == RejectsSearchElStr5(r)

EraseAllByRelation(r) == EraseAll(r, ByRelation(r), ErasedStr5(r))
\* Mutant: only one construction is erased.
EraseAllByEnds_One(r) == EraseOne(r, Find5(r), ErasedStr5(r))
EraseAllByEnds(r)     == EraseAll(r, Find5(r), ErasedStr5(r))

EraseSetStr5(x) ==
  Checked(x, RejectsEraseSetStr5,
          LAMBDA r : IF FixedOnly(r, {5}) THEN EraseAllByRelation(r) ELSE EraseAllByEnds(r))

-----------------------------------------------------------------------------
\* ifCoin, ifType, ifVarAssign, varAssign, varErase, printEl, print

Answer(x, condition) == IF condition THEN Success(x) ELSE Unsuccess(x)

RejectsQuestion(r) == ~Fixed(r, 1) \/ Valueless(r, {1})

IfCoin(x) ==
  Checked(x, LAMBDA r : Assigned(r) # {} \/ Valueless(r, {1, 2}),
             LAMBDA r : Answer(r, Value(r, 1) = Value(r, 2)))

IfType(x) ==
  Checked(x, RejectsQuestion,
             LAMBDA r : Answer(r, Want(r, 1) \subseteq r.type[Value(r, 1)]))

\* Mutant: it resets its operand like the others.
IfVarAssign_Resets(x) ==
  Checked(x, LAMBDA r : FALSE, LAMBDA r : Answer(r, Value(r, 1) # Nothing))

\* The only one that does not reset its operand.
IfVarAssign(x) == Answer(x, Value(x, 1) # Nothing)

VarAssign(x) ==
  Checked(x, LAMBDA r : Fixed(r, 1) \/ ~Fixed(r, 2) \/ Valueless(r, {2}),
             LAMBDA r : Success(SetValue(r, 1, Value(r, 2))))

VarErase(x) == Checked(x, LAMBDA r : FALSE, Success)

PrintEl(x) == Checked(x, RejectsQuestion, Success)

\* The content of a link may still be no text; sc-memory may answer a request
\* for the content of another element with an exception.
PrintContent(x) ==
  Checked(x, RejectsQuestion,
          LAMBDA r : Error(r) \cup IF IsLink(r.type[Value(r, 1)])
                                   THEN Success(r) ELSE {Finish(r, "thrown")})

-----------------------------------------------------------------------------
\* What a variable's operand reads: the first of its value arcs found.
ValuesRead(x) ==
  LET several == {v \in Variable : \E d, e \in x.value[v] : d # e}
      any(v)  == IF x.value[v] = {} THEN Nothing ELSE CHOOSE e \in x.value[v] : TRUE
      found   == {f \in [several -> UNION {x.value[v] : v \in several}] : \A v \in several : f[v] \in x.value[v]}
  IN  {[v \in Variable |-> IF v \in several THEN f[v] ELSE any(v)] : f \in found}

Read(o, values) ==
  [ addr |-> o.addr, const |-> o.const, fixed |-> o.fixed, type |-> o.type,
    erase |-> o.erase, value |-> IF o.const THEN o.addr ELSE values[o.addr] ]

Parsed(x, job, values) ==
  [x EXCEPT !.operand = [i \in DOMAIN job.operand |-> Read(job.operand[i], values)],
            !.set = [i \in DOMAIN job.set |-> Read(job.set[i], values)],
            !.out = "run"]

Init ==
  /\ kind = "none"
  /\ world \in Worlds
  /\ before = world

Parse ==
  /\ kind = "none"
  /\ \E job \in {j \in Jobs : "template" \notin DOMAIN j}, values \in ValuesRead(world) :
       /\ kind' = job.kind
       /\ world' = Parsed(world, job, values)
       /\ before' = world'

Run(k, results) ==
  /\ kind = k
  /\ world.out = "run"
  /\ world' \in results
  /\ UNCHANGED <<kind, before>>

\* Each interpreter has a table of the operators it creates.
GenOperator ==
  \/ Run("genEl", GenEl(world))
  \/ Run("genElStr3", GenElStr3(world))
  \/ Run("genElStr5", GenElStr5(world))

SearchOperator ==
  \/ Run("searchElStr3", SearchElStr3(world))
  \/ Run("searchElStr5", SearchElStr5(world))
  \/ Run("searchSetStr3", SearchSetStr3(world))
  \/ Run("searchSetStr5", SearchSetStr5(world))

EraseOperator ==
  \/ Run("eraseEl", EraseEl(world))
  \/ Run("eraseElStr3", EraseElStr3(world))
  \/ Run("eraseElStr5", EraseElStr5(world))
  \/ Run("eraseSetStr3", EraseSetStr3(world))
  \/ Run("eraseSetStr5", EraseSetStr5(world))

IfOperator ==
  \/ Run("ifCoin", IfCoin(world))
  \/ Run("ifType", IfType(world))
  \/ Run("ifVarAssign", IfVarAssign(world))

VarValueOperator ==
  \/ Run("varAssign", VarAssign(world))
  \/ Run("varErase", VarErase(world))

PrintOperator ==
  \/ Run("printEl", PrintEl(world))
  \/ Run("print", PrintContent(world))
  \/ Run("printNl", PrintContent(world))

Next ==
  \/ Parse
  \/ GenOperator \/ SearchOperator \/ EraseOperator
  \/ IfOperator \/ VarValueOperator \/ PrintOperator

Spec == Init /\ [][Next]_vars

-----------------------------------------------------------------------------
\* Properties

Operands(address) ==
  [ addr : Variable \cup address, const : BOOLEAN, fixed : BOOLEAN,
    type : SUBSET Flag, erase : BOOLEAN, value : address \cup {Nothing} ]

\* The world, as Init and the operators leave it: connectors have ends that
\* exist, values of variables exist, and so do those of operands until they
\* are erased.
TypeOK ==
  LET address == 1 .. world.fresh - 1
  IN  /\ world.out \in Outcome \cup {"none", "run"}
      /\ IsMemory(world)
      /\ world.value \in [Variable -> SUBSET Exists(world)]
      /\ Range(world.operand) \cup Range(world.set) \subseteq Operands(address)

\* What the operator was to find in the world x, said without its cases: a
\* construction of existing elements with the FIXED values and the types of
\* the others.
Fits(x, t) ==
  \A i \in DOMAIN t : IF Fixed(x, i) THEN t[i] = Value(x, i) ELSE Want(x, i) \subseteq x.type[t[i]]

Constructions(x) ==
  LET arc(a)     == <<Source(x, a), a, Target(x, a)>>
      both(a, r) == <<Source(x, a), a, Target(x, a), r, Source(x, r)>>
      triples  == {arc(a) : a \in Connectors(x)}
      fives    == {both(p[2], p[1]) : p \in {q \in Connectors(x) \X Connectors(x) : Target(x, q[1]) = q[2]}}
  IN  {t \in IF DOMAIN x.operand = 1 .. 3 THEN triples ELSE fives : Fits(x, t)}

\* An execution leads from the world x to y.
SameMemory(x, y) == y.type = x.type /\ y.ends = x.ends

\* Everything there was is still there.
Kept(x, y) ==
  /\ Exists(x) \subseteq Exists(y) /\ Connectors(x) \subseteq Connectors(y)
  /\ Restrict(y.type, Exists(x)) = x.type
  /\ Restrict(y.ends, Connectors(x)) = x.ends

AssignedTo(x, v) == {i \in Assigned(x) : x.operand[i].addr = v}

\* Variables to be assigned hold what `given' says, the others what they did.
Values(x, y, given(_)) ==
  \A v \in Variable : y.value[v] = IF AssignedTo(x, v) = {} THEN x.value[v]
                                  ELSE {given(i) : i \in AssignedTo(x, v)} \ {Nothing}

Searched(x, y) ==
  /\ SameMemory(x, y)
  /\ y.out = "success"   => \E t \in Constructions(x) : Values(x, y, LAMBDA i : t[i])
  /\ y.out = "unsuccess" => Constructions(x) = {} /\ Values(x, y, LAMBDA i : Nothing)

\* A search that succeeds has found a construction that was there, and given
\* each variable to be assigned its element of that one construction, also
\* when the variable is an operand twice; one that fails has missed none, and
\* leaves the variables it was to assign empty.  No memory changes.
SearchOutcome == kind \in {"searchElStr3", "searchElStr5"} => Searched(before, world)

\* The connectors made from s to e, and those due: one for every construction
\* and every set operand that names s, to the element at that operand's place.
Collected(x, y, s, e) == {a \in Connectors(y) \ Exists(x) : y.ends[a] = <<s, e>>}

Due(x, y, s, e) ==
  {p \in Constructions(x) \X SetPositions(y) : y.set[p[2]].value = s /\ p[1][p[2]] = e}

\* What a search by the fifth operand alone collects of arcs is not theirs.
Misplaced(x, k, i) == k = "searchSetStr5" /\ FixedOnly(x, {5}) /\ i \in {2, 4}

CollectedAll(x, y, k) ==
  /\ Kept(x, y)
  /\ y.out = "unsuccess" => Constructions(x) = {} /\ SameMemory(x, y)
  /\ y.out = "success" =>
       LET right == {i \in SetPositions(y) : ~Misplaced(x, k, i)}
           wrong == {y.set[i].value : i \in SetPositions(y) \ right}
       IN  /\ \A s \in Exists(y) \ wrong, e \in Exists(y) :
                Cardinality(Collected(x, y, s, e)) = Cardinality(Due(x, y, s, e))
           /\ \E t \in Constructions(x) : \A i \in right : Value(y, i) = t[i]
           /\ \A i \in Assigned(x) \ SetPositions(y) : Value(y, i) = Nothing

\* A collecting search puts into each set that place of every construction
\* there was, once for each, and connects nothing else; the values it gives are
\* all of one construction, and operands without a set get none.
CollectOutcome == kind \in {"searchSetStr3", "searchSetStr5"} => CollectedAll(before, world, kind)

\* The elements of t that are to be erased: marked, and not given.
ToErase(x, t) == {t[i] : i \in Marked(x) \cap Assigned(x)}

ErasedOne(x, y) ==
  /\ y.out = "success" =>
       \E t \in Constructions(x) : Exists(y) = Exists(x) \ Cascade(x, ToErase(x, t))
  /\ y.out = "unsuccess" => Constructions(x) = {} /\ SameMemory(x, y)

\* Erasing one construction takes all its marked elements with what depends
\* on them, whichever of them the code erases, and nothing else.
EraseOutcome == kind \in {"eraseElStr3", "eraseElStr5"} => ErasedOne(before, world)

ErasedAll(x, y) ==
  /\ y.out = "success" =>
       /\ \A t \in Constructions(x) :
            \/ ToErase(x, t) \cap Exists(y) = {}
            \/ \E u \in Constructions(x) \ {t} : Cascade(x, ToErase(x, u)) \cap Range(t) # {}
       /\ Marked(x) \cap Assigned(x) # {} =>
            \A t \in Constructions(x) : ~(Range(t) \subseteq Exists(y))
       /\ Exists(x) \ Exists(y) \subseteq Cascade(x, UNION {ToErase(x, t) : t \in Constructions(x)})
  /\ y.out = "unsuccess" => Constructions(x) = {} /\ SameMemory(x, y)

\* Erasing all constructions leaves none of them whole; the marked elements of
\* one stay only if erasing another one had broken it, and only marked elements
\* go, with what depends on them.
EraseSetOutcome == kind \in {"eraseSetStr3", "eraseSetStr5"} => ErasedAll(before, world)

Made(x, y, k) ==
  /\ Kept(x, y)
  /\ y.out = "success" =>
       LET new(i) == Value(y, i)
       IN  /\ Exists(y) = Exists(x) \cup {new(i) : i \in Assigned(x)}
           /\ Cardinality(Exists(y)) = Cardinality(Exists(x)) + Cardinality(Assigned(x))
           /\ \A i \in Assigned(x) : y.type[new(i)] = Want(x, i)
           /\ k # "genEl"    => y.ends[new(2)] = <<new(1), new(3)>>
           /\ k = "genElStr5" => y.ends[new(4)] = <<new(5), new(2)>>
           /\ Values(x, y, new)

\* A generation that succeeds has made just the elements to be assigned, of
\* their types and connected as a search for them would have it, and touched
\* nothing else; one that is rejected has made none.
GenOutcome == kind \in {"genEl", "genElStr3", "genElStr5"} => Made(before, world, kind)

RejectedOnly(x, y) ==
  LET emptied(i) == \A j \in Assigned(x) : j <= i => ~x.operand[j].const
  IN  /\ SameMemory(x, y)
      /\ \A v \in Variable :
           y.value[v] = IF \E i \in AssignedTo(x, v) : emptied(i) THEN {} ELSE x.value[v]

\* An operator that ends in error has changed no element, and emptied just the
\* variables to be assigned that come before the first constant among them
\* (sys_gen and sys_search, which empty none: TemplateOutcome).
RejectOutcome ==
  world.out = "error" /\ kind \notin Templated => RejectedOnly(before, world)

\* A variable assigned from another one, or from itself, ends with the one
\* value that was read; operators that only ask change no variable.
VariableOutcome ==
  /\ kind = "varAssign" /\ world.out = "success" =>
       SameMemory(before, world) /\ Values(before, world, LAMBDA i : Value(before, 2))
  /\ kind \in {"ifCoin", "ifType", "ifVarAssign", "printEl", "print", "printNl"} =>
       SameMemory(before, world) /\ (world.out # "error" => world.value = before.value)
=============================================================================
