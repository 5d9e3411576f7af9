-------------------------- MODULE TemplateOperators --------------------------
(***************************************************************************)
(* sys_gen and sys_search: a template, the set it is in, the parameters    *)
(* that replace some of its variables, and what was generated or found for *)
(* the others, put into the sets of operands 4 (optional) and 2.  Building *)
(* a template, generating and searching by it are sc-memory's: a job says  *)
(* what they answer.  Operands are not reset at the start, as those of the *)
(* other operators are.                                                    *)
(*                                                                         *)
(* A world has two more fields:                                            *)
(*    template  [params, built, results] of the job,                       *)
(*    pairs     for each variable of the template that has one, the        *)
(*              element its pair in the set of operand 2 leads to.         *)
(***************************************************************************)
EXTENDS ElementOperators

CONSTANT TemplateVar   \* variables of templates

\* An operator with a template has three operands, and maybe a fourth.  Each of
\* finitely many results replaces some variables by elements there are; only
\* what sys_gen generates is not there before.
ASSUME TemplatesAssumption ==
  /\ \A w \in Worlds : {"template", "pairs"} \cap DOMAIN w = {}
  /\ \A j \in Jobs : j.kind \in Templated =>
       /\ 1 .. 3 \subseteq DOMAIN j.operand /\ 5 \notin DOMAIN j.operand
       /\ IsFiniteSet(j.template.results)
       /\ \A g \in j.template.results :
            /\ IsFiniteSet(DOMAIN g) /\ DOMAIN g \subseteq TemplateVar
            /\ \A v \in DOMAIN g, w \in Worlds :
                 g[v] \in Exists(w) \/ (j.kind = "sys_gen" /\ g[v] = Nothing)

\* Pairs of a variable and its replacement, in which one may be missing and
\* which may repeat a variable.
RejectsParams(x) ==
  LET params == x.template.params
  IN  \/ \E p \in params : Nothing \in Range(p)
      \/ \E p, q \in params : p # q /\ p[1] = q[1]

RejectsTemplate(x) ==
  \/ Assigned(x) \cap {1, 3} # {}
  \/ Valueless(x, {1, 3})
  \/ RejectsParams(x)
  \/ ~x.template.built

\* Operand 2 or 4: the set it names, or a new one.
OpenResult(x, i) ==
  IF i \notin Assigned(x)
  THEN x
  ELSE [GenerateNode(x, ConstNode) EXCEPT
          !.operand[i].value = x.fresh, !.value[x.operand[i].addr] = {x.fresh}]

\* The set of operand 4, if there is one.
FoundSet(x) == IF 4 \in DOMAIN x.operand THEN Value(x, 4) ELSE Nothing

IsIn(x, set, e) == \E a \in Connectors(x) : x.ends[a] = <<set, e>>

AddOnce(x, set, e) ==
  IF set = Nothing \/ IsIn(x, set, e) THEN x ELSE GenerateConnector(x, ConstPermPosArc, set, e)

\* Every pair leads from a variable to its element; none can be put into a set
\* that is not there.
AddPairs(x) ==
  LET y == OpenResult(x, 2)
  IN  IF DOMAIN y.pairs # {} /\ Value(y, 2) = Nothing THEN Finish(y, "thrown") ELSE y

PairWith(x, v, e) == [x EXCEPT !.pairs = With(@, {v}, LAMBDA u : e)]

\* sys_gen: a node of its own for each variable, and no connector from it to
\* what was generated for the variable, unless a parameter gave it (e).
GenerateFor(x, v, e) ==
  LET y == IF e = Nothing THEN GenerateNode(x, ConstNode) ELSE x
      z == AddOnce(y, FoundSet(x), IF e = Nothing THEN x.fresh ELSE e)
  IN  PairWith(GenerateNode(z, ConstNode), v, z.fresh)

GenerateAll(x, g) == FoldSet(LAMBDA v, y : GenerateFor(y, v, g[v]), x, DOMAIN g)

SysGen(x) ==
  IF RejectsTemplate(x) \/ x.template.results = {}
  THEN Error(x)
  ELSE UNION {LET y == AddPairs(GenerateAll(OpenResult(x, 4), g)) IN Results(y, Success(y)) :
                g \in x.template.results}

\* Mutant: what is found is not looked for in the set of operand 4.
FoundAt_Repeated(x, v, e) ==
  LET y == IF v \in DOMAIN x.pairs THEN x ELSE PairWith(GenerateNode(x, ConstNode), v, x.fresh)
      z == AddOnce(y, y.pairs[v], e)
  IN  IF FoundSet(x) = Nothing THEN z ELSE GenerateConnector(z, ConstPermPosArc, FoundSet(x), e)

\* sys_search: a node for each variable, the set of what was found for it.
FoundAt(x, v, e) ==
  LET y == IF v \in DOMAIN x.pairs THEN x ELSE PairWith(GenerateNode(x, ConstNode), v, x.fresh)
  IN  AddOnce(AddOnce(y, y.pairs[v], e), FoundSet(x), e)

FindAll(x, g)        == FoldSet(LAMBDA v, y : FoundAt(y, v, g[v]), x, DOMAIN g)
AddResults(x, results) == FoldSet(LAMBDA g, y : FindAll(y, g), x, results)

SysSearch(x) ==
  LET found == AddPairs(AddResults(OpenResult(x, 4), x.template.results))
  IN  IF RejectsTemplate(x)
      THEN Error(x)
      ELSE Results(found, IF x.template.results = {} THEN Unsuccess(found) ELSE Success(found))

TemplateOperator ==
  \/ Run("sys_gen", SysGen(world))
  \/ Run("sys_search", SysSearch(world))

\* The operator's template comes with its operands.
WithTemplate(x, template) ==
  With(x, {"template", "pairs"}, LAMBDA f : IF f = "template" THEN template ELSE <<>>)

ParseTemplate ==
  /\ kind = "none"
  /\ \E job \in {j \in Jobs : "template" \in DOMAIN j}, values \in ValuesRead(world) :
       /\ kind' = job.kind
       /\ world' = WithTemplate(Parsed(world, job, values), job.template)
       /\ before' = world'

TemplateNext == Next \/ ParseTemplate \/ TemplateOperator

TemplateSpec == Init /\ [][TemplateNext]_vars

-----------------------------------------------------------------------------
\* Properties

\* What the set s holds, and what it holds in y that it did not in x.
MembersOf(x, s) == {Target(x, a) : a \in {b \in Connectors(x) : Source(x, b) = s}}

Added(x, y, s) == MembersOf(y, s) \ MembersOf(x, s)

FoundFor(x, v) == {g[v] : g \in {h \in x.template.results : v \in DOMAIN h}}

\* A search by template makes one set for each variable, holding just what was
\* found for it in all results, adds all of it to the set of operand 4, and
\* gives a new set to operand 2, or to 4, also when nothing was found.
SearchedByTemplate(x, y) ==
  /\ y.out = "unsuccess" <=> x.template.results = {}
  /\ \A v \in TemplateVar :
       /\ v \in DOMAIN y.pairs <=> FoundFor(x, v) # {}
       /\ FoundFor(x, v) # {} => MembersOf(y, y.pairs[v]) = FoundFor(x, v)
  /\ FoundSet(y) # Nothing =>
       UNION {FoundFor(x, v) : v \in TemplateVar} \subseteq MembersOf(y, FoundSet(y))

\* A generation adds what it generated and what its parameters gave to the set
\* of operand 4.
GeneratedByTemplate(x, y) ==
  \E g \in x.template.results :
    LET new == Added(x, y, FoundSet(y))
    IN  /\ DOMAIN y.pairs = DOMAIN g
        /\ FoundSet(y) # Nothing =>
             /\ Range(g) \ {Nothing} \subseteq MembersOf(y, FoundSet(y))
             /\ new \cap Exists(x) \subseteq Range(g)
             /\ Cardinality(new \ Exists(x)) = Cardinality({v \in DOMAIN g : g[v] = Nothing})

ByTemplate(k, x, y) ==
  /\ Kept(x, y)
  /\ y.out = "error" => SameMemory(x, y) /\ y.value = x.value
  /\ y.out \in {"success", "unsuccess"} =>
       /\ \A i \in {2, 4} \cap Assigned(y) : Value(y, i) \notin Exists(x)
       /\ \A a, b \in Connectors(y) \ Connectors(x) : y.ends[a] = y.ends[b] => a = b
       /\ IF k = "sys_search" THEN SearchedByTemplate(x, y) ELSE GeneratedByTemplate(x, y)

\* An operator with a template that is rejected changes nothing; one that is
\* not gives new sets to the operands to be assigned, fills them as said above
\* and puts nothing into one of them twice.  Neither removes anything.
TemplateOutcome == kind \in Templated => ByTemplate(kind, before, world)
=============================================================================
