------------------------------ MODULE Elements ------------------------------
(***************************************************************************)
(* sc-memory as the operators call it: typed elements, connectors with two *)
(* ends, iterators over three- and five-element constructions.  It is not  *)
(* part of the repository.  A memory m has the fields                      *)
(*    type   the type flags of each element that exists,                   *)
(*    ends   the source and the target of each connector,                  *)
(*    fresh  the next address to be given out.                             *)
(* A type is a set of flags, so that `(t & want) == want' is `want         *)
(* \subseteq t' and ScType::Unknown, {}, fits every element.               *)
(* Value arcs of variables are kept apart (ElementOperators): they are     *)
(* temporary arcs, which the types asked for here never fit.               *)
(***************************************************************************)
EXTENDS Naturals, FiniteSets, Sequences, Functions, TLC

Nothing == 0  \* an invalid ScAddr

Exists(m)     == DOMAIN m.type
Connectors(m) == DOMAIN m.ends
Source(m, a)  == m.ends[a][1]
Target(m, a)  == m.ends[a][2]

IsNode(t) == "node" \in t
IsLink(t) == "link" \in t

OfType(m, want) == {e \in Exists(m) : want \subseteq m.type[e]}

\* f, and v at the points of D.
With(f, D, v(_)) == [d \in DOMAIN f \cup D |-> IF d \in D THEN v(d) ELSE f[d]]

GenerateNode(m, t) ==
  [m EXCEPT !.type = With(@, {m.fresh}, LAMBDA e : t), !.fresh = @ + 1]

GenerateConnector(m, t, source, target) ==
  [m EXCEPT !.type = With(@, {m.fresh}, LAMBDA e : t),
            !.ends = With(@, {m.fresh}, LAMBDA e : <<source, target>>),
            !.fresh = @ + 1]

\* Only a connector type makes a connector, and only between elements.
CanConnect(m, t, source, target) ==
  "arc" \in t /\ {source, target} \subseteq Exists(m)

\* What goes with the elements of S: the connectors at them, and so on.
Hangs(m, S) ==
  {a \in Connectors(m) : \A K \in SUBSET Connectors(m) :
     (\A b \in Connectors(m) :
        Source(m, b) \in S \cup K \/ Target(m, b) \in S \cup K => b \in K) => a \in K}

Cascade(m, S) == (S \cap Exists(m)) \cup Hangs(m, S)

Without(m, S) ==
  [m EXCEPT !.type = Restrict(@, DOMAIN @ \ S), !.ends = Restrict(@, DOMAIN @ \ S)]

\* What an iterator yields: <<source, arc, target>>, and with an arc that
\* leads from a fifth element to the first arc,
\* <<source, arc, target, arc to the arc, its source>>.
Iterator3(m, sources, arcs, targets) ==
  { <<Source(m, a), a, Target(m, a)>> :
      a \in {b \in Connectors(m) \cap arcs :
               Source(m, b) \in sources /\ Target(m, b) \in targets} }

Iterator5(m, sources, arcs, targets, arcs2, sources2) ==
  UNION { { <<t[1], t[2], t[3], r[2], r[1]>> : r \in Iterator3(m, sources2, arcs2, {t[2]}) } :
            t \in Iterator3(m, sources, arcs, targets) }
=============================================================================
